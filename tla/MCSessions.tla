----------------------------- MODULE MCSessions -----------------------------
(***************************************************************************)
(* Small instances of Sessions: one disk, excluded at first.               *)
(***************************************************************************)
EXTENDS Sessions

LaterWanted == [v \in 1..MaxPolicy |-> IF v = MaxPolicy THEN Disk ELSE {}]
=============================================================================
