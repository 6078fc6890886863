----------------------------- MODULE MCRestores -----------------------------
(***************************************************************************)
(* Small instances of Restores.                                            *)
(***************************************************************************)
EXTENDS Restores

TwoPieces == [a \in Action |-> 2]

TwoAndThree == [a \in Action |-> IF a = 1 THEN 2 ELSE 3]

\* The destination of a partition is a partition, as the user interface
\* proposes; the path it was read from is a plain file.
Partitions == Action \X {"dest"}
=============================================================================
