---------------------------- MODULE ChangeCapture ----------------------------
(***************************************************************************)
(* What the live change tracking of blxrep promises, block by block: a     *)
(* version written on the agent's disk is sooner or later captured by the  *)
(* dispatcher, or is known to be forgone (a full ring buffer, a full       *)
(* channel, a broken connection...).  Nothing that was never written is    *)
(* captured, and what is captured never goes back.  Module LiveSync is the *)
(* pipeline of the code and implements this specification.                 *)
(***************************************************************************)
EXTENDS Naturals

CONSTANT Block

VARIABLES
    written,    \* written[b]: the number of writes block b has seen
    captured,   \* captured[b]: the newest version of b the dispatcher holds
    forgone     \* the versions [blk, ver] some loss in the code gave up

cvars == <<written, captured, forgone>>

Version == [blk : Block, ver : Nat]

CInit ==
    /\ written  = [b \in Block |-> 0]
    /\ captured = [b \in Block |-> 0]
    /\ forgone  = {}

DiskWrite(b) ==
    /\ written' = [written EXCEPT ![b] = @ + 1]
    /\ forgone' \in {forgone, forgone \cup {[blk |-> b, ver |-> written[b] + 1]}}
    /\ UNCHANGED captured

\* The dispatcher gets hold of a version it did not have.  The versions in
\* between need not be captured: an image is made of the last ones.
Capture(b) ==
    /\ \E v \in 0..written[b] :
          /\ captured[b] < v
          /\ captured' = [captured EXCEPT ![b] = v]
    /\ UNCHANGED <<written, forgone>>

\* A step may forgo versions of several blocks (a message with many blocks),
\* but only versions that were written.
Forgo ==
    /\ forgone \subseteq forgone'
    /\ \A f \in forgone' : f \in Version /\ f.ver <= written[f.blk]
    /\ UNCHANGED <<written, captured>>

CNext ==
    \/ \E b \in Block : DiskWrite(b) \/ Capture(b)
    \/ Forgo

CSafe == CInit /\ [][CNext]_cvars

\* The full promise: when nothing is forgone, every block is captured.
CSpec == CSafe /\ \A b \in Block : WF_cvars(Capture(b))
=============================================================================
