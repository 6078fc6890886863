----------------------------- MODULE RestorePoints -----------------------------
(***************************************************************************)
(* What the files of a disk promise to whoever mounts one of its           *)
(* checkpoints: each minute that is over has a point, which gives for      *)
(* every block a version and the minute it was stored in.  Points of such  *)
(* minutes do not change; only what was stored up to the minute expired    *)
(* may go, and then an earlier version takes its place, or none.           *)
(***************************************************************************)
EXTENDS Integers

CONSTANTS
    Minute,  \* the minutes points can be of
    Block    \* the blocks of the disk

VARIABLES
    over,    \* the minutes nothing is stored for any more
    point,   \* per minute and block, the version and the minute it was stored in
    expired  \* what was stored up to this minute may go

vars == <<over, point, expired>>

\* A file that does not exist is of minute -1.
Nothing == -1

Init ==
    /\ over = {} /\ expired = Nothing
    /\ \A c \in Minute, b \in Block : point[c][b].file = Nothing

\* Time passes and changes are stored: more minutes are over, the points of
\* those that were stay.
Advance ==
    /\ over \subseteq over'
    /\ \A c \in over : point'[c] = point[c]
    /\ UNCHANGED expired

\* An earlier version takes the place of one that has expired.
FallsBack(c, b) ==
    /\ Nothing < point[c][b].file /\ point[c][b].file <= expired'
    /\ point'[c][b].file < point[c][b].file

Retire ==
    /\ expired <= expired'
    /\ \A c \in over, b \in Block :
          point'[c][b] = point[c][b] \/ FallsBack(c, b)
    /\ UNCHANGED over

Next == Advance \/ Retire

Spec == Init /\ [][Next]_vars
=============================================================================
