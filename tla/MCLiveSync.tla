----------------------------- MODULE MCLiveSync -----------------------------
(***************************************************************************)
(* Small instances of LiveSync.                                            *)
(***************************************************************************)
EXTENDS LiveSync, TLC

NoFaults   == {}
SomeFaults == AllFaults

\* Bound: of two blocks, one is written once.
OneTwice == disk[N - 1].ver <= 1

\* Bound: either only the last block is written, and requested alone, so that two
\* goroutines may race for it; or one block is written once, and one goroutine
\* reads for it at a time, over two blocks of which the first may fail.
RaceOrMisread ==
    \/ disk[0].ver = 0
    \/ disk[0].ver + disk[N - 1].ver <= 1 /\ \E r \in Reader : reader[r] = IdleReader

ReaderSymmetry == Permutations(Reader)
=============================================================================
