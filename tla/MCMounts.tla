------------------------------- MODULE MCMounts -------------------------------
(* Small instances of Mounts for TLC. *)
EXTENDS Mounts

NoFaults      == {}
RestartFaults == {"restart"}

\* Bound: nothing after the end of a merge, as the next one starts afresh.
OneMerge == mount.pc \notin Ended \ {"idle"}

\* Bound: while no job is at work and there is one image at most, a block is
\* written as often as MaxVer says, otherwise once; no image of the last minute.
Quiet == cleaner.pc = "idle" /\ archiving = NoArch /\ Images \subseteq {0}

SmallMerge ==
    /\ OneMerge
    /\ MaxTime \div Minute \notin Images
    /\ Quiet \/ \A b \in Block : disk[b] <= 1
=============================================================================
