----------------------------- MODULE BlockRanges -----------------------------
(***************************************************************************)
(* From the change records of a disk to the block ranges that SyncData     *)
(* asks the agent for (pkg/dispatcher/live.go: sortAndDeduplicate,         *)
(* expandSyncRange, expandBlockPairs), as the loops of the code.           *)
(*                                                                         *)
(* A range is a record [start, end], both ends included: that is how       *)
(* ReadDataBlocks on the agent reads it.                                   *)
(***************************************************************************)
EXTENDS Integers, Sequences

CONSTANTS
    Delta,      \* BLOCK_DELTA
    Width,      \* block numbers are computed modulo Width (2^64)
    LastBlock,  \* greatest block number in a change record
    Sizes,      \* sizes the dispatcher may find for the device path
    MaxPairs    \* bound: number of change records

ASSUME DeltaAssumption == Delta \in Nat
ASSUME WidthAssumption == Width \in Nat \ {0}
ASSUME BlockAssumption == LastBlock \in Nat /\ LastBlock + Delta + 1 < Width
ASSUME SizesAssumption == Sizes \subseteq 1..Width-1
ASSUME PairsAssumption == MaxPairs \in Nat

BlockRange == [start : 0..Width-1, end : 0..Width-1]

\* What eBPF reports: start = sector, end = sector + nr_sector.
Record == {p \in BlockRange : p.start <= p.end /\ p.end <= LastBlock}

VARIABLES
    input,    \* history: the records as they were read
    force,    \* SyncData's parameter: skip sorting and merging
    total,    \* totalBlocks as the dispatcher determined it
    pc,
    pairs,    \* the slice being sorted and merged
    i,        \* loop variable of both loops
    current,  \* the range being merged
    result,   \* the merged ranges
    expanded  \* the widened ranges

vars == <<input, force, total, pc, pairs, i, current, result, expanded>>

Lists(S) == UNION {[1..n -> S] : n \in 0..MaxPairs}

NoRange == [start |-> 0, end |-> 0]

Init ==
    /\ input \in Lists(Record)
    /\ force \in BOOLEAN
    /\ total \in Sizes
    /\ pc = "sort"
    /\ pairs = input
    /\ i = 0 /\ current = NoRange /\ result = <<>> /\ expanded = <<>>

-----------------------------------------------------------------------------
Before(p, q) == p.start < q.start \/ (p.start = q.start /\ p.end <= q.end)

Sorted(s) == \A j, k \in DOMAIN s : j < k => Before(s[j], s[k])

Rearrangements(s) ==
    {[j \in DOMAIN s |-> s[f[j]]] :
        f \in {g \in [DOMAIN s -> DOMAIN s] : \A k \in DOMAIN s : \E j \in DOMAIN s : g[j] = k}}

\* "if !force": without force the slice goes through sortAndDeduplicate, which
\* returns early when there is nothing to merge.
SkipMerge ==
    /\ pc = "sort" /\ (force \/ Len(pairs) <= 1)
    /\ result' = pairs
    /\ pc' = "expand" /\ i' = 1
    /\ UNCHANGED <<input, force, total, pairs, current, expanded>>

Sort ==
    /\ pc = "sort" /\ ~force /\ Len(pairs) > 1
    /\ \E s \in Rearrangements(pairs) :
          /\ Sorted(s)
          /\ pairs' = s
          /\ current' = s[1]
    /\ pc' = "merge" /\ i' = 2
    /\ UNCHANGED <<input, force, total, result, expanded>>

\* Mutant: adjacent ranges are not seen as one.
TouchesInside(p, q) == q.start <= p.end

\* Range q, not before p, overlaps p or is adjacent to it.
Touches(p, q) == q.start <= (p.end + 1) % Width

\* Mutant: the current range always ends where the next one does.
MergeShrinking ==
    /\ pc = "merge" /\ i <= Len(pairs)
    /\ Touches(current, pairs[i])
    /\ current' = [current EXCEPT !.end = pairs[i].end]
    /\ i' = i + 1
    /\ UNCHANGED <<input, force, total, pc, pairs, result, expanded>>

\* The current range grows.
Merge ==
    /\ pc = "merge" /\ i <= Len(pairs)
    /\ Touches(current, pairs[i])
    /\ current' = IF pairs[i].end > current.end
                  THEN [current EXCEPT !.end = pairs[i].end] ELSE current
    /\ i' = i + 1
    /\ UNCHANGED <<input, force, total, pc, pairs, result, expanded>>

Separate ==
    /\ pc = "merge" /\ i <= Len(pairs)
    /\ ~Touches(current, pairs[i])
    /\ result' = Append(result, current)
    /\ current' = pairs[i]
    /\ i' = i + 1
    /\ UNCHANGED <<input, force, total, pc, pairs, expanded>>

EndMerge ==
    /\ pc = "merge" /\ i > Len(pairs)
    /\ result' = Append(result, current)
    /\ pc' = "expand" /\ i' = 1
    /\ UNCHANGED <<input, force, total, pairs, current, expanded>>

(* expandSyncRange *)

\* Mutant: no test for the start of the device.
WidenedStartUncut(s) == s - Delta

WidenedStart(s) == IF s <= Delta THEN 0 ELSE s - Delta

\* Mutant: the size is taken for the last block.
WidenedEndPast(e, size) ==
    IF (e + Delta) % Width >= size THEN size ELSE (e + Delta) % Width

WidenedEnd(e, size) ==
    IF (e + Delta) % Width >= size THEN (size - 1) % Width ELSE (e + Delta) % Width

Widen(p, size) == [start |-> WidenedStart(p.start), end |-> WidenedEnd(p.end, size)]

\* The loop of expandBlockPairs.
Expand ==
    /\ pc = "expand" /\ i <= Len(result)
    /\ expanded' = Append(expanded, Widen(result[i], total))
    /\ i' = i + 1
    /\ UNCHANGED <<input, force, total, pc, pairs, current, result>>

Finish ==
    /\ pc = "expand" /\ i > Len(result)
    /\ pc' = "done"
    /\ UNCHANGED <<input, force, total, pairs, i, current, result, expanded>>

Next == SkipMerge \/ Sort \/ Merge \/ Separate \/ EndMerge \/ Expand \/ Finish

Spec == Init /\ [][Next]_vars

-----------------------------------------------------------------------------
(* Properties *)

\* Block x is in range p; x is in some range of list s.
In(x, p) == p.start <= x /\ x <= p.end
Covered(x, s) == \E j \in DOMAIN s : In(x, s[j])

TypeOK ==
    /\ input \in Seq(Record) /\ pairs \in Seq(Record)
    /\ force \in BOOLEAN /\ total \in Sizes
    /\ pc \in {"sort", "merge", "expand", "done"}
    /\ i \in Nat /\ current \in Record
    /\ result \in Seq(Record) /\ expanded \in Seq(BlockRange)

\* Block x is in what the code holds: the records, then the merged ranges with
\* the current one and the records still to come, then the merged ranges.
Held(x) ==
    \/ pc = "sort" /\ Covered(x, pairs)
    \/ /\ pc = "merge"
       /\ \/ Covered(x, result)
          \/ In(x, current)
          \/ \E j \in DOMAIN pairs : j >= i /\ In(x, pairs[j])
    \/ pc \in {"expand", "done"} /\ Covered(x, result)

\* Merging neither drops a changed block nor invents one, at any turn of the
\* loop of sortAndDeduplicate.
MergeExact == \A x \in 0..LastBlock : Covered(x, input) <=> Held(x)

\* After merging, ranges are in order and at least one block apart, so that a
\* chunk boundary never splits two ranges that belong together.
Separated ==
    (pc \in {"expand", "done"} /\ ~force) =>
        \A j, k \in DOMAIN result : j < k => result[j].end + 1 < result[k].start

\* Reference: the blocks within Delta of a changed block that the device has.
Wanted(x) ==
    /\ x < total
    /\ \E j \in DOMAIN input : input[j].start - Delta <= x /\ x <= input[j].end + Delta

\* The request is exactly the neighbourhood of the changes, on the device as
\* large as the dispatcher takes it to be.
RequestExact ==
    pc = "done" => \A x \in 0..Width-1 : Covered(x, expanded) <=> Wanted(x)

=============================================================================
