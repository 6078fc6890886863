-------------------------- MODULE BlockRangesProofs --------------------------
(***************************************************************************)
(* Sorting, merging and widening of change records: safety for every list  *)
(* of records, device size and delta.                                      *)
(***************************************************************************)
EXTENDS BlockRanges, TLAPS

LEMMA SmallMod ==
    ASSUME NEW a \in Nat, NEW w \in Nat \ {0}, a < w PROVE a % w = a
OBVIOUS

\* No block number of a record wraps around when BLOCK_DELTA or 1 is added.
LEMMA NoWrap ==
    ASSUME NEW e \in 0..LastBlock
    PROVE  (e + 1) % Width = e + 1 /\ (e + Delta) % Width = e + Delta
<1>1. /\ e + 1 \in Nat /\ e + 1 < Width
      /\ e + Delta \in Nat /\ e + Delta < Width
      /\ Width \in Nat \ {0}
    BY BlockAssumption, DeltaAssumption, WidthAssumption
<1> QED BY <1>1, SmallMod

LEMMA RecordFacts ==
    ASSUME NEW p \in Record
    PROVE  /\ p.start \in Nat /\ p.end \in Nat
           /\ p.start <= p.end /\ p.end \in 0..LastBlock /\ p.start \in 0..LastBlock
BY WidthAssumption, BlockAssumption DEF Record, BlockRange

LEMMA SizeFacts ==
    ASSUME NEW size \in Sizes PROVE size \in Nat /\ size >= 1 /\ size < Width
BY SizesAssumption, WidthAssumption

\* What widening does to a record.
LEMMA WidenFacts ==
    ASSUME NEW p \in Record, NEW size \in Sizes
    PROVE  /\ Widen(p, size) \in BlockRange
           /\ \A x \in Nat : In(x, Widen(p, size)) <=>
                 x < size /\ p.start - Delta <= x /\ x <= p.end + Delta
<1>1. /\ p.start \in Nat /\ p.end \in Nat
      /\ p.start <= p.end /\ p.end \in 0..LastBlock
    BY RecordFacts
<1>2. (p.end + Delta) % Width = p.end + Delta
    BY <1>1, NoWrap
<1>3. size \in Nat /\ size >= 1 /\ size < Width /\ Delta \in Nat /\ Width \in Nat
    BY SizeFacts, DeltaAssumption, WidthAssumption
<1>4. (size - 1) % Width = size - 1
    BY <1>3, WidthAssumption
<1>5. WidenedEnd(p.end, size) = IF p.end + Delta >= size THEN size - 1 ELSE p.end + Delta
    BY <1>2, <1>4 DEF WidenedEnd
<1>6. WidenedStart(p.start) = IF p.start <= Delta THEN 0 ELSE p.start - Delta
    BY DEF WidenedStart
<1>7. /\ WidenedEnd(p.end, size) \in 0..Width-1
      /\ WidenedStart(p.start) \in 0..Width-1
    BY <1>1, <1>3, <1>5, <1>6, BlockAssumption
<1>8. /\ Widen(p, size).start = WidenedStart(p.start)
      /\ Widen(p, size).end = WidenedEnd(p.end, size)
    BY DEF Widen
<1>9. Widen(p, size) \in BlockRange
    BY <1>7 DEF Widen, BlockRange
<1>10. ASSUME NEW x \in Nat
       PROVE In(x, Widen(p, size)) <=> x < size /\ p.start - Delta <= x /\ x <= p.end + Delta
    BY <1>1, <1>3, <1>5, <1>6, <1>8 DEF In
<1> QED BY <1>9, <1>10

\* What appending a range adds.
LEMMA AppendSeq ==
    ASSUME NEW S, NEW s \in Seq(S), NEW e \in S
    PROVE  /\ Append(s, e) \in Seq(S)
           /\ Len(s) \in Nat /\ Len(Append(s, e)) = Len(s) + 1
           /\ DOMAIN s = 1..Len(s) /\ DOMAIN Append(s, e) = 1..Len(s) + 1
           /\ Append(s, e)[Len(s) + 1] = e
           /\ \A j \in 1..Len(s) : Append(s, e)[j] = s[j]
OBVIOUS

LEMMA AppendCovers ==
    ASSUME NEW s \in Seq(BlockRange), NEW e \in BlockRange, NEW x
    PROVE  Covered(x, Append(s, e)) <=> Covered(x, s) \/ In(x, e)
<1> DEFINE t == Append(s, e)
           n == Len(s)
<1>1. /\ n \in Nat /\ DOMAIN s = 1..n /\ DOMAIN t = 1..n+1
      /\ t[n + 1] = e /\ \A j \in 1..n : t[j] = s[j]
    BY AppendSeq
<1> HIDE DEF t, n
<1>2. ASSUME Covered(x, t) PROVE Covered(x, s) \/ In(x, e)
    BY <1>1, <1>2 DEF Covered
<1>3. ASSUME Covered(x, s) PROVE Covered(x, t)
    BY <1>1, <1>3 DEF Covered
<1>4. ASSUME In(x, e) PROVE Covered(x, t)
    <2>1. n + 1 \in DOMAIN t
        BY <1>1
    <2> QED BY <1>1, <1>4, <2>1 DEF Covered
<1> QED BY <1>2, <1>3, <1>4 DEF t

LEMMA RecordSeq ==
    ASSUME NEW s \in Seq(Record) PROVE s \in Seq(BlockRange)
BY DEF Record

\* Sorting keeps the records.
LEMMA RearrangementFacts ==
    ASSUME NEW s \in Seq(Record), NEW t \in Rearrangements(s)
    PROVE  /\ t \in Seq(Record) /\ Len(t) = Len(s)
           /\ \A x : Covered(x, t) <=> Covered(x, s)
<1> PICK f \in [DOMAIN s -> DOMAIN s] :
        /\ \A k \in DOMAIN s : \E j \in DOMAIN s : f[j] = k
        /\ t = [j \in DOMAIN s |-> s[f[j]]]
    BY DEF Rearrangements
<1>1. DOMAIN t = DOMAIN s /\ DOMAIN s = 1..Len(s) /\ Len(s) \in Nat
    OBVIOUS
<1>2. \A j \in DOMAIN s : t[j] = s[f[j]] /\ f[j] \in DOMAIN s /\ t[j] \in Record
    OBVIOUS
<1>3. t \in Seq(Record) /\ Len(t) = Len(s)
    BY <1>1, <1>2
<1>4. ASSUME NEW x PROVE Covered(x, t) <=> Covered(x, s)
    BY <1>1, <1>2 DEF Covered
<1> QED BY <1>3, <1>4

-----------------------------------------------------------------------------
(* The inductive invariant *)

Apart(s) == \A j, k \in DOMAIN s : j < k => s[j].end + 1 < s[k].start

\* While merging, the records to come start at or after the current range, and
\* what is already in the result ends before it.
Merging ==
    pc = "merge" =>
        /\ ~force /\ i >= 1 /\ expanded = <<>>
        /\ Sorted(pairs)
        /\ \A k \in DOMAIN pairs : k >= i => current.start <= pairs[k].start
        /\ Apart(result)
        /\ \A j \in DOMAIN result : result[j].end + 1 < current.start

\* The first i-1 ranges have been widened.
Expanding ==
    pc = "expand" =>
        /\ i \in 1..Len(result)+1
        /\ Len(expanded) = i - 1

Done == pc = "done" => Len(expanded) = Len(result)

Widened ==
    /\ Len(expanded) <= Len(result)
    /\ \A j \in 1..Len(expanded) : expanded[j] = Widen(result[j], total)

Fresh == pc = "sort" => result = <<>> /\ expanded = <<>> /\ pairs = input

IInv ==
    /\ TypeOK /\ Fresh /\ Merging /\ Expanding /\ Done /\ Widened
    /\ MergeExact /\ Separated

LEMMA InitIInv == Init => IInv
<1> SUFFICES ASSUME Init PROVE IInv
    OBVIOUS
<1>1. input \in Seq(Record)
    BY DEF Init, Lists
<1>2. NoRange \in Record
    BY BlockAssumption, WidthAssumption DEF NoRange, Record, BlockRange
<1>3. TypeOK
    BY <1>1, <1>2 DEF Init, TypeOK
<1>4. Fresh /\ Merging /\ Expanding /\ Done /\ Separated
    BY DEF Init, Fresh, Merging, Expanding, Done, Separated
<1>5. Widened
    BY DEF Init, Widened
<1>6. MergeExact
    BY DEF Init, MergeExact, Held
<1> QED BY <1>3, <1>4, <1>5, <1>6 DEF IInv

LEMMA SkipMergeIInv == ASSUME IInv, SkipMerge PROVE IInv'
<1>1. /\ pc = "sort" /\ (force \/ Len(pairs) <= 1)
      /\ result' = pairs /\ pc' = "expand" /\ i' = 1
      /\ UNCHANGED <<input, force, total, pairs, current, expanded>>
    BY DEF SkipMerge
<1>2. /\ pairs \in Seq(Record) /\ pairs = input /\ expanded = <<>>
    BY <1>1 DEF IInv, TypeOK, Fresh
<1>3. TypeOK'
    BY <1>1, <1>2 DEF IInv, TypeOK
<1>4. Len(pairs) \in Nat /\ DOMAIN pairs = 1..Len(pairs) /\ Len(expanded) = 0
    BY <1>2
<1>5. Fresh' /\ Merging' /\ Expanding' /\ Done' /\ Widened'
    BY <1>1, <1>4 DEF Fresh, Merging, Expanding, Done, Widened
<1>6. MergeExact'
    BY <1>1, <1>2 DEF MergeExact, Held, Covered
<1>7. Separated'
    BY <1>1, <1>4 DEF Separated
<1> QED BY <1>3, <1>5, <1>6, <1>7 DEF IInv

LEMMA SortIInv == ASSUME IInv, Sort PROVE IInv'
<1>1. /\ pc = "sort" /\ ~force /\ Len(pairs) > 1
      /\ pc' = "merge" /\ i' = 2
      /\ UNCHANGED <<input, force, total, result, expanded>>
    BY DEF Sort
<1> PICK s \in Rearrangements(pairs) : Sorted(s) /\ pairs' = s /\ current' = s[1]
    BY DEF Sort
<1>2. pairs \in Seq(Record) /\ pairs = input /\ result = <<>> /\ expanded = <<>>
    BY <1>1 DEF IInv, TypeOK, Fresh
<1>3. /\ s \in Seq(Record) /\ Len(s) = Len(pairs)
      /\ \A x : Covered(x, s) <=> Covered(x, pairs)
    BY <1>2, RearrangementFacts
<1>4. /\ DOMAIN s = 1..Len(s) /\ Len(s) \in Nat /\ Len(s) > 1
      /\ 1 \in DOMAIN s /\ s[1] \in Record
    BY <1>1, <1>3
<1>5. TypeOK'
    BY <1>1, <1>3, <1>4 DEF IInv, TypeOK
<1>6. \A k \in DOMAIN s : k >= 2 => s[1].start <= s[k].start
    <2> SUFFICES ASSUME NEW k \in DOMAIN s, k >= 2 PROVE s[1].start <= s[k].start
        OBVIOUS
    <2>1. Before(s[1], s[k])
        BY <1>4 DEF Sorted
    <2>2. s[k] \in Record
        BY <1>3
    <2>3. s[1].start \in Nat /\ s[k].start \in Nat
        BY <1>4, <2>2, RecordFacts
    <2> QED BY <2>1, <2>3 DEF Before
<1>7. DOMAIN result = {} /\ Len(result) = 0 /\ Len(expanded) = 0
    BY <1>2
<1>8. Merging'
    BY <1>1, <1>2, <1>6, <1>7 DEF Merging, Apart, Sorted, Before
<1>9. Fresh' /\ Expanding' /\ Done' /\ Widened' /\ Separated'
    BY <1>1, <1>7 DEF Fresh, Expanding, Done, Widened, Separated
<1>10. MergeExact'
    <2> SUFFICES ASSUME NEW x \in 0..LastBlock PROVE Covered(x, input) <=> Held(x)'
        BY <1>1 DEF MergeExact, Covered
    <2>1. Covered(x, input) <=> Covered(x, s)
        BY <1>2, <1>3
    <2>2. Covered(x, s) <=> In(x, s[1]) \/ \E j \in DOMAIN s : j >= 2 /\ In(x, s[j])
        BY <1>4 DEF Covered
    <2>3. Held(x)' <=> In(x, s[1]) \/ \E j \in DOMAIN s : j >= 2 /\ In(x, s[j])
        BY <1>1, <1>7 DEF Held, Covered, In
    <2> QED BY <2>1, <2>2, <2>3
<1> QED BY <1>5, <1>8, <1>9, <1>10 DEF IInv

\* The facts both turns of the merging loop start from.
LEMMA LoopFacts ==
    ASSUME IInv, pc = "merge", i <= Len(pairs)
    PROVE  /\ pairs \in Seq(Record) /\ DOMAIN pairs = 1..Len(pairs) /\ Len(pairs) \in Nat
           /\ i \in Nat /\ i \in DOMAIN pairs /\ pairs[i] \in Record /\ current \in Record
           /\ pairs[i].start \in Nat /\ pairs[i].end \in Nat
           /\ current.start \in Nat /\ current.end \in Nat
           /\ pairs[i].start <= pairs[i].end /\ current.start <= current.end
           /\ current.start <= pairs[i].start
           /\ Touches(current, pairs[i]) <=> pairs[i].start <= current.end + 1
           /\ \A k \in DOMAIN pairs : k >= i + 1 => /\ pairs[i].start <= pairs[k].start
                                                    /\ current.start <= pairs[k].start
           /\ result \in Seq(Record) /\ expanded = <<>>
<1>1. /\ pairs \in Seq(Record) /\ i \in Nat /\ current \in Record /\ result \in Seq(Record)
      /\ i >= 1 /\ expanded = <<>> /\ Sorted(pairs)
      /\ \A k \in DOMAIN pairs : k >= i => current.start <= pairs[k].start
    BY DEF IInv, TypeOK, Merging
<1>2. DOMAIN pairs = 1..Len(pairs) /\ Len(pairs) \in Nat
    BY <1>1
<1>3. i \in DOMAIN pairs
    BY <1>1, <1>2
<1>4. pairs[i] \in Record
    BY <1>1, <1>3
<1>5. /\ pairs[i].start \in Nat /\ pairs[i].end \in Nat
      /\ current.start \in Nat /\ current.end \in Nat /\ current.end \in 0..LastBlock
      /\ pairs[i].start <= pairs[i].end /\ current.start <= current.end
    BY <1>1, <1>4, RecordFacts
<1>6. Touches(current, pairs[i]) <=> pairs[i].start <= current.end + 1
    BY <1>5, NoWrap DEF Touches
<1>7. ASSUME NEW k \in DOMAIN pairs, k >= i + 1
      PROVE  pairs[i].start <= pairs[k].start /\ current.start <= pairs[k].start
    <2>1. pairs[k] \in Record
        BY <1>1
    <2>2. pairs[k].start \in Nat
        BY <2>1, RecordFacts
    <2>3. i < k /\ k >= i
        BY <1>2, <1>3, <1>7
    <2>4. Before(pairs[i], pairs[k])
        BY <1>1, <1>3, <2>3 DEF Sorted
    <2> QED BY <1>1, <1>5, <2>2, <2>3, <2>4 DEF Before
<1>8. current.start <= pairs[i].start
    BY <1>1, <1>3
<1> QED BY <1>1, <1>2, <1>3, <1>4, <1>5, <1>6, <1>7, <1>8

LEMMA MergeIInv == ASSUME IInv, Merge PROVE IInv'
<1>1. /\ pc = "merge" /\ i <= Len(pairs) /\ Touches(current, pairs[i])
      /\ current' = IF pairs[i].end > current.end
                    THEN [current EXCEPT !.end = pairs[i].end] ELSE current
      /\ i' = i + 1
      /\ UNCHANGED <<input, force, total, pc, pairs, result, expanded>>
    BY DEF Merge
<1>2. /\ pairs \in Seq(Record) /\ DOMAIN pairs = 1..Len(pairs) /\ Len(pairs) \in Nat
      /\ i \in Nat /\ i \in DOMAIN pairs /\ pairs[i] \in Record /\ current \in Record
      /\ pairs[i].start \in Nat /\ pairs[i].end \in Nat
      /\ current.start \in Nat /\ current.end \in Nat
      /\ pairs[i].start <= pairs[i].end /\ current.start <= current.end
      /\ current.start <= pairs[i].start
      /\ pairs[i].start <= current.end + 1
      /\ \A k \in DOMAIN pairs : k >= i + 1 => /\ pairs[i].start <= pairs[k].start
                                               /\ current.start <= pairs[k].start
      /\ result \in Seq(Record) /\ expanded = <<>>
    BY <1>1, LoopFacts
<1>3. /\ current' \in Record /\ current'.start = current.start
      /\ current'.end = IF pairs[i].end > current.end THEN pairs[i].end ELSE current.end
    <2>1. current \in BlockRange /\ pairs[i] \in BlockRange /\ pairs[i].end <= LastBlock
        BY <1>2 DEF Record
    <2>2. CASE pairs[i].end > current.end
        <3>1. current' = [current EXCEPT !.end = pairs[i].end]
            BY <1>1, <2>2
        <3>2. /\ current' \in BlockRange
              /\ current'.start = current.start /\ current'.end = pairs[i].end
            BY <2>1, <3>1 DEF BlockRange
        <3>3. current'.start <= current'.end /\ current'.end <= LastBlock
            BY <1>2, <2>1, <3>2
        <3> QED BY <2>2, <3>2, <3>3 DEF Record
    <2>3. CASE ~(pairs[i].end > current.end)
        BY <1>1, <1>2, <2>3
    <2> QED BY <2>2, <2>3
<1>4. TypeOK'
    BY <1>1, <1>2, <1>3 DEF IInv, TypeOK
<1>5. Merging'
    BY <1>1, <1>2, <1>3 DEF IInv, Merging, Apart, Sorted, Before
<1>6. Fresh' /\ Expanding' /\ Done' /\ Separated'
    BY <1>1 DEF IInv, Fresh, Expanding, Done, Separated
<1>7. Widened'
    BY <1>1 DEF IInv, Widened
<1>8. ASSUME NEW x \in 0..LastBlock PROVE Held(x)' <=> Held(x)
    <2>1. In(x, current') <=> In(x, current) \/ In(x, pairs[i])
        BY <1>2, <1>3 DEF In
    <2>2. (\E j \in DOMAIN pairs : j >= i /\ In(x, pairs[j]))
            <=> In(x, pairs[i]) \/ \E j \in DOMAIN pairs : j >= i + 1 /\ In(x, pairs[j])
        <3>1. \A j \in DOMAIN pairs : j >= i <=> j = i \/ j >= i + 1
            BY <1>2
        <3> QED BY <3>1, <1>2
    <2>3. Held(x)' <=> \/ Covered(x, result) \/ In(x, current')
                       \/ \E j \in DOMAIN pairs : j >= i + 1 /\ In(x, pairs[j])
        BY <1>1 DEF Held, Covered, In
    <2>4. Held(x) <=> \/ Covered(x, result) \/ In(x, current)
                      \/ \E j \in DOMAIN pairs : j >= i /\ In(x, pairs[j])
        BY <1>1 DEF Held
    <2> QED BY <2>1, <2>2, <2>3, <2>4
<1>9. MergeExact'
    BY <1>1, <1>8 DEF IInv, MergeExact, Covered
<1> QED BY <1>4, <1>5, <1>6, <1>7, <1>9 DEF IInv

LEMMA SeparateIInv == ASSUME IInv, Separate PROVE IInv'
<1>1. /\ pc = "merge" /\ i <= Len(pairs) /\ ~Touches(current, pairs[i])
      /\ result' = Append(result, current) /\ current' = pairs[i]
      /\ i' = i + 1
      /\ UNCHANGED <<input, force, total, pc, pairs, expanded>>
    BY DEF Separate
<1>2. /\ pairs \in Seq(Record) /\ DOMAIN pairs = 1..Len(pairs) /\ Len(pairs) \in Nat
      /\ i \in Nat /\ i \in DOMAIN pairs /\ pairs[i] \in Record /\ current \in Record
      /\ pairs[i].start \in Nat /\ pairs[i].end \in Nat
      /\ current.start \in Nat /\ current.end \in Nat
      /\ pairs[i].start <= pairs[i].end /\ current.start <= current.end
      /\ pairs[i].start > current.end + 1
      /\ \A k \in DOMAIN pairs : k >= i + 1 => pairs[i].start <= pairs[k].start
      /\ result \in Seq(Record) /\ expanded = <<>>
    BY <1>1, LoopFacts
<1> DEFINE n == Len(result)
<1>3. /\ result' \in Seq(Record) /\ n \in Nat /\ Len(result') = n + 1
      /\ DOMAIN result = 1..n /\ DOMAIN result' = 1..n+1
      /\ result'[n + 1] = current /\ \A j \in 1..n : result'[j] = result[j]
    BY <1>1, <1>2, AppendSeq
<1> HIDE DEF n
<1>4. TypeOK'
    BY <1>1, <1>2, <1>3 DEF IInv, TypeOK
<1>5. /\ ~force /\ i >= 1 /\ Sorted(pairs) /\ Apart(result)
      /\ \A j \in 1..n : result[j].end + 1 < current.start
    BY <1>1, <1>3 DEF IInv, Merging
<1>6. \A j \in 1..n : result[j] \in Record /\ result[j].end \in Nat /\ result[j].start \in Nat
    BY <1>2, <1>3, RecordFacts
<1>7. Apart(result')
    <2> SUFFICES ASSUME NEW j \in 1..n+1, NEW k \in 1..n+1, j < k
                 PROVE  result'[j].end + 1 < result'[k].start
        BY <1>3 DEF Apart
    <2>1. j \in 1..n
        BY <1>3
    <2>2. CASE k = n + 1
        BY <2>1, <2>2, <1>3, <1>5
    <2>3. CASE k # n + 1
        <3>1. k \in 1..n
            BY <2>3, <1>3
        <3> QED BY <2>1, <3>1, <1>3, <1>5 DEF Apart
    <2> QED BY <2>2, <2>3
<1>8. \A j \in DOMAIN result' : result'[j].end + 1 < current'.start
    <2> SUFFICES ASSUME NEW j \in 1..n+1 PROVE result'[j].end + 1 < pairs[i].start
        BY <1>1, <1>3
    <2>1. CASE j = n + 1
        BY <2>1, <1>2, <1>3
    <2>2. CASE j # n + 1
        <3>1. j \in 1..n
            BY <2>2, <1>3
        <3>2. result'[j] = result[j] /\ result[j].end + 1 < current.start /\ result[j].end \in Nat
            BY <3>1, <1>3, <1>5, <1>6
        <3>3. /\ current.start \in Nat /\ current.end \in Nat /\ pairs[i].start \in Nat
              /\ current.start <= current.end /\ pairs[i].start > current.end + 1
            BY <1>2
        <3> HIDE <1>1, <1>2, <1>3
        <3>4. result[j].end + 1 < pairs[i].start
            BY <3>2, <3>3
        <3> QED BY <3>2, <3>4
    <2> QED BY <2>1, <2>2
<1>9. Merging'
    BY <1>1, <1>2, <1>5, <1>7, <1>8 DEF Merging, Sorted, Before
<1>10. Fresh' /\ Expanding' /\ Done' /\ Separated'
    BY <1>1 DEF Fresh, Expanding, Done, Separated
<1>11. Widened'
    <2>1. Len(expanded') = 0 /\ Len(expanded') <= Len(result')
        BY <1>1, <1>2, <1>3
    <2> QED BY <2>1 DEF Widened
<1>12. ASSUME NEW x \in 0..LastBlock PROVE Held(x)' <=> Held(x)
    <2>1. Covered(x, result') <=> Covered(x, result) \/ In(x, current)
        BY <1>1, <1>2, RecordSeq, AppendCovers DEF Record
    <2>2. (\E j \in DOMAIN pairs : j >= i /\ In(x, pairs[j]))
            <=> In(x, pairs[i]) \/ \E j \in DOMAIN pairs : j >= i + 1 /\ In(x, pairs[j])
        <3>1. \A j \in DOMAIN pairs : j >= i <=> j = i \/ j >= i + 1
            BY <1>2
        <3> QED BY <3>1, <1>2
    <2>3. Held(x)' <=> \/ Covered(x, result') \/ In(x, pairs[i])
                       \/ \E j \in DOMAIN pairs : j >= i + 1 /\ In(x, pairs[j])
        BY <1>1 DEF Held, Covered, In
    <2>4. Held(x) <=> \/ Covered(x, result) \/ In(x, current)
                      \/ \E j \in DOMAIN pairs : j >= i /\ In(x, pairs[j])
        BY <1>1 DEF Held
    <2> QED BY <2>1, <2>2, <2>3, <2>4
<1>13. MergeExact'
    BY <1>1, <1>12 DEF IInv, MergeExact, Covered
<1> QED BY <1>4, <1>9, <1>10, <1>11, <1>13 DEF IInv

LEMMA EndMergeIInv == ASSUME IInv, EndMerge PROVE IInv'
<1>1. /\ pc = "merge" /\ i > Len(pairs)
      /\ result' = Append(result, current)
      /\ pc' = "expand" /\ i' = 1
      /\ UNCHANGED <<input, force, total, pairs, current, expanded>>
    BY DEF EndMerge
<1>2. /\ pairs \in Seq(Record) /\ DOMAIN pairs = 1..Len(pairs) /\ Len(pairs) \in Nat
      /\ i \in Nat /\ result \in Seq(Record) /\ current \in Record
    BY DEF IInv, TypeOK
<1>3. /\ ~force /\ expanded = <<>> /\ Apart(result)
      /\ \A j \in DOMAIN result : result[j].end + 1 < current.start
    BY <1>1 DEF IInv, Merging
<1> DEFINE n == Len(result)
<1>4. /\ result' \in Seq(Record) /\ n \in Nat /\ Len(result') = n + 1
      /\ DOMAIN result = 1..n /\ DOMAIN result' = 1..n+1
      /\ result'[n + 1] = current /\ \A j \in 1..n : result'[j] = result[j]
    BY <1>1, <1>2, AppendSeq
<1> HIDE DEF n
<1>5. TypeOK'
    BY <1>1, <1>2, <1>4 DEF IInv, TypeOK
<1>6. Len(expanded') = 0
    BY <1>1, <1>3
<1>7. Fresh' /\ Merging' /\ Expanding' /\ Done' /\ Widened'
    BY <1>1, <1>4, <1>6 DEF Fresh, Merging, Expanding, Done, Widened
<1>8. ASSUME NEW j \in 1..n+1, NEW k \in 1..n+1, j < k
      PROVE  result'[j].end + 1 < result'[k].start
    <2>1. j \in 1..n
        BY <1>4, <1>8
    <2>2. CASE k = n + 1
        BY <2>1, <2>2, <1>3, <1>4
    <2>3. CASE k # n + 1
        <3>1. k \in 1..n
            BY <2>3, <1>4
        <3> QED BY <2>1, <3>1, <1>3, <1>4, <1>8 DEF Apart
    <2> QED BY <2>2, <2>3
<1>9. Separated'
    BY <1>4, <1>8 DEF Separated
<1>10. ASSUME NEW x \in 0..LastBlock PROVE Held(x)' <=> Held(x)
    <2>1. Covered(x, result') <=> Covered(x, result) \/ In(x, current)
        BY <1>1, <1>2, RecordSeq, AppendCovers DEF Record
    <2>2. ~ \E j \in DOMAIN pairs : j >= i /\ In(x, pairs[j])
        BY <1>1, <1>2
    <2>3. Held(x)' <=> Covered(x, result')
        BY <1>1 DEF Held, Covered
    <2>4. Held(x) <=> \/ Covered(x, result) \/ In(x, current)
                      \/ \E j \in DOMAIN pairs : j >= i /\ In(x, pairs[j])
        BY <1>1 DEF Held
    <2> QED BY <2>1, <2>2, <2>3, <2>4
<1>11. MergeExact'
    BY <1>1, <1>10 DEF IInv, MergeExact, Covered
<1> QED BY <1>5, <1>7, <1>9, <1>11 DEF IInv

\* Neither the loop of expandBlockPairs nor its end touches the merged ranges.
LEMMA KeepsResult ==
    ASSUME IInv, pc = "expand", pc' \in {"expand", "done"},
           UNCHANGED <<input, force, total, pairs, current, result>>
    PROVE  MergeExact' /\ Separated' /\ Fresh' /\ Merging'
<1>1. \A x \in 0..LastBlock : Held(x)' <=> Held(x)
    BY DEF Held, Covered
<1>2. MergeExact'
    BY <1>1 DEF IInv, MergeExact, Covered
<1>3. Separated' /\ Fresh' /\ Merging'
    BY DEF IInv, Separated, Fresh, Merging
<1> QED BY <1>2, <1>3

LEMMA ExpandIInv == ASSUME IInv, Expand PROVE IInv'
<1>1. /\ pc = "expand" /\ i <= Len(result)
      /\ expanded' = Append(expanded, Widen(result[i], total))
      /\ i' = i + 1
      /\ UNCHANGED <<input, force, total, pc, pairs, current, result>>
    BY DEF Expand
<1>2. /\ result \in Seq(Record) /\ Len(result) \in Nat /\ expanded \in Seq(BlockRange)
      /\ i \in 1..Len(result)+1 /\ Len(expanded) = i - 1 /\ total \in Sizes
      /\ \A j \in 1..Len(expanded) : expanded[j] = Widen(result[j], total)
    BY <1>1 DEF IInv, TypeOK, Expanding, Widened
<1>3. result[i] \in Record
    BY <1>1, <1>2
<1>4. Widen(result[i], total) \in BlockRange
    BY <1>2, <1>3, WidenFacts
<1>5. /\ expanded' \in Seq(BlockRange)
      /\ Len(expanded') = i /\ expanded'[i] = Widen(result[i], total)
      /\ \A j \in 1..i-1 : expanded'[j] = expanded[j]
    <2> DEFINE w == Widen(result[i], total)
    <2> HIDE DEF w
    <2>1. w \in BlockRange /\ expanded' = Append(expanded, w)
        BY <1>1, <1>4 DEF w
    <2>2. /\ expanded' \in Seq(BlockRange) /\ Len(expanded') = Len(expanded) + 1
          /\ expanded'[Len(expanded) + 1] = w
          /\ \A j \in 1..Len(expanded) : expanded'[j] = expanded[j]
        BY <2>1, <1>2, AppendSeq
    <2>3. Len(expanded) + 1 = i
        BY <1>2
    <2> QED BY <1>2, <2>2, <2>3 DEF w
<1>6. TypeOK'
    BY <1>1, <1>2, <1>5 DEF IInv, TypeOK
<1>7. Expanding' /\ Done'
    BY <1>1, <1>2, <1>5 DEF Expanding, Done
<1>8. Widened'
    <2>1. Len(expanded') <= Len(result')
        BY <1>1, <1>5
    <2>2. \A j \in 1..i : expanded'[j] = Widen(result[j], total)
        BY <1>2, <1>5
    <2> QED BY <1>1, <1>5, <2>1, <2>2 DEF Widened
<1> QED BY <1>1, <1>6, <1>7, <1>8, KeepsResult DEF IInv

LEMMA FinishIInv == ASSUME IInv, Finish PROVE IInv'
<1>1. /\ pc = "expand" /\ i > Len(result) /\ pc' = "done"
      /\ UNCHANGED <<input, force, total, pairs, i, current, result, expanded>>
    BY DEF Finish
<1>2. TypeOK'
    BY <1>1 DEF IInv, TypeOK
<1>3. Len(expanded) = Len(result)
    BY <1>1 DEF IInv, TypeOK, Expanding
<1>4. Expanding' /\ Done' /\ Widened'
    BY <1>1, <1>3 DEF IInv, Expanding, Done, Widened
<1> QED BY <1>1, <1>2, <1>4, KeepsResult DEF IInv

LEMMA NextIInv == IInv /\ [Next]_vars => IInv'
<1> SUFFICES ASSUME IInv, [Next]_vars PROVE IInv'
    OBVIOUS
<1>1. CASE UNCHANGED vars
    BY <1>1 DEF vars, IInv, TypeOK, Fresh, Merging, Apart, Sorted, Before, Expanding, Done,
       Widened, MergeExact, Held, Covered, Separated
<1> QED BY <1>1, SkipMergeIInv, SortIInv, MergeIInv, SeparateIInv, EndMergeIInv, ExpandIInv,
           FinishIInv DEF Next

\* The invariant the theorems below follow from.
THEOREM IInvHolds == Spec => []IInv
BY InitIInv, NextIInv, PTL DEF Spec

\* Every range the code holds is one: the records and the merged ranges end where
\* they start or later and inside the device, the widened ones fit the width.
THEOREM TypesHold == Spec => []TypeOK
<1>1. IInv => TypeOK
    BY DEF IInv
<1> QED BY <1>1, IInvHolds, PTL

\* The merging loop neither drops a changed block nor invents one.
THEOREM MergeExactHolds == Spec => []MergeExact
<1>1. IInv => MergeExact
    BY DEF IInv
<1> QED BY <1>1, IInvHolds, PTL

\* Merged ranges are in order and at least one block apart.
THEOREM SeparatedHolds == Spec => []Separated
<1>1. IInv => Separated
    BY DEF IInv
<1> QED BY <1>1, IInvHolds, PTL

\* A block within Delta of a record is within Delta of a block of the record.
LEMMA Near ==
    ASSUME NEW p \in Record, NEW x \in Nat
    PROVE  p.start - Delta <= x /\ x <= p.end + Delta
             <=> \E y \in 0..LastBlock : In(y, p) /\ y - Delta <= x /\ x <= y + Delta
<1>1. /\ p.start \in Nat /\ p.end \in Nat /\ p.start <= p.end
      /\ p.end \in 0..LastBlock /\ p.start \in 0..LastBlock
    BY RecordFacts
<1>2. ASSUME p.start - Delta <= x, x <= p.end + Delta
      PROVE  \E y \in 0..LastBlock : In(y, p) /\ y - Delta <= x /\ x <= y + Delta
    <2> USE <1>1
    <2>1. CASE x < p.start
        <3> WITNESS p.start \in 0..LastBlock
        <3> QED BY <2>1, <1>1, <1>2, DeltaAssumption DEF In
    <2>2. CASE x > p.end
        <3> WITNESS p.end \in 0..LastBlock
        <3> QED BY <2>2, <1>1, <1>2, DeltaAssumption DEF In
    <2>3. CASE p.start <= x /\ x <= p.end
        <3>1. x \in 0..LastBlock
            BY <2>3, <1>1, BlockAssumption
        <3> WITNESS x \in 0..LastBlock
        <3> QED BY <2>3, DeltaAssumption DEF In
    <2> QED BY <1>1, <2>1, <2>2, <2>3
<1>3. ASSUME NEW y \in 0..LastBlock, In(y, p), y - Delta <= x, x <= y + Delta
      PROVE  p.start - Delta <= x /\ x <= p.end + Delta
    BY <1>1, <1>3, DeltaAssumption DEF In
<1> QED BY <1>2, <1>3

\* What is asked of the agent is exactly the neighbourhood of the changes.
THEOREM RequestExactHolds == Spec => []RequestExact
<1>1. IInv => RequestExact
    <2> SUFFICES ASSUME IInv, pc = "done", NEW x \in 0..Width-1
                 PROVE  Covered(x, expanded) <=> Wanted(x)
        BY DEF RequestExact
    <2>1. /\ input \in Seq(Record) /\ result \in Seq(Record) /\ total \in Sizes
          /\ Len(result) \in Nat /\ DOMAIN result = 1..Len(result)
          /\ DOMAIN expanded = 1..Len(expanded) /\ Len(expanded) = Len(result)
        BY DEF IInv, TypeOK, Done
    <2>2. \A j \in DOMAIN result : expanded[j] = Widen(result[j], total)
        BY <2>1 DEF IInv, Widened
    <2>3. x \in Nat /\ \A j \in DOMAIN result : result[j] \in Record
        BY <2>1, WidthAssumption
    <2>4. \A j \in DOMAIN result : In(x, expanded[j]) <=>
              x < total /\ result[j].start - Delta <= x /\ x <= result[j].end + Delta
        BY <2>1, <2>2, <2>3, WidenFacts
    <2>5. Covered(x, expanded) <=>
              /\ x < total
              /\ \E j \in DOMAIN result :
                    result[j].start - Delta <= x /\ x <= result[j].end + Delta
        BY <2>1, <2>4 DEF Covered
    <2>6. (\E j \in DOMAIN result : result[j].start - Delta <= x /\ x <= result[j].end + Delta)
            <=> \E y \in 0..LastBlock : Covered(y, result) /\ y - Delta <= x /\ x <= y + Delta
        BY <2>3, Near DEF Covered
    <2>7. (\E j \in DOMAIN input : input[j].start - Delta <= x /\ x <= input[j].end + Delta)
            <=> \E y \in 0..LastBlock : Covered(y, input) /\ y - Delta <= x /\ x <= y + Delta
        <3>1. \A j \in DOMAIN input : input[j] \in Record
            BY <2>1
        <3> QED BY <2>3, <3>1, Near DEF Covered
    <2>8. \A y \in 0..LastBlock : Covered(y, input) <=> Covered(y, result)
        BY DEF IInv, MergeExact, Held
    <2> QED BY <2>5, <2>6, <2>7, <2>8 DEF Wanted
<1> QED BY <1>1, IInvHolds, PTL
=============================================================================
