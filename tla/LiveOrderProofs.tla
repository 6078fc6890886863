--------------------------- MODULE LiveOrderProofs ---------------------------
(***************************************************************************)
(* The order of copies in LiveSync, of every block that one goroutine has  *)
(* at a time, and what the .bak files give when merged.                    *)
(***************************************************************************)
EXTENDS LiveSyncProofs

\* The places a copy passes on its way to the writer, the last place first.
Place(i) ==
    IF i = 0 THEN wmsg
    ELSE IF i \in 1..Len(syncChan) THEN syncChan[i]
    ELSE IF i = Len(syncChan) + 1 THEN Batched ELSE {}

InOrder(S, T) ==
    \A c \in S, d \in T : c.blk = d.blk /\ c.blk \notin raced => c.ver <= d.ver
Once(S) == \A c, d \in S : c.blk = d.blk /\ c.blk \notin raced => c = d

\* Of a block that is not raced, a copy nearer to the writer is not newer than one
\* behind it, and no place holds two.
Queue ==
    /\ \A i, j \in Nat : i < j => InOrder(Place(i), Place(j))
    /\ \A i \in Nat : Once(Place(i))

\* What a goroutine has in its batch it does not read again.
Unread == \A r \in Reader : \A c \in reader[r].batch : c.blk \notin reader[r].todo

\* A block that is not raced is had by one goroutine.
Alone == \A b \in Block \ raced : \A q, r \in Reader : Has(q, b) /\ Has(r, b) => q = r

NotPast ==
    \A i \in Nat : \A c \in Place(i) : c.blk \notin raced => seen[c.blk].ver <= c.ver
Written == \A b \in Block : seen[b].ver <= disk[b].ver

Order == Queue /\ Unread /\ Alone /\ NotPast /\ Written

LEMMA PlacesAreCopies ==
    ASSUME TypeOK
    PROVE  /\ \A i \in Nat : Place(i) \subseteq Copies
           /\ \A c \in Copies : \E i \in Nat : c \in Place(i)
           /\ \A c \in Copies : c \in Copy /\ c.blk \in Block /\ c.ver \in Nat
<1>1. syncChan \in Seq(SUBSET Copy) /\ Len(syncChan) \in Nat
    BY DEF TypeOK
<1>2. ASSUME NEW i \in Nat, NEW c \in Place(i) PROVE c \in Copies
    <2>1. CASE c \in wmsg \/ c \in Batched
        BY <2>1 DEF Copies
    <2>2. CASE i \in 1..Len(syncChan) /\ c \in syncChan[i]
        BY <2>2 DEF Copies, Queued
    <2> QED BY <1>2, <2>1, <2>2 DEF Place
<1>3. ASSUME NEW c \in Copies PROVE \E i \in Nat : c \in Place(i)
    <2>1. CASE c \in wmsg
        BY <2>1 DEF Place
    <2>2. CASE c \in Queued
        <3>1. PICK i \in 1..Len(syncChan) : c \in syncChan[i]
            BY <2>2 DEF Queued
        <3>2. i \in Nat /\ i # 0
            BY <1>1
        <3> QED BY <3>1, <3>2 DEF Place
    <2>3. CASE c \in Batched
        <3>1. /\ Len(syncChan) + 1 \in Nat
              /\ Len(syncChan) + 1 # 0
              /\ Len(syncChan) + 1 \notin 1..Len(syncChan)
            BY <1>1
        <3> QED BY <2>3, <3>1 DEF Place
    <2> QED BY <1>3, <2>1, <2>2, <2>3 DEF Copies
<1>4. \A c \in Copies : c \in Copy
    <2>1. Batched \subseteq Copy /\ wmsg \subseteq Copy
        BY DEF TypeOK, Batched
    <2>2. \A i \in 1..Len(syncChan) : syncChan[i] \in SUBSET Copy
        BY <1>1
    <2> QED BY <2>1, <2>2 DEF Copies, Queued
<1> QED BY <1>2, <1>3, <1>4 DEF Copy

\* Copies keep their order when places only lose some, or move on in order.
LEMMA MoveOn ==
    ASSUME Queue, NotPast, NEW f \in [Nat -> Nat],
           \A i, j \in Nat : i < j => f[i] < f[j],
           \A i \in Nat : Place(i)' \subseteq Place(f[i]),
           \A i \in Nat : \A c \in Place(i)' : c.blk \in raced => c.blk \in raced'
    PROVE  Queue' /\ (seen' = seen => NotPast')
<1>1. ASSUME NEW i \in Nat, NEW j \in Nat, i < j, NEW c \in Place(i)', NEW d \in Place(j)',
             c.blk = d.blk, c.blk \notin raced'
      PROVE  c.ver <= d.ver
    <2>1. f[i] \in Nat /\ f[j] \in Nat /\ f[i] < f[j]
        BY <1>1
    <2>2. InOrder(Place(f[i]), Place(f[j]))
        BY <2>1 DEF Queue
    <2>3. c \in Place(f[i]) /\ d \in Place(f[j]) /\ c.blk \notin raced
        BY <1>1
    <2> QED BY <2>2, <2>3, <1>1 DEF InOrder
<1>2. ASSUME NEW i \in Nat, NEW c \in Place(i)', NEW d \in Place(i)',
             c.blk = d.blk, c.blk \notin raced'
      PROVE  c = d
    <2>1. Once(Place(f[i]))
        BY DEF Queue
    <2>2. c \in Place(f[i]) /\ d \in Place(f[i]) /\ c.blk \notin raced
        BY <1>2
    <2> QED BY <2>1, <2>2, <1>2 DEF Once
<1>3. ASSUME seen' = seen, NEW i \in Nat, NEW c \in Place(i)', c.blk \notin raced'
      PROVE  seen'[c.blk].ver <= c.ver
    <2>1. f[i] \in Nat /\ c \in Place(f[i]) /\ c.blk \notin raced
        BY <1>3
    <2> QED BY <1>3, <2>1 DEF NotPast
<1>4. Queue'
    BY <1>1, <1>2 DEF Queue, InOrder, Once
<1>5. seen' = seen => NotPast'
    BY <1>3 DEF NotPast
<1> QED BY <1>4, <1>5

\* Nothing moves on, some places lose copies.
LEMMA StayPut ==
    ASSUME Queue, NotPast, \A i \in Nat : Place(i)' \subseteq Place(i),
           \A i \in Nat : \A c \in Place(i)' : c.blk \in raced => c.blk \in raced'
    PROVE  Queue' /\ (seen' = seen => NotPast')
<1> DEFINE f == [i \in Nat |-> i]
<1>1. f \in [Nat -> Nat] /\ \A i \in Nat : f[i] = i
    OBVIOUS
<1> HIDE DEF f
<1> QED BY <1>1, MoveOn

\* Goroutines that only finish what they have.
LEMMA HaveLess ==
    ASSUME Unread, Alone, raced' = raced,
           \A q \in Reader : /\ reader'[q].todo \subseteq reader[q].todo
                             /\ reader'[q].batch \subseteq reader[q].batch
    PROVE  Unread' /\ Alone'
<1>1. Unread'
    BY DEF Unread
<1>2. \A q \in Reader, b \in Block : Has(q, b)' => Has(q, b)
    BY DEF Has
<1>3. Alone'
    BY <1>2 DEF Alone
<1> QED BY <1>1, <1>3

-----------------------------------------------------------------------------
(* Each step keeps the order. *)

\* A step by which copies do not move.
LEMMA StillOrder ==
    ASSUME Order, UNCHANGED <<reader, syncChan, wmsg, seen, raced>>,
           \A b \in Block : disk[b].ver \in Nat /\ disk'[b].ver \in Nat
                            /\ disk[b].ver <= disk'[b].ver,
           \A b \in Block : seen[b].ver \in Int
    PROVE  Order'
<1>1. \A i \in Nat : Place(i)' \subseteq Place(i)
    BY DEF Place, Batched
<1>2. Queue' /\ NotPast'
    BY <1>1, StayPut DEF Order
<1>3. Unread' /\ Alone'
    BY HaveLess DEF Order
<1>4. Written'
    BY DEF Order, Written
<1> QED BY <1>2, <1>3, <1>4 DEF Order

LEMMA SeenType ==
    ASSUME TypeOK
    PROVE  /\ \A b \in Block : seen[b].ver \in Int /\ disk[b].ver \in Nat
           /\ \A c \in Copies : c \in Copy /\ c.blk \in Block /\ c.ver \in Nat
<1>1. \A b \in Block : seen[b].ver \in Int
    BY DEF TypeOK, Content, Unseen
<1>2. \A b \in Block : disk[b].ver \in Nat
    BY DEF TypeOK, Content
<1> QED BY <1>1, <1>2, PlacesAreCopies

\* A goroutine reads a block: the copies of its batch lessen, or the one of b is new.
LEMMA ReadBlockOrder ==
    ASSUME IInv, Order, NEW r \in Reader, NEW b \in Block, ReadBlock(r, b)
    PROVE  Order'
<1> DEFINE n == Len(syncChan) + 1
<1>1. TypeOK /\ UNCHANGED <<syncChan, wmsg, seen, disk, raced>>
    BY DEF ReadBlock, writeVars, IInv
<1>2. PICK c \in Copy :
          /\ c.blk = b /\ c.ver = disk[b].ver
          /\ reader'[r].batch \subseteq reader[r].batch \cup {c}
    <2> DEFINE e == [blk |-> b, ver |-> disk[b].ver, same |-> TRUE, own |-> TRUE]
    <2>1. disk[b].ver \in Nat
        BY <1>1 DEF TypeOK, Content
    <2>2. e \in Copy /\ e.blk = b /\ e.ver = disk[b].ver
        BY <2>1 DEF Copy
    <2> HIDE DEF e
    <2>3. CASE reader'[r].batch \subseteq reader[r].batch
        BY <2>2, <2>3
    <2>4. CASE \E c \in Copy : /\ reader'[r].batch = reader[r].batch \cup {c}
                               /\ c.blk = b /\ c.ver = disk[b].ver
        BY <2>4
    <2>5. \/ reader'[r].batch \subseteq reader[r].batch
          \/ \E c \in Copy : /\ reader'[r].batch = reader[r].batch \cup {c}
                             /\ c.blk = b /\ c.ver = disk[b].ver
        <3>1. \/ \E c \in Copy :
                    /\ reader'[r].batch = reader[r].batch \cup {c}
                    /\ c.blk = b /\ c.ver = disk[b].ver
                    /\ IF c.own THEN c.same = disk[b].same /\ lost' = lost
                               ELSE lost' = lost \cup Current({b})
              \/ /\ reader'[r].batch = reader[r].batch
                 /\ lost' = lost \cup Current({b})
              \/ /\ reader'[r].batch = {}
                 /\ lost' = (lost \cup Current({b})) \cup Versions(reader[r].batch)
            BY <1>1, ReadBlockCases
        <3> QED BY <3>1
    <2> QED BY <2>3, <2>4, <2>5
<1>3. /\ b \in reader[r].todo /\ reader'[r].todo = reader[r].todo \ {b}
      /\ \A q \in Reader \ {r} : reader'[q] = reader[q]
    BY <1>1, ReadBlockCases
<1>4. /\ Batched' \subseteq Batched \cup {c}
      /\ b \notin raced => \A d \in Batched : d.blk # b
    <2>1. ASSUME NEW d \in Batched' PROVE d \in Batched \cup {c}
        <3>1. PICK q \in Reader : d \in reader'[q].batch
            BY <2>1 DEF Batched
        <3> QED BY <3>1, <1>2, <1>3 DEF Batched
    <2>2. ASSUME b \notin raced, NEW d \in Batched, d.blk = b PROVE FALSE
        <3>1. PICK q \in Reader : d \in reader[q].batch
            BY <2>2 DEF Batched
        <3>2. Has(q, b) /\ Has(r, b)
            BY <3>1, <2>2, <1>3 DEF Has
        <3>3. q = r
            BY <3>2, <2>2 DEF Order, Alone
        <3> QED BY <3>1, <3>3, <2>2, <1>3 DEF Order, Unread
    <2> QED BY <2>1, <2>2
<1>5. n \in Nat /\ n # 0 /\ n \notin 1..Len(syncChan)
    BY DEF IInv, TypeOK
<1>6. ASSUME NEW i \in Nat
      PROVE  IF i = n THEN Place(i)' \subseteq Place(i) \cup {c}
                      ELSE Place(i)' = Place(i)
    BY <1>1, <1>4, <1>5 DEF Place
<1>7. Place(n) = Batched
    BY <1>5 DEF Place
<1>8. \A i \in Nat, j \in Nat : n < j => Place(j) = {} /\ Place(j)' = {}
    BY <1>1, <1>5 DEF Place
<1>9. \A d \in Copies : d.blk = b => d.ver <= c.ver
    BY <1>2 DEF IInv, Behind
<1>10. Queue'
    <2>1. ASSUME NEW i \in Nat, NEW j \in Nat, i < j PROVE InOrder(Place(i), Place(j))'
        <3>1. CASE n < j
            BY <3>1, <1>8 DEF InOrder
        <3>2. CASE j <= n
            <4>1. Place(i)' = Place(i) /\ Place(j)' \subseteq Place(j) \cup {c}
                BY <1>5, <1>6, <2>1, <3>2
            <4>2. InOrder(Place(i), Place(j)) /\ Place(i) \subseteq Copies
                BY <2>1, PlacesAreCopies DEF Order, Queue, IInv
            <4> QED BY <4>1, <4>2, <1>1, <1>2, <1>9 DEF InOrder
        <3> QED BY <3>1, <3>2, <1>5
    <2>2. ASSUME NEW i \in Nat PROVE Once(Place(i))'
        <3>1. Once(Place(i))
            BY DEF Order, Queue
        <3>2. CASE i = n
            <4>1. Place(i)' \subseteq Batched \cup {c} /\ Once(Batched)
                BY <3>1, <3>2, <1>6, <1>7
            <4> QED BY <4>1, <1>1, <1>2, <1>4 DEF Once
        <3>3. CASE i # n
            BY <3>1, <3>3, <1>1, <1>6 DEF Once
        <3> QED BY <3>2, <3>3
    <2> QED BY <2>1, <2>2 DEF Queue
<1>11. Unread'
    <2>1. ASSUME NEW q \in Reader, NEW d \in reader'[q].batch PROVE d.blk \notin reader'[q].todo
        BY <2>1, <1>2, <1>3 DEF Order, Unread
    <2> QED BY <2>1 DEF Unread
<1>12. Alone'
    <2>1. \A q \in Reader, x \in Block : Has(q, x)' => Has(q, x)
        BY <1>2, <1>3 DEF Has
    <2> QED BY <2>1, <1>1 DEF Order, Alone
<1>13. NotPast'
    <2>1. seen[b].ver <= c.ver
        BY <1>2 DEF Order, Written
    <2>2. ASSUME NEW i \in Nat, NEW d \in Place(i)', d.blk \notin raced'
          PROVE  seen'[d.blk].ver <= d.ver
        <3>1. d = c \/ d \in Place(i)
            BY <2>2, <1>6
        <3> QED BY <3>1, <2>1, <2>2, <1>1, <1>2 DEF Order, NotPast
    <2> QED BY <2>2 DEF NotPast
<1>14. Written'
    BY <1>1 DEF Order, Written
<1> QED BY <1>10, <1>11, <1>12, <1>13, <1>14 DEF Order

\* A batch moves up in front of the batches of the other goroutines.
LEMMA SentOrder ==
    ASSUME TypeOK, Order, NEW r \in Reader, UNCHANGED <<wmsg, seen, raced>>,
           syncChan' = Append(syncChan, reader[r].batch),
           \E rd \in Emptied(r) : reader' = [reader EXCEPT ![r] = rd]
    PROVE  Queue' /\ NotPast'
<1>0. syncChan \in Seq(SUBSET Copy) /\ reader[r].batch \in SUBSET Copy
    BY DEF TypeOK
<1> PICK n \in Nat, B \in SUBSET Copy : n = Len(syncChan) /\ B = reader[r].batch
    BY <1>0
<1>1. syncChan \in Seq(SUBSET Copy) /\ n \in Nat /\ B \in SUBSET Copy
    BY <1>0
<1>2. /\ Len(syncChan') = n + 1
      /\ syncChan'[n + 1] = B
      /\ \A i \in 1..n : syncChan'[i] = syncChan[i]
    BY <1>1, AppendFacts
<1>3. /\ reader'[r].batch = {}
      /\ \A q \in Reader \ {r} : reader'[q] = reader[q]
    BY EmptiedFacts
<1>4. Batched' \subseteq Batched /\ B \subseteq Batched
    <2>1. ASSUME NEW d \in Batched' PROVE d \in Batched
        <3>1. PICK q \in Reader : d \in reader'[q].batch
            BY <2>1 DEF Batched
        <3> QED BY <3>1, <1>3 DEF Batched
    <2> QED BY <2>1 DEF Batched
<1>5. \A c \in B, d \in Batched' : c.blk = d.blk => c.blk \in raced
    <2> SUFFICES ASSUME NEW c \in B, NEW d \in Batched', c.blk = d.blk, c.blk \notin raced
                 PROVE  FALSE
        OBVIOUS
    <2>1. PICK q \in Reader : d \in reader'[q].batch
        BY DEF Batched
    <2>2. q # r /\ d \in reader[q].batch
        BY <2>1, <1>3
    <2>3. Has(q, c.blk) /\ Has(r, c.blk) /\ c.blk \in Block
        BY <2>2, <1>1 DEF Has, Copy
    <2> QED BY <2>2, <2>3 DEF Order, Alone
<1>6. /\ \A i \in 0..n : Place(i)' = Place(i)
      /\ Place(n + 1)' = B /\ Place(n + 1) = Batched
      /\ Place(n + 2)' = Batched'
      /\ \A i \in Nat : i > n + 2 => Place(i)' = {}
    <2>1. ASSUME NEW i \in 0..n PROVE Place(i)' = Place(i)
        <3>1. i = 0 \/ (i # 0 /\ i \in 1..n /\ i \in 1..n+1)
            BY <1>1
        <3> QED BY <3>1, <1>2 DEF Place
    <2>2. Place(n + 1)' = B /\ Place(n + 1) = Batched
        <3>1. n + 1 # 0 /\ n + 1 \notin 1..n /\ n + 1 \in 1..n+1
            BY <1>1
        <3> QED BY <3>1, <1>2 DEF Place
    <2>3. Place(n + 2)' = Batched'
        <3>1. n + 2 # 0 /\ n + 2 \notin 1..n+1 /\ n + 2 = (n + 1) + 1
            BY <1>1
        <3> QED BY <3>1, <1>2 DEF Place
    <2>4. ASSUME NEW i \in Nat, i > n + 2 PROVE Place(i)' = {}
        <3>1. i # 0 /\ i \notin 1..n+1 /\ i # (n + 1) + 1
            BY <1>1, <2>4
        <3> QED BY <3>1, <1>2 DEF Place
    <2> QED BY <2>1, <2>2, <2>3, <2>4
<1>10. raced' = raced /\ seen' = seen
    OBVIOUS
<1>7. n \in Nat /\ n + 1 \in Nat /\ \A i \in Nat : i \in 0..n \/ i = n + 1 \/ i = n + 2 \/ i > n + 2
    BY <1>1
<1>11. ASSUME NEW i \in Nat PROVE Place(i)' = Place(i) \/ Place(i)' \subseteq Batched
    <2>1. CASE i \in 0..n
        BY <2>1, <1>6
    <2>2. CASE i = n + 1
        BY <2>2, <1>4, <1>6
    <2>3. CASE i = n + 2
        BY <2>3, <1>4, <1>6
    <2>4. CASE i > n + 2
        BY <2>4, <1>6
    <2> QED BY <2>1, <2>2, <2>3, <2>4, <1>7
<1>8. Queue'
    <2>1. ASSUME NEW i \in Nat, NEW j \in Nat, i < j PROVE InOrder(Place(i), Place(j))'
        <3>1. CASE j \in 0..n
            <4>1. i \in 0..n
                BY <2>1, <3>1, <1>7
            <4>2. InOrder(Place(i), Place(j))
                BY <2>1 DEF Order, Queue
            <4> QED BY <3>1, <4>1, <4>2, <1>6, <1>10 DEF InOrder
        <3>2. CASE j = n + 1
            <4>1. i \in 0..n /\ InOrder(Place(i), Place(n + 1))
                BY <2>1, <3>2, <1>7 DEF Order, Queue
            <4> QED BY <4>1, <3>2, <1>4, <1>6, <1>10 DEF InOrder
        <3>3. CASE j = n + 2
            <4>1. CASE i = n + 1
                BY <4>1, <3>3, <1>5, <1>6, <1>10 DEF InOrder
            <4>2. CASE i \in 0..n
                <5>1. InOrder(Place(i), Place(n + 1))
                    BY <4>2, <1>7 DEF Order, Queue
                <5> QED BY <5>1, <4>2, <3>3, <1>4, <1>6, <1>10 DEF InOrder
            <4> QED BY <2>1, <3>3, <4>1, <4>2, <1>7
        <3>4. CASE j > n + 2
            BY <3>4, <1>6 DEF InOrder
        <3> QED BY <3>1, <3>2, <3>3, <3>4, <1>7
    <2>2. ASSUME NEW i \in Nat PROVE Once(Place(i))'
        <3>1. Once(Batched) /\ Once(Place(i))
            BY <1>6, <1>7 DEF Order, Queue
        <3>2. Place(i)' = Place(i) \/ Place(i)' \subseteq Batched
            BY <1>11
        <3> QED BY <3>1, <3>2, <1>10 DEF Once
    <2> QED BY <2>1, <2>2 DEF Queue
<1>9. NotPast'
    <2>1. ASSUME NEW i \in Nat, NEW c \in Place(i)', c.blk \notin raced'
          PROVE  seen'[c.blk].ver <= c.ver
        <3>1. PICK j \in Nat : c \in Place(j)
            BY <2>1, <1>6, <1>7, <1>11
        <3> QED BY <3>1, <2>1, <1>10 DEF Order, NotPast
    <2> QED BY <2>1 DEF NotPast
<1> QED BY <1>8, <1>9

\* A batch that is not sent, or finds SyncChannel full, is gone.
LEMMA GoneOrder ==
    ASSUME TypeOK, Order, NEW r \in Reader, UNCHANGED <<syncChan, wmsg, seen, raced>>,
           \E rd \in Emptied(r) : reader' = [reader EXCEPT ![r] = rd]
    PROVE  Queue' /\ NotPast'
<1>1. /\ reader'[r].batch = {}
      /\ \A q \in Reader \ {r} : reader'[q] = reader[q]
    BY EmptiedFacts
<1>2. Batched' \subseteq Batched
    <2>1. ASSUME NEW d \in Batched' PROVE d \in Batched
        <3>1. PICK q \in Reader : d \in reader'[q].batch
            BY <2>1 DEF Batched
        <3> QED BY <3>1, <1>1 DEF Batched
    <2> QED BY <2>1
<1>3. \A i \in Nat : Place(i)' \subseteq Place(i)
    BY <1>2 DEF Place
<1> QED BY <1>3, StayPut DEF Order

LEMMA BatchOrder ==
    ASSUME IInv, Order, NEW r \in Reader, SendBatch(r) \/ FailBatch(r)
    PROVE  Order'
<1>1. TypeOK /\ UNCHANGED <<wmsg, seen, disk, raced>>
    BY DEF SendBatch, FailBatch, writeVars, IInv
<1>2. \E rd \in Emptied(r) : reader' = [reader EXCEPT ![r] = rd]
    BY DEF SendBatch, FailBatch
<1>3. syncChan' = Append(syncChan, reader[r].batch) \/ syncChan' = syncChan
    BY DEF SendBatch, FailBatch
<1>4. Queue' /\ NotPast'
    BY <1>1, <1>2, <1>3, SentOrder, GoneOrder
<1>5. \A q \in Reader : /\ reader'[q].todo \subseteq reader[q].todo
                        /\ reader'[q].batch \subseteq reader[q].batch
    BY <1>1, <1>2, EmptiedFacts
<1>6. Unread' /\ Alone'
    BY <1>1, <1>5, HaveLess DEF Order
<1>7. Written'
    BY <1>1 DEF Order, Written
<1> QED BY <1>4, <1>6, <1>7 DEF Order

\* A goroutine starts: the blocks it shares with another one are raced.
LEMMA SyncSendOrder ==
    ASSUME IInv, Order, NEW r \in Reader, SyncSend(r)
    PROVE  Order'
<1> DEFINE R == Requested(LowestChunk(syncer.todo))
           nd == [IdleReader EXCEPT !.todo = R]
<1>1. /\ TypeOK /\ UNCHANGED <<syncChan, wmsg, seen, disk>>
      /\ reader[r] = IdleReader
      /\ reader' = [reader EXCEPT ![r] = nd]
      /\ raced' = {b \in raced : UnderWay(b)} \cup {b \in R : \E q \in Reader : Has(q, b)}
    BY DEF SyncSend, IInv
<1>2. nd \in ReaderState /\ nd.todo = R /\ nd.batch = {}
    BY DEF ReaderState, IdleReader, Requested
<1> HIDE DEF nd
<1>3. /\ reader'[r] = nd /\ \A q \in Reader \ {r} : reader'[q] = reader[q]
      /\ reader[r].todo = {} /\ reader[r].batch = {}
    <2>1. IdleReader.todo = {} /\ IdleReader.batch = {}
        BY DEF IdleReader
    <2>2. reader'[r] = nd /\ \A q \in Reader \ {r} : reader'[q] = reader[q]
        BY <1>1, <1>2, ReaderFields
    <2> QED BY <1>1, <2>1, <2>2
<1>4. \A b \in raced : b \notin raced' => ~UnderWay(b)
    BY <1>1
<1>5. \A i \in Nat : Place(i)' \subseteq Place(i)
    <2>1. Batched' \subseteq Batched
        <3>1. ASSUME NEW d \in Batched' PROVE d \in Batched
            <4>1. PICK q \in Reader : d \in reader'[q].batch
                BY <3>1 DEF Batched
            <4> QED BY <4>1, <1>2, <1>3 DEF Batched
        <3> QED BY <3>1
    <2> QED BY <2>1, <1>1 DEF Place
<1>6. \A i \in Nat : \A c \in Place(i)' : c.blk \in raced => c.blk \in raced'
    BY <1>1, <1>4, <1>5, PlacesAreCopies DEF UnderWay
<1>7. Queue' /\ NotPast'
    BY <1>1, <1>5, <1>6, StayPut DEF Order
<1>8. Unread'
    BY <1>2, <1>3 DEF Order, Unread
<1>9. Alone'
    <2> SUFFICES ASSUME NEW b \in Block, b \notin raced', NEW p \in Reader, NEW q \in Reader,
                        Has(p, b)', Has(q, b)', p # q
                 PROVE  FALSE
        BY DEF Alone
    <2>1. \A s \in Reader \ {r} : Has(s, b)' => Has(s, b)
        BY <1>3 DEF Has
    <2>2. Has(r, b)' => b \in R
        BY <1>2, <1>3 DEF Has
    <2>3. b \notin R \/ \A s \in Reader : ~Has(s, b)
        BY <1>1
    <2>4. p # r /\ q # r
        BY <2>1, <2>2, <2>3
    <2>5. Has(p, b) /\ Has(q, b)
        BY <2>1, <2>4
    <2>6. b \notin raced
        BY <2>5, <1>4 DEF UnderWay
    <2> QED BY <2>5, <2>6 DEF Order, Alone
<1>10. Written'
    BY <1>1 DEF Order, Written
<1> QED BY <1>7, <1>8, <1>9, <1>10 DEF Order

\* A message leaves the channel: the places behind it come one nearer.
LEMMA TailPlaces ==
    ASSUME TypeOK, syncChan # <<>>, syncChan' = Tail(syncChan), reader' = reader
    PROVE  /\ \A i \in Nat \ {0} : Place(i)' = Place(i + 1)
           /\ Place(1) = Head(syncChan)
<1> DEFINE n == Len(syncChan)
<1>1. syncChan \in Seq(SUBSET Copy)
    BY DEF TypeOK
<1>2. /\ n \in Nat /\ n >= 1
      /\ Len(syncChan') = n - 1
      /\ Head(syncChan) = syncChan[1]
      /\ \A i \in 1..n-1 : syncChan'[i] = syncChan[i + 1]
    BY <1>1, TailFacts
<1>3. Batched' = Batched
    BY DEF Batched
<1> HIDE DEF n
<1>4. ASSUME NEW i \in Nat \ {0} PROVE Place(i)' = Place(i + 1)
    <2>1. CASE i \in 1..n-1
        <3>1. i + 1 \in 1..n /\ i + 1 # 0
            BY <2>1, <1>2
        <3> QED BY <2>1, <3>1, <1>2 DEF Place, n
    <2>2. CASE i = n
        <3>1. i + 1 # 0 /\ i + 1 \notin 1..n /\ i \notin 1..n-1 /\ i = (n - 1) + 1
            BY <2>2, <1>2
        <3> QED BY <2>2, <3>1, <1>2, <1>3 DEF Place, n
    <2>3. CASE i > n
        <3>1. /\ i + 1 # 0 /\ i + 1 \notin 1..n /\ i + 1 # n + 1
              /\ i \notin 1..n-1 /\ i # (n - 1) + 1
            BY <2>3, <1>2
        <3> QED BY <3>1, <1>2 DEF Place, n
    <2> QED BY <2>1, <2>2, <2>3, <1>2
<1>5. Place(1) = Head(syncChan)
    BY <1>2 DEF Place, n
<1> QED BY <1>4, <1>5

LEMMA TakeMessageOrder ==
    ASSUME IInv, Order, TakeMessage PROVE Order'
<1>1. /\ syncChan # <<>> /\ syncChan' = Tail(syncChan) /\ wmsg' = Head(syncChan)
      /\ UNCHANGED <<reader, seen, disk, raced>>
    BY DEF TakeMessage, agentVars
<1>2. TypeOK
    BY DEF IInv
<1> DEFINE f == [i \in Nat |-> i + 1]
<1>3. f \in [Nat -> Nat] /\ \A i \in Nat : f[i] = i + 1
    OBVIOUS
<1>4. ASSUME NEW i \in Nat PROVE Place(i)' \subseteq Place(f[i])
    <2>1. CASE i = 0
        <3>1. Place(i)' = wmsg' /\ f[i] = 1
            BY <2>1 DEF Place
        <3> QED BY <3>1, <1>1, <1>2, TailPlaces
    <2>2. CASE i # 0
        BY <2>2, <1>1, <1>2, <1>3, TailPlaces
    <2> QED BY <2>1, <2>2
<1> HIDE DEF f
<1>5. Queue' /\ NotPast'
    <2>1. Queue /\ NotPast /\ seen' = seen /\ raced' = raced
        BY <1>1 DEF Order
    <2>2. \A i, j \in Nat : i < j => f[i] < f[j]
        BY <1>3
    <2> QED BY <1>3, <1>4, <2>1, <2>2, MoveOn
<1>6. Unread' /\ Alone' /\ Written'
    BY <1>1, HaveLess DEF Order, Written
<1> QED BY <1>5, <1>6 DEF Order

LEMMA DropMessageOrder ==
    ASSUME IInv, Order, DropMessage PROVE Order'
<1>1. /\ syncChan # <<>> /\ syncChan' = Tail(syncChan)
      /\ UNCHANGED <<reader, seen, disk, wmsg, raced>>
    BY DEF DropMessage, agentVars, writeVars
<1>2. TypeOK
    BY DEF IInv
<1> DEFINE f == [i \in Nat |-> IF i = 0 THEN 0 ELSE i + 1]
<1>3. f \in [Nat -> Nat] /\ \A i \in Nat : f[i] = IF i = 0 THEN 0 ELSE i + 1
    OBVIOUS
<1> HIDE DEF f
<1>4. ASSUME NEW i \in Nat PROVE Place(i)' \subseteq Place(f[i])
    <2>1. CASE i = 0
        BY <2>1, <1>1, <1>3 DEF Place
    <2>2. CASE i # 0
        BY <2>2, <1>1, <1>2, <1>3, TailPlaces
    <2> QED BY <2>1, <2>2
<1>5. Queue' /\ NotPast'
    <2>1. Queue /\ NotPast /\ seen' = seen /\ raced' = raced
        BY <1>1 DEF Order
    <2>2. \A i, j \in Nat : i < j => f[i] < f[j]
        BY <1>3
    <2> QED BY <1>3, <1>4, <2>1, <2>2, MoveOn
<1>6. Unread' /\ Alone' /\ Written'
    BY <1>1, HaveLess DEF Order, Written
<1> QED BY <1>5, <1>6 DEF Order

LEMMA WriteBlockOrder ==
    ASSUME IInv, Order, NEW c \in wmsg, WriteBlock(c)
    PROVE  Order' /\ \A b \in Block \ raced : seen[b].ver <= seen'[b].ver
<1>1. /\ UNCHANGED <<reader, syncChan, disk, raced>> /\ wmsg' = wmsg \ {c}
      /\ seen' = [seen EXCEPT ![c.blk] = [ver |-> c.ver, same |-> c.same]]
    BY DEF WriteBlock, agentVars
<1>2. /\ c \in Copies /\ c.blk \in Block /\ c.ver \in Nat
      /\ \A b \in Block : seen[b].ver \in Int
    BY SeenType DEF Copies, IInv
<1>3. \A b \in Block : seen'[b].ver = IF b = c.blk THEN c.ver ELSE seen[b].ver
    BY <1>1, <1>2 DEF IInv, TypeOK
<1>4. c \in Place(0) /\ Place(0)' = Place(0) \ {c}
    BY <1>1 DEF Place
<1>5. \A i \in Nat \ {0} : Place(i)' = Place(i)
    BY <1>1 DEF Place, Batched
<1>6. Queue'
    BY <1>1, <1>4, <1>5, StayPut DEF Order
<1>7. c.blk \notin raced => seen[c.blk].ver <= c.ver
    BY <1>4 DEF Order, NotPast
<1>8. NotPast'
    <2>1. ASSUME NEW i \in Nat, NEW d \in Place(i)', d.blk \notin raced'
          PROVE  seen'[d.blk].ver <= d.ver
        <3>1. d \in Place(i) /\ d \in Copies /\ d.blk \notin raced
            BY <2>1, <1>1, <1>4, <1>5, PlacesAreCopies DEF IInv
        <3>2. d.blk \in Block /\ d.ver \in Nat
            BY <3>1, SeenType DEF IInv
        <3>3. CASE d.blk # c.blk
            BY <3>1, <3>2, <3>3, <1>3 DEF Order, NotPast
        <3>4. CASE d.blk = c.blk /\ i = 0
            <4>1. d # c
                BY <2>1, <3>4, <1>4
            <4> QED BY <4>1, <3>1, <3>4, <1>4 DEF Order, Queue, Once
        <3>5. CASE d.blk = c.blk /\ i # 0
            <4>1. InOrder(Place(0), Place(i))
                BY <3>5 DEF Order, Queue
            <4> QED BY <4>1, <3>1, <3>2, <3>5, <1>3, <1>4 DEF InOrder
        <3> QED BY <3>3, <3>4, <3>5
    <2> QED BY <2>1 DEF NotPast
<1>9. c.ver <= disk[c.blk].ver
    BY <1>2 DEF IInv, Behind
<1>10. Written' /\ Unread' /\ Alone'
    BY <1>1, <1>2, <1>3, <1>9, HaveLess DEF Order, Written
<1> QED BY <1>2, <1>3, <1>6, <1>7, <1>8, <1>10 DEF Order

LEMMA SkipBlockOrder ==
    ASSUME IInv, Order, NEW c \in wmsg, SkipBlock(c) PROVE Order'
<1>1. UNCHANGED <<reader, syncChan, disk, seen, raced>> /\ wmsg' = wmsg \ {c}
    BY DEF SkipBlock, agentVars
<1>2. \A i \in Nat : Place(i)' \subseteq Place(i)
    BY <1>1 DEF Place, Batched
<1>3. Queue' /\ NotPast'
    BY <1>1, <1>2, StayPut DEF Order
<1>4. Unread' /\ Alone' /\ Written'
    BY <1>1, HaveLess DEF Order, Written
<1> QED BY <1>3, <1>4 DEF Order

LEMMA InitOrder == Init => Order
<1> SUFFICES ASSUME Init PROVE Order
    OBVIOUS
<1>1. Batched = {} /\ wmsg = {} /\ Len(syncChan) = 0
    BY DEF Init, Batched, IdleReader
<1>2. \A i \in Nat : Place(i) = {}
    BY <1>1 DEF Place
<1>3. Written
    BY DEF Init, Written, Unseen
<1>4. Unread /\ Alone
    BY DEF Init, Unread, Alone, Has, IdleReader
<1> QED BY <1>2, <1>3, <1>4 DEF Order, Queue, NotPast, InOrder, Once

Forwards == \A b \in Block \ raced : seen[b].ver <= seen'[b].ver

LEMMA NextOrder ==
    ASSUME IInv, Order, [Next]_vars
    PROVE  Order' /\ Forwards
<1>1. /\ TypeOK
      /\ \A b \in Block : seen[b].ver \in Int /\ disk[b].ver \in Nat
    BY SeenType DEF IInv
<1>2. seen' = seen => Forwards
    BY <1>1 DEF Forwards
<1>3. ASSUME UNCHANGED <<reader, syncChan, wmsg, seen, disk, raced>> PROVE Order'
    BY <1>1, <1>3, StillOrder
<1>4. ASSUME NEW b \in Block, NEW same \in BOOLEAN, Write(b, same)
      PROVE  Order' /\ seen' = seen
    <2>1. /\ UNCHANGED <<reader, syncChan, wmsg, seen, raced>>
          /\ disk' = [disk EXCEPT ![b] = [ver |-> disk[b].ver + 1, same |-> same]]
        BY <1>4 DEF Write, writeVars
    <2>2. ASSUME NEW x \in Block
          PROVE  disk'[x].ver \in Nat /\ disk[x].ver <= disk'[x].ver
        <3>1. disk \in [Block -> Content] /\ disk[x].ver \in Nat
            BY <1>1 DEF TypeOK
        <3>2. disk'[x].ver = disk[x].ver \/ disk'[x].ver = disk[x].ver + 1
            BY <2>1, <3>1
        <3> QED BY <3>1, <3>2
    <2> QED BY <1>1, <2>1, <2>2, StillOrder
<1>5. ASSUME AgentStep PROVE Order' /\ seen' = seen
    <2>1. ASSUME NEW e \in ring, ForwardEvent(e) PROVE Order' /\ seen' = seen
        BY <2>1, <1>3 DEF ForwardEvent, writeVars
    <2>2. ASSUME NEW r \in Reader, NEW b \in Block, ReadBlock(r, b)
          PROVE  Order' /\ seen' = seen
        BY <2>2, ReadBlockOrder DEF ReadBlock, writeVars
    <2>3. ASSUME NEW r \in Reader, SendBatch(r) \/ FailBatch(r) PROVE Order' /\ seen' = seen
        BY <2>3, BatchOrder DEF SendBatch, FailBatch, writeVars
    <2> QED BY <1>4, <1>5, <2>1, <2>2, <2>3 DEF AgentStep
<1>6. ASSUME LinkDown \/ TrackStep PROVE Order' /\ seen' = seen
    <2>1. UNCHANGED <<reader, syncChan, wmsg, seen, disk, raced>>
        BY <1>6 DEF LinkDown, TrackStep, Track, FlushTracker, Age, agentVars, writeVars
    <2> QED BY <2>1, <1>3
<1>7. ASSUME SyncStep PROVE Order' /\ seen' = seen
    <2>1. ASSUME SyncBegin \/ SyncReadFiles \/ SyncSendFail \/ SyncRename
          PROVE  UNCHANGED <<reader, syncChan, wmsg, seen, disk, raced>>
        BY <2>1 DEF SyncBegin, SyncReadFiles, SyncSendFail, SyncRename, agentVars, writeVars
    <2>2. ASSUME NEW b \in Block, SyncRetry(b)
          PROVE  UNCHANGED <<reader, syncChan, wmsg, seen, disk, raced>>
        BY <2>2 DEF SyncRetry, agentVars
    <2>3. ASSUME NEW r \in Reader, SyncSend(r) PROVE Order' /\ seen' = seen
        BY <2>3, SyncSendOrder DEF SyncSend
    <2> QED BY <1>3, <1>7, <2>1, <2>2, <2>3 DEF SyncStep
<1>8. ASSUME WriterStep PROVE Order' /\ Forwards
    <2>1. ASSUME TakeMessage PROVE Order' /\ seen' = seen
        BY <2>1, TakeMessageOrder DEF TakeMessage
    <2>2. ASSUME DropMessage PROVE Order' /\ seen' = seen
        BY <2>2, DropMessageOrder DEF DropMessage, writeVars
    <2>3. ASSUME NEW c \in wmsg, WriteBlock(c) PROVE Order' /\ Forwards
        BY <2>3, WriteBlockOrder DEF Forwards
    <2>4. ASSUME NEW c \in wmsg, SkipBlock(c) PROVE Order' /\ seen' = seen
        BY <2>4, SkipBlockOrder DEF SkipBlock
    <2> QED BY <1>2, <1>8, <2>1, <2>2, <2>3, <2>4 DEF WriterStep
<1>9. ASSUME UNCHANGED vars PROVE Order' /\ seen' = seen
    BY <1>3, <1>9 DEF vars, agentVars, writeVars
<1> QED BY <1>2, <1>5, <1>6, <1>7, <1>8, <1>9 DEF Next

\* Whatever fails and however many goroutines read the disk, no copy of a block is
\* handled after a newer one unless two goroutines have had the block at once.
THEOREM NeverBackwardsHolds == Spec => NeverBackwards
<1>1. (IInv /\ Order) /\ [Next]_vars => Order' /\ [Forwards]_seen
    BY NextOrder
<1>2. Init => Order
    BY InitOrder
<1>3. Spec => []IInv
    BY IInvHolds
<1> QED BY <1>1, <1>2, <1>3, PTL DEF Spec, NeverBackwards, Forwards

-----------------------------------------------------------------------------
(* The image is settled once nothing is under way. *)

Reported(b, v) == [blk |-> b, ver |-> v]

\* Copies of one version have the disk's content for it, but for misread ones, whose
\* version is lost.
Faithful ==
    /\ \A c \in Copies : c.own /\ c.ver = disk[c.blk].ver => c.same = disk[c.blk].same
    /\ \A c \in Copies : ~c.own => Reported(c.blk, c.ver) \in lost
    /\ \A b \in Block : seen[b].ver = disk[b].ver =>
            seen[b].same = disk[b].same \/ Reported(b, seen[b].ver) \in lost
    /\ \A b \in Block : disk[b].ver = 0 => disk[b].same

\* The last copy handled decides on the dirty list and on the last .bak entry,
\* unless it was overtaken or is lost.
Latest ==
    \A b \in Block :
        \/ seen[b] = Unseen /\ newest[b] = 0 /\ bak[b] = 0
        \/ Overtaken(b)
        \/ Reported(b, seen[b].ver) \in lost
        \/ newest[b] = seen[b].ver /\ (IF seen[b].same THEN retry[b] > 0
                                                       ELSE bak[b] = seen[b].ver)

\* What is lost stays so.
LEMMA LostStays == ASSUME [Next]_vars PROVE lost \subseteq lost'
<1>1. CASE AgentStep
    <2>1. ASSUME NEW b \in Block, NEW same \in BOOLEAN, Write(b, same) PROVE lost \subseteq lost'
        BY <2>1 DEF Write
    <2>2. ASSUME NEW e \in ring, ForwardEvent(e) PROVE lost \subseteq lost'
        BY <2>2 DEF ForwardEvent
    <2>3. ASSUME NEW r \in Reader, NEW b \in Block, ReadBlock(r, b) PROVE lost \subseteq lost'
        BY <2>3 DEF ReadBlock
    <2>4. ASSUME NEW r \in Reader, SendBatch(r) \/ FailBatch(r) PROVE lost \subseteq lost'
        BY <2>4 DEF SendBatch, FailBatch
    <2> QED BY <1>1, <2>1, <2>2, <2>3, <2>4 DEF AgentStep
<1>2. CASE LinkDown \/ TrackStep
    BY <1>2 DEF LinkDown, TrackStep, Track, FlushTracker, Age
<1>3. CASE SyncStep
    <2>1. ASSUME NEW r \in Reader, SyncSend(r) PROVE lost \subseteq lost'
        BY <2>1 DEF SyncSend
    <2>2. ASSUME NEW b \in Block, SyncRetry(b) PROVE lost \subseteq lost'
        BY <2>2 DEF SyncRetry
    <2> QED BY <1>3, <2>1, <2>2
            DEF SyncStep, SyncBegin, SyncReadFiles, SyncSendFail, SyncRename
<1>4. CASE WriterStep
    <2>1. ASSUME NEW c \in wmsg, WriteBlock(c) \/ SkipBlock(c) PROVE lost \subseteq lost'
        BY <2>1 DEF WriteBlock, SkipBlock
    <2> QED BY <1>4, <2>1 DEF WriterStep, TakeMessage, DropMessage
<1>5. CASE UNCHANGED vars
    BY <1>5 DEF vars
<1> QED BY <1>1, <1>2, <1>3, <1>4, <1>5 DEF Next

\* Where copies come from: the disk as it is, unless they are misread.
LEMMA NewCopies ==
    ASSUME IInv, [Next]_vars, NEW c \in Copies', c \notin Copies
    PROVE  /\ disk' = disk
           /\ c.own => c.same = disk[c.blk].same
           /\ ~c.own => Reported(c.blk, c.ver) \in lost'
<1>1. syncChan \in Seq(SUBSET Copy) /\ TypeOK
    BY DEF IInv, TypeOK
<1>2. ASSUME NEW r \in Reader, NEW b \in Block, ReadBlock(r, b)
      PROVE  /\ disk' = disk
             /\ c.own => c.same = disk[c.blk].same
             /\ ~c.own => Reported(c.blk, c.ver) \in lost'
    <2>1. UNCHANGED <<syncChan, wmsg, disk>>
        BY <1>2 DEF ReadBlock, writeVars
    <2>2. \A q \in Reader \ {r} : reader'[q] = reader[q]
        BY <1>1, <1>2, ReadBlockCases
    <2>3. PICK q \in Reader : c \in reader'[q].batch /\ c \notin reader[q].batch
        BY <2>1 DEF Copies, Queued, Batched
    <2>4. c \in reader'[r].batch /\ c \notin reader[r].batch
        BY <2>2, <2>3
    <2>5. PICK d \in Copy :
              /\ reader'[r].batch = reader[r].batch \cup {d}
              /\ d.blk = b /\ d.ver = disk[b].ver
              /\ IF d.own THEN d.same = disk[b].same /\ lost' = lost
                         ELSE lost' = lost \cup Current({b})
        BY <1>1, <1>2, <2>4, ReadBlockCases
    <2>6. c = d
        BY <2>4, <2>5
    <2>7. Reported(b, disk[b].ver) \in Current({b})
        BY DEF Reported, Current
    <2> QED BY <2>1, <2>5, <2>6, <2>7
<1>3. ASSUME NEW r \in Reader, SendBatch(r) \/ FailBatch(r) PROVE FALSE
    <2> DEFINE B == reader[r].batch
    <2>1. /\ wmsg' = wmsg /\ B \in SUBSET Copy
          /\ \E rd \in Emptied(r) : reader' = [reader EXCEPT ![r] = rd]
        BY <1>3 DEF SendBatch, FailBatch, writeVars, IInv, TypeOK
    <2>2. Batched = Batched' \cup B
        BY <2>1, BatchLeaves
    <2>3. Queued' \subseteq Queued \cup B
        <3>1. CASE syncChan' = Append(syncChan, B)
            BY <1>1, <2>1, <3>1, QueuedAppend DEF Queued
        <3>2. CASE syncChan' = syncChan
            BY <3>2 DEF Queued
        <3> QED BY <1>3, <3>1, <3>2 DEF SendBatch, FailBatch
    <2> QED BY <2>1, <2>2, <2>3 DEF Copies
<1>4. ASSUME NEW r \in Reader, SyncSend(r) PROVE FALSE
    <2> DEFINE nd == [IdleReader EXCEPT !.todo = Requested(LowestChunk(syncer.todo))]
    <2>1. UNCHANGED <<syncChan, wmsg>> /\ reader' = [reader EXCEPT ![r] = nd]
        BY <1>4 DEF SyncSend
    <2>2. nd \in ReaderState /\ nd.batch = {}
        BY DEF ReaderState, IdleReader, Requested
    <2> HIDE DEF nd
    <2>3. \A q \in Reader : reader'[q].batch \subseteq reader[q].batch
        BY <1>1, <2>1, <2>2, ReaderFields
    <2> QED BY <2>1, <2>3 DEF Copies, Batched, Queued
<1>5. ASSUME TakeMessage \/ DropMessage PROVE FALSE
    <2>1. /\ syncChan # <<>> /\ syncChan' = Tail(syncChan) /\ reader' = reader
          /\ wmsg' = wmsg \/ wmsg' = Head(syncChan)
        BY <1>5 DEF TakeMessage, DropMessage, agentVars, writeVars
    <2>2. Queued = Head(syncChan) \cup Queued'
        BY <1>1, <2>1, QueuedTail DEF Queued
    <2> QED BY <2>1, <2>2 DEF Copies, Batched
<1>6. ASSUME NEW d \in wmsg, WriteBlock(d) \/ SkipBlock(d) PROVE FALSE
    <2>1. UNCHANGED <<reader, syncChan>> /\ wmsg' \subseteq wmsg
        BY <1>6 DEF WriteBlock, SkipBlock, agentVars
    <2> QED BY <2>1 DEF Copies, Batched, Queued
<1>7. ASSUME UNCHANGED <<reader, syncChan, wmsg>> PROVE FALSE
    BY <1>7, CopiesSame
<1>8. ASSUME NEW b \in Block, NEW same \in BOOLEAN, Write(b, same) PROVE FALSE
    BY <1>7, <1>8 DEF Write, writeVars
<1>9. ASSUME NEW e \in ring, ForwardEvent(e) PROVE FALSE
    BY <1>7, <1>9 DEF ForwardEvent, writeVars
<1>10. ASSUME LinkDown \/ TrackStep PROVE FALSE
    BY <1>7, <1>10 DEF LinkDown, TrackStep, Track, FlushTracker, Age, agentVars, writeVars
<1>11. ASSUME SyncBegin \/ SyncReadFiles \/ SyncSendFail \/ SyncRename PROVE FALSE
    BY <1>7, <1>11
       DEF SyncBegin, SyncReadFiles, SyncSendFail, SyncRename, agentVars, writeVars
<1>12. ASSUME NEW b \in Block, SyncRetry(b) PROVE FALSE
    BY <1>7, <1>12 DEF SyncRetry, agentVars
<1>13. ASSUME UNCHANGED vars PROVE FALSE
    BY <1>7, <1>13 DEF vars, agentVars, writeVars
<1>14. AgentStep => \E r \in Reader, b \in Block : ReadBlock(r, b)
    BY <1>3, <1>8, <1>9 DEF AgentStep
<1>15. ~SyncStep /\ ~WriterStep
    BY <1>4, <1>5, <1>6, <1>11, <1>12 DEF SyncStep, WriterStep
<1>16. PICK r \in Reader, b \in Block : ReadBlock(r, b)
    BY <1>10, <1>13, <1>14, <1>15 DEF Next
<1> QED BY <1>2, <1>16

\* Who changes the disk and what the writer remembers.
LEMMA DiskAndSeen ==
    ASSUME TypeOK, [Next]_vars
    PROVE  \/ /\ UNCHANGED <<seen, newest, bak>>
              /\ \A x \in Block : retry[x] > 0 => retry'[x] > 0
              /\ disk' = disk \/ \E b \in Block, same \in BOOLEAN : Write(b, same)
           \/ \E c \in wmsg : WriteBlock(c)
<1> DEFINE Kept == UNCHANGED <<disk, seen, newest, bak, retry>>
<1>1. ASSUME NEW e \in ring, ForwardEvent(e) PROVE Kept
    BY <1>1 DEF ForwardEvent, writeVars
<1>2. ASSUME NEW r \in Reader, NEW b \in Block, ReadBlock(r, b) PROVE Kept
    BY <1>2 DEF ReadBlock, writeVars
<1>3. ASSUME NEW r \in Reader, SendBatch(r) \/ FailBatch(r) \/ SyncSend(r) PROVE Kept
    BY <1>3 DEF SendBatch, FailBatch, SyncSend, writeVars
<1>4. ASSUME LinkDown \/ TrackStep PROVE Kept
    BY <1>4 DEF LinkDown, TrackStep, Track, FlushTracker, Age, agentVars, writeVars
<1>5. ASSUME SyncBegin \/ SyncReadFiles \/ SyncSendFail \/ SyncRename PROVE Kept
    BY <1>5 DEF SyncBegin, SyncReadFiles, SyncSendFail, SyncRename, agentVars, writeVars
<1>6. ASSUME NEW b \in Block, SyncRetry(b)
      PROVE  /\ UNCHANGED <<disk, seen, newest, bak>>
             /\ \A x \in Block : retry[x] > 0 => retry'[x] > 0
    <2>1. /\ UNCHANGED <<disk, seen, newest, bak>> /\ retry \in [Block -> Nat]
          /\ retry' = retry \/ retry' = [retry EXCEPT ![b] = CountRetry(retry[b])]
        BY <1>6 DEF SyncRetry, agentVars, TypeOK
    <2>2. CountRetry(retry[b]) > 0
        BY <2>1, CountPositive
    <2> QED BY <2>1, <2>2
<1>7. ASSUME TakeMessage \/ DropMessage PROVE Kept
    BY <1>7 DEF TakeMessage, DropMessage, agentVars, writeVars
<1>8. ASSUME NEW c \in wmsg, SkipBlock(c) PROVE Kept
    BY <1>8 DEF SkipBlock, agentVars
<1>9. ASSUME NEW b \in Block, NEW same \in BOOLEAN, Write(b, same)
      PROVE  UNCHANGED <<seen, newest, bak, retry>>
    BY <1>9 DEF Write, writeVars
<1>10. ASSUME UNCHANGED vars PROVE Kept
    BY <1>10 DEF vars, agentVars, writeVars
<1>11. CASE AgentStep
    BY <1>1, <1>2, <1>3, <1>9, <1>11 DEF AgentStep
<1>12. CASE SyncStep
    BY <1>3, <1>5, <1>6, <1>12 DEF SyncStep
<1>13. CASE WriterStep
    BY <1>7, <1>8, <1>13 DEF WriterStep
<1> QED BY <1>4, <1>10, <1>11, <1>12, <1>13 DEF Next

LEMMA WriteGrows ==
    ASSUME IInv, NEW b \in Block, NEW same \in BOOLEAN, Write(b, same)
    PROVE  \A x \in Block : \/ disk'[x] = disk[x]
                            \/ disk'[x].ver = disk[x].ver + 1 /\ disk[x].ver \in Nat
<1>1. /\ disk' = [disk EXCEPT ![b] = [ver |-> disk[b].ver + 1, same |-> same]]
      /\ disk \in [Block -> Content] /\ \A x \in Block : disk[x].ver \in Nat
    BY DEF Write, IInv, TypeOK, Content
<1> QED BY <1>1

LEMMA NextFaithful ==
    ASSUME IInv, Order, Faithful, [Next]_vars PROVE Faithful'
<1>1. /\ \A b \in Block : disk[b].ver \in Nat /\ seen[b].ver \in Int
      /\ \A c \in Copies : c.blk \in Block /\ c.ver \in Nat /\ c.ver <= disk[c.blk].ver
    BY SeenType DEF IInv, Behind
<1>2. lost \subseteq lost' /\ TypeOK
    BY LostStays DEF IInv
<1>3. \A c \in Copies' : ~c.own => Reported(c.blk, c.ver) \in lost'
    BY <1>2, NewCopies DEF Faithful, Reported
<1>4. CASE disk' = disk
    <2>1. \A c \in Copies' : c.own /\ c.ver = disk'[c.blk].ver => c.same = disk'[c.blk].same
        BY <1>4, NewCopies DEF Faithful
    <2>2. \A b \in Block : disk'[b].ver = 0 => disk'[b].same
        BY <1>4 DEF Faithful
    <2>3. CASE seen' = seen
        <3>1. \A b \in Block : seen'[b].ver = disk'[b].ver =>
                  seen'[b].same = disk'[b].same \/ Reported(b, seen'[b].ver) \in lost'
            BY <1>2, <1>4, <2>3 DEF Faithful
        <3> QED BY <1>3, <2>1, <2>2, <3>1 DEF Faithful, Reported
    <2>4. ASSUME NEW c \in wmsg, WriteBlock(c) PROVE Faithful'
        <3>1. /\ c \in Copies /\ c.blk \in Block
              /\ seen' = [seen EXCEPT ![c.blk] = [ver |-> c.ver, same |-> c.same]]
            BY <2>4, <1>1 DEF WriteBlock, Copies
        <3>2. \A b \in Block : seen'[b] = IF b = c.blk THEN [ver |-> c.ver, same |-> c.same]
                                                       ELSE seen[b]
            BY <3>1 DEF IInv, TypeOK
        <3>3. c.ver = disk[c.blk].ver =>
                  c.same = disk[c.blk].same \/ Reported(c.blk, c.ver) \in lost'
            BY <3>1, <1>2 DEF Faithful
        <3>4. ASSUME NEW b \in Block, seen'[b].ver = disk'[b].ver
              PROVE  seen'[b].same = disk'[b].same \/ Reported(b, seen'[b].ver) \in lost'
            <4>1. CASE b = c.blk
                BY <4>1, <3>2, <3>3, <3>4, <1>4
            <4>2. CASE b # c.blk
                BY <4>2, <3>2, <3>4, <1>2, <1>4 DEF Faithful
            <4> QED BY <4>1, <4>2
        <3> QED BY <1>3, <2>1, <2>2, <3>4 DEF Faithful, Reported
    <2> QED BY <1>2, <2>3, <2>4, DiskAndSeen
<1>5. ASSUME NEW b \in Block, NEW same \in BOOLEAN, Write(b, same), seen' = seen
      PROVE  Faithful'
    <2>1. Copies' = Copies
        BY <1>5, CopiesSame DEF Write, writeVars
    <2>2. \A x \in Block : \/ disk'[x] = disk[x]
                           \/ disk'[x].ver = disk[x].ver + 1
        BY <1>5, WriteGrows
    <2>3. \A x \in Block : seen[x].ver <= disk[x].ver
        BY DEF Order, Written
    <2>4. ASSUME NEW c \in Copies', c.own
          PROVE  c.ver = disk'[c.blk].ver => c.same = disk'[c.blk].same
        BY <1>1, <2>1, <2>2, <2>4 DEF Faithful
    <2>5. ASSUME NEW x \in Block
          PROVE  /\ seen'[x].ver = disk'[x].ver =>
                        seen'[x].same = disk'[x].same \/ Reported(x, seen'[x].ver) \in lost'
                 /\ disk'[x].ver = 0 => disk'[x].same
        BY <1>1, <1>2, <1>5, <2>2, <2>3, <2>5 DEF Faithful
    <2> QED BY <1>3, <2>4, <2>5 DEF Faithful, Reported
<1>6. ASSUME NEW c \in wmsg, WriteBlock(c) PROVE disk' = disk
    BY <1>6 DEF WriteBlock, agentVars
<1> QED BY <1>2, <1>4, <1>5, <1>6, DiskAndSeen

LEMMA NextLatest ==
    ASSUME IInv, Faithful, Latest, [Next]_vars PROVE Latest'
<1>1. lost \subseteq lost' /\ TypeOK
    BY LostStays DEF IInv
<1>2. CASE /\ UNCHANGED <<seen, newest, bak>>
           /\ \A x \in Block : retry[x] > 0 => retry'[x] > 0
    BY <1>1, <1>2 DEF Latest, Overtaken, Reported
<1>3. ASSUME NEW c \in wmsg, WriteBlock(c) PROVE Latest'
    <2>1. /\ c \in Copies /\ c.blk \in Block /\ c.ver \in Nat /\ c.same \in BOOLEAN
          /\ c.own \in BOOLEAN /\ newest[c.blk] \in Nat /\ retry[c.blk] \in Nat
        BY CopyFacts, <1>1 DEF Copy, TypeOK
    <2>2. PICK kept \in BOOLEAN, listed \in BOOLEAN :
              /\ retry' = IF listed THEN [retry EXCEPT ![c.blk] = Relisted(c, @)] ELSE retry
              /\ bak' = IF kept /\ ~c.same
                        THEN [bak EXCEPT ![c.blk] = IF c.own THEN c.ver ELSE Foreign] ELSE bak
              /\ IF IF c.same THEN listed \/ retry[c.blk] > 0 ELSE kept
                 THEN newest' = [newest EXCEPT ![c.blk] = Raised(c, @)] /\ UNCHANGED lost
                 ELSE lost' = lost \cup Versions({c}) /\ UNCHANGED newest
        BY <1>3 DEF WriteBlock, MayFail
    <2>3. /\ seen \in [Block -> Content \cup {Unseen}] /\ retry \in [Block -> Nat]
          /\ newest \in [Block -> Nat] /\ bak \in [Block -> Nat \cup {Foreign}]
        BY <1>1 DEF TypeOK
    <2>4. seen' = [seen EXCEPT ![c.blk] = [ver |-> c.ver, same |-> c.same]]
        BY <1>3 DEF WriteBlock
    <2>5. /\ seen'[c.blk].ver = c.ver /\ seen'[c.blk].same = c.same
          /\ seen'[c.blk] # Unseen
        BY <2>1, <2>3, <2>4 DEF Unseen
    <2>6. ASSUME NEW b \in Block, b # c.blk
          PROVE  /\ seen'[b] = seen[b] /\ newest'[b] = newest[b]
                 /\ bak'[b] = bak[b] /\ retry'[b] = retry[b]
        BY <2>1, <2>2, <2>3, <2>4, <2>6
    <2>7. \/ Overtaken(c.blk)' \/ Reported(c.blk, c.ver) \in lost'
          \/ newest'[c.blk] = c.ver /\ (IF c.same THEN retry'[c.blk] > 0
                                                  ELSE bak'[c.blk] = c.ver)
        <3>1. CASE ~c.own
            BY <3>1, <1>1, <2>1 DEF Faithful
        <3>2. CASE ~(IF c.same THEN listed \/ retry[c.blk] > 0 ELSE kept)
            BY <3>2, <2>2 DEF Versions, Reported
        <3>3. CASE c.own /\ (IF c.same THEN listed \/ retry[c.blk] > 0 ELSE kept)
            <4>1. newest'[c.blk] = Raised(c, newest[c.blk])
                BY <3>3, <2>1, <2>2, <2>3
            <4>2. CASE c.ver < newest[c.blk]
                BY <3>3, <4>1, <4>2, <2>1, <2>5 DEF Raised, Overtaken
            <4>3. CASE newest[c.blk] <= c.ver
                <5>1. newest'[c.blk] = c.ver
                    BY <3>3, <4>1, <4>3, <2>1 DEF Raised
                <5>2. CASE c.same
                    <6>1. CountRetry(retry[c.blk]) > 0
                        BY <2>1, CountPositive
                    <6>2. retry'[c.blk] > 0
                        BY <3>3, <5>2, <6>1, <2>1, <2>2, <2>3 DEF Relisted
                    <6> QED BY <5>1, <5>2, <6>2
                <5>3. CASE ~c.same
                    BY <3>3, <5>1, <5>3, <2>1, <2>2, <2>3
                <5> QED BY <5>2, <5>3
            <4> QED BY <4>2, <4>3, <2>1
        <3> QED BY <3>1, <3>2, <3>3
    <2>8. ASSUME NEW b \in Block
          PROVE  \/ seen'[b] = Unseen /\ newest'[b] = 0 /\ bak'[b] = 0
                 \/ Overtaken(b)'
                 \/ Reported(b, seen'[b].ver) \in lost'
                 \/ newest'[b] = seen'[b].ver /\ (IF seen'[b].same THEN retry'[b] > 0
                                                                   ELSE bak'[b] = seen'[b].ver)
        <3>1. CASE b = c.blk
            BY <3>1, <2>5, <2>7
        <3>2. CASE b # c.blk
            BY <3>2, <2>6, <1>1 DEF Latest, Overtaken
        <3> QED BY <3>1, <3>2
    <2> QED BY <2>8 DEF Latest, Reported
<1> QED BY <1>1, <1>2, <1>3, DiskAndSeen

\* The contents and the accounts together give the image.
LEMMA ImageSettles ==
    ASSUME IInv, Written, Faithful, Latest PROVE SettledOrListed
<1> SUFFICES ASSUME NEW b \in Block, Settled(b)
             PROVE  Overtaken(b) \/ Merged(b) \/ (disk[b].same /\ b \in Dirty)
    BY DEF SettledOrListed
<1>1. /\ newest[b] = disk[b].ver /\ disk[b].ver \in Nat
      /\ Reported(b, disk[b].ver) \notin lost
    BY DEF Settled, IInv, Accounted, TypeOK, Content, Forgone, Report, Reported
<1>2. CASE seen[b] = Unseen /\ newest[b] = 0 /\ bak[b] = 0
    BY <1>1, <1>2 DEF Faithful, Merged
<1>3. CASE Reported(b, seen[b].ver) \in lost
    <2>1. seen[b].ver \in Nat /\ seen[b].ver <= disk[b].ver
        BY <1>3 DEF IInv, TypeOK, Event, Reported, Written
    <2>2. seen[b].ver # disk[b].ver
        BY <1>1, <1>3
    <2>3. seen[b] # Unseen
        BY <2>1 DEF Unseen
    <2> QED BY <1>1, <2>1, <2>2, <2>3 DEF Overtaken
<1>4. CASE newest[b] = seen[b].ver /\ (IF seen[b].same THEN retry[b] > 0
                                                       ELSE bak[b] = seen[b].ver)
    <2>1. seen[b].same = disk[b].same
        BY <1>1, <1>4 DEF Faithful
    <2>2. CASE disk[b].same
        BY <1>4, <2>1, <2>2 DEF Dirty
    <2>3. CASE ~disk[b].same
        BY <1>1, <1>4, <2>1, <2>3 DEF Merged
    <2> QED BY <2>2, <2>3
<1> QED BY <1>2, <1>3, <1>4 DEF Latest

\* Whatever fails and however many goroutines read the disk, merging gives the
\* content of every block nothing is under way for, but for those that were given
\* up or overtaken and for the listed ones that equal the full copy again.
THEOREM SettledOrListedHolds == Spec => []SettledOrListed
<1> DEFINE Inv == Order /\ Faithful /\ Latest
<1>1. Init => Inv
    <2> SUFFICES ASSUME Init PROVE Inv
        OBVIOUS
    <2>1. Copies = {}
        BY DEF Init, Copies, Batched, Queued, IdleReader
    <2>2. Faithful
        BY <2>1 DEF Init, Faithful, Unseen
    <2>3. Latest
        BY DEF Init, Latest
    <2> QED BY <2>2, <2>3, InitOrder
<1>2. Inv /\ (IInv /\ [Next]_vars) => Inv'
    BY NextOrder, NextFaithful, NextLatest
<1>3. IInv /\ Inv => SettledOrListed
    BY ImageSettles DEF Order
<1> HIDE DEF Inv
<1> QED BY <1>1, <1>2, <1>3, IInvHolds, PTL DEF Spec
=============================================================================
