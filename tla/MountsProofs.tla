----------------------------- MODULE MountsProofs -----------------------------
(***************************************************************************)
(* Safety of Mounts: what the merge of a checkpoint gives, for every disk  *)
(* size, clock unit, retention and set of failures, whatever the writer,   *)
(* full backups, the cleanup and the archive job do meanwhile.             *)
(***************************************************************************)
EXTENDS Mounts, BackupFilesProofs

\* The dispatcher does not notice a merge: the files behave as in BackupFiles,
\* and whatever is proved of them there holds here.
THEOREM MountsKeepFiles == MountsSpec => Spec
<1>1. MountsInit => Init
    BY DEF MountsInit
<1>2. [MountsNext]_allVars => [Next]_vars
    BY DEF MountsNext, allVars
<1> QED BY <1>1, <1>2, PTL DEF MountsSpec, Spec

-----------------------------------------------------------------------------
(* What a step of the files changes *)

LEMMA Frame ==
    ASSUME Next
    PROVE  /\ Tick \/ (\E b \in Block : DiskWrite(b)) \/ UNCHANGED <<now, disk>>
           /\ \/ \E e \in cst : \/ FlushSame(e) \/ LoseFlush(e) \/ FailFlush(e)
                               \/ FlushRotate(e) \/ FailRotate(e)
              \/ (\E m \in Name : CheckBak(m)) \/ Restart
              \/ UNCHANGED <<bak, writer>>
           /\ \/ CopyBlock \/ ArchiveEnd \/ (\E m \in Name : RemoveSnapshot(m))
              \/ UNCHANGED snap
           /\ \/ Tick \/ StartStream \/ CopyBlock \/ EndStream \/ Restart
              \/ UNCHANGED stream
<1> USE DEF liveVars, snapVars, bakVars
<1>1. ASSUME Tick PROVE UNCHANGED <<bak, writer, snap>>
    BY <1>1 DEF Tick
<1>2. ASSUME RecordChanges PROVE UNCHANGED <<now, disk, bak, writer, snap, stream>>
    BY <1>2 DEF RecordChanges
<1>3. ASSUME StartStream \/ EndStream PROVE UNCHANGED <<now, disk, bak, writer, snap>>
    BY <1>3 DEF StartStream, EndStream
<1>4. ASSUME CopyBlock PROVE UNCHANGED <<now, disk, bak, writer>>
    BY <1>4 DEF CopyBlock
<1>5. ASSUME NEW b \in Block, DiskWrite(b) PROVE UNCHANGED <<bak, writer, snap, stream>>
    BY <1>5 DEF DiskWrite
<1>6. ASSUME NEW e \in cst, DropRecord(e)
      PROVE  UNCHANGED <<now, disk, bak, writer, snap, stream>>
    BY <1>6 DEF DropRecord
<1>7. ASSUME NEW e \in cst, \/ FlushSame(e) \/ LoseFlush(e) \/ FailFlush(e)
                             \/ FlushRotate(e) \/ FailRotate(e)
      PROVE  UNCHANGED <<now, disk, snap, stream>>
    BY <1>7 DEF FlushSame, LoseFlush, FailFlush, FlushRotate, FailRotate
<1>8. ASSUME ArchiveEnd PROVE UNCHANGED <<now, disk, bak, writer, stream>>
    BY <1>8 DEF ArchiveEnd
<1>9. ASSUME NEW m \in Name, ArchiveBegin(m)
      PROVE  UNCHANGED <<now, disk, bak, writer, snap, stream>>
    BY <1>9 DEF ArchiveBegin
<1>10. ASSUME NEW m \in Name, RemoveSnapshot(m)
       PROVE  UNCHANGED <<now, disk, bak, writer, stream>>
    BY <1>10 DEF RemoveSnapshot
<1>11. ASSUME NEW m \in Name, CheckBak(m) PROVE UNCHANGED <<now, disk, snap, stream>>
    BY <1>11 DEF CheckBak
<1>12. ASSUME NEW t \in Time, CheckCst(t)
       PROVE  UNCHANGED <<now, disk, bak, writer, snap, stream>>
    BY <1>12 DEF CheckCst
<1>13. ASSUME CleanStart PROVE UNCHANGED <<now, disk, bak, writer, snap, stream>>
    BY <1>13 DEF CleanStart
<1>14. ASSUME CleanList \/ ListFiles PROVE UNCHANGED <<now, disk, bak, writer, snap, stream>>
    BY <1>14 DEF CleanList, ListFiles
<1>15. ASSUME CleanEnd PROVE UNCHANGED <<now, disk, bak, writer, snap, stream>>
    BY <1>15 DEF CleanEnd
<1>16. ASSUME Restart PROVE UNCHANGED <<now, disk, snap>>
    BY <1>16 DEF Restart
<1>17. \/ Tick \/ RecordChanges \/ StartStream \/ EndStream \/ CopyBlock \/ ArchiveEnd
       \/ CleanStart \/ CleanList \/ ListFiles \/ CleanEnd \/ Restart
       \/ \E b \in Block : DiskWrite(b)
       \/ \E e \in cst : \/ DropRecord(e) \/ FlushSame(e) \/ LoseFlush(e)
                        \/ FailFlush(e) \/ FlushRotate(e) \/ FailRotate(e)
       \/ \E m \in Name : ArchiveBegin(m) \/ RemoveSnapshot(m) \/ CheckBak(m)
       \/ \E t \in Time : CheckCst(t)
    BY DEF Next, CleanStep
<1> QED BY <1>1, <1>2, <1>3, <1>4, <1>5, <1>6, <1>7, <1>8, <1>9, <1>10, <1>11, <1>12,
           <1>13, <1>14, <1>15, <1>16, <1>17

\* Time goes on by a minute at most, and versions only go up.
LEMMA ClockStep ==
    ASSUME TypeOK, TypeOK', Next
    PROVE  /\ MinuteOf(now) \in Name /\ MinuteOf(now)' \in Name
           /\ \/ MinuteOf(now)' = MinuteOf(now)
              \/ MinuteOf(now)' = MinuteOf(now) + 1 /\ disk' = disk
           /\ now \in Nat /\ now' \in Nat /\ now <= now'
           /\ \A b \in Block : disk[b] \in Nat /\ disk'[b] \in Nat /\ disk[b] <= disk'[b]
<1>0. /\ now \in Nat /\ now' \in Nat
      /\ MinuteOf(now) \in Name /\ MinuteOf(now') \in Name /\ MinuteOf(now)' = MinuteOf(now')
      /\ \A b \in Block : disk[b] \in Nat /\ disk'[b] \in Nat
    BY MinuteIsName, SizeAssumption DEF TypeOK, Time, MinuteOf
<1>1. CASE Tick
    <2>1. now' = now + 1 /\ disk' = disk
        BY <1>1 DEF Tick, liveVars
    <2>2. MinuteOf(now + 1) = MinuteOf(now) \/ MinuteOf(now + 1) = MinuteOf(now) + 1
        BY <1>0, UnitAssumption, Z3 DEF MinuteOf
    <2> QED BY <1>0, <2>1, <2>2
<1>2. CASE \E b \in Block : DiskWrite(b)
    <2>1. PICK b \in Block : disk' = [disk EXCEPT ![b] = @ + 1] /\ now' = now
        BY <1>2 DEF DiskWrite
    <2>2. \A a \in Block : disk[a] <= disk'[a]
        BY <1>0, <2>1 DEF TypeOK
    <2> QED BY <1>0, <2>1, <2>2
<1>3. CASE UNCHANGED <<now, disk>>
    BY <1>0, <1>3
<1> QED BY <1>1, <1>2, <1>3, Frame

\* Where the entries of the files and of the encoder come from in a step.
Stored ==
    /\ \A m \in Name : \A x \in Elements(bak'[m].data) :
          \/ x \in Elements(bak[m].data)
          \/ m = writer.file /\ x \in Elements(writer.enc)
          \/ m = MinuteOf(now) /\ now' = now /\ x.ver <= disk[x.blk]
    /\ writer'.file # NoFile => \A x \in Elements(writer'.enc) :
          \/ writer'.file = writer.file /\ x \in Elements(writer.enc)
          \/ writer'.file = MinuteOf(now) /\ now' = now /\ x.ver <= disk[x.blk]
    /\ \A m \in Name : bak'[m].at # Never => bak[m].at # Never \/ m = MinuteOf(now)
    /\ \A m \in Name : m < MinuteOf(now) /\ m # writer.file =>
          bak'[m].data = bak[m].data /\ m # writer'.file

\* A flush within the minute of the open file: the encoder gets w, writes k of
\* it, and keeps or loses the rest.
LEMMA StoredByOpenFile ==
    ASSUME TypeOK, writer.file = MinuteOf(now), now' = now,
           NEW w \in Seq(Entry), NEW s \in Seq(Entry), NEW k \in 0..Len(w),
           Elements(w) = Elements(writer.enc) \cup Elements(s), UpTo(disk, s),
           writer'.file = writer.file,
           writer'.enc \in {SubSeq(w, k + 1, Len(w)), <<>>},
           bak' = Appended(SubSeq(w, 1, k))
    PROVE  Stored
<1> DEFINE f == writer.file
           p == SubSeq(w, 1, k)
           r == SubSeq(w, k + 1, Len(w))
<1>1. f \in Name /\ f # NoFile /\ bak[f].data \in Seq(Entry)
    BY FileTypes
<1>2. p \in Seq(Entry) /\ Elements(p) \subseteq Elements(w) /\ Elements(r) \subseteq Elements(w)
    BY SubSeqFacts
<1>3. /\ \A m \in Name : m # f => bak'[m] = bak[m]
      /\ \/ bak'[f] = bak[f]
         \/ bak[f].at # Never /\ bak'[f].data = bak[f].data \o p
    BY <1>1, <1>2, AppendedFacts
<1>4. Elements(writer'.enc) \subseteq Elements(w)
    BY <1>2, EmptySequence
<1> HIDE DEF p, r
<1>5. ASSUME NEW x \in Elements(w)
      PROVE  x \in Elements(writer.enc) \/ x.ver <= disk[x.blk]
    BY <1>5 DEF UpTo
<1>6. Elements(bak'[f].data) \subseteq Elements(bak[f].data) \cup Elements(w)
    <2>1. Elements(bak[f].data \o p) = Elements(bak[f].data) \cup Elements(p)
        BY <1>1, <1>2, ConcatElements
    <2> QED BY <1>2, <1>3, <2>1
<1>7. \A m \in Name : bak'[m].at # Never => bak[m].at # Never \/ m = MinuteOf(now)
    BY <1>3
<1>8. \A m \in Name : m < MinuteOf(now) /\ m # writer.file =>
          bak'[m].data = bak[m].data /\ m # writer'.file
    BY <1>3
<1> QED BY <1>1, <1>3, <1>4, <1>5, <1>6, <1>7, <1>8 DEF Stored

LEMMA StoredByFlushSame ==
    ASSUME TypeOK, EntriesInv, NEW e \in cst, FlushSame(e) \/ LoseFlush(e) PROVE Stored
<1> DEFINE s == Buffered(Compared, e.blk)
           w == writer.enc \o s
<1>1. e.blk \in Block /\ writer.file = MinuteOf(now) /\ now' = now
    BY DEF FlushSame, LoseFlush, TypeOK, Record
<1>2. s \in Seq(Entry) /\ UpTo(disk, s)
    BY <1>1, BufferedType, FlowBuffer DEF EntriesInv, Flow
<1>3. w \in Seq(Entry)
    BY <1>2, ConcatElements, FileTypes
<1>4. PICK k \in 0..Len(w) :
         /\ bak' = Appended(SubSeq(w, 1, k))
         /\ \/ writer' = [writer EXCEPT !.enc = SubSeq(w, k + 1, Len(w)), !.buf = <<>>]
            \/ writer' = [writer EXCEPT !.enc = <<>>, !.buf = <<>>, !.bad = TRUE]
    <2>1. CASE FlushSame(e)
        BY <2>1 DEF FlushSame
    <2>2. CASE LoseFlush(e)
        <3> HIDE DEF w
        <3>1. Len(w) \in Nat
            BY <1>3
        <3>2. (IF writer.bad THEN {0} ELSE 0..Len(w)) \subseteq 0..Len(w)
            BY <3>1
        <3> QED BY <2>2, <3>2 DEF LoseFlush, w
    <2> QED BY <2>1, <2>2
<1> HIDE DEF s
<1>5. Elements(w) = Elements(writer.enc) \cup Elements(s)
    BY <1>2, ConcatElements, FileTypes
<1> HIDE DEF w
<1>6. writer'.file = writer.file /\ writer'.enc \in {SubSeq(w, k + 1, Len(w)), <<>>}
    BY <1>4 DEF TypeOK
<1> QED BY <1>1, <1>2, <1>3, <1>4, <1>5, <1>6, StoredByOpenFile

LEMMA StoredByFailFlush ==
    ASSUME TypeOK, NEW e \in cst, FailFlush(e) PROVE Stored
<1>1. /\ writer.file = MinuteOf(now) /\ now' = now
      /\ writer'.file = writer.file /\ writer'.enc = <<>>
    BY DEF FailFlush, TypeOK
<1>2. PICK k \in 0..Len(writer.enc) : bak' = Appended(SubSeq(writer.enc, 1, k))
    <2>1. (IF writer.bad THEN {0} ELSE 0..Len(writer.enc)) \subseteq 0..Len(writer.enc)
        BY FileTypes
    <2> QED BY <2>1 DEF FailFlush
<1>3. /\ <<>> \in Seq(Entry) /\ writer.enc \in Seq(Entry) /\ UpTo(disk, <<>>)
      /\ Elements(writer.enc) = Elements(writer.enc) \cup Elements(<<>>)
    BY EmptySequence, FileTypes
<1> QED BY <1>1, <1>2, <1>3, StoredByOpenFile

\* Closing the open file adds a part of what the encoder has.
LEMMA ClosedElements ==
    ASSUME TypeOK, NEW j \in Closable, NEW m \in Name
    PROVE  /\ \A x \in Elements(Closed(j)[m].data) :
                 x \in Elements(bak[m].data) \/ (m = writer.file /\ x \in Elements(writer.enc))
           /\ Closed(j)[m].at # Never => bak[m].at # Never
           /\ m # writer.file => Closed(j)[m] = bak[m]
<1>1. CASE bak[m].at = Never \/ m # writer.file
    BY <1>1, ClosedFacts
<1>2. CASE bak[m].at # Never /\ m = writer.file
    <2> DEFINE p == SubSeq(writer.enc, 1, j)
    <2>1. /\ writer.enc \in Seq(Entry) /\ j \in 0..Len(writer.enc)
          /\ bak[m].data \in Seq(Entry)
        BY ClosableFacts, FileTypes
    <2>2. p \in Seq(Entry) /\ Elements(p) \subseteq Elements(writer.enc)
        BY <2>1, SubSeqFacts
    <2>3. Closed(j)[m].data = bak[m].data \o p
        BY <1>2, ClosedFacts
    <2> HIDE DEF p
    <2>4. Elements(bak[m].data \o p) = Elements(bak[m].data) \cup Elements(p)
        BY <2>1, <2>2, ConcatElements
    <2> QED BY <1>2, <2>2, <2>3, <2>4
<1> QED BY <1>1, <1>2

LEMMA StoredByFlushRotate ==
    ASSUME TypeOK, EntriesInv, NEW e \in cst, FlushRotate(e) PROVE Stored
<1> DEFINE s == Buffered(Compared, e.blk)
           m == MinuteOf(now)
<1>1. PICK k \in 0..Len(s), j \in Closable :
         /\ writer' = [file |-> m, enc |-> SubSeq(s, k + 1, Len(s)),
                       buf |-> <<>>, handle |-> Compared, bad |-> FALSE]
         /\ bak' = [Closed(j) EXCEPT ![m] = [at |-> now, data |-> SubSeq(s, 1, k)]]
    BY DEF FlushRotate
<1>2. e.blk \in Block /\ m \in Name /\ m # writer.file /\ now' = now
    BY FileTypes DEF FlushRotate, TypeOK, Record
<1>3. s \in Seq(Entry) /\ UpTo(disk, s)
    BY <1>2, BufferedType, FlowBuffer DEF EntriesInv, Flow
<1> HIDE DEF s
<1> DEFINE p == SubSeq(s, 1, k)
           r == SubSeq(s, k + 1, Len(s))
<1>4. Elements(p) \subseteq Elements(s) /\ Elements(r) \subseteq Elements(s)
    BY <1>3, SubSeqFacts
<1>5. /\ writer'.file = m /\ writer'.enc = r
      /\ bak'[m].data = p
      /\ \A n \in Name : n # m => bak'[n] = Closed(j)[n]
    BY <1>1, <1>2, ClosedType
<1> HIDE DEF p, r
<1>6. \A x \in Elements(s) : x.ver <= disk[x.blk]
    BY <1>3 DEF UpTo
<1> QED BY <1>2, <1>4, <1>5, <1>6, ClosedElements, FileTypes DEF Stored

LEMMA StoredInStep ==
    ASSUME TypeOK, EntriesInv, Next PROVE Stored
<1>1. ASSUME NEW e \in cst, FailRotate(e) PROVE Stored
    <2>1. PICK j \in Closable : bak' = Closed(j) /\ writer'.file = NoFile
        BY <1>1 DEF FailRotate, NoWriter
    <2> QED BY <2>1, ClosedElements, FileTypes DEF Stored
<1>2. ASSUME NEW n \in Name, CheckBak(n) PROVE Stored
    <2>1. writer' = writer
        BY <1>2 DEF CheckBak
    <2>2. \A m \in Name : bak'[m].data = bak[m].data /\ bak'[m].at \in {bak[m].at, Never}
        <3>1. CASE bak' = bak
            BY <3>1
        <3>2. CASE \E t \in Removed(bak[n].at) : bak' = [bak EXCEPT ![n].at = t]
            BY <3>2 DEF TypeOK, Backup, Removed
        <3> QED BY <1>2, <3>1, <3>2 DEF CheckBak
    <2> QED BY <2>1, <2>2 DEF Stored
<1>3. CASE Restart
    <2>1. bak' = bak /\ writer'.file = NoFile
        BY <1>3 DEF Restart, NoWriter
    <2> QED BY <2>1, FileTypes DEF Stored
<1>4. CASE UNCHANGED <<bak, writer>>
    BY <1>4 DEF Stored
<1> QED BY <1>1, <1>2, <1>3, <1>4, StoredByFlushSame, StoredByFailFlush,
           StoredByFlushRotate, Frame

-----------------------------------------------------------------------------
(* The history of the disk *)

Pasts == [Name -> [Block -> Nat]]

LEMMA PastStep ==
    ASSUME TypeOK, TypeOK', Next, past \in Pasts, PastGrows, Remember
    PROVE  /\ past' \in Pasts
           /\ PastGrows'
           /\ \A m \in Name, b \in Block : m <= MinuteOf(now) => past[m][b] <= past'[m][b]
           /\ now' = now => past'[MinuteOf(now)] = disk'
           /\ MinuteOf(now) <= MinuteOf(now)'
<1> DEFINE M == MinuteOf(now)
           K == MinuteOf(now)'
<1>1. /\ M \in Name /\ K \in Name /\ \A m \in Name : m \in Nat
      /\ K = M \/ (K = M + 1 /\ disk' = disk)
      /\ \A b \in Block : disk[b] \in Nat /\ disk'[b] \in Nat /\ disk[b] <= disk'[b]
      /\ now' = now => K = M
      /\ disk' \in [Block -> Nat]
    BY ClockStep, FileTypes DEF TypeOK, MinuteOf
<1>2. past' = [past EXCEPT ![K] = disk']
    BY DEF Remember, MinuteOf
<1>3. /\ past[M] = disk
      /\ \A m \in Name, k \in Name, b \in Block :
            m <= k /\ k <= M => past[m][b] <= past[k][b]
    BY DEF PastGrows
<1> HIDE DEF M, K
<1>4. past' \in Pasts
    BY <1>1, <1>2 DEF Pasts
<1>5. past'[K] = disk' /\ \A m \in Name : m # K => past'[m] = past[m]
    BY <1>1, <1>2 DEF Pasts
<1>6. \A m \in Name, b \in Block : past[m][b] \in Nat /\ past'[m][b] \in Nat
    BY <1>4 DEF Pasts
<1>7. ASSUME NEW m \in Name, NEW b \in Block, m <= M
      PROVE  past[m][b] <= past'[m][b] /\ past[m][b] <= disk'[b]
    <2>1. past[m][b] <= disk[b]
        BY <1>1, <1>3, <1>7
    <2>2. past[m][b] <= disk'[b]
        BY <1>1, <1>6, <2>1
    <2> QED BY <1>5, <1>6, <2>2
<1>8. ASSUME NEW m \in Name, NEW k \in Name, NEW b \in Block, m <= k, k <= K
      PROVE  past'[m][b] <= past'[k][b]
    <2>1. CASE k = K /\ m = K
        BY <1>6, <2>1
    <2>2. CASE k = K /\ m # K
        <3>1. m <= M
            BY <1>1, <1>8, <2>2
        <3> QED BY <1>5, <1>7, <2>2, <3>1
    <2>3. CASE k # K
        <3>1. m # K /\ m <= M /\ k <= M
            BY <1>1, <1>8, <2>3
        <3> QED BY <1>3, <1>5, <1>8, <2>3, <3>1
    <2> QED BY <2>1, <2>2, <2>3
<1>9. PastGrows'
    <2>1. past'[MinuteOf(now)'] = disk'
        BY <1>5 DEF K
    <2> QED BY <1>8, <2>1 DEF K, PastGrows
<1>10. now' = now => past'[M] = disk'
    BY <1>1, <1>5
<1>11. M <= K
    BY <1>1
<1> QED BY <1>4, <1>7, <1>9, <1>10, <1>11 DEF M, K

LEMMA FilesPastStep ==
    ASSUME TypeOK, TypeOK', EntriesInv, Next, past \in Pasts, PastGrows, FilesPast, Remember
    PROVE  FilesPast'
<1>1. Stored
    BY StoredInStep
<1>2. /\ past' \in Pasts
      /\ \A m \in Name, b \in Block : m <= MinuteOf(now) => past[m][b] <= past'[m][b]
      /\ now' = now => past'[MinuteOf(now)] = disk'
      /\ MinuteOf(now) <= MinuteOf(now)'
    BY PastStep
<1>3. /\ MinuteOf(now) \in Name /\ MinuteOf(now) \in Nat /\ MinuteOf(now)' \in Nat
      /\ \A m \in Name : m \in Nat /\ NoFile \notin Name
      /\ \A b \in Block : disk[b] \in Nat /\ disk'[b] \in Nat /\ disk[b] <= disk'[b]
      /\ \A m \in Name, b \in Block : past[m][b] \in Nat /\ past'[m][b] \in Nat
    BY <1>2, ClockStep, FileTypes DEF Pasts
\* An entry known to be no younger than minute m stays so.
<1>4. ASSUME NEW m \in Name, NEW x \in Entry,
             \/ m <= MinuteOf(now) /\ x.ver <= past[m][x.blk]
             \/ m = MinuteOf(now) /\ now' = now /\ x.ver <= disk[x.blk]
      PROVE  x.ver <= past'[m][x.blk]
    <2>1. x.blk \in Block /\ x.ver \in Nat
        BY DEF Entry
    <2>2. CASE m <= MinuteOf(now) /\ x.ver <= past[m][x.blk]
        <3>1. past[m][x.blk] <= past'[m][x.blk]
            BY <1>2, <2>1, <2>2
        <3> QED BY <1>3, <2>1, <2>2, <3>1
    <2>3. CASE m = MinuteOf(now) /\ now' = now /\ x.ver <= disk[x.blk]
        <3>1. past'[m][x.blk] = disk'[x.blk] /\ disk[x.blk] <= disk'[x.blk]
            BY <1>2, <1>3, <2>1, <2>3
        <3> QED BY <1>3, <2>1, <2>3, <3>1
    <2> QED BY <1>4, <2>2, <2>3
<1>5. writer.file # NoFile =>
        /\ writer.file \in Name /\ writer.file <= MinuteOf(now)
        /\ \A x \in Elements(writer.enc) : x.ver <= past[writer.file][x.blk]
    BY FileTypes DEF FilesPast, UpToMinute, EntriesInv, FilesInTime
<1>6. ASSUME NEW m \in Name PROVE UpToMinute(bak[m].data, m)'
    <2>1. ASSUME NEW x \in Elements(bak'[m].data) PROVE x.ver <= past'[m][x.blk]
        <3>1. x \in Entry
            <4>1. bak'[m].data \in Seq(Entry)
                BY DEF TypeOK, Backup
            <4> QED BY <4>1, ElementsFacts
        <3>2. CASE x \in Elements(bak[m].data)
            <4>1. x.ver <= past[m][x.blk]
                BY <3>2 DEF FilesPast, UpToMinute
            <4>2. bak[m].data # <<>>
                BY <3>2, EmptySequence
            <4>3. m <= MinuteOf(now)
                BY <4>2 DEF EntriesInv, FilesInTime
            <4> QED BY <1>4, <3>1, <4>1, <4>3
        <3>3. CASE m = writer.file /\ x \in Elements(writer.enc)
            BY <1>3, <1>4, <1>5, <3>1, <3>3
        <3>4. CASE m = MinuteOf(now) /\ now' = now /\ x.ver <= disk[x.blk]
            BY <1>4, <3>1, <3>4
        <3> QED BY <1>1, <2>1, <3>2, <3>3, <3>4 DEF Stored
    <2> QED BY <2>1 DEF UpToMinute
<1>7. ASSUME writer'.file # NoFile PROVE UpToMinute(writer.enc, writer.file)'
    <2>0. writer'.file \in Name /\ writer'.enc \in Seq(Entry)
        BY <1>7 DEF TypeOK
    <2>1. ASSUME NEW x \in Elements(writer'.enc) PROVE x.ver <= past'[writer'.file][x.blk]
        <3>1. x \in Entry
            BY <2>0, ElementsFacts
        <3>2. CASE writer'.file = writer.file /\ x \in Elements(writer.enc)
            BY <1>4, <1>5, <1>7, <3>1, <3>2
        <3>3. CASE writer'.file = MinuteOf(now) /\ now' = now /\ x.ver <= disk[x.blk]
            BY <1>3, <1>4, <3>1, <3>3
        <3> QED BY <1>1, <1>7, <2>1, <3>2, <3>3 DEF Stored
    <2> QED BY <2>1 DEF UpToMinute
<1>8. ASSUME NEW m \in Name, bak'[m].at # Never PROVE m <= MinuteOf(now)'
    <2>1. m <= MinuteOf(now)
        BY <1>1, <1>3, <1>8 DEF Stored, FilesPast
    <2> QED BY <1>2, <1>3, <2>1
<1> QED BY <1>6, <1>7, <1>8 DEF FilesPast

-----------------------------------------------------------------------------
(* The images *)

\* But for the block a full backup appends, images are removed and nothing else.
LEMMA SnapStep ==
    ASSUME IInv, Next
    PROVE  \/ CopyBlock
           \/ \A m \in Name : /\ snap'[m].data = snap[m].data
                              /\ snap'[m].img \in {Never, snap[m].img}
                              /\ snap'[m].img # snap[m].img => m # stream.file /\ stream' = stream
<1>1. ASSUME NEW m \in Name, m # stream.file, stream' = stream,
             NEW i \in Removed(snap[m].img), NEW l,
             snap' = [snap EXCEPT ![m].img = i, ![m].log = l], NEW k \in Name
      PROVE  /\ snap'[k].data = snap[k].data
             /\ snap'[k].img \in {Never, snap[k].img}
             /\ snap'[k].img # snap[k].img => k # stream.file /\ stream' = stream
    <2>1. snap \in [Name -> Snapshot] /\ i \in {Never, snap[m].img}
        BY DEF IInv, TypeOK, Removed
    <2>2. k # m => snap'[k] = snap[k]
        BY <1>1, <2>1
    <2>3. snap'[m].img = i /\ snap'[m].data = snap[m].data
        BY <1>1, <2>1 DEF Snapshot
    <2> QED BY <1>1, <2>1, <2>2, <2>3
<1>2. CASE ArchiveEnd
    <2>1. archiving # NoArch /\ stream' = stream
        BY <1>2 DEF ArchiveEnd
    <2>2. archiving.file \in Name /\ archiving.file # stream.file
        BY <2>1 DEF IInv, TypeOK, RemovalsClosing, Closing
    <2>3. CASE snap' = snap
        BY <2>3
    <2>4. CASE \E i \in Removed(snap[archiving.file].img), l \in Removed(snap[archiving.file].log) :
                  snap' = [snap EXCEPT ![archiving.file].img = i, ![archiving.file].log = l]
        BY <1>1, <2>1, <2>2, <2>4
    <2> QED BY <1>2, <2>3, <2>4 DEF ArchiveEnd
<1>3. ASSUME NEW m \in Name, RemoveSnapshot(m)
      PROVE  \A k \in Name : /\ snap'[k].data = snap[k].data
                             /\ snap'[k].img \in {Never, snap[k].img}
                             /\ snap'[k].img # snap[k].img => k # stream.file /\ stream' = stream
    <2>1. /\ m # stream.file /\ stream' = stream
          /\ \E i \in Removed(snap[m].img), l \in Removed(snap[m].log) :
                snap' = [snap EXCEPT ![m].img = i, ![m].log = l]
        BY <1>3 DEF RemoveSnapshot, IInv, RemovalsClosing, Closing
    <2> QED BY <1>1, <2>1
<1>4. CASE UNCHANGED snap
    BY <1>4
<1> QED BY <1>2, <1>3, <1>4, Frame

\* A full backup that its image keeps in place appends block next at next.
LEMMA CopyBlockFacts ==
    ASSUME IInv, CopyBlock
    PROVE  LET f == stream.file
               d == IF snap[f].img = Never THEN <<>> ELSE snap[f].data
           IN /\ f \in Name /\ stream # NoStream /\ stream' # NoStream
              /\ stream.next \in Block /\ disk[stream.next] \in Nat
              /\ d \in Seq(Nat)
              /\ snap'[f].img = now /\ snap'[f].data = Append(d, disk[stream.next])
              /\ \A m \in Name : m # f => snap'[m] = snap[m]
              /\ stream'.file = f /\ stream'.next = stream.next + 1
              /\ now' = now /\ disk' = disk
<1> DEFINE f == stream.file
           d == IF snap[f].img = Never THEN <<>> ELSE snap[f].data
<1>1. stream # NoStream /\ stream.next \in Block /\ now' = now /\ disk' = disk
    BY DEF CopyBlock, liveVars
<1>2. stream \in [file : Name, next : 0..N, at : Time]
    BY <1>1 DEF IInv, TypeOK
<1>3. f \in Name /\ snap \in [Name -> Snapshot] /\ disk[stream.next] \in Nat
    BY <1>1, <1>2 DEF IInv, TypeOK
<1>4. d \in Seq(Nat)
    BY <1>3 DEF Snapshot
<1>5. snap' = [snap EXCEPT ![f] = [img |-> now, log |-> now,
                                   data |-> Append(d, disk[stream.next])]]
    BY DEF CopyBlock
<1>6. stream' = [stream EXCEPT !.next = @ + 1, !.at = now]
    BY DEF CopyBlock
<1>7. stream'.file = f /\ stream'.next = stream.next + 1
    BY <1>2, <1>6
<1>8. stream' # NoStream
    <2>1. f # NoFile
        BY <1>3, FileTypes DEF IInv
    <2> QED BY <1>7, <2>1 DEF NoStream
<1> HIDE DEF d
<1>9. /\ snap'[f].img = now /\ snap'[f].data = Append(d, disk[stream.next])
      /\ \A m \in Name : m # f => snap'[m] = snap[m]
    BY <1>3, <1>5
<1> QED BY <1>1, <1>3, <1>4, <1>7, <1>8, <1>9 DEF d

LEMMA ImagesPastStep ==
    ASSUME IInv, TypeOK', Next, past \in Pasts, PastGrows, ImagesPast, StreamInPlace, Remember
    PROVE  ImagesPast'
<1>0. TypeOK
    BY DEF IInv
<1>1. /\ past' \in Pasts
      /\ \A m \in Name, b \in Block : m <= MinuteOf(now) => past[m][b] <= past'[m][b]
      /\ now' = now => past'[MinuteOf(now)] = disk'
    BY <1>0, PastStep
<1>2. /\ MinuteOf(now) \in Name /\ now \in Nat
      /\ \A m \in Name, b \in Block : past[m][b] \in Nat /\ past'[m][b] \in Nat
      /\ \A m \in Name : snap[m].img # Never =>
            snap[m].img \in Nat /\ MinuteOf(snap[m].img) \in Name
                                /\ MinuteOf(snap[m].img) <= MinuteOf(now)
    <2>1. ASSUME NEW m \in Name, snap[m].img # Never
          PROVE  snap[m].img \in Nat /\ MinuteOf(snap[m].img) \in Name
                                     /\ MinuteOf(snap[m].img) <= MinuteOf(now)
        <3>1. snap[m].img \in Time
            BY <1>0, <2>1 DEF TypeOK, Snapshot, Stamp
        <3>2. snap[m].img \in Nat /\ snap[m].img <= now
            BY <2>1, <3>1 DEF IInv, NamedByMinute, Time
        <3> QED BY <1>0, <3>1, <3>2, FileTypes, MinuteIsName, MinuteFacts
    <2>2. \A m \in Name, b \in Block : past[m][b] \in Nat /\ past'[m][b] \in Nat
        BY <1>1 DEF Pasts
    <2> QED BY <1>0, <2>1, <2>2, FileTypes
<1>3. ASSUME NEW m \in Images \ appended, NEW i \in DOMAIN snap[m].data
      PROVE  /\ i - 1 \in Block /\ snap[m].data[i] \in Nat
             /\ snap[m].data[i] <= past'[MinuteOf(snap[m].img)][i - 1]
             /\ snap[m].data[i] <= disk[i - 1]
    <2>1. m \in Name /\ snap[m].img # Never
        BY DEF Images
    <2>2. /\ i - 1 \in Block
          /\ snap[m].data[i] <= past[MinuteOf(snap[m].img)][i - 1]
        BY DEF ImagesPast
    <2>3. snap[m].data[i] \in Nat
        BY <1>0, <2>1 DEF TypeOK, Snapshot
    <2>4. past[MinuteOf(snap[m].img)][i - 1] <= past'[MinuteOf(snap[m].img)][i - 1]
        BY <1>1, <1>2, <2>1, <2>2
    <2>5. past[MinuteOf(snap[m].img)][i - 1] <= disk[i - 1]
        <3> DEFINE k == MinuteOf(snap[m].img)
                   b == i - 1
                   M == MinuteOf(now)
        <3>1. /\ k \in Name /\ b \in Block /\ M \in Name /\ k <= M /\ M \in Nat
            BY <1>0, <1>2, <2>1, <2>2, FileTypes
        <3>2. past[M] = disk /\ (k <= M /\ M <= M => past[k][b] <= past[M][b])
            BY <3>1 DEF PastGrows
        <3> HIDE DEF k, b, M
        <3>3. past[k][b] <= disk[b]
            BY <3>1, <3>2
        <3> QED BY <3>3 DEF k, b
    <2>6. disk[i - 1] \in Nat
        BY <1>0, <2>2 DEF TypeOK
    <2> QED BY <1>2, <2>1, <2>2, <2>3, <2>4, <2>5, <2>6
<1>4. appended \subseteq appended'
    BY DEF Remember
<1>5. ASSUME NEW m \in Images' \ appended', NEW i \in DOMAIN snap'[m].data,
             m \in Images, snap'[m].data = snap[m].data, snap'[m].img = snap[m].img
      PROVE  i - 1 \in Block /\ snap'[m].data[i] <= past'[MinuteOf(snap'[m].img)][i - 1]
    BY <1>3, <1>4, <1>5
<1>6. CASE CopyBlock
    <2> DEFINE f == stream.file
               d == IF snap[f].img = Never THEN <<>> ELSE snap[f].data
    <2>1. /\ f \in Name /\ stream # NoStream
          /\ stream.next \in Block /\ disk[stream.next] \in Nat
          /\ d \in Seq(Nat)
          /\ snap'[f].img = now /\ snap'[f].data = Append(d, disk[stream.next])
          /\ \A m \in Name : m # f => snap'[m] = snap[m]
          /\ now' = now /\ disk' = disk
        BY <1>6, CopyBlockFacts
    <2>2. ASSUME f \notin appended, NEW i \in DOMAIN snap'[f].data
          PROVE  i - 1 \in Block /\ snap'[f].data[i] <= past'[MinuteOf(now)][i - 1]
        <3>1. past'[MinuteOf(now)] = disk
            BY <1>1, <2>1
        <3>2. stream.next = Len(d)
            <4>1. Len(<<>>) = 0
                OBVIOUS
            <4> QED BY <2>1, <2>2, <4>1 DEF StreamInPlace
        <3>3. i \in 1..Len(d) + 1
            <4> HIDE DEF d
            <4> QED BY <2>1, <2>2
        <3>4. CASE i = Len(d) + 1
            <4>1. i - 1 = stream.next /\ snap'[f].data[i] = disk[stream.next]
                <5> HIDE DEF d
                <5> QED BY <2>1, <3>2, <3>4
            <4> QED BY <2>1, <3>1, <4>1
        <3>5. CASE i \in 1..Len(d)
            <4>1. snap[f].img # Never /\ d = snap[f].data
                BY <3>5
            <4>2. f \in Images \ appended /\ i \in DOMAIN snap[f].data
                BY <2>1, <2>2, <3>5, <4>1 DEF Images
            <4>3. snap'[f].data[i] = snap[f].data[i]
                BY <2>1, <3>5, <4>1
            <4> QED BY <1>3, <3>1, <4>2, <4>3
        <3> QED BY <2>1, <3>3, <3>4, <3>5
    <2>3. ASSUME NEW m \in Images' \ appended', NEW i \in DOMAIN snap'[m].data
          PROVE  i - 1 \in Block /\ snap'[m].data[i] <= past'[MinuteOf(snap'[m].img)][i - 1]
        <3> HIDE DEF d
        <3>1. CASE m = f
            BY <1>4, <2>1, <2>2, <2>3, <3>1
        <3>2. CASE m # f
            <4>1. m \in Name /\ snap'[m] = snap[m] /\ m \in Images
                BY <2>1, <2>3, <3>2 DEF Images
            <4> QED BY <1>5, <2>3, <4>1
        <3> QED BY <3>1, <3>2
    <2> QED BY <2>3 DEF ImagesPast, MinuteOf
<1>7. CASE \A m \in Name : /\ snap'[m].data = snap[m].data
                           /\ snap'[m].img \in {Never, snap[m].img}
    <2>1. ASSUME NEW m \in Images' \ appended', NEW i \in DOMAIN snap'[m].data
          PROVE  i - 1 \in Block /\ snap'[m].data[i] <= past'[MinuteOf(snap'[m].img)][i - 1]
        <3>1. /\ m \in Name /\ m \in Images
              /\ snap'[m].data = snap[m].data /\ snap'[m].img = snap[m].img
            BY <1>7, <2>1 DEF Images
        <3> QED BY <1>5, <2>1, <3>1
    <2> QED BY <2>1 DEF ImagesPast, MinuteOf
<1> QED BY <1>6, <1>7, SnapStep

LEMMA StreamInPlaceStep ==
    ASSUME IInv, Next, StreamInPlace, Remember
    PROVE  StreamInPlace'
<1>0. TypeOK
    BY DEF IInv
<1>1. appended \subseteq appended'
    BY DEF Remember
<1>2. CASE CopyBlock
    <2> DEFINE f == stream.file
               d == IF snap[f].img = Never THEN <<>> ELSE snap[f].data
    <2>1. /\ f \in Name /\ stream # NoStream
          /\ stream.next \in Block /\ d \in Seq(Nat)
          /\ snap'[f].img = now /\ snap'[f].data = Append(d, disk[stream.next])
          /\ stream'.file = f /\ stream'.next = stream.next + 1
        BY <1>2, CopyBlockFacts
    <2>2. f \notin appended => stream.next = Len(d)
        <3>1. Len(<<>>) = 0
            OBVIOUS
        <3> QED BY <2>1, <3>1 DEF StreamInPlace
    <2>3. snap'[f].img # Never
        BY <1>0, <2>1, FileTypes
    <2> HIDE DEF d
    <2>4. Len(snap'[f].data) = Len(d) + 1
        BY <2>1
    <2> QED BY <1>1, <2>1, <2>2, <2>3, <2>4 DEF StreamInPlace
<1>3. CASE StartStream
    <2>1. /\ stream = NoStream /\ stream'.file = MinuteOf(now) /\ stream'.next = 0
          /\ snap' = snap
        BY <1>3 DEF StartStream
    <2>2. stream' # NoStream
        <3>1. MinuteOf(now) # NoFile
            BY <1>0, FileTypes
        <3> QED BY <2>1, <3>1 DEF NoStream
    <2>3. snap[stream'.file].img # Never => stream'.file \in appended'
        BY <2>1, <2>2 DEF Remember
    <2> QED BY <2>1, <2>3 DEF StreamInPlace
<1>4. CASE stream' = NoStream
    BY <1>4 DEF StreamInPlace
<1>5. CASE stream' = stream /\ ~CopyBlock
    <2>1. \A m \in Name : snap'[m].data = snap[m].data
                          /\ (snap'[m].img # snap[m].img => m # stream.file)
        BY <1>5, SnapStep
    <2>2. stream # NoStream => stream.file \in Name
        BY <1>0 DEF TypeOK
    <2> QED BY <1>1, <1>5, <2>1, <2>2 DEF StreamInPlace
<1>6. CASE Tick
    <2>1. stream' = stream \/ stream' = NoStream
        BY <1>6 DEF Tick
    <2>2. snap' = snap
        BY <1>6 DEF Tick
    <2> QED BY <1>1, <1>4, <2>1, <2>2 DEF StreamInPlace
<1>7. CASE EndStream \/ Restart
    BY <1>4, <1>7 DEF EndStream, Restart
<1> QED BY <1>2, <1>3, <1>5, <1>6, <1>7, Frame

-----------------------------------------------------------------------------
(* What a step of the files changes for a merge: nothing it relies on *)

LEMMA MountTypes ==
    ASSUME TypeOK, MountsTypeOK
    PROVE  /\ mount.upto \in Name /\ mount.files \in SUBSET Name
           /\ mount.upto \in Nat /\ MinuteOf(now) \in Name /\ MinuteOf(now) \in Nat
           /\ mount.image \in [Block -> Nat \cup {Never}]
           /\ \A b \in Block : mount.image[b] \in Int
           /\ mount.at # Never => mount.at \in Time /\ mount.at \in Nat
           /\ mount.owed \in SUBSET [blk : Block, ver : Nat, file : Name]
           /\ past \in Pasts /\ \A m \in Name, b \in Block : past[m][b] \in Nat
BY FileTypes DEF MountsTypeOK, Stamp, Time, Pasts, Never

\* The minute a merged image may be as young as.
LEMMA LaterFacts ==
    ASSUME TypeOK, NEW m \in Name, NEW t \in Time, m <= MinuteOf(now), t <= now
    PROVE  /\ LaterOf(m, t) \in Name /\ LaterOf(m, t) \in Nat
           /\ LaterOf(m, t) <= MinuteOf(now)
           /\ m <= LaterOf(m, t)
           /\ MinuteOf(t) \in Name /\ MinuteOf(t) <= LaterOf(m, t)
<1>1. t \in Nat /\ now \in Nat /\ m \in Nat
    BY FileTypes DEF Time
<1>2. MinuteOf(t) \in Name /\ MinuteOf(t) \in Nat /\ MinuteOf(t) <= MinuteOf(now)
    BY <1>1, MinuteIsName, MinuteFacts
<1> QED BY <1>1, <1>2 DEF LaterOf

LEMMA ImageBoundedStep ==
    ASSUME TypeOK, TypeOK', MountsTypeOK, Next, PastGrows, ImageBounded, Remember,
           mount' = mount
    PROVE  ImageBounded'
<1>1. /\ \A m \in Name, b \in Block : m <= MinuteOf(now) => past[m][b] <= past'[m][b]
      /\ MinuteOf(now) <= MinuteOf(now)'
      /\ past \in Pasts /\ past' \in Pasts
    BY PastStep, MountTypes
<1>2. /\ now \in Nat /\ now' \in Nat /\ now <= now'
      /\ MinuteOf(now) \in Nat /\ MinuteOf(now)' \in Nat
    BY ClockStep, FileTypes DEF Name
<1>3. mount.pc # "idle" => mount.upto <= MinuteOf(now)'
    BY <1>1, <1>2, MountTypes DEF ImageBounded
<1>4. mount.at # Never => mount.at <= now'
    BY <1>2, MountTypes DEF ImageBounded
<1>5. ASSUME mount.pc \in {"list", "apply", "done"}, mount.once, NEW b \in Block
      PROVE  mount.image[b] <= past'[LaterOf(mount.upto, mount.at)][b]
    <2> DEFINE k == LaterOf(mount.upto, mount.at)
    <2>1. mount.at # Never /\ mount.upto <= MinuteOf(now) /\ mount.at <= now
        BY <1>5 DEF ImageBounded
    <2>2. k \in Name /\ k <= MinuteOf(now)
        BY <2>1, LaterFacts, MountTypes
    <2>3. mount.image[b] <= past[k][b]
        BY <1>5 DEF ImageBounded
    <2> HIDE DEF k
    <2>4. past[k][b] <= past'[k][b] /\ past[k][b] \in Nat /\ past'[k][b] \in Nat
        BY <1>1, <2>2 DEF Pasts
    <2>5. mount.image[b] \in Int
        BY MountTypes
    <2> QED BY <2>3, <2>4, <2>5 DEF k
<1> QED BY <1>3, <1>4, <1>5 DEF ImageBounded, LaterOf, MinuteOf

LEMMA OwedStoredStep ==
    ASSUME TypeOK, TypeOK', EntriesInv, MountsTypeOK, Next, PastGrows, OwedStored, Remember,
           mount' = mount
    PROVE  OwedStored'
<1>1. Stored
    BY StoredInStep
<1>2. MinuteOf(now) <= MinuteOf(now)' /\ MinuteOf(now) \in Nat /\ MinuteOf(now)' \in Nat
    BY PastStep, MountTypes, ClockStep DEF Name
<1>3. ASSUME mount.pc = "apply", NEW e \in mount.owed
      PROVE  /\ e.file < MinuteOf(now)' /\ e.file # writer'.file
             /\ [blk |-> e.blk, ver |-> e.ver] \in Elements(bak'[e.file].data)
             /\ \/ e.file \in mount.files
                \/ e.ver <= mount.image[e.blk] /\ \A m \in mount.files : e.file < m
    <2>1. /\ e.file < MinuteOf(now) /\ e.file # writer.file
          /\ [blk |-> e.blk, ver |-> e.ver] \in Elements(bak[e.file].data)
          /\ \/ e.file \in mount.files
             \/ e.ver <= mount.image[e.blk] /\ \A m \in mount.files : e.file < m
        BY <1>3 DEF OwedStored
    <2>2. e.file \in Name /\ e.file \in Nat
        BY MountTypes, FileTypes
    <2>3. bak'[e.file].data = bak[e.file].data /\ e.file # writer'.file
        BY <1>1, <2>1, <2>2 DEF Stored
    <2>4. e.file < MinuteOf(now)'
        BY <1>2, <2>1, <2>2
    <2> QED BY <2>1, <2>3, <2>4
<1>4. MountComplete'
    BY DEF OwedStored, MountComplete
<1> QED BY <1>3, <1>4 DEF OwedStored

LEMMA MountsTypeStep ==
    ASSUME TypeOK, TypeOK', MountsTypeOK, Next, PastGrows, Remember, mount' = mount
    PROVE  MountsTypeOK'
<1>1. past' \in Pasts
    BY PastStep, MountTypes
<1>2. appended' \subseteq Name
    <2>1. stream' # NoStream => stream'.file \in Name
        BY DEF TypeOK
    <2>2. \/ appended' = appended \cup {stream'.file} /\ stream' # NoStream
          \/ appended' = appended
        BY DEF Remember
    <2> QED BY <2>1, <2>2 DEF MountsTypeOK
<1> QED BY <1>1, <1>2 DEF MountsTypeOK, Pasts

\* A step of the files keeps the invariant of the merge.
LEMMA FilesKeepMounts ==
    ASSUME MInv, IInv, IInv', EntriesInv, Next, Remember, mount' = mount
    PROVE  MInv'
<1>1. TypeOK /\ TypeOK' /\ past \in Pasts
    BY MountTypes DEF IInv, MInv
<1> QED BY <1>1, MountsTypeStep, PastStep, FilesPastStep, ImagesPastStep, StreamInPlaceStep,
           ImageBoundedStep, OwedStoredStep DEF MInv

-----------------------------------------------------------------------------
(* The steps of a merge *)

\* The parts of the invariant that are about the merge.
MergeInv == MountsTypeOK /\ ImageBounded /\ OwedStored

\* What the steps of a merge leave alone.
FilesStay == UNCHANGED <<vars, past, appended>>

LEMMA FilesUntouched ==
    ASSUME FilesStay
    PROVE  /\ PastGrows /\ FilesPast /\ ImagesPast /\ StreamInPlace =>
              (PastGrows /\ FilesPast /\ ImagesPast /\ StreamInPlace)'
           /\ UNCHANGED <<now, disk, snap, bak, writer, stream, captured, gone, cut,
                          past, appended>>
<1>1. UNCHANGED <<now, disk, snap, bak, writer, stream, captured, gone, cut, past, appended>>
    BY DEF FilesStay, vars
<1>2. PastGrows => PastGrows'
    BY <1>1 DEF PastGrows, MinuteOf
<1>3. FilesPast => FilesPast'
    BY <1>1 DEF FilesPast, UpToMinute, MinuteOf
<1>4. ImagesPast => ImagesPast'
    BY <1>1 DEF ImagesPast, Images, MinuteOf
<1>5. StreamInPlace => StreamInPlace'
    BY <1>1 DEF StreamInPlace
<1> QED BY <1>1, <1>2, <1>3, <1>4, <1>5

LEMMA StartMerge ==
    ASSUME MInv, IInv, FilesStay, NEW c \in Name, MountBak(c) \/ MountImg(c)
    PROVE  MergeInv'
<1>0. TypeOK /\ MountsTypeOK
    BY DEF IInv, MInv
<1>1. UNCHANGED <<now, past, appended>>
    BY FilesUntouched
<1>2. c <= MinuteOf(now)
    <2>1. CASE MountBak(c)
        BY <2>1 DEF MountBak, MInv, FilesPast
    <2>2. CASE MountImg(c)
        <3>1. snap[c].img # Never /\ snap[c].img \in Time
            BY <1>0, <2>2 DEF MountImg, Images, TypeOK, Snapshot, Stamp
        <3>2. snap[c].img <= now /\ c <= MinuteOf(snap[c].img)
            BY <3>1 DEF IInv, NamedByMinute
        <3>3. snap[c].img \in Nat /\ now \in Nat /\ c \in Nat
            BY <1>0, <3>1, FileTypes DEF Time
        <3> QED BY <3>2, <3>3, MinuteFacts
    <2> QED BY <2>1, <2>2
<1>3. /\ mount' \in {[NoMount EXCEPT !.pc = "base", !.upto = c],
                     [NoMount EXCEPT !.pc = "copy", !.kind = "img", !.upto = c, !.base = c]}
    BY DEF MountBak, MountImg
<1>4. MountsTypeOK'
    <2>1. Blank \in [Block -> Nat \cup {Never}] /\ 0 \in Name /\ NoFile = -1 /\ Never \in Stamp
        BY SizeAssumption DEF Blank, Name, NoFile, Stamp
    <2>2. mount' \in [pc : Ended \cup {"base", "copy", "list", "apply"}, kind : {"bak", "img"},
                  upto : Name, base : Name \cup {NoFile},
                  image : [Block -> Nat \cup {Never}], files : SUBSET Name, ok : BOOLEAN,
                  at : Stamp, once : BOOLEAN,
                  owed : SUBSET [blk : Block, ver : Nat, file : Name]]
        BY <1>3, <2>1 DEF NoMount
    <2>3. mount'.pc = "copy" => mount'.base \in Name
        BY <1>3 DEF NoMount
    <2> QED BY <1>0, <1>1, <2>2, <2>3 DEF MountsTypeOK
<1>5. mount'.pc \in {"base", "copy"} /\ mount'.upto = c /\ mount'.at = Never
    BY <1>3 DEF NoMount
<1>6. ImageBounded'
    BY <1>1, <1>2, <1>5 DEF ImageBounded, MinuteOf
<1>7. OwedStored'
    BY <1>5 DEF OwedStored, MountComplete
<1> QED BY <1>4, <1>6, <1>7 DEF MergeInv

LEMMA BaseFound ==
    ASSUME MInv, IInv, FilesStay, FindBase \/ FailCopy
    PROVE  MergeInv'
<1>0. TypeOK /\ MountsTypeOK /\ mount.pc \in {"base", "copy"}
    BY DEF IInv, MInv, FindBase, FailCopy
<1>1. UNCHANGED <<now, past, appended>>
    BY FilesUntouched
<1>2. \E p \in {"panic", "copy", "stale", "error"}, m \in Name \cup {NoFile} :
          /\ mount' = [mount EXCEPT !.pc = p, !.base = m]
          /\ p = "copy" => m \in Name
    <2>0. mount.base \in Name \cup {NoFile}
        BY <1>0 DEF MountsTypeOK
    <2>1. ASSUME NEW p PROVE [mount EXCEPT !.pc = p] = [mount EXCEPT !.pc = p, !.base = mount.base]
        BY <1>0 DEF MountsTypeOK
    <2>2. CASE FindBase /\ Images = {}
        <3>1. mount' = [mount EXCEPT !.pc = "panic"]
            BY <2>2 DEF FindBase
        <3> QED BY <2>0, <2>1, <3>1
    <2>3. CASE FindBase /\ Images # {}
        BY <2>3 DEF FindBase, Images
    <2>4. CASE FailCopy
        <3>1. mount' = [mount EXCEPT !.pc = "stale"] \/ mount' = [mount EXCEPT !.pc = "error"]
            BY <2>4 DEF FailCopy
        <3> QED BY <2>0, <2>1, <3>1
    <2> QED BY <2>2, <2>3, <2>4
<1>3. PICK p \in {"panic", "copy", "stale", "error"}, m \in Name \cup {NoFile} :
          /\ mount' = [mount EXCEPT !.pc = p, !.base = m]
          /\ p = "copy" => m \in Name
    BY <1>2
<1>4. MountsTypeOK'
    BY <1>0, <1>1, <1>3 DEF MountsTypeOK, Ended
<1>5. mount'.pc = p /\ mount'.upto = mount.upto /\ mount'.at = mount.at
    BY <1>0, <1>3 DEF MountsTypeOK
<1>6. ImageBounded'
    BY <1>0, <1>1, <1>3, <1>5 DEF ImageBounded, MinuteOf, MInv
<1>7. OwedStored'
    BY <1>5 DEF OwedStored, MountComplete
<1> QED BY <1>4, <1>6, <1>7 DEF MergeInv

LEMMA BaseCopied ==
    ASSUME MInv, IInv, FilesStay, CopyBase
    PROVE  MergeInv'
<1> DEFINE s == snap[mount.base]
           image == [b \in Block |-> IF b + 1 \in DOMAIN s.data THEN s.data[b + 1] ELSE Never]
<1>0. TypeOK /\ MountsTypeOK /\ mount.pc = "copy" /\ s.img # Never
    BY DEF IInv, MInv, CopyBase
<1>1. UNCHANGED <<now, past, appended>>
    BY FilesUntouched
<1>2. mount' = [mount EXCEPT !.pc = "list", !.at = s.img, !.once = mount.base \notin appended,
                             !.image = image]
    BY DEF CopyBase
<1>3. mount.base \in Name /\ s \in Snapshot
    BY <1>0 DEF MountsTypeOK, TypeOK
<1>4. /\ s.img \in Time /\ s.img \in Nat /\ s.img \in Stamp /\ s.img <= now
      /\ image \in [Block -> Nat \cup {Never}]
    <2>1. s.img \in Time /\ s.data \in Seq(Nat)
        BY <1>0, <1>3 DEF Snapshot, Stamp
    <2>2. s.img <= now
        BY <1>0, <1>3 DEF IInv, NamedByMinute
    <2>3. \A i \in DOMAIN s.data : s.data[i] \in Nat
        BY <2>1
    <2> QED BY <2>1, <2>2, <2>3 DEF Time, Stamp
<1>5. MountsTypeOK'
    BY <1>0, <1>1, <1>2, <1>4 DEF MountsTypeOK
<1>6. /\ mount'.pc = "list" /\ mount'.upto = mount.upto /\ mount'.at = s.img
      /\ mount'.once = (mount.base \notin appended) /\ mount'.image = image
    BY <1>0, <1>2 DEF MountsTypeOK
<1>7. mount.upto <= MinuteOf(now)
    BY <1>0 DEF MInv, ImageBounded
<1>8. ASSUME mount.base \notin appended, NEW b \in Block
      PROVE  image[b] <= past[LaterOf(mount.upto, s.img)][b]
    <2> DEFINE k == LaterOf(mount.upto, s.img)
               j == MinuteOf(s.img)
    <2>1. k \in Name /\ k <= MinuteOf(now) /\ j \in Name /\ j <= k
        BY <1>0, <1>4, <1>7, LaterFacts, MountTypes
    <2> HIDE DEF k
    <2>2. past[j][b] <= past[k][b]
        BY <2>1 DEF MInv, PastGrows
    <2>3. past[j][b] \in Nat /\ past[k][b] \in Nat
        BY <1>0, <2>1, MountTypes
    <2>4. CASE b + 1 \in DOMAIN s.data
        <3>1. mount.base \in Images \ appended
            BY <1>0, <1>3, <1>8 DEF Images
        <3>2. s.data[b + 1] <= past[j][(b + 1) - 1]
            BY <2>4, <3>1 DEF MInv, ImagesPast
        <3>3. (b + 1) - 1 = b
            BY SizeAssumption DEF Block
        <3>4. image[b] = s.data[b + 1]
            BY <2>4
        <3>5. s.data \in Seq(Nat)
            BY <1>3 DEF Snapshot
        <3>6. s.data[b + 1] \in Nat
            <4> HIDE DEF s
            <4> QED BY <2>4, <3>5
        <3> QED BY <2>2, <2>3, <3>2, <3>3, <3>4, <3>6 DEF k
    <2>5. CASE b + 1 \notin DOMAIN s.data
        BY <2>3, <2>5 DEF k, Never
    <2> QED BY <2>4, <2>5
<1>9. ImageBounded'
    <2> HIDE DEF image
    <2> QED BY <1>0, <1>1, <1>4, <1>6, <1>7, <1>8 DEF ImageBounded, LaterOf, MinuteOf
<1>10. OwedStored'
    BY <1>6 DEF OwedStored, MountComplete
<1> QED BY <1>5, <1>9, <1>10 DEF MergeInv

\* What the files have to give is in files that are listed.
LEMMA BaksListed ==
    ASSUME MInv, IInv, EntriesInv, FilesStay, ListBaks
    PROVE  MergeInv'
<1> DEFINE c == mount.upto
<1>0. TypeOK /\ MountsTypeOK /\ mount.pc = "list"
    BY DEF IInv, MInv, ListBaks
<1>1. UNCHANGED <<now, bak, writer, past, appended>>
    BY FilesUntouched
<1>2. mount' = [mount EXCEPT !.pc = "apply", !.files = MergedFiles(c), !.owed = Due(c)]
    BY DEF ListBaks
<1>3. /\ mount'.pc = "apply" /\ mount'.files = MergedFiles(c) /\ mount'.owed = Due(c)
      /\ mount'.upto = c /\ mount'.at = mount.at /\ mount'.once = mount.once
      /\ mount'.image = mount.image
    BY <1>0, <1>2 DEF MountsTypeOK
<1>4. MountsTypeOK'
    <2>1. MergedFiles(c) \in SUBSET Name
        BY DEF MergedFiles
    <2>2. Due(c) \in SUBSET [blk : Block, ver : Nat, file : Name]
        BY <1>0 DEF Due, TypeOK
    <2> QED BY <1>0, <1>1, <1>2, <2>1, <2>2 DEF MountsTypeOK
<1>5. ImageBounded'
    <2>1. \A m \in MergedFiles(c) : m <= c
        BY DEF MergedFiles
    <2> QED BY <1>0, <1>1, <1>3, <2>1 DEF MInv, ImageBounded, LaterOf, MinuteOf
<1>6. ASSUME NEW e \in Due(c)
      PROVE  /\ e.file < MinuteOf(now) /\ e.file # writer.file
             /\ [blk |-> e.blk, ver |-> e.ver] \in Elements(bak[e.file].data)
             /\ e.file \in MergedFiles(c)
    <2>1. /\ e \in captured \ gone /\ e.file <= c /\ e.file < MinuteOf(now)
          /\ e.file # writer.file /\ Fresh(e.file)
        BY DEF Due
    <2>2. e.file \in Name
        BY <1>0, <2>1 DEF TypeOK
    <2>3. /\ bak[e.file].at # Never
          /\ [blk |-> e.blk, ver |-> e.ver] \in Holding(e.file)
        BY <2>1 DEF EntriesInv, FilesHold
    <2> QED BY <2>1, <2>2, <2>3 DEF Holding, MergedFiles
<1>7. OwedStored'
    BY <1>1, <1>3, <1>6 DEF OwedStored, MountComplete, MinuteOf
<1> QED BY <1>4, <1>5, <1>7 DEF MergeInv

\* Writing the entries of a file gives their blocks one of them, the youngest
\* when they are in order, and leaves the others alone.
LEMMA WrittenFacts ==
    ASSUME NEW image \in [Block -> Nat \cup {Never}], NEW s \in Seq(Entry)
    PROVE  /\ Written(image, s) \in [Block -> Nat \cup {Never}]
           /\ \A b \in Block :
                 \/ /\ Written(image, s)[b] = image[b]
                    /\ \A x \in Elements(s) : x.blk # b
                 \/ \E x \in Elements(s) :
                       /\ x.blk = b /\ Written(image, s)[b] = x.ver
                       /\ Ascending(s) =>
                             \A y \in Elements(s) : y.blk = b => y.ver <= x.ver
<1>1. ASSUME NEW b \in Block, Places(s, b) = {}
      PROVE  Written(image, s)[b] = image[b] /\ \A x \in Elements(s) : x.blk # b
    BY <1>1 DEF Written, Places, Elements
<1>2. ASSUME NEW b \in Block, Places(s, b) # {}
      PROVE  \E x \in Elements(s) :
                /\ x.blk = b /\ Written(image, s)[b] = x.ver
                /\ Ascending(s) => \A y \in Elements(s) : y.blk = b => y.ver <= x.ver
    <2>1. PICK i \in Places(s, b) :
             LastVer(s, b) = s[i].ver /\ \A k \in Places(s, b) : k <= i
        BY <1>2, LastVerFacts
    <2>2. i \in DOMAIN s /\ s[i].blk = b /\ s[i] \in Elements(s)
        BY DEF Places, Elements
    <2>3. Written(image, s)[b] = s[i].ver
        BY <1>2, <2>1 DEF Written
    <2>4. ASSUME Ascending(s), NEW y \in Elements(s), y.blk = b PROVE y.ver <= s[i].ver
        <3>1. PICK k \in DOMAIN s : y = s[k]
            BY DEF Elements
        <3>2. k \in Places(s, b)
            BY <2>4, <3>1 DEF Places
        <3> QED BY <2>1, <2>2, <2>4, <3>1, <3>2 DEF Ascending
    <2> QED BY <2>2, <2>3, <2>4
<1>3. ASSUME NEW b \in Block PROVE Written(image, s)[b] \in Nat \cup {Never}
    <2>1. \A x \in Elements(s) : x \in Entry
        BY DEF Elements
    <2>2. \A x \in Entry : x.ver \in Nat
        BY DEF Entry
    <2> QED BY <1>1, <1>2, <2>1, <2>2
<1>4. Written(image, s) = [b \in Block |-> Written(image, s)[b]]
    BY DEF Written
<1> QED BY <1>1, <1>2, <1>3, <1>4

LEMMA OrderedWritten ==
    ASSUME NEW image \in [Block -> Nat \cup {Never}], NEW s \in Seq(Entry), Ascending(s),
           NEW b \in Block
    PROVE  \/ /\ Written(image, s)[b] = image[b]
              /\ \A x \in Elements(s) : x.blk # b
           \/ \E x \in Elements(s) :
                 /\ x.blk = b /\ Written(image, s)[b] = x.ver
                 /\ \A y \in Elements(s) : y.blk = b => y.ver <= x.ver
BY WrittenFacts

\* The next file is read: what it and those before it had to give is in the image.
LEMMA BakApplied ==
    ASSUME MInv, IInv, EntriesInv, FilesStay, NEW m \in Name, ApplyBak(m)
    PROVE  MergeInv'
<1> DEFINE s == bak[m].data
           image == mount.image
           k == LaterOf(mount.upto, mount.at)
<1>0. TypeOK /\ MountsTypeOK /\ mount.pc = "apply" /\ m \in mount.files
    BY DEF IInv, MInv, ApplyBak, IsNext
<1>1. UNCHANGED <<now, bak, writer, past, appended>>
    BY FilesUntouched
<1>2. mount' = [mount EXCEPT !.files = @ \ {m}, !.image = Written(@, s)]
    BY DEF ApplyBak
<1>3. s \in Seq(Entry) /\ image \in [Block -> Nat \cup {Never}] /\ m \in Nat
    BY <1>0, FileTypes, MountTypes
<1>4. Written(image, s) \in [Block -> Nat \cup {Never}]
    BY <1>3, WrittenFacts
<1>5. /\ mount'.pc = "apply" /\ mount'.files = mount.files \ {m}
      /\ mount'.upto = mount.upto /\ mount'.at = mount.at /\ mount'.once = mount.once
      /\ mount'.image = Written(image, s) /\ mount'.owed = mount.owed
    BY <1>0, <1>2 DEF MountsTypeOK
<1>6. MountsTypeOK'
    BY <1>0, <1>1, <1>2, <1>4 DEF MountsTypeOK
<1>7. /\ mount.upto <= MinuteOf(now) /\ mount.at # Never /\ mount.at <= now
      /\ m <= mount.upto
    BY <1>0 DEF MInv, ImageBounded
<1>8. ASSUME mount.once, NEW b \in Block PROVE Written(image, s)[b] <= past[k][b]
    <2>1. k \in Name /\ k <= MinuteOf(now) /\ m <= k
        <3>1. /\ k \in Name /\ k \in Nat /\ k <= MinuteOf(now) /\ mount.upto <= k
              /\ mount.upto \in Nat
            BY <1>0, <1>7, LaterFacts, MountTypes
        <3> HIDE DEF k
        <3> QED BY <1>3, <1>7, <3>1
    <2>2. image[b] <= past[k][b]
        BY <1>0, <1>8 DEF MInv, ImageBounded
    <2> HIDE DEF k
    <2>3. ASSUME NEW x \in Elements(s), x.blk = b PROVE x.ver <= past[k][b]
        <3>1. x.ver \in Nat
            <4>1. x \in Entry
                BY <1>3, ElementsFacts
            <4> QED BY <4>1 DEF Entry
        <3>2. x.ver <= past[m][b]
            BY <2>3 DEF MInv, FilesPast, UpToMinute
        <3>3. past[m][b] <= past[k][b]
            BY <2>1 DEF MInv, PastGrows
        <3>4. past[m][b] \in Nat /\ past[k][b] \in Nat
            BY <1>0, <2>1, MountTypes
        <3> QED BY <3>1, <3>2, <3>3, <3>4
    <2> QED BY <1>3, <2>2, <2>3, WrittenFacts
<1>9. ImageBounded'
    BY <1>0, <1>1, <1>5, <1>7, <1>8 DEF MInv, ImageBounded, LaterOf, MinuteOf
<1>10. ASSUME NEW e \in mount.owed
       PROVE  /\ e.file < MinuteOf(now) /\ e.file # writer.file
              /\ [blk |-> e.blk, ver |-> e.ver] \in Elements(bak[e.file].data)
              /\ \/ e.file \in mount.files \ {m}
                 \/ /\ e.ver <= Written(image, s)[e.blk]
                    /\ \A j \in mount.files \ {m} : e.file < j
    <2> DEFINE x == [blk |-> e.blk, ver |-> e.ver]
    <2>1. /\ e.file < MinuteOf(now) /\ e.file # writer.file
          /\ x \in Elements(bak[e.file].data)
          /\ \/ e.file \in mount.files
             \/ e.ver <= image[e.blk] /\ \A j \in mount.files : e.file < j
        BY <1>0 DEF MInv, OwedStored
    <2>2. /\ e.file \in Name /\ e.file \in Nat /\ e.blk \in Block /\ e.ver \in Nat
          /\ x.blk = e.blk /\ x.ver = e.ver
        BY <1>0, MountTypes, FileTypes
    <2>3. /\ \A j \in mount.files : m <= j
          /\ \A j \in mount.files : j \in Nat
        BY <1>0, MountTypes, FileTypes DEF ApplyBak, IsNext
    <2>4. /\ Ascending(s)
          /\ e.file < m => Before(bak[e.file].data, s)
        BY <1>0, <2>2, FileTypes DEF EntriesInv, EntriesInOrder, Flow
    <2>5. \/ /\ Written(image, s)[e.blk] = image[e.blk]
             /\ \A y \in Elements(s) : y.blk # e.blk
          \/ \E y \in Elements(s) :
                /\ y.blk = e.blk /\ Written(image, s)[e.blk] = y.ver
                /\ \A z \in Elements(s) : z.blk = e.blk => z.ver <= y.ver
        <3>1. Ascending(s) /\ e.blk \in Block
            BY <2>2, <2>4
        <3> HIDE DEF image, s, k, x
        <3> QED BY <1>3, <3>1, OrderedWritten
    <2> HIDE DEF x
    <2>6. CASE e.file = m
        <3>1. e.ver <= Written(image, s)[e.blk]
            BY <2>1, <2>2, <2>5, <2>6
        <3>2. \A j \in mount.files \ {m} : e.file < j
            BY <1>3, <2>3, <2>6
        <3> QED BY <2>1, <3>1, <3>2 DEF x
    <2>7. CASE e.file # m /\ e.file \in mount.files
        BY <2>1, <2>7 DEF x
    <2>8. CASE e.ver <= image[e.blk] /\ \A j \in mount.files : e.file < j
        <3>1. e.file < m
            BY <1>0, <2>8
        <3>2. e.ver <= Written(image, s)[e.blk]
            <4>1. CASE Written(image, s)[e.blk] = image[e.blk]
                BY <2>8, <4>1
            <4>2. ASSUME NEW y \in Elements(s), y.blk = e.blk, Written(image, s)[e.blk] = y.ver
                  PROVE  e.ver <= Written(image, s)[e.blk]
                BY <2>1, <2>2, <2>4, <3>1, <4>2 DEF Before
            <4> QED BY <2>5, <4>1, <4>2
        <3> QED BY <2>1, <2>8, <3>2 DEF x
    <2> QED BY <2>1, <2>6, <2>7, <2>8
<1>11. OwedStored'
    BY <1>1, <1>5, <1>10 DEF OwedStored, MountComplete, MinuteOf
<1> QED BY <1>6, <1>9, <1>11 DEF MergeInv

\* No file is left, or the next one is gone.
LEMMA MergeEnded ==
    ASSUME MInv, IInv, FilesStay, EndMerge \/ \E m \in Name : MissBak(m)
    PROVE  MergeInv'
<1>0. TypeOK /\ MountsTypeOK /\ mount.pc = "apply"
    BY DEF IInv, MInv, EndMerge, MissBak
<1>1. UNCHANGED <<now, past, appended>>
    BY FilesUntouched
<1>2. \E p \in {"done", "error"}, t \in BOOLEAN :
         mount' = [mount EXCEPT !.pc = p, !.ok = t] /\ (t => mount.files = {})
    <2>1. CASE EndMerge
        <3>1. mount' = [mount EXCEPT !.pc = "done"] /\ mount.files = {}
            BY <2>1 DEF EndMerge
        <3>2. mount.ok \in BOOLEAN
            BY <1>0 DEF MountsTypeOK
        <3>3. [mount EXCEPT !.pc = "done"] = [mount EXCEPT !.pc = "done", !.ok = mount.ok]
            BY <1>0 DEF MountsTypeOK
        <3> QED BY <3>1, <3>2, <3>3
    <2>2. ASSUME NEW m \in Name, MissBak(m)
          PROVE  \/ mount' = [mount EXCEPT !.pc = "done", !.ok = FALSE]
                 \/ mount' = [mount EXCEPT !.pc = "error", !.ok = FALSE]
        BY <2>2 DEF MissBak
    <2> QED BY <2>1, <2>2
<1>3. PICK p \in {"done", "error"}, t \in BOOLEAN :
         mount' = [mount EXCEPT !.pc = p, !.ok = t] /\ (t => mount.files = {})
    BY <1>2
<1>4. /\ mount'.pc = p /\ mount'.ok = t /\ mount'.upto = mount.upto /\ mount'.at = mount.at
      /\ mount'.once = mount.once /\ mount'.image = mount.image /\ mount'.owed = mount.owed
    BY <1>0, <1>3 DEF MountsTypeOK
<1>5. MountsTypeOK'
    BY <1>0, <1>1, <1>3 DEF MountsTypeOK, Ended
<1>6. ImageBounded'
    BY <1>0, <1>1, <1>4 DEF MInv, ImageBounded, LaterOf, MinuteOf
<1>7. ASSUME t PROVE Gives(mount.image, mount.owed)
    <2>1. mount.files = {}
        BY <1>3, <1>7
    <2> QED BY <1>0, <2>1 DEF MInv, OwedStored, Gives
<1>8. OwedStored'
    BY <1>4, <1>7 DEF OwedStored, MountComplete
<1> QED BY <1>5, <1>6, <1>8 DEF MergeInv

-----------------------------------------------------------------------------
(* The invariant and what follows *)

LEMMA InitMounts == MountsInit => MInv
<1> SUFFICES ASSUME MountsInit PROVE MInv
    OBVIOUS
<1>1. TypeOK /\ now = 0 /\ disk = [b \in Block |-> 0] /\ 0 \in Name
    BY InitTypeOK, SizeAssumption DEF MountsInit, Init, Name
<1>2. past = [m \in Name |-> disk] /\ past \in Pasts
    BY <1>1 DEF MountsInit, Pasts
<1>3. /\ mount = NoMount /\ appended = {} /\ stream = NoStream /\ writer = NoWriter
      /\ \A m \in Name : bak[m].at = Never /\ bak[m].data = <<>> /\ snap[m].img = Never
    BY DEF MountsInit, Init
<1>4. MountsTypeOK
    <2>1. Blank \in [Block -> Nat \cup {Never}] /\ Never \in Stamp
        BY DEF Blank, Stamp
    <2>2. mount \in [pc : Ended \cup {"base", "copy", "list", "apply"}, kind : {"bak", "img"},
                  upto : Name, base : Name \cup {NoFile},
                  image : [Block -> Nat \cup {Never}], files : SUBSET Name, ok : BOOLEAN,
                  at : Stamp, once : BOOLEAN,
                  owed : SUBSET [blk : Block, ver : Nat, file : Name]]
        BY <1>1, <1>3, <2>1 DEF NoMount, Ended
    <2> QED BY <1>2, <1>3, <2>2 DEF MountsTypeOK, NoMount, Pasts
<1>5. PastGrows
    <2>1. MinuteOf(now) \in Name
        BY <1>1, FileTypes
    <2> QED BY <1>1, <1>2, <2>1 DEF PastGrows
<1>6. FilesPast
    BY <1>3, EmptySequence DEF FilesPast, UpToMinute, Elements, NoWriter
<1>7. ImagesPast /\ StreamInPlace
    BY <1>3 DEF ImagesPast, StreamInPlace, Images
<1>8. ImageBounded /\ OwedStored
    BY <1>3 DEF ImageBounded, OwedStored, MountComplete, NoMount
<1> QED BY <1>4, <1>5, <1>6, <1>7, <1>8 DEF MInv

LEMMA StepMounts ==
    ASSUME MInv, IInv, IInv', EntriesInv, [MountsNext]_allVars
    PROVE  MInv'
<1>1. CASE Next /\ Remember /\ UNCHANGED mount
    BY <1>1, FilesKeepMounts
<1>2. CASE MountStep /\ FilesStay
    <2>1. MergeInv'
        BY <1>2, StartMerge, BaseFound, BaseCopied, BaksListed, BakApplied, MergeEnded
           DEF MountStep
    <2> QED BY <1>2, <2>1, FilesUntouched DEF MInv, MergeInv
<1>3. CASE UNCHANGED allVars
    <2>1. FilesStay /\ mount' = mount
        BY <1>3 DEF allVars, FilesStay
    <2>2. MergeInv'
        BY <2>1, FilesUntouched DEF MInv, MergeInv, MountsTypeOK, ImageBounded, OwedStored,
           MountComplete, LaterOf, MinuteOf
    <2> QED BY <2>1, <2>2, FilesUntouched DEF MInv, MergeInv
<1> QED BY <1>1, <1>2, <1>3 DEF MountsNext, FilesStay

\* The invariant of the merge, on that of the files and on what is proved of
\* their entries.
THEOREM MInvHolds == MountsSpec => []MInv
<1>1. MountsInit => MInv
    BY InitMounts
<1>2. MInv /\ IInv /\ IInv' /\ EntriesInv /\ [MountsNext]_allVars => MInv'
    BY StepMounts
<1> QED BY <1>1, <1>2, MountsKeepFiles, IInvHolds, EntriesHold, PTL DEF MountsSpec

\* The merge keeps to its types: in particular the base it copies is an image
\* that had a name when it was chosen.
THEOREM MountsTypeCorrect == MountsSpec => []MountsTypeOK
<1>1. MInv => MountsTypeOK
    BY DEF MInv
<1> QED BY <1>1, MInvHolds, PTL

\* What a merge mounts is never younger than both the checkpoint and the base
\* image, whatever is written, appended and removed while it runs.
THEOREM PointInTimeHolds == MountsSpec => []PointInTime
<1>1. MInv => PointInTime
    BY DEF MInv, ImageBounded, PointInTime
<1> QED BY <1>1, MInvHolds, PTL

\* A merge that met no error misses nothing that was in the files it had to take
\* when it listed them.
THEOREM MountCompleteHolds == MountsSpec => []MountComplete
<1>1. MInv => MountComplete
    BY DEF MInv, OwedStored
<1> QED BY <1>1, MInvHolds, PTL

\* From a base that is not later than the checkpoint, a merge that met no error
\* gives what the disk held at the end of the checkpoint's minute, wherever that
\* was captured.
THEOREM MountExactHolds == MountsSpec => []MountExact
<1>1. TypeOK /\ MInv => MountExact
    <2> SUFFICES ASSUME TypeOK, MInv, mount.pc = "done", mount.ok, mount.once,
                        MinuteOf(mount.at) <= mount.upto,
                        NEW e \in mount.owed, e.ver = past[mount.upto][e.blk]
                 PROVE  mount.image[e.blk] = e.ver
        BY DEF MountExact
    <2>1. e.blk \in Block /\ e.ver \in Nat /\ mount.image[e.blk] \in Int
        BY MountTypes DEF MInv
    <2>2. e.ver <= mount.image[e.blk]
        BY DEF MInv, OwedStored, MountComplete, Gives
    <2>3. mount.at # Never /\ mount.at <= now /\ mount.upto <= MinuteOf(now)
        BY DEF MInv, ImageBounded
    <2>4. mount.upto <= LaterOf(mount.upto, mount.at) /\ MinuteOf(mount.at) \in Nat
        BY <2>3, LaterFacts, MountTypes DEF MInv, Name
    <2>5. LaterOf(mount.upto, mount.at) = mount.upto
        BY <2>4, MountTypes DEF MInv, LaterOf, Name
    <2>6. mount.image[e.blk] <= past[mount.upto][e.blk]
        BY <2>1, <2>5 DEF MInv, ImageBounded
    <2> QED BY <2>1, <2>2, <2>6
<1> QED BY <1>1, MInvHolds, MountsKeepFiles, TypeCorrect, PTL
=============================================================================
