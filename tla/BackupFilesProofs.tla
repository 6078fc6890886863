--------------------------- MODULE BackupFilesProofs ---------------------------
(***************************************************************************)
(* Safety of BackupFiles for every disk size, clock unit, retention,       *)
(* archive interval and set of failures.                                   *)
(***************************************************************************)
EXTENDS BackupFiles, WellFoundedInduction, TLAPS

-----------------------------------------------------------------------------
(* Lemmas about the operators *)

LEMMA MinuteFacts ==
    ASSUME NEW t \in Nat, NEW u \in Nat
    PROVE  /\ MinuteOf(t) \in Nat
           /\ MinuteOf(t) <= t
           /\ t <= u => MinuteOf(t) <= MinuteOf(u)
           /\ t + Minute <= u => MinuteOf(t) < MinuteOf(u)
BY UnitAssumption, Z3 DEF MinuteOf

LEMMA MinuteIsName ==
    ASSUME NEW t \in Time PROVE MinuteOf(t) \in Name
<1>1. t \in Nat /\ t <= MaxTime
    BY SizeAssumption DEF Time
<1> QED BY <1>1, MinuteFacts, SizeAssumption DEF Name

LEMMA RemovedType ==
    ASSUME NEW t \in Stamp, NEW u \in Removed(t)
    PROVE  u \in Stamp /\ u \in {Never, t}
BY DEF Removed, Stamp

\* A part of a sequence of entries is one, with no elements of its own.
LEMMA SubSeqFacts ==
    ASSUME NEW S, NEW s \in Seq(S), NEW i \in Nat \ {0}, NEW j \in Nat, j <= Len(s)
    PROVE  /\ SubSeq(s, i, j) \in Seq(S)
           /\ Elements(SubSeq(s, i, j)) \subseteq Elements(s)
BY DEF Elements

LEMMA ConcatFacts ==
    ASSUME NEW S, NEW s \in Seq(S), NEW t \in Seq(S)
    PROVE  /\ s \o t \in Seq(S)
           /\ Elements(s \o t) \subseteq Elements(s) \cup Elements(t)
<1>1. s \o t \in Seq(S) /\ Len(s \o t) = Len(s) + Len(t)
    OBVIOUS
<1>2. ASSUME NEW i \in 1..(Len(s) + Len(t))
      PROVE  (s \o t)[i] \in Elements(s) \cup Elements(t)
    <2>1. CASE i <= Len(s)
        BY <2>1 DEF Elements
    <2>2. CASE Len(s) < i
        <3>1. i - Len(s) \in 1..Len(t) /\ (s \o t)[i] = t[i - Len(s)]
            BY <2>2
        <3> QED BY <3>1 DEF Elements
    <2> QED BY <2>1, <2>2
<1> QED BY <1>1, <1>2 DEF Elements

LEMMA CapturedType ==
    ASSUME NEW s \in Seq(Entry), NEW m \in Name
    PROVE  Captured(s, m) \subseteq [blk : Block, ver : Nat, file : Name]
<1>1. ASSUME NEW e \in Elements(s) PROVE e.blk \in Block /\ e.ver \in Nat
    <2>1. e \in Entry
        BY <1>1 DEF Elements
    <2> QED BY <2>1 DEF Entry
<1> QED BY <1>1 DEF Captured

LEMMA SnapshotFields ==
    ASSUME TypeOK, NEW m \in Name, NEW i \in Stamp, NEW l \in Stamp
    PROVE  [snap EXCEPT ![m].img = i, ![m].log = l] \in [Name -> Snapshot]
<1>1. snap \in [Name -> Snapshot]
    BY DEF TypeOK
<1>2. [snap[m] EXCEPT !.img = i, !.log = l] \in Snapshot
    BY <1>1 DEF Snapshot
<1> QED BY <1>1, <1>2 DEF Snapshot

LEMMA ComparedType ==
    ASSUME TypeOK PROVE Compared \in Name \cup {NoFile}
BY DEF TypeOK, Compared, Images

LEMMA BufferedType ==
    ASSUME TypeOK, NEW h, NEW b \in Block
    PROVE  Buffered(h, b) \in Seq(Entry)
<1>1. [blk |-> b, ver |-> disk[b]] \in Entry
    BY DEF TypeOK, Entry
<1>2. <<[blk |-> b, ver |-> disk[b]]>> \in Seq(Entry) /\ <<>> \in Seq(Entry)
    BY <1>1
<1>3. writer.buf \in Seq(Entry)
    BY DEF TypeOK
<1> QED BY <1>2, <1>3, ConcatFacts DEF Buffered

LEMMA EmitType ==
    ASSUME TypeOK, NEW f \in Backup, NEW s \in Seq(Entry)
    PROVE  Emit(f, s) \in Backup
<1>1. f.data \o s \in Seq(Entry) /\ now \in Stamp
    BY ConcatFacts DEF TypeOK, Backup, Stamp
<1> QED BY <1>1 DEF Emit, Backup

LEMMA AppendedType ==
    ASSUME TypeOK, NEW s \in Seq(Entry), writer.file \in Name
    PROVE  Appended(s) \in [Name -> Backup]
<1>1. Emit(bak[writer.file], s) \in Backup
    BY EmitType DEF TypeOK
<1> QED BY <1>1 DEF Appended, TypeOK

LEMMA ClosableFacts ==
    ASSUME TypeOK, NEW j \in Closable
    PROVE  /\ j \in 0..Len(writer.enc) /\ j \in Nat
           /\ SubSeq(writer.enc, 1, j) \in Seq(Entry)
           /\ SubSeq(writer.enc, j + 1, Len(writer.enc)) \in Seq(Entry)
           /\ Elements(SubSeq(writer.enc, j + 1, Len(writer.enc))) \subseteq Elements(writer.enc)
<1>1. writer.enc \in Seq(Entry)
    BY DEF TypeOK
<1>2. j \in 0..Len(writer.enc) /\ j + 1 \in Nat \ {0}
    BY <1>1 DEF Closable
<1> QED BY <1>1, <1>2, SubSeqFacts

LEMMA ClosedType ==
    ASSUME TypeOK, NEW j \in Closable PROVE Closed(j) \in [Name -> Backup]
<1>1. ASSUME writer.file \in Name
      PROVE  Emit(bak[writer.file], SubSeq(writer.enc, 1, j)) \in Backup
    BY <1>1, ClosableFacts, EmitType DEF TypeOK
<1> QED BY <1>1 DEF Closed, TypeOK

\* What a failed write loses was captured.
LEMMA UnwrittenCaptured ==
    ASSUME TypeOK, EncoderCaptured, NEW j \in 0..Len(writer.enc)
    PROVE  Unwritten(j) \subseteq captured
<1>1. writer.enc \in Seq(Entry) /\ j + 1 \in Nat \ {0}
    BY DEF TypeOK
<1>2. Elements(SubSeq(writer.enc, j + 1, Len(writer.enc))) \subseteq Elements(writer.enc)
    BY <1>1, SubSeqFacts
<1> QED BY <1>2 DEF Unwritten, EncoderCaptured, Captured

LEMMA InitTypeOK == Init => TypeOK /\ EncoderCaptured
<1> SUFFICES ASSUME Init PROVE TypeOK /\ EncoderCaptured
    OBVIOUS
<1>1. now \in Time /\ Never \in Stamp
    BY SizeAssumption DEF Init, Time, Stamp
<1>2. snap \in [Name -> Snapshot] /\ bak \in [Name -> Backup]
    BY <1>1 DEF Init, Snapshot, Backup
<1>3. /\ stream \in [file : Name, next : 0..N, at : Time] \cup {NoStream}
      /\ archiving \in [file : Name, time : Time] \cup {NoArch}
      /\ writer \in [file : Name \cup {NoFile}, enc : Seq(Entry), buf : Seq(Entry),
                     handle : Name \cup {NoFile}, bad : BOOLEAN]
      /\ cleaner \in [pc : {"idle", "snapshots", "delete", "files"}, latest : Stamp,
                      doomed : SUBSET Name, baks : SUBSET Name, csts : SUBSET Time]
    BY <1>1, SizeAssumption DEF Init, NoStream, NoArch, NoWriter, NoRun
<1>4. EncoderCaptured
    BY DEF Init, EncoderCaptured, Captured, Elements, NoWriter
<1> QED BY <1>1, <1>2, <1>3, <1>4 DEF Init, TypeOK

LEMMA StepTypeOK ==
    ASSUME TypeOK, EncoderCaptured, Next PROVE TypeOK' /\ EncoderCaptured'
<1> USE SizeAssumption
<1>0. now \in Nat /\ now \in Stamp /\ Never \in Stamp /\ MinuteOf(now) \in Name
    BY MinuteIsName DEF TypeOK, Time, Stamp
<1>1. CASE Tick
    <2>1. now' \in Time
        BY <1>1, <1>0 DEF Tick, Time, TypeOK
    <2>2. stream' \in [file : Name, next : 0..N, at : Time] \cup {NoStream}
        BY <1>1 DEF Tick, NoStream, TypeOK
    <2> QED BY <1>1, <2>1, <2>2
            DEF Tick, TypeOK, EncoderCaptured, liveVars, bakVars
<1>2. CASE RecordChanges
    <2>1. cst' \subseteq Record
        BY <1>2 DEF RecordChanges, Record, TypeOK
    <2> QED BY <1>2, <2>1
            DEF RecordChanges, TypeOK, EncoderCaptured, snapVars, bakVars
<1>3. CASE CopyBlock
    <2> DEFINE d == IF snap[stream.file].img = Never THEN <<>> ELSE snap[stream.file].data
    <2>1. stream \in [file : Name, next : Block, at : Time]
        BY <1>3 DEF CopyBlock, TypeOK
    <2>2. d \in Seq(Nat) /\ disk[stream.next] \in Nat
        BY <2>1 DEF TypeOK, Snapshot
    <2>3. [img |-> now, log |-> now, data |-> Append(d, disk[stream.next])] \in Snapshot
        BY <2>2, <1>0 DEF Snapshot
    <2>4. snap' \in [Name -> Snapshot]
        BY <1>3, <2>1, <2>3 DEF CopyBlock, TypeOK
    <2>5. stream' = [file |-> stream.file, next |-> stream.next + 1, at |-> now]
        BY <1>3, <2>1 DEF CopyBlock
    <2>6. stream' \in [file : Name, next : 0..N, at : Time]
        BY <2>1, <2>5 DEF Block, TypeOK
    <2> QED BY <1>3, <2>4, <2>6
            DEF CopyBlock, TypeOK, EncoderCaptured, liveVars, bakVars
<1>20. CASE StartStream
    <2>1. stream' \in [file : Name, next : 0..N, at : Time]
        BY <1>20, <1>0 DEF StartStream, TypeOK
    <2> QED BY <1>20, <2>1
            DEF StartStream, TypeOK, EncoderCaptured, liveVars, bakVars
<1>4. CASE EndStream
    BY <1>4 DEF EndStream, NoStream, TypeOK, EncoderCaptured, liveVars, bakVars
<1>5. ASSUME NEW b \in Block, DiskWrite(b) PROVE TypeOK' /\ EncoderCaptured'
    BY <1>5 DEF DiskWrite, TypeOK, EncoderCaptured, snapVars, bakVars
<1>6. ASSUME NEW e \in cst, DropRecord(e) PROVE TypeOK' /\ EncoderCaptured'
    BY <1>6 DEF DropRecord, TypeOK, EncoderCaptured, snapVars, bakVars
<1>7. ASSUME NEW e \in cst, FlushSame(e) PROVE TypeOK' /\ EncoderCaptured'
    <2> DEFINE h == Compared
               s == Buffered(h, e.blk)
               w == writer.enc \o s
    <2>1. PICK k \in 0..Len(w) :
             /\ writer' = [writer EXCEPT !.enc = SubSeq(w, k + 1, Len(w)), !.buf = <<>>]
             /\ bak' = Appended(SubSeq(w, 1, k))
        BY <1>7 DEF FlushSame
    <2>2. e.blk \in Block /\ writer.file \in Name
        BY <1>7, <1>0 DEF FlushSame, TypeOK, Record
    <2>3. s \in Seq(Entry) /\ writer.enc \in Seq(Entry)
        BY <2>2, BufferedType DEF TypeOK
    <2> HIDE DEF s
    <2>4. w \in Seq(Entry) /\ Elements(w) \subseteq Elements(writer.enc) \cup Elements(s)
        BY <2>3, ConcatFacts
    <2> HIDE DEF w
    <2>5. /\ SubSeq(w, k + 1, Len(w)) \in Seq(Entry) /\ SubSeq(w, 1, k) \in Seq(Entry)
          /\ Elements(SubSeq(w, k + 1, Len(w))) \subseteq Elements(w)
        BY <2>4, SubSeqFacts
    <2>7. bak' \in [Name -> Backup]
        BY <2>1, <2>2, <2>5, AppendedType
    <2>8. writer' \in [file : Name \cup {NoFile}, enc : Seq(Entry), buf : Seq(Entry),
                       handle : Name \cup {NoFile}, bad : BOOLEAN]
        <3>1. <<>> \in Seq(Entry)
            OBVIOUS
        <3> QED BY <2>1, <2>5, <3>1 DEF TypeOK
    <2>9. captured' = captured \cup Captured(s, writer.file)
        BY <1>7 DEF FlushSame, s
    <2>10. captured' \subseteq [blk : Block, ver : Nat, file : Name]
        BY <2>9, <2>2, <2>3, CapturedType DEF TypeOK
    <2>11. EncoderCaptured'
        <3>1. writer'.file = writer.file /\ Elements(writer'.enc) \subseteq Elements(w)
            BY <2>1, <2>5 DEF TypeOK
        <3>2. Captured(writer'.enc, writer'.file)
                 \subseteq Captured(writer.enc, writer.file) \cup Captured(s, writer.file)
            BY <3>1, <2>4 DEF Captured
        <3> QED BY <3>2, <2>9 DEF EncoderCaptured
    <2>12. cst' \subseteq Record /\ gone' \subseteq captured'
        BY <1>7, <2>9 DEF FlushSame, TypeOK
    <2> QED BY <1>7, <2>7, <2>8, <2>10, <2>11, <2>12 DEF FlushSame, TypeOK, snapVars
<1>8. ASSUME NEW e \in cst, FlushRotate(e) PROVE TypeOK' /\ EncoderCaptured'
    <2> DEFINE h == Compared
               s == Buffered(h, e.blk)
               m == MinuteOf(now)
    <2>1. PICK k \in 0..Len(s), j \in Closable :
             /\ writer' = [file |-> m, enc |-> SubSeq(s, k + 1, Len(s)),
                           buf |-> <<>>, handle |-> h, bad |-> FALSE]
             /\ bak' = [Closed(j) EXCEPT ![m] = [at |-> now, data |-> SubSeq(s, 1, k)]]
             /\ gone' = gone \cup {c \in captured : c.file = m} \cup Unwritten(j)
        BY <1>8 DEF FlushRotate
    <2>2. e.blk \in Block /\ h \in Name \cup {NoFile}
        BY <1>8, ComparedType DEF TypeOK, Record
    <2>3. s \in Seq(Entry)
        BY <2>2, BufferedType
    <2>4. captured' = captured \cup Captured(s, m)
        BY <1>8 DEF FlushRotate
    <2>41. gone' \subseteq captured'
        <3>1. Unwritten(j) \subseteq captured
            BY ClosableFacts, UnwrittenCaptured
        <3> QED BY <2>1, <2>4, <3>1 DEF TypeOK
    <2> HIDE DEF s, h
    <2>5. /\ SubSeq(s, k + 1, Len(s)) \in Seq(Entry) /\ SubSeq(s, 1, k) \in Seq(Entry)
          /\ Elements(SubSeq(s, k + 1, Len(s))) \subseteq Elements(s)
        BY <2>3, SubSeqFacts
    <2>6. [at |-> now, data |-> SubSeq(s, 1, k)] \in Backup
        BY <2>5, <1>0 DEF Backup
    <2>7. bak' \in [Name -> Backup]
        BY <2>1, <2>6, ClosedType
    <2>8. writer' \in [file : Name \cup {NoFile}, enc : Seq(Entry), buf : Seq(Entry),
                       handle : Name \cup {NoFile}, bad : BOOLEAN]
        BY <2>1, <2>2, <2>5, <1>0
    <2>9. captured' \subseteq [blk : Block, ver : Nat, file : Name]
        BY <2>4, <2>3, <1>0, CapturedType DEF TypeOK
    <2>10. EncoderCaptured'
        <3>1. Captured(writer'.enc, writer'.file) \subseteq Captured(s, m)
            BY <2>1, <2>5 DEF Captured
        <3> QED BY <3>1, <2>4 DEF EncoderCaptured
    <2>11. cst' \subseteq Record
        BY <1>8 DEF FlushRotate, TypeOK
    <2> QED BY <1>8, <2>41, <2>7, <2>8, <2>9, <2>10, <2>11 DEF FlushRotate, TypeOK, snapVars
<1>9. ASSUME NEW e \in cst, FailRotate(e) PROVE TypeOK' /\ EncoderCaptured'
    <2>1. e.blk \in Block /\ Compared \in Name \cup {NoFile}
        BY <1>9, ComparedType DEF TypeOK, Record
    <2>2. Buffered(Compared, e.blk) \in Seq(Entry) /\ <<>> \in Seq(Entry)
        BY <2>1, BufferedType
    <2>3. writer' = [file |-> NoFile, enc |-> <<>>, buf |-> Buffered(Compared, e.blk),
                     handle |-> Compared, bad |-> FALSE]
        BY <1>9 DEF FailRotate, NoWriter
    <2>4. writer' \in [file : Name \cup {NoFile}, enc : Seq(Entry), buf : Seq(Entry),
                       handle : Name \cup {NoFile}, bad : BOOLEAN]
        BY <2>1, <2>2, <2>3 DEF TypeOK
    <2>5. writer'.enc = <<>>
        BY <2>3 DEF TypeOK
    <2>6. EncoderCaptured'
        BY <2>5 DEF EncoderCaptured, Captured, Elements
    <2>7. PICK j \in Closable : bak' = Closed(j) /\ gone' = gone \cup Unwritten(j)
        BY <1>9 DEF FailRotate
    <2>8. bak' \in [Name -> Backup]
        BY <2>7, ClosedType
    <2>9. gone' \subseteq captured'
        <3>1. Unwritten(j) \subseteq captured /\ captured' = captured
            BY <1>9, ClosableFacts, UnwrittenCaptured DEF FailRotate
        <3> QED BY <2>7, <3>1 DEF TypeOK
    <2> QED BY <1>9, <2>4, <2>6, <2>8, <2>9 DEF FailRotate, TypeOK, snapVars
<1>21. ASSUME NEW e \in cst, LoseFlush(e) PROVE TypeOK' /\ EncoderCaptured'
    <2> DEFINE s == Buffered(Compared, e.blk)
               w == writer.enc \o s
    <2>1. e.blk \in Block /\ writer.file \in Name /\ writer.enc \in Seq(Entry)
        BY <1>21, <1>0 DEF LoseFlush, TypeOK, Record
    <2>2. s \in Seq(Entry)
        BY <2>1, BufferedType
    <2>3. PICK k \in 0..Len(w) :
             /\ bak' = Appended(SubSeq(w, 1, k))
             /\ gone' = gone \cup Captured(SubSeq(w, k + 1, Len(w)), writer.file)
        <3>1. w \in Seq(Entry)
            BY <2>1, <2>2, ConcatFacts
        <3> HIDE DEF w
        <3>3. Len(w) \in Nat
            BY <3>1
        <3>2. (IF writer.bad THEN {0} ELSE 0..Len(w)) \subseteq 0..Len(w)
            BY <3>3
        <3> QED BY <1>21, <3>2 DEF LoseFlush, w
    <2>4. captured' = captured \cup Captured(s, writer.file)
        BY <1>21 DEF LoseFlush
    <2>5. writer' = [writer EXCEPT !.enc = <<>>, !.buf = <<>>, !.bad = TRUE]
        BY <1>21 DEF LoseFlush
    <2> HIDE DEF s
    <2>6. w \in Seq(Entry) /\ Elements(w) \subseteq Elements(writer.enc) \cup Elements(s)
        BY <2>1, <2>2, ConcatFacts
    <2> HIDE DEF w
    <2>7. /\ SubSeq(w, 1, k) \in Seq(Entry)
          /\ Elements(SubSeq(w, k + 1, Len(w))) \subseteq Elements(w)
        BY <2>6, SubSeqFacts
    <2>8. bak' \in [Name -> Backup]
        BY <2>1, <2>3, <2>7, AppendedType
    <2>9. writer' \in [file : Name \cup {NoFile}, enc : Seq(Entry), buf : Seq(Entry),
                       handle : Name \cup {NoFile}, bad : BOOLEAN]
        <3>1. <<>> \in Seq(Entry)
            OBVIOUS
        <3> QED BY <2>5, <3>1 DEF TypeOK
    <2>10. captured' \subseteq [blk : Block, ver : Nat, file : Name]
        BY <2>1, <2>2, <2>4, CapturedType DEF TypeOK
    <2>11. gone' \subseteq captured'
        <3>1. Captured(SubSeq(w, k + 1, Len(w)), writer.file)
                 \subseteq Captured(writer.enc, writer.file) \cup Captured(s, writer.file)
            BY <2>6, <2>7 DEF Captured
        <3> QED BY <2>3, <2>4, <3>1 DEF EncoderCaptured, TypeOK
    <2>12. EncoderCaptured'
        <3>1. writer'.enc = <<>>
            BY <2>5 DEF TypeOK
        <3> QED BY <3>1 DEF EncoderCaptured, Captured, Elements
    <2>13. cst' \subseteq Record
        BY <1>21 DEF LoseFlush, TypeOK
    <2> QED BY <1>21, <2>8, <2>9, <2>10, <2>11, <2>12, <2>13 DEF LoseFlush, TypeOK, snapVars
<1>22. ASSUME NEW e \in cst, FailFlush(e) PROVE TypeOK' /\ EncoderCaptured'
    <2>1. e.blk \in Block /\ writer.file \in Name /\ writer.enc \in Seq(Entry)
        BY <1>22, <1>0 DEF FailFlush, TypeOK, Record
    <2>2. Buffered(Compared, e.blk) \in Seq(Entry) /\ <<>> \in Seq(Entry)
        BY <2>1, BufferedType
    <2>3. PICK k \in 0..Len(writer.enc) : /\ bak' = Appended(SubSeq(writer.enc, 1, k))
                                         /\ gone' = gone \cup Unwritten(k)
        <3>1. (IF writer.bad THEN {0} ELSE 0..Len(writer.enc)) \subseteq 0..Len(writer.enc)
            BY <2>1
        <3> QED BY <1>22, <3>1 DEF FailFlush
    <2>4. writer' = [writer EXCEPT !.enc = <<>>, !.bad = TRUE,
                                   !.buf = Buffered(Compared, e.blk)]
        BY <1>22 DEF FailFlush
    <2>5. writer' \in [file : Name \cup {NoFile}, enc : Seq(Entry), buf : Seq(Entry),
                       handle : Name \cup {NoFile}, bad : BOOLEAN]
        BY <2>2, <2>4 DEF TypeOK
    <2>6. bak' \in [Name -> Backup]
        <3>1. SubSeq(writer.enc, 1, k) \in Seq(Entry)
            BY <2>1, SubSeqFacts
        <3> QED BY <2>1, <2>3, <3>1, AppendedType
    <2>7. gone' \subseteq captured'
        <3>1. Unwritten(k) \subseteq captured /\ captured' = captured
            BY <1>22, UnwrittenCaptured DEF FailFlush
        <3> QED BY <2>3, <3>1 DEF TypeOK
    <2>8. EncoderCaptured'
        <3>1. writer'.enc = <<>>
            BY <2>4 DEF TypeOK
        <3> QED BY <3>1 DEF EncoderCaptured, Captured, Elements
    <2> QED BY <1>22, <2>5, <2>6, <2>7, <2>8 DEF FailFlush, TypeOK, snapVars
<1>10. ASSUME NEW m \in Name, ArchiveBegin(m) PROVE TypeOK' /\ EncoderCaptured'
    <2>1. snap[m].img \in Time
        BY <1>10 DEF ArchiveBegin, TypeOK, Snapshot, Stamp
    <2>2. archiving' \in [file : Name, time : Time]
        BY <1>10, <2>1 DEF ArchiveBegin
    <2> QED BY <1>10, <2>2 DEF ArchiveBegin, TypeOK, EncoderCaptured, liveVars, bakVars
<1>11. CASE ArchiveEnd
    <2>1. archiving' = NoArch /\ archiving \in [file : Name, time : Time]
        BY <1>11 DEF ArchiveEnd, TypeOK
    <2>2. snap' \in [Name -> Snapshot]
        <3>1. CASE UNCHANGED snap
            BY <3>1 DEF TypeOK
        <3>2. CASE ~UNCHANGED snap
            <4> DEFINE m == archiving.file
            <4>1. PICK i \in Removed(snap[m].img), l \in Removed(snap[m].log) :
                     snap' = [snap EXCEPT ![m].img = i, ![m].log = l]
                BY <1>11, <3>2 DEF ArchiveEnd
            <4>2. i \in Stamp /\ l \in Stamp
                BY <2>1, RemovedType DEF TypeOK, Snapshot
            <4> QED BY <2>1, <4>1, <4>2, SnapshotFields
        <3> QED BY <3>1, <3>2
    <2>3. arch' \subseteq [file : Name, time : Time]
        BY <1>11, <2>1 DEF ArchiveEnd, TypeOK
    <2> QED BY <1>11, <2>1, <2>2, <2>3
            DEF ArchiveEnd, TypeOK, EncoderCaptured, liveVars, bakVars
<1>12. ASSUME NEW m \in Name, RemoveSnapshot(m) PROVE TypeOK' /\ EncoderCaptured'
    <2>1. PICK i \in Removed(snap[m].img), l \in Removed(snap[m].log) :
             snap' = [snap EXCEPT ![m].img = i, ![m].log = l]
        BY <1>12 DEF RemoveSnapshot
    <2>2. i \in Stamp /\ l \in Stamp
        BY RemovedType DEF TypeOK, Snapshot
    <2>3. snap' \in [Name -> Snapshot]
        BY <2>1, <2>2, SnapshotFields
    <2> QED BY <1>12, <2>3
            DEF RemoveSnapshot, TypeOK, EncoderCaptured, liveVars, bakVars
<1>13. CASE CleanStart
    BY <1>13, <1>0 DEF CleanStart, NoRun, TypeOK, EncoderCaptured, liveVars, snapVars, bakVars
<1>14. CASE CleanList
    <2>1. \A L \in SUBSET Name, k \in Name : Doomed(L, k) \in SUBSET Name
        BY DEF Doomed
    <2>2. cleaner' \in [pc : {"idle", "snapshots", "delete", "files"}, latest : Stamp,
                        doomed : SUBSET Name, baks : SUBSET Name, csts : SUBSET Time]
        <3> DEFINE L == {m \in Name : Complete(m)}
        <3>1. \E D \in SUBSET Name : cleaner' = [cleaner EXCEPT !.pc = "delete", !.doomed = D]
            <4>1. CASE L = {} /\ cleaner' = [cleaner EXCEPT !.pc = "delete"]
                <5>1. cleaner.doomed \in SUBSET Name
                    BY DEF TypeOK
                <5>2. cleaner' = [cleaner EXCEPT !.pc = "delete", !.doomed = cleaner.doomed]
                    BY <4>1 DEF TypeOK
                <5> QED BY <5>1, <5>2
            <4>2. CASE \E k \in L :
                          cleaner' = [cleaner EXCEPT !.pc = "delete", !.doomed = Doomed(L, k)]
                BY <4>2, <2>1
            <4> QED BY <1>14, <4>1, <4>2 DEF CleanList
        <3> QED BY <3>1 DEF TypeOK
    <2> QED BY <1>14, <2>2
            DEF CleanList, TypeOK, EncoderCaptured, liveVars, snapVars, bakVars
<1>15. CASE ListFiles
    <2>1. {e.at : e \in cst} \in SUBSET Time
        BY DEF TypeOK, Record
    <2> QED BY <1>15, <1>0, <2>1
            DEF ListFiles, NoRun, TypeOK, EncoderCaptured, liveVars, snapVars, bakVars
<1>16. ASSUME NEW m \in Name, CheckBak(m) PROVE TypeOK' /\ EncoderCaptured'
    <2>1. bak' \in [Name -> Backup]
        <3>1. ASSUME NEW t \in Removed(bak[m].at)
              PROVE  [bak EXCEPT ![m].at = t] \in [Name -> Backup]
            <4>1. t \in Stamp
                BY RemovedType DEF TypeOK, Backup
            <4>2. [bak[m] EXCEPT !.at = t] \in Backup
                BY <4>1 DEF TypeOK, Backup
            <4> QED BY <4>2 DEF TypeOK
        <3>2. bak \in [Name -> Backup]
            BY DEF TypeOK
        <3> QED BY <1>16, <3>1, <3>2 DEF CheckBak
    <2> QED BY <1>16, <2>1 DEF CheckBak, TypeOK, EncoderCaptured, liveVars, snapVars
<1>17. ASSUME NEW t \in Time, CheckCst(t) PROVE TypeOK' /\ EncoderCaptured'
    BY <1>17 DEF CheckCst, TypeOK, EncoderCaptured, snapVars, bakVars
<1>18. CASE CleanEnd
    BY <1>18, <1>0 DEF CleanEnd, NoRun, TypeOK, EncoderCaptured, liveVars, snapVars, bakVars
<1>19. CASE Restart
    BY <1>19, <1>0 DEF Restart, NoStream, NoArch, NoRun, NoWriter, TypeOK, EncoderCaptured,
                       Captured, Elements
<1> QED BY <1>1, <1>2, <1>3, <1>4, <1>5, <1>6, <1>7, <1>8, <1>9, <1>10, <1>11, <1>12,
           <1>13, <1>14, <1>15, <1>16, <1>17, <1>18, <1>19, <1>20, <1>21, <1>22
        DEF Next, CleanStep

-----------------------------------------------------------------------------
(* The snapshots *)

SnapshotInv == NamedByMinute /\ StreamRecent /\ RemovalsClosing /\ Survivor

LEMMA InitSnapshots == Init => SnapshotInv
BY DEF Init, SnapshotInv, NamedByMinute, StreamRecent, RemovalsClosing, Survivor, NoRun

\* What a step that leaves snapshots, removals and the clock alone preserves.
LEMMA SnapshotsUntouched ==
    ASSUME SnapshotInv, UNCHANGED <<now, snapVars, cleaner.pc, cleaner.doomed>>
    PROVE  SnapshotInv'
BY DEF snapVars, SnapshotInv, NamedByMinute, StreamRecent, RemovalsClosing, Survivor, Closing,
       Complete, KeptSince, Timestamp

\* A file of which a part is removed, or not, is still named by its minute.
LEMMA NamedAfterRemoval ==
    ASSUME TypeOK, NamedByMinute, NEW m \in Name,
           NEW i \in {Never, snap[m].img}, NEW l \in {Never, snap[m].log},
           snap' = [snap EXCEPT ![m].img = i, ![m].log = l], UNCHANGED now
    PROVE  /\ NamedByMinute'
           /\ \A k \in Name : k # m => snap'[k] = snap[k]
           /\ snap'[m].img = i /\ snap'[m].log = l
<1>1. snap \in [Name -> Snapshot]
    BY DEF TypeOK
<1>2. /\ \A k \in Name : k # m => snap'[k] = snap[k]
      /\ snap'[m].img = i /\ snap'[m].log = l
    BY <1>1 DEF Snapshot
<1>3. ASSUME NEW k \in Name, NEW t \in {snap'[k].img, snap'[k].log}, t # Never
      PROVE  t <= now' /\ k <= MinuteOf(t)
    <2>1. t \in {snap[k].img, snap[k].log}
        BY <1>2, <1>3
    <2> QED BY <2>1, <1>3 DEF NamedByMinute
<1>4. NamedByMinute'
    BY <1>3 DEF NamedByMinute
<1> QED BY <1>2, <1>4

\* The age of a snapshot is taken from one of its two files.
LEMMA TimestampFacts ==
    ASSUME TypeOK, NamedByMinute, NEW m \in Name
    PROVE  /\ Timestamp(m) \in Stamp /\ Timestamp(m) \in Int
           /\ Timestamp(m) <= snap[m].img /\ snap[m].img \in Int
           /\ Timestamp(m) <= now
           /\ Complete(m) => Timestamp(m) \in Nat /\ m <= MinuteOf(Timestamp(m))
<1> USE SizeAssumption
<1>1. /\ snap[m].img \in Stamp /\ snap[m].log \in Stamp
      /\ now \in Nat
    BY DEF TypeOK, Snapshot, Time
<1>2. Timestamp(m) \in {snap[m].img, snap[m].log}
    BY DEF Timestamp
<1>3. Timestamp(m) \in Stamp /\ Timestamp(m) \in Int /\ snap[m].img \in Int /\ snap[m].log \in Int
    BY <1>1, <1>2 DEF Stamp, Time, Never
<1>4. Timestamp(m) <= snap[m].img
    BY <1>3 DEF Timestamp
<1>5. Timestamp(m) # Never => Timestamp(m) <= now /\ m <= MinuteOf(Timestamp(m))
    BY <1>2 DEF NamedByMinute
<1>6. Timestamp(m) <= now
    BY <1>1, <1>5 DEF Never
<1>7. Complete(m) => Timestamp(m) # Never /\ Timestamp(m) \in Nat
    BY <1>2, <1>3 DEF Complete, Stamp, Time, Never
<1> QED BY <1>3, <1>4, <1>5, <1>6, <1>7

LEMMA StepSnapshots ==
    ASSUME TypeOK, TypeOK', Next, SnapshotInv PROVE SnapshotInv'
<1> USE SizeAssumption, UnitAssumption
<1>parts. NamedByMinute /\ StreamRecent /\ RemovalsClosing /\ Survivor
    BY DEF SnapshotInv
<1> USE <1>parts
<1>0. now \in Nat /\ now' \in Nat /\ MinuteOf(now) \in Name
    BY MinuteIsName DEF TypeOK, Time
<1>1. CASE Tick
    <2>1. now' = now + 1 /\ UNCHANGED <<snap, arch, archiving, cleaner>>
        BY <1>1 DEF Tick
    <2>2. MinuteOf(now) <= MinuteOf(now') /\ MinuteOf(now) \in Nat /\ MinuteOf(now') \in Nat
        BY <1>0, <2>1, MinuteFacts
    <2>3. stream' \in {stream, NoStream}
          /\ (stream' # NoStream => stream' = stream /\ ~(stream.at < now))
        BY <1>1 DEF Tick
    <2>4. NamedByMinute'
        BY <2>1, <1>0 DEF NamedByMinute, TypeOK, Snapshot, Stamp, Time
    <2>5. StreamRecent'
        BY <2>1, <2>3, <1>0 DEF StreamRecent, TypeOK, Time
    <2>6. \A m \in Name : Closing(m) => Closing(m)'
        BY <2>2, <2>3, SizeAssumption DEF Closing, NoStream, NoFile, Name
    <2>7. RemovalsClosing'
        BY <2>1, <2>6 DEF RemovalsClosing, TypeOK
    <2>8. Survivor'
        BY <2>1 DEF Survivor, Complete, KeptSince, Timestamp
    <2> QED BY <2>4, <2>5, <2>7, <2>8 DEF SnapshotInv
<1>2. CASE RecordChanges
    BY <1>2, SnapshotsUntouched DEF RecordChanges
<1>17. CASE StartStream
    <2>1. /\ stream = NoStream
          /\ stream' = [file |-> MinuteOf(now), next |-> 0, at |-> now]
          /\ UNCHANGED <<now, snap, arch, archiving, cleaner>>
        BY <1>17 DEF StartStream
    <2>2. NamedByMinute' /\ Survivor'
        BY <2>1 DEF NamedByMinute, Survivor, Complete, KeptSince, Timestamp
    <2>3. StreamRecent'
        BY <2>1, <1>0 DEF StreamRecent, Name
    <2>4. \A m \in Name : Closing(m) => Closing(m)'
        BY <2>1, <1>0 DEF Closing, Name
    <2>5. RemovalsClosing'
        BY <2>1, <2>4 DEF RemovalsClosing, TypeOK
    <2> QED BY <2>2, <2>3, <2>5 DEF SnapshotInv
<1>3. CASE CopyBlock
    <2> DEFINE f == stream.file
    <2>1. /\ f \in Name /\ stream # NoStream
          /\ stream \in [file : Name, next : Block, at : Time]
        BY <1>3 DEF CopyBlock, TypeOK
    <2>2. /\ snap'[f].img = now /\ snap'[f].log = now
          /\ \A m \in Name : m # f => snap'[m] = snap[m]
        BY <1>3, <2>1 DEF CopyBlock, TypeOK
    <2>3. /\ stream'.file = f /\ stream'.at = now /\ stream'.next = stream.next + 1
          /\ UNCHANGED <<now, arch, archiving, cleaner>>
        BY <1>3, <2>1 DEF CopyBlock
    <2>4. f <= MinuteOf(now)
        <3>1. stream.at \in Nat /\ stream.at <= now /\ f <= MinuteOf(stream.at)
            BY <2>1 DEF StreamRecent, Time
        <3> QED BY <3>1, <2>1, <1>0, MinuteFacts DEF Name
    <2>5. \A m \in Name : Closing(m) => m # f
        BY DEF Closing
    <2> HIDE DEF f
    <2>6. NamedByMinute'
        <3>1. ASSUME NEW m \in Name, NEW t \in {snap'[m].img, snap'[m].log}, t # Never
              PROVE  t <= now' /\ m <= MinuteOf(t)
            BY <3>1, <2>2, <2>3, <2>4, <1>0 DEF NamedByMinute
        <3> QED BY <3>1 DEF NamedByMinute
    <2>7. StreamRecent'
        BY <2>1, <2>2, <2>3, <2>4, <1>0 DEF StreamRecent, Block
    <2>8. \A m \in Name : Closing(m) => Closing(m)'
        BY <2>3, <2>5 DEF Closing
    <2>9. RemovalsClosing'
        BY <2>2, <2>3, <2>5, <2>8 DEF RemovalsClosing, TypeOK
    <2>10. Survivor'
        <3>1. ASSUME cleaner.doomed # {} PROVE Survivor'
            <4>1. PICK k \in Name \ cleaner.doomed : \A m \in cleaner.doomed :
                     Complete(m) => KeptSince(Timestamp(m), k)
                BY <3>1 DEF Survivor
            <4>2. \A m \in cleaner.doomed : m \in Name /\ m # f
                BY <2>5 DEF RemovalsClosing, TypeOK
            <4>3. \A m \in cleaner.doomed : Complete(m)' => Complete(m) /\ Timestamp(m)' = Timestamp(m)
                BY <4>2, <2>2 DEF Complete, Timestamp
            <4>4. ASSUME NEW t \in Stamp, t <= now, KeptSince(t, k) PROVE KeptSince(t, k)'
                BY <4>4, <2>2, <2>3, <1>0, <2>1 DEF KeptSince, Complete, Timestamp, Never
            <4>5. \A m \in Name : Timestamp(m) \in Stamp /\ Timestamp(m) <= now
                BY TimestampFacts
            <4>6. ASSUME NEW m \in cleaner.doomed, Complete(m)'
                  PROVE  KeptSince(Timestamp(m), k)'
                <5>1. KeptSince(Timestamp(m), k)
                    BY <4>1, <4>3, <4>6
                <5>2. PICK t \in Stamp : t = Timestamp(m)
                    BY <4>2, <4>5
                <5>3. KeptSince(t, k)'
                    BY <5>1, <5>2, <4>2, <4>4, <4>5
                <5> QED BY <5>2, <5>3, <4>3, <4>6 DEF KeptSince
            <4> QED BY <4>6, <2>3 DEF Survivor
        <3> QED BY <3>1, <2>3 DEF Survivor
    <2> QED BY <2>6, <2>7, <2>9, <2>10 DEF SnapshotInv
<1>4. CASE EndStream
    <2>1. stream' = NoStream /\ UNCHANGED <<now, snap, arch, archiving, cleaner>>
        BY <1>4 DEF EndStream
    <2>2. \A m \in Name : Closing(m) => Closing(m)'
        BY <2>1, SizeAssumption DEF Closing, NoStream, NoFile, Name
    <2> QED BY <2>1, <2>2, SMTT(40)
               DEF SnapshotInv, NamedByMinute, StreamRecent, RemovalsClosing, Survivor,
                   Complete, KeptSince, Timestamp, TypeOK
<1>5. CASE \E b \in Block : DiskWrite(b)
    BY <1>5, SnapshotsUntouched DEF DiskWrite
<1>6. CASE \E e \in cst : DropRecord(e) \/ FlushSame(e) \/ LoseFlush(e) \/ FailFlush(e)
    BY <1>6, SnapshotsUntouched DEF DropRecord, FlushSame, LoseFlush, FailFlush
<1>61. CASE \E e \in cst : FlushRotate(e) \/ FailRotate(e)
    BY <1>61, SnapshotsUntouched DEF FlushRotate, FailRotate
<1>7. ASSUME NEW m \in Name, ArchiveBegin(m) PROVE SnapshotInv'
    <2>1. /\ snap[m].img # Never /\ now - snap[m].img > ArchiveAge
          /\ archiving' = [file |-> m, time |-> snap[m].img]
          /\ UNCHANGED <<now, snap, stream, arch, cleaner>>
        BY <1>7 DEF ArchiveBegin
    <2>2. snap[m].img \in Nat /\ m <= MinuteOf(snap[m].img)
        BY <2>1 DEF NamedByMinute, TypeOK, Snapshot, Stamp, Time
    <2>3. m < MinuteOf(now)
        <3>1. snap[m].img + Minute <= now
            BY <2>1, <2>2, <1>0
        <3>2. MinuteOf(snap[m].img) \in Nat /\ MinuteOf(snap[m].img) < MinuteOf(now)
            BY <3>1, <2>2, <1>0, MinuteFacts
        <3> QED BY <3>2, <2>2, <1>0 DEF Name
    <2>4. m # stream.file
        <3>1. CASE stream = NoStream
            BY <3>1, <2>2 DEF NoStream, NoFile, Name
        <3>2. ASSUME stream # NoStream, m = stream.file PROVE FALSE
            <4>1. /\ stream.at \in Nat /\ now - 1 <= stream.at /\ stream.next \in Nat
                  /\ stream.next = 0 => stream.file = MinuteOf(stream.at)
                  /\ stream.next > 0 => snap[m].img = stream.at
                <5>1. stream \in [file : Name, next : 0..N, at : Time]
                    BY <3>2 DEF TypeOK
                <5>2. stream.at \in Nat /\ stream.next \in Nat
                    BY <5>1 DEF Time
                <5> QED BY <3>2, <5>2 DEF StreamRecent
            <4>2. snap[m].img + Minute <= stream.at
                BY <4>1, <2>1, <2>2, <1>0
            <4>3. MinuteOf(snap[m].img) < MinuteOf(stream.at)
                BY <4>1, <4>2, <2>2, MinuteFacts
            <4> QED BY <4>1, <4>2, <4>3, <3>2, <2>2, MinuteFacts DEF Name
        <3> QED BY <3>1, <3>2
    <2>5. RemovalsClosing'
        BY <2>1, <2>3, <2>4 DEF RemovalsClosing, Closing
    <2> QED BY <2>1, <2>5 DEF SnapshotInv, NamedByMinute, StreamRecent, Survivor,
                              Complete, KeptSince, Timestamp
<1>8. CASE ArchiveEnd
    <2> DEFINE m == archiving.file
    <2>1. /\ archiving # NoArch /\ archiving' = NoArch
          /\ m \in Name /\ archiving.time \in Time
          /\ UNCHANGED <<now, stream, cleaner>>
        BY <1>8 DEF ArchiveEnd, TypeOK
    <2>2. Closing(m) /\ snap[m].img \in {Never, archiving.time}
        BY <2>1 DEF RemovalsClosing
    <2>3. CASE UNCHANGED <<snap, arch>>
        BY <2>1, <2>3 DEF SnapshotInv, NamedByMinute, StreamRecent, RemovalsClosing, Closing, Survivor,
                          Complete, KeptSince, Timestamp
    <2>4. ASSUME NEW i \in Removed(snap[m].img), NEW l \in Removed(snap[m].log),
                 snap' = [snap EXCEPT ![m].img = i, ![m].log = l],
                 arch' = arch \cup {archiving}
          PROVE  SnapshotInv'
        <3>1. i \in {Never, snap[m].img} /\ l \in {Never, snap[m].log}
            BY DEF Removed
        <3>2. /\ NamedByMinute'
              /\ \A k \in Name : k # m => snap'[k] = snap[k]
              /\ snap'[m].img = i /\ snap'[m].log = l
            BY <2>1, <2>4, <3>1, NamedAfterRemoval
        <3>3. StreamRecent'
            BY <2>1, <2>2, <3>2 DEF StreamRecent, Closing, TypeOK
        <3>4. RemovalsClosing'
            BY <2>1 DEF RemovalsClosing, Closing
        <3>5. ASSUME NEW k \in Name, NEW t \in Stamp, KeptSince(t, k) PROVE KeptSince(t, k)'
            <4>1. CASE k # m
                BY <2>4, <3>2, <3>5, <4>1 DEF KeptSince, Complete, Timestamp
            <4>2. CASE k = m /\ \E a \in arch : a.file = k /\ t <= a.time
                BY <2>4, <4>2 DEF KeptSince
            <4>3. CASE k = m /\ Complete(m) /\ t <= Timestamp(m)
                <5>1. snap[m].img = archiving.time /\ t \in Int
                    BY <2>1, <2>2, <4>3 DEF Complete, Stamp, Time, Never
                <5>2. t <= archiving.time
                    BY <2>1, <4>3, <5>1, TimestampFacts
                <5> QED BY <2>4, <4>3, <5>2 DEF KeptSince
            <4> QED BY <3>5, <4>1, <4>2, <4>3 DEF KeptSince
        <3>6. ASSUME NEW j \in Name, Complete(j)'
              PROVE  Complete(j) /\ Timestamp(j)' = Timestamp(j)
            BY <3>1, <3>2, <3>6 DEF Complete, Timestamp
        <3>7. Survivor'
            <4>1. ASSUME cleaner.doomed # {} PROVE Survivor'
                <5>1. PICK k \in Name \ cleaner.doomed : \A j \in cleaner.doomed :
                         Complete(j) => KeptSince(Timestamp(j), k)
                    BY <4>1 DEF Survivor
                <5>2. ASSUME NEW j \in cleaner.doomed, Complete(j)'
                      PROVE  KeptSince(Timestamp(j), k)'
                    <6>1. j \in Name
                        BY DEF TypeOK
                    <6>2. PICK t \in Stamp : t = Timestamp(j)
                        BY <6>1 DEF Timestamp, TypeOK, Snapshot
                    <6>3. KeptSince(t, k)'
                        BY <3>5, <3>6, <5>1, <5>2, <6>1, <6>2
                    <6> QED BY <3>6, <5>2, <6>1, <6>2, <6>3 DEF KeptSince
                <5> QED BY <2>1, <5>2 DEF Survivor
            <4> QED BY <2>1, <4>1 DEF Survivor
        <3> QED BY <3>2, <3>3, <3>4, <3>7 DEF SnapshotInv
    <2> QED BY <1>8, <2>3, <2>4 DEF ArchiveEnd
<1>9. CASE CleanStart
    <2>1. cleaner.doomed = {} /\ cleaner'.doomed = {} /\ UNCHANGED <<now, snapVars>>
        BY <1>9 DEF CleanStart, RemovalsClosing, NoRun
    <2> QED BY <2>1 DEF SnapshotInv, snapVars, NamedByMinute, StreamRecent, RemovalsClosing, Closing, Survivor
<1>10. CASE CleanList
    <2> DEFINE L == {m \in Name : Complete(m)}
    <2>1. cleaner.pc = "snapshots" /\ cleaner.doomed = {} /\ UNCHANGED <<now, snapVars>>
        BY <1>10 DEF CleanList, RemovalsClosing
    <2>2. NamedByMinute' /\ StreamRecent'
        BY <2>1 DEF snapVars, NamedByMinute, StreamRecent
    <2>3. CASE cleaner' = [cleaner EXCEPT !.pc = "delete"]
        <3>1. cleaner'.doomed = {}
            BY <2>1, <2>3 DEF TypeOK
        <3> QED BY <2>1, <2>2, <3>1 DEF SnapshotInv, snapVars, RemovalsClosing, Closing, Survivor
    <2>4. ASSUME NEW k \in L, \A j \in L : Timestamp(j) <= Timestamp(k),
                 cleaner' = [cleaner EXCEPT !.pc = "delete", !.doomed = Doomed(L, k)]
          PROVE  SnapshotInv'
        <3>1. cleaner'.pc = "delete" /\ cleaner'.doomed = Doomed(L, k)
            BY <2>4 DEF TypeOK
        <3>2. \A m \in L : Timestamp(m) \in Nat /\ Timestamp(m) <= now /\ m <= MinuteOf(Timestamp(m))
            BY TimestampFacts
        <3>3. \A m \in Doomed(L, k) : m \in L /\ now - Timestamp(m) > Retention
            BY DEF Doomed, Expired
        <3>4. k \notin Doomed(L, k)
            <4>1. ASSUME k \in Doomed(L, k) PROVE FALSE
                <5>1. PICK j \in L : ~Expired(j)
                    BY <4>1 DEF Doomed
                <5>2. Timestamp(j) <= Timestamp(k) /\ now - Timestamp(k) > Retention
                    BY <2>4, <3>3, <4>1
                <5> QED BY <5>1, <5>2, <3>2, <1>0 DEF Expired
            <4> QED BY <4>1
        <3>5. ASSUME NEW m \in Doomed(L, k) PROVE Closing(m)
            <4>1. m \in L /\ m \in Name /\ m \in Nat
                BY <3>3 DEF Name
            <4>2. Timestamp(m) + Minute <= now
                BY <4>1, <3>2, <3>3, <1>0
            <4>3. m < MinuteOf(now)
                BY <4>1, <4>2, <3>2, <1>0, MinuteFacts
            <4>4. m # stream.file
                <5>1. CASE stream = NoStream
                    BY <5>1, <4>1 DEF NoStream, NoFile
                <5>2. ASSUME stream # NoStream, m = stream.file PROVE FALSE
                    <6>1. /\ stream.at \in Nat /\ now - 1 <= stream.at /\ stream.next \in Nat
                          /\ stream.next = 0 => m = MinuteOf(stream.at)
                          /\ stream.next > 0 => Timestamp(m) = stream.at
                        BY <5>2 DEF StreamRecent, Timestamp, TypeOK, Time
                    <6>2. Timestamp(m) \in Nat /\ m <= MinuteOf(Timestamp(m))
                        BY <4>1, <3>2
                    <6>3. Timestamp(m) + Minute <= stream.at
                        BY <6>1, <6>2, <4>1, <3>3, <1>0
                    <6>4. MinuteOf(Timestamp(m)) < MinuteOf(stream.at)
                        BY <6>1, <6>2, <6>3, MinuteFacts
                    <6> QED BY <6>1, <6>2, <6>3, <6>4, <4>1, MinuteFacts
                <5> QED BY <5>1, <5>2
            <4> QED BY <4>3, <4>4 DEF Closing
        <3>6. RemovalsClosing'
            BY <2>1, <3>1, <3>5 DEF RemovalsClosing, Closing, snapVars
        <3>7. \A m \in Doomed(L, k) : KeptSince(Timestamp(m), k)
            BY <2>4, <3>3 DEF KeptSince
        <3>8. Survivor'
            <4>1. snap' = snap /\ arch' = arch /\ k \in Name
                BY <2>1 DEF snapVars
            <4>2. \A m \in cleaner'.doomed : KeptSince(Timestamp(m), k)'
                BY <3>1, <3>7, <4>1 DEF Complete, KeptSince, Timestamp
            <4> QED BY <3>1, <3>4, <4>1, <4>2 DEF Survivor
        <3> QED BY <2>2, <3>6, <3>8 DEF SnapshotInv
    <2>5. \/ cleaner' = [cleaner EXCEPT !.pc = "delete"]
          \/ \E k \in L : /\ \A j \in L : Timestamp(j) <= Timestamp(k)
                         /\ cleaner' = [cleaner EXCEPT !.pc = "delete", !.doomed = Doomed(L, k)]
        BY <1>10 DEF CleanList
    <2> HIDE DEF L
    <2> QED BY <2>3, <2>4, <2>5
<1>11. ASSUME NEW m \in Name, RemoveSnapshot(m) PROVE SnapshotInv'
    <2>1. /\ m \in cleaner.doomed /\ cleaner.pc = "delete"
          /\ cleaner' = [cleaner EXCEPT !.doomed = @ \ {m}]
          /\ UNCHANGED <<now, stream, arch, archiving>>
        BY <1>11 DEF RemoveSnapshot
    <2>2. PICK i \in {Never, snap[m].img}, l \in {Never, snap[m].log} :
             snap' = [snap EXCEPT ![m].img = i, ![m].log = l]
        BY <1>11 DEF RemoveSnapshot, Removed
    <2>3. /\ NamedByMinute'
          /\ \A k \in Name : k # m => snap'[k] = snap[k]
          /\ snap'[m].img = i /\ snap'[m].log = l
        BY <2>1, <2>2, NamedAfterRemoval
    <2>4. cleaner'.doomed = cleaner.doomed \ {m} /\ cleaner'.pc = "delete"
        BY <2>1 DEF TypeOK
    <2>5. StreamRecent'
        <3>1. m # stream.file
            BY <2>1 DEF RemovalsClosing, Closing
        <3> QED BY <2>1, <2>3, <3>1 DEF StreamRecent, TypeOK
    <2>6. RemovalsClosing'
        BY <2>1, <2>3, <2>4 DEF RemovalsClosing, Closing, TypeOK
    <2>7. Survivor'
        <3>1. PICK k \in Name \ cleaner.doomed : \A j \in cleaner.doomed :
                 Complete(j) => KeptSince(Timestamp(j), k)
            BY <2>1 DEF Survivor
        <3>2. ASSUME NEW j \in cleaner.doomed \ {m}, Complete(j)'
              PROVE  KeptSince(Timestamp(j), k)'
            <4>1. j \in Name /\ snap'[j] = snap[j] /\ snap'[k] = snap[k]
                BY <2>1, <2>3, <3>1 DEF TypeOK
            <4> QED BY <2>1, <3>1, <3>2, <4>1 DEF KeptSince, Complete, Timestamp
        <3> QED BY <2>4, <3>1, <3>2 DEF Survivor
    <2> QED BY <2>3, <2>5, <2>6, <2>7 DEF SnapshotInv
<1>12. CASE ListFiles
    <2>1. cleaner.doomed = {} /\ cleaner'.doomed = {} /\ UNCHANGED <<now, snapVars>>
        BY <1>12 DEF ListFiles, NoRun, TypeOK
    <2> QED BY <2>1 DEF SnapshotInv, snapVars, NamedByMinute, StreamRecent, RemovalsClosing, Closing, Survivor
<1>13. CASE \E m \in Name : CheckBak(m)
    <2>1. UNCHANGED <<now, snapVars, cleaner.pc, cleaner.doomed>>
        BY <1>13 DEF CheckBak, TypeOK
    <2> QED BY <2>1, SnapshotsUntouched
<1>14. CASE \E t \in Time : CheckCst(t)
    <2>1. UNCHANGED <<now, snapVars, cleaner.pc, cleaner.doomed>>
        BY <1>14 DEF CheckCst, TypeOK
    <2> QED BY <2>1, SnapshotsUntouched
<1>15. CASE CleanEnd
    <2>1. cleaner.doomed = {} /\ cleaner'.doomed = {} /\ UNCHANGED <<now, snapVars>>
        BY <1>15 DEF CleanEnd, NoRun, RemovalsClosing
    <2> QED BY <2>1 DEF SnapshotInv, snapVars, NamedByMinute, StreamRecent, RemovalsClosing, Closing, Survivor
<1>16. CASE Restart
    <2>1. /\ stream' = NoStream /\ archiving' = NoArch /\ cleaner'.doomed = {}
          /\ UNCHANGED <<now, snap, arch>>
        BY <1>16 DEF Restart, NoRun
    <2> QED BY <2>1 DEF SnapshotInv, NamedByMinute, StreamRecent, RemovalsClosing, Survivor
<1> QED BY <1>1, <1>2, <1>3, <1>4, <1>5, <1>6, <1>7, <1>8, <1>9, <1>10, <1>11, <1>12,
           <1>13, <1>14, <1>15, <1>16, <1>17, <1>61 DEF Next, CleanStep

-----------------------------------------------------------------------------
(* Theorems *)

LEMMA StutterIInv == ASSUME IInv, UNCHANGED vars PROVE IInv'
BY DEF vars, IInv, TypeOK, EncoderCaptured, NamedByMinute, StreamRecent, RemovalsClosing,
       Closing, Survivor, Complete, KeptSince, Timestamp

\* The inductive invariant of module BackupFiles.
THEOREM IInvHolds == Spec => []IInv
<1>1. Init => IInv
    BY InitTypeOK, InitSnapshots DEF IInv, SnapshotInv
<1>2. IInv /\ [Next]_vars => IInv'
    <2> SUFFICES ASSUME IInv, [Next]_vars PROVE IInv'
        OBVIOUS
    <2>1. CASE Next
        <3>1. TypeOK' /\ EncoderCaptured'
            BY <2>1, StepTypeOK DEF IInv
        <3> QED BY <2>1, <3>1, StepSnapshots DEF IInv, SnapshotInv
    <2> QED BY <2>1, StutterIInv
<1> QED BY <1>1, <1>2, PTL DEF Spec

\* Every variable keeps to its type: the names of the files, their ModTimes, what
\* the writers and jobs remember.
THEOREM TypeCorrect == Spec => []TypeOK
<1>1. IInv => TypeOK
    BY DEF IInv
<1> QED BY <1>1, IInvHolds, PTL

\* Neither job ever takes away the image that WriteFullBackupToFile appends to.
THEOREM ImageStaysHolds == Spec => []ImageStays
<1>1. IInv => ImageStays
    BY DEF IInv, StreamRecent, ImageStays, NoStream, TypeOK, Time, Never
<1> QED BY <1>1, IInvHolds, PTL

\* A deletion of cleanupSnapshots always leaves a snapshot that is at least as
\* recent, in the snapshot directory or in the archive.
THEOREM NewestKeptHolds == Spec => NewestKept
<1>1. ASSUME IInv, NEW m \in Name, NEW t \in Stamp, RemoveSnapshot(m), Complete(m),
             t = Timestamp(m)
      PROVE  \E k \in Name : k # m /\ KeptSince(t, k)'
    <2>1. m \in cleaner.doomed
        BY <1>1 DEF RemoveSnapshot
    <2>2. PICK k \in Name \ cleaner.doomed : KeptSince(t, k)
        BY <1>1, <2>1 DEF IInv, Survivor
    <2>3. k # m /\ snap'[k] = snap[k] /\ arch' = arch
        BY <1>1, <2>1, <2>2 DEF RemoveSnapshot, IInv, TypeOK
    <2> QED BY <2>2, <2>3 DEF KeptSince, Complete, Timestamp
<1>2. IInv => [\A m \in Name, t \in Stamp :
                  RemoveSnapshot(m) /\ Complete(m) /\ t = Timestamp(m) =>
                      \E k \in Name : k # m /\ KeptSince(t, k)']_vars
    BY <1>1
<1> QED BY <1>2, IInvHolds, PTL DEF NewestKept

-----------------------------------------------------------------------------
(* The order of the entries *)

\* The versions of a block never go down along a sequence, nor from one to
\* another, nor above its version on the disk.
Ascending(s) ==
    \A i, j \in DOMAIN s : i <= j /\ s[i].blk = s[j].blk => s[i].ver <= s[j].ver
Before(s, t) ==
    \A x \in Elements(s), y \in Elements(t) : x.blk = y.blk => x.ver <= y.ver
UpTo(d, s) == \A x \in Elements(s) : x.ver <= d[x.blk]

\* The way of an entry, f the contents of the files: the file, before it what
\* the encoder keeps, before this the buffer.
Flow(d, f, enc, buf) ==
    /\ \A m \in Name : /\ Ascending(f[m]) /\ UpTo(d, f[m])
                       /\ Before(f[m], enc) /\ Before(f[m], buf)
    /\ \A m, k \in Name : m < k => Before(f[m], f[k])
    /\ Ascending(enc) /\ Ascending(buf) /\ Before(enc, buf)
    /\ UpTo(d, enc) /\ UpTo(d, buf)

Contents(files) == [m \in Name |-> files[m].data]

EntriesInOrder == Flow(disk, Contents(bak), writer.enc, writer.buf)

\* Files are made in the minute they are named after, and the open one is the last.
FilesInTime ==
    /\ \A m \in Name : bak[m].data # <<>> => m <= MinuteOf(now)
    /\ \A m \in Name : bak[m].data # <<>> /\ writer.file # NoFile => m <= writer.file
    /\ \A m \in Name : bak[m].at # Never => m <= MinuteOf(bak[m].at)
    /\ writer.file <= MinuteOf(now)
    /\ writer.file = NoFile => writer.enc = <<>>

\* A file is removed only by a cleanup that went by a snapshot of its minute or
\* a later one.
RemovedByCut ==
    /\ cleaner.latest <= cut
    /\ writer.file # NoFile /\ Fresh(writer.file) => bak[writer.file].at # Never

\* What the file m holds, or will hold once the encoder has written.
Holding(m) ==
    Elements(bak[m].data) \cup IF writer.file = m THEN Elements(writer.enc) ELSE {}

\* A file holds nothing but what was captured for it, and all of it unless a
\* restart or a failed write lost it or the file is out of date.
FilesHold ==
    /\ \A m \in Name : Captured(bak[m].data, m) \subseteq captured
    /\ \A e \in captured \ gone :
          Fresh(e.file) => /\ bak[e.file].at # Never
                           /\ [blk |-> e.blk, ver |-> e.ver] \in Holding(e.file)

EntriesInv == EntriesInOrder /\ FilesInTime /\ RemovedByCut /\ FilesHold

-----------------------------------------------------------------------------
(* Sequences of entries *)

LEMMA ElementsFacts ==
    ASSUME NEW S, NEW s \in Seq(S)
    PROVE  \A x : x \in Elements(s) <=> \E i \in 1..Len(s) : x = s[i]
BY DEF Elements

LEMMA ConcatElements ==
    ASSUME NEW S, NEW s \in Seq(S), NEW t \in Seq(S)
    PROVE  /\ s \o t \in Seq(S)
           /\ Elements(s \o t) = Elements(s) \cup Elements(t)
<1>1. s \o t \in Seq(S) /\ Len(s \o t) = Len(s) + Len(t)
    OBVIOUS
<1>2. ASSUME NEW i \in 1..Len(s) PROVE s[i] \in Elements(s \o t)
    <2>1. i \in 1..Len(s \o t) /\ (s \o t)[i] = s[i]
        BY <1>1
    <2> QED BY <2>1, <1>1 DEF Elements
<1>3. ASSUME NEW i \in 1..Len(t) PROVE t[i] \in Elements(s \o t)
    <2>1. i + Len(s) \in 1..Len(s \o t) /\ (s \o t)[i + Len(s)] = t[i]
        BY <1>1
    <2> QED BY <2>1, <1>1 DEF Elements
<1>4. Elements(s) \cup Elements(t) \subseteq Elements(s \o t)
    BY <1>2, <1>3, ElementsFacts
<1> QED BY <1>1, <1>4, ConcatFacts

LEMMA AscendingConcat ==
    ASSUME NEW s \in Seq(Entry), NEW t \in Seq(Entry),
           Ascending(s), Ascending(t), Before(s, t)
    PROVE  Ascending(s \o t)
<1> DEFINE w == s \o t
<1>1. w \in Seq(Entry) /\ Len(w) = Len(s) + Len(t)
    OBVIOUS
<1>2. \A i \in 1..Len(w) : \/ i \in 1..Len(s) /\ w[i] = s[i]
                           \/ i - Len(s) \in 1..Len(t) /\ w[i] = t[i - Len(s)]
    OBVIOUS
<1> HIDE DEF w
<1>d. DOMAIN s = 1..Len(s) /\ DOMAIN t = 1..Len(t)
    OBVIOUS
<1>3. ASSUME NEW i \in 1..Len(w), NEW j \in 1..Len(w), i <= j, w[i].blk = w[j].blk
      PROVE  w[i].ver <= w[j].ver
    <2>1. CASE i \in 1..Len(s) /\ w[i] = s[i] /\ j \in 1..Len(s) /\ w[j] = s[j]
        BY <1>d, <2>1, <1>3 DEF Ascending
    <2>2. CASE /\ i - Len(s) \in 1..Len(t) /\ w[i] = t[i - Len(s)]
               /\ j - Len(s) \in 1..Len(t) /\ w[j] = t[j - Len(s)]
        <3>1. i - Len(s) <= j - Len(s)
            BY <1>3
        <3> QED BY <1>d, <2>2, <3>1, <1>3 DEF Ascending
    <2>3. CASE /\ i \in 1..Len(s) /\ w[i] = s[i]
               /\ j - Len(s) \in 1..Len(t) /\ w[j] = t[j - Len(s)]
        <3>1. s[i] \in Elements(s) /\ t[j - Len(s)] \in Elements(t)
            BY <2>3 DEF Elements
        <3> QED BY <2>3, <3>1, <1>3 DEF Before
    <2>4. CASE i - Len(s) \in 1..Len(t) /\ j \in 1..Len(s)
        BY <2>4, <1>3
    <2> QED BY <1>2, <2>1, <2>2, <2>3, <2>4
<1>4. Ascending(w)
    BY <1>1, <1>3 DEF Ascending
<1> QED BY <1>4 DEF w

\* A sequence cut in two.
LEMMA SplitFacts ==
    ASSUME NEW w \in Seq(Entry), NEW k \in 0..Len(w)
    PROVE  LET p == SubSeq(w, 1, k)
               r == SubSeq(w, k + 1, Len(w))
           IN /\ p \in Seq(Entry) /\ r \in Seq(Entry)
              /\ Elements(w) = Elements(p) \cup Elements(r)
              /\ Ascending(w) => Ascending(p) /\ Ascending(r) /\ Before(p, r)
<1> DEFINE p == SubSeq(w, 1, k)
           r == SubSeq(w, k + 1, Len(w))
<1>1. /\ p \in Seq(Entry) /\ Len(p) = k /\ \A i \in 1..k : p[i] = w[i]
      /\ r \in Seq(Entry) /\ Len(r) = Len(w) - k /\ \A i \in 1..Len(w) - k : r[i] = w[i + k]
    OBVIOUS
<1> HIDE DEF p, r
<1>2. Elements(p) \subseteq Elements(w)
    BY <1>1 DEF Elements
<1>3. ASSUME NEW i \in 1..Len(w) - k PROVE r[i] \in Elements(w)
    <2>1. i + k \in 1..Len(w) /\ r[i] = w[i + k]
        BY <1>1
    <2> QED BY <2>1 DEF Elements
<1>4. Elements(r) \subseteq Elements(w)
    BY <1>1, <1>3 DEF Elements
<1>5. ASSUME NEW i \in 1..Len(w) PROVE w[i] \in Elements(p) \cup Elements(r)
    <2>1. CASE i <= k
        BY <1>1, <2>1 DEF Elements
    <2>2. CASE k < i
        <3>1. i - k \in 1..Len(w) - k /\ w[i] = r[i - k]
            BY <1>1, <2>2
        <3> QED BY <3>1, <1>1 DEF Elements
    <2> QED BY <2>1, <2>2
<1>6. Elements(w) = Elements(p) \cup Elements(r)
    BY <1>2, <1>4, <1>5, ElementsFacts
<1>7. ASSUME Ascending(w) PROVE Ascending(p) /\ Ascending(r) /\ Before(p, r)
    <2>1. Ascending(p)
        BY <1>1, <1>7 DEF Ascending
    <2>2. ASSUME NEW i \in 1..Len(w) - k, NEW j \in 1..Len(w) - k, i <= j, r[i].blk = r[j].blk
          PROVE  r[i].ver <= r[j].ver
        <3>1. i + k \in DOMAIN w /\ j + k \in DOMAIN w /\ i + k <= j + k
            BY <2>2
        <3>2. r[i] = w[i + k] /\ r[j] = w[j + k]
            BY <1>1
        <3> QED BY <3>1, <3>2, <2>2, <1>7 DEF Ascending
    <2>3. Ascending(r)
        <3>1. DOMAIN r = 1..Len(w) - k
            BY <1>1
        <3> QED BY <2>2, <3>1 DEF Ascending
    <2>4. ASSUME NEW i \in 1..k, NEW j \in 1..Len(w) - k, p[i].blk = r[j].blk
          PROVE  p[i].ver <= r[j].ver
        <3>1. i \in DOMAIN w /\ j + k \in DOMAIN w /\ i <= j + k
            BY <2>4
        <3>2. p[i] = w[i] /\ r[j] = w[j + k]
            BY <1>1
        <3> QED BY <3>1, <3>2, <2>4, <1>7 DEF Ascending
    <2>5. Before(p, r)
        <3>1. /\ \A x \in Elements(p) : \E i \in 1..k : x = p[i]
              /\ \A y \in Elements(r) : \E j \in 1..Len(w) - k : y = r[j]
            BY <1>1, ElementsFacts
        <3> QED BY <2>4, <3>1 DEF Before
    <2> QED BY <2>1, <2>3, <2>5
<1> QED BY <1>1, <1>6, <1>7 DEF p, r

\* What the three orders take from the elements alone.
LEMMA OrderOfParts ==
    ASSUME NEW d, NEW s, NEW t, NEW u, NEW x,
           Elements(u) = Elements(s) \cup Elements(t)
    PROVE  /\ Before(u, x) <=> Before(s, x) /\ Before(t, x)
           /\ Before(x, u) <=> Before(x, s) /\ Before(x, t)
           /\ UpTo(d, u) <=> UpTo(d, s) /\ UpTo(d, t)
BY Zenon DEF Before, UpTo

LEMMA EmptySequence ==
    ASSUME NEW d, NEW s
    PROVE  /\ <<>> \in Seq(Entry) /\ Elements(<<>>) = {}
           /\ Ascending(<<>>) /\ Before(s, <<>>) /\ Before(<<>>, s) /\ UpTo(d, <<>>)
BY DEF Elements, Ascending, Before, UpTo

-----------------------------------------------------------------------------
(* The steps of the writer on the way of the entries *)

Texts == [Name -> Seq(Entry)]

\* Nothing is in the files after f.
LastIs(t, f) == \A m \in Name : t[m] # <<>> => m <= f

\* What the encoder keeps is written to the last file, up to k.
LEMMA FlowWrite ==
    ASSUME NEW d, NEW t \in Texts, NEW enc \in Seq(Entry), NEW buf \in Seq(Entry),
           Flow(d, t, enc, buf), NEW f \in Name, LastIs(t, f), NEW k \in 0..Len(enc)
    PROVE  Flow(d, [t EXCEPT ![f] = @ \o SubSeq(enc, 1, k)],
                SubSeq(enc, k + 1, Len(enc)), buf)
<1> DEFINE p == SubSeq(enc, 1, k)
           r == SubSeq(enc, k + 1, Len(enc))
           x == t[f] \o p
           u == [t EXCEPT ![f] = x]
<1>1. /\ p \in Seq(Entry) /\ r \in Seq(Entry)
      /\ Elements(enc) = Elements(p) \cup Elements(r)
      /\ Ascending(p) /\ Ascending(r) /\ Before(p, r)
    BY SplitFacts DEF Flow
<1> HIDE DEF p, r
<1>2. x \in Seq(Entry) /\ Elements(x) = Elements(t[f]) \cup Elements(p)
    BY <1>1, ConcatElements DEF Texts
<1>3. /\ \A m \in Name : /\ Ascending(t[m]) /\ UpTo(d, t[m]) /\ Before(t[m], buf)
                         /\ Before(t[m], p) /\ Before(t[m], r)
      /\ UpTo(d, p) /\ UpTo(d, r) /\ Before(p, buf) /\ Before(r, buf)
    <2>1. Elements(enc) = Elements(p) \cup Elements(r)
        BY <1>1
    <2>2. \A z : /\ Before(enc, z) <=> Before(p, z) /\ Before(r, z)
                 /\ Before(z, enc) <=> Before(z, p) /\ Before(z, r)
                 /\ UpTo(d, enc) <=> UpTo(d, p) /\ UpTo(d, r)
        BY <2>1, Zenon DEF Before, UpTo
    <2> QED BY <2>2 DEF Flow
<1>4. /\ Ascending(x) /\ UpTo(d, x) /\ Before(x, r) /\ Before(x, buf)
    <2>1. Ascending(x)
        BY <1>1, <1>3, AscendingConcat DEF Texts
    <2> QED BY <1>1, <1>2, <1>3, <2>1, OrderOfParts
<1> HIDE DEF x
<1>5. u[f] = x /\ \A m \in Name : m # f => u[m] = t[m]
    BY DEF Texts
<1> HIDE DEF u
<1>6. ASSUME NEW m \in Name, NEW n \in Name, m < n PROVE Before(u[m], u[n])
    <2>1. Before(t[m], t[n])
        BY <1>6 DEF Flow
    <2>2. CASE n = f
        <3>1. u[m] = t[m] /\ u[n] = x
            BY <1>5, <1>6, <2>2 DEF Name
        <3>2. Before(t[m], x)
            BY <1>2, <1>3, <2>1, <2>2, OrderOfParts
        <3> QED BY <3>1, <3>2
    <2>3. CASE m = f
        <3>1. t[n] = <<>> /\ u[n] = t[n]
            BY <1>5, <1>6, <2>3 DEF LastIs, Name
        <3> QED BY <3>1, EmptySequence
    <2> QED BY <1>5, <2>1, <2>2, <2>3
<1>7. Flow(d, u, r, buf)
    BY <1>1, <1>3, <1>4, <1>5, <1>6 DEF Flow
<1> QED BY <1>7 DEF u, x, p, r

\* The first k entries of the encoder are lost.
LEMMA FlowDrop ==
    ASSUME NEW d, NEW t \in Texts, NEW enc \in Seq(Entry), NEW buf \in Seq(Entry),
           Flow(d, t, enc, buf), NEW k \in 0..Len(enc)
    PROVE  Flow(d, t, SubSeq(enc, k + 1, Len(enc)), buf)
<1> DEFINE p == SubSeq(enc, 1, k)
           r == SubSeq(enc, k + 1, Len(enc))
<1>1. /\ p \in Seq(Entry) /\ r \in Seq(Entry)
      /\ Elements(enc) = Elements(p) \cup Elements(r)
      /\ Ascending(p) /\ Ascending(r) /\ Before(p, r)
    BY SplitFacts DEF Flow
<1> HIDE DEF p, r
<1>2. Flow(d, t, r, buf)
    <2>1. Elements(enc) = Elements(p) \cup Elements(r)
        BY <1>1
    <2>2. \A z : /\ Before(enc, z) <=> Before(p, z) /\ Before(r, z)
                 /\ Before(z, enc) <=> Before(z, p) /\ Before(z, r)
                 /\ UpTo(d, enc) <=> UpTo(d, p) /\ UpTo(d, r)
        BY <2>1, Zenon DEF Before, UpTo
    <2> QED BY <1>1, <2>2 DEF Flow
<1> QED BY <1>2 DEF r

\* All that the encoder keeps is lost.
LEMMA FlowLose ==
    ASSUME NEW d, NEW t \in Texts, NEW enc \in Seq(Entry), NEW buf \in Seq(Entry),
           Flow(d, t, enc, buf)
    PROVE  Flow(d, t, <<>>, buf)
<1>1. /\ Len(enc) \in 0..Len(enc)
      /\ SubSeq(enc, Len(enc) + 1, Len(enc)) = <<>>
    OBVIOUS
<1>2. Flow(d, t, SubSeq(enc, Len(enc) + 1, Len(enc)), buf)
    BY <1>1, FlowDrop
<1> QED BY <1>1, <1>2

\* The buffer goes to the encoder.
LEMMA FlowLoad ==
    ASSUME NEW d, NEW t \in Texts, NEW enc \in Seq(Entry), NEW buf \in Seq(Entry),
           Flow(d, t, enc, buf)
    PROVE  Flow(d, t, enc \o buf, <<>>)
<1>1. enc \o buf \in Seq(Entry) /\ Elements(enc \o buf) = Elements(enc) \cup Elements(buf)
    BY ConcatElements
<1>2. Ascending(enc \o buf)
    BY AscendingConcat DEF Flow
<1>3. /\ UpTo(d, enc \o buf)
      /\ \A m \in Name : Before(t[m], enc \o buf)
    BY <1>1, OrderOfParts DEF Flow
<1> QED BY <1>2, <1>3, EmptySequence DEF Flow

\* A file is truncated.
LEMMA FlowTruncate ==
    ASSUME NEW d, NEW t \in Texts, NEW enc, NEW buf, Flow(d, t, enc, buf), NEW f \in Name
    PROVE  Flow(d, [t EXCEPT ![f] = <<>>], enc, buf)
<1> DEFINE u == [t EXCEPT ![f] = <<>>]
<1>1. \A m \in Name : u[m] = IF m = f THEN <<>> ELSE t[m]
    BY DEF Texts
<1> HIDE DEF u
<1>2. Flow(d, u, enc, buf)
    BY <1>1, EmptySequence DEF Flow
<1> QED BY <1>2 DEF u

\* The content the disk has goes to the end of the buffer.
LEMMA FlowBuffer ==
    ASSUME TypeOK, EntriesInOrder, NEW h, NEW b \in Block
    PROVE  Flow(disk, Contents(bak), writer.enc, Buffered(h, b))
<1> DEFINE one == <<[blk |-> b, ver |-> disk[b]]>>
           x == [blk |-> b, ver |-> disk[b]]
<1>1. /\ Contents(bak) \in Texts
      /\ writer.enc \in Seq(Entry) /\ writer.buf \in Seq(Entry)
      /\ Flow(disk, Contents(bak), writer.enc, writer.buf)
    BY DEF TypeOK, Backup, Contents, Texts, EntriesInOrder
<1>2. x \in Entry
    BY DEF TypeOK, Entry
<1>3. one \in Seq(Entry) /\ Elements(one) = {x}
    BY <1>2 DEF Elements
<1>4. Ascending(one) /\ UpTo(disk, one)
    <2>1. DOMAIN one = {1} /\ one[1] = x /\ x.ver = disk[b] /\ x.blk = b /\ disk[b] \in Nat
        BY <1>2 DEF TypeOK
    <2> QED BY <2>1, <1>3 DEF Ascending, UpTo
<1>5. ASSUME NEW s, UpTo(disk, s) PROVE Before(s, one)
    BY <1>3, <1>5 DEF Before, UpTo
<1>6. CASE Buffered(h, b) = writer.buf \o one
    <2> HIDE DEF one, x
    <2> DEFINE y == writer.buf \o one
    <2>1. y \in Seq(Entry) /\ Elements(y) = Elements(writer.buf) \cup Elements(one)
        BY <1>1, <1>3, ConcatElements
    <2>2. Ascending(y)
        BY <1>1, <1>3, <1>4, <1>5, AscendingConcat DEF Flow
    <2> HIDE DEF y
    <2>3. /\ UpTo(disk, y) /\ Before(writer.enc, y)
          /\ \A m \in Name : Before(Contents(bak)[m], y)
        BY <1>1, <1>4, <1>5, <2>1, OrderOfParts DEF Flow
    <2>4. Flow(disk, Contents(bak), writer.enc, y)
        BY <1>1, <2>2, <2>3 DEF Flow
    <2> QED BY <1>6, <2>4 DEF y
<1>7. CASE Buffered(h, b) = writer.buf \o <<>>
    <2>1. writer.buf \o <<>> = writer.buf
        BY <1>1
    <2> QED BY <1>1, <1>7, <2>1
<1> QED BY <1>6, <1>7 DEF Buffered

-----------------------------------------------------------------------------
(* The steps *)

LEMMA FileTypes ==
    ASSUME TypeOK
    PROVE  /\ Contents(bak) \in Texts
           /\ writer.enc \in Seq(Entry) /\ writer.buf \in Seq(Entry)
           /\ writer.file \in Name \cup {NoFile} /\ NoFile \notin Name
           /\ \A m \in Name : /\ m \in Nat /\ bak[m].data \in Seq(Entry)
                              /\ bak[m].at \in Stamp /\ Contents(bak)[m] = bak[m].data
           /\ now \in Nat /\ now \in Stamp /\ now # Never /\ MinuteOf(now) \in Name
           /\ cut \in Int /\ (cut # Never => cut \in Nat)
           /\ cleaner.latest \in Int
<1>1. /\ \A m \in Name : bak[m].data \in Seq(Entry) /\ bak[m].at \in Stamp
      /\ writer.enc \in Seq(Entry) /\ writer.buf \in Seq(Entry)
      /\ writer.file \in Name \cup {NoFile}
    BY DEF TypeOK, Backup
<1>2. NoFile \notin Name /\ Name \subseteq Nat /\ Time \subseteq Nat
    BY SizeAssumption DEF NoFile, Name, Time
<1>3. now \in Nat /\ now \in Stamp /\ now # Never /\ MinuteOf(now) \in Name
    BY <1>2, MinuteIsName DEF TypeOK, Stamp, Never
<1>4. cut \in Int /\ (cut # Never => cut \in Nat) /\ cleaner.latest \in Int
    <2>1. \A t \in Stamp : t \in Int /\ (t # Never => t \in Nat)
        BY <1>2 DEF Stamp, Never
    <2>2. cut \in Stamp /\ cleaner.latest \in Stamp
        BY DEF TypeOK
    <2> QED BY <2>1, <2>2
<1> QED BY <1>1, <1>2, <1>3, <1>4 DEF Contents, Texts

\* The files once s was written to the open one.
LEMMA AppendedFacts ==
    ASSUME TypeOK, NEW s \in Seq(Entry), NEW f \in Name, f = writer.file
    PROVE  /\ \A m \in Name : m # f => Appended(s)[m] = bak[m]
           /\ bak[f].at = Never => Appended(s)[f] = bak[f]
           /\ bak[f].at # Never => /\ Appended(s)[f].data = bak[f].data \o s
                                  /\ Appended(s)[f].at \in {bak[f].at, now}
<1> DEFINE text == bak[f].data \o s
<1>1. bak[f].data \in Seq(Entry)
    BY FileTypes
<1>2. CASE s = <<>>
    <2>1. Appended(s) = bak /\ bak[f].data \o s = bak[f].data
        BY <1>1, <1>2 DEF Appended
    <2> QED BY <2>1
<1>3. CASE s # <<>>
    <2>1. /\ Appended(s)[f] = Emit(bak[f], s)
          /\ \A m \in Name : m # f => Appended(s)[m] = bak[m]
        BY <1>3 DEF Appended, TypeOK
    <2>2. bak[f].at # Never => Appended(s)[f] = [at |-> now, data |-> text]
        BY <2>1 DEF Emit
    <2>3. bak[f].at = Never => Appended(s)[f] = bak[f]
        BY <2>1 DEF Emit
    <2>4. bak[f].at # Never => Appended(s)[f].data = text /\ Appended(s)[f].at = now
        <3> HIDE DEF text
        <3> QED BY <2>2
    <2> QED BY <2>1, <2>3, <2>4
<1> QED BY <1>2, <1>3

\* The files once the open one is closed: what the encoder kept is written to
\* its j-th entry.
LEMMA ClosedFacts ==
    ASSUME TypeOK, NEW j \in Closable, NEW m \in Name
    PROVE  /\ Closed(j)[m].at = Never <=> bak[m].at = Never
           /\ Closed(j)[m].at \in {bak[m].at, now}
           /\ bak[m].at = Never \/ m # writer.file => Closed(j)[m] = bak[m]
           /\ bak[m].at # Never /\ m = writer.file =>
                  Closed(j)[m].data = bak[m].data \o SubSeq(writer.enc, 1, j)
<1> DEFINE p == SubSeq(writer.enc, 1, j)
           text == bak[m].data \o p
<1>1. /\ writer.enc \in Seq(Entry) /\ bak[m].data \in Seq(Entry) /\ p \in Seq(Entry)
      /\ j = 0 => p = <<>>
      /\ now # Never
    BY ClosableFacts, FileTypes
<1>2. CASE m # writer.file \/ Closed(j) = bak
    <2>1. Closed(j)[m] = bak[m]
        BY <1>2, FileTypes DEF Closed, TypeOK
    <2>2. CASE m # writer.file
        BY <2>1, <2>2
    <2>3. CASE m = writer.file /\ p = <<>>
        <3>1. bak[m].data \o <<>> = bak[m].data
            BY <1>1
        <3> QED BY <2>1, <2>3, <3>1
    <2>4. CASE m = writer.file /\ Closed(j) = bak /\ p # <<>>
        <3>1. ~ (writer.file = NoFile \/ writer.bad \/ (j = 0 /\ writer.enc # <<>>))
            BY <1>1, <2>4, FileTypes DEF Closable
        <3>2. Closed(j)[m] = Emit(bak[m], p)
            BY <2>4, <3>1 DEF Closed, TypeOK
        <3>3. CASE bak[m].at = Never
            BY <2>1, <3>3
        <3>4. CASE bak[m].at # Never
            <4>1. Closed(j)[m] = [at |-> now, data |-> text]
                BY <3>2, <3>4 DEF Emit
            <4>2. Closed(j)[m].data = text
                <5> HIDE DEF text
                <5> QED BY <4>1
            <4> QED BY <2>1, <4>2
        <3> QED BY <3>3, <3>4
    <2> QED BY <1>2, <2>2, <2>3, <2>4
<1>3. CASE m = writer.file /\ Closed(j) # bak
    <2>1. Closed(j)[m] = Emit(bak[m], p)
        BY <1>3 DEF Closed, TypeOK
    <2>2. CASE bak[m].at = Never
        BY <2>1, <2>2 DEF Emit
    <2>3. CASE bak[m].at # Never
        <3>1. Closed(j)[m] = [at |-> now, data |-> text]
            BY <2>1, <2>3 DEF Emit
        <3>2. Closed(j)[m].at = now /\ Closed(j)[m].data = text
            <4> HIDE DEF text
            <4> QED BY <3>1
        <3> QED BY <1>1, <1>3, <2>3, <3>2
    <2> QED BY <2>2, <2>3
<1> QED BY <1>2, <1>3

LEMMA ClosedOrder ==
    ASSUME TypeOK, FilesInTime, NEW buf \in Seq(Entry), NEW j \in Closable,
           Flow(disk, Contents(bak), writer.enc, buf)
    PROVE  /\ Contents(Closed(j)) \in Texts
           /\ Flow(disk, Contents(Closed(j)), <<>>, buf)
<1> DEFINE t == Contents(bak)
           f == writer.file
           p == SubSeq(writer.enc, 1, j)
           q == SubSeq(writer.enc, j + 1, Len(writer.enc))
<1>0. /\ t \in Texts /\ writer.enc \in Seq(Entry) /\ j \in 0..Len(writer.enc)
      /\ p \in Seq(Entry) /\ q \in Seq(Entry)
    BY FileTypes, ClosableFacts
<1>1. Contents(Closed(j)) \in Texts
    BY ClosedType DEF Contents, Texts, Backup
<1>2. CASE f = NoFile \/ bak[f].at = Never
    <2>1. \A m \in Name : Closed(j)[m] = bak[m]
        <3>1. ASSUME NEW m \in Name PROVE bak[m].at = Never \/ m # writer.file
            BY <1>2, FileTypes
        <3> QED BY <3>1, ClosedFacts
    <2>2. Contents(Closed(j)) = t
        BY <2>1 DEF Contents
    <2>3. Flow(disk, t, <<>>, buf)
        BY <1>0, FlowLose
    <2> QED BY <1>1, <2>2, <2>3
<1>3. CASE f \in Name /\ bak[f].at # Never
    <2>1. LastIs(t, f)
        BY <1>3, FileTypes DEF LastIs, FilesInTime
    <2>2. Flow(disk, [t EXCEPT ![f] = @ \o p], q, buf)
        BY <1>0, <1>3, <2>1, FlowWrite
    <2>3. ASSUME NEW m \in Name
          PROVE  Closed(j)[m].data = IF m = f THEN t[m] \o p ELSE t[m]
        <3>1. t[m] = bak[m].data
            BY FileTypes
        <3>2. CASE m = f
            BY <1>3, <3>1, <3>2, ClosedFacts
        <3>3. CASE m # f
            BY <3>1, <3>3, ClosedFacts
        <3> QED BY <3>2, <3>3
    <2>4. Contents(Closed(j)) = [t EXCEPT ![f] = @ \o p]
        BY <2>3 DEF Contents
    <2>5. Flow(disk, Contents(Closed(j)), q, buf)
        BY <2>2, <2>4
    <2> HIDE DEF p, q
    <2> QED BY <1>0, <1>1, <2>5, FlowLose
<1> QED BY <1>2, <1>3, FileTypes

\* Files that are closed hold what was captured and not lost on closing.
LEMMA ClosedHolds ==
    ASSUME TypeOK, EncoderCaptured, FilesInTime, FilesHold, NEW j \in Closable
    PROVE  /\ \A m \in Name : Captured(Closed(j)[m].data, m) \subseteq captured
           /\ \A m \in Name : Closed(j)[m].data # <<>> => m <= MinuteOf(now)
           /\ \A m \in Name : Closed(j)[m].at # Never => m <= MinuteOf(Closed(j)[m].at)
           /\ \A e \in captured \ (gone \cup Unwritten(j)) :
                 Fresh(e.file) => /\ Closed(j)[e.file].at # Never
                                  /\ [blk |-> e.blk, ver |-> e.ver]
                                        \in Elements(Closed(j)[e.file].data)
<1> DEFINE p == SubSeq(writer.enc, 1, j)
           q == SubSeq(writer.enc, j + 1, Len(writer.enc))
<1>0. /\ p \in Seq(Entry) /\ q \in Seq(Entry)
      /\ Elements(writer.enc) = Elements(p) \cup Elements(q)
    <2>1. writer.enc \in Seq(Entry) /\ j \in 0..Len(writer.enc)
        BY FileTypes, ClosableFacts
    <2> QED BY <2>1, SplitFacts
<1>d. ASSUME NEW m \in Name, bak[m].at # Never, m = writer.file
      PROVE  Elements(Closed(j)[m].data) = Elements(bak[m].data) \cup Elements(p)
    <2>1. Closed(j)[m].data = bak[m].data \o p /\ bak[m].data \in Seq(Entry)
        BY <1>d, ClosedFacts, FileTypes
    <2> HIDE DEF p
    <2>2. Elements(bak[m].data \o p) = Elements(bak[m].data) \cup Elements(p)
        BY <1>0, <2>1, ConcatElements
    <2> QED BY <2>1, <2>2
<1>u. Unwritten(j) = Captured(q, writer.file)
    BY DEF Unwritten
<1> HIDE DEF p, q
<1>1. ASSUME NEW m \in Name PROVE Captured(Closed(j)[m].data, m) \subseteq captured
    <2>1. CASE bak[m].at = Never \/ m # writer.file
        BY <2>1, ClosedFacts DEF FilesHold
    <2>2. CASE bak[m].at # Never /\ m = writer.file
        <3>1. Elements(Closed(j)[m].data) \subseteq Elements(bak[m].data) \cup Elements(writer.enc)
            BY <1>0, <1>d, <2>2
        <3>2. /\ Captured(bak[m].data, m) \subseteq captured
              /\ Captured(writer.enc, m) \subseteq captured
            BY <2>2 DEF FilesHold, EncoderCaptured
        <3> QED BY <3>1, <3>2 DEF Captured
    <2> QED BY <2>1, <2>2
<1>2. ASSUME NEW m \in Name
      PROVE  /\ Closed(j)[m].data # <<>> => m <= MinuteOf(now)
             /\ Closed(j)[m].at # Never => m <= MinuteOf(Closed(j)[m].at)
    <2>1. CASE bak[m].at = Never \/ m # writer.file
        BY <2>1, ClosedFacts DEF FilesInTime
    <2>2. CASE bak[m].at # Never /\ m = writer.file
        <3>1. Closed(j)[m].at \in {bak[m].at, now}
            BY ClosedFacts
        <3> QED BY <2>2, <3>1 DEF FilesInTime
    <2> QED BY <2>1, <2>2
<1>3. ASSUME NEW e \in captured \ (gone \cup Unwritten(j)), Fresh(e.file)
      PROVE  /\ Closed(j)[e.file].at # Never
             /\ [blk |-> e.blk, ver |-> e.ver] \in Elements(Closed(j)[e.file].data)
    <2>1. e.file \in Name /\ e = [blk |-> e.blk, ver |-> e.ver, file |-> e.file]
        BY DEF TypeOK
    <2>2. bak[e.file].at # Never /\ [blk |-> e.blk, ver |-> e.ver] \in Holding(e.file)
        BY <1>3 DEF FilesHold
    <2>3. Closed(j)[e.file].at # Never
        BY <2>1, <2>2, ClosedFacts
    <2>4. CASE e.file # writer.file
        <3>1. Closed(j)[e.file] = bak[e.file]
            BY <2>1, <2>4, ClosedFacts
        <3> QED BY <2>2, <2>4, <3>1 DEF Holding
    <2>5. CASE e.file = writer.file
        <3>1. [blk |-> e.blk, ver |-> e.ver] \in Elements(bak[e.file].data) \cup Elements(writer.enc)
            BY <2>2, <2>5 DEF Holding
        <3>2. [blk |-> e.blk, ver |-> e.ver] \notin Elements(q)
            <4>1. SUFFICES ASSUME [blk |-> e.blk, ver |-> e.ver] \in Elements(q) PROVE FALSE
                OBVIOUS
            <4>2. [blk |-> e.blk, ver |-> e.ver, file |-> e.file] \in Captured(q, e.file)
                BY <4>1 DEF Captured
            <4> QED BY <1>u, <2>1, <2>5, <4>2
        <3>3. [blk |-> e.blk, ver |-> e.ver] \in Elements(bak[e.file].data) \cup Elements(p)
            BY <1>0, <3>1, <3>2
        <3> QED BY <1>d, <2>1, <2>2, <2>3, <2>5, <3>3
    <2> QED BY <2>3, <2>4, <2>5
<1> QED BY <1>1, <1>2, <1>3

\* A flush within the minute of the open file: the encoder gets w, holding what
\* it had and the entries s, writes k of it, and keeps or loses the rest.
LEMMA OpenFileEntries ==
    ASSUME TypeOK, EncoderCaptured, EntriesInv, writer.file = MinuteOf(now),
           NEW w \in Seq(Entry), NEW s \in Seq(Entry), NEW k \in 0..Len(w),
           NEW buf \in Seq(Entry),
           Elements(w) = Elements(writer.enc) \cup Elements(s),
           Flow(disk, Contents(bak), w, buf),
           writer'.file = writer.file, writer'.buf = buf,
           \/ writer'.enc = SubSeq(w, k + 1, Len(w))
           \/ /\ writer'.enc = <<>>
              /\ Captured(SubSeq(w, k + 1, Len(w)), writer.file) \subseteq gone',
           bak' = Appended(SubSeq(w, 1, k)),
           captured' = captured \cup Captured(s, writer.file),
           gone \subseteq gone',
           UNCHANGED <<now, disk, cleaner, cut>>
    PROVE  EntriesInv'
<1> DEFINE f == writer.file
           t == Contents(bak)
           p == SubSeq(w, 1, k)
           r == SubSeq(w, k + 1, Len(w))
<1>1. f \in Name /\ f = MinuteOf(now)
    BY FileTypes
<1>2. /\ p \in Seq(Entry) /\ r \in Seq(Entry)
      /\ Elements(w) = Elements(p) \cup Elements(r)
    BY SplitFacts
<1>3. /\ \A m \in Name : m # f => bak'[m] = bak[m]
      /\ bak[f].at = Never => bak'[f] = bak[f]
      /\ bak[f].at # Never => /\ bak'[f].data = bak[f].data \o p
                              /\ bak'[f].at \in {bak[f].at, now}
    BY <1>1, <1>2, AppendedFacts
<1>4. /\ LastIs(t, f) => Flow(disk, [t EXCEPT ![f] = @ \o p], r, buf)
      /\ Flow(disk, t, r, buf)
    BY <1>1, FlowWrite, FlowDrop, FileTypes
<1>5. writer'.enc = r \/ (writer'.enc = <<>> /\ Captured(r, f) \subseteq gone')
    OBVIOUS
<1> HIDE DEF p, r
<1>8. bak'[f].at # Never <=> bak[f].at # Never
    BY <1>1, <1>3, FileTypes
<1>e. ASSUME NEW u \in Texts, Flow(disk, u, r, buf) PROVE Flow(disk, u, writer'.enc, buf)
    <2>1. Flow(disk, u, <<>>, buf)
        BY <1>2, <1>e, FlowLose
    <2> QED BY <1>5, <1>e, <2>1
<1>9. EntriesInOrder'
    <2>0. t \in Texts
        BY FileTypes
    <2>1. CASE bak[f].at = Never
        <3>1. Contents(bak') = t
            BY <1>3, <2>1 DEF Contents
        <3>2. Flow(disk, t, writer'.enc, buf)
            BY <1>4, <1>e, <2>0
        <3> QED BY <3>1, <3>2 DEF EntriesInOrder, Contents
    <2>2. CASE bak[f].at # Never
        <3>1. \A m \in Name : bak'[m].data = IF m = f THEN t[m] \o p ELSE t[m]
            BY <1>3, <2>2, FileTypes
        <3>2. Contents(bak') = [t EXCEPT ![f] = @ \o p]
            BY <3>1 DEF Contents
        <3>3. LastIs(t, f)
            BY <1>1, FileTypes DEF LastIs, EntriesInv, FilesInTime
        <3>4. [t EXCEPT ![f] = @ \o p] \in Texts
            <4>1. t[f] \o p \in Seq(Entry)
                BY <1>1, <1>2, <2>0, ConcatElements DEF Texts
            <4> QED BY <2>0, <4>1 DEF Texts
        <3>5. Flow(disk, [t EXCEPT ![f] = @ \o p], writer'.enc, buf)
            BY <1>4, <1>e, <3>3, <3>4
        <3> QED BY <3>2, <3>5 DEF EntriesInOrder, Contents
    <2> QED BY <2>1, <2>2
<1>10. FilesInTime'
    <2>1. ASSUME NEW m \in Name
          PROVE  /\ bak'[m].data # <<>> => m <= f
                 /\ bak'[m].at # Never => m <= MinuteOf(bak'[m].at)
        <3>1. CASE m = f
            BY <3>1, <1>1, <1>3, <1>8, FileTypes DEF EntriesInv, FilesInTime
        <3>2. CASE m # f
            BY <3>2, <1>1, <1>3, FileTypes DEF EntriesInv, FilesInTime
        <3> QED BY <3>1, <3>2
    <2> QED BY <1>1, <2>1, FileTypes DEF FilesInTime
<1>11. RemovedByCut'
    BY <1>8 DEF EntriesInv, RemovedByCut, Fresh
<1>12. ASSUME NEW m \in Name PROVE Captured(bak'[m].data, m) \subseteq captured'
    <2>1. Captured(bak[m].data, m) \subseteq captured
        BY DEF EntriesInv, FilesHold
    <2>2. CASE bak'[m].data = bak[m].data
        BY <2>1, <2>2
    <2>3. CASE m = f /\ bak'[m].data = bak[m].data \o p
        <3>0. bak[m].data \in Seq(Entry) /\ p \in Seq(Entry)
            BY <1>2, FileTypes
        <3>4. Elements(bak[m].data \o p) = Elements(bak[m].data) \cup Elements(p)
            BY <3>0, ConcatElements
        <3>1. Elements(bak'[m].data) = Elements(bak[m].data) \cup Elements(p)
            BY <2>3, <3>4
        <3>2. Elements(bak'[m].data) \subseteq
                 Elements(bak[m].data) \cup Elements(writer.enc) \cup Elements(s)
            BY <3>1, <1>2
        <3>3. Captured(writer.enc, m) \subseteq captured
            BY <2>3 DEF EncoderCaptured
        <3> QED BY <2>1, <2>3, <3>2, <3>3 DEF Captured
    <2> QED BY <1>3, <2>2, <2>3
<1>13. ASSUME bak[f].at # Never
       PROVE  Elements(bak'[f].data) \cup Elements(r)
                 = Elements(bak[f].data) \cup Elements(writer.enc) \cup Elements(s)
    <2>1. bak[f].data \in Seq(Entry) /\ bak'[f].data = bak[f].data \o p
        BY <1>1, <1>3, <1>13, FileTypes
    <2>2. Elements(bak[f].data \o p) = Elements(bak[f].data) \cup Elements(p)
        BY <1>2, <2>1, ConcatElements
    <2>3. Elements(bak'[f].data) = Elements(bak[f].data) \cup Elements(p)
        BY <2>1, <2>2
    <2> QED BY <1>2, <2>3
<1>14. ASSUME NEW c \in captured' \ gone', Fresh(c.file)'
       PROVE  bak'[c.file].at # Never /\ [blk |-> c.blk, ver |-> c.ver] \in Holding(c.file)'
    <2>1. Fresh(c.file) /\ c \notin gone
        BY <1>14 DEF Fresh
    <2> DEFINE x == [blk |-> c.blk, ver |-> c.ver]
    <2>2. CASE c \in captured /\ c.file # f
        <3>1. /\ bak[c.file].at # Never /\ x \in Holding(c.file) /\ c.file \in Name
            BY <1>14, <2>1, <2>2 DEF EntriesInv, FilesHold, TypeOK
        <3> QED BY <1>3, <2>2, <3>1 DEF Holding
    <2>3. ASSUME c.file = f, bak[f].at # Never,
                 c = [blk |-> c.blk, ver |-> c.ver, file |-> f],
                 x \in Elements(bak[f].data) \cup Elements(writer.enc) \cup Elements(s)
          PROVE  bak'[f].at # Never /\ x \in Holding(f)'
        <3>1. x \in Elements(bak'[f].data) \cup Elements(r)
            BY <1>13, <2>3
        <3>2. CASE writer'.enc = r
            BY <1>8, <2>3, <3>1, <3>2 DEF Holding
        <3>3. CASE Captured(r, f) \subseteq gone'
            <4>1. x \notin Elements(r)
                <5>1. SUFFICES ASSUME x \in Elements(r) PROVE FALSE
                    OBVIOUS
                <5>2. [blk |-> x.blk, ver |-> x.ver, file |-> f] \in Captured(r, f)
                    BY <5>1 DEF Captured
                <5> QED BY <1>14, <2>3, <3>3, <5>2
            <4> QED BY <1>8, <2>3, <3>1, <4>1 DEF Holding
        <3> QED BY <1>5, <3>2, <3>3
    <2>4. CASE c \in captured /\ c.file = f
        <3>1. bak[f].at # Never /\ x \in Holding(f)
            BY <1>14, <2>1, <2>4 DEF EntriesInv, FilesHold
        <3>2. x \in Elements(bak[f].data) \cup Elements(writer.enc)
            BY <3>1 DEF Holding
        <3>3. c = [blk |-> c.blk, ver |-> c.ver, file |-> f]
            BY <2>4 DEF TypeOK
        <3> QED BY <2>3, <2>4, <3>1, <3>2, <3>3
    <2>5. CASE c \in Captured(s, f)
        <3>1. PICK y \in Elements(s) : c = [blk |-> y.blk, ver |-> y.ver, file |-> f]
            BY <2>5 DEF Captured
        <3>2. y \in Entry
            BY ElementsFacts
        <3>3. x = y /\ c.file = f /\ c = [blk |-> c.blk, ver |-> c.ver, file |-> f]
            BY <3>1, <3>2 DEF Entry
        <3>4. bak[f].at # Never
            BY <1>1, <2>1, <3>3, FileTypes DEF EntriesInv, RemovedByCut
        <3> QED BY <2>3, <3>1, <3>3, <3>4
    <2> QED BY <1>14, <2>2, <2>4, <2>5
<1>15. FilesHold'
    BY <1>12, <1>14 DEF FilesHold
<1> QED BY <1>9, <1>10, <1>11, <1>15 DEF EntriesInv

LEMMA FlushSameEntries ==
    ASSUME TypeOK, EncoderCaptured, EntriesInv, NEW e \in cst,
           FlushSame(e) \/ LoseFlush(e)
    PROVE  EntriesInv'
<1> DEFINE s == Buffered(Compared, e.blk)
           w == writer.enc \o s
<1>1. /\ e.blk \in Block /\ writer.file = MinuteOf(now)
      /\ captured' = captured \cup Captured(s, writer.file)
      /\ UNCHANGED <<now, disk, cleaner, cut>>
    BY DEF FlushSame, LoseFlush, TypeOK, Record
<1>2. s \in Seq(Entry) /\ Flow(disk, Contents(bak), writer.enc, s)
    BY <1>1, BufferedType, FlowBuffer DEF EntriesInv
<1>3. w \in Seq(Entry)
    BY <1>2, ConcatElements, FileTypes
<1>4. PICK k \in 0..Len(w) :
         /\ bak' = Appended(SubSeq(w, 1, k))
         /\ \/ /\ writer' = [writer EXCEPT !.enc = SubSeq(w, k + 1, Len(w)), !.buf = <<>>]
               /\ gone' = gone
            \/ /\ writer' = [writer EXCEPT !.enc = <<>>, !.buf = <<>>, !.bad = TRUE]
               /\ gone' = gone \cup Captured(SubSeq(w, k + 1, Len(w)), writer.file)
    <2>1. CASE FlushSame(e)
        BY <2>1 DEF FlushSame
    <2>2. CASE LoseFlush(e)
        <3> HIDE DEF w
        <3>1. Len(w) \in Nat
            BY <1>3
        <3>2. (IF writer.bad THEN {0} ELSE 0..Len(w)) \subseteq 0..Len(w)
            BY <3>1
        <3> QED BY <2>2, <3>2 DEF LoseFlush, w
    <2> QED BY <2>1, <2>2
<1> HIDE DEF s
<1>5. /\ Elements(w) = Elements(writer.enc) \cup Elements(s)
      /\ Flow(disk, Contents(bak), w, <<>>)
    BY <1>2, ConcatElements, FlowLoad, FileTypes
<1> HIDE DEF w
<1>6. /\ writer'.file = writer.file /\ writer'.buf = <<>>
      /\ \/ writer'.enc = SubSeq(w, k + 1, Len(w))
         \/ /\ writer'.enc = <<>>
            /\ Captured(SubSeq(w, k + 1, Len(w)), writer.file) \subseteq gone'
      /\ gone \subseteq gone'
    BY <1>4 DEF TypeOK
<1>7. <<>> \in Seq(Entry)
    BY EmptySequence
<1> QED BY <1>1, <1>2, <1>3, <1>4, <1>5, <1>6, <1>7, OpenFileEntries

LEMMA FailFlushEntries ==
    ASSUME TypeOK, EncoderCaptured, EntriesInv, NEW e \in cst, FailFlush(e)
    PROVE  EntriesInv'
<1> DEFINE s == Buffered(Compared, e.blk)
<1>1. /\ e.blk \in Block /\ writer.file = MinuteOf(now)
      /\ writer' = [writer EXCEPT !.enc = <<>>, !.bad = TRUE, !.buf = s]
      /\ UNCHANGED <<now, disk, cleaner, captured, cut>>
    BY DEF FailFlush, TypeOK, Record
<1>2. s \in Seq(Entry) /\ Flow(disk, Contents(bak), writer.enc, s)
    BY <1>1, BufferedType, FlowBuffer DEF EntriesInv
<1>3. PICK k \in 0..Len(writer.enc) : /\ bak' = Appended(SubSeq(writer.enc, 1, k))
                                     /\ gone' = gone \cup Unwritten(k)
    <2>1. (IF writer.bad THEN {0} ELSE 0..Len(writer.enc)) \subseteq 0..Len(writer.enc)
        BY FileTypes
    <2> QED BY <2>1 DEF FailFlush
<1> HIDE DEF s
<1>4. /\ writer'.file = writer.file /\ writer'.buf = s /\ writer'.enc = <<>>
      /\ Captured(SubSeq(writer.enc, k + 1, Len(writer.enc)), writer.file) \subseteq gone'
      /\ gone \subseteq gone'
    BY <1>1, <1>3 DEF TypeOK, Unwritten
<1>5. /\ <<>> \in Seq(Entry) /\ writer.enc \in Seq(Entry)
      /\ Elements(writer.enc) = Elements(writer.enc) \cup Elements(<<>>)
      /\ captured' = captured \cup Captured(<<>>, writer.file)
    BY <1>1, EmptySequence, FileTypes DEF Captured
<1> QED BY <1>1, <1>2, <1>3, <1>4, <1>5, OpenFileEntries

LEMMA FlushRotateEntries ==
    ASSUME TypeOK, EncoderCaptured, EntriesInv, NEW e \in cst, FlushRotate(e)
    PROVE  EntriesInv'
<1> DEFINE h == Compared
           s == Buffered(h, e.blk)
           m == MinuteOf(now)
<1>1. PICK k \in 0..Len(s), j \in Closable :
         /\ writer' = [file |-> m, enc |-> SubSeq(s, k + 1, Len(s)),
                       buf |-> <<>>, handle |-> h, bad |-> FALSE]
         /\ bak' = [Closed(j) EXCEPT ![m] = [at |-> now, data |-> SubSeq(s, 1, k)]]
         /\ gone' = gone \cup {c \in captured : c.file = m} \cup Unwritten(j)
    BY DEF FlushRotate
<1> DEFINE C == Closed(j)
           t == Contents(C)
<1>2. /\ e.blk \in Block /\ m # writer.file /\ m \in Name /\ m \in Nat
      /\ captured' = captured \cup Captured(s, m)
      /\ UNCHANGED <<now, disk, cleaner, cut>>
    BY FileTypes DEF FlushRotate, TypeOK, Record
<1>3. s \in Seq(Entry) /\ Flow(disk, Contents(bak), writer.enc, s)
    BY <1>2, BufferedType, FlowBuffer DEF EntriesInv
<1> HIDE DEF s, h
<1>4. t \in Texts /\ Flow(disk, t, <<>>, s) /\ C \in [Name -> Backup]
    BY <1>3, ClosedOrder, ClosedType DEF EntriesInv
<1>5. Flow(disk, t, s, <<>>)
    <2>1. <<>> \o s = s /\ <<>> \in Seq(Entry)
        BY <1>3
    <2>2. Flow(disk, t, <<>> \o s, <<>>)
        BY <1>3, <1>4, <2>1, FlowLoad
    <2> QED BY <2>1, <2>2
<1> DEFINE p == SubSeq(s, 1, k)
           r == SubSeq(s, k + 1, Len(s))
           u == [t EXCEPT ![m] = <<>>]
<1>6. /\ p \in Seq(Entry) /\ r \in Seq(Entry)
      /\ Elements(s) = Elements(p) \cup Elements(r)
      /\ <<>> \o p = p
    <2>1. p \in Seq(Entry) /\ r \in Seq(Entry) /\ Elements(s) = Elements(p) \cup Elements(r)
        BY <1>3, SplitFacts
    <2> QED BY <2>1
<1>7. /\ \A n \in Name : Captured(C[n].data, n) \subseteq captured
      /\ \A n \in Name : C[n].data # <<>> => n <= m
      /\ \A n \in Name : C[n].at # Never => n <= MinuteOf(C[n].at)
      /\ \A c \in captured \ (gone \cup Unwritten(j)) :
            Fresh(c.file) => /\ C[c.file].at # Never
                             /\ [blk |-> c.blk, ver |-> c.ver] \in Elements(C[c.file].data)
    BY ClosedHolds DEF EntriesInv
<1> HIDE DEF C
<1>8. /\ writer'.file = m /\ writer'.enc = r /\ writer'.buf = <<>>
      /\ bak'[m].at = now /\ bak'[m].data = p
      /\ \A n \in Name : n # m => bak'[n] = C[n]
    BY <1>1, <1>2, <1>4 DEF C
<1>9. u \in Texts /\ LastIs(u, m) /\ Flow(disk, u, s, <<>>)
    <2>1. \A n \in Name : u[n] = IF n = m THEN <<>> ELSE C[n].data
        BY <1>2, <1>4 DEF Contents, Texts
    <2>2. <<>> \in Seq(Entry)
        BY EmptySequence
    <2>3. u \in Texts
        BY <1>4, <2>2 DEF Texts
    <2>4. LastIs(u, m)
        BY <1>7, <2>1 DEF LastIs
    <2>5. Flow(disk, u, s, <<>>)
        BY <1>2, <1>4, <1>5, FlowTruncate
    <2> QED BY <2>3, <2>4, <2>5
<1>10. EntriesInOrder'
    <2>1. Flow(disk, [u EXCEPT ![m] = @ \o p], r, <<>>)
        BY <1>2, <1>3, <1>9, FlowWrite, EmptySequence
    <2>2. \A n \in Name : bak'[n].data = IF n = m THEN <<>> \o p ELSE t[n]
        BY <1>6, <1>8 DEF Contents
    <2>3. \A n \in Name : bak'[n].data = IF n = m THEN u[n] \o p ELSE u[n]
        BY <1>2, <1>4, <2>2 DEF Texts
    <2>4. Contents(bak') = [u EXCEPT ![m] = @ \o p]
        BY <1>9, <2>3 DEF Contents, Texts
    <2> QED BY <1>2, <1>8, <2>1, <2>4 DEF EntriesInOrder, Contents
<1> HIDE DEF p, r, u, t
<1>11. FilesInTime'
    <2>1. ASSUME NEW n \in Name
          PROVE  /\ bak'[n].data # <<>> => n <= m
                 /\ bak'[n].at # Never => n <= MinuteOf(bak'[n].at)
        <3>1. CASE n = m
            BY <1>2, <1>8, <3>1
        <3>2. CASE n # m
            BY <1>7, <1>8, <3>2
        <3> QED BY <3>1, <3>2
    <2>2. MinuteOf(now)' = m /\ m # NoFile
        BY <1>2, FileTypes DEF MinuteOf
    <2> QED BY <1>2, <1>8, <2>1, <2>2 DEF FilesInTime
<1>12. RemovedByCut'
    BY <1>2, <1>8, FileTypes DEF EntriesInv, RemovedByCut
<1>13. ASSUME NEW n \in Name PROVE Captured(bak'[n].data, n) \subseteq captured'
    <2>1. CASE n = m
        <3>1. Captured(p, m) \subseteq Captured(s, m)
            BY <1>6 DEF Captured
        <3> QED BY <1>2, <1>8, <2>1, <3>1
    <2>2. CASE n # m
        BY <1>2, <1>7, <1>8, <2>2
    <2> QED BY <2>1, <2>2
<1>14. ASSUME NEW c \in captured' \ gone', Fresh(c.file)'
       PROVE  bak'[c.file].at # Never /\ [blk |-> c.blk, ver |-> c.ver] \in Holding(c.file)'
    <2>1. Fresh(c.file)
        BY <1>2, <1>14 DEF Fresh
    <2>2. CASE c \in captured
        <3>1. c \notin gone \cup Unwritten(j) /\ c.file # m /\ c.file \in Name
            BY <1>1, <1>14, <2>2 DEF TypeOK
        <3>2. /\ C[c.file].at # Never
              /\ [blk |-> c.blk, ver |-> c.ver] \in Elements(C[c.file].data)
            BY <1>7, <2>1, <2>2, <3>1
        <3> QED BY <1>8, <3>1, <3>2 DEF Holding
    <2>3. CASE c \in Captured(s, m)
        <3>1. PICK x \in Elements(s) : c = [blk |-> x.blk, ver |-> x.ver, file |-> m]
            BY <2>3 DEF Captured
        <3>2. x \in Entry
            BY <1>3, ElementsFacts
        <3>3. [blk |-> c.blk, ver |-> c.ver] = x /\ c.file = m
            BY <3>1, <3>2 DEF Entry
        <3> QED BY <1>6, <1>8, <3>1, <3>3, FileTypes DEF Holding
    <2> QED BY <1>2, <1>14, <2>2, <2>3
<1>15. FilesHold'
    BY <1>13, <1>14 DEF FilesHold
<1> QED BY <1>10, <1>11, <1>12, <1>15 DEF EntriesInv

LEMMA FailRotateEntries ==
    ASSUME TypeOK, EncoderCaptured, EntriesInv, NEW e \in cst, FailRotate(e)
    PROVE  EntriesInv'
<1> DEFINE s == Buffered(Compared, e.blk)
<1>1. /\ e.blk \in Block
      /\ writer'.file = NoFile /\ writer'.enc = <<>> /\ writer'.buf = s
      /\ UNCHANGED <<now, disk, cleaner, captured, cut>>
    BY DEF FailRotate, NoWriter, TypeOK, Record
<1>c. PICK j \in Closable : bak' = Closed(j) /\ gone' = gone \cup Unwritten(j)
    BY DEF FailRotate
<1>2. s \in Seq(Entry) /\ Flow(disk, Contents(bak), writer.enc, s)
    BY <1>1, BufferedType, FlowBuffer DEF EntriesInv
<1> HIDE DEF s
<1>3. Flow(disk, Contents(Closed(j)), <<>>, s)
    BY <1>2, ClosedOrder DEF EntriesInv
<1>4. EntriesInOrder'
    BY <1>1, <1>c, <1>3 DEF EntriesInOrder, Contents
<1>5. /\ \A m \in Name : Captured(Closed(j)[m].data, m) \subseteq captured
      /\ \A m \in Name : Closed(j)[m].data # <<>> => m <= MinuteOf(now)
      /\ \A m \in Name : Closed(j)[m].at # Never => m <= MinuteOf(Closed(j)[m].at)
      /\ \A c \in captured \ (gone \cup Unwritten(j)) :
            Fresh(c.file) => /\ Closed(j)[c.file].at # Never
                             /\ [blk |-> c.blk, ver |-> c.ver] \in Elements(Closed(j)[c.file].data)
    BY ClosedHolds DEF EntriesInv
<1>6. FilesInTime'
    <2>1. NoFile <= MinuteOf(now)
        BY FileTypes DEF NoFile, Name
    <2> QED BY <1>1, <1>c, <1>5, <2>1 DEF FilesInTime, MinuteOf
<1>7. RemovedByCut'
    BY <1>1 DEF EntriesInv, RemovedByCut
<1>8. FilesHold'
    BY <1>1, <1>c, <1>5 DEF FilesHold, Holding, Fresh
<1> QED BY <1>4, <1>6, <1>7, <1>8 DEF EntriesInv

\* A removed file was last written before the snapshot the cleanup goes by.
LEMMA CheckBakEntries ==
    ASSUME TypeOK, EntriesInv, NEW m \in Name, CheckBak(m) PROVE EntriesInv'
<1>1. /\ UNCHANGED <<now, disk, writer, captured, gone, cut>>
      /\ cleaner'.latest = cleaner.latest
    BY DEF CheckBak, TypeOK, liveVars
<1>2. /\ \A n \in Name : bak'[n].data = bak[n].data
      /\ \A n \in Name : bak'[n].at \in {bak[n].at, Never}
      /\ \A n \in Name : bak'[n].at # bak[n].at => Outdated(bak[n].at)
    <2>1. CASE bak' = bak
        BY <2>1
    <2>2. ASSUME NEW t \in {Never, bak[m].at}, Outdated(bak[m].at), bak' = [bak EXCEPT ![m].at = t]
          PROVE  /\ \A n \in Name : bak'[n].data = bak[n].data
                 /\ \A n \in Name : bak'[n].at \in {bak[n].at, Never}
                 /\ \A n \in Name : bak'[n].at # bak[n].at => Outdated(bak[n].at)
        BY <2>2 DEF TypeOK, Backup
    <2> QED BY <2>1, <2>2 DEF CheckBak, Removed
<1>3. ASSUME NEW n \in Name, Fresh(n), bak[n].at # Never PROVE bak'[n].at = bak[n].at
    <2>1. CASE cut = Never
        <3>1. cleaner.latest <= cut
            BY DEF EntriesInv, RemovedByCut
        <3>2. ~Outdated(bak[n].at)
            BY <2>1, <3>1, FileTypes, SizeAssumption DEF Outdated, Never, Stamp, Time
        <3> QED BY <1>2, <3>2
    <2>2. CASE cut # Never /\ Outdated(bak[n].at)
        <3>1. bak[n].at \in Nat /\ cut \in Nat /\ bak[n].at <= cut
            BY <1>3, <2>2, FileTypes, SizeAssumption
               DEF EntriesInv, RemovedByCut, Outdated, Stamp, Time
        <3>2. n <= MinuteOf(bak[n].at)
            BY <1>3 DEF EntriesInv, FilesInTime
        <3>3. /\ MinuteOf(bak[n].at) \in Nat /\ MinuteOf(cut) \in Nat
              /\ MinuteOf(bak[n].at) <= MinuteOf(cut)
            BY <3>1, MinuteFacts
        <3>4. MinuteOf(cut) < n
            BY <1>3, <2>2 DEF Fresh
        <3> QED BY <3>2, <3>3, <3>4, FileTypes
    <2> QED BY <1>2, <2>1, <2>2
<1>4. Contents(bak') = Contents(bak)
    BY <1>2 DEF Contents
<1>5. EntriesInOrder'
    BY <1>1, <1>4 DEF EntriesInv, EntriesInOrder, Contents
<1>6. FilesInTime'
    <2>1. \A n \in Name : bak'[n].at # Never => bak'[n].at = bak[n].at
        BY <1>2
    <2> QED BY <1>1, <1>2, <2>1 DEF EntriesInv, FilesInTime, MinuteOf
<1>7. RemovedByCut'
    BY <1>1, <1>3, FileTypes DEF EntriesInv, RemovedByCut, Fresh
<1>8. FilesHold'
    <2>1. \A n \in Name : Captured(bak'[n].data, n) \subseteq captured'
        BY <1>1, <1>2 DEF EntriesInv, FilesHold
    <2>2. ASSUME NEW c \in captured' \ gone', Fresh(c.file)'
          PROVE  bak'[c.file].at # Never /\ [blk |-> c.blk, ver |-> c.ver] \in Holding(c.file)'
        <3>1. c.file \in Name /\ Fresh(c.file)
            BY <1>1, <2>2 DEF TypeOK, Fresh
        <3>2. bak[c.file].at # Never /\ [blk |-> c.blk, ver |-> c.ver] \in Holding(c.file)
            BY <1>1, <3>1 DEF EntriesInv, FilesHold
        <3> QED BY <1>1, <1>2, <1>3, <3>1, <3>2 DEF Holding
    <2> QED BY <2>1, <2>2 DEF FilesHold
<1> QED BY <1>5, <1>6, <1>7, <1>8 DEF EntriesInv

\* What the encoder kept is lost with the process.
LEMMA RestartEntries ==
    ASSUME TypeOK, EntriesInv, Restart PROVE EntriesInv'
<1>1. /\ writer'.file = NoFile /\ writer'.enc = <<>> /\ writer'.buf = <<>>
      /\ cleaner'.latest = Never
      /\ gone' = gone \cup Captured(writer.enc, writer.file)
      /\ UNCHANGED <<now, disk, bak, captured, cut>>
    BY DEF Restart, NoWriter, NoRun
<1>2. EntriesInOrder'
    BY <1>1, EmptySequence DEF EntriesInv, EntriesInOrder, Flow
<1>3. FilesInTime'
    <2>1. NoFile <= MinuteOf(now)
        BY FileTypes DEF NoFile, Name
    <2> QED BY <1>1, <2>1 DEF EntriesInv, FilesInTime, MinuteOf
<1>4. RemovedByCut'
    <2>1. Never <= cut
        BY FileTypes DEF Never
    <2> QED BY <1>1, <2>1 DEF RemovedByCut
<1>5. ASSUME NEW c \in captured' \ gone', Fresh(c.file)'
      PROVE  bak'[c.file].at # Never /\ [blk |-> c.blk, ver |-> c.ver] \in Holding(c.file)'
    <2>1. Fresh(c.file) /\ c \in captured \ gone /\ c \notin Captured(writer.enc, writer.file)
        BY <1>1, <1>5 DEF Fresh
    <2>2. bak[c.file].at # Never /\ [blk |-> c.blk, ver |-> c.ver] \in Holding(c.file)
        BY <2>1 DEF EntriesInv, FilesHold
    <2>3. ASSUME writer.file = c.file, [blk |-> c.blk, ver |-> c.ver] \in Elements(writer.enc)
          PROVE  FALSE
        <3>1. c = [blk |-> c.blk, ver |-> c.ver, file |-> c.file]
            BY <2>1 DEF TypeOK
        <3>2. [blk |-> c.blk, ver |-> c.ver, file |-> c.file] \in Captured(writer.enc, writer.file)
            BY <2>3 DEF Captured
        <3> QED BY <2>1, <3>1, <3>2
    <2> QED BY <1>1, <2>2, <2>3 DEF Holding
<1>6. FilesHold'
    BY <1>1, <1>5 DEF EntriesInv, FilesHold
<1> QED BY <1>2, <1>3, <1>4, <1>6 DEF EntriesInv

\* What a step that leaves the files and the writer alone preserves.
LEMMA EntriesUntouched ==
    ASSUME EntriesInv, UNCHANGED <<now, disk, bakVars, cut>>, cleaner'.latest <= cut
    PROVE  EntriesInv'
BY DEF bakVars, EntriesInv, EntriesInOrder, Contents, FilesInTime, RemovedByCut, FilesHold,
       Holding, Fresh

LEMMA StepEntries ==
    ASSUME TypeOK, EncoderCaptured, Next, EntriesInv PROVE EntriesInv'
<1>0. cleaner.latest <= cut /\ Never <= cut
    BY FileTypes DEF EntriesInv, RemovedByCut, Never
<1>1. CASE Tick
    <2>1. now' = now + 1 /\ UNCHANGED <<disk, bakVars, cleaner, cut>>
        BY <1>1 DEF Tick, liveVars
    <2>2. MinuteOf(now) \in Nat /\ MinuteOf(now') \in Nat /\ MinuteOf(now) <= MinuteOf(now')
        BY <2>1, FileTypes, MinuteFacts
    <2>3. writer.file \in Int /\ \A m \in Name : m \in Nat
        BY FileTypes DEF NoFile
    <2>4. FilesInTime'
        BY <2>1, <2>2, <2>3 DEF EntriesInv, FilesInTime, bakVars
    <2> QED BY <2>1, <2>4 DEF bakVars, EntriesInv, EntriesInOrder, Contents, RemovedByCut,
                              FilesHold, Holding, Fresh
<1>2. ASSUME NEW b \in Block, DiskWrite(b) PROVE EntriesInv'
    <2>1. /\ disk' = [disk EXCEPT ![b] = @ + 1]
          /\ UNCHANGED <<now, bakVars, cleaner, cut>>
        BY <1>2 DEF DiskWrite
    <2>2. \A a \in Block : disk[a] \in Nat /\ disk'[a] \in Nat /\ disk[a] <= disk'[a]
        BY <2>1 DEF TypeOK
    <2>3. ASSUME NEW s \in Seq(Entry), UpTo(disk, s) PROVE UpTo(disk', s)
        <3>1. ASSUME NEW x \in Elements(s) PROVE x.ver <= disk'[x.blk]
            <4>1. x \in Entry
                BY ElementsFacts
            <4>2. x.blk \in Block /\ x.ver \in Nat /\ x.ver <= disk[x.blk]
                BY <2>3, <4>1 DEF Entry, UpTo
            <4> QED BY <2>2, <4>2
        <3> QED BY <3>1 DEF UpTo
    <2>4. EntriesInOrder'
        <3>1. Flow(disk, Contents(bak), writer.enc, writer.buf)
            BY DEF EntriesInv, EntriesInOrder
        <3>2. \A m \in Name : Contents(bak)[m] \in Seq(Entry)
            BY FileTypes
        <3>3. Flow(disk', Contents(bak), writer.enc, writer.buf)
            BY <2>3, <3>1, <3>2, FileTypes DEF Flow
        <3> QED BY <2>1, <3>3 DEF EntriesInOrder, Contents, bakVars
    <2> QED BY <2>1, <2>4 DEF bakVars, EntriesInv, FilesInTime, RemovedByCut,
                              FilesHold, Holding, Fresh, MinuteOf
<1>3. CASE RecordChanges \/ StartStream \/ CopyBlock \/ EndStream \/ ArchiveEnd
    BY <1>0, <1>3, EntriesUntouched
       DEF RecordChanges, StartStream, CopyBlock, EndStream, ArchiveEnd, liveVars
<1>4. ASSUME NEW m \in Name, ArchiveBegin(m) \/ RemoveSnapshot(m) PROVE EntriesInv'
    <2>1. UNCHANGED <<now, disk, bakVars, cut>> /\ cleaner'.latest = cleaner.latest
        BY <1>4 DEF ArchiveBegin, RemoveSnapshot, liveVars, TypeOK
    <2> QED BY <1>0, <2>1, EntriesUntouched
<1>5. ASSUME NEW e \in cst, \/ DropRecord(e) \/ FlushSame(e) \/ LoseFlush(e)
                             \/ FailFlush(e) \/ FlushRotate(e) \/ FailRotate(e)
      PROVE  EntriesInv'
    <2>1. ASSUME DropRecord(e) PROVE EntriesInv'
        BY <1>0, <2>1, EntriesUntouched DEF DropRecord
    <2> QED BY <1>5, <2>1, FlushSameEntries, FailFlushEntries, FlushRotateEntries,
               FailRotateEntries
<1>6. CASE CleanStart
    <2>1. PICK t \in Stamp : /\ cleaner'.latest = t
                             /\ cut' = IF cut < t THEN t ELSE cut
        BY <1>6 DEF CleanStart, NoRun
    <2>2. UNCHANGED <<now, disk, bakVars>>
        BY <1>6 DEF CleanStart, liveVars
    <2>3. t \in Int /\ (t # Never => t \in Nat)
        <3>1. Time \subseteq Nat
            BY SizeAssumption DEF Time
        <3> QED BY <3>1 DEF Stamp, Never
    <2>4. cleaner'.latest <= cut'
        BY <2>1, <2>3, FileTypes
    <2>5. ASSUME NEW m \in Name, Fresh(m)' PROVE Fresh(m)
        <3>1. CASE cut = Never
            BY <3>1 DEF Fresh
        <3>2. CASE cut # Never
            <4>1. cut \in Nat /\ cut' \in Nat /\ cut <= cut'
                BY <2>1, <2>3, <3>2, FileTypes
            <4>2. MinuteOf(cut) \in Nat /\ MinuteOf(cut') \in Nat /\ MinuteOf(cut) <= MinuteOf(cut')
                BY <4>1, MinuteFacts
            <4>3. cut' # Never
                BY <4>1 DEF Never
            <4> QED BY <2>5, <4>2, <4>3, FileTypes DEF Fresh
        <3> QED BY <3>1, <3>2
    <2>6. RemovedByCut'
        BY <2>2, <2>4, <2>5, FileTypes DEF EntriesInv, RemovedByCut, bakVars
    <2>7. FilesHold'
        <3>1. \A c \in captured \ gone : c.file \in Name
            BY DEF TypeOK
        <3> QED BY <2>2, <2>5, <3>1 DEF EntriesInv, FilesHold, Holding, bakVars
    <2> QED BY <2>2, <2>6, <2>7 DEF EntriesInv, EntriesInOrder, Contents, FilesInTime, bakVars
<1>7. CASE CleanList \/ ListFiles \/ CleanEnd
    <2>1. UNCHANGED <<now, disk, bakVars, cut>>
        BY <1>7 DEF CleanList, ListFiles, CleanEnd, liveVars
    <2>2. cleaner'.latest \in {cleaner.latest, Never}
        <3>1. ASSUME CleanList PROVE cleaner'.latest = cleaner.latest
            <4>1. \/ cleaner' = [cleaner EXCEPT !.pc = "delete"]
                  \/ \E D : cleaner' = [cleaner EXCEPT !.pc = "delete", !.doomed = D]
                BY <3>1 DEF CleanList
            <4> QED BY <4>1 DEF TypeOK
        <3>2. ASSUME ListFiles PROVE cleaner'.latest \in {cleaner.latest, Never}
            BY <3>2 DEF ListFiles, NoRun, TypeOK
        <3>3. ASSUME CleanEnd PROVE cleaner'.latest = Never
            BY <3>3 DEF CleanEnd, NoRun
        <3> QED BY <1>7, <3>1, <3>2, <3>3
    <2> QED BY <1>0, <2>1, <2>2, EntriesUntouched
<1>8. ASSUME NEW t \in Time, CheckCst(t) PROVE EntriesInv'
    <2>1. UNCHANGED <<now, disk, bakVars, cut>> /\ cleaner'.latest = cleaner.latest
        BY <1>8 DEF CheckCst, TypeOK
    <2> QED BY <1>0, <2>1, EntriesUntouched
<1> QED BY <1>1, <1>2, <1>3, <1>4, <1>5, <1>6, <1>7, <1>8, CheckBakEntries, RestartEntries
        DEF Next, CleanStep

LEMMA InitEntries == Init => EntriesInv
<1> SUFFICES ASSUME Init PROVE EntriesInv
    OBVIOUS
<1>1. /\ \A m \in Name : bak[m].data = <<>> /\ bak[m].at = Never
      /\ writer.file = NoFile /\ writer.enc = <<>> /\ writer.buf = <<>>
      /\ cleaner.latest = Never /\ cut = Never /\ captured = {} /\ now = 0
    BY DEF Init, NoWriter, NoRun
<1>2. EntriesInOrder
    <2>1. \A m \in Name : Contents(bak)[m] = <<>>
        BY <1>1 DEF Contents
    <2> QED BY <1>1, <2>1, EmptySequence DEF EntriesInOrder, Flow
<1>3. FilesInTime
    <2>1. NoFile <= MinuteOf(now)
        BY <1>1, MinuteFacts DEF NoFile
    <2> QED BY <1>1, <2>1 DEF FilesInTime
<1>4. RemovedByCut
    BY <1>1 DEF RemovedByCut, Never
<1>5. FilesHold
    BY <1>1, EmptySequence DEF FilesHold, Captured
<1> QED BY <1>2, <1>3, <1>4, <1>5 DEF EntriesInv

-----------------------------------------------------------------------------
(* The merge *)

\* The pairs of natural numbers in which the first is less.
Less == {p \in Nat \X Nat : p[1] < p[2]}

LEMMA Least ==
    ASSUME NEW S \in SUBSET Nat, S # {} PROVE \E x \in S : \A y \in S : x <= y
<1>1. OpToRel(<, Nat) = Less
    BY DEF OpToRel, Less
<1>2. IsWellFoundedOn(Less, Nat)
    BY <1>1, NatLessThanWellFounded
<1>3. PICK x \in S : \A y \in S : ~(<<y, x>> \in Less)
    BY <1>2, WFMin
<1>4. ASSUME NEW y \in S PROVE x <= y
    <2>1. <<y, x>> \in Nat \X Nat /\ <<y, x>>[1] = y /\ <<y, x>>[2] = x
        OBVIOUS
    <2>2. ~(<<y, x>>[1] < <<y, x>>[2])
        BY <1>3, <2>1, Zenon DEF Less
    <2> QED BY <2>1, <2>2
<1> QED BY <1>4

\* A set of numbers with a bound has a greatest one.
LEMMA Greatest ==
    ASSUME NEW n \in Nat, NEW S \in SUBSET (0..n), S # {}
    PROVE  \E x \in S : \A y \in S : y <= x
<1> DEFINE T == {m \in 0..n : n - m \in S}
<1>1. T \in SUBSET Nat /\ T # {}
    <2>1. PICK x \in S : TRUE
        OBVIOUS
    <2>2. n - x \in 0..n /\ n - (n - x) = x
        OBVIOUS
    <2>3. n - x \in T
        BY <2>2
    <2>4. T \in SUBSET Nat
        OBVIOUS
    <2> QED BY <2>3, <2>4
<1>2. PICK x \in T : \A y \in T : x <= y
    <2> HIDE DEF T
    <2> QED BY <1>1, Least
<1>3. ASSUME NEW y \in S PROVE y <= n - x
    <2>1. n - y \in T
        OBVIOUS
    <2> QED BY <1>2, <2>1
<1> QED BY <1>2, <1>3

\* The last entry of a sequence for a block.
LEMMA LastVerFacts ==
    ASSUME NEW s \in Seq(Entry), NEW b, Places(s, b) # {}
    PROVE  \E i \in Places(s, b) :
              LastVer(s, b) = s[i].ver /\ \A k \in Places(s, b) : k <= i
<1>1. Len(s) \in Nat /\ Places(s, b) \in SUBSET (0..Len(s))
    BY DEF Places
<1>2. \E i \in Places(s, b) : \A k \in Places(s, b) : k <= i
    BY <1>1, Greatest
<1> QED BY <1>2 DEF LastVer

\* The file the merge takes the last entry from.
LEMMA MergedFromFacts ==
    ASSUME TypeOK, NEW c \in Name, NEW b \in Block
    PROVE  \/ /\ MergedFrom(c, b) = NoFile
              /\ \A m \in MergedFiles(c) : Places(bak[m].data, b) = {}
           \/ /\ MergedFrom(c, b) \in MergedFiles(c)
              /\ Places(bak[MergedFrom(c, b)].data, b) # {}
              /\ \A m \in MergedFiles(c) : Places(bak[m].data, b) # {} => m <= MergedFrom(c, b)
<1> DEFINE F == {m \in MergedFiles(c) : Places(bak[m].data, b) # {}}
           f == CHOOSE m \in F : \A k \in F : k <= m
<1>1. MergedFrom(c, b) = IF F = {} THEN NoFile ELSE f
    BY DEF MergedFrom
<1>2. F \in SUBSET (0..MaxTime)
    BY DEF MergedFiles, Name
<1>3. ASSUME F # {} PROVE f \in F /\ \A k \in F : k <= f
    <2> HIDE DEF F
    <2>1. \E m \in F : \A k \in F : k <= m
        BY <1>2, <1>3, Greatest, SizeAssumption
    <2> QED BY <2>1
<1> HIDE DEF f
<1> QED BY <1>1, <1>3

\* The merge takes the last entry of the last file that has one for the block.
LEMMA MergedFacts ==
    ASSUME TypeOK, NEW c \in Name, NEW b \in Block
    PROVE  \/ /\ Merged(c, b) = Never
              /\ \A m \in MergedFiles(c) : \A i \in DOMAIN bak[m].data : bak[m].data[i].blk # b
           \/ \E f \in MergedFiles(c) : \E i \in DOMAIN bak[f].data :
                 /\ bak[f].data[i].blk = b /\ Merged(c, b) = bak[f].data[i].ver
                 /\ \A k \in DOMAIN bak[f].data : bak[f].data[k].blk = b => k <= i
                 /\ \A m \in MergedFiles(c) : \A k \in DOMAIN bak[m].data :
                       bak[m].data[k].blk = b => m <= f
<1> DEFINE f == MergedFrom(c, b)
<1>1. Merged(c, b) = IF f = NoFile THEN Never ELSE LastVer(bak[f].data, b)
    BY DEF Merged
<1>2. CASE f = NoFile
    <2>1. \A m \in MergedFiles(c) : m # NoFile
        BY FileTypes DEF MergedFiles
    <2>2. \A m \in MergedFiles(c) : Places(bak[m].data, b) = {}
        BY <1>2, <2>1, MergedFromFacts
    <2> QED BY <1>1, <1>2, <2>2 DEF Places
<1>3. CASE f # NoFile
    <2>1. /\ f \in MergedFiles(c) /\ Places(bak[f].data, b) # {}
          /\ \A m \in MergedFiles(c) : Places(bak[m].data, b) # {} => m <= f
        BY <1>3, MergedFromFacts
    <2>2. bak[f].data \in Seq(Entry)
        BY <2>1, FileTypes DEF MergedFiles
    <2>3. PICK i \in Places(bak[f].data, b) :
             /\ LastVer(bak[f].data, b) = bak[f].data[i].ver
             /\ \A k \in Places(bak[f].data, b) : k <= i
        BY <2>1, <2>2, LastVerFacts
    <2> HIDE DEF f
    <2> QED BY <1>1, <1>3, <2>1, <2>3 DEF Places
<1> QED BY <1>2, <1>3

LEMMA MergeGives ==
    ASSUME TypeOK, EntriesInv PROVE CheckpointExact
<1> SUFFICES ASSUME NEW c \in Name, NEW b \in Block, writer.file = NoFile \/ c < writer.file
             PROVE  /\ \A e \in captured \ gone :
                          (e.blk = b /\ e.file <= c /\ Fresh(e.file)) => e.ver <= Merged(c, b)
                    /\ Merged(c, b) # Never =>
                          \E e \in captured : e.blk = b /\ e.file <= c /\ e.ver = Merged(c, b)
    BY DEF CheckpointExact
<1>1. ASSUME NEW e \in captured \ gone, e.blk = b, e.file <= c, Fresh(e.file)
      PROVE  e.ver <= Merged(c, b)
    <2>1. e.file \in Name /\ e.file # writer.file
        BY <1>1, FileTypes DEF TypeOK
    <2>2. /\ bak[e.file].at # Never
          /\ [blk |-> e.blk, ver |-> e.ver] \in Elements(bak[e.file].data)
        BY <1>1, <2>1 DEF EntriesInv, FilesHold, Holding
    <2>3. PICK j \in DOMAIN bak[e.file].data :
             bak[e.file].data[j] = [blk |-> e.blk, ver |-> e.ver]
        BY <2>2 DEF Elements
    <2>4. bak[e.file].data[j].blk = b /\ bak[e.file].data[j].ver = e.ver
        BY <1>1, <2>3
    <2>5. e.file \in MergedFiles(c)
        BY <1>1, <2>1, <2>2 DEF MergedFiles
    <2>6. PICK f \in MergedFiles(c) : \E i \in DOMAIN bak[f].data :
             /\ bak[f].data[i].blk = b /\ Merged(c, b) = bak[f].data[i].ver
             /\ \A k \in DOMAIN bak[f].data : bak[f].data[k].blk = b => k <= i
             /\ \A m \in MergedFiles(c) : \A k \in DOMAIN bak[m].data :
                   bak[m].data[k].blk = b => m <= f
        BY <2>4, <2>5, MergedFacts
    <2>7. PICK i \in DOMAIN bak[f].data :
             /\ bak[f].data[i].blk = b /\ Merged(c, b) = bak[f].data[i].ver
             /\ \A k \in DOMAIN bak[f].data : bak[f].data[k].blk = b => k <= i
             /\ \A m \in MergedFiles(c) : \A k \in DOMAIN bak[m].data :
                   bak[m].data[k].blk = b => m <= f
        BY <2>6
    <2>8. f \in Name /\ e.file <= f
        BY <2>4, <2>5, <2>7 DEF MergedFiles
    <2>9. /\ Ascending(bak[f].data)
          /\ e.file < f => Before(bak[e.file].data, bak[f].data)
        BY <2>1, <2>8, FileTypes DEF EntriesInv, EntriesInOrder, Flow
    <2>10. CASE e.file = f
        <3>1. j <= i
            BY <2>4, <2>7, <2>10
        <3> QED BY <2>3, <2>4, <2>7, <2>9, <2>10, <3>1 DEF Ascending
    <2>11. CASE e.file < f
        BY <2>3, <2>4, <2>7, <2>9, <2>11 DEF Before, Elements
    <2>12. e.file = f \/ e.file < f
        BY <2>1, <2>8, FileTypes
    <2> QED BY <2>10, <2>11, <2>12
<1>2. ASSUME Merged(c, b) # Never
      PROVE  \E e \in captured : e.blk = b /\ e.file <= c /\ e.ver = Merged(c, b)
    <2>1. PICK f \in MergedFiles(c) : \E i \in DOMAIN bak[f].data :
             bak[f].data[i].blk = b /\ Merged(c, b) = bak[f].data[i].ver
        BY <1>2, MergedFacts
    <2>2. PICK i \in DOMAIN bak[f].data :
             bak[f].data[i].blk = b /\ Merged(c, b) = bak[f].data[i].ver
        BY <2>1
    <2> DEFINE x == bak[f].data[i]
               e == [blk |-> x.blk, ver |-> x.ver, file |-> f]
    <2>3. f \in Name /\ f <= c
        BY DEF MergedFiles
    <2>4. e \in Captured(bak[f].data, f)
        BY DEF Captured, Elements
    <2>5. e \in captured
        BY <2>3, <2>4 DEF EntriesInv, FilesHold
    <2>6. e.blk = b /\ e.file <= c /\ e.ver = Merged(c, b)
        BY <2>2, <2>3
    <2> QED BY <2>5, <2>6
<1> QED BY <1>1, <1>2

LEMMA EntriesHold == Spec => []EntriesInv
<1>1. Init => EntriesInv
    BY InitEntries
<1>2. EntriesInv /\ (IInv /\ [Next]_vars) => EntriesInv'
    <2> SUFFICES ASSUME EntriesInv, IInv, [Next]_vars PROVE EntriesInv'
        OBVIOUS
    <2>1. CASE Next
        BY <2>1, StepEntries DEF IInv
    <2>2. CASE UNCHANGED vars
        <3>1. cleaner'.latest <= cut
            BY <2>2 DEF EntriesInv, RemovedByCut, vars
        <3> QED BY <2>2, <3>1, EntriesUntouched DEF vars, bakVars
    <2> QED BY <2>1, <2>2
<1> QED BY <1>1, <1>2, IInvHolds, PTL DEF Spec

\* Merging up to a checkpoint gives every block at least as new as it was
\* captured by then, and nothing that was not captured, whatever the writer, the
\* cleanup and failures do; what a restart or a failed write of the file lost is
\* excepted, by name: it is in gone.
THEOREM CheckpointExactHolds == Spec => []CheckpointExact
<1>1. IInv /\ EntriesInv => CheckpointExact
    BY MergeGives DEF IInv
<1> QED BY <1>1, EntriesHold, IInvHolds, PTL

-----------------------------------------------------------------------------
(* The refinement: the files are restore points *)

\* MergedFromFacts as a state formula, to have it of the next state too.
MergedFromIs(c, b) ==
    \/ /\ MergedFrom(c, b) = NoFile
       /\ \A m \in MergedFiles(c) : Places(bak[m].data, b) = {}
    \/ /\ MergedFrom(c, b) \in MergedFiles(c)
       /\ Places(bak[MergedFrom(c, b)].data, b) # {}
       /\ \A m \in MergedFiles(c) : Places(bak[m].data, b) # {} => m <= MergedFrom(c, b)

MergedFromEvery == \A c \in Name, b \in Block : MergedFromIs(c, b)

LEMMA MergedFromAlways == (TypeOK => MergedFromEvery) /\ (TypeOK => MergedFromEvery)'
<1>1. TypeOK => MergedFromEvery
    BY MergedFromFacts DEF MergedFromIs, MergedFromEvery
<1> QED BY <1>1, PTL

\* When files up to c may disappear but do not change, the merge takes a block
\* from the same file as before, or from an earlier one if that file is gone.
LEMMA MergeAfterRemoval ==
    ASSUME TypeOK, TypeOK', NEW c \in Name, NEW b \in Block,
           \A m \in Name : m <= c => /\ bak'[m].data = bak[m].data
                                     /\ bak'[m].at \in {bak[m].at, Never}
    PROVE  \/ MergedFrom(c, b)' = MergedFrom(c, b) /\ Merged(c, b)' = Merged(c, b)
           \/ /\ MergedFrom(c, b) \in MergedFiles(c)
              /\ MergedFrom(c, b) \notin MergedFiles(c)'
              /\ MergedFrom(c, b)' < MergedFrom(c, b)
<1> DEFINE f == MergedFrom(c, b)
           g == MergedFrom(c, b)'
<1>1. MergedFromIs(c, b)
    BY MergedFromAlways DEF MergedFromEvery
<1>2. MergedFromIs(c, b)'
    BY MergedFromAlways DEF MergedFromEvery
<1>3. /\ MergedFiles(c)' \subseteq MergedFiles(c)
      /\ \A m \in MergedFiles(c) : m \in Nat /\ m # NoFile /\ bak'[m].data = bak[m].data
    <2>1. \A m \in Name : m \in Nat /\ m # NoFile
        BY FileTypes
    <2> QED BY <2>1 DEF MergedFiles
<1>4. /\ Merged(c, b) = IF f = NoFile THEN Never ELSE LastVer(bak[f].data, b)
      /\ Merged(c, b)' = IF g = NoFile THEN Never ELSE LastVer(bak'[g].data, b)
    BY DEF Merged
<1>5. \/ f = NoFile /\ \A m \in MergedFiles(c) : Places(bak[m].data, b) = {}
      \/ /\ f \in MergedFiles(c) /\ Places(bak[f].data, b) # {}
         /\ \A m \in MergedFiles(c) : Places(bak[m].data, b) # {} => m <= f
    BY <1>1 DEF MergedFromIs
<1>6. \/ g = NoFile /\ \A m \in MergedFiles(c)' : Places(bak'[m].data, b) = {}
      \/ /\ g \in MergedFiles(c)' /\ Places(bak'[g].data, b) # {}
         /\ \A m \in MergedFiles(c)' : Places(bak'[m].data, b) # {} => m <= g
    BY <1>2 DEF MergedFromIs
<1> HIDE DEF f, g
<1>7. CASE f = NoFile
    <2>1. g = NoFile
        BY <1>3, <1>5, <1>6, <1>7
    <2> QED BY <1>4, <1>7, <2>1 DEF f, g
<1>8. CASE f \in MergedFiles(c)'
    <2>1. /\ f \in MergedFiles(c) /\ f # NoFile
          /\ Places(bak[f].data, b) # {} /\ Places(bak'[f].data, b) # {}
        BY <1>3, <1>5, <1>8
    <2>2. g \in MergedFiles(c)' /\ f <= g
        BY <1>6, <1>8, <2>1
    <2>3. g <= f
        BY <1>3, <1>5, <1>6, <2>1, <2>2
    <2>4. g = f
        BY <1>3, <2>1, <2>2, <2>3
    <2> QED BY <1>3, <1>4, <2>1, <2>4 DEF f, g
<1>9. CASE f # NoFile /\ f \notin MergedFiles(c)'
    <2>1. f \in MergedFiles(c)
        BY <1>5, <1>9
    <2>2. CASE g = NoFile
        BY <1>3, <1>9, <2>1, <2>2 DEF f, g, NoFile
    <2>3. CASE g # NoFile
        <3>1. g \in MergedFiles(c)' /\ g \in MergedFiles(c) /\ Places(bak[g].data, b) # {}
            BY <1>3, <1>6, <2>3
        <3>2. g <= f /\ g # f
            BY <1>5, <1>9, <3>1
        <3>3. g < f
            BY <1>3, <2>1, <3>1, <3>2
        <3> QED BY <1>9, <2>1, <3>3 DEF f, g
    <2> QED BY <2>2, <2>3
<1> QED BY <1>7, <1>8, <1>9

\* What was stored up to here may be gone.
LEMMA CutMinute ==
    ASSUME TypeOK
    PROVE  MinuteOf(cut) \in Int /\ MinuteOf(Never) = -1
<1>1. MinuteOf(Never) = -1
    BY UnitAssumption, Z3 DEF MinuteOf, Never
<1>2. CASE cut = Never
    BY <1>1, <1>2
<1>3. CASE cut # Never
    BY <1>1, <1>3, FileTypes, MinuteFacts
<1> QED BY <1>2, <1>3

\* A step that stores nothing for minutes that are over advances.
LEMMA StepAdvances ==
    ASSUME TypeOK, TypeOK', UNCHANGED cut,
           \A c \in Name : Over(c) =>
              Over(c)' /\ \A m \in Name : m <= c => bak'[m] = bak[m]
    PROVE  Points!Advance
<1>1. ASSUME NEW c \in Name, Over(c)
      PROVE  [b \in Block |-> [file |-> MergedFrom(c, b), ver |-> Merged(c, b)]]'
                = [b \in Block |-> [file |-> MergedFrom(c, b), ver |-> Merged(c, b)]]
    <2>1. ASSUME NEW b \in Block
          PROVE  MergedFrom(c, b)' = MergedFrom(c, b) /\ Merged(c, b)' = Merged(c, b)
        <3>1. \A m \in Name : m <= c => bak'[m] = bak[m]
            BY <1>1
        <3>2. MergedFiles(c)' = MergedFiles(c)
            BY <3>1 DEF MergedFiles
        <3> QED BY <3>1, <3>2, MergeAfterRemoval
    <2> QED BY <2>1
<1>2. MinuteOf(cut)' = MinuteOf(cut)
    BY DEF MinuteOf
<1> QED BY <1>1, <1>2 DEF Points!Advance


\* A step that leaves now, the writer and the files alone changes no point.
LEMMA StepKeeps ==
    ASSUME TypeOK, TypeOK', UNCHANGED <<now, writer, bak, cut>> PROVE Points!Advance
<1>1. ASSUME NEW c \in Name, Over(c) PROVE Over(c)'
    BY <1>1 DEF Over, MinuteOf
<1> QED BY <1>1, StepAdvances

LEMMA StepPoints ==
    ASSUME TypeOK, EntriesInv, TypeOK', Next
    PROVE  Points!Next
<1>0. /\ now \in Nat /\ MinuteOf(now) \in Nat /\ writer.file \in Name \cup {NoFile}
      /\ NoFile \notin Name /\ \A m \in Name : m \in Nat
      /\ writer.file <= MinuteOf(now)
    BY FileTypes, MinuteFacts DEF EntriesInv, FilesInTime
<1>1. CASE Tick
    <2>1. now' = now + 1 /\ UNCHANGED <<writer, bak, cut>>
        BY <1>1 DEF Tick, bakVars
    <2>2. MinuteOf(now') \in Nat /\ MinuteOf(now) <= MinuteOf(now')
        BY <1>0, <2>1, MinuteFacts
    <2>3. ASSUME NEW c \in Name, Over(c) PROVE Over(c)'
        BY <1>0, <2>1, <2>2, <2>3 DEF Over
    <2> QED BY <2>1, <2>3, StepAdvances DEF Points!Next
<1>2. CASE \/ RecordChanges \/ StartStream \/ CopyBlock \/ EndStream \/ ArchiveEnd
           \/ CleanList \/ ListFiles \/ CleanEnd
    <2>1. UNCHANGED <<now, writer, bak, cut>>
        <3>1. ASSUME RecordChanges \/ StartStream \/ EndStream PROVE UNCHANGED <<now, writer, bak, cut>>
            BY <3>1 DEF RecordChanges, StartStream, EndStream, bakVars
        <3>2. ASSUME CopyBlock \/ ArchiveEnd PROVE UNCHANGED <<now, writer, bak, cut>>
            BY <3>2 DEF CopyBlock, ArchiveEnd, bakVars
        <3>3. ASSUME CleanList \/ ListFiles PROVE UNCHANGED <<now, writer, bak, cut>>
            BY <3>3 DEF CleanList, ListFiles, bakVars
        <3>4. ASSUME CleanEnd PROVE UNCHANGED <<now, writer, bak, cut>>
            BY <3>4 DEF CleanEnd, bakVars
        <3> QED BY <1>2, <3>1, <3>2, <3>3, <3>4
    <2> QED BY <2>1, StepKeeps DEF Points!Next
<1>3. ASSUME NEW m \in Name, ArchiveBegin(m) \/ RemoveSnapshot(m) PROVE Points!Next
    BY <1>3, StepKeeps DEF ArchiveBegin, RemoveSnapshot, bakVars, Points!Next
<1>4. ASSUME NEW b \in Block, DiskWrite(b) PROVE Points!Next
    BY <1>4, StepKeeps DEF DiskWrite, bakVars, Points!Next
<1>5. ASSUME NEW t \in Time, CheckCst(t) PROVE Points!Next
    BY <1>5, StepKeeps DEF CheckCst, bakVars, Points!Next
<1>6. ASSUME NEW e \in cst, DropRecord(e) PROVE Points!Next
    BY <1>6, StepKeeps DEF DropRecord, bakVars, Points!Next
<1>7. ASSUME NEW e \in cst, FlushSame(e) \/ LoseFlush(e) \/ FailFlush(e) PROVE Points!Next
    <2>0. \A s : \A m \in Name : m # writer.file => Appended(s)[m] = bak[m]
        BY DEF Appended, TypeOK
    <2>1. /\ UNCHANGED <<now, cut>> /\ writer'.file = writer.file /\ writer.file = MinuteOf(now)
          /\ \A m \in Name : m # writer.file => bak'[m] = bak[m]
        <3>1. CASE FlushSame(e)
            BY <2>0, <3>1 DEF FlushSame, TypeOK
        <3>2. CASE LoseFlush(e)
            BY <2>0, <3>2 DEF LoseFlush, TypeOK
        <3>3. CASE FailFlush(e)
            BY <2>0, <3>3 DEF FailFlush, TypeOK
        <3> QED BY <1>7, <3>1, <3>2, <3>3
    <2>2. ASSUME NEW c \in Name, Over(c)
          PROVE  Over(c)' /\ \A m \in Name : m <= c => bak'[m] = bak[m]
        <3>1. Over(c)' /\ c < writer.file
            BY <1>0, <2>1, <2>2 DEF Over, MinuteOf
        <3> QED BY <1>0, <2>1, <3>1
    <2> QED BY <2>1, <2>2, StepAdvances DEF Points!Next
<1>8. ASSUME NEW e \in cst, FlushRotate(e) PROVE Points!Next
    <2>1. PICK j \in Closable :
             /\ UNCHANGED <<now, cut>> /\ writer'.file = MinuteOf(now)
             /\ \A m \in Name : m # MinuteOf(now) => bak'[m] = Closed(j)[m]
        BY <1>8, ClosedType DEF FlushRotate
    <2>2. ASSUME NEW m \in Name, m # writer.file PROVE Closed(j)[m] = bak[m]
        BY <2>2, ClosedFacts
    <2>3. ASSUME NEW c \in Name, Over(c)
          PROVE  Over(c)' /\ \A m \in Name : m <= c => bak'[m] = bak[m]
        <3>1. Over(c)' /\ c < MinuteOf(now) /\ (writer.file = NoFile \/ c < writer.file)
            BY <2>1, <2>3 DEF Over, MinuteOf
        <3> QED BY <1>0, <2>1, <2>2, <3>1
    <2> QED BY <2>1, <2>3, StepAdvances DEF Points!Next
<1>9. ASSUME NEW e \in cst, FailRotate(e) PROVE Points!Next
    <2>1. PICK j \in Closable :
             UNCHANGED <<now, cut>> /\ writer'.file = NoFile /\ bak' = Closed(j)
        BY <1>9 DEF FailRotate, NoWriter
    <2>2. ASSUME NEW m \in Name, m # writer.file PROVE Closed(j)[m] = bak[m]
        BY <2>2, ClosedFacts
    <2>3. ASSUME NEW c \in Name, Over(c)
          PROVE  Over(c)' /\ \A m \in Name : m <= c => bak'[m] = bak[m]
        <3>1. Over(c)' /\ (writer.file = NoFile \/ c < writer.file)
            BY <2>1, <2>3 DEF Over, MinuteOf
        <3> QED BY <1>0, <2>1, <2>2, <3>1
    <2> QED BY <2>1, <2>3, StepAdvances DEF Points!Next
<1>10. CASE Restart
    <2>1. UNCHANGED <<now, cut, bak>> /\ writer'.file = NoFile
        BY <1>10 DEF Restart, NoWriter
    <2>2. ASSUME NEW c \in Name, Over(c) PROVE Over(c)'
        BY <2>1, <2>2 DEF Over, MinuteOf
    <2> QED BY <2>1, <2>2, StepAdvances DEF Points!Next
<1>11. CASE CleanStart
    <2>1. /\ UNCHANGED <<now, writer, bak>>
          /\ \E t \in Stamp : cut' = IF cut < t THEN t ELSE cut
        BY <1>11 DEF CleanStart, bakVars
    <2>2. MinuteOf(cut) <= MinuteOf(cut')
        <3>1. CASE cut' = cut
            BY <3>1, CutMinute
        <3>2. CASE cut' # cut
            <4>1. cut' \in Nat /\ cut < cut'
                BY <2>1, <3>2, FileTypes, SizeAssumption DEF Stamp, Never, Time
            <4>2. CASE cut = Never
                BY <4>1, <4>2, CutMinute, MinuteFacts
            <4>3. CASE cut # Never
                BY <4>1, <4>3, FileTypes, MinuteFacts
            <4> QED BY <4>2, <4>3
        <3> QED BY <3>1, <3>2
    <2>3. /\ {c \in Name : Over(c)}' = {c \in Name : Over(c)}
          /\ \A c \in Name, b \in Block :
                MergedFrom(c, b)' = MergedFrom(c, b) /\ Merged(c, b)' = Merged(c, b)
        BY <2>1 DEF Over, MinuteOf, MergedFrom, Merged, MergedFiles
    <2>4. MinuteOf(cut)' = MinuteOf(cut')
        BY DEF MinuteOf
    <2> QED BY <2>2, <2>3, <2>4 DEF Points!Next, Points!Retire
<1>12. ASSUME NEW m \in Name, CheckBak(m) PROVE Points!Next
    <2>1. UNCHANGED <<now, writer, cut>>
        BY <1>12 DEF CheckBak
    <2>2. \A n \in Name : /\ bak'[n].data = bak[n].data
                          /\ bak'[n].at \in {bak[n].at, Never}
                          /\ bak'[n].at # bak[n].at => Outdated(bak[n].at)
        <3>1. CASE bak' = bak
            BY <3>1
        <3>2. CASE \E t \in Removed(bak[m].at) : Outdated(bak[m].at) /\ bak' = [bak EXCEPT ![m].at = t]
            BY <3>2 DEF TypeOK, Backup, Removed
        <3> QED BY <1>12, <3>1, <3>2 DEF CheckBak
    <2>3. ASSUME NEW n \in Name, bak'[n].at # bak[n].at PROVE n <= MinuteOf(cut)
        <3>1. /\ bak[n].at # Never /\ Outdated(bak[n].at) /\ n <= MinuteOf(bak[n].at)
              /\ cleaner.latest <= cut
            BY <2>2, <2>3 DEF EntriesInv, FilesInTime, RemovedByCut
        <3>2. bak[n].at \in Nat /\ cut \in Nat /\ bak[n].at <= cut
            BY <3>1, FileTypes, SizeAssumption DEF Outdated, Stamp, Time, Never
        <3> QED BY <1>0, <3>1, <3>2, MinuteFacts
    <2>4. ASSUME NEW c \in Name, NEW b \in Block
          PROVE  \/ MergedFrom(c, b)' = MergedFrom(c, b) /\ Merged(c, b)' = Merged(c, b)
                 \/ /\ -1 < MergedFrom(c, b) /\ MergedFrom(c, b) <= MinuteOf(cut)
                    /\ MergedFrom(c, b)' < MergedFrom(c, b)
        <3>1. CASE /\ MergedFrom(c, b) \in MergedFiles(c)
                   /\ MergedFrom(c, b) \notin MergedFiles(c)'
                   /\ MergedFrom(c, b)' < MergedFrom(c, b)
            <4>1. /\ MergedFrom(c, b) \in Name
                  /\ bak'[MergedFrom(c, b)].at # bak[MergedFrom(c, b)].at
                BY <3>1 DEF MergedFiles
            <4> QED BY <1>0, <2>3, <3>1, <4>1
        <3> QED BY <2>2, <3>1, MergeAfterRemoval
    <2>5. MinuteOf(cut)' = MinuteOf(cut) /\ MinuteOf(cut) <= MinuteOf(cut)
        BY <2>1, CutMinute DEF MinuteOf
    <2>6. {c \in Name : Over(c)}' = {c \in Name : Over(c)}
        BY <2>1 DEF Over, MinuteOf
    <2> QED BY <2>4, <2>5, <2>6 DEF Points!Next, Points!Retire, Points!FallsBack, Points!Nothing
<1> QED BY <1>1, <1>2, <1>3, <1>4, <1>5, <1>6, <1>7, <1>8, <1>9, <1>10, <1>11, <1>12
        DEF Next, CleanStep

\* The .bak files implement restore points: mounting a minute that is over gives
\* the same blocks whenever it is mounted, but for what a cleanup may remove.
THEOREM PointsKeptHolds == Spec => PointsKept
<1>1. Init => Points!Init
    <2> SUFFICES ASSUME Init PROVE Points!Init
        OBVIOUS
    <2>1. now = 0 /\ cut = Never /\ \A m \in Name : bak[m].at = Never
        BY DEF Init
    <2>2. MinuteOf(now) = 0 /\ MinuteOf(cut) = -1
        BY <2>1, UnitAssumption, Z3 DEF MinuteOf, Never
    <2>3. \A c \in Name : ~ Over(c)
        BY <2>2, SizeAssumption DEF Over, Name
    <2>4. \A c \in Name, b \in Block : MergedFrom(c, b) = NoFile
        BY <2>1 DEF MergedFrom, MergedFiles
    <2> QED BY <2>2, <2>3, <2>4 DEF Points!Init, Points!Nothing, NoFile
<1>2. TypeOK /\ TypeOK' /\ EntriesInv /\ [Next]_vars => [Points!Next]_(Points!vars)
    <2> SUFFICES ASSUME TypeOK, TypeOK', EntriesInv, [Next]_vars
                 PROVE  [Points!Next]_(Points!vars)
        OBVIOUS
    <2>1. CASE Next
        BY <2>1, StepPoints
    <2>2. CASE UNCHANGED vars
        BY <2>2, StepKeeps DEF vars, Points!Next
    <2> QED BY <2>1, <2>2
<1> QED BY <1>1, <1>2, TypeCorrect, EntriesHold, PTL DEF Spec, PointsKept, Points!Spec
=============================================================================
