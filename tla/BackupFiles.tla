------------------------------ MODULE BackupFiles ------------------------------
(***************************************************************************)
(* The files the dispatcher keeps for one disk of one agent, and everyone  *)
(* who creates and removes them at the same time: the full backup writer   *)
(* (snapshot/*.img and *.log), the change tracker (incremental/*.cst), the *)
(* incremental writer (incremental/*.bak), the cleanup job, the archive    *)
(* job, and the merge of a checkpoint into an image.                       *)
(*                                                                         *)
(* .img and .bak files are named by the minute of their creation.  Content *)
(* of a block is the number of writes it has seen.  How a change travels   *)
(* from the disk to a .cst file, and from there back to the agent and into *)
(* a message, is module LiveSync; here both take one step.                 *)
(***************************************************************************)
EXTENDS Integers, Sequences, FiniteSets

CONSTANTS
    N,          \* number of blocks of the disk
    Minute,     \* ticks of the clock in a minute
    Retention,  \* ticks in the agent's SnapshotRetention
    ArchiveAge, \* ticks in the agent's ArchiveInterval
    MaxTime,    \* bound: the clock stops there
    MaxVer,     \* bound: writes per block
    MaxImage,   \* bound: blocks in an .img file
    Faults      \* the failures a run lets happen, among AllFaults

AllFaults == {"file", "restart"}

ASSUME SizeAssumption  == N \in Nat \ {0} /\ MaxTime \in Nat
                          /\ MaxVer \in Nat /\ MaxImage \in Nat
ASSUME UnitAssumption  == /\ Minute \in Nat \ {0}
                          /\ Retention \in Nat /\ ArchiveAge \in Nat
                          /\ Minute <= Retention /\ Minute <= ArchiveAge
ASSUME FaultAssumption == Faults \subseteq AllFaults

Block == 0..N-1
Time  == 0..MaxTime
Never == -1
Stamp == Time \cup {Never}      \* a ModTime; Never for a file that is not there

\* time.Now().Format("200601021504")
MinuteOf(t) == t \div Minute

Name   == 0..MaxTime
NoFile == -1

VARIABLES
    now,
    disk,      \* the agent's device: a version per block
    changed,   \* changed blocks the tracker has not written to a file yet
    cst,       \* change records in .cst files, with the ModTime of the file
    snap,      \* .img and .log files by name
    stream,    \* the running WriteFullBackupToFile
    arch,      \* the archived snapshots
    archiving, \* the snapshot processFiles is compressing
    bak,       \* .bak files by name
    writer,    \* the BackupWriter of the running WriteIncrementalBackupToFile
    cleaner,   \* the running performCleanup
    captured,  \* history: the blocks flushed, with the name of their .bak file
    gone,      \* history: those a restart or a failed write lost
    cut        \* history: greatest snapshot time a cleanup went by

snapVars == <<snap, stream, arch, archiving>>
liveVars == <<disk, changed, cst>>
bakVars  == <<bak, writer, captured, gone>>
vars == <<now, disk, changed, cst, snap, stream, arch, archiving, bak, writer,
          cleaner, captured, gone, cut>>

-----------------------------------------------------------------------------
(* Data *)

Snapshot == [img : Stamp, log : Stamp, data : Seq(Nat)]
Entry    == [blk : Block, ver : Nat]
Backup   == [at : Stamp, data : Seq(Entry)]
Record   == [blk : Block, at : Time]

NoStream == [file |-> NoFile, next |-> 0, at |-> Never]
NoWriter == [file |-> NoFile, enc |-> <<>>, buf |-> <<>>, handle |-> NoFile,
             bad |-> FALSE]
NoArch   == [file |-> NoFile, time |-> Never]
NoRun    == [pc |-> "idle", latest |-> Never, doomed |-> {}, baks |-> {}, csts |-> {}]

MayFail(fault) == IF fault \in Faults THEN BOOLEAN ELSE {TRUE}

\* The ModTime of a file after os.Remove, which may fail.
Removed(t) == {Never} \cup (IF "file" \in Faults THEN {t} ELSE {})

Images      == {m \in Name : snap[m].img # Never}
Complete(m) == snap[m].img # Never /\ snap[m].log # Never

IsGreatest(x, S) == x \in S /\ \A y \in S : y <= x

\* The older of the two ModTimes.
Timestamp(m) == IF snap[m].log < snap[m].img THEN snap[m].log ELSE snap[m].img

Elements(s) == {s[i] : i \in DOMAIN s}

Init ==
    /\ now = 0
    /\ disk = [b \in Block |-> 0] /\ changed = {} /\ cst = {}
    /\ snap = [m \in Name |-> [img |-> Never, log |-> Never, data |-> <<>>]]
    /\ stream = NoStream /\ arch = {} /\ archiving = NoArch
    /\ bak = [m \in Name |-> [at |-> Never, data |-> <<>>]]
    /\ writer = NoWriter /\ cleaner = NoRun
    /\ captured = {} /\ gone = {} /\ cut = Never

-----------------------------------------------------------------------------
(* The clock, the disk and the tracker *)

\* Mutant: WriteFullBackupToFile waits for data without end.
TickUntimed ==
    /\ now < MaxTime
    /\ now' = now + 1
    /\ UNCHANGED <<liveVars, snapVars, bakVars, cleaner, cut>>

\* A tick is longer than the 3 seconds without data after which
\* WriteFullBackupToFile gives up.
Tick ==
    /\ now < MaxTime
    /\ now' = now + 1
    /\ stream' = IF stream # NoStream /\ stream.at < now THEN NoStream ELSE stream
    /\ UNCHANGED <<liveVars, snap, arch, archiving, bakVars, cleaner, cut>>

DiskWrite(b) ==
    /\ disk[b] < MaxVer
    /\ disk' = [disk EXCEPT ![b] = @ + 1]
    /\ changed' = changed \cup {b}
    /\ UNCHANGED <<now, cst, snapVars, bakVars, cleaner, cut>>

\* writeBufferToFile
RecordChanges ==
    /\ changed # {}
    /\ cst' = cst \cup [blk : changed, at : {now}]
    /\ changed' = {}
    /\ UNCHANGED <<now, disk, snapVars, bakVars, cleaner, cut>>

-----------------------------------------------------------------------------
(* The full backup: WriteFullBackupToFile *)

\* The name of the file is that of the minute in which the writer starts.
StartStream ==
    /\ stream = NoStream
    /\ stream' = [file |-> MinuteOf(now), next |-> 0, at |-> now]
    /\ UNCHANGED <<now, liveVars, snap, arch, archiving, bakVars, cleaner, cut>>

\* A message with the next block.  An .img file of the same minute is appended
\* to.
CopyBlock ==
    LET f == stream.file
        d == IF snap[f].img = Never THEN <<>> ELSE snap[f].data
    IN /\ stream # NoStream /\ stream.next \in Block
       /\ Len(d) < MaxImage
       /\ snap' = [snap EXCEPT ![f] =
                     [img |-> now, log |-> now, data |-> Append(d, disk[stream.next])]]
       /\ stream' = [stream EXCEPT !.next = @ + 1, !.at = now]
       /\ UNCHANGED <<now, liveVars, arch, archiving, bakVars, cleaner, cut>>

\* No data for 3 seconds: the disk is copied, or the agent is gone.
EndStream ==
    /\ stream # NoStream
    /\ stream' = NoStream
    /\ UNCHANGED <<now, liveVars, snap, arch, archiving, bakVars, cleaner, cut>>

-----------------------------------------------------------------------------
(* The incremental writer: WriteIncrementalBackupToFile, BackupWriter *)

\* The snapshot blocks are compared with: the handle opened with the first
\* message, or the last .img file by name.
Compared ==
    IF writer.handle # NoFile \/ Images = {} THEN writer.handle
    ELSE CHOOSE m \in Images : \A k \in Images : k <= m

\* Past its end a snapshot reads as zeros.
Differs(h, b) == ~(b + 1 \in DOMAIN snap[h].data /\ snap[h].data[b + 1] = disk[b])

\* The writer's buffer once the content of b was compared with snapshot h.
Buffered(h, b) ==
    writer.buf \o IF Differs(h, b) THEN <<[blk |-> b, ver |-> disk[b]]>> ELSE <<>>

\* Entries of the .bak file of minute m, in the history.
Captured(s, m) == {[blk |-> e.blk, ver |-> e.ver, file |-> m] : e \in Elements(s)}

\* What the encoder wrote goes to a file, unless the file was removed.
Emit(file, s) ==
    IF file.at = Never THEN file ELSE [at |-> now, data |-> file.data \o s]

\* The .bak files once the encoder has written s to the open one.
Appended(s) ==
    IF s = <<>> THEN bak ELSE [bak EXCEPT ![writer.file] = Emit(@, s)]

\* How much of what it holds the encoder may write when rotateFile closes it:
\* the error of encoder.Close is ignored, and after a failed write it writes
\* nothing any more.
Closable ==
    IF writer.bad THEN {0}
    ELSE IF "file" \in Faults THEN 0..Len(writer.enc) ELSE {Len(writer.enc)}

\* The .bak files once rotateFile has closed the current one after j entries.
Closed(j) ==
    IF writer.file = NoFile \/ writer.bad \/ (j = 0 /\ writer.enc # <<>>) THEN bak
    ELSE [bak EXCEPT ![writer.file] = Emit(@, SubSeq(writer.enc, 1, j))]

\* The rest, which is lost.
Unwritten(j) ==
    Captured(SubSeq(writer.enc, j + 1, Len(writer.enc)), writer.file)

\* A message whose snapshot cannot be found is dropped.
DropRecord(e) ==
    /\ e \in cst
    /\ Compared = NoFile
    /\ cst' = cst \ {e}
    /\ UNCHANGED <<now, disk, changed, snapVars, bakVars, cleaner, cut>>

\* A changed block reaches the writer in the minute of the open file; the
\* encoder keeps what it has not written to the file yet (any prefix may be).
FlushSame(e) ==
    LET h == Compared
        s == Buffered(h, e.blk)
        w == writer.enc \o s
    IN /\ e \in cst /\ h # NoFile
       /\ MinuteOf(now) = writer.file /\ ~writer.bad
       /\ cst' = cst \ {e}
       /\ \E k \in 0..Len(w) :
             /\ writer' = [writer EXCEPT !.enc = SubSeq(w, k + 1, Len(w)), !.buf = <<>>]
             /\ bak' = Appended(SubSeq(w, 1, k))
       /\ captured' = captured \cup Captured(s, writer.file)
       /\ UNCHANGED <<now, disk, changed, snapVars, cleaner, gone, cut>>

\* The encoder writes in the background: a write to the file fails, now or in an
\* earlier flush, and flushBuffer does not notice.  Everything after the last
\* entry that was written is lost, here and until the file is closed.
LoseFlush(e) ==
    LET h == Compared
        s == Buffered(h, e.blk)
        w == writer.enc \o s
    IN /\ "file" \in Faults
       /\ e \in cst /\ h # NoFile
       /\ MinuteOf(now) = writer.file
       /\ cst' = cst \ {e}
       /\ writer' = [writer EXCEPT !.enc = <<>>, !.buf = <<>>, !.bad = TRUE]
       /\ captured' = captured \cup Captured(s, writer.file)
       /\ \E k \in IF writer.bad THEN {0} ELSE 0..Len(w) :
             /\ bak' = Appended(SubSeq(w, 1, k))
             /\ gone' = gone \cup Captured(SubSeq(w, k + 1, Len(w)), writer.file)
       /\ UNCHANGED <<now, disk, changed, snapVars, cleaner, cut>>

\* flushBuffer notices the error and returns it to a caller that ignores it: the
\* blocks stay in the buffer for the next file.
FailFlush(e) ==
    LET h == Compared
    IN /\ "file" \in Faults
       /\ e \in cst /\ h # NoFile
       /\ MinuteOf(now) = writer.file
       /\ cst' = cst \ {e}
       /\ writer' = [writer EXCEPT !.enc = <<>>, !.bad = TRUE,
                                   !.buf = Buffered(h, e.blk)]
       /\ \E k \in IF writer.bad THEN {0} ELSE 0..Len(writer.enc) :
             /\ bak' = Appended(SubSeq(writer.enc, 1, k))
             /\ gone' = gone \cup Unwritten(k)
       /\ UNCHANGED <<now, disk, changed, snapVars, cleaner, captured, cut>>

\* The minute has changed: rotateFile closes the open file and creates the next
\* one.  A file of that name is truncated: one left by an earlier process.
FlushRotate(e) ==
    LET h == Compared
        s == Buffered(h, e.blk)
        m == MinuteOf(now)
    IN /\ e \in cst /\ h # NoFile
       /\ m # writer.file
       /\ cst' = cst \ {e}
       /\ \E k \in 0..Len(s), j \in Closable :
             /\ writer' = [file |-> m, enc |-> SubSeq(s, k + 1, Len(s)),
                           buf |-> <<>>, handle |-> h, bad |-> FALSE]
             /\ bak' = [Closed(j) EXCEPT ![m] = [at |-> now, data |-> SubSeq(s, 1, k)]]
             /\ gone' = gone \cup {c \in captured : c.file = m} \cup Unwritten(j)
       /\ captured' = captured \cup Captured(s, m)
       /\ UNCHANGED <<now, disk, changed, snapVars, cleaner, cut>>

\* The next file cannot be created: the blocks stay in the buffer, and the old
\* file is closed for good.
FailRotate(e) ==
    LET h == Compared
    IN /\ "file" \in Faults
       /\ e \in cst /\ h # NoFile
       /\ MinuteOf(now) # writer.file
       /\ cst' = cst \ {e}
       /\ writer' = [NoWriter EXCEPT !.buf = Buffered(h, e.blk), !.handle = h]
       /\ \E j \in Closable : bak' = Closed(j) /\ gone' = gone \cup Unwritten(j)
       /\ UNCHANGED <<now, disk, changed, snapVars, cleaner, captured, cut>>

-----------------------------------------------------------------------------
(* The archive job: processFiles *)

\* Mutant: no look at the kind of file.
ArchiveBeginAny(m) ==
    /\ archiving = NoArch
    /\ now - snap[m].img > ArchiveAge
    /\ archiving' = [file |-> m, time |-> snap[m].img]
    /\ UNCHANGED <<now, liveVars, snap, stream, arch, bakVars, cleaner, cut>>

ArchiveBegin(m) ==
    /\ archiving = NoArch
    /\ snap[m].img # Never /\ now - snap[m].img > ArchiveAge
    /\ archiving' = [file |-> m, time |-> snap[m].img]
    /\ UNCHANGED <<now, liveVars, snap, stream, arch, bakVars, cleaner, cut>>

\* The compressed image and the log go to the archive, then the image is
\* removed.  When compressing fails, nothing changes.
ArchiveEnd ==
    LET m == archiving.file
    IN /\ archiving # NoArch
       /\ archiving' = NoArch
       /\ \/ /\ \E i \in Removed(snap[m].img), l \in Removed(snap[m].log) :
                   snap' = [snap EXCEPT ![m].img = i, ![m].log = l]
             /\ arch' = arch \cup {archiving}
          \/ "file" \in Faults /\ UNCHANGED <<snap, arch>>
       /\ UNCHANGED <<now, liveVars, stream, bakVars, cleaner, cut>>

-----------------------------------------------------------------------------
(* The cleanup job: performCleanup *)

\* getLatestSnapshotTimes
CleanStart ==
    /\ cleaner.pc = "idle"
    /\ \E t \in Stamp :
          /\ IsGreatest(t, {snap[m].img : m \in Name})
          /\ cleaner' = [NoRun EXCEPT !.pc = "snapshots", !.latest = t]
          /\ cut' = IF cut < t THEN t ELSE cut
    /\ UNCHANGED <<now, liveVars, snapVars, bakVars>>

Expired(m) == now - Timestamp(m) > Retention

\* Mutant: the age alone decides.
DoomedByAge(L, k) == {m \in L : Expired(m)}

\* The snapshots among L that cleanupSnapshots deletes, k the most recent one:
\* the expired ones, but not k when every one is expired.
Doomed(L, k) == {m \in L : Expired(m) /\ ~(m = k /\ \A j \in L : Expired(j))}

\* The first pass of cleanupSnapshots, with the ages taken once.
CleanList ==
    LET L == {m \in Name : Complete(m)}
    IN /\ cleaner.pc = "snapshots"
       /\ \/ L = {} /\ cleaner' = [cleaner EXCEPT !.pc = "delete"]
          \/ \E k \in L :
                /\ \A j \in L : Timestamp(j) <= Timestamp(k)
                /\ cleaner' = [cleaner EXCEPT !.pc = "delete", !.doomed = Doomed(L, k)]
       /\ UNCHANGED <<now, liveVars, snapVars, bakVars, cut>>

\* The second pass deletes an image and its log.
RemoveSnapshot(m) ==
    /\ cleaner.pc = "delete" /\ m \in cleaner.doomed
    /\ cleaner' = [cleaner EXCEPT !.doomed = @ \ {m}]
    /\ \E i \in Removed(snap[m].img), l \in Removed(snap[m].log) :
          snap' = [snap EXCEPT ![m].img = i, ![m].log = l]
    /\ UNCHANGED <<now, liveVars, stream, arch, archiving, bakVars, cut>>

\* cleanupIncrementals lists its directory, unless the disk had no snapshot.
ListFiles ==
    /\ cleaner.pc = "delete" /\ cleaner.doomed = {}
    /\ cleaner' = IF cleaner.latest = Never THEN NoRun
                  ELSE [cleaner EXCEPT !.pc = "files",
                                       !.baks = {m \in Name : bak[m].at # Never},
                                       !.csts = {e.at : e \in cst}]
    /\ UNCHANGED <<now, liveVars, snapVars, bakVars, cut>>

\* Mutant: After for Before.
OutdatedAfter(t) == cleaner.latest < t

\* A file last written before the latest snapshot was is deleted.
Outdated(t) == t < cleaner.latest

CheckBak(m) ==
    /\ m \in cleaner.baks
    /\ cleaner' = [cleaner EXCEPT !.baks = @ \ {m}]
    /\ bak' \in IF Outdated(bak[m].at)
                THEN {[bak EXCEPT ![m].at = t] : t \in Removed(bak[m].at)}
                ELSE {bak}
    /\ UNCHANGED <<now, liveVars, snapVars, writer, captured, gone, cut>>

CheckCst(t) ==
    /\ t \in cleaner.csts
    /\ cleaner' = [cleaner EXCEPT !.csts = @ \ {t}]
    /\ \E ok \in MayFail("file") :
          cst' = IF ok /\ Outdated(t) THEN {e \in cst : e.at # t} ELSE cst
    /\ UNCHANGED <<now, disk, changed, snapVars, bakVars, cut>>

CleanEnd ==
    /\ cleaner.pc = "files" /\ cleaner.baks = {} /\ cleaner.csts = {}
    /\ cleaner' = NoRun
    /\ UNCHANGED <<now, liveVars, snapVars, bakVars, cut>>

-----------------------------------------------------------------------------
\* The dispatcher stops and starts: what is in memory is lost.
Restart ==
    /\ "restart" \in Faults
    /\ stream' = NoStream /\ archiving' = NoArch /\ cleaner' = NoRun
    /\ writer' = NoWriter /\ changed' = {}
    /\ gone' = gone \cup Captured(writer.enc, writer.file)
    /\ UNCHANGED <<now, disk, cst, snap, arch, bak, captured, cut>>

CleanStep ==
    \/ CleanStart \/ CleanList \/ ListFiles \/ CleanEnd
    \/ \E m \in Name : RemoveSnapshot(m) \/ CheckBak(m)
    \/ \E t \in Time : CheckCst(t)

Next ==
    \/ Tick \/ RecordChanges \/ StartStream \/ CopyBlock \/ EndStream
    \/ \E b \in Block : DiskWrite(b)
    \/ \E e \in cst : DropRecord(e) \/ FlushSame(e) \/ LoseFlush(e) \/ FailFlush(e)
    \/ \E e \in cst : FlushRotate(e) \/ FailRotate(e)
    \/ ArchiveEnd
    \/ \E m \in Name : ArchiveBegin(m)
    \/ CleanStep \/ Restart

Spec == Init /\ [][Next]_vars

-----------------------------------------------------------------------------
(* The merge of a checkpoint: ProcessIncrementalBackups, processBackupFile *)

\* Mutant: the file of the checkpoint's own minute is left out.
MergedBefore(c) == {m \in Name : bak[m].at # Never /\ m < c}

\* The .bak files up to checkpoint c.
MergedFiles(c) == {m \in Name : bak[m].at # Never /\ m <= c}

\* The places of block b in the entries s, and the version the last of them gives.
Places(s, b)  == {i \in DOMAIN s : s[i].blk = b}
LastVer(s, b) == s[CHOOSE i \in Places(s, b) : \A j \in Places(s, b) : j <= i].ver

\* The last of these files with an entry for b, NoFile when there is none, and
\* the version its last entry gives, which is what the merge leaves in b.
MergedFrom(c, b) ==
    LET F == {m \in MergedFiles(c) : Places(bak[m].data, b) # {}}
    IN IF F = {} THEN NoFile ELSE CHOOSE m \in F : \A k \in F : k <= m

Merged(c, b) ==
    LET f == MergedFrom(c, b)
    IN IF f = NoFile THEN Never ELSE LastVer(bak[f].data, b)

-----------------------------------------------------------------------------
(* Properties *)

TypeOK ==
    /\ now \in Time /\ disk \in [Block -> Nat] /\ changed \subseteq Block
    /\ cst \subseteq Record
    /\ snap \in [Name -> Snapshot]
    /\ stream \in [file : Name, next : 0..N, at : Time] \cup {NoStream}
    /\ arch \subseteq [file : Name, time : Time]
    /\ archiving \in [file : Name, time : Time] \cup {NoArch}
    /\ bak \in [Name -> Backup]
    /\ writer \in [file : Name \cup {NoFile}, enc : Seq(Entry), buf : Seq(Entry),
                   handle : Name \cup {NoFile}, bad : BOOLEAN]
    /\ cleaner \in [pc : {"idle", "snapshots", "delete", "files"}, latest : Stamp,
                    doomed : SUBSET Name, baks : SUBSET Name, csts : SUBSET Time]
    /\ captured \subseteq [blk : Block, ver : Nat, file : Name]
    /\ gone \subseteq captured
    /\ cut \in Stamp

\* Snapshot m is at least as recent as t, in its directory or in the archive.
KeptSince(t, m) ==
    \/ Complete(m) /\ t <= Timestamp(m)
    \/ \E a \in arch : a.file = m /\ t <= a.time

\* cleanupSnapshots deletes "old snapshots while preserving the most recent one
\* per disk" (cleanup_jobs.go:214), whatever the full backup, the archive job
\* and failing deletions do between its two passes: after each deletion a
\* snapshot that is at least as recent is still there.
NewestKept ==
    [][\A m \in Name, t \in Stamp :
          RemoveSnapshot(m) /\ Complete(m) /\ t = Timestamp(m) =>
              \E k \in Name : k # m /\ KeptSince(t, k)']_vars

\* Neither the cleanup job nor the archive job takes away the image that
\* WriteFullBackupToFile is appending to: the 3 seconds after which it gives up
\* are shorter than any retention or archive interval.
ImageStays == stream.next > 0 => snap[stream.file].img # Never

(* Why NewestKept and ImageStays hold: the parts of an inductive invariant. *)

\* The encoder holds blocks that were flushed to the open file.
EncoderCaptured == Captured(writer.enc, writer.file) \subseteq captured

\* No file was written before the minute it is named after.
NamedByMinute ==
    \A m \in Name : \A t \in {snap[m].img, snap[m].log} :
        t # Never => t <= now /\ m <= MinuteOf(t)

\* A running full backup started, or wrote its two files, at most a tick ago.
StreamRecent ==
    stream # NoStream =>
        /\ now - 1 <= stream.at /\ stream.at <= now
        /\ stream.file <= MinuteOf(stream.at)
        /\ stream.next = 0 => stream.file = MinuteOf(stream.at)
        /\ stream.next > 0 => LET f == snap[stream.file]
                              IN f.img = stream.at /\ f.log = stream.at

\* No full backup writes to file m, nor will one.
Closing(m) == m < MinuteOf(now) /\ m # stream.file

RemovalsClosing ==
    /\ cleaner.doomed # {} => cleaner.pc = "delete"
    /\ \A m \in cleaner.doomed : Closing(m)
    /\ archiving # NoArch => LET i == snap[archiving.file].img
                             IN Closing(archiving.file) /\ i \in {Never, archiving.time}

\* A snapshot that is not going to be deleted is as recent as those that are.
Survivor ==
    cleaner.doomed # {} =>
        \E k \in Name \ cleaner.doomed : \A m \in cleaner.doomed :
            Complete(m) => KeptSince(Timestamp(m), k)

IInv == TypeOK /\ EncoderCaptured /\ NamedByMinute /\ StreamRecent
               /\ RemovalsClosing /\ Survivor

\* Minutes of the files that no cleanup so far could take for older than the
\* snapshot it went by.
Fresh(m) == cut = Never \/ MinuteOf(cut) < m

\* The merge up to a minute c whose .bak file is not being written any more gives
\* every block at least as new as the .bak files up to this minute captured it
\* since the snapshot, and never newer than they captured: neither rotation nor
\* cleanup nor the choice of the files loses or misplaces a capture.  What was
\* in memory at a restart, and what a failed write to the file lost, is gone;
\* what follows the failure in the same file is lost too, and nothing else is.
CheckpointExact ==
    \A c \in Name, b \in Block :
        (writer.file = NoFile \/ c < writer.file) =>
            /\ \A e \in captured \ gone :
                  (e.blk = b /\ e.file <= c /\ Fresh(e.file)) => e.ver <= Merged(c, b)
            /\ Merged(c, b) # Never =>
                  \E e \in captured : e.blk = b /\ e.file <= c /\ e.ver = Merged(c, b)

\* Nobody writes the .bak files up to minute c any more: the minute has passed,
\* and no encoder holds anything for them.
Over(c) == c < MinuteOf(now) /\ (writer.file = NoFile \/ c < writer.file)

Points == INSTANCE RestorePoints WITH
            Minute  <- Name,
            over    <- {c \in Name : Over(c)},
            point   <- [c \in Name |-> [b \in Block |->
                          [file |-> MergedFrom(c, b), ver |-> Merged(c, b)]]],
            expired <- MinuteOf(cut)

\* The .bak files are restore points: what a merge gives for a minute that is
\* over stays as it is, whenever one merges and whatever the writer, its
\* restarts and the jobs do, but for blocks whose last entry is older than a
\* snapshot a cleanup went by.
PointsKept == Points!Spec

\* The current content of b is in a file, or on its way into one.
Recoverable(b) ==
    \/ b \in changed \/ \E e \in cst : e.blk = b
    \/ stream # NoStream /\ stream.next <= b
    \/ \E m \in Images : /\ \A k \in Images : k <= m
                         /\ b + 1 \in DOMAIN snap[m].data
                         /\ snap[m].data[b + 1] = disk[b]
    \/ LET current == [blk |-> b, ver |-> disk[b]]
       IN \/ current \in Elements(writer.buf)
          \/ /\ writer.file # NoFile /\ bak[writer.file].at # Never
             /\ current \in Elements(writer.enc)
          \/ \E m \in Name : bak[m].at # Never /\ current \in Elements(bak[m].data)

\* docs/architecture.md line 17: "ensuring all changes are captured and
\* preserved".  So a cleanup never deletes the last trace of a block's content.
ChangesSurviveCleanup ==
    [][CleanStep => \A b \in Block : Recoverable(b) => Recoverable(b)']_vars
=============================================================================
