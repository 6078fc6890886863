------------------------------- MODULE LiveSync -------------------------------
(***************************************************************************)
(* The live change tracking of one agent disk over one /ws/live connection *)
(* (docs/architecture.md, "Incremental"): disk writes seen by eBPF on the  *)
(* agent, change events sent to the dispatcher, kept in .cst files, turned *)
(* by SyncData into requests for blocks, read back by the agent, compared  *)
(* with the full snapshot by WriteIncrementalBackupToFile, and appended to *)
(* .bak files or put on the dirty list.                                    *)
(*                                                                         *)
(* The full snapshot is complete and stable here.  Block content is        *)
(* abstracted to a version (how many writes the block has seen) and to     *)
(* whether it equals the snapshot's content, all the code compares.        *)
(***************************************************************************)
EXTENDS Integers, Sequences, FiniteSets

CONSTANTS
    N,          \* number of blocks of the disk
    Delta,      \* BLOCK_DELTA, by which a requested range is widened
    Reader,     \* ReadBlocks goroutines that may be running at once
    ChunkSize,  \* pairs in one sync message (40000)
    BatchSize,  \* blocks in one incremental message (4096)
    RingCap,    \* events the eBPF ring buffer holds
    LiveCap,    \* capacity of LiveChannel (10000)
    SyncCap,    \* capacity of SyncChannel (10000)
    MaxVer,     \* bound: writes per block
    MaxRetry,   \* bound: RetryCount is counted up to here
    Faults      \* the failures a run lets happen, among AllFaults

AllFaults == {"link", "file", "read", "store"}

ASSUME SizeAssumption  == N \in Nat \ {0} /\ Delta \in Nat
ASSUME BoundAssumption == MaxVer \in Nat /\ MaxRetry \in Nat \ {0}
ASSUME FaultAssumption == Faults \subseteq AllFaults

Block == 0..N-1

VARIABLES
    disk,     \* the agent's device: a Content per block
    ring,     \* agent, kernel: change events not read yet
    up,       \* is the /ws/live connection up
    tick,     \* a sync tick is waiting though the ticker is stopped
    chan,     \* dispatcher: events in LiveChannel
    buf,      \* dispatcher: sectorBufferMap of ChangeSectorTracker
    young,    \* events in .cst files not older than LiveSyncFreq
    aged,     \* events in older .cst files, not listed by SyncData yet
    syncer,   \* the local variables of a running SyncData
    reader,   \* the agent's ReadBlocks goroutines
    syncChan, \* dispatcher: messages in SyncChannel
    wmsg,     \* blocks of the message being written that are still to do
    retry,    \* the dirty list: RetryCount of a listed block, 0 when absent
    bak,      \* version of b last appended to a .bak file, 0 when none
    seen,     \* history: content of b last handled by the writer
    newest,   \* history: greatest version of b handled by the writer
    raced,    \* history: blocks two ReadBlocks goroutines have had at once, as
              \* long as anything of them is under way
    lost      \* history: versions given up on some path of the code

agentVars == <<disk, ring, reader>>
fileVars  == <<young, aged, syncer>>
writeVars == <<wmsg, retry, bak, seen, newest, raced>>
vars == <<disk, ring, up, tick, chan, buf, young, aged, syncer, reader,
          syncChan, wmsg, retry, bak, seen, newest, raced, lost>>

-----------------------------------------------------------------------------
(* Data *)

Content == [ver : Nat, same : BOOLEAN]       \* same: equal to the snapshot's
Unseen  == [ver |-> -1, same |-> TRUE]
Event   == [blk : Block, ver : Nat]          \* ver: the write it reports

\* A block as the agent sends it: its number, the version the block of that number
\* had when it was read, and whether the content is that block's own.
Copy == [blk : Block, ver : Nat, same : BOOLEAN, own : BOOLEAN]

Foreign == -1                                \* in bak: another block's content

IsLeast(b, S) == b \in S /\ \A a \in S : b <= a

BlocksOf(E) == {e.blk : e \in E}

\* Copies and events reduced to what was written where.
Versions(E) == {[blk |-> e.blk, ver |-> e.ver] : e \in E}

\* A change event, like a retried dirty block, becomes the range b..b+1, which
\* expandSyncRange widens on both sides and cuts at the ends of the device.
Requested(S) == {x \in Block : \E b \in S : b - Delta <= x /\ x <= b + 1 + Delta}

\* The current version of each block of S.
Current(S) == {[blk |-> b, ver |-> disk[b].ver] : b \in S}

IdleSyncer == [pc |-> "idle", files |-> {}, dirty |-> {}, todo |-> {}]
IdleReader == [todo |-> {}, batch |-> {}, off |-> FALSE]

Dirty == {b \in Block : retry[b] > 0}

\* Mutant: UpdateBlockRetry counts down.
CountRetryDown(n) == n - 1

CountRetry(n) == IF n < MaxRetry THEN n + 1 ELSE n

\* Mutant: a block that equals the snapshot is skipped without being listed.
RelistedNever(c, n) == IF c.same THEN n ELSE 0

\* The dirty list after a copy was compared: an equal one is added or its
\* RetryCount incremented, a different one removed.
Relisted(c, n) == IF c.same THEN CountRetry(n) ELSE 0

\* What is left of S where failures of a kind may strike any of its members.
MaybeFewer(fault, S) == IF fault \in Faults THEN SUBSET S ELSE {S}

\* Does an operation succeed that may fail?
MayFail(fault) == IF fault \in Faults THEN BOOLEAN ELSE {TRUE}

-----------------------------------------------------------------------------
Init ==
    /\ disk = [b \in Block |-> [ver |-> 0, same |-> TRUE]]
    /\ seen = [b \in Block |-> Unseen]
    /\ up = TRUE /\ tick = FALSE
    /\ ring = {} /\ chan = {} /\ buf = {} /\ young = {} /\ aged = {}
    /\ syncer = IdleSyncer
    /\ reader = [r \in Reader |-> IdleReader]
    /\ syncChan = <<>> /\ wmsg = {}
    /\ retry  = [b \in Block |-> 0]
    /\ bak    = [b \in Block |-> 0]
    /\ newest = [b \in Block |-> 0]
    /\ raced = {} /\ lost = {}

-----------------------------------------------------------------------------
(* Copies between the disk and the writer *)

Batched == UNION {reader[r].batch : r \in Reader}
Queued  == UNION {syncChan[i] : i \in 1..Len(syncChan)}
Copies  == Batched \cup Queued \cup wmsg

\* r still has to read b, or has read it and not sent it.
Has(r, b) == b \in reader[r].todo \/ \E c \in reader[r].batch : c.blk = b

UnderWay(b) == (\E r \in Reader : Has(r, b)) \/ (\E c \in Copies : c.blk = b)

-----------------------------------------------------------------------------
(* The agent: eBPF, GetBlocks, ReadBlocks *)

\* A write request completes on the device; block_rq_complete reserves a ring
\* buffer entry for it, or drops the event when there is no room.
Write(b, same) ==
    LET v == disk[b].ver + 1
        e == [blk |-> b, ver |-> v]
    IN /\ disk[b].ver < MaxVer
       /\ disk' = [disk EXCEPT ![b] = [ver |-> v, same |-> same]]
       /\ IF Cardinality(ring) < RingCap
          THEN ring' = ring \cup {e} /\ UNCHANGED lost
          ELSE lost' = lost \cup {e} /\ UNCHANGED ring
       /\ UNCHANGED <<up, tick, chan, buf, fileVars, reader, syncChan, writeVars>>

\* GetBlocks sends an event.  An error of WriteMessage is logged and the event
\* is gone; so it is when handleLiveWebSocket finds LiveChannel full.
ForwardEvent(e) ==
    /\ e \in ring
    /\ ring' = ring \ {e}
    /\ IF up /\ Cardinality(chan) < LiveCap
       THEN chan' = chan \cup {e} /\ UNCHANGED lost
       ELSE lost' = lost \cup {e} /\ UNCHANGED chan
    /\ UNCHANGED <<disk, up, tick, buf, fileVars, reader, syncChan, writeVars>>

\* What a read under number b yields.  When the offset trails behind it is
\* another block of the pair, which may equal the snapshot's block b or not.
ReadUnder(b, off) ==
    {[blk |-> b, ver |-> disk[b].ver, same |-> same, own |-> ~off] :
        same \in IF off THEN BOOLEAN ELSE {disk[b].same}}

\* ReadDataBlocks reads at its file offset under its next number.  After a read
\* error it goes on with the next number and the same offset, so that the rest of
\* the pair gets the content of earlier blocks.  At the last block of a pair (any
\* block may be it) an error leaves what was read so far unsent.
ReadBlock(r, b) ==
    LET rd   == reader[r]
        more == b + 1 \in rd.todo
        left == rd.todo \ {b}
    IN /\ IsLeast(b, rd.todo)
       /\ Cardinality(rd.batch) < BatchSize
       /\ \/ /\ \E c \in ReadUnder(b, rd.off) :
                   reader' = [reader EXCEPT ![r] =
                       [todo |-> left, batch |-> rd.batch \cup {c}, off |-> rd.off /\ more]]
             /\ lost' = lost \cup (IF rd.off THEN Current({b}) ELSE {})
          \/ /\ "read" \in Faults /\ more
             /\ reader' = [reader EXCEPT ![r] =
                    [todo |-> left, batch |-> rd.batch, off |-> TRUE]]
             /\ lost' = lost \cup Current({b})
          \/ /\ "read" \in Faults
             /\ reader' = [reader EXCEPT ![r] = [IdleReader EXCEPT !.todo = left]]
             /\ lost' = (lost \cup Current({b})) \cup Versions(rd.batch)
       /\ UNCHANGED <<disk, ring, up, tick, chan, buf, fileVars, syncChan, writeVars>>

\* The goroutine without its batch.  One that is not full was the pair's last,
\* and the next pair begins with a seek.
Emptied(r) ==
    {[reader[r] EXCEPT !.batch = {}, !.off = @ /\ more] :
        more \in IF Cardinality(reader[r].batch) < BatchSize THEN {FALSE} ELSE BOOLEAN}

\* Mutant: what is left at the end of a pair is not sent.
SendBatchFull(r) ==
    /\ up
    /\ Cardinality(reader[r].batch) = BatchSize
    /\ \E rd \in Emptied(r) : reader' = [reader EXCEPT ![r] = rd]
    /\ syncChan' = Append(syncChan, reader[r].batch)
    /\ UNCHANGED <<disk, ring, up, tick, chan, buf, fileVars, writeVars, lost>>

\* A batch is sent when it is full or at the end of a pair (any block may end
\* one).  handleLiveWebSocket drops the message when SyncChannel is full.
SendBatch(r) ==
    /\ up
    /\ reader[r].batch # {}
    /\ \E rd \in Emptied(r) : reader' = [reader EXCEPT ![r] = rd]
    /\ IF Len(syncChan) < SyncCap
       THEN syncChan' = Append(syncChan, reader[r].batch) /\ UNCHANGED lost
       ELSE lost' = lost \cup Versions(reader[r].batch) /\ UNCHANGED syncChan
    /\ UNCHANGED <<disk, ring, up, tick, chan, buf, fileVars, writeVars>>

\* The send fails: the error is logged, and the batch dies with its pair.
FailBatch(r) ==
    /\ ~up
    /\ reader[r].batch # {}
    /\ \E rd \in Emptied(r) : reader' = [reader EXCEPT ![r] = rd]
    /\ lost' = lost \cup Versions(reader[r].batch)
    /\ UNCHANGED <<disk, ring, up, tick, chan, buf, fileVars, syncChan, writeVars>>

\* The connection breaks: handleLiveWebSocket returns and stops its ticker, in
\* whose channel one tick may be left.
LinkDown ==
    /\ "link" \in Faults /\ up
    /\ up' = FALSE
    /\ tick' \in BOOLEAN
    /\ UNCHANGED <<agentVars, chan, buf, fileVars, syncChan, writeVars, lost>>

-----------------------------------------------------------------------------
(* The dispatcher: ChangeSectorTracker *)

Track(e) ==
    /\ e \in chan
    /\ chan' = chan \ {e}
    /\ buf' = buf \cup {e}
    /\ UNCHANGED <<agentVars, up, tick, fileVars, syncChan, writeVars, lost>>

\* Every two minutes writeBufferToFile; a file that cannot be opened or a line
\* that cannot be written is skipped, and the buffers are cleared all the same.
FlushTracker ==
    /\ buf # {}
    /\ buf' = {}
    /\ \E E \in MaybeFewer("file", buf) :
          /\ young' = young \cup E
          /\ lost' = lost \cup (buf \ E)
    /\ UNCHANGED <<agentVars, up, tick, chan, aged, syncer, syncChan, writeVars>>

\* Time passes: some .cst files become older than LiveSyncFreq.
Age(E) ==
    /\ E # {} /\ E \subseteq young
    /\ young' = young \ E
    /\ aged' = aged \cup E
    /\ UNCHANGED <<agentVars, up, tick, chan, buf, syncer, syncChan, writeVars, lost>>

-----------------------------------------------------------------------------
(* The dispatcher: SyncData, called by the ticker of the connection *)

\* The files are listed, then the dirty blocks (none when the list cannot be
\* read).  Without an aged .cst file the function returns before it looks at the
\* dirty list.
SyncBegin ==
    /\ up \/ tick
    /\ syncer.pc = "idle" /\ aged # {}
    /\ \E ok \in MayFail("store") :
          LET D == IF ok THEN Dirty ELSE {}
          IN syncer' = [pc |-> "retry", files |-> aged, dirty |-> D, todo |-> D]
    /\ aged' = {}
    /\ tick' = (tick /\ up)
    /\ UNCHANGED <<agentVars, up, chan, buf, young, syncChan, writeVars, lost>>

\* Mutant: UpdateBlockRetry writes the record back without looking whether it is
\* still there.
SyncRetryBlind(b) ==
    /\ syncer.pc = "retry" /\ IsLeast(b, syncer.dirty)
    /\ syncer' = [syncer EXCEPT !.dirty = @ \ {b}]
    /\ retry' = [retry EXCEPT ![b] = CountRetry(@)]
    /\ UNCHANGED <<agentVars, up, tick, chan, buf, young, aged, syncChan,
                   wmsg, bak, seen, newest, raced, lost>>

\* UpdateBlockRetry for one listed block, which the writer may have removed
\* since the list was read.
SyncRetry(b) ==
    /\ syncer.pc = "retry" /\ IsLeast(b, syncer.dirty)
    /\ syncer' = [syncer EXCEPT !.dirty = @ \ {b}]
    /\ \E ok \in MayFail("store") :
          retry' = IF ok /\ retry[b] > 0
                   THEN [retry EXCEPT ![b] = CountRetry(@)] ELSE retry
    /\ UNCHANGED <<agentVars, up, tick, chan, buf, young, aged, syncChan,
                   wmsg, bak, seen, newest, raced, lost>>

\* readSectorsFromFile for every listed file; one that cannot be read is
\* skipped (and still renamed at the end).
SyncReadFiles ==
    /\ syncer.pc = "retry" /\ syncer.dirty = {}
    /\ \E E \in MaybeFewer("file", syncer.files) :
          /\ syncer' = [syncer EXCEPT !.pc = "send", !.todo = @ \cup BlocksOf(E)]
          /\ lost' = lost \cup (syncer.files \ E)
    /\ UNCHANGED <<agentVars, up, tick, chan, buf, young, aged, syncChan, writeVars>>

LowestChunk(S) ==
    {b \in S : Cardinality({a \in S : a < b}) < ChunkSize}

\* One chunk of the sorted ranges goes to the agent, where processSyncAction
\* starts a goroutine for it beside those that still read for earlier chunks.
SyncSend(r) ==
    LET chunk == LowestChunk(syncer.todo)
    IN /\ up
       /\ syncer.pc = "send" /\ syncer.todo # {}
       /\ reader[r] = IdleReader
       /\ syncer' = [syncer EXCEPT !.todo = @ \ chunk]
       /\ reader' = [reader EXCEPT ![r] = [IdleReader EXCEPT !.todo = Requested(chunk)]]
       /\ raced' = {b \in raced : UnderWay(b)}
                     \cup {b \in Requested(chunk) : \E q \in Reader : Has(q, b)}
       /\ UNCHANGED <<disk, ring, up, tick, chan, buf, young, aged, syncChan,
                      wmsg, retry, bak, seen, newest, lost>>

\* WriteJSON fails: "continue" with the next chunk.
SyncSendFail ==
    LET chunk == LowestChunk(syncer.todo)
    IN /\ ~up
       /\ syncer.pc = "send" /\ syncer.todo # {}
       /\ syncer' = [syncer EXCEPT !.todo = @ \ chunk]
       /\ lost' = lost \cup Current(Requested(chunk))
       /\ UNCHANGED <<agentVars, up, tick, chan, buf, young, aged, syncChan, writeVars>>

\* Mutant: every old file is renamed, those that appeared meanwhile too.
SyncRenameAll ==
    /\ syncer.pc = "send" /\ syncer.todo = {}
    /\ syncer' = IdleSyncer
    /\ aged' = {}
    /\ UNCHANGED <<agentVars, up, tick, chan, buf, young, syncChan, writeVars, lost>>

\* The listed files become .cst.done, whatever happened to the chunks.  A file
\* that cannot be renamed is found again by the next SyncData.
SyncRename ==
    /\ syncer.pc = "send" /\ syncer.todo = {}
    /\ syncer' = IdleSyncer
    /\ \E E \in MaybeFewer("file", syncer.files) :
          aged' = aged \cup (syncer.files \ E)
    /\ UNCHANGED <<agentVars, up, tick, chan, buf, young, syncChan, writeVars, lost>>

-----------------------------------------------------------------------------
(* The dispatcher: WriteIncrementalBackupToFile *)

\* Mutant: a message is taken while another one is being written.
TakeMessageEarly ==
    /\ syncChan # <<>>
    /\ wmsg' = wmsg \cup Head(syncChan)
    /\ syncChan' = Tail(syncChan)
    /\ UNCHANGED <<agentVars, up, tick, chan, buf, fileVars,
                   retry, bak, seen, newest, raced, lost>>

TakeMessage ==
    /\ wmsg = {} /\ syncChan # <<>>
    /\ wmsg' = Head(syncChan)
    /\ syncChan' = Tail(syncChan)
    /\ UNCHANGED <<agentVars, up, tick, chan, buf, fileVars,
                   retry, bak, seen, newest, raced, lost>>

\* No snapshot is found or it cannot be opened: the message is dropped.
DropMessage ==
    /\ "file" \in Faults
    /\ wmsg = {} /\ syncChan # <<>>
    /\ syncChan' = Tail(syncChan)
    /\ lost' = lost \cup Versions(Head(syncChan))
    /\ UNCHANGED <<agentVars, up, tick, chan, buf, fileVars, writeVars>>

\* A message holds each block once, in ascending order.
IsNext(c) == c \in wmsg /\ \A d \in wmsg : c.blk <= d.blk

\* What the writer has when it took a copy: a wrong one is no version of its block.
Raised(c, n) == IF c.own /\ n < c.ver THEN c.ver ELSE n

\* Mutant: a block that equals the snapshot leaves the loop over the message.
WriteBlockBreak(c) ==
    LET b == c.blk
    IN /\ IsNext(c)
       /\ wmsg' = IF c.same THEN {} ELSE wmsg \ {c}
       /\ seen' = [seen EXCEPT ![b] = [ver |-> c.ver, same |-> c.same]]
       /\ newest' = [newest EXCEPT ![b] = Raised(c, @)]
       /\ retry' = [retry EXCEPT ![b] = Relisted(c, @)]
       /\ bak' = IF c.same THEN bak ELSE [bak EXCEPT ![b] = c.ver]
       /\ UNCHANGED <<agentVars, up, tick, chan, buf, fileVars, syncChan, raced, lost>>

\* One block is compared with the snapshot.  A different one is appended to the
\* .bak file (kept) and leaves the dirty list, though it could not be appended;
\* an equal one is put on the list, or its RetryCount is incremented (listed).
WriteBlock(c) ==
    LET b == c.blk
    IN /\ IsNext(c)
       /\ wmsg' = wmsg \ {c}
       /\ seen' = [seen EXCEPT ![b] = [ver |-> c.ver, same |-> c.same]]
       /\ \E kept \in MayFail("file"), listed \in MayFail("store") :
             /\ retry' = IF listed THEN [retry EXCEPT ![b] = Relisted(c, @)] ELSE retry
             /\ bak' = IF kept /\ ~c.same
                       THEN [bak EXCEPT ![b] = IF c.own THEN c.ver ELSE Foreign] ELSE bak
             /\ IF IF c.same THEN listed \/ retry[b] > 0 ELSE kept
                THEN newest' = [newest EXCEPT ![b] = Raised(c, @)] /\ UNCHANGED lost
                ELSE lost' = lost \cup Versions({c}) /\ UNCHANGED newest
       /\ UNCHANGED <<agentVars, up, tick, chan, buf, fileVars, syncChan, raced>>

\* The snapshot's block cannot be read, or IsBlockDirty fails: the block is
\* skipped, before any comparison.
SkipBlock(c) ==
    /\ {"store", "file"} \cap Faults # {} /\ IsNext(c)
    /\ wmsg' = wmsg \ {c}
    /\ lost' = lost \cup Versions({c})
    /\ UNCHANGED <<agentVars, up, tick, chan, buf, fileVars, syncChan,
                   retry, bak, seen, newest, raced>>

-----------------------------------------------------------------------------
AgentStep ==
    \/ \E b \in Block, same \in BOOLEAN : Write(b, same)
    \/ \E e \in ring : ForwardEvent(e)
    \/ \E r \in Reader, b \in Block : ReadBlock(r, b)
    \/ \E r \in Reader : SendBatch(r) \/ FailBatch(r)

TrackStep ==
    \/ \E e \in chan : Track(e)
    \/ FlushTracker
    \/ \E E \in SUBSET young : Age(E)

SyncStep ==
    \/ SyncBegin \/ SyncReadFiles
    \/ \E b \in Block : SyncRetry(b)
    \/ \E r \in Reader : SyncSend(r)
    \/ SyncSendFail \/ SyncRename

WriterStep ==
    \/ TakeMessage \/ DropMessage
    \/ \E c \in wmsg : WriteBlock(c) \/ SkipBlock(c)

Next == AgentStep \/ LinkDown \/ TrackStep \/ SyncStep \/ WriterStep

Spec == Init /\ [][Next]_vars

\* Every loop of the code is a goroutine or a ticker of its own that keeps being
\* scheduled while the connection is up; nothing makes writes or failures fair.
Fairness ==
    /\ WF_vars(\E e \in ring : ForwardEvent(e))
    /\ WF_vars(\E e \in chan : Track(e))
    /\ WF_vars(FlushTracker)
    /\ WF_vars(Age(young))
    /\ WF_vars(SyncBegin) /\ WF_vars(SyncReadFiles) /\ WF_vars(SyncRename)
    /\ \A b \in Block : WF_vars(SyncRetry(b))
    /\ \A r \in Reader : /\ WF_vars(SyncSend(r))
                         /\ WF_vars(SendBatch(r))
                         /\ \A b \in Block : WF_vars(ReadBlock(r, b))
    /\ WF_vars(TakeMessage)
    /\ WF_vars(\E c \in wmsg : WriteBlock(c))

FairSpec == Spec /\ Fairness

-----------------------------------------------------------------------------
(* Properties *)

TypeOK ==
    /\ disk \in [Block -> Content]
    /\ ring \subseteq Event /\ chan \subseteq Event /\ buf \subseteq Event
    /\ young \subseteq Event /\ aged \subseteq Event
    /\ up \in BOOLEAN /\ tick \in BOOLEAN
    /\ syncer \in [pc : {"idle", "retry", "send"}, files : SUBSET Event,
                   dirty : SUBSET Block, todo : SUBSET Block]
    /\ reader \in [Reader -> [todo : SUBSET Block, batch : SUBSET Copy, off : BOOLEAN]]
    /\ syncChan \in Seq(SUBSET Copy)
    /\ wmsg \in SUBSET Copy
    /\ retry \in [Block -> Nat]
    /\ bak \in [Block -> Nat \cup {Foreign}]
    /\ seen \in [Block -> Content \cup {Unseen}]
    /\ newest \in [Block -> Nat] /\ raced \subseteq Block
    /\ lost \subseteq Event

\* The event of the last write of b.
Report(b) == [blk |-> b, ver |-> disk[b].ver]

\* The current content of b is still going to be read from the disk.
Pending(b) ==
    \/ Report(b) \in ring \cup chan \cup buf \cup young \cup aged
    \/ syncer.pc = "retry" /\ Report(b) \in syncer.files
    \/ b \in Requested(syncer.todo)
    \/ \E r \in Reader : b \in reader[r].todo

InFlight(b) == \E c \in Copies : c.own /\ c.blk = b /\ c.ver = disk[b].ver

Forgone(b) == Report(b) \in lost

\* The current content of a block is never forgotten without a trace: it is
\* still going to be read, is on its way to the writer, was handled by the
\* writer, or one of the failure paths of the code gave it up.  (SyncData,
\* ChangeSectorTracker, GetBlocks and ReadDataBlocks hand changes over without
\* any acknowledgement.)
Accounted ==
    \A b \in Block :
        Pending(b) \/ InFlight(b) \/ newest[b] = disk[b].ver \/ Forgone(b)

\* A block is on the dirty list exactly when its last copy that the writer
\* handled equalled the snapshot: UpdateBlockRetry in SyncData works from an
\* older list and must not put a block back that the writer removed since.
DirtyExact ==
    \A b \in Block : (retry[b] > 0) <=> (seen[b] # Unseen /\ seen[b].same)

\* The writer never handles an older copy of a block after a newer one, so that
\* the last .bak entry of a block wins, unless two ReadBlocks goroutines had the
\* block at the same time: processSyncAction starts one per message and lets the
\* earlier ones run on.
NeverBackwards == [][\A b \in Block \ raced : seen[b].ver <= seen'[b].ver]_seen

Settled(b) == ~Pending(b) /\ ~InFlight(b) /\ ~Forgone(b)

\* The copy handled last is older than one handled before.
Overtaken(b) == seen[b] # Unseen /\ seen[b].ver < newest[b]

\* Image content of a block after a merge of every .bak file.
Merged(b) == IF disk[b].same THEN bak[b] = 0 ELSE bak[b] = disk[b].ver

\* Once nothing is under way for a block that was neither given up nor overtaken,
\* merging the .bak files gives its current content, or the block went back to the
\* snapshot's content and is on the dirty list.
SettledOrListed ==
    \A b \in Block :
        Settled(b) => Overtaken(b) \/ Merged(b) \/ (disk[b].same /\ b \in Dirty)

\* Every block ends with its last content handled by the writer.
Converges == \A b \in Block : <>[](newest[b] = disk[b].ver)

\* LiveSync implements ChangeCapture.
Capture == INSTANCE ChangeCapture
             WITH written  <- [b \in Block |-> disk[b].ver],
                  captured <- newest,
                  forgone  <- lost

CaptureSpec == Capture!CSpec
=============================================================================
