# Verification of blxrep

blxrep backs up block devices over the network. An *agent* runs on every machine to be protected, one
*dispatcher* stores the backups. The agent copies each disk in full, traces block writes with eBPF while it does so
and from then on, and reports the changed blocks; the dispatcher collects the reports, asks for the blocks, and
stores those that differ from the full copy.

This directory holds TLA+ models of that program, the TLC configurations that check them on small instances, and
proofs that TLAPS checks for every instance. Paths are relative to `src/`; numbers after a colon are lines.

    tlc -workers 2 -config live_main.cfg MCLiveSync.tla     # a run
    tlapm LiveSyncProofs.tla                                # the proofs of a module

| Module | What it is |
|---|---|
| `ChangeCapture` | abstract specification: what change tracking promises |
| `LiveSync` | the pipeline from a disk write to a `.bak` file, over one connection |
| `BlockRanges` | the range arithmetic of `SyncData`, loop by loop |
| `BackupFiles` | the files of one disk, and everyone who creates and removes them |
| `RestorePoints` | abstract specification: what these files promise to whoever merges a checkpoint |
| `Mounts` | the merge of a checkpoint, step by step beside all of `BackupFiles`, which it extends |
| `FullCopy` | full copies of all disks of an agent over several snapshot connections |
| `PartitionWriter` | how the agent writes a partition that is restored: `RestoreManager` |
| `Restores` | restore actions from the user interface to the agent; composes `PartitionWriter` |
| `Registry` | the stored record of an agent and everyone who reads, changes and rewrites it |
| `Sessions` | config and live connections, the agent's configuration; composes `Registry` |
| `MCLiveSync`, `MCBlockRanges`, `MCBackupFiles`, `MCMounts`, `MCFullCopy`, `MCRestores`, `MCSessions` | instances for TLC |
| `LiveSyncProofs`, `LiveOrderProofs`, `BlockRangesProofs`, `BackupFilesProofs`, `MountsProofs`, `FullCopyProofs`, `RestoresProofs`, `SessionsProofs` | theorems and their proofs; `LiveOrderProofs` extends `LiveSyncProofs`, `MountsProofs` extends `BackupFilesProofs` |

`PROJECT.json` lists the components, the runs, which lines of the source each definition stands for, the hazards of
the code with the properties that cover them, and for each property a mutation of the model that breaks it.

## 1. The system

Data directory of the dispatcher: `snapshot/<agent>_<disk>_<minute>.img` and `.log` (full copies),
`incremental/<agent>_<disk>_<minute>.cst` (changed ranges, renamed to `.cst.done` when done with) and `.bak`
(changed blocks), `archive/`. Agent and dispatcher speak over four WebSocket connections: `config`, `snapshot`,
`live`, `restore`.

| Component | State | Operations | Talks to | Hard | Correct when |
|---|---|---|---|---|---|
| Live change tracking (`bpf/trace-blocks.c`, `pkg/agent/live.go`, `pkg/dispatcher/live.go`, `handleLiveWebSocket`) | eBPF ring buffer; `LiveChannel`, `SyncChannel` (10000 each); `sectorBufferMap`; `.cst` files; the running `ReadBlocks` goroutines | report a write, `ChangeSectorTracker`, `SyncData`, `ReadDataBlocks`, `WriteIncrementalBackupToFile` | live connection, dirty-block store, block ranges, full copy | no hand-over is acknowledged; five goroutines and a ticker; bounded queues that drop; failures that are logged and passed by | the latest content of a block is handled or given up on a path that shows; order of versions; convergence |
| Dirty-block store (`service/dirtyblock_db_utils.go`) | a record per block that equalled the full copy when read, with a retry count | add, remove, update retry, list | writer and `SyncData` at the same time | the list is read and used later | it holds exactly the blocks last seen equal |
| Block ranges (`live.go:274-365`) | slices of ranges | sort and merge, widen by `BLOCK_DELTA` | `SyncData` | unsigned arithmetic at both ends; device size from the wrong machine | no block lost, none invented |
| Backup files (`backup.go`, `live.go:40-143`, `672-806`) | `.img`/`.log`/`.bak` files by minute; the open file and encoder; snapshot handle | `WriteFullBackupToFile`, rotation, merge up to a checkpoint | everyone below | writers name files by the minute and find others' files by name; encoder buffers; a restart truncates | the merge gives what was captured |
| Retention cleanup (`cleanup_jobs.go`) | lists made in a first pass | `performCleanup`: times, snapshots, incrementals | the files | three passes, each on older information; removals fail | the most recent snapshot stays; no change is lost |
| Archive job (`compress.go`) | the file being compressed | `processFiles` | the files, action records | hours between the look at a file and its removal | nothing in use is taken |
| Checkpoint merge (`dispatcher.go:508-700`, `live.go:672-859`) | base image, chosen `.bak` files | `CheckpointMerge`, `ProcessIncrementalBackups` | the files, TUI | a process of its own, with no lock against the jobs; the base may be later than the checkpoint; errors that are dropped | nothing from after the checkpoint in the image, nothing captured before it missing |
| Actions (`actions.go`, `UpdateProgress`, `service/action_db_utils.go`) | action records in BoltDB | check, pause, resume, progress, stale | restores, copies, TUI, backend | unlocked read-modify-write from many goroutines; one list executed by two loops | states move forward; each action runs once |
| Partition restore (`restore.go:200-300`, `agent/restore.go:124-173`, `RestoreManager`) | `restorePartitionMutex`, `isPartitionRestore`; `isRunning`, `restoreCh` | stream blocks, write them | restore connection | the mutex is taken twice; a message races with a 20 s timeout | every block written, in order; the loop survives |
| File restore (`restore.go:29-147`, `agent/restore.go:18-120`) | chunk counters, `currentRestoreState` | send start, chunks, end; collect | restore connection | retry on another connection | all chunks once, or a failure reported |
| Full copy (`agent/clone.go`) | `isCloning`, position | `Clone`, `Resume` | snapshot connection | flag reset after the first disk | one copy at a time |
| Connections (`agent/websocket.go`, `dispatcher.go:113-486`) | the `agents` map with channels and connections; `isLive`, `isCloning` | connect, reconnect, route | all | flags and goroutines outlive a connection | after a reconnection the system works as before |
| Configuration (`dispatcher/config.go`, `utils/config.go`, `service/agent_db_utils.go`, `storage/boltdb`) | agent records; the agent's configuration with a condition variable | schedule, register, wait | connections, cleanup | read-all/write-all against single updates; one wait per deadline | no update lost; waits end in time |
| TUI, backend reporting, footprint, scheduled copies, commands, logging | screens, HTTP, system information | | stores | | |

## 2. What each module models

### LiveSync
One disk, one live connection. A block's content is a *version* (the number of writes) and whether it *equals the
full copy*, which is all the writer compares. The full copy is complete and stable.

| State | Code |
|---|---|
| `disk`, `ring` | the device; the eBPF ring buffer (`trace-blocks.c:33-76`) |
| `chan`, `buf` | `LiveChannel`; `sectorBufferMap` of `ChangeSectorTracker` |
| `young`, `aged` | events in `.cst` files, younger or older than `LiveSyncFreq` |
| `syncer` | local variables of a running `SyncData` |
| `reader` | the `ReadBlocks` goroutines: blocks to read, batch, and `off`: the file offset trails behind the block number |
| `syncChan`, `wmsg` | `SyncChannel`; the rest of the message the writer is at |
| `retry` | the dirty list with its counts |
| `bak` | the last `.bak` entry of a block; `Foreign` when it is another block's content |
| `seen`, `newest`, `lost`, `raced` | history: last handled copy, greatest handled version, what the code gave up, blocks that two `ReadBlocks` goroutines had at once (as long as anything of them is under way) |

Each action is one atomic piece of the code between two points where another goroutine can get in: an event sent or
dropped (`ForwardEvent`), a block read (`ReadBlock`), a batch sent (`SendBatch`, `FailBatch`), the tracker's step and
its flush, the ageing of files, the six steps of `SyncData`, and the writer's message and block. `SyncData` is cut
where it hands over: list files and dirty blocks (`SyncBegin`), update one retry count (`SyncRetry`), read the files,
send a chunk, rename the files. `Faults` says which failures a run lets happen: `link` (the connection breaks),
`file` (files that cannot be opened, written or renamed), `read` (device reads), `store` (BoltDB). Queues drop when
full, in every run. What is in flight in TCP when the connection breaks is not a queue of its own: losing it is the
same as breaking the connection before it was sent.

`ReadDataBlocks` seeks once per range and goes on after a read error (`agent/live.go:211-223`). So does `ReadBlock`: after an
error inside a range the numbers that follow get the content found at the old offset (`ReadUnder`). Such a copy is not
its block's own, may equal the full copy's block or not, and the version it hides is on record in `lost`. The next range
begins with a seek. Every sync message starts a goroutine beside the earlier ones (`SyncSend`), so one that read a block
first may send it last.

A sync tick may be waiting when the connection breaks; after that nothing of the connection runs again. That the
agent reports nothing over a *new* connection either is in `Sessions`.

### ChangeCapture
Per block: versions written, the newest captured, the versions forgone. Its safety part allows a capture only of
what was written, never backwards; its full form adds that each block is eventually captured. `LiveSync` implements
it by `written = disk.ver`, `captured = newest`, `forgone = lost`, which `live_main` checks where nothing fails.

### BlockRanges
`sortAndDeduplicate`, `expandSyncRange` and `expandBlockPairs` as the loops they are, one action per turn, with block
numbers modulo `Width` (2^64 in the code). `sort.Slice` is any rearrangement that is sorted. `total` is the size the
dispatcher found for the device: the right one, `Width - 1` when the lookup failed, or that of a device of its own.
A size of 0 is excluded by assumption (`totalBlocks-1` would wrap).

### BackupFiles
The files of one disk with the times the code looks at: the `ModTime` of each file and the minute in its name, two
different readings of one clock.

| State | Code |
|---|---|
| `snap` | `.img` and `.log` of a minute: ModTimes and, per block, content |
| `stream` | the running `WriteFullBackupToFile`: its file name, next block, last message |
| `cst`, `bak` | records in `.cst` files by ModTime; `.bak` files of a minute with their entries in order |
| `writer` | `BackupWriter`: open file, what the zstd encoder still holds, buffer, the snapshot handle, and `bad`: a write to the open file has failed |
| `arch`, `archiving` | the archive; the file `processFiles` is compressing |
| `cleaner` | `performCleanup`: which pass, latest time, files still to look at |
| `captured`, `gone`, `cut` | history: entries flushed, those a restart or a failed write lost, the latest time a cleanup used |

A tick of the clock is longer than the 3 s after which `WriteFullBackupToFile` gives up, and a minute is `Minute`
ticks (`UnitAssumption`: retention and archive interval are at least a minute; in the code they are hours and
more). The path of a change is two steps here (recorded in a `.cst` file; its current content reaches the writer),
as `LiveSync` has the rest. The encoder may have written any prefix of what it was given. A restart loses what is in
memory. Writes to a `.bak` file may fail, and the encoder writes in the background: `flushBuffer` may not notice
(`LoseFlush`), or it may get the error and keep its buffer for the next file (`FailFlush`), whose caller ignores it
(`live.go:661`); `rotateFile` ignores the error of `encoder.Close` (`Closable`). After a failure the encoder writes nothing more to
that file. An error is noticed a block of the compressor, 128 KB, after it happened, or later, so that none of the at most
100 blocks that are kept had reached the file.

Simplifications: one full backup and one incremental writer at a time; an entry per message; each pass over
a directory starts from one listing, but every file is looked at and removed in a step of its own.

### RestorePoints
For every minute and block a *point*: the version a merge gives and the minute of the file it comes from. Minutes that
are *over* stay over and their points stay as they are, but for a block whose point is no younger than what has *expired*:
an earlier version takes its place, or none. `BackupFiles` implements it with `point` = (`MergedFrom`, `Merged`), `over` =
the past minutes the writer has nothing for any more, `expired` = the minute of the latest snapshot a cleanup went by.

### Mounts
`CheckpointMerge` runs in the process of the user interface. `Mounts` extends `BackupFiles` with one merge at a time, as
many one after the other as one likes; the dispatcher's steps come between any two of its own.

| State | Code |
|---|---|
| `mount.pc`, `kind`, `upto` | where `CheckpointMerge` is; a `.bak` or an `.img` checkpoint; the minute in its name |
| `mount.base`, `image`, `files` | the image chosen; the copy in `final/`; the selected `.bak` files still to be read |
| `mount.ok` | no `.bak` file was missing |
| `mount.at`, `once`, `owed` | history: ModTime of the base when it was copied, whether it holds one full backup, the captures in the files to merge |
| `past`, `appended` | history: the disk at the end of each minute; images a second full backup was appended to |

The steps are the accesses to the file system: choose the base (`FindBase`, `latestSnapshot`), copy it (`CopyBase`), list the `.bak`
files (`ListBaks`), read one file and write its entries (`ApplyBak`, `MissBak` when it is gone). A file is read at once: what a
reader gets of a file that is being appended to is what it was when the end was met, and a file removed while it is open
stays readable. The ways out are those of the code: an error for an `.img` checkpoint (`error`), for a `.bak` checkpoint the image as it is
(`stale` when not even the base could be copied, `done` with `ok = FALSE` when a file was missing), the index of an
empty slice (`panic`). Simplifications: one disk of one agent; no write error on the image; a file whose end is cut in the
middle of an entry loses that entry only, as the encoder's frames are the prefixes of `BackupFiles`.

### FullCopy
The disks of an agent, copied one after the other by the goroutine that a snapshot connection starts, if
`isCloning` says that there is none. Each connection also brings a writer on the dispatcher; all writers take from
the one `SnapshotChannel`, which outlives connections.

| State | Code |
|---|---|
| `open`, `made` | the snapshot connections: the loop of `ConnectToDispatcher` and the scheduled job have one each |
| `cloning`, `loop` | `isCloning`; per connection, the goroutine of `connectAndHandle` with the position of `Clone` |
| `started` | history: calls of `Clone`; a call's number stands for its `StartTime` |
| `channel` | `SnapshotChannel` |
| `writer` | a running `WriteFullBackupToFile`: minute in its file names, first `StartTime`, bytes written |
| `image` | the `.img` file of a disk and minute: the beginning of one copy, so many messages long, or something else |
| `completed` | copies whose action `UpdateProgress` recorded as completed |
| `mixed` | history: a connection was made while anything was left of an earlier one |

`SendPiece` puts a message into the channel, or ends the connection when there is no room; over a connection that is
gone a message is lost (`LosePiece`) or ends the agent (`AgentDies`, the `log.Fatalf` of `StreamData`). The writer
takes a message (`TakePiece`) or leaves after three seconds without one (`QuietEnd`), at any moment the channel is
empty, as nothing bounds the pauses of a slow disk or link. It then compares what it wrote, of *all* disks, with the
size of the disk its *first* message was of. Simplifications: every disk has as many messages; of actions, only the
completion; pause, stop and `Resume`, errors of files and devices, and the `.log` files are left out.

### Restores and PartitionWriter
One agent, any number of restore actions, any number of `/ws/restore` connections, one after the other for the agent
while the dispatcher's goroutines of earlier ones go on.

| State | Code |
|---|---|
| `status` | the action records in BoltDB |
| `handler`, `tick`, `work` | per connection: is `handleRestoreWebSocket` reading; the waiting tick; the goroutine that runs `CheckActions` with the list it read, and where it is in `RestoreFiles` or `RestorePartition` |
| `latest`, `mutex` | `agents[agentID].RestoreConn`; `restorePartitionMutex` |
| `made`, `cur`, `wire` | connections made, the one the agent reads, the messages on it |
| `restore`, `unpacked` | `currentRestoreState` of the agent; history: what was unpacked |
| `accepted` | history: the chunks that a `WriteJSON` took |
| `running`, `open`, `channel`, `runs` | `RestoreManager`: `isRunning`, `restoreCh` and whether it is open, the `runRestore` goroutines |
| `written` | what a path of the agent holds, by position: which batch, and which goroutine wrote it |

The steps are those of the goroutines between two calls that others can get in between: the list is read
(`StartCheck`), an action recorded as started (`NextAction`), then sent piece by piece, chunks with retries on
whatever connection there is (`RetryChunk`), batches on the one the restore began with (`StreamBatch`, `StreamFatal`).
`MayReport` is the progress report that writes a whole record back. Data is the number of a piece; the archive's
checksum is modelled by whether all its chunks are of one action. `Devices` are the paths that are block devices: the
user interface proposes one as destination (`tui/partitions.go:199`), and on it `O_TRUNC` does nothing, so that a
goroutine that starts after another one left writes over what is there, from the beginning (`OpenTarget`, `Put`); a
plain file is emptied. A batch takes one position. Simplifications: other actions and agents are left out; a partition's
action names paths nobody else uses; the files to archive and the device may fail to open, at one place each; a batch
is written whole or not at all.

### Registry and Sessions
One agent and one policy file that the operator changes (`policy`, a version number; `Wants` says which disks a
version does not exclude).

| State | Code |
|---|---|
| `rec`, `at`, `copy` | the agent's record; who holds a copy of it, in what step: passes of `ConfigScheduler` and the handlers of the three connections |
| `cfg`, `waited` | `agentConfigManager`; the waits of `ConnectToDispatcher` so far |
| `link`, `live`, `isLive`, `traced` | the config connection, the loop of the live endpoint, its flag, the disks whose `GetBlocks` sends on the connection there is |
| `serving` | `handleLiveWebSocket`: waiting for the frequency, tracking |
| `events` | history: disturbances so far |

A read and a write of the record are one BoltDB transaction each, and a step each; nothing is locked in between.
`ConfigScheduler` reads all records, applies the policy and writes them all. The handler of a config connection registers an
unknown agent and closes; otherwise it takes the footprint, makes a pass of its own, reloads, sends the
configuration and reads until its deadline, which nobody lifts: the agent dials again, and that is how changes reach
it. Disturbances happen once each: a footprint later than the deadline, a broken config or live connection, a restart
of the agent, the registration of a snapshot connection. Simplifications: one agent (a pass of the connection of
*another* agent is one of `Pass`); a live handler of an earlier connection that still waits for the frequency is left out; the
agent dials when the handler of its last connection has ended.

## 3. Runs

| Run | Question | Bounds | States | Outcome |
|---|---|---|---|---|
| `live_main` | without failures: is the dirty list exact, does every change arrive? | 2 blocks, one written twice and one once (`OneTwice`), one reader, queues that do not fill, fairness | 135 k | holds: `DirtyExact`, `Converges`, `CaptureSpec` |
| `live_faults` | with every failure: is a change ever gone without a trace, do versions keep their order, does a merge give the last content? | 2 blocks, 2 writes, two readers, queues of 1, all faults; two readers race for one block, or one reads both (`RaceOrMisread`) | 1.4 M | holds: `TypeOK`, `Accounted`, `SettledOrListed`, `NeverBackwards` |
| `ranges` | do merging and widening keep exactly the right blocks? | every list of up to 3 records over blocks 0..6, delta 2, all three kinds of size | 0.9 M | holds: `TypeOK`, `MergeExact`, `Separated`, `RequestExact` |
| `files_keep` | does a job take what is in use, or the last snapshot? | 6 clock values in 3 minutes, retention and archive age of a minute, all failures | 0.9 M | holds: `TypeOK`, `ImageStays`, `NewestKept` |
| `files_merge` | does a merge give what was captured, and the same whenever one merges? | 3 minutes, 2 writes, all failures, cleanup | 0.8 M | holds: `CheckpointExact`, `PointsKept` |
| `files_cleanup` | `docs/architecture.md:17`, for the cleanup | 2 blocks, 5 clock values, no failures | | **violated**, see 4 |
| `mounts` | what does a merge give while the dispatcher goes on? | 1 block, 3 minutes, retention and archive age of a minute, restarts; 2 writes while no job is at work, else 1 (`SmallMerge`) | 1.5 M | holds: `MountsTypeOK`, `PointInTime`, `MountComplete`, `MountExact` |
| `copies` | is an image one copy, is a completed copy whole, is `isCloning` ever left set? | 2 disks of 2 messages, 2 connections, 2 minutes, channel of 1, two broken connections or restarts | 1.8 M | holds: `TypeOK`, `ImageIsBeginning`, `CompletedIsWhole`, `CloningIsBusy` |
| `restores` | do batches keep their order, is the writer's channel ever closed under a sender? | two partitions of 2 and 3 batches on devices, 2 connections, channel of 1 | 0.9 M | holds: `OneOpenRun`, `BatchesInOrder` |
| `restores_fair` | is a completion on record true, does a file restore end, is a waiting action taken? | a file of 2 pieces, 2 connections, 2 attempts, fairness | 99 k | holds: `TypeOK`, `CompletedWasSent`, `FileRestoreEnds`, `WaitingIsTaken` |
| `restore_ends` | `pkg/dispatcher/restore.go:285`: the restore completes | a partition, 1 connection, no failure | | **violated**, see 4 |
| `sessions` | does a policy come into force, are unwanted disks left alone, are changes reported? | 1 disk, 2 policy versions of which the last wants it, the timer's pass, 1 wait, any one of five disturbances, fairness | 178 k | holds: `TypeOK`, `OnlyWantedDisks`, `PolicyStays`, `PolicyReachesAgent`, `ChangesReported` |

Why the bounds are enough. Two writes give an older and a newer version of a block, and so reordering, overwriting,
and a return to the original content. Two blocks give a message that is partly done, a batch in the making, and a read
at the place of an earlier block after an error; two readers an overtaking. `RaceOrMisread` leaves out the product of the
two: either only the second block is written, up to twice, and both goroutines may have it; or one block is written once, and one
goroutine at a time reads, of both blocks where both are asked for. Queues of one are full as soon as two things are
under way. Three records can overlap, touch,
nest and be apart in one list; a width of 16 lets every bound wrap. Three minutes give a snapshot that is expired,
one that is not, and a third being written while the jobs are between two of their passes. `files_keep` leaves the
changes out (`MaxVer = 0`) and `files_merge` the archive job (`ArchiveAge` beyond the clock), as neither bears on the
other's question. `mounts` needs three minutes too: a block in two closed files, of which the younger must win, or an image
before and one after the checkpoint. Its two constraints are named in `MCMounts`: nothing is explored after the end of a merge, as
the next one starts from `NoMount` whatever the last one left; and a second version of a block is only there while no job is at
work, since files that go and files that hold the same block are separate questions. Failures of files are left out there, as
`files_keep` and `files_merge` have them; a copy still fails, and a file is still missed, when a job was faster.
`live_main` has no queue that fills, which `live_faults` has. Two disks give a flag that is reset
between them and a writer that counts both; two connections a writer, messages or a goroutine that meet another's; two
minutes an image that is appended to and one that is new. In `restores`, three batches let a writer leave after two of them and the next one write
the third at the beginning of the device, so that it holds 3, 2; two partitions give two goroutines with two lists that want
`restorePartitionMutex`, and two paths one writer may be mixed up with. In `restores_fair`, two attempts of which one is on another
connection give the races of a file restore; a file and a partition together are in no run, and only in the proofs. A
channel of one is full with the second message. Two policies, the first without the disk, make an old record differ from a new one.

Where the model has used up its bound it may stop: writes and clock in `LiveSync`, the input in `BlockRanges`,
connections in `FullCopy` and `Restores`. Those runs do not check deadlock. In `restore_ends` the program itself stops.

Properties in words:

- `Accounted`: the current content of each block is still to be read, under way, handled, or on record as lost.
- `DirtyExact`: a block is on the dirty list exactly when its last handled copy equalled the full copy.
- `NeverBackwards`: the writer never handles an older copy of a block after a newer one, unless two `ReadBlocks` goroutines had
  the block at the same time.
- `SettledOrListed`: when nothing is under way for a block, and its current version was neither given up nor handled before
  an older one, merging gives its content, or it went back to the full copy's and is on the dirty list.
- `Converges`, `CaptureSpec`: every block ends with its last content handled; the pipeline is a `ChangeCapture`.
- `MergeExact`, `Separated`, `RequestExact`: at every turn of the merge loop the same blocks; a gap between ranges;
  the request is exactly the neighbourhood of the changes on the device found.
- `ImageStays`: no job removes an image that is being appended to. `NewestKept`: after each deletion a snapshot at
  least as recent remains, in place or archived.
- `CheckpointExact`: merging up to a minute whose file is closed gives each block at least as new as captured, and
  nothing that was not captured by then; what a restart or a failed write of the file lost is excepted, and nothing else.
- `PointsKept`: `BackupFiles` implements `RestorePoints`: merging for a minute that is over gives the same whenever it is
  done, but for expiry.
- `PointInTime`: a finished merge holds, for each block, nothing younger than the disk was at the end of the checkpoint's minute or
  of the minute the base was last written in, whichever is later; an image two full backups were appended to is excepted.
  `MountComplete`: a merge that missed no file gives each block at least as new as captured in the closed, unexpired files up to the checkpoint,
  as they were when it listed them.
  `MountExact`: from a base that is not later than the checkpoint, a block that was captured as it was at the end of the checkpoint's
  minute, in a file the merge had to take, has exactly that content.
- `ImageIsBeginning`: an image holds the beginning of one copy of its disk. `CompletedIsWhole`: the copy of a completed
  action is whole. Both except what a connection met of an earlier one (`mixed`): messages in the channel, a writer
  in its three seconds, a goroutine between two disks, an image of the same minute. Without that exception neither
  holds (see 4). `CloningIsBusy`: `isCloning` is never left set when no goroutine is there that will reset it.
- `CompletedWasSent`: a file restore recorded as completed had every chunk taken by a connection. `BatchesInOrder`:
  no batch of a partition lies twice on a path of the agent, and two of them lie in the order sent exactly when one goroutine
  wrote both: a later writer's batches, which are later ones, lie before what is left of an earlier's.
  `OneOpenRun`: at most one goroutine of the manager may still close `restoreCh`,
  and it is open while `isRunning`: nothing is sent to a closed channel.
- `FileRestoreEnds`, `WaitingIsTaken`: the goroutine leaves each file restore; a waiting action is taken, unless the
  connection goes or a partition restore holds the goroutine.
- `OnlyWantedDisks`: a disk every version of the policy excluded is neither configured nor traced.
  `PolicyStays`: a policy that the record, its copies and the agent's configuration have stays until the operator changes it.
  `PolicyReachesAgent`: the last policy is finally in force. `ChangesReported`: again and again there is a time when the
  agent traces what is wanted and the dispatcher takes it, unless a live connection was lost (see 4).

**Fairness.** `live_main`: Each goroutine of the agent and the dispatcher is a loop over its channel or a ticker and
keeps being scheduled: weak fairness on each of its steps. Files age because time passes. Writes, failures and
broken connections are not fair. The run has no failures and queues that do not fill, since otherwise changes are
lost and nothing needs to converge; that losses are on record then is `Accounted`.

`restores_fair`: each goroutine of a connection, its ticker, the handler's read, the agent's message loop and its writer keep
running: weak fairness on each. Actions, connections and breaks are not fair.

`sessions`: weak fairness on each loop of both sides and each holder of a record. Strong fairness where two periods
must meet: a pass is made every 10 s and a config connection every 15 s or more, each of their transactions takes milliseconds, so an old
copy is not written between the same two steps of *every* connection (`ReadAll("config")` with a footprint there,
`Reload` with disks there); the live loop comes round every 5 s, so that it meets a configuration with disks that
lasts longer (`LiveReady`, `DialLive`). Without these an unlucky schedule repeats one race for ever. Policies and
disturbances are not fair.

## 4. Disagreements and limits

Each of these runs ends in a counterexample:

1. *Cleanup of young changes* (`files_cleanup`, `pkg/dispatcher/cleanup_jobs.go:308`). `docs/architecture.md:17` promises
   "ensuring all changes are captured and preserved". The ModTime of an image is that of its last block. A change that hits a block
   already copied, and is recorded before the copy ends, counts as older than the snapshot, and its record is deleted.
2. *A partition restore never ends* (`restore_ends`, `pkg/dispatcher/restore.go:286`). `CheckActions` locks
   `restorePartitionMutex` (`actions.go:132`) and calls `RestorePartition`, which locks it again after the last batch and
   waits for itself. No goroutine can restore a partition afterwards.

Limits of the code that properties have as exceptions; each property fails without its exception:

3. *A block that returns to its original content* (`SettledOrListed`, `pkg/dispatcher/live.go:647`). A block is changed, backed up to
   a `.bak` file, and written back to what the full copy holds. The writer sees that it equals the full copy and
   appends nothing: a merge brings back the overwritten content.
4. *Overtaking readers* (`NeverBackwards` excepts `raced` blocks, `SettledOrListed` overtaken ones; `agent/live.go:279`). Each sync
   message starts a goroutine without waiting for the previous one; the one that read a block first can send it last. An
   older entry is then the last one in the `.bak` files, and the block is not on the dirty list.
5. *The wrong device* (`RequestExact` is about the device found, `live.go:342`). `expandBlockPairs` looks up the size of the
   agent's device path on the dispatcher. When a smaller device has that name there, changed blocks past its end are
   not asked for.
6. *A live connection that is made again* (`ChangesReported`, `agent/websocket.go:562`). `isLive` is set once and never
   reset, and `GetBlocks` keeps the connection it was started with: after a reconnection the dispatcher tracks and the
   agent reports nothing. `docs/architecture.md:19` says of reconnection that it "ensures data consistency".
7. *Snapshot connections that meet* (`ImageIsBeginning`, `CompletedIsWhole`; `dispatcher.go:145`, `backup.go:28`). Two writers on one
   channel share the messages of a copy; a writer that starts among old messages appends them to its image, and
   a second one in the same minute appends to the first one's image. As bytes are counted over all disks, an image
   with a hole can be recorded as completed.
8. *The base is later than the checkpoint* (`PointInTime`, `MountExact`; `live.go:826`). `README.md:186` says that one can "mount
   the disk backups to any available point in time". `latestSnapshot` takes the last image by name: after a second full backup, a
   merge of an earlier `.bak` file starts from content that was written after it.
9. *A merge that failed is mounted* (`MountComplete`, `dispatcher.go:696`). `CheckpointMerge` ignores the result of
   `processAndCheckCompletion`: when the cleanup removes a `.bak` file that was already listed, the rest is not merged and the
   image is mounted all the same.

10. *Captures lost without a restart* (`CheckpointExact` excepts what is `gone`; `live.go:88-105`, `661`). Errors of the encoder
    are ignored when a file is closed and when a message has been handled: what it held is lost, with nothing but a missing entry
    to show for it. `docs/architecture.md:17` speaks of "ensuring all changes are captured and preserved".

And three that no property excludes:

11. *Blocks with another block's content* (`ReadUnder`, `agent/live.go:211-223`). After a read error the blocks that follow in the range
    are sent, and stored, with the content of earlier ones. What the properties say is that these versions are on record as given up.
12. *A restored device that is overwritten* (`OpenTarget`, `agent/restore.go:127`). After 20 s without data the writer ends, and the
    next one begins at offset 0 of the device: its later batches replace the first ones. `BatchesInOrder` says what lies where.
13. *No image to start from* (the outcome `panic` of `FindBase`, `live.go:822`). The archive job removes images by age and leaves
    the `.bak` files that belong to them; `latestSnapshot` takes the last of an empty list, and the user interface ends in a panic.

## 5. Proofs

For every value of the constants that satisfies the named assumptions:

| Theorem | Says | Rests on |
|---|---|---|
| `LiveSyncProofs!TypeCorrect`, `IInvHolds` | the type invariant; `IInv` | |
| `AccountedHolds` | `Accounted`, any failures | `IInv` |
| `DirtyExactHolds` | `DirtyExact`, if the store does not fail (`"store" \notin Faults`: a failed update leaves an old record) | `TypeCorrect` |
| `LiveOrderProofs!NeverBackwardsHolds` | `NeverBackwards`, any failures and number of goroutines | `IInv` |
| `SettledOrListedHolds` | `SettledOrListed`, any failures and number of goroutines | `IInv` and the invariant of `NeverBackwardsHolds` |
| `BlockRangesProofs!IInvHolds`, `TypesHold`, `MergeExactHolds`, `SeparatedHolds`, `RequestExactHolds` | the range arithmetic, for any delta, width, size and number of records | `BlockAssumption`: no widened end wraps; `SizesAssumption`: size not 0 |
| `BackupFilesProofs!IInvHolds`, `TypeCorrect`, `ImageStaysHolds`, `NewestKeptHolds` | the safety of the jobs, any retention, interval and failures | `UnitAssumption`, `SizeAssumption` |
| `CheckpointExactHolds` | `CheckpointExact`, any failures, those of writing and closing the `.bak` files included | the same and `IInv` of `BackupFiles` |
| `PointsKeptHolds` | `Spec => PointsKept`: each step is a step of `RestorePoints` or a stutter, any failures | the same and `CheckpointExactHolds`' invariant |
| `MountsProofs!MountsKeepFiles` | `MountsSpec => Spec`: all of the above holds beside a merge | |
| `MInvHolds`, `MountsTypeCorrect`, `PointInTimeHolds`, `MountCompleteHolds`, `MountExactHolds` | `MountsTypeOK`, `PointInTime`, `MountComplete`, `MountExact`, any disk, retention, interval and failures | the invariants of `BackupFiles` |
| `FullCopyProofs!IInvHolds`, `TypesHold`, `CloningIsBusyHolds`, `ImageIsBeginningHolds`, `CompletedIsWholeHolds` | the safety of copies, any number of disks, messages and connections, any capacity | `CopyAssumption`: at least one of each |
| `RestoresProofs!TypesHold`, `ChannelIsOpen`, `CompletedHasBeenSent` | `TypeOK`, `OneOpenRun`, `CompletedWasSent`, any actions, pieces, connections | `ActionAssumption`, `PieceAssumption`, `RunAssumption` |
| `BatchesStayInOrder` | `BatchesInOrder`, any actions, pieces, connections, devices, breaks and restarts | the same and `IInv` of `Restores` |
| `SessionsProofs!IInvHolds`, `TypesHold`, `OnlyWantedDisksHolds`, `PolicyStaysHolds` | what records and configurations may hold, and that a policy in force stays so, any disks, policies, passes and disturbances | `PolicyAssumption`, `PassAssumption`, `WaitAssumption`, `EventAssumption` |

*LiveSync.* `Accounted` alone is not inductive: a version might be "under way" that is newer than the disk, or an idle
`SyncData` might hold files. `IInv` adds `Behind` (what is under way, captured or lost was written) and
`IdleEmpty` (an idle `SyncData` holds nothing). The step proof goes action by action through the places in which a
version can be.

*LiveSync, order.* `Order` gives each copy its place on the way to the writer: the batches, a message in
`syncChan`, the message the writer holds. Of a block that is not `raced`, one goroutine has it (`Alone`), a copy nearer to the
writer is never newer than one behind it and no place holds two (`Queue`), and what was handled is no newer than what is still to
come (`NotPast`); what a goroutine has in its batch it does not read again (`Unread`). `NeverBackwards` follows at the step
that handles a copy. A race ends when nothing of the block is under way, and the next request finds it in order again.
For `SettledOrListed`, `Faithful` says that a copy of the current version has its content, unless it is another block's, whose
version is then lost, and `Latest` that the copy handled last decides on the last entry and the dirty list, unless it was overtaken
or is lost. With `Accounted`, a settled block was handled with its current version; if nothing overtook it, it was the last.

*BlockRanges.* `IInv` says for each stage what the slices hold: sorted, the merged ones apart and before the current
one, and together with the records still to come exactly the blocks of the input. The lemmas are about
rearrangements, appended ranges and the two widened ends.

*BackupFiles.* The jobs look, and act much later; nothing locks. That it works rests on time. `NamedByMinute`: no file
is written before the minute in its name. `StreamRecent`: a running full backup wrote its files, or started, at most a tick
ago. So a file old enough to be removed is from an earlier minute and belongs to no running writer, nor will it to a
later one (`Closing`, `RemovalsClosing`); and when the first pass chose its victims, one snapshot at least as recent
was not among them, and is there or archived since (`Survivor`).

*BackupFiles, entries.* A capture goes from the writer's buffer through the encoder into the open file, any part at a time,
and every step may meet a file that is rotated, removed or truncated. `EntriesInOrder`: along this way, and from each file
to the later ones, the versions of a block never go down. `FilesInTime`: the open file is the last, and none was
written before its minute. `RemovedByCut`: so a cleanup removes only files whose minute is not after the
snapshot it goes by. `FilesHold`: a file holds captures of its minute only, and with what the encoder keeps all of them that
are not gone. That the merge finds a last file and a last entry is the least-number principle of the library.

*BackupFiles, restore points.* The steps are split by what they do to the files of minutes that are over. The writer's steps
change only the file of the current minute and the one it has open, and neither is over (`StepKeeps`); the clock makes
minutes be over and stores nothing (`StepAdvances`). A removal is of a file no younger than the cut (`RemovedByCut`,
`CutMinute`): if a block's point comes from it, the point falls back to an earlier file, otherwise the last file with the
block is still the last (`MergeAfterRemoval`).

*Mounts.* Nothing in the properties says how old a file's entries are, so `MInv` relates the files to the history of the disk:
blocks only get younger (`PastGrows`); entries are no younger than the minute of their file, also those the encoder has yet to
write (`FilesPast`); an image has its blocks in their places, none younger than its ModTime (`ImagesPast`), which in turn needs
that a full backup appends the block its image lacks (`StreamInPlace`). `ImageBounded` is then kept by the copy and by each
file merged, whose minute is not past the checkpoint. For `MountComplete`, `OwedStored` says where each capture owed is while the
merge runs: in a file nobody writes to that is still to be read, or in the image with all remaining files later. That
the next file overwrites it with nothing older is `EntriesInOrder` of `BackupFiles`; that a listed file can go, but not
change, is what a step of the dispatcher does to closed files (`Stored`). By `MountsKeepFiles` the invariants of
`BackupFiles` are used as proved there.

*FullCopy.* `IInv` says, as long as nothing is mixed: only the last connection has a goroutine or a writer
(`OneAtATime`); the messages in the channel follow one another and the goroutine sends the one after the last
(`InOrder`, unless its connection is gone and nothing follows); the images of the writer's minute are where the next
message begins, and no later disk has one (`Ready`); what the writer counted up to the size of a disk is of the first
disk (`Counted`). `ImageIsBeginning` alone is not inductive, as nothing in it says which message comes next.
`CloningIsBusy` makes a connection among no remains find `isCloning` reset, and so start the copy whose messages its writer
gets.

*Restores.* `IInv == TypeOK /\ Control /\ SentSoFar /\ CompletedWasSent /\ OneOpenRun`. `Control` ties the step a
goroutine is at to the kind of its action; `SentSoFar` says that a goroutine past piece *i* has had pieces up to *i*
accepted, which is what `CompletedWasSent` needs at the step that records completion.

*Restores, order.* `Placed`: the running goroutine stands in its file so that what lies before is its own and what lies behind was
written by earlier ones. `Order == Streaming /\ Flow`. `Flow`: what a path holds, then what is in the channel for it, then what is
on the wire, rises; on the path itself the batches of one goroutine rise, and those of a later one, which lie before, were sent
later (`Layered`). `Streaming` says why no second stream of the same partition interferes: a connection that streams
has `restorePartitionMutex`, which after the first batch is never given back but by a restart, and then the record says
that the action was taken (`TakenFirst`), so it is streamed once (`StreamedOnce`).

*Sessions.* Whoever writes a record back had read it, so `IInv` speaks of the stored record, of every copy of it, of the agent's
configuration and of the traced disks at once: all hold only disks some version up to now wants. Versions only grow, so
what was allowed once stays allowed. `PolicyStays` holds for the same reason: `InForce` says it of the record, of whatever is copied from
it and may still be written or sent, and of the configuration; a step either moves one of these on or copies it.

Only model-checked: liveness (`Converges`, `CaptureSpec`, `FileRestoreEnds`, `WaitingIsTaken`, `PolicyReachesAgent`,
`ChangesReported`), which TLAPS does not do.

## 6. Not modelled

`PROJECT.json` gives the reason for each component. In short:

- Wording, logging, progress figures, the compressed formats, checksums and the text user interface.
- `ResumeAction` and `Resume`: they read the last block from `<agent>.log` (`pkg/dispatcher/actions.go:182`), a name no
  writer uses, so resuming always fails and the action stays waiting. Pause and stop of a copy, and `StaledActions`.
- A second tracker and a second writer on the channels of a live connection that is made again. The agent reports no new
  change over it (6 above), but answers requests for `.cst` files that were left, whose blocks both writers then take.
- Two agents whose names begin alike, or several disks of one agent, whose `.bak` files the merge mixes up: string
  prefixes over several instances of `BackupFiles`.
- Mounting the merged image; the restore of a base that is archived (`Decompress`, `Restore`).
- The choice of the times at which the agent dials its snapshot connections (`IsCloneHealthy`, the cron entries): `FullCopy`
  lets it dial at any time.
- `TotalSyncData` and `GetAllDirtyBlocks` have no caller.

## 7. Plan

Done, the core first: `ChangeCapture`, `LiveSync`, `BlockRanges`, `BackupFiles`; then `Restores` with
`PartitionWriter`, `Registry` with `Sessions`, `FullCopy`; `RestorePoints` and `Mounts`. What would be next:

1. `Mounts` for two disks whose agents' names begin alike.
2. Pause and `Resume` in `FullCopy`, with the action records `UpdateProgress` and `StaledActions` write.
