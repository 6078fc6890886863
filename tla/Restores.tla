------------------------------- MODULE Restores -------------------------------
(***************************************************************************)
(* Restoring files and partitions on one agent over its /ws/restore        *)
(* connections: the text user interface stores an action, the goroutine a  *)
(* connection has on the dispatcher finds it (CheckActions) and sends the  *)
(* data (RestoreFiles, RestorePartition), the agent unpacks the archive or *)
(* writes the partition.  Connections break and are made again; sending on *)
(* one that is closed ends the dispatcher (utils.StreamData), which starts *)
(* again with its database and nothing else.                               *)
(*                                                                         *)
(* Data is abstracted to the number of a piece: a chunk of an archive or a *)
(* batch of blocks.  Actions of other types and agents are left out.       *)
(***************************************************************************)
EXTENDS PartitionWriter

CONSTANTS
    Files,      \* actions that restore files; the others restore a partition
    Pieces,     \* pieces[a]: chunks or batches of action a
    Odd,        \* partitions whose last batch is not full
    MaxActions, \* records a query reads (CONST_MAX_ACTIONS_TO_PROCESS, 1000)
    Retries,    \* attempts at a chunk (maxRetries, 5)
    MaxConn     \* bound: connections the agent makes

ASSUME ActionAssumption == Action \subseteq Nat \ {0} /\ Files \subseteq Action
ASSUME PieceAssumption  == Pieces \in [Action -> Nat \ {0}] /\ Odd \subseteq Action
ASSUME RunAssumption    == MaxActions \in Nat /\ Retries \in Nat \ {0} /\ MaxConn \in Nat \ {0}

Conn == 1..MaxConn

VARIABLES
    status,     \* the stored records: ActionStatus of an action
    handler,    \* is handleRestoreWebSocket of a connection reading it
    tick,       \* is a tick waiting in the ticker of a connection
    work,       \* the goroutine of a connection that calls CheckActions
    latest,     \* agents[agentID].RestoreConn, 0 when there is none
    mutex,      \* whose goroutine holds restorePartitionMutex, 0 when none
    made,       \* how many connections the agent has made
    cur,        \* the connection the agent reads, 0 when it has none
    wire,       \* the messages on their way to the agent
    restore,    \* currentRestoreState of the agent
    unpacked,   \* history: what processCompleteData was given
    accepted    \* history: chunks of an action some WriteJSON took

serverVars == <<status, handler, tick, work, latest, mutex>>
linkVars   == <<made, cur, wire>>
fileVars   == <<restore, unpacked>>
vars == <<serverVars, linkVars, fileVars, accepted, writerVars>>

-----------------------------------------------------------------------------
(* Data *)

Status == {"none", "waiting", "started", "Completed", "completed", "failed"}

FilePc      == {"archive", "start", "chunk", "mark", "end", "done", "failed"}
PartitionPc == {"lock", "size", "stream", "eof", "unlock"}
Pc          == {"idle", "next"} \cup FilePc \cup PartitionPc

\* conn: the connection a restore took when it began; piece: the next to send
Worker == [pc : Pc, todo : SUBSET Action, act : Action \cup {0},
           piece : Nat, tries : 0..Retries-1, conn : Conn \cup {0}]
AtFirst(pc, S, a) ==
    [pc |-> pc, todo |-> S, act |-> a, piece |-> 1, tries |-> 0, conn |-> 0]
Idle == AtFirst("idle", {}, 0)

Message == [type : {"start", "chunk", "complete", "batch"}, of : Action, num : Nat]

\* The chunks received, each with the action it is of; TotalChunks and FilePath
\* are those of the action whose start message made the state.
NoRestore    == [of |-> 0, got |-> <<>>]
RestoreState == [of : Action \cup {0}, got : Seq(Action)]

\* A batch carries the destination; the last one, sent at the end of the file,
\* carries the path it was read from.
PathOf(a, i) == <<a, IF a \in Odd /\ i = Pieces[a] THEN "source" ELSE "dest">>

-----------------------------------------------------------------------------
Init ==
    /\ status  = [a \in Action |-> "none"]
    /\ handler = [c \in Conn |-> FALSE]
    /\ tick    = [c \in Conn |-> FALSE]
    /\ work    = [c \in Conn |-> Idle]
    /\ latest = 0 /\ mutex = 0
    /\ made = 0 /\ cur = 0 /\ wire = <<>>
    /\ restore = NoRestore /\ unpacked = {}
    /\ accepted = [a \in Action |-> {}]
    /\ WriterInit

-----------------------------------------------------------------------------
(* Connections *)

\* createRestoreAction and createPartitionRestoreAction of the user interface.
CreateAction(a) ==
    /\ status[a] = "none"
    /\ status' = [status EXCEPT ![a] = "waiting"]
    /\ UNCHANGED <<handler, tick, work, latest, mutex, linkVars, fileVars,
                   accepted, writerVars>>

\* ConnectToDispatcher dials again until it succeeds; the dispatcher registers
\* the connection and gives it a ticker and a goroutine.
Connect ==
    /\ cur = 0 /\ made < MaxConn
    /\ made' = made + 1 /\ cur' = made + 1 /\ latest' = made + 1
    /\ wire' = <<>>
    /\ handler' = [handler EXCEPT ![made + 1] = TRUE]
    /\ UNCHANGED <<status, tick, work, mutex, fileVars, accepted, writerVars>>

\* The connection is gone for the agent, with what was on its way.
HangUp == cur' = 0 /\ wire' = <<>> /\ UNCHANGED made

LinkBreaks ==
    /\ cur # 0 /\ HangUp
    /\ UNCHANGED <<serverVars, fileVars, accepted, writerVars>>

\* The handler's read fails: it closes the connection and stops the ticker.
\* The goroutine is not told; a tick that waits is still taken.
NoticeLoss(c) ==
    /\ handler[c] /\ cur # c
    /\ handler' = [handler EXCEPT ![c] = FALSE]
    /\ UNCHANGED <<status, tick, work, latest, mutex, linkVars, fileVars,
                   accepted, writerVars>>

Tick(c) ==
    /\ handler[c] /\ ~tick[c]
    /\ tick' = [tick EXCEPT ![c] = TRUE]
    /\ UNCHANGED <<status, handler, work, latest, mutex, linkVars, fileVars,
                   accepted, writerVars>>

\* WriteJSON returns no error: the message is on its way, or already lost.
Sends(c, m) ==
    /\ handler[c]
    /\ wire' = IF cur = c THEN Append(wire, m) ELSE wire
    /\ UNCHANGED <<made, cur>>

SendFails(c) == ~handler[c] \/ cur # c

-----------------------------------------------------------------------------
(* CheckActions, one goroutine per connection *)

At(c, pc) == work[c].pc = pc

Become(c, pc) == work' = [work EXCEPT ![c].pc = pc]

Record(a, s) == status' = [status EXCEPT ![a] = s]

\* Mutant: the last record the query may read is left out.
WaitingUnderLimit ==
    {a \in Action : /\ status[a] = "waiting"
                    /\ Cardinality({b \in Action : b <= a /\ status[b] # "none"}) < MaxActions}

\* GetAllActionsWithStatus: the waiting ones among the first records by key.
Waiting ==
    {a \in Action : /\ status[a] = "waiting"
                    /\ Cardinality({b \in Action : b <= a /\ status[b] # "none"}) <= MaxActions}

\* The waiting actions are read once, before the first of them is begun.
StartCheck(c) ==
    /\ At(c, "idle") /\ tick[c]
    /\ tick' = [tick EXCEPT ![c] = FALSE]
    /\ work' = [work EXCEPT ![c].pc = "next", ![c].todo = Waiting]
    /\ UNCHANGED <<status, handler, latest, mutex, linkVars, fileVars, accepted,
                   writerVars>>

\* Actions come in no particular order (SelectAll returns a map); each is
\* recorded as started, whatever its record says by now.
NextAction(c, a) ==
    /\ At(c, "next") /\ a \in work[c].todo
    /\ Record(a, "started")
    /\ work' = [work EXCEPT ![c] =
           AtFirst(IF a \in Files THEN "archive" ELSE "lock", work[c].todo \ {a}, a)]
    /\ UNCHANGED <<handler, tick, latest, mutex, linkVars, fileVars, accepted,
                   writerVars>>

EndCheck(c) ==
    /\ At(c, "next") /\ work[c].todo = {}
    /\ work' = [work EXCEPT ![c] = Idle]
    /\ UNCHANGED <<status, handler, tick, latest, mutex, linkVars, fileVars,
                   accepted, writerVars>>

\* The outcome of the restore is recorded, and the next action follows.
Finish(c) ==
    /\ work[c].pc \in {"done", "failed"}
    /\ Record(work[c].act, IF At(c, "done") THEN "completed" ELSE "failed")
    /\ Become(c, "next")
    /\ UNCHANGED <<handler, tick, latest, mutex, linkVars, fileVars, accepted,
                   writerVars>>

-----------------------------------------------------------------------------
(* RestoreFiles *)

\* The connection of the moment is taken and the files are archived.
Archive(c) ==
    /\ At(c, "archive")
    /\ \/ work' = [work EXCEPT ![c].pc = "start", ![c].conn = latest]
       \/ Become(c, "failed")
    /\ UNCHANGED <<status, handler, tick, latest, mutex, linkVars, fileVars,
                   accepted, writerVars>>

SendStart(c) ==
    /\ At(c, "start")
    /\ \/ /\ Sends(work[c].conn, [type |-> "start", of |-> work[c].act, num |-> 0])
          /\ Become(c, "chunk")
       \/ /\ SendFails(work[c].conn)
          /\ Become(c, "failed")
          /\ UNCHANGED linkVars
    /\ UNCHANGED <<status, handler, tick, latest, mutex, fileVars, accepted,
                   writerVars>>

\* Progress is stored from time to time with the whole record, as read when it
\* was waiting and marked as started.
MayReport(c) ==
    status' \in {status, [status EXCEPT ![work[c].act] = "started"]}

SendChunk(c) ==
    LET w == work[c]
    IN /\ At(c, "chunk")
       /\ Sends(latest, [type |-> "chunk", of |-> w.act, num |-> w.piece])
       /\ accepted' = [accepted EXCEPT ![w.act] = @ \cup {w.piece}]
       /\ IF w.piece = 1 THEN UNCHANGED status ELSE MayReport(c)
       /\ work' = [work EXCEPT ![c].pc = IF w.piece = Pieces[w.act] THEN "mark" ELSE "chunk",
                               ![c].piece = @ + 1, ![c].tries = 0]
       /\ UNCHANGED <<handler, tick, latest, mutex, fileVars, writerVars>>

\* Mutant: after the last attempt the loop is left as if the chunk were sent.
RetryChunkGivesUp(c) ==
    LET w == work[c]
    IN /\ At(c, "chunk") /\ SendFails(latest)
       /\ work' = [work EXCEPT ![c] =
              IF w.tries < Retries - 1 THEN [w EXCEPT !.tries = @ + 1]
              ELSE [w EXCEPT !.pc = IF w.piece = Pieces[w.act] THEN "mark" ELSE "chunk",
                             !.piece = @ + 1, !.tries = 0]]
       /\ UNCHANGED <<status, handler, tick, latest, mutex, linkVars, fileVars,
                      accepted, writerVars>>

\* Mutant: the attempts are not counted.
RetryChunkForever(c) ==
    /\ At(c, "chunk") /\ SendFails(latest)
    /\ UNCHANGED vars

\* Mutant: one attempt too many.
RetryChunkOnce(c) ==
    LET w == work[c]
    IN /\ At(c, "chunk") /\ SendFails(latest)
       /\ work' = [work EXCEPT ![c] = IF w.tries < Retries
                                      THEN [w EXCEPT !.tries = @ + 1]
                                      ELSE [w EXCEPT !.pc = "failed"]]
       /\ UNCHANGED <<status, handler, tick, latest, mutex, linkVars, fileVars,
                      accepted, writerVars>>

\* Two seconds later the chunk is tried again, on the connection there is then.
RetryChunk(c) ==
    LET w == work[c]
    IN /\ At(c, "chunk") /\ SendFails(latest)
       /\ work' = [work EXCEPT ![c] = IF w.tries < Retries - 1
                                      THEN [w EXCEPT !.tries = @ + 1]
                                      ELSE [w EXCEPT !.pc = "failed"]]
       /\ UNCHANGED <<status, handler, tick, latest, mutex, linkVars, fileVars,
                      accepted, writerVars>>

MarkCompleted(c) ==
    /\ At(c, "mark")
    /\ Record(work[c].act, "Completed")
    /\ Become(c, "end")
    /\ UNCHANGED <<handler, tick, latest, mutex, linkVars, fileVars, accepted,
                   writerVars>>

\* The complete message goes to the connection of the start message.
SendComplete(c) ==
    /\ At(c, "end")
    /\ \/ /\ Sends(work[c].conn, [type |-> "complete", of |-> work[c].act, num |-> 0])
          /\ Become(c, "done")
       \/ /\ SendFails(work[c].conn)
          /\ Become(c, "failed")
          /\ UNCHANGED linkVars
    /\ UNCHANGED <<status, handler, tick, latest, mutex, fileVars, accepted,
                   writerVars>>

-----------------------------------------------------------------------------
(* RestorePartition *)

\* Mutant: the mutex is not waited for.
LockMutexNoWait(c) ==
    /\ work[c].pc \in {"lock", "eof"}
    /\ Become(c, IF At(c, "lock") THEN "size" ELSE "unlock")
    /\ mutex' = IF At(c, "lock") THEN c ELSE mutex
    /\ status' = IF At(c, "lock") THEN status
                 ELSE [status EXCEPT ![work[c].act] = "Completed"]
    /\ UNCHANGED <<handler, tick, latest, linkVars, fileVars, accepted, writerVars>>

\* CheckActions locks the mutex before RestorePartition, and RestorePartition
\* locks it again at the end of the file, to clear isPartitionRestore.
LockMutex(c) ==
    /\ work[c].pc \in {"lock", "eof"} /\ mutex = 0
    /\ Become(c, IF At(c, "lock") THEN "size" ELSE "unlock")
    /\ mutex' = IF At(c, "lock") THEN c ELSE 0
    /\ status' = IF At(c, "lock") THEN status
                 ELSE [status EXCEPT ![work[c].act] = "Completed"]
    /\ UNCHANGED <<handler, tick, latest, linkVars, fileVars, accepted, writerVars>>

\* The connection of the moment is taken; without a size the restore fails.
OpenSource(c) ==
    /\ At(c, "size")
    /\ \/ /\ work' = [work EXCEPT ![c].pc = "stream", ![c].conn = latest]
          /\ UNCHANGED status
       \/ /\ Record(work[c].act, "failed")
          /\ Become(c, "unlock")
    /\ UNCHANGED <<handler, tick, latest, mutex, linkVars, fileVars, accepted,
                   writerVars>>

StreamBatch(c) ==
    LET w == work[c]
    IN /\ At(c, "stream")
       /\ Sends(w.conn, [type |-> "batch", of |-> w.act, num |-> w.piece])
       /\ MayReport(c)
       /\ work' = [work EXCEPT ![c].pc = IF w.piece = Pieces[w.act] THEN "eof" ELSE "stream",
                               ![c].piece = @ + 1]
       /\ UNCHANGED <<handler, tick, latest, mutex, fileVars, accepted, writerVars>>

\* log.Fatalf: the dispatcher ends and is started again.
StreamFatal(c) ==
    /\ At(c, "stream") /\ SendFails(work[c].conn)
    /\ handler' = [d \in Conn |-> FALSE]
    /\ tick'    = [d \in Conn |-> FALSE]
    /\ work'    = [d \in Conn |-> Idle]
    /\ latest' = 0 /\ mutex' = 0
    /\ UNCHANGED <<status, linkVars, fileVars, accepted, writerVars>>

\* Whatever RestorePartition returned, the action is then recorded as completed.
UnlockMutex(c) ==
    /\ At(c, "unlock")
    /\ mutex' = 0
    /\ Become(c, "done")
    /\ UNCHANGED <<status, handler, tick, latest, linkVars, fileVars, accepted,
                   writerVars>>

-----------------------------------------------------------------------------
(* The agent *)

Incoming(type) == wire # <<>> /\ Head(wire).type = type

Take == wire' = Tail(wire) /\ UNCHANGED <<made, cur>>

\* An error in the message loop closes the connection; the state stays.
Refuse == HangUp /\ UNCHANGED fileVars

ReceiveStart ==
    /\ Incoming("start")
    /\ IF restore.of # 0 THEN Refuse
       ELSE /\ restore' = [of |-> Head(wire).of, got |-> <<>>]
            /\ Take /\ UNCHANGED unpacked
    /\ UNCHANGED <<serverVars, accepted, writerVars>>

\* An archive of chunks of different actions fails its checksum, after some of
\* it may have been unpacked.
Whole(r) == \A i \in 1..Len(r.got) : r.got[i] = r.of

\* A chunk is taken if its index is the number of chunks there are.  The last
\* one has the archive unpacked.
ReceiveChunk ==
    /\ Incoming("chunk")
    /\ IF restore.of = 0 \/ Head(wire).num # Len(restore.got) + 1 THEN Refuse
       ELSE LET r == [restore EXCEPT !.got = Append(@, Head(wire).of)]
                full == Len(r.got) = Pieces[r.of]
            IN /\ restore' = r
               /\ unpacked' = IF full THEN unpacked \cup {r} ELSE unpacked
               /\ IF full /\ ~Whole(r) THEN HangUp ELSE Take
    /\ UNCHANGED <<serverVars, accepted, writerVars>>

\* The archive is unpacked once more.
ReceiveComplete ==
    /\ Incoming("complete")
    /\ IF restore.of = 0 \/ Len(restore.got) # Pieces[restore.of] THEN Refuse
       ELSE /\ unpacked' = unpacked \cup {restore}
            /\ IF Whole(restore) THEN Take /\ restore' = NoRestore
               ELSE HangUp /\ UNCHANGED restore
    /\ UNCHANGED <<serverVars, accepted, writerVars>>

ReceivePartition ==
    /\ Incoming("batch")
    /\ LET m == Head(wire)
       IN TryStartRestore([of |-> m.of, num |-> m.num, path |-> PathOf(m.of, m.num)])
    /\ Take
    /\ UNCHANGED <<serverVars, fileVars, accepted>>

WritePartition(r) ==
    /\ RunStep(r)
    /\ UNCHANGED <<serverVars, linkVars, fileVars, accepted>>

-----------------------------------------------------------------------------
CheckStep(c) ==
    StartCheck(c) \/ EndCheck(c) \/ Finish(c) \/ \E a \in Action : NextAction(c, a)

FileStep(c) ==
    \/ Archive(c) \/ SendStart(c) \/ SendChunk(c) \/ RetryChunk(c)
    \/ MarkCompleted(c) \/ SendComplete(c)

PartitionStep(c) ==
    LockMutex(c) \/ OpenSource(c) \/ StreamBatch(c) \/ StreamFatal(c) \/ UnlockMutex(c)

WorkerStep(c) == CheckStep(c) \/ FileStep(c) \/ PartitionStep(c)

ReceiveStep == ReceiveStart \/ ReceiveChunk \/ ReceiveComplete \/ ReceivePartition

Next ==
    \/ \E a \in Action : CreateAction(a)
    \/ Connect \/ LinkBreaks
    \/ \E c \in Conn : NoticeLoss(c) \/ Tick(c) \/ WorkerStep(c)
    \/ ReceiveStep
    \/ \E r \in runs : WritePartition(r)

Spec == Init /\ [][Next]_vars

\* The ticker and the goroutine of a connection, its handler's read and the
\* loops of the agent keep running; actions and broken links are not fair.
FairSpec ==
    /\ Spec
    /\ \A c \in Conn : WF_vars(Tick(c)) /\ WF_vars(WorkerStep(c)) /\ WF_vars(NoticeLoss(c))
    /\ WF_vars(ReceiveStep)
    /\ WF_vars(\E r \in runs : WritePartition(r))

-----------------------------------------------------------------------------
(* Properties *)

TypeOK ==
    /\ status \in [Action -> Status]
    /\ handler \in [Conn -> BOOLEAN] /\ tick \in [Conn -> BOOLEAN]
    /\ work \in [Conn -> Worker]
    /\ latest \in Conn \cup {0} /\ mutex \in Conn \cup {0}
    /\ made \in Nat /\ cur \in Conn \cup {0}
    /\ wire \in Seq(Message)
    /\ restore \in RestoreState /\ unpacked \subseteq RestoreState
    /\ accepted \in [Action -> SUBSET Nat]
    /\ WriterTypeOK

\* A file restore recorded as completed had every chunk taken by a connection,
\* over however many connections, attempts and restarts (the retry loop of
\* RestoreFiles, pkg/dispatcher/restore.go).
CompletedWasSent ==
    \A a \in Files : status[a] \in {"Completed", "completed"}
                        => 1..Pieces[a] \subseteq accepted[a]

\* No batch of a partition lies twice on a path of the agent, and two of them lie
\* in the order they were sent exactly if one goroutine wrote both: one that
\* started after the 20 seconds without data writes its later batches before the
\* earlier ones, from the beginning of the device (pkg/agent/restore.go line 127).
BatchesInOrder ==
    \A t \in Target : \A i, j \in DOMAIN written[t] :
        LET d == written[t][i]  e == written[t][j]
        IN (i < j /\ d.of = e.of) => /\ d.num # e.num
                                     /\ d.num < e.num <=> d.run = e.run

\* Whatever fails, the goroutine of a connection leaves RestoreFiles.
FileRestoreEnds == \A c \in Conn : work[c].pc \in FilePc ~> work[c].pc \notin FilePc

\* A waiting action is taken, unless the connection goes or its goroutine is
\* held up by a partition restore.
WaitingIsTaken ==
    \A c \in Conn, a \in Action :
        (status[a] = "waiting" /\ handler[c])
            ~> (status[a] # "waiting" \/ ~handler[c] \/ work[c].pc \in PartitionPc)

\* pkg/dispatcher/restore.go line 285 logs "Restore completed" once the last
\* batch is sent, and then records the action as completed.
PartitionRestoreEnds == \A c \in Conn : At(c, "eof") ~> ~At(c, "eof")
=============================================================================
