--------------------------- MODULE PartitionWriter ---------------------------
(***************************************************************************)
(* How the agent writes a partition that is being restored: the            *)
(* RestoreManager of pkg/agent/websocket.go, which starts a goroutine for  *)
(* the first message, and RestorePartition of pkg/agent/restore.go, which  *)
(* that goroutine runs until no message has come for 20 seconds.           *)
(***************************************************************************)
EXTENDS Naturals, Sequences, FiniteSets

CONSTANTS
    Action,     \* the restore actions
    Devices,    \* the paths that are block devices; the others are plain files
    Capacity    \* messages the channel of the manager holds (100)

\* Every action names a path on the dispatcher and one on the agent, the only
\* two paths its messages carry.
Target == Action \X {"source", "dest"}

\* The num-th message of a partition restore, as the agent receives it.
Batch == [of : Action, num : Nat, path : Target]

\* A batch on a path of the agent, with the goroutine that wrote it.  A batch is
\* as long as any other: it takes one position.
Entry == [of : Action, num : Nat, run : Nat]

VARIABLES
    running,    \* isRunning
    open,       \* is restoreCh open
    channel,    \* the messages in restoreCh
    runs,       \* the goroutines in runRestore
    born,       \* history: how many runRestore goroutines were started
    written     \* what a path of the agent holds of what was written, by position

writerVars == <<running, open, channel, runs, born, written>>

\* pos: how many batches the goroutine has written, where its file stands
Run == [id : Nat, path : Target, pos : Nat, pc : {"open", "receive", "leave"}]

WriterInit ==
    /\ running = FALSE /\ open = TRUE
    /\ channel = <<>> /\ runs = {} /\ born = 0
    /\ written = [t \in Target |-> <<>>]

-----------------------------------------------------------------------------
Goto(r, pc) == runs' = (runs \ {r}) \cup {[r EXCEPT !.pc = pc]}

\* Under the mutex: the first message starts a goroutine with a channel of its
\* own.  Every message is then sent without waiting, and dropped when the
\* channel is full.
TryStartRestore(b) ==
    LET queue == IF running THEN channel ELSE <<>>
    IN /\ running' = TRUE
       /\ open' = (running => open)
       /\ born' = IF running THEN born ELSE born + 1
       /\ runs' = IF running THEN runs
                  ELSE runs \cup {[id |-> born, path |-> b.path, pos |-> 0, pc |-> "open"]}
       /\ channel' = IF Len(queue) < Capacity THEN Append(queue, b) ELSE queue
       /\ UNCHANGED written

\* What a path holds when it was opened with O_TRUNC: that empties a plain file,
\* and does nothing to a device.
Truncated(t) == IF t \in Devices THEN written[t] ELSE <<>>

\* The path of the message that started the goroutine is opened, and the file
\* stands at its beginning.
OpenTarget(r) ==
    /\ r.pc = "open"
    /\ \/ Goto(r, "receive") /\ written' = [written EXCEPT ![r.path] = Truncated(r.path)]
       \/ Goto(r, "leave") /\ UNCHANGED written
    /\ UNCHANGED <<running, open, channel, born>>

\* s with e at position i, which is in s or the one behind it.
Put(s, i, e) == IF i <= Len(s) THEN [s EXCEPT ![i] = e] ELSE Append(s, e)

\* The blocks of the next message are written where the file stands, whatever
\* their numbers and whatever was there; an error ends RestorePartition.
ReceiveBatch(r) ==
    /\ r.pc = "receive" /\ channel # <<>>
    /\ channel' = Tail(channel)
    /\ \/ LET e == [of |-> Head(channel).of, num |-> Head(channel).num, run |-> r.id]
          IN /\ written' = [written EXCEPT ![r.path] = Put(@, r.pos + 1, e)]
             /\ runs' = (runs \ {r}) \cup {[r EXCEPT !.pos = @ + 1]}
       \/ Goto(r, "leave") /\ UNCHANGED written
    /\ UNCHANGED <<running, open, born>>

\* No message for 20 seconds: RestorePartition returns.
QuietEnd(r) ==
    /\ r.pc = "receive" /\ channel = <<>>
    /\ Goto(r, "leave")
    /\ UNCHANGED <<running, open, channel, born, written>>

\* Mutant: the deferred function closes the channel and keeps isRunning set.
CloseOnly(r) ==
    /\ r.pc = "leave"
    /\ runs' = runs \ {r}
    /\ open' = FALSE /\ channel' = <<>>
    /\ UNCHANGED <<running, born, written>>

\* The deferred function of runRestore, under the mutex.  Messages that came
\* since RestorePartition returned are in the closed channel, and nobody
\* receives from it again.
LeaveRun(r) ==
    /\ r.pc = "leave"
    /\ runs' = runs \ {r}
    /\ running' = FALSE /\ open' = FALSE /\ channel' = <<>>
    /\ UNCHANGED <<born, written>>

RunStep(r) == OpenTarget(r) \/ ReceiveBatch(r) \/ QuietEnd(r) \/ LeaveRun(r)

-----------------------------------------------------------------------------
WriterTypeOK ==
    /\ running \in BOOLEAN /\ open \in BOOLEAN
    /\ channel \in Seq(Batch)
    /\ runs \subseteq Run /\ born \in Nat
    /\ written \in [Target -> Seq(Entry)]

\* TryStartRestore never sends on a closed channel, which would end the agent,
\* and two goroutines never share a channel: isRunning, the channel and the
\* goroutine change in different steps of different goroutines.
OneOpenRun ==
    /\ running => open
    /\ running <=> runs # {}
    /\ \A r, s \in runs : r = s
=============================================================================
