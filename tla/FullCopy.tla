------------------------------- MODULE FullCopy -------------------------------
(***************************************************************************)
(* Full copies of an agent's disks: the goroutine a snapshot connection    *)
(* starts on the agent (pkg/agent/websocket.go, clone.go), the handler and *)
(* the writer it has on the dispatcher (pkg/dispatcher/dispatcher.go,      *)
(* backup.go), and the actions that record what is complete.               *)
(*                                                                         *)
(* Every connection brings a writer of its own, and all of them take from  *)
(* the one SnapshotChannel of the agent, which outlives connections.  A    *)
(* copy is known by the time it began, an image by disk and minute.  Data  *)
(* is abstracted to the number of a message, as many for each disk; of     *)
(* actions only the completion is kept.  Pause, stop and resume are left   *)
(* out.                                                                    *)
(***************************************************************************)
EXTENDS Naturals, Sequences, FiniteSets

CONSTANTS
    Disks,      \* number of disks in the agent's configuration
    Pieces,     \* messages of a full copy of a disk
    Capacity,   \* of SnapshotChannel (10000)
    MaxConn,    \* bound: snapshot connections
    MaxMinute,  \* bound: the clock stops there
    MaxTrouble  \* bound: connections lost, restarts of the dispatcher

ASSUME CopyAssumption ==
    /\ Disks \in Nat \ {0} /\ Pieces \in Nat \ {0} /\ Capacity \in Nat \ {0}
    /\ MaxConn \in Nat \ {0} /\ MaxMinute \in Nat /\ MaxTrouble \in Nat

Disk   == 1..Disks
Conn   == 1..MaxConn
Minute == 0..MaxMinute

\* Snapshot connections at a time: the loop of ConnectToDispatcher and the
\* scheduled job have one each.
Callers == 2

VARIABLES
    minute,
    open,       \* the snapshot connections there are
    made,       \* how many have been made
    cloning,    \* isCloning
    loop,       \* the goroutine of a connection that copies the disks
    started,    \* history: calls of Clone so far; each has its own StartTime
    channel,    \* SnapshotChannel
    writer,     \* the WriteFullBackupToFile of a connection
    image,      \* .img files
    completed,  \* copies whose action is recorded as completed
    trouble,    \* how much there was of it
    mixed       \* history: has a connection met remains of an earlier one

agentVars == <<cloning, loop, started>>
fileVars  == <<writer, image, completed>>
vars == <<minute, open, made, agentVars, channel, fileVars, trouble, mixed>>

-----------------------------------------------------------------------------
(* Data *)

Message == [copy : Nat, disk : Disk, num : 1..Pieces]

\* num: of the message to send next
Loop   == [pc : {"none", "clone", "next"}, disk : Disk, num : 1..Pieces+1,
           copy : Nat]
NoLoop == [pc |-> "none", disk |-> 1, num |-> 1, copy |-> 0]

\* An image: the beginning of a copy, so many messages long; or anything else.
Image    == [copy : Nat, len : 0..Pieces]
NoImage  == [copy |-> 0, len |-> 0]
Torn     == [copy |-> 0, len |-> 1]
\* What appending a message of its disk makes of it.
Appended(i, m) ==
    IF i = NoImage /\ m.num = 1 THEN [copy |-> m.copy, len |-> 1]
    ELSE IF i = [copy |-> m.copy, len |-> m.num - 1] THEN [i EXCEPT !.len = m.num]
    ELSE Torn

\* first: the copy whose StartTime the writer keeps; count: what it wrote
Writer   == [on : BOOLEAN, file : Minute, first : Nat, count : Nat]
NoWriter == [on |-> FALSE, file |-> 0, first |-> 0, count |-> 0]
NewWriter == [on |-> TRUE, file |-> minute, first |-> 0, count |-> 0]

Init ==
    /\ minute = 0 /\ open = {} /\ made = 0
    /\ cloning = FALSE /\ started = 0
    /\ loop   = [c \in Conn |-> NoLoop]
    /\ writer = [c \in Conn |-> NoWriter]
    /\ channel = <<>>
    /\ image  = [d \in Disk |-> [m \in Minute |-> NoImage]]
    /\ completed = {}
    /\ trouble = 0 /\ mixed = FALSE

-----------------------------------------------------------------------------
(* The agent *)

Copying(c) == loop[c].pc = "clone"

\* What a new connection would be mixed up with.
Remains ==
    \/ channel # <<>>
    \/ \E c \in Conn : writer[c].on \/ loop[c].pc # "none"
    \/ \E d \in Disk : image[d][minute] # NoImage

\* The call of Clone for disk d.
Clone(c, d) ==
    /\ started' = started + 1
    /\ loop' = [loop EXCEPT ![c] = [pc |-> "clone", disk |-> d, num |-> 1, copy |-> started']]

\* The handler starts a writer; the agent starts copying unless it does already.
Connect ==
    LET c == made + 1
    IN /\ made < MaxConn /\ Cardinality(open) < Callers
       /\ made' = c /\ open' = open \cup {c}
       /\ writer' = [writer EXCEPT ![c] = NewWriter]
       /\ mixed' = (mixed \/ Remains)
       /\ IF cloning
          THEN UNCHANGED agentVars
          ELSE cloning' = TRUE /\ Clone(c, 1)
       /\ UNCHANGED <<minute, channel, image, completed, trouble>>

Piece(c) == [copy |-> loop[c].copy, disk |-> loop[c].disk, num |-> loop[c].num]

\* Mutant: a full channel drops the message, as that of the live connection.
SendPieceOrDrop(c) ==
    /\ Copying(c) /\ loop[c].num <= Pieces
    /\ c \in open
    /\ loop' = [loop EXCEPT ![c].num = @ + 1]
    /\ channel' = IF Len(channel) < Capacity THEN Append(channel, Piece(c)) ELSE channel
    /\ UNCHANGED <<minute, open, made, cloning, started, fileVars, trouble, mixed>>

\* Mutant: there is room for one more than there is.
SendPieceBeyond(c) ==
    /\ Copying(c) /\ loop[c].num <= Pieces
    /\ c \in open
    /\ loop' = [loop EXCEPT ![c].num = @ + 1]
    /\ IF Len(channel) <= Capacity
       THEN channel' = Append(channel, Piece(c)) /\ UNCHANGED open
       ELSE open' = open \ {c} /\ UNCHANGED channel
    /\ UNCHANGED <<minute, made, cloning, started, fileVars, trouble, mixed>>

\* A message the handler has no room for ends the connection.
SendPiece(c) ==
    /\ Copying(c) /\ loop[c].num <= Pieces
    /\ c \in open
    /\ loop' = [loop EXCEPT ![c].num = @ + 1]
    /\ IF Len(channel) < Capacity
       THEN channel' = Append(channel, Piece(c)) /\ UNCHANGED open
       ELSE open' = open \ {c} /\ UNCHANGED channel
    /\ UNCHANGED <<minute, made, cloning, started, fileVars, trouble, mixed>>

\* Mutant: the goroutine returns on an error as Resume does when it cannot seek
\* (clone.go:104-107), with isCloning left set.
LosePieceReturn(c) ==
    /\ Copying(c) /\ loop[c].num <= Pieces
    /\ c \notin open
    /\ loop' = [loop EXCEPT ![c] = NoLoop]
    /\ UNCHANGED <<minute, open, made, cloning, started, channel, fileVars, trouble, mixed>>

\* The connection is gone, and the agent has not noticed.
LosePiece(c) ==
    /\ Copying(c) /\ loop[c].num <= Pieces
    /\ c \notin open
    /\ loop' = [loop EXCEPT ![c].num = @ + 1]
    /\ UNCHANGED <<minute, open, made, cloning, started, channel, fileVars, trouble, mixed>>

\* End of the disk.
EndDisk(c) ==
    /\ Copying(c) /\ loop[c].num > Pieces
    /\ loop' = [loop EXCEPT ![c].pc = "next"]
    /\ cloning' = FALSE
    /\ UNCHANGED <<minute, open, made, started, channel, fileVars, trouble, mixed>>

\* The next disk, without a look at isCloning.
NextDisk(c) ==
    /\ loop[c].pc = "next" /\ loop[c].disk < Disks
    /\ Clone(c, loop[c].disk + 1)
    /\ UNCHANGED <<minute, open, made, cloning, channel, fileVars, trouble, mixed>>

EndLoop(c) ==
    /\ loop[c].pc = "next" /\ loop[c].disk = Disks
    /\ loop' = [loop EXCEPT ![c] = NoLoop]
    /\ cloning' = FALSE
    /\ UNCHANGED <<minute, open, made, started, channel, fileVars, trouble, mixed>>

LoopStep(c) == SendPiece(c) \/ LosePiece(c) \/ EndDisk(c) \/ NextDisk(c) \/ EndLoop(c)

-----------------------------------------------------------------------------
(* The dispatcher *)

\* The writer's own record of a message.
Took(w, m) == [on |-> w.on, file |-> w.file, count |-> w.count + 1,
               first |-> IF w.first = 0 THEN m.copy ELSE w.first]

TakePiece(c) ==
    /\ writer[c].on /\ channel # <<>>
    /\ LET m == Head(channel)
       IN /\ channel' = Tail(channel)
          /\ image' = [image EXCEPT ![m.disk][writer[c].file] = Appended(@, m)]
          /\ writer' = [writer EXCEPT ![c] = Took(@, m)]
    /\ UNCHANGED <<minute, open, made, agentVars, completed, trouble, mixed>>

\* Mutant: as ResumeBackupToFile, which takes silence for the end of the disk.
FinalAlways(w) == completed \cup {w.first}

\* The last report of a writer, for the copy its first message was of: all that
\* it wrote, of whatever disk, against the size of that one.
Final(w) ==
    IF w.count >= Pieces THEN completed \cup {w.first} ELSE completed

\* Three seconds without a message.
QuietEnd(c) ==
    /\ writer[c].on /\ channel = <<>>
    /\ writer' = [writer EXCEPT ![c] = NoWriter]
    /\ completed' = IF writer[c].first = 0 THEN completed ELSE Final(writer[c])
    /\ UNCHANGED <<minute, open, made, agentVars, channel, image, trouble, mixed>>

WriterStep(c) == TakePiece(c) \/ QuietEnd(c)

-----------------------------------------------------------------------------
(* What happens to them *)

Break(c) ==
    /\ trouble < MaxTrouble /\ trouble' = trouble + 1
    /\ c \in open
    /\ open' = open \ {c}
    /\ UNCHANGED <<minute, made, agentVars, channel, fileVars, mixed>>

\* StreamData on a lost connection ends the agent, which is started again.
AgentDies(c) ==
    /\ Copying(c) /\ c \notin open
    /\ open' = {} /\ cloning' = FALSE
    /\ loop' = [d \in Conn |-> NoLoop]
    /\ UNCHANGED <<minute, made, started, channel, fileVars, trouble, mixed>>

DispatcherRestarts ==
    /\ trouble < MaxTrouble /\ trouble' = trouble + 1
    /\ open' = {} /\ channel' = <<>>
    /\ writer' = [c \in Conn |-> NoWriter]
    /\ UNCHANGED <<minute, made, agentVars, image, completed, mixed>>

NextMinute ==
    /\ minute < MaxMinute
    /\ minute' = minute + 1
    /\ UNCHANGED <<open, made, agentVars, channel, fileVars, trouble, mixed>>

Next ==
    \/ Connect \/ NextMinute \/ DispatcherRestarts
    \/ \E c \in Conn : LoopStep(c) \/ WriterStep(c) \/ Break(c) \/ AgentDies(c)

Spec == Init /\ [][Next]_vars

-----------------------------------------------------------------------------
(* Properties *)

TypeOK ==
    /\ minute \in Minute /\ open \subseteq Conn /\ made \in 0..MaxConn
    /\ cloning \in BOOLEAN /\ started \in Nat
    /\ loop \in [Conn -> Loop] /\ writer \in [Conn -> Writer]
    /\ channel \in Seq(Message) /\ Len(channel) <= Capacity
    /\ image \in [Disk -> [Minute -> Image]]
    /\ completed \subseteq Nat
    /\ trouble \in 0..MaxTrouble /\ mixed \in BOOLEAN

\* An image holds the beginning of one copy of its disk, however the connection,
\* the agent or the dispatcher cut the copy off -- as long as no
\* connection is made while anything of an earlier one remains: messages in the
\* channel, a writer in its three seconds, a goroutine between two disks, an
\* image of the same minute, which is appended to.
ImageIsBeginning ==
    ~mixed => \A d \in Disk, m \in Minute : image[d][m] # Torn

\* With the same exception, the copy of an action that is recorded as completed
\* is whole, though the writer only counts what it wrote, over all disks.
CompletedIsWhole ==
    ~mixed => \A k \in completed :
                 \E d \in Disk, m \in Minute : image[d][m] = [copy |-> k, len |-> Pieces]

\* isCloning, which keeps other connections from copying, is never left set when
\* no goroutine is there that will reset it, whichever of them ends first and
\* however: or no connection would ever copy a disk again.  Nothing is claimed of
\* the other way round: it is reset after the first of several disks.
CloningIsBusy == cloning => \E c \in Conn : loop[c].pc # "none"
=============================================================================
