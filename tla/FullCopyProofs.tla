--------------------------- MODULE FullCopyProofs ---------------------------
(***************************************************************************)
(* Proofs about FullCopy: as long as no connection was made among the      *)
(* remains of an earlier one, the messages of its one goroutine reach its  *)
(* one writer in order, up to where the connection ended.                  *)
(***************************************************************************)
EXTENDS FullCopy, TLAPS

-----------------------------------------------------------------------------
(* The inductive invariant *)

\* What the writer of the last connection gets next, if anything.
HasNext   == channel # <<>> \/ (made \in open /\ loop[made].pc # "none")
NextPiece == IF channel # <<>> THEN Head(channel) ELSE Piece(made)

Follows(a, b) ==
    \/ b.copy = a.copy /\ b.disk = a.disk /\ b.num = a.num + 1
    \/ b.copy = a.copy + 1 /\ b.disk = a.disk + 1 /\ b.num = 1 /\ a.num = Pieces

\* Only the last connection has a goroutine or a writer.
OneAtATime ==
    /\ \A c \in Conn : c # made => ~writer[c].on /\ loop[c].pc = "none"
    /\ made > 0 /\ loop[made].pc # "none" => loop[made].copy = started /\ started > 0
    /\ made > 0 /\ loop[made].pc = "next" => loop[made].num = Pieces + 1

\* The channel has consecutive messages, and the goroutine sends the next one.
InOrder ==
    /\ \A i \in 1..Len(channel) : channel[i].copy > 0
    /\ \A i \in 1..Len(channel) - 1 : Follows(channel[i], channel[i+1])
    /\ (channel # <<>> /\ made \in open /\ loop[made].pc # "none") =>
          Follows(channel[Len(channel)], Piece(made))

\* The images of minute f are where message p begins.
Ready(f, p) ==
    /\ image[p.disk][f] = IF p.num = 1 THEN NoImage
                          ELSE [copy |-> p.copy, len |-> p.num - 1]
    /\ \A e \in Disk : e > p.disk => image[e][f] = NoImage

\* What a writer counted up to the size of a disk is of the first disk.
Counted(w) ==
    /\ w.count = 0 => w.first = 0
    /\ w.count > 0 =>
          /\ w.first > 0
          /\ w.count < Pieces => image[1][w.file] = [copy |-> w.first, len |-> w.count]
          /\ w.count >= Pieces => image[1][w.file] = [copy |-> w.first, len |-> Pieces]
    /\ w.count < Pieces /\ HasNext => NextPiece.disk = 1 /\ NextPiece.num = w.count + 1

WriterReady ==
    (made > 0 /\ writer[made].on) =>
        /\ HasNext => Ready(writer[made].file, NextPiece)
        /\ Counted(writer[made])

Whole == /\ \A d \in Disk, m \in Minute : image[d][m] # Torn
         /\ \A k \in completed : k > 0 /\
               \E d \in Disk, m \in Minute : image[d][m] = [copy |-> k, len |-> Pieces]

Unmixed == OneAtATime /\ InOrder /\ WriterReady /\ Whole

IInv == TypeOK /\ CloningIsBusy /\ (~mixed => Unmixed)

-----------------------------------------------------------------------------
(* Types *)

USE CopyAssumption

LEMMA Blanks ==
    NoLoop \in Loop /\ NoWriter \in Writer /\ NoImage \in Image
  <1>1. NoLoop \in Loop
    BY DEF NoLoop, Loop, Disk
  <1>2. NoWriter \in Writer
    BY DEF NoWriter, Writer, Minute
  <1>3. NoImage \in Image
    BY DEF NoImage, Image
  <1> QED BY <1>1, <1>2, <1>3

LEMMA InitTypes == Init => TypeOK
  <1> SUFFICES ASSUME Init PROVE TypeOK
    OBVIOUS
  <1>1. loop \in [Conn -> Loop] /\ writer \in [Conn -> Writer]
    BY Blanks DEF Init
  <1>2. image \in [Disk -> [Minute -> Image]]
    BY Blanks DEF Init
  <1>3. minute \in Minute /\ trouble \in 0..MaxTrouble /\ made \in 0..MaxConn
    BY DEF Init, Minute
  <1>4. channel \in Seq(Message) /\ Len(channel) <= Capacity
    BY DEF Init
  <1> QED BY <1>1, <1>2, <1>3, <1>4 DEF Init, TypeOK

LEMMA CloneType ==
    ASSUME TypeOK, NEW c \in Conn, NEW d \in Disk, Clone(c, d)
    PROVE  loop' \in [Conn -> Loop] /\ started' \in Nat
  <1>1. started' \in Nat
    BY DEF TypeOK, Clone
  <1>2. [pc |-> "clone", disk |-> d, num |-> 1, copy |-> started'] \in Loop
    BY <1>1 DEF Loop
  <1> QED BY <1>1, <1>2 DEF TypeOK, Clone

LEMMA ConnectType == TypeOK /\ Connect => TypeOK'
  <1> SUFFICES ASSUME TypeOK, Connect PROVE TypeOK'
    OBVIOUS
  <1>1. made' \in Conn /\ made' \in 0..MaxConn /\ made' = made + 1
    BY DEF TypeOK, Connect, Conn
  <1>2. writer' \in [Conn -> Writer]
    <2>1. NewWriter \in Writer
      BY DEF TypeOK, NewWriter, Writer
    <2> QED BY <2>1 DEF TypeOK, Connect
  <1>3. loop' \in [Conn -> Loop] /\ started' \in Nat /\ cloning' \in BOOLEAN
    <2>1. CASE cloning
      BY <2>1 DEF TypeOK, Connect, agentVars
    <2>2. CASE ~cloning
      <3>1. 1 \in Disk
        BY DEF Disk
      <3>2. Clone(made + 1, 1) /\ cloning' = TRUE
        BY <2>2 DEF Connect
      <3> QED BY <1>1, <3>1, <3>2, CloneType
    <2> QED BY <2>1, <2>2
  <1>4. mixed' \in BOOLEAN /\ open' \subseteq Conn
    BY <1>1 DEF TypeOK, Connect
  <1> QED BY <1>1, <1>2, <1>3, <1>4 DEF TypeOK, Connect

\* A message is sent, into the channel, a full one, or nowhere.
LEMMA SendType ==
    ASSUME TypeOK, NEW c \in Conn, SendPiece(c) \/ LosePiece(c)
    PROVE  TypeOK'
  <1>1. loop[c] \in Loop /\ loop[c].num <= Pieces
    BY DEF TypeOK, SendPiece, LosePiece
  <1>2. [loop[c] EXCEPT !.num = @ + 1] \in Loop
    BY <1>1 DEF Loop
  <1>3. loop' = [loop EXCEPT ![c] = [loop[c] EXCEPT !.num = @ + 1]]
    BY DEF SendPiece, LosePiece
  <1>4. loop' \in [Conn -> Loop]
    BY <1>2, <1>3 DEF TypeOK
  <1>5. channel' \in Seq(Message) /\ Len(channel') <= Capacity
    <2>1. Piece(c) \in Message
      BY <1>1 DEF Piece, Message, Loop
    <2>2. CASE channel' = channel
      BY <2>2 DEF TypeOK
    <2>3. CASE channel' = Append(channel, Piece(c)) /\ Len(channel) < Capacity
      BY <2>1, <2>3 DEF TypeOK
    <2> QED BY <2>2, <2>3 DEF SendPiece, LosePiece
  <1>6. open' \subseteq Conn
    BY DEF TypeOK, SendPiece, LosePiece
  <1> QED BY <1>4, <1>5, <1>6 DEF TypeOK, SendPiece, LosePiece, fileVars

LEMMA EndDiskType == ASSUME TypeOK, NEW c \in Conn, EndDisk(c) PROVE TypeOK'
  <1>1. loop[c] \in Loop
    BY DEF TypeOK
  <1>2. [loop[c] EXCEPT !.pc = "next"] \in Loop
    BY <1>1 DEF Loop
  <1>3. loop' = [loop EXCEPT ![c] = [loop[c] EXCEPT !.pc = "next"]]
    BY DEF EndDisk
  <1>4. loop' \in [Conn -> Loop]
    BY <1>2, <1>3 DEF TypeOK
  <1> QED BY <1>4 DEF TypeOK, EndDisk, fileVars

LEMMA NextDiskType == ASSUME TypeOK, NEW c \in Conn, NextDisk(c) PROVE TypeOK'
  <1>1. loop[c].disk + 1 \in Disk
    BY DEF TypeOK, NextDisk, Loop, Disk
  <1>2. loop' \in [Conn -> Loop] /\ started' \in Nat
    BY <1>1, CloneType DEF NextDisk
  <1> QED BY <1>2 DEF TypeOK, NextDisk, fileVars

LEMMA EndLoopType == ASSUME TypeOK, NEW c \in Conn, EndLoop(c) PROVE TypeOK'
  <1>1. loop' \in [Conn -> Loop]
    BY Blanks DEF TypeOK, EndLoop
  <1> QED BY <1>1 DEF TypeOK, EndLoop, fileVars

LEMMA AppendedType ==
    ASSUME NEW i \in Image, NEW m \in Message PROVE Appended(i, m) \in Image
  <1>1. i.copy \in Nat /\ i.len \in 0..Pieces /\ i = [copy |-> i.copy, len |-> i.len]
    BY DEF Image
  <1>2. m.num \in 1..Pieces /\ m.copy \in Nat
    BY DEF Message
  <1>3. [copy |-> m.copy, len |-> 1] \in Image /\ Torn \in Image
    BY <1>2 DEF Image, Torn
  <1>4. [i EXCEPT !.len = m.num] \in Image
    BY <1>1, <1>2 DEF Image
  <1> QED BY <1>3, <1>4 DEF Appended

LEMMA TookFields ==
    ASSUME NEW w \in Writer, NEW m \in Message
    PROVE  /\ Took(w, m) \in Writer
           /\ Took(w, m).on = w.on /\ Took(w, m).file = w.file
           /\ Took(w, m).count = w.count + 1
           /\ Took(w, m).first = IF w.first = 0 THEN m.copy ELSE w.first
  BY DEF Took, Writer, Message

LEMMA TakeType == ASSUME TypeOK, NEW c \in Conn, TakePiece(c) PROVE TypeOK'
  <1> DEFINE m == Head(channel)
             f == writer[c].file
  <1>1. m \in Message /\ channel' \in Seq(Message) /\ Len(channel') <= Capacity
    BY DEF TypeOK, TakePiece
  <1>2. writer[c] \in Writer /\ f \in Minute /\ m.disk \in Disk /\ m.copy \in Nat
    BY <1>1 DEF TypeOK, Writer, Message
  <1>3. image[m.disk] \in [Minute -> Image] /\ image[m.disk][f] \in Image
    BY <1>2 DEF TypeOK
  <1>4. Appended(image[m.disk][f], m) \in Image
    BY <1>1, <1>3, AppendedType
  <1>5. image' = [image EXCEPT ![m.disk] =
                     [image[m.disk] EXCEPT ![f] = Appended(image[m.disk][f], m)]]
    BY DEF TakePiece
  <1>6. image' \in [Disk -> [Minute -> Image]]
    BY <1>3, <1>4, <1>5 DEF TypeOK
  <1>7. writer' \in [Conn -> Writer]
    <2>1. Took(writer[c], m) \in Writer
      BY <1>1, <1>2, TookFields
    <2> QED BY <2>1 DEF TypeOK, TakePiece
  <1> QED BY <1>1, <1>6, <1>7 DEF TypeOK, TakePiece, agentVars

LEMMA QuietType == ASSUME TypeOK, NEW c \in Conn, QuietEnd(c) PROVE TypeOK'
  <1>1. writer' \in [Conn -> Writer]
    BY Blanks DEF TypeOK, QuietEnd
  <1>2. writer[c] \in Writer /\ writer[c].first \in Nat
    BY DEF TypeOK, Writer
  <1>3. completed' \subseteq Nat
    BY <1>2 DEF TypeOK, QuietEnd, Final
  <1> QED BY <1>1, <1>3 DEF TypeOK, QuietEnd, agentVars

LEMMA WorldType ==
    ASSUME TypeOK,
           \/ NextMinute \/ DispatcherRestarts
           \/ \E c \in Conn : Break(c) \/ AgentDies(c)
    PROVE  TypeOK'
  <1>1. CASE NextMinute
    BY <1>1 DEF TypeOK, NextMinute, agentVars, fileVars, Minute
  <1>2. CASE DispatcherRestarts
    <2>1. writer' \in [Conn -> Writer]
      BY <1>2, Blanks DEF DispatcherRestarts
    <2>2. channel' \in Seq(Message) /\ Len(channel') <= Capacity
      BY <1>2 DEF DispatcherRestarts
    <2> QED BY <1>2, <2>1, <2>2 DEF TypeOK, DispatcherRestarts, agentVars
  <1>3. ASSUME NEW c \in Conn, Break(c) PROVE TypeOK'
    BY <1>3 DEF TypeOK, Break, agentVars, fileVars
  <1>4. ASSUME NEW c \in Conn, AgentDies(c) PROVE TypeOK'
    <2>1. loop' \in [Conn -> Loop]
      BY <1>4, Blanks DEF AgentDies
    <2> QED BY <1>4, <2>1 DEF TypeOK, AgentDies, fileVars
  <1> QED BY <1>1, <1>2, <1>3, <1>4

LEMMA NextType == TypeOK /\ [Next]_vars => TypeOK'
  <1> SUFFICES ASSUME TypeOK, [Next]_vars PROVE TypeOK'
    OBVIOUS
  <1>1. CASE UNCHANGED vars
    BY <1>1 DEF TypeOK, vars, agentVars, fileVars
  <1>2. CASE Connect
    BY <1>2, ConnectType
  <1>3. ASSUME NEW c \in Conn, LoopStep(c) PROVE TypeOK'
    BY <1>3, SendType, EndDiskType, NextDiskType, EndLoopType DEF LoopStep
  <1>4. ASSUME NEW c \in Conn, WriterStep(c) PROVE TypeOK'
    BY <1>4, TakeType, QuietType DEF WriterStep
  <1>5. CASE \/ NextMinute \/ DispatcherRestarts
             \/ \E c \in Conn : Break(c) \/ AgentDies(c)
    BY <1>5, WorldType
  <1> QED BY <1>1, <1>2, <1>3, <1>4, <1>5 DEF Next

-----------------------------------------------------------------------------
(* isCloning *)

LEMMA CloningStep == TypeOK /\ CloningIsBusy /\ [Next]_vars => CloningIsBusy'
  <1> SUFFICES ASSUME TypeOK, CloningIsBusy, [Next]_vars, cloning'
               PROVE  \E d \in Conn : loop'[d].pc # "none"
    BY DEF CloningIsBusy
  <1>1. cloning => \E d \in Conn : loop[d].pc # "none"
    BY DEF CloningIsBusy
  <1>2. CASE loop' = loop /\ cloning' = cloning
    BY <1>1, <1>2
  <1>3. CASE Connect
    <2>1. CASE cloning
      BY <1>1, <1>3, <2>1 DEF Connect, agentVars
    <2>2. CASE ~cloning
      <3>1. made + 1 \in Conn /\ Clone(made + 1, 1)
        BY <1>3, <2>2 DEF Connect, Conn, TypeOK
      <3> QED BY <3>1 DEF Clone, TypeOK
    <2> QED BY <2>1, <2>2
  <1>4. ASSUME NEW c \in Conn, SendPiece(c) \/ LosePiece(c)
        PROVE  \E d \in Conn : loop'[d].pc # "none"
    BY <1>4 DEF SendPiece, LosePiece, TypeOK, Copying, Loop
  <1>5. ASSUME NEW c \in Conn, NextDisk(c)
        PROVE  \E d \in Conn : loop'[d].pc # "none"
    BY <1>5 DEF NextDisk, Clone, TypeOK
  <1>6. ASSUME NEW c \in Conn, EndDisk(c) \/ EndLoop(c) \/ AgentDies(c)
        PROVE  FALSE
    BY <1>6 DEF EndDisk, EndLoop, AgentDies
  <1> QED BY <1>2, <1>3, <1>4, <1>5, <1>6
          DEF Next, LoopStep, WriterStep, TakePiece, QuietEnd, Break, DispatcherRestarts,
              NextMinute, agentVars, vars

-----------------------------------------------------------------------------
(* The copy and its writer *)

\* A connection made where nothing is left over.
LEMMA ConnectUnmixed ==
    ASSUME TypeOK, CloningIsBusy, Whole, Connect, ~mixed'
    PROVE  Unmixed'
  <1> DEFINE n == made + 1
  <1>1. /\ channel = <<>>
        /\ \A c \in Conn : ~writer[c].on /\ loop[c].pc = "none"
        /\ \A d \in Disk : image[d][minute] = NoImage
    BY DEF Connect, Remains
  <1>2. ~cloning
    BY <1>1 DEF CloningIsBusy
  <1>3. /\ n \in Conn /\ n \in Nat /\ made' = n
        /\ channel' = <<>> /\ image' = image /\ completed' = completed
    BY <1>1 DEF TypeOK, Connect, Conn
  <1>4. /\ loop'[n] = [pc |-> "clone", disk |-> 1, num |-> 1, copy |-> started']
        /\ \A c \in Conn : c # n => loop'[c] = loop[c]
        /\ started' \in Nat /\ started' > 0
    BY <1>2, <1>3 DEF Connect, Clone, TypeOK
  <1>5. /\ writer'[n] = [on |-> TRUE, file |-> minute, first |-> 0, count |-> 0]
        /\ \A c \in Conn : c # n => writer'[c] = writer[c]
    BY <1>3 DEF Connect, TypeOK, NewWriter
  <1>6. OneAtATime'
    BY <1>1, <1>3, <1>4, <1>5 DEF OneAtATime
  <1>7. InOrder'
    BY <1>3 DEF InOrder
  <1>8. NextPiece' = [copy |-> started', disk |-> 1, num |-> 1]
    BY <1>3, <1>4 DEF NextPiece, Piece
  <1>9. 1 \in Disk /\ minute \in Minute
    BY DEF Disk, TypeOK
  <1>10. Ready(minute, NextPiece)'
    BY <1>1, <1>3, <1>8, <1>9 DEF Ready, Connect
  <1>11. Counted(writer[made])'
    BY <1>3, <1>5, <1>8 DEF Counted
  <1>12. WriterReady'
    BY <1>3, <1>5, <1>10, <1>11 DEF WriterReady, Connect
  <1> QED BY <1>3, <1>6, <1>7, <1>12 DEF Unmixed, Whole

\* Where a goroutine is, none of it but of the last connection.
LEMMA CopyingIsLast ==
    ASSUME TypeOK, OneAtATime, NEW c \in Conn, loop[c].pc # "none"
    PROVE  /\ c = made /\ made > 0 /\ loop[made] \in Loop /\ started \in Nat
           /\ loop[made].copy = started /\ started > 0
  BY DEF TypeOK, OneAtATime, Conn

LEMMA SendUnmixed ==
    ASSUME TypeOK, Unmixed, NEW c \in Conn, SendPiece(c)
    PROVE  Unmixed'
  <1>1. /\ c = made /\ made > 0 /\ loop[made] \in Loop
        /\ loop[made].copy = started /\ started > 0 /\ started \in Nat
        /\ made \in open /\ loop[made].pc = "clone" /\ loop[made].num <= Pieces
    BY CopyingIsLast DEF SendPiece, Copying, Unmixed
  <1>2. /\ made' = made /\ started' = started /\ writer' = writer
        /\ image' = image /\ completed' = completed
    BY DEF SendPiece, fileVars
  <1>3. /\ loop'[made] = [loop[made] EXCEPT !.num = @ + 1]
        /\ \A d \in Conn : d # made => loop'[d] = loop[d]
    BY <1>1 DEF SendPiece, TypeOK
  <1>4. /\ loop'[made].pc = "clone" /\ loop'[made].copy = started
        /\ loop'[made].disk = loop[made].disk /\ loop'[made].num = loop[made].num + 1
    BY <1>1, <1>3 DEF Loop
  <1>5. OneAtATime'
    BY <1>1, <1>2, <1>3, <1>4 DEF Unmixed, OneAtATime
  <1>6. Follows(Piece(made), Piece(made)')
    BY <1>1, <1>2, <1>4 DEF Follows, Piece
  <1>7. CASE Len(channel) < Capacity
    <2>1. channel' = Append(channel, Piece(made)) /\ open' = open
      BY <1>1, <1>7 DEF SendPiece
    <2>2. Piece(made) \in Message /\ Piece(made).copy > 0
      BY <1>1 DEF Piece, Message, Loop
    <2>3. /\ channel \in Seq(Message) /\ Len(channel) \in Nat
          /\ Len(channel') = Len(channel) + 1 /\ channel' # <<>>
          /\ channel'[Len(channel')] = Piece(made)
          /\ \A i \in 1..Len(channel) : channel'[i] = channel[i]
      BY <2>1, <2>2 DEF TypeOK
    <2>4. \A i \in 1..Len(channel') : channel'[i].copy > 0
      BY <2>2, <2>3 DEF Unmixed, InOrder
    <2>5. ASSUME NEW i \in 1..Len(channel') - 1 PROVE Follows(channel'[i], channel'[i+1])
      <3>1. CASE i < Len(channel)
        BY <2>3, <2>5, <3>1 DEF Unmixed, InOrder
      <3>2. CASE i = Len(channel)
        <4>1. channel # <<>> /\ channel'[i] = channel[Len(channel)] /\ channel'[i+1] = Piece(made)
          BY <2>3, <2>5, <3>2
        <4> QED BY <1>1, <4>1 DEF Unmixed, InOrder
      <3> QED BY <2>3, <2>5, <3>1, <3>2
    <2>6. Follows(channel'[Len(channel')], Piece(made)')
      BY <1>6, <2>3
    <2>8. InOrder'
      BY <1>2, <2>4, <2>5, <2>6 DEF InOrder
    <2>9. HasNext /\ NextPiece' = NextPiece
      <3>1. HasNext
        BY <1>1 DEF HasNext
      <3>2. CASE channel = <<>>
        <4>1. Len(channel) = 0 /\ Len(channel') = 1
          BY <2>3, <3>2
        <4>2. Head(channel') = channel'[1]
          BY <2>1, <2>2, <2>3
        <4>3. Head(channel') = Piece(made)
          BY <2>3, <4>1, <4>2
        <4> QED BY <2>3, <3>1, <3>2, <4>3 DEF NextPiece
      <3>3. CASE channel # <<>>
        <4>1. Head(channel') = Head(channel)
          BY <2>1, <2>2, <2>3, <3>3
        <4> QED BY <2>3, <3>1, <3>3, <4>1 DEF NextPiece
      <3> QED BY <3>1, <3>2, <3>3
    <2>10. WriterReady'
      BY <1>2, <2>9 DEF Unmixed, WriterReady, Counted, Ready
    <2> QED BY <1>2, <1>5, <2>8, <2>10 DEF Unmixed, Whole
  <1>8. CASE ~(Len(channel) < Capacity)
    <2>1. channel' = channel /\ made \notin open'
      BY <1>1, <1>8 DEF SendPiece
    <2>2. InOrder'
      BY <1>2, <2>1 DEF Unmixed, InOrder
    <2>3. HasNext' => HasNext /\ NextPiece' = NextPiece
      BY <1>2, <2>1 DEF HasNext, NextPiece
    <2>4. WriterReady'
      BY <1>2, <2>3 DEF Unmixed, WriterReady, Counted, Ready
    <2> QED BY <1>2, <1>5, <2>2, <2>4 DEF Unmixed, Whole
  <1> QED BY <1>7, <1>8

\* Steps of the goroutine after which no message of its is on the way.
LEMMA LoseUnmixed ==
    ASSUME TypeOK, Unmixed, NEW c \in Conn, LosePiece(c)
    PROVE  Unmixed'
  <1>1. /\ c = made /\ made > 0 /\ loop[made] \in Loop
        /\ loop[made].copy = started /\ started > 0
        /\ made \notin open /\ loop[made].pc = "clone"
    BY CopyingIsLast DEF LosePiece, Copying, Unmixed
  <1>2. /\ made' = made /\ started' = started /\ writer' = writer /\ open' = open
        /\ image' = image /\ completed' = completed /\ channel' = channel
    BY DEF LosePiece, fileVars
  <1>3. /\ loop'[made].pc = "clone" /\ loop'[made].copy = started
        /\ \A d \in Conn : d # made => loop'[d] = loop[d]
    BY <1>1 DEF LosePiece, TypeOK, Loop
  <1>4. OneAtATime'
    BY <1>1, <1>2, <1>3 DEF Unmixed, OneAtATime
  <1>5. InOrder'
    BY <1>1, <1>2 DEF Unmixed, InOrder
  <1>6. HasNext' => HasNext /\ NextPiece' = NextPiece
    BY <1>1, <1>2 DEF HasNext, NextPiece
  <1>7. WriterReady'
    BY <1>2, <1>6 DEF Unmixed, WriterReady, Counted, Ready
  <1> QED BY <1>2, <1>4, <1>5, <1>7 DEF Unmixed, Whole

LEMMA EndDiskUnmixed ==
    ASSUME TypeOK, Unmixed, NEW c \in Conn, EndDisk(c)
    PROVE  Unmixed'
  <1>1. /\ c = made /\ made > 0 /\ loop[made] \in Loop
        /\ loop[made].copy = started /\ started > 0
        /\ loop[made].pc = "clone" /\ loop[made].num = Pieces + 1
    BY CopyingIsLast DEF EndDisk, Copying, Unmixed, Loop
  <1>2. /\ made' = made /\ started' = started /\ writer' = writer /\ open' = open
        /\ image' = image /\ completed' = completed /\ channel' = channel
    BY DEF EndDisk, fileVars
  <1>3. /\ loop'[made].pc = "next" /\ loop'[made].copy = started
        /\ loop'[made].num = Pieces + 1 /\ loop'[made].disk = loop[made].disk
        /\ \A d \in Conn : d # made => loop'[d] = loop[d]
    BY <1>1 DEF EndDisk, TypeOK, Loop
  <1>4. OneAtATime'
    BY <1>1, <1>2, <1>3 DEF Unmixed, OneAtATime
  <1>5. Piece(made)' = Piece(made)
    BY <1>1, <1>2, <1>3 DEF Piece
  <1>6. InOrder'
    BY <1>1, <1>2, <1>5 DEF Unmixed, InOrder
  <1>7. HasNext' => HasNext /\ NextPiece' = NextPiece
    BY <1>1, <1>2, <1>5 DEF HasNext, NextPiece
  <1>8. WriterReady'
    BY <1>2, <1>7 DEF Unmixed, WriterReady, Counted, Ready
  <1> QED BY <1>2, <1>4, <1>6, <1>8 DEF Unmixed, Whole

LEMMA NextDiskUnmixed ==
    ASSUME TypeOK, Unmixed, NEW c \in Conn, NextDisk(c)
    PROVE  Unmixed'
  <1>1. /\ c = made /\ made > 0 /\ loop[made] \in Loop /\ started \in Nat
        /\ loop[made].copy = started /\ started > 0
        /\ loop[made].pc = "next" /\ loop[made].num = Pieces + 1
        /\ loop[made].disk < Disks
    BY CopyingIsLast DEF NextDisk, Unmixed, OneAtATime
  <1>2. /\ made' = made /\ started' = started + 1 /\ writer' = writer /\ open' = open
        /\ image' = image /\ completed' = completed /\ channel' = channel
    BY DEF NextDisk, Clone, fileVars
  <1>3. /\ loop'[made] = [pc |-> "clone", disk |-> loop[made].disk + 1, num |-> 1,
                          copy |-> started + 1]
        /\ \A d \in Conn : d # made => loop'[d] = loop[d]
    BY <1>1 DEF NextDisk, Clone, TypeOK
  <1>4. OneAtATime'
    BY <1>1, <1>2, <1>3 DEF Unmixed, OneAtATime
  <1>5. /\ Piece(made) = [copy |-> started, disk |-> loop[made].disk, num |-> Pieces + 1]
        /\ Piece(made)' = [copy |-> started + 1, disk |-> loop[made].disk + 1, num |-> 1]
    BY <1>1, <1>2, <1>3 DEF Piece
  <1>6. InOrder'
    <2>1. ASSUME NEW a \in Message, Follows(a, Piece(made)) PROVE Follows(a, Piece(made)')
      BY <1>1, <1>5, <2>1 DEF Follows, Message
    <2>2. channel # <<>> => channel[Len(channel)] \in Message
      BY DEF TypeOK
    <2> QED BY <1>1, <1>2, <2>1, <2>2 DEF Unmixed, InOrder
  <1>7. HasNext' => HasNext
    BY <1>1, <1>2 DEF HasNext
  <1>8. CASE channel # <<>>
    <2>1. NextPiece' = NextPiece
      BY <1>2, <1>8 DEF NextPiece
    <2>2. WriterReady'
      BY <1>2, <1>7, <2>1 DEF Unmixed, WriterReady, Counted, Ready
    <2> QED BY <1>2, <1>4, <1>6, <2>2 DEF Unmixed, Whole
  <1>9. CASE channel = <<>>
    <2> SUFFICES WriterReady'
      BY <1>2, <1>4, <1>6 DEF Unmixed, Whole
    <2> SUFFICES ASSUME writer[made].on
                 PROVE  (HasNext => Ready(writer[made].file, NextPiece))' /\ Counted(writer[made])'
      BY <1>2 DEF WriterReady
    <2>1. NextPiece = Piece(made) /\ NextPiece' = Piece(made)'
      BY <1>2, <1>9 DEF NextPiece
    <2>2. loop[made].disk \in Nat /\ loop[made].disk + 1 \in Disk /\ Pieces + 1 # 1
      BY <1>1 DEF Loop, Disk
    <2>3. ASSUME HasNext PROVE Ready(writer[made].file, NextPiece)'
      <3>1. \A e \in Disk : e > loop[made].disk => image[e][writer[made].file] = NoImage
        BY <1>1, <1>5, <2>1, <2>3 DEF Unmixed, WriterReady, Ready
      <3> QED BY <1>2, <1>5, <2>1, <2>2, <3>1 DEF Ready, Disk
    <2>4. Counted(writer[made])
      BY <1>1 DEF Unmixed, WriterReady
    <2>5. HasNext => ~(writer[made].count < Pieces)
      <3>1. writer[made].count \in Nat
        BY <1>1 DEF TypeOK, Writer
      <3> QED BY <1>5, <2>1, <2>4, <3>1 DEF Counted
    <2>6. Counted(writer[made])'
      BY <1>2, <1>7, <2>4, <2>5 DEF Counted
    <2> QED BY <1>7, <2>3, <2>6
  <1> QED BY <1>8, <1>9

LEMMA EndLoopUnmixed ==
    ASSUME TypeOK, Unmixed, NEW c \in Conn, EndLoop(c)
    PROVE  Unmixed'
  <1>1. c = made /\ made > 0
    BY CopyingIsLast DEF EndLoop, Unmixed
  <1>2. /\ made' = made /\ started' = started /\ writer' = writer /\ open' = open
        /\ image' = image /\ completed' = completed /\ channel' = channel
    BY DEF EndLoop, fileVars
  <1>3. /\ loop'[made].pc = "none"
        /\ \A d \in Conn : d # made => loop'[d] = loop[d]
    BY <1>1 DEF EndLoop, TypeOK, NoLoop
  <1>4. OneAtATime'
    BY <1>1, <1>2, <1>3 DEF Unmixed, OneAtATime
  <1>5. InOrder'
    BY <1>2, <1>3 DEF Unmixed, InOrder
  <1>6. HasNext' => HasNext /\ NextPiece' = NextPiece
    BY <1>2, <1>3 DEF HasNext, NextPiece
  <1>7. WriterReady'
    BY <1>2, <1>6 DEF Unmixed, WriterReady, Counted, Ready
  <1> QED BY <1>2, <1>4, <1>5, <1>7 DEF Unmixed, Whole

\* What the tail of the channel begins with follows its head.
LEMMA NextFollows ==
    ASSUME TypeOK, Unmixed, NEW c \in Conn, TakePiece(c)
    PROVE  /\ InOrder'
           /\ HasNext' => Follows(Head(channel), NextPiece') /\ NextPiece'.disk \in Disk
                          /\ NextPiece'.copy \in Nat /\ NextPiece'.num \in Nat
  <1>1. /\ channel \in Seq(Message) /\ channel # <<>> /\ Len(channel) \in Nat
        /\ channel' = Tail(channel) /\ Len(channel) > 0
    BY DEF TypeOK, TakePiece
  <1>2. /\ Head(channel) = channel[1]
        /\ Len(channel') = Len(channel) - 1 /\ channel' \in Seq(Message)
        /\ \A i \in 1..Len(channel') : channel'[i] = channel[i+1]
    BY <1>1
  <1>3. /\ made' = made /\ loop' = loop /\ open' = open /\ Piece(made)' = Piece(made)
    BY DEF TakePiece, agentVars, Piece
  <1>4. \A i \in 1..Len(channel') : channel'[i].copy > 0
    BY <1>1, <1>2 DEF Unmixed, InOrder
  <1>5. ASSUME NEW i \in 1..Len(channel') - 1 PROVE Follows(channel'[i], channel'[i+1])
    <2>1. i + 1 \in 1..Len(channel) - 1 /\ i \in 1..Len(channel') /\ i + 1 \in 1..Len(channel')
      BY <1>1, <1>2, <1>5
    <2>2. channel'[i] = channel[i+1] /\ channel'[i+1] = channel[(i+1)+1]
      BY <1>2, <2>1
    <2> QED BY <2>1, <2>2 DEF Unmixed, InOrder
  <1>6. CASE Len(channel) = 1
    <2>1. channel' = <<>>
      BY <1>2, <1>6
    <2>2. HasNext' => made \in open /\ loop[made].pc # "none"
      BY <1>3, <2>1 DEF HasNext
    <2>3. NextPiece' = Piece(made)
      BY <1>3, <2>1 DEF NextPiece
    <2>4. HasNext' => Follows(Head(channel), Piece(made))
      BY <1>1, <1>2, <1>6, <2>2 DEF Unmixed, InOrder
    <2>5. made \in Conn => Piece(made).disk \in Disk /\ Piece(made).copy \in Nat
                           /\ Piece(made).num \in Nat
      BY DEF TypeOK, Piece, Loop
    <2>6. made \in open => made \in Conn
      BY DEF TypeOK
    <2> QED BY <1>4, <1>5, <2>1, <2>2, <2>3, <2>4, <2>5, <2>6 DEF InOrder
  <1>7. CASE Len(channel) # 1
    <2>1. channel' # <<>> /\ Len(channel') > 0 /\ Head(channel') = channel'[1]
      <3>1. Len(channel') > 0 /\ channel' \in Seq(Message)
        BY <1>1, <1>2, <1>7
      <3>2. channel' # <<>>
        BY <3>1
      <3> QED BY <3>1, <3>2
    <2>2. channel'[1] = channel[2] /\ channel'[Len(channel')] = channel[Len(channel)]
      BY <1>1, <1>2, <2>1
    <2>3. NextPiece' = channel[2] /\ channel[2] \in Message
      BY <1>1, <1>2, <2>1, <2>2 DEF NextPiece
    <2>4. Follows(channel[1], channel[1+1])
      BY <1>1, <1>2, <2>1 DEF Unmixed, InOrder
    <2>5. InOrder'
      BY <1>1, <1>3, <1>4, <1>5, <2>2 DEF Unmixed, InOrder
    <2> QED BY <1>2, <2>3, <2>4, <2>5 DEF Message
  <1> QED BY <1>6, <1>7

\* A whole image takes no further message, and a message makes no torn one.
LEMMA TakeUnmixed ==
    ASSUME TypeOK, Unmixed, NEW c \in Conn, TakePiece(c)
    PROVE  Unmixed'
  <1> DEFINE m == Head(channel)
             f == writer[c].file
             w == writer[c]
             q == NextPiece'
  <1>1. c = made /\ made > 0 /\ w \in Writer /\ w.on /\ w.count \in Nat /\ w.first \in Nat
    BY DEF TypeOK, Unmixed, OneAtATime, TakePiece, Conn, Writer
  <1>2. /\ m \in Message /\ m = channel[1] /\ Len(channel) > 0 /\ Len(channel) \in Nat
        /\ channel # <<>>
    BY DEF TypeOK, TakePiece
  <1>3. /\ m.disk \in Disk /\ m.copy \in Nat /\ m.num \in Nat /\ m.num >= 1 /\ m.num <= Pieces
        /\ m.copy > 0 /\ f \in Minute
    BY <1>1, <1>2 DEF Message, Unmixed, InOrder, Writer
  <1>4. /\ made' = made /\ loop' = loop /\ open' = open /\ started' = started
        /\ completed' = completed
    BY DEF TakePiece, agentVars
  <1>5. Ready(f, m) /\ Counted(w) /\ NextPiece = m /\ HasNext
    <2>1. NextPiece = m /\ HasNext
      BY <1>2 DEF NextPiece, HasNext
    <2> QED BY <1>1, <2>1 DEF Unmixed, WriterReady
  <1>6. Appended(image[m.disk][f], m) = [copy |-> m.copy, len |-> m.num]
    <2>1. CASE m.num = 1
      BY <1>3, <1>5, <2>1 DEF Ready, Appended
    <2>2. CASE m.num # 1
      <3>1. image[m.disk][f] = [copy |-> m.copy, len |-> m.num - 1]
        BY <1>5, <2>2 DEF Ready
      <3>2. [image[m.disk][f] EXCEPT !.len = m.num] = [copy |-> m.copy, len |-> m.num]
        BY <3>1
      <3> QED BY <2>2, <3>1, <3>2 DEF Appended
    <2> QED BY <2>1, <2>2
  <1>7. \A d \in Disk, g \in Minute :
           image'[d][g] = IF d = m.disk /\ g = f THEN [copy |-> m.copy, len |-> m.num]
                          ELSE image[d][g]
    <2>1. image' = [image EXCEPT ![m.disk] =
                       [image[m.disk] EXCEPT ![f] = Appended(image[m.disk][f], m)]]
      BY DEF TakePiece
    <2>2. image \in [Disk -> [Minute -> Image]]
      BY DEF TypeOK
    <2> HIDE DEF m, f
    <2> QED BY <1>3, <1>6, <2>1, <2>2
  <1>8. /\ \A d \in Conn : d # made => writer'[d] = writer[d]
        /\ writer'[made] = Took(w, m)
    BY <1>1 DEF TakePiece, TypeOK
  <1>9. /\ writer'[made].on = w.on /\ writer'[made].file = f
        /\ writer'[made].count = w.count + 1
        /\ writer'[made].first = IF w.first = 0 THEN m.copy ELSE w.first
    <2>1. /\ Took(w, m).on = w.on /\ Took(w, m).file = w.file
          /\ Took(w, m).count = w.count + 1
          /\ Took(w, m).first = IF w.first = 0 THEN m.copy ELSE w.first
      BY <1>1, <1>2, TookFields
    <2> QED BY <1>8, <2>1
  <1>10. OneAtATime'
    BY <1>4, <1>8 DEF Unmixed, OneAtATime
  <1>11. /\ InOrder'
         /\ HasNext' => Follows(m, q) /\ q.disk \in Disk /\ q.copy \in Nat /\ q.num \in Nat
    BY NextFollows
  <1>12. image[m.disk][f] = IF m.num = 1 THEN [copy |-> 0, len |-> 0]
                            ELSE [copy |-> m.copy, len |-> m.num - 1]
    BY <1>5 DEF Ready, NoImage
  <1>13. \A k \in Nat : k > 0 => image[m.disk][f] # [copy |-> k, len |-> Pieces]
    BY <1>3, <1>12
  <1>14. Whole'
    <2>1. ASSUME NEW d \in Disk, NEW g \in Minute PROVE image'[d][g] # Torn
      <3>1. [copy |-> m.copy, len |-> m.num] # Torn
        BY <1>3 DEF Torn
      <3> QED BY <1>7, <2>1, <3>1 DEF Unmixed, Whole
    <2>2. ASSUME NEW k \in completed
          PROVE  k > 0 /\ \E d \in Disk, g \in Minute : image'[d][g] = [copy |-> k, len |-> Pieces]
      <3>1. PICK d \in Disk, g \in Minute : image[d][g] = [copy |-> k, len |-> Pieces]
        BY <2>2 DEF Unmixed, Whole
      <3>2. k > 0 /\ k \in Nat
        BY <2>2 DEF Unmixed, Whole, TypeOK
      <3>3. ~(d = m.disk /\ g = f)
        BY <1>13, <3>1, <3>2
      <3>4. image'[d][g] = [copy |-> k, len |-> Pieces]
        BY <1>7, <3>1, <3>3
      <3> QED BY <3>2, <3>4
    <2> QED BY <1>4, <2>1, <2>2 DEF Whole
  <1>15. ASSUME HasNext' PROVE Ready(writer[made].file, NextPiece)'
    <2>1. Follows(m, q) /\ q.disk \in Disk /\ q.copy \in Nat /\ q.num \in Nat
      BY <1>11, <1>15
    <2>2. \A e \in Disk : e > m.disk => image[e][f] = NoImage
      BY <1>5 DEF Ready
    <2> SUFFICES
          /\ image'[q.disk][f] = IF q.num = 1 THEN NoImage ELSE [copy |-> q.copy, len |-> q.num - 1]
          /\ \A e \in Disk : e > q.disk => image'[e][f] = NoImage
      BY <1>4, <1>9 DEF Ready, NoImage
    <2>3. CASE q.copy = m.copy /\ q.disk = m.disk /\ q.num = m.num + 1
      <3>1. q.num # 1 /\ q.num - 1 = m.num
        BY <1>3, <2>3
      <3>2. \A e \in Disk : e > m.disk => e # m.disk
        BY <1>3 DEF Disk
      <3> QED BY <1>3, <1>7, <2>2, <2>3, <3>1, <3>2
    <2>4. CASE q.copy = m.copy + 1 /\ q.disk = m.disk + 1 /\ q.num = 1 /\ m.num = Pieces
      <3>1. \A e \in Disk : e >= q.disk => e > m.disk /\ e # m.disk
        BY <1>3, <2>4 DEF Disk
      <3>2. q.disk >= q.disk /\ \A e \in Disk : e > q.disk => e >= q.disk
        BY <2>1 DEF Disk
      <3> QED BY <1>3, <1>7, <2>1, <2>2, <2>4, <3>1, <3>2
    <2> QED BY <2>1, <2>3, <2>4 DEF Follows
  <1>16. Counted(writer[made])'
    <2>1. 1 \in Disk
      BY DEF Disk
    <2>2. CASE w.count < Pieces
      <3>1. m.disk = 1 /\ m.num = w.count + 1
        BY <1>5, <2>2 DEF Counted
      <3>2. image'[1][f] = [copy |-> m.copy, len |-> w.count + 1]
        BY <1>3, <1>7, <2>1, <3>1
      <3>3. writer'[made].first = m.copy
        <4>1. CASE w.count = 0
          BY <1>5, <1>9, <4>1 DEF Counted
        <4>2. CASE w.count # 0
          <5>1. w.first > 0 /\ image[1][f] = [copy |-> w.first, len |-> w.count]
            BY <1>1, <1>5, <2>2, <4>2 DEF Counted
          <5>2. image[1][f] = [copy |-> m.copy, len |-> m.num - 1]
            BY <1>1, <1>12, <3>1, <4>2
          <5>3. w.first = m.copy
            BY <5>1, <5>2
          <5> QED BY <1>1, <1>9, <5>1, <5>3
        <4> QED BY <4>1, <4>2
      <3>4. w.count + 1 < Pieces /\ HasNext' => q.disk = 1 /\ q.num = w.count + 1 + 1
        BY <1>1, <1>11, <3>1 DEF Follows
      <3>5. w.count + 1 >= Pieces => w.count + 1 = Pieces
        BY <1>1, <2>2
      <3> QED BY <1>1, <1>3, <1>4, <1>9, <3>2, <3>3, <3>4, <3>5 DEF Counted
    <2>3. CASE w.count >= Pieces
      <3>1. w.first > 0 /\ image[1][f] = [copy |-> w.first, len |-> Pieces]
        BY <1>1, <1>5, <2>3 DEF Counted
      <3>2. m.disk # 1
        BY <1>1, <1>13, <3>1
      <3>3. image'[1][f] = [copy |-> w.first, len |-> Pieces]
        BY <1>3, <1>7, <2>1, <3>1, <3>2
      <3>4. w.count + 1 > 0 /\ ~(w.count + 1 < Pieces) /\ w.first # 0
        BY <1>1, <2>3, <3>1
      <3> QED BY <1>1, <1>4, <1>9, <3>1, <3>3, <3>4 DEF Counted
    <2> QED BY <1>1, <2>2, <2>3
  <1>17. WriterReady'
    BY <1>4, <1>9, <1>15, <1>16 DEF WriterReady
  <1> QED BY <1>10, <1>11, <1>14, <1>17 DEF Unmixed

LEMMA QuietUnmixed ==
    ASSUME TypeOK, Unmixed, NEW c \in Conn, QuietEnd(c)
    PROVE  Unmixed'
  <1> DEFINE w == writer[c]
  <1>1. /\ c = made /\ made > 0 /\ w \in Writer /\ w.on
        /\ w.count \in Nat /\ w.first \in Nat /\ w.file \in Minute
    BY DEF TypeOK, Unmixed, OneAtATime, QuietEnd, Conn, Writer
  <1>2. /\ made' = made /\ loop' = loop /\ open' = open /\ started' = started
        /\ image' = image /\ channel' = channel
    BY DEF QuietEnd, agentVars
  <1>3. /\ ~writer'[made].on
        /\ \A d \in Conn : d # made => writer'[d] = writer[d]
    BY <1>1 DEF QuietEnd, TypeOK, NoWriter
  <1>4. OneAtATime'
    BY <1>2, <1>3 DEF Unmixed, OneAtATime
  <1>5. Piece(made)' = Piece(made)
    BY <1>2 DEF Piece
  <1>6. InOrder'
    BY <1>2, <1>5 DEF Unmixed, InOrder
  <1>7. WriterReady'
    BY <1>2, <1>3 DEF WriterReady
  <1>8. Whole'
    <2>1. CASE completed' = completed
      BY <1>2, <2>1 DEF Unmixed, Whole
    <2>2. CASE completed' = completed \cup {w.first} /\ w.count >= Pieces
      <3>1. Counted(w) /\ w.count > 0
        BY <1>1, <2>2 DEF Unmixed, WriterReady
      <3>2. w.first > 0 /\ image[1][w.file] = [copy |-> w.first, len |-> Pieces]
        BY <2>2, <3>1 DEF Counted
      <3>3. 1 \in Disk
        BY DEF Disk
      <3> QED BY <1>1, <1>2, <2>2, <3>2, <3>3 DEF Unmixed, Whole
    <2> QED BY <1>1, <2>1, <2>2 DEF QuietEnd, Final
  <1> QED BY <1>4, <1>6, <1>7, <1>8 DEF Unmixed

LEMMA WorldUnmixed ==
    ASSUME TypeOK, Unmixed,
           \/ UNCHANGED vars \/ NextMinute \/ DispatcherRestarts
           \/ \E c \in Conn : Break(c) \/ AgentDies(c)
    PROVE  Unmixed'
  <1>1. ASSUME made' = made, loop' = loop, started' = started, channel' = channel,
               writer' = writer, image' = image, completed' = completed, open' \subseteq open
        PROVE  Unmixed'
    <2>1. Piece(made)' = Piece(made)
      BY <1>1 DEF Piece
    <2>2. OneAtATime' /\ InOrder'
      BY <1>1, <2>1 DEF Unmixed, OneAtATime, InOrder
    <2>3. HasNext' => HasNext /\ NextPiece' = NextPiece
      BY <1>1, <2>1 DEF HasNext, NextPiece
    <2>4. WriterReady'
      BY <1>1, <2>3 DEF Unmixed, WriterReady, Counted, Ready
    <2> QED BY <1>1, <2>2, <2>4 DEF Unmixed, Whole
  <1>2. CASE UNCHANGED vars \/ NextMinute \/ \E c \in Conn : Break(c)
    BY <1>1, <1>2 DEF vars, NextMinute, Break, agentVars, fileVars
  <1>3. CASE DispatcherRestarts
    <2>1. /\ made' = made /\ loop' = loop /\ open' = {} /\ started' = started
          /\ image' = image /\ channel' = <<>> /\ completed' = completed
          /\ \A d \in Conn : ~writer'[d].on
      BY <1>3 DEF DispatcherRestarts, agentVars, NoWriter
    <2>2. OneAtATime' /\ InOrder'
      BY <2>1 DEF Unmixed, OneAtATime, InOrder
    <2>3. WriterReady'
      BY <2>1 DEF WriterReady, TypeOK, Conn
    <2> QED BY <2>1, <2>2, <2>3 DEF Unmixed, Whole
  <1>4. ASSUME NEW c \in Conn, AgentDies(c) PROVE Unmixed'
    <2>1. /\ made' = made /\ open' = {} /\ started' = started /\ writer' = writer
          /\ image' = image /\ channel' = channel /\ completed' = completed
          /\ \A d \in Conn : loop'[d].pc = "none"
      BY <1>4 DEF AgentDies, fileVars, NoLoop
    <2>2. made > 0 => made \in Conn
      BY DEF TypeOK, Conn
    <2>3. OneAtATime' /\ InOrder'
      BY <2>1, <2>2 DEF Unmixed, OneAtATime, InOrder
    <2>4. HasNext' => HasNext /\ NextPiece' = NextPiece
      BY <2>1 DEF HasNext, NextPiece
    <2>5. WriterReady'
      BY <2>1, <2>4 DEF Unmixed, WriterReady, Counted, Ready
    <2> QED BY <2>1, <2>3, <2>5 DEF Unmixed, Whole
  <1> QED BY <1>2, <1>3, <1>4

-----------------------------------------------------------------------------
(* The theorems *)

LEMMA InitInv == Init => IInv
  <1> SUFFICES ASSUME Init PROVE IInv
    OBVIOUS
  <1>1. TypeOK
    BY InitTypes
  <1>2. CloningIsBusy
    BY DEF Init, CloningIsBusy
  <1>3. Unmixed
    <2>1. OneAtATime /\ WriterReady
      BY DEF Init, OneAtATime, WriterReady, NoLoop, NoWriter
    <2>2. InOrder
      BY DEF Init, InOrder
    <2>3. Whole
      BY DEF Init, Whole, NoImage, Torn
    <2> QED BY <2>1, <2>2, <2>3 DEF Unmixed
  <1> QED BY <1>1, <1>2, <1>3 DEF IInv

LEMMA NextInv == IInv /\ [Next]_vars => IInv'
  <1> SUFFICES ASSUME IInv, [Next]_vars PROVE IInv'
    OBVIOUS
  <1>1. TypeOK' /\ CloningIsBusy'
    BY NextType, CloningStep DEF IInv
  <1>2. mixed => mixed'
    BY DEF IInv, TypeOK, Next, LoopStep, WriterStep, Connect, NextMinute, DispatcherRestarts,
           SendPiece, LosePiece, EndDisk, NextDisk, EndLoop, TakePiece, QuietEnd, Break,
           AgentDies, vars
  <1>3. ASSUME ~mixed' PROVE Unmixed'
    <2>1. TypeOK /\ CloningIsBusy /\ Unmixed
      BY <1>2, <1>3 DEF IInv
    <2>2. CASE Connect
      BY <1>3, <2>1, <2>2, ConnectUnmixed DEF Unmixed
    <2>3. ASSUME NEW c \in Conn, LoopStep(c) PROVE Unmixed'
      BY <2>1, <2>3, SendUnmixed, LoseUnmixed, EndDiskUnmixed, NextDiskUnmixed, EndLoopUnmixed
         DEF LoopStep
    <2>4. ASSUME NEW c \in Conn, WriterStep(c) PROVE Unmixed'
      BY <2>1, <2>4, TakeUnmixed, QuietUnmixed DEF WriterStep
    <2>5. CASE \/ UNCHANGED vars \/ NextMinute \/ DispatcherRestarts
               \/ \E c \in Conn : Break(c) \/ AgentDies(c)
      BY <2>1, <2>5, WorldUnmixed
    <2> QED BY <2>2, <2>3, <2>4, <2>5 DEF Next
  <1> QED BY <1>1, <1>3 DEF IInv

\* Where a goroutine, its messages and their writer are alone, the writer gets
\* the messages in order, and counts no more of the first disk than it has.
THEOREM IInvHolds == Spec => []IInv
  <1> QED BY InitInv, NextInv, PTL DEF Spec

\* The type invariant of the copies, for any number of disks, messages and
\* connections and any capacity of SnapshotChannel.
THEOREM TypesHold == Spec => []TypeOK
  <1>1. IInv => TypeOK
    BY DEF IInv
  <1> QED BY <1>1, IInvHolds, PTL

\* Clone and the end of the goroutine never leave isCloning set with nobody at it.
THEOREM CloningIsBusyHolds == Spec => []CloningIsBusy
  <1>1. IInv => CloningIsBusy
    BY DEF IInv
  <1> QED BY <1>1, IInvHolds, PTL

\* WriteFullBackupToFile puts the beginning of one copy into an image, unless
\* its connection was made among remains.
THEOREM ImageIsBeginningHolds == Spec => []ImageIsBeginning
  <1>1. IInv => ImageIsBeginning
    BY DEF IInv, Unmixed, Whole, ImageIsBeginning
  <1> QED BY <1>1, IInvHolds, PTL

\* With the same exception, UpdateProgress completes the action of whole copies.
THEOREM CompletedIsWholeHolds == Spec => []CompletedIsWhole
  <1>1. IInv => CompletedIsWhole
    BY DEF IInv, Unmixed, Whole, CompletedIsWhole
  <1> QED BY <1>1, IInvHolds, PTL
=============================================================================
