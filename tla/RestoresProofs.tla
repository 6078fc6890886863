---------------------------- MODULE RestoresProofs ----------------------------
(***************************************************************************)
(* Safety of Restores, for every set of actions and any number of          *)
(* connections: types, the agent's channel, what a completed file restore  *)
(* has sent, and the order of batches on the paths of the agent.           *)
(***************************************************************************)
EXTENDS Restores, TLAPS

\* The action a goroutine is at is of the kind its step is for, and a file
\* restore has pieces left while it sends chunks.
ControlOf(w) ==
    /\ w.pc \notin {"idle", "next"} => w.act \in Action
    /\ w.pc \in PartitionPc => w.act \notin Files
    /\ w.pc \in {"archive", "start", "chunk", "mark", "end"} => w.act \in Files
    /\ w.pc \in {"archive", "start"} => w.piece = 1
    /\ w.pc = "chunk" => w.piece \in 1..Pieces[w.act]

\* What a file restore has sent by now was taken by a connection.
SentOf(w, acc) ==
    /\ w.pc = "chunk" => 1..(w.piece - 1) \subseteq acc[w.act]
    /\ (w.pc \in {"mark", "end", "done"} /\ w.act \in Files)
          => 1..Pieces[w.act] \subseteq acc[w.act]

Control   == \A c \in Conn : ControlOf(work[c])
SentSoFar == \A c \in Conn : SentOf(work[c], accepted)

IInv == TypeOK /\ Control /\ SentSoFar /\ CompletedWasSent /\ OneOpenRun

USE DEF Conn

-----------------------------------------------------------------------------
(* The agent's writer *)

LEMMA GotoType ==
    ASSUME runs \subseteq Run, NEW r \in runs,
           NEW pc \in {"open", "receive", "leave"}
    PROVE  (runs \ {r}) \cup {[r EXCEPT !.pc = pc]} \subseteq Run
  BY DEF Run

LEMMA ElementType ==
    ASSUME NEW S, NEW s \in Seq(S) PROVE \A i \in 1..Len(s) : s[i] \in S
OBVIOUS

LEMMA PutType ==
    ASSUME NEW S, NEW s \in Seq(S), NEW e \in S, NEW i \in Nat \ {0}
    PROVE  Put(s, i, e) \in Seq(S)
<1>1. CASE i <= Len(s)
  <2>1. [s EXCEPT ![i] = e] \in Seq(S)
    BY <1>1
  <2> QED BY <1>1, <2>1 DEF Put
<1>2. CASE ~(i <= Len(s))
  <2>1. Append(s, e) \in Seq(S)
    OBVIOUS
  <2> QED BY <1>2, <2>1 DEF Put
<1> QED BY <1>1, <1>2

\* u is s with e at position z.
WithAt(u, s, z, e) ==
    /\ u \in Seq(Entry) /\ z \in 1..Len(u) /\ u[z] = e
    /\ \A i \in 1..Len(u) : i = z \/ (i \in 1..Len(s) /\ u[i] = s[i])

LEMMA PutElements ==
    ASSUME NEW s \in Seq(Entry), NEW e \in Entry, NEW p \in Nat, p <= Len(s)
    PROVE  WithAt(Put(s, p + 1, e), s, p + 1, e)
<1>1. CASE p + 1 <= Len(s)
  <2> DEFINE v == [s EXCEPT ![p + 1] = e]
  <2>1. /\ v \in Seq(Entry) /\ Len(v) = Len(s) /\ p + 1 \in 1..Len(s) /\ v[p + 1] = e
        /\ \A i \in 1..Len(s) : i # p + 1 => v[i] = s[i]
    BY <1>1
  <2>2. Put(s, p + 1, e) = v
    BY <1>1 DEF Put
  <2> HIDE DEF v
  <2> QED BY <2>1, <2>2 DEF WithAt
<1>2. CASE ~(p + 1 <= Len(s))
  <2>1. p = Len(s) /\ Put(s, p + 1, e) = Append(s, e)
    BY <1>2 DEF Put
  <2>2. /\ Append(s, e) \in Seq(Entry) /\ Len(Append(s, e)) = Len(s) + 1
        /\ Append(s, e)[Len(s) + 1] = e
        /\ \A i \in 1..Len(s) : Append(s, e)[i] = s[i]
        /\ \A i \in 1..Len(s) + 1 : i \in 1..Len(s) \/ i = Len(s) + 1
        /\ Len(s) + 1 \in 1..Len(s) + 1
    OBVIOUS
  <2> QED BY <2>1, <2>2 DEF WithAt
<1> QED BY <1>1, <1>2

\* The goroutines have the numbers under born.  Behind the place where one stands
\* in its file lies what earlier ones wrote, before it what it wrote itself.
Stands(r, s) ==
    /\ r.pos <= Len(s)
    /\ \A i \in 1..Len(s) : IF i <= r.pos THEN s[i].run = r.id ELSE s[i].run < r.id

Placed ==
    /\ \A t \in Target : \A i \in 1..Len(written[t]) : written[t][i].run < born
    /\ \A r \in runs :
          /\ r.id < born
          /\ r.pc = "open" => \A t \in Target : r.pos = 0 /\ Stands(r, written[t])
          /\ r.pc = "receive" => Stands(r, written[r.path])

LEMMA TryStartRestoreInv ==
    ASSUME WriterTypeOK, OneOpenRun, NEW b \in Batch, TryStartRestore(b)
    PROVE  WriterTypeOK' /\ OneOpenRun'
<1> DEFINE queue == IF running THEN channel ELSE <<>>
<1>1. queue \in Seq(Batch)
  BY DEF WriterTypeOK
<1>2. channel' \in Seq(Batch)
  <2>1. channel' = IF Len(queue) < Capacity THEN Append(queue, b) ELSE queue
    BY DEF TryStartRestore
  <2> HIDE DEF queue
  <2> QED BY <1>1, <2>1
<1>3. [id |-> born, path |-> b.path, pos |-> 0, pc |-> "open"] \in Run
  BY DEF WriterTypeOK, Batch, Run
<1>4. runs' \subseteq Run /\ born' \in Nat
  BY <1>3 DEF TryStartRestore, WriterTypeOK
<1>5. WriterTypeOK'
  BY <1>2, <1>4 DEF TryStartRestore, WriterTypeOK
<1>6. OneOpenRun'
  BY DEF TryStartRestore, OneOpenRun, WriterTypeOK
<1> QED BY <1>5, <1>6

LEMMA RunStepInv ==
    ASSUME WriterTypeOK, OneOpenRun, NEW r \in runs, RunStep(r)
    PROVE  WriterTypeOK' /\ OneOpenRun'
<1> r \in Run
  BY DEF WriterTypeOK
<1>1. CASE OpenTarget(r)
  <2>1. runs' \subseteq Run
    BY <1>1, GotoType DEF OpenTarget, Goto, WriterTypeOK
  <2>2. written' \in [Target -> Seq(Entry)]
    <3>1. <<>> \in Seq(Entry) /\ written \in [Target -> Seq(Entry)] /\ r.path \in Target
      BY DEF WriterTypeOK, Run
    <3>2. Truncated(r.path) \in Seq(Entry)
      BY <3>1 DEF Truncated
    <3>3. [written EXCEPT ![r.path] = Truncated(r.path)] \in [Target -> Seq(Entry)]
      BY <3>1, <3>2
    <3> QED BY <1>1, <3>1, <3>3 DEF OpenTarget
  <2>3. OneOpenRun'
    BY <1>1 DEF OpenTarget, Goto, OneOpenRun
  <2> QED BY <1>1, <2>1, <2>2, <2>3 DEF OpenTarget, WriterTypeOK
<1>2. CASE ReceiveBatch(r)
  <2> DEFINE e == [of |-> Head(channel).of, num |-> Head(channel).num, run |-> r.id]
  <2>1. runs' \subseteq Run
    <3>1. (runs \ {r}) \cup {[r EXCEPT !.pos = @ + 1]} \subseteq Run
      BY DEF WriterTypeOK, Run
    <3> QED BY <1>2, <3>1, GotoType DEF ReceiveBatch, Goto, WriterTypeOK
  <2>2. Head(channel) \in Batch /\ Tail(channel) \in Seq(Batch)
    BY <1>2 DEF ReceiveBatch, WriterTypeOK
  <2>3. e \in Entry /\ r.pos + 1 \in Nat \ {0}
    BY <2>2 DEF Batch, Entry, Run
  <2>4. written' = written \/ written' = [written EXCEPT ![r.path] = Put(@, r.pos + 1, e)]
    BY <1>2 DEF ReceiveBatch
  <2> HIDE DEF e
  <2>5. written \in [Target -> Seq(Entry)] /\ r.path \in Target
    BY DEF WriterTypeOK, Run
  <2>6. Put(written[r.path], r.pos + 1, e) \in Seq(Entry)
    BY <2>3, <2>5, PutType
  <2>7. written' \in [Target -> Seq(Entry)]
    BY <2>4, <2>5, <2>6
  <2>8. OneOpenRun'
    BY <1>2 DEF ReceiveBatch, Goto, OneOpenRun
  <2> QED BY <1>2, <2>1, <2>2, <2>7, <2>8 DEF ReceiveBatch, WriterTypeOK
<1>3. CASE QuietEnd(r)
  <2>1. runs' \subseteq Run
    BY <1>3, GotoType DEF QuietEnd, Goto, WriterTypeOK
  <2>2. OneOpenRun'
    BY <1>3 DEF QuietEnd, Goto, OneOpenRun
  <2> QED BY <1>3, <2>1, <2>2 DEF QuietEnd, WriterTypeOK
<1>4. CASE LeaveRun(r)
  <2>1. OneOpenRun'
    BY <1>4 DEF LeaveRun, OneOpenRun
  <2>2. <<>> \in Seq(Batch) /\ runs \ {r} \subseteq Run
    BY DEF WriterTypeOK
  <2> QED BY <1>4, <2>1, <2>2 DEF LeaveRun, WriterTypeOK
<1> QED BY <1>1, <1>2, <1>3, <1>4 DEF RunStep

LEMMA TryStartRestorePlaced ==
    ASSUME WriterTypeOK, OneOpenRun, Placed, NEW b \in Batch, TryStartRestore(b)
    PROVE  Placed'
<1>1. CASE running
  <2>1. UNCHANGED <<runs, born, written>>
    BY <1>1 DEF TryStartRestore
  <2> QED BY <2>1 DEF Placed, Stands
<1>2. CASE ~running
  <2> DEFINE r == [id |-> born, path |-> b.path, pos |-> 0, pc |-> "open"]
  <2>1. runs' = {r} /\ born' = born + 1 /\ written' = written /\ born \in Nat
    BY <1>2 DEF TryStartRestore, OneOpenRun, WriterTypeOK
  <2>2. r.id = born /\ r.pos = 0 /\ r.pc = "open"
    OBVIOUS
  <2> HIDE DEF r
  <2>3. ASSUME NEW t \in Target
        PROVE  Stands(r, written[t]) /\ \A i \in 1..Len(written[t]) : written[t][i].run < born + 1
    <3>1. written[t] \in Seq(Entry) /\ Len(written[t]) \in Nat
      BY DEF WriterTypeOK
    <3>2. ASSUME NEW i \in 1..Len(written[t])
          PROVE  ~(i <= 0) /\ written[t][i].run < born /\ written[t][i].run < born + 1
      <4>1. written[t][i] \in Entry
        BY <3>1, ElementType
      <4>2. written[t][i].run < born
        BY DEF Placed
      <4>3. ~(i <= 0)
        BY <3>1
      <4>4. written[t][i].run \in Nat
        BY <4>1 DEF Entry
      <4> QED BY <2>1, <4>2, <4>3, <4>4
    <3> QED BY <2>2, <3>1, <3>2 DEF Stands
  <2> QED BY <2>1, <2>2, <2>3 DEF Placed
<1> QED BY <1>1, <1>2

LEMMA RunStepPlaced ==
    ASSUME WriterTypeOK, OneOpenRun, Placed, NEW r \in runs, RunStep(r)
    PROVE  Placed'
<1>0. /\ r \in Run /\ runs = {r} /\ r.path \in Target /\ r.pos \in Nat /\ r.id \in Nat
      /\ r.id < born
  BY DEF WriterTypeOK, OneOpenRun, Run, Placed
<1>1. CASE written' = written /\ \E pc \in {"receive", "leave"} :
              /\ Goto(r, pc) /\ UNCHANGED born
              /\ pc = "receive" => r.pc = "open"
  <2>1. PICK pc \in {"receive", "leave"} : /\ runs' = {[r EXCEPT !.pc = pc]}
                                           /\ pc = "receive" => r.pc = "open"
    BY <1>0, <1>1 DEF Goto
  <2> DEFINE q == [r EXCEPT !.pc = pc]
  <2>2. q.id = r.id /\ q.pos = r.pos /\ q.path = r.path /\ q.pc = pc
    BY <1>0 DEF Run
  <2> HIDE DEF q
  <2>3. pc = "receive" => Stands(r, written[r.path])
    BY <1>0, <2>1 DEF Placed
  <2>4. pc = "receive" => Stands(q, written[q.path])
    BY <2>2, <2>3 DEF Stands
  <2>5. runs' = {q}
    BY <2>1 DEF q
  <2> QED BY <1>0, <1>1, <2>2, <2>4, <2>5 DEF Placed
<1>2. CASE /\ r.pc = "open" /\ Goto(r, "receive") /\ UNCHANGED born
           /\ written' = [written EXCEPT ![r.path] = <<>>]
  <2> DEFINE q == [r EXCEPT !.pc = "receive"]
  <2>1. runs' = {q} /\ q.id = r.id /\ q.pos = r.pos /\ q.path = r.path /\ q.pc = "receive"
    BY <1>0, <1>2 DEF Goto, Run
  <2> HIDE DEF q
  <2>2. r.pos = 0
    BY <1>0, <1>2 DEF Placed
  <2>3. /\ written'[r.path] = <<>> /\ Len(<<>>) = 0 /\ 1..0 = {}
        /\ \A t \in Target \ {r.path} : written'[t] = written[t]
    BY <1>0, <1>2 DEF WriterTypeOK
  <2>4. Stands(q, written'[q.path])
    BY <2>1, <2>2, <2>3 DEF Stands
  <2>5. \A t \in Target : \A i \in 1..Len(written'[t]) : written'[t][i].run < born
    BY <2>3 DEF Placed
  <2> QED BY <1>0, <1>2, <2>1, <2>4, <2>5 DEF Placed
<1>3. CASE ReceiveBatch(r) /\ ~(Goto(r, "leave") /\ written' = written)
  <2> DEFINE e == [of |-> Head(channel).of, num |-> Head(channel).num, run |-> r.id]
             q == [r EXCEPT !.pos = @ + 1]
             s == Put(written[r.path], r.pos + 1, e)
  <2>1. /\ written' = [written EXCEPT ![r.path] = s] /\ runs' = {q} /\ born' = born
        /\ channel # <<>>
    BY <1>0, <1>3 DEF ReceiveBatch
  <2>2. q.id = r.id /\ q.pos = r.pos + 1 /\ q.path = r.path /\ r.pc = "receive" /\ q.pc = r.pc
    BY <1>0, <1>3 DEF Run, ReceiveBatch
  <2>3. e \in Entry /\ e.run = r.id
    <3>1. Head(channel) \in Batch
      BY <2>1 DEF WriterTypeOK
    <3> QED BY <1>0, <3>1 DEF Batch, Entry
  <2> HIDE DEF e, q
  <2>4. written[r.path] \in Seq(Entry) /\ Stands(r, written[r.path])
    BY <1>0, <2>2 DEF WriterTypeOK, Placed
  <2>5. /\ s \in Seq(Entry) /\ r.pos + 1 \in 1..Len(s) /\ s[r.pos + 1] = e
        /\ \A i \in 1..Len(s) :
              i = r.pos + 1 \/ (i \in 1..Len(written[r.path]) /\ s[i] = written[r.path][i])
    <3>1. r.pos \in Nat /\ r.pos <= Len(written[r.path])
      BY <1>0, <2>4 DEF Stands
    <3>2. s = Put(written[r.path], r.pos + 1, e)
      OBVIOUS
    <3> HIDE DEF s
    <3>3. WithAt(s, written[r.path], r.pos + 1, e)
      BY <2>3, <2>4, <3>1, <3>2, PutElements
    <3> QED BY <3>3 DEF WithAt
  <2>6. /\ written'[r.path] = s
        /\ \A t \in Target \ {r.path} : written'[t] = written[t]
    BY <1>0, <2>1 DEF WriterTypeOK
  <2> HIDE DEF s
  <2>7. r.pos + 1 <= Len(s)
    BY <2>5
  <2>8. ASSUME NEW i \in 1..Len(s)
        PROVE  /\ IF i <= r.pos + 1 THEN s[i].run = r.id ELSE s[i].run < r.id
               /\ s[i].run < born
    <3>0. i \in Nat
      BY <2>5
    <3>1. CASE i = r.pos + 1
      BY <1>0, <2>3, <2>5, <3>1
    <3>2. CASE i # r.pos + 1
      <4>1. i \in 1..Len(written[r.path]) /\ s[i] = written[r.path][i]
        BY <2>5, <3>2
      <4>2. IF i <= r.pos THEN s[i].run = r.id ELSE s[i].run < r.id
        BY <2>4, <4>1 DEF Stands
      <4>3. s[i].run < born
        BY <1>0, <4>1 DEF Placed
      <4> QED BY <1>0, <3>0, <3>2, <4>2, <4>3
    <3> QED BY <3>1, <3>2
  <2>9. Stands(q, written'[q.path])
    BY <2>2, <2>6, <2>7, <2>8 DEF Stands
  <2>10. \A t \in Target : \A i \in 1..Len(written'[t]) : written'[t][i].run < born
    BY <2>6, <2>8 DEF Placed
  <2> QED BY <1>0, <2>1, <2>2, <2>9, <2>10 DEF Placed
<1>4. CASE LeaveRun(r)
  <2>1. runs' = {} /\ UNCHANGED <<born, written>>
    BY <1>0, <1>4 DEF LeaveRun
  <2> QED BY <2>1 DEF Placed
<1>5. CASE OpenTarget(r)
  <2>1. written' = written \/ written' = [written EXCEPT ![r.path] = Truncated(r.path)]
    BY <1>5 DEF OpenTarget
  <2>2. CASE r.path \in Devices \/ written' = written
    <3>1. written' = written
      BY <1>0, <2>1, <2>2 DEF Truncated, WriterTypeOK
    <3> QED BY <1>1, <1>5, <3>1 DEF OpenTarget
  <2>3. CASE r.path \notin Devices /\ written' # written
    <3>1. written' = [written EXCEPT ![r.path] = <<>>]
      BY <2>1, <2>3 DEF Truncated
    <3>2. r.pc = "open" /\ Goto(r, "receive") /\ UNCHANGED born
      BY <1>5, <2>3 DEF OpenTarget
    <3> QED BY <1>2, <3>1, <3>2
  <2> QED BY <2>2, <2>3
<1>6. CASE ReceiveBatch(r)
  <2>1. CASE Goto(r, "leave") /\ written' = written
    BY <1>1, <1>6, <2>1 DEF ReceiveBatch
  <2>2. CASE ~(Goto(r, "leave") /\ written' = written)
    BY <1>3, <1>6, <2>2
  <2> QED BY <2>1, <2>2
<1>7. CASE QuietEnd(r)
  BY <1>1, <1>7 DEF QuietEnd
<1> QED BY <1>4, <1>5, <1>6, <1>7 DEF RunStep

-----------------------------------------------------------------------------
(* The dispatcher's goroutines *)

LEMMA BecomeType ==
    ASSUME TypeOK, NEW c \in Conn, NEW pc \in Pc, Become(c, pc)
    PROVE  /\ work' \in [Conn -> Worker]
           /\ \A d \in Conn \ {c} : work'[d] = work[d]
           /\ work'[c] = [work[c] EXCEPT !.pc = pc]
<1>1. work \in [Conn -> Worker]
  BY DEF TypeOK
<1>2. [work[c] EXCEPT !.pc = pc] \in Worker
  BY <1>1 DEF Worker
<1>3. work' = [work EXCEPT ![c] = [work[c] EXCEPT !.pc = pc]]
  BY DEF Become
<1> QED BY <1>1, <1>2, <1>3

LEMMA RecordType ==
    ASSUME TypeOK, NEW a \in Action, NEW s \in Status, Record(a, s)
    PROVE  /\ status' \in [Action -> Status] /\ status'[a] = s
           /\ \A b \in Action \ {a} : status'[b] = status[b]
BY DEF TypeOK, Record

LEMMA SendsType ==
    ASSUME TypeOK, NEW c, NEW m \in Message, Sends(c, m)
    PROVE  wire' \in Seq(Message) /\ UNCHANGED <<made, cur>>
<1>1. Append(wire, m) \in Seq(Message)
  BY DEF TypeOK
<1> QED BY <1>1 DEF TypeOK, Sends

Sent(s) == s \in {"Completed", "completed"}

\* What a step of one goroutine must show to keep the invariant.
LEMMA WorkerMoves ==
    ASSUME IInv, NEW c \in Conn,
           work' \in [Conn -> Worker], \A d \in Conn \ {c} : work'[d] = work[d],
           ControlOf(work'[c]), SentOf(work'[c], accepted'),
           status' \in [Action -> Status], accepted' \in [Action -> SUBSET Nat],
           \A a \in Action : accepted[a] \subseteq accepted'[a],
           \A a \in Files : Sent(status'[a]) => \/ Sent(status[a])
                                                \/ 1..Pieces[a] \subseteq accepted'[a],
           tick' \in [Conn -> BOOLEAN], mutex' \in Conn \cup {0},
           wire' \in Seq(Message),
           UNCHANGED <<handler, latest, made, cur, fileVars, writerVars>>
    PROVE  IInv'
<1>1. TypeOK'
  BY DEF IInv, TypeOK, fileVars, writerVars, WriterTypeOK
<1>2. Control'
  BY DEF IInv, Control
<1>3. SentSoFar'
  <2> SUFFICES ASSUME NEW d \in Conn PROVE SentOf(work'[d], accepted')
    BY DEF SentSoFar
  <2>1. CASE d = c
    BY <2>1
  <2>2. CASE d # c
    <3>1. work'[d] = work[d] /\ SentOf(work[d], accepted) /\ ControlOf(work[d])
      BY <2>2 DEF IInv, SentSoFar, Control
    <3>2. work[d].pc \in {"chunk", "mark", "end", "done"} => work[d].act \in Action
      BY <3>1 DEF ControlOf
    <3> QED BY <3>1, <3>2 DEF SentOf
  <2> QED BY <2>1, <2>2
<1>4. CompletedWasSent'
  <2> SUFFICES ASSUME NEW a \in Files, Sent(status'[a])
               PROVE  1..Pieces[a] \subseteq accepted'[a]
    BY DEF CompletedWasSent, Sent
  <2>1. Sent(status[a]) => 1..Pieces[a] \subseteq accepted[a]
    BY DEF IInv, CompletedWasSent, Sent
  <2> QED BY <2>1, ActionAssumption
<1>5. OneOpenRun'
  BY DEF IInv, OneOpenRun, writerVars
<1> QED BY <1>1, <1>2, <1>3, <1>4, <1>5 DEF IInv

LEMMA CheckStepInv ==
    ASSUME IInv, NEW c \in Conn, CheckStep(c)
    PROVE  IInv'
<1> TypeOK /\ work \in [Conn -> Worker] /\ work[c] \in Worker
  BY DEF IInv, TypeOK
<1> ControlOf(work[c]) /\ SentOf(work[c], accepted)
  BY DEF IInv, Control, SentSoFar
<1>1. CASE StartCheck(c)
  <2>1. Waiting \subseteq Action
    BY DEF Waiting
  <2> DEFINE w == [work[c] EXCEPT !.pc = "next", !.todo = Waiting]
  <2>2. w \in Worker /\ w.pc = "next"
    BY <2>1 DEF Worker, Pc
  <2>3. work' = [work EXCEPT ![c] = w]
    BY <1>1 DEF StartCheck
  <2>4. tick' \in [Conn -> BOOLEAN]
    BY <1>1 DEF StartCheck, TypeOK
  <2>5. ControlOf(w) /\ SentOf(w, accepted)
    BY <2>2 DEF ControlOf, SentOf, PartitionPc
  <2> HIDE DEF w
  <2>6. /\ work' \in [Conn -> Worker] /\ work'[c] = w
        /\ \A d \in Conn \ {c} : work'[d] = work[d]
    BY <2>2, <2>3
  <2>7. UNCHANGED <<status, handler, latest, mutex, made, cur, wire, fileVars,
                    accepted, writerVars>>
    BY <1>1 DEF StartCheck, linkVars
  <2> QED BY <2>4, <2>5, <2>6, <2>7, WorkerMoves DEF TypeOK
<1>2. CASE EndCheck(c)
  <2>1. Idle \in Worker /\ Idle.pc = "idle"
    BY RunAssumption DEF AtFirst, Idle, Worker, Pc
  <2>2. ControlOf(Idle) /\ SentOf(Idle, accepted)
    BY <2>1 DEF ControlOf, SentOf, PartitionPc
  <2> QED BY <1>2, <2>1, <2>2, WorkerMoves DEF EndCheck, TypeOK, linkVars
<1>3. CASE Finish(c)
  <2> DEFINE s == IF At(c, "done") THEN "completed" ELSE "failed"
  <2>1. work[c].pc \in {"done", "failed"} /\ Record(work[c].act, s) /\ Become(c, "next")
    BY <1>3 DEF Finish
  <2>2. work[c].act \in Action
    BY <2>1 DEF ControlOf
  <2>3. s \in Status
    BY DEF Status
  <2>4. s = "completed" => work[c].pc = "done"
    BY DEF At
  <2> HIDE DEF s
  <2>5. /\ status' \in [Action -> Status] /\ status'[work[c].act] = s
        /\ \A b \in Action \ {work[c].act} : status'[b] = status[b]
    BY <2>1, <2>2, <2>3, RecordType
  <2>6. /\ work' \in [Conn -> Worker] /\ (\A d \in Conn \ {c} : work'[d] = work[d])
        /\ work'[c] = [work[c] EXCEPT !.pc = "next"]
    BY <2>1, BecomeType DEF Pc
  <2>7. work'[c].pc = "next"
    BY <2>6 DEF Worker
  <2>8. ControlOf(work'[c]) /\ SentOf(work'[c], accepted)
    BY <2>7 DEF ControlOf, SentOf, PartitionPc
  <2>9. \A a \in Files : Sent(status'[a]) => \/ Sent(status[a])
                                             \/ 1..Pieces[a] \subseteq accepted[a]
    <3> SUFFICES ASSUME NEW a \in Files, Sent(status'[a])
                 PROVE  Sent(status[a]) \/ 1..Pieces[a] \subseteq accepted[a]
      OBVIOUS
    <3>1. CASE a = work[c].act
      <4>1. s # "failed" \/ ~Sent(s)
        BY DEF Sent
      <4>2. s = "completed"
        BY <3>1, <2>5, <4>1, s \in {"completed", "failed"} DEF s
      <4> QED BY <3>1, <4>2, <2>4 DEF SentOf
    <3>2. CASE a # work[c].act
      BY <3>2, <2>5, ActionAssumption
    <3> QED BY <3>1, <3>2
  <2> QED BY <1>3, <2>5, <2>6, <2>8, <2>9, WorkerMoves DEF Finish, TypeOK, linkVars
<1>4. ASSUME NEW a \in Action, NextAction(c, a) PROVE IInv'
  <2> DEFINE w == AtFirst(IF a \in Files THEN "archive" ELSE "lock",
                          work[c].todo \ {a}, a)
  <2>1. w \in Worker
    <3>1. work[c].todo \ {a} \subseteq Action
      BY DEF Worker
    <3> QED BY <3>1, RunAssumption DEF AtFirst, Worker, Pc, FilePc, PartitionPc
  <2>2. w.act = a /\ w.piece = 1 /\ w.pc = IF a \in Files THEN "archive" ELSE "lock"
    BY DEF AtFirst
  <2>3. work' = [work EXCEPT ![c] = w] /\ Record(a, "started")
    BY <1>4 DEF NextAction
  <2> HIDE DEF w
  <2>4. ControlOf(w) /\ SentOf(w, accepted)
    BY <2>2 DEF ControlOf, SentOf, PartitionPc
  <2>5. /\ status' \in [Action -> Status] /\ status'[a] = "started"
        /\ \A b \in Action \ {a} : status'[b] = status[b]
    BY <2>3, RecordType DEF Status
  <2>6. \A b \in Files : Sent(status'[b]) => Sent(status[b])
    BY <2>5, ActionAssumption DEF Sent
  <2>7. /\ work' \in [Conn -> Worker] /\ work'[c] = w
        /\ \A d \in Conn \ {c} : work'[d] = work[d]
    BY <2>1, <2>3
  <2>8. UNCHANGED <<handler, tick, latest, mutex, made, cur, wire, fileVars,
                    accepted, writerVars>>
    BY <1>4 DEF NextAction, linkVars
  <2> QED BY <2>4, <2>5, <2>6, <2>7, <2>8, WorkerMoves DEF TypeOK
<1> QED BY <1>1, <1>2, <1>3, <1>4 DEF CheckStep

\* A step of a goroutine within its restore, that sends at most one message and
\* writes at most the record of its action.
LEMMA RestoreMoves ==
    ASSUME IInv, NEW c \in Conn, NEW w \in Worker, work' = [work EXCEPT ![c] = w],
           NEW s \in Status, NEW a \in Action,
           status' \in {status, [status EXCEPT ![a] = s]},
           ControlOf(w), SentOf(w, accepted),
           (a \in Files /\ Sent(s)) => 1..Pieces[a] \subseteq accepted[a],
           mutex' \in Conn \cup {0}, wire' \in Seq(Message),
           UNCHANGED <<handler, tick, latest, made, cur, fileVars, accepted, writerVars>>
    PROVE  IInv'
<1>1. TypeOK /\ work \in [Conn -> Worker]
  BY DEF IInv, TypeOK
<1>2. /\ work' \in [Conn -> Worker] /\ (\A d \in Conn \ {c} : work'[d] = work[d])
      /\ work'[c] = w
  BY <1>1
<1>3. status' \in [Action -> Status]
  BY <1>1 DEF TypeOK
<1>4. \A b \in Files : Sent(status'[b]) => \/ Sent(status[b])
                                           \/ 1..Pieces[b] \subseteq accepted[b]
  <2> SUFFICES ASSUME NEW b \in Files, Sent(status'[b])
               PROVE  Sent(status[b]) \/ 1..Pieces[b] \subseteq accepted[b]
    OBVIOUS
  <2>1. status'[b] = status[b] \/ (b = a /\ status'[b] = s)
    BY <1>1, ActionAssumption DEF TypeOK
  <2> QED BY <2>1
<1>5. ControlOf(work'[c]) /\ SentOf(work'[c], accepted')
  BY <1>2
<1> QED BY <1>1, <1>2, <1>3, <1>4, <1>5, WorkerMoves DEF TypeOK

\* The same when only the pc changes: what must be shown is about the step, the
\* action and the piece the goroutine is at.
LEMMA BecomeMoves ==
    ASSUME IInv, NEW c \in Conn, NEW pc \in Pc, Become(c, pc),
           NEW s \in Status, work[c].act \in Action,
           status' \in {status, [status EXCEPT ![work[c].act] = s]},
           LET v == [pc |-> pc, act |-> work[c].act, piece |-> work[c].piece]
           IN  ControlOf(v) /\ SentOf(v, accepted),
           (work[c].act \in Files /\ Sent(s))
               => 1..Pieces[work[c].act] \subseteq accepted[work[c].act],
           mutex' \in Conn \cup {0}, wire' \in Seq(Message),
           UNCHANGED <<handler, tick, latest, made, cur, fileVars, accepted, writerVars>>
    PROVE  IInv'
<1> DEFINE w == [work[c] EXCEPT !.pc = pc]
           v == [pc |-> pc, act |-> work[c].act, piece |-> work[c].piece]
<1>1. work[c] \in Worker
  BY DEF IInv, TypeOK
<1>2. w \in Worker /\ w.pc = v.pc /\ w.act = v.act /\ w.piece = v.piece
  BY <1>1 DEF Worker
<1>3. work' = [work EXCEPT ![c] = w]
  BY DEF Become
<1>4. ControlOf(v) /\ SentOf(v, accepted)
  OBVIOUS
<1> HIDE DEF w, v
<1>5. ControlOf(w) /\ SentOf(w, accepted)
  BY <1>2, <1>4 DEF ControlOf, SentOf
<1> QED BY <1>2, <1>3, <1>5, RestoreMoves

LEMMA SendStartInv ==
    ASSUME IInv, NEW c \in Conn, SendStart(c)
    PROVE  IInv'
<1> TypeOK /\ work[c] \in Worker /\ ControlOf(work[c])
  BY DEF IInv, TypeOK, Control
<1>1. work[c].pc = "start" /\ work[c].act \in Files /\ work[c].piece = 1
  BY DEF SendStart, At, ControlOf
<1>2. work[c].act \in Action /\ Pieces[work[c].act] \in Nat \ {0}
  BY <1>1, ActionAssumption, PieceAssumption
<1>3. PICK pc \in {"chunk", "failed"} : Become(c, pc) /\ wire' \in Seq(Message)
                                        /\ UNCHANGED <<made, cur>>
  <2>1. [type |-> "start", of |-> work[c].act, num |-> 0] \in Message
    BY <1>2 DEF Message
  <2> QED BY <2>1, SendsType DEF SendStart, linkVars, TypeOK
<1>4. LET v == [pc |-> pc, act |-> work[c].act, piece |-> work[c].piece]
      IN  ControlOf(v) /\ SentOf(v, accepted)
  BY <1>1, <1>2 DEF ControlOf, SentOf, PartitionPc
<1>5. UNCHANGED <<status, handler, tick, latest, mutex, fileVars, accepted, writerVars>>
  BY DEF SendStart
<1> QED BY <1>2, <1>3, <1>4, <1>5, BecomeMoves DEF TypeOK, Status, Sent, Pc, FilePc

LEMMA ArchiveInv ==
    ASSUME IInv, NEW c \in Conn, Archive(c)
    PROVE  IInv'
<1> TypeOK /\ work[c] \in Worker /\ ControlOf(work[c])
  BY DEF IInv, TypeOK, Control
<1>1. work[c].pc = "archive" /\ work[c].act \in Files /\ work[c].act \in Action
      /\ work[c].piece = 1
  BY ActionAssumption DEF Archive, At, ControlOf
<1>2. UNCHANGED <<status, handler, tick, latest, mutex, made, cur, wire, fileVars,
                  accepted, writerVars>>
  BY DEF Archive, linkVars
<1>3. CASE Become(c, "failed")
  <2>1. LET v == [pc |-> "failed", act |-> work[c].act, piece |-> work[c].piece]
        IN  ControlOf(v) /\ SentOf(v, accepted)
    BY <1>1 DEF ControlOf, SentOf, PartitionPc
  <2> QED BY <1>1, <1>2, <1>3, <2>1, BecomeMoves DEF TypeOK, Status, Sent, Pc, FilePc
<1>4. CASE ~Become(c, "failed")
  <2> DEFINE w == [work[c] EXCEPT !.pc = "start", !.conn = latest]
  <2>1. /\ w \in Worker /\ w.pc = "start" /\ w.act = work[c].act
        /\ w.piece = work[c].piece
    BY DEF TypeOK, Worker, Pc, FilePc
  <2>2. work' = [work EXCEPT ![c] = w]
    BY <1>4 DEF Archive
  <2> HIDE DEF w
  <2>3. ControlOf(w) /\ SentOf(w, accepted)
    BY <1>1, <2>1 DEF ControlOf, SentOf, PartitionPc
  <2> QED BY <1>1, <1>2, <2>1, <2>2, <2>3, RestoreMoves DEF TypeOK, Status, Sent
<1> QED BY <1>3, <1>4

LEMMA RetryChunkInv ==
    ASSUME IInv, NEW c \in Conn, RetryChunk(c)
    PROVE  IInv'
<1> TypeOK /\ work[c] \in Worker /\ ControlOf(work[c]) /\ SentOf(work[c], accepted)
  BY DEF IInv, TypeOK, Control, SentSoFar
<1>1. work[c].pc = "chunk" /\ work[c].act \in Files /\ work[c].act \in Action
  BY ActionAssumption DEF RetryChunk, At, ControlOf
<1>2. UNCHANGED <<status, handler, tick, latest, mutex, made, cur, wire, fileVars,
                  accepted, writerVars>>
  BY DEF RetryChunk, linkVars
<1> DEFINE w == IF work[c].tries < Retries - 1
                THEN [work[c] EXCEPT !.tries = @ + 1]
                ELSE [work[c] EXCEPT !.pc = "failed"]
<1>3. w \in Worker
  BY RunAssumption DEF Worker, Pc, FilePc
<1>4. /\ w.pc \in {"chunk", "failed"} /\ w.act = work[c].act
      /\ w.piece = work[c].piece
  BY <1>1 DEF Worker
<1>5. work' = [work EXCEPT ![c] = w]
  BY DEF RetryChunk
<1> HIDE DEF w
<1>6. ControlOf(w) /\ SentOf(w, accepted)
  BY <1>1, <1>4 DEF ControlOf, SentOf, PartitionPc
<1> QED BY <1>1, <1>2, <1>3, <1>5, <1>6, RestoreMoves DEF TypeOK, Status, Sent

LEMMA SendChunkInv ==
    ASSUME IInv, NEW c \in Conn, SendChunk(c)
    PROVE  IInv'
<1> TypeOK /\ work[c] \in Worker /\ ControlOf(work[c]) /\ SentOf(work[c], accepted)
  BY DEF IInv, TypeOK, Control, SentSoFar
<1> DEFINE a == work[c].act
           i == work[c].piece
           w == [work[c] EXCEPT !.pc = IF i = Pieces[a] THEN "mark" ELSE "chunk",
                                !.piece = @ + 1, !.tries = 0]
<1>1. a \in Files /\ a \in Action /\ i \in 1..Pieces[a] /\ Pieces[a] \in Nat
      /\ 1..(i - 1) \subseteq accepted[a]
  BY ActionAssumption, PieceAssumption DEF SendChunk, At, ControlOf, SentOf
<1>2. w \in Worker
  <2>1. i + 1 \in Nat /\ 0 \in 0..Retries-1
    BY <1>1, RunAssumption
  <2> QED BY <2>1 DEF Worker, Pc, FilePc
<1>3. /\ w.pc = IF i = Pieces[a] THEN "mark" ELSE "chunk"
      /\ w.act = a /\ w.piece = i + 1
  BY DEF Worker
<1>4. work' = [work EXCEPT ![c] = w]
  BY DEF SendChunk
<1>5. /\ work' \in [Conn -> Worker] /\ work'[c] = w
      /\ \A d \in Conn \ {c} : work'[d] = work[d]
  BY <1>2, <1>4 DEF TypeOK
<1> HIDE DEF w
<1>6. /\ accepted' \in [Action -> SUBSET Nat] /\ accepted'[a] = accepted[a] \cup {i}
      /\ \A b \in Action : accepted[b] \subseteq accepted'[b]
  <2>1. accepted' = [accepted EXCEPT ![a] = @ \cup {i}]
    BY DEF SendChunk
  <2>2. accepted \in [Action -> SUBSET Nat] /\ accepted[a] \cup {i} \in SUBSET Nat
    BY <1>1 DEF TypeOK
  <2> QED BY <1>1, <2>1, <2>2
<1>7. 1..i \subseteq accepted'[a]
  BY <1>1, <1>6
<1>8. ControlOf(w)
  BY <1>1, <1>3 DEF ControlOf, PartitionPc
<1>9. SentOf(w, accepted')
  BY <1>1, <1>3, <1>7 DEF SentOf
<1>10. wire' \in Seq(Message) /\ UNCHANGED <<made, cur>>
  <2>1. [type |-> "chunk", of |-> a, num |-> i] \in Message
    BY <1>1 DEF Message
  <2>2. Sends(latest, [type |-> "chunk", of |-> a, num |-> i])
    BY DEF SendChunk
  <2> HIDE DEF a, i
  <2> QED BY <2>1, <2>2, SendsType
<1>11. status' \in {status, [status EXCEPT ![a] = "started"]}
  BY DEF SendChunk, MayReport
<1>12. status' \in [Action -> Status]
  BY <1>11 DEF TypeOK, Status
<1>13. \A b \in Files : Sent(status'[b]) => Sent(status[b])
  BY <1>11, ActionAssumption DEF TypeOK, Sent
<1>14. UNCHANGED <<handler, tick, latest, mutex, fileVars, writerVars>>
  BY DEF SendChunk
<1> QED BY <1>5, <1>6, <1>8, <1>9, <1>10, <1>12, <1>13, <1>14, WorkerMoves DEF TypeOK

LEMMA MarkCompletedInv ==
    ASSUME IInv, NEW c \in Conn, MarkCompleted(c)
    PROVE  IInv'
<1> TypeOK /\ ControlOf(work[c]) /\ SentOf(work[c], accepted)
  BY DEF IInv, Control, SentSoFar
<1>1. work[c].pc = "mark" /\ work[c].act \in Files /\ work[c].act \in Action
  BY ActionAssumption DEF MarkCompleted, At, ControlOf
<1>2. 1..Pieces[work[c].act] \subseteq accepted[work[c].act]
  BY <1>1 DEF SentOf
<1>3. LET v == [pc |-> "end", act |-> work[c].act, piece |-> work[c].piece]
      IN  ControlOf(v) /\ SentOf(v, accepted)
  BY <1>1, <1>2 DEF ControlOf, SentOf, PartitionPc
<1>4. /\ Become(c, "end") /\ status' = [status EXCEPT ![work[c].act] = "Completed"]
      /\ UNCHANGED <<handler, tick, latest, mutex, made, cur, wire, fileVars,
                     accepted, writerVars>>
  BY DEF MarkCompleted, Record, linkVars
<1> QED BY <1>1, <1>2, <1>3, <1>4, BecomeMoves DEF TypeOK, Status, Pc, FilePc

LEMMA SendCompleteInv ==
    ASSUME IInv, NEW c \in Conn, SendComplete(c)
    PROVE  IInv'
<1> TypeOK /\ ControlOf(work[c]) /\ SentOf(work[c], accepted)
  BY DEF IInv, Control, SentSoFar
<1>1. work[c].pc = "end" /\ work[c].act \in Files /\ work[c].act \in Action
  BY ActionAssumption DEF SendComplete, At, ControlOf
<1>2. 1..Pieces[work[c].act] \subseteq accepted[work[c].act]
  BY <1>1 DEF SentOf
<1>3. PICK pc \in {"done", "failed"} : Become(c, pc) /\ wire' \in Seq(Message)
                                       /\ UNCHANGED <<made, cur>>
  <2>1. [type |-> "complete", of |-> work[c].act, num |-> 0] \in Message
    BY <1>1 DEF Message
  <2> QED BY <2>1, SendsType DEF SendComplete, linkVars, TypeOK
<1>4. LET v == [pc |-> pc, act |-> work[c].act, piece |-> work[c].piece]
      IN  ControlOf(v) /\ SentOf(v, accepted)
  BY <1>1, <1>2 DEF ControlOf, SentOf, PartitionPc
<1>5. UNCHANGED <<status, handler, tick, latest, mutex, fileVars, accepted, writerVars>>
  BY DEF SendComplete
<1> QED BY <1>1, <1>3, <1>4, <1>5, BecomeMoves DEF TypeOK, Status, Sent, Pc, FilePc

LEMMA LockMutexInv ==
    ASSUME IInv, NEW c \in Conn, LockMutex(c)
    PROVE  IInv'
<1> TypeOK /\ ControlOf(work[c])
  BY DEF IInv, Control
<1> DEFINE pc == IF At(c, "lock") THEN "size" ELSE "unlock"
<1>1. work[c].pc \in {"lock", "eof"} /\ work[c].act \in Action \ Files
  BY DEF LockMutex, At, ControlOf, PartitionPc
<1>2. pc \in {"size", "unlock"} /\ pc \in Pc
  BY DEF Pc, PartitionPc
<1>3. Become(c, pc) /\ mutex' \in Conn \cup {0}
  BY DEF LockMutex
<1>4. status' \in {status, [status EXCEPT ![work[c].act] = "Completed"]}
  BY DEF LockMutex
<1>5. UNCHANGED <<handler, tick, latest, made, cur, wire, fileVars, accepted, writerVars>>
  BY DEF LockMutex, linkVars
<1> HIDE DEF pc
<1>6. LET v == [pc |-> pc, act |-> work[c].act, piece |-> work[c].piece]
      IN  ControlOf(v) /\ SentOf(v, accepted)
  BY <1>1, <1>2 DEF ControlOf, SentOf, PartitionPc
<1> QED BY <1>1, <1>2, <1>3, <1>4, <1>5, <1>6, BecomeMoves DEF TypeOK, Status

LEMMA OpenSourceInv ==
    ASSUME IInv, NEW c \in Conn, OpenSource(c)
    PROVE  IInv'
<1> TypeOK /\ work[c] \in Worker /\ ControlOf(work[c])
  BY DEF IInv, TypeOK, Control
<1>1. work[c].pc = "size" /\ work[c].act \in Action \ Files
  BY DEF OpenSource, At, ControlOf, PartitionPc
<1>2. UNCHANGED <<handler, tick, latest, mutex, made, cur, wire, fileVars, accepted,
                  writerVars>>
  BY DEF OpenSource, linkVars
<1>3. CASE Record(work[c].act, "failed") /\ Become(c, "unlock")
  <2>1. LET v == [pc |-> "unlock", act |-> work[c].act, piece |-> work[c].piece]
        IN  ControlOf(v) /\ SentOf(v, accepted)
    BY <1>1 DEF ControlOf, SentOf, PartitionPc
  <2>2. status' \in {status, [status EXCEPT ![work[c].act] = "failed"]}
    BY <1>3 DEF Record
  <2> QED BY <1>1, <1>2, <1>3, <2>1, <2>2, BecomeMoves DEF TypeOK, Status, Pc, PartitionPc
<1>4. CASE ~(Record(work[c].act, "failed") /\ Become(c, "unlock"))
  <2> DEFINE w == [work[c] EXCEPT !.pc = "stream", !.conn = latest]
  <2>1. w \in Worker /\ w.pc = "stream" /\ w.act = work[c].act
    BY DEF TypeOK, Worker, Pc, PartitionPc
  <2>2. work' = [work EXCEPT ![c] = w] /\ status' = status
    BY <1>4 DEF OpenSource
  <2> HIDE DEF w
  <2>3. ControlOf(w) /\ SentOf(w, accepted)
    BY <1>1, <2>1 DEF ControlOf, SentOf, PartitionPc
  <2> QED BY <1>1, <1>2, <2>1, <2>2, <2>3, RestoreMoves DEF TypeOK, Status
<1> QED BY <1>3, <1>4

LEMMA StreamBatchInv ==
    ASSUME IInv, NEW c \in Conn, StreamBatch(c)
    PROVE  IInv'
<1> TypeOK /\ work[c] \in Worker /\ ControlOf(work[c])
  BY DEF IInv, TypeOK, Control
<1> DEFINE a == work[c].act
           i == work[c].piece
           w == [work[c] EXCEPT !.pc = IF i = Pieces[a] THEN "eof" ELSE "stream",
                                !.piece = @ + 1]
<1>1. work[c].pc = "stream" /\ a \in Action \ Files /\ i \in Nat
  BY DEF StreamBatch, At, ControlOf, PartitionPc, Worker
<1>2. w \in Worker /\ w.pc \in {"stream", "eof"} /\ w.act = a
  <2>1. ASSUME NEW pc \in {"stream", "eof"}
        PROVE  LET v == [work[c] EXCEPT !.pc = pc, !.piece = @ + 1]
               IN  v \in Worker /\ v.pc = pc /\ v.act = a
    <3>1. i + 1 \in Nat /\ pc \in Pc
      BY <1>1 DEF Pc, PartitionPc
    <3> QED BY <3>1 DEF Worker
  <2>2. (IF i = Pieces[a] THEN "eof" ELSE "stream") \in {"stream", "eof"}
    OBVIOUS
  <2> QED BY <2>1, <2>2
<1>3. work' = [work EXCEPT ![c] = w]
  BY DEF StreamBatch
<1> HIDE DEF w
<1>4. ControlOf(w) /\ SentOf(w, accepted)
  BY <1>1, <1>2 DEF ControlOf, SentOf, PartitionPc
<1>5. wire' \in Seq(Message) /\ UNCHANGED <<made, cur>>
  <2>1. [type |-> "batch", of |-> a, num |-> i] \in Message
    BY <1>1 DEF Message
  <2>2. Sends(work[c].conn, [type |-> "batch", of |-> a, num |-> i])
    BY DEF StreamBatch
  <2> HIDE DEF a, i
  <2> QED BY <2>1, <2>2, SendsType
<1>6. status' \in {status, [status EXCEPT ![a] = "started"]}
  BY DEF StreamBatch, MayReport
<1>7. UNCHANGED <<handler, tick, latest, mutex, fileVars, accepted, writerVars>>
  BY DEF StreamBatch
<1> QED BY <1>1, <1>2, <1>3, <1>4, <1>5, <1>6, <1>7, RestoreMoves DEF TypeOK, Status

LEMMA UnlockMutexInv ==
    ASSUME IInv, NEW c \in Conn, UnlockMutex(c)
    PROVE  IInv'
<1> TypeOK /\ ControlOf(work[c])
  BY DEF IInv, Control
<1>1. work[c].pc = "unlock" /\ work[c].act \in Action \ Files
  BY DEF UnlockMutex, At, ControlOf, PartitionPc
<1>2. /\ Become(c, "done") /\ mutex' = 0
      /\ UNCHANGED <<status, handler, tick, latest, made, cur, wire, fileVars,
                     accepted, writerVars>>
  BY DEF UnlockMutex, linkVars
<1>3. LET v == [pc |-> "done", act |-> work[c].act, piece |-> work[c].piece]
      IN  ControlOf(v) /\ SentOf(v, accepted)
  BY <1>1 DEF ControlOf, SentOf, PartitionPc
<1> QED BY <1>1, <1>2, <1>3, BecomeMoves DEF TypeOK, Status, Pc, FilePc

\* The dispatcher starts again: every goroutine is gone, the records stay.
LEMMA StreamFatalInv ==
    ASSUME IInv, NEW c \in Conn, StreamFatal(c)
    PROVE  IInv'
<1>1. Idle \in Worker /\ Idle.pc = "idle"
  BY RunAssumption DEF AtFirst, Idle, Worker, Pc
<1>2. work' = [d \in Conn |-> Idle] /\ work' \in [Conn -> Worker]
  BY <1>1 DEF StreamFatal
<1>3. /\ handler' \in [Conn -> BOOLEAN] /\ tick' \in [Conn -> BOOLEAN]
      /\ latest' = 0 /\ mutex' = 0
      /\ UNCHANGED <<status, made, cur, wire, fileVars, accepted, writerVars>>
  BY DEF StreamFatal, linkVars
<1>4. TypeOK'
  BY <1>2, <1>3 DEF IInv, TypeOK, fileVars, writerVars, WriterTypeOK
<1>5. Control' /\ SentSoFar'
  BY <1>1, <1>2 DEF Control, SentSoFar, ControlOf, SentOf, PartitionPc
<1>6. CompletedWasSent' /\ OneOpenRun'
  BY <1>3 DEF IInv, CompletedWasSent, OneOpenRun, writerVars
<1> QED BY <1>4, <1>5, <1>6 DEF IInv

LEMMA WorkerStepInv ==
    ASSUME IInv, NEW c \in Conn, WorkerStep(c)
    PROVE  IInv'
BY CheckStepInv, ArchiveInv, SendStartInv, SendChunkInv, RetryChunkInv,
   MarkCompletedInv, SendCompleteInv, LockMutexInv, OpenSourceInv, StreamBatchInv,
   StreamFatalInv, UnlockMutexInv DEF WorkerStep, FileStep, PartitionStep

-----------------------------------------------------------------------------
(* Connections and the agent *)

\* Steps that leave the goroutines and the history of what was sent alone.
LEMMA OtherMoves ==
    ASSUME IInv, TypeOK', OneOpenRun', UNCHANGED <<work, accepted>>,
           \A a \in Files : Sent(status'[a]) => Sent(status[a])
    PROVE  IInv'
BY DEF IInv, Control, SentSoFar, CompletedWasSent, Sent

LEMMA ConnectionInv ==
    ASSUME IInv,
           \/ \E a \in Action : CreateAction(a)
           \/ Connect \/ LinkBreaks
           \/ \E c \in Conn : NoticeLoss(c) \/ Tick(c)
    PROVE  IInv'
<1> TypeOK /\ <<>> \in Seq(Message)
  BY DEF IInv
<1>1. OneOpenRun' /\ WriterTypeOK' /\ UNCHANGED <<work, accepted, fileVars>>
  BY DEF IInv, TypeOK, OneOpenRun, WriterTypeOK, writerVars, serverVars, CreateAction,
         Connect, LinkBreaks, NoticeLoss, Tick
<1>2. ASSUME NEW a \in Action, CreateAction(a) PROVE IInv'
  <2>1. status' \in [Action -> Status] /\ \A b \in Files : Sent(status'[b]) => Sent(status[b])
    BY <1>2, ActionAssumption DEF CreateAction, TypeOK, Status, Sent
  <2>2. TypeOK'
    BY <1>1, <1>2, <2>1 DEF CreateAction, TypeOK, linkVars, fileVars
  <2> QED BY <1>1, <2>1, <2>2, OtherMoves
<1>3. CASE Connect
  <2>1. made + 1 \in Conn /\ made' \in Nat
    BY <1>3, RunAssumption DEF Connect, TypeOK
  <2>2. TypeOK'
    BY <1>1, <1>3, <2>1 DEF Connect, TypeOK, fileVars
  <2>3. UNCHANGED status
    BY <1>3 DEF Connect
  <2> QED BY <1>1, <2>2, <2>3, OtherMoves
<1>4. CASE LinkBreaks
  <2>1. TypeOK' /\ UNCHANGED status
    BY <1>1, <1>4 DEF LinkBreaks, HangUp, TypeOK, serverVars, fileVars
  <2> QED BY <1>1, <2>1, OtherMoves
<1>5. ASSUME NEW c \in Conn, NoticeLoss(c) \/ Tick(c) PROVE IInv'
  <2>1. TypeOK' /\ UNCHANGED status
    BY <1>1, <1>5 DEF NoticeLoss, Tick, TypeOK, linkVars, fileVars
  <2> QED BY <1>1, <2>1, OtherMoves
<1> QED BY <1>2, <1>3, <1>4, <1>5

LEMMA AgentInv ==
    ASSUME IInv, ReceiveStep \/ \E r \in runs : WritePartition(r)
    PROVE  IInv'
<1> TypeOK /\ OneOpenRun /\ WriterTypeOK
  BY DEF IInv, TypeOK
<1>1. UNCHANGED <<serverVars, accepted>>
  BY DEF ReceiveStep, ReceiveStart, ReceiveChunk, ReceiveComplete, ReceivePartition,
         WritePartition
<1>2. SUFFICES /\ made' \in Nat /\ cur' \in Conn \cup {0} /\ wire' \in Seq(Message)
               /\ restore' \in RestoreState /\ unpacked' \subseteq RestoreState
               /\ WriterTypeOK' /\ OneOpenRun'
  <2>1. UNCHANGED <<status, handler, tick, work, latest, mutex, accepted>>
    BY <1>1 DEF serverVars
  <2> SUFFICES ASSUME made' \in Nat, cur' \in Conn \cup {0}, wire' \in Seq(Message),
                      restore' \in RestoreState, unpacked' \subseteq RestoreState,
                      WriterTypeOK', OneOpenRun'
               PROVE  IInv'
    OBVIOUS
  <2>2. TypeOK'
    BY <2>1 DEF TypeOK
  <2> QED BY <2>1, <2>2, OtherMoves
<1>3. ASSUME NEW r \in runs, WritePartition(r) PROVE WriterTypeOK' /\ OneOpenRun'
  BY <1>3, RunStepInv DEF WritePartition
<1>4. ASSUME NEW r \in runs, WritePartition(r)
      PROVE  UNCHANGED <<made, cur, wire, restore, unpacked>>
  BY <1>4 DEF WritePartition, linkVars, fileVars
<1>5. ASSUME Take, wire # <<>>
      PROVE  Head(wire) \in Message /\ wire' \in Seq(Message) /\ UNCHANGED <<made, cur>>
  BY <1>5 DEF Take, TypeOK
<1>6. ASSUME HangUp PROVE cur' = 0 /\ wire' \in Seq(Message) /\ UNCHANGED made
  BY <1>6 DEF HangUp
<1>7. ASSUME wire # <<>>, ~ReceivePartition, ReceiveStep
      PROVE WriterTypeOK' /\ OneOpenRun'
  BY <1>7 DEF ReceiveStep, ReceiveStart, ReceiveChunk, ReceiveComplete, WriterTypeOK,
              OneOpenRun, writerVars
<1>8. CASE ReceiveStart
  <2>1. wire # <<>> /\ Head(wire) \in Message
    BY <1>8 DEF ReceiveStart, Incoming, TypeOK
  <2>2. [of |-> Head(wire).of, got |-> <<>>] \in RestoreState
    BY <2>1 DEF Message, RestoreState
  <2>3. restore' \in RestoreState /\ unpacked' = unpacked /\ UNCHANGED writerVars
    BY <1>8, <2>2 DEF ReceiveStart, Refuse, fileVars, TypeOK
  <2>4. Take \/ HangUp
    BY <1>8 DEF ReceiveStart, Refuse
  <2> QED BY <2>1, <2>3, <2>4, <1>5, <1>6
          DEF TypeOK, WriterTypeOK, OneOpenRun, writerVars
<1>9. CASE ReceiveChunk
  <2>1. wire # <<>> /\ Head(wire) \in Message /\ UNCHANGED writerVars
    BY <1>9 DEF ReceiveChunk, Incoming, TypeOK
  <2> DEFINE r == [restore EXCEPT !.got = Append(@, Head(wire).of)]
  <2>2. r \in RestoreState
    <3>1. Append(restore.got, Head(wire).of) \in Seq(Action)
      BY <2>1 DEF TypeOK, RestoreState, Message
    <3> QED BY <3>1 DEF TypeOK, RestoreState
  <2>3. restore' \in {restore, r} /\ unpacked' \subseteq unpacked \cup {r}
    BY <1>9 DEF ReceiveChunk, Refuse, fileVars
  <2>4. Take \/ HangUp
    BY <1>9 DEF ReceiveChunk, Refuse
  <2> HIDE DEF r
  <2> QED BY <2>1, <2>2, <2>3, <2>4, <1>5, <1>6
          DEF TypeOK, WriterTypeOK, OneOpenRun, writerVars
<1>10. CASE ReceiveComplete
  <2>1. wire # <<>> /\ UNCHANGED writerVars
    BY <1>10 DEF ReceiveComplete, Incoming
  <2>2. NoRestore \in RestoreState
    BY DEF NoRestore, RestoreState
  <2>3. restore' \in {restore, NoRestore} /\ unpacked' \subseteq unpacked \cup {restore}
    BY <1>10 DEF ReceiveComplete, Refuse, fileVars
  <2>4. Take \/ HangUp
    BY <1>10 DEF ReceiveComplete, Refuse
  <2> QED BY <2>1, <2>2, <2>3, <2>4, <1>5, <1>6
          DEF TypeOK, WriterTypeOK, OneOpenRun, writerVars
<1>11. CASE ReceivePartition
  <2> DEFINE m == Head(wire)
             b == [of |-> m.of, num |-> m.num, path |-> PathOf(m.of, m.num)]
  <2>1. wire # <<>> /\ m \in Message
    BY <1>11 DEF ReceivePartition, Incoming, TypeOK
  <2>2. b \in Batch
    BY <2>1 DEF Message, Batch, Target, PathOf
  <2>3. TryStartRestore(b) /\ Take /\ UNCHANGED fileVars
    BY <1>11 DEF ReceivePartition
  <2> HIDE DEF b
  <2>4. WriterTypeOK' /\ OneOpenRun'
    BY <2>2, <2>3, TryStartRestoreInv
  <2> QED BY <2>1, <2>3, <2>4, <1>5 DEF TypeOK, fileVars
<1> QED BY <1>3, <1>4, <1>8, <1>9, <1>10, <1>11 DEF ReceiveStep, TypeOK

LEMMA InitInv == Init => IInv
<1> SUFFICES ASSUME Init PROVE IInv
  OBVIOUS
<1>1. Idle \in Worker /\ Idle.pc = "idle"
  BY RunAssumption DEF AtFirst, Idle, Worker, Pc
<1>2. /\ work \in [Conn -> Worker] /\ \A c \in Conn : work[c].pc = "idle"
  BY <1>1 DEF Init
<1>3. WriterTypeOK /\ OneOpenRun
  <2>1. <<>> \in Seq(Batch) /\ <<>> \in Seq(Entry)
    OBVIOUS
  <2>2. written \in [Target -> Seq(Entry)] /\ channel \in Seq(Batch)
    BY <2>1 DEF Init, WriterInit
  <2> QED BY <2>2 DEF Init, WriterInit, WriterTypeOK, OneOpenRun
<1>4. /\ wire \in Seq(Message) /\ restore \in RestoreState /\ unpacked \subseteq RestoreState
      /\ status \in [Action -> Status] /\ accepted \in [Action -> SUBSET Nat]
  BY DEF Init, NoRestore, RestoreState, Status
<1>5. TypeOK
  BY <1>2, <1>3, <1>4 DEF Init, TypeOK
<1>6. Control /\ SentSoFar
  BY <1>2 DEF Control, SentSoFar, ControlOf, SentOf, PartitionPc
<1>7. CompletedWasSent
  BY ActionAssumption DEF Init, CompletedWasSent
<1> QED BY <1>3, <1>5, <1>6, <1>7 DEF IInv

LEMMA NextInv == IInv /\ [Next]_vars => IInv'
<1> SUFFICES ASSUME IInv, [Next]_vars PROVE IInv'
  OBVIOUS
<1>1. CASE Next
  BY <1>1, ConnectionInv, WorkerStepInv, AgentInv DEF Next
<1>2. CASE UNCHANGED vars
  <2>1. TypeOK' /\ OneOpenRun' /\ UNCHANGED <<status, work, accepted>>
    BY <1>2 DEF vars, serverVars, linkVars, fileVars, writerVars, IInv, TypeOK,
                WriterTypeOK, OneOpenRun
  <2> QED BY <2>1, OtherMoves
<1> QED BY <1>1, <1>2

LEMMA SpecInv == Spec => []IInv
BY InitInv, NextInv, PTL DEF Spec

\* Every variable keeps its type, with as many actions, connections and pieces
\* as there may be (the shapes used by CheckActions and the agent's handlers).
THEOREM TypesHold == Spec => []TypeOK
<1>1. IInv => TypeOK
  BY DEF IInv
<1> QED BY <1>1, SpecInv, PTL

\* The RestoreManager never sends on a closed channel and runs at most one
\* runRestore goroutine, whatever the order of its steps and the messages.
THEOREM ChannelIsOpen == Spec => []OneOpenRun
<1>1. IInv => OneOpenRun
  BY DEF IInv
<1> QED BY <1>1, SpecInv, PTL

\* RestoreFiles and CheckActions record a file restore as completed only when
\* every chunk of it was taken by some connection.
THEOREM CompletedHasBeenSent == Spec => []CompletedWasSent
<1>1. IInv => CompletedWasSent
  BY DEF IInv
<1> QED BY <1>1, SpecInv, PTL

\* No step makes an action wait again.
LEMMA NextTaken ==
    ASSUME IInv, Next, NEW a \in Action, status[a] \notin {"none", "waiting"}
    PROVE  status'[a] \notin {"none", "waiting"}
<1> status \in [Action -> Status]
  BY DEF IInv, TypeOK
<1>1. CASE status' = status
  BY <1>1
<1>2. ASSUME NEW b \in Action, CreateAction(b)
      PROVE  status'[a] \notin {"none", "waiting"}
  BY <1>2 DEF CreateAction
<1>3. ASSUME NEW c \in Conn, WorkerStep(c)
      PROVE  status'[a] \notin {"none", "waiting"}
  <2> DEFINE Recorded(b) == \E s \in {"started", "completed", "failed", "Completed"} :
                                status' = [status EXCEPT ![b] = s]
  <2>1. ASSUME NEW b, Recorded(b) PROVE status'[a] \notin {"none", "waiting"}
    BY <2>1
  <2>2. ASSUME NEW b \in Action, NextAction(c, b) PROVE Recorded(b)
    BY <2>2 DEF NextAction, Record
  <2>3. Finish(c) => Recorded(work[c].act)
    BY DEF Finish, Record
  <2>4. MayReport(c) => status' = status \/ Recorded(work[c].act)
    BY DEF MayReport
  <2>5. MarkCompleted(c) => Recorded(work[c].act)
    BY DEF MarkCompleted, Record
  <2>6. LockMutex(c) \/ OpenSource(c) => status' = status \/ Recorded(work[c].act)
    BY DEF LockMutex, OpenSource, Record
  <2>7. SendChunk(c) \/ StreamBatch(c) => status' = status \/ MayReport(c)
    BY DEF SendChunk, StreamBatch
  <2>8. StartCheck(c) \/ EndCheck(c) \/ Archive(c) \/ SendStart(c) \/ RetryChunk(c)
        \/ SendComplete(c) \/ StreamFatal(c) \/ UnlockMutex(c) => status' = status
    BY DEF StartCheck, EndCheck, Archive, SendStart, RetryChunk, SendComplete,
           StreamFatal, UnlockMutex
  <2> HIDE DEF Recorded
  <2> QED BY <1>1, <1>3, <2>1, <2>2, <2>3, <2>4, <2>5, <2>6, <2>7, <2>8
          DEF WorkerStep, CheckStep, FileStep, PartitionStep
<1>4. \/ status' = status
      \/ \E b \in Action : CreateAction(b)
      \/ \E c \in Conn : WorkerStep(c)
  BY DEF Next, Connect, LinkBreaks, NoticeLoss, Tick, ReceiveStep, ReceiveStart,
         ReceiveChunk, ReceiveComplete, ReceivePartition, WritePartition, serverVars
<1> QED BY <1>1, <1>2, <1>3, <1>4

-----------------------------------------------------------------------------
(* The batches of a partition stay in order from the goroutine that streams
   them to the device, for any number of connections, actions and failures. *)

\* Messages and batches as far as their order goes.
InOrder(x, y) == x.of = y.of => x.num < y.num
IsBatch(m)    == m.type = "batch"

Rising(s)      == \A i, j \in 1..Len(s) : i < j => InOrder(s[i], s[j])
RisingWire(wi) ==
    \A i, j \in 1..Len(wi) : (i < j /\ IsBatch(wi[i]) /\ IsBatch(wi[j])) => InOrder(wi[i], wi[j])
\* On a path: in order what one goroutine wrote, and what another one wrote later
\* lies before.
Layered(s) ==
    \A i, j \in 1..Len(s) : i < j =>
        IF s[i].run = s[j].run THEN InOrder(s[i], s[j]) ELSE InOrder(s[j], s[i])
Before(s, q)   == \A i \in 1..Len(s), j \in 1..Len(q) : InOrder(s[i], q[j])
BeforeWire(s, wi) ==
    \A i \in 1..Len(s), j \in 1..Len(wi) : IsBatch(wi[j]) => InOrder(s[i], wi[j])

\* What a path holds was sent before what the channel holds, and that before
\* what is on the wire.
Flow(w, ch, wi) ==
    /\ \A t \in Target : Layered(w[t]) /\ Before(w[t], ch) /\ BeforeWire(w[t], wi)
    /\ Rising(ch) /\ BeforeWire(ch, wi)
    /\ RisingWire(wi)

\* A batch num of an action is somewhere between the dispatcher and the device.
Has(w, ch, wi, a, n) ==
    \/ \E t \in Target : \E i \in 1..Len(w[t]) : w[t][i].of = a /\ w[t][i].num = n
    \/ \E i \in 1..Len(ch) : ch[i].of = a /\ ch[i].num = n
    \/ \E i \in 1..Len(wi) : IsBatch(wi[i]) /\ wi[i].of = a /\ wi[i].num = n

\* Nothing new appears.
Within(w1, ch1, wi1, w2, ch2, wi2) ==
    \A a, n : Has(w1, ch1, wi1, a, n) => Has(w2, ch2, wi2, a, n)

-----------------------------------------------------------------------------
(* Sequences that grow at the end and lose their head *)

LEMMA AppendElements ==
    ASSUME NEW S, NEW s \in Seq(S), NEW e \in S
    PROVE  /\ Append(s, e) \in Seq(S)
           /\ Len(s) \in Nat /\ Len(Append(s, e)) = Len(s) + 1
           /\ Append(s, e)[Len(s) + 1] = e
           /\ \A i \in 1..Len(s) : Append(s, e)[i] = s[i]
           /\ \A i \in 1..Len(s) + 1 : i \in 1..Len(s) \/ i = Len(s) + 1
OBVIOUS

LEMMA TailElements ==
    ASSUME NEW S, NEW s \in Seq(S), s # <<>>
    PROVE  /\ Tail(s) \in Seq(S)
           /\ Len(s) \in Nat /\ Len(Tail(s)) = Len(s) - 1
           /\ 1 \in 1..Len(s) /\ Head(s) = s[1] /\ Head(s) \in S
           /\ \A i \in 1..Len(s) - 1 : i + 1 \in 1..Len(s) /\ 1 < i + 1
                                       /\ Tail(s)[i] = s[i + 1]
OBVIOUS

Paths == [Target -> Seq(Entry)]

LEMMA EmptyFlow ==
    ASSUME NEW w \in Paths, NEW ch \in Seq(Batch), NEW wi \in Seq(Message), Flow(w, ch, wi)
    PROVE  /\ Flow(w, ch, <<>>) /\ Within(w, ch, <<>>, w, ch, wi)
           /\ Flow(w, <<>>, wi) /\ Within(w, <<>>, wi, w, ch, wi)
<1>1. Len(<<>>) = 0 /\ 1..0 = {}
  OBVIOUS
<1>2. Flow(w, ch, <<>>) /\ Flow(w, <<>>, wi)
  BY <1>1 DEF Flow, Before, BeforeWire, RisingWire, Rising
<1>3. Within(w, ch, <<>>, w, ch, wi) /\ Within(w, <<>>, wi, w, ch, wi)
  BY <1>1 DEF Within, Has
<1> QED BY <1>2, <1>3

\* A message leaves the wire.
LEMMA WireTail ==
    ASSUME NEW w \in Paths, NEW ch \in Seq(Batch), NEW wi \in Seq(Message),
           Flow(w, ch, wi), wi # <<>>
    PROVE  Flow(w, ch, Tail(wi)) /\ Within(w, ch, Tail(wi), w, ch, wi)
<1> DEFINE v == Tail(wi)
<1>1. \A i \in 1..Len(v) : i \in Nat /\ i + 1 \in 1..Len(wi) /\ v[i] = wi[i + 1]
  BY TailElements
<1> HIDE DEF v
<1>2. RisingWire(v)
  <2> SUFFICES ASSUME NEW i \in 1..Len(v), NEW j \in 1..Len(v), i < j,
                      IsBatch(v[i]), IsBatch(v[j])
               PROVE  InOrder(v[i], v[j])
    BY DEF RisingWire
  <2>1. i + 1 < j + 1
    BY <1>1
  <2> QED BY <1>1, <2>1 DEF Flow, RisingWire
<1>3. \A s : BeforeWire(s, wi) => BeforeWire(s, v)
  BY <1>1 DEF BeforeWire
<1>4. Flow(w, ch, v)
  BY <1>2, <1>3 DEF Flow
<1>5. Within(w, ch, v, w, ch, wi)
  BY <1>1 DEF Within, Has
<1> QED BY <1>4, <1>5 DEF v

\* A message is sent that is no batch, or a batch later than all of its action.
LEMMA WireAppend ==
    ASSUME NEW w \in Paths, NEW ch \in Seq(Batch), NEW wi \in Seq(Message), NEW m \in Message,
           Flow(w, ch, wi),
           IsBatch(m) => \A n \in Nat : Has(w, ch, wi, m.of, n) => n < m.num
    PROVE  /\ Flow(w, ch, Append(wi, m))
           /\ \A a, n : Has(w, ch, Append(wi, m), a, n)
                  => Has(w, ch, wi, a, n) \/ (IsBatch(m) /\ a = m.of /\ n = m.num)
<1> DEFINE v == Append(wi, m)
           z == Len(wi) + 1
<1>1. /\ Len(v) = z /\ v[z] = m /\ \A i \in 1..Len(wi) : v[i] = wi[i]
      /\ \A i \in 1..Len(v) : i \in 1..Len(wi) \/ i = z
      /\ Len(wi) \in Nat
  BY AppendElements
<1>2. ASSUME NEW i \in 1..Len(wi) PROVE i < z /\ wi[i].num \in Nat
  <2>1. wi[i] \in Message
    BY ElementType
  <2>2. i < z
    BY <1>1
  <2> QED BY <2>1, <2>2 DEF Message
<1> HIDE DEF v, z
<1>3. RisingWire(v)
  <2> SUFFICES ASSUME NEW i \in 1..Len(v), NEW j \in 1..Len(v), i < j,
                      IsBatch(v[i]), IsBatch(v[j])
               PROVE  InOrder(v[i], v[j])
    BY DEF RisingWire
  <2>1. i \in 1..Len(wi)
    BY <1>1, <1>2
  <2>2. CASE j \in 1..Len(wi)
    BY <1>1, <2>1, <2>2 DEF Flow, RisingWire
  <2>3. CASE j = z
    BY <1>1, <1>2, <2>1, <2>3 DEF Has, InOrder
  <2> QED BY <1>1, <2>2, <2>3
<1>4. ASSUME NEW s, BeforeWire(s, wi),
             IsBatch(m) => \A i \in 1..Len(s) : InOrder(s[i], m)
      PROVE  BeforeWire(s, v)
  BY <1>1, <1>4 DEF BeforeWire
<1>5. IsBatch(m) => \A t \in Target : \A i \in 1..Len(w[t]) : InOrder(w[t][i], m)
  <2>1. ASSUME NEW t \in Target, NEW i \in 1..Len(w[t]) PROVE w[t][i].num \in Nat
    <3>1. w[t] \in Seq(Entry)
      BY DEF Paths
    <3>2. w[t][i] \in Entry
      BY <3>1, ElementType
    <3> QED BY <3>2 DEF Entry
  <2> QED BY <2>1 DEF Has, InOrder
<1>6. IsBatch(m) => \A i \in 1..Len(ch) : InOrder(ch[i], m)
  <2>1. ASSUME NEW i \in 1..Len(ch) PROVE ch[i].num \in Nat
    <3>1. ch[i] \in Batch
      BY ElementType
    <3> QED BY <3>1 DEF Batch
  <2> QED BY <2>1 DEF Has, InOrder
<1>7. Flow(w, ch, v)
  BY <1>3, <1>4, <1>5, <1>6 DEF Flow
<1>8. ASSUME NEW a, NEW n, Has(w, ch, v, a, n)
      PROVE  Has(w, ch, wi, a, n) \/ (IsBatch(m) /\ a = m.of /\ n = m.num)
  BY <1>1, <1>8 DEF Has
<1> QED BY <1>7, <1>8 DEF v

\* A batch goes from the wire to the channel.
LEMMA WireToChannel ==
    ASSUME NEW w \in Paths, NEW ch \in Seq(Batch), NEW wi \in Seq(Message), NEW b \in Batch,
           Flow(w, ch, wi), wi # <<>>,
           IsBatch(Head(wi)), b.of = Head(wi).of, b.num = Head(wi).num
    PROVE  /\ Flow(w, Append(ch, b), Tail(wi))
           /\ Within(w, Append(ch, b), Tail(wi), w, ch, wi)
<1> DEFINE v == Tail(wi)
           c == Append(ch, b)
           z == Len(ch) + 1
<1>1. /\ Len(c) = z /\ c[z] = b /\ \A i \in 1..Len(ch) : c[i] = ch[i] /\ i < z
      /\ \A i \in 1..Len(c) : i \in 1..Len(ch) \/ i = z
  BY AppendElements
<1>2. /\ 1 \in 1..Len(wi) /\ Head(wi) = wi[1]
      /\ \A i \in 1..Len(v) : i + 1 \in 1..Len(wi) /\ 1 < i + 1 /\ v[i] = wi[i + 1]
  BY TailElements
<1>3. Flow(w, ch, v) /\ Within(w, ch, v, w, ch, wi)
  BY WireTail
<1> HIDE DEF v, c, z
<1>4. \A s : BeforeWire(s, wi) => \A i \in 1..Len(s) : InOrder(s[i], b)
  BY <1>2 DEF BeforeWire, InOrder
<1>5. ASSUME NEW s, Before(s, ch), BeforeWire(s, wi) PROVE Before(s, c)
  BY <1>1, <1>4, <1>5 DEF Before
<1>6. Rising(c)
  <2> SUFFICES ASSUME NEW i \in 1..Len(c), NEW j \in 1..Len(c), i < j
               PROVE  InOrder(c[i], c[j])
    BY DEF Rising
  <2>1. i \in 1..Len(ch)
    BY <1>1
  <2>2. CASE j \in 1..Len(ch)
    BY <1>1, <2>1, <2>2 DEF Flow, Rising
  <2>3. CASE j = z
    BY <1>1, <1>4, <2>1, <2>3 DEF Flow
  <2> QED BY <1>1, <2>2, <2>3
<1>7. BeforeWire(c, v)
  <2> SUFFICES ASSUME NEW i \in 1..Len(c), NEW j \in 1..Len(v), IsBatch(v[j])
               PROVE  InOrder(c[i], v[j])
    BY DEF BeforeWire
  <2>1. CASE i \in 1..Len(ch)
    BY <1>1, <1>3, <2>1 DEF Flow, BeforeWire
  <2>2. CASE i = z
    <3>1. InOrder(wi[1], wi[j + 1]) /\ v[j] = wi[j + 1]
      BY <1>2 DEF Flow, RisingWire
    <3> QED BY <1>1, <1>2, <2>2, <3>1 DEF InOrder
  <2> QED BY <1>1, <2>1, <2>2
<1>8. Flow(w, c, v)
  BY <1>3, <1>5, <1>6, <1>7 DEF Flow
<1>9. Within(w, c, v, w, ch, wi)
  <2> SUFFICES ASSUME NEW a, NEW n, Has(w, c, v, a, n) PROVE Has(w, ch, wi, a, n)
    BY DEF Within
  <2>1. CASE Has(w, ch, v, a, n)
    BY <1>3, <2>1 DEF Within
  <2>2. CASE b.of = a /\ b.num = n
    BY <1>2, <2>2 DEF Has
  <2> QED BY <1>1, <2>1, <2>2 DEF Has
<1> QED BY <1>8, <1>9 DEF c, v

\* A batch leaves the channel.
LEMMA ChannelTail ==
    ASSUME NEW w \in Paths, NEW ch \in Seq(Batch), NEW wi \in Seq(Message),
           Flow(w, ch, wi), ch # <<>>
    PROVE  Flow(w, Tail(ch), wi) /\ Within(w, Tail(ch), wi, w, ch, wi)
<1> DEFINE c == Tail(ch)
<1>1. \A i \in 1..Len(c) : i \in Nat /\ i + 1 \in 1..Len(ch) /\ c[i] = ch[i + 1]
  BY TailElements
<1> HIDE DEF c
<1>2. Rising(c)
  <2> SUFFICES ASSUME NEW i \in 1..Len(c), NEW j \in 1..Len(c), i < j
               PROVE  InOrder(c[i], c[j])
    BY DEF Rising
  <2>1. i + 1 < j + 1
    BY <1>1
  <2> QED BY <1>1, <2>1 DEF Flow, Rising
<1>3. BeforeWire(c, wi)
  BY <1>1 DEF Flow, BeforeWire
<1>4. \A s : Before(s, ch) => Before(s, c)
  BY <1>1 DEF Before
<1>5. Flow(w, c, wi)
  BY <1>2, <1>3, <1>4 DEF Flow
<1>6. Within(w, c, wi, w, ch, wi)
  BY <1>1 DEF Within, Has
<1> QED BY <1>5, <1>6 DEF c

\* A batch goes from the channel to the place p + 1 of a path.
LEMMA ChannelToPath ==
    ASSUME NEW w \in Paths, NEW ch \in Seq(Batch), NEW wi \in Seq(Message), NEW t \in Target,
           Flow(w, ch, wi), ch # <<>>,
           NEW p \in Nat, p <= Len(w[t]), NEW e \in Entry,
           e.of = Head(ch).of, e.num = Head(ch).num,
           \A i \in 1..Len(w[t]) : i <= p <=> w[t][i].run = e.run
    PROVE  LET v == [w EXCEPT ![t] = Put(@, p + 1, e)]
           IN  Flow(v, Tail(ch), wi) /\ Within(v, Tail(ch), wi, w, ch, wi)
<1> DEFINE s == Put(w[t], p + 1, e)
           v == [w EXCEPT ![t] = s]
           c == Tail(ch)
           z == p + 1
<1>0. w[t] \in Seq(Entry)
  BY DEF Paths
<1>1. /\ s[z] = e /\ \A i \in 1..Len(s) : i = z \/ (i \in 1..Len(w[t]) /\ s[i] = w[t][i])
      /\ s \in Seq(Entry)
  <2>1. s = Put(w[t], p + 1, e)
    OBVIOUS
  <2> HIDE DEF s
  <2>2. WithAt(s, w[t], z, e)
    BY <1>0, <2>1, PutElements
  <2> QED BY <2>2 DEF WithAt
<1>2. /\ 1 \in 1..Len(ch) /\ Head(ch) = ch[1]
      /\ \A i \in 1..Len(c) : i + 1 \in 1..Len(ch) /\ 1 < i + 1 /\ c[i] = ch[i + 1]
  BY TailElements
<1>3. Flow(w, c, wi) /\ Within(w, c, wi, w, ch, wi)
  BY ChannelTail
<1>4. v[t] = s /\ \A x \in Target \ {t} : v[x] = w[x]
  BY DEF Paths
<1> HIDE DEF s, v, c
<1>5. Layered(s)
  <2> SUFFICES ASSUME NEW i \in 1..Len(s), NEW j \in 1..Len(s), i < j
               PROVE  IF s[i].run = s[j].run THEN InOrder(s[i], s[j]) ELSE InOrder(s[j], s[i])
    BY DEF Layered
  <2>0. i \in Nat /\ j \in Nat
    BY <1>1
  <2>1. ASSUME NEW k \in 1..Len(w[t]) PROVE InOrder(w[t][k], e)
    BY <1>2, <2>1 DEF Flow, Before, InOrder
  <2>2. CASE i # z /\ j # z
    <3>1. /\ i \in 1..Len(w[t]) /\ s[i] = w[t][i]
          /\ j \in 1..Len(w[t]) /\ s[j] = w[t][j]
      BY <1>1, <2>2
    <3> QED BY <3>1 DEF Flow, Layered
  <2>3. CASE j = z
    <3>1. i \in 1..Len(w[t]) /\ s[i] = w[t][i] /\ s[j] = e /\ i <= p
      BY <1>1, <2>0, <2>3
    <3> QED BY <2>1, <3>1
  <2>4. CASE i = z
    <3>1. j \in 1..Len(w[t]) /\ s[j] = w[t][j] /\ s[i] = e /\ ~(j <= p)
      <4>1. j # z
        BY <2>0, <2>4
      <4>2. j \in 1..Len(w[t]) /\ s[j] = w[t][j] /\ s[i] = e
        BY <1>1, <2>4, <4>1
      <4>3. ~(j <= p)
        BY <2>0, <2>4
      <4> QED BY <4>2, <4>3
    <3> QED BY <2>1, <3>1
  <2> QED BY <2>2, <2>3, <2>4
<1> HIDE DEF z
<1>6. Before(s, c)
  <2> SUFFICES ASSUME NEW i \in 1..Len(s), NEW j \in 1..Len(c) PROVE InOrder(s[i], c[j])
    BY DEF Before
  <2>1. CASE i # z
    BY <1>1, <1>3, <2>1 DEF Flow, Before
  <2>2. CASE i = z
    <3>1. InOrder(ch[1], c[j])
      BY <1>2 DEF Flow, Rising
    <3> QED BY <1>1, <1>2, <2>2, <3>1 DEF InOrder
  <2> QED BY <1>1, <2>1, <2>2
<1>7. BeforeWire(s, wi)
  <2> SUFFICES ASSUME NEW i \in 1..Len(s), NEW j \in 1..Len(wi), IsBatch(wi[j])
               PROVE  InOrder(s[i], wi[j])
    BY DEF BeforeWire
  <2>1. CASE i # z
    BY <1>1, <2>1 DEF Flow, BeforeWire
  <2>2. CASE i = z
    <3>1. InOrder(ch[1], wi[j])
      BY <1>2 DEF Flow, BeforeWire
    <3> QED BY <1>1, <1>2, <2>2, <3>1 DEF InOrder
  <2> QED BY <1>1, <2>1, <2>2
<1>8. Flow(v, c, wi)
  BY <1>3, <1>4, <1>5, <1>6, <1>7 DEF Flow
<1>9. Within(v, c, wi, w, ch, wi)
  <2> SUFFICES ASSUME NEW a, NEW n, Has(v, c, wi, a, n) PROVE Has(w, ch, wi, a, n)
    BY DEF Within
  <2>1. CASE Has(w, c, wi, a, n)
    BY <1>3, <2>1 DEF Within
  <2>2. CASE Head(ch).of = a /\ Head(ch).num = n
    BY <1>2, <2>2 DEF Has
  <2>3. CASE \E x \in Target : \E i \in 1..Len(v[x]) : v[x][i].of = a /\ v[x][i].num = n
    <3>1. PICK x \in Target : \E i \in 1..Len(v[x]) : v[x][i].of = a /\ v[x][i].num = n
      BY <2>3
    <3>2. CASE x = t
      <4>1. PICK i \in 1..Len(s) : s[i].of = a /\ s[i].num = n
        BY <1>4, <3>1, <3>2
      <4>2. CASE i # z
        BY <1>1, <4>1, <4>2 DEF Has
      <4>3. CASE i = z
        BY <1>1, <2>2, <4>1, <4>3
      <4> QED BY <1>1, <4>2, <4>3
    <3>3. CASE x # t
      BY <1>4, <3>1, <3>3 DEF Has
    <3> QED BY <3>2, <3>3
  <2>4. CASE ~\E x \in Target : \E i \in 1..Len(v[x]) : v[x][i].of = a /\ v[x][i].num = n
    <3>1. Has(w, c, wi, a, n)
      BY <2>4 DEF Has
    <3> QED BY <2>1, <3>1
  <2> QED BY <2>3, <2>4
<1> QED BY <1>8, <1>9 DEF v, c, s

\* A path is truncated.
LEMMA PathTruncated ==
    ASSUME NEW w \in Paths, NEW ch \in Seq(Batch), NEW wi \in Seq(Message), NEW t \in Target,
           Flow(w, ch, wi)
    PROVE  LET v == [w EXCEPT ![t] = <<>>]
           IN  Flow(v, ch, wi) /\ Within(v, ch, wi, w, ch, wi)
<1> DEFINE v == [w EXCEPT ![t] = <<>>]
<1>1. /\ v[t] = <<>> /\ \A x \in Target \ {t} : v[x] = w[x]
      /\ Len(<<>>) = 0 /\ 1..0 = {}
  BY DEF Paths
<1> HIDE DEF v
<1>2. Flow(v, ch, wi)
  BY <1>1 DEF Flow, Layered, Before, BeforeWire
<1>3. Within(v, ch, wi, w, ch, wi)
  BY <1>1 DEF Within, Has
<1> QED BY <1>2, <1>3 DEF v

-----------------------------------------------------------------------------
(* Each action is streamed once *)

Underway(a, n) == Has(written, channel, wire, a, n)
Taken(a)    == status[a] \notin {"none", "waiting"}

HolderPc == {"size", "stream", "eof", "unlock"}
Streams(c, a) == work[c].pc \in {"stream", "eof"} /\ work[c].act = a

\* No goroutine is still going to stream action a.
Over(a) ==
    \A c \in Conn : /\ a \notin work[c].todo
                    /\ work[c].pc \in {"lock", "size", "stream", "eof"} => work[c].act # a

\* The goroutine in RestorePartition holds the mutex.
Locked == \A c \in Conn : work[c].pc \in HolderPc <=> mutex = c

\* A batch that was sent is of an action that is over, or of the one being
\* streamed and then before the next piece.
StreamedOnce ==
    \A a \in Action, n \in Nat : Underway(a, n) =>
        /\ Taken(a)
        /\ Over(a) \/ \E c \in Conn : Streams(c, a) /\ n < work[c].piece

\* The record of an action that a goroutine is at says that it was taken.
TakenFirst == \A c \in Conn : work[c].pc \notin {"idle", "next"} => Taken(work[c].act)

\* Together: nobody streams what was streamed before.
Streaming == Locked /\ StreamedOnce /\ TakenFirst

Order == Streaming /\ Flow(written, channel, wire)

LEMMA Facts ==
    ASSUME IInv
    PROVE  /\ written \in Paths /\ channel \in Seq(Batch) /\ wire \in Seq(Message)
           /\ work \in [Conn -> Worker] /\ status \in [Action -> Status]
           /\ \A c \in Conn : /\ work[c].todo \in SUBSET Action /\ work[c].piece \in Nat
                              /\ work[c].pc \notin {"idle", "next"} => work[c].act \in Action
<1>1. /\ written \in Paths /\ channel \in Seq(Batch) /\ wire \in Seq(Message)
      /\ work \in [Conn -> Worker] /\ status \in [Action -> Status]
  BY DEF IInv, TypeOK, WriterTypeOK, Paths
<1>2. \A c \in Conn : work[c] \in Worker /\ ControlOf(work[c])
  BY <1>1 DEF IInv, Control
<1>3. \A c \in Conn : /\ work[c].todo \in SUBSET Action /\ work[c].piece \in Nat
                      /\ work[c].pc \notin {"idle", "next"} => work[c].act \in Action
  BY <1>2 DEF Worker, ControlOf
<1> QED BY <1>1, <1>3

Shrinks == Within(written', channel', wire', written, channel, wire)
StayTaken == \A a \in Action : Taken(a) => Taken(a)'

LEMMA NextStayTaken == ASSUME IInv, [Next]_vars PROVE StayTaken
BY NextTaken DEF StayTaken, Taken, vars, serverVars

\* A step in which no goroutine of the dispatcher moves, or all are gone.
LEMMA Unmoved ==
    ASSUME IInv, Streaming, Shrinks, StayTaken,
           UNCHANGED <<work, mutex>> \/ (mutex' = 0 /\ work' = [c \in Conn |-> Idle])
    PROVE  Streaming'
<1>1. CASE UNCHANGED <<work, mutex>>
  <2>1. Locked'
    BY <1>1 DEF Streaming, Locked
  <2>2. TakenFirst'
    BY <1>1, Facts DEF Streaming, TakenFirst, StayTaken, Taken
  <2>3. StreamedOnce'
    <3> SUFFICES ASSUME NEW a \in Action, NEW n \in Nat, Underway(a, n)'
                 PROVE  /\ Taken(a)'
                        /\ Over(a)' \/ \E c \in Conn : Streams(c, a)' /\ n < work'[c].piece
      BY DEF StreamedOnce
    <3>1. Underway(a, n)
      BY DEF Shrinks, Within, Underway
    <3>2. Taken(a) /\ (Over(a) \/ \E c \in Conn : Streams(c, a) /\ n < work[c].piece)
      BY <3>1 DEF Streaming, StreamedOnce
    <3> QED BY <1>1, <3>2 DEF StayTaken, Over, Streams
  <2> QED BY <2>1, <2>2, <2>3 DEF Streaming
<1>2. CASE mutex' = 0 /\ work' = [c \in Conn |-> Idle]
  <2>0. Idle.pc = "idle" /\ Idle.todo = {}
    BY DEF Idle, AtFirst
  <2>1. \A c \in Conn : work'[c].pc = "idle" /\ work'[c].todo = {} /\ c # 0
    BY <1>2, <2>0, RunAssumption DEF Conn
  <2>2. Locked' /\ TakenFirst'
    BY <1>2, <2>1 DEF Locked, TakenFirst, HolderPc
  <2>3. \A a : Over(a)'
    BY <2>1 DEF Over
  <2>4. StreamedOnce'
    BY <2>3 DEF StreamedOnce, Streaming, Shrinks, Within, Underway, StayTaken
  <2> QED BY <2>2, <2>4 DEF Streaming
<1> QED BY <1>1, <1>2

\* A goroutine moves outside RestorePartition.
LEMMA Outside ==
    ASSUME IInv, IInv', Streaming, Shrinks, StayTaken, NEW c \in Conn, mutex' = mutex,
           \A d \in Conn \ {c} : work'[d] = work[d],
           work[c].pc \notin HolderPc, work'[c].pc \notin HolderPc,
           work'[c].todo \subseteq work[c].todo \cup Waiting,
           work'[c].pc = "lock" => work'[c].act \in work[c].todo,
           work'[c].pc \notin {"idle", "next"} => Taken(work[c].act)'
    PROVE  Streaming'
<1>1. Locked'
  BY DEF Streaming, Locked
<1>2. TakenFirst'
  <2>1. ASSUME NEW d \in Conn \ {c}, work[d].pc \notin {"idle", "next"} PROVE Taken(work[d].act)'
    BY <2>1, Facts DEF Streaming, TakenFirst, StayTaken
  <2> QED BY <2>1 DEF TakenFirst, Taken
<1>3. StreamedOnce'
  <2> SUFFICES ASSUME NEW a \in Action, NEW n \in Nat, Underway(a, n)'
               PROVE  /\ Taken(a)'
                      /\ Over(a)' \/ \E d \in Conn : Streams(d, a)' /\ n < work'[d].piece
    BY DEF StreamedOnce
  <2>1. Underway(a, n)
    BY DEF Shrinks, Within, Underway
  <2>2. Taken(a) /\ (Over(a) \/ \E d \in Conn : Streams(d, a) /\ n < work[d].piece)
    BY <2>1 DEF Streaming, StreamedOnce
  <2>3. CASE Over(a)
    <3>1. a \notin work[c].todo /\ a \notin Waiting
      BY <2>2, <2>3 DEF Over, Waiting, Taken
    <3>2. Over(a)'
      BY <2>3, <3>1 DEF Over, HolderPc
    <3> QED BY <2>2, <3>2 DEF StayTaken
  <2>4. ASSUME NEW d \in Conn, Streams(d, a), n < work[d].piece
        PROVE  Streams(d, a)' /\ n < work'[d].piece
    BY <2>4 DEF Streams, HolderPc
  <2> QED BY <2>2, <2>3, <2>4 DEF StayTaken
<1> QED BY <1>1, <1>2, <1>3 DEF Streaming

-----------------------------------------------------------------------------
(* The goroutines of the dispatcher *)

LEMMA Still ==
    ASSUME IInv, Order, UNCHANGED <<written, channel, wire>>
    PROVE  Shrinks /\ Flow(written, channel, wire)'
BY DEF Order, Shrinks, Within

LEMMA SendOther ==
    ASSUME IInv, Order, NEW c, NEW m \in Message, ~IsBatch(m), Sends(c, m),
           UNCHANGED <<written, channel>>
    PROVE  Shrinks /\ Flow(written, channel, wire)'
<1>1. CASE wire' = wire
  BY <1>1, Still
<1>2. CASE wire' = Append(wire, m)
  <2>1. /\ Flow(written, channel, wire')
        /\ \A a, n : Has(written, channel, wire', a, n) => Has(written, channel, wire, a, n)
    BY <1>2, Facts, WireAppend DEF Order
  <2> QED BY <2>1 DEF Shrinks, Within
<1> QED BY <1>1, <1>2 DEF Sends

LEMMA BecomeOne ==
    ASSUME IInv, NEW c \in Conn, NEW pc, Become(c, pc)
    PROVE  /\ \A d \in Conn \ {c} : work'[d] = work[d]
           /\ work'[c].pc = pc /\ work'[c].todo = work[c].todo
           /\ work'[c].act = work[c].act /\ work'[c].piece = work[c].piece
<1>1. work \in [Conn -> Worker] /\ work[c] \in Worker
  BY Facts
<1>2. work' = [work EXCEPT ![c] = [work[c] EXCEPT !.pc = pc]]
  BY DEF Become
<1>3. LET v == [work[c] EXCEPT !.pc = pc]
      IN  v.pc = pc /\ v.todo = work[c].todo /\ v.act = work[c].act /\ v.piece = work[c].piece
  BY <1>1 DEF Worker
<1> QED BY <1>1, <1>2, <1>3

\* A goroutine replaces some fields of its record.
LEMMA ReplaceOne ==
    ASSUME IInv, NEW c \in Conn, NEW v, work' = [work EXCEPT ![c] = v]
    PROVE  work'[c] = v /\ \A d \in Conn \ {c} : work'[d] = work[d]
BY Facts

\* The restore of files and everything else outside RestorePartition.
LEMMA OutsideOrder ==
    ASSUME IInv, IInv', Order, StayTaken, NEW c \in Conn,
           CheckStep(c) \/ FileStep(c)
    PROVE  Order'
<1>1. /\ work[c] \in Worker /\ ControlOf(work[c])
      /\ TakenFirst
  BY Facts DEF IInv, Control, Order, Streaming
<1>2. UNCHANGED <<mutex, written, channel>>
  BY DEF CheckStep, StartCheck, EndCheck, Finish, NextAction, FileStep, Archive, SendStart,
         SendChunk, RetryChunk, MarkCompleted, SendComplete, writerVars
<1>3. Shrinks /\ Flow(written, channel, wire)'
  <2>1. CASE CheckStep(c) \/ Archive(c) \/ RetryChunk(c) \/ MarkCompleted(c)
    <3>1. wire' = wire
      BY <2>1 DEF CheckStep, StartCheck, EndCheck, Finish, NextAction, Archive, RetryChunk,
                  MarkCompleted, linkVars
    <3> QED BY <1>2, <3>1, Still
  <2>2. CASE SendStart(c)
    <3>1. [type |-> "start", of |-> work[c].act, num |-> 0] \in Message
      BY <1>1, <2>2, Facts DEF SendStart, At, Message
    <3>2. \/ Sends(work[c].conn, [type |-> "start", of |-> work[c].act, num |-> 0])
          \/ wire' = wire
      BY <2>2 DEF SendStart, linkVars
    <3>3. CASE wire' = wire
      BY <1>2, <3>3, Still
    <3> QED BY <1>2, <3>1, <3>2, <3>3, SendOther DEF IsBatch
  <2>3. CASE SendChunk(c)
    <3>1. [type |-> "chunk", of |-> work[c].act, num |-> work[c].piece] \in Message
      BY <1>1, <2>3, Facts DEF SendChunk, At, Message
    <3>2. Sends(latest, [type |-> "chunk", of |-> work[c].act, num |-> work[c].piece])
      BY <2>3 DEF SendChunk
    <3> QED BY <1>2, <3>1, <3>2, SendOther DEF IsBatch
  <2>4. CASE SendComplete(c)
    <3>1. [type |-> "complete", of |-> work[c].act, num |-> 0] \in Message
      BY <1>1, <2>4, Facts DEF SendComplete, At, Message
    <3>2. \/ Sends(work[c].conn, [type |-> "complete", of |-> work[c].act, num |-> 0])
          \/ wire' = wire
      BY <2>4 DEF SendComplete, linkVars
    <3>3. CASE wire' = wire
      BY <1>2, <3>3, Still
    <3> QED BY <1>2, <3>1, <3>2, <3>3, SendOther DEF IsBatch
  <2> QED BY <2>1, <2>2, <2>3, <2>4 DEF FileStep
<1> DEFINE Move == /\ \A d \in Conn \ {c} : work'[d] = work[d]
                   /\ work[c].pc \notin HolderPc /\ work'[c].pc \notin HolderPc
                   /\ work'[c].todo \subseteq work[c].todo \cup Waiting
                   /\ work'[c].pc = "lock" => work'[c].act \in work[c].todo
                   /\ work'[c].pc \notin {"idle", "next"} => Taken(work[c].act)'
<1>4. ASSUME NEW pc \in FilePc \cup {"next"}, Become(c, pc), work[c].pc \in FilePc PROVE Move
  <2>1. work'[c].pc \notin HolderPc \cup {"lock"} /\ work[c].pc \notin HolderPc
    BY <1>4, BecomeOne DEF FilePc, HolderPc
  <2>2. work[c].act \in Action /\ Taken(work[c].act)
    BY <1>1, <1>4, Facts DEF TakenFirst, FilePc
  <2> QED BY <1>4, <2>1, <2>2, BecomeOne DEF StayTaken, Taken
<1>5. ASSUME NEW v \in Worker, work' = [work EXCEPT ![c] = v], work[c].pc \in FilePc,
             v.pc \in FilePc, v.todo = work[c].todo, v.act = work[c].act
      PROVE  Move
  <2>1. work'[c] = v /\ \A d \in Conn \ {c} : work'[d] = work[d]
    BY <1>5, ReplaceOne
  <2>2. v.pc \notin HolderPc \cup {"lock"} /\ work[c].pc \notin HolderPc
    BY <1>5 DEF FilePc, HolderPc
  <2>3. work[c].act \in Action /\ Taken(work[c].act)
    BY <1>1, <1>5, Facts DEF TakenFirst, FilePc
  <2> QED BY <1>5, <2>1, <2>2, <2>3 DEF StayTaken, Taken
<1>6. ASSUME StartCheck(c) PROVE Move
  <2>1. work' = [work EXCEPT ![c] = [work[c] EXCEPT !.pc = "next", !.todo = Waiting]]
    BY <1>6 DEF StartCheck
  <2>2. LET v == [work[c] EXCEPT !.pc = "next", !.todo = Waiting]
        IN  v.pc = "next" /\ v.todo = Waiting
    BY <1>1 DEF Worker
  <2> QED BY <1>6, <2>1, <2>2, ReplaceOne DEF StartCheck, At, HolderPc
<1>7. ASSUME EndCheck(c) PROVE Move
  <2>1. work' = [work EXCEPT ![c] = Idle] /\ Idle.pc = "idle" /\ Idle.todo = {}
    BY <1>7 DEF EndCheck, Idle, AtFirst
  <2> QED BY <1>7, <2>1, ReplaceOne DEF EndCheck, At, HolderPc
<1>8. ASSUME Finish(c) PROVE Move
  BY <1>4, <1>8 DEF Finish, FilePc
<1>9. ASSUME NEW a \in Action, NextAction(c, a) PROVE Move
  <2> DEFINE v == AtFirst(IF a \in Files THEN "archive" ELSE "lock", work[c].todo \ {a}, a)
  <2>1. /\ v.pc \in {"archive", "lock"} /\ v.todo = work[c].todo \ {a} /\ v.act = a
    BY DEF AtFirst
  <2>2. work' = [work EXCEPT ![c] = v] /\ work[c].pc = "next" /\ a \in work[c].todo
    BY <1>9 DEF NextAction, At
  <2>3. Taken(a)'
    BY <1>9, Facts DEF NextAction, Record, Taken
  <2> HIDE DEF v
  <2>4. work'[c] = v /\ \A d \in Conn \ {c} : work'[d] = work[d]
    BY <2>2, ReplaceOne
  <2> QED BY <2>1, <2>2, <2>3, <2>4 DEF HolderPc, Taken
<1>10. ASSUME Archive(c) \/ SendStart(c) \/ MarkCompleted(c) \/ SendComplete(c) PROVE Move
  <2>1. work[c].pc \in FilePc
    BY <1>10 DEF Archive, SendStart, MarkCompleted, SendComplete, At, FilePc
  <2>2. CASE \E pc \in FilePc : Become(c, pc)
    BY <1>4, <2>1, <2>2
  <2>3. CASE work' = [work EXCEPT ![c].pc = "start", ![c].conn = latest]
    <3> DEFINE v == [work[c] EXCEPT !.pc = "start", !.conn = latest]
    <3>1. /\ v \in Worker /\ v.pc = "start" /\ v.todo = work[c].todo /\ v.act = work[c].act
      BY <1>1 DEF IInv, TypeOK, Worker, Pc, FilePc
    <3>2. work' = [work EXCEPT ![c] = v]
      BY <2>3
    <3> HIDE DEF v
    <3> QED BY <1>5, <2>1, <3>1, <3>2 DEF FilePc
  <2> QED BY <1>10, <2>2, <2>3 DEF Archive, SendStart, MarkCompleted, SendComplete, FilePc
<1>11. ASSUME SendChunk(c) \/ RetryChunk(c) PROVE Move
  <2>1. work[c].pc = "chunk"
    BY <1>11 DEF SendChunk, RetryChunk, At
  <2>2. PICK v : /\ work' = [work EXCEPT ![c] = v] /\ v.todo = work[c].todo
                 /\ v.act = work[c].act /\ v.pc \in {"chunk", "mark", "failed"}
    <3>1. CASE SendChunk(c)
      <4> DEFINE v == [work[c] EXCEPT !.pc = IF work[c].piece = Pieces[work[c].act]
                                              THEN "mark" ELSE "chunk",
                                      !.piece = @ + 1, !.tries = 0]
      <4>1. v.todo = work[c].todo /\ v.act = work[c].act /\ v.pc \in {"chunk", "mark"}
        BY <1>1 DEF Worker
      <4>2. work' = [work EXCEPT ![c] = v]
        BY <3>1 DEF SendChunk
      <4> QED BY <4>1, <4>2
    <3>2. CASE RetryChunk(c)
      <4>1. PICK v \in {[work[c] EXCEPT !.tries = @ + 1], [work[c] EXCEPT !.pc = "failed"]} :
                work' = [work EXCEPT ![c] = v]
        BY <3>2 DEF RetryChunk
      <4>2. v.todo = work[c].todo /\ v.act = work[c].act /\ v.pc \in {"chunk", "failed"}
        BY <1>1, <2>1, <4>1 DEF Worker
      <4> QED BY <4>1, <4>2
    <3> QED BY <1>11, <3>1, <3>2
  <2>3. v \in Worker
    BY <2>2, ReplaceOne, Facts DEF IInv, TypeOK
  <2> QED BY <1>5, <2>1, <2>2, <2>3 DEF FilePc
<1>12. Move
  BY <1>6, <1>7, <1>8, <1>9, <1>10, <1>11 DEF CheckStep, FileStep
<1> QED BY <1>2, <1>3, <1>12, Outside DEF Order

\* A goroutine at work in RestorePartition.
LEMMA PartitionFacts ==
    ASSUME IInv, Order, NEW c \in Conn, work[c].pc \in PartitionPc
    PROVE  /\ work[c] \in Worker /\ work[c].act \in Action /\ Taken(work[c].act)
           /\ work[c].pc \in HolderPc <=> mutex = c
           /\ c # 0
<1>1. work[c].pc \notin {"idle", "next"}
  BY DEF PartitionPc
<1>2. c # 0
  BY RunAssumption DEF Conn
<1> QED BY <1>1, <1>2, Facts DEF Order, Streaming, Locked, TakenFirst

LEMMA LockOrder ==
    ASSUME IInv, IInv', Order, StayTaken, NEW c \in Conn, LockMutex(c) PROVE Order'
<1>1. work[c].pc \in {"lock", "eof"} /\ mutex = 0 /\ UNCHANGED <<written, channel, wire>>
  BY DEF LockMutex, writerVars, linkVars
<1>2. work[c].pc = "lock" /\ work[c].act \in Action /\ Taken(work[c].act) /\ c # 0
  BY <1>1, PartitionFacts DEF PartitionPc, HolderPc
<1>3. Become(c, "size") /\ mutex' = c
  BY <1>2 DEF LockMutex, At
<1>4. /\ \A d \in Conn \ {c} : work'[d] = work[d]
      /\ work'[c].pc = "size" /\ work'[c].todo = work[c].todo /\ work'[c].act = work[c].act
  BY <1>3, BecomeOne
<1>5. \A d \in Conn : work[d].pc \notin HolderPc
  BY <1>1, RunAssumption DEF Order, Streaming, Locked, Conn
<1>6. Locked'
  BY <1>3, <1>4, <1>5 DEF Locked, HolderPc
<1>7. TakenFirst'
  <2>1. ASSUME NEW d \in Conn, work[d].pc \notin {"idle", "next"} PROVE Taken(work[d].act)'
    BY <1>4, <2>1, Facts DEF Order, Streaming, TakenFirst, StayTaken, Taken
  <2> QED BY <1>2, <1>4, <2>1 DEF TakenFirst, Taken
<1>8. StreamedOnce'
  <2> SUFFICES ASSUME NEW a \in Action, NEW n \in Nat, Underway(a, n)'
               PROVE  Taken(a)' /\ Over(a)'
    BY DEF StreamedOnce
  <2>1. Taken(a) /\ (Over(a) \/ \E d \in Conn : Streams(d, a))
    BY <1>1 DEF Order, Streaming, StreamedOnce, Underway
  <2>2. Over(a)
    BY <1>5, <2>1 DEF Streams, HolderPc
  <2>3. Over(a)'
    BY <1>2, <1>4, <2>2 DEF Over
  <2> QED BY <2>1, <2>3 DEF StayTaken
<1>9. Flow(written, channel, wire)'
  BY <1>1, Still
<1> QED BY <1>6, <1>7, <1>8, <1>9 DEF Order, Streaming

\* The goroutine that holds the mutex goes on with its action: what it had
\* under way it has, or all of it is over.
LEMMA OpenOrder ==
    ASSUME IInv, IInv', Order, StayTaken, NEW c \in Conn, OpenSource(c) PROVE Order'
<1>1. work[c].pc = "size" /\ UNCHANGED <<mutex, written, channel, wire>>
  BY DEF OpenSource, writerVars, linkVars, At
<1>2. /\ work[c] \in Worker /\ work[c].act \in Action /\ Taken(work[c].act)
      /\ mutex = c /\ c # 0
  BY <1>1, PartitionFacts DEF PartitionPc, HolderPc
<1>3. /\ \A d \in Conn \ {c} : work'[d] = work[d]
      /\ work'[c].pc \in {"stream", "unlock"}
      /\ work'[c].todo = work[c].todo /\ work'[c].act = work[c].act
  <2>1. CASE Become(c, "unlock")
    BY <2>1, BecomeOne
  <2>2. CASE work' = [work EXCEPT ![c].pc = "stream", ![c].conn = latest]
    <3> DEFINE v == [work[c] EXCEPT !.pc = "stream", !.conn = latest]
    <3>1. v.pc = "stream" /\ v.todo = work[c].todo /\ v.act = work[c].act
      BY <1>2 DEF Worker
    <3>2. work' = [work EXCEPT ![c] = v]
      BY <2>2
    <3> HIDE DEF v
    <3> QED BY <3>1, <3>2, ReplaceOne
  <2> QED BY <2>1, <2>2 DEF OpenSource
<1>4. \A d \in Conn \ {c} : work[d].pc \notin HolderPc
  BY <1>2 DEF Order, Streaming, Locked
<1>5. Locked'
  BY <1>1, <1>2, <1>3, <1>4 DEF Locked, HolderPc
<1>6. TakenFirst'
  <2>1. ASSUME NEW d \in Conn, work[d].pc \notin {"idle", "next"} PROVE Taken(work[d].act)'
    BY <1>3, <2>1, Facts DEF Order, Streaming, TakenFirst, StayTaken, Taken
  <2> QED BY <1>1, <1>3, <2>1 DEF TakenFirst, Taken
<1>7. StreamedOnce'
  <2> SUFFICES ASSUME NEW a \in Action, NEW n \in Nat, Underway(a, n)'
               PROVE  Taken(a)' /\ Over(a)'
    BY DEF StreamedOnce
  <2>1. Taken(a) /\ (Over(a) \/ \E d \in Conn : Streams(d, a))
    BY <1>1 DEF Order, Streaming, StreamedOnce, Underway
  <2>2. Over(a)
    BY <1>1, <1>4, <2>1 DEF Streams, HolderPc
  <2>3. Over(a)'
    BY <1>1, <1>3, <2>2 DEF Over
  <2> QED BY <2>1, <2>3 DEF StayTaken
<1>8. Flow(written, channel, wire)'
  BY <1>1, Still
<1> QED BY <1>5, <1>6, <1>7, <1>8 DEF Order, Streaming

LEMMA StreamOrder ==
    ASSUME IInv, IInv', Order, StayTaken, NEW c \in Conn, StreamBatch(c) PROVE Order'
<1> DEFINE b == [type |-> "batch", of |-> work[c].act, num |-> work[c].piece]
<1>1. work[c].pc = "stream" /\ UNCHANGED <<mutex, written, channel>> /\ Sends(work[c].conn, b)
  BY DEF StreamBatch, writerVars, At
<1>2. /\ work[c] \in Worker /\ work[c].act \in Action /\ Taken(work[c].act)
      /\ work[c].piece \in Nat /\ mutex = c /\ c # 0
  BY <1>1, PartitionFacts, Facts DEF PartitionPc, HolderPc
<1>3. /\ \A d \in Conn \ {c} : work'[d] = work[d]
      /\ work'[c].pc \in {"stream", "eof"} /\ work'[c].piece = work[c].piece + 1
      /\ work'[c].todo = work[c].todo /\ work'[c].act = work[c].act
  <2> DEFINE v == [work[c] EXCEPT !.pc = IF work[c].piece = Pieces[work[c].act]
                                         THEN "eof" ELSE "stream",
                                  !.piece = @ + 1]
  <2>1. /\ v.pc \in {"stream", "eof"} /\ v.piece = work[c].piece + 1
        /\ v.todo = work[c].todo /\ v.act = work[c].act
    BY <1>2 DEF Worker
  <2>2. work' = [work EXCEPT ![c] = v]
    BY DEF StreamBatch
  <2> HIDE DEF v
  <2> QED BY <2>1, <2>2, ReplaceOne
<1>4. \A d \in Conn \ {c} : work[d].pc \notin HolderPc
  BY <1>2 DEF Order, Streaming, Locked
<1>5. Locked'
  BY <1>1, <1>2, <1>3, <1>4 DEF Locked, HolderPc
<1>6. TakenFirst'
  <2>1. ASSUME NEW d \in Conn, work[d].pc \notin {"idle", "next"} PROVE Taken(work[d].act)'
    BY <1>3, <2>1, Facts DEF Order, Streaming, TakenFirst, StayTaken, Taken
  <2> QED BY <1>1, <1>3, <2>1 DEF TakenFirst, Taken
<1>7. \A a \in Action, n \in Nat : Underway(a, n)
          => Taken(a) /\ (Over(a) \/ (a = work[c].act /\ n < work[c].piece))
  BY <1>4 DEF Order, Streaming, StreamedOnce, Streams, HolderPc
<1>8. \A n \in Nat : Has(written, channel, wire, b.of, n) => n < b.num
  BY <1>1, <1>2, <1>7 DEF Over, Underway
<1>9. /\ Flow(written, channel, wire)'
      /\ \A a, n : Underway(a, n)' => Underway(a, n) \/ (a = work[c].act /\ n = work[c].piece)
  <2>1. CASE wire' = wire
    BY <1>1, <2>1, Still DEF Shrinks, Within, Underway
  <2>2. CASE wire' = Append(wire, b)
    <3>1. b \in Message /\ b.of = work[c].act /\ b.num = work[c].piece
      BY <1>2 DEF Message
    <3> HIDE DEF b
    <3>2. /\ Flow(written, channel, wire')
          /\ \A a, n : Has(written, channel, wire', a, n)
                         => Has(written, channel, wire, a, n) \/ (a = b.of /\ n = b.num)
      BY <1>8, <2>2, <3>1, Facts, WireAppend DEF Order
    <3> QED BY <1>1, <3>1, <3>2 DEF Underway
  <2> QED BY <1>1, <2>1, <2>2 DEF Sends
<1>10. StreamedOnce'
  <2> SUFFICES ASSUME NEW a \in Action, NEW n \in Nat, Underway(a, n)'
               PROVE  /\ Taken(a)'
                      /\ Over(a)' \/ \E d \in Conn : Streams(d, a)' /\ n < work'[d].piece
    BY DEF StreamedOnce
  <2>1. Taken(a) /\ (Over(a) \/ (a = work[c].act /\ n < work[c].piece + 1))
    BY <1>2, <1>7, <1>9
  <2>2. CASE Over(a)
    <3>1. Over(a)'
      BY <1>1, <1>3, <2>2 DEF Over
    <3> QED BY <2>1, <3>1 DEF StayTaken
  <2>3. CASE a = work[c].act /\ n < work[c].piece + 1
    <3>1. Streams(c, a)' /\ n < work'[c].piece
      BY <1>3, <2>3 DEF Streams
    <3> QED BY <2>1, <3>1 DEF StayTaken
  <2> QED BY <2>1, <2>2, <2>3
<1> QED BY <1>5, <1>6, <1>9, <1>10 DEF Order, Streaming

LEMMA FatalOrder ==
    ASSUME IInv, IInv', Order, StayTaken, NEW c \in Conn, StreamFatal(c) PROVE Order'
<1>1. /\ UNCHANGED <<written, channel, wire>>
      /\ mutex' = 0 /\ work' = [d \in Conn |-> Idle]
  BY DEF StreamFatal, linkVars, writerVars
<1> QED BY <1>1, Still, Unmoved DEF Order

LEMMA UnlockOrder ==
    ASSUME IInv, IInv', Order, StayTaken, NEW c \in Conn, UnlockMutex(c) PROVE Order'
<1>1. /\ work[c].pc = "unlock" /\ UNCHANGED <<status, written, channel, wire>>
      /\ mutex' = 0 /\ Become(c, "done")
  BY DEF UnlockMutex, linkVars, writerVars, At
<1>2. mutex = c /\ c # 0 /\ work[c].act \in Action /\ Taken(work[c].act)
  BY <1>1, PartitionFacts DEF PartitionPc, HolderPc
<1>3. /\ \A d \in Conn \ {c} : work'[d] = work[d]
      /\ work'[c].pc = "done" /\ work'[c].todo = work[c].todo /\ work'[c].act = work[c].act
  BY <1>1, BecomeOne
<1>4. \A d \in Conn \ {c} : work[d].pc \notin HolderPc
  BY <1>2 DEF Order, Streaming, Locked
<1>5. Locked'
  <2>1. \A d \in Conn : d # 0
    BY RunAssumption DEF Conn
  <2> QED BY <1>1, <1>3, <1>4, <2>1 DEF Locked, HolderPc
<1>6. TakenFirst'
  BY <1>1, <1>2, <1>3 DEF Order, Streaming, TakenFirst, Taken
<1>7. StreamedOnce'
  <2> SUFFICES ASSUME NEW a \in Action, NEW n \in Nat, Underway(a, n)'
               PROVE  Taken(a)' /\ Over(a)'
    BY DEF StreamedOnce
  <2>1. Taken(a) /\ (Over(a) \/ \E d \in Conn : Streams(d, a))
    BY <1>1 DEF Order, Streaming, StreamedOnce, Underway
  <2>2. Over(a)
    BY <1>1, <1>4, <2>1 DEF Streams, HolderPc
  <2>3. Over(a)'
    BY <1>1, <1>3, <2>2 DEF Over
  <2> QED BY <2>1, <2>3 DEF StayTaken
<1>8. Flow(written, channel, wire)'
  BY <1>1, Still
<1> QED BY <1>5, <1>6, <1>7, <1>8 DEF Order, Streaming

-----------------------------------------------------------------------------
(* Connections and the agent *)

\* A step that only moves or loses what is under way.
LEMMA AgentMoves ==
    ASSUME IInv, Order, StayTaken, UNCHANGED <<work, mutex>>, Shrinks,
           Flow(written, channel, wire)'
    PROVE  Order'
BY Unmoved DEF Order

\* The wire is as it was, empty, or without its first message.
LEMMA WireLoses ==
    ASSUME IInv, Order, UNCHANGED <<written, channel>>,
           wire' = wire \/ wire' = <<>> \/ (wire # <<>> /\ wire' = Tail(wire))
    PROVE  Shrinks /\ Flow(written, channel, wire)'
<1>1. Flow(written, channel, wire)
  BY DEF Order
<1>2. CASE wire' = wire
  BY <1>2, Still
<1>3. CASE wire' = <<>>
  <2>1. Flow(written, channel, wire') /\ Within(written, channel, wire', written, channel, wire)
    BY <1>1, <1>3, Facts, EmptyFlow
  <2> QED BY <2>1 DEF Shrinks
<1>4. CASE wire # <<>> /\ wire' = Tail(wire)
  <2>1. Flow(written, channel, wire') /\ Within(written, channel, wire', written, channel, wire)
    BY <1>1, <1>4, Facts, WireTail
  <2> QED BY <2>1 DEF Shrinks
<1> QED BY <1>2, <1>3, <1>4

LEMMA ConnectionOrder ==
    ASSUME IInv, Order, StayTaken,
           \/ \E a \in Action : CreateAction(a)
           \/ Connect \/ LinkBreaks
           \/ \E c \in Conn : NoticeLoss(c) \/ Tick(c)
           \/ ReceiveStart \/ ReceiveChunk \/ ReceiveComplete
    PROVE  Order'
<1>1. UNCHANGED <<work, mutex, written, channel>>
  BY DEF CreateAction, Connect, LinkBreaks, NoticeLoss, Tick, ReceiveStart, ReceiveChunk,
         ReceiveComplete, serverVars, writerVars
<1>2. wire' = wire \/ wire' = <<>> \/ (wire # <<>> /\ wire' = Tail(wire))
  BY DEF CreateAction, Connect, LinkBreaks, NoticeLoss, Tick, ReceiveStart, ReceiveChunk,
         ReceiveComplete, Refuse, HangUp, Take, Incoming, linkVars
<1> QED BY <1>1, <1>2, WireLoses, AgentMoves

LEMMA ReceivePartitionOrder ==
    ASSUME IInv, Order, StayTaken, ReceivePartition PROVE Order'
<1> DEFINE m == Head(wire)
           b == [of |-> m.of, num |-> m.num, path |-> PathOf(m.of, m.num)]
           queue == IF running THEN channel ELSE <<>>
<1>1. /\ UNCHANGED <<work, mutex, written>>
      /\ wire # <<>> /\ wire' = Tail(wire) /\ IsBatch(m)
      /\ channel' = IF Len(queue) < Capacity THEN Append(queue, b) ELSE queue
  BY DEF ReceivePartition, Incoming, TryStartRestore, Take, IsBatch, serverVars
<1>2. /\ written \in Paths /\ wire \in Seq(Message) /\ queue \in Seq(Batch)
      /\ channel \in Seq(Batch)
  BY Facts
<1>3. Flow(written, queue, wire) /\ Within(written, queue, wire, written, channel, wire)
  BY <1>2, EmptyFlow DEF Order, Within
<1>4. b \in Batch /\ b.of = m.of /\ b.num = m.num
  <2>1. m \in Message
    BY <1>1, <1>2, TailElements
  <2>2. PathOf(m.of, m.num) \in Target
    BY <2>1 DEF PathOf, Target, Message
  <2> QED BY <2>1, <2>2 DEF Batch, Message
<1> HIDE DEF b, queue
<1>5. /\ Flow(written, channel', wire')
      /\ Within(written, channel', wire', written, queue, wire)
  <2>1. CASE channel' = Append(queue, b)
    BY <1>1, <1>2, <1>3, <1>4, <2>1, WireToChannel
  <2>2. CASE channel' = queue
    BY <1>1, <1>2, <1>3, <2>2, WireTail
  <2> QED BY <1>1, <2>1, <2>2
<1>6. Shrinks
  BY <1>1, <1>3, <1>5 DEF Shrinks, Within
<1> QED BY <1>1, <1>5, <1>6, AgentMoves

LEMMA WritePartitionOrder ==
    ASSUME IInv, Placed, Order, StayTaken, NEW r \in runs, WritePartition(r) PROVE Order'
<1>1. UNCHANGED <<work, mutex, wire>>
  BY DEF WritePartition, serverVars, linkVars
<1>2. /\ written \in Paths /\ wire \in Seq(Message) /\ channel \in Seq(Batch)
      /\ r.path \in Target /\ Flow(written, channel, wire)
  BY Facts DEF IInv, TypeOK, WriterTypeOK, Run, Order
<1>3. /\ Flow(written', channel', wire)
      /\ Within(written', channel', wire, written, channel, wire)
  <2>1. CASE OpenTarget(r)
    <3>1. channel' = channel
      BY <2>1 DEF OpenTarget
    <3>2. written' = written \/ written' = [written EXCEPT ![r.path] = <<>>]
      <4>1. Truncated(r.path) = <<>>
            \/ [written EXCEPT ![r.path] = Truncated(r.path)] = written
        BY <1>2 DEF Truncated, Paths
      <4> QED BY <2>1, <4>1 DEF OpenTarget
    <3>3. CASE written' = written
      BY <1>2, <3>1, <3>3 DEF Within
    <3>4. CASE written' = [written EXCEPT ![r.path] = <<>>]
      BY <1>2, <3>1, <3>4, PathTruncated
    <3> QED BY <3>2, <3>3, <3>4
  <2>2. CASE ReceiveBatch(r)
    <3>1. channel # <<>> /\ channel' = Tail(channel)
      BY <2>2 DEF ReceiveBatch
    <3> DEFINE e == [of |-> Head(channel).of, num |-> Head(channel).num, run |-> r.id]
    <3>2. \/ written' = written
          \/ written' = [written EXCEPT ![r.path] = Put(@, r.pos + 1, e)]
      BY <2>2 DEF ReceiveBatch
    <3>3. CASE written' = written
      BY <1>2, <3>1, <3>3, ChannelTail
    <3>4. CASE written' = [written EXCEPT ![r.path] = Put(@, r.pos + 1, e)]
      <4>1. r \in Run /\ Head(channel) \in Batch
        BY <3>1 DEF IInv, TypeOK, WriterTypeOK
      <4>2. /\ e \in Entry /\ r.pos \in Nat /\ r.id \in Nat
            /\ e.of = Head(channel).of /\ e.num = Head(channel).num /\ e.run = r.id
        BY <4>1 DEF Batch, Entry, Run
      <4> HIDE DEF e
      <4>3. Stands(r, written[r.path])
        BY <2>2 DEF ReceiveBatch, Placed
      <4>4. ASSUME NEW i \in 1..Len(written[r.path])
            PROVE  i <= r.pos <=> written[r.path][i].run = e.run
        <5>1. written[r.path] \in Seq(Entry)
          BY <1>2 DEF Paths
        <5>2. written[r.path][i] \in Entry
          BY <5>1, ElementType
        <5>3. written[r.path][i].run \in Nat
          BY <5>2 DEF Entry
        <5> QED BY <4>2, <4>3, <5>3 DEF Stands
      <4>5. r.pos <= Len(written[r.path])
        BY <4>3 DEF Stands
      <4> QED BY <1>2, <3>1, <3>4, <4>2, <4>4, <4>5, ChannelToPath
    <3> QED BY <3>2, <3>3, <3>4
  <2>3. CASE QuietEnd(r)
    BY <1>2, <2>3 DEF QuietEnd, Within
  <2>4. CASE LeaveRun(r)
    BY <1>2, <2>4, EmptyFlow DEF LeaveRun
  <2> QED BY <2>1, <2>2, <2>3, <2>4 DEF WritePartition, RunStep
<1>4. Shrinks /\ Flow(written, channel, wire)'
  BY <1>1, <1>3 DEF Shrinks
<1> QED BY <1>1, <1>4, AgentMoves

LEMMA InitOrder == Init => Order
<1> SUFFICES ASSUME Init PROVE Order
  OBVIOUS
<1>1. /\ written = [t \in Target |-> <<>>] /\ channel = <<>> /\ wire = <<>> /\ mutex = 0
      /\ work = [c \in Conn |-> Idle] /\ Idle.pc = "idle"
  BY DEF Init, WriterInit, Idle, AtFirst
<1>2. Len(<<>>) = 0 /\ 1..0 = {}
  OBVIOUS
<1>3. Flow(written, channel, wire) /\ \A a, n : ~Underway(a, n)
  BY <1>1, <1>2 DEF Flow, Layered, Rising, Before, BeforeWire, RisingWire, Underway, Has
<1>4. \A c \in Conn : c # 0
  BY RunAssumption DEF Conn
<1>5. Locked /\ TakenFirst /\ StreamedOnce
  BY <1>1, <1>3, <1>4 DEF Locked, TakenFirst, StreamedOnce, HolderPc
<1> QED BY <1>3, <1>5 DEF Order, Streaming

LEMMA NextOrder ==
    ASSUME IInv, IInv', Placed, Order, [Next]_vars PROVE Order'
<1>1. StayTaken
  BY NextStayTaken
<1>2. ASSUME NEW c \in Conn, WorkerStep(c) PROVE Order'
  BY <1>1, <1>2, OutsideOrder, LockOrder, OpenOrder, StreamOrder, FatalOrder, UnlockOrder
     DEF WorkerStep, PartitionStep
<1>3. CASE UNCHANGED vars
  <2>1. UNCHANGED <<work, mutex, written, channel, wire>>
    BY <1>3 DEF vars, serverVars, linkVars, writerVars
  <2> QED BY <1>1, <2>1, Still, AgentMoves
<1>4. CASE ReceiveStep
  BY <1>1, <1>4, ConnectionOrder, ReceivePartitionOrder DEF ReceiveStep
<1> QED BY <1>1, <1>2, <1>3, <1>4, ConnectionOrder, WritePartitionOrder DEF Next

LEMMA InitPlaced == Init => Placed
<1>1. Len(<<>>) = 0 /\ 1..0 = {}
  OBVIOUS
<1> QED BY <1>1 DEF Init, WriterInit, Placed

LEMMA NextPlaced ==
    ASSUME IInv, Placed, [Next]_vars PROVE Placed'
<1>0. WriterTypeOK /\ OneOpenRun /\ wire \in Seq(Message)
  BY DEF IInv, TypeOK
<1>1. CASE UNCHANGED writerVars
  BY <1>1 DEF writerVars, Placed, Stands
<1>2. ASSUME NEW r \in runs, WritePartition(r) PROVE Placed'
  BY <1>0, <1>2, RunStepPlaced DEF WritePartition
<1>3. CASE ReceivePartition
  <2> DEFINE m == Head(wire)
             b == [of |-> m.of, num |-> m.num, path |-> PathOf(m.of, m.num)]
  <2>1. m \in Message
    BY <1>0, <1>3 DEF ReceivePartition, Incoming
  <2>2. b \in Batch
    BY <2>1 DEF Message, Batch, Target, PathOf
  <2>3. TryStartRestore(b)
    BY <1>3 DEF ReceivePartition
  <2> HIDE DEF b
  <2> QED BY <1>0, <2>2, <2>3, TryStartRestorePlaced
<1>4. \/ UNCHANGED writerVars \/ ReceivePartition
      \/ \E r \in runs : WritePartition(r)
  <2>1. ASSUME NEW c \in Conn, WorkerStep(c) PROVE UNCHANGED writerVars
    BY <2>1 DEF WorkerStep, CheckStep, FileStep, PartitionStep, StartCheck, NextAction, EndCheck,
                Finish, Archive, SendStart, SendChunk, RetryChunk, MarkCompleted, SendComplete,
                LockMutex, OpenSource, StreamBatch, StreamFatal, UnlockMutex
  <2>2. (\E a \in Action : CreateAction(a)) \/ Connect \/ LinkBreaks
        \/ (\E c \in Conn : NoticeLoss(c) \/ Tick(c)) => UNCHANGED writerVars
    BY DEF CreateAction, Connect, LinkBreaks, NoticeLoss, Tick
  <2>3. ReceiveStart \/ ReceiveChunk \/ ReceiveComplete => UNCHANGED writerVars
    BY DEF ReceiveStart, ReceiveChunk, ReceiveComplete
  <2>4. UNCHANGED vars => UNCHANGED writerVars
    BY DEF vars
  <2> QED BY <2>1, <2>2, <2>3, <2>4 DEF Next, ReceiveStep
<1> QED BY <1>1, <1>2, <1>3, <1>4

\* No batch lies twice on a path of the agent, and two of one partition lie there
\* in the order RestorePartition sent them exactly if one goroutine of the agent
\* wrote both, whatever breaks, restarts or is tried again; on devices, which
\* keep what was written before, and on plain files.
THEOREM BatchesStayInOrder == Spec => []BatchesInOrder
<1>1. IInv /\ Order => BatchesInOrder
  <2> SUFFICES ASSUME IInv, Order, NEW t \in Target, NEW i \in DOMAIN written[t],
                      NEW j \in DOMAIN written[t], i < j, written[t][i].of = written[t][j].of
               PROVE  /\ written[t][i].num # written[t][j].num
                      /\ written[t][i].num < written[t][j].num
                            <=> written[t][i].run = written[t][j].run
    BY DEF BatchesInOrder
  <2>1. written[t] \in Seq(Entry)
    BY Facts DEF Paths
  <2>2. i \in 1..Len(written[t]) /\ j \in 1..Len(written[t])
    BY <2>1
  <2>3. written[t][i].num \in Nat /\ written[t][j].num \in Nat
    <3>1. written[t][i] \in Entry /\ written[t][j] \in Entry
      BY <2>1, <2>2, ElementType
    <3> QED BY <3>1 DEF Entry
  <2>4. IF written[t][i].run = written[t][j].run THEN InOrder(written[t][i], written[t][j])
                                                ELSE InOrder(written[t][j], written[t][i])
    BY <2>2 DEF Order, Flow, Layered
  <2> QED BY <2>3, <2>4 DEF InOrder
<1>2. Order /\ Placed /\ (IInv /\ IInv' /\ [Next]_vars) => Order' /\ Placed'
  BY NextOrder, NextPlaced
<1> QED BY <1>1, <1>2, InitOrder, InitPlaced, SpecInv, PTL DEF Spec
=============================================================================
