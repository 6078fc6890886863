--------------------------- MODULE LiveSyncProofs ---------------------------
(***************************************************************************)
(* Safety of LiveSync for every number of blocks, goroutines, queue size   *)
(* and every set of failures.                                              *)
(***************************************************************************)
EXTENDS LiveSync, TLAPS

ReaderState == [todo : SUBSET Block, batch : SUBSET Copy, off : BOOLEAN]

\* The reduced forms of events, copies and blocks have the types they should.
LEMMA VersionsType ==
    ASSUME NEW E \in SUBSET Copy PROVE Versions(E) \subseteq Event
BY DEF Versions, Copy, Event

LEMMA CurrentType ==
    ASSUME disk \in [Block -> Content], NEW S \in SUBSET Block
    PROVE  Current(S) \subseteq Event
<1>1. ASSUME NEW b \in Block PROVE disk[b].ver \in Nat
    BY DEF Content
<1> QED BY <1>1 DEF Current, Event

LEMMA BlocksOfType ==
    ASSUME NEW E \in SUBSET Event PROVE BlocksOf(E) \subseteq Block
BY DEF BlocksOf, Event

\* A goroutine's record is replaced by one.
LEMMA ReaderFields ==
    ASSUME TypeOK, NEW r \in Reader, NEW rd \in ReaderState,
           reader' = [reader EXCEPT ![r] = rd]
    PROVE  /\ reader' \in [Reader -> ReaderState]
           /\ reader'[r] = rd
           /\ \A q \in Reader \ {r} : reader'[q] = reader[q]
<1>1. reader \in [Reader -> ReaderState]
    BY DEF TypeOK, ReaderState
<1> QED BY <1>1

\* A read adds a copy, which is the block's own or known to be lost, or loses the
\* block, alone or with the batch.
LEMMA ReadBlockCases ==
    ASSUME TypeOK, NEW r \in Reader, NEW b \in Block, ReadBlock(r, b)
    PROVE  /\ b \in reader[r].todo
           /\ reader' \in [Reader -> ReaderState]
           /\ reader'[r].todo = reader[r].todo \ {b}
           /\ \A q \in Reader \ {r} : reader'[q] = reader[q]
           /\ \/ \E c \in Copy :
                    /\ reader'[r].batch = reader[r].batch \cup {c}
                    /\ c.blk = b /\ c.ver = disk[b].ver
                    /\ IF c.own THEN c.same = disk[b].same /\ lost' = lost
                               ELSE lost' = lost \cup Current({b})
              \/ /\ reader'[r].batch = reader[r].batch
                 /\ lost' = lost \cup Current({b})
              \/ /\ reader'[r].batch = {}
                 /\ lost' = (lost \cup Current({b})) \cup Versions(reader[r].batch)
<1> DEFINE rd   == reader[r]
           left == rd.todo \ {b}
<1>1. /\ rd.todo \in SUBSET Block /\ rd.batch \in SUBSET Copy /\ rd.off \in BOOLEAN
      /\ disk[b].ver \in Nat /\ disk[b].same \in BOOLEAN
      /\ left \in SUBSET Block /\ b \in rd.todo
    BY DEF TypeOK, Content, ReadBlock, IsLeast
<1>2. ASSUME NEW c \in ReadUnder(b, rd.off)
      PROVE  /\ c \in Copy /\ c.blk = b /\ c.ver = disk[b].ver
             /\ c.own <=> ~rd.off
             /\ c.own => c.same = disk[b].same
    <2>1. PICK same \in IF rd.off THEN BOOLEAN ELSE {disk[b].same} :
              c = [blk |-> b, ver |-> disk[b].ver, same |-> same, own |-> ~rd.off]
        BY DEF ReadUnder
    <2>2. same \in BOOLEAN /\ (~rd.off => same = disk[b].same)
        BY <1>1, <2>1
    <2> DEFINE o == ~rd.off
    <2>3. o \in BOOLEAN /\ (o <=> ~rd.off)
        OBVIOUS
    <2>4. c = [blk |-> b, ver |-> disk[b].ver, same |-> same, own |-> o]
        BY <2>1
    <2> HIDE DEF o
    <2> QED BY <1>1, <2>2, <2>3, <2>4 DEF Copy
<1>3. CASE /\ \E c \in ReadUnder(b, rd.off) :
                 reader' = [reader EXCEPT ![r] =
                     [todo |-> left, batch |-> rd.batch \cup {c},
                      off |-> rd.off /\ b + 1 \in rd.todo]]
           /\ lost' = lost \cup (IF rd.off THEN Current({b}) ELSE {})
    <2> PICK c \in ReadUnder(b, rd.off) :
                 reader' = [reader EXCEPT ![r] =
                     [todo |-> left, batch |-> rd.batch \cup {c},
                      off |-> rd.off /\ b + 1 \in rd.todo]]
        BY <1>3
    <2> DEFINE nd == [todo |-> left, batch |-> rd.batch \cup {c},
                      off |-> rd.off /\ b + 1 \in rd.todo]
    <2>1. nd \in ReaderState /\ nd.todo = left /\ nd.batch = rd.batch \cup {c}
        BY <1>1, <1>2 DEF ReaderState
    <2>2. reader' = [reader EXCEPT ![r] = nd]
        OBVIOUS
    <2> HIDE DEF nd
    <2>3. /\ reader' \in [Reader -> ReaderState] /\ reader'[r] = nd
          /\ \A q \in Reader \ {r} : reader'[q] = reader[q]
        BY <2>1, <2>2, ReaderFields
    <2>4. IF c.own THEN c.same = disk[b].same /\ lost' = lost
                   ELSE lost' = lost \cup Current({b})
        BY <1>2, <1>3
    <2> QED BY <1>1, <1>2, <2>1, <2>3, <2>4
<1>4. CASE /\ reader' = [reader EXCEPT ![r] =
                  [todo |-> left, batch |-> rd.batch, off |-> TRUE]]
           /\ lost' = lost \cup Current({b})
    <2> DEFINE nd == [todo |-> left, batch |-> rd.batch, off |-> TRUE]
    <2>1. nd \in ReaderState /\ nd.todo = left /\ nd.batch = rd.batch
        BY <1>1 DEF ReaderState
    <2>2. reader' = [reader EXCEPT ![r] = nd]
        BY <1>4
    <2> HIDE DEF nd
    <2> QED BY <1>1, <1>4, <2>1, <2>2, ReaderFields
<1>5. CASE /\ reader' = [reader EXCEPT ![r] = [IdleReader EXCEPT !.todo = left]]
           /\ lost' = (lost \cup Current({b})) \cup Versions(rd.batch)
    <2> DEFINE nd == [IdleReader EXCEPT !.todo = left]
    <2>1. nd \in ReaderState /\ nd.todo = left /\ nd.batch = {}
        BY <1>1 DEF ReaderState, IdleReader
    <2>2. reader' = [reader EXCEPT ![r] = nd]
        BY <1>5
    <2> HIDE DEF nd
    <2> QED BY <1>1, <1>5, <2>1, <2>2, ReaderFields
<1> QED BY <1>3, <1>4, <1>5 DEF ReadBlock

\* A goroutine whose batch was sent, or could not be.
LEMMA EmptiedFacts ==
    ASSUME TypeOK, NEW r \in Reader,
           \E rd \in Emptied(r) : reader' = [reader EXCEPT ![r] = rd]
    PROVE  /\ reader' \in [Reader -> ReaderState]
           /\ reader'[r].batch = {} /\ reader'[r].todo = reader[r].todo
           /\ \A q \in Reader \ {r} : reader'[q] = reader[q]
<1>1. reader[r] \in ReaderState
    BY DEF TypeOK, ReaderState
<1>2. PICK rd \in Emptied(r) : reader' = [reader EXCEPT ![r] = rd]
    OBVIOUS
<1>3. rd \in ReaderState /\ rd.batch = {} /\ rd.todo = reader[r].todo
    BY <1>1 DEF Emptied, ReaderState
<1> QED BY <1>2, <1>3, ReaderFields

LEMMA AppendType ==
    ASSUME NEW S, NEW s \in Seq(S), NEW e \in S PROVE Append(s, e) \in Seq(S)
OBVIOUS

LEMMA ChunkType ==
    ASSUME NEW S PROVE LowestChunk(S) \subseteq S
BY DEF LowestChunk

LEMMA MaybeFewerType ==
    ASSUME NEW f, NEW S, NEW E \in MaybeFewer(f, S) PROVE E \subseteq S
BY DEF MaybeFewer

LEMMA InitTypeOK == Init => TypeOK
<1> SUFFICES ASSUME Init PROVE TypeOK
    OBVIOUS
<1>1. disk \in [Block -> Content] /\ seen \in [Block -> Content \cup {Unseen}]
    BY DEF Init, Content
<1>2. /\ ring \subseteq Event /\ chan \subseteq Event /\ buf \subseteq Event
      /\ young \subseteq Event /\ aged \subseteq Event /\ lost \subseteq Event
      /\ up \in BOOLEAN /\ tick \in BOOLEAN /\ wmsg \in SUBSET Copy
    BY DEF Init
<1>3. syncer \in [pc : {"idle", "retry", "send"}, files : SUBSET Event,
                  dirty : SUBSET Block, todo : SUBSET Block]
    BY DEF Init, IdleSyncer
<1>4. reader \in [Reader -> [todo : SUBSET Block, batch : SUBSET Copy, off : BOOLEAN]]
    BY DEF Init, IdleReader
<1>5. syncChan \in Seq(SUBSET Copy)
    BY DEF Init
<1>6. /\ retry \in [Block -> Nat] /\ bak \in [Block -> Nat \cup {Foreign}]
      /\ newest \in [Block -> Nat] /\ raced \subseteq Block
    BY DEF Init
<1> QED BY <1>1, <1>2, <1>3, <1>4, <1>5, <1>6 DEF TypeOK

LEMMA RequestedContains ==
    ASSUME NEW S \in SUBSET Block
    PROVE  S \subseteq Requested(S) /\ Requested(S) \subseteq Block
BY SizeAssumption DEF Requested, Block

LEMMA NextTypeOK == TypeOK /\ [Next]_vars => TypeOK'
<1> SUFFICES ASSUME TypeOK, [Next]_vars PROVE TypeOK'
    OBVIOUS
<1> USE DEF TypeOK
<1>1. CASE UNCHANGED vars
    BY <1>1 DEF vars, agentVars, fileVars, writeVars
<1>2. ASSUME NEW b \in Block, NEW same \in BOOLEAN, Write(b, same) PROVE TypeOK'
    <2>1. disk[b].ver + 1 \in Nat
        BY DEF Content
    <2>2. disk' \in [Block -> Content]
        BY <1>2, <2>1 DEF Write, Content
    <2>3. [blk |-> b, ver |-> disk[b].ver + 1] \in Event
        BY <2>1 DEF Event
    <2>4. ring' \subseteq Event /\ lost' \subseteq Event
        BY <1>2, <2>3 DEF Write
    <2> QED BY <1>2, <2>2, <2>4 DEF Write, fileVars, writeVars
<1>3. ASSUME NEW e \in ring, ForwardEvent(e) PROVE TypeOK'
    BY <1>3 DEF ForwardEvent, agentVars, fileVars, writeVars
<1>4. ASSUME NEW r \in Reader, NEW b \in Block, ReadBlock(r, b) PROVE TypeOK'
    <2>1. reader[r].batch \in SUBSET Copy
        OBVIOUS
    <2>2. Versions(reader[r].batch) \subseteq Event /\ Current({b}) \subseteq Event
        BY <2>1, VersionsType, CurrentType
    <2>3. reader' \in [Reader -> ReaderState] /\ lost' \subseteq Event
        <3> HIDE DEF TypeOK
        <3>1. /\ reader' \in [Reader -> ReaderState]
              /\ \/ lost' = lost \/ lost' = lost \cup Current({b})
                 \/ lost' = (lost \cup Current({b})) \cup Versions(reader[r].batch)
            BY <1>4, ReadBlockCases
        <3>2. lost \subseteq Event
            BY DEF TypeOK
        <3> QED BY <2>2, <3>1, <3>2
    <2> QED BY <1>4, <2>3 DEF ReadBlock, ReaderState, fileVars, writeVars
<1>5. ASSUME NEW r \in Reader, SendBatch(r) PROVE TypeOK'
    <2>1. reader[r].batch \in SUBSET Copy
        OBVIOUS
    <2>2. reader' \in [Reader -> ReaderState]
        BY <1>5, EmptiedFacts DEF SendBatch
    <2>3. syncChan' \in Seq(SUBSET Copy)
        <3>1. Append(syncChan, reader[r].batch) \in Seq(SUBSET Copy)
            BY <2>1, AppendType
        <3>2. syncChan' = Append(syncChan, reader[r].batch) \/ syncChan' = syncChan
            BY <1>5 DEF SendBatch
        <3>3. syncChan \in Seq(SUBSET Copy)
            OBVIOUS
        <3> QED BY <3>1, <3>2, <3>3, Zenon
    <2>4. lost' \subseteq Event
        BY <1>5, <2>1, VersionsType DEF SendBatch
    <2> QED BY <1>5, <2>2, <2>3, <2>4 DEF SendBatch, ReaderState, fileVars, writeVars
<1>6. ASSUME NEW r \in Reader, FailBatch(r) PROVE TypeOK'
    <2>1. reader[r].batch \in SUBSET Copy
        OBVIOUS
    <2>2. reader' \in [Reader -> ReaderState]
        BY <1>6, EmptiedFacts DEF FailBatch
    <2>3. lost' \subseteq Event
        BY <1>6, <2>1, VersionsType DEF FailBatch
    <2> QED BY <1>6, <2>2, <2>3 DEF FailBatch, ReaderState, fileVars, writeVars
<1>7. CASE LinkDown
    BY <1>7 DEF LinkDown, agentVars, fileVars, writeVars
<1>8. ASSUME NEW e \in chan, Track(e) PROVE TypeOK'
    BY <1>8 DEF Track, agentVars, fileVars, writeVars
<1>9. CASE FlushTracker
    BY <1>9, MaybeFewerType DEF FlushTracker, agentVars, fileVars, writeVars
<1>10. ASSUME NEW E \in SUBSET young, Age(E) PROVE TypeOK'
    BY <1>10 DEF Age, agentVars, fileVars, writeVars
<1>11. CASE SyncBegin
    <2> PICK D \in SUBSET Block :
            syncer' = [pc |-> "retry", files |-> aged, dirty |-> D, todo |-> D]
        BY <1>11 DEF SyncBegin, Dirty
    <2> QED BY <1>11 DEF SyncBegin, agentVars, fileVars, writeVars
<1>12. ASSUME NEW b \in Block, SyncRetry(b) PROVE TypeOK'
    <2>1. retry' \in [Block -> Nat]
        <3>1. CountRetry(retry[b]) \in Nat
            BY BoundAssumption DEF CountRetry
        <3>2. retry' = retry \/ retry' = [retry EXCEPT ![b] = CountRetry(retry[b])]
            BY <1>12 DEF SyncRetry
        <3> QED BY <3>1, <3>2
    <2>2. syncer' \in [pc : {"idle", "retry", "send"}, files : SUBSET Event,
                       dirty : SUBSET Block, todo : SUBSET Block]
        BY <1>12 DEF SyncRetry
    <2> QED BY <1>12, <2>1, <2>2 DEF SyncRetry, agentVars
<1>13. CASE SyncReadFiles
    <2> PICK E \in MaybeFewer("file", syncer.files) :
            /\ syncer' = [syncer EXCEPT !.pc = "send", !.todo = @ \cup BlocksOf(E)]
            /\ lost' = lost \cup (syncer.files \ E)
        BY <1>13, Zenon DEF SyncReadFiles
    <2>1. E \subseteq syncer.files
        BY MaybeFewerType, Zenon
    <2>2. syncer.files \subseteq Event
        OBVIOUS
    <2>3. BlocksOf(E) \subseteq Block
        BY <2>1, <2>2, BlocksOfType, Zenon
    <2>4. syncer' \in [pc : {"idle", "retry", "send"}, files : SUBSET Event,
                       dirty : SUBSET Block, todo : SUBSET Block]
        BY <2>3
    <2>5. lost' \subseteq Event
        BY <2>2
    <2> QED BY <1>13, <2>4, <2>5 DEF SyncReadFiles, agentVars, writeVars
<1>14. ASSUME NEW r \in Reader, SyncSend(r) PROVE TypeOK'
    <2>1. Requested(LowestChunk(syncer.todo)) \in SUBSET Block
        BY DEF Requested
    <2> DEFINE nd == [IdleReader EXCEPT !.todo = Requested(LowestChunk(syncer.todo))]
    <2>2. nd \in ReaderState
        BY <2>1 DEF ReaderState, IdleReader
    <2>3. reader' = [reader EXCEPT ![r] = nd]
        BY <1>14 DEF SyncSend
    <2> HIDE DEF nd
    <2>4. reader' \in [Reader -> ReaderState]
        BY <2>2, <2>3, ReaderFields
    <2>5. raced' \subseteq Block
        BY <1>14, <2>1 DEF SyncSend
    <2>6. syncer' \in [pc : {"idle", "retry", "send"}, files : SUBSET Event,
                       dirty : SUBSET Block, todo : SUBSET Block]
        BY <1>14 DEF SyncSend
    <2> QED BY <1>14, <2>4, <2>5, <2>6 DEF SyncSend, ReaderState
<1>15. CASE SyncSendFail
    <2> DEFINE chunk == LowestChunk(syncer.todo)
    <2>1. chunk \in SUBSET Block
        BY ChunkType
    <2>2. Requested(chunk) \in SUBSET Block
        BY <2>1, RequestedContains
    <2>3. lost' \subseteq Event
        BY <1>15, <2>2, CurrentType DEF SyncSendFail
    <2>4. syncer' \in [pc : {"idle", "retry", "send"}, files : SUBSET Event,
                       dirty : SUBSET Block, todo : SUBSET Block]
        BY <1>15 DEF SyncSendFail
    <2> QED BY <1>15, <2>3, <2>4 DEF SyncSendFail, agentVars, writeVars
<1>16. CASE SyncRename
    <2>1. aged' \subseteq Event
        BY <1>16 DEF SyncRename
    <2> QED BY <1>16, <2>1 DEF SyncRename, IdleSyncer, agentVars, writeVars
<1>17. CASE TakeMessage
    BY <1>17 DEF TakeMessage, agentVars, fileVars, writeVars
<1>18. ASSUME NEW c \in wmsg, WriteBlock(c) PROVE TypeOK'
    <2>1. c \in Copy /\ c.blk \in Block /\ c.ver \in Nat /\ c.same \in BOOLEAN
        BY DEF Copy
    <2>2. seen' \in [Block -> Content \cup {Unseen}]
        BY <1>18, <2>1 DEF WriteBlock, Content
    <2>3. newest' \in [Block -> Nat] /\ lost' \subseteq Event
        <3>1. Raised(c, newest[c.blk]) \in Nat
            BY <2>1 DEF Raised
        <3>2. Versions({c}) \subseteq Event
            BY <2>1, VersionsType
        <3>3. \/ newest' = [newest EXCEPT ![c.blk] = Raised(c, newest[c.blk])] /\ lost' = lost
              \/ newest' = newest /\ lost' = lost \cup Versions({c})
            BY <1>18 DEF WriteBlock
        <3>4. newest \in [Block -> Nat] /\ lost \subseteq Event
            OBVIOUS
        <3> HIDE DEF TypeOK
        <3> QED BY <3>1, <3>2, <3>3, <3>4
    <2>4. retry' \in [Block -> Nat] /\ bak' \in [Block -> Nat \cup {Foreign}]
        <3>1. Relisted(c, retry[c.blk]) \in Nat
            BY <2>1, BoundAssumption DEF CountRetry, Relisted
        <3>2. retry' = retry \/ retry' = [retry EXCEPT ![c.blk] = Relisted(c, retry[c.blk])]
            BY <1>18 DEF WriteBlock
        <3>3. bak' = bak \/ bak' = [bak EXCEPT ![c.blk] = IF c.own THEN c.ver ELSE Foreign]
            BY <1>18 DEF WriteBlock
        <3>4. /\ retry \in [Block -> Nat] /\ bak \in [Block -> Nat \cup {Foreign}]
              /\ (IF c.own THEN c.ver ELSE Foreign) \in Nat \cup {Foreign}
            BY <2>1
        <3> HIDE DEF TypeOK
        <3> QED BY <3>1, <3>2, <3>3, <3>4
    <2>5. wmsg' \in SUBSET Copy
        BY <1>18 DEF WriteBlock
    <2> QED BY <1>18, <2>2, <2>3, <2>4, <2>5 DEF WriteBlock, agentVars, fileVars
<1>19. ASSUME NEW c \in wmsg, SkipBlock(c) PROVE TypeOK'
    <2>1. {c} \in SUBSET Copy
        OBVIOUS
    <2>2. lost' \subseteq Event /\ wmsg' \in SUBSET Copy
        BY <1>19, <2>1, VersionsType DEF SkipBlock
    <2> QED BY <1>19, <2>2 DEF SkipBlock, agentVars, fileVars
<1>20. CASE DropMessage
    <2>1. Head(syncChan) \in SUBSET Copy /\ syncChan' \in Seq(SUBSET Copy)
        BY <1>20 DEF DropMessage
    <2>2. lost' \subseteq Event
        BY <1>20, <2>1, VersionsType DEF DropMessage
    <2> QED BY <1>20, <2>1, <2>2 DEF DropMessage, agentVars, fileVars, writeVars
<1> QED
    BY <1>1, <1>2, <1>3, <1>4, <1>5, <1>6, <1>7, <1>8, <1>9, <1>10, <1>11, <1>12, <1>13,
       <1>14, <1>15, <1>16, <1>17, <1>18, <1>19, <1>20
       DEF Next, AgentStep, TrackStep, SyncStep, WriterStep

\* Every variable of LiveSync keeps its type.
THEOREM TypeCorrect == Spec => []TypeOK
BY InitTypeOK, NextTypeOK, PTL DEF Spec

-----------------------------------------------------------------------------
(* No change is forgotten without a trace. *)

\* What the pipeline holds was written: no event, copy or record is ahead of
\* the disk.
Events == ring \cup chan \cup buf \cup young \cup aged \cup syncer.files \cup lost

Behind ==
    /\ \A e \in Events : e.ver <= disk[e.blk].ver
    /\ \A c \in Copies : c.ver <= disk[c.blk].ver
    /\ \A b \in Block : newest[b] <= disk[b].ver

IdleEmpty == syncer.pc = "idle" => syncer.todo = {}

IInv == TypeOK /\ Behind /\ IdleEmpty /\ Accounted

\* Messages enter and leave SyncChannel whole.
LEMMA AppendFacts ==
    ASSUME NEW S, NEW s \in Seq(S), NEW e \in S
    PROVE  /\ Len(Append(s, e)) = Len(s) + 1
           /\ Append(s, e)[Len(s) + 1] = e
           /\ \A i \in 1..Len(s) : Append(s, e)[i] = s[i]
OBVIOUS

LEMMA TailFacts ==
    ASSUME NEW S, NEW s \in Seq(S), s # <<>>
    PROVE  /\ Len(s) \in Nat /\ Len(s) >= 1
           /\ Len(Tail(s)) = Len(s) - 1
           /\ Head(s) = s[1]
           /\ \A i \in 1..Len(s)-1 : Tail(s)[i] = s[i+1]
OBVIOUS

LEMMA QueuedAppend ==
    ASSUME NEW B \in SUBSET Copy, NEW s \in Seq(SUBSET Copy)
    PROVE  UNION {Append(s, B)[i] : i \in 1..Len(Append(s, B))}
             = (UNION {s[i] : i \in 1..Len(s)}) \cup B
<1> DEFINE t == Append(s, B)
           n == Len(s)
<1>1. /\ n \in Nat /\ Len(t) = n + 1
      /\ t[n + 1] = B
      /\ \A i \in 1..n : t[i] = s[i]
    BY AppendFacts
<1> HIDE DEF t, n
<1>2. 1..n+1 = (1..n) \cup {n + 1}
    BY <1>1
<1> DEFINE U == {t[i] : i \in 1..n+1}
           V == {s[i] : i \in 1..n}
<1>3. U = V \cup {B}
    <2>1. ASSUME NEW x \in U PROVE x \in V \/ x = B
        <3>1. PICK i \in 1..n+1 : x = t[i]
            BY <2>1, Zenon
        <3> QED BY <3>1, <1>1, <1>2, Zenon
    <2>2. B \in U
        <3>1. n + 1 \in 1..n+1
            BY <1>2, Zenon
        <3> QED BY <3>1, <1>1, Zenon
    <2>3. ASSUME NEW x \in V PROVE x \in U
        <3>1. PICK i \in 1..n : x = s[i]
            BY <2>3, Zenon
        <3>2. i \in 1..n+1
            BY <1>2, Zenon
        <3> QED BY <3>1, <3>2, <1>1, Zenon
    <2> HIDE DEF U, V
    <2> QED BY <2>1, <2>2, <2>3
<1>4. UNION U = (UNION V) \cup B
    <2> HIDE DEF U, V
    <2> QED BY <1>3, SMT
<1> QED BY <1>1, <1>4 DEF t, n

LEMMA QueuedTail ==
    ASSUME NEW s \in Seq(SUBSET Copy), s # <<>>
    PROVE  UNION {s[i] : i \in 1..Len(s)}
             = Head(s) \cup UNION {Tail(s)[i] : i \in 1..Len(Tail(s))}
<1> DEFINE t == Tail(s)
           n == Len(s)
<1>1. /\ n \in Nat /\ n >= 1
      /\ Len(t) = n - 1
      /\ Head(s) = s[1]
      /\ \A i \in 1..n-1 : t[i] = s[i+1]
    BY TailFacts
<1> HIDE DEF t, n
<1>2. ASSUME NEW i \in 1..n, i # 1 PROVE \E j \in 1..n-1 : t[j] = s[i]
    <2>1. i - 1 \in 1..n-1 /\ (i - 1) + 1 = i
        BY <1>1, <1>2
    <2>2. t[i - 1] = s[(i - 1) + 1]
        BY <1>1, <2>1
    <2> QED BY <2>1, <2>2
<1>3. ASSUME NEW j \in 1..n-1 PROVE j + 1 \in 1..n /\ t[j] = s[j + 1]
    BY <1>1
<1>4. 1 \in 1..n
    BY <1>1
<1> DEFINE A == {s[i] : i \in 1..n}
           B == {t[j] : j \in 1..n-1}
<1>5. \A x : x \in A <=> x = Head(s) \/ x \in B
    <2>1. ASSUME NEW x \in A PROVE x = Head(s) \/ x \in B
        <3>1. PICK i \in 1..n : x = s[i]
            BY <2>1, Zenon
        <3>2. CASE i = 1
            BY <3>1, <3>2, <1>1, Zenon
        <3>3. CASE i # 1
            <4>1. PICK j \in 1..n-1 : t[j] = s[i]
                BY <1>2, <3>3, Zenon
            <4> QED BY <3>1, <4>1, Zenon
        <3> QED BY <3>2, <3>3, Zenon
    <2>2. Head(s) \in A
        BY <1>1, <1>4, Zenon
    <2>3. ASSUME NEW x \in B PROVE x \in A
        BY <1>3, Zenon
    <2> HIDE DEF A, B
    <2> QED BY <2>1, <2>2, <2>3
<1>6. UNION A = Head(s) \cup UNION B
    <2> HIDE DEF A, B
    <2> QED BY <1>5, SMT
<1> QED BY <1>1, <1>6 DEF t, n

LEMMA InitIInv == Init => IInv
<1> SUFFICES ASSUME Init PROVE IInv
    OBVIOUS
<1>1. TypeOK
    BY InitTypeOK
<1>2. Events = {}
    BY DEF Init, Events, IdleSyncer
<1>3. Copies = {}
    <2>1. Batched = {}
        BY DEF Init, Batched, IdleReader
    <2>2. Queued = {}
        BY DEF Init, Queued
    <2> QED BY <2>1, <2>2 DEF Init, Copies
<1>4. \A b \in Block : newest[b] = 0 /\ disk[b].ver = 0
    BY DEF Init
<1>5. Behind /\ Accounted
    BY <1>2, <1>3, <1>4 DEF Behind, Accounted
<1>6. IdleEmpty
    BY DEF Init, IdleSyncer, IdleEmpty
<1> QED BY <1>1, <1>5, <1>6 DEF IInv

Rest == Behind /\ IdleEmpty /\ Accounted

\* A step that leaves the copies, the disk and the syncer's position alone.
LEMMA CopiesSame ==
    ASSUME UNCHANGED <<reader, syncChan, wmsg>> PROVE Copies' = Copies
BY DEF Copies, Batched, Queued

LEMMA WriteRest ==
    ASSUME IInv, NEW b \in Block, NEW same \in BOOLEAN, Write(b, same)
    PROVE  Rest'
<1> DEFINE v == disk[b].ver + 1
           e == [blk |-> b, ver |-> v]
<1>1. /\ disk \in [Block -> Content] /\ v \in Nat /\ disk[b].ver \in Nat
      /\ \A x \in Block : disk[x].ver \in Nat /\ newest[x] \in Nat
    BY DEF IInv, TypeOK, Content
<1>2. disk' = [disk EXCEPT ![b] = [ver |-> v, same |-> same]]
    BY DEF Write
<1>3. /\ disk'[b].ver = v
      /\ \A x \in Block : x # b => disk'[x] = disk[x]
      /\ \A x \in Block : disk[x].ver <= disk'[x].ver
    BY <1>1, <1>2
<1>4. Copies' = Copies
    BY CopiesSame DEF Write, writeVars
<1>5. /\ UNCHANGED <<chan, buf, young, aged, syncer, reader, newest>>
      /\ \/ ring' = ring \cup {e} /\ lost' = lost
         \/ ring' = ring /\ lost' = lost \cup {e}
    BY DEF Write, fileVars, writeVars
<1>6. /\ Events' = Events \cup {e}
      /\ Events \subseteq Event
    BY <1>5 DEF Events, IInv, TypeOK
<1>7. /\ \A c \in Copies : c.blk \in Block /\ c.ver \in Nat
      /\ \A c \in Events : c.blk \in Block /\ c.ver \in Nat
    <2>1. Copies \subseteq Copy
        BY DEF Copies, Batched, Queued, IInv, TypeOK
    <2> QED BY <2>1, <1>6 DEF Copy, Event
<1>8. Behind'
    <2>1. \A x \in Events' : x.ver <= disk'[x.blk].ver
        BY <1>1, <1>3, <1>6, <1>7 DEF IInv, Behind
    <2>2. \A c \in Copies' : c.ver <= disk'[c.blk].ver
        BY <1>1, <1>3, <1>4, <1>7 DEF IInv, Behind
    <2>3. \A x \in Block : newest'[x] <= disk'[x].ver
        BY <1>1, <1>3, <1>5 DEF IInv, Behind
    <2> QED BY <2>1, <2>2, <2>3 DEF Behind
<1>9. Accounted'
    <2> SUFFICES ASSUME NEW x \in Block
                 PROVE (Pending(x) \/ InFlight(x) \/ newest[x] = disk[x].ver \/ Forgone(x))'
        BY DEF Accounted
    <2>1. CASE x = b
        BY <2>1, <1>3, <1>5 DEF Pending, Forgone, Report
    <2>2. CASE x # b
        <3>1. disk'[x] = disk[x]
            BY <2>2, <1>3
        <3>2. Pending(x) => Pending(x)'
            BY <3>1, <1>5 DEF Pending, Report, Requested
        <3>3. InFlight(x) => InFlight(x)'
            BY <3>1, <1>4 DEF InFlight
        <3>4. Forgone(x) => Forgone(x)'
            BY <3>1, <1>5 DEF Forgone, Report
        <3> QED BY <3>1, <3>2, <3>3, <3>4, <1>5 DEF IInv, Accounted
    <2> QED BY <2>1, <2>2
<1>10. IdleEmpty'
    BY <1>5 DEF IInv, IdleEmpty
<1> QED BY <1>8, <1>9, <1>10 DEF Rest

\* Moving events along the pipeline, or onto the list of lost ones.
LEMMA MoveRest ==
    ASSUME IInv, UNCHANGED <<disk, newest, reader, syncChan, wmsg>>,
           Events' \subseteq Events, lost \subseteq lost', IdleEmpty',
           \A x \in Block : Pending(x) => Pending(x)' \/ Forgone(x)'
    PROVE  Rest'
<1>1. Copies' = Copies
    BY CopiesSame
<1>2. Behind'
    BY <1>1 DEF IInv, Behind
<1>3. \A x \in Block : InFlight(x) => InFlight(x)'
    BY <1>1 DEF InFlight
<1>4. \A x \in Block : Forgone(x) => Forgone(x)'
    BY DEF Forgone, Report
<1>5. Accounted'
    BY <1>3, <1>4 DEF IInv, Accounted
<1> QED BY <1>2, <1>5 DEF Rest

LEMMA ForwardRest ==
    ASSUME IInv, NEW e \in ring, ForwardEvent(e) PROVE Rest'
<1>1. UNCHANGED <<disk, newest, reader, syncChan, wmsg, buf, young, aged, syncer>>
    BY DEF ForwardEvent, fileVars, writeVars
<1>2. /\ ring' = ring \ {e}
      /\ \/ chan' = chan \cup {e} /\ lost' = lost
         \/ chan' = chan /\ lost' = lost \cup {e}
    BY DEF ForwardEvent
<1>3. Events' \subseteq Events /\ lost \subseteq lost' /\ IdleEmpty'
    BY <1>1, <1>2 DEF Events, IInv, IdleEmpty
<1>4. \A x \in Block : Pending(x) => Pending(x)' \/ Forgone(x)'
    BY <1>1, <1>2 DEF Pending, Forgone, Report, Requested
<1> QED BY <1>1, <1>3, <1>4, MoveRest

LEMMA TrackRest ==
    ASSUME IInv, NEW e \in chan, Track(e) PROVE Rest'
<1>1. UNCHANGED <<disk, newest, reader, syncChan, wmsg, ring, young, aged, syncer, lost>>
    BY DEF Track, agentVars, fileVars, writeVars
<1>2. chan' = chan \ {e} /\ buf' = buf \cup {e}
    BY DEF Track
<1>3. Events' \subseteq Events /\ lost \subseteq lost' /\ IdleEmpty'
    BY <1>1, <1>2 DEF Events, IInv, IdleEmpty
<1>4. \A x \in Block : Pending(x) => Pending(x)' \/ Forgone(x)'
    BY <1>1, <1>2 DEF Pending, Report, Requested
<1> QED BY <1>1, <1>3, <1>4, MoveRest

LEMMA FlushRest ==
    ASSUME IInv, FlushTracker PROVE Rest'
<1>1. UNCHANGED <<disk, newest, reader, syncChan, wmsg, ring, chan, aged, syncer>>
    BY DEF FlushTracker, agentVars, writeVars
<1> PICK E \in SUBSET buf : young' = young \cup E /\ lost' = lost \cup (buf \ E)
    BY MaybeFewerType DEF FlushTracker
<1>2. buf' = {}
    BY DEF FlushTracker
<1>3. Events' \subseteq Events /\ lost \subseteq lost' /\ IdleEmpty'
    BY <1>1, <1>2 DEF Events, IInv, IdleEmpty
<1>4. \A x \in Block : Pending(x) => Pending(x)' \/ Forgone(x)'
    BY <1>1, <1>2 DEF Pending, Forgone, Report, Requested
<1> QED BY <1>1, <1>3, <1>4, MoveRest

LEMMA AgeRest ==
    ASSUME IInv, NEW E \in SUBSET young, Age(E) PROVE Rest'
<1>1. UNCHANGED <<disk, newest, reader, syncChan, wmsg, ring, chan, buf, syncer, lost>>
    BY DEF Age, agentVars, writeVars
<1>2. young' = young \ E /\ aged' = aged \cup E
    BY DEF Age
<1>3. Events' \subseteq Events /\ lost \subseteq lost' /\ IdleEmpty'
    BY <1>1, <1>2 DEF Events, IInv, IdleEmpty
<1>4. \A x \in Block : Pending(x) => Pending(x)' \/ Forgone(x)'
    BY <1>1, <1>2 DEF Pending, Report, Requested
<1> QED BY <1>1, <1>3, <1>4, MoveRest

LEMMA LinkDownRest ==
    ASSUME IInv, LinkDown PROVE Rest'
<1>1. UNCHANGED <<disk, newest, reader, syncChan, wmsg, ring, chan, buf, young, aged, syncer, lost>>
    BY DEF LinkDown, agentVars, fileVars, writeVars
<1>2. Events' \subseteq Events /\ lost \subseteq lost' /\ IdleEmpty'
    BY <1>1 DEF Events, IInv, IdleEmpty
<1>3. \A x \in Block : Pending(x) => Pending(x)' \/ Forgone(x)'
    BY <1>1 DEF Pending, Report, Requested
<1> QED BY <1>1, <1>2, <1>3, MoveRest

\* SyncBegin lists the files it will read, and the syncer was idle: nothing it
\* had to do is overwritten.
LEMMA SyncBeginRest ==
    ASSUME IInv, SyncBegin PROVE Rest'
<1>1. UNCHANGED <<disk, newest, reader, syncChan, wmsg, ring, chan, buf, young, lost>>
    BY DEF SyncBegin, agentVars, writeVars
<1>2. /\ aged' = {} /\ syncer.pc = "idle"
      /\ syncer'.files = aged /\ syncer'.pc = "retry"
    BY DEF SyncBegin
<1>3. syncer.todo = {}
    BY <1>2 DEF IInv, IdleEmpty
<1>4. Events' \subseteq Events /\ lost \subseteq lost' /\ IdleEmpty'
    BY <1>1, <1>2, <1>3 DEF Events, IdleEmpty
<1>5. \A x \in Block : Pending(x) => Pending(x)' \/ Forgone(x)'
    BY <1>1, <1>2, <1>3 DEF Pending, Report, Requested
<1> QED BY <1>1, <1>4, <1>5, MoveRest

LEMMA SyncRetryRest ==
    ASSUME IInv, NEW b \in Block, SyncRetry(b) PROVE Rest'
<1>1. UNCHANGED <<disk, newest, reader, syncChan, wmsg, ring, chan, buf, young, aged, lost>>
    BY DEF SyncRetry, agentVars
<1>2. /\ syncer'.files = syncer.files /\ syncer'.todo = syncer.todo
      /\ syncer'.pc = syncer.pc
    BY DEF SyncRetry, IInv, TypeOK
<1>3. Events' \subseteq Events /\ lost \subseteq lost' /\ IdleEmpty'
    BY <1>1, <1>2 DEF Events, IInv, IdleEmpty
<1>4. \A x \in Block : Pending(x) => Pending(x)' \/ Forgone(x)'
    BY <1>1, <1>2 DEF Pending, Report, Requested
<1> QED BY <1>1, <1>3, <1>4, MoveRest

LEMMA SyncReadRest ==
    ASSUME IInv, SyncReadFiles PROVE Rest'
<1>1. UNCHANGED <<disk, newest, reader, syncChan, wmsg, ring, chan, buf, young, aged>>
    BY DEF SyncReadFiles, agentVars, writeVars
<1> PICK E \in SUBSET syncer.files :
        /\ syncer' = [syncer EXCEPT !.pc = "send", !.todo = @ \cup BlocksOf(E)]
        /\ lost' = lost \cup (syncer.files \ E)
    BY MaybeFewerType, Zenon DEF SyncReadFiles
<1>2. /\ syncer'.files = syncer.files /\ syncer'.pc = "send"
      /\ syncer'.todo = syncer.todo \cup BlocksOf(E)
    BY DEF IInv, TypeOK
<1>3. Events' \subseteq Events /\ lost \subseteq lost' /\ IdleEmpty'
    BY <1>1, <1>2 DEF Events, IdleEmpty
<1>4. ASSUME NEW x \in Block, Pending(x) PROVE Pending(x)' \/ Forgone(x)'
    <2>1. CASE Report(x) \in syncer.files /\ syncer.pc = "retry"
        <3>1. CASE Report(x) \in E
            <4>1. BlocksOf(E) \subseteq Block
                BY BlocksOfType DEF IInv, TypeOK
            <4>2. syncer'.todo \in SUBSET Block
                BY <1>2, <4>1 DEF IInv, TypeOK
            <4>3. x \in syncer'.todo
                BY <3>1, <1>2 DEF BlocksOf, Report
            <4>4. x \in Requested(syncer'.todo)
                BY <4>2, <4>3, RequestedContains
            <4> QED BY <4>4 DEF Pending, Requested
        <3>2. CASE Report(x) \notin E
            BY <2>1, <3>2, <1>1 DEF Forgone, Report
        <3> QED BY <3>1, <3>2
    <2>2. CASE ~(Report(x) \in syncer.files /\ syncer.pc = "retry")
        BY <1>4, <2>2, <1>1, <1>2 DEF Pending, Report, Requested
    <2> QED BY <2>1, <2>2
<1> QED BY <1>1, <1>3, <1>4, MoveRest

LEMMA SyncRenameRest ==
    ASSUME IInv, SyncRename PROVE Rest'
<1>1. /\ UNCHANGED <<disk, newest, reader, syncChan, wmsg, ring, chan, buf, young, lost>>
      /\ aged \subseteq aged' /\ aged' \subseteq aged \cup syncer.files
    BY DEF SyncRename, agentVars, writeVars
<1>2. /\ syncer.pc = "send" /\ syncer.todo = {}
      /\ syncer'.files = {} /\ syncer'.todo = {}
    BY DEF SyncRename, IdleSyncer
<1>3. Events' \subseteq Events /\ lost \subseteq lost' /\ IdleEmpty'
    BY <1>1, <1>2 DEF Events, IdleEmpty
<1>4. \A x \in Block : Pending(x) => Pending(x)' \/ Forgone(x)'
    BY <1>1, <1>2 DEF Pending, Report, Requested
<1> QED BY <1>1, <1>3, <1>4, MoveRest

\* Steps that hand copies of blocks on.  The version of every new event or copy
\* is one the disk has seen, and no block loses its account.
LEMMA HandRest ==
    ASSUME IInv, disk' = disk, IdleEmpty', lost \subseteq lost',
           \A e \in Events' : e.ver <= disk[e.blk].ver,
           \A c \in Copies' : c.ver <= disk[c.blk].ver,
           \A x \in Block : newest'[x] <= disk[x].ver,
           \A x \in Block : newest[x] = disk[x].ver => newest'[x] = disk[x].ver,
           \A x \in Block : Pending(x) => Pending(x)' \/ InFlight(x)' \/ Forgone(x)',
           \A x \in Block : InFlight(x) => InFlight(x)' \/ Forgone(x)'
                                             \/ newest'[x] = disk[x].ver
    PROVE  Rest'
<1>1. Behind'
    BY DEF Behind
<1>2. \A x \in Block : Forgone(x) => Forgone(x)'
    BY DEF Forgone, Report
<1>3. Accounted'
    BY <1>2 DEF IInv, Accounted
<1> QED BY <1>1, <1>3 DEF Rest

\* The types the hand-over steps need.
LEMMA CopyFacts ==
    ASSUME IInv
    PROVE  /\ disk \in [Block -> Content]
           /\ \A x \in Block : disk[x].ver \in Nat /\ newest[x] \in Nat
           /\ Batched \subseteq Copy /\ Queued \subseteq Copy /\ wmsg \subseteq Copy
           /\ Copies = (Batched \cup Queued) \cup wmsg
           /\ \A c \in Copies : c \in Copy /\ c.blk \in Block /\ c.ver \in Nat
           /\ \A c \in Copies : c.ver <= disk[c.blk].ver
           /\ \A e \in Events : e.ver <= disk[e.blk].ver
           /\ \A x \in Block : newest[x] <= disk[x].ver
<1>1. Batched \subseteq Copy /\ Queued \subseteq Copy /\ wmsg \subseteq Copy
    BY DEF Batched, Queued, IInv, TypeOK
<1>2. disk \in [Block -> Content] /\ \A x \in Block : disk[x].ver \in Nat /\ newest[x] \in Nat
    BY DEF IInv, TypeOK, Content
<1>3. Copies = (Batched \cup Queued) \cup wmsg
    BY DEF Copies
<1>4. \A c \in Copies : c \in Copy /\ c.blk \in Block /\ c.ver \in Nat
    BY <1>1, <1>3 DEF Copy
<1> QED BY <1>1, <1>2, <1>3, <1>4 DEF IInv, Behind

\* Losing a batch: every block of it that was in flight is forgone.
LEMMA ForgoneBatch ==
    ASSUME NEW B \in SUBSET Copy, NEW c \in B, Versions(B) \subseteq lost',
           c.ver = disk[c.blk].ver, disk' = disk
    PROVE  Forgone(c.blk)'
BY DEF Versions, Forgone, Report

LEMMA LostBatch ==
    ASSUME IInv, NEW B \in SUBSET Copies
    PROVE  \A e \in Versions(B) : e.ver <= disk[e.blk].ver
BY CopyFacts DEF Versions

LEMMA ReadBlockRest ==
    ASSUME IInv, NEW r \in Reader, NEW b \in Block, ReadBlock(r, b) PROVE Rest'
<1>1. UNCHANGED <<disk, newest, ring, chan, buf, young, aged, syncer, syncChan, wmsg>>
    BY DEF ReadBlock, fileVars, writeVars
<1>2. /\ reader'[r].todo = reader[r].todo \ {b}
      /\ \A q \in Reader \ {r} : reader'[q] = reader[q]
      /\ reader[r].batch \subseteq Batched /\ reader[r].batch \in SUBSET Copy
    <2>1. TypeOK
        BY DEF IInv
    <2>2. reader[r].batch \subseteq Batched /\ reader[r].batch \in SUBSET Copy
        BY <2>1 DEF TypeOK, Batched
    <2> QED BY <2>1, <2>2, ReadBlockCases
<1>3. \A q \in Reader, x \in Block : x # b /\ x \in reader[q].todo => x \in reader'[q].todo
    BY <1>2
<1>4. /\ Current({b}) = {Report(b)} /\ Report(b).blk = b /\ Report(b).ver = disk[b].ver
      /\ disk[b].ver \in Nat
    BY CopyFacts DEF Current, Report
<1>5. ASSUME NEW x \in Block, Pending(x), x # b, lost \subseteq lost' PROVE Pending(x)'
    BY <1>5, <1>1, <1>3 DEF Pending, Report, Requested
<1>6. ASSUME NEW c \in Copy, reader'[r].batch = reader[r].batch \cup {c},
             c.blk = b, c.ver = disk[b].ver,
             IF c.own THEN lost' = lost ELSE lost' = lost \cup Current({b})
      PROVE  Rest'
    <2>1. Batched' = Batched \cup {c}
        <3>1. \A q \in Reader \ {r} : reader'[q] = reader[q]
            BY <1>2
        <3>2. reader'[r].batch = reader[r].batch \cup {c}
            BY <1>6
        <3> QED BY <3>1, <3>2, Zenon DEF Batched
    <2>2. Copies' = Copies \cup {c}
        BY <2>1, <1>1 DEF Copies, Queued
    <2>3. lost \subseteq lost' /\ lost' \subseteq lost \cup {Report(b)}
        BY <1>4, <1>6
    <2>4. Events' \subseteq Events \cup {Report(b)}
        BY <1>1, <2>3 DEF Events
    <2>5. \A e \in Events' : e.ver <= disk[e.blk].ver
        BY <1>4, <2>4, CopyFacts
    <2>6. ASSUME NEW x \in Block, Pending(x) PROVE Pending(x)' \/ InFlight(x)' \/ Forgone(x)'
        <3>1. CASE x = b /\ c.own
            BY <3>1, <2>2, <1>1, <1>6 DEF InFlight
        <3>2. CASE x = b /\ ~c.own
            BY <3>2, <1>1, <1>4, <1>6 DEF Forgone, Report
        <3>3. CASE x # b
            BY <2>6, <3>3, <2>3, <1>5
        <3> QED BY <3>1, <3>2, <3>3
    <2>7. \A x \in Block : InFlight(x) => InFlight(x)'
        BY <2>2, <1>1 DEF InFlight
    <2>8. \A d \in Copies' : d.ver <= disk[d.blk].ver
        BY <2>2, <1>4, <1>6, CopyFacts
    <2> QED BY <1>1, <2>3, <2>5, <2>6, <2>7, <2>8, CopyFacts, HandRest DEF IInv, IdleEmpty
<1>7. ASSUME NEW B \in {{}, reader[r].batch}, reader'[r].batch = reader[r].batch \ B,
             lost' = (lost \cup Current({b})) \cup Versions(B)
      PROVE  Rest'
    <2>1. B \subseteq reader[r].batch /\ B \in SUBSET Copy
        BY <1>2
    <2>2. Batched' \subseteq Batched /\ Batched \subseteq Batched' \cup B
        BY <1>2, <1>7, <2>1, Zenon DEF Batched
    <2>3. Copies' \subseteq Copies /\ Copies \subseteq Copies' \cup B /\ B \in SUBSET Copies
        BY <1>1, <1>2, <2>1, <2>2 DEF Copies, Queued
    <2>4. Events' = (Events \cup {Report(b)}) \cup Versions(B)
        BY <1>1, <1>4, <1>7 DEF Events
    <2>5. \A e \in Events' : e.ver <= disk[e.blk].ver
        BY <1>4, <2>3, <2>4, CopyFacts, LostBatch
    <2>6. lost \subseteq lost'
        BY <1>7
    <2>7. ASSUME NEW x \in Block, Pending(x) PROVE Pending(x)' \/ Forgone(x)'
        <3>1. CASE x = b
            BY <3>1, <1>1, <1>4, <1>7 DEF Forgone, Report
        <3> QED BY <2>6, <2>7, <3>1, <1>5
    <2>8. ASSUME NEW x \in Block, InFlight(x) PROVE InFlight(x)' \/ Forgone(x)'
        <3> PICK d \in Copies : d.own /\ d.blk = x /\ d.ver = disk[x].ver
            BY <2>8 DEF InFlight
        <3>1. CASE d \in Copies'
            BY <3>1, <1>1 DEF InFlight
        <3>2. CASE d \in B
            BY <3>2, <1>1, <1>7, <2>1, ForgoneBatch
        <3> QED BY <3>1, <3>2, <2>3
    <2>9. \A d \in Copies' : d.ver <= disk[d.blk].ver
        BY <2>3, CopyFacts
    <2> QED BY <1>1, <2>5, <2>6, <2>7, <2>8, <2>9, CopyFacts, HandRest DEF IInv, IdleEmpty
<1>8. \/ \E c \in Copy :
            /\ reader'[r].batch = reader[r].batch \cup {c}
            /\ c.blk = b /\ c.ver = disk[b].ver
            /\ IF c.own THEN lost' = lost ELSE lost' = lost \cup Current({b})
      \/ \E B \in {{}, reader[r].batch} :
            /\ reader'[r].batch = reader[r].batch \ B
            /\ lost' = (lost \cup Current({b})) \cup Versions(B)
    <2>1. Versions({}) = {}
        BY DEF Versions
    <2>2. CASE reader'[r].batch = reader[r].batch /\ lost' = lost \cup Current({b})
        <3>1. reader'[r].batch = reader[r].batch \ {}
              /\ lost' = (lost \cup Current({b})) \cup Versions({})
            BY <2>1, <2>2
        <3> QED BY <3>1
    <2>3. CASE /\ reader'[r].batch = {}
               /\ lost' = (lost \cup Current({b})) \cup Versions(reader[r].batch)
        <3>1. reader'[r].batch = reader[r].batch \ reader[r].batch
            BY <2>3
        <3> QED BY <2>3, <3>1
    <2>4. TypeOK
        BY DEF IInv
    <2> QED BY <2>2, <2>3, <2>4, ReadBlockCases
<1> QED BY <1>6, <1>7, <1>8

\* What remains of the batches when goroutine r has given up its own.
LEMMA BatchLeaves ==
    ASSUME IInv, NEW r \in Reader,
           \E rd \in Emptied(r) : reader' = [reader EXCEPT ![r] = rd]
    PROVE  /\ Batched = Batched' \cup reader[r].batch
           /\ \A q \in Reader : reader'[q].todo = reader[q].todo
<1>1. TypeOK
    BY DEF IInv
<1>2. /\ reader'[r].batch = {}
      /\ \A q \in Reader : reader'[q].todo = reader[q].todo
      /\ \A q \in Reader \ {r} : reader'[q] = reader[q]
    BY <1>1, EmptiedFacts
<1>3. Batched \subseteq Batched' \cup reader[r].batch
    BY <1>2, Zenon DEF Batched
<1>4. Batched' \cup reader[r].batch \subseteq Batched
    <2>1. ASSUME NEW q \in Reader, NEW x \in reader'[q].batch PROVE x \in Batched
        <3>1. q # r
            BY <1>2, <2>1
        <3>2. x \in reader[q].batch
            BY <1>2, <3>1
        <3> QED BY <3>2 DEF Batched
    <2> QED BY <2>1 DEF Batched
<1> QED BY <1>2, <1>3, <1>4

LEMMA SendBatchRest ==
    ASSUME IInv, NEW r \in Reader, SendBatch(r) PROVE Rest'
<1> DEFINE B == reader[r].batch
<1>1. /\ UNCHANGED <<disk, newest, ring, chan, buf, young, aged, syncer, wmsg>>
      /\ \E rd \in Emptied(r) : reader' = [reader EXCEPT ![r] = rd]
    BY DEF SendBatch, fileVars, writeVars
<1>2. /\ Batched = Batched' \cup B
      /\ \A q \in Reader : reader'[q].todo = reader[q].todo
    BY <1>1, BatchLeaves
<1>3. B \in SUBSET Copy /\ syncChan \in Seq(SUBSET Copy)
    BY DEF IInv, TypeOK
<1>4. B \subseteq Copies
    BY <1>2, CopyFacts
<1>5. \A x \in Block : Pending(x) => Pending(x)'
    BY <1>1, <1>2 DEF Pending, Report, Requested
<1>6. CASE syncChan' = Append(syncChan, B) /\ lost' = lost
    <2>1. Queued' = Queued \cup B
        BY <1>3, <1>6, QueuedAppend DEF Queued
    <2>2. Copies' = Copies
        BY <1>1, <1>2, <2>1 DEF Copies
    <2>3. Events' = Events
        BY <1>1, <1>6 DEF Events
    <2>4. \A x \in Block : InFlight(x) => InFlight(x)'
        BY <1>1, <2>2 DEF InFlight
    <2> QED BY <1>1, <1>5, <1>6, <2>2, <2>3, <2>4, CopyFacts, HandRest DEF IInv, IdleEmpty
<1>7. CASE syncChan' = syncChan /\ lost' = lost \cup Versions(B)
    <2>1. Queued' = Queued
        BY <1>7 DEF Queued
    <2>2. Copies = Copies' \cup B
        BY <1>1, <1>2, <2>1 DEF Copies
    <2>3. Events' = Events \cup Versions(B)
        BY <1>1, <1>7 DEF Events
    <2>4. \A e \in Events' : e.ver <= disk[e.blk].ver
        BY <1>4, <2>3, CopyFacts, LostBatch
    <2>5. ASSUME NEW x \in Block, InFlight(x) PROVE InFlight(x)' \/ Forgone(x)'
        <3> PICK c \in Copies : c.own /\ c.blk = x /\ c.ver = disk[x].ver
            BY <2>5 DEF InFlight
        <3>1. CASE c \in Copies'
            BY <3>1, <1>1 DEF InFlight
        <3>2. CASE c \in B
            BY <3>2, <1>1, <1>3, <1>7, ForgoneBatch
        <3> QED BY <3>1, <3>2, <2>2
    <2> QED BY <1>1, <1>5, <1>7, <2>2, <2>4, <2>5, CopyFacts, HandRest DEF IInv, IdleEmpty
<1> QED BY <1>6, <1>7 DEF SendBatch

LEMMA FailBatchRest ==
    ASSUME IInv, NEW r \in Reader, FailBatch(r) PROVE Rest'
<1> DEFINE B == reader[r].batch
<1>1. /\ UNCHANGED <<disk, newest, ring, chan, buf, young, aged, syncer, syncChan, wmsg>>
      /\ \E rd \in Emptied(r) : reader' = [reader EXCEPT ![r] = rd]
      /\ lost' = lost \cup Versions(B)
    BY DEF FailBatch, fileVars, writeVars
<1>2. /\ Batched = Batched' \cup B
      /\ \A q \in Reader : reader'[q].todo = reader[q].todo
    BY <1>1, BatchLeaves
<1>3. B \in SUBSET Copy
    BY DEF IInv, TypeOK
<1>4. B \subseteq Copies
    BY <1>2, CopyFacts
<1>5. \A x \in Block : Pending(x) => Pending(x)'
    BY <1>1, <1>2 DEF Pending, Report, Requested
<1>6. Copies = Copies' \cup B
    BY <1>1, <1>2 DEF Copies, Queued
<1>7. Events' = Events \cup Versions(B)
    BY <1>1 DEF Events
<1>8. \A e \in Events' : e.ver <= disk[e.blk].ver
    BY <1>4, <1>7, CopyFacts, LostBatch
<1>9. ASSUME NEW x \in Block, InFlight(x) PROVE InFlight(x)' \/ Forgone(x)'
    <2> PICK c \in Copies : c.own /\ c.blk = x /\ c.ver = disk[x].ver
        BY <1>9 DEF InFlight
    <2>1. CASE c \in Copies'
        BY <2>1, <1>1 DEF InFlight
    <2>2. CASE c \in B
        BY <2>2, <1>1, <1>3, ForgoneBatch
    <2> QED BY <2>1, <2>2, <1>6
<1> QED BY <1>1, <1>5, <1>6, <1>8, <1>9, CopyFacts, HandRest DEF IInv, IdleEmpty

\* Sending a chunk splits what is requested.
LEMMA RequestedSplit ==
    ASSUME NEW S \in SUBSET Block, NEW C \in SUBSET S, NEW x \in Requested(S)
    PROVE  x \in Requested(S \ C) \/ x \in Requested(C)
BY DEF Requested

LEMMA SyncSendRest ==
    ASSUME IInv, NEW r \in Reader, SyncSend(r) PROVE Rest'
<1> DEFINE chunk == LowestChunk(syncer.todo)
<1>1. /\ UNCHANGED <<disk, newest, ring, chan, buf, young, aged, syncChan, wmsg, lost>>
      /\ syncer' = [syncer EXCEPT !.todo = @ \ chunk]
      /\ reader' = [reader EXCEPT ![r] = [IdleReader EXCEPT !.todo = Requested(chunk)]]
      /\ syncer.pc = "send" /\ reader[r] = IdleReader
    BY DEF SyncSend
<1>2. chunk \in SUBSET syncer.todo /\ syncer.todo \in SUBSET Block
    BY ChunkType DEF IInv, TypeOK
<1>3. reader \in [Reader -> ReaderState]
    BY DEF IInv, TypeOK, ReaderState
<1> HIDE DEF chunk
<1>4. /\ syncer'.pc = "send" /\ syncer'.files = syncer.files
      /\ syncer'.todo = syncer.todo \ chunk
    BY <1>1 DEF IInv, TypeOK
<1>5. /\ reader[r].todo = {} /\ reader[r].batch = {}
      /\ reader'[r].todo = Requested(chunk) /\ reader'[r].batch = {}
      /\ \A q \in Reader \ {r} : reader'[q] = reader[q]
    BY <1>1, <1>3 DEF IdleReader
<1>6. \A q \in Reader : reader'[q].batch = reader[q].batch
    BY <1>5
<1>7. Batched' = Batched
    BY <1>6, Zenon DEF Batched
<1>8. Copies' = Copies
    BY <1>1, <1>7 DEF Copies, Queued
<1>9. Events' = Events
    BY <1>1, <1>4 DEF Events
<1>10. ASSUME NEW x \in Block, Pending(x) PROVE Pending(x)'
    <2>1. CASE x \in Requested(syncer.todo)
        <3>1. CASE x \in Requested(syncer.todo \ chunk)
            <4>1. x \in Requested(syncer'.todo)
                BY <3>1, <1>4
            <4> QED BY <4>1 DEF Pending, Requested
        <3>2. CASE x \in Requested(chunk)
            BY <3>2, <1>5 DEF Pending
        <3> QED BY <2>1, <3>1, <3>2, <1>2, RequestedSplit
    <2>2. CASE x \notin Requested(syncer.todo)
        <3>1. \A q \in Reader : x \in reader[q].todo => x \in reader'[q].todo
            BY <1>5
        <3> QED BY <1>10, <2>2, <3>1, <1>1 DEF Pending, Report
    <2> QED BY <2>1, <2>2
<1>11. \A x \in Block : InFlight(x) => InFlight(x)'
    BY <1>1, <1>8 DEF InFlight
<1>12. IdleEmpty'
    BY <1>4 DEF IdleEmpty
<1> QED BY <1>1, <1>8, <1>9, <1>10, <1>11, <1>12, CopyFacts, HandRest

LEMMA SyncSendFailRest ==
    ASSUME IInv, SyncSendFail PROVE Rest'
<1> DEFINE chunk == LowestChunk(syncer.todo)
<1>1. /\ UNCHANGED <<disk, newest, ring, chan, buf, young, aged, reader, syncChan, wmsg>>
      /\ syncer' = [syncer EXCEPT !.todo = @ \ chunk]
      /\ lost' = lost \cup Current(Requested(chunk))
      /\ syncer.pc = "send"
    BY DEF SyncSendFail, agentVars, writeVars
<1>2. chunk \in SUBSET syncer.todo /\ syncer.todo \in SUBSET Block
    BY ChunkType DEF IInv, TypeOK
<1> HIDE DEF chunk
<1>3. /\ syncer'.pc = "send" /\ syncer'.files = syncer.files
      /\ syncer'.todo = syncer.todo \ chunk
    BY <1>1 DEF IInv, TypeOK
<1>4. Copies' = Copies
    BY <1>1, CopiesSame
<1>5. Events' = Events \cup Current(Requested(chunk))
    BY <1>1, <1>3 DEF Events
<1>6. \A e \in Current(Requested(chunk)) : e.ver = disk[e.blk].ver
    BY DEF Current
<1>7. \A e \in Events' : e.ver <= disk[e.blk].ver
    <2>1. Requested(chunk) \subseteq Block
        BY <1>2, RequestedContains
    <2>2. \A e \in Current(Requested(chunk)) : e.blk \in Block
        BY <2>1 DEF Current
    <2>3. \A e \in Current(Requested(chunk)) : e.ver <= disk[e.blk].ver
        BY <1>6, <2>2, CopyFacts
    <2> QED BY <1>5, <2>3, CopyFacts
<1>8. ASSUME NEW x \in Block, Pending(x) PROVE Pending(x)' \/ Forgone(x)'
    <2>1. CASE x \in Requested(syncer.todo)
        <3>1. CASE x \in Requested(syncer.todo \ chunk)
            <4>1. x \in Requested(syncer'.todo)
                BY <3>1, <1>3
            <4> QED BY <4>1 DEF Pending, Requested
        <3>2. CASE x \in Requested(chunk)
            BY <3>2, <1>1 DEF Forgone, Report, Current
        <3> QED BY <2>1, <3>1, <3>2, <1>2, RequestedSplit
    <2>2. CASE x \notin Requested(syncer.todo)
        BY <1>8, <2>2, <1>1 DEF Pending, Report
    <2> QED BY <2>1, <2>2
<1>9. \A x \in Block : InFlight(x) => InFlight(x)'
    BY <1>1, <1>4 DEF InFlight
<1>10. IdleEmpty'
    BY <1>3 DEF IdleEmpty
<1> QED BY <1>1, <1>4, <1>7, <1>8, <1>9, <1>10, CopyFacts, HandRest

LEMMA TakeMessageRest ==
    ASSUME IInv, TakeMessage PROVE Rest'
<1>1. /\ UNCHANGED <<disk, newest, reader, ring, chan, buf, young, aged, syncer, lost>>
      /\ wmsg = {} /\ syncChan # <<>>
      /\ wmsg' = Head(syncChan) /\ syncChan' = Tail(syncChan)
    BY DEF TakeMessage, agentVars, fileVars
<1>2. syncChan \in Seq(SUBSET Copy)
    BY DEF IInv, TypeOK
<1>3. Queued = wmsg' \cup Queued'
    BY <1>1, <1>2, QueuedTail DEF Queued
<1>4. Copies' = Copies
    BY <1>1, <1>3 DEF Copies, Batched
<1>5. Events' = Events
    BY <1>1 DEF Events
<1>6. \A x \in Block : Pending(x) => Pending(x)'
    BY <1>1 DEF Pending, Report, Requested
<1>7. \A x \in Block : InFlight(x) => InFlight(x)'
    BY <1>1, <1>4 DEF InFlight
<1> QED BY <1>1, <1>4, <1>5, <1>6, <1>7, CopyFacts, HandRest DEF IInv, IdleEmpty

\* The writer takes a block off its message and either handles it or skips it.
LEMMA WriteBlockRest ==
    ASSUME IInv, NEW c \in wmsg, WriteBlock(c) PROVE Rest'
<1>1. /\ UNCHANGED <<disk, reader, ring, chan, buf, young, aged, syncer, syncChan>>
      /\ wmsg' = wmsg \ {c}
    BY DEF WriteBlock, agentVars, fileVars
<1>2. /\ newest \in [Block -> Nat]
      /\ c \in Copies /\ {c} \in SUBSET Copy /\ c.blk \in Block /\ c.ver \in Nat
      /\ c.ver <= disk[c.blk].ver
    BY CopyFacts DEF IInv, TypeOK
<1>3. Copies = Copies' \cup {c}
    BY <1>1, <1>2 DEF Copies, Batched, Queued
<1>4. \A x \in Block : Pending(x) => Pending(x)'
    BY <1>1 DEF Pending, Report, Requested
<1>5. CASE /\ lost' = lost
           /\ newest' = [newest EXCEPT ![c.blk] = Raised(c, newest[c.blk])]
    <2>1. /\ \A x \in Block : newest'[x] <= disk[x].ver
          /\ \A x \in Block : newest[x] = disk[x].ver => newest'[x] = disk[x].ver
          /\ c.own /\ c.ver = disk[c.blk].ver => newest'[c.blk] = disk[c.blk].ver
        BY <1>2, <1>5, CopyFacts DEF Raised
    <2>2. Events' = Events
        BY <1>1, <1>5 DEF Events
    <2>3. ASSUME NEW x \in Block, InFlight(x) PROVE InFlight(x)' \/ newest'[x] = disk[x].ver
        <3> PICK d \in Copies : d.own /\ d.blk = x /\ d.ver = disk[x].ver
            BY <2>3 DEF InFlight
        <3>1. CASE d \in Copies'
            BY <3>1, <1>1 DEF InFlight
        <3>2. CASE d = c
            BY <3>2, <2>1
        <3> QED BY <3>1, <3>2, <1>3
    <2> QED BY <1>1, <1>3, <1>4, <1>5, <2>1, <2>2, <2>3, CopyFacts, HandRest
            DEF IInv, IdleEmpty
<1>6. CASE newest' = newest /\ lost' = lost \cup Versions({c})
    <2>1. Events' = Events \cup Versions({c})
        BY <1>1, <1>6 DEF Events
    <2>2. \A e \in Events' : e.ver <= disk[e.blk].ver
        BY <1>2, <2>1, CopyFacts, LostBatch
    <2>3. ASSUME NEW x \in Block, InFlight(x) PROVE InFlight(x)' \/ Forgone(x)'
        <3> PICK d \in Copies : d.own /\ d.blk = x /\ d.ver = disk[x].ver
            BY <2>3 DEF InFlight
        <3>1. CASE d \in Copies'
            BY <3>1, <1>1 DEF InFlight
        <3>2. CASE d \in {c}
            BY <3>2, <1>1, <1>2, <1>6, ForgoneBatch
        <3> QED BY <3>1, <3>2, <1>3
    <2> QED BY <1>1, <1>3, <1>4, <1>6, <2>2, <2>3, CopyFacts, HandRest DEF IInv, IdleEmpty
<1> QED BY <1>5, <1>6 DEF WriteBlock

LEMMA DropMessageRest ==
    ASSUME IInv, DropMessage PROVE Rest'
<1> DEFINE B == Head(syncChan)
<1>1. /\ UNCHANGED <<disk, newest, reader, ring, chan, buf, young, aged, syncer, wmsg>>
      /\ syncChan # <<>> /\ syncChan' = Tail(syncChan)
      /\ lost' = lost \cup Versions(B)
    BY DEF DropMessage, agentVars, fileVars, writeVars
<1>2. syncChan \in Seq(SUBSET Copy)
    BY DEF IInv, TypeOK
<1>3. B \in SUBSET Copy
    BY <1>1, <1>2
<1>4. Queued = B \cup Queued'
    BY <1>1, <1>2, QueuedTail DEF Queued
<1>5. Copies = Copies' \cup B /\ B \in SUBSET Copies
    BY <1>1, <1>4 DEF Copies, Batched
<1>6. Events' = Events \cup Versions(B)
    BY <1>1 DEF Events
<1>7. \A e \in Events' : e.ver <= disk[e.blk].ver
    BY <1>5, <1>6, CopyFacts, LostBatch
<1>8. \A x \in Block : Pending(x) => Pending(x)'
    BY <1>1 DEF Pending, Report, Requested
<1>9. ASSUME NEW x \in Block, InFlight(x) PROVE InFlight(x)' \/ Forgone(x)'
    <2> PICK d \in Copies : d.own /\ d.blk = x /\ d.ver = disk[x].ver
        BY <1>9 DEF InFlight
    <2>1. CASE d \in Copies'
        BY <2>1, <1>1 DEF InFlight
    <2>2. CASE d \in B
        BY <2>2, <1>1, <1>3, ForgoneBatch
    <2> QED BY <2>1, <2>2, <1>5
<1> QED BY <1>1, <1>5, <1>7, <1>8, <1>9, CopyFacts, HandRest DEF IInv, IdleEmpty

LEMMA SkipBlockRest ==
    ASSUME IInv, NEW c \in wmsg, SkipBlock(c) PROVE Rest'
<1>1. /\ UNCHANGED <<disk, newest, reader, ring, chan, buf, young, aged, syncer, syncChan>>
      /\ wmsg' = wmsg \ {c}
      /\ lost' = lost \cup Versions({c})
    BY DEF SkipBlock, agentVars, fileVars
<1>2. c \in Copies /\ {c} \in SUBSET Copy
    BY CopyFacts
<1>3. Copies = Copies' \cup {c}
    BY <1>1, <1>2 DEF Copies, Batched, Queued
<1>4. Events' = Events \cup Versions({c})
    BY <1>1 DEF Events
<1>5. \A e \in Events' : e.ver <= disk[e.blk].ver
    BY <1>2, <1>4, CopyFacts, LostBatch
<1>6. \A x \in Block : Pending(x) => Pending(x)'
    BY <1>1 DEF Pending, Report, Requested
<1>7. ASSUME NEW x \in Block, InFlight(x) PROVE InFlight(x)' \/ Forgone(x)'
    <2> PICK d \in Copies : d.own /\ d.blk = x /\ d.ver = disk[x].ver
        BY <1>7 DEF InFlight
    <2>1. CASE d \in Copies'
        BY <2>1, <1>1 DEF InFlight
    <2>2. CASE d \in {c}
        BY <2>2, <1>1, <1>2, ForgoneBatch
    <2> QED BY <2>1, <2>2, <1>3
<1> QED BY <1>1, <1>3, <1>5, <1>6, <1>7, CopyFacts, HandRest DEF IInv, IdleEmpty

LEMMA NextIInv == IInv /\ [Next]_vars => IInv'
<1> SUFFICES ASSUME IInv, [Next]_vars PROVE IInv'
    OBVIOUS
<1>1. TypeOK'
    BY NextTypeOK DEF IInv
<1>2. Rest'
    <2>1. CASE UNCHANGED vars
        <3>1. UNCHANGED <<disk, newest, reader, syncChan, wmsg, ring, chan, buf, young,
                          aged, syncer, lost>>
            BY <2>1 DEF vars, agentVars, fileVars, writeVars
        <3>2. Events' \subseteq Events /\ lost \subseteq lost' /\ IdleEmpty'
            BY <3>1 DEF Events, IInv, IdleEmpty
        <3>3. \A x \in Block : Pending(x) => Pending(x)' \/ Forgone(x)'
            BY <3>1 DEF Pending, Report, Requested
        <3> QED BY <3>1, <3>2, <3>3, MoveRest
    <2>2. CASE AgentStep
        BY <2>2, WriteRest, ForwardRest, ReadBlockRest, SendBatchRest, FailBatchRest
           DEF AgentStep
    <2>3. CASE LinkDown
        BY <2>3, LinkDownRest
    <2>4. CASE TrackStep
        BY <2>4, TrackRest, FlushRest, AgeRest DEF TrackStep
    <2>5. CASE SyncStep
        BY <2>5, SyncBeginRest, SyncRetryRest, SyncReadRest, SyncSendRest,
           SyncSendFailRest, SyncRenameRest DEF SyncStep
    <2>6. CASE WriterStep
        BY <2>6, TakeMessageRest, DropMessageRest, WriteBlockRest,
           SkipBlockRest DEF WriterStep
    <2> QED BY <2>1, <2>2, <2>3, <2>4, <2>5, <2>6 DEF Next
<1> QED BY <1>1, <1>2 DEF IInv, Rest

\* IInv is an invariant: nothing in the pipeline is ahead of the disk, an idle
\* SyncData holds nothing, and every current version is accounted for.
THEOREM IInvHolds == Spec => []IInv
BY InitIInv, NextIInv, PTL DEF Spec

\* No change is forgotten without a trace, whatever fails (reads that leave the
\* offset behind included) and however many goroutines read the disk.
THEOREM AccountedHolds == Spec => []Accounted
<1>1. IInv => Accounted
    BY DEF IInv
<1> QED BY <1>1, IInvHolds, PTL

-----------------------------------------------------------------------------
(* The dirty list *)

LEMMA CountPositive ==
    ASSUME NEW n \in Nat PROVE CountRetry(n) \in Nat /\ CountRetry(n) > 0
BY BoundAssumption DEF CountRetry

LEMMA NextDirtyExact ==
    ASSUME "store" \notin Faults, TypeOK, DirtyExact, [Next]_vars
    PROVE  DirtyExact'
<1>1. CASE UNCHANGED <<retry, seen>>
    BY <1>1 DEF DirtyExact
<1>2. ASSUME NEW b \in Block, SyncRetry(b) PROVE DirtyExact'
    <2>1. /\ seen' = seen /\ retry \in [Block -> Nat]
          /\ \/ retry' = retry
             \/ retry[b] > 0 /\ retry' = [retry EXCEPT ![b] = CountRetry(retry[b])]
        BY <1>2 DEF SyncRetry, TypeOK
    <2>2. CountRetry(retry[b]) > 0
        BY <2>1, CountPositive
    <2>3. \A x \in Block : retry'[x] > 0 <=> retry[x] > 0
        BY <2>1, <2>2
    <2> QED BY <2>1, <2>3 DEF DirtyExact
<1>3. ASSUME NEW c \in wmsg, WriteBlock(c) PROVE DirtyExact'
    <2>1. c.blk \in Block /\ c.ver \in Nat /\ c.same \in BOOLEAN
        BY DEF TypeOK, Copy
    <2>2. /\ seen' = [seen EXCEPT ![c.blk] = [ver |-> c.ver, same |-> c.same]]
          /\ retry' = [retry EXCEPT ![c.blk] = Relisted(c, retry[c.blk])]
        BY <1>3 DEF WriteBlock, MayFail
    <2>3. seen \in [Block -> Content \cup {Unseen}] /\ retry \in [Block -> Nat]
        BY DEF TypeOK
    <2>4. [ver |-> c.ver, same |-> c.same] # Unseen
        BY <2>1 DEF Unseen
    <2>5. /\ seen'[c.blk] # Unseen /\ seen'[c.blk].same = c.same
          /\ \A x \in Block \ {c.blk} : seen'[x] = seen[x] /\ retry'[x] = retry[x]
        BY <2>1, <2>2, <2>3, <2>4
    <2>6. CountRetry(retry[c.blk]) > 0
        BY <2>1, <2>3, CountPositive
    <2>7. retry'[c.blk] > 0 <=> c.same
        BY <2>1, <2>2, <2>3, <2>6 DEF Relisted
    <2> QED BY <2>5, <2>7 DEF DirtyExact
<1>4. CASE AgentStep
    BY <1>1, <1>4 DEF AgentStep, Write, ForwardEvent, ReadBlock, SendBatch, FailBatch, writeVars
<1>5. CASE LinkDown
    BY <1>1, <1>5 DEF LinkDown, writeVars
<1>6. CASE TrackStep
    BY <1>1, <1>6 DEF TrackStep, Track, FlushTracker, Age, writeVars
<1>7. CASE SyncStep
    BY <1>1, <1>2, <1>7 DEF SyncStep, SyncBegin, SyncReadFiles, SyncSend, SyncSendFail,
       SyncRename, writeVars
<1>8. CASE WriterStep
    BY <1>1, <1>3, <1>8 DEF WriterStep, TakeMessage, DropMessage, SkipBlock, writeVars
<1>9. CASE UNCHANGED vars
    BY <1>1, <1>9 DEF vars, writeVars
<1> QED BY <1>4, <1>5, <1>6, <1>7, <1>8, <1>9 DEF Next

\* Unless the store of the dirty list fails, it holds exactly the blocks whose
\* last handled copy equalled the snapshot, though SyncData works from an older
\* list.
THEOREM DirtyExactHolds == ASSUME "store" \notin Faults PROVE Spec => []DirtyExact
<1>1. Init => DirtyExact
    BY DEF Init, DirtyExact
<1>2. (TypeOK /\ DirtyExact) /\ [Next]_vars => (TypeOK /\ DirtyExact)'
    BY NextTypeOK, NextDirtyExact
<1> QED BY <1>1, <1>2, InitTypeOK, PTL DEF Spec

=============================================================================
