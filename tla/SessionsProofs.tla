---------------------------- MODULE SessionsProofs ----------------------------
(***************************************************************************)
(* Proofs about Sessions: the type invariant, that a disk no policy wants  *)
(* never reaches the agent, and that a policy in force stays so, for any   *)
(* set of disks, policies, passes and disturbances.                        *)
(*                                                                         *)
(* Whoever writes a record back had read it: so the invariant speaks of    *)
(* the stored record and of every copy at once.  Versions of the policy    *)
(* only grow, so what a copy was allowed to hold it is allowed to hold     *)
(* later.                                                                  *)
(***************************************************************************)
EXTENDS Sessions, TLAPS

Allowed(p)    == UNION {Wants[v] : v \in 1..p}
GoodRecord(p) == {r \in Record : r.disks \subseteq Allowed(p)}

\* The record and its copies: typed, and with allowed disks only.
RecordsGood ==
    /\ policy \in 0..MaxPolicy
    /\ at \in [Holder -> Pc]
    /\ rec \in GoodRecord(policy)
    /\ copy \in [Holder -> GoodRecord(policy)]

AgentTypeOK ==
    /\ cfg \in Config /\ waited \in 0..Waits /\ link \in BOOLEAN
    /\ live \in {"top", "dial", "open"} /\ isLive \in BOOLEAN
    /\ traced \subseteq Disk
    /\ serving \in {"none", "frequency", "tracking"}
    /\ events \subseteq Events

AgentGood == AgentTypeOK /\ traced \cup cfg.disks \subseteq Allowed(policy)

IInv == RecordsGood /\ AgentGood

-----------------------------------------------------------------------------
(* Records *)

LEMMA AllowedDisks ==
    ASSUME NEW p \in 0..MaxPolicy
    PROVE  Allowed(p) \subseteq Disk /\ (p # 0 => Wants[p] \subseteq Allowed(p))
  BY PolicyAssumption DEF Allowed

LEMMA AllowedGrows ==
    ASSUME NEW p \in 0..MaxPolicy, p < MaxPolicy
    PROVE  Allowed(p) \subseteq Allowed(p + 1) /\ GoodRecord(p) \subseteq GoodRecord(p + 1)
  <1>1. Allowed(p) \subseteq Allowed(p + 1)
    BY PolicyAssumption DEF Allowed
  <1> QED BY <1>1 DEF GoodRecord

LEMMA NoRecordGood ==
    ASSUME NEW p
    PROVE  NoRecord \in GoodRecord(p) /\ [NoRecord EXCEPT !.known = TRUE] \in GoodRecord(p)
  <1>1. 0 \in 0..MaxPolicy
    BY PolicyAssumption
  <1>2. NoRecord \in Record /\ NoRecord.disks = {}
    BY <1>1 DEF NoRecord, Record
  <1>3. \A r \in Record : LET k == [r EXCEPT !.known = TRUE]
                          IN  k \in Record /\ k.disks = r.disks
    BY DEF Record
  <1>4. NoRecord \in GoodRecord(p)
    BY <1>2 DEF GoodRecord
  <1>5. [NoRecord EXCEPT !.known = TRUE] \in GoodRecord(p)
    BY <1>2, <1>3 DEF GoodRecord
  <1> QED BY <1>4, <1>5

\* updateAgentConfig adds disks that the present policy wants.
LEMMA AppliedGood ==
    ASSUME policy \in 0..MaxPolicy, NEW r \in GoodRecord(policy)
    PROVE  Applied(r) \in GoodRecord(policy)
  <1>1. CASE r.known /\ policy # 0
    <2> DEFINE D == r.disks \cup IF r.foot THEN Wants[policy] ELSE {}
    <2>1. r \in Record /\ r.disks \subseteq Allowed(policy)
      BY DEF GoodRecord
    <2>2. D \subseteq Allowed(policy) /\ D \subseteq Disk
      BY <1>1, <2>1, AllowedDisks
    <2>3. Applied(r) = [r EXCEPT !.policy = policy, !.disks = D]
      BY <1>1, <2>1 DEF Applied, Record
    <2> HIDE DEF D
    <2>4. [r EXCEPT !.policy = policy, !.disks = D] \in Record
      BY <2>1, <2>2 DEF Record
    <2>5. [r EXCEPT !.policy = policy, !.disks = D].disks = D
      BY <2>1 DEF Record
    <2> QED BY <2>2, <2>3, <2>4, <2>5 DEF GoodRecord
  <1>2. CASE ~(r.known /\ policy # 0)
    BY <1>2 DEF Applied
  <1> QED BY <1>1, <1>2

\* A holder moves on with a good copy.
LEMMA StepGood ==
    ASSUME RecordsGood, policy' = policy, rec' \in GoodRecord(policy),
           NEW h \in Holder, NEW from, NEW to \in Pc, NEW r \in GoodRecord(policy),
           Step(h, from, to, r)
    PROVE  RecordsGood'
  BY DEF RecordsGood, Step

LEMMA PassGood ==
    ASSUME RecordsGood, NEW h \in Holder,
           ReadAll(h) \/ WalkPolicies(h) \/ WriteAll(h)
    PROVE  RecordsGood' /\ policy' = policy
  <1>0. copy[h] \in GoodRecord(policy) /\ rec \in GoodRecord(policy)
        /\ {"walk", "write", "reload", "read"} \subseteq Pc
    BY DEF RecordsGood, Pc, ConfigPc, PassPc
  <1>1. CASE ReadAll(h)
    BY <1>0, <1>1, StepGood DEF ReadAll
  <1>2. CASE WalkPolicies(h)
    <2>1. Applied(copy[h]) \in GoodRecord(policy)
      BY <1>0, AppliedGood DEF RecordsGood
    <2> QED BY <1>0, <1>2, <2>1, StepGood DEF WalkPolicies
  <1>3. CASE WriteAll(h)
    <2>1. rec' \in GoodRecord(policy)
      BY <1>0, <1>3 DEF WriteAll
    <2> QED BY <1>0, <1>3, <2>1, StepGood, NoRecordGood DEF WriteAll
  <1> QED BY <1>1, <1>2, <1>3

\* The handler of the config endpoint, but for its own pass.
LEMMA HandlerGood ==
    ASSUME RecordsGood,
           \/ Load \/ Insert \/ Footprint \/ NoFootprint
           \/ PutFootprint \/ Reload \/ SendConfig \/ ReadDeadline
    PROVE  RecordsGood' /\ policy' = policy
  <1> DEFINE c == copy["config"]
  <1>0. /\ "config" \in Holder /\ ConfigPc \subseteq Pc
        /\ c \in GoodRecord(policy) /\ rec \in GoodRecord(policy)
    BY DEF RecordsGood, Holder, Pc
  <1>a. {"none", "insert", "foot", "put", "send", "wait", "read"} \subseteq Pc
    BY <1>0 DEF ConfigPc, PassPc
  <1>1. CASE Load
    BY <1>0, <1>a, <1>1, StepGood DEF Load
  <1>2. CASE Insert
    BY <1>0, <1>a, <1>2, StepGood, NoRecordGood DEF Insert
  <1>3. CASE Footprint
    <2>1. [c EXCEPT !.foot = TRUE] \in GoodRecord(policy)
      BY <1>0 DEF GoodRecord, Record
    <2> QED BY <1>0, <1>a, <1>3, <2>1, StepGood DEF Footprint
  <1>4. CASE NoFootprint
    BY <1>0, <1>a, <1>4, StepGood DEF NoFootprint
  <1>5. CASE PutFootprint
    BY <1>0, <1>a, <1>5, StepGood, NoRecordGood DEF PutFootprint
  <1>6. CASE Reload
    BY <1>0, <1>a, <1>6, StepGood DEF Reload
  <1>7. CASE SendConfig
    BY <1>0, <1>a, <1>7, StepGood, NoRecordGood DEF SendConfig
  <1>8. CASE ReadDeadline
    BY <1>0, <1>a, <1>8, StepGood, NoRecordGood DEF ReadDeadline
  <1> QED BY <1>1, <1>2, <1>3, <1>4, <1>5, <1>6, <1>7, <1>8

LEMMA WriteBackGood ==
    ASSUME RecordsGood, NEW h \in Holder, WriteBack(h)
    PROVE  RecordsGood' /\ policy' = policy
  <1>0. copy[h] \in GoodRecord(policy) /\ rec \in GoodRecord(policy)
        /\ {"put", "none"} \subseteq Pc
    BY DEF RecordsGood, Pc, ConfigPc, PassPc
  <1>1. CASE GetRecord(h)
    BY <1>0, <1>1, StepGood DEF GetRecord
  <1>2. CASE PutRecord(h)
    BY <1>0, <1>2, StepGood, NoRecordGood DEF PutRecord
  <1> QED BY <1>1, <1>2 DEF WriteBack

\* A connection begins or ends: only the position of a holder changes.
LEMMA MovedGood ==
    ASSUME RecordsGood, UNCHANGED <<policy, rec, copy>>,
           NEW h, NEW to \in Pc, at' = [at EXCEPT ![h] = to]
    PROVE  RecordsGood'
  BY DEF RecordsGood

-----------------------------------------------------------------------------
(* The agent *)

LEMMA InitGood == Init => IInv
  <1> SUFFICES ASSUME Init PROVE IInv
    OBVIOUS
  <1>1. RecordsGood
    <2>1. at \in [Holder -> Pc]
      BY DEF Init, RegistryInit, Pc, ConfigPc, PassPc
    <2> QED BY <2>1, NoRecordGood, PolicyAssumption DEF Init, RegistryInit, RecordsGood
  <1>2. NoConfig \in Config /\ NoConfig.disks = {}
    BY PolicyAssumption DEF NoConfig, Config
  <1>3. AgentGood
    <2>1. waited \in 0..Waits
      BY WaitAssumption DEF Init, AgentInit
    <2>2. link \in BOOLEAN /\ isLive \in BOOLEAN
      BY DEF Init, AgentInit
    <2>3. cfg \in Config /\ cfg.disks = {} /\ traced = {}
      BY <1>2 DEF Init, AgentInit
    <2>4. /\ live \in {"top", "dial", "open"} /\ events \subseteq Events
          /\ serving \in {"none", "frequency", "tracking"}
      BY DEF Init, AgentInit
    <2> QED BY <2>1, <2>2, <2>3, <2>4 DEF AgentGood, AgentTypeOK
  <1> QED BY <1>1, <1>3 DEF IInv

\* Steps that leave the agent's side and the policy alone.
LEMMA AgentStays ==
    ASSUME AgentGood, policy' = policy, UNCHANGED <<agentVars, serving, events>>
    PROVE  AgentGood'
  BY DEF AgentGood, AgentTypeOK, agentVars, Config

LEMMA EventType ==
    ASSUME AgentTypeOK, NEW e, Event(e)
    PROVE  events' \subseteq Events
  BY DEF AgentTypeOK, Event

LEMMA ConfigGood ==
    ASSUME IInv, ConfigStep
    PROVE  IInv'
  <1> USE DEF IInv
  <1>1. CASE DialConfig
    <2>1. RecordsGood'
      BY <1>1, MovedGood DEF DialConfig, Pc, ConfigPc
    <2>2. AgentGood'
      BY <1>1 DEF DialConfig, AgentGood, AgentTypeOK
    <2> QED BY <2>1, <2>2
  <1>2. CASE GetFootprint
    BY <1>2, HandlerGood, AgentStays DEF GetFootprint
  <1>3. CASE MissFootprint
    BY <1>3, HandlerGood, AgentStays DEF MissFootprint
  <1>4. CASE HandleConfig
    <2>1. RecordsGood' /\ policy' = policy
      <3>1. CASE Load \/ PutFootprint \/ Reload
        BY <3>1, HandlerGood
      <3>2. CASE OwnPass
        BY <3>2, PassGood DEF OwnPass, Holder
      <3> QED BY <1>4, <3>1, <3>2 DEF HandleConfig
    <2> QED BY <1>4, <2>1, AgentStays DEF HandleConfig
  <1>5. CASE SetAgentConfiguration
    <2>1. RecordsGood' /\ policy' = policy
      BY <1>5, HandlerGood DEF SetAgentConfiguration
    <2>2. copy["config"] \in GoodRecord(policy)
      BY DEF RecordsGood, Holder
    <2>3. cfg' \in Config /\ cfg'.disks \subseteq Allowed(policy)
      BY <1>5, <2>2 DEF SetAgentConfiguration, AgentGood, AgentTypeOK, Config, GoodRecord, Record
    <2>4. AgentGood'
      BY <1>5, <2>1, <2>3 DEF SetAgentConfiguration, AgentGood, AgentTypeOK
    <2> QED BY <2>1, <2>4
  <1>6. CASE EndConfig
    <2>1. RecordsGood' /\ policy' = policy
      BY <1>6, HandlerGood DEF EndConfig
    <2>2. AgentGood'
      BY <1>6, <2>1 DEF EndConfig, AgentGood, AgentTypeOK
    <2> QED BY <2>1, <2>2
  <1> QED BY <1>1, <1>2, <1>3, <1>4, <1>5, <1>6 DEF ConfigStep

LEMMA LiveGood ==
    ASSUME IInv, WaitForConfiguration \/ LiveReady \/ DialLive \/ ServeLive
    PROVE  IInv'
  <1>0. UNCHANGED registryVars
    BY DEF WaitForConfiguration, LiveReady, DialLive, ServeLive
  <1>1. RecordsGood' /\ policy' = policy
    BY <1>0 DEF IInv, RecordsGood, registryVars
  <1>2. CASE WaitForConfiguration
    <2>1. waited' \in 0..Waits
      BY <1>2, WaitAssumption DEF WaitForConfiguration, IInv, AgentGood, AgentTypeOK
    <2> QED BY <1>1, <1>2, <2>1 DEF WaitForConfiguration, IInv, AgentGood, AgentTypeOK
  <1>3. CASE LiveReady
    BY <1>1, <1>3 DEF LiveReady, IInv, AgentGood, AgentTypeOK
  <1>4. CASE DialLive
    <2>1. traced' \subseteq Disk /\ traced' \subseteq Allowed(policy)
      BY <1>4 DEF DialLive, IInv, AgentGood, AgentTypeOK, Config
    <2>2. /\ live' \in {"top", "dial", "open"} /\ isLive' \in BOOLEAN
          /\ serving' \in {"none", "frequency", "tracking"}
      BY <1>4 DEF DialLive, IInv, AgentGood, AgentTypeOK
    <2> QED BY <1>1, <1>4, <2>1, <2>2 DEF DialLive, IInv, AgentGood, AgentTypeOK
  <1>5. CASE ServeLive
    BY <1>1, <1>5 DEF ServeLive, IInv, AgentGood, AgentTypeOK, agentVars
  <1> QED BY <1>2, <1>3, <1>4, <1>5

LEMMA HandlerEndsGood ==
    ASSUME RecordsGood, HandlerEnds
    PROVE  RecordsGood' /\ policy' = policy
  <1> DEFINE to == IF serving = "tracking" /\ at["live"] = "none" THEN "get" ELSE at["live"]
  <1>1. to \in Pc
    BY DEF RecordsGood, Holder, Pc
  <1>2. at' = [at EXCEPT !["live"] = to] /\ UNCHANGED <<policy, rec, copy>>
    BY DEF HandlerEnds
  <1> HIDE DEF to
  <1> QED BY <1>1, <1>2, MovedGood

LEMMA DisturbanceGood ==
    ASSUME IInv, Disturbance
    PROVE  IInv'
  <1>0. AgentTypeOK /\ RecordsGood
    BY DEF IInv, AgentGood
  <1>1. CASE ConfigBreaks
    <2>1. RecordsGood' /\ policy' = policy
      BY <1>0, <1>1 DEF ConfigBreaks, registryVars, RecordsGood
    <2> QED BY <1>0, <1>1, <2>1, EventType DEF ConfigBreaks, IInv, AgentGood, AgentTypeOK
  <1>2. CASE FootprintLate
    <2>1. RecordsGood' /\ policy' = policy
      BY <1>0, <1>2, HandlerGood DEF FootprintLate
    <2> QED BY <1>0, <1>2, <2>1, EventType
        DEF FootprintLate, IInv, AgentGood, AgentTypeOK, agentVars
  <1>3. CASE LiveBreaks
    <2>1. RecordsGood' /\ policy' = policy
      BY <1>0, <1>3, HandlerEndsGood DEF LiveBreaks
    <2> QED BY <1>0, <1>3, <2>1, EventType
        DEF LiveBreaks, HandlerEnds, IInv, AgentGood, AgentTypeOK
  <1>4. CASE AgentRestarts
    <2>1. RecordsGood' /\ policy' = policy
      BY <1>0, <1>4, HandlerEndsGood DEF AgentRestarts
    <2>2. NoConfig \in Config /\ NoConfig.disks = {}
      BY PolicyAssumption DEF NoConfig, Config
    <2>3. waited' \in 0..Waits
      BY <1>4, WaitAssumption DEF AgentRestarts
    <2>4. link' \in BOOLEAN /\ isLive' \in BOOLEAN
      BY <1>4 DEF AgentRestarts
    <2>5. cfg' \in Config /\ cfg'.disks = {} /\ traced' = {}
      BY <1>4, <2>2 DEF AgentRestarts
    <2>6. /\ live' \in {"top", "dial", "open"}
          /\ serving' \in {"none", "frequency", "tracking"}
      BY <1>4 DEF AgentRestarts, HandlerEnds
    <2>7. events' \subseteq Events
      BY <1>0, <1>4, EventType DEF AgentRestarts
    <2>8. AgentGood'
      BY <2>3, <2>4, <2>5, <2>6, <2>7 DEF AgentGood, AgentTypeOK
    <2> QED BY <2>1, <2>8 DEF IInv
  <1>5. CASE SnapshotBegins
    <2>1. RecordsGood'
      BY <1>0, <1>5, MovedGood DEF SnapshotBegins, Pc
    <2> QED BY <1>0, <1>5, <2>1, EventType
        DEF SnapshotBegins, IInv, AgentGood, AgentTypeOK, agentVars
  <1> QED BY <1>1, <1>2, <1>3, <1>4, <1>5 DEF Disturbance

LEMMA PolicyGood ==
    ASSUME IInv, ChangePolicy
    PROVE  IInv'
  <1>1. /\ policy \in 0..MaxPolicy /\ policy < MaxPolicy /\ policy' = policy + 1
        /\ policy' \in 0..MaxPolicy
    BY PolicyAssumption DEF IInv, RecordsGood, ChangePolicy, WritePolicy
  <1>2. Allowed(policy) \subseteq Allowed(policy') /\ GoodRecord(policy) \subseteq GoodRecord(policy')
    BY <1>1, AllowedGrows
  <1>3. RecordsGood'
    BY <1>1, <1>2 DEF IInv, RecordsGood, ChangePolicy, WritePolicy
  <1>4. AgentGood'
    BY <1>2 DEF IInv, AgentGood, AgentTypeOK, ChangePolicy, agentVars
  <1> QED BY <1>3, <1>4 DEF IInv

LEMMA OtherHolderGood ==
    ASSUME IInv, NEW h \in Holder, OtherHolder(h)
    PROVE  IInv'
  <1>1. RecordsGood' /\ policy' = policy
    BY PassGood, WriteBackGood DEF IInv, OtherHolder, PassStep
  <1> QED BY <1>1, AgentStays DEF IInv, OtherHolder

LEMMA NextGood == IInv /\ [Next]_vars => IInv'
  <1> SUFFICES ASSUME IInv, [Next]_vars PROVE IInv'
    OBVIOUS
  <1>1. CASE ChangePolicy
    BY <1>1, PolicyGood
  <1>2. CASE Disturbance
    BY <1>2, DisturbanceGood
  <1>3. CASE ConfigStep
    BY <1>3, ConfigGood
  <1>4. CASE WaitForConfiguration \/ LiveReady \/ DialLive \/ ServeLive
    BY <1>4, LiveGood
  <1>5. ASSUME NEW h \in Holder \ {"config"}, OtherHolder(h)
        PROVE  IInv'
    BY <1>5, OtherHolderGood
  <1>6. CASE UNCHANGED vars
    <2>1. RecordsGood' /\ policy' = policy
      BY <1>6 DEF vars, registryVars, IInv, RecordsGood
    <2> QED BY <1>6, <2>1, AgentStays DEF vars, IInv
  <1> QED BY <1>1, <1>2, <1>3, <1>4, <1>5, <1>6 DEF Next

-----------------------------------------------------------------------------
(* Theorems *)

\* IInv holds throughout: the record of the agent, every copy of it, the
\* configuration it was sent and the disks it traces have allowed disks only.
THEOREM IInvHolds == Spec => []IInv
  BY InitGood, NextGood, PTL DEF Spec

\* All variables of Registry and Sessions keep to their types.
THEOREM TypesHold == Spec => []TypeOK
  <1>1. IInv => TypeOK
    BY DEF IInv, RecordsGood, GoodRecord, AgentGood, AgentTypeOK, TypeOK, RegistryTypeOK
  <1> QED BY <1>1, IInvHolds, PTL

\* A disk that every version of the policy has excluded is neither configured
\* nor traced on the agent, whoever wrote which old record back.
THEOREM OnlyWantedDisksHolds == Spec => []OnlyWantedDisks
  <1>1. IInv => OnlyWantedDisks
    BY DEF IInv, AgentGood, OnlyWantedDisks, Allowed
  <1> QED BY <1>1, IInvHolds, PTL

-----------------------------------------------------------------------------
(* A policy in force *)

Current == {r \in Record : r.known /\ r.policy = policy}

\* InForce, said of sets of records.
LEMMA InForceRecords ==
    ASSUME RecordsGood
    PROVE  InForce <=> /\ rec \in Current /\ at["config"] # "insert"
                       /\ \A h \in Holder : at[h] \in Holding => copy[h] \in Current
                       /\ cfg.ready => cfg.policy = policy
  BY DEF RecordsGood, GoodRecord, Current, InForce

\* A holder moves on with a record in which the policy is in force, or without one.
LEMMA StepInForce ==
    ASSUME RecordsGood, RecordsGood', InForce, policy' = policy, rec' \in Current,
           cfg'.ready => cfg'.policy = policy,
           NEW h \in Holder, NEW from, NEW to, NEW r, Step(h, from, to, r),
           to # "insert", to \in Holding => r \in Current
    PROVE  InForce'
  <1>1. rec'.known /\ rec'.policy = policy'
    BY DEF Current
  <1>2. ASSUME NEW k \in Holder, at'[k] \in Holding
        PROVE  copy'[k].known /\ copy'[k].policy = policy'
    <2>1. CASE k = h
      BY <1>2, <2>1 DEF Step, Current, RecordsGood
    <2>2. CASE k # h
      BY <1>2, <2>2 DEF Step, InForce, RecordsGood
    <2> QED BY <2>1, <2>2
  <1>3. at'["config"] # "insert"
    BY DEF Step, InForce, RecordsGood, Holder
  <1> QED BY <1>1, <1>2, <1>3 DEF InForce

\* Copying and applying keep the policy in a record.
LEMMA AppliedInForce ==
    ASSUME policy \in 0..MaxPolicy, NEW r \in GoodRecord(policy), r \in Current
    PROVE  Applied(r) \in Current /\ [r EXCEPT !.foot = TRUE] \in Current
  <1>1. Applied(r) \in Record
    BY AppliedGood DEF GoodRecord
  <1>2. Applied(r).known /\ Applied(r).policy = policy
    BY DEF Applied, Current, Record
  <1>3. [r EXCEPT !.foot = TRUE] \in Current
    BY DEF Current, Record
  <1> QED BY <1>1, <1>2, <1>3 DEF Current

LEMMA PassInForce ==
    ASSUME RecordsGood, RecordsGood', InForce, NEW h \in Holder,
           cfg' = cfg, ReadAll(h) \/ WalkPolicies(h) \/ WriteAll(h)
    PROVE  InForce'
  <1>0. /\ rec \in Current /\ copy[h] \in GoodRecord(policy)
        /\ at[h] \in Holding => copy[h] \in Current
        /\ cfg'.ready => cfg'.policy = policy
    BY InForceRecords DEF RecordsGood
  <1>1. CASE ReadAll(h)
    BY <1>0, <1>1, StepInForce DEF ReadAll
  <1>2. CASE WalkPolicies(h)
    <2>1. copy[h] \in Current
      BY <1>0, <1>2 DEF WalkPolicies, Step, Holding
    <2>2. Applied(copy[h]) \in Current
      BY <1>0, <2>1, AppliedInForce DEF RecordsGood
    <2> QED BY <1>0, <1>2, <2>2, StepInForce DEF WalkPolicies
  <1>3. CASE WriteAll(h)
    <2>1. copy[h] \in Current
      BY <1>0, <1>3 DEF WriteAll, Step, Holding
    <2>2. rec' \in Current /\ policy' = policy
      BY <1>0, <1>3, <2>1 DEF WriteAll
    <2>3. "reload" \notin Holding /\ "read" \notin Holding
      BY DEF Holding
    <2> QED BY <1>0, <1>3, <2>2, <2>3, StepInForce DEF WriteAll
  <1> QED BY <1>1, <1>2, <1>3

\* The handler of the config endpoint: an agent whose record is there is not
\* registered again.
LEMMA HandlerInForce ==
    ASSUME RecordsGood, RecordsGood', InForce, cfg'.ready => cfg'.policy = policy,
           \/ Load \/ Insert \/ Footprint \/ NoFootprint
           \/ PutFootprint \/ Reload \/ SendConfig \/ ReadDeadline
    PROVE  InForce'
  <1> DEFINE c == copy["config"]
  <1>0. /\ "config" \in Holder
        /\ rec \in Current /\ rec.known /\ c \in GoodRecord(policy)
        /\ at["config"] \in Holding => c \in Current
        /\ {"none", "read", "wait"} \cap Holding = {}
    BY InForceRecords DEF RecordsGood, Holder, Current, Holding
  <1>1. CASE Load
    BY <1>0, <1>1, StepInForce DEF Load
  <1>2. CASE Insert
    BY <1>2 DEF Insert, Step, InForce
  <1>3. CASE Footprint
    <2>1. c \in Current
      BY <1>0, <1>3 DEF Footprint, Step, Holding
    <2>2. [c EXCEPT !.foot = TRUE] \in Current
      BY <1>0, <2>1, AppliedInForce DEF RecordsGood
    <2> QED BY <1>0, <1>3, <2>2, StepInForce DEF Footprint
  <1>4. CASE NoFootprint
    <2>1. c \in Current
      BY <1>0, <1>4 DEF NoFootprint, Step, Holding
    <2> QED BY <1>0, <1>4, <2>1, StepInForce DEF NoFootprint
  <1>5. CASE PutFootprint
    <2>1. c \in Current
      BY <1>0, <1>5 DEF PutFootprint, Step, Holding
    <2> QED BY <1>0, <1>5, <2>1, StepInForce DEF PutFootprint
  <1>6. CASE Reload
    BY <1>0, <1>6, StepInForce DEF Reload
  <1>7. CASE SendConfig
    BY <1>0, <1>7, StepInForce DEF SendConfig
  <1>8. CASE ReadDeadline
    BY <1>0, <1>8, StepInForce DEF ReadDeadline
  <1> QED BY <1>1, <1>2, <1>3, <1>4, <1>5, <1>6, <1>7, <1>8
\* Steps that leave the records alone, and holders that begin a transaction.
LEMMA MovedInForce ==
    ASSUME RecordsGood, InForce, UNCHANGED <<policy, rec, copy>>,
           cfg'.ready => cfg'.policy = policy,
           at' = at \/ \E h : \E to \in {"get", "load"} : at' = [at EXCEPT ![h] = to]
    PROVE  InForce'
  <1>1. at'["config"] # "insert"
    BY DEF InForce, RecordsGood, Holder
  <1>2. \A k \in Holder : at'[k] \in Holding => at[k] \in Holding
    BY DEF RecordsGood, Holding
  <1> QED BY <1>1, <1>2 DEF InForce

LEMMA HandlerEndsInForce ==
    ASSUME RecordsGood, InForce, HandlerEnds, cfg'.ready => cfg'.policy = policy
    PROVE  InForce'
  <1>1. at' = at \/ at' = [at EXCEPT !["live"] = "get"]
    BY DEF HandlerEnds, RecordsGood, Holder
  <1> QED BY <1>1, MovedInForce DEF HandlerEnds

LEMMA DisturbanceInForce ==
    ASSUME IInv, IInv', InForce, Disturbance
    PROVE  InForce'
  <1>0. RecordsGood /\ RecordsGood' /\ (cfg.ready => cfg.policy = policy)
    BY DEF IInv, InForce
  <1>1. CASE ConfigBreaks
    BY <1>0, <1>1, MovedInForce DEF ConfigBreaks, registryVars
  <1>2. CASE FootprintLate
    BY <1>0, <1>2, HandlerInForce DEF FootprintLate, agentVars
  <1>3. CASE LiveBreaks
    BY <1>0, <1>3, HandlerEndsInForce DEF LiveBreaks
  <1>4. CASE AgentRestarts
    <2>1. ~cfg'.ready
      BY <1>4 DEF AgentRestarts, NoConfig
    <2> QED BY <1>0, <1>4, <2>1, HandlerEndsInForce DEF AgentRestarts
  <1>5. CASE SnapshotBegins
    BY <1>0, <1>5, MovedInForce DEF SnapshotBegins, agentVars
  <1> QED BY <1>1, <1>2, <1>3, <1>4, <1>5 DEF Disturbance

LEMMA ConfigInForce ==
    ASSUME IInv, IInv', InForce, ConfigStep
    PROVE  InForce'
  <1>0. RecordsGood /\ RecordsGood' /\ (cfg.ready => cfg.policy = policy)
    BY DEF IInv, InForce
  <1>1. CASE DialConfig
    BY <1>0, <1>1, MovedInForce DEF DialConfig
  <1>2. CASE GetFootprint
    BY <1>0, <1>2, HandlerInForce DEF GetFootprint, agentVars
  <1>3. CASE MissFootprint
    BY <1>0, <1>3, HandlerInForce DEF MissFootprint, agentVars
  <1>4. CASE HandleConfig
    <2>1. cfg' = cfg /\ "config" \in Holder
      BY <1>4 DEF HandleConfig, agentVars, Holder
    <2>2. CASE Load \/ PutFootprint \/ Reload
      BY <1>0, <2>1, <2>2, HandlerInForce
    <2>3. CASE OwnPass
      BY <1>0, <2>1, <2>3, PassInForce DEF OwnPass
    <2> QED BY <1>4, <2>2, <2>3 DEF HandleConfig
  <1>5. CASE SetAgentConfiguration
    <2>1. copy["config"].policy = policy
      BY <1>5 DEF SetAgentConfiguration, SendConfig, Step, InForce, Holding, Holder
    <2>2. cfg'.ready => cfg'.policy = policy
      BY <1>0, <1>5, <2>1 DEF SetAgentConfiguration
    <2> QED BY <1>0, <1>5, <2>2, HandlerInForce DEF SetAgentConfiguration
  <1>6. CASE EndConfig
    BY <1>0, <1>6, HandlerInForce DEF EndConfig
  <1> QED BY <1>1, <1>2, <1>3, <1>4, <1>5, <1>6 DEF ConfigStep

LEMMA OtherHolderInForce ==
    ASSUME IInv, IInv', InForce, NEW h \in Holder, OtherHolder(h)
    PROVE  InForce'
  <1>0. /\ RecordsGood /\ RecordsGood' /\ cfg' = cfg
        /\ cfg'.ready => cfg'.policy = policy
        /\ rec \in Current /\ (at[h] \in Holding => copy[h] \in Current)
    BY InForceRecords DEF IInv, InForce, OtherHolder, agentVars
  <1>1. CASE PassStep(h)
    BY <1>0, <1>1, PassInForce DEF PassStep
  <1>2. CASE GetRecord(h)
    BY <1>0, <1>2, StepInForce DEF GetRecord
  <1>3. CASE PutRecord(h)
    <2>1. copy[h] \in Current
      BY <1>0, <1>3 DEF PutRecord, Step, Holding
    <2>2. "none" \notin Holding
      BY DEF Holding
    <2> QED BY <1>0, <1>3, <2>1, <2>2, StepInForce DEF PutRecord
  <1> QED BY <1>1, <1>2, <1>3 DEF OtherHolder, WriteBack

\* A version of the policy that is in the record, in every copy under way and in
\* the agent's configuration is not lost again, whichever of the handlers and
\* passes writes a whole record back: what is sent to the agent is that version
\* until the operator writes the next.
THEOREM PolicyStaysHolds == Spec => PolicyStays
  <1>1. IInv /\ IInv' /\ [Next]_vars => (InForce /\ policy' = policy => InForce')
    <2> SUFFICES ASSUME IInv, IInv', [Next]_vars, InForce, policy' = policy PROVE InForce'
      OBVIOUS
    <2>0. RecordsGood /\ (cfg.ready => cfg.policy = policy)
      BY DEF IInv, InForce
    <2>1. CASE ChangePolicy
      BY <2>1, PolicyAssumption DEF ChangePolicy, WritePolicy, IInv, RecordsGood
    <2>2. CASE Disturbance
      BY <2>2, DisturbanceInForce
    <2>3. CASE ConfigStep
      BY <2>3, ConfigInForce
    <2>4. CASE WaitForConfiguration \/ LiveReady \/ DialLive \/ ServeLive
      BY <2>0, <2>4, MovedInForce
      DEF WaitForConfiguration, LiveReady, DialLive, ServeLive, registryVars, agentVars
    <2>5. ASSUME NEW h \in Holder \ {"config"}, OtherHolder(h)
          PROVE  InForce'
      BY <2>5, OtherHolderInForce
    <2>6. CASE UNCHANGED vars
      BY <2>0, <2>6, MovedInForce DEF vars, registryVars, agentVars
    <2> QED BY <2>1, <2>2, <2>3, <2>4, <2>5, <2>6 DEF Next
  <1> QED BY <1>1, IInvHolds, PTL DEF Spec, PolicyStays
=============================================================================
