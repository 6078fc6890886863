------------------------------- MODULE Registry -------------------------------
(***************************************************************************)
(* The record the dispatcher keeps of an agent, and everyone who reads it, *)
(* changes it and writes it back: the passes of ConfigScheduler over all   *)
(* agents (pkg/dispatcher/config.go), started by a timer and by the        *)
(* configuration connections of other agents, and the handlers of this     *)
(* agent's connections (pkg/dispatcher/dispatcher.go).  Each read and each *)
(* write is one transaction; nothing is locked in between.                 *)
(***************************************************************************)
EXTENDS Naturals

CONSTANTS
    Disk,       \* the disks of the agent
    MaxPolicy,  \* bound: versions of the policy file
    Wants,      \* Wants[v]: disks that version v does not exclude
    Pass        \* passes of ConfigScheduler other than the handler's own

ASSUME PolicyAssumption == MaxPolicy \in Nat /\ Wants \in [1..MaxPolicy -> SUBSET Disk]
ASSUME PassAssumption   == Pass \cap {"config", "snapshot", "live"} = {}

\* Who holds a copy of the record, besides passes: the handlers of the agent's
\* three connections.
Holder == Pass \cup {"config", "snapshot", "live"}

VARIABLES
    policy,     \* version of the policy file, 0 while there is none
    rec,        \* the stored record
    at,         \* where each holder is
    copy        \* the record as each holder has it

registryVars == <<policy, rec, at, copy>>

\* foot: is the footprint known; policy: the version last applied; disks: Disks
Record == [known : BOOLEAN, foot : BOOLEAN, policy : 0..MaxPolicy, disks : SUBSET Disk]
NoRecord == [known |-> FALSE, foot |-> FALSE, policy |-> 0, disks |-> {}]

PassPc   == {"read", "walk", "write"}
ConfigPc == {"none", "load", "insert", "foot", "put", "reload", "send", "wait"} \cup PassPc
Pc       == ConfigPc \cup {"get"}

RegistryInit ==
    /\ policy = 0 /\ rec = NoRecord
    /\ at   = [h \in Holder |-> IF h \in Pass THEN "read" ELSE "none"]
    /\ copy = [h \in Holder |-> NoRecord]

-----------------------------------------------------------------------------
Step(h, from, to, r) ==
    /\ at[h] = from
    /\ at'   = [at EXCEPT ![h] = to]
    /\ copy' = [copy EXCEPT ![h] = r]

\* The operator writes the next version of the file.
WritePolicy ==
    /\ policy < MaxPolicy
    /\ policy' = policy + 1
    /\ UNCHANGED <<rec, at, copy>>

-----------------------------------------------------------------------------
(* A pass of ConfigScheduler *)

ReadAll(h) == Step(h, "read", "walk", rec) /\ UNCHANGED <<policy, rec>>

\* Mutant: exclusions are not looked at.
AppliedToAll(r) ==
    IF r.known /\ policy # 0
    THEN [r EXCEPT !.policy = policy, !.disks = @ \cup IF r.foot THEN Disk ELSE {}]
    ELSE r

\* updateAgentConfig: settings are replaced, disks only added.
Applied(r) ==
    IF r.known /\ policy # 0
    THEN [r EXCEPT !.policy = policy,
                   !.disks  = @ \cup IF r.foot THEN Wants[policy] ELSE {}]
    ELSE r

WalkPolicies(h) ==
    Step(h, "walk", "write", Applied(copy[h])) /\ UNCHANGED <<policy, rec>>

\* Every agent that was read is written; one that was not there is left alone.
WriteAll(h) ==
    /\ Step(h, "write", IF h = "config" THEN "reload" ELSE "read", NoRecord)
    /\ rec' = IF copy[h].known THEN copy[h] ELSE rec
    /\ UNCHANGED policy

-----------------------------------------------------------------------------
(* handleConfigWebSocket *)

Load ==
    /\ Step("config", "load", IF rec.known THEN "foot" ELSE "insert", rec)
    /\ UNCHANGED <<policy, rec>>

\* An agent that is not known is registered, and the connection ends.
Insert ==
    /\ Step("config", "insert", "none", NoRecord)
    /\ rec' = [NoRecord EXCEPT !.known = TRUE]
    /\ UNCHANGED policy

Footprint ==
    /\ Step("config", "foot", "put", [copy["config"] EXCEPT !.foot = TRUE])
    /\ UNCHANGED <<policy, rec>>

\* No footprint within five seconds, or a read error.
NoFootprint ==
    Step("config", "foot", "send", copy["config"]) /\ UNCHANGED <<policy, rec>>

\* Mutant: the footprint is put into a record made afresh.
PutFootprintAnew ==
    /\ Step("config", "put", "read", NoRecord)
    /\ rec' = [NoRecord EXCEPT !.known = TRUE, !.foot = TRUE]
    /\ UNCHANGED policy

PutFootprint ==
    /\ Step("config", "put", "read", NoRecord)
    /\ rec' = copy["config"]
    /\ UNCHANGED policy

\* After its own pass the handler reads the record again.
Reload == Step("config", "reload", "send", rec) /\ UNCHANGED <<policy, rec>>

SendConfig ==
    Step("config", "send", "wait", NoRecord) /\ UNCHANGED <<policy, rec>>

\* The deadline for the footprint still stands when it has come, and a read
\* that failed goes on failing: the read loop ends in every case.
ReadDeadline ==
    Step("config", "wait", "none", NoRecord) /\ UNCHANGED <<policy, rec>>

OwnPass == ReadAll("config") \/ WalkPolicies("config") \/ WriteAll("config")

-----------------------------------------------------------------------------
(* handleSnapshotWebSocket registers the agent; handleLiveWebSocket records  *)
(* that it is gone.  Both write the rest of the record back as it was read.  *)

GetRecord(h) == Step(h, "get", "put", rec) /\ UNCHANGED <<policy, rec>>

PutRecord(h) ==
    /\ Step(h, "put", "none", NoRecord)
    /\ rec' = copy[h]
    /\ UNCHANGED policy

WriteBack(h) == h \in {"snapshot", "live"} /\ (GetRecord(h) \/ PutRecord(h))

PassStep(p) == ReadAll(p) \/ WalkPolicies(p) \/ WriteAll(p)

-----------------------------------------------------------------------------
RegistryTypeOK ==
    /\ policy \in 0..MaxPolicy
    /\ rec \in Record
    /\ at \in [Holder -> Pc]
    /\ copy \in [Holder -> Record]
=============================================================================
