------------------------------- MODULE Sessions -------------------------------
(***************************************************************************)
(* How an agent gets its configuration and starts to report changes: the   *)
(* configuration it keeps (utils/config.go), the goroutines of             *)
(* ConnectToDispatcher for the config and the live endpoint                *)
(* (pkg/agent/websocket.go), and the dispatcher's handlers of the two,     *)
(* over the record of the agent (Registry).                                *)
(*                                                                         *)
(* Full copies are left out, but for what starting one does to the record. *)
(***************************************************************************)
EXTENDS Registry, FiniteSets

CONSTANTS
    Waits,      \* times the agent waits for a first configuration (3)
    Events,     \* which disturbances happen, each once at most
    MaxEvents   \* bound: how many in all

ASSUME WaitAssumption  == Waits \in Nat
ASSUME EventAssumption ==
    /\ Events \subseteq {"config", "footprint", "live", "agent", "snapshot"}
    /\ MaxEvents \in Nat

VARIABLES
    cfg,        \* agentConfigManager: state and config
    waited,     \* waits of ConnectToDispatcher so far; Waits: loops are started
    link,       \* has the agent a config connection
    live,       \* the goroutine for the live endpoint
    isLive,
    traced,     \* disks whose GetBlocks sends on the connection there is
    serving,    \* the handler of that connection
    events      \* history: disturbances so far

agentVars == <<cfg, waited, link, live, isLive, traced>>
vars == <<registryVars, agentVars, serving, events>>

Config   == [ready : BOOLEAN, policy : 0..MaxPolicy, disks : SUBSET Disk]
NoConfig == [ready |-> FALSE, policy |-> 0, disks |-> {}]

AgentInit ==
    /\ cfg = NoConfig /\ waited = 0 /\ link = FALSE
    /\ live = "top" /\ isLive = FALSE /\ traced = {}

Init == RegistryInit /\ AgentInit /\ serving = "none" /\ events = {}

-----------------------------------------------------------------------------
(* The config endpoint *)

\* The agent dials some seconds after a connection has ended, and by then the
\* handler has ended too.
DialConfig ==
    /\ ~link /\ at["config"] = "none"
    /\ link' = TRUE
    /\ at' = [at EXCEPT !["config"] = "load"]
    /\ UNCHANGED <<policy, rec, copy, cfg, waited, live, isLive, traced, serving, events>>

\* The agent sends its footprint as soon as it is authenticated.
GetFootprint ==
    /\ link /\ Footprint
    /\ UNCHANGED <<agentVars, serving, events>>

MissFootprint ==
    /\ ~link /\ NoFootprint
    /\ UNCHANGED <<agentVars, serving, events>>

\* SetAgentConfiguration, which wakes the goroutines that wait.
SetAgentConfiguration ==
    LET r == copy["config"]
    IN /\ SendConfig
       /\ cfg' = IF link THEN [ready |-> TRUE, policy |-> r.policy, disks |-> r.disks] ELSE cfg
       /\ UNCHANGED <<waited, link, live, isLive, traced, serving, events>>

HandleConfig ==
    /\ Load \/ PutFootprint \/ OwnPass \/ Reload
    /\ UNCHANGED <<agentVars, serving, events>>

\* Mutant: the deadline is lifted once the footprint is there.
EndConfigWhenLost ==
    /\ Insert \/ (~link /\ ReadDeadline)
    /\ link' = FALSE
    /\ UNCHANGED <<cfg, waited, live, isLive, traced, serving, events>>

EndConfig ==
    /\ Insert \/ ReadDeadline
    /\ link' = FALSE
    /\ UNCHANGED <<cfg, waited, live, isLive, traced, serving, events>>

ConfigStep ==
    \/ DialConfig \/ GetFootprint \/ MissFootprint \/ HandleConfig
    \/ SetAgentConfiguration \/ EndConfig

-----------------------------------------------------------------------------
(* The live endpoint *)

\* Mutant: one wait too many.
WaitOnceMore ==
    /\ waited <= Waits
    /\ waited' = IF cfg.ready THEN Waits ELSE waited + 1
    /\ UNCHANGED <<registryVars, cfg, link, live, isLive, traced, serving, events>>

\* WaitForConfiguration returns when the configuration is there, or at its
\* deadline; after so many waits the other goroutines are started anyway.
WaitForConfiguration ==
    /\ waited < Waits
    /\ waited' = IF cfg.ready THEN Waits ELSE waited + 1
    /\ UNCHANGED <<registryVars, cfg, link, live, isLive, traced, serving, events>>

\* With no disks the goroutine waits for a configuration, and goes on with the
\* one there is, be it without disks.
LiveReady ==
    /\ waited = Waits /\ live = "top" /\ cfg.ready
    /\ live' = "dial"
    /\ UNCHANGED <<registryVars, cfg, waited, link, isLive, traced, serving, events>>

\* Mutant: the flag is set before the disks are looked at.
DialLiveFlagged ==
    /\ live = "dial"
    /\ live' = IF cfg.disks = {} THEN "top" ELSE "open"
    /\ isLive' = TRUE
    /\ traced' = IF isLive THEN traced ELSE cfg.disks
    /\ serving' = IF cfg.disks = {} THEN "none" ELSE "frequency"
    /\ UNCHANGED <<registryVars, cfg, waited, link, events>>

\* The handler begins to wait for a sync frequency.  Without disks the agent
\* leaves the connection; GetBlocks is started once in the agent's life.
DialLive ==
    /\ live = "dial"
    /\ IF cfg.disks = {}
       THEN /\ live' = "top" /\ serving' = "none"
            /\ UNCHANGED <<isLive, traced>>
       ELSE /\ live' = "open" /\ serving' = "frequency"
            /\ isLive' = TRUE
            /\ traced' = IF isLive THEN traced ELSE cfg.disks
    /\ UNCHANGED <<registryVars, cfg, waited, link, events>>

\* LiveSyncFreq is in the record: the tracker, the ticker of SyncData and the
\* writer are started, and the connection is read.
ServeLive ==
    /\ serving = "frequency" /\ rec.policy # 0
    /\ serving' = "tracking"
    /\ UNCHANGED <<registryVars, agentVars, events>>

-----------------------------------------------------------------------------
(* What happens to them *)

Event(e) ==
    /\ e \in Events \ events /\ Cardinality(events) < MaxEvents
    /\ events' = events \cup {e}

ConfigBreaks ==
    /\ link /\ Event("config")
    /\ link' = FALSE
    /\ UNCHANGED <<registryVars, cfg, waited, live, isLive, traced, serving>>

\* The footprint comes late, and the old record is what the agent is sent.
FootprintLate == NoFootprint /\ Event("footprint") /\ UNCHANGED <<agentVars, serving>>

\* handleLiveWebSocket ends, and writes the record once more.
HandlerEnds ==
    /\ serving' = "none"
    /\ at' = [at EXCEPT !["live"] = IF serving = "tracking" /\ @ = "none" THEN "get" ELSE @]
    /\ UNCHANGED <<policy, rec, copy>>

LiveBreaks ==
    /\ live = "open" /\ Event("live")
    /\ live' = "top" /\ traced' = {}
    /\ HandlerEnds
    /\ UNCHANGED <<cfg, waited, link, isLive>>

\* Stopped and started again, by log.Fatalf among others.
AgentRestarts ==
    /\ Event("agent")
    /\ cfg' = NoConfig /\ waited' = 0 /\ link' = FALSE
    /\ live' = "top" /\ isLive' = FALSE /\ traced' = {}
    /\ HandlerEnds

\* A snapshot connection: the agent has disks, the handler registers it.
SnapshotBegins ==
    /\ cfg.disks # {} /\ at["snapshot"] = "none" /\ Event("snapshot")
    /\ at' = [at EXCEPT !["snapshot"] = "get"]
    /\ UNCHANGED <<policy, rec, copy, agentVars, serving>>

Disturbance ==
    ConfigBreaks \/ FootprintLate \/ LiveBreaks \/ AgentRestarts \/ SnapshotBegins

-----------------------------------------------------------------------------
OtherHolder(h) ==
    /\ IF h \in Pass THEN PassStep(h) ELSE WriteBack(h)
    /\ UNCHANGED <<agentVars, serving, events>>

ChangePolicy == WritePolicy /\ UNCHANGED <<agentVars, serving, events>>

Next ==
    \/ ChangePolicy \/ Disturbance
    \/ ConfigStep
    \/ WaitForConfiguration \/ LiveReady \/ DialLive \/ ServeLive
    \/ \E h \in Holder \ {"config"} : OtherHolder(h)

Spec == Init /\ [][Next]_vars

\* The loops of both sides keep running.  A pass is made every ten seconds, a
\* config connection every fifteen at least, and each transaction takes a few
\* milliseconds: a pass does not write an old copy into the middle of the
\* handler's work on every single connection.  The live loop comes round every
\* five seconds, so that it meets a configuration with disks while it lasts.
FairSpec ==
    /\ Spec
    /\ WF_vars(ConfigStep)
    /\ WF_vars(WaitForConfiguration) /\ WF_vars(ServeLive)
    /\ WF_vars(LiveReady) /\ SF_vars(LiveReady /\ cfg.disks # {})
    /\ WF_vars(DialLive)  /\ SF_vars(DialLive /\ cfg.disks # {})
    /\ \A h \in Holder \ {"config"} : WF_vars(OtherHolder(h))
    /\ SF_vars(HandleConfig /\ ReadAll("config") /\ rec.foot)
    /\ SF_vars(HandleConfig /\ Reload /\ rec.disks # {})

-----------------------------------------------------------------------------
(* Properties *)

TypeOK ==
    /\ RegistryTypeOK
    /\ cfg \in Config /\ waited \in 0..Waits /\ link \in BOOLEAN
    /\ live \in {"top", "dial", "open"} /\ isLive \in BOOLEAN
    /\ traced \subseteq Disk
    /\ serving \in {"none", "frequency", "tracking"}
    /\ events \subseteq Events

\* A disk that every version of the policy so far has excluded is in no
\* configuration of the agent and is not traced, though disks are only ever
\* added (updateAgentConfig), to copies of the record as old as you please.
OnlyWantedDisks == traced \cup cfg.disks \subseteq UNION {Wants[v] : v \in 1..policy}

\* A change of the policy file comes into force on the agent and stays so,
\* though whole records are written back from old copies by four parties, and
\* the dispatcher never announces a change: configuration connections end by a
\* deadline that nobody resets (handleConfigWebSocket) and are made again.
PolicyReachesAgent == <>[](cfg.policy = policy)

\* The record has the last version of the policy, and so have all copies of it
\* that somebody may still write or send, and the configuration there is; nobody
\* is about to register the agent.
Holding == {"walk", "write", "foot", "put", "send"}

InForce ==
    /\ rec.known /\ rec.policy = policy /\ at["config"] # "insert"
    /\ \A h \in Holder : at[h] \in Holding => copy[h].known /\ copy[h].policy = policy
    /\ cfg.ready => cfg.policy = policy

\* What is in force stays in force until the operator changes the policy: no
\* registration, footprint, lost connection or restart writes a whole record
\* that lacks it or sends the agent an older one.
PolicyStays == [][InForce /\ policy' = policy => InForce']_vars

Wanted    == policy # 0 /\ Wants[policy] # {}
Reporting == traced # {} /\ serving = "tracking"

\* docs/architecture.md line 14: an agent that connects begins to monitor its
\* disks.  As long as the policy wants disks of the agent, whatever restarts and
\* breaks there is always a time again when their changes are traced and the
\* dispatcher takes them -- but for a live connection that was lost: isLive stays
\* set, and nobody sends changes over the next one, whatever docs/architecture.md
\* line 19 says of data consistency "upon reconnection".
ChangesReported == []<>(Wanted => Reporting \/ "live" \in events)
=============================================================================
