--------------------------- MODULE LifecycleProofs ---------------------------
(***************************************************************************)
(* OpampServer implements ConfigLifecycle, for every value of the          *)
(* constants, and what it shows as "synced" was reported by the agent.     *)
(* Both rest on the same facts: which steps touch the sync columns of a    *)
(* row, and how.                                                           *)
(***************************************************************************)
EXTENDS OpampServerProofs

Sync(u) == Load(rows, u).sync
Target(u) == Load(rows, u).lastHash

\* The sync columns of every agent are as they were.
SyncUntouched == \A u \in Agents : Sync(u)' = Sync(u) /\ Target(u)' = Target(u)

-----------------------------------------------------------------------------
(* The sync columns, step by step.                                         *)

LEMMA LoadSave ==
    ASSUME NEW t, NEW u \in Agents, NEW row
    PROVE  /\ Load(Save(t, u, row), u) = row
           /\ \A v \in Agents : v # u => Load(Save(t, u, row), v) = Load(t, v)
  BY DEF Load, Save, Put

\* A row that is written with its sync columns unchanged leaves them all alone.
LEMMA SaveKeepsSync ==
    ASSUME NEW u \in Agents, NEW row, rows' = Save(rows, u, row),
           row.sync = Sync(u), row.lastHash = Target(u)
    PROVE  SyncUntouched
  <1>1. Load(rows, u)' = row /\ \A v \in Agents : v # u => Load(rows, v)' = Load(rows, v)
    BY LoadSave
  <1>. QED
    BY <1>1 DEF SyncUntouched, Sync, Target

LEMMA SweepKeepsSync ==
    ASSUME TypeOK, SweepStep
    PROVE  SyncUntouched /\ UNCHANGED <<at, reported>>
  <1>1. CASE SweepList \/ SweepClock \/ SweepEnd \/ \E u \in Agents : SweepSkip(u)
    BY <1>1 DEF SweepList, SweepClock, SweepEnd, SweepSkip, SyncUntouched, Sync, Target,
                agentVars, pushVars, reqVars
  <1>2. ASSUME NEW u \in Agents, SweepUpdate(u) PROVE SyncUntouched /\ UNCHANGED <<at, reported>>
    <2>. DEFINE row == [Load(rows, u) EXCEPT !.state = wanted[u]]
    <2>1. Load(rows, u) \in AgentRow
      BY LoadType DEF TypeOK
    <2>2. row.sync = Sync(u) /\ row.lastHash = Target(u)
      BY <2>1 DEF AgentRow, Sync, Target
    <2>3. rows' = Save(rows, u, row) /\ UNCHANGED <<at, reported>>
      BY <1>2 DEF SweepUpdate, agentVars, pushVars, reqVars
    <2>. HIDE DEF row
    <2>. QED
      BY <2>2, <2>3, SaveKeepsSync
  <1>. QED
    BY <1>1, <1>2 DEF SweepStep

LEMMA TickKeepsSync ==
    ASSUME TypeOK, Tick
    PROVE  SyncUntouched /\ UNCHANGED <<at, reported>>
  <1>1. \A u \in DOMAIN rows : rows[u] \in AgentRow
    BY MapsElim DEF TypeOK, Tables
  <1>2. /\ DOMAIN rows' = DOMAIN rows
        /\ \A u \in DOMAIN rows : rows'[u].sync = rows[u].sync /\ rows'[u].lastHash = rows[u].lastHash
    BY <1>1 DEF Tick, AgentRow
  <1>. QED
    BY <1>2 DEF Tick, SyncUntouched, Sync, Target, Load, agentVars, pushVars, reqVars

\* What a persisted message does: without a report, nothing; else it moves the
\* sync state of its agent as SyncAfter says and adds to what it reported.
LEMMA PersistEffect ==
    ASSUME TypeOK, NEW c \in Conns, PersistMessage(c)
    PROVE  \E u \in Agents, m \in AgentToServer :
               /\ \A v \in Agents : v # u => Sync(v)' = Sync(v) /\ reported'[v] = reported[v]
               /\ \A v \in Agents : Target(v)' = Target(v)
               /\ reported'[u] = reported[u] \cup ({m.status} \ {Omitted})
               /\ IF m.status = Omitted THEN Sync(u)' = Sync(u)
                  ELSE Sync(u)' = SyncAfter(Load(rows, u), m.status)
               /\ UNCHANGED at
  <1>0. PICK m \in AgentToServer : m = handler[c].msg
    BY MessageOfHandler DEF PersistMessage
  <1>1. PICK u \in Agents : u = m.uid
    BY DEF AgentToServer
  <1>. DEFINE row == Applied(Load(rows, u), m)
  <1>2. Load(rows, u) \in AgentRow
    BY LoadType DEF TypeOK
  <1>3. /\ row.lastHash = Target(u)
        /\ row.sync = IF m.status = Omitted THEN Sync(u) ELSE SyncAfter(Load(rows, u), m.status)
    BY <1>2 DEF Applied, AgentRow, Target, Sync
  <1>4. /\ rows' = Save(rows, u, row)
        /\ reported' = [reported EXCEPT ![u] = @ \cup ({m.status} \ {Omitted})]
        /\ UNCHANGED at
    BY <1>0, <1>1 DEF PersistMessage, pushVars, reqVars
  <1>5. /\ reported'[u] = reported[u] \cup ({m.status} \ {Omitted})
        /\ \A v \in Agents : v # u => reported'[v] = reported[v]
    BY <1>4 DEF TypeOK
  <1>. HIDE DEF row
  <1>6. Load(rows, u)' = row /\ \A v \in Agents : v # u => Load(rows, v)' = Load(rows, v)
    BY <1>4, LoadSave
  <1>7. /\ \A v \in Agents : v # u => Sync(v)' = Sync(v) /\ Target(v)' = Target(v)
        /\ Sync(u)' = row.sync /\ Target(u)' = row.lastHash
    BY <1>6 DEF Sync, Target
  <1>. QED
    BY <1>3, <1>4, <1>5, <1>7

\* What an adopted push does, and what the other steps of a request leave.
LEMMA AdoptEffect ==
    ASSUME TypeOK, OnlyValidBodies, NEW r \in Requests, AdoptPush(r), at'[r] = "send"
    PROVE  /\ Sync(PushUid[r])' = "pending" /\ Target(PushUid[r])' = PushBody[r]
           /\ \A v \in Agents : v # PushUid[r] => Sync(v)' = Sync(v) /\ Target(v)' = Target(v)
           /\ at' = [at EXCEPT ![r] = "send"] /\ at[r] = "upsert"
           /\ PushUid[r] \in Agents /\ UNCHANGED reported
  <1>. DEFINE u == PushUid[r]
              row == Pushed(Load(rows, u), PushBody[r])
  <1>1. u \in Agents
    BY ServerConstants
  <1>2. /\ rows' = Save(rows, u, row) /\ at' = [at EXCEPT ![r] = "send"]
        /\ at[r] = "upsert" /\ UNCHANGED reported
    BY DEF AdoptPush, Answer, GoOn, agentVars
  <1>3. row.sync = "pending" /\ row.lastHash = PushBody[r]
    <2>1. Load(rows, u) \in AgentRow
      BY LoadType DEF TypeOK
    <2>. QED
      BY <2>1 DEF Pushed, AgentRow
  <1>. HIDE DEF row, u
  <1>4. Load(rows, u)' = row /\ \A v \in Agents : v # u => Load(rows, v)' = Load(rows, v)
    BY <1>1, <1>2, LoadSave
  <1>. QED
    BY <1>1, <1>2, <1>3, <1>4 DEF Sync, Target, u

LEMMA RestKeepsSync ==
    ASSUME TypeOK,
           \/ \E c \in Conns : AgentStep(c) /\ ~PersistMessage(c)
           \/ \E r \in Requests : PushStep(r) /\ ~(AdoptPush(r) /\ at'[r] = "send")
           \/ Restart
           \/ UNCHANGED vars
    PROVE  SyncUntouched /\ UNCHANGED reported
  <1>. SUFFICES UNCHANGED <<rows, reported>>
    BY DEF SyncUntouched, Sync, Target
  <1>1. ASSUME NEW c \in Conns, AgentStep(c), ~PersistMessage(c) PROVE UNCHANGED <<rows, reported>>
    BY <1>1 DEF AgentStep, Connect, Break, OnConnectionClose, OnMessage, LearnPort, LoseMessage
  <1>2. ASSUME NEW r \in Requests, PushStep(r), ~(AdoptPush(r) /\ at'[r] = "send")
        PROVE  UNCHANGED <<rows, reported>>
    <2>1. CASE AdoptPush(r)
      BY <1>2, <2>1 DEF AdoptPush, GoOn, agentVars, TypeOK
    <2>2. CASE ~AdoptPush(r)
      BY <1>2, <2>2 DEF PushStep, ReceivePush, FindConnection, AppendPush, SendPush, AcceptPush, agentVars
    <2>. QED
      BY <2>1, <2>2
  <1>3. CASE Restart \/ UNCHANGED vars
    BY <1>3 DEF Restart, vars, agentVars
  <1>. QED
    BY <1>1, <1>2, <1>3
-----------------------------------------------------------------------------
(* "synced" is acknowledged.                                               *)

Acknowledged(u) ==
    Sync(u) = "synced" => /\ Target(u) # NoHash
                          /\ [status |-> "APPLIED", hash |-> Target(u)] \in reported[u]

AckInv == \A u \in Agents : Acknowledged(u)

LEMMA AckNext ==
    ASSUME TypeOK, OnlyValidBodies, AckInv, [Next]_vars
    PROVE  AckInv'
  <1>1. ASSUME SyncUntouched, UNCHANGED reported PROVE AckInv'
    BY <1>1 DEF SyncUntouched, AckInv, Acknowledged
  <1>2. ASSUME NEW c \in Conns, PersistMessage(c) PROVE AckInv'
    <2>1. PICK u \in Agents, m \in AgentToServer :
              /\ \A v \in Agents : v # u => Sync(v)' = Sync(v) /\ reported'[v] = reported[v]
              /\ \A v \in Agents : Target(v)' = Target(v)
              /\ reported'[u] = reported[u] \cup ({m.status} \ {Omitted})
              /\ IF m.status = Omitted THEN Sync(u)' = Sync(u)
                 ELSE Sync(u)' = SyncAfter(Load(rows, u), m.status)
      BY <1>2, PersistEffect
    <2>2. \A v \in Agents : v # u => Acknowledged(v)'
      BY <2>1 DEF AckInv, Acknowledged
    <2>3. CASE m.status = Omitted
      BY <2>1, <2>2, <2>3 DEF AckInv, Acknowledged
    <2>4. CASE m.status # Omitted
      <3>1. m.status \in StatusReport /\ m.status \in reported'[u] /\ reported[u] \subseteq reported'[u]
        BY <2>1, <2>4 DEF AgentToServer
      <3>2. CASE m.status.status = "APPLIED" /\ HashMatches(Load(rows, u), m.status)
        <4>1. Target(u) # NoHash /\ m.status.hash = Target(u)
          BY <3>2 DEF HashMatches, Target
        <4>2. m.status = [status |-> "APPLIED", hash |-> Target(u)]
          BY <3>1, <3>2, <4>1 DEF StatusReport
        <4>3. Acknowledged(u)'
          BY <2>1, <3>1, <4>1, <4>2 DEF Acknowledged
        <4>. QED
          BY <2>2, <4>3 DEF AckInv
      <3>3. CASE m.status.status = "UNSET"
        <4>1. Acknowledged(u)'
          BY <2>1, <2>4, <3>1, <3>3 DEF SyncAfter, Sync, AckInv, Acknowledged
        <4>. QED
          BY <2>2, <4>1 DEF AckInv
      <3>4. CASE \/ m.status.status \in {"APPLYING", "FAILED"}
                 \/ m.status.status = "APPLIED" /\ ~HashMatches(Load(rows, u), m.status)
        <4>1. Acknowledged(u)'
          BY <2>1, <2>4, <3>4 DEF SyncAfter, Acknowledged
        <4>. QED
          BY <2>2, <4>1 DEF AckInv
      <3>5. m.status.status \in {"UNSET", "APPLIED", "APPLYING", "FAILED"}
        BY <3>1 DEF StatusReport
      <3>. QED
        BY <3>2, <3>3, <3>4, <3>5
    <2>. QED
      BY <2>3, <2>4
  <1>3. ASSUME NEW r \in Requests, AdoptPush(r), at'[r] = "send" PROVE AckInv'
    BY <1>3, AdoptEffect DEF AckInv, Acknowledged
  <1>4. CASE SweepStep \/ Tick
    BY <1>1, <1>4, SweepKeepsSync, TickKeepsSync
  <1>5. CASE \/ \E c \in Conns : AgentStep(c) /\ ~PersistMessage(c)
             \/ \E r \in Requests : PushStep(r) /\ ~(AdoptPush(r) /\ at'[r] = "send")
             \/ Restart
             \/ UNCHANGED vars
    BY <1>1, <1>5, RestKeepsSync
  <1>. QED
    BY <1>2, <1>3, <1>4, <1>5 DEF Next

\* handler.go:243-247: whatever pushes, reports, sweeps and restarts do to a
\* row, "synced" means that its agent reported the config of its latest push
\* applied.
THEOREM SyncedMeansAcknowledged == Spec => []SyncedIsAcknowledged
  <1>1. Init => AckInv
    BY DEF Init, EmptyMap, AckInv, Acknowledged, Sync, Load
  <1>2. TypeOK /\ OnlyValidBodies /\ AckInv /\ [Next]_vars => AckInv'
    BY AckNext
  <1>3. TypeOK /\ AckInv => SyncedIsAcknowledged
    BY MapsElim DEF TypeOK, Tables, AckInv, Acknowledged, Sync, Target, Load, SyncedIsAcknowledged
  <1>. QED
    BY <1>1, <1>2, <1>3, TypeCorrect, PTL DEF Spec
-----------------------------------------------------------------------------
(* Refinement: every step of the server is a step of ConfigLifecycle or    *)
(* leaves its variables alone.                                             *)

StageFn == [r \in Requests |-> Stage(r)]
TargetFn == [u \in Agents |-> Target(u)]
SyncFn == [u \in Agents |-> Sync(u)]
AckedFn == [u \in Agents |-> Acked(u)]

\* The step a server step maps to, in the terms of ConfigLifecycle.
LifecycleStep == Lifecycle!Next \/ UNCHANGED <<StageFn, TargetFn, SyncFn, AckedFn>>

LEMMA FnsUnchanged ==
    ASSUME SyncUntouched, UNCHANGED reported
    PROVE  UNCHANGED <<TargetFn, SyncFn, AckedFn>>
  BY DEF SyncUntouched, TargetFn, SyncFn, AckedFn, Acked

LEMMA StageUnchanged == ASSUME UNCHANGED at PROVE UNCHANGED StageFn
  BY DEF StageFn, Stage

LEMMA SimulatePersist ==
    ASSUME TypeOK, NEW c \in Conns, PersistMessage(c)
    PROVE  LifecycleStep
  <1>1. PICK u \in Agents, m \in AgentToServer :
            /\ \A v \in Agents : v # u => Sync(v)' = Sync(v) /\ reported'[v] = reported[v]
            /\ \A v \in Agents : Target(v)' = Target(v)
            /\ reported'[u] = reported[u] \cup ({m.status} \ {Omitted})
            /\ IF m.status = Omitted THEN Sync(u)' = Sync(u)
               ELSE Sync(u)' = SyncAfter(Load(rows, u), m.status)
            /\ UNCHANGED at
    BY PersistEffect
  <1>2. UNCHANGED <<StageFn, TargetFn>>
    BY <1>1, StageUnchanged DEF TargetFn
  <1>3. SyncFn' = [SyncFn EXCEPT ![u] = Sync(u)']
    BY <1>1 DEF SyncFn
  <1>4. AckedFn' = [AckedFn EXCEPT ![u] = Acked(u)']
    BY <1>1 DEF AckedFn, Acked
  <1>5. CASE m.status = Omitted
    <2>1. Sync(u)' = Sync(u) /\ Acked(u)' = Acked(u)
      BY <1>1, <1>5 DEF Acked
    <2>. QED
      BY <1>2, <1>3, <1>4, <2>1 DEF SyncFn, AckedFn, LifecycleStep
  <1>6. CASE m.status # Omitted
    <2>1. /\ m.status \in StatusReport /\ Sync(u)' = SyncAfter(Load(rows, u), m.status)
          /\ reported'[u] = reported[u] \cup {m.status}
      BY <1>1, <1>6 DEF AgentToServer
    <2>2. CASE m.status.status = "APPLIED"
      <3>1. Sync(u)' = IF m.status.hash = TargetFn[u] /\ m.status.hash # NoHash
                       THEN "synced" ELSE "drifted"
        BY <2>1, <2>2 DEF SyncAfter, HashMatches, Target, TargetFn
      <3>2. m.status.hash \in Configs \cup {NoHash}
        BY <2>1 DEF StatusReport
      <3>3. Acked(u)' = AckedFn[u] \cup {m.status.hash}
        BY <2>1, <2>2 DEF Acked, AckedFn
      <3>4. Lifecycle!ReportApplied(u, m.status.hash)
        BY <1>2, <1>3, <1>4, <3>1, <3>3
           DEF Lifecycle!ReportApplied, StageFn, TargetFn, SyncFn, AckedFn, Target, Sync
      <3>. QED
        BY <3>2, <3>4 DEF LifecycleStep, Lifecycle!Next
    <2>3. ASSUME m.status.status # "APPLIED" PROVE UNCHANGED AckedFn
      <3>1. Acked(u)' = Acked(u)
        BY <2>1, <2>3 DEF Acked
      <3>. QED
        BY <1>4, <3>1 DEF AckedFn
    <2>4. CASE m.status.status \in {"APPLYING", "FAILED"}
      <3>1. Sync(u)' \in {"pending", "failed"}
        BY <2>1, <2>4 DEF SyncAfter
      <3>2. Lifecycle!ReportProgress(u)
        BY <1>2, <1>3, <2>3, <2>4, <3>1
           DEF Lifecycle!ReportProgress, StageFn, TargetFn, SyncFn, AckedFn, Target, Sync
      <3>. QED
        BY <3>2 DEF LifecycleStep, Lifecycle!Next
    <2>5. CASE m.status.status = "UNSET"
      <3>1. Sync(u)' = Sync(u)
        BY <2>1, <2>5 DEF SyncAfter, Sync
      <3>. QED
        BY <1>2, <1>3, <2>3, <2>5, <3>1 DEF SyncFn, LifecycleStep
    <2>6. m.status.status \in {"UNSET", "APPLIED", "APPLYING", "FAILED"}
      BY <2>1 DEF StatusReport
    <2>. QED
      BY <2>2, <2>4, <2>5, <2>6
  <1>. QED
    BY <1>5, <1>6

LEMMA SimulateAdopt ==
    ASSUME TypeOK, OnlyValidBodies, NEW r \in Requests, AdoptPush(r), at'[r] = "send"
    PROVE  LifecycleStep
  <1>1. /\ Sync(PushUid[r])' = "pending" /\ Target(PushUid[r])' = PushBody[r]
        /\ \A v \in Agents : v # PushUid[r] => Sync(v)' = Sync(v) /\ Target(v)' = Target(v)
        /\ at' = [at EXCEPT ![r] = "send"] /\ at[r] = "upsert"
        /\ PushUid[r] \in Agents /\ UNCHANGED reported
    BY AdoptEffect
  <1>2. StageFn[r] = "recorded" /\ StageFn' = [StageFn EXCEPT ![r] = "adopted"]
    BY <1>1 DEF StageFn, Stage, TypeOK
  <1>3. SyncFn' = [SyncFn EXCEPT ![PushUid[r]] = "pending"]
    BY <1>1 DEF SyncFn
  <1>4. TargetFn' = [TargetFn EXCEPT ![PushUid[r]] = PushBody[r]]
    BY <1>1 DEF TargetFn
  <1>5. UNCHANGED AckedFn
    BY <1>1 DEF AckedFn, Acked
  <1>6. Lifecycle!Adopt(r)
    BY <1>2, <1>3, <1>4, <1>5
       DEF Lifecycle!Adopt, StageFn, TargetFn, SyncFn, AckedFn, Target, Sync
  <1>. QED
    BY <1>6 DEF LifecycleStep, Lifecycle!Next

LEMMA SimulatePush ==
    ASSUME TypeOK, OnlyValidBodies, NEW r \in Requests, PushStep(r),
           ~(AdoptPush(r) /\ at'[r] = "send")
    PROVE  LifecycleStep
  <1>0. UNCHANGED <<TargetFn, SyncFn, AckedFn>>
    BY RestKeepsSync, FnsUnchanged
  <1>1. CASE AppendPush(r) /\ at'[r] = "upsert"
    <2>1. at[r] = "append" /\ at' = [at EXCEPT ![r] = "upsert"]
      BY <1>1 DEF AppendPush, Answer, GoOn
    <2>2. StageFn[r] = "none" /\ StageFn' = [StageFn EXCEPT ![r] = "recorded"]
      BY <2>1 DEF StageFn, Stage, TypeOK
    <2>3. Lifecycle!Record(r)
      BY <1>0, <2>2 DEF Lifecycle!Record, StageFn, TargetFn, SyncFn, AckedFn, Target, Sync
    <2>. QED
      BY <2>3 DEF LifecycleStep, Lifecycle!Next
  <1>2. CASE SendPush(r) /\ at'[r] = "sent"
    <2>1. at[r] = "send" /\ at' = [at EXCEPT ![r] = "sent"]
      BY <1>2 DEF SendPush, Answer, GoOn
    <2>2. StageFn[r] = "adopted" /\ StageFn' = [StageFn EXCEPT ![r] = "delivered"]
      BY <2>1 DEF StageFn, Stage, TypeOK
    <2>3. Lifecycle!Deliver(r)
      BY <1>0, <2>2 DEF Lifecycle!Deliver, StageFn, TargetFn, SyncFn, AckedFn, Target, Sync
    <2>. QED
      BY <2>3 DEF LifecycleStep, Lifecycle!Next
  <1>3. CASE ReceivePush(r) \/ FindConnection(r)
    <2>1. at[r] \in {"receive", "get"} /\ \E s \in {"receive", "get", "append"} : at' = [at EXCEPT ![r] = s]
      BY <1>3 DEF ReceivePush, FindConnection, Answer, GoOn, TypeOK
    <2>2. UNCHANGED StageFn
      BY <2>1 DEF StageFn, Stage, TypeOK
    <2>. QED
      BY <1>0, <2>2 DEF LifecycleStep
  <1>4. CASE UNCHANGED at
    BY <1>0, <1>4, StageUnchanged DEF LifecycleStep
  <1>5. \/ AppendPush(r) /\ at'[r] = "upsert"
        \/ SendPush(r) /\ at'[r] = "sent"
        \/ ReceivePush(r) \/ FindConnection(r) \/ UNCHANGED at
    BY DEF PushStep, AppendPush, AdoptPush, SendPush, AcceptPush, Answer, GoOn, TypeOK
  <1>. QED
    BY <1>1, <1>2, <1>3, <1>4, <1>5

LEMMA Simulate ==
    ASSUME TypeOK, OnlyValidBodies, [Next]_vars
    PROVE  LifecycleStep
  <1>1. ASSUME SyncUntouched, UNCHANGED <<at, reported>> PROVE LifecycleStep
    BY <1>1, FnsUnchanged, StageUnchanged DEF LifecycleStep
  <1>2. ASSUME NEW c \in Conns, AgentStep(c) PROVE LifecycleStep
    <2>1. CASE PersistMessage(c)
      BY <2>1, SimulatePersist
    <2>2. CASE ~PersistMessage(c)
      <3>1. UNCHANGED at
        BY <1>2, <2>2 DEF AgentStep, Connect, Break, OnConnectionClose, OnMessage, LearnPort,
                          LoseMessage, pushVars, reqVars
      <3>2. SyncUntouched /\ UNCHANGED reported
        BY <1>2, <2>2, RestKeepsSync
      <3>. QED
        BY <1>1, <3>1, <3>2
    <2>. QED
      BY <2>1, <2>2
  <1>3. ASSUME NEW r \in Requests, PushStep(r) PROVE LifecycleStep
    BY <1>3, SimulateAdopt, SimulatePush
  <1>4. CASE SweepStep \/ Tick
    BY <1>1, <1>4, SweepKeepsSync, TickKeepsSync
  <1>5. CASE Restart \/ UNCHANGED vars
    BY <1>1, <1>5, RestKeepsSync DEF Restart, vars, pushVars, reqVars
  <1>. QED
    BY <1>2, <1>3, <1>4, <1>5 DEF Next

\* The server records, adopts and delivers each push in that order and once,
\* and moves a sync state only for an adoption or a report, for any number of
\* agents, connections and concurrent pushes.
THEOREM LifecycleImplemented == Spec => ImplementsLifecycle
  <1>1. Init => Lifecycle!Init
    <2>. SUFFICES ASSUME Init PROVE Lifecycle!Init
      OBVIOUS
    <2>1. \A u \in Agents : Acked(u) = {}
      BY DEF Init, Acked
    <2>2. \A u \in Agents : Load(rows, u).lastHash = NoHash /\ Load(rows, u).sync = ""
      BY DEF Init, EmptyMap, Load
    <2>3. \A r \in Requests : Stage(r) = "none"
      BY DEF Init, Stage
    <2>. QED
      BY <2>1, <2>2, <2>3 DEF Lifecycle!Init
  <1>2. TypeOK /\ OnlyValidBodies /\ [Next]_vars => [Lifecycle!Next]_(Lifecycle!lifecycleVars)
    BY Simulate DEF LifecycleStep, StageFn, TargetFn, SyncFn, AckedFn, Target, Sync,
                    Lifecycle!lifecycleVars
  <1>. QED
    BY <1>1, <1>2, TypeCorrect, PTL DEF Spec, ImplementsLifecycle, Lifecycle!Spec
=============================================================================
