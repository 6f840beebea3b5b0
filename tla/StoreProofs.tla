---------------------------- MODULE StoreProofs ----------------------------
(***************************************************************************)
(* The store implements AtomicStore for any goroutines and agents, and     *)
(* what it returns is true. All of it rests on StoreInv: one call at a     *)
(* time has the connection, so that the row it has read is the row in the  *)
(* table until it commits.                                                 *)
(*                                                                         *)
(* Every call returns, and a process told to stop does, if each goroutine  *)
(* that can go on does.                                                    *)
(***************************************************************************)
EXTENDS ServerProcess, MapLemmas, FiniteSetTheorems, TLAPS

OneHolder == \A c, d \in InUse : c = d

StoreInv ==
    /\ \A c \in Clients : at[c] # "idle" => call[c] \in Calls /\ outcome[c] = "none"
    /\ \A c \in Clients :
        at[c] \in {"read", "written"} => call[c].op = "upsert" /\ seen[c] = agents
    /\ OneHolder
    /\ NoneRefusedAsBusy

\* What a step may do to the store.
StoreNext ==
    \/ Open \/ Close \/ Die
    \/ \E c \in Clients, k \in Calls : Enter(c, k)
    \/ \E c \in Clients : Acquire(c) \/ CallStep(c)
    \/ UNCHANGED storeVars

-----------------------------------------------------------------------------
(* The store.                                                              *)

LEMMA CallShape ==
    ASSUME NEW k \in Calls
    PROVE  /\ k.op \in {"upsert", "append", "get", "list"}
           /\ k.op # "list" => k.uid \in Uids
  BY DEF Calls

LEMMA AgentsIsTable ==
    ASSUME StoreTypeOK
    PROVE  agents \in Tables
  BY MapsIntro DEF StoreTypeOK, Tables

LEMMA TableShape ==
    ASSUME NEW m \in Tables
    PROVE  DOMAIN m \subseteq Uids /\ m \in [DOMAIN m -> SUBSET Clients]
  BY MapsElim DEF Tables

LEMMA NoRows == EmptyMap \in Tables
  BY EmptyMapIsMap DEF Tables

\* The pool hands out a connection only if none is in use.
LEMMA PoolIsEmpty ==
    ASSUME Cardinality(InUse) < MaxOpenConns
    PROVE  InUse = {}
  <1>1. IsFiniteSet(InUse) /\ Cardinality(InUse) \in Nat
    BY StoreConstants, FS_Subset, FS_CardinalityType DEF InUse
  <1>2. Cardinality(InUse) = 0
    BY <1>1 DEF MaxOpenConns
  <1>. QED
    BY <1>1, <1>2, FS_EmptySet

\* A call that returns and changes no row.
LEMMA FinishKeeps ==
    ASSUME StoreTypeOK, StoreInv, NEW c \in Clients, NEW result \in {"ok", "failed"},
           NEW rows \in Tables, Finish(c, result, rows),
           agents' = agents, pushes' \in SUBSET Clients
    PROVE  StoreTypeOK' /\ StoreInv'
  <1>1. StoreTypeOK'
    BY DEF Finish, StoreTypeOK, Places, Outcomes
  <1>2. InUse' \subseteq InUse
    BY DEF Finish, StoreTypeOK, InUse
  <1>3. StoreInv'
    BY <1>2 DEF Finish, StoreTypeOK, StoreInv, OneHolder, NoneRefusedAsBusy
  <1>. QED
    BY <1>1, <1>3

LEMMA EnterKeeps ==
    ASSUME StoreTypeOK, StoreInv, NEW c \in Clients, NEW k \in Calls, Enter(c, k)
    PROVE  StoreTypeOK' /\ StoreInv'
  <1>1. StoreTypeOK'
    BY NoRows DEF Enter, StoreTypeOK, Places, Outcomes
  <1>2. InUse' \subseteq InUse
    BY DEF Enter, StoreTypeOK, InUse
  <1>3. StoreInv'
    BY <1>2 DEF Enter, StoreTypeOK, StoreInv, OneHolder, NoneRefusedAsBusy
  <1>. QED
    BY <1>1, <1>3

LEMMA AcquireKeeps ==
    ASSUME StoreTypeOK, StoreInv, NEW c \in Clients, Acquire(c)
    PROVE  StoreTypeOK' /\ StoreInv'
  <1>1. StoreTypeOK'
    BY DEF Acquire, StoreTypeOK, Places
  <1>2. InUse = {}
    BY PoolIsEmpty DEF Acquire
  <1>3. InUse' \subseteq {c}
    BY <1>2 DEF Acquire, StoreTypeOK, InUse
  <1>4. StoreInv'
    BY <1>3 DEF Acquire, StoreTypeOK, StoreInv, OneHolder, NoneRefusedAsBusy
  <1>. QED
    BY <1>1, <1>4

LEMMA ReadRowKeeps ==
    ASSUME StoreTypeOK, StoreInv, NEW c \in Clients, ReadRow(c)
    PROVE  StoreTypeOK' /\ StoreInv'
  <1>1. StoreTypeOK'
    BY AgentsIsTable DEF ReadRow, StoreTypeOK, Places
  <1>2. InUse' \subseteq InUse
    BY DEF ReadRow, StoreTypeOK, InUse
  <1>3. StoreInv'
    BY <1>2 DEF ReadRow, StoreTypeOK, StoreInv, OneHolder, NoneRefusedAsBusy
  <1>. QED
    BY <1>1, <1>3

LEMMA NeverLocked ==
    ASSUME StoreInv, NEW c \in InUse
    PROVE  ~WriteLocked(c)
  BY DEF StoreInv, OneHolder, WriteLocked, InUse

LEMMA NeverBusy ==
    ASSUME StoreInv, NEW c \in Clients, at[c] = "read"
    PROVE  ~Busy(c)
  BY NeverLocked DEF Busy, InUse, StoreInv

LEMMA WriteRowKeeps ==
    ASSUME StoreTypeOK, StoreInv, NEW c \in Clients, WriteRow(c)
    PROVE  /\ StoreTypeOK' /\ StoreInv'
           /\ UNCHANGED <<agents, pushes, call, seen, outcome>>
           /\ at[c] = "read" /\ at' = [at EXCEPT ![c] = "written"]
  <1>1. /\ at[c] = "read" /\ at' = [at EXCEPT ![c] = "written"]
        /\ UNCHANGED <<agents, pushes, db, call, seen, outcome>>
    BY NeverBusy DEF WriteRow, tables
  <1>2. StoreTypeOK'
    BY <1>1 DEF StoreTypeOK, Places
  <1>3. InUse' \subseteq InUse
    BY <1>1 DEF StoreTypeOK, InUse
  <1>4. StoreInv'
    BY <1>1, <1>3 DEF StoreTypeOK, StoreInv, OneHolder, NoneRefusedAsBusy
  <1>. QED
    BY <1>1, <1>2, <1>4

\* What is committed is the row as it is, with the caller folded in.
LEMMA CommitFolds ==
    ASSUME StoreTypeOK, StoreInv, NEW c \in Clients, Commit(c)
    PROVE  LET u == call[c].uid
               row == IF u \in DOMAIN agents THEN agents[u] ELSE {}
           IN  /\ call[c].op = "upsert" /\ u \in Uids
               /\ row \in SUBSET Clients
               /\ agents' = Put(agents, u, row \cup {c})
  <1>1. call[c] \in Calls /\ call[c].op = "upsert" /\ seen[c] = agents
    BY DEF Commit, StoreInv
  <1>2. call[c].uid \in Uids
    BY <1>1, CallShape
  <1>. QED
    BY <1>1, <1>2 DEF Commit, Folded, StoreTypeOK

LEMMA CommitKeeps ==
    ASSUME StoreTypeOK, StoreInv, NEW c \in Clients, Commit(c)
    PROVE  StoreTypeOK' /\ StoreInv'
  <1>. DEFINE u == call[c].uid
              row == IF u \in DOMAIN agents THEN agents[u] ELSE {}
  <1>1. u \in Uids /\ row \cup {c} \in SUBSET Clients /\ agents' = Put(agents, u, row \cup {c})
    BY CommitFolds
  <1>. HIDE DEF u, row
  <1>2. agents' \in Tables
    BY <1>1, AgentsIsTable, PutIsMap DEF Tables
  <1>3. Finish(c, "ok", EmptyMap) /\ pushes' = pushes /\ at[c] = "written"
    BY DEF Commit
  <1>4. StoreTypeOK'
    BY <1>2, <1>3, TableShape, NoRows DEF Finish, StoreTypeOK, Places, Outcomes
  <1>5. \A d \in Clients : at'[d] \notin {"open", "read", "written"}
    BY <1>3 DEF Finish, StoreTypeOK, StoreInv, OneHolder, InUse
  <1>6. StoreInv'
    BY <1>3, <1>5 DEF Finish, StoreTypeOK, StoreInv, OneHolder, InUse, NoneRefusedAsBusy
  <1>. QED
    BY <1>4, <1>6

LEMMA CallStepKeeps ==
    ASSUME StoreTypeOK, StoreInv, NEW c \in Clients, CallStep(c)
    PROVE  StoreTypeOK' /\ StoreInv'
  <1>1. CASE TurnAway(c)
    BY <1>1, FinishKeeps, NoRows DEF TurnAway, tables, StoreTypeOK
  <1>2. CASE ReadRow(c)
    BY <1>2, ReadRowKeeps
  <1>3. CASE WriteRow(c)
    BY <1>3, WriteRowKeeps
  <1>4. CASE Commit(c)
    BY <1>4, CommitKeeps
  <1>5. CASE Append(c)
    BY <1>5, FinishKeeps, NoRows DEF Append, StoreTypeOK
  <1>6. CASE Query(c)
    BY <1>6, FinishKeeps, AgentsIsTable DEF Query, tables, StoreTypeOK
  <1>7. CASE Fail(c)
    BY <1>7, FinishKeeps, NoRows DEF Fail, tables, StoreTypeOK
  <1>. QED
    BY <1>1, <1>2, <1>3, <1>4, <1>5, <1>6, <1>7 DEF CallStep

LEMMA DieKeeps ==
    ASSUME StoreTypeOK, StoreInv, Die
    PROVE  StoreTypeOK' /\ StoreInv'
  <1>1. StoreTypeOK'
    BY NoRows DEF Die, StoreTypeOK, Places, Outcomes
  <1>2. InUse' = {}
    BY DEF Die, InUse
  <1>3. StoreInv'
    BY <1>2 DEF Die, StoreTypeOK, StoreInv, OneHolder, NoneRefusedAsBusy
  <1>. QED
    BY <1>1, <1>3

LEMMA StoreKeeps ==
    ASSUME StoreTypeOK, StoreInv, StoreNext
    PROVE  StoreTypeOK' /\ StoreInv'
  <1>1. CASE Open \/ Close \/ UNCHANGED storeVars
    BY <1>1 DEF Open, Close, storeVars, StoreTypeOK, StoreInv, OneHolder, InUse,
                NoneRefusedAsBusy
  <1>. QED
    BY <1>1, DieKeeps, EnterKeeps, AcquireKeeps, CallStepKeeps DEF StoreNext

-----------------------------------------------------------------------------
(* The process around it.                                                  *)

CallKinds == {"upsert", "append", "get"}

LEMMA NamedCall ==
    ASSUME NEW u \in Uids, NEW op \in CallKinds
    PROVE  [op |-> op, uid |-> u] \in Calls
  BY DEF Calls, CallKinds

LEMMA ListCall == [op |-> "list", uid |-> NoUid] \in Calls
  BY DEF Calls

LEMMA WritersAreClients ==
    /\ \A c \in Writers : c \in Clients /\ UidOf[c] \in Uids /\ c # Sweeper
    /\ Sweeper \in Clients
  BY ProcessConstants DEF Writers

\* What the steps of the process do to the store.
LEMMA ProcessUsesStore ==
    ASSUME TypeOK, [Next]_vars
    PROVE  StoreNext
  <1>1. ASSUME NEW m \in Messages, Receive(m) PROVE StoreNext
    <2>1. m \in Clients /\ UidOf[m] \in Uids
      BY WritersAreClients DEF Writers
    <2>2. [op |-> "upsert", uid |-> UidOf[m]] \in Calls
      BY <2>1, NamedCall DEF CallKinds
    <2>. QED
      BY <1>1, <2>1, <2>2 DEF Receive, StoreNext
  <1>2. ASSUME NEW r \in Requests, PushStep(r) PROVE StoreNext
    <2>1. r \in Clients /\ UidOf[r] \in Uids
      BY WritersAreClients DEF Writers
    <2>2. CASE Answer(r)
      BY <2>2 DEF Answer, StoreNext
    <2>3. ASSUME NEW op \in CallKinds, CallFrom(r, op) PROVE StoreNext
      BY <2>1, <2>3, NamedCall DEF CallFrom, StoreNext
    <2>. QED
      BY <1>2, <2>2, <2>3 DEF PushStep, Arrive, Record, Adopt, CallKinds
  <1>3. CASE SweepStep
    <2>1. CASE SweepList
      BY <2>1, ListCall, WritersAreClients DEF SweepList, StoreNext
    <2>2. CASE SweepPlan \/ SweepEnd
      BY <2>2 DEF SweepPlan, SweepEnd, StoreNext
    <2>3. ASSUME NEW u \in Uids, SweepWrite(u) PROVE StoreNext
      <3>1. [op |-> "upsert", uid |-> u] \in Calls
        BY NamedCall DEF CallKinds
      <3>. QED
        BY <2>3, <3>1, WritersAreClients DEF SweepWrite, StoreNext
    <2>. QED
      BY <1>3, <2>1, <2>2, <2>3 DEF SweepStep
  <1>4. CASE Start \/ CloseStore
    BY <1>4 DEF Start, CloseStore, StoreNext
  <1>5. CASE Exit \/ Kill
    BY <1>5 DEF Exit, Kill, Gone, StoreNext
  <1>6. CASE Signal \/ ListenerFails \/ Expire \/ RestDown \/ OpampDown \/ UNCHANGED vars
    BY <1>6 DEF Signal, ListenerFails, Expire, RestDown, OpampDown, vars, StoreNext
  <1>7. ASSUME NEW c \in Clients, StoreStep(c) PROVE StoreNext
    BY <1>7 DEF StoreStep, StoreNext
  <1>. QED
    BY <1>1, <1>2, <1>3, <1>4, <1>5, <1>6, <1>7 DEF Next, MainStep

LEMMA ProcessTypes ==
    ASSUME TypeOK, StoreInv, [Next]_vars
    PROVE  TypeOK'
  <1>1. StoreTypeOK'
    BY ProcessUsesStore, StoreKeeps DEF TypeOK
  <1>2. ASSUME NEW r \in Requests, PushStep(r) PROVE TypeOK'
    BY <1>1, <1>2 DEF PushStep, Arrive, Record, Adopt, Answer, CallFrom, InFlightSteps,
                      TypeOK, mainVars, sweepVars
  <1>3. CASE SweepPlan
    <2>1. DOMAIN seen[Sweeper] \subseteq Uids
      BY WritersAreClients, TableShape DEF TypeOK, StoreTypeOK
    <2>. QED
      BY <1>1, <1>3, <2>1 DEF SweepPlan, TypeOK, mainVars
  <1>4. CASE SweepList \/ SweepEnd \/ \E u \in Uids : SweepWrite(u)
    BY <1>1, <1>4 DEF SweepList, SweepEnd, SweepWrite, TypeOK, mainVars
  <1>5. CASE Exit \/ Kill
    BY <1>1, <1>5 DEF Exit, Kill, Gone, TypeOK, Phases, InFlightSteps
  <1>6. CASE Start \/ Signal \/ ListenerFails \/ Expire \/ RestDown \/ OpampDown \/ CloseStore
    BY <1>1, <1>6 DEF Start, Signal, ListenerFails, Expire, RestDown, OpampDown, CloseStore,
                      Goto, TypeOK, Phases, sweepVars
  <1>7. CASE UNCHANGED <<mainVars, step, sweepVars>>
    BY <1>1, <1>7 DEF TypeOK, mainVars, sweepVars
  <1>. QED
    BY <1>2, <1>3, <1>4, <1>5, <1>6, <1>7 DEF Next, MainStep, SweepStep, Receive, StoreStep, vars

LEMMA InitIsSound ==
    ASSUME Init
    PROVE  TypeOK /\ StoreInv
  <1>1. DOMAIN agents \subseteq Uids /\ agents \in [DOMAIN agents -> SUBSET Clients]
    BY MapsElim DEF Init, StoreInit
  <1>2. TypeOK
    BY <1>1, NoRows DEF Init, StoreInit, TypeOK, StoreTypeOK, Places, Outcomes, Phases
  <1>3. StoreInv
    BY DEF Init, StoreInit, StoreInv, OneHolder, InUse, NoneRefusedAsBusy
  <1>. QED
    BY <1>2, <1>3

\* Every variable keeps its shape, and, since one call at a time has the
\* connection, no update is refused because another one runs (sqlite.go:68-70).
THEOREM OneAtATime == Spec => [](TypeOK /\ StoreInv /\ NoneRefusedAsBusy)
  <1>1. Init => TypeOK /\ StoreInv
    BY InitIsSound
  <1>2. TypeOK /\ StoreInv /\ [Next]_vars => TypeOK' /\ StoreInv'
    BY ProcessTypes, ProcessUsesStore, StoreKeeps DEF TypeOK
  <1>3. StoreInv => NoneRefusedAsBusy
    BY DEF StoreInv
  <1>. QED
    BY <1>1, <1>2, <1>3, PTL DEF Spec

\* main.go and sqlite.go: whatever is killed, cut off or closed, the process and
\* its store are in a state their types allow.
COROLLARY TypeCorrect == Spec => []TypeOK
  BY OneAtATime, PTL

-----------------------------------------------------------------------------
(* The store implements AtomicStore.                                       *)

Stage(c) == IF at[c] = "idle" THEN "idle" ELSE "asked"
Answered(c) == IF IsRead(call[c]) /\ outcome[c] = "ok" THEN seen[c] ELSE EmptyMap

\* Nothing the caller can see.
Unseen ==
    /\ UNCHANGED <<agents, pushes, call, outcome>>
    /\ \A c \in Clients : Stage(c)' = Stage(c) /\ Answered(c)' = Answered(c)

LEMMA UnseenStutters ==
    ASSUME Unseen
    PROVE  UNCHANGED Promise!vars
  BY DEF Unseen, Stage, Answered, Promise!vars

LEMMA StutterSteps ==
    ASSUME StoreTypeOK, StoreInv, NEW c \in Clients, Acquire(c) \/ ReadRow(c) \/ WriteRow(c)
    PROVE  Unseen
  <1>1. CASE Acquire(c)
    BY <1>1 DEF Acquire, Unseen, Stage, Answered, StoreTypeOK
  <1>2. CASE ReadRow(c)
    <2>1. at[c] = "open" /\ outcome[c] = "none" /\ at' = [at EXCEPT ![c] = "read"]
          /\ seen' = [seen EXCEPT ![c] = agents] /\ UNCHANGED <<agents, pushes, call, outcome>>
      BY <1>2 DEF ReadRow, StoreInv
    <2>. QED
      BY <2>1 DEF Unseen, Stage, Answered, StoreTypeOK
  <1>3. CASE WriteRow(c)
    BY <1>3, WriteRowKeeps DEF Unseen, Stage, Answered, StoreTypeOK
  <1>. QED
    BY <1>1, <1>2, <1>3

LEMMA EnterAsks ==
    ASSUME StoreTypeOK, NEW c \in Clients, NEW k \in Calls, Enter(c, k)
    PROVE  Promise!Ask(c)
  <1>1. k \in Promise!Calls
    BY DEF Calls, Promise!Calls
  <1>2. [d \in Clients |-> Stage(d)]' = [[d \in Clients |-> Stage(d)] EXCEPT ![c] = "asked"]
    BY DEF Enter, Stage, StoreTypeOK
  <1>3. [d \in Clients |-> Answered(d)]'
        = [[d \in Clients |-> Answered(d)] EXCEPT ![c] = EmptyMap]
    BY DEF Enter, Answered, StoreTypeOK
  <1>. QED
    BY <1>1, <1>2, <1>3 DEF Enter, Promise!Ask, Stage, Answered, StoreTypeOK,
                            EmptyMap, Promise!EmptyMap, IsRead

\* A call that returns with an error.
LEMMA FailureRefuses ==
    ASSUME StoreTypeOK, StoreInv, NEW c \in Clients, at[c] # "idle",
           Finish(c, "failed", EmptyMap), UNCHANGED tables
    PROVE  Promise!Refuse(c)
  <1>1. outcome[c] = "none"
    BY DEF StoreInv
  <1>2. [d \in Clients |-> Answered(d)]' = [d \in Clients |-> Answered(d)]
    BY <1>1 DEF Finish, Answered, StoreTypeOK
  <1>. QED
    BY <1>1, <1>2 DEF Finish, Promise!Refuse, Stage, Answered, StoreTypeOK, tables

\* A call that returns with success; a read returns the rows of the table.
LEMMA SuccessTakes ==
    ASSUME StoreTypeOK, StoreInv, NEW c \in Clients, at[c] # "idle",
           NEW rows, Finish(c, "ok", rows),
           agents' = IF call[c].op = "upsert"
                     THEN Put(agents, call[c].uid,
                              (IF call[c].uid \in DOMAIN agents THEN agents[call[c].uid] ELSE {})
                                  \cup {c})
                     ELSE agents,
           pushes' = IF call[c].op = "append" THEN pushes \cup {c} ELSE pushes,
           IsRead(call[c]) => rows = agents
    PROVE  Promise!Take(c)
  <1>1. outcome[c] = "none"
    BY DEF StoreInv
  <1>2. [d \in Clients |-> Answered(d)]'
        = IF IsRead(call[c]) THEN [[d \in Clients |-> Answered(d)] EXCEPT ![c] = agents]
          ELSE [d \in Clients |-> Answered(d)]
    BY <1>1 DEF Finish, Answered, StoreTypeOK
  <1>3. agents' = IF call[c].op = "upsert"
                  THEN Promise!Put(agents, call[c].uid, Promise!Row(call[c].uid) \cup {c})
                  ELSE agents
    BY DEF Put, Promise!Put, Promise!Row
  <1>. QED
    BY <1>1, <1>2, <1>3 DEF Finish, Promise!Take, Stage, Answered, StoreTypeOK,
                            IsRead, Promise!IsRead

LEMMA DieCrashes ==
    ASSUME StoreTypeOK, StoreInv, Die
    PROVE  Promise!Crash
  <1>1. \A c \in Clients : Answered(c)' = Answered(c)
    BY DEF Die, Answered, StoreTypeOK, StoreInv
  <1>2. \A c \in Clients : outcome[c] # "busy" /\ outcome'[c] # "busy"
    BY DEF Die, StoreTypeOK, StoreInv, NoneRefusedAsBusy
  <1>. QED
    BY <1>1, <1>2 DEF Die, Promise!Crash, Stage, Answered, StoreTypeOK

LEMMA CallStepIsAtomic ==
    ASSUME StoreTypeOK, StoreInv, NEW c \in Clients, CallStep(c)
    PROVE  Promise!Take(c) \/ Promise!Refuse(c) \/ Unseen
  <1>1. CASE TurnAway(c)
    BY <1>1, FailureRefuses DEF TurnAway
  <1>2. CASE ReadRow(c) \/ WriteRow(c)
    BY <1>2, StutterSteps
  <1>3. CASE Commit(c)
    <2>1. call[c].op = "upsert" /\ at[c] = "written" /\ Finish(c, "ok", EmptyMap)
          /\ pushes' = pushes
      BY <1>3, CommitFolds DEF Commit
    <2>. QED
      BY <1>3, <2>1, CommitFolds, SuccessTakes DEF IsRead
  <1>4. CASE Append(c)
    BY <1>4, SuccessTakes DEF Append, IsRead
  <1>5. CASE Query(c)
    BY <1>5, SuccessTakes DEF Query, IsRead, tables
  <1>6. CASE Fail(c)
    BY <1>6, FailureRefuses DEF Fail
  <1>. QED
    BY <1>1, <1>2, <1>3, <1>4, <1>5, <1>6 DEF CallStep

LEMMA StoreStepIsAtomic ==
    ASSUME StoreTypeOK, StoreInv, StoreNext
    PROVE  [Promise!Next]_(Promise!vars)
  <1>1. CASE Open \/ Close \/ UNCHANGED storeVars
    BY <1>1, UnseenStutters DEF Open, Close, storeVars, Unseen, Stage, Answered
  <1>2. CASE Die
    BY <1>2, DieCrashes DEF Promise!Next
  <1>3. ASSUME NEW c \in Clients, NEW k \in Calls, Enter(c, k) PROVE Promise!Next
    BY <1>3, EnterAsks DEF Promise!Next
  <1>4. ASSUME NEW c \in Clients, Acquire(c) PROVE UNCHANGED Promise!vars
    BY <1>4, StutterSteps, UnseenStutters
  <1>5. ASSUME NEW c \in Clients, CallStep(c) PROVE [Promise!Next]_(Promise!vars)
    BY <1>5, CallStepIsAtomic, UnseenStutters DEF Promise!Next
  <1>. QED
    BY <1>1, <1>2, <1>3, <1>4, <1>5 DEF StoreNext

\* store.go:76-89 and sqlite.go:81-109: seen from its callers the store is a
\* table with atomic operations, whatever is waiting, failing, closing or dying.
THEOREM StoreIsAtomic == Spec => ImplementsAtomicStore
  <1>1. Init => Promise!Init
    BY DEF Init, StoreInit, Promise!Init, Maps, Promise!Maps, NoCall, Promise!NoCall,
           EmptyMap, Promise!EmptyMap, IsRead
  <1>2. TypeOK /\ StoreInv /\ [Next]_vars => [Promise!Next]_(Promise!vars)
    BY ProcessUsesStore, StoreStepIsAtomic DEF TypeOK
  <1>. QED
    BY <1>1, <1>2, OneAtATime, PTL DEF ImplementsAtomicStore, Promise!Spec, Spec

-----------------------------------------------------------------------------
(* What the store returns is true.                                         *)

\* A writer has had its mutator folded into its row exactly if UpsertAgent
\* returned so.
StoredIffReturned ==
    \A c \in Writers : Stored(c) <=> call[c].op = "upsert" /\ outcome[c] = "ok"

\* Who calls what, and in which order.
CallerInv ==
    /\ \A c \in Writers : call[c] # NoCall => call[c].uid = UidOf[c]
    /\ \A r \in Requests :
        /\ step[r] = "new" => call[r] = NoCall
        /\ InFlight(r) => call[r].op = step[r]
        /\ ~InFlight(r) => at[r] = "idle"
        /\ call[r].op = "append" /\ outcome[r] = "ok" => r \in pushes
        /\ call[r].op = "upsert" => r \in pushes

TruthInv == StoredIffReturned /\ CallerInv

LEMMA EnterKeepsTruth ==
    ASSUME TypeOK, TruthInv, NEW c \in Clients, NEW k \in Calls, Enter(c, k),
           c \in Writers => call[c].op # "upsert"
    PROVE  StoredIffReturned'
  <1>1. \A d \in Writers : Stored(d)' <=> Stored(d)
    BY DEF Enter, Stored
  <1>2. \A d \in Writers : d # c => call'[d] = call[d] /\ outcome'[d] = outcome[d]
    BY WritersAreClients DEF Enter, TypeOK, StoreTypeOK
  <1>3. outcome'[c] = "none"
    BY DEF Enter, TypeOK, StoreTypeOK
  <1>. QED
    BY <1>1, <1>2, <1>3 DEF TruthInv, StoredIffReturned

\* A call that returns without having folded anything in.
LEMMA FinishKeepsTruth ==
    ASSUME TypeOK, StoreInv, TruthInv, NEW c \in Clients, at[c] # "idle",
           NEW result \in {"ok", "failed"}, NEW rows, Finish(c, result, rows),
           agents' = agents, result = "ok" => call[c].op # "upsert"
    PROVE  StoredIffReturned'
  <1>1. \A d \in Writers : Stored(d)' <=> Stored(d)
    BY DEF Stored
  <1>2. \A d \in Writers : call'[d] = call[d] /\ (d # c => outcome'[d] = outcome[d])
    BY WritersAreClients DEF Finish, TypeOK, StoreTypeOK
  <1>3. outcome[c] = "none" /\ outcome'[c] = result
    BY DEF Finish, TypeOK, StoreTypeOK, StoreInv
  <1>. QED
    BY <1>1, <1>2, <1>3 DEF TruthInv, StoredIffReturned

LEMMA CommitKeepsTruth ==
    ASSUME TypeOK, StoreInv, TruthInv, NEW c \in Clients, Commit(c)
    PROVE  StoredIffReturned'
  <1>. DEFINE u == call[c].uid
              row == IF u \in DOMAIN agents THEN agents[u] ELSE {}
  <1>1. /\ call[c].op = "upsert" /\ u \in Uids
        /\ agents' = Put(agents, u, row \cup {c})
    BY CommitFolds DEF TypeOK
  <1>2. c \in Writers => UidOf[c] = u
    BY <1>1 DEF TruthInv, CallerInv, NoCall
  <1>3. \A d \in Writers : Stored(d)' <=> Stored(d) \/ d = c
    <2>1. /\ DOMAIN agents' = DOMAIN agents \cup {u}
          /\ agents'[u] = row \cup {c}
          /\ \A v \in DOMAIN agents : v # u => agents'[v] = agents[v]
      BY <1>1 DEF Put
    <2>. QED
      BY <1>2, <2>1 DEF Stored
  <1>4. \A d \in Writers : call'[d] = call[d] /\ (d # c => outcome'[d] = outcome[d])
    BY WritersAreClients DEF Commit, Finish, TypeOK, StoreTypeOK
  <1>5. outcome'[c] = "ok"
    BY DEF Commit, Finish, TypeOK, StoreTypeOK
  <1>. HIDE DEF u, row
  <1>. QED
    BY <1>1, <1>3, <1>4, <1>5 DEF TruthInv, StoredIffReturned

LEMMA CallStepKeepsTruth ==
    ASSUME TypeOK, StoreInv, TruthInv, NEW c \in Clients, CallStep(c), UNCHANGED step
    PROVE  TruthInv'
  <1>1. /\ call' = call /\ pushes \subseteq pushes'
        /\ call[c].op = "append" /\ outcome'[c] = "ok" => c \in pushes'
        /\ \A d \in Clients : d # c => outcome'[d] = outcome[d] /\ at'[d] = at[d]
        /\ at[c] # "idle"
    <2>1. CASE WriteRow(c)
      BY <2>1, WriteRowKeeps DEF TypeOK, StoreTypeOK, StoreInv
    <2>2. CASE ReadRow(c)
      BY <2>2 DEF ReadRow, TypeOK, StoreTypeOK
    <2>3. CASE Commit(c)
      BY <2>3, CommitFolds DEF Commit, Finish, TypeOK, StoreTypeOK
    <2>4. CASE TurnAway(c) \/ Query(c) \/ Fail(c) \/ Append(c)
      BY <2>4 DEF TurnAway, Query, Fail, Append, Finish, IsRead, tables, TypeOK, StoreTypeOK
    <2>. QED
      BY <2>1, <2>2, <2>3, <2>4 DEF CallStep
  <1>2. CallerInv'
    BY <1>1, WritersAreClients DEF TruthInv, CallerInv, InFlight, Writers
  <1>3. StoredIffReturned'
    <2>1. CASE WriteRow(c)
      BY <2>1, WriteRowKeeps DEF TypeOK, TruthInv, StoredIffReturned, Stored
    <2>2. CASE ReadRow(c)
      BY <2>2 DEF ReadRow, TruthInv, StoredIffReturned, Stored
    <2>3. CASE TurnAway(c)
      BY <2>3, FinishKeepsTruth DEF TurnAway, tables
    <2>4. CASE Fail(c)
      BY <2>4, FinishKeepsTruth DEF Fail, tables
    <2>5. CASE Query(c)
      BY <2>5, FinishKeepsTruth DEF Query, IsRead, tables
    <2>6. CASE Append(c)
      BY <2>6, FinishKeepsTruth DEF Append
    <2>7. CASE Commit(c)
      BY <2>7, CommitKeepsTruth
    <2>. QED
      BY <2>1, <2>2, <2>3, <2>4, <2>5, <2>6, <2>7 DEF CallStep
  <1>. QED
    BY <1>2, <1>3 DEF TruthInv

LEMMA ReceiveKeepsTruth ==
    ASSUME TypeOK, StoreInv, TruthInv, NEW m \in Messages, Receive(m)
    PROVE  TruthInv'
  <1>. DEFINE k == [op |-> "upsert", uid |-> UidOf[m]]
  <1>1. m \in Clients /\ m \in Writers /\ m \notin Requests /\ k \in Calls
        /\ k.op = "upsert" /\ k.uid = UidOf[m]
    BY WritersAreClients, NamedCall, ProcessConstants DEF Writers, CallKinds
  <1>2. call[m] = NoCall /\ Enter(m, k) /\ UNCHANGED <<step, pushes>>
    BY DEF Receive, Enter
  <1>3. StoredIffReturned'
    BY <1>1, <1>2, EnterKeepsTruth DEF NoCall
  <1>4. /\ call' = [call EXCEPT ![m] = k]
        /\ \A r \in Requests : call'[r] = call[r] /\ outcome'[r] = outcome[r] /\ at'[r] = at[r]
    BY <1>1, <1>2, WritersAreClients DEF Enter, TypeOK, StoreTypeOK, Writers
  <1>. HIDE DEF k
  <1>5. CallerInv'
    BY <1>1, <1>2, <1>4, WritersAreClients DEF TruthInv, CallerInv, InFlight, TypeOK, StoreTypeOK
  <1>. QED
    BY <1>3, <1>5 DEF TruthInv

\* The calls of a push: does the agent exist, record, adopt.
LEMMA CallFromKeepsTruth ==
    ASSUME TypeOK, StoreInv, TruthInv, NEW r \in Requests, NEW op \in CallKinds, CallFrom(r, op),
           \/ step[r] = "new" /\ op = "get"
           \/ step[r] = "get" /\ op = "append"
           \/ step[r] = "append" /\ outcome[r] = "ok" /\ op = "upsert"
    PROVE  TruthInv'
  <1>. DEFINE k == [op |-> op, uid |-> UidOf[r]]
  <1>1. r \in Clients /\ r \in Writers /\ k \in Calls /\ k.op = op /\ k.uid = UidOf[r]
    BY WritersAreClients, NamedCall DEF Writers
  <1>2. Enter(r, k) /\ pushes' = pushes /\ step' = [step EXCEPT ![r] = op]
    BY DEF CallFrom, Enter
  <1>3. call[r].op # "upsert" /\ (op = "upsert" => r \in pushes)
    BY DEF TruthInv, CallerInv, InFlight, InFlightSteps, NoCall
  <1>4. StoredIffReturned'
    BY <1>1, <1>2, <1>3, EnterKeepsTruth
  <1>5. /\ call' = [call EXCEPT ![r] = k] /\ outcome'[r] = "none"
        /\ \A d \in Clients : d # r => /\ call'[d] = call[d] /\ outcome'[d] = outcome[d]
                                       /\ at'[d] = at[d]
    BY <1>1, <1>2 DEF Enter, TypeOK, StoreTypeOK
  <1>. HIDE DEF k
  <1>6. \A c \in Writers : call'[c] # NoCall => call'[c].uid = UidOf[c]
    BY <1>1, <1>5, WritersAreClients DEF TruthInv, CallerInv, TypeOK, StoreTypeOK
  <1>7. ASSUME NEW q \in Requests
        PROVE  /\ step'[q] = "new" => call'[q] = NoCall
               /\ InFlight(q)' => call'[q].op = step'[q]
               /\ ~InFlight(q)' => at'[q] = "idle"
               /\ call'[q].op = "append" /\ outcome'[q] = "ok" => q \in pushes'
               /\ call'[q].op = "upsert" => q \in pushes'
    <2>1. q \in Clients
      BY WritersAreClients DEF Writers
    <2>2. CASE q = r
      <3>1. step'[q] = op /\ call'[q] = k /\ outcome'[q] = "none"
        BY <1>1, <1>2, <1>5, <2>2 DEF TypeOK, StoreTypeOK
      <3>2. op # "new" /\ InFlight(q)'
        BY <3>1 DEF CallKinds, InFlight, InFlightSteps
      <3>. QED
        BY <1>1, <1>2, <1>3, <2>2, <3>1, <3>2
    <2>3. CASE q # r
      BY <1>2, <1>5, <2>1, <2>3 DEF TruthInv, CallerInv, InFlight, TypeOK
    <2>. QED
      BY <2>2, <2>3
  <1>. QED
    BY <1>4, <1>6, <1>7 DEF TruthInv, CallerInv

LEMMA PushKeepsTruth ==
    ASSUME TypeOK, StoreInv, TruthInv, NEW r \in Requests, PushStep(r)
    PROVE  TruthInv'
  <1>1. CASE Arrive(r)
    BY <1>1, CallFromKeepsTruth DEF Arrive, CallKinds
  <1>2. CASE Record(r)
    BY <1>2, CallFromKeepsTruth DEF Record, CallKinds
  <1>3. CASE Adopt(r)
    BY <1>3, CallFromKeepsTruth DEF Adopt, CallKinds
  <1>4. CASE Answer(r)
    <2>1. /\ at[r] = "idle" /\ step' = [step EXCEPT ![r] = "done"]
          /\ UNCHANGED <<agents, pushes, at, call, outcome>>
      BY <1>4 DEF Answer, storeVars
    <2>. QED
      BY <2>1 DEF TruthInv, StoredIffReturned, Stored, CallerInv, InFlight, InFlightSteps, TypeOK
  <1>. QED
    BY <1>1, <1>2, <1>3, <1>4 DEF PushStep

LEMMA SweepKeepsTruth ==
    ASSUME TypeOK, StoreInv, TruthInv, SweepStep
    PROVE  TruthInv'
  <1>1. CASE SweepPlan \/ SweepEnd
    BY <1>1 DEF SweepPlan, SweepEnd, storeVars, TruthInv, StoredIffReturned, Stored, CallerInv,
                InFlight
  <1>2. ASSUME NEW k \in Calls, Enter(Sweeper, k), UNCHANGED step PROVE TruthInv'
    <2>1. Sweeper \in Clients /\ Sweeper \notin Writers
      BY WritersAreClients
    <2>2. StoredIffReturned'
      BY <1>2, <2>1, EnterKeepsTruth
    <2>3. /\ pushes' = pushes
          /\ \A c \in Writers : /\ call'[c] = call[c] /\ outcome'[c] = outcome[c]
                                /\ at'[c] = at[c]
      BY <1>2, <2>1, WritersAreClients DEF Enter, TypeOK, StoreTypeOK
    <2>4. CallerInv'
      BY <1>2, <2>3 DEF TruthInv, CallerInv, InFlight, Writers
    <2>. QED
      BY <2>2, <2>4 DEF TruthInv
  <1>3. CASE SweepList
    BY <1>2, <1>3, ListCall DEF SweepList
  <1>4. ASSUME NEW u \in Uids, SweepWrite(u) PROVE TruthInv'
    BY <1>2, <1>4, NamedCall DEF SweepWrite, CallKinds
  <1>. QED
    BY <1>1, <1>3, <1>4 DEF SweepStep

LEMMA GoneKeepsTruth ==
    ASSUME TypeOK, StoreInv, TruthInv, Gone
    PROVE  TruthInv'
  <1>1. /\ UNCHANGED <<agents, pushes, call>>
        /\ \A c \in Clients : /\ at'[c] = "idle"
                              /\ outcome'[c] = "ok" <=> outcome[c] = "ok"
    BY DEF Gone, Die, TypeOK, StoreTypeOK, StoreInv
  <1>2. StoredIffReturned'
    BY <1>1, WritersAreClients DEF TruthInv, StoredIffReturned, Stored
  <1>3. \A r \in Requests : /\ step'[r] = "new" => step[r] = "new"
                            /\ ~InFlight(r)'
    BY DEF Gone, TypeOK, InFlight, InFlightSteps
  <1>4. CallerInv'
    BY <1>1, <1>3, WritersAreClients DEF TruthInv, CallerInv, Writers
  <1>. QED
    BY <1>2, <1>4 DEF TruthInv

LEMMA TruthNext ==
    ASSUME TypeOK, StoreInv, TruthInv, [Next]_vars
    PROVE  TruthInv'
  <1>1. CASE Exit \/ Kill
    BY <1>1, GoneKeepsTruth DEF Exit, Kill
  <1>2. CASE Start \/ CloseStore \/ Signal \/ ListenerFails \/ Expire \/ RestDown \/ OpampDown
             \/ UNCHANGED vars
    BY <1>2 DEF Start, CloseStore, Signal, ListenerFails, Expire, RestDown, OpampDown, Open,
                Close, vars, storeVars, TruthInv, StoredIffReturned, Stored, CallerInv, InFlight
  <1>3. ASSUME NEW c \in Clients, StoreStep(c) PROVE TruthInv'
    <2>1. CASE Acquire(c)
      <3>1. /\ UNCHANGED <<agents, pushes, call, outcome, step>> /\ at[c] = "waiting"
            /\ \A d \in Clients : d # c => at'[d] = at[d]
        BY <1>3, <2>1 DEF StoreStep, Acquire, TypeOK, StoreTypeOK
      <3>. QED
        BY <3>1, WritersAreClients DEF TruthInv, StoredIffReturned, Stored, CallerInv, InFlight,
                                       Writers
    <2>2. CASE CallStep(c)
      BY <1>3, <2>2, CallStepKeepsTruth DEF StoreStep
    <2>. QED
      BY <1>3, <2>1, <2>2 DEF StoreStep
  <1>. QED
    BY <1>1, <1>2, <1>3, ReceiveKeepsTruth, PushKeepsTruth, SweepKeepsTruth
    DEF Next, MainStep

\* sqlite.go:81-109: what UpsertAgent returned is what the file holds, across
\* later updates by others, failures and crashes, and a push that is adopted in
\* a row is in the history.
THEOREM StoreTellsTheTruth == Spec => []ReturnsTellTheTruth
  <1>1. ASSUME Init PROVE TruthInv
    <2>1. \A u \in DOMAIN agents : agents[u] = {}
      BY <1>1, MapsElim DEF Init, StoreInit
    <2>2. \A c \in Clients : call[c] = NoCall /\ at[c] = "idle" /\ NoCall.op = "none"
      BY <1>1 DEF Init, StoreInit, NoCall
    <2>3. \A r \in Requests : step[r] = "new"
      BY <1>1 DEF Init
    <2>. QED
      BY <2>1, <2>2, <2>3, WritersAreClients
      DEF TruthInv, StoredIffReturned, Stored, CallerInv, InFlight, InFlightSteps, Writers
  <1>2. TypeOK /\ StoreInv /\ TruthInv /\ [Next]_vars => TruthInv'
    BY TruthNext
  <1>3. TruthInv => ReturnsTellTheTruth
    BY DEF TruthInv, StoredIffReturned, CallerInv, ReturnsTellTheTruth, Writers
  <1>. QED
    BY <1>1, <1>2, <1>3, OneAtATime, PTL DEF Spec

-----------------------------------------------------------------------------
(* The shutdown.                                                           *)

\* No request is in flight from the moment on at which the REST server is down.
ShutdownInv ==
    phase \in {"stopOpamp", "closing", "exiting"} /\ ~early /\ ~expired
    => \A r \in Requests : ~InFlight(r)

\* main.go:144-153 and 77: after a signal the store is closed only once the REST
\* requests in flight are answered, unless they take longer than the grace
\* period.
THEOREM ShutdownWaits == Spec => []StoreOutlivesRequests
  <1>1. Init => ShutdownInv
    BY DEF Init, ShutdownInv
  <1>2. ASSUME TypeOK, ShutdownInv, [Next]_vars PROVE ShutdownInv'
    <2>1. ASSUME NEW r \in Requests, PushStep(r) PROVE ShutdownInv'
      <3>1. CASE Arrive(r)
        BY <2>1, <3>1 DEF Arrive, Accepting, CallFrom, mainVars, ShutdownInv
      <3>2. CASE Record(r) \/ Adopt(r) \/ Answer(r)
        BY <1>2, <2>1, <3>2 DEF Record, Adopt, Answer, CallFrom, mainVars, ShutdownInv,
                                InFlight, InFlightSteps, TypeOK
      <3>. QED
        BY <2>1, <3>1, <3>2 DEF PushStep
    <2>2. CASE Start \/ Signal \/ ListenerFails \/ Expire \/ RestDown \/ OpampDown \/ CloseStore
      BY <1>2, <2>2 DEF Start, Signal, ListenerFails, Expire, RestDown, OpampDown, CloseStore,
                        Goto, ShutdownInv, InFlight
    <2>3. CASE Exit \/ Kill
      BY <2>3 DEF Exit, Kill, Gone, ShutdownInv
    <2>4. CASE UNCHANGED <<mainVars, step>>
      BY <1>2, <2>4 DEF mainVars, ShutdownInv, InFlight
    <2>. QED
      BY <1>2, <2>1, <2>2, <2>3, <2>4
      DEF Next, MainStep, Receive, SweepStep, SweepList, SweepPlan, SweepWrite, SweepEnd,
          StoreStep, vars
  <1>3. ShutdownInv => StoreOutlivesRequests
    BY DEF ShutdownInv, StoreOutlivesRequests
  <1>. QED
    BY <1>1, <1>2, <1>3, OneAtATime, PTL DEF Spec

-----------------------------------------------------------------------------
(* The end of the process. The provers know nothing of ENABLED: fairness is *)
(* stated here with the guards of the two actions, all else in them being   *)
(* assignments.                                                            *)

MayExpire == phase = "stopRest" /\ ~expired

MainMayStep ==
    \/ phase = "stopRest" /\ (expired \/ \A r \in Requests : ~InFlight(r))
    \/ phase \in {"stopOpamp", "closing", "exiting"}

DeadlineExpires == []<>~MayExpire \/ []<><<Expire>>_vars
MainGoesOn == []<>~MainMayStep \/ []<><<MainStep>>_vars

\* How main's goroutine goes on from the first shutdown to its end.
LEMMA PhaseStep ==
    ASSUME [Next]_vars
    PROVE  /\ phase = "stopRest" => phase' \in {"stopRest", "stopOpamp", "down"}
           /\ phase = "stopRest" /\ expired /\ phase' = "stopRest" => expired'
           /\ phase = "stopOpamp" => phase' \in {"stopOpamp", "closing", "down"}
           /\ phase = "closing" => phase' \in {"closing", "exiting", "down"}
           /\ phase = "exiting" => phase' \in {"exiting", "down"}
  <1>1. CASE Start \/ Signal \/ ListenerFails \/ Expire \/ MainStep \/ Kill
    BY <1>1 DEF Start, Signal, ListenerFails, Expire, MainStep, Kill, RestDown, OpampDown,
                CloseStore, Exit, Gone, Goto
  <1>2. CASE UNCHANGED mainVars
    BY <1>2 DEF mainVars
  <1>. QED
    BY <1>1, <1>2
    DEF Next, Receive, PushStep, Arrive, Record, Adopt, CallFrom, Answer, SweepStep, SweepList,
        SweepPlan, SweepWrite, SweepEnd, StoreStep, vars, mainVars

\* main.go:144-153: a process that was told to stop does, because its deadline
\* passes and main's own steps wait for nothing else.
THEOREM ProcessStops == Spec /\ DeadlineExpires /\ MainGoesOn => StopsInTheEnd
  <1>. DEFINE A == phase = "stopRest"
              B == phase = "stopOpamp"
              C == phase = "closing"
              D == phase = "exiting"
              Z == phase = "down"
  <1>1. [Next]_vars => /\ A => A' \/ B' \/ Z'
                       /\ A /\ expired => (A /\ expired)' \/ B' \/ Z'
                       /\ B => B' \/ C' \/ Z'
                       /\ C => C' \/ D' \/ Z'
                       /\ D => D' \/ Z'
    BY PhaseStep
  <1>2. A /\ <<Expire>>_vars => (A /\ expired)'
    BY DEF Expire
  <1>3. <<MainStep>>_vars => /\ A => B'
                             /\ B => C'
                             /\ C => D'
                             /\ D => Z'
    BY DEF MainStep, RestDown, OpampDown, CloseStore, Exit, Gone, Goto
  <1>4. /\ A /\ ~expired => MayExpire
        /\ (A /\ expired) \/ B \/ C \/ D => MainMayStep
    BY DEF MayExpire, MainMayStep
  <1>5. (A <=> phase = "stopRest") /\ (Z <=> phase = "down")
    OBVIOUS
  <1>. HIDE DEF A, B, C, D, Z
  <1>. QED
    BY <1>1, <1>2, <1>3, <1>4, <1>5, PTL
    DEF Spec, DeadlineExpires, MainGoesOn, StopsInTheEnd

-----------------------------------------------------------------------------
(* The end of a call, from the fairness of the pool and of the calls, again *)
(* with the guards of the actions. The [] is there for the provers: what    *)
(* holds of fairness once holds always.                                    *)

StepOf(c) == CallStep(c) /\ UNCHANGED <<mainVars, step, sweepVars>>
Entry(c) == Acquire(c) /\ UNCHANGED <<mainVars, step, sweepVars>>

MayStep(c) == at[c] \in {"open", "read", "written"} \/ (at[c] = "waiting" /\ db = "closed")
MayEnter(c) == at[c] = "waiting" /\ db = "open" /\ InUse = {}

StepsGoOn(c) == []<>~MayStep(c) \/ []<><<StepOf(c)>>_vars
EntryIsFair(c) == <>[]~MayEnter(c) \/ []<><<Entry(c)>>_vars
Served == \A c \in Clients : StepsGoOn(c) /\ EntryIsFair(c)
CallsGoOn == []Served

\* How far a call comes in one step; whoever gives the connection back leaves
\* the pool with none in use.
LEMMA CallMoves ==
    ASSUME TypeOK, StoreInv, [Next]_vars, NEW c \in Clients
    PROVE  /\ at[c] = "waiting" => at'[c] \in {"waiting", "open", "idle"}
           /\ at[c] = "open" => at'[c] \in {"open", "read", "idle"}
           /\ at[c] = "read" => at'[c] \in {"read", "written", "idle"}
           /\ at[c] = "written" => at'[c] \in {"written", "idle"}
           /\ c \in InUse /\ at'[c] = "idle" => InUse' = {}
           /\ at[c] = "waiting" /\ db = "closed" => at'[c] # "open"
  <1>0. /\ at \in [Clients -> Places]
        /\ c \in InUse => \A d \in Clients : d # c => d \notin InUse
    BY DEF TypeOK, StoreTypeOK, StoreInv, OneHolder, InUse
  <1>1. CASE Open \/ Close \/ UNCHANGED storeVars
    BY <1>0, <1>1 DEF Open, Close, storeVars, InUse
  <1>2. CASE Die
    BY <1>0, <1>2 DEF Die, InUse
  <1>3. ASSUME NEW d \in Clients, NEW k \in Calls, Enter(d, k)
        PROVE  at[c] # "idle" => at'[c] = at[c]
    BY <1>0, <1>3 DEF Enter
  <1>4. ASSUME NEW d \in Clients, Acquire(d)
        PROVE  \/ at'[c] = at[c]
               \/ at[c] = "waiting" /\ at'[c] = "open" /\ db = "open"
    BY <1>0, <1>4 DEF Acquire
  <1>5. ASSUME NEW d \in Clients, CallStep(d)
        PROVE  \/ d # c /\ at'[c] = at[c]
               \/ /\ at' = [at EXCEPT ![c] = at'[c]]
                  /\ at[c] = "waiting" => at'[c] = "idle"
                  /\ at[c] = "open" => at'[c] \in {"read", "idle"}
                  /\ at[c] = "read" => at'[c] \in {"written", "idle"}
                  /\ at[c] = "written" => at'[c] = "idle"
    BY <1>0, <1>5
    DEF CallStep, TurnAway, ReadRow, WriteRow, Commit, Append, Query, Fail, Finish
  <1>6. ASSUME c \in InUse, at' = [at EXCEPT ![c] = "idle"] PROVE InUse' = {}
    BY <1>0, <1>6 DEF InUse
  <1>7. (c \in InUse <=> at[c] \in {"open", "read", "written"}) /\ ("idle" # "waiting")
    BY DEF InUse
  <1>. QED
    BY <1>1, <1>2, <1>3, <1>4, <1>5, <1>6, <1>7, ProcessUsesStore DEF StoreNext

LEMMA StepMoves ==
    ASSUME TypeOK, StoreInv, NEW c \in Clients, StepOf(c)
    PROVE  /\ at[c] = "waiting" => at'[c] = "idle"
           /\ at[c] = "open" => at'[c] \in {"read", "idle"}
           /\ at[c] = "read" => at'[c] \in {"written", "idle"}
           /\ at[c] = "written" => at'[c] = "idle"
  BY DEF StepOf, TypeOK, StoreTypeOK, CallStep, TurnAway, ReadRow, WriteRow, Commit, Append,
         Query, Fail, Finish

\* A process that is down calls no store, so none opens under a call.
DownIsQuiet ==
    phase = "down" =>
        /\ \A c \in Clients : at[c] = "idle"
        /\ \A r \in Requests : ~InFlight(r)
        /\ sweep = "rest"

LEMMA QuietStep ==
    ASSUME TypeOK, DownIsQuiet, [Next]_vars
    PROVE  DownIsQuiet'
  <1>1. CASE Exit \/ Kill
    BY <1>1 DEF Exit, Kill, Gone, Die, DownIsQuiet, TypeOK, InFlight, InFlightSteps
  <1>2. CASE Start \/ Signal \/ ListenerFails \/ Expire \/ RestDown \/ OpampDown \/ CloseStore
    BY <1>2 DEF Start, Signal, ListenerFails, Expire, RestDown, OpampDown, CloseStore, Goto,
                DownIsQuiet
  <1>3. CASE UNCHANGED <<mainVars, at, step, sweep>>
    BY <1>3 DEF mainVars, DownIsQuiet, InFlight
  <1>4. ASSUME NEW r \in Requests, PushStep(r) PROVE DownIsQuiet'
    BY <1>4 DEF PushStep, Arrive, Accepting, Alive, Record, Adopt, CallFrom, Answer, DownIsQuiet,
                InFlight, InFlightSteps, mainVars
  <1>5. CASE SweepStep \/ \E m \in Messages : Receive(m)
    BY <1>5 DEF SweepStep, SweepList, SweepPlan, SweepWrite, SweepEnd, Receive, Alive, DownIsQuiet,
                mainVars
  <1>6. ASSUME NEW c \in Clients, StoreStep(c) PROVE DownIsQuiet'
    BY <1>6 DEF StoreStep, Acquire, CallStep, TurnAway, ReadRow, WriteRow, Commit, Append, Query,
                Fail, DownIsQuiet, mainVars
  <1>. QED
    BY <1>1, <1>2, <1>3, <1>4, <1>5, <1>6 DEF Next, MainStep, vars, mainVars, sweepVars, storeVars

LEMMA Quiet == Spec => []DownIsQuiet
  <1>1. Init => DownIsQuiet
    BY DEF Init, StoreInit, DownIsQuiet, InFlight, InFlightSteps
  <1>2. TypeOK /\ DownIsQuiet /\ [Next]_vars => DownIsQuiet'
    BY QuietStep
  <1>. QED
    BY <1>1, <1>2, TypeCorrect, PTL DEF Spec

\* A call that waits for a store that is closed is turned away.
LEMMA ClosedStaysClosed ==
    ASSUME TypeOK, StoreInv, DownIsQuiet, [Next]_vars, NEW c \in Clients,
           at[c] = "waiting", db = "closed"
    PROVE  db' = "closed"
  <1>1. ~Start
    BY DEF Start, Goto, DownIsQuiet
  <1>2. CASE UNCHANGED db
    BY <1>2
  <1>3. CASE Exit \/ Kill \/ CloseStore
    BY <1>3 DEF Exit, Kill, Gone, Die, CloseStore, Close
  <1>4. CASE \/ Signal \/ ListenerFails \/ Expire \/ RestDown \/ OpampDown
             \/ (\E m \in Messages : Receive(m)) \/ (\E r \in Requests : PushStep(r)) \/ SweepStep
    BY <1>4 DEF Signal, ListenerFails, Expire, RestDown, OpampDown, Receive, PushStep, Arrive,
                Record, Adopt, CallFrom, Answer, SweepStep, SweepList, SweepPlan, SweepWrite,
                SweepEnd, Enter, storeVars
  <1>5. ASSUME NEW d \in Clients, StoreStep(d) PROVE UNCHANGED db
    BY <1>5 DEF StoreStep, Acquire, CallStep, TurnAway, ReadRow, WriteRow, Commit, Append, Query,
                Fail, Finish
  <1>. QED
    BY <1>1, <1>2, <1>3, <1>4, <1>5 DEF Next, MainStep, vars, storeVars

\* The connection is given back: whoever has it goes on to the end of its call.
LEMMA HolderGoesOn ==
    ASSUME NEW c \in Clients
    PROVE  [](TypeOK /\ StoreInv) /\ [][Next]_vars /\ StepsGoOn(c) => [](c \in InUse => <>(InUse = {}))
  <1>. DEFINE O == at[c] = "open"
              R == at[c] = "read"
              W == at[c] = "written"
              Free == InUse = {}
  <1>1. TypeOK /\ StoreInv /\ [Next]_vars =>
            /\ O => O' \/ R' \/ Free'
            /\ R => R' \/ W' \/ Free'
            /\ W => W' \/ Free'
    BY CallMoves DEF InUse
  <1>2. TypeOK /\ StoreInv /\ <<StepOf(c)>>_vars =>
            /\ O => R' \/ ~(O' \/ R' \/ W')
            /\ R => W' \/ ~(O' \/ R' \/ W')
            /\ W => ~(O' \/ R' \/ W')
    BY StepMoves
  <1>3. O \/ R \/ W => MayStep(c)
    BY DEF MayStep
  <1>4. c \in InUse => O \/ R \/ W
    BY DEF InUse
  <1>5. Free <=> InUse = {}
    OBVIOUS
  <1>. HIDE DEF Free, O, R, W
  <1>. QED
    BY <1>1, <1>2, <1>3, <1>4, <1>5, PTL DEF StepsGoOn

LEMMA PoolGetsFree ==
    [](TypeOK /\ StoreInv) /\ [][Next]_vars /\ CallsGoOn => []<>(InUse = {})
  <1>. DEFINE Run == [](TypeOK /\ StoreInv) /\ [][Next]_vars
              Free == InUse = {}
              Held == \E c \in Clients : c \in InUse
  <1>1. Run /\ Served => (Held => <>Free)
    <2>1. ASSUME NEW c \in Clients PROVE Run /\ StepsGoOn(c) => (c \in InUse => <>Free)
      BY HolderGoesOn, PTL
    <2>. HIDE DEF Run, Free
    <2>. QED
      BY <2>1 DEF Served
  <1>2. Free \/ Held
    BY DEF InUse
  <1>3. (Free <=> InUse = {}) /\ (Run <=> [](TypeOK /\ StoreInv) /\ [][Next]_vars)
    OBVIOUS
  <1>. HIDE DEF Free, Held
  <1>. QED
    BY <1>1, <1>2, <1>3, PTL DEF CallsGoOn

LEMMA CallReturns ==
    ASSUME NEW c \in Clients
    PROVE  /\ [](TypeOK /\ StoreInv) /\ []DownIsQuiet /\ [][Next]_vars
           /\ StepsGoOn(c) /\ EntryIsFair(c) /\ []<>(InUse = {})
           => (at[c] # "idle" ~> at[c] = "idle")
  <1>. DEFINE Q == at[c] = "waiting"
              O == at[c] = "open"
              R == at[c] = "read"
              W == at[c] = "written"
              I == at[c] = "idle"
              Up == db = "open"
              Closed == db = "closed"
              Free == InUse = {}
  <1>1. TypeOK => (I \/ Q \/ O \/ R \/ W) /\ (Up \/ Closed)
    BY DEF TypeOK, StoreTypeOK, Places
  <1>2. TypeOK /\ StoreInv /\ DownIsQuiet /\ [Next]_vars =>
            /\ Q => Q' \/ O' \/ I'
            /\ Q /\ Closed => Closed'
            /\ O => O' \/ R' \/ I'
            /\ R => R' \/ W' \/ I'
            /\ W => W' \/ I'
    BY CallMoves, ClosedStaysClosed
  <1>3. TypeOK /\ StoreInv /\ <<StepOf(c)>>_vars =>
            /\ Q => I'
            /\ O => (R' /\ ~O') \/ I'
            /\ R => (W' /\ ~R') \/ I'
            /\ W => I'
    BY StepMoves
  <1>4. TypeOK /\ <<Entry(c)>>_vars => O'
    BY DEF Entry, Acquire, TypeOK, StoreTypeOK
  <1>5. /\ O \/ R \/ W \/ (Q /\ Closed) => MayStep(c)
        /\ Q /\ Up /\ Free => MayEnter(c)
    BY DEF MayStep, MayEnter
  <1>6. (O => ~Q /\ ~R /\ ~W) /\ (R => ~Q /\ ~W) /\ (W => ~Q)
    OBVIOUS
  <1>7. (Free <=> InUse = {}) /\ (I <=> at[c] = "idle")
    OBVIOUS
  <1>. HIDE DEF Q, O, R, W, I, Up, Closed, Free
  <1>. QED
    BY <1>1, <1>2, <1>3, <1>4, <1>5, <1>6, <1>7, PTL DEF StepsGoOn, EntryIsFair

\* sqlite.go:40 and every operation of the store: whoever calls it gets an
\* answer or an error, as long as a call that has the connection goes on, the
\* pool overlooks nobody for ever, and a closed store turns callers away.
THEOREM EveryCallReturns == Spec /\ CallsGoOn => CallsReturn
  <1>. DEFINE Run == [](TypeOK /\ StoreInv) /\ []DownIsQuiet /\ [][Next]_vars
              Turn == []<>(InUse = {})
              Ends(c) == at[c] # "idle" ~> at[c] = "idle"
  <1>1. Run /\ Served /\ Turn => CallsReturn
    <2>1. ASSUME NEW c \in Clients
          PROVE  Run /\ StepsGoOn(c) /\ EntryIsFair(c) /\ Turn => Ends(c)
      BY CallReturns
    <2>. HIDE DEF Run, Turn
    <2>. QED
      BY <2>1 DEF Served, CallsReturn
  <1>2. Spec /\ CallsGoOn => Run /\ Turn /\ Served
    BY TypeCorrect, OneAtATime, Quiet, PoolGetsFree, PTL DEF Spec, CallsGoOn
  <1>. QED
    BY <1>1, <1>2
=============================================================================
