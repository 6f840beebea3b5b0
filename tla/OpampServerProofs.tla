------------------------- MODULE OpampServerProofs -------------------------
(***************************************************************************)
(* The server's safety, for every value of the constants: which connection *)
(* an agent is reached on, what is written to it, and what the pushes      *)
(* answer. That it implements ConfigLifecycle is in LifecycleProofs.       *)
(*                                                                         *)
(* LastHeardIsRouted alone is not inductive: that closing one connection   *)
(* leaves an agent's entry alone needs EntriesAgree, and that opening one  *)
(* does not make an unrouted agent "heard" needs HeardIsNotNew.            *)
(*                                                                         *)
(* Last comes SilenceIsNoticed: an agent that falls silent ends up         *)
(* disconnected, from the progress of clocks and passes.                   *)
(***************************************************************************)
EXTENDS OpampServer, MapLemmas

-----------------------------------------------------------------------------
(* The registry's operators.                                               *)

LEMMA EntryOfType ==
    ASSUME NEW m \in Registries, NEW u
    PROVE  EntryOf(m, u) \in ConnEntry
  <1>1. CASE u \in DOMAIN m
    BY <1>1, MapsElim DEF EntryOf, Registries
  <1>2. CASE u \notin DOMAIN m
    BY <1>2 DEF EntryOf, ConnEntry, IPs, NoPort
  <1>. QED
    BY <1>1, <1>2

LEMMA SetType ==
    ASSUME NEW m \in Registries, NEW u \in Agents, NEW c \in Conns
    PROVE  Set(m, u, c) \in Registries
  <1>1. [conn |-> c, remoteIP |-> PeerIP[c], metricsPort |-> EntryOf(m, u).metricsPort] \in ConnEntry
    BY EntryOfType DEF ConnEntry, IPs
  <1>. QED
    BY <1>1, PutIsMap DEF Set, Registries

LEMMA SetMetricsPortType ==
    ASSUME NEW m \in Registries, NEW u \in Agents, NEW p \in Ports \cup {NoPort}
    PROVE  SetMetricsPort(m, u, p) \in Registries
  <1>1. [EntryOf(m, u) EXCEPT !.metricsPort = p] \in ConnEntry
    BY EntryOfType DEF ConnEntry
  <1>. QED
    BY <1>1, PutIsMap DEF SetMetricsPort, Registries

LEMMA RemoveByConnType ==
    ASSUME NEW m \in Registries, NEW c, NEW n \in RemoveByConn(m, c)
    PROVE  n \in Registries
  <1>1. CASE n = m
    BY <1>1
  <1>2. CASE \E u \in HeldBy(m, c) : n = Delete(m, u)
    <2>1. PICK u \in HeldBy(m, c) : n = Delete(m, u)
      BY <1>2
    <2>2. Delete(m, u) \in Maps(Agents, ConnEntry)
      BY DeleteIsMap DEF Registries
    <2>. QED
      BY <2>1, <2>2 DEF Registries
  <1>. QED
    BY <1>1, <1>2 DEF RemoveByConn

-----------------------------------------------------------------------------
(* The rows of the agents table.                                           *)

LEMMA LoadType ==
    ASSUME NEW t \in Tables, NEW u
    PROVE  Load(t, u) \in AgentRow
  <1>1. CASE u \in DOMAIN t
    BY <1>1, MapsElim DEF Load, Tables
  <1>2. CASE u \notin DOMAIN t
    BY <1>2, ThresholdsValid DEF Load, AgentRow, Ages, SyncStates
  <1>. QED
    BY <1>1, <1>2

LEMMA SaveType ==
    ASSUME NEW t \in Tables, NEW u \in Agents, NEW row \in AgentRow
    PROVE  Save(t, u, row) \in Tables
  BY PutIsMap DEF Save, Tables

LEMMA AppliedType ==
    ASSUME NEW row \in AgentRow, NEW m \in AgentToServer
    PROVE  Applied(row, m) \in AgentRow
  <1>1. m.status # Omitted => SyncAfter(row, m.status) \in SyncStates
    <2>1. ASSUME m.status # Omitted PROVE m.status \in StatusReport
      BY <2>1 DEF AgentToServer
    <2>2. ASSUME m.status \in StatusReport PROVE SyncAfter(row, m.status) \in SyncStates
      BY <2>2 DEF SyncAfter, StatusReport, SyncStates, AgentRow
    <2>. QED
      BY <2>1, <2>2
  <1>2. 0 \in Ages
    BY ThresholdsValid DEF Ages
  <1>. QED
    BY <1>1, <1>2 DEF Applied, AgentRow, AgentToServer, ConnectionStates

LEMMA PushedType ==
    ASSUME NEW row \in AgentRow, NEW k \in Configs
    PROVE  Pushed(row, k) \in AgentRow
  BY DEF Pushed, AgentRow, SyncStates

LEMMA WantedStateType == ASSUME NEW age PROVE WantedState(age) \in ConnectionStates
  BY DEF WantedState, ConnectionStates

LEMMA OlderType == ASSUME NEW age \in Ages PROVE Older(age) \in Ages
  BY ThresholdsValid DEF Older, Ages

-----------------------------------------------------------------------------
(* Type correctness.                                                       *)

LEMMA TypeInit == Init => TypeOK
  <1>1. EmptyMap \in Registries /\ EmptyMap \in Tables
        /\ EmptyMap \in Maps(Agents, Sighting) /\ EmptyMap \in Maps(Agents, ConnectionStates)
    BY EmptyMapIsMap DEF Registries, Tables
  <1>. QED
    BY <1>1, ServerConstants DEF Init, TypeOK, HandlerStates, Idle

\* The uid, description and status of the message a handler works on.
LEMMA MessageOfHandler ==
    ASSUME TypeOK, NEW c \in Conns, handler[c].pc \in {"port", "upsert"}
    PROVE  handler[c].msg \in Messages /\ handler[c].msg \in AgentToServer
           /\ handler[c].msg.uid \in Agents
  <1>1. handler[c] \in [pc : {"port", "upsert"}, msg : Messages]
    BY DEF TypeOK, HandlerStates, Idle
  <1>. QED
    BY <1>1, ServerConstants DEF AgentToServer

\* setMetricsPort is called with the port of a description.
LEMMA LearnedPortType ==
    ASSUME TypeOK, NEW c \in Conns, LearnPort(c)
    PROVE  handler[c].msg.uid \in Agents /\ handler[c].msg.desc \in Ports \cup {NoPort}
  <1>1. handler[c] \in [pc : {"port"}, msg : {m \in Messages : m.desc # Omitted}]
    BY DEF LearnPort, TypeOK, HandlerStates, Idle
  <1>2. handler[c].msg.desc # Omitted /\ handler[c].msg \in AgentToServer
    BY <1>1, ServerConstants
  <1>. QED
    BY <1>2 DEF AgentToServer

LEMMA TypeAgentStep ==
    ASSUME TypeOK, NEW c \in Conns, AgentStep(c)
    PROVE  TypeOK'
  <1>1. CASE Connect(c)
    BY <1>1 DEF TypeOK, Connect, pushVars, reqVars, sweepVars
  <1>2. CASE Break(c)
    BY <1>2 DEF TypeOK, Break, pushVars, reqVars, sweepVars
  <1>3. CASE OnConnectionClose(c)
    BY <1>3, RemoveByConnType DEF TypeOK, OnConnectionClose, pushVars, reqVars, sweepVars
  <1>4. ASSUME NEW m \in Messages, OnMessage(c, m) PROVE TypeOK'
    <2>1. m.uid \in Agents
      BY ServerConstants DEF AgentToServer
    <2>2. byUID' \in Registries
      BY <1>4, <2>1, SetType DEF OnMessage, TypeOK
    <2>3. handler' \in [Conns -> HandlerStates]
      BY <1>4 DEF OnMessage, AfterSet, TypeOK, HandlerStates
    <2>4. heard' \in [Agents -> Conns \cup {NoConn}] /\ spoke' \in [Conns -> SUBSET Agents]
      BY <1>4, <2>1 DEF OnMessage, TypeOK
    <2>. QED
      BY <1>4, <2>2, <2>3, <2>4 DEF OnMessage, TypeOK, pushVars, reqVars, sweepVars
  <1>5. CASE LearnPort(c)
    <2>1. handler[c].msg.uid \in Agents /\ handler[c].msg \in Messages
      BY <1>5, MessageOfHandler DEF LearnPort
    <2>2. handler[c].msg.desc \in Ports \cup {NoPort}
      BY <1>5, LearnedPortType
    <2>3. byUID' \in Registries
      BY <1>5, <2>1, <2>2, SetMetricsPortType DEF LearnPort, TypeOK
    <2>4. handler' \in [Conns -> HandlerStates]
      BY <1>5, <2>1 DEF LearnPort, TypeOK, HandlerStates
    <2>. QED
      BY <1>5, <2>3, <2>4 DEF LearnPort, TypeOK, pushVars, reqVars, sweepVars
  <1>6. CASE PersistMessage(c)
    <2>1. handler[c].msg.uid \in Agents /\ handler[c].msg \in AgentToServer
      BY <1>6, MessageOfHandler DEF PersistMessage
    <2>2. rows' \in Tables
      BY <1>6, <2>1, LoadType, AppliedType, SaveType DEF PersistMessage, TypeOK
    <2>3. handler' \in [Conns -> HandlerStates]
      BY <1>6 DEF PersistMessage, TypeOK, HandlerStates
    <2>4. {handler[c].msg.status} \ {Omitted} \subseteq StatusReport
      BY <2>1 DEF AgentToServer
    <2>5. reported' \in [Agents -> SUBSET StatusReport]
      BY <1>6, <2>1, <2>4 DEF PersistMessage, TypeOK
    <2>. QED
      BY <1>6, <2>2, <2>3, <2>5 DEF PersistMessage, TypeOK, pushVars, reqVars, sweepVars
  <1>7. CASE LoseMessage(c)
    BY <1>7 DEF LoseMessage, TypeOK, HandlerStates, pushVars, reqVars, sweepVars
  <1>. QED
    BY <1>1, <1>2, <1>3, <1>4, <1>5, <1>6, <1>7 DEF AgentStep

LEMMA TypePushStep ==
    ASSUME TypeOK, OnlyValidBodies, NEW r \in Requests, PushStep(r)
    PROVE  TypeOK' /\ OnlyValidBodies'
  <1>0. at[r] # "receive" => PushUid[r] \in Agents /\ PushBody[r] \in Configs
    BY ServerConstants DEF OnlyValidBodies
  <1>1. CASE ReceivePush(r)
    BY <1>1 DEF ReceivePush, agentVars, Answer, GoOn, TypeOK, OnlyValidBodies, sweepVars
  <1>2. CASE FindConnection(r)
    <2>1. PushUid[r] \in DOMAIN byUID => byUID[PushUid[r]].conn \in Conns \cup {NoConn}
      <3>1. byUID \in Maps(Agents, ConnEntry)
        BY DEF TypeOK, Registries
      <3>2. PushUid[r] \in DOMAIN byUID => byUID[PushUid[r]] \in ConnEntry
        BY <3>1, MapsElim
      <3>. QED
        BY <3>2 DEF ConnEntry
    <2>. QED
      BY <1>2, <2>1 DEF FindConnection, agentVars, Answer, GoOn, TypeOK, OnlyValidBodies, sweepVars
  <1>3. CASE AppendPush(r)
    <2>. DEFINE Pushes == [id : Requests, uid : Agents, config : Configs, succeeded : BOOLEAN]
                push == [id |-> r, uid |-> PushUid[r], config |-> PushBody[r],
                         succeeded |-> FALSE]
    <2>1. pushes' \subseteq Pushes
      <3>1. push \in Pushes
        BY <1>0, <1>3 DEF AppendPush
      <3>2. pushes \subseteq Pushes
        BY DEF TypeOK
      <3>3. pushes' = pushes \cup {push} \/ pushes' = pushes
        BY <1>3 DEF AppendPush
      <3>. QED
        <4>. HIDE DEF push, Pushes
        <4>. QED  BY <3>1, <3>2, <3>3
    <2>. QED
      BY <1>3, <2>1 DEF AppendPush, agentVars, Answer, GoOn, TypeOK, OnlyValidBodies, sweepVars
  <1>4. CASE AdoptPush(r)
    <2>1. rows' \in Tables
      BY <1>0, <1>4, LoadType, PushedType, SaveType DEF AdoptPush, TypeOK
    <2>. QED
      BY <1>4, <2>1 DEF AdoptPush, agentVars, Answer, GoOn, TypeOK, OnlyValidBodies, sweepVars
  <1>5. CASE SendPush(r)
    <2>1. outbox' \in [Conns -> Seq(Requests)]
      <3>1. CASE via[r] \in Conns /\ outbox' = [outbox EXCEPT ![via[r]] = Append(outbox[via[r]], r)]
        <4>1. Append(outbox[via[r]], r) \in Seq(Requests)
          BY <3>1 DEF TypeOK
        <4>. QED
          BY <3>1, <4>1 DEF TypeOK
      <3>2. CASE UNCHANGED outbox
        BY <3>2 DEF TypeOK
      <3>. QED
        BY <1>5, <3>1, <3>2 DEF SendPush
    <2>2. /\ at' \in [Requests -> {"receive", "get", "append", "upsert", "send", "sent"}]
          /\ answer' \in [Requests -> {"none", "notFound", "badRequest", "conflict", "error",
                                       "panic", "accepted", "lost"}]
          /\ via' = via
          /\ OnlyValidBodies'
      BY <1>5 DEF SendPush, Answer, GoOn, TypeOK, OnlyValidBodies, sweepVars
    <2>. QED
      BY <1>5, <2>1, <2>2 DEF SendPush, agentVars, TypeOK, sweepVars
  <1>6. CASE AcceptPush(r)
    BY <1>6 DEF AcceptPush, agentVars, Answer, TypeOK, OnlyValidBodies, sweepVars
  <1>. QED
    BY <1>1, <1>2, <1>3, <1>4, <1>5, <1>6 DEF PushStep

LEMMA TypeSweepStep ==
    ASSUME TypeOK, SweepStep
    PROVE  TypeOK'
  <1>0. listed \in Maps(Agents, Sighting) /\ wanted \in Maps(Agents, ConnectionStates)
    BY DEF TypeOK
  <1>1. CASE SweepList
    <2>1. DOMAIN rows \in SUBSET Agents /\ \A u \in DOMAIN rows : rows[u] \in AgentRow
      BY MapsElim DEF TypeOK, Tables
    <2>2. \A u \in DOMAIN rows : [state |-> rows[u].state, age |-> rows[u].age] \in Sighting
      BY <2>1 DEF AgentRow, Sighting
    <2>3. listed' \in Maps(Agents, Sighting)
      BY <1>1, <2>1, <2>2, MapsIntro DEF SweepList
    <2>. QED
      BY <1>1, <2>3 DEF SweepList, TypeOK, agentVars, pushVars, reqVars, sweepVars
  <1>2. CASE SweepClock
    <2>1. DOMAIN listed \in SUBSET Agents
      BY <1>0, MapsElim
    <2>2. wanted' \in Maps(Agents, ConnectionStates)
      BY <1>2, <2>1, WantedStateType, MapsIntro DEF SweepClock, Outdated
    <2>3. listed' \in Maps(Agents, Sighting)
      BY <1>2, EmptyMapIsMap DEF SweepClock
    <2>. QED
      BY <1>2, <2>2, <2>3 DEF SweepClock, TypeOK, agentVars, pushVars, reqVars, sweepVars
  <1>3. CASE SweepEnd
    BY <1>3 DEF SweepEnd, TypeOK, agentVars, pushVars, reqVars, sweepVars
  <1>4. \A u \in Agents : Delete(wanted, u) \in Maps(Agents, ConnectionStates)
    BY <1>0, DeleteIsMap
  <1>5. ASSUME NEW u \in Agents, SweepUpdate(u) PROVE TypeOK'
    <2>1. wanted[u] \in ConnectionStates
      BY <1>0, <1>5, MapsElim DEF SweepUpdate
    <2>2. [Load(rows, u) EXCEPT !.state = wanted[u]] \in AgentRow
      <3>1. Load(rows, u) \in AgentRow
        BY LoadType DEF TypeOK
      <3>. QED
        BY <2>1, <3>1 DEF AgentRow
    <2>3. rows' \in Tables
      BY <1>5, <2>2, SaveType DEF SweepUpdate, TypeOK
    <2>. QED
      BY <1>4, <1>5, <2>3 DEF SweepUpdate, TypeOK, agentVars, pushVars, reqVars, sweepVars
  <1>6. ASSUME NEW u \in Agents, SweepSkip(u) PROVE TypeOK'
    BY <1>4, <1>6 DEF SweepSkip, TypeOK, agentVars, pushVars, reqVars, sweepVars
  <1>. QED
    BY <1>1, <1>2, <1>3, <1>5, <1>6 DEF SweepStep

LEMMA TypeTick ==
    ASSUME TypeOK, Tick
    PROVE  TypeOK'
  <1>1. rows' \in Tables
    <2>1. DOMAIN rows \in SUBSET Agents /\ \A u \in DOMAIN rows : rows[u] \in AgentRow
      BY MapsElim DEF TypeOK, Tables
    <2>2. \A u \in DOMAIN rows : [rows[u] EXCEPT !.age = Older(rows[u].age)] \in AgentRow
      BY <2>1, OlderType DEF AgentRow
    <2>. QED
      BY <2>1, <2>2, MapsIntro DEF Tick, Tables
  <1>2. listed' \in Maps(Agents, Sighting)
    <2>1. DOMAIN listed \in SUBSET Agents /\ \A u \in DOMAIN listed : listed[u] \in Sighting
      BY MapsElim DEF TypeOK
    <2>2. \A u \in DOMAIN listed : [listed[u] EXCEPT !.age = Older(listed[u].age)] \in Sighting
      BY <2>1, OlderType DEF Sighting
    <2>. QED
      BY <2>1, <2>2, MapsIntro DEF Tick
  <1>. QED
    BY <1>1, <1>2 DEF Tick, TypeOK, agentVars, pushVars, reqVars, sweepVars

LEMMA TypeRestart ==
    ASSUME TypeOK, OnlyValidBodies, Restart
    PROVE  TypeOK' /\ OnlyValidBodies'
  <1>1. EmptyMap \in Registries /\ EmptyMap \in Maps(Agents, Sighting)
        /\ EmptyMap \in Maps(Agents, ConnectionStates)
    BY EmptyMapIsMap DEF Registries
  <1>2. restarts' \in 0 .. MaxRestarts
    BY ServerConstants DEF Restart, TypeOK
  <1>. QED
    BY <1>1, <1>2 DEF Restart, TypeOK, OnlyValidBodies, HandlerStates

LEMMA TypeNext ==
    ASSUME TypeOK, OnlyValidBodies, [Next]_vars
    PROVE  TypeOK' /\ OnlyValidBodies'
  <1>. USE DEF OnlyValidBodies
  <1>1. ASSUME NEW c \in Conns, AgentStep(c) PROVE TypeOK' /\ OnlyValidBodies'
    <2>1. UNCHANGED at
      BY <1>1 DEF AgentStep, Connect, Break, OnConnectionClose, OnMessage, LearnPort,
                  PersistMessage, LoseMessage, pushVars, reqVars, sweepVars
    <2>. QED
      BY <1>1, <2>1, TypeAgentStep
  <1>2. ASSUME NEW r \in Requests, PushStep(r) PROVE TypeOK' /\ OnlyValidBodies'
    BY <1>2, TypePushStep
  <1>3. CASE SweepStep
    <2>1. UNCHANGED at
      BY <1>3 DEF SweepStep, SweepList, SweepClock, SweepEnd, SweepUpdate, SweepSkip,
                  pushVars, reqVars, sweepVars
    <2>. QED
      BY <1>3, <2>1, TypeSweepStep
  <1>4. CASE Tick
    BY <1>4, TypeTick DEF Tick, pushVars, reqVars, sweepVars
  <1>5. CASE Restart
    BY <1>5, TypeRestart
  <1>6. CASE UNCHANGED vars
    BY <1>6 DEF vars, agentVars, pushVars, reqVars, sweepVars, TypeOK
  <1>. QED
    BY <1>1, <1>2, <1>3, <1>4, <1>5, <1>6 DEF Next

\* Every variable keeps the shape the code's types give it, and no push with a
\* body that handlePushConfig must refuse gets past its checks.
THEOREM TypeCorrect == Spec => [](TypeOK /\ OnlyValidBodies)
  <1>1. Init => TypeOK /\ OnlyValidBodies
    BY TypeInit DEF Init, OnlyValidBodies
  <1>2. TypeOK /\ OnlyValidBodies /\ [Next]_vars => TypeOK' /\ OnlyValidBodies'
    BY TypeNext
  <1>. QED
    BY <1>1, <1>2, PTL DEF Spec
-----------------------------------------------------------------------------
(* The registry.                                                           *)

\* No agent was ever heard on a connection that is not open yet.
HeardIsNotNew == \A u \in Agents : heard[u] # NoConn => conn[heard[u]] # "new"

\* An entry is either half-filled, without connection and address, or it holds
\* the connection its agent was last heard on, with that connection's address.
EntriesAgree ==
    \A u \in DOMAIN byUID :
        /\ byUID[u].conn = NoConn => byUID[u].remoteIP = NoIP
        /\ byUID[u].conn # NoConn => /\ byUID[u].remoteIP = PeerIP[byUID[u].conn]
                                     /\ heard[u] = byUID[u].conn
                                     /\ u \in spoke[byUID[u].conn]

\* A connection carries only messages of its own agents.
SpokenFor == \A c \in Conns : spoke[c] \subseteq Speaks[c]

RegistryInv == HeardIsNotNew /\ EntriesAgree /\ SpokenFor /\ LastHeardIsRouted

-----------------------------------------------------------------------------
(* What the registry's operations do to the entries.                       *)

LEMMA SetApply ==
    ASSUME NEW m \in Registries, NEW u \in Agents, NEW c \in Conns
    PROVE  /\ DOMAIN Set(m, u, c) = DOMAIN m \cup {u}
           /\ Set(m, u, c)[u].conn = c /\ Set(m, u, c)[u].remoteIP = PeerIP[c]
           /\ \A v \in DOMAIN m : v # u => Set(m, u, c)[v] = m[v]
  <1>. DEFINE e == [conn |-> c, remoteIP |-> PeerIP[c], metricsPort |-> EntryOf(m, u).metricsPort]
  <1>1. e.conn = c /\ e.remoteIP = PeerIP[c]
    OBVIOUS
  <1>2. Set(m, u, c) = Put(m, u, e)
    BY DEF Set
  <1>. HIDE DEF e
  <1>3. /\ DOMAIN Put(m, u, e) = DOMAIN m \cup {u}
        /\ Put(m, u, e)[u] = e
        /\ \A v \in DOMAIN m : v # u => Put(m, u, e)[v] = m[v]
    BY DEF Put
  <1>. QED
    BY <1>1, <1>2, <1>3

LEMMA SetMetricsPortApply ==
    ASSUME NEW m \in Registries, NEW u \in Agents, NEW p \in Ports \cup {NoPort}
    PROVE  /\ DOMAIN SetMetricsPort(m, u, p) = DOMAIN m \cup {u}
           /\ SetMetricsPort(m, u, p)[u].conn = EntryOf(m, u).conn
           /\ SetMetricsPort(m, u, p)[u].remoteIP = EntryOf(m, u).remoteIP
           /\ \A v \in DOMAIN m : v # u => SetMetricsPort(m, u, p)[v] = m[v]
  <1>. DEFINE e == [EntryOf(m, u) EXCEPT !.metricsPort = p]
  <1>1. e.conn = EntryOf(m, u).conn /\ e.remoteIP = EntryOf(m, u).remoteIP
    BY EntryOfType DEF ConnEntry
  <1>2. SetMetricsPort(m, u, p) = Put(m, u, e)
    BY DEF SetMetricsPort
  <1>. HIDE DEF e
  <1>3. /\ DOMAIN Put(m, u, e) = DOMAIN m \cup {u}
        /\ Put(m, u, e)[u] = e
        /\ \A v \in DOMAIN m : v # u => Put(m, u, e)[v] = m[v]
    BY DEF Put
  <1>. QED
    BY <1>1, <1>2, <1>3

\* removeByConn takes out at most one entry, and only one that holds c; when
\* there is one, one goes.
LEMMA RemoveByConnApply ==
    ASSUME NEW m \in Registries, NEW c, NEW n \in RemoveByConn(m, c)
    PROVE  /\ DOMAIN n \subseteq DOMAIN m
           /\ \A v \in DOMAIN n : n[v] = m[v]
           /\ \A v \in DOMAIN m : m[v].conn # c => v \in DOMAIN n
           /\ HeldBy(m, c) # {} => \E v \in HeldBy(m, c) : v \notin DOMAIN n
  <1>1. CASE HeldBy(m, c) = {}
    BY <1>1 DEF RemoveByConn
  <1>2. CASE HeldBy(m, c) # {}
    <2>1. PICK u \in HeldBy(m, c) : n = Delete(m, u)
      BY <1>2 DEF RemoveByConn
    <2>2. m \in Maps(Agents, ConnEntry)
      BY DEF Registries
    <2>3. /\ DOMAIN Delete(m, u) = DOMAIN m \ {u}
          /\ \A v \in DOMAIN m \ {u} : Delete(m, u)[v] = m[v]
      BY DEF Delete
    <2>. QED
      BY <2>1, <2>3 DEF HeldBy
  <1>. QED
    BY <1>1, <1>2

-----------------------------------------------------------------------------
(* RegistryInv is inductive.                                               *)

LEMMA RegistryInit == Init => RegistryInv
  BY EmptyMapIsMap DEF Init, RegistryInv, HeardIsNotNew, EntriesAgree, SpokenFor, LastHeardIsRouted

LEMMA RegistryOnMessage ==
    ASSUME TypeOK, RegistryInv, NEW c \in Conns, NEW m \in Messages, OnMessage(c, m)
    PROVE  RegistryInv'
  <1>. USE DEF RegistryInv
  <1>0. m.uid \in Agents /\ c # NoConn /\ conn[c] # "new"
    BY ServerConstants, RegistryConstants DEF AgentToServer, OnMessage, Alive
  <1>1. /\ DOMAIN byUID' = DOMAIN byUID \cup {m.uid}
        /\ byUID'[m.uid].conn = c /\ byUID'[m.uid].remoteIP = PeerIP[c]
        /\ \A v \in DOMAIN byUID : v # m.uid => byUID'[v] = byUID[v]
    <2>. DEFINE u == m.uid
    <2>1. byUID' = Set(byUID, u, c) /\ byUID \in Registries /\ u \in Agents
      BY <1>0 DEF OnMessage, TypeOK
    <2>. HIDE DEF u
    <2>2. /\ DOMAIN byUID' = DOMAIN byUID \cup {u}
          /\ byUID'[u].conn = c /\ byUID'[u].remoteIP = PeerIP[c]
          /\ \A v \in DOMAIN byUID : v # u => byUID'[v] = byUID[v]
      BY <2>1, SetApply
    <2>. QED
      BY <2>2 DEF u
  <1>2. /\ heard'[m.uid] = c
        /\ \A v \in Agents : v # m.uid => heard'[v] = heard[v]
        /\ UNCHANGED conn
    BY <1>0 DEF OnMessage, TypeOK
  <1>3. /\ m.uid \in spoke'[c]
        /\ \A d \in Conns : spoke[d] \subseteq spoke'[d] /\ spoke'[d] \subseteq spoke[d] \cup {m.uid}
        /\ \A d \in Conns : d # c => spoke'[d] = spoke[d]
        /\ m.uid \in Speaks[c]
    BY DEF OnMessage, TypeOK
  <1>4. DOMAIN byUID \subseteq Agents
        /\ \A v \in DOMAIN byUID : byUID[v].conn \in Conns \cup {NoConn}
    <2>1. byUID \in Maps(Agents, ConnEntry)
      BY DEF TypeOK, Registries
    <2>2. DOMAIN byUID \subseteq Agents /\ \A v \in DOMAIN byUID : byUID[v] \in ConnEntry
      BY <2>1, MapsElim
    <2>. QED
      BY <2>2 DEF ConnEntry
  <1>5. HeardIsNotNew'
    BY <1>0, <1>2 DEF HeardIsNotNew
  <1>6. EntriesAgree'
    BY <1>0, <1>1, <1>2, <1>3, <1>4 DEF EntriesAgree
  <1>7. SpokenFor'
    BY <1>3 DEF SpokenFor
  <1>8. LastHeardIsRouted'
    BY <1>1, <1>2 DEF LastHeardIsRouted, Alive
  <1>. QED
    BY <1>5, <1>6, <1>7, <1>8

LEMMA RegistryLearnPort ==
    ASSUME TypeOK, RegistryInv, NEW c \in Conns, LearnPort(c)
    PROVE  RegistryInv'
  <1>. DEFINE u == handler[c].msg.uid
  <1>0. UNCHANGED <<conn, heard, spoke>>
    BY DEF LearnPort
  <1>1. /\ DOMAIN byUID' = DOMAIN byUID \cup {u}
        /\ byUID'[u].conn = EntryOf(byUID, u).conn
        /\ byUID'[u].remoteIP = EntryOf(byUID, u).remoteIP
        /\ \A v \in DOMAIN byUID : v # u => byUID'[v] = byUID[v]
    <2>. DEFINE p == handler[c].msg.desc
    <2>1. byUID' = SetMetricsPort(byUID, u, p) /\ byUID \in Registries
      BY DEF LearnPort, TypeOK
    <2>2. u \in Agents /\ p \in Ports \cup {NoPort}
      BY LearnedPortType
    <2>. HIDE DEF u, p
    <2>. QED
      BY <2>1, <2>2, SetMetricsPortApply
  <1>2. /\ u \in DOMAIN byUID => EntryOf(byUID, u) = byUID[u]
        /\ u \notin DOMAIN byUID => /\ EntryOf(byUID, u).conn = NoConn
                                    /\ EntryOf(byUID, u).remoteIP = NoIP
    BY DEF EntryOf
  <1>. HIDE DEF u
  <1>3. \A v \in DOMAIN byUID : /\ byUID'[v].conn = byUID[v].conn
                                /\ byUID'[v].remoteIP = byUID[v].remoteIP
    BY <1>1, <1>2
  <1>4. EntriesAgree'
    BY <1>0, <1>1, <1>2, <1>3 DEF RegistryInv, EntriesAgree
  <1>5. LastHeardIsRouted'
    BY <1>0, <1>1, <1>3 DEF RegistryInv, LastHeardIsRouted, Alive
  <1>. QED
    BY <1>0, <1>4, <1>5 DEF RegistryInv, HeardIsNotNew, SpokenFor

LEMMA RegistryClose ==
    ASSUME TypeOK, RegistryInv, NEW c \in Conns, OnConnectionClose(c)
    PROVE  RegistryInv'
  <1>0. UNCHANGED <<heard, spoke>>
    BY DEF OnConnectionClose
  <1>1. \A d \in Conns : d # c => conn'[d] = conn[d]
    BY DEF OnConnectionClose, TypeOK
  <1>2. conn'[c] = "closed"
    BY DEF OnConnectionClose, TypeOK
  <1>3. /\ DOMAIN byUID' \subseteq DOMAIN byUID
        /\ \A v \in DOMAIN byUID' : byUID'[v] = byUID[v]
        /\ \A v \in DOMAIN byUID : byUID[v].conn # c => v \in DOMAIN byUID'
    BY RemoveByConnApply DEF OnConnectionClose, TypeOK
  <1>4. HeardIsNotNew'
    BY <1>0, <1>1, <1>2 DEF RegistryInv, HeardIsNotNew, TypeOK
  <1>5. EntriesAgree'
    BY <1>0, <1>3 DEF RegistryInv, EntriesAgree
  <1>6. LastHeardIsRouted'
    <2>. SUFFICES ASSUME NEW u \in Agents, heard[u] # NoConn, Alive(heard[u])'
                  PROVE  u \in DOMAIN byUID' /\ byUID'[u].conn = heard[u]
      BY <1>0 DEF LastHeardIsRouted
    <2>1. heard[u] \in Conns /\ heard[u] # c /\ Alive(heard[u])
      BY <1>0, <1>1, <1>2 DEF Alive, TypeOK
    <2>2. u \in DOMAIN byUID /\ byUID[u].conn = heard[u]
      BY <2>1 DEF RegistryInv, LastHeardIsRouted
    <2>. QED
      BY <1>3, <2>1, <2>2
  <1>. QED
    BY <1>0, <1>4, <1>5, <1>6 DEF RegistryInv, SpokenFor

LEMMA RegistryNext ==
    ASSUME TypeOK, RegistryInv, [Next]_vars
    PROVE  RegistryInv'
  <1>. USE DEF RegistryInv, HeardIsNotNew, EntriesAgree, SpokenFor, LastHeardIsRouted, Alive
  <1>1. ASSUME NEW c \in Conns, AgentStep(c) PROVE RegistryInv'
    <2>1. CASE Connect(c)
      BY <2>1 DEF Connect, TypeOK
    <2>2. CASE Break(c)
      BY <2>2 DEF Break, TypeOK
    <2>3. CASE PersistMessage(c) \/ LoseMessage(c)
      BY <2>3 DEF PersistMessage, LoseMessage
    <2>4. CASE (\E m \in Messages : OnMessage(c, m)) \/ LearnPort(c) \/ OnConnectionClose(c)
      <3>. HIDE DEF RegistryInv
      <3>. QED
        BY <2>4, RegistryOnMessage, RegistryLearnPort, RegistryClose
    <2>. QED
      BY <1>1, <2>1, <2>2, <2>3, <2>4 DEF AgentStep
  <1>2. ASSUME NEW r \in Requests, PushStep(r) PROVE RegistryInv'
    BY <1>2 DEF PushStep, ReceivePush, FindConnection, AppendPush, AdoptPush, SendPush,
                AcceptPush, agentVars
  <1>3. CASE SweepStep
    BY <1>3 DEF SweepStep, SweepList, SweepClock, SweepEnd, SweepUpdate, SweepSkip, agentVars
  <1>4. CASE Tick
    BY <1>4 DEF Tick, agentVars
  <1>5. CASE Restart
    BY <1>5, EmptyMapIsMap DEF Restart
  <1>6. CASE UNCHANGED vars
    BY <1>6 DEF vars, agentVars
  <1>. QED
    BY <1>1, <1>2, <1>3, <1>4, <1>5, <1>6 DEF Next

THEOREM RegistryInvariant == Spec => [](TypeOK /\ RegistryInv)
  <1>1. TypeOK /\ RegistryInv /\ [Next]_vars => RegistryInv'
    BY RegistryNext
  <1>. QED
    BY <1>1, RegistryInit, TypeCorrect, PTL DEF Spec

\* registry.go:87-92: whatever order messages and close events of an agent's
\* connections arrive in, the agent stays routed to the one it was last heard
\* on until that one closes, for any number of agents sharing a connection.
THEOREM LastHeardRouted == Spec => []LastHeardIsRouted
  BY RegistryInvariant, PTL DEF RegistryInv
-----------------------------------------------------------------------------
(* Collectors that speak for themselves only, one instance uid to a        *)
(* connection, leave no entry behind: the entry removeByConn finds first   *)
(* is then the only one. DeadSocket.cfg shows that the premise is needed.  *)

OneAgentPerConn == \A c \in Conns : \A u, v \in Speaks[c] : u = v

LEMMA NoClosedNext ==
    ASSUME OneAgentPerConn, TypeOK, RegistryInv, NoClosedConnRegistered, [Next]_vars
    PROVE  NoClosedConnRegistered'
  <1>. USE DEF NoClosedConnRegistered
  <1>0. byUID \in Registries /\ conn \in [Conns -> {"new", "open", "broken", "closed"}]
    BY DEF TypeOK
  <1>1. ASSUME NEW c \in Conns, AgentStep(c) PROVE NoClosedConnRegistered'
    <2>1. CASE Connect(c)
      BY <1>0, <2>1 DEF Connect, Alive
    <2>2. CASE Break(c)
      BY <1>0, <2>2 DEF Break, Alive
    <2>3. CASE PersistMessage(c) \/ LoseMessage(c)
      BY <2>3 DEF PersistMessage, LoseMessage, Alive
    <2>4. ASSUME NEW m \in Messages, OnMessage(c, m) PROVE NoClosedConnRegistered'
      <3>. DEFINE u == m.uid
      <3>1. u \in Agents /\ byUID' = Set(byUID, u, c) /\ Alive(c) /\ UNCHANGED conn
        BY <2>4, ServerConstants DEF AgentToServer, OnMessage
      <3>. HIDE DEF u
      <3>2. /\ DOMAIN byUID' = DOMAIN byUID \cup {u}
            /\ byUID'[u].conn = c
            /\ \A v \in DOMAIN byUID : v # u => byUID'[v] = byUID[v]
        BY <1>0, <3>1, SetApply
      <3>. QED
        BY <3>1, <3>2 DEF Alive
    <2>5. CASE LearnPort(c)
      <3>. DEFINE u == handler[c].msg.uid
                  p == handler[c].msg.desc
      <3>1. /\ u \in Agents /\ p \in Ports \cup {NoPort}
            /\ byUID' = SetMetricsPort(byUID, u, p) /\ UNCHANGED conn
        BY <2>5, LearnedPortType DEF LearnPort
      <3>. HIDE DEF u, p
      <3>2. /\ DOMAIN byUID' = DOMAIN byUID \cup {u}
            /\ byUID'[u].conn = EntryOf(byUID, u).conn
            /\ \A v \in DOMAIN byUID : v # u => byUID'[v] = byUID[v]
        BY <1>0, <3>1, SetMetricsPortApply
      <3>. QED
        BY <3>1, <3>2 DEF Alive, EntryOf
    <2>6. CASE OnConnectionClose(c)
      <3>1. byUID' \in RemoveByConn(byUID, c)
        BY <2>6 DEF OnConnectionClose
      <3>2. /\ DOMAIN byUID' \subseteq DOMAIN byUID
            /\ \A v \in DOMAIN byUID' : byUID'[v] = byUID[v]
            /\ HeldBy(byUID, c) # {} => \E v \in HeldBy(byUID, c) : v \notin DOMAIN byUID'
        BY <1>0, <3>1, RemoveByConnApply
      <3>3. \A u, v \in HeldBy(byUID, c) : u = v
        <4>1. \A u \in HeldBy(byUID, c) : u \in spoke[c]
          BY RegistryConstants DEF HeldBy, RegistryInv, EntriesAgree
        <4>. QED
          BY <4>1 DEF OneAgentPerConn, RegistryInv, SpokenFor
      <3>4. \A v \in DOMAIN byUID' : byUID'[v].conn # c
        BY <3>2, <3>3 DEF HeldBy
      <3>. QED
        BY <1>0, <2>6, <3>2, <3>4 DEF OnConnectionClose, Alive
    <2>. QED
      BY <1>1, <2>1, <2>2, <2>3, <2>4, <2>5, <2>6 DEF AgentStep
  <1>2. ASSUME NEW r \in Requests, PushStep(r) PROVE NoClosedConnRegistered'
    BY <1>2 DEF PushStep, ReceivePush, FindConnection, AppendPush, AdoptPush, SendPush,
                AcceptPush, agentVars, Alive
  <1>3. CASE SweepStep
    BY <1>3 DEF SweepStep, SweepList, SweepClock, SweepEnd, SweepUpdate, SweepSkip, agentVars, Alive
  <1>4. CASE Tick
    BY <1>4 DEF Tick, agentVars, Alive
  <1>5. CASE Restart
    BY <1>5, EmptyMapIsMap DEF Restart
  <1>6. CASE UNCHANGED vars
    BY <1>6 DEF vars, agentVars, Alive
  <1>. QED
    BY <1>1, <1>2, <1>3, <1>4, <1>5, <1>6 DEF Next

\* A target's address comes from the entry's connection, which is live.
LEMMA TargetsFollow ==
    ASSUME TypeOK, RegistryInv, NoClosedConnRegistered
    PROVE  ScrapeTargetsAreLivePeers
  <1>. SUFFICES ASSUME NEW u \in DOMAIN byUID, byUID[u].remoteIP # NoIP
                PROVE  \E c \in Conns : /\ Alive(c) /\ heard[u] = c
                                        /\ byUID[u].remoteIP = PeerIP[c]
    BY DEF ScrapeTargetsAreLivePeers, Snapshot
  <1>1. byUID[u].conn \in Conns
    <2>1. byUID \in Maps(Agents, ConnEntry)
      BY DEF TypeOK, Registries
    <2>2. byUID[u] \in ConnEntry
      BY <2>1, MapsElim
    <2>3. byUID[u].conn # NoConn
      BY DEF RegistryInv, EntriesAgree
    <2>. QED
      BY <2>2, <2>3 DEF ConnEntry
  <1>. QED
    BY <1>1, RegistryConstants DEF RegistryInv, EntriesAgree, NoClosedConnRegistered

\* handler.go:151-152 and registry.go:14-20: with one agent to a connection, a
\* connection whose close callback has run is in no entry, and every scrape
\* target is the peer of the live connection its agent was last heard on.
THEOREM EntriesAreLive ==
    ASSUME OneAgentPerConn
    PROVE  Spec => [](NoClosedConnRegistered /\ ScrapeTargetsAreLivePeers)
  <1>1. Init => NoClosedConnRegistered
    BY EmptyMapIsMap DEF Init, NoClosedConnRegistered
  <1>2. TypeOK /\ RegistryInv /\ NoClosedConnRegistered /\ [Next]_vars => NoClosedConnRegistered'
    BY NoClosedNext
  <1>3. TypeOK /\ RegistryInv /\ NoClosedConnRegistered => ScrapeTargetsAreLivePeers
    BY TargetsFollow
  <1>. QED
    BY <1>1, <1>2, <1>3, RegistryInvariant, PTL DEF Spec

-----------------------------------------------------------------------------
(* What is written to a connection.                                        *)

\* Send adds one push at the end of one outbox.
LEMMA SentOnGrows ==
    ASSUME TypeOK, NEW r \in Requests, NEW c \in Conns,
           outbox' = [outbox EXCEPT ![c] = Append(outbox[c], r)]
    PROVE  /\ SentOn(r)' = SentOn(r) \cup {c}
           /\ \A q \in Requests : q # r => SentOn(q)' = SentOn(q)
           /\ \A d \in Conns : \A i \in 1 .. Len(outbox'[d]) :
                  \/ i \in 1 .. Len(outbox[d]) /\ outbox'[d][i] = outbox[d][i]
                  \/ d = c /\ outbox'[d][i] = r
  <1>0. outbox[c] \in Seq(Requests) /\ outbox \in [Conns -> Seq(Requests)]
    BY DEF TypeOK
  <1>1. /\ outbox'[c] = Append(outbox[c], r)
        /\ \A d \in Conns : d # c => outbox'[d] = outbox[d]
    BY <1>0
  <1>2. /\ Len(Append(outbox[c], r)) = Len(outbox[c]) + 1
        /\ \A i \in 1 .. Len(outbox[c]) : Append(outbox[c], r)[i] = outbox[c][i]
        /\ Append(outbox[c], r)[Len(outbox[c]) + 1] = r
        /\ Len(outbox[c]) \in Nat
    BY <1>0
  <1>3. \A i \in 1 .. Len(outbox'[c]) :
            \/ i \in 1 .. Len(outbox[c]) /\ outbox'[c][i] = outbox[c][i]
            \/ i = Len(outbox[c]) + 1 /\ outbox'[c][i] = r
    BY <1>1, <1>2
  <1>4. /\ \A i \in 1 .. Len(outbox[c]) : i \in 1 .. Len(outbox'[c]) /\ outbox'[c][i] = outbox[c][i]
        /\ Len(outbox[c]) + 1 \in 1 .. Len(outbox'[c])
        /\ outbox'[c][Len(outbox[c]) + 1] = r
    BY <1>1, <1>2
  <1>5. SentOn(r)' = SentOn(r) \cup {c}
    BY <1>1, <1>3, <1>4 DEF SentOn
  <1>6. \A q \in Requests : q # r => SentOn(q)' = SentOn(q)
    BY <1>1, <1>3, <1>4 DEF SentOn
  <1>. QED
    BY <1>1, <1>3, <1>5, <1>6

\* The connection a push found was taught by its own agent.
ViaIsOwn == \A r \in Requests : via[r] # NoConn => PushUid[r] \in spoke[via[r]]

AddressInv == ViaIsOwn /\ ConfigReachesOnlyItsAgent

LEMMA AddressNext ==
    ASSUME TypeOK, RegistryInv, AddressInv, [Next]_vars
    PROVE  AddressInv'
  <1>. USE DEF AddressInv, ViaIsOwn, ConfigReachesOnlyItsAgent
  <1>0. \A r \in Requests : via[r] \in Conns \cup {NoConn}
    BY DEF TypeOK
  <1>1. ASSUME NEW c \in Conns, AgentStep(c) PROVE AddressInv'
    <2>1. UNCHANGED <<via, outbox>>
      BY <1>1 DEF AgentStep, Connect, Break, OnConnectionClose, OnMessage, LearnPort,
                  PersistMessage, LoseMessage, pushVars, reqVars
    <2>2. \A d \in Conns : spoke[d] \subseteq spoke'[d]
      BY <1>1 DEF AgentStep, Connect, Break, OnConnectionClose, OnMessage, LearnPort,
                  PersistMessage, LoseMessage, TypeOK
    <2>. QED
      BY <1>0, <2>1, <2>2
  <1>2. ASSUME NEW r \in Requests, PushStep(r) PROVE AddressInv'
    <2>0. UNCHANGED spoke
      BY <1>2 DEF PushStep, ReceivePush, FindConnection, AppendPush, AdoptPush, SendPush,
                  AcceptPush, agentVars
    <2>1. CASE FindConnection(r)
      <3>1. byUID[PushUid[r]].conn # NoConn /\ PushUid[r] \in DOMAIN byUID
                => PushUid[r] \in spoke[byUID[PushUid[r]].conn]
        BY DEF RegistryInv, EntriesAgree
      <3>. QED
        BY <2>0, <2>1, <3>1 DEF FindConnection, Answer, TypeOK
    <2>2. CASE SendPush(r)
      <3>1. CASE /\ via[r] \in Conns
                 /\ outbox' = [outbox EXCEPT ![via[r]] = Append(outbox[via[r]], r)]
                 /\ UNCHANGED via
        <4>1. PushUid[r] \in spoke[via[r]]
          BY <3>1, RegistryConstants
        <4>2. \A d \in Conns : \A i \in 1 .. Len(outbox'[d]) :
                  \/ i \in 1 .. Len(outbox[d]) /\ outbox'[d][i] = outbox[d][i]
                  \/ d = via[r] /\ outbox'[d][i] = r
          BY <3>1, SentOnGrows
        <4>. QED
          BY <2>0, <3>1, <4>1, <4>2
      <3>2. CASE UNCHANGED <<outbox, via>>
        BY <2>0, <3>2
      <3>. QED
        BY <2>2, <3>1, <3>2 DEF SendPush, Answer
    <2>3. CASE ReceivePush(r) \/ AppendPush(r) \/ AdoptPush(r) \/ AcceptPush(r)
      BY <2>0, <2>3 DEF ReceivePush, AppendPush, AdoptPush, AcceptPush, Answer
    <2>. QED
      BY <1>2, <2>1, <2>2, <2>3 DEF PushStep
  <1>3. CASE SweepStep
    BY <1>3 DEF SweepStep, SweepList, SweepClock, SweepEnd, SweepUpdate, SweepSkip,
                agentVars, pushVars, reqVars
  <1>4. CASE Tick
    BY <1>4 DEF Tick, agentVars, pushVars, reqVars
  <1>5. CASE Restart
    BY <1>5 DEF Restart
  <1>6. CASE UNCHANGED vars
    BY <1>6 DEF vars, agentVars, pushVars, reqVars
  <1>. QED
    BY <1>1, <1>2, <1>3, <1>4, <1>5, <1>6 DEF Next

\* push.go:20-21: however the registry changes between get and Send, what is
\* written to a connection is addressed to an agent that has spoken on it.
THEOREM ConfigIsAddressed == Spec => []ConfigReachesOnlyItsAgent
  <1>1. Init => AddressInv
    BY DEF Init, AddressInv, ViaIsOwn, ConfigReachesOnlyItsAgent
  <1>2. TypeOK /\ RegistryInv /\ AddressInv /\ [Next]_vars => AddressInv'
    BY AddressNext
  <1>3. AddressInv => ConfigReachesOnlyItsAgent
    BY DEF AddressInv
  <1>. QED
    BY <1>1, <1>2, <1>3, RegistryInvariant, PTL DEF Spec
-----------------------------------------------------------------------------
(* What an answer means. AnswersMatchEffects is not inductive: it must be  *)
(* known at which step a request wrote what, and where it can end how.     *)

EffectsOf(r) ==
    /\ Recorded(r) <=> at[r] \in {"upsert", "send", "sent"}
    /\ SentOn(r) # {} <=> at[r] = "sent"
    /\ \A c, d \in SentOn(r) : c = d
    /\ answer[r] = "accepted" => at[r] = "sent"
    /\ at[r] = "sent" => answer[r] \in {"none", "accepted", "lost"}
    /\ answer[r] \in {"notFound", "badRequest", "conflict"} => at[r] \in {"receive", "get"}

EffectsInv == \A r \in Requests : EffectsOf(r)

\* A request that no step concerns keeps its effects.
LEMMA EffectsFrame ==
    ASSUME NEW q, EffectsOf(q), UNCHANGED <<at[q], answer[q]>>,
           Recorded(q)' <=> Recorded(q), SentOn(q)' = SentOn(q)
    PROVE  EffectsOf(q)'
  BY DEF EffectsOf

LEMMA EffectsPushStep ==
    ASSUME TypeOK, EffectsInv, NEW r \in Requests, PushStep(r)
    PROVE  EffectsInv'
  <1>. SUFFICES ASSUME NEW q \in Requests PROVE EffectsOf(q)'
    BY DEF EffectsInv
  <1>0. EffectsOf(q) /\ EffectsOf(r)
    BY DEF EffectsInv
  <1>1. CASE AppendPush(r)
    <2>1. SentOn(q)' = SentOn(q)
      BY <1>1 DEF AppendPush, SentOn
    <2>2. CASE q # r
      <3>1. Recorded(q)' <=> Recorded(q)
        BY <1>1, <2>2 DEF AppendPush, Recorded
      <3>. QED
        BY <1>0, <1>1, <2>1, <2>2, <3>1, EffectsFrame DEF AppendPush, Answer, GoOn, TypeOK
    <2>3. CASE q = r /\ answer'[r] = "error"
      BY <1>0, <1>1, <2>1, <2>3 DEF AppendPush, EffectsOf, Recorded, Answer, GoOn, TypeOK, Running
    <2>4. CASE q = r /\ answer'[r] # "error"
      <3>1. Recorded(r)'
        <4>. DEFINE push == [id |-> r, uid |-> PushUid[r], config |-> PushBody[r],
                             succeeded |-> FALSE]
        <4>1. pushes' = pushes \cup {push}
          BY <1>1, <2>4 DEF AppendPush, Answer, TypeOK
        <4>2. push.id = r
          OBVIOUS
        <4>. HIDE DEF push
        <4>. QED
          BY <4>1, <4>2 DEF Recorded
      <3>2. at'[r] = "upsert" /\ answer'[r] = "none"
        BY <1>1, <2>4 DEF AppendPush, Answer, GoOn, Running, TypeOK
      <3>. QED
        BY <1>0, <1>1, <2>1, <2>4, <3>1, <3>2 DEF AppendPush, EffectsOf
    <2>. QED
      BY <2>2, <2>3, <2>4
  <1>2. CASE SendPush(r)
    <2>1. Recorded(q)' <=> Recorded(q)
      BY <1>2 DEF SendPush, Recorded
    <2>2. CASE /\ via[r] \in Conns
               /\ outbox' = [outbox EXCEPT ![via[r]] = Append(outbox[via[r]], r)]
               /\ GoOn(r, "sent")
      <3>1. /\ SentOn(r)' = SentOn(r) \cup {via[r]}
            /\ q # r => SentOn(q)' = SentOn(q)
        BY <2>2, SentOnGrows
      <3>2. CASE q # r
        BY <1>0, <2>1, <2>2, <3>1, <3>2, EffectsFrame DEF GoOn, TypeOK
      <3>3. CASE q = r
        BY <1>0, <1>2, <2>1, <2>2, <3>1, <3>3 DEF SendPush, GoOn, EffectsOf, Running, TypeOK
      <3>. QED
        BY <3>2, <3>3
    <2>3. CASE UNCHANGED <<outbox, at>> /\ \E a \in {"error", "panic"} : Answer(r, a)
      <3>1. SentOn(q)' = SentOn(q)
        BY <2>3 DEF SentOn
      <3>. QED
        BY <1>0, <1>2, <2>1, <2>3, <3>1 DEF SendPush, Answer, EffectsOf, TypeOK
    <2>. QED
      BY <1>2, <2>2, <2>3 DEF SendPush, Answer
  <1>3. CASE ReceivePush(r) \/ FindConnection(r) \/ AdoptPush(r) \/ AcceptPush(r)
    <2>1. SentOn(q)' = SentOn(q) /\ (Recorded(q)' <=> Recorded(q))
      BY <1>3 DEF ReceivePush, FindConnection, AdoptPush, AcceptPush, SentOn, Recorded
    <2>2. CASE q # r
      <3>1. UNCHANGED <<at[q], answer[q]>>
        BY <1>3, <2>2 DEF ReceivePush, FindConnection, AdoptPush, AcceptPush, Answer, GoOn, TypeOK
      <3>. QED
        BY <1>0, <2>1, <3>1, EffectsFrame
    <2>3. CASE q = r
      BY <1>0, <1>3, <2>1, <2>3 DEF ReceivePush, FindConnection, AdoptPush, AcceptPush,
                                   Answer, GoOn, EffectsOf, Running, TypeOK
    <2>. QED
      BY <2>2, <2>3
  <1>. QED
    BY <1>1, <1>2, <1>3 DEF PushStep

LEMMA EffectsNext ==
    ASSUME TypeOK, EffectsInv, [Next]_vars
    PROVE  EffectsInv'
  <1>. DEFINE Same == UNCHANGED <<pushes, outbox, at, answer>>
  <1>1. ASSUME Same PROVE EffectsInv'
    BY <1>1 DEF EffectsInv, EffectsOf, Recorded, SentOn
  <1>2. ASSUME NEW c \in Conns, AgentStep(c) PROVE Same
    BY <1>2 DEF AgentStep, Connect, Break, OnConnectionClose, OnMessage, LearnPort,
                PersistMessage, LoseMessage, pushVars, reqVars
  <1>3. CASE SweepStep
    <2>1. Same
      BY <1>3 DEF SweepStep, SweepList, SweepClock, SweepEnd, SweepUpdate, SweepSkip, pushVars, reqVars
    <2>. QED
      BY <1>1, <2>1
  <1>4. CASE Tick \/ UNCHANGED vars
    <2>1. Same
      BY <1>4 DEF Tick, vars, pushVars, reqVars
    <2>. QED
      BY <1>1, <2>1
  <1>5. CASE Restart
    <2>. SUFFICES ASSUME NEW q \in Requests PROVE EffectsOf(q)'
      BY DEF EffectsInv
    <2>1. SentOn(q)' = SentOn(q) /\ (Recorded(q)' <=> Recorded(q)) /\ EffectsOf(q) /\ at' = at
      BY <1>5 DEF Restart, SentOn, Recorded, EffectsInv
    <2>. QED
      BY <1>5, <2>1 DEF Restart, EffectsOf, Running
  <1>6. CASE \E r \in Requests : PushStep(r)
    BY <1>6, EffectsPushStep
  <1>. QED
    BY <1>1, <1>2, <1>3, <1>4, <1>5, <1>6 DEF Next

\* agents.go:78-113, push.go:29-78: an answer tells what was recorded and what
\* was written, wherever a push stops: a refused write, a failed store, a
\* panic on an entry without connection or the end of the process.
THEOREM AnswersAreTrue == Spec => []AnswersMatchEffects
  <1>1. Init => EffectsInv
    BY DEF Init, EffectsInv, EffectsOf, Recorded, SentOn
  <1>2. TypeOK /\ EffectsInv /\ [Next]_vars => EffectsInv'
    BY EffectsNext
  <1>3. EffectsInv => AnswersMatchEffects
    BY DEF EffectsInv, EffectsOf, AnswersMatchEffects
  <1>. QED
    BY <1>1, <1>2, <1>3, TypeCorrect, PTL DEF Spec

-----------------------------------------------------------------------------
(* Silence. Where the ages go and that every pass of the sweeper gets to    *)
(* its clock takes an induction, over ticks and over the agents of a pass,  *)
(* which is for TLC; what is proved is what becomes of it, whichever other  *)
(* goroutines run meanwhile.                                               *)

Known(u) == u \in DOMAIN rows
Aged(u) == Known(u) => rows[u].age = DisconnectedAfter
Gone(u) == Known(u) => rows[u].state = "disconnected"
MayUpdate(u) == pass = "update" /\ u \in DOMAIN wanted

AgesRunOut(u) == []<>(Aged(u) \/ ~Silent(u))
UpdatesGetThrough(u) == <>[]~MayUpdate(u) \/ []<><<SweepUpdate(u)>>_vars
PassesGetOn == []<><<SweepClock>>_vars

\* The pass under way, if any, knows of agent u what there is to know.
Fresh(u) ==
    /\ pass = "listed" => /\ u \in DOMAIN listed
                          /\ listed[u] = [state |-> rows[u].state, age |-> DisconnectedAfter]
    /\ MayUpdate(u) => wanted[u] = "disconnected"

\* What a step does to the row of an agent: while it is silent, nobody but the
\* sweeper touches its state, and nobody makes it younger.
LEMMA SilentRow ==
    ASSUME TypeOK, [Next]_vars, NEW u \in Agents, Silent(u)
    PROVE  /\ Known(u) => Known(u)'
           /\ Aged(u) => Aged(u)'
           /\ Known(u) => rows'[u].state = rows[u].state \/ SweepUpdate(u)
  <1>1. rows \in [DOMAIN rows -> AgentRow]
    BY MapsElim DEF TypeOK, Tables
  <1>2. ASSUME NEW v \in Agents, NEW new, rows' = Save(rows, v, new),
               v = u => new.age = Load(rows, u).age,
               v = u => new.state = Load(rows, u).state \/ SweepUpdate(u)
        PROVE  /\ Known(u) => Known(u)'
               /\ Aged(u) => Aged(u)'
               /\ Known(u) => rows'[u].state = rows[u].state \/ SweepUpdate(u)
    <2>1. /\ DOMAIN rows' = DOMAIN rows \cup {v} /\ rows'[v] = new
          /\ \A w \in DOMAIN rows : w # v => rows'[w] = rows[w]
      BY <1>2 DEF Save, Put
    <2>2. CASE v = u
      BY <1>2, <2>1, <2>2 DEF Known, Aged, Load
    <2>3. CASE v # u
      BY <2>1, <2>3 DEF Known, Aged
    <2>. QED
      BY <2>2, <2>3
  <1>3. ASSUME NEW c \in Conns, PersistMessage(c)
        PROVE  /\ Known(u) => Known(u)'
               /\ Aged(u) => Aged(u)'
               /\ Known(u) => rows'[u].state = rows[u].state
    <2>1. handler[c].msg.uid # u
      BY <1>3 DEF PersistMessage, Silent
    <2>. QED
      <3>1. PICK v, new : v # u /\ rows' = Save(rows, v, new)
        BY <1>3, <2>1 DEF PersistMessage
      <3>2. /\ DOMAIN rows' = DOMAIN rows \cup {v}
            /\ \A w \in DOMAIN rows : w # v => rows'[w] = rows[w]
        BY <3>1 DEF Save, Put
      <3>. QED
        BY <3>1, <3>2 DEF Known, Aged
  <1>4. ASSUME NEW r \in Requests, AdoptPush(r) PROVE
               /\ Known(u) => Known(u)'
               /\ Aged(u) => Aged(u)'
               /\ Known(u) => rows'[u].state = rows[u].state \/ SweepUpdate(u)
    <2>1. Load(rows, u) \in AgentRow
      BY LoadType DEF TypeOK
    <2>2. /\ Pushed(Load(rows, u), PushBody[r]).age = Load(rows, u).age
          /\ Pushed(Load(rows, u), PushBody[r]).state = Load(rows, u).state
      BY <2>1 DEF Pushed, AgentRow
    <2>3. PushUid[r] \in Agents
      BY ServerConstants
    <2>4. CASE rows' = rows
      BY <2>4 DEF Known, Aged
    <2>. QED
      BY <1>2, <1>4, <2>2, <2>3, <2>4 DEF AdoptPush
  <1>5. ASSUME NEW v \in Agents, SweepUpdate(v) PROVE
               /\ Known(u) => Known(u)'
               /\ Aged(u) => Aged(u)'
               /\ Known(u) => rows'[u].state = rows[u].state \/ SweepUpdate(u)
    <2>1. Load(rows, v) \in AgentRow
      BY LoadType DEF TypeOK
    <2>2. [Load(rows, v) EXCEPT !.state = wanted[v]].age = Load(rows, v).age
      BY <2>1 DEF AgentRow
    <2>. QED
      BY <1>2, <1>5, <2>2 DEF SweepUpdate
  <1>6. CASE Tick
    <2>1. DOMAIN rows' = DOMAIN rows
          /\ \A v \in DOMAIN rows : rows'[v] = [rows[v] EXCEPT !.age = Older(rows[v].age)]
      BY <1>6 DEF Tick
    <2>2. \A v \in DOMAIN rows : rows'[v].state = rows[v].state
                                 /\ rows'[v].age = Older(rows[v].age)
      BY <1>1, <2>1 DEF AgentRow
    <2>3. Older(DisconnectedAfter) = DisconnectedAfter
      BY ThresholdsValid DEF Older
    <2>. QED
      BY <2>1, <2>2, <2>3 DEF Known, Aged
  <1>7. CASE UNCHANGED rows
    BY <1>7 DEF Known, Aged
  <1>. QED
    BY <1>3, <1>4, <1>5, <1>6, <1>7
    DEF Next, AgentStep, Connect, Break, OnConnectionClose, OnMessage, LearnPort, LoseMessage,
        PushStep, ReceivePush, FindConnection, AppendPush, SendPush, AcceptPush,
        SweepStep, SweepList, SweepClock, SweepEnd, SweepSkip, Restart, vars, pushVars

LEMMA SavedState ==
    ASSUME NEW u, NEW new, rows' = Put(rows, u, new)
    PROVE  rows'[u] = new
  BY DEF Put

\* A pass that starts once the agent's age has run out has it right, to its end.
LEMMA FreshPass ==
    ASSUME TypeOK, [Next]_vars, NEW u \in Agents, Silent(u), Known(u), Aged(u)
    PROVE  /\ pass # "listed" /\ pass' = "listed" => Fresh(u)'
           /\ Fresh(u) => Fresh(u)'
           /\ Fresh(u) /\ Gone(u) => Gone(u)'
  <1>0. /\ Known(u)' /\ Aged(u)'
        /\ rows'[u].state = rows[u].state \/ SweepUpdate(u)
    BY SilentRow
  <1>1. CASE SweepList
    <2>1. pass' = "listed" /\ rows' = rows /\ u \in DOMAIN listed'
          /\ listed'[u] = [state |-> rows[u].state, age |-> rows[u].age]
      BY <1>1 DEF SweepList, Known
    <2>. QED
      BY <2>1 DEF Fresh, MayUpdate, Gone, Known, Aged
  <1>2. CASE SweepClock
    <2>1. /\ pass = "listed" /\ pass' = "update" /\ rows' = rows
          /\ wanted' = [v \in Outdated |-> WantedState(listed[v].age)]
      BY <1>2 DEF SweepClock
    <2>2. WantedState(DisconnectedAfter) = "disconnected"
      BY ThresholdsValid DEF WantedState
    <2>3. Fresh(u) /\ u \in DOMAIN wanted' => wanted'[u] = "disconnected"
      BY <2>1, <2>2 DEF Fresh
    <2>. QED
      BY <2>1, <2>3 DEF Fresh, MayUpdate, Gone, Known
  <1>3. ASSUME NEW v \in Agents, SweepUpdate(v) \/ SweepSkip(v)
        PROVE  Fresh(u) => Fresh(u)'
    <2>1. pass = "update" /\ pass' = pass /\ wanted' = Delete(wanted, v)
      BY <1>3 DEF SweepUpdate, SweepSkip
    <2>2. u \in DOMAIN wanted' => u \in DOMAIN wanted /\ wanted'[u] = wanted[u]
      BY <2>1 DEF Delete
    <2>. QED
      BY <2>1, <2>2 DEF Fresh, MayUpdate
  <1>4. SweepUpdate(u) => (Fresh(u) => Gone(u)')
    <2>1. ASSUME SweepUpdate(u), Fresh(u) PROVE rows'[u].state = "disconnected"
      <3>1. rows' = Put(rows, u, [Load(rows, u) EXCEPT !.state = wanted[u]])
            /\ wanted[u] = "disconnected"
        BY <2>1 DEF SweepUpdate, Save, Fresh, MayUpdate
      <3>2. Load(rows, u) \in AgentRow
        BY LoadType DEF TypeOK
      <3>3. [Load(rows, u) EXCEPT !.state = wanted[u]].state = wanted[u]
        BY <3>2 DEF AgentRow
      <3>. QED
        BY <3>1, <3>3, SavedState
    <2>. QED
      BY <2>1 DEF Gone
  <1>5. Fresh(u) /\ Gone(u) => Gone(u)'
    BY <1>0, <1>4 DEF Gone
  <1>6. CASE Tick
    <2>1. pass' = pass /\ wanted' = wanted
          /\ DOMAIN listed' = DOMAIN listed
          /\ \A v \in DOMAIN listed :
                listed'[v] = [listed[v] EXCEPT !.age = Older(listed[v].age)]
      BY <1>6 DEF Tick
    <2>2. Older(DisconnectedAfter) = DisconnectedAfter
      BY ThresholdsValid DEF Older
    <2>3. rows'[u].state = rows[u].state
      <3>1. rows[u] \in AgentRow
        BY MapsElim DEF TypeOK, Tables, Known
      <3>2. rows'[u] = [rows[u] EXCEPT !.age = Older(rows[u].age)]
        BY <1>6 DEF Tick, Known
      <3>. QED
        BY <3>1, <3>2 DEF AgentRow
    <2>. QED
      BY <1>5, <2>1, <2>2, <2>3 DEF Fresh, MayUpdate
  <1>7. CASE Restart
    BY <1>5, <1>7 DEF Restart, Fresh, MayUpdate
  <1>8. CASE SweepEnd
    BY <1>5, <1>8 DEF SweepEnd, Fresh, MayUpdate
  <1>9. CASE UNCHANGED sweepVars
    BY <1>0, <1>5, <1>9 DEF sweepVars, SweepUpdate, Fresh, MayUpdate
  <1>. QED
    BY <1>1, <1>2, <1>3, <1>5, <1>6, <1>7, <1>8, <1>9
    DEF Next, AgentStep, Connect, Break, OnConnectionClose, OnMessage, LearnPort, PersistMessage,
        LoseMessage, PushStep, ReceivePush, FindConnection, AppendPush, AdoptPush, SendPush,
        AcceptPush, SweepStep, SweepUpdate, SweepSkip, vars

LEMMA SilentEnds ==
    ASSUME NEW u \in Agents
    PROVE  /\ []TypeOK /\ [][Next]_vars
           /\ AgesRunOut(u) /\ UpdatesGetThrough(u) /\ PassesGetOn
           => (<>[]Silent(u) => <>[](u \in DOMAIN rows => rows[u].state = "disconnected"))
  <1>. DEFINE L == pass = "listed"
  <1>1. TypeOK /\ Silent(u) /\ [Next]_vars =>
            /\ Known(u) => Known(u)'
            /\ Aged(u) => Aged(u)'
    BY SilentRow
  <1>2. TypeOK /\ Silent(u) /\ Known(u) /\ Aged(u) /\ [Next]_vars =>
            /\ ~L /\ L' => Fresh(u)'
            /\ Fresh(u) => Fresh(u)'
            /\ Fresh(u) /\ Gone(u) => Gone(u)'
    BY FreshPass
  <1>3. <<SweepClock>>_vars => L /\ ~L'
    BY DEF SweepClock
  <1>4. Known(u) /\ Aged(u) /\ Fresh(u) /\ <<SweepClock>>_vars => Gone(u)' \/ MayUpdate(u)'
    <2>1. ASSUME Known(u), Aged(u), Fresh(u), SweepClock PROVE Gone(u)' \/ MayUpdate(u)'
      <3>1. /\ pass = "listed" /\ pass' = "update" /\ rows' = rows
            /\ wanted' = [v \in Outdated |-> WantedState(listed[v].age)]
        BY <2>1 DEF SweepClock
      <3>2. u \in DOMAIN listed /\ listed[u].age = DisconnectedAfter
            /\ listed[u].state = rows[u].state
        BY <2>1, <3>1 DEF Fresh
      <3>3. WantedState(DisconnectedAfter) = "disconnected"
        BY ThresholdsValid DEF WantedState
      <3>4. rows[u].state # "disconnected" => u \in Outdated
        BY <3>2, <3>3 DEF Outdated
      <3>. QED
        BY <3>1, <3>4 DEF Gone, MayUpdate
    <2>. QED
      BY <2>1
  <1>5. TypeOK /\ Fresh(u) /\ <<SweepUpdate(u)>>_vars => Gone(u)'
    <2>1. ASSUME TypeOK, Fresh(u), SweepUpdate(u) PROVE Gone(u)'
      <3>1. rows' = Put(rows, u, [Load(rows, u) EXCEPT !.state = wanted[u]])
            /\ wanted[u] = "disconnected"
        BY <2>1 DEF SweepUpdate, Save, Fresh, MayUpdate
      <3>2. Load(rows, u) \in AgentRow
        BY <2>1, LoadType DEF TypeOK
      <3>3. [Load(rows, u) EXCEPT !.state = wanted[u]].state = wanted[u]
        BY <3>2 DEF AgentRow
      <3>. QED
        BY <3>1, <3>3, SavedState DEF Gone
    <2>. QED
      BY <2>1
  <1>6. ~Known(u) => Gone(u)
    BY DEF Gone
  <1>7. Gone(u) <=> (u \in DOMAIN rows => rows[u].state = "disconnected")
    BY DEF Gone, Known
  <1>. HIDE DEF L
  <1>. QED
    BY <1>1, <1>2, <1>3, <1>4, <1>5, <1>6, <1>7, PTL
    DEF AgesRunOut, UpdatesGetThrough, PassesGetOn

\* sweeper.go:11-15: an agent that sends nothing any more ends up disconnected
\* and stays so, whatever becomes of its connections, whatever a pass that
\* listed it earlier still writes, and through failed updates and restarts; as
\* long as silence adds up, passes get to their clock and the store does not
\* refuse an update for ever.
THEOREM SilenceIsNoticed ==
    /\ Spec
    /\ \A u \in Agents : AgesRunOut(u) /\ UpdatesGetThrough(u)
    /\ PassesGetOn
    => SilentAgentEndsDisconnected
  <1>. DEFINE Run == []TypeOK /\ [][Next]_vars
              Ends(u) == <>[]Silent(u) => <>[](u \in DOMAIN rows => rows[u].state = "disconnected")
  <1>1. ASSUME NEW u \in Agents
        PROVE  Run /\ AgesRunOut(u) /\ UpdatesGetThrough(u) /\ PassesGetOn => Ends(u)
    BY SilentEnds
  <1>2. Spec => Run
    BY TypeCorrect, PTL DEF Spec
  <1>. HIDE DEF Run
  <1>. QED
    BY <1>1, <1>2 DEF SilentAgentEndsDisconnected
=============================================================================
