---------------------------- MODULE OpampServer ----------------------------
(***************************************************************************)
(* The OpAMP side of the fleet server (internal/opampserver) with its two  *)
(* shared stores: the in-memory connection registry and the agents and     *)
(* config_pushes tables. Four kinds of goroutines interleave:              *)
(*                                                                         *)
(*   - one message loop per WebSocket connection: onMessage runs a message *)
(*     to its end before the next is read, and onConnectionClose runs when *)
(*     the loop has ended (opamp-go, external);                            *)
(*   - one HTTP handler per REST push request: handlePushConfig and        *)
(*     PushConfig;                                                         *)
(*   - the stale sweeper;                                                  *)
(*   - the environment: connections open and break, time passes, the       *)
(*     process stops and is started again on the same database file.       *)
(*                                                                         *)
(* A step is one critical section: one lock of the registry's mutex, one   *)
(* store transaction or one Send. Between two steps of a handler every     *)
(* other goroutine may run. The metrics scraper only reads                 *)
(* Snapshot(byUID).                                                        *)
(***************************************************************************)
EXTENDS ConnRegistry, AgentRecord, Sequences

CONSTANTS
    Speaks,       \* [Conns -> SUBSET Agents]: the agents a connection carries
    Messages,     \* the AgentToServer messages agents send
    Requests,     \* REST push requests; the id of the push a request records
    PushUid,      \* [Requests -> Agents]: the {uid} of the URL
    PushBody,     \* [Requests -> configYaml]
    BadBody,      \* a configYaml that is undecodable, empty or no YAML
    StoreFails,   \* whether a store call may return an error
    MaxRestarts   \* bound: how often the process is restarted

ASSUME ServerConstants ==
    /\ Speaks \in [Conns -> SUBSET Agents]
    /\ Messages \subseteq AgentToServer
    /\ PushUid \in [Requests -> Agents]
    /\ PushBody \in [Requests -> Configs \cup {BadBody}]
    /\ BadBody \notin Configs
    /\ StoreFails \in BOOLEAN
    /\ MaxRestarts \in Nat

VARIABLES
    conn,       \* [Conns -> "new" | "open" | "broken" | "closed"]
    handler,    \* [Conns -> the onMessage call in progress, or "read"]
    byUID,      \* the registry
    rows,       \* table agents
    pushes,     \* table config_pushes
    at,         \* [Requests -> the step of the push request that is next]
    answer,     \* [Requests -> its HTTP answer, "none" while it runs]
    via,        \* [Requests -> the connection PushConfig found]
    outbox,     \* [Conns -> the pushes written to the connection, in order]
    pass,       \* the sweeper: "idle", or how far its pass has come
    listed,     \* the sweeper: what ListAgents returned to it
    wanted,     \* the sweeper: the states it still wants to write
    restarts,   \* restarts so far
    heard,      \* history: the connection that last called set for an agent
    spoke,      \* history: [Conns -> the agents that called set on it]
    reported    \* history: the status reports folded into an agent's row

agentVars == <<conn, handler, heard, spoke, reported>>
reqVars == <<at, answer, via>>
pushVars == <<pushes, reqVars, outbox>>
sweepVars == <<pass, listed, wanted>>
vars == <<agentVars, byUID, rows, pushVars, sweepVars, restarts>>

Idle == [pc |-> "read", msg |-> Omitted]

Init ==
    /\ conn = [c \in Conns |-> "new"]
    /\ handler = [c \in Conns |-> Idle]
    /\ byUID = EmptyMap
    /\ rows = EmptyMap
    /\ pushes = {}
    /\ at = [r \in Requests |-> "receive"]
    /\ answer = [r \in Requests |-> "none"]
    /\ via = [r \in Requests |-> NoConn]
    /\ outbox = [c \in Conns |-> << >>]
    /\ pass = "idle" /\ listed = EmptyMap /\ wanted = EmptyMap
    /\ restarts = 0
    /\ heard = [u \in Agents |-> NoConn]
    /\ spoke = [c \in Conns |-> {}]
    /\ reported = [u \in Agents |-> {}]

-----------------------------------------------------------------------------
(* Connections and the messages agents send on them.                       *)

Alive(c) == conn[c] \in {"open", "broken"}

\* onConnecting accepted the connection; onConnected does nothing.
Connect(c) ==
    /\ conn[c] = "new"
    /\ conn' = [conn EXCEPT ![c] = "open"]
    /\ UNCHANGED <<handler, heard, spoke, reported, byUID, rows, pushVars, sweepVars, restarts>>

\* The peer is gone. The read loop still drains what was received before.
Break(c) ==
    /\ conn[c] = "open"
    /\ conn' = [conn EXCEPT ![c] = "broken"]
    /\ UNCHANGED <<handler, heard, spoke, reported, byUID, rows, pushVars, sweepVars, restarts>>

\* The pushes written to a connection, and the configs an agent was ever sent.
SentOn(r) == {c \in Conns : \E i \in 1 .. Len(outbox[c]) : outbox[c][i] = r}

SentTo(u) == {PushBody[r] : r \in {q \in Requests : PushUid[q] = u /\ SentOn(q) # {}}}

\* An agent reports on a config this server sent it, or with a hash (NoHash)
\* that is none of the server's.
Echoes(m) == m.status # Omitted => m.status.hash \in SentTo(m.uid) \cup {NoHash}

\* Faulty test of msg.AgentDescription: setMetricsPort is always called.
AlwaysPort(m) == "port"

\* What onMessage does after set: only a description teaches a port.
AfterSet(m) == IF m.desc = Omitted THEN "upsert" ELSE "port"

\* onMessage, first lock: conns.set. A message whose uid is not 16 bytes is
\* answered without any state change and has no action.
OnMessage(c, m) ==
    /\ Alive(c) /\ handler[c].pc = "read"
    /\ m.uid \in Speaks[c] /\ Echoes(m)
    /\ byUID' = Set(byUID, m.uid, c)
    /\ heard' = [heard EXCEPT ![m.uid] = c]
    /\ spoke' = [spoke EXCEPT ![c] = @ \cup {m.uid}]
    /\ handler' = [handler EXCEPT ![c] = [pc |-> AfterSet(m), msg |-> m]]
    /\ UNCHANGED <<conn, reported, rows, pushVars, sweepVars, restarts>>

\* onMessage, second lock: setMetricsPort, for a message with a description.
LearnPort(c) ==
    /\ handler[c].pc = "port"
    /\ byUID' = SetMetricsPort(byUID, handler[c].msg.uid, handler[c].msg.desc)
    /\ handler' = [handler EXCEPT ![c] = [pc |-> "upsert", msg |-> handler[c].msg]]
    /\ UNCHANGED <<conn, heard, spoke, reported, rows, pushVars, sweepVars, restarts>>

\* onMessage, the transaction; the reply carries nothing and ends the call.
PersistMessage(c) ==
    /\ handler[c].pc = "upsert"
    /\ LET m == handler[c].msg IN
       /\ rows' = Save(rows, m.uid, Applied(Load(rows, m.uid), m))
       /\ reported' = [reported EXCEPT ![m.uid] = @ \cup ({m.status} \ {Omitted})]
    /\ handler' = [handler EXCEPT ![c] = Idle]
    /\ UNCHANGED <<conn, heard, spoke, byUID, pushVars, sweepVars, restarts>>

\* onMessage, a failed transaction: the error is logged, the agent is answered
\* all the same and the report is gone.
LoseMessage(c) ==
    /\ StoreFails
    /\ handler[c].pc = "upsert"
    /\ handler' = [handler EXCEPT ![c] = Idle]
    /\ UNCHANGED <<conn, heard, spoke, reported, byUID, rows, pushVars, sweepVars, restarts>>

\* onConnectionClose: forget the connection, leave the row to the sweeper.
OnConnectionClose(c) ==
    /\ conn[c] = "broken" /\ handler[c].pc = "read"
    /\ conn' = [conn EXCEPT ![c] = "closed"]
    /\ byUID' \in RemoveByConn(byUID, c)
    /\ UNCHANGED <<handler, heard, spoke, reported, rows, pushVars, sweepVars, restarts>>

-----------------------------------------------------------------------------
(* A REST push request, POST /api/agents/{uid}/config.                     *)

Running(r) == answer[r] = "none"

\* The request ends with an HTTP answer; at keeps how far it came.
Answer(r, a) == answer' = [answer EXCEPT ![r] = a] /\ UNCHANGED <<at, via>>

GoOn(r, step) == at' = [at EXCEPT ![r] = step] /\ UNCHANGED answer

\* handlePushConfig: GetAgent reports an absent row and a failed read alike;
\* only then is the body looked at.
ReceivePush(r) ==
    /\ Running(r) /\ at[r] = "receive"
    /\ \/ /\ PushUid[r] \notin DOMAIN rows \/ StoreFails
          /\ Answer(r, "notFound")
       \/ /\ PushUid[r] \in DOMAIN rows /\ PushBody[r] = BadBody
          /\ Answer(r, "badRequest")
       \/ /\ PushUid[r] \in DOMAIN rows /\ PushBody[r] # BadBody
          /\ GoOn(r, "get") /\ UNCHANGED via
    /\ UNCHANGED <<agentVars, byUID, rows, pushes, outbox, sweepVars, restarts>>

\* Faulty get: some registered connection will do.
FindAnyConnection(r) ==
    /\ Running(r) /\ at[r] = "get"
    /\ \/ \E u \in DOMAIN byUID :
              GoOn(r, "append") /\ via' = [via EXCEPT ![r] = byUID[u].conn]
       \/ DOMAIN byUID = {} /\ Answer(r, "conflict")
    /\ UNCHANGED <<agentVars, byUID, rows, pushes, outbox, sweepVars, restarts>>

\* conns.get: the connection found is used to the end, whatever the registry
\* becomes. The uid parses: it is the key of a row.
FindConnection(r) ==
    /\ Running(r) /\ at[r] = "get"
    /\ \/ /\ PushUid[r] \in DOMAIN byUID
          /\ GoOn(r, "append")
          /\ via' = [via EXCEPT ![r] = byUID[PushUid[r]].conn]
       \/ /\ PushUid[r] \notin DOMAIN byUID
          /\ Answer(r, "conflict")
    /\ UNCHANGED <<agentVars, byUID, rows, pushes, outbox, sweepVars, restarts>>

\* Faulty AppendPush: a failed record is logged and the push goes on.
AppendOrLog(r) ==
    /\ Running(r) /\ at[r] = "append"
    /\ \/ pushes' = pushes \cup {[id |-> r, uid |-> PushUid[r], config |-> PushBody[r],
                                  succeeded |-> FALSE]}
       \/ StoreFails /\ UNCHANGED pushes
    /\ GoOn(r, "upsert")
    /\ UNCHANGED <<agentVars, byUID, rows, via, outbox, sweepVars, restarts>>

\* AppendConfigPush, and the end of the request if it fails.
AppendPush(r) ==
    /\ Running(r) /\ at[r] = "append"
    /\ \/ /\ pushes' = pushes \cup {[id |-> r, uid |-> PushUid[r], config |-> PushBody[r],
                                     succeeded |-> FALSE]}
          /\ GoOn(r, "upsert") /\ UNCHANGED via
       \/ /\ StoreFails
          /\ Answer(r, "error")
          /\ UNCHANGED pushes
    /\ UNCHANGED <<agentVars, byUID, rows, outbox, sweepVars, restarts>>

\* UpsertAgent, and the end of the request if it fails: nothing is sent then.
AdoptPush(r) ==
    /\ Running(r) /\ at[r] = "upsert"
    /\ \/ /\ rows' = Save(rows, PushUid[r], Pushed(Load(rows, PushUid[r]), PushBody[r]))
          /\ GoOn(r, "send") /\ UNCHANGED via
       \/ /\ StoreFails
          /\ Answer(r, "error")
          /\ UNCHANGED rows
    /\ UNCHANGED <<agentVars, byUID, pushes, outbox, sweepVars, restarts>>

\* conn.Send: a write to a broken connection may be accepted or refused, a
\* write to a closed one is refused, and a nil connection panics (withRecover
\* answers 500, as it does for an error).
SendPush(r) ==
    /\ Running(r) /\ at[r] = "send"
    /\ LET c == via[r] IN
       \/ /\ c \in Conns /\ Alive(c)
          /\ outbox' = [outbox EXCEPT ![c] = Append(outbox[c], r)]
          /\ GoOn(r, "sent") /\ UNCHANGED via
       \/ /\ c \in Conns /\ conn[c] # "open"
          /\ Answer(r, "error")
          /\ UNCHANGED outbox
       \/ /\ c = NoConn
          /\ Answer(r, "panic")
          /\ UNCHANGED outbox
    /\ UNCHANGED <<agentVars, byUID, rows, pushes, sweepVars, restarts>>

\* 202 with the recorded push.
AcceptPush(r) ==
    /\ Running(r) /\ at[r] = "sent"
    /\ Answer(r, "accepted")
    /\ UNCHANGED <<agentVars, byUID, rows, pushes, outbox, sweepVars, restarts>>

-----------------------------------------------------------------------------
(* The stale sweeper: one pass of sweepOnce.                               *)

\* ListAgents (a failed read ends the pass: no change of state).
SweepList ==
    /\ pass = "idle"
    /\ pass' = "listed"
    /\ listed' = [u \in DOMAIN rows |-> [state |-> rows[u].state, age |-> rows[u].age]]
    /\ UNCHANGED <<agentVars, byUID, rows, pushVars, wanted, restarts>>

\* The listed agents whose state is not what their silence asks for.
Outdated == {u \in DOMAIN listed : WantedState(listed[u].age) # listed[u].state}

\* now is read once, then each listed row is compared with what it should be.
SweepClock ==
    /\ pass = "listed"
    /\ pass' = "update"
    /\ listed' = EmptyMap
    /\ wanted' = [u \in Outdated |-> WantedState(listed[u].age)]
    /\ UNCHANGED <<agentVars, byUID, rows, pushVars, restarts>>

\* Faulty mutator of the sweeper: a new row is written, not the loaded one.
SweepRewrite(u) ==
    /\ pass = "update" /\ u \in DOMAIN wanted
    /\ rows' = Save(rows, u, [Load(EmptyMap, u) EXCEPT !.state = wanted[u]])
    /\ wanted' = Delete(wanted, u)
    /\ UNCHANGED <<agentVars, byUID, pushVars, pass, listed, restarts>>

\* The transaction loads the row again, but writes the state decided before.
SweepUpdate(u) ==
    /\ pass = "update" /\ u \in DOMAIN wanted
    /\ rows' = Save(rows, u, [Load(rows, u) EXCEPT !.state = wanted[u]])
    /\ wanted' = Delete(wanted, u)
    /\ UNCHANGED <<agentVars, byUID, pushVars, pass, listed, restarts>>

\* A failed update is logged; the loop goes on with the next agent.
SweepSkip(u) ==
    /\ StoreFails
    /\ pass = "update" /\ u \in DOMAIN wanted
    /\ wanted' = Delete(wanted, u)
    /\ UNCHANGED <<agentVars, byUID, rows, pushVars, pass, listed, restarts>>

SweepEnd ==
    /\ pass = "update" /\ wanted = EmptyMap
    /\ pass' = "idle"
    /\ UNCHANGED <<agentVars, byUID, rows, pushVars, listed, wanted, restarts>>

-----------------------------------------------------------------------------
(* Time and restarts.                                                      *)

\* One tick: every LastSeen, listed ones included, is one tick further away.
Tick ==
    /\ \/ \E u \in DOMAIN rows : rows[u].age # DisconnectedAfter
       \/ \E u \in DOMAIN listed : listed[u].age # DisconnectedAfter
    /\ rows' = [u \in DOMAIN rows |-> [rows[u] EXCEPT !.age = Older(@)]]
    /\ listed' = [u \in DOMAIN listed |-> [listed[u] EXCEPT !.age = Older(@)]]
    /\ UNCHANGED <<agentVars, byUID, pushVars, pass, wanted, restarts>>

\* The process dies and starts again: the tables survive, the registry, the
\* connections and every call in progress do not. Pushes written but not yet
\* read by the peer are not distinguished from delivered ones.
Restart ==
    /\ restarts < MaxRestarts
    /\ restarts' = restarts + 1
    /\ conn' = [c \in Conns |-> IF conn[c] = "new" THEN "new" ELSE "closed"]
    /\ handler' = [c \in Conns |-> Idle]
    /\ heard' = [u \in Agents |-> NoConn]
    /\ byUID' = EmptyMap
    /\ answer' = [r \in Requests |->
                     IF Running(r) /\ at[r] # "receive" THEN "lost" ELSE answer[r]]
    /\ pass' = "idle" /\ listed' = EmptyMap /\ wanted' = EmptyMap
    /\ UNCHANGED <<rows, pushes, at, via, outbox, spoke, reported>>

-----------------------------------------------------------------------------
AgentStep(c) ==
    \/ Connect(c) \/ Break(c) \/ OnConnectionClose(c)
    \/ \E m \in Messages : OnMessage(c, m)
    \/ LearnPort(c) \/ PersistMessage(c) \/ LoseMessage(c)

PushStep(r) ==
    \/ ReceivePush(r) \/ FindConnection(r)
    \/ AppendPush(r) \/ AdoptPush(r) \/ SendPush(r) \/ AcceptPush(r)

SweepStep ==
    \/ SweepList \/ SweepClock \/ SweepEnd
    \/ \E u \in Agents : SweepUpdate(u) \/ SweepSkip(u)

Next ==
    \/ \E c \in Conns : AgentStep(c)
    \/ \E r \in Requests : PushStep(r)
    \/ SweepStep
    \/ Tick
    \/ Restart

Spec == Init /\ [][Next]_vars

-----------------------------------------------------------------------------
(* Properties.                                                             *)

HandlerStates ==
    {Idle} \cup [pc : {"upsert"}, msg : Messages]
           \cup [pc : {"port"}, msg : {m \in Messages : m.desc # Omitted}]

\* What the sweeper reads of a listed row.
Sighting == [state : ConnectionStates \cup {""}, age : Ages]

\* Every variable has the shape the code's types give it.
TypeOK ==
    /\ conn \in [Conns -> {"new", "open", "broken", "closed"}]
    /\ handler \in [Conns -> HandlerStates]
    /\ byUID \in Registries
    /\ rows \in Tables
    /\ pushes \subseteq [id : Requests, uid : Agents, config : Configs, succeeded : BOOLEAN]
    /\ at \in [Requests -> {"receive", "get", "append", "upsert", "send", "sent"}]
    /\ answer \in [Requests -> {"none", "notFound", "badRequest", "conflict", "error",
                                "panic", "accepted", "lost"}]
    /\ via \in [Requests -> Conns \cup {NoConn}]
    /\ outbox \in [Conns -> Seq(Requests)]
    /\ pass \in {"idle", "listed", "update"}
    /\ listed \in Maps(Agents, Sighting)
    /\ wanted \in Maps(Agents, ConnectionStates)
    /\ restarts \in 0 .. MaxRestarts
    /\ heard \in [Agents -> Conns \cup {NoConn}]
    /\ spoke \in [Conns -> SUBSET Agents]
    /\ reported \in [Agents -> SUBSET StatusReport]

\* agents.go:85-102, what is not valid YAML goes no further.
OnlyValidBodies == \A r \in Requests : at[r] # "receive" => PushBody[r] # BadBody

\* registry.go:87-92, a stale close event can never evict the new connection:
\* as long as the connection an agent was last heard on has not been closed,
\* the registry routes to it, whatever older connections of that agent do.
LastHeardIsRouted ==
    \A u \in Agents :
        LET c == heard[u] IN
        c # NoConn /\ Alive(c) => u \in DOMAIN byUID /\ byUID[u].conn = c

\* handler.go:151-152, a push or a scrape does not try to use a dead socket:
\* no entry holds a connection whose close callback has run.
NoClosedConnRegistered ==
    \A u \in DOMAIN byUID : byUID[u].conn # NoConn => Alive(byUID[u].conn)

\* registry.go:14-20, the scraper only calls back an address it has a verified
\* connection from: each target is the peer of the live connection its agent
\* was last heard on, even while late messages of older connections leave
\* half-filled entries behind.
ScrapeTargetsAreLivePeers ==
    \A t \in Snapshot(byUID) :
        \E c \in Conns : /\ Alive(c) /\ heard[t.uid] = c /\ t.remoteIP = PeerIP[c]

\* push.go:20-21, a push goes to one agent: what is written to a connection
\* is addressed to an agent that has itself spoken on it, although the registry
\* may have changed since the push looked the connection up.
ConfigReachesOnlyItsAgent ==
    \A c \in Conns : \A i \in 1 .. Len(outbox[c]) : PushUid[outbox[c][i]] \in spoke[c]

Recorded(r) == \E p \in pushes : p.id = r

\* agents.go:78-113 and push.go:29-78: the answer tells the operator what
\* happened. Accepted means recorded and written, to one connection, once;
\* 404, 400 and 409 mean nothing was recorded and nothing will be written;
\* 500 means nothing was written; and nothing is ever written that the history
\* does not show, whatever fails and wherever the process dies.
AnswersMatchEffects ==
    \A r \in Requests :
        /\ answer[r] = "accepted" => SentOn(r) # {}
        /\ SentOn(r) # {} => Recorded(r) /\ answer[r] \in {"none", "accepted", "lost"}
        /\ \A c, d \in SentOn(r) : c = d
        /\ answer[r] \in {"notFound", "badRequest", "conflict"} => ~Recorded(r)

\* handler.go:243-247: "synced" is only shown when the agent has reported the
\* very config of its latest push applied, also while pushes, reports and
\* sweeps of the same row interleave and across restarts.
SyncedIsAcknowledged ==
    \A u \in DOMAIN rows :
        rows[u].sync = "synced" =>
            /\ rows[u].lastHash # NoHash
            /\ [status |-> "APPLIED", hash |-> rows[u].lastHash] \in reported[u]

\* The lifecycle of configs this server implements: the progress of a push is
\* where its request got to, target and sync state are columns of the agent's
\* row, acked is what its row was told.
Stage(r) ==
    CASE at[r] \in {"receive", "get", "append"} -> "none"
      [] at[r] = "upsert" -> "recorded"
      [] at[r] = "send" -> "adopted"
      [] at[r] = "sent" -> "delivered"

Acked(u) == {report.hash : report \in {rep \in reported[u] : rep.status = "APPLIED"}}

Lifecycle == INSTANCE ConfigLifecycle WITH
    stage  <- [r \in Requests |-> Stage(r)],
    target <- [u \in Agents |-> Load(rows, u).lastHash],
    sync   <- [u \in Agents |-> Load(rows, u).sync],
    acked  <- [u \in Agents |-> Acked(u)]

\* The server implements ConfigLifecycle: record before adopt before send, each
\* at most once, and a sync state moves only to where a push or a report takes it,
\* whatever the sweeper, a restart or a lost report does. (ConfigLifecycle has a
\* report come at any time: a step of those that looked like one would pass.)
ImplementsLifecycle == Lifecycle!Spec

-----------------------------------------------------------------------------
(* What the source says and the code does not do: see the run that refutes *)
(* it.                                                                     *)

\* handler.go:243-247 and store.go:18-19, the sync state is about the last
\* config pushed: "failed" is shown for an agent that reported its latest push
\* failed.
FailedIsAboutLatestPush ==
    \A u \in DOMAIN rows :
        rows[u].sync = "failed" =>
            [status |-> "FAILED", hash |-> rows[u].lastHash] \in reported[u]

-----------------------------------------------------------------------------
(* Liveness.                                                               *)

\* The sweeper's ticker keeps firing and its loop keeps running, time passes,
\* and a store does not refuse the same update for ever.
Fairness ==
    /\ WF_vars(Tick)
    /\ WF_vars(SweepList) /\ WF_vars(SweepClock) /\ WF_vars(SweepEnd)
    /\ \A u \in Agents : WF_vars(SweepUpdate(u) \/ SweepSkip(u)) /\ SF_vars(SweepUpdate(u))

FairSpec == Spec /\ Fairness

\* No message of the agent is being handled; its connections may be in any state.
Silent(u) == \A c \in Conns : handler[c].pc # "read" => handler[c].msg.uid # u

\* sweeper.go:11-15: an agent that sends nothing any more ends up disconnected
\* and stays so, although its connections may stay open or broken and never be
\* closed, a pass that listed it before its last message is still writing,
\* updates fail now and then, or the server restarts.
SilentAgentEndsDisconnected ==
    \A u \in Agents :
        <>[]Silent(u) => <>[](u \in DOMAIN rows => rows[u].state = "disconnected")
=============================================================================
