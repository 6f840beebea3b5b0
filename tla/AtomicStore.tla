---------------------------- MODULE AtomicStore ----------------------------
(***************************************************************************)
(* What Store (store.go) promises its callers: "safe for concurrent use",  *)
(* "read-modify-write stays atomic". A call is asked, takes effect at one  *)
(* instant or not at all, and returns; the process may die meanwhile and   *)
(* the tables stay. A row is the set of the callers whose mutators are     *)
(* folded into it, so an update that overwrote another would show.         *)
(***************************************************************************)
EXTENDS GoMaps

CONSTANTS Uids, NoUid, Clients

VARIABLES
    agents,   \* table agents: a map from uid to the callers folded in
    pushes,   \* table config_pushes: the callers that appended a push
    stage,    \* [Clients -> "idle" or "asked"]
    call,     \* [Clients -> the call last made]
    outcome,  \* [Clients -> what became of it]
    answer    \* [Clients -> the rows a read returned]

vars == <<agents, pushes, stage, call, outcome, answer>>

Calls == [op : {"upsert", "append", "get"}, uid : Uids] \cup {[op |-> "list", uid |-> NoUid]}
NoCall == [op |-> "none", uid |-> NoUid]
IsRead(k) == k.op \in {"get", "list"}

Init ==
    /\ agents \in Maps(Uids, {{}})
    /\ pushes = {}
    /\ stage = [c \in Clients |-> "idle"]
    /\ call = [c \in Clients |-> NoCall]
    /\ outcome = [c \in Clients |-> "none"]
    /\ answer = [c \in Clients |-> EmptyMap]

Ask(c) ==
    /\ stage[c] = "idle"
    /\ stage' = [stage EXCEPT ![c] = "asked"]
    /\ \E k \in Calls : call' = [call EXCEPT ![c] = k]
    /\ outcome' = [outcome EXCEPT ![c] = "none"]
    /\ answer' = [answer EXCEPT ![c] = EmptyMap]
    /\ UNCHANGED <<agents, pushes>>

Row(u) == IF u \in DOMAIN agents THEN agents[u] ELSE {}

\* The call of c does, at once, all it is to do, and returns.
Take(c) ==
    /\ stage[c] = "asked"
    /\ stage' = [stage EXCEPT ![c] = "idle"]
    /\ outcome' = [outcome EXCEPT ![c] = "ok"]
    /\ agents' = IF call[c].op = "upsert"
                 THEN Put(agents, call[c].uid, Row(call[c].uid) \cup {c}) ELSE agents
    /\ pushes' = IF call[c].op = "append" THEN pushes \cup {c} ELSE pushes
    /\ answer' = IF IsRead(call[c]) THEN [answer EXCEPT ![c] = agents] ELSE answer
    /\ UNCHANGED call

\* An error: nothing happened.
Refuse(c) ==
    /\ stage[c] = "asked"
    /\ stage' = [stage EXCEPT ![c] = "idle"]
    /\ outcome' = [outcome EXCEPT ![c] = "failed"]
    /\ UNCHANGED <<agents, pushes, call, answer>>

\* The process dies: nobody learns what became of the calls in flight.
Crash ==
    /\ stage' = [c \in Clients |-> "idle"]
    /\ outcome' = [c \in Clients |-> IF stage[c] = "idle" THEN outcome[c] ELSE "lost"]
    /\ UNCHANGED <<agents, pushes, call, answer>>

Next ==
    \/ \E c \in Clients : Ask(c) \/ Take(c) \/ Refuse(c)
    \/ Crash

Spec == Init /\ [][Next]_vars
=============================================================================
