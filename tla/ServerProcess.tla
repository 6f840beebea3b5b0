--------------------------- MODULE ServerProcess ---------------------------
(***************************************************************************)
(* The server process (cmd/opamp-server/main.go) around its store: main's  *)
(* goroutine starts the others, waits for a signal, shuts the listeners    *)
(* down, closes the store and returns, which ends all the others wherever  *)
(* they are. Message loops (on hijacked connections, which Shutdown neither *)
(* closes nor waits for), REST pushes and the sweeper call the store       *)
(* meanwhile.                                                              *)
(*                                                                         *)
(* A message or a push is one goroutine here and is handled once. Of a     *)
(* push the model keeps the calls to the store: what it does with its      *)
(* connection is OpampServer's.                                            *)
(***************************************************************************)
EXTENDS FleetStore

CONSTANTS
    Messages, Requests, Sweeper,
    UidOf        \* [Messages \cup Requests -> Uids]: the agent it is about

ASSUME ProcessConstants ==
    /\ Clients = Messages \cup Requests \cup {Sweeper}
    /\ Messages \cap Requests = {}
    /\ Sweeper \notin Messages \cup Requests
    /\ UidOf \in [Messages \cup Requests -> Uids]

VARIABLES
    phase,    \* how far main is
    expired,  \* the 15 s of shutdownCtx are over
    early,    \* run returned because a listener failed, without Shutdown
    step,     \* [Requests -> which of its calls a push is at]
    sweep,    \* what the sweeper is at
    todo      \* the agents this pass still has to update

mainVars == <<phase, expired, early>>
sweepVars == <<sweep, todo>>
vars == <<storeVars, mainVars, step, sweepVars>>

Phases == {"down", "serving", "stopRest", "stopOpamp", "closing", "exiting"}
InFlightSteps == {"get", "append", "upsert"}
InFlight(r) == step[r] \in InFlightSteps
Alive == phase # "down"

TypeOK ==
    /\ StoreTypeOK
    /\ phase \in Phases /\ expired \in BOOLEAN /\ early \in BOOLEAN
    /\ step \in [Requests -> {"new", "done", "cut"} \cup InFlightSteps]
    /\ sweep \in {"rest", "listing", "writing"} /\ todo \subseteq Uids

Init ==
    /\ StoreInit
    /\ phase = "down" /\ expired = FALSE /\ early = FALSE
    /\ step = [r \in Requests |-> "new"]
    /\ sweep = "rest" /\ todo = {}

-----------------------------------------------------------------------------
(* main's goroutine. *)

Goto(from, to) == phase = from /\ phase' = to

\* run up to the select: the store is open before anything calls it.
Start ==
    /\ Goto("down", "serving")
    /\ Open
    /\ UNCHANGED <<expired, early, step, sweepVars>>

\* SIGTERM: the select is over, and restServer.Shutdown is next.
Signal ==
    /\ Goto("serving", "stopRest")
    /\ UNCHANGED <<storeVars, expired, early, step, sweepVars>>

\* A listener fails: run returns the error, its deferred calls run.
ListenerFails ==
    /\ Goto("serving", "closing")
    /\ early' = TRUE
    /\ UNCHANGED <<storeVars, expired, step, sweepVars>>

\* Faulty: the REST server is closed, which waits for no request.
RestClosed ==
    /\ Goto("stopRest", "stopOpamp")
    /\ UNCHANGED <<storeVars, expired, early, step, sweepVars>>

\* Faulty: Shutdown is given a context that does not end.
RestDownUnhurried ==
    /\ Goto("stopRest", "stopOpamp")
    /\ \A r \in Requests : ~InFlight(r)
    /\ UNCHANGED <<storeVars, expired, early, step, sweepVars>>

\* Shutdown of the REST server returns once no request is active, or with the
\* context's error, which is logged.
RestDown ==
    /\ Goto("stopRest", "stopOpamp")
    /\ expired \/ \A r \in Requests : ~InFlight(r)
    /\ UNCHANGED <<storeVars, expired, early, step, sweepVars>>

Expire ==
    /\ phase = "stopRest" /\ ~expired
    /\ expired' = TRUE
    /\ UNCHANGED <<storeVars, phase, early, step, sweepVars>>

\* Shutdown of the OpAMP server does not know of hijacked connections.
OpampDown ==
    /\ Goto("stopOpamp", "closing")
    /\ UNCHANGED <<storeVars, expired, early, step, sweepVars>>

\* The deferred st.Close().
CloseStore ==
    /\ Goto("closing", "exiting")
    /\ Close
    /\ UNCHANGED <<expired, early, step, sweepVars>>

\* The process is gone: main has returned, or it was killed at any point.
Gone ==
    /\ phase' = "down"
    /\ Die
    /\ step' = [r \in Requests |-> IF InFlight(r) THEN "cut" ELSE step[r]]
    /\ sweep' = "rest" /\ todo' = {}
    /\ expired' = FALSE /\ early' = FALSE

Exit == phase = "exiting" /\ Gone
Kill == Alive /\ Gone

-----------------------------------------------------------------------------
(* The goroutines that call the store. *)

\* onMessage on some connection; such connections live as long as the process.
Receive(m) ==
    /\ Alive /\ call[m] = NoCall
    /\ Enter(m, [op |-> "upsert", uid |-> UidOf[m]])
    /\ UNCHANGED <<mainVars, step, sweepVars>>

CallFrom(r, op) ==
    /\ Enter(r, [op |-> op, uid |-> UidOf[r]])
    /\ step' = [step EXCEPT ![r] = op]
    /\ UNCHANGED <<mainVars, sweepVars>>

\* The REST server takes requests until its Shutdown has closed the listener and
\* seen every connection go idle; also later if that was not waited for.
Accepting == phase \in {"serving", "stopRest"} \/ (Alive /\ (early \/ expired))

\* handlePushConfig: does the agent exist?
Arrive(r) == Accepting /\ step[r] = "new" /\ CallFrom(r, "get")

Found(r) == outcome[r] = "ok" /\ UidOf[r] \in DOMAIN seen[r]

\* PushConfig records the push, then adopts it in the agent's row.
Record(r) == step[r] = "get" /\ at[r] = "idle" /\ Found(r) /\ CallFrom(r, "append")
Adopt(r) == step[r] = "append" /\ at[r] = "idle" /\ outcome[r] = "ok" /\ CallFrom(r, "upsert")

\* The handler answers: 404, 500, or what comes of sending the config.
Answer(r) ==
    /\ at[r] = "idle"
    /\ \/ step[r] = "get" /\ ~Found(r)
       \/ step[r] = "append" /\ outcome[r] # "ok"
       \/ step[r] = "upsert"
    /\ step' = [step EXCEPT ![r] = "done"]
    /\ UNCHANGED <<storeVars, mainVars, sweepVars>>

\* sweepOnce. A tick that came during a pass may win over a cancelled context,
\* for select picks at random: a pass may begin as long as the process lives.
SweepList ==
    /\ Alive /\ sweep = "rest" /\ at[Sweeper] = "idle"
    /\ Enter(Sweeper, [op |-> "list", uid |-> NoUid])
    /\ sweep' = "listing"
    /\ UNCHANGED <<mainVars, step, todo>>

\* Which of the listed agents are to change depends on their age.
SweepPlan ==
    /\ sweep = "listing" /\ at[Sweeper] = "idle"
    /\ IF outcome[Sweeper] = "ok"
       THEN sweep' = "writing" /\ todo' \in SUBSET DOMAIN seen[Sweeper]
       ELSE sweep' = "rest" /\ UNCHANGED todo
    /\ UNCHANGED <<storeVars, mainVars, step>>

\* Faulty: the update is not told which agent it is for.
SweepWriteUnnamed(u) ==
    /\ sweep = "writing" /\ u \in todo
    /\ Enter(Sweeper, [op |-> "upsert", uid |-> NoUid])
    /\ todo' = todo \ {u}
    /\ UNCHANGED <<mainVars, step, sweep>>

\* An update that fails is logged; the pass goes on with the next agent.
SweepWrite(u) ==
    /\ sweep = "writing" /\ u \in todo
    /\ Enter(Sweeper, [op |-> "upsert", uid |-> u])
    /\ todo' = todo \ {u}
    /\ UNCHANGED <<mainVars, step, sweep>>

SweepEnd ==
    /\ sweep = "writing" /\ todo = {} /\ at[Sweeper] = "idle"
    /\ sweep' = "rest"
    /\ UNCHANGED <<storeVars, mainVars, step, todo>>

StoreStep(c) == (Acquire(c) \/ CallStep(c)) /\ UNCHANGED <<mainVars, step, sweepVars>>

MainStep == RestDown \/ OpampDown \/ CloseStore \/ Exit
PushStep(r) == Arrive(r) \/ Record(r) \/ Adopt(r) \/ Answer(r)
SweepStep == SweepList \/ SweepPlan \/ (\E u \in Uids : SweepWrite(u)) \/ SweepEnd

Next ==
    \/ Start \/ Signal \/ ListenerFails \/ Expire \/ MainStep \/ Kill
    \/ \E m \in Messages : Receive(m)
    \/ \E r \in Requests : PushStep(r)
    \/ SweepStep
    \/ \E c \in Clients : StoreStep(c)

Spec == Init /\ [][Next]_vars

-----------------------------------------------------------------------------
(* Properties. *)

\* store.go:76-78 and 86-89: seen from its callers the store is a table with
\* atomic operations, whatever is waiting, failing, closing or dying.
Promise == INSTANCE AtomicStore WITH
    stage <- [c \in Clients |-> IF at[c] = "idle" THEN "idle" ELSE "asked"],
    outcome <- [c \in Clients |-> IF outcome[c] = "busy" THEN "failed" ELSE outcome[c]],
    answer <- [c \in Clients |->
                  IF IsRead(call[c]) /\ outcome[c] = "ok" THEN seen[c] ELSE EmptyMap]

ImplementsAtomicStore == Promise!Spec

Writers == Messages \cup Requests
Stored(c) == UidOf[c] \in DOMAIN agents /\ c \in agents[UidOf[c]]

\* sqlite.go:81-109: what UpsertAgent returned is what the file holds, across
\* later updates of the same row by others, failures and crashes; a push that
\* is adopted in a row is in the history.
ReturnsTellTheTruth ==
    /\ \A c \in Writers : call[c].op = "upsert" =>
        /\ outcome[c] = "ok" => Stored(c)
        /\ outcome[c] \in {"none", "failed", "busy"} => ~Stored(c)
    /\ \A r \in Requests : Stored(r) => r \in pushes

\* sqlite.go:68-70: one connection avoids "database is locked": no update is
\* refused because another one runs.
NoneRefusedAsBusy == \A c \in Clients : outcome[c] # "busy"

\* main.go:144-153 and 77: after a signal the store is closed only once the REST
\* requests in flight are answered, unless they take longer than the grace
\* period.
StoreOutlivesRequests ==
    phase = "exiting" /\ ~early /\ ~expired => \A r \in Requests : ~InFlight(r)

\* The pool, the file and the deadline do not stop; a call that waits gets a
\* connection in the end, for the pool picks at random. A request goes on as
\* far as its calls of the store; the answer of one that sends the config waits
\* for the peer of a connection, and need not come.
Fairness ==
    /\ \A c \in Clients :
        /\ SF_vars(Acquire(c) /\ UNCHANGED <<mainVars, step, sweepVars>>)
        /\ WF_vars(CallStep(c) /\ UNCHANGED <<mainVars, step, sweepVars>>)
    /\ \A r \in Requests : WF_vars(Record(r) \/ Adopt(r))
    /\ WF_vars(Expire) /\ WF_vars(MainStep)

FairSpec == Spec /\ Fairness

\* sqlite.go:99-109: every call returns, for each one before it gives back the
\* only connection, whether it succeeds or fails.
CallsReturn == \A c \in Clients : at[c] # "idle" ~> at[c] = "idle"

\* main.go:144-153: a process that was told to stop does, however long its
\* requests take.
StopsInTheEnd == phase = "stopRest" ~> phase = "down"
=============================================================================
