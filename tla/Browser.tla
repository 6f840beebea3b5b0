------------------------------ MODULE Browser ------------------------------
(***************************************************************************)
(* The operator's browser tab (ui/src): the credential in sessionStorage   *)
(* and the request function every call goes through (api/client.ts), the   *)
(* signed-in state (App.tsx, Login.tsx) and the poll of the whole fleet    *)
(* (hooks/useFleetData.ts). The REST API is what the tab sees of it: a     *)
(* table whose versions are numbered, and the credentials it accepts.      *)
(*                                                                         *)
(* A timer may fire at any moment, so that a poll may overlap the next one,*)
(* and the load of a new effect is its first tick. A request is answered   *)
(* in one step, at any time after it was sent. The spinner of the first    *)
(* load is left out.                                                       *)
(***************************************************************************)
EXTENDS Naturals

CONSTANTS
    Creds, NoCred,  \* values of an Authorization header; none
    Kept,           \* what the tab may have kept of them when it is opened
    MaxCalls,       \* bound: calls under way at a time
    Nothing,        \* null: no call, no data yet, no error
    Waiting,        \* a request not yet answered
    Refused,        \* answered 401
    Throttled,      \* answered 429, which keeps the credential
    Broken,         \* failed in any other way, or answered with another error
    Rotations,      \* sets of credentials the server may come to accept
    MaxLogins, MaxChanges, MaxFailures   \* bounds

ASSUME BrowserConstants ==
    /\ NoCred \notin Creds /\ Kept \subseteq Creds \cup {NoCred}
    /\ Rotations \subseteq SUBSET Creds
    /\ {Nothing, Waiting, Refused, Throttled, Broken} \cap Nat = {}
    /\ {Nothing, Waiting} \cap {Refused, Throttled, Broken} = {}
    /\ Refused # Throttled /\ Refused # Broken
    /\ MaxCalls \in Nat /\ MaxChanges \in Nat /\ MaxLogins \in Nat

VARIABLES
    credential,  \* sessionStorage: the value every request is sent with
    authed,      \* App's state
    session,     \* which run of useFleetData's effect is the current one
    shown,       \* [agents, namespaces]: versions on the screen
    error,       \* useFleetData's error
    net,         \* [Slots -> the call under way]
    valid,       \* server: the credentials it accepts
    table,       \* server: the version of its table
    failures,    \* how often a call has failed, up to its bound
    refused      \* history: some request was answered 401

tabVars == <<credential, authed, session, refused>>
dataVars == <<shown, error>>
serverVars == <<valid, table, failures>>
browserVars == <<tabVars, dataVars, net, serverVars>>

Slots == 1 .. MaxCalls

Versions == 0 .. MaxChanges
Failures == {Refused, Throttled, Broken}
Errors == Failures \cup {Nothing}

\* A call: of the fleet poll, whose two requests are answered one by one, or
\* of the agent page (see Console).
Call(kind, owner, body) ==
    [kind |-> kind, owner |-> owner, cred |-> credential, body |-> body,
     agents |-> Waiting, namespaces |-> Waiting]

\* A call takes the first free slot.
Free(s) == net[s] = Nothing /\ \A r \in 1 .. s - 1 : net[r] # Nothing

BrowserTypeOK ==
    /\ credential \in Creds \cup {NoCred} /\ authed \in BOOLEAN
    /\ session \in 0 .. MaxLogins
    /\ shown \in [{"agents", "namespaces"} -> Versions \cup {Nothing}]
    /\ error \in Errors
    /\ DOMAIN net = Slots
    /\ valid \subseteq Creds /\ table \in Versions
    /\ refused \in BOOLEAN

\* The page is loaded, perhaps with the credential the tab had before.
BrowserInit ==
    /\ credential \in Kept
    /\ authed = (credential # NoCred)
    /\ session = 0
    /\ shown = [agents |-> Nothing, namespaces |-> Nothing]
    /\ error = Nothing
    /\ net = [s \in Slots |-> Nothing]
    /\ valid = Creds /\ table = 0
    /\ failures = 0
    /\ refused = FALSE

-----------------------------------------------------------------------------
(* The session. *)

\* Login's submit, then App's onSubmit; useFleetData's effect runs anew.
Login(k) ==
    /\ ~authed /\ session < MaxLogins
    /\ credential' = k
    /\ authed' = TRUE
    /\ session' = session + 1
    /\ UNCHANGED <<refused, dataVars, net, serverVars>>

\* App's logout; the effect's cleanup cancels its polls.
Logout ==
    /\ authed
    /\ credential' = NoCred
    /\ authed' = FALSE
    /\ UNCHANGED <<session, refused, dataVars, net, serverVars>>

-----------------------------------------------------------------------------
(* The server, as far as the tab can tell. *)

\* What a call may come to. withAuth looks at the address before it looks at the
\* credential: of a caller that is refused again and again it says so only now
\* and then (see Admission). Failures that have nothing to do with the call's
\* own credential, a 429 for the failures of others among them, are counted as
\* Broken, up to a bound.
Results(c) ==
    (IF c.cred \in valid THEN {table} ELSE {Refused, Throttled})
    \cup (IF failures < MaxFailures THEN {Broken} ELSE {})

\* request: a 401 clears the credential, whichever one it was for.
Heard(result) ==
    /\ credential' = IF result = Refused THEN NoCred ELSE credential
    /\ refused' = (refused \/ result = Refused)
    /\ failures' = IF result = Broken THEN failures + 1 ELSE failures
    /\ UNCHANGED <<authed, session, valid, table>>

\* Another set of tokens is accepted, after a reload.
Rotate ==
    /\ valid' \in Rotations \ {valid}
    /\ UNCHANGED <<tabVars, dataVars, net, table, failures>>

Progress ==
    /\ table < MaxChanges
    /\ table' = table + 1
    /\ UNCHANGED <<tabVars, dataVars, net, valid, failures>>

-----------------------------------------------------------------------------
(* useFleetData. *)

\* Faulty: the hook is not gated.
FleetTickUngated(s) ==
    /\ Free(s)
    /\ net' = [net EXCEPT ![s] = Call("fleet", session, Nothing)]
    /\ UNCHANGED <<tabVars, dataVars, serverVars>>

\* load: both requests are sent.
FleetTick(s) ==
    /\ authed /\ Free(s)
    /\ net' = [net EXCEPT ![s] = Call("fleet", session, Nothing)]
    /\ UNCHANGED <<tabVars, dataVars, serverVars>>

\* Faulty: polls are not cancelled.
LiveAlways(c) == TRUE

\* The effect the poll belongs to has not been cleaned up.
Live(c) == authed /\ c.owner = session

GaveUp(c) == {c.agents, c.namespaces} \cap Failures # {}

\* Faulty: the poll waits for both requests, whatever they come to.
CompleteWhenSettled(c) == Waiting \notin {c.agents, c.namespaces}

Complete(c) == {c.agents, c.namespaces} \subseteq Versions

\* Faulty: the error is left as it is.
ShowOnly(c) ==
    shown' = [agents |-> c.agents, namespaces |-> c.namespaces] /\ UNCHANGED error

Show(c) ==
    /\ shown' = [agents |-> c.agents, namespaces |-> c.namespaces]
    /\ error' = Nothing

\* Faulty: the catch keeps the error to itself.
GiveUpQuietly(result) == UNCHANGED dataVars

GiveUp(result) == error' = result /\ UNCHANGED shown

\* What the result of one request makes of its poll c, which it takes to after:
\* Promise.all has its data with the last one, and gives up at the first
\* failure.
Settle(c, after, result) ==
    IF Live(c) /\ Complete(after) THEN Show(after)
    ELSE IF Live(c) /\ GaveUp(after) /\ ~GaveUp(c) THEN GiveUp(result)
    ELSE UNCHANGED dataVars

\* One of the two requests of a poll is answered.
FleetAnswer(s, part) ==
    /\ net[s] # Nothing /\ net[s].kind = "fleet" /\ net[s][part] = Waiting
    /\ \E result \in Results(net[s]) :
        LET after == [net[s] EXCEPT ![part] = result]
            over == Waiting \notin {after.agents, after.namespaces}
        IN  /\ Heard(result)
            /\ Settle(net[s], after, result)
            /\ net' = [net EXCEPT ![s] = IF over THEN Nothing ELSE after]
=============================================================================
