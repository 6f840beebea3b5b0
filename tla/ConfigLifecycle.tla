-------------------------- MODULE ConfigLifecycle --------------------------
(***************************************************************************)
(* What the server promises about a remote config, whatever connections,   *)
(* the sweeper, the disk and restarts do: a push is recorded in the        *)
(* history, then adopted as the config its agent is held to, then handed   *)
(* to a connection, in that order and at most once each; and an agent's    *)
(* sync state moves only when a push is adopted (to "pending") or when the *)
(* agent reports, "synced" being reserved for a report of the adopted      *)
(* config.                                                                 *)
(***************************************************************************)
CONSTANTS Agents, Requests, Configs, PushUid, PushBody, NoHash

VARIABLES
    stage,    \* [Requests -> how far the push has come]
    target,   \* [Agents -> the config the agent is held to]
    sync,     \* [Agents -> sync state]
    acked     \* [Agents -> the configs the agent ever reported applied]

lifecycleVars == <<stage, target, sync, acked>>

Init ==
    /\ stage = [r \in Requests |-> "none"]
    /\ target = [u \in Agents |-> NoHash]
    /\ sync = [u \in Agents |-> ""]
    /\ acked = [u \in Agents |-> {}]

\* The push enters the history.
Record(r) ==
    /\ stage[r] = "none"
    /\ stage' = [stage EXCEPT ![r] = "recorded"]
    /\ UNCHANGED <<target, sync, acked>>

\* Its agent is held to it from now on, and owes a report.
Adopt(r) ==
    /\ stage[r] = "recorded"
    /\ stage' = [stage EXCEPT ![r] = "adopted"]
    /\ target' = [target EXCEPT ![PushUid[r]] = PushBody[r]]
    /\ sync' = [sync EXCEPT ![PushUid[r]] = "pending"]
    /\ UNCHANGED acked

\* It is written to a connection.
Deliver(r) ==
    /\ stage[r] = "adopted"
    /\ stage' = [stage EXCEPT ![r] = "delivered"]
    /\ UNCHANGED <<target, sync, acked>>

\* The agent reports that it runs the config with this hash.
ReportApplied(u, hash) ==
    /\ acked' = [acked EXCEPT ![u] = @ \cup {hash}]
    /\ sync' = [sync EXCEPT ![u] =
                    IF hash = target[u] /\ hash # NoHash THEN "synced" ELSE "drifted"]
    /\ UNCHANGED <<stage, target>>

\* The agent reports that it is applying a config, or that one failed.
ReportProgress(u) ==
    /\ \E s \in {"pending", "failed"} : sync' = [sync EXCEPT ![u] = s]
    /\ UNCHANGED <<stage, target, acked>>

Next ==
    \/ \E r \in Requests : Record(r) \/ Adopt(r) \/ Deliver(r)
    \/ \E u \in Agents : ReportProgress(u) \/ \E h \in Configs \cup {NoHash} : ReportApplied(u, h)

Spec == Init /\ [][Next]_lifecycleVars
=============================================================================
