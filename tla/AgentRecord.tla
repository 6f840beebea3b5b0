---------------------------- MODULE AgentRecord ----------------------------
(***************************************************************************)
(* One row of the agents table (internal/store) and the functions that are *)
(* run on it inside UpsertAgent: applyAgentToServer for a message, the     *)
(* mutators of PushConfig and of the stale sweeper. The table is a         *)
(* function whose domain is a subset of Agents.                            *)
(*                                                                         *)
(* What the row keeps of an agent's own report (attributes, health,        *)
(* effective config, capabilities) is represented by desc, the metrics     *)
(* port of the last AgentDescription: the other fields follow the same     *)
(* "overwrite only if present" rule and no other component reads them.     *)
(* LastSeen is represented by age, the time since LastSeen, which is all   *)
(* the code computes from it; it saturates at DisconnectedAfter, beyond    *)
(* which the code makes no distinction. A config stands for its hash.      *)
(***************************************************************************)
EXTENDS FleetTypes

CONSTANTS
    StaleAfter,         \* silence, in ticks, after which an agent is stale
    DisconnectedAfter   \* silence after which it is disconnected

\* config.validate refuses any other pair of durations.
ASSUME ThresholdsValid ==
    /\ StaleAfter \in Nat /\ DisconnectedAfter \in Nat
    /\ 0 < StaleAfter /\ StaleAfter < DisconnectedAfter

ConnectionStates == {"connected", "stale", "disconnected"}

\* "" is ConfigSync of a row no status report and no push has touched.
SyncStates == {"", "synced", "pending", "drifted", "failed"}

Ages == 0 .. DisconnectedAfter

AgentRow == [state : ConnectionStates \cup {""}, age : Ages,
             desc : Ports \cup {NoPort, Omitted},
             sync : SyncStates, lastHash : Configs \cup {NoHash}]

Tables == Maps(Agents, AgentRow)

StatusReport == [status : {"UNSET", "APPLIED", "APPLYING", "FAILED"},
                 hash : Configs \cup {NoHash}]

\* AgentToServer: every field but the uid may be omitted.
AgentToServer == [uid : Agents, desc : Ports \cup {NoPort, Omitted},
                  status : StatusReport \cup {Omitted}]

\* UpsertAgent's read: a missing row is the zero Agent, whose LastSeen is the
\* zero time.
Load(rows, u) ==
    IF u \in DOMAIN rows THEN rows[u]
    ELSE [state |-> "", age |-> DisconnectedAfter, desc |-> Omitted,
          sync |-> "", lastHash |-> NoHash]

\* UpsertAgent's write, in the transaction of the read.
Save(rows, u, row) == Put(rows, u, row)

HashMatches(row, report) == row.lastHash # NoHash /\ report.hash = row.lastHash

\* Faulty applyRemoteConfigStatus: the hash is not compared.
SyncAfterAny(row, report) ==
    CASE report.status = "APPLIED" -> "synced"
      [] report.status = "APPLYING" -> "pending"
      [] report.status = "FAILED" -> "failed"
      [] report.status = "UNSET" -> row.sync

\* applyRemoteConfigStatus, what it does to ConfigSync: only APPLIED looks at the
\* hash. (FAILED writes LastError as well, a column of Reports.)
SyncAfter(row, report) ==
    CASE report.status = "APPLIED" -> IF HashMatches(row, report) THEN "synced" ELSE "drifted"
      [] report.status = "APPLYING" -> "pending"
      [] report.status = "FAILED" -> "failed"
      [] report.status = "UNSET" -> row.sync

\* applyAgentToServer.
Applied(row, m) ==
    [row EXCEPT !.age = 0,
                !.state = "connected",
                !.desc = IF m.desc = Omitted THEN @ ELSE m.desc,
                !.sync = IF m.status = Omitted THEN @ ELSE SyncAfter(row, m.status)]

\* Faulty mutator of PushConfig: ConfigSync is not reset.
PushedQuietly(row, config) == [row EXCEPT !.lastHash = config]

\* The mutator of PushConfig: the config becomes the one reports are held to.
Pushed(row, config) == [row EXCEPT !.lastHash = config, !.sync = "pending"]

\* Faulty switch: the shorter silence is asked about first.
WantedStateSwapped(age) ==
    IF age >= StaleAfter THEN "stale"
    ELSE IF age >= DisconnectedAfter THEN "disconnected"
    ELSE "connected"

\* What the sweeper wants an agent silent for age to be.
WantedState(age) ==
    IF age >= DisconnectedAfter THEN "disconnected"
    ELSE IF age >= StaleAfter THEN "stale"
    ELSE "connected"

Older(age) == IF age < DisconnectedAfter THEN age + 1 ELSE age
=============================================================================
