----------------------------- MODULE FleetStore -----------------------------
(***************************************************************************)
(* SQLiteStore (internal/store/sqlite.go): calls of several goroutines over *)
(* the connection pool of database/sql to one database file. A call waits  *)
(* for a connection, runs its statements on it and gives it back. The only *)
(* transaction of several statements is UpsertAgent's: read the row, let   *)
(* the caller mutate the copy, write every column, commit.                 *)
(*                                                                         *)
(* Of a row the model keeps which callers' mutators are folded into it.    *)
(* SQLite itself is external: a transaction reads from the snapshot of its *)
(* first read, and may only write if no other one has written since or is  *)
(* about to commit.                                                        *)
(***************************************************************************)
EXTENDS GoMaps, FiniteSets, Naturals

CONSTANTS
    Uids, NoUid,
    Clients      \* goroutines, each in at most one call at a time

VARIABLES
    agents,   \* table agents, committed: uid -> callers folded into the row
    pushes,   \* table config_pushes, committed: callers that appended a row
    db,       \* "open" or "closed": the pool
    at,       \* [Clients -> how far its call is]
    call,     \* [Clients -> its last call]
    seen,     \* [Clients -> the agents table as its call has read or returned it]
    outcome   \* [Clients -> what its last call returned]

tables == <<agents, pushes>>
storeVars == <<agents, pushes, db, at, call, seen, outcome>>

ASSUME StoreConstants == IsFiniteSet(Clients) /\ NoUid \notin Uids

Calls == [op : {"upsert", "append", "get"}, uid : Uids] \cup {[op |-> "list", uid |-> NoUid]}
NoCall == [op |-> "none", uid |-> NoUid]
IsRead(k) == k.op \in {"get", "list"}
Tables == Maps(Uids, SUBSET Clients)
Places == {"idle", "waiting", "open", "read", "written"}
Outcomes == {"none", "ok", "failed", "busy", "lost"}

StoreTypeOK ==
    /\ DOMAIN agents \subseteq Uids /\ agents \in [DOMAIN agents -> SUBSET Clients]
    /\ pushes \subseteq Clients
    /\ db \in {"open", "closed"}
    /\ at \in [Clients -> Places]
    /\ call \in [Clients -> Calls \cup {NoCall}]
    /\ seen \in [Clients -> Tables]
    /\ outcome \in [Clients -> Outcomes]

\* The file as earlier processes left it, new or with rows that none of these
\* callers had a part in, and a process that has not opened it.
StoreInit ==
    /\ agents \in Maps(Uids, {{}}) /\ pushes = {}
    /\ db = "closed"
    /\ at = [c \in Clients |-> "idle"]
    /\ call = [c \in Clients |-> NoCall]
    /\ seen = [c \in Clients |-> EmptyMap]
    /\ outcome = [c \in Clients |-> "none"]

-----------------------------------------------------------------------------
(* The pool. *)

\* Faulty: two connections.
TwoOpenConns == 2

MaxOpenConns == 1

\* Faulty: a call that fails returns without Rollback, and its connection never
\* gets back to the pool.
InUseUnreleased ==
    {c \in Clients : at[c] \in {"open", "read", "written"} \/ outcome[c] = "failed"}

InUse == {c \in Clients : at[c] \in {"open", "read", "written"}}

\* A goroutine calls the store.
Enter(c, k) ==
    /\ at[c] = "idle"
    /\ at' = [at EXCEPT ![c] = "waiting"]
    /\ call' = [call EXCEPT ![c] = k]
    /\ outcome' = [outcome EXCEPT ![c] = "none"]
    /\ seen' = [seen EXCEPT ![c] = EmptyMap]
    /\ UNCHANGED <<agents, pushes, db>>

\* The pool hands out a connection; which of those waiting gets it is random.
Acquire(c) ==
    /\ at[c] = "waiting" /\ db = "open"
    /\ Cardinality(InUse) < MaxOpenConns
    /\ at' = [at EXCEPT ![c] = "open"]
    /\ UNCHANGED <<agents, pushes, db, call, seen, outcome>>

\* The call returns; its connection, if it had one, is back in the pool.
Finish(c, result, rows) ==
    /\ at' = [at EXCEPT ![c] = "idle"]
    /\ outcome' = [outcome EXCEPT ![c] = result]
    /\ seen' = [seen EXCEPT ![c] = rows]
    /\ UNCHANGED <<db, call>>

\* "sql: database is closed": also for those that were waiting already.
TurnAway(c) ==
    /\ at[c] = "waiting" /\ db = "closed"
    /\ Finish(c, "failed", EmptyMap)
    /\ UNCHANGED tables

-----------------------------------------------------------------------------
(* UpsertAgent: one transaction. *)

ReadRow(c) ==
    /\ at[c] = "open" /\ call[c].op = "upsert"
    /\ at' = [at EXCEPT ![c] = "read"]
    /\ seen' = [seen EXCEPT ![c] = agents]
    /\ UNCHANGED <<agents, pushes, db, call, outcome>>

\* SQLITE_BUSY: another transaction holds the write lock, or has committed
\* since this one took its snapshot.
WriteLocked(c) == \E d \in Clients \ {c} : at[d] = "written"
Busy(c) == WriteLocked(c) \/ seen[c] # agents

WriteRow(c) ==
    /\ at[c] = "read"
    /\ IF Busy(c) THEN Finish(c, "busy", EmptyMap)
       ELSE at' = [at EXCEPT ![c] = "written"] /\ UNCHANGED <<db, call, seen, outcome>>
    /\ UNCHANGED tables

\* Faulty: the row is built from a zero Agent, not from the one in the table.
FoldedAfresh(c) == {c}

\* The row the transaction writes: the one it read, or the zero Agent if there
\* was none, with the caller's mutator run on it.
Folded(c) ==
    (IF call[c].uid \in DOMAIN seen[c] THEN seen[c][call[c].uid] ELSE {}) \cup {c}

Commit(c) ==
    /\ at[c] = "written"
    /\ agents' = Put(agents, call[c].uid, Folded(c))
    /\ Finish(c, "ok", EmptyMap)
    /\ UNCHANGED pushes
-----------------------------------------------------------------------------
(* Calls of one statement, and failures.                                   *)

\* AppendConfigPush; busy_timeout makes it wait for the write lock.
Append(c) ==
    /\ at[c] = "open" /\ call[c].op = "append" /\ ~WriteLocked(c)
    /\ pushes' = pushes \cup {c}
    /\ Finish(c, "ok", EmptyMap)
    /\ UNCHANGED agents

\* GetAgent, ListAgents: one SELECT, which reads one snapshot.
Query(c) ==
    /\ at[c] = "open" /\ IsRead(call[c])
    /\ Finish(c, "ok", agents)
    /\ UNCHANGED tables

\* Faulty: withTx ignores the error of fn or of Commit.
FailUnnoticed(c) ==
    /\ at[c] \in {"open", "read", "written"}
    /\ Finish(c, "ok", EmptyMap)
    /\ UNCHANGED tables

\* A statement fails (a full or broken volume) and withTx rolls back, or the
\* commit fails, which withTx only returns: SQLite has rolled back by then. The
\* caller gets the error.
Fail(c) ==
    /\ at[c] \in {"open", "read", "written"}
    /\ Finish(c, "failed", EmptyMap)
    /\ UNCHANGED tables

\* The steps of a call once it has been made; waiting is left to the pool.
CallStep(c) ==
    \/ TurnAway(c)
    \/ ReadRow(c)
    \/ WriteRow(c)
    \/ Commit(c)
    \/ Append(c)
    \/ Query(c)
    \/ Fail(c)

\* NewSQLiteStore and Close. Close does not wait for connections in use.
Open == db' = "open" /\ UNCHANGED <<agents, pushes, at, call, seen, outcome>>
Close == db' = "closed" /\ UNCHANGED <<agents, pushes, at, call, seen, outcome>>

\* The process ends wherever its goroutines are: what is committed stays.
Die ==
    /\ db' = "closed"
    /\ at' = [c \in Clients |-> "idle"]
    /\ outcome' = [c \in Clients |-> IF at[c] = "idle" THEN outcome[c] ELSE "lost"]
    /\ seen' = [c \in Clients |-> IF at[c] = "idle" THEN seen[c] ELSE EmptyMap]
    /\ UNCHANGED <<agents, pushes, call>>
=============================================================================
