------------------------------ MODULE Reports ------------------------------
(***************************************************************************)
(* What a row keeps of its collector's own reports (onMessage and          *)
(* applyAgentToServer of internal/opampserver/handler.go, attrs.go, and    *)
(* the columns of sqlite.go they end up in), over connections that break   *)
(* with messages unread, and a store whose errors are only logged.         *)
(*                                                                         *)
(* A message carries some sections of the collector's state, those omitted *)
(* being unchanged since its last message: it is a function whose domain   *)
(* is the set of sections it carries. Of a config status, this is what its *)
(* failure does to the column of the health's error; what it does to       *)
(* ConfigSync is AgentRecord's.                                            *)
(***************************************************************************)
EXTENDS GoMaps, Integers, SequencesExt

CONSTANTS
    Conns,        \* connections of this one collector
    NoConn,
    Descs,        \* AgentDescriptions: [identifying, other : attributes]
    Healths,      \* ComponentHealths: [healthy, lastError, start]
    Configs,      \* AgentConfigMaps: maps from file names to bodies
    Statuses,     \* RemoteConfigStatuses: [failed, errorMessage]
    MaxInt64,     \* where an int64 ends
    Second,       \* nanoseconds in a second
    MaxUnread,    \* bound: messages of a connection nobody has read
    MaxChanges, MaxDrops, MaxLosses      \* bounds

\* Of the attributes with a column of their own, these three: the version, node
\* and pod follow the rule of the name.
Keys == {"service.name", "service.namespace", "k8s.namespace.name"}

\* Of type map[string]string.
IsText(m, keys) == DOMAIN m \subseteq keys /\ m \in [DOMAIN m -> STRING]

ASSUME ReportConstants ==
    /\ NoConn \notin Conns
    /\ MaxInt64 \in Nat /\ Second \in Nat \ {0}
    /\ \A d \in Descs : IsText(d.identifying, Keys) /\ IsText(d.other, Keys)
    /\ \A h \in Healths : h.healthy \in BOOLEAN /\ h.start \in 0 .. 2 * MaxInt64 + 1
    /\ \A f \in Configs : IsFiniteSet(DOMAIN f) /\ IsText(f, STRING)
    /\ \A t \in Statuses : t.failed \in BOOLEAN /\ t.errorMessage \in STRING

VARIABLES
    truth,      \* the collector's state, by section
    sent,       \* its state when it last sent a message
    cur,        \* the connection it uses
    unread,     \* [Conns -> its messages the server has yet to handle]
    row,        \* what the table holds of it
    changes, drops, losses,      \* how often each has happened, up to its bound
    said,       \* history: the last error it told of, in any section
    suspect,    \* history: columns whose last report was lost, or was followed
                \* by one of an older connection
    retried     \* history: a message was stored after the last loss

bounds == <<changes, drops, losses>>
vars == <<truth, sent, cur, unread, row, bounds, said, suspect, retried>>

Sections == {"desc", "health", "config", "status"}
States == [desc : Descs, health : Healths, config : Configs, status : Statuses]

\* The columns fed by a section each, and the one that two write: LastError.
Columns == {"desc", "health", "config", "error"}

Attr(attrs, key) == IF key \in DOMAIN attrs THEN attrs[key] ELSE ""

\* A row that was not there: the zero Agent.
ZeroRow == [attrs |-> EmptyMap, name |-> "", namespace |-> "", healthy |-> FALSE,
            lastError |-> "", start |-> 0, text |-> <<>>]

TypeOK ==
    /\ truth \in States /\ sent \in States
    /\ cur \in Conns \cup {NoConn}
    /\ DOMAIN unread = Conns
    /\ \A c \in Conns : \A i \in 1 .. Len(unread[c]) :
        DOMAIN unread[c][i] \subseteq Sections
    /\ DOMAIN row = DOMAIN ZeroRow
    /\ DOMAIN row.attrs \subseteq Keys
    /\ row.healthy \in BOOLEAN /\ row.start \in Int
    /\ ToSet(row.text) \subseteq STRING \X STRING
    /\ suspect \subseteq Columns /\ retried \in BOOLEAN

-----------------------------------------------------------------------------
(* The server's functions. *)

\* flattenAttributes: a key of both lists keeps its identifying value.
FlattenAttributes(d) == PutAll(d.other, d.identifying)

\* firstNonEmpty.
FirstNonEmpty(values) ==
    IF \E i \in DOMAIN values : values[i] # ""
    THEN values[CHOOSE i \in DOMAIN values :
                    values[i] # "" /\ \A j \in 1 .. i - 1 : values[j] = ""]
    ELSE ""

\* The namespace column: where the pod runs, before what the service says.
NamespaceOf(attrs, old) ==
    FirstNonEmpty(<<Attr(attrs, "k8s.namespace.name"), Attr(attrs, "service.namespace"), old>>)

\* Faulty: the headers are left out.
JoinBodies(files) == SetToSeqs({files[name] : name \in DOMAIN files})

\* joinConfigMap: all files in one text, in the order in which the map happens
\* to be ranged over.
JoinConfigMap(files) == SetToSeqs({<<name, files[name]>> : name \in DOMAIN files})

\* Faulty: int64(v), unguarded.
StartWrapped(v, old) == (IF v > MaxInt64 THEN v - 2 * MaxInt64 - 2 ELSE v) \div Second

\* StartTime: unset and overflowing values are ignored; the column has seconds.
StartAfter(v, old) == IF 0 < v /\ v <= MaxInt64 THEN v \div Second ELSE old

\* Faulty: the description is written even if the message has none.
DescribedAlways(old, m) ==
    LET attrs == IF "desc" \in DOMAIN m THEN FlattenAttributes(m.desc) ELSE EmptyMap
    IN  [old EXCEPT !.attrs = attrs,
                    !.name = FirstNonEmpty(<<Attr(attrs, "service.name"), @>>),
                    !.namespace = NamespaceOf(attrs, @)]

\* Faulty: a column is what the last description says, if anything.
DescribedAfresh(old, m) ==
    IF "desc" \notin DOMAIN m THEN old
    ELSE LET attrs == FlattenAttributes(m.desc)
         IN  [old EXCEPT !.attrs = attrs,
                         !.name = Attr(attrs, "service.name"),
                         !.namespace = NamespaceOf(attrs, "")]

\* applyAgentToServer, the part of each section.
Described(old, m) ==
    IF "desc" \notin DOMAIN m THEN old
    ELSE LET attrs == FlattenAttributes(m.desc)
         IN  [old EXCEPT !.attrs = attrs,
                         !.name = FirstNonEmpty(<<Attr(attrs, "service.name"), @>>),
                         !.namespace = NamespaceOf(attrs, @)]

Examined(old, m) ==
    IF "health" \notin DOMAIN m THEN old
    ELSE [old EXCEPT !.healthy = m.health.healthy,
                     !.lastError = m.health.lastError,
                     !.start = StartAfter(m.health.start, @)]

\* Texts the row may show after message m.
Texts(old, m) == IF "config" \in DOMAIN m THEN JoinConfigMap(m.config) ELSE {old.text}

\* applyRemoteConfigStatus, what a failure does to LastError.
Failed(old, m) ==
    IF "status" \in DOMAIN m /\ m.status.failed
    THEN [old EXCEPT !.lastError = FirstNonEmpty(<<m.status.errorMessage, @>>)]
    ELSE old

\* Faulty order: the health has the last word.
AppliedHealthLast(old, m, text) ==
    Examined(Failed([Described(old, m) EXCEPT !.text = text], m), m)

Applied(old, m, text) ==
    Failed([Examined(Described(old, m), m) EXCEPT !.text = text], m)

-----------------------------------------------------------------------------
(* Histories. *)

TellsFailure(m) == "status" \in DOMAIN m /\ m.status.failed /\ m.status.errorMessage # ""

\* The columns m speaks of: a section's own, and the error's.
Told(m) ==
    (DOMAIN m \ {"status"})
    \cup (IF "health" \in DOMAIN m \/ TellsFailure(m) THEN {"error"} ELSE {})

\* The error it tells of: a config that failed counts for more than the health.
ErrorOf(m) == IF TellsFailure(m) THEN m.status.errorMessage ELSE m.health.lastError

Say(m) == said' = IF "error" \in Told(m) THEN ErrorOf(m) ELSE said

-----------------------------------------------------------------------------
(* The collector (external): it reports everything when it connects, and   *)
(* later what has changed since its last message, if anything has.         *)

Init ==
    /\ truth \in States
    /\ sent = truth
    /\ cur = NoConn
    /\ unread = [c \in Conns |-> <<>>]
    /\ row = ZeroRow
    /\ changes = 0 /\ drops = 0 /\ losses = 0
    /\ said = "" /\ suspect = {} /\ retried = FALSE

Change ==
    /\ changes < MaxChanges
    /\ changes' = changes + 1
    /\ \E s \in Sections, v \in Descs \cup Healths \cup Configs \cup Statuses :
        /\ [truth EXCEPT ![s] = v] \in States \ {truth}
        /\ truth' = [truth EXCEPT ![s] = v]
    /\ UNCHANGED <<sent, cur, unread, row, drops, losses, said, suspect, retried>>

Connect(c) ==
    /\ cur = NoConn /\ unread[c] = <<>>
    /\ cur' = c
    /\ unread' = [unread EXCEPT ![c] = <<truth>>]
    /\ sent' = truth /\ Say(truth)
    /\ suspect' = {}
    /\ UNCHANGED <<truth, row, bounds, retried>>

Report ==
    /\ cur # NoConn
    /\ Len(unread[cur]) < MaxUnread
    /\ LET changed == {s \in Sections : truth[s] # sent[s]}
           m == [s \in changed |-> truth[s]]
       IN  unread' = [unread EXCEPT ![cur] = Append(@, m)] /\ Say(m)
    /\ sent' = truth
    /\ UNCHANGED <<truth, cur, row, bounds, suspect, retried>>

\* The collector gives its connection up; the server may still read from it.
Drop ==
    /\ cur # NoConn
    /\ drops < MaxDrops
    /\ drops' = drops + 1
    /\ cur' = NoConn
    /\ UNCHANGED <<truth, sent, unread, row, changes, losses, said, suspect, retried>>

\* The server learns of it, or restarts: what it has not read is gone.
CutOff(c) ==
    /\ c # cur /\ unread[c] # <<>>
    /\ unread' = [unread EXCEPT ![c] = <<>>]
    /\ UNCHANGED <<truth, sent, cur, row, bounds, said, suspect, retried>>

-----------------------------------------------------------------------------
(* The server: onMessage, of each connection in a goroutine of its own.    *)

Handled(c) == unread' = [unread EXCEPT ![c] = Tail(@)]

Receive(c) ==
    /\ unread[c] # <<>>
    /\ LET m == Head(unread[c])
       IN  /\ \E text \in Texts(row, m) : row' = Applied(row, m, text)
           /\ suspect' = IF c = cur THEN suspect \ Told(m) ELSE suspect \cup Told(m)
    /\ Handled(c)
    /\ retried' = (losses > 0)
    /\ UNCHANGED <<truth, sent, cur, bounds, said>>

\* UpsertAgent fails: the error is logged, the message answered.
Lose(c) ==
    /\ unread[c] # <<>>
    /\ losses < MaxLosses
    /\ losses' = losses + 1
    /\ suspect' = suspect \cup Told(Head(unread[c]))
    /\ Handled(c)
    /\ retried' = FALSE
    /\ UNCHANGED <<truth, sent, cur, row, changes, drops, said>>

Next ==
    \/ Change \/ Report \/ Drop
    \/ \E c \in Conns : Connect(c) \/ CutOff(c) \/ Receive(c) \/ Lose(c)

Spec == Init /\ [][Next]_vars

-----------------------------------------------------------------------------
(* Properties. *)

\* The attribute a description gives a key; the identifying one counts.
Given(d, key) ==
    IF key \in DOMAIN d.identifying THEN d.identifying[key] ELSE Attr(d.other, key)

\* What the row should show of state s of the collector.
ShowsDesc(s) ==
    LET Shown(column, key) == Given(s.desc, key) # "" => column = Given(s.desc, key)
    IN  /\ DOMAIN row.attrs = DOMAIN s.desc.identifying \cup DOMAIN s.desc.other
        /\ \A key \in DOMAIN row.attrs : row.attrs[key] = Given(s.desc, key)
        /\ Shown(row.name, "service.name")
        /\ Shown(row.namespace, "k8s.namespace.name")
        /\ Given(s.desc, "k8s.namespace.name") = "" => Shown(row.namespace, "service.namespace")

ShowsHealth(s) ==
    /\ row.healthy = s.health.healthy
    /\ s.health.start \in 1 .. MaxInt64 => row.start = s.health.start \div Second

ShowsConfig(s) ==
    /\ ToSet(row.text) = {<<name, s.config[name]>> : name \in DOMAIN s.config}
    /\ IsInjective(row.text)

Shows(column, s) ==
    CASE column = "desc" -> ShowsDesc(s)
      [] column = "health" -> ShowsHealth(s)
      [] column = "config" -> ShowsConfig(s)
      [] column = "error" -> row.lastError = said

AllRead == \A c \in Conns : unread[c] = <<>>

\* handler.go:201-203: although messages carry only what has changed, a row
\* shows its collector's state as last reported, and of its errors the one it
\* told of last (its health's or, lines 263-265, that of a config that failed),
\* once everything is read, except for columns whose report the store lost or
\* an older connection's message overwrote; a reconnection repairs those too.
QuietRowIsTrue ==
    cur # NoConn /\ AllRead => \A k \in Columns \ suspect : Shows(k, sent)

\* handler.go:225-231: whatever a collector sends, its start time is one it had.
StartTimeIsReal ==
    row.start = 0 \/ \E h \in Healths : h.start <= MaxInt64 /\ row.start = h.start \div Second

\* handler.go:212-218: a description that lacks an attribute does not blank the
\* column the fleet is grouped by, over connections and restarts.
KnownStaysKnown ==
    [][/\ row.name # "" => row'.name # ""
       /\ row.namespace # "" => row'.namespace # ""]_vars

\* Collectors reconnect and keep reporting, and the server keeps reading.
Fairness ==
    /\ WF_vars(\E c \in Conns : Connect(c))
    /\ WF_vars(Report)
    /\ \A c \in Conns : WF_vars(Receive(c))

FairSpec == Spec /\ Fairness

\* handler.go:201-203: once a collector stays as it is and keeps its connection,
\* it is in the end shown as it is, with the error it told of last, but for what
\* the store lost of its last reports.
Converges == <>[](\A k \in Columns \ suspect : Shows(k, truth))

\* handler.go:190-191 has it that after a failed update "the next successful
\* message will retry the write".
WriteRetried ==
    cur # NoConn /\ AllRead /\ retried => \A k \in Columns : Shows(k, sent)
=============================================================================
