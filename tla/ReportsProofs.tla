---------------------------- MODULE ReportsProofs ----------------------------
(***************************************************************************)
(* What a row shows of its collector, for every value of the constants:    *)
(* any number of connections, of changes, losses and messages unread.      *)
(*                                                                         *)
(* QuietRowIsTrue speaks of the moments when everything is read. What      *)
(* makes it inductive is ReportInv: of the messages the current connection *)
(* has yet to deliver, the last one that speaks of a column says what the  *)
(* collector last said of it, and a column that none of them speaks of is  *)
(* shown already, or is suspect.                                           *)
(*                                                                         *)
(* It also says what the row comes to, once the collector settles and is   *)
(* heard out, and what it shows if nothing is lost.                        *)
(***************************************************************************)
EXTENDS Reports, FiniteSetTheorems, SequenceTheorems, TLAPS

Msgs == {[s \in D |-> x[s]] : D \in SUBSET Sections, x \in States}

QueuesOK == unread \in [Conns -> Seq(Msgs)]

\* Places in the queue of the current connection at which column k is told of.
Pending(k) == {i \in 1 .. Len(unread[cur]) : k \in Told(unread[cur][i])}

\* Message m says of k what was last said.
Says(m, k, error, state) == IF k = "error" THEN ErrorOf(m) = error ELSE m[k] = state[k]
SaysLast(m, k) == Says(m, k, said, sent)

LastIsSent(k) ==
    \A i \in Pending(k) : (\A j \in Pending(k) : j <= i) => SaysLast(unread[cur][i], k)

NonePending(k) == Pending(k) = {}

ColumnInv(k) == LastIsSent(k) /\ (NonePending(k) => k \in suspect \/ Shows(k, sent))

ReportInv == cur # NoConn => \A k \in Columns : ColumnInv(k)

-----------------------------------------------------------------------------
(* The server's functions.                                                 *)

\* The first of two or three strings that is not empty, whichever that is.
LEMMA FirstOfTwo ==
    ASSUME NEW a, NEW b
    PROVE  FirstNonEmpty(<<a, b>>) = IF a # "" THEN a ELSE b
  <1> DEFINE v == <<a, b>>
             first == IF a # "" THEN 1 ELSE 2
             P(i) == v[i] # "" /\ \A j \in 1 .. i - 1 : v[j] = ""
  <1>1. DOMAIN v = {1, 2} /\ v[1] = a /\ v[2] = b
    OBVIOUS
  <1>2. P(1) <=> a # ""
    BY <1>1
  <1>3. P(2) <=> b # "" /\ a = ""
    <2>1. \A j : j \in 1 .. 2 - 1 <=> j = 1
      OBVIOUS
    <2>. QED
      BY <1>1, <2>1
  <1>4. FirstNonEmpty(v) = IF \E i \in DOMAIN v : v[i] # ""
                           THEN v[CHOOSE i \in DOMAIN v : P(i)] ELSE ""
    BY DEF FirstNonEmpty
  <1> HIDE DEF v, P
  <1> SUFFICES FirstNonEmpty(v) = IF a # "" THEN a ELSE b
    BY DEF v
  <1>5. CASE a = "" /\ b = ""
    BY <1>1, <1>4, <1>5
  <1>6. CASE a # "" \/ b # ""
    <2>1. first \in {1, 2} /\ P(first) /\ \A i \in {1, 2} : P(i) => i = first
      BY <1>2, <1>3, <1>6
    <2>2. (CHOOSE i \in DOMAIN v : P(i)) = first
      BY <1>1, <2>1
    <2>. QED
      BY <1>1, <1>4, <1>6, <2>2
  <1>. QED
    BY <1>5, <1>6

LEMMA FirstOfThree ==
    ASSUME NEW a, NEW b, NEW c
    PROVE  FirstNonEmpty(<<a, b, c>>) = IF a # "" THEN a ELSE IF b # "" THEN b ELSE c
  <1> DEFINE v == <<a, b, c>>
             first == IF a # "" THEN 1 ELSE IF b # "" THEN 2 ELSE 3
             P(i) == v[i] # "" /\ \A j \in 1 .. i - 1 : v[j] = ""
  <1>1. DOMAIN v = {1, 2, 3} /\ v[1] = a /\ v[2] = b /\ v[3] = c
    OBVIOUS
  <1>2. P(1) <=> a # ""
    BY <1>1
  <1>3. P(2) <=> b # "" /\ a = ""
    <2>1. \A j : j \in 1 .. 2 - 1 <=> j = 1
      OBVIOUS
    <2>. QED
      BY <1>1, <2>1
  <1>4. P(3) <=> c # "" /\ a = "" /\ b = ""
    <2>1. \A j : j \in 1 .. 3 - 1 <=> j = 1 \/ j = 2
      OBVIOUS
    <2>. QED
      BY <1>1, <2>1
  <1>5. FirstNonEmpty(v) = IF \E i \in DOMAIN v : v[i] # ""
                           THEN v[CHOOSE i \in DOMAIN v : P(i)] ELSE ""
    BY DEF FirstNonEmpty
  <1> HIDE DEF v, P
  <1> SUFFICES FirstNonEmpty(v) = IF a # "" THEN a ELSE IF b # "" THEN b ELSE c
    BY DEF v
  <1>6. CASE a = "" /\ b = "" /\ c = ""
    BY <1>1, <1>5, <1>6
  <1>7. CASE a # "" \/ b # "" \/ c # ""
    <2>1. first \in {1, 2, 3} /\ P(first) /\ \A i \in {1, 2, 3} : P(i) => i = first
      BY <1>2, <1>3, <1>4, <1>7
    <2>2. (CHOOSE i \in DOMAIN v : P(i)) = first
      BY <1>1, <2>1
    <2>. QED
      BY <1>1, <1>5, <1>7, <2>2
  <1>. QED
    BY <1>6, <1>7

\* joinConfigMap lists every file once.
LEMMA JoinedText ==
    ASSUME NEW f, IsFiniteSet(DOMAIN f), NEW text \in JoinConfigMap(f)
    PROVE  ToSet(text) = {<<name, f[name]>> : name \in DOMAIN f} /\ IsInjective(text)
  <1> DEFINE S == {<<name, f[name]>> : name \in DOMAIN f}
             n == Cardinality(S)
             g == [name \in DOMAIN f |-> <<name, f[name]>>]
  <1>1. g \in Surjection(DOMAIN f, S)
    BY DEF Surjection
  <1>2. IsFiniteSet(S)
    BY <1>1, FS_Surjection
  <1> HIDE DEF S
  <1>3. n \in Nat
    BY <1>2, FS_CardinalityType
  <1>4. text \in [1 .. n -> S] /\ \A i, j \in 1 .. n : i # j => text[i] # text[j]
    BY DEF JoinConfigMap, SetToSeqs, S
  <1>5. text \in Injection(1 .. n, S)
    BY <1>4 DEF Injection, IsInjective
  <1>6. Cardinality(1 .. n) = n
    BY <1>3, FS_Interval
  <1>7. text \in Surjection(1 .. n, S)
    BY <1>2, <1>5, <1>6, FS_Injection
  <1>8. ToSet(text) = S
    BY <1>4, <1>7 DEF ToSet, Surjection
  <1>. QED
    BY <1>4, <1>8 DEF IsInjective, S
\* The identifying attributes win.
LEMMA Flattened ==
    ASSUME NEW d \in Descs
    PROVE  LET a == FlattenAttributes(d)
           IN  /\ DOMAIN a = DOMAIN d.identifying \cup DOMAIN d.other
               /\ DOMAIN a \subseteq Keys
               /\ \A key \in DOMAIN a : a[key] = Given(d, key)
               /\ \A key : Attr(a, key) = Given(d, key)
  <1> DEFINE a == FlattenAttributes(d)
  <1>1. a = [key \in DOMAIN d.identifying \cup DOMAIN d.other |->
               IF key \in DOMAIN d.identifying THEN d.identifying[key] ELSE d.other[key]]
    BY DEF FlattenAttributes, PutAll
  <1> HIDE DEF a
  <1>2. DOMAIN a = DOMAIN d.identifying \cup DOMAIN d.other
    BY <1>1
  <1>3. DOMAIN d.identifying \subseteq Keys /\ DOMAIN d.other \subseteq Keys
    BY ReportConstants DEF IsText
  <1>4. \A key \in DOMAIN a : a[key] = Given(d, key)
    BY <1>1 DEF Given, Attr
  <1>5. ASSUME NEW key PROVE Attr(a, key) = Given(d, key)
    BY <1>2, <1>4 DEF Given, Attr
  <1>. QED
    BY <1>2, <1>3, <1>4, <1>5 DEF a

HasFields(r) == DOMAIN r = DOMAIN ZeroRow

\* What a message does to the columns of each section.
LEMMA AppliedColumns ==
    ASSUME NEW old, HasFields(old), NEW m \in Msgs, NEW text, row' = Applied(old, m, text)
    PROVE  /\ HasFields(row')
           /\ row'.text = text
           /\ "desc" \notin DOMAIN m => /\ row'.attrs = old.attrs
                                       /\ row'.name = old.name
                                       /\ row'.namespace = old.namespace
           /\ "desc" \in DOMAIN m =>
                LET attrs == FlattenAttributes(m.desc)
                IN  /\ row'.attrs = attrs
                    /\ row'.name = FirstNonEmpty(<<Attr(attrs, "service.name"), old.name>>)
                    /\ row'.namespace = NamespaceOf(attrs, old.namespace)
           /\ "health" \notin DOMAIN m => row'.healthy = old.healthy /\ row'.start = old.start
           /\ "health" \in DOMAIN m => /\ row'.healthy = m.health.healthy
                                      /\ row'.start = StartAfter(m.health.start, old.start)
           /\ row'.lastError = IF "error" \in Told(m) THEN ErrorOf(m) ELSE old.lastError
  <1> DEFINE mid == Described(old, m)
             late == Examined(mid, m)
             full == [late EXCEPT !.text = text]
  <1>1. /\ HasFields(mid)
        /\ mid.healthy = old.healthy /\ mid.lastError = old.lastError /\ mid.start = old.start
        /\ "desc" \notin DOMAIN m => /\ mid.attrs = old.attrs /\ mid.name = old.name
                                    /\ mid.namespace = old.namespace
        /\ "desc" \in DOMAIN m =>
             LET attrs == FlattenAttributes(m.desc)
             IN  /\ mid.attrs = attrs
                 /\ mid.name = FirstNonEmpty(<<Attr(attrs, "service.name"), old.name>>)
                 /\ mid.namespace = NamespaceOf(attrs, old.namespace)
    BY DEF Described, HasFields, ZeroRow
  <1> HIDE DEF mid
  <1>2. /\ HasFields(late)
        /\ late.attrs = mid.attrs /\ late.name = mid.name /\ late.namespace = mid.namespace
        /\ "health" \notin DOMAIN m => /\ late.healthy = mid.healthy
                                      /\ late.lastError = mid.lastError
                                      /\ late.start = mid.start
        /\ "health" \in DOMAIN m => /\ late.healthy = m.health.healthy
                                   /\ late.lastError = m.health.lastError
                                   /\ late.start = StartAfter(m.health.start, mid.start)
    BY <1>1 DEF Examined, HasFields, ZeroRow
  <1> HIDE DEF late
  <1>3. /\ HasFields(full) /\ full.text = text
        /\ full.attrs = late.attrs /\ full.name = late.name /\ full.namespace = late.namespace
        /\ full.healthy = late.healthy /\ full.lastError = late.lastError
        /\ full.start = late.start
    BY <1>2 DEF HasFields, ZeroRow
  <1> DEFINE told == FirstNonEmpty(<<m.status.errorMessage, full.lastError>>)
  <1>4. row' = IF "status" \in DOMAIN m /\ m.status.failed
               THEN [full EXCEPT !.lastError = told] ELSE full
    BY DEF Applied, Failed, mid, late
  <1> HIDE DEF full
  <1>5. told = IF m.status.errorMessage # "" THEN m.status.errorMessage ELSE full.lastError
    BY FirstOfTwo
  <1> HIDE DEF told
  <1>6. /\ HasFields(row') /\ row'.text = text
        /\ row'.attrs = full.attrs /\ row'.name = full.name /\ row'.namespace = full.namespace
        /\ row'.healthy = full.healthy /\ row'.start = full.start
        /\ row'.lastError = IF "status" \in DOMAIN m /\ m.status.failed THEN told
                            ELSE full.lastError
    BY <1>3, <1>4 DEF HasFields, ZeroRow
  <1>7. row'.lastError = IF TellsFailure(m) THEN m.status.errorMessage ELSE late.lastError
    BY <1>3, <1>5, <1>6 DEF TellsFailure
  <1>8. row'.lastError = IF "error" \in Told(m) THEN ErrorOf(m) ELSE old.lastError
    <2>0. "error" \notin DOMAIN m
      BY DEF Msgs, Sections
    <2>1. "error" \in Told(m) => "health" \in DOMAIN m \/ TellsFailure(m)
      BY <2>0 DEF Told
    <2>2. "health" \in DOMAIN m \/ TellsFailure(m) => "error" \in Told(m)
      BY DEF Told
    <2>. QED
      BY <1>1, <1>2, <1>7, <2>1, <2>2 DEF ErrorOf
  <1>. QED
    BY <1>1, <1>2, <1>3, <1>6, <1>8

-----------------------------------------------------------------------------
(* Messages.                                                               *)

LEMMA MsgCarries ==
    ASSUME NEW m \in Msgs
    PROVE  /\ DOMAIN m \subseteq Sections
           /\ "desc" \in DOMAIN m => m.desc \in Descs
           /\ "health" \in DOMAIN m => m.health \in Healths
           /\ "config" \in DOMAIN m => m.config \in Configs
           /\ Told(m) \subseteq Columns
           /\ \A k \in Columns \ {"error"} : k \in Told(m) <=> k \in DOMAIN m
  <1>1. PICK D \in SUBSET Sections, x \in States : m = [s \in D |-> x[s]]
    BY DEF Msgs
  <1>2. x["desc"] \in Descs /\ x["health"] \in Healths /\ x["config"] \in Configs
    BY DEF States
  <1>. QED
    BY <1>1, <1>2 DEF Sections, Columns, Told

LEMMA StateIsMsg ==
    ASSUME NEW x \in States
    PROVE  x \in Msgs /\ DOMAIN x = Sections /\ Told(x) = Columns
  <1>1. x = [s \in Sections |-> x[s]] /\ DOMAIN x = Sections
    BY DEF States, Sections
  <1>. QED
    BY <1>1 DEF Msgs, Sections, Columns, Told

\* A column that a message speaks of shows what it says, and all others what
\* they did.
LEMMA AppliedShows ==
    ASSUME HasFields(row), NEW m \in Msgs, NEW text \in Texts(row, m),
           row' = Applied(row, m, text), NEW s \in Told(m) \ {"error"}, NEW x \in States,
           m[s] = x[s]
    PROVE  Shows(s, x)'
  <1>0. s \in Columns \ {"error"} /\ s \in DOMAIN m
    BY MsgCarries
  <1>1. CASE s = "desc"
    <2> DEFINE d == m.desc
    <2>1. d \in Descs /\ x.desc = d
      BY <1>0, <1>1, MsgCarries
    <2>0. LET attrs == FlattenAttributes(d)
          IN  /\ row'.attrs = attrs
              /\ row'.name = FirstNonEmpty(<<Attr(attrs, "service.name"), row.name>>)
              /\ row'.namespace = NamespaceOf(attrs, row.namespace)
      BY <1>0, <1>1, AppliedColumns
    <2>2. /\ row'.attrs = FlattenAttributes(d)
          /\ row'.name = FirstNonEmpty(<<Given(d, "service.name"), row.name>>)
          /\ row'.namespace = FirstNonEmpty(<<Given(d, "k8s.namespace.name"),
                                              Given(d, "service.namespace"), row.namespace>>)
      BY <2>0, <2>1, Flattened DEF NamespaceOf
    <2> DEFINE name == Given(d, "service.name")
               space == Given(d, "k8s.namespace.name")
               general == Given(d, "service.namespace")
    <2>3. /\ row'.name = IF name # "" THEN name ELSE row.name
          /\ row'.namespace = IF space # "" THEN space
                              ELSE IF general # "" THEN general ELSE row.namespace
      <3> HIDE DEF name, space, general
      <3>1. row'.name = IF name # "" THEN name ELSE row.name
        BY <2>2, FirstOfTwo DEF name
      <3>2. FirstNonEmpty(<<space, general, row.namespace>>)
            = IF space # "" THEN space ELSE IF general # "" THEN general ELSE row.namespace
        BY FirstOfThree
      <3>3. row'.namespace = FirstNonEmpty(<<space, general, row.namespace>>)
        BY <2>2 DEF space, general
      <3>. QED
        BY <3>1, <3>2, <3>3
    <2>4. /\ DOMAIN row'.attrs = DOMAIN d.identifying \cup DOMAIN d.other
          /\ \A key \in DOMAIN row'.attrs : row'.attrs[key] = Given(d, key)
      BY <2>1, <2>2, Flattened
    <2>5. ShowsDesc(x)'
      BY <2>1, <2>3, <2>4 DEF ShowsDesc
    <2>. QED
      BY <1>1, <2>5 DEF Shows
  <1>2. CASE s = "health"
    <2>1. m.health = x.health /\ m.health \in Healths
      BY <1>0, <1>2, MsgCarries
    <2>0. /\ row'.healthy = m.health.healthy
          /\ row'.start = StartAfter(m.health.start, row.start)
      BY <1>0, <1>2, AppliedColumns
    <2>2. /\ row'.healthy = x.health.healthy
          /\ row'.start = StartAfter(x.health.start, row.start)
      BY <2>0, <2>1
    <2>3. x.health.start \in Nat
      BY <2>1, ReportConstants
    <2>4. ShowsHealth(x)'
      BY <2>2, <2>3, ReportConstants DEF ShowsHealth, StartAfter
    <2>. QED
      BY <1>2, <2>4 DEF Shows
  <1>3. CASE s = "config"
    <2>1. m.config = x.config /\ m.config \in Configs
      BY <1>0, <1>3, MsgCarries
    <2>2. row'.text = text /\ text \in JoinConfigMap(x.config)
      BY <1>0, <1>3, <2>1, AppliedColumns DEF Texts
    <2>3. ShowsConfig(x)'
      BY <2>1, <2>2, JoinedText, ReportConstants DEF ShowsConfig
    <2>. QED
      BY <1>3, <2>3 DEF Shows
  <1>. QED
    BY <1>0, <1>1, <1>2, <1>3 DEF Columns

LEMMA AppliedKeeps ==
    ASSUME HasFields(row), NEW m \in Msgs, NEW text \in Texts(row, m), UNCHANGED said,
           row' = Applied(row, m, text), NEW s \in Columns \ Told(m), NEW x, Shows(s, x)
    PROVE  Shows(s, x)'
  <1>0. s # "error" => s \notin DOMAIN m
    BY MsgCarries
  <1>1. CASE s = "desc"
    BY <1>0, <1>1, AppliedColumns DEF Shows, ShowsDesc
  <1>2. CASE s = "health"
    BY <1>0, <1>2, AppliedColumns DEF Shows, ShowsHealth
  <1>3. CASE s = "config"
    BY <1>0, <1>3, AppliedColumns DEF Shows, ShowsConfig, Texts
  <1>4. CASE s = "error"
    BY <1>4, AppliedColumns DEF Shows
  <1>. QED
    BY <1>1, <1>2, <1>3, <1>4 DEF Columns

\* What a column is to show depends on its section alone.
LEMMA ShowsOnlyThis ==
    ASSUME NEW s \in Columns, NEW x, NEW y, s = "error" \/ x[s] = y[s], Shows(s, x)
    PROVE  Shows(s, y)
  <1>1. CASE s = "desc"
    BY <1>1 DEF Shows, ShowsDesc
  <1>2. CASE s = "health"
    BY <1>2 DEF Shows, ShowsHealth
  <1>3. CASE s = "config"
    BY <1>3 DEF Shows, ShowsConfig
  <1>4. CASE s = "error"
    BY <1>4 DEF Shows
  <1>. QED
    BY <1>1, <1>2, <1>3, <1>4 DEF Columns
-----------------------------------------------------------------------------
(* Types.                                                                  *)

\* The message Report sends: what has changed.
LEMMA ChangedIsMsg ==
    ASSUME NEW x \in States, NEW D \in SUBSET Sections
    PROVE  [s \in D |-> x[s]] \in Msgs
  BY DEF Msgs

LEMMA TextIsText ==
    ASSUME TypeOK, NEW m \in Msgs, NEW text \in Texts(row, m)
    PROVE  ToSet(text) \subseteq STRING \X STRING
  <1>1. CASE "config" \in DOMAIN m
    <2>1. m.config \in Configs /\ text \in JoinConfigMap(m.config)
      BY <1>1, MsgCarries DEF Texts
    <2>2. ToSet(text) = {<<name, m.config[name]>> : name \in DOMAIN m.config}
      BY <2>1, JoinedText, ReportConstants
    <2>3. DOMAIN m.config \subseteq STRING /\ m.config \in [DOMAIN m.config -> STRING]
      BY <2>1, ReportConstants DEF IsText
    <2>. QED
      BY <2>2, <2>3
  <1>2. CASE "config" \notin DOMAIN m
    BY <1>2 DEF Texts, TypeOK
  <1>. QED
    BY <1>1, <1>2

LEMMA AppliedTypes ==
    ASSUME TypeOK, NEW m \in Msgs, NEW text \in Texts(row, m), row' = Applied(row, m, text)
    PROVE  /\ DOMAIN row' = DOMAIN ZeroRow
           /\ DOMAIN row'.attrs \subseteq Keys
           /\ row'.healthy \in BOOLEAN /\ row'.start \in Int
           /\ ToSet(row'.text) \subseteq STRING \X STRING
  <1>0. HasFields(row)
    BY DEF TypeOK, HasFields
  <1>1. HasFields(row') /\ row'.text = text
    BY <1>0, AppliedColumns
  <1>2. DOMAIN row'.attrs \subseteq Keys
    <2>1. CASE "desc" \in DOMAIN m
      <3>1. row'.attrs = FlattenAttributes(m.desc)
        BY <1>0, <2>1, AppliedColumns
      <3>. QED
        BY <2>1, <3>1, MsgCarries, Flattened
    <2>2. CASE "desc" \notin DOMAIN m
      BY <1>0, <2>2, AppliedColumns DEF TypeOK
    <2>. QED
      BY <2>1, <2>2
  <1>3. row'.healthy \in BOOLEAN /\ row'.start \in Int
    <2>1. CASE "health" \in DOMAIN m
      <3>1. row'.healthy = m.health.healthy /\ row'.start = StartAfter(m.health.start, row.start)
        BY <1>0, <2>1, AppliedColumns
      <3>2. m.health.healthy \in BOOLEAN /\ m.health.start \in Nat
        BY <2>1, MsgCarries, ReportConstants
      <3>. QED
        BY <3>1, <3>2, ReportConstants DEF StartAfter, TypeOK
    <2>2. CASE "health" \notin DOMAIN m
      BY <1>0, <2>2, AppliedColumns DEF TypeOK
    <2>. QED
      BY <2>1, <2>2
  <1>. QED
    BY <1>1, <1>2, <1>3, TextIsText DEF HasFields

LEMMA QueueTypes ==
    ASSUME NEW q \in [Conns -> Seq(Msgs)]
    PROVE  /\ DOMAIN q = Conns
           /\ \A c \in Conns : \A i \in 1 .. Len(q[c]) : DOMAIN q[c][i] \subseteq Sections
  <1>1. ASSUME NEW c \in Conns, NEW i \in 1 .. Len(q[c])
        PROVE  q[c][i] \in Msgs
    BY <1>1
  <1>. QED
    BY <1>1, MsgCarries

LEMMA InitTypes ==
    ASSUME Init
    PROVE  TypeOK /\ QueuesOK
  <1>1. ToSet(<<>>) = {}
    BY DEF ToSet
  <1>2. unread \in [Conns -> Seq(Msgs)]
    <2>1. unread = [c \in Conns |-> <<>>]
      BY DEF Init
    <2>. QED
      BY <2>1
  <1>3. DOMAIN ZeroRow.attrs = {}
    BY DEF ZeroRow, EmptyMap
  <1>4. /\ ZeroRow.healthy = FALSE /\ ZeroRow.start = 0 /\ ZeroRow.text = <<>>
    BY DEF ZeroRow
  <1>. QED
    <2>1. /\ DOMAIN row = DOMAIN ZeroRow /\ DOMAIN row.attrs \subseteq Keys
          /\ row.healthy \in BOOLEAN /\ row.start \in Int
          /\ ToSet(row.text) \subseteq STRING \X STRING
      <3>1. row = ZeroRow
        BY DEF Init
      <3>2. ToSet(ZeroRow.text) = {}
        BY <1>1, <1>4
      <3>3. ZeroRow.healthy \in BOOLEAN /\ ZeroRow.start \in Int
        BY DEF ZeroRow
      <3>. QED
        BY <1>3, <3>1, <3>2, <3>3
    <2>2. /\ DOMAIN unread = Conns
          /\ \A c \in Conns : \A i \in 1 .. Len(unread[c]) : DOMAIN unread[c][i] \subseteq Sections
      BY <1>2, QueueTypes
    <2>. QED
      BY <1>2, <2>1, <2>2 DEF Init, TypeOK, QueuesOK

LEMMA NextTypes ==
    ASSUME TypeOK, QueuesOK, [Next]_vars
    PROVE  TypeOK' /\ QueuesOK'
  <1> USE DEF bounds
  <1>1. CASE UNCHANGED vars
    BY <1>1 DEF vars, TypeOK, QueuesOK
  <1>2. CASE Change
    BY <1>2 DEF Change, TypeOK, QueuesOK
  <1>3. CASE Drop
    BY <1>3 DEF Drop, TypeOK, QueuesOK
  <1>4. CASE Report
    <2>1. PICK D \in SUBSET Sections :
              unread' = [unread EXCEPT ![cur] = Append(@, [s \in D |-> truth[s]])]
      BY <1>4 DEF Report
    <2> DEFINE m == [s \in D |-> truth[s]]
    <2>2. m \in Msgs
      BY ChangedIsMsg DEF TypeOK
    <2> HIDE DEF m
    <2>3. QueuesOK'
      <3>1. unread' = [unread EXCEPT ![cur] = Append(unread[cur], m)]
        BY <2>1 DEF m
      <3>2. cur \in Conns
        BY <1>4 DEF Report, TypeOK
      <3>3. Append(unread[cur], m) \in Seq(Msgs)
        BY <2>2, <3>2 DEF QueuesOK
      <3>. QED
        BY <3>1, <3>3 DEF QueuesOK
    <2>. QED
      BY <1>4, <2>3, QueueTypes DEF Report, TypeOK, QueuesOK
  <1>5. ASSUME NEW c \in Conns, Connect(c) PROVE TypeOK' /\ QueuesOK'
    <2>1. truth \in Msgs
      BY StateIsMsg DEF TypeOK
    <2>2. QueuesOK'
      BY <1>5, <2>1 DEF Connect, QueuesOK
    <2>. QED
      BY <1>5, <2>2, QueueTypes DEF Connect, TypeOK, QueuesOK
  <1>6. ASSUME NEW c \in Conns, CutOff(c) PROVE TypeOK' /\ QueuesOK'
    <2>1. QueuesOK'
      BY <1>6 DEF CutOff, QueuesOK
    <2>. QED
      BY <1>6, <2>1, QueueTypes DEF CutOff, TypeOK, QueuesOK
  <1>7. ASSUME NEW c \in Conns, unread[c] # <<>>, Handled(c)
        PROVE  QueuesOK' /\ Head(unread[c]) \in Msgs
    BY <1>7 DEF Handled, QueuesOK
  <1>8. ASSUME NEW c \in Conns, Receive(c) PROVE TypeOK' /\ QueuesOK'
    <2> DEFINE m == Head(unread[c])
    <2>1. QueuesOK' /\ m \in Msgs
      BY <1>7, <1>8 DEF Receive
    <2>2. PICK text \in Texts(row, m) : row' = Applied(row, m, text)
      BY <1>8 DEF Receive
    <2>3. suspect' \subseteq Columns /\ retried' \in BOOLEAN
      BY <1>8, <2>1, MsgCarries DEF Receive, TypeOK
    <2>4. UNCHANGED <<truth, sent, cur>>
      BY <1>8 DEF Receive
    <2>. QED
      BY <2>1, <2>2, <2>3, <2>4, AppliedTypes, QueueTypes DEF TypeOK, QueuesOK
  <1>9. ASSUME NEW c \in Conns, Lose(c) PROVE TypeOK' /\ QueuesOK'
    <2>1. QueuesOK' /\ Head(unread[c]) \in Msgs
      BY <1>7, <1>9 DEF Lose
    <2>2. suspect' \subseteq Columns
      BY <1>9, <2>1, MsgCarries DEF Lose, TypeOK
    <2>. QED
      BY <1>9, <2>1, <2>2, QueueTypes DEF Lose, TypeOK, QueuesOK
  <1>. QED
    BY <1>1, <1>2, <1>3, <1>4, <1>5, <1>6, <1>8, <1>9 DEF Next

\* handler.go:198-252: whatever a collector sends and the store loses, the row
\* and the queues keep their shapes.
THEOREM TypeCorrect == Spec => []TypeOK
  <1>1. Init => TypeOK /\ QueuesOK
    BY InitTypes
  <1>2. TypeOK /\ QueuesOK /\ [Next]_vars => TypeOK' /\ QueuesOK'
    BY NextTypes
  <1>. QED
    BY <1>1, <1>2, PTL DEF Spec
-----------------------------------------------------------------------------
(* The row is true.                                                        *)

\* A step that leaves the current connection's queue, the collector's reports
\* and the row alone.
LEMMA NothingReported ==
    ASSUME ReportInv, UNCHANGED <<cur, sent, said, row>>, cur # NoConn => unread'[cur] = unread[cur],
           suspect \subseteq suspect'
    PROVE  ReportInv'
  <1> SUFFICES ASSUME cur # NoConn, NEW s \in Columns PROVE ColumnInv(s)'
    BY DEF ReportInv
  <1>1. ColumnInv(s)
    BY DEF ReportInv
  <1>2. Pending(s)' = Pending(s) /\ unread'[cur] = unread[cur]
    BY DEF Pending
  <1>3. Shows(s, sent)' = Shows(s, sent)
    BY DEF Shows, ShowsDesc, ShowsHealth, ShowsConfig
  <1>. QED
    BY <1>1, <1>2, <1>3 DEF ColumnInv, LastIsSent, NonePending, SaysLast, Says

\* Connecting, everything is reported.
LEMMA ConnectReports ==
    ASSUME TypeOK, QueuesOK, NEW c \in Conns, Connect(c)
    PROVE  ReportInv'
  <1>1. /\ unread'[c] = <<truth>> /\ cur' = c /\ sent' = truth
        /\ Told(truth) = Columns /\ said' = ErrorOf(truth)
    BY StateIsMsg DEF Connect, Say, Columns, QueuesOK, TypeOK
  <1>2. Len(<<truth>>) = 1 /\ <<truth>>[1] = truth
    OBVIOUS
  <1>3. ASSUME NEW s \in Columns PROVE ColumnInv(s)'
    <2>1. Pending(s)' = {1}
      <3>1. unread'[cur'] = <<truth>>
        BY <1>1
      <3>2. Pending(s)' = {i \in 1 .. Len(<<truth>>) : s \in Told(<<truth>>[i])}
        BY <3>1 DEF Pending
      <3>3. \A i : i \in 1 .. 1 <=> i = 1
        OBVIOUS
      <3>. QED
        BY <1>1, <1>2, <3>2, <3>3
    <2>. QED
      BY <1>1, <1>2, <2>1 DEF ColumnInv, LastIsSent, NonePending, SaysLast, Says
  <1>. QED
    BY <1>3 DEF ReportInv

\* What has changed is reported behind what is already on its way.
LEMMA ReportReports ==
    ASSUME TypeOK, QueuesOK, ReportInv, Report
    PROVE  ReportInv'
  <1> DEFINE changed == {s \in Sections : truth[s] # sent[s]}
             m == [s \in changed |-> truth[s]]
             q == unread[cur]
             n == Len(q)
  <1>1. /\ cur \in Conns /\ cur # NoConn /\ q \in Seq(Msgs) /\ n \in Nat
    BY DEF Report, TypeOK, QueuesOK
  <1>2. /\ unread'[cur] = Append(q, m) /\ cur' = cur /\ sent' = truth
        /\ UNCHANGED <<row, suspect>>
        /\ said' = IF "error" \in Told(m) THEN ErrorOf(m) ELSE said
    BY <1>1 DEF Report, QueuesOK, Say
  <1>3. DOMAIN m = changed /\ \A s \in changed : m[s] = truth[s]
    OBVIOUS
  <1>m. m \in Msgs
    BY ChangedIsMsg DEF TypeOK
  <1> HIDE DEF m
  <1>4. /\ Len(Append(q, m)) = n + 1 /\ Append(q, m)[n + 1] = m
        /\ \A i \in 1 .. n : Append(q, m)[i] = q[i]
    BY <1>1
  <1>5. ASSUME NEW s \in Columns PROVE ColumnInv(s)'
    <2>1. ColumnInv(s)
      BY <1>1 DEF ReportInv
    <2>2. \A i : i \in Pending(s)' <=> i \in Pending(s) \/ (i = n + 1 /\ s \in Told(m))
      BY <1>1, <1>2, <1>4 DEF Pending
    <2>3. CASE s \in Told(m)
      <3>1. n + 1 \in Pending(s)' /\ \A i \in Pending(s) : i < n + 1
        BY <1>1, <2>2, <2>3 DEF Pending
      <3>2. ASSUME NEW i \in Pending(s)', \A j \in Pending(s)' : j <= i
            PROVE  i = n + 1
        BY <1>1, <2>2, <3>1, <3>2 DEF Pending
      <3>3. Says(m, s, said', sent')
        <4>1. CASE s = "error"
          BY <1>2, <2>3, <4>1 DEF Says
        <4>2. CASE s # "error"
          <5>1. s \in changed
            BY <1>3, <1>m, <2>3, <4>2, MsgCarries
          <5>. QED
            BY <1>2, <1>3, <4>2, <5>1 DEF Says
        <4>. QED
          BY <4>1, <4>2
      <3>4. LastIsSent(s)'
        BY <1>2, <1>4, <3>2, <3>3 DEF LastIsSent, SaysLast
      <3>. QED
        BY <3>1, <3>4 DEF ColumnInv, NonePending
    <2>4. CASE s \notin Told(m)
      <3>1. /\ Pending(s)' = Pending(s)
            /\ s = "error" => said' = said
            /\ s # "error" => truth[s] = sent[s]
        <4>1. Pending(s)' = Pending(s)
          BY <2>2, <2>4
        <4>2. s # "error" => s \notin changed
          BY <1>3, <1>m, <2>4, MsgCarries
        <4>3. s # "error" => s \in Sections
          BY DEF Sections, Columns
        <4>. QED
          BY <1>2, <2>4, <4>1, <4>2, <4>3
      <3>0. \A i \in Pending(s) : SaysLast(unread[cur][i], s) => SaysLast(unread[cur][i], s)'
        BY <1>1, <1>2, <1>4, <3>1 DEF SaysLast, Says, Pending
      <3>2. LastIsSent(s)'
        BY <2>1, <3>0, <3>1 DEF ColumnInv, LastIsSent
      <3>3. Shows(s, sent) => Shows(s, truth)
        BY <3>1, ShowsOnlyThis
      <3>4. Shows(s, truth) => Shows(s, sent)'
        <4>1. UNCHANGED row /\ sent' = truth /\ (s = "error" => said' = said)
          BY <1>2, <3>1
        <4>. QED
          BY <4>1 DEF Shows, ShowsDesc, ShowsHealth, ShowsConfig, Columns
      <3>. QED
        BY <1>2, <2>1, <3>1, <3>2, <3>3, <3>4 DEF ColumnInv, NonePending
    <2>. QED
      BY <2>3, <2>4
  <1>. QED
    BY <1>5 DEF ReportInv

\* The head of the current connection's queue is taken.
LEMMA HeadTaken ==
    ASSUME QueuesOK, cur \in Conns, unread[cur] # <<>>, Handled(cur),
           UNCHANGED <<cur, sent, said>>, NEW s \in Columns, ColumnInv(s)
    PROVE  /\ Head(unread[cur]) \in Msgs
           /\ LastIsSent(s)'
           /\ NonePending(s)' =>
                IF s \in Told(Head(unread[cur])) THEN SaysLast(Head(unread[cur]), s)
                ELSE NonePending(s)
  <1> DEFINE q == unread[cur]
             n == Len(q)
  <1>1. q \in Seq(Msgs) /\ n \in Nat /\ n > 0 /\ Head(q) = q[1] /\ Head(q) \in Msgs
    BY DEF QueuesOK
  <1>2. unread'[cur] = Tail(q)
    BY DEF Handled, QueuesOK
  <1>3. Len(Tail(q)) = n - 1 /\ \A i \in 1 .. n - 1 : Tail(q)[i] = q[i + 1]
    BY <1>1
  <1>4. \A i : i \in Pending(s)' <=> i \in 1 .. n - 1 /\ i + 1 \in Pending(s)
    BY <1>1, <1>2, <1>3 DEF Pending
  <1>5. LastIsSent(s)'
    <2> SUFFICES ASSUME NEW i \in Pending(s)', \A j \in Pending(s)' : j <= i
                 PROVE  SaysLast(unread'[cur][i], s)
      BY DEF LastIsSent, SaysLast
    <2>1. i \in 1 .. n - 1 /\ i + 1 \in Pending(s)
      BY <1>4
    <2>2. ASSUME NEW j \in Pending(s) PROVE j <= i + 1
      <3>1. j \in 1 .. n
        BY DEF Pending
      <3>2. CASE j = 1
        BY <1>1, <2>1, <3>2
      <3>3. CASE j # 1
        <4>1. j - 1 \in 1 .. n - 1 /\ (j - 1) + 1 = j
          BY <1>1, <3>1, <3>3
        <4>2. j - 1 \in Pending(s)'
          BY <1>4, <4>1
        <4>. QED
          BY <2>1, <3>1, <4>2
      <3>. QED
        BY <3>2, <3>3
    <2>3. SaysLast(q[i + 1], s)
      BY <2>1, <2>2 DEF ColumnInv, LastIsSent
    <2>. QED
      BY <1>2, <1>3, <2>1, <2>3
  <1>6. ASSUME NonePending(s)', s \in Told(Head(q)) PROVE SaysLast(Head(q), s)
    <2>1. 1 \in Pending(s)
      BY <1>1, <1>6 DEF Pending
    <2>2. ASSUME NEW j \in Pending(s) PROVE j <= 1
      <3>1. j \in 1 .. n
        BY DEF Pending
      <3>2. CASE j # 1
        <4>1. j - 1 \in 1 .. n - 1 /\ (j - 1) + 1 = j
          BY <1>1, <3>1, <3>2
        <4>. QED
          BY <1>4, <1>6, <4>1 DEF NonePending
      <3>. QED
        BY <3>1, <3>2
    <2>. QED
      BY <1>1, <2>1, <2>2 DEF ColumnInv, LastIsSent
  <1>7. ASSUME NonePending(s)', s \notin Told(Head(q)) PROVE NonePending(s)
    <2>1. ASSUME NEW j \in Pending(s) PROVE FALSE
      <3>1. j \in 1 .. n /\ j # 1
        BY <1>1, <1>7 DEF Pending
      <3>2. j - 1 \in 1 .. n - 1 /\ (j - 1) + 1 = j
        BY <1>1, <3>1
      <3>. QED
        BY <1>4, <1>7, <3>2 DEF NonePending
    <2>. QED
      BY <2>1 DEF NonePending
  <1>. QED
    BY <1>1, <1>5, <1>6, <1>7

LEMMA ReceiveReports ==
    ASSUME TypeOK, QueuesOK, ReportInv, NEW c \in Conns, Receive(c)
    PROVE  ReportInv'
  <1> DEFINE m == Head(unread[c])
  <1>0. HasFields(row) /\ m \in Msgs /\ Handled(c) /\ UNCHANGED <<truth, sent, cur, said>>
    BY DEF Receive, QueuesOK, TypeOK, HasFields
  <1>1. PICK text \in Texts(row, m) : row' = Applied(row, m, text)
    BY DEF Receive
  <1>2. suspect' = IF c = cur THEN suspect \ Told(m) ELSE suspect \cup Told(m)
    BY DEF Receive
  <1>3. \A s \in Columns \ Told(m) : Shows(s, sent) => Shows(s, sent)'
    <2> SUFFICES ASSUME NEW s \in Columns \ Told(m), Shows(s, sent) PROVE Shows(s, sent)'
      OBVIOUS
    <2>0. sent' = sent /\ said' = said
      BY <1>0
    <2>1. CASE s = "error"
      BY <1>0, <1>1, <2>0, <2>1, AppliedColumns DEF Shows
    <2>2. CASE s # "error"
      <3>1. Shows(s, sent)' <=> (\E x : x = sent /\ Shows(s, x)')
        <4>1. CASE s = "desc"
          BY <2>0, <4>1 DEF Shows, ShowsDesc
        <4>2. CASE s = "health"
          BY <2>0, <4>2 DEF Shows, ShowsHealth
        <4>3. CASE s = "config"
          BY <2>0, <4>3 DEF Shows, ShowsConfig
        <4>. QED
          BY <2>2, <4>1, <4>2, <4>3 DEF Columns
      <3>. QED
        BY <1>0, <1>1, <3>1, AppliedKeeps
    <2>. QED
      BY <2>1, <2>2
  <1> SUFFICES ASSUME cur # NoConn, NEW s \in Columns PROVE ColumnInv(s)'
    BY <1>0 DEF ReportInv
  <1>4. ColumnInv(s) /\ cur \in Conns
    BY DEF ReportInv, TypeOK
  <1>5. CASE c = cur
    <2>1. /\ LastIsSent(s)'
          /\ NonePending(s)' => IF s \in Told(m) THEN SaysLast(m, s) ELSE NonePending(s)
      BY <1>0, <1>4, <1>5, HeadTaken DEF Receive
    <2>2. ASSUME NonePending(s)', s \in Told(m) PROVE Shows(s, sent)'
      <3>1. SaysLast(m, s) /\ sent \in States
        BY <2>1, <2>2 DEF TypeOK
      <3>2. CASE s = "error"
        <4>1. row'.lastError = ErrorOf(m)
          BY <1>0, <1>1, <2>2, <3>2, AppliedColumns
        <4>. QED
          BY <1>0, <3>1, <3>2, <4>1 DEF Shows, SaysLast, Says
      <3>3. CASE s # "error"
        <4>1. m[s] = sent[s]
          BY <3>1, <3>3 DEF SaysLast, Says
        <4>2. Shows(s, sent)' <=> (\E x \in States : x = sent /\ Shows(s, x)')
          BY <1>0, <3>1 DEF Shows, ShowsDesc, ShowsHealth, ShowsConfig
        <4>. QED
          BY <1>0, <1>1, <2>2, <3>1, <3>3, <4>1, <4>2, AppliedShows
      <3>. QED
        BY <3>2, <3>3
    <2>3. ASSUME NonePending(s)', s \notin Told(m) PROVE s \in suspect' \/ Shows(s, sent)'
      BY <1>2, <1>3, <1>4, <1>5, <2>1, <2>3 DEF ColumnInv
    <2>. QED
      BY <2>1, <2>2, <2>3 DEF ColumnInv
  <1>6. CASE c # cur
    <2>1. unread'[cur] = unread[cur]
      BY <1>0, <1>4, <1>6 DEF Handled, QueuesOK
    <2>2. Pending(s)' = Pending(s)
      BY <1>0, <2>1 DEF Pending
    <2>3. LastIsSent(s)' = LastIsSent(s)
      BY <1>0, <2>1, <2>2 DEF LastIsSent, SaysLast
    <2>. QED
      BY <1>2, <1>3, <1>4, <1>6, <2>2, <2>3 DEF ColumnInv, NonePending
  <1>. QED
    BY <1>5, <1>6

LEMMA LoseReports ==
    ASSUME TypeOK, QueuesOK, ReportInv, NEW c \in Conns, Lose(c)
    PROVE  ReportInv'
  <1> DEFINE m == Head(unread[c])
  <1>0. /\ unread[c] # <<>> /\ Handled(c) /\ UNCHANGED <<sent, cur, row, said>>
        /\ suspect' = suspect \cup Told(m)
    BY DEF Lose
  <1> SUFFICES ASSUME cur # NoConn, NEW s \in Columns PROVE ColumnInv(s)'
    BY <1>0 DEF ReportInv
  <1>1. ColumnInv(s) /\ cur \in Conns
    BY DEF ReportInv, TypeOK
  <1>2. Shows(s, sent)' = Shows(s, sent)
    BY <1>0 DEF Shows, ShowsDesc, ShowsHealth, ShowsConfig
  <1>3. CASE c = cur
    <2>1. /\ LastIsSent(s)'
          /\ NonePending(s)' => s \in Told(m) \/ NonePending(s)
      BY <1>0, <1>1, <1>3, HeadTaken
    <2>. QED
      BY <1>0, <1>1, <1>2, <2>1 DEF ColumnInv
  <1>4. CASE c # cur
    <2>1. unread'[cur] = unread[cur]
      BY <1>0, <1>1, <1>4 DEF Handled, QueuesOK
    <2>2. Pending(s)' = Pending(s)
      BY <1>0, <2>1 DEF Pending
    <2>3. LastIsSent(s)' = LastIsSent(s)
      BY <1>0, <2>1, <2>2 DEF LastIsSent, SaysLast
    <2>. QED
      BY <1>0, <1>1, <1>2, <2>2, <2>3 DEF ColumnInv, NonePending
  <1>. QED
    BY <1>3, <1>4

LEMMA NextReports ==
    ASSUME TypeOK, QueuesOK, ReportInv, [Next]_vars
    PROVE  ReportInv'
  <1>1. CASE UNCHANGED vars \/ Change
    BY <1>1, NothingReported DEF vars, Change
  <1>2. CASE Drop
    BY <1>2 DEF Drop, ReportInv
  <1>3. ASSUME NEW c \in Conns, CutOff(c) PROVE ReportInv'
    <2>1. cur # NoConn => unread'[cur] = unread[cur]
      BY <1>3 DEF CutOff, QueuesOK, TypeOK
    <2>. QED
      BY <1>3, <2>1, NothingReported DEF CutOff
  <1>. QED
    BY <1>1, <1>2, <1>3, ConnectReports, ReportReports, ReceiveReports, LoseReports DEF Next

LEMMA ReportsInvariant == Spec => [](TypeOK /\ QueuesOK /\ ReportInv)
  <1>1. Init => TypeOK /\ QueuesOK /\ ReportInv
    BY InitTypes DEF Init, ReportInv
  <1>2. TypeOK /\ QueuesOK /\ ReportInv /\ [Next]_vars
        => TypeOK' /\ QueuesOK' /\ ReportInv'
    BY NextTypes, NextReports
  <1>. QED
    BY <1>1, <1>2, PTL DEF Spec

\* handler.go:201-203: although messages carry only what has changed, a row
\* shows its collector's state as last reported, and the error it told of last
\* (its health's, or that of a config that failed), once everything is read,
\* except for columns whose report the store lost or an older connection's
\* message overwrote.
THEOREM QuietRowsAreTrue == Spec => []QuietRowIsTrue
  <1>1. ASSUME TypeOK, QueuesOK, ReportInv PROVE QuietRowIsTrue
    <2> SUFFICES ASSUME cur # NoConn, AllRead, NEW s \in Columns \ suspect
                 PROVE  Shows(s, sent)
      BY DEF QuietRowIsTrue
    <2>1. unread[cur] = <<>>
      BY <1>1 DEF AllRead, TypeOK
    <2>2. NonePending(s)
      BY <2>1 DEF NonePending, Pending
    <2>. QED
      BY <1>1, <2>2 DEF ReportInv, ColumnInv
  <1>. QED
    BY <1>1, ReportsInvariant, PTL

\* No update fails, and nothing is read from a connection that was given up.
Lossless == \A c \in Conns : ~Lose(c) /\ (Receive(c) => c = cur)

AllColumnsTrue == cur # NoConn /\ AllRead => \A k \in Columns : Shows(k, sent)

\* handler.go:190-191 without the losses it speaks of: if no update fails, and
\* the server reads nothing more from a connection the collector has given up,
\* the row is true whenever everything is read, without exception: its last error
\* is the one the collector told of last, in its health or as a config failed.
THEOREM LosslessRowsAreTrue ==
    Spec /\ [][Lossless]_vars => []AllColumnsTrue
  <1>. DEFINE NoneLost == suspect = {}
  <1>1. Init => NoneLost
    BY DEF Init
  <1>2. NoneLost /\ [Next]_vars /\ [Lossless]_vars => NoneLost'
    <2>1. ASSUME suspect = {}, Next, Lossless PROVE suspect' = {}
      <3>1. ASSUME NEW c \in Conns, Receive(c) PROVE suspect' = {}
        BY <2>1, <3>1 DEF Lossless, Receive
      <3>2. ASSUME NEW c \in Conns, Connect(c) \/ CutOff(c) PROVE suspect' = {}
        BY <2>1, <3>2 DEF Connect, CutOff
      <3>3. CASE Change \/ Report \/ Drop
        BY <2>1, <3>3 DEF Change, Report, Drop
      <3>. QED
        BY <2>1, <3>1, <3>2, <3>3 DEF Next, Lossless
    <2>. QED
      BY <2>1 DEF vars
  <1>3. QuietRowIsTrue /\ NoneLost => AllColumnsTrue
    BY DEF QuietRowIsTrue, AllColumnsTrue
  <1>. HIDE DEF NoneLost
  <1>. QED
    BY <1>1, <1>2, <1>3, QuietRowsAreTrue, PTL DEF Spec

-----------------------------------------------------------------------------
(* The row becomes true. That what is on its way is read in the end takes   *)
(* an induction on the queue, which is for TLC; what is proved is what      *)
(* becomes of the row when it is.                                          *)

\* The collector stays as it is and keeps its connection.
Settles == <>[][UNCHANGED <<truth, cur>>]_vars /\ <>[](cur # NoConn)

\* It goes on reporting, if only a heartbeat.
ReportsGoOn == []<>(cur = NoConn) \/ []<><<Report>>_vars

\* It has reported everything, and what is still unread repeats nothing of it.
CaughtUp == cur # NoConn /\ sent = truth /\ \A k \in Columns : NonePending(k)

ReportsAreRead == []<>(sent # truth \/ CaughtUp)

\* Nothing is carried by a queue that loses its head, or that gets a message
\* without sections.
LEMMA StaysCaughtUp ==
    ASSUME TypeOK, QueuesOK, CaughtUp, [Next]_vars, UNCHANGED <<truth, cur>>
    PROVE  CaughtUp'
  <1>0. cur \in Conns /\ cur # NoConn /\ sent = truth
        /\ unread[cur] \in Seq(Msgs)
        /\ \A k \in Columns, i \in 1 .. Len(unread[cur]) : k \notin Told(unread[cur][i])
    BY DEF TypeOK, QueuesOK, CaughtUp, NonePending, Pending
  <1>1. ASSUME sent' = sent, unread'[cur] = unread[cur] PROVE CaughtUp'
    BY <1>0, <1>1 DEF CaughtUp, NonePending, Pending
  <1>2. ASSUME sent' = sent, NEW q \in Seq(Msgs), unread'[cur] = q,
               \A k \in Columns, i \in 1 .. Len(q) : k \notin Told(q[i])
        PROVE  CaughtUp'
    BY <1>0, <1>2 DEF CaughtUp, NonePending, Pending
  <1>3. CASE Report
    <2> DEFINE q == unread[cur]
               changed == {s \in Sections : truth[s] # sent[s]}
               m == [s \in changed |-> truth[s]]
    <2>0. changed = {} /\ DOMAIN m = {} /\ m \in Msgs
      BY <1>0, ChangedIsMsg DEF TypeOK
    <2>1. Told(m) = {} /\ m \in Msgs
      BY <2>0 DEF Told, TellsFailure
    <2>2. unread'[cur] = Append(q, m) /\ sent' = truth
      BY <1>0, <1>3 DEF Report, QueuesOK
    <2> HIDE DEF m
    <2>3. Append(q, m) \in Seq(Msgs)
          /\ \A i \in 1 .. Len(Append(q, m)) :
                Append(q, m)[i] = m \/ (i \in 1 .. Len(q) /\ Append(q, m)[i] = q[i])
      BY <1>0, <2>1
    <2>. QED
      BY <1>0, <1>2, <2>1, <2>2, <2>3
  <1>4. ASSUME NEW c \in Conns, unread[c] # <<>>, Handled(c), sent' = sent PROVE CaughtUp'
    <2>1. CASE c # cur
      BY <1>0, <1>1, <1>4, <2>1 DEF Handled, QueuesOK
    <2>2. CASE c = cur
      <3> DEFINE q == unread[cur]
      <3>1. unread'[cur] = Tail(q)
        BY <1>0, <1>4, <2>2 DEF Handled, QueuesOK
      <3>2. /\ Tail(q) \in Seq(Msgs)
            /\ \A i \in 1 .. Len(Tail(q)) : i + 1 \in 1 .. Len(q) /\ Tail(q)[i] = q[i + 1]
        BY <1>0, <1>4, <2>2
      <3>. QED
        BY <1>0, <1>2, <1>4, <3>1, <3>2
    <2>. QED
      BY <2>1, <2>2
  <1>5. ASSUME NEW c \in Conns, CutOff(c) PROVE CaughtUp'
    BY <1>0, <1>1, <1>5 DEF CutOff, QueuesOK
  <1>6. ~Drop /\ ~Change /\ \A c \in Conns : ~Connect(c)
    BY <1>0 DEF Drop, Change, Connect
  <1>. QED
    BY <1>1, <1>3, <1>4, <1>5, <1>6 DEF Next, Receive, Lose, vars

\* handler.go:201-203: once a collector stays as it is and keeps its connection,
\* it is in the end shown as it is, with the error it told of last, but for what
\* the store lost of its last reports; provided it goes on reporting and its
\* reports are read.
THEOREM RowsConverge ==
    Spec /\ Settles /\ ReportsGoOn /\ ReportsAreRead => Converges
  <1>. DEFINE Inv == TypeOK /\ QueuesOK /\ ReportInv
              True == \A k \in Columns \ suspect : Shows(k, truth)
              Up == sent = truth
              On == cur # NoConn
  <1>1. Inv /\ CaughtUp /\ [Next]_vars /\ [UNCHANGED <<truth, cur>>]_vars => CaughtUp'
    BY StaysCaughtUp DEF vars
  <1>3. On /\ [Next]_vars /\ [UNCHANGED <<truth, cur>>]_vars =>
            /\ Up => Up'
            /\ <<Report>>_vars => Up'
    <2>1. On => \A c \in Conns : ~Connect(c)
      BY DEF Connect
    <2>. QED
      BY <2>1 DEF Next, Change, Report, Drop, CutOff, Receive, Lose, vars
  <1>4. (sent # truth <=> ~Up) /\ (cur # NoConn <=> On) /\ (cur = NoConn <=> ~On)
    OBVIOUS
  <1>. HIDE DEF Up, On
  <1>2. Inv /\ CaughtUp => True
    BY DEF ReportInv, ColumnInv, CaughtUp
  <1>. QED
    BY <1>1, <1>2, <1>3, <1>4, ReportsInvariant, PTL
    DEF Spec, Settles, ReportsGoOn, ReportsAreRead, Converges

-----------------------------------------------------------------------------
(* What is never blanked or made up.                                       *)

\* handler.go:225-231: whatever a collector sends, its start time is one it had.
THEOREM StartTimesAreReal == Spec => []StartTimeIsReal
  <1>1. Init => StartTimeIsReal
    <2>1. ZeroRow.start = 0
      BY DEF ZeroRow
    <2>. QED
      BY <2>1 DEF Init, StartTimeIsReal
  <1>2. ASSUME TypeOK, QueuesOK, StartTimeIsReal, [Next]_vars PROVE StartTimeIsReal'
    <2>1. CASE UNCHANGED row
      BY <1>2, <2>1 DEF StartTimeIsReal
    <2>2. ASSUME NEW c \in Conns, Receive(c) PROVE StartTimeIsReal'
      <3> DEFINE m == Head(unread[c])
      <3>1. m \in Msgs /\ HasFields(row)
        BY <1>2, <2>2 DEF Receive, QueuesOK, TypeOK, HasFields
      <3>2. \E text : row' = Applied(row, m, text)
        BY <2>2 DEF Receive
      <3>3. \/ row'.start = row.start
            \/ m.health \in Healths /\ row'.start = StartAfter(m.health.start, row.start)
        BY <3>1, <3>2, AppliedColumns, MsgCarries
      <3>. QED
        BY <1>2, <3>3 DEF StartTimeIsReal, StartAfter
    <2>. QED
      BY <1>2, <2>1, <2>2 DEF Next, vars, Change, Report, Drop, Connect, CutOff, Lose
  <1>3. Spec => [](TypeOK /\ QueuesOK)
    BY InitTypes, NextTypes, PTL DEF Spec
  <1>. QED
    BY <1>1, <1>2, <1>3, PTL DEF Spec

\* handler.go:212-218: a description that lacks an attribute does not blank the
\* column the fleet is grouped by, over connections and restarts.
THEOREM NamesAreKept == Spec => KnownStaysKnown
  <1>1. ASSUME TypeOK, QueuesOK, [Next]_vars
        PROVE  /\ row.name # "" => row'.name # ""
               /\ row.namespace # "" => row'.namespace # ""
    <2>1. CASE UNCHANGED row
      BY <2>1
    <2>2. ASSUME NEW c \in Conns, Receive(c)
          PROVE  /\ row.name # "" => row'.name # ""
                 /\ row.namespace # "" => row'.namespace # ""
      <3> DEFINE m == Head(unread[c])
                 attrs == FlattenAttributes(m.desc)
      <3>1. HasFields(row) /\ m \in Msgs /\ \E text : row' = Applied(row, m, text)
        BY <1>1, <2>2 DEF Receive, TypeOK, QueuesOK, HasFields
      <3>2. \/ row'.name = row.name /\ row'.namespace = row.namespace
            \/ /\ row'.name = FirstNonEmpty(<<Attr(attrs, "service.name"), row.name>>)
               /\ row'.namespace = NamespaceOf(attrs, row.namespace)
        BY <3>1, AppliedColumns
      <3>3. \A a, b : b # "" => FirstNonEmpty(<<a, b>>) # ""
        BY FirstOfTwo
      <3>4. ASSUME NEW a, NEW b, NEW d, d # "" PROVE FirstNonEmpty(<<a, b, d>>) # ""
        <4>1. FirstNonEmpty(<<a, b, d>>) = IF a # "" THEN a ELSE IF b # "" THEN b ELSE d
          BY FirstOfThree
        <4>. QED
          BY <3>4, <4>1
      <3>5. row.name # "" => row'.name # ""
        BY <3>2, <3>3
      <3>6. row.namespace # "" => row'.namespace # ""
        BY <3>2, <3>4 DEF NamespaceOf
      <3>. QED
        BY <3>5, <3>6
    <2>. QED
      BY <1>1, <2>1, <2>2 DEF Next, vars, Change, Report, Drop, Connect, CutOff, Lose
  <1>2. Spec => [](TypeOK /\ QueuesOK)
    BY InitTypes, NextTypes, PTL DEF Spec
  <1>. QED
    BY <1>1, <1>2, PTL DEF Spec, KnownStaysKnown
=============================================================================
