------------------------------ MODULE Scraper ------------------------------
(***************************************************************************)
(* The self-telemetry scraper of internal/metrics: rounds over the scrape  *)
(* targets of the connection registry, rates between two readings of a     *)
(* collector's counters, and a short history per agent.                    *)
(*                                                                         *)
(* The registry is represented by the agents it offers as targets, which   *)
(* change at any time (ConnRegistry!Snapshot says which they are). Of the  *)
(* two rates, CPU and received points, the second is modelled: they are    *)
(* computed alike. A memory point is represented by its time, for nothing  *)
(* is computed from the gauge. A quotient of floats is represented by its  *)
(* two operands.                                                           *)
(***************************************************************************)
EXTENDS GoMaps, Integers, Sequences

CONSTANTS
    Agents,             \* instance uids
    MaxHistoryPoints,   \* maxHistoryPoints
    MaxCount,           \* bound: the value of a collector's counter
    MaxWork,            \* bound: points a collector receives between two samples
    MaxTime,            \* bound: the clock
    MaxSteps            \* bound: how often the clock is set back

ASSUME ScraperConstants ==
    /\ MaxHistoryPoints \in Nat \ {0}
    /\ MaxCount \in Nat /\ MaxWork \in Nat
    /\ MaxTime \in Nat /\ MaxSteps \in Nat

VARIABLES
    offered,    \* the agents ScrapeTargets returns
    counters,   \* [Agents -> the collector's cumulative counters]
    clock,      \* time.Now().UTC(), the wall clock
    round,      \* "idle" or "scrape"
    todo,       \* targets of the round not scraped yet
    live,       \* targets of the round
    prevs,      \* uid -> the previous sample
    byID,       \* uid -> Snapshot, the metrics store
    work,       \* history: points received since the previous sample was taken
    steps,      \* history: how often the clock was set back
    stepped     \* history: agents over whose snapshot it was

collectorVars == <<offered, counters, clock, steps>>
roundVars == <<round, todo, live>>
vars == <<collectorVars, roundVars, prevs, byID, work, stepped>>

Counters == [received : Nat, sent : Nat, failed : Nat]
Zero == [received |-> 0, sent |-> 0, failed |-> 0]

Sample == [at : Nat, received : Nat, sent : Nat, failed : Nat]

\* A Snapshot: memory holds times, received the operands of a rate, ratio
\* those of a success ratio.
RatePoint == [time : Nat, delta : Nat, over : Nat]
RatioPoint == [time : Nat, sent : Int, total : Int]
SnapshotType == [updatedAt : Nat, memory : Seq(Nat), received : Seq(RatePoint),
                 ratio : Seq(RatioPoint)]
NoSnapshot == [updatedAt |-> 0, memory |-> << >>, received |-> << >>, ratio |-> << >>]

Init ==
    /\ offered = {}
    /\ counters = [u \in Agents |-> Zero]
    /\ clock = 0 /\ steps = 0
    /\ round = "idle" /\ todo = {} /\ live = {}
    /\ prevs = EmptyMap
    /\ byID = EmptyMap
    /\ work = [u \in Agents |-> 0]
    /\ stepped = {}

-----------------------------------------------------------------------------
(* Collectors, the registry and time.                                      *)

Offer(u) ==
    /\ u \notin offered
    /\ offered' = offered \cup {u}
    /\ UNCHANGED <<counters, clock, steps, roundVars, prevs, byID, work, stepped>>

Withdraw(u) ==
    /\ u \in offered
    /\ offered' = offered \ {u}
    /\ UNCHANGED <<counters, clock, steps, roundVars, prevs, byID, work, stepped>>

\* The collector receives a point, or its exporters send one or fail to.
Collect(u) ==
    /\ \E k \in {"received", "sent", "failed"} :
          /\ counters[u][k] < MaxCount
          /\ counters' = [counters EXCEPT ![u][k] = @ + 1]
          /\ IF k = "received"
             THEN work[u] < MaxWork /\ work' = [work EXCEPT ![u] = @ + 1]
             ELSE UNCHANGED work
    /\ UNCHANGED <<offered, clock, steps, roundVars, prevs, byID, stepped>>

\* A new collector process counts from zero.
RestartCollector(u) ==
    /\ counters[u] # Zero
    /\ counters' = [counters EXCEPT ![u] = Zero]
    /\ UNCHANGED <<offered, clock, steps, roundVars, prevs, byID, work, stepped>>

Tick ==
    /\ clock < MaxTime
    /\ clock' = clock + 1
    /\ UNCHANGED <<offered, counters, steps, roundVars, prevs, byID, work, stepped>>

\* UTC() drops the monotonic reading, so times follow the wall clock when it is
\* set back.
StepBack ==
    /\ steps < MaxSteps /\ steps' = steps + 1
    /\ clock' \in 0 .. clock - 1
    /\ stepped' = DOMAIN byID
    /\ UNCHANGED <<offered, counters, roundVars, prevs, byID, work>>

-----------------------------------------------------------------------------
(* A round: scrapeAll.                                                     *)

\* appendCapped: the newest MaxHistoryPoints points.
AppendCapped(series, p) ==
    IF Len(series) < MaxHistoryPoints THEN Append(series, p) ELSE Append(Tail(series), p)

\* Faulty rate: the reset goes unnoticed.
Difference(cur, prev) == cur - prev

\* Faulty rate: the size of the difference.
Distance(cur, prev) == IF cur < prev THEN prev - cur ELSE cur - prev

\* rate, its numerator: a counter that fell was reset.
Growth(cur, prev) == IF cur < prev THEN 0 ELSE cur - prev

\* The success ratio's numerator and denominator: 0 of 1 unless there is a
\* positive total.
Success(cur, prev) ==
    LET total == (cur.sent + cur.failed) - (prev.sent + prev.failed) IN
    IF total > 0 THEN [sent |-> cur.sent - prev.sent, total |-> total]
    ELSE [sent |-> 0, total |-> 1]

\* s.byID[instanceUID] on a missing key is the zero Snapshot.
SnapshotOf(u) == IF u \in DOMAIN byID THEN byID[u] ELSE NoSnapshot

\* First scrape: only the gauge.
WithGauge(snap, now) ==
    [snap EXCEPT !.updatedAt = now, !.memory = AppendCapped(@, now)]

\* Later ones: the gauge, the rate and the ratio since prev.
WithRates(snap, cur, prev) ==
    LET elapsed == cur.at - prev.at
        success == Success(cur, prev) IN
    [WithGauge(snap, cur.at) EXCEPT
        !.received = AppendCapped(@, [time |-> cur.at, over |-> elapsed,
                                      delta |-> Growth(cur.received, prev.received)]),
        !.ratio = AppendCapped(@, [time |-> cur.at, sent |-> success.sent,
                                   total |-> success.total])]

\* Faulty start: live is never emptied.
StartAgain ==
    /\ round = "idle"
    /\ round' = "scrape"
    /\ todo' = offered /\ live' = live \cup offered
    /\ UNCHANGED <<collectorVars, prevs, byID, work, stepped>>

\* The targets are taken once; live ends up holding them all.
StartRound ==
    /\ round = "idle"
    /\ round' = "scrape"
    /\ todo' = offered /\ live' = offered
    /\ UNCHANGED <<collectorVars, prevs, byID, work, stepped>>

\* The request, its status or the parsing fails: logged, nothing changes.
ScrapeFails(u) ==
    /\ u \in todo
    /\ todo' = todo \ {u}
    /\ UNCHANGED <<collectorVars, round, live, prevs, byID, work, stepped>>

CurrentSample(u) ==
    [at |-> clock, received |-> counters[u].received,
     sent |-> counters[u].sent, failed |-> counters[u].failed]

\* Faulty scrapeOne: the sample is kept only when it gives a rate the first time.
ScrapeKeepingFirst(u) ==
    /\ u \in todo
    /\ todo' = todo \ {u}
    /\ LET cur == CurrentSample(u) IN
       IF u \notin DOMAIN prevs
       THEN /\ byID' = Put(byID, u, WithGauge(SnapshotOf(u), cur.at))
            /\ prevs' = Put(prevs, u, cur) /\ work' = [work EXCEPT ![u] = 0]
       ELSE /\ byID' = IF cur.at <= prevs[u].at THEN byID
                       ELSE Put(byID, u, WithRates(SnapshotOf(u), cur, prevs[u]))
            /\ UNCHANGED <<prevs, work>>
    /\ UNCHANGED <<collectorVars, round, live, stepped>>

\* A sample is taken and replaces the previous one; what it gives depends on
\* whether there was one, and on whether the clock has moved since.
Scrape(u) ==
    /\ u \in todo
    /\ todo' = todo \ {u}
    /\ prevs' = Put(prevs, u, CurrentSample(u))
    /\ work' = [work EXCEPT ![u] = 0]
    /\ LET cur == CurrentSample(u) IN
       \/ /\ u \notin DOMAIN prevs
          /\ byID' = Put(byID, u, WithGauge(SnapshotOf(u), cur.at))
       \/ /\ u \in DOMAIN prevs /\ cur.at > prevs[u].at
          /\ byID' = Put(byID, u, WithRates(SnapshotOf(u), cur, prevs[u]))
       \/ /\ u \in DOMAIN prevs /\ cur.at <= prevs[u].at
          /\ UNCHANGED byID
    /\ UNCHANGED <<collectorVars, round, live, stepped>>

\* Prune: agents that were no targets of this round are forgotten. Their
\* previous samples are not.
EndRound ==
    /\ round = "scrape" /\ todo = {}
    /\ round' = "idle"
    /\ byID' = [u \in DOMAIN byID \cap live |-> byID[u]]
    /\ stepped' = stepped \cap live
    /\ UNCHANGED <<collectorVars, todo, live, prevs, work>>

-----------------------------------------------------------------------------
CollectorStep(u) == Offer(u) \/ Withdraw(u) \/ Collect(u) \/ RestartCollector(u)

Next ==
    \/ \E u \in Agents : CollectorStep(u)
    \/ Tick \/ StepBack
    \/ StartRound
    \/ \E u \in Agents : ScrapeFails(u) \/ Scrape(u)
    \/ EndRound

Spec == Init /\ [][Next]_vars

\* The ticker of Run fires again and again, and every request ends (scrapeTimeout).
Fairness ==
    /\ WF_vars(StartRound) /\ WF_vars(EndRound)
    /\ \A u \in Agents : WF_vars(ScrapeFails(u) \/ Scrape(u))

FairSpec == Spec /\ Fairness

-----------------------------------------------------------------------------
(* Properties.                                                             *)

\* Every variable has the shape the code's types give it; the targets left are
\* targets of the round.
TypeOK ==
    /\ offered \subseteq Agents
    /\ counters \in [Agents -> Counters]
    /\ clock \in Nat /\ steps \in Nat
    /\ round \in {"idle", "scrape"}
    /\ todo \subseteq live /\ live \subseteq Agents
    /\ DOMAIN prevs \subseteq Agents /\ prevs \in [DOMAIN prevs -> Sample]
    /\ DOMAIN byID \subseteq Agents /\ byID \in [DOMAIN byID -> SnapshotType]
    /\ work \in [Agents -> Nat]
    /\ stepped \subseteq DOMAIN byID

\* types.go:25-29: no series of a snapshot outgrows its cap.
Bounded(snap) ==
    /\ Len(snap.memory) \in 1 .. MaxHistoryPoints
    /\ Len(snap.received) <= MaxHistoryPoints

\* The series end together: the rates are those of the newest memory points,
\* and updatedAt is the time of the last. Memory is one point ahead after the
\* first scrape, until its history is full.
Aligned(snap) ==
    LET m == Len(snap.memory)
        n == Len(snap.received) IN
    /\ Len(snap.ratio) = n
    /\ n <= m /\ m <= n + 1
    /\ snap.updatedAt = snap.memory[m]
    /\ \A i \in 1 .. n : /\ snap.received[i].time = snap.memory[i + (m - n)]
                         /\ snap.ratio[i].time = snap.received[i].time

\* Points are in the order of time.
Ordered(snap) ==
    \A i \in 1 .. Len(snap.memory) - 1 : snap.memory[i] < snap.memory[i + 1]

\* Each rate is over the time since the point before it: the intervals of a
\* series neither overlap nor leave a gap, although scrapes fail in between.
Contiguous(snap) ==
    \A i \in 2 .. Len(snap.received) :
        snap.received[i].over = snap.received[i].time - snap.received[i - 1].time

\* scraper.go:145-176 and types.go:41-47: what the UI draws of an agent is one
\* coherent history, whatever scrapes fail, collectors restart, or agents leave
\* and come back to what was kept of them; only that its times follow each other
\* takes a clock that was not set back since the history began.
HistoriesAreCoherent ==
    \A u \in DOMAIN byID :
        /\ Bounded(byID[u]) /\ Aligned(byID[u])
        /\ u \notin stepped => Ordered(byID[u]) /\ Contiguous(byID[u])

\* scraper.go:180-183: a rate never tells of more points than the collector
\* received since the previous sample, across its restarts too.
RatesNeverOverstate ==
    [][\A u \in Agents :
          u \in DOMAIN byID' /\ byID'[u].received # SnapshotOf(u).received
              => byID'[u].received[Len(byID'[u].received)].delta <= work[u]]_vars

\* store.go:33-35: the metrics store loses the history of an agent that left, even
\* if it left in the middle of a round that still scrapes it. (The scraper's own
\* prevs keeps its last sample: Prune does not touch it.)
AbsentAgentIsForgotten ==
    \A u \in Agents : <>[](u \notin offered) => <>[](u \notin DOMAIN byID)

-----------------------------------------------------------------------------
(* What the source says and the code does not do: see the run that refutes *)
(* it.                                                                     *)

\* types.go:38, "sent / (sent + failed), across all exporters, 0..1".
RatioIsAFraction ==
    \A u \in DOMAIN byID : \A i \in 1 .. Len(byID[u].ratio) :
        0 <= byID[u].ratio[i].sent /\ byID[u].ratio[i].sent <= byID[u].ratio[i].total
=============================================================================
