--------------------------- MODULE ScraperProofs ---------------------------
(***************************************************************************)
(* The histories the scraper keeps are coherent, and its rates never       *)
(* overstate, for every set of agents, every cap and every bound. Without  *)
(* restarts of collectors ratios are fractions; of what left no history    *)
(* is kept.                                                                *)
(***************************************************************************)
EXTENDS Scraper, TLAPS

\* HistoriesAreCoherent, of one history: what always holds of it, and what the
\* clock must keep to.
Shaped(snap) == Bounded(snap) /\ Aligned(snap)
InTime(snap) == Ordered(snap) /\ Contiguous(snap)

\* A history has its sample for the next rate, which belongs to its last point
\* and to the past, unless the clock was set back over it.
SamplesFit ==
    \A u \in DOMAIN byID :
        /\ u \in DOMAIN prevs
        /\ u \notin stepped => byID[u].updatedAt = prevs[u].at /\ prevs[u].at <= clock

\* A counter has not grown by more than what its collector received.
WorkCovers == \A u \in DOMAIN prevs : counters[u].received - prevs[u].received <= work[u]

ScraperInv == TypeOK /\ HistoriesAreCoherent /\ SamplesFit /\ WorkCovers

-----------------------------------------------------------------------------
(* What an append does to a series: the new point is last, and the others   *)
(* move down by one if the series was full.                                *)

Extends(t, s, p) ==
    /\ Len(t) = IF Len(s) < MaxHistoryPoints THEN Len(s) + 1 ELSE MaxHistoryPoints
    /\ t[Len(t)] = p
    /\ \A i \in 1 .. Len(t) - 1 : t[i] = s[i + ((Len(s) + 1) - Len(t))]

LEMMA AppendCappedExtends ==
    ASSUME NEW S, NEW s \in Seq(S), NEW p \in S, Len(s) <= MaxHistoryPoints
    PROVE  AppendCapped(s, p) \in Seq(S) /\ Extends(AppendCapped(s, p), s, p)
  <1> PICK t : t = AppendCapped(s, p) OBVIOUS
  <1> SUFFICES t \in Seq(S) /\ Extends(t, s, p) OBVIOUS
  <1>cap. MaxHistoryPoints \in Nat \ {0} BY ScraperConstants
  <1>1. CASE Len(s) < MaxHistoryPoints
    <2>1. t = Append(s, p) BY <1>1 DEF AppendCapped
    <2>2. Len(t) = Len(s) + 1 /\ t \in Seq(S) BY <2>1
    <2> QED BY <2>1, <2>2, <1>1 DEF Extends
  <1>2. CASE ~(Len(s) < MaxHistoryPoints)
    <2>1. Len(s) = MaxHistoryPoints /\ Len(s) \in Nat /\ s # << >> BY <1>cap, <1>2
    <2>2. t = Append(Tail(s), p) BY <1>2 DEF AppendCapped
    <2>3. Tail(s) \in Seq(S) /\ Len(Tail(s)) = Len(s) - 1 BY <2>1
    <2>4. \A i \in 1 .. Len(s) - 1 : Tail(s)[i] = s[i + 1] BY <2>1
    <2>5. t \in Seq(S) /\ Len(t) = Len(s) BY <2>2, <2>3, <2>1
    <2>6. t[Len(t)] = p BY <2>2, <2>3, <2>5
    <2>7. ASSUME NEW i \in 1 .. Len(t) - 1 PROVE t[i] = s[i + ((Len(s) + 1) - Len(t))]
      <3>1. t[i] = Tail(s)[i] BY <2>2, <2>3, <2>5
      <3>2. i \in 1 .. Len(s) - 1 /\ i + ((Len(s) + 1) - Len(t)) = i + 1 BY <2>5, <2>1
      <3> QED BY <3>1, <3>2, <2>4
    <2> QED BY <2>1, <2>5, <2>6, <2>7, <1>2 DEF Extends
  <1> QED BY <1>1, <1>2

LEMMA NoSnapshotType == NoSnapshot \in SnapshotType
  BY DEF NoSnapshot, SnapshotType

\* The first scrape of an agent starts a coherent history.
LEMMA GaugeCoherent ==
    ASSUME NEW now \in Nat, NEW snap, snap = WithGauge(NoSnapshot, now)
    PROVE  snap \in SnapshotType /\ Shaped(snap) /\ InTime(snap) /\ snap.updatedAt = now
           /\ snap.received = << >>
  <1>1. MaxHistoryPoints \in Nat /\ 0 < MaxHistoryPoints BY ScraperConstants
  <1>2. snap = [updatedAt |-> now, memory |-> << now >>, received |-> << >>, ratio |-> << >>]
    <2>1. AppendCapped(<< >>, now) = << now >>
      <3>1. Len(<< >>) < MaxHistoryPoints BY <1>1
      <3>2. Append(<< >>, now) = << now >> OBVIOUS
      <3> QED BY <3>1, <3>2 DEF AppendCapped
    <2> QED BY <2>1 DEF WithGauge, NoSnapshot
  <1> QED
    BY <1>1, <1>2 DEF SnapshotType, Shaped, InTime, Bounded, Aligned, Ordered, Contiguous

\* What later scrapes add.
NewRate(cur, prev) == [time |-> cur.at, over |-> cur.at - prev.at,
                       delta |-> Growth(cur.received, prev.received)]
NewRatio(cur, prev) == [time |-> cur.at, sent |-> Success(cur, prev).sent,
                        total |-> Success(cur, prev).total]

LEMMA NewPointsType ==
    ASSUME NEW cur \in Sample, NEW prev \in Sample, prev.at < cur.at
    PROVE  NewRate(cur, prev) \in RatePoint /\ NewRatio(cur, prev) \in RatioPoint
  <1>1. /\ cur.at \in Nat /\ cur.received \in Nat /\ cur.sent \in Nat /\ cur.failed \in Nat
        /\ prev.at \in Nat /\ prev.received \in Nat /\ prev.sent \in Nat /\ prev.failed \in Nat
    BY DEF Sample
  <1>2. Growth(cur.received, prev.received) \in Nat BY <1>1 DEF Growth
  <1>3. Success(cur, prev).sent \in Int /\ Success(cur, prev).total \in Int
    BY <1>1 DEF Success
  <1> QED BY <1>1, <1>2, <1>3 DEF NewRate, NewRatio, RatePoint, RatioPoint

LEMMA RatesFields ==
    ASSUME NEW snap \in SnapshotType, NEW cur, NEW prev
    PROVE  LET s == WithRates(snap, cur, prev) IN
           s = [updatedAt |-> cur.at, memory |-> AppendCapped(snap.memory, cur.at),
                received |-> AppendCapped(snap.received, NewRate(cur, prev)),
                ratio |-> AppendCapped(snap.ratio, NewRatio(cur, prev))]
  <1> DEFINE memory == AppendCapped(snap.memory, cur.at)
             received == AppendCapped(snap.received, NewRate(cur, prev))
             ratio == AppendCapped(snap.ratio, NewRatio(cur, prev))
             gauge == WithGauge(snap, cur.at)
  <1>1. gauge = [updatedAt |-> cur.at, memory |-> memory,
                 received |-> snap.received, ratio |-> snap.ratio]
    <2>1. gauge = [snap EXCEPT !.updatedAt = cur.at, !.memory = memory]
      BY DEF WithGauge
    <2> HIDE DEF memory, gauge
    <2> QED BY <2>1 DEF SnapshotType
  <1>2. WithRates(snap, cur, prev) = [gauge EXCEPT
            !.received = AppendCapped(gauge.received, NewRate(cur, prev)),
            !.ratio = AppendCapped(gauge.ratio, NewRatio(cur, prev))]
    BY DEF WithRates, NewRate, NewRatio
  <1> HIDE DEF memory, gauge
  <1>3. WithRates(snap, cur, prev) = [updatedAt |-> cur.at, memory |-> memory,
                                      received |-> received, ratio |-> ratio]
    BY <1>1, <1>2
  <1> QED BY <1>3 DEF memory

\* A later scrape extends a coherent history, or starts one again after the
\* agent was forgotten; one that kept to the clock goes on doing so.
LEMMA RatesCoherent ==
    ASSUME NEW cur \in Sample, NEW prev \in Sample, prev.at < cur.at,
           NEW snap \in SnapshotType,
           snap = NoSnapshot \/ Shaped(snap),
           NEW kept \in BOOLEAN,
           kept => snap = NoSnapshot \/ (InTime(snap) /\ snap.updatedAt = prev.at),
           NEW new, new = WithRates(snap, cur, prev)
    PROVE  /\ new \in SnapshotType /\ Shaped(new) /\ new.updatedAt = cur.at
           /\ kept => InTime(new)
           /\ new.received[Len(new.received)] = NewRate(cur, prev)
  <1>cap. MaxHistoryPoints \in Nat /\ 0 < MaxHistoryPoints BY ScraperConstants
  <1>times. cur.at \in Nat /\ prev.at \in Nat BY DEF Sample
  <1>series. PICK M \in Seq(Nat), R \in Seq(RatePoint), T \in Seq(RatioPoint) :
              M = snap.memory /\ R = snap.received /\ T = snap.ratio
    BY DEF SnapshotType
  <1>1. /\ Len(M) <= MaxHistoryPoints /\ Len(R) <= Len(M) /\ Len(M) <= Len(R) + 1
        /\ Len(T) = Len(R)
        /\ \A i \in 1 .. Len(R) : R[i].time = M[i + (Len(M) - Len(R))] /\ T[i].time = R[i].time
        /\ kept => /\ Len(M) > 0 => M[Len(M)] = prev.at
                   /\ \A i \in 1 .. Len(M) - 1 : M[i] < M[i + 1]
                   /\ \A i \in 2 .. Len(R) : R[i].over = R[i].time - R[i - 1].time
    <2>1. CASE snap = NoSnapshot
      <3>1. M = << >> /\ R = << >> /\ T = << >> BY <2>1, <1>series DEF NoSnapshot
      <3> QED BY <3>1, <1>cap
    <2>2. CASE Shaped(snap) /\ snap # NoSnapshot
      <3>1. Len(M) <= MaxHistoryPoints /\ Len(M) > 0
        BY <2>2, <1>series, <1>cap DEF Shaped, Bounded
      <3>2. /\ Len(T) = Len(R) /\ Len(R) <= Len(M) /\ Len(M) <= Len(R) + 1
            /\ snap.updatedAt = M[Len(M)]
            /\ \A i \in 1 .. Len(R) : R[i].time = M[i + (Len(M) - Len(R))] /\ T[i].time = R[i].time
        BY <2>2, <1>series DEF Shaped, Aligned
      <3>3. kept => \A i \in 1 .. Len(M) - 1 : M[i] < M[i + 1]
        BY <2>2, <1>series DEF InTime, Ordered
      <3>4. kept => \A i \in 2 .. Len(R) : R[i].over = R[i].time - R[i - 1].time
        BY <2>2, <1>series DEF InTime, Contiguous
      <3>5. kept => M[Len(M)] = prev.at BY <2>2, <3>2
      <3> QED BY <3>1, <3>2, <3>3, <3>4, <3>5
    <2> QED BY <2>1, <2>2
  <1>2. NewRate(cur, prev) \in RatePoint /\ NewRatio(cur, prev) \in RatioPoint
    BY NewPointsType
  <1>3. /\ NewRate(cur, prev).time = cur.at /\ NewRatio(cur, prev).time = cur.at
        /\ NewRate(cur, prev).over = cur.at - prev.at
    BY DEF NewRate, NewRatio
  <1>4. PICK p \in RatePoint, q \in RatioPoint : p = NewRate(cur, prev) /\ q = NewRatio(cur, prev)
    BY <1>2
  <1>5. PICK M2 \in Seq(Nat), R2 \in Seq(RatePoint), T2 \in Seq(RatioPoint) :
           /\ M2 = AppendCapped(M, cur.at) /\ R2 = AppendCapped(R, p) /\ T2 = AppendCapped(T, q)
           /\ Extends(M2, M, cur.at) /\ Extends(R2, R, p) /\ Extends(T2, T, q)
    <2>1. Len(R) <= MaxHistoryPoints /\ Len(T) <= MaxHistoryPoints BY <1>1, <1>cap
    <2>2. AppendCapped(M, cur.at) \in Seq(Nat) /\ Extends(AppendCapped(M, cur.at), M, cur.at)
      BY AppendCappedExtends, <1>1, <1>times
    <2>3. AppendCapped(R, p) \in Seq(RatePoint) /\ Extends(AppendCapped(R, p), R, p)
      BY AppendCappedExtends, <2>1
    <2>4. AppendCapped(T, q) \in Seq(RatioPoint) /\ Extends(AppendCapped(T, q), T, q)
      BY AppendCappedExtends, <2>1
    <2> QED BY <2>2, <2>3, <2>4
  <1>6. /\ new = [updatedAt |-> cur.at, memory |-> M2, received |-> R2, ratio |-> T2]
        /\ new.memory = M2 /\ new.received = R2 /\ new.ratio = T2 /\ new.updatedAt = cur.at
    BY RatesFields, <1>4, <1>5, <1>series
  <1>7. /\ Len(M2) = IF Len(M) < MaxHistoryPoints THEN Len(M) + 1 ELSE MaxHistoryPoints
        /\ M2[Len(M2)] = cur.at
        /\ \A i \in 1 .. Len(M2) - 1 : M2[i] = M[i + ((Len(M) + 1) - Len(M2))]
    BY <1>5 DEF Extends
  <1>8. /\ Len(R2) = IF Len(R) < MaxHistoryPoints THEN Len(R) + 1 ELSE MaxHistoryPoints
        /\ R2[Len(R2)] = p
        /\ \A i \in 1 .. Len(R2) - 1 : R2[i] = R[i + ((Len(R) + 1) - Len(R2))]
    BY <1>5 DEF Extends
  <1>ratios. /\ Len(T2) = IF Len(T) < MaxHistoryPoints THEN Len(T) + 1 ELSE MaxHistoryPoints
        /\ T2[Len(T2)] = q
        /\ \A i \in 1 .. Len(T2) - 1 : T2[i] = T[i + ((Len(T) + 1) - Len(T2))]
    BY <1>5 DEF Extends
  <1>9. PICK m \in Nat, n \in Nat, m2 \in Nat, n2 \in Nat :
            m = Len(M) /\ n = Len(R) /\ m2 = Len(M2) /\ n2 = Len(R2)
    BY <1>7, <1>8
  <1>10. /\ n <= m /\ m <= n + 1 /\ m <= MaxHistoryPoints /\ Len(T) = n
         /\ m2 = (IF m < MaxHistoryPoints THEN m + 1 ELSE MaxHistoryPoints)
         /\ n2 = (IF n < MaxHistoryPoints THEN n + 1 ELSE MaxHistoryPoints)
         /\ Len(T2) = n2
    BY <1>1, <1>7, <1>8, <1>ratios, <1>9
  <1>11. n2 <= m2 /\ m2 <= n2 + 1 /\ m2 \in 1 .. MaxHistoryPoints /\ n2 \in 1 .. MaxHistoryPoints
    BY <1>10, <1>cap
  <1>12. new \in SnapshotType BY <1>5, <1>6, <1>times DEF SnapshotType
  <1>13. Bounded(new) BY <1>6, <1>9, <1>11 DEF Bounded
  <1>14. Aligned(new)
    <2>1. ASSUME NEW i \in 1 .. n2
          PROVE  R2[i].time = M2[i + (m2 - n2)] /\ T2[i].time = R2[i].time
      <3>1. CASE i = n2
        <4>1. i + (m2 - n2) = m2 BY <3>1
        <4> QED BY <3>1, <4>1, <1>3, <1>4, <1>7, <1>8, <1>ratios, <1>9, <1>10
      <3>2. CASE i # n2
        <4>1. i \in 1 .. n2 - 1 /\ i + (m2 - n2) \in 1 .. m2 - 1 BY <3>2, <1>11
        <4>2. PICK j \in Int : j = i + ((n + 1) - n2) BY <1>11
        <4>3. j \in 1 .. n BY <4>1, <4>2, <1>10, <1>cap
        <4>4. R2[i] = R[j] /\ T2[i] = T[j] BY <4>1, <4>2, <1>8, <1>ratios, <1>9, <1>10
        <4>5. M2[i + (m2 - n2)] = M[(i + (m2 - n2)) + ((m + 1) - m2)] BY <4>1, <1>7, <1>9
        <4>6. (i + (m2 - n2)) + ((m + 1) - m2) = j + (m - n) BY <4>2, <1>11
        <4>7. R[j].time = M[j + (m - n)] /\ T[j].time = R[j].time BY <4>3, <1>1, <1>9
        <4> QED BY <4>4, <4>5, <4>6, <4>7
      <3> QED BY <3>1, <3>2
    <2> QED BY <2>1, <1>6, <1>7, <1>9, <1>10, <1>11 DEF Aligned
  <1>15. ASSUME kept PROVE Ordered(new)
    <2>1. ASSUME NEW i \in 1 .. m2 - 1 PROVE M2[i] < M2[i + 1]
      <3>1. PICK j \in Int : j = i + ((m + 1) - m2) BY <1>11
      <3>2. j \in 1 .. m BY <3>1, <1>10, <1>11, <1>cap
      <3>3. M2[i] = M[j] BY <3>1, <1>7, <1>9
      <3>4. CASE i + 1 = m2
        <4>1. j = m /\ m > 0 BY <3>1, <3>2, <3>4, <1>11
        <4>2. M[j] = prev.at BY <4>1, <1>1, <1>9, <1>15
        <4> QED BY <3>3, <3>4, <4>2, <1>7, <1>9, <1>times
      <3>5. CASE i + 1 # m2
        <4>1. i + 1 \in 1 .. m2 - 1 /\ j \in 1 .. m - 1 BY <3>1, <3>2, <3>5, <1>11
        <4>2. M2[i + 1] = M[(i + 1) + ((m + 1) - m2)] BY <4>1, <1>7, <1>9
        <4>3. (i + 1) + ((m + 1) - m2) = j + 1 BY <3>1, <1>11
        <4> QED BY <3>3, <4>1, <4>2, <4>3, <1>1, <1>9, <1>15
      <3> QED BY <3>4, <3>5
    <2> QED BY <2>1, <1>6, <1>9 DEF Ordered
  <1>16. ASSUME kept PROVE Contiguous(new)
    <2>1. ASSUME NEW i \in 2 .. n2 PROVE R2[i].over = R2[i].time - R2[i - 1].time
      <3>1. PICK j \in Int : j = (i - 1) + ((n + 1) - n2) BY <1>11
      <3>2. i - 1 \in 1 .. n2 - 1 /\ j \in 1 .. n BY <3>1, <1>10, <1>11, <1>cap
      <3>3. R2[i - 1] = R[j] BY <3>1, <3>2, <1>8, <1>9
      <3>4. CASE i = n2
        <4>1. j = n /\ n > 0 /\ m > 0 BY <3>1, <3>2, <3>4, <1>10, <1>11
        <4>2. R[j].time = M[m]
          <5>1. R[j].time = M[j + (m - n)] BY <3>2, <1>1, <1>9
          <5>2. j + (m - n) = m BY <4>1
          <5> QED BY <5>1, <5>2
        <4>3. M[m] = prev.at BY <4>1, <1>1, <1>9, <1>16
        <4> QED BY <3>3, <3>4, <4>2, <4>3, <1>3, <1>4, <1>8, <1>9
      <3>5. CASE i # n2
        <4>1. i \in 1 .. n2 - 1 /\ j + 1 \in 2 .. n BY <3>1, <3>2, <3>5, <1>11, <1>10, <1>cap
        <4>2. R2[i] = R[i + ((n + 1) - n2)] BY <4>1, <1>8, <1>9
        <4>3. i + ((n + 1) - n2) = j + 1 /\ (j + 1) - 1 = j BY <3>1, <1>11
        <4>4. R[j + 1].over = R[j + 1].time - R[(j + 1) - 1].time BY <4>1, <1>1, <1>9, <1>16
        <4> QED BY <3>3, <4>2, <4>3, <4>4
      <3> QED BY <3>4, <3>5
    <2> QED BY <2>1, <1>6, <1>9 DEF Contiguous
  <1> QED BY <1>4, <1>6, <1>8, <1>12, <1>13, <1>14, <1>15, <1>16 DEF Shaped, InTime

-----------------------------------------------------------------------------
(* The invariant.                                                          *)

LEMMA ScraperInvInit == Init => ScraperInv
  BY ScraperConstants
  DEF Init, ScraperInv, TypeOK, HistoriesAreCoherent, SamplesFit, WorkCovers, EmptyMap,
      Counters, Zero

\* The effect of one successful scrape.
LEMMA ScrapePreserves ==
    ASSUME ScraperInv, NEW u \in Agents, Scrape(u)
    PROVE  ScraperInv' /\ (u \in DOMAIN byID' /\ byID'[u].received # SnapshotOf(u).received
                 => byID'[u].received[Len(byID'[u].received)].delta <= work[u])
  <1> USE DEF ScraperInv
  <1>1. PICK cur \in Sample : cur = CurrentSample(u)
    BY DEF CurrentSample, Sample, TypeOK, Counters
  <1>2. /\ cur.at = clock /\ cur.received = counters[u].received /\ clock \in Nat
        /\ cur.received \in Nat
    BY <1>1 DEF CurrentSample, TypeOK, Counters
  <1>3. /\ DOMAIN prevs' = DOMAIN prevs \cup {u} /\ prevs'[u] = cur
        /\ \A v \in DOMAIN prevs : v # u => prevs'[v] = prevs[v]
        /\ prevs' \in [DOMAIN prevs' -> Sample] /\ DOMAIN prevs' \subseteq Agents
    BY <1>1 DEF Scrape, Put, TypeOK
  <1>4. /\ work' \in [Agents -> Nat] /\ work'[u] = 0
        /\ \A v \in Agents : v # u => work'[v] = work[v]
    BY DEF Scrape, TypeOK
  <1>5. UNCHANGED <<offered, counters, clock, steps, round, live, stepped>> /\ todo' \subseteq todo
    BY DEF Scrape, collectorVars
  <1>6. WorkCovers'
    <2>1. ASSUME NEW v \in DOMAIN prevs'
          PROVE  counters[v].received - prevs'[v].received <= work'[v]
      <3>1. CASE v = u BY <3>1, <1>2, <1>3, <1>4
      <3>2. CASE v # u BY <3>2, <1>3, <1>4, <2>1 DEF WorkCovers, TypeOK
      <3> QED BY <3>1, <3>2
    <2> QED BY <2>1, <1>5 DEF WorkCovers
  <1>7. PICK snap \in SnapshotType : snap = SnapshotOf(u)
    BY NoSnapshotType DEF SnapshotOf, TypeOK
  <1>8. \/ UNCHANGED byID /\ u \in DOMAIN prevs /\ cur.at <= prevs[u].at
        \/ \E new \in SnapshotType :
              /\ byID' = Put(byID, u, new)
              /\ Shaped(new) /\ (u \notin stepped => InTime(new)) /\ new.updatedAt = clock
              /\ \/ new.received = << >> /\ snap.received = << >>
                 \/ new.received[Len(new.received)].delta <= work[u]
    <2>1. CASE u \notin DOMAIN prevs /\ byID' = Put(byID, u, WithGauge(SnapshotOf(u), clock))
      <3>1. snap = NoSnapshot BY <2>1, <1>7 DEF SamplesFit, SnapshotOf
      <3>2. PICK new : new = WithGauge(NoSnapshot, clock) OBVIOUS
      <3>3. /\ new \in SnapshotType /\ Shaped(new) /\ InTime(new) /\ new.updatedAt = clock
            /\ new.received = << >>
        BY <3>2, GaugeCoherent, <1>2
      <3>4. snap.received = << >> BY <3>1 DEF NoSnapshot
      <3>5. byID' = Put(byID, u, new) BY <2>1, <3>1, <3>2, <1>7
      <3> QED BY <3>3, <3>4, <3>5
    <2>2. CASE /\ u \in DOMAIN prevs /\ cur.at > prevs[u].at
               /\ byID' = Put(byID, u, WithRates(SnapshotOf(u), cur, prevs[u]))
      <3>1. PICK prev \in Sample : prev = prevs[u] BY <2>2 DEF TypeOK
      <3>k. PICK kept \in BOOLEAN : kept <=> u \notin stepped OBVIOUS
      <3>2. /\ snap = NoSnapshot \/ Shaped(snap)
            /\ kept => snap = NoSnapshot \/ (InTime(snap) /\ snap.updatedAt = prev.at)
        BY <3>1, <3>k, <1>7
        DEF SnapshotOf, SamplesFit, HistoriesAreCoherent, Shaped, InTime
      <3>3. prev.at < cur.at BY <2>2, <3>1 DEF Sample
      <3>4. PICK new : new = WithRates(snap, cur, prev) OBVIOUS
      <3>5. /\ new \in SnapshotType /\ Shaped(new) /\ new.updatedAt = cur.at
            /\ kept => InTime(new)
            /\ new.received[Len(new.received)] = NewRate(cur, prev)
        BY RatesCoherent, <3>2, <3>3, <3>4
      <3>6. Growth(cur.received, prev.received) <= work[u]
        <4>1. cur.received - prev.received <= work[u] BY <1>2, <2>2, <3>1 DEF WorkCovers
        <4> QED BY <4>1, <1>2, <3>1 DEF Growth, Sample, TypeOK
      <3>7. new.received[Len(new.received)].delta <= work[u] BY <3>5, <3>6 DEF NewRate
      <3>8. byID' = Put(byID, u, new) BY <2>2, <3>1, <3>4, <1>7
      <3> QED BY <3>5, <3>7, <3>8, <3>k, <1>2
    <2>3. CASE u \in DOMAIN prevs /\ cur.at <= prevs[u].at /\ UNCHANGED byID
      BY <2>3
    <2> QED BY <2>1, <2>2, <2>3, <1>1, <1>2 DEF Scrape
  <1>9. CASE UNCHANGED byID /\ u \in DOMAIN prevs /\ cur.at <= prevs[u].at
    <2>1. TypeOK' BY <1>3, <1>4, <1>5, <1>9 DEF TypeOK
    <2>2. HistoriesAreCoherent'
      BY <1>5, <1>9 DEF HistoriesAreCoherent, Bounded, Aligned, Ordered, Contiguous
    <2>3. u \in DOMAIN byID /\ u \notin stepped => prevs[u].at = clock
      <3>1. prevs[u] \in Sample BY <1>9 DEF TypeOK
      <3>2. prevs[u].at \in Nat BY <3>1 DEF Sample
      <3>3. u \in DOMAIN byID /\ u \notin stepped => prevs[u].at <= clock BY DEF SamplesFit
      <3> QED BY <3>2, <3>3, <1>9, <1>2
    <2>4. SamplesFit' BY <1>2, <1>3, <1>5, <1>9, <2>3 DEF SamplesFit
    <2>5. u \in DOMAIN byID' => byID'[u].received = SnapshotOf(u).received BY <1>9 DEF SnapshotOf
    <2> QED BY <2>1, <2>2, <2>4, <2>5, <1>6
  <1>10. CASE \E new \in SnapshotType :
              /\ byID' = Put(byID, u, new)
              /\ Shaped(new) /\ (u \notin stepped => InTime(new)) /\ new.updatedAt = clock
              /\ \/ new.received = << >> /\ snap.received = << >>
                 \/ new.received[Len(new.received)].delta <= work[u]
    <2>1. PICK new \in SnapshotType :
              /\ byID' = Put(byID, u, new)
              /\ Shaped(new) /\ (u \notin stepped => InTime(new)) /\ new.updatedAt = clock
              /\ \/ new.received = << >> /\ snap.received = << >>
                 \/ new.received[Len(new.received)].delta <= work[u]
      BY <1>10
    <2>2. /\ DOMAIN byID' = DOMAIN byID \cup {u} /\ byID'[u] = new
          /\ \A v \in DOMAIN byID : v # u => byID'[v] = byID[v]
          /\ byID' \in [DOMAIN byID' -> SnapshotType] /\ DOMAIN byID' \subseteq Agents
      BY <2>1 DEF Put, TypeOK
    <2>3. TypeOK' BY <1>3, <1>4, <1>5, <2>2 DEF TypeOK
    <2>4. HistoriesAreCoherent'
      <3>1. ASSUME NEW v \in DOMAIN byID'
            PROVE  Shaped(byID'[v]) /\ (v \notin stepped => InTime(byID'[v]))
        BY <2>1, <2>2 DEF HistoriesAreCoherent, Shaped, InTime
      <3> QED
        BY <3>1, <1>5
        DEF HistoriesAreCoherent, Shaped, InTime, Bounded, Aligned, Ordered, Contiguous
    <2>5. SamplesFit' BY <1>2, <1>3, <1>5, <2>1, <2>2 DEF SamplesFit
    <2> QED BY <2>1, <2>2, <2>3, <2>4, <2>5, <1>6, <1>7
  <1> QED BY <1>8, <1>9, <1>10

\* Coherence is a matter of byID and stepped, the fit of prevs and clock too.
LEMMA HistoriesKept ==
    ASSUME ScraperInv, UNCHANGED <<prevs, byID, stepped>>, clock <= clock', clock' \in Nat
    PROVE  HistoriesAreCoherent' /\ SamplesFit'
  <1>1. HistoriesAreCoherent'
    BY DEF ScraperInv, HistoriesAreCoherent, Bounded, Aligned, Ordered, Contiguous
  <1>2. ASSUME NEW u \in DOMAIN byID, u \notin stepped PROVE prevs[u].at <= clock'
    <2>1. u \in DOMAIN prevs /\ prevs[u] \in Sample /\ prevs[u].at <= clock
      BY <1>2 DEF ScraperInv, TypeOK, SamplesFit
    <2>2. prevs[u].at \in Nat /\ clock \in Nat BY <2>1 DEF Sample, ScraperInv, TypeOK
    <2> QED BY <2>1, <2>2
  <1> QED BY <1>1, <1>2 DEF ScraperInv, SamplesFit

LEMMA ScraperInvStep == ScraperInv /\ [Next]_vars => ScraperInv'
  <1> SUFFICES ASSUME ScraperInv, [Next]_vars PROVE ScraperInv'
    OBVIOUS
  <1> clock \in Nat BY DEF ScraperInv, TypeOK
  <1>1. ASSUME NEW u \in Agents, Offer(u) \/ Withdraw(u) PROVE ScraperInv'
    <2>1. UNCHANGED <<counters, clock, steps, round, todo, live, prevs, byID, work, stepped>> /\ offered' \subseteq Agents
      BY <1>1 DEF Offer, Withdraw, roundVars, ScraperInv, TypeOK
    <2>2. HistoriesAreCoherent' /\ SamplesFit' BY <2>1, HistoriesKept
    <2> QED BY <2>1, <2>2 DEF ScraperInv, TypeOK, WorkCovers
  <1>2. ASSUME NEW u \in Agents, Collect(u) PROVE ScraperInv'
    <2>1. UNCHANGED <<offered, clock, steps, round, todo, live, prevs, byID, stepped>>
      BY <1>2 DEF Collect, roundVars
    <2>2. PICK k \in {"received", "sent", "failed"} :
             /\ counters' = [counters EXCEPT ![u][k] = @ + 1]
             /\ IF k = "received" THEN work' = [work EXCEPT ![u] = @ + 1] ELSE work' = work
      BY <1>2 DEF Collect
    <2>3. counters[u] \in Counters /\ counters' = [counters EXCEPT ![u] = counters'[u]]
          /\ counters'[u] = [counters[u] EXCEPT ![k] = @ + 1]
      BY <2>2 DEF ScraperInv, TypeOK
    <2>4. counters'[u] \in Counters
          /\ counters'[u].received = counters[u].received + (IF k = "received" THEN 1 ELSE 0)
      BY <2>3 DEF Counters
    <2>5. work' \in [Agents -> Nat] /\ work'[u] = work[u] + (IF k = "received" THEN 1 ELSE 0)
          /\ \A v \in Agents : v # u => work'[v] = work[v]
      BY <2>2 DEF ScraperInv, TypeOK
    <2>6. counters' \in [Agents -> Counters] /\ \A v \in Agents : v # u => counters'[v] = counters[v]
      BY <2>3, <2>4 DEF ScraperInv, TypeOK
    <2>7. WorkCovers'
      <3>1. ASSUME NEW v \in DOMAIN prevs
            PROVE  counters'[v].received - prevs[v].received <= work'[v]
        <4>1. /\ counters[v].received - prevs[v].received <= work[v]
              /\ v \in Agents /\ prevs[v] \in Sample /\ counters[v] \in Counters /\ work[v] \in Nat
          BY DEF ScraperInv, TypeOK, WorkCovers
        <4>2. prevs[v].received \in Nat /\ counters[v].received \in Nat
          BY <4>1 DEF Sample, Counters
        <4>3. CASE v = u BY <4>1, <4>2, <4>3, <2>4, <2>5
        <4>4. CASE v # u BY <4>1, <4>4, <2>5, <2>6
        <4> QED BY <4>3, <4>4
      <3> QED BY <3>1, <2>1 DEF WorkCovers
    <2>8. HistoriesAreCoherent' /\ SamplesFit' BY <2>1, HistoriesKept
    <2> QED BY <2>1, <2>5, <2>6, <2>7, <2>8 DEF ScraperInv, TypeOK
  <1>3. ASSUME NEW u \in Agents, RestartCollector(u) PROVE ScraperInv'
    <2>1. UNCHANGED <<offered, clock, steps, round, todo, live, prevs, byID, work, stepped>>
          /\ counters' = [counters EXCEPT ![u] = Zero]
      BY <1>3 DEF RestartCollector, roundVars
    <2>2. Zero \in Counters /\ Zero.received = 0 BY DEF Zero, Counters
    <2>3. counters' \in [Agents -> Counters] BY <2>1, <2>2 DEF ScraperInv, TypeOK
    <2>4. ASSUME NEW v \in DOMAIN prevs
          PROVE  counters'[v].received - prevs[v].received <= work[v]
      <3>1. /\ counters[v].received - prevs[v].received <= work[v]
            /\ v \in Agents /\ prevs[v] \in Sample /\ counters[v] \in Counters /\ work[v] \in Nat
        BY DEF ScraperInv, TypeOK, WorkCovers
      <3>2. prevs[v].received \in Nat BY <3>1 DEF Sample
      <3>3. CASE v = u
        <4>1. counters'[v].received = 0 BY <2>1, <2>2, <3>1, <3>3 DEF ScraperInv, TypeOK
        <4> QED BY <4>1, <3>1, <3>2
      <3>4. CASE v # u
        <4>1. counters'[v] = counters[v] BY <2>1, <3>1, <3>4 DEF ScraperInv, TypeOK
        <4> QED BY <4>1, <3>1
      <3> QED BY <3>3, <3>4
    <2>5. HistoriesAreCoherent' /\ SamplesFit' BY <2>1, HistoriesKept
    <2> QED BY <2>1, <2>3, <2>4, <2>5 DEF ScraperInv, TypeOK, WorkCovers
  <1>4. ASSUME Tick PROVE ScraperInv'
    <2>1. /\ UNCHANGED <<offered, counters, steps, round, todo, live, prevs, byID, work, stepped>>
          /\ clock' = clock + 1
      BY <1>4 DEF Tick, roundVars
    <2>2. HistoriesAreCoherent' /\ SamplesFit' BY <2>1, HistoriesKept
    <2> QED BY <2>1, <2>2 DEF ScraperInv, TypeOK, WorkCovers
  <1>b. ASSUME StepBack PROVE ScraperInv'
    <2>1. /\ UNCHANGED <<offered, counters, round, todo, live, prevs, byID, work>>
          /\ clock' \in Nat /\ steps' = steps + 1 /\ stepped' = DOMAIN byID
      BY <1>b DEF StepBack, roundVars
    <2>2. HistoriesAreCoherent' /\ SamplesFit'
      BY <2>1
      DEF ScraperInv, SamplesFit, HistoriesAreCoherent, Bounded, Aligned, Ordered, Contiguous
    <2> QED BY <2>1, <2>2 DEF ScraperInv, TypeOK, WorkCovers
  <1>5. ASSUME StartRound \/ \E u \in Agents : ScrapeFails(u) PROVE ScraperInv'
    <2>1. /\ UNCHANGED <<offered, counters, clock, steps, prevs, byID, work, stepped>>
          /\ round' \in {"idle", "scrape"} /\ todo' \subseteq live' /\ live' \subseteq Agents
      BY <1>5 DEF StartRound, ScrapeFails, collectorVars, ScraperInv, TypeOK
    <2>2. HistoriesAreCoherent' /\ SamplesFit' BY <2>1, HistoriesKept
    <2> QED BY <2>1, <2>2 DEF ScraperInv, TypeOK, WorkCovers
  <1>6. ASSUME NEW u \in Agents, Scrape(u) PROVE ScraperInv'
    BY <1>6, ScrapePreserves
  <1>7. ASSUME EndRound PROVE ScraperInv'
    <2>1. /\ UNCHANGED <<offered, counters, clock, todo, live, prevs, work>>
          /\ UNCHANGED steps /\ stepped' = stepped \cap live
          /\ round' = "idle" /\ byID' = [u \in DOMAIN byID \cap live |-> byID[u]]
      BY <1>7 DEF EndRound, collectorVars
    <2>2. /\ DOMAIN byID' = DOMAIN byID \cap live
          /\ \A u \in DOMAIN byID' : byID'[u] = byID[u]
          /\ byID' \in [DOMAIN byID' -> SnapshotType]
      BY <2>1 DEF ScraperInv, TypeOK
    <2>3. TypeOK' BY <2>1, <2>2 DEF ScraperInv, TypeOK
    <2>4. HistoriesAreCoherent'
      <3>1. ASSUME NEW u \in DOMAIN byID'
            PROVE  Shaped(byID'[u]) /\ (u \notin stepped' => InTime(byID'[u]))
        BY <2>1, <2>2 DEF ScraperInv, HistoriesAreCoherent, Shaped, InTime
      <3> QED
        BY <3>1
        DEF HistoriesAreCoherent, Shaped, InTime, Bounded, Aligned, Ordered, Contiguous
    <2>5. SamplesFit' BY <2>1, <2>2 DEF ScraperInv, SamplesFit
    <2>6. WorkCovers' BY <2>1 DEF ScraperInv, WorkCovers
    <2> QED BY <2>3, <2>4, <2>5, <2>6 DEF ScraperInv
  <1>8. CASE UNCHANGED vars
    <2>1. UNCHANGED <<offered, counters, clock, steps, round, todo, live, prevs, byID, work,
                 stepped>>
      BY <1>8 DEF vars, collectorVars, roundVars
    <2>2. HistoriesAreCoherent' /\ SamplesFit' BY <2>1, HistoriesKept
    <2> QED BY <2>1, <2>2 DEF ScraperInv, TypeOK, WorkCovers
  <1> QED BY <1>1, <1>2, <1>3, <1>4, <1>b, <1>5, <1>6, <1>7, <1>8 DEF Next, CollectorStep

-----------------------------------------------------------------------------
\* scraper.go:145-176 and types.go:41-47: every history is bounded, its series
\* are aligned, and it is in order and without gaps as long as the clock is not
\* set back, whichever scrapes fail and whoever leaves and returns.
THEOREM ScraperCoherent == Spec => [](TypeOK /\ HistoriesAreCoherent)
  <1>1. Spec => []ScraperInv
    BY ScraperInvInit, ScraperInvStep, PTL DEF Spec
  <1>2. ScraperInv => TypeOK /\ HistoriesAreCoherent BY DEF ScraperInv
  <1> QED BY <1>1, <1>2, PTL

\* scraper.go:145-176: the collector's samples and the histories made of them
\* are what the types in types.go say.
COROLLARY TypeCorrect == Spec => []TypeOK
  BY ScraperCoherent, PTL

\* One step adds no point that overstates.
LEMMA StepNeverOverstates ==
    ASSUME ScraperInv, [Next]_vars
    PROVE  \A u \in Agents :
              u \in DOMAIN byID' /\ byID'[u].received # SnapshotOf(u).received
                  => byID'[u].received[Len(byID'[u].received)].delta <= work[u]
  <1> SUFFICES ASSUME NEW u \in Agents, u \in DOMAIN byID',
                      byID'[u].received # SnapshotOf(u).received
               PROVE  byID'[u].received[Len(byID'[u].received)].delta <= work[u]
    OBVIOUS
  <1>1. CASE UNCHANGED byID BY <1>1 DEF SnapshotOf
  <1>2. CASE \E v \in Agents : Scrape(v)
    <2>1. PICK v \in Agents : Scrape(v) BY <1>2
    <2>2. CASE v = u BY <2>1, <2>2, ScrapePreserves
    <2>3. CASE v # u
      <3>1. u \in DOMAIN byID /\ byID'[u] = byID[u] BY <2>1, <2>3 DEF Scrape, Put
      <3> QED BY <3>1 DEF SnapshotOf
    <2> QED BY <2>2, <2>3
  <1>3. CASE EndRound
    <2>1. u \in DOMAIN byID /\ byID'[u] = byID[u] BY <1>3 DEF EndRound
    <2> QED BY <2>1 DEF SnapshotOf
  <1>4. UNCHANGED byID \/ EndRound \/ \E v \in Agents : Scrape(v)
    BY DEF Next, vars, CollectorStep, Offer, Withdraw, Collect, RestartCollector, Tick, StepBack,
           StartRound, ScrapeFails
  <1> QED BY <1>1, <1>2, <1>3, <1>4

\* scraper.go:180-183: no rate tells of more than the collector received since
\* the previous sample.
THEOREM RatesTrue == Spec => RatesNeverOverstate
  <1>1. Spec => []ScraperInv
    BY ScraperInvInit, ScraperInvStep, PTL DEF Spec
  <1>2. ScraperInv /\ [Next]_vars =>
          [\A u \in Agents :
              u \in DOMAIN byID' /\ byID'[u].received # SnapshotOf(u).received
                  => byID'[u].received[Len(byID'[u].received)].delta <= work[u]]_vars
    BY StepNeverOverstates
  <1> QED BY <1>1, <1>2, PTL DEF Spec, RatesNeverOverstate

-----------------------------------------------------------------------------
(* Success ratios. types.go:38 calls them fractions, which they are as long *)
(* as no collector restarts: Success, unlike Growth, does not look for a    *)
(* counter that fell.                                                      *)

NoCollectorRestarts == [][\A u \in Agents : ~RestartCollector(u)]_vars

IsFraction(p) == 0 <= p.sent /\ p.sent <= p.total

RatiosAreFractions(snap) == \A i \in 1 .. Len(snap.ratio) : IsFraction(snap.ratio[i])

\* What a collector sent or failed to send is counted upwards.
CountsCover ==
    \A u \in DOMAIN prevs : /\ prevs[u].sent <= counters[u].sent
                            /\ prevs[u].failed <= counters[u].failed

FractionInv == CountsCover /\ RatioIsAFraction

LEMMA RatioParts == RatioIsAFraction <=> \A u \in DOMAIN byID : RatiosAreFractions(byID[u])
  BY DEF RatioIsAFraction, RatiosAreFractions, IsFraction

LEMMA GrowingCountsGiveFractions ==
    ASSUME NEW cur \in Sample, NEW prev \in Sample,
           prev.sent <= cur.sent, prev.failed <= cur.failed
    PROVE  IsFraction(NewRatio(cur, prev))
  <1>1. /\ cur.sent \in Nat /\ cur.failed \in Nat
        /\ prev.sent \in Nat /\ prev.failed \in Nat
    BY DEF Sample
  <1> DEFINE total == (cur.sent + cur.failed) - (prev.sent + prev.failed)
             success == Success(cur, prev)
  <1>2. success = IF total > 0 THEN [sent |-> cur.sent - prev.sent, total |-> total]
                  ELSE [sent |-> 0, total |-> 1]
    BY DEF Success
  <1>3. 0 <= success.sent /\ success.sent <= success.total
    BY <1>1, <1>2
  <1>4. NewRatio(cur, prev) = [time |-> cur.at, sent |-> success.sent, total |-> success.total]
    BY DEF NewRatio
  <1> HIDE DEF success
  <1> QED BY <1>3, <1>4 DEF IsFraction

LEMMA FractionsAppended ==
    ASSUME NEW snap \in SnapshotType, NEW cur \in Sample, NEW prev \in Sample,
           prev.at < cur.at, Len(snap.ratio) <= MaxHistoryPoints,
           RatiosAreFractions(snap), IsFraction(NewRatio(cur, prev)),
           NEW new, new = WithRates(snap, cur, prev)
    PROVE  RatiosAreFractions(new)
  <1>1. new.ratio = AppendCapped(snap.ratio, NewRatio(cur, prev))
    BY RatesFields
  <1>2. PICK s \in Seq(RatioPoint) : s = snap.ratio
    BY DEF SnapshotType
  <1>3. PICK t \in Seq(RatioPoint) : t = new.ratio /\ Extends(t, s, NewRatio(cur, prev))
    <2>1. NewRatio(cur, prev) \in RatioPoint BY NewPointsType
    <2> QED BY <1>1, <1>2, <2>1, AppendCappedExtends
  <1>4. MaxHistoryPoints \in Nat \ {0} /\ Len(s) \in Nat /\ Len(t) \in Nat
    BY ScraperConstants
  <1>5. ASSUME NEW i \in 1 .. Len(t) PROVE IsFraction(t[i])
    <2>1. CASE i = Len(t) BY <1>3, <2>1 DEF Extends
    <2>2. CASE i # Len(t)
      <3>1. i \in 1 .. Len(t) - 1 /\ i + ((Len(s) + 1) - Len(t)) \in 1 .. Len(s)
        <4>1. Len(s) <= MaxHistoryPoints BY <1>2
        <4>2. Len(t) = Len(s) + 1 \/ Len(t) = Len(s) BY <1>3, <1>4, <4>1 DEF Extends
        <4> QED BY <1>4, <4>2, <2>2
      <3>2. t[i] = s[i + ((Len(s) + 1) - Len(t))] BY <1>3, <3>1 DEF Extends
      <3> QED BY <1>2, <3>1, <3>2 DEF RatiosAreFractions
    <2> QED BY <2>1, <2>2
  <1> QED BY <1>3, <1>5 DEF RatiosAreFractions

LEMMA ScrapeFraction ==
    ASSUME ScraperInv, FractionInv, NEW u \in Agents, Scrape(u)
    PROVE  FractionInv'
  <1>1. PICK cur \in Sample : cur = CurrentSample(u)
    BY DEF CurrentSample, Sample, ScraperInv, TypeOK, Counters
  <1>2. /\ DOMAIN prevs' = DOMAIN prevs \cup {u} /\ prevs'[u] = cur
        /\ \A v \in DOMAIN prevs : v # u => prevs'[v] = prevs[v]
        /\ UNCHANGED counters
    BY <1>1 DEF Scrape, Put, collectorVars
  <1>3. cur.sent = counters[u].sent /\ cur.failed = counters[u].failed
        /\ counters[u].sent \in Nat /\ counters[u].failed \in Nat
    BY <1>1 DEF CurrentSample, ScraperInv, TypeOK, Counters
  <1>4. CountsCover'
    <2>1. ASSUME NEW v \in DOMAIN prevs'
          PROVE  prevs'[v].sent <= counters[v].sent /\ prevs'[v].failed <= counters[v].failed
      <3>1. CASE v = u BY <3>1, <1>2, <1>3
      <3>2. CASE v # u BY <3>2, <1>2, <2>1 DEF FractionInv, CountsCover
      <3> QED BY <3>1, <3>2
    <2> QED BY <2>1, <1>2 DEF CountsCover
  <1>5. PICK snap \in SnapshotType : snap = SnapshotOf(u)
    BY NoSnapshotType DEF SnapshotOf, ScraperInv, TypeOK
  <1>6. RatiosAreFractions(snap) /\ Len(snap.ratio) <= MaxHistoryPoints
    <2>1. CASE u \in DOMAIN byID
      BY <1>5, <2>1, RatioParts
      DEF SnapshotOf, FractionInv, ScraperInv, HistoriesAreCoherent, Bounded, Aligned
    <2>2. CASE u \notin DOMAIN byID
      BY <1>5, <2>2, ScraperConstants DEF SnapshotOf, NoSnapshot, RatiosAreFractions
    <2> QED BY <2>1, <2>2
  <1>7. \/ UNCHANGED byID
        \/ \E new : byID' = Put(byID, u, new) /\ RatiosAreFractions(new)
    <2>1. CASE u \notin DOMAIN prevs /\ byID' = Put(byID, u, WithGauge(SnapshotOf(u), cur.at))
      <3>1. PICK new : new = WithGauge(snap, cur.at) OBVIOUS
      <3>2. new.ratio = snap.ratio
        <4>1. \A m : [snap EXCEPT !.updatedAt = cur.at, !.memory = m].ratio = snap.ratio
          BY DEF SnapshotType
        <4>2. new = [snap EXCEPT !.updatedAt = cur.at, !.memory = AppendCapped(@, cur.at)]
          BY <3>1 DEF WithGauge
        <4> QED BY <4>1, <4>2
      <3> QED BY <1>5, <1>6, <2>1, <3>1, <3>2 DEF RatiosAreFractions
    <2>2. CASE /\ u \in DOMAIN prevs /\ cur.at > prevs[u].at
               /\ byID' = Put(byID, u, WithRates(SnapshotOf(u), cur, prevs[u]))
      <3>1. PICK prev \in Sample : prev = prevs[u] BY <2>2 DEF ScraperInv, TypeOK
      <3>2. prev.at < cur.at BY <2>2, <3>1 DEF Sample
      <3>3. IsFraction(NewRatio(cur, prev))
        <4>1. prev.sent <= cur.sent /\ prev.failed <= cur.failed
          BY <1>3, <2>2, <3>1 DEF FractionInv, CountsCover
        <4> QED BY <4>1, GrowingCountsGiveFractions
      <3>4. PICK new : new = WithRates(snap, cur, prev) OBVIOUS
      <3>5. RatiosAreFractions(new) BY <1>6, <3>2, <3>3, <3>4, FractionsAppended
      <3> QED BY <1>5, <2>2, <3>1, <3>4, <3>5
    <2> QED BY <1>1, <2>1, <2>2 DEF Scrape
  <1>8. RatioIsAFraction'
    <2>1. CASE UNCHANGED byID BY <2>1 DEF FractionInv, RatioIsAFraction
    <2>2. CASE \E new : byID' = Put(byID, u, new) /\ RatiosAreFractions(new)
      <3>1. PICK new : byID' = Put(byID, u, new) /\ RatiosAreFractions(new) BY <2>2
      <3>2. DOMAIN byID' = DOMAIN byID \cup {u} /\ byID'[u] = new
            /\ \A v \in DOMAIN byID : v # u => byID'[v] = byID[v]
        BY <3>1 DEF Put
      <3>3. \A v \in DOMAIN byID' : RatiosAreFractions(byID'[v])
        BY <3>1, <3>2, RatioParts DEF FractionInv
      <3> QED BY <3>3 DEF RatioIsAFraction, RatiosAreFractions, IsFraction
    <2> QED BY <1>7, <2>1, <2>2
  <1> QED BY <1>4, <1>8 DEF FractionInv

LEMMA FractionStep ==
    ASSUME ScraperInv, FractionInv, [Next]_vars, ~\E u \in Agents : RestartCollector(u)
    PROVE  FractionInv'
  <1>1. CASE \E u \in Agents : Scrape(u)
    BY <1>1, ScrapeFraction
  <1>2. CASE EndRound
    <2>1. /\ UNCHANGED <<counters, prevs>> /\ DOMAIN byID' \subseteq DOMAIN byID
          /\ \A u \in DOMAIN byID' : byID'[u] = byID[u]
      BY <1>2 DEF EndRound, collectorVars
    <2> QED BY <2>1 DEF FractionInv, CountsCover, RatioIsAFraction
  <1>3. CASE \E u \in Agents : Collect(u)
    <2>1. PICK u \in Agents : Collect(u) BY <1>3
    <2>2. UNCHANGED <<prevs, byID>> BY <2>1 DEF Collect, roundVars
    <2>3. PICK k \in {"received", "sent", "failed"} : counters' = [counters EXCEPT ![u][k] = @ + 1]
      BY <2>1 DEF Collect
    <2>4. /\ counters[u] \in Counters /\ counters'[u] = [counters[u] EXCEPT ![k] = @ + 1]
          /\ \A v \in Agents : v # u => counters'[v] = counters[v]
      BY <2>3 DEF ScraperInv, TypeOK
    <2>n. \A v \in Agents : counters[v].sent \in Nat /\ counters[v].failed \in Nat
      BY DEF ScraperInv, TypeOK, Counters
    <2>g. \A v \in Agents : /\ counters[v].sent <= counters'[v].sent /\ counters'[v].sent \in Nat
                            /\ counters[v].failed <= counters'[v].failed
                            /\ counters'[v].failed \in Nat
      <3>1. /\ counters[u].sent <= counters'[u].sent /\ counters'[u].sent \in Nat
            /\ counters[u].failed <= counters'[u].failed /\ counters'[u].failed \in Nat
        BY <2>4, <2>n DEF Counters
      <3>2. \A v \in Agents : v # u => /\ counters[v].sent = counters'[v].sent
                                       /\ counters[v].failed = counters'[v].failed
        BY <2>4
      <3> QED BY <3>1, <3>2, <2>n
    <2>5. ASSUME NEW v \in DOMAIN prevs
          PROVE  prevs[v].sent <= counters'[v].sent /\ prevs[v].failed <= counters'[v].failed
      <3>1. v \in Agents /\ prevs[v] \in Sample
            /\ prevs[v].sent <= counters[v].sent /\ prevs[v].failed <= counters[v].failed
        BY DEF ScraperInv, TypeOK, FractionInv, CountsCover
      <3>2. prevs[v].sent \in Nat /\ prevs[v].failed \in Nat BY <3>1 DEF Sample
      <3> QED BY <3>1, <3>2, <2>n, <2>g
    <2> QED BY <2>2, <2>5 DEF FractionInv, CountsCover, RatioIsAFraction
  <1>4. CASE UNCHANGED <<counters, prevs, byID>>
    BY <1>4 DEF FractionInv, CountsCover, RatioIsAFraction
  <1> QED BY <1>1, <1>2, <1>3, <1>4
          DEF Next, vars, CollectorStep, Offer, Withdraw, Tick, StepBack, StartRound, ScrapeFails,
              collectorVars, roundVars

\* types.go:38, "sent / (sent + failed), across all exporters, 0..1": so it is, for
\* every agent and every history, unless a collector restarts (see ResetRatio).
THEOREM FractionsWithoutRestarts == Spec /\ NoCollectorRestarts => []RatioIsAFraction
  <1>1. Init => FractionInv
    BY DEF Init, FractionInv, CountsCover, RatioIsAFraction, EmptyMap
  <1>2. ScraperInv /\ FractionInv /\ [Next]_vars /\ [\A u \in Agents : ~RestartCollector(u)]_vars
        => FractionInv'
    <2> SUFFICES ASSUME ScraperInv, FractionInv, [Next]_vars,
                        [\A u \in Agents : ~RestartCollector(u)]_vars
                 PROVE  FractionInv'
      OBVIOUS
    <2>1. CASE UNCHANGED vars
      BY <2>1 DEF vars, collectorVars, FractionInv, CountsCover, RatioIsAFraction
    <2>2. CASE \A u \in Agents : ~RestartCollector(u)
      BY <2>2, FractionStep
    <2> QED BY <2>1, <2>2
  <1>3. FractionInv => RatioIsAFraction BY DEF FractionInv
  <1> QED BY <1>1, <1>2, <1>3, ScraperInvInit, ScraperInvStep, PTL DEF Spec, NoCollectorRestarts

-----------------------------------------------------------------------------
(* Forgetting. A round that starts when an agent is not offered does not    *)
(* have it, so its end prunes what earlier rounds kept, and nothing comes   *)
(* back. That rounds go on ending is what the ticker and scrapeTimeout      *)
(* give; why is a matter of liveness, and left to the run.                  *)

RoundsKeepEnding == []<><<EndRound>>_vars

\* Between rounds nothing is left to scrape.
RestsWhenIdle == round = "idle" => todo = {}

LEMMA Rests == Spec => []RestsWhenIdle
  <1>1. Init => RestsWhenIdle BY DEF Init, RestsWhenIdle
  <1>2. RestsWhenIdle /\ [Next]_vars => RestsWhenIdle'
    BY DEF RestsWhenIdle, Next, vars, collectorVars, roundVars, CollectorStep, Offer, Withdraw,
           Collect, RestartCollector, Tick, StepBack, StartRound, ScrapeFails, Scrape, EndRound
  <1> QED BY <1>1, <1>2, PTL DEF Spec

\* The round that runs, if any, does not know of u.
NotOfRound(u) == round = "idle" \/ u \notin live

LEMMA NotOfRoundStays ==
    ASSUME TypeOK, RestsWhenIdle, [Next]_vars, NEW u \in Agents, u \notin offered, NotOfRound(u)
    PROVE  NotOfRound(u)'
  <1>1. CASE StartRound BY <1>1 DEF StartRound, NotOfRound
  <1>2. CASE EndRound BY <1>2 DEF EndRound, NotOfRound
  <1>3. CASE UNCHANGED <<round, live>> BY <1>3 DEF NotOfRound
  <1> QED BY <1>1, <1>2, <1>3
          DEF Next, vars, roundVars, CollectorStep, Offer, Withdraw, Collect, RestartCollector,
              Tick, StepBack, ScrapeFails, Scrape

LEMMA ForgottenStays ==
    ASSUME TypeOK, RestsWhenIdle, [Next]_vars, NEW u \in Agents, NotOfRound(u),
           u \notin DOMAIN byID
    PROVE  u \notin DOMAIN byID'
  <1>1. CASE \E v \in Agents : Scrape(v)
    <2>1. PICK v \in Agents : Scrape(v) BY <1>1
    <2>2. v # u BY <2>1 DEF Scrape, NotOfRound, RestsWhenIdle, TypeOK
    <2> QED BY <2>1, <2>2 DEF Scrape, Put
  <1>2. CASE EndRound BY <1>2 DEF EndRound
  <1>3. CASE UNCHANGED byID BY <1>3
  <1> QED BY <1>1, <1>2, <1>3
          DEF Next, vars, CollectorStep, Offer, Withdraw, Collect, RestartCollector, Tick, StepBack,
              StartRound, ScrapeFails

\* store.go:33-35: as long as rounds end, the metrics store keeps no history of an
\* agent that left, and gets none back, whenever in a round it left.
THEOREM AbsentIsForgotten == Spec /\ RoundsKeepEnding => AbsentAgentIsForgotten
  <1> SUFFICES ASSUME NEW u \in Agents
               PROVE  Spec /\ RoundsKeepEnding =>
                          (<>[](u \notin offered) => <>[](u \notin DOMAIN byID))
    BY DEF AbsentAgentIsForgotten
  <1> DEFINE Off == u \notin offered
             Out == NotOfRound(u)
             Gone == Out /\ u \notin DOMAIN byID
  <1>1. TypeOK /\ RestsWhenIdle /\ [Next]_vars /\ Off /\ Out => Out'
    BY NotOfRoundStays
  <1>2. TypeOK /\ RestsWhenIdle /\ [Next]_vars /\ Off /\ Gone => Gone'
    BY NotOfRoundStays, ForgottenStays
  <1>3. <<EndRound>>_vars => Out'
    BY DEF EndRound, NotOfRound
  <1>4. <<EndRound>>_vars /\ Out => Gone'
    BY DEF EndRound, NotOfRound
  <1>5. Gone => u \notin DOMAIN byID
    OBVIOUS
  <1>6. Off <=> u \notin offered
    OBVIOUS
  <1> HIDE DEF Off, Out, Gone
  <1> QED BY <1>1, <1>2, <1>3, <1>4, <1>5, <1>6, TypeCorrect, Rests, PTL DEF Spec, RoundsKeepEnding
=============================================================================
