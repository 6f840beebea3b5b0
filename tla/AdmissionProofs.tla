-------------------------- MODULE AdmissionProofs --------------------------
(***************************************************************************)
(* The failed-attempt limiter bounds the attempts of an address in a       *)
(* window and, between two successes, in any span of its length, refuses   *)
(* no address that did not fail, and the eviction of idle buckets changes  *)
(* nothing it decides, for every set of callers, every limit and every     *)
(* window. Callers whose credentials the files hold get in in the end, and *)
(* those who stay away are forgotten.                                      *)
(***************************************************************************)
EXTENDS Admission, MapLemmas, FiniteSetTheorems

\* While a window runs, its last failure is no older than its first.
SeenWithinWindow ==
    \A k \in DOMAIN buckets : Current(buckets[k]) => buckets[k].lastSeen <= buckets[k].windowFrom

LEMMA EvictAfterCoversWindow == EvictAfter \in Nat /\ Window <= EvictAfter
  <1>1. Window \in Nat /\ IdleWindows \in Nat /\ IdleWindows >= 1
    BY AdmissionConstants
  <1>2. PICK n \in Nat : IdleWindows = n + 1
    BY <1>1
  <1>3. n * Window \in Nat
    BY <1>1
  <1>4. (n + 1) * Window = n * Window + Window
    BY <1>1
  <1>. QED
    BY <1>1, <1>2, <1>3, <1>4 DEF EvictAfter

LEMMA OlderType ==
    ASSUME NEW limit \in Nat, NEW age \in 0..limit + 1
    PROVE  Older(age, limit) \in 0..limit + 1
  BY DEF Older

-----------------------------------------------------------------------------
(* What the limiter's operations do to the buckets.                        *)

Buckets == Maps(Keys, Bucket)

LEMMA AfterFailureApply ==
    ASSUME NEW m \in Buckets, NEW k \in Keys
    PROVE  LET n == AfterFailure(m, k) IN
           /\ n \in Buckets
           /\ DOMAIN n = DOMAIN m \cup {k}
           /\ \A j \in DOMAIN m : j # k => n[j] = m[j]
           /\ IF k \in DOMAIN m /\ Current(m[k])
              THEN n[k].count = m[k].count + 1 /\ n[k].windowFrom = m[k].windowFrom
              ELSE n[k].count = 1 /\ n[k].windowFrom = 0
           /\ n[k].lastSeen = 0
  <1>. PICK n : n = AfterFailure(m, k)
    OBVIOUS
  <1>. DEFINE b == IF k \in DOMAIN m /\ Current(m[k]) THEN m[k]
                   ELSE [count |-> 0, windowFrom |-> 0, lastSeen |-> 0]
              e == [count |-> b.count + 1, windowFrom |-> b.windowFrom, lastSeen |-> 0]
  <1>1. Window \in Nat /\ EvictAfter \in Nat
    BY AdmissionConstants, EvictAfterCoversWindow
  <1>2. b \in Bucket
    BY <1>1 DEF Bucket, Buckets, Maps
  <1>3. n = Put(m, k, e)
    BY DEF AfterFailure
  <1>4. /\ e.lastSeen = 0
        /\ IF k \in DOMAIN m /\ Current(m[k])
           THEN e.count = m[k].count + 1 /\ e.windowFrom = m[k].windowFrom
           ELSE e.count = 1 /\ e.windowFrom = 0
    OBVIOUS
  <1>5. b.count \in Nat /\ b.windowFrom \in 0..Window + 1
    BY <1>2 DEF Bucket
  <1>. HIDE DEF b
  <1>6. e \in Bucket
    BY <1>1, <1>5 DEF Bucket
  <1>. HIDE DEF e
  <1>7. DOMAIN n = DOMAIN m \cup {k} /\ n[k] = e /\ \A j \in DOMAIN m : j # k => n[j] = m[j]
    BY <1>3 DEF Put
  <1>8. n \in Buckets
    <2>1. n \in [DOMAIN m \cup {k} -> Bucket]
      BY <1>3, <1>6 DEF Put, Buckets, Maps
    <2>. QED
      BY <2>1 DEF Buckets, Maps
  <1>. QED
    BY <1>4, <1>7, <1>8

LEMMA DeleteApply ==
    ASSUME NEW m \in Buckets, NEW k \in Keys
    PROVE  /\ Delete(m, k) \in Buckets
           /\ DOMAIN Delete(m, k) = DOMAIN m \ {k}
           /\ \A j \in DOMAIN Delete(m, k) : Delete(m, k)[j] = m[j]
  <1>1. Delete(m, k) \in [DOMAIN m \ {k} -> Bucket]
    BY DEF Delete, Buckets, Maps
  <1>2. /\ DOMAIN Delete(m, k) = DOMAIN m \ {k}
        /\ \A j \in DOMAIN Delete(m, k) : Delete(m, k)[j] = m[j]
    BY DEF Delete
  <1>. QED
    BY <1>1, <1>2 DEF Buckets, Maps

LEMMA RejectApply ==
    ASSUME buckets \in Buckets, NEW r \in Callers, Reject(r), NEW k \in Keys, k = KeyOf[r]
    PROVE  /\ buckets' \in Buckets
           /\ DOMAIN buckets' = DOMAIN buckets \cup {k}
           /\ \A j \in DOMAIN buckets : j # k => buckets'[j] = buckets[j]
           /\ IF k \in DOMAIN buckets /\ Current(buckets[k])
              THEN /\ buckets'[k].count = buckets[k].count + 1
                   /\ buckets'[k].windowFrom = buckets[k].windowFrom
              ELSE buckets'[k].count = 1 /\ buckets'[k].windowFrom = 0
           /\ buckets'[k].lastSeen = 0
  <1>1. buckets' = AfterFailure(buckets, k)
    BY DEF Reject
  <1>. QED
    BY <1>1, AfterFailureApply

LEMMA AdmitApply ==
    ASSUME buckets \in Buckets, NEW r \in Callers, Admit(r)
    PROVE  /\ buckets' \in Buckets
           /\ DOMAIN buckets' = DOMAIN buckets \ {KeyOf[r]}
           /\ \A j \in DOMAIN buckets' : buckets'[j] = buckets[j]
  <1>1. buckets' = Delete(buckets, KeyOf[r]) /\ KeyOf[r] \in Keys
    BY AdmissionConstants DEF Admit
  <1>. QED
    BY <1>1, DeleteApply

LEMMA EvictApply ==
    ASSUME buckets \in Buckets, Evict
    PROVE  /\ buckets' \in Buckets
           /\ DOMAIN buckets' = {j \in DOMAIN buckets : ~Stale(buckets[j])}
           /\ \A j \in DOMAIN buckets' : buckets'[j] = buckets[j]
  <1>. DEFINE D == {j \in DOMAIN buckets : ~Stale(buckets[j])}
  <1>1. buckets' = [j \in D |-> buckets[j]] /\ D \subseteq DOMAIN buckets
    BY DEF Evict
  <1>. HIDE DEF D
  <1>2. DOMAIN buckets' = D /\ (\A j \in D : buckets'[j] = buckets[j])
    BY <1>1
  <1>3. buckets' \in [D -> Bucket]
    BY <1>1 DEF Buckets, Maps
  <1>. QED
    BY <1>1, <1>2, <1>3 DEF Buckets, Maps, D

LEMMA TickApply ==
    ASSUME buckets \in Buckets, Tick
    PROVE  /\ buckets' \in Buckets
           /\ DOMAIN buckets' = DOMAIN buckets
           /\ \A j \in DOMAIN buckets :
                 /\ buckets'[j].count = buckets[j].count
                 /\ buckets'[j].windowFrom = Older(buckets[j].windowFrom, Window)
                 /\ buckets'[j].lastSeen = Older(buckets[j].lastSeen, EvictAfter)
  <1>1. Window \in Nat /\ EvictAfter \in Nat
    BY AdmissionConstants, EvictAfterCoversWindow
  <1>2. buckets' = [j \in DOMAIN buckets |-> Aged(buckets[j])]
    BY DEF Tick
  <1>3. ASSUME NEW b \in Bucket
        PROVE  /\ Aged(b) \in Bucket
               /\ Aged(b).count = b.count
               /\ Aged(b).windowFrom = Older(b.windowFrom, Window)
               /\ Aged(b).lastSeen = Older(b.lastSeen, EvictAfter)
    <2>1. /\ b.count \in Nat
          /\ b.windowFrom \in 0..Window + 1 /\ b.lastSeen \in 0..EvictAfter + 1
      BY DEF Bucket
    <2>2. /\ Older(b.windowFrom, Window) \in 0..Window + 1
          /\ Older(b.lastSeen, EvictAfter) \in 0..EvictAfter + 1
      BY <1>1, <2>1, OlderType
    <2>. QED
      BY <2>1, <2>2 DEF Bucket, Aged
  <1>4. \A j \in DOMAIN buckets : buckets[j] \in Bucket
    BY DEF Buckets, Maps
  <1>5. buckets' \in [DOMAIN buckets -> Bucket]
    BY <1>2, <1>3, <1>4
  <1>6. DOMAIN buckets' = DOMAIN buckets /\ \A j \in DOMAIN buckets : buckets'[j] = Aged(buckets[j])
    BY <1>2
  <1>. QED
    BY <1>3, <1>4, <1>5, <1>6 DEF Buckets, Maps

-----------------------------------------------------------------------------
(* Types.                                                                  *)

PcType == pc \in [Callers -> {"idle", "verify", "throttled", "failed", "passed"}]
LimiterType == buckets \in Buckets /\ recent \in [Keys -> [0..Window -> Nat]]
TokensType == tokenFile \in TokenFiles /\ tokens \in TokenFiles \ {{}}
BasicType ==
    /\ basicFiles \in PairType /\ pair \in PairType
    /\ HasBasic => Usable(pair)
    /\ userRead \in Users \cup {NoValue}

LEMMA TypeParts ==
    TypeOK <=> LimiterType /\ PcType /\ TokensType /\ BasicType /\ rotations \in 0..MaxRotations
  BY DEF TypeOK, LimiterType, PcType, TokensType, BasicType, Buckets, Maps

LEMMA InitType == Init => TypeOK
  <1>. SUFFICES ASSUME Init PROVE TypeOK
    OBVIOUS
  <1>1. LimiterType
    <2>1. buckets \in [{} -> Bucket] /\ DOMAIN buckets = {}
      BY DEF Init, EmptyMap
    <2>2. recent \in [Keys -> [0..Window -> Nat]]
      BY DEF Init, NoFailures
    <2>. QED
      BY <2>1, <2>2 DEF LimiterType, Buckets, Maps
  <1>2. PcType /\ TokensType
    BY DEF Init, PcType, TokensType
  <1>3. BasicType
    <2>1. NoPair \in PairType
      BY DEF NoPair, PairType
    <2>2. basicFiles \in PairType /\ (HasBasic => Usable(basicFiles))
      BY <2>1, AdmissionConstants DEF Init
    <2>. QED
      BY <2>2 DEF Init, BasicType
  <1>4. rotations \in 0..MaxRotations
    BY AdmissionConstants DEF Init
  <1>. QED
    BY <1>1, <1>2, <1>3, <1>4, TypeParts

\* Steps of a request write the limiter's variables and pc.
LEMMA RequestStepType ==
    ASSUME TypeOK, NEW r \in Callers, Ask(r) \/ Handle(r)
    PROVE  TypeOK'
  <1>1. LimiterType /\ PcType /\ TokensType /\ BasicType /\ rotations \in 0..MaxRotations
    BY TypeParts
  <1>k. PICK k \in Keys : k = KeyOf[r]
    BY AdmissionConstants
  <1>2. UNCHANGED <<tokenVars, basicVars, rotations>>
    BY DEF Ask, Handle, Refuse, Verify, Reject, Admit
  <1>3. (TokensType /\ BasicType /\ rotations \in 0..MaxRotations)'
    BY <1>1, <1>2 DEF TokensType, BasicType, tokenVars, basicVars
  <1>4. PcType'
    BY <1>1 DEF PcType, Ask, Handle, Refuse, Verify, Reject, Admit
  <1>5. LimiterType'
    <2>1. CASE UNCHANGED limiterVars
      BY <2>1, <1>1 DEF LimiterType, limiterVars
    <2>2. CASE Reject(r)
      <3>1. buckets' \in Buckets
        BY <2>2, <1>1, <1>k, RejectApply DEF LimiterType
      <3>2. \A a \in 0..Window : recent[k][a] + 1 \in Nat
        <4>1. recent[k] \in [0..Window -> Nat]
          BY <1>1 DEF LimiterType
        <4>2. \A a \in 0..Window : recent[k][a] \in Nat
          BY <4>1
        <4>. QED
          BY <4>2
      <3>3. recent' \in [Keys -> [0..Window -> Nat]]
        BY <2>2, <1>1, <1>k, <3>2 DEF LimiterType, Reject
      <3>. QED
        BY <3>1, <3>3 DEF LimiterType
    <2>3. CASE Admit(r)
      <3>1. buckets' \in Buckets
        BY <2>3, <1>1, AdmitApply DEF LimiterType
      <3>2. NoFailures \in [0..Window -> Nat]
        BY DEF NoFailures
      <3>. QED
        BY <2>3, <3>1, <3>2, <1>1 DEF Admit, LimiterType
    <2>. QED
      BY <2>1, <2>2, <2>3 DEF Ask, Handle, Refuse, Verify
  <1>6. (TypeOK <=> /\ LimiterType /\ PcType /\ TokensType /\ BasicType
                    /\ rotations \in 0..MaxRotations)'
    BY TypeParts, PTL
  <1>. QED
    BY <1>3, <1>4, <1>5, <1>6

\* Time and the eviction write the limiter's variables only.
LEMMA TimeStepType ==
    ASSUME TypeOK, Evict \/ Tick
    PROVE  TypeOK'
  <1>1. LimiterType /\ PcType /\ TokensType /\ BasicType /\ rotations \in 0..MaxRotations
    BY TypeParts
  <1>2. (PcType /\ TokensType /\ BasicType /\ rotations \in 0..MaxRotations)'
    <2>1. UNCHANGED <<pc, tokenVars, basicVars, rotations>>
      BY DEF Evict, Tick
    <2>. QED
      BY <1>1, <2>1 DEF PcType, TokensType, BasicType, tokenVars, basicVars
  <1>3. CASE Evict
    <2>1. LimiterType'
      BY <1>1, <1>3, EvictApply DEF LimiterType, Evict
    <2>. QED
      BY <1>2, <2>1 DEF TypeOK, LimiterType, PcType, TokensType, BasicType, Buckets, Maps
  <1>4. CASE Tick
    <2>1. buckets' \in Buckets
      BY <1>1, <1>4, TickApply DEF LimiterType
    <2>2. ASSUME NEW k \in Keys, NEW a \in 0..Window
          PROVE  (IF a = 0 THEN 0 ELSE recent[k][a - 1]) \in Nat
      <3>1. a # 0 => a - 1 \in 0..Window
        BY AdmissionConstants
      <3>. QED
        BY <3>1, <1>1 DEF LimiterType
    <2>3. recent' \in [Keys -> [0..Window -> Nat]]
      BY <1>4, <2>2 DEF Tick
    <2>. QED
      BY <1>2, <2>1, <2>3 DEF TypeOK, PcType, TokensType, BasicType, Buckets, Maps
  <1>. QED
    BY <1>3, <1>4

\* Rotations and reloads leave requests and the limiter alone.
LEMMA ReloadStepType ==
    ASSUME TypeOK, RotateTokens \/ RotateBasic \/ ReloadTokens \/ ReadUser \/ ReadPassword
    PROVE  TypeOK'
  <1>1. LimiterType /\ PcType /\ TokensType /\ BasicType /\ rotations \in 0..MaxRotations
    BY TypeParts
  <1>2. (LimiterType /\ PcType)'
    <2>1. UNCHANGED <<limiterVars, pc>>
      BY DEF RotateTokens, RotateBasic, ReloadTokens, ReadUser, ReadPassword
    <2>. QED
      BY <1>1, <2>1 DEF LimiterType, PcType, limiterVars
  <1>3. (rotations \in 0..MaxRotations)'
    BY <1>1, AdmissionConstants DEF RotateTokens, RotateBasic, ReloadTokens, ReadUser, ReadPassword
  <1>4. TokensType'
    BY <1>1
    DEF TokensType, tokenVars, RotateTokens, RotateBasic, ReloadTokens, ReadUser, ReadPassword
  <1>5. BasicType'
    <2>1. CASE UNCHANGED basicVars
      BY <1>1, <2>1 DEF BasicType, basicVars
    <2>2. CASE RotateBasic
      BY <1>1, <2>2, AdmissionConstants DEF BasicType, RotateBasic
    <2>3. CASE ReadUser
      <3>1. basicFiles.user \in Users \cup {NoValue}
        BY <1>1 DEF BasicType, PairType
      <3>. QED
        BY <1>1, <2>3, <3>1 DEF BasicType, ReadUser
    <2>4. CASE ReadPassword
      <3>1. userRead \in Users \cup {NoValue} /\ userRead # NoValue
            /\ basicFiles.pass \in Passwords \cup {NoValue}
        BY <1>1, <2>4 DEF BasicType, ReadPassword, PairType
      <3>2. PICK p : p = [user |-> userRead, pass |-> basicFiles.pass]
        OBVIOUS
      <3>3. p \in PairType /\ (basicFiles.pass # NoValue => Usable(p))
        BY <3>1, <3>2 DEF PairType, Usable
      <3>4. pair' = IF basicFiles.pass = NoValue THEN pair ELSE p
        BY <2>4, <3>2 DEF ReadPassword
      <3>5. pair' \in PairType /\ (HasBasic => Usable(pair'))
        BY <1>1, <3>3, <3>4 DEF BasicType
      <3>. QED
        BY <1>1, <2>4, <3>5 DEF BasicType, ReadPassword
    <2>. QED
      BY <2>1, <2>2, <2>3, <2>4 DEF RotateTokens, ReloadTokens
  <1>. QED
    BY <1>2, <1>3, <1>4, <1>5 DEF TypeOK, LimiterType, PcType, TokensType, BasicType, Buckets, Maps

\* Every state has the types the code gives it; in particular neither verifier
\* is ever left without a credential by a reload.
THEOREM TypeCorrect == Spec => []TypeOK
  <1>1. ASSUME TypeOK, [Next]_vars PROVE TypeOK'
    <2>1. CASE UNCHANGED vars
      BY <1>1, <2>1 DEF TypeOK, vars, limiterVars, tokenVars, basicVars
    <2>2. CASE Next
      BY <1>1, <2>2, RequestStepType, TimeStepType, ReloadStepType DEF Next
    <2>. QED
      BY <1>1, <2>1, <2>2
  <1>. QED
    BY <1>1, InitType, PTL DEF Spec

-----------------------------------------------------------------------------
(* The bound on attempts. A count at the limit can only grow by a request   *)
(* that is in flight already, which then no longer is.                      *)

BoundedAt(k) ==
    k \in DOMAIN buckets /\ Current(buckets[k]) =>
        buckets[k].count + Cardinality(InFlight(k)) < Max + Cardinality(CallersOf(k))

LEMMA CallersFinite ==
    ASSUME NEW k
    PROVE  /\ IsFiniteSet(CallersOf(k)) /\ Cardinality(CallersOf(k)) \in Nat
           /\ IsFiniteSet(InFlight(k)) /\ Cardinality(InFlight(k)) \in Nat
           /\ Cardinality(InFlight(k)) <= Cardinality(CallersOf(k))
  <1>1. CallersOf(k) \subseteq Callers /\ InFlight(k) \subseteq CallersOf(k)
    BY DEF CallersOf, InFlight
  <1>2. IsFiniteSet(CallersOf(k))
    BY <1>1, AdmissionConstants, FS_Subset
  <1>3. IsFiniteSet(InFlight(k)) /\ Cardinality(InFlight(k)) <= Cardinality(CallersOf(k))
    BY <1>1, <1>2, FS_Subset
  <1>. QED
    BY <1>2, <1>3, FS_CardinalityType

LEMMA FewerInFlight ==
    ASSUME NEW k, InFlight(k)' \subseteq InFlight(k)
    PROVE  /\ Cardinality(InFlight(k)') \in Nat
           /\ Cardinality(InFlight(k)') <= Cardinality(InFlight(k))
  BY CallersFinite, FS_Subset, FS_CardinalityType

\* A step that neither counts a failure of k nor lets one of its callers in.
LEMMA BoundKept ==
    ASSUME TypeOK, NEW k \in Keys, BoundedAt(k), InFlight(k)' \subseteq InFlight(k),
           k \in DOMAIN buckets' /\ Current(buckets'[k]) =>
               /\ k \in DOMAIN buckets /\ Current(buckets[k])
               /\ buckets'[k].count = buckets[k].count
    PROVE  BoundedAt(k)'
  <1>. SUFFICES ASSUME k \in DOMAIN buckets', Current(buckets'[k])
                PROVE  buckets'[k].count + Cardinality(InFlight(k)')
                           < Max + Cardinality(CallersOf(k))
    BY DEF BoundedAt, CallersOf, Current
  <1>1. buckets[k].count \in Nat /\ Max \in Nat
    BY AdmissionConstants DEF TypeOK, Bucket
  <1>2. buckets[k].count + Cardinality(InFlight(k)) < Max + Cardinality(CallersOf(k))
    BY DEF BoundedAt
  <1>. QED
    BY <1>1, <1>2, FewerInFlight, CallersFinite

LEMMA AskKeepsBound ==
    ASSUME TypeOK, NEW k \in Keys, BoundedAt(k), NEW r \in Callers, Ask(r)
    PROVE  BoundedAt(k)'
  <1>1. /\ UNCHANGED buckets
        /\ pc' = [pc EXCEPT ![r] = IF Allowed(buckets, KeyOf[r]) THEN "verify" ELSE "throttled"]
    BY DEF Ask, limiterVars
  <1>2. \A q \in Callers : q # r => pc'[q] = pc[q]
    BY <1>1 DEF TypeOK
  <1>3. CASE KeyOf[r] = k /\ Allowed(buckets, k) /\ k \in DOMAIN buckets /\ Current(buckets[k])
    <2>1. buckets[k].count \in Nat /\ Max \in Nat /\ buckets[k].count < Max
      BY <1>3, AdmissionConstants DEF Allowed, TypeOK, Bucket
    <2>2. InFlight(k)' \subseteq CallersOf(k)
      BY DEF InFlight, CallersOf
    <2>3. Cardinality(InFlight(k)') \in Nat /\ Cardinality(InFlight(k)') <= Cardinality(CallersOf(k))
      BY <2>2, CallersFinite, FS_Subset, FS_CardinalityType
    <2>4. buckets'[k].count + Cardinality(InFlight(k)') < Max + Cardinality(CallersOf(k))
      BY <1>1, <2>1, <2>3, CallersFinite
    <2>. QED
      BY <2>4 DEF BoundedAt, CallersOf
  <1>4. CASE ~(k \in DOMAIN buckets /\ Current(buckets[k]))
    BY <1>1, <1>4 DEF BoundedAt, Current
  <1>5. CASE KeyOf[r] # k \/ (k \in DOMAIN buckets /\ ~Allowed(buckets, k))
    <2>1. InFlight(k)' \subseteq InFlight(k)
      <3>. SUFFICES ASSUME NEW q \in InFlight(k)' PROVE q \in InFlight(k)
        OBVIOUS
      <3>1. q \in Callers /\ KeyOf[q] = k /\ pc'[q] \in {"verify", "failed"}
        BY DEF InFlight, CallersOf
      <3>2. q # r
        BY <3>1, <1>1, <1>5 DEF TypeOK
      <3>. QED
        BY <3>1, <3>2, <1>2 DEF InFlight, CallersOf
    <2>. QED
      BY <1>1, <2>1, BoundKept
  <1>. QED
    BY <1>3, <1>4, <1>5

LEMMA RejectKeepsBound ==
    ASSUME TypeOK, NEW k \in Keys, BoundedAt(k), NEW r \in Callers, Reject(r)
    PROVE  BoundedAt(k)'
  <1>1. /\ pc[r] = "failed" /\ pc' = [pc EXCEPT ![r] = "idle"]
    BY DEF Reject
  <1>b. buckets \in Buckets /\ KeyOf[r] \in Keys
    BY AdmissionConstants DEF TypeOK, Buckets, Maps
  <1>2. /\ buckets \in Buckets /\ KeyOf[r] \in Keys
        /\ pc'[r] = "idle" /\ \A q \in Callers : q # r => pc'[q] = pc[q]
    BY <1>1, <1>b DEF TypeOK
  <1>3. CASE KeyOf[r] # k
    <2>1. InFlight(k)' \subseteq InFlight(k)
      BY <1>2, <1>3 DEF InFlight, CallersOf
    <2>2. PICK j \in Keys : j = KeyOf[r] /\ j # k
      BY <1>2, <1>3
    <2>3. /\ DOMAIN buckets' = DOMAIN buckets \cup {j}
          /\ \A i \in DOMAIN buckets : i # j => buckets'[i] = buckets[i]
      BY <1>2, <2>2, RejectApply
    <2>4. k \in DOMAIN buckets' => k \in DOMAIN buckets /\ buckets'[k] = buckets[k]
      BY <2>2, <2>3
    <2>. QED
      BY <2>1, <2>4, BoundKept
  <1>4. CASE KeyOf[r] = k
    <2>1. r \in InFlight(k) /\ InFlight(k)' = InFlight(k) \ {r}
      BY <1>1, <1>2, <1>4 DEF InFlight, CallersOf
    <2>2. /\ Cardinality(InFlight(k)') = Cardinality(InFlight(k)) - 1
          /\ Cardinality(InFlight(k)) - 1 \in Nat
      <3>1. Cardinality(InFlight(k) \ {r}) = Cardinality(InFlight(k)) - 1
        BY <2>1, CallersFinite, FS_RemoveElement
      <3>2. IsFiniteSet(InFlight(k) \ {r})
        BY CallersFinite, FS_RemoveElement
      <3>3. Cardinality(InFlight(k) \ {r}) \in Nat
        BY <3>2, FS_CardinalityType
      <3>. QED
        BY <2>1, <3>1, <3>3
    <2>3. Max \in Nat /\ Max >= 1
      BY AdmissionConstants
    <2>4. buckets'[k].count + Cardinality(InFlight(k)') < Max + Cardinality(CallersOf(k))
      <3>1. CASE k \in DOMAIN buckets /\ Current(buckets[k])
        <4>1. buckets'[k].count = buckets[k].count + 1
          BY <1>2, <1>4, <3>1, RejectApply
        <4>2. buckets[k].count \in Nat
          BY <3>1 DEF TypeOK, Bucket
        <4>3. buckets[k].count + Cardinality(InFlight(k)) < Max + Cardinality(CallersOf(k))
          BY <3>1 DEF BoundedAt
        <4>. QED
          BY <4>1, <4>2, <4>3, <2>2, <2>3, CallersFinite
      <3>2. CASE ~(k \in DOMAIN buckets /\ Current(buckets[k]))
        <4>1. buckets'[k].count = 1
          BY <1>2, <1>4, <3>2, RejectApply
        <4>. QED
          BY <4>1, <2>2, <2>3, CallersFinite
      <3>. QED
        BY <3>1, <3>2
    <2>. QED
      BY <2>4 DEF BoundedAt, CallersOf
  <1>. QED
    BY <1>3, <1>4

LEMMA AdmitKeepsBound ==
    ASSUME TypeOK, NEW k \in Keys, BoundedAt(k), NEW r \in Callers, Admit(r)
    PROVE  BoundedAt(k)'
  <1>1. pc' = [pc EXCEPT ![r] = "idle"]
    BY DEF Admit
  <1>2. InFlight(k)' \subseteq InFlight(k)
    BY <1>1 DEF TypeOK, InFlight, CallersOf
  <1>3. buckets \in Buckets
    BY DEF TypeOK, Buckets, Maps
  <1>4. k \in DOMAIN buckets' => k \in DOMAIN buckets /\ buckets'[k] = buckets[k]
    BY <1>3, AdmitApply
  <1>. QED
    BY <1>2, <1>4, BoundKept

LEMMA OthersKeepBound ==
    ASSUME TypeOK, NEW k \in Keys, BoundedAt(k),
           \/ \E r \in Callers : Refuse(r) \/ Verify(r)
           \/ Evict \/ Tick
           \/ UNCHANGED <<buckets, pc>>
    PROVE  BoundedAt(k)'
  <1>0. buckets \in Buckets /\ Window \in Nat
    BY AdmissionConstants DEF TypeOK, Buckets, Maps
  <1>1. CASE \E r \in Callers : Refuse(r) \/ Verify(r)
    <2>1. InFlight(k)' \subseteq InFlight(k) /\ UNCHANGED buckets
      BY <1>1 DEF TypeOK, Refuse, Verify, limiterVars, InFlight, CallersOf
    <2>. QED
      BY <2>1, BoundKept
  <1>2. CASE Evict
    <2>1. InFlight(k)' = InFlight(k)
      BY <1>2 DEF Evict, InFlight, CallersOf
    <2>2. k \in DOMAIN buckets' => k \in DOMAIN buckets /\ buckets'[k] = buckets[k]
      BY <1>0, <1>2, EvictApply
    <2>. QED
      BY <2>1, <2>2, BoundKept
  <1>3. CASE Tick
    <2>1. InFlight(k)' = InFlight(k)
      BY <1>3 DEF Tick, InFlight, CallersOf
    <2>2. ASSUME k \in DOMAIN buckets', Current(buckets'[k])
          PROVE  /\ k \in DOMAIN buckets /\ Current(buckets[k])
                 /\ buckets'[k].count = buckets[k].count
      <3>1. /\ k \in DOMAIN buckets /\ buckets'[k].count = buckets[k].count
            /\ buckets'[k].windowFrom = Older(buckets[k].windowFrom, Window)
        BY <1>0, <1>3, <2>2, TickApply
      <3>2. buckets[k].windowFrom \in Nat
        BY <1>0, <3>1 DEF Buckets, Maps, Bucket
      <3>. QED
        BY <1>0, <2>2, <3>1, <3>2 DEF Current, Older
    <2>. QED
      BY <2>1, <2>2, BoundKept
  <1>4. CASE UNCHANGED <<buckets, pc>>
    <2>1. InFlight(k)' = InFlight(k)
      BY <1>4 DEF InFlight, CallersOf
    <2>. QED
      BY <1>4, <2>1, BoundKept
  <1>. QED
    BY <1>1, <1>2, <1>3, <1>4

\* In one window an address gets Max failures, and no more beyond that than it
\* had requests past Allow at the same time.
THEOREM AttemptsBounded == Spec => []AttemptsAreBounded
  <1>1. Init => \A k \in Keys : BoundedAt(k)
    BY DEF Init, BoundedAt, EmptyMap
  <1>2. ASSUME TypeOK, \A k \in Keys : BoundedAt(k), [Next]_vars
        PROVE  (\A k \in Keys : BoundedAt(k))'
    <2>. SUFFICES ASSUME NEW k \in Keys PROVE BoundedAt(k)'
      OBVIOUS
    <2>1. CASE \E r \in Callers : Ask(r)
      BY <1>2, <2>1, AskKeepsBound
    <2>2. CASE \E r \in Callers : Reject(r)
      BY <1>2, <2>2, RejectKeepsBound
    <2>3. CASE \E r \in Callers : Admit(r)
      BY <1>2, <2>3, AdmitKeepsBound
    <2>4. CASE (\E r \in Callers : Refuse(r) \/ Verify(r)) \/ Evict \/ Tick
      BY <1>2, <2>4, OthersKeepBound
    <2>5. CASE UNCHANGED <<buckets, pc>>
      BY <1>2, <2>5, OthersKeepBound
    <2>. QED
      BY <1>2, <2>1, <2>2, <2>3, <2>4, <2>5
      DEF Next, Handle, vars, limiterVars, RotateTokens, RotateBasic, ReloadTokens, ReadUser, ReadPassword
  <1>3. TypeOK /\ (\A k \in Keys : BoundedAt(k)) => AttemptsAreBounded
    BY DEF TypeOK, BoundedAt, AttemptsAreBounded
  <1>. QED
    BY <1>1, <1>2, <1>3, TypeCorrect, PTL DEF Spec

-----------------------------------------------------------------------------
(* The eviction. A bucket that has been idle for so long has no running    *)
(* window, for its window opened before it was last seen.                  *)

LEMMA SeenStep ==
    ASSUME TypeOK, SeenWithinWindow, [Next]_vars
    PROVE  SeenWithinWindow'
  <1>0. /\ buckets \in Buckets /\ Window \in Nat /\ EvictAfter \in Nat /\ KeyOf \in [Callers -> Keys]
        /\ \A k \in DOMAIN buckets : buckets[k].windowFrom \in Nat /\ buckets[k].lastSeen \in Nat
    <2>1. \A k \in DOMAIN buckets : buckets[k] \in Bucket
      BY DEF TypeOK
    <2>. QED
      BY <2>1, AdmissionConstants, EvictAfterCoversWindow DEF TypeOK, Buckets, Maps, Bucket
  <1>. SUFFICES ASSUME NEW k \in DOMAIN buckets', Current(buckets'[k])
                PROVE  buckets'[k].lastSeen <= buckets'[k].windowFrom
    BY DEF SeenWithinWindow, Current
  <1>1. CASE k \in DOMAIN buckets /\ buckets'[k] = buckets[k]
    BY <1>1 DEF SeenWithinWindow
  <1>2. ASSUME NEW r \in Callers, Reject(r) PROVE buckets'[k].lastSeen <= buckets'[k].windowFrom
    <2>1. PICK j \in Keys : j = KeyOf[r]
      BY <1>0
    <2>2. /\ DOMAIN buckets' = DOMAIN buckets \cup {j} /\ buckets' \in Buckets
          /\ \A i \in DOMAIN buckets : i # j => buckets'[i] = buckets[i]
          /\ buckets'[j].lastSeen = 0
      BY <1>0, <1>2, <2>1, RejectApply
    <2>3. CASE k # j
      BY <1>1, <2>2, <2>3
    <2>4. CASE k = j
      <3>1. buckets'[k].windowFrom \in Nat
        BY <1>0, <2>2 DEF Buckets, Maps, Bucket
      <3>. QED
        BY <2>2, <2>4, <3>1
    <2>. QED
      BY <2>3, <2>4
  <1>3. ASSUME NEW r \in Callers, Admit(r) PROVE buckets'[k].lastSeen <= buckets'[k].windowFrom
    BY <1>0, <1>1, <1>3, AdmitApply
  <1>4. CASE Evict
    BY <1>0, <1>1, <1>4, EvictApply
  <1>5. CASE Tick
    <2>1. /\ k \in DOMAIN buckets
          /\ buckets'[k].windowFrom = Older(buckets[k].windowFrom, Window)
          /\ buckets'[k].lastSeen = Older(buckets[k].lastSeen, EvictAfter)
      BY <1>0, <1>5, TickApply
    <2>2. buckets[k].windowFrom \in Nat /\ buckets[k].lastSeen \in Nat
      BY <1>0, <2>1
    <2>3. buckets[k].windowFrom + 1 <= Window /\ buckets'[k].windowFrom = buckets[k].windowFrom + 1
      BY <1>0, <2>1, <2>2 DEF Current, Older
    <2>4. buckets[k].lastSeen <= buckets[k].windowFrom
      BY <1>0, <2>1, <2>2, <2>3 DEF SeenWithinWindow, Current
    <2>. QED
      BY <1>0, <2>1, <2>2, <2>3, <2>4 DEF Older
  <1>6. CASE UNCHANGED buckets
    BY <1>1, <1>6
  <1>. QED
    BY <1>2, <1>3, <1>4, <1>5, <1>6
    DEF Next, Ask, Handle, Refuse, Verify, vars, limiterVars,
        RotateTokens, RotateBasic, ReloadTokens, ReadUser, ReadPassword

\* The eviction never takes a count away that Allow would still look at.
THEOREM EvictionInvisible == Spec => EvictionIsInvisible
  <1>1. Init => SeenWithinWindow
    BY DEF Init, SeenWithinWindow, EmptyMap
  <1>2. TypeOK /\ SeenWithinWindow /\ [Next]_vars => SeenWithinWindow'
    BY SeenStep
  <1>3. ASSUME TypeOK, SeenWithinWindow, Evict, NEW k \in DOMAIN buckets, Current(buckets[k])
        PROVE  k \in DOMAIN buckets' /\ buckets'[k] = buckets[k]
    <2>1. buckets[k] \in Bucket /\ buckets \in Buckets /\ Window \in Nat
      BY <1>3, AdmissionConstants DEF TypeOK, Buckets, Maps
    <2>2. buckets[k].windowFrom \in Nat /\ buckets[k].lastSeen \in Nat
      BY <2>1, EvictAfterCoversWindow DEF Bucket
    <2>3. ~Stale(buckets[k])
      BY <1>3, <2>1, <2>2, EvictAfterCoversWindow DEF SeenWithinWindow, Current, Stale
    <2>. QED
      BY <1>3, <2>1, <2>3, EvictApply
  <1>4. TypeOK /\ SeenWithinWindow => [Evict => \A k \in DOMAIN buckets :
            Current(buckets[k]) => k \in DOMAIN buckets' /\ buckets'[k] = buckets[k]]_vars
    BY <1>3
  <1>. QED
    BY <1>1, <1>2, <1>4, TypeCorrect, PTL DEF Spec, EvictionIsInvisible

-----------------------------------------------------------------------------
(* What a bucket recalls of the failures of its address: all of those since *)
(* its window opened, and none after it was last seen. Of the window before *)
(* it at least the failure that opened it lies further back than a window. *)

Room(k) == Max + Cardinality(CallersOf(k)) - 1

Cumulative(k) == \A a, b \in 0..Window : a <= b => recent[k][a] <= recent[k][b]

Counted(k) ==
    LET b == buckets[k]
    IN  /\ b.count >= 1
        /\ recent[k][b.windowFrom] = b.count
        /\ b.windowFrom > 0 => recent[k][b.windowFrom - 1] < b.count
        /\ recent[k][Window] < b.count + Room(k)

Elapsed(k) == recent[k][0] = 0 /\ recent[k][Window] < Room(k)

RecalledAt(k) ==
    /\ Cumulative(k)
    /\ k \notin DOMAIN buckets => recent[k][Window] = 0
    /\ k \in DOMAIN buckets =>
          /\ \A a \in 0..Window : a < buckets[k].lastSeen => recent[k][a] = 0
          /\ IF Current(buckets[k]) THEN Counted(k) ELSE Elapsed(k)

LEMMA RoomOfACaller ==
    ASSUME NEW k
    PROVE  Room(k) \in Int /\ (CallersOf(k) # {} => Room(k) \in Nat \ {0})
  <1>1. Max \in Nat \ {0}
    BY AdmissionConstants
  <1>2. CallersOf(k) # {} => Cardinality(CallersOf(k)) # 0
    BY CallersFinite, FS_EmptySet
  <1>. QED
    BY <1>1, <1>2, CallersFinite DEF Room

LEMMA RecentType ==
    ASSUME TypeOK, NEW k \in Keys
    PROVE  /\ Window \in Nat /\ 0 \in 0..Window /\ Window \in 0..Window
           /\ \A a \in 0..Window : recent[k][a] \in Nat
           /\ k \in DOMAIN buckets =>
                 /\ buckets[k].count \in Nat /\ buckets[k].lastSeen \in 0..EvictAfter + 1
                 /\ buckets[k].windowFrom \in 0..Window + 1
  <1>1. Window \in Nat
    BY AdmissionConstants
  <1>2. \A a \in 0..Window : recent[k][a] \in Nat
    BY DEF TypeOK
  <1>3. k \in DOMAIN buckets => buckets[k] \in Bucket
    BY DEF TypeOK
  <1>. QED
    BY <1>1, <1>2, <1>3 DEF Bucket

LEMMA RecallUnchanged ==
    ASSUME NEW k, RecalledAt(k), recent'[k] = recent[k],
           k \in DOMAIN buckets' <=> k \in DOMAIN buckets,
           k \in DOMAIN buckets => buckets'[k] = buckets[k]
    PROVE  RecalledAt(k)'
  BY DEF RecalledAt, Cumulative, Counted, Elapsed, Current, Room, CallersOf

LEMMA RejectRecalls ==
    ASSUME TypeOK, NEW k \in Keys, RecalledAt(k), NEW r \in Callers, Reject(r)
    PROVE  RecalledAt(k)'
  <1>0. buckets \in Buckets /\ KeyOf[r] \in Keys /\ recent \in [Keys -> [0..Window -> Nat]]
    BY AdmissionConstants DEF TypeOK, Buckets, Maps
  <1>1. CASE KeyOf[r] # k
    <2>1. recent'[k] = recent[k]
      BY <1>0, <1>1 DEF Reject
    <2>2. PICK j \in Keys : j = KeyOf[r]
      BY <1>0
    <2>3. /\ DOMAIN buckets' = DOMAIN buckets \cup {j}
          /\ \A i \in DOMAIN buckets : i # j => buckets'[i] = buckets[i]
      BY <1>0, <2>2, RejectApply
    <2>. QED
      BY <1>1, <2>1, <2>2, <2>3, RecallUnchanged
  <1>2. CASE KeyOf[r] = k
    <2>1. recent'[k] = [a \in 0..Window |-> recent[k][a] + 1]
      BY <1>0, <1>2 DEF Reject
    <2>2. \A a \in 0..Window : recent'[k][a] = recent[k][a] + 1
      BY <2>1
    <2>3. /\ k \in DOMAIN buckets'
          /\ IF k \in DOMAIN buckets /\ Current(buckets[k])
             THEN /\ buckets'[k].count = buckets[k].count + 1
                  /\ buckets'[k].windowFrom = buckets[k].windowFrom
             ELSE buckets'[k].count = 1 /\ buckets'[k].windowFrom = 0
          /\ buckets'[k].lastSeen = 0
      BY <1>0, <1>2, RejectApply
    <2>4. Room(k) \in Nat \ {0} /\ Room(k)' = Room(k)
      <3>1. r \in CallersOf(k)
        BY <1>2 DEF CallersOf
      <3>. QED
        BY <3>1, RoomOfACaller DEF Room, CallersOf
    <2>5. Cumulative(k)'
      BY <2>2, RecentType DEF RecalledAt, Cumulative
    <2>6. \A a \in 0..Window : a < buckets'[k].lastSeen => recent'[k][a] = 0
      BY <2>3, RecentType
    <2>7. Current(buckets'[k]) /\ Counted(k)'
      <3>1. CASE k \in DOMAIN buckets /\ Current(buckets[k])
        <4>1. Counted(k) /\ buckets[k].windowFrom \in 0..Window
          BY <3>1, RecentType DEF RecalledAt, Current
        <4>2. buckets[k].windowFrom > 0 => buckets[k].windowFrom - 1 \in 0..Window
          BY <4>1, RecentType
        <4>3. buckets'[k].count = buckets[k].count + 1 /\ buckets'[k].windowFrom = buckets[k].windowFrom
          BY <2>3, <3>1
        <4>4. Counted(k)'
          BY <4>1, <4>2, <4>3, <2>2, <2>4, <3>1, RecentType DEF Counted
        <4>. QED
          BY <4>1, <4>3, <4>4, RecentType DEF Current
      <3>2. CASE ~(k \in DOMAIN buckets /\ Current(buckets[k]))
        <4>1. recent[k][0] = 0 /\ recent[k][Window] < Room(k)
          <5>1. CASE k \in DOMAIN buckets
            BY <3>2, <5>1 DEF RecalledAt, Elapsed
          <5>2. CASE k \notin DOMAIN buckets
            <6>1. recent[k][0] <= recent[k][Window] /\ recent[k][Window] = 0
              BY <5>2, RecentType DEF RecalledAt, Cumulative
            <6>. QED
              BY <6>1, <2>4, RecentType
          <5>. QED
            BY <5>1, <5>2
        <4>2. buckets'[k].count = 1 /\ buckets'[k].windowFrom = 0
          BY <2>3, <3>2
        <4>3. Counted(k)'
          BY <4>1, <4>2, <2>2, <2>4, RecentType DEF Counted
        <4>. QED
          BY <4>2, <4>3, RecentType DEF Current
      <3>. QED
        BY <3>1, <3>2
    <2>. QED
      BY <2>3, <2>5, <2>6, <2>7 DEF RecalledAt
  <1>. QED
    BY <1>1, <1>2

LEMMA AdmitRecalls ==
    ASSUME TypeOK, NEW k \in Keys, RecalledAt(k), NEW r \in Callers, Admit(r)
    PROVE  RecalledAt(k)'
  <1>0. buckets \in Buckets /\ KeyOf[r] \in Keys /\ recent \in [Keys -> [0..Window -> Nat]]
    BY AdmissionConstants DEF TypeOK, Buckets, Maps
  <1>1. /\ DOMAIN buckets' = DOMAIN buckets \ {KeyOf[r]}
        /\ \A j \in DOMAIN buckets' : buckets'[j] = buckets[j]
    BY <1>0, AdmitApply
  <1>2. CASE KeyOf[r] # k
    <2>1. recent'[k] = recent[k]
      BY <1>0, <1>2 DEF Admit
    <2>. QED
      BY <1>1, <1>2, <2>1, RecallUnchanged
  <1>3. CASE KeyOf[r] = k
    <2>1. recent'[k] = NoFailures
      BY <1>0, <1>3 DEF Admit
    <2>2. \A a \in 0..Window : recent'[k][a] = 0
      BY <2>1 DEF NoFailures
    <2>. QED
      BY <1>1, <1>3, <2>2, RecentType DEF RecalledAt, Cumulative
  <1>. QED
    BY <1>2, <1>3

\* What is evicted was last seen longer ago than any failure is recalled.
LEMMA EvictRecalls ==
    ASSUME TypeOK, NEW k \in Keys, RecalledAt(k), Evict
    PROVE  RecalledAt(k)'
  <1>1. /\ DOMAIN buckets' = {j \in DOMAIN buckets : ~Stale(buckets[j])}
        /\ \A j \in DOMAIN buckets' : buckets'[j] = buckets[j]
        /\ recent' = recent
    <2>1. buckets \in Buckets
      BY DEF TypeOK, Buckets, Maps
    <2>. QED
      BY <2>1, EvictApply DEF Evict
  <1>2. CASE k \in DOMAIN buckets' \/ k \notin DOMAIN buckets
    BY <1>1, <1>2, RecallUnchanged
  <1>3. CASE k \in DOMAIN buckets /\ k \notin DOMAIN buckets'
    <2>1. EvictAfter < buckets[k].lastSeen
      BY <1>1, <1>3, RecentType, EvictAfterCoversWindow DEF Stale
    <2>2. recent[k][Window] = 0
      BY <1>3, <2>1, RecentType, EvictAfterCoversWindow DEF RecalledAt
    <2>. QED
      BY <1>1, <1>3, <2>2 DEF RecalledAt, Cumulative
  <1>. QED
    BY <1>2, <1>3

\* A window that elapses leaves the failure that opened it behind.
LEMMA TickRecalls ==
    ASSUME TypeOK, NEW k \in Keys, RecalledAt(k), BoundedAt(k), Tick
    PROVE  RecalledAt(k)'
  <1>1. \A a \in 0..Window : recent'[k][a] = IF a = 0 THEN 0 ELSE recent[k][a - 1]
    BY DEF Tick
  <1>2. /\ DOMAIN buckets' = DOMAIN buckets
        /\ k \in DOMAIN buckets =>
              /\ buckets'[k].count = buckets[k].count
              /\ buckets'[k].windowFrom = Older(buckets[k].windowFrom, Window)
              /\ buckets'[k].lastSeen = Older(buckets[k].lastSeen, EvictAfter)
    <2>1. buckets \in Buckets
      BY DEF TypeOK, Buckets, Maps
    <2>. QED
      BY <2>1, TickApply
  <1>3. \A a \in 0..Window : a # 0 => a - 1 \in 0..Window
    BY RecentType
  <1>4. Cumulative(k)
    BY DEF RecalledAt
  <1>5. Cumulative(k)'
    <2>. SUFFICES ASSUME NEW a \in 0..Window, NEW b \in 0..Window, a <= b
                  PROVE  recent'[k][a] <= recent'[k][b]
      BY DEF Cumulative
    <2>1. CASE a = 0
      BY <1>1, <1>3, <2>1, RecentType
    <2>2. CASE a # 0
      <3>1. b # 0 /\ a - 1 <= b - 1 /\ a - 1 \in 0..Window /\ b - 1 \in 0..Window
        BY <2>2, <1>3, RecentType
      <3>2. recent[k][a - 1] <= recent[k][b - 1]
        BY <3>1, <1>4 DEF Cumulative
      <3>. QED
        BY <1>1, <2>2, <3>1, <3>2
    <2>. QED
      BY <2>1, <2>2
  <1>6. recent'[k][Window] \in Nat /\ recent'[k][Window] <= recent[k][Window] /\ recent'[k][0] = 0
    <2>1. Window # 0 => Window - 1 <= Window /\ Window - 1 \in 0..Window
      BY RecentType
    <2>2. Window # 0 => recent[k][Window - 1] <= recent[k][Window] /\ recent[k][Window - 1] \in Nat
      BY <2>1, <1>4, RecentType DEF Cumulative
    <2>. QED
      BY <2>2, <1>1, RecentType
  <1>7. CASE k \notin DOMAIN buckets
    <2>1. recent'[k][Window] = 0
      BY <1>6, <1>7, RecentType DEF RecalledAt
    <2>. QED
      BY <1>2, <1>5, <1>7, <2>1 DEF RecalledAt
  <1>8. CASE k \in DOMAIN buckets
    <2>1. ASSUME NEW a \in 0..Window, a < buckets'[k].lastSeen
          PROVE  recent'[k][a] = 0
      <3>1. CASE a = 0
        BY <1>6, <3>1
      <3>2. CASE a # 0
        <4>1. a - 1 < buckets[k].lastSeen /\ a - 1 \in 0..Window
          BY <1>2, <1>3, <1>8, <2>1, <3>2, RecentType, EvictAfterCoversWindow DEF Older
        <4>2. recent[k][a - 1] = 0
          BY <4>1, <1>8 DEF RecalledAt
        <4>. QED
          BY <1>1, <3>2, <4>2
      <3>. QED
        BY <3>1, <3>2
    <2>2. CASE Current(buckets'[k])
      <3>1. /\ Counted(k) /\ buckets[k].windowFrom \in 0..Window
            /\ buckets'[k].windowFrom = buckets[k].windowFrom + 1
            /\ buckets'[k].windowFrom \in 0..Window
        <4>1. /\ buckets[k].windowFrom + 1 <= Window
              /\ buckets'[k].windowFrom = buckets[k].windowFrom + 1
          BY <1>2, <1>8, <2>2, RecentType DEF Older, Current
        <4>2. Current(buckets[k])
          BY <4>1, <1>8, RecentType DEF Current
        <4>. QED
          BY <4>1, <4>2, <1>8, RecentType DEF RecalledAt
      <3>2. recent'[k][buckets'[k].windowFrom] = buckets[k].count
        <4>1. recent'[k][buckets[k].windowFrom + 1] = recent[k][buckets[k].windowFrom]
          BY <3>1, <1>1, RecentType
        <4>. QED
          BY <4>1, <3>1 DEF Counted
      <3>3. recent'[k][buckets'[k].windowFrom - 1] < buckets[k].count
        <4>1. buckets'[k].windowFrom - 1 = buckets[k].windowFrom
          BY <3>1, RecentType
        <4>2. CASE buckets[k].windowFrom = 0
          BY <4>1, <4>2, <1>6, <1>8, <3>1, RecentType DEF Counted
        <4>3. CASE buckets[k].windowFrom # 0
          <5>1. recent'[k][buckets[k].windowFrom] = recent[k][buckets[k].windowFrom - 1]
            BY <1>1, <3>1, <4>3
          <5>. QED
            BY <4>1, <4>3, <5>1, <3>1, RecentType DEF Counted
        <4>. QED
          BY <4>2, <4>3
      <3>4. recent'[k][Window] < buckets[k].count + Room(k)
        BY <1>6, <1>8, <3>1, RecentType, RoomOfACaller DEF Counted
      <3>5. Room(k)' = Room(k)
        BY DEF Room, CallersOf
      <3>6. Counted(k)'
        BY <1>2, <1>8, <3>1, <3>2, <3>3, <3>4, <3>5 DEF Counted
      <3>. QED
        BY <1>2, <1>5, <1>8, <2>1, <2>2, <3>6 DEF RecalledAt
    <2>3. CASE ~Current(buckets'[k])
      <3>1. recent'[k][Window] < Room(k)
        <4>1. CASE ~Current(buckets[k])
          BY <4>1, <1>6, <1>8, RecentType, RoomOfACaller DEF RecalledAt, Elapsed
        <4>2. CASE Current(buckets[k])
          <5>1. buckets[k].windowFrom = Window
            BY <1>2, <1>8, <2>3, <4>2, RecentType DEF Current, Older
          <5>2. buckets[k].count <= Room(k) /\ buckets[k].count \in Nat
            <6>1. buckets[k].count + Cardinality(InFlight(k)) < Max + Cardinality(CallersOf(k))
              BY <1>8, <4>2 DEF BoundedAt
            <6>. QED
              BY <6>1, <1>8, CallersFinite, RecentType, AdmissionConstants DEF Room
          <5>3. recent'[k][Window] < buckets[k].count
            <6>1. Counted(k)
              BY <1>8, <4>2 DEF RecalledAt
            <6>2. CASE Window = 0
              BY <6>1, <6>2, <1>6, <1>8, RecentType DEF Counted
            <6>3. CASE Window # 0
              BY <6>1, <6>3, <1>1, <5>1, RecentType DEF Counted
            <6>. QED
              BY <6>2, <6>3
          <5>. QED
            BY <5>2, <5>3, <1>6, RoomOfACaller
        <4>. QED
          BY <4>1, <4>2
      <3>2. Elapsed(k)'
        BY <3>1, <1>6 DEF Elapsed, Room, CallersOf
      <3>. QED
        BY <1>2, <1>5, <1>8, <2>1, <2>3, <3>2 DEF RecalledAt
    <2>. QED
      BY <2>2, <2>3
  <1>. QED
    BY <1>7, <1>8

LEMMA InitRecalls ==
    ASSUME Init, NEW k \in Keys
    PROVE  RecalledAt(k)
  <1>1. k \notin DOMAIN buckets /\ recent[k] = NoFailures
    BY DEF Init, EmptyMap
  <1>2. \A a \in 0..Window : recent[k][a] = 0
    BY <1>1 DEF NoFailures
  <1>3. Window \in 0..Window
    BY AdmissionConstants
  <1>. QED
    BY <1>1, <1>2, <1>3 DEF RecalledAt, Cumulative

LEMMA RecallStep ==
    ASSUME TypeOK, NEW k \in Keys, BoundedAt(k), RecalledAt(k), [Next]_vars
    PROVE  RecalledAt(k)'
  <1>1. CASE \E r \in Callers : Reject(r)
    BY <1>1, RejectRecalls
  <1>2. CASE \E r \in Callers : Admit(r)
    BY <1>2, AdmitRecalls
  <1>3. CASE Evict
    BY <1>3, EvictRecalls
  <1>4. CASE Tick
    BY <1>4, TickRecalls
  <1>5. CASE UNCHANGED limiterVars
    BY <1>5, RecallUnchanged DEF limiterVars
  <1>. QED
    BY <1>1, <1>2, <1>3, <1>4, <1>5
    DEF Next, Ask, Handle, Refuse, Verify, vars, limiterVars,
        RotateTokens, RotateBasic, ReloadTokens, ReadUser, ReadPassword

LEMMA Recalled == Spec => [](\A k \in Keys : RecalledAt(k) /\ BoundedAt(k))
  <1>1. Init => \A k \in Keys : RecalledAt(k)
    BY InitRecalls
  <1>2. TypeOK /\ AttemptsAreBounded => \A k \in Keys : BoundedAt(k)
    BY DEF AttemptsAreBounded, BoundedAt
  <1>3. ASSUME TypeOK, AttemptsAreBounded, \A k \in Keys : RecalledAt(k), [Next]_vars
        PROVE  (\A k \in Keys : RecalledAt(k))'
    BY <1>2, <1>3, RecallStep
  <1>. DEFINE R == \A k \in Keys : RecalledAt(k)
              B == \A k \in Keys : BoundedAt(k)
  <1>4. R /\ B => \A k \in Keys : RecalledAt(k) /\ BoundedAt(k)
    OBVIOUS
  <1>5. Spec => []R
    <2>1. Init => R
      BY <1>1
    <2>2. TypeOK /\ AttemptsAreBounded /\ R /\ [Next]_vars => R'
      BY <1>3
    <2>. HIDE DEF R
    <2>. QED
      BY <2>1, <2>2, TypeCorrect, AttemptsBounded, PTL DEF Spec
  <1>6. Spec => []B
    <2>1. TypeOK /\ AttemptsAreBounded => B
      BY <1>2
    <2>. HIDE DEF B
    <2>. QED
      BY <2>1, TypeCorrect, AttemptsBounded, PTL
  <1>. HIDE DEF R, B
  <1>. QED
    BY <1>4, <1>5, <1>6, PTL

\* failurelimiter.go:15-19: an address that is refused had Max failures within the
\* last window and no success since; no eviction, reset or failure of another
\* address refuses it.
THEOREM RefusedHaveFailed == Spec => []ThrottledOnlyForFailures
  <1>1. ASSUME TypeOK, NEW k \in Keys, RecalledAt(k), ~Allowed(buckets, k)
        PROVE  recent[k][Window] >= Max
    <2>1. /\ k \in DOMAIN buckets /\ Current(buckets[k]) /\ ~(buckets[k].count < Max)
          /\ Counted(k) /\ Cumulative(k)
      BY <1>1 DEF Allowed, RecalledAt
    <2>2. buckets[k].windowFrom \in 0..Window /\ buckets[k].count \in Nat /\ Window \in 0..Window
      BY <2>1, <1>1, RecentType DEF Current
    <2>3. recent[k][buckets[k].windowFrom] <= recent[k][Window]
      BY <2>1, <2>2, <1>1, RecentType DEF Cumulative
    <2>. QED
      BY <2>1, <2>2, <2>3, <1>1, RecentType, AdmissionConstants DEF Counted
  <1>2. TypeOK /\ (\A k \in Keys : RecalledAt(k) /\ BoundedAt(k)) => ThrottledOnlyForFailures
    BY <1>1 DEF ThrottledOnlyForFailures
  <1>. QED
    BY <1>2, TypeCorrect, Recalled, PTL

\* failurelimiter.go:57-69: since the last success at an address, a span of a
\* window's length holds at most two windows' failures, but for the one that opened
\* the first of them.
THEOREM BurstsBounded == Spec => []BurstIsBounded
  <1>1. ASSUME TypeOK, NEW k \in Keys, RecalledAt(k), BoundedAt(k), CallersOf(k) # {}
        PROVE  recent[k][Window] < 2 * Room(k)
    <2>0. Room(k) \in Nat \ {0} /\ recent[k][Window] \in Nat
      BY <1>1, RoomOfACaller, RecentType
    <2>1. CASE k \notin DOMAIN buckets
      BY <1>1, <2>0, <2>1 DEF RecalledAt
    <2>2. CASE k \in DOMAIN buckets /\ ~Current(buckets[k])
      BY <1>1, <2>0, <2>2 DEF RecalledAt, Elapsed
    <2>3. CASE k \in DOMAIN buckets /\ Current(buckets[k])
      <3>1. buckets[k].count + Cardinality(InFlight(k)) < Max + Cardinality(CallersOf(k))
        BY <1>1, <2>3 DEF BoundedAt
      <3>2. buckets[k].count \in Nat /\ buckets[k].count <= Room(k)
        BY <3>1, <1>1, <2>3, CallersFinite, RecentType, AdmissionConstants DEF Room
      <3>3. recent[k][Window] < buckets[k].count + Room(k)
        BY <1>1, <2>3 DEF RecalledAt, Counted
      <3>. QED
        BY <2>0, <3>2, <3>3
    <2>. QED
      BY <2>1, <2>2, <2>3
  <1>2. ASSUME TypeOK, \A k \in Keys : RecalledAt(k) /\ BoundedAt(k)
        PROVE  BurstIsBounded
    <2>. SUFFICES ASSUME NEW r \in Callers, NEW k \in Keys, k = KeyOf[r]
                  PROVE  recent[k][Window] < 2 * (Max + Cardinality(CallersOf(k)) - 1)
      BY AdmissionConstants DEF BurstIsBounded
    <2>1. r \in CallersOf(k)
      BY DEF CallersOf
    <2>. QED
      BY <1>1, <1>2, <2>1 DEF Room
  <1>. QED
    BY <1>2, TypeCorrect, Recalled, PTL

-----------------------------------------------------------------------------
(* Forgetting and forgiving. That ages get past their limits takes an       *)
(* induction over ticks, that all requests under way end one over a set;   *)
(* both are for TLC. What is proved is what becomes of an address then,    *)
(* whatever the other callers, the evictions and the files do meanwhile.   *)

\* Without a failure counted for it, a bucket only grows older or goes away.
LEMMA BucketAges ==
    ASSUME TypeOK, [Next]_vars, NEW k \in Keys, \A r \in CallersOf(k) : ~Reject(r)
    PROVE  /\ k \in DOMAIN buckets' => k \in DOMAIN buckets
           /\ k \in DOMAIN buckets' /\ Stale(buckets[k]) => Stale(buckets'[k])
           /\ Allowed(buckets, k) => Allowed(buckets', k)
  <1>0. buckets \in Buckets /\ Window \in Nat /\ EvictAfter \in Nat
    BY TypeParts, AdmissionConstants, EvictAfterCoversWindow DEF LimiterType
  <1>1. ASSUME buckets' \in Buckets, DOMAIN buckets' \subseteq DOMAIN buckets,
               \A j \in DOMAIN buckets' : buckets'[j] = buckets[j]
        PROVE  /\ k \in DOMAIN buckets' => k \in DOMAIN buckets
               /\ k \in DOMAIN buckets' /\ Stale(buckets[k]) => Stale(buckets'[k])
               /\ Allowed(buckets, k) => Allowed(buckets', k)
    BY <1>1 DEF Allowed
  <1>2. ASSUME NEW r \in Callers, Reject(r)
        PROVE  /\ k \in DOMAIN buckets' => k \in DOMAIN buckets
               /\ k \in DOMAIN buckets' /\ Stale(buckets[k]) => Stale(buckets'[k])
               /\ Allowed(buckets, k) => Allowed(buckets', k)
    <2>1. KeyOf[r] \in Keys /\ KeyOf[r] # k
      BY <1>2, AdmissionConstants DEF CallersOf
    <2>2. /\ DOMAIN buckets' = DOMAIN buckets \cup {KeyOf[r]}
          /\ \A j \in DOMAIN buckets : j # KeyOf[r] => buckets'[j] = buckets[j]
      BY <1>0, <1>2, <2>1, RejectApply
    <2>. QED
      BY <2>1, <2>2 DEF Allowed
  <1>3. CASE \E r \in Callers : Admit(r)
    BY <1>0, <1>1, <1>3, AdmitApply
  <1>4. CASE Evict
    BY <1>0, <1>1, <1>4, EvictApply
  <1>5. CASE Tick
    <2>1. /\ DOMAIN buckets' = DOMAIN buckets
          /\ \A j \in DOMAIN buckets :
                /\ buckets'[j].count = buckets[j].count
                /\ buckets'[j].windowFrom = Older(buckets[j].windowFrom, Window)
                /\ buckets'[j].lastSeen = Older(buckets[j].lastSeen, EvictAfter)
      BY <1>0, <1>5, TickApply
    <2>2. \A j \in DOMAIN buckets : buckets[j].windowFrom \in Nat /\ buckets[j].lastSeen \in Nat
      BY <1>0 DEF Buckets, Maps, Bucket
    <2>. QED
      BY <1>0, <2>1, <2>2 DEF Allowed, Current, Stale, Older
  <1>6. CASE UNCHANGED limiterVars
    BY <1>0, <1>1, <1>6 DEF limiterVars
  <1>. QED
    BY <1>2, <1>3, <1>4, <1>5, <1>6
    DEF Next, Ask, Handle, Refuse, Verify, vars, limiterVars,
        RotateTokens, RotateBasic, ReloadTokens, ReadUser, ReadPassword

NobodyCalls(k) == \A r \in CallersOf(k) : pc[r] = "idle"
Forgotten(k) == k \notin DOMAIN buckets
Idled(k) == Forgotten(k) \/ Stale(buckets[k])
MayEvict == \E k \in DOMAIN buckets : Stale(buckets[k])

IdlingCounts(k) == []<>(Idled(k) \/ ~NobodyCalls(k))
EvictionsGoOn == []<>~MayEvict \/ []<><<Evict>>_vars

LEMMA KeyIsForgotten ==
    ASSUME NEW k \in Keys
    PROVE  []TypeOK /\ [][Next]_vars /\ IdlingCounts(k) /\ EvictionsGoOn
           => (<>[]NobodyCalls(k) => <>[]Forgotten(k))
  <1>1. ASSUME TypeOK, NobodyCalls(k), [Next]_vars
        PROVE  /\ Forgotten(k) => Forgotten(k)'
               /\ Idled(k) => Idled(k)'
               /\ Idled(k) /\ <<Evict>>_vars => Forgotten(k)'
    <2>1. \A r \in CallersOf(k) : ~Reject(r)
      BY <1>1 DEF NobodyCalls, Reject
    <2>2. buckets \in Buckets
      BY <1>1, TypeParts DEF LimiterType
    <2>. QED
      BY <1>1, <2>1, <2>2, BucketAges, EvictApply DEF Forgotten, Idled
  <1>2. Idled(k) /\ ~MayEvict => Forgotten(k)
    BY DEF Idled, Forgotten, MayEvict
  <1>3. /\ TypeOK /\ NobodyCalls(k) /\ [Next]_vars /\ Forgotten(k) => Forgotten(k)'
        /\ TypeOK /\ NobodyCalls(k) /\ [Next]_vars /\ Idled(k) => Idled(k)'
        /\ TypeOK /\ NobodyCalls(k) /\ [Next]_vars /\ Idled(k) /\ <<Evict>>_vars => Forgotten(k)'
    BY <1>1
  <1>. QED
    BY <1>2, <1>3, PTL DEF IdlingCounts, EvictionsGoOn

\* failurelimiter.go:80-83: an address nobody calls from any more is forgotten
\* for good, whoever else fails, provided that idle time adds up and the
\* eviction is run.
THEOREM IdleIsForgotten ==
    Spec /\ (\A k \in Keys : IdlingCounts(k)) /\ EvictionsGoOn => IdleKeysAreForgotten
  <1>. DEFINE Run == []TypeOK /\ [][Next]_vars
              Forgets(k) == <>[]NobodyCalls(k) => <>[]Forgotten(k)
  <1>1. ASSUME NEW k \in Keys PROVE Run /\ IdlingCounts(k) /\ EvictionsGoOn => Forgets(k)
    BY KeyIsForgotten
  <1>2. Spec => Run
    BY TypeCorrect, PTL DEF Spec
  <1>. HIDE DEF Run
  <1>. QED
    BY <1>1, <1>2 DEF IdleKeysAreForgotten, NobodyCalls, Forgotten

-----------------------------------------------------------------------------
(* Reloading. Once the files stay as they are, the verifiers hold what the  *)
(* files hold, even if a reload was under way between two changes.          *)

FilesSettle == <>[][UNCHANGED <<tokenFile, basicFiles>>]_vars

Reading == userRead # NoValue
MayReadUser == HasBasic /\ ~Reading /\ basicFiles.user # NoValue
Offered == HasBasic /\ Usable(basicFiles)

\* A running reload has not read an earlier user name.
ReadIsCurrent == Reading => userRead = basicFiles.user

TokensLoaded == tokenFile = {} \/ tokens = tokenFile
PairLoaded == Offered => pair = basicFiles

ReloadsGoOn ==
    /\ []<>TokensLoaded \/ []<><<ReloadTokens>>_vars
    /\ []<>~MayReadUser \/ []<><<ReadUser>>_vars
    /\ []<>~Reading \/ []<><<ReadPassword>>_vars

LEMMA ReloadStep ==
    ASSUME TypeOK, [Next]_vars, UNCHANGED <<tokenFile, basicFiles>>
    PROVE  /\ TokensLoaded \/ ReloadTokens => TokensLoaded'
           /\ ReadIsCurrent => ReadIsCurrent'
           /\ ReadUser => Reading'
           /\ ReadPassword => ~Reading'
           /\ Reading /\ ReadIsCurrent /\ ~Reading' => PairLoaded'
           /\ ReadIsCurrent /\ PairLoaded => PairLoaded'
           /\ Offered <=> Offered'
  <1>0. basicFiles \in PairType /\ tokenFile' = tokenFile /\ basicFiles' = basicFiles
    BY DEF TypeOK
  <1>1. CASE ReadUser
    BY <1>0, <1>1 DEF ReadUser, ReadPassword, ReloadTokens, TokensLoaded, ReadIsCurrent,
                      Reading, PairLoaded, Offered, tokenVars
  <1>2. CASE ReadPassword
    <2>1. ReadIsCurrent /\ Offered => pair' = basicFiles
      BY <1>0, <1>2 DEF ReadPassword, ReadIsCurrent, Reading, Offered, Usable, PairType
    <2>. QED
      BY <1>0, <1>2, <2>1 DEF ReadUser, ReadPassword, ReloadTokens, TokensLoaded,
                              ReadIsCurrent, Reading, PairLoaded, Offered, tokenVars
  <1>3. CASE ReloadTokens
    BY <1>0, <1>3 DEF ReadUser, ReadPassword, ReloadTokens, TokensLoaded, ReadIsCurrent,
                      Reading, PairLoaded, Offered, basicVars
  <1>4. CASE UNCHANGED <<tokens, pair, userRead>>
    BY <1>0, <1>4 DEF ReadUser, ReadPassword, ReloadTokens, TokensLoaded, ReadIsCurrent,
                      Reading, PairLoaded, Offered
  <1>. QED
    BY <1>1, <1>2, <1>3, <1>4
    DEF Next, Ask, Handle, Refuse, Verify, Reject, Admit, Evict, Tick, RotateTokens,
        RotateBasic, vars, tokenVars, basicVars

LEMMA ReloadsConverge ==
    []TypeOK /\ [][Next]_vars /\ FilesSettle /\ ReloadsGoOn => <>[](TokensLoaded /\ PairLoaded)
  <1>. DEFINE Settled == UNCHANGED <<tokenFile, basicFiles>>
  <1>1. TypeOK /\ [Next]_vars /\ [Settled]_vars =>
            /\ TokensLoaded => TokensLoaded'
            /\ ReloadTokens => TokensLoaded'
            /\ ReadIsCurrent => ReadIsCurrent'
            /\ ReadUser => Reading'
            /\ ReadPassword => ~Reading'
            /\ Reading /\ ReadIsCurrent /\ ~Reading' => PairLoaded'
            /\ ReadIsCurrent /\ PairLoaded => PairLoaded'
            /\ Offered <=> Offered'
    <2>1. [Settled]_vars => UNCHANGED <<tokenFile, basicFiles>>
      BY DEF vars, tokenVars, basicVars
    <2>. QED
      BY <2>1, ReloadStep
  <1>2. /\ ~Reading => ReadIsCurrent
        /\ ~Offered => PairLoaded
        /\ Offered /\ ~MayReadUser => Reading
    BY DEF ReadIsCurrent, PairLoaded, Offered, MayReadUser, Usable
  <1>. QED
    BY <1>1, <1>2, PTL DEF FilesSettle, ReloadsGoOn

-----------------------------------------------------------------------------
(* Forgiving: from valid credentials to callers that stay in.               *)

AllValid(k) == \A r \in CallersOf(k) : Valid(r)
AllPass(k) == \A r \in CallersOf(k) : Authenticated(Credential[r])
NoneFailed(k) == \A r \in CallersOf(k) : pc[r] # "failed"
NoneRefused(k) == \A r \in CallersOf(k) : pc[r] # "throttled"
Open(k) == Allowed(buckets, k)

FailuresEnd(k) == []<>(NoneFailed(k) \/ ~AllPass(k))
WindowsElapse(k) == []<>(Open(k) \/ ~NoneFailed(k))
RefusalsEnd(k) == []<>(NoneRefused(k) \/ ~Open(k))

LEMMA ValidPass ==
    ASSUME TypeOK, TokensLoaded, PairLoaded, NEW k \in Keys, AllValid(k)
    PROVE  AllPass(k)
  <1>. SUFFICES ASSUME NEW r \in CallersOf(k) PROVE Authenticated(Credential[r])
    BY DEF AllPass
  <1>1. CASE Credential[r].token # NoValue /\ Credential[r].token \in tokenFile
    BY <1>1 DEF TokensLoaded, Authenticated
  <1>2. CASE /\ HasBasic /\ Usable(Credential[r])
             /\ Credential[r].user = basicFiles.user /\ Credential[r].pass = basicFiles.pass
    BY <1>2 DEF PairLoaded, Offered, Usable, Authenticated
  <1>. QED
    BY <1>1, <1>2 DEF AllValid, Valid

LEMMA GoodStep ==
    ASSUME TypeOK, [Next]_vars, NEW k \in Keys
    PROVE  /\ AllPass(k) /\ NoneFailed(k) => NoneFailed(k)'
           /\ NoneFailed(k) /\ Open(k) => Open(k)'
           /\ Open(k) /\ NoneRefused(k) => NoneRefused(k)'
  <1>0. pc \in [Callers -> {"idle", "verify", "throttled", "failed", "passed"}]
    BY DEF TypeOK
  <1>1. NoneFailed(k) /\ Open(k) => Open(k)'
    <2>1. NoneFailed(k) => \A r \in CallersOf(k) : ~Reject(r)
      BY DEF NoneFailed, Reject
    <2>. QED
      BY <2>1, BucketAges DEF Open
  <1>2. ASSUME NEW q \in Callers, Ask(q) \/ Handle(q), NEW r \in CallersOf(k)
        PROVE  /\ AllPass(k) /\ pc[r] # "failed" => pc'[r] # "failed"
               /\ Open(k) /\ pc[r] # "throttled" => pc'[r] # "throttled"
    <2>1. r \in Callers /\ KeyOf[r] = k
      BY DEF CallersOf
    <2>2. CASE r # q
      BY <1>0, <1>2, <2>1, <2>2 DEF Ask, Handle, Refuse, Verify, Reject, Admit
    <2>3. CASE r = q
      BY <1>0, <1>2, <2>1, <2>3 DEF Ask, Handle, Refuse, Verify, Reject, Admit, AllPass, Open
    <2>. QED
      BY <2>2, <2>3
  <1>3. CASE \E q \in Callers : Ask(q) \/ Handle(q)
    BY <1>1, <1>2, <1>3 DEF NoneFailed, NoneRefused
  <1>4. CASE UNCHANGED pc
    BY <1>1, <1>4 DEF NoneFailed, NoneRefused
  <1>. QED
    BY <1>3, <1>4 DEF Next, Evict, Tick, RotateTokens, RotateBasic, ReloadTokens, ReadUser,
                      ReadPassword, vars

LEMMA GoodStayIn ==
    ASSUME NEW k \in Keys
    PROVE  /\ []TypeOK /\ [][Next]_vars /\ <>[](TokensLoaded /\ PairLoaded)
           /\ FailuresEnd(k) /\ WindowsElapse(k) /\ RefusalsEnd(k)
           => (<>[]AllValid(k) => <>[](NoneFailed(k) /\ NoneRefused(k)))
  <1>1. TypeOK /\ TokensLoaded /\ PairLoaded /\ AllValid(k) => AllPass(k)
    BY ValidPass
  <1>2. TypeOK /\ [Next]_vars =>
            /\ AllPass(k) /\ NoneFailed(k) => NoneFailed(k)'
            /\ NoneFailed(k) /\ Open(k) => Open(k)'
            /\ Open(k) /\ NoneRefused(k) => NoneRefused(k)'
    BY GoodStep
  <1>. QED
    BY <1>1, <1>2, PTL DEF FailuresEnd, WindowsElapse, RefusalsEnd

\* failurelimiter.go:71-73, tokens.go:95-98, basicauth.go:42-46: callers whose
\* credentials the files hold stay in after a while, whatever failures, torn
\* reloads and rotations came before; provided that the files settle, reloads
\* go on, and what is under way at an address ends.
THEOREM GoodCallersGetIn ==
    /\ Spec /\ FilesSettle /\ ReloadsGoOn
    /\ \A k \in Keys : FailuresEnd(k) /\ WindowsElapse(k) /\ RefusalsEnd(k)
    => GoodCallersStayIn
  <1>. DEFINE Run == []TypeOK /\ [][Next]_vars /\ <>[](TokensLoaded /\ PairLoaded)
              In(k) == \A r \in CallersOf(k) : pc[r] \notin {"throttled", "failed"}
              StaysIn(k) == <>[]AllValid(k) => <>[]In(k)
  <1>1. ASSUME NEW k \in Keys
        PROVE  Run /\ FailuresEnd(k) /\ WindowsElapse(k) /\ RefusalsEnd(k) => StaysIn(k)
    <2>1. NoneFailed(k) /\ NoneRefused(k) => In(k)
      BY DEF NoneFailed, NoneRefused
    <2>. HIDE DEF In
    <2>. QED
      BY <2>1, GoodStayIn, PTL
  <1>2. Spec /\ FilesSettle /\ ReloadsGoOn => Run
    BY TypeCorrect, ReloadsConverge, PTL DEF Spec
  <1>. HIDE DEF Run
  <1>. QED
    BY <1>1, <1>2 DEF GoodCallersStayIn, AllValid
=============================================================================
