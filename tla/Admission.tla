------------------------------ MODULE Admission ------------------------------
(***************************************************************************)
(* A door of the server: the REST API's (withAuth) or the OpAMP listener's *)
(* (onConnecting). Both ask the failed-attempt limiter, check the          *)
(* credential and record the outcome, in three critical sections, while    *)
(* the credentials are reloaded from mounted files and idle buckets are    *)
(* evicted. Each door has a limiter and a token verifier of its own; basic *)
(* auth exists at the API's only.                                          *)
(*                                                                         *)
(* A caller is one thread of requests from one source address, one request *)
(* after the other. A secret stands for its SHA-256. Ages are counted in   *)
(* ticks and saturate where the code no longer tells them apart.           *)
(***************************************************************************)
EXTENDS Integers, FiniteSets, GoMaps

CONSTANTS
    Callers,        \* threads of requests
    Keys, KeyOf,    \* source addresses; [Callers -> Keys]
    Tokens,         \* bearer tokens
    Users, Passwords,
    NoValue,        \* an absent credential; a file without a usable line
    Credential,     \* [Callers -> what the Authorization header carries]
    TokenFiles,     \* contents the token file may get; {}: unreadable, or no tokens
    BasicFiles,     \* contents the two basic auth files may get
    HasBasic,       \* basicAuth # nil
    Max, Window,    \* max failures per window
    IdleWindows,    \* windows after which an idle bucket is evicted (10 in the code)
    MaxRotations    \* bound: changes of the files

NoPair == [user |-> NoValue, pass |-> NoValue]
CredentialType == [token : Tokens \cup {NoValue},
                   user : Users \cup {NoValue}, pass : Passwords \cup {NoValue}]
PairType == [user : Users \cup {NoValue}, pass : Passwords \cup {NoValue}]

ASSUME AdmissionConstants ==
    /\ IsFiniteSet(Callers)
    /\ KeyOf \in [Callers -> Keys]
    /\ NoValue \notin Tokens \cup Users \cup Passwords
    /\ Credential \in [Callers -> CredentialType]
    /\ TokenFiles \subseteq SUBSET Tokens
    /\ BasicFiles \subseteq PairType
    /\ HasBasic \in BOOLEAN
    /\ Max \in Nat \ {0} /\ Window \in Nat
    /\ IdleWindows \in Nat \ {0}
    /\ MaxRotations \in Nat

VARIABLES
    buckets,    \* FailureLimiter.buckets
    pc,         \* [Callers -> where the request stands]
    tokenFile,  \* the content of the token file
    tokens,     \* TokenVerifier.hashes
    basicFiles, \* the contents of the user name and the password file
    pair,       \* BasicAuthVerifier's user name and password
    userRead,   \* the user name a running Reload has read; NoValue: none runs
    rotations,  \* bound: how often the files have changed
    recent      \* history: [Keys -> [0..Window -> failures of that age or less, since the
                \* last success]]

tokenVars == <<tokenFile, tokens>>
basicVars == <<basicFiles, pair, userRead>>
limiterVars == <<buckets, recent>>
vars == <<limiterVars, pc, tokenVars, basicVars, rotations>>

\* A saturated age says no more than "longer than the limit".
Older(age, limit) == IF age <= limit THEN age + 1 ELSE age
EvictAfter == IdleWindows * Window

\* windowFrom and lastSeen are ages.
Bucket == [count : Nat, windowFrom : 0..Window + 1, lastSeen : 0..EvictAfter + 1]

Usable(f) == f.user # NoValue /\ f.pass # NoValue

NoFailures == [a \in 0..Window |-> 0]

\* The constructors refuse to start without a usable credential.
Init ==
    /\ buckets = EmptyMap
    /\ pc = [r \in Callers |-> "idle"]
    /\ tokenFile \in TokenFiles \ {{}} /\ tokens = tokenFile
    /\ basicFiles \in IF HasBasic THEN {f \in BasicFiles : Usable(f)} ELSE {NoPair}
    /\ pair = basicFiles
    /\ userRead = NoValue
    /\ rotations = 0
    /\ recent = [k \in Keys |-> NoFailures]

-----------------------------------------------------------------------------
(* The failed-attempt limiter.                                             *)

Current(b) == b.windowFrom <= Window

\* Faulty Allow: one failure too many.
AllowedUpToMax(m, k) == k \in DOMAIN m /\ Current(m[k]) => m[k].count <= Max

\* Allow.
Allowed(m, k) == k \in DOMAIN m /\ Current(m[k]) => m[k].count < Max

\* Faulty RecordFailure: a bucket whose window has elapsed keeps its count.
FailureOnOldCount(m, k) ==
    LET b == IF k \in DOMAIN m THEN m[k] ELSE [count |-> 0, windowFrom |-> 0, lastSeen |-> 0]
    IN  Put(m, k, [count |-> b.count + 1, lastSeen |-> 0,
                   windowFrom |-> IF Current(b) THEN b.windowFrom ELSE 0])

\* Faulty RecordFailure: every failure opens a window of its own.
FailureInNewWindow(m, k) == Put(m, k, [count |-> 1, windowFrom |-> 0, lastSeen |-> 0])

\* RecordFailure.
AfterFailure(m, k) ==
    LET b == IF k \in DOMAIN m /\ Current(m[k])
             THEN m[k]
             ELSE [count |-> 0, windowFrom |-> 0, lastSeen |-> 0]
    IN  Put(m, k, [count |-> b.count + 1, windowFrom |-> b.windowFrom, lastSeen |-> 0])

\* Faulty evictStale: by the time without a failure, whatever the window.
StaleAtOnce(b) == b.lastSeen > 0

\* Faulty evictStale: only buckets that count nothing are idle.
StaleIfEmpty(b) == b.count = 0

\* evictStale: what it deletes.
Stale(b) == b.lastSeen > EvictAfter

Evict ==
    /\ buckets' = [k \in {j \in DOMAIN buckets : ~Stale(buckets[j])} |-> buckets[k]]
    /\ UNCHANGED <<recent, pc, tokenVars, basicVars, rotations>>

Aged(b) == [count |-> b.count, windowFrom |-> Older(b.windowFrom, Window),
            lastSeen |-> Older(b.lastSeen, EvictAfter)]

\* Time passes for every bucket.
Tick ==
    /\ buckets' = [k \in DOMAIN buckets |-> Aged(buckets[k])]
    /\ recent' = [k \in Keys |-> [a \in 0..Window |-> IF a = 0 THEN 0 ELSE recent[k][a - 1]]]
    /\ UNCHANGED <<pc, tokenVars, basicVars, rotations>>

-----------------------------------------------------------------------------
(* A request.                                                              *)

\* TokenVerifier.Verify, then, if configured, BasicAuthVerifier.Verify.
Authenticated(c) ==
    \/ c.token # NoValue /\ c.token \in tokens
    \/ HasBasic /\ Usable(c) /\ c.user = pair.user /\ c.pass = pair.pass

\* Faulty: a refused attempt restarts the window.
AskRestartingWindow(r) ==
    /\ pc[r] = "idle"
    /\ IF Allowed(buckets, KeyOf[r])
       THEN pc' = [pc EXCEPT ![r] = "verify"] /\ UNCHANGED buckets
       ELSE /\ pc' = [pc EXCEPT ![r] = "throttled"]
            /\ buckets' = [buckets EXCEPT ![KeyOf[r]].windowFrom = 0,
                                        ![KeyOf[r]].lastSeen = 0]
    /\ UNCHANGED <<recent, tokenVars, basicVars, rotations>>

\* The limiter is asked first.
Ask(r) ==
    /\ pc[r] = "idle"
    /\ pc' = [pc EXCEPT ![r] = IF Allowed(buckets, KeyOf[r]) THEN "verify" ELSE "throttled"]
    /\ UNCHANGED <<limiterVars, tokenVars, basicVars, rotations>>

\* 429.
Refuse(r) ==
    /\ pc[r] = "throttled"
    /\ pc' = [pc EXCEPT ![r] = "idle"]
    /\ UNCHANGED <<limiterVars, tokenVars, basicVars, rotations>>

Verify(r) ==
    /\ pc[r] = "verify"
    /\ pc' = [pc EXCEPT ![r] = IF Authenticated(Credential[r]) THEN "passed" ELSE "failed"]
    /\ UNCHANGED <<limiterVars, tokenVars, basicVars, rotations>>

\* RecordFailure, then 401.
Reject(r) ==
    /\ pc[r] = "failed"
    /\ pc' = [pc EXCEPT ![r] = "idle"]
    /\ buckets' = AfterFailure(buckets, KeyOf[r])
    /\ recent' = [recent EXCEPT ![KeyOf[r]] = [a \in 0..Window |-> recent[KeyOf[r]][a] + 1]]
    /\ UNCHANGED <<tokenVars, basicVars, rotations>>

\* RecordSuccess, then the request is served.
Admit(r) ==
    /\ pc[r] = "passed"
    /\ pc' = [pc EXCEPT ![r] = "idle"]
    /\ buckets' = Delete(buckets, KeyOf[r])
    /\ recent' = [recent EXCEPT ![KeyOf[r]] = NoFailures]
    /\ UNCHANGED <<tokenVars, basicVars, rotations>>

-----------------------------------------------------------------------------
(* The mounted files change, and the verifiers reload them.                *)

RotateTokens ==
    /\ rotations < MaxRotations /\ rotations' = rotations + 1
    /\ tokenFile' \in TokenFiles
    /\ UNCHANGED <<limiterVars, pc, tokens, basicVars>>

RotateBasic ==
    /\ HasBasic
    /\ rotations < MaxRotations /\ rotations' = rotations + 1
    /\ basicFiles' \in BasicFiles
    /\ UNCHANGED <<limiterVars, pc, tokenVars, pair, userRead>>

\* Faulty TokenVerifier.Reload: what was read is taken over, whatever it is.
ReloadAnyTokens ==
    /\ tokens' = tokenFile
    /\ UNCHANGED <<limiterVars, pc, tokenFile, basicVars, rotations>>

\* TokenVerifier.Reload. An unusable file keeps the tokens. The file is opened
\* once, so that a rotation before the lock is taken is one after the reload.
ReloadTokens ==
    /\ tokenFile # {}
    /\ tokens' = tokenFile
    /\ UNCHANGED <<limiterVars, pc, tokenFile, basicVars, rotations>>

\* BasicAuthVerifier.Reload reads two files one after the other ...
ReadUser ==
    /\ HasBasic /\ userRead = NoValue
    /\ basicFiles.user # NoValue
    /\ userRead' = basicFiles.user
    /\ UNCHANGED <<limiterVars, pc, tokenVars, basicFiles, pair, rotations>>

\* Faulty Reload: nothing to do while the user name is the same.
ReadPasswordOfNewUser ==
    /\ userRead # NoValue
    /\ userRead' = NoValue
    /\ pair' = IF basicFiles.pass = NoValue \/ userRead = pair.user THEN pair
               ELSE [user |-> userRead, pass |-> basicFiles.pass]
    /\ UNCHANGED <<limiterVars, pc, tokenVars, basicFiles, rotations>>

\* ... and takes them over together, unless the second has no usable line.
ReadPassword ==
    /\ userRead # NoValue
    /\ userRead' = NoValue
    /\ pair' = IF basicFiles.pass = NoValue THEN pair
               ELSE [user |-> userRead, pass |-> basicFiles.pass]
    /\ UNCHANGED <<limiterVars, pc, tokenVars, basicFiles, rotations>>

Handle(r) == Refuse(r) \/ Verify(r) \/ Reject(r) \/ Admit(r)

Next ==
    \/ \E r \in Callers : Ask(r) \/ Handle(r)
    \/ Evict \/ Tick
    \/ RotateTokens \/ RotateBasic
    \/ ReloadTokens \/ ReadUser \/ ReadPassword

Spec == Init /\ [][Next]_vars

\* Clocks advance, the tickers of eviction and reload fire until the process
\* ends, and a request that came in is handled. No caller has to come back.
Fairness ==
    /\ WF_vars(Tick) /\ WF_vars(Evict)
    /\ WF_vars(ReloadTokens) /\ WF_vars(ReadUser) /\ WF_vars(ReadPassword)
    /\ \A r \in Callers : WF_vars(Handle(r))

FairSpec == Spec /\ Fairness

-----------------------------------------------------------------------------
(* Properties.                                                             *)

\* Every variable has its type; the verifiers are never without a credential.
TypeOK ==
    /\ DOMAIN buckets \subseteq Keys /\ buckets \in [DOMAIN buckets -> Bucket]
    /\ pc \in [Callers -> {"idle", "verify", "throttled", "failed", "passed"}]
    /\ tokenFile \in TokenFiles /\ tokens \in TokenFiles \ {{}}
    /\ basicFiles \in PairType /\ pair \in PairType
    /\ HasBasic => Usable(pair)
    /\ userRead \in Users \cup {NoValue}
    /\ rotations \in 0..MaxRotations
    /\ recent \in [Keys -> [0..Window -> Nat]]

CallersOf(k) == {r \in Callers : KeyOf[r] = k}
InFlight(k) == {r \in CallersOf(k) : pc[r] \in {"verify", "failed"}}

\* Allow and RecordFailure are two critical sections, so more than Max failures
\* of an address can be counted in a window; but only by as many as it has
\* requests that passed Allow together (failurelimiter.go:40-69).
AttemptsAreBounded ==
    \A k \in DOMAIN buckets :
        Current(buckets[k]) =>
            buckets[k].count + Cardinality(InFlight(k)) < Max + Cardinality(CallersOf(k))

\* A key that is refused had Max failures within the last window, with no success
\* since, however windows and evictions fell, and whatever happened to other keys
\* (failurelimiter.go:15-19). Callers behind one address share its key: one may be
\* refused for what another did.
ThrottledOnlyForFailures ==
    \A k \in Keys : ~Allowed(buckets, k) => recent[k][Window] >= Max

\* The window is fixed, not sliding: since its last success, but over no longer
\* than a window's length, an address fails at most as often as two windows hold,
\* but for the failure that opened the first (failurelimiter.go:57-69). A success
\* of any caller behind the address starts the count again (lines 74-78), so
\* across successes the failures of a span have no bound.
BurstIsBounded ==
    \A r \in Callers :
        LET k == KeyOf[r]
        IN  recent[k][Window] < 2 * (Max + Cardinality(CallersOf(k)) - 1)

\* The eviction takes no count away that Allow would still look at
\* (failurelimiter.go:80-108).
EvictionIsInvisible ==
    [][Evict => \A k \in DOMAIN buckets :
          Current(buckets[k]) => k \in DOMAIN buckets' /\ buckets'[k] = buckets[k]]_vars

\* When all who share an address present credentials the files hold, they are
\* no longer refused after a while, whatever they and the files were before: no
\* throttle and no torn or failed reload lasts (failurelimiter.go:71-73,
\* tokens.go:95-98, basicauth.go:42-46).
Valid(r) ==
    LET c == Credential[r]
    IN  \/ c.token # NoValue /\ c.token \in tokenFile
        \/ HasBasic /\ Usable(c) /\ c.user = basicFiles.user /\ c.pass = basicFiles.pass

GoodCallersStayIn ==
    \A k \in Keys : <>[](\A r \in CallersOf(k) : Valid(r))
                    => <>[](\A r \in CallersOf(k) : pc[r] \notin {"throttled", "failed"})

\* The limiter forgets an address nobody calls from any more (failurelimiter.go:80-83).
IdleKeysAreForgotten ==
    \A k \in Keys : <>[](\A r \in CallersOf(k) : pc[r] = "idle") => <>[](k \notin DOMAIN buckets)
=============================================================================
