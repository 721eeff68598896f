---------------------------- MODULE GuardedClient ----------------------------
(***************************************************************************)
(* A client of an external service behind a TTL cache, a circuit breaker   *)
(* and a token bucket (integrations/resilience.py), in the arrangement the *)
(* NVD, VirusTotal and GitHub advisory sources share and the Slack and     *)
(* e-mail channels use without the cache.                                  *)
(*                                                                         *)
(* Callers are threads that share one client.  The methods of the cache,   *)
(* the breaker and the bucket are atomic; callers interleave between them  *)
(* and overlap while they wait for the service.  Time advances in ticks.   *)
(***************************************************************************)
EXTENDS Integers, Sequences, FiniteSets

CONSTANTS
  Callers,     \* threads using the client
  Keys,        \* what they ask for (cache keys)
  Threshold,   \* failure_threshold of the breaker
  Reset,       \* reset_seconds of the breaker, in ticks
  Cost,        \* one token, in the units Capacity and Refill are given in
  Capacity,    \* the bucket's capacity, in units
  Refill,      \* units per tick
  Ttl,         \* ttl_seconds of the cache, in ticks; 0 disables it
  MaxEntries,  \* max_entries of the cache
  Timeout,     \* the longest a whole service call lasts, in ticks: no setting of the
               \* code, whose timeouts are per phase and per socket operation
  Markable,    \* can an answer carry the staleness mark? {TRUE} for VirusTotal,
               \* {FALSE} for GitHub, both for NVD, whose empty result cannot
  Uncaught,    \* may a response raise what the client does not catch?
  MaxTime      \* bound: the clock stops here

ASSUME BreakerSettings == Threshold \in Nat \ {0} /\ Reset \in Nat \ {0}
ASSUME BucketSettings ==
  /\ Cost \in Nat \ {0} /\ Refill \in Nat \ {0}
  /\ Capacity \in Nat /\ Capacity >= Cost
ASSUME CacheSettings == Ttl \in Nat /\ MaxEntries \in Nat \ {0}
ASSUME ClockSettings == Timeout \in Nat \ {0} /\ MaxTime \in Nat
ASSUME AnswerSettings == Markable \subseteq BOOLEAN /\ Uncaught \in BOOLEAN

VARIABLES
  now,        \* the clock
  failures,   \* CircuitBreaker._failures
  openedAt,   \* CircuitBreaker._opened_at, -1 for None
  halfOpen,   \* CircuitBreaker._half_open
  tokens,     \* RateLimiter._tokens, in units
  updatedAt,  \* RateLimiter._updated_at
  cache,      \* TtlCache._entries, least recently used first
  pc,         \* where each caller is
  key,        \* what each caller asks for
  probe,      \* was each caller let through as the half-open probe?
  since,      \* when each caller's service call began
  answer,     \* each caller's last answer: how it is presented, its age, and
              \* whether it has anything that can carry the staleness mark
  admitted    \* service calls made so far

breaker == <<failures, openedAt, halfOpen>>
bucket  == <<tokens, updatedAt>>
caller  == <<pc, key, probe, since, answer>>
vars    == <<now, breaker, bucket, cache, caller, admitted>>

Time  == 0..MaxTime
Never == -1

Entry == [key : Keys, expires : Nat, markable : BOOLEAN]

\* Where a caller is: between get and allow, between allow and try_acquire, at the
\* service, before cache.set, before get_stale.
PCs == {"idle", "guard", "acquire", "calling", "store", "degrade"}

\* "live" is an answer without a staleness mark, as its consumer sees it.
Answer == [kind : {"none", "live", "stale", "failed"}, age : Nat, markable : BOOLEAN]

TypeOK ==
  /\ now \in Time
  /\ failures \in Nat
  /\ openedAt \in Time \cup {Never}
  /\ halfOpen \in BOOLEAN
  /\ tokens \in 0..Capacity
  /\ updatedAt \in Time
  /\ cache \in Seq(Entry) /\ Len(cache) <= MaxEntries
  /\ pc \in [Callers -> PCs]
  /\ key \in [Callers -> Keys]
  /\ probe \in [Callers -> BOOLEAN]
  /\ since \in [Callers -> Time]
  /\ answer \in [Callers -> Answer]
  /\ admitted \in Nat

NoAnswer == [kind |-> "none", age |-> 0, markable |-> TRUE]

Init ==
  /\ now = 0
  /\ failures = 0 /\ openedAt = Never /\ halfOpen = FALSE
  /\ tokens = Capacity /\ updatedAt = 0
  /\ cache = <<>>
  /\ pc = [c \in Callers |-> "idle"]
  /\ key \in [Callers -> Keys]
  /\ probe = [c \in Callers |-> FALSE]
  /\ since = [c \in Callers |-> 0]
  /\ answer = [c \in Callers |-> NoAnswer]
  /\ admitted = 0

-----------------------------------------------------------------------------
(***************************************************************************)
(* TtlCache.                                                               *)
(***************************************************************************)
\* The entries of the other keys; a key has one entry.
Without(k) ==
  IF \E i \in DOMAIN cache : cache[i].key = k
  THEN LET n == CHOOSE i \in DOMAIN cache : cache[i].key = k
       IN  SubSeq(cache, 1, n - 1) \o SubSeq(cache, n + 1, Len(cache))
  ELSE cache
Entries(k) == {e \in {cache[i] : i \in DOMAIN cache} : e.key = k}

\* Variant for the mutants: an entry lives one tick too long.
LiveThrough(k) == {e \in Entries(k) : now <= e.expires}

\* get, without its effect: the entry of k unless it is absent or expired.
Live(k) == {e \in Entries(k) : now < e.expires}

\* get's effect: the entry becomes the most recently used one.
MoveToEnd(e) == Append(Without(e.key), e)

\* set: stored at the end, evicting the least recently used entry when full.
SetCache(k, m) ==
  IF Ttl = 0 THEN cache
  ELSE LET new == Append(Without(k), [key |-> k, expires |-> now + Ttl, markable |-> m])
       IN  IF Len(new) > MaxEntries THEN Tail(new) ELSE new

\* An entry's age: it was stored Ttl before it expires.
Age(e) == now - (e.expires - Ttl)

-----------------------------------------------------------------------------
(***************************************************************************)
(* CircuitBreaker.                                                         *)
(***************************************************************************)
State ==
  IF openedAt = Never THEN "closed"
  ELSE IF now - openedAt >= Reset THEN "half_open" ELSE "open"

\* Variant for the mutants: the half-open state lets everyone through.
AllowAll == State # "open"

Allow == State = "closed" \/ (State = "half_open" /\ ~halfOpen)

record_success ==
  /\ failures' = 0
  /\ openedAt' = Never
  /\ halfOpen' = FALSE

\* Variant for the mutants: the breaker trips one failure late.
RecordFailureLate ==
  IF halfOpen
  THEN openedAt' = now /\ halfOpen' = FALSE /\ failures' = failures
  ELSE /\ failures' = failures + 1
       /\ openedAt' = IF failures > Threshold /\ openedAt = Never
                      THEN now ELSE openedAt
       /\ halfOpen' = halfOpen

record_failure ==
  IF halfOpen
  THEN openedAt' = now /\ halfOpen' = FALSE /\ failures' = failures
  ELSE /\ failures' = failures + 1
       /\ openedAt' = IF failures + 1 >= Threshold /\ openedAt = Never
                      THEN now ELSE openedAt
       /\ halfOpen' = halfOpen

-----------------------------------------------------------------------------
(***************************************************************************)
(* RateLimiter.                                                            *)
(***************************************************************************)
Lesser(a, b) == IF a <= b THEN a ELSE b

\* Variant for the mutants: the refill clock is not advanced.
RefillAgain == Lesser(Capacity, tokens + now * Refill)

\* _refill: what the bucket holds once the time since the last call is credited.
Refilled == Lesser(Capacity, tokens + (now - updatedAt) * Refill)

-----------------------------------------------------------------------------
(***************************************************************************)
(* The client.                                                             *)
(***************************************************************************)

\* A live entry answers without a service call.
CacheHit(c, k) ==
  /\ pc[c] = "idle"
  /\ \E e \in Live(k) :
       /\ cache' = MoveToEnd(e)
       /\ answer' = [answer EXCEPT ![c] =
            [kind |-> "live", age |-> Age(e), markable |-> e.markable]]
  /\ UNCHANGED <<now, breaker, bucket, pc, key, probe, since, admitted>>

\* get finds nothing live: the guards are next.
CacheMiss(c, k) ==
  /\ pc[c] = "idle"
  /\ Live(k) = {}
  /\ pc' = [pc EXCEPT ![c] = "guard"]
  /\ key' = [key EXCEPT ![c] = k]
  /\ UNCHANGED <<now, breaker, bucket, cache, probe, since, answer, admitted>>

\* The breaker refuses.
CircuitOpen(c) ==
  /\ pc[c] = "guard"
  /\ ~Allow
  /\ pc' = [pc EXCEPT ![c] = "degrade"]
  /\ UNCHANGED <<now, breaker, bucket, cache, key, probe, since, answer, admitted>>

\* The breaker allows the call, as its probe if the circuit is half open.
Allowed(c) ==
  /\ pc[c] = "guard"
  /\ Allow
  /\ halfOpen' = (halfOpen \/ State = "half_open")
  /\ probe' = [probe EXCEPT ![c] = State = "half_open"]
  /\ pc' = [pc EXCEPT ![c] = "acquire"]
  /\ UNCHANGED <<now, failures, openedAt, bucket, cache, key, since, answer, admitted>>

\* try_acquire succeeds and the service is called.
CallService(c) ==
  /\ pc[c] = "acquire"
  /\ Refilled >= Cost
  /\ tokens' = Refilled - Cost
  /\ updatedAt' = now
  /\ pc' = [pc EXCEPT ![c] = "calling"]
  /\ since' = [since EXCEPT ![c] = now]
  /\ admitted' = admitted + 1
  /\ UNCHANGED <<now, breaker, cache, key, probe, answer>>

\* try_acquire refuses: a refusal, which the breaker does not hear of.
RateLimited(c) ==
  /\ pc[c] = "acquire"
  /\ Refilled < Cost
  /\ tokens' = Refilled
  /\ updatedAt' = now
  /\ pc' = [pc EXCEPT ![c] = "degrade"]
  /\ UNCHANGED <<now, breaker, cache, key, probe, since, answer, admitted>>

\* The service answers: the breaker is told first.
Succeeds(c) ==
  /\ pc[c] = "calling"
  /\ record_success
  /\ pc' = [pc EXCEPT ![c] = "store"]
  /\ UNCHANGED <<now, bucket, cache, key, probe, since, answer, admitted>>

\* Then the answer is cached and returned.
Store(c) ==
  /\ pc[c] = "store"
  /\ \E m \in Markable :
       /\ cache' = SetCache(key[c], m)
       /\ answer' = [answer EXCEPT ![c] = [kind |-> "live", age |-> 0, markable |-> m]]
  /\ pc' = [pc EXCEPT ![c] = "idle"]
  /\ UNCHANGED <<now, breaker, bucket, key, probe, since, admitted>>

\* It is unreachable, answers an error, times out, or answers something that
\* raises ValueError, KeyError or TypeError.
Fails(c) ==
  /\ pc[c] = "calling"
  /\ record_failure
  /\ pc' = [pc EXCEPT ![c] = "degrade"]
  /\ UNCHANGED <<now, bucket, cache, key, probe, since, answer, admitted>>

\* It answers something that raises anything else, an AttributeError say (a JSON list
\* where the parser calls payload.get), or the message's own headers raise: the
\* exception leaves the client, and nobody tells the breaker.
Escapes(c) ==
  /\ Uncaught
  /\ pc[c] = "calling"
  /\ answer' = [answer EXCEPT ![c] = NoAnswer]
  /\ pc' = [pc EXCEPT ![c] = "idle"]
  /\ UNCHANGED <<now, breaker, bucket, cache, key, probe, since, admitted>>

\* _degrade: whatever entry there is, marked stale where it can carry the mark (an
\* advisory and an empty result cannot), or a failure.
Degrade(c) ==
  /\ pc[c] = "degrade"
  /\ answer' = [answer EXCEPT ![c] =
       IF Entries(key[c]) = {} THEN [kind |-> "failed", age |-> 0, markable |-> TRUE]
       ELSE LET e == CHOOSE x \in Entries(key[c]) : TRUE
            IN  [kind |-> IF e.markable THEN "stale" ELSE "live",
                 age |-> Age(e), markable |-> e.markable]]
  /\ pc' = [pc EXCEPT ![c] = "idle"]
  /\ UNCHANGED <<now, breaker, bucket, cache, key, probe, since, admitted>>

\* Time passes, but a service call lasts no longer than Timeout and a caller is through
\* both guards within a tick.
Tick ==
  /\ now < MaxTime
  /\ \A c \in Callers : /\ pc[c] # "acquire"
                        /\ pc[c] = "calling" => now - since[c] < Timeout
  /\ now' = now + 1
  /\ UNCHANGED <<breaker, bucket, cache, caller, admitted>>

Next ==
  \/ \E c \in Callers, k \in Keys : CacheHit(c, k) \/ CacheMiss(c, k)
  \/ \E c \in Callers :
       \/ CircuitOpen(c) \/ Allowed(c)
       \/ CallService(c) \/ RateLimited(c)
       \/ Succeeds(c) \/ Store(c)
       \/ Fails(c) \/ Escapes(c) \/ Degrade(c)
  \/ Tick

Spec == Init /\ [][Next]_vars

-----------------------------------------------------------------------------
InFlight(c) == pc[c] \in {"acquire", "calling"}
Probing(c)  == probe[c] /\ InFlight(c)

\* A closed circuit has seen fewer failures than the threshold, however late the
\* calls that were in flight when it tripped or recovered report theirs.
ClosedBelowThreshold == openedAt = Never => failures < Threshold

\* The half-open circuit turns calls away only while its probe is under way: "further
\* calls are refused until it resolves" (CircuitBreaker.allow).  A probe whose exception
\* escapes never resolves, and the client is refused from then on.
ProbeUnderWay == halfOpen => \E c \in Callers : Probing(c)

\* Recovery is tested with a single request, not with the backlog.
OneProbe == Cardinality({c \in Callers : Probing(c)}) <= 1

\* Since the start no more calls were made than a full bucket and the refill
\* allow.
RateBound == admitted * Cost <= Capacity + Refill * now

\* A reputation or a CVE record without the staleness mark is younger than the cache's
\* lifetime.  An advisory or an empty result may be of any age, and nothing says so.
LiveIsFresh == \A c \in Callers :
  answer[c].kind = "live" /\ answer[c].markable
    => answer[c].age = 0 \/ answer[c].age < Ttl

\* A key has one entry, stored now or earlier.
CacheInOrder ==
  /\ \A i, j \in DOMAIN cache : cache[i].key = cache[j].key => i = j
  /\ \A i \in DOMAIN cache : cache[i].expires <= now + Ttl

\* The client's state is well formed, the bucket within its capacity, the cache within
\* its limit with one entry for a key, and nothing expired that can carry the staleness
\* mark is served without it (get, get_stale, set).
CacheInv == TypeOK /\ CacheInOrder /\ LiveIsFresh

-----------------------------------------------------------------------------
(***************************************************************************)
(* Why the probe is alone for settings with Timeout < Reset, and never     *)
(* starves if also Reset * Refill >= Cost and every exception is caught.   *)
(***************************************************************************)

\* Calls let through before the circuit tripped are over before it is tested.
BacklogOver ==
  \A c \in Callers :
    /\ pc[c] = "calling" => since[c] <= now /\ now - since[c] <= Timeout
    /\ (openedAt # Never /\ ~probe[c] /\ pc[c] = "acquire") => openedAt = now
    /\ (openedAt # Never /\ ~probe[c] /\ pc[c] = "calling") => since[c] <= openedAt

\* The half-open flag and the probe belong together.
ProbeHoldsFlag ==
  /\ openedAt # Never => openedAt <= now
  /\ halfOpen => State = "half_open" /\ \A c \in Callers : InFlight(c) => probe[c]
  /\ \A c \in Callers : Probing(c) => halfOpen
  /\ \A c, d \in Callers : Probing(c) /\ Probing(d) => c = d

\* Nobody touched the bucket since the circuit opened, unless it is the probe.
BucketRested ==
  /\ updatedAt <= now
  /\ (openedAt # Never /\ \A c \in Callers : ~(Probing(c) /\ pc[c] = "calling"))
       => updatedAt <= openedAt

\* What the bucket has given out and still holds, it was filled with.
BucketBalanced == admitted * Cost + tokens <= Capacity + Refill * updatedAt
=============================================================================
