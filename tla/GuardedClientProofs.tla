------------------------- MODULE GuardedClientProofs -------------------------
(***************************************************************************)
(* The breaker and the token bucket, for any number of callers and every   *)
(* setting the code accepts.                                               *)
(***************************************************************************)
EXTENDS GuardedClient, FiniteSetTheorems, SequenceTheorems, TLAPS

\* The numbers and the callers' positions, without the cache and the answers.
GuardType ==
  /\ now \in Nat
  /\ failures \in Nat
  /\ openedAt \in Nat \cup {Never}
  /\ halfOpen \in BOOLEAN
  /\ tokens \in Nat
  /\ updatedAt \in Nat /\ updatedAt <= now
  /\ pc \in [Callers -> PCs]
  /\ probe \in [Callers -> BOOLEAN]
  /\ since \in [Callers -> Nat]
  /\ admitted \in Nat

\* A refill credits a natural number of units.
LEMMA RefilledType ==
  ASSUME GuardType
  PROVE  Refilled \in Nat /\ Refilled <= tokens + (now - updatedAt) * Refill
<1>1. (now - updatedAt) \in Nat /\ Refill \in Nat
  BY BucketSettings DEF GuardType
<1>2. (now - updatedAt) * Refill \in Nat
  BY <1>1
<1> QED  BY <1>2, BucketSettings DEF GuardType, Refilled, Lesser

\* The steps of a caller that is neither at the bucket nor at the service, before and
\* after: they leave breaker, bucket and clock alone.
Quiet(c) ==
  \/ \E k \in Keys : CacheHit(c, k) \/ CacheMiss(c, k)
  \/ CircuitOpen(c) \/ Store(c) \/ Degrade(c)

LEMMA QuietFrame ==
  ASSUME GuardType, NEW c \in Callers, Quiet(c)
  PROVE  /\ UNCHANGED <<now, failures, openedAt, halfOpen, tokens, updatedAt, probe,
                        since, admitted>>
         /\ pc' \in [Callers -> PCs]
         /\ \A d \in Callers : InFlight(d)' <=> InFlight(d)
         /\ \A d \in Callers : InFlight(d) => pc'[d] = pc[d]
<1>1. UNCHANGED <<now, failures, openedAt, halfOpen, tokens, updatedAt, probe, since, admitted>>
  BY DEF Quiet, CacheHit, CacheMiss, CircuitOpen, Store, Degrade, breaker, bucket
<1>2. ~InFlight(c) /\ \E l \in {"idle", "guard", "degrade"} : pc' = [pc EXCEPT ![c] = l]
  <2>1. ASSUME NEW k \in Keys, CacheHit(c, k)
        PROVE  pc[c] = "idle" /\ pc' = [pc EXCEPT ![c] = "idle"]
    BY <2>1 DEF CacheHit, GuardType
  <2> QED  BY <2>1 DEF Quiet, CacheMiss, CircuitOpen, Store, Degrade, InFlight
<1> QED  BY <1>1, <1>2 DEF GuardType, InFlight, PCs

LEMMA GuardTypeStep ==
  ASSUME GuardType, Next
  PROVE  GuardType'
<1>1. ASSUME NEW c \in Callers, Quiet(c)
      PROVE  GuardType'
  BY <1>1, QuietFrame DEF GuardType
<1>2. ASSUME NEW c \in Callers, Allowed(c)
      PROVE  GuardType'
  <2>1. halfOpen' \in BOOLEAN /\ probe' \in [Callers -> BOOLEAN]
    BY <1>2 DEF GuardType, Allowed
  <2>2. pc' \in [Callers -> PCs]
    BY <1>2 DEF GuardType, Allowed, PCs
  <2> QED  BY <1>2, <2>1, <2>2 DEF GuardType, Allowed, bucket
<1>3. ASSUME NEW c \in Callers, CallService(c)
      PROVE  GuardType'
  <2>1. Refilled - Cost \in Nat
    BY <1>3, RefilledType, BucketSettings DEF CallService
  <2> QED  BY <1>3, <2>1 DEF GuardType, CallService, breaker, PCs
<1>4. ASSUME NEW c \in Callers, RateLimited(c)
      PROVE  GuardType'
  BY <1>4, RefilledType DEF GuardType, RateLimited, breaker, PCs
<1>5. ASSUME NEW c \in Callers, Succeeds(c)
      PROVE  GuardType'
  BY <1>5 DEF GuardType, Succeeds, record_success, bucket, PCs
<1>6. ASSUME NEW c \in Callers, Fails(c)
      PROVE  GuardType'
  <2>1. halfOpen' \in BOOLEAN
    BY <1>6 DEF GuardType, Fails, record_failure
  <2>2. failures' \in Nat /\ openedAt' \in Nat \cup {Never}
    BY <1>6 DEF GuardType, Fails, record_failure
  <2> QED  BY <1>6, <2>1, <2>2 DEF GuardType, Fails, bucket, PCs
<1>7. ASSUME NEW c \in Callers, Escapes(c)
      PROVE  GuardType'
  BY <1>7 DEF GuardType, Escapes, breaker, bucket, PCs
<1>8. CASE Tick
  BY <1>8 DEF GuardType, Tick, breaker, bucket, caller
<1> QED  BY <1>1, <1>2, <1>3, <1>4, <1>5, <1>6, <1>7, <1>8 DEF Next, Quiet

\* The clocks, counters and flags keep their types.
LEMMA GuardTypeCorrect == Spec => []GuardType
<1>1. Init => GuardType
  <2> SUFFICES ASSUME Init PROVE GuardType
    OBVIOUS
  <2>1. /\ now \in Nat /\ failures \in Nat /\ openedAt \in Nat \cup {Never}
        /\ tokens \in Nat /\ updatedAt \in Nat /\ updatedAt <= now /\ admitted \in Nat
    BY BucketSettings DEF Init
  <2>2. halfOpen \in BOOLEAN /\ probe \in [Callers -> BOOLEAN]
    BY DEF Init
  <2>3. pc \in [Callers -> PCs] /\ since \in [Callers -> Nat]
    BY DEF Init, PCs
  <2> QED  BY <2>1, <2>2, <2>3 DEF GuardType
<1>2. GuardType /\ [Next]_vars => GuardType'
  <2>1. GuardType /\ UNCHANGED vars => GuardType'
    BY DEF GuardType, vars, breaker, bucket, caller
  <2> QED  BY <2>1, GuardTypeStep
<1> QED  BY <1>1, <1>2, PTL DEF Spec

-----------------------------------------------------------------------------
\* A closed circuit has seen fewer failures than the threshold.
THEOREM BreakerTrips == Spec => []ClosedBelowThreshold
<1>1. Init => ClosedBelowThreshold
  BY BreakerSettings DEF Init, ClosedBelowThreshold
<1>2. GuardType /\ ClosedBelowThreshold /\ [Next]_vars => ClosedBelowThreshold'
  <2> SUFFICES ASSUME GuardType, ClosedBelowThreshold, [Next]_vars
               PROVE  ClosedBelowThreshold'
    OBVIOUS
  <2>1. ASSUME NEW c \in Callers, Succeeds(c)
        PROVE  ClosedBelowThreshold'
    BY <2>1, BreakerSettings DEF ClosedBelowThreshold, Succeeds, record_success
  <2>2. ASSUME NEW c \in Callers, Fails(c)
        PROVE  ClosedBelowThreshold'
    BY <2>2, BreakerSettings
       DEF ClosedBelowThreshold, Fails, record_failure, GuardType, Never
  <2>3. CASE UNCHANGED <<failures, openedAt>>
    BY <2>3 DEF ClosedBelowThreshold
  <2>4. \A c \in Callers : Quiet(c) \/ Allowed(c) => UNCHANGED <<failures, openedAt>>
    BY QuietFrame DEF Allowed
  <2>5. \A c \in Callers : CallService(c) \/ RateLimited(c) \/ Escapes(c)
          => UNCHANGED <<failures, openedAt>>
    BY DEF CallService, RateLimited, Escapes, breaker
  <2>6. Tick \/ UNCHANGED vars => UNCHANGED <<failures, openedAt>>
    BY DEF Tick, vars, breaker
  <2> QED  BY <2>1, <2>2, <2>3, <2>4, <2>5, <2>6 DEF Next, Quiet
<1> QED  BY <1>1, <1>2, GuardTypeCorrect, PTL DEF Spec

-----------------------------------------------------------------------------
\* However callers interleave, the service sees no more calls than a full bucket
\* and the refill since the start allow.
THEOREM RateIsBounded == Spec => []RateBound
<1>1. Init => BucketBalanced
  BY BucketSettings DEF Init, BucketBalanced
<1>2. GuardType /\ BucketBalanced /\ [Next]_vars => BucketBalanced'
  <2> SUFFICES ASSUME GuardType, BucketBalanced, [Next]_vars
               PROVE  BucketBalanced'
    OBVIOUS
  <2>1. /\ Refilled + Refill * updatedAt <= tokens + Refill * now
        /\ admitted * Cost + Refilled <= Capacity + Refill * now
    <3>1. (now - updatedAt) * Refill = Refill * now - Refill * updatedAt
      BY BucketSettings DEF GuardType
    <3>2. Refill * now \in Nat /\ Refill * updatedAt \in Nat /\ admitted * Cost \in Nat
      BY BucketSettings DEF GuardType
    <3> HIDE DEF BucketBalanced
    <3>3. Refilled \in Nat /\ Refilled <= tokens + (Refill * now - Refill * updatedAt)
      BY <3>1, RefilledType
    <3> QED  BY <3>2, <3>3, BucketSettings DEF GuardType, BucketBalanced
  <2>2. ASSUME NEW c \in Callers, CallService(c)
        PROVE  BucketBalanced'
    <3>1. (admitted + 1) * Cost = admitted * Cost + Cost
      BY BucketSettings DEF GuardType
    <3>2. /\ admitted' = admitted + 1 /\ tokens' = Refilled - Cost
          /\ updatedAt' = now
      BY <2>2 DEF CallService
    <3>3. Refilled \in Nat /\ admitted * Cost \in Nat /\ Refill * now \in Nat
      BY RefilledType, BucketSettings DEF GuardType
    <3> QED  BY <2>1, <3>1, <3>2, <3>3, BucketSettings DEF BucketBalanced
  <2>3. ASSUME NEW c \in Callers, RateLimited(c)
        PROVE  BucketBalanced'
    BY <2>1, <2>3 DEF RateLimited, BucketBalanced
  <2>4. CASE UNCHANGED <<tokens, updatedAt, admitted>>
    BY <2>4 DEF BucketBalanced
  <2>5. \A c \in Callers : Quiet(c) \/ Allowed(c)
          => UNCHANGED <<tokens, updatedAt, admitted>>
    BY QuietFrame DEF Allowed, bucket
  <2>6. \A c \in Callers : Succeeds(c) \/ Fails(c) \/ Escapes(c)
          => UNCHANGED <<tokens, updatedAt, admitted>>
    BY DEF Succeeds, Fails, Escapes, bucket
  <2>7. Tick \/ UNCHANGED vars => UNCHANGED <<tokens, updatedAt, admitted>>
    BY DEF Tick, vars, bucket
  <2> QED  BY <2>2, <2>3, <2>4, <2>5, <2>6, <2>7 DEF Next, Quiet
<1>3. GuardType /\ BucketBalanced => RateBound
  <2> SUFFICES ASSUME GuardType, BucketBalanced PROVE RateBound
    OBVIOUS
  <2>1. Refill * updatedAt <= Refill * now
    BY BucketSettings DEF GuardType
  <2>2. /\ Refill * updatedAt \in Nat /\ Refill * now \in Nat
        /\ admitted * Cost \in Nat /\ tokens \in Nat
    BY BucketSettings DEF GuardType
  <2> QED  BY <2>1, <2>2, BucketSettings DEF BucketBalanced, RateBound
<1> QED  BY <1>1, <1>2, <1>3, GuardTypeCorrect, PTL DEF Spec

-----------------------------------------------------------------------------
(***************************************************************************)
(* The half-open probe.                                                    *)
(***************************************************************************)
AloneInv == BacklogOver /\ ProbeHoldsFlag

\* The half-open state is a matter of time since the circuit opened.
LEMMA HalfOpenState ==
  ASSUME GuardType
  PROVE  State = "half_open" <=> openedAt \in Nat /\ now - openedAt >= Reset
<1>1. CASE openedAt = Never
  <2>1. State = "closed"
    BY <1>1 DEF State
  <2>2. openedAt \notin Nat
    BY <1>1 DEF Never
  <2> QED  BY <2>1, <2>2
<1>2. CASE openedAt \in Nat
  <2>1. openedAt # Never
    BY <1>2 DEF Never
  <2> QED  BY <1>2, <2>1 DEF State
<1> QED  BY <1>1, <1>2 DEF GuardType

\* When the circuit may be tested, nobody is at the bucket or the service: the calls
\* made before it tripped are over, and no probe is under way.
LEMMA NobodyInFlight ==
  ASSUME GuardType, AloneInv, Timeout < Reset, State = "half_open", ~halfOpen,
         NEW c \in Callers
  PROVE  ~InFlight(c)
<1> SUFFICES ASSUME InFlight(c) PROVE FALSE
  OBVIOUS
<1>1. openedAt \in Nat /\ openedAt # Never /\ openedAt <= now /\ now - openedAt >= Reset
  BY HalfOpenState DEF AloneInv, ProbeHoldsFlag, Never
<1>2. ~probe[c]
  BY DEF AloneInv, ProbeHoldsFlag, Probing
<1>3. CASE pc[c] = "acquire"
  BY <1>1, <1>2, <1>3, BreakerSettings DEF AloneInv, BacklogOver, GuardType
<1>4. CASE pc[c] = "calling"
  <2>1. since[c] <= openedAt /\ now - since[c] <= Timeout /\ since[c] \in Nat
    BY <1>1, <1>2, <1>4 DEF AloneInv, BacklogOver, GuardType
  <2> QED  BY <1>1, <2>1, BreakerSettings, ClockSettings DEF GuardType
<1> QED  BY <1>3, <1>4 DEF InFlight

\* A report that arrives while the flag is set is the probe's own.
LEMMA ReporterIsProbe ==
  ASSUME AloneInv, halfOpen, NEW c \in Callers, InFlight(c),
         NEW d \in Callers, InFlight(d)
  PROVE  c = d /\ Probing(c)
BY DEF AloneInv, ProbeHoldsFlag, Probing

LEMMA AloneStep ==
  ASSUME GuardType, AloneInv, Timeout < Reset, Next
  PROVE  AloneInv'
<1>1. ASSUME NEW c \in Callers, Quiet(c)
      PROVE  AloneInv'
  <2>1. /\ UNCHANGED <<now, openedAt, halfOpen, probe, since>>
        /\ \A d \in Callers : InFlight(d)' <=> InFlight(d)
        /\ \A d \in Callers : InFlight(d) => pc'[d] = pc[d]
    BY <1>1, QuietFrame
  <2>2. \A d \in Callers : pc'[d] \in {"acquire", "calling"} => pc[d] = pc'[d]
    BY <2>1 DEF InFlight
  <2>3. BacklogOver'
    BY <2>1, <2>2 DEF AloneInv, BacklogOver
  <2>4. ProbeHoldsFlag'
    BY <2>1 DEF AloneInv, ProbeHoldsFlag, Probing, State
  <2> QED  BY <2>3, <2>4 DEF AloneInv
<1> USE DEF AloneInv, BacklogOver, ProbeHoldsFlag, Probing, State, InFlight
<1>2. ASSUME NEW c \in Callers, Allowed(c)
      PROVE  AloneInv'
  <2>1. CASE State = "closed"
    <3>1. openedAt = Never /\ ~halfOpen /\ openedAt' = Never /\ ~halfOpen'
      BY <1>2, <2>1 DEF Allowed, GuardType
    <3>2. probe' = [probe EXCEPT ![c] = FALSE] /\ pc' = [pc EXCEPT ![c] = "acquire"]
      BY <1>2, <2>1 DEF Allowed
    <3>3. UNCHANGED <<now, since>>
      BY <1>2 DEF Allowed
    <3> QED  BY <3>1, <3>2, <3>3 DEF GuardType
  <2>2. CASE State = "half_open" /\ ~halfOpen
    <3>1. \A d \in Callers : ~InFlight(d)
      BY <2>2, NobodyInFlight
    <3>2. /\ probe' = [probe EXCEPT ![c] = TRUE] /\ pc' = [pc EXCEPT ![c] = "acquire"]
          /\ halfOpen' /\ UNCHANGED <<now, since, openedAt>>
      BY <1>2, <2>2 DEF Allowed
    <3> QED  BY <2>2, <3>1, <3>2 DEF GuardType
  <2> QED  BY <1>2, <2>1, <2>2 DEF Allowed, Allow
<1>3. ASSUME NEW c \in Callers, CallService(c)
      PROVE  AloneInv'
  <2>1. /\ pc' = [pc EXCEPT ![c] = "calling"] /\ since' = [since EXCEPT ![c] = now]
        /\ pc[c] = "acquire" /\ UNCHANGED <<now, openedAt, halfOpen, probe>>
    BY <1>3 DEF CallService, breaker
  <2> QED  BY <2>1, ClockSettings DEF GuardType
<1>4. ASSUME NEW c \in Callers, RateLimited(c)
      PROVE  AloneInv'
  BY <1>4 DEF RateLimited, breaker, GuardType
<1>5. ASSUME NEW c \in Callers, Succeeds(c)
      PROVE  AloneInv'
  <2>1. /\ pc' = [pc EXCEPT ![c] = "store"] /\ pc[c] = "calling"
        /\ openedAt' = Never /\ ~halfOpen' /\ UNCHANGED <<now, since, probe>>
    BY <1>5 DEF Succeeds, record_success
  <2>2. \A d \in Callers : ~Probing(d)'
    BY <2>1, ReporterIsProbe DEF GuardType
  <2> QED  BY <2>1, <2>2 DEF GuardType
<1>6. ASSUME NEW c \in Callers, Fails(c)
      PROVE  AloneInv'
  <2>1. /\ pc' = [pc EXCEPT ![c] = "degrade"] /\ pc[c] = "calling"
        /\ UNCHANGED <<now, since, probe>>
    BY <1>6 DEF Fails
  <2>2. CASE halfOpen
    <3>1. openedAt' = now /\ ~halfOpen'
      BY <1>6, <2>2 DEF Fails, record_failure
    <3>2. \A d \in Callers : ~InFlight(d)'
      BY <2>1, <2>2, ReporterIsProbe DEF GuardType
    <3> QED  BY <2>1, <3>1, <3>2 DEF GuardType
  <2>3. CASE ~halfOpen
    <3>1. ~halfOpen' /\ (openedAt' = openedAt \/ (openedAt = Never /\ openedAt' = now))
      BY <1>6, <2>3 DEF Fails, record_failure
    <3>2. \A d \in Callers : InFlight(d) => ~probe[d]
      BY <2>3
    <3> QED  BY <2>1, <2>3, <3>1, <3>2 DEF GuardType
  <2> QED  BY <2>2, <2>3
<1>7. ASSUME NEW c \in Callers, Escapes(c)
      PROVE  AloneInv'
  BY <1>7 DEF Escapes, breaker, GuardType
<1>8. CASE Tick
  <2>1. /\ now' = now + 1 /\ UNCHANGED <<openedAt, halfOpen, pc, probe, since>>
        /\ \A c \in Callers : pc[c] # "acquire"
        /\ \A c \in Callers : pc[c] = "calling" => now - since[c] < Timeout
    BY <1>8 DEF Tick, breaker, caller
  <2>2. BacklogOver'
    BY <2>1, ClockSettings DEF GuardType
  <2>3. halfOpen => State' = "half_open"
    <3>1. halfOpen => openedAt \in Nat /\ openedAt # Never /\ now - openedAt >= Reset
      BY HalfOpenState DEF Never
    <3>2. halfOpen => now' - openedAt >= Reset
      BY <2>1, <3>1, BreakerSettings DEF GuardType
    <3> QED  BY <2>1, <3>1, <3>2
  <2>4. openedAt # Never => openedAt <= now'
    BY <2>1 DEF GuardType
  <2> QED  BY <2>1, <2>2, <2>3, <2>4
<1> QED  BY <1>1, <1>2, <1>3, <1>4, <1>5, <1>6, <1>7, <1>8 DEF Next, Quiet

LEMMA AloneCorrect ==
  ASSUME Timeout < Reset
  PROVE  Spec => []AloneInv
<1>1. Init => AloneInv
  BY DEF Init, AloneInv, BacklogOver, ProbeHoldsFlag, Probing, InFlight
<1>2. GuardType /\ AloneInv /\ [Next]_vars => AloneInv'
  <2>1. AloneInv /\ UNCHANGED vars => AloneInv'
    BY DEF AloneInv, BacklogOver, ProbeHoldsFlag, Probing, InFlight, State, vars,
           breaker, bucket, caller
  <2> QED  BY <2>1, AloneStep
<1> QED  BY <1>1, <1>2, GuardTypeCorrect, PTL DEF Spec

\* With a service timeout shorter than the reset time, the half-open circuit lets
\* one call through at a time.
THEOREM SingleProbe ==
  ASSUME Timeout < Reset
  PROVE  Spec => []OneProbe
<1>1. AloneInv => OneProbe
  <2> SUFFICES ASSUME AloneInv PROVE OneProbe
    OBVIOUS
  <2> DEFINE P == {c \in Callers : Probing(c)}
  <2>1. CASE P = {}
    BY <2>1, FS_EmptySet DEF OneProbe
  <2>2. CASE P # {}
    <3>1. PICK c : P = {c}
      BY <2>2 DEF AloneInv, ProbeHoldsFlag
    <3>2. Cardinality(P) = 1
      BY <3>1, FS_Singleton
    <3> QED  BY <3>2 DEF OneProbe
  <2> QED  BY <2>1, <2>2
<1> QED  BY <1>1, AloneCorrect, PTL

-----------------------------------------------------------------------------
\* The probe finds a token: the bucket has rested for the reset time.
LEMMA ProbeFindsToken ==
  ASSUME GuardType, AloneInv, BucketRested, Reset * Refill >= Cost,
         NEW c \in Callers, Probing(c), pc[c] = "acquire"
  PROVE  Refilled >= Cost
<1>1. halfOpen /\ openedAt # Never /\ now - openedAt >= Reset /\ openedAt \in Nat
  BY HalfOpenState DEF AloneInv, ProbeHoldsFlag, Never
<1>2. \A d \in Callers : ~(Probing(d) /\ pc[d] = "calling")
  BY DEF AloneInv, ProbeHoldsFlag
<1>3. updatedAt <= openedAt
  BY <1>1, <1>2 DEF BucketRested
<1>4. now - updatedAt >= Reset /\ now - updatedAt \in Nat
  BY <1>1, <1>3, BreakerSettings DEF GuardType
<1>5. (now - updatedAt) * Refill >= Reset * Refill
  <2>1. PICK x \in Nat : now - updatedAt = Reset + x
    BY <1>4, BreakerSettings DEF GuardType
  <2>2. (Reset + x) * Refill = Reset * Refill + x * Refill
    BY BreakerSettings, BucketSettings
  <2>3. x * Refill \in Nat /\ Reset * Refill \in Nat
    BY BreakerSettings, BucketSettings
  <2> QED  BY <2>1, <2>2, <2>3
<1>6. (now - updatedAt) * Refill \in Nat /\ Reset * Refill \in Nat
  BY <1>4, BreakerSettings, BucketSettings
<1> QED  BY <1>5, <1>6, BucketSettings DEF Refilled, Lesser, GuardType

LEMMA RestedStep ==
  ASSUME GuardType, AloneInv, BucketRested, ProbeUnderWay, Timeout < Reset,
         Reset * Refill >= Cost, ~Uncaught, Next
  PROVE  BucketRested' /\ ProbeUnderWay'
<1>1. ASSUME NEW c \in Callers, Quiet(c)
      PROVE  BucketRested' /\ ProbeUnderWay'
  <2>1. /\ UNCHANGED <<now, openedAt, halfOpen, updatedAt, probe>>
        /\ \A d \in Callers : InFlight(d)' <=> InFlight(d)
        /\ \A d \in Callers : InFlight(d) => pc'[d] = pc[d]
    BY <1>1, QuietFrame
  <2> QED  BY <2>1 DEF BucketRested, ProbeUnderWay, Probing
<1> USE DEF BucketRested, ProbeUnderWay, Probing, InFlight
<1>2. ASSUME NEW c \in Callers, Allowed(c)
      PROVE  BucketRested' /\ ProbeUnderWay'
  <2>1. CASE State = "closed"
    <3>1. openedAt = Never /\ openedAt' = Never /\ ~halfOpen'
      BY <1>2, <2>1 DEF Allowed, GuardType, State, AloneInv, ProbeHoldsFlag
    <3> QED  BY <1>2, <3>1 DEF Allowed, bucket
  <2>2. CASE State = "half_open" /\ ~halfOpen
    <3>1. \A d \in Callers : ~InFlight(d)
      BY <2>2, NobodyInFlight
    <3>2. /\ probe' = [probe EXCEPT ![c] = TRUE] /\ pc' = [pc EXCEPT ![c] = "acquire"]
          /\ halfOpen' /\ UNCHANGED <<now, updatedAt, openedAt>>
      BY <1>2, <2>2 DEF Allowed, bucket
    <3> QED  BY <3>1, <3>2 DEF GuardType
  <2> QED  BY <1>2, <2>1, <2>2 DEF Allowed, Allow
<1>3. ASSUME NEW c \in Callers, CallService(c)
      PROVE  BucketRested' /\ ProbeUnderWay'
  <2>1. /\ pc' = [pc EXCEPT ![c] = "calling"] /\ pc[c] = "acquire"
        /\ updatedAt' = now /\ UNCHANGED <<now, openedAt, halfOpen, probe>>
    BY <1>3 DEF CallService, breaker
  <2>2. CASE probe[c]
    BY <2>1, <2>2 DEF GuardType
  <2>3. CASE ~probe[c]
    <3>1. openedAt # Never => openedAt = now
      BY <2>1, <2>3 DEF AloneInv, BacklogOver
    <3>2. ~halfOpen
      BY <2>1, <2>3 DEF AloneInv, ProbeHoldsFlag
    <3> QED  BY <2>1, <3>1, <3>2 DEF GuardType
  <2> QED  BY <2>2, <2>3
<1>4. ASSUME NEW c \in Callers, RateLimited(c)
      PROVE  BucketRested' /\ ProbeUnderWay'
  <2>1. /\ pc' = [pc EXCEPT ![c] = "degrade"] /\ pc[c] = "acquire"
        /\ updatedAt' = now /\ UNCHANGED <<now, openedAt, halfOpen, probe>>
    BY <1>4 DEF RateLimited, breaker
  <2>2. Refilled \in Nat /\ Refilled < Cost
    BY <1>4, RefilledType DEF RateLimited
  <2>3. ~probe[c]
    BY <2>1, <2>2, ProbeFindsToken, BucketSettings
  <2>4. openedAt # Never => openedAt = now
    BY <2>1, <2>3 DEF AloneInv, BacklogOver
  <2>5. ~halfOpen
    BY <2>1, <2>3 DEF AloneInv, ProbeHoldsFlag
  <2> QED  BY <2>1, <2>4, <2>5 DEF GuardType
<1>5. ASSUME NEW c \in Callers, Succeeds(c)
      PROVE  BucketRested' /\ ProbeUnderWay'
  BY <1>5 DEF Succeeds, record_success, bucket, GuardType
<1>6. ASSUME NEW c \in Callers, Fails(c)
      PROVE  BucketRested' /\ ProbeUnderWay'
  <2>1. /\ pc' = [pc EXCEPT ![c] = "degrade"] /\ pc[c] = "calling"
        /\ UNCHANGED <<now, updatedAt, probe>> /\ ~halfOpen'
        /\ openedAt' = now \/ (openedAt' = openedAt /\ ~halfOpen)
    BY <1>6 DEF Fails, record_failure, bucket
  <2>2. CASE openedAt' = now
    BY <2>1, <2>2 DEF GuardType
  <2>3. CASE openedAt' = openedAt /\ ~halfOpen
    <3>1. \A d \in Callers : ~Probing(d)
      BY <2>3 DEF AloneInv, ProbeHoldsFlag
    <3> QED  BY <2>1, <2>3, <3>1 DEF GuardType
  <2> QED  BY <2>1, <2>2, <2>3
<1>7. CASE Tick
  BY <1>7 DEF Tick, breaker, bucket, caller, GuardType
<1> QED  BY <1>1, <1>2, <1>3, <1>4, <1>5, <1>6, <1>7 DEF Next, Quiet, Escapes

\* If the reset time also earns a token, the probe is never turned away by the bucket;
\* if moreover the client caught every exception, a circuit that waits for its probe
\* would have one under way.  The second hypothesis is needed, and no client of
\* integrations/ meets it: with it dropped TLC finds the circuit closed to everybody.
THEOREM ProbeNeverStarved ==
  ASSUME Timeout < Reset, Reset * Refill >= Cost, ~Uncaught
  PROVE  Spec => []ProbeUnderWay
<1>1. Init => BucketRested /\ ProbeUnderWay
  BY DEF Init, BucketRested, ProbeUnderWay
<1>2. GuardType /\ AloneInv /\ BucketRested /\ ProbeUnderWay /\ [Next]_vars
      => BucketRested' /\ ProbeUnderWay'
  <2>1. BucketRested /\ ProbeUnderWay /\ UNCHANGED vars
          => BucketRested' /\ ProbeUnderWay'
    BY DEF BucketRested, ProbeUnderWay, Probing, InFlight, vars, breaker, bucket, caller
  <2> QED  BY <2>1, RestedStep
<1> QED  BY <1>1, <1>2, GuardTypeCorrect, AloneCorrect, PTL DEF Spec

-----------------------------------------------------------------------------
(***************************************************************************)
(* The cache.                                                              *)
(***************************************************************************)

\* Without a key, the cache holds the other entries, one for each key, and is shorter
\* if the key had one.
LEMMA WithoutFacts ==
  ASSUME TypeOK, CacheInOrder, NEW k
  PROVE  /\ Without(k) \in Seq(Entry) /\ Len(Without(k)) <= Len(cache)
         /\ Entries(k) # {} => Len(Without(k)) = Len(cache) - 1
         /\ \A i \in DOMAIN Without(k) : \E m \in DOMAIN cache : Without(k)[i] = cache[m] /\ cache[m].key # k
         /\ \A i, j \in DOMAIN Without(k) : Without(k)[i].key = Without(k)[j].key => i = j
<1>0. cache \in Seq(Entry) /\ Len(cache) \in Nat /\ DOMAIN cache = 1..Len(cache)
  BY LenProperties DEF TypeOK
<1>1. CASE ~\E i \in DOMAIN cache : cache[i].key = k
  <2>1. Without(k) = cache /\ Entries(k) = {}
    BY <1>1 DEF Without, Entries
  <2> QED  BY <1>0, <1>1, <2>1 DEF CacheInOrder
<1>2. CASE \E i \in DOMAIN cache : cache[i].key = k
  <2> DEFINE n == CHOOSE i \in DOMAIN cache : cache[i].key = k
             w == SubSeq(cache, 1, n - 1) \o SubSeq(cache, n + 1, Len(cache))
  <2>1. Without(k) = w /\ n \in 1..Len(cache) /\ cache[n].key = k
    BY <1>0, <1>2 DEF Without
  <2>2. \A i \in 1..Len(cache) : cache[i].key = k => i = n
    BY <1>0, <2>1 DEF CacheInOrder
  <2> HIDE DEF n
  <2> DEFINE p == SubSeq(cache, 1, n - 1)
             q == SubSeq(cache, n + 1, Len(cache))
  <2>3. p \in Seq(Entry) /\ Len(p) = n - 1 /\ \A i \in 1..(n - 1) : p[i] = cache[i]
    BY <1>0, <2>1
  <2>4. q \in Seq(Entry) /\ Len(q) = Len(cache) - n /\ \A i \in 1..(Len(cache) - n) : q[i] = cache[i + n]
    <3>1. n + 1 \in 1..(Len(cache) + 1) /\ Len(cache) \in ((n + 1) - 1)..Len(cache) /\ (Len(cache) - (n + 1)) + 1 = Len(cache) - n
      BY <1>0, <2>1
    <3>2. q \in Seq(Entry) /\ Len(q) = (Len(cache) - (n + 1)) + 1 /\ \A i \in 1..((Len(cache) - (n + 1)) + 1) : q[i] = cache[(n + 1) + i - 1]
      BY <1>0, <3>1, SubSeqProperties
    <3>3. \A i \in 1..(Len(cache) - n) : (n + 1) + i - 1 = i + n
      BY <1>0, <2>1
    <3> QED  BY <3>1, <3>2, <3>3
  <2> HIDE DEF p, q
  <2>5. w \in Seq(Entry) /\ Len(w) = Len(cache) - 1 /\ DOMAIN w = 1..(Len(cache) - 1)
    <3>1. p \o q \in Seq(Entry) /\ Len(p \o q) = Len(p) + Len(q) /\ DOMAIN (p \o q) = 1..Len(p \o q)
      BY <2>3, <2>4, ConcatProperties, LenProperties
    <3>2. (n - 1) + (Len(cache) - n) = Len(cache) - 1
      BY <1>0, <2>1
    <3> QED  BY <2>3, <2>4, <3>1, <3>2 DEF p, q
  <2>6. ASSUME NEW i \in 1..(Len(cache) - 1)
        PROVE  (i < n => w[i] = cache[i]) /\ (~(i < n) => w[i] = cache[i + 1])
    <3>1. w[i] = IF i <= n - 1 THEN p[i] ELSE q[i - (n - 1)]
      <4>1. i \in 1..(Len(p) + Len(q))
        BY <1>0, <2>1, <2>3, <2>4
      <4> QED  BY SMTT(30), <2>3, <2>4, <4>1, ConcatProperties DEF p, q
    <3>2. CASE i < n
      <4>1. i \in 1..(n - 1) /\ i <= n - 1
        BY <1>0, <2>1, <3>2
      <4> QED  BY <2>3, <3>1, <3>2, <4>1
    <3>3. CASE ~(i < n)
      <4>1. i - (n - 1) \in 1..(Len(cache) - n) /\ ~(i <= n - 1) /\ (i - (n - 1)) + n = i + 1
        BY <1>0, <2>1, <3>3
      <4> QED  BY <2>4, <3>1, <3>3, <4>1
    <3> QED  BY <3>2, <3>3
  <2>7. ASSUME NEW i \in 1..(Len(cache) - 1)
        PROVE  \E m \in DOMAIN cache : w[i] = cache[m] /\ cache[m].key # k /\ m = IF i < n THEN i ELSE i + 1
    <3>1. CASE i < n
      <4>1. i \in 1..Len(cache) /\ i # n
        BY <1>0, <2>1, <3>1
      <4> QED  BY <1>0, <2>2, <2>6, <3>1, <4>1
    <3>2. CASE ~(i < n)
      <4>1. i + 1 \in 1..Len(cache) /\ i + 1 # n
        BY <1>0, <2>1, <3>2
      <4> QED  BY <1>0, <2>2, <2>6, <3>2, <4>1
    <3> QED  BY <3>1, <3>2
  <2>8. ASSUME NEW i \in 1..(Len(cache) - 1), NEW j \in 1..(Len(cache) - 1), w[i].key = w[j].key
        PROVE  i = j
    <3>1. PICK m \in DOMAIN cache : w[i] = cache[m] /\ m = IF i < n THEN i ELSE i + 1
      BY <2>7
    <3>2. PICK l \in DOMAIN cache : w[j] = cache[l] /\ l = IF j < n THEN j ELSE j + 1
      BY <2>7
    <3>3. m = l
      BY <2>8, <3>1, <3>2 DEF CacheInOrder
    <3> QED  BY <1>0, <2>1, <3>1, <3>2, <3>3
  <2> HIDE DEF w
  <2>9. \A i \in DOMAIN w : \E m \in DOMAIN cache : w[i] = cache[m] /\ cache[m].key # k
    BY <2>5, <2>7
  <2> QED  BY <1>0, <2>1, <2>5, <2>8, <2>9
<1> QED  BY <1>1, <1>2

\* Putting an entry at the end of the others.
LEMMA StoredLast ==
  ASSUME TypeOK, CacheInOrder, NEW e \in Entry, e.expires <= now + Ttl, NEW new, new = Append(Without(e.key), e)
  PROVE  /\ new \in Seq(Entry) /\ Len(new) = Len(Without(e.key)) + 1
         /\ \A i, j \in DOMAIN new : new[i].key = new[j].key => i = j
         /\ \A i \in DOMAIN new : new[i].expires <= now + Ttl
<1> DEFINE w == Without(e.key)
<1>1. /\ w \in Seq(Entry) /\ Len(w) \in Nat /\ DOMAIN w = 1..Len(w)
      /\ \A i \in DOMAIN w : \E m \in DOMAIN cache : w[i] = cache[m] /\ cache[m].key # e.key
      /\ \A i, j \in DOMAIN w : w[i].key = w[j].key => i = j
  BY WithoutFacts, LenProperties
<1>2. \A i \in DOMAIN w : w[i].key # e.key /\ w[i].expires <= now + Ttl
  BY <1>1 DEF CacheInOrder
<1> HIDE DEF w
<1>3. new \in Seq(Entry) /\ Len(new) = Len(w) + 1 /\ DOMAIN new = 1..(Len(w) + 1)
  BY <1>1, AppendProperties, LenProperties DEF w
<1>4. (\A i \in 1..Len(w) : new[i] = w[i]) /\ new[Len(w) + 1] = e
  BY <1>1, AppendProperties DEF w
<1>5. \A i \in DOMAIN new : i \in DOMAIN w \/ i = Len(w) + 1
  BY <1>1, <1>3
<1> QED  BY <1>1, <1>2, <1>3, <1>4, <1>5 DEF w

\* The cache after set: within its limit, one entry for a key.
LEMMA CacheAfterSet ==
  ASSUME TypeOK, CacheInOrder, NEW k \in Keys, NEW m \in BOOLEAN
  PROVE  /\ SetCache(k, m) \in Seq(Entry) /\ Len(SetCache(k, m)) <= MaxEntries
         /\ \A i, j \in DOMAIN SetCache(k, m) : SetCache(k, m)[i].key = SetCache(k, m)[j].key => i = j
         /\ \A i \in DOMAIN SetCache(k, m) : SetCache(k, m)[i].expires <= now + Ttl
<1> DEFINE e   == [key |-> k, expires |-> now + Ttl, markable |-> m]
           new == Append(Without(k), e)
<1>1. CASE Ttl = 0
  BY <1>1 DEF SetCache, TypeOK, CacheInOrder
<1>2. CASE Ttl # 0
  <2>0. Len(cache) \in Nat /\ MaxEntries \in Nat \ {0} /\ Len(cache) <= MaxEntries /\ Ttl \in Nat
    BY CacheSettings, LenProperties DEF TypeOK
  <2>1. e \in Entry /\ e.key = k /\ e.expires <= now + Ttl
    BY <2>0, ClockSettings DEF Entry, TypeOK, Time
  <2>2. new = Append(Without(e.key), e)
    BY <2>1
  <2>3. SetCache(k, m) = IF Len(new) > MaxEntries THEN Tail(new) ELSE new
    BY <1>2 DEF SetCache
  <2>4. Without(k) \in Seq(Entry) /\ Len(Without(k)) \in Nat /\ Len(Without(k)) <= Len(cache)
    BY WithoutFacts, LenProperties
  <2> HIDE DEF new, e
  <2>5. /\ new \in Seq(Entry) /\ Len(new) = Len(Without(k)) + 1 /\ DOMAIN new = 1..Len(new)
        /\ \A i, j \in DOMAIN new : new[i].key = new[j].key => i = j
        /\ \A i \in DOMAIN new : new[i].expires <= now + Ttl
    <3>1. /\ new \in Seq(Entry) /\ Len(new) = Len(Without(k)) + 1
          /\ \A i, j \in DOMAIN new : new[i].key = new[j].key => i = j
          /\ \A i \in DOMAIN new : new[i].expires <= now + Ttl
      BY <2>1, <2>2, StoredLast
    <3> QED  BY <3>1, LenProperties
  <2>6. CASE ~(Len(new) > MaxEntries)
    BY <2>0, <2>3, <2>4, <2>5, <2>6
  <2>7. CASE Len(new) > MaxEntries
    <3> DEFINE s == Tail(new)
    <3>1. s \in Seq(Entry) /\ Len(s) = Len(new) - 1 /\ \A i \in 1..Len(s) : s[i] = new[i + 1]
      BY <2>0, <2>4, <2>5, <2>7
    <3>2. DOMAIN s = 1..(Len(new) - 1) /\ \A i \in DOMAIN s : i + 1 \in DOMAIN new /\ s[i] = new[i + 1]
      BY <2>4, <2>5, <3>1, LenProperties
    <3>3. Len(s) <= MaxEntries
      BY <2>0, <2>4, <2>5, <3>1
    <3> HIDE DEF s
    <3>4. \A i, j \in DOMAIN s : s[i].key = s[j].key => i = j
      <4>1. ASSUME NEW i \in DOMAIN s, NEW j \in DOMAIN s, s[i].key = s[j].key
            PROVE  i = j
        <5>1. i + 1 = j + 1
          BY <2>5, <3>2, <4>1
        <5>2. i \in Int /\ j \in Int
          BY <2>4, <2>5, <3>2
        <5> QED  BY <5>1, <5>2
      <4> QED  BY <4>1
    <3>5. \A i \in DOMAIN s : s[i].expires <= now + Ttl
      BY <2>5, <3>2
    <3> QED  BY <2>3, <2>7, <3>1, <3>3, <3>4, <3>5 DEF s
  <2> QED  BY <2>6, <2>7
<1> QED  BY <1>1, <1>2

\* Whoever is answered from the cache is told how old the entry is.
LEMMA EntryAge ==
  ASSUME TypeOK, CacheInOrder, NEW k \in Keys, NEW e \in Entries(k)
  PROVE  /\ e \in Entry /\ e.key = k /\ e.expires <= now + Ttl /\ Age(e) \in Nat
         /\ now < e.expires => Age(e) < Ttl
<1>1. PICK i \in DOMAIN cache : e = cache[i] /\ e.key = k
  BY DEF Entries
<1>2. e \in Entry
  BY <1>1, LenProperties DEF TypeOK
<1>3. e.expires \in Nat /\ e.expires <= now + Ttl /\ now \in Nat /\ Ttl \in Nat
  BY <1>1, <1>2, CacheSettings, ClockSettings DEF Entry, CacheInOrder, TypeOK, Time
<1> QED  BY <1>1, <1>2, <1>3 DEF Age

\* A degraded answer that can carry the mark carries it.
LEMMA DegradedAnswer ==
  ASSUME TypeOK, CacheInOrder, LiveIsFresh, NEW c \in Callers, Degrade(c)
  PROVE  answer' \in [Callers -> Answer] /\ LiveIsFresh'
<1> DEFINE k == key[c]
<1>0. k \in Keys
  BY DEF TypeOK
<1>1. PICK r \in Answer : /\ answer' = [answer EXCEPT ![c] = r]
                          /\ r.kind = "live" => ~r.markable
  <2>1. CASE Entries(k) = {}
    <3>1. /\ [kind |-> "failed", age |-> 0, markable |-> TRUE] \in Answer
          /\ [kind |-> "failed", age |-> 0, markable |-> TRUE].kind # "live"
      BY DEF Answer
    <3>2. answer' = [answer EXCEPT ![c] = [kind |-> "failed", age |-> 0, markable |-> TRUE]]
      BY <2>1 DEF Degrade
    <3> QED  BY <3>1, <3>2
  <2>2. CASE Entries(k) # {}
    <3>1. PICK e \in Entries(k) : e = CHOOSE x \in Entries(k) : TRUE
      BY <2>2
    <3>2. Age(e) \in Nat /\ e.markable \in BOOLEAN
      BY <1>0, EntryAge DEF Entry
    <3> DEFINE r == [kind |-> IF e.markable THEN "stale" ELSE "live",
                     age |-> Age(e), markable |-> e.markable]
    <3>3. answer' = [answer EXCEPT ![c] = r]
      BY <2>2, <3>1 DEF Degrade
    <3>4. r \in Answer
      BY <3>2 DEF Answer
    <3>5. r.kind = "live" => ~r.markable
      BY <3>2
    <3> HIDE DEF r
    <3> QED  BY <3>3, <3>4, <3>5
  <2> QED  BY <2>1, <2>2
<1>3. answer' \in [Callers -> Answer]
  BY <1>1 DEF TypeOK
<1>4. \A d \in Callers : answer'[d] = answer[d] \/ answer'[d] = r
  BY <1>1 DEF TypeOK
<1> QED  BY <1>1, <1>3, <1>4 DEF LiveIsFresh

\* The guards keep their types, the bucket its capacity.
LEMMA GuardsBounded ==
  ASSUME GuardType, TypeOK, Next
  PROVE  /\ now' \in Time /\ failures' \in Nat /\ openedAt' \in Time \cup {Never} /\ halfOpen' \in BOOLEAN
         /\ tokens' \in 0..Capacity /\ updatedAt' \in Time
         /\ pc' \in [Callers -> PCs] /\ key' \in [Callers -> Keys]
         /\ probe' \in [Callers -> BOOLEAN] /\ since' \in [Callers -> Time] /\ admitted' \in Nat
<1>0. /\ failures' \in Nat /\ halfOpen' \in BOOLEAN /\ admitted' \in Nat
      /\ pc' \in [Callers -> PCs] /\ probe' \in [Callers -> BOOLEAN]
  BY GuardTypeStep DEF GuardType
<1>1. Refilled \in 0..Capacity
  BY RefilledType, BucketSettings DEF Refilled, Lesser, TypeOK
<1>2. now \in Time /\ tokens \in 0..Capacity /\ updatedAt \in Time /\ openedAt \in Time \cup {Never}
      /\ key \in [Callers -> Keys] /\ since \in [Callers -> Time]
  BY DEF TypeOK
<1> DEFINE Bounded ==
         /\ now' \in Time /\ openedAt' \in Time \cup {Never} /\ tokens' \in 0..Capacity /\ updatedAt' \in Time
         /\ key' \in [Callers -> Keys] /\ since' \in [Callers -> Time]
<1> SUFFICES Bounded
  BY <1>0
<1>3. ASSUME NEW c \in Callers, Quiet(c) \/ Allowed(c) \/ Escapes(c)
      PROVE  Bounded
  BY <1>2, <1>3
     DEF Quiet, CacheHit, CacheMiss, CircuitOpen, Store, Degrade, Allowed, Escapes, breaker, bucket
<1>4. ASSUME NEW c \in Callers, CallService(c)
      PROVE  Bounded
  <2>1. Refilled - Cost \in 0..Capacity
    BY <1>1, <1>4, BucketSettings DEF CallService
  <2> QED  BY <1>2, <1>4, <2>1 DEF CallService, breaker
<1>5. ASSUME NEW c \in Callers, RateLimited(c)
      PROVE  Bounded
  BY <1>1, <1>2, <1>5 DEF RateLimited, breaker
<1>6. ASSUME NEW c \in Callers, Succeeds(c)
      PROVE  Bounded
  BY <1>2, <1>6 DEF Succeeds, record_success, bucket
<1>7. ASSUME NEW c \in Callers, Fails(c)
      PROVE  Bounded
  BY <1>2, <1>7 DEF Fails, record_failure, bucket
<1>8. CASE Tick
  <2>1. now' \in Time
    BY <1>2, <1>8, ClockSettings DEF Tick, Time
  <2> QED  BY <1>2, <1>8, <2>1 DEF Tick, breaker, bucket, caller
<1> QED  BY <1>3, <1>4, <1>5, <1>6, <1>7, <1>8 DEF Next, Quiet

\* The cache and the answers under every step.
LEMMA CacheStep ==
  ASSUME GuardType, CacheInv, Next
  PROVE  CacheInv'
<1> DEFINE Kept ==
         /\ cache' \in Seq(Entry) /\ Len(cache') <= MaxEntries
         /\ answer' \in [Callers -> Answer]
         /\ CacheInOrder' /\ LiveIsFresh'
<1> SUFFICES Kept
  <2>1. TypeOK'
    BY GuardsBounded DEF CacheInv, TypeOK
  <2> QED  BY <2>1 DEF CacheInv
<1>0. TypeOK /\ CacheInOrder /\ LiveIsFresh
  BY DEF CacheInv
<1>1. cache' = cache /\ now' = now => cache' \in Seq(Entry) /\ Len(cache') <= MaxEntries /\ CacheInOrder'
  BY <1>0 DEF TypeOK, CacheInOrder
<1>2. answer' = answer => LiveIsFresh' /\ answer' \in [Callers -> Answer]
  BY <1>0 DEF TypeOK, LiveIsFresh
<1>3. ASSUME NEW c \in Callers, NEW r \in Answer, r.age = 0 \/ r.age < Ttl,
             answer' = [answer EXCEPT ![c] = r]
      PROVE  LiveIsFresh' /\ answer' \in [Callers -> Answer]
  <2>1. \A d \in Callers : answer'[d] = IF d = c THEN r ELSE answer[d]
    BY <1>0, <1>3 DEF TypeOK
  <2>2. LiveIsFresh'
    BY <1>0, <1>3, <2>1 DEF LiveIsFresh
  <2> QED  BY <1>0, <1>3, <2>2 DEF TypeOK
<1>4. ASSUME NEW c \in Callers, NEW k \in Keys, CacheHit(c, k)
      PROVE  Kept
  <2>1. PICK e \in Live(k) : /\ cache' = MoveToEnd(e) /\ now' = now
                             /\ answer' = [answer EXCEPT ![c] =
                                  [kind |-> "live", age |-> Age(e), markable |-> e.markable]]
    BY <1>4 DEF CacheHit
  <2>2. e \in Entries(k) /\ now < e.expires
    BY DEF Live
  <2>3. e \in Entry /\ e.key = k /\ e.expires <= now + Ttl /\ Age(e) \in Nat /\ Age(e) < Ttl
    BY <1>0, <2>2, EntryAge
  <2>4. cache' = Append(Without(e.key), e)
    BY <2>1 DEF MoveToEnd
  <2>5. /\ cache' \in Seq(Entry) /\ Len(cache') = Len(Without(e.key)) + 1
        /\ \A i, j \in DOMAIN cache' : cache'[i].key = cache'[j].key => i = j
        /\ \A i \in DOMAIN cache' : cache'[i].expires <= now + Ttl
    BY <1>0, <2>3, <2>4, StoredLast
  <2>6. Len(Without(e.key)) = Len(cache) - 1 /\ Len(cache) \in Nat /\ Len(cache) <= MaxEntries
    BY <1>0, <2>2, <2>3, WithoutFacts, LenProperties DEF TypeOK
  <2>7. Len(cache') <= MaxEntries
    BY <2>5, <2>6, CacheSettings
  <2>8. [kind |-> "live", age |-> Age(e), markable |-> e.markable] \in Answer
    BY <2>3 DEF Answer, Entry
  <2> QED  BY <1>3, <2>1, <2>3, <2>5, <2>7, <2>8 DEF CacheInOrder
<1>5. ASSUME NEW c \in Callers, Degrade(c)
      PROVE  Kept
  <2>1. cache' = cache /\ now' = now
    BY <1>5 DEF Degrade
  <2> QED  BY <1>0, <1>1, <1>5, <2>1, DegradedAnswer
<1>6. ASSUME NEW c \in Callers,
             (\E k \in Keys : CacheMiss(c, k)) \/ CircuitOpen(c) \/ Allowed(c)
      PROVE  Kept
  BY <1>1, <1>2, <1>6 DEF CacheMiss, CircuitOpen, Allowed
<1>7. ASSUME NEW c \in Callers, CallService(c) \/ RateLimited(c) \/ Succeeds(c) \/ Fails(c)
      PROVE  Kept
  BY <1>1, <1>2, <1>7 DEF CallService, RateLimited, Succeeds, Fails
<1>8. ASSUME NEW c \in Callers, Escapes(c)
      PROVE  Kept
  <2>1. NoAnswer \in Answer /\ NoAnswer.age = 0
    BY DEF NoAnswer, Answer
  <2>2. cache' = cache /\ now' = now /\ answer' = [answer EXCEPT ![c] = NoAnswer]
    BY <1>8 DEF Escapes
  <2> QED  BY <1>1, <1>3, <2>1, <2>2
<1>9. ASSUME NEW c \in Callers, Store(c)
      PROVE  Kept
  <2>1. PICK m \in Markable :
          /\ cache' = SetCache(key[c], m)
          /\ answer' = [answer EXCEPT ![c] = [kind |-> "live", age |-> 0, markable |-> m]]
    BY <1>9 DEF Store
  <2>2. key[c] \in Keys /\ now' = now /\ m \in BOOLEAN
    BY <1>0, <1>9, AnswerSettings DEF TypeOK, Store
  <2>3. /\ cache' \in Seq(Entry) /\ Len(cache') <= MaxEntries
        /\ \A i, j \in DOMAIN cache' : cache'[i].key = cache'[j].key => i = j
        /\ \A i \in DOMAIN cache' : cache'[i].expires <= now + Ttl
    BY <1>0, <2>1, <2>2, CacheAfterSet
  <2>4. [kind |-> "live", age |-> 0, markable |-> m] \in Answer
    BY <2>2 DEF Answer
  <2> QED  BY <1>3, <2>1, <2>2, <2>3, <2>4 DEF CacheInOrder
<1>10. CASE Tick
  <2>1. now' = now + 1 /\ cache' = cache /\ answer' = answer
    BY <1>10 DEF Tick, caller
  <2>2. \A i \in DOMAIN cache : cache[i].expires \in Nat
    <3>1. \A i \in DOMAIN cache : cache[i] \in Entry
      BY <1>0, LenProperties DEF TypeOK
    <3> QED  BY <3>1 DEF Entry
  <2>3. CacheInOrder'
    BY <1>0, <2>1, <2>2, CacheSettings, ClockSettings DEF CacheInOrder, TypeOK, Time
  <2> QED  BY <1>0, <1>2, <2>1, <2>3 DEF TypeOK
<1> QED  BY <1>4, <1>5, <1>6, <1>7, <1>8, <1>9, <1>10 DEF Next

\* Whatever the callers ask for and however they overlap: the bucket stays within its
\* capacity, the cache within max_entries with one entry for a key, and a reputation or
\* CVE record that is not marked stale is younger than ttl_seconds (TtlCache,
\* RateLimiter, _degrade).  Of advisories and empty results it says nothing: they are
\* served from the expired cache without a mark.
THEOREM CacheIsSound == Spec => []CacheInv
<1>1. Init => CacheInv
  <2> SUFFICES ASSUME Init PROVE CacheInv
    OBVIOUS
  <2>1. cache \in Seq(Entry) /\ Len(cache) = 0 /\ DOMAIN cache = {}
    BY DEF Init
  <2>2. now \in Time /\ updatedAt \in Time /\ since \in [Callers -> Time] /\ tokens \in 0..Capacity
    BY BucketSettings, ClockSettings DEF Init, Time
  <2>3. halfOpen \in BOOLEAN /\ probe \in [Callers -> BOOLEAN]
    BY DEF Init
  <2>4. answer \in [Callers -> Answer] /\ \A c \in Callers : answer[c].kind = "none"
    <3>1. NoAnswer \in Answer /\ NoAnswer.kind = "none"
      BY DEF NoAnswer, Answer
    <3> QED  BY <3>1 DEF Init
  <2>5. TypeOK
    BY <2>1, <2>2, <2>3, <2>4, CacheSettings DEF Init, TypeOK, PCs
  <2> QED  BY <2>1, <2>4, <2>5 DEF CacheInv, CacheInOrder, LiveIsFresh
<1>2. GuardType /\ CacheInv /\ [Next]_vars => CacheInv'
  <2>1. CacheInv /\ UNCHANGED vars => CacheInv'
    <3> SUFFICES ASSUME CacheInv, UNCHANGED vars PROVE CacheInv'
      OBVIOUS
    <3>1. TypeOK'
      BY DEF CacheInv, TypeOK, vars, breaker, bucket, caller
    <3>2. CacheInOrder' /\ LiveIsFresh'
      BY DEF CacheInv, CacheInOrder, LiveIsFresh, vars, caller
    <3> QED  BY <3>1, <3>2 DEF CacheInv
  <2> QED  BY <2>1, CacheStep
<1> QED  BY <1>1, <1>2, GuardTypeCorrect, PTL DEF Spec
==============================================================================
