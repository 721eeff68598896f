---------------------------- MODULE MemoryProofs ----------------------------
(***************************************************************************)
(* The memory tiers, for any number of processes and keys and every budget.*)
(***************************************************************************)
EXTENDS Memory, FiniteSetTheorems, SequenceTheorems, WellFoundedInduction, TLAPS

\* A set of numbers within bounds has a greatest.
LEMMA MaxIn ==
  ASSUME NEW N \in Nat, NEW S, S \subseteq 0..N, S # {}
  PROVE  Max(S) \in S /\ \A y \in S : y <= Max(S)
<1> DEFINE T == {N - i : i \in S}
<1>1. T \subseteq Nat /\ T # {}
  <2>1. PICK i : i \in S
    OBVIOUS
  <2>2. N - i \in T
    BY <2>1
  <2>3. \A j \in S : N - j \in Nat
    OBVIOUS
  <2> QED  BY <2>2, <2>3
<1>2. PICK x \in T : \A y \in T : ~(<<y, x>> \in OpToRel(<, Nat))
  BY <1>1, WFMin, NatLessThanWellFounded
<1>3. \A y \in T : x <= y
  <2>1. \A y \in T : y \in Nat
    BY <1>1
  <2>2. \A y \in T : ~(y < x)
    BY <1>2, <2>1 DEF OpToRel
  <2> HIDE DEF T
  <2> QED  BY <2>1, <2>2
<1>4. PICK m \in S : x = N - m
  OBVIOUS
<1>5. m \in S /\ \A y \in S : m >= y
  BY <1>3, <1>4
<1> QED  BY <1>5 DEF Max

-----------------------------------------------------------------------------
(***************************************************************************)
(* The budgets.                                                            *)
(***************************************************************************)

\* What enforce_budget takes out of working memory it names.
LEMMA EnforceNames ==
  ASSUME TypeOK, NEW entries \in Seq(Keys), enforce_budget(entries)
  PROVE  /\ working' \in Seq(Keys) /\ Len(working') <= MaxEntries
         /\ summaries' \in Seq(SUBSET Keys)
         /\ ToSet(working') \cup UNION ToSet(summaries')
              = ToSet(entries) \cup UNION ToSet(summaries)
<1> DEFINE n    == Len(entries)
           fits == {i \in 0..n : /\ i <= MaxEntries
                                 /\ i > 1 => i * EntryTokens + Len(summaries) * SummaryTokens
                                               <= TokenBudget}
           kept == Max(fits)
           out  == {entries[i] : i \in 1..(n - kept)}
<1>1. n \in Nat /\ MaxEntries \in Nat
  BY MemoryConstants
<1>2. kept \in 0..n /\ kept <= MaxEntries
  <2>1. 0 \in fits /\ fits \subseteq 0..n
    BY <1>1
  <2>2. kept \in fits
    BY <1>1, <2>1, MaxIn
  <2> QED  BY <2>2
<1>3. working' = SubSeq(entries, n - kept + 1, n) /\ summaries' = summaries \o summarize(out)
  BY DEF enforce_budget
<1> HIDE DEF kept
<1>4. /\ working' \in Seq(Keys) /\ Len(working') = kept
      /\ \A i \in 1..kept : working'[i] = entries[n - kept + i]
  <2>1. n - kept + 1 \in Int /\ n \in Int /\ n - (n - kept + 1) + 1 = kept
    BY <1>1, <1>2
  <2>2. \A i \in (n - kept + 1)..n : entries[i] \in Keys
    BY <1>1, <1>2
  <2>3. /\ working' \in Seq(Keys)
        /\ Len(working') = IF n - kept + 1 <= n THEN n - (n - kept + 1) + 1 ELSE 0
        /\ \A i \in 1..(n - (n - kept + 1) + 1) : working'[i] = entries[(n - kept + 1) + i - 1]
    BY <1>3, <2>1, <2>2, SubSeqProperties
  <2>4. Len(working') = kept
    BY <1>1, <1>2, <2>3
  <2>5. \A i \in 1..kept : (n - kept + 1) + i - 1 = n - kept + i
    BY <1>1, <1>2
  <2> QED  BY <2>1, <2>3, <2>4, <2>5
<1>5. ToSet(working') \cup out = ToSet(entries)
  <2>1. \A x \in ToSet(working') : x \in ToSet(entries)
    BY SMTT(30), <1>1, <1>2, <1>4 DEF ToSet
  <2>2. \A x \in out : x \in ToSet(entries)
    BY <1>1, <1>2 DEF ToSet
  <2>3. ASSUME NEW i \in 1..n
        PROVE  entries[i] \in ToSet(working') \cup out
    <3>1. CASE i <= n - kept
      BY <1>1, <1>2, <3>1
    <3>2. CASE i > n - kept
      <4>1. i - (n - kept) \in 1..kept /\ entries[i] = working'[i - (n - kept)]
        BY <1>1, <1>2, <1>4, <3>2
      <4> QED  BY <1>4, <4>1 DEF ToSet
    <3> QED  BY <1>1, <1>2, <3>1, <3>2
  <2>4. ToSet(entries) = {entries[i] : i \in 1..n}
    BY DEF ToSet
  <2> HIDE DEF out
  <2>5. \A x \in ToSet(entries) : x \in ToSet(working') \cup out
    BY <2>3, <2>4
  <2> QED  BY <2>1, <2>2, <2>5
<1>6. out \in SUBSET Keys
  BY <1>1, <1>2
<1> HIDE DEF out
<1>7. summaries' \in Seq(SUBSET Keys) /\ UNION ToSet(summaries') = out \cup UNION ToSet(summaries)
  <2>1. CASE out = {}
    BY <1>3, <2>1 DEF summarize, TypeOK
  <2>2. CASE out # {}
    <3>1. summaries' = Append(summaries, out)
      BY <1>3, <2>2 DEF summarize, TypeOK
    <3>2. ToSet(summaries') = ToSet(summaries) \cup {out}
      <4>1. summaries \in Seq(SUBSET Keys)
        BY DEF TypeOK
      <4>2. /\ Len(summaries') = Len(summaries) + 1 /\ Len(summaries) \in Nat
            /\ \A i \in 1..Len(summaries) : summaries'[i] = summaries[i]
            /\ summaries'[Len(summaries) + 1] = out
            /\ summaries' \in Seq(SUBSET Keys)
        BY <1>6, <3>1, <4>1, AppendProperties
      <4>3. DOMAIN summaries' = 1..(Len(summaries) + 1) /\ DOMAIN summaries = 1..Len(summaries)
        BY <4>1, <4>2
      <4>4. \A x : x \in ToSet(summaries') <=> x \in ToSet(summaries) \/ x = out
        BY <4>2, <4>3 DEF ToSet
      <4> QED  BY <4>4
    <3> QED  BY <1>6, <3>1, <3>2 DEF TypeOK
  <2> QED  BY <2>1, <2>2
<1> QED  BY <1>1, <1>2, <1>4, <1>5, <1>7

\* What fit_to_budget cuts from the session it names; it cuts only what does not fit,
\* and what it leaves fits.
LEMMA FitNames ==
  ASSUME NEW S \in SUBSET Keys, NEW fixed \in Nat
  PROVE  LET f == fit_to_budget(S, fixed)
         IN  /\ S = f.session \cup f.named
             /\ f.session = {} \/ f.tokens <= TokenBudget + SummaryTokens
             /\ f.named # {} => fixed + Cardinality(S) * EntryTokens > TokenBudget
<1> DEFINE C    == Cardinality(S)
           fits == {i \in 0..C : i = 0 \/ fixed + i * EntryTokens <= TokenBudget}
           n    == Retained(S, fixed)
           Up(k) == {j \in S : j >= k}
           cut  == S \ LastOf(S, n)
<1>1. IsFiniteSet(S) /\ C \in Nat
  BY MemoryConstants, FS_Subset, FS_CardinalityType
<1>2. \A k \in S : IsFiniteSet(Up(k)) /\ Cardinality(Up(k)) \in Nat /\ Cardinality(Up(k)) <= C
  BY <1>1, FS_Subset, FS_CardinalityType
<1>3. \A k \in S : Cardinality(Up(k)) # 0
  <2>1. ASSUME NEW k \in S
        PROVE  k \in Up(k)
    <3>1. k \in Nat
      BY MemoryConstants
    <3> QED  BY <3>1
  <2> QED  BY <1>2, <2>1, FS_EmptySet
<1>4. n \in fits /\ \A y \in fits : y <= n
  <2>1. 0 \in fits /\ fits \subseteq 0..C
    BY <1>1
  <2> QED  BY <1>1, <2>1, MaxIn DEF Retained
<1>5. n \in 0..C /\ (n = 0 \/ fixed + n * EntryTokens <= TokenBudget)
  BY <1>4
<1>6. n < C => fixed + C * EntryTokens > TokenBudget
  <2> SUFFICES ASSUME n < C
               PROVE  ~(fixed + C * EntryTokens <= TokenBudget)
    <3>1. C * EntryTokens \in Nat /\ TokenBudget \in Nat
      BY <1>1, MemoryConstants
    <3> QED  BY <1>1, <3>1
  <2>1. C \notin fits
    BY <1>1, <1>4, <1>5
  <2> QED  BY <1>1, <2>1
<1> HIDE DEF n, C
<1>7. n = 0 => LastOf(S, n) = {}
  BY <1>2, <1>3 DEF LastOf
<1>8. cut # {} => n < C
  <2> SUFFICES ASSUME NEW k \in cut
               PROVE  n < C
    OBVIOUS
  <2>1. k \in S /\ ~(Cardinality(Up(k)) <= n)
    BY DEF LastOf
  <2> HIDE DEF Up, cut
  <2> QED  BY <1>1, <1>2, <1>5, <2>1
<1>9. UNION ToSet(summarize(cut)) = cut /\ Len(summarize(cut)) \in {0, 1}
  <2> HIDE DEF cut
  <2>1. CASE cut = {}
    BY <2>1 DEF summarize, ToSet
  <2>2. CASE cut # {}
    BY <2>2 DEF summarize, ToSet
  <2> QED  BY <2>1, <2>2
<1> DEFINE f == fit_to_budget(S, fixed)
<1>10. /\ f.session = LastOf(S, n) /\ f.named = cut
       /\ f.tokens = fixed + n * EntryTokens + Len(summarize(cut)) * SummaryTokens
  BY <1>9 DEF fit_to_budget, n
<1>11. f.session = {} \/ f.tokens <= TokenBudget + SummaryTokens
  <2>1. SummaryTokens \in Nat /\ TokenBudget \in Nat /\ n * EntryTokens \in Nat
    BY <1>1, <1>5, MemoryConstants
  <2>2. Len(summarize(cut)) * SummaryTokens <= SummaryTokens
    <3> DEFINE c == Len(summarize(cut))
    <3>1. c \in {0, 1}
      BY <1>9
    <3> HIDE DEF c
    <3>2. c * SummaryTokens <= SummaryTokens
      BY <2>1, <3>1
    <3> QED  BY <3>2 DEF c
  <2>3. Len(summarize(cut)) * SummaryTokens \in Nat
    BY <1>9, <2>1
  <2>4. CASE n = 0
    BY <1>7, <1>10, <2>4
  <2>5. CASE fixed + n * EntryTokens <= TokenBudget
    <3> HIDE DEF cut, f
    <3> QED  BY <1>10, <2>1, <2>2, <2>3, <2>5
  <2> QED  BY <1>5, <2>4, <2>5
<1>12. S = f.session \cup f.named
  BY <1>10 DEF LastOf
<1>13. f.named # {} => fixed + C * EntryTokens > TokenBudget
  BY <1>6, <1>8, <1>10
<1> QED  BY <1>11, <1>12, <1>13 DEF C

-----------------------------------------------------------------------------
(***************************************************************************)
(* The session memory.                                                     *)
(***************************************************************************)

\* A step of process p that commits nothing keeps the durable store the truth, if what
\* it leaves in the hot store and on its way there is committed.
LEMMA Moves ==
  ASSUME DurableIsTruth, NEW p \in Procs, NEW op \in Operation, Goes(p, op), OnItsWay(op),
         UNCHANGED <<durable, written, agent>>,
         hot' \in [Keys -> 0..MaxRevision], \A k \in Keys : hot'[k] <= durable[k],
         ttl' \in BOOLEAN, indexed' \in BOOLEAN
  PROVE  DurableIsTruth'
<1> USE DEF DurableIsTruth
<1>1. proc' = [proc EXCEPT ![p] = op] /\ proc \in [Procs -> Operation]
  BY DEF Goes, TypeOK
<1>2. proc' \in [Procs -> Operation] /\ \A q \in Procs : proc'[q] = IF q = p THEN op ELSE proc[q]
  BY <1>1
<1>3. \A q \in Procs : OnItsWay(proc[q])'
  <2> SUFFICES ASSUME NEW q \in Procs
               PROVE  OnItsWay(proc[q])'
    OBVIOUS
  <2>1. OnItsWay(proc'[q])
    BY <1>2
  <2> QED  BY <2>1 DEF OnItsWay
<1>4. TypeOK'
  BY <1>2 DEF TypeOK, agent
<1> QED  BY <1>3, <1>4

\* Values the steps put into the operations, and the bounds of the revisions.
LEMMA Values ==
  /\ MaxRevision \in Nat
  /\ Cold \in [Keys -> 0..MaxRevision]
  /\ Idle \in Operation /\ Idle.pc = "idle"
  /\ \A op \in Operation :
       op.pc \notin {"insert", "latest", "publish", "refill", "rebuild", "expire_all"}
         => OnItsWay(op)
<1>1. MaxRevision \in Nat
  BY MemoryConstants
<1>2. Cold \in [Keys -> 0..MaxRevision]
  BY <1>1 DEF Cold
<1>3. Idle \in Operation /\ Idle.pc = "idle"
  BY <1>1, <1>2 DEF Idle, Operation
<1> QED  BY <1>1, <1>2, <1>3 DEF OnItsWay

\* The entry that a process sets in the hot store is committed.
LEMMA HotSetCommitted ==
  ASSUME DurableIsTruth, NEW k \in Keys, NEW rev \in 0..MaxRevision, rev <= durable[k],
         HotSet(k, rev)
  PROVE  /\ hot' \in [Keys -> 0..MaxRevision] /\ ttl' \in BOOLEAN
         /\ \A j \in Keys : hot'[j] <= durable[j]
BY DEF DurableIsTruth, TypeOK, HotSet

\* An insert under the unique constraint commits one revision and repeats none.
LEMMA AppendStep ==
  ASSUME DurableIsTruth, NEW p \in Procs, append(p)
  PROVE  DurableIsTruth'
<1> DEFINE k == proc[p].key
           n == proc[p].rev
<1>1. /\ k \in Keys /\ n \in 1..MaxRevision /\ n = durable[k] + 1
      /\ proc[p] \in Operation /\ proc[p].pc = "insert"
  <2>1. proc[p] \in Operation /\ proc[p].pc = "insert" /\ OnItsWay(proc[p])
    BY DEF DurableIsTruth, TypeOK, append, At
  <2>2. k \in Keys /\ n > 0
    BY <2>1 DEF OnItsWay
  <2>3. n \in 0..MaxRevision
    BY <2>1 DEF Operation
  <2> QED  BY <2>1, <2>2, <2>3, Values DEF append, UniqueRevision
<1>2. /\ durable' = [durable EXCEPT ![k] = n]
      /\ written' = [written EXCEPT ![<<k, n>>] = @ + 1]
      /\ proc' = [proc EXCEPT ![p] = [proc[p] EXCEPT !.pc = "publish"]]
      /\ UNCHANGED <<hot, ttl, indexed, agent>>
  BY DEF append, Goes
<1>3. /\ durable \in [Keys -> 0..MaxRevision] /\ hot \in [Keys -> 0..MaxRevision]
      /\ written \in [Keys \X (1..MaxRevision) -> Nat]
      /\ proc \in [Procs -> Operation]
      /\ \A j \in Keys : hot[j] <= durable[j]
      /\ \A j \in Keys : \A m \in 1..MaxRevision :
           written[<<j, m>>] = IF m <= durable[j] THEN 1 ELSE 0
      /\ \A q \in Procs : OnItsWay(proc[q])
  BY DEF DurableIsTruth, TypeOK
<1>4. /\ [proc[p] EXCEPT !.pc = "publish"] \in Operation
      /\ [proc[p] EXCEPT !.pc = "publish"].pc = "publish"
      /\ [proc[p] EXCEPT !.pc = "publish"].key = k
      /\ [proc[p] EXCEPT !.pc = "publish"].rev = n
  BY <1>1 DEF Operation
<1> HIDE DEF k, n
<1>5. durable' \in [Keys -> 0..MaxRevision] /\ \A j \in Keys : durable[j] <= durable'[j]
  BY <1>1, <1>2, <1>3, Values
<1>6. durable'[k] = n /\ \A j \in Keys \ {k} : durable'[j] = durable[j]
  BY <1>1, <1>2, <1>3
<1>7. written' \in [Keys \X (1..MaxRevision) -> Nat]
  BY <1>1, <1>2, <1>3
<1>8. ASSUME NEW j \in Keys, NEW m \in 1..MaxRevision
      PROVE  written'[<<j, m>>] = IF m <= durable'[j] THEN 1 ELSE 0
  <2>1. CASE j = k /\ m = n
    <3>1. written'[<<j, m>>] = written[<<k, n>>] + 1 /\ written[<<k, n>>] = 0
      BY <1>1, <1>2, <1>3, <2>1, Values
    <3> QED  BY <1>1, <1>6, <2>1, <3>1
  <2>2. CASE j # k
    <3>1. written'[<<j, m>>] = written[<<j, m>>]
      BY <1>1, <1>2, <1>3, <2>2
    <3> QED  BY <1>3, <1>6, <2>2, <3>1
  <2>3. CASE j = k /\ m # n
    <3>1. written'[<<j, m>>] = written[<<j, m>>]
      BY <1>1, <1>2, <1>3, <2>3
    <3>2. m <= durable[k] <=> m <= n
      BY <1>1, <1>3, <2>3, Values
    <3> QED  BY <1>3, <1>6, <2>3, <3>1, <3>2
  <2> QED  BY <2>1, <2>2, <2>3
<1>9. \A j \in Keys : hot'[j] <= durable'[j]
  BY <1>2, <1>3, <1>5, Values
<1>10. proc' \in [Procs -> Operation]
  BY <1>2, <1>3, <1>4
<1>11. \A q \in Procs : OnItsWay(proc[q])'
  <2> SUFFICES ASSUME NEW q \in Procs
               PROVE  OnItsWay(proc[q])'
    OBVIOUS
  <2>1. CASE q = p
    <3>1. proc'[q].pc = "publish" /\ proc'[q].key = k /\ proc'[q].rev = n
      BY <1>2, <1>3, <1>4, <2>1
    <3> QED  BY <1>1, <1>6, <3>1 DEF OnItsWay
  <2>2. CASE q # p
    <3>1. proc'[q] = proc[q] /\ proc[q] \in Operation /\ OnItsWay(proc[q])
      BY <1>2, <1>3, <2>2
    <3>2. proc[q].rev \in 0..MaxRevision
      BY <3>1 DEF Operation
    <3>3. proc[q].pc \in {"publish", "refill"} => proc[q].key \in Keys /\ proc[q].rev <= durable'[proc[q].key]
      BY <1>3, <1>5, <3>1, <3>2, Values DEF OnItsWay
    <3>4. proc[q].pc \in {"rebuild", "expire_all"} => /\ proc[q].got \in [Keys -> 0..MaxRevision]
                                    /\ \A j \in Keys : proc[q].got[j] <= durable'[j]
      BY <1>3, <1>5, <3>1, Values DEF OnItsWay
    <3> QED  BY <3>1, <3>3, <3>4 DEF OnItsWay
  <2> QED  BY <2>1, <2>2
<1>12. TypeOK'
  BY <1>2, <1>5, <1>7, <1>10 DEF TypeOK, DurableIsTruth, agent
<1> QED  BY <1>8, <1>9, <1>11, <1>12 DEF DurableIsTruth

\* The steps that end an operation, or go on with it, without a store command.
LEMMA QuietStep ==
  ASSUME DurableIsTruth, NEW p \in Procs,
         \/ append_conflicts(p) \/ publish_fails(p) \/ refill_fails(p) \/ expire_fails(p)
         \/ evict_fails(p) \/ rebuild_ends(p) \/ session_fails(p) \/ materialize_context(p)
         \/ read_all_misses(p) \/ assemble(p)
  PROVE  DurableIsTruth'
<1>1. PICK op \in Operation :
        /\ Goes(p, op)
        /\ op.pc \notin {"insert", "latest", "publish", "refill", "rebuild", "expire_all"}
  <2>1. proc[p] \in Operation /\ hot \in [Keys -> 0..MaxRevision]
    BY DEF DurableIsTruth, TypeOK
  <2>2. CASE \/ append_conflicts(p) \/ publish_fails(p) \/ refill_fails(p) \/ expire_fails(p)
             \/ evict_fails(p) \/ assemble(p)
    BY <2>2, Values DEF append_conflicts, publish_fails, refill_fails, expire_fails, evict_fails,
         assemble, Ends
  <2>3. CASE rebuild_ends(p)
    <3>1. [proc[p] EXCEPT !.pc = "assemble"] \in Operation
      BY <2>1 DEF Operation
    <3>2. [proc[p] EXCEPT !.pc = "assemble"].pc = "assemble"
      BY <2>1 DEF Operation
    <3> QED  BY <2>3, <3>1, <3>2 DEF rebuild_ends
  <2>4. CASE session_fails(p)
    <3>1. /\ [Idle EXCEPT !.pc = "assemble", !.got = None] \in Operation
          /\ [Idle EXCEPT !.pc = "assemble", !.got = None].pc = "assemble"
      BY Values DEF Operation
    <3> QED  BY <2>4, <3>1 DEF session_fails
  <2>5. CASE materialize_context(p)
    <3>1. /\ [Idle EXCEPT !.pc = "assemble", !.got = hot] \in Operation
          /\ [Idle EXCEPT !.pc = "assemble", !.got = hot].pc = "assemble"
      BY <2>1, Values DEF Operation
    <3> QED  BY <2>5, <3>1 DEF materialize_context
  <2>6. CASE read_all_misses(p)
    <3>1. /\ [Idle EXCEPT !.pc = "latest_all"] \in Operation
          /\ [Idle EXCEPT !.pc = "latest_all"].pc = "latest_all"
      BY Values DEF Operation
    <3> QED  BY <2>6, <3>1 DEF read_all_misses
  <2> QED  BY <2>2, <2>3, <2>4, <2>5, <2>6
<1>2. UNCHANGED <<store, agent>>
  BY DEF append_conflicts, publish_fails, refill_fails, expire_fails, evict_fails, rebuild_ends,
         session_fails, materialize_context, read_all_misses, assemble
<1>3. /\ UNCHANGED <<durable, written, agent>>
      /\ hot' \in [Keys -> 0..MaxRevision] /\ \A k \in Keys : hot'[k] <= durable[k]
      /\ ttl' \in BOOLEAN /\ indexed' \in BOOLEAN
  BY <1>2 DEF store, DurableIsTruth, TypeOK
<1>4. OnItsWay(op)
  BY <1>1, Values
<1> QED  BY <1>1, <1>3, <1>4, Moves

\* The steps that begin an operation or read the durable store for it.
LEMMA ReadStep ==
  ASSUME DurableIsTruth, NEW p \in Procs,
         \/ \E k \in Keys : write(p, k) \/ read(p, k)
         \/ latest(p) \/ rebuild(p)
  PROVE  DurableIsTruth'
<1>1. /\ durable \in [Keys -> 0..MaxRevision] /\ proc[p] \in Operation /\ OnItsWay(proc[p])
  BY DEF DurableIsTruth, TypeOK
<1>2. PICK op \in Operation : Goes(p, op) /\ OnItsWay(op)
  <2>1. ASSUME NEW k \in Keys, write(p, k)
        PROVE  \E op \in Operation : Goes(p, op) /\ OnItsWay(op)
    <3> DEFINE op == [Idle EXCEPT !.pc = "insert", !.key = k, !.rev = durable[k] + 1]
    <3>1. durable[k] + 1 \in 0..MaxRevision /\ durable[k] + 1 > 0
      <4>1. durable[k] \in 0..MaxRevision /\ durable[k] < MaxRevision
        BY <1>1, <2>1 DEF write
      <4> QED  BY <4>1, Values
    <3>2. op \in Operation /\ op.pc = "insert" /\ op.key = k /\ op.rev = durable[k] + 1
      BY <3>1, Values DEF Operation
    <3>3. OnItsWay(op)
      BY <3>1, <3>2 DEF OnItsWay
    <3> QED  BY <2>1, <3>2, <3>3 DEF write
  <2>2. ASSUME NEW k \in Keys, read(p, k)
        PROVE  \E op \in Operation : Goes(p, op) /\ OnItsWay(op)
    <3> DEFINE op == [Idle EXCEPT !.pc = "latest", !.key = k]
    <3>1. op \in Operation /\ op.pc = "latest" /\ op.key = k
      BY Values DEF Operation
    <3>2. OnItsWay(op)
      BY <3>1 DEF OnItsWay
    <3> QED  BY <2>2, <3>1, <3>2 DEF read
  <2>3. CASE latest(p)
    <3> DEFINE rev == durable[proc[p].key]
               op  == [proc[p] EXCEPT !.pc = "refill", !.rev = rev]
    <3>1. proc[p].key \in Keys /\ rev \in 0..MaxRevision
      BY <1>1, <2>3 DEF latest, At, OnItsWay
    <3>2. op \in Operation /\ op.pc = "refill" /\ op.key = proc[p].key /\ op.rev = rev
      BY <1>1, <3>1 DEF Operation
    <3>3. OnItsWay(op)
      BY <3>1, <3>2, Values DEF OnItsWay
    <3>4. Goes(p, Idle) \/ Goes(p, op)
      BY <2>3 DEF latest
    <3> HIDE DEF op
    <3> QED  BY <3>2, <3>3, <3>4, Values
  <2>4. CASE rebuild(p)
    <3> DEFINE op == [Idle EXCEPT !.pc = "rebuild", !.todo = Present(durable), !.got = durable]
    <3>1. Present(durable) \in SUBSET Keys
      BY DEF Present
    <3>2. op \in Operation /\ op.pc = "rebuild" /\ op.got = durable
      BY <1>1, <3>1, Values DEF Operation
    <3>3. OnItsWay(op)
      BY <1>1, <3>2, Values DEF OnItsWay
    <3> QED  BY <2>4, <3>2, <3>3 DEF rebuild
  <2> QED  BY <2>1, <2>2, <2>3, <2>4
<1>3. UNCHANGED <<store, agent>>
  BY DEF write, read, latest, rebuild
<1>4. /\ UNCHANGED <<durable, written, agent>>
      /\ hot' \in [Keys -> 0..MaxRevision] /\ \A k \in Keys : hot'[k] <= durable[k]
      /\ ttl' \in BOOLEAN /\ indexed' \in BOOLEAN
  BY <1>3 DEF store, DurableIsTruth, TypeOK
<1> QED  BY <1>2, <1>4, Moves

\* The steps that change the hot store.
LEMMA HotStep ==
  ASSUME DurableIsTruth, NEW p \in Procs,
         \/ publish(p) \/ refill(p) \/ expire(p) \/ rebuild_sets(p) \/ rebuild_expires(p)
         \/ evict_hot(p) \/ close_investigation(p)
  PROVE  DurableIsTruth'
<1>1. /\ durable \in [Keys -> 0..MaxRevision] /\ proc[p] \in Operation /\ OnItsWay(proc[p])
      /\ hot \in [Keys -> 0..MaxRevision] /\ \A k \in Keys : hot[k] <= durable[k]
      /\ ttl \in BOOLEAN /\ indexed \in BOOLEAN
  BY DEF DurableIsTruth, TypeOK
<1>2. CASE publish(p) \/ refill(p)
  <2> DEFINE op == [Idle EXCEPT !.pc = "expire"]
  <2>1. /\ proc[p].key \in Keys /\ proc[p].rev \in 0..MaxRevision
        /\ proc[p].rev <= durable[proc[p].key]
    BY <1>1, <1>2 DEF publish, refill, At, OnItsWay, Operation
  <2>2. /\ HotSet(proc[p].key, proc[p].rev) /\ Goes(p, op)
        /\ UNCHANGED <<durable, indexed, written, agent>>
    BY <1>2 DEF publish, refill
  <2>3. op \in Operation /\ op.pc = "expire"
    BY Values DEF Operation
  <2>4. /\ hot' \in [Keys -> 0..MaxRevision] /\ ttl' \in BOOLEAN
        /\ \A j \in Keys : hot'[j] <= durable[j]
    BY <2>1, <2>2, HotSetCommitted
  <2>5. OnItsWay(op)
    BY <2>3, Values
  <2> HIDE DEF op
  <2> QED  BY <1>1, <2>2, <2>3, <2>4, <2>5, Moves
<1>3. CASE rebuild_sets(p)
  <2>1. PICK k \in proc[p].todo :
          /\ HotSet(k, proc[p].got[k])
          /\ Goes(p, [proc[p] EXCEPT !.pc = "expire_all", !.todo = @ \ {k}])
    BY <1>3 DEF rebuild_sets
  <2> DEFINE op == [proc[p] EXCEPT !.pc = "expire_all", !.todo = @ \ {k}]
  <2>2. /\ proc[p].pc = "rebuild" /\ proc[p].got \in [Keys -> 0..MaxRevision]
        /\ \A j \in Keys : proc[p].got[j] <= durable[j]
    BY <1>1, <1>3 DEF rebuild_sets, At, OnItsWay
  <2>3. proc[p].todo \in SUBSET Keys
    BY <1>1 DEF Operation
  <2>4. op \in Operation /\ op.pc = "expire_all" /\ op.got = proc[p].got
    BY <1>1, <2>2, <2>3 DEF Operation
  <2>5. OnItsWay(op)
    BY <2>2, <2>4 DEF OnItsWay
  <2>6. k \in Keys /\ proc[p].got[k] \in 0..MaxRevision /\ proc[p].got[k] <= durable[k]
    BY <2>2, <2>3
  <2>7. /\ hot' \in [Keys -> 0..MaxRevision] /\ ttl' \in BOOLEAN
        /\ \A j \in Keys : hot'[j] <= durable[j]
    BY <2>1, <2>6, HotSetCommitted
  <2>8. UNCHANGED <<durable, indexed, written, agent>>
    BY <1>3 DEF rebuild_sets
  <2> HIDE DEF op
  <2>9. Goes(p, op)
    BY <2>1 DEF op
  <2> QED  BY <1>1, <2>4, <2>5, <2>7, <2>8, <2>9, Moves
<1>4. CASE evict_hot(p)
  <2>1. /\ hot' = Cold /\ ttl' = FALSE /\ Goes(p, Idle)
        /\ UNCHANGED <<durable, indexed, written, agent>>
    BY <1>4 DEF evict_hot, HotClear, Ends
  <2>2. hot' \in [Keys -> 0..MaxRevision] /\ \A j \in Keys : hot'[j] <= durable[j]
    BY <1>1, <2>1, Values DEF Cold
  <2>3. OnItsWay(Idle)
    BY Values
  <2> QED  BY <1>1, <2>1, <2>2, <2>3, Values, Moves
<1>5. CASE close_investigation(p)
  <2> DEFINE op == [Idle EXCEPT !.pc = "evict"]
  <2>1. op \in Operation /\ op.pc = "evict"
    BY Values DEF Operation
  <2>2. OnItsWay(op)
    BY <2>1, Values
  <2>3. /\ Goes(p, op) /\ indexed' \in BOOLEAN
        /\ UNCHANGED <<durable, hot, ttl, written, agent>>
    BY <1>1, <1>5 DEF close_investigation
  <2> HIDE DEF op
  <2> QED  BY <1>1, <2>1, <2>2, <2>3, Moves
<1>6. CASE expire(p)
  <2>1. HotExpire /\ Goes(p, Idle) /\ UNCHANGED <<durable, indexed, written, agent>>
    BY <1>6 DEF expire, Ends
  <2>2. hot' = hot /\ ttl' \in BOOLEAN
    BY <2>1 DEF HotExpire
  <2>3. OnItsWay(Idle)
    BY Values
  <2> QED  BY <1>1, <2>1, <2>2, <2>3, Values, Moves
<1>7. CASE rebuild_expires(p)
  <2> DEFINE op == [proc[p] EXCEPT !.pc = "rebuild"]
  <2>1. HotExpire /\ Goes(p, op) /\ UNCHANGED <<durable, indexed, written, agent>>
    BY <1>7 DEF rebuild_expires
  <2>2. hot' = hot /\ ttl' \in BOOLEAN
    BY <2>1 DEF HotExpire
  <2>3. proc[p].pc = "expire_all"
    BY <1>7 DEF rebuild_expires, At
  <2>4. op \in Operation /\ op.pc = "rebuild" /\ op.got = proc[p].got
    BY <1>1 DEF Operation
  <2>5. OnItsWay(op)
    BY <1>1, <2>3, <2>4 DEF OnItsWay
  <2> HIDE DEF op
  <2> QED  BY <1>1, <2>1, <2>2, <2>4, <2>5, Moves
<1> QED  BY <1>2, <1>3, <1>4, <1>5, <1>6, <1>7

\* The steps of the working memory.
LEMMA WorkStep ==
  ASSUME TypeOK, noted = ToSet(working) \cup UNION ToSet(summaries),
         (\E k \in Keys : work_write(k)) \/ work_load \/ work_clear
  PROVE  /\ working' \in Seq(Keys) /\ Len(working') <= MaxEntries
         /\ summaries' \in Seq(SUBSET Keys) /\ noted' \subseteq Keys
         /\ noted' = ToSet(working') \cup UNION ToSet(summaries')
<1>1. working \in Seq(Keys) /\ noted \subseteq Keys
  BY DEF TypeOK
<1>2. ASSUME NEW S \in SUBSET Keys, NEW entries \in Seq(Keys), enforce_budget(entries),
             noted' = noted \cup S, ToSet(entries) = ToSet(working) \cup S
      PROVE  /\ working' \in Seq(Keys) /\ Len(working') <= MaxEntries
             /\ summaries' \in Seq(SUBSET Keys) /\ noted' \subseteq Keys
             /\ noted' = ToSet(working') \cup UNION ToSet(summaries')
  BY <1>1, <1>2, EnforceNames
<1>3. ASSUME NEW k \in Keys, work_write(k)
      PROVE  /\ working' \in Seq(Keys) /\ Len(working') <= MaxEntries
             /\ summaries' \in Seq(SUBSET Keys) /\ noted' \subseteq Keys
             /\ noted' = ToSet(working') \cup UNION ToSet(summaries')
  <2>1. noted' = noted \cup {k} /\ {k} \in SUBSET Keys
    BY <1>3 DEF work_write
  <2>2. CASE k \in ToSet(working)
    <3>1. enforce_budget(working)
      BY <1>3, <2>2 DEF work_write
    <3>2. ToSet(working) = ToSet(working) \cup {k}
      BY <2>2
    <3> QED  BY <1>1, <1>2, <2>1, <3>1, <3>2
  <2>3. CASE k \notin ToSet(working)
    <3>1. enforce_budget(Append(working, k)) /\ Append(working, k) \in Seq(Keys)
      BY <1>1, <1>3, <2>3 DEF work_write
    <3>2. ToSet(Append(working, k)) = ToSet(working) \cup {k}
      <4> DEFINE e == Append(working, k)
      <4>1. /\ Len(e) = Len(working) + 1 /\ Len(working) \in Nat
            /\ \A i \in 1..Len(working) : e[i] = working[i]
            /\ e[Len(working) + 1] = k /\ e \in Seq(Keys)
        BY <1>1, AppendProperties
      <4>2. DOMAIN e = 1..(Len(working) + 1) /\ DOMAIN working = 1..Len(working)
        BY <1>1, <4>1
      <4> HIDE DEF e
      <4>3. \A x : x \in ToSet(e) <=> x \in ToSet(working) \/ x = k
        BY <4>1, <4>2 DEF ToSet
      <4> QED  BY <4>3 DEF e
    <3> QED  BY <1>2, <2>1, <3>1, <3>2
  <2> QED  BY <2>2, <2>3
<1>4. CASE work_load
  <2> DEFINE S == Present(durable) \ ToSet(working)
  <2>1. PICK loaded \in InOrder(S) : enforce_budget(working \o loaded)
    BY <1>4 DEF work_load
  <2>2. noted' = noted \cup Present(durable) /\ Present(durable) \in SUBSET Keys
    BY <1>4 DEF work_load, Present
  <2>3. IsFiniteSet(S) /\ Cardinality(S) \in Nat
    BY <2>2, MemoryConstants, FS_Subset, FS_CardinalityType
  <2>4. loaded \in [1..Cardinality(S) -> S] /\ ToSet(loaded) = S
    BY <2>1 DEF InOrder
  <2>5. loaded \in Seq(Keys) /\ Len(loaded) \in Nat /\ DOMAIN loaded = 1..Len(loaded)
    <3> DEFINE c == Cardinality(S)
    <3>1. S \subseteq Keys /\ c \in Nat /\ loaded \in [1..c -> S]
      BY <2>2, <2>3, <2>4
    <3> HIDE DEF c, S
    <3>2. loaded \in [1..c -> Keys]
      BY <3>1
    <3>3. loaded \in Seq(Keys)
      BY <3>1, <3>2, SeqDef
    <3> QED  BY <3>3, LenProperties
  <2> DEFINE e == working \o loaded
  <2>6. /\ e \in Seq(Keys) /\ Len(e) = Len(working) + Len(loaded)
        /\ \A i \in 1..Len(e) : e[i] = IF i <= Len(working) THEN working[i] ELSE loaded[i - Len(working)]
        /\ Len(working) \in Nat /\ Len(loaded) \in Nat
    BY <1>1, <2>5, ConcatProperties
  <2>7. DOMAIN e = 1..Len(e) /\ DOMAIN working = 1..Len(working)
    BY <1>1, <2>6
  <2> HIDE DEF e
  <2>8. ToSet(e) = ToSet(working) \cup ToSet(loaded)
    <3>1. \A x \in ToSet(e) : x \in ToSet(working) \/ x \in ToSet(loaded)
      <4>1. ASSUME NEW i \in 1..Len(e)
            PROVE  e[i] \in ToSet(working) \/ e[i] \in ToSet(loaded)
        <5>1. CASE i <= Len(working)
          <6>1. i \in 1..Len(working) /\ e[i] = working[i]
            BY <2>6, <5>1
          <6> QED  BY <2>7, <6>1 DEF ToSet
        <5>2. CASE ~(i <= Len(working))
          <6>1. i - Len(working) \in 1..Len(loaded) /\ e[i] = loaded[i - Len(working)]
            BY <2>6, <5>2
          <6> QED  BY <2>5, <6>1 DEF ToSet
        <5> QED  BY <5>1, <5>2
      <4> QED  BY <2>7, <4>1 DEF ToSet
    <3>2. \A i \in 1..Len(working) : i \in 1..Len(e) /\ e[i] = working[i]
      BY <2>6
    <3>3. \A i \in 1..Len(loaded) : /\ Len(working) + i \in 1..Len(e)
                                    /\ e[Len(working) + i] = loaded[i]
      BY <2>6
    <3>4. ToSet(working) \subseteq ToSet(e) /\ ToSet(loaded) \subseteq ToSet(e)
      BY <2>5, <2>7, <3>2, <3>3 DEF ToSet
    <3> QED  BY <3>1, <3>4
  <2>9. ToSet(e) = ToSet(working) \cup Present(durable)
    BY <2>4, <2>8
  <2>10. enforce_budget(e)
    BY <2>1 DEF e
  <2> QED  BY <1>2, <2>2, <2>6, <2>9, <2>10
<1>5. CASE work_clear
  <2>1. working' = <<>> /\ summaries' = <<>> /\ noted' = {}
    BY <1>5 DEF work_clear
  <2>2. ToSet(<<>>) = {}
    BY DEF ToSet
  <2> QED  BY <2>1, <2>2, MemoryConstants
<1> QED  BY <1>3, <1>4, <1>5

-----------------------------------------------------------------------------
\* Every step keeps the durable store the truth and names what leaves working memory.
LEMMA MemoryStep ==
  ASSUME DurableIsTruth, WorkingIsNamed, Next
  PROVE  DurableIsTruth' /\ WorkingIsNamed'
<1>1. ASSUME NEW p \in Procs,
             \/ assemble(p) \/ (\E k \in Keys : write(p, k) \/ read(p, k))
             \/ materialize_context(p) \/ read_all_misses(p) \/ session_fails(p)
             \/ close_investigation(p) \/ Store(p)
      PROVE  DurableIsTruth' /\ WorkingIsNamed'
  <2>1. DurableIsTruth'
    BY SMTT(30), <1>1, AppendStep, QuietStep, ReadStep, HotStep DEF Store
  <2>2. UNCHANGED agent
    BY <1>1 DEF assemble, write, read, materialize_context, read_all_misses, session_fails,
         close_investigation, Store, append, append_conflicts, publish, publish_fails,
         latest, refill, refill_fails, expire, expire_fails, rebuild, rebuild_sets, rebuild_expires,
         rebuild_ends, evict_hot, evict_fails
  <2> QED  BY <2>1, <2>2 DEF WorkingIsNamed, agent
<1>2. CASE (\E k \in Keys : work_write(k)) \/ work_load \/ work_clear
  <2>1. UNCHANGED <<store, proc>>
    BY <1>2 DEF work_write, work_load, work_clear
  <2>2. /\ working' \in Seq(Keys) /\ Len(working') <= MaxEntries
        /\ summaries' \in Seq(SUBSET Keys) /\ noted' \subseteq Keys /\ WorkingIsNamed'
    BY <1>2, WorkStep DEF DurableIsTruth, WorkingIsNamed
  <2>3. TypeOK'
    BY <2>1, <2>2 DEF DurableIsTruth, TypeOK, store
  <2> QED  BY <2>1, <2>2, <2>3 DEF DurableIsTruth, OnItsWay, store
<1>3. CASE Expire \/ Flush
  <2>1. hot' = Cold /\ ttl' = FALSE /\ UNCHANGED <<durable, indexed, written, proc, agent>>
    BY <1>3 DEF Expire, Flush, HotClear
  <2>2. durable \in [Keys -> 0..MaxRevision]
    BY DEF DurableIsTruth, TypeOK
  <2>3. hot' \in [Keys -> 0..MaxRevision] /\ \A j \in Keys : hot'[j] <= durable[j]
    BY <2>1, <2>2, Values DEF Cold
  <2>4. TypeOK'
    BY <2>1, <2>3 DEF DurableIsTruth, TypeOK, agent
  <2> QED  BY <2>1, <2>3, <2>4 DEF DurableIsTruth, OnItsWay, WorkingIsNamed, agent
<1> QED  BY <1>1, <1>2, <1>3 DEF Next

\* The invariants hold at the start and when nothing happens.
LEMMA MemoryInit ==
  ASSUME Init
  PROVE  DurableIsTruth /\ WorkingIsNamed
<1> USE DEF Init
<1>1. working \in Seq(Keys) /\ summaries \in Seq(SUBSET Keys) /\ Len(working) = 0
  OBVIOUS
<1>2. written \in [Keys \X (1..MaxRevision) -> Nat]
  OBVIOUS
<1>3. proc \in [Procs -> Operation]
  BY Values
<1>4. TypeOK
  <2>1. durable \in [Keys -> 0..MaxRevision] /\ hot \in [Keys -> 0..MaxRevision]
    BY Values
  <2>2. ttl \in BOOLEAN /\ indexed \in BOOLEAN /\ noted \subseteq Keys
    OBVIOUS
  <2>3. Len(working) <= MaxEntries
    BY <1>1, MemoryConstants
  <2> QED  BY <1>1, <1>2, <1>3, <2>1, <2>2, <2>3 DEF TypeOK
<1>5. \A k \in Keys : /\ hot[k] <= durable[k]
                      /\ \A n \in 1..MaxRevision :
                           written[<<k, n>>] = IF n <= durable[k] THEN 1 ELSE 0
  BY Values DEF Cold
<1>6. \A p \in Procs : OnItsWay(proc[p])
  BY Values
<1>7. WorkingIsNamed
  BY DEF WorkingIsNamed, ToSet
<1> QED  BY <1>4, <1>5, <1>6, <1>7 DEF DurableIsTruth

\* A context assembled from whatever was read leaves nothing out unsaid.
LEMMA AssembleStep ==
  ASSUME DurableIsTruth, NEW p \in Procs, assemble(p)
  PROVE  ContextIsNamed'
<1> DEFINE seen == IF proc[p].got = None THEN {} ELSE Present(proc[p].got)
           Fixed(failed) == Cardinality({"conversation", "knowledge"} \ failed) * TurnTokens
                            + Len(working) * EntryTokens + Len(summaries) * SummaryTokens
<1>1. PICK failed \in SUBSET {"conversation", "knowledge", "investigation_history"} :
        LET fitted == fit_to_budget(seen, Fixed(failed))
        IN  context' = [seen |-> seen, fixed |-> Fixed(failed), session |-> fitted.session,
                        named |-> fitted.named, tokens |-> fitted.tokens,
                        degraded |-> failed \cup {t \in {"session"} : proc[p].got = None}]
  BY DEF assemble
<1> DEFINE fixed  == Fixed(failed)
           fitted == fit_to_budget(seen, fixed)
<1>2. seen \in SUBSET Keys
  BY DEF Present
<1>3. fixed \in Nat
  <2> DEFINE a == Cardinality({"conversation", "knowledge"} \ failed)
             b == Len(working)
             c == Len(summaries)
  <2>1. a \in Nat
    <3>1. IsFiniteSet({"conversation", "knowledge"})
      <4>1. IsFiniteSet({"conversation"}) /\ IsFiniteSet({"knowledge"})
        BY FS_Singleton
      <4>2. {"conversation", "knowledge"} = {"conversation"} \cup {"knowledge"}
        OBVIOUS
      <4>3. IsFiniteSet({"conversation"} \cup {"knowledge"})
        BY <4>1, FS_Union
      <4> QED  BY <4>2, <4>3
    <3> QED  BY <3>1, FS_Difference, FS_Subset, FS_CardinalityType
  <2>2. b \in Nat /\ c \in Nat
    BY DEF DurableIsTruth, TypeOK
  <2>3. TurnTokens \in Nat /\ EntryTokens \in Nat /\ SummaryTokens \in Nat
    BY MemoryConstants
  <2> HIDE DEF a, b, c
  <2>4. a * TurnTokens \in Nat /\ b * EntryTokens \in Nat /\ c * SummaryTokens \in Nat
    BY <2>1, <2>2, <2>3
  <2>5. a * TurnTokens + b * EntryTokens + c * SummaryTokens \in Nat
    BY <2>4
  <2> QED  BY <2>5 DEF a, b, c
<1>4. proc[p].got = None => seen = {}
  OBVIOUS
<1>5. proc[p].got # None => "session" \notin failed \cup {t \in {"session"} : proc[p].got = None}
  OBVIOUS
<1> HIDE DEF seen, Fixed, fixed
<1>6. /\ seen = fitted.session \cup fitted.named
      /\ fitted.session = {} \/ fitted.tokens <= TokenBudget + SummaryTokens
      /\ fitted.named # {} => fixed + Cardinality(seen) * EntryTokens > TokenBudget
  BY <1>2, <1>3, FitNames
<1>7. /\ context'.seen = seen /\ context'.fixed = fixed /\ context'.session = fitted.session
      /\ context'.named = fitted.named /\ context'.tokens = fitted.tokens
      /\ context'.degraded = failed \cup {t \in {"session"} : proc[p].got = None}
  BY <1>1 DEF fixed
<1> HIDE DEF fitted
<1>8. seen = {} \/ "session" \notin context'.degraded
  BY <1>4, <1>5, <1>7
<1> QED  BY <1>6, <1>7, <1>8 DEF ContextIsNamed

\* The durable store is the truth, however many processes write, read, rebuild and
\* evict at once: no revision is lost or given twice, and nothing is hot that was not
\* committed.
THEOREM DurableStoreIsTruth == Spec => []DurableIsTruth
<1>1. DurableIsTruth /\ WorkingIsNamed /\ UNCHANGED vars => DurableIsTruth' /\ WorkingIsNamed'
  BY DEF DurableIsTruth, TypeOK, OnItsWay, WorkingIsNamed, vars
<1>2. DurableIsTruth /\ WorkingIsNamed /\ [Next]_vars => DurableIsTruth' /\ WorkingIsNamed'
  BY <1>1, MemoryStep
<1> QED  BY <1>2, MemoryInit, PTL DEF Spec

\* Nothing leaves an agent's view unnamed, whatever the budgets and whichever stores
\* fail: a key written to working memory is there or in a summary, and an entry read of
\* the session is in the context or in its summary.
THEOREM NothingIsDropped == Spec => []NothingDropsSilently
<1> DEFINE Inv == DurableIsTruth /\ WorkingIsNamed /\ ContextIsNamed
<1>1. Init => Inv
  BY MemoryInit DEF Init, ContextIsNamed
<1>2. Inv /\ UNCHANGED vars => Inv'
  BY DEF DurableIsTruth, TypeOK, OnItsWay, WorkingIsNamed, ContextIsNamed, vars
<1>3. ASSUME Inv, Next
      PROVE  Inv'
  <2>1. DurableIsTruth' /\ WorkingIsNamed'
    BY <1>3, MemoryStep
  <2>2. (\E p \in Procs : assemble(p)) \/ context' = None
    BY <1>3 DEF Next
  <2>3. ContextIsNamed'
    BY <1>3, <2>2, AssembleStep DEF ContextIsNamed
  <2> QED  BY <2>1, <2>3
<1>4. Inv => NothingDropsSilently
  BY DEF WorkingIsNamed, ContextIsNamed, NothingDropsSilently
<1>5. Inv /\ [Next]_vars => Inv'
  BY <1>2, <1>3
<1> QED  BY <1>1, <1>4, <1>5, PTL DEF Spec
=============================================================================
