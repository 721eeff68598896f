------------------------------- MODULE Memory -------------------------------
(***************************************************************************)
(* The memory of one investigation (memory/service.py): session memory in  *)
(* a durable store of revisions (memory/durable.py) behind a hot store in  *)
(* Redis (memory/hot.py), the working memory of an agent run               *)
(* (memory/working.py) and the context assembled from all tiers.           *)
(*                                                                         *)
(* Several processes use the session memory at once, one store command at  *)
(* a time; a command of the hot store may fail, the HSET and the EXPIRE of *)
(* one set each on its own.  The hot store of a single process             *)
(* (InMemoryHotStore) is the case in which nothing expires.  The value of  *)
(* an entry is its revision; revision 0 is no entry.  Keys are numbers, in *)
(* the order of their names.  One process has the working memory.          *)
(***************************************************************************)
EXTENDS Integers, Sequences, FiniteSets, SequencesExt, FiniteSetsExt

CONSTANTS
  None,
  Keys,           \* the names entries are written under
  Procs,          \* the processes that share the session memory
  Agent,          \* the process that has the working memory
  MaxRevision,    \* bound of the model: revisions of a key
  MaxSummaries,   \* bound of the model: summaries in working memory
  EntryTokens,    \* tokens an entry costs, estimate_entry_tokens
  SummaryTokens,  \* tokens a summary costs
  TurnTokens,     \* tokens of the other tiers, when they answer
  TokenBudget,    \* memory_working_token_budget
  MaxEntries      \* memory_working_max_entries

ASSUME MemoryConstants ==
  /\ Keys \subseteq Nat /\ IsFiniteSet(Keys) /\ Agent \in Procs
  /\ {MaxRevision, MaxSummaries, EntryTokens, SummaryTokens, TurnTokens, TokenBudget} \subseteq Nat
  /\ MaxEntries \in Nat \ {0}

VARIABLES
  durable,   \* of each key: the number of its revisions
  hot,       \* of each key: the revision in the hot store, or 0
  ttl,       \* does the hash of the hot store expire?
  indexed,   \* is the investigation in the history index?
  proc,      \* of each process: where it is in its operation
  written,   \* history: how often each revision of a key was given to a writer
  working,   \* the agent's entries, in the order of their first writing
  summaries, \* the agent's summaries: the keys each one names
  noted,     \* history: the keys written to working memory since it was cleared
  context    \* the context the last step assembled, None after any other step

vars == <<durable, hot, ttl, indexed, proc, written, working, summaries, noted, context>>

store == <<durable, hot, ttl, indexed, written>>
agent == <<working, summaries, noted>>

Cold == [k \in Keys |-> 0]

\* key and rev: the entry an operation is about; todo: the keys a rebuild still
\* has to set; got: the entries read of the session, None when that failed.
Idle == [pc |-> "idle", key |-> None, rev |-> 0, todo |-> {}, got |-> Cold]

Init ==
  /\ durable = Cold /\ hot = Cold /\ ttl = FALSE /\ indexed = FALSE
  /\ written = [w \in Keys \X (1..MaxRevision) |-> 0]
  /\ proc = [p \in Procs |-> Idle]
  /\ working = <<>> /\ summaries = <<>> /\ noted = {} /\ context = None

At(p, pc) == proc[p].pc = pc
Goes(p, local) == proc' = [proc EXCEPT ![p] = local]
Ends(p) == Goes(p, Idle)

-----------------------------------------------------------------------------
(* The hot store                                                           *)

\* HSET: the entry is set; a hash that had no expiry has none yet.
HotSet(k, rev) == hot' = [hot EXCEPT ![k] = rev] /\ ttl' = ttl

\* EXPIRE: the lifetime of the whole hash begins again, if it is still there.
HotExpire == ttl' = (hot # Cold) /\ hot' = hot

HotClear == hot' = Cold /\ ttl' = FALSE

\* The hash expires.
Expire == ttl /\ HotClear /\ UNCHANGED <<durable, indexed, written, proc, agent>>

\* Redis loses it, or comes back empty.
Flush == hot # Cold /\ HotClear /\ UNCHANGED <<durable, indexed, written, proc, agent>>

\* The keys that have an entry.
Present(entries) == {k \in Keys : entries[k] > 0}

-----------------------------------------------------------------------------
(* Session memory: write                                                   *)

\* append computes the next revision ...
write(p, k) ==
  /\ At(p, "idle") /\ durable[k] < MaxRevision
  /\ Goes(p, [Idle EXCEPT !.pc = "insert", !.key = k, !.rev = durable[k] + 1])
  /\ UNCHANGED <<store, agent>>

\* Without the constraint.
AnyRevision(k, rev) == TRUE

\* The table has one row for a key and a revision.
UniqueRevision(k, rev) == rev = durable[k] + 1

\* ... and inserts it; the entry goes to the hot store after the commit.
append(p) ==
  /\ At(p, "insert") /\ UniqueRevision(proc[p].key, proc[p].rev)
  /\ durable' = [durable EXCEPT ![proc[p].key] = proc[p].rev]
  /\ written' = [written EXCEPT ![<<proc[p].key, proc[p].rev>>] = @ + 1]
  /\ Goes(p, [proc[p] EXCEPT !.pc = "publish"])
  /\ UNCHANGED <<hot, ttl, indexed, agent>>

\* Another writer has taken the revision: the insert raises.
append_conflicts(p) ==
  /\ At(p, "insert") /\ ~UniqueRevision(proc[p].key, proc[p].rev)
  /\ Ends(p)
  /\ UNCHANGED <<store, agent>>

publish(p) ==
  /\ At(p, "publish") /\ HotSet(proc[p].key, proc[p].rev)
  /\ Goes(p, [Idle EXCEPT !.pc = "expire"])
  /\ UNCHANGED <<durable, indexed, written, agent>>

\* The hot store fails, which is logged: an older revision may stay in it.
publish_fails(p) == At(p, "publish") /\ Ends(p) /\ UNCHANGED <<store, agent>>

-----------------------------------------------------------------------------
(* Session memory: read, read_all, rebuild                                 *)

\* A hit returns at once and changes nothing; a miss goes to the durable store ...
read(p, k) ==
  /\ At(p, "idle") /\ hot[k] = 0
  /\ Goes(p, [Idle EXCEPT !.pc = "latest", !.key = k])
  /\ UNCHANGED <<store, agent>>

\* ... for the latest revision, if there is one.
latest(p) ==
  /\ At(p, "latest")
  /\ LET rev == durable[proc[p].key]
     IN  Goes(p, IF rev = 0 THEN Idle ELSE [proc[p] EXCEPT !.pc = "refill", !.rev = rev])
  /\ UNCHANGED <<store, agent>>

refill(p) ==
  /\ At(p, "refill") /\ HotSet(proc[p].key, proc[p].rev)
  /\ Goes(p, [Idle EXCEPT !.pc = "expire"])
  /\ UNCHANGED <<durable, indexed, written, agent>>

\* The hot store fails and the read with it.
refill_fails(p) == At(p, "refill") /\ Ends(p) /\ UNCHANGED <<store, agent>>

\* The second command of a set, after a write or a read ...
expire(p) ==
  /\ At(p, "expire") /\ HotExpire
  /\ Ends(p)
  /\ UNCHANGED <<durable, indexed, written, agent>>

\* ... may fail after the first: the entry stays in a hash that may have no expiry.
expire_fails(p) == At(p, "expire") /\ Ends(p) /\ UNCHANGED <<store, agent>>

\* The tiers of a context are read one after the other, the session first: what
\* is hot, if anything is.
materialize_context(p) ==
  /\ At(p, "idle") /\ p = Agent /\ hot # Cold
  /\ Goes(p, [Idle EXCEPT !.pc = "assemble", !.got = hot])
  /\ UNCHANGED <<store, agent>>

\* With nothing hot the session is rebuilt ...
read_all_misses(p) ==
  /\ At(p, "idle") /\ p = Agent /\ hot = Cold
  /\ Goes(p, [Idle EXCEPT !.pc = "latest_all"])
  /\ UNCHANGED <<store, agent>>

\* ... from the durable store, read in one query and set entry by entry, in the
\* order of the keys.
rebuild(p) ==
  /\ At(p, "latest_all")
  /\ Goes(p, [Idle EXCEPT !.pc = "rebuild", !.todo = Present(durable), !.got = durable])
  /\ UNCHANGED <<store, agent>>

rebuild_sets(p) ==
  /\ At(p, "rebuild")
  /\ \E k \in proc[p].todo :
       /\ \A other \in proc[p].todo : k <= other
       /\ HotSet(k, proc[p].got[k])
       /\ Goes(p, [proc[p] EXCEPT !.pc = "expire_all", !.todo = @ \ {k}])
  /\ UNCHANGED <<durable, indexed, written, agent>>

rebuild_expires(p) ==
  /\ At(p, "expire_all") /\ HotExpire
  /\ Goes(p, [proc[p] EXCEPT !.pc = "rebuild"])
  /\ UNCHANGED <<durable, indexed, written, agent>>

rebuild_ends(p) ==
  /\ At(p, "rebuild") /\ proc[p].todo = {}
  /\ Goes(p, [proc[p] EXCEPT !.pc = "assemble"])
  /\ UNCHANGED <<store, agent>>

\* A store fails while the session is read: the tier is degraded and empty.
session_fails(p) ==
  /\ \/ At(p, "latest_all") \/ At(p, "rebuild") \/ At(p, "expire_all")
     \/ At(p, "idle") /\ p = Agent
  /\ Goes(p, [Idle EXCEPT !.pc = "assemble", !.got = None])
  /\ UNCHANGED <<store, agent>>

-----------------------------------------------------------------------------
(* The context                                                             *)

\* The first key alone is named.
SummarizeFirst(S) == IF S = {} THEN <<>> ELSE <<{CHOOSE k \in S : \A j \in S : k <= j}>>

\* One summary names all the keys of the entries it replaces.
summarize(S) == IF S = {} THEN <<>> ELSE <<S>>

\* The most entries of the session that fit beside what is fixed.
Retained(S, fixed) ==
  Max({i \in 0..Cardinality(S) : i = 0 \/ fixed + i * EntryTokens <= TokenBudget})

\* The last n of the keys, in their order.
LastOf(S, n) == {k \in S : Cardinality({j \in S : j >= k}) <= n}

\* The first entries are cut until the rest fits.
fit_to_budget(S, fixed) ==
  LET n   == Retained(S, fixed)
      cut == S \ LastOf(S, n)
  IN  [session |-> LastOf(S, n), named |-> UNION ToSet(summarize(cut)),
       tokens |-> fixed + n * EntryTokens + Len(summarize(cut)) * SummaryTokens]

\* The tiers after the session; those that fail are degraded and cost nothing.
assemble(p) ==
  /\ At(p, "assemble")
  /\ \E failed \in SUBSET {"conversation", "knowledge", "investigation_history"} :
       LET seen   == IF proc[p].got = None THEN {} ELSE Present(proc[p].got)
           fixed  == Cardinality({"conversation", "knowledge"} \ failed) * TurnTokens
                     + Len(working) * EntryTokens + Len(summaries) * SummaryTokens
           fitted == fit_to_budget(seen, fixed)
       IN  context' = [seen |-> seen, fixed |-> fixed, session |-> fitted.session,
                       named |-> fitted.named, tokens |-> fitted.tokens,
                       degraded |-> failed \cup {t \in {"session"} : proc[p].got = None}]
  /\ Ends(p)
  /\ UNCHANGED <<store, agent>>

-----------------------------------------------------------------------------
(* Working memory                                                          *)

\* The oldest entries go while there are too many, then while they cost too
\* much and more than one is left; what goes is named in one summary.
enforce_budget(entries) ==
  LET n    == Len(entries)
      kept == Max({i \in 0..n : /\ i <= MaxEntries
                                /\ i > 1 => i * EntryTokens + Len(summaries) * SummaryTokens
                                              <= TokenBudget})
  IN  /\ working' = SubSeq(entries, n - kept + 1, n)
      /\ summaries' = summaries \o summarize({entries[i] : i \in 1..(n - kept)})

\* Writing a key again keeps its place.
work_write(k) ==
  /\ At(Agent, "idle") /\ Len(summaries) < MaxSummaries
  /\ enforce_budget(IF k \in ToSet(working) THEN working ELSE Append(working, k))
  /\ noted' = noted \cup {k}
  /\ UNCHANGED <<store, proc>>

\* The keys of a set, in their order.
InOrder(S) == {o \in [1..Cardinality(S) -> S] :
                 ToSet(o) = S /\ \A i, j \in DOMAIN o : i < j => o[i] < o[j]}

\* The entries of the session are loaded at once.
work_load ==
  /\ At(Agent, "idle") /\ Len(summaries) < MaxSummaries /\ durable # Cold
  /\ \E loaded \in InOrder(Present(durable) \ ToSet(working)) : enforce_budget(working \o loaded)
  /\ noted' = noted \cup Present(durable)
  /\ UNCHANGED <<store, proc>>

work_clear ==
  /\ At(Agent, "idle") /\ noted # {}
  /\ working' = <<>> /\ summaries' = <<>> /\ noted' = {}
  /\ UNCHANGED <<store, proc>>

-----------------------------------------------------------------------------
(* Closing                                                                 *)

\* The investigation is indexed, if there is anything to find it by, and its hot
\* entries are dropped.
close_investigation(p) ==
  /\ At(p, "idle") /\ indexed' \in {indexed, TRUE}
  /\ Goes(p, [Idle EXCEPT !.pc = "evict"])
  /\ UNCHANGED <<durable, hot, ttl, written, agent>>

evict_hot(p) ==
  /\ At(p, "evict") /\ HotClear
  /\ Ends(p)
  /\ UNCHANGED <<durable, indexed, written, agent>>

evict_fails(p) == At(p, "evict") /\ Ends(p) /\ UNCHANGED <<store, agent>>

-----------------------------------------------------------------------------
\* The steps that take an operation on once it is under way.
Store(p) ==
  \/ append(p) \/ append_conflicts(p) \/ publish(p) \/ publish_fails(p)
  \/ latest(p) \/ refill(p) \/ refill_fails(p) \/ expire(p) \/ expire_fails(p)
  \/ rebuild(p) \/ rebuild_sets(p) \/ rebuild_expires(p) \/ rebuild_ends(p)
  \/ evict_hot(p) \/ evict_fails(p)

Next ==
  \/ \E p \in Procs : assemble(p)
  \/ /\ context' = None
     /\ \/ \E p \in Procs :
             \/ \E k \in Keys : write(p, k) \/ read(p, k)
             \/ materialize_context(p) \/ read_all_misses(p) \/ session_fails(p)
             \/ close_investigation(p)
             \/ Store(p)
        \/ \E k \in Keys : work_write(k)
        \/ work_load \/ work_clear
        \/ Expire \/ Flush

Spec == Init /\ [][Next]_vars

-----------------------------------------------------------------------------
(* Properties                                                              *)

Operation ==
  [pc   : {"idle", "insert", "publish", "latest", "refill", "expire", "latest_all", "rebuild",
           "expire_all", "assemble", "evict"},
   key  : Keys \cup {None},
   rev  : 0..MaxRevision,
   todo : SUBSET Keys,
   got  : [Keys -> 0..MaxRevision] \cup {None}]

TypeOK ==
  /\ durable \in [Keys -> 0..MaxRevision] /\ hot \in [Keys -> 0..MaxRevision]
  /\ ttl \in BOOLEAN /\ indexed \in BOOLEAN
  /\ written \in [Keys \X (1..MaxRevision) -> Nat]
  /\ proc \in [Procs -> Operation]
  /\ working \in Seq(Keys) /\ Len(working) <= MaxEntries
  /\ summaries \in Seq(SUBSET Keys)
  /\ noted \subseteq Keys

\* An entry on its way to the hot store was committed, and a write under way has
\* the number of a revision.
OnItsWay(op) ==
  /\ op.pc = "insert" => op.key \in Keys /\ op.rev > 0
  /\ op.pc = "latest" => op.key \in Keys
  /\ op.pc \in {"publish", "refill"} => op.key \in Keys /\ op.rev <= durable[op.key]
  /\ op.pc \in {"rebuild", "expire_all"} =>
       op.got \in [Keys -> 0..MaxRevision] /\ \A k \in Keys : op.got[k] <= durable[k]

\* The durable store is the truth: no revision is lost or given to two writers,
\* and nothing is hot, or on its way to the hot store, that was not committed
\* (session.py write; the unique constraint of the table).
DurableIsTruth ==
  /\ TypeOK
  /\ \A k \in Keys :
       /\ \A n \in 1..MaxRevision : written[<<k, n>>] = IF n <= durable[k] THEN 1 ELSE 0
       /\ hot[k] <= durable[k]
  /\ \A p \in Procs : OnItsWay(proc[p])

\* A key written to working memory is there or in a summary.
WorkingIsNamed == noted = ToSet(working) \cup UNION ToSet(summaries)

\* An entry of the session is in the context or in its summary; the context is
\* within its budget or has nothing left to cut, only what does not fit is cut,
\* and a tier that failed is marked.
ContextIsNamed ==
  context # None =>
    /\ context.seen = context.session \cup context.named
    /\ context.session = {} \/ context.tokens <= TokenBudget + SummaryTokens
    /\ context.named # {} => context.fixed + Cardinality(context.seen) * EntryTokens > TokenBudget
    /\ context.seen = {} \/ "session" \notin context.degraded

\* Nothing leaves an agent's view unnamed, neither from working memory nor from
\* the session (working.py _enforce_budget, service.py materialize_context).
NothingDropsSilently == WorkingIsNamed /\ ContextIsNamed
=============================================================================
