# A formal model of the SOC analyst platform

The platform runs a pipeline of agents over security evidence, stops at a human approval
gate, and acts (closes the case, finalizes its report, alerts people) only on what a person
decided there. This directory models the parts of it whose correctness depends on the order
in which things happen, and what the agents compute, checks both with TLC on small instances,
and proves the most important properties with TLAPS for every size.

Paths below are relative to the repository's root. `PROJECT.json` maps every definition to the
lines it models.

## 1. The system

| Component | State it keeps | Operations | Talks to |
|---|---|---|---|
| Investigation graph (`graph/`) | per thread: the latest checkpoint (next node, verdict, conversation, pending interrupt) | nodes, conditional routes, `start`, `resume` | checkpointer; `on_node` callback of whoever runs it |
| Background worker (`backend/workers/investigations.py`) | none of its own | `run_investigation`, `_persist` per node, `_failed_stage` | graph; case record, one transaction per node |
| Decision endpoint (`backend/api/routes/investigations.py`) | case record: status, pipeline, report, human decisions | `create`, `decide` | graph (`resume`), `deliver_alert` as a background task |
| Dispatch (`backend/services/notifications.py`, `services/notifications.py`, `backend/workers/notifications.py`) | `notifications` rows, unique by dedupe key | `dispatch_alert`, `_deliver`, `_dead_letter` | channels (Slack, e-mail); decisions, to verify the approval |
| Retry (`backend/api/routes/notifications.py`) | the same rows | `retry_delivery` | channels |
| Resilient clients (`integrations/`) | TTL cache, circuit breaker, token bucket, all per process | lookups and sends behind the three | NVD, VirusTotal, GitHub advisories, Slack, SMTP |
| Sessions (`backend/auth/`, `frontend/src/api/client.ts`) | sessions, refresh tokens and login transactions in Redis; tokens of a tab | login, rotate, revoke; refresh on a 401 | identity provider |
| Live stream (`backend/api/stream.py`, `frontend/src/realtime/`) | per connection: last snapshot, lifetime; in the console: snapshot, status, stale flag | poll and emit; connect, consume, reconnect | case record |
| Agents (`agents/`, `tools/`, `services/risk.py`) | none: each is a function of the graph state and of the services it is given | `analyze`, `assess`, `research`, `recommend`, `report` | graph nodes; threat intelligence, CVE feed, advisories, retrieval |
| Records (`backend/services/`) | rows of evidence, assessment, findings, report; versions of a plan with a decision per item | one write per stage; `decide_recommendation` | case record |
| Memory (`memory/`) | revisions in PostgreSQL, a hash per investigation in Redis, entries and summaries of an agent run | `write`, `read`, `read_all`, `materialize_context`, `close_investigation` | both stores, each of which may fail |
| Retrieval (`rag/`) | versions and chunks of each source in PostgreSQL; a cache per process | `ingest_source`, `refresh_all`, `retrieve` | sources, embeddings |

**What is hard here.** Nothing locks an investigation: the worker and any number of decision
requests drive the same checkpointed thread and write the same row, each in several transactions,
and the process may die between any two. Messages to people cannot be rolled back while the rows
that record them can. The breaker, the bucket and the cache are shared by threads that overlap
while they wait for a service. A stream is cut at any moment. Two stores hold the same memory
without a common transaction, and an index is replaced in three transactions while it is queried.
Every agent works with services that fail, answer in part or answer from the past, and what it could
not check must still be visible three stages later, in the report a person decides on.

**What makes each part correct.** Gate: no consequence without a committed decision that allows it,
and none undone. Record: what the case shows agrees with where the graph is. Dispatch: nobody is
alerted twice or without authority, nobody is forgotten silently. Clients: at most the agreed rate,
one probe at a time, nothing stale passed off as current. Sessions: a rotated token is worth
nothing, a revoked session stays revoked. Stream: what is shown was recorded, in its order, and a
connection that ends loses nothing it has read. Agents: nothing is concluded that the evidence does not support, nothing is lost on the
way, and every limit and every failure is stated. Memory: the durable store is the truth. Retrieval: a
refresh replaces one whole version by another, and an answer belongs to what was served. Section 6 says
where the code falls short of this or of what its own comments say.

## 2. Modules

| Module | Models | Uses |
|---|---|---|
| `ApprovalGate` | the promise about the human gate, abstractly | |
| `Investigation` | graph, worker, decision requests, alert tasks seen from the gate | `ApprovalGate` (refinement) |
| `InvestigationProofs` | theorems about `Investigation` | `Investigation` |
| `Dispatch` | dispatch and retry of alerts | |
| `DispatchProofs` | theorems about `Dispatch` | `Dispatch` |
| `GuardedClient` | cache, breaker, bucket and the clients behind them | |
| `GuardedClientProofs` | theorems about `GuardedClient` | `GuardedClient` |
| `LiveStream` | the event stream and the console that follows it | |
| `LiveStreamProofs` | theorems about `LiveStream` | `LiveStream` |
| `Sessions` | rotation and revocation of refresh tokens, the console's refresh and sign-out | |
| `SessionsProofs` | theorems about `Sessions` | `Sessions` |
| `LogAnalysis` | log sources, parsers, correlation, the log analyzer | |
| `ThreatDetection` | indicators, enrichment, detection rules, techniques, severity, verdict, the threat detector | `LogAnalysis` |
| `VulnResearch` | versions and ranges, the CVE feed, applicability, the researcher | `ThreatDetection` |
| `Remediation` | templates, risk, advisories, the patch recommender | `VulnResearch` |
| `Reporting` | timeline, assets, caveats, findings, rendering, the incident reporter | `Remediation` |
| `Pipeline` | the nodes that run the five agents, the rows they leave, decisions on recommendations | `Reporting` |
| `PipelineProofs` | theorems about `Pipeline`: what the agents conclude, and who decides | `Pipeline` |
| `Memory` | session memory over two stores, working memory, the context | |
| `MemoryProofs` | theorems about `Memory` | `Memory` |
| `Retrieval` | ingestion, the index, hybrid search, the cache, citations | |
| `RetrievalProofs` | theorems about `Retrieval` | `Retrieval` |
| `MC...` | inputs, symmetry, sequence-valued constants and a history variable for TLC | |

## 3. How the models correspond to the code

### `ApprovalGate` and `Investigation`

`ApprovalGate` states what the gate promises and nothing of how: decisions are recorded, once per
request; a report becomes final and an alert goes out only under a recorded approval; a case is
closed only after some recorded decision; nothing of this is undone. `Investigation` is the design.
`GateRefinement` says that it implements the promise.

| State | In the code |
|---|---|
| `ckpt` | the thread's latest LangGraph checkpoint: next node, verdict, last human decision, pending interrupt |
| `status`, `pipeline`, `verdict`, `report` | the investigation row, its `pipeline` JSON, the assessment, the report row |
| `decided` | `human_decisions`, one per request; written by `record_gate_decision` and committed at once |
| `pc`, `local`, `ran`, `kind` | where the worker or a request is, its own copy of the graph state, the node just run, the decision in the body |
| `alerts`, `rests` | the request's result: the alerts its run produced, whether the run rests at the gate |
| `paged` | the decisions under which an alert went out |

A *runner* is the worker (`run_investigation`) or one request (`decide`). Between two steps of a
runner anything may happen. A node is three steps as in `runtime._run`: run it, report it to the
worker's callback (`_persist`, one transaction, whose failure is swallowed), save the checkpoint.
`Resume` accepts any checkpoint with a pending node, as `resume` does. The last
step of a request is `Commit`: `apply_gate_outcome` on the row loaded at the start, then the
background task. Faults: a raising node (after its retries), a failing callback, a failing
transaction, a crash, with the in-memory (`Durable = FALSE`) or the PostgreSQL checkpointer.

### `Dispatch`

`rows` are committed notifications, `sess` what a dispatch's open transaction has written,
`delivered` and `hit` are what arrived, which no rollback takes back. `StartDispatch` checks the
authority and the priority floor; `Lookup`, `InsertRow` and `Send` are `_deliver`; `Following` walks
`Plan`, and a tier is over only when all its targets were tried. `Plan` is what the two loops of
`resolve_targets` and `failover_plan` give if no channel is listed twice, which the settings refuse
(`_validate_notification_channels`); `MCDispatch` has the loops themselves and TLC compares. An
insertion waits while another transaction holds the dedupe key (`KeyHeld`), as the unique index
makes it. `FinishDispatch` and `_dead_letter` end the plan, `CommitDispatch` or `DispatchFails` the
transaction. A retry loads a row, sends, and writes the status computed from what it loaded.

### `GuardedClient`

One client shared by threads. `CacheHit`, `CacheMiss`, `CircuitOpen`, `Allowed`, `CallService`, `RateLimited`,
`Succeeds`, `Store`, `Fails`, `Escapes` and `Degrade` are the steps of `_query`, `lookup`, `fetch` and `_guard`/`send`,
each with one call to the cache, the breaker or the bucket; callers interleave between them. `Fails` is what the code
catches (`httpx.HTTPError`, an error status, `ValueError`, `KeyError`, `TypeError`), `Escapes` what it does not: the
exception leaves the client and the breaker hears nothing (`Uncaught`). `Degrade` marks an expired answer as stale
where it can carry the mark (`Markable`): a reputation or a CVE record, but not an advisory, which is served
without a flag on purpose, nor an empty result, which has no record to mark. Time is in ticks; token amounts are
integers in units of 1/`Cost` token, so that rates below one token per tick are exact. `Tick` waits for no call longer
than `Timeout`, which bounds a whole call. This is an assumption: the code's timeouts are per phase and per
read (httpx) or per socket operation (SMTP), so a service that trickles its answer can exceed it.

### `LiveStream`

The producer loop of `investigation_events` (`read_snapshot`, then `Emit` for the rest of a round)
and the loop of `useInvestigationStream` with `consumeStream`. `wire` holds frames on the way;
`ReceivePart` and `ReceiveFrames` split them into chunks as the network does (`drainFrames` keeps a
part in its buffer). A snapshot is a version number and the closed flag. `read_snapshot` reads one
consistent version: it runs in one session, though not in one snapshot-isolated transaction.

### `Sessions`

`sessions`, `refresh` and `index` are the three kinds of Redis keys; each step of a handler is one
Redis command of `rotate` or `revoke`. `SET` writes a record whether or not it was deleted in the
meantime (`MarkUsed`), which is how a racing rotation brings records of a revoked session back.
`Present` is somebody else who has a copy of a token. `tab` is the token pair in `sessionStorage`, `inFlight` the promise of `client.ts`, `Refresh` joins
it or creates it, `Granted` and `Denied` resolve it for everyone waiting. `SignOut` is `signOut` in its
order: clear, post, navigate (`Reload`).

### The agents: `LogAnalysis` to `Reporting`, and `Pipeline`

The five modules hold no variables: each is one agent with its tools as operators, in the code's names,
and each extends the one before it as the agent consumes its result. `Pipeline` is the run: `stage` is
the node that comes next, `analysis`, `threat`, `dossier`, `report` and `plan` are the results in the graph
state, `record` the rows `_persist` writes (`to_log_event`, `to_threat_assessment`, `to_cve_finding`,
`to_report`, `to_recommendation`). A node is one step: nothing reads a result before the node has
returned. The services of an agent are arguments, and `None` is one that is not given, which is how
the nodes of `graph/nodes.py` build their agents today; the agents are modelled with and without them.
Results are sets where the code's order of a list decides nothing, and sequences where it does (the answers
of the feed, the products to search, the recommendations). Before its node has run, an agent's result is
`None`, or `NoThreat` and `NoDossier`, which read as empty as the missing keys of the state do.

Abstractions of data, each by what the code tells apart:

| In the code | In the model |
|---|---|
| a log line | its shape (the formats of `DEFAULT_PARSERS`, and what makes each of them fail), its time stamp, the kinds of events its words say, its entities, the rules whose patterns it matches |
| `datetime` | a number; a stamp without a year is resolved against `Year`, an impossible one makes `parse_timestamp` raise |
| a confidence or a weight | an integer in ten-thousandths or hundredths, rounded as the code rounds |
| the result of a reputation lookup | status, the engines' counts, whether it comes from an expired entry |
| a version string | the sequence of its parts, numbers and words, as `parse_version` splits it |
| product names | which tokens they share, and which contain which |
| a recommendation's text | the template it comes from and what it is about |
| the report's text | its findings, caveats, timeline and citations |

`decide_loads` and `decide_writes` are the two halves of `decide_recommendation`, between which another
request may do the same; the endpoint does not ask where the case is.

### `Memory`

A step is one command to a store. `durable` counts the revisions of each key, `hot` is the hash in Redis
with one expiry (`ttl`) for all its fields. A `set` of the hot store is two commands, `HSET` (`HotSet`) and `EXPIRE`
(`HotExpire`), and the second may fail after the first (`expire_fails`). `write`, `append`, `publish` are `SessionMemory.write`; the unique
constraint of the table is `UniqueRevision`. `read`, `latest`, `refill` and `materialize_context`,
`read_all_misses`, `rebuild`, `rebuild_sets`, `rebuild_expires`, `assemble` are the reads. Whatever touches Redis may
fail: `publish_fails` is logged, `refill_fails` raises, `session_fails` marks the tier as degraded.
Keys are numbers, in the order in which the code sorts them, so that the session a context is made
of is a set and what `fit_to_budget` keeps are its greatest members (`LastOf`).
`working` and `summaries` are an agent's `WorkingMemory`; `enforce_budget` evicts and summarizes.

### `Retrieval`

`status` and `rows` are the two tables, by source and version; a version is the content it was made from,
as `build_index_version` hashes it. `ingest_source` and `refresh_all` go through fetch, `record_version`,
`add_chunks`, `activate_version` and the clearing of the cache, one transaction each; `ingest_raises` may end
them between any two. A reader reads the active versions source by source, looks in the
cache, searches densely and by keyword (two transactions), ranks and caches. A text is the lengths
of its sections, the places of its spaces and its words, so that `pack` and `split_oversized` are
exact; an embedding is the words it was made from. Scores are integers over a common denominator.
A row is referred to by source, version and chunk (`Ref`), as the unique constraint of the table has it
(`backend/db/orm/knowledge.py:36`). `rank` is the set of the orders that sorting by score allows: rows of
equal score come as the database returned them. `Searchable` is what `_base_query` selects: live rows, of whatever version.
Keyword search does not filter by product, as in PostgreSQL (`Admitted` says what that lets in). Resolving a
citation is not modelled (section 6).

## 4. Runs

| Run | Instance | Checks |
|---|---|---|
| `gate_faults` | 2 requests overlapping each other and the worker; node, database and crash faults; in-memory checkpointer | `GateInv` (authority of every consequence), `ClosedStaysClosed`, `FailedStageIsWhereRunStopped`, the refinement |
| `run_faults` | 1 request, all four faults, durable checkpointer, fairness | the research stage agrees with the verdict; every runner ends |
| `gate_overlap` | 2 requests that may overlap each other and the worker, no fault, fairness; `overlapped` remembers whether they did | whatever the order: the gate is reached, and a case left awaiting approval has an open gate (`AwaitingMeansOpenGate`); until something overlaps: record and graph agree at rest (`SerialRecordMatchesGraph`), an approval takes effect (`SerialApprovalTakesEffect`) |
| `dispatch` | 1 approval, Slack then 2 addresses, 2 dispatches, 2 retries, 2 sends each, failing transactions, fairness | authority, failover (`SecondChannelIsARerun`), deduplication, dead letters, permanence, settling |
| `client` | 2 threads, 2 keys, cache of 1, threshold 2, half a token per tick, 4 ticks, answers that can and cannot be marked, uncaught exceptions | `CacheInv`, `ClosedBelowThreshold`, `OneProbe`, `RateBound`: breaker, bucket and cache together |
| `probe_lost` | the same | **violated**: the circuit waits for a probe that is not under way |
| `stream` | 3 changes, lifetime of 3 polls, 3 losses, 2 attempts | no step back, labelled losses, frames in order (`StreamInv`); what was read is on screen when the console stops (`NothingReadIsLost`) |
| `sessions` | 2 requests, 2 handlers, 1 login, 3 tokens, a lost answer or a copied token, logouts from elsewhere, fairness | reuse is refused, no false alarm, a revoked session yields nothing, requests end |
| `pipeline` | up to 2 of 10 blocks of evidence, 3 inventories, 3 providers of intelligence, 4 feeds, 2 advisory sources, 2 reviewers; limits of 2 indicators, 2 products, 4 recommendations, 4 timeline entries | `AnalysisSound`, `UncertaintyReported`, `ApplicabilitySound`, `PlanSound` |
| `memory` | 2 processes, 2 keys, 2 revisions, 2 summaries, at most 2 entries and a token budget below two of them | `DurableIsTruth`, `NothingDropsSilently` |
| `retrieval` | 2 sources with several contents each, 2 readers, 2 retrievals of one query that filters by date, trust and product, chunks of 9 characters with an overlap of 3, 2 candidates, a budget of 3 tokens | `CorpusSound`, `AnswerSound` |
| `decided_twice` | 2 overlapping requests, no fault | **violated**: one gate is decided twice |

**Properties that are conjunctions.** `GateInv`, `DispatchInv`, `CacheInv`, `StreamInv` and `SessionInv` are the
inductive invariants of section 5, conjunctions of named parts that begin with the module's `TypeOK`; `AnalysisSound`,
`DurableIsTruth` and `CorpusSound` include theirs.

**Why these bounds.** Two requests and the worker are all the roles of a race at the gate: the one
that reads early, the one that acts in between, the one that started the run; a third request is a
second copy of one of them, and the theorems cover any number. A tier of one target and a tier of
two distinguish "the first target", "the last", "some" and "none"; two dispatches and two retries are
the two sides of each race. In `client` 4 ticks are enough to trip at once, wait for the reset, probe, fail, wait and probe again, and for an entry to expire twice. Three losses with two attempts reach both recovery and giving up; three polls of lifetime
reach a keep-alive, a skipped version and the cut. Three tokens are a login and two rotations, so
that both a replay and a rotation after a rotation happen. In `pipeline` a block is the least evidence
that makes one rule fire or one parser fail (five failures for a brute force, three connections for a
beacon, one line otherwise), and two blocks are what a correlation or a corroboration takes; every
limit is below what two blocks produce, so that each truncation happens. In `memory` two processes are
the two sides of every race between a write and a refill, and two revisions make one of them stale; in
`retrieval` two retrievals are the one that fills the cache and the one that finds it, with an ingestion
before, between, during and after. Deadlock is not checked: every system
here may come to rest (a closed case, a settled alert, a console that was left, the bound
on time or tokens).

**Fairness** (weak, per thread of control). The worker, an accepted request and a scheduled
background task are threads of a live process and take their next step; a crash ends their
runners. Dispatch tasks and accepted retries likewise. Handlers of `rotate` and requests of a page
make progress, and a page that is being left goes away. The other runs check safety only and assume no fairness. No analyst is ever obliged to act,
and no fault to happen or to stop happening beyond its bound.

## 5. Proofs

Every theorem is about `Spec`, without fairness, and holds for every value of the constants that the
named assumptions of its module allow: any number of requests, handlers, retries, processes, readers and
reviewers, any channels, keys, sources, queries, budgets and limits. Each argument has the same shape: an
inductive invariant that TLC checked on the run's instance first, a lemma per action (or per group of
actions that touch the same state), and the properties as consequences.

| Module | Theorems | Inductive invariant |
|---|---|---|
| `InvestigationProofs` | `TypeCorrect`, `GateInvariant`, `FinalSafety`, `PageSafety`, `DecisionSafety`, `ClosedSafety`, `ClosedIsFinal`, `Refinement`, `ResearchFollowsVerdict`; under hypotheses `FailureIsShownWhereItHappened`, `GateStaysOpen`, `RecordFollowsGraph`, `OneDecisionPerGate` | `GateInv`; `WorkerInStep`, `VerdictInStep`, `StagesInStep`, `OpenOrMoving`, `SerialInv`, `DisposedOnce` |
| `DispatchProofs` | `DispatchIsSound`, `ApprovedOnly`, `DeliveriesAreOnRecord`, `SentForGood`, `SecondChannelNeedsRerun`, `NobodyIsPagedTwice`, `DeadLettersAreHonest` | `DispatchInv` |
| `GuardedClientProofs` | `BreakerTrips`, `RateIsBounded`, `CacheIsSound`; under hypotheses `SingleProbe`, `ProbeNeverStarved` | `BucketBalanced`, `CacheInOrder`, `AloneInv`, `BucketRested` |
| `SessionsProofs` | `SessionsAreSound`, `ReuseNeverAccepted`, `NeverAThief` | `SessionInv`, `Spent` |
| `LiveStreamProofs` | `StreamIsSound`, `OrderlyEndLosesNothing`, `ScreenNeverGoesBack` | `StreamInv`, `Delivered` |
| `PipelineProofs` | `AnalysisIsSound`, `UncertaintyIsReported`, `PlanIsSound`, `ResultsFit`, `VersionsAreOrdered`, `OnlyPeopleDecide`; under a hypothesis `ApplicabilityIsSound` | `ResultsInv`, `DecisionInv` |
| `MemoryProofs` | `DurableStoreIsTruth`, `NothingIsDropped` | `DurableIsTruth` with `OnItsWay`; `WorkingIsNamed` |
| `RetrievalProofs` | `CorpusStaysSound`, `AnswersAreSound`, `NoTextIsLost` | `RetrievalInv` |

*The gate.* `GateInv` is the inductive invariant. The properties alone are not inductive: that a
closed case stays closed needs that the worker, which writes `in_progress` and
`awaiting_approval`, has made its last such write before anybody can close the case. This is
`GateSurfacedLast`: once the status is `awaiting_approval` or `closed`, the worker has reported triage
and is at the gate or done. It rests on `WorkerStopsAtGate` (the worker has no decision and cannot
pass the gate) and on `DecisionsInOrder` (a request's decision is recorded before it resumes,
and exactly as it carries it). From the invariant follow `FinalSafety`, `PageSafety`,
`DecisionSafety`, `ClosedSafety`; with `NothingUndone`, one step at a time, `ClosedIsFinal` and
`Refinement`. The lemmas `WorkerFrame`, `RequestFrame` say what the steps of one runner leave to the
others; `AfterNodeType` and `AfterGateType` are about the graph's transition functions.

*The case record.* `ResearchFollowsVerdict` holds under every fault: the verdict on record and the stage
shown are the ones of the worker's own run (`VerdictInStep`). Three properties are true of some
instances only, and the theorems name them: that a failure is shown where it happened needs that no
write of the worker failed (`"persist" \notin Faults`); that a waiting case has an open gate needs that
nothing else failed (`Uncut`: a run that is cut short leaves the case waiting), and its invariant
`OpenOrMoving` follows the runner that wrote the latest checkpoint; that record and graph agree at rest, and
that a gate is decided once, needs decisions one at a time and no fault (`Serial`). The
run `decided_twice` shows that overlap alone breaks the last one, and the theorem that nothing else does.

*Dispatch.* `DispatchInv` relates an open session, the dedupe keys and the committed rows:
a task holds rows exactly for the targets it has passed (`SessionInStep`, `KeysInOrder`), a tier is
committed as a whole (`TiersCommitted`), two sessions hold one key only if it was on record before
(`KeyUnique`), and what arrived is on record, about to be, or lost with its transaction
(`Accounted`). `SecondChannelNeedsRerun` adds that one dispatch delivers on one channel (`OneChannelPerDispatch`) and that
two tasks under way never both hold the first key of the plan. `NobodyIsPagedTwice` then says: who sends found the row neither sent nor pending elsewhere. Assumed: the
channels pass `_validate_notification_channels` (`ChannelsValid`), and an approval is dispatched at most
twice (`DispatchedAtMostTwice`; the endpoint schedules it once). With a third dispatch `KeyUnique` is no
longer inductive, and `DispatchedOnce` false: see section 6.

*The client.* `BreakerTrips` and `RateIsBounded` need nothing but types and `BucketBalanced` (what
was given out and what is left never exceeds what was put in). `CacheIsSound`: the list of entries has each
key once and stays within its limit (`CacheInOrder`), so that what `get` returns is what was last set, and
nothing expired that can carry the staleness mark is served without it. `SingleProbe` assumes
`Timeout < Reset` - calls let through before the circuit tripped are over before it is tested
(`BacklogOver`), so whoever reports while it is half open is the probe (`ProbeHoldsFlag`).
`ProbeNeverStarved` assumes moreover `Reset * Refill >= Cost` and `~Uncaught`: the bucket rests while the circuit
is open (`BucketRested`) and then has a token for the probe, which reports if every exception is caught. The first two
hypotheses are about settings, and the defaults satisfy them for the alert channels; without the second the code can
refuse the probe at the bucket and never let a call through again. No client satisfies the third: the theorem says that
an uncaught exception is the only cause left, and the run `probe_lost` that it is one.

*Sessions.* The heart of `SessionInv` is `OnePlaceEach`: until an answer is lost or a copy shows up, a refresh token is in the tab,
in one rotation, or on its way back, and nobody else touches it. It needs `FlightHasHandler` (one refresh in
flight, shared by all requests of the page). `RevokedYieldsNothing` rests on `DeadStaysDead`: a session
that was over when a handler began never comes back, although its records may. `Reserved` keeps the
bound on tokens from cutting a rotation short. `ReuseNeverAccepted` needs no such condition: a token that was exchanged,
or that a rotation has marked, is never on record as unused again (`Spent`), although records are purged and written
back. Assumed: finitely many requests and handlers (`FiniteActors`).

*The stream.* `NewerAndNewer` orders what is shown, on the wire, sent before, read and current; with it no
frame can take the screen back. `EndComesLast` says why an `end` event was sent, wherever it is. `OrderlyEndLosesNothing`
follows what was sent last: it is on screen or the last snapshot on the wire (`Delivered`).

*Decisions on recommendations.* `DecisionInv`: before the plan is on record there is nothing to decide, and a
request under way found its row pending.

*The agents.* `ResultsInv` says that every result in the graph state is one that the tools return for the
results before it: `AnalysisOK`, `ThreatOK`, `DossierOK`, `ReportOK` and `PlanOK` state what that is, one lemma
per agent (`AnalysisFacts`, `ThreatFacts`, `ResearchFacts`, `ReportFacts`, `PlanFacts`) proves it of the agent's
operator, and a later node relies on what the nodes before it left. The four properties are consequences:
they relate results of different agents (a gap of the analysis to a caveat of the report, a vulnerability
of the dossier to a line of the plan), so that none of them is inductive without the others' results. What has
to be shown of the tools is about lists and sums of any length: that events in one window end up in one
correlation (`correlate_events` cuts a sorted run at its gaps), that a truncation by rank drops only
what ranks lower, that weighted means stay within the scale. Such a fact is proved by induction over the
indices of the list (`NatInSet`: a set of numbers with 0 and every successor is all of them, from the
well-foundedness of `<`). The versions: `VersionsAreOrdered` says that the code's comparison is a strict total
order, whatever the lengths; `ApplicabilityIsSound` assumes `VersionsAgree`, that `parse_version` reads
the versions that occur, and orders them, as a reference list does. What `parse_version` makes of a
string is a fold over its parts, which TLC evaluates: `MCPipeline` assumes `VersionsAgree` (`ReferenceAgrees`), so
that a run on which it fails does not start. Assumed besides: record ids are unique and lists are lists
(`EvidenceShape`, `FeedShape`), budgets are numbers, and tables have no entry for `None`.

*Memory.* The unique constraint makes `append` the only writer of a revision, and what is on its way to the
hot store (`OnItsWay`) was committed. `NothingIsDropped` is about sets: what `fit_to_budget` and
`enforce_budget` cut is what their summaries name (`LastOf`, `Retained`). Assumed: keys are a finite set of numbers.

*Retrieval.* The index part: an activation retires exactly what was active, whatever died before it, so that one version of a
source is active and the only others with live rows are marked as building (`Building`, `Serving`). The answers: a version that was active and is not any more never comes back
(`Advances`), so rows found for a version are out of search only if that version is superseded
(`Found`, for readers under way and for the cache), and what was retired when a retrieval
began is not among rows cached under the versions it reads (`Apart`). This is the reason why the cache key
includes the versions. Assumed: `SourcesListed`, and that a row is identified by its reference (`OneRowPerRef`).
`NoTextIsLost` (`ChunksCover`) is about contents alone: a packed group fits or is one section (`PackFacts`), and
the parts of a section that is split begin where or before the last one ended (`StopFacts`, `SplitFacts`), so that
what is missing from them is what was stripped. Assumed: a section has text and does not begin with a space
(`SectionShape`; `split_sections` strips and drops empty ones).

*Only model-checked:* the liveness properties (`EveryRunnerEnds`, `ReachesGate`, `SerialApprovalTakesEffect`, `AlertSettles`,
`RequestsAnswered`), since fairness is beyond the prover, and `VersionsAgree`, a
hypothesis about data. `SerialRecordMatchesGraph` is the theorem
`RecordFollowsGraph` with the overlap remembered in the state instead of excluded by the hypothesis `Serial`.
Every other property of a passing run is a theorem, some under the hypotheses named above.

## 6. What the models show about the code

The two violated runs are described under "findings" in `PROJECT.json`: two overlapping requests decide one gate
twice (`decided_twice`), and a half-open probe that meets a response the client cannot parse leaves the circuit shut for good
(`probe_lost`). Further observations from reading and modelling, not backed by a run of their own; where a comment of the
repository claims the contrary, the properties state what is true of the code and the item quotes the claim.

At the gate, in dispatch, in the console:

- If a rate is so low that the reset time earns less than one token, the half-open probe can be
  refused by the bucket after the breaker handed it out (`integrations/notifications.py:147`);
  nobody reports, and the circuit never lets a call through again. It is a hypothesis of
  `ProbeNeverStarved`.
- An expired answer is served without a mark by the advisory source (`integrations/advisories.py:278-290`, on purpose) and, if
  it is empty, by the NVD source (`integrations/nvd.py:270-274`): nothing to mark reads as nothing found. `CacheInv`
  is about the answers that can carry the mark.
- `OneProbe` needs calls that are over before the circuit is tested. With a service that trickles its answer past the reset
  time a late failure is taken for the probe's (`integrations/resilience.py:202`).
- A request that resumes in the middle of another one's run collects that run's result: a redirect
  can close the case. `PageHasApproval` holds because dispatch verifies the decision again.
- A failing `on_node` callback is swallowed; `_failed_stage` may then name an earlier stage
  (which is why `FailedStageIsWhereRunStopped` is checked without that fault).
- A crash between the end of a resumed run and its commit leaves a case awaiting approval whose
  graph has ended: the next decision is refused with a conflict.
- After a transaction that failed once its messages were out, a second dispatch delivers them again;
  the properties of `Dispatch` except those approvals (`lost`).
- If three dispatches of one approval ran, two of them could overlap over a row that the first left failed, find
  it committed, both send and both deliver: the unique key guards insertions only. The endpoint schedules one.
- A dispatch that is run again after it had delivered finds the first channel's rows sent, counts nobody as
  reached by itself, and goes on to the fallback channel; `services/notifications.py:20-21` and `75-77` call a
  re-run a no-op, and `backend/services/notifications.py:13-16` the second channel "a fallback rather than a second page".
  `SecondChannelIsARerun` says that this is the only way to it.
- Dead letters are written for every row of the plan, where the docstring (`backend/services/notifications.py:18-19`)
  speaks of the last delivery.
- A redirect runs triage again, not the pipeline (`graph/nodes.py:645`).
- A refresh answer that is lost after the server rotated the token ends the session at the next
  refresh, by reuse detection (`NoFalseAlarm` excepts it).
- Two rotations of one token that both load it before either marks it both succeed, and nobody notices
  (`backend/auth/sessions.py:199-212`), where lines 3-5 call refresh tokens "single-use". `ReuseIsRefused` is what holds: the
  window closes when the first rotation marks the token.
- A refresh in flight when the analyst signs out puts tokens back into the tab.
- Two retries of one failed delivery that overlap both find it undelivered and both send it
  (`backend/services/notifications.py:322`). The unique key, which "under a retry or a race"
  (`backend/db/orm/notification.py:22-24`) is to prevent that, guards insertions; a retry inserts nothing.
- At the end of a connection's lifetime the producer sends an `end` event, which the console takes for the
  end of the case: it shows "ended" and never connects again (`useInvestigationStream.ts:88`), where
  `backend/api/stream.py:118-120` says "the client reconnects" and loses nothing by it, and `stream.ts:72-74` that the
  event "means the investigation settled". A closing after the cut is never shown, and no label says that the screen is old.
  `NothingReadIsLost` is about what was read before the cut.
- `signOut` clears the tokens before it posts `/auth/logout` (`AuthContext.tsx:53`): the request is refused and
  the session stays on the server until it expires, where line 50 says it "is revoked server-side too".
- The console clears its stale label when it connects, before the first snapshot has arrived.

In the agents:

- A date that does not exist ("Feb 30" in a syslog line) raises in `parse_timestamp`
  (`tools/parsers.py:250`) outside any handler, and the log analysis node fails as a whole; the docstring
  (`tools/parsers.py:224-225`) promises `None`, and the module (lines 12-13) that such a record is quarantined. The
  step is `log_analysis_fails`.
- If no record became an event, the gaps of the analysis do not reach the reporter (`graph/nodes.py:309-315`); the
  report then has no evidence section, says so, and has no confidence. `UncertaintyReported` states both cases.
- Versions that differ in trailing zeros ("2.14" and "2.14.0") are ordered, not equal: an inclusive bound
  spelled the other way excludes the version it names. `ApplicabilitySound` leaves these pairs out (`Respelled`).
- An unreadable bound decides before a later readable one (`tools/versions.py:258-266`): a host that the
  second bound would clear stays a candidate, which is the safe side.
- A CPE match that names an exact version and no range becomes a range without bounds
  (`integrations/nvd.py:375-390`), which every version is in.
- The plan's overall risk is combined from the recommendations that were kept, not from those held back
  (`agents/patch_recommender/recommender.py:157`).
- Two decisions on one recommendation that overlap both find it pending, and the later one overwrites the earlier
  (`backend/services/remediation.py:113`), where lines 9-13 name a race among what is refused, since "silently accepting it
  would make the audit trail lie". No property is stated: outside the overlap the check on line 113 is all there is to say.

In memory and retrieval:

- The hot store can hold an old revision after a failed publish or a late refill, and a part of the session after a
  rebuild that was cut short; readers get it, although `memory/session.py:7-10` calls a cache miss the worst case and promises
  "never a wrong answer". Nothing bounds how long: the expiry of the hash is set by a second command (`memory/hot.py:84`) that
  may fail after the first, every later write begins it again, and `InMemoryHotStore` (`hot.py:42-58`) has none.
- The context is fitted to its budget before the summary of what was cut is added to it, so it may exceed
  the budget by that summary; entries are cut in the order of their keys, not of their age.
- Search looks at whether a chunk is retired, not at whether its version is active (`rag/index.py:349`): the chunks of
  an ingestion that died before activation are found from then on, since activation retires only what was active,
  where `rag/index.py:10-12` says a half-built index is never queried and `rag/ingestion.py:3-5` that queries always see a complete
  corpus. `CorpusSound` admits such rows, and nothing else, beside the active version. The in-memory store does check.
- Ingesting content that was ingested before violates the unique key of the version row, and ends `refresh_all`
  before the sources after it and before the cache is cleared; ADR 0006 calls it a no-op.
- A source directory that is missing is fetched as no documents: an empty version is activated and the
  source's previous version retired.
- The active versions are read before the handler that serves stale answers (`rag/service.py:123`): with the
  database unreachable `retrieve` raises (`version_fails`).
- Keyword search takes its candidates without an order, so an exact match may be missing among them; in
  PostgreSQL it does not filter by product.
- A citation carries no version and is resolved by chunk id alone, to the newest row (`get_chunk`, `rag/index.py:436-445`): it
  may show a newer text than the one cited, and ids of two sources may coincide, where ADR 0006 (items 6 and 9), `rag/citations.py:3-4`
  and `rag/service.py:7-8` promise the exact passage. Resolution is left out of the model, and `AnswerSound` says nothing of it.
- The first passage of an answer is kept even if it exceeds the token budget.

## 7. Limits

- The methods of breaker, bucket and cache are atomic. They hold no lock; inside them there is no
  I/O, and a thread switch between their few operations is not modelled.
- LangGraph, Redis, PostgreSQL, the browser and the channels are modelled by what the code uses of
  them: a checkpoint is saved whole, one command is atomic, a unique key makes an insertion wait. A malformed alert
  payload, which `deliver_alert` drops, does not occur.
- In `Investigation` what agents compute is reduced to the verdict; `Pipeline` has them in full and none of
  the faults but a failing log analysis. Texts, prompts and schemas are left out of both.
- Regular expressions are not interpreted: which rule or parser a line matches is part of the input. Tables
  (techniques, weaknesses, event ids, templates) are the code's, with the columns the code branches on.
- The weights in `rank`, `trust_weight` and `freshness` and the columns of the template tables decide the order of passages and
  which template a plan cites; the properties depend on the order being one that sorting allows, not on the numbers.
- A call to a service is over within `Timeout`, and a caller is through both guards within a tick.
- Ingestions do not overlap (two of one source could both leave an active version); embeddings do not collide.
- Conversation, knowledge and history are tiers of the context that answer or fail.
- Login is a single step: its transaction (`GETDEL` of the state), the identity provider and
  provisioning are not modelled; the user of a session always exists.
- Snapshot reads are consistent; connections of one console do not overlap.
- A clock is a counter; settings in seconds are counts of ticks or polls.

## 8. Not modelled

- *Prompts, schemas, enumerations*: text assembly and declarations without behaviour; enumerations appear where
  a module uses their values.
- *Persistence layer*: tables, migrations, single queries; what a transaction makes visible is modelled
  where a component depends on it.
- *Middleware and configuration*: request contexts, the limiter (a counter per window, without an await between its
  read and its write) and the validation of settings, but for that of the alert channels.
- *Analyst console* other than its HTTP client, its session and its stream: pages that show what the API returns.
- *Login*: the transaction (`GETDEL` of the state), the identity provider and provisioning.

## 9. Plan

Done: inventory; the gate with its refinement; dispatch; resilient clients; stream; sessions; the agents, their
tools and the decisions on a plan; memory; retrieval; the safety properties of all of them as theorems. Next, in
this order:

1. Overlapping ingestions of one source in `Retrieval`.
2. Login transactions and provisioning in `Sessions`.
