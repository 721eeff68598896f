------------------------------ MODULE Pipeline ------------------------------
(***************************************************************************)
(* What an investigation concludes: the five agents in the order the graph *)
(* runs them (graph/nodes.py), the rows each stage leaves in the case      *)
(* record (backend/workers/investigations.py, _persist), and the decisions *)
(* people take on single recommendations (backend/services/remediation.py).*)
(*                                                                         *)
(* Module Investigation has the same run with its faults and its gate, and *)
(* abstracts the agents; here the agents are in full and the run meets no  *)
(* fault but that of a node.  The services an agent uses are arguments of  *)
(* its constructor, and None stands for one that is not given, as in the   *)
(* nodes of the graph, or not configured.                                  *)
(***************************************************************************)
EXTENDS Reporting

CONSTANTS
  Cases,        \* evidence, inventory and critical assets an investigation starts from
  Intel,        \* threat intelligence with detection knowledge: [provider, chunks]
  Feeds,        \* CVE feeds with the corpus behind them: [feed, corpus]
  Advisories,   \* advisory sources, None or their answer for each CVE
  Reviewers,    \* requests that decide on the first recommendation
  VersionOrder, \* readable versions, least first, for the reference definition
  Respelled     \* pairs of versions that differ in trailing zeros alone

VARIABLES
  stage,      \* the node that runs next, or how the run ended
  case,       \* what the investigation was seeded with
  analysis,   \* the results of the agents
  threat,
  dossier,
  report,
  plan,
  record,     \* the rows of the case record
  request     \* of each reviewer: where the decision stands

vars == <<stage, case, analysis, threat, dossier, report, plan, record, request>>

NoRows == [events |-> {}, verdict |-> None, findings |-> {}, report |-> None, decisions |-> <<>>]

\* What an investigation is seeded with.
Seeded(c) ==
  LET got == collect(c.fetches) IN
  [records |-> got.records, failures |-> got.failures, sources |-> c.sources,
   window |-> c.window, assets |-> c.assets, critical |-> c.critical]

\* What is asked of the CVE feed: ids the evidence names and products of the inventory.
NamedCves(c) == UNION {ToSet(r.cves) : r \in Seeded(c).records}
Products(c) == {s.product : s \in UNION {ToSet(a.software) : a \in ToSet(c.assets)}}

Asked == UNION {NamedCves(c) \cup Products(c) : c \in Cases}

IsSeq(s) == s \in Seq(ToSet(s))

\* Every record has an id of its own, and lists are lists.
ASSUME EvidenceShape ==
  \A c \in Cases :
    /\ IsFiniteSet(Seeded(c).records) /\ IsFiniteSet(Seeded(c).failures) /\ IsFiniteSet(c.sources)
    /\ \A r, q \in Seeded(c).records : r.id = q.id => r = q
    /\ \A r \in Seeded(c).records :
         /\ r.id \in Int /\ r.received \in Int \cup {None} /\ IsSeq(r.cves)
         /\ r.stamp.kind \in {"full", "no_year"} => r.stamp.at \in Int
    /\ IsSeq(c.assets) /\ \A i \in DOMAIN c.assets : IsSeq(c.assets[i].software)

\* The answers of the feed and the corpus are lists, and a score is a number.
ASSUME FeedShape ==
  \A f \in Feeds : \A q \in Asked :
    /\ f.feed # None /\ f.feed[q].status # "error" =>
         /\ IsSeq(f.feed[q].entries)
         /\ \A i \in DOMAIN f.feed[q].entries : LET e == f.feed[q].entries[i] IN
              /\ IsSeq(e.metrics) /\ IsSeq(e.matches)
              /\ \A j \in DOMAIN e.metrics : e.metrics[j] # None => e.metrics[j].score \in Nat
    /\ f.corpus # None =>
         /\ IsSeq(f.corpus[q])
         /\ \A i \in DOMAIN f.corpus[q] : LET k == f.corpus[q][i] IN
              IsSeq(k.ids) /\ (k.cvss # None => k.cvss.score \in Nat)

Init ==
  /\ stage = "log_analysis"
  /\ \E c \in Cases : case = Seeded(c)
  /\ analysis = None /\ threat = NoThreat /\ dossier = NoDossier /\ report = None /\ plan = None
  /\ record = NoRows
  /\ request = [r \in Reviewers |-> [at |-> "idle", decision |-> None]]

-----------------------------------------------------------------------------
(* The rows of the case record                                             *)

to_log_event(e) == [source |-> e.source, time |-> e.time, type |-> e.type, confidence |-> e.confidence]

\* The indicators keep who asserted what, so that unchecked is not clean.
to_threat_assessment(t) ==
  [verdict |-> t.verdict, severity |-> t.level, priority |-> t.priority, confidence |-> t.confidence,
   enrichment |-> t.enrichment, escalate |-> t.escalate,
   iocs |-> {[value |-> i.value, reputation |-> i.reputation, enriched |-> i.enriched] : i \in t.iocs}]

to_cve_finding(a) ==
  [id |-> a.record.id, applicability |-> a.applicability, cvss |-> a.record.cvss,
   mapped |-> Mapped(a), stale |-> a.record.stale]

to_report(r) == [summary |-> r.summary, body |-> r.body, status |-> "draft"]

\* Every recommendation starts pending, whatever the plan says.
to_recommendation(r) == [action |-> r.action, priority |-> r.priority, approval |-> "pending"]

-----------------------------------------------------------------------------
(* The nodes of the graph                                                  *)

log_analysis ==
  /\ stage = "log_analysis"
  /\ \A r \in case.records : ~Raises(r)
  /\ analysis' = analyze(case, case.failures)
  /\ record' = [record EXCEPT !.events = {to_log_event(e) : e \in analysis'.events}]
  /\ stage' = "threat_detection"
  /\ UNCHANGED <<case, threat, dossier, report, plan, request>>

\* Building the time of a record raises, which fails the node and the run.
log_analysis_fails ==
  /\ stage = "log_analysis"
  /\ \E r \in case.records : Raises(r)
  /\ stage' = "failed"
  /\ UNCHANGED <<case, analysis, threat, dossier, report, plan, record, request>>

\* A benign verdict skips the research.
route_after_threat(t) == IF t.verdict = "benign" THEN "report" ELSE "cve_research"

threat_detection ==
  /\ stage = "threat_detection"
  /\ \E i \in Intel :
       threat' = assess(analysis.events, analysis.gaps, i.provider, i.chunks, case.critical)
  /\ record' = [record EXCEPT !.verdict = to_threat_assessment(threat')]
  /\ stage' = route_after_threat(threat')
  /\ UNCHANGED <<case, analysis, dossier, report, plan, request>>

cve_research ==
  /\ stage = "cve_research"
  /\ \E f \in Feeds : dossier' = research(threat, case.assets, analysis.events, f.feed, f.corpus)
  /\ record' = [record EXCEPT !.findings =
                  {to_cve_finding(a) : a \in dossier'.confirmed \cup dossier'.candidates \cup dossier'.ruledOut}]
  /\ stage' = "report"
  /\ UNCHANGED <<case, analysis, threat, report, plan, request>>

\* The analysis reaches the reporter only if it found an event.
log_for_report(a) ==
  [ran |-> a.events # {}, events |-> a.events, gaps |-> IF a.events = {} THEN {} ELSE a.gaps]

draft ==
  /\ stage = "report"
  /\ report' = draft_report(log_for_report(analysis), threat, dossier, case.critical)
  /\ record' = [record EXCEPT !.report = to_report(report')]
  /\ stage' = "remediation"
  /\ UNCHANGED <<case, analysis, threat, dossier, plan, request>>

remediation ==
  /\ stage = "remediation"
  /\ \E a \in Advisories : plan' = recommend(threat, dossier, case.assets, case.critical, a)
  /\ record' = [record EXCEPT !.decisions = [i \in DOMAIN plan'.recommendations |->
                                               to_recommendation(plan'.recommendations[i])]]
  /\ stage' = "triage"
  /\ UNCHANGED <<case, analysis, threat, dossier, report, request>>

triage ==
  /\ stage = "triage"
  /\ stage' = "awaiting_approval"
  /\ UNCHANGED <<case, analysis, threat, dossier, report, plan, record, request>>

-----------------------------------------------------------------------------
(* Decisions on a recommendation                                           *)

\* The decision is refused once the row was decided.
Undecided(row) == row.approval = "pending"

_DECIDABLE == {"approved", "rejected", "edited"}

\* The first half of decide_recommendation: load the row and check it.  The
\* endpoint asks only that the row exists, wherever the case is by then.
decide_loads(r) ==
  /\ record.decisions # <<>>
  /\ request[r].at = "idle"
  /\ request' = [request EXCEPT ![r] =
                   [at |-> IF Undecided(Head(record.decisions)) THEN "loaded" ELSE "refused",
                    decision |-> None]]
  /\ UNCHANGED <<stage, case, analysis, threat, dossier, report, plan, record>>

\* The second half: the decision is written to the row that was loaded.
decide_writes(r) ==
  /\ request[r].at = "loaded"
  /\ \E d \in _DECIDABLE :
       /\ record' = [record EXCEPT !.decisions[1].approval = d]
       /\ request' = [request EXCEPT ![r].at = "done", ![r].decision = d]
  /\ UNCHANGED <<stage, case, analysis, threat, dossier, report, plan>>

Next ==
  \/ log_analysis \/ log_analysis_fails \/ threat_detection \/ cve_research
  \/ draft \/ remediation \/ triage
  \/ \E r \in Reviewers : decide_loads(r) \/ decide_writes(r)

Spec == Init /\ [][Next]_vars

-----------------------------------------------------------------------------
(* Properties                                                              *)

Scale == 0..10000   \* confidences
Risks == 0..100     \* risks and scores

TypeOK ==
  /\ stage \in {"log_analysis", "threat_detection", "cve_research", "report", "remediation",
                "triage", "awaiting_approval", "failed"}
  /\ \A r \in Reviewers : request[r].at \in {"idle", "loaded", "refused", "done"}
  /\ threat.confidence \in Scale /\ threat.score \in Risks
  /\ dossier.confidence \in Scale
  /\ report # None => report.confidence \in Scale
  /\ plan # None => plan.confidence \in Scale /\ plan.overall \in Risks

\* Events of one correlation form an unbroken chain.
Chained(C) ==
  \A e \in C : (\E f \in C : Earlier(e, f)) => \E f \in C : Earlier(e, f) /\ f.time - e.time <= Window

\* The analysis loses nothing and says what it could not see: every record
\* became an event or is quarantined, a requested source without events has a
\* gap, and two events that share a host, person, address or process within
\* the window are in one correlation, whose events are an unbroken chain
\* (analyzer.py analyze, correlation.py correlate_events).
AnalysisSound ==
  /\ TypeOK
  /\ analysis # None =>
     LET events == analysis.events IN
     /\ \A r \in case.records : (r.id \in Ids(analysis.events)) # (r \in analysis.quarantined)
     /\ \A s \in case.sources \cup case.failures :
          (\E e \in events : e.source = s) \/ (\E g \in analysis.gaps : g.source = s)
     /\ \A e, f \in events : \A k \in BucketKeys(e) \cap BucketKeys(f) :
          e # f /\ e.time - f.time \in -Window..Window =>
          \E c \in analysis.correlations : c.kind = k[1] /\ c.key = k[2] /\ {e.id, f.id} \subseteq c.events
     /\ \A c \in analysis.correlations : Chained({e \in events : e.id \in c.events})

HasCaveat(kind) == \E c \in report.caveats : c.kind = kind

\* What the stages did not see or could not check is stated in the report: a
\* gap in the evidence, an indicator nobody was asked about, research from old
\* data, a vulnerability that was not confirmed, a timeline cut short (which
\* keeps the most notable events); a report on no evidence has no confidence,
\* and every finding rests on events or on a CVE (reporter.py report).
UncertaintyReported ==
  report # None =>
    /\ \A g \in analysis.gaps :
         \/ \E c \in report.caveats : c.kind = "coverage_gap" /\ c.of.kind = g.kind /\ c.of.source = g.source
         \/ analysis.events = {} /\ HasCaveat("missing_section") /\ report.confidence = 0
    /\ (\E i \in threat.iocs : i.type \in ENRICHABLE_TYPES /\ ~i.internal /\ ~i.enriched) =>
         HasCaveat("degraded_enrichment")
    /\ (\E f \in record.findings : f.stale) => HasCaveat("stale_research")
    /\ (\E f \in record.findings : f.applicability = "candidate") => HasCaveat("unconfirmed_applicability")
    /\ \A e \in analysis.events \ report.body.timeline :
         /\ HasCaveat("timeline_truncated")
         /\ \A f \in report.body.timeline : f.notability >= e.notability
    /\ \A f \in report.body.findings :
         f.events \subseteq Ids(analysis.events) /\ (f.events # {} \/ f.cves \subseteq report.body.cves)
    /\ \A v \in {f.id : f \in {g \in record.findings : g.applicability = "confirmed"}} : v \in report.body.cves

\* The reference order of versions: the place in the list.
Place(v) == CHOOSE i \in DOMAIN VersionOrder : VersionOrder[i] = v

Readable(v) == v \in ToSet(VersionOrder)

\* The versions of the inventories, and those a feed gives as bounds.
InstalledVersions ==
  {s.version : s \in UNION {ToSet(a.software) : a \in UNION {ToSet(c.assets) : c \in Cases}}}

FeedEntries ==
  UNION {IF f.feed = None THEN {}
         ELSE UNION {ToSet(f.feed[q].entries) : q \in {x \in Asked : f.feed[x].status # "error"}} : f \in Feeds}

BoundVersions ==
  UNION {{m.startIncl, m.startExcl, m.endIncl, m.endExcl} : m \in UNION {ToSet(e.matches) : e \in FeedEntries}}

\* The code reads the versions of the list and no others that occur, and puts
\* them in the order of the list, except those that differ in trailing zeros.
VersionsAgree ==
  /\ IsSeq(VersionOrder) /\ None \notin ToSet(VersionOrder)
  /\ \A v \in (InstalledVersions \cup BoundVersions) \ {None} : Readable(v) <=> parse_version(v) # None
  /\ \A v, w \in ToSet(VersionOrder) : {<<v, w>>, <<w, v>>} \cap Respelled = {} =>
       (VersionLess(parse_version(v), parse_version(w)) <=> Place(v) < Place(w))

\* The versions a bound allows, by the reference order.
Within(v, b) ==
  CASE b.op = "ge" -> Place(v) >= Place(b.at) [] b.op = "gt" -> Place(v) > Place(b.at)
    [] b.op = "le" -> Place(v) <= Place(b.at) [] b.op = "lt" -> Place(v) < Place(b.at)

\* Installations of a product a record affects, with the range.
Exposures(cve, assets) ==
  {x \in {[product |-> i.product, version |-> i.version, range |-> g] :
            i \in UNION {ToSet(h.software) : h \in ToSet(assets)}, g \in ToSet(cve.affected)} :
     products_match(x.product, x.range.product)}

\* The bounds that are given.
Limits(range) == {b \in ToSet(Bounds(range)) : b.at # None}

Plain(x) == \A b \in Limits(x.range) : {<<x.version, b.at>>, <<b.at, x.version>>} \cap Respelled = {}

Inside(x) ==
  /\ Readable(x.version)
  /\ \A b \in Limits(x.range) : Readable(b.at) /\ Within(x.version, b)

Outside(x) ==
  Readable(x.version) /\ \E b \in Limits(x.range) : Readable(b.at) /\ ~Within(x.version, b)

Legible(x) == \A b \in Limits(x.range) : Readable(b.at)

\* A vulnerability is confirmed exactly when an installation is known to be in
\* its range, is ruled out only when every installation of the product is known
\* to be outside, and is ruled out then if all bounds can be read; a version
\* nobody can read does neither, and an entry without a range neither.  Versions
\* that differ from a bound in trailing zeros alone are left out (versions.py
\* assess_applicability).
ApplicabilitySound ==
  dossier.ran =>
    \A a \in dossier.confirmed \cup dossier.candidates \cup dossier.ruledOut :
      LET X == Exposures(a.record, case.assets) IN
      (\A x \in X : Plain(x)) =>
        /\ (a \in dossier.confirmed) <=> (\E x \in X : Inside(x))
        /\ a \in dossier.ruledOut => X # {} /\ \A x \in X : Outside(x)
        /\ (X # {} /\ \A x \in X : Outside(x) /\ Legible(x)) => a \in dossier.ruledOut

\* What is not pending any more is what some reviewer decided.
DecidedByAPerson ==
  \A i \in DOMAIN record.decisions : record.decisions[i].approval # "pending" =>
    \E r \in Reviewers : request[r].at = "done" /\ request[r].decision = record.decisions[i].approval

\* The plan answers the findings and no more: a benign case gets none, every
\* other case at least one; only confirmed vulnerabilities are patched and only
\* hosts of the inventory are targets; each technique and each vulnerability
\* that was not ruled out is answered, unless by something held back, which
\* never goes before what was kept; and every row waits for a person until
\* one decides (recommender.py recommend).
PlanSound ==
  plan # None =>
    LET kept == ToSet(plan.recommendations)
        all  == kept \cup plan.heldBack
        open == {a.record.id : a \in dossier.confirmed \cup dossier.candidates}
    IN
    /\ (threat.verdict = "benign") <=> (kept = {})
    /\ \A r \in all : r.action.kind = "patch" => \E a \in dossier.confirmed : a.record.id = r.action.of
    /\ \A r \in all : r.targets \subseteq {a.host : a \in ToSet(case.assets)} /\ r.citations # {}
    /\ {t.id : t \in threat.techniques} \subseteq UNION {r.techniques : r \in all}
    /\ open \subseteq UNION {r.cves : r \in all}
    /\ \A r \in kept, h \in plan.heldBack : PriorityRank[r.priority] <= PriorityRank[h.priority]
    /\ DecidedByAPerson
=============================================================================
