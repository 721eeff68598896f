----------------------------- MODULE Reporting -----------------------------
(***************************************************************************)
(* The Incident Reporter (agents/incident_reporter/reporter.py) with the   *)
(* assembly (tools/reporting.py) and the rendering (tools/rendering.py) of *)
(* a report, as operators from what the earlier stages left to the draft.  *)
(* A stage that left nothing did not run.  The text of a report is         *)
(* abstracted to the facts it states.                                      *)
(***************************************************************************)
EXTENDS Remediation

CONSTANT MaxTimeline   \* entries of a timeline, max_timeline_entries

ASSUME TimelineLimit == MaxTimeline \in Nat \ {0}

LOW_CONFIDENCE_THRESHOLD == 6000

-----------------------------------------------------------------------------
(* Assembly                                                                *)

\* Over the limit the most notable entries stay.
assemble_timeline(events) ==
  LET notable(e, f) == e.notability > f.notability \/ (e.notability = f.notability /\ Earlier(e, f))
      kept == {e \in events : Cardinality({f \in events : notable(f, e)}) < MaxTimeline}
  IN  [entries |-> kept, omitted |-> Cardinality(events) - Cardinality(kept)]

\* Hosts the events name and hosts of confirmed vulnerabilities.
collect_affected_assets(events, confirmed, critical) ==
  LET seen(h) == {e.time : e \in {f \in events : f.host = h}}
      hits(h) == {a.record.id : a \in {b \in confirmed : \E x \in ToSet(b.evidence) : x.host = h}}
      hosts   == {e.host : e \in events}
                 \cup {x.host : x \in UNION {ToSet(a.evidence) : a \in confirmed}}
  IN  {[host |-> h, count |-> Cardinality({e \in events : e.host = h}),
        first |-> IF seen(h) = {} THEN None ELSE Min(seen(h)),
        last  |-> IF seen(h) = {} THEN None ELSE Max(seen(h)),
        critical |-> h \in critical, cves |-> hits(h)] : h \in hosts \ {None}}

\* Each source once.
compile_citations(threat, dossier) ==
  threat.citations
  \cup UNION {a.citations : a \in dossier.confirmed \cup dossier.candidates \cup dossier.ruledOut}

-----------------------------------------------------------------------------
(* Caveats                                                                 *)

sections_present(log, threat, dossier) ==
  {s \in {"evidence", "threat", "vulnerability"} :
     CASE s = "evidence" -> log.ran [] s = "threat" -> threat.ran [] OTHER -> dossier.ran}

\* A benign case is not expected to have been researched.
sections_expected(threat) ==
  {"evidence", "threat"} \cup {s \in {"vulnerability"} : threat.ran /\ threat.verdict # "benign"}

\* The kinds that hold, of those given with their conditions.
Caveats(conditions) == {[kind |-> k, of |-> None] : k \in {x \in DOMAIN conditions : conditions[x]}}

missing_section_caveats(missing) == {[kind |-> "missing_section", of |-> [section |-> s]] : s \in missing}

evidence_caveats(gaps) ==
  {[kind |-> "coverage_gap", of |-> [section |-> "evidence", kind |-> g.kind, source |-> g.source]] : g \in gaps}

threat_caveats(threat) ==
  IF ~threat.ran THEN {}
  ELSE Caveats([low_confidence      |-> threat.confidence < LOW_CONFIDENCE_THRESHOLD,
                degraded_enrichment |-> threat.enrichment # "complete",
                escalation_required |-> threat.escalate])

\* Research that fell back on the corpus is not told from the live feed's.
CaveatsOfCandidates(dossier) ==
  IF ~dossier.ran THEN {}
  ELSE Caveats([unconfirmed_applicability |-> dossier.candidates # {}])

vulnerability_caveats(dossier) ==
  IF ~dossier.ran THEN {}
  ELSE Caveats([stale_research            |-> dossier.stale,
                unconfirmed_applicability |-> dossier.candidates # {}])

-----------------------------------------------------------------------------
(* Findings                                                                *)

\* A finding with all it rests on.
Finding(section, events, rules, techniques, indicators, cves) ==
  [section |-> section, events |-> events, rules |-> rules, techniques |-> techniques,
   indicators |-> indicators, cves |-> cves]

evidence_findings(events) ==
  IF events = {} THEN {} ELSE {Finding("evidence", Ids(events), {}, {}, {}, {})}

\* One for each signal and for each indicator reported hostile.
threat_findings(threat) ==
  {Finding("threat", s.events, {s.rule}, s.techniques, {}, {}) : s \in threat.signals}
  \cup {Finding("threat", i.events, {}, {}, {i.value}, {}) : i \in {j \in threat.iocs : is_hostile(j)}}

\* One for each confirmed vulnerability, with the activity it was tied to.
vulnerability_findings(dossier) ==
  {Finding("vulnerability", a.mapping.events, {}, a.mapping.techniques, {}, {a.record.id}) :
     a \in dossier.confirmed}

-----------------------------------------------------------------------------
(* The report                                                              *)

\* The mean of the stages that answered, by the share of expected sections.
report_confidence(threat, dossier, expected, present) ==
  LET one(x)   == IF x.ran THEN 1 ELSE 0
      upstream == one(threat) + one(dossier)
  IN  IF upstream = 0 THEN 0
      ELSE RoundDiv((threat.confidence + dossier.confidence) * Cardinality(present \cap expected),
                    upstream * Cardinality(expected))

\* What the summary for executives says of the report.
render_executive_summary(r) ==
  [verdict |-> r.verdict, severity |-> r.severity, hosts |-> {a.host : a \in r.assets},
   confirmed |-> Cardinality(r.cves), caveats |-> Cardinality(r.caveats),
   confidence |-> r.confidence]

\* What the technical body lists.
render_technical_body(r) ==
  [timeline |-> r.timeline, findings |-> r.findings, assets |-> r.assets,
   indicators |-> r.indicators, techniques |-> r.techniques, cves |-> r.cves,
   caveats |-> r.caveats, references |-> r.citations]

draft_report(log, threat, dossier, critical) ==
  LET present  == sections_present(log, threat, dossier)
      expected == sections_expected(threat)
      timeline == assemble_timeline(log.events)
      r == [verdict    |-> threat.verdict,
            severity   |-> threat.level,
            timeline   |-> timeline.entries,
            caveats    |-> missing_section_caveats(expected \ present)
                           \cup Caveats([timeline_truncated |-> timeline.omitted > 0])
                           \cup evidence_caveats(log.gaps)
                           \cup threat_caveats(threat) \cup vulnerability_caveats(dossier),
            findings   |-> evidence_findings(log.events) \cup threat_findings(threat)
                           \cup vulnerability_findings(dossier),
            assets     |-> collect_affected_assets(log.events, dossier.confirmed, critical),
            indicators |-> threat.iocs,
            techniques |-> {t.id : t \in threat.techniques},
            cves       |-> {a.record.id : a \in dossier.confirmed},
            citations  |-> compile_citations(threat, dossier),
            confidence |-> report_confidence(threat, dossier, expected, present)]
  IN  [status |-> "draft", confidence |-> r.confidence, caveats |-> r.caveats,
       summary |-> render_executive_summary(r), body |-> render_technical_body(r)]
=============================================================================
