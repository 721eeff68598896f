-------------------------- MODULE ThreatDetection --------------------------
(***************************************************************************)
(* The Threat Detector (agents/threat_detector/detector.py) and its tools: *)
(* detection rules, indicators and their reputation, ATT&CK techniques,    *)
(* severity and verdict, as operators from the analysed events to the      *)
(* assessment.  Weights and scores are in tenths, confidences in parts of  *)
(* ten thousand.  Names of hosts, people and indicators are numbers, whose *)
(* order stands for the order of the strings.                              *)
(***************************************************************************)
EXTENDS LogAnalysis

CONSTANTS
  Internal,       \* the addresses inside the estate
  MaxIndicators   \* indicators looked up at most, max_indicators

ASSUME IndicatorBudget == Internal \subseteq Nat /\ MaxIndicators \in Nat

-----------------------------------------------------------------------------
(* Indicators and their reputation                                         *)

\* The types of entity that are indicators, in the order of their names, and
\* those a provider is asked about.
IocRank == [domain |-> 1, file_hash |-> 2, file_path |-> 3, ip |-> 4, process |-> 5, url |-> 6]
ENRICHABLE_TYPES == {"ip", "domain", "url", "file_hash"}

is_internal(x) == x.type \in {"ip", "domain"} /\ x.value \in Internal

\* One indicator for each value.
extract_iocs(events) ==
  LET found  == UNION {{x \in e.entities : x.type \in DOMAIN IocRank} : e \in events}
      hits(x) == {e \in events : x \in e.entities}
  IN  {[type |-> x.type, value |-> x.value, internal |-> is_internal(x), events |-> Ids(hits(x)),
        count |-> Cardinality(hits(x)), reputation |-> "unknown", enriched |-> FALSE] : x \in found}

\* The order of the indicators: the most observed first.
MoreObserved(i, j) ==
  \/ i.count > j.count
  \/ i.count = j.count /\ IocRank[i.type] < IocRank[j.type]
  \/ i.count = j.count /\ i.type = j.type /\ i.value < j.value

classify_analysis_stats(stats) ==
  CASE stats.malicious >= 3                          -> "malicious"
    [] stats.malicious \in 1..2                      -> "suspicious"
    [] stats.malicious = 0 /\ stats.suspicious >= 3  -> "suspicious"
    [] stats.malicious = 0 /\ stats.suspicious < 3 /\ stats.harmless > 0 -> "harmless"
    [] OTHER                                         -> "unknown"

\* One lookup: a value the service has no record of is unknown, and an error
\* falls back on a verdict that has expired.
lookup(answer) ==
  CASE answer.status = "ok"        ->
         [ok |-> TRUE, reputation |-> classify_analysis_stats(answer.stats), stale |-> FALSE]
    [] answer.status = "not_found" -> [ok |-> TRUE, reputation |-> "unknown", stale |-> FALSE]
    [] answer.status = "error"     ->
         [ok |-> answer.expired, stale |-> TRUE,
          reputation |-> IF answer.expired THEN classify_analysis_stats(answer.stats) ELSE "unknown"]

\* The first indicators within the budget are looked up.  The provider is None
\* when it is not available, else its answer to each value.
enrich_indicators(iocs, provider) ==
  LET eligible  == {i \in iocs : i.type \in ENRICHABLE_TYPES /\ ~i.internal}
      budgeted  == {i \in eligible : Cardinality({j \in eligible : MoreObserved(j, i)}) < MaxIndicators}
      result(i) == lookup(provider[i.value])
      good      == {i \in budgeted : result(i).ok}
      answered(i) == [type |-> i.type, value |-> i.value, internal |-> i.internal, events |-> i.events,
                      count |-> i.count, reputation |-> result(i).reputation, enriched |-> TRUE]
  IN  IF provider = None THEN [iocs |-> iocs, status |-> "unavailable"]
      ELSE [iocs   |-> (iocs \ good) \cup {answered(i) : i \in good},
            status |-> IF eligible = {} THEN "complete"
                       ELSE IF good = {} THEN "unavailable"
                       ELSE IF good # eligible \/ \E i \in good : result(i).stale
                       THEN "degraded" ELSE "complete"]

is_hostile(ioc) == ioc.enriched /\ ioc.reputation \in {"malicious", "suspicious"}

-----------------------------------------------------------------------------
(* Detection rules                                                         *)

BRUTE_FORCE_THRESHOLD  == 5
BREAKTHROUGH_THRESHOLD == 3
BEACONING_THRESHOLD    == 3

\* Every rule with its weight and the techniques it supports.
DEFAULT_RULES ==
  [brute_force_authentication   |-> [weight |-> 55, techniques |-> {"T1110"}],
   authentication_breakthrough  |-> [weight |-> 75, techniques |-> {"T1110", "T1078"}],
   privilege_change_observed    |-> [weight |-> 60, techniques |-> {"T1068", "T1548"}],
   account_created              |-> [weight |-> 50, techniques |-> {"T1136"}],
   account_elevated             |-> [weight |-> 65, techniques |-> {"T1098", "T1078"}],
   script_interpreter_execution |-> [weight |-> 25, techniques |-> {"T1059"}],
   encoded_command_execution    |-> [weight |-> 75, techniques |-> {"T1027", "T1059.001"}],
   proxy_binary_execution       |-> [weight |-> 60, techniques |-> {"T1218"}],
   ingress_tool_transfer        |-> [weight |-> 60, techniques |-> {"T1105"}],
   service_installed            |-> [weight |-> 55, techniques |-> {"T1543", "T1569"}],
   scheduled_task_created       |-> [weight |-> 55, techniques |-> {"T1053"}],
   audit_log_cleared            |-> [weight |-> 80, techniques |-> {"T1070", "T1070.001"}],
   security_tooling_disabled    |-> [weight |-> 75, techniques |-> {"T1562"}],
   remote_service_activity      |-> [weight |-> 35, techniques |-> {"T1021"}],
   external_beaconing           |-> [weight |-> 45, techniques |-> {"T1071"}]]

\* A signal: the events a rule matched, and the hosts, people or destinations
\* its detail names.
Signal(rule, events, names) ==
  [rule |-> rule, weight |-> DEFAULT_RULES[rule].weight,
   techniques |-> DEFAULT_RULES[rule].techniques, events |-> events, names |-> names]

\* The rules that match single events: by type for a privilege change, else
\* by a pattern, the interpreters only where a process starts.
MatchesRule(e, rule) ==
  CASE rule = "privilege_change_observed"    -> e.type = "privilege_change"
    [] rule = "script_interpreter_execution" -> rule \in e.marks /\ e.type = "process_start"
    [] OTHER                                 -> rule \in e.marks

SingleMatches(events) ==
  LET by(rule)     == {e \in events : MatchesRule(e, rule)}
      named(found) == UNION {{e.host, e.actor} : e \in found} \ {None}
  IN  {Signal(rule, Ids(by(rule)), named(by(rule))) :
         rule \in {r \in DOMAIN DEFAULT_RULES : by(r) # {}}}

principal(e) == IF e.actor # None THEN e.actor ELSE e.host

\* The events of the given types, for each principal.
group_by_principal(events, types) ==
  [who \in {principal(e) : e \in events} \ {None} |->
     {e \in events : e.type \in types /\ principal(e) = who}]

detect_brute_force(events) ==
  LET by == group_by_principal(events, {"auth_failure"}) IN
  UNION {{Signal("brute_force_authentication", Ids(burst), {who}) :
            burst \in {b \in split_by_gap(by[who]) : Cardinality(b) >= BRUTE_FORCE_THRESHOLD}} :
         who \in DOMAIN by}

\* The run of failures a success ends: those without a gap or a success between.
FailuresBefore(events, success) ==
  {f \in events : /\ f.type = "auth_failure" /\ Earlier(f, success) /\ Unbroken(events, f, success)
                  /\ \A g \in events : Earlier(f, g) /\ Earlier(g, success) => g.type # "auth_success"}

detect_breakthrough(events) ==
  LET by == group_by_principal(events, {"auth_failure", "auth_success"})
      won(who) == {s \in by[who] : /\ s.type = "auth_success"
                                  /\ Cardinality(FailuresBefore(by[who], s)) >= BREAKTHROUGH_THRESHOLD}
  IN  UNION {{Signal("authentication_breakthrough", Ids(FailuresBefore(by[who], s) \cup {s}), {who}) :
                s \in won(who)} : who \in DOMAIN by}

detect_beaconing(events) ==
  LET calls(v) == {e.id : e \in {f \in events :
                     /\ f.type = "network_connection"
                     /\ \E x \in f.entities : x.type \in {"ip", "domain"} /\ x.value = v}}
      outside  == {x.value : x \in {y \in UNION {e.entities : e \in events} :
                                      y.type \in {"ip", "domain"}}} \ Internal
  IN  {Signal("external_beaconing", calls(v), {v}) :
         v \in {w \in outside : Cardinality(calls(w)) >= BEACONING_THRESHOLD}}

evaluate_rules(events) ==
  SingleMatches(events) \cup detect_brute_force(events)
    \cup detect_breakthrough(events) \cup detect_beaconing(events)

\* Threat intelligence counts as one more rule, over the malicious indicators
\* when there are any.
signal_from_hostile_indicators(iocs) ==
  LET hostile   == {i \in iocs : is_hostile(i)}
      malicious == {i \in hostile : i.reputation = "malicious"}
      graded    == IF malicious # {} THEN malicious ELSE hostile
  IN  IF hostile = {} THEN {}
      ELSE {[rule |-> "hostile_indicator_confirmed", weight |-> IF malicious # {} THEN 85 ELSE 60,
             techniques |-> {}, events |-> UNION {i.events : i \in graded},
             names |-> {i.value : i \in graded}]}

-----------------------------------------------------------------------------
(* Techniques, severity and verdict                                        *)

\* The techniques of the catalogue.
TECHNIQUES ==
  {"T1021", "T1027", "T1041", "T1053", "T1059", "T1059.001", "T1068", "T1070", "T1070.001", "T1071",
   "T1078", "T1098", "T1105", "T1110", "T1136", "T1218", "T1543", "T1548", "T1562", "T1569"}

\* The signals that support each technique that is in the catalogue.
map_techniques(signals) ==
  {LET by == {s \in signals : t \in s.techniques} IN
   [id |-> t, rules |-> {s.rule : s \in by}, events |-> UNION {s.events : s \in by},
    confidence |-> Min({9500, 4000 + 50 * Max({s.weight : s \in by}) + 1200 * (Cardinality(by) - 1)})] :
   t \in TECHNIQUES \cap UNION {s.techniques : s \in signals}}

\* Rules strong enough to corroborate each other.
corroborating_rules(signals) == {s.rule : s \in {t \in signals : t.weight >= 40}}

severity_level(score) ==
  CASE score >= 90 -> "critical" [] score \in 70..89 -> "high" [] score \in 40..69 -> "medium"
    [] score \in 1..39 -> "low"  [] OTHER -> "info"

score_severity(signals, critical) ==
  LET corroboration == Max({0, Min({20, 5 * (Cardinality(corroborating_rules(signals)) - 1)})})
      bonus == IF critical # {} THEN 10 ELSE 0
  IN  IF signals = {} THEN 0
      ELSE Min({100, Max({s.weight : s \in signals}) + corroboration + bonus})

derive_verdict(score, signals, iocs) ==
  CASE signals = {} -> "benign"
    [] signals # {} /\ \E i \in iocs : is_hostile(i) -> "malicious"
    [] OTHER -> IF score >= 70 /\ Cardinality(corroborating_rules(signals)) >= 2
                THEN "malicious" ELSE "suspicious"

triage_priority(verdict, level, critical) ==
  CASE verdict = "benign" -> "low"
    [] verdict # "benign" /\ (level = "critical" \/ (critical # {} /\ verdict = "malicious")) -> "urgent"
    [] OTHER -> IF level = "high" \/ critical # {} THEN "high"
                ELSE IF level = "medium" THEN "medium" ELSE "low"

\* High impact that is not conclusive goes to a human.
assess_escalation(verdict, level, confidence, critical, gaps) ==
  /\ level \in {"high", "critical"} \/ critical # {}
  /\ verdict # "benign"
  /\ confidence < 6000 \/ gaps # {} \/ verdict = "suspicious"

EnrichmentConfidence == [complete |-> 100, degraded |-> 85, unavailable |-> 70]

threat_confidence(events, signals, status, gaps) ==
  LET quality == Total([e \in events |-> e.confidence])
      strong  == Cardinality(corroborating_rules(signals))
      corroboration == CASE signals = {} -> 80
                         [] signals # {} /\ strong = 0 -> 50
                         [] OTHER -> Min({100, 50 + 25 * (strong - 1)})
      gapFactor == Max({60, 100 - 10 * Cardinality(gaps)})
  IN  IF events = {} THEN 0
      ELSE RoundDiv(quality * corroboration * EnrichmentConfidence[status] * gapFactor,
                    Cardinality(events) * 10000)

\* Detection knowledge grounds an assessment that has a signal; chunks is None
\* when no knowledge is attached or it is not available.
Consulted(signals, chunks) == chunks # None /\ signals # {}

ground(techniques, signals, chunks) ==
  {<<"attack", t.id>> : t \in techniques} \cup (IF Consulted(signals, chunks) THEN chunks ELSE {})

\* What was observed and what is concluded from it.
build_claims(signals, iocs, techniques, verdict, status) ==
  {[kind |-> "observation", of |-> s.rule] : s \in signals}
  \cup {[kind |-> "observation", of |-> "indicator"] : i \in {j \in iocs : j.enriched}}
  \cup {[kind |-> "observation", of |-> x] : x \in {y \in {"enrichment"} : status # "complete"}}
  \cup {[kind |-> "inference", of |-> t.id] : t \in techniques}
  \cup {[kind |-> "inference", of |-> verdict]}

\* Where the detector did not run.
NoThreat ==
  [ran |-> FALSE, verdict |-> None, score |-> 0, level |-> None, iocs |-> {}, enrichment |-> None,
   signals |-> {}, techniques |-> {}, priority |-> None, claims |-> {}, escalate |-> FALSE,
   confidence |-> 0, citations |-> {}, grounded |-> FALSE]

assess(events, gaps, provider, chunks, criticalAssets) ==
  LET critical == criticalAssets \cap {e.host : e \in events}
      Assessment(enriched, signals, techniques, score, level, verdict, confidence) ==
        [ran |-> TRUE, verdict |-> verdict, score |-> score, level |-> level, iocs |-> enriched.iocs,
         enrichment |-> enriched.status, signals |-> signals, techniques |-> techniques,
         priority |-> triage_priority(verdict, level, critical),
         claims |-> build_claims(signals, enriched.iocs, techniques, verdict, enriched.status),
         escalate |-> assess_escalation(verdict, level, confidence, critical, gaps),
         confidence |-> confidence, citations |-> ground(techniques, signals, chunks),
         grounded |-> IF Consulted(signals, chunks) THEN chunks # {} ELSE FALSE]
      Judged(enriched, signals, score) ==
        Assessment(enriched, signals, map_techniques(signals), score, severity_level(score),
                   derive_verdict(score, signals, enriched.iocs),
                   threat_confidence(events, signals, enriched.status, gaps))
      Weighed(enriched, signals) == Judged(enriched, signals, score_severity(signals, critical))
      Detected(enriched) ==
        Weighed(enriched, evaluate_rules(events) \cup signal_from_hostile_indicators(enriched.iocs))
  IN  Detected(enrich_indicators(extract_iocs(events), provider))
=============================================================================
