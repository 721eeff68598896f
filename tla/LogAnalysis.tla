---------------------------- MODULE LogAnalysis ----------------------------
(***************************************************************************)
(* The Log Analyzer (agents/log_analyzer/analyzer.py) and its tools: the   *)
(* parser chain, entity extraction and correlation, as operators from the  *)
(* raw records and the failed sources to the analysis.                     *)
(*                                                                         *)
(* The text of a record is abstracted to what the parsers find in it:      *)
(*   shape    which layout it has        pairs     its key=value pairs     *)
(*   stamp    its time stamp             says      event types it mentions *)
(*   eventId  its event id               outcome   its outcome field       *)
(*   words    outcome words in it        host, actor, entities             *)
(*   marks    detection patterns in it   cves      CVE ids it names        *)
(* Times are whole numbers, Year of them to a year; confidences are in     *)
(* percent for an event and in parts of ten thousand for an agent.  The    *)
(* records and the events are sets: no two have one id, and where the code *)
(* sorts them the order is Earlier.                                        *)
(***************************************************************************)
EXTENDS Integers, Sequences, FiniteSets, SequencesExt, FiniteSetsExt

CONSTANTS
  None,         \* an absent value
  Year,         \* the length of a year
  Now,          \* the time the analysis runs
  Window,       \* the correlation and detection window
  MaxRecords    \* the records a file source returns at most

ASSUME NoneIsNoTime == None \notin Int
ASSUME AnalysisTimes == Year \in Nat \ {0} /\ {Now, Window, MaxRecords} \subseteq Nat

RoundDiv(a, b) == (2 * a + b) \div (2 * b)

\* The sum of the values of f.
Total(f) == MapThenSumSet(LAMBDA x : f[x], DOMAIN f)

\* The elements of S in the order of R, a set of pairs.
Sorted(S, R) ==
  [i \in 1..Cardinality(S) |-> CHOOSE x \in S : Cardinality({y \in S : <<y, x>> \in R}) = i - 1]

\* The formats in the order their parsers are tried.
DEFAULT_PARSERS ==
  <<"windows_event", "json", "syslog_rfc5424", "syslog_rfc3164", "cef", "key_value">>

\* The order in which the patterns of event types are searched for.
EVENT_TYPE_PATTERNS ==
  <<"auth_failure", "auth_success", "privilege_change", "account_change", "process_start",
    "network_connection", "service_control", "file_access", "configuration_change">>

\* The event ids that name a type by themselves.
WINDOWS_EVENT_IDS(id) ==
  CASE id \in {4624, 4634, 4648} -> "auth_success"
    [] id = 4625 -> "auth_failure"
    [] id \in {4672, 4673} -> "privilege_change"
    [] id = 4688 -> "process_start"
    [] id \in {4720, 4722, 4724, 4728, 4732, 4740} -> "account_change"
    [] id = 7045 -> "service_control"
    [] OTHER -> None

-----------------------------------------------------------------------------
(* Collection: what the sources return                                     *)

\* A line of a file that holds nothing is skipped, and the rest is cut at the limit.
FileFetch(lines) ==
  LET full == SelectSeq(lines, LAMBDA r : r.shape # "blank")
  IN  SubSeq(full, 1, Min({MaxRecords, Len(full)}))

\* What collect makes of the fetches: a source that fails or raises is
\* recorded and the others go on.
collect(fetches) ==
  [records  |-> UNION {ToSet(f.records) : f \in {g \in ToSet(fetches) : ~g.failed}},
   failures |-> {f.source : f \in {g \in ToSet(fetches) : g.failed}}]

-----------------------------------------------------------------------------
(* The parser chain                                                        *)

\* Does the parser of format p recognise the text?
CanParse(p, c) ==
  CASE p = "json"      -> c.shape \in {"windows_event", "json", "broken_json"}
    [] p = "cef"       -> c.shape \in {"cef", "short_cef"}
    [] p = "key_value" -> c.pairs >= 2
    [] OTHER           -> c.shape = p

\* Does its parse return a record?
Parses(p, c) ==
  CASE p \in {"windows_event", "json"} -> c.shape \in {"windows_event", "json"}
    [] p = "key_value"                 -> c.pairs >= 1
    [] OTHER                           -> c.shape = p

\* The declared format is honoured first, then the first parser that works.
parse_record(r) ==
  LET sniffed == {i \in DOMAIN DEFAULT_PARSERS :
                    CanParse(DEFAULT_PARSERS[i], r) /\ Parses(DEFAULT_PARSERS[i], r)}
  IN  CASE r.shape = "blank" -> None
        [] r.shape # "blank" /\ r.declared \in ToSet(DEFAULT_PARSERS)
             /\ Parses(r.declared, r) -> r.declared
        [] OTHER -> IF sniffed = {} THEN None ELSE DEFAULT_PARSERS[Min(sniffed)]

\* A time stamp without a year takes the year of the ingestion time (syslog)
\* or the current one; one that is no time at all is unknown.
parse_timestamp(p, r) ==
  CASE r.stamp.kind = "full"    -> r.stamp.at
    [] r.stamp.kind = "no_year" ->
         LET ref == IF p = "syslog_rfc3164" /\ r.received # None THEN r.received ELSE Now
         IN  (ref \div Year) * Year + r.stamp.at
    [] OTHER -> None

\* A stamp of the right form that names no day (30 February, or 29 February
\* in the year it is given): building the time raises.
Raises(r) == parse_record(r) # None /\ r.stamp.kind = "impossible"

\* The CEF parser looks at the presence of a stamp, the others at its meaning.
ParserConfidence(p, r, at) ==
  LET timed == IF p = "cef" THEN r.stamp.kind # "none" ELSE at # None
  IN  CASE p = "key_value"      -> IF timed THEN 80 ELSE 40
        [] p = "syslog_rfc3164" -> IF timed THEN 90 ELSE 50
        [] OTHER                -> IF timed THEN 100 ELSE 50

\* A known event id in the fields wins over the text; syslog has no fields.
classify_event_type(p, r) ==
  LET found == {i \in DOMAIN EVENT_TYPE_PATTERNS : EVENT_TYPE_PATTERNS[i] \in r.says}
      named == IF p \in {"syslog_rfc5424", "syslog_rfc3164"} THEN None ELSE WINDOWS_EVENT_IDS(r.eventId)
  IN  CASE named # None -> named
        [] OTHER -> IF found = {} THEN "other" ELSE EVENT_TYPE_PATTERNS[Min(found)]

outcome_from(p, r) ==
  CASE r.outcome # None /\ p \notin {"syslog_rfc5424", "syslog_rfc3164"} -> r.outcome
    [] OTHER -> IF "failure" \in r.words THEN "failure"
                ELSE IF "success" \in r.words THEN "success" ELSE None

\* The host and the actor are entities beside those found in the text.
extract_entities(r) ==
  r.entities \cup {e \in {[type |-> "host", value |-> r.host], [type |-> "user", value |-> r.actor]} :
                     e.value # None}

-----------------------------------------------------------------------------
(* Normalisation                                                           *)

TypeNotability ==
  [auth_failure |-> 60, privilege_change |-> 70, account_change |-> 60, process_start |-> 50,
   service_control |-> 50, network_connection |-> 40, configuration_change |-> 40,
   file_access |-> 30, auth_success |-> 20, other |-> 10]

EntityBonus == [file_hash |-> 15, ip |-> 10, url |-> 10, domain |-> 5, process |-> 5]

\* In parts of ten thousand; each type of entity counts once.
score_notability(type, entities, outcome, confidence) ==
  LET types    == {x.type : x \in entities}
      bonus(t) == IF t \in types THEN EntityBonus[t] ELSE 0
      score    == TypeNotability[type] + bonus("file_hash") + bonus("ip") + bonus("url")
                  + bonus("domain") + bonus("process") + (IF outcome = "failure" THEN 10 ELSE 0)
  IN  (IF score > 100 THEN 100 ELSE score) * confidence

\* None for a record that is quarantined: no parser takes it, or it has
\* neither a time of its own nor an ingestion time.
normalize(r) ==
  LET p          == parse_record(r)
      at         == parse_timestamp(p, r)
      type       == classify_event_type(p, r)
      outcome    == outcome_from(p, r)
      confidence == (ParserConfidence(p, r, at) * (IF at = None THEN 6 ELSE 10)) \div 10
  IN  IF p = None \/ (at = None /\ r.received = None) THEN None
      ELSE [id |-> r.id, source |-> r.source, time |-> IF at = None THEN r.received ELSE at,
            inferred |-> at = None, type |-> type, host |-> r.host, actor |-> r.actor,
            outcome |-> outcome, entities |-> extract_entities(r), marks |-> r.marks,
            cves |-> r.cves, confidence |-> confidence,
            notability |-> score_notability(type, extract_entities(r), outcome, confidence)]

Earlier(e, f) == e.time < f.time \/ (e.time = f.time /\ e.id < f.id)

-----------------------------------------------------------------------------
(* Correlation                                                             *)

\* The groups an event belongs to.
BucketKeys(e) ==
  {k \in {<<"shared_host", e.host>>, <<"shared_actor", e.actor>>} : k[2] # None}
  \cup {<<"shared_address", x.value>> : x \in {y \in e.entities : y.type = "ip"}}
  \cup {<<"shared_process", x.value>> : x \in {y \in e.entities : y.type = "process"}}

\* Windows of fixed length, counted from the first event.
SplitByStart(events) ==
  LET slot(e) == (e.time - Min({f.time : f \in events})) \div (Window + 1)
  IN  {{f \in events : slot(f) = slot(e)} : e \in events}

\* From e up to f no event is followed by a gap longer than the window.
Unbroken(events, e, f) ==
  \A g \in events : (g = e \/ Earlier(e, g)) /\ Earlier(g, f) =>
    \E h \in events : Earlier(g, h) /\ h.time - g.time <= Window

\* The longest runs of events no two neighbours of which are more than the
\* window apart.
split_by_gap(events) ==
  {{f \in events : Unbroken(events, e, f) /\ Unbroken(events, f, e)} : e \in events}

Ids(events) == {e.id : e \in events}

\* Each group's episodes of at least two distinct events.
correlate_events(events) ==
  UNION {{[kind |-> k[1], key |-> k[2], events |-> Ids(run)] :
            run \in {r \in split_by_gap({e \in events : k \in BucketKeys(e)}) : Cardinality(Ids(r)) >= 2}} :
         k \in UNION {BucketKeys(e) : e \in events}}

-----------------------------------------------------------------------------
(* Coverage                                                                *)

\* The part of the window the events lie in is less than half of it.
window_gap(window, events) ==
  LET in == {e.time : e \in {f \in events : window.start <= f.time /\ f.time <= window.end}}
  IN  /\ window # None
      /\ window.end > window.start
      /\ (in = {} \/ 2 * (Max(in) - Min(in)) < window.end - window.start)

coverage_gaps(request, events, quarantined, failures) ==
  {[kind |-> "source_unavailable", source |-> s] : s \in failures}
  \cup {[kind |-> "source_empty", source |-> s] :
          s \in request.sources \ (failures \cup {e.source : e \in events})}
  \cup {[kind |-> "parse_failure", source |-> r.source] : r \in quarantined}
  \cup {[kind |-> "window_uncovered", source |-> w] :
          w \in {x \in {None} : window_gap(request.window, events)}}

\* The sources that should have answered.
Requested(request) ==
  IF request.sources # {} THEN request.sources ELSE {r.source : r \in request.records}

\* Mean confidence of the events, by half of the coverage, by the share parsed.
analysis_confidence(request, events, quarantined) ==
  LET want == Requested(request)
      seen == {e.source : e \in events} \cap want
      sum  == Total([e \in events |-> e.confidence])
      all  == Cardinality(request.records)
  IN  IF events = {} THEN 0
      ELSE RoundDiv(100 * sum * (Cardinality(want) + Cardinality(seen)) * (all - Cardinality(quarantined)),
                    Cardinality(events) * 2 * Cardinality(want) * all)

\* The whole analysis of a batch; a record whose time cannot be built ends it.
analyze(request, failures) ==
  LET Analysis(events, quarantined) ==
        [events       |-> events,
         correlations |-> correlate_events(events),
         gaps         |-> coverage_gaps(request, events, quarantined, failures),
         quarantined  |-> quarantined,
         confidence   |-> analysis_confidence(request, events, quarantined)]
  IN  Analysis({normalize(r) : r \in {q \in request.records : normalize(q) # None}},
               {r \in request.records : normalize(r) = None})
=============================================================================
