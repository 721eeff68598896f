---------------------------- MODULE VulnResearch ----------------------------
(***************************************************************************)
(* CVE research (agents/cve_research/researcher.py) and its tools: version *)
(* comparison, applicability to the inventory, and the CVE feed with the   *)
(* indexed corpus behind it, as operators from the assessment and the      *)
(* inventory to the dossier.                                               *)
(*                                                                         *)
(* A version is the sequence of its tokens, [word, n]: "2.15-rc1" is       *)
(* <<[word |-> "", n |-> 2], [word |-> "", n |-> 15], [word |-> "rc",      *)
(* n |-> 1]>>, and n is -1 for a word without digits.                      *)
(***************************************************************************)
EXTENDS ThreatDetection

CONSTANTS
  ProductTokens,    \* the distinctive words of each product name
  Containing,       \* pairs of names one of which contains the other
  MentionsCve,      \* pairs of an indicator and a CVE id in its text
  MentionsProduct,  \* pairs of an indicator and a product its text matches
  MaxProducts       \* products searched at most, max_products

ASSUME ResearchBudget == MaxProducts \in Nat
ASSUME ProductWords == IsFiniteSet(DOMAIN ProductTokens)

\* The elements of a sequence, each where it comes first.
Unique(seq) ==
  FlattenSeq([i \in DOMAIN seq |-> IF \E j \in 1..(i - 1) : seq[j] = seq[i] THEN <<>> ELSE <<seq[i]>>])

-----------------------------------------------------------------------------
(* Versions                                                                *)

RELEASE_WORDS == {"release", "final", "ga", "stable"}
PRERELEASE_RANK ==
  [dev |-> 0, alpha |-> 1, a |-> 1, beta |-> 2, b |-> 2, milestone |-> 3, m |-> 3,
   rc |-> 4, cr |-> 4, preview |-> 4, pre |-> 4]

\* Numbers up to a pre-release word are the release, from it on the
\* pre-release; None for a word nobody knows or a text without a release.
parse_version(text) ==
  LET step(acc, t) ==
        CASE acc = None \/ (t.word # "" /\ t.word \in RELEASE_WORDS) -> acc
          [] acc # None /\ t.word = "" ->
               IF acc.final THEN [acc EXCEPT !.release = Append(@, t.n)]
               ELSE [acc EXCEPT !.pre = Append(@, t.n)]
          [] acc # None /\ t.word \in DOMAIN PRERELEASE_RANK ->
               [acc EXCEPT !.final = FALSE,
                           !.pre = @ \o <<PRERELEASE_RANK[t.word]>> \o (IF t.n < 0 THEN <<>> ELSE <<t.n>>)]
          [] OTHER -> None
      Released(parsed) == IF parsed = None THEN None ELSE IF parsed.release = <<>> THEN None ELSE parsed
  IN  Released(FoldLeft(step, [release |-> <<>>, final |-> TRUE, pre |-> <<>>], text))

\* The order of tuples: a proper prefix comes first.
TupleLess(s, t) ==
  \/ Len(s) < Len(t) /\ SubSeq(t, 1, Len(s)) = s
  \/ \E i \in 1..Min({Len(s), Len(t)}) : SubSeq(s, 1, i - 1) = SubSeq(t, 1, i - 1) /\ s[i] < t[i]

\* The release decides, then a pre-release comes before its release.
VersionLess(v, w) ==
  \/ TupleLess(v.release, w.release)
  \/ v.release = w.release /\ ~v.final /\ w.final
  \/ v.release = w.release /\ v.final = w.final /\ TupleLess(v.pre, w.pre)

\* The bounds of a range in the order they are looked at, None for one that is
\* not given.
Bounds(range) ==
  <<[op |-> "ge", at |-> range.startIncl], [op |-> "gt", at |-> range.startExcl],
    [op |-> "le", at |-> range.endIncl], [op |-> "lt", at |-> range.endExcl]>>

Satisfies(v, op, w) ==
  CASE op = "ge" -> ~VersionLess(v, w) [] op = "gt" -> VersionLess(w, v)
    [] op = "le" -> ~VersionLess(w, v) [] op = "lt" -> VersionLess(v, w)

\* A bound that cannot be read is left out.
DecidesIfReadable(v, b) ==
  LET w == parse_version(b.at)
  IN  IF b.at = None \/ w = None \/ Satisfies(v, b.op, w) THEN "yes" ELSE "no"

\* What one bound says of a version.
Decides(v, b) ==
  LET w == parse_version(b.at)
  IN  IF b.at = None THEN "yes"
      ELSE IF w = None THEN "unknown" ELSE IF Satisfies(v, b.op, w) THEN "yes" ELSE "no"

\* "yes", "no" or "unknown": the first bound that is not met or not readable
\* decides; no bounds at all means every version.
in_vulnerable_range(v, range) ==
  LET against == {i \in 1..4 : Decides(v, Bounds(range)[i]) # "yes"}
  IN  IF against = {} THEN "yes" ELSE Decides(v, Bounds(range)[Min(against)])

product_match_score(a, b) ==
  LET shared == ProductTokens[a] \cap ProductTokens[b] IN
  CASE a = b -> 100
    [] a # b /\ shared # {} -> Cardinality(shared)
    [] OTHER -> IF {<<a, b>>, <<b, a>>} \cap Containing # {} THEN 1 ELSE 0

products_match(a, b) == product_match_score(a, b) > 0

-----------------------------------------------------------------------------
(* Applicability                                                           *)

\* One installation against one range.
assess_one(version, range) ==
  LET reason == [yes |-> "in_range", no |-> "not_in_range", unknown |-> "version_unparseable"]
      Parsed(v) == reason[IF v = None THEN "unknown" ELSE in_vulnerable_range(v, range)]
  IN  IF version = None THEN "version_unknown" ELSE Parsed(parse_version(version))

\* Every installation of a product the record affects, with what it shows.
Evidence(record, assets) ==
  LET shows(host, s) ==
        FlattenSeq([k \in DOMAIN record.affected |->
          IF products_match(s.product, record.affected[k].product)
          THEN <<[host |-> host, product |-> s.product, version |-> s.version,
                  reason |-> assess_one(s.version, record.affected[k])]>>
          ELSE <<>>])
  IN  FlattenSeq([i \in DOMAIN assets |->
        FlattenSeq([j \in DOMAIN assets[i].software |-> shows(assets[i].host, assets[i].software[j])])])

\* Confirmed by one vulnerable installation, ruled out only by the version of
\* every installation, a candidate as long as anything is unknown.
assess_applicability(record, assets) ==
  LET Judged(evidence, reasons) ==
        [applicability |-> IF "in_range" \in reasons THEN "confirmed"
                           ELSE IF reasons = {"not_in_range"} THEN "not_applicable"
                           ELSE "candidate",
         evidence |-> evidence, reasons |-> reasons]
      Shown(evidence) ==
        Judged(evidence, IF evidence = <<>> THEN {"not_in_inventory"}
                         ELSE {e.reason : e \in ToSet(evidence)})
  IN  IF record.affected = <<>> THEN Judged(<<>>, {"no_range"}) ELSE Shown(Evidence(record, assets))

-----------------------------------------------------------------------------
(* Where records come from                                                 *)

\* An entry of the feed: the first score that can be read, and the ranges of
\* the vulnerable matches that name a product.
parse_cve(entry, stale) ==
  LET readable == {i \in DOMAIN entry.metrics : entry.metrics[i] # None}
      range(m) == [product |-> m.product, startIncl |-> m.startIncl, startExcl |-> m.startExcl,
                   endIncl |-> m.endIncl, endExcl |-> m.endExcl]
  IN  [id |-> entry.id, cvss |-> IF readable = {} THEN None ELSE entry.metrics[Min(readable)],
       cwes |-> entry.cwes, source |-> "nvd", stale |-> stale, modified |-> entry.modified,
       affected |-> FlattenSeq([i \in DOMAIN entry.matches |->
                      IF entry.matches[i].vulnerable /\ entry.matches[i].product # None
                      THEN <<range(entry.matches[i])>> ELSE <<>>])]

\* One query: when the feed fails an expired answer is served as stale.
nvd_query(answer) ==
  IF answer.status = "error" THEN [ok |-> FALSE, records |-> <<>>]
  ELSE [ok |-> TRUE, records |-> [i \in DOMAIN answer.entries |->
                                    parse_cve(answer.entries[i], answer.status = "expired")]]

\* A chunk of the corpus gives a stale record without a range for each id in it.
records_from_chunk(chunk) ==
  [i \in DOMAIN chunk.ids |->
     [id |-> chunk.ids[i], cvss |-> chunk.cvss, cwes |-> chunk.cwes, source |-> "corpus",
      stale |-> TRUE, modified |-> None, affected |-> <<>>]]

\* Of the records found for a CVE the first stays, unless it is stale and a
\* later one is not.
merge(found) ==
  LET same(i)  == {j \in DOMAIN found : found[j].id = found[i].id}
      fresh(i) == {j \in same(i) : ~found[j].stale}
  IN  {found[i] : i \in {j \in DOMAIN found :
                          j = Min(IF fresh(j) = {} THEN same(j) ELSE fresh(j))}}

\* One lookup: the feed, or the corpus when the feed is away or fails.
ResearchLookup(query, feed, corpus) ==
  LET live   == IF feed = None THEN [ok |-> FALSE, records |-> <<>>] ELSE nvd_query(feed[query])
      chunks == IF corpus = None THEN <<>> ELSE corpus[query]
  IN  IF live.ok THEN live
      ELSE [ok |-> FALSE, records |-> FlattenSeq([i \in DOMAIN chunks |-> records_from_chunk(chunks[i])])]

\* The products of the inventory, cut at the budget.
products_to_search(assets) ==
  LET all == Unique(FlattenSeq([i \in DOMAIN assets |->
               [j \in DOMAIN assets[i].software |-> assets[i].software[j].product]]))
  IN  SubSeq(all, 1, IF MaxProducts < Len(all) THEN MaxProducts ELSE Len(all))

\* The CVE ids the evidence names.
find_cve_ids(events) ==
  LET read == Sorted(events, {p \in events \X events : Earlier(p[1], p[2])})
  IN  Unique(FlattenSeq([i \in DOMAIN read |-> read[i].cves]))

-----------------------------------------------------------------------------
(* The dossier                                                             *)

\* A CVE is tied to what was observed when an indicator, or the detail of a
\* signal, names it or one of the products it affects.
map_to_observed(record, threat) ==
  LET seen == {i.value : i \in threat.iocs} \cup UNION {s.names : s \in threat.signals}
      hit  == \/ \E v \in seen : <<v, record.id>> \in MentionsCve
              \/ \E v \in seen, a \in ToSet(record.affected) : <<v, a.product>> \in MentionsProduct
  IN  [techniques |-> IF hit THEN {t.id : t \in threat.techniques} ELSE {},
       rules      |-> IF hit THEN {s.rule : s \in threat.signals} ELSE {},
       events     |-> IF hit THEN UNION {s.events : s \in threat.signals} ELSE {}]

Mapped(assessment) == assessment.mapping.techniques # {} \/ assessment.mapping.rules # {}

\* In parts of ten thousand.
assessment_confidence(record, a, mapping) ==
  LET base == CASE a.applicability = "confirmed"      -> 9000
                [] a.applicability = "not_applicable" -> 8000
                [] OTHER -> IF "version_unknown" \in a.reasons THEN 5000
                            ELSE IF "version_unparseable" \in a.reasons THEN 4500
                            ELSE IF "no_range" \in a.reasons THEN 3500 ELSE 3000
      aged   == IF record.stale THEN (base * 7) \div 10 ELSE base
      scored == IF record.cvss = None THEN (aged * 9) \div 10 ELSE aged
  IN  Min({10000, scored + (IF mapping.rules # {} THEN 500 ELSE 0)})

\* The weakness classes of the catalogue.
WEAKNESSES ==
  {"CWE-20", "CWE-22", "CWE-77", "CWE-78", "CWE-79", "CWE-89", "CWE-94", "CWE-119", "CWE-125", "CWE-190",
   "CWE-200", "CWE-269", "CWE-287", "CWE-306", "CWE-352", "CWE-362", "CWE-400", "CWE-416", "CWE-434", "CWE-502",
   "CWE-522", "CWE-611", "CWE-732", "CWE-787", "CWE-798", "CWE-862", "CWE-863", "CWE-918", "CWE-1321"}

\* The first citation is the record's own source; known weaknesses follow.
citations_for(record) ==
  {<<record.source, record.id>>} \cup {<<"cwe", w>> : w \in ToSet(record.cwes) \cap WEAKNESSES}

\* In a dossier.
cve_assess(record, assets, threat) ==
  LET Assessment(a, mapping) ==
        [record |-> record, applicability |-> a.applicability, evidence |-> a.evidence,
         mapping |-> mapping, citations |-> citations_for(record),
         confidence |-> assessment_confidence(record, a, mapping)]
  IN  Assessment(assess_applicability(record, assets), map_to_observed(record, threat))

research_confidence(assessments, assets, stale) ==
  LET sum == Total([a \in assessments |-> a.confidence]) IN
  IF assessments = {} THEN 0
  ELSE RoundDiv(sum * (IF assets = <<>> THEN 5 ELSE 10) * (IF stale THEN 7 ELSE 10),
                Cardinality(assessments) * 100)

\* Where no research ran.
NoDossier ==
  [ran |-> FALSE, confirmed |-> {}, candidates |-> {}, ruledOut |-> {}, stale |-> FALSE, confidence |-> 0]

research(threat, assets, events, feed, corpus) ==
  LET queries == find_cve_ids(events) \o products_to_search(assets)
      lookups == [i \in DOMAIN queries |-> ResearchLookup(queries[i], feed, corpus)]
      records == merge(FlattenSeq([i \in DOMAIN lookups |-> lookups[i].records]))
      stale   == (\E i \in DOMAIN lookups : ~lookups[i].ok) \/ \E r \in records : r.stale
      all     == {cve_assess(r, assets, threat) : r \in records}
      with(x) == {a \in all : a.applicability = x}
  IN  [ran |-> TRUE, confirmed |-> with("confirmed"), candidates |-> with("candidate"),
       ruledOut |-> with("not_applicable"), stale |-> stale,
       confidence |-> research_confidence(all, assets, stale)]
=============================================================================
