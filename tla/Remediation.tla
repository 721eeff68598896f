---------------------------- MODULE Remediation ----------------------------
(***************************************************************************)
(* The Patch Recommender (agents/patch_recommender/recommender.py), risk   *)
(* scoring (services/risk.py), the guidance catalogue and the advisory     *)
(* source, as operators from the findings to the plan.  Risk is in tenths. *)
(* An action is identified by what it does: a patch or a check of a CVE,   *)
(* or the guidance of a template.                                          *)
(***************************************************************************)
EXTENDS VulnResearch

CONSTANT MaxRecommendations   \* recommendations in a plan, max_recommendations

ASSUME PlanBudget == MaxRecommendations \in Nat \ {0}

-----------------------------------------------------------------------------
(* The catalogue                                                           *)

\* Each template with its kind and the mitigations it cites.
TECHNIQUE_GUIDANCE ==
  [credential_attack_controls |-> [type |-> "configuration", cites |-> {"M1032", "M1027", "M1018"}],
   account_privilege_review   |-> [type |-> "mitigation",    cites |-> {"M1026", "M1018"}],
   script_execution_controls  |-> [type |-> "configuration", cites |-> {"M1038", "M1042", "M1047"}],
   persistence_review         |-> [type |-> "mitigation",    cites |-> {"M1047", "M1022"}],
   log_integrity              |-> [type |-> "configuration", cites |-> {"M1029", "M1047", "M1022"}],
   restore_security_tooling   |-> [type |-> "configuration", cites |-> {"M1049", "M1047"}],
   egress_controls            |-> [type |-> "configuration", cites |-> {"M1037", "M1030"}],
   remote_access_review       |-> [type |-> "configuration", cites |-> {"M1030", "M1032", "M1026"}]]

ASSUME NoneIsNoTemplate == None \notin DOMAIN TECHNIQUE_GUIDANCE

\* Templates for classes of weaknesses, and the one that fits everything.
WEAKNESS_GUIDANCE ==
  [untrusted_input_handling |-> [type |-> "patch",         cites |-> {"M1051", "M1013"}],
   access_control_fix       |-> [type |-> "configuration", cites |-> {"M1022", "M1026", "M1051"}],
   generic_hardening        |-> [type |-> "mitigation",    cites |-> {}]]

Template(name) ==
  IF name \in DOMAIN TECHNIQUE_GUIDANCE THEN TECHNIQUE_GUIDANCE[name] ELSE WEAKNESS_GUIDANCE[name]

\* The template that addresses each technique.
TECHNIQUE_TEMPLATES ==
  [T1021 |-> "remote_access_review", T1027 |-> "script_execution_controls",
   T1041 |-> "egress_controls", T1053 |-> "persistence_review", T1059 |-> "script_execution_controls",
   T1068 |-> "account_privilege_review", T1070 |-> "log_integrity", T1071 |-> "egress_controls",
   T1078 |-> "credential_attack_controls", T1098 |-> "account_privilege_review",
   T1105 |-> "egress_controls", T1110 |-> "credential_attack_controls",
   T1136 |-> "account_privilege_review", T1218 |-> "script_execution_controls",
   T1543 |-> "persistence_review", T1548 |-> "account_privilege_review",
   T1562 |-> "restore_security_tooling", T1569 |-> "persistence_review"]

\* Sub-techniques share the template of their technique; None for one that is
\* in no row.
for_technique(t) ==
  LET row == CASE t = "T1059.001" -> "T1059" [] t = "T1070.001" -> "T1070" [] OTHER -> t
  IN  IF row \in DOMAIN TECHNIQUE_TEMPLATES THEN TECHNIQUE_TEMPLATES[row] ELSE None

\* The template that addresses each class of weakness.
WEAKNESS_TEMPLATES ==
  [w \in {"CWE-20", "CWE-22", "CWE-77", "CWE-78", "CWE-79", "CWE-89", "CWE-94", "CWE-502",
           "CWE-611", "CWE-918", "CWE-1321"} |-> "untrusted_input_handling"]
  @@ [w \in {"CWE-269", "CWE-287", "CWE-306", "CWE-732", "CWE-798", "CWE-862", "CWE-863"} |->
        "access_control_fix"]

for_weakness(w) == IF w \in DOMAIN WEAKNESS_TEMPLATES THEN WEAKNESS_TEMPLATES[w] ELSE None

\* The mitigations a template cites, or the internal baseline.
template_citations(name) ==
  IF Template(name).cites = {} THEN {<<"baseline", "hardening">>}
  ELSE {<<"attack", m>> : m \in Template(name).cites}

-----------------------------------------------------------------------------
(* Risk                                                                    *)

score_risk(severity, confirmed, exploited, reachable, critical) ==
  LET raised == severity + (IF exploited THEN 15 ELSE 0) + (IF reachable THEN 10 ELSE 0)
                         + (IF critical THEN 10 ELSE 0)
  IN  Min({100, IF confirmed THEN raised ELSE RoundDiv(raised * 6, 10)})

\* Observed exploitation is urgent whatever the score.
derive_priority(risk, exploited) ==
  CASE exploited \/ risk >= 90 -> "urgent"
    [] ~exploited /\ risk \in 70..89 -> "high"
    [] ~exploited /\ risk \in 40..69 -> "medium"
    [] OTHER -> "low"

verdict_severity_floor(verdict) ==
  CASE verdict = "malicious" -> 70 [] verdict = "suspicious" -> 40 [] OTHER -> 0

\* The worst finding sets the overall risk.
combine_risk(scores) == IF scores = {} THEN 0 ELSE Max(scores)

-----------------------------------------------------------------------------
(* Advisories                                                              *)

\* The best fix for the product among those with a version, else the first.
fix_for(fixes, product) ==
  LET fixed == SelectSeq(fixes, LAMBDA f : f.version # None)
      score(f) == product_match_score(product, f.package)
      best  == SelectSeq(fixed, LAMBDA f : score(f) = Max({score(g) : g \in ToSet(fixed)}))
  IN  IF fixed = <<>> THEN None
      ELSE IF product # None /\ score(Head(best)) > 0 THEN Head(best) ELSE Head(fixed)

\* The advisories the source returns for a CVE, the expired ones when it
\* fails; packages without a name are dropped.
AdvisoryFetch(answer) ==
  IF answer.status \in {"ok", "expired"}
  THEN [i \in DOMAIN answer.advisories |->
          SelectSeq(answer.advisories[i], LAMBDA f : f.package # None)]
  ELSE <<>>

-----------------------------------------------------------------------------
(* Recommendations                                                         *)

\* An upgrade to the fixed version, or to whatever the advisory says.
patch_guidance(cve, product, version, advised) ==
  [action |-> [kind |-> "patch", of |-> cve, product |-> product, to |-> version],
   type |-> "patch", then |-> None,
   grounding |-> IF version = None THEN "class_specific" ELSE "vendor_specific",
   cites |-> {<<"attack", "M1051">>} \cup (IF advised THEN {<<"advisory", cve>>} ELSE {})]

\* The fix of the first advisory decides product and version; without one the
\* product is the one of the evidence, or of the record.
patch_template(assessment, advisories) ==
  LET product  == IF assessment.evidence # <<>> THEN Head(assessment.evidence).product
                  ELSE IF assessment.record.affected = <<>> THEN None
                  ELSE Head(assessment.record.affected).product
      found    == IF advisories = None THEN <<>> ELSE AdvisoryFetch(advisories[assessment.record.id])
      fix      == IF found = <<>> THEN None ELSE fix_for(Head(found), product)
  IN  patch_guidance(assessment.record.id, IF fix = None THEN product ELSE fix.package,
                     IF fix = None THEN None ELSE fix.version, found # <<>>)

\* A candidate gets the patch of a confirmed CVE.
PatchCandidate(assessment) ==
  [action |-> [kind |-> "patch", of |-> assessment.record.id, product |-> None, to |-> None],
   type |-> "patch", then |-> None, grounding |-> "class_specific", cites |-> assessment.citations]

\* A candidate is checked, never patched; the check says what to do next, by
\* the first of the CVE's weaknesses that has guidance.
verification_template(assessment) ==
  LET guided == SelectSeq(assessment.record.cwes, LAMBDA w : for_weakness(w) # None) IN
  [action |-> [kind |-> "verify", of |-> assessment.record.id, product |-> None, to |-> None],
   type |-> "other", then |-> IF guided = <<>> THEN None ELSE for_weakness(Head(guided)),
   grounding |-> "class_specific", cites |-> assessment.citations]

\* The recommendation a template makes for a CVE.
build(template, assessment, critical, confirmed) ==
  LET cvss  == assessment.record.cvss
      hosts == {e.host : e \in ToSet(assessment.evidence)}
      exploited == Mapped(assessment)
      risk  == score_risk(IF cvss = None THEN 50 ELSE cvss.score, confirmed, exploited,
                          IF cvss = None THEN FALSE ELSE cvss.remote, hosts \cap critical # {})
  IN  [action |-> template.action, type |-> template.type, then |-> template.then, risk |-> risk,
       priority |-> derive_priority(risk, exploited), targets |-> hosts,
       cves |-> {assessment.record.id}, techniques |-> assessment.mapping.techniques, rules |-> {},
       grounding |-> template.grounding, citations |-> template.cites \cup assessment.citations,
       approval |-> "pending"]

\* Hosts of confirmed CVEs, or else the whole inventory.
affected_hosts(dossier, inventory) ==
  LET hosts == {e.host : e \in UNION {ToSet(a.evidence) : a \in dossier.confirmed}}
  IN  IF hosts # {} THEN hosts ELSE inventory

technique_risk(threat, touches, signals) ==
  LET strongest == IF signals = {} THEN threat.score ELSE Max({s.weight : s \in signals})
  IN  score_risk(Max({strongest, verdict_severity_floor(threat.verdict)}), TRUE, TRUE, FALSE, touches)

from_techniques(threat, dossier, critical, inventory) ==
  LET targets == affected_hosts(dossier, inventory) IN
  {LET signals == {s \in threat.signals : t.id \in s.techniques}
       risk    == technique_risk(threat, targets \cap critical # {}, signals)
       name    == for_technique(t.id)
   IN [action |-> [kind |-> "guidance", of |-> name, product |-> None, to |-> None],
       type |-> Template(name).type, then |-> None, risk |-> risk, priority |-> derive_priority(risk, TRUE),
       targets |-> targets, cves |-> {}, techniques |-> {t.id}, rules |-> {s.rule : s \in signals},
       grounding |-> "class_specific",
       citations |-> template_citations(name) \cup {<<"attack", t.id>>}, approval |-> "pending"] :
   t \in {u \in threat.techniques : for_technique(u.id) # None}}

from_cves(dossier, critical, advisories) ==
  {build(patch_template(a, advisories), a, critical, TRUE) : a \in dossier.confirmed}
  \cup {build(verification_template(a), a, critical, FALSE) : a \in dossier.candidates}

generic(threat, critical, inventory) ==
  LET targets == affected_hosts(NoDossier, inventory)
      risk    == technique_risk(threat, targets \cap critical # {}, {})
  IN  [action |-> [kind |-> "guidance", of |-> "generic_hardening", product |-> None, to |-> None],
       type |-> Template("generic_hardening").type, then |-> None, risk |-> risk, priority |-> derive_priority(risk, FALSE),
       targets |-> targets, cves |-> {}, techniques |-> {}, rules |-> {s.rule : s \in threat.signals},
       grounding |-> "generic", citations |-> template_citations("generic_hardening"),
       approval |-> "pending"]

\* Recommendations of one action become one, with the worst risk of them and
\* the support of all.
deduplicate(recs) ==
  {LET same == {r \in recs : r.action = a}
       one  == CHOOSE r \in same : TRUE
   IN  [action |-> a, type |-> one.type, then |-> one.then, risk |-> Max({r.risk : r \in same}),
        priority |-> one.priority, targets |-> UNION {r.targets : r \in same},
        cves |-> UNION {r.cves : r \in same}, techniques |-> UNION {r.techniques : r \in same},
        rules |-> UNION {r.rules : r \in same}, grounding |-> one.grounding,
        citations |-> UNION {r.citations : r \in same}, approval |-> "pending"] :
   a \in {r.action : r \in recs}}

PriorityRank == [urgent |-> 0, high |-> 1, medium |-> 2, low |-> 3]

\* The pairs of recommendations in order: urgency first, then risk, then the
\* wording, for which any order of the actions stands.
by_priority(recs) ==
  LET words    == SetToSeq({r.action : r \in recs})
      place(r) == CHOOSE i \in DOMAIN words : words[i] = r.action
      before(r, s) ==
        \/ PriorityRank[r.priority] < PriorityRank[s.priority]
        \/ r.priority = s.priority /\ r.risk > s.risk
        \/ r.priority = s.priority /\ r.risk = s.risk /\ place(r) < place(s)
  IN  {p \in recs \X recs : before(p[1], p[2])}

GroundingWeight == [vendor_specific |-> 100, class_specific |-> 85, generic |-> 60]

\* What each recommendation rests on, weighted by how specific it is.
plan_confidence(recs, threat, dossier) ==
  LET upstream(r) == IF r.cves # {} /\ dossier.ran THEN dossier.confidence ELSE threat.confidence
      sum == Total([r \in recs |-> upstream(r) * GroundingWeight[r.grounding]])
  IN  IF recs = {} THEN 0 ELSE RoundDiv(sum, Cardinality(recs) * 100)

\* The plan: specific recommendations, or hardening when there are none and
\* the verdict is not benign; the most urgent are kept.
recommend(threat, dossier, assets, critical, advisories) ==
  LET inventory == {a.host : a \in ToSet(assets)}
      Plan(kept, heldBack) ==
        [recommendations |-> kept, heldBack |-> ToSet(heldBack),
         overall  |-> combine_risk({r.risk : r \in ToSet(kept)}),
         limited  |-> kept # <<>> /\ \A r \in ToSet(kept) : r.grounding = "generic",
         confidence |-> plan_confidence(ToSet(kept), threat, dossier)]
      Cut(ordered) ==
        Plan(SubSeq(ordered, 1, IF MaxRecommendations < Len(ordered) THEN MaxRecommendations ELSE Len(ordered)),
             SubSeq(ordered, MaxRecommendations + 1, Len(ordered)))
      Backed(specific) ==
        IF specific = {} /\ threat.verdict # "benign"
        THEN {generic(threat, critical, inventory)} ELSE specific
      Ordered(recs) == Sorted(recs, by_priority(recs))
  IN  Cut(Ordered(Backed(deduplicate(from_cves(dossier, critical, advisories)
                                     \cup from_techniques(threat, dossier, critical, inventory)))))
=============================================================================
