----------------------------- MODULE MCPipeline -----------------------------
(* Evidence, inventories and answers of services for module Pipeline.       *)
EXTENDS Pipeline, TLC

Symmetry == Permutations(Reviewers)

\* Names: hosts 1, 2; people 11, 12; addresses 21 (outside), 22 (inside); a
\* file hash 31, a URL 32, the process "log4j-agent" 33.
Ent(type, value) == [type |-> type, value |-> value]
At(t) == [kind |-> "full", at |-> t]

Rec(id, source, shape, stamp, says) ==
  [id |-> id, source |-> source, shape |-> shape, pairs |-> 0, stamp |-> stamp, received |-> 50,
   declared |-> None, says |-> says, eventId |-> None, outcome |-> None, words |-> {},
   host |-> 1, actor |-> 11, entities |-> {}, marks |-> {}, cves |-> <<>>]

\* Blocks of records, each with ids of its own.
Burst ==
  [i \in 1..5 |-> [Rec(100 + i, "s1", "syslog_rfc5424", At(10 + 4 * i), {"auth_failure"})
                    EXCEPT !.words = {"failure"}, !.entities = {Ent("ip", 21)}]]
BrokenIn ==
  [i \in 1..4 |-> [Rec(200 + i, "s2", "windows_event", At(20 + 2 * i), {})
                    EXCEPT !.eventId = IF i = 4 THEN 4648 ELSE 4625,
                           !.outcome = IF i = 4 THEN "success" ELSE "failure", !.actor = 12, !.host = 2]]
Beacons ==
  [i \in 1..3 |-> [Rec(300 + i, "s1", "pairs", At(7 * i), {"network_connection"})
                    EXCEPT !.pairs = 2, !.entities = {Ent("ip", 21), Ent("ip", 22)}, !.actor = None]]
Encoded ==
  <<[Rec(401, "s2", "windows_event", At(30), {"process_start"})
      EXCEPT !.marks = {"encoded_command_execution", "script_interpreter_execution"},
             !.entities = {Ent("file_hash", 31), Ent("process", 33)}, !.cves = <<"CVE-1">>]>>
Cleared ==
  <<[Rec(501, "s1", "json", At(33), {"configuration_change"})
      EXCEPT !.marks = {"audit_log_cleared"}, !.cves = <<"CVE-2", "CVE-1">>]>>
Garbled ==
  <<Rec(601, "s2", "broken_json", At(12), {}), Rec(602, "s2", "short_cef", At(12), {}),
    Rec(604, "s2", "blank", [kind |-> "none", at |-> 0], {}),
    [Rec(603, "s2", "prose", At(12), {"auth_failure"}) EXCEPT !.declared = "json"]>>
Undated ==
  <<[Rec(701, "s2", "cef", [kind |-> "garbled", at |-> 0], {"privilege_change"}) EXCEPT !.host = 2],
    [Rec(702, "s2", "json", [kind |-> "none", at |-> 0], {"file_access"}) EXCEPT !.received = None]>>
NoSuchDay == <<Rec(801, "s1", "syslog_rfc3164", [kind |-> "impossible", at |-> 0], {"auth_success"})>>
LastYear ==
  <<[Rec(901, "s1", "syslog_rfc3164", [kind |-> "no_year", at |-> 95], {"account_change"})
      EXCEPT !.received = 90, !.marks = {"account_elevated"}]>>
Quiet ==
  <<[Rec(1001, "s1", "json", At(40), {"file_access"}) EXCEPT !.entities = {Ent("url", 32)}, !.host = 2]>>

Blocks == {Burst, BrokenIn, Beacons, Encoded, Cleared, Garbled, Undated, NoSuchDay, LastYear, Quiet}

\* Versions and products.
N(n) == [word |-> "", n |-> n]
V(a, b) == <<N(a), N(b)>>
Rc(a, b, c) == <<N(a), N(b), [word |-> "rc", n |-> c]>>
Odd == <<N(2), [word |-> "custom", n |-> 7]>>
V2140 == <<N(2), N(14), N(0)>>

MCVersionOrder == <<V(2, 9), V(2, 14), V2140, Rc(2, 15, 1), Rc(2, 15, 2), V(2, 15),
                    V(2, 16) \o <<[word |-> "final", n |-> -1]>>>>
MCRespelled == {<<V(2, 14), V2140>>}
MCProductTokens == [log4j |-> {"log4j"}, apache_log4j |-> {"log4j"}, openssl |-> {"openssl"}]

\* Inventories.
Has(host, installed) == [host |-> host, software |-> installed]
Inst(product, version) == [product |-> product, version |-> version]
Inventories ==
  <<<<Has(1, <<Inst("log4j", Rc(2, 15, 1))>>), Has(2, <<Inst("openssl", V(2, 9))>>)>>,
    <<Has(1, <<Inst("log4j", V(2, 15)), Inst("openssl", None)>>), Has(2, <<Inst("log4j", V2140)>>)>>,
    <<Has(2, <<Inst("openssl", Odd), Inst("log4j", V(2, 14))>>)>>>>

\* A case: at most two blocks, from two sources that answer and a third that
\* was not asked, failed or had nothing.
Fetches(blocks, failed) ==
  LET lines == FlattenSeq(SetToSeq(blocks))
      of(s) == [source |-> s, failed |-> FALSE,
                records |-> FileFetch(SelectSeq(lines, LAMBDA r : r.source = s))]
  IN  <<of("s1"), of("s2"), [source |-> "s3", failed |-> failed, records |-> <<>>]>>

Variants ==
  {[failed |-> FALSE, sources |-> {"s1", "s2"}, window |-> None, assets |-> Inventories[1], critical |-> {}],
   [failed |-> TRUE, sources |-> {"s1", "s2", "s3"}, window |-> [start |-> 0, end |-> 60],
    assets |-> Inventories[2], critical |-> {1}],
   [failed |-> FALSE, sources |-> {"s3"}, window |-> None, assets |-> Inventories[3], critical |-> {2}]}

MCCases ==
  {[fetches |-> Fetches(b, v.failed), sources |-> v.sources, window |-> v.window,
    assets |-> v.assets, critical |-> v.critical] :
     b \in {c \in SUBSET Blocks : Cardinality(c) <= 2}, v \in Variants}

\* Threat intelligence: none, one that knows, one that fails in part.
Stats(m, s, h) == [malicious |-> m, suspicious |-> s, harmless |-> h]
Answer(status, stats, expired) == [status |-> status, stats |-> stats, expired |-> expired]
Knows == [v \in 21..33 |-> IF v = 32 THEN Answer("ok", Stats(3, 0, 0), FALSE)
                           ELSE Answer("ok", Stats(0, 0, 5), FALSE)]
Flaky == [v \in 21..33 |-> CASE v = 21 -> Answer("error", Stats(1, 0, 0), TRUE)
                             [] v = 31 -> Answer("not_found", Stats(0, 0, 0), FALSE)
                             [] OTHER  -> Answer("error", Stats(0, 0, 0), FALSE)]
MCIntel == {[provider |-> None, chunks |-> None], [provider |-> Knows, chunks |-> {<<"sigma", "rule">>}],
            [provider |-> Flaky, chunks |-> {}]}

\* The CVE feed: entries for a query, and the corpus.
Match(product, si, se, ei, ee) ==
  [vulnerable |-> TRUE, product |-> product, startIncl |-> si, startExcl |-> se, endIncl |-> ei, endExcl |-> ee]
Entry(id, score, matches) ==
  [id |-> id, metrics |-> <<None, [score |-> score, remote |-> TRUE]>>, cwes |-> <<"NVD-CWE-noinfo", "CWE-502">>,
   modified |-> 1, matches |-> matches]
E1 == Entry("CVE-1", 98, <<Match("apache_log4j", V(2, 9), None, None, V(2, 15))>>)
E2 == Entry("CVE-2", 65, <<Match("openssl", None, V(2, 9), V(2, 14), None),
                           [Match("log4j", None, None, None, None) EXCEPT !.vulnerable = FALSE]>>)
E3 == [Entry("CVE-3", 40, <<Match("log4j", Odd, None, V(2, 14), None)>>) EXCEPT !.metrics = <<None>>]
Ans(status, entries) == [status |-> status, entries |-> entries]
Queries == {"CVE-1", "CVE-2", "log4j", "openssl"}
Found(q) == CASE q = "CVE-1" -> <<E1>> [] q = "CVE-2" -> <<E2>> [] q = "log4j" -> <<E1, E3>> [] OTHER -> <<E2>>
Live == [q \in Queries |-> Ans("ok", Found(q))]
Aged == [q \in Queries |-> Ans(IF q \in {"CVE-1", "openssl"} THEN "expired" ELSE "ok", Found(q))]
Down == [q \in Queries |-> Ans(IF q = "log4j" THEN "ok" ELSE "error", Found(q))]
Corpus == [q \in Queries |-> IF q = "openssl" THEN <<>>
             ELSE <<[ids |-> <<"CVE-1", "CVE-4">>, cvss |-> None, cwes |-> <<>>]>>]
MCFeeds == {[feed |-> Live, corpus |-> None], [feed |-> Aged, corpus |-> Corpus],
            [feed |-> Down, corpus |-> Corpus], [feed |-> None, corpus |-> None]}

MCAdvisories ==
  {None, [c \in {"CVE-1", "CVE-2", "CVE-3", "CVE-4"} |->
            [status |-> IF c = "CVE-2" THEN "error" ELSE "expired",
             advisories |-> <<<<[package |-> None, version |-> V(2, 16)], [package |-> "openssl", version |-> V(2, 15)],
                                [package |-> "log4j", version |-> V(2, 15)]>>>>]]}

\* The reference order is that of the code, so that ApplicabilityIsSound
\* (PipelineProofs) is about these inventories and feeds.
ASSUME ReferenceAgrees == VersionsAgree

MCContaining == {}
MCMentionsCve == {<<33, "CVE-3">>}
MCMentionsProduct == {<<33, "apache_log4j">>}
=============================================================================
