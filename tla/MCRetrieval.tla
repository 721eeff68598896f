---------------------------- MODULE MCRetrieval ----------------------------
EXTENDS Retrieval, TLC

Section(len, spaces, words) == [len |-> len, spaces |-> spaces, words |-> words]

Document(id, source, cve, products, age, sections) ==
  [id |-> id, source |-> source, cve |-> cve, products |-> products, age |-> age, readable |-> TRUE,
   sections |-> sections]

\* Two short sections that pack, one that does not, and one with few spaces that
\* is three times too long.
Brief == Section(3, {}, {"rce"})
Title == Section(4, {1}, {"log4j"})
Prose == Section(7, {3}, {"log4j", "patch"})
Long  == Section(20, {6, 12, 13}, {"patch", "jndi"})

MCSources == <<"nvd", "runbooks">>
MCTrust == "nvd" :> "authoritative" @@ "runbooks" :> "internal"

\* The feed: a record, the record rewritten for another product beside a repeat of it,
\* an old note and a file that cannot be read, a revision of its metadata alone, a document of another
\* source.  The runbooks: one that is split and one without content.
MCContents ==
  "nvd" :> << <<Document(1, "nvd", "c1", {"core"}, 1, <<Title, Brief>>)>>,
              <<Document(1, "nvd", "c1", {"web"}, 0, <<Prose, Brief>>),
                Document(2, "nvd", "c2", {"core"}, 0, <<Prose, Brief>>),
                Document(3, "nvd", None, {}, 2, <<Title>>),
                [Document(4, "nvd", None, {}, 0, <<Title>>) EXCEPT !.readable = FALSE]>>,
              <<Document(1, "nvd", "c1", {"web"}, 1, <<Title, Brief>>)>>,
              <<Document(7, "blog", None, {}, 0, <<Brief>>)>> >>
  @@ "runbooks" :> << <<Document(5, "runbooks", None, {}, 1, <<Long>>),
                      Document(6, "runbooks", None, {}, 1, <<>>)>> >>

Query(words, cves, products, after, trust) ==
  [words |-> words, cves |-> cves, products |-> products, after |-> after, trust |-> trust]

\* The old note and the runbooks have words of the query, and are filtered out; the
\* rewritten record is of another product than the query asks for.
MCQueries == <<Query({"c1", "log4j", "patch"}, {}, {"core"}, 1, "authoritative")>>

Symmetry == Permutations(Readers)
=============================================================================
