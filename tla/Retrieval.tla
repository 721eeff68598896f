----------------------------- MODULE Retrieval -----------------------------
(***************************************************************************)
(* The knowledge corpus (rag/): ingestion of a source into a new version   *)
(* of its index in PostgreSQL (rag/ingestion.py, rag/index.py), and        *)
(* retrieval through a cache (rag/service.py, rag/cache.py) while          *)
(* ingestion goes on.  One ingestion is under way at a time; every call of *)
(* the store is a transaction of its own and may fail.                     *)
(*                                                                         *)
(* A text is its sections: the length of each, where its spaces are and    *)
(* the words of more than two letters in it.  A version of a source is the number of the first of   *)
(* its Contents with the same texts.  Dates are ages in half-lives.        *)
(***************************************************************************)
EXTENDS Integers, Sequences, FiniteSets, SequencesExt, FiniteSetsExt

CONSTANTS
  None,
  Sources,     \* the allow-list, a sequence of source ids
  Contents,    \* of each source: the sequence of its possible contents, each
               \* a sequence of files
  Trust,       \* of each source: its trust tier
  Queries,     \* a sequence of records [words, cves, products, after, trust]
  Readers,     \* the threads that retrieve
  MaxChars,    \* rag_chunk_max_characters
  Overlap,     \* rag_chunk_overlap_characters
  Candidates,  \* rag_retrieval_candidates
  TopK,        \* rag_retrieval_top_k
  TokenBudget, \* rag_context_token_budget
  MaxAge,      \* bound of the model: the oldest document, in half-lives
  MaxAsked     \* bound of the model: retrievals

ASSUME RetrievalConstants ==
  /\ Overlap \in Nat /\ MaxChars \in Nat /\ Overlap < MaxChars
  /\ {Candidates, TopK, TokenBudget} \subseteq Nat \ {0}

VARIABLES
  status,  \* of each source and version: its row in knowledge_index_versions
  rows,    \* of each source and version: its rows in knowledge_chunks
  job,     \* the ingestion under way
  cache,   \* of each key that has one: the entry
  reader,  \* of each thread: where it is in its retrieval
  answer,  \* the answer the last step gave, None after any other step
  served,  \* history: the sources that have had an active version
  asked    \* history: the retrievals so far

vars == <<status, rows, job, cache, reader, answer, served, asked>>

index == <<status, rows, served>>

Empty == [k \in {} |-> None]
SourceIds == ToSet(Sources)
VersionsOf(s) == 1..Len(Contents[s])
Versions == UNION {{s} \X VersionsOf(s) : s \in SourceIds}

ASSUME SourcesListed ==
  /\ Sources \in Seq(SourceIds) /\ Sources # <<>>
  /\ \A s \in SourceIds : Len(Contents[s]) \in Nat

-----------------------------------------------------------------------------
(* Chunking                                                                *)

\* Consecutive sections are packed while they and two separators fit.
Total(buffer) ==
  LET sum[n \in 0..Len(buffer)] == IF n = 0 THEN 0 ELSE sum[n - 1] + buffer[n].len
  IN  sum[Len(buffer)] + 2 * (Len(buffer) - 1)

pack(sections) ==
  LET add(acc, x) ==
        IF acc.buffer = <<>> \/ Total(Append(acc.buffer, x)) <= MaxChars
        THEN [acc EXCEPT !.buffer = Append(@, x)]
        ELSE [packed |-> Append(acc.packed, acc.buffer), buffer |-> <<x>>]
      upTo[n \in 0..Len(sections)] ==
        IF n = 0 THEN [packed |-> <<>>, buffer |-> <<>>] ELSE add(upTo[n - 1], sections[n])
      end == upTo[Len(sections)]
  IN  IF end.buffer = <<>> THEN end.packed ELSE Append(end.packed, end.buffer)

\* The parts of a section that is too long, as sets of its positions: each ends
\* at the last space beyond its stride, if there is one, and the next one starts
\* an overlap before that end, and at least one position on.
split_oversized(x) ==
  LET stop[start \in 0..x.len] ==
        LET end    == Min({start + MaxChars, x.len})
            spaces == {i \in x.spaces : start + MaxChars - Overlap <= i /\ i < end /\ i > start}
        IN  IF end < x.len /\ spaces # {} THEN Max(spaces) ELSE end
      part[start \in 0..x.len] ==
        IF start >= x.len THEN <<>>
        ELSE IF stop[start] >= x.len THEN <<start..(x.len - 1)>>
        ELSE <<start..(stop[start] - 1)>> \o part[Max({stop[start] - Overlap, start + 1})]
  IN  part[0]

\* Spaces at either end of a part are stripped.
strip(x, positions) ==
  LET text == positions \ x.spaces
  IN  IF text = {} THEN {} ELSE Min(text)..Max(text)

\* The chunks of a document, in order: the sections of each, the positions it
\* covers of a section that was split, and its length.
chunk(sections) ==
  LET Whole(group) == [of |-> group, part |-> {}, len |-> Total(group)]
      Part(x, text) == [of |-> <<x>>, part |-> text, len |-> Cardinality(text)]
      Parts(x, parts) == FlattenSeq([i \in DOMAIN parts |->
                           LET text == strip(x, parts[i]) IN IF text = {} THEN <<>> ELSE <<Part(x, text)>>])
      Chunks(group) == IF Total(group) <= MaxChars THEN <<Whole(group)>>
                       ELSE Parts(group[1], split_oversized(group[1]))
      All(groups) == FlattenSeq([i \in DOMAIN groups |-> Chunks(groups[i])])
  IN  All(pack(sections))

-----------------------------------------------------------------------------
(* Ingestion                                                               *)

\* The documents of a directory: files that cannot be read, and files without
\* content, are left out.
fetch(files) == SelectSeq(files, LAMBDA d : d.readable /\ d.sections # <<>>)

Documents(s, i) == fetch(Contents[s][i])

\* A section has text, and does not begin with a space.
ASSUME SectionShape ==
  \A w \in Versions : \A d \in ToSet(Documents(w[1], w[2])) :
    /\ d.sections \in Seq(ToSet(d.sections))
    /\ \A x \in ToSet(d.sections) :
         x.len \in Nat \ {0} /\ x.spaces \subseteq 1..(x.len - 1)

\* A document that repeats the text of an earlier one is dropped.
deduplicate(docs) ==
  LET first == {i \in DOMAIN docs : \A j \in 1..(i - 1) : docs[j].sections # docs[i].sections}
  IN  [i \in 1..Cardinality(first) |-> docs[SetToSortSeq(first, <)[i]]]

\* Every document must claim the source it was fetched for.
Trusted(s, docs) == \A i \in DOMAIN docs : docs[i].source = s

\* The version is a digest of the texts: the same texts have the same version.
build_index_version ==
  LET texts(s, i) == {d.sections : d \in ToSet(Documents(s, i))}
  IN  [w \in Versions |-> Min({j \in VersionsOf(w[1]) : texts(w[1], j) = texts(w[1], w[2])})]

\* The rows a version adds: the chunks of its documents with their metadata.
RowsOf(s, v) ==
  LET Of(d, chunks) ==
        {[id |-> <<d.id, n - 1>>, source |-> s, version |-> v, trust |-> Trust[s],
          words |-> UNION {x.words : x \in ToSet(chunks[n].of)}, len |-> chunks[n].len,
          cve |-> d.cve, products |-> d.products, age |-> d.age] : n \in DOMAIN chunks}
  IN  UNION {Of(d, chunk(d.sections)) : d \in ToSet(deduplicate(Documents(s, v)))}

AllRows == UNION {RowsOf(w[1], w[2]) : w \in Versions}

\* A row by its source, version and chunk id.
Ref(r) == <<r.source, r.version, r.id>>
Row(ref) == CHOOSE r \in AllRows : Ref(r) = ref
Refs == {Ref(r) : r \in AllRows}

\* The table has one row for a chunk id and a version.
ASSUME OneRowPerRef ==
  /\ IsFiniteSet(AllRows)
  /\ \A r, o \in AllRows : Ref(r) = Ref(o) => r = o

NoJob == [pc |-> "idle", source |-> None, version |-> 0, todo |-> <<>>]

\* The next source of the refresh, or the end of it.
Onward == IF job.todo = <<>> THEN [NoJob EXCEPT !.pc = "clear"]
          ELSE [NoJob EXCEPT !.pc = "fetch", !.source = Head(job.todo), !.todo = Tail(job.todo)]

ingest_source(s) ==
  /\ job.pc = "idle" /\ job' = [NoJob EXCEPT !.pc = "fetch", !.source = s]
  /\ UNCHANGED <<index, cache, reader>>

refresh_all ==
  /\ job.pc = "idle"
  /\ job' = [NoJob EXCEPT !.pc = "fetch", !.source = Head(Sources), !.todo = Tail(Sources)]
  /\ UNCHANGED <<index, cache, reader>>

\* The fetch fails, which is reported: what is active stays.
fetch_fails ==
  /\ job.pc = "fetch" /\ job' = Onward
  /\ UNCHANGED <<index, cache, reader>>

\* The documents are fetched, chunked and embedded; the version is recorded,
\* unless its source has it already: then the insert raises.
record_version ==
  /\ job.pc = "fetch"
  /\ \E i \in VersionsOf(job.source) :
       LET v == build_index_version[<<job.source, i>>]
       IN  /\ Trusted(job.source, Documents(job.source, i))
           /\ status[job.source][v] = "none"
           /\ status' = [status EXCEPT ![job.source][v] = "building"]
           /\ job' = [job EXCEPT !.pc = "add", !.version = v]
  /\ UNCHANGED <<rows, served, cache, reader>>

add_chunks ==
  /\ job.pc = "add"
  /\ rows' = [rows EXCEPT ![job.source][job.version] = "live"]
  /\ job' = [job EXCEPT !.pc = "activate"]
  /\ UNCHANGED <<status, served, cache, reader>>

\* The versions that were active, other than the new one.
previous == {v \in VersionsOf(job.source) : status[job.source][v] = "active" /\ v # job.version}

\* The chunks of the versions that are retired stay as they are.
RetireNothing(r) == r

\* The chunks of the versions that are retired go out of search.
Retire(r) == [v \in DOMAIN r |-> IF v \in previous /\ r[v] = "live" THEN "retired" ELSE r[v]]

\* In one transaction the previous version is retired and the new one active.
activate_version ==
  /\ job.pc = "activate"
  /\ rows' = [rows EXCEPT ![job.source] = Retire(@)]
  /\ status' = [status EXCEPT ![job.source] = [v \in DOMAIN @ |->
       CASE v = job.version -> "active" [] v \in previous -> "retired" [] OTHER -> @[v]]]
  /\ served' = served \cup {job.source}
  /\ job' = Onward
  /\ UNCHANGED <<cache, reader>>

\* An exception, or the end of the process: a document of another source, a
\* version that is known already, a transaction that fails.  The refresh ends
\* where it is, and the cache is not cleared.
ingest_raises ==
  /\ job.pc # "idle" /\ job' = NoJob
  /\ UNCHANGED <<index, cache, reader>>

clear ==
  /\ job.pc = "clear" /\ job' = NoJob
  /\ cache' = Empty
  /\ UNCHANGED <<index, reader>>

-----------------------------------------------------------------------------
(* Search and ranking                                                      *)

\* Rows that are not retired, those of a version being built among them.
Searchable == {r \in AllRows : rows[r.source][r.version] = "live"}

trust_order == <<"authoritative", "vendor", "community", "internal">>
trust_rank(tier) == CHOOSE i \in DOMAIN trust_order : trust_order[i] = tier

\* The filters the SQL applies.
Eligible(r, q) ==
  /\ q.cves # {} => r.cve \in q.cves
  /\ q.after # None => r.age # None /\ r.age <= q.after
  /\ q.trust # None => trust_rank(r.trust) <= trust_rank(q.trust)

base_query(q) == {r \in Searchable : Eligible(r, q)}

matches_filters(r, q) == Eligible(r, q) /\ (q.products # {} => q.products \cap r.products # {})

\* The similarity of a text to a query: the default embedding is of words.
dense_score(q, r) == Cardinality(q.words \cap r.words)

\* Coverage of the query, in words, and all of it once more for an identifier.
keyword_overlap_score(q, r) ==
  Cardinality(q.words \cap r.words)
  + IF (({r.cve} \ {None}) \cup r.products) \cap q.words # {} THEN Cardinality(q.words) ELSE 0

\* Sequences of rows by descending score; rows that tie come in any order.
ByScore(set, score(_)) ==
  {o \in SetToSeqs(set) : \A i, j \in DOMAIN o : i < j => score(o[i]) >= score(o[j])}

\* The nearest rows, of which those that match and have a score remain.
dense_search(q) ==
  LET nearest(all) == {c \in kSubset(Min({Candidates, Cardinality(all)}), all) :
                         \A r \in c, o \in all \ c : dense_score(q, r) >= dense_score(q, o)}
  IN  UNION {ByScore({r \in c : matches_filters(r, q) /\ dense_score(q, r) > 0},
                     LAMBDA r : dense_score(q, r)) : c \in nearest(base_query(q))}

\* A row has a word of the query, or is about an identifier in it.
Mentions(r, q) == ({r.cve} \cup r.words) \cap q.words # {}

\* Any rows that hold a word of the query, whatever products it asks for, as many
\* as the limit, by their score.
keyword_search(q) ==
  LET some(found) == kSubset(Min({Candidates, Cardinality(found)}), found)
  IN  UNION {ByScore(c, LAMBDA r : keyword_overlap_score(q, r))
               : c \in some({r \in base_query(q) : Mentions(r, q)})}

\* One candidate for a chunk id: the row of the dense path, the last of them, or
\* the first of the keyword path; its score in a path is 0 if it is not in it.
fuse(dense, keyword, q) ==
  LET ids == {r.id : r \in ToSet(dense) \cup ToSet(keyword)}
      LastOf(o, id)  == o[Max({i \in DOMAIN o : o[i].id = id})]
      FirstOf(o, id) == o[Min({i \in DOMAIN o : o[i].id = id})]
      In(o, id)      == \E i \in DOMAIN o : o[i].id = id
  IN  {[row |-> IF In(dense, id) THEN LastOf(dense, id) ELSE FirstOf(keyword, id),
        dense |-> IF In(dense, id) THEN dense_score(q, LastOf(dense, id)) ELSE 0,
        keyword |-> IF In(keyword, id) THEN keyword_overlap_score(q, LastOf(keyword, id)) ELSE 0]
         : id \in ids}

trust_weight(tier) ==
  CASE tier = "authoritative" -> 100 [] tier = "vendor" -> 90
    [] tier = "community" -> 75 [] tier = "internal" -> 85

\* Half of it counts, the other half is halved with every half-life.
freshness(age) == IF age = None THEN 2 * 2^MaxAge ELSE 2^MaxAge + 2^(MaxAge - age)

\* The rows by score, each path scaled by its highest score, then by chunk id.
rank(candidates) ==
  LET top(S) == IF S = {} \/ Max(S) = 0 THEN 1 ELSE Max(S)
      topDense   == top({c.dense : c \in candidates})
      topKeyword == top({c.keyword : c \in candidates})
      score(c)   == (45 * c.dense * topKeyword + 55 * c.keyword * topDense)
                    * freshness(c.row.age) * trust_weight(c.row.trust)
      before(a, b) ==
        \/ score(a) > score(b)
        \/ score(a) = score(b) /\ (a.row.id[1] < b.row.id[1]
                                   \/ (a.row.id[1] = b.row.id[1] /\ a.row.id[2] < b.row.id[2]))
      ranked == {o \in SetToSeqs(candidates) : \A i, j \in DOMAIN o : i < j => before(o[i], o[j])}
  IN  {[i \in DOMAIN o |-> o[i].row] : o \in ranked}

estimate_tokens(len) == (len + 3) \div 4

Tokens(ranked) == FoldLeft(LAMBDA n, c : n + estimate_tokens(c.len), 0, ranked)

\* The longest start of the ranking within the budget; the first one always.
take_within_budget(ranked) ==
  LET fits == {n \in 0..Min({TopK, Len(ranked)}) :
                 \A m \in 2..n : Tokens(SubSeq(ranked, 1, m)) <= TokenBudget}
  IN  SubSeq(ranked, 1, Max(fits))

-----------------------------------------------------------------------------
(* Citations                                                               *)

\* A citation for each passage whose chunk none before it has, by its rank.
bind_citations(taken) ==
  [i \in {i \in DOMAIN taken : \A j \in 1..(i - 1) : taken[j].id # taken[i].id} |->
     [source |-> taken[i].source, chunk |-> taken[i].id]]

-----------------------------------------------------------------------------
(* Retrieval                                                               *)

NoAnswer == None

\* Without the version.
KeyOfQuery(q, version) == <<q, [s \in SourceIds |-> 0]>>

\* The query with its filters, and the version read of each source.
cache_key(q, version) == <<q, version>>

Idle == [pc |-> "idle", query |-> None, todo |-> <<>>, version |-> [s \in SourceIds |-> 0],
         dense |-> <<>>, retired |-> {}, result |-> <<>>]

Init ==
  /\ status = [s \in SourceIds |-> [v \in VersionsOf(s) |-> "none"]]
  /\ rows = [s \in SourceIds |-> [v \in VersionsOf(s) |-> "absent"]]
  /\ job = NoJob /\ reader = [t \in Readers |-> Idle]
  /\ cache = Empty
  /\ answer = NoAnswer /\ served = {} /\ asked = 0

At(t, pc) == reader[t].pc = pc
Fresh(k) == k \in DOMAIN cache /\ ~cache[k].expired
Key(t) == cache_key(reader[t].query, reader[t].version)
Retired == {w \in Versions : rows[w[1]][w[2]] = "retired"}

\* The retrieval of thread t ends with these rows.
Answers(t, taken, cached, stale) ==
  /\ answer' = [rows |-> taken, cached |-> cached, stale |-> stale, query |-> reader[t].query,
                version |-> reader[t].version, retired |-> reader[t].retired]
  /\ reader' = [reader EXCEPT ![t] = Idle]

retrieve(t, q) ==
  /\ At(t, "idle") /\ asked < MaxAsked /\ asked' = asked + 1
  /\ reader' = [reader EXCEPT ![t] =
       [Idle EXCEPT !.pc = "version", !.query = q, !.todo = Sources, !.retired = Retired]]
  /\ UNCHANGED <<index, job, cache>>

\* The active version of each source is read, one source after the other.
current_version(t) ==
  /\ At(t, "version")
  /\ LET s == Head(reader[t].todo)
         active == {v \in VersionsOf(s) : status[s][v] = "active"}
     IN  reader' = [reader EXCEPT ![t].version[s] = IF active = {} THEN 0 ELSE Max(active),
                                  ![t].todo = Tail(@),
                                  ![t].pc = IF Len(reader[t].todo) = 1 THEN "lookup" ELSE @]
  /\ UNCHANGED <<index, job, cache>>

\* The store fails before there is a key: the retrieval raises.
version_fails(t) ==
  /\ At(t, "version") /\ reader' = [reader EXCEPT ![t] = Idle]
  /\ UNCHANGED <<index, job, cache>>

hit(t) ==
  /\ At(t, "lookup") /\ Fresh(Key(t))
  /\ Answers(t, cache[Key(t)].rows, TRUE, FALSE)
  /\ UNCHANGED <<index, job, cache>>

miss(t) ==
  /\ At(t, "lookup") /\ ~Fresh(Key(t))
  /\ reader' = [reader EXCEPT ![t].pc = "dense"]
  /\ UNCHANGED <<index, job, cache>>

search_dense(t) ==
  /\ At(t, "dense")
  /\ \E found \in dense_search(Queries[reader[t].query]) :
       reader' = [reader EXCEPT ![t].dense = [i \in DOMAIN found |-> Ref(found[i])], ![t].pc = "keyword"]
  /\ UNCHANGED <<index, job, cache>>

\* The candidates are fused, ranked and cut to the budget.
search_keyword(t) ==
  /\ At(t, "keyword")
  /\ LET q     == Queries[reader[t].query]
         dense == [i \in DOMAIN reader[t].dense |-> Row(reader[t].dense[i])]
     IN  \E found \in keyword_search(q) : \E ranked \in rank(fuse(dense, found, q)) :
           LET taken == take_within_budget(ranked)
           IN  reader' = [reader EXCEPT ![t].result = [i \in DOMAIN taken |-> Ref(taken[i])],
                                        ![t].dense = <<>>, ![t].pc = "set"]
  /\ UNCHANGED <<index, job, cache>>

\* The result goes to the cache, under the version read at the start.
set(t) ==
  /\ At(t, "set")
  /\ cache' = [k \in DOMAIN cache \cup {Key(t)} |->
                IF k = Key(t) THEN [rows |-> reader[t].result, expired |-> FALSE] ELSE cache[k]]
  /\ Answers(t, reader[t].result, FALSE, FALSE)
  /\ UNCHANGED <<index, job>>

\* A search fails: the last answer under the key, whatever its age, or nothing,
\* is given and marked.
get_stale(t) ==
  /\ At(t, "dense") \/ At(t, "keyword")
  /\ IF Key(t) \in DOMAIN cache THEN Answers(t, cache[Key(t)].rows, TRUE, TRUE)
                                ELSE Answers(t, <<>>, FALSE, TRUE)
  /\ UNCHANGED <<index, job, cache>>

\* An entry outlives its time.
Expire(k) ==
  /\ Fresh(k)
  /\ cache' = [cache EXCEPT ![k].expired = TRUE]
  /\ UNCHANGED <<index, job, reader>>

-----------------------------------------------------------------------------
Ingest ==
  \/ refresh_all \/ (\E s \in SourceIds : ingest_source(s))
  \/ fetch_fails \/ record_version \/ add_chunks \/ activate_version \/ ingest_raises \/ clear

Unanswered(t) ==
  \/ current_version(t) \/ version_fails(t) \/ miss(t) \/ search_dense(t) \/ search_keyword(t)

Next ==
  \/ \E t \in Readers, q \in DOMAIN Queries : retrieve(t, q) /\ answer' = NoAnswer
  \/ /\ UNCHANGED asked
     /\ \/ Ingest /\ answer' = NoAnswer
        \/ (\E k \in DOMAIN cache : Expire(k)) /\ answer' = NoAnswer
        \/ \E t \in Readers : Unanswered(t) /\ answer' = NoAnswer
        \/ \E t \in Readers : hit(t) \/ set(t) \/ get_stale(t)

Spec == Init /\ [][Next]_vars

-----------------------------------------------------------------------------
(* Properties                                                              *)

\* No chunk is longer than the limit, and no text of a document is lost: what
\* is left out of a section that was split is spaces.
ChunksCover ==
  \A w \in Versions : \A d \in ToSet(Documents(w[1], w[2])) :
    LET chunks == ToSet(chunk(d.sections))
    IN  /\ \A c \in chunks : c.len <= MaxChars
        /\ \A x \in ToSet(d.sections) :
             LET of == {c \in chunks : x \in ToSet(c.of)}
             IN  of # {} /\ (x.len > MaxChars =>
                                (0..(x.len - 1)) \ x.spaces \subseteq UNION {c.part : c \in of})

\* A function of the sources and their versions.
Shaped(f, values) ==
  f = [s \in SourceIds |-> f[s]] /\ \A s \in SourceIds : f[s] \in [VersionsOf(s) -> values]

Job == [pc : {"idle", "fetch", "add", "activate", "clear"}, source : SourceIds \cup {None},
        version : Nat, todo : Seq(SourceIds)]

Reader ==
  [pc : {"idle", "version", "lookup", "dense", "keyword", "set"}, query : (DOMAIN Queries) \cup {None},
   todo : Seq(SourceIds), version : [SourceIds -> Nat], dense : Seq(Refs),
   retired : SUBSET Versions, result : Seq(Refs)]

TypeOK ==
  /\ Shaped(status, {"none", "building", "active", "retired"})
  /\ Shaped(rows, {"absent", "live", "retired"})
  /\ job \in Job /\ reader \in [Readers -> Reader]
  /\ cache = [k \in DOMAIN cache |-> cache[k]]
  /\ \A k \in DOMAIN cache : /\ k \in (DOMAIN Queries) \X [SourceIds -> Nat]
                            /\ cache[k] \in [rows : Seq(Refs), expired : BOOLEAN]
  /\ served \subseteq SourceIds

\* The version being built is not there yet, and then whole, before it is active.
Building ==
  /\ job.pc \in {"fetch", "add", "activate"} => job.source \in SourceIds
  /\ job.pc \in {"add", "activate"} =>
       /\ job.version \in VersionsOf(job.source)
       /\ status[job.source][job.version] = "building"
       /\ rows[job.source][job.version] = IF job.pc = "add" THEN "absent" ELSE "live"

\* What is searched of a source is the whole of its active version, if it has had one,
\* and beside it versions that are being built or were left behind by an ingestion that
\* died: a search leaves out retired rows and looks at no status.  A version that
\* was superseded is out of search, one that was not recorded has no rows.
Serving ==
  \A s \in SourceIds :
    /\ Cardinality({v \in VersionsOf(s) : status[s][v] = "active"}) = IF s \in served THEN 1 ELSE 0
    /\ \A v \in VersionsOf(s) :
         /\ status[s][v] = "active" => rows[s][v] = "live"
         /\ status[s][v] = "building" => rows[s][v] \in {"absent", "live"}
         /\ status[s][v] = "retired" => rows[s][v] = "retired"
         /\ status[s][v] = "none" => rows[s][v] = "absent"

\* However an ingestion ends, a source that has been served keeps one active version,
\* whole and searchable; beside it nothing is searchable but versions still marked as
\* building; and chunking loses no text (ingestion.py ingest_source, index.py
\* activate_version and _base_query, chunking.py).
CorpusSound == TypeOK /\ Building /\ Serving /\ ChunksCover

\* A row that an answer may hold keeps to the filters of the query; only a row that
\* mentions it, which the keyword path finds, may miss the products it asks for.
Admitted(r, q) == Eligible(r, q) /\ (matches_filters(r, q) \/ Mentions(r, q))

\* The rows of an answer are admitted by its query and within the budget, each has a
\* citation of its own, and unless the answer is marked stale, nothing in it was retired
\* before it was asked for and it is empty only if the versions it names, where
\* they are still searchable, have nothing to say.
Sound(a) ==
  LET q     == Queries[a.query]
      taken == [i \in DOMAIN a.rows |-> Row(a.rows[i])]
      cited == bind_citations(taken)
  IN
  /\ \A i \in DOMAIN taken : Admitted(taken[i], q)
  /\ DOMAIN cited = DOMAIN taken
  /\ Len(taken) <= TopK
  /\ Len(taken) > 1 => Tokens(taken) <= TokenBudget
  /\ ~a.stale =>
       /\ \A i \in DOMAIN taken : <<taken[i].source, taken[i].version>> \notin a.retired
       /\ taken = <<>> =>
            \A r \in Searchable : r.version = a.version[r.source] =>
              ~(matches_filters(r, q) /\ dense_score(q, r) > 0)

\* Every answer is sound, from the cache or not, stale or not, whatever is ingested
\* while it is made (service.py retrieve, cache.py, citations.py).
AnswerSound == answer # NoAnswer => Sound(answer)
=============================================================================
