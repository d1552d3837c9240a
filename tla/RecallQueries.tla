--------------------------- MODULE RecallQueries ----------------------------
(* Questions to the memory of transcripts: search by pattern, and ask,     *)
(* which fuses words and vectors.  A memory has                            *)
(*   turns    id -> [session, ts, human, text], ts 0 for none              *)
(*   indexed  id -> the grams the segments have; the id may be gone        *)
(*   floor    last_turn_id: turns above it are in no segment               *)
(*   vectors  rows in the order they are scanned, [turn, score], the score *)
(*            that of the question asked                                   *)
EXTENDS TextQueries

CONSTANTS
    CandidateFetchMax,
    MaxWordCandidates, MaxWords, MaxUncostedWords,
    ChannelDepth,
    RrfK,
    RrfScale        \* score unit: a multiple of RrfK + 1, RrfK + 2, ...

Unknown == -1   \* the count of a word without a gram

-----------------------------------------------------------------------------
(* search.rs: the extractor is the dense one, grams of MinGram letters. *)

\* filter_sql, by two of its filters: one session (0 for all), human only.
Passes(turn, filters) ==
    /\ filters.session \in {0, turn.session}
    /\ filters.humanOnly => turn.human

SegmentCandidates(memory, query) ==
    {id \in DOMAIN memory.indexed : Satisfies(memory.indexed[id], query)}

Newest(memory, ids) ==
    ByKey(ids, LAMBDA id : <<-memory.turns[id].ts, -id>>)

\* fetch_rows_by_ids: the candidates below the floor and the whole tail.
FetchRowsByIds(memory, candidates, filters) ==
    LET tail == {id \in DOMAIN memory.turns : id > memory.floor}
        ids == {id \in candidates : id <= memory.floor} \cup tail
    IN  Newest(memory, {id \in ids \cap DOMAIN memory.turns : Passes(memory.turns[id], filters)})

\* scan_ordered: every row, but those below the floor that are no candidates.
ScanOrdered(memory, candidates, narrowed, filters) ==
    Newest(memory, {id \in DOMAIN memory.turns :
                      /\ Passes(memory.turns[id], filters)
                      /\ narrowed /\ id <= memory.floor => id \in candidates})

SearchedTurns(memory, query, filters) ==
    LET candidates == SegmentCandidates(memory, query)
        tail == {id \in DOMAIN memory.turns : id > memory.floor}
        useFetch == query # All /\ Cardinality(candidates) + Cardinality(tail) <= CandidateFetchMax
    IN  IF useFetch THEN FetchRowsByIds(memory, candidates, filters)
        ELSE ScanOrdered(memory, candidates, query # All, filters)

\* Hits are taken until there are `limit`; `more` says only that it stopped.
HitsPage(hits, offset, limit) ==
    LET last == Min({Len(hits), offset + limit})
    IN  [rows |-> SubSeq(hits, Min({offset, last}) + 1, last),
         more |-> last = offset + limit,
         next |-> Max({offset, last})]

SearchTurns(memory, re, filters, offset, limit) ==
    HitsPage(SelectSeq(SearchedTurns(memory, Plan(re, MinGram), filters),
                       LAMBDA id : Matches(re, memory.turns[id].text)),
             offset, limit)

CandidateCount(memory, query) ==
    IF query = All THEN Unknown ELSE Cardinality(SegmentCandidates(memory, query))

-----------------------------------------------------------------------------
(* hybrid.rs, and targets.rs alike: reciprocal ranks. *)

RankOf(x, list) == CHOOSE i \in DOMAIN list : list[i] = x

\* The score of x over channels [weight, list].
Fused(x, channels) ==
    FoldLeft(LAMBDA sum, c : IF x \in Range(c.list)
                             THEN sum + c.weight * (RrfScale \div (RrfK + RankOf(x, c.list)))
                             ELSE sum, 0, channels)

Listed(channels) == UNION {Range(c.list) : c \in Range(channels)}

\* fuse: the best first, the newer turn of equals.
Fuse(channels) ==
    ByKey(Listed(channels), LAMBDA id : <<-Fused(id, channels), -id>>)

-----------------------------------------------------------------------------
(* ask.rs: a question is a set of words, each a literal; case variants and *)
(* word boundaries are left out.                                           *)

WordPattern(word) == [kind |-> "literal", text |-> word]

\* The rarer the weightier; a word that cannot be counted is in the middle.
WordWeight(count) ==
    LET c == IF count = Unknown THEN MaxWordCandidates \div 10 ELSE count
    IN  Max({1, MaxWordCandidates \div (1 + c)})

\* The order of words that weigh the same: that of their first letters.
WordOrder(a, b) ==
    \E n \in 1..Min({Len(a), Len(b)}) : a[n] < b[n] /\ SubSeq(a, 1, n - 1) = SubSeq(b, 1, n - 1)

\* Words with what they cost: [word, count, weight].
Costed(memory, words) ==
    {LET count == CandidateCount(memory, Plan(WordPattern(w), MinGram))
     IN  [word |-> w, count |-> count, weight |-> WordWeight(count)] : w \in words}

\* The rarest words; few of those that cost a scan.
WordsToSearch(costed) ==
    LET order == SetToSortSeq({w \in costed : w.count <= MaxWordCandidates},
                              LAMBDA a, b : \/ a.weight > b.weight
                                            \/ a.weight = b.weight /\ WordOrder(a.word, b.word))
        Uncosted(n) == Cardinality({i \in 1..n : order[i].count = Unknown})
        kept == SelectSeq([i \in DOMAIN order |-> i],
                          LAMBDA i : order[i].count # Unknown \/ Uncosted(i) <= MaxUncostedWords)
    IN  {order[kept[i]] : i \in 1..Min({MaxWords, Len(kept)})}

\* What the search for each word finds: [word, weight, turns].
WordHits(memory, costed, filters) ==
    LET humans == [filters EXCEPT !.humanOnly = TRUE]
    IN  {[word |-> w.word, weight |-> w.weight,
          turns |-> Range(SearchTurns(memory, WordPattern(w.word), humans, 0, 99).rows)] :
           w \in costed}

\* Turns by the summed weight of the words they have.
LexicalChannel(memory, found) ==
    LET Score(id) == MapThenSumSet(LAMBDA w : w.weight, {w \in found : id \in w.turns})
    IN  First(ByKey(UNION {w.turns : w \in found},
                    LAMBDA id : <<-Score(id), -memory.turns[id].ts, -id>>), ChannelDepth)

\* knn: the rows of the k best scores, the first scanned of equals.
Knn(memory, k, allowed) ==
    LET rows == {i \in DOMAIN memory.vectors : memory.vectors[i].turn \in allowed}
        best == First(ByKey(rows, LAMBDA i : <<-memory.vectors[i].score, i>>), k)
    IN  [n \in DOMAIN best |-> memory.vectors[best[n]].turn]

\* Each turn at the rank of its best chunk.
SemanticChannel(memory, filters) ==
    LET allowed == IF filters.humanOnly \/ filters.session # 0
                   THEN {id \in DOMAIN memory.turns : Passes(memory.turns[id], filters)}
                   ELSE {v.turn : v \in Range(memory.vectors)}
    IN  First(Distinct(Knn(memory, 3 * ChannelDepth, allowed)), ChannelDepth)

Channels(memory, words, filters, embedder) ==
    <<[weight |-> 2, list |-> LexicalChannel(memory,
         WordHits(memory, WordsToSearch(Costed(memory, words)), filters))],
      [weight |-> 1, list |-> IF embedder THEN SemanticChannel(memory, filters) ELSE <<>>]>>

\* The best turn of each of the first k sessions; a turn that is gone is
\* passed over, and nothing is counted once there are k.
Ask(memory, words, filters, k, embedder) ==
    FoldLeft(
        LAMBDA groups, id :
            IF Len(groups) >= k \/ id \notin DOMAIN memory.turns THEN groups
            ELSE LET session == memory.turns[id].session
                     at == {i \in DOMAIN groups : groups[i].session = session}
                 IN  IF at = {} THEN Append(groups, [session |-> session, best |-> id, extra |-> 0])
                     ELSE [groups EXCEPT ![Min(at)].extra = @ + 1],
        <<>>, Fuse(Channels(memory, words, filters, embedder)))

=============================================================================
