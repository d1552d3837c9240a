------------------------------- MODULE Targets ------------------------------
(* The files a task is about, and the context of a symbol.  A project has  *)
(*   corpus     the text index (TextQueries)                               *)
(*   graph      (GraphQueries), its files being the paths of the corpus    *)
(*   clusters   rows [label, members]                                      *)
(*   pathWords  path -> the words of its components, <<word, isName>>      *)
(*   names      symbol name -> its words                                   *)
(*   keyword    word -> the pattern that finds it, whatever its case       *)
(* A query is [keywords, exact]: words in order, names in backticks.       *)
EXTENDS GraphQueries, RecallQueries

CONSTANTS
    ContentProbeLimit, ContentCountCap,
    MaxSeedFiles, MaxSeedSymbols, MaxSymbolsPerFile,
    P0Cap,
    ExactBonus          \* in the unit of RrfScale

-----------------------------------------------------------------------------
(* The signals: targets.rs of gitpixel-serve and of gitpixel-graph.        *)

\* Paths by their keywords, double in the file's name.
FilenameRank(project, query) ==
    LET Score(p) == FoldLeft(LAMBDA sum, w : IF w[1] \notin Range(query.keywords) THEN sum
                                             ELSE sum + (IF w[2] THEN 2 ELSE 1),
                             0, project.pathWords[p])
    IN  ByKey({p \in DOMAIN project.corpus.files : Score(p) > 0}, LAMBDA p : <<-Score(p), p>>)

ByPath(rows) ==
    [p \in {r.path : r \in Range(rows)} |-> Len(SelectSeq(rows, LAMBDA r : r.path = p))]

\* keyword -> path -> how many of the first lines found are in it; none when
\* the search fails, of which nothing is said.
ContentHits(project, query) ==
    [kw \in Range(query.keywords) |->
       ByPath(SearchPageIn(project.corpus, project.keyword[kw], 0, ContentProbeLimit, {}).rows)]

\* Distinct keywords, then lines up to a cap, then path.
ContentRank(hits) ==
    LET Keywords(p) == {kw \in DOMAIN hits : p \in DOMAIN hits[kw]}
        Total(p) == MapThenSumSet(LAMBDA kw : Min({hits[kw][p], ContentCountCap}), Keywords(p))
        Key(p) == <<-Cardinality(Keywords(p)), -Total(p), p>>
    IN  ByKey(UNION {DOMAIN hits[kw] : kw \in DOMAIN hits}, Key)

\* Files with symbols of the keywords or of an exact name.
MatchedSymbols(project, query, file) ==
    LET symbols == project.graph.symbols
    IN  Ascending({s \in DOMAIN symbols :
                     /\ symbols[s].file = file
                     /\ \/ symbols[s].name \in query.exact
                        \/ project.names[symbols[s].name] \cap Range(query.keywords) # {}})

ExactHit(project, query, file) ==
    \E s \in Range(MatchedSymbols(project, query, file)) :
      project.graph.symbols[s].name \in query.exact

\* Mutant: files by their keywords only, whether a name is exact or not.
SymbolHitsByWords(project, query) ==
    LET Found(f) == MatchedSymbols(project, query, f)
        Words(f) == UNION {project.names[project.graph.symbols[s].name] : s \in Range(Found(f))}
        Key(f) == <<-Cardinality(Words(f) \cap Range(query.keywords)),
                    -Min({Len(Found(f)), MaxSymbolsPerFile}), f>>
    IN  ByKey({f \in DOMAIN project.corpus.files : Found(f) # <<>>}, Key)

SymbolHits(project, query) ==
    LET Found(f) == MatchedSymbols(project, query, f)
        Words(f) == UNION {project.names[project.graph.symbols[s].name] : s \in Range(Found(f))}
        Key(f) == <<IF ExactHit(project, query, f) THEN 0 ELSE 1,
                    -Cardinality(Words(f) \cap Range(query.keywords)),
                    -Min({Len(Found(f)), MaxSymbolsPerFile}), f>>
    IN  ByKey({f \in DOMAIN project.corpus.files : Found(f) # <<>>}, Key)

ByScore(channels) == ByKey(Listed(channels), LAMBDA p : <<-Fused(p, channels), p>>)

LexicalChannels(project, query, hasGraph) ==
    <<[weight |-> 6, list |-> FilenameRank(project, query)],
      [weight |-> 5, list |-> IF hasGraph THEN SymbolHits(project, query) ELSE <<>>],
      [weight |-> 3, list |-> ContentRank(ContentHits(project, query))]>>

LexicalRank(project, query) == ByScore(LexicalChannels(project, query, TRUE))

Once(lists) == Distinct(FlattenSeq(lists))

FileOf(g, s) == g.symbols[s].file

\* Files of callers, then of callees, of each seed, by edges of any kind.
NeighborFiles(g, seeds) ==
    LET seedFiles == {FileOf(g, s) : s \in Range(seeds)}
        From(s) == Ascending({e.src : e \in {e \in Rows(g) : e.dst = s}})
        To(s) == Ascending({e.dst : e \in {e \in Rows(g) : e.src = s}})
        Files(ids) == SelectSeq([i \in DOMAIN ids |-> FileOf(g, ids[i])],
                                LAMBDA f : f \notin seedFiles)
    IN  Once([i \in DOMAIN seeds |-> Files(From(seeds[i])) \o Files(To(seeds[i]))])

\* What each seed imports, then what imports it.
ImportAdjacentFiles(g, seedFiles) ==
    LET Others(S) == Ascending(S \ Range(seedFiles))
    IN  Once([i \in DOMAIN seedFiles |->
                Others({m[2] : m \in {m \in g.imports : m[1] = seedFiles[i]}})
                  \o Others({m[1] : m \in {m \in g.imports : m[2] = seedFiles[i]}})])

ClusterCoFiles(g, clusters, seeds) ==
    LET seedFiles == {FileOf(g, s) : s \in Range(seeds)}
        Files(c) == IF c.label = "misc" THEN <<>>
                    ELSE Ascending({FileOf(g, s) : s \in c.members} \ seedFiles)
        Of(s) == SelectSeq(clusters, LAMBDA c : s \in c.members)
    IN  Once([i \in DOMAIN seeds |->
                FlattenSeq([j \in DOMAIN Of(seeds[i]) |-> Files(Of(seeds[i])[j])])])

\* op_targets: the symbols found in the best files are the seeds.
SeedFiles(project, query) == First(LexicalRank(project, query), MaxSeedFiles)
SeedSymbols(project, query) ==
    LET files == SelectSeq(SymbolHits(project, query),
                           LAMBDA f : f \in Range(SeedFiles(project, query)))
    IN  First(FlattenSeq([i \in DOMAIN files |->
                First(MatchedSymbols(project, query, files[i]), MaxSymbolsPerFile)]),
              MaxSeedSymbols)

\* Names with a call left unresolved, of those the query is about.
EnvelopeForNames(project, query) ==
    LET found == UNION {Range(First(MatchedSymbols(project, query, f), MaxSymbolsPerFile)) :
                          f \in Range(SymbolHits(project, query))}
        names == query.exact \cup {project.graph.symbols[s].name : s \in found}
    IN  names \cap project.graph.unresolved

TargetChannels(project, query, hasGraph) ==
    LET seeds == SeedSymbols(project, query)
        near == Once(<<NeighborFiles(project.graph, seeds),
                       ImportAdjacentFiles(project.graph, SeedFiles(project, query))>>)
        beside == ClusterCoFiles(project.graph, project.clusters, seeds)
    IN  LexicalChannels(project, query, hasGraph)
          \o <<[weight |-> 2, list |-> IF hasGraph THEN near ELSE <<>>],
               [weight |-> 1, list |-> IF hasGraph THEN beside ELSE <<>>]>>

-----------------------------------------------------------------------------
(* compute_targets: by score, each file in the tier there is room for.     *)

Tiered(project, query, hasGraph, channels, limit) ==
    LET In(p, n) == p \in Range(channels[n].list)
        families(p) == {n \in 1..5 : In(p, n)}
        lexical(p) == families(p) \cap 1..3 # {}
        exact(p) == hasGraph /\ ExactHit(project, query, p)
        Score(p) == Fused(p, channels) + (IF exact(p) THEN ExactBonus ELSE 0)
        ordered == ByKey(Listed(channels), LAMBDA p : <<-Score(p), p>>)
        Count(found, tier) == Len(SelectSeq(found, LAMBDA t : t.tier = tier))
        Tier(found, p) ==
          IF /\ lexical(p) /\ Count(found, "P0") < Min({P0Cap, limit})
             /\ exact(p) \/ (Cardinality(families(p)) >= 2 /\ families(p) \cap 1..2 # {})
          THEN "P0" ELSE IF lexical(p) THEN "P1" ELSE "P2"
        Placed(acc, t) == IF t.tier = "P2" /\ Count(acc, "P2") >= (limit + 3) \div 4
                         THEN acc ELSE Append(acc, t)
    IN  FoldLeft(LAMBDA acc, p : IF Len(acc) >= limit THEN acc
                                 ELSE Placed(acc, [path |-> p, tier |-> Tier(acc, p)]),
                 <<>>, ordered)

TiersInOrder(found) ==
    FlattenSeq([n \in 1..3 |-> SelectSeq(found, LAMBDA t : t.tier = <<"P0", "P1", "P2">>[n])])

ComputeTargets(project, query, hasGraph, asked) ==
    [targets |-> TiersInOrder(Tiered(project, query, hasGraph,
                                     TargetChannels(project, query, hasGraph),
                                     Clamp(asked, 1, 100))),
     lowerBound |-> IF hasGraph THEN EnvelopeForNames(project, query) # {} ELSE TRUE]

=============================================================================
