--------------------------- MODULE MCRecallCorpus ---------------------------
(* Bounds: ingests, runs and deaths are counted.  Segments and vectors only *)
(* share the store, so a behaviour exercises one of the two.                *)
EXTENDS RecallCorpus, TLC

CONSTANTS p1, p2, r1, e1, e2, s1, s2, MaxTexts, MaxIngests, MaxRuns, MaxCrashes,
    MaxSearches, MaxSteals, Focus

VARIABLES focus, ingests, runs, crashes, searches, steals

bounds == <<focus, ingests, runs, crashes, searches, steals>>

mcvars == <<vars, bounds>>

MCParentOf == [s \in {s1, s2} |-> None]

MCMaxIngests == [segments |-> 2, vectors |-> 3]

MCInit ==
    /\ Init
    /\ focus \in Focus
    /\ ingests = 0 /\ runs = 0 /\ crashes = 0
    /\ searches = 0 /\ steals = 0

MCNext ==
    \/ /\ ingests < MaxIngests[focus]
       /\ \E s \in Sessions, n \in 1..2 :
            texts + n <= MaxTexts /\ (Grow(s, n) \/ Rewrite(s, n))
       /\ ingests' = ingests + 1
       /\ UNCHANGED <<focus, runs, crashes, searches, steals>>
    \/ /\ runs < MaxRuns
       /\ \/ /\ focus = "segments"
             /\ \E p \in Indexers, full \in BOOLEAN : OpenSegments(p, full)
          \/ /\ focus = "vectors"
             /\ \E e \in Embedders, rebuild \in BOOLEAN : OpenVectors(e, rebuild)
       /\ runs' = runs + 1
       /\ UNCHANGED <<focus, ingests, crashes, searches, steals>>
    \/ /\ \/ \E p \in Indexers : Index(p)
          \/ \E e \in Embedders : Embed(e)
          \/ \E r \in Searchers : OpenShards(r) \/ FetchRows(r) \/ Answer(r)
       /\ UNCHANGED bounds
    \/ /\ searches < MaxSearches
       /\ focus = "segments"
       /\ \E r \in Searchers : OpenSearch(r)
       /\ searches' = searches + 1
       /\ UNCHANGED <<focus, ingests, runs, crashes, steals>>
    \/ /\ steals < MaxSteals
       /\ \E p \in Indexers : FindStale(p)
       /\ steals' = steals + 1
       /\ UNCHANGED <<focus, ingests, runs, crashes, searches>>
    \/ /\ crashes < MaxCrashes
       /\ \/ \E p \in Indexers : CrashIndexer(p)
          \/ \E e \in Embedders : CrashEmbedder(e)
       /\ crashes' = crashes + 1
       /\ UNCHANGED <<focus, ingests, runs, searches, steals>>

MCSpec == MCInit /\ [][MCNext]_mcvars

Symmetric == Permutations(Indexers) \cup Permutations(Embedders) \cup Permutations(Sessions)

=============================================================================
