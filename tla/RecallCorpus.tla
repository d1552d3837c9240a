---------------------------- MODULE RecallCorpus ----------------------------
(***************************************************************************)
(* The two indexes of the transcript store: trigram segments of its turns  *)
(* (segment.rs, searched by search.rs) and vectors of their chunks         *)
(* (vector.rs, filled by embed.rs).  Both are append-only files listed by  *)
(* a JSON file, written by the recall daemon and by the command line while *)
(* ingests go on changing the turns.                                       *)
(*                                                                         *)
(* A pattern stands for the text it matches: a segment maps a turn id to   *)
(* the text whose trigrams it holds, a vector is the text it was made of.  *)
(* Every ingest writes texts never seen before.                            *)
(***************************************************************************)
EXTENDS Integers, RecallStore

CONSTANTS
    Indexers,       \* processes that write segments
    Searchers,      \* processes that search
    Embedders,      \* processes that write vectors
    Sessions,       \* what is ingested
    SegmentTarget,  \* turns in a segment
    BatchTurns,     \* turns embedded at a time
    FlushChunks,    \* chunks in a vector segment
    Dead            \* the lock's holder died

ASSUME CorpusAssumption ==
    /\ {SegmentTarget, BatchTurns, FlushChunks} \subseteq Nat \ {0}
    /\ None \notin Indexers /\ Dead \notin Indexers \cup {None}
    /\ \A s \in Sessions : ParentOf[s] = None

VARIABLES
    db,         \* recall.db
    texts,      \* texts written so far, which are 1, 2, ...
    segfiles,   \* [segment names -> [turn ids -> text]], on disk
    manifest,   \* segments/manifest.json
    lock,       \* segments/.index.lock: None, its holder, or Dead
    idx,        \* [Indexers -> a run of index_new or rebuild]
    sea,        \* [Searchers -> a search]
    vecfiles,   \* [vector segment names -> [chunk ids -> text]]
    vecmeta,    \* vectors/meta.json
    emb,        \* [Embedders -> a run of run_backfill]
    reused,     \* history: ids of a second turn that segments have for a first
    blurred,    \* history: the same of vectors
    torn        \* history: what happened to the indexes that no run heals

segvars == <<segfiles, manifest, lock, idx, sea, reused>>
vecvars == <<vecfiles, vecmeta, emb, blurred>>
vars == <<db, texts, segvars, vecvars, torn>>

-----------------------------------------------------------------------------
\* Ingest, seen from the indexes: one transaction of store.rs.

Indexed == 1..manifest.last \cup UNION {1..LastId(idx[p].batch) : p \in Indexers}

Chunked == {db.chunks[c] : c \in DOMAIN db.chunks}
           \cup UNION {DOMAIN emb[e].batch \cup DOMAIN emb[e].rows : e \in Embedders}

Committed(new) ==
    LET ids == {id \in DOMAIN new.turns :
                    id \notin DOMAIN db.turns \/ new.turns[id] # db.turns[id]}
        gone == DOMAIN db.turns \ DOMAIN new.turns
    IN  /\ db' = new
        /\ texts' = texts + Cardinality(ids)
        /\ reused' = reused \cup (ids \cap Indexed)
        /\ blurred' = blurred \cup (ids \cap Chunked)
        /\ sea' = [r \in Searchers |->
                [sea[r] EXCEPT !.stable = {t \in @ : t[1] \notin ids \cup gone}]]
        /\ UNCHANGED <<segfiles, manifest, lock, idx, vecfiles, vecmeta, emb, torn>>

Fresh(n) == [i \in 1..n |-> texts + i]

Grow(s, n) == Committed(AppendSession(db, s, Fresh(n), s, None))

Rewrite(s, n) == SessionIds(db, s) # {} /\ Committed(ReplaceSession(db, s, Fresh(n), s, None))

-----------------------------------------------------------------------------
\* Trigram segments.

NoManifest == [generation |-> 0, last |-> 0, segments |-> <<>>]

NoRun == [pc |-> "idle", full |-> FALSE, manifest |-> NoManifest, batch |-> <<>>]

\* SegmentSet::open, then index_new or, for a full index, rebuild.
OpenSegments(p, full) ==
    /\ idx[p].pc = "idle"
    /\ idx' = [idx EXCEPT ![p] =
            [NoRun EXCEPT !.pc = "lock", !.full = full, !.manifest = manifest]]
    /\ UNCHANGED <<db, texts, segfiles, manifest, lock, sea, reused, vecvars, torn>>

\* Mutant: the manifest of the opening is kept.
AcquireStale(p) ==
    LET run == idx[p]
    IN  /\ run.pc = "lock"
        /\ lock = None
        /\ lock' = p
        /\ idx' = [idx EXCEPT ![p].pc = IF run.full THEN "drop" ELSE "read"]
        /\ UNCHANGED <<db, texts, segfiles, manifest, sea, reused, vecvars, torn>>

\* index_new reads the manifest again behind the lock, rebuild does not.
Acquire(p) ==
    LET run == idx[p]
    IN  /\ run.pc = "lock"
        /\ lock = None
        /\ lock' = p
        /\ idx' = [idx EXCEPT ![p] =
                IF run.full THEN [run EXCEPT !.pc = "drop"]
                ELSE [run EXCEPT !.pc = "read", !.manifest = manifest]]
        /\ UNCHANGED <<db, texts, segfiles, manifest, sea, reused, vecvars, torn>>

\* The lock is there for over ten minutes: its age is read, then the file goes,
\* whoever holds it by then.
FindStale(p) ==
    /\ idx[p].pc = "lock"
    /\ lock # None
    /\ idx' = [idx EXCEPT ![p].pc = "steal"]
    /\ UNCHANGED <<db, texts, segfiles, manifest, lock, sea, reused, vecvars, torn>>

Steal(p) ==
    /\ idx[p].pc = "steal"
    /\ lock' = None
    /\ idx' = [idx EXCEPT ![p].pc = "lock"]
    /\ torn' = IF lock \in Indexers THEN torn \cup {"stolen"} ELSE torn
    /\ UNCHANGED <<db, texts, segfiles, manifest, sea, reused, vecvars>>

GiveUp(p) ==
    /\ idx[p].pc = "lock"
    /\ lock # None
    /\ idx' = [idx EXCEPT ![p] = NoRun]
    /\ UNCHANGED <<db, texts, segfiles, manifest, lock, sea, reused, vecvars, torn>>

Lowest(ids, n) == {id \in ids : Cardinality({other \in ids : other < id}) < n}

\* The next turns above the high-water mark; without any the run is over.
ReadBatch(p) ==
    LET run == idx[p]
        ids == Lowest(TurnsForIndexing(db, run.manifest.last), SegmentTarget)
    IN  /\ run.pc = "read"
        /\ idx' = [idx EXCEPT ![p] =
                IF ids = {} THEN NoRun
                ELSE [run EXCEPT !.pc = "write",
                                 !.batch = [id \in ids |-> db.turns[id].text]]]
        /\ lock' = IF ids = {} THEN None ELSE lock
        /\ UNCHANGED <<db, texts, segfiles, manifest, sea, reused, vecvars, torn>>

\* Mutant: a name for each generation.
SegmentNameOfGeneration(m) == m.generation + 1

SegmentName(m) == m.generation + Len(m.segments) + 1

WriteSegment(p) ==
    LET run == idx[p]
        name == SegmentName(run.manifest)
    IN  /\ run.pc = "write"
        /\ segfiles' = With(segfiles, [x \in {name} |-> run.batch])
        /\ idx' = [idx EXCEPT ![p] =
                [run EXCEPT !.pc = "list",
                            !.manifest.segments = Append(@, name),
                            !.manifest.last = LastId(run.batch)]]
        /\ UNCHANGED <<db, texts, manifest, lock, sea, reused, vecvars, torn>>

ListSegment(p) ==
    LET run == idx[p]
    IN  /\ run.pc = "list"
        /\ manifest' = run.manifest
        /\ idx' = [idx EXCEPT ![p] = [run EXCEPT !.pc = "read", !.batch = <<>>]]
        /\ reused' = reused \ {id \in DOMAIN run.batch :
                                id \in DOMAIN db.turns /\ db.turns[id].text = run.batch[id]}
        /\ UNCHANGED <<db, texts, segfiles, lock, sea, vecvars, torn>>

\* rebuild deletes what its manifest listed when it was opened.
DropSegments(p) ==
    LET run == idx[p]
    IN  /\ run.pc = "drop"
        /\ segfiles' = Without(segfiles, Range(run.manifest.segments))
        /\ idx' = [idx EXCEPT ![p] =
                [run EXCEPT !.pc = "empty",
                            !.manifest = [NoManifest EXCEPT !.generation =
                                            run.manifest.generation + 1]]]
        /\ sea' = [r \in Searchers |-> [sea[r] EXCEPT !.calm = FALSE]]
        /\ UNCHANGED <<db, texts, manifest, lock, reused, vecvars, torn>>

\* The empty manifest, then the lock is given up and index_new begins.
EmptyManifest(p) ==
    LET run == idx[p]
    IN  /\ run.pc = "empty"
        /\ manifest' = run.manifest
        /\ lock' = None
        /\ idx' = [idx EXCEPT ![p] = [run EXCEPT !.pc = "lock", !.full = FALSE]]
        /\ torn' = torn \ {"dropped"}
        /\ UNCHANGED <<db, texts, segfiles, sea, reused, vecvars>>

Holding(p) == idx[p].pc \in {"read", "write", "list", "drop", "empty"}

CrashIndexer(p) ==
    /\ idx[p].pc # "idle"
    /\ idx' = [idx EXCEPT ![p] = NoRun]
    /\ lock' = IF lock = p THEN Dead ELSE lock
    /\ torn' = IF idx[p].pc = "empty" THEN torn \cup {"dropped"} ELSE torn
    /\ UNCHANGED <<db, texts, segfiles, manifest, sea, reused, vecvars>>

\* A search: manifest, postings of every segment it can open, rows.

NoSearch == [pc |-> "idle", manifest |-> NoManifest, candidates |-> {}, stable |-> {},
             stale |-> {}, found |-> {}, calm |-> TRUE]

RowsNow == {<<id, db.turns[id].text>> : id \in DOMAIN db.turns}

OpenSearch(r) ==
    /\ sea[r].pc = "idle"
    /\ sea' = [sea EXCEPT ![r] =
            [NoSearch EXCEPT !.pc = "plan", !.manifest = manifest, !.stable = RowsNow,
                             !.stale = reused, !.calm = \A p \in Indexers : idx[p].pc # "empty"]]
    /\ UNCHANGED <<db, texts, segfiles, manifest, lock, idx, reused, vecvars, torn>>

OpenShards(r) ==
    LET run == sea[r]
        open == Range(run.manifest.segments) \cap DOMAIN segfiles
    IN  /\ run.pc = "plan"
        /\ sea' = [sea EXCEPT ![r] =
                [run EXCEPT !.pc = "fetch",
                            !.candidates = UNION {{<<id, segfiles[f][id]>> :
                                                     id \in DOMAIN segfiles[f]} : f \in open}]]
        /\ UNCHANGED <<db, texts, segfiles, manifest, lock, idx, reused, vecvars, torn>>

\* Mutant: the tail begins one row late.
FetchRowsLate(r) ==
    LET run == sea[r]
    IN  /\ run.pc = "fetch"
        /\ sea' = [sea EXCEPT ![r] =
                [run EXCEPT !.pc = "done",
                            !.found = {t \in RowsNow : t[1] > run.manifest.last + 1
                                                       \/ t \in run.candidates}]]
        /\ UNCHANGED <<db, texts, segfiles, manifest, lock, idx, reused, vecvars, torn>>

\* Rows beyond the segments are all candidates; every row is matched again.
FetchRows(r) ==
    LET run == sea[r]
    IN  /\ run.pc = "fetch"
        /\ sea' = [sea EXCEPT ![r] =
                [run EXCEPT !.pc = "done",
                            !.found = {t \in RowsNow : t[1] > run.manifest.last
                                                       \/ t \in run.candidates}]]
        /\ UNCHANGED <<db, texts, segfiles, manifest, lock, idx, reused, vecvars, torn>>

Answer(r) ==
    /\ sea[r].pc = "done"
    /\ sea' = [sea EXCEPT ![r] = NoSearch]
    /\ UNCHANGED <<db, texts, segfiles, manifest, lock, idx, reused, vecvars, torn>>

-----------------------------------------------------------------------------
\* Vectors.

NoMeta == [segments |-> <<>>, last |-> 0]

NoBackfill == [pc |-> "idle", meta |-> NoMeta, after |-> 0, batch |-> <<>>, rows |-> <<>>,
               chunks |-> <<>>, more |-> FALSE]

\* history: a second run goes on beside a first, which nothing prevents.
Beside(e) == \E other \in Embedders \ {e} : emb[other].pc # "idle"

OpenVectors(e, rebuild) ==
    /\ emb[e].pc = "idle"
    /\ emb' = [emb EXCEPT ![e] =
            [NoBackfill EXCEPT !.pc = IF rebuild THEN "clear" ELSE "heal", !.meta = vecmeta]]
    /\ torn' = IF Beside(e) THEN torn \cup {"beside"} ELSE torn
    /\ UNCHANGED <<db, texts, segvars, vecfiles, vecmeta, blurred>>

\* embed --rebuild: the files, meta.json, then the marks and chunks in the store.
ClearFiles(e) ==
    LET run == emb[e]
    IN  /\ run.pc = "clear"
        /\ vecfiles' = Without(vecfiles, Range(run.meta.segments))
        /\ emb' = [emb EXCEPT ![e] = [run EXCEPT !.pc = "forget", !.meta = NoMeta]]
        /\ UNCHANGED <<db, texts, segvars, vecmeta, blurred, torn>>

ClearMeta(e) ==
    LET run == emb[e]
    IN  /\ run.pc = "forget"
        /\ vecmeta' = run.meta
        /\ emb' = [emb EXCEPT ![e] = [run EXCEPT !.pc = "reset"]]
        /\ UNCHANGED <<db, texts, segvars, vecfiles, blurred, torn>>

ResetEmbeddings(e) ==
    LET run == emb[e]
    IN  /\ run.pc \in {"reset", "unmark"}
        /\ db' = IF run.pc = "reset" THEN ResetChunks(db) ELSE ResetMarks(db)
        /\ emb' = [emb EXCEPT ![e].pc = IF run.pc = "reset" THEN "unmark" ELSE "heal"]
        /\ blurred' = IF run.pc = "unmark" THEN {} ELSE blurred
        /\ torn' = IF run.pc = "unmark" THEN torn \ {"cleared"} ELSE torn
        /\ UNCHANGED <<texts, segvars, vecfiles, vecmeta>>

\* run_backfill begins by dropping the chunks that no segment has.
Heal(e) ==
    LET run == emb[e]
    IN  /\ run.pc = "heal"
        /\ db' = MarkPolicySkips(DropOrphanChunks(db, run.meta.last))
        /\ emb' = [emb EXCEPT ![e] = [run EXCEPT !.pc = "fetch"]]
        /\ UNCHANGED <<texts, segvars, vecfiles, vecmeta, blurred, torn>>

\* The next pending turns.  Without any, those the policy leaves out are swept
\* again, and without any of them either what is left is flushed.
FetchBatch(e) ==
    LET run == emb[e]
        ids == Lowest(PendingEmbed(db, run.after), BatchTurns)
    IN  /\ run.pc = "fetch"
        /\ ids # {}
        /\ emb' = [emb EXCEPT ![e] =
                [run EXCEPT !.pc = "chunk", !.after = Max(ids),
                            !.batch = [id \in ids |-> db.turns[id].text]]]
        /\ UNCHANGED <<db, texts, segvars, vecfiles, vecmeta, blurred, torn>>

Sweep(e) ==
    LET run == emb[e]
        swept == MarkPolicySkips(db)
    IN  /\ run.pc = "fetch"
        /\ PendingEmbed(db, run.after) = {}
        /\ db' = swept
        /\ emb' = [emb EXCEPT ![e] =
                IF swept # db THEN run
                ELSE IF run.rows = <<>> THEN NoBackfill
                ELSE [run EXCEPT !.pc = "write", !.more = FALSE]]
        /\ UNCHANGED <<texts, segvars, vecfiles, vecmeta, blurred, torn>>

\* insert_chunks for one turn of the batch; after the last the batch is embedded.
ChunkTurn(e) ==
    LET run == emb[e]
        turn == Min(DOMAIN run.batch)
        new == InsertChunk(db, turn)
        rows == With(run.rows, [x \in {turn} |-> run.batch[turn]])
        last == Cardinality(DOMAIN run.batch) = 1
    IN  /\ run.pc = "chunk"
        /\ db' = new
        /\ emb' = [emb EXCEPT ![e] =
                [run EXCEPT !.batch = Without(@, {turn}),
                            !.rows = rows,
                            !.chunks = With(@, [x \in {LastId(new.chunks)} |-> run.batch[turn]]),
                            !.more = last /\ Cardinality(DOMAIN rows) >= FlushChunks,
                            !.pc = IF ~last THEN "chunk"
                                   ELSE IF Cardinality(DOMAIN rows) >= FlushChunks THEN "write"
                                   ELSE "fetch"]]
        /\ UNCHANGED <<texts, segvars, vecfiles, vecmeta, blurred, torn>>

\* Mutant: meta.json is not written.
WriteVectorsUnlisted(e) ==
    LET run == emb[e]
        name == Len(run.meta.segments) + 1
    IN  /\ run.pc = "write"
        /\ vecfiles' = With(vecfiles, [x \in {name} |-> run.chunks])
        /\ emb' = [emb EXCEPT ![e] =
                [run EXCEPT !.pc = "mark",
                            !.meta = [segments |-> Append(@.segments, name),
                                      last |-> Max({@.last, LastId(run.chunks)})]]]
        /\ UNCHANGED <<db, texts, segvars, vecmeta, blurred, torn>>

\* Mutant: the last chunk is not counted.
WriteVectorsShort(e) ==
    LET run == emb[e]
        name == Len(run.meta.segments) + 1
    IN  /\ run.pc = "write"
        /\ vecfiles' = With(vecfiles, [x \in {name} |-> run.chunks])
        /\ emb' = [emb EXCEPT ![e] =
                [run EXCEPT !.pc = "meta",
                            !.meta = [segments |-> Append(@.segments, name),
                                      last |-> Max({@.last, LastId(run.chunks) - 1})]]]
        /\ UNCHANGED <<db, texts, segvars, vecmeta, blurred, torn>>

WriteVectors(e) ==
    LET run == emb[e]
        name == Len(run.meta.segments) + 1
    IN  /\ run.pc = "write"
        /\ vecfiles' = With(vecfiles, [x \in {name} |-> run.chunks])
        /\ emb' = [emb EXCEPT ![e] =
                [run EXCEPT !.pc = "meta",
                            !.meta = [segments |-> Append(@.segments, name),
                                      last |-> Max({@.last, LastId(run.chunks)})]]]
        /\ UNCHANGED <<db, texts, segvars, vecmeta, blurred, torn>>

WriteMeta(e) ==
    LET run == emb[e]
    IN  /\ run.pc = "meta"
        /\ vecmeta' = run.meta
        /\ emb' = [emb EXCEPT ![e] = [run EXCEPT !.pc = "mark"]]
        /\ UNCHANGED <<db, texts, segvars, vecfiles, blurred, torn>>

\* mark_embedded, one row after the other.
MarkTurn(e) ==
    LET run == emb[e]
        turn == Min(DOMAIN run.rows)
        left == Without(run.rows, {turn})
    IN  /\ run.pc = "mark"
        /\ db' = MarkEmbedded(db, {turn})
        /\ emb' = [emb EXCEPT ![e] =
                IF left # <<>> THEN [run EXCEPT !.rows = left]
                ELSE IF run.more THEN [run EXCEPT !.pc = "fetch", !.rows = <<>>, !.chunks = <<>>]
                ELSE NoBackfill]
        /\ UNCHANGED <<texts, segvars, vecfiles, vecmeta, blurred, torn>>

CrashEmbedder(e) ==
    /\ emb[e].pc # "idle"
    /\ emb' = [emb EXCEPT ![e] = NoBackfill]
    /\ torn' = IF emb[e].pc \in {"forget", "reset", "unmark"} THEN torn \cup {"cleared"}
               ELSE torn
    /\ UNCHANGED <<db, texts, segvars, vecfiles, vecmeta, blurred>>

-----------------------------------------------------------------------------

Init ==
    /\ db = EmptyStore
    /\ texts = 0
    /\ segfiles = <<>> /\ manifest = NoManifest /\ lock = None
    /\ idx = [p \in Indexers |-> NoRun]
    /\ sea = [r \in Searchers |-> NoSearch]
    /\ vecfiles = <<>> /\ vecmeta = NoMeta
    /\ emb = [e \in Embedders |-> NoBackfill]
    /\ reused = {} /\ blurred = {} /\ torn = {}

Index(p) ==
    \/ Acquire(p) \/ Steal(p) \/ GiveUp(p)
    \/ ReadBatch(p) \/ WriteSegment(p) \/ ListSegment(p)
    \/ DropSegments(p) \/ EmptyManifest(p)

Search(r) == OpenSearch(r) \/ OpenShards(r) \/ FetchRows(r) \/ Answer(r)

Embed(e) ==
    \/ ClearFiles(e) \/ ClearMeta(e) \/ ResetEmbeddings(e) \/ Heal(e)
    \/ FetchBatch(e) \/ Sweep(e) \/ ChunkTurn(e)
    \/ WriteVectors(e) \/ WriteMeta(e) \/ MarkTurn(e)

Next ==
    \/ \E s \in Sessions, n \in 1..2 : Grow(s, n) \/ Rewrite(s, n)
    \/ \E p \in Indexers : Index(p) \/ FindStale(p) \/ CrashIndexer(p)
                             \/ \E full \in BOOLEAN : OpenSegments(p, full)
    \/ \E r \in Searchers : Search(r)
    \/ \E e \in Embedders : Embed(e) \/ CrashEmbedder(e)
                             \/ \E rebuild \in BOOLEAN : OpenVectors(e, rebuild)

Spec == Init /\ [][Next]_vars

-----------------------------------------------------------------------------
(* Properties. *)

(***************************************************************************)
(* The parts of the two indexes agree: the manifest and meta.json list no  *)
(* segment twice, who works on the manifest has the lock, and meta.json    *)
(* records the last of the chunks that have vectors.                       *)
(***************************************************************************)
TypeOK ==
    /\ lock \in Indexers \cup {None, Dead}
    /\ IsInjective(manifest.segments) /\ IsInjective(vecmeta.segments)
    /\ \A p \in Indexers : Holding(p) /\ "stolen" \notin torn => lock = p
    /\ \A n \in Range(vecmeta.segments) \cap DOMAIN vecfiles :
         "beside" \notin torn => LastId(vecfiles[n]) <= vecmeta.last

InPieces == "dropped" \in torn \/ "stolen" \in torn \/ \E p \in Indexers : idx[p].pc = "empty"

(***************************************************************************)
(* "Silently losing postings below the high-water mark" (segment.rs:78)    *)
(* does not happen: every turn up to last_turn_id is in a listed segment   *)
(* under the text it has now.  Excused are ids that came back, a lock      *)
(* taken from a living indexer, and a rebuild between deleting the files   *)
(* and emptying the manifest.                                              *)
(***************************************************************************)
HighWaterIsCovered ==
    ~InPieces =>
        \A id \in DOMAIN db.turns \ reused : id <= manifest.last =>
            \E f \in Range(manifest.segments) \cap DOMAIN segfiles :
                id \in DOMAIN segfiles[f] /\ segfiles[f][id] = db.turns[id].text

(***************************************************************************)
(* A search finds every turn that was there, unchanged, from its first     *)
(* step to its last, whatever indexers and ingests did between its steps.  *)
(* Excused are ids that came back, a rebuild in its way or given up, and   *)
(* any time after a lock was taken from a living indexer.                  *)
(***************************************************************************)
SearchFindsTurns ==
    \A r \in Searchers :
        sea[r].pc = "done" /\ sea[r].calm /\ torn \subseteq {"beside", "cleared"} =>
            {t \in sea[r].stable : t[1] \notin sea[r].stale} \subseteq sea[r].found

(***************************************************************************)
(* "Search is correct even with a stale segment set" (segment.rs:8-12),    *)
(* with no excuse for ids that came back.                                  *)
(***************************************************************************)
SearchIsCorrect ==
    \A r \in Searchers :
        sea[r].pc = "done" /\ sea[r].calm /\ torn = {} => sea[r].stable \subseteq sea[r].found

Listed == Range(vecmeta.segments) \cap DOMAIN vecfiles

InClearing == \E e \in Embedders : emb[e].pc \in {"forget", "reset", "unmark"}

(***************************************************************************)
(* A turn marked embedded has a vector of its text in a listed segment,    *)
(* and the chunk row that leads from it to the turn.  Excused are ids that *)
(* came back, two runs side by side, and a rebuild that is in the middle   *)
(* of clearing or died there.                                              *)
(***************************************************************************)
EmbeddedHasVector ==
    torn \cap {"beside", "cleared"} = {} /\ ~InClearing =>
        \A id \in DOMAIN db.turns \ blurred : db.turns[id].embedded = Embedded =>
            \E n \in Listed, c \in DOMAIN db.chunks :
                /\ db.chunks[c] = id
                /\ c \in DOMAIN vecfiles[n]
                /\ vecfiles[n][c] = db.turns[id].text

(***************************************************************************)
(* A vector never answers for another turn: the chunk row of a listed      *)
(* vector leads to the turn whose text was embedded.  Excused are ids that *)
(* came back and two runs side by side.                                    *)
(***************************************************************************)
VectorsKeepTheirTurn ==
    "beside" \notin torn =>
        \A n \in Listed : \A c \in DOMAIN vecfiles[n] \cap DOMAIN db.chunks :
            LET id == db.chunks[c]
            IN  id \in DOMAIN db.turns \ blurred => vecfiles[n][c] = db.turns[id].text

=============================================================================
