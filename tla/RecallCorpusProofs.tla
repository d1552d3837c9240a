------------------------- MODULE RecallCorpusProofs -------------------------
(***************************************************************************)
(* RecallCorpus for every number of processes and every size of segment    *)
(* and batch.                                                              *)
(*                                                                         *)
(* IndexInv keeps the turns between the high-water mark and the end of a   *)
(* batch in the batch, and the manifest in hand equal to the one on disk,  *)
(* for whoever holds the lock.  SearchInv follows what is below a search's *)
(* mark from its manifest to its candidates to its rows.  VectorInv keeps  *)
(* what an embedder has in hand true to the turns, and the file of a       *)
(* segment before its place in meta.json and that before the mark of its   *)
(* turns.  The tables are functions on row ids; all that is asked of them  *)
(* is a bound on the ids, so that the next one is new.                     *)
(***************************************************************************)
EXTENDS RecallCorpus, SetsOfNumbers, FiniteSetTheorems, TLAPS

----------------------------------------------------------------------------
(* Tables.                                                                 *)

\* The last id of a table is the greatest, and every id is a positive number.
LEMMA LastIdFound ==
    ASSUME NEW rows, Numbered(rows)
    PROVE  /\ LastId(rows) \in Nat
           /\ LastId(rows) \in DOMAIN rows \cup {0}
           /\ \A id \in DOMAIN rows : id \in Nat \ {0} /\ id <= LastId(rows)
<1>1. LastId(rows) = Max(DOMAIN rows \cup {0})
  BY Zenon DEF LastId
<1> QED BY <1>1, GreatestRow

LEMMA WithoutNumbered ==
    ASSUME NEW rows, Numbered(rows), NEW ids
    PROVE  /\ Numbered(Without(rows, ids))
           /\ DOMAIN Without(rows, ids) = DOMAIN rows \ ids
           /\ \A id \in DOMAIN rows \ ids : Without(rows, ids)[id] = rows[id]
  BY DEF Without, Numbered

LEMMA WithRows ==
    ASSUME NEW rows, NEW more
    PROVE  /\ DOMAIN With(rows, more) = DOMAIN rows \cup DOMAIN more
           /\ \A id \in DOMAIN more : With(rows, more)[id] = more[id]
           /\ \A id \in DOMAIN rows \ DOMAIN more : With(rows, more)[id] = rows[id]
  BY DEF With

LEMMA WithNumbered ==
    ASSUME NEW rows, NEW more, Numbered(rows), Numbered(more)
    PROVE  Numbered(With(rows, more))
  BY WithRows, BothNumbered

----------------------------------------------------------------------------
(* What a transaction does to the store.                                   *)

Columns == {"session", "seq", "text", "embedded"}

Store(d) ==
    /\ DOMAIN d = {"state", "sessions", "turns", "chunks"}
    /\ Numbered(d.turns) /\ Numbered(d.chunks)
    /\ \A id \in DOMAIN d.turns : DOMAIN d.turns[id] = Columns

SameRows(d, new) ==
    DOMAIN new = DOMAIN d /\ new.turns = d.turns /\ new.chunks = d.chunks

\* An ingest changes no turn: it drops some and adds some, which are pending.
Ingests(d, new) ==
    /\ Store(new)
    /\ new.chunks = d.chunks
    /\ \A id \in DOMAIN new.turns :
         \/ id \in DOMAIN d.turns /\ new.turns[id] = d.turns[id]
         \/ new.turns[id].embedded = Pending

\* The embedder changes no text.
Embeds(d, new) ==
    /\ Store(new)
    /\ DOMAIN new.turns = DOMAIN d.turns
    /\ \A id \in DOMAIN d.turns : new.turns[id].text = d.turns[id].text

LEMMA InsertTurnsIngests ==
    ASSUME NEW d, Store(d), NEW sid, NEW start, NEW new, NEW n \in Nat, Len(new) = n
    PROVE  Ingests(d, InsertTurns(d, sid, start, new))
<1> DEFINE last == LastId(d.turns)
           more == [id \in (last + 1)..(last + Len(new)) |->
                        [session |-> sid, seq |-> start + (id - last - 1),
                         text |-> new[id - last], embedded |-> Pending]]
           filled == InsertTurns(d, sid, start, new)
<1>1. last \in Nat
  BY LastIdFound DEF Store
<1>2. \A id \in DOMAIN more : DOMAIN more[id] = Columns /\ more[id].embedded = Pending
  BY DEF Columns
<1>3. Numbered(more)
  <2>1. last + n \in Nat /\ (last + 1)..(last + Len(new)) \subseteq 1..(last + n)
    BY <1>1
  <2> QED BY <2>1 DEF Numbered
<1>4. filled = [d EXCEPT !.turns = With(d.turns, more)]
  BY Zenon DEF InsertTurns
<1> HIDE DEF more, filled
<1>5. DOMAIN filled = DOMAIN d /\ filled.turns = With(d.turns, more) /\ filled.chunks = d.chunks
  BY <1>4 DEF Store
<1> DEFINE t == With(d.turns, more)
<1>6. /\ DOMAIN t = DOMAIN d.turns \cup DOMAIN more
      /\ \A id \in DOMAIN more : t[id] = more[id]
      /\ \A id \in DOMAIN d.turns \ DOMAIN more : t[id] = d.turns[id]
  BY WithRows
<1>7. Numbered(t)
  BY <1>3, WithNumbered DEF Store
<1> HIDE DEF t
<1>8. \A id \in DOMAIN t : /\ DOMAIN t[id] = Columns
                           /\ \/ id \in DOMAIN d.turns /\ t[id] = d.turns[id]
                              \/ t[id].embedded = Pending
  BY <1>2, <1>6 DEF Store
<1>9. filled.turns = t
  BY <1>5 DEF t
<1> QED BY <1>5, <1>7, <1>8, <1>9 DEF Ingests, Store, filled

LEMMA SessionRows ==
    ASSUME NEW d, Store(d), NEW s, NEW sid, NEW u, NEW st
    PROVE  /\ SameRows(d, InsertSession(d, s))
           /\ SameRows(d, FinalizeSession(d, sid))
           /\ SameRows(d, UpsertState(d, u, st))
<1>1. SameRows(d, InsertSession(d, s))
  BY DEF SameRows, InsertSession, Store
<1>2. SameRows(d, FinalizeSession(d, sid))
  BY DEF SameRows, FinalizeSession, Store
<1>3. SameRows(d, UpsertState(d, u, st))
  BY DEF SameRows, UpsertState, Store
<1> QED BY <1>1, <1>2, <1>3

LEMMA SameRowsStore ==
    ASSUME NEW d, NEW new, Store(d), SameRows(d, new)
    PROVE  Store(new)
  BY DEF SameRows, Store

\* The end of both transactions: turns inserted, the session finished.
LEMMA FilledIngests ==
    ASSUME NEW d, Store(d), NEW sid, NEW start, NEW new, NEW n \in Nat, Len(new) = n,
           NEW u, NEW st
    PROVE  Ingests(d, UpsertState(FinalizeSession(InsertTurns(d, sid, start, new), sid), u, st))
<1> DEFINE filled == InsertTurns(d, sid, start, new)
           closed == FinalizeSession(filled, sid)
           last == UpsertState(closed, u, st)
<1>1. Ingests(d, filled)
  BY InsertTurnsIngests
<1> HIDE DEF filled
<1>2. SameRows(filled, closed)
  BY <1>1, SessionRows DEF Ingests
<1>3. Store(closed)
  BY <1>1, <1>2, SameRowsStore DEF Ingests
<1> HIDE DEF closed
<1>4. SameRows(closed, last)
  BY <1>3, SessionRows
<1>5. Store(last)
  BY <1>3, <1>4, SameRowsStore
<1> HIDE DEF last
<1>6. last.turns = filled.turns /\ last.chunks = filled.chunks
  BY <1>2, <1>4 DEF SameRows
<1>7. Ingests(d, last)
  BY <1>1, <1>5, <1>6 DEF Ingests
<1> QED BY <1>7 DEF last, closed, filled

LEMMA AppendIngests ==
    ASSUME NEW d, Store(d), NEW s, NEW new, NEW n \in Nat, Len(new) = n, NEW u, NEW st
    PROVE  Ingests(d, AppendSession(d, s, new, u, st))
<1> DEFINE opened == IF SessionIds(d, s) = {} THEN InsertSession(d, s) ELSE d
           last(sid, start) ==
             UpsertState(FinalizeSession(InsertTurns(opened, sid, start, new), sid), u, st)
<1>1. SameRows(d, opened)
  <2>1. CASE SessionIds(d, s) = {}
    BY <2>1, SessionRows
  <2>2. CASE SessionIds(d, s) # {}
    BY <2>2 DEF SameRows
  <2> QED BY <2>1, <2>2
<1>2. Store(opened)
  BY <1>1, SameRowsStore
<1>3. PICK sid, start : AppendSession(d, s, new, u, st) = last(sid, start)
  BY Zenon DEF AppendSession
<1> HIDE DEF opened
<1>4. Ingests(opened, last(sid, start))
  BY <1>2, FilledIngests
<1> QED BY <1>1, <1>3, <1>4 DEF Ingests, SameRows

LEMMA ReplaceIngests ==
    ASSUME NEW d, Store(d), NEW s, NEW new, NEW n \in Nat, Len(new) = n, NEW u, NEW st
    PROVE  Ingests(d, ReplaceSession(d, s, new, u, st))
<1> DEFINE cleared(ids, old) == [d EXCEPT !.turns = Without(d.turns, ids),
                                          !.sessions = Without(d.sessions, old)]
<1>1. PICK ids, old, sid :
        ReplaceSession(d, s, new, u, st) =
          UpsertState(FinalizeSession(
            InsertTurns(InsertSession(cleared(ids, old), s), sid, 0, new), sid), u, st)
  BY Zenon DEF ReplaceSession
<1> DEFINE kept == cleared(ids, old)
           opened == InsertSession(kept, s)
           last == ReplaceSession(d, s, new, u, st)
<1>2. DOMAIN kept = DOMAIN d /\ kept.turns = Without(d.turns, ids) /\ kept.chunks = d.chunks
  BY DEF Store
<1> DEFINE rows == Without(d.turns, ids)
<1>3. /\ Numbered(rows) /\ DOMAIN rows = DOMAIN d.turns \ ids
      /\ \A id \in DOMAIN d.turns \ ids : rows[id] = d.turns[id]
  BY WithoutNumbered DEF Store
<1>4. last = UpsertState(FinalizeSession(InsertTurns(opened, sid, 0, new), sid), u, st)
  BY <1>1
<1> HIDE DEF kept, last, rows
<1>5. Store(kept) /\ \A id \in DOMAIN kept.turns :
                       id \in DOMAIN d.turns /\ kept.turns[id] = d.turns[id]
  <2>1. kept.turns = rows
    BY <1>2 DEF rows
  <2> QED BY <1>2, <1>3, <2>1 DEF Store
<1>6. SameRows(kept, opened)
  BY <1>5, SessionRows
<1>7. Store(opened)
  BY <1>5, <1>6, SameRowsStore
<1> HIDE DEF opened
<1>8. Ingests(opened, last)
  BY <1>4, <1>7, FilledIngests
<1>9. Ingests(d, last)
  BY <1>2, <1>5, <1>6, <1>8 DEF Ingests, SameRows
<1> QED BY <1>9 DEF last

LEMMA MarkPolicySkipsEmbeds ==
    ASSUME NEW d, Store(d)
    PROVE  LET new == MarkPolicySkips(d)
           IN  /\ Embeds(d, new) /\ new.chunks = d.chunks
               /\ \A id \in DOMAIN d.turns :
                    new.turns[id].embedded = Embedded => d.turns[id].embedded = Embedded
<1> DEFINE new == MarkPolicySkips(d)
<1>1. /\ DOMAIN new = DOMAIN d /\ new.chunks = d.chunks
      /\ DOMAIN new.turns = DOMAIN d.turns
      /\ \A id \in DOMAIN d.turns :
           \/ new.turns[id] = d.turns[id]
           \/ new.turns[id] = [d.turns[id] EXCEPT !.embedded = Skipped]
  BY DEF MarkPolicySkips, Store
<1> HIDE DEF new
<1>2. \A id \in DOMAIN d.turns :
        /\ DOMAIN new.turns[id] = Columns
        /\ new.turns[id].text = d.turns[id].text
        /\ new.turns[id].embedded = Embedded => d.turns[id].embedded = Embedded
  <2> TAKE id \in DOMAIN d.turns
  <2>1. DOMAIN d.turns[id] = {"session", "seq", "text", "embedded"}
    BY DEF Store, Columns
  <2>2. CASE new.turns[id] = d.turns[id]
    BY <2>1, <2>2 DEF Columns
  <2>3. CASE new.turns[id] = [d.turns[id] EXCEPT !.embedded = Skipped]
    BY <2>1, <2>3 DEF Columns, Skipped, Embedded
  <2> QED BY <1>1, <2>2, <2>3
<1> QED BY <1>1, <1>2 DEF Embeds, Store, new, Numbered

LEMMA MarkEmbeddedEmbeds ==
    ASSUME NEW d, Store(d), NEW ids
    PROVE  LET new == MarkEmbedded(d, ids)
           IN  /\ Embeds(d, new) /\ new.chunks = d.chunks
               /\ \A id \in DOMAIN d.turns \ ids :
                    new.turns[id].embedded = d.turns[id].embedded
<1> DEFINE new == MarkEmbedded(d, ids)
<1>1. /\ DOMAIN new = DOMAIN d /\ new.chunks = d.chunks
      /\ DOMAIN new.turns = DOMAIN d.turns
      /\ \A id \in DOMAIN d.turns \ ids : new.turns[id] = d.turns[id]
      /\ \A id \in DOMAIN d.turns \cap ids :
           new.turns[id] = [d.turns[id] EXCEPT !.embedded = Embedded]
  BY DEF MarkEmbedded, Store
<1> HIDE DEF new
<1>2. ASSUME NEW id \in DOMAIN d.turns
      PROVE  /\ DOMAIN new.turns[id] = Columns
             /\ new.turns[id].text = d.turns[id].text
  <2>1. DOMAIN d.turns[id] = Columns
    BY DEF Store
  <2>2. CASE id \in ids
    <3>1. new.turns[id] = [d.turns[id] EXCEPT !.embedded = Embedded]
      BY <1>1, <2>2
    <3> QED BY <2>1, <3>1 DEF Columns
  <2>3. CASE id \notin ids
    BY <1>1, <2>1, <2>3
  <2> QED BY <2>2, <2>3
<1> QED BY <1>1, <1>2 DEF Embeds, Store, new, Numbered

LEMMA ResetMarksEmbeds ==
    ASSUME NEW d, Store(d)
    PROVE  LET new == ResetMarks(d)
           IN  /\ Embeds(d, new) /\ new.chunks = d.chunks
               /\ \A id \in DOMAIN d.turns : new.turns[id].embedded = Pending
<1> DEFINE new == ResetMarks(d)
<1>1. /\ DOMAIN new = DOMAIN d /\ new.chunks = d.chunks
      /\ DOMAIN new.turns = DOMAIN d.turns
      /\ \A id \in DOMAIN d.turns :
           new.turns[id] = [d.turns[id] EXCEPT !.embedded = Pending]
  BY DEF ResetMarks, Store
<1> HIDE DEF new
<1>2. \A id \in DOMAIN d.turns :
        /\ DOMAIN new.turns[id] = Columns
        /\ new.turns[id].text = d.turns[id].text
        /\ new.turns[id].embedded = Pending
  BY <1>1 DEF Store, Columns
<1> QED BY <1>1, <1>2 DEF Embeds, Store, new, Numbered

\* A chunk row beyond all the others.
LEMMA InsertChunkEmbeds ==
    ASSUME NEW d, Store(d), NEW turn
    PROVE  LET new == InsertChunk(d, turn)
               id == LastId(d.chunks) + 1
           IN  /\ Embeds(d, new) /\ new.turns = d.turns
               /\ LastId(new.chunks) = id
               /\ DOMAIN new.chunks = DOMAIN d.chunks \cup {id}
               /\ id \notin DOMAIN d.chunks
               /\ new.chunks[id] = turn
               /\ \A c \in DOMAIN d.chunks : new.chunks[c] = d.chunks[c]
<1> DEFINE new == InsertChunk(d, turn)
           id == LastId(d.chunks) + 1
           more == [x \in {id} |-> turn]
           rows == With(d.chunks, more)
<1>1. LastId(d.chunks) \in Nat /\ \A c \in DOMAIN d.chunks : c \in Nat /\ c <= LastId(d.chunks)
  BY LastIdFound DEF Store
<1>2. id \in Nat \ {0} /\ \A c \in DOMAIN d.chunks : c < id
  BY <1>1
<1>3. new = [d EXCEPT !.chunks = rows]
  BY Zenon DEF InsertChunk
<1> HIDE DEF id
<1>4. /\ DOMAIN rows = DOMAIN d.chunks \cup {id} /\ rows[id] = turn
      /\ \A c \in DOMAIN d.chunks : c # id => rows[c] = d.chunks[c]
  <2>1. DOMAIN more = {id} /\ more[id] = turn
    OBVIOUS
  <2> HIDE DEF more
  <2>2. /\ DOMAIN rows = DOMAIN d.chunks \cup DOMAIN more
        /\ \A c \in DOMAIN more : rows[c] = more[c]
        /\ \A c \in DOMAIN d.chunks \ DOMAIN more : rows[c] = d.chunks[c]
    BY WithRows
  <2> HIDE DEF rows
  <2> QED BY <2>1, <2>2
<1>5. Numbered(rows)
  BY <1>2, OneRowNumbered, WithNumbered DEF Store
<1> HIDE DEF rows, new
<1>6. LastId(rows) = id
  <2>1. /\ LastId(rows) \in Nat /\ LastId(rows) \in DOMAIN rows \cup {0}
        /\ \A c \in DOMAIN rows : c \in Nat /\ c <= LastId(rows)
    BY <1>5, LastIdFound
  <2>2. LastId(rows) \in {id} \/ LastId(rows) < id
    BY <1>2, <1>4, <2>1
  <2> QED BY <1>2, <1>4, <2>1, <2>2
<1>7. DOMAIN new = DOMAIN d /\ new.turns = d.turns /\ new.chunks = rows
  BY <1>3 DEF Store
<1>8. Embeds(d, new)
  BY <1>5, <1>7 DEF Embeds, Store
<1>9. id \notin DOMAIN d.chunks
  BY <1>1, <1>2
<1> QED BY <1>4, <1>6, <1>7, <1>8, <1>9 DEF new, id

LEMMA DropChunksEmbeds ==
    ASSUME NEW d, Store(d), NEW last
    PROVE  LET new == DropOrphanChunks(d, last)
           IN  /\ Embeds(d, new) /\ new.turns = d.turns
               /\ DOMAIN new.chunks = {c \in DOMAIN d.chunks : c <= last}
               /\ \A c \in DOMAIN new.chunks : new.chunks[c] = d.chunks[c]
<1> DEFINE new == DropOrphanChunks(d, last)
<1>1. /\ DOMAIN new = DOMAIN d /\ new.turns = d.turns
      /\ DOMAIN new.chunks = {c \in DOMAIN d.chunks : c <= last}
      /\ \A c \in DOMAIN new.chunks : new.chunks[c] = d.chunks[c]
  BY DEF DropOrphanChunks, Store
<1> HIDE DEF new
<1>2. Numbered(new.chunks)
  BY <1>1 DEF Store, Numbered
<1> QED BY <1>1, <1>2 DEF Embeds, Store, new

LEMMA ResetChunksEmbeds ==
    ASSUME NEW d, Store(d)
    PROVE  LET new == ResetChunks(d)
           IN  Embeds(d, new) /\ new.turns = d.turns /\ DOMAIN new.chunks = {}
<1> DEFINE new == ResetChunks(d)
<1>1. /\ DOMAIN new = DOMAIN d /\ new.turns = d.turns /\ DOMAIN new.chunks = {}
  BY DEF ResetChunks, Store
<1> HIDE DEF new
<1>2. Numbered(new.chunks)
  BY <1>1 DEF Numbered
<1> QED BY <1>1, <1>2 DEF Embeds, Store, new

----------------------------------------------------------------------------
(* Manifests.                                                              *)

\* The segments of a manifest are numbered on from its generation.
Sequential(m) ==
    /\ m \in [generation : Nat, last : Nat, segments : Seq(Nat)]
    /\ \A i \in 1..Len(m.segments) : m.segments[i] = m.generation + i

LEMMA NameIsNew ==
    ASSUME NEW m, Sequential(m)
    PROVE  /\ SegmentName(m) \in Nat
           /\ \A f \in Range(m.segments) :
                f \in Nat /\ f <= m.generation + Len(m.segments) /\ f < SegmentName(m)
           /\ IsInjective(m.segments)
<1>1. /\ m.generation \in Nat /\ Len(m.segments) \in Nat
      /\ DOMAIN m.segments = 1..Len(m.segments)
      /\ \A i \in 1..Len(m.segments) : m.segments[i] = m.generation + i
  BY DEF Sequential
<1>2. \A f \in Range(m.segments) :
        f \in Nat /\ f <= m.generation + Len(m.segments) /\ f < SegmentName(m)
  <2> TAKE f \in Range(m.segments)
  <2>1. PICK i \in 1..Len(m.segments) : f = m.generation + i
    BY <1>1 DEF Range
  <2> QED BY <1>1, <2>1 DEF SegmentName
<1>3. IsInjective(m.segments)
  BY <1>1 DEF IsInjective
<1> QED BY <1>1, <1>2, <1>3 DEF SegmentName

LEMMA NameIsAppended ==
    ASSUME NEW m, Sequential(m), NEW last \in Nat
    PROVE  LET more == [m EXCEPT !.segments = Append(@, SegmentName(m)), !.last = last]
           IN  /\ Sequential(more)
               /\ more.last = last /\ more.generation = m.generation
               /\ Len(more.segments) = Len(m.segments) + 1
               /\ Range(more.segments) = Range(m.segments) \cup {SegmentName(m)}
<1> DEFINE name == SegmentName(m)
           t == Append(m.segments, name)
           more == [m EXCEPT !.segments = t, !.last = last]
<1>1. /\ m.generation \in Nat /\ m.segments \in Seq(Nat) /\ Len(m.segments) \in Nat
      /\ DOMAIN m.segments = 1..Len(m.segments)
      /\ \A i \in 1..Len(m.segments) : m.segments[i] = m.generation + i
      /\ m \in [generation : Nat, last : Nat, segments : Seq(Nat)]
  BY DEF Sequential
<1>2. name \in Nat /\ name = m.generation + (Len(m.segments) + 1)
  BY <1>1 DEF SegmentName
<1> HIDE DEF name
<1>3. /\ t \in Seq(Nat) /\ Len(t) = Len(m.segments) + 1 /\ DOMAIN t = 1..(Len(m.segments) + 1)
      /\ t[Len(m.segments) + 1] = name
      /\ \A i \in 1..Len(m.segments) : t[i] = m.segments[i]
  BY <1>1, <1>2
<1> HIDE DEF t
<1>4. /\ more \in [generation : Nat, last : Nat, segments : Seq(Nat)]
      /\ more.segments = t /\ more.last = last /\ more.generation = m.generation
  BY <1>1, <1>3
<1> HIDE DEF more
<1>5. Sequential(more)
  <2>1. \A i \in 1..Len(t) : t[i] = m.generation + i
    <3> TAKE i \in 1..Len(t)
    <3>1. i \in 1..Len(m.segments) \/ i = Len(m.segments) + 1
      BY <1>1, <1>3
    <3> QED BY <1>1, <1>2, <1>3, <3>1
  <2> QED BY <1>4, <2>1 DEF Sequential
<1>6. Range(t) = Range(m.segments) \cup {name}
  <2>1. ASSUME NEW f \in Range(t)
        PROVE  f \in Range(m.segments) \cup {name}
    <3>1. PICK i \in 1..(Len(m.segments) + 1) : f = t[i]
      BY <1>3 DEF Range
    <3>2. i \in 1..Len(m.segments) \/ i = Len(m.segments) + 1
      BY <1>1
    <3> QED BY <1>1, <1>3, <3>1, <3>2 DEF Range
  <2>2. ASSUME NEW f \in Range(m.segments)
        PROVE  f \in Range(t)
    <3>1. PICK i \in 1..Len(m.segments) : f = m.segments[i]
      BY <1>1 DEF Range
    <3>2. i \in DOMAIN t /\ t[i] = f
      BY <1>1, <1>3, <3>1
    <3> QED BY <3>2 DEF Range
  <2>3. name \in Range(t)
    <3>1. Len(m.segments) + 1 \in DOMAIN t
      BY <1>1, <1>3
    <3> QED BY <1>3, <3>1 DEF Range
  <2> QED BY <2>1, <2>2, <2>3
<1> QED BY <1>3, <1>4, <1>5, <1>6 DEF more, t, name

----------------------------------------------------------------------------
(* The segments.                                                           *)

IndexerRun(run) ==
    /\ DOMAIN run = {"pc", "full", "manifest", "batch"}
    /\ Sequential(run.manifest)
    /\ Numbered(run.batch)
    /\ run.pc = "empty" => run.manifest.last = 0

IndexerTypes ==
    /\ lock \in Indexers \cup {None, Dead}
    /\ Sequential(manifest)
    /\ DOMAIN idx = Indexers
    /\ \A p \in Indexers : IndexerRun(idx[p])

Has(rows, id) == id \in DOMAIN rows /\ rows[id] = db.turns[id].text

Covered(id) == \E f \in Range(manifest.segments) \cap DOMAIN segfiles : Has(segfiles[f], id)

\* Nothing between the high-water mark and the end of a batch is left out.
BatchIsWhole(p) ==
    \A id \in DOMAIN db.turns \ reused :
        manifest.last < id /\ id <= LastId(idx[p].batch) => Has(idx[p].batch, id)

\* What the holder of the lock has done is what the manifest will say.
Working(p) ==
    /\ Holding(p) => lock = p
    /\ idx[p].pc \in {"read", "write"} => idx[p].manifest = manifest
    /\ idx[p].pc \in {"write", "list"} => BatchIsWhole(p)
    /\ idx[p].pc = "list" =>
         LET name == SegmentName(manifest)
         IN  /\ idx[p].manifest = [manifest EXCEPT !.segments = Append(@, name),
                                                    !.last = LastId(idx[p].batch)]
             /\ name \in DOMAIN segfiles
             /\ segfiles[name] = idx[p].batch

IndexInv ==
    /\ Store(db)
    /\ IndexerTypes
    /\ "stolen" \notin torn => \A p \in Indexers : Working(p)
    /\ HighWaterIsCovered

\* Who does not hold the lock has nothing in hand.
LEMMA OthersWait ==
    ASSUME IndexInv, "stolen" \notin torn, NEW p \in Indexers, NEW q \in Indexers \ {p},
           lock = p \/ lock \notin Indexers
    PROVE  ~Holding(q)
  BY DEF IndexInv, Working

LEMMA WaitingWorks ==
    ASSUME NEW q \in Indexers, ~Holding(q)
    PROVE  Working(q)
  BY DEF Holding, Working

LEMMA CoveredMeaning ==
    HighWaterIsCovered <=>
        (~InPieces => \A id \in DOMAIN db.turns \ reused : id <= manifest.last => Covered(id))
  BY DEF HighWaterIsCovered, Covered, Has

\* A run of an indexer that changes, beside those that do not.
LEMMA RunsTyped ==
    ASSUME IndexerTypes, NEW p \in Indexers, NEW run, IndexerRun(run),
           idx' = [idx EXCEPT ![p] = run]
    PROVE  /\ DOMAIN idx' = Indexers
           /\ idx'[p] = run
           /\ \A q \in Indexers \ {p} : idx'[q] = idx[q]
           /\ \A q \in Indexers : IndexerRun(idx'[q])
  BY DEF IndexerTypes

LEMMA NoRunTyped == IndexerRun(NoRun) /\ NoRun.pc = "idle"
<1>1. Sequential(NoManifest)
  BY DEF Sequential, NoManifest
<1>2. Numbered(NoRun.batch)
  BY DEF Numbered, NoRun
<1> QED BY <1>1, <1>2 DEF IndexerRun, NoRun

LEMMA NoManifestSequential == Sequential(NoManifest)
  BY DEF Sequential, NoManifest

\* A step of p that leaves the files and their list as they are, and in which p
\* ends without the lock's work in hand.
LEMMA StandsBack ==
    ASSUME IndexInv, NEW p \in Indexers, NEW run, IndexerRun(run),
           idx' = [idx EXCEPT ![p] = run], run.pc \in {"idle", "lock", "steal", "drop", "empty"},
           UNCHANGED <<db, segfiles, manifest, reused>>,
           lock' \in Indexers \cup {None, Dead},
           "stolen" \notin torn' =>
             /\ "stolen" \notin torn
             /\ run.pc \in {"drop", "empty"} => lock' = p
             /\ \A q \in Indexers \ {p} : Holding(q) => lock' = q,
           InPieces => InPieces'
    PROVE  IndexInv'
<1>1. /\ DOMAIN idx' = Indexers /\ idx'[p] = run
      /\ \A q \in Indexers \ {p} : idx'[q] = idx[q]
      /\ \A q \in Indexers : IndexerRun(idx'[q])
  BY RunsTyped DEF IndexInv
<1>2. Store(db)' /\ IndexerTypes'
  BY <1>1 DEF IndexInv, IndexerTypes
<1>3. ASSUME "stolen" \notin torn', NEW q \in Indexers
      PROVE  Working(q)'
  <2>1. CASE q = p
    <3>1. idx'[q] = run /\ (Holding(q)' => lock' = q)
      BY <1>1, <1>3, <2>1 DEF Holding
    <3> QED BY <3>1 DEF Working
  <2>2. CASE q # p
    <3>1. Working(q) /\ (Holding(q) => lock' = q) /\ idx'[q] = idx[q]
      BY <1>1, <1>3, <2>2 DEF IndexInv
    <3> QED BY <3>1 DEF Working, Holding, BatchIsWhole, Has
  <2> QED BY <2>1, <2>2
<1>4. HighWaterIsCovered'
  BY DEF IndexInv, HighWaterIsCovered
<1> QED BY <1>2, <1>3, <1>4 DEF IndexInv

LEMMA PiecesStay ==
    ASSUME NEW p \in Indexers, idx[p].pc # "empty", {"dropped", "stolen"} \cap torn \subseteq torn',
           \A q \in Indexers \ {p} : idx'[q] = idx[q], InPieces
    PROVE  InPieces'
  BY DEF InPieces

LEMMA OpenSegmentsStep ==
    ASSUME IndexInv, NEW p \in Indexers, NEW full, OpenSegments(p, full)
    PROVE  IndexInv'
<1> DEFINE run == [NoRun EXCEPT !.pc = "lock", !.full = full, !.manifest = manifest]
<1>1. /\ idx[p].pc = "idle" /\ idx' = [idx EXCEPT ![p] = run]
      /\ UNCHANGED <<db, segfiles, manifest, reused, lock, torn>>
  BY DEF OpenSegments
<1>2. IndexerRun(run) /\ run.pc = "lock"
  BY NoRunTyped DEF IndexerRun, NoRun, IndexInv, IndexerTypes
<1> HIDE DEF run
<1>3. InPieces => InPieces'
  BY <1>1, <1>2, RunsTyped, PiecesStay DEF IndexInv
<1>4. lock' \in Indexers \cup {None, Dead}
      /\ ("stolen" \notin torn => \A q \in Indexers : Holding(q) => lock' = q)
  BY <1>1 DEF IndexInv, IndexerTypes, Working
<1> QED BY <1>1, <1>2, <1>3, <1>4, StandsBack

LEMMA LockSteps ==
    ASSUME IndexInv, NEW p \in Indexers, FindStale(p) \/ GiveUp(p) \/ Steal(p)
    PROVE  IndexInv'
<1>1. /\ lock \in Indexers \cup {None, Dead}
      /\ "stolen" \notin torn => \A q \in Indexers : Holding(q) => lock = q
      /\ IndexerRun(idx[p])
  BY DEF IndexInv, IndexerTypes, Working
<1>2. PICK run : /\ idx' = [idx EXCEPT ![p] = run] /\ IndexerRun(run)
                 /\ run.pc \in {"idle", "lock", "steal"}
  <2> DEFINE moved(pc) == [idx[p] EXCEPT !.pc = pc]
  <2>1. \A pc \in {"lock", "steal"} : IndexerRun(moved(pc)) /\ moved(pc).pc = pc
    BY <1>1 DEF IndexerRun
  <2>2. \/ idx' = [idx EXCEPT ![p] = moved("lock")]
        \/ idx' = [idx EXCEPT ![p] = moved("steal")]
        \/ idx' = [idx EXCEPT ![p] = NoRun]
    BY DEF FindStale, GiveUp, Steal
  <2> HIDE DEF moved
  <2> QED BY <2>1, <2>2, NoRunTyped
<1>3. /\ UNCHANGED <<db, segfiles, manifest, reused>> /\ idx[p].pc # "empty"
      /\ lock' = lock \/ lock' = None
      /\ torn \subseteq torn'
      /\ lock' # lock => lock \notin Indexers \/ "stolen" \in torn'
  BY DEF FindStale, GiveUp, Steal
<1>4. InPieces => InPieces'
  <2>1. \A q \in Indexers \ {p} : idx'[q] = idx[q]
    BY <1>2, RunsTyped DEF IndexInv
  <2> QED BY <1>3, <2>1, PiecesStay
<1>5. "stolen" \notin torn' => "stolen" \notin torn /\ \A q \in Indexers : Holding(q) => lock' = q
  BY <1>1, <1>3
<1> QED BY <1>1, <1>2, <1>3, <1>4, <1>5, StandsBack

LEMMA CrashIndexerStep ==
    ASSUME IndexInv, NEW p \in Indexers, CrashIndexer(p)
    PROVE  IndexInv'
<1>1. /\ lock \in Indexers \cup {None, Dead}
      /\ "stolen" \notin torn => \A q \in Indexers : Holding(q) => lock = q
  BY DEF IndexInv, IndexerTypes, Working
<1>2. /\ idx' = [idx EXCEPT ![p] = NoRun]
      /\ lock' = IF lock = p THEN Dead ELSE lock
      /\ torn' = IF idx[p].pc = "empty" THEN torn \cup {"dropped"} ELSE torn
      /\ UNCHANGED <<db, segfiles, manifest, reused>>
  BY DEF CrashIndexer
<1>3. InPieces => InPieces'
  <2>1. \A q \in Indexers \ {p} : idx'[q] = idx[q]
    BY <1>2, NoRunTyped, RunsTyped DEF IndexInv
  <2>2. CASE idx[p].pc = "empty"
    BY <1>2, <2>2 DEF InPieces
  <2>3. CASE idx[p].pc # "empty"
    BY <1>2, <2>1, <2>3, PiecesStay
  <2> QED BY <2>2, <2>3
<1>4. lock' \in Indexers \cup {None, Dead}
  BY <1>1, <1>2
<1>5. "stolen" \notin torn' => "stolen" \notin torn
  BY <1>2
<1>6. "stolen" \notin torn => \A q \in Indexers \ {p} : Holding(q) => lock' = q
  BY <1>1, <1>2
<1> QED BY <1>2, <1>3, <1>4, <1>5, <1>6, NoRunTyped, StandsBack

LEMMA AcquireStep ==
    ASSUME IndexInv, NEW p \in Indexers, Acquire(p)
    PROVE  IndexInv'
<1> DEFINE run == IF idx[p].full THEN [idx[p] EXCEPT !.pc = "drop"]
                  ELSE [idx[p] EXCEPT !.pc = "read", !.manifest = manifest]
<1>1. /\ idx[p].pc = "lock" /\ lock = None /\ lock' = p /\ idx' = [idx EXCEPT ![p] = run]
      /\ UNCHANGED <<db, segfiles, manifest, reused, torn>>
  BY DEF Acquire
<1>2. /\ IndexerRun(run)
      /\ run.pc = "drop" \/ (run.pc = "read" /\ run.manifest = manifest)
  <2>1. IndexerRun(idx[p]) /\ Sequential(manifest)
    BY DEF IndexInv, IndexerTypes
  <2>2. CASE idx[p].full
    <3>1. run = [idx[p] EXCEPT !.pc = "drop"]
      BY <2>2
    <3> HIDE DEF run
    <3> QED BY <2>1, <3>1 DEF IndexerRun
  <2>3. CASE ~idx[p].full
    <3>1. run = [idx[p] EXCEPT !.pc = "read", !.manifest = manifest]
      BY <2>3
    <3> HIDE DEF run
    <3> QED BY <2>1, <3>1 DEF IndexerRun
  <2> QED BY <2>2, <2>3
<1> HIDE DEF run
<1>3. /\ DOMAIN idx' = Indexers /\ idx'[p] = run
      /\ \A q \in Indexers \ {p} : idx'[q] = idx[q]
      /\ \A q \in Indexers : IndexerRun(idx'[q])
  BY <1>1, <1>2, RunsTyped DEF IndexInv
<1>4. InPieces => InPieces'
  BY <1>1, <1>3, PiecesStay
<1>5. "stolen" \notin torn => \A q \in Indexers \ {p} : ~Holding(q)
  BY <1>1, OthersWait, CorpusAssumption
<1>6. CASE run.pc = "drop"
  BY <1>1, <1>2, <1>4, <1>5, <1>6, StandsBack
<1>7. CASE run.pc = "read" /\ run.manifest = manifest
  <2>1. Store(db)' /\ IndexerTypes'
    BY <1>1, <1>3 DEF IndexInv, IndexerTypes
  <2>2. ASSUME "stolen" \notin torn', NEW q \in Indexers
        PROVE  Working(q)'
    <3>1. CASE q = p
      BY <1>1, <1>3, <1>7, <3>1 DEF Working, Holding
    <3>2. CASE q # p
      BY <1>1, <1>3, <1>5, <2>2, <3>2 DEF Working, Holding
    <3> QED BY <3>1, <3>2
  <2>3. HighWaterIsCovered'
    BY <1>1, <1>4 DEF IndexInv, HighWaterIsCovered
  <2> QED BY <2>1, <2>2, <2>3 DEF IndexInv
<1> QED BY <1>2, <1>6, <1>7

\* A batch has every row of what it was taken from, up to its last.
LEMMA BatchReachesItsLast ==
    ASSUME NEW d, Store(d), NEW S \in SUBSET DOMAIN d.turns, NEW n \in Nat \ {0},
           NEW batch, DOMAIN batch = Lowest(S, n)
    PROVE  /\ Numbered(batch)
           /\ DOMAIN batch \subseteq S
           /\ \A id \in S : id <= LastId(batch) => id \in DOMAIN batch
<1> DEFINE Low == DOMAIN batch
<1>1. PICK b \in Nat : DOMAIN d.turns \subseteq 1..b
  BY DEF Store, Numbered
<1>2. /\ Low \in SUBSET S
      /\ \A x \in S : x \in Low <=> Cardinality(Below(S, x)) < n
  BY Zenon DEF Lowest, Below
<1>3. S \in SUBSET (0..b) /\ S \subseteq 1..b
  BY <1>1
<1>4. Numbered(batch)
  BY <1>2, <1>3 DEF Numbered
<1>5. LastId(batch) \in Low \cup {0}
  BY <1>4, LastIdFound
<1>6. ASSUME NEW id \in S, id <= LastId(batch), id \notin Low
      PROVE  FALSE
  <2>1. id > Max(Low)
    <3> HIDE DEF Low
    <3> QED BY <1>2, <1>3, <1>6, LowestLeavesOut
  <2>2. LastId(batch) \in Low /\ id \in Nat
    BY <1>3, <1>5, <1>6
  <2>3. Max(Low) \in Low /\ \A x \in Low : x <= Max(Low)
    <3>1. Low \in SUBSET (0..b) /\ Low # {}
      BY <1>2, <1>3, <2>2
    <3> HIDE DEF Low
    <3> QED BY <3>1, GreatestExists
  <2>4. LastId(batch) \in Nat /\ Max(Low) \in Nat
    BY <1>2, <1>3, <2>2, <2>3
  <2> QED BY <1>6, <2>1, <2>2, <2>3, <2>4
<1> QED BY <1>2, <1>4, <1>6

LEMMA ReadBatchStep ==
    ASSUME IndexInv, NEW p \in Indexers, ReadBatch(p)
    PROVE  IndexInv'
<1> DEFINE S == TurnsForIndexing(db, idx[p].manifest.last)
           ids == Lowest(S, SegmentTarget)
           batch == [id \in ids |-> db.turns[id].text]
           run == [idx[p] EXCEPT !.pc = "write", !.batch = batch]
<1>1. /\ idx[p].pc = "read"
      /\ idx' = [idx EXCEPT ![p] = IF ids = {} THEN NoRun ELSE run]
      /\ lock' = IF ids = {} THEN None ELSE lock
      /\ UNCHANGED <<db, segfiles, manifest, reused, torn>>
  BY Zenon DEF ReadBatch
<1>2. /\ IndexerRun(idx[p]) /\ Holding(p) /\ Store(db)
      /\ "stolen" \notin torn => lock = p /\ idx[p].manifest = manifest
      /\ "stolen" \notin torn => \A q \in Indexers \ {p} : ~Holding(q)
  <2>1. Holding(p)
    BY <1>1 DEF Holding
  <2>2. "stolen" \notin torn => lock = p /\ idx[p].manifest = manifest
    BY <1>1, <2>1 DEF IndexInv, Working
  <2> QED BY <2>1, <2>2, OthersWait DEF IndexInv, IndexerTypes
<1>3. /\ Numbered(batch) /\ DOMAIN batch = ids
      /\ \A id \in S : id <= LastId(batch) => id \in ids
  <2>1. DOMAIN batch = ids /\ S \in SUBSET DOMAIN db.turns
    BY DEF TurnsForIndexing
  <2>2. SegmentTarget \in Nat \ {0}
    BY CorpusAssumption
  <2> HIDE DEF S, batch
  <2> QED BY <1>2, <2>1, <2>2, BatchReachesItsLast
<1>4. \A id \in ids : batch[id] = db.turns[id].text
  OBVIOUS
<1>5. \A id \in DOMAIN db.turns : id > idx[p].manifest.last => id \in S
  BY DEF TurnsForIndexing
<1> HIDE DEF S, ids, batch
<1>6. CASE ids = {}
  <2>1. idx' = [idx EXCEPT ![p] = NoRun] /\ lock' = None
    BY <1>1, <1>6
  <2>2. InPieces => InPieces'
    BY <1>1, <2>1, NoRunTyped, RunsTyped, PiecesStay DEF IndexInv
  <2> QED BY <1>1, <1>2, <2>1, <2>2, NoRunTyped, StandsBack
<1>7. CASE ids # {}
  <2>1. /\ IndexerRun(run) /\ run.pc = "write" /\ run.batch = batch
        /\ run.manifest = idx[p].manifest
    BY <1>2, <1>3 DEF IndexerRun
  <2>2. idx' = [idx EXCEPT ![p] = run] /\ lock' = lock
    BY <1>1, <1>7
  <2> HIDE DEF run
  <2>3. /\ DOMAIN idx' = Indexers /\ idx'[p] = run
        /\ \A q \in Indexers \ {p} : idx'[q] = idx[q]
        /\ \A q \in Indexers : IndexerRun(idx'[q])
    BY <2>1, <2>2, RunsTyped DEF IndexInv
  <2>4. Store(db)' /\ IndexerTypes'
    BY <1>1, <2>2, <2>3 DEF IndexInv, IndexerTypes
  <2>5. ASSUME "stolen" \notin torn', NEW q \in Indexers
        PROVE  Working(q)'
    <3>1. CASE q = p
      <4>1. BatchIsWhole(p)'
        BY <1>1, <1>2, <1>3, <1>4, <1>5, <2>1, <2>3, <2>5 DEF BatchIsWhole, Has
      <4> QED BY <1>1, <1>2, <2>1, <2>2, <2>3, <2>5, <3>1, <4>1 DEF Working, Holding
    <3>2. CASE q # p
      BY <1>1, <1>2, <2>3, <2>5, <3>2 DEF Working, Holding
    <3> QED BY <3>1, <3>2
  <2>6. InPieces => InPieces'
    BY <1>1, <2>3, PiecesStay
  <2>7. HighWaterIsCovered'
    BY <1>1, <2>6 DEF IndexInv, HighWaterIsCovered
  <2> QED BY <2>4, <2>5, <2>7 DEF IndexInv
<1> QED BY <1>6, <1>7

\* The file of a segment that is not listed yet is written beside the others.
LEMMA WriteSegmentStep ==
    ASSUME IndexInv, NEW p \in Indexers, WriteSegment(p)
    PROVE  IndexInv'
<1> DEFINE m == idx[p].manifest
           name == SegmentName(m)
           batch == idx[p].batch
           more == [m EXCEPT !.segments = Append(@, name), !.last = LastId(batch)]
           run == [idx[p] EXCEPT !.pc = "list", !.manifest = more]
           file == [x \in {name} |-> batch]
<1>1. /\ idx[p].pc = "write" /\ Holding(p)
      /\ segfiles' = With(segfiles, file)
      /\ UNCHANGED <<db, manifest, lock, reused, torn>>
  BY DEF WriteSegment, Holding
<1>2. /\ IndexerRun(idx[p]) /\ Store(db)
      /\ "stolen" \notin torn => lock = p /\ m = manifest /\ BatchIsWhole(p)
      /\ "stolen" \notin torn => \A q \in Indexers \ {p} : ~Holding(q)
  <2>1. "stolen" \notin torn => lock = p /\ idx[p].manifest = manifest /\ BatchIsWhole(p)
    BY <1>1 DEF IndexInv, Working
  <2> QED BY <1>1, <2>1, OthersWait DEF IndexInv, IndexerTypes
<1>3. idx' = [idx EXCEPT ![p] = run]
  BY <1>2 DEF WriteSegment, IndexerRun
<1>4. Sequential(m) /\ LastId(batch) \in Nat
  BY <1>2, LastIdFound DEF IndexerRun
<1>5. Sequential(more)
  BY <1>4, NameIsAppended
<1>6. /\ DOMAIN file = {name} /\ file[name] = batch
      /\ m = idx[p].manifest /\ batch = idx[p].batch
  OBVIOUS
<1>7. name = SegmentName(m) /\ more = [m EXCEPT !.segments = Append(@, SegmentName(m)), !.last = LastId(batch)]
  OBVIOUS
<1> HIDE DEF more, name, file
<1>8. /\ IndexerRun(run) /\ run.pc = "list" /\ run.batch = batch /\ run.manifest = more
  BY <1>2, <1>5 DEF IndexerRun
<1> HIDE DEF run, batch, m
<1>9. /\ DOMAIN idx' = Indexers /\ idx'[p] = run
      /\ \A q \in Indexers \ {p} : idx'[q] = idx[q]
      /\ \A q \in Indexers : IndexerRun(idx'[q])
  BY <1>3, <1>8, RunsTyped DEF IndexInv
<1>10. /\ DOMAIN segfiles' = DOMAIN segfiles \cup {name}
       /\ segfiles'[name] = batch
       /\ \A f \in DOMAIN segfiles \ {name} : segfiles'[f] = segfiles[f]
  <2> DEFINE rows == With(segfiles, file)
  <2>1. /\ DOMAIN rows = DOMAIN segfiles \cup DOMAIN file
        /\ \A f \in DOMAIN file : rows[f] = file[f]
        /\ \A f \in DOMAIN segfiles \ DOMAIN file : rows[f] = segfiles[f]
    BY WithRows
  <2> HIDE DEF rows
  <2>2. segfiles' = rows
    BY <1>1 DEF rows
  <2> QED BY <1>6, <2>1, <2>2
<1>11. Store(db)' /\ IndexerTypes'
  BY <1>1, <1>9 DEF IndexInv, IndexerTypes
<1>12. ASSUME "stolen" \notin torn', NEW q \in Indexers
       PROVE  Working(q)'
  <2>1. "stolen" \notin torn /\ m = manifest /\ lock' = p
    BY <1>1, <1>2, <1>12
  <2>2. CASE q = p
    <3>1. BatchIsWhole(p)'
      BY <1>1, <1>2, <1>6, <1>8, <1>9, <2>1 DEF BatchIsWhole, Has
    <3>2. SegmentName(manifest') = name /\ manifest' = m
      BY <1>1, <1>7, <2>1
    <3> QED BY <1>7, <1>8, <1>9, <1>10, <2>1, <2>2, <3>1, <3>2 DEF Working, Holding
  <2>3. CASE q # p
    BY <1>1, <1>2, <1>9, <1>12, <2>3 DEF Working, Holding
  <2> QED BY <2>2, <2>3
<1>13. HighWaterIsCovered'
  <2>1. SUFFICES ASSUME ~InPieces', NEW id \in DOMAIN db.turns \ reused, id <= manifest.last
                 PROVE  Covered(id)'
    BY <1>1 DEF HighWaterIsCovered, Covered, Has
  <2>2. ~InPieces
    BY <1>1, <1>9, <2>1, PiecesStay
  <2>3. PICK f \in Range(manifest.segments) \cap DOMAIN segfiles : Has(segfiles[f], id)
    BY <2>1, <2>2, CoveredMeaning DEF IndexInv, Covered
  <2>4. m = manifest
    BY <1>2, <2>2 DEF InPieces
  <2>5. f # name
    BY <1>4, <1>7, <2>3, <2>4, NameIsNew
  <2> QED BY <1>1, <1>10, <2>3, <2>5 DEF Covered, Has
<1> QED BY <1>11, <1>12, <1>13 DEF IndexInv

\* The segment is listed, and the mark moves to the end of its batch.
LEMMA ListSegmentStep ==
    ASSUME IndexInv, NEW p \in Indexers, ListSegment(p)
    PROVE  IndexInv'
<1> DEFINE batch == idx[p].batch
           run == [idx[p] EXCEPT !.pc = "read", !.batch = <<>>]
           name == SegmentName(manifest)
           same == {id \in DOMAIN batch : id \in DOMAIN db.turns /\ db.turns[id].text = batch[id]}
<1>1. /\ idx[p].pc = "list" /\ Holding(p)
      /\ manifest' = idx[p].manifest /\ reused' = reused \ same
      /\ idx' = [idx EXCEPT ![p] = run]
      /\ UNCHANGED <<db, segfiles, lock, torn>>
  BY DEF ListSegment, Holding
<1>2. /\ IndexerRun(idx[p]) /\ Store(db) /\ Sequential(manifest) /\ Sequential(idx[p].manifest)
      /\ lock \in Indexers \cup {None, Dead}
      /\ "stolen" \notin torn => \A q \in Indexers \ {p} : ~Holding(q)
  <2>1. "stolen" \notin torn => lock = p
    BY <1>1 DEF IndexInv, Working
  <2> QED BY <2>1, OthersWait DEF IndexInv, IndexerTypes, IndexerRun
<1>3. "stolen" \notin torn =>
        /\ lock = p /\ BatchIsWhole(p)
        /\ idx[p].manifest = [manifest EXCEPT !.segments = Append(@, name), !.last = LastId(batch)]
        /\ name \in DOMAIN segfiles /\ segfiles[name] = batch
  BY <1>1 DEF IndexInv, Working
<1>4. LastId(batch) \in Nat
  BY <1>2, LastIdFound DEF IndexerRun
<1>5. "stolen" \notin torn =>
        /\ manifest'.last = LastId(batch)
        /\ Range(manifest'.segments) = Range(manifest.segments) \cup {name}
  <2> DEFINE more(last) == [manifest EXCEPT !.segments = Append(@, SegmentName(manifest)),
                                            !.last = last]
  <2>1. \A last \in Nat : /\ more(last).last = last
                          /\ Range(more(last).segments) = Range(manifest.segments) \cup {name}
    BY <1>2, NameIsAppended
  <2>2. "stolen" \notin torn => manifest' = more(LastId(batch))
    BY <1>1, <1>3
  <2> HIDE DEF more
  <2> QED BY <1>4, <2>1, <2>2
<1>6. IndexerRun(run) /\ run.pc = "read" /\ run.manifest = idx[p].manifest
  <2>1. Numbered(<<>>)
    BY DEF Numbered
  <2> QED BY <1>2, <2>1 DEF IndexerRun
<1> HIDE DEF run
<1>7. /\ DOMAIN idx' = Indexers /\ idx'[p] = run
      /\ \A q \in Indexers \ {p} : idx'[q] = idx[q]
      /\ \A q \in Indexers : IndexerRun(idx'[q])
  BY <1>1, <1>6, RunsTyped DEF IndexInv
<1>8. Store(db)' /\ IndexerTypes'
  BY <1>1, <1>2, <1>7 DEF IndexerTypes
<1>9. ASSUME "stolen" \notin torn', NEW q \in Indexers
      PROVE  Working(q)'
  <2>1. CASE q = p
    BY <1>1, <1>3, <1>6, <1>7, <1>9, <2>1 DEF Working, Holding
  <2>2. CASE q # p
    BY <1>1, <1>2, <1>7, <1>9, <2>2 DEF Working, Holding
  <2> QED BY <2>1, <2>2
<1>10. HighWaterIsCovered'
  <2>1. SUFFICES ASSUME ~InPieces', NEW id \in DOMAIN db.turns \ reused', id <= manifest'.last
                 PROVE  Covered(id)'
    BY <1>1 DEF HighWaterIsCovered, Covered, Has
  <2>2. ~InPieces /\ "stolen" \notin torn
    <3>1. ~InPieces
      BY <1>1, <1>7, <2>1, PiecesStay
    <3> QED BY <3>1 DEF InPieces
  <2>3. CASE Has(batch, id)
    <3>1. name \in Range(manifest'.segments) \cap DOMAIN segfiles'
      BY <1>1, <1>3, <1>5, <2>2
    <3>2. id \in DOMAIN segfiles'[name] /\ segfiles'[name][id] = db'.turns[id].text
      BY <1>1, <1>3, <2>2, <2>3 DEF Has
    <3> HIDE DEF name
    <3> QED BY <3>1, <3>2 DEF Covered, Has
  <2>4. CASE ~Has(batch, id)
    <3>1. id \notin same
      BY <2>4 DEF Has
    <3>2. id \in DOMAIN db.turns \ reused
      BY <1>1, <2>1, <3>1
    <3>3. id \in Nat /\ manifest.last \in Nat
      BY <1>2, <3>2, LastIdFound DEF Store, Sequential
    <3>4. ~(manifest.last < id)
      BY <1>3, <1>5, <2>1, <2>2, <2>4, <3>2 DEF BatchIsWhole
    <3>5. PICK f \in Range(manifest.segments) \cap DOMAIN segfiles : Has(segfiles[f], id)
      BY <2>2, <3>2, <3>3, <3>4, CoveredMeaning DEF IndexInv, Covered
    <3> QED BY <1>1, <1>5, <2>2, <3>5 DEF Covered, Has
  <2> QED BY <2>3, <2>4
<1> QED BY <1>8, <1>9, <1>10 DEF IndexInv

\* A rebuild is in pieces until the empty manifest is written.
LEMMA DropSegmentsStep ==
    ASSUME IndexInv, NEW p \in Indexers, DropSegments(p)
    PROVE  IndexInv'
<1> DEFINE empty == [NoManifest EXCEPT !.generation = idx[p].manifest.generation + 1]
           run == [idx[p] EXCEPT !.pc = "empty", !.manifest = empty]
<1>1. /\ idx[p].pc = "drop" /\ Holding(p) /\ idx' = [idx EXCEPT ![p] = run]
      /\ UNCHANGED <<db, manifest, lock, reused, torn>>
  BY DEF DropSegments, Holding
<1>2. /\ IndexerRun(idx[p])
      /\ "stolen" \notin torn => lock = p
      /\ "stolen" \notin torn => \A q \in Indexers \ {p} : ~Holding(q)
  <2>1. "stolen" \notin torn => lock = p
    BY <1>1 DEF IndexInv, Working
  <2> QED BY <1>1, <2>1, OthersWait DEF IndexInv, IndexerTypes
<1>3. Sequential(empty) /\ empty.last = 0
  <2>1. idx[p].manifest.generation + 1 \in Nat
    BY <1>2 DEF IndexerRun, Sequential
  <2>2. /\ NoManifest \in [generation : Nat, last : Nat, segments : Seq(Nat)]
        /\ NoManifest.last = 0 /\ Len(NoManifest.segments) = 0
    BY DEF NoManifest
  <2>3. /\ empty \in [generation : Nat, last : Nat, segments : Seq(Nat)]
        /\ empty.last = 0 /\ Len(empty.segments) = 0
    BY <2>1, <2>2
  <2> HIDE DEF empty
  <2> QED BY <2>3 DEF Sequential
<1> HIDE DEF empty
<1>4. IndexerRun(run) /\ run.pc = "empty"
  BY <1>2, <1>3 DEF IndexerRun
<1> HIDE DEF run
<1>5. /\ DOMAIN idx' = Indexers /\ idx'[p] = run
      /\ \A q \in Indexers \ {p} : idx'[q] = idx[q]
      /\ \A q \in Indexers : IndexerRun(idx'[q])
  BY <1>1, <1>4, RunsTyped DEF IndexInv
<1>6. Store(db)' /\ IndexerTypes'
  BY <1>1, <1>5 DEF IndexInv, IndexerTypes
<1>7. ASSUME "stolen" \notin torn', NEW q \in Indexers
      PROVE  Working(q)'
  <2>1. CASE q = p
    BY <1>1, <1>2, <1>4, <1>5, <1>7, <2>1 DEF Working, Holding
  <2>2. CASE q # p
    BY <1>1, <1>2, <1>5, <1>7, <2>2 DEF Working, Holding
  <2> QED BY <2>1, <2>2
<1>8. HighWaterIsCovered'
  BY <1>4, <1>5 DEF HighWaterIsCovered, InPieces
<1> QED BY <1>6, <1>7, <1>8 DEF IndexInv

LEMMA EmptyManifestStep ==
    ASSUME IndexInv, NEW p \in Indexers, EmptyManifest(p)
    PROVE  IndexInv'
<1> DEFINE run == [idx[p] EXCEPT !.pc = "lock", !.full = FALSE]
<1>1. /\ idx[p].pc = "empty" /\ Holding(p)
      /\ manifest' = idx[p].manifest /\ lock' = None
      /\ idx' = [idx EXCEPT ![p] = run] /\ torn' = torn \ {"dropped"}
      /\ UNCHANGED <<db, segfiles, reused>>
  BY DEF EmptyManifest, Holding
<1>2. /\ IndexerRun(idx[p]) /\ Store(db)
      /\ "stolen" \notin torn => \A q \in Indexers \ {p} : ~Holding(q)
  <2>1. "stolen" \notin torn => lock = p
    BY <1>1 DEF IndexInv, Working
  <2> QED BY <1>1, <2>1, OthersWait DEF IndexInv, IndexerTypes
<1>3. IndexerRun(run) /\ run.pc = "lock"
  BY <1>2 DEF IndexerRun
<1> HIDE DEF run
<1>4. /\ DOMAIN idx' = Indexers /\ idx'[p] = run
      /\ \A q \in Indexers \ {p} : idx'[q] = idx[q]
      /\ \A q \in Indexers : IndexerRun(idx'[q])
  BY <1>1, <1>3, RunsTyped DEF IndexInv
<1>5. Sequential(manifest') /\ manifest'.last = 0
  BY <1>1, <1>2 DEF IndexerRun
<1>6. Store(db)' /\ IndexerTypes'
  BY <1>1, <1>2, <1>4, <1>5 DEF IndexerTypes
<1>7. ASSUME "stolen" \notin torn', NEW q \in Indexers
      PROVE  Working(q)'
  <2>1. CASE q = p
    BY <1>3, <1>4, <2>1 DEF Working, Holding
  <2>2. CASE q # p
    BY <1>1, <1>2, <1>4, <1>7, <2>2 DEF Working, Holding
  <2> QED BY <2>1, <2>2
<1>8. HighWaterIsCovered'
  <2>1. ASSUME NEW id \in DOMAIN db.turns
        PROVE  ~(id <= manifest'.last)
    <3>1. id \in Nat \ {0}
      BY <1>2, LastIdFound DEF Store
    <3> QED BY <1>5, <3>1
  <2> QED BY <1>1, <2>1 DEF HighWaterIsCovered
<1> QED BY <1>6, <1>7, <1>8 DEF IndexInv

\* Turns that come or change are beyond every segment, or their ids come back.
LEMMA IngestKeepsIndex ==
    ASSUME IndexInv, NEW new, Ingests(db, new), Committed(new)
    PROVE  IndexInv'
<1> DEFINE ids == {id \in DOMAIN new.turns :
                     id \notin DOMAIN db.turns \/ new.turns[id] # db.turns[id]}
<1>1. /\ db' = new /\ reused' = reused \cup (ids \cap Indexed)
      /\ UNCHANGED <<segfiles, manifest, lock, idx, torn>>
  BY DEF Committed
<1>2. Store(db)' /\ IndexerTypes'
  BY <1>1 DEF IndexInv, IndexerTypes, Ingests
<1>3. ASSUME NEW id \in DOMAIN db'.turns \ reused', id \notin Indexed => id \notin ids
      PROVE  id \in DOMAIN db.turns \ reused /\ db'.turns[id] = db.turns[id]
  BY <1>1, <1>3
<1>4. \A id \in DOMAIN db'.turns : id \in Nat \ {0}
  BY <1>2, LastIdFound DEF Store
<1>5. ASSUME NEW id \in DOMAIN db'.turns, id <= manifest.last
      PROVE  id \in Indexed
  BY <1>4, <1>5 DEF Indexed, IndexInv, IndexerTypes, Sequential
<1>6. ASSUME NEW id \in DOMAIN db'.turns, NEW q \in Indexers, id <= LastId(idx[q].batch)
      PROVE  id \in Indexed
  <2>1. LastId(idx[q].batch) \in Nat
    BY LastIdFound DEF IndexInv, IndexerTypes, IndexerRun
  <2>2. id \in 1..LastId(idx[q].batch)
    BY <1>4, <1>6, <2>1
  <2> QED BY <2>2 DEF Indexed
<1> HIDE DEF ids
<1>7. ASSUME "stolen" \notin torn', NEW q \in Indexers
      PROVE  Working(q)'
  <2>1. Working(q)
    BY <1>1, <1>7 DEF IndexInv
  <2>2. BatchIsWhole(q) => BatchIsWhole(q)'
    BY <1>1, <1>3, <1>6 DEF BatchIsWhole, Has
  <2> QED BY <1>1, <2>1, <2>2 DEF Working, Holding
<1>8. HighWaterIsCovered'
  BY <1>1, <1>3, <1>5 DEF IndexInv, HighWaterIsCovered, InPieces
<1> QED BY <1>2, <1>7, <1>8 DEF IndexInv

\* Searches and the embedder leave the segments and the texts alone.
LEMMA EmbedKeepsIndex ==
    ASSUME IndexInv, Embeds(db, db'), UNCHANGED <<segfiles, manifest, lock, idx, reused>>,
           \A w \in {"stolen", "dropped"} : w \in torn' <=> w \in torn
    PROVE  IndexInv'
<1>1. Store(db)' /\ IndexerTypes'
  BY DEF IndexInv, IndexerTypes, Embeds
<1>2. /\ \A rows, id : id \in DOMAIN db.turns => (Has(rows, id) <=> Has(rows, id)')
      /\ DOMAIN db'.turns = DOMAIN db.turns
  BY DEF Embeds, Has
<1>3. ASSUME "stolen" \notin torn', NEW q \in Indexers
      PROVE  Working(q)'
  <2>1. Working(q)
    BY <1>3 DEF IndexInv
  <2>2. BatchIsWhole(q) => BatchIsWhole(q)'
    BY <1>2 DEF BatchIsWhole
  <2> QED BY <2>1, <2>2 DEF Working, Holding
<1>4. HighWaterIsCovered'
  BY DEF Embeds, IndexInv, HighWaterIsCovered, InPieces
<1> QED BY <1>1, <1>3, <1>4 DEF IndexInv

\* What the embedder does, seen from the segments.
EmbedAside ==
    /\ Embeds(db, db')
    /\ UNCHANGED <<segfiles, manifest, lock, idx, sea, reused>>
    /\ \A w \in {"stolen", "dropped"} : w \in torn' <=> w \in torn

LEMMA EmbedsNothing ==
    ASSUME Store(db), db' = db
    PROVE  Embeds(db, db')
  BY DEF Embeds

LEMMA HealEmbeds ==
    ASSUME NEW d, Store(d), NEW last
    PROVE  LET new == MarkPolicySkips(DropOrphanChunks(d, last))
           IN  /\ Embeds(d, new)
               /\ DOMAIN new.chunks = {c \in DOMAIN d.chunks : c <= last}
               /\ \A c \in DOMAIN new.chunks : new.chunks[c] = d.chunks[c]
               /\ \A id \in DOMAIN d.turns :
                    new.turns[id].embedded = Embedded => d.turns[id].embedded = Embedded
<1> DEFINE mid == DropOrphanChunks(d, last)
           new == MarkPolicySkips(mid)
<1>1. /\ Embeds(d, mid) /\ mid.turns = d.turns
      /\ DOMAIN mid.chunks = {c \in DOMAIN d.chunks : c <= last}
      /\ \A c \in DOMAIN mid.chunks : mid.chunks[c] = d.chunks[c]
  BY DropChunksEmbeds
<1>2. Store(mid)
  BY <1>1 DEF Embeds
<1> HIDE DEF mid
<1>3. /\ Embeds(mid, new) /\ new.chunks = mid.chunks
      /\ \A id \in DOMAIN mid.turns :
           new.turns[id].embedded = Embedded => mid.turns[id].embedded = Embedded
  BY <1>2, MarkPolicySkipsEmbeds
<1> HIDE DEF new
<1>4. Embeds(d, new)
  BY <1>1, <1>3 DEF Embeds
<1> QED BY <1>1, <1>3, <1>4 DEF new, mid

LEMMA EmbedderStaysAside ==
    ASSUME Store(db), NEW e \in Embedders,
           \/ Embed(e) \/ CrashEmbedder(e)
           \/ \E rebuild \in BOOLEAN : OpenVectors(e, rebuild)
    PROVE  EmbedAside
<1>1. Embeds(db, db)
  BY DEF Embeds
<1>2. UNCHANGED <<segfiles, manifest, lock, idx, sea, reused>>
  BY DEF segvars, Embed, ClearFiles, ClearMeta, ResetEmbeddings, Heal, FetchBatch, Sweep,
         ChunkTurn, WriteVectors, WriteMeta, MarkTurn, CrashEmbedder, OpenVectors
<1>3. \A w \in {"stolen", "dropped"} : w \in torn' <=> w \in torn
  <2>1. torn' \in {torn, torn \cup {"beside"}, torn \cup {"cleared"}, torn \ {"cleared"}}
    BY DEF Embed, ClearFiles, ClearMeta, ResetEmbeddings, Heal, FetchBatch, Sweep,
           ChunkTurn, WriteVectors, WriteMeta, MarkTurn, CrashEmbedder, OpenVectors
  <2> QED BY <2>1
<1>4. Embeds(db, db')
  <2>1. CASE \/ ClearFiles(e) \/ ClearMeta(e) \/ FetchBatch(e) \/ WriteVectors(e)
             \/ WriteMeta(e) \/ CrashEmbedder(e)
             \/ \E rebuild \in BOOLEAN : OpenVectors(e, rebuild)
    <3>1. db' = db
      BY <2>1 DEF ClearFiles, ClearMeta, FetchBatch, WriteVectors, WriteMeta,
                  CrashEmbedder, OpenVectors
    <3> QED BY <1>1, <3>1
  <2>2. CASE ResetEmbeddings(e)
    <3>1. db' = ResetChunks(db) \/ db' = ResetMarks(db)
      BY <2>2 DEF ResetEmbeddings
    <3> QED BY <3>1, ResetChunksEmbeds, ResetMarksEmbeds
  <2>3. CASE Heal(e)
    <3>1. db' = MarkPolicySkips(DropOrphanChunks(db, emb[e].meta.last))
      BY <2>3 DEF Heal
    <3> QED BY <3>1, HealEmbeds
  <2>4. CASE Sweep(e)
    <3>1. db' = MarkPolicySkips(db)
      BY <2>4 DEF Sweep
    <3> QED BY <3>1, MarkPolicySkipsEmbeds
  <2>5. CASE ChunkTurn(e)
    <3>1. db' = InsertChunk(db, Min(DOMAIN emb[e].batch))
      BY <2>5 DEF ChunkTurn
    <3> QED BY <3>1, InsertChunkEmbeds
  <2>6. CASE MarkTurn(e)
    <3>1. db' = MarkEmbedded(db, {Min(DOMAIN emb[e].rows)})
      BY <2>6 DEF MarkTurn
    <3> QED BY <3>1, MarkEmbeddedEmbeds
  <2> QED BY <2>1, <2>2, <2>3, <2>4, <2>5, <2>6 DEF Embed
<1> QED BY <1>2, <1>3, <1>4 DEF EmbedAside

LEMMA FreshLength ==
    ASSUME NEW n \in Nat
    PROVE  Len(Fresh(n)) = n
  BY DEF Fresh

\* An ingest is one transaction that adds or replaces a session.
LEMMA IngestCommits ==
    ASSUME Store(db), NEW s \in Sessions, NEW n \in 1..2, Grow(s, n) \/ Rewrite(s, n)
    PROVE  \E new : Ingests(db, new) /\ Committed(new)
<1>1. Len(Fresh(n)) = n /\ n \in Nat
  <2>1. n \in Nat
    OBVIOUS
  <2> QED BY <2>1, FreshLength
<1>2. CASE Grow(s, n)
  <2>1. Ingests(db, AppendSession(db, s, Fresh(n), s, None))
    BY <1>1, AppendIngests
  <2> QED BY <1>2, <2>1 DEF Grow
<1>3. CASE Rewrite(s, n)
  <2>1. Ingests(db, ReplaceSession(db, s, Fresh(n), s, None))
    BY <1>1, ReplaceIngests
  <2> QED BY <1>3, <2>1 DEF Rewrite
<1> QED BY <1>2, <1>3

LEMMA IndexInvInit == Init => IndexInv
<1> SUFFICES ASSUME Init
             PROVE  IndexInv
  OBVIOUS
<1>1. Store(db)
  <2>1. Numbered(<<>>)
    BY DEF Numbered
  <2> QED BY <2>1 DEF Init, EmptyStore, Store
<1>2. IndexerTypes /\ \A p \in Indexers : idx[p] = NoRun
  BY NoRunTyped, NoManifestSequential DEF Init, IndexerTypes
<1>3. \A p \in Indexers : Working(p)
  BY <1>2, NoRunTyped DEF Working, Holding
<1>4. HighWaterIsCovered
  BY DEF Init, HighWaterIsCovered, EmptyStore
<1> QED BY <1>1, <1>2, <1>3, <1>4 DEF IndexInv

LEMMA IndexInvStep == IndexInv /\ [Next]_vars => IndexInv'
<1> SUFFICES ASSUME IndexInv, [Next]_vars
             PROVE  IndexInv'
  OBVIOUS
<1>1. Store(db)
  BY DEF IndexInv
<1>2. CASE UNCHANGED vars
  <2>1. Embeds(db, db')
    BY <1>1, <1>2, EmbedsNothing DEF vars
  <2> QED BY <1>2, <2>1, EmbedKeepsIndex DEF vars, segvars
<1>3. ASSUME NEW s \in Sessions, NEW n \in 1..2, Grow(s, n) \/ Rewrite(s, n)
      PROVE  IndexInv'
  BY <1>1, <1>3, IngestCommits, IngestKeepsIndex
<1>4. ASSUME NEW p \in Indexers,
             \/ Index(p) \/ FindStale(p) \/ CrashIndexer(p)
             \/ \E full \in BOOLEAN : OpenSegments(p, full)
      PROVE  IndexInv'
  BY <1>4, OpenSegmentsStep, LockSteps, CrashIndexerStep, AcquireStep, ReadBatchStep,
     WriteSegmentStep, ListSegmentStep, DropSegmentsStep, EmptyManifestStep DEF Index
<1>5. ASSUME NEW r \in Searchers, Search(r)
      PROVE  IndexInv'
  <2>1. UNCHANGED <<db, segfiles, manifest, lock, idx, reused, torn>>
    BY <1>5 DEF Search, OpenSearch, OpenShards, FetchRows, Answer
  <2>2. Embeds(db, db')
    BY <1>1, <2>1, EmbedsNothing
  <2> QED BY <2>1, <2>2, EmbedKeepsIndex
<1>6. ASSUME NEW e \in Embedders,
             \/ Embed(e) \/ CrashEmbedder(e)
             \/ \E rebuild \in BOOLEAN : OpenVectors(e, rebuild)
      PROVE  IndexInv'
  <2>1. EmbedAside
    BY <1>1, <1>6, EmbedderStaysAside
  <2> QED BY <2>1, EmbedKeepsIndex DEF EmbedAside
<1> QED BY <1>2, <1>3, <1>4, <1>5, <1>6 DEF Next

(***************************************************************************)
(* Silently losing postings below the high-water mark does not happen,     *)
(* whatever ingests, indexers, rebuilds and deaths come together.          *)
(***************************************************************************)
THEOREM MarkIsCovered == Spec => []HighWaterIsCovered
<1>1. Spec => []IndexInv
  BY IndexInvInit, IndexInvStep, PTL DEF Spec
<1>2. IndexInv => HighWaterIsCovered
  BY DEF IndexInv
<1> QED BY <1>1, <1>2, PTL

----------------------------------------------------------------------------
(* Searches.                                                               *)

SearchRun(run) ==
    /\ DOMAIN run = {"pc", "manifest", "candidates", "stable", "stale", "found", "calm"}
    /\ Sequential(run.manifest)
    /\ run.calm \in BOOLEAN

Settled(r) == {t \in sea[r].stable : t[1] \notin sea[r].stale}

\* Segments only come beside those a search has planned with, and what is below
\* its mark goes with it from step to step.
Following(r) ==
    LET run == sea[r]
        open == Range(run.manifest.segments) \cap DOMAIN segfiles
    IN  /\ run.manifest.generation = manifest.generation
        /\ Len(run.manifest.segments) <= Len(manifest.segments)
        /\ run.pc = "plan" => \A t \in Settled(r) : t[1] <= run.manifest.last =>
             \E f \in open : t[1] \in DOMAIN segfiles[f] /\ segfiles[f][t[1]] = t[2]
        /\ run.pc = "fetch" => \A t \in Settled(r) :
             t[1] <= run.manifest.last => t \in run.candidates
        /\ run.pc = "done" => Settled(r) \subseteq run.found

Undisturbed(r) == sea[r].pc # "idle" /\ sea[r].calm

Searching(r) ==
    /\ sea[r].stable \subseteq RowsNow
    /\ Undisturbed(r) => \A p \in Indexers : idx[p].pc # "empty"
    /\ Undisturbed(r) /\ {"stolen", "dropped"} \cap torn = {} => Following(r)

SearchInv ==
    /\ DOMAIN sea = Searchers
    /\ \A r \in Searchers : SearchRun(sea[r]) /\ Searching(r)

LEMMA NoSearchTyped == SearchRun(NoSearch) /\ NoSearch.pc = "idle" /\ NoSearch.stable = {}
  BY NoManifestSequential DEF SearchRun, NoSearch

\* One search takes a step.
LEMMA SearchesTyped ==
    ASSUME SearchInv, NEW r \in Searchers, NEW run, SearchRun(run),
           sea' = [sea EXCEPT ![r] = run]
    PROVE  /\ DOMAIN sea' = Searchers
           /\ sea'[r] = run
           /\ \A q \in Searchers \ {r} : sea'[q] = sea[q]
           /\ \A q \in Searchers : SearchRun(sea'[q])
  BY DEF SearchInv

LEMMA OneSearches ==
    ASSUME SearchInv, NEW r \in Searchers, NEW run, SearchRun(run),
           sea' = [sea EXCEPT ![r] = run], Searching(r)',
           UNCHANGED <<db, segfiles, manifest, idx, torn>>
    PROVE  SearchInv'
<1>1. /\ DOMAIN sea' = Searchers /\ sea'[r] = run
      /\ \A q \in Searchers \ {r} : sea'[q] = sea[q]
      /\ \A q \in Searchers : SearchRun(sea'[q])
  BY SearchesTyped
<1>2. ASSUME NEW q \in Searchers \ {r}
      PROVE  Searching(q)'
  BY <1>1 DEF SearchInv, Searching, Following, Undisturbed, Settled, RowsNow
<1> QED BY <1>1, <1>2 DEF SearchInv

LEMMA OpenSearchStep ==
    ASSUME IndexInv, SearchInv, NEW r \in Searchers, OpenSearch(r)
    PROVE  SearchInv'
<1> DEFINE calm == \A p \in Indexers : idx[p].pc # "empty"
           run == [NoSearch EXCEPT !.pc = "plan", !.manifest = manifest, !.stable = RowsNow,
                                   !.stale = reused, !.calm = calm]
<1>1. /\ sea' = [sea EXCEPT ![r] = run]
      /\ UNCHANGED <<db, segfiles, manifest, idx, torn, reused>>
  BY DEF OpenSearch
<1>2. calm \in BOOLEAN
  OBVIOUS
<1>3. calm <=> \A p \in Indexers : idx[p].pc # "empty"
  OBVIOUS
<1> HIDE DEF calm
<1>4. /\ SearchRun(run) /\ run.pc = "plan" /\ run.manifest = manifest
      /\ run.stable = RowsNow /\ run.stale = reused /\ run.calm = calm
  BY <1>2, NoSearchTyped DEF SearchRun, NoSearch, IndexInv, IndexerTypes
<1> HIDE DEF run
<1>5. sea'[r] = run
  BY <1>1, <1>4, SearchesTyped
<1>6. RowsNow' = RowsNow
  BY <1>1 DEF RowsNow
<1>7. ASSUME calm, {"stolen", "dropped"} \cap torn = {}
      PROVE  Following(r)'
  <2>1. ~InPieces
    BY <1>3, <1>7 DEF InPieces
  <2>2. ASSUME NEW t \in RowsNow, t[1] \notin reused, t[1] <= manifest.last
        PROVE  \E f \in Range(manifest.segments) \cap DOMAIN segfiles :
                 t[1] \in DOMAIN segfiles[f] /\ segfiles[f][t[1]] = t[2]
    <3>1. PICK id \in DOMAIN db.turns : t = <<id, db.turns[id].text>>
      BY DEF RowsNow
    <3>2. t[1] = id /\ t[2] = db.turns[id].text
      BY <3>1
    <3>3. Covered(id)
      BY <2>1, <2>2, <3>2, CoveredMeaning DEF IndexInv
    <3> QED BY <3>2, <3>3 DEF Covered, Has
  <2>3. Len(manifest.segments) \in Nat
    BY DEF IndexInv, IndexerTypes, Sequential
  <2> QED BY <1>1, <1>4, <1>5, <2>2, <2>3 DEF Following, Settled
<1>8. Searching(r)'
  BY <1>1, <1>3, <1>4, <1>5, <1>6, <1>7 DEF Searching, Undisturbed
<1> QED BY <1>1, <1>4, <1>8, OneSearches

LEMMA OpenShardsStep ==
    ASSUME IndexInv, SearchInv, NEW r \in Searchers, OpenShards(r)
    PROVE  SearchInv'
<1> DEFINE open == Range(sea[r].manifest.segments) \cap DOMAIN segfiles
           candidates == UNION {{<<id, segfiles[f][id]>> : id \in DOMAIN segfiles[f]} : f \in open}
           run == [sea[r] EXCEPT !.pc = "fetch", !.candidates = candidates]
<1>1. /\ sea[r].pc = "plan" /\ sea' = [sea EXCEPT ![r] = run]
      /\ UNCHANGED <<db, segfiles, manifest, idx, torn>>
  BY DEF OpenShards
<1>2. ASSUME NEW t \in RowsNow, NEW f \in open, t[1] \in DOMAIN segfiles[f],
             segfiles[f][t[1]] = t[2]
      PROVE  t \in candidates
  <2>1. PICK id \in DOMAIN db.turns : t = <<id, db.turns[id].text>>
    BY DEF RowsNow
  <2>2. t = <<t[1], segfiles[f][t[1]]>>
    BY <1>2, <2>1
  <2> QED BY <1>2, <2>2
<1> HIDE DEF candidates
<1>3. SearchRun(sea[r]) /\ Searching(r)
  BY DEF SearchInv
<1>4. /\ SearchRun(run) /\ run.pc = "fetch" /\ run.candidates = candidates
      /\ run.manifest = sea[r].manifest /\ run.stable = sea[r].stable
      /\ run.stale = sea[r].stale /\ run.calm = sea[r].calm
  BY <1>3 DEF SearchRun
<1> HIDE DEF run
<1>5. sea'[r] = run
  BY <1>1, <1>4, SearchesTyped
<1>6. RowsNow' = RowsNow /\ Settled(r)' = Settled(r) /\ Settled(r) \subseteq sea[r].stable
  BY <1>1, <1>4, <1>5 DEF RowsNow, Settled
<1>7. Following(r) => Following(r)'
  BY <1>1, <1>2, <1>3, <1>4, <1>5, <1>6 DEF Following, Searching
<1>8. Searching(r)'
  BY <1>1, <1>3, <1>4, <1>5, <1>6, <1>7 DEF Searching, Undisturbed
<1> QED BY <1>1, <1>4, <1>8, OneSearches

LEMMA FetchRowsStep ==
    ASSUME IndexInv, SearchInv, NEW r \in Searchers, FetchRows(r)
    PROVE  SearchInv'
<1> DEFINE found == {t \in RowsNow : t[1] > sea[r].manifest.last \/ t \in sea[r].candidates}
           run == [sea[r] EXCEPT !.pc = "done", !.found = found]
<1>1. /\ sea[r].pc = "fetch" /\ sea' = [sea EXCEPT ![r] = run]
      /\ UNCHANGED <<db, segfiles, manifest, idx, torn>>
  BY DEF FetchRows
<1>2. SearchRun(sea[r]) /\ Searching(r)
  BY DEF SearchInv
<1>3. \A t \in RowsNow : (t[1] <= sea[r].manifest.last => t \in sea[r].candidates) => t \in found
  <2> TAKE t \in RowsNow
  <2>1. PICK id \in DOMAIN db.turns : t = <<id, db.turns[id].text>>
    BY DEF RowsNow
  <2>2. t[1] \in Nat /\ sea[r].manifest.last \in Nat
    BY <1>2, <2>1, LastIdFound DEF IndexInv, Store, SearchRun, Sequential
  <2> QED BY <2>2
<1> HIDE DEF found
<1>4. /\ SearchRun(run) /\ run.pc = "done" /\ run.found = found
      /\ run.manifest = sea[r].manifest /\ run.stable = sea[r].stable
      /\ run.stale = sea[r].stale /\ run.calm = sea[r].calm
  BY <1>2 DEF SearchRun
<1> HIDE DEF run
<1>5. sea'[r] = run
  BY <1>1, <1>4, SearchesTyped
<1>6. RowsNow' = RowsNow /\ Settled(r)' = Settled(r) /\ Settled(r) \subseteq sea[r].stable
  BY <1>1, <1>4, <1>5 DEF RowsNow, Settled
<1>7. Following(r) => Following(r)'
  BY <1>1, <1>2, <1>3, <1>4, <1>5, <1>6 DEF Following, Searching
<1>8. Searching(r)'
  BY <1>1, <1>2, <1>4, <1>5, <1>6, <1>7 DEF Searching, Undisturbed
<1> QED BY <1>1, <1>4, <1>8, OneSearches

LEMMA AnswerStep ==
    ASSUME SearchInv, NEW r \in Searchers, Answer(r)
    PROVE  SearchInv'
<1>1. /\ sea' = [sea EXCEPT ![r] = NoSearch]
      /\ UNCHANGED <<db, segfiles, manifest, idx, torn>>
  BY DEF Answer
<1>2. sea'[r] = NoSearch
  BY <1>1, NoSearchTyped, SearchesTyped
<1>3. Searching(r)'
  BY <1>2, NoSearchTyped DEF Searching, Undisturbed
<1> QED BY <1>1, <1>3, NoSearchTyped, OneSearches

\* Steps that leave the list of segments alone, and no listed file either.
LEMMA SearchesGoOn ==
    ASSUME SearchInv, Sequential(manifest), UNCHANGED <<sea, manifest>>, Embeds(db, db'),
           \A p \in Indexers : idx'[p].pc = "empty" => idx[p].pc = "empty",
           {"stolen", "dropped"} \cap torn \subseteq torn',
           {"stolen", "dropped"} \cap torn' = {} =>
             \A f \in DOMAIN segfiles :
               f < SegmentName(manifest) => f \in DOMAIN segfiles' /\ segfiles'[f] = segfiles[f]
    PROVE  SearchInv'
<1>1. RowsNow' = RowsNow
  BY DEF Embeds, RowsNow
<1>2. ASSUME NEW r \in Searchers
      PROVE  Searching(r)'
  <2>1. Searching(r) /\ Sequential(sea[r].manifest)
    BY DEF SearchInv, SearchRun
  <2>2. ASSUME Following(r), {"stolen", "dropped"} \cap torn' = {}
        PROVE  Following(r)'
    <3> DEFINE listed == Range(sea[r].manifest.segments)
    <3>1. \A f \in listed : f < SegmentName(manifest)
      <4>1. \A f \in listed :
              f \in Nat /\ f <= sea[r].manifest.generation + Len(sea[r].manifest.segments)
        BY <2>1, NameIsNew
      <4>2. /\ sea[r].manifest.generation = manifest.generation
            /\ Len(sea[r].manifest.segments) <= Len(manifest.segments)
        BY <2>2 DEF Following
      <4>3. /\ sea[r].manifest.generation \in Nat
            /\ Len(sea[r].manifest.segments) \in Nat /\ Len(manifest.segments) \in Nat
        BY <2>1 DEF Sequential
      <4>4. SegmentName(manifest) = manifest.generation + Len(manifest.segments) + 1
        BY DEF SegmentName
      <4> HIDE DEF listed
      <4> TAKE f \in listed
      <4>5. f \in Nat /\ f <= manifest.generation + Len(sea[r].manifest.segments)
        BY <4>1, <4>2
      <4>6. manifest.generation \in Nat
        BY <4>2, <4>3
      <4> DEFINE n == Len(sea[r].manifest.segments)
                 more == Len(manifest.segments)
                 generation == manifest.generation
      <4>7. /\ f \in Nat /\ generation \in Nat /\ n \in Nat /\ more \in Nat
            /\ f <= generation + n /\ n <= more
            /\ SegmentName(manifest) = generation + more + 1
        BY <4>2, <4>3, <4>4, <4>5, <4>6
      <4> HIDE DEF n, more, generation
      <4> QED BY ONLY <4>7
    <3>2. \A f \in listed \cap DOMAIN segfiles :
            f \in listed \cap DOMAIN segfiles' /\ segfiles'[f] = segfiles[f]
      BY <2>2, <3>1
    <3>3. Settled(r)' = Settled(r)
      BY DEF Settled
    <3> QED BY <2>2, <3>2, <3>3 DEF Following
  <2> QED BY <1>1, <2>1, <2>2 DEF Searching, Undisturbed
<1> QED BY <1>2 DEF SearchInv

\* One more segment is listed.
LEMMA SearchesFollow ==
    ASSUME IndexInv, SearchInv, NEW p \in Indexers, ListSegment(p)
    PROVE  SearchInv'
<1>1. /\ idx[p].pc = "list" /\ manifest' = idx[p].manifest
      /\ idx' = [idx EXCEPT ![p] = [idx[p] EXCEPT !.pc = "read", !.batch = <<>>]]
      /\ UNCHANGED <<db, segfiles, sea, torn>>
  BY DEF ListSegment
<1>2. \A q \in Indexers : idx'[q].pc = "empty" => idx[q].pc = "empty"
  BY <1>1 DEF IndexInv, IndexerTypes, IndexerRun
<1>3. "stolen" \notin torn =>
        /\ manifest'.generation = manifest.generation
        /\ Len(manifest'.segments) = Len(manifest.segments) + 1
  <2> DEFINE more(last) == [manifest EXCEPT !.segments = Append(@, SegmentName(manifest)),
                                            !.last = last]
  <2>1. \A last \in Nat : /\ more(last).generation = manifest.generation
                          /\ Len(more(last).segments) = Len(manifest.segments) + 1
    BY NameIsAppended DEF IndexInv, IndexerTypes
  <2>2. "stolen" \notin torn => manifest' = more(LastId(idx[p].batch))
    BY <1>1 DEF IndexInv, Working
  <2>3. LastId(idx[p].batch) \in Nat
    BY LastIdFound DEF IndexInv, IndexerTypes, IndexerRun
  <2> HIDE DEF more
  <2> QED BY <2>1, <2>2, <2>3
<1>4. ASSUME NEW r \in Searchers
      PROVE  Searching(r)'
  <2>1. Searching(r) /\ Sequential(sea[r].manifest) /\ Sequential(manifest)
    BY DEF SearchInv, SearchRun, IndexInv, IndexerTypes
  <2>2. Len(sea[r].manifest.segments) \in Nat /\ Len(manifest.segments) \in Nat
    BY <2>1 DEF Sequential
  <2>3. Following(r) /\ "stolen" \notin torn => Following(r)'
    BY <1>1, <1>3, <2>2 DEF Following, Settled
  <2> QED BY <1>1, <1>2, <2>1, <2>3 DEF Searching, Undisturbed, RowsNow
<1> QED BY <1>1, <1>4 DEF SearchInv

\* A rebuild disturbs them, and is over before another search begins in its way.
LEMMA SearchesAreDisturbed ==
    ASSUME IndexInv, SearchInv, NEW p \in Indexers, DropSegments(p)
    PROVE  SearchInv'
<1>1. /\ sea' = [r \in Searchers |-> [sea[r] EXCEPT !.calm = FALSE]]
      /\ db' = db
  BY DEF DropSegments
<1>2. ASSUME NEW r \in Searchers
      PROVE  SearchRun(sea'[r]) /\ Searching(r)'
  <2> DEFINE run == [sea[r] EXCEPT !.calm = FALSE]
  <2>1. SearchRun(sea[r]) /\ Searching(r)
    BY DEF SearchInv
  <2>2. sea'[r] = run
    BY <1>1
  <2>3. SearchRun(run) /\ run.calm = FALSE /\ run.stable = sea[r].stable
    BY <2>1 DEF SearchRun
  <2> HIDE DEF run
  <2> QED BY <1>1, <2>1, <2>2, <2>3 DEF Searching, Undisturbed, RowsNow
<1> QED BY <1>1, <1>2 DEF SearchInv

LEMMA SearchesStandAside ==
    ASSUME IndexInv, SearchInv, NEW p \in Indexers, EmptyManifest(p)
    PROVE  SearchInv'
<1>1. idx[p].pc = "empty" /\ UNCHANGED <<sea, db>>
  BY DEF EmptyManifest
<1>2. \A r \in Searchers : ~Undisturbed(r) /\ ~Undisturbed(r)'
  BY <1>1 DEF SearchInv, Searching, Undisturbed
<1> QED BY <1>1, <1>2 DEF SearchInv, Searching, RowsNow

\* A turn that an ingest drops or changes is not stable.
LEMMA IngestKeepsSearches ==
    ASSUME SearchInv, NEW new, Committed(new)
    PROVE  SearchInv'
<1> DEFINE ids == {id \in DOMAIN new.turns :
                     id \notin DOMAIN db.turns \/ new.turns[id] # db.turns[id]}
           gone == DOMAIN db.turns \ DOMAIN new.turns
           left(r) == {t \in sea[r].stable : t[1] \notin ids \cup gone}
<1>1. /\ db' = new /\ UNCHANGED <<segfiles, manifest, idx, torn>>
      /\ sea' = [r \in Searchers |-> [sea[r] EXCEPT !.stable = left(r)]]
  BY Zenon DEF Committed
<1>2. ASSUME NEW r \in Searchers
      PROVE  SearchRun(sea'[r]) /\ Searching(r)'
  <2> DEFINE run == [sea[r] EXCEPT !.stable = left(r)]
  <2>1. SearchRun(sea[r]) /\ Searching(r)
    BY DEF SearchInv
  <2>2. sea'[r] = run
    BY <1>1
  <2>3. ASSUME NEW t \in left(r)
        PROVE  t \in RowsNow'
    <3>1. PICK id \in DOMAIN db.turns : t = <<id, db.turns[id].text>>
      BY <2>1 DEF Searching, RowsNow
    <3>2. t[1] = id
      BY <3>1
    <3>3. id \in DOMAIN new.turns /\ new.turns[id] = db.turns[id]
      BY <3>1, <3>2
    <3> QED BY <1>1, <3>1, <3>3 DEF RowsNow
  <2>4. left(r) \subseteq sea[r].stable
    OBVIOUS
  <2> HIDE DEF left
  <2>5. /\ SearchRun(run) /\ run.stable = left(r) /\ run.pc = sea[r].pc /\ run.calm = sea[r].calm
        /\ run.manifest = sea[r].manifest /\ run.stale = sea[r].stale
        /\ run.candidates = sea[r].candidates /\ run.found = sea[r].found
    BY <2>1 DEF SearchRun
  <2> HIDE DEF run
  <2>6. Settled(r)' \subseteq Settled(r)
    BY <2>2, <2>4, <2>5 DEF Settled
  <2>7. Following(r) => Following(r)'
    BY <1>1, <2>2, <2>5, <2>6 DEF Following
  <2>8. sea'[r].stable \subseteq RowsNow'
    BY <2>2, <2>3, <2>5
  <2> QED BY <1>1, <2>1, <2>2, <2>5, <2>7, <2>8 DEF Searching, Undisturbed
<1> QED BY <1>1, <1>2 DEF SearchInv

LEMMA IndexersKeepSearches ==
    ASSUME IndexInv, SearchInv, NEW p \in Indexers,
           \/ Index(p) \/ FindStale(p) \/ CrashIndexer(p)
           \/ \E full \in BOOLEAN : OpenSegments(p, full)
    PROVE  SearchInv'
<1>1. Store(db) /\ Sequential(manifest) /\ DOMAIN idx = Indexers /\ IndexerRun(idx[p])
  BY DEF IndexInv, IndexerTypes
<1>2. CASE \/ Acquire(p) \/ Steal(p) \/ GiveUp(p) \/ ReadBatch(p)
           \/ FindStale(p) \/ CrashIndexer(p)
           \/ \E full \in BOOLEAN : OpenSegments(p, full)
  <2>1. UNCHANGED <<sea, manifest, db, segfiles>> /\ torn \subseteq torn'
    BY <1>2 DEF Acquire, Steal, GiveUp, ReadBatch, FindStale, CrashIndexer, OpenSegments
  <2>2. PICK run : idx' = [idx EXCEPT ![p] = run] /\ run.pc # "empty"
    <3> DEFINE at(pc) == [idx[p] EXCEPT !.pc = pc]
               found(m) == [idx[p] EXCEPT !.pc = "read", !.manifest = m]
               with(batch) == [idx[p] EXCEPT !.pc = "write", !.batch = batch]
               opened(full) == [NoRun EXCEPT !.pc = "lock", !.full = full, !.manifest = manifest]
    <3>1. /\ \A pc : at(pc).pc = pc
          /\ \A m : found(m).pc = "read"
          /\ \A batch : with(batch).pc = "write"
          /\ \A full : opened(full).pc = "lock"
      BY <1>1 DEF IndexerRun, NoRun
    <3>2. \/ \E pc \in {"lock", "steal", "drop"} : idx' = [idx EXCEPT ![p] = at(pc)]
          \/ \E m : idx' = [idx EXCEPT ![p] = found(m)]
          \/ \E batch : idx' = [idx EXCEPT ![p] = with(batch)]
          \/ \E full : idx' = [idx EXCEPT ![p] = opened(full)]
          \/ idx' = [idx EXCEPT ![p] = NoRun]
      <4>1. CASE Acquire(p)
        BY <4>1 DEF Acquire
      <4>2. CASE ReadBatch(p)
        BY <4>2 DEF ReadBatch
      <4>3. CASE \/ Steal(p) \/ GiveUp(p) \/ FindStale(p) \/ CrashIndexer(p)
        BY <4>3 DEF Steal, GiveUp, FindStale, CrashIndexer
      <4>4. CASE \E full \in BOOLEAN : OpenSegments(p, full)
        BY <4>4 DEF OpenSegments
      <4> QED BY <1>2, <4>1, <4>2, <4>3, <4>4
    <3> HIDE DEF at, found, with, opened
    <3> QED BY <3>1, <3>2, NoRunTyped
  <2>3. \A q \in Indexers : idx'[q].pc = "empty" => idx[q].pc = "empty"
    BY <1>1, <2>2
  <2>4. Embeds(db, db')
    BY <1>1, <2>1, EmbedsNothing
  <2> QED BY <1>1, <2>1, <2>3, <2>4, SearchesGoOn
<1>3. CASE WriteSegment(p)
  <2> DEFINE name == SegmentName(idx[p].manifest)
             file == [x \in {name} |-> idx[p].batch]
             rows == With(segfiles, file)
  <2>1. /\ UNCHANGED <<sea, manifest, db, torn>> /\ segfiles' = rows
        /\ idx[p].pc = "write"
    BY <1>3 DEF WriteSegment
  <2>2. \A q \in Indexers : idx'[q].pc = "empty" => idx[q].pc = "empty"
    <3>1. PICK m : idx' = [idx EXCEPT ![p] = [idx[p] EXCEPT !.pc = "list", !.manifest = m]]
      <4>1. PICK name1, last :
              idx' = [idx EXCEPT ![p] = [idx[p] EXCEPT !.pc = "list",
                                         !.manifest.segments = Append(@, name1),
                                         !.manifest.last = last]]
        BY <1>3 DEF WriteSegment
      <4> QED BY <1>1, <4>1 DEF IndexerRun
    <3> QED BY <1>1, <3>1 DEF IndexerRun
  <2>3. "stolen" \notin torn => name = SegmentName(manifest)
    BY <2>1 DEF IndexInv, Working
  <2>4. \A f \in DOMAIN segfiles \ {name} : f \in DOMAIN rows /\ rows[f] = segfiles[f]
    <3>1. DOMAIN file = {name}
      OBVIOUS
    <3> HIDE DEF file, name
    <3> QED BY <3>1, WithRows
  <2>5. SegmentName(manifest) \in Nat
    BY <1>1, NameIsNew
  <2> HIDE DEF rows, name
  <2>6. "stolen" \notin torn => \A f \in DOMAIN segfiles :
          f < SegmentName(manifest) => f \in DOMAIN segfiles' /\ segfiles'[f] = segfiles[f]
    BY <2>1, <2>3, <2>4, <2>5
  <2>7. Embeds(db, db')
    BY <1>1, <2>1, EmbedsNothing
  <2> QED BY <1>1, <2>1, <2>2, <2>6, <2>7, SearchesGoOn
<1> QED BY <1>2, <1>3, SearchesFollow, SearchesAreDisturbed, SearchesStandAside DEF Index

LEMMA SearchInvInit == Init => SearchInv
<1> SUFFICES ASSUME Init
             PROVE  SearchInv
  OBVIOUS
<1>1. DOMAIN sea = Searchers /\ \A r \in Searchers : sea[r] = NoSearch
  BY DEF Init
<1> QED BY <1>1, NoSearchTyped DEF SearchInv, Searching, Undisturbed

LEMMA SearchInvStep == IndexInv /\ SearchInv /\ [Next]_vars => SearchInv'
<1> SUFFICES ASSUME IndexInv, SearchInv, [Next]_vars
             PROVE  SearchInv'
  OBVIOUS
<1>1. Store(db) /\ Sequential(manifest)
  BY DEF IndexInv, IndexerTypes
<1>2. CASE UNCHANGED vars
  <2>1. Embeds(db, db')
    BY <1>1, <1>2, EmbedsNothing DEF vars
  <2> QED BY <1>1, <1>2, <2>1, SearchesGoOn DEF vars, segvars
<1>3. ASSUME NEW s \in Sessions, NEW n \in 1..2, Grow(s, n) \/ Rewrite(s, n)
      PROVE  SearchInv'
  BY <1>1, <1>3, IngestCommits, IngestKeepsSearches
<1>4. ASSUME NEW p \in Indexers,
             \/ Index(p) \/ FindStale(p) \/ CrashIndexer(p)
             \/ \E full \in BOOLEAN : OpenSegments(p, full)
      PROVE  SearchInv'
  BY <1>4, IndexersKeepSearches
<1>5. ASSUME NEW r \in Searchers, Search(r)
      PROVE  SearchInv'
  BY <1>5, OpenSearchStep, OpenShardsStep, FetchRowsStep, AnswerStep DEF Search
<1>6. ASSUME NEW e \in Embedders,
             \/ Embed(e) \/ CrashEmbedder(e)
             \/ \E rebuild \in BOOLEAN : OpenVectors(e, rebuild)
      PROVE  SearchInv'
  <2>1. EmbedAside
    BY <1>1, <1>6, EmbedderStaysAside
  <2>2. {"stolen", "dropped"} \cap torn \subseteq torn'
    BY <2>1 DEF EmbedAside
  <2> QED BY <1>1, <2>1, <2>2, SearchesGoOn DEF EmbedAside
<1> QED BY <1>2, <1>3, <1>4, <1>5, <1>6 DEF Next

(***************************************************************************)
(* A search finds every turn that stayed from its first step to its last,  *)
(* however many indexers, ingests and deaths fall between its steps.       *)
(***************************************************************************)
THEOREM SearchesFindTurns == Spec => []SearchFindsTurns
<1>1. Spec => [](IndexInv /\ SearchInv)
  BY IndexInvInit, IndexInvStep, SearchInvInit, SearchInvStep, PTL DEF Spec
<1>2. SearchInv => SearchFindsTurns
  BY DEF SearchInv, Searching, Undisturbed, Following, Settled, SearchFindsTurns
<1> QED BY <1>1, <1>2, PTL

----------------------------------------------------------------------------
(* Vectors.                                                                *)

\* The segments of meta.json are numbered from 1.
Counting(m) ==
    /\ m \in [segments : Seq(Nat), last : Nat]
    /\ \A i \in 1..Len(m.segments) : m.segments[i] = i

NextName(m) == Len(m.segments) + 1

LEMMA CountingNames ==
    ASSUME NEW m, Counting(m)
    PROVE  /\ NextName(m) \in Nat /\ NextName(m) \notin Range(m.segments)
           /\ IsInjective(m.segments)
<1>1. /\ Len(m.segments) \in Nat /\ DOMAIN m.segments = 1..Len(m.segments)
      /\ \A i \in 1..Len(m.segments) : m.segments[i] = i
  BY DEF Counting
<1>2. NextName(m) \notin Range(m.segments)
  <2>1. \A f \in Range(m.segments) : f \in 1..Len(m.segments)
    BY <1>1 DEF Range
  <2> QED BY <1>1, <2>1 DEF NextName
<1>3. IsInjective(m.segments)
  BY <1>1 DEF IsInjective
<1> QED BY <1>1, <1>2, <1>3 DEF NextName

LEMMA CountingAppended ==
    ASSUME NEW m, Counting(m), NEW last \in Nat
    PROVE  LET more == [segments |-> Append(m.segments, NextName(m)), last |-> last]
           IN  /\ Counting(more)
               /\ Range(more.segments) = Range(m.segments) \cup {NextName(m)}
<1> DEFINE t == Append(m.segments, NextName(m))
           more == [segments |-> t, last |-> last]
<1>1. /\ m.segments \in Seq(Nat) /\ Len(m.segments) \in Nat
      /\ DOMAIN m.segments = 1..Len(m.segments)
      /\ \A i \in 1..Len(m.segments) : m.segments[i] = i
  BY DEF Counting
<1>2. /\ t \in Seq(Nat) /\ Len(t) = Len(m.segments) + 1 /\ DOMAIN t = 1..(Len(m.segments) + 1)
      /\ t[Len(m.segments) + 1] = NextName(m)
      /\ \A i \in 1..Len(m.segments) : t[i] = m.segments[i]
  BY <1>1 DEF NextName
<1> HIDE DEF t
<1>3. more \in [segments : Seq(Nat), last : Nat] /\ more.segments = t
  BY <1>2
<1>4. \A i \in 1..(Len(m.segments) + 1) : i \in 1..Len(m.segments) \/ i = Len(m.segments) + 1
  BY <1>1
<1> HIDE DEF more
<1>5. \A i \in 1..(Len(m.segments) + 1) : t[i] = i
  BY <1>1, <1>2, <1>4 DEF NextName
<1>6. Counting(more)
  BY <1>2, <1>3, <1>5 DEF Counting
<1>7. Range(t) = Range(m.segments) \cup {NextName(m)}
  <2>1. Range(t) = 1..(Len(m.segments) + 1)
    BY <1>2, <1>5 DEF Range
  <2>2. Range(m.segments) = 1..Len(m.segments)
    BY <1>1 DEF Range
  <2>3. 1..(Len(m.segments) + 1) = (1..Len(m.segments)) \cup {Len(m.segments) + 1}
    BY <1>1
  <2> QED BY <2>1, <2>2, <2>3 DEF NextName
<1> QED BY <1>3, <1>6, <1>7 DEF more, t

EmbedderRun(run) ==
    /\ DOMAIN run = {"pc", "meta", "after", "batch", "rows", "chunks", "more"}
    /\ Counting(run.meta)
    /\ Numbered(run.batch) /\ Numbered(run.rows) /\ Numbered(run.chunks)
    /\ run.rows = [id \in DOMAIN run.rows |-> run.rows[id]]
    /\ run.pc = "chunk" => DOMAIN run.batch # {}
    /\ run.pc \in {"write", "meta", "mark"} => DOMAIN run.rows # {}
    /\ run.pc \in {"idle", "clear", "forget", "reset", "unmark", "heal"} =>
         DOMAIN run.batch = {} /\ DOMAIN run.rows = {} /\ DOMAIN run.chunks = {}

EmbedderTypes ==
    /\ Counting(vecmeta)
    /\ DOMAIN emb = Embedders
    /\ \A e \in Embedders : EmbedderRun(emb[e])
    /\ \A n \in DOMAIN vecfiles : Numbered(vecfiles[n])

\* The list an embedder goes by is the one on disk, until it writes a new one.
GoesBy(e) ==
    LET run == emb[e]
    IN  /\ run.pc \notin {"idle", "forget", "meta"} => run.meta = vecmeta
        /\ run.pc \in {"forget", "reset", "unmark"} => run.meta = NoMeta
        /\ run.pc = "unmark" => DOMAIN db.chunks = {}

Current(id) == id \in DOMAIN db.turns \ blurred

\* What it has in hand is what the turns say, and every turn has its chunk.
InHand(e) ==
    LET run == emb[e]
    IN  /\ \A id \in DOMAIN run.batch : Current(id) => run.batch[id] = db.turns[id].text
        /\ \A c \in DOMAIN run.chunks :
             /\ c \in DOMAIN db.chunks
             /\ Current(db.chunks[c]) => run.chunks[c] = db.turns[db.chunks[c]].text
        /\ \A id \in DOMAIN run.rows : \E c \in DOMAIN run.chunks : db.chunks[c] = id

\* The file is written before it is listed, and listed before a turn is marked.
OnDisk(e) ==
    LET run == emb[e]
    IN  /\ run.pc = "meta" =>
             /\ run.meta = [segments |-> Append(vecmeta.segments, NextName(vecmeta)),
                            last |-> Max({vecmeta.last, LastId(run.chunks)})]
             /\ NextName(vecmeta) \in DOMAIN vecfiles
             /\ vecfiles[NextName(vecmeta)] = run.chunks
        /\ run.pc = "mark" => \E n \in Listed : vecfiles[n] = run.chunks

Bounded ==
    /\ \A n \in Listed : \A c \in DOMAIN vecfiles[n] : c <= vecmeta.last
    /\ vecmeta.last \in DOMAIN db.chunks \cup {0}

Alone == \A e, f \in Embedders : emb[e].pc # "idle" /\ emb[f].pc # "idle" => e = f

VectorInv ==
    /\ Store(db)
    /\ EmbedderTypes
    /\ "beside" \notin torn =>
         /\ Alone /\ Bounded
         /\ \A e \in Embedders : GoesBy(e) /\ InHand(e) /\ OnDisk(e)
    /\ VectorsKeepTheirTurn
    /\ EmbeddedHasVector

LEMMA EmbeddersTyped ==
    ASSUME EmbedderTypes, NEW e \in Embedders, NEW run, EmbedderRun(run),
           emb' = [emb EXCEPT ![e] = run]
    PROVE  /\ DOMAIN emb' = Embedders
           /\ emb'[e] = run
           /\ \A f \in Embedders \ {e} : emb'[f] = emb[f]
           /\ \A f \in Embedders : EmbedderRun(emb'[f])
  BY DEF EmbedderTypes

LEMMA NoBackfillTyped == EmbedderRun(NoBackfill) /\ NoBackfill.pc = "idle"
<1>1. NoMeta \in [segments : Seq(Nat), last : Nat] /\ Len(NoMeta.segments) = 0
  BY DEF NoMeta
<1>2. Counting(NoMeta)
  BY <1>1 DEF Counting
<1>3. /\ DOMAIN NoBackfill = {"pc", "meta", "after", "batch", "rows", "chunks", "more"}
      /\ NoBackfill.pc = "idle" /\ NoBackfill.meta = NoMeta
      /\ NoBackfill.batch = <<>> /\ NoBackfill.rows = <<>> /\ NoBackfill.chunks = <<>>
  BY DEF NoBackfill
<1>4. DOMAIN <<>> = {} /\ Numbered(<<>>) /\ <<>> = [id \in {} |-> <<>>[id]]
  BY DEF Numbered
<1> QED BY <1>2, <1>3, <1>4 DEF EmbedderRun

\* A step of e, beside which nobody embeds.
LEMMA OneEmbeds ==
    ASSUME VectorInv, NEW e \in Embedders, NEW run, EmbedderRun(run),
           emb' = [emb EXCEPT ![e] = run],
           Store(db'), Counting(vecmeta'), \A n \in DOMAIN vecfiles' : Numbered(vecfiles'[n]),
           "beside" \notin torn' =>
             /\ \A f \in Embedders \ {e} : emb[f].pc = "idle"
             /\ Bounded' /\ GoesBy(e)' /\ InHand(e)' /\ OnDisk(e)',
           VectorsKeepTheirTurn', EmbeddedHasVector'
    PROVE  VectorInv'
<1>1. /\ DOMAIN emb' = Embedders /\ emb'[e] = run
      /\ \A f \in Embedders \ {e} : emb'[f] = emb[f]
      /\ \A f \in Embedders : EmbedderRun(emb'[f])
  BY EmbeddersTyped DEF VectorInv
<1>2. EmbedderTypes'
  BY <1>1 DEF EmbedderTypes
<1>3. Store(db)'
  BY DEF Store
<1>4. ASSUME "beside" \notin torn'
      PROVE  Alone' /\ \A f \in Embedders : GoesBy(f)' /\ InHand(f)' /\ OnDisk(f)'
  <2>1. ASSUME NEW f \in Embedders \ {e}
        PROVE  GoesBy(f)' /\ InHand(f)' /\ OnDisk(f)'
    <3>1. emb'[f].pc = "idle" /\ EmbedderRun(emb'[f])
      BY <1>1, <1>4
    <3>2. DOMAIN emb'[f].batch = {} /\ DOMAIN emb'[f].rows = {} /\ DOMAIN emb'[f].chunks = {}
      BY <3>1 DEF EmbedderRun
    <3> QED BY <3>1, <3>2 DEF GoesBy, InHand, OnDisk
  <2>2. Alone'
    BY <1>1, <1>4 DEF Alone
  <2> QED BY <1>4, <2>1, <2>2
<1> QED BY <1>2, <1>3, <1>4 DEF VectorInv

LEMMA NobodyBeside ==
    ASSUME VectorInv, "beside" \notin torn, NEW e \in Embedders, emb[e].pc # "idle"
    PROVE  /\ \A f \in Embedders \ {e} : emb[f].pc = "idle"
           /\ Bounded /\ GoesBy(e) /\ InHand(e) /\ OnDisk(e)
  BY DEF VectorInv, Alone

VectorOf(id) ==
    \E n \in Listed, c \in DOMAIN db.chunks :
        /\ db.chunks[c] = id
        /\ c \in DOMAIN vecfiles[n]
        /\ vecfiles[n][c] = db.turns[id].text

Excused == torn \cap {"beside", "cleared"} # {} \/ InClearing

LEMMA EmbeddedMeaning ==
    EmbeddedHasVector <=>
        (~Excused => \A id \in DOMAIN db.turns :
            Current(id) /\ db.turns[id].embedded = Embedded => VectorOf(id))
  BY DEF EmbeddedHasVector, Excused, Current, VectorOf

LEMMA KeepMeaning ==
    VectorsKeepTheirTurn <=>
        ("beside" \notin torn => \A n \in Listed : \A c \in DOMAIN vecfiles[n] \cap DOMAIN db.chunks :
            Current(db.chunks[c]) => vecfiles[n][c] = db.turns[db.chunks[c]].text)
  BY DEF VectorsKeepTheirTurn, Current

\* A run opens, takes a batch, or dies.
LEMMA EmbedderMoves ==
    ASSUME VectorInv, NEW e \in Embedders, NEW run, EmbedderRun(run),
           emb' = [emb EXCEPT ![e] = run], UNCHANGED <<db, vecfiles, vecmeta, blurred>>,
           "beside" \notin torn' =>
             /\ "beside" \notin torn
             /\ \A f \in Embedders \ {e} : emb[f].pc = "idle"
             /\ GoesBy(e)' /\ InHand(e)' /\ OnDisk(e)',
           Excused => Excused'
    PROVE  VectorInv'
<1>1. /\ Store(db') /\ Counting(vecmeta')
      /\ \A n \in DOMAIN vecfiles' : Numbered(vecfiles'[n])
  BY DEF VectorInv, EmbedderTypes
<1>2. Listed' = Listed
  BY DEF Listed
<1>3. "beside" \notin torn' => Bounded'
  BY <1>2 DEF VectorInv, Bounded
<1>4. VectorsKeepTheirTurn'
  BY <1>2 DEF VectorInv, VectorsKeepTheirTurn
<1>5. EmbeddedHasVector'
  <2>1. SUFFICES ASSUME ~Excused', NEW id \in DOMAIN db.turns, Current(id)',
                        db'.turns[id].embedded = Embedded
                 PROVE  VectorOf(id)'
    BY DEF EmbeddedHasVector, Excused, Current, VectorOf
  <2>2. Current(id) /\ db.turns[id].embedded = Embedded
    BY <2>1 DEF Current
  <2>3. VectorOf(id)
    BY <2>1, <2>2, EmbeddedMeaning DEF VectorInv
  <2> QED BY <1>2, <2>3 DEF VectorOf
<1> QED BY <1>1, <1>3, <1>4, <1>5, OneEmbeds

LEMMA ExcuseStays ==
    ASSUME NEW e \in Embedders, \A f \in Embedders \ {e} : emb'[f] = emb[f],
           torn \cap {"beside", "cleared"} \subseteq torn',
           emb[e].pc \in {"forget", "reset", "unmark"} =>
             emb'[e].pc \in {"forget", "reset", "unmark"} \/ "cleared" \in torn',
           Excused
    PROVE  Excused'
  BY DEF Excused, InClearing

LEMMA OpenVectorsStep ==
    ASSUME VectorInv, NEW e \in Embedders, NEW rebuild, OpenVectors(e, rebuild)
    PROVE  VectorInv'
<1> DEFINE run == [NoBackfill EXCEPT !.pc = IF rebuild THEN "clear" ELSE "heal", !.meta = vecmeta]
<1>1. /\ emb[e].pc = "idle" /\ emb' = [emb EXCEPT ![e] = run]
      /\ torn' = IF Beside(e) THEN torn \cup {"beside"} ELSE torn
      /\ UNCHANGED <<db, vecfiles, vecmeta, blurred>>
  BY DEF OpenVectors
<1>2. /\ DOMAIN NoBackfill = {"pc", "meta", "after", "batch", "rows", "chunks", "more"}
      /\ NoBackfill.batch = <<>> /\ NoBackfill.rows = <<>> /\ NoBackfill.chunks = <<>>
  BY DEF NoBackfill
<1>3. /\ DOMAIN run = {"pc", "meta", "after", "batch", "rows", "chunks", "more"}
      /\ run.pc \in {"clear", "heal"} /\ run.meta = vecmeta
      /\ run.batch = <<>> /\ run.rows = <<>> /\ run.chunks = <<>>
  BY <1>2
<1> HIDE DEF run
<1>4. DOMAIN <<>> = {} /\ Numbered(<<>>) /\ <<>> = [id \in {} |-> <<>>[id]]
  BY DEF Numbered
<1>5. EmbedderRun(run)
  BY <1>3, <1>4 DEF EmbedderRun, VectorInv, EmbedderTypes
<1>6. emb'[e] = run /\ \A f \in Embedders \ {e} : emb'[f] = emb[f]
  BY <1>1, <1>5, EmbeddersTyped DEF VectorInv
<1>7. Excused => Excused'
  BY <1>1, <1>6, ExcuseStays
<1>8. GoesBy(e)' /\ InHand(e)' /\ OnDisk(e)'
  BY <1>1, <1>3, <1>4, <1>6 DEF GoesBy, InHand, OnDisk
<1>9. "beside" \notin torn' => "beside" \notin torn /\ \A f \in Embedders \ {e} : emb[f].pc = "idle"
  BY <1>1 DEF Beside
<1> QED BY <1>1, <1>5, <1>7, <1>8, <1>9, EmbedderMoves

LEMMA CrashEmbedderStep ==
    ASSUME VectorInv, NEW e \in Embedders, CrashEmbedder(e)
    PROVE  VectorInv'
<1>1. /\ emb[e].pc # "idle" /\ emb' = [emb EXCEPT ![e] = NoBackfill]
      /\ torn' = IF emb[e].pc \in {"forget", "reset", "unmark"} THEN torn \cup {"cleared"}
                 ELSE torn
      /\ UNCHANGED <<db, vecfiles, vecmeta, blurred>>
  BY DEF CrashEmbedder
<1>2. emb'[e] = NoBackfill /\ \A f \in Embedders \ {e} : emb'[f] = emb[f]
  BY <1>1, NoBackfillTyped, EmbeddersTyped DEF VectorInv
<1>3. Excused => Excused'
  BY <1>1, <1>2, ExcuseStays
<1>4. GoesBy(e)' /\ InHand(e)' /\ OnDisk(e)'
  BY <1>2, NoBackfillTyped DEF GoesBy, InHand, OnDisk, EmbedderRun
<1>5. "beside" \notin torn' => "beside" \notin torn /\ \A f \in Embedders \ {e} : emb[f].pc = "idle"
  BY <1>1, NobodyBeside
<1> QED BY <1>1, <1>3, <1>4, <1>5, NoBackfillTyped, EmbedderMoves

LEMMA FetchBatchStep ==
    ASSUME VectorInv, NEW e \in Embedders, FetchBatch(e)
    PROVE  VectorInv'
<1> DEFINE S == PendingEmbed(db, emb[e].after)
           ids == Lowest(S, BatchTurns)
           batch == [id \in ids |-> db.turns[id].text]
           run == [emb[e] EXCEPT !.pc = "chunk", !.after = Max(ids), !.batch = batch]
<1>1. /\ emb[e].pc = "fetch" /\ ids # {} /\ emb' = [emb EXCEPT ![e] = run]
      /\ UNCHANGED <<db, vecfiles, vecmeta, blurred, torn>>
  BY Zenon DEF FetchBatch
<1>2. EmbedderRun(emb[e]) /\ Store(db)
  BY DEF VectorInv, EmbedderTypes
<1>3. Numbered(batch) /\ DOMAIN batch = ids
  <2>1. DOMAIN batch = ids /\ S \in SUBSET DOMAIN db.turns
    BY DEF PendingEmbed
  <2>2. BatchTurns \in Nat \ {0}
    BY CorpusAssumption
  <2> HIDE DEF S, batch
  <2> QED BY <1>2, <2>1, <2>2, BatchReachesItsLast
<1>4. \A id \in ids : batch[id] = db.turns[id].text
  OBVIOUS
<1> HIDE DEF batch, ids
<1>5. /\ DOMAIN run = {"pc", "meta", "after", "batch", "rows", "chunks", "more"}
      /\ run.pc = "chunk" /\ run.meta = emb[e].meta /\ run.batch = batch
      /\ run.rows = emb[e].rows /\ run.chunks = emb[e].chunks
  BY <1>2 DEF EmbedderRun
<1> HIDE DEF run
<1>6. EmbedderRun(run)
  BY <1>1, <1>2, <1>3, <1>5 DEF EmbedderRun
<1>7. emb'[e] = run /\ \A f \in Embedders \ {e} : emb'[f] = emb[f]
  BY <1>1, <1>6, EmbeddersTyped DEF VectorInv
<1>8. Excused => Excused'
  BY <1>1, <1>7, ExcuseStays
<1>9. ASSUME "beside" \notin torn'
      PROVE  /\ \A f \in Embedders \ {e} : emb[f].pc = "idle"
             /\ GoesBy(e)' /\ InHand(e)' /\ OnDisk(e)'
  <2>1. /\ \A f \in Embedders \ {e} : emb[f].pc = "idle"
        /\ GoesBy(e) /\ InHand(e) /\ OnDisk(e)
    BY <1>1, <1>9, NobodyBeside
  <2>2. GoesBy(e)' /\ OnDisk(e)'
    BY <1>1, <1>5, <1>7, <2>1 DEF GoesBy, OnDisk
  <2>3. InHand(e)'
    BY <1>1, <1>3, <1>4, <1>5, <1>7, <2>1 DEF InHand, Current
  <2> QED BY <2>1, <2>2, <2>3
<1> QED BY <1>1, <1>6, <1>8, <1>9, EmbedderMoves

\* A step of a run that goes on; beside another, nothing is promised.
LEMMA RunGoesOn ==
    ASSUME VectorInv, NEW e \in Embedders, emb[e].pc # "idle",
           NEW run, EmbedderRun(run), emb' = [emb EXCEPT ![e] = run],
           Store(db'), Counting(vecmeta'), \A n \in DOMAIN vecfiles' : Numbered(vecfiles'[n]),
           "beside" \in torn => "beside" \in torn',
           "beside" \notin torn' =>
             /\ Bounded' /\ GoesBy(e)' /\ InHand(e)' /\ OnDisk(e)'
             /\ VectorsKeepTheirTurn' /\ EmbeddedHasVector'
    PROVE  VectorInv'
<1>1. "beside" \notin torn' => \A f \in Embedders \ {e} : emb[f].pc = "idle"
  BY NobodyBeside
<1>2. "beside" \in torn' => VectorsKeepTheirTurn' /\ EmbeddedHasVector'
  BY DEF VectorsKeepTheirTurn, EmbeddedHasVector
<1> QED BY <1>1, <1>2, OneEmbeds

\* The files of a rebuild go first; until the marks are gone too it is clearing.
LEMMA ClearFilesStep ==
    ASSUME VectorInv, NEW e \in Embedders, ClearFiles(e)
    PROVE  VectorInv'
<1> DEFINE run == [emb[e] EXCEPT !.pc = "forget", !.meta = NoMeta]
           rows == Without(vecfiles, Range(emb[e].meta.segments))
<1>1. /\ emb[e].pc = "clear" /\ emb' = [emb EXCEPT ![e] = run] /\ vecfiles' = rows
      /\ UNCHANGED <<db, vecmeta, blurred, torn>>
  BY DEF ClearFiles
<1>2. EmbedderRun(emb[e]) /\ Store(db) /\ Counting(vecmeta)
  BY DEF VectorInv, EmbedderTypes
<1>3. /\ DOMAIN run = {"pc", "meta", "after", "batch", "rows", "chunks", "more"}
      /\ run.pc = "forget" /\ run.meta = NoMeta /\ run.batch = emb[e].batch
      /\ run.rows = emb[e].rows /\ run.chunks = emb[e].chunks
  BY <1>2 DEF EmbedderRun
<1> HIDE DEF run
<1>4. Counting(NoMeta)
  BY NoBackfillTyped DEF EmbedderRun, NoBackfill
<1>5. EmbedderRun(run)
  BY <1>1, <1>2, <1>3, <1>4 DEF EmbedderRun
<1>6. /\ DOMAIN rows = DOMAIN vecfiles \ Range(emb[e].meta.segments)
      /\ \A n \in DOMAIN rows : rows[n] = vecfiles[n]
  BY DEF Without
<1> HIDE DEF rows
<1>7. \A n \in DOMAIN vecfiles' : Numbered(vecfiles'[n])
  BY <1>1, <1>6 DEF VectorInv, EmbedderTypes
<1>8. emb'[e] = run
  BY <1>1, <1>5, EmbeddersTyped DEF VectorInv
<1>9. ASSUME "beside" \notin torn'
      PROVE  /\ Bounded' /\ GoesBy(e)' /\ InHand(e)' /\ OnDisk(e)'
             /\ VectorsKeepTheirTurn' /\ EmbeddedHasVector'
  <2>1. Bounded /\ GoesBy(e)
    BY <1>1, <1>9, NobodyBeside
  <2>2. Listed' = {}
    BY <1>1, <1>6, <2>1 DEF GoesBy, Listed
  <2>3. Bounded'
    BY <1>1, <2>1, <2>2 DEF Bounded
  <2>4. GoesBy(e)' /\ InHand(e)' /\ OnDisk(e)'
    BY <1>1, <1>2, <1>3, <1>8 DEF GoesBy, InHand, OnDisk, EmbedderRun
  <2>5. VectorsKeepTheirTurn'
    BY <2>2 DEF VectorsKeepTheirTurn
  <2>6. EmbeddedHasVector'
    BY <1>3, <1>8 DEF EmbeddedHasVector, InClearing
  <2> QED BY <2>3, <2>4, <2>5, <2>6
<1> QED BY <1>1, <1>2, <1>5, <1>7, <1>9, RunGoesOn

LEMMA ClearMetaStep ==
    ASSUME VectorInv, NEW e \in Embedders, ClearMeta(e)
    PROVE  VectorInv'
<1> DEFINE run == [emb[e] EXCEPT !.pc = "reset"]
<1>1. /\ emb[e].pc = "forget" /\ emb' = [emb EXCEPT ![e] = run] /\ vecmeta' = emb[e].meta
      /\ UNCHANGED <<db, vecfiles, blurred, torn>>
  BY DEF ClearMeta
<1>2. EmbedderRun(emb[e]) /\ Store(db)
  BY DEF VectorInv, EmbedderTypes
<1>3. /\ DOMAIN run = {"pc", "meta", "after", "batch", "rows", "chunks", "more"}
      /\ run.pc = "reset" /\ run.meta = emb[e].meta /\ run.batch = emb[e].batch
      /\ run.rows = emb[e].rows /\ run.chunks = emb[e].chunks
  BY <1>2 DEF EmbedderRun
<1> HIDE DEF run
<1>4. EmbedderRun(run) /\ Counting(vecmeta')
  BY <1>1, <1>2, <1>3 DEF EmbedderRun
<1>5. \A n \in DOMAIN vecfiles' : Numbered(vecfiles'[n])
  BY <1>1 DEF VectorInv, EmbedderTypes
<1>6. emb'[e] = run
  BY <1>1, <1>4, EmbeddersTyped DEF VectorInv
<1>7. ASSUME "beside" \notin torn'
      PROVE  /\ Bounded' /\ GoesBy(e)' /\ InHand(e)' /\ OnDisk(e)'
             /\ VectorsKeepTheirTurn' /\ EmbeddedHasVector'
  <2>1. vecmeta' = NoMeta
    <3>1. GoesBy(e)
      BY <1>1, <1>7, NobodyBeside
    <3> QED BY <1>1, <3>1 DEF GoesBy
  <2>2. vecmeta'.last = 0 /\ Range(vecmeta'.segments) = {}
    BY <2>1 DEF NoMeta, Range
  <2>3. Listed' = {}
    BY <2>2 DEF Listed
  <2>4. Bounded'
    BY <2>2, <2>3 DEF Bounded
  <2>5. GoesBy(e)' /\ InHand(e)' /\ OnDisk(e)'
    BY <1>1, <1>2, <1>3, <1>6, <2>1 DEF GoesBy, InHand, OnDisk, EmbedderRun
  <2>6. VectorsKeepTheirTurn'
    BY <2>3 DEF VectorsKeepTheirTurn
  <2>7. EmbeddedHasVector'
    BY <1>3, <1>6 DEF EmbeddedHasVector, InClearing
  <2> QED BY <2>4, <2>5, <2>6, <2>7
<1> QED BY <1>1, <1>2, <1>4, <1>5, <1>7, RunGoesOn

\* Then the chunks, and the marks: no turn is embedded, and no segment is listed.
LEMMA ResetEmbeddingsStep ==
    ASSUME VectorInv, NEW e \in Embedders, ResetEmbeddings(e)
    PROVE  VectorInv'
<1> DEFINE at(pc) == [emb[e] EXCEPT !.pc = pc]
<1>1. PICK pc \in {"unmark", "heal"} :
        /\ emb[e].pc \in {"reset", "unmark"} /\ emb' = [emb EXCEPT ![e] = at(pc)]
        /\ pc = IF emb[e].pc = "reset" THEN "unmark" ELSE "heal"
  BY DEF ResetEmbeddings
<1>2. /\ db' = IF emb[e].pc = "reset" THEN ResetChunks(db) ELSE ResetMarks(db)
      /\ blurred' = IF emb[e].pc = "unmark" THEN {} ELSE blurred
      /\ torn' = IF emb[e].pc = "unmark" THEN torn \ {"cleared"} ELSE torn
      /\ UNCHANGED <<vecfiles, vecmeta>>
  BY DEF ResetEmbeddings
<1>3. EmbedderRun(emb[e]) /\ Store(db)
  BY DEF VectorInv, EmbedderTypes
<1> DEFINE run == at(pc)
<1>4. /\ DOMAIN run = {"pc", "meta", "after", "batch", "rows", "chunks", "more"}
      /\ run.pc = pc /\ run.meta = emb[e].meta /\ run.batch = emb[e].batch
      /\ run.rows = emb[e].rows /\ run.chunks = emb[e].chunks
  BY <1>3 DEF EmbedderRun
<1>5. emb' = [emb EXCEPT ![e] = run]
  BY <1>1
<1> HIDE DEF run, at
<1>6. EmbedderRun(run)
  BY <1>1, <1>3, <1>4 DEF EmbedderRun
<1>7. Counting(vecmeta') /\ \A n \in DOMAIN vecfiles' : Numbered(vecfiles'[n])
  BY <1>2 DEF VectorInv, EmbedderTypes
<1>8. emb'[e] = run
  BY <1>5, <1>6, EmbeddersTyped DEF VectorInv
<1>9. /\ emb[e].pc = "reset" => Store(db') /\ db'.turns = db.turns /\ DOMAIN db'.chunks = {}
      /\ emb[e].pc = "unmark" => /\ Store(db') /\ db'.chunks = db.chunks
                                 /\ DOMAIN db'.turns = DOMAIN db.turns
                                 /\ \A id \in DOMAIN db.turns : db'.turns[id].embedded = Pending
  BY <1>2, <1>3, ResetChunksEmbeds, ResetMarksEmbeds DEF Embeds
<1>10. ASSUME "beside" \notin torn'
       PROVE  /\ Bounded' /\ GoesBy(e)' /\ InHand(e)' /\ OnDisk(e)'
              /\ VectorsKeepTheirTurn' /\ EmbeddedHasVector'
  <2>1. GoesBy(e)
    BY <1>1, <1>2, <1>10, NobodyBeside
  <2>2. vecmeta = NoMeta /\ emb[e].meta = NoMeta
    BY <1>1, <2>1 DEF GoesBy
  <2>3. vecmeta'.last = 0 /\ Range(vecmeta'.segments) = {}
    BY <1>2, <2>2 DEF NoMeta, Range
  <2>4. Listed' = {}
    BY <2>3 DEF Listed
  <2>5. Bounded'
    BY <2>3, <2>4 DEF Bounded
  <2>6. DOMAIN run.batch = {} /\ DOMAIN run.rows = {} /\ DOMAIN run.chunks = {}
    BY <1>1, <1>3, <1>4 DEF EmbedderRun
  <2>7. GoesBy(e)' /\ InHand(e)' /\ OnDisk(e)'
    BY <1>1, <1>2, <1>4, <1>8, <1>9, <2>2, <2>6 DEF GoesBy, InHand, OnDisk
  <2>8. VectorsKeepTheirTurn'
    BY <2>4 DEF VectorsKeepTheirTurn
  <2>9. EmbeddedHasVector'
    <3>1. CASE emb[e].pc = "reset"
      BY <1>1, <1>4, <1>8, <3>1 DEF EmbeddedHasVector, InClearing
    <3>2. CASE emb[e].pc = "unmark"
      BY <1>9, <3>2 DEF EmbeddedHasVector, Pending, Embedded
    <3> QED BY <1>1, <3>1, <3>2
  <2> QED BY <2>5, <2>7, <2>8, <2>9
<1>11. "beside" \in torn => "beside" \in torn'
  BY <1>2
<1> QED BY <1>1, <1>5, <1>6, <1>7, <1>9, <1>10, <1>11, RunGoesOn

\* The store changes its marks and loses chunks, of which none has a vector.
LEMMA StoreIsHealed ==
    ASSUME VectorInv, Embeds(db, db'), UNCHANGED <<vecfiles, vecmeta, blurred>>,
           Excused => Excused', "beside" \notin torn' => "beside" \notin torn,
           \A id \in DOMAIN db.turns :
             db'.turns[id].embedded = Embedded => db.turns[id].embedded = Embedded,
           DOMAIN db'.chunks \subseteq DOMAIN db.chunks,
           "beside" \notin torn' =>
             \A c \in DOMAIN db.chunks : c <= vecmeta.last => c \in DOMAIN db'.chunks,
           \A c \in DOMAIN db'.chunks : db'.chunks[c] = db.chunks[c]
    PROVE  /\ "beside" \notin torn' => Bounded'
           /\ VectorsKeepTheirTurn' /\ EmbeddedHasVector'
<1>1. Listed' = Listed
  BY DEF Listed
<1>2. DOMAIN db'.turns = DOMAIN db.turns /\ \A id \in DOMAIN db.turns : db'.turns[id].text = db.turns[id].text
  BY DEF Embeds
<1>3. "beside" \notin torn' => Bounded /\ vecmeta.last \in Nat
  BY DEF VectorInv, EmbedderTypes, Counting
<1>4. "beside" \notin torn' => Bounded'
  BY <1>1, <1>3 DEF Bounded
<1>5. VectorsKeepTheirTurn'
  BY <1>1, <1>2 DEF VectorInv, VectorsKeepTheirTurn
<1>6. EmbeddedHasVector'
  <2>1. SUFFICES ASSUME ~Excused', NEW id \in DOMAIN db.turns, Current(id)',
                        db'.turns[id].embedded = Embedded
                 PROVE  VectorOf(id)'
    BY <1>2 DEF EmbeddedHasVector, Excused, Current, VectorOf
  <2>2. Current(id) /\ db.turns[id].embedded = Embedded
    BY <2>1 DEF Current
  <2>3. VectorOf(id)
    BY <2>1, <2>2, EmbeddedMeaning DEF VectorInv
  <2>4. "beside" \notin torn'
    BY <2>1 DEF Excused
  <2>5. PICK n \in Listed, c \in DOMAIN db.chunks :
          db.chunks[c] = id /\ c \in DOMAIN vecfiles[n] /\ vecfiles[n][c] = db.turns[id].text
    BY <2>3 DEF VectorOf
  <2>6. c \in DOMAIN db'.chunks /\ db'.chunks[c] = id
    BY <1>3, <2>4, <2>5 DEF Bounded
  <2> QED BY <1>1, <1>2, <2>5, <2>6 DEF VectorOf
<1> QED BY <1>4, <1>5, <1>6

LEMMA HealStep ==
    ASSUME VectorInv, NEW e \in Embedders, Heal(e)
    PROVE  VectorInv'
<1> DEFINE run == [emb[e] EXCEPT !.pc = "fetch"]
           last == emb[e].meta.last
<1>1. /\ emb[e].pc = "heal" /\ emb' = [emb EXCEPT ![e] = run]
      /\ db' = MarkPolicySkips(DropOrphanChunks(db, last))
      /\ UNCHANGED <<vecfiles, vecmeta, blurred, torn>>
  BY DEF Heal
<1>2. EmbedderRun(emb[e]) /\ Store(db)
  BY DEF VectorInv, EmbedderTypes
<1>3. /\ DOMAIN run = {"pc", "meta", "after", "batch", "rows", "chunks", "more"}
      /\ run.pc = "fetch" /\ run.meta = emb[e].meta /\ run.batch = emb[e].batch
      /\ run.rows = emb[e].rows /\ run.chunks = emb[e].chunks
  BY <1>2 DEF EmbedderRun
<1> HIDE DEF run
<1>4. EmbedderRun(run)
  BY <1>1, <1>2, <1>3 DEF EmbedderRun
<1>5. Counting(vecmeta') /\ \A n \in DOMAIN vecfiles' : Numbered(vecfiles'[n])
  BY <1>1 DEF VectorInv, EmbedderTypes
<1>6. emb'[e] = run /\ \A f \in Embedders \ {e} : emb'[f] = emb[f]
  BY <1>1, <1>4, EmbeddersTyped DEF VectorInv
<1>7. Excused => Excused'
  BY <1>1, <1>6, ExcuseStays
<1>8. /\ Embeds(db, db') /\ DOMAIN db'.chunks = {c \in DOMAIN db.chunks : c <= last}
      /\ \A c \in DOMAIN db'.chunks : db'.chunks[c] = db.chunks[c]
      /\ \A id \in DOMAIN db.turns :
           db'.turns[id].embedded = Embedded => db.turns[id].embedded = Embedded
  BY <1>1, <1>2, HealEmbeds
<1>9. "beside" \notin torn' => GoesBy(e)
  BY <1>1, NobodyBeside
<1>10. "beside" \notin torn' => last = vecmeta.last
  BY <1>1, <1>9 DEF GoesBy
<1> HIDE DEF last
<1>11. /\ "beside" \notin torn' => Bounded'
       /\ VectorsKeepTheirTurn' /\ EmbeddedHasVector'
  BY <1>1, <1>7, <1>8, <1>10, StoreIsHealed
<1>12. DOMAIN run.batch = {} /\ DOMAIN run.rows = {} /\ DOMAIN run.chunks = {}
  BY <1>1, <1>2, <1>3 DEF EmbedderRun
<1>13. "beside" \notin torn' => GoesBy(e)' /\ InHand(e)' /\ OnDisk(e)'
  BY <1>1, <1>3, <1>6, <1>9, <1>12 DEF GoesBy, InHand, OnDisk
<1>14. Store(db')
  BY <1>8 DEF Embeds
<1> QED BY <1>1, <1>4, <1>5, <1>11, <1>13, <1>14, RunGoesOn

LEMMA SweepStep ==
    ASSUME VectorInv, NEW e \in Embedders, Sweep(e)
    PROVE  VectorInv'
<1> DEFINE writing == [emb[e] EXCEPT !.pc = "write", !.more = FALSE]
<1>1. /\ emb[e].pc = "fetch" /\ db' = MarkPolicySkips(db)
      /\ \/ emb' = [emb EXCEPT ![e] = emb[e]]
         \/ emb' = [emb EXCEPT ![e] = NoBackfill]
         \/ emb[e].rows # <<>> /\ emb' = [emb EXCEPT ![e] = writing]
      /\ UNCHANGED <<vecfiles, vecmeta, blurred, torn>>
  BY DEF Sweep
<1>2. EmbedderRun(emb[e]) /\ Store(db)
  BY DEF VectorInv, EmbedderTypes
<1>3. /\ DOMAIN writing = {"pc", "meta", "after", "batch", "rows", "chunks", "more"}
      /\ writing.pc = "write" /\ writing.meta = emb[e].meta /\ writing.batch = emb[e].batch
      /\ writing.rows = emb[e].rows /\ writing.chunks = emb[e].chunks
  BY <1>2 DEF EmbedderRun
<1> HIDE DEF writing
<1>4. ASSUME emb[e].rows # <<>>
      PROVE  EmbedderRun(writing)
  <2>1. DOMAIN emb[e].rows # {}
    <3>1. emb[e].rows = [id \in DOMAIN emb[e].rows |-> emb[e].rows[id]]
      BY <1>2 DEF EmbedderRun
    <3> DEFINE rows == emb[e].rows
    <3>2. ASSUME DOMAIN rows = {}
          PROVE  rows = <<>>
      BY <3>1, <3>2
    <3> QED BY <1>4, <3>2
  <2> QED BY <1>2, <1>3, <2>1 DEF EmbedderRun
<1>5. PICK run : /\ EmbedderRun(run) /\ emb' = [emb EXCEPT ![e] = run]
                 /\ run \in {emb[e], NoBackfill, writing}
  BY <1>1, <1>2, <1>4, NoBackfillTyped
<1>6. Counting(vecmeta') /\ \A n \in DOMAIN vecfiles' : Numbered(vecfiles'[n])
  BY <1>1 DEF VectorInv, EmbedderTypes
<1>7. emb'[e] = run /\ \A f \in Embedders \ {e} : emb'[f] = emb[f]
  BY <1>5, EmbeddersTyped DEF VectorInv
<1>8. Excused => Excused'
  BY <1>1, <1>7, ExcuseStays
<1>9. /\ Embeds(db, db') /\ db'.chunks = db.chunks
      /\ \A id \in DOMAIN db.turns :
           db'.turns[id].embedded = Embedded => db.turns[id].embedded = Embedded
  BY <1>1, <1>2, MarkPolicySkipsEmbeds
<1>10. /\ "beside" \notin torn' => Bounded'
       /\ VectorsKeepTheirTurn' /\ EmbeddedHasVector'
  BY <1>1, <1>8, <1>9, StoreIsHealed
<1>11. ASSUME "beside" \notin torn'
       PROVE  GoesBy(e)' /\ InHand(e)' /\ OnDisk(e)'
  <2>1. GoesBy(e) /\ InHand(e)
    BY <1>1, <1>11, NobodyBeside
  <2>2. CASE run = NoBackfill
    BY <1>7, <2>2, NoBackfillTyped DEF GoesBy, InHand, OnDisk, EmbedderRun
  <2>3. CASE run \in {emb[e], writing}
    <3>1. /\ run.pc \in {"fetch", "write"} /\ run.meta = emb[e].meta
          /\ run.batch = emb[e].batch /\ run.rows = emb[e].rows /\ run.chunks = emb[e].chunks
      BY <1>1, <1>3, <2>3
    <3>2. GoesBy(e)' /\ OnDisk(e)'
      BY <1>1, <1>7, <2>1, <3>1 DEF GoesBy, OnDisk
    <3>3. InHand(e)'
      BY <1>1, <1>7, <1>9, <2>1, <3>1 DEF InHand, Current, Embeds
    <3> QED BY <3>2, <3>3
  <2> QED BY <1>5, <2>2, <2>3
<1>12. Store(db')
  BY <1>9 DEF Embeds
<1> QED BY <1>1, <1>5, <1>6, <1>10, <1>11, <1>12, RunGoesOn

\* What a turn of the batch adds: its row, and a chunk c.
Taken(run, c, more, pc) ==
    LET turn == Min(DOMAIN run.batch)
    IN  [run EXCEPT !.batch = Without(@, {turn}),
                    !.rows = With(run.rows, [x \in {turn} |-> run.batch[turn]]),
                    !.chunks = With(@, [x \in {c} |-> run.batch[turn]]),
                    !.more = more, !.pc = pc]

LEMMA ChunkIsTaken ==
    ASSUME NEW run, EmbedderRun(run), run.pc = "chunk", NEW c \in Nat \ {0},
           NEW more, NEW pc \in {"chunk", "write", "fetch"},
           Cardinality(DOMAIN run.batch) = 1 => pc # "chunk"
    PROVE  LET turn == Min(DOMAIN run.batch)
               next == Taken(run, c, more, pc)
           IN  /\ turn \in DOMAIN run.batch
               /\ EmbedderRun(next) /\ next.pc = pc /\ next.meta = run.meta
               /\ DOMAIN next.batch = DOMAIN run.batch \ {turn}
               /\ \A id \in DOMAIN next.batch : next.batch[id] = run.batch[id]
               /\ DOMAIN next.rows = DOMAIN run.rows \cup {turn}
               /\ DOMAIN next.chunks = DOMAIN run.chunks \cup {c}
               /\ next.chunks[c] = run.batch[turn]
               /\ \A b \in DOMAIN run.chunks \ {c} : next.chunks[b] = run.chunks[b]
<1> DEFINE turn == Min(DOMAIN run.batch)
           batch == Without(run.batch, {turn})
           row == [x \in {turn} |-> run.batch[turn]]
           chunk == [x \in {c} |-> run.batch[turn]]
           rows == With(run.rows, row)
           chunks == With(run.chunks, chunk)
           next == [run EXCEPT !.batch = batch, !.rows = rows, !.chunks = chunks,
                               !.more = more, !.pc = pc]
<1>1. /\ DOMAIN run = {"pc", "meta", "after", "batch", "rows", "chunks", "more"}
      /\ Counting(run.meta)
      /\ Numbered(run.batch) /\ Numbered(run.rows) /\ Numbered(run.chunks)
      /\ DOMAIN run.batch # {}
  BY DEF EmbedderRun
<1>2. turn \in DOMAIN run.batch /\ turn \in Nat \ {0}
  <2>1. DOMAIN run.batch \in SUBSET Nat
    BY <1>1, LastIdFound
  <2>2. turn \in DOMAIN run.batch
    BY <1>1, <2>1, MinFound
  <2> QED BY <1>1, <2>2, LastIdFound
<1>3. /\ Numbered(batch) /\ DOMAIN batch = DOMAIN run.batch \ {turn}
      /\ \A id \in DOMAIN batch : batch[id] = run.batch[id]
  <2>1. /\ Numbered(batch) /\ DOMAIN batch = DOMAIN run.batch \ {turn}
        /\ \A id \in DOMAIN run.batch \ {turn} : batch[id] = run.batch[id]
    BY <1>1, WithoutNumbered
  <2> HIDE DEF batch
  <2> QED BY <2>1
<1>4. /\ DOMAIN row = {turn} /\ DOMAIN chunk = {c} /\ chunk[c] = run.batch[turn]
      /\ Numbered(row) /\ Numbered(chunk)
  BY <1>2, OneRowNumbered
<1> HIDE DEF turn, batch, row, chunk
<1>5. /\ Numbered(rows) /\ DOMAIN rows = DOMAIN run.rows \cup {turn}
      /\ rows = [id \in DOMAIN rows |-> rows[id]]
  BY <1>1, <1>4, WithNumbered, WithRows DEF With
<1>6. /\ Numbered(chunks) /\ DOMAIN chunks = DOMAIN run.chunks \cup {c}
      /\ chunks[c] = run.batch[turn]
      /\ \A b \in DOMAIN run.chunks \ {c} : chunks[b] = run.chunks[b]
  <2>1. Numbered(chunks)
    BY <1>1, <1>4, WithNumbered
  <2>2. /\ DOMAIN chunks = DOMAIN run.chunks \cup DOMAIN chunk
        /\ \A b \in DOMAIN chunk : chunks[b] = chunk[b]
        /\ \A b \in DOMAIN run.chunks \ DOMAIN chunk : chunks[b] = run.chunks[b]
    BY WithRows
  <2> HIDE DEF chunks
  <2> QED BY <1>4, <2>1, <2>2
<1> HIDE DEF rows, chunks
<1>7. /\ DOMAIN next = {"pc", "meta", "after", "batch", "rows", "chunks", "more"}
      /\ next.pc = pc /\ next.meta = run.meta /\ next.batch = batch
      /\ next.rows = rows /\ next.chunks = chunks
  BY <1>1
<1> HIDE DEF next
<1>8. pc = "chunk" => DOMAIN batch # {}
  <2>1. Cardinality({turn}) = 1
    BY FS_Singleton
  <2> QED BY <1>2, <1>3, <2>1
<1>9. EmbedderRun(next)
  BY <1>1, <1>3, <1>5, <1>6, <1>7, <1>8 DEF EmbedderRun
<1>10. Taken(run, c, more, pc) = next
  BY DEF Taken, next, turn, batch, row, chunk, rows, chunks
<1> QED BY <1>2, <1>3, <1>5, <1>6, <1>7, <1>9, <1>10 DEF turn

LEMMA ChunkTurnStep ==
    ASSUME VectorInv, NEW e \in Embedders, ChunkTurn(e)
    PROVE  VectorInv'
<1> DEFINE old == emb[e]
           turn == Min(DOMAIN old.batch)
           new == InsertChunk(db, turn)
           c == LastId(new.chunks)
           next(more, pc) == Taken(old, c, more, pc)
<1>1. /\ old.pc = "chunk" /\ db' = new /\ UNCHANGED <<vecfiles, vecmeta, blurred, torn>>
      /\ \E more, pc : /\ pc \in {"chunk", "write", "fetch"}
                       /\ Cardinality(DOMAIN old.batch) = 1 => pc # "chunk"
                       /\ emb' = [emb EXCEPT ![e] = next(more, pc)]
  <2> DEFINE last == Cardinality(DOMAIN old.batch) = 1
             enough == Cardinality(DOMAIN With(old.rows, [x \in {turn} |-> old.batch[turn]]))
                         >= FlushChunks
             at == IF ~last THEN "chunk" ELSE IF enough THEN "write" ELSE "fetch"
  <2>1. /\ old.pc = "chunk" /\ db' = new /\ UNCHANGED <<vecfiles, vecmeta, blurred, torn>>
        /\ emb' = [emb EXCEPT ![e] = next(last /\ enough, at)]
    BY DEF ChunkTurn, Taken
  <2>2. at \in {"chunk", "write", "fetch"} /\ (last => at # "chunk")
    OBVIOUS
  <2> HIDE DEF next, at, enough, new
  <2> QED BY <2>1, <2>2
<1>2. PICK more, pc : /\ pc \in {"chunk", "write", "fetch"}
                      /\ Cardinality(DOMAIN old.batch) = 1 => pc # "chunk"
                      /\ emb' = [emb EXCEPT ![e] = next(more, pc)]
  BY <1>1
<1>3. EmbedderRun(old) /\ Store(db) /\ Counting(vecmeta)
  BY DEF VectorInv, EmbedderTypes
<1>4. /\ Embeds(db, new) /\ new.turns = db.turns
      /\ c = LastId(db.chunks) + 1
      /\ DOMAIN new.chunks = DOMAIN db.chunks \cup {c} /\ c \notin DOMAIN db.chunks
      /\ new.chunks[c] = turn
      /\ \A b \in DOMAIN db.chunks : new.chunks[b] = db.chunks[b]
  BY <1>3, InsertChunkEmbeds
<1>5. LastId(db.chunks) \in Nat /\ \A b \in DOMAIN db.chunks \cup {0} : b <= LastId(db.chunks)
  BY <1>3, LastIdFound DEF Store
<1>6. c \in Nat \ {0}
  BY <1>4, <1>5
<1> DEFINE run == next(more, pc)
<1> HIDE DEF c, new
<1>7. /\ turn \in DOMAIN old.batch
      /\ EmbedderRun(run) /\ run.pc = pc /\ run.meta = old.meta
      /\ DOMAIN run.batch = DOMAIN old.batch \ {turn}
      /\ \A id \in DOMAIN run.batch : run.batch[id] = old.batch[id]
      /\ DOMAIN run.rows = DOMAIN old.rows \cup {turn}
      /\ DOMAIN run.chunks = DOMAIN old.chunks \cup {c}
      /\ run.chunks[c] = old.batch[turn]
      /\ \A b \in DOMAIN old.chunks \ {c} : run.chunks[b] = old.chunks[b]
  BY <1>1, <1>2, <1>3, <1>6, ChunkIsTaken
<1>8. emb' = [emb EXCEPT ![e] = run]
  BY <1>2
<1> HIDE DEF run, next, turn
<1>9. Counting(vecmeta') /\ \A n \in DOMAIN vecfiles' : Numbered(vecfiles'[n])
  BY <1>1 DEF VectorInv, EmbedderTypes
<1>10. emb'[e] = run /\ \A f \in Embedders \ {e} : emb'[f] = emb[f]
  BY <1>7, <1>8, EmbeddersTyped DEF VectorInv
<1>11. Excused => Excused'
  BY <1>1, <1>10, ExcuseStays
<1>12. ASSUME "beside" \notin torn'
       PROVE  /\ Bounded' /\ GoesBy(e)' /\ InHand(e)' /\ OnDisk(e)'
              /\ VectorsKeepTheirTurn' /\ EmbeddedHasVector'
  <2>1. Bounded /\ GoesBy(e) /\ InHand(e)
    BY <1>1, <1>12, NobodyBeside
  <2>2. Listed' = Listed
    BY <1>1 DEF Listed
  <2>3. Bounded'
    BY <1>1, <1>4, <2>1, <2>2 DEF Bounded
  <2>4. GoesBy(e)' /\ OnDisk(e)'
    BY <1>1, <1>2, <1>7, <1>10, <2>1 DEF GoesBy, OnDisk
  <2>5. InHand(e)'
    <3>1. \A id \in DOMAIN run.batch : Current(id)' => run.batch[id] = db'.turns[id].text
      BY <1>1, <1>4, <1>7, <2>1 DEF InHand, Current
    <3>2. ASSUME NEW b \in DOMAIN run.chunks
          PROVE  /\ b \in DOMAIN db'.chunks
                 /\ Current(db.chunks[b])' => run.chunks[b] = db'.turns[db'.chunks[b]].text
      <4>1. CASE b = c
        BY <1>1, <1>4, <1>7, <2>1, <4>1 DEF InHand, Current
      <4>2. CASE b # c
        <5>1. b \in DOMAIN old.chunks /\ run.chunks[b] = old.chunks[b]
          BY <1>7, <3>2, <4>2
        <5> QED BY <1>1, <1>4, <2>1, <5>1 DEF InHand, Current
      <4> QED BY <4>1, <4>2
    <3>3. ASSUME NEW id \in DOMAIN run.rows
          PROVE  \E b \in DOMAIN run.chunks : db'.chunks[b] = id
      BY <1>1, <1>4, <1>7, <2>1, <3>3 DEF InHand
    <3> QED BY <1>10, <3>1, <3>2, <3>3 DEF InHand, Current
  <2>6. \A n \in Listed : c \notin DOMAIN vecfiles[n]
    <3>1. vecmeta.last \in Nat
      BY <1>3 DEF Counting
    <3>2. vecmeta.last <= LastId(db.chunks)
      BY <1>5, <2>1 DEF Bounded
    <3> QED BY <1>4, <1>5, <1>6, <2>1, <3>1, <3>2 DEF Bounded
  <2>7. VectorsKeepTheirTurn'
    BY <1>1, <1>4, <2>2, <2>6 DEF VectorInv, VectorsKeepTheirTurn
  <2>8. EmbeddedHasVector'
    <3>1. SUFFICES ASSUME ~Excused', NEW id \in DOMAIN db.turns, Current(id)',
                          db.turns[id].embedded = Embedded
                   PROVE  VectorOf(id)'
      BY <1>1, <1>4 DEF EmbeddedHasVector, Excused, Current, VectorOf
    <3>2. VectorOf(id)
      BY <1>1, <1>4, <1>11, <3>1, EmbeddedMeaning DEF VectorInv, Current
    <3> QED BY <1>1, <1>4, <2>2, <3>2 DEF VectorOf
  <2> QED BY <2>3, <2>4, <2>5, <2>7, <2>8
<1>13. Store(db')
  BY <1>1, <1>4 DEF Embeds
<1> QED BY <1>1, <1>7, <1>8, <1>9, <1>12, <1>13, RunGoesOn

\* meta.json after a segment with these chunks.
More(m, chunks) ==
    [segments |-> Append(m.segments, NextName(m)), last |-> Max({m.last, LastId(chunks)})]

LEMMA MoreListed ==
    ASSUME NEW m, Counting(m), NEW chunks, Numbered(chunks)
    PROVE  /\ Counting(More(m, chunks))
           /\ Range(More(m, chunks).segments) = Range(m.segments) \cup {NextName(m)}
           /\ More(m, chunks).last \in {m.last, LastId(chunks)}
           /\ More(m, chunks).last \in Nat
           /\ m.last <= More(m, chunks).last /\ LastId(chunks) <= More(m, chunks).last
<1> DEFINE last == Max({m.last, LastId(chunks)})
<1>1. m.last \in Nat /\ LastId(chunks) \in Nat
  BY LastIdFound DEF Counting
<1>2. last = IF m.last >= LastId(chunks) THEN m.last ELSE LastId(chunks)
  BY <1>1, MaxOfTwo
<1> HIDE DEF last
<1>3. /\ last \in Nat /\ last \in {m.last, LastId(chunks)}
      /\ m.last <= last /\ LastId(chunks) <= last
  BY <1>1, <1>2
<1> DEFINE more == [segments |-> Append(m.segments, NextName(m)), last |-> last]
<1>4. Counting(more) /\ Range(more.segments) = Range(m.segments) \cup {NextName(m)}
  BY <1>3, CountingAppended
<1>5. more.last = last
  OBVIOUS
<1>6. More(m, chunks) = more
  BY DEF More, last
<1> HIDE DEF more
<1> QED BY <1>3, <1>4, <1>5, <1>6

\* The file of a segment is written under a name no list has.
LEMMA WriteVectorsStep ==
    ASSUME VectorInv, NEW e \in Embedders, WriteVectors(e)
    PROVE  VectorInv'
<1> DEFINE old == emb[e]
           name == NextName(old.meta)
           file == [x \in {name} |-> old.chunks]
           files == With(vecfiles, file)
           more == More(old.meta, old.chunks)
           run == [old EXCEPT !.pc = "meta", !.meta = more]
<1>1. EmbedderRun(old) /\ Store(db) /\ Counting(vecmeta)
  BY DEF VectorInv, EmbedderTypes
<1>2. /\ old.pc = "write" /\ emb' = [emb EXCEPT ![e] = run] /\ vecfiles' = files
      /\ UNCHANGED <<db, vecmeta, blurred, torn>>
  BY <1>1 DEF WriteVectors, More, NextName, EmbedderRun
<1>3. Counting(old.meta) /\ Numbered(old.chunks)
  BY <1>1 DEF EmbedderRun
<1>4. Counting(more)
  BY <1>3, MoreListed
<1>5. /\ DOMAIN run = {"pc", "meta", "after", "batch", "rows", "chunks", "more"}
      /\ run.pc = "meta" /\ run.meta = more /\ run.batch = old.batch
      /\ run.rows = old.rows /\ run.chunks = old.chunks
  BY <1>1 DEF EmbedderRun
<1> HIDE DEF run, more
<1>6. EmbedderRun(run)
  BY <1>1, <1>2, <1>4, <1>5 DEF EmbedderRun
<1>7. /\ DOMAIN files = DOMAIN vecfiles \cup {name} /\ files[name] = old.chunks
      /\ \A n \in DOMAIN vecfiles \ {name} : files[n] = vecfiles[n]
  <2>1. DOMAIN file = {name} /\ file[name] = old.chunks
    OBVIOUS
  <2> HIDE DEF file
  <2>2. /\ DOMAIN files = DOMAIN vecfiles \cup DOMAIN file
        /\ \A n \in DOMAIN file : files[n] = file[n]
        /\ \A n \in DOMAIN vecfiles \ DOMAIN file : files[n] = vecfiles[n]
    BY WithRows
  <2> HIDE DEF files, name
  <2> QED BY <2>1, <2>2
<1> HIDE DEF files
<1>8. Counting(vecmeta') /\ \A n \in DOMAIN vecfiles' : Numbered(vecfiles'[n])
  BY <1>1, <1>2, <1>3, <1>7 DEF VectorInv, EmbedderTypes
<1>9. emb'[e] = run /\ \A f \in Embedders \ {e} : emb'[f] = emb[f]
  BY <1>2, <1>6, EmbeddersTyped DEF VectorInv
<1>10. Excused => Excused'
  BY <1>2, <1>9, ExcuseStays
<1>11. ASSUME "beside" \notin torn'
       PROVE  /\ Bounded' /\ GoesBy(e)' /\ InHand(e)' /\ OnDisk(e)'
              /\ VectorsKeepTheirTurn' /\ EmbeddedHasVector'
  <2>1. Bounded /\ GoesBy(e) /\ InHand(e) /\ old.meta = vecmeta
    <3>1. Bounded /\ GoesBy(e) /\ InHand(e)
      BY <1>2, <1>11, NobodyBeside
    <3> QED BY <1>2, <3>1 DEF GoesBy
  <2>2. name = NextName(vecmeta) /\ name \notin Range(vecmeta.segments)
    BY <1>1, <2>1, CountingNames
  <2> HIDE DEF name
  <2>3. Listed' = Listed /\ \A n \in Listed : vecfiles'[n] = vecfiles[n]
    BY <1>2, <1>7, <2>2 DEF Listed
  <2>4. Bounded'
    BY <1>2, <2>1, <2>3 DEF Bounded
  <2>5. GoesBy(e)'
    BY <1>5, <1>9 DEF GoesBy
  <2>6. InHand(e)'
    BY <1>2, <1>5, <1>9, <2>1 DEF InHand, Current
  <2>7. OnDisk(e)'
    BY <1>2, <1>5, <1>7, <1>9, <2>1, <2>2 DEF OnDisk, More, more
  <2>8. VectorsKeepTheirTurn'
    BY <1>2, <2>3 DEF VectorInv, VectorsKeepTheirTurn
  <2>9. EmbeddedHasVector'
    <3>1. SUFFICES ASSUME ~Excused', NEW id \in DOMAIN db.turns, Current(id)',
                          db.turns[id].embedded = Embedded
                   PROVE  VectorOf(id)'
      BY <1>2 DEF EmbeddedHasVector, Excused, Current, VectorOf
    <3>2. VectorOf(id)
      BY <1>2, <1>10, <3>1, EmbeddedMeaning DEF VectorInv, Current
    <3> QED BY <1>2, <2>3, <3>2 DEF VectorOf
  <2> QED BY <2>4, <2>5, <2>6, <2>7, <2>8, <2>9
<1> QED BY <1>1, <1>2, <1>6, <1>8, <1>11, RunGoesOn

\* The list takes in the file that was written for it.
LEMMA WriteMetaStep ==
    ASSUME VectorInv, NEW e \in Embedders, WriteMeta(e)
    PROVE  VectorInv'
<1> DEFINE old == emb[e]
           run == [old EXCEPT !.pc = "mark"]
<1>1. /\ old.pc = "meta" /\ emb' = [emb EXCEPT ![e] = run] /\ vecmeta' = old.meta
      /\ UNCHANGED <<db, vecfiles, blurred, torn>>
  BY DEF WriteMeta
<1>2. EmbedderRun(old) /\ Store(db) /\ Counting(vecmeta)
  BY DEF VectorInv, EmbedderTypes
<1>3. /\ DOMAIN run = {"pc", "meta", "after", "batch", "rows", "chunks", "more"}
      /\ run.pc = "mark" /\ run.meta = old.meta /\ run.batch = old.batch
      /\ run.rows = old.rows /\ run.chunks = old.chunks
  BY <1>2 DEF EmbedderRun
<1> HIDE DEF run
<1>4. EmbedderRun(run)
  BY <1>1, <1>2, <1>3 DEF EmbedderRun
<1>5. Counting(vecmeta') /\ \A n \in DOMAIN vecfiles' : Numbered(vecfiles'[n])
  BY <1>1, <1>2 DEF VectorInv, EmbedderTypes, EmbedderRun
<1>6. emb'[e] = run /\ \A f \in Embedders \ {e} : emb'[f] = emb[f]
  BY <1>1, <1>4, EmbeddersTyped DEF VectorInv
<1>7. Excused => Excused'
  BY <1>1, <1>6, ExcuseStays
<1>8. ASSUME "beside" \notin torn'
      PROVE  /\ Bounded' /\ GoesBy(e)' /\ InHand(e)' /\ OnDisk(e)'
             /\ VectorsKeepTheirTurn' /\ EmbeddedHasVector'
  <2> DEFINE name == NextName(vecmeta)
             more == More(vecmeta, old.chunks)
  <2>1. Bounded /\ InHand(e) /\ OnDisk(e)
    BY <1>1, <1>8, NobodyBeside
  <2>2. /\ vecmeta' = more /\ name \in DOMAIN vecfiles /\ vecfiles[name] = old.chunks
    BY <1>1, <2>1 DEF OnDisk, More
  <2>3. Numbered(old.chunks)
    BY <1>2 DEF EmbedderRun
  <2>4. /\ Range(more.segments) = Range(vecmeta.segments) \cup {name}
        /\ more.last \in {vecmeta.last, LastId(old.chunks)} /\ more.last \in Nat
        /\ vecmeta.last <= more.last /\ LastId(old.chunks) <= more.last
    BY <1>2, <2>3, MoreListed
  <2>5. vecmeta.last \in Nat /\ LastId(old.chunks) \in Nat
    BY <1>2, <2>3, LastIdFound DEF Counting
  <2> HIDE DEF name, more
  <2>6. Listed' = Listed \cup {name}
    BY <1>1, <2>2, <2>4 DEF Listed
  <2>7. Bounded'
    <3>1. ASSUME NEW n \in Listed \cup {name}, NEW c \in DOMAIN vecfiles[n]
          PROVE  c <= more.last
      <4>1. CASE n = name
        <5>1. c \in Nat /\ c <= LastId(old.chunks)
          BY <2>2, <2>3, <3>1, <4>1, LastIdFound
        <5> QED BY <2>4, <2>5, <5>1
      <4>2. CASE n \in Listed
        <5>1. c <= vecmeta.last
          BY <2>1, <4>2 DEF Bounded
        <5>2. c \in Nat
          BY <4>2, LastIdFound DEF VectorInv, EmbedderTypes, Listed
        <5> QED BY <2>4, <2>5, <5>1, <5>2
      <4> QED BY <4>1, <4>2
    <3>2. LastId(old.chunks) \in DOMAIN db.chunks \cup {0}
      BY <2>1, <2>3, LastIdFound DEF InHand
    <3>3. more.last \in DOMAIN db.chunks \cup {0}
      BY <2>1, <2>4, <3>2 DEF Bounded
    <3> QED BY <1>1, <2>2, <2>6, <3>1, <3>3 DEF Bounded
  <2>8. GoesBy(e)' /\ OnDisk(e)'
    BY <1>1, <1>3, <1>6, <2>2, <2>6 DEF GoesBy, OnDisk
  <2>9. InHand(e)'
    BY <1>1, <1>3, <1>6, <2>1 DEF InHand, Current
  <2>10. VectorsKeepTheirTurn'
    <3>1. ASSUME NEW n \in Listed \cup {name}, NEW c \in DOMAIN vecfiles[n] \cap DOMAIN db.chunks,
                 Current(db.chunks[c])
          PROVE  vecfiles[n][c] = db.turns[db.chunks[c]].text
      <4>1. CASE n = name
        BY <2>1, <2>2, <3>1, <4>1 DEF InHand
      <4>2. CASE n \in Listed
        BY <1>1, <1>8, <3>1, <4>2, KeepMeaning DEF VectorInv
      <4> QED BY <4>1, <4>2
    <3> QED BY <1>1, <2>6, <3>1 DEF VectorsKeepTheirTurn, Current
  <2>11. EmbeddedHasVector'
    <3>1. SUFFICES ASSUME ~Excused', NEW id \in DOMAIN db.turns, Current(id)',
                          db.turns[id].embedded = Embedded
                   PROVE  VectorOf(id)'
      BY <1>1 DEF EmbeddedHasVector, Excused, Current, VectorOf
    <3>2. VectorOf(id)
      BY <1>1, <1>7, <3>1, EmbeddedMeaning DEF VectorInv, Current
    <3> QED BY <1>1, <2>6, <3>2 DEF VectorOf
  <2> QED BY <2>7, <2>8, <2>9, <2>10, <2>11
<1> QED BY <1>1, <1>2, <1>4, <1>5, <1>8, RunGoesOn

\* A turn is marked when its vector is on disk and listed.
LEMMA MarkTurnStep ==
    ASSUME VectorInv, NEW e \in Embedders, MarkTurn(e)
    PROVE  VectorInv'
<1> DEFINE old == emb[e]
           turn == Min(DOMAIN old.rows)
           left == Without(old.rows, {turn})
           on == [old EXCEPT !.rows = left]
           again == [old EXCEPT !.pc = "fetch", !.rows = <<>>, !.chunks = <<>>]
<1>1. /\ old.pc = "mark" /\ db' = MarkEmbedded(db, {turn})
      /\ \/ left # <<>> /\ emb' = [emb EXCEPT ![e] = on]
         \/ emb' = [emb EXCEPT ![e] = again]
         \/ emb' = [emb EXCEPT ![e] = NoBackfill]
      /\ UNCHANGED <<vecfiles, vecmeta, blurred, torn>>
  BY DEF MarkTurn
<1>2. EmbedderRun(old) /\ Store(db) /\ Counting(vecmeta)
  BY DEF VectorInv, EmbedderTypes
<1>3. turn \in DOMAIN old.rows
  <2>1. DOMAIN old.rows \in SUBSET Nat /\ DOMAIN old.rows # {}
    BY <1>1, <1>2, LastIdFound DEF EmbedderRun
  <2> QED BY <2>1, MinFound
<1>4. /\ Embeds(db, db') /\ db'.chunks = db.chunks
      /\ \A id \in DOMAIN db.turns \ {turn} : db'.turns[id].embedded = db.turns[id].embedded
  BY <1>1, <1>2, MarkEmbeddedEmbeds
<1>5. /\ Numbered(left) /\ DOMAIN left = DOMAIN old.rows \ {turn}
      /\ left = [id \in DOMAIN left |-> left[id]]
      /\ left # <<>> => DOMAIN left # {}
  <2>1. Numbered(left) /\ DOMAIN left = DOMAIN old.rows \ {turn}
    <3>1. Numbered(old.rows)
      BY <1>2 DEF EmbedderRun
    <3> QED BY ONLY <3>1, WithoutNumbered
  <2>2. left = [id \in DOMAIN left |-> left[id]]
    BY DEF Without
  <2> HIDE DEF left
  <2>3. ASSUME DOMAIN left = {}
        PROVE  left = <<>>
    BY <2>2, <2>3
  <2> QED BY <2>1, <2>2, <2>3
<1> HIDE DEF turn, left
<1>6. /\ DOMAIN on = {"pc", "meta", "after", "batch", "rows", "chunks", "more"}
      /\ on.pc = "mark" /\ on.meta = old.meta /\ on.batch = old.batch
      /\ on.rows = left /\ on.chunks = old.chunks
  BY <1>1, <1>2 DEF EmbedderRun
<1>7. /\ DOMAIN again = {"pc", "meta", "after", "batch", "rows", "chunks", "more"}
      /\ again.pc = "fetch" /\ again.meta = old.meta /\ again.batch = old.batch
      /\ again.rows = <<>> /\ again.chunks = <<>>
  BY <1>2 DEF EmbedderRun
<1> HIDE DEF on, again
<1>8. DOMAIN <<>> = {} /\ Numbered(<<>>) /\ <<>> = [id \in {} |-> <<>>[id]]
  BY DEF Numbered
<1>9. EmbedderRun(again) /\ (left # <<>> => EmbedderRun(on))
  BY <1>2, <1>5, <1>6, <1>7, <1>8 DEF EmbedderRun
<1>10. PICK run : /\ EmbedderRun(run) /\ emb' = [emb EXCEPT ![e] = run]
                  /\ run \in {on, again, NoBackfill}
  BY <1>1, <1>9, NoBackfillTyped
<1>11. Counting(vecmeta') /\ \A n \in DOMAIN vecfiles' : Numbered(vecfiles'[n])
  BY <1>1 DEF VectorInv, EmbedderTypes
<1>12. emb'[e] = run /\ \A f \in Embedders \ {e} : emb'[f] = emb[f]
  BY <1>10, EmbeddersTyped DEF VectorInv
<1>13. Excused => Excused'
  BY <1>1, <1>12, ExcuseStays
<1>14. ASSUME "beside" \notin torn'
       PROVE  /\ Bounded' /\ GoesBy(e)' /\ InHand(e)' /\ OnDisk(e)'
              /\ VectorsKeepTheirTurn' /\ EmbeddedHasVector'
  <2>1. Bounded /\ GoesBy(e) /\ InHand(e) /\ OnDisk(e)
    BY <1>1, <1>14, NobodyBeside
  <2>2. Listed' = Listed
    BY <1>1 DEF Listed
  <2>3. Bounded'
    BY <1>1, <1>4, <2>1, <2>2 DEF Bounded
  <2>4. \A id : Current(id)' => Current(id) /\ db'.turns[id].text = db.turns[id].text
    BY <1>1, <1>4 DEF Current, Embeds
  <2>5. GoesBy(e)' /\ InHand(e)' /\ OnDisk(e)'
    <3>1. CASE run = NoBackfill
      BY <1>12, <3>1, NoBackfillTyped DEF GoesBy, InHand, OnDisk, EmbedderRun
    <3>2. CASE run \in {on, again}
      <4>1. /\ run.pc \in {"mark", "fetch"} /\ run.meta = old.meta /\ run.batch = old.batch
            /\ run.pc = "mark" => run.chunks = old.chunks
        BY <1>6, <1>7, <3>2
      <4>2. GoesBy(e)' /\ OnDisk(e)'
        BY <1>1, <1>12, <2>1, <2>2, <4>1 DEF GoesBy, OnDisk
      <4>3. DOMAIN run.chunks \subseteq DOMAIN old.chunks /\ DOMAIN run.rows \subseteq DOMAIN old.rows
        BY <1>5, <1>6, <1>7, <1>8, <3>2
      <4>4. \A c \in DOMAIN run.chunks : run.chunks[c] = old.chunks[c]
        BY <1>6, <1>7, <1>8, <3>2
      <4>5. DOMAIN run.rows # {} => run.chunks = old.chunks
        BY <1>6, <1>7, <1>8, <3>2
      <4>6. \A id \in DOMAIN run.batch : Current(id)' => run.batch[id] = db'.turns[id].text
        BY <1>4, <2>1, <2>4, <4>1 DEF InHand
      <4>7. ASSUME NEW c \in DOMAIN run.chunks
            PROVE  /\ c \in DOMAIN db'.chunks
                   /\ Current(db.chunks[c])' => run.chunks[c] = db'.turns[db'.chunks[c]].text
        <5>1. c \in DOMAIN db.chunks
          BY <2>1, <4>3 DEF InHand
        <5>2. Current(db.chunks[c])' => Current(db'.chunks[c])
          BY <1>1, <1>4 DEF Current, Embeds
        <5> QED BY <1>4, <2>1, <2>4, <4>3, <4>4, <5>1, <5>2 DEF InHand, Current
      <4>8. \A id \in DOMAIN run.rows : \E c \in DOMAIN run.chunks : db'.chunks[c] = id
        BY <1>4, <2>1, <4>3, <4>5 DEF InHand
      <4>9. InHand(e)'
        BY <1>4, <1>12, <4>6, <4>7, <4>8 DEF InHand, Current
      <4> QED BY <4>2, <4>9
    <3> QED BY <1>10, <3>1, <3>2
  <2>6. VectorsKeepTheirTurn'
    <3>1. DOMAIN db'.turns = DOMAIN db.turns
      BY <1>4 DEF Embeds
    <3>2. \A id \in DOMAIN db.turns : db'.turns[id].text = db.turns[id].text
      BY <1>4 DEF Embeds
    <3>3. db'.chunks = db.chunks /\ UNCHANGED <<vecfiles, blurred, torn>>
      BY <1>1, <1>4
    <3> QED BY <2>2, <3>1, <3>2, <3>3 DEF VectorInv, VectorsKeepTheirTurn
  <2>7. EmbeddedHasVector'
    <3>1. SUFFICES ASSUME ~Excused', NEW id \in DOMAIN db.turns, Current(id)',
                          db'.turns[id].embedded = Embedded
                   PROVE  VectorOf(id)'
      BY <1>4 DEF EmbeddedHasVector, Excused, Current, VectorOf, Embeds
    <3>2. Current(id) /\ db'.turns[id].text = db.turns[id].text
      BY <1>1, <1>4, <3>1 DEF Current, Embeds
    <3>3. VectorOf(id)
      <4>1. CASE id = turn
        <5>1. PICK n \in Listed : vecfiles[n] = old.chunks
          BY <1>1, <2>1 DEF OnDisk
        <5>2. PICK c \in DOMAIN old.chunks : db.chunks[c] = id
          BY <1>3, <2>1, <4>1 DEF InHand
        <5>3. c \in DOMAIN db.chunks /\ old.chunks[c] = db.turns[id].text
          BY <2>1, <3>2, <5>2 DEF InHand
        <5> QED BY <5>1, <5>2, <5>3 DEF VectorOf
      <4>2. CASE id # turn
        BY <1>4, <1>13, <3>1, <3>2, <4>2, EmbeddedMeaning DEF VectorInv
      <4> QED BY <4>1, <4>2
    <3> QED BY <1>1, <1>4, <2>2, <3>2, <3>3 DEF VectorOf
  <2> QED BY <2>3, <2>5, <2>6, <2>7
<1>15. Store(db')
  BY <1>4 DEF Embeds
<1> QED BY <1>1, <1>10, <1>11, <1>14, <1>15, RunGoesOn

\* Who writes segments or searches leaves the vectors alone.
LEMMA VectorsStay ==
    ASSUME VectorInv, UNCHANGED <<db, vecfiles, vecmeta, emb, blurred>>,
           \A w \in {"beside", "cleared"} : w \in torn' <=> w \in torn
    PROVE  VectorInv'
<1>1. /\ "beside" \notin torn' => Bounded'
      /\ VectorsKeepTheirTurn' /\ EmbeddedHasVector'
  <2>1. Excused => Excused'
    BY DEF Excused, InClearing
  <2>2. Embeds(db, db')
    BY EmbedsNothing DEF VectorInv
  <2> QED BY <2>1, <2>2, StoreIsHealed
<1>2. Store(db)' /\ EmbedderTypes'
  BY DEF VectorInv, EmbedderTypes
<1>3. Listed' = Listed
  BY DEF Listed
<1>4. ASSUME "beside" \notin torn'
      PROVE  Alone' /\ \A e \in Embedders : GoesBy(e)' /\ InHand(e)' /\ OnDisk(e)'
  <2>1. Alone /\ \A e \in Embedders : GoesBy(e) /\ InHand(e) /\ OnDisk(e)
    BY <1>4 DEF VectorInv
  <2>2. Alone'
    BY <2>1 DEF Alone
  <2>3. ASSUME NEW e \in Embedders
        PROVE  GoesBy(e)' /\ InHand(e)' /\ OnDisk(e)'
    BY <1>3, <2>1 DEF GoesBy, InHand, OnDisk, Current
  <2> QED BY <2>2, <2>3
<1> QED BY <1>1, <1>2, <1>4 DEF VectorInv

\* A turn that an ingest changes and that has a chunk, or is about to, is one
\* whose id came back; and no turn comes as embedded.
LEMMA IngestKeepsVectors ==
    ASSUME VectorInv, NEW new, Ingests(db, new), Committed(new)
    PROVE  VectorInv'
<1> DEFINE ids == {id \in DOMAIN new.turns :
                     id \notin DOMAIN db.turns \/ new.turns[id] # db.turns[id]}
<1>1. /\ db' = new /\ blurred' = blurred \cup (ids \cap Chunked)
      /\ UNCHANGED <<vecfiles, vecmeta, emb, torn>>
  BY DEF Committed
<1>2. Store(db') /\ db'.chunks = db.chunks /\ Listed' = Listed
  BY <1>1 DEF Ingests, Listed
<1>3. ASSUME NEW id \in Chunked, Current(id)'
      PROVE  Current(id) /\ db'.turns[id] = db.turns[id]
  BY <1>1, <1>3 DEF Current
<1>4. ASSUME NEW id \in DOMAIN db'.turns, Current(id)', db'.turns[id].embedded = Embedded
      PROVE  Current(id) /\ db'.turns[id] = db.turns[id]
  BY <1>1, <1>4 DEF Current, Ingests, Pending, Embedded
<1> HIDE DEF ids
<1>5. \A c \in DOMAIN db.chunks : db.chunks[c] \in Chunked
  BY DEF Chunked
<1>6. \A e \in Embedders : DOMAIN emb[e].batch \subseteq Chunked
  BY DEF Chunked
<1>7. Store(db)' /\ EmbedderTypes'
  BY <1>1, <1>2 DEF VectorInv, EmbedderTypes, Store
<1>8. ASSUME "beside" \notin torn'
      PROVE  /\ Alone' /\ Bounded'
             /\ \A e \in Embedders : GoesBy(e)' /\ InHand(e)' /\ OnDisk(e)'
  <2>1. /\ Alone /\ Bounded
        /\ \A e \in Embedders : GoesBy(e) /\ InHand(e) /\ OnDisk(e)
    BY <1>1, <1>8 DEF VectorInv
  <2>2. Alone' /\ Bounded'
    BY <1>1, <1>2, <2>1 DEF Alone, Bounded
  <2>3. ASSUME NEW e \in Embedders
        PROVE  GoesBy(e)' /\ InHand(e)' /\ OnDisk(e)'
    <3>1. GoesBy(e)' /\ OnDisk(e)'
      BY <1>1, <1>2, <2>1 DEF GoesBy, OnDisk
    <3>2. \A id \in DOMAIN emb[e].batch : Current(id)' => emb[e].batch[id] = db'.turns[id].text
      BY <1>3, <1>6, <2>1 DEF InHand
    <3>3. ASSUME NEW c \in DOMAIN emb[e].chunks, Current(db.chunks[c])'
          PROVE  emb[e].chunks[c] = db'.turns[db.chunks[c]].text
      <4>1. db.chunks[c] \in Chunked
        BY <1>5, <2>1 DEF InHand
      <4>2. Current(db.chunks[c]) /\ db'.turns[db.chunks[c]] = db.turns[db.chunks[c]]
        BY <1>2, <1>3, <3>3, <4>1 DEF Current
      <4> QED BY <2>1, <4>2 DEF InHand
    <3>4. InHand(e)'
      BY <1>1, <1>2, <2>1, <3>2, <3>3 DEF InHand, Current
    <3> QED BY <3>1, <3>4
  <2> QED BY <2>2, <2>3
<1>9. VectorsKeepTheirTurn'
  <2>1. ASSUME "beside" \notin torn', NEW n \in Listed,
               NEW c \in DOMAIN vecfiles[n] \cap DOMAIN db.chunks,
               db.chunks[c] \in DOMAIN db'.turns \ blurred'
        PROVE  vecfiles[n][c] = db'.turns[db.chunks[c]].text
    <3> DEFINE id == db.chunks[c]
    <3>1. id \in Chunked
      BY <1>5
    <3> HIDE DEF id
    <3>2. Current(id) /\ db'.turns[id] = db.turns[id]
      <4>1. id \in DOMAIN db'.turns \ blurred'
        BY <2>1 DEF id
      <4> QED BY <1>3, <3>1, <4>1 DEF Current
    <3>3. vecfiles[n][c] = db.turns[id].text
      BY <1>1, <2>1, <3>2, KeepMeaning DEF VectorInv, id
    <3> QED BY <3>2, <3>3 DEF id
  <2> QED BY <1>1, <1>2, <2>1 DEF VectorsKeepTheirTurn
<1>10. EmbeddedHasVector'
  <2>1. Excused => Excused'
    BY <1>1 DEF Excused, InClearing
  <2>2. SUFFICES ASSUME ~Excused', NEW id \in DOMAIN db'.turns, Current(id)',
                        db'.turns[id].embedded = Embedded
                 PROVE  VectorOf(id)'
    BY DEF EmbeddedHasVector, Excused, Current, VectorOf
  <2>3. Current(id) /\ db'.turns[id] = db.turns[id]
    BY <1>4, <2>2
  <2>4. VectorOf(id)
    BY <2>1, <2>2, <2>3, EmbeddedMeaning DEF VectorInv, Current
  <2> QED BY <1>1, <1>2, <2>3, <2>4 DEF VectorOf
<1> QED BY <1>7, <1>8, <1>9, <1>10 DEF VectorInv

LEMMA VectorInvInit == Init => VectorInv
<1> SUFFICES ASSUME Init
             PROVE  VectorInv
  OBVIOUS
<1>1. Store(db) /\ DOMAIN db.turns = {}
  <2>1. Numbered(<<>>)
    BY DEF Numbered
  <2> QED BY <2>1 DEF Init, EmptyStore, Store
<1>2. Listed = {} /\ vecmeta = NoMeta /\ vecmeta.last = 0 /\ vecfiles = <<>> /\ torn = {}
  BY DEF Init, Listed, NoMeta
<1>3. DOMAIN emb = Embedders /\ \A e \in Embedders : emb[e] = NoBackfill
  BY DEF Init
<1>4. EmbedderTypes
  <2>1. Counting(NoMeta)
    BY NoBackfillTyped DEF EmbedderRun, NoBackfill
  <2> QED BY <1>2, <1>3, <2>1, NoBackfillTyped DEF EmbedderTypes
<1>5. \A e \in Embedders : GoesBy(e) /\ InHand(e) /\ OnDisk(e)
  BY <1>3, NoBackfillTyped DEF GoesBy, InHand, OnDisk, EmbedderRun
<1>6. Alone /\ Bounded
  BY <1>2, <1>3, NoBackfillTyped DEF Alone, Bounded
<1>7. VectorsKeepTheirTurn /\ EmbeddedHasVector
  BY <1>1, <1>2 DEF VectorsKeepTheirTurn, EmbeddedHasVector
<1> QED BY <1>1, <1>4, <1>5, <1>6, <1>7 DEF VectorInv

LEMMA VectorInvStep == VectorInv /\ [Next]_vars => VectorInv'
<1> SUFFICES ASSUME VectorInv, [Next]_vars
             PROVE  VectorInv'
  OBVIOUS
<1>1. CASE UNCHANGED vars
  BY <1>1, VectorsStay DEF vars, vecvars
<1>2. ASSUME NEW s \in Sessions, NEW n \in 1..2, Grow(s, n) \/ Rewrite(s, n)
      PROVE  VectorInv'
  <2>1. \E new : Ingests(db, new) /\ Committed(new)
    BY <1>2, IngestCommits DEF VectorInv
  <2> QED BY <2>1, IngestKeepsVectors
<1>3. ASSUME NEW p \in Indexers,
             \/ Index(p) \/ FindStale(p) \/ CrashIndexer(p)
             \/ \E full \in BOOLEAN : OpenSegments(p, full)
      PROVE  VectorInv'
  <2>1. UNCHANGED <<db, vecfiles, vecmeta, emb, blurred>>
    BY <1>3 DEF vecvars, Index, Acquire, Steal, GiveUp, ReadBatch, WriteSegment, ListSegment,
                DropSegments, EmptyManifest, FindStale, CrashIndexer, OpenSegments
  <2>2. torn' \in {torn, torn \cup {"stolen"}, torn \cup {"dropped"}, torn \ {"dropped"}}
    BY <1>3 DEF Index, Acquire, Steal, GiveUp, ReadBatch, WriteSegment, ListSegment,
                DropSegments, EmptyManifest, FindStale, CrashIndexer, OpenSegments
  <2>3. \A w \in {"beside", "cleared"} : w \in torn' <=> w \in torn
    BY <2>2
  <2> QED BY <2>1, <2>3, VectorsStay
<1>4. ASSUME NEW r \in Searchers, Search(r)
      PROVE  VectorInv'
  <2>1. UNCHANGED <<db, vecfiles, vecmeta, emb, blurred, torn>>
    BY <1>4 DEF vecvars, Search, OpenSearch, OpenShards, FetchRows, Answer
  <2> QED BY <2>1, VectorsStay
<1>5. ASSUME NEW e \in Embedders,
             \/ Embed(e) \/ CrashEmbedder(e)
             \/ \E rebuild \in BOOLEAN : OpenVectors(e, rebuild)
      PROVE  VectorInv'
  BY <1>5, ClearFilesStep, ClearMetaStep, ResetEmbeddingsStep, HealStep, FetchBatchStep,
     SweepStep, ChunkTurnStep, WriteVectorsStep, WriteMetaStep, MarkTurnStep,
     CrashEmbedderStep, OpenVectorsStep DEF Embed
<1> QED BY <1>1, <1>2, <1>3, <1>4, <1>5 DEF Next

(***************************************************************************)
(* A turn marked embedded has a vector of its text in a listed segment,    *)
(* whatever ingests, runs, rebuilds and deaths come together.              *)
(***************************************************************************)
THEOREM EmbeddedTurnsHaveVectors == Spec => []EmbeddedHasVector
<1>1. Spec => []VectorInv
  BY VectorInvInit, VectorInvStep, PTL DEF Spec
<1>2. VectorInv => EmbeddedHasVector
  BY DEF VectorInv
<1> QED BY <1>1, <1>2, PTL

(***************************************************************************)
(* A vector never answers for another turn than the one it was made of.    *)
(***************************************************************************)
THEOREM VectorsAnswerForTheirTurn == Spec => []VectorsKeepTheirTurn
<1>1. Spec => []VectorInv
  BY VectorInvInit, VectorInvStep, PTL DEF Spec
<1>2. VectorInv => VectorsKeepTheirTurn
  BY DEF VectorInv
<1> QED BY <1>1, <1>2, PTL

(***************************************************************************)
(* The two indexes agree with their lists: no segment is listed twice, who *)
(* works on the manifest has the lock, and meta.json records the last of   *)
(* the chunks that have vectors.                                           *)
(***************************************************************************)
THEOREM CorpusTypeCorrect == Spec => []TypeOK
<1>1. Spec => [](IndexInv /\ VectorInv)
  BY IndexInvInit, IndexInvStep, VectorInvInit, VectorInvStep, PTL DEF Spec
<1>2. IndexInv /\ VectorInv => TypeOK
  <2> SUFFICES ASSUME IndexInv, VectorInv
               PROVE  TypeOK
    OBVIOUS
  <2>1. lock \in Indexers \cup {None, Dead} /\ IsInjective(manifest.segments)
    BY NameIsNew DEF IndexInv, IndexerTypes
  <2>2. IsInjective(vecmeta.segments)
    BY CountingNames DEF VectorInv, EmbedderTypes
  <2>3. \A p \in Indexers : Holding(p) /\ "stolen" \notin torn => lock = p
    BY DEF IndexInv, Working
  <2>4. ASSUME "beside" \notin torn, NEW n \in Listed
        PROVE  LastId(vecfiles[n]) <= vecmeta.last
    <3>1. Numbered(vecfiles[n]) /\ vecmeta.last \in Nat
      BY DEF VectorInv, EmbedderTypes, Counting, Listed
    <3>2. LastId(vecfiles[n]) \in DOMAIN vecfiles[n] \cup {0}
      BY <3>1, LastIdFound
    <3> QED BY <2>4, <3>1, <3>2 DEF VectorInv, Bounded
  <2> QED BY <2>1, <2>2, <2>3, <2>4 DEF TypeOK, Listed
<1> QED BY <1>1, <1>2, PTL

=============================================================================
