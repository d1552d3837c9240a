----------------------------- MODULE RecallStore -----------------------------
(***************************************************************************)
(* The transcript store of gitpixel-recall (store.rs): one SQLite database *)
(* that ingesters, segment indexers, embedders and searches share.  Each   *)
(* operator is one statement or one transaction of the code, from a        *)
(* database to a database.                                                 *)
(*                                                                         *)
(* A table is a function from row ids.  Row ids are SQLite's for an        *)
(* INTEGER PRIMARY KEY: one more than the largest in the table, so the id  *)
(* of a deleted last row comes back.  A turn is its text and what the      *)
(* embedder knows of it; a session is the name its source gives it.        *)
(***************************************************************************)
EXTENDS Naturals, Sequences, FiniteSets, FiniteSetsExt, SequencesExt

CONSTANTS
    ParentOf,   \* [sessions -> sessions \cup {None}], set for a subagent
    LexicalOnly,\* the texts the embedding policy leaves out
    None        \* no parent, no state, no cursor

\* turns.embedded
Pending == 0
Embedded == 1
Skipped == 2

EmptyStore == [state |-> <<>>, sessions |-> <<>>, turns |-> <<>>, chunks |-> <<>>]

LastId(rows) == Max(DOMAIN rows \cup {0})

Without(rows, ids) == [id \in DOMAIN rows \ ids |-> rows[id]]

With(rows, more) ==
    [id \in DOMAIN rows \cup DOMAIN more |->
        IF id \in DOMAIN more THEN more[id] ELSE rows[id]]

SessionIds(db, s) == {id \in DOMAIN db.sessions : db.sessions[id].source = s}

TurnIds(db, sid) == {id \in DOMAIN db.turns : db.turns[id].session = sid}

\* turns_for_session: the texts of a session, by their place in it.
TextsOf(db, s) ==
    LET ids == UNION {TurnIds(db, sid) : sid \in SessionIds(db, s)}
        Before(id) == {other \in ids : db.turns[other].seq < db.turns[id].seq}
    IN  [i \in 1..Cardinality(ids) |->
            db.turns[CHOOSE id \in ids : Cardinality(Before(id)) = i - 1].text]

IngestState(db, u) == IF u \in DOMAIN db.state THEN db.state[u] ELSE None

UpsertState(db, u, st) ==
    [db EXCEPT !.state = With(@, [x \in {u} |-> st])]

InsertSession(db, s) ==
    [db EXCEPT !.sessions =
        With(@, [x \in {LastId(@) + 1} |-> [source |-> s, count |-> 0, parent |-> None]])]

InsertTurns(db, sid, start, texts) ==
    LET last == LastId(db.turns)
    IN  [db EXCEPT !.turns =
            With(@, [id \in (last + 1)..(last + Len(texts)) |->
                        [session |-> sid, seq |-> start + (id - last - 1),
                         text |-> texts[id - last], embedded |-> Pending]])]

FinalizeSession(db, sid) ==
    [db EXCEPT !.sessions[sid].count = Cardinality(TurnIds(db, sid))]

\* One transaction each.
ReplaceSession(db, s, texts, u, st) ==
    LET old == SessionIds(db, s)
        cleared == [db EXCEPT !.turns = Without(@, UNION {TurnIds(db, id) : id \in old}),
                              !.sessions = Without(@, old)]
        opened == InsertSession(cleared, s)
        sid == LastId(opened.sessions)
        filled == InsertTurns(opened, sid, 0, texts)
    IN  UpsertState(FinalizeSession(filled, sid), u, st)

\* Mutant: the turns of a tail are numbered from 0.
AppendFromZero(db, s, texts, u, st) ==
    LET opened == IF SessionIds(db, s) = {} THEN InsertSession(db, s) ELSE db
        sid == CHOOSE id \in SessionIds(opened, s) : TRUE
    IN  UpsertState(FinalizeSession(InsertTurns(opened, sid, 0, texts), sid), u, st)

AppendSession(db, s, texts, u, st) ==
    LET opened == IF SessionIds(db, s) = {} THEN InsertSession(db, s) ELSE db
        sid == CHOOSE id \in SessionIds(opened, s) : TRUE
        places == {opened.turns[id].seq : id \in TurnIds(opened, sid)}
        next == IF places = {} THEN 0 ELSE Max(places) + 1
        filled == InsertTurns(opened, sid, next, texts)
    IN  UpsertState(FinalizeSession(filled, sid), u, st)

\* Mutant: a subagent is linked to whichever session comes first.
LinkFirst(db, sources) ==
    [db EXCEPT !.sessions =
        [id \in DOMAIN @ |->
            IF @[id].source \in sources /\ ParentOf[@[id].source] # None
            THEN [@[id] EXCEPT !.parent = Min(DOMAIN db.sessions)]
            ELSE @[id]]]

\* A subagent is linked to its parent's row once both are there.
LinkSubagents(db, sources) ==
    LET Linked(row) ==
            IF /\ row.source \in sources
               /\ ParentOf[row.source] # None
               /\ row.parent = None
            THEN LET parents == {p \in SessionIds(db, ParentOf[row.source]) :
                                    ParentOf[db.sessions[p].source] = None}
                 IN  IF parents = {} THEN None ELSE CHOOSE p \in parents : TRUE
            ELSE row.parent
    IN  [db EXCEPT !.sessions =
            [id \in DOMAIN @ |-> [@[id] EXCEPT !.parent = Linked(db.sessions[id])]]]

-----------------------------------------------------------------------------
\* What the indexer and the embedder read and write.

TurnsForIndexing(db, after) == {id \in DOMAIN db.turns : id > after}

MarkPolicySkips(db) ==
    [db EXCEPT !.turns =
        [id \in DOMAIN @ |->
            IF @[id].embedded = Pending /\ @[id].text \in LexicalOnly
            THEN [@[id] EXCEPT !.embedded = Skipped]
            ELSE @[id]]]

PendingEmbed(db, after) ==
    {id \in DOMAIN db.turns : db.turns[id].embedded = Pending /\ id > after}

\* One chunk for each turn; a longer text has several, which fare alike.
InsertChunk(db, turn) ==
    [db EXCEPT !.chunks = With(@, [x \in {LastId(@) + 1} |-> turn])]

MarkEmbedded(db, ids) ==
    [db EXCEPT !.turns =
        [id \in DOMAIN @ |->
            IF id \in ids THEN [@[id] EXCEPT !.embedded = Embedded] ELSE @[id]]]

DropOrphanChunks(db, last) ==
    [db EXCEPT !.chunks = [c \in {c \in DOMAIN @ : c <= last} |-> @[c]]]

ResetChunks(db) == [db EXCEPT !.chunks = <<>>]

ResetMarks(db) ==
    [db EXCEPT !.turns = [id \in DOMAIN @ |-> [@[id] EXCEPT !.embedded = Pending]]]

=============================================================================
