---------------------------- MODULE RecallIngest ----------------------------
(***************************************************************************)
(* The ingest of transcripts (gitpixel-recall: ingest.rs and sources/).    *)
(* Several processes, the recall daemon and the command line, read files   *)
(* and databases that the agents' own tools are writing, and copy what is  *)
(* new into the store, resuming where the recorded state says.             *)
(*                                                                         *)
(* A unit is a transcript file or a database.  Its content is a sequence   *)
(* of records: lines of a file, messages of a database that have text, in  *)
(* the order of their times.  A record names its conversation and holds    *)
(* one turn.  A line counts two bytes and a line still being written one.  *)
(* The mtime of a database is the time of its latest message, which may    *)
(* have no text yet.                                                       *)
(***************************************************************************)
EXTENDS Integers, RecallStore

CONSTANTS
    Ingesters,  \* processes that ingest
    Agent,      \* [units -> {"claude", "cursor", "codex", "gemini", "opencode", "devin"}]
    Conv,       \* [units -> sets of conversations]
    Window,     \* how many lines the tail hash covers
    Absent      \* no such file

Units == DOMAIN Agent
Agents == {Agent[u] : u \in Units}
Databases == {"opencode", "devin"}
IsFile(u) == Agent[u] \notin Databases

\* A codex file without a first line is known by its own name.
Sources == Units \cup UNION {Conv[u] : u \in Units}

ASSUME IngestAssumption ==
    /\ Window \in Nat \ {0}
    /\ None \notin Nat \cup Units
    /\ Agents \subseteq {"claude", "cursor", "codex", "gemini"} \cup Databases
    /\ \A u \in Units : Conv[u] # {}
    /\ Absent \notin [lines : Seq([conv : Sources, text : Nat, at : Nat]),
                      half : BOOLEAN, mtime : Nat]
    /\ \A u \in Units : Agent[u] \in {"claude", "cursor"} => \E s \in Conv[u] : Conv[u] = {s}
    /\ \A s \in Sources : ParentOf[s] \in Sources \cup {None}

\* The ids of sessions are their own: a conversation is in one unit, or in a
\* codex rollout and its archived copy, and is not called like a file.
ASSUME HomeAssumption ==
    \A u, v \in Units :
        /\ u \notin Conv[v]
        /\ u # v /\ Conv[u] \cap Conv[v] # {} =>
             Agent[u] = "codex" /\ Agent[v] = "codex" /\ Conv[u] = Conv[v]

VARIABLES
    db,         \* recall.db
    disk,       \* [Units -> Absent or what the agent's tool wrote]
    clock,      \* counts the writes: times, and fresh texts
    ing,        \* [Ingesters -> a pass of ingest_source]
    ingested,   \* history: the records each recorded state stands for
    doubt,      \* history: sessions a race, a death or a false match spoilt
    ahead       \* history: sessions that a recorded state does not account for

vars == <<db, disk, clock, ing, ingested, doubt, ahead>>

-----------------------------------------------------------------------------
\* What an adapter sees of a unit.

Size(u) == 2 * Len(disk[u].lines) + (IF disk[u].half THEN 1 ELSE 0)

Stamp(u) == [size |-> Size(u), mtime |-> disk[u].mtime]

Discover(agent) ==
    [u \in {u \in Units : Agent[u] = agent /\ disk[u] # Absent} |-> Stamp(u)]

TailHash(u, end) ==
    IF disk[u] = Absent \/ end > Len(disk[u].lines) THEN None
    ELSE SubSeq(disk[u].lines, Max({1, end + 1 - Window}), end)

AppendValid(u, st) == st.cursor = None \/ TailHash(u, st.bytes) = st.cursor

New == [kind |-> "new", from |-> 0]
Appended(n) == [kind |-> "appended", from |-> n]
Rewritten == [kind |-> "rewritten", from |-> 0]
Unchanged == [kind |-> "unchanged", from |-> 0]

ClassifyFile(seen, st) ==
    IF st = None THEN New
    ELSE IF st.size = seen.size /\ st.mtime = seen.mtime THEN Unchanged
    ELSE IF seen.size > st.size THEN Appended(st.bytes)
    ELSE Rewritten

Rows(u) == IF disk[u] = Absent THEN <<>> ELSE disk[u].lines

\* oc_max_cursor: the latest message of the database, with text or without.
MaxCursor(u) == IF disk[u] = Absent THEN None ELSE disk[u].mtime

ClassifyDatabase(u, st) ==
    IF st = None THEN New
    ELSE IF st.cursor = None THEN Rewritten
    ELSE IF MaxCursor(u) = st.cursor THEN Unchanged
    ELSE Appended(0)

\* What ingest_source makes of a unit: a file whose prefix changed is
\* rewritten though it grew.
Classify(u, seen, st) ==
    IF ~IsFile(u) THEN ClassifyDatabase(u, st)
    ELSE LET change == ClassifyFile(seen, st)
         IN  IF change.kind = "appended" /\ ~AppendValid(u, st) THEN Rewritten ELSE change

-----------------------------------------------------------------------------
\* Parsing: sessions with their turns, in the order they are stored.

\* The records at these places, in their order.
At(lines, places) ==
    [k \in 1..Cardinality(places) |->
        lines[CHOOSE i \in places : Cardinality({j \in places : j <= i}) = k]]

RowsOf(lines, s) == At(lines, {i \in DOMAIN lines : lines[i].conv = s})

TurnsOf(lines, s) ==
    LET own == RowsOf(lines, s)
    IN  [k \in DOMAIN own |-> own[k].text]

ConvsOf(lines) == {lines[i].conv : i \in DOMAIN lines}

\* These sessions, in the order they begin.
SessionsOf(lines, convs) ==
    LET first == At(lines, {i \in DOMAIN lines :
                                /\ lines[i].conv \in convs
                                /\ \A j \in 1..(i - 1) : lines[j].conv # lines[i].conv})
    IN  [k \in DOMAIN first |->
            [conv |-> first[k].conv, turns |-> TurnsOf(lines, first[k].conv)]]

LinesFrom(u, from) == SubSeq(disk[u].lines, from + 1, Len(disk[u].lines))

\* A file that is one session, which it does not have yet without turns.
OneSession(u, change, s) ==
    LET read == LinesFrom(u, change.from)
    IN  IF read = <<>> /\ change.kind # "appended" THEN <<>>
        ELSE <<[conv |-> s, turns |-> [i \in DOMAIN read |-> read[i].text]]>>

\* claude and cursor name the session after the file.
ParseClaude(u, change) == OneSession(u, change, CHOOSE s \in Conv[u] : TRUE)

ParseCursor(u, change) == OneSession(u, change, CHOOSE s \in Conv[u] : TRUE)

\* The first line of the file names the session, on a resume too.
ParseCodex(u, change) ==
    OneSession(u, change, IF disk[u].lines = <<>> THEN u ELSE disk[u].lines[1].conv)

\* One history file holds every conversation.
ParseGemini(u, change) ==
    LET read == LinesFrom(u, change.from)
    IN  SessionsOf(read, ConvsOf(read))

\* Sessions with a message later than the cursor are read whole.
ParseOpencode(u, change, st) ==
    LET rows == Rows(u)
        since == IF change.kind = "appended" THEN st.cursor ELSE -1
        touched == {rows[i].conv : i \in {i \in DOMAIN rows : rows[i].at > since}}
    IN  SessionsOf(rows, touched)

\* The rows of a session have ids of their own, which never tie.
ParseDevin(u, change, st) ==
    LET rows == Rows(u)
        since == IF change.kind = "appended" THEN st.cursor ELSE 0
        touched == {rows[i].conv : i \in {i \in DOMAIN rows : rows[i].at > since}}
    IN  SessionsOf(rows, touched)

Parse(u, change, st) ==
    CASE Agent[u] = "claude" -> ParseClaude(u, change)
      [] Agent[u] = "cursor" -> ParseCursor(u, change)
      [] Agent[u] = "codex" -> ParseCodex(u, change)
      [] Agent[u] = "gemini" -> ParseGemini(u, change)
      [] Agent[u] = "opencode" -> ParseOpencode(u, change, st)
      [] Agent[u] = "devin" -> ParseDevin(u, change, st)

-----------------------------------------------------------------------------
\* A pass of ingest_source.

Idle ==
    [pc |-> "idle", agent |-> None, seen |-> <<>>, unit |-> None, old |-> None,
     change |-> Unchanged, sessions |-> <<>>, prefix |-> <<>>, cursor |-> None,
     k |-> 1, base |-> <<>>, fooled |-> FALSE]

Init ==
    /\ db = EmptyStore
    /\ disk = [u \in Units |-> Absent]
    /\ clock = 0
    /\ ing = [i \in Ingesters |-> Idle]
    /\ ingested = [u \in Units |-> <<>>]
    /\ doubt = {}
    /\ ahead = {}

Start(i) ==
    /\ ing[i].pc = "idle"
    /\ \E agent \in Agents :
         ing' = [ing EXCEPT ![i] =
                    [Idle EXCEPT !.pc = "unit", !.agent = agent, !.seen = Discover(agent)]]
    /\ UNCHANGED <<db, disk, clock, ingested, doubt, ahead>>

NextUnit(job) == [job EXCEPT !.pc = "unit", !.seen = Without(@, {job.unit}), !.unit = None,
                          !.old = None, !.change = Unchanged, !.sessions = <<>>,
                          !.prefix = <<>>, !.cursor = None, !.k = 1, !.base = <<>>,
                          !.fooled = FALSE]

\* history: the records behind the recorded resume point.
Behind(u) ==
    LET st == IngestState(db, u)
    IN  IF st = None THEN <<>>
        ELSE SubSeq(ingested[u], 1, Min({st.bytes, Len(ingested[u])}))

\* Classify the next unit discovered.
Take(i) ==
    LET job == ing[i]
    IN  /\ job.pc = "unit"
        /\ \E u \in DOMAIN job.seen :
             LET st == IngestState(db, u)
                 change == Classify(u, job.seen[u], st)
             IN  ing' = [ing EXCEPT ![i] =
                    IF change = Unchanged THEN NextUnit([job EXCEPT !.unit = u])
                    ELSE [job EXCEPT !.pc = "parse", !.unit = u, !.old = st,
                                     !.change = change,
                                     !.base = Behind(u)]]
        /\ UNCHANGED <<db, disk, clock, ingested, doubt, ahead>>

\* history: an append whose file is no longer what was ingested, because the
\* hashed tail is the same or the file was written since it was discovered.
Fooled(job) ==
    LET u == job.unit
    IN  /\ IsFile(u)
        /\ job.change.kind = "appended"
        /\ ~IsPrefix(job.base, disk[u].lines)
        /\ AppendValid(u, job.old) \/ Stamp(u) # job.seen[u]

\* The cursor of a database is read before its sessions are selected.
SnapshotCursor(i) ==
    LET job == ing[i]
    IN  /\ job.pc = "parse"
        /\ ~IsFile(job.unit)
        /\ ing' = [ing EXCEPT ![i] =
                [job EXCEPT !.pc = "select", !.cursor = MaxCursor(job.unit)]]
        /\ UNCHANGED <<db, disk, clock, ingested, doubt, ahead>>

ParseUnit(i) ==
    LET job == ing[i]
        u == job.unit
    IN  /\ \/ job.pc = "select"
           \/ job.pc = "parse" /\ IsFile(u)
        /\ disk[u] # Absent
        /\ ing' = [ing EXCEPT ![i] =
                [job EXCEPT !.pc = IF IsFile(u) THEN "cursor" ELSE "store",
                            !.sessions = Parse(u, job.change, job.old),
                            !.prefix = disk[u].lines, !.fooled = Fooled(job)]]
        /\ UNCHANGED <<db, disk, clock, ingested, doubt, ahead>>

\* The file is gone since it was discovered: a parse error.
ParseFails(i) ==
    LET job == ing[i]
    IN  /\ job.pc = "parse"
        /\ IsFile(job.unit)
        /\ disk[job.unit] = Absent
        /\ ing' = [ing EXCEPT ![i] = NextUnit(job)]
        /\ UNCHANGED <<db, disk, clock, ingested, doubt, ahead>>

\* Mutant: the line still being written is counted.
ConsumedHalf(job) ==
    IF IsFile(job.unit) THEN Max({job.change.from, (job.seen[job.unit].size + 1) \div 2}) ELSE 0

Consumed(job) ==
    IF IsFile(job.unit) THEN Max({job.change.from, Len(job.prefix)}) ELSE 0

\* The file is opened once more for the hash that guards the next resume.
MakeCursor(i) ==
    LET job == ing[i]
    IN  /\ job.pc = "cursor"
        /\ ing' = [ing EXCEPT ![i] =
                [job EXCEPT !.pc = "store", !.cursor = TailHash(job.unit, Consumed(job))]]
        /\ UNCHANGED <<db, disk, clock, ingested, doubt, ahead>>

DoneState(job) ==
    [size |-> job.seen[job.unit].size, mtime |-> job.seen[job.unit].mtime,
     bytes |-> Consumed(job), cursor |-> job.cursor]

\* Mutant: completion is recorded with the first session.
StaleStateDone(job) == DoneState(job)

\* What the sessions before the last record: completion is not reached yet.
StaleState(job) ==
    IF job.old # None THEN job.old
    ELSE [size |-> -1, mtime |-> -1, bytes |-> job.change.from, cursor |-> None]

Appends(job) == IsFile(job.unit) /\ job.change.kind = "appended"

\* history: what the recorded state stands for once a pass is done with its
\* unit: the file, or, when it no longer begins with what the resume point
\* stood for, that and the tail.
StandsFor(job) ==
    IF Appends(job) /\ ~IsPrefix(job.base, job.prefix)
    THEN job.base \o SubSeq(job.prefix, job.change.from + 1, Len(job.prefix))
    ELSE job.prefix

\* history: another pass recorded the unit since this one took it, or since it
\* stored the session before.
Moved(job) ==
    \/ IngestState(db, job.unit) # IF job.k = 1 THEN job.old ELSE StaleState(job)
    \/ Behind(job.unit) # job.base

\* history: a session is not what the resume point stands for, one stored
\* before it in this pass was changed, or a later copy of it was ingested.
Raced(job) ==
    LET Now(n) == TextsOf(db, job.sessions[n].conv)
        Had(n) == IF Appends(job) THEN TurnsOf(job.base, job.sessions[n].conv) ELSE <<>>
    IN  \/ job.fooled
        \/ job.change.kind = "appended" /\ Moved(job)
        \/ job.k < Len(job.sessions) /\ Moved(job)
        \/ Appends(job) /\ Now(job.k) # Had(job.k)
        \/ \E n \in 1..(job.k - 1) : Now(n) # Had(n) \o job.sessions[n].turns
        \/ \E v \in Units \ {job.unit} :
             job.sessions[job.k].conv \in Conv[v] /\ ~IsPrefix(ingested[v], job.prefix)

\* history: sessions of which another unit, written later, was recorded before.
Overtaken(job) ==
    {s \in ConvsOf(job.sessions) :
        \E v \in Units \ {job.unit} :
            LET st == IngestState(db, v)
            IN  /\ s \in Conv[v]
                /\ st # None
                /\ st.mtime > job.seen[job.unit].mtime}

\* history: sessions of a database with a change since they were read that the
\* cursor has passed: not a message later than the cursor, or no message at all.
Outdated(job) ==
    {s \in Conv[job.unit] :
        LET read == RowsOf(job.prefix, s)
            now == RowsOf(Rows(job.unit), s)
        IN  /\ ~IsFile(job.unit)
            /\ job.cursor # None
            /\ ~(/\ IsPrefix(read, now)
                 /\ \A i \in DOMAIN now : i > Len(read) => now[i].at > job.cursor)}

StoreSession(i) ==
    LET job == ing[i]
        p == job.sessions[job.k]
        last == job.k = Len(job.sessions)
        st == IF last THEN DoneState(job) ELSE StaleState(job)
        spoilt == IF Raced(job) THEN Conv[job.unit] ELSE {}
    IN  /\ job.pc = "store"
        /\ job.sessions # <<>>
        /\ db' = IF Appends(job) THEN AppendSession(db, p.conv, p.turns, job.unit, st)
                                 ELSE ReplaceSession(db, p.conv, p.turns, job.unit, st)
        /\ ing' = [ing EXCEPT ![i] =
                IF last THEN NextUnit(job) ELSE [job EXCEPT !.k = @ + 1]]
        /\ ingested' = [ingested EXCEPT ![job.unit] = IF last THEN StandsFor(job) ELSE job.base]
        /\ doubt' = (IF Appends(job) THEN doubt ELSE doubt \ {p.conv}) \cup spoilt
        /\ ahead' = (IF last THEN (ahead \ ConvsOf(job.sessions)) \cup Outdated(job)
                              ELSE ahead \cup {p.conv})
                      \cup Overtaken(job)
        /\ UNCHANGED <<disk, clock>>

TouchUnit(i) ==
    LET job == ing[i]
    IN  /\ job.pc = "store"
        /\ job.sessions = <<>>
        /\ db' = UpsertState(db, job.unit, DoneState(job))
        /\ ing' = [ing EXCEPT ![i] = NextUnit(job)]
        /\ ingested' = [ingested EXCEPT ![job.unit] = StandsFor(job)]
        /\ doubt' = IF job.fooled \/ Moved(job)
                    THEN doubt \cup Conv[job.unit] ELSE doubt
        /\ ahead' = ahead \cup Outdated(job)
        /\ UNCHANGED <<disk, clock>>

Link(i) ==
    LET job == ing[i]
    IN  /\ job.pc = "unit"
        /\ job.seen = <<>>
        /\ db' = LinkSubagents(db, UNION {Conv[u] : u \in {u \in Units : Agent[u] = job.agent}})
        /\ ing' = [ing EXCEPT ![i] = Idle]
        /\ UNCHANGED <<disk, clock, ingested, doubt, ahead>>

\* The process dies, or the database answers with an error: the pass ends.
Abort(i) ==
    /\ ing[i].pc # "idle"
    /\ ing' = [ing EXCEPT ![i] = Idle]
    /\ UNCHANGED <<db, disk, clock, ingested, doubt, ahead>>

Pass(i) ==
    \/ Take(i) \/ SnapshotCursor(i) \/ ParseUnit(i) \/ ParseFails(i) \/ MakeCursor(i)
    \/ StoreSession(i) \/ TouchUnit(i) \/ Link(i)

-----------------------------------------------------------------------------
\* The agents' tools.

Content(u) == IF disk[u] = Absent THEN [lines |-> <<>>, half |-> FALSE, mtime |-> 0]
              ELSE disk[u]

\* A rollout of codex is among the live sessions or among the archived ones.
OnlyCopy(u) == \A v \in Units \ {u} : Agent[v] = "codex" /\ Conv[v] = Conv[u] => disk[v] = Absent

Write(u, lines, half) ==
    /\ Agent[u] = "codex" => OnlyCopy(u)
    /\ clock' = clock + 1
    /\ disk' = [disk EXCEPT ![u] = [lines |-> lines, half |-> half, mtime |-> clock + 1]]
    /\ UNCHANGED <<db, ing, ingested, doubt, ahead>>

\* Mid-file conversations change only in the one history file of gemini.
Speakers(u) ==
    IF Agent[u] = "codex" /\ Content(u).lines # <<>> THEN {Content(u).lines[1].conv}
    ELSE Conv[u]

Record(s, at) == [conv |-> s, text |-> clock + 1, at |-> at]

AppendLine(u) ==
    /\ IsFile(u)
    /\ \E s \in Speakers(u) : Write(u, Append(Content(u).lines, Record(s, 0)), FALSE)

BeginLine(u) ==
    /\ IsFile(u)
    /\ ~Content(u).half
    /\ Write(u, Content(u).lines, TRUE)

\* A session resumed or compacted: a record is dropped or changed in place.
RewriteFile(u) ==
    /\ IsFile(u)
    /\ \E n \in DOMAIN Content(u).lines :
         LET lines == Content(u).lines
         IN  \/ Write(u, RemoveAt(lines, n), FALSE)
             \/ Write(u, [lines EXCEPT ![n].text = clock + 1], FALSE)

\* codex moves a rollout among the archived sessions.
Archive(u, v) ==
    /\ Agent[u] = "codex" /\ Agent[v] = "codex"
    /\ Conv[u] = Conv[v]
    /\ disk[u] # Absent
    /\ disk[v] = Absent
    /\ clock' = clock + 1
    /\ disk' = [disk EXCEPT ![v] = disk[u], ![u] = Absent]
    /\ UNCHANGED <<db, ing, ingested, doubt, ahead>>

\* A message later than all before, a time of opencode or a row id of devin:
\* with its text, or without, which may follow in parts or never.
InsertRow(u) ==
    /\ ~IsFile(u)
    /\ \/ \E s \in Conv[u] : Write(u, Append(Content(u).lines, Record(s, clock + 1)), FALSE)
       \/ Write(u, Content(u).lines, FALSE)

\* A message of opencode that is not later than the latest: one that came out
\* of order or in the same millisecond, or had no text before.
LateMessage(u, s, at, n) ==
    LET lines == disk[u].lines
        row == Record(s, at)
    IN  /\ \A i \in DOMAIN lines : IF i < n THEN lines[i].at <= at ELSE at < lines[i].at
        /\ disk' = [disk EXCEPT ![u].lines = SubSeq(@, 1, n - 1) \o <<row>> \o SubSeq(@, n, Len(@))]

\* A message gets one more part.
LatePart(u, s, n) ==
    /\ n \in DOMAIN disk[u].lines
    /\ disk[u].lines[n].conv = s
    /\ disk' = [disk EXCEPT ![u].lines[n].text = clock + 1]

\* history: no cursor tells that the session has changed.
LateRow(u) ==
    /\ Agent[u] = "opencode"
    /\ disk[u] # Absent
    /\ \E s \in Conv[u], n \in 1..(Len(disk[u].lines) + 1) :
         /\ \/ \E at \in 0..disk[u].mtime : LateMessage(u, s, at, n)
            \/ LatePart(u, s, n)
         /\ ahead' = ahead \cup {s}
    /\ clock' = clock + 1
    /\ UNCHANGED <<db, ing, ingested, doubt>>

Tools == \/ \E u \in Units : AppendLine(u) \/ BeginLine(u) \/ RewriteFile(u)
         \/ \E u \in Units : InsertRow(u) \/ LateRow(u)
         \/ \E u, v \in Units : Archive(u, v)

Next == Tools \/ \E i \in Ingesters : Start(i) \/ Pass(i) \/ Abort(i)

Spec == Init /\ [][Next]_vars

\* A unit that the next pass would skip.
Settled(u) ==
    /\ disk[u] # Absent
    /\ Classify(u, Stamp(u), IngestState(db, u)) = Unchanged

-----------------------------------------------------------------------------
(* Properties. *)

JobType(job) ==
    /\ job.pc \in {"idle", "unit", "parse", "select", "cursor", "store"}
    /\ job.pc \in {"idle", "unit"} <=> job.unit = None
    /\ DOMAIN job.seen \subseteq Units
    /\ job.pc = "store" /\ job.sessions # <<>> => job.k \in DOMAIN job.sessions

(***************************************************************************)
(* Types, and the ties between the tables of store.rs: a turn belongs to a *)
(* session that exists, a source has one session, the turns of a session   *)
(* are numbered from 0 without a gap, and turn_count counts them.          *)
(***************************************************************************)
TypeOK ==
    /\ \A i \in Ingesters : JobType(ing[i])
    /\ \A u \in DOMAIN db.state : db.state[u].bytes \in Nat
    /\ \A t \in DOMAIN db.turns : db.turns[t].session \in DOMAIN db.sessions
    /\ \A a, b \in DOMAIN db.sessions :
         db.sessions[a].source = db.sessions[b].source => a = b
    /\ \A sid \in DOMAIN db.sessions :
         LET n == db.sessions[sid].count
         IN  /\ Cardinality(TurnIds(db, sid)) = n
             /\ {db.turns[t].seq : t \in TurnIds(db, sid)} = 0..(n - 1)
    /\ doubt \subseteq Sources

(***************************************************************************)
(* A unit that ingest_source would skip as unchanged is in the store:      *)
(* every conversation it holds has its turns there, each once, in order.   *)
(* Excused are the sessions in doubt, and those that no recorded state     *)
(* accounts for: stored by a pass that ended early, archived in a later    *)
(* copy, or, in opencode's database, changed by a part or a message that   *)
(* is not later than the latest one, until they are read again.            *)
(***************************************************************************)
UnchangedIsStored ==
    \A u \in Units : Settled(u) =>
        \A s \in ConvsOf(Rows(u)) \ (doubt \cup ahead) : TextsOf(db, s) = TurnsOf(Rows(u), s)

(***************************************************************************)
(* The recorded state never runs ahead of the store (the comment at        *)
(* ingest.rs:64): of a file that still begins with what was ingested, no   *)
(* line behind the resume point is missing, out of order or there twice.   *)
(***************************************************************************)
RecordedIsStored ==
    \A u \in Units :
        IsFile(u) /\ disk[u] # Absent /\ IsPrefix(Behind(u), Rows(u)) =>
            \A s \in ConvsOf(Behind(u)) \ doubt :
                IsPrefix(TurnsOf(Behind(u), s), TextsOf(db, s))

(***************************************************************************)
(* A link to a parent never leads to another session, although row ids     *)
(* come back: it leads to the parent, or, after the parent was replaced,   *)
(* nowhere.                                                                *)
(***************************************************************************)
LinksNeverMislead ==
    \A c \in DOMAIN db.sessions :
        LET p == db.sessions[c].parent
        IN  p \in DOMAIN db.sessions =>
              db.sessions[p].source = ParentOf[db.sessions[c].source]

=============================================================================
