----------------------------- MODULE CallGraph -----------------------------
(***************************************************************************)
(* The call graph of gitpixel-graph (build.rs, resolve.rs, store.rs) as    *)
(* the repository service keeps it (gitpixel-serve, api.rs): a SQLite      *)
(* database that is built from a walk of the tree, updated one file at a   *)
(* time, and served while its freshness stamp names the tree.              *)
(*                                                                         *)
(* A source is what extraction finds in a file: the definitions, the calls *)
(* and the imports, each in the order of the lines.  A call site is named  *)
(* by its place in that order, which stands for its line.  Row ids are     *)
(* SQLite's: one more than the largest in the table, so they come back.    *)
(***************************************************************************)
EXTENDS Naturals, Sequences, FiniteSets, FiniteSetsExt

CONSTANTS
    Walk,       \* the files a walk of the tree meets, in its order
    Unlisted,   \* files it passes over: hidden, or named in .gitignore
    Names,      \* names of definitions
    Sources,    \* what files may hold: see SourceType
    Absent,     \* no file, or one that extraction refuses
    None        \* no stamp

Listed == {Walk[i] : i \in DOMAIN Walk}
Files == Listed \cup Unlisted

SourceType ==
    [defs : Seq(Names),
     calls : Seq([at : Nat, name : Names, recv : BOOLEAN]),
     imports : SUBSET [from : Files, name : Names]]

ASSUME GraphAssumption ==
    /\ Walk \in Seq(Listed) \ {<<>>}
    /\ Listed \cap Unlisted = {}
    /\ Sources \subseteq SourceType
    /\ Absent \notin Sources
    /\ \A i, j \in DOMAIN Walk : Walk[i] = Walk[j] => i = j
    /\ \A c \in Sources :
         \A k \in DOMAIN c.calls : c.calls[k].at \in 0..Len(c.defs)

VARIABLES
    work,       \* [Files -> Sources \cup {Absent}], the tree
    db,         \* graph.db: see Empty
    published,  \* graph.db exists
    handle,     \* the service holds the database open and answers from it
    pc,         \* where the service's thread is
    target,     \* the file update_file is at work on
    source,     \* what update_file has read of it
    inputs,     \* what a build has read
    place,      \* where in Walk the build is
    dropped,    \* history: incoming calls deleted with a removed file
    torn,       \* history: an update stopped half way since the last build
    doubled,    \* history: a file came in that defines a name twice
    skewed,     \* history: files stamped though the graph holds them otherwise
    settled     \* history: the last change of the database re-resolved calls

update == <<target, source>>
build == <<inputs, place>>
history == <<dropped, torn, doubled, skewed, settled>>
vars == <<work, db, published, handle, pc, update, build, history>>

Content == Sources \cup {Absent}
Nothing == [f \in Files |-> Absent]

----------------------------------------------------------------------------
(* The database.                                                           *)

\* ids: 0 for a file that has no row.  stored: what the row was read from.
Empty ==
    [ids |-> [f \in Files |-> 0],
     stored |-> Nothing,
     symbols |-> {},        \* [id, file, name]
     imports |-> {},        \* [file, name, from, resolved]: 0 is NULL
     edges |-> {},          \* [src, dst, tier, line, recv]
     unresolved |-> {},     \* [file, name, encl, line, recv]: 0 is NULL
     stamp |-> None]

MaxOf(S) == Max(S \cup {0})
Path(d, file) == CHOOSE f \in Files : d.ids[f] = file
SymbolIds(d) == {s.id : s \in d.symbols}
SymbolsOf(d, file) == {s \in d.symbols : s.file = file}

\* insert_symbol: the rows are numbered from `base` on, and a later definition
\* of the same qualified name deletes the row of an earlier one.
SymbolRows(file, defs, base) ==
    {[id |-> base + i, file |-> file, name |-> defs[i]] :
       i \in {k \in DOMAIN defs :
                \A j \in DOMAIN defs : j > k => defs[j] # defs[k]}}

\* insert_import, resolved against the files of the database.
ImportRows(ids, file, imports) ==
    {[file |-> file, name |-> i.name, from |-> i.from,
      resolved |-> ids[i.from]] : i \in imports}

\* The calls of a file, its symbols numbered from `base` on.
CallRows(file, calls, base) ==
    {[file |-> file, name |-> calls[k].name,
      encl |-> IF calls[k].at = 0 THEN 0 ELSE base + calls[k].at,
      line |-> k, recv |-> calls[k].recv] : k \in DOMAIN calls}

----------------------------------------------------------------------------
(* Resolution.                                                             *)

Candidates(d, name) == {s \in d.symbols : s.name = name}
FilesOf(cands) == {s.file : s \in cands}

\* Mutant: whatever is imported from a file, all it defines counts as imported.
BoundByFile(d, file, name) ==
    {i.resolved : i \in {j \in d.imports : j.file = file /\ j.resolved # 0}}

\* The files a caller's imports bind this name to.
Bound(d, file, name) ==
    {i.resolved : i \in {j \in d.imports :
                           j.file = file /\ j.name = name /\ j.resolved # 0}}

SameFile(d, file, name) == {s \in Candidates(d, name) : s.file = file}
Imported(d, file, name) ==
    {s \in Candidates(d, name) : s.file \in Bound(d, file, name)}

\* decide_raw: the definitions one of which is meant; none when ambiguous.
Meant(d, file, name) ==
    IF SameFile(d, file, name) # {} THEN SameFile(d, file, name)
    ELSE IF Imported(d, file, name) # {}
      THEN IF Cardinality(FilesOf(Imported(d, file, name))) = 1
             THEN Imported(d, file, name) ELSE {}
    ELSE IF Cardinality(FilesOf(Candidates(d, name))) = 1
      THEN Candidates(d, name) ELSE {}

Resolves(d, row) == Meant(d, row.file, row.name) # {}

\* A receiver caps the tier: its type is not known.
Tier(d, row) ==
    IF /\ ~row.recv
       /\ SameFile(d, row.file, row.name) \cup
            Imported(d, row.file, row.name) # {}
      THEN "exact" ELSE "probable"

\* best: the first of them in the file.
EdgeFor(d, row) ==
    [src |-> row.encl,
     dst |-> Min({s.id : s \in Meant(d, row.file, row.name)}),
     tier |-> Tier(d, row),
     line |-> row.line,
     recv |-> row.recv]

\* resolve_calls: a call outside any definition has no source for an edge.
ResolveCalls(d, rows) ==
    LET linked == {r \in rows : r.encl # 0 /\ Resolves(d, r)}
    IN [d EXCEPT !.edges = @ \cup {EdgeFor(d, r) : r \in linked},
                 !.unresolved = @ \cup (rows \ linked)]

\* resolve_all: rows whose enclosing symbol is gone are passed over.
ResolveAll(d) ==
    LET linked == {r \in d.unresolved :
                     r.encl \in SymbolIds(d) /\ Resolves(d, r)}
    IN [d EXCEPT !.edges = @ \cup {EdgeFor(d, r) : r \in linked},
                 !.unresolved = @ \ linked]

\* Mutant: what is resolved stays resolved.
KeepResolved(d, names) == d

\* The row an edge came from, when both its ends are still there.
Joins(d, e) == e.src \in SymbolIds(d) /\ e.dst \in SymbolIds(d)
Symbol(d, id) == CHOOSE s \in d.symbols : s.id = id
RowOf(d, e) ==
    [file |-> Symbol(d, e.src).file, name |-> Symbol(d, e.dst).name,
     encl |-> e.src, line |-> e.line, recv |-> e.recv]

\* reconsider_resolved_calls: the edges to any definition of these names go
\* back to the unresolved calls.
Reconsider(d, names) ==
    LET to == {e \in d.edges : \E s \in d.symbols :
                                 s.id = e.dst /\ s.name \in names}
    IN [d EXCEPT !.edges = @ \ to,
                 !.unresolved = @ \cup
                   {RowOf(d, e) : e \in {k \in to : Joins(d, k)}}]

----------------------------------------------------------------------------
(* Files.                                                                  *)

\* Mutant: only the edges out of the file are deleted.
ClearOutgoing(d, file) ==
    LET own == {s.id : s \in SymbolsOf(d, file)}
    IN [d EXCEPT !.edges = {e \in @ : e.src \notin own},
                 !.symbols = {s \in @ : s.file # file},
                 !.imports = {i \in @ : i.file # file},
                 !.unresolved = {r \in @ : r.file # file}]

\* Mutant: the unresolved calls of the file stay.
ClearKeepsCalls(d, file) ==
    LET own == {s.id : s \in SymbolsOf(d, file)}
    IN [d EXCEPT !.edges = {e \in @ : e.src \notin own /\ e.dst \notin own},
                 !.symbols = {s \in @ : s.file # file},
                 !.imports = {i \in @ : i.file # file}]

\* What replace_file and remove_file delete: the rows of the file and every
\* edge into it.
Clear(d, file) ==
    LET own == {s.id : s \in SymbolsOf(d, file)}
    IN [d EXCEPT !.edges = {e \in @ : e.src \notin own /\ e.dst \notin own},
                 !.symbols = {s \in @ : s.file # file},
                 !.imports = {i \in @ : i.file # file},
                 !.unresolved = {r \in @ : r.file # file}]

\* replace_file
ReplaceRow(d, f, c) ==
    LET id == IF d.ids[f] # 0 THEN d.ids[f]
              ELSE MaxOf({d.ids[g] : g \in Files}) + 1
    IN [Clear(d, id) EXCEPT !.ids[f] = id, !.stored[f] = c]

\* remove_file
RemoveRow(d, f) ==
    IF d.ids[f] = 0 THEN d
    ELSE [Clear(d, d.ids[f]) EXCEPT !.ids[f] = 0, !.stored[f] = Absent]

\* The symbols, imports and calls of a file that has just been replaced.
InsertSource(d, f, c) ==
    LET base == MaxOf(SymbolIds(d))
        rows == CallRows(d.ids[f], c.calls, base)
    IN ResolveCalls(
         [d EXCEPT !.symbols = @ \cup SymbolRows(d.ids[f], c.defs, base),
                   !.imports = @ \cup ImportRows(d.ids, d.ids[f], c.imports)],
         rows)

\* The edges into a file from other files, as unresolved calls.
Demoted(d, f) ==
    {RowOf(d, e) : e \in {k \in d.edges :
       /\ Joins(d, k)
       /\ Symbol(d, k.dst).file = d.ids[f]
       /\ Symbol(d, k.src).file # d.ids[f]}}

\* build_graph, into a new database: files, then symbols, then imports, then
\* calls, so that every call sees every file.
Present(w) == {f \in Listed : w[f] # Absent}
PlaceOf(f) == CHOOSE i \in DOMAIN Walk : Walk[i] = f
Earlier(w, f) == {g \in Present(w) : PlaceOf(g) < PlaceOf(f)}
Definitions(w, fs) == UNION {{g} \X DOMAIN w[g].defs : g \in fs}

FileId(w, f) == IF f \in Present(w) THEN Cardinality(Earlier(w, f)) + 1 ELSE 0
Base(w, f) == Cardinality(Definitions(w, Earlier(w, f)))

BuiltRows(w) ==
    LET ids == [f \in Files |-> FileId(w, f)]
    IN [Empty EXCEPT
          !.ids = ids,
          !.stored = w,
          !.symbols = UNION {SymbolRows(ids[f], w[f].defs, Base(w, f)) :
                               f \in Present(w)},
          !.imports = UNION {ImportRows(ids, ids[f], w[f].imports) :
                               f \in Present(w)},
          !.stamp = w]

BuiltCalls(w) ==
    UNION {CallRows(FileId(w, f), w[f].calls, Base(w, f)) : f \in Present(w)}

Built(w) == ResolveCalls(BuiltRows(w), BuiltCalls(w))

\* freshness_signature: what a walk finds.
Signature(w) == [f \in Files |-> IF f \in Listed THEN w[f] ELSE Absent]

\* The row of the earlier definition is deleted, but not what its calls say
\* encloses them.
DefinesTwice(c) ==
    c # Absent /\ \E i, j \in DOMAIN c.defs : i # j /\ c.defs[i] = c.defs[j]

----------------------------------------------------------------------------
Init ==
    /\ work \in [Files -> Content]
    /\ db = Empty
    /\ published = FALSE
    /\ handle = FALSE
    /\ pc = "idle"
    /\ target = Walk[1]
    /\ source = Absent
    /\ inputs = Nothing
    /\ place = 1
    /\ dropped = {}
    /\ torn = FALSE
    /\ doubled = FALSE
    /\ skewed = {}
    /\ settled = TRUE

Edit(f, c) ==
    /\ c # work[f]
    /\ work' = [work EXCEPT ![f] = c]
    /\ UNCHANGED <<db, published, handle, pc, update, build, history>>

\* Service::remove_file: nothing is resolved again, nothing is stamped.
RemoveFile(f) ==
    /\ pc = "idle"
    /\ published
    /\ db.ids[f] # 0
    /\ db' = RemoveRow(db, f)
    /\ handle' = FALSE
    /\ dropped' = {s \in dropped : s.file # f} \cup
         {[file |-> Path(db, r.file), line |-> r.line] : r \in Demoted(db, f)}
    /\ skewed' = skewed \cup {f}
    /\ settled' = FALSE
    /\ UNCHANGED <<work, published, pc, update, build, torn, doubled>>

----------------------------------------------------------------------------
(* update_file                                                             *)

\* Mutant: the incoming calls are not kept.
DemoteNothing(f) ==
    /\ pc = "idle"
    /\ published
    /\ target' = f
    /\ handle' = FALSE
    /\ pc' = "read"
    /\ UNCHANGED <<work, db, published, source, build, history>>

\* Service::refresh_file, and the incoming calls kept as unresolved ones.
Demote(f) ==
    /\ pc = "idle"
    /\ published
    /\ db' = [db EXCEPT !.unresolved = @ \cup Demoted(db, f)]
    /\ target' = f
    /\ handle' = FALSE
    /\ pc' = "read"
    /\ UNCHANGED <<work, published, source, build, history>>

Replace ==
    /\ pc = "read"
    /\ source' = work[target]
    /\ IF source' = Absent
         THEN db' = RemoveRow(db, target) /\ pc' = "resolve"
         ELSE db' = ReplaceRow(db, target, source') /\ pc' = "insert"
    /\ dropped' = {s \in dropped : s.file # target}
    /\ doubled' = (doubled \/ DefinesTwice(source'))
    /\ UNCHANGED <<work, published, handle, target, build, torn, skewed,
                   settled>>

Insert ==
    /\ pc = "insert"
    /\ db' = InsertSource(db, target, source)
    /\ pc' = "reconsider"
    /\ UNCHANGED <<work, published, handle, update, build, history>>

ReconsiderCalls ==
    /\ pc = "reconsider"
    /\ db' = Reconsider(db, {source.defs[i] : i \in DOMAIN source.defs})
    /\ pc' = "resolve"
    /\ UNCHANGED <<work, published, handle, update, build, history>>

ResolveStored ==
    /\ pc = "resolve"
    /\ db' = ResolveAll(db)
    /\ pc' = "stamp"
    /\ UNCHANGED <<work, published, handle, update, build, history>>

Stamp ==
    /\ pc = "stamp"
    /\ db' = [db EXCEPT !.stamp = Signature(work)]
    /\ pc' = "idle"
    /\ target' = Walk[1]
    /\ source' = Absent
    /\ skewed' = {f \in Listed : db.stored[f] # work[f]}
    /\ settled' = TRUE
    /\ UNCHANGED <<work, published, handle, build, dropped, torn, doubled>>

UpdateFile == Replace \/ Insert \/ ReconsiderCalls \/ ResolveStored \/ Stamp

----------------------------------------------------------------------------
(* ensure_graph                                                            *)

IsFresh == published /\ db.stamp = Signature(work)

Reuse ==
    /\ pc = "idle"
    /\ ~handle
    /\ IsFresh
    /\ handle' = TRUE
    /\ UNCHANGED <<work, db, published, pc, update, build, history>>

\* rebuild_graph: the new database is built beside the old one.
StartBuild ==
    /\ pc = "idle"
    /\ ~handle
    /\ ~IsFresh
    /\ pc' = "collect"
    /\ UNCHANGED <<work, db, published, handle, update, build, history>>

\* collect_files reads one file after the other.
Collect ==
    /\ pc = "collect"
    /\ inputs' = [inputs EXCEPT ![Walk[place]] = work[Walk[place]]]
    /\ IF place = Len(Walk) THEN place' = 1 /\ pc' = "check"
                            ELSE place' = place + 1 /\ pc' = pc
    /\ UNCHANGED <<work, db, published, handle, update, history>>

EndBuild == pc' = "idle" /\ inputs' = Nothing /\ place' = 1

\* The signature is taken again, one file after the other, and must be that
\* of what was read.
CheckFile ==
    /\ pc = "check"
    /\ place < Len(Walk)
    /\ work[Walk[place]] = inputs[Walk[place]]
    /\ place' = place + 1
    /\ UNCHANGED <<work, db, published, handle, pc, update, inputs, history>>

GiveUp ==
    /\ pc = "check"
    /\ work[Walk[place]] # inputs[Walk[place]]
    /\ EndBuild
    /\ UNCHANGED <<work, db, published, handle, update, history>>

\* Mutant: the second walk is what is stamped, not what is compared.
PublishSecondWalk ==
    /\ pc = "check"
    /\ place = Len(Walk)
    /\ db' = [Built(inputs) EXCEPT !.stamp = Signature(work)]
    /\ published' = TRUE
    /\ handle' = TRUE
    /\ EndBuild
    /\ dropped' = {}
    /\ torn' = FALSE
    /\ doubled' = \E f \in Listed : DefinesTwice(inputs[f])
    /\ skewed' = {}
    /\ settled' = TRUE
    /\ UNCHANGED <<work, update>>

Publish ==
    /\ pc = "check"
    /\ place = Len(Walk)
    /\ work[Walk[place]] = inputs[Walk[place]]
    /\ db' = Built(inputs)
    /\ published' = TRUE
    /\ handle' = TRUE
    /\ EndBuild
    /\ dropped' = {}
    /\ torn' = FALSE
    /\ doubled' = \E f \in Listed : DefinesTwice(inputs[f])
    /\ skewed' = {}
    /\ settled' = TRUE
    /\ UNCHANGED <<work, update>>

EnsureGraph == Reuse \/ StartBuild \/ Collect \/ CheckFile \/ GiveUp \/ Publish

\* The process ends, or a statement of the database fails and the service
\* drops the error.
Interrupt ==
    /\ pc # "idle" \/ handle
    /\ torn' = (torn \/ pc \in {"read", "insert", "reconsider", "resolve",
                                "stamp"})
    /\ handle' = FALSE
    /\ target' = Walk[1]
    /\ source' = Absent
    /\ EndBuild
    /\ UNCHANGED <<work, db, published, dropped, doubled, skewed, settled>>

Next ==
    \/ \E f \in Files, c \in Content : Edit(f, c)
    \/ \E f \in Files : RemoveFile(f) \/ Demote(f)
    \/ UpdateFile
    \/ EnsureGraph
    \/ Interrupt

Spec == Init /\ [][Next]_vars

----------------------------------------------------------------------------
(* Properties.                                                             *)

FileIds == {db.ids[f] : f \in Files} \ {0}

Tables ==
    /\ \A s \in db.symbols : s.id \in Nat \ {0} /\ s.file \in FileIds
                               /\ s.name \in Names
    /\ \A r \in db.unresolved : r.file \in FileIds /\ r.name \in Names
    /\ \A i \in db.imports : i.file \in FileIds /\ i.name \in Names
    /\ \A e \in db.edges : e.tier \in {"exact", "probable"}

TypeOK ==
    /\ work \in [Files -> Content]
    /\ db.ids \in [Files -> Nat]
    /\ db.stored \in [Files -> Content]
    /\ db.stamp \in [Files -> Content] \cup {None}
    /\ Tables
    /\ published \in BOOLEAN
    /\ handle \in BOOLEAN
    /\ pc \in {"idle", "read", "insert", "reconsider", "resolve", "stamp",
               "collect", "check"}
    /\ target \in Files
    /\ source \in Content
    /\ inputs \in [Files -> Content]
    /\ place \in DOMAIN Walk
    /\ dropped \in SUBSET [file : Files, line : Nat]
    /\ torn \in BOOLEAN
    /\ doubled \in BOOLEAN
    /\ skewed \in SUBSET Files
    /\ settled \in BOOLEAN

\* Nothing interfered with the graph since it was built.
Whole == ~torn /\ ~doubled

Calls(f) == IF db.stored[f] = Absent THEN <<>> ELSE db.stored[f].calls

RowsAt(f, k) == {r \in db.unresolved : r.file = db.ids[f] /\ r.line = k}
EdgesAt(f, k) ==
    {e \in db.edges : /\ e.src \in {s.id : s \in SymbolsOf(db, db.ids[f])}
                      /\ e.line = k}

(***************************************************************************)
(* No call is lost: every call of a file the graph holds is an edge or an  *)
(* unresolved call, however often the files it leads to were replaced, so  *)
(* that an envelope that claims no unresolved callers can be believed.     *)
(* The calls into a file dropped by Service::remove_file are excused, and  *)
(* a graph that an update left half way.                                   *)
(***************************************************************************)
CallsAccounted ==
    handle /\ Whole =>
      \A f \in Files : \A k \in DOMAIN Calls(f) :
        RowsAt(f, k) \cup EdgesAt(f, k) # {}
          \/ [file |-> f, line |-> k] \in dropped

(***************************************************************************)
(* No call is invented: every edge joins two definitions that are there,   *)
(* is a call the source makes under that name, and the only record of it.  *)
(***************************************************************************)
EdgesAreCalls ==
    handle /\ Whole =>
      \A e \in db.edges :
        /\ Joins(db, e)
        /\ \E f \in Files :
             /\ e.line \in DOMAIN Calls(f)
             /\ EdgesAt(f, e.line) = {e}
             /\ RowsAt(f, e.line) = {}
             /\ Calls(f)[e.line].name = Symbol(db, e.dst).name
             /\ db.stored[f].defs[Calls(f)[e.line].at] =
                  Symbol(db, e.src).name

(***************************************************************************)
(* Re-resolution reaches a fixed point: after a build or an update every   *)
(* edge is the one the tiers would choose today, and no unresolved call    *)
(* could be resolved, though the update looked only at changed names.      *)
(***************************************************************************)
ResolvedAsDecided ==
    pc = "idle" /\ settled /\ Whole =>
      /\ \A e \in db.edges : Joins(db, e) =>
           /\ Resolves(db, RowOf(db, e))
           /\ EdgeFor(db, RowOf(db, e)) = e
      /\ \A r \in db.unresolved : r.encl # 0 => ~Resolves(db, r)

\* An import row whose file id has gone to another file.
Misdirected(file, name) ==
    \E i \in db.imports :
      /\ i.file = file
      /\ i.name = name
      /\ i.resolved # 0
      /\ db.ids[i.from] # i.resolved

(***************************************************************************)
(* An exact edge is earned: it stays in its file or goes to a file that    *)
(* the caller's source imports this name from, and has no receiver.  File  *)
(* ids that came back under an import are excused.                         *)
(***************************************************************************)
ExactIsImported ==
    handle /\ Whole =>
      \A e \in db.edges : e.tier = "exact" =>
        LET row == RowOf(db, e)
            file == Symbol(db, e.dst).file
        IN /\ ~e.recv
           /\ \/ file = row.file
              \/ Misdirected(row.file, row.name)
              \/ \E f, g \in Files :
                   /\ db.ids[f] = row.file
                   /\ db.ids[g] = file
                   /\ [from |-> g, name |-> row.name]
                        \in db.stored[f].imports

(***************************************************************************)
(* A build never stamps what it has not read, whatever is edited while it  *)
(* walks the tree: a graph that counts as fresh holds the tree's files as  *)
(* they are.  Excused are the files an incremental update stamped unread   *)
(* or a removal took out, and a graph left half way.                       *)
(***************************************************************************)
StampIsEarned ==
    handle /\ ~torn /\ IsFresh =>
      \A f \in Listed \ skewed : db.stored[f] = work[f]

(***************************************************************************)
(* build.rs:207-209, of the stamp: "publishing this graph as fresh would   *)
(* attach old symbols to a new filesystem signature".  A graph whose stamp *)
(* names the tree holds what the tree's files say.                         *)
(***************************************************************************)
FreshIsCurrent ==
    handle /\ IsFresh => \A f \in Listed : db.stored[f] = work[f]

=============================================================================
