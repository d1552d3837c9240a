-------------------------- MODULE CallGraphProofs --------------------------
(***************************************************************************)
(* CallGraph for every tree, every walk and every set of sources, in       *)
(* whatever order the tree is edited while a build reads and checks it,    *)
(* files are updated and removed, and the service is interrupted.          *)
(*                                                                         *)
(* The stamp.  What a client can see is a graph that is served and counts  *)
(* as fresh.  The invariant says more, of graphs nobody looks at: between  *)
(* updates the stamp names, for every file that is not excused, what its   *)
(* row was read from.  So it no longer matters what the tree is: a stamp   *)
(* that names the tree makes the rows name it too.                         *)
(*                                                                         *)
(* The tables.  Rows belong to files that are there, and no id occurs      *)
(* twice, in a graph that an update left half way too.                     *)
(*                                                                         *)
(* The ledger.  Every call is kept once, as an edge or as an unresolved    *)
(* row, and every edge is the one the tiers would choose, between any two  *)
(* steps of an update, with what each step excepts.                        *)
(***************************************************************************)
EXTENDS CallGraph, SetsOfNumbers, FiniteSetTheorems, SequenceTheorems, TLAPS

Fields == {"ids", "stored", "symbols", "imports", "edges", "unresolved", "stamp"}

\* The database has its tables, and a row or none for every file.
Shaped(d) == DOMAIN d = Fields /\ DOMAIN d.stored = Files

Updating == {"read", "insert", "reconsider", "resolve", "stamp"}
Between == {"idle", "collect", "check"}

\* The service answers from a database that exists, between updates.
ServedInv == handle => published /\ pc = "idle"

\* Between updates, the stamp says of every file what the row says of it.
StampInv ==
    published /\ ~torn /\ pc \in Between =>
      \A f \in Listed \ skewed : db.stamp[f] = db.stored[f]

StampInvariant ==
    /\ Shaped(db)
    /\ DOMAIN inputs = Files
    /\ pc \in Updating \cup Between
    /\ ServedInv
    /\ StampInv

----------------------------------------------------------------------------
(* What the operations on the database leave alone.                        *)

\* Resolution touches neither the rows of the files nor the stamp.
LEMMA ResolveKeeps ==
    ASSUME NEW d, Shaped(d), NEW rows
    PROVE  /\ Shaped(ResolveCalls(d, rows))
           /\ ResolveCalls(d, rows).stored = d.stored
           /\ ResolveCalls(d, rows).stamp = d.stamp
BY DEF ResolveCalls, Shaped, Fields

LEMMA ResolveAllKeeps ==
    ASSUME NEW d, Shaped(d)
    PROVE  /\ Shaped(ResolveAll(d))
           /\ ResolveAll(d).stored = d.stored
           /\ ResolveAll(d).stamp = d.stamp
BY DEF ResolveAll, Shaped, Fields

LEMMA ReconsiderKeeps ==
    ASSUME NEW d, Shaped(d), NEW names
    PROVE  /\ Shaped(Reconsider(d, names))
           /\ Reconsider(d, names).stored = d.stored
           /\ Reconsider(d, names).stamp = d.stamp
BY DEF Reconsider, Shaped, Fields

LEMMA ClearKeeps ==
    ASSUME NEW d, Shaped(d), NEW file
    PROVE  /\ Shaped(Clear(d, file))
           /\ Clear(d, file).stored = d.stored
           /\ Clear(d, file).stamp = d.stamp
BY DEF Clear, Shaped, Fields

\* Inserting what was read of a file leaves the rows of the files alone.
LEMMA InsertKeeps ==
    ASSUME NEW d, Shaped(d), NEW f, NEW c
    PROVE  /\ Shaped(InsertSource(d, f, c))
           /\ InsertSource(d, f, c).stored = d.stored
           /\ InsertSource(d, f, c).stamp = d.stamp
<1> DEFINE base == MaxOf(SymbolIds(d))
           rows == CallRows(d.ids[f], c.calls, base)
           with == [d EXCEPT
             !.symbols = @ \cup SymbolRows(d.ids[f], c.defs, base),
             !.imports = @ \cup ImportRows(d.ids, d.ids[f], c.imports)]
<1>1. Shaped(with) /\ with.stored = d.stored /\ with.stamp = d.stamp
  BY DEF Shaped, Fields
<1>2. InsertSource(d, f, c) = ResolveCalls(with, rows)
  BY Zenon DEF InsertSource
<1> HIDE DEF with, rows
<1> QED BY <1>1, <1>2, ResolveKeeps

LEMMA ReplaceKeeps ==
    ASSUME NEW d, Shaped(d), NEW f, NEW c
    PROVE  /\ Shaped(ReplaceRow(d, f, c))
           /\ ReplaceRow(d, f, c).stamp = d.stamp
           /\ \A g \in Files \ {f} : ReplaceRow(d, f, c).stored[g] = d.stored[g]
<1> DEFINE id == IF d.ids[f] # 0 THEN d.ids[f]
                 ELSE MaxOf({d.ids[g] : g \in Files}) + 1
           cleared == Clear(d, id)
<1>1. /\ Shaped(cleared)
      /\ cleared.stored = d.stored
      /\ cleared.stamp = d.stamp
  BY ClearKeeps
<1>2. ReplaceRow(d, f, c) = [cleared EXCEPT !.ids[f] = id, !.stored[f] = c]
  BY Zenon DEF ReplaceRow
<1> HIDE DEF cleared, id
<1> QED BY <1>1, <1>2 DEF Shaped, Fields

LEMMA RemoveKeeps ==
    ASSUME NEW d, Shaped(d), NEW f
    PROVE  /\ Shaped(RemoveRow(d, f))
           /\ RemoveRow(d, f).stamp = d.stamp
           /\ \A g \in Files \ {f} : RemoveRow(d, f).stored[g] = d.stored[g]
<1> DEFINE cleared == Clear(d, d.ids[f])
<1>1. /\ Shaped(cleared)
      /\ cleared.stored = d.stored
      /\ cleared.stamp = d.stamp
  BY ClearKeeps
<1>2. RemoveRow(d, f) = IF d.ids[f] = 0 THEN d
                        ELSE [cleared EXCEPT !.ids[f] = 0, !.stored[f] = Absent]
  BY Zenon DEF RemoveRow
<1> HIDE DEF cleared
<1> QED BY <1>1, <1>2 DEF Shaped, Fields

\* A build records what it read, and stamps it.
LEMMA BuiltRowsFields ==
    ASSUME NEW w, DOMAIN w = Files
    PROVE  LET e == BuiltRows(w)
           IN  /\ Shaped(e)
               /\ e.stored = w
               /\ e.stamp = w
               /\ e.ids = [f \in Files |-> FileId(w, f)]
               /\ e.symbols = UNION {SymbolRows(e.ids[f], w[f].defs, Base(w, f)) :
                                       f \in Present(w)}
               /\ e.imports = UNION {ImportRows(e.ids, e.ids[f], w[f].imports) :
                                       f \in Present(w)}
               /\ e.edges = {}
               /\ e.unresolved = {}
<1> DEFINE ids == [f \in Files |-> FileId(w, f)]
           symbols == UNION {SymbolRows(ids[f], w[f].defs, Base(w, f)) :
                               f \in Present(w)}
           imports == UNION {ImportRows(ids, ids[f], w[f].imports) :
                               f \in Present(w)}
           e == BuiltRows(w)
<1>1. e = [Empty EXCEPT !.ids = ids, !.stored = w, !.symbols = symbols,
                        !.imports = imports, !.stamp = w]
  BY Zenon DEF BuiltRows
<1> HIDE DEF ids, symbols, imports, e
<1>2. /\ Shaped(e)
      /\ e.stored = w
      /\ e.stamp = w
      /\ e.ids = ids
      /\ e.symbols = symbols
      /\ e.imports = imports
      /\ e.edges = {}
      /\ e.unresolved = {}
  BY <1>1 DEF Empty, Shaped, Fields
<1>3. e.symbols = UNION {SymbolRows(e.ids[f], w[f].defs, Base(w, f)) :
                           f \in Present(w)}
  BY <1>2 DEF symbols
<1>4. e.imports = UNION {ImportRows(e.ids, e.ids[f], w[f].imports) :
                           f \in Present(w)}
  BY <1>2 DEF imports
<1>5. e.ids = [f \in Files |-> FileId(w, f)]
  BY <1>2 DEF ids
<1> QED BY <1>2, <1>3, <1>4, <1>5 DEF e

LEMMA BuiltStampsWhatItRead ==
    ASSUME NEW w, DOMAIN w = Files
    PROVE  /\ Shaped(Built(w))
           /\ Built(w).stored = w
           /\ Built(w).stamp = w
<1> DEFINE rows == BuiltRows(w)
<1>1. Shaped(rows) /\ rows.stored = w /\ rows.stamp = w
  BY BuiltRowsFields
<1>2. Built(w) = ResolveCalls(rows, BuiltCalls(w))
  BY DEF Built
<1> HIDE DEF rows
<1> QED BY <1>1, <1>2, ResolveKeeps

----------------------------------------------------------------------------
LEMMA StampInit ==
    Init => StampInvariant
BY DEF Init, StampInvariant, Between, Shaped, Fields, ServedInv, StampInv, Empty,
       Nothing

\* What happens while no update and no build is at work on the database.
LEMMA OutsideStep ==
    ASSUME StampInvariant,
           \/ \E f \in Files, c \in Content : Edit(f, c)
           \/ \E f \in Files : RemoveFile(f) \/ Demote(f)
           \/ Interrupt
           \/ UNCHANGED vars
    PROVE  StampInvariant'
<1> USE DEF StampInvariant, ServedInv, StampInv, Updating, Between
<1>1. ASSUME NEW f \in Files, NEW c \in Content, Edit(f, c)
      PROVE  StampInvariant'
  BY <1>1 DEF Edit, update, build, history, Shaped, Fields
<1>2. ASSUME NEW f \in Files, RemoveFile(f)
      PROVE  StampInvariant'
  <2>1. /\ Shaped(db')
        /\ db'.stamp = db.stamp
        /\ \A g \in Files \ {f} : db'.stored[g] = db.stored[g]
    BY <1>2, RemoveKeeps DEF RemoveFile
  <2> QED BY <1>2, <2>1 DEF RemoveFile, update, build, Shaped, Fields, Files
<1>3. ASSUME NEW f \in Files, Demote(f)
      PROVE  StampInvariant'
  BY <1>3 DEF Demote, build, history, Shaped, Fields
<1>4. CASE Interrupt
  BY <1>4 DEF Interrupt, EndBuild, Nothing, Shaped, Fields
<1>5. CASE UNCHANGED vars
  BY <1>5 DEF vars, update, build, history, Shaped, Fields
<1> QED BY <1>1, <1>2, <1>3, <1>4, <1>5

\* The steps of update_file.
LEMMA UpdateStep ==
    ASSUME StampInvariant, UpdateFile
    PROVE  StampInvariant'
<1> USE DEF StampInvariant, ServedInv, StampInv, Updating, Between
<1>1. CASE Insert
  <2>1. Shaped(db')
    BY <1>1, InsertKeeps DEF Insert
  <2> QED BY <1>1, <2>1 DEF Insert, update, build, history, Shaped, Fields
<1>2. CASE ReconsiderCalls
  <2>1. Shaped(db')
    BY <1>2, ReconsiderKeeps DEF ReconsiderCalls
  <2> QED BY <1>2, <2>1 DEF ReconsiderCalls, update, build, history, Shaped,
                            Fields
<1>3. CASE ResolveStored
  <2>1. Shaped(db')
    BY <1>3, ResolveAllKeeps DEF ResolveStored
  <2> QED BY <1>3, <2>1 DEF ResolveStored, update, build, history, Shaped,
                            Fields
<1>4. CASE Stamp
  \* What was stamped unread is excused from here on.
  <2>1. Shaped(db') /\ db'.stored = db.stored /\ db'.stamp = Signature(work)
    BY <1>4 DEF Stamp, Shaped, Fields
  <2>2. \A f \in Listed \ skewed' : db'.stamp[f] = db'.stored[f]
    BY <1>4, <2>1 DEF Stamp, Signature, Files
  <2> QED BY <1>4, <2>1, <2>2 DEF Stamp, build
<1>5. CASE Replace
  <2>1. Shaped(db')
    BY <1>5, ReplaceKeeps, RemoveKeeps DEF Replace
  <2> QED BY <1>5, <2>1 DEF Replace, build
<1> QED BY <1>1, <1>2, <1>3, <1>4, <1>5 DEF UpdateFile

\* The steps of ensure_graph.
LEMMA BuildStep ==
    ASSUME StampInvariant, EnsureGraph
    PROVE  StampInvariant'
<1> USE DEF StampInvariant, ServedInv, StampInv, Updating, Between
<1>1. CASE Reuse
  BY <1>1 DEF Reuse, IsFresh, update, build, history, Shaped, Fields
<1>2. CASE StartBuild
  BY <1>2 DEF StartBuild, update, build, history, Shaped, Fields
<1>3. CASE Collect
  BY <1>3 DEF Collect, update, history, Shaped, Fields
<1>4. CASE CheckFile
  BY <1>4 DEF CheckFile, update, history, Shaped, Fields
<1>5. CASE GiveUp
  BY <1>5 DEF GiveUp, EndBuild, Nothing, update, history, Shaped, Fields
<1>6. CASE Publish
  <2>1. Shaped(db') /\ db'.stored = inputs /\ db'.stamp = inputs
    BY <1>6, BuiltStampsWhatItRead DEF Publish
  <2> QED BY <1>6, <2>1 DEF Publish, EndBuild, Nothing
<1> QED BY <1>1, <1>2, <1>3, <1>4, <1>5, <1>6 DEF EnsureGraph

(***************************************************************************)
(* A build never stamps what it has not read: a graph that is served and   *)
(* counts as fresh holds the files of the tree as they are, but for those  *)
(* an update stamped unread or a removal took out, and for a graph that an *)
(* update left half way (rebuild_graph and freshness_signature).           *)
(***************************************************************************)
THEOREM FreshnessIsEarned == Spec => []StampIsEarned
<1>1. StampInvariant /\ [Next]_vars => StampInvariant'
  BY OutsideStep, UpdateStep, BuildStep DEF Next
<1>2. StampInvariant => StampIsEarned
  <2> SUFFICES ASSUME StampInvariant, handle, ~torn, IsFresh,
                      NEW f \in Listed \ skewed
               PROVE  db.stored[f] = work[f]
    BY DEF StampIsEarned
  <2>1. db.stamp[f] = db.stored[f]
    BY DEF StampInvariant, ServedInv, StampInv, Between
  <2>2. db.stamp[f] = work[f]
    BY DEF IsFresh, Signature, Files
  <2> QED BY <2>1, <2>2
<1> QED BY <1>1, <1>2, StampInit, PTL DEF Spec

----------------------------------------------------------------------------
(* The tables of the database, whatever was done to it.                    *)

SymbolType == [id : Nat \ {0}, file : Nat, name : Names]
RowType == [file : Nat, name : Names, encl : Nat, line : Nat, recv : BOOLEAN]
EdgeType == [src : Nat, dst : Nat, tier : {"exact", "probable"}, line : Nat,
             recv : BOOLEAN]
ImportType == [file : Nat, name : Names, from : Files, resolved : Nat]

IdsOf(d) == {d.ids[f] : f \in Files} \ {0}

\* A row for every file there is, and no file id twice.
FilesTyped(d) ==
    /\ d.ids \in [Files -> Nat]
    /\ \A f, g \in Files : d.ids[f] # 0 /\ d.ids[f] = d.ids[g] => f = g
    /\ \E b \in Nat : \A f \in Files : d.ids[f] <= b
    /\ d.stored \in [Files -> Content]
    /\ \A f \in Files : d.ids[f] = 0 <=> d.stored[f] = Absent
    /\ d.stamp \in [Files -> Content] \cup {None}

\* The definitions are in files that are there, and no row id twice.
SymbolsTyped(d) ==
    /\ d.symbols \subseteq SymbolType
    /\ \A s \in d.symbols : s.file \in IdsOf(d)
    /\ \A s, t \in d.symbols : s.id = t.id => s = t
    /\ \E b \in Nat : \A s \in d.symbols : s.id <= b

CallsTyped(d) ==
    /\ d.unresolved \subseteq RowType
    /\ \A r \in d.unresolved : r.file \in IdsOf(d)
    /\ d.edges \subseteq EdgeType

\* An import row is what the source of its file says.
ImportsTyped(d) ==
    /\ d.imports \subseteq ImportType
    /\ \A i \in d.imports : \E f \in Files :
         /\ d.ids[f] = i.file
         /\ d.stored[f] # Absent
         /\ [from |-> i.from, name |-> i.name] \in d.stored[f].imports

Tabled(d) ==
    /\ Shaped(d)
    /\ FilesTyped(d)
    /\ SymbolsTyped(d)
    /\ CallsTyped(d)
    /\ ImportsTyped(d)

\* The rows that resolution reads are the same in both.
SameNames(d, e) ==
    /\ e.ids = d.ids
    /\ e.stored = d.stored
    /\ e.symbols = d.symbols
    /\ e.imports = d.imports

\* What a source holds.
LEMMA SourceTyped ==
    ASSUME NEW c \in Content, c # Absent
    PROVE  /\ DOMAIN c.defs = 1..Len(c.defs)
           /\ Len(c.defs) \in Nat
           /\ \A i \in DOMAIN c.defs : c.defs[i] \in Names
           /\ DOMAIN c.calls = 1..Len(c.calls)
           /\ \A k \in DOMAIN c.calls : /\ k \in Nat
                                        /\ c.calls[k].at \in 0..Len(c.defs)
                                        /\ c.calls[k].name \in Names
                                        /\ c.calls[k].recv \in BOOLEAN
           /\ c.imports \in SUBSET [from : Files, name : Names]
<1>1. c \in SourceType /\ c \in Sources
  BY GraphAssumption DEF Content
<1> DEFINE CallType == [at : Nat, name : Names, recv : BOOLEAN]
<1>2. c.defs \in Seq(Names) /\ c.calls \in Seq(CallType)
      /\ c.imports \in SUBSET [from : Files, name : Names]
  BY <1>1 DEF SourceType
<1> HIDE DEF CallType
<1>3. DOMAIN c.defs = 1..Len(c.defs) /\ Len(c.defs) \in Nat
      /\ \A i \in DOMAIN c.defs : c.defs[i] \in Names
  BY <1>2, LenProperties, ElementOfSeq
<1>4. DOMAIN c.calls = 1..Len(c.calls) /\ Len(c.calls) \in Nat
      /\ \A k \in DOMAIN c.calls : c.calls[k] \in CallType
  BY <1>2, LenProperties, ElementOfSeq
<1>5. \A k \in DOMAIN c.calls : k \in Nat /\ c.calls[k].at \in 0..Len(c.defs)
  BY <1>1, <1>4, GraphAssumption
<1> QED BY <1>2, <1>3, <1>4, <1>5 DEF CallType

\* The number of the next row is beyond all there are.
LEMMA NextNumber ==
    ASSUME NEW b \in Nat, NEW S \in SUBSET Nat, \A x \in S : x <= b
    PROVE  /\ MaxOf(S) \in Nat
           /\ \A x \in S : x <= MaxOf(S)
<1>1. S \cup {0} \in SUBSET (0..b) /\ S \cup {0} # {}
  OBVIOUS
<1> DEFINE m == Max(S \cup {0})
<1>2. m \in S \cup {0} /\ \A x \in S \cup {0} : x <= m
  BY <1>1, GreatestExists
<1> HIDE DEF m
<1>3. m \in Nat /\ \A x \in S : x <= m
  BY <1>2
<1> QED BY <1>3 DEF MaxOf, m

LEMMA NextSymbol ==
    ASSUME NEW d, SymbolsTyped(d)
    PROVE  /\ MaxOf(SymbolIds(d)) \in Nat
           /\ \A s \in d.symbols : s.id <= MaxOf(SymbolIds(d))
<1>1. PICK b \in Nat : \A s \in d.symbols : s.id <= b
  BY DEF SymbolsTyped
<1>2. SymbolIds(d) \in SUBSET Nat /\ \A x \in SymbolIds(d) : x <= b
  BY <1>1 DEF SymbolsTyped, SymbolType, SymbolIds
<1>3. \A s \in d.symbols : s.id \in SymbolIds(d)
  BY DEF SymbolIds
<1> QED BY <1>2, <1>3, NextNumber

LEMMA NextFile ==
    ASSUME NEW d, FilesTyped(d)
    PROVE  LET next == MaxOf({d.ids[g] : g \in Files}) + 1
           IN  /\ next \in Nat \ {0}
               /\ \A g \in Files : d.ids[g] < next
<1>1. PICK b \in Nat : \A f \in Files : d.ids[f] <= b
  BY DEF FilesTyped
<1> DEFINE S == {d.ids[g] : g \in Files}
<1>2. S \in SUBSET Nat /\ \A x \in S : x <= b
  BY <1>1 DEF FilesTyped
<1>3. \A g \in Files : d.ids[g] \in S
  OBVIOUS
<1> HIDE DEF S
<1>4. MaxOf(S) \in Nat /\ \A x \in S : x <= MaxOf(S)
  BY <1>2, NextNumber
<1> DEFINE m == MaxOf(S)
<1> HIDE DEF m
<1>5. m + 1 \in Nat \ {0} /\ \A g \in Files : d.ids[g] < m + 1
  <2>1. m \in Nat /\ \A g \in Files : d.ids[g] \in Nat /\ d.ids[g] <= m
    BY <1>2, <1>3, <1>4 DEF m
  <2> QED BY <2>1
<1> QED BY <1>5 DEF S, m

\* A row id leads to its definition.
LEMMA SymbolFound ==
    ASSUME NEW d, SymbolsTyped(d)
    PROVE  /\ \A s \in d.symbols : Symbol(d, s.id) = s
           /\ \A id \in SymbolIds(d) : /\ Symbol(d, id) \in d.symbols
                                       /\ Symbol(d, id).id = id
<1>1. \A s \in d.symbols : Symbol(d, s.id) = s
  BY Zenon DEF Symbol, SymbolsTyped
<1> QED BY <1>1 DEF SymbolIds

\* The unresolved call that an edge stands for.
LEMMA RowOfTyped ==
    ASSUME NEW d, SymbolsTyped(d), CallsTyped(d), NEW e \in d.edges, Joins(d, e)
    PROVE  /\ RowOf(d, e) \in RowType
           /\ RowOf(d, e).file \in IdsOf(d)
<1>1. /\ Symbol(d, e.src) \in d.symbols
      /\ Symbol(d, e.dst) \in d.symbols
  BY SymbolFound DEF Joins
<1>2. /\ Symbol(d, e.src).file \in Nat
      /\ Symbol(d, e.src).file \in IdsOf(d)
      /\ Symbol(d, e.dst).name \in Names
      /\ e \in EdgeType
  BY <1>1 DEF SymbolsTyped, SymbolType, CallsTyped
<1> QED BY <1>2 DEF RowOf, RowType, EdgeType

LEMMA MeantAreCandidates ==
    ASSUME NEW d, NEW file, NEW name
    PROVE  /\ Meant(d, file, name) \subseteq d.symbols
           /\ \A s \in Meant(d, file, name) : s.name = name
BY DEF Meant, SameFile, Imported, Candidates

\* best: the definition an edge is drawn to is one of those that are meant.
LEMMA EdgeForTyped ==
    ASSUME NEW d, SymbolsTyped(d), NEW r \in RowType, Resolves(d, r)
    PROVE  /\ EdgeFor(d, r) \in EdgeType
           /\ \E s \in Meant(d, r.file, r.name) : EdgeFor(d, r).dst = s.id
<1> DEFINE meant == Meant(d, r.file, r.name)
           ids == {s.id : s \in meant}
<1>1. meant # {} /\ meant \subseteq d.symbols
  BY MeantAreCandidates DEF Resolves
<1> HIDE DEF meant
<1>2. ids \in SUBSET Nat /\ ids # {}
  BY <1>1 DEF SymbolsTyped, SymbolType
<1>3. \A id \in ids : \E s \in meant : id = s.id
  OBVIOUS
<1> HIDE DEF ids
<1>4. Min(ids) \in ids
  BY <1>2, MinFound
<1>5. EdgeFor(d, r) = [src |-> r.encl, dst |-> Min(ids), tier |-> Tier(d, r),
                       line |-> r.line, recv |-> r.recv]
  BY DEF EdgeFor, ids, meant
<1>6. Tier(d, r) \in {"exact", "probable"}
  BY DEF Tier
<1>7. EdgeFor(d, r) \in EdgeType
  <2>1. Min(ids) \in Nat
    BY <1>2, <1>4
  <2>2. r.encl \in Nat /\ r.line \in Nat /\ r.recv \in BOOLEAN
    BY DEF RowType
  <2> QED BY <1>5, <1>6, <2>1, <2>2 DEF EdgeType
<1> QED BY <1>3, <1>4, <1>5, <1>7 DEF meant

----------------------------------------------------------------------------
(* Every operation leaves tables behind.                                   *)

LEMMA CallsReplaced ==
    ASSUME NEW d, Tabled(d), NEW e, Shaped(e), SameNames(d, e),
           e.stamp = d.stamp, CallsTyped(e)
    PROVE  Tabled(e)
<1>1. FilesTyped(e) /\ IdsOf(e) = IdsOf(d)
  BY DEF Tabled, FilesTyped, SameNames, IdsOf
<1>2. SymbolsTyped(e)
  BY <1>1 DEF Tabled, SymbolsTyped, SameNames
<1>3. ImportsTyped(e)
  BY DEF Tabled, ImportsTyped, SameNames
<1> QED BY <1>1, <1>2, <1>3 DEF Tabled

\* The rows that become edges, of those of a file and of those stored.
Linkable(d, rows) == {r \in rows : r.encl # 0 /\ Resolves(d, r)}
LinkableAgain(d) ==
    {r \in d.unresolved : r.encl \in SymbolIds(d) /\ Resolves(d, r)}

\* The edges that these rows become.
EdgesFor(d, rows) == {EdgeFor(d, r) : r \in rows}

\* Linking unresolved calls of a database makes edges.
LEMMA LinkedTyped ==
    ASSUME NEW d, SymbolsTyped(d), NEW linked,
           linked \subseteq RowType, \A r \in linked : Resolves(d, r)
    PROVE  EdgesFor(d, linked) \subseteq EdgeType
<1>1. ASSUME NEW r \in linked
      PROVE  EdgeFor(d, r) \in EdgeType
  BY EdgeForTyped
<1> QED BY <1>1 DEF EdgesFor

LEMMA ResolveCallsFields ==
    ASSUME NEW d, Shaped(d), NEW rows
    PROVE  /\ ResolveCalls(d, rows).edges =
                d.edges \cup EdgesFor(d, Linkable(d, rows))
           /\ ResolveCalls(d, rows).unresolved =
                d.unresolved \cup (rows \ Linkable(d, rows))
           /\ SameNames(d, ResolveCalls(d, rows))
<1> DEFINE linked == Linkable(d, rows)
           new == EdgesFor(d, linked)
<1>1. ResolveCalls(d, rows) =
        [d EXCEPT !.edges = @ \cup new, !.unresolved = @ \cup (rows \ linked)]
  BY Zenon DEF ResolveCalls, EdgesFor, Linkable
<1> HIDE DEF new, linked
<1>2. /\ ResolveCalls(d, rows).edges = d.edges \cup new
      /\ ResolveCalls(d, rows).unresolved = d.unresolved \cup (rows \ linked)
      /\ SameNames(d, ResolveCalls(d, rows))
  BY <1>1 DEF Shaped, Fields, SameNames
<1> QED BY <1>2 DEF new, linked

LEMMA ResolveAllFields ==
    ASSUME NEW d, Shaped(d)
    PROVE  /\ ResolveAll(d).edges =
                d.edges \cup EdgesFor(d, LinkableAgain(d))
           /\ ResolveAll(d).unresolved = d.unresolved \ LinkableAgain(d)
           /\ SameNames(d, ResolveAll(d))
<1> DEFINE linked == LinkableAgain(d)
           new == EdgesFor(d, linked)
<1>1. ResolveAll(d) =
        [d EXCEPT !.edges = @ \cup new, !.unresolved = @ \ linked]
  BY Zenon DEF ResolveAll, EdgesFor, LinkableAgain
<1> HIDE DEF new, linked
<1>2. /\ ResolveAll(d).edges = d.edges \cup new
      /\ ResolveAll(d).unresolved = d.unresolved \ linked
      /\ SameNames(d, ResolveAll(d))
  BY <1>1 DEF Shaped, Fields, SameNames
<1> QED BY <1>2 DEF new, linked

LEMMA ResolveCallsTabled ==
    ASSUME NEW d, Tabled(d), NEW rows, rows \subseteq RowType,
           \A r \in rows : r.file \in IdsOf(d)
    PROVE  Tabled(ResolveCalls(d, rows))
<1> DEFINE linked == Linkable(d, rows)
           e == ResolveCalls(d, rows)
<1>1. linked \subseteq rows /\ \A r \in linked : Resolves(d, r)
  BY DEF Linkable
<1>2. /\ e.edges = d.edges \cup EdgesFor(d, linked)
      /\ e.unresolved = d.unresolved \cup (rows \ linked)
      /\ SameNames(d, e)
  BY ResolveCallsFields DEF Tabled
<1>3. Shaped(e) /\ e.stamp = d.stamp
  BY ResolveKeeps DEF Tabled
<1> HIDE DEF linked, e
<1>4. EdgesFor(d, linked) \subseteq EdgeType
  BY <1>1, LinkedTyped DEF Tabled
<1>5. CallsTyped(e)
  <2>1. IdsOf(e) = IdsOf(d)
    BY <1>2 DEF SameNames, IdsOf
  <2> QED BY <1>1, <1>2, <1>4, <2>1 DEF Tabled, CallsTyped
<1>6. Tabled(e)
  BY <1>2, <1>3, <1>5, CallsReplaced
<1> QED BY <1>6 DEF e

LEMMA ResolveAllTabled ==
    ASSUME NEW d, Tabled(d)
    PROVE  Tabled(ResolveAll(d))
<1> DEFINE linked == LinkableAgain(d)
           e == ResolveAll(d)
<1>1. linked \subseteq d.unresolved /\ \A r \in linked : Resolves(d, r)
  BY DEF LinkableAgain
<1>2. /\ e.edges = d.edges \cup EdgesFor(d, linked)
      /\ e.unresolved = d.unresolved \ linked
      /\ SameNames(d, e)
  BY ResolveAllFields DEF Tabled
<1>3. Shaped(e) /\ e.stamp = d.stamp
  BY ResolveAllKeeps DEF Tabled
<1> HIDE DEF linked, e
<1>4. EdgesFor(d, linked) \subseteq EdgeType
  <2>1. linked \subseteq RowType
    BY <1>1 DEF Tabled, CallsTyped
  <2> QED BY <1>1, <2>1, LinkedTyped DEF Tabled
<1>5. CallsTyped(e)
  <2>1. IdsOf(e) = IdsOf(d)
    BY <1>2 DEF SameNames, IdsOf
  <2> QED BY <1>1, <1>2, <1>4, <2>1 DEF Tabled, CallsTyped
<1>6. Tabled(e)
  BY <1>2, <1>3, <1>5, CallsReplaced
<1> QED BY <1>6 DEF e

\* The edges to definitions of these names, and the rows of edges.
EdgesTo(d, names) ==
    {e \in d.edges : \E s \in d.symbols : s.id = e.dst /\ s.name \in names}
RowsOf(d, edges) == {RowOf(d, e) : e \in edges}

\* Edges that join go back to being unresolved calls.
LEMMA DemotedTyped ==
    ASSUME NEW d, Tabled(d), NEW S, S \subseteq d.edges,
           \A e \in S : Joins(d, e)
    PROVE  /\ RowsOf(d, S) \subseteq RowType
           /\ \A r \in RowsOf(d, S) : r.file \in IdsOf(d)
<1>1. ASSUME NEW e \in S
      PROVE  RowOf(d, e) \in RowType /\ RowOf(d, e).file \in IdsOf(d)
  BY RowOfTyped DEF Tabled
<1> QED BY <1>1 DEF RowsOf

LEMMA ReconsiderFields ==
    ASSUME NEW d, Shaped(d), NEW names
    PROVE  LET to == EdgesTo(d, names)
           IN  /\ Reconsider(d, names).edges = d.edges \ to
               /\ Reconsider(d, names).unresolved =
                    d.unresolved \cup RowsOf(d, {k \in to : Joins(d, k)})
               /\ SameNames(d, Reconsider(d, names))
<1> DEFINE to == EdgesTo(d, names)
           back == RowsOf(d, {k \in to : Joins(d, k)})
<1>1. Reconsider(d, names) =
        [d EXCEPT !.edges = @ \ to, !.unresolved = @ \cup back]
  BY Zenon DEF Reconsider, EdgesTo, RowsOf
<1> HIDE DEF back, to
<1>2. /\ Reconsider(d, names).edges = d.edges \ to
      /\ Reconsider(d, names).unresolved = d.unresolved \cup back
      /\ SameNames(d, Reconsider(d, names))
  BY <1>1 DEF Shaped, Fields, SameNames
<1> QED BY <1>2 DEF back, to

LEMMA ReconsiderTabled ==
    ASSUME NEW d, Tabled(d), NEW names
    PROVE  Tabled(Reconsider(d, names))
<1> DEFINE to == EdgesTo(d, names)
           back == {k \in to : Joins(d, k)}
           e == Reconsider(d, names)
<1>1. /\ e.edges = d.edges \ to
      /\ e.unresolved = d.unresolved \cup RowsOf(d, back)
      /\ SameNames(d, e)
  BY ReconsiderFields DEF Tabled
<1>2. Shaped(e) /\ e.stamp = d.stamp
  BY ReconsiderKeeps DEF Tabled
<1>3. back \subseteq d.edges /\ \A k \in back : Joins(d, k)
  BY DEF EdgesTo
<1> HIDE DEF to, back, e
<1>4. /\ RowsOf(d, back) \subseteq RowType
      /\ \A r \in RowsOf(d, back) : r.file \in IdsOf(d)
  BY <1>3, DemotedTyped
<1>5. CallsTyped(e)
  <2>1. IdsOf(e) = IdsOf(d)
    BY <1>1 DEF SameNames, IdsOf
  <2> QED BY <1>1, <1>4, <2>1 DEF Tabled, CallsTyped
<1>6. Tabled(e)
  BY <1>1, <1>2, <1>5, CallsReplaced
<1> QED BY <1>6 DEF e

LEMMA DemoteTabled ==
    ASSUME NEW d, Tabled(d), NEW f
    PROVE  Tabled([d EXCEPT !.unresolved = @ \cup Demoted(d, f)])
<1> DEFINE back == {k \in d.edges : /\ Joins(d, k)
                                    /\ Symbol(d, k.dst).file = d.ids[f]
                                    /\ Symbol(d, k.src).file # d.ids[f]}
           e == [d EXCEPT !.unresolved = @ \cup Demoted(d, f)]
<1>1. back \subseteq d.edges /\ \A k \in back : Joins(d, k)
  OBVIOUS
<1>2. Demoted(d, f) = RowsOf(d, back)
  BY Zenon DEF Demoted, RowsOf
<1> HIDE DEF back
<1>3. /\ Demoted(d, f) \subseteq RowType
      /\ \A r \in Demoted(d, f) : r.file \in IdsOf(d)
  BY <1>1, <1>2, DemotedTyped
<1>4. /\ e.unresolved = d.unresolved \cup Demoted(d, f)
      /\ SameNames(d, e)
      /\ Shaped(e)
      /\ e.stamp = d.stamp
      /\ e.edges = d.edges
  BY DEF Tabled, Shaped, Fields, SameNames
<1> HIDE DEF e
<1>5. CallsTyped(e)
  <2>1. IdsOf(e) = IdsOf(d)
    BY <1>4 DEF SameNames, IdsOf
  <2> QED BY <1>3, <1>4, <2>1 DEF Tabled, CallsTyped
<1>6. Tabled(e)
  BY <1>4, <1>5, CallsReplaced
<1> QED BY <1>6 DEF e

\* What replace_file and remove_file leave of the tables.
LEMMA ClearFields ==
    ASSUME NEW d, Shaped(d), NEW file
    PROVE  /\ Clear(d, file).ids = d.ids
           /\ Clear(d, file).symbols = {s \in d.symbols : s.file # file}
           /\ Clear(d, file).imports = {i \in d.imports : i.file # file}
           /\ Clear(d, file).unresolved = {r \in d.unresolved : r.file # file}
           /\ Clear(d, file).edges =
                {e \in d.edges : /\ e.src \notin {s.id : s \in SymbolsOf(d, file)}
                                 /\ e.dst \notin {s.id : s \in SymbolsOf(d, file)}}
<1> DEFINE own == {s.id : s \in SymbolsOf(d, file)}
           edges == {e \in d.edges : e.src \notin own /\ e.dst \notin own}
           symbols == {s \in d.symbols : s.file # file}
           imports == {i \in d.imports : i.file # file}
           unresolved == {r \in d.unresolved : r.file # file}
<1>1. Clear(d, file) = [d EXCEPT !.edges = edges, !.symbols = symbols,
                                 !.imports = imports, !.unresolved = unresolved]
  BY Zenon DEF Clear
<1> HIDE DEF edges, symbols, imports, unresolved
<1>2. /\ Clear(d, file).ids = d.ids
      /\ Clear(d, file).symbols = symbols
      /\ Clear(d, file).imports = imports
      /\ Clear(d, file).unresolved = unresolved
      /\ Clear(d, file).edges = edges
  BY <1>1 DEF Shaped, Fields
<1> QED BY <1>2 DEF edges, symbols, imports, unresolved

\* The row of one file is written, and what was read of it is not there yet:
\* the tables of the other files are the same.
Written(d, file, f, id, c) ==
    [Clear(d, file) EXCEPT !.ids[f] = id, !.stored[f] = c]

Rewritten(d, e, file, f, id, c) ==
    /\ e.ids = [d.ids EXCEPT ![f] = id]
    /\ e.stored = [d.stored EXCEPT ![f] = c]
    /\ e.symbols = {s \in d.symbols : s.file # file}
    /\ e.imports = {i \in d.imports : i.file # file}
    /\ e.unresolved = {r \in d.unresolved : r.file # file}
    /\ e.edges = {k \in d.edges :
         /\ k.src \notin {s.id : s \in SymbolsOf(d, file)}
         /\ k.dst \notin {s.id : s \in SymbolsOf(d, file)}}

LEMMA RowTabled ==
    ASSUME NEW d, Tabled(d), NEW f \in Files, NEW file \in Nat \ {0},
           d.ids[f] # 0 => file = d.ids[f],
           d.ids[f] = 0 => \A g \in Files : d.ids[g] # file,
           NEW id \in Nat, NEW c \in Content,
           id = 0 <=> c = Absent, id # 0 => id = file
    PROVE  /\ Tabled(Written(d, file, f, id, c))
           /\ Rewritten(d, Written(d, file, f, id, c), file, f, id, c)
<1> DEFINE own == {s.id : s \in SymbolsOf(d, file)}
           edges == {k \in d.edges : k.src \notin own /\ k.dst \notin own}
           symbols == {s \in d.symbols : s.file # file}
           imports == {i \in d.imports : i.file # file}
           unresolved == {r \in d.unresolved : r.file # file}
           cleared == Clear(d, file)
           e == Written(d, file, f, id, c)
<1>1. /\ Shaped(cleared)
      /\ cleared.stored = d.stored
      /\ cleared.stamp = d.stamp
  BY ClearKeeps DEF Tabled
<1>2. /\ cleared.ids = d.ids
      /\ cleared.symbols = symbols
      /\ cleared.imports = imports
      /\ cleared.unresolved = unresolved
      /\ cleared.edges = edges
  BY ClearFields DEF Tabled
<1>3. /\ symbols \subseteq d.symbols /\ \A s \in symbols : s.file # file
      /\ imports \subseteq d.imports /\ \A i \in imports : i.file # file
      /\ unresolved \subseteq d.unresolved
      /\ \A r \in unresolved : r.file # file
      /\ edges \subseteq d.edges
  OBVIOUS
<1>4. e = [cleared EXCEPT !.ids[f] = id, !.stored[f] = c]
  BY DEF Written
<1> HIDE DEF edges, symbols, imports, unresolved, cleared, own, e
<1>5. /\ Shaped(e)
      /\ e.stamp = d.stamp
      /\ e.ids = [d.ids EXCEPT ![f] = id]
      /\ e.stored = [d.stored EXCEPT ![f] = c]
      /\ e.symbols = symbols
      /\ e.imports = imports
      /\ e.unresolved = unresolved
      /\ e.edges = edges
  BY <1>1, <1>2, <1>4 DEF Shaped, Fields
<1>6. \A g \in Files \ {f} : e.ids[g] = d.ids[g] /\ e.stored[g] = d.stored[g]
      /\ d.ids[g] # file
  BY <1>5 DEF Tabled, FilesTyped
<1>7. e.ids[f] = id /\ e.stored[f] = c
  BY <1>5 DEF Tabled, FilesTyped
<1>8. FilesTyped(e)
  <2>1. e.ids \in [Files -> Nat] /\ e.stored \in [Files -> Content]
    BY <1>5 DEF Tabled, FilesTyped
  <2>2. \A g, h \in Files : e.ids[g] # 0 /\ e.ids[g] = e.ids[h] => g = h
    BY <1>6, <1>7 DEF Tabled, FilesTyped
  <2>3. \A g \in Files : e.ids[g] = 0 <=> e.stored[g] = Absent
    BY <1>6, <1>7 DEF Tabled, FilesTyped
  <2>4. PICK b \in Nat : \A g \in Files : d.ids[g] <= b
    BY DEF Tabled, FilesTyped
  <2>5. b + id \in Nat /\ \A g \in Files : e.ids[g] <= b + id
    <3>1. \A g \in Files : e.ids[g] \in Nat
      BY <2>1
    <3> QED BY <1>6, <1>7, <2>4, <3>1
  <2>6. e.stamp \in [Files -> Content] \cup {None}
    BY <1>5 DEF Tabled, FilesTyped
  <2> QED BY <2>1, <2>2, <2>3, <2>5, <2>6 DEF FilesTyped
<1>9. \A x \in IdsOf(d) \ {file} : x \in IdsOf(e)
  <2> SUFFICES ASSUME NEW x \in IdsOf(d) \ {file}
               PROVE  x \in IdsOf(e)
    OBVIOUS
  <2>1. PICK g \in Files : d.ids[g] = x
    BY DEF IdsOf
  <2>2. g # f /\ x # 0
    BY <2>1 DEF IdsOf
  <2> QED BY <1>6, <2>1, <2>2 DEF IdsOf
<1>10. SymbolsTyped(e)
  BY <1>3, <1>5, <1>9 DEF Tabled, SymbolsTyped
<1>11. CallsTyped(e)
  BY <1>3, <1>5, <1>9 DEF Tabled, CallsTyped
<1>12. ImportsTyped(e)
  <2> SUFFICES ASSUME NEW i \in e.imports
               PROVE  \E g \in Files :
                        /\ e.ids[g] = i.file
                        /\ e.stored[g] # Absent
                        /\ [from |-> i.from, name |-> i.name]
                             \in e.stored[g].imports
    BY <1>3, <1>5 DEF Tabled, ImportsTyped
  <2>1. i \in d.imports /\ i.file # file
    BY <1>3, <1>5
  <2>2. PICK g \in Files : /\ d.ids[g] = i.file
                           /\ d.stored[g] # Absent
                           /\ [from |-> i.from, name |-> i.name]
                                \in d.stored[g].imports
    BY <2>1 DEF Tabled, ImportsTyped
  <2>3. g # f
    BY <2>1, <2>2 DEF Tabled, FilesTyped
  <2> QED BY <1>6, <2>2, <2>3
<1>13. Tabled(e)
  BY <1>5, <1>8, <1>10, <1>11, <1>12 DEF Tabled
<1>14. Rewritten(d, e, file, f, id, c)
  BY <1>5 DEF Rewritten, edges, symbols, imports, unresolved, own
<1> QED BY <1>13, <1>14 DEF e

\* The id that replace_file gives a file.
RowId(d, f) == IF d.ids[f] # 0 THEN d.ids[f]
               ELSE MaxOf({d.ids[g] : g \in Files}) + 1

LEMMA RowIdIsNew ==
    ASSUME NEW d, FilesTyped(d), NEW f \in Files
    PROVE  /\ RowId(d, f) \in Nat \ {0}
           /\ d.ids[f] # 0 => RowId(d, f) = d.ids[f]
           /\ d.ids[f] = 0 => \A g \in Files : d.ids[g] # RowId(d, f)
           /\ \A g \in Files \ {f} : d.ids[g] # RowId(d, f)
<1> DEFINE next == MaxOf({d.ids[g] : g \in Files}) + 1
<1>1. next \in Nat \ {0} /\ \A g \in Files : d.ids[g] < next
  BY NextFile
<1>2. RowId(d, f) = IF d.ids[f] # 0 THEN d.ids[f] ELSE next
  BY DEF RowId
<1> HIDE DEF next
<1> QED BY <1>1, <1>2 DEF FilesTyped

LEMMA ReplaceTabled ==
    ASSUME NEW d, Tabled(d), NEW f \in Files, NEW c \in Content, c # Absent
    PROVE  /\ Tabled(ReplaceRow(d, f, c))
           /\ Rewritten(d, ReplaceRow(d, f, c), RowId(d, f), f, RowId(d, f), c)
<1>1. ReplaceRow(d, f, c) = Written(d, RowId(d, f), f, RowId(d, f), c)
  BY Zenon DEF ReplaceRow, RowId, Written
<1>2. /\ RowId(d, f) \in Nat \ {0}
      /\ d.ids[f] # 0 => RowId(d, f) = d.ids[f]
      /\ d.ids[f] = 0 => \A g \in Files : d.ids[g] # RowId(d, f)
  BY RowIdIsNew DEF Tabled
<1> QED BY <1>1, <1>2, RowTabled

LEMMA RemoveTabled ==
    ASSUME NEW d, Tabled(d), NEW f \in Files, d.ids[f] # 0
    PROVE  /\ Tabled(RemoveRow(d, f))
           /\ Rewritten(d, RemoveRow(d, f), d.ids[f], f, 0, Absent)
<1>1. RemoveRow(d, f) = Written(d, d.ids[f], f, 0, Absent)
  BY Zenon DEF RemoveRow, Written
<1>2. d.ids[f] \in Nat \ {0} /\ Absent \in Content
  BY DEF Tabled, FilesTyped, Content
<1> QED BY <1>1, <1>2, RowTabled

\* The definitions of one file are numbered from base on.
LEMMA SymbolRowsTyped ==
    ASSUME NEW c \in Content, c # Absent, NEW file \in Nat, NEW base \in Nat
    PROVE  LET rows == SymbolRows(file, c.defs, base)
           IN  /\ rows \subseteq SymbolType
               /\ \A s \in rows :
                    /\ s.file = file
                    /\ \E i \in 1..Len(c.defs) : /\ s.id = base + i
                                                 /\ s.name = c.defs[i]
               /\ \A s, t \in rows : s.id = t.id => s = t
<1> DEFINE kept == {k \in DOMAIN c.defs :
                      \A j \in DOMAIN c.defs : j > k => c.defs[j] # c.defs[k]}
           Row(i) == [id |-> base + i, file |-> file, name |-> c.defs[i]]
           rows == SymbolRows(file, c.defs, base)
<1>1. rows = {Row(i) : i \in kept}
  BY Zenon DEF SymbolRows
<1>2. kept \subseteq 1..Len(c.defs) /\ Len(c.defs) \in Nat
  BY SourceTyped
<1>3. \A i \in 1..Len(c.defs) : c.defs[i] \in Names
  BY SourceTyped
<1> HIDE DEF kept, rows
<1>4. ASSUME NEW i \in 1..Len(c.defs)
      PROVE  /\ Row(i) \in SymbolType
             /\ Row(i).id = base + i
             /\ Row(i).file = file
             /\ Row(i).name = c.defs[i]
  BY <1>2, <1>3 DEF SymbolType
<1>5. \A i, j \in 1..Len(c.defs) : Row(i).id = Row(j).id => i = j
  BY <1>2
<1> HIDE DEF Row
<1>6. /\ rows \subseteq SymbolType
      /\ \A s \in rows : /\ s.file = file
                         /\ \E i \in 1..Len(c.defs) : /\ s.id = base + i
                                                      /\ s.name = c.defs[i]
      /\ \A s, t \in rows : s.id = t.id => s = t
  BY <1>1, <1>2, <1>4, <1>5
<1> QED BY <1>6 DEF rows

\* No definition of a file that defines nothing twice is deleted for a later
\* one.
LEMMA SymbolRowsComplete ==
    ASSUME NEW c \in Content, c # Absent, ~DefinesTwice(c),
           NEW file \in Nat, NEW base \in Nat
    PROVE  LET rows == SymbolRows(file, c.defs, base)
           IN  /\ \A i \in 1..Len(c.defs) :
                    [id |-> base + i, file |-> file, name |-> c.defs[i]] \in rows
               /\ \A s, t \in rows : s.name = t.name => s = t
<1> DEFINE kept == {k \in DOMAIN c.defs :
                      \A j \in DOMAIN c.defs : j > k => c.defs[j] # c.defs[k]}
           Row(i) == [id |-> base + i, file |-> file, name |-> c.defs[i]]
           rows == SymbolRows(file, c.defs, base)
<1>1. rows = {Row(i) : i \in kept}
  BY Zenon DEF SymbolRows
<1>2. DOMAIN c.defs = 1..Len(c.defs) /\ Len(c.defs) \in Nat
  BY SourceTyped
<1>3. \A i, j \in 1..Len(c.defs) : c.defs[i] = c.defs[j] => i = j
  BY <1>2 DEF DefinesTwice
<1>4. kept = 1..Len(c.defs)
  BY <1>2, <1>3
<1> HIDE DEF kept, rows
<1>5. \A i, j \in 1..Len(c.defs) : Row(i).name = Row(j).name => i = j
  BY <1>3
<1>6. \A i \in 1..Len(c.defs) : Row(i) \in rows
  BY <1>1, <1>4
<1>7. \A s, t \in rows : s.name = t.name => s = t
  <2> HIDE DEF Row
  <2> QED BY <1>1, <1>4, <1>5
<1> QED BY <1>6, <1>7 DEF rows

LEMMA ImportRowsTyped ==
    ASSUME NEW c \in Content, c # Absent, NEW file \in Nat,
           NEW ids \in [Files -> Nat]
    PROVE  LET rows == ImportRows(ids, file, c.imports)
           IN  /\ rows \subseteq ImportType
               /\ \A i \in rows : /\ i.file = file
                                  /\ [from |-> i.from, name |-> i.name]
                                       \in c.imports
<1> DEFINE Row(i) == [file |-> file, name |-> i.name, from |-> i.from,
                      resolved |-> ids[i.from]]
           rows == ImportRows(ids, file, c.imports)
<1>1. rows = {Row(i) : i \in c.imports}
  BY Zenon DEF ImportRows
<1>2. c.imports \in SUBSET [from : Files, name : Names]
  BY SourceTyped
<1>3. ASSUME NEW i \in c.imports
      PROVE  /\ Row(i) \in ImportType
             /\ Row(i).file = file
             /\ [from |-> Row(i).from, name |-> Row(i).name] = i
  BY <1>2 DEF ImportType
<1> HIDE DEF Row, rows
<1>4. /\ rows \subseteq ImportType
      /\ \A i \in rows : /\ i.file = file
                         /\ [from |-> i.from, name |-> i.name] \in c.imports
  BY <1>1, <1>3
<1> QED BY <1>4 DEF rows

LEMMA CallRowsTyped ==
    ASSUME NEW c \in Content, c # Absent, NEW file \in Nat, NEW base \in Nat
    PROVE  LET rows == CallRows(file, c.calls, base)
           IN  /\ rows \subseteq RowType
               /\ \A r \in rows : r.file = file
<1> DEFINE Row(k) == [file |-> file, name |-> c.calls[k].name,
                      encl |-> IF c.calls[k].at = 0 THEN 0
                               ELSE base + c.calls[k].at,
                      line |-> k, recv |-> c.calls[k].recv]
           rows == CallRows(file, c.calls, base)
<1>1. rows = {Row(k) : k \in DOMAIN c.calls}
  BY Zenon DEF CallRows
<1>2. \A k \in DOMAIN c.calls : /\ k \in Nat
                                /\ c.calls[k].at \in Nat
                                /\ c.calls[k].name \in Names
                                /\ c.calls[k].recv \in BOOLEAN
  BY SourceTyped
<1>3. ASSUME NEW k \in DOMAIN c.calls
      PROVE  Row(k) \in RowType /\ Row(k).file = file
  BY <1>2 DEF RowType
<1> HIDE DEF Row, rows
<1>4. rows \subseteq RowType /\ \A r \in rows : r.file = file
  BY <1>1, <1>3
<1> QED BY <1>4 DEF rows

\* The definitions and imports of a file, before its calls.
Inserted(d, f, c) ==
    [d EXCEPT
       !.symbols = @ \cup SymbolRows(d.ids[f], c.defs, MaxOf(SymbolIds(d))),
       !.imports = @ \cup ImportRows(d.ids, d.ids[f], c.imports)]

LEMMA InsertedFields ==
    ASSUME NEW d, Shaped(d), NEW f, NEW c
    PROVE  LET e == Inserted(d, f, c)
           IN  /\ Shaped(e)
               /\ e.ids = d.ids
               /\ e.stored = d.stored
               /\ e.stamp = d.stamp
               /\ e.symbols = d.symbols \cup
                    SymbolRows(d.ids[f], c.defs, MaxOf(SymbolIds(d)))
               /\ e.imports = d.imports \cup
                    ImportRows(d.ids, d.ids[f], c.imports)
               /\ e.edges = d.edges
               /\ e.unresolved = d.unresolved
BY DEF Inserted, Shaped, Fields

LEMMA InsertedTabled ==
    ASSUME NEW d, Tabled(d), NEW f \in Files, d.ids[f] # 0,
           NEW c \in Content, c # Absent, d.stored[f] = c
    PROVE  Tabled(Inserted(d, f, c))
<1> DEFINE e == Inserted(d, f, c)
           base == MaxOf(SymbolIds(d))
           symbols == SymbolRows(d.ids[f], c.defs, base)
           imports == ImportRows(d.ids, d.ids[f], c.imports)
<1>1. /\ Shaped(e)
      /\ e.ids = d.ids
      /\ e.stored = d.stored
      /\ e.stamp = d.stamp
      /\ e.symbols = d.symbols \cup symbols
      /\ e.imports = d.imports \cup imports
      /\ e.edges = d.edges
      /\ e.unresolved = d.unresolved
  BY InsertedFields DEF Tabled
<1>2. base \in Nat /\ \A s \in d.symbols : s.id <= base
  BY NextSymbol DEF Tabled
<1>3. d.ids[f] \in Nat /\ d.ids \in [Files -> Nat] /\ d.ids[f] \in IdsOf(d)
  BY DEF Tabled, FilesTyped, IdsOf
<1> HIDE DEF base
<1>4. /\ symbols \subseteq SymbolType
      /\ \A s \in symbols :
           /\ s.file = d.ids[f]
           /\ \E i \in 1..Len(c.defs) : s.id = base + i
      /\ \A s, t \in symbols : s.id = t.id => s = t
  BY <1>2, <1>3, SymbolRowsTyped
<1>5. /\ imports \subseteq ImportType
      /\ \A i \in imports : /\ i.file = d.ids[f]
                            /\ [from |-> i.from, name |-> i.name] \in c.imports
  BY <1>3, ImportRowsTyped
<1>6. Len(c.defs) \in Nat
  BY SourceTyped
<1> HIDE DEF e, symbols, imports
<1>7. FilesTyped(e) /\ IdsOf(e) = IdsOf(d)
  BY <1>1 DEF Tabled, FilesTyped, IdsOf
<1>8. SymbolsTyped(e)
  <2>1. \A s \in symbols : s.id > base /\ s.id <= base + Len(c.defs)
    BY <1>2, <1>4, <1>6
  <2>2. \A s \in d.symbols, t \in symbols : s.id # t.id
    <3>1. \A s \in d.symbols : s.id \in Nat
      BY DEF Tabled, SymbolsTyped, SymbolType
    <3>2. \A t \in symbols : t.id \in Nat
      BY <1>4 DEF SymbolType
    <3> QED BY <1>2, <2>1, <3>1, <3>2
  <2>3. e.symbols \subseteq SymbolType /\ \A s \in e.symbols : s.file \in IdsOf(e)
    BY <1>1, <1>3, <1>4, <1>7 DEF Tabled, SymbolsTyped
  <2>4. \A s, t \in e.symbols : s.id = t.id => s = t
    BY <1>1, <1>4, <2>2 DEF Tabled, SymbolsTyped
  <2>5. base + Len(c.defs) \in Nat
        /\ \A s \in e.symbols : s.id <= base + Len(c.defs)
    <3>1. \A s \in d.symbols : s.id \in Nat
      BY DEF Tabled, SymbolsTyped, SymbolType
    <3> QED BY <1>1, <1>2, <1>6, <2>1, <3>1
  <2> QED BY <2>3, <2>4, <2>5 DEF SymbolsTyped
<1>9. CallsTyped(e)
  BY <1>1, <1>7 DEF Tabled, CallsTyped
<1>10. ImportsTyped(e)
  <2>1. \A i \in imports : /\ e.ids[f] = i.file
                           /\ e.stored[f] # Absent
                           /\ [from |-> i.from, name |-> i.name]
                                \in e.stored[f].imports
    BY <1>1, <1>5
  <2> QED BY <1>1, <1>5, <2>1 DEF Tabled, ImportsTyped
<1>11. Tabled(e)
  BY <1>1, <1>7, <1>8, <1>9, <1>10 DEF Tabled
<1> QED BY <1>11 DEF e

LEMMA InsertTabled ==
    ASSUME NEW d, Tabled(d), NEW f \in Files, d.ids[f] # 0,
           NEW c \in Content, c # Absent, d.stored[f] = c
    PROVE  Tabled(InsertSource(d, f, c))
<1> DEFINE e == Inserted(d, f, c)
           rows == CallRows(d.ids[f], c.calls, MaxOf(SymbolIds(d)))
<1>1. InsertSource(d, f, c) = ResolveCalls(e, rows)
  BY Zenon DEF InsertSource, Inserted
<1>2. Tabled(e) /\ e.ids = d.ids
  BY InsertedTabled, InsertedFields DEF Tabled
<1>3. d.ids[f] \in Nat /\ d.ids[f] \in IdsOf(e) /\ MaxOf(SymbolIds(d)) \in Nat
  BY <1>2, NextSymbol DEF Tabled, FilesTyped, IdsOf
<1>4. rows \subseteq RowType /\ \A r \in rows : r.file = d.ids[f]
  BY <1>3, CallRowsTyped
<1> HIDE DEF e, rows
<1> QED BY <1>1, <1>2, <1>3, <1>4, ResolveCallsTabled

----------------------------------------------------------------------------
(* A build numbers files and definitions in the order of the walk.         *)

LEMMA ListedIsFinite ==
    /\ IsFiniteSet(Listed)
    /\ \A f \in Listed : PlaceOf(f) \in Nat /\ Walk[PlaceOf(f)] = f
<1>1. DOMAIN Walk = 1..Len(Walk) /\ Len(Walk) \in Nat
  BY GraphAssumption, LenProperties
<1>2. IsFiniteSet(DOMAIN Walk)
  BY <1>1, FS_Interval
<1>3. IsFiniteSet(Listed)
  BY <1>2, ValuesAreFinite DEF Listed
<1>4. \A f \in Listed : PlaceOf(f) \in DOMAIN Walk /\ Walk[PlaceOf(f)] = f
  BY Zenon DEF Listed, PlaceOf
<1> QED BY <1>1, <1>3, <1>4

\* Of two files of the walk one comes first, and the other after it and all
\* that is before it.
LEMMA EarlierGrows ==
    ASSUME NEW w, NEW f \in Present(w), NEW g \in Present(w), f # g
    PROVE  \/ Earlier(w, f) \cup {f} \subseteq Earlier(w, g)
           \/ Earlier(w, g) \cup {g} \subseteq Earlier(w, f)
<1>1. \A h \in Present(w) : PlaceOf(h) \in Nat /\ Walk[PlaceOf(h)] = h
  BY ListedIsFinite DEF Present
<1>2. PlaceOf(f) # PlaceOf(g)
  BY <1>1
<1>3. CASE PlaceOf(f) < PlaceOf(g)
  BY <1>1, <1>3 DEF Earlier
<1>4. CASE PlaceOf(g) < PlaceOf(f)
  BY <1>1, <1>4 DEF Earlier
<1> QED BY <1>1, <1>2, <1>3, <1>4

LEMMA EarlierIsBefore ==
    ASSUME NEW w, NEW f \in Present(w)
    PROVE  Earlier(w, f) \subseteq Present(w) \ {f}
<1>1. PlaceOf(f) \in Nat
  BY ListedIsFinite DEF Present
<1> QED BY <1>1 DEF Earlier

\* The definitions of more files are more by those of each file in between.
LEMMA DefinitionsAdd ==
    ASSUME NEW w \in [Files -> Content], NEW G \in SUBSET Present(w),
           NEW F \in SUBSET G, NEW f \in G \ F
    PROVE  /\ Cardinality(Definitions(w, F)) \in Nat
           /\ Cardinality(Definitions(w, G)) \in Nat
           /\ Cardinality(Definitions(w, F)) + Len(w[f].defs)
                <= Cardinality(Definitions(w, G))
<1>1. \A g \in Present(w) : w[g] \in Content /\ w[g] # Absent
  BY DEF Present, Files
<1>2. ASSUME NEW g \in Present(w)
      PROVE  /\ IsFiniteSet({g} \X DOMAIN w[g].defs)
             /\ Cardinality({g} \X DOMAIN w[g].defs) = Len(w[g].defs)
             /\ Len(w[g].defs) \in Nat
  <2> DEFINE n == Len(w[g].defs)
  <2>1. DOMAIN w[g].defs = 1..n /\ n \in Nat
    BY <1>1, SourceTyped
  <2> HIDE DEF n
  <2>2. IsFiniteSet(1..n) /\ Cardinality(1..n) = n
    BY <2>1, FS_Interval
  <2>3. IsFiniteSet({g}) /\ Cardinality({g}) = 1
    BY FS_Singleton
  <2>4. /\ IsFiniteSet({g} \X (1..n))
        /\ Cardinality({g} \X (1..n)) = Cardinality({g}) * Cardinality(1..n)
    BY <2>2, <2>3, FS_Product
  <2>5. Cardinality({g} \X (1..n)) = n
    BY <2>1, <2>2, <2>3, <2>4
  <2> QED BY <2>1, <2>4, <2>5 DEF n
<1>3. ASSUME NEW H \in SUBSET Present(w)
      PROVE  IsFiniteSet(Definitions(w, H))
  <2> DEFINE Of(g) == {g} \X DOMAIN w[g].defs
             part == [g \in H |-> Of(g)]
             parts == {part[g] : g \in DOMAIN part}
  <2>1. IsFiniteSet(H)
    BY ListedIsFinite, FS_Subset DEF Present
  <2>2. IsFiniteSet(parts)
    BY <2>1, ValuesAreFinite
  <2>3. \A T \in parts : IsFiniteSet(T)
    BY <1>2
  <2>4. Definitions(w, H) = UNION parts
    BY DEF Definitions
  <2> HIDE DEF parts
  <2> QED BY <2>2, <2>3, <2>4, FS_UNION
<1> DEFINE old == Definitions(w, F)
           own == {f} \X DOMAIN w[f].defs
           all == Definitions(w, G)
<1>4. IsFiniteSet(old) /\ IsFiniteSet(all)
  BY <1>3
<1>5. /\ IsFiniteSet(own)
      /\ Cardinality(own) = Len(w[f].defs)
  BY <1>2
<1>6. old \cap own = {}
  BY DEF Definitions
<1>7. old \cup own \subseteq all
  BY DEF Definitions
<1> HIDE DEF old, own, all
<1>8. Cardinality(old) \in Nat /\ Cardinality(all) \in Nat
      /\ Cardinality(own) \in Nat
  BY <1>4, <1>5, FS_CardinalityType
<1>9. Cardinality(old \cup own) =
        Cardinality(old) + Cardinality(own) - Cardinality(old \cap own)
  BY <1>4, <1>5, FS_Union
<1>10. Cardinality(old \cap own) = 0
  BY <1>6, FS_EmptySet
<1>11. Cardinality(old \cup own) <= Cardinality(all)
  BY <1>4, <1>7, FS_Subset
<1>12. Cardinality(old) + Cardinality(own) <= Cardinality(all)
  BY <1>8, <1>9, <1>10, <1>11
<1> QED BY <1>5, <1>8, <1>12 DEF old, all

\* The row ids of the definitions of two files do not overlap.
LEMMA BasesApart ==
    ASSUME NEW w \in [Files -> Content]
    PROVE  \E b \in Nat :
             /\ \A f \in Present(w) :
                  /\ Base(w, f) \in Nat
                  /\ Base(w, f) + Len(w[f].defs) <= b
             /\ \A f, g \in Present(w) : f # g =>
                  \/ Base(w, f) + Len(w[f].defs) <= Base(w, g)
                  \/ Base(w, g) + Len(w[g].defs) <= Base(w, f)
<1> DEFINE b == Cardinality(Definitions(w, Present(w)))
<1>1. ASSUME NEW f \in Present(w)
      PROVE  /\ Base(w, f) \in Nat
             /\ b \in Nat
             /\ Base(w, f) + Len(w[f].defs) <= b
  <2>1. Earlier(w, f) \in SUBSET Present(w) /\ f \in Present(w) \ Earlier(w, f)
    BY EarlierIsBefore
  <2>2. Present(w) \in SUBSET Present(w)
    OBVIOUS
  <2> QED BY <2>1, <2>2, DefinitionsAdd DEF Base
<1>2. ASSUME NEW f \in Present(w), NEW g \in Present(w),
             Earlier(w, f) \cup {f} \subseteq Earlier(w, g)
      PROVE  Base(w, f) + Len(w[f].defs) <= Base(w, g)
  <2>1. /\ Earlier(w, g) \in SUBSET Present(w)
        /\ Earlier(w, f) \in SUBSET Earlier(w, g)
        /\ f \in Earlier(w, g) \ Earlier(w, f)
    BY <1>2, EarlierIsBefore
  <2> QED BY <2>1, DefinitionsAdd DEF Base
<1>3. \A f, g \in Present(w) : f # g =>
        \/ Base(w, f) + Len(w[f].defs) <= Base(w, g)
        \/ Base(w, g) + Len(w[g].defs) <= Base(w, f)
  BY <1>2, EarlierGrows
<1> HIDE DEF b
<1>4. CASE Present(w) = {}
  BY <1>4
<1>5. CASE Present(w) # {}
  <2>1. b \in Nat
    BY <1>1, <1>5
  <2> QED BY <1>1, <1>3, <2>1
<1> QED BY <1>4, <1>5

\* No two files get one id.
LEMMA FileIdsApart ==
    ASSUME NEW w \in [Files -> Content]
    PROVE  \E b \in Nat :
             /\ \A f \in Present(w) :
                  /\ FileId(w, f) \in Nat \ {0}
                  /\ FileId(w, f) <= b
             /\ \A f, g \in Present(w) : FileId(w, f) = FileId(w, g) => f = g
<1>1. IsFiniteSet(Present(w))
  BY ListedIsFinite, FS_Subset DEF Present
<1>2. Cardinality(Present(w)) + 1 \in Nat
  BY <1>1, FS_CardinalityType
<1>3. ASSUME NEW f \in Present(w)
      PROVE  /\ IsFiniteSet(Earlier(w, f))
             /\ Cardinality(Earlier(w, f)) \in Nat
             /\ Cardinality(Earlier(w, f)) <= Cardinality(Present(w))
             /\ FileId(w, f) = Cardinality(Earlier(w, f)) + 1
  <2>1. Earlier(w, f) \in SUBSET Present(w)
    BY EarlierIsBefore
  <2> QED BY <1>1, <2>1, FS_Subset, FS_CardinalityType DEF FileId
<1>4. ASSUME NEW f \in Present(w), NEW g \in Present(w),
             Earlier(w, f) \cup {f} \subseteq Earlier(w, g)
      PROVE  Cardinality(Earlier(w, f)) # Cardinality(Earlier(w, g))
  <2>1. Earlier(w, f) \in SUBSET Earlier(w, g) /\ Earlier(w, f) # Earlier(w, g)
    BY <1>4, EarlierIsBefore
  <2> QED BY <1>3, <2>1, FS_Subset
<1>5. ASSUME NEW f \in Present(w), NEW g \in Present(w),
             FileId(w, f) = FileId(w, g)
      PROVE  f = g
  BY <1>3, <1>4, <1>5, EarlierGrows
<1> DEFINE n == Cardinality(Present(w))
<1>6. \A f \in Present(w) : FileId(w, f) \in Nat \ {0} /\ FileId(w, f) <= n + 1
  <2>1. n \in Nat
    BY <1>1, FS_CardinalityType
  <2> HIDE DEF n
  <2>2. \A f \in Present(w) : /\ Cardinality(Earlier(w, f)) \in Nat
                              /\ Cardinality(Earlier(w, f)) <= n
                              /\ FileId(w, f) = Cardinality(Earlier(w, f)) + 1
    BY <1>3 DEF n
  <2> QED BY <2>1, <2>2
<1> QED BY <1>2, <1>5, <1>6

LEMMA BuiltRowsTabled ==
    ASSUME NEW w \in [Files -> Content],
           \A f \in Files \ Listed : w[f] = Absent
    PROVE  Tabled(BuiltRows(w))
<1> DEFINE e == BuiltRows(w)
<1>1. /\ Shaped(e)
      /\ e.stored = w
      /\ e.stamp = w
      /\ e.ids = [f \in Files |-> FileId(w, f)]
      /\ e.symbols = UNION {SymbolRows(e.ids[f], w[f].defs, Base(w, f)) :
                              f \in Present(w)}
      /\ e.imports = UNION {ImportRows(e.ids, e.ids[f], w[f].imports) :
                              f \in Present(w)}
      /\ e.edges = {}
      /\ e.unresolved = {}
  BY BuiltRowsFields
<1> HIDE DEF e
<1>2. PICK b \in Nat :
        /\ \A f \in Present(w) : FileId(w, f) \in Nat \ {0} /\ FileId(w, f) <= b
        /\ \A f, g \in Present(w) : FileId(w, f) = FileId(w, g) => f = g
  BY FileIdsApart
<1>3. PICK top \in Nat :
        /\ \A f \in Present(w) : /\ Base(w, f) \in Nat
                                 /\ Base(w, f) + Len(w[f].defs) <= top
        /\ \A f, g \in Present(w) : f # g =>
             \/ Base(w, f) + Len(w[f].defs) <= Base(w, g)
             \/ Base(w, g) + Len(w[g].defs) <= Base(w, f)
  BY BasesApart
<1>4. \A f \in Files : /\ f \in Present(w) => w[f] # Absent
                       /\ f \notin Present(w) => w[f] = Absent
  BY DEF Present, Files
<1>5. \A f \in Files : e.ids[f] = FileId(w, f)
  BY <1>1
<1>6. \A f \in Files : f \notin Present(w) => FileId(w, f) = 0
  BY DEF FileId
<1>7. Present(w) \subseteq Files
  BY DEF Present, Files
<1>8. \A f \in Present(w) : /\ e.ids[f] \in Nat \ {0}
                            /\ e.ids[f] \in IdsOf(e)
                            /\ w[f] \in Content
                            /\ w[f] # Absent
  BY <1>2, <1>4, <1>5, <1>7 DEF IdsOf
<1>9. FilesTyped(e)
  <2>1. e.ids \in [Files -> Nat]
    BY <1>1, <1>2, <1>5, <1>6
  <2>2. \A f, g \in Files : e.ids[f] # 0 /\ e.ids[f] = e.ids[g] => f = g
    BY <1>2, <1>5, <1>6
  <2>3. \A f \in Files : e.ids[f] <= b
    BY <1>2, <1>5, <1>6
  <2>4. \A f \in Files : e.ids[f] = 0 <=> e.stored[f] = Absent
    BY <1>1, <1>2, <1>4, <1>5, <1>6
  <2> QED BY <1>1, <2>1, <2>2, <2>3, <2>4 DEF FilesTyped
<1>10. ASSUME NEW f \in Present(w)
       PROVE  LET rows == SymbolRows(e.ids[f], w[f].defs, Base(w, f))
              IN  /\ rows \subseteq SymbolType
                  /\ \A s \in rows :
                       /\ s.file = e.ids[f]
                       /\ s.id > Base(w, f)
                       /\ s.id <= Base(w, f) + Len(w[f].defs)
                  /\ \A s, t \in rows : s.id = t.id => s = t
  <2> DEFINE rows == SymbolRows(e.ids[f], w[f].defs, Base(w, f))
  <2>1. Base(w, f) \in Nat /\ Len(w[f].defs) \in Nat
    BY <1>3, <1>8, SourceTyped
  <2>2. /\ rows \subseteq SymbolType
        /\ \A s \in rows :
             /\ s.file = e.ids[f]
             /\ \E i \in 1..Len(w[f].defs) : s.id = Base(w, f) + i
        /\ \A s, t \in rows : s.id = t.id => s = t
    BY <1>8, <2>1, SymbolRowsTyped
  <2> HIDE DEF rows
  <2>3. \A s \in rows : /\ s.id > Base(w, f)
                        /\ s.id <= Base(w, f) + Len(w[f].defs)
    BY <2>1, <2>2
  <2> QED BY <2>2, <2>3 DEF rows
<1>11. SymbolsTyped(e)
  <2>1. \A s \in e.symbols : \E f \in Present(w) :
          s \in SymbolRows(e.ids[f], w[f].defs, Base(w, f))
    BY <1>1
  <2>2. e.symbols \subseteq SymbolType /\ \A s \in e.symbols : s.file \in IdsOf(e)
    BY <1>8, <1>10, <2>1
  <2>3. ASSUME NEW s \in e.symbols, NEW t \in e.symbols, s.id = t.id
        PROVE  s = t
    <3>1. PICK f \in Present(w) :
            s \in SymbolRows(e.ids[f], w[f].defs, Base(w, f))
      BY <2>1
    <3>2. PICK g \in Present(w) :
            t \in SymbolRows(e.ids[g], w[g].defs, Base(w, g))
      BY <2>1
    <3>3. s.id > Base(w, f) /\ s.id <= Base(w, f) + Len(w[f].defs)
          /\ s.id \in Nat
      BY <1>10, <3>1 DEF SymbolType
    <3>4. t.id > Base(w, g) /\ t.id <= Base(w, g) + Len(w[g].defs)
      BY <1>10, <3>2
    <3>5. Len(w[f].defs) \in Nat /\ Len(w[g].defs) \in Nat
          /\ Base(w, f) \in Nat /\ Base(w, g) \in Nat
      BY <1>3, <1>8, SourceTyped
    <3>6. f = g
      BY <1>3, <2>3, <3>3, <3>4, <3>5
    <3> QED BY <1>10, <2>3, <3>1, <3>2, <3>6
  <2>4. \A s \in e.symbols : s.id <= top
    <3> SUFFICES ASSUME NEW s \in e.symbols
                 PROVE  s.id <= top
      OBVIOUS
    <3>1. PICK f \in Present(w) :
            s \in SymbolRows(e.ids[f], w[f].defs, Base(w, f))
      BY <2>1
    <3>2. s.id \in Nat /\ s.id <= Base(w, f) + Len(w[f].defs)
      BY <1>10, <3>1 DEF SymbolType
    <3>3. Len(w[f].defs) \in Nat /\ Base(w, f) \in Nat
      BY <1>3, <1>8, SourceTyped
    <3> QED BY <1>3, <3>2, <3>3
  <2> QED BY <2>2, <2>3, <2>4 DEF SymbolsTyped
<1>12. CallsTyped(e)
  BY <1>1 DEF CallsTyped
<1>13. ImportsTyped(e)
  <2>1. ASSUME NEW i \in e.imports
        PROVE  /\ i \in ImportType
               /\ \E f \in Files :
                    /\ e.ids[f] = i.file
                    /\ e.stored[f] # Absent
                    /\ [from |-> i.from, name |-> i.name] \in e.stored[f].imports
    <3>1. PICK f \in Present(w) : i \in ImportRows(e.ids, e.ids[f], w[f].imports)
      BY <1>1
    <3>2. e.ids \in [Files -> Nat]
      BY <1>9 DEF FilesTyped
    <3>3. /\ i \in ImportType
          /\ i.file = e.ids[f]
          /\ [from |-> i.from, name |-> i.name] \in w[f].imports
      BY <1>8, <3>1, <3>2, ImportRowsTyped
    <3> QED BY <1>1, <1>7, <1>8, <3>3
  <2> QED BY <2>1 DEF ImportsTyped
<1>14. Tabled(e)
  BY <1>1, <1>9, <1>11, <1>12, <1>13 DEF Tabled
<1> QED BY <1>14 DEF e

LEMMA BuiltTabled ==
    ASSUME NEW w \in [Files -> Content],
           \A f \in Files \ Listed : w[f] = Absent
    PROVE  Tabled(Built(w))
<1> DEFINE e == BuiltRows(w)
           rows == BuiltCalls(w)
<1>1. Tabled(e) /\ \A f \in Files : e.ids[f] = FileId(w, f)
  <2>1. Tabled(e)
    BY BuiltRowsTabled
  <2>2. e.ids = [f \in Files |-> FileId(w, f)]
    BY BuiltRowsFields
  <2> QED BY <2>1, <2>2
<1>2. ASSUME NEW r \in rows
      PROVE  r \in RowType /\ r.file \in IdsOf(e)
  <2>1. PICK f \in Present(w) :
          r \in CallRows(FileId(w, f), w[f].calls, Base(w, f))
    BY DEF BuiltCalls
  <2>2. /\ f \in Files /\ w[f] \in Content /\ w[f] # Absent
        /\ Base(w, f) \in Nat
        /\ FileId(w, f) \in Nat \ {0}
    BY BasesApart, FileIdsApart DEF Present, Files
  <2>3. r \in RowType /\ r.file = FileId(w, f)
    BY <2>1, <2>2, CallRowsTyped
  <2> QED BY <1>1, <2>2, <2>3 DEF IdsOf
<1>3. Built(w) = ResolveCalls(e, rows)
  BY DEF Built
<1> HIDE DEF e, rows
<1> QED BY <1>1, <1>2, <1>3, ResolveCallsTabled

----------------------------------------------------------------------------
(* The types of the variables.                                             *)

Phases == {"idle", "read", "insert", "reconsider", "resolve", "stamp",
           "collect", "check"}

ServiceTyped ==
    /\ work \in [Files -> Content]
    /\ published \in BOOLEAN
    /\ handle \in BOOLEAN
    /\ pc \in Phases
    /\ target \in Files
    /\ source \in Content
    /\ inputs \in [Files -> Content]
    /\ place \in DOMAIN Walk
    /\ dropped \in SUBSET [file : Files, line : Nat]
    /\ torn \in BOOLEAN
    /\ doubled \in BOOLEAN
    /\ skewed \in SUBSET Files
    /\ settled \in BOOLEAN

\* A build reads the files of the walk and no others.
ReadsTheWalk == \A f \in Files \ Listed : inputs[f] = Absent

\* What an update inserts is what the row of the file was written for.
InsertsWhatItRead ==
    pc \in {"insert", "reconsider"} =>
      /\ source # Absent
      /\ db.stored[target] = source
      /\ ~doubled => ~DefinesTwice(source)

ServesIdle == handle => pc = "idle"

TypedInvariant ==
    /\ ServiceTyped
    /\ Tabled(db)
    /\ ReadsTheWalk
    /\ InsertsWhatItRead
    /\ ServesIdle

LEMMA FirstPlace ==
    /\ 1 \in DOMAIN Walk
    /\ Walk[1] \in Listed
    /\ \A i \in DOMAIN Walk : Walk[i] \in Listed
    /\ \A i \in DOMAIN Walk : i # Len(Walk) => i + 1 \in DOMAIN Walk
    /\ Listed \subseteq Files
<1> DEFINE n == Len(Walk)
<1>1. DOMAIN Walk = 1..n /\ n \in Nat \ {0}
  BY GraphAssumption, LenProperties, EmptySeq
<1> HIDE DEF n
<1>2. 1 \in DOMAIN Walk /\ \A i \in DOMAIN Walk : i # n => i + 1 \in DOMAIN Walk
  BY <1>1
<1>3. \A i \in DOMAIN Walk : Walk[i] \in Listed
  BY DEF Listed
<1> QED BY <1>2, <1>3 DEF Files, n

LEMMA TypedInit ==
    Init => TypedInvariant
<1> SUFFICES ASSUME Init
             PROVE  TypedInvariant
  OBVIOUS
<1>1. Absent \in Content
  BY DEF Content
<1>2. ServiceTyped
  BY <1>1, FirstPlace DEF Init, ServiceTyped, Phases, Nothing, Files
<1>3. Shaped(db)
  BY DEF Init, Empty, Shaped, Fields, Nothing
<1>4. FilesTyped(db)
  BY <1>1 DEF Init, Empty, FilesTyped, Nothing
<1>5. SymbolsTyped(db)
  BY DEF Init, Empty, SymbolsTyped
<1>6. CallsTyped(db)
  BY DEF Init, Empty, CallsTyped
<1>7. ImportsTyped(db)
  BY DEF Init, Empty, ImportsTyped
<1>8. ReadsTheWalk /\ InsertsWhatItRead /\ ServesIdle
  BY DEF Init, ReadsTheWalk, InsertsWhatItRead, ServesIdle, Nothing
<1> QED BY <1>2, <1>3, <1>4, <1>5, <1>6, <1>7, <1>8 DEF TypedInvariant, Tabled

\* A new stamp leaves the tables alone.
LEMMA StampFields ==
    ASSUME NEW d, Tabled(d), NEW stamp \in [Files -> Content] \cup {None}
    PROVE  LET e == [d EXCEPT !.stamp = stamp]
           IN  /\ Tabled(e)
               /\ SameNames(d, e)
               /\ e.edges = d.edges
               /\ e.unresolved = d.unresolved
<1> DEFINE e == [d EXCEPT !.stamp = stamp]
<1>1. /\ Shaped(e)
      /\ SameNames(d, e)
      /\ e.edges = d.edges
      /\ e.unresolved = d.unresolved
      /\ e.stamp = stamp
  BY DEF Tabled, Shaped, Fields, SameNames
<1> HIDE DEF e
<1>2. FilesTyped(e) /\ IdsOf(e) = IdsOf(d)
  BY <1>1 DEF Tabled, FilesTyped, SameNames, IdsOf
<1>3. SymbolsTyped(e) /\ CallsTyped(e) /\ ImportsTyped(e)
  BY <1>1, <1>2 DEF Tabled, SymbolsTyped, CallsTyped, ImportsTyped, SameNames
<1>4. Tabled(e)
  BY <1>1, <1>2, <1>3 DEF Tabled
<1> QED BY <1>1, <1>4 DEF e

LEMMA SignatureTyped ==
    ASSUME NEW w \in [Files -> Content]
    PROVE  Signature(w) \in [Files -> Content]
BY DEF Signature, Content

\* The tables stay tables through every step.
LEMMA TablesStep ==
    ASSUME TypedInvariant, [Next]_vars
    PROVE  Tabled(db')
<1> USE DEF TypedInvariant
<1>1. CASE UNCHANGED db
  BY <1>1
<1>2. ASSUME NEW f \in Files, RemoveFile(f)
      PROVE  Tabled(db')
  BY <1>2, RemoveTabled DEF RemoveFile
<1>3. ASSUME NEW f \in Files, Demote(f)
      PROVE  Tabled(db')
  BY <1>3, DemoteTabled DEF Demote
<1>4. CASE Replace
  <2>1. target \in Files /\ work[target] \in Content
    BY DEF ServiceTyped
  <2>2. CASE work[target] = Absent /\ db.ids[target] = 0
    BY <1>4, <2>2 DEF Replace, RemoveRow
  <2>3. CASE work[target] = Absent /\ db.ids[target] # 0
    BY <1>4, <2>1, <2>3, RemoveTabled DEF Replace
  <2>4. CASE work[target] # Absent
    BY <1>4, <2>1, <2>4, ReplaceTabled DEF Replace
  <2> QED BY <2>2, <2>3, <2>4
<1>5. CASE Insert
  <2>1. /\ source # Absent /\ db.stored[target] = source
        /\ source \in Content /\ target \in Files
    BY <1>5 DEF Insert, InsertsWhatItRead, ServiceTyped
  <2>2. db.ids[target] # 0
    BY <2>1 DEF Tabled, FilesTyped
  <2> QED BY <1>5, <2>1, <2>2, InsertTabled DEF Insert
<1>6. CASE ReconsiderCalls
  BY <1>6, ReconsiderTabled DEF ReconsiderCalls
<1>7. CASE ResolveStored
  BY <1>7, ResolveAllTabled DEF ResolveStored
<1>8. CASE Stamp
  <2>1. Signature(work) \in [Files -> Content] \cup {None}
    BY SignatureTyped DEF ServiceTyped
  <2> QED BY <1>8, <2>1, StampFields DEF Stamp
<1>9. CASE Publish
  BY <1>9, BuiltTabled DEF Publish, ServiceTyped, ReadsTheWalk
<1>10. CASE Reuse \/ StartBuild \/ Collect \/ CheckFile \/ GiveUp \/ Interrupt
  BY <1>1, <1>10 DEF Reuse, StartBuild, Collect, CheckFile, GiveUp, Interrupt
<1>11. ASSUME NEW f \in Files, NEW c \in Content, Edit(f, c)
       PROVE  Tabled(db')
  BY <1>1, <1>11 DEF Edit
<1>12. CASE UNCHANGED vars
  BY <1>1, <1>12 DEF vars
<1> QED BY <1>2, <1>3, <1>4, <1>5, <1>6, <1>7, <1>8, <1>9, <1>10, <1>11, <1>12
        DEF Next, UpdateFile, EnsureGraph

LEMMA ServiceStep ==
    ASSUME TypedInvariant, [Next]_vars
    PROVE  ServiceTyped'
<1> USE DEF TypedInvariant, ServiceTyped, Phases
<1> USE FirstPlace
<1>1. ASSUME NEW f \in Files, NEW c \in Content, Edit(f, c)
      PROVE  ServiceTyped'
  BY <1>1 DEF Edit, update, build, history
<1>2. ASSUME NEW f \in Files, RemoveFile(f)
      PROVE  ServiceTyped'
  <2> DEFINE lost == {[file |-> Path(db, r.file), line |-> r.line] :
                        r \in Demoted(db, f)}
  <2>1. lost \in SUBSET [file : Files, line : Nat]
    <3>1. ASSUME NEW r \in Demoted(db, f)
          PROVE  Path(db, r.file) \in Files /\ r.line \in Nat
      <4>1. PICK e \in db.edges : Joins(db, e) /\ r = RowOf(db, e)
        BY <3>1 DEF Demoted
      <4>2. r \in RowType /\ r.file \in IdsOf(db)
        BY <4>1, RowOfTyped DEF Tabled
      <4>3. \E g \in Files : db.ids[g] = r.file
        BY <4>2 DEF IdsOf
      <4> QED BY <4>2, <4>3, Zenon DEF Path, RowType
    <3> QED BY <3>1
  <2>2. dropped' = {s \in dropped : s.file # f} \cup lost
    BY <1>2 DEF RemoveFile
  <2> HIDE DEF lost
  <2> QED BY <1>2, <2>1, <2>2 DEF RemoveFile, update, build
<1>3. ASSUME NEW f \in Files, Demote(f)
      PROVE  ServiceTyped'
  BY <1>3 DEF Demote, build, history
<1>4. CASE Replace
  <2>1. source' \in Content /\ pc' \in Phases
    BY <1>4 DEF Replace
  <2>2. doubled' \in BOOLEAN
    BY <1>4, Zenon DEF Replace
  <2> QED BY <1>4, <2>1, <2>2 DEF Replace, build
<1>5. CASE Insert
  BY <1>5 DEF Insert, update, build, history
<1>6. CASE ReconsiderCalls
  BY <1>6 DEF ReconsiderCalls, update, build, history
<1>7. CASE ResolveStored
  BY <1>7 DEF ResolveStored, update, build, history
<1>8. CASE Stamp
  BY <1>8 DEF Stamp, build, Files, Content
<1>9. CASE Reuse
  BY <1>9 DEF Reuse, update, build, history
<1>10. CASE StartBuild
  BY <1>10 DEF StartBuild, update, build, history
<1>11. CASE Collect
  BY <1>11 DEF Collect, update, history
<1>12. CASE CheckFile
  BY <1>12 DEF CheckFile, update, history
<1>13. CASE GiveUp
  BY <1>13 DEF GiveUp, EndBuild, Nothing, update, history, Content
<1>14. CASE Publish
  <2>1. doubled' \in BOOLEAN
    BY <1>14, Zenon DEF Publish
  <2> QED BY <1>14, <2>1 DEF Publish, EndBuild, Nothing, update, Content
<1>15. CASE Interrupt
  <2>1. torn' \in BOOLEAN
    BY <1>15, Zenon DEF Interrupt
  <2> QED BY <1>15, <2>1 DEF Interrupt, EndBuild, Nothing, Content
<1>16. CASE UNCHANGED vars
  BY <1>16 DEF vars, update, build, history
<1> QED BY <1>1, <1>2, <1>3, <1>4, <1>5, <1>6, <1>7, <1>8, <1>9, <1>10, <1>11,
           <1>12, <1>13, <1>14, <1>15, <1>16
        DEF Next, UpdateFile, EnsureGraph

LEMMA ReadsStep ==
    ASSUME TypedInvariant, [Next]_vars
    PROVE  ReadsTheWalk' /\ ServesIdle'
<1> USE DEF TypedInvariant, ReadsTheWalk, ServesIdle
<1>1. CASE UNCHANGED vars
  BY <1>1 DEF vars, build
<1>2. CASE Collect
  BY <1>2, FirstPlace DEF Collect, ServiceTyped
<1>3. CASE (\E f \in Files, c \in Content : Edit(f, c)) \/ Insert
             \/ ReconsiderCalls \/ ResolveStored \/ Stamp \/ Replace
  BY <1>3 DEF Edit, Insert, ReconsiderCalls, ResolveStored, Stamp, Replace,
              build, ServiceTyped
<1>4. CASE (\E f \in Files : RemoveFile(f) \/ Demote(f)) \/ Reuse \/ StartBuild
             \/ CheckFile
  BY <1>4 DEF RemoveFile, Demote, Reuse, StartBuild, CheckFile, build
<1>5. CASE GiveUp \/ Publish \/ Interrupt
  BY <1>5 DEF GiveUp, Publish, Interrupt, EndBuild, Nothing, Files
<1> QED BY <1>1, <1>2, <1>3, <1>4, <1>5 DEF Next, UpdateFile, EnsureGraph

LEMMA InsertsStep ==
    ASSUME TypedInvariant, [Next]_vars
    PROVE  InsertsWhatItRead'
<1> USE DEF TypedInvariant, InsertsWhatItRead
<1>1. CASE UNCHANGED vars
  BY <1>1 DEF vars, update, history
<1>2. CASE Replace
  <2> SUFFICES ASSUME pc' = "insert"
               PROVE  /\ source' # Absent
                      /\ db'.stored[target'] = source'
                      /\ ~doubled' => ~DefinesTwice(source')
    BY <1>2 DEF Replace
  <2>1. source' # Absent /\ db' = ReplaceRow(db, target, source')
    BY <1>2 DEF Replace
  <2>2. source' \in Content /\ target \in Files
    BY <1>2 DEF Replace, ServiceTyped
  <2>3. db'.stored = [db.stored EXCEPT ![target] = source']
    <3>1. Rewritten(db, db', RowId(db, target), target, RowId(db, target),
                    source')
      BY <2>1, <2>2, ReplaceTabled
    <3> QED BY <3>1 DEF Rewritten
  <2> QED BY <1>2, <2>1, <2>2, <2>3 DEF Replace, Tabled, FilesTyped
<1>3. CASE Insert
  BY <1>3, InsertKeeps DEF Insert, update, history, Tabled
<1>4. CASE \E f \in Files, c \in Content : Edit(f, c)
  BY <1>4 DEF Edit, update, history
<1>5. CASE ReconsiderCalls \/ ResolveStored \/ Stamp
  BY <1>5 DEF ReconsiderCalls, ResolveStored, Stamp
<1>6. CASE (\E f \in Files : RemoveFile(f) \/ Demote(f)) \/ Reuse \/ StartBuild
             \/ CheckFile \/ Collect
  BY <1>6 DEF RemoveFile, Demote, Reuse, StartBuild, CheckFile, Collect
<1>7. CASE GiveUp \/ Publish \/ Interrupt
  BY <1>7 DEF GiveUp, Publish, Interrupt, EndBuild
<1> QED BY <1>1, <1>2, <1>3, <1>4, <1>5, <1>6, <1>7
        DEF Next, UpdateFile, EnsureGraph

LEMMA TypedStep ==
    TypedInvariant /\ [Next]_vars => TypedInvariant'
BY TablesStep, ServiceStep, ReadsStep, InsertsStep DEF TypedInvariant

LEMMA TypedIsTyped ==
    TypedInvariant => TypeOK
<1> SUFFICES ASSUME TypedInvariant
             PROVE  TypeOK
  OBVIOUS
<1>1. IdsOf(db) = FileIds
  BY DEF IdsOf, FileIds
<1>2. Tables
  <2>1. \A i \in db.imports : i.file \in FileIds /\ i.name \in Names
    BY DEF TypedInvariant, Tabled, ImportsTyped, ImportType, FilesTyped, FileIds
  <2>2. \A r \in db.unresolved : r.file \in FileIds /\ r.name \in Names
    BY <1>1 DEF TypedInvariant, Tabled, CallsTyped, RowType
  <2>3. \A e \in db.edges : e.tier \in {"exact", "probable"}
    BY DEF TypedInvariant, Tabled, CallsTyped, EdgeType
  <2>4. \A s \in db.symbols : s.id \in Nat \ {0} /\ s.file \in FileIds
                                /\ s.name \in Names
    BY <1>1 DEF TypedInvariant, Tabled, SymbolsTyped, SymbolType
  <2> QED BY <2>1, <2>2, <2>3, <2>4 DEF Tables
<1> QED BY <1>2 DEF TypeOK, TypedInvariant, Tabled, FilesTyped, ServiceTyped,
                    Phases

(***************************************************************************)
(* The tables of graph.db and the service's variables keep their types:    *)
(* every row belongs to a file that is there, and what an update inserts   *)
(* is what its file's row was written for (store.rs and build.rs).         *)
(***************************************************************************)
THEOREM GraphTypeCorrect == Spec => []TypeOK
BY TypedInit, TypedStep, TypedIsTyped, PTL DEF Spec

----------------------------------------------------------------------------
(* The ledger of calls.  A call of a file is known by its place; what is    *)
(* kept of it, an unresolved row or the row an edge stands for, says the    *)
(* place again, so that the two can be matched whoever moved them.          *)

CallsIn(d, f) == IF d.stored[f] = Absent THEN <<>> ELSE d.stored[f].calls

\* The row r is the k-th call of the file f, inside the definition there is.
IsCall(d, r, f, k) ==
    /\ k \in DOMAIN CallsIn(d, f)
    /\ r.file = d.ids[f]
    /\ r.line = k
    /\ r.name = CallsIn(d, f)[k].name
    /\ r.recv = CallsIn(d, f)[k].recv
    /\ \/ CallsIn(d, f)[k].at = 0 /\ r.encl = 0
       \/ /\ CallsIn(d, f)[k].at # 0
          /\ \E s \in d.symbols :
               /\ s.id = r.encl
               /\ s.file = d.ids[f]
               /\ s.name = d.stored[f].defs[CallsIn(d, f)[k].at]

Called(d, r) == \E f \in Files : \E k \in DOMAIN CallsIn(d, f) : IsCall(d, r, f, k)

\* No file has two definitions of a name.
UniqueNames(d) ==
    \A s, t \in d.symbols : s.file = t.file /\ s.name = t.name => s = t

\* What is kept is a call, an edge joins two definitions, and no call has two
\* edges.
Ledger(d) ==
    /\ UniqueNames(d)
    /\ \A r \in d.unresolved : Called(d, r)
    /\ \A e \in d.edges : Joins(d, e) /\ Called(d, RowOf(d, e))
    /\ \A a, b \in d.edges : RowOf(d, a) = RowOf(d, b) => a = b

\* No call is both; while an update of f is under way, those into it are.
Single(d) == \A e \in d.edges : RowOf(d, e) \notin d.unresolved

Into(d, e, f) ==
    Symbol(d, e.dst).file = d.ids[f] /\ Symbol(d, e.src).file # d.ids[f]
Kept(d, f) == \A e \in d.edges : RowOf(d, e) \in d.unresolved <=> Into(d, e, f)

Recorded(d, f, k) ==
    \/ \E r \in d.unresolved : IsCall(d, r, f, k)
    \/ \E e \in d.edges : IsCall(d, RowOf(d, e), f, k)

\* Every call of these files is kept, but for those that were dropped.
Complete(d, fs, gone) ==
    \A f \in fs : \A k \in DOMAIN CallsIn(d, f) :
      Recorded(d, f, k) \/ [file |-> f, line |-> k] \in gone

\* Nothing of a file but its row is there.
Vacant(d, file) ==
    /\ \A s \in d.symbols : s.file # file
    /\ \A r \in d.unresolved : r.file # file
    /\ \A i \in d.imports : i.file # file

\* The edge the tiers would choose today.
Decided(d, e) == Resolves(d, RowOf(d, e)) /\ EdgeFor(d, RowOf(d, e)) = e

Exhausted(d) == \A r \in d.unresolved : r.encl # 0 => ~Resolves(d, r)

\* What all of this rests on is in the rows that resolution reads.
LEMMA SameNamesSameCalls ==
    ASSUME NEW d, NEW e, SameNames(d, e)
    PROVE  /\ UniqueNames(e) <=> UniqueNames(d)
           /\ \A r, f, k : IsCall(e, r, f, k) <=> IsCall(d, r, f, k)
           /\ \A r : Called(e, r) <=> Called(d, r)
           /\ \A k : Joins(e, k) <=> Joins(d, k)
           /\ \A k : RowOf(e, k) = RowOf(d, k)
           /\ \A id : Symbol(e, id) = Symbol(d, id)
<1>1. e.ids = d.ids /\ e.stored = d.stored /\ e.symbols = d.symbols
  BY DEF SameNames
<1>2. \A f : CallsIn(e, f) = CallsIn(d, f)
  BY <1>1 DEF CallsIn
<1>3. \A r, f, k : IsCall(e, r, f, k) <=> IsCall(d, r, f, k)
  BY <1>1, <1>2 DEF IsCall
<1>4. \A r : Called(e, r) <=> Called(d, r)
  BY <1>2, <1>3 DEF Called
<1>5. \A id : Symbol(e, id) = Symbol(d, id)
  BY <1>1 DEF Symbol
<1>6. /\ \A k : RowOf(e, k) = RowOf(d, k)
      /\ \A k : Joins(e, k) <=> Joins(d, k)
  BY <1>1, <1>5 DEF RowOf, Joins, SymbolIds
<1> QED BY <1>1, <1>3, <1>4, <1>5, <1>6 DEF UniqueNames

LEMMA SameNamesSameDecision ==
    ASSUME NEW d, NEW e, SameNames(d, e)
    PROVE  /\ \A r : Resolves(e, r) <=> Resolves(d, r)
           /\ \A r : EdgeFor(e, r) = EdgeFor(d, r)
           /\ \A k : Decided(e, k) <=> Decided(d, k)
<1>1. e.symbols = d.symbols /\ e.imports = d.imports
  BY DEF SameNames
<1>2. \A name : Candidates(e, name) = Candidates(d, name)
  BY <1>1 DEF Candidates
<1>3. \A file, name : Bound(e, file, name) = Bound(d, file, name)
  BY <1>1 DEF Bound
<1>4. \A file, name : /\ SameFile(e, file, name) = SameFile(d, file, name)
                      /\ Imported(e, file, name) = Imported(d, file, name)
  BY <1>2, <1>3 DEF SameFile, Imported
<1>5. \A file, name : Meant(e, file, name) = Meant(d, file, name)
  BY <1>2, <1>4 DEF Meant
<1>6. \A r : Tier(e, r) = Tier(d, r)
  BY <1>4 DEF Tier
<1>7. \A r : Resolves(e, r) <=> Resolves(d, r)
  BY <1>5 DEF Resolves
<1>8. \A r : EdgeFor(e, r) = EdgeFor(d, r)
  BY <1>5, <1>6 DEF EdgeFor
<1>9. \A k : RowOf(e, k) = RowOf(d, k)
  BY SameNamesSameCalls
<1> QED BY <1>7, <1>8, <1>9 DEF Decided

\* The k-th call of a file is kept as one row and no other.
LEMMA OneRow ==
    ASSUME NEW d, UniqueNames(d), NEW r \in RowType, NEW q \in RowType,
           NEW f, NEW k, IsCall(d, r, f, k), IsCall(d, q, f, k)
    PROVE  r = q
<1>1. r.encl = q.encl
  BY DEF IsCall, UniqueNames
<1>2. r.file = q.file /\ r.line = q.line /\ r.name = q.name /\ r.recv = q.recv
  BY DEF IsCall
<1> QED BY <1>1, <1>2 DEF RowType

\* A file that is not there makes no call.
LEMMA CallsAreRead ==
    ASSUME NEW d, NEW f, NEW k \in DOMAIN CallsIn(d, f)
    PROVE  d.stored[f] # Absent /\ CallsIn(d, f) = d.stored[f].calls
<1>1. DOMAIN <<>> = {}
  OBVIOUS
<1>2. d.stored[f] # Absent
  BY <1>1 DEF CallsIn
<1> QED BY <1>2 DEF CallsIn

\* A row is the call of one file at one place.
LEMMA OnePlace ==
    ASSUME NEW d, FilesTyped(d), NEW r, NEW f \in Files, NEW g \in Files,
           NEW k, NEW j, IsCall(d, r, f, k), IsCall(d, r, g, j)
    PROVE  f = g /\ k = j
<1>1. d.stored[f] # Absent
  BY CallsAreRead DEF IsCall
<1>2. d.ids[f] # 0
  BY <1>1 DEF FilesTyped
<1> QED BY <1>2 DEF IsCall, FilesTyped

\* A call inside a definition is an edge's row once a definition is meant.
LEMMA EdgeForRow ==
    ASSUME NEW d, Tabled(d), NEW r \in RowType, Called(d, r),
           r.encl # 0, Resolves(d, r)
    PROVE  /\ EdgeFor(d, r) \in EdgeType
           /\ Joins(d, EdgeFor(d, r))
           /\ RowOf(d, EdgeFor(d, r)) = r
           /\ Decided(d, EdgeFor(d, r))
<1> DEFINE e == EdgeFor(d, r)
<1>1. PICK f \in Files : \E k \in DOMAIN CallsIn(d, f) : IsCall(d, r, f, k)
  BY DEF Called
<1>2. PICK s \in d.symbols : s.id = r.encl /\ s.file = r.file
  BY <1>1 DEF IsCall
<1>3. PICK m \in Meant(d, r.file, r.name) : e.dst = m.id
  BY EdgeForTyped DEF Tabled
<1>4. m \in d.symbols /\ m.name = r.name
  BY MeantAreCandidates
<1>5. e.src = r.encl /\ e.line = r.line /\ e.recv = r.recv /\ e \in EdgeType
  <2>1. e \in EdgeType
    BY EdgeForTyped DEF Tabled
  <2> QED BY <2>1 DEF EdgeFor
<1> HIDE DEF e
<1>6. Symbol(d, e.src) = s /\ Symbol(d, e.dst) = m
  BY <1>2, <1>3, <1>4, <1>5, SymbolFound DEF Tabled
<1>7. Joins(d, e)
  BY <1>2, <1>3, <1>4, <1>5 DEF Joins, SymbolIds
<1>8. RowOf(d, e) = [file |-> r.file, name |-> r.name, encl |-> r.encl,
                     line |-> r.line, recv |-> r.recv]
  BY <1>2, <1>4, <1>5, <1>6 DEF RowOf
<1>9. RowOf(d, e) = r
  BY <1>8 DEF RowType
<1>10. Decided(d, e)
  BY <1>9 DEF Decided, e
<1> QED BY <1>5, <1>7, <1>9, <1>10 DEF e

----------------------------------------------------------------------------
(* What a decision rests on.                                               *)

InOneFile(S) == S # {} /\ \A s, t \in S : s.file = t.file

LEMMA SymbolsAreFinite ==
    ASSUME NEW d, SymbolsTyped(d)
    PROVE  IsFiniteSet(d.symbols)
<1>1. PICK b \in Nat : \A s \in d.symbols : s.id <= b
  BY DEF SymbolsTyped
<1> DEFINE S == d.symbols
           number == [s \in S |-> s.id]
<1>2. \A s \in S : s.id \in 0..b
  BY <1>1 DEF SymbolsTyped, SymbolType
<1>3. \A s, t \in S : s.id = t.id => s = t
  BY DEF SymbolsTyped
<1> HIDE DEF S
<1>4. number \in Injection(S, 0..b)
  BY <1>2, <1>3 DEF Injection, IsInjective
<1>5. IsFiniteSet(0..b)
  BY FS_Interval
<1> HIDE DEF number
<1>6. IsFiniteSet(S)
  BY <1>4, <1>5, FS_Injection
<1> QED BY <1>6 DEF S

LEMMA OneFile ==
    ASSUME NEW d, SymbolsTyped(d), NEW C \in SUBSET d.symbols
    PROVE  Cardinality(FilesOf(C)) = 1 <=> InOneFile(C)
<1> DEFINE file == [s \in C |-> s.file]
<1>1. IsFiniteSet(C)
  BY SymbolsAreFinite, FS_Subset
<1>2. IsFiniteSet({file[s] : s \in DOMAIN file})
  BY <1>1, ValuesAreFinite
<1>3. FilesOf(C) = {file[s] : s \in DOMAIN file}
  BY DEF FilesOf
<1>4. IsFiniteSet(FilesOf(C))
  BY <1>2, <1>3
<1>5. Cardinality(FilesOf(C)) = 1 <=> \E x : FilesOf(C) = {x}
  BY <1>4, FS_Singleton
<1>6. (\E x : FilesOf(C) = {x}) <=> InOneFile(C)
  BY DEF FilesOf, InOneFile
<1> QED BY <1>5, <1>6

LEMMA MeantCases ==
    ASSUME NEW d, SymbolsTyped(d), NEW file, NEW name
    PROVE  Meant(d, file, name) =
             IF SameFile(d, file, name) # {} THEN SameFile(d, file, name)
             ELSE IF Imported(d, file, name) # {}
               THEN IF InOneFile(Imported(d, file, name))
                      THEN Imported(d, file, name) ELSE {}
             ELSE IF InOneFile(Candidates(d, name))
               THEN Candidates(d, name) ELSE {}
<1>1. /\ Imported(d, file, name) \in SUBSET d.symbols
      /\ Candidates(d, name) \in SUBSET d.symbols
  BY DEF Imported, Candidates
<1>2. /\ Cardinality(FilesOf(Imported(d, file, name))) = 1 <=>
           InOneFile(Imported(d, file, name))
      /\ Cardinality(FilesOf(Candidates(d, name))) = 1 <=>
           InOneFile(Candidates(d, name))
  BY <1>1, OneFile
<1> QED BY <1>2 DEF Meant

\* A decision rests on the definitions of the name and on what the caller's
\* imports bind it to.
LEMMA DecisionRests ==
    ASSUME NEW d, NEW e, NEW r,
           Candidates(e, r.name) = Candidates(d, r.name),
           Bound(e, r.file, r.name) = Bound(d, r.file, r.name)
    PROVE  /\ Resolves(e, r) <=> Resolves(d, r)
           /\ EdgeFor(e, r) = EdgeFor(d, r)
<1>1. /\ SameFile(e, r.file, r.name) = SameFile(d, r.file, r.name)
      /\ Imported(e, r.file, r.name) = Imported(d, r.file, r.name)
  BY DEF SameFile, Imported
<1>2. Meant(e, r.file, r.name) = Meant(d, r.file, r.name)
  BY <1>1 DEF Meant
<1>3. Tier(e, r) = Tier(d, r)
  BY <1>1 DEF Tier
<1> QED BY <1>2, <1>3 DEF Resolves, EdgeFor

\* Taking out a file leaves the decisions for definitions in other files as
\* they were, though there is less to choose from.
LEMMA DecisionSurvives ==
    ASSUME NEW d, NEW e, SymbolsTyped(d), SymbolsTyped(e), NEW file,
           e.symbols = {s \in d.symbols : s.file # file},
           e.imports = {i \in d.imports : i.file # file},
           NEW r, r.file # file,
           NEW m \in Meant(d, r.file, r.name), m.file # file
    PROVE  /\ Resolves(e, r)
           /\ EdgeFor(e, r) = EdgeFor(d, r)
<1> DEFINE same == SameFile(d, r.file, r.name)
           imported == Imported(d, r.file, r.name)
           cands == Candidates(d, r.name)
<1>1. Candidates(e, r.name) = {s \in cands : s.file # file}
  BY DEF Candidates
<1>2. Bound(e, r.file, r.name) = Bound(d, r.file, r.name)
  BY DEF Bound
<1>3. SameFile(e, r.file, r.name) = same
  BY <1>1 DEF SameFile
<1>4. Imported(e, r.file, r.name) = {s \in imported : s.file # file}
  BY <1>1, <1>2 DEF Imported
<1>5. Meant(d, r.file, r.name) =
        IF same # {} THEN same
        ELSE IF imported # {} THEN IF InOneFile(imported) THEN imported ELSE {}
        ELSE IF InOneFile(cands) THEN cands ELSE {}
  BY MeantCases
<1>6. Meant(e, r.file, r.name) =
        IF same # {} THEN same
        ELSE IF Imported(e, r.file, r.name) # {}
          THEN IF InOneFile(Imported(e, r.file, r.name))
                 THEN Imported(e, r.file, r.name) ELSE {}
        ELSE IF InOneFile(Candidates(e, r.name))
          THEN Candidates(e, r.name) ELSE {}
  <2> DEFINE Choice(same_, imported_, cands_) ==
        IF same_ # {} THEN same_
        ELSE IF imported_ # {}
          THEN IF InOneFile(imported_) THEN imported_ ELSE {}
        ELSE IF InOneFile(cands_) THEN cands_ ELSE {}
  <2>1. Meant(e, r.file, r.name) =
          Choice(SameFile(e, r.file, r.name), Imported(e, r.file, r.name),
                 Candidates(e, r.name))
    BY MeantCases
  <2> HIDE DEF Choice
  <2>2. Meant(e, r.file, r.name) =
          Choice(same, Imported(e, r.file, r.name), Candidates(e, r.name))
    BY <1>3, <2>1
  <2> QED BY <2>2 DEF Choice
<1> HIDE DEF same, imported, cands
<1>7. /\ Meant(e, r.file, r.name) = Meant(d, r.file, r.name)
      /\ same \cup Imported(e, r.file, r.name) # {} <=> same \cup imported # {}
  <2>1. CASE same # {}
    BY <1>5, <1>6, <2>1
  <2>2. CASE same = {} /\ imported # {}
    <3>1. m \in imported /\ InOneFile(imported)
      BY <1>5, <2>2
    <3>2. Imported(e, r.file, r.name) = imported
      BY <1>4, <3>1 DEF InOneFile
    <3> QED BY <1>5, <1>6, <2>2, <3>1, <3>2
  <2>3. CASE same = {} /\ imported = {}
    <3>1. m \in cands /\ InOneFile(cands)
      BY <1>5, <2>3
    <3>2. Candidates(e, r.name) = cands
      BY <1>1, <3>1 DEF InOneFile
    <3>3. Imported(e, r.file, r.name) = {}
      BY <1>4, <2>3
    <3> QED BY <1>5, <1>6, <2>3, <3>1, <3>2, <3>3
  <2> QED BY <2>1, <2>2, <2>3
<1>8. Tier(e, r) = Tier(d, r)
  BY <1>3, <1>7 DEF Tier, same, imported
<1> QED BY <1>7, <1>8 DEF Resolves, EdgeFor

\* The definition a decided edge goes to is one that is meant.
LEMMA DecidedIsMeant ==
    ASSUME NEW d, Tabled(d), NEW e \in d.edges, Joins(d, e), Decided(d, e)
    PROVE  Symbol(d, e.dst) \in Meant(d, RowOf(d, e).file, RowOf(d, e).name)
<1> DEFINE r == RowOf(d, e)
<1>1. r \in RowType
  BY RowOfTyped DEF Tabled
<1>2. Resolves(d, r) /\ EdgeFor(d, r) = e
  BY DEF Decided
<1> HIDE DEF r
<1>3. PICK m \in Meant(d, r.file, r.name) : e.dst = m.id
  BY <1>1, <1>2, EdgeForTyped DEF Tabled
<1>4. Symbol(d, e.dst) = m
  BY <1>3, MeantAreCandidates, SymbolFound DEF Tabled
<1> QED BY <1>3, <1>4 DEF r

\* Unresolved calls are turned into edges.  Of the calls U that are no edges
\* yet, those that were stored and those of a file that came in, the linked
\* ones become edges.
Links(d, e, U, linked) ==
    /\ UniqueNames(d)
    /\ \A k \in d.edges : /\ Joins(d, k)
                          /\ Called(d, RowOf(d, k))
                          /\ RowOf(d, k) \notin U
    /\ \A a, b \in d.edges : RowOf(d, a) = RowOf(d, b) => a = b
    /\ U \subseteq RowType
    /\ \A r \in U : Called(d, r)
    /\ linked \subseteq U
    /\ \A r \in linked : r.encl # 0 /\ Resolves(d, r)
    /\ SameNames(d, e)
    /\ e.edges = d.edges \cup EdgesFor(d, linked)
    /\ e.unresolved = U \ linked

LEMMA Linking ==
    ASSUME NEW d, Tabled(d), NEW e, NEW U, NEW linked, Links(d, e, U, linked)
    PROVE  /\ Ledger(e)
           /\ Single(e)
           /\ \A k \in e.edges : k \in d.edges \/ Decided(e, k)
           /\ \A r \in U : \/ r \in e.unresolved
                           \/ \E k \in e.edges : RowOf(e, k) = r
           /\ d.edges \subseteq e.edges
<1> USE DEF Links
<1>1. ASSUME NEW r \in linked
      PROVE  /\ Joins(d, EdgeFor(d, r))
             /\ RowOf(d, EdgeFor(d, r)) = r
             /\ Decided(d, EdgeFor(d, r))
  BY EdgeForRow
<1> DEFINE new == EdgesFor(d, linked)
<1>2. \A k \in new : /\ Joins(d, k)
                     /\ Decided(d, k)
                     /\ RowOf(d, k) \in linked
                     /\ k = EdgeFor(d, RowOf(d, k))
  BY <1>1 DEF EdgesFor
<1>3. \A r \in linked : EdgeFor(d, r) \in new /\ RowOf(d, EdgeFor(d, r)) = r
  BY <1>1 DEF EdgesFor
<1>4. e.edges = d.edges \cup new
  OBVIOUS
<1> HIDE DEF new
<1>5. /\ UniqueNames(e)
      /\ \A r : Called(e, r) <=> Called(d, r)
      /\ \A k : Joins(e, k) <=> Joins(d, k)
      /\ \A k : RowOf(e, k) = RowOf(d, k)
      /\ \A k : Decided(e, k) <=> Decided(d, k)
  BY SameNamesSameCalls, SameNamesSameDecision
<1>6. \A k \in e.edges : Joins(e, k) /\ Called(e, RowOf(e, k))
  BY <1>2, <1>4, <1>5
<1>7. ASSUME NEW a \in e.edges, NEW b \in e.edges, RowOf(e, a) = RowOf(e, b)
      PROVE  a = b
  <2>1. RowOf(d, a) = RowOf(d, b)
    BY <1>5, <1>7
  <2>2. CASE a \in d.edges /\ b \in d.edges
    BY <2>1, <2>2
  <2>3. CASE a \in new /\ b \in new
    BY <1>2, <2>1, <2>3
  <2>4. CASE (a \in new /\ b \in d.edges) \/ (a \in d.edges /\ b \in new)
    BY <1>2, <2>1, <2>4
  <2> QED BY <1>4, <2>2, <2>3, <2>4
<1>8. Ledger(e)
  BY <1>5, <1>6, <1>7 DEF Ledger
<1>9. Single(e)
  BY <1>2, <1>4, <1>5 DEF Single
<1>10. \A k \in e.edges : k \in d.edges \/ Decided(e, k)
  BY <1>2, <1>4, <1>5
<1>11. \A r \in U : r \in e.unresolved \/ \E k \in e.edges : RowOf(e, k) = r
  BY <1>3, <1>4, <1>5
<1> QED BY <1>4, <1>8, <1>9, <1>10, <1>11

----------------------------------------------------------------------------
(* The ledger through the operations on the database.                      *)

LEMMA OwnSymbols ==
    ASSUME NEW d, SymbolsTyped(d), NEW file, NEW x \in SymbolIds(d)
    PROVE  x \in {s.id : s \in SymbolsOf(d, file)} <=> Symbol(d, x).file = file
<1>1. Symbol(d, x) \in d.symbols /\ Symbol(d, x).id = x
  BY SymbolFound
<1>2. \A s \in d.symbols : s.id = x => s = Symbol(d, x)
  BY SymbolFound
<1> QED BY <1>1, <1>2 DEF SymbolsOf

\* The row of a file is written or deleted, with what leads into the file
\* kept elsewhere or given up.
LEMMA RewrittenLedger ==
    ASSUME NEW d, Tabled(d), NEW e, Tabled(e), NEW f \in Files, NEW file,
           NEW id, NEW c, Rewritten(d, e, file, f, id, c),
           \A g \in Files \ {f} : d.ids[g] # file,
           d.ids[f] # 0 => file = d.ids[f],
           Ledger(d),
           \A k \in d.edges : RowOf(d, k) \in d.unresolved => Into(d, k, f)
    PROVE  /\ Ledger(e)
           /\ Single(e)
           /\ Vacant(e, file)
           /\ \A k \in e.edges :
                /\ k \in d.edges
                /\ RowOf(e, k) = RowOf(d, k)
                /\ Decided(d, k) => Decided(e, k)
           /\ \A g \in Files \ {f} :
                /\ CallsIn(e, g) = CallsIn(d, g)
                /\ \A k : Recorded(d, g, k) =>
                     \/ Recorded(e, g, k)
                     \/ \E x \in d.edges : /\ IsCall(d, RowOf(d, x), g, k)
                                           /\ Into(d, x, f)
                                           /\ RowOf(d, x) \notin e.unresolved
<1> DEFINE own == {s.id : s \in SymbolsOf(d, file)}
<1>1. /\ e.ids = [d.ids EXCEPT ![f] = id]
      /\ e.stored = [d.stored EXCEPT ![f] = c]
      /\ e.symbols = {s \in d.symbols : s.file # file}
      /\ e.imports = {i \in d.imports : i.file # file}
      /\ e.unresolved = {r \in d.unresolved : r.file # file}
      /\ e.edges = {k \in d.edges : k.src \notin own /\ k.dst \notin own}
  BY DEF Rewritten
<1>2. \A k \in d.edges : /\ k.src \in SymbolIds(d) /\ k.dst \in SymbolIds(d)
                         /\ Called(d, RowOf(d, k))
                         /\ RowOf(d, k) \in RowType
  BY RowOfTyped DEF Ledger, Joins, Tabled
<1>3. \A k \in d.edges :
        /\ k.src \in own <=> Symbol(d, k.src).file = file
        /\ k.dst \in own <=> Symbol(d, k.dst).file = file
  BY <1>2, OwnSymbols DEF Tabled
<1> HIDE DEF own
<1>4. \A g \in Files \ {f} : e.ids[g] = d.ids[g] /\ e.stored[g] = d.stored[g]
  BY <1>1 DEF Tabled, FilesTyped
<1>5. \A g \in Files \ {f} : CallsIn(e, g) = CallsIn(d, g)
  BY <1>4 DEF CallsIn
<1>6. ASSUME NEW g \in Files \ {f}, NEW r, NEW k, IsCall(d, r, g, k)
      PROVE  IsCall(e, r, g, k) /\ r.file # file
  <2>1. r.file = d.ids[g] /\ d.ids[g] # file
    BY <1>6 DEF IsCall
  <2>2. \A s \in d.symbols : s.file = d.ids[g] => s \in e.symbols
    BY <1>1, <2>1
  <2> QED BY <1>4, <1>5, <1>6, <2>1, <2>2 DEF IsCall
<1>7. ASSUME NEW r, Called(d, r), r.file # file, r.file # 0
      PROVE  Called(e, r)
  <2>1. PICK g \in Files : \E k \in DOMAIN CallsIn(d, g) : IsCall(d, r, g, k)
    BY <1>7 DEF Called
  <2>2. g # f
    BY <1>7, <2>1 DEF IsCall
  <2> QED BY <1>5, <1>6, <2>1, <2>2 DEF Called
<1>8. ASSUME NEW k \in e.edges
      PROVE  /\ k \in d.edges
             /\ Symbol(e, k.src) = Symbol(d, k.src)
             /\ Symbol(e, k.dst) = Symbol(d, k.dst)
             /\ Symbol(d, k.src).file # file
             /\ Symbol(d, k.dst).file # file
             /\ Joins(e, k)
             /\ RowOf(e, k) = RowOf(d, k)
  <2>1. k \in d.edges /\ k.src \notin own /\ k.dst \notin own
    BY <1>1
  <2>2. Symbol(d, k.src).file # file /\ Symbol(d, k.dst).file # file
    BY <1>3, <2>1
  <2>3. /\ Symbol(d, k.src) \in e.symbols /\ Symbol(d, k.src).id = k.src
        /\ Symbol(d, k.dst) \in e.symbols /\ Symbol(d, k.dst).id = k.dst
    BY <1>1, <1>2, <2>1, <2>2, SymbolFound DEF Tabled
  <2>4. Symbol(e, k.src) = Symbol(d, k.src) /\ Symbol(e, k.dst) = Symbol(d, k.dst)
    BY <2>3, SymbolFound DEF Tabled
  <2>5. Joins(e, k)
    BY <2>3 DEF Joins, SymbolIds
  <2> QED BY <2>1, <2>2, <2>4, <2>5 DEF RowOf
<1>9. Ledger(e)
  <2>1. UniqueNames(e)
    BY <1>1 DEF Ledger, UniqueNames
  <2>2. ASSUME NEW r \in e.unresolved
        PROVE  Called(e, r)
    <3>1. r \in d.unresolved /\ r.file # file /\ r.file # 0
      BY <1>1 DEF Tabled, CallsTyped, IdsOf
    <3> QED BY <1>7, <3>1 DEF Ledger
  <2>3. ASSUME NEW k \in e.edges
        PROVE  Called(e, RowOf(e, k))
    <3>1. RowOf(d, k).file = Symbol(d, k.src).file
      BY DEF RowOf
    <3>2. RowOf(d, k).file # 0
      BY <1>8, RowOfTyped DEF Ledger, Tabled, IdsOf
    <3>3. Called(d, RowOf(d, k)) /\ RowOf(d, k).file # file
      BY <1>2, <1>8, <3>1
    <3> QED BY <1>7, <1>8, <3>2, <3>3
  <2>4. \A a, b \in e.edges : RowOf(e, a) = RowOf(e, b) => a = b
    BY <1>8 DEF Ledger
  <2> QED BY <1>8, <2>1, <2>2, <2>3, <2>4 DEF Ledger
<1>10. Single(e)
  <2> SUFFICES ASSUME NEW k \in e.edges, RowOf(e, k) \in e.unresolved
               PROVE  FALSE
    BY DEF Single
  <2>1. k \in d.edges /\ RowOf(d, k) \in d.unresolved
    BY <1>1, <1>8
  <2>2. Symbol(d, k.dst).file = d.ids[f]
    BY <2>1 DEF Into
  <2>3. Symbol(d, k.dst).file # 0
    BY <1>2, <2>1, SymbolFound DEF Tabled, SymbolsTyped, IdsOf
  <2> QED BY <1>8, <2>2, <2>3
<1>11. Vacant(e, file)
  BY <1>1 DEF Vacant
<1>12. ASSUME NEW k \in e.edges, Decided(d, k)
       PROVE  Decided(e, k)
  <2> DEFINE r == RowOf(d, k)
             m == Symbol(d, k.dst)
  <2>1. k \in d.edges /\ RowOf(e, k) = r /\ Joins(d, k) /\ m.file # file
    BY <1>8 DEF Ledger
  <2>2. r.file # file
    BY <1>8 DEF RowOf
  <2>3. m \in Meant(d, r.file, r.name)
    BY <1>12, <2>1, DecidedIsMeant
  <2>4. Resolves(d, r) /\ EdgeFor(d, r) = k
    BY <1>12 DEF Decided
  <2> HIDE DEF r, m
  <2>5. Resolves(e, r) /\ EdgeFor(e, r) = EdgeFor(d, r)
    BY <1>1, <2>1, <2>2, <2>3, DecisionSurvives DEF Tabled
  <2> QED BY <2>1, <2>4, <2>5 DEF Decided
<1>13. ASSUME NEW g \in Files \ {f}, NEW k, Recorded(d, g, k)
       PROVE  \/ Recorded(e, g, k)
              \/ \E x \in d.edges : /\ IsCall(d, RowOf(d, x), g, k)
                                    /\ Into(d, x, f)
                                    /\ RowOf(d, x) \notin e.unresolved
  <2>1. ASSUME NEW r \in d.unresolved, IsCall(d, r, g, k)
        PROVE  Recorded(e, g, k)
    BY <1>1, <1>6, <2>1 DEF Recorded
  <2>2. ASSUME NEW x \in d.edges, IsCall(d, RowOf(d, x), g, k)
        PROVE  \/ Recorded(e, g, k)
               \/ /\ Into(d, x, f)
                  /\ RowOf(d, x) \notin e.unresolved
    <3>1. CASE x \in e.edges
      BY <1>6, <1>8, <2>2, <3>1 DEF Recorded
    <3>2. CASE RowOf(d, x) \in e.unresolved
      BY <1>6, <2>2, <3>2 DEF Recorded
    <3>3. CASE x \notin e.edges /\ RowOf(d, x) \notin e.unresolved
      <4>1. Symbol(d, x.src).file = d.ids[g] /\ d.ids[g] # file
        BY <2>2 DEF IsCall, RowOf
      <4>2. Symbol(d, x.dst).file = file
        BY <1>1, <1>3, <3>3, <4>1
      <4>3. Symbol(d, x.dst).file \in IdsOf(d)
        BY <1>2, SymbolFound DEF Tabled, SymbolsTyped
      <4>4. file = d.ids[f]
        BY <4>2, <4>3 DEF IdsOf
      <4> QED BY <3>3, <4>1, <4>2, <4>4 DEF Into
    <3> QED BY <3>1, <3>2, <3>3
  <2> QED BY <1>13, <2>1, <2>2 DEF Recorded
<1> QED BY <1>5, <1>8, <1>9, <1>10, <1>11, <1>12, <1>13

\* The rows of a file's calls are its calls, once its definitions are there.
LEMMA CallRowsAreCalls ==
    ASSUME NEW d, NEW f \in Files, NEW c \in Content, c # Absent,
           d.stored[f] = c, NEW base \in Nat,
           \A i \in 1..Len(c.defs) :
             [id |-> base + i, file |-> d.ids[f], name |-> c.defs[i]] \in d.symbols
    PROVE  LET rows == CallRows(d.ids[f], c.calls, base)
           IN  /\ \A r \in rows : Called(d, r)
               /\ \A k \in DOMAIN CallsIn(d, f) :
                    \E r \in rows : IsCall(d, r, f, k)
<1> DEFINE Row(k) == [file |-> d.ids[f], name |-> c.calls[k].name,
                      encl |-> IF c.calls[k].at = 0 THEN 0
                               ELSE base + c.calls[k].at,
                      line |-> k, recv |-> c.calls[k].recv]
           rows == CallRows(d.ids[f], c.calls, base)
<1>1. rows = {Row(k) : k \in DOMAIN c.calls}
  BY Zenon DEF CallRows
<1>2. CallsIn(d, f) = c.calls
  BY DEF CallsIn
<1>3. ASSUME NEW k \in DOMAIN c.calls
      PROVE  IsCall(d, Row(k), f, k)
  <2>1. c.calls[k].at \in 0..Len(c.defs) /\ Len(c.defs) \in Nat
    BY SourceTyped
  <2>2. CASE c.calls[k].at = 0
    BY <1>2, <2>2 DEF IsCall
  <2>3. CASE c.calls[k].at # 0
    <3> DEFINE at == c.calls[k].at
               s == [id |-> base + at, file |-> d.ids[f], name |-> c.defs[at]]
    <3>1. at \in 1..Len(c.defs)
      BY <2>1, <2>3
    <3>2. s \in d.symbols
      BY <3>1
    <3>3. /\ s.id = Row(k).encl /\ s.file = d.ids[f]
          /\ s.name = d.stored[f].defs[at]
      BY <2>3
    <3> QED BY <1>2, <2>3, <3>2, <3>3 DEF IsCall
  <2> QED BY <2>2, <2>3
<1> HIDE DEF Row, rows
<1>4. /\ \A r \in rows : Called(d, r)
      /\ \A k \in DOMAIN CallsIn(d, f) : \E r \in rows : IsCall(d, r, f, k)
  BY <1>1, <1>2, <1>3 DEF Called
<1> QED BY <1>4 DEF rows

(***************************************************************************)
(* A file comes in.  Its calls are linked at once; the decisions for other *)
(* names than those it defines do not change.                              *)
(***************************************************************************)
LEMMA InsertLedger ==
    ASSUME NEW d, Tabled(d), NEW f \in Files, NEW c \in Content, c # Absent,
           d.stored[f] = c, ~DefinesTwice(c), Vacant(d, d.ids[f]),
           Ledger(d), Single(d), NEW e, e = InsertSource(d, f, c)
    PROVE  /\ Ledger(e)
           /\ Single(e)
           /\ \A k \in e.edges :
                \/ Decided(e, k)
                \/ /\ k \in d.edges
                   /\ RowOf(e, k) = RowOf(d, k)
                   /\ ~Decided(d, k) \/ \E i \in DOMAIN c.defs :
                                          RowOf(d, k).name = c.defs[i]
           /\ \A g \in Files : CallsIn(e, g) = CallsIn(d, g)
           /\ \A g \in Files \ {f} : \A k :
                Recorded(d, g, k) => Recorded(e, g, k)
           /\ \A k \in DOMAIN CallsIn(d, f) : Recorded(e, f, k)
<1> DEFINE file == d.ids[f]
           base == MaxOf(SymbolIds(d))
           symbols == SymbolRows(file, c.defs, base)
           imports == ImportRows(d.ids, file, c.imports)
           rows == CallRows(file, c.calls, base)
           i == Inserted(d, f, c)
<1>1. e = ResolveCalls(i, rows)
  BY Zenon DEF InsertSource, Inserted
<1>2. /\ Shaped(i)
      /\ i.ids = d.ids
      /\ i.stored = d.stored
      /\ i.symbols = d.symbols \cup symbols
      /\ i.imports = d.imports \cup imports
      /\ i.edges = d.edges
      /\ i.unresolved = d.unresolved
  BY InsertedFields DEF Tabled
<1>3. d.ids[f] # 0 /\ file \in Nat /\ d.ids \in [Files -> Nat]
  BY DEF Tabled, FilesTyped
<1>4. Tabled(i)
  BY <1>3, InsertedTabled
<1>5. base \in Nat
  BY NextSymbol DEF Tabled
<1> HIDE DEF base, i
<1>6. /\ \A s \in symbols : s.file = file /\ \E n \in DOMAIN c.defs :
                                               s.name = c.defs[n]
      /\ \A n \in 1..Len(c.defs) :
           [id |-> base + n, file |-> file, name |-> c.defs[n]] \in symbols
      /\ \A s, t \in symbols : s.name = t.name => s = t
  <2>1. DOMAIN c.defs = 1..Len(c.defs)
    BY SourceTyped
  <2>2. \A s \in symbols : /\ s.file = file
                           /\ \E n \in 1..Len(c.defs) : s.name = c.defs[n]
    BY <1>3, <1>5, SymbolRowsTyped
  <2>3. /\ \A n \in 1..Len(c.defs) :
             [id |-> base + n, file |-> file, name |-> c.defs[n]] \in symbols
        /\ \A s, t \in symbols : s.name = t.name => s = t
    BY <1>3, <1>5, SymbolRowsComplete
  <2> QED BY <2>1, <2>2, <2>3
<1>7. \A x \in imports : x.file = file
  <2>1. /\ imports \subseteq ImportType
        /\ \A x \in imports : /\ x.file = file
                              /\ [from |-> x.from, name |-> x.name] \in c.imports
    BY <1>3, ImportRowsTyped
  <2> QED BY <2>1
<1>8. rows \subseteq RowType /\ \A r \in rows : r.file = file
  BY <1>3, <1>5, CallRowsTyped
<1>9. /\ \A r \in rows : Called(i, r)
      /\ \A k \in DOMAIN CallsIn(i, f) : \E r \in rows : IsCall(i, r, f, k)
  <2>1. i.stored[f] = c /\ i.ids[f] = file
    BY <1>2
  <2>2. \A n \in 1..Len(c.defs) :
          [id |-> base + n, file |-> i.ids[f], name |-> c.defs[n]] \in i.symbols
    BY <1>2, <1>6, <2>1
  <2> HIDE DEF file, rows
  <2>3. rows = CallRows(i.ids[f], c.calls, base)
    BY <2>1 DEF rows
  <2> QED BY <1>5, <2>1, <2>2, <2>3, CallRowsAreCalls
<1> HIDE DEF symbols, imports, rows
<1>10. \A g \in Files : CallsIn(i, g) = CallsIn(d, g)
  BY <1>2 DEF CallsIn
<1>11. ASSUME NEW g \in Files, NEW r, NEW k, IsCall(d, r, g, k)
       PROVE  IsCall(i, r, g, k)
  BY <1>2, <1>10, <1>11 DEF IsCall
<1>12. \A r : Called(d, r) => Called(i, r)
  BY <1>10, <1>11 DEF Called
<1>13. UniqueNames(i)
  BY <1>2, <1>6 DEF UniqueNames, Ledger, Vacant
<1>14. ASSUME NEW k \in d.edges
       PROVE  /\ Joins(i, k)
              /\ RowOf(i, k) = RowOf(d, k)
              /\ RowOf(d, k).file # file
              /\ RowOf(d, k).name = Symbol(d, k.dst).name
  <2>1. /\ Symbol(d, k.src) \in d.symbols /\ Symbol(d, k.src).id = k.src
        /\ Symbol(d, k.dst) \in d.symbols /\ Symbol(d, k.dst).id = k.dst
    BY SymbolFound DEF Ledger, Joins, Tabled
  <2>2. /\ Symbol(i, k.src) = Symbol(d, k.src)
        /\ Symbol(i, k.dst) = Symbol(d, k.dst)
    BY <1>2, <1>4, <2>1, SymbolFound DEF Tabled
  <2>3. Joins(i, k)
    BY <1>2, <2>1 DEF Joins, SymbolIds
  <2> QED BY <2>1, <2>2, <2>3 DEF RowOf, Vacant
<1> DEFINE linked == Linkable(i, rows)
           U == d.unresolved \cup rows
<1>15. /\ e.edges = i.edges \cup EdgesFor(i, linked)
       /\ e.unresolved = d.unresolved \cup (rows \ linked)
       /\ SameNames(i, e)
  BY <1>1, <1>2, ResolveCallsFields
<1>16. linked \in SUBSET rows /\ \A r \in linked : r.encl # 0 /\ Resolves(i, r)
  BY DEF Linkable
<1> HIDE DEF linked
<1>17. e.unresolved = U \ linked
  BY <1>8, <1>15, <1>16 DEF Vacant
<1>18. U \in SUBSET RowType /\ \A r \in U : Called(i, r)
  BY <1>8, <1>9, <1>12 DEF Tabled, CallsTyped, Ledger
<1>19. \A k \in i.edges : RowOf(i, k) \notin U
  BY <1>2, <1>8, <1>14 DEF Single
<1>20. \A k \in i.edges : Joins(i, k) /\ Called(i, RowOf(i, k))
  BY <1>2, <1>12, <1>14 DEF Ledger
<1>21. \A a, b \in i.edges : RowOf(i, a) = RowOf(i, b) => a = b
  BY <1>2, <1>14 DEF Ledger
<1>22. linked \in SUBSET U
  BY <1>16
<1> HIDE DEF U
<1>23. /\ Ledger(e)
       /\ Single(e)
       /\ \A k \in e.edges : k \in i.edges \/ Decided(e, k)
       /\ \A r \in U : \/ r \in e.unresolved
                       \/ \E k \in e.edges : RowOf(e, k) = r
       /\ i.edges \subseteq e.edges
  <2>1. Links(i, e, U, linked)
    BY <1>13, <1>15, <1>16, <1>17, <1>18, <1>19, <1>20, <1>21, <1>22 DEF Links
  <2> QED BY <1>4, <2>1, Linking
<1>24. /\ \A r, g, k : IsCall(e, r, g, k) <=> IsCall(i, r, g, k)
       /\ \A k : RowOf(e, k) = RowOf(i, k)
       /\ \A k : Decided(e, k) <=> Decided(i, k)
  BY <1>15, SameNamesSameCalls, SameNamesSameDecision
<1>25. ASSUME NEW k \in d.edges, Decided(d, k),
              \A n \in DOMAIN c.defs : RowOf(d, k).name # c.defs[n]
       PROVE  Decided(i, k)
  <2> DEFINE r == RowOf(d, k)
  <2>1. Resolves(d, r) /\ EdgeFor(d, r) = k /\ RowOf(i, k) = r /\ r.file # file
    BY <1>14, <1>25 DEF Decided
  <2>2. \A n \in DOMAIN c.defs : r.name # c.defs[n]
    BY <1>25
  <2> HIDE DEF r
  <2>3. Candidates(i, r.name) = Candidates(d, r.name)
    BY <1>2, <1>6, <2>2 DEF Candidates
  <2>4. Bound(i, r.file, r.name) = Bound(d, r.file, r.name)
    BY <1>2, <1>7, <2>1 DEF Bound
  <2>5. Resolves(i, r) /\ EdgeFor(i, r) = EdgeFor(d, r)
    BY <2>1, <2>3, <2>4, DecisionRests
  <2> QED BY <2>1, <2>5 DEF Decided
<1>26. ASSUME NEW k \in e.edges, ~Decided(e, k)
       PROVE  /\ k \in d.edges
              /\ RowOf(e, k) = RowOf(d, k)
              /\ ~Decided(d, k) \/ \E n \in DOMAIN c.defs :
                                     RowOf(d, k).name = c.defs[n]
  BY <1>2, <1>14, <1>23, <1>24, <1>25, <1>26
<1>27. \A g \in Files : CallsIn(e, g) = CallsIn(d, g)
  BY <1>10, <1>15 DEF CallsIn, SameNames
<1>28. ASSUME NEW g \in Files, NEW k, Recorded(d, g, k)
       PROVE  Recorded(e, g, k)
  <2>1. ASSUME NEW r \in d.unresolved, IsCall(d, r, g, k)
        PROVE  Recorded(e, g, k)
    <3>1. r \in U /\ IsCall(e, r, g, k)
      BY <1>11, <1>24, <2>1 DEF U
    <3> QED BY <1>23, <3>1 DEF Recorded
  <2>2. ASSUME NEW x \in d.edges, IsCall(d, RowOf(d, x), g, k)
        PROVE  Recorded(e, g, k)
    <3>1. x \in e.edges /\ RowOf(e, x) = RowOf(d, x)
      BY <1>2, <1>14, <1>23, <1>24
    <3>2. IsCall(e, RowOf(d, x), g, k)
      BY <1>11, <1>24, <2>2
    <3> QED BY <3>1, <3>2 DEF Recorded
  <2> QED BY <1>28, <2>1, <2>2 DEF Recorded
<1>29. ASSUME NEW k \in DOMAIN CallsIn(d, f)
       PROVE  Recorded(e, f, k)
  <2>1. PICK r \in rows : IsCall(i, r, f, k)
    BY <1>9, <1>10
  <2>2. r \in U /\ IsCall(e, r, f, k)
    BY <1>24, <2>1 DEF U
  <2> QED BY <1>23, <2>2 DEF Recorded
<1> QED BY <1>23, <1>26, <1>27, <1>28, <1>29

(***************************************************************************)
(* The edges to redefined names go back to being unresolved: all that are  *)
(* left are decided.                                                       *)
(***************************************************************************)
LEMMA ReconsiderLedger ==
    ASSUME NEW d, Tabled(d), Ledger(d), Single(d), NEW names,
           \A k \in d.edges : Decided(d, k) \/ RowOf(d, k).name \in names,
           NEW e, e = Reconsider(d, names)
    PROVE  /\ Ledger(e)
           /\ Single(e)
           /\ \A k \in e.edges : Decided(e, k)
           /\ \A g : CallsIn(e, g) = CallsIn(d, g)
           /\ \A g, k : Recorded(d, g, k) => Recorded(e, g, k)
<1> DEFINE to == EdgesTo(d, names)
           back == {k \in to : Joins(d, k)}
           kept == RowsOf(d, back)
<1>1. /\ e.edges = d.edges \ to
      /\ e.unresolved = d.unresolved \cup kept
      /\ SameNames(d, e)
  BY ReconsiderFields DEF Tabled
<1>2. \A k \in d.edges : /\ Symbol(d, k.dst) \in d.symbols
                         /\ Symbol(d, k.dst).id = k.dst
                         /\ RowOf(d, k).name = Symbol(d, k.dst).name
  BY SymbolFound DEF Ledger, Joins, Tabled, RowOf
<1>3. \A k \in d.edges : k \notin to => RowOf(d, k).name \notin names
  BY <1>2 DEF EdgesTo
<1>4. to \subseteq d.edges /\ \A k \in to : RowOf(d, k) \in kept
  BY DEF Ledger, EdgesTo, RowsOf
<1>5. \A r \in kept : \E k \in to : r = RowOf(d, k)
  BY DEF RowsOf
<1> HIDE DEF to, back, kept
<1>6. /\ UniqueNames(e) <=> UniqueNames(d)
      /\ \A r, f, k : IsCall(e, r, f, k) <=> IsCall(d, r, f, k)
      /\ \A r : Called(e, r) <=> Called(d, r)
      /\ \A k : Joins(e, k) <=> Joins(d, k)
      /\ \A k : RowOf(e, k) = RowOf(d, k)
  BY <1>1, SameNamesSameCalls
<1>7. Ledger(e)
  BY <1>1, <1>4, <1>5, <1>6 DEF Ledger
<1>8. Single(e)
  BY <1>1, <1>4, <1>5, <1>6 DEF Single, Ledger
<1>9. \A k \in e.edges : Decided(e, k)
  <2>1. \A k : Decided(e, k) <=> Decided(d, k)
    BY <1>1, SameNamesSameDecision
  <2> QED BY <1>1, <1>3, <2>1
<1>10. \A g : CallsIn(e, g) = CallsIn(d, g)
  BY <1>1 DEF CallsIn, SameNames
<1>11. ASSUME NEW g, NEW k, Recorded(d, g, k)
       PROVE  Recorded(e, g, k)
  <2>1. ASSUME NEW x \in d.edges, IsCall(d, RowOf(d, x), g, k)
        PROVE  Recorded(e, g, k)
    <3>1. x \in e.edges \/ RowOf(d, x) \in e.unresolved
      BY <1>1, <1>4
    <3> QED BY <1>6, <2>1, <3>1 DEF Recorded
  <2> QED BY <1>1, <1>6, <1>11, <2>1 DEF Recorded
<1> QED BY <1>7, <1>8, <1>9, <1>10, <1>11

(***************************************************************************)
(* The last step of an update resolves what it can: nothing is left that   *)
(* could be resolved.                                                      *)
(***************************************************************************)
LEMMA ResolveAllLedger ==
    ASSUME NEW d, Tabled(d), Ledger(d), Single(d),
           \A k \in d.edges : Decided(d, k),
           NEW e, e = ResolveAll(d)
    PROVE  /\ Ledger(e)
           /\ Single(e)
           /\ \A k \in e.edges : Decided(e, k)
           /\ Exhausted(e)
           /\ \A g : CallsIn(e, g) = CallsIn(d, g)
           /\ \A g, k : Recorded(d, g, k) => Recorded(e, g, k)
<1> DEFINE linked == LinkableAgain(d)
           U == d.unresolved
<1>1. /\ e.edges = d.edges \cup EdgesFor(d, linked)
      /\ e.unresolved = U \ linked
      /\ SameNames(d, e)
  BY ResolveAllFields DEF Tabled
<1>2. /\ linked \subseteq U
      /\ \A r \in linked : r.encl # 0 /\ Resolves(d, r)
  <2>1. 0 \notin SymbolIds(d)
    BY DEF Tabled, SymbolsTyped, SymbolType, SymbolIds
  <2> QED BY <2>1 DEF LinkableAgain
<1>3. Links(d, e, U, linked)
  BY <1>1, <1>2 DEF Links, Ledger, Single, Tabled, CallsTyped
<1>4. /\ Ledger(e)
      /\ Single(e)
      /\ \A k \in e.edges : k \in d.edges \/ Decided(e, k)
      /\ \A r \in U : \/ r \in e.unresolved
                      \/ \E k \in e.edges : RowOf(e, k) = r
      /\ d.edges \subseteq e.edges
  <2> HIDE DEF U, linked
  <2> QED BY <1>3, Linking
<1>5. /\ \A r, f, k : IsCall(e, r, f, k) <=> IsCall(d, r, f, k)
      /\ \A k : RowOf(e, k) = RowOf(d, k)
      /\ \A r : Resolves(e, r) <=> Resolves(d, r)
      /\ \A k : Decided(e, k) <=> Decided(d, k)
  BY <1>1, SameNamesSameCalls, SameNamesSameDecision
<1>6. \A k \in e.edges : Decided(e, k)
  BY <1>4, <1>5
<1>7. Exhausted(e)
  <2> SUFFICES ASSUME NEW r \in e.unresolved, r.encl # 0, Resolves(e, r)
               PROVE  FALSE
    BY DEF Exhausted
  <2>1. r \in d.unresolved /\ r \notin LinkableAgain(d) /\ Resolves(d, r)
    BY <1>1, <1>5
  <2>2. r.encl \notin SymbolIds(d)
    BY <2>1 DEF LinkableAgain
  <2>3. Called(d, r)
    BY <2>1 DEF Ledger
  <2> QED BY <2>2, <2>3 DEF Called, IsCall, SymbolIds
<1>8. \A g : CallsIn(e, g) = CallsIn(d, g)
  BY <1>1 DEF CallsIn, SameNames
<1>9. ASSUME NEW g, NEW k, Recorded(d, g, k)
      PROVE  Recorded(e, g, k)
  <2>1. ASSUME NEW r \in d.unresolved, IsCall(d, r, g, k)
        PROVE  Recorded(e, g, k)
    BY <1>4, <1>5, <2>1 DEF Recorded
  <2>2. ASSUME NEW x \in d.edges, IsCall(d, RowOf(d, x), g, k)
        PROVE  Recorded(e, g, k)
    BY <1>4, <1>5, <2>2 DEF Recorded
  <2> QED BY <1>9, <2>1, <2>2 DEF Recorded
<1> QED BY <1>4, <1>6, <1>7, <1>8, <1>9

(***************************************************************************)
(* The first step of an update keeps the calls into the file as unresolved *)
(* ones, beside the edges that will go with the file's row.                *)
(***************************************************************************)
LEMMA DemoteLedger ==
    ASSUME NEW d, Tabled(d), Ledger(d), Single(d), NEW f,
           NEW e, e = [d EXCEPT !.unresolved = @ \cup Demoted(d, f)]
    PROVE  /\ Ledger(e)
           /\ Kept(e, f)
           /\ \A k \in d.edges : Decided(d, k) => Decided(e, k)
           /\ e.edges = d.edges
           /\ \A g : CallsIn(e, g) = CallsIn(d, g)
           /\ \A g, k : Recorded(d, g, k) => Recorded(e, g, k)
<1>1. /\ e.unresolved = d.unresolved \cup Demoted(d, f)
      /\ SameNames(d, e)
      /\ e.edges = d.edges
  BY DEF Tabled, Shaped, Fields, SameNames
<1>2. /\ \A r \in Demoted(d, f) :
           \E k \in d.edges : r = RowOf(d, k) /\ Into(d, k, f)
      /\ \A k \in d.edges : Into(d, k, f) => RowOf(d, k) \in Demoted(d, f)
  BY DEF Demoted, Into, Ledger
<1>3. /\ UniqueNames(e) <=> UniqueNames(d)
      /\ \A r, g, k : IsCall(e, r, g, k) <=> IsCall(d, r, g, k)
      /\ \A r : Called(e, r) <=> Called(d, r)
      /\ \A k : Joins(e, k) <=> Joins(d, k)
      /\ \A k : RowOf(e, k) = RowOf(d, k)
      /\ \A id : Symbol(e, id) = Symbol(d, id)
      /\ \A k : Decided(e, k) <=> Decided(d, k)
  BY <1>1, SameNamesSameCalls, SameNamesSameDecision
<1>4. Ledger(e)
  BY <1>1, <1>2, <1>3 DEF Ledger
<1>5. \A k : Into(e, k, f) <=> Into(d, k, f)
  BY <1>1, <1>3 DEF Into, SameNames
<1>6. Kept(e, f)
  BY <1>1, <1>2, <1>3, <1>5 DEF Kept, Single, Ledger
<1>7. \A g : CallsIn(e, g) = CallsIn(d, g)
  BY <1>1 DEF CallsIn, SameNames
<1>8. \A g, k : Recorded(d, g, k) => Recorded(e, g, k)
  BY <1>1, <1>3 DEF Recorded
<1> QED BY <1>1, <1>3, <1>4, <1>6, <1>7, <1>8

(***************************************************************************)
(* A build records every call of what it read, each decided against all    *)
(* the files.                                                              *)
(***************************************************************************)
LEMMA BuiltLedger ==
    ASSUME NEW w \in [Files -> Content],
           \A f \in Files \ Listed : w[f] = Absent,
           \A f \in Listed : ~DefinesTwice(w[f]),
           NEW e, e = Built(w)
    PROVE  /\ Ledger(e)
           /\ Single(e)
           /\ \A k \in e.edges : Decided(e, k)
           /\ Exhausted(e)
           /\ \A g \in Files : \A k \in DOMAIN CallsIn(e, g) : Recorded(e, g, k)
<1> DEFINE d == BuiltRows(w)
           U == BuiltCalls(w)
           linked == Linkable(d, U)
<1>1. /\ Shaped(d)
      /\ d.stored = w
      /\ d.ids = [f \in Files |-> FileId(w, f)]
      /\ d.symbols = UNION {SymbolRows(d.ids[f], w[f].defs, Base(w, f)) :
                              f \in Present(w)}
      /\ d.edges = {}
      /\ d.unresolved = {}
  BY BuiltRowsFields
<1>2. Tabled(d)
  BY BuiltRowsTabled
<1>3. e = ResolveCalls(d, U)
  BY DEF Built
<1> HIDE DEF d
<1>4. \A f \in Present(w) : /\ f \in Files
                            /\ w[f] \in Content
                            /\ w[f] # Absent
                            /\ ~DefinesTwice(w[f])
                            /\ d.ids[f] = FileId(w, f)
                            /\ d.ids[f] \in Nat
                            /\ Base(w, f) \in Nat
  BY <1>1, <1>2, BasesApart DEF Present, Files, Tabled, FilesTyped
<1>5. \A f \in Files : w[f] # Absent => f \in Present(w)
  BY DEF Present, Files
<1>6. ASSUME NEW f \in Present(w)
      PROVE  /\ \A s \in SymbolRows(d.ids[f], w[f].defs, Base(w, f)) :
                  s.file = d.ids[f]
             /\ \A n \in 1..Len(w[f].defs) :
                  [id |-> Base(w, f) + n, file |-> d.ids[f],
                   name |-> w[f].defs[n]]
                    \in SymbolRows(d.ids[f], w[f].defs, Base(w, f))
             /\ \A s, t \in SymbolRows(d.ids[f], w[f].defs, Base(w, f)) :
                  s.name = t.name => s = t
  BY <1>4, SymbolRowsTyped, SymbolRowsComplete
<1>7. UniqueNames(d)
  <2> SUFFICES ASSUME NEW s \in d.symbols, NEW t \in d.symbols,
                      s.file = t.file, s.name = t.name
               PROVE  s = t
    BY DEF UniqueNames
  <2>1. PICK f \in Present(w) :
          s \in SymbolRows(d.ids[f], w[f].defs, Base(w, f))
    BY <1>1
  <2>2. PICK g \in Present(w) :
          t \in SymbolRows(d.ids[g], w[g].defs, Base(w, g))
    BY <1>1
  <2>3. d.ids[f] = d.ids[g] /\ d.ids[f] # 0
    <3>1. d.ids[f] = s.file /\ d.ids[g] = t.file
      BY <1>6, <2>1, <2>2
    <3>2. s.file # 0
      BY <1>2 DEF Tabled, SymbolsTyped, IdsOf
    <3> QED BY <3>1, <3>2
  <2>4. f = g
    BY <1>2, <1>4, <2>3 DEF Tabled, FilesTyped
  <2> QED BY <1>6, <2>1, <2>2, <2>4
<1>8. ASSUME NEW f \in Present(w)
      PROVE  LET rows == CallRows(FileId(w, f), w[f].calls, Base(w, f))
             IN  /\ rows \subseteq U
                 /\ rows \subseteq RowType
                 /\ \A r \in rows : Called(d, r)
                 /\ \A k \in DOMAIN CallsIn(d, f) :
                      \E r \in rows : IsCall(d, r, f, k)
  <2> DEFINE rows == CallRows(d.ids[f], w[f].calls, Base(w, f))
  <2>1. rows = CallRows(FileId(w, f), w[f].calls, Base(w, f))
    BY <1>4
  <2>2. rows \subseteq U
    BY <2>1 DEF BuiltCalls
  <2>3. rows \subseteq RowType
    BY <1>4, CallRowsTyped
  <2>4. \A n \in 1..Len(w[f].defs) :
          [id |-> Base(w, f) + n, file |-> d.ids[f], name |-> w[f].defs[n]]
            \in d.symbols
    <3>1. SymbolRows(d.ids[f], w[f].defs, Base(w, f)) \subseteq d.symbols
      BY <1>1
    <3> QED BY <1>6, <3>1
  <2>5. /\ \A r \in rows : Called(d, r)
        /\ \A k \in DOMAIN CallsIn(d, f) : \E r \in rows : IsCall(d, r, f, k)
    <3> DEFINE c == w[f]
               base == Base(w, f)
    <3>1. /\ f \in Files
          /\ c \in Content
          /\ c # Absent
          /\ base \in Nat
          /\ d.stored[f] = c
      BY <1>1, <1>4
    <3>2. \A n \in 1..Len(c.defs) :
            [id |-> base + n, file |-> d.ids[f], name |-> c.defs[n]] \in d.symbols
      BY <2>4
    <3>3. rows = CallRows(d.ids[f], c.calls, base)
      OBVIOUS
    <3> HIDE DEF c, base, rows
    <3> QED BY <3>1, <3>2, <3>3, CallRowsAreCalls
  <2> HIDE DEF rows
  <2> QED BY <2>1, <2>2, <2>3, <2>5
<1>9. \A r \in U : \E f \in Present(w) :
        r \in CallRows(FileId(w, f), w[f].calls, Base(w, f))
  BY DEF BuiltCalls
<1>10. U \subseteq RowType /\ \A r \in U : Called(d, r)
  BY <1>8, <1>9
<1> HIDE DEF U
<1>11. /\ e.edges = d.edges \cup EdgesFor(d, linked)
       /\ e.unresolved = d.unresolved \cup (U \ linked)
       /\ SameNames(d, e)
  BY <1>2, <1>3, ResolveCallsFields DEF Tabled
<1>12. linked \subseteq U /\ \A r \in linked : r.encl # 0 /\ Resolves(d, r)
  BY DEF Linkable
<1>13. \A r \in U \ linked : r.encl # 0 => ~Resolves(d, r)
  BY DEF Linkable
<1> HIDE DEF linked
<1>14. Links(d, e, U, linked)
  BY <1>1, <1>7, <1>10, <1>11, <1>12 DEF Links
<1>15. /\ Ledger(e)
       /\ Single(e)
       /\ \A k \in e.edges : k \in d.edges \/ Decided(e, k)
       /\ \A r \in U : \/ r \in e.unresolved
                       \/ \E k \in e.edges : RowOf(e, k) = r
  BY <1>2, <1>14, Linking
<1>16. /\ \A r, f, k : IsCall(e, r, f, k) <=> IsCall(d, r, f, k)
       /\ \A r : Resolves(e, r) <=> Resolves(d, r)
  BY <1>11, SameNamesSameCalls, SameNamesSameDecision
<1>17. Exhausted(e)
  BY <1>1, <1>11, <1>13, <1>16 DEF Exhausted
<1>18. ASSUME NEW g \in Files, NEW k \in DOMAIN CallsIn(e, g)
       PROVE  Recorded(e, g, k)
  <2>1. CallsIn(e, g) = CallsIn(d, g) /\ e.stored[g] = w[g]
    BY <1>1, <1>11 DEF CallsIn, SameNames
  <2>2. g \in Present(w)
    BY <1>5, <2>1, CallsAreRead
  <2>3. PICK r \in U : IsCall(d, r, g, k)
    BY <1>8, <2>1, <2>2
  <2> QED BY <1>15, <1>16, <2>3 DEF Recorded
<1> QED BY <1>1, <1>15, <1>17, <1>18

----------------------------------------------------------------------------
(* The ledger through the steps of the service.                            *)

LedgerHolds ==
    /\ Ledger(db)
    /\ pc = "read" => Kept(db, target)
    /\ pc # "read" => Single(db)
    /\ pc = "insert" => /\ Vacant(db, db.ids[target])
                        /\ Complete(db, Files \ {target}, dropped)
    /\ pc # "insert" => Complete(db, Files, dropped)
    /\ \A e \in db.edges :
         \/ Decided(db, e)
         \/ /\ pc = "reconsider"
            /\ \E i \in DOMAIN source.defs : RowOf(db, e).name = source.defs[i]
    /\ pc = "stamp" \/ (pc \in Between /\ settled) => Exhausted(db)

LedgerInvariant == Whole => LedgerHolds

\* The calls of a file whose row is gone.
LEMMA NoCalls ==
    ASSUME NEW d, NEW f, d.stored[f] = Absent
    PROVE  DOMAIN CallsIn(d, f) = {}
<1>1. CallsIn(d, f) = <<>>
  BY DEF CallsIn
<1> QED BY <1>1

LEMMA CompleteCarries ==
    ASSUME NEW d, NEW e, NEW fs, NEW gone,
           \A g \in fs : CallsIn(e, g) = CallsIn(d, g),
           \A g \in fs : \A k : Recorded(d, g, k) => Recorded(e, g, k),
           Complete(d, fs, gone)
    PROVE  Complete(e, fs, gone)
BY DEF Complete

\* An update writes or deletes the row of its file: what led into it was kept
\* before.
Without(gone, f) == {s \in gone : s.file # f}

Updated(d, e, file, f, id, c, gone) ==
    /\ Tabled(d)
    /\ Tabled(e)
    /\ f \in Files
    /\ Rewritten(d, e, file, f, id, c)
    /\ \A g \in Files \ {f} : d.ids[g] # file
    /\ d.ids[f] # 0 => file = d.ids[f]
    /\ Ledger(d)
    /\ Kept(d, f)
    /\ \A k \in d.edges : Decided(d, k)
    /\ Complete(d, Files, gone)

LEMMA UpdatedLedger ==
    ASSUME NEW d, NEW e, NEW f, NEW file, NEW id, NEW c, NEW gone,
           Updated(d, e, file, f, id, c, gone)
    PROVE  /\ Ledger(e)
           /\ Single(e)
           /\ Vacant(e, file)
           /\ \A k \in e.edges : Decided(e, k)
           /\ Complete(e, Files \ {f}, Without(gone, f))
<1> USE DEF Updated
<1>1. \A k \in d.edges : RowOf(d, k) \in d.unresolved <=> Into(d, k, f)
  BY DEF Kept
<1>2. /\ Ledger(e)
      /\ Single(e)
      /\ Vacant(e, file)
      /\ \A k \in e.edges : k \in d.edges /\ (Decided(d, k) => Decided(e, k))
      /\ \A g \in Files \ {f} :
           /\ CallsIn(e, g) = CallsIn(d, g)
           /\ \A k : Recorded(d, g, k) =>
                \/ Recorded(e, g, k)
                \/ \E x \in d.edges : /\ IsCall(d, RowOf(d, x), g, k)
                                      /\ Into(d, x, f)
                                      /\ RowOf(d, x) \notin e.unresolved
  BY <1>1, RewrittenLedger
<1>3. e.unresolved = {r \in d.unresolved : r.file # file}
  BY DEF Rewritten
<1>4. ASSUME NEW g \in Files \ {f}, NEW k, Recorded(d, g, k)
      PROVE  Recorded(e, g, k)
  <2>1. ASSUME NEW x \in d.edges, IsCall(d, RowOf(d, x), g, k), Into(d, x, f)
        PROVE  RowOf(d, x) \in e.unresolved
    <3>1. RowOf(d, x).file = d.ids[g] /\ d.ids[g] # file
      BY <2>1 DEF IsCall
    <3> QED BY <1>1, <1>3, <2>1, <3>1
  <2> QED BY <1>2, <1>4, <2>1
<1>5. Complete(e, Files \ {f}, Without(gone, f))
  <2> SUFFICES ASSUME NEW g \in Files \ {f}, NEW k \in DOMAIN CallsIn(e, g)
               PROVE  \/ Recorded(e, g, k)
                      \/ [file |-> g, line |-> k] \in Without(gone, f)
    BY DEF Complete, Without
  <2>1. k \in DOMAIN CallsIn(d, g)
    BY <1>2
  <2>2. Recorded(d, g, k) \/ [file |-> g, line |-> k] \in gone
    BY <2>1 DEF Complete
  <2> QED BY <1>4, <2>2 DEF Without
<1> QED BY <1>2, <1>5

\* Service::remove_file gives up the calls that led into the file.
LEMMA RemovedLedger ==
    ASSUME NEW d, Tabled(d), NEW f \in Files, d.ids[f] # 0, Ledger(d),
           Single(d), \A k \in d.edges : Decided(d, k),
           NEW gone, Complete(d, Files, gone), NEW e, e = RemoveRow(d, f)
    PROVE  /\ Ledger(e)
           /\ Single(e)
           /\ \A k \in e.edges : Decided(e, k)
           /\ Complete(e, Files, {s \in gone : s.file # f} \cup
                {[file |-> Path(d, r.file), line |-> r.line] :
                   r \in Demoted(d, f)})
<1> DEFINE lost == {[file |-> Path(d, r.file), line |-> r.line] :
                      r \in Demoted(d, f)}
           file == d.ids[f]
<1>1. Tabled(e) /\ Rewritten(d, e, file, f, 0, Absent)
  BY RemoveTabled
<1>2. /\ \A g \in Files \ {f} : d.ids[g] # file
      /\ d.ids[f] # 0 => file = d.ids[f]
  BY DEF Tabled, FilesTyped
<1>3. \A k \in d.edges : RowOf(d, k) \in d.unresolved => Into(d, k, f)
  BY DEF Single
<1> HIDE DEF file
<1>4. /\ Ledger(e)
      /\ Single(e)
      /\ \A k \in e.edges : k \in d.edges /\ (Decided(d, k) => Decided(e, k))
      /\ \A g \in Files \ {f} :
           /\ CallsIn(e, g) = CallsIn(d, g)
           /\ \A k : Recorded(d, g, k) =>
                \/ Recorded(e, g, k)
                \/ \E x \in d.edges : /\ IsCall(d, RowOf(d, x), g, k)
                                      /\ Into(d, x, f)
                                      /\ RowOf(d, x) \notin e.unresolved
  BY <1>1, <1>2, <1>3, RewrittenLedger
<1>5. ASSUME NEW g \in Files \ {f}, NEW k, NEW x \in d.edges,
             IsCall(d, RowOf(d, x), g, k), Into(d, x, f)
      PROVE  [file |-> g, line |-> k] \in lost
  <2> DEFINE r == RowOf(d, x)
  <2>1. r \in Demoted(d, f)
    BY <1>5 DEF Demoted, Into, Ledger
  <2>2. r.line = k /\ r.file = d.ids[g] /\ k \in DOMAIN CallsIn(d, g)
    BY <1>5 DEF IsCall
  <2>3. d.ids[g] # 0
    BY <2>2, CallsAreRead DEF Tabled, FilesTyped
  <2> HIDE DEF r
  <2>4. Path(d, r.file) = g
    BY <2>2, <2>3 DEF Path, Tabled, FilesTyped
  <2> QED BY <2>1, <2>2, <2>4
<1>6. DOMAIN CallsIn(e, f) = {}
  <2>1. e.stored = [d.stored EXCEPT ![f] = Absent] /\ d.stored \in [Files -> Content]
    BY <1>1 DEF Rewritten, Tabled, FilesTyped
  <2>2. e.stored[f] = Absent
    BY <2>1
  <2> QED BY <2>2, NoCalls
<1> HIDE DEF lost
<1>7. Complete(e, Files, {s \in gone : s.file # f} \cup lost)
  <2> SUFFICES ASSUME NEW g \in Files, NEW k \in DOMAIN CallsIn(e, g)
               PROVE  \/ Recorded(e, g, k)
                      \/ [file |-> g, line |-> k] \in
                           {s \in gone : s.file # f} \cup lost
    BY DEF Complete
  <2>1. g # f
    BY <1>6
  <2>2. k \in DOMAIN CallsIn(d, g)
    BY <1>4, <2>1
  <2>3. Recorded(d, g, k) \/ [file |-> g, line |-> k] \in gone
    BY <2>2 DEF Complete
  <2>4. CASE [file |-> g, line |-> k] \in gone
    BY <2>1, <2>4
  <2>5. CASE Recorded(d, g, k)
    BY <1>4, <1>5, <2>1, <2>5
  <2> QED BY <2>3, <2>4, <2>5
<1> QED BY <1>4, <1>7 DEF lost

LEMMA LedgerInit ==
    Init => LedgerInvariant
<1> SUFFICES ASSUME Init
             PROVE  LedgerHolds
  BY DEF LedgerInvariant
<1>1. /\ db.symbols = {} /\ db.edges = {} /\ db.unresolved = {}
      /\ db.stored = Nothing /\ pc = "idle"
  BY DEF Init, Empty
<1>2. Ledger(db) /\ Single(db) /\ Exhausted(db)
  BY <1>1 DEF Ledger, UniqueNames, Single, Exhausted
<1>3. \A f \in Files : DOMAIN CallsIn(db, f) = {}
  BY <1>1, NoCalls DEF Nothing
<1>4. Complete(db, Files, dropped)
  BY <1>3 DEF Complete
<1> QED BY <1>1, <1>2, <1>4 DEF LedgerHolds

\* A step that leaves the database alone.
LEMMA LedgerRests ==
    ASSUME LedgerHolds, UNCHANGED <<db, dropped, settled>>,
           pc \in Between, pc' \in Between
    PROVE  LedgerHolds'
<1>1. /\ Ledger(db')
      /\ Single(db')
      /\ Complete(db', Files, dropped')
      /\ \A e \in db'.edges : Decided(db', e)
      /\ settled' => Exhausted(db')
  BY DEF LedgerHolds, Between
<1>2. pc' # "read" /\ pc' # "insert" /\ pc' # "stamp"
  BY DEF Between
<1> QED BY <1>1, <1>2 DEF LedgerHolds

LEMMA ReplaceStep ==
    ASSUME TypedInvariant, LedgerHolds, Replace
    PROVE  LedgerHolds'
<1> USE DEF TypedInvariant
<1> DEFINE f == target
           left == Without(dropped, f)
<1>1. /\ Ledger(db)
      /\ Kept(db, f)
      /\ Complete(db, Files, dropped)
      /\ \A k \in db.edges : Decided(db, k)
  BY DEF LedgerHolds, Replace
<1>2. /\ f \in Files /\ work[f] \in Content /\ source' = work[f]
      /\ target' = f /\ dropped' = left
  BY DEF ServiceTyped, Replace, Without
<1>3. Tabled(db')
  BY TablesStep DEF Next, UpdateFile
<1>4. Files \ {f} \subseteq Files
  OBVIOUS
<1>5. \A g \in Files \ {f} : db.ids[f] # 0 => db.ids[g] # db.ids[f]
  BY <1>2 DEF Tabled, FilesTyped
<1> HIDE DEF f, left
<1>6. CASE work[f] = Absent /\ db.ids[f] = 0
  <2>1. db' = db /\ pc' = "resolve"
    BY <1>2, <1>6 DEF Replace, RemoveRow, f
  <2>2. \A e \in db.edges : ~Into(db, e, f)
    <3> SUFFICES ASSUME NEW e \in db.edges, Into(db, e, f)
                 PROVE  FALSE
      OBVIOUS
    <3>1. Symbol(db, e.dst) \in db.symbols
      BY <1>1, SymbolFound DEF Ledger, Joins, Tabled
    <3>2. Symbol(db, e.dst).file # 0
      BY <3>1 DEF Tabled, SymbolsTyped, IdsOf
    <3> QED BY <1>6, <3>2 DEF Into
  <2>3. Single(db)
    BY <1>1, <2>2 DEF Single, Kept
  <2>4. DOMAIN CallsIn(db, f) = {}
    BY <1>2, <1>6, NoCalls DEF Tabled, FilesTyped
  <2>5. Complete(db, Files, left)
    <3> SUFFICES ASSUME NEW g \in Files, NEW k \in DOMAIN CallsIn(db, g)
                 PROVE  Recorded(db, g, k) \/ [file |-> g, line |-> k] \in left
      BY DEF Complete
    <3>1. Recorded(db, g, k) \/ [file |-> g, line |-> k] \in dropped
      BY <1>1 DEF Complete
    <3>2. g # f
      BY <2>4
    <3> QED BY <3>1, <3>2 DEF left, Without
  <2> QED BY <1>1, <1>2, <2>1, <2>3, <2>5 DEF LedgerHolds, Between
<1>7. CASE work[f] = Absent /\ db.ids[f] # 0
  <2> DEFINE e == db'
             file == db.ids[f]
  <2>1. e = RemoveRow(db, f) /\ pc' = "resolve"
    BY <1>2, <1>7 DEF Replace, f
  <2>2. Tabled(e) /\ Rewritten(db, e, file, f, 0, Absent)
    BY <1>2, <1>7, <2>1, RemoveTabled
  <2>3. /\ \A g \in Files \ {f} : db.ids[g] # file
        /\ db.ids[f] # 0 => file = db.ids[f]
    BY <1>5, <1>7
  <2>4. DOMAIN CallsIn(e, f) = {}
    <3>1. e.stored = [db.stored EXCEPT ![f] = Absent]
          /\ db.stored \in [Files -> Content]
      BY <2>2 DEF Rewritten, Tabled, FilesTyped
    <3>2. e.stored[f] = Absent
      BY <1>2, <3>1
    <3> QED BY <3>2, NoCalls
  <2> HIDE DEF e, file
  <2>5. /\ Ledger(e)
        /\ Single(e)
        /\ \A k \in e.edges : Decided(e, k)
        /\ Complete(e, Files \ {f}, Without(dropped, f))
    <3>1. Updated(db, e, file, f, 0, Absent, dropped)
      BY <1>1, <1>2, <2>2, <2>3 DEF Updated
    <3> QED BY <3>1, UpdatedLedger
  <2>6. Complete(e, Files, dropped')
    BY <1>2, <2>4, <2>5 DEF Complete, left
  <2> QED BY <2>1, <2>5, <2>6 DEF LedgerHolds, Between, e
<1>8. CASE work[f] # Absent
  <2> DEFINE e == db'
             file == RowId(db, f)
  <2>1. e = ReplaceRow(db, f, work[f]) /\ pc' = "insert"
    BY <1>2, <1>8 DEF Replace, f
  <2>2. Tabled(e) /\ Rewritten(db, e, file, f, file, work[f])
    BY <1>2, <1>8, <2>1, ReplaceTabled
  <2>3. /\ \A g \in Files \ {f} : db.ids[g] # file
        /\ db.ids[f] # 0 => file = db.ids[f]
    BY <1>2, RowIdIsNew DEF Tabled
  <2>4. e.ids[f] = file
    <3>1. e.ids = [db.ids EXCEPT ![f] = file] /\ db.ids \in [Files -> Nat]
      BY <2>2 DEF Rewritten, Tabled, FilesTyped
    <3> QED BY <1>2, <3>1
  <2> HIDE DEF e, file
  <2>5. /\ Ledger(e)
        /\ Single(e)
        /\ Vacant(e, file)
        /\ \A k \in e.edges : Decided(e, k)
        /\ Complete(e, Files \ {f}, Without(dropped, f))
    <3>1. Updated(db, e, file, f, file, work[f], dropped)
      BY <1>1, <1>2, <2>2, <2>3 DEF Updated
    <3> QED BY <3>1, UpdatedLedger
  <2>6. Vacant(e, e.ids[target']) /\ Complete(e, Files \ {target'}, dropped')
    BY <1>2, <2>4, <2>5 DEF left
  <2> QED BY <2>1, <2>5, <2>6 DEF LedgerHolds, Between, e
<1> QED BY <1>6, <1>7, <1>8

LEMMA InsertStep ==
    ASSUME TypedInvariant, LedgerHolds, Whole, Insert
    PROVE  LedgerHolds'
<1> USE DEF TypedInvariant
<1> DEFINE d == db
           e == db'
           f == target
           c == source
<1>1. /\ f \in Files
      /\ c \in Content
      /\ c # Absent
      /\ d.stored[f] = c
      /\ ~DefinesTwice(c)
  BY DEF ServiceTyped, InsertsWhatItRead, Insert, Whole
<1>2. /\ Tabled(d)
      /\ Ledger(d)
      /\ Single(d)
      /\ Vacant(d, d.ids[f])
      /\ Complete(d, Files \ {f}, dropped)
      /\ \A k \in d.edges : Decided(d, k)
  BY DEF LedgerHolds, Insert
<1>3. /\ e = InsertSource(d, f, c)
      /\ pc' = "reconsider"
      /\ source' = c
      /\ dropped' = dropped
  BY DEF Insert, update, history
<1> HIDE DEF d, e, f, c
<1>4. /\ Ledger(e)
      /\ Single(e)
      /\ \A k \in e.edges :
           \/ Decided(e, k)
           \/ /\ k \in d.edges
              /\ RowOf(e, k) = RowOf(d, k)
              /\ ~Decided(d, k) \/ \E i \in DOMAIN c.defs :
                                     RowOf(d, k).name = c.defs[i]
      /\ \A g \in Files : CallsIn(e, g) = CallsIn(d, g)
      /\ \A g \in Files \ {f} : \A k : Recorded(d, g, k) => Recorded(e, g, k)
      /\ \A k \in DOMAIN CallsIn(d, f) : Recorded(e, f, k)
  BY <1>1, <1>2, <1>3, InsertLedger
<1>5. Complete(e, Files, dropped')
  BY <1>1, <1>2, <1>3, <1>4 DEF Complete
<1>6. \A k \in e.edges : \/ Decided(e, k)
                         \/ \E i \in DOMAIN c.defs : RowOf(e, k).name = c.defs[i]
  BY <1>2, <1>4
<1> QED BY <1>3, <1>4, <1>5, <1>6 DEF LedgerHolds, Between, e

LEMMA ReconsiderStep ==
    ASSUME TypedInvariant, LedgerHolds, ReconsiderCalls
    PROVE  LedgerHolds'
<1> DEFINE d == db
           e == db'
           names == {source.defs[i] : i \in DOMAIN source.defs}
<1>1. /\ Tabled(d)
      /\ Ledger(d)
      /\ Single(d)
      /\ Complete(d, Files, dropped)
      /\ \A k \in d.edges : Decided(d, k) \/ RowOf(d, k).name \in names
  BY DEF LedgerHolds, ReconsiderCalls, TypedInvariant
<1>2. e = Reconsider(d, names) /\ pc' = "resolve" /\ dropped' = dropped
  BY DEF ReconsiderCalls, update, history
<1> HIDE DEF d, e, names
<1>3. /\ Ledger(e)
      /\ Single(e)
      /\ \A k \in e.edges : Decided(e, k)
      /\ \A g : CallsIn(e, g) = CallsIn(d, g)
      /\ \A g, k : Recorded(d, g, k) => Recorded(e, g, k)
  BY <1>1, <1>2, ReconsiderLedger
<1>4. Complete(e, Files, dropped')
  BY <1>1, <1>2, <1>3, CompleteCarries
<1> QED BY <1>2, <1>3, <1>4 DEF LedgerHolds, Between, e

LEMMA ResolveStep ==
    ASSUME TypedInvariant, LedgerHolds, ResolveStored
    PROVE  LedgerHolds'
<1> DEFINE d == db
           e == db'
<1>1. /\ Tabled(d)
      /\ Ledger(d)
      /\ Single(d)
      /\ Complete(d, Files, dropped)
      /\ \A k \in d.edges : Decided(d, k)
  BY DEF LedgerHolds, ResolveStored, TypedInvariant
<1>2. e = ResolveAll(d) /\ pc' = "stamp" /\ dropped' = dropped
  BY DEF ResolveStored, update, history
<1> HIDE DEF d, e
<1>3. /\ Ledger(e)
      /\ Single(e)
      /\ \A k \in e.edges : Decided(e, k)
      /\ Exhausted(e)
      /\ \A g : CallsIn(e, g) = CallsIn(d, g)
      /\ \A g, k : Recorded(d, g, k) => Recorded(e, g, k)
  BY <1>1, <1>2, ResolveAllLedger
<1>4. Complete(e, Files, dropped')
  BY <1>1, <1>2, <1>3, CompleteCarries
<1> QED BY <1>2, <1>3, <1>4 DEF LedgerHolds, Between, e

LEMMA StampStep ==
    ASSUME TypedInvariant, LedgerHolds, Stamp
    PROVE  LedgerHolds'
<1> DEFINE d == db
           e == db'
<1>1. /\ Tabled(d)
      /\ Ledger(d)
      /\ Single(d)
      /\ Complete(d, Files, dropped)
      /\ \A k \in d.edges : Decided(d, k)
      /\ Exhausted(d)
  BY DEF LedgerHolds, Stamp, TypedInvariant
<1>2. pc' = "idle" /\ dropped' = dropped
  BY DEF Stamp
<1>3. SameNames(d, e) /\ e.edges = d.edges /\ e.unresolved = d.unresolved
  <2>1. Signature(work) \in [Files -> Content] \cup {None}
    BY SignatureTyped DEF TypedInvariant, ServiceTyped
  <2> QED BY <1>1, <2>1, StampFields DEF Stamp
<1> HIDE DEF d, e
<1>4. /\ UniqueNames(e) <=> UniqueNames(d)
      /\ \A r, f, k : IsCall(e, r, f, k) <=> IsCall(d, r, f, k)
      /\ \A r : Called(e, r) <=> Called(d, r)
      /\ \A k : Joins(e, k) <=> Joins(d, k)
      /\ \A k : RowOf(e, k) = RowOf(d, k)
      /\ \A r : Resolves(e, r) <=> Resolves(d, r)
      /\ \A k : Decided(e, k) <=> Decided(d, k)
  BY <1>3, SameNamesSameCalls, SameNamesSameDecision
<1>5. Ledger(e) /\ Single(e) /\ Exhausted(e)
  BY <1>1, <1>3, <1>4 DEF Ledger, Single, Exhausted
<1>6. \A k \in e.edges : Decided(e, k)
  BY <1>1, <1>3, <1>4
<1>7. /\ \A g : CallsIn(e, g) = CallsIn(d, g)
      /\ \A g, k : Recorded(d, g, k) => Recorded(e, g, k)
  BY <1>3, <1>4 DEF CallsIn, SameNames, Recorded
<1>8. Complete(e, Files, dropped')
  BY <1>1, <1>2, <1>7, CompleteCarries
<1> QED BY <1>2, <1>5, <1>6, <1>8 DEF LedgerHolds, Between, e

LEMMA DemoteStep ==
    ASSUME TypedInvariant, LedgerHolds, NEW f \in Files, Demote(f)
    PROVE  LedgerHolds'
<1> DEFINE d == db
           e == db'
<1>1. /\ Tabled(d)
      /\ Ledger(d)
      /\ Single(d)
      /\ Complete(d, Files, dropped)
      /\ \A k \in d.edges : Decided(d, k)
  BY DEF LedgerHolds, Demote, TypedInvariant
<1>2. /\ e = [d EXCEPT !.unresolved = @ \cup Demoted(d, f)]
      /\ pc' = "read"
      /\ target' = f
      /\ dropped' = dropped
  BY DEF Demote, history
<1> HIDE DEF d, e
<1>3. /\ Ledger(e)
      /\ Kept(e, f)
      /\ \A k \in d.edges : Decided(d, k) => Decided(e, k)
      /\ e.edges = d.edges
      /\ \A g : CallsIn(e, g) = CallsIn(d, g)
      /\ \A g, k : Recorded(d, g, k) => Recorded(e, g, k)
  BY <1>1, <1>2, DemoteLedger
<1>4. Complete(e, Files, dropped')
  BY <1>1, <1>2, <1>3, CompleteCarries
<1>5. \A k \in e.edges : Decided(e, k)
  BY <1>1, <1>3
<1> QED BY <1>2, <1>3, <1>4, <1>5 DEF LedgerHolds, Between, e

LEMMA RemoveStep ==
    ASSUME TypedInvariant, LedgerHolds, NEW f \in Files, RemoveFile(f)
    PROVE  LedgerHolds'
<1> DEFINE lost == {[file |-> Path(db, r.file), line |-> r.line] :
                      r \in Demoted(db, f)}
           left == {s \in dropped : s.file # f} \cup lost
<1>1. /\ Tabled(db)
      /\ Ledger(db)
      /\ Single(db)
      /\ Complete(db, Files, dropped)
      /\ \A k \in db.edges : Decided(db, k)
      /\ db.ids[f] # 0
  BY DEF LedgerHolds, RemoveFile, TypedInvariant
<1>2. db' = RemoveRow(db, f) /\ dropped' = left
  BY DEF RemoveFile
<1>3. /\ Ledger(db')
      /\ Single(db')
      /\ \A k \in db'.edges : Decided(db', k)
      /\ Complete(db', Files, left)
  BY <1>1, <1>2, RemovedLedger
<1>4. pc' = "idle" /\ settled' = FALSE
  BY DEF RemoveFile
<1> HIDE DEF lost, left
<1> QED BY <1>2, <1>3, <1>4 DEF LedgerHolds, Between

LEMMA PublishStep ==
    ASSUME TypedInvariant, Publish, ~doubled'
    PROVE  LedgerHolds'
<1> DEFINE e == db'
           w == inputs
<1>1. /\ w \in [Files -> Content]
      /\ \A f \in Files \ Listed : w[f] = Absent
      /\ \A f \in Listed : ~DefinesTwice(w[f])
      /\ e = Built(w)
  BY DEF TypedInvariant, ServiceTyped, ReadsTheWalk, Publish
<1>2. pc' = "idle"
  BY DEF Publish, EndBuild
<1> HIDE DEF e, w
<1>3. /\ Ledger(e)
      /\ Single(e)
      /\ \A k \in e.edges : Decided(e, k)
      /\ Exhausted(e)
      /\ \A g \in Files : \A k \in DOMAIN CallsIn(e, g) : Recorded(e, g, k)
  BY <1>1, BuiltLedger
<1>4. Complete(e, Files, dropped')
  BY <1>3 DEF Complete
<1> QED BY <1>2, <1>3, <1>4 DEF LedgerHolds, Between, e

LEMMA LedgerStep ==
    TypedInvariant /\ LedgerInvariant /\ [Next]_vars => LedgerInvariant'
<1> SUFFICES ASSUME TypedInvariant, LedgerInvariant, [Next]_vars, Whole'
             PROVE  LedgerHolds'
  BY DEF LedgerInvariant
<1>1. ASSUME NEW f \in Files, NEW c \in Content, Edit(f, c)
      PROVE  LedgerHolds'
  BY <1>1 DEF Edit, update, history, LedgerInvariant, LedgerHolds, Whole
<1>2. ASSUME NEW f \in Files, RemoveFile(f)
      PROVE  LedgerHolds'
  <2>1. Whole
    BY <1>2 DEF RemoveFile, Whole
  <2> QED BY <1>2, <2>1, RemoveStep DEF LedgerInvariant
<1>3. ASSUME NEW f \in Files, Demote(f)
      PROVE  LedgerHolds'
  <2>1. Whole
    BY <1>3 DEF Demote, Whole, history
  <2> QED BY <1>3, <2>1, DemoteStep DEF LedgerInvariant
<1>4. CASE Replace
  <2>1. Whole
    BY <1>4 DEF Replace, Whole
  <2> QED BY <1>4, <2>1, ReplaceStep DEF LedgerInvariant
<1>5. CASE Insert
  <2>1. Whole
    BY <1>5 DEF Insert, Whole, history
  <2> QED BY <1>5, <2>1, InsertStep DEF LedgerInvariant
<1>6. CASE ReconsiderCalls
  <2>1. Whole
    BY <1>6 DEF ReconsiderCalls, Whole, history
  <2> QED BY <1>6, <2>1, ReconsiderStep DEF LedgerInvariant
<1>7. CASE ResolveStored
  <2>1. Whole
    BY <1>7 DEF ResolveStored, Whole, history
  <2> QED BY <1>7, <2>1, ResolveStep DEF LedgerInvariant
<1>8. CASE Stamp
  <2>1. Whole
    BY <1>8 DEF Stamp, Whole
  <2> QED BY <1>8, <2>1, StampStep DEF LedgerInvariant
<1>9. CASE Publish
  BY <1>9, PublishStep DEF Whole
<1>10. CASE Reuse \/ StartBuild \/ Collect \/ CheckFile \/ GiveUp
  <2>1. /\ Whole
        /\ UNCHANGED <<db, dropped, settled>>
        /\ pc \in Between
        /\ pc' \in Between
    BY <1>10 DEF Reuse, StartBuild, Collect, CheckFile, GiveUp, EndBuild, Whole,
                 history, Between
  <2> QED BY <2>1, LedgerRests DEF LedgerInvariant
<1>11. CASE Interrupt
  <2>1. /\ Whole
        /\ UNCHANGED <<db, dropped, settled>>
        /\ pc \notin Updating
        /\ pc' = "idle"
    BY <1>11 DEF Interrupt, EndBuild, Whole, Updating
  <2>2. pc \in Between
    BY <2>1 DEF TypedInvariant, ServiceTyped, Phases, Updating, Between
  <2> QED BY <2>1, <2>2, LedgerRests DEF LedgerInvariant, Between
<1>12. CASE UNCHANGED vars
  BY <1>12 DEF vars, update, history, LedgerInvariant, LedgerHolds, Whole
<1> QED BY <1>1, <1>2, <1>3, <1>4, <1>5, <1>6, <1>7, <1>8, <1>9, <1>10, <1>11,
           <1>12
        DEF Next, UpdateFile, EnsureGraph

LEMMA LedgerAlways ==
    Spec => [](TypedInvariant /\ LedgerInvariant)
BY TypedInit, TypedStep, LedgerInit, LedgerStep, PTL DEF Spec

\* The definition an edge starts in is one of the file its row names.
LEMMA EdgeStarts ==
    ASSUME NEW d, Tabled(d), NEW e, Joins(d, e), NEW file
    PROVE  e.src \in {s.id : s \in SymbolsOf(d, file)} <=> RowOf(d, e).file = file
<1>1. e.src \in SymbolIds(d)
  BY DEF Joins
<1>2. RowOf(d, e).file = Symbol(d, e.src).file
  BY DEF RowOf
<1> QED BY <1>1, <1>2, OwnSymbols DEF Tabled

\* A row is known by its file and its line.
LEMMA RowIsAt ==
    ASSUME NEW d, FilesTyped(d), NEW r, Called(d, r), NEW f \in Files,
           d.ids[f] # 0, r.file = d.ids[f]
    PROVE  IsCall(d, r, f, r.line)
<1>1. PICK g \in Files : \E k \in DOMAIN CallsIn(d, g) : IsCall(d, r, g, k)
  BY DEF Called
<1>2. PICK k \in DOMAIN CallsIn(d, g) : IsCall(d, r, g, k)
  BY <1>1
<1>3. k = r.line /\ d.ids[g] = d.ids[f]
  BY <1>2 DEF IsCall
<1>4. g = f
  BY <1>3 DEF FilesTyped
<1> QED BY <1>2, <1>3, <1>4

LEMMA AccountFollows ==
    TypedInvariant /\ LedgerInvariant => CallsAccounted
<1> SUFFICES ASSUME TypedInvariant, LedgerInvariant, handle, Whole,
                    NEW f \in Files, NEW k \in DOMAIN Calls(f)
             PROVE  \/ RowsAt(f, k) \cup EdgesAt(f, k) # {}
                    \/ [file |-> f, line |-> k] \in dropped
  BY DEF CallsAccounted
<1>1. Tabled(db) /\ Ledger(db) /\ Complete(db, Files, dropped)
  BY DEF LedgerInvariant, LedgerHolds, TypedInvariant, ServesIdle
<1>2. Calls(f) = CallsIn(db, f)
  BY DEF Calls, CallsIn
<1>3. Recorded(db, f, k) \/ [file |-> f, line |-> k] \in dropped
  BY <1>1, <1>2 DEF Complete
<1>4. ASSUME NEW r \in db.unresolved, IsCall(db, r, f, k)
      PROVE  r \in RowsAt(f, k)
  BY <1>4 DEF IsCall, RowsAt
<1>5. ASSUME NEW e \in db.edges, IsCall(db, RowOf(db, e), f, k)
      PROVE  e \in EdgesAt(f, k)
  <2>1. RowOf(db, e).file = db.ids[f] /\ RowOf(db, e).line = k
    BY <1>5 DEF IsCall
  <2>2. e.line = k
    BY <2>1 DEF RowOf
  <2>3. e.src \in {s.id : s \in SymbolsOf(db, db.ids[f])}
    BY <1>1, <2>1, EdgeStarts DEF Ledger
  <2> QED BY <2>2, <2>3 DEF EdgesAt
<1> QED BY <1>3, <1>4, <1>5 DEF Recorded

LEMMA InventionFollows ==
    TypedInvariant /\ LedgerInvariant => EdgesAreCalls
<1> SUFFICES ASSUME TypedInvariant, LedgerInvariant, handle, Whole,
                    NEW e \in db.edges
             PROVE  /\ Joins(db, e)
                    /\ \E f \in Files :
                         /\ e.line \in DOMAIN Calls(f)
                         /\ EdgesAt(f, e.line) = {e}
                         /\ RowsAt(f, e.line) = {}
                         /\ Calls(f)[e.line].name = Symbol(db, e.dst).name
                         /\ db.stored[f].defs[Calls(f)[e.line].at] =
                              Symbol(db, e.src).name
  BY DEF EdgesAreCalls
<1>1. Tabled(db) /\ Ledger(db) /\ Single(db)
  BY DEF LedgerInvariant, LedgerHolds, TypedInvariant, ServesIdle
<1> DEFINE row == RowOf(db, e)
<1>2. Joins(db, e) /\ Called(db, row) /\ row \notin db.unresolved
  BY <1>1 DEF Ledger, Single
<1>3. row \in RowType
  BY <1>1, <1>2, RowOfTyped DEF Tabled
<1>4. row.line = e.line /\ row.name = Symbol(db, e.dst).name /\ row.encl = e.src
  BY DEF RowOf
<1>5. PICK f \in Files : \E k \in DOMAIN CallsIn(db, f) : IsCall(db, row, f, k)
  BY <1>2 DEF Called
<1>6. /\ IsCall(db, row, f, e.line)
      /\ e.line \in DOMAIN CallsIn(db, f)
      /\ row.file = db.ids[f]
  BY <1>4, <1>5 DEF IsCall
<1>7. db.ids[f] # 0
  BY <1>1, <1>6, CallsAreRead DEF Tabled, FilesTyped
<1>8. Calls(f) = CallsIn(db, f)
  BY DEF Calls, CallsIn
<1>9. UniqueNames(db) /\ FilesTyped(db) /\ SymbolsTyped(db)
  BY <1>1 DEF Ledger, Tabled
<1>10. EdgesAt(f, e.line) = {e}
  <2>1. e \in EdgesAt(f, e.line)
    BY <1>1, <1>2, <1>6, EdgeStarts DEF EdgesAt
  <2>2. ASSUME NEW x \in EdgesAt(f, e.line)
        PROVE  x = e
    <3>1. /\ x \in db.edges
          /\ x.line = e.line
          /\ x.src \in {s.id : s \in SymbolsOf(db, db.ids[f])}
      BY DEF EdgesAt
    <3>2. Joins(db, x) /\ Called(db, RowOf(db, x))
      BY <1>1, <3>1 DEF Ledger
    <3>3. RowOf(db, x).file = db.ids[f]
      BY <1>1, <3>1, <3>2, EdgeStarts
    <3>4. RowOf(db, x).line = e.line
      BY <3>1 DEF RowOf
    <3>5. IsCall(db, RowOf(db, x), f, e.line)
      BY <1>7, <1>9, <3>2, <3>3, <3>4, RowIsAt
    <3>6. RowOf(db, x) \in RowType
      BY <1>1, <3>1, <3>2, RowOfTyped DEF Tabled
    <3>7. RowOf(db, x) = row
      <4> HIDE DEF row
      <4> QED BY <1>3, <1>6, <1>9, <3>5, <3>6, OneRow
    <3> QED BY <1>1, <3>1, <3>7 DEF Ledger
  <2> QED BY <2>1, <2>2
<1>11. RowsAt(f, e.line) = {}
  <2> SUFFICES ASSUME NEW r \in RowsAt(f, e.line)
               PROVE  FALSE
    OBVIOUS
  <2>1. r \in db.unresolved /\ r.file = db.ids[f] /\ r.line = e.line
    BY DEF RowsAt
  <2>2. Called(db, r) /\ r \in RowType
    BY <1>1, <2>1 DEF Ledger, Tabled, CallsTyped
  <2>3. IsCall(db, r, f, e.line)
    BY <1>7, <1>9, <2>1, <2>2, RowIsAt
  <2>4. r = row
    <3> HIDE DEF row
    <3> QED BY <1>3, <1>6, <1>9, <2>2, <2>3, OneRow
  <2> QED BY <1>2, <2>1, <2>4
<1>12. Calls(f)[e.line].name = Symbol(db, e.dst).name
  BY <1>4, <1>6, <1>8 DEF IsCall
<1>13. db.stored[f].defs[Calls(f)[e.line].at] = Symbol(db, e.src).name
  <2>1. e.src \in SymbolIds(db) /\ 0 \notin SymbolIds(db)
    BY <1>2, <1>9 DEF Joins, SymbolsTyped, SymbolType, SymbolIds
  <2>2. PICK s \in db.symbols :
          /\ s.id = e.src
          /\ s.name = db.stored[f].defs[CallsIn(db, f)[e.line].at]
    BY <1>4, <1>6, <2>1 DEF IsCall
  <2>3. Symbol(db, e.src) = s
    BY <1>9, <2>1, <2>2, SymbolFound
  <2> QED BY <1>8, <2>2, <2>3
<1> HIDE DEF row
<1> QED BY <1>2, <1>6, <1>8, <1>10, <1>11, <1>12, <1>13

LEMMA ResolutionFollows ==
    LedgerInvariant => ResolvedAsDecided
BY DEF LedgerInvariant, LedgerHolds, ResolvedAsDecided, Decided, Exhausted,
       Between

LEMMA ExactFollows ==
    TypedInvariant /\ LedgerInvariant => ExactIsImported
<1> SUFFICES ASSUME TypedInvariant, LedgerInvariant, handle, Whole,
                    NEW e \in db.edges, e.tier = "exact"
             PROVE  LET row == RowOf(db, e)
                        file == Symbol(db, e.dst).file
                    IN /\ ~e.recv
                       /\ \/ file = row.file
                          \/ Misdirected(row.file, row.name)
                          \/ \E f, g \in Files :
                               /\ db.ids[f] = row.file
                               /\ db.ids[g] = file
                               /\ [from |-> g, name |-> row.name]
                                    \in db.stored[f].imports
  BY DEF ExactIsImported
<1> DEFINE row == RowOf(db, e)
           m == Symbol(db, e.dst)
           same == SameFile(db, row.file, row.name)
           imported == Imported(db, row.file, row.name)
<1>1. Tabled(db) /\ Joins(db, e) /\ Decided(db, e)
  BY DEF LedgerInvariant, LedgerHolds, TypedInvariant, ServesIdle, Ledger
<1>2. row.recv = e.recv
  BY DEF RowOf
<1>3. ~row.recv /\ same \cup imported # {}
  <2>1. EdgeFor(db, row).tier = "exact"
    BY <1>1 DEF Decided
  <2>2. Tier(db, row) = "exact"
    BY <2>1 DEF EdgeFor
  <2> QED BY <2>2 DEF Tier
<1>4. m \in Meant(db, row.file, row.name)
  BY <1>1, DecidedIsMeant
<1>5. Meant(db, row.file, row.name) =
        IF same # {} THEN same
        ELSE IF imported # {}
          THEN IF InOneFile(imported) THEN imported ELSE {}
        ELSE IF InOneFile(Candidates(db, row.name))
          THEN Candidates(db, row.name) ELSE {}
  BY <1>1, MeantCases DEF Tabled
<1> HIDE DEF same, imported, m, row
<1>6. m \in same \/ m \in imported
  BY <1>3, <1>4, <1>5
<1>7. CASE m \in same
  <2>1. m.file = row.file
    BY <1>7 DEF same, SameFile
  <2> QED BY <1>2, <1>3, <2>1 DEF row, m
<1>8. CASE m \in imported
  <2>1. m.file \in Bound(db, row.file, row.name)
    BY <1>8 DEF imported, Imported
  <2>2. PICK i \in db.imports : /\ i.file = row.file
                                /\ i.name = row.name
                                /\ i.resolved # 0
                                /\ i.resolved = m.file
    BY <2>1 DEF Bound
  <2>3. CASE db.ids[i.from] # i.resolved
    <3>1. Misdirected(row.file, row.name)
      BY <2>2, <2>3 DEF Misdirected
    <3> QED BY <1>2, <1>3, <3>1 DEF row
  <2>4. CASE db.ids[i.from] = i.resolved
    <3>1. PICK f \in Files : /\ db.ids[f] = i.file
                             /\ [from |-> i.from, name |-> i.name]
                                  \in db.stored[f].imports
      BY <1>1 DEF Tabled, ImportsTyped
    <3>2. i.from \in Files
      BY <1>1 DEF Tabled, ImportsTyped, ImportType
    <3>3. \E f_1, g \in Files : /\ db.ids[f_1] = row.file
                                /\ db.ids[g] = m.file
                                /\ [from |-> g, name |-> row.name]
                                     \in db.stored[f_1].imports
      BY <2>2, <2>4, <3>1, <3>2
    <3> QED BY <1>2, <1>3, <3>3 DEF row, m
  <2> QED BY <2>3, <2>4
<1> QED BY <1>6, <1>7, <1>8

(***************************************************************************)
(* No call is lost, whatever is edited, updated, removed, rebuilt and      *)
(* interrupted: while the service answers from an undamaged graph, every   *)
(* call of every file in it is an edge or an unresolved call, or was given *)
(* up by Service::remove_file (update_file and remove_file of api.rs and   *)
(* build.rs).                                                              *)
(***************************************************************************)
THEOREM NoCallIsLost == Spec => []CallsAccounted
BY LedgerAlways, AccountFollows, PTL

(***************************************************************************)
(* No call is invented: every edge joins two definitions that are there,   *)
(* under the names the source gives them at that call, and no call is kept *)
(* twice (replace_file, insert_edge and reconsider_resolved_calls).        *)
(***************************************************************************)
THEOREM NoCallIsInvented == Spec => []EdgesAreCalls
BY LedgerAlways, InventionFollows, PTL

(***************************************************************************)
(* An update looks again only at calls to the names its file defines and   *)
(* at what was unresolved, and yet leaves every call as resolve.rs would   *)
(* decide it against all the tables.                                       *)
(***************************************************************************)
THEOREM ResolutionIsComplete == Spec => []ResolvedAsDecided
BY LedgerAlways, ResolutionFollows, PTL

(***************************************************************************)
(* An exact edge stays in its file or follows an import of the caller's    *)
(* source, however old it is (decide_raw in resolve.rs), unless a file id  *)
(* came back under the import.                                             *)
(***************************************************************************)
THEOREM ExactIsEarned == Spec => []ExactIsImported
BY LedgerAlways, ExactFollows, PTL

=============================================================================
