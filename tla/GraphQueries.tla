---------------------------- MODULE GraphQueries ----------------------------
(* The questions of gitpixel-graph, as operators over a graph g:           *)
(*   symbols     row id -> [file, uid, name, test, start, end], with files *)
(*               and uids numbered in the order their texts sort           *)
(*   edges       the rows in order, [src, dst, kind, tier, site]           *)
(*   imports     pairs of files: the first imports the second              *)
(*   unresolved  names with a call that is not resolved                    *)
EXTENDS Orders

Ids(walk) == {walk[i].id : i \in DOMAIN walk}

Rows(g) == Range(g.edges)
EdgesFrom(g, s, kind) == SelectSeq(g.edges, LAMBDA e : e.src = s /\ e.kind = kind)
EdgesTo(g, s, kind) == SelectSeq(g.edges, LAMBDA e : e.dst = s /\ e.kind = kind)

-----------------------------------------------------------------------------
\* Breadth first.  The walk is the queue and the visit order in one: row i is
\* taken i-th, and of near[it] the unseen are appended (at most `branching`).

Unseen(candidates, walk) ==
    FoldLeft(LAMBDA fresh, c : IF c.id \in Ids(walk) \cup Ids(fresh) THEN fresh
                               ELSE Append(fresh, c),
             <<>>, candidates)

Walk(start, near, maxDepth, branching) ==
    LET size == Cardinality(DOMAIN near)
        Reached(walk, i) ==
          LET fresh == First(Unseen(near[walk[i].id], walk), branching)
          IN  [j \in DOMAIN fresh |->
                 [id |-> fresh[j].id, depth |-> walk[i].depth + 1, via |-> i]]
        walk[i \in 0..size] ==
          IF i = 0 THEN <<[id |-> start, depth |-> 0, via |-> 0]>>
          ELSE IF i > Len(walk[i - 1]) \/ walk[i - 1][i].depth >= maxDepth
               THEN walk[i - 1]
               ELSE walk[i - 1] \o Reached(walk[i - 1], i)
    IN  walk[size]

Ends(edges, end) == [i \in DOMAIN edges |-> [id |-> edges[i][end]]]
Callers(g, s) == Ends(EdgesTo(g, s, "calls"), "src")
Callees(g, s) == Ends(EdgesFrom(g, s, "calls"), "dst")

-----------------------------------------------------------------------------
(* impact.rs *)

ProcessesForSymbol(processes, s) ==
    {p.label : p \in {p \in Range(processes) : s \in Range(p.steps)}}

\* Levels 0 to 3, LOW to CRITICAL; an unresolved call of the name adds one.
RiskLevel(callers, flows, lowerBound, callerSteps, flowSteps) ==
    LET level == IF callers > callerSteps[3] \/ flows > flowSteps[2] THEN 3
                 ELSE IF callers > callerSteps[2] \/ flows > flowSteps[1] THEN 2
                 ELSE IF callers > callerSteps[1] THEN 1 ELSE 0
    IN  IF lowerBound THEN Min({level + 1, 3}) ELSE level

\* Mutant: a symbol counts once for every edge that reaches it.
ImpactEveryEdge(g, processes, target, direction, maxDepth, limit, steps) ==
    LET near == [s \in DOMAIN g.symbols |->
                   IF direction = "upstream" THEN Callers(g, s) ELSE Callees(g, s)]
        walk == Walk(target, near, Clamp(maxDepth, 1, 3), 99)
        At(d) == SelectSeq(walk, LAMBDA r : r.depth = d)
    IN  [counts |-> [d \in 1..3 |->
                       IF d = 1 THEN Len(near[target]) ELSE Len(At(d))],
         items |-> [d \in 1..3 |-> [i \in DOMAIN First(At(d), limit) |-> At(d)[i].id]],
         files |-> {}, processes |-> {}, risk |-> 0]

Impact(g, processes, target, direction, maxDepth, limit, steps) ==
    LET near == [s \in DOMAIN g.symbols |->
                   IF direction = "upstream" THEN Callers(g, s) ELSE Callees(g, s)]
        walk == Walk(target, near, Clamp(maxDepth, 1, 3), 99)
        reached == Ids(walk) \ {target}
        At(d) == SelectSeq(walk, LAMBDA r : r.depth = d)
        flows == UNION {ProcessesForSymbol(processes, s) : s \in reached}
    IN  [counts |-> [d \in 1..3 |-> Len(At(d))],
         items |-> [d \in 1..3 |-> [i \in DOMAIN First(At(d), limit) |-> At(d)[i].id]],
         files |-> {g.symbols[s].file : s \in reached},
         processes |-> flows,
         risk |-> RiskLevel(Len(At(1)), Cardinality(flows),
                            g.symbols[target].name \in g.unresolved, steps[1], steps[2])]

-----------------------------------------------------------------------------
(* trace.rs *)

\* The ids from the start of the walk to row i.
PathTo(walk, i) ==
    LET path[j \in 1..Len(walk)] ==
          IF j = 1 THEN <<walk[1].id>> ELSE Append(path[walk[j].via], walk[j].id)
    IN  path[i]

\* Mutant: a row at the greatest depth is expanded too.
TraceTooDeep(g, from, to, maxDepth) ==
    LET near == [s \in DOMAIN g.symbols |->
                   Callees(g, s) \o Ends(EdgesFrom(g, s, "has_method"), "dst")]
        walk == Walk(from, near, maxDepth + 1, 99)
        AtRow(P(_)) == Min({i \in DOMAIN walk : P(walk[i])})
    IN  IF to \in Ids(walk)
        THEN [found |-> TRUE, hops |-> PathTo(walk, AtRow(LAMBDA r : r.id = to)), furthest |-> 0]
        ELSE [found |-> FALSE, hops |-> <<>>, furthest |-> Last(walk).id]

\* Calls before has_method; `furthest` is the first row at the greatest depth.
Trace(g, from, to, maxDepth) ==
    LET near == [s \in DOMAIN g.symbols |->
                   Callees(g, s) \o Ends(EdgesFrom(g, s, "has_method"), "dst")]
        walk == Walk(from, near, maxDepth, 99)
        deepest == Max({walk[i].depth : i \in DOMAIN walk})
        AtRow(P(_)) == Min({i \in DOMAIN walk : P(walk[i])})
    IN  IF to \in Ids(walk)
        THEN [found |-> TRUE, hops |-> PathTo(walk, AtRow(LAMBDA r : r.id = to)), furthest |-> 0]
        ELSE [found |-> FALSE, hops |-> <<>>,
              furthest |-> walk[AtRow(LAMBDA r : r.depth = deepest)].id]

-----------------------------------------------------------------------------
(* process.rs *)

OutDegree(g, s) == Len(EdgesFrom(g, s, "calls"))

EntryPoints(g, limit) ==
    LET entries == {s \in DOMAIN g.symbols : /\ OutDegree(g, s) > 0
                                             /\ EdgesTo(g, s, "calls") = <<>>
                                             /\ ~g.symbols[s].test}
    IN  First(ByKey(entries, LAMBDA s : <<-OutDegree(g, s), s>>), limit)

\* Exact edges before probable ones, then by the callee's id.
BfsTrace(g, entry, maxDepth, branching) ==
    LET Key(e) == <<IF e.tier = "exact" THEN 0 ELSE 1, e.dst>>
        near == [s \in DOMAIN g.symbols |->
                   Ends(SortedByKey(EdgesFrom(g, s, "calls"), Key), "dst")]
        walk == Walk(entry, near, maxDepth, branching)
    IN  [i \in DOMAIN walk |-> walk[i].id]

\* The processes discover persists, in order.
Discovered(g, depth, branching, minSteps, max) ==
    FoldLeft(
        LAMBDA found, entry :
            LET steps == BfsTrace(g, entry, depth, branching)
                known == \E p \in Range(found) : Range(p.steps) = Range(steps)
            IN  IF Len(found) >= max \/ Len(steps) < minSteps \/ known THEN found
                ELSE Append(found, [entry |-> entry, label |-> g.symbols[entry].name,
                                    count |-> Len(steps), steps |-> steps]),
        <<>>, EntryPoints(g, Max({16, 4 * max})))

-----------------------------------------------------------------------------
(* cluster.rs *)

Representative(g, f) ==
    LET inFile == {s \in DOMAIN g.symbols : g.symbols[s].file = f}
    IN  IF inFile = {} THEN {} ELSE {Min(inFile)}

\* Both ends of an edge hold it; an import is an edge of two representatives.
Adjacency(g) ==
    LET imports == UNION {Representative(g, i[1]) \X Representative(g, i[2]) : i \in g.imports}
        rows == SelectSeq(g.edges, LAMBDA e : e.kind \in {"calls", "has_method", "imports"})
        pairs == [i \in DOMAIN rows |-> <<rows[i].src, rows[i].dst>>] \o SetToSeq(imports)
        Of(s) == SelectSeq(pairs, LAMBDA p : s \in {p[1], p[2]} /\ p[1] # p[2])
    IN  [s \in DOMAIN g.symbols |->
           [i \in DOMAIN Of(s) |-> IF Of(s)[i][1] = s THEN Of(s)[i][2] ELSE Of(s)[i][1]]]

\* In id order each symbol takes the most frequent label around it, the least
\* of several; ten rounds, or until nothing changes.
Propagate(g, adjacency, rounds) ==
    LET order == Ascending(DOMAIN g.symbols)
        Frequency(labels, s, l) == Len(SelectSeq(adjacency[s], LAMBDA u : labels[u] = l))
        Best(labels, s) ==
          LET near == {labels[u] : u \in Range(adjacency[s])}
              top == Max({Frequency(labels, s, l) : l \in near})
          IN  Min({l \in near : Frequency(labels, s, l) = top})
        Relabel(labels, s) ==
          IF adjacency[s] = <<>> THEN labels ELSE [labels EXCEPT ![s] = Best(labels, s)]
        round[n \in 0..rounds] ==
          IF n = 0 THEN [s \in DOMAIN g.symbols |-> s]
          ELSE FoldLeft(Relabel, round[n - 1], order)
    IN  round[rounds]

\* Mutant: a group that is too small is dropped.
ClustersOfThree(g, rounds) ==
    LET labels == Propagate(g, Adjacency(g), rounds)
        Group(l) == {s \in DOMAIN g.symbols : labels[s] = l}
        real == {l \in Range(labels) : Cardinality(Group(l)) >= 3}
    IN  [i \in DOMAIN Ascending(real) |-> [label |-> "dir", members |-> Group(Ascending(real)[i])]]

\* Groups of three and more by their label; all others are one bucket.
Clusters(g, rounds) ==
    LET labels == Propagate(g, Adjacency(g), rounds)
        Group(l) == {s \in DOMAIN g.symbols : labels[s] = l}
        real == Ascending({l \in Range(labels) : Cardinality(Group(l)) >= 3})
        misc == DOMAIN g.symbols \ UNION {Group(l) : l \in Range(real)}
    IN  [i \in DOMAIN real |-> [label |-> "dir", members |-> Group(real[i])]]
          \o (IF misc = {} THEN <<>> ELSE <<[label |-> "misc", members |-> misc]>>)

-----------------------------------------------------------------------------
(* changes.rs: a diff is a sequence of [file, status, hunks]. *)

\* A hunk of the new file: its first line and how many it has.
NewRange(hunk) ==
    IF hunk.start > 0 THEN {<<hunk.start, hunk.start + Max({hunk.len, 1}) - 1>>}
    ELSE IF hunk.len = 0 THEN {<<1, 1>>} ELSE {}

Overlaps(ranges, symbol) ==
    \E r \in ranges : r[1] <= symbol.end /\ symbol.start <= r[2]

Hit(g, fd, s) ==
    /\ g.symbols[s].file = fd.file
    /\ \/ fd.status = "deleted"
       \/ Overlaps(UNION {NewRange(h) : h \in fd.hunks}, g.symbols[s])

\* What changed, by path and uid; the flows it and its callers are part of.
Detect(g, processes, diff, steps) ==
    LET hits == {s \in DOMAIN g.symbols : \E fd \in diff : Hit(g, fd, s)}
        callers == {e.src : e \in {e \in Rows(g) : e.kind = "calls" /\ e.dst \in hits}}
        flows == UNION {ProcessesForSymbol(processes, s) : s \in hits \cup callers}
    IN  [symbols |-> ByKey(hits, LAMBDA s : <<g.symbols[s].file, g.symbols[s].uid>>),
         processes |-> Ascending(flows),
         risk |-> RiskLevel(Cardinality(callers), Cardinality(flows),
                            \E s \in hits : g.symbols[s].name \in g.unresolved,
                            steps[1], steps[2])]

-----------------------------------------------------------------------------
(* The pages of api.rs. *)

Page(rows, offset, limit) ==
    LET shown == First(Skip(rows, Min({offset, Len(rows)})), limit)
        more == offset + Len(shown) < Len(rows)
    IN  [rows |-> shown, more |-> more, next |-> offset + Len(shown)]

\* op_uses: callers or callees by line, caller, callee and tier.
UsesRows(g, s, role) ==
    LET rows == IF role = "callees" THEN EdgesFrom(g, s, "calls") ELSE EdgesTo(g, s, "calls")
        Key(e) == <<e.site, e.src, e.dst, IF e.tier = "exact" THEN 0 ELSE 1>>
    IN  SortedByKey(rows, Key)

\* Mutant: the next page starts after what this one shows of the symbols.
ChangesPageOfSymbols(report, offset, limit) ==
    LET symbols == Page(report.symbols, offset, limit)
        flows == Page(report.processes, offset, limit)
    IN  [rows |-> symbols.rows, flows |-> flows.rows,
         more |-> symbols.more, next |-> offset + Len(symbols.rows)]

\* op_changes: one offset for two lists.
ChangesPage(report, offset, limit) ==
    LET symbols == Page(report.symbols, offset, limit)
        flows == Page(report.processes, offset, limit)
    IN  [rows |-> symbols.rows, flows |-> flows.rows,
         more |-> symbols.more \/ flows.more,
         next |-> offset + Max({Len(symbols.rows), Len(flows.rows)})]

=============================================================================
