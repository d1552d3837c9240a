--------------------------- MODULE GraphAnalyses ----------------------------
(* The service answers questions about its graph one at a time, a page at  *)
(* a time.  Processes and clusters are computed by the first question that *)
(* finds none, written to graph.db row by row, and listed from there ever  *)
(* after: through updates of files, and through a death half way.          *)
EXTENDS GraphQueries

CONSTANTS
    Graphs,         \* graphs a build or an update may leave (CallGraph)
    Diffs,          \* what git diff may print
    ProcessLimit,   \* processes of a page
    StepLimit,      \* steps listed of a process
    ClusterLimit,   \* clusters of a page
    EdgeLimit,      \* edges of a page of callers or callees
    ChangesLimit,   \* symbols, and processes, of a page of changes
    ItemLimit,      \* symbols listed of a depth of impact
    TraceDepth,     \* hops a trace follows
    Discover,       \* [depth, branching, minSteps, max] of process::discover
    Rounds,         \* rounds of label propagation
    RiskSteps,      \* <<callers, processes>> at which the risk goes up
    None

VARIABLES
    graph,
    processes,  \* rows [entry, label, count, steps]
    clusters,   \* rows [label, members]
    job,        \* the computation under way, or None
    client,     \* its last question, and the pages it has got of it
    stale,      \* history: what was computed before the graph was updated
    torn        \* history: what was not written to its end

tables == <<graph, processes, clusters>>
history == <<stale, torn>>
vars == <<tables, job, client, history>>

NoClient == [op |-> "none", arg |-> None, next |-> 0, more |-> FALSE,
             shown |-> <<>>, flows |-> <<>>]

Init ==
    /\ graph \in Graphs
    /\ processes = <<>> /\ clusters = <<>>
    /\ job = None /\ client = NoClient
    /\ stale = {} /\ torn = {}

-----------------------------------------------------------------------------
\* Pages: a client asks anew, or follows next_offset.

Follows(op, arg) == client.op = op /\ client.arg = arg /\ client.more
Asks(op, arg) == job = None /\ (client.op = "none" \/ Follows(op, arg))
OffsetOf(op, arg) == IF Follows(op, arg) THEN client.next ELSE 0

Got(op, arg, page, flows) ==
    client' = [op |-> op, arg |-> arg, next |-> page.next, more |-> page.more,
               shown |-> (IF Follows(op, arg) THEN client.shown ELSE <<>>) \o page.rows,
               flows |-> (IF Follows(op, arg) THEN client.flows ELSE <<>>) \o flows]

AskUses(s, role) ==
    /\ Asks("uses", <<s, role>>)
    /\ Got("uses", <<s, role>>,
           Page(UsesRows(graph, s, role), OffsetOf("uses", <<s, role>>), EdgeLimit), <<>>)
    /\ UNCHANGED <<tables, job, history>>

AskChanges(diff) ==
    LET page == ChangesPage(Detect(graph, processes, diff, RiskSteps),
                            OffsetOf("changes", diff), ChangesLimit)
    IN  /\ Asks("changes", diff)
        /\ Got("changes", diff, page, page.flows)
        /\ UNCHANGED <<tables, job, history>>

\* At most StepLimit steps of each process, and whether that is all of it.
Listed(p) == [entry |-> p.entry, steps |-> First(p.steps, StepLimit),
              whole |-> p.count <= StepLimit]
ListedRows(rows) == [i \in DOMAIN rows |-> Listed(rows[i])]

ListProcesses ==
    /\ Asks("processes", None)
    /\ processes # <<>>
    /\ Got("processes", None,
           Page(ListedRows(processes), OffsetOf("processes", None), ProcessLimit), <<>>)
    /\ UNCHANGED <<tables, job, history>>

ListClusters ==
    /\ Asks("clusters", None)
    /\ clusters # <<>>
    /\ Got("clusters", None, Page(clusters, OffsetOf("clusters", None), ClusterLimit), <<>>)
    /\ UNCHANGED <<tables, job, history>>

AskImpact(s, direction, depth) ==
    /\ Asks("none", None)
    /\ client' = [NoClient EXCEPT
         !.op = "impact",
         !.arg = [symbol |-> s, direction |-> direction, depth |-> depth],
         !.shown = Impact(graph, processes, s, direction, depth, ItemLimit, RiskSteps)]
    /\ UNCHANGED <<tables, job, history>>

AskTrace(from, to) ==
    /\ Asks("none", None)
    /\ client' = [NoClient EXCEPT !.op = "trace",
                                  !.arg = [from |-> from, to |-> to],
                                  !.shown = Trace(graph, from, to, TraceDepth)]
    /\ UNCHANGED <<tables, job, history>>

\* The client has its answer, or does not ask for the rest of it.
Leave ==
    /\ client # NoClient
    /\ client' = NoClient
    /\ UNCHANGED <<tables, job, history>>

-----------------------------------------------------------------------------
\* A first question computes: rows are written one by one, each on its own.

StartDiscover ==
    /\ Asks("none", None)
    /\ processes = <<>>
    /\ job' = [op |-> "processes",
               all |-> Discovered(graph, Discover.depth, Discover.branching,
                                  Discover.minSteps, Discover.max)]
    /\ stale' = stale \ {"processes"}
    /\ UNCHANGED <<tables, client, torn>>

InsertProcess ==
    /\ job # None /\ job.op = "processes"
    /\ Len(processes) < Len(job.all)
    /\ processes # <<>> => Last(processes) = job.all[Len(processes)]
    /\ processes' = Append(processes, [job.all[Len(processes) + 1] EXCEPT !.steps = <<>>])
    /\ UNCHANGED <<graph, clusters, job, client, history>>

InsertStep ==
    /\ job # None /\ job.op = "processes"
    /\ processes # <<>>
    /\ LET n == Len(processes)
           steps == job.all[n].steps
       IN  /\ processes[n] # job.all[n]
           /\ processes' = [processes EXCEPT ![n].steps = Append(@, steps[Len(@) + 1])]
    /\ UNCHANGED <<graph, clusters, job, client, history>>

StartCompute ==
    /\ Asks("none", None)
    /\ clusters = <<>>
    /\ job' = [op |-> "clusters", all |-> Clusters(graph, Rounds)]
    /\ stale' = stale \ {"clusters"}
    /\ UNCHANGED <<tables, client, torn>>

InsertCluster ==
    /\ job # None /\ job.op = "clusters"
    /\ Len(clusters) < Len(job.all)
    /\ clusters # <<>> => Last(clusters) = job.all[Len(clusters)]
    /\ clusters' = Append(clusters, [job.all[Len(clusters) + 1] EXCEPT !.members = {}])
    /\ UNCHANGED <<graph, processes, job, client, history>>

InsertMember ==
    /\ job # None /\ job.op = "clusters"
    /\ clusters # <<>>
    /\ LET n == Len(clusters)
           left == job.all[n].members \ clusters[n].members
       IN  /\ left # {}
           /\ clusters' = [clusters EXCEPT ![n].members = @ \cup {Min(left)}]
    /\ UNCHANGED <<graph, processes, job, client, history>>

\* The first answer is made of what was computed, not of what was written.
Answered ==
    /\ job # None
    /\ IF job.op = "processes"
       THEN /\ processes = job.all
            /\ Got("processes", None,
                   Page(ListedRows(job.all), OffsetOf("processes", None), ProcessLimit), <<>>)
       ELSE /\ clusters = job.all
            /\ Got("clusters", None,
                   Page(job.all, OffsetOf("clusters", None), ClusterLimit), <<>>)
    /\ job' = None
    /\ UNCHANGED <<tables, history>>

\* The process dies, or a statement fails and the question with it.
Interrupt ==
    /\ job # None
    /\ torn' = IF (job.op = "processes" /\ processes \notin {<<>>, job.all})
                  \/ (job.op = "clusters" /\ clusters \notin {<<>>, job.all})
               THEN torn \cup {job.op} ELSE torn
    /\ job' = None
    /\ client' = NoClient
    /\ UNCHANGED <<tables, stale>>

-----------------------------------------------------------------------------
\* update_file and remove_file: the derived tables stay.
Update(g) ==
    /\ job = None
    /\ graph' = g
    /\ stale' = stale \cup {op \in {"processes", "clusters"} :
                              IF op = "processes" THEN processes # <<>> ELSE clusters # <<>>}
    /\ client' = NoClient
    /\ UNCHANGED <<processes, clusters, job, torn>>

\* rebuild_graph: a new database.
Rebuild(g) ==
    /\ job = None
    /\ graph' = g
    /\ processes' = <<>> /\ clusters' = <<>>
    /\ stale' = {} /\ torn' = {}
    /\ client' = NoClient
    /\ UNCHANGED job

Questions ==
    \/ \E s \in DOMAIN graph.symbols :
         \/ \E role \in {"callers", "callees"} : AskUses(s, role)
         \/ \E direction \in {"upstream", "downstream"}, depth \in 1..3 :
              AskImpact(s, direction, depth)
         \/ \E to \in DOMAIN graph.symbols : AskTrace(s, to)
    \/ \E diff \in Diffs : AskChanges(diff)
    \/ ListProcesses \/ ListClusters \/ Leave

Computes == StartDiscover \/ InsertProcess \/ InsertStep \/ StartCompute
              \/ InsertCluster \/ InsertMember \/ Answered \/ Interrupt

Next == Questions \/ Computes \/ \E g \in Graphs : Update(g) \/ Rebuild(g)

Spec == Init /\ [][Next]_vars

-----------------------------------------------------------------------------
(* Properties. *)

Times(x, s) == Cardinality({i \in DOMAIN s : s[i] = x})
Current(op) == op \notin stale \cup torn

(***************************************************************************)
(* A client that follows next_offset until there is none has every row of  *)
(* the answer once: the edges of op_uses, both lists of op_changes under   *)
(* their one offset, and processes and clusters though the first page is   *)
(* of what was computed and the others of what was written.  Excused is a  *)
(* computation that died half way, whose rows are taken for all there are. *)
(***************************************************************************)
PagesAreWhole ==
    ~client.more =>
      CASE client.op = "uses" ->
             \A e \in Rows(graph) \cup Range(client.shown) :
               Times(e, client.shown) =
                 IF /\ e.kind = "calls"
                    /\ client.arg[1] = IF client.arg[2] = "callees" THEN e.src ELSE e.dst
                 THEN Times(e, graph.edges) ELSE 0
        [] client.op = "changes" ->
             LET report == Detect(graph, processes, client.arg, RiskSteps)
             IN  /\ \A s \in DOMAIN graph.symbols :
                      Times(s, client.shown) =
                        IF \E fd \in client.arg : Hit(graph, fd, s) THEN 1 ELSE 0
                 /\ ToSet(client.flows) = ToSet(report.processes)
                 /\ IsInjective(client.flows)
        [] client.op = "processes" /\ Current("processes") ->
             LET all == Discovered(graph, Discover.depth, Discover.branching,
                                   Discover.minSteps, Discover.max)
             IN  /\ [i \in DOMAIN client.shown |-> client.shown[i].entry]
                      = [i \in DOMAIN all |-> all[i].entry]
                 /\ \A i \in DOMAIN client.shown :
                      client.shown[i].whole => client.shown[i].steps = all[i].steps
        [] client.op = "clusters" /\ Current("clusters") ->
             /\ UNION {c.members : c \in Range(client.shown)} = DOMAIN graph.symbols
             /\ \A i, j \in DOMAIN client.shown :
                  i # j => client.shown[i].members \cap client.shown[j].members = {}
        [] OTHER -> TRUE

\* Symbols that edges or imports connect, in any direction.
Component(s) ==
    LET near == Adjacency(graph)
        reach[n \in 0..Cardinality(DOMAIN graph.symbols)] ==
          IF n = 0 THEN {s}
          ELSE reach[n - 1] \cup UNION {Range(near[u]) : u \in reach[n - 1]}
    IN  reach[Cardinality(DOMAIN graph.symbols)]

(***************************************************************************)
(* What is written is true of the graph it was computed from: a process    *)
(* starts where nothing calls, each of its steps is called by an earlier   *)
(* one and occurs once, and no two are of one entry; a cluster other than  *)
(* misc has three symbols at least, all of one component, and no symbol is *)
(* left out.                                                               *)
(***************************************************************************)
AnalysesFitTheGraph ==
    /\ job = None /\ Current("processes") =>
         \A i \in DOMAIN processes :
           LET p == processes[i]
           IN  /\ EdgesTo(graph, p.entry, "calls") = <<>>
               /\ p.steps[1] = p.entry /\ IsInjective(p.steps)
               /\ Len(p.steps) = p.count /\ p.count >= Discover.minSteps
               /\ \A n \in 2..p.count : \E m \in 1..(n - 1), e \in Rows(graph) :
                    e.kind = "calls" /\ e.src = p.steps[m] /\ e.dst = p.steps[n]
               /\ \A j \in DOMAIN processes : processes[j].entry = p.entry => i = j
    /\ job = None /\ Current("clusters") /\ clusters # <<>> =>
         /\ UNION {c.members : c \in Range(clusters)} = DOMAIN graph.symbols
         /\ \A c \in Range(clusters) : c.label # "misc" =>
              /\ Cardinality(c.members) >= 3
              /\ \A s, u \in c.members : u \in Component(s)

Opposite(direction) == IF direction = "upstream" THEN "downstream" ELSE "upstream"
Whole(s, direction) == Impact(graph, processes, s, direction, 3, 99, RiskSteps)

(***************************************************************************)
(* Impact is mutual: who is counted at a depth below a symbol finds the    *)
(* symbol at that depth above itself.  A count covers all of its depth,    *)
(* whatever the limit on the rows, and a depth not asked for is empty.     *)
(***************************************************************************)
ImpactIsMutual ==
    client.op = "impact" =>
      \A d \in 1..3 :
        LET asked == client.arg
            report == client.shown
            mutual == {s \in DOMAIN graph.symbols \ {asked.symbol} :
                         asked.symbol \in Range(Whole(s, Opposite(asked.direction)).items[d])}
        IN  IF d <= asked.depth
            THEN /\ report.counts[d] = Cardinality(mutual)
                 /\ Range(report.items[d]) \subseteq mutual
                 /\ Len(report.items[d]) = Min({ItemLimit, Cardinality(mutual)})
            ELSE report.counts[d] = 0

\* The symbols that calls and methods reach from s in n hops or fewer.
Within(s, n) ==
    LET reach[k \in 0..n] ==
          IF k = 0 THEN {s}
          ELSE reach[k - 1] \cup {e.dst : e \in {e \in Rows(graph) :
                                      e.kind \in {"calls", "has_method"} /\ e.src \in reach[k - 1]}}
    IN  reach[n]

(***************************************************************************)
(* A trace is found whenever there is one of that many hops, it is one of  *)
(* the shortest, and each hop is an edge.  Otherwise the furthest symbol   *)
(* named is one that no shorter trace reaches than the longest there is.   *)
(***************************************************************************)
TraceIsShortest ==
    client.op = "trace" =>
      LET hops == client.shown.hops
          furthest == {s \in Within(client.arg.from, TraceDepth) :
                         \A n \in 0..TraceDepth :
                           s \in Within(client.arg.from, n) =>
                             Within(client.arg.from, n) = Within(client.arg.from, TraceDepth)}
      IN  IF client.shown.found
          THEN /\ hops[1] = client.arg.from /\ Last(hops) = client.arg.to
               /\ Len(hops) <= TraceDepth + 1
               /\ \A i \in 1..(Len(hops) - 1) : \E e \in Rows(graph) :
                    /\ e.kind \in {"calls", "has_method"}
                    /\ e.src = hops[i] /\ e.dst = hops[i + 1]
               /\ Len(hops) > 1 => client.arg.to \notin Within(client.arg.from, Len(hops) - 2)
          ELSE /\ client.arg.to \notin Within(client.arg.from, TraceDepth)
               /\ client.shown.furthest \in furthest

=============================================================================
