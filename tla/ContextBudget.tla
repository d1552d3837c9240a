---------------------------- MODULE ContextBudget ---------------------------
(* The context of a symbol within a budget of tokens, by the sizes of its  *)
(* parts.  An item is [head, sig, lines]: the bytes of its first line, of  *)
(* its signature (0 for none) and of each line of its snippet.  A text is  *)
(* the sequence of the sizes of its lines, the line ends included.         *)
EXTENDS GraphQueries

CONSTANTS
    MarkerSize,     \* bytes of "... N more items elided (budget)"
    EdgeLimit,      \* edges listed of a direction
    MaxItems,       \* MAX_CONTEXT_ITEMS
    MaxSourceBytes, MaxTargetBytes, MaxNeighborBytes,
    FieldSize(_)    \* bytes of a field of the response, by its name

Sum(s) == FoldLeft(+, 0, s)
Tokens(bytes) == (bytes + 3) \div 4

-----------------------------------------------------------------------------
(* gitpixel-context *)

\* Layer 0 has the first line, 1 the signature on it, 2 the snippet.
RenderItem(item, layer) ==
    <<item.head + 1 + (IF layer >= 1 /\ item.sig > 0 THEN item.sig ELSE 0)>>
      \o (IF layer = 2 THEN [i \in DOMAIN item.lines |-> item.lines[i] + 5] ELSE <<>>)

Render(items, layer) == FlattenSeq([i \in DOMAIN items |-> RenderItem(items[i], layer)])

AtLayer(items, layer) == [text |-> Render(items, layer), layer |-> layer, elided |-> 0]

Shortened(items, kept) ==
    [text |-> Render(First(items, kept), 0)
                \o (IF kept < Len(items) THEN <<MarkerSize>> ELSE <<>>),
     layer |-> 0, elided |-> Len(items) - kept]

\* The richest layer that fits; if none does, the items at layer 0 that leave
\* room for the marker, and the marker.
FitToBudget(items, budget, layer) ==
    LET fits == {l \in 0..layer : Tokens(Sum(Render(items, l))) <= budget}
        Marker(elided) == IF elided > 0 THEN Tokens(MarkerSize) ELSE 0
        Kept(n) == \A k \in 1..n :
                     Tokens(Sum(Render(First(items, k), 0))) + Marker(Len(items) - k) <= budget
    IN  IF fits # {} THEN AtLayer(items, Max(fits))
        ELSE Shortened(items, Max({n \in 0..Len(items) : Kept(n)}))

\* The symbol itself whole and its neighbours in what is left, or all of them
\* alike.
RenderContext(items, budget) ==
    LET target == RenderItem(Head(items), 2)
        fit == FitToBudget(Tail(items), budget - Tokens(Sum(target)), 1)
        all == FitToBudget(items, budget, 2)
    IN  IF Tokens(Sum(target)) <= budget
        THEN [text |-> target \o fit.text, whole |-> fit.text = <<>>, elided |-> fit.elided]
        ELSE [text |-> all.text, whole |-> all.layer = 2, elided |-> all.elided]

-----------------------------------------------------------------------------
(* op_context: a source is item by symbol, what read_snippet may return.   *)

SortedEdges(edges) ==
    LET Key(e) == <<IF e.kind = "calls" THEN 0 ELSE 1, IF e.tier = "exact" THEN 0 ELSE 1,
                    e.site, e.src, e.dst>>
    IN  ByKey(Range(edges), Key)

\* Edges of a direction as the response lists them: one for each kind, name,
\* file and tier at the other end, up to a limit.
CompactEdges(g, edges, end) ==
    Min({EdgeLimit, Cardinality({<<e.kind, g.symbols[e[end]].name,
                                   g.symbols[e[end]].file, e.tier>> : e \in Range(edges)})})

\* Lines up to a number of bytes; the last one may be cut.
ReadSnippet(lines, maxBytes) ==
    LET Before(n) == Sum(First(lines, n)) + n
        whole == Max({n \in 0..Len(lines) : n = 0 \/ Before(n) - 1 <= maxBytes})
        left == maxBytes - Before(whole)
    IN  First(lines, whole) \o (IF whole < Len(lines) /\ left > 0 THEN <<left>> ELSE <<>>)

SnippetBytes(item) == Sum(item.lines) + Max({0, Len(item.lines) - 1})

\* The items loaded: the symbol, then its neighbours while source is left.
LoadItems(sources, symbol, neighbors, budget) ==
    LET Loaded(acc, s, cap) ==
          LET item == [sources[s] EXCEPT !.lines = ReadSnippet(@, Min({acc.left, cap}))]
          IN  [acc EXCEPT !.items = Append(@, item), !.left = @ - SnippetBytes(item)]
        first == Loaded([items |-> <<>>, left |-> Min({4 * budget, MaxSourceBytes}), elided |-> 0],
                        symbol, MaxTargetBytes)
    IN  FoldLeft(LAMBDA acc, s : IF Len(acc.items) >= MaxItems \/ acc.left = 0
                                 THEN [acc EXCEPT !.elided = @ + 1]
                                 ELSE Loaded(acc, s, MaxNeighborBytes),
                 first, neighbors)

\* The response so far takes each field it has the tokens for.
ResponseTokens(fields, edges, bytes) ==
    Tokens(FieldSize("response") + bytes
             + MapThenSumSet(LAMBDA f : IF f \in {"incoming", "outgoing"}
                                        THEN FieldSize(f) * (1 + edges[f]) ELSE FieldSize(f), fields))

Take(names, fields, edges, budget) ==
    FoldLeft(LAMBDA taken, f : IF ResponseTokens(taken \cup {f}, edges, 0) <= budget
                               THEN taken \cup {f} ELSE taken, fields, names)

\* As JSON: a line end takes two bytes.
Escaped(text, bytes) ==
    bytes + Cardinality({n \in DOMAIN text : Sum(First(text, n)) <= bytes})

\* Mutant: the text that was fitted is sent as it is.
ChopFitted(text, fields, edges, budget) == Sum(text)

\* Characters go from the end of the text until the response fits.
Chop(text, fields, edges, budget) ==
    Max({b \in 0..Sum(text) :
           b = 0 \/ ResponseTokens(fields, edges, Escaped(text, b)) <= budget})

\* graph_build is there when this request had to build the graph.
FieldNames(built) ==
    <<"symbol", "envelope", "incoming", "outgoing", "incoming_total",
      "outgoing_total", "context_items_total", "context_items_loaded">>
      \o (IF built THEN <<"graph_build">> ELSE <<>>)
LateFields == <<"context_layer", "elided_items">>
AllFields(built) == Range(FieldNames(built)) \cup Range(LateFields)

MinimumTokens == Tokens(FieldSize("response"))

\* The text and the late fields, in what the early ones leave.
Sent(loaded, fit, fields, edges, cut, budget, built) ==
    LET sent == Chop(fit.text, fields, edges, budget)
    IN  [tokens |-> ResponseTokens(fields, edges, Escaped(fit.text, sent)),
         fields |-> fields, text |-> fit.text, sent |-> sent,
         items |-> loaded.items,
         elided |-> loaded.elided + fit.elided,
         truncated |-> \/ cut \/ loaded.elided > 0 \/ fit.elided > 0 \/ ~fit.whole
                       \/ fields # AllFields(built)
                       \/ sent < Sum(fit.text)]

Response(loaded, edges, cut, early, budget, built) ==
    Sent(loaded,
         RenderContext(loaded.items, Max({0, budget - ResponseTokens(early, edges, 0)})),
         Take(LateFields, early, edges, budget), edges, cut, budget, built)

Context(g, sources, symbol, budget, built) ==
    LET incoming == SortedEdges(SelectSeq(g.edges, LAMBDA e : e.dst = symbol))
        outgoing == SortedEdges(SelectSeq(g.edges, LAMBDA e : e.src = symbol))
        ends == [i \in DOMAIN incoming |-> incoming[i].src]
                  \o [i \in DOMAIN outgoing |-> outgoing[i].dst]
        neighbors == Distinct(SelectSeq(ends, LAMBDA s : s # symbol))
        edges == [incoming |-> CompactEdges(g, incoming, "src"),
                  outgoing |-> CompactEdges(g, outgoing, "dst")]
    IN  Response(LoadItems(sources, symbol, neighbors, budget), edges,
                 Len(incoming) > EdgeLimit \/ Len(outgoing) > EdgeLimit,
                 Take(FieldNames(built), {}, edges, budget), budget, built)

=============================================================================
