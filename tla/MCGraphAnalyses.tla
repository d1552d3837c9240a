--------------------------- MODULE MCGraphAnalyses --------------------------
(* Five symbols in two files.  Two calls there always are; a path to them,  *)
(* a call back, a second entry and a repeated call there may be.           *)
EXTENDS GraphAnalyses

CONSTANTS MaxUpdates

Call(src, dst, tier, site) ==
    [src |-> src, dst |-> dst, kind |-> "calls", tier |-> tier, site |-> site]

Symbols ==
    [s \in 1..5 |-> [file |-> IF s <= 3 THEN 1 ELSE 2, uid |-> IF s <= 3 THEN 4 - s ELSE s,
                     name |-> IF s = 5 THEN 4 ELSE s, test |-> FALSE,
                     start |-> 10 * s, end |-> 10 * s + 5]]

Optional == {Call(1, 2, "exact", 5), Call(4, 2, "probable", 2), Call(5, 4, "exact", 1)}
Always == <<Call(1, 3, "probable", 4), Call(2, 4, "exact", 3)>>

Method == [src |-> 3, dst |-> 5, kind |-> "has_method", tier |-> "exact", site |-> 0]

GraphOf(calls, rest, imports) ==
    [symbols |-> Symbols, edges |-> SetToSeq(calls) \o rest,
     imports |-> imports, unresolved |-> {4}]

Family ==
    {GraphOf(calls, Append(Always, Method), {<<2, 1>>}) : calls \in SUBSET Optional}
      \cup {GraphOf(Optional, Always \o <<Call(1, 2, "exact", 5), Call(3, 4, "exact", 4)>>, {})}

Diff == {
    {[file |-> 1, status |-> "modified", hunks |-> {[start |-> 12, len |-> 0], [start |-> 25, len |-> 10]}]},
    {[file |-> 2, status |-> "deleted", hunks |-> {}],
     [file |-> 1, status |-> "added", hunks |-> {[start |-> 0, len |-> 0]}]},
    {[file |-> 2, status |-> "modified", hunks |-> {[start |-> 42, len |-> 0]}]}}

Settings == [depth |-> 6, branching |-> 3, minSteps |-> 3, max |-> 2]
Steps == <<<<0, 1, 2>>, <<0, 1>>>>

VARIABLE updates

MCInit == Init /\ updates = 0

\* What an update leaves: a graph without calls, or with all of them.
MCNext ==
    \/ (Questions \/ Computes) /\ UNCHANGED updates
    \/ /\ updates < MaxUpdates
       /\ \E g \in {GraphOf({}, <<Method>>, {}), GraphOf(Optional, <<>>, {})} : Update(g) \/ Rebuild(g)
       /\ updates' = updates + 1

MCSpec == MCInit /\ [][MCNext]_<<vars, updates>>

=============================================================================
