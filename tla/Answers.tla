------------------------------- MODULE Answers ------------------------------
(* A client asks the service and the memory: it pages through a search,    *)
(* has files ranked for a task, a question answered from transcripts, the  *)
(* context of a symbol within a budget.                                    *)
EXTENDS Targets, ContextBudget

CONSTANTS
    Projects,       \* (Targets), with sources: symbol -> item (ContextBudget)
    Memories,       \* (RecallQueries)
    Patterns,       \* regular expressions searched for
    Scopes,         \* sets of paths a search is restricted to, {} for none
    Limits,         \* rows asked for
    RowLimit,       \* MAX_LIMIT of op_search
    ByteCap,
    Queries,        \* [keywords, exact] of a task
    Questions,      \* sets of words
    Budgets,        \* tokens
    None

VARIABLES
    project, memory,
    client      \* its question and what it has got of the answer

vars == <<project, memory, client>>

NoClient == [op |-> "none", arg |-> None, next |-> 0, more |-> FALSE, shown |-> <<>>]

Init ==
    /\ project \in Projects
    /\ memory \in Memories
    /\ client = NoClient

Follows(op, arg) == client.op = op /\ client.arg = arg /\ client.more
Asks(op, arg) == client.op = "none" \/ Follows(op, arg)
Offset(op, arg) == IF Follows(op, arg) THEN client.next ELSE 0

Got(op, arg, page) ==
    /\ client' = [op |-> op, arg |-> arg, next |-> page.next, more |-> page.more,
                  shown |-> (IF Follows(op, arg) THEN client.shown ELSE <<>>) \o page.rows]
    /\ UNCHANGED <<project, memory>>

Whole(rows) == [rows |-> rows, more |-> FALSE, next |-> 0]

\* The answer or, when a file fails, an error instead of all of it.
AskSearch(re, scope, limit) ==
    LET arg == [re |-> re, scope |-> scope, limit |-> limit]
        offset == Offset("search", arg)
        page == SearchPageIn(project.corpus, re, offset, Clamp(limit, 1, RowLimit), scope)
    IN  /\ Asks("search", arg)
        /\ IF page.failed
           THEN /\ client' = [op |-> "failed search", arg |-> arg, next |-> 0, more |-> FALSE,
                              shown |-> IF Follows("search", arg) THEN client.shown ELSE <<>>]
                /\ UNCHANGED <<project, memory>>
           ELSE Got("search", arg, SearchAnswer(page, offset, ByteCap))

AskTurns(re, session, humanOnly, limit) ==
    LET filters == [session |-> session, humanOnly |-> humanOnly]
        arg == [re |-> re, filters |-> filters, limit |-> limit]
    IN  /\ Asks("turns", arg)
        /\ Got("turns", arg, SearchTurns(memory, re, filters, Offset("turns", arg), limit))

AskTargets(query, hasGraph, limit) ==
    LET arg == [query |-> query, hasGraph |-> hasGraph, limit |-> limit]
    IN  /\ client.op = "none"
        /\ Got("targets", arg, Whole(ComputeTargets(project, query, hasGraph, limit).targets))

AskMemory(words, humanOnly, embedder, k) ==
    LET filters == [session |-> 0, humanOnly |-> humanOnly]
        arg == [words |-> words, filters |-> filters, embedder |-> embedder, k |-> k]
    IN  /\ client.op = "none"
        /\ Got("ask", arg, Whole(Ask(memory, words, filters, k, embedder)))

AskContext(symbol, budget, built) ==
    /\ client.op = "none"
    /\ budget >= MinimumTokens
    /\ Got("context", [symbol |-> symbol, budget |-> budget, built |-> built],
           Whole(<<Context(project.graph, project.sources, symbol, budget, built)>>))

Leave ==
    /\ client # NoClient
    /\ client' = NoClient
    /\ UNCHANGED <<project, memory>>

Next ==
    \/ \E re \in Patterns, limit \in Limits :
         \/ \E scope \in Scopes : AskSearch(re, scope, limit)
         \/ \E session \in {0, 1}, humanOnly \in BOOLEAN : AskTurns(re, session, humanOnly, limit)
    \/ \E query \in Queries, hasGraph \in BOOLEAN, limit \in Limits :
         AskTargets(query, hasGraph, limit)
    \/ \E words \in Questions, humanOnly \in BOOLEAN, embedder \in BOOLEAN, k \in Limits :
         AskMemory(words, humanOnly, embedder, k)
    \/ \E symbol \in DOMAIN project.graph.symbols, budget \in Budgets, built \in BOOLEAN :
         AskContext(symbol, budget, built)
    \/ Leave

Spec == Init /\ [][Next]_vars

-----------------------------------------------------------------------------
(* Properties. *)

\* Every line of the files as they are, in order of path and line.
MatchingLines(re, scope) ==
    LET files == project.corpus.files
        paths == Ascending({p \in DOMAIN files : scope = {} \/ p \in scope})
        Lines(p) == SelectSeq([n \in DOMAIN files[p] |-> [path |-> p, line |-> n]],
                              LAMBDA r : Matches(re, files[p][r.line]))
    IN  FlattenSeq([i \in DOMAIN paths |-> Lines(paths[i])])

Readable(row) ==
    /\ row.path \notin project.corpus.sealed
    /\ BadByte \notin Range(project.corpus.files[row.path][row.line])

(***************************************************************************)
(* A client that follows the pages to their end has every match, once and  *)
(* in order, as if there were no index: no plan made of a pattern drops a  *)
(* file, whatever its grams, its layer, the lists that are intersected,    *)
(* the row limit and the byte cap.  A search that ends in an error has     *)
(* shown the first of the matches, and a match that cannot be read or a    *)
(* file that does not open is to blame.  In the memory, the fetch by       *)
(* candidates and the scan agree, and the turns above the floor are among  *)
(* the hits.                                                               *)
(***************************************************************************)
SearchFindsEveryMatch ==
    ~client.more =>
      /\ client.op = "search" =>
           LET rows == MatchingLines(client.arg.re, client.arg.scope)
           IN  client.shown = rows /\ \A i \in DOMAIN rows : Readable(rows[i])
      /\ client.op = "failed search" =>
           LET rows == MatchingLines(client.arg.re, client.arg.scope)
           IN  /\ client.shown = First(rows, Len(client.shown))
               /\ \/ project.corpus.sealed # {}
                  \/ \E i \in DOMAIN rows : ~Readable(rows[i])
      /\ client.op = "turns" =>
           client.shown = Newest(memory, {id \in DOMAIN memory.turns :
                                            /\ Passes(memory.turns[id], client.arg.filters)
                                            /\ Matches(client.arg.re, memory.turns[id].text)})

\* Whatever finds b finds a, and ranks it higher.
Dominates(a, b, channels) ==
    /\ a # b
    /\ b \in Listed(channels)
    /\ \A c \in Range(channels) :
         b \in Range(c.list) => /\ a \in Range(c.list)
                                /\ RankOf(a, c.list) < RankOf(b, c.list)

\* If b is in the list, then a is, and before it.
Ahead(a, b, list) ==
    b \in Range(list) => a \in Range(list) /\ RankOf(a, list) <= RankOf(b, list)

FilesUnanimous(channels) ==
    LET listed == [i \in DOMAIN client.shown |-> client.shown[i].path]
    IN  \A a, b \in Listed(channels) : Dominates(a, b, channels) => Ahead(a, b, listed)

TurnsUnanimous(channels) ==
    \A i \in DOMAIN client.shown : \A a \in Listed(channels) \cap DOMAIN memory.turns :
      Dominates(a, client.shown[i].best, channels) =>
        \E j \in 1..i : client.shown[j].session = memory.turns[a].session

(***************************************************************************)
(* Ranking is unanimous: a file that every signal puts before another one  *)
(* is listed before it, through the weights, the bonus of an exact name,   *)
(* the tiers, their caps and the limit; and the session of a turn that the *)
(* channels of ask put before the best one of a group is listed before it. *)
(***************************************************************************)
RankingIsUnanimous ==
    /\ client.op = "targets" =>
         FilesUnanimous(TargetChannels(project, client.arg.query, client.arg.hasGraph))
    /\ client.op = "ask" =>
         TurnsUnanimous(Channels(memory, client.arg.words, client.arg.filters, client.arg.embedder))

(***************************************************************************)
(* A context stays within its budget, the line ends its text has as JSON   *)
(* included; and an answer that does not say it is truncated has every     *)
(* field, every neighbour and every snippet as it was loaded.              *)
(***************************************************************************)
ContextFitsItsBudget ==
    client.op = "context" =>
      LET answer == client.shown[1]
          symbol == client.arg.symbol
          g == project.graph
          near == {e.src : e \in {e \in Rows(g) : e.dst = symbol}}
                    \cup {e.dst : e \in {e \in Rows(g) : e.src = symbol}}
      IN  /\ answer.tokens <= client.arg.budget
          /\ ~answer.truncated =>
               /\ answer.sent = Sum(answer.text)
               /\ answer.text = Render(answer.items, 2)
               /\ Len(answer.items) = Cardinality(near \cup {symbol})
               /\ answer.fields = AllFields(client.arg.built)

=============================================================================
