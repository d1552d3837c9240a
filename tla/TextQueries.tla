---------------------------- MODULE TextQueries -----------------------------
(* A regular expression over an index of grams: the plan, the candidate    *)
(* files, the page of verified lines.  A letter is a number, a text a      *)
(* sequence of them; NewLine ends a line.  A gram stands for its hash: a   *)
(* collision only adds a candidate.  Patterns:                             *)
(*   [kind |-> "literal", text]          [kind |-> "look", at]             *)
(*   [kind |-> "class", ranges]          [kind |-> "capture", sub]         *)
(*   [kind |-> "repeat", sub, min, max]                                    *)
(*   [kind |-> "concat", subs]           [kind |-> "alternation", subs]    *)
EXTENDS Orders

CONSTANTS
    MinGram,        \* letters of the shortest gram
    Weight(_),      \* of a window of MinGram - 1 letters
    MaxExact,       \* alternatives tracked before they become a requirement
    MaxClass,       \* MAX_CLASS_EXPANSION
    RowSize(_)      \* bytes of a row of an answer

NewLine == 0
BadByte == 9    \* in no text that is valid UTF-8; no pattern matches it

-----------------------------------------------------------------------------
(* gram.rs *)

WindowWeight(text, left) == Weight(SubSeq(text, left, left + MinGram - 2))

\* The window at `right`: left ends too far away leave the hull; those that do
\* not outweigh it leave with a gram, and so does the nearest that does,
\* unless an equal one lies between.
Slide(text, maxGram, scan, right) ==
    LET weight == WindowWeight(text, right)
        end == right + MinGram - 2
        young == SelectSeq(scan.hull, LAMBDA l : end - l < maxGram)
        light == SelectSeq(young, LAMBDA l : WindowWeight(text, l) <= weight)
        heavy == SelectSeq(young, LAMBDA l : WindowWeight(text, l) > weight)
        blocked == \E l \in Range(light) : WindowWeight(text, l) = weight
        nearest == IF heavy = <<>> \/ blocked THEN {} ELSE {Last(heavy)}
    IN  [hull |-> Append(heavy, right),
         spans |-> scan.spans \cup {<<l, end>> : l \in Range(light) \cup nearest}]

Spans(text, maxGram) ==
    FoldLeft(LAMBDA scan, right : Slide(text, maxGram, scan, right),
             [hull |-> <<>>, spans |-> {}],
             [i \in 1..(Len(text) - MinGram + 2) |-> i]).spans

GramsAt(text, spans) == {SubSeq(text, s[1], s[2]) : s \in spans}
Grams(text, maxGram) == GramsAt(text, Spans(text, maxGram))

\* The grams of a literal that are within no other one.
Outermost(spans) ==
    {s \in spans : \A t \in spans \ {s} : ~(t[1] <= s[1] /\ s[2] <= t[2])}
Covering(literal, maxGram) == GramsAt(literal, Outermost(Spans(literal, maxGram)))

-----------------------------------------------------------------------------
(* plan.rs *)

All == [op |-> "all"]
Gram(gram) == [op |-> "gram", gram |-> gram]
Both(parts) == [op |-> "and", parts |-> parts]
Either(parts) == [op |-> "or", parts |-> parts]

\* What cannot narrow cannot be part of a disjunction.
Combined(op, queries) ==
    IF queries = {} \/ All \in queries THEN All
    ELSE IF Cardinality(queries) = 1 THEN CHOOSE q \in queries : TRUE
    ELSE [op |-> op, parts |-> queries]

AllGrams(grams) == IF grams = {} THEN All ELSE Both({Gram(gram) : gram \in grams})
CoveringQuery(literal, maxGram) == AllGrams(Covering(literal, maxGram))

\* One alternative that cannot narrow, and the whole set cannot.
ExactToQuery(alternatives, maxGram) ==
    Combined("or", {CoveringQuery(a, maxGram) : a \in Range(alternatives)})

\* Nested operators of a kind become one; All is dropped from a conjunction
\* and swallows a disjunction.
Flattened(op, parts) ==
    UNION {IF p.op = op THEN p.parts ELSE {p} : p \in parts}
      \ (IF op = "and" THEN {All} ELSE {})

RECURSIVE Simplify(_)
Simplify(query) ==
    IF query.op \notin {"and", "or"} THEN query
    ELSE Combined(query.op, Flattened(query.op, {Simplify(p) : p \in query.parts}))

Exact(alternatives) == [exact |-> TRUE, alternatives |-> alternatives]
Required(query) == [exact |-> FALSE, query |-> query]

Finish(info, maxGram) ==
    IF info.exact THEN ExactToQuery(info.alternatives, maxGram) ELSE Simplify(info.query)

\* The letters of a class, unless there are too many (the last is not counted).
ClassAlternatives(ranges) ==
    FoldLeft(LAMBDA found, r :
               IF found = {} \/ r[2] - r[1] + Len(CHOOSE f \in found : TRUE) > MaxClass THEN {}
               ELSE {(CHOOSE f \in found : TRUE) \o [i \in 1..(r[2] - r[1] + 1) |-> <<r[1] + i - 1>>]},
             {<<>>}, ranges)

Product(prefixes, suffixes) ==
    FlattenSeq([i \in DOMAIN prefixes |-> [j \in DOMAIN suffixes |-> prefixes[i] \o suffixes[j]]])

\* The requirement of a run of exact parts, unless it is the empty text.
Flush(run, maxGram) == IF run = <<<<>>>> THEN {} ELSE {ExactToQuery(run, maxGram)}

\* Mutant: a part that is not exact does not end the run before it.
JoinedThrough(infos, maxGram) ==
    FoldLeft(
        LAMBDA acc, info :
            IF ~info.exact
            THEN [acc EXCEPT !.exact = FALSE, !.needs = @ \cup ({info.query} \ {All})]
            ELSE IF Len(acc.run) * Len(info.alternatives) <= MaxExact
            THEN [acc EXCEPT !.run = Product(@, info.alternatives)]
            ELSE [run |-> info.alternatives, exact |-> FALSE,
                  needs |-> acc.needs \cup Flush(acc.run, maxGram)],
        [run |-> <<<<>>>>, needs |-> {}, exact |-> TRUE], infos)

\* The parts of a concatenation from left to right.
Joined(infos, maxGram) ==
    FoldLeft(
        LAMBDA acc, info :
            IF ~info.exact
            THEN [run |-> <<<<>>>>, exact |-> FALSE,
                  needs |-> acc.needs \cup Flush(acc.run, maxGram) \cup ({info.query} \ {All})]
            ELSE IF Len(acc.run) * Len(info.alternatives) <= MaxExact
            THEN [acc EXCEPT !.run = Product(@, info.alternatives)]
            ELSE [run |-> info.alternatives, exact |-> FALSE,
                  needs |-> acc.needs \cup Flush(acc.run, maxGram)],
        [run |-> <<<<>>>>, needs |-> {}, exact |-> TRUE], infos)

ClassInfo(found) ==
    IF found \subseteq {<<>>} THEN Required(All) ELSE Exact(CHOOSE f \in found : TRUE)

Alternation(infos, maxGram) ==
    LET union == FlattenSeq([i \in DOMAIN infos |->
                               IF infos[i].exact THEN infos[i].alternatives ELSE <<>>])
    IN  IF Len(union) <= MaxExact /\ \A i \in DOMAIN infos : infos[i].exact
        THEN Exact(union)
        ELSE Required(Simplify(Either({Finish(info, maxGram) : info \in Range(infos)})))

Concatenation(joined, maxGram) ==
    IF joined.exact THEN Exact(joined.run)
    ELSE Required(Simplify(Both(joined.needs \cup Flush(joined.run, maxGram))))

Analyze(re, maxGram) ==
    LET RECURSIVE Info(_)
        Info(node) ==
          CASE node.kind = "look" -> Exact(<<<<>>>>)
            [] node.kind = "literal" -> Exact(<<node.text>>)
            [] node.kind = "class" -> ClassInfo(ClassAlternatives(node.ranges))
            [] node.kind = "capture" -> Info(node.sub)
            [] node.kind = "repeat" ->
                 IF node.min = 0 THEN Required(All)
                 ELSE IF node.min = 1 /\ node.max = 1 THEN Info(node.sub)
                 ELSE Required(Finish(Info(node.sub), maxGram))
            [] node.kind = "alternation" ->
                 Alternation([i \in DOMAIN node.subs |-> Info(node.subs[i])], maxGram)
            [] node.kind = "concat" ->
                 Concatenation(Joined([i \in DOMAIN node.subs |-> Info(node.subs[i])], maxGram),
                               maxGram)
    IN  Info(re)

Plan(re, maxGram) == Finish(Analyze(re, maxGram), maxGram)

-----------------------------------------------------------------------------
(* posting.rs: a posting list is a sorted sequence of file ids. *)

\* The first index from start on with an id of target or more: steps double
\* until one is reached, the last step is searched.  Indices count from 0.
Gallop(list, start, target) ==
    LET At(i) == list[i + 1]
        bound == Min({b \in {1, 2, 4, 8} : start + b >= Len(list) \/ At(start + b) >= target})
        low == start + bound \div 2
        high == Min({start + bound, Len(list) - 1})
    IN  IF start >= Len(list) THEN Len(list)
        ELSE low + Cardinality({i \in low..high : At(i) < target})

IntersectSorted(a, b) ==
    LET short == IF Len(a) <= Len(b) THEN a ELSE b
        long == IF Len(a) <= Len(b) THEN b ELSE a
    IN  FoldLeft(LAMBDA acc, id :
                   LET at == Gallop(long, acc.at, id)
                   IN  [at |-> at,
                        ids |-> IF at < Len(long) /\ long[at + 1] = id
                                THEN Append(acc.ids, id) ELSE acc.ids],
                 [at |-> 0, ids |-> <<>>], short).ids

UnionSorted(a, b) == Ascending(Range(a) \cup Range(b))

\* Over the gram sets of the files, in the order of their ids.
ResolveQuery(query, files) ==
    LET RECURSIVE Ids(_)
        Ids(q) ==
          CASE q.op = "all" -> [i \in DOMAIN files |-> i]
            [] q.op = "gram" -> SelectSeq([i \in DOMAIN files |-> i], LAMBDA i : q.gram \in files[i])
            [] q.op = "and" ->
                 LET lists == {Ids(p) : p \in q.parts}
                     first == CHOOSE l \in lists : \A o \in lists : Len(l) <= Len(o)
                 IN  FoldSet(IntersectSorted, first, lists \ {first})
            [] q.op = "or" -> FoldSet(UnionSorted, <<>>, {Ids(p) : p \in q.parts})
    IN  Ids(query)

\* overlay.rs: the grams of one file against the plan.
RECURSIVE Satisfies(_, _)
Satisfies(grams, query) ==
    CASE query.op = "all" -> TRUE
      [] query.op = "gram" -> query.gram \in grams
      [] query.op = "and" -> \A p \in query.parts : Satisfies(grams, p)
      [] query.op = "or" -> \E p \in query.parts : Satisfies(grams, p)

-----------------------------------------------------------------------------
(* verify.rs, indexset.rs and the page of api.rs.  A corpus has files      *)
(* (path -> lines, as they are), base and overlay (path -> the grams of    *)
(* its text when it was indexed), tombstones, maxGram (letters of its      *)
(* longest grams) and sealed (paths that cannot be opened).                *)

\* Where a match of the pattern that starts at i may end.
RECURSIVE MatchEnds(_, _, _)
MatchEnds(re, line, i) ==
    CASE re.kind = "look" ->
           IF (re.at = "start" /\ i = 1) \/ (re.at = "end" /\ i = Len(line) + 1) THEN {i} ELSE {}
      [] re.kind = "literal" ->
           LET end == i + Len(re.text)
           IN  IF end <= Len(line) + 1 /\ SubSeq(line, i, end - 1) = re.text THEN {end} ELSE {}
      [] re.kind = "class" ->
           IF i <= Len(line) /\ \E r \in Range(re.ranges) : r[1] <= line[i] /\ line[i] <= r[2]
           THEN {i + 1} ELSE {}
      [] re.kind = "capture" -> MatchEnds(re.sub, line, i)
      [] re.kind = "repeat" ->
           LET after[n \in 0..re.max] ==
                 IF n = 0 THEN {i} ELSE UNION {MatchEnds(re.sub, line, j) : j \in after[n - 1]}
           IN  UNION {after[n] : n \in re.min..re.max}
      [] re.kind = "concat" ->
           FoldLeft(LAMBDA ends, sub : UNION {MatchEnds(sub, line, j) : j \in ends}, {i}, re.subs)
      [] re.kind = "alternation" -> UNION {MatchEnds(sub, line, i) : sub \in Range(re.subs)}

Matches(re, line) == \E i \in 1..(Len(line) + 1) : MatchEnds(re, line, i) # {}

\* What the builder and refresh_file keep of a file.
FileGrams(lines, maxGram) ==
    Grams(FlattenSeq([i \in DOMAIN lines |-> Append(lines[i], NewLine)]), maxGram)

Candidates(corpus, query) ==
    LET ids == Ascending(DOMAIN corpus.base)
        files == [i \in DOMAIN ids |-> corpus.base[ids[i]]]
        based == {ids[i] : i \in Range(ResolveQuery(query, files))}
        laid == {p \in DOMAIN corpus.overlay : Satisfies(corpus.overlay[p], query)}
    IN  (based \ corpus.tombstones) \cup laid

\* The matching lines of a file, less those to skip, at most `limit`.  It fails
\* if the file does not open, and at a match in a line that is no UTF-8.
SearchFile(corpus, path, re, found, limit) ==
    LET file == corpus.files[path]
        lines == SelectSeq([n \in DOMAIN file |-> n], LAMBDA n : Matches(re, file[n]))
        last == Min({found.skip + limit, Len(lines)})
        skipped == Min({found.skip, last})
        rows == SubSeq(lines, skipped + 1, last)
    IN  [skip |-> found.skip - skipped,
         rows |-> found.rows \o [i \in DOMAIN rows |-> [path |-> path, line |-> rows[i]]],
         failed |-> \/ path \in corpus.sealed
                    \/ \E i \in 1..last : BadByte \in Range(file[lines[i]])]

\* One file that fails ends all of the search.
UpTo(limit, found) ==
    [rows |-> IF found.failed THEN <<>> ELSE First(found.rows, limit),
     truncated |-> Len(found.rows) > limit,
     failed |-> found.failed]

\* Files are read in order until one row beyond the limit is known, or one fails.
SearchPageIn(corpus, re, offset, limit, prefixes) ==
    LET paths == {p \in Candidates(corpus, Plan(re, corpus.maxGram)) \cap DOMAIN corpus.files :
                    prefixes = {} \/ p \in prefixes}
    IN  UpTo(limit,
             FoldLeft(LAMBDA acc, p :
                        IF acc.failed \/ Len(acc.rows) > limit THEN acc
                        ELSE SearchFile(corpus, p, re, acc, limit + 1 - Len(acc.rows)),
                      [skip |-> offset, rows |-> <<>>, failed |-> FALSE], Ascending(paths)))

\* op_search: rows up to the byte cap; the next page starts after the last.
SearchAnswer(page, offset, byteCap) ==
    LET Bytes(n) == FoldLeft(+, 0, [i \in 1..n |-> RowSize(page.rows[i])])
        shown == Max({n \in 0..Len(page.rows) : \A k \in 1..n : Bytes(k) <= byteCap})
    IN  [rows |-> SubSeq(page.rows, 1, shown),
         more |-> page.truncated \/ shown < Len(page.rows),
         next |-> offset + shown]

=============================================================================
