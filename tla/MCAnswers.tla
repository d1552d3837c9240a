------------------------------ MODULE MCAnswers -----------------------------
(* Letters 1 to 3.  Five files whose lines overlap, one of them edited and *)
(* one new since the base, or one with a line that is no UTF-8 and one     *)
(* that cannot be opened; seven turns of three sessions, the last two not  *)
(* in a segment and one gone; patterns of every kind.                      *)
EXTENDS Answers

Lit(text) == [kind |-> "literal", text |-> text]
Cls(ranges) == [kind |-> "class", ranges |-> ranges]
Rep(sub, min, max) == [kind |-> "repeat", sub |-> sub, min |-> min, max |-> max]
Cat(subs) == [kind |-> "concat", subs |-> subs]
Alt(subs) == [kind |-> "alternation", subs |-> subs]
Cap(sub) == [kind |-> "capture", sub |-> sub]
Look(at) == [kind |-> "look", at |-> at]

RegularExpressions == {
    Lit(<<1, 2, 1>>), Lit(<<2, 1, 1, 2, 1>>), Lit(<<1, 2>>),
    Cat(<<Lit(<<1, 2>>), Rep(Lit(<<3>>), 0, 1), Lit(<<1, 2>>)>>),
    Cat(<<Lit(<<1>>), Cls(<<<<1, 2>>>>), Lit(<<1, 2>>)>>),
    Cat(<<Lit(<<1, 2>>), Cls(<<<<1, 3>>>>), Rep(Lit(<<1, 1, 2>>), 1, 2)>>),
    Cat(<<Look("start"), Alt(<<Lit(<<3, 1, 2>>), Lit(<<2, 1, 1>>)>>), Cap(Lit(<<1>>))>>),
    Alt(<<Lit(<<1, 2, 3>>), Cat(<<Lit(<<2, 1>>), Look("end")>>), Lit(<<3, 3, 1>>)>>),
    Cat(<<Alt(<<Lit(<<1, 2>>), Lit(<<3>>)>>), Alt(<<Lit(<<1, 1>>), Lit(<<1, 2>>)>>), Cls(<<<<1, 2>>>>)>>)}

PairWeight(pair) == (2 * pair[1] + 3 * pair[2]) % 4

\* path -> lines
Now == <<<<<<1, 2, 1, 2, 3>>, <<1, 1, 2>>>>,
         <<<<3, 1, 2, 1>>, <<1, 2, 1>>, <<2, 1, 1, 2, 1>>>>,
         <<<<2, 3, 3, 1>>, <<1, 2>>>>,
         <<<<1, 2, 3, 1, 2, 1>>, <<2, 1>>>>,
         <<<<2, 1, 1, 2, 1, 1, 2>>>>>>
Before4 == <<<<3, 3, 3, 3>>>>

Before == [p \in 1..4 |-> IF p = 4 THEN Before4 ELSE Now[p]]
Edited == [p \in {4, 5} |-> Now[p]]

\* The third file has a line that is no UTF-8, and the fifth is not opened.
Broken == [Now EXCEPT ![3] = <<<<1, 2>>, <<BadByte, 1, 2, 1>>>>]

\* The service indexes the trigrams of a text, the command line also sparse
\* grams, which are longer.
Trees == {[files |-> Now, base |-> Before, overlay |-> Edited, tombstones |-> {4, 5},
           maxGram |-> MinGram, sealed |-> {}],
          [files |-> Now, base |-> Now, overlay |-> <<>>, tombstones |-> {},
           maxGram |-> MinGram + 1, sealed |-> {}],
          [files |-> Broken, base |-> Broken, overlay |-> <<>>, tombstones |-> {},
           maxGram |-> MinGram, sealed |-> {5}]}

\* The layers hold the grams of the texts.
Corpora ==
    {[tree EXCEPT !.base = [p \in DOMAIN @ |-> FileGrams(@[p], tree.maxGram)],
                  !.overlay = [p \in DOMAIN @ |-> FileGrams(@[p], tree.maxGram)]] : tree \in Trees}

Edge(src, dst, kind, tier, site) ==
    [src |-> src, dst |-> dst, kind |-> kind, tier |-> tier, site |-> site]
Symbol(file, name) == [file |-> file, uid |-> 0, name |-> name, test |-> FALSE, start |-> 1, end |-> 9]

Graph == [symbols |-> <<Symbol(1, "ab"), Symbol(2, "ab"), Symbol(2, "b"), Symbol(3, "c"),
                        Symbol(4, "ac"), Symbol(5, "d")>>,
          edges |-> <<Edge(1, 3, "calls", "exact", 2), Edge(3, 4, "calls", "probable", 3),
                      Edge(5, 1, "calls", "exact", 1), Edge(5, 1, "calls", "exact", 4),
                      Edge(2, 4, "has_method", "exact", 0)>>,
          imports |-> {<<2, 3>>, <<4, 1>>, <<5, 2>>},
          unresolved |-> {"b"}]

Sources == [s \in 1..6 |-> [head |-> 8, sig |-> IF s = 4 THEN 0 ELSE 6,
                            lines |-> SubSeq(<<9, 1, 12>>, 1, s % 4)]]

ProjectOf(corpus) ==
    [corpus |-> corpus, graph |-> Graph, sources |-> Sources,
     clusters |-> <<[label |-> "dir", members |-> {1, 3, 5}], [label |-> "misc", members |-> {2, 4}]>>,
     pathWords |-> <<<<<<"a", FALSE>>, <<"b", TRUE>>>>, <<<<"a", TRUE>>>>, <<<<"x", TRUE>>>>,
                     <<<<"b", FALSE>>, <<"x", TRUE>>>>, <<<<"x", TRUE>>>>>>,
     names |-> [n \in {"ab", "b", "c", "ac", "d"} |->
                  CASE n = "ab" -> {"a", "b"} [] n = "ac" -> {"a", "c"} [] OTHER -> {n}],
     keyword |-> [a |-> Lit(<<1, 2, 1>>), b |-> Lit(<<1, 1, 2>>), c |-> Lit(<<3, 1>>)]]

AllProjects == {ProjectOf(corpus) : corpus \in Corpora}

Tasks == {[keywords |-> kw, exact |-> e] :
            kw \in {<<"a">>, <<"b", "c">>, <<"c", "a", "b">>}, e \in {{}, {"c"}, {"b", "d"}}}

Turn(session, ts, human, text) == [session |-> session, ts |-> ts, human |-> human, text |-> text]
Turns == [id \in {1, 2, 3, 5, 6, 7} |->
            CASE id = 1 -> Turn(1, 4, TRUE, <<1, 2, 1, 3>>)
              [] id = 2 -> Turn(1, 0, FALSE, <<2, 1, 1, 2, 1>>)
              [] id = 3 -> Turn(2, 4, TRUE, <<1, 1, 2, 3, 1>>)
              [] id = 5 -> Turn(2, 2, TRUE, <<1, 2, 1, 1, 2>>)
              [] id = 6 -> Turn(3, 7, TRUE, <<1, 2>>)
              [] id = 7 -> Turn(3, 0, TRUE, <<3, 1, 2, 1>>)]

Row(turn, score) == [turn |-> turn, score |-> score]
Memory(vectors) ==
    [turns |-> Turns,
     indexed |-> [id \in 1..5 |-> Grams(IF id = 4 THEN <<1, 2, 1>> ELSE Turns[id].text, MinGram)],
     floor |-> 5, vectors |-> vectors]

AllMemories == {Memory(<<Row(1, 3), Row(3, 5), Row(4, 9), Row(5, 5), Row(1, 7), Row(6, 2)>>),
                Memory(<<Row(7, 8), Row(5, 8), Row(5, 9), Row(3, 1)>>)}

AllScopes == {{}, {2, 4}}
AllLimits == {1, 2, 3}
WordSets == {{<<1, 2, 1>>, <<1, 1, 2>>}, {<<1, 2>>, <<3, 1>>, <<2, 3, 1>>}, {<<2>>, <<1, 2, 1>>}}
Size(row) == 3 + row.path
Fields(name) == IF name = "response" THEN 24 ELSE 6
AllBudgets == {4, 6, 9, 13, 17, 21, 25, 30, 36, 42, 50, 60, 75}

=============================================================================
