------------------------------- MODULE Orders -------------------------------
(* Sequences and the orders they are put in.                               *)
EXTENDS Integers, SequencesExt, FiniteSetsExt, Functions

First(s, n) == SubSeq(s, 1, Min({n, Len(s)}))
Skip(s, n) == SubSeq(s, n + 1, Len(s))
Clamp(n, low, high) == Max({low, Min({n, high})})

\* The members of s, each at its first place.
Distinct(s) ==
    FoldLeft(LAMBDA out, x : IF x \in Range(out) THEN out ELSE Append(out, x), <<>>, s)

\* Keys are tuples of numbers of one length.
Earlier(k, l) == \E i \in DOMAIN k : k[i] < l[i] /\ \A j \in 1..(i - 1) : k[j] = l[j]

Ascending(S) == SetToSortSeq(S, <)
ByKey(S, Key(_)) == SetToSortSeq(S, LAMBDA a, b : Earlier(Key(a), Key(b)))
SortedByKey(s, Key(_)) == SortSeq(s, LAMBDA a, b : Earlier(Key(a), Key(b)))

=============================================================================
