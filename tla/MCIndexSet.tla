----------------------------- MODULE MCIndexSet -----------------------------
(* A history of three commits: c2 modifies p1 and deletes p2; c3 has an    *)
(* empty p1 and a symbolic link p2.  A plain directory may hold anything;  *)
(* after that the user writes no binary file, which no layer tells from an *)
(* absent one, and no empty one, which is dirty like any other: both come  *)
(* from the plain directory or a checkout.                                 *)
EXTENDS IndexSet, Naturals

CONSTANTS p1, p2, t1, t2, l1, c1, c2, c3

History ==
    [c \in Commits |->
       [p \in Paths |->
          CASE c = c1 -> t1
            [] c = c2 -> IF p = p1 THEN t2 ELSE Absent
            [] c = c3 -> IF p = p1 THEN Empty ELSE l1]]

VARIABLE userSteps      \* steps the user has taken so far

CONSTANT MaxUserSteps

\* Bound: what the user writes, on top of what Git checks out.
Written == Text \cup Links \cup {Absent}

MCInit == Init /\ userSteps = 0

MCNext ==
    \/ /\ userSteps < MaxUserSteps
       /\ User \/ LoseBase
       /\ \A p \in Paths : \/ work'[p] \in Written \cup {work[p]}
                           \/ head' \in Commits /\ work'[p] = Tree[head'][p]
       /\ userSteps' = userSteps + 1
    \/ /\ OpenOrBuild \/ Watch \/ Exit
       /\ UNCHANGED userSteps

MCSpec == MCInit /\ [][MCNext]_<<vars, userSteps>>

=============================================================================
