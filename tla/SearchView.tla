----------------------------- MODULE SearchView -----------------------------
(***************************************************************************)
(* What a text index promises, free of layers, shards and Git.             *)
(*                                                                         *)
(* `work` is the working tree, `view` the contents the index would find a  *)
(* file under, and `suspect` the paths the index makes no promise about:   *)
(* the tree has changed under it and nothing has told the index yet.  An   *)
(* open index agrees with the tree on every path that is not suspect.      *)
(*                                                                         *)
(* IndexSet is shown to implement this module; Daemon is built on it.      *)
(***************************************************************************)
CONSTANTS
    Paths,      \* repository-relative file paths
    Text,       \* the contents a file can be found by
    Unfindable, \* what else a path can be that no search should show: a file
                \* the extractor refuses, a symbolic link, a directory
    Absent      \* nothing is there

VARIABLES
    work,       \* [Paths -> Content], the files on disk
    view,       \* [Paths -> Content], what the index holds for each path
    suspect,    \* SUBSET Paths, paths changed and not yet re-read
    open        \* BOOLEAN, a client can ask the index

vars == <<work, view, suspect, open>>

Content == Text \cup Unfindable \cup {Absent}

\* What the index should hold for a path: nothing unless it can be found.
TextOf(c) == IF c \in Text THEN c ELSE Absent

Nothing == [p \in Paths |-> Absent]

AgreesOutside(v, w, S) == \A p \in Paths \ S : v[p] = TextOf(w[p])

TypeOK ==
    /\ work \in [Paths -> Content]
    /\ view \in [Paths -> Content]
    /\ suspect \in SUBSET Paths
    /\ open \in BOOLEAN

Init ==
    /\ work \in [Paths -> Content]
    /\ view = Nothing
    /\ suspect = Paths
    /\ open = FALSE

\* The user, an editor or Git rewrites some files.
Change ==
    /\ work' \in [Paths -> Content]
    /\ suspect' = suspect \cup {p \in Paths : work'[p] # work[p]}
    /\ UNCHANGED <<view, open>>

\* An index becomes available: it may give up on some paths, and is right
\* about all the others.
Publish ==
    /\ ~open
    /\ open' = TRUE
    /\ suspect' \in SUBSET Paths
    /\ view' \in [Paths -> Content]
    /\ AgreesOutside(view', work, suspect')
    /\ UNCHANGED work

\* One file is re-read: the index is right about it again.
Refresh(p) ==
    /\ open
    /\ view' = [view EXCEPT ![p] = TextOf(work[p])]
    /\ suspect' = suspect \ {p}
    /\ UNCHANGED <<work, open>>

\* One file is dropped as deleted: right only if nothing can be found in it.
Remove(p) ==
    /\ open
    /\ view' = [view EXCEPT ![p] = Absent]
    /\ suspect' = IF work[p] \in Text THEN suspect \cup {p} ELSE suspect \ {p}
    /\ UNCHANGED <<work, open>>

Close ==
    /\ open
    /\ open' = FALSE
    /\ view' = Nothing
    /\ suspect' = Paths
    /\ UNCHANGED work

Next ==
    \/ Change
    \/ Publish
    \/ \E p \in Paths : Refresh(p) \/ Remove(p)
    \/ Close

Spec == Init /\ [][Next]_vars

(***************************************************************************)
(* The promise: an open index finds every text file under its current      *)
(* contents and lists no other, wherever nothing is suspect.               *)
(***************************************************************************)
Fresh == open => AgreesOutside(view, work, suspect)

=============================================================================
