---------------------------- MODULE MCCallGraph ----------------------------
(* Bounds: the tree changes, files are updated and removed, and the        *)
(* service is interrupted only so many times in a behaviour.               *)
EXTENDS CallGraph

CONSTANTS f1, f2, f3, n1, n2, MaxEdits, MaxUpdates, MaxInterrupts

VARIABLES edits, updates, interrupts

mcvars == <<vars, edits, updates, interrupts>>

Two == <<f1, f2>>

Call(at, name, recv) == [at |-> at, name |-> name, recv |-> recv]

\* A library, a file that imports n1 from f1 or f2 and calls it, one that imports
\* another name than the one it calls, one that calls without an import, and one
\* that calls what it defines itself.
Library == [defs |-> <<n1>>, calls |-> <<>>, imports |-> {}]
Importer ==
    [defs |-> <<n2>>,
     calls |-> <<Call(1, n1, FALSE), Call(1, n1, TRUE), Call(0, n1, FALSE)>>,
     imports |-> {[from |-> f1, name |-> n1], [from |-> f2, name |-> n1]}]
Stranger ==
    [defs |-> <<n2>>, calls |-> <<Call(1, n1, FALSE)>>,
     imports |-> {[from |-> f1, name |-> n2], [from |-> f2, name |-> n2]}]
Caller ==
    [defs |-> <<n2>>, calls |-> <<Call(1, n1, FALSE)>>, imports |-> {}]
Both ==
    [defs |-> <<n2, n1>>, calls |-> <<Call(1, n1, FALSE)>>, imports |-> {}]

Twice ==
    [defs |-> <<n2, n2>>, calls |-> <<Call(1, n1, FALSE)>>, imports |-> {}]

MCSources == {Library, Importer, Stranger, Caller, Both, Twice}

MCInit ==
    /\ Init
    /\ \A f \in Unlisted : work[f] = Absent
    /\ edits = 0
    /\ updates = 0
    /\ interrupts = 0

MCNext ==
    \/ /\ edits < MaxEdits
       /\ \E f \in Files, c \in Content : Edit(f, c)
       /\ edits' = edits + 1
       /\ UNCHANGED <<updates, interrupts>>
    \/ /\ updates < MaxUpdates
       /\ \E f \in Files : RemoveFile(f) \/ Demote(f)
       /\ updates' = updates + 1
       /\ UNCHANGED <<edits, interrupts>>
    \/ /\ interrupts < MaxInterrupts
       /\ Interrupt
       /\ interrupts' = interrupts + 1
       /\ UNCHANGED <<edits, updates>>
    \/ /\ UpdateFile \/ EnsureGraph
       /\ UNCHANGED <<edits, updates, interrupts>>

MCSpec == MCInit /\ [][MCNext]_mcvars

=============================================================================
