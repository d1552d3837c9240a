------------------------------ MODULE MCDaemon ------------------------------
(* Bounds: the tree changes, clients connect and the daemon is started     *)
(* only so many times in a behaviour.                                      *)
EXTENDS Daemon

CONSTANTS p1, p2, t1, MaxEdits, MaxConns, MaxOpens

\* p1 may be a directory and then holds p2.
InP1 == [p \in Paths |-> IF p = p1 THEN Paths \cap {p2} ELSE {}]

VARIABLES edits, conns, opens

mcvars == <<vars, edits, conns, opens>>

MCInit ==
    /\ Init
    /\ edits = 0
    /\ conns = 0
    /\ opens = 0

MCNext ==
    \/ /\ edits < MaxEdits
       /\ \/ \E p \in Paths, c \in Index!Content : Edit(p, c)
          \/ \E d \in Paths : MoveDirectory(d)
       /\ edits' = edits + 1
       /\ UNCHANGED <<conns, opens>>
    \/ /\ conns < MaxConns
       /\ \E request \in {"search", "shutdown"} : Connect(request)
       /\ conns' = conns + 1
       /\ UNCHANGED <<edits, opens>>
    \/ /\ opens < MaxOpens
       /\ OpenService
       /\ \A p \in suspect' : view'[p] \in Text \cup {Absent}
       /\ opens' = opens + 1
       /\ UNCHANGED <<edits, conns>>
    \/ /\ \/ Bind
          \/ StartWatcher
          \/ MainLoop
          \/ Debounced
          \/ IdleTimeout
          \/ Kill
       /\ UNCHANGED <<edits, conns, opens>>

MCSpec == MCInit /\ [][MCNext]_mcvars

\* For liveness: the daemon's own fairness, which the bounds never disable.
MCFairSpec == MCSpec /\ Fairness

=============================================================================
