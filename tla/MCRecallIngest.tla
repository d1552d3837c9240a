--------------------------- MODULE MCRecallIngest ---------------------------
(* Bounds: the tools write, passes start (MaxBoth: the two together) and   *)
(* die only so many times.  Agents share nothing in an ingest, so one of   *)
(* them is at work in a behaviour.                                         *)
EXTENDS RecallIngest, TLC

CONSTANTS
    i1, i2, main, sub, chat, rollout, archived, history, opencode, devin,
    s1, s2, s3, s4, s5, s6, s7, s8, s9,
    MaxWrites, MaxAborts, MaxPasses, MaxBoth

VARIABLES focus, writes, aborts, passes

mcvars == <<vars, focus, writes, aborts, passes>>

MCAgent ==
    (main :> "claude") @@ (sub :> "claude") @@ (chat :> "cursor") @@ (rollout :> "codex")
    @@ (archived :> "codex") @@ (history :> "gemini")
    @@ (opencode :> "opencode") @@ (devin :> "devin")

MCConv ==
    (main :> {s1}) @@ (sub :> {s2}) @@ (rollout :> {s3}) @@ (archived :> {s3})
    @@ (history :> {s4, s5}) @@ (opencode :> {s6, s7}) @@ (devin :> {s8}) @@ (chat :> {s9})

\* The second claude file is a subagent of the first.
MCParentOf ==
    [s \in {s1, s2, s3, s4, s5, s6, s7, s8, s9} \cup DOMAIN MCAgent |->
        IF s = s2 THEN s1 ELSE None]

MCInit ==
    /\ Init
    /\ focus \in Agents
    /\ writes = 0
    /\ aborts = 0
    /\ passes = 0

Of(agent) == {u \in Units : Agent[u] = agent}

MCNext ==
    \/ /\ writes < MaxWrites /\ writes + passes < MaxBoth
       /\ \/ \E u \in Of(focus) :
                AppendLine(u) \/ BeginLine(u) \/ RewriteFile(u)
                  \/ InsertRow(u) \/ LateRow(u)
          \/ Archive(rollout, archived)
       /\ writes' = writes + 1
       /\ UNCHANGED <<focus, aborts, passes>>
    \/ /\ \E i \in Ingesters : Pass(i)
       /\ UNCHANGED <<focus, writes, aborts, passes>>
    \/ /\ passes < MaxPasses /\ writes + passes < MaxBoth
       /\ \E i \in Ingesters : Start(i) /\ ing'[i].agent = focus
       /\ passes' = passes + 1
       /\ UNCHANGED <<focus, writes, aborts>>
    \/ /\ aborts < MaxAborts
       /\ \E i \in Ingesters : Abort(i)
       /\ aborts' = aborts + 1
       /\ UNCHANGED <<focus, writes, passes>>

Symmetric == Permutations(Ingesters)

MCSpec == MCInit /\ [][MCNext]_mcvars

=============================================================================
