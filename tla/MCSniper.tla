------------------------------ MODULE MCSniper ------------------------------
(* Bounds: reports, test runs, wrapped commands, healings and waits are     *)
(* counted.  A behaviour has one of four mixes of clients.  A history adds  *)
(* what openings do to the outcome of the wrapped command.                  *)
EXTENDS Sniper, TLC

CONSTANTS MaxReports, MaxTests, MaxWraps, MaxHeals, MaxWaits, MaxFlushes, Focus

VARIABLES
    focus, reports, tests, wraps, waits, flushes,
    crowded     \* history: an opening dropped a row of the run, as it should

counts == <<focus, reports, tests, wraps, waits, flushes>>
bounds == <<counts, crowded>>

mcvars == <<vars, bounds>>

MCSurfaceOf ==
    [b1 |-> "browser-window", b2 |-> "browser-window", b3 |-> "http-5xx",
     v1 |-> "vitest", v2 |-> "vitest", exit |-> "run-wrapper",
     TS1 |-> "tsc", TS2 |-> "tsc", summary |-> "tsc"]

\* What the clients of a mix report: errors, events, wrapped commands.
Errors == [since |-> {"b1", "b2", "b3"}, tests |-> {}, runs |-> {"b1"}, crowd |-> {}]
Events == [since |-> {}, tests |-> {}, runs |-> {"run", "hmr-update", "hmr-other"}, crowd |-> {}]
Failures == [since |-> {}, tests |-> {"v1", "v2"}, runs |-> {}, crowd |-> {"v1", "v2"}]
Classes == [since |-> {}, tests |-> {"test"}, runs |-> {"tsc"}, crowd |-> {"test"}]

MCInit ==
    /\ Init
    /\ focus \in Focus
    /\ reports = 0 /\ tests = 0 /\ wraps = 0 /\ waits = 0 /\ flushes = 0
    /\ crowded = FALSE

\* The rows of the run that is wrapped.
ErrorsOfRun == {id \in DOMAIN Sink.errors : Sink.errors[id].run = job["wrap"].run}
EventsOfRun == {id \in DOMAIN Sink.events : Sink.events[id].run = job["wrap"].run}

Above(ids, id) == {other \in ids : other > id}

\* An opening drops what is too old or has as many rows above it as are kept:
\* a failure seen before keeps its old row, and may be among them.
Crowding ==
    /\ crowded' =
         \/ crowded
         \/ \E id \in ErrorsOfRun \ DOMAIN Sink'.errors :
              \/ Cardinality(Above(DOMAIN Sink.errors, id)) >= MaxErrors
              \/ Sink.errors[id].last < clock - ErrorAge
         \/ \E id \in EventsOfRun \ DOMAIN Sink'.events :
              \/ Cardinality(Above(DOMAIN Sink.events, id)) >= MaxEvents
              \/ Sink.events[id].ts < clock - EventAge
    /\ UNCHANGED counts

MCNext ==
    \/ /\ \E c \in Clients : Record(c) \/ Leave(c)
       /\ UNCHANGED bounds
    \/ /\ \E c \in Clients : Open(c)
       /\ Crowding
    \/ /\ Path <= MaxHeals[focus]
       /\ \E c \in Clients : Heal(c)
       /\ UNCHANGED bounds
    \/ /\ reports < MaxReports[focus]
       /\ \/ \E hash \in Errors[focus] : Report(hash, None)
          \/ \E kind \in Events[focus] : Report(None, kind)
       /\ reports' = reports + 1
       /\ UNCHANGED <<crowded, focus, tests, wraps, waits, flushes>>
    \/ /\ flushes < MaxFlushes
       /\ focus = "since"
       /\ Flush
       /\ flushes' = flushes + 1
       /\ UNCHANGED <<crowded, focus, reports, tests, wraps, waits>>
    \/ /\ tests < MaxTests
       /\ focus \in {"tests", "crowd"}
       /\ \E hash \in Failures[focus] \cup {None} : TestsEnd(hash)
       /\ tests' = tests + 1
       /\ UNCHANGED <<crowded, focus, reports, wraps, waits, flushes>>
    \/ /\ wraps < MaxWraps[focus]
       /\ \E class \in Classes[focus] : Wrap(class, wraps + 1)
       /\ wraps' = wraps + 1
       /\ crowded' = FALSE
       /\ UNCHANGED <<focus, reports, tests, waits, flushes>>
    \/ /\ \/ Close \/ Spawn \/ Exit
          \/ \E ok, parsed \in BOOLEAN : ChildExits(ok, parsed)
       /\ UNCHANGED bounds
    \/ /\ focus = "since"
       /\ SinceRows \/ SinceCursor
       /\ UNCHANGED bounds
    \/ /\ focus = "since"
       /\ AgentOpens
       /\ Crowding
    \/ /\ waits < MaxWaits
       /\ focus = "tests"
       /\ \E n \in {EventAge, ErrorAge} : Wait(n)
       /\ waits' = waits + 1
       /\ UNCHANGED <<crowded, focus, reports, tests, wraps, flushes>>

MCSpec == MCInit /\ [][MCNext]_mcvars

MCMaxReports == [since |-> 4, tests |-> 0, runs |-> 3, crowd |-> 0]
MCMaxWraps == [since |-> 0, tests |-> 1, runs |-> 1, crowd |-> 2]
MCMaxHeals == [since |-> 1, tests |-> 1, runs |-> 1, crowd |-> 0]

-----------------------------------------------------------------------------

(***************************************************************************)
(* When sniper run returns, the sink says how the command ended: an event  *)
(* of the run, or an error of it.  Excused is a sink that was made anew    *)
(* meanwhile, and an outcome that the opening of another command dropped:  *)
(* a failure seen before keeps its old row, which goes when as many rows   *)
(* as the sink keeps are newer, and so does what has grown too old.        *)
(***************************************************************************)
OutcomeIsRecorded ==
    job["wrap"].pc = "exit" /\ ~job["wrap"].healed /\ ~crowded =>
        ErrorsOfRun \cup EventsOfRun # {}

=============================================================================
