------------------------------- MODULE Sniper -------------------------------
(***************************************************************************)
(* The error sink (gitpixel-sniper): a database each command opens, reads  *)
(* or writes and leaves.  The vite plugin ships its records through one    *)
(* child process at a time (js/sniper, report.ts), the vitest reporter     *)
(* waits for its child, `sniper run` wraps a command and records how it    *)
(* ended, and the MCP server of an agent keeps its connection.  A command  *)
(* that cannot open the database deletes it and starts a new one, while    *)
(* others go on using the file they have open.                             *)
(***************************************************************************)
EXTENDS Sequences, SniperStore

VARIABLES
    sinks,      \* every database file there was; the last is the one at the path
    clock,
    queue,      \* SinkReporter: envelopes to ship
    counted,    \* SinkReporter: reported, shipped or dropped, resolved to flush
    waiting,    \* SinkReporter: what each pending flush waits for
    job,        \* [Clients -> the command that runs for it]
    agent,      \* the MCP server and what its agent has seen
    signal      \* history: the last test signal recorded, and where

reporter == <<queue, counted, waiting>>
vars == <<sinks, clock, reporter, job, agent, signal>>

Clients == {"vite", "vitest", "wrap"}

Path == Len(sinks)

\* Only the vitest reporter reports tests, and these are the errors of sniper run.
TestErrors == {hash \in Identities : SurfaceOf[hash] = "vitest"}
WrapErrors == {"TS1", "TS2", "summary", "exit"}

ASSUME SniperAssumption ==
    /\ WrapErrors \subseteq Identities \ TestErrors
    /\ None \notin Identities \cup {"run", "test-pass", "build-ok", "green", "red"} \cup HmrKinds

ErrorOf(hash, ts, run) == [type |-> "error", hash |-> hash, kind |-> None, ts |-> ts, run |-> run]
EventOf(kind, ts, run) == [type |-> "event", hash |-> None, kind |-> kind, ts |-> ts, run |-> run]
RunOf(ts, run) == [type |-> "run", hash |-> None, kind |-> None, ts |-> ts, run |-> run]

NoJob == [pc |-> "idle", sink |-> 0, todo |-> <<>>, run |-> None, class |-> None,
          healed |-> FALSE]

NoSignal == [colour |-> None, ts |-> 0, id |-> 0, sink |-> 0]

Init ==
    /\ sinks = <<EmptySink>>
    /\ clock = 0
    /\ queue = <<>>
    /\ counted = [reported |-> 0, shipped |-> 0, resolved |-> 0]
    /\ waiting = {}
    /\ job = [c \in Clients |-> NoJob]
    /\ agent = [pc |-> "closed", sink |-> 0, cursor |-> 0, rows |-> {}, top |-> 0,
                shown |-> {}, passed |-> {}]
    /\ signal = NoSignal

-----------------------------------------------------------------------------
\* A command: opened, its records written one statement at a time.

\* open_at tidies what it opens.
Open(c) ==
    /\ job[c].pc = "open"
    /\ sinks' = [sinks EXCEPT ![Path] = Retain(@, clock)]
    /\ job' = [job EXCEPT ![c].pc = IF job[c].class = None THEN "record" ELSE "spawn",
                          ![c].sink = Path]
    /\ UNCHANGED <<clock, reporter, agent, signal>>

\* The database could not be opened, for whatever reason: a new one.
Heal(c) ==
    /\ job[c].pc = "open"
    /\ sinks' = Append(sinks, EmptySink)
    /\ job' = [d \in Clients |->
                [job[d] EXCEPT !.healed = TRUE,
                               !.pc = IF d # c THEN @
                                      ELSE IF job[c].class = None THEN "record" ELSE "spawn",
                               !.sink = IF d = c THEN Path + 1 ELSE @]]
    /\ UNCHANGED <<clock, reporter, agent, signal>>

Recorded(sink, e, ts) ==
    CASE e.type = "error" -> RecordError(sink, e.hash, ts, e.run)
      [] e.type = "event" -> RecordEvent(sink, e.kind, ts, e.run)
      [] e.type = "run" -> RecordRun(sink, e.run, ts)

\* The colour of a test signal; a wrapped test that fails gives one too.
Colour(c, e) ==
    IF e.kind = "test-pass" THEN "green"
    ELSE IF e.type # "error" THEN None
    ELSE IF SurfaceOf[e.hash] = "vitest" \/ (c = "wrap" /\ job[c].class = "test") THEN "red"
    ELSE None

\* sniper report takes the time of the envelope, sniper run the time it is.
Record(c) ==
    LET e == Head(job[c].todo)
        ts == IF c = "wrap" THEN clock + 1 ELSE e.ts
        old == sinks[job[c].sink]
        new == Recorded(old, e, ts)
        id == IF e.type = "event" THEN new.lastEvent
              ELSE IF e.type = "error" THEN CHOOSE id \in RowOf(new, e.hash) : TRUE ELSE 0
    IN  /\ job[c].pc = "record"
        /\ job[c].todo # <<>>
        /\ sinks' = [sinks EXCEPT ![job[c].sink] = new]
        /\ clock' = IF c = "wrap" THEN clock + 1 ELSE clock
        /\ job' = [job EXCEPT ![c].todo = Tail(@)]
        /\ signal' = IF Colour(c, e) # None /\ ts > signal.ts
                     THEN [colour |-> Colour(c, e), ts |-> ts, id |-> id, sink |-> job[c].sink]
                     ELSE signal
        /\ UNCHANGED <<reporter, agent>>

-----------------------------------------------------------------------------
\* SinkReporter of the vite plugin.

Child(e) == [NoJob EXCEPT !.pc = "open", !.todo = <<e>>]

\* Mutant: what came last is shipped first.
PopLast ==
    /\ job' = [job EXCEPT !["vite"] = Child(queue[Len(queue)])]
    /\ queue' = SubSeq(queue, 1, Len(queue) - 1)

Pop ==
    /\ job' = [job EXCEPT !["vite"] = Child(Head(queue))]
    /\ queue' = Tail(queue)

\* report starts to drain when nothing else does.
Report(hash, kind) ==
    LET e == IF hash # None THEN ErrorOf(hash, clock + 1, 0)
             ELSE IF kind = "run" THEN RunOf(clock + 1, 0) ELSE EventOf(kind, clock + 1, 0)
        draining == job["vite"].pc # "idle"
    IN  /\ clock' = clock + 1
        /\ counted' = [counted EXCEPT !.reported = @ + 1]
        /\ queue' = IF draining THEN Append(queue, e) ELSE queue
        /\ job' = IF draining THEN job ELSE [job EXCEPT !["vite"] = Child(e)]
        /\ UNCHANGED <<sinks, waiting, agent, signal>>

Flush ==
    LET done == job["vite"].pc = "idle"
    IN  /\ waiting' = IF done THEN waiting ELSE waiting \cup {counted.reported}
        /\ counted' = IF done THEN [counted EXCEPT !.resolved = counted.reported] ELSE counted
        /\ UNCHANGED <<sinks, clock, queue, job, agent, signal>>

\* The child is over, its record written or not: the next, or the flushes.
Close ==
    /\ job["vite"].pc # "idle"
    /\ IF queue = <<>>
       THEN /\ job' = [job EXCEPT !["vite"] = NoJob]
            /\ UNCHANGED queue
       ELSE Pop
    /\ counted' = [counted EXCEPT !.shipped = @ + 1,
                                  !.resolved = IF queue = <<>> THEN Max(waiting \cup {@}) ELSE @]
    /\ waiting' = IF queue = <<>> THEN {} ELSE waiting
    /\ UNCHANGED <<sinks, clock, agent, signal>>

-----------------------------------------------------------------------------
\* The vitest reporter: one record for a run of the tests.

TestsEnd(hash) ==
    /\ job["vitest"].pc = "idle"
    /\ clock' = clock + 1
    /\ job' = [job EXCEPT !["vitest"] =
                Child(IF hash # None THEN ErrorOf(hash, clock + 1, None)
                      ELSE EventOf("test-pass", clock + 1, None))]
    /\ UNCHANGED <<sinks, reporter, agent, signal>>

\* The child of the reporter, or the wrapper, is over.
Leave(c) ==
    /\ c # "vite"
    /\ job[c].pc \in {"open", "record", "spawn", "running"}
    /\ job[c].pc = "record" => job[c].todo = <<>>
    /\ job' = [job EXCEPT ![c] = IF job[c].pc = "record" /\ c = "wrap"
                                 THEN [@ EXCEPT !.pc = "exit"] ELSE NoJob]
    /\ UNCHANGED <<sinks, clock, reporter, agent, signal>>

-----------------------------------------------------------------------------
\* sniper run: run_wrapped.

Wrap(class, run) ==
    /\ job["wrap"].pc = "idle"
    /\ job' = [job EXCEPT !["wrap"] =
                [NoJob EXCEPT !.pc = "open", !.class = class, !.run = run]]
    /\ UNCHANGED <<sinks, clock, reporter, agent, signal>>

Spawn ==
    LET wrap == job["wrap"]
    IN  /\ wrap.pc = "spawn"
        /\ clock' = clock + 1
        /\ sinks' = [sinks EXCEPT ![wrap.sink] = RecordRun(@, wrap.run, clock + 1)]
        /\ job' = [job EXCEPT !["wrap"].pc = "running"]
        /\ UNCHANGED <<reporter, agent, signal>>

\* Diagnostics: [kind of the error -> identity], a record each and a summary.
Diagnostics(run) == <<ErrorOf("TS1", 0, run), ErrorOf("TS2", 0, run), ErrorOf("summary", 0, run)>>

\* Mutant: a compiler that fails without diagnostics leaves nothing.
OutcomeParsed(class, run, ok, parsed) ==
    IF ok THEN <<EventOf(IF class = "test" THEN "test-pass" ELSE "build-ok", 0, run)>>
    ELSE IF class = "tsc" THEN (IF parsed THEN Diagnostics(run) ELSE <<>>)
    ELSE <<ErrorOf("exit", 0, run)>>

Outcome(class, run, ok, parsed) ==
    IF ok THEN <<EventOf(IF class = "test" THEN "test-pass" ELSE "build-ok", 0, run)>>
    ELSE IF class = "tsc" /\ parsed THEN Diagnostics(run)
    ELSE <<ErrorOf("exit", 0, run)>>

ChildExits(ok, parsed) ==
    LET wrap == job["wrap"]
    IN  /\ wrap.pc = "running"
        /\ job' = [job EXCEPT !["wrap"].pc = "record",
                              !["wrap"].todo = Outcome(wrap.class, wrap.run, ok, parsed)]
        /\ UNCHANGED <<sinks, clock, reporter, agent, signal>>

\* The caller has the exit code.
Exit ==
    /\ job["wrap"].pc = "exit"
    /\ job' = [job EXCEPT !["wrap"] = NoJob]
    /\ UNCHANGED <<sinks, clock, reporter, agent, signal>>

-----------------------------------------------------------------------------
\* The MCP server: its agent asks errors_since with the cursor of the last answer.

AgentOpens ==
    /\ agent.pc = "closed"
    /\ sinks' = [sinks EXCEPT ![Path] = Retain(@, clock)]
    /\ agent' = [agent EXCEPT !.pc = "ready", !.sink = Path]
    /\ UNCHANGED <<clock, reporter, job, signal>>

\* Two statements; history: the highest id at the first.
SinceRows ==
    LET sink == sinks[agent.sink]
        rows == ErrorsSince(sink, agent.cursor)
    IN  /\ agent.pc = "ready"
        /\ agent' = [agent EXCEPT !.pc = "rows", !.rows = rows, !.top = MaxCursor(sink)]
        /\ UNCHANGED <<sinks, clock, reporter, job, signal>>

\* history: rows the cursor passes that were beyond the limit, or came between.
SinceCursor ==
    LET cursor == MaxCursor(sinks[agent.sink])
        full == Cardinality(agent.rows) = SinceLimit
        beyond == {id \in 1..cursor : id > agent.top \/ (full /\ id > Max(agent.rows))}
    IN  /\ agent.pc = "rows"
        /\ agent' = [agent EXCEPT !.pc = "ready", !.cursor = cursor, !.rows = {}, !.top = 0,
                                  !.shown = @ \cup agent.rows,
                                  !.passed = @ \cup beyond]
        /\ UNCHANGED <<sinks, clock, reporter, job, signal>>

-----------------------------------------------------------------------------

\* Days pass, which only what sniper run wraps may take.
Wait(n) ==
    /\ \A c \in Clients : job[c].pc \in {"idle", "running"}
    /\ clock' = clock + n
    /\ UNCHANGED <<sinks, reporter, job, agent, signal>>

Command(c) == Open(c) \/ Heal(c) \/ Record(c) \/ Leave(c)

Next ==
    \/ \E c \in Clients : Command(c)
    \/ \E hash \in Identities \ (TestErrors \cup WrapErrors) : Report(hash, None)
    \/ \E hash \in TestErrors \cup {None} : TestsEnd(hash)
    \/ \E kind \in HmrKinds \cup {"run"} : Report(None, kind)
    \/ Flush \/ Close
    \/ \E class \in {"test", "tsc", "build"}, run \in Nat : Wrap(class, run)
    \/ Spawn \/ Exit
    \/ \E ok, parsed \in BOOLEAN : ChildExits(ok, parsed)
    \/ AgentOpens \/ SinceRows \/ SinceCursor
    \/ \E n \in Nat : Wait(n)

Spec == Init /\ [][Next]_vars

-----------------------------------------------------------------------------
(* Properties. *)

Sink == sinks[Path]

(***************************************************************************)
(* One row for an identity, under an id that was given out; a row counts   *)
(* at least one report; and who has opened the sink uses a file that was.  *)
(***************************************************************************)
TypeOK ==
    /\ \A n \in DOMAIN sinks :
         /\ \A a, b \in DOMAIN sinks[n].errors :
              sinks[n].errors[a].hash = sinks[n].errors[b].hash => a = b
         /\ DOMAIN sinks[n].errors \subseteq 1..sinks[n].lastError
         /\ DOMAIN sinks[n].events \subseteq 1..sinks[n].lastEvent
         /\ \A id \in DOMAIN sinks[n].errors : sinks[n].errors[id].count >= 1
    /\ \A c \in Clients : job[c].pc \in {"idle", "open"} \/ job[c].sink \in DOMAIN sinks

(***************************************************************************)
(* An agent that asks errors_since with the cursor of its last answer has  *)
(* been shown every error at or below it.  Excused are the rows beyond the *)
(* 200 of a full answer and those recorded between its two statements,     *)
(* which the cursor passes.                                                *)
(***************************************************************************)
SinceMissesNothing ==
    agent.pc = "ready" =>
        \A id \in DOMAIN sinks[agent.sink].errors :
            id <= agent.cursor => id \in agent.shown \cup agent.passed

(***************************************************************************)
(* flush "resolves once everything enqueued so far has been shipped (or    *)
(* dropped)" (report.ts:193), and no flush waits while nothing is shipped. *)
(***************************************************************************)
FlushIsHonest ==
    /\ counted.resolved <= counted.shipped
    /\ job["vite"].pc = "idle" => waiting = {} /\ queue = <<>>

(***************************************************************************)
(* "Strictly ordered" (report.ts:177): the lifecycle of the server is in   *)
(* the sink in the order it happened.                                      *)
(***************************************************************************)
ReportsInOrder ==
    \A n \in DOMAIN sinks : \A a, b \in DOMAIN sinks[n].events :
        /\ sinks[n].events[a].kind \in HmrKinds
        /\ sinks[n].events[b].kind \in HmrKinds
        /\ a < b
        => sinks[n].events[a].ts < sinks[n].events[b].ts

(***************************************************************************)
(* What the vite plugin reports arrives: in order, and before the flush    *)
(* that was asked for after it ends.                                       *)
(***************************************************************************)
ReportsArrive == FlushIsHonest /\ ReportsInOrder

\* The row of the last signal is the one test_status finds.
Found ==
    IF signal.colour = "green"
    THEN signal.id \in LatestEventByKind(Sink, "test-pass")
    ELSE signal.id \in LatestErrorBySurface(Sink, "vitest")

(***************************************************************************)
(* "true = last signal green, false = last signal red" (query.rs:53).      *)
(* Excused is a last signal whose row is not the highest of its kind: a    *)
(* failure seen before keeps its old row, a wrapped test that fails is no  *)
(* vitest error, a pass goes after three days and a failure after seven.   *)
(***************************************************************************)
TestStatusIsLastSignal ==
    signal.sink = Path /\ Found => TestStatus(Sink) = signal.colour

(***************************************************************************)
(* "The run the error belongs to (or the latest run)" (query.rs:27): an    *)
(* error is shown with another run only when its run is not recorded here, *)
(* or is not one of the two that started last.                             *)
(***************************************************************************)
ShowsItsRun ==
    \A id \in DOMAIN Sink.errors :
        LET own == Sink.errors[id].run
            later == {r \in DOMAIN Sink.runs : Sink.runs[r] > Sink.runs[own]}
        IN  own \in DOMAIN Sink.runs /\ Cardinality(later) < 2 => ShowRun(Sink, id) = own

(***************************************************************************)
(* "Was my edit applied?" (query.rs:114): hmr names the latest update of   *)
(* the file or reload, unless as many other events as it shows came after. *)
(***************************************************************************)
HmrNamesTheUpdate ==
    LET updates == {id \in DOMAIN Sink.events :
                        Sink.events[id].kind \in {"hmr-update", "full-reload"}}
        After(id) == {e \in DOMAIN Sink.events : e > id /\ Sink.events[e].kind \in HmrKinds}
    IN  updates # {} =>
            \/ Hmr(Sink) = Max(updates)
            \/ Cardinality({e \in After(Max(updates)) : Sink.events[e].kind # "hmr-other"}) >= HmrShow
            \/ Cardinality(After(Max(updates))) >= HmrFetch

(***************************************************************************)
(* What the queries say of the last signal, of the run of an error and of  *)
(* the last update of the dev server is what happened, though rows keep    *)
(* their ids when they repeat, are cut by limits and go with age.          *)
(***************************************************************************)
AnswersAreTrue == TestStatusIsLastSignal /\ ShowsItsRun /\ HmrNamesTheUpdate

=============================================================================
