---------------------------- MODULE SniperProofs ----------------------------
(***************************************************************************)
(* Four results about Sniper, for every store, every limit and any number  *)
(* of reports: its types, that errors_since misses nothing, that what the  *)
(* vite plugin reports arrives in order and before its flush, and that the *)
(* other questions are answered truly.                                     *)
(*                                                                         *)
(* The second rests on row ids: whatever is done to a file, a row that     *)
(* appears in it has an id beyond every id it gave out, so the cursor of   *)
(* an agent cannot have passed it.  What the answer of 200 rows leaves out *)
(* is beyond the highest of them, which takes an argument about finite     *)
(* sets of numbers.  The third follows one report from the queue through   *)
(* the child to the row, its time before that of all that wait behind it.  *)
(* The last keeps the row of the last test signal and its time apart from  *)
(* what the others may still record, and the starts of runs distinct.      *)
(***************************************************************************)
EXTENDS Sniper, SetsOfNumbers, FiniteSetTheorems, TLAPS

----------------------------------------------------------------------------
(* The types the arguments need.                                           *)

Runs == Nat \cup {None}

Envelopes ==
    [type : {"error", "event", "run"},
     hash : Identities \cup {None, "TS1", "TS2", "summary", "exit"},
     kind : HmrKinds \cup {None, "run", "test-pass", "build-ok"},
     ts : Nat,
     run : Runs]

Jobs ==
    [pc : {"idle", "open", "record", "spawn", "running", "exit"},
     sink : Nat,
     todo : Seq(Envelopes),
     run : Runs,
     class : {"test", "tsc", "build", None},
     healed : BOOLEAN]

\* A file of rows under ids it gave out.
Filed(sink) ==
    /\ DOMAIN sink = {"errors", "lastError", "events", "lastEvent", "runs"}
    /\ sink.lastError \in Nat /\ sink.lastEvent \in Nat
    /\ DOMAIN sink.errors \subseteq 1..sink.lastError
    /\ DOMAIN sink.events \subseteq 1..sink.lastEvent

Values(s) == {s[n] : n \in 1..Len(s)}

SinksInv ==
    /\ Path \in Nat \ {0}
    /\ sinks \in Seq(Values(sinks))
    /\ \A n \in 1..Path : Filed(sinks[n])

\* A command that has opened a file.
Using == {"record", "spawn", "running", "exit"}

TypeInv ==
    /\ SinksInv
    /\ clock \in Nat
    /\ queue \in Seq(Envelopes)
    /\ job \in [Clients -> Jobs]
    /\ \A c \in Clients : job[c].pc \in Using => job[c].sink \in 1..Path

----------------------------------------------------------------------------
(* What the statements do to a file.                                       *)

\* Rows that appear have ids the file has not given out before.
Grew(old, new) ==
    /\ Filed(new)
    /\ new.lastError >= old.lastError
    /\ new.lastEvent >= old.lastEvent
    /\ \A id \in DOMAIN new.errors : id \in DOMAIN old.errors \/ id > old.lastError
    /\ \A id \in DOMAIN new.events : id \in DOMAIN old.events \/ id > old.lastEvent

\* No event appears, and those that stay are as they were.
SameEvents(old, new) ==
    \A id \in DOMAIN new.events :
        id \in DOMAIN old.events /\ new.events[id] = old.events[id]

LEMMA EmptyFiled == Filed(EmptySink)
BY DEF Filed, EmptySink

LEMMA GrewItself ==
    ASSUME NEW s, Filed(s)
    PROVE  Grew(s, s) /\ SameEvents(s, s)
BY DEF Grew, SameEvents, Filed

LEMMA RecordErrorGrows ==
    ASSUME NEW s, Filed(s), NEW hash, NEW ts, NEW run
    PROVE  /\ Grew(s, RecordError(s, hash, ts, run))
           /\ SameEvents(s, RecordError(s, hash, ts, run))
<1> DEFINE id == IF RowOf(s, hash) = {} THEN s.lastError + 1
                 ELSE CHOOSE i \in RowOf(s, hash) : TRUE
<1>1. \/ id = s.lastError + 1
      \/ id \in DOMAIN s.errors
  BY DEF RowOf
<1>2. id \in Nat
  BY <1>1 DEF Filed
<1>3. PICK row :
        RecordError(s, hash, ts, run) =
          [s EXCEPT !.errors = Put(@, id, row), !.lastError = Max({@, id})]
  BY Zenon DEF RecordError
<1>4. Max({s.lastError, id}) = IF s.lastError >= id THEN s.lastError ELSE id
  BY <1>2, MaxOfTwo DEF Filed
<1> HIDE DEF id
<1> DEFINE new == [s EXCEPT !.errors = Put(@, id, row),
                            !.lastError = Max({@, id})]
<1>5. /\ DOMAIN new = DOMAIN s
      /\ new.lastError = IF s.lastError >= id THEN s.lastError ELSE id
      /\ DOMAIN new.errors = DOMAIN s.errors \cup {id}
      /\ new.events = s.events /\ new.lastEvent = s.lastEvent
  BY <1>4 DEF Filed, Put
<1> HIDE DEF new
<1>6. RecordError(s, hash, ts, run) = new
  BY <1>3 DEF new
<1>7. SameEvents(s, new)
  BY <1>5 DEF SameEvents
<1>8. Grew(s, new)
  BY <1>1, <1>2, <1>5 DEF Grew, Filed
<1> QED BY <1>6, <1>7, <1>8

LEMMA RecordEventGrows ==
    ASSUME NEW s, Filed(s), NEW kind, NEW ts, NEW run
    PROVE  LET new == RecordEvent(s, kind, ts, run)
           IN  /\ Grew(s, new)
               /\ new.lastEvent = s.lastEvent + 1
               /\ DOMAIN new.events = DOMAIN s.events \cup {s.lastEvent + 1}
               /\ new.events[s.lastEvent + 1] = [kind |-> kind, ts |-> ts, run |-> run]
               /\ \A id \in DOMAIN s.events : new.events[id] = s.events[id]
<1> DEFINE new == RecordEvent(s, kind, ts, run)
<1>1. /\ DOMAIN new = DOMAIN s
      /\ new.lastError = s.lastError /\ new.errors = s.errors
      /\ new.lastEvent = s.lastEvent + 1
      /\ new.events = Put(s.events, s.lastEvent + 1,
                          [kind |-> kind, ts |-> ts, run |-> run])
  BY DEF RecordEvent, Filed
<1> HIDE DEF new
<1>2. DOMAIN new.events = DOMAIN s.events \cup {s.lastEvent + 1}
  BY <1>1 DEF Put
<1>3. /\ new.events[s.lastEvent + 1] = [kind |-> kind, ts |-> ts, run |-> run]
      /\ \A id \in DOMAIN s.events : new.events[id] = s.events[id]
  BY <1>1 DEF Put, Filed
<1>4. Grew(s, new)
  BY <1>1, <1>2 DEF Grew, Filed
<1> QED BY <1>1, <1>2, <1>3, <1>4 DEF new

LEMMA RecordRunGrows ==
    ASSUME NEW s, Filed(s), NEW run, NEW ts
    PROVE  /\ Grew(s, RecordRun(s, run, ts))
           /\ SameEvents(s, RecordRun(s, run, ts))
BY DEF RecordRun, Grew, SameEvents, Filed

LEMMA RetainGrows ==
    ASSUME NEW s, Filed(s), NEW now
    PROVE  /\ Grew(s, Retain(s, now))
           /\ SameEvents(s, Retain(s, now))
<1>1. PICK errors, events :
        Retain(s, now) = [s EXCEPT !.errors = Keep(@, errors),
                                   !.events = Keep(@, events)]
  BY Zenon DEF Retain
<1> DEFINE new == [s EXCEPT !.errors = Keep(@, errors),
                            !.events = Keep(@, events)]
<1>2. /\ DOMAIN new = DOMAIN s
      /\ new.lastError = s.lastError /\ new.lastEvent = s.lastEvent
      /\ new.errors = Keep(s.errors, errors)
      /\ new.events = Keep(s.events, events)
  BY DEF Filed
<1> HIDE DEF new
<1>3. Grew(s, new) /\ SameEvents(s, new)
  BY <1>2 DEF Grew, SameEvents, Filed, Keep
<1> QED BY <1>1, <1>3 DEF new

----------------------------------------------------------------------------
(* Steps on the files.                                                     *)

\* Files stay, and grow.
Kept ==
    /\ Path' >= Path
    /\ SinksInv'
    /\ \A n \in 1..Path : Grew(sinks[n], sinks'[n])

\* An event that is there was there.
NoNewEvent ==
    \A n \in 1..Path' : \A id \in DOMAIN sinks'[n].events :
        /\ n \in 1..Path
        /\ id \in DOMAIN sinks[n].events
        /\ sinks'[n].events[id] = sinks[n].events[id]

LEMMA OwnValues ==
    ASSUME NEW S, NEW s \in Seq(S)
    PROVE  s \in Seq(Values(s))
BY DEF Values

LEMMA SinkUnchanged ==
    ASSUME SinksInv, UNCHANGED sinks
    PROVE  Kept /\ NoNewEvent
<1>1. Path' = Path
  BY DEF Path
<1>2. SinksInv'
  BY <1>1 DEF SinksInv
<1> QED BY <1>1, <1>2, GrewItself DEF Kept, NoNewEvent, SinksInv

LEMMA SinkChanged ==
    ASSUME SinksInv, NEW i \in 1..Path, NEW x, Grew(sinks[i], x),
           sinks' = [sinks EXCEPT ![i] = x]
    PROVE  Kept /\ (SameEvents(sinks[i], x) => NoNewEvent)
<1> DEFINE S == Values(sinks)
<1>1. sinks \in Seq(S \cup {x}) /\ Path = Len(sinks)
  BY DEF SinksInv, Path
<1>2. sinks' \in Seq(S \cup {x}) /\ Len(sinks') = Len(sinks)
  BY <1>1
<1>3. Path' = Path
  BY <1>2 DEF Path
<1>4. sinks'[i] = x /\ \A n \in 1..Path : n # i => sinks'[n] = sinks[n]
  BY <1>1
<1>5. \A n \in 1..Path : Grew(sinks[n], sinks'[n])
  BY <1>4, GrewItself DEF SinksInv
<1>6. \A n \in 1..Path : Filed(sinks'[n])
  BY <1>5 DEF Grew
<1>7. sinks' \in Seq(Values(sinks'))
  BY <1>2, OwnValues
<1>8. SinksInv'
  BY <1>3, <1>6, <1>7 DEF SinksInv
<1>9. ASSUME SameEvents(sinks[i], x)
      PROVE  NoNewEvent
  BY <1>3, <1>4, <1>9 DEF NoNewEvent, SameEvents
<1> QED BY <1>3, <1>5, <1>8, <1>9 DEF Kept, SinksInv

LEMMA SinkAdded ==
    ASSUME SinksInv, sinks' = Append(sinks, EmptySink)
    PROVE  Kept /\ NoNewEvent /\ Path' = Path + 1
<1> DEFINE S == Values(sinks)
<1>1. sinks \in Seq(S \cup {EmptySink}) /\ Path = Len(sinks) /\ Path \in Nat
  BY DEF SinksInv, Path
<1>2. /\ sinks' \in Seq(S \cup {EmptySink})
      /\ Len(sinks') = Len(sinks) + 1
      /\ sinks'[Len(sinks) + 1] = EmptySink
      /\ \A n \in 1..Len(sinks) : sinks'[n] = sinks[n]
  BY <1>1
<1>3. Path' = Path + 1
  BY <1>1, <1>2 DEF Path
<1>4. \A n \in 1..Path' : n \in 1..Path \/ n = Path + 1
  BY <1>1, <1>3
<1>5. \A n \in 1..Path : Grew(sinks[n], sinks'[n])
  BY <1>1, <1>2, GrewItself DEF SinksInv
<1>6. \A n \in 1..Path' : Filed(sinks'[n])
  BY <1>1, <1>2, <1>4, <1>5, EmptyFiled DEF Grew
<1>7. sinks' \in Seq(Values(sinks'))
  BY <1>2, OwnValues
<1>8. SinksInv'
  BY <1>1, <1>3, <1>6, <1>7 DEF SinksInv
<1>9. DOMAIN EmptySink.events = {}
  BY DEF EmptySink
<1>10. NoNewEvent
  BY <1>1, <1>2, <1>4, <1>9 DEF NoNewEvent
<1> QED BY <1>1, <1>3, <1>5, <1>8, <1>10 DEF Kept

----------------------------------------------------------------------------
(* Steps.                                                                  *)

LEMMA TypeInit == Init => TypeInv
<1> SUFFICES ASSUME Init PROVE TypeInv
  OBVIOUS
<1>1. Path = 1 /\ sinks[1] = EmptySink /\ sinks \in Seq({EmptySink})
  BY DEF Init, Path
<1>2. SinksInv
  BY <1>1, EmptyFiled, OwnValues DEF SinksInv
<1>3. job \in [Clients -> Jobs] /\ \A c \in Clients : job[c].pc = "idle"
  BY DEF Init, NoJob, Jobs, Runs
<1> QED BY <1>2, <1>3 DEF Init, TypeInv, Using

\* A job of one record, which has no file yet.
LEMMA ChildTyped ==
    ASSUME NEW e \in Envelopes
    PROVE  Child(e) \in Jobs /\ Child(e).pc = "open"
<1>1. <<e>> \in Seq(Envelopes)
  OBVIOUS
<1> QED BY <1>1 DEF Child, NoJob, Jobs, Runs

LEMMA MadeTyped ==
    ASSUME NEW ts \in Nat, NEW run \in Runs
    PROVE  /\ \A hash \in Identities \cup {"TS1", "TS2", "summary", "exit"} :
                ErrorOf(hash, ts, run) \in Envelopes
           /\ \A kind \in HmrKinds \cup {None, "test-pass", "build-ok"} :
                EventOf(kind, ts, run) \in Envelopes
           /\ RunOf(ts, run) \in Envelopes
BY DEF ErrorOf, EventOf, RunOf, Envelopes

\* The outcome of a command is of its errors, or is an event that is none of
\* the dev server's.
LEMMA OutcomeTyped ==
    ASSUME NEW class, NEW run \in Runs, NEW ok, NEW parsed
    PROVE  /\ Outcome(class, run, ok, parsed) \in Seq(Envelopes)
           /\ \A i \in 1..Len(Outcome(class, run, ok, parsed)) :
                Outcome(class, run, ok, parsed)[i].kind \notin HmrKinds
                \/ Outcome(class, run, ok, parsed)[i].type # "event"
<1> USE MadeTyped
<1>1. ASSUME NEW e \in Envelopes, e.type # "event" \/ e.kind \notin HmrKinds
      PROVE  /\ <<e>> \in Seq(Envelopes)
             /\ Len(<<e>>) = 1
             /\ <<e>>[1] = e
  OBVIOUS
<1>2. CASE ok
  <2>1. \E kind \in {"test-pass", "build-ok"} :
          Outcome(class, run, ok, parsed) = <<EventOf(kind, 0, run)>>
    BY <1>2 DEF Outcome
  <2>2. \A kind \in {"test-pass", "build-ok"} :
          /\ EventOf(kind, 0, run) \in Envelopes
          /\ EventOf(kind, 0, run).kind \notin HmrKinds
    BY DEF EventOf, HmrKinds
  <2> QED BY <2>1, <2>2
<1>3. CASE ~ok /\ class = "tsc" /\ parsed
  <2>1. Outcome(class, run, ok, parsed) =
          <<ErrorOf("TS1", 0, run), ErrorOf("TS2", 0, run), ErrorOf("summary", 0, run)>>
    BY <1>3 DEF Outcome, Diagnostics
  <2>2. \A hash \in {"TS1", "TS2", "summary"} :
          ErrorOf(hash, 0, run) \in Envelopes /\ ErrorOf(hash, 0, run).type = "error"
    BY DEF ErrorOf
  <2> QED BY <2>1, <2>2
<1>4. CASE ~ok /\ ~(class = "tsc" /\ parsed)
  <2>1. Outcome(class, run, ok, parsed) = <<ErrorOf("exit", 0, run)>>
    BY <1>4 DEF Outcome
  <2>2. ErrorOf("exit", 0, run) \in Envelopes /\ ErrorOf("exit", 0, run).type = "error"
    BY DEF ErrorOf
  <2> QED BY <2>1, <2>2
<1> QED BY <1>2, <1>3, <1>4

\* The front of what a command has to record.
LEMMA HeadTyped ==
    ASSUME TypeInv, NEW c \in Clients, job[c].todo # <<>>
    PROVE  /\ Head(job[c].todo) \in Envelopes
           /\ Tail(job[c].todo) \in Seq(Envelopes)
<1>1. job[c].todo \in Seq(Envelopes)
  BY DEF TypeInv, Jobs
<1> QED BY <1>1

\* One row of one file changes; an event appears only for an event.
LEMMA RecordFiles ==
    ASSUME TypeInv, NEW c \in Clients, Record(c)
    PROVE  Kept /\ (Head(job[c].todo).type # "event" => NoNewEvent)
<1> DEFINE e == Head(job[c].todo)
           ts == IF c = "wrap" THEN clock + 1 ELSE e.ts
           i == job[c].sink
<1>1. /\ job[c].pc = "record"
      /\ job[c].todo # <<>>
      /\ sinks' = [sinks EXCEPT ![i] = Recorded(sinks[i], e, ts)]
  BY Zenon DEF Record
<1>2. i \in 1..Path /\ Filed(sinks[i])
  BY <1>1 DEF TypeInv, Using, SinksInv
<1>3. e.type \in {"error", "event", "run"}
  BY <1>1, HeadTyped DEF Envelopes
<1> HIDE DEF e, ts, i
<1>4. /\ Grew(sinks[i], Recorded(sinks[i], e, ts))
      /\ e.type # "event" => SameEvents(sinks[i], Recorded(sinks[i], e, ts))
  <2>1. CASE e.type = "error"
    BY <1>2, <2>1, RecordErrorGrows DEF Recorded
  <2>2. CASE e.type = "event"
    BY <1>2, <2>2, RecordEventGrows DEF Recorded
  <2>3. CASE e.type = "run"
    BY <1>2, <2>3, RecordRunGrows DEF Recorded
  <2> QED BY <1>3, <2>1, <2>2, <2>3
<1> QED BY <1>1, <1>2, <1>4, SinkChanged DEF e, TypeInv

LEMMA SpawnFiles ==
    ASSUME TypeInv, Spawn
    PROVE  Kept /\ NoNewEvent
<1> DEFINE i == job["wrap"].sink
           x == RecordRun(sinks[i], job["wrap"].run, clock + 1)
<1>1. job["wrap"].pc = "spawn" /\ sinks' = [sinks EXCEPT ![i] = x]
  BY Zenon DEF Spawn
<1>2. i \in 1..Path /\ Filed(sinks[i])
  BY <1>1 DEF TypeInv, Using, SinksInv, Clients
<1>3. Grew(sinks[i], x) /\ SameEvents(sinks[i], x)
  BY <1>2, RecordRunGrows
<1> HIDE DEF i, x
<1> QED BY <1>1, <1>2, <1>3, SinkChanged DEF TypeInv

LEMMA TidyFiles ==
    ASSUME TypeInv, sinks' = [sinks EXCEPT ![Path] = Retain(@, clock)]
    PROVE  Kept /\ NoNewEvent /\ Path' = Path
<1>1. Path \in 1..Path /\ Filed(sinks[Path])
  BY DEF TypeInv, SinksInv
<1>2. /\ Grew(sinks[Path], Retain(sinks[Path], clock))
      /\ SameEvents(sinks[Path], Retain(sinks[Path], clock))
  BY <1>1, RetainGrows
<1>3. Path' = Path
  BY DEF Path, TypeInv, SinksInv
<1> QED BY <1>1, <1>2, <1>3, SinkChanged DEF TypeInv

\* Next, by what is done to the files: they are tidied, made anew, written,
\* or left alone.
LEMMA FileSteps ==
    ASSUME TypeInv, [Next]_vars
    PROVE  /\ Kept
           /\ \/ NoNewEvent
              \/ \E c \in Clients : Record(c) /\ Head(job[c].todo).type = "event"
<1>1. ASSUME NEW c \in Clients, Open(c) \/ AgentOpens
      PROVE  Kept /\ NoNewEvent
  BY <1>1, TidyFiles DEF Open, AgentOpens
<1>2. ASSUME NEW c \in Clients, Heal(c)
      PROVE  Kept /\ NoNewEvent
  BY <1>2, SinkAdded DEF Heal, TypeInv
<1>3. CASE UNCHANGED sinks
  BY <1>3, SinkUnchanged DEF TypeInv
<1>4. ASSUME NEW c \in Clients, Leave(c)
      PROVE  UNCHANGED sinks
  BY <1>4 DEF Leave
<1>5. ASSUME NEW hash, NEW kind, Report(hash, kind) \/ TestsEnd(hash)
      PROVE  UNCHANGED sinks
  BY <1>5 DEF Report, TestsEnd
<1>6. ASSUME Flush \/ Close \/ Exit \/ SinceRows \/ SinceCursor \/ UNCHANGED vars
      PROVE  UNCHANGED sinks
  BY <1>6 DEF Flush, Close, Exit, SinceRows, SinceCursor, vars
<1>7. ASSUME NEW class, NEW run, NEW ok, NEW parsed, NEW n,
             Wrap(class, run) \/ ChildExits(ok, parsed) \/ Wait(n)
      PROVE  UNCHANGED sinks
  BY <1>7 DEF Wrap, ChildExits, Wait
<1> QED BY <1>1, <1>2, <1>3, <1>4, <1>5, <1>6, <1>7, RecordFiles, SpawnFiles
        DEF Next, Command, Clients, TestErrors

\* A command gives way to another state of it.
LEMMA JobChanged ==
    ASSUME TypeInv, Kept, NEW c \in Clients, NEW x \in Jobs,
           x.pc \in Using => x.sink \in 1..Path',
           job' = [job EXCEPT ![c] = x]
    PROVE  /\ job' \in [Clients -> Jobs]
           /\ \A d \in Clients : job'[d].pc \in Using => job'[d].sink \in 1..Path'
<1>1. \A d \in Clients : job'[d] = IF d = c THEN x ELSE job[d]
  BY DEF TypeInv
<1>2. Path \in Nat /\ Path' \in Nat /\ Path' >= Path
  BY DEF TypeInv, SinksInv, Kept
<1>3. job' \in [Clients -> Jobs]
  BY DEF TypeInv
<1>4. ASSUME NEW d \in Clients, job'[d].pc \in Using
      PROVE  job'[d].sink \in 1..Path'
  <2>1. CASE d = c
    BY <1>1, <1>4, <2>1
  <2>2. CASE d # c
    <3>1. job[d].sink \in 1..Path
      BY <1>1, <1>4, <2>2 DEF TypeInv
    <3> QED BY <1>1, <1>2, <2>2, <3>1
  <2> QED BY <2>1, <2>2
<1> QED BY <1>3, <1>4

LEMMA TypeStep ==
    ASSUME TypeInv, Kept, [Next]_vars
    PROVE  TypeInv'
<1>1. /\ SinksInv'
      /\ Path \in Nat /\ Path' \in Nat /\ Path' >= Path
  BY DEF TypeInv, SinksInv, Kept
<1>2. \A c \in Clients : job[c] \in Jobs
  BY DEF TypeInv
<1>3. ASSUME UNCHANGED job
      PROVE  /\ job' \in [Clients -> Jobs]
             /\ \A d \in Clients : job'[d].pc \in Using => job'[d].sink \in 1..Path'
  BY <1>1, <1>3 DEF TypeInv
<1>4. ASSUME NEW c \in Clients, Open(c)
      PROVE  TypeInv'
  <2> DEFINE x == [job[c] EXCEPT !.pc = IF job[c].class = None THEN "record" ELSE "spawn",
                                 !.sink = Path]
  <2>1. job' = [job EXCEPT ![c] = x]
    BY <1>4 DEF Open, TypeInv
  <2>2. x \in Jobs /\ x.sink = Path
    BY <1>1, <1>2 DEF Jobs
  <2>3. Path \in 1..Path'
    BY <1>1 DEF TypeInv, SinksInv
  <2> HIDE DEF x
  <2> QED BY <1>1, <1>4, <2>1, <2>2, <2>3, JobChanged
          DEF Open, TypeInv, reporter
<1>5. ASSUME NEW c \in Clients, Heal(c)
      PROVE  TypeInv'
  <2>1. Path' = Path + 1
    BY <1>5, SinkAdded DEF Heal, TypeInv
  <2>2. job' \in [Clients -> Jobs]
    <3>1. SUFFICES ASSUME NEW d \in Clients
                   PROVE  job'[d] \in Jobs
      BY <1>5 DEF Heal
    <3> DEFINE healed == [job[d] EXCEPT !.healed = TRUE]
               pc == IF d # c THEN job[d].pc
                     ELSE IF job[c].class = None THEN "record" ELSE "spawn"
               sink == IF d = c THEN Path + 1 ELSE job[d].sink
    <3>2. healed \in Jobs /\ healed.pc = job[d].pc /\ healed.sink = job[d].sink
      BY <1>2 DEF Jobs
    <3>3. /\ pc \in {"idle", "open", "record", "spawn", "running", "exit"}
          /\ sink \in Nat
      BY <1>1, <1>2 DEF Jobs
    <3>4. job'[d] = [healed EXCEPT !.pc = pc, !.sink = sink]
      BY <1>5, <3>2 DEF Heal
    <3> HIDE DEF healed, pc, sink
    <3> QED BY <3>2, <3>3, <3>4 DEF Jobs
  <2>3. \A d \in Clients : job'[d].pc \in Using => job'[d].sink \in 1..Path'
    <3>1. job'[c].sink = Path + 1
      BY <1>2, <1>5 DEF Heal, Jobs
    <3>2. \A d \in Clients \ {c} : job'[d].pc = job[d].pc /\ job'[d].sink = job[d].sink
      BY <1>2, <1>5 DEF Heal, Jobs
    <3> QED BY <1>1, <2>1, <3>1, <3>2 DEF TypeInv
  <2> QED BY <1>1, <1>5, <2>2, <2>3 DEF Heal, TypeInv, reporter
<1>6. ASSUME NEW c \in Clients, Record(c)
      PROVE  TypeInv'
  <2> DEFINE x == [job[c] EXCEPT !.todo = Tail(@)]
  <2>1. job' = [job EXCEPT ![c] = x] /\ job[c].pc = "record" /\ job[c].todo # <<>>
    BY <1>6 DEF Record, TypeInv
  <2>2. x \in Jobs /\ x.sink = job[c].sink
    BY <1>2, <2>1, HeadTyped DEF Jobs
  <2>3. x.sink \in 1..Path'
    BY <1>1, <2>1, <2>2 DEF TypeInv, Using
  <2>4. clock' \in Nat
    BY <1>6 DEF Record, TypeInv
  <2> HIDE DEF x
  <2> QED BY <1>1, <1>6, <2>1, <2>2, <2>3, <2>4, JobChanged
          DEF Record, TypeInv, reporter
<1>7. ASSUME NEW hash \in Identities \cup {None}, NEW kind \in HmrKinds \cup {"run", None},
             Report(hash, kind)
      PROVE  TypeInv'
  <2> DEFINE e == IF hash # None THEN ErrorOf(hash, clock + 1, 0)
                  ELSE IF kind = "run" THEN RunOf(clock + 1, 0)
                  ELSE EventOf(kind, clock + 1, 0)
  <2>1. clock + 1 \in Nat /\ 0 \in Runs
    BY DEF TypeInv, Runs
  <2>2. e \in Envelopes
    BY <2>1, MadeTyped
  <2>3. /\ clock' = clock + 1
        /\ queue' = queue \/ queue' = Append(queue, e)
        /\ job' = job \/ job' = [job EXCEPT !["vite"] = Child(e)]
    BY <1>7 DEF Report
  <2> HIDE DEF e
  <2>4. queue' \in Seq(Envelopes)
    BY <2>2, <2>3 DEF TypeInv
  <2>5. /\ job' \in [Clients -> Jobs]
        /\ \A d \in Clients : job'[d].pc \in Using => job'[d].sink \in 1..Path'
    BY <1>3, <2>2, <2>3, ChildTyped, JobChanged DEF Clients, Using
  <2> QED BY <1>1, <2>1, <2>3, <2>4, <2>5 DEF TypeInv
<1>8. ASSUME NEW hash \in Identities \cup {None}, TestsEnd(hash)
      PROVE  TypeInv'
  <2> DEFINE e == IF hash # None THEN ErrorOf(hash, clock + 1, None)
                  ELSE EventOf("test-pass", clock + 1, None)
  <2>1. clock + 1 \in Nat /\ None \in Runs
    BY DEF TypeInv, Runs
  <2>2. e \in Envelopes
    BY <2>1, MadeTyped
  <2>3. clock' = clock + 1 /\ job' = [job EXCEPT !["vitest"] = Child(e)]
    BY <1>8 DEF TestsEnd
  <2> HIDE DEF e
  <2>4. /\ job' \in [Clients -> Jobs]
        /\ \A d \in Clients : job'[d].pc \in Using => job'[d].sink \in 1..Path'
    BY <2>2, <2>3, ChildTyped, JobChanged DEF Clients, Using
  <2> QED BY <1>1, <1>8, <2>1, <2>3, <2>4 DEF TestsEnd, TypeInv, reporter
<1>9. CASE Flush \/ AgentOpens \/ SinceRows \/ SinceCursor \/ (\E n \in Nat : Wait(n))
            \/ UNCHANGED vars
  <2>1. UNCHANGED <<job, queue>> /\ clock' \in Nat
    BY <1>9 DEF Flush, AgentOpens, SinceRows, SinceCursor, Wait, vars, reporter, TypeInv
  <2> QED BY <1>1, <1>3, <2>1 DEF TypeInv
<1>10. CASE Close
  <2>1. CASE queue = <<>>
    <3>1. NoJob \in Jobs /\ NoJob.pc \notin Using
      BY DEF NoJob, Jobs, Runs, Using
    <3>2. job' = [job EXCEPT !["vite"] = NoJob] /\ UNCHANGED <<queue, clock>>
      BY <1>10, <2>1 DEF Close
    <3> QED BY <1>1, <3>1, <3>2, JobChanged DEF TypeInv, Clients
  <2>2. CASE queue # <<>>
    <3>1. /\ job' = [job EXCEPT !["vite"] = Child(Head(queue))]
          /\ queue' = Tail(queue)
          /\ UNCHANGED clock
      BY <1>10, <2>2 DEF Close, Pop
    <3>2. Head(queue) \in Envelopes /\ Tail(queue) \in Seq(Envelopes)
      BY <2>2 DEF TypeInv
    <3> QED BY <1>1, <3>1, <3>2, ChildTyped, JobChanged DEF TypeInv, Clients, Using
  <2> QED BY <2>1, <2>2
<1>11. ASSUME NEW c \in Clients, Leave(c)
      PROVE  TypeInv'
  <2> DEFINE x == IF job[c].pc = "record" /\ c = "wrap"
                  THEN [job[c] EXCEPT !.pc = "exit"] ELSE NoJob
  <2>1. job' = [job EXCEPT ![c] = x] /\ UNCHANGED <<queue, clock>>
    BY <1>11 DEF Leave, TypeInv, reporter
  <2>2. /\ x \in Jobs
        /\ x.pc \in Using => x.sink = job[c].sink /\ job[c].pc \in Using
    BY <1>2 DEF Jobs, NoJob, Runs, Using
  <2>3. x.pc \in Using => x.sink \in 1..Path'
    BY <1>1, <2>2 DEF TypeInv
  <2> HIDE DEF x
  <2> QED BY <1>1, <2>1, <2>2, <2>3, JobChanged DEF TypeInv
<1>12. ASSUME NEW class \in {"test", "tsc", "build"}, NEW run \in Nat, Wrap(class, run)
      PROVE  TypeInv'
  <2> DEFINE x == [NoJob EXCEPT !.pc = "open", !.class = class, !.run = run]
  <2>1. job' = [job EXCEPT !["wrap"] = x] /\ UNCHANGED <<queue, clock>>
    BY <1>12 DEF Wrap, reporter
  <2> DEFINE y == [NoJob EXCEPT !.pc = "open"]
  <2>2. y \in Jobs /\ y.pc = "open"
    <3>1. NoJob \in Jobs
      BY DEF NoJob, Jobs, Runs
    <3> QED BY <3>1 DEF Jobs
  <2>3. x = [y EXCEPT !.class = class, !.run = run]
    BY Zenon
  <2> HIDE DEF y
  <2>4. x \in Jobs /\ x.pc \notin Using
    BY <2>2, <2>3 DEF Jobs, Runs, Using
  <2> HIDE DEF x
  <2> QED BY <1>1, <2>1, <2>4, JobChanged DEF TypeInv, Clients
<1>13. CASE Spawn
  <2> DEFINE x == [job["wrap"] EXCEPT !.pc = "running"]
  <2>1. job' = [job EXCEPT !["wrap"] = x] /\ UNCHANGED queue /\ clock' = clock + 1
    BY <1>13 DEF Spawn, TypeInv, reporter
  <2>2. x \in Jobs /\ x.sink = job["wrap"].sink
    BY <1>2 DEF Jobs, Clients
  <2>3. x.sink \in 1..Path'
    BY <1>1, <1>13, <2>2 DEF Spawn, TypeInv, Using, Clients
  <2> HIDE DEF x
  <2> QED BY <1>1, <2>1, <2>2, <2>3, JobChanged DEF TypeInv, Clients
<1>14. ASSUME NEW ok \in BOOLEAN, NEW parsed \in BOOLEAN, ChildExits(ok, parsed)
      PROVE  TypeInv'
  <2> DEFINE todo == Outcome(job["wrap"].class, job["wrap"].run, ok, parsed)
             x == [job["wrap"] EXCEPT !.pc = "record", !.todo = todo]
  <2>1. /\ job["wrap"].pc = "running"
        /\ job' = [job EXCEPT !["wrap"] = x]
        /\ UNCHANGED <<queue, clock>>
    BY <1>14 DEF ChildExits, TypeInv, reporter
  <2>2. todo \in Seq(Envelopes) /\ job["wrap"] \in Jobs
    BY <1>2, OutcomeTyped DEF Jobs, Clients
  <2> HIDE DEF todo
  <2>3. x \in Jobs /\ x.sink = job["wrap"].sink
    BY <2>2 DEF Jobs
  <2>4. x.sink \in 1..Path'
    BY <1>1, <2>1, <2>3 DEF TypeInv, Using, Clients
  <2> HIDE DEF x
  <2> QED BY <1>1, <2>1, <2>3, <2>4, JobChanged DEF TypeInv, Clients
<1>15. CASE Exit
  <2>1. NoJob \in Jobs /\ NoJob.pc \notin Using
    BY DEF NoJob, Jobs, Runs, Using
  <2> QED BY <1>1, <1>15, <2>1, JobChanged DEF Exit, TypeInv, Clients, reporter
<1> QED BY <1>4, <1>5, <1>6, <1>7, <1>8, <1>9, <1>10, <1>11, <1>12, <1>13,
           <1>14, <1>15
        DEF Next, Command, TestErrors

----------------------------------------------------------------------------
(* errors_since.                                                           *)

Agents ==
    [pc : {"closed", "ready", "rows"}, sink : Nat, cursor : Nat,
     rows : SUBSET Nat, top : Nat, shown : SUBSET Nat, passed : SUBSET Nat]

Known == agent.shown \cup agent.passed

\* Beyond the answer because it is full.
Cut(id) == Cardinality(agent.rows) = SinceLimit /\ id > Max(agent.rows)

(***************************************************************************)
(* The cursor is one the file has given out.  Up to it, and between the    *)
(* statements up to the highest row of the first, the agent knows the      *)
(* rows, has them in the answer, or has an answer that was cut before.     *)
(***************************************************************************)
SinceInv ==
    /\ agent \in Agents
    /\ agent.pc = "closed" => agent.cursor = 0
    /\ agent.pc # "closed" =>
         /\ agent.sink \in 1..Path
         /\ agent.cursor <= sinks[agent.sink].lastError
    /\ agent.pc = "ready" =>
         \A id \in DOMAIN sinks[agent.sink].errors :
            id <= agent.cursor => id \in Known
    /\ agent.pc = "rows" =>
         /\ agent.top <= sinks[agent.sink].lastError
         /\ \A id \in DOMAIN sinks[agent.sink].errors :
              id <= agent.top => id \in Known \/ id \in agent.rows \/ Cut(id)

LEMMA SinceInit == Init => SinceInv
BY DEF Init, SinceInv, Agents

\* What the others do to the file.
LEMMA SinceFrame ==
    ASSUME TypeInv, SinceInv, Kept, UNCHANGED agent
    PROVE  SinceInv'
<1>1. CASE agent.pc = "closed"
  BY <1>1 DEF SinceInv
<1>2. CASE agent.pc # "closed"
  <2> DEFINE old == sinks[agent.sink]
             new == sinks'[agent.sink]
  <2>1. agent.sink \in 1..Path /\ agent.sink \in 1..Path'
    BY <1>2 DEF SinceInv, Kept, TypeInv, SinksInv
  <2>2. Grew(old, new) /\ Filed(old)
    BY <2>1 DEF Kept, TypeInv, SinksInv
  <2>3. /\ old.lastError \in Nat /\ new.lastError \in Nat
        /\ new.lastError >= old.lastError
        /\ \A id \in DOMAIN new.errors :
             /\ id \in Nat
             /\ id \in DOMAIN old.errors \/ id > old.lastError
    BY <2>2 DEF Grew, Filed
  <2>4. /\ agent.cursor \in Nat /\ agent.top \in Nat
        /\ agent.cursor <= old.lastError
        /\ agent.pc = "rows" => agent.top <= old.lastError
    BY <1>2 DEF SinceInv, Agents
  <2>5. ASSUME NEW id \in DOMAIN new.errors
        PROVE  /\ agent.pc = "ready" /\ id <= agent.cursor => id \in Known
               /\ agent.pc = "rows" /\ id <= agent.top =>
                    id \in Known \/ id \in agent.rows \/ Cut(id)
    <3>1. CASE id \in DOMAIN old.errors
      BY <3>1 DEF SinceInv
    <3>2. CASE id > old.lastError
      BY <2>3, <2>4, <3>2
    <3> QED BY <2>3, <3>1, <3>2
  <2>6. Known' = Known /\ \A id : Cut(id)' <=> Cut(id)
    BY DEF Known, Cut
  <2>7. agent.cursor <= new.lastError /\ (agent.pc = "rows" => agent.top <= new.lastError)
    BY <2>3, <2>4
  <2> QED BY <1>2, <2>1, <2>5, <2>6, <2>7 DEF SinceInv
<1> QED BY <1>1, <1>2

LEMMA MaxCursorBounded ==
    ASSUME NEW sink, Filed(sink)
    PROVE  MaxCursor(sink) \in Nat /\ MaxCursor(sink) <= sink.lastError
<1> DEFINE T == DOMAIN sink.errors \cup {0}
<1>1. sink.lastError \in Nat /\ T \in SUBSET (0..sink.lastError) /\ T # {}
  BY DEF Filed
<1> HIDE DEF T
<1>2. Max(T) \in T
  BY <1>1, GreatestExists
<1>3. Max(T) \in 0..sink.lastError
  BY <1>1, <1>2
<1>4. Max(T) \in Nat /\ Max(T) <= sink.lastError
  BY <1>1, <1>3
<1> QED BY <1>4 DEF T, MaxCursor

\* The first statement of an answer.
LEMMA SinceRowsStep ==
    ASSUME TypeInv, SinceInv, SinceRows
    PROVE  SinceInv'
<1> DEFINE sink == sinks[agent.sink]
           past == {id \in DOMAIN sink.errors : id > agent.cursor}
           low == Lowest(past, SinceLimit)
<1>1. /\ agent.pc = "ready"
      /\ agent' = [agent EXCEPT !.pc = "rows", !.rows = low, !.top = MaxCursor(sink)]
      /\ UNCHANGED sinks
  BY DEF SinceRows, ErrorsSince
<1>2. /\ agent \in Agents /\ agent.sink \in 1..Path /\ Filed(sink)
      /\ agent.cursor \in Nat /\ agent.cursor <= sink.lastError
  BY <1>1 DEF SinceInv, TypeInv, SinksInv, Agents
<1>3. sink.lastError \in Nat /\ DOMAIN sink.errors \in SUBSET (0..sink.lastError)
  BY <1>2 DEF Filed
<1>4. SinceLimit \in Nat \ {0}
  BY SniperStoreAssumption
<1>5. past \in SUBSET (0..sink.lastError)
  BY <1>3
<1>6. /\ low \in SUBSET past
      /\ \A x \in past : x \in low <=> Cardinality(Below(past, x)) < SinceLimit
  BY Zenon DEF Lowest, Below
<1>7. MaxCursor(sink) \in Nat /\ MaxCursor(sink) <= sink.lastError
  BY <1>2, MaxCursorBounded
<1> HIDE DEF low
<1>8. ASSUME NEW id \in DOMAIN sink.errors
      PROVE  \/ id \in Known \/ id \in low
             \/ Cardinality(low) = SinceLimit /\ id > Max(low)
  <2>1. CASE id <= agent.cursor
    BY <1>1, <2>1 DEF SinceInv
  <2>2. CASE ~(id <= agent.cursor) /\ id \notin low
    <3>1. id \in past \ low
      BY <1>2, <1>3, <2>2
    <3> HIDE DEF past
    <3>2. Cardinality(low) = SinceLimit /\ id > Max(low)
      BY <1>3, <1>4, <1>5, <1>6, <3>1, LowestLeavesOut
    <3> QED BY <3>2
  <2> QED BY <2>1, <2>2
<1>9. /\ agent' \in Agents
      /\ agent'.pc = "rows" /\ agent'.rows = low /\ agent'.top = MaxCursor(sink)
      /\ agent'.sink = agent.sink /\ agent'.cursor = agent.cursor
      /\ agent'.shown = agent.shown /\ agent'.passed = agent.passed
  <2>1. low \in SUBSET Nat
    BY <1>5, <1>6
  <2> QED BY <1>1, <1>2, <1>7, <2>1 DEF Agents
<1>10. Known' = Known
       /\ \A id : Cut(id)' <=> Cardinality(low) = SinceLimit /\ id > Max(low)
  BY <1>9 DEF Known, Cut
<1>11. Path' = Path
  BY <1>1 DEF Path
<1> QED BY <1>1, <1>2, <1>7, <1>8, <1>9, <1>10, <1>11 DEF SinceInv

\* The second, which moves the cursor.
LEMMA SinceCursorStep ==
    ASSUME TypeInv, SinceInv, SinceCursor
    PROVE  SinceInv'
<1> DEFINE sink == sinks[agent.sink]
           cursor == MaxCursor(sink)
           full == Cardinality(agent.rows) = SinceLimit
           beyond == {id \in 1..cursor : id > agent.top \/ (full /\ id > Max(agent.rows))}
<1>1. /\ agent.pc = "rows"
      /\ agent' = [agent EXCEPT !.pc = "ready", !.cursor = cursor, !.rows = {}, !.top = 0,
                                !.shown = @ \cup agent.rows,
                                !.passed = @ \cup beyond]
      /\ UNCHANGED sinks
  BY DEF SinceCursor
<1>2. /\ agent \in Agents /\ agent.sink \in 1..Path /\ Filed(sink)
      /\ agent.top \in Nat
  BY <1>1 DEF SinceInv, TypeInv, SinksInv, Agents
<1>3. sink.lastError \in Nat /\ DOMAIN sink.errors \in SUBSET (1..sink.lastError)
  BY <1>2 DEF Filed
<1>4. cursor \in Nat /\ cursor <= sink.lastError
  BY <1>2, MaxCursorBounded
<1> HIDE DEF cursor
<1>5. ASSUME NEW id \in DOMAIN sink.errors, id <= cursor
      PROVE  id \in Known \/ id \in agent.rows \/ id \in beyond
  <2>1. id \in 1..cursor
    BY <1>3, <1>4, <1>5
  <2>2. CASE id > agent.top
    BY <2>1, <2>2
  <2>3. CASE id <= agent.top
    BY <1>1, <2>1, <2>3 DEF SinceInv, Cut
  <2> QED BY <1>2, <2>1, <2>2, <2>3
<1>6. beyond \in SUBSET Nat
  BY <1>4
<1> HIDE DEF beyond
<1>7. /\ agent' \in Agents
      /\ agent'.pc = "ready" /\ agent'.sink = agent.sink /\ agent'.cursor = cursor
      /\ agent'.shown = agent.shown \cup agent.rows
      /\ agent'.passed = agent.passed \cup beyond
  BY <1>1, <1>2, <1>4, <1>6 DEF Agents
<1>8. Path' = Path
  BY <1>1 DEF Path
<1> QED BY <1>1, <1>2, <1>4, <1>5, <1>7, <1>8 DEF SinceInv, Known

LEMMA SinceStep ==
    ASSUME TypeInv, SinceInv, Kept, [Next]_vars
    PROVE  SinceInv'
<1>1. CASE AgentOpens
  <2>1. /\ agent.pc = "closed"
        /\ agent' = [agent EXCEPT !.pc = "ready", !.sink = Path]
        /\ Path' = Path
    BY <1>1, TidyFiles DEF AgentOpens
  <2>2. Path \in Nat /\ Path \in 1..Path /\ Filed(sinks'[Path]) /\ agent \in Agents /\ agent.cursor = 0
    BY <2>1 DEF TypeInv, SinksInv, SinceInv, Kept
  <2>3. /\ agent' \in Agents /\ agent'.pc = "ready"
        /\ agent'.sink = Path /\ agent'.cursor = 0
    BY <2>1, <2>2 DEF Agents
  <2>4. sinks'[Path].lastError >= 0 /\ \A id \in DOMAIN sinks'[Path].errors : ~(id <= 0)
    BY <2>2 DEF Filed
  <2> QED BY <2>1, <2>2, <2>3, <2>4 DEF SinceInv
<1>2. CASE SinceRows
  BY <1>2, SinceRowsStep
<1>3. CASE SinceCursor
  BY <1>3, SinceCursorStep
<1>4. CASE UNCHANGED agent
  BY <1>4, SinceFrame
<1>5. ASSUME NEW c \in Clients, Command(c)
      PROVE  UNCHANGED agent
  BY <1>5 DEF Command, Open, Heal, Record, Leave
<1>6. ASSUME NEW hash, NEW kind, Report(hash, kind) \/ TestsEnd(hash)
      PROVE  UNCHANGED agent
  BY <1>6 DEF Report, TestsEnd
<1>7. ASSUME Flush \/ Close \/ Spawn \/ Exit \/ UNCHANGED vars
      PROVE  UNCHANGED agent
  BY <1>7 DEF Flush, Close, Spawn, Exit, vars
<1>8. ASSUME NEW class, NEW run, NEW ok, NEW parsed, NEW n,
             Wrap(class, run) \/ ChildExits(ok, parsed) \/ Wait(n)
      PROVE  UNCHANGED agent
  BY <1>8 DEF Wrap, ChildExits, Wait
<1> QED BY <1>1, <1>2, <1>3, <1>4, <1>5, <1>6, <1>7, <1>8 DEF Next

(***************************************************************************)
(* An agent that asks errors_since with the cursor of its last answer has  *)
(* been shown every error at or below it, whatever is recorded, repeated,  *)
(* pruned or made anew meanwhile (errors_since and since in query.rs).     *)
(***************************************************************************)
THEOREM SinceIsComplete == Spec => []SinceMissesNothing
<1>1. TypeInv /\ SinceInv /\ [Next]_vars => TypeInv' /\ SinceInv'
  BY FileSteps, TypeStep, SinceStep
<1>2. SinceInv => SinceMissesNothing
  BY DEF SinceInv, SinceMissesNothing, Known
<1> QED BY <1>1, <1>2, TypeInit, SinceInit, PTL DEF Spec

----------------------------------------------------------------------------
(* flush.                                                                  *)

Draining == job["vite"].pc # "idle"

(***************************************************************************)
(* What was reported is shipped, in the child or in the queue, and no      *)
(* flush waits for more than was reported.                                 *)
(***************************************************************************)
FlushInv ==
    /\ counted \in [reported : Nat, shipped : Nat, resolved : Nat]
    /\ waiting \in SUBSET (0..counted.reported)
    /\ counted.reported = counted.shipped + Len(queue) + (IF Draining THEN 1 ELSE 0)
    /\ counted.resolved <= counted.shipped
    /\ ~Draining => waiting = {} /\ queue = <<>>

LEMMA FlushInit == Init => FlushInv
BY DEF Init, FlushInv, Draining, NoJob, Clients

\* The others leave the reporter and the state of its child alone.
LEMMA FlushFrame ==
    ASSUME FlushInv, UNCHANGED <<queue, counted, waiting>>,
           job'["vite"].pc = "idle" <=> job["vite"].pc = "idle"
    PROVE  FlushInv'
<1>1. Draining' <=> Draining
  BY DEF Draining
<1> QED BY <1>1 DEF FlushInv

LEMMA ReportFlush ==
    ASSUME TypeInv, FlushInv, NEW hash, NEW kind, Report(hash, kind)
    PROVE  FlushInv'
<1>1. PICK e :
        /\ counted' = [counted EXCEPT !.reported = @ + 1]
        /\ queue' = IF Draining THEN Append(queue, e) ELSE queue
        /\ job' = IF Draining THEN job ELSE [job EXCEPT !["vite"] = Child(e)]
        /\ UNCHANGED waiting
  BY Zenon DEF Report, Draining
<1>2. queue \in Seq(Envelopes) /\ job \in [Clients -> Jobs] /\ "vite" \in Clients
  BY DEF TypeInv, Clients
<1>3. Draining'
  BY <1>1, <1>2 DEF Draining, Child, NoJob
<1>4. Len(queue') = IF Draining THEN Len(queue) + 1 ELSE Len(queue)
  <2>1. queue' \in Seq(Envelopes \cup {e})
    BY <1>1, <1>2
  <2> QED BY <1>1, <1>2
<1>5. /\ counted' \in [reported : Nat, shipped : Nat, resolved : Nat]
      /\ counted'.reported = counted.reported + 1
      /\ counted'.shipped = counted.shipped /\ counted'.resolved = counted.resolved
  BY <1>1 DEF FlushInv
<1>6. waiting' \in SUBSET (0..counted'.reported)
  BY <1>1, <1>5 DEF FlushInv
<1>7. Len(queue) \in Nat
  BY <1>2
<1>8. counted'.reported = counted'.shipped + Len(queue') + 1
  <2>1. CASE Draining
    BY <1>4, <1>5, <1>7, <2>1 DEF FlushInv
  <2>2. CASE ~Draining
    BY <1>4, <1>5, <1>7, <2>2 DEF FlushInv
  <2> QED BY <2>1, <2>2
<1> QED BY <1>3, <1>5, <1>6, <1>8 DEF FlushInv

LEMMA FlushFlush ==
    ASSUME FlushInv, Flush
    PROVE  FlushInv'
<1>1. /\ waiting' = IF Draining THEN waiting \cup {counted.reported} ELSE waiting
      /\ counted' = IF Draining THEN counted
                    ELSE [counted EXCEPT !.resolved = counted.reported]
      /\ UNCHANGED <<queue, job>>
  BY DEF Flush, Draining
<1>2. Draining' <=> Draining
  BY <1>1 DEF Draining
<1>3. CASE Draining
  BY <1>1, <1>2, <1>3 DEF FlushInv
<1>4. CASE ~Draining
  <2>1. counted.reported = counted.shipped
    <3>1. Len(queue) = 0
      BY <1>4 DEF FlushInv
    <3> QED BY <1>4, <3>1 DEF FlushInv
  <2> QED BY <1>1, <1>2, <1>4, <2>1 DEF FlushInv
<1> QED BY <1>3, <1>4

LEMMA CountShipped ==
    ASSUME NEW n \in [reported : Nat, shipped : Nat, resolved : Nat], NEW r \in Nat
    PROVE  LET new == [n EXCEPT !.shipped = @ + 1, !.resolved = r]
           IN  /\ new \in [reported : Nat, shipped : Nat, resolved : Nat]
               /\ new.reported = n.reported
               /\ new.shipped = n.shipped + 1
               /\ new.resolved = r
<1> DEFINE mid == [n EXCEPT !.shipped = n.shipped + 1]
<1>1. /\ mid \in [reported : Nat, shipped : Nat, resolved : Nat]
      /\ mid.reported = n.reported /\ mid.shipped = n.shipped + 1
  OBVIOUS
<1>2. [n EXCEPT !.shipped = @ + 1, !.resolved = r] = [mid EXCEPT !.resolved = r]
  BY Zenon
<1> HIDE DEF mid
<1> QED BY <1>1, <1>2

LEMMA CloseFlush ==
    ASSUME TypeInv, FlushInv, Close
    PROVE  FlushInv'
<1>1. Draining /\ queue \in Seq(Envelopes) /\ Len(queue) \in Nat
  BY DEF Close, Draining, TypeInv
<1>2. job \in [Clients -> Jobs] /\ "vite" \in Clients
  BY DEF TypeInv, Clients
<1>3. counted \in [reported : Nat, shipped : Nat, resolved : Nat]
  BY DEF FlushInv
<1>4. /\ counted.reported \in Nat /\ counted.shipped \in Nat /\ counted.resolved \in Nat
      /\ counted.resolved <= counted.shipped
  BY DEF FlushInv
<1>5. CASE queue = <<>>
  <2> DEFINE asked == waiting \cup {counted.resolved}
  <2>1. /\ job' = [job EXCEPT !["vite"] = NoJob]
        /\ queue' = queue /\ waiting' = {}
        /\ counted' = [counted EXCEPT !.shipped = @ + 1, !.resolved = Max(asked)]
    BY <1>5 DEF Close
  <2>2. ~Draining'
    BY <1>2, <2>1 DEF Draining, NoJob
  <2>3. counted.reported = counted.shipped + 1 /\ Len(queue) = 0
    BY <1>1, <1>5 DEF FlushInv
  <2>4. counted.reported \in Nat /\ asked \in SUBSET (0..counted.reported) /\ asked # {}
    <3>1. counted.resolved \in 0..counted.reported
      BY <1>4, <2>3
    <3> QED BY <1>4, <3>1 DEF FlushInv
  <2> HIDE DEF asked
  <2>5. Max(asked) \in asked
    BY <2>4, GreatestExists
  <2>6. Max(asked) \in 0..counted.reported
    BY <2>4, <2>5
  <2>7. Max(asked) \in Nat /\ Max(asked) <= counted.shipped + 1
    BY <2>3, <2>4, <2>6
  <2>8. /\ counted' \in [reported : Nat, shipped : Nat, resolved : Nat]
        /\ counted'.reported = counted.reported
        /\ counted'.shipped = counted.shipped + 1 /\ counted'.resolved = Max(asked)
    BY <1>3, <2>1, <2>7, CountShipped
  <2> QED BY <1>5, <2>1, <2>2, <2>3, <2>7, <2>8 DEF FlushInv
<1>6. CASE queue # <<>>
  <2>1. /\ job' = [job EXCEPT !["vite"] = Child(Head(queue))]
        /\ queue' = Tail(queue) /\ waiting' = waiting
        /\ counted' = [counted EXCEPT !.shipped = @ + 1, !.resolved = counted.resolved]
    BY <1>6 DEF Close, Pop
  <2>2. Draining'
    BY <1>2, <2>1 DEF Draining, Child, NoJob
  <2>3. Len(queue') = Len(queue) - 1
    BY <1>1, <1>6, <2>1
  <2>4. /\ counted' \in [reported : Nat, shipped : Nat, resolved : Nat]
        /\ counted'.reported = counted.reported
        /\ counted'.shipped = counted.shipped + 1 /\ counted'.resolved = counted.resolved
    BY <1>3, <1>4, <2>1, CountShipped
  <2>5. counted'.reported = counted'.shipped + Len(queue') + 1
    BY <1>1, <2>3, <2>4 DEF FlushInv
  <2>6. counted'.resolved <= counted'.shipped
    BY <2>4 DEF FlushInv
  <2> QED BY <2>1, <2>2, <2>4, <2>5, <2>6 DEF FlushInv
<1> QED BY <1>5, <1>6

LEMMA FlushStep ==
    ASSUME TypeInv, FlushInv, [Next]_vars
    PROVE  FlushInv'
<1>1. job \in [Clients -> Jobs] /\ "vite" \in Clients
  BY DEF TypeInv, Clients
<1>2. ASSUME NEW c \in Clients, Command(c)
      PROVE  FlushInv'
  <2>1. job'["vite"].pc = "idle" <=> job["vite"].pc = "idle"
    <3>1. CASE Open(c)
      BY <1>1, <3>1 DEF Open, Jobs
    <3>2. CASE Heal(c)
      BY <1>1, <3>2 DEF Heal, Jobs
    <3>3. CASE Record(c)
      BY <1>1, <3>3 DEF Record, Jobs
    <3>4. CASE Leave(c)
      BY <1>1, <3>4 DEF Leave
    <3> QED BY <1>2, <3>1, <3>2, <3>3, <3>4 DEF Command
  <2>2. UNCHANGED reporter
    BY <1>2 DEF Command, Open, Heal, Record, Leave
  <2> QED BY <2>1, <2>2, FlushFrame DEF reporter
<1>3. ASSUME NEW hash, TestsEnd(hash)
      PROVE  FlushInv'
  BY <1>1, <1>3, FlushFrame DEF TestsEnd, reporter
<1>4. ASSUME NEW class, NEW run, NEW ok, NEW parsed,
             Wrap(class, run) \/ ChildExits(ok, parsed) \/ Spawn \/ Exit
      PROVE  FlushInv'
  <2>1. UNCHANGED reporter /\ job'["vite"] = job["vite"]
    BY <1>1, <1>4 DEF Wrap, ChildExits, Spawn, Exit
  <2> QED BY <2>1, FlushFrame DEF reporter
<1>5. ASSUME NEW n, AgentOpens \/ SinceRows \/ SinceCursor \/ Wait(n) \/ UNCHANGED vars
      PROVE  FlushInv'
  <2>1. UNCHANGED <<reporter, job>>
    BY <1>5 DEF AgentOpens, SinceRows, SinceCursor, Wait, vars
  <2> QED BY <2>1, FlushFrame DEF reporter
<1> QED BY <1>2, <1>3, <1>4, <1>5, ReportFlush, FlushFlush, CloseFlush DEF Next

----------------------------------------------------------------------------
(* The order of the events of the dev server.                              *)

Shipping == job["vite"].todo
Pending == Values(Shipping) \cup Values(queue)

IsHmr(e) == e.type = "event" /\ e.kind \in HmrKinds

(***************************************************************************)
(* What the child has and what waits behind it, by time; the other clients *)
(* have nothing of the dev server to record.                               *)
(***************************************************************************)
WaitInv ==
    /\ Len(Shipping) <= 1
    /\ ~Draining => Shipping = <<>>
    /\ \A e \in Values(Shipping) : \A j \in 1..Len(queue) : e.ts < queue[j].ts
    /\ \A i, j \in 1..Len(queue) : i < j => queue[i].ts < queue[j].ts
    /\ \A e \in Pending : e.ts <= clock
    /\ \A c \in Clients \ {"vite"} : \A e \in Values(job[c].todo) : ~IsHmr(e)

\* An event of the dev server in a file is older than all that wait.
RowsInv ==
    \A n \in 1..Path : \A a \in DOMAIN sinks[n].events :
      sinks[n].events[a].kind \in HmrKinds =>
        /\ sinks[n].events[a].ts \in Nat
        /\ sinks[n].events[a].ts <= clock
        /\ \A e \in Pending : sinks[n].events[a].ts < e.ts
        /\ \A b \in DOMAIN sinks[n].events :
             sinks[n].events[b].kind \in HmrKinds /\ a < b =>
               sinks[n].events[a].ts < sinks[n].events[b].ts

LEMMA OrderInit == Init => WaitInv /\ RowsInv
<1> SUFFICES ASSUME Init PROVE WaitInv /\ RowsInv
  OBVIOUS
<1>1. /\ Path = 1 /\ DOMAIN sinks[1].events = {}
      /\ queue = <<>> /\ \A c \in Clients : job[c].todo = <<>>
  BY DEF Init, Path, EmptySink, NoJob
<1>2. Values(<<>>) = {}
  BY DEF Values
<1> QED BY <1>1, <1>2 DEF WaitInv, RowsInv, Shipping, Pending, Clients

LEMMA PendingTyped ==
    ASSUME TypeInv
    PROVE  /\ Shipping \in Seq(Envelopes) /\ queue \in Seq(Envelopes)
           /\ \A e \in Pending : e \in Envelopes /\ e.ts \in Nat
<1>1. Shipping \in Seq(Envelopes) /\ queue \in Seq(Envelopes)
  BY DEF TypeInv, Shipping, Jobs, Clients
<1>2. \A e \in Pending : e \in Envelopes
  BY <1>1 DEF Pending, Values
<1> QED BY <1>1, <1>2 DEF Envelopes

\* Nothing comes to the queue, and what the child has stays or is done with.
Framed ==
    /\ UNCHANGED queue
    /\ clock' \in Nat /\ clock' >= clock
    /\ Shipping' = Shipping \/ Shipping' = <<>>
    /\ ~Draining' => Shipping' = <<>>
    /\ \A c \in Clients \ {"vite"} : \A e \in Values(job'[c].todo) :
         e \in Values(job[c].todo) \/ ~IsHmr(e)

LEMMA WaitFrame ==
    ASSUME TypeInv, WaitInv, Framed
    PROVE  WaitInv' /\ Pending' \subseteq Pending
<1>1. Values(<<>>) = {} /\ Len(<<>>) = 0
  BY DEF Values
<1>2. Values(Shipping') \subseteq Values(Shipping) /\ Len(Shipping') <= 1
  BY <1>1 DEF Framed, WaitInv
<1>3. Pending' \subseteq Pending
  BY <1>2 DEF Pending, Framed
<1>4. \A e \in Pending' : e.ts <= clock'
  BY <1>3, PendingTyped DEF WaitInv, Framed, TypeInv
<1>5. \A c \in Clients \ {"vite"} : \A e \in Values(job'[c].todo) : ~IsHmr(e)
  BY DEF WaitInv, Framed
<1> QED BY <1>2, <1>3, <1>4, <1>5 DEF WaitInv, Framed

\* Rows stay before what waits when that is not new, or later than all.
LEMMA RowsFrame ==
    ASSUME TypeInv, RowsInv, Kept, NoNewEvent,
           clock' \in Nat, clock' >= clock,
           \A e \in Pending' : e \in Pending \/ e.ts = clock + 1
    PROVE  RowsInv'
<1> SUFFICES ASSUME NEW n \in 1..Path', NEW a \in DOMAIN sinks'[n].events,
                    sinks'[n].events[a].kind \in HmrKinds
             PROVE  /\ sinks'[n].events[a].ts \in Nat
                    /\ sinks'[n].events[a].ts <= clock'
                    /\ \A e \in Pending' : sinks'[n].events[a].ts < e.ts
                    /\ \A b \in DOMAIN sinks'[n].events :
                         sinks'[n].events[b].kind \in HmrKinds /\ a < b =>
                           sinks'[n].events[a].ts < sinks'[n].events[b].ts
  BY DEF RowsInv
<1>1. /\ n \in 1..Path /\ a \in DOMAIN sinks[n].events
      /\ sinks'[n].events[a] = sinks[n].events[a]
      /\ \A b \in DOMAIN sinks'[n].events :
           b \in DOMAIN sinks[n].events /\ sinks'[n].events[b] = sinks[n].events[b]
  BY DEF NoNewEvent
<1>2. /\ sinks[n].events[a].ts \in Nat
      /\ sinks[n].events[a].ts <= clock
      /\ \A e \in Pending : sinks[n].events[a].ts < e.ts
      /\ \A b \in DOMAIN sinks[n].events :
           sinks[n].events[b].kind \in HmrKinds /\ a < b =>
             sinks[n].events[a].ts < sinks[n].events[b].ts
  BY <1>1 DEF RowsInv
<1>3. clock \in Nat
  BY DEF TypeInv
<1>4. sinks[n].events[a].ts <= clock'
  BY <1>2, <1>3
<1>5. \A e \in Pending' : sinks[n].events[a].ts < e.ts
  BY <1>2, <1>3
<1> QED BY <1>1, <1>2, <1>4, <1>5

\* The row of an event comes last in its file, and is of the dev server only
\* when the child of the plugin records it.
LEMMA RecordRows ==
    ASSUME TypeInv, WaitInv, RowsInv, Kept, NEW c \in Clients, Record(c),
           Head(job[c].todo).type = "event"
    PROVE  RowsInv'
<1> DEFINE e == Head(job[c].todo)
           ts == IF c = "wrap" THEN clock + 1 ELSE e.ts
           i == job[c].sink
           new == RecordEvent(sinks[i], e.kind, ts, e.run)
           last == sinks[i].lastEvent + 1
<1>1. /\ job[c].pc = "record" /\ job[c].todo # <<>>
      /\ sinks' = [sinks EXCEPT ![i] = new]
      /\ clock' = IF c = "wrap" THEN clock + 1 ELSE clock
      /\ job' = [job EXCEPT ![c].todo = Tail(@)]
      /\ UNCHANGED queue
  BY DEF Record, Recorded, reporter
<1>2. i \in 1..Path /\ Filed(sinks[i])
  BY <1>1 DEF TypeInv, Using, SinksInv
<1>3. /\ DOMAIN new.events = DOMAIN sinks[i].events \cup {last}
      /\ new.events[last] = [kind |-> e.kind, ts |-> ts, run |-> e.run]
      /\ \A id \in DOMAIN sinks[i].events : new.events[id] = sinks[i].events[id]
  <2> DEFINE s == sinks[i]
             kind == e.kind
             run == e.run
  <2>1. Filed(s)
    BY <1>2
  <2> HIDE DEF s, kind, run, ts
  <2>2. LET file == RecordEvent(s, kind, ts, run)
        IN  /\ DOMAIN file.events = DOMAIN s.events \cup {s.lastEvent + 1}
            /\ file.events[s.lastEvent + 1] = [kind |-> kind, ts |-> ts, run |-> run]
            /\ \A id \in DOMAIN s.events : file.events[id] = s.events[id]
    BY <2>1, RecordEventGrows
  <2> QED BY <2>2 DEF s, kind, run
<1>4. \A id \in DOMAIN sinks[i].events : id < last
  BY <1>2 DEF Filed
<1>5. Path' = Path /\ sinks'[i] = new /\ \A n \in 1..Path : n # i => sinks'[n] = sinks[n]
  BY <1>1, <1>2 DEF TypeInv, SinksInv, Path
<1>6. e \in Envelopes /\ e.ts \in Nat /\ clock \in Nat
  BY <1>1, HeadTyped DEF Envelopes, TypeInv
<1>7. e \in Values(job[c].todo)
  BY <1>1 DEF Values, TypeInv, Jobs
<1>8. CASE c = "vite"
  <2>1. Shipping' = <<>>
    BY <1>1, <1>8, PendingTyped DEF WaitInv, Shipping, TypeInv, Jobs
  <2>2. Pending' \subseteq Pending /\ \A p \in Pending' : ts < p.ts
    <3>1. Pending' = Values(queue)
      BY <1>1, <2>1 DEF Pending, Values
    <3>2. \A p \in Values(queue) : e.ts < p.ts
      BY <1>7, <1>8 DEF WaitInv, Values, Shipping
    <3> QED BY <1>8, <3>1, <3>2 DEF Pending
  <2>3. e \in Pending
    BY <1>7, <1>8 DEF Pending, Shipping
  <2>4. ts \in Nat /\ ts <= clock /\ clock' = clock
    BY <1>1, <1>6, <1>8, <2>3 DEF WaitInv
  <2>5. \A n \in 1..Path : \A a \in DOMAIN sinks[n].events :
          sinks[n].events[a].kind \in HmrKinds => sinks[n].events[a].ts < ts
    BY <1>8, <2>3 DEF RowsInv
  <2> HIDE DEF e, ts, i, new, last
  <2>6. SUFFICES ASSUME NEW n \in 1..Path, NEW a \in DOMAIN sinks'[n].events,
                        sinks'[n].events[a].kind \in HmrKinds
                 PROVE  /\ sinks'[n].events[a].ts \in Nat
                        /\ sinks'[n].events[a].ts <= clock
                        /\ \A p \in Pending' : sinks'[n].events[a].ts < p.ts
                        /\ \A b \in DOMAIN sinks'[n].events :
                             sinks'[n].events[b].kind \in HmrKinds /\ a < b =>
                               sinks'[n].events[a].ts < sinks'[n].events[b].ts
    BY <1>5, <2>4 DEF RowsInv
  <2>7. CASE n = i /\ a = last
    <3>1. sinks'[n].events[a].ts = ts
      BY <1>3, <1>5, <2>7
    <3>2. \A b \in DOMAIN sinks'[n].events : ~(a < b)
      BY <1>2, <1>3, <1>4, <1>5, <2>7 DEF Filed, last
    <3> QED BY <2>2, <2>4, <3>1, <3>2
  <2>8. CASE ~(n = i /\ a = last)
    <3>1. a \in DOMAIN sinks[n].events /\ sinks'[n].events[a] = sinks[n].events[a]
      BY <1>3, <1>5, <2>8
    <3>2. /\ sinks[n].events[a].ts \in Nat
          /\ sinks[n].events[a].ts <= clock
          /\ \A p \in Pending : sinks[n].events[a].ts < p.ts
          /\ \A b \in DOMAIN sinks[n].events :
               sinks[n].events[b].kind \in HmrKinds /\ a < b =>
                 sinks[n].events[a].ts < sinks[n].events[b].ts
      BY <2>6, <3>1 DEF RowsInv
    <3>3. ASSUME NEW b \in DOMAIN sinks'[n].events,
                 sinks'[n].events[b].kind \in HmrKinds, a < b
          PROVE  sinks'[n].events[a].ts < sinks'[n].events[b].ts
      <4>1. CASE n = i /\ b = last
        <5>1. sinks'[n].events[b].ts = ts
          BY <1>3, <1>5, <4>1
        <5> QED BY <2>5, <2>6, <3>1, <5>1
      <4>2. CASE ~(n = i /\ b = last)
        <5>1. b \in DOMAIN sinks[n].events /\ sinks'[n].events[b] = sinks[n].events[b]
          BY <1>3, <1>5, <4>2
        <5> QED BY <3>1, <3>2, <3>3, <5>1
      <4> QED BY <4>1, <4>2
    <3> QED BY <2>2, <3>1, <3>2, <3>3
  <2> QED BY <2>7, <2>8
<1>9. CASE c # "vite"
  <2>1. e.kind \notin HmrKinds
    BY <1>7, <1>9 DEF WaitInv, IsHmr
  <2>2. Pending' = Pending
    BY <1>1, <1>9 DEF Pending, Shipping, TypeInv, Clients
  <2>3. clock' \in Nat /\ clock' >= clock
    BY <1>1, <1>6
  <2> HIDE DEF e, ts, i, new, last
  <2>4. \A n \in 1..Path : \A a \in DOMAIN sinks'[n].events :
          sinks'[n].events[a].kind \in HmrKinds =>
            a \in DOMAIN sinks[n].events /\ sinks'[n].events[a] = sinks[n].events[a]
    BY <1>3, <1>5, <2>1
  <2>5. ASSUME NEW n \in 1..Path, NEW a \in DOMAIN sinks[n].events,
               sinks[n].events[a].kind \in HmrKinds
        PROVE  /\ sinks[n].events[a].ts \in Nat
               /\ sinks[n].events[a].ts <= clock'
               /\ \A p \in Pending : sinks[n].events[a].ts < p.ts
               /\ \A b \in DOMAIN sinks[n].events :
                    sinks[n].events[b].kind \in HmrKinds /\ a < b =>
                      sinks[n].events[a].ts < sinks[n].events[b].ts
    BY <1>6, <2>3, <2>5 DEF RowsInv
  <2> QED BY <1>5, <2>2, <2>4, <2>5 DEF RowsInv
<1> QED BY <1>8, <1>9

\* Another client than the plugin's gets something else to do.
LEMMA OtherFramed ==
    ASSUME TypeInv, WaitInv, NEW c \in Clients \ {"vite"}, NEW x,
           job' = [job EXCEPT ![c] = x],
           \A e \in Values(x.todo) : e \in Values(job[c].todo) \/ ~IsHmr(e),
           UNCHANGED queue, clock' \in Nat, clock' >= clock
    PROVE  Framed
<1>1. job \in [Clients -> Jobs] /\ "vite" \in Clients
  BY DEF TypeInv, Clients
<1>2. job'["vite"] = job["vite"]
  BY <1>1
<1>3. \A d \in Clients : job'[d] = IF d = c THEN x ELSE job[d]
  BY <1>1
<1>4. \A d \in Clients \ {"vite"} : \A e \in Values(job'[d].todo) :
        e \in Values(job[d].todo) \/ ~IsHmr(e)
  BY <1>3
<1> QED BY <1>2, <1>4 DEF Framed, Shipping, Draining, WaitInv

\* All but a report and the end of a child.
LEMMA FramedStep ==
    ASSUME TypeInv, WaitInv, [Next]_vars, ~Close,
           \A hash \in Identities \cup {None}, kind \in HmrKinds \cup {"run", None} :
             ~Report(hash, kind)
    PROVE  Framed
<1>1. /\ job \in [Clients -> Jobs] /\ "vite" \in Clients /\ clock \in Nat
      /\ Values(<<>>) = {}
  BY DEF TypeInv, Clients, Values
<1>2. ASSUME UNCHANGED <<queue, job>>, clock' \in Nat, clock' >= clock
      PROVE  Framed
  BY <1>2 DEF Framed, Shipping, Draining, WaitInv
<1>3. \A s \in Seq(Envelopes) : s # <<>> => Values(Tail(s)) \subseteq Values(s)
  BY DEF Values
<1>4. ASSUME NEW c \in Clients, Open(c) \/ Heal(c)
      PROVE  Framed
  <2>1. /\ \A d \in Clients : job'[d].todo = job[d].todo
        /\ job'["vite"].pc = "idle" => job["vite"].pc = "idle"
        /\ UNCHANGED <<clock, queue>>
    <3>1. CASE Open(c)
      BY <1>1, <3>1 DEF Open, reporter, Jobs
    <3>2. CASE Heal(c)
      BY <1>1, <3>2 DEF Heal, reporter, Jobs
    <3> QED BY <1>4, <3>1, <3>2
  <2> QED BY <1>1, <2>1 DEF Framed, Shipping, Draining, WaitInv
<1>5. ASSUME NEW c \in Clients, Record(c)
      PROVE  Framed
  <2> DEFINE x == [job[c] EXCEPT !.todo = Tail(@)]
  <2>1. /\ job[c].pc = "record" /\ job[c].todo # <<>>
        /\ job' = [job EXCEPT ![c] = x]
        /\ UNCHANGED queue /\ clock' \in Nat /\ clock' >= clock
    BY <1>1, <1>5 DEF Record, reporter
  <2>2. job[c].todo \in Seq(Envelopes) /\ x.todo = Tail(job[c].todo) /\ x.pc = "record"
    BY <1>1, <2>1 DEF Jobs
  <2> HIDE DEF x
  <2>3. CASE c = "vite"
    <3>1. Len(job[c].todo) <= 1
      BY <2>3 DEF WaitInv, Shipping
    <3>2. Tail(job[c].todo) = <<>>
      BY <2>1, <2>2, <3>1
    <3>3. Shipping' = <<>> /\ \A d \in Clients \ {"vite"} : job'[d] = job[d]
      BY <1>1, <2>1, <2>2, <2>3, <3>2 DEF Shipping
    <3> QED BY <2>1, <3>3 DEF Framed
  <2>4. CASE c # "vite"
    BY <1>3, <2>1, <2>2, <2>4, OtherFramed
  <2> QED BY <2>3, <2>4
<1>6. ASSUME NEW c \in Clients, Leave(c)
      PROVE  Framed
  <2> DEFINE x == IF job[c].pc = "record" /\ c = "wrap"
                  THEN [job[c] EXCEPT !.pc = "exit"] ELSE NoJob
  <2>1. /\ c # "vite" /\ job' = [job EXCEPT ![c] = x] /\ UNCHANGED <<queue, clock>>
    BY <1>1, <1>6 DEF Leave, reporter
  <2>2. x.todo = job[c].todo \/ x.todo = <<>>
    BY <1>1 DEF Jobs, NoJob
  <2> HIDE DEF x
  <2>3. \A e \in Values(x.todo) : e \in Values(job[c].todo)
    BY <1>1, <2>2
  <2>4. clock' \in Nat /\ clock' >= clock
    BY <1>1, <2>1
  <2> QED BY <2>1, <2>3, <2>4, OtherFramed
<1>7. ASSUME NEW hash \in Identities \cup {None}, TestsEnd(hash)
      PROVE  Framed
  <2> DEFINE e == IF hash # None THEN ErrorOf(hash, clock + 1, None)
                  ELSE EventOf("test-pass", clock + 1, None)
  <2>1. ~IsHmr(e)
    BY DEF IsHmr, ErrorOf, EventOf, HmrKinds
  <2>2. job' = [job EXCEPT !["vitest"] = Child(e)] /\ UNCHANGED queue /\ clock' = clock + 1
    BY <1>7 DEF TestsEnd, reporter
  <2> HIDE DEF e
  <2>3. Child(e).todo = <<e>> /\ Values(<<e>>) = {e}
    BY DEF Child, NoJob, Values
  <2>4. "vitest" \in Clients \ {"vite"}
    BY DEF Clients
  <2>5. \A o \in Values(Child(e).todo) : ~IsHmr(o)
    BY <2>1, <2>3
  <2>6. clock' \in Nat /\ clock' >= clock
    BY <1>1, <2>2
  <2> QED BY <2>2, <2>4, <2>5, <2>6, OtherFramed
<1>8. "wrap" \in Clients \ {"vite"}
  BY DEF Clients
<1>9. ASSUME NEW class, NEW run, Wrap(class, run)
      PROVE  Framed
  <2> DEFINE x == [NoJob EXCEPT !.pc = "open", !.class = class, !.run = run]
  <2>1. job' = [job EXCEPT !["wrap"] = x] /\ UNCHANGED <<queue, clock>>
    BY <1>9 DEF Wrap, reporter
  <2>2. x.todo = <<>>
    BY DEF NoJob
  <2> HIDE DEF x
  <2>3. \A e \in Values(x.todo) : e \in Values(job["wrap"].todo)
    BY <1>1, <2>2
  <2>4. clock' \in Nat /\ clock' >= clock
    BY <1>1, <2>1
  <2> QED BY <1>8, <2>1, <2>3, <2>4, OtherFramed
<1>10. CASE Spawn
  <2> DEFINE x == [job["wrap"] EXCEPT !.pc = "running"]
  <2>1. job' = [job EXCEPT !["wrap"] = x] /\ UNCHANGED queue /\ clock' = clock + 1
    BY <1>1, <1>10 DEF Spawn, reporter
  <2>2. x.todo = job["wrap"].todo
    BY <1>1, <1>8 DEF Jobs
  <2> HIDE DEF x
  <2>3. \A e \in Values(x.todo) : e \in Values(job["wrap"].todo)
    BY <2>2
  <2>4. clock' \in Nat /\ clock' >= clock
    BY <1>1, <2>1
  <2> QED BY <1>8, <2>1, <2>3, <2>4, OtherFramed
<1>11. ASSUME NEW ok \in BOOLEAN, NEW parsed \in BOOLEAN, ChildExits(ok, parsed)
      PROVE  Framed
  <2> DEFINE todo == Outcome(job["wrap"].class, job["wrap"].run, ok, parsed)
             x == [job["wrap"] EXCEPT !.pc = "record", !.todo = todo]
  <2>1. job' = [job EXCEPT !["wrap"] = x] /\ UNCHANGED <<queue, clock>>
    BY <1>1, <1>11 DEF ChildExits, reporter
  <2>2. \A e \in Values(todo) : ~IsHmr(e)
    <3>1. job["wrap"].run \in Runs
      BY <1>1, <1>8 DEF Jobs
    <3> QED BY <3>1, OutcomeTyped DEF Values, IsHmr
  <2> HIDE DEF todo
  <2>3. x.todo = todo
    BY <1>1, <1>8 DEF Jobs
  <2> HIDE DEF x
  <2>4. \A e \in Values(x.todo) : ~IsHmr(e)
    BY <2>2, <2>3
  <2>5. clock' \in Nat /\ clock' >= clock
    BY <1>1, <2>1
  <2> QED BY <1>8, <2>1, <2>4, <2>5, OtherFramed
<1>12. CASE Exit
  <2>1. NoJob.todo = <<>>
    BY DEF NoJob
  <2>2. job' = [job EXCEPT !["wrap"] = NoJob] /\ UNCHANGED <<queue, clock>>
    BY <1>12 DEF Exit, reporter
  <2>3. \A e \in Values(NoJob.todo) : e \in Values(job["wrap"].todo)
    BY <1>1, <2>1
  <2>4. clock' \in Nat /\ clock' >= clock
    BY <1>1, <2>2
  <2> QED BY <1>8, <2>2, <2>3, <2>4, OtherFramed
<1>13. CASE Flush \/ AgentOpens \/ SinceRows \/ SinceCursor \/ UNCHANGED vars
            \/ (\E n \in Nat : Wait(n))
  <2>1. UNCHANGED <<queue, job>> /\ clock' \in Nat /\ clock' >= clock
    BY <1>1, <1>13 DEF Flush, AgentOpens, SinceRows, SinceCursor, vars, Wait, reporter
  <2> QED BY <1>2, <2>1
<1> QED BY <1>4, <1>5, <1>6, <1>7, <1>9, <1>10, <1>11, <1>12, <1>13
        DEF Next, Command, TestErrors

\* A report waits behind all the others.
LEMMA ReportOrder ==
    ASSUME TypeInv, FlushInv, WaitInv, NEW hash \in Identities \cup {None},
           NEW kind \in HmrKinds \cup {"run", None}, Report(hash, kind)
    PROVE  /\ WaitInv'
           /\ clock' \in Nat /\ clock' >= clock
           /\ \A e \in Pending' : e \in Pending \/ e.ts = clock + 1
<1> DEFINE e == IF hash # None THEN ErrorOf(hash, clock + 1, 0)
                ELSE IF kind = "run" THEN RunOf(clock + 1, 0)
                ELSE EventOf(kind, clock + 1, 0)
<1>1. e.ts = clock + 1
  BY DEF ErrorOf, RunOf, EventOf
<1>2. /\ queue' = IF Draining THEN Append(queue, e) ELSE queue
      /\ job' = IF Draining THEN job ELSE [job EXCEPT !["vite"] = Child(e)]
      /\ clock' = clock + 1
  BY DEF Report, Draining
<1> HIDE DEF e
<1>3. /\ e.ts = clock + 1
      /\ queue' = IF Draining THEN Append(queue, e) ELSE queue
      /\ job' = IF Draining THEN job ELSE [job EXCEPT !["vite"] = Child(e)]
      /\ clock' = clock + 1
  BY <1>1, <1>2
<1>4. /\ job \in [Clients -> Jobs] /\ "vite" \in Clients /\ clock \in Nat
      /\ queue \in Seq(Envelopes) /\ Values(<<>>) = {}
  BY DEF TypeInv, Clients, Values
<1>5. \A d \in Clients \ {"vite"} : job'[d] = job[d]
  BY <1>3, <1>4
<1>6. \A p \in Pending : p.ts <= clock /\ p.ts \in Nat
  BY PendingTyped DEF WaitInv
<1>7. CASE Draining
  <2>1. Shipping' = Shipping /\ Draining'
    BY <1>3, <1>7 DEF Shipping, Draining
  <2>2. /\ Len(queue') = Len(queue) + 1 /\ queue'[Len(queue) + 1] = e
        /\ \A i \in 1..Len(queue) : queue'[i] = queue[i]
        /\ Len(queue) \in Nat
    BY <1>3, <1>4, <1>7
  <2>3. \A j \in 1..Len(queue') : j \in 1..Len(queue) \/ j = Len(queue) + 1
    BY <2>2
  <2>4. Values(queue') \subseteq Values(queue) \cup {e}
    BY <2>2, <2>3 DEF Values
  <2>5. \A p \in Pending' : p \in Pending \/ p = e
    BY <2>1, <2>4 DEF Pending
  <2>6. \A p \in Pending : p.ts < e.ts
    BY <1>3, <1>4, <1>6
  <2>7. \A p \in Values(Shipping) : \A j \in 1..Len(queue') : p.ts < queue'[j].ts
    <3>1. \A p \in Values(Shipping) : p \in Pending
      BY DEF Pending
    <3> QED BY <2>2, <2>3, <2>6, <3>1 DEF WaitInv
  <2>8. \A i, j \in 1..Len(queue') : i < j => queue'[i].ts < queue'[j].ts
    <3>1. \A i \in 1..Len(queue) : queue[i] \in Pending
      BY DEF Pending, Values
    <3>2. SUFFICES ASSUME NEW i \in 1..Len(queue'), NEW j \in 1..Len(queue'), i < j
                   PROVE  queue'[i].ts < queue'[j].ts
      OBVIOUS
    <3>3. i \in 1..Len(queue)
      BY <2>2, <3>2
    <3> QED BY <2>2, <2>3, <2>6, <3>1, <3>2, <3>3 DEF WaitInv
  <2>9. \A p \in Pending' : p.ts <= clock'
    BY <1>3, <1>4, <1>6, <2>5
  <2> QED BY <1>3, <1>4, <1>5, <2>1, <2>5, <2>7, <2>8, <2>9 DEF WaitInv
<1>8. CASE ~Draining
  <2>1. queue = <<>> /\ queue' = <<>>
    BY <1>3, <1>8 DEF FlushInv
  <2>2. Shipping' = <<e>> /\ Draining'
    BY <1>3, <1>4, <1>8 DEF Shipping, Draining, Child, NoJob
  <2>3. Pending' = {e}
    BY <1>4, <2>1, <2>2 DEF Pending, Values
  <2>4. Len(Shipping') = 1 /\ Len(queue') = 0
    BY <2>1, <2>2
  <2> QED BY <1>3, <1>4, <1>5, <2>2, <2>3, <2>4 DEF WaitInv
<1> QED BY <1>7, <1>8

\* The next child takes the front of the queue.
LEMMA CloseOrder ==
    ASSUME TypeInv, WaitInv, Close
    PROVE  WaitInv' /\ UNCHANGED clock /\ Pending' \subseteq Pending
<1>1. /\ job \in [Clients -> Jobs] /\ "vite" \in Clients /\ clock \in Nat
      /\ queue \in Seq(Envelopes) /\ Values(<<>>) = {} /\ Len(<<>>) = 0
  BY DEF TypeInv, Clients, Values
<1>2. CASE queue = <<>>
  <2>1. /\ job' = [job EXCEPT !["vite"] = NoJob] /\ UNCHANGED <<queue, clock>>
    BY <1>2 DEF Close
  <2>2. Shipping' = <<>> /\ \A d \in Clients \ {"vite"} : job'[d] = job[d]
    BY <1>1, <2>1 DEF Shipping, NoJob
  <2>3. Framed
    BY <1>1, <2>1, <2>2 DEF Framed
  <2> QED BY <2>1, <2>3, WaitFrame
<1>3. CASE queue # <<>>
  <2>1. /\ job' = [job EXCEPT !["vite"] = Child(Head(queue))]
        /\ queue' = Tail(queue) /\ UNCHANGED clock
    BY <1>3 DEF Close, Pop
  <2>2. /\ Len(queue) \in Nat \ {0} /\ Head(queue) = queue[1]
        /\ Len(queue') = Len(queue) - 1
        /\ \A j \in 1..Len(queue') : j + 1 \in 1..Len(queue) /\ queue'[j] = queue[j + 1]
    BY <1>1, <1>3, <2>1
  <2>3. Shipping' = <<queue[1]>> /\ Draining'
    BY <1>1, <2>1, <2>2 DEF Shipping, Draining, Child, NoJob
  <2>4. \A d \in Clients \ {"vite"} : job'[d] = job[d]
    BY <1>1, <2>1
  <2>5. Values(Shipping') = {queue[1]} /\ Len(Shipping') = 1
    BY <2>3 DEF Values
  <2>6. Pending' \subseteq Pending
    <3>1. queue[1] \in Values(queue)
      BY <2>2 DEF Values
    <3>2. Values(queue') \subseteq Values(queue)
      BY <2>2 DEF Values
    <3> QED BY <2>5, <3>1, <3>2 DEF Pending
  <2>7. \A j \in 1..Len(queue') : queue[1].ts < queue'[j].ts
    BY <2>2 DEF WaitInv
  <2>8. \A i, j \in 1..Len(queue') : i < j => queue'[i].ts < queue'[j].ts
    <3>1. \A i, j \in 1..Len(queue') : i < j => i + 1 < j + 1
      BY <2>2
    <3> QED BY <2>2, <3>1 DEF WaitInv
  <2> QED BY <2>1, <2>3, <2>4, <2>5, <2>6, <2>7, <2>8 DEF WaitInv
<1> QED BY <1>2, <1>3

LEMMA OrderStep ==
    ASSUME TypeInv, FlushInv, WaitInv, RowsInv, Kept, [Next]_vars
    PROVE  WaitInv' /\ RowsInv'
<1>1. ASSUME NEW hash \in Identities \cup {None},
             NEW kind \in HmrKinds \cup {"run", None}, Report(hash, kind)
      PROVE  WaitInv' /\ RowsInv'
  <2>1. NoNewEvent
    BY <1>1, SinkUnchanged DEF Report, TypeInv
  <2> QED BY <1>1, <2>1, ReportOrder, RowsFrame
<1>2. CASE Close
  <2>1. NoNewEvent
    BY <1>2, SinkUnchanged DEF Close, TypeInv
  <2>2. clock' \in Nat /\ clock' >= clock
    BY <1>2, CloseOrder DEF TypeInv
  <2> QED BY <1>2, <2>1, <2>2, CloseOrder, RowsFrame
<1>3. CASE /\ ~Close
           /\ \A hash \in Identities \cup {None}, kind \in HmrKinds \cup {"run", None} :
                ~Report(hash, kind)
  <2>1. Framed
    BY <1>3, FramedStep
  <2>2. WaitInv' /\ Pending' \subseteq Pending /\ clock' \in Nat /\ clock' >= clock
    BY <2>1, WaitFrame DEF Framed
  <2>3. CASE NoNewEvent
    BY <2>2, <2>3, RowsFrame
  <2>4. ASSUME NEW c \in Clients, Record(c), Head(job[c].todo).type = "event"
        PROVE  RowsInv'
    BY <2>4, RecordRows
  <2> QED BY <2>2, <2>3, <2>4, FileSteps
<1> QED BY <1>1, <1>2, <1>3

(***************************************************************************)
(* What the vite plugin reports arrives: its events are in the sink in the *)
(* order they happened, and a flush ends once what was reported before it  *)
(* has been shipped or dropped (SinkReporter in report.ts).                *)
(***************************************************************************)
THEOREM ReportsAreOrdered == Spec => []ReportsArrive
<1>1. TypeInv /\ FlushInv /\ WaitInv /\ RowsInv /\ [Next]_vars =>
        TypeInv' /\ FlushInv' /\ WaitInv' /\ RowsInv'
  BY FileSteps, TypeStep, FlushStep, OrderStep
<1>2. TypeInv /\ FlushInv /\ RowsInv => ReportsArrive
  <2> SUFFICES ASSUME TypeInv, FlushInv, RowsInv PROVE ReportsArrive
    OBVIOUS
  <2>1. FlushIsHonest
    BY DEF FlushInv, FlushIsHonest, Draining
  <2>2. DOMAIN sinks = 1..Path
    BY DEF TypeInv, SinksInv, Path
  <2>3. ReportsInOrder
    BY <2>2 DEF RowsInv, ReportsInOrder
  <2> QED BY <2>1, <2>3 DEF ReportsArrive
<1> QED BY <1>1, <1>2, TypeInit, FlushInit, OrderInit, PTL DEF Spec

----------------------------------------------------------------------------
(* What becomes of the rows.                                               *)

\* An error that is there was there, and a run.
NoNewError ==
    \A n \in 1..Path' : \A id \in DOMAIN sinks'[n].errors :
        /\ n \in 1..Path
        /\ id \in DOMAIN sinks[n].errors
        /\ sinks'[n].errors[id] = sinks[n].errors[id]

NoNewRun ==
    \A n \in 1..Path' : \A run \in DOMAIN sinks'[n].runs :
        /\ n \in 1..Path
        /\ run \in DOMAIN sinks[n].runs
        /\ sinks'[n].runs[run] = sinks[n].runs[run]

\* One file changes.
LEMMA OneFile ==
    ASSUME SinksInv, NEW i \in 1..Path, NEW x, sinks' = [sinks EXCEPT ![i] = x]
    PROVE  /\ Path' = Path
           /\ sinks'[i] = x
           /\ \A n \in 1..Path : n # i => sinks'[n] = sinks[n]
BY DEF SinksInv, Path

LEMMA TidyRows ==
    ASSUME TypeInv, sinks' = [sinks EXCEPT ![Path] = Retain(@, clock)]
    PROVE  NoNewError /\ NoNewRun
<1> DEFINE s == sinks[Path]
<1>1. PICK errors, events :
        Retain(s, clock) = [s EXCEPT !.errors = Keep(@, errors),
                                     !.events = Keep(@, events)]
  BY Zenon DEF Retain
<1>2. Path \in 1..Path /\ Filed(s)
  BY DEF TypeInv, SinksInv
<1> DEFINE new == Retain(s, clock)
<1>3. new.errors = Keep(s.errors, errors) /\ new.runs = s.runs
  BY <1>1, <1>2 DEF Filed
<1>4. /\ Path' = Path /\ sinks'[Path] = new
      /\ \A n \in 1..Path : n # Path => sinks'[n] = sinks[n]
  BY <1>2, OneFile DEF TypeInv
<1> HIDE DEF new
<1>5. NoNewRun
  BY <1>3, <1>4 DEF NoNewRun
<1>6. \A id \in DOMAIN new.errors : id \in DOMAIN s.errors /\ new.errors[id] = s.errors[id]
  BY <1>3 DEF Keep
<1>7. NoNewError
  BY <1>4, <1>6 DEF NoNewError
<1> QED BY <1>5, <1>7

LEMMA AddedRows ==
    ASSUME TypeInv, sinks' = Append(sinks, EmptySink)
    PROVE  NoNewError /\ NoNewRun
<1> DEFINE S == Values(sinks)
<1>1. sinks \in Seq(S) /\ Path = Len(sinks) /\ Path \in Nat
  BY DEF TypeInv, SinksInv, Path
<1>2. Path' = Path + 1
  BY SinkAdded DEF TypeInv
<1>3. /\ sinks'[Path + 1] = EmptySink
      /\ \A n \in 1..Path : sinks'[n] = sinks[n]
  BY <1>1
<1>4. \A n \in 1..Path' : n \in 1..Path \/ n = Path + 1
  BY <1>1, <1>2
<1>5. DOMAIN EmptySink.errors = {} /\ DOMAIN EmptySink.runs = {}
  BY DEF EmptySink
<1> QED BY <1>3, <1>4, <1>5 DEF NoNewError, NoNewRun

\* All but a record and the start of a wrapped command.
LEMMA QuietStep ==
    ASSUME TypeInv, [Next]_vars, ~Spawn, \A c \in Clients : ~Record(c)
    PROVE  NoNewError /\ NoNewRun /\ UNCHANGED signal
<1>1. ASSUME NEW c \in Clients, Open(c) \/ AgentOpens
      PROVE  NoNewError /\ NoNewRun /\ UNCHANGED signal
  BY <1>1, TidyRows DEF Open, AgentOpens
<1>2. ASSUME NEW c \in Clients, Heal(c)
      PROVE  NoNewError /\ NoNewRun /\ UNCHANGED signal
  BY <1>2, AddedRows DEF Heal
<1>3. ASSUME UNCHANGED sinks
      PROVE  NoNewError /\ NoNewRun
  BY <1>3 DEF NoNewError, NoNewRun, Path
<1>4. ASSUME NEW c \in Clients, Leave(c)
      PROVE  UNCHANGED <<sinks, signal>>
  BY <1>4 DEF Leave
<1>5. ASSUME NEW hash, NEW kind, Report(hash, kind) \/ TestsEnd(hash)
      PROVE  UNCHANGED <<sinks, signal>>
  BY <1>5 DEF Report, TestsEnd
<1>6. ASSUME Flush \/ Close \/ Exit \/ SinceRows \/ SinceCursor \/ UNCHANGED vars
      PROVE  UNCHANGED <<sinks, signal>>
  BY <1>6 DEF Flush, Close, Exit, SinceRows, SinceCursor, vars
<1>7. ASSUME NEW class, NEW run, NEW ok, NEW parsed, NEW n,
             Wrap(class, run) \/ ChildExits(ok, parsed) \/ Wait(n)
      PROVE  UNCHANGED <<sinks, signal>>
  BY <1>7 DEF Wrap, ChildExits, Wait
<1> QED BY <1>1, <1>2, <1>3, <1>4, <1>5, <1>6, <1>7 DEF Next, Command, Clients

\* What a command records, when, and in which file.
Written(c) == Head(job[c].todo)
At(c) == IF c = "wrap" THEN clock + 1 ELSE Written(c).ts
File(c) == sinks[job[c].sink]

LEMMA RecordedIn ==
    ASSUME TypeInv, NEW c \in Clients, Record(c)
    PROVE  /\ job[c].sink \in 1..Path /\ Filed(File(c)) /\ Path' = Path
           /\ sinks'[job[c].sink] = Recorded(File(c), Written(c), At(c))
           /\ \A n \in 1..Path : n # job[c].sink => sinks'[n] = sinks[n]
           /\ Written(c) \in Envelopes
           /\ Written(c) \in Values(job[c].todo)
           /\ At(c) \in Nat
<1>1. /\ job[c].pc = "record" /\ job[c].todo # <<>>
      /\ sinks' = [sinks EXCEPT ![job[c].sink] = Recorded(File(c), Written(c), At(c))]
  BY DEF Record, Written, At, File
<1>2. job[c].sink \in 1..Path /\ Filed(File(c))
  BY <1>1 DEF TypeInv, Using, SinksInv, File
<1>3. Written(c) \in Envelopes /\ Written(c).ts \in Nat
  BY <1>1, HeadTyped DEF Envelopes, Written
<1>4. Written(c) \in Values(job[c].todo)
  <2>1. job[c].todo \in Seq(Envelopes)
    BY DEF TypeInv, Jobs
  <2> QED BY <1>1, <2>1 DEF Values, Written
<1>5. At(c) \in Nat
  BY <1>3 DEF At, TypeInv
<1> DEFINE x == Recorded(File(c), Written(c), At(c))
<1>6. sinks' = [sinks EXCEPT ![job[c].sink] = x]
  BY <1>1
<1> HIDE DEF x
<1>7. /\ Path' = Path /\ sinks'[job[c].sink] = x
      /\ \A n \in 1..Path : n # job[c].sink => sinks'[n] = sinks[n]
  BY <1>2, <1>6, OneFile DEF TypeInv
<1> QED BY <1>2, <1>3, <1>4, <1>5, <1>7 DEF x

----------------------------------------------------------------------------
(* One row for an identity.                                                *)

Counted(sink) ==
    /\ \A id \in DOMAIN sink.errors :
         /\ DOMAIN sink.errors[id] = {"hash", "first", "last", "count", "run"}
         /\ sink.errors[id].count \in Nat \ {0}
    /\ \A a, b \in DOMAIN sink.errors :
         sink.errors[a].hash = sink.errors[b].hash => a = b

CountInv == \A n \in 1..Path : Counted(sinks[n])

\* The row of a report: the one of its identity, or one under the next id.
LEMMA RecordErrorRow ==
    ASSUME NEW s, Filed(s), Counted(s), NEW hash, NEW ts, NEW run,
           NEW new, new = RecordError(s, hash, ts, run)
    PROVE  /\ Counted(new)
           /\ new.events = s.events /\ new.runs = s.runs
           /\ \E id :
                /\ RowOf(new, hash) = {id}
                /\ DOMAIN new.errors = DOMAIN s.errors \cup {id}
                /\ id \in DOMAIN s.errors \/ id = s.lastError + 1
                /\ id \in DOMAIN s.errors => s.errors[id].hash = hash
                /\ new.errors[id].hash = hash /\ new.errors[id].last = ts
                /\ new.errors[id].run = run
                /\ \A other \in DOMAIN s.errors \ {id} : new.errors[other] = s.errors[other]
<1> DEFINE fresh == RowOf(s, hash) = {}
           id == IF fresh THEN s.lastError + 1 ELSE CHOOSE i \in RowOf(s, hash) : TRUE
           row == IF fresh
                  THEN [hash |-> hash, first |-> ts, last |-> ts, count |-> 1, run |-> run]
                  ELSE [s.errors[id] EXCEPT !.count = @ + 1, !.last = ts, !.run = run]
<1>1. /\ fresh => id = s.lastError + 1 /\ id \notin DOMAIN s.errors
      /\ ~fresh => id \in DOMAIN s.errors /\ s.errors[id].hash = hash
  BY DEF RowOf, Filed
<1>2. /\ new.errors = Put(s.errors, id, row)
      /\ new.events = s.events /\ new.runs = s.runs
  <2>1. new = [s EXCEPT !.errors = Put(@, id, row), !.lastError = Max({@, id})]
    BY Zenon DEF RecordError
  <2> HIDE DEF id, row
  <2> QED BY <2>1 DEF Filed
<1>3. /\ DOMAIN row = {"hash", "first", "last", "count", "run"}
      /\ row.hash = hash /\ row.last = ts /\ row.run = run /\ row.count \in Nat \ {0}
  <2>1. CASE fresh
    BY <2>1
  <2>2. CASE ~fresh
    <3>1. /\ id \in DOMAIN s.errors /\ s.errors[id].hash = hash
          /\ DOMAIN s.errors[id] = {"hash", "first", "last", "count", "run"}
          /\ s.errors[id].count \in Nat \ {0}
      BY <1>1, <2>2 DEF Counted
    <3>2. row = [s.errors[id] EXCEPT !.count = @ + 1, !.last = ts, !.run = run]
      BY <2>2
    <3> HIDE DEF id, row
    <3> QED BY <3>1, <3>2
  <2> QED BY <2>1, <2>2
<1>4. \A other \in DOMAIN s.errors \ {id} : s.errors[other].hash # hash
  <2>1. CASE fresh
    BY <2>1 DEF RowOf
  <2>2. CASE ~fresh
    BY <1>1, <2>2 DEF Counted
  <2> QED BY <2>1, <2>2
<1> HIDE DEF id, row, fresh
<1>5. /\ DOMAIN new.errors = DOMAIN s.errors \cup {id}
      /\ new.errors[id] = row
      /\ \A other \in DOMAIN s.errors \ {id} : new.errors[other] = s.errors[other]
  BY <1>2 DEF Put
<1>6. RowOf(new, hash) = {id}
  BY <1>3, <1>4, <1>5 DEF RowOf
<1>7. Counted(new)
  <2>1. \A a \in DOMAIN new.errors :
          /\ DOMAIN new.errors[a] = {"hash", "first", "last", "count", "run"}
          /\ new.errors[a].count \in Nat \ {0}
    BY <1>3, <1>5 DEF Counted
  <2>2. ASSUME NEW a \in DOMAIN new.errors, NEW b \in DOMAIN new.errors,
               new.errors[a].hash = new.errors[b].hash
        PROVE  a = b
    BY <1>3, <1>4, <1>5, <2>2 DEF Counted
  <2> QED BY <2>1, <2>2 DEF Counted
<1> QED BY <1>1, <1>2, <1>3, <1>5, <1>6, <1>7

\* What is recorded but an error leaves the errors alone.
LEMMA NotAnError ==
    ASSUME NEW s, Filed(s), NEW e, NEW ts, e.type \in {"event", "run"}
    PROVE  Recorded(s, e, ts).errors = s.errors
BY DEF Recorded, RecordEvent, RecordRun, Filed

LEMMA SpawnErrors ==
    ASSUME TypeInv, Spawn
    PROVE  NoNewError
<1> DEFINE i == job["wrap"].sink
           x == RecordRun(sinks[i], job["wrap"].run, clock + 1)
<1>1. job["wrap"].pc = "spawn" /\ sinks' = [sinks EXCEPT ![i] = x]
  BY Zenon DEF Spawn
<1>2. i \in 1..Path /\ Filed(sinks[i])
  BY <1>1 DEF TypeInv, Using, SinksInv, Clients
<1>3. x.errors = sinks[i].errors
  BY <1>2 DEF RecordRun, Filed
<1> HIDE DEF i, x
<1>4. /\ Path' = Path /\ sinks'[i] = x
      /\ \A n \in 1..Path : n # i => sinks'[n] = sinks[n]
  BY <1>1, <1>2, OneFile DEF TypeInv
<1> QED BY <1>3, <1>4 DEF NoNewError

LEMMA RecordedCounted ==
    ASSUME NEW s, Filed(s), Counted(s), NEW e, e.type \in {"error", "event", "run"}, NEW ts
    PROVE  Counted(Recorded(s, e, ts))
<1>1. CASE e.type = "error"
  <2> DEFINE hash == e.hash
             run == e.run
             new == RecordError(s, hash, ts, run)
  <2>1. Recorded(s, e, ts) = new
    BY <1>1 DEF Recorded
  <2>2. new = RecordError(s, hash, ts, run)
    OBVIOUS
  <2> HIDE DEF new, hash, run
  <2> QED BY <2>1, <2>2, RecordErrorRow
<1>2. CASE e.type # "error"
  <2>1. Recorded(s, e, ts).errors = s.errors
    BY <1>2, NotAnError
  <2> QED BY <2>1 DEF Counted
<1> QED BY <1>1, <1>2

LEMMA CountStep ==
    ASSUME TypeInv, CountInv, Kept, [Next]_vars
    PROVE  CountInv'
<1>1. ASSUME NoNewError
      PROVE  CountInv'
  BY <1>1 DEF CountInv, NoNewError, Counted
<1>2. CASE Spawn
  BY <1>1, <1>2, SpawnErrors
<1>3. ASSUME NEW c \in Clients, Record(c)
      PROVE  CountInv'
  <2>1. Counted(File(c)) /\ Filed(File(c))
    BY <1>3, RecordedIn DEF CountInv, File
  <2>2. Written(c).type \in {"error", "event", "run"}
    BY <1>3, RecordedIn DEF Envelopes
  <2>3. Counted(Recorded(File(c), Written(c), At(c)))
    BY <2>1, <2>2, RecordedCounted
  <2> QED BY <1>3, <2>3, RecordedIn DEF CountInv
<1> QED BY <1>1, <1>2, <1>3, QuietStep

(***************************************************************************)
(* Types, for every store and any commands beside each other: one row for  *)
(* an identity whatever repeats, ids within those given out, and a command *)
(* past its opening that uses a file there was (record_error and open_at   *)
(* in store.rs).                                                           *)
(***************************************************************************)
THEOREM SniperTypeCorrect == Spec => []TypeOK
<1>1. Init => TypeInv /\ CountInv
  <2>1. Init => CountInv
    BY DEF Init, CountInv, Counted, EmptySink, Path
  <2> QED BY <2>1, TypeInit
<1>2. TypeInv /\ CountInv /\ [Next]_vars => TypeInv' /\ CountInv'
  BY FileSteps, TypeStep, CountStep
<1>3. TypeInv /\ CountInv => TypeOK
  <2> SUFFICES ASSUME TypeInv, CountInv PROVE TypeOK
    OBVIOUS
  <2>1. DOMAIN sinks = 1..Path
    BY DEF TypeInv, SinksInv, Path
  <2>2. \A c \in Clients : job[c].pc \in {"idle", "open"} \/ job[c].sink \in DOMAIN sinks
    BY <2>1 DEF TypeInv, Jobs, Using
  <2>3. ASSUME NEW n \in DOMAIN sinks
        PROVE  /\ \A a, b \in DOMAIN sinks[n].errors :
                    sinks[n].errors[a].hash = sinks[n].errors[b].hash => a = b
               /\ DOMAIN sinks[n].errors \subseteq 1..sinks[n].lastError
               /\ DOMAIN sinks[n].events \subseteq 1..sinks[n].lastEvent
               /\ \A id \in DOMAIN sinks[n].errors : sinks[n].errors[id].count >= 1
    BY <2>1 DEF TypeInv, SinksInv, Filed, CountInv, Counted
  <2> QED BY <2>2, <2>3 DEF TypeOK
<1> QED BY <1>1, <1>2, <1>3, PTL DEF Spec

----------------------------------------------------------------------------
(* Who sends what.                                                         *)

\* Only the test reporter has errors of tests, and the plugin starts runs.
CanSend(c, e) ==
    /\ e.type # "event" => e.kind = None
    /\ e.type = "event" /\ e.kind = "test-pass" => c # "vite"
    /\ e.type = "error" /\ SurfaceOf[e.hash] = "vitest" => c = "vitest"
    /\ e.type = "run" => c = "vite" /\ e.run \in Nat

SentInv ==
    /\ \A c \in Clients : \A e \in Values(job[c].todo) : CanSend(c, e)
    /\ \A e \in Values(queue) : CanSend("vite", e)
    /\ Len(job["vitest"].todo) <= 1
    /\ \A e \in Values(job["vitest"].todo) : e.ts <= clock
    /\ job["wrap"].pc # "idle" => job["wrap"].run \in Nat

\* What the test reporter has to record it had before, or is of now.
TestsLater ==
    \A e \in Values(job'["vitest"].todo) :
        e \in Values(job["vitest"].todo) \/ (e.ts \in Nat /\ e.ts > clock)

LEMMA TodoTyped ==
    ASSUME TypeInv, NEW c \in Clients
    PROVE  \A e \in Values(job[c].todo) : e \in Envelopes /\ e.ts \in Nat
<1>1. job[c].todo \in Seq(Envelopes)
  BY DEF TypeInv, Jobs
<1>2. \A e \in Values(job[c].todo) : e \in Envelopes
  BY <1>1 DEF Values
<1> QED BY <1>2 DEF Envelopes

LEMMA SentInit == Init => SentInv
<1> SUFFICES ASSUME Init PROVE SentInv
  OBVIOUS
<1>1. /\ queue = <<>>
      /\ \A c \in Clients : job[c].todo = <<>> /\ job[c].pc = "idle"
      /\ Values(<<>>) = {} /\ Len(<<>>) = 0
  BY DEF Init, NoJob, Values
<1> QED BY <1>1 DEF SentInv, Clients

\* A client has something else to record.
LEMMA SentChanged ==
    ASSUME TypeInv, SentInv, NEW c \in Clients, NEW x,
           job' = [job EXCEPT ![c] = x],
           clock' \in Nat, clock' >= clock,
           \A e \in Values(x.todo) : CanSend(c, e),
           \A e \in Values(queue') : CanSend("vite", e),
           c = "vitest" =>
             /\ Len(x.todo) <= 1
             /\ \A e \in Values(x.todo) : e \in Values(job[c].todo) \/ e.ts = clock'
             /\ \A e \in Values(x.todo) : e \in Values(job[c].todo) \/ e.ts > clock,
           c = "wrap" /\ x.pc # "idle" => x.run \in Nat
    PROVE  SentInv' /\ TestsLater
<1>1. /\ \A d \in Clients : job'[d] = IF d = c THEN x ELSE job[d]
      /\ "vitest" \in Clients /\ "wrap" \in Clients /\ clock \in Nat
  BY DEF TypeInv, Clients
<1>2. \A e \in Values(job["vitest"].todo) : e.ts \in Nat
  BY <1>1, TodoTyped
<1>3. \A d \in Clients : \A e \in Values(job'[d].todo) : CanSend(d, e)
  BY <1>1 DEF SentInv
<1>4. /\ Len(job'["vitest"].todo) <= 1
      /\ TestsLater
      /\ \A e \in Values(job'["vitest"].todo) :
           e \in Values(job["vitest"].todo) \/ e.ts = clock'
  BY <1>1 DEF SentInv, TestsLater
<1>5. \A e \in Values(job'["vitest"].todo) : e.ts <= clock'
  BY <1>1, <1>2, <1>4 DEF SentInv
<1>6. job'["wrap"].pc # "idle" => job'["wrap"].run \in Nat
  BY <1>1 DEF SentInv
<1> QED BY <1>3, <1>4, <1>5, <1>6 DEF SentInv

\* Nobody does.
LEMMA SentSame ==
    ASSUME TypeInv, SentInv, UNCHANGED queue, clock' \in Nat, clock' >= clock,
           \A c \in Clients : /\ job'[c].todo = job[c].todo
                              /\ job'[c].run = job[c].run
                              /\ job'[c].pc = "idle" <=> job[c].pc = "idle"
    PROVE  SentInv' /\ TestsLater
<1>1. "vitest" \in Clients /\ "wrap" \in Clients /\ clock \in Nat
  BY DEF TypeInv, Clients
<1>2. \A e \in Values(job["vitest"].todo) : e.ts \in Nat
  BY <1>1, TodoTyped
<1> QED BY <1>1, <1>2 DEF SentInv, TestsLater

LEMMA ReportSent ==
    ASSUME TypeInv, SentInv, NEW hash, NEW kind, Report(hash, kind),
           \/ hash \in Identities \ (TestErrors \cup WrapErrors) /\ kind = None
           \/ hash = None /\ kind \in HmrKinds \cup {"run"}
    PROVE  SentInv' /\ TestsLater
<1> DEFINE e == IF hash # None THEN ErrorOf(hash, clock + 1, 0)
                ELSE IF kind = "run" THEN RunOf(clock + 1, 0)
                ELSE EventOf(kind, clock + 1, 0)
<1>1. CanSend("vite", e)
  <2>1. CASE hash # None
    BY <2>1 DEF CanSend, ErrorOf, TestErrors
  <2>2. CASE hash = None
    <3>1. kind \in HmrKinds \cup {"run"} /\ kind # "test-pass"
      BY <2>2, SniperAssumption DEF HmrKinds
    <3> QED BY <2>2, <3>1 DEF CanSend, EventOf, RunOf
  <2> QED BY <2>1, <2>2
<1>2. /\ queue' = IF job["vite"].pc # "idle" THEN Append(queue, e) ELSE queue
      /\ job' = IF job["vite"].pc # "idle" THEN job
                ELSE [job EXCEPT !["vite"] = Child(e)]
      /\ clock' = clock + 1
  BY DEF Report
<1>3. clock' \in Nat /\ clock' >= clock /\ queue \in Seq(Envelopes)
  BY <1>2 DEF TypeInv
<1> HIDE DEF e
<1>4. CASE job["vite"].pc # "idle"
  <2>1. queue' = Append(queue, e) /\ job' = job
    BY <1>2, <1>4
  <2>2. Values(queue') \subseteq Values(queue) \cup {e}
    <3>1. /\ Len(queue') = Len(queue) + 1 /\ queue'[Len(queue) + 1] = e
          /\ \A i \in 1..Len(queue) : queue'[i] = queue[i]
          /\ Len(queue) \in Nat
      BY <1>3, <2>1
    <3>2. \A j \in 1..Len(queue') : j \in 1..Len(queue) \/ j = Len(queue) + 1
      BY <3>1
    <3> QED BY <3>1, <3>2 DEF Values
  <2>3. \A o \in Values(queue') : CanSend("vite", o)
    BY <1>1, <2>2 DEF SentInv
  <2> DEFINE x == job["vite"]
  <2>4. job' = [job EXCEPT !["vite"] = x]
    BY <2>1 DEF TypeInv
  <2>5. "vite" \in Clients /\ \A o \in Values(x.todo) : CanSend("vite", o)
    BY DEF SentInv, Clients
  <2> HIDE DEF x
  <2> QED BY <1>3, <2>3, <2>4, <2>5, SentChanged
<1>5. CASE ~(job["vite"].pc # "idle")
  <2>1. queue' = queue /\ job' = [job EXCEPT !["vite"] = Child(e)]
    BY <1>2, <1>5
  <2>2. Child(e).todo = <<e>> /\ Values(<<e>>) = {e}
    BY DEF Child, NoJob, Values
  <2>3. /\ "vite" \in Clients
        /\ \A o \in Values(Child(e).todo) : CanSend("vite", o)
        /\ \A o \in Values(queue') : CanSend("vite", o)
    BY <1>1, <2>1, <2>2 DEF SentInv, Clients
  <2> QED BY <1>3, <2>1, <2>3, SentChanged
<1> QED BY <1>4, <1>5

LEMMA TestsEndSent ==
    ASSUME TypeInv, SentInv, NEW hash \in TestErrors \cup {None}, TestsEnd(hash)
    PROVE  SentInv' /\ TestsLater
<1> DEFINE e == IF hash # None THEN ErrorOf(hash, clock + 1, None)
                ELSE EventOf("test-pass", clock + 1, None)
<1>1. CanSend("vitest", e) /\ e.ts = clock + 1
  BY DEF CanSend, ErrorOf, EventOf
<1>2. /\ job' = [job EXCEPT !["vitest"] = Child(e)]
      /\ UNCHANGED queue /\ clock' = clock + 1
  BY DEF TestsEnd, reporter
<1> HIDE DEF e
<1>3. Child(e).todo = <<e>> /\ Values(<<e>>) = {e} /\ Len(<<e>>) = 1
  BY DEF Child, NoJob, Values
<1>4. "vitest" \in Clients /\ \A o \in Values(Child(e).todo) : CanSend("vitest", o)
  BY <1>1, <1>3 DEF Clients
<1>5. clock' \in Nat /\ clock' >= clock /\ e.ts = clock' /\ e.ts > clock
  BY <1>1, <1>2 DEF TypeInv
<1>6. \A o \in Values(queue') : CanSend("vite", o)
  BY <1>2 DEF SentInv
<1>7. /\ Len(Child(e).todo) <= 1
      /\ \A o \in Values(Child(e).todo) : o.ts = clock' /\ o.ts > clock
  BY <1>3, <1>5
<1> QED BY <1>2, <1>4, <1>5, <1>6, <1>7, SentChanged

LEMMA CloseSent ==
    ASSUME TypeInv, SentInv, Close
    PROVE  SentInv' /\ TestsLater
<1>1. UNCHANGED clock /\ clock' \in Nat /\ clock' >= clock /\ "vite" \in Clients
  BY DEF Close, TypeInv, Clients
<1>2. CASE queue = <<>>
  <2>1. job' = [job EXCEPT !["vite"] = NoJob] /\ UNCHANGED queue
    BY <1>2 DEF Close
  <2>2. Values(NoJob.todo) = {} /\ \A o \in Values(queue') : CanSend("vite", o)
    BY <2>1 DEF NoJob, Values, SentInv
  <2> QED BY <1>1, <2>1, <2>2, SentChanged
<1>3. CASE queue # <<>>
  <2>1. job' = [job EXCEPT !["vite"] = Child(Head(queue))] /\ queue' = Tail(queue)
    BY <1>3 DEF Close, Pop
  <2>2. /\ Head(queue) \in Values(queue)
        /\ Values(queue') \subseteq Values(queue)
    <3>1. queue \in Seq(Envelopes)
      BY DEF TypeInv
    <3> QED BY <1>3, <2>1, <3>1 DEF Values
  <2> DEFINE e == Head(queue)
  <2>3. Child(e).todo = <<e>> /\ Values(<<e>>) = {e}
    BY DEF Child, NoJob, Values
  <2>4. CanSend("vite", e) /\ \A o \in Values(queue') : CanSend("vite", o)
    BY <2>2 DEF SentInv
  <2>5. job' = [job EXCEPT !["vite"] = Child(e)]
    BY <2>1
  <2> HIDE DEF e
  <2>6. \A o \in Values(Child(e).todo) : CanSend("vite", o)
    BY <2>3, <2>4
  <2> QED BY <1>1, <2>4, <2>5, <2>6, SentChanged
<1> QED BY <1>2, <1>3

\* The outcome of a command: an event of it, or errors of the wrapper.
LEMMA OutcomeSent ==
    ASSUME NEW class, NEW run \in Runs, NEW ok, NEW parsed
    PROVE  \A e \in Values(Outcome(class, run, ok, parsed)) : CanSend("wrap", e)
<1>1. \A hash \in WrapErrors : CanSend("wrap", ErrorOf(hash, 0, run))
  <2>1. \A hash \in WrapErrors : SurfaceOf[hash] # "vitest"
    BY SniperAssumption DEF TestErrors
  <2> QED BY <2>1 DEF CanSend, ErrorOf
<1>2. \A kind \in {"test-pass", "build-ok"} : CanSend("wrap", EventOf(kind, 0, run))
  BY DEF CanSend, EventOf
<1>3. ASSUME NEW e
      PROVE  Values(<<e>>) = {e}
  BY DEF Values
<1>4. CASE ok
  <2>1. \E kind \in {"test-pass", "build-ok"} :
          Outcome(class, run, ok, parsed) = <<EventOf(kind, 0, run)>>
    BY <1>4 DEF Outcome
  <2> QED BY <1>2, <1>3, <2>1
<1>5. CASE ~ok /\ class = "tsc" /\ parsed
  <2>1. Outcome(class, run, ok, parsed) =
          <<ErrorOf("TS1", 0, run), ErrorOf("TS2", 0, run), ErrorOf("summary", 0, run)>>
    BY <1>5 DEF Outcome, Diagnostics
  <2>2. Values(Outcome(class, run, ok, parsed)) =
          {ErrorOf("TS1", 0, run), ErrorOf("TS2", 0, run), ErrorOf("summary", 0, run)}
    BY <2>1 DEF Values
  <2> QED BY <1>1, <2>2 DEF WrapErrors
<1>6. CASE ~ok /\ ~(class = "tsc" /\ parsed)
  <2>1. Outcome(class, run, ok, parsed) = <<ErrorOf("exit", 0, run)>>
    BY <1>6 DEF Outcome
  <2> QED BY <1>1, <1>3, <2>1 DEF WrapErrors
<1> QED BY <1>4, <1>5, <1>6

LEMMA SentStep ==
    ASSUME TypeInv, SentInv, [Next]_vars
    PROVE  SentInv' /\ TestsLater /\ clock' \in Nat /\ clock' >= clock
<1>1. /\ job \in [Clients -> Jobs] /\ clock \in Nat
      /\ \A c \in Clients : job[c] \in Jobs
  BY DEF TypeInv
<1>2. clock' \in Nat /\ clock' >= clock
  <2>1. ASSUME NEW c \in Clients, Command(c)
        PROVE  clock' = clock \/ clock' = clock + 1
    BY <2>1 DEF Command, Open, Heal, Record, Leave
  <2>2. ASSUME NEW hash, NEW kind, Report(hash, kind) \/ TestsEnd(hash)
        PROVE  clock' = clock + 1
    BY <2>2 DEF Report, TestsEnd
  <2>3. ASSUME Flush \/ Close \/ Exit \/ Spawn \/ AgentOpens \/ SinceRows \/ SinceCursor
               \/ UNCHANGED vars
        PROVE  clock' = clock \/ clock' = clock + 1
    BY <2>3 DEF Flush, Close, Exit, Spawn, AgentOpens, SinceRows, SinceCursor, vars
  <2>4. ASSUME NEW class, NEW run, NEW ok, NEW parsed, Wrap(class, run) \/ ChildExits(ok, parsed)
        PROVE  clock' = clock
    BY <2>4 DEF Wrap, ChildExits
  <2>5. ASSUME NEW n \in Nat, Wait(n)
        PROVE  clock' = clock + n
    BY <2>5 DEF Wait
  <2> QED BY <1>1, <2>1, <2>2, <2>3, <2>4, <2>5 DEF Next
<1>3. ASSUME NEW c \in Clients, Open(c)
      PROVE  SentInv' /\ TestsLater
  <2> DEFINE x == [job[c] EXCEPT !.pc = IF job[c].class = None THEN "record" ELSE "spawn",
                                 !.sink = Path]
  <2>1. job[c].pc = "open" /\ job' = [job EXCEPT ![c] = x] /\ UNCHANGED queue
    BY <1>3 DEF Open, TypeInv, reporter
  <2>2. x.todo = job[c].todo /\ x.run = job[c].run /\ x.pc # "idle"
    BY <1>1 DEF Jobs
  <2> HIDE DEF x
  <2>3. \A d \in Clients : job'[d] = IF d = c THEN x ELSE job[d]
    BY <1>1, <2>1
  <2> QED BY <1>2, <2>1, <2>2, <2>3, SentSame
<1>4. ASSUME NEW c \in Clients, Heal(c)
      PROVE  SentInv' /\ TestsLater
  <2>1. /\ UNCHANGED queue
        /\ \A d \in Clients : /\ job'[d].todo = job[d].todo
                              /\ job'[d].run = job[d].run
                              /\ job'[d].pc = "idle" <=> job[d].pc = "idle"
    BY <1>1, <1>4 DEF Heal, reporter, Jobs
  <2> QED BY <1>2, <2>1, SentSame
<1>5. ASSUME NEW c \in Clients, Record(c)
      PROVE  SentInv' /\ TestsLater
  <2> DEFINE x == [job[c] EXCEPT !.todo = Tail(@)]
  <2>1. /\ job[c].pc = "record" /\ job[c].todo # <<>>
        /\ job' = [job EXCEPT ![c] = x] /\ UNCHANGED queue
    BY <1>5 DEF Record, reporter
  <2>2. /\ job[c].todo \in Seq(Envelopes)
        /\ x.todo = Tail(job[c].todo) /\ x.run = job[c].run
    BY <1>1 DEF Jobs
  <2>3. Values(x.todo) \subseteq Values(job[c].todo) /\ Len(x.todo) <= Len(job[c].todo)
        /\ Len(x.todo) \in Nat /\ Len(job[c].todo) \in Nat
    BY <2>1, <2>2 DEF Values
  <2> HIDE DEF x
  <2>4. \A e \in Values(x.todo) : CanSend(c, e)
    BY <2>3 DEF SentInv
  <2>5. c = "vitest" => Len(x.todo) <= 1
    BY <2>3 DEF SentInv
  <2>6. c = "wrap" => x.run \in Nat
    BY <2>1, <2>2 DEF SentInv
  <2>7. \A e \in Values(queue') : CanSend("vite", e)
    BY <2>1 DEF SentInv
  <2> QED BY <1>2, <2>1, <2>3, <2>4, <2>5, <2>6, <2>7, SentChanged
<1>6. ASSUME NEW c \in Clients, Leave(c)
      PROVE  SentInv' /\ TestsLater
  <2> DEFINE x == IF job[c].pc = "record" /\ c = "wrap"
                  THEN [job[c] EXCEPT !.pc = "exit"] ELSE NoJob
  <2>1. /\ c # "vite" /\ job[c].pc # "idle"
        /\ job' = [job EXCEPT ![c] = x] /\ UNCHANGED queue
    BY <1>6 DEF Leave, reporter
  <2>2. \/ x.todo = job[c].todo /\ x.run = job[c].run
        \/ x.todo = <<>> /\ x.pc = "idle"
    BY <1>1 DEF Jobs, NoJob
  <2> HIDE DEF x
  <2>3. Values(x.todo) \subseteq Values(job[c].todo)
        /\ (Len(x.todo) = 0 \/ Len(x.todo) = Len(job[c].todo))
    BY <2>2 DEF Values
  <2>4. \A e \in Values(x.todo) : CanSend(c, e)
    BY <2>3 DEF SentInv
  <2>5. c = "vitest" => Len(x.todo) <= 1
    BY <2>3 DEF SentInv
  <2>6. c = "wrap" /\ x.pc # "idle" => x.run \in Nat
    BY <2>1, <2>2 DEF SentInv
  <2>7. \A e \in Values(queue') : CanSend("vite", e)
    BY <2>1 DEF SentInv
  <2> QED BY <1>2, <2>1, <2>3, <2>4, <2>5, <2>6, <2>7, SentChanged
<1>7. "wrap" \in Clients
  BY DEF Clients
<1>8. ASSUME NEW class, NEW run \in Nat, Wrap(class, run)
      PROVE  SentInv' /\ TestsLater
  <2> DEFINE x == [NoJob EXCEPT !.pc = "open", !.class = class, !.run = run]
  <2>1. job' = [job EXCEPT !["wrap"] = x] /\ UNCHANGED queue
    BY <1>8 DEF Wrap, reporter
  <2>2. x.todo = <<>> /\ x.run = run
    BY DEF NoJob
  <2> HIDE DEF x
  <2>3. Values(x.todo) = {} /\ \A e \in Values(queue') : CanSend("vite", e)
    BY <2>1, <2>2 DEF Values, SentInv
  <2> QED BY <1>2, <1>7, <2>1, <2>2, <2>3, SentChanged
<1>9. CASE Spawn
  <2> DEFINE x == [job["wrap"] EXCEPT !.pc = "running"]
  <2>1. job["wrap"].pc = "spawn" /\ job' = [job EXCEPT !["wrap"] = x] /\ UNCHANGED queue
    BY <1>9 DEF Spawn, reporter
  <2>2. x.todo = job["wrap"].todo /\ x.run = job["wrap"].run /\ x.pc # "idle"
    BY <1>1, <1>7 DEF Jobs
  <2> HIDE DEF x
  <2>3. \A d \in Clients : job'[d] = IF d = "wrap" THEN x ELSE job[d]
    BY <1>1, <2>1
  <2> QED BY <1>2, <2>1, <2>2, <2>3, SentSame
<1>10. ASSUME NEW ok \in BOOLEAN, NEW parsed \in BOOLEAN, ChildExits(ok, parsed)
      PROVE  SentInv' /\ TestsLater
  <2> DEFINE todo == Outcome(job["wrap"].class, job["wrap"].run, ok, parsed)
             x == [job["wrap"] EXCEPT !.pc = "record", !.todo = todo]
  <2>1. /\ job["wrap"].pc = "running" /\ job' = [job EXCEPT !["wrap"] = x]
        /\ UNCHANGED queue
    BY <1>10 DEF ChildExits, reporter
  <2>2. \A e \in Values(todo) : CanSend("wrap", e)
    <3>1. job["wrap"].run \in Runs
      BY <1>1, <1>7 DEF Jobs
    <3> QED BY <3>1, OutcomeSent
  <2> HIDE DEF todo
  <2>3. x.todo = todo /\ x.run = job["wrap"].run
    BY <1>1, <1>7 DEF Jobs
  <2> HIDE DEF x
  <2>4. x.run \in Nat /\ \A e \in Values(queue') : CanSend("vite", e)
    BY <2>1, <2>3 DEF SentInv
  <2>5. \A e \in Values(x.todo) : CanSend("wrap", e)
    BY <2>2, <2>3
  <2> QED BY <1>2, <1>7, <2>1, <2>4, <2>5, SentChanged
<1>11. CASE Exit
  <2>1. job' = [job EXCEPT !["wrap"] = NoJob] /\ UNCHANGED queue
    BY <1>11 DEF Exit, reporter
  <2>2. NoJob.pc = "idle" /\ Values(NoJob.todo) = {}
        /\ \A e \in Values(queue') : CanSend("vite", e)
    BY <2>1 DEF NoJob, Values, SentInv
  <2> QED BY <1>2, <1>7, <2>1, <2>2, SentChanged
<1>12. CASE Flush \/ AgentOpens \/ SinceRows \/ SinceCursor \/ UNCHANGED vars
            \/ (\E n \in Nat : Wait(n))
  <2>1. UNCHANGED <<queue, job>>
    BY <1>12 DEF Flush, AgentOpens, SinceRows, SinceCursor, vars, Wait, reporter
  <2> QED BY <1>2, <2>1, SentSame
<1> QED BY <1>2, <1>3, <1>4, <1>5, <1>6, <1>8, <1>9, <1>10, <1>11, <1>12,
           ReportSent, TestsEndSent, CloseSent
        DEF Next, Command

----------------------------------------------------------------------------
(* The start of every run is its own.                                      *)

\* Two runs of a file did not start at once, nor does one that waits.
RunsInv ==
    \A n \in 1..Path :
        /\ \A run \in DOMAIN sinks[n].runs :
             /\ run \in Nat
             /\ sinks[n].runs[run] \in Nat
             /\ sinks[n].runs[run] <= clock
             /\ \A e \in Pending : e.ts # sinks[n].runs[run]
        /\ \A a, b \in DOMAIN sinks[n].runs :
             sinks[n].runs[a] = sinks[n].runs[b] => a = b

LEMMA RunsInit == Init => RunsInv
BY DEF Init, RunsInv, EmptySink, Path

LEMMA PendingStep ==
    ASSUME TypeInv, FlushInv, WaitInv, [Next]_vars
    PROVE  \A e \in Pending' : e \in Pending \/ e.ts = clock + 1
<1>1. ASSUME NEW hash \in Identities \cup {None},
             NEW kind \in HmrKinds \cup {"run", None}, Report(hash, kind)
      PROVE  \A e \in Pending' : e \in Pending \/ e.ts = clock + 1
  BY <1>1, ReportOrder
<1>2. CASE Close
  BY <1>2, CloseOrder
<1>3. CASE /\ ~Close
           /\ \A hash \in Identities \cup {None}, kind \in HmrKinds \cup {"run", None} :
                ~Report(hash, kind)
  BY <1>3, FramedStep, WaitFrame
<1> QED BY <1>1, <1>2, <1>3

LEMMA RunsFrame ==
    ASSUME TypeInv, RunsInv, NoNewRun, clock' \in Nat, clock' >= clock,
           \A e \in Pending' : e \in Pending \/ e.ts = clock + 1
    PROVE  RunsInv'
<1>1. ASSUME NEW n \in 1..Path', NEW run \in DOMAIN sinks'[n].runs
      PROVE  /\ n \in 1..Path /\ run \in DOMAIN sinks[n].runs
             /\ sinks'[n].runs[run] = sinks[n].runs[run]
             /\ run \in Nat /\ sinks[n].runs[run] \in Nat
             /\ sinks[n].runs[run] <= clock
             /\ \A e \in Pending : e.ts # sinks[n].runs[run]
  BY DEF NoNewRun, RunsInv
<1>2. clock \in Nat
  BY DEF TypeInv
<1>3. ASSUME NEW n \in 1..Path', NEW run \in DOMAIN sinks'[n].runs
      PROVE  /\ run \in Nat /\ sinks'[n].runs[run] \in Nat
             /\ sinks'[n].runs[run] <= clock'
             /\ \A e \in Pending' : e.ts # sinks'[n].runs[run]
  BY <1>1, <1>2
<1>4. ASSUME NEW n \in 1..Path', NEW a \in DOMAIN sinks'[n].runs,
             NEW b \in DOMAIN sinks'[n].runs, sinks'[n].runs[a] = sinks'[n].runs[b]
      PROVE  a = b
  BY <1>1, <1>4 DEF RunsInv
<1> QED BY <1>3, <1>4 DEF RunsInv

\* A run is recorded at a time no other has.
LEMMA RunsPut ==
    ASSUME TypeInv, RunsInv, clock' \in Nat, clock' >= clock,
           NEW i \in 1..Path, NEW run \in Nat, NEW ts \in Nat, ts <= clock',
           Path' = Path, sinks'[i] = RecordRun(sinks[i], run, ts),
           \A n \in 1..Path : n # i => sinks'[n] = sinks[n],
           \A e \in Pending' : e \in Pending /\ e.ts # ts,
           \A r \in DOMAIN sinks[i].runs : sinks[i].runs[r] # ts
    PROVE  RunsInv'
<1> DEFINE new == sinks'[i]
<1>1. Filed(sinks[i]) /\ clock \in Nat
  BY DEF TypeInv, SinksInv
<1>2. /\ DOMAIN new.runs = DOMAIN sinks[i].runs \cup {run}
      /\ \A r \in DOMAIN sinks[i].runs : new.runs[r] = sinks[i].runs[r]
      /\ run \notin DOMAIN sinks[i].runs => new.runs[run] = ts
  <2>1. new.runs = Put(sinks[i].runs, run, IF run \in DOMAIN sinks[i].runs
                                          THEN sinks[i].runs[run] ELSE ts)
    BY <1>1 DEF RecordRun, Filed
  <2> HIDE DEF new
  <2> QED BY <2>1 DEF Put
<1> HIDE DEF new
<1>3. ASSUME NEW r \in DOMAIN new.runs
      PROVE  \/ r \in DOMAIN sinks[i].runs /\ new.runs[r] = sinks[i].runs[r]
             \/ r = run /\ new.runs[r] = ts /\ r \notin DOMAIN sinks[i].runs
  BY <1>2
<1>4. ASSUME NEW r \in DOMAIN new.runs
      PROVE  /\ r \in Nat /\ new.runs[r] \in Nat /\ new.runs[r] <= clock'
             /\ \A e \in Pending' : e.ts # new.runs[r]
  <2>1. CASE r \in DOMAIN sinks[i].runs /\ new.runs[r] = sinks[i].runs[r]
    BY <1>1, <2>1 DEF RunsInv
  <2>2. CASE r = run /\ new.runs[r] = ts
    BY <2>2
  <2> QED BY <1>3, <2>1, <2>2
<1>5. ASSUME NEW a \in DOMAIN new.runs, NEW b \in DOMAIN new.runs,
             new.runs[a] = new.runs[b]
      PROVE  a = b
  BY <1>3, <1>5 DEF RunsInv
<1>6. ASSUME NEW n \in 1..Path, n # i
      PROVE  /\ \A r \in DOMAIN sinks'[n].runs :
                  /\ r \in Nat /\ sinks'[n].runs[r] \in Nat
                  /\ sinks'[n].runs[r] <= clock'
                  /\ \A e \in Pending' : e.ts # sinks'[n].runs[r]
             /\ \A a, b \in DOMAIN sinks'[n].runs :
                  sinks'[n].runs[a] = sinks'[n].runs[b] => a = b
  <2>1. sinks'[n] = sinks[n]
    BY <1>6
  <2>2. \A r \in DOMAIN sinks[n].runs :
          sinks[n].runs[r] \in Nat /\ sinks[n].runs[r] <= clock
    BY DEF RunsInv
  <2> QED BY <1>1, <2>1, <2>2 DEF RunsInv
<1> QED BY <1>4, <1>5, <1>6 DEF RunsInv, new

\* What is recorded but a run leaves the runs alone.
LEMMA NotARun ==
    ASSUME NEW s, Filed(s), NEW e, NEW ts, e.type \in {"error", "event"}
    PROVE  Recorded(s, e, ts).runs = s.runs
<1>1. CASE e.type = "event"
  BY <1>1 DEF Recorded, RecordEvent, Filed
<1>2. CASE e.type = "error"
  <2>1. PICK errors, last : Recorded(s, e, ts) = [s EXCEPT !.errors = errors, !.lastError = last]
    BY <1>2, Zenon DEF Recorded, RecordError
  <2> QED BY <2>1 DEF Filed
<1> QED BY <1>1, <1>2

LEMMA RunsStep ==
    ASSUME TypeInv, FlushInv, WaitInv, SentInv, RunsInv, [Next]_vars
    PROVE  RunsInv'
<1>1. clock \in Nat /\ clock' \in Nat /\ clock' >= clock
  BY SentStep DEF TypeInv
<1>2. \A e \in Pending' : e \in Pending \/ e.ts = clock + 1
  BY PendingStep
<1>3. CASE NoNewRun
  BY <1>1, <1>2, <1>3, RunsFrame
<1>4. CASE Spawn
  <2> DEFINE i == job["wrap"].sink
             run == job["wrap"].run
             x == RecordRun(sinks[i], run, clock + 1)
  <2>1. /\ job["wrap"].pc = "spawn" /\ sinks' = [sinks EXCEPT ![i] = x]
        /\ clock' = clock + 1
        /\ job' = [job EXCEPT !["wrap"].pc = "running"] /\ UNCHANGED queue
    BY <1>4, Zenon DEF Spawn, reporter
  <2>2. i \in 1..Path /\ run \in Nat
    BY <2>1 DEF TypeInv, Using, SentInv, Clients
  <2>3. Pending' = Pending
    <3>1. job'["vite"] = job["vite"]
      BY <2>1 DEF TypeInv, Clients
    <3> QED BY <2>1, <3>1 DEF Pending, Shipping
  <2>4. \A e \in Pending' : e \in Pending /\ e.ts # clock + 1
    BY <1>1, <2>3, PendingTyped DEF WaitInv
  <2> HIDE DEF i, run
  <2>5. /\ Path' = Path /\ sinks'[i] = x
        /\ \A n \in 1..Path : n # i => sinks'[n] = sinks[n]
    BY <2>1, <2>2, OneFile DEF TypeInv
  <2>6. \A r \in DOMAIN sinks[i].runs : sinks[i].runs[r] # clock + 1
    BY <1>1, <2>2 DEF RunsInv
  <2> DEFINE ts == clock + 1
  <2>7. /\ ts \in Nat /\ ts <= clock' /\ sinks'[i] = RecordRun(sinks[i], run, ts)
        /\ \A e \in Pending' : e \in Pending /\ e.ts # ts
        /\ \A r \in DOMAIN sinks[i].runs : sinks[i].runs[r] # ts
    BY <1>1, <2>1, <2>4, <2>5, <2>6
  <2> HIDE DEF ts, x
  <2> QED BY <1>1, <2>2, <2>5, <2>7, RunsPut
<1>5. ASSUME NEW c \in Clients, Record(c)
      PROVE  RunsInv'
  <2> DEFINE i == job[c].sink
  <2>1. /\ i \in 1..Path /\ Filed(sinks[i]) /\ Path' = Path
        /\ sinks'[i] = Recorded(sinks[i], Written(c), At(c))
        /\ \A n \in 1..Path : n # i => sinks'[n] = sinks[n]
        /\ Written(c) \in Envelopes /\ Written(c) \in Values(job[c].todo)
    BY <1>5, RecordedIn DEF File
  <2> HIDE DEF i
  <2>2. CASE Written(c).type # "run"
    <3>1. Written(c).type \in {"error", "event"}
      BY <2>1, <2>2 DEF Envelopes
    <3>2. sinks'[i].runs = sinks[i].runs
      BY <2>1, <3>1, NotARun
    <3>3. NoNewRun
      BY <2>1, <3>2 DEF NoNewRun
    <3> QED BY <1>3, <3>3
  <2>3. CASE Written(c).type = "run"
    <3> DEFINE run == Written(c).run
               ts == Written(c).ts
    <3>1. c = "vite" /\ run \in Nat
      BY <2>1, <2>3 DEF SentInv, CanSend
    <3>2. sinks'[i] = RecordRun(sinks[i], run, ts)
      BY <2>1, <2>3, <3>1 DEF Recorded, At
    <3>3. Written(c) \in Pending /\ ts \in Nat /\ ts <= clock
      BY <2>1, <3>1, PendingTyped DEF Pending, Shipping, WaitInv
    <3>4. \A e \in Pending' : e \in Pending /\ e.ts # ts
      <4>1. /\ job[c].todo # <<>> /\ UNCHANGED queue
            /\ job' = [job EXCEPT ![c].todo = Tail(@)]
        BY <1>5 DEF Record, reporter
      <4>2. Shipping \in Seq(Envelopes) /\ Len(Shipping) <= 1 /\ Shipping # <<>>
        BY <3>1, <4>1, PendingTyped DEF WaitInv, Shipping
      <4>3. Shipping' = Tail(Shipping)
        BY <3>1, <4>1 DEF Shipping, TypeInv, Clients, Jobs
      <4>4. Shipping' = <<>>
        BY <4>2, <4>3
      <4>5. Pending' = Values(queue)
        BY <4>1, <4>4 DEF Pending, Values
      <4>6. \A e \in Values(queue) : ts < e.ts
        BY <2>1, <3>1 DEF WaitInv, Values, Shipping
      <4>7. \A e \in Values(queue) : e \in Pending
        BY DEF Pending
      <4> HIDE DEF ts
      <4>8. \A e \in Values(queue) : e.ts # ts
        BY <3>3, <4>6, <4>7, PendingTyped
      <4> QED BY <4>5, <4>7, <4>8
    <3>5. \A r \in DOMAIN sinks[i].runs : sinks[i].runs[r] # ts
      BY <2>1, <3>3 DEF RunsInv
    <3>6. ts <= clock'
      BY <1>1, <3>3
    <3> HIDE DEF run, ts
    <3> QED BY <1>1, <2>1, <3>1, <3>2, <3>3, <3>4, <3>5, <3>6, RunsPut
  <2> QED BY <2>2, <2>3
<1> QED BY <1>3, <1>4, <1>5, QuietStep

\* With no two at once, a run with less than two later is one of the last two.
LEMMA RunShown ==
    ASSUME TypeInv, RunsInv
    PROVE  ShowsItsRun
<1> DEFINE runs == Sink.runs
<1>1. /\ \A r \in DOMAIN runs : r \in Nat /\ runs[r] \in Nat
      /\ \A a, b \in DOMAIN runs : runs[a] = runs[b] => a = b
  BY DEF RunsInv, Sink, TypeInv, SinksInv
<1>2. SUFFICES ASSUME NEW id \in DOMAIN Sink.errors,
                      Sink.errors[id].run \in DOMAIN runs,
                      Cardinality({r \in DOMAIN runs : runs[r] > runs[Sink.errors[id].run]}) < 2
               PROVE  ShowRun(Sink, id) = Sink.errors[id].run
  BY DEF ShowsItsRun
<1> DEFINE own == Sink.errors[id].run
           Later(a, b) == runs[a] > runs[b] \/ (runs[a] = runs[b] /\ a > b)
<1>3. {r \in DOMAIN runs : Later(r, own)} = {r \in DOMAIN runs : runs[r] > runs[own]}
  <2> HIDE DEF runs, own
  <2>1. own \in DOMAIN runs
    BY <1>2 DEF runs, own
  <2>2. \A r \in DOMAIN runs : runs[r] = runs[own] => ~(r > own)
    BY <1>1, <2>1
  <2> QED BY <2>2
<1>4. own \in LatestRuns(Sink, 2)
  <2>1. LatestRuns(Sink, 2) =
          {run \in DOMAIN runs : Cardinality({r \in DOMAIN runs : Later(r, run)}) < 2}
    BY DEF LatestRuns
  <2> QED BY <1>2, <1>3, <2>1
<1> QED BY <1>4 DEF ShowRun

----------------------------------------------------------------------------
(* The latest update of the dev server.                                    *)

\* An update with few enough after it is in the list before and after the cut.
LEMMA UpdateNamed ==
    ASSUME TypeInv
    PROVE  HmrNamesTheUpdate
<1> DEFINE events == Sink.events
           last == Sink.lastEvent
           updates == {id \in DOMAIN events : events[id].kind \in {"hmr-update", "full-reload"}}
           After(id) == {e \in DOMAIN events : e > id /\ events[e].kind \in HmrKinds}
           top == Max(updates)
           all == {id \in DOMAIN events : events[id].kind \in HmrKinds}
           seen == Highest(all, HmrFetch)
           story == {id \in seen : events[id].kind # "hmr-other"}
           told == Highest(story, HmrShow)
           named == {id \in told : events[id].kind \in {"hmr-update", "full-reload"}}
           untold == {e \in After(top) : events[e].kind # "hmr-other"}
<1>1. last \in Nat /\ DOMAIN events \in SUBSET (0..last)
  BY DEF TypeInv, SinksInv, Filed, Sink
<1>2. HmrShow \in Nat /\ HmrFetch \in Nat
  BY SniperStoreAssumption
<1>3. SUFFICES ASSUME updates # {}, ~(Cardinality(untold) >= HmrShow),
                      ~(Cardinality(After(top)) >= HmrFetch)
               PROVE  Hmr(Sink) = top
  BY DEF HmrNamesTheUpdate
<1>4. \A T \in SUBSET DOMAIN events : IsFiniteSet(T) /\ Cardinality(T) \in Nat
  <2>1. IsFiniteSet(0..last)
    BY <1>1, FS_Interval
  <2> QED BY <1>1, <2>1, FS_Subset, FS_CardinalityType
<1>5. top \in updates /\ \A id \in updates : id <= top
  BY <1>1, <1>3, GreatestExists
<1>6. top \in DOMAIN events /\ top \in all /\ events[top].kind # "hmr-other"
  BY <1>5 DEF HmrKinds
<1> HIDE DEF events, top, last
<1>7. {other \in all : other > top} = After(top)
  OBVIOUS
<1>8. top \in seen
  <2>1. Cardinality(After(top)) < HmrFetch
    BY <1>2, <1>3, <1>4
  <2> QED BY <1>6, <1>7, <2>1 DEF Highest
<1>9. seen \subseteq all /\ story \subseteq seen /\ told \subseteq story
  BY DEF Highest
<1>10. top \in told
  <2>1. {other \in story : other > top} \subseteq untold
    BY <1>9
  <2>2. untold \in SUBSET DOMAIN events
    OBVIOUS
  <2>3. Cardinality({other \in story : other > top}) <= Cardinality(untold)
    BY <1>4, <2>1, <2>2, FS_Subset
  <2>4. {other \in story : other > top} \in SUBSET DOMAIN events
    BY <2>1, <2>2
  <2>5. Cardinality({other \in story : other > top}) < HmrShow
    <3>1. Cardinality({other \in story : other > top}) \in Nat
      BY <1>4, <2>4
    <3>2. Cardinality(untold) \in Nat /\ ~(Cardinality(untold) >= HmrShow)
      BY <1>3, <1>4, <2>2
    <3> QED BY <1>2, <2>3, <3>1, <3>2
  <2> QED BY <1>6, <1>8, <2>5 DEF Highest
<1>11. top \in named /\ named \subseteq updates
  BY <1>5, <1>9, <1>10
<1>12. Max(named) = top
  <2>1. named \in SUBSET (0..last) /\ named # {}
    BY <1>1, <1>11
  <2>2. Max(named) \in named /\ \A id \in named : id <= Max(named)
    BY <1>1, <2>1, GreatestExists
  <2>3. Max(named) <= top /\ top <= Max(named)
    BY <1>5, <1>11, <2>2
  <2>4. Max(named) \in Nat /\ top \in Nat
    BY <1>1, <1>6, <2>1, <2>2
  <2> QED BY <2>3, <2>4
<1>13. Hmr(Sink) = IF named = {} THEN None ELSE Max(named)
  BY DEF Hmr, events
<1> QED BY <1>11, <1>12, <1>13

----------------------------------------------------------------------------
(* The last signal of a test.                                              *)

TestRow(sink, id) == id \in DOMAIN sink.errors /\ SurfaceOf[sink.errors[id].hash] = "vitest"
PassRow(sink, id) == id \in DOMAIN sink.events /\ sink.events[id].kind = "test-pass"

\* No failure or pass in a file is later than the last signal, and no pass is
\* as late as a failure that was the last.
RowsOlder ==
    \A n \in 1..Path :
        /\ \A id : TestRow(sinks[n], id) =>
             sinks[n].errors[id].last \in Nat /\ sinks[n].errors[id].last <= signal.ts
        /\ \A id : PassRow(sinks[n], id) =>
             /\ sinks[n].events[id].ts \in Nat
             /\ sinks[n].events[id].ts <= signal.ts
             /\ signal.colour = "red" => sinks[n].events[id].ts < signal.ts

(***************************************************************************)
(* The row of the last signal, when it is there, has its time.  That of a  *)
(* failure is kept by what the test reporter has to record, which could    *)
(* write an earlier time over it: that is later.                           *)
(***************************************************************************)
SignalRow ==
    LET sink == sinks[signal.sink]
        id == signal.id
    IN  /\ signal.sink \in 1..Path
        /\ signal.colour \in {"green", "red"}
        /\ id \in Nat
        /\ signal.colour = "green" =>
             /\ id <= sink.lastEvent
             /\ id \in DOMAIN sink.events => sink.events[id].ts = signal.ts
        /\ signal.colour = "red" =>
             /\ id <= sink.lastError
             /\ TestRow(sink, id) =>
                  /\ sink.errors[id].last = signal.ts
                  /\ \A e \in Values(job["vitest"].todo) : e.ts > signal.ts

SignalInv ==
    /\ signal.ts \in Nat /\ signal.ts <= clock
    /\ \A e \in Values(job["vitest"].todo) : e.ts # signal.ts
    /\ RowsOlder
    /\ signal.sink # 0 => SignalRow

LEMMA SignalInit == Init => SignalInv
<1> SUFFICES ASSUME Init PROVE SignalInv
  OBVIOUS
<1>1. /\ signal.ts = 0 /\ signal.sink = 0 /\ clock = 0
      /\ job["vitest"].todo = <<>> /\ Values(<<>>) = {}
      /\ \A n \in 1..Path : DOMAIN sinks[n].errors = {} /\ DOMAIN sinks[n].events = {}
  BY DEF Init, NoSignal, NoJob, Clients, Values, Path, EmptySink
<1> QED BY <1>1 DEF SignalInv, RowsOlder, TestRow, PassRow

\* A row that is there was there as it is.
OldError(n, id) ==
    /\ n \in 1..Path
    /\ id \in DOMAIN sinks[n].errors
    /\ sinks'[n].errors[id].hash = sinks[n].errors[id].hash
    /\ sinks'[n].errors[id].last = sinks[n].errors[id].last

OldEvent(n, id) ==
    /\ n \in 1..Path
    /\ id \in DOMAIN sinks[n].events
    /\ sinks'[n].events[id] = sinks[n].events[id]

(***************************************************************************)
(* The signal stays: what is recorded of tests is not later than it, and   *)
(* its row is left alone.                                                  *)
(***************************************************************************)
LEMMA SignalKept ==
    ASSUME TypeInv, SignalInv, Kept, TestsLater, UNCHANGED signal,
           clock' \in Nat, clock' >= clock,
           \A n \in 1..Path' : \A id : TestRow(sinks'[n], id) =>
             \/ OldError(n, id)
             \/ /\ sinks'[n].errors[id].last \in Nat
                /\ sinks'[n].errors[id].last <= signal.ts
                /\ signal.colour = "red" => ~(n = signal.sink /\ id = signal.id),
           \A n \in 1..Path' : \A id : PassRow(sinks'[n], id) =>
             \/ OldEvent(n, id)
             \/ /\ sinks'[n].events[id].ts \in Nat
                /\ sinks'[n].events[id].ts <= signal.ts
                /\ signal.colour = "red" => sinks'[n].events[id].ts < signal.ts,
           \A n \in 1..Path : \A id \in DOMAIN sinks'[n].events :
             OldEvent(n, id) \/ id > sinks[n].lastEvent
    PROVE  SignalInv'
<1>1. /\ signal.ts \in Nat /\ clock \in Nat
      /\ signal.ts <= clock /\ signal.ts <= clock'
  BY DEF TypeInv, SignalInv
<1>2. \A e \in Values(job'["vitest"].todo) : e.ts # signal.ts
  BY <1>1 DEF TestsLater, SignalInv
<1>3. ASSUME NEW n \in 1..Path', NEW id, TestRow(sinks'[n], id)
      PROVE  sinks'[n].errors[id].last \in Nat /\ sinks'[n].errors[id].last <= signal.ts
  <2>1. CASE OldError(n, id)
    <3>1. TestRow(sinks[n], id) /\ n \in 1..Path
      BY <1>3, <2>1 DEF OldError, TestRow
    <3> QED BY <2>1, <3>1 DEF OldError, SignalInv, RowsOlder
  <2>2. CASE ~OldError(n, id)
    BY <1>3, <2>2
  <2> QED BY <2>1, <2>2
<1>4. ASSUME NEW n \in 1..Path', NEW id, PassRow(sinks'[n], id)
      PROVE  /\ sinks'[n].events[id].ts \in Nat
             /\ sinks'[n].events[id].ts <= signal.ts
             /\ signal.colour = "red" => sinks'[n].events[id].ts < signal.ts
  <2>1. CASE OldEvent(n, id)
    <3>1. PassRow(sinks[n], id) /\ n \in 1..Path
      BY <1>4, <2>1 DEF OldEvent, PassRow
    <3> QED BY <2>1, <3>1 DEF OldEvent, SignalInv, RowsOlder
  <2>2. CASE ~OldEvent(n, id)
    BY <1>4, <2>2
  <2> QED BY <2>1, <2>2
<1>5. RowsOlder'
  BY <1>3, <1>4 DEF RowsOlder
<1>6. ASSUME signal.sink # 0
      PROVE  SignalRow'
  <2> DEFINE n == signal.sink
             id == signal.id
  <2>1. SignalRow
    BY <1>6 DEF SignalInv
  <2>2. n \in 1..Path /\ id \in Nat /\ n \in 1..Path'
    BY <2>1 DEF SignalRow, TypeInv, SinksInv, Kept
  <2>3. /\ Filed(sinks[n]) /\ Filed(sinks'[n])
        /\ sinks'[n].lastError >= sinks[n].lastError
        /\ sinks'[n].lastEvent >= sinks[n].lastEvent
    BY <2>2 DEF TypeInv, SinksInv, Kept, Grew
  <2>4. CASE signal.colour = "green"
    <3>1. id <= sinks[n].lastEvent /\ (id \in DOMAIN sinks[n].events => sinks[n].events[id].ts = signal.ts)
      BY <2>1, <2>4 DEF SignalRow
    <3>2. id <= sinks'[n].lastEvent
      BY <2>2, <2>3, <3>1 DEF Filed
    <3>3. ASSUME id \in DOMAIN sinks'[n].events
          PROVE  sinks'[n].events[id].ts = signal.ts
      <4>1. ~(id > sinks[n].lastEvent)
        BY <2>2, <2>3, <3>1 DEF Filed
      <4>2. OldEvent(n, id)
        BY <2>2, <3>3, <4>1
      <4> QED BY <3>1, <4>2 DEF OldEvent
    <3> HIDE DEF n, id
    <3>4. n \in 1..Path' /\ id \in Nat
      BY <2>2
    <3> QED BY <2>4, <3>2, <3>3, <3>4 DEF SignalRow, n, id
  <2>5. CASE signal.colour = "red"
    <3>1. /\ id <= sinks[n].lastError
          /\ TestRow(sinks[n], id) =>
               /\ sinks[n].errors[id].last = signal.ts
               /\ \A e \in Values(job["vitest"].todo) : e.ts > signal.ts
      BY <2>1, <2>5 DEF SignalRow
    <3>2. id <= sinks'[n].lastError
      BY <2>2, <2>3, <3>1 DEF Filed
    <3>3. ASSUME TestRow(sinks'[n], id)
          PROVE  /\ sinks'[n].errors[id].last = signal.ts
                 /\ \A e \in Values(job'["vitest"].todo) : e.ts > signal.ts
      <4>1. OldError(n, id)
        BY <2>2, <2>5, <3>3
      <4>2. TestRow(sinks[n], id)
        BY <3>3, <4>1 DEF OldError, TestRow
      <4>3. \A e \in Values(job'["vitest"].todo) : e.ts > signal.ts
        BY <1>1, <3>1, <4>2 DEF TestsLater
      <4> QED BY <3>1, <4>1, <4>2, <4>3 DEF OldError
    <3> QED BY <2>2, <2>5, <3>2, <3>3 DEF SignalRow
  <2>6. signal.colour \in {"green", "red"}
    BY <2>1 DEF SignalRow
  <2> QED BY <2>4, <2>5, <2>6
<1> QED BY <1>1, <1>2, <1>5, <1>6 DEF SignalInv

\* A later one comes, under the row that was written for it.
LEMMA SignalMoved ==
    ASSUME TypeInv, SignalInv, clock' \in Nat, Path' = Path,
           NEW ts \in Nat, ts > signal.ts, ts <= clock', signal'.ts = ts,
           \A e \in Values(job'["vitest"].todo) : e.ts # ts,
           \A n \in 1..Path : \A id : TestRow(sinks'[n], id) =>
             OldError(n, id) \/ sinks'[n].errors[id].last = ts,
           \A n \in 1..Path : \A id : PassRow(sinks'[n], id) =>
             \/ OldEvent(n, id)
             \/ sinks'[n].events[id].ts = ts /\ signal'.colour = "green",
           SignalRow'
    PROVE  SignalInv'
<1>1. signal.ts \in Nat
  BY DEF SignalInv
<1>2. ASSUME NEW n \in 1..Path, NEW id, TestRow(sinks'[n], id)
      PROVE  sinks'[n].errors[id].last \in Nat /\ sinks'[n].errors[id].last <= ts
  <2>1. CASE OldError(n, id)
    <3>1. TestRow(sinks[n], id)
      BY <1>2, <2>1 DEF OldError, TestRow
    <3>2. sinks[n].errors[id].last \in Nat /\ sinks[n].errors[id].last <= signal.ts
      BY <3>1 DEF SignalInv, RowsOlder
    <3> QED BY <1>1, <2>1, <3>2 DEF OldError
  <2>2. CASE ~OldError(n, id)
    BY <1>2, <2>2
  <2> QED BY <2>1, <2>2
<1>3. ASSUME NEW n \in 1..Path, NEW id, PassRow(sinks'[n], id)
      PROVE  /\ sinks'[n].events[id].ts \in Nat
             /\ sinks'[n].events[id].ts <= ts
             /\ signal'.colour = "red" => sinks'[n].events[id].ts < ts
  <2>1. CASE OldEvent(n, id)
    <3>1. PassRow(sinks[n], id)
      BY <1>3, <2>1 DEF OldEvent, PassRow
    <3>2. sinks[n].events[id].ts \in Nat /\ sinks[n].events[id].ts <= signal.ts
      BY <3>1 DEF SignalInv, RowsOlder
    <3> QED BY <1>1, <2>1, <3>2 DEF OldEvent
  <2>2. CASE ~OldEvent(n, id)
    BY <1>3, <2>2
  <2> QED BY <2>1, <2>2
<1>4. RowsOlder'
  BY <1>2, <1>3 DEF RowsOlder
<1> QED BY <1>4 DEF SignalInv

\* All but a record: no row is new.
LEMMA SignalQuiet ==
    ASSUME TypeInv, SignalInv, Kept, TestsLater, NoNewError, NoNewEvent, UNCHANGED signal,
           clock' \in Nat, clock' >= clock
    PROVE  SignalInv'
<1>1. \A n \in 1..Path' : \A id \in DOMAIN sinks'[n].errors : OldError(n, id)
  BY DEF NoNewError, OldError
<1>2. \A n \in 1..Path' : \A id \in DOMAIN sinks'[n].events : OldEvent(n, id)
  BY DEF NoNewEvent, OldEvent
<1>3. \A n \in 1..Path : n \in 1..Path'
  BY DEF Kept, TypeInv, SinksInv
<1>4. \A n \in 1..Path' : \A id : TestRow(sinks'[n], id) => OldError(n, id)
  BY <1>1 DEF TestRow
<1>5. \A n \in 1..Path' : \A id : PassRow(sinks'[n], id) => OldEvent(n, id)
  BY <1>2 DEF PassRow
<1> QED BY <1>2, <1>3, <1>4, <1>5, SignalKept

\* What a record says of the tests.
LEMMA Coloured ==
    ASSUME TypeInv, SentInv, NEW c \in Clients, Record(c)
    PROVE  LET e == Written(c) IN
           /\ e.type = "error" /\ SurfaceOf[e.hash] = "vitest" =>
                c = "vitest" /\ Colour(c, e) = "red"
           /\ e.type = "event" /\ e.kind = "test-pass" =>
                c \in {"vitest", "wrap"} /\ Colour(c, e) = "green"
           /\ e.type = "error" => Colour(c, e) \in {"red", None}
           /\ e.type = "event" => Colour(c, e) \in {"green", None}
           /\ e.type = "event" /\ e.kind # "test-pass" => Colour(c, e) = None
           /\ e.type = "run" => Colour(c, e) = None
           /\ Colour(c, e) # None => c \in {"vitest", "wrap"} /\ Colour(c, e) \in {"red", "green"}
           /\ None \notin {"red", "green"}
<1>1. CanSend(c, Written(c)) /\ Written(c).type \in {"error", "event", "run"}
  <2>1. Written(c) \in Values(job[c].todo) /\ Written(c) \in Envelopes
    BY RecordedIn
  <2> QED BY <2>1 DEF SentInv, Envelopes
<1>2. None \notin {"red", "green", "test-pass"}
  BY SniperAssumption
<1>3. c \in {"vite", "vitest", "wrap"}
  BY DEF Clients
<1> DEFINE e == Written(c)
<1>4. CanSend(c, e) /\ e.type \in {"error", "event", "run"}
  BY <1>1
<1> HIDE DEF e
<1>5. CASE e.type = "error"
  <2>1. Colour(c, e) = IF \/ SurfaceOf[e.hash] = "vitest"
                          \/ c = "wrap" /\ job[c].class = "test"
                       THEN "red" ELSE None
    BY <1>2, <1>4, <1>5 DEF CanSend, Colour
  <2>2. SurfaceOf[e.hash] = "vitest" => c = "vitest"
    BY <1>4, <1>5 DEF CanSend
  <2> QED BY <1>2, <1>5, <2>1, <2>2 DEF e
<1>6. CASE e.type = "event"
  <2>1. Colour(c, e) = IF e.kind = "test-pass" THEN "green" ELSE None
    BY <1>6 DEF Colour
  <2>2. e.kind = "test-pass" => c \in {"vitest", "wrap"}
    BY <1>3, <1>4, <1>6 DEF CanSend
  <2> QED BY <1>2, <1>6, <2>1, <2>2 DEF e
<1>7. CASE e.type = "run"
  <2>1. Colour(c, e) = None
    BY <1>2, <1>4, <1>7 DEF CanSend, Colour
  <2> QED BY <1>2, <1>7, <2>1 DEF e
<1> QED BY <1>4, <1>5, <1>6, <1>7

\* What the test reporter has recorded it does not have any more.
LEMMA TestsDone ==
    ASSUME TypeInv, SentInv, Record("vitest")
    PROVE  Values(job'["vitest"].todo) = {}
<1>1. job["vitest"].todo # <<>> /\ job' = [job EXCEPT !["vitest"].todo = Tail(@)]
  BY DEF Record
<1>2. /\ job["vitest"].todo \in Seq(Envelopes) /\ Len(job["vitest"].todo) <= 1
      /\ job'["vitest"].todo = Tail(job["vitest"].todo)
  BY <1>1 DEF TypeInv, SentInv, Clients, Jobs
<1>3. Tail(job["vitest"].todo) = <<>>
  <2> DEFINE todo == job["vitest"].todo
  <2>1. todo \in Seq(Envelopes) /\ Len(todo) <= 1 /\ todo # <<>>
    BY <1>1, <1>2
  <2> HIDE DEF todo
  <2>2. Tail(todo) = <<>>
    BY <2>1
  <2> QED BY <2>2 DEF todo
<1> QED BY <1>2, <1>3 DEF Values

\* When it is recorded.
LEMMA SignalTime ==
    ASSUME TypeInv, SentInv, SignalInv, NEW c \in {"vitest", "wrap"}, Record(c)
    PROVE  /\ At(c) \in Nat /\ At(c) <= clock' /\ At(c) # signal.ts
           /\ c = "wrap" => At(c) > signal.ts
           /\ \A e \in Values(job'["vitest"].todo) : e.ts # At(c)
<1>1. /\ c \in Clients /\ clock \in Nat /\ signal.ts \in Nat /\ signal.ts <= clock
      /\ clock' = IF c = "wrap" THEN clock + 1 ELSE clock
  BY DEF Clients, TypeInv, SignalInv, Record
<1>2. At(c) \in Nat /\ Written(c) \in Values(job[c].todo)
  BY <1>1, RecordedIn
<1>3. CASE c = "vitest"
  <2>1. At(c) = Written(c).ts
    BY <1>3 DEF At
  <2> QED BY <1>1, <1>2, <1>3, <2>1, TestsDone DEF SentInv, SignalInv
<1>4. CASE c = "wrap"
  <2>1. At(c) = clock + 1
    BY <1>4 DEF At
  <2>2. job'["vitest"] = job["vitest"]
    BY <1>4 DEF Record, TypeInv, Clients
  <2>3. \A e \in Values(job["vitest"].todo) : e.ts \in Nat /\ e.ts <= clock
    BY TodoTyped DEF SentInv, Clients
  <2> QED BY <1>1, <1>4, <2>1, <2>2, <2>3
<1> QED BY <1>3, <1>4

\* An event: a pass, or none of the tests.
LEMMA SignalEvent ==
    ASSUME TypeInv, SentInv, SignalInv, Kept, TestsLater, clock' \in Nat, clock' >= clock,
           NEW c \in Clients, Record(c), Written(c).type = "event"
    PROVE  SignalInv'
<1> DEFINE i == job[c].sink
           e == Written(c)
           ts == At(c)
           last == sinks[i].lastEvent + 1
<1>1. /\ i \in 1..Path /\ Filed(sinks[i]) /\ Path' = Path
      /\ sinks'[i] = RecordEvent(sinks[i], e.kind, ts, e.run)
      /\ \A n \in 1..Path : n # i => sinks'[n] = sinks[n]
  BY RecordedIn DEF File, Recorded
<1>2. /\ sinks'[i].lastEvent = last
      /\ DOMAIN sinks'[i].events = DOMAIN sinks[i].events \cup {last}
      /\ sinks'[i].events[last] = [kind |-> e.kind, ts |-> ts, run |-> e.run]
      /\ \A id \in DOMAIN sinks[i].events : sinks'[i].events[id] = sinks[i].events[id]
      /\ sinks'[i].errors = sinks[i].errors
  <2> DEFINE kind == e.kind
             run == e.run
             s == sinks[i]
  <2>1. Filed(s) /\ sinks'[i] = RecordEvent(s, kind, ts, run)
    BY <1>1
  <2> HIDE DEF kind, run, s, ts
  <2>2. RecordEvent(s, kind, ts, run).errors = s.errors
    BY <2>1 DEF RecordEvent, Filed
  <2>3. LET new == RecordEvent(s, kind, ts, run)
        IN  /\ new.lastEvent = s.lastEvent + 1
            /\ DOMAIN new.events = DOMAIN s.events \cup {s.lastEvent + 1}
            /\ new.events[s.lastEvent + 1] = [kind |-> kind, ts |-> ts, run |-> run]
            /\ \A id \in DOMAIN s.events : new.events[id] = s.events[id]
    BY <2>1, RecordEventGrows
  <2> QED BY <2>1, <2>2, <2>3 DEF kind, run, s
<1>3. last \in Nat /\ last > sinks[i].lastEvent
  BY <1>1 DEF Filed
<1>4. \A n \in 1..Path : \A id \in DOMAIN sinks'[n].errors : OldError(n, id)
  BY <1>1, <1>2 DEF OldError
<1>5. \A n \in 1..Path : \A id \in DOMAIN sinks'[n].events :
        OldEvent(n, id) \/ (n = i /\ id = last)
  BY <1>1, <1>2 DEF OldEvent
<1>6. /\ \A n \in 1..Path : \A id : TestRow(sinks'[n], id) => OldError(n, id)
      /\ \A n \in 1..Path : \A id : PassRow(sinks'[n], id) =>
           \/ OldEvent(n, id)
           \/ n = i /\ id = last /\ e.kind = "test-pass"
              /\ sinks'[n].events[id].ts = ts
  <2> HIDE DEF e, ts, i, last
  <2>1. \A n \in 1..Path : \A id : TestRow(sinks'[n], id) => OldError(n, id)
    BY <1>4 DEF TestRow
  <2>2. ASSUME NEW n \in 1..Path, NEW id, PassRow(sinks'[n], id), ~OldEvent(n, id)
        PROVE  /\ n = i /\ id = last /\ e.kind = "test-pass"
               /\ sinks'[n].events[id].ts = ts
    <3>1. id \in DOMAIN sinks'[n].events /\ sinks'[n].events[id].kind = "test-pass"
      BY <2>2 DEF PassRow
    <3>2. n = i /\ id = last
      BY <1>5, <2>2, <3>1
    <3> QED BY <1>2, <3>1, <3>2
  <2> QED BY <2>1, <2>2
<1>7. signal' = IF Colour(c, e) # None /\ ts > signal.ts
                THEN [colour |-> Colour(c, e), ts |-> ts, id |-> last, sink |-> i]
                ELSE signal
  <2>1. Recorded(sinks[i], e, ts).lastEvent = last
    BY <1>1, <1>2 DEF Recorded
  <2> QED BY <2>1, Zenon DEF Record, Written, At
<1> HIDE DEF e, ts, i, last
<1>8. CASE Colour(c, e) # None /\ ts > signal.ts
  <2>1. c \in {"vitest", "wrap"} /\ Colour(c, e) = "green"
    BY <1>8, Coloured DEF e
  <2>2. ts \in Nat /\ ts <= clock' /\ \A o \in Values(job'["vitest"].todo) : o.ts # ts
    BY <2>1, SignalTime DEF ts
  <2>3. /\ signal'.colour = "green" /\ signal'.ts = ts
        /\ signal'.id = last /\ signal'.sink = i
    BY <1>7, <1>8, <2>1
  <2>4. SignalRow'
    BY <1>1, <1>2, <1>3, <2>3 DEF SignalRow
  <2> QED BY <1>1, <1>6, <1>8, <2>2, <2>3, <2>4, SignalMoved
<1>9. CASE ~(Colour(c, e) # None /\ ts > signal.ts)
  <2>1. signal' = signal
    BY <1>7, <1>9
  <2>2. ASSUME e.kind = "test-pass"
        PROVE  ts \in Nat /\ ts < signal.ts
    <3>1. c \in {"vitest", "wrap"} /\ Colour(c, e) # None
      BY <2>2, Coloured DEF e
    <3>2. ts \in Nat /\ ts # signal.ts /\ ~(ts > signal.ts) /\ signal.ts \in Nat
      BY <1>9, <3>1, SignalTime DEF ts, SignalInv
    <3> QED BY <3>2
  <2>3. signal.ts \in Nat
    BY DEF SignalInv
  <2>4. \A n \in 1..Path : \A id \in DOMAIN sinks'[n].events :
          OldEvent(n, id) \/ id > sinks[n].lastEvent
    BY <1>3, <1>5
  <2>5. \A n \in 1..Path : \A id : PassRow(sinks'[n], id) =>
          OldEvent(n, id) \/ (sinks'[n].events[id].ts \in Nat /\ sinks'[n].events[id].ts < signal.ts)
    BY <1>6, <2>2
  <2>6. \A n \in 1..Path : \A id : PassRow(sinks'[n], id) =>
          \/ OldEvent(n, id)
          \/ /\ sinks'[n].events[id].ts \in Nat
             /\ sinks'[n].events[id].ts <= signal.ts
             /\ signal.colour = "red" => sinks'[n].events[id].ts < signal.ts
    BY <2>3, <2>5
  <2> QED BY <1>1, <1>6, <2>1, <2>4, <2>6, SignalKept
<1> QED BY <1>8, <1>9

\* An error: of a test, of a command that ran the tests, or of neither.
LEMMA SignalError ==
    ASSUME TypeInv, CountInv, SentInv, SignalInv, Kept, TestsLater,
           clock' \in Nat, clock' >= clock,
           NEW c \in Clients, Record(c), Written(c).type = "error"
    PROVE  SignalInv'
<1> DEFINE i == job[c].sink
           e == Written(c)
           ts == At(c)
           hash == e.hash
           run == e.run
           s == sinks[i]
           new == sinks'[i]
<1>1. /\ i \in 1..Path /\ Filed(s) /\ Counted(s) /\ Path' = Path
      /\ new = RecordError(s, hash, ts, run)
      /\ \A n \in 1..Path : n # i => sinks'[n] = sinks[n]
  BY RecordedIn DEF File, Recorded, CountInv
<1> HIDE DEF hash, run, s, new, ts
<1>2. /\ new.events = s.events
      /\ \E id :
           /\ RowOf(new, hash) = {id}
           /\ DOMAIN new.errors = DOMAIN s.errors \cup {id}
           /\ id \in DOMAIN s.errors \/ id = s.lastError + 1
           /\ id \in DOMAIN s.errors => s.errors[id].hash = hash
           /\ new.errors[id].hash = hash /\ new.errors[id].last = ts
           /\ new.errors[id].run = run
           /\ \A other \in DOMAIN s.errors \ {id} : new.errors[other] = s.errors[other]
  BY <1>1, RecordErrorRow
<1>3. PICK id :
        /\ RowOf(new, hash) = {id}
        /\ DOMAIN new.errors = DOMAIN s.errors \cup {id}
        /\ id \in DOMAIN s.errors \/ id = s.lastError + 1
        /\ id \in DOMAIN s.errors => s.errors[id].hash = hash
        /\ new.errors[id].hash = hash /\ new.errors[id].last = ts
        /\ \A other \in DOMAIN s.errors \ {id} : new.errors[other] = s.errors[other]
  BY <1>2
<1>4. /\ id \in Nat /\ id <= new.lastError /\ s.lastError \in Nat
      /\ \A other \in DOMAIN s.errors : other <= s.lastError
  <2>1. Filed(new)
    BY <1>1 DEF Kept, Grew, new
  <2> QED BY <1>1, <1>3, <2>1 DEF Filed
<1>5. signal' = IF Colour(c, e) # None /\ ts > signal.ts
                THEN [colour |-> Colour(c, e), ts |-> ts, id |-> id, sink |-> i]
                ELSE signal
  <2>1. (CHOOSE o \in RowOf(new, hash) : TRUE) = id
    BY <1>3
  <2>2. Recorded(sinks[i], e, ts) = new /\ e.type = "error" /\ e.type # "event"
    BY <1>1 DEF Recorded, s, hash, run
  <2>3. signal' = IF Colour(c, e) # None /\ ts > signal.ts
                  THEN [colour |-> Colour(c, e), ts |-> ts,
                        id |-> CHOOSE o \in RowOf(Recorded(sinks[i], e, ts), e.hash) : TRUE,
                        sink |-> i]
                  ELSE signal
    <3>1. e.type = "error" /\ e.type # "event"
      BY <2>2
    <3> QED BY <3>1 DEF Record, Written, At, ts
  <2> QED BY <2>1, <2>2, <2>3 DEF hash
<1>6. \A n \in 1..Path : \A o \in DOMAIN sinks'[n].events : OldEvent(n, o)
  BY <1>1, <1>2 DEF OldEvent, new, s
<1>7. \A n \in 1..Path : \A o \in DOMAIN sinks'[n].errors :
        OldError(n, o) \/ (n = i /\ o = id /\ sinks'[n].errors[o].last = ts)
  BY <1>1, <1>3 DEF OldError, new, s
<1>8. /\ \A n \in 1..Path : \A o : TestRow(sinks'[n], o) =>
           \/ OldError(n, o)
           \/ /\ n = i /\ o = id /\ sinks'[n].errors[o].last = ts
              /\ SurfaceOf[hash] = "vitest"
      /\ \A n \in 1..Path : \A o : PassRow(sinks'[n], o) => OldEvent(n, o)
  BY <1>3, <1>6, <1>7 DEF TestRow, PassRow, new
<1>9. CASE Colour(c, e) # None /\ ts > signal.ts
  <2>1. c \in {"vitest", "wrap"} /\ Colour(c, e) = "red"
    BY <1>9, Coloured DEF e
  <2>2. ts \in Nat /\ ts <= clock' /\ \A o \in Values(job'["vitest"].todo) : o.ts # ts
    BY <2>1, SignalTime DEF ts
  <2>3. /\ signal'.colour = "red" /\ signal'.ts = ts
        /\ signal'.id = id /\ signal'.sink = i
    BY <1>5, <1>9, <2>1
  <2>4. ASSUME TestRow(sinks'[i], id)
        PROVE  /\ sinks'[i].errors[id].last = ts
               /\ \A o \in Values(job'["vitest"].todo) : o.ts > ts
    <3>1. SurfaceOf[e.hash] = "vitest"
      BY <1>3, <2>4 DEF TestRow, new, hash
    <3>2. c = "vitest"
      BY <3>1, Coloured DEF e
    <3>3. Values(job'["vitest"].todo) = {}
      BY <3>2, TestsDone
    <3> QED BY <1>3, <3>3 DEF new
  <2>5. SignalRow'
    BY <1>1, <1>4, <2>3, <2>4 DEF SignalRow, new
  <2> QED BY <1>1, <1>8, <1>9, <2>2, <2>3, <2>5, SignalMoved
<1>10. CASE ~(Colour(c, e) # None /\ ts > signal.ts)
  <2>1. signal' = signal /\ signal.ts \in Nat
    BY <1>5, <1>10 DEF SignalInv
  <2>2. ASSUME SurfaceOf[hash] = "vitest"
        PROVE  /\ ts \in Nat /\ ts <= signal.ts
               /\ signal.colour = "red" => ~(i = signal.sink /\ id = signal.id)
    <3>1. SurfaceOf[e.hash] = "vitest"
      BY <2>2 DEF hash
    <3>2. c = "vitest" /\ Colour(c, e) # None
      BY <3>1, Coloured DEF e
    <3>3. ts \in Nat /\ ts <= signal.ts
      BY <1>10, <2>1, <3>2, SignalTime DEF ts
    <3>4. ASSUME signal.colour = "red", i = signal.sink, id = signal.id
          PROVE  FALSE
      <4>1. SignalRow
        BY <1>1, <3>4 DEF SignalInv
      <4>2. id <= s.lastError
        BY <3>4, <4>1 DEF SignalRow, s
      <4>3. id \in DOMAIN s.errors /\ s.errors[id].hash = hash
        BY <1>3, <1>4, <4>2
      <4>4. TestRow(sinks[signal.sink], signal.id)
        BY <2>2, <3>4, <4>3 DEF TestRow, s
      <4>5. \A o \in Values(job["vitest"].todo) : o.ts > signal.ts
        BY <3>4, <4>1, <4>4 DEF SignalRow
      <4>6. Written(c) \in Values(job["vitest"].todo) /\ ts = Written(c).ts
        BY <3>2, RecordedIn DEF ts, At
      <4> QED BY <2>1, <3>3, <4>5, <4>6
    <3> QED BY <3>3, <3>4
  <2>3. \A n \in 1..Path : \A o : TestRow(sinks'[n], o) =>
          \/ OldError(n, o)
          \/ /\ sinks'[n].errors[o].last \in Nat
             /\ sinks'[n].errors[o].last <= signal.ts
             /\ signal.colour = "red" => ~(n = signal.sink /\ o = signal.id)
    BY <1>8, <2>2
  <2> QED BY <1>1, <1>6, <1>8, <2>1, <2>3, SignalKept
<1> QED BY <1>9, <1>10

LEMMA SignalStep ==
    ASSUME TypeInv, CountInv, SentInv, SignalInv, Kept, [Next]_vars
    PROVE  SignalInv'
<1>1. TestsLater /\ clock' \in Nat /\ clock' >= clock
  BY SentStep
<1>2. CASE NoNewError /\ NoNewEvent /\ UNCHANGED signal
  BY <1>1, <1>2, SignalQuiet
<1>3. CASE Spawn
  <2>1. NoNewEvent /\ UNCHANGED signal
    BY <1>3, SpawnFiles DEF Spawn
  <2>2. NoNewError
    BY <1>3, SpawnErrors
  <2> QED BY <1>2, <2>1, <2>2
<1>4. ASSUME NEW c \in Clients, Record(c)
      PROVE  SignalInv'
  <2>1. Written(c).type \in {"error", "event", "run"}
    BY <1>4, RecordedIn DEF Envelopes
  <2>2. CASE Written(c).type = "run"
    <3>1. NoNewEvent
      BY <1>4, <2>2, RecordFiles DEF Written
    <3>2. Recorded(File(c), Written(c), At(c)).errors = File(c).errors
      BY <1>4, <2>2, RecordedIn, NotAnError
    <3>3. NoNewError
      BY <1>4, <3>2, RecordedIn DEF NoNewError, File
    <3>4. Colour(c, Written(c)) = None
      BY <1>4, <2>2, Coloured
    <3>5. UNCHANGED signal
      BY <1>4, <3>4 DEF Record, Written
    <3> QED BY <1>2, <3>1, <3>3, <3>5
  <2> QED BY <1>1, <1>4, <2>1, <2>2, SignalEvent, SignalError
<1>5. CASE ~Spawn /\ \A c \in Clients : ~Record(c)
  <2>1. NoNewError /\ UNCHANGED signal
    BY <1>5, QuietStep
  <2>2. NoNewEvent
    BY <1>5, FileSteps
  <2> QED BY <1>2, <2>1, <2>2
<1> QED BY <1>3, <1>4, <1>5

\* The one row a question for the latest finds is the highest.
LEMMA LatestIsHighest ==
    ASSUME NEW b \in Nat, NEW S \in SUBSET (0..b), NEW id \in Highest(S, 1)
    PROVE  id \in S /\ \A other \in S : other <= id
<1>1. id \in S /\ Cardinality({other \in S : other > id}) < 1
  BY DEF Highest
<1>2. IsFiniteSet({other \in S : other > id})
  <2>1. IsFiniteSet(0..b)
    BY FS_Interval
  <2>2. {other \in S : other > id} \in SUBSET (0..b)
    OBVIOUS
  <2> QED BY <2>1, <2>2, FS_Subset
<1>3. Cardinality({other \in S : other > id}) = 0
  BY <1>1, <1>2, FS_CardinalityType
<1>4. {other \in S : other > id} = {}
  BY <1>2, <1>3, FS_EmptySet
<1>5. \A other \in S : other \in Nat
  OBVIOUS
<1> QED BY <1>1, <1>4, <1>5

LEMMA StatusTold ==
    ASSUME TypeInv, SignalInv
    PROVE  TestStatusIsLastSignal
<1> SUFFICES ASSUME signal.sink = Path, Found
             PROVE  TestStatus(Sink) = signal.colour
  BY DEF TestStatusIsLastSignal
<1> DEFINE failures == LatestErrorBySurface(Sink, "vitest")
           passes == LatestEventByKind(Sink, "test-pass")
           id == signal.id
<1>1. Path \in 1..Path /\ Filed(Sink) /\ SignalRow /\ Sink = sinks[signal.sink]
  BY DEF TypeInv, SinksInv, SignalInv, Sink
<1>2. /\ \A f \in failures : TestRow(Sink, f)
      /\ \A p \in passes : PassRow(Sink, p)
  BY DEF LatestErrorBySurface, LatestEventByKind, Highest, TestRow, PassRow
<1>3. \A f \in failures : Sink.errors[f].last \in Nat /\ Sink.errors[f].last <= signal.ts
  BY <1>1, <1>2 DEF SignalInv, RowsOlder, Sink
<1>4. \A p \in passes :
        /\ Sink.events[p].ts \in Nat
        /\ signal.colour = "red" => Sink.events[p].ts < signal.ts
  BY <1>1, <1>2 DEF SignalInv, RowsOlder, Sink
<1>5. signal.ts \in Nat
  BY DEF SignalInv
<1>6. TestStatus(Sink) =
        IF failures = {} /\ passes = {} THEN None
        ELSE IF \A f \in failures : \E p \in passes : Sink.events[p].ts >= Sink.errors[f].last
        THEN "green" ELSE "red"
  BY DEF TestStatus
<1> HIDE DEF failures, passes
<1>7. CASE signal.colour = "green"
  <2>1. id \in passes
    BY <1>7 DEF Found, passes
  <2>2. Sink.events[id].ts = signal.ts
    BY <1>1, <1>2, <1>7, <2>1 DEF SignalRow, PassRow
  <2> QED BY <1>3, <1>5, <1>6, <1>7, <2>1, <2>2
<1>8. CASE signal.colour = "red"
  <2>1. id \in failures
    BY <1>8 DEF Found, failures
  <2>2. Sink.errors[id].last = signal.ts
    BY <1>1, <1>2, <1>8, <2>1 DEF SignalRow
  <2>3. ~\E p \in passes : Sink.events[p].ts >= Sink.errors[id].last
    BY <1>4, <1>5, <1>8, <2>2
  <2> QED BY <1>6, <1>8, <2>1, <2>3
<1> QED BY <1>1, <1>7, <1>8 DEF SignalRow

(***************************************************************************)
(* What the questions answer is what happened, for every store, limit and  *)
(* age and any commands beside each other: the last signal of the tests,   *)
(* the run of an error, and the latest update of the dev server, whatever  *)
(* repeats, is cut or goes with age (test_status, show and hmr in          *)
(* query.rs).                                                              *)
(***************************************************************************)
THEOREM AnswersStayTrue == Spec => []AnswersAreTrue
<1> DEFINE Inv == /\ TypeInv /\ CountInv /\ FlushInv /\ WaitInv /\ RowsInv
                  /\ SentInv /\ RunsInv /\ SignalInv
<1>1. Init => Inv
  <2>1. Init => CountInv
    BY DEF Init, CountInv, Counted, EmptySink, Path
  <2> QED BY <2>1, TypeInit, FlushInit, OrderInit, SentInit, RunsInit, SignalInit
<1>2. Inv /\ [Next]_vars => Inv'
  BY FileSteps, TypeStep, CountStep, FlushStep, OrderStep, SentStep, RunsStep, SignalStep
<1>3. Inv => AnswersAreTrue
  BY RunShown, UpdateNamed, StatusTold DEF AnswersAreTrue
<1> QED BY <1>1, <1>2, <1>3, PTL DEF Spec

=============================================================================
