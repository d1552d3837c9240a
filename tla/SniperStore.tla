---------------------------- MODULE SniperStore ----------------------------
(***************************************************************************)
(* The error sink's database (store.rs) and the questions asked of it      *)
(* (query.rs).  An error is its identity, what dedup_hash makes of it.     *)
(***************************************************************************)
EXTENDS Integers, FiniteSetsExt

CONSTANTS
    None,
    SurfaceOf,      \* [identities -> surfaces]
    ErrorAge,       \* how old errors and events may get, and how many
    EventAge,
    MaxErrors,
    MaxEvents,
    SinceLimit,     \* rows in an answer of since
    HmrFetch,       \* lifecycle events hmr looks at, and shows
    HmrShow

Identities == DOMAIN SurfaceOf

ASSUME SniperStoreAssumption ==
    /\ {ErrorAge, EventAge} \subseteq Nat
    /\ {MaxErrors, MaxEvents, SinceLimit, HmrFetch, HmrShow} \subseteq Nat \ {0}
    /\ HmrShow <= HmrFetch
    /\ EventAge <= ErrorAge

\* Ids count up and are never used twice, which AUTOINCREMENT sees to.
EmptySink == [errors |-> <<>>, lastError |-> 0, events |-> <<>>, lastEvent |-> 0, runs |-> <<>>]

Put(table, key, row) == [k \in DOMAIN table \cup {key} |-> IF k = key THEN row ELSE table[k]]

Keep(table, keys) == [k \in DOMAIN table \cap keys |-> table[k]]

RowOf(sink, hash) == {id \in DOMAIN sink.errors : sink.errors[id].hash = hash}

\* Mutant: a repeat has a row of its own.
RecordAnew(sink, hash, ts, run) ==
    LET id == sink.lastError + 1
    IN  [sink EXCEPT !.lastError = id,
                     !.errors = Put(@, id, [hash |-> hash, first |-> ts, last |-> ts,
                                            count |-> 1, run |-> run])]

\* A repeat keeps its row, and takes the time and the run of the report.
RecordError(sink, hash, ts, run) ==
    LET id == IF RowOf(sink, hash) = {} THEN sink.lastError + 1
              ELSE CHOOSE id \in RowOf(sink, hash) : TRUE
        row == IF RowOf(sink, hash) = {}
               THEN [hash |-> hash, first |-> ts, last |-> ts, count |-> 1, run |-> run]
               ELSE [sink.errors[id] EXCEPT !.count = @ + 1, !.last = ts, !.run = run]
    IN  [sink EXCEPT !.errors = Put(@, id, row), !.lastError = Max({@, id})]

RecordEvent(sink, kind, ts, run) ==
    LET id == sink.lastEvent + 1
    IN  [sink EXCEPT !.lastEvent = id,
                     !.events = Put(@, id, [kind |-> kind, ts |-> ts, run |-> run])]

\* A run that is reported again keeps the time it started.
RecordRun(sink, run, ts) ==
    [sink EXCEPT !.runs = Put(@, run, IF run \in DOMAIN @ THEN @[run] ELSE ts)]

Highest(ids, n) == {id \in ids : Cardinality({other \in ids : other > id}) < n}
Lowest(ids, n) == {id \in ids : Cardinality({other \in ids : other < id}) < n}

\* What is too old goes, then all but the highest ids.
Retain(sink, now) ==
    LET errors == {id \in DOMAIN sink.errors : sink.errors[id].last >= now - ErrorAge}
        events == {id \in DOMAIN sink.events : sink.events[id].ts >= now - EventAge}
    IN  [sink EXCEPT !.errors = Keep(@, Highest(errors, MaxErrors)),
                     !.events = Keep(@, Highest(events, MaxEvents))]

-----------------------------------------------------------------------------
\* Questions.

MaxCursor(sink) == Max(DOMAIN sink.errors \cup {0})

\* Mutant: the row after the cursor is taken for seen.
ErrorsPast(sink, cursor) ==
    Lowest({id \in DOMAIN sink.errors : id > cursor + 1}, SinceLimit)

ErrorsSince(sink, cursor) == Lowest({id \in DOMAIN sink.errors : id > cursor}, SinceLimit)

LatestErrorBySurface(sink, surface) ==
    Highest({id \in DOMAIN sink.errors : SurfaceOf[sink.errors[id].hash] = surface}, 1)

LatestEventByKind(sink, kind) ==
    Highest({id \in DOMAIN sink.events : sink.events[id].kind = kind}, 1)

TestStatus(sink) ==
    LET failures == LatestErrorBySurface(sink, "vitest")
        passes == LatestEventByKind(sink, "test-pass")
        Later(pass, failure) == sink.events[pass].ts >= sink.errors[failure].last
    IN  IF failures = {} /\ passes = {} THEN None
        ELSE IF \A failure \in failures : \E pass \in passes : Later(pass, failure)
        THEN "green" ELSE "red"

\* The two latest runs are asked for the error's, else it is the latest.
LatestRuns(sink, n) ==
    LET Later(a, b) == \/ sink.runs[a] > sink.runs[b]
                       \/ sink.runs[a] = sink.runs[b] /\ a > b
    IN  {run \in DOMAIN sink.runs : Cardinality({r \in DOMAIN sink.runs : Later(r, run)}) < n}

ShowRun(sink, id) ==
    LET own == sink.errors[id].run
    IN  IF own \in LatestRuns(sink, 2) THEN own
        ELSE IF LatestRuns(sink, 1) = {} THEN None
        ELSE CHOOSE r \in LatestRuns(sink, 1) : TRUE

\* An update of another file is left out, of the events that tell the story
\* of the server; then the list is cut.
HmrKinds == {"hmr-update", "hmr-other", "full-reload", "dep-optimized", "server-start"}

\* Mutant: the list is cut first.
HmrCut(sink) ==
    LET seen == Highest({id \in DOMAIN sink.events : sink.events[id].kind \in HmrKinds}, HmrShow)
        updates == {id \in seen : sink.events[id].kind \in {"hmr-update", "full-reload"}}
    IN  IF updates = {} THEN None ELSE Max(updates)

Hmr(sink) ==
    LET seen == Highest({id \in DOMAIN sink.events : sink.events[id].kind \in HmrKinds}, HmrFetch)
        told == Highest({id \in seen : sink.events[id].kind # "hmr-other"}, HmrShow)
        updates == {id \in told : sink.events[id].kind \in {"hmr-update", "full-reload"}}
    IN  IF updates = {} THEN None ELSE Max(updates)

=============================================================================
