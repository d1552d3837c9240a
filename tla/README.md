# A verification development for gitpixel

gitpixel finds code for agents: a text index pinned to Git commits, a call
graph, a daemon that serves both, a transcript corpus and an error sink.  This
directory models its state machines in TLA+, checks them with TLC and proves
the main results about them with TLAPS.

## The system

| Component | State it keeps | Operations |
|-----------|----------------|------------|
| Layered text index (`gitpixel-core`: `indexset.rs`, `delta.rs`, `overlay.rs`, `gitsync.rs`) | On disk under `.gitpixel`: `base.shard`, `delta.shard`, `state.json`, `base.sig`. In memory: base, delta, delta tombstones, overlay | `open_or_build`, `reconcile_delta`, `refresh_file`, `remove_file`, `search_page_in`, `paths` |
| Shards and plain build (`shard.rs`, `index.rs`) | one immutable file per shard | write, open, `build`, `search` |
| Query planning (`plan.rs`, `posting.rs`, `verify.rs`, `gram.rs`) | none | plan a pattern, resolve postings, verify candidates |
| Repository daemon (`gitpixel-serve`: `daemon.rs`) | socket and pid file; channel, pending changes, flush and idle deadlines | accept, record an event, flush, handle a connection, exit |
| Service (`api.rs`, `targets.rs`) | an open index, a cached graph handle | one per request, `refresh_file`, `remove_file`, `ensure_graph`, `rebuild_graph` |
| Call graph (`gitpixel-graph`) | SQLite: files, symbols, edges, imports, unresolved calls, a freshness stamp | `build_graph`, `update_file`, `remove_file`, the resolution tiers, analyses |
| Transcript recall (`gitpixel-recall`) | SQLite: sources, sessions, turns, chunks; text segments and vectors with a manifest and a lock | ingest, index new turns, rebuild, embed, search, ask |
| Recall daemon (`recall_service.rs`) | as the repository daemon | as the repository daemon |
| Graph analyses (`gitpixel-graph`: `impact.rs`, `trace.rs`, `process.rs`, `cluster.rs`, `changes.rs`) | SQLite: processes, clusters | computed by the first question, listed ever after; impact, trace, changes |
| Error sink (`gitpixel-sniper`) | SQLite: errors, events, runs | record, query, retain, run wrapper, MCP |
| Targets and context (`targets.rs`, `gitpixel-context`) | none | rank files for a task, cut a context to a budget |
| Command line (`gitpixel-cli`) | none | ask a daemon or work in process; start and stop daemons |
| JS companion (`js/sniper`) | a queue of reports | report, flush, close; the end of a test run |

How they interact.  The command line asks the daemon over a Unix socket, or
opens a `Service` of its own.  The daemon owns one `Service`; the accept thread
and the file watcher only send messages into one channel, and the main thread
takes them one at a time.  The service applies a change to the text index and,
if there is one, to the graph database.  The index learns of commits from Git
commands and of the working tree from the same commands when it is opened and
from the watcher afterwards.  Different processes share nothing but the files.

What is hard here:

- *the index*: a process may die between any two of the files it replaces; the
  user moves HEAD, stages and edits while the index is being opened; every Git
  command may fail and failure reads as an empty answer; four layers must be
  merged so that each path has one content;
- *the daemon*: events are debounced, overtaken and looked at late; timeouts
  race with messages; what happens while the watcher is not there is not seen;
- *the graph*: one file is updated at a time in several transactions, against
  names other files export;
- *recall*: several processes ingest the same growing files; vectors and
  segments live outside the database they describe.

What makes each correct: the index finds every file under its present content
and lists no other; its files never lie about their commit; the daemon loses no
change and catches up when the tree is quiet; the graph after any updates is
the graph a rebuild would give; recall indexes every turn once.

## Plan

1. `SearchView`, `IndexSet`, `IndexSetProofs`: the index.  Done.
2. `Daemon`, `DaemonProofs`: the daemon over `SearchView`.  Done.
3. `CallGraph`: `build_graph`, `update_file`, `remove_file`, the resolution
   tiers and the freshness stamp; `CallGraphProofs`: the stamp, the types and
   the ledger of calls.  Done.
4. `DaemonSocket`, `DaemonSocketProofs`: daemons and commands at one socket
   file.  Done.
5. `RecallStore` with `RecallIngest` and `RecallCorpus`: cursors and concurrent
   ingesters; segments, vectors, their manifests and the stealable lock;
   `RecallIngestProofs` and `RecallCorpusProofs` over `SetsOfNumbers`.  Done.
6. `SniperStore`, `Sniper`, `SniperProofs`: the error sink and what writes to
   it.  Done.
7. `TextQueries`, `RecallQueries`, `Targets`, `ContextBudget` under `Answers`,
   and `GraphQueries` under `GraphAnalyses`: the algorithms that answer, each
   against a reference definition.  Done.
8. Left: theorems about `GraphAnalyses`, and a second process in `IndexSet`.

## Modules

| Module | What it is |
|--------|------------|
| `SearchView` | what a text index promises: one view of the tree, and the paths it may be wrong about |
| `IndexSet` | the layered index, its files, Git and the user |
| `IndexSetProofs` | its inductive invariant and the theorems |
| `MCIndexSet` | a history of three commits and the bound on the user's steps |
| `Daemon` | the daemon's main loop over `SearchView` |
| `DaemonProofs` | its inductive invariant and the theorems |
| `MCDaemon` | the bounds on edits, connections and starts |
| `DaemonSocket`, `MCDaemonSocket` | several daemons and commands at one socket |
| `DaemonSocketProofs` | its invariants and the theorems |
| `CallGraph` | the graph database, its builds and its incremental updates |
| `CallGraphProofs` | the stamp, the types and the ledger of calls |
| `MCCallGraph` | five sources and the bounds on edits, updates and interruptions |
| `Orders` | sequences and the orders they are put in, for the modules of questions |
| `GraphQueries` | the questions to a graph as operators, and their pages |
| `GraphAnalyses`, `MCGraphAnalyses` | a service that answers them and keeps processes and clusters |
| `RecallStore` | the transactions of `recall.db` as operators |
| `RecallIngest`, `MCRecallIngest` | ingesters over transcripts that are being written |
| `RecallCorpus`, `MCRecallCorpus` | segments and vectors over the store |
| `SniperStore` | the statements of the error sink as operators |
| `SetsOfNumbers` | lemmas about finite sets of row ids: the least, the last, the lowest n |
| `RecallIngestProofs` | the ties between the store's tables, the recorded lines and the turns stored of them, and the theorems |
| `RecallCorpusProofs` | the invariants of the two indexes, and the theorems |
| `Sniper`, `MCSniper` | the commands that write to the sink and ask it |
| `SniperProofs` | its types, and the theorems about the reporter and the agent's questions |
| `TextQueries` | grams, plans, postings, verification and the page of a search |
| `RecallQueries` | search and ask over the transcripts |
| `Targets` | the ranking of files for a task |
| `ContextBudget` | the context of a symbol within a budget |
| `Answers`, `MCAnswers` | clients that ask these questions and follow the pages |

Operators commented *Mutant* are plausible bugs of the code, kept beside the
definition they vary: with one in its place a named property fails.

### SearchView

`work` is the working tree, `view` the content the index would find each path
under, `suspect` the paths about which it promises nothing.  `Publish` opens an
index that may give up on some paths; `Refresh` re-reads one; `Remove` drops
one; `Change` is the user.  `Fresh` is the promise.

### IndexSet

A shard is a record of a commit and the text each path is found by.  `Text` are
contents of regular files, `Empty` a file of no bytes, `Binary` one the extractor
refuses (a NUL byte, oversize), `Absent` no file.  `Links` are symbolic links, by
what they point to.  The layers do not agree on these: what is read from the disk
(`TextOf`: overlay and plain walk) refuses a link and lists an empty file; what is
read from a commit (`BlobOf`, that is `extract_blob`) never looks at the mode, takes
the target of a link for its text, and leaves out an empty blob.

One action is one step of `open_or_build` between two things another actor, or
a crash, can see: `OpenIndex` (read HEAD), `ReuseBase`, `DropDelta`,
`DropState`, `BuildGitBase`, `SaveBaseState`, `BuildPlainBase`,
`SavePlainSig`, `ReuseDelta`, `WriteDelta`, `SaveDeltaState`, `ReadStatus`,
`ApplyStatus` for each line, `FinishOpen`.  A shard is written to a temporary
file, synced and renamed, so its replacement is one step; so is that of
`state.json`.  `RefreshFile` and `RemoveFile` are the watcher's calls, `Exit`
is the end or the death of the process at any point.  The user edits, stages
(`git add`, `git rm --cached`), commits or resets (`MoveHead`), checks out, and
gets delete/modify conflicts; `LoseBase` is a base that no longer opens.
`GitFails` names the Git commands that may fail, which the code cannot tell
from an empty answer.

`statusHead`, `statusClash` and `touched` are history variables: no action
reads them.

`SearchComplete` excuses exactly these ways of being wrong, each defined and
named: a torn delta, a diff or status that Git did not answer, HEAD moved during
the open, a commit-anchored base served without Git, a file staged for deletion
when the base was built, a file that changed before its directory was signed, a
file in a delete/modify conflict, and a link or an empty file that no newer
layer than a commit holds (`KeptAsBlob`), which is found by its target or not at
all.  All are behaviours of the code; PROJECT.json says where.  The plain walk
and the reading of blobs are one step each: a file that changes during them
counts as touched, as it would be if each were read alone.

### Daemon

`channel` holds connections and file events in the order they were sent;
`pending` is the code's map from paths to the removed flag; `applying` is the
batch `mem::take` took; `timer` is `flush_at` (`off`, `armed`, `due`); `idle`
says that IDLE_TIMEOUT has passed.  `RecvEvent`, `RecvConn` and `RecvTimeout`
are the outcomes of `recv_timeout`, followed by `FlushCheck`, `Apply` for each
path, `FlushDone`, and `Continue` or `Exit`.  `Stop` drops channel and pending
changes with the process.  A path may be a `Directory`, with the paths `Below`
it: `Record` looks up what the path is when it takes the event, as
`path.is_dir()` does, so that an event sent when a file was removed is passed
over if a directory stands there by then.  Its properties name this
(`Directories`).  `MoveDirectory` renames a directory with all in it.  `missed`
is history: the paths changed while no watcher was there, below IGNORED_DIRS, or
by the move of a directory, and those the index gave up on when it was opened.

### CallGraph

`db` is `graph.db`: `ids` and `stored` are the table of files (and what each
row was read from), `symbols`, `imports`, `edges` and `unresolved` the other
tables, `stamp` the freshness signature.  `Unlisted` are files that a walk of
the tree passes over and that the watcher may still report.  A source is what
extraction finds: definitions, calls (with the definition each is in, its name
and whether it has a receiver) and imports.  `Meant`, `Tier` and `EdgeFor` are
the tiers of `resolve.rs`.  Row ids are one more than the largest in the table,
as in the code's schema, so a removed id comes back; `ExactIsImported` names
what that can do (`Misdirected`).

`update_file` is `Demote` (keep incoming calls), `Replace` (read the file,
delete its rows), `Insert` (symbols, imports, own calls), `ReconsiderCalls`,
`ResolveStored` and `Stamp`.  `ensure_graph` is `Reuse`, or `StartBuild`,
`Collect` and `CheckFile` file by file, and `Publish` or `GiveUp`.
`RemoveFile` is `Service::remove_file`.  `Interrupt` ends the process, or
stands for a failing statement whose error the service drops.  The user may
edit between any two of these.

`dropped`, `torn`, `doubled`, `skewed` and `settled` are history variables and
name the excuses: calls deleted with a removed file, an update that stopped half
way, a file that defines one qualified name twice, files that were stamped
unread, a removal after which nothing was re-resolved.  The second definition of
a name replaces the row of the first, whose id the calls inside it keep; with
such a file in the graph callers are lost and, once the id comes back, calls are
invented.  One of the sources of the run (`Twice`) is such a file.

What is coarse: each of the steps of `update_file` is several SQL statements
that are not in one transaction, and an interruption falls between the steps
only; the walk for a signature is one step in `Stamp` and `IsFresh`, while the
two walks of a build are read file by file; an import names one file, so the
rules that find the file of an import's text are not modelled; there is one
process on the database.

### DaemonSocket

`socket` says whose listener the socket file leads to; it stays when its daemon
dies, and `Unlink` and `End` remove it whosever it is.  A daemon is
`Foreground` or spawned, then `Probe` (the connect of `run_corpus`), `Unlink`,
`Bind`; it takes connections one at a time (`Take`, `Serve`, `Drop`, which is
any of the deadline, the read timeout, the cap on requests and a client that
is gone), and ends by `LeaveLoop` and `End`, or by `Kill`.  A command is
`try_daemon` with what follows when it has no answer: `Connect`, `Pong` (the
version check, and the shutdown of an old daemon), `Answer`, `GiveUp`, and
then `Local` or `Spawn`.  `GiveUp` stands for every timeout and may happen
after the reply was written: the daemon then counts the request as done and
the client does not.  `met` is history: the daemons that were between their
look at the socket and their bind at the same time.  What is asked and
answered is not modelled here: `Daemon` has the changes, `Answers` the answers.

### GraphQueries and GraphAnalyses

`GraphQueries` has one operator for each read of a graph: breadth-first
`Impact` with its counts and limits, `Trace`, `EntryPoints` and `BfsTrace` of a
process, label propagation (`Propagate`, `Clusters`), and `Detect` from the
hunks of a diff.  The order of rows is the order the code sorts them in.

In `GraphAnalyses` a client asks and follows `next_offset`.  `StartDiscover`
and `StartCompute` are the first question for processes or clusters, whose rows
are then inserted one by one, each in a transaction of its own; `Answered` pages
what was computed, `ListProcesses` and `ListClusters` what was written.
`Interrupt` is a death or a failing statement; what is left is taken for all
there is (`torn`).  `Update` changes the graph under the derived tables
(`stale`), `Rebuild` starts anew.  The graphs are constants of the run: what
may be a graph is the business of `CallGraph`.

### RecallStore, RecallIngest and RecallCorpus

`RecallStore` has `recall.db` as a record and each transaction of `store.rs` as
an operator, with the row ids SQLite gives: one more than the largest.

`RecallIngest` has several ingesters.  A unit is a transcript file or a
database of another tool, a sequence of records that grows, is rewritten,
archived or half written while it is read.  A pass is `ingest_source`: what is
there is listed, each unit compared with its recorded state, parsed from its
cursor or from the start (the rules of each parser), its sessions written one
transaction each, its state saved, and subagents linked at the end.  A pass may
die between any two of these (`Abort`).

Three history variables say what the code means but does not keep.  `ingested` is
the lines a recorded state stands for (`StandsFor`: the file as it was read, or,
when it no longer began with what the resume point stood for, those lines and
the tail that was appended to them).  `doubt` names the sessions that a race, a
death or a tail hash that matched by chance has spoilt; a race is, among others,
another pass that recorded the unit since this one took it (`Moved`).  `ahead`
names the sessions that are in the store while no recorded state accounts for
them: those of a unit whose last session is not stored yet, or was not when the
pass died, and a session that a slow pass stored from an old copy after a later
one had been recorded, as when codex archives a rollout (`Overtaken`).
`UnchangedIsStored` excuses the last two.

A row of a database is a message that has text.  opencode writes a message and
its parts apart: a message may first have no part (`InsertRow` without a row),
get its text later, or in several parts, and messages may come out of the order
of their times (`LateRow`).  The cursor is the time of the latest message, with
text or without, which is all that `oc_classify` compares.  A late row therefore
puts its session into `ahead` until it is read again, and a pass that selected
the rows before the change leaves it there (`Outdated`).  The comment of
`oc_parse` promises more.

`RecallCorpus` has the two indexes.  `index_new` and a rebuild run under a lock
file that another process may steal when it takes the holder for dead
(`FindStale`); they write segments, then the manifest; a search opens the
manifest, its segments and the rows above the high water mark at three
moments.  A backfill heals, embeds in batches, writes vectors, chunk rows and
marks, and may clear everything first; all of these die at any step.  Ids of
deleted turns come back (`reused`, `blurred`), which `recall_reused_rows`
shows to be a fault.

### SniperStore and Sniper

`SniperStore` has the statements: a repeat keeps its row, rows go with age and
number, `since` reads rows and cursor apart.  In `Sniper` the vite plugin ships
its queue one child process at a time, a flush waits, the vitest reporter
records one outcome, `sniper run` wraps a command that may fail unseen, and an
agent asks over a connection it keeps.  Each client has errors of its own: the
reporter of tests alone those of surface `vitest` (`vitest-reporter.ts:126`; the
plugin turns any other surface of a browser into `reported`, `vite.ts:302`), and
`sniper run` alone those of `WrapErrors` (`run.rs`).  A sink that fails to open
is deleted and made anew under whoever has it open: `sinks` keeps every file
there was.

### TextQueries, RecallQueries, Targets, ContextBudget and Answers

A letter is a number and a text a sequence of them.  `Spans` is the stack of
`gram.rs` (each window against the hull of heavier ones), `Analyze` the plan
over literals, classes, repetitions, concatenations, alternations and captures
with the two limits on what is tracked; `ResolveQuery` works on sorted lists
with `Gallop`; `Candidates` joins base, tombstones and overlay; `SearchPageIn`
and `SearchAnswer` cut the page.  A file may not open when it is verified
(`sealed`), and a line may hold bytes that are no UTF-8 (`BadByte`): a limited
search then ends as a whole, a request gets the error, and a keyword of
`op_targets` has no hits.  A search without a limit passes over such a file;
only tests ask for one, and it is not modelled.  The service indexes trigrams
and the command line sparse grams (`maxGram` of the corpus): the runs have both.
The regular expression engine is external: `Matches` says what it finds.  A gram
is its text, not its hash.

`RecallQueries` has `search` (candidates and tail, or a scan) and `ask`: words
by their cost, the lexical and the semantic channel, reciprocal rank fusion,
one group per session.  Scores are integers in a unit that the denominators
divide; `WordWeight` is a decreasing function in the place of the logarithm.
`Targets` has every channel of `op_targets`, their fusion, the bonus of an
exact name, tiers, caps and limit.  `ContextBudget` has `op_context`: loading
with limits on bytes, fitting layer by layer, the fields that are dropped, and
the cut of the text until the JSON fits.  A file, a snippet and an answer are
their sizes.  `Answers` lets a client ask any of them and follow the pages.

## Runs

| Run | Bounds | Shows |
|-----|--------|-------|
| `index_open` | `git rev-parse`, `diff` and `status` may fail, 2 paths, 2 texts, a link, an empty and a binary file, 3 commits (c2 modifies one path and deletes the other, c3 empties one and makes the other a link), 3 steps of the user, any number of opens and crashes | types, `SearchComplete`, `StateMatchesDelta`, and that `IndexSet` implements `SearchView` |
| `index_torn_delta` | as `index_open` | *violation*: a reused delta of another commit |
| `daemon_updates` | 2 paths, one a file or a directory that may hold the other, which is ignored, 4 changes, 1 connection, 2 starts | `NoLostUpdate`, `CaughtUpMeansFresh`, `PendingHasFlush`, and under fairness `EventuallyFresh` |
| `graph_updates` | 2 files a walk meets and 1 it does not, 2 names, 6 sources (a library, an importer with and without receiver, one that imports another name than it calls, a caller without import, a file that defines what it calls, one that defines a name twice), 2 edits, 2 updates or removals, 1 interruption, any number of builds | types, `CallsAccounted`, `EdgesAreCalls`, `ResolvedAsDecided`, `ExactIsImported`, `StampIsEarned` |
| `graph_stale_stamp` | the same | *violation*: a graph stamped fresh that holds a file as it was before |
| `daemon_socket` | 2 daemons, one of an older protocol, each started once, 2 commands, 2 pings after a spawn | `OwnerUnlessRaced`, `StopIsObeyed`, and under the fairness of the commands `EveryCommandEnds` |
| `graph_queries` | 5 symbols in 2 files, 2 to 7 edges, 3 diffs, pages of one row, 1 update or rebuild, any number of interruptions | `PagesAreWhole`, `AnalysesFitTheGraph`, `ImpactIsMutual`, `TraceIsShortest` |
| `recall_ingest` | 2 ingesters, the units of one tool at a time (2 files of claude, 2 of codex, 1 of cursor and of gemini, a database of opencode and of devin), 3 writes, 3 passes, 5 of both, 1 death | types, `UnchangedIsStored`, `RecordedIsStored`, `LinksNeverMislead` |
| `recall_corpus` | 2 indexers and 1 search, or 2 embedders; 2 sessions, 3 texts, 2 or 3 ingests, 2 runs, 1 death, 1 stolen lock, 2 turns in a segment and in a batch | types, `HighWaterIsCovered`, `SearchFindsTurns`, `EmbeddedHasVector`, `VectorsKeepTheirTurn` |
| `recall_reused_rows` | the same | *violation*: turns under ids that came back are not found |
| `sniper` | 4 mixes of clients: 4 reports and an agent, test runs and waits that age rows, 3 events and a wrapped compiler, test runs and two wraps of one failing command; limits of 2 to 4 rows, 1 recreated sink | types, `SinceMissesNothing`, `ReportsArrive`, `OutcomeIsRecorded`, `AnswersAreTrue` |
| `answers` | 9 patterns over 3 letters with 2 scopes and 3 limits, 5 files with and without a delta and with two of them unreadable, 6 tasks, 3 questions, 6 symbols, 13 budgets, 6 turns and 2 sets of vectors | `SearchFindsEveryMatch`, `RankingIsUnanimous`, `ContextFitsItsBudget` |

Why the bounds are enough.  The layers treat paths independently except for
whether a diff is empty, so two paths show a diff that is empty for one and not
for the other.  Three commits are needed for a delta that is torn: one for the
base and two for deltas.  Three steps of the user reach it (two moves and the
move back).  The daemon's races are about one path (remove, create, a stale
flag, a directory in its place) and about an ignored event that re-arms the
timer; four changes allow a remove, a create and two more.  Resolution looks at
one name at a time and asks whether one or several files define it: two files
that define it and one that calls it show each tier, the ambiguous case and the
move between them.  Two updates are a removal or replacement and the return of
the file; the walk needs two files for an edit that falls between the two
readings of one of them.

The socket's races are between two daemons; two commands are one that is being
served and one that waits.  In the recall runs a fault needs one interleaving
or one death between two passes, and ids come back after one replacement.  The
limits of the queries are set low, so that every page is cut, every cap is
reached and every budget that fits nothing, something and all is there.
`recall_ingest` and `recall_corpus` use symmetry, and check no liveness.

Deadlock is not checked where a run may stop: the user need not act, and the
counters of the MC modules end.

Fairness.  The main thread is one thread that nothing blocks for good: a
connection has a deadline and a read timeout, so `MainLoop` is weakly fair;
`Debounced` is the passage of 500 ms; `Bind` and `StartWatcher` follow
`OpenService` in the same function.  Neither clients, edits, the idle timeout
nor a kill is assumed to happen.  In `DaemonSocket` only the commands are fair:
each is a process whose every read has a timeout, and a timeout alone is enough
for it to end; nothing is assumed of a daemon.  `EventuallyFresh` needs the
changes to stop, which the bound provides: while events keep pushing the flush
back nothing is applied, for which no run has a property.

## Proofs

`IndexSetProofs` proves, for all sets of paths, contents and commits, all trees
and all failing Git commands, from `LayerAssumption` only (contents and markers
are distinct, `Tree` is a function):

- `TypeCorrect`, `StateStaysWhole`, `SearchIsComplete`:
  the invariants of `index_open`;
- `ImplementsPromise`: `Spec => ImplementsSearchView`.

`SearchComplete` is not inductive: it says nothing before the index is served.
`IInv` adds what is on disk (`DiskInv`: a delta on disk is the diff between the
base on disk and its own commit, because a base rebuild deletes the delta
first), what each phase holds (`PhaseInv`), what the committed layers in memory
are (`LayerInv`), what the overlay and the unapplied status lines know
(`OverlayInv`: a path without overlay entry and without a line left is as it is
in the commit git status compared with), and the signature of a plain base
(`SignedInv`).  `CommittedText` then shows that base, delta and tombstones give
a path what `BlobOf` makes of it in HEAD, and `LayersAgree` that the overlay
makes it the text on disk, or that the path is excused: where `BlobOf` and
`TextOf` differ and no overlay entry decides is exactly `KeptAsBlob`.  The
refinement maps the opening steps to stutters, the last one to `Publish`, the
watcher's calls to `Refresh` and `Remove`, and the exit to `Close`.

`DaemonProofs` proves for all sets of paths and contents, ignored directories
or not, any number of events, connections, stops and starts:

- `DaemonTypeCorrect`, `NoUpdateIsLost`, `CaughtUpIsFresh`, `PendingIsFlushed`:
  the invariants of `daemon_updates`.

`NoLostUpdate` says of each path where the index is out of date that a change is
in the channel, pending or being applied, or that it is excused.  It needs three
more facts.  A `remove` whose file is there again, with text, is followed by
another event of that file, in the channel (`ChannelInv`) or behind the pending
and the applied changes (`PendingInv`): without it, applying a stale removed
flag would be the last word.  And `PhaseInv` says what each phase leaves empty,
and that pending changes have a flush ahead.  With the index's own promise
(`Index!Fresh`) and the types these are `IInv`.  The lemmas about the channel
speak of its indices, since `Append` and `Tail` are all the daemon does to it.
`CaughtUpMeansFresh` is `NoLostUpdate` when nothing waits.

`DaemonSocketProofs` proves, for any number of daemons and commands and any set
of old daemons, from `NamesAssumption` only (the names are distinct):

- `SocketInvariant` and `OwnerSafe`: `OwnerUnlessRaced`;
- `StopInvariant` and `StopSafe`: `StopIsObeyed`, as `Spec => [][...]_vars`.

`OwnerUnlessRaced` says nothing of a daemon that has looked at the socket and
not bound it yet.  `LookedAlone` adds that, as long as no two daemons met, such
a daemon is alone: nobody else has looked and nobody serves.  Then the file it
unlinks is a leftover, and the one that ends is the socket's owner.
`StopIsObeyed` rests on `StopInv`: a daemon whose shutdown flag is set talks to
nobody (`Quiet`), and what a command says or has been told of a stop is true of
a daemon that is on its way out (`ToldTrue`), which no step takes back
(`DaemonsGoOn`).  What a stop asks of a daemon of its own protocol is the
shutdown (`Command`), so that its answer is never the one to a ping.

`CallGraphProofs` proves, for all trees, walks and sources, `FreshnessIsEarned`:
`StampIsEarned`.  The invariant `StampInv` speaks of graphs that nobody is
served: between updates the stamp says of every file that is not excused what
its row was read from.  The tree does not occur in it, so edits that race a
build cannot disturb it, and a stamp that names the tree makes the rows name it
too.  The lemmas say of each operation on the database that it leaves the rows
of the other files and the stamp alone.

It also proves, from `GraphAssumption` (the walk lists a file once and is not
empty; sources have the shape that extraction gives them, each call inside one
of its file's definitions or none):

- `GraphTypeCorrect`: `TypeOK`;
- `NoCallIsLost`, `NoCallIsInvented`, `ResolutionIsComplete`, `ExactIsEarned`:
  `CallsAccounted`, `EdgesAreCalls`, `ResolvedAsDecided`, `ExactIsImported`.

`TypedInvariant` holds of every state, a torn graph too: no file id and no row
id occurs twice, every row is of a file that is there (`Tabled`), and what
`Insert` inserts is what the file's row was written for.  That a build numbers
its definitions apart is `BasesApart`: the definitions of the files before a
file in the walk are counted.

`LedgerInvariant` holds of a whole graph, between any two steps of an update.
An edge is known by the row it stands for (`RowOf`).  `Ledger` says that each
row and each edge's row is a call of a file at a place, and that no two edges
have the same row: without that, two edges sent back to being unresolved would
leave one call.  Normally no call is both (`Single`); between `Demote` and
`Replace` exactly those into the file are (`Kept`), which is why deleting its
row loses none; and between `Replace` and `Insert` nothing of the file but its
row is there (`Vacant`), so that the calls that come in are not there twice.
`Complete` counts every call as kept or dropped.  `Decided` says that an edge is
the one the tiers would choose today.  Taking a file out leaves a decision for a
definition elsewhere as it was, although there is less to choose from
(`DecisionSurvives`: a name that was meant stays meant, since ambiguity never
was an edge); bringing one in can only disturb the names it defines, and those
are what `ReconsiderCalls` sends back.  `ExactIsImported` follows from `Decided`
and from import rows being what the sources say.

`RecallIngestProofs` proves, for any ingesters, units and conversations, from
`IngestAssumption` (a unit has conversations, a transcript of claude or cursor
exactly one, parents are conversations, the agents are those of the code, no id
is the mark of no parent, no content that of no file) and `HomeAssumption` (a
conversation is in one unit, or in a codex rollout and its archived copy), four
theorems: `LinksAreTrue` (`LinksNeverMislead`), `IngestTypeCorrect` (`TypeOK`),
`RecordedStaysStored` (`RecordedIsStored`) and `UnchangedStaysStored`
(`UnchangedIsStored`).

A link is a row id, and deleting the last
session gives its id out again.  `Kin` says why no link is misled: below the
last row there is always one, so an id that comes back is the last one's, and
`replace` deletes and inserts in one transaction, so that it comes back to the
session that had it.  Its other half is that a link names an id up to the last.
`Store` ties the tables: a turn to its session, the turns of a session numbered
from 0 without a gap to its count; the transactions keep it one by one
(`AppendKeepsStore`, `ReplaceKeepsStore`: the turns of the session are those
that were there and the new ones, or the new ones, and nobody else's change).
`Job` follows a pass from what it listed to what it parsed, so that what is
written has the shape of the store.

`RecordedStaysStored` is about what `ingest.rs` says of its resume state: it
never records completion it did not reach.  The property alone is not inductive:
a file may be rewritten and later begin again with what was ingested, and
nothing would be known of the store then.  Its invariant `RecordedInv` speaks of
lines that are still on a disk instead (`Alive`).  A tool writes a text once
(`DiskSound`), so a text that is gone stays gone, and lines that once began a
file begin it, or the copy codex archived, as long as all their texts are there
(`Follows`; `ToolsSound` is this for every write).  With that

- `StateSound`: the recorded position counts the recorded lines, which are
  records of the unit and once began it;
- `JobSound`: a pass holds the lines its resume point stood for when it took the
  unit (`Taken`), the sessions it parsed have the turns of the lines it read and
  leave none out, and those lines come behind the recorded ones unless one of
  these is gone (`Sliced`);
- `RecordedSound`: of a file whose recorded lines are all alive, the turns of
  every session not in doubt begin its turns in the store.

The step that matters is `StoreSession`, in three lemmas.  `StoreHeldElsewhere`:
replacing a session that another unit has too needs that what was ingested there
is a beginning of what this pass read.  `StoreHeldBefore`: before the last
session the resume point is what it was, which is the comment at `ingest.rs:66`.
`StoreHeldDone`: with the last one the turns of the recorded and of the new lines
are all there (`DoneTurns`); it is here that two passes that append the same tail
would break it, and `Raced` says so.  What a conversation's turns are, for a
sequence in two parts or a beginning of one, are lemmas about `TurnsOf`
(`TurnsSplit`, `TurnsOfPrefix`), since `At` picks the records of a place by
counting.

`UnchangedStaysStored` is about the other promise, that what `classify` skips
need not be read: all turns of the unit are in the store and no others.  That
they begin there, which is `RecordedInv`, is not enough, and a unit may be
written after it was recorded, so nothing could be said of it by what it is.
Its invariant `AccountedInv` says it of units that have not been written since,
which is what a modification time tells.  In the model a write takes a tick of
the clock (`mtime_ms` counts milliseconds: two writes within one that leave the
size as it was are not told apart, which the model leaves out), and the time of
a database is that of its latest message.  So two units never have the same
time, a time that was seen is that of the unit or older than it (`Seen`), and a
unit written later has a later one, but for late rows of a database (`Aged`;
`ToolsAge` is this for every write).  With that

- `FreshInv`: while a file has the time a pass discovered it with, the pass's
  resume point is behind what is there and what it parsed is what is there
  (`FileFresh`).  Of a database, a cursor is a time that is past, and the sessions
  that were not parsed had no row later than the recorded cursor (`RowsFresh`);
- `Accounted`: a recorded state accounts for the file that has its time, for the
  lines it stands for, and for the sessions of a database without a row later
  than its cursor, but for those that the history variables excuse.

`Finished` is what a pass that is done with its unit may say of each session that
is not excused then: it stored all its turns, or it did not touch it and nobody
recorded the unit meanwhile.  `FinishedOwn` makes that of the state it records,
`FinishedElsewhere` of the states of the other units: two copies of a rollout
share their session, and it is `Overtaken` that keeps a slow pass from undoing
what was recorded of the later copy.  Of a database, the
sessions that are not late have got newer rows only (`Newer`), so that a cursor
that has not moved leaves them as they were read; the others are in `ahead`.

`RecallCorpusProofs` proves, for any number of processes, deaths and stolen
locks and any sizes of segment and batch, from `CorpusAssumption`, the five
invariants of `recall_corpus`: `MarkIsCovered`, `SearchesFindTurns`,
`EmbeddedTurnsHaveVectors`, `VectorsAnswerForTheirTurn` and `CorpusTypeCorrect`.
`IndexInv` says, for whoever holds the lock, that the turns from the high water
mark to the end of its batch are in the batch and that the manifest in its hand
is the one on disk.  `SearchInv` follows what lies below a search's mark from
the manifest it read to its candidates and to the rows it checks them against.
`VectorInv` keeps the order of the backfill's writes: the file of a segment
before its place in `meta.json`, and that before the marks of its turns, so that
a death in between leaves vectors without a mark and never a mark without a
vector.

`SniperProofs` proves, for any identities, limits, ages, number of reports and
files made anew, from `SniperStoreAssumption` and `SniperAssumption` (the errors
of `sniper run` are identities, none of them of surface `vitest`, and `None` is
no name of anything):

- `SinceIsComplete`: `SinceMissesNothing`;
- `ReportsAreOrdered`: `ReportsArrive`, that is `FlushIsHonest` and
  `ReportsInOrder`;
- `AnswersStayTrue`: `AnswersAreTrue`, that is `TestStatusIsLastSignal`,
  `ShowsItsRun` and `HmrNamesTheUpdate`;
- `SniperTypeCorrect`: `TypeOK`, with `CountInv`: one row for an identity.

All rest on `FileSteps`: a step adds to a file only rows with ids beyond all
that the file gave out (`Grew`), and an event only when one is recorded.
`SinceInv` then says what an agent knows up to its cursor, and, between the two
statements, up to the highest row of the first; that the rows a full answer
leaves out lie beyond it is `LowestLeavesOut`.  `FlushInv` counts: what was
reported is shipped, in the child, or in the queue.  `WaitInv` and `RowsInv`
order times along the way of a report: the events in the files before the one
in the child, that one before the queue, and the queue by itself.

`test_status` compares the newest failure with the newest pass, by time.
`SignalInv` says that no such row is later than the last signal, that a pass is
strictly earlier than a failure that is the signal (a tie is a failure), and
that the signal's own row, where it still is, has its time.  For a failure that
needs the reporter's future: a repeat rewrites the time of its row, so whatever
the reporter still has to record must be later than the signal; `SentInv` says
that nobody else has errors of tests.  `RunsInv` keeps the starts of the runs of
a file distinct, also from those that wait, so that fewer than two later starts
means the last two rows, which is what `show` looks through.  `UpdateNamed` is
about the two cuts of `hmr` alone: fewer than its limits after the last update
leave the update in.

`SetsOfNumbers` holds what the proofs need of row ids: the last id of a table,
the next one, the lowest n of a set (`ORDER BY id LIMIT n`) and what lies below
them.  `SniperProofs` and the proofs of recall and of the call graph share it.

Only model-checked: liveness (`EventuallyFresh`, `EveryCommandEnds`), which is
out of the prover's reach; the outcomes of `Sniper` (`OutcomeIsRecorded`, which is
stated in `MCSniper`, beside the history variable `crowded`: the opening of the sink
by another command may drop the old row of a failure seen before); `GraphAnalyses`;
the violations; and the
modules of queries: `TextQueries` and what extends it (`RecallQueries`,
`Targets`, `Answers`) hold RECURSIVE operators, and what a recursive definition
computes for every input is out of the prover's reach.

## What the checks found

Every entry of "findings" in PROJECT.json is a disagreement between the code and
what it, its comments or its README say.  Three have a run that shows them
(`index_torn_delta`, `graph_stale_stamp`, `recall_reused_rows`).  The others
were met while modelling; where a property would fail because of one, the
property names it in an excuse (`torn`, `doubled`, `stale`, `dropped`, `met`,
`passed`, `blurred`, `healed`, `KeptAsBlob`, `Directories`), defined beside it:
such a property does not catch that fault, and the hazards in PROJECT.json say
so.

## Not modelled

- Bytes: the shard format and its corruption checks, gram hashing, JSON, SQL
  schemas and migrations, redaction, labels and messages.
- The parsers of languages (`extract.rs`, `imports.rs` find names and imports:
  here they are inputs) and the fields of transcripts: only what decides which
  records are read is modelled.
- `intent.rs` and `tokenize_task`: the words of a question and the keywords of
  a task are inputs.
- Embedding models, the regular expression engine, Git and SQLite themselves:
  external, by what the code relies on.
- Argument parsing, printing, `rescue`, and the manifest that targets writes.
- Two processes in one `.gitpixel`: no lock protects the directory, and
  `IndexSet` with its proofs has one.  The same holds for two processes on one
  `graph.db`, and for SQLite's log when the file is replaced.
- A blob that alone fails to be read.
- The recall daemon's mapping from a changed path to an agent, and its cap on
  an inline backlog; the rest of it is `run_corpus`, `ingest_source`,
  `index_new` and `run_backfill`, which are modelled.
