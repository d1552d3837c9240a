------------------------------- MODULE Daemon -------------------------------
(***************************************************************************)
(* The repository daemon of gitpixel-serve (daemon.rs): one thread that    *)
(* takes connections and file events from a channel, debounces the events  *)
(* and applies them to the index it serves.                                *)
(*                                                                         *)
(* The index is the one SearchView promises; IndexSet implements it.  The  *)
(* daemon answers from `view` and is told of changes only by the watcher,  *)
(* so what it serves is right when every suspect path is on its way to     *)
(* being re-read.                                                          *)
(***************************************************************************)
EXTENDS Naturals, Sequences

CONSTANTS
    Paths, Text, Binary, Absent,
    Directory,  \* a directory, or a link to one: what Path::is_dir says yes to
    Below,      \* [Paths -> SUBSET Paths], what is in p when p is a directory
    Ignored     \* paths with a component in IGNORED_DIRS

Unfindable == {Binary, Directory}

ASSUME DaemonAssumption ==
    /\ Absent \notin Text
    /\ Unfindable \cap (Text \cup {Absent}) = {}
    /\ Below \in [Paths -> SUBSET Paths]
    /\ \A p \in Paths : p \notin Below[p]
    /\ Ignored \subseteq Paths

VARIABLES
    work, view, suspect, open,  \* the index and the tree: see SearchView
    dpc,        \* where the main thread is
    channel,    \* messages of the accept thread and the watcher, in order
    pending,    \* [Paths -> Change], changes waiting for the debounce
    applying,   \* [Paths -> Change], what a flush has taken and not applied
    timer,      \* flush_at: not set, set, or passed
    idle,       \* IDLE_TIMEOUT has passed since the last connection
    shutdown,   \* a client has been told that the daemon shuts down
    missed      \* history: paths changed where the watcher does not see it,
                \* or given up on when the index was opened

Index == INSTANCE SearchView

index == <<view, suspect, open>>
loop == <<pending, applying, timer, idle, shutdown>>
vars == <<work, index, dpc, channel, loop, missed>>

NoChange == [p \in Paths |-> "none"]
Waiting(changes) == {p \in Paths : changes[p] # "none"}

FsEvents == [type : {"fs"}, path : Paths, kind : {"modify", "remove"}]

Conns == [type : {"conn"}, request : {"search", "shutdown"}]

Messages == FsEvents \cup Conns

\* A message that names p, and that record_event does not ignore.
Reports(msg, p) ==
    /\ msg.type = "fs"
    /\ msg.path = p
    /\ p \notin Ignored

\* Nothing is below a path that is not a directory.
Rooted(tree) ==
    \A d \in Paths : tree[d] # Directory => \A p \in Below[d] : tree[p] = Absent

\* The changes the channel still carries.
Queued == {p \in Paths : \E i \in 1..Len(channel) : Reports(channel[i], p)}

TypeOK ==
    /\ Index!TypeOK
    /\ dpc \in {"down", "opened", "bound", "recv", "flush", "apply", "idle"}
    /\ channel \in Seq(Messages)
    /\ pending \in [Paths -> {"none", "changed", "removed"}]
    /\ applying \in [Paths -> {"none", "changed", "removed"}]
    /\ timer \in {"off", "armed", "due"}
    /\ idle \in BOOLEAN
    /\ shutdown \in BOOLEAN
    /\ missed \in SUBSET Paths

Init ==
    /\ Index!Init
    /\ Rooted(work)
    /\ dpc = "down"
    /\ channel = <<>>
    /\ pending = NoChange
    /\ applying = NoChange
    /\ timer = "off"
    /\ idle = FALSE
    /\ shutdown = FALSE
    /\ missed = Paths

----------------------------------------------------------------------------
(* The tree and the clients.                                               *)

Watching == dpc \notin {"down", "opened", "bound"}

Changed == {p \in Paths : work'[p] # work[p]}

Kind(c) == IF c = Absent THEN "remove" ELSE "modify"

\* The watcher names the one path p of all that changed.
Tell(p) ==
    /\ suspect' = suspect \cup Changed
    /\ IF Watching
         THEN channel' = Append(channel,
                [type |-> "fs", path |-> p, kind |-> Kind(work'[p])])
         ELSE channel' = channel
    /\ missed' = IF Watching /\ p \notin Ignored
                   THEN (missed \cup Changed) \ {p}
                   ELSE missed \cup Changed
    /\ UNCHANGED <<view, open, dpc, loop>>

\* A file or a directory is written, created, replaced or removed.
Edit(p, c) ==
    /\ c # work[p]
    /\ work' = [work EXCEPT ![p] = c]
    /\ Rooted(work')
    /\ Tell(p)

\* A directory is moved into or out of the tree: the watcher names the
\* directory, not what is below it.
MoveDirectory(d) ==
    /\ Watching
    /\ work' \in [Paths -> Index!Content]
    /\ {work[d], work'[d]} = {Absent, Directory}
    /\ Changed \subseteq Below[d] \cup {d}
    /\ Rooted(work')
    /\ Tell(d)

\* The accept thread forwards a connection, once the socket is bound.
Connect(request) ==
    /\ dpc \notin {"down", "opened"}
    /\ channel' = Append(channel, [type |-> "conn", request |-> request])
    /\ UNCHANGED <<work, index, dpc, loop, missed>>

----------------------------------------------------------------------------
(* run_corpus                                                              *)

\* Service::open
OpenService ==
    /\ dpc = "down"
    /\ Index!Publish
    /\ missed' = suspect'
    /\ dpc' = "opened"
    /\ UNCHANGED <<channel, loop>>

Bind ==
    /\ dpc = "opened"
    /\ dpc' = "bound"
    /\ UNCHANGED <<work, index, channel, loop, missed>>

StartWatcher ==
    /\ dpc = "bound"
    /\ dpc' = "recv"
    /\ UNCHANGED <<work, index, channel, loop, missed>>

\* Mutant: an earlier entry is kept.
RecordFirst(ev) ==
    IF \/ ev.path \in Ignored
       \/ work[ev.path] = Directory
       \/ pending[ev.path] # "none"
      THEN pending
      ELSE [pending EXCEPT ![ev.path] =
              IF ev.kind = "remove" \/ work[ev.path] = Absent
                THEN "removed" ELSE "changed"]

\* Mutant: what the watcher said is kept, not what it means.
RecordKind(ev) ==
    IF ev.path \in Ignored \/ work[ev.path] = Directory THEN pending
    ELSE [pending EXCEPT ![ev.path] = ev.kind]

\* record_event: the later event wins; what the path is, is looked up only
\* now, and a directory is passed over even if the event says "removed".
Record(ev) ==
    IF ev.path \in Ignored \/ work[ev.path] = Directory THEN pending
    ELSE [pending EXCEPT ![ev.path] =
            IF ev.kind = "remove" \/ work[ev.path] = Absent
              THEN "removed" ELSE "changed"]

\* Any event pushes the flush back, an ignored one too.
RecvEvent ==
    /\ dpc = "recv"
    /\ channel # <<>>
    /\ Head(channel).type = "fs"
    /\ pending' = Record(Head(channel))
    /\ timer' = IF pending' # NoChange THEN "armed" ELSE timer
    /\ channel' = Tail(channel)
    /\ dpc' = "flush"
    /\ UNCHANGED <<work, index, applying, idle, shutdown, missed>>

\* handle_conn: it never waits for what is pending.  The daemon shuts down
\* only if the client is still there to be told so.
RecvConn ==
    /\ dpc = "recv"
    /\ channel # <<>>
    /\ Head(channel).type = "conn"
    /\ shutdown' \in {FALSE, Head(channel).request = "shutdown"}
    /\ idle' = FALSE
    /\ channel' = Tail(channel)
    /\ dpc' = "flush"
    /\ UNCHANGED <<work, index, pending, applying, timer, missed>>

\* Mutant: the wait is not shortened by flush_at.
RecvTimeoutIdleOnly ==
    /\ dpc = "recv"
    /\ channel = <<>>
    /\ idle
    /\ dpc' = "flush"
    /\ UNCHANGED <<work, index, channel, loop, missed>>

\* recv_timeout gives up at flush_at or when the daemon has been idle.
RecvTimeout ==
    /\ dpc = "recv"
    /\ channel = <<>>
    /\ timer = "due" \/ idle
    /\ dpc' = "flush"
    /\ UNCHANGED <<work, index, channel, loop, missed>>

\* Mutant: flush_at is cleared whether or not it has passed.
FlushCheckDropsTimer ==
    /\ dpc = "flush"
    /\ timer' = "off"
    /\ IF timer = "due"
         THEN /\ applying' = pending
              /\ pending' = NoChange
              /\ dpc' = "apply"
         ELSE /\ dpc' = "idle"
              /\ UNCHANGED <<pending, applying>>
    /\ UNCHANGED <<work, index, channel, idle, shutdown, missed>>

FlushCheck ==
    /\ dpc = "flush"
    /\ IF timer = "due"
         THEN /\ applying' = pending
              /\ pending' = NoChange
              /\ dpc' = "apply"
         ELSE /\ dpc' = "idle"
              /\ UNCHANGED <<pending, applying>>
    /\ UNCHANGED <<work, index, channel, timer, idle, shutdown, missed>>

\* Mutant: the removed flag is read the wrong way round.
ApplyInverted(p) ==
    /\ dpc = "apply"
    /\ \/ applying[p] = "removed" /\ Index!Refresh(p)
       \/ applying[p] = "changed" /\ Index!Remove(p)
    /\ applying' = [applying EXCEPT ![p] = "none"]
    /\ UNCHANGED <<dpc, channel, pending, timer, idle, shutdown, missed>>

\* Service::apply_change, for one path of the batch.
Apply(p) ==
    /\ dpc = "apply"
    /\ \/ applying[p] = "changed" /\ Index!Refresh(p)
       \/ applying[p] = "removed" /\ Index!Remove(p)
    /\ applying' = [applying EXCEPT ![p] = "none"]
    /\ UNCHANGED <<dpc, channel, pending, timer, idle, shutdown, missed>>

FlushDone ==
    /\ dpc = "apply"
    /\ applying = NoChange
    /\ timer' = "off"
    /\ dpc' = "idle"
    /\ UNCHANGED <<work, index, channel, pending, applying, idle, shutdown,
                   missed>>

Continue ==
    /\ dpc = "idle"
    /\ ~idle
    /\ ~shutdown
    /\ dpc' = "recv"
    /\ UNCHANGED <<work, index, channel, loop, missed>>

\* The process ends and takes the channel and the pending changes with it.
Stop ==
    /\ Index!Close
    /\ dpc' = "down"
    /\ channel' = <<>>
    /\ pending' = NoChange
    /\ applying' = NoChange
    /\ timer' = "off"
    /\ idle' = FALSE
    /\ shutdown' = FALSE
    /\ missed' = Paths

Exit == dpc = "idle" /\ (idle \/ shutdown) /\ Stop

\* A signal, a panic, or the machine.
Kill == dpc # "down" /\ Stop

\* DEBOUNCE passes after the last event; IDLE_TIMEOUT after the last client.
Debounced ==
    /\ timer = "armed"
    /\ timer' = "due"
    /\ UNCHANGED <<work, index, dpc, channel, pending, applying, idle,
                   shutdown, missed>>

IdleTimeout ==
    /\ Watching
    /\ ~idle
    /\ idle' = TRUE
    /\ UNCHANGED <<work, index, dpc, channel, pending, applying, timer,
                   shutdown, missed>>

Outside ==
    \/ \E p \in Paths, c \in Index!Content : Edit(p, c)
    \/ \E d \in Paths : MoveDirectory(d)
    \/ \E request \in {"search", "shutdown"} : Connect(request)

MainLoop ==
    \/ RecvEvent
    \/ RecvConn
    \/ RecvTimeout
    \/ FlushCheck
    \/ \E p \in Paths : Apply(p)
    \/ FlushDone
    \/ Continue
    \/ Exit

Next ==
    \/ Outside
    \/ OpenService
    \/ Bind
    \/ StartWatcher
    \/ MainLoop
    \/ Debounced
    \/ IdleTimeout
    \/ Kill

\* The main thread is never blocked for good: a connection is dropped after
\* CONNECTION_DEADLINE, and time passes.
Fairness ==
    /\ WF_vars(Bind \/ StartWatcher)
    /\ WF_vars(MainLoop)
    /\ WF_vars(Debounced)

Spec == Init /\ [][Next]_vars /\ Fairness

----------------------------------------------------------------------------
(* Properties.                                                             *)

\* Where a directory stands now.  record_event passes over every event of
\* such a path, the removal of the file that stood there before included, so
\* the index may go on listing that file.
Directories == {p \in Paths : work[p] = Directory}

(***************************************************************************)
(* No change the watcher named is lost, unless a directory stands at its   *)
(* path: until the index has re-read the path the change is in the channel,*)
(* waiting for the debounce, or in the batch being applied, whatever events*)
(* overtook each other, and whatever stood there in between.               *)
(***************************************************************************)
NoLostUpdate ==
    open => suspect \subseteq
              Queued \cup Waiting(pending) \cup Waiting(applying)
                \cup missed \cup Directories

CaughtUp ==
    /\ open
    /\ Queued = {}
    /\ Waiting(pending) = {}
    /\ Waiting(applying) = {}

(***************************************************************************)
(* Once the daemon has caught up, a search finds every file under its      *)
(* present contents and lists no path that was removed and is still gone:  *)
(* "the later event wins" in record_event and the look at the disk at that *)
(* moment must add up to the last state of the path, unless that is a      *)
(* directory.                                                              *)
(***************************************************************************)
CaughtUpMeansFresh ==
    CaughtUp => Index!AgreesOutside(view, work, missed \cup Directories)

(***************************************************************************)
(* A change that waits has a flush ahead of it, and no flush is forgotten: *)
(* flush_at is cleared only by a flush that took everything.               *)
(***************************************************************************)
PendingHasFlush ==
    /\ Waiting(pending) # {} => timer # "off"
    /\ Waiting(applying) # {} => dpc = "apply"

(***************************************************************************)
(* When the tree stops changing, a daemon that stays up has re-read every  *)
(* path the watcher named but those where a directory stands.              *)
(***************************************************************************)
EventuallyFresh == <>[](open => suspect \subseteq missed \cup Directories)

=============================================================================
