---------------------------- MODULE DaemonSocket ----------------------------
(* Several daemons and commands of one repository meet at its socket file: *)
(* daemons that look for each other before they bind, serve one connection *)
(* at a time, go idle, are stopped or killed; and commands that prefer the *)
(* daemon and do their work in process when it does not answer.            *)
EXTENDS Naturals, Sequences, FiniteSets

CONSTANTS
    Daemons,        \* processes that may run as a daemon, each once
    Old,            \* those of them of an older protocol
    Clients,        \* commands
    Polls,          \* times daemon_start pings what it spawned
    None,
    Gone            \* a connection whose client has hung up

ASSUME NamesAssumption ==
    /\ None \notin Daemons \cup Clients
    /\ None # "stopped"
    /\ Gone \notin Clients

VARIABLES
    socket,         \* whose listener the socket file leads to, or None
    daemon,         \* per daemon [pc, queue, talking, shutdown]
    client,         \* per command
    met             \* history: daemons that looked for another one meanwhile

vars == <<socket, daemon, client, met>>

Starting == {"open", "unlink", "bind"}
Listening == {"serving", "closing"}
Alive(d) == d # None /\ daemon[d].pc \in Listening

NoDaemonYet == [pc |-> "off", queue |-> <<>>, talking |-> None, shutdown |-> FALSE]

\* A client is at a daemon, has sent a request it may not have read, and may
\* have a reply it has not read itself.
NoCommand == [cmd |-> None, pc |-> "idle", polls |-> 0, at |-> None, sent |-> None,
              reply |-> None, said |-> None, from |-> None]

Init ==
    /\ socket = None
    /\ daemon = [d \in Daemons |-> NoDaemonYet]
    /\ client = [c \in Clients |-> NoCommand]
    /\ met = {}

-----------------------------------------------------------------------------
\* run_corpus: the start of a daemon.

\* The processes that are between their look at the socket and their bind
\* when d is: what one of them saw may be untrue by the time it acts.
Meeting(d) == {e \in Daemons \ {d} : daemon[e].pc \in {"unlink", "bind"}}

\* Mutant: a daemon takes any socket it finds for a leftover.
ProbeNothing(d) ==
    /\ daemon[d].pc = "open"
    /\ daemon' = [daemon EXCEPT ![d].pc = "unlink"]
    /\ met' = IF Meeting(d) = {} THEN met ELSE met \cup Meeting(d) \cup {d}
    /\ UNCHANGED <<socket, client>>

\* A live socket is somebody else's; the connection is dropped at once.
Probe(d) ==
    /\ daemon[d].pc = "open"
    /\ IF Alive(socket)
       THEN /\ daemon' = [daemon EXCEPT ![d].pc = "ended",
                                        ![socket].queue = Append(@, Gone)]
            /\ UNCHANGED met
       ELSE /\ daemon' = [daemon EXCEPT ![d].pc = "unlink"]
            /\ met' = IF Meeting(d) = {} THEN met ELSE met \cup Meeting(d) \cup {d}
    /\ UNCHANGED <<socket, client>>

Unlink(d) ==
    /\ daemon[d].pc = "unlink"
    /\ socket' = None
    /\ daemon' = [daemon EXCEPT ![d].pc = "bind"]
    /\ UNCHANGED <<client, met>>

\* The address is in use when the file is there, whoever listens.
Bind(d) ==
    /\ daemon[d].pc = "bind"
    /\ IF socket = None
       THEN /\ socket' = d
            /\ daemon' = [daemon EXCEPT ![d].pc = "serving"]
       ELSE /\ daemon' = [daemon EXCEPT ![d].pc = "ended"]
            /\ UNCHANGED socket
    /\ UNCHANGED <<client, met>>

-----------------------------------------------------------------------------
\* The main loop and handle_conn.

\* A daemon stops talking: its client sees the end of the stream.
Silent(d, closed) ==
    [c \in Clients |-> IF client[c].at = d /\ c \in closed
                       THEN [client[c] EXCEPT !.at = None, !.sent = None] ELSE client[c]]

\* Mutant: only handle_conn knows of the shutdown, the loop goes on.
TakeAnyway(d) ==
    /\ daemon[d].pc = "serving" /\ daemon[d].talking = None
    /\ daemon[d].queue # <<>>
    /\ daemon' = [daemon EXCEPT ![d].talking = Head(daemon[d].queue), ![d].queue = Tail(@)]
    /\ UNCHANGED <<socket, client, met>>

Take(d) ==
    /\ daemon[d].pc = "serving" /\ daemon[d].talking = None /\ ~daemon[d].shutdown
    /\ daemon[d].queue # <<>>
    /\ daemon' = [daemon EXCEPT ![d].talking = Head(daemon[d].queue), ![d].queue = Tail(@)]
    /\ UNCHANGED <<socket, client, met>>

\* A request is handled and answered; the last one ends the connection.
Serve(d) ==
    LET c == daemon[d].talking
        last == client[c].sent = "shutdown"
    IN  /\ daemon[d].pc = "serving" /\ c \notin {None, Gone}
        /\ client[c].sent # None
        /\ client' = [client EXCEPT ![c].sent = None,
                                    ![c].reply = [from |-> d, to |-> client[c].sent],
                                    ![c].at = IF last THEN None ELSE d]
        /\ daemon' = [daemon EXCEPT ![d].shutdown = last,
                                    ![d].talking = IF last THEN None ELSE c]
        /\ UNCHANGED <<socket, met>>

\* The client has hung up (its answer cannot be written, and what it asked
\* does not count), says nothing for a second, or has had its five seconds.
Drop(d) ==
    LET c == daemon[d].talking
    IN  /\ daemon[d].pc = "serving" /\ c # None
        /\ client' = Silent(d, {c})
        /\ daemon' = [daemon EXCEPT ![d].talking = None]
        /\ UNCHANGED <<socket, met>>

\* Thirty minutes without a connection, or a shutdown that was answered.
LeaveLoop(d) ==
    /\ daemon[d].pc = "serving" /\ daemon[d].talking = None
    /\ daemon' = [daemon EXCEPT ![d].pc = "closing"]
    /\ UNCHANGED <<socket, client, met>>

\* The socket file goes, whosever it is, and the process with its channel.
End(d) ==
    /\ daemon[d].pc = "closing"
    /\ socket' = None
    /\ daemon' = [daemon EXCEPT ![d] = [NoDaemonYet EXCEPT !.pc = "ended"]]
    /\ client' = Silent(d, Clients)
    /\ UNCHANGED met

Kill(d) ==
    /\ daemon[d].pc \in Starting \cup Listening
    /\ daemon' = [daemon EXCEPT ![d] = [NoDaemonYet EXCEPT !.pc = "ended"]]
    /\ client' = Silent(d, Clients)
    /\ UNCHANGED <<socket, met>>

-----------------------------------------------------------------------------
\* The command line.

Call(c, cmd) ==
    /\ client[c].pc = "idle"
    /\ client' = [client EXCEPT ![c].cmd = cmd, ![c].pc = "connect"]
    /\ UNCHANGED <<socket, daemon, met>>

\* The daemon finds a closed connection where the client's was.
Without(c) ==
    [d \in Daemons |->
       IF client[c].at # d THEN daemon[d]
       ELSE [daemon[d] EXCEPT
               !.queue = [i \in DOMAIN @ |-> IF @[i] = c THEN Gone ELSE @[i]],
               !.talking = IF @ = c THEN Gone ELSE @]]

Left(k) == [k EXCEPT !.at = None, !.sent = None, !.reply = None]
Done(k, said) == [Left(k) EXCEPT !.pc = "done", !.said = said]

\* What a command does when try_daemon has no answer for it.
Alone(k) ==
    CASE k.cmd = "query" -> [Left(k) EXCEPT !.pc = "local"]
      [] k.cmd = "stop" -> Done(k, "no daemon")
      [] k.cmd = "start" /\ k.polls = 0 -> [Left(k) EXCEPT !.pc = "spawn"]
      [] k.cmd = "start" /\ k.polls \in 1..(Polls - 1) ->
           [Left(k) EXCEPT !.pc = "connect", !.polls = @ + 1]
      [] OTHER -> Done(k, "not answering yet")

Connect(c) ==
    /\ client[c].pc = "connect"
    /\ IF Alive(socket)
       THEN /\ client' = [client EXCEPT ![c].pc = "ping", ![c].at = socket, ![c].sent = "ping"]
            /\ daemon' = [daemon EXCEPT ![socket].queue = Append(@, c)]
       ELSE /\ client' = [client EXCEPT ![c] = Alone(@)]
            /\ UNCHANGED daemon
    /\ UNCHANGED <<socket, met>>

Request(cmd) == CASE cmd = "query" -> "query" [] cmd = "stop" -> "shutdown" [] cmd = "start" -> "ping"

\* A request cannot be written to a connection that the daemon has closed.
Sends(k, pc, request) ==
    IF k.at = None THEN Alone(k)
    ELSE [k EXCEPT !.pc = pc, !.sent = request, !.reply = None]

\* Mutant: any daemon that answers the ping is asked.
PongOfAny(c) ==
    /\ client[c].pc = "ping" /\ client[c].reply # None
    /\ client' = [client EXCEPT ![c] = Sends(@, "ask", Request(@.cmd))]
    /\ UNCHANGED <<socket, daemon, met>>

\* A daemon of another protocol is asked to stop, and nothing else.
Pong(c) ==
    /\ client[c].pc = "ping" /\ client[c].reply # None
    /\ client' = [client EXCEPT ![c] =
         IF @.reply.from \in Old THEN Sends(@, "retire", "shutdown")
         ELSE Sends(@, "ask", Request(@.cmd))]
    /\ UNCHANGED <<socket, daemon, met>>

Answer(c) ==
    /\ client[c].pc = "ask" /\ client[c].reply # None
    /\ client' = [client EXCEPT ![c] =
         [Done(@, CASE @.cmd = "query" -> "answer"
                    [] @.cmd = "stop" -> "stopped"
                    [] @.cmd = "start" -> IF @.polls = 0 THEN "already running" ELSE "started")
          EXCEPT !.from = client[c].reply.from]]
    /\ daemon' = Without(c)
    /\ UNCHANGED <<socket, met>>

\* The read times out, or finds the end of the stream; or the old daemon has
\* said that it stops, which comes to the same.
GiveUp(c) ==
    /\ client[c].pc \in {"ping", "ask", "retire"}
    /\ client' = [client EXCEPT ![c] = Alone(@)]
    /\ daemon' = Without(c)
    /\ UNCHANGED <<socket, met>>

\* execute: a service of its own, which may not open.
Local(c) ==
    /\ client[c].pc = "local"
    /\ \E said \in {"answer", "error"} : client' = [client EXCEPT ![c] = Done(@, said)]
    /\ UNCHANGED <<socket, daemon, met>>

\* daemon_start: a process of its own, which may not come into being.
Spawn(c) ==
    /\ client[c].pc = "spawn"
    /\ \/ \E d \in Daemons :
            /\ daemon[d].pc = "off"
            /\ daemon' = [daemon EXCEPT ![d].pc = "open"]
            /\ client' = [client EXCEPT ![c].pc = "connect", ![c].polls = 1]
       \/ /\ client' = [client EXCEPT ![c] = Done(@, "error")]
          /\ UNCHANGED daemon
    /\ UNCHANGED <<socket, met>>

\* daemon start --foreground.
Foreground(d) ==
    /\ daemon[d].pc = "off"
    /\ daemon' = [daemon EXCEPT ![d].pc = "open"]
    /\ UNCHANGED <<socket, client, met>>

-----------------------------------------------------------------------------
Serves(d) == Take(d) \/ Serve(d) \/ Drop(d) \/ LeaveLoop(d) \/ End(d) \/ Kill(d)
Starts(d) == Foreground(d) \/ Probe(d) \/ Unlink(d) \/ Bind(d)
Runs(c) == Connect(c) \/ Pong(c) \/ Answer(c) \/ GiveUp(c) \/ Local(c) \/ Spawn(c)

Next ==
    \/ \E d \in Daemons : Starts(d) \/ Serves(d)
    \/ \E c \in Clients : Runs(c) \/ \E cmd \in {"query", "start", "stop"} : Call(c, cmd)

Spec == Init /\ [][Next]_vars

\* A command is a process that is scheduled and whose reads have timeouts; of
\* the daemons nothing is assumed.
Fairness == \A c \in Clients : WF_vars(Runs(c))
FairSpec == Spec /\ Fairness

-----------------------------------------------------------------------------
(* Properties. *)

(***************************************************************************)
(* "A live socket means another daemon owns this root" (daemon.rs:100): a  *)
(* daemon that serves is the one the socket leads to, unless it met        *)
(* another one between its look at the socket and its bind.  Then one of   *)
(* them serves nobody until it is idle, and its end takes the other's      *)
(* socket.                                                                 *)
(***************************************************************************)
OwnerUnlessRaced ==
    met = {} => \A d \in Daemons : daemon[d].pc \in Listening => socket = d

(***************************************************************************)
(* A daemon that has told a client that it stops answers nobody else, the  *)
(* connections that are waiting in its channel included.                   *)
(***************************************************************************)
StopIsObeyed ==
    [][\A c, k \in Clients :
         /\ client[c].said = "stopped"
         /\ client'[k].reply \notin {None, client[k].reply}
         => client'[k].reply.from # client[c].from]_vars

(***************************************************************************)
(* Every command ends, whatever the daemons do: they may be killed, stop   *)
(* or answer late at any moment.  A query ends with an answer of a daemon  *)
(* of its own protocol, or with the answer or the error of a service in    *)
(* its own process, also if an old daemon owns the socket.                 *)
(***************************************************************************)
EveryCommandEnds ==
    \A c \in Clients :
        client[c].pc # "idle" ~>
            /\ client[c].pc = "done"
            /\ client[c].cmd = "query" =>
                 \/ client[c].said = "answer" /\ client[c].from \notin Old
                 \/ client[c].said = "error" /\ client[c].from = None

=============================================================================
