------------------------- MODULE DaemonSocketProofs -------------------------
(* Proofs about the meeting at the socket, for every number of daemons and *)
(* commands, whatever they do and however often they are killed.           *)
EXTENDS DaemonSocket, TLAPS

-----------------------------------------------------------------------------
(* The inductive invariant.                                                *)

Connection == Clients \cup {None, Gone}

DaemonState ==
    [pc : {"off", "ended"} \cup Starting \cup Listening, queue : Seq(Connection),
     talking : Connection, shutdown : BOOLEAN]

SocketTyped ==
    /\ socket \in Daemons \cup {None}
    /\ daemon \in [Daemons -> DaemonState]

\* Between its look at the socket and its bind.
Looked(d) == daemon[d].pc \in {"unlink", "bind"}

\* As long as no two daemons have met, one that has looked is alone: nobody
\* else has, and nobody serves.
LookedAlone ==
    met = {} => \A d, e \in Daemons :
                  Looked(d) /\ d # e => ~Looked(e) /\ daemon[e].pc \notin Listening

SocketInv == SocketTyped /\ LookedAlone /\ OwnerUnlessRaced

-----------------------------------------------------------------------------
(* What a step does to the daemons' states.                                *)

LEMMA InitSocketInv == Init => SocketInv
<1> SUFFICES ASSUME Init PROVE SocketInv
  OBVIOUS
<1>1. NoDaemonYet \in DaemonState
  <2>1. <<>> \in Seq(Connection)
    OBVIOUS
  <2> QED BY <2>1 DEF NoDaemonYet, DaemonState, Connection
<1>2. SocketTyped
  BY <1>1 DEF Init, SocketTyped
<1>3. \A d \in Daemons : daemon[d].pc = "off"
  BY DEF Init, NoDaemonYet
<1> QED BY <1>2, <1>3 DEF SocketInv, LookedAlone, Looked, OwnerUnlessRaced, Listening

\* A daemon that is replaced by one of another state: the type.
LEMMA OneDaemonTyped ==
    ASSUME SocketTyped, NEW d \in Daemons, NEW s \in DaemonState,
           daemon' = [daemon EXCEPT ![d] = s], socket' \in Daemons \cup {None}
    PROVE  SocketTyped'
BY DEF SocketTyped

\* The rest of the invariant, over a step after which no daemon has looked or
\* serves that did not before.
LEMMA FewerDaemons ==
    ASSUME SocketInv, SocketTyped', met' = met,
           \A d \in Daemons : Looked(d)' => Looked(d),
           \A d \in Daemons : daemon'[d].pc \in Listening => daemon[d].pc \in Listening,
           \A d \in Daemons : daemon'[d].pc \in Listening => socket' = socket
    PROVE  SocketInv'
BY DEF SocketInv, LookedAlone, OwnerUnlessRaced

\* What hanging up leaves of the daemons.
LEMMA WithoutTyped ==
    ASSUME SocketTyped, NEW c \in Clients
    PROVE  /\ Without(c) \in [Daemons -> DaemonState]
           /\ \A d \in Daemons : Without(c)[d].pc = daemon[d].pc
<1> DEFINE Cut(d) == [i \in DOMAIN daemon[d].queue |->
                        IF daemon[d].queue[i] = c THEN Gone ELSE daemon[d].queue[i]]
<1>1. ASSUME NEW d \in Daemons PROVE Cut(d) \in Seq(Connection)
  <2>1. daemon[d].queue \in Seq(Connection)
    BY <1>1 DEF SocketTyped, DaemonState
  <2>2. \A i \in 1..Len(daemon[d].queue) : daemon[d].queue[i] \in Connection
    BY <2>1
  <2>3. /\ DOMAIN daemon[d].queue = 1..Len(daemon[d].queue)
        /\ Len(daemon[d].queue) \in Nat
    BY <2>1
  <2>4. Cut(d) \in [1..Len(daemon[d].queue) -> Connection]
    BY <2>2, <2>3 DEF Connection
  <2> QED BY <2>3, <2>4
<1>2. ASSUME NEW d \in Daemons
      PROVE  /\ Without(c)[d] \in DaemonState
             /\ Without(c)[d].pc = daemon[d].pc
  <2>1. daemon[d] \in DaemonState
    BY <1>2 DEF SocketTyped
  <2>2. CASE client[c].at # d
    BY <2>1, <2>2 DEF Without
  <2>3. CASE client[c].at = d
    <3>1. Without(c)[d] =
            [daemon[d] EXCEPT !.queue = Cut(d),
                              !.talking = IF daemon[d].talking = c THEN Gone
                                          ELSE daemon[d].talking]
      BY <2>1, <2>3, <1>2 DEF Without, DaemonState
    <3>2. Cut(d) \in Seq(Connection)
      BY <1>1, <1>2
    <3> HIDE DEF Cut
    <3> QED BY <2>1, <3>1, <3>2 DEF DaemonState, Connection
  <2> QED BY <2>2, <2>3
<1>3. Without(c) \in [Daemons -> DaemonState]
  <2>1. Without(c) = [d \in Daemons |-> Without(c)[d]]
    BY DEF Without
  <2> QED BY <1>2, <2>1
<1> QED BY <1>2, <1>3

-----------------------------------------------------------------------------
(* The daemons' steps.                                                     *)

LEMMA ForegroundKeeps ==
    ASSUME SocketInv, NEW d \in Daemons, Foreground(d) PROVE SocketInv'
<1>1. [daemon[d] EXCEPT !.pc = "open"] \in DaemonState
  BY DEF SocketInv, SocketTyped, DaemonState, Starting
<1>2. SocketTyped'
  BY <1>1, OneDaemonTyped DEF SocketInv, Foreground, SocketTyped
<1>3. \A e \in Daemons : e # d => daemon'[e] = daemon[e]
  BY DEF SocketInv, SocketTyped, Foreground
<1>4. daemon'[d].pc = "open"
  BY DEF SocketInv, SocketTyped, DaemonState, Foreground
<1> QED BY <1>2, <1>3, <1>4, FewerDaemons DEF Foreground, Looked, Listening

LEMMA ProbeKeeps ==
    ASSUME SocketInv, NEW d \in Daemons, Probe(d) PROVE SocketInv'
<1> USE DEF SocketInv
<1>1. CASE Alive(socket)
  <2> DEFINE s == [daemon[socket] EXCEPT !.queue = Append(@, Gone)]
  <2>1. socket \in Daemons /\ socket # d
    BY <1>1 DEF Alive, SocketTyped, Probe, Listening
  <2>2. /\ [daemon[d] EXCEPT !.pc = "ended"] \in DaemonState
        /\ daemon[socket].queue \in Seq(Connection)
    BY <2>1 DEF SocketTyped, DaemonState
  <2>3. s \in DaemonState /\ s.pc = daemon[socket].pc
    <3>1. Append(daemon[socket].queue, Gone) \in Seq(Connection)
      BY <2>2 DEF Connection
    <3> QED BY <2>1, <3>1 DEF SocketTyped, DaemonState
  <2>4. /\ daemon' = [daemon EXCEPT ![d].pc = "ended", ![socket] = s]
        /\ met' = met /\ socket' = socket
    BY <1>1, <2>1 DEF Probe, SocketTyped
  <2> HIDE DEF s
  <2>5. /\ SocketTyped'
        /\ daemon'[d].pc = "ended"
        /\ \A e \in Daemons : e # d => daemon'[e].pc = daemon[e].pc
    BY <2>1, <2>2, <2>3, <2>4 DEF SocketTyped, DaemonState
  <2> QED BY <2>4, <2>5, FewerDaemons DEF Looked, Listening
<1>2. CASE ~Alive(socket)
  <2>1. /\ daemon' = [daemon EXCEPT ![d].pc = "unlink"]
        /\ met' = IF Meeting(d) = {} THEN met ELSE met \cup Meeting(d) \cup {d}
        /\ socket' = socket
    BY <1>2 DEF Probe
  <2>2. /\ SocketTyped'
        /\ daemon'[d].pc = "unlink"
        /\ \A e \in Daemons : e # d => daemon'[e] = daemon[e]
    BY <2>1 DEF SocketTyped, DaemonState, Starting
  <2>3. SUFFICES ASSUME met' = {} PROVE (LookedAlone /\ OwnerUnlessRaced)'
    BY <2>2 DEF LookedAlone, OwnerUnlessRaced
  <2>4. Meeting(d) = {} /\ met = {}
    BY <2>1, <2>3
  <2>5. \A e \in Daemons : e # d => ~Looked(e)
    BY <2>4 DEF Meeting, Looked
  <2>6. \A e \in Daemons : daemon[e].pc \notin Listening
    BY <1>2, <2>4, NamesAssumption DEF OwnerUnlessRaced, Alive
  <2> QED BY <2>2, <2>5, <2>6 DEF LookedAlone, OwnerUnlessRaced, Looked, Listening
<1> QED BY <1>1, <1>2

LEMMA UnlinkKeeps ==
    ASSUME SocketInv, NEW d \in Daemons, Unlink(d) PROVE SocketInv'
<1>1. /\ daemon[d].pc = "unlink" /\ socket' = None /\ met' = met
      /\ daemon' = [daemon EXCEPT ![d].pc = "bind"]
  BY DEF Unlink
<1>2. /\ SocketTyped'
      /\ daemon'[d].pc = "bind"
      /\ \A e \in Daemons : e # d => daemon'[e] = daemon[e]
  BY <1>1 DEF SocketInv, SocketTyped, DaemonState, Starting
<1>3. met = {} => \A e \in Daemons : daemon[e].pc \notin Listening
  BY <1>1 DEF SocketInv, LookedAlone, Looked, Listening
<1> QED BY <1>1, <1>2, <1>3
        DEF SocketInv, LookedAlone, OwnerUnlessRaced, Looked, Listening

LEMMA BindKeeps ==
    ASSUME SocketInv, NEW d \in Daemons, Bind(d) PROVE SocketInv'
<1>1. daemon[d].pc = "bind" /\ met' = met
  BY DEF Bind
<1>2. CASE socket = None
  <2>1. socket' = d /\ daemon' = [daemon EXCEPT ![d].pc = "serving"]
    BY <1>2 DEF Bind
  <2>2. /\ SocketTyped'
        /\ daemon'[d].pc = "serving"
        /\ \A e \in Daemons : e # d => daemon'[e] = daemon[e]
    BY <2>1 DEF SocketInv, SocketTyped, DaemonState, Listening
  <2>3. met = {} => \A e \in Daemons \ {d} : ~Looked(e) /\ daemon[e].pc \notin Listening
    BY <1>1 DEF SocketInv, LookedAlone, Looked
  <2> QED BY <1>1, <2>1, <2>2, <2>3 DEF SocketInv, LookedAlone, OwnerUnlessRaced, Looked
<1>3. CASE socket # None
  <2>1. socket' = socket /\ daemon' = [daemon EXCEPT ![d].pc = "ended"]
    BY <1>3 DEF Bind
  <2>2. /\ SocketTyped'
        /\ daemon'[d].pc = "ended"
        /\ \A e \in Daemons : e # d => daemon'[e] = daemon[e]
    BY <2>1 DEF SocketInv, SocketTyped, DaemonState
  <2> QED BY <1>1, <2>1, <2>2, FewerDaemons DEF Looked, Listening
<1> QED BY <1>2, <1>3

\* Taking a connection, answering it, dropping it and leaving the loop: the
\* daemon goes on listening.
LEMMA LoopKeeps ==
    ASSUME SocketInv, NEW d \in Daemons, Take(d) \/ Serve(d) \/ Drop(d) \/ LeaveLoop(d)
    PROVE  SocketInv'
<1>1. daemon[d].pc = "serving" /\ socket' = socket /\ met' = met
  BY DEF Take, Serve, Drop, LeaveLoop
<1>2. daemon[d] \in DaemonState
  BY DEF SocketInv, SocketTyped
<1>3. \E s \in DaemonState : /\ daemon' = [daemon EXCEPT ![d] = s]
                             /\ s.pc \in Listening
  <2>1. CASE Take(d)
    <3> DEFINE s == [daemon[d] EXCEPT !.talking = Head(daemon[d].queue), !.queue = Tail(@)]
    <3>1. daemon' = [daemon EXCEPT ![d] = s]
      BY <2>1 DEF Take, SocketInv, SocketTyped
    <3>2. /\ Head(daemon[d].queue) \in Connection
          /\ Tail(daemon[d].queue) \in Seq(Connection)
      BY <1>2, <2>1 DEF Take, DaemonState
    <3>3. s \in DaemonState /\ s.pc = "serving"
      BY <1>1, <1>2, <3>2 DEF DaemonState
    <3> QED BY <3>1, <3>3 DEF Listening
  <2>2. CASE Serve(d)
    <3> DEFINE last == client[daemon[d].talking].sent = "shutdown"
               s == [daemon[d] EXCEPT !.shutdown = last,
                                      !.talking = IF last THEN None ELSE daemon[d].talking]
    <3>1. daemon' = [daemon EXCEPT ![d] = s]
      BY <2>2 DEF Serve, SocketInv, SocketTyped
    <3>2. s \in DaemonState /\ s.pc = "serving"
      BY <1>1, <1>2 DEF DaemonState, Connection
    <3> QED BY <3>1, <3>2 DEF Listening
  <2>3. CASE Drop(d)
    <3> DEFINE s == [daemon[d] EXCEPT !.talking = None]
    <3>1. daemon' = [daemon EXCEPT ![d] = s]
      BY <2>3 DEF Drop, SocketInv, SocketTyped
    <3>2. s \in DaemonState /\ s.pc = "serving"
      BY <1>1, <1>2 DEF DaemonState, Connection
    <3> QED BY <3>1, <3>2 DEF Listening
  <2>4. CASE LeaveLoop(d)
    <3> DEFINE s == [daemon[d] EXCEPT !.pc = "closing"]
    <3>1. daemon' = [daemon EXCEPT ![d] = s]
      BY <2>4 DEF LeaveLoop, SocketInv, SocketTyped
    <3>2. s \in DaemonState /\ s.pc = "closing"
      BY <1>2 DEF DaemonState, Listening
    <3> QED BY <3>1, <3>2 DEF Listening
  <2> QED BY <2>1, <2>2, <2>3, <2>4
<1>4. PICK s \in DaemonState : /\ daemon' = [daemon EXCEPT ![d] = s]
                               /\ s.pc \in Listening
  BY <1>3
<1>5. SocketTyped'
  BY <1>1, <1>4, OneDaemonTyped DEF SocketInv, SocketTyped
<1>6. /\ daemon'[d].pc \in Listening
      /\ \A e \in Daemons : e # d => daemon'[e] = daemon[e]
  BY <1>4 DEF SocketInv, SocketTyped
<1> QED BY <1>1, <1>5, <1>6, FewerDaemons DEF Looked, Listening

\* A process that ends: at the end of main the socket file goes with it, and
\* the only daemon that listens is the one that ends.
LEMMA EndKeeps ==
    ASSUME SocketInv, NEW d \in Daemons, End(d) \/ Kill(d)
    PROVE  SocketInv'
<1> DEFINE s == [NoDaemonYet EXCEPT !.pc = "ended"]
<1>1. s \in DaemonState /\ s.pc = "ended"
  <2>1. <<>> \in Seq(Connection)
    OBVIOUS
  <2> QED BY <2>1 DEF NoDaemonYet, DaemonState, Connection
<1>2. daemon' = [daemon EXCEPT ![d] = s] /\ met' = met /\ socket' \in Daemons \cup {None}
  BY DEF End, Kill, SocketInv, SocketTyped
<1> HIDE DEF s
<1>3. SocketTyped'
  BY <1>1, <1>2, OneDaemonTyped DEF SocketInv
<1>4. /\ daemon'[d].pc = "ended"
      /\ \A e \in Daemons : e # d => daemon'[e] = daemon[e]
  BY <1>1, <1>2 DEF SocketInv, SocketTyped
<1>5. CASE Kill(d)
  BY <1>2, <1>3, <1>4, <1>5, FewerDaemons DEF Kill, Looked, Listening
<1>6. CASE End(d)
  <2>1. met = {} => \A e \in Daemons : daemon'[e].pc \notin Listening
    BY <1>4, <1>6 DEF End, SocketInv, OwnerUnlessRaced, Listening
  <2> QED BY <1>2, <1>3, <1>4, <2>1
          DEF SocketInv, LookedAlone, OwnerUnlessRaced, Looked, Listening
<1> QED BY <1>5, <1>6

-----------------------------------------------------------------------------
(* The commands' steps.                                                    *)

\* Those that touch the daemons' queues, or nothing of them.
LEMMA PcsKept ==
    ASSUME SocketInv, SocketTyped', socket' = socket, met' = met,
           \A d \in Daemons : daemon'[d].pc = daemon[d].pc
    PROVE  SocketInv'
BY FewerDaemons DEF Looked

LEMMA ConnectKeeps ==
    ASSUME SocketInv, NEW c \in Clients, Connect(c) PROVE SocketInv'
<1>1. socket' = socket /\ met' = met
  BY DEF Connect
<1>2. CASE Alive(socket)
  <2> DEFINE s == [daemon[socket] EXCEPT !.queue = Append(@, c)]
  <2>1. socket \in Daemons
    BY <1>2 DEF Alive, SocketInv, SocketTyped
  <2>2. daemon' = [daemon EXCEPT ![socket] = s]
    BY <1>2, <2>1 DEF Connect, SocketInv, SocketTyped
  <2>3. s \in DaemonState /\ s.pc = daemon[socket].pc
    <3>1. Append(daemon[socket].queue, c) \in Seq(Connection)
      BY <2>1 DEF Connection, SocketInv, SocketTyped, DaemonState
    <3> QED BY <2>1, <3>1 DEF SocketInv, SocketTyped, DaemonState
  <2> HIDE DEF s
  <2>4. SocketTyped' /\ \A d \in Daemons : daemon'[d].pc = daemon[d].pc
    BY <1>1, <2>1, <2>2, <2>3 DEF SocketInv, SocketTyped
  <2> QED BY <1>1, <2>4, PcsKept
<1>3. CASE ~Alive(socket)
  BY <1>1, <1>3, PcsKept DEF Connect, SocketInv, SocketTyped
<1> QED BY <1>2, <1>3

LEMMA SpawnKeeps ==
    ASSUME SocketInv, NEW c \in Clients, Spawn(c) PROVE SocketInv'
<1>1. CASE UNCHANGED daemon
  BY <1>1, PcsKept DEF Spawn, SocketInv, SocketTyped
<1>2. CASE \E d \in Daemons : daemon' = [daemon EXCEPT ![d].pc = "open"]
  <2>1. PICK d \in Daemons : daemon' = [daemon EXCEPT ![d].pc = "open"]
    BY <1>2
  <2>2. /\ SocketTyped'
        /\ daemon'[d].pc = "open"
        /\ \A e \in Daemons : e # d => daemon'[e] = daemon[e]
    BY <2>1 DEF Spawn, SocketInv, SocketTyped, DaemonState, Starting
  <2> QED BY <2>2, FewerDaemons DEF Spawn, Looked, Listening
<1> QED BY <1>1, <1>2 DEF Spawn

LEMMA CommandKeeps ==
    ASSUME SocketInv, NEW c \in Clients,
           Runs(c) \/ \E cmd \in {"query", "start", "stop"} : Call(c, cmd)
    PROVE  SocketInv'
<1>1. CASE Connect(c)
  BY <1>1, ConnectKeeps
<1>2. CASE Spawn(c)
  BY <1>2, SpawnKeeps
<1>3. CASE Answer(c) \/ GiveUp(c)
  <2>1. daemon' = Without(c) /\ socket' = socket /\ met' = met
    BY <1>3 DEF Answer, GiveUp
  <2> QED BY <2>1, WithoutTyped, PcsKept DEF SocketInv, SocketTyped
<1>4. CASE Pong(c) \/ Local(c) \/ \E cmd \in {"query", "start", "stop"} : Call(c, cmd)
  <2>1. daemon' = daemon /\ socket' = socket /\ met' = met
    BY <1>4 DEF Pong, Local, Call
  <2> QED BY <2>1, PcsKept DEF SocketInv, SocketTyped
<1> QED BY <1>1, <1>2, <1>3, <1>4 DEF Runs

-----------------------------------------------------------------------------

LEMMA NextKeepsSocketInv == SocketInv /\ [Next]_vars => SocketInv'
<1> SUFFICES ASSUME SocketInv, [Next]_vars PROVE SocketInv'
  OBVIOUS
<1>1. ASSUME NEW d \in Daemons, Starts(d) PROVE SocketInv'
  BY <1>1, ForegroundKeeps, ProbeKeeps, UnlinkKeeps, BindKeeps DEF Starts
<1>2. ASSUME NEW d \in Daemons, Serves(d) PROVE SocketInv'
  BY <1>2, LoopKeeps, EndKeeps DEF Serves
<1>3. CASE UNCHANGED vars
  BY <1>3, PcsKept DEF vars, SocketInv, SocketTyped
<1> QED BY <1>1, <1>2, <1>3, CommandKeeps DEF Next

\* Daemons that start, serve, stop and are killed in any order keep the types
\* and, as long as none of them met, the owner of the socket.
THEOREM SocketInvariant == Spec => []SocketInv
<1> QED BY InitSocketInv, NextKeepsSocketInv, PTL DEF Spec

(***************************************************************************)
(* run_corpus, "a live socket means another daemon owns this root": of any *)
(* number of daemons, the one that serves is the one the socket leads to,  *)
(* as long as no two of them look for each other at the same time, and     *)
(* whatever is killed, stopped or abandoned meanwhile.                     *)
(***************************************************************************)
THEOREM OwnerSafe == Spec => []OwnerUnlessRaced
<1>1. SocketInv => OwnerUnlessRaced
  BY DEF SocketInv
<1> QED BY <1>1, SocketInvariant, PTL

-----------------------------------------------------------------------------
(* A daemon that said it stops: the invariant.                             *)

Commands == {"query", "start", "stop"}
Requests == {"ping", "query", "shutdown"}

CommandState ==
    [cmd : Commands \cup {None}, polls : Nat, at : Daemons \cup {None},
     pc : {"idle", "connect", "ping", "ask", "retire", "local", "spawn", "done"},
     sent : Requests \cup {None}, reply : [from : Daemons, to : Requests] \cup {None},
     said : {None, "answer", "stopped", "no daemon", "already running", "started",
             "not answering yet", "error"},
     from : Daemons \cup {None}]

\* What a stop asks of a daemon of its own protocol is the shutdown.
Command(k) ==
    /\ k \in CommandState
    /\ k.pc # "idle" => k.cmd \in Commands
    /\ k.pc = "ask" /\ k.cmd = "stop" =>
         /\ k.sent \in {None, "shutdown"}
         /\ k.reply # None => k.reply.to = "shutdown"

\* A daemon on its way out, from the answer to the shutdown on.
Ending(s) == s.shutdown \/ s.pc \in {"closing", "ended"}

\* The shutdown is the last thing a daemon talks about.
Quiet(s) == s.shutdown => s.talking = None

\* Who was told of a stop, or will read of it, was told by a daemon that ends.
ToldTrue(k, states) ==
    /\ k.reply # None /\ k.reply.to = "shutdown" => Ending(states[k.reply.from])
    /\ k.said = "stopped" => k.from \in Daemons /\ Ending(states[k.from])

StopInv ==
    /\ SocketTyped
    /\ \A d \in Daemons : Quiet(daemon[d])
    /\ client \in [Clients -> CommandState]
    /\ \A c \in Clients : Command(client[c]) /\ ToldTrue(client[c], daemon)

LEMMA InitStopInv == Init => StopInv
<1> SUFFICES ASSUME Init PROVE StopInv
  OBVIOUS
<1>1. SocketTyped
  BY InitSocketInv DEF SocketInv
<1>2. NoCommand \in CommandState
  BY DEF NoCommand, CommandState
<1>3. Command(NoCommand) /\ ToldTrue(NoCommand, daemon)
  BY <1>2, NamesAssumption DEF Command, ToldTrue, NoCommand
<1>4. \A d \in Daemons : Quiet(daemon[d])
  BY DEF Init, Quiet, NoDaemonYet
<1> QED BY <1>1, <1>2, <1>3, <1>4 DEF Init, StopInv

\* Without an answer, or on with the next request: what a command tells of a
\* stop does not change.
LEMMA AloneCommand ==
    ASSUME NEW k, Command(k), k.pc # "idle"
    PROVE  /\ Command(Alone(k))
           /\ Alone(k).reply = None
           /\ Alone(k).said = "stopped" => k.said = "stopped"
           /\ Alone(k).from = k.from
<1>1. Left(k) \in CommandState /\ Left(k).cmd = k.cmd /\ Left(k).reply = None
      /\ Left(k).said = k.said /\ Left(k).from = k.from /\ Left(k).polls = k.polls
  BY DEF Command, CommandState, Left
<1>2. k.cmd \in Commands /\ k \in CommandState
  BY DEF Command
<1> DEFINE Stays(l) == /\ Command(l) /\ l.reply = None /\ l.from = k.from
                       /\ l.said = "stopped" => k.said = "stopped"
<1>3. ASSUME NEW said \in {"no daemon", "not answering yet"}
      PROVE  Stays(Done(k, said))
  <2> DEFINE l == Done(k, said)
  <2>1. /\ l \in CommandState
        /\ l.pc = "done" /\ l.said = said /\ l.cmd = k.cmd
        /\ l.reply = None /\ l.from = k.from
    <3> DEFINE left == Left(k)
    <3>1. left \in CommandState /\ left.cmd = k.cmd /\ left.reply = None
          /\ left.from = k.from
      BY <1>1
    <3> DEFINE over == [left EXCEPT !.pc = "done"]
    <3>2. l = [over EXCEPT !.said = said]
      BY <3>1 DEF Done, CommandState
    <3> HIDE DEF left, l
    <3>3. /\ over \in CommandState /\ over.pc = "done" /\ over.cmd = k.cmd
          /\ over.reply = None /\ over.from = k.from
      BY <3>1 DEF CommandState
    <3> HIDE DEF over
    <3>4. l \in CommandState
      <4>1. over \in CommandState
        BY <3>3
      <4> QED BY <3>2, <4>1, NamesAssumption DEF CommandState
    <3>5. l.pc = over.pc /\ l.said = said /\ l.cmd = over.cmd
          /\ l.reply = over.reply /\ l.from = over.from
      BY <3>2, <3>3 DEF CommandState
    <3> QED BY <3>3, <3>4, <3>5
  <2> HIDE DEF l
  <2>2. Command(l)
    BY <1>2, <2>1 DEF Command
  <2>3. Stays(l)
    BY <2>1, <2>2
  <2> QED BY <2>3 DEF l
<1>4. ASSUME NEW pc \in {"local", "spawn"}
      PROVE  Stays([Left(k) EXCEPT !.pc = pc])
  <2> DEFINE left == Left(k)
             l == [left EXCEPT !.pc = pc]
  <2>1. left \in CommandState /\ left.cmd = k.cmd /\ left.reply = None
        /\ left.said = k.said /\ left.from = k.from
    BY <1>1
  <2> HIDE DEF left
  <2>2. l \in CommandState /\ l.pc = pc /\ l.said = k.said /\ l.cmd = k.cmd
        /\ l.reply = None /\ l.from = k.from
    BY <2>1 DEF CommandState
  <2> HIDE DEF l
  <2>3. Stays(l)
    BY <1>2, <2>2 DEF Command
  <2> QED BY <2>3 DEF l, left
<1>5. Stays([Left(k) EXCEPT !.pc = "connect", !.polls = @ + 1])
  <2>1. k.polls \in Nat
    BY <1>2 DEF CommandState
  <2> DEFINE n == Left(k).polls + 1
  <2>2. n \in Nat
    BY <1>1, <2>1
  <2> HIDE DEF n
  <2>3. [Left(k) EXCEPT !.pc = "connect", !.polls = n] \in CommandState
    <3> DEFINE left == Left(k)
    <3>1. left \in CommandState
      BY <1>1
    <3> HIDE DEF left
    <3>2. [left EXCEPT !.pc = "connect", !.polls = n] \in CommandState
      BY <2>2, <3>1 DEF CommandState
    <3> QED BY <3>2 DEF left
  <2> DEFINE l == [Left(k) EXCEPT !.pc = "connect", !.polls = n]
  <2>4. /\ l.pc = "connect" /\ l.cmd = k.cmd /\ l.reply = None
        /\ l.said = k.said /\ l.from = k.from
    BY <1>1 DEF CommandState
  <2>5. l \in CommandState
    BY <2>3
  <2> HIDE DEF l
  <2>6. Stays(l)
    BY <1>2, <2>4, <2>5 DEF Command
  <2> QED BY <2>6 DEF l, n
<1> HIDE DEF Stays
<1>6. Stays(Alone(k))
  BY <1>2, <1>3, <1>4, <1>5 DEF Alone, Commands
<1> QED BY <1>6 DEF Stays

LEMMA SendsCommand ==
    ASSUME NEW k, Command(k), k.pc = "ping",
           NEW pc \in {"ask", "retire"}, NEW request \in Requests,
           pc = "ask" /\ k.cmd = "stop" => request = "shutdown"
    PROVE  /\ Command(Sends(k, pc, request))
           /\ Sends(k, pc, request).reply = None
           /\ Sends(k, pc, request).said = "stopped" => k.said = "stopped"
           /\ Sends(k, pc, request).from = k.from
<1>1. CASE k.at = None
  BY <1>1, AloneCommand DEF Sends
<1>2. CASE k.at # None
  BY <1>2 DEF Sends, Command, CommandState
<1> QED BY <1>1, <1>2

-----------------------------------------------------------------------------
(* Once on its way out, always: the daemons' side.                         *)

Onward(s, t) == Quiet(t) /\ (Ending(s) => Ending(t))

\* A step that replaces the state of one daemon.
LEMMA OneDaemonOnward ==
    ASSUME SocketTyped, \A e \in Daemons : Quiet(daemon[e]),
           NEW d \in Daemons, NEW s, daemon' = [daemon EXCEPT ![d] = s],
           Onward(daemon[d], s)
    PROVE  \A e \in Daemons : Onward(daemon[e], daemon'[e])
BY DEF SocketTyped, Onward

LEMMA DaemonsGoOn ==
    ASSUME StopInv, [Next]_vars
    PROVE  \A e \in Daemons : Onward(daemon[e], daemon'[e])
<1> USE DEF StopInv
<1> DEFINE Goal == \A e \in Daemons : Onward(daemon[e], daemon'[e])
<1>0. \A d \in Daemons : daemon[d] \in DaemonState /\ Quiet(daemon[d])
  BY DEF SocketTyped
<1>1. ASSUME NEW d \in Daemons, Foreground(d) \/ \E c \in Clients : Spawn(c)
             /\ daemon' = [daemon EXCEPT ![d].pc = "open"] /\ daemon[d].pc = "off"
      PROVE  Goal
  <2>1. daemon[d].pc = "off" /\ daemon' = [daemon EXCEPT ![d] = [daemon[d] EXCEPT !.pc = "open"]]
    BY <1>1 DEF Foreground
  <2>2. Onward(daemon[d], [daemon[d] EXCEPT !.pc = "open"])
    BY <1>0, <2>1 DEF Onward, Quiet, Ending, DaemonState
  <2> QED BY <2>1, <2>2, OneDaemonOnward
<1>2. ASSUME NEW d \in Daemons, Probe(d) PROVE Goal
  <2>1. CASE Alive(socket)
    <3>1. socket \in Daemons /\ socket # d
      BY <1>2, <2>1 DEF Alive, SocketTyped, Probe, Listening
    <3>2. daemon' = [daemon EXCEPT ![d].pc = "ended", ![socket].queue = Append(@, Gone)]
      BY <1>2, <2>1 DEF Probe
    <3>3. \A e \in Daemons : /\ daemon'[e].shutdown = daemon[e].shutdown
                             /\ daemon'[e].talking = daemon[e].talking
                             /\ daemon'[e].pc \in {daemon[e].pc, "ended"}
      BY <1>0, <3>1, <3>2 DEF SocketTyped, DaemonState
    <3> QED BY <1>0, <3>3 DEF Onward, Quiet, Ending
  <2>2. CASE ~Alive(socket)
    <3>1. /\ daemon' = [daemon EXCEPT ![d] = [daemon[d] EXCEPT !.pc = "unlink"]]
          /\ daemon[d].pc = "open"
      BY <1>2, <2>2 DEF Probe
    <3>2. Onward(daemon[d], [daemon[d] EXCEPT !.pc = "unlink"])
      BY <1>0, <3>1 DEF Onward, Quiet, Ending, DaemonState
    <3> QED BY <3>1, <3>2, OneDaemonOnward
  <2> QED BY <2>1, <2>2
<1>3. ASSUME NEW d \in Daemons, Unlink(d) \/ Bind(d) \/ LeaveLoop(d) PROVE Goal
  <2>1. PICK pc \in {"bind", "serving", "ended", "closing"} :
               daemon' = [daemon EXCEPT ![d] = [daemon[d] EXCEPT !.pc = pc]]
    BY <1>3 DEF Unlink, Bind, LeaveLoop
  <2>2. daemon[d].pc \in {"unlink", "bind", "serving"}
    BY <1>3 DEF Unlink, Bind, LeaveLoop
  <2>3. Onward(daemon[d], [daemon[d] EXCEPT !.pc = pc])
    BY <1>0, <2>1, <2>2 DEF Onward, Quiet, Ending, DaemonState
  <2> QED BY <2>1, <2>3, OneDaemonOnward
<1>4. ASSUME NEW d \in Daemons, Take(d) PROVE Goal
  <2> DEFINE s == [daemon[d] EXCEPT !.talking = Head(daemon[d].queue), !.queue = Tail(@)]
  <2>1. daemon' = [daemon EXCEPT ![d] = s] /\ ~daemon[d].shutdown /\ daemon[d].pc = "serving"
    BY <1>4 DEF Take, SocketTyped
  <2>2. Onward(daemon[d], s)
    BY <1>0, <2>1 DEF Onward, Quiet, Ending, DaemonState
  <2> QED BY <2>1, <2>2, OneDaemonOnward
<1>5. ASSUME NEW d \in Daemons, Serve(d) PROVE Goal
  <2> DEFINE last == client[daemon[d].talking].sent = "shutdown"
             s == [daemon[d] EXCEPT !.shutdown = last,
                                    !.talking = IF last THEN None ELSE daemon[d].talking]
  <2>1. /\ daemon' = [daemon EXCEPT ![d] = s]
        /\ ~daemon[d].shutdown /\ daemon[d].pc = "serving"
    BY <1>0, <1>5 DEF Serve, SocketTyped, Quiet
  <2>2. Onward(daemon[d], s)
    BY <1>0, <2>1 DEF Onward, Quiet, Ending, DaemonState
  <2> QED BY <2>1, <2>2, OneDaemonOnward
<1>6. ASSUME NEW d \in Daemons, Drop(d) PROVE Goal
  <2>1. daemon' = [daemon EXCEPT ![d] = [daemon[d] EXCEPT !.talking = None]]
    BY <1>6 DEF Drop
  <2>2. Onward(daemon[d], [daemon[d] EXCEPT !.talking = None])
    BY <1>0 DEF Onward, Quiet, Ending, DaemonState
  <2> QED BY <2>1, <2>2, OneDaemonOnward
<1>7. ASSUME NEW d \in Daemons, End(d) \/ Kill(d) PROVE Goal
  <2>1. daemon' = [daemon EXCEPT ![d] = [NoDaemonYet EXCEPT !.pc = "ended"]]
    BY <1>7 DEF End, Kill
  <2>2. Onward(daemon[d], [NoDaemonYet EXCEPT !.pc = "ended"])
    BY DEF Onward, Quiet, Ending, NoDaemonYet
  <2> QED BY <2>1, <2>2, OneDaemonOnward
<1>8. ASSUME NEW c \in Clients, Connect(c) PROVE Goal
  <2>1. CASE daemon' = daemon
    BY <1>0, <2>1 DEF Onward
  <2>2. CASE Alive(socket)
    <3>1. /\ socket \in Daemons
          /\ daemon' = [daemon EXCEPT ![socket] = [daemon[socket] EXCEPT !.queue = Append(@, c)]]
      BY <1>8, <2>2 DEF Connect, Alive, SocketTyped
    <3>2. Onward(daemon[socket], [daemon[socket] EXCEPT !.queue = Append(@, c)])
      BY <1>0, <3>1 DEF Onward, Quiet, Ending, DaemonState
    <3> QED BY <3>1, <3>2, OneDaemonOnward
  <2> QED BY <1>8, <2>1, <2>2 DEF Connect
<1>9. ASSUME NEW c \in Clients, daemon' = Without(c) PROVE Goal
  <2>1. \A e \in Daemons : /\ Without(c)[e].shutdown = daemon[e].shutdown
                           /\ Without(c)[e].pc = daemon[e].pc
                           /\ daemon[e].talking = None => Without(c)[e].talking = None
    BY <1>0, NamesAssumption DEF Without, DaemonState
  <2> QED BY <1>0, <1>9, <2>1 DEF Onward, Quiet, Ending
<1>10. ASSUME daemon' = daemon PROVE Goal
  BY <1>0, <1>10 DEF Onward
<1> HIDE DEF Goal
<1>11. ASSUME NEW c \in Clients, Runs(c) PROVE Goal
  <2>1. CASE Answer(c) \/ GiveUp(c)
    BY <1>9, <2>1 DEF Answer, GiveUp
  <2>2. CASE Spawn(c)
    BY <1>1, <1>10, <2>2 DEF Spawn
  <2>3. CASE Pong(c) \/ Local(c)
    BY <1>10, <2>3 DEF Pong, Local
  <2> QED BY <1>8, <1>11, <2>1, <2>2, <2>3 DEF Runs
<1>12. ASSUME NEW d \in Daemons, Starts(d) \/ Serves(d) PROVE Goal
  BY <1>1, <1>2, <1>3, <1>4, <1>5, <1>6, <1>7, <1>12 DEF Starts, Serves
<1>13. ASSUME NEW c \in Clients, NEW cmd \in Commands, Call(c, cmd) PROVE Goal
  BY <1>10, <1>13 DEF Call
<1>14. Goal
  BY <1>10, <1>11, <1>12, <1>13 DEF Next, vars, Commands
<1> QED BY <1>14 DEF Goal

-----------------------------------------------------------------------------
(* The commands' side.                                                     *)

True(k, states) == Command(k) /\ ToldTrue(k, states)

TrueAfter ==
    /\ client' \in [Clients -> CommandState]
    /\ \A k \in Clients : True(client'[k], daemon')

\* Nobody gets a reply.
NoNews == \A k \in Clients : client'[k].reply \in {None, client[k].reply}

\* What was true stays so, for a command that says and has been told the same.
LEMMA StillTrue ==
    ASSUME \A e \in Daemons : Onward(daemon[e], daemon'[e]),
           NEW k, True(k, daemon), NEW n, Command(n),
           n.reply \in {None, k.reply},
           n.said = "stopped" => k.said = "stopped" /\ n.from = k.from
    PROVE  True(n, daemon')
<1>1. k.reply # None => k.reply.from \in Daemons
  BY DEF True, Command, CommandState
<1>2. n.reply # None /\ n.reply.to = "shutdown" => Ending(daemon'[n.reply.from])
  BY <1>1 DEF True, ToldTrue, Onward
<1>3. n.said = "stopped" => n.from \in Daemons /\ Ending(daemon'[n.from])
  BY DEF True, ToldTrue, Onward
<1> QED BY <1>2, <1>3 DEF True, ToldTrue

LEMMA OneCommand ==
    ASSUME StopInv, \A e \in Daemons : Onward(daemon[e], daemon'[e]),
           NEW c \in Clients, NEW n, client' = [client EXCEPT ![c] = n],
           True(n, daemon')
    PROVE  TrueAfter /\ (n.reply \in {None, client[c].reply} => NoNews)
<1>1. client'[c] = n /\ \A k \in Clients : k # c => client'[k] = client[k]
  BY DEF StopInv
<1>2. \A k \in Clients : True(client[k], daemon')
  BY StillTrue DEF StopInv, True
<1>3. client' \in [Clients -> CommandState]
  BY DEF StopInv, True, Command
<1> QED BY <1>1, <1>2, <1>3 DEF TrueAfter, NoNews

LEMMA SilentStaysTrue ==
    ASSUME StopInv, \A e \in Daemons : Onward(daemon[e], daemon'[e]),
           NEW d, NEW closed, client' = Silent(d, closed)
    PROVE  TrueAfter /\ NoNews
<1>1. ASSUME NEW k \in Clients
      PROVE  /\ client'[k] \in CommandState
             /\ client'[k].reply = client[k].reply
             /\ True(client'[k], daemon')
  <2>1. True(client[k], daemon) /\ client[k] \in CommandState
    BY <1>1 DEF StopInv, True
  <2>2. client'[k] \in {client[k], [client[k] EXCEPT !.at = None, !.sent = None]}
    BY <1>1 DEF Silent
  <2>3. /\ Command(client'[k]) /\ client'[k].reply = client[k].reply
        /\ client'[k].said = client[k].said /\ client'[k].from = client[k].from
    BY <2>1, <2>2 DEF True, Command, CommandState
  <2> QED BY <2>1, <2>3, StillTrue DEF Command
<1>2. client' = [k \in Clients |-> client'[k]]
  BY DEF Silent
<1> QED BY <1>1, <1>2 DEF TrueAfter, NoNews

LEMMA ServeTellsTrue ==
    ASSUME StopInv, \A e \in Daemons : Onward(daemon[e], daemon'[e]),
           NEW d \in Daemons, Serve(d)
    PROVE  TrueAfter
<1> DEFINE c == daemon[d].talking
           k == client[c]
           last == k.sent = "shutdown"
           n == [k EXCEPT !.sent = None, !.reply = [from |-> d, to |-> k.sent],
                          !.at = IF last THEN None ELSE d]
<1>1. c \in Clients /\ k.sent # None
  BY DEF Serve, StopInv, SocketTyped, DaemonState, Connection
<1>2. True(k, daemon) /\ k \in CommandState /\ k.sent \in Requests
  BY <1>1 DEF StopInv, True, CommandState
<1>3. client' = [client EXCEPT ![c] = n]
  BY DEF Serve
<1>4. last => Ending(daemon'[d])
  <2>1. daemon'[d] = [daemon[d] EXCEPT !.shutdown = last, !.talking = IF last THEN None ELSE c]
    BY DEF Serve, StopInv, SocketTyped
  <2>2. daemon'[d].shutdown = last
    BY <2>1 DEF StopInv, SocketTyped, DaemonState
  <2> QED BY <2>2 DEF Ending
<1>5. /\ n.reply = [from |-> d, to |-> k.sent] /\ n.sent = None
      /\ n.pc = k.pc /\ n.cmd = k.cmd /\ n.said = k.said /\ n.from = k.from
  BY <1>2 DEF CommandState
<1>6. n \in CommandState
  BY <1>2 DEF CommandState
<1>7. True(k, daemon')
  BY <1>2, StillTrue DEF True
<1> HIDE DEF n
<1>8. Command(n)
  BY <1>1, <1>2, <1>5, <1>6 DEF True, Command
<1>9. ToldTrue(n, daemon')
  <2>1. ToldTrue(k, daemon')
    BY <1>7 DEF True
  <2>2. n.reply.to = "shutdown" => last
    BY <1>5
  <2>3. n.reply.from = d
    BY <1>5
  <2> HIDE DEF last
  <2>4. k.said = "stopped" => k.from \in Daemons /\ Ending(daemon'[k.from])
    BY <2>1 DEF ToldTrue
  <2> QED BY <1>4, <1>5, <2>2, <2>3, <2>4 DEF ToldTrue
<1>10. True(n, daemon')
  BY <1>8, <1>9 DEF True
<1> HIDE DEF c
<1> QED BY <1>1, <1>3, <1>10, OneCommand

LEMMA RunStaysTrue ==
    ASSUME StopInv, \A e \in Daemons : Onward(daemon[e], daemon'[e]),
           NEW c \in Clients, Runs(c) \/ \E cmd \in Commands : Call(c, cmd)
    PROVE  TrueAfter /\ NoNews
<1> DEFINE k == client[c]
<1>1. True(k, daemon) /\ Command(k) /\ k \in CommandState
  BY DEF StopInv, True
\* It says nothing of a stop that it did not say, and has no reply it had not.
<1> DEFINE Same(n) == /\ Command(n) /\ n.reply \in {None, k.reply}
                      /\ n.said = "stopped" => k.said = "stopped" /\ n.from = k.from
<1>2. ASSUME NEW n, Same(n), client' = [client EXCEPT ![c] = n]
      PROVE  TrueAfter /\ NoNews
  <2> USE <1>2
  <2>1. True(n, daemon')
    BY <1>1, StillTrue
  <2> HIDE DEF k
  <2> QED BY <2>1, OneCommand DEF k
<1>3. ASSUME k.pc # "idle" PROVE Same(Alone(k))
  BY <1>1, <1>3, AloneCommand
<1>4. CASE \E cmd \in Commands : Call(c, cmd)
  <2>1. PICK cmd \in Commands : Call(c, cmd)
    BY <1>4
  <2> DEFINE n == [k EXCEPT !.cmd = cmd, !.pc = "connect"]
  <2>2. client' = [client EXCEPT ![c] = n]
    BY <2>1 DEF Call
  <2>3. /\ n \in CommandState /\ n.pc = "connect" /\ n.cmd \in Commands
        /\ n.reply = k.reply /\ n.said = k.said /\ n.from = k.from
    <3> HIDE DEF k
    <3> QED BY <1>1 DEF CommandState
  <2> HIDE DEF n
  <2>4. Same(n)
    BY <2>3 DEF Command
  <2> HIDE DEF Same
  <2> QED BY <1>2, <2>2, <2>4
<1>5. CASE Connect(c)
  <2>1. k.pc = "connect"
    BY <1>5 DEF Connect
  <2>2. CASE Alive(socket)
    <3> DEFINE n == [k EXCEPT !.pc = "ping", !.at = socket, !.sent = "ping"]
    <3>1. client' = [client EXCEPT ![c] = n]
      BY <1>5, <2>2 DEF Connect
    <3>2. socket \in Daemons
      BY <2>2 DEF Alive, StopInv, SocketTyped
    <3>3. Same(n)
      BY <1>1, <2>1, <3>2 DEF Command, CommandState, Requests
    <3> HIDE DEF n, Same
    <3> QED BY <1>2, <3>1, <3>3
  <2>3. CASE ~Alive(socket)
    <3>1. client' = [client EXCEPT ![c] = Alone(k)]
      BY <1>5, <2>3 DEF Connect
    <3>2. Same(Alone(k))
      BY <1>3, <2>1
    <3> HIDE DEF Same
    <3> QED BY <1>2, <3>1, <3>2
  <2> QED BY <2>2, <2>3
<1>6. CASE Pong(c)
  <2> DEFINE n == IF k.reply.from \in Old THEN Sends(k, "retire", "shutdown")
                  ELSE Sends(k, "ask", Request(k.cmd))
  <2>1. k.pc = "ping" /\ client' = [client EXCEPT ![c] = n]
    BY <1>6 DEF Pong
  <2>2. /\ Request(k.cmd) \in Requests
        /\ k.cmd = "stop" => Request(k.cmd) = "shutdown"
    <3>1. k.cmd \in Commands
      BY <1>1, <2>1 DEF Command
    <3> QED BY <3>1 DEF Request, Requests, Commands
  <2>3. Same(Sends(k, "retire", "shutdown"))
    BY <1>1, <2>1, SendsCommand DEF Requests
  <2>4. Same(Sends(k, "ask", Request(k.cmd)))
    BY <1>1, <2>1, <2>2, SendsCommand
  <2>5. Same(n)
    BY <2>3, <2>4
  <2> HIDE DEF n, Same
  <2> QED BY <1>2, <2>1, <2>5
<1>7. CASE Answer(c)
  <2> DEFINE says == CASE k.cmd = "query" -> "answer"
                       [] k.cmd = "stop" -> "stopped"
                       [] k.cmd = "start" -> IF k.polls = 0 THEN "already running" ELSE "started"
             n == [Done(k, says) EXCEPT !.from = k.reply.from]
  <2>1. k.pc = "ask" /\ k.reply # None /\ client' = [client EXCEPT ![c] = n]
    BY <1>7 DEF Answer
  <2>2. k.cmd \in Commands /\ k.reply.from \in Daemons
    BY <1>1, <2>1 DEF Command, CommandState
  <2>3. /\ says \in {"answer", "stopped", "already running", "started"}
        /\ says = "stopped" => k.cmd = "stop"
    BY <2>2 DEF Commands
  <2> HIDE DEF says
  <2>4. /\ n \in CommandState
        /\ n.pc = "done" /\ n.cmd = k.cmd /\ n.reply = None
        /\ n.said = says /\ n.from = k.reply.from
    BY <1>1, <2>2, <2>3 DEF Done, Left, CommandState
  <2> HIDE DEF n
  <2>5. Command(n)
    BY <2>2, <2>4 DEF Command
  <2>6. says = "stopped" => Ending(daemon'[k.reply.from])
    <3>1. says = "stopped" => k.reply.to = "shutdown"
      BY <1>1, <2>1, <2>3 DEF Command
    <3> QED BY <1>1, <2>1, <2>2, <3>1 DEF True, ToldTrue, Onward
  <2>7. True(n, daemon')
    BY <2>2, <2>4, <2>5, <2>6 DEF True, ToldTrue
  <2> QED BY <2>1, <2>4, <2>7, OneCommand
<1>8. CASE GiveUp(c)
  <2>1. k.pc # "idle" /\ client' = [client EXCEPT ![c] = Alone(k)]
    BY <1>8 DEF GiveUp
  <2>2. Same(Alone(k))
    BY <1>3, <2>1
  <2> HIDE DEF Same
  <2> QED BY <1>2, <2>1, <2>2
<1>9. ASSUME NEW said \in {"answer", "error"}, k.pc # "idle",
             client' = [client EXCEPT ![c] = Done(k, said)]
      PROVE  TrueAfter /\ NoNews
  <2> DEFINE n == Done(k, said)
  <2>1. /\ n \in CommandState
        /\ n.pc = "done" /\ n.cmd = k.cmd /\ n.reply = None /\ n.said = said
    BY <1>1 DEF Done, Left, CommandState
  <2>2. k.cmd \in Commands
    BY <1>1, <1>9 DEF Command
  <2> HIDE DEF n
  <2>3. Same(n)
    BY <2>1, <2>2 DEF Command
  <2> HIDE DEF Same
  <2> QED BY <1>2, <1>9, <2>3 DEF n
<1>10. CASE Local(c)
  <2>1. k.pc # "idle"
    BY <1>10 DEF Local
  <2>2. PICK said \in {"answer", "error"} : client' = [client EXCEPT ![c] = Done(k, said)]
    BY <1>10 DEF Local
  <2> QED BY <1>9, <2>1, <2>2
<1>11. CASE Spawn(c)
  <2> DEFINE n == [k EXCEPT !.pc = "connect", !.polls = 1]
  <2>1. k.pc = "spawn" /\ (\/ client' = [client EXCEPT ![c] = n]
                           \/ client' = [client EXCEPT ![c] = Done(k, "error")])
    BY <1>11 DEF Spawn
  <2>2. CASE client' = [client EXCEPT ![c] = Done(k, "error")]
    BY <1>9, <2>1, <2>2
  <2>3. CASE client' = [client EXCEPT ![c] = n]
    <3>1. Same(n)
      BY <1>1, <2>1 DEF Command, CommandState
    <3> HIDE DEF n, Same
    <3> QED BY <1>2, <2>3, <3>1
  <2> QED BY <2>1, <2>2, <2>3
<1> QED BY <1>4, <1>5, <1>6, <1>7, <1>8, <1>10, <1>11 DEF Runs

LEMMA NewsFromServe ==
    ASSUME StopInv, [Next]_vars
    PROVE  TrueAfter /\ (NoNews \/ \E d \in Daemons : Serve(d))
<1>1. \A e \in Daemons : Onward(daemon[e], daemon'[e])
  BY DaemonsGoOn
<1>2. ASSUME client' = client PROVE TrueAfter /\ NoNews
  BY <1>1, <1>2, StillTrue DEF StopInv, True, TrueAfter, NoNews
<1>3. ASSUME NEW d \in Daemons, Starts(d) \/ Take(d) \/ LeaveLoop(d)
      PROVE  TrueAfter /\ NoNews
  BY <1>2, <1>3 DEF Starts, Foreground, Probe, Unlink, Bind, Take, LeaveLoop
<1>4. ASSUME NEW d \in Daemons, Drop(d) \/ End(d) \/ Kill(d)
      PROVE  TrueAfter /\ NoNews
  BY <1>1, <1>4, SilentStaysTrue DEF Drop, End, Kill
<1>5. ASSUME NEW d \in Daemons, Serve(d) PROVE TrueAfter
  BY <1>1, <1>5, ServeTellsTrue
<1>6. ASSUME NEW c \in Clients, Runs(c) \/ \E cmd \in Commands : Call(c, cmd)
      PROVE  TrueAfter /\ NoNews
  BY <1>1, <1>6, RunStaysTrue
<1> QED BY <1>2, <1>3, <1>4, <1>5, <1>6 DEF Next, Serves, vars, Commands

-----------------------------------------------------------------------------

LEMMA NextKeepsStopInv == SocketInv /\ StopInv /\ [Next]_vars => StopInv'
<1> SUFFICES ASSUME SocketInv, StopInv, [Next]_vars PROVE StopInv'
  OBVIOUS
<1>1. SocketTyped'
  BY NextKeepsSocketInv DEF SocketInv
<1>2. \A d \in Daemons : Quiet(daemon'[d])
  BY DaemonsGoOn DEF Onward
<1>3. TrueAfter
  BY NewsFromServe
<1> QED BY <1>1, <1>2, <1>3 DEF StopInv, TrueAfter, True

LEMMA StopStep ==
    ASSUME StopInv, [Next]_vars, NEW c \in Clients, NEW k \in Clients,
           client[c].said = "stopped", client'[k].reply \notin {None, client[k].reply}
    PROVE  client'[k].reply.from # client[c].from
<1>1. PICK d \in Daemons : Serve(d)
  BY NewsFromServe DEF NoNews
<1>2. ~Ending(daemon[d])
  BY <1>1 DEF Serve, StopInv, Quiet, Ending
<1>3. client'[k].reply.from = d
  <2>1. daemon[d].talking \in Clients
    BY <1>1 DEF Serve, StopInv, SocketTyped, DaemonState, Connection
  <2>2. k = daemon[d].talking
    BY <1>1, <2>1 DEF Serve, StopInv
  <2>3. client[k] \in CommandState
    BY DEF StopInv
  <2> DEFINE told == [from |-> d, to |-> client[k].sent]
             next == IF client[k].sent = "shutdown" THEN None ELSE d
  <2>4. client'[k] = [client[k] EXCEPT !.sent = None, !.reply = told, !.at = next]
    BY <1>1, <2>2 DEF Serve, StopInv
  <2>5. told.from = d
    OBVIOUS
  <2> HIDE DEF told, next
  <2>6. client'[k].reply = told
    BY <2>3, <2>4 DEF CommandState
  <2> QED BY <2>5, <2>6
<1>4. Ending(daemon[client[c].from])
  BY DEF StopInv, ToldTrue
<1> QED BY <1>2, <1>3, <1>4

\* What commands say and have been told of a stop is true: the daemon it is
\* about is on its way out and talks to nobody.
THEOREM StopInvariant == Spec => []StopInv
<1> QED BY InitStopInv, NextKeepsStopInv, SocketInvariant, PTL DEF Spec

(***************************************************************************)
(* run_corpus and handle_conn: a daemon that has told a command that it    *)
(* stops answers nobody any more, for every number of daemons and          *)
(* commands, whoever waits in its channel.                                 *)
(***************************************************************************)
THEOREM StopSafe == Spec => StopIsObeyed
<1>1. StopInv /\ [Next]_vars =>
        [\A c, k \in Clients :
           /\ client[c].said = "stopped"
           /\ client'[k].reply \notin {None, client[k].reply}
           => client'[k].reply.from # client[c].from]_vars
  BY StopStep
<1> QED BY <1>1, StopInvariant, PTL DEF Spec, StopIsObeyed

=============================================================================
