---------------------------- MODULE DaemonProofs ----------------------------
(* Proofs about the daemon, for every set of paths and contents, every     *)
(* choice of ignored paths and every history of edits and clients.         *)
EXTENDS Daemon, TLAPS

----------------------------------------------------------------------------
(* The inductive invariant.                                                *)

\* What each phase of the process leaves empty.
PhaseInv ==
    /\ open <=> dpc # "down"
    /\ dpc = "down" => channel = <<>>
    /\ dpc \in {"down", "opened", "bound"} =>
         suspect \subseteq missed /\ pending = NoChange
    /\ dpc # "apply" => applying = NoChange
    /\ dpc = "apply" => pending = NoChange
    /\ pending # NoChange => timer # "off"

\* An event is never the last word on its file unless the file is as it says:
\* a file that is there again has a later event.
ChannelInv ==
    \A p \in Paths \ missed, i \in 1..Len(channel) :
      Reports(channel[i], p) /\ channel[i].kind = "remove"
        /\ work[p] \in Text =>
          \E j \in 1..Len(channel) : j > i /\ Reports(channel[j], p)

\* The same of the changes that wait and of those being applied.
PendingInv ==
    \A p \in Paths \ missed :
      /\ pending[p] = "removed" /\ work[p] \in Text => p \in Queued
      /\ applying[p] = "removed" /\ work[p] \in Text =>
           p \in Queued \/ pending[p] # "none"

IInv ==
    /\ TypeOK
    /\ Index!Fresh
    /\ PhaseInv
    /\ ChannelInv
    /\ PendingInv
    /\ NoLostUpdate

----------------------------------------------------------------------------
(* Messages.                                                               *)

LEMMA NoChangeType ==
    /\ NoChange \in [Paths -> {"none", "changed", "removed"}]
    /\ Waiting(NoChange) = {}
BY DEF NoChange, Waiting

LEMMA WaitingPending ==
    ASSUME NEW changes \in [Paths -> {"none", "changed", "removed"}],
           Waiting(changes) = {}
    PROVE  changes = NoChange
BY DEF Waiting, NoChange

LEMMA FsMessage ==
    ASSUME NEW p \in Paths, NEW k \in {"modify", "remove"}
    PROVE  [type |-> "fs", path |-> p, kind |-> k] \in Messages
BY DEF Messages, FsEvents

LEMMA ConnMessage ==
    ASSUME NEW r \in {"search", "shutdown"}
    PROVE  [type |-> "conn", request |-> r] \in Messages
BY DEF Messages, Conns

LEMMA EventFields ==
    ASSUME NEW msg \in Messages, msg.type = "fs"
    PROVE  msg.path \in Paths /\ msg.kind \in {"modify", "remove"}
BY DEF Messages, FsEvents, Conns

\* Sending a message puts it behind all others.
LEMMA Sending ==
    ASSUME channel \in Seq(Messages), NEW msg \in Messages,
           channel' = Append(channel, msg)
    PROVE  /\ channel' \in Seq(Messages)
           /\ Len(channel') = Len(channel) + 1
           /\ \A i \in 1..Len(channel) : channel'[i] = channel[i]
           /\ channel'[Len(channel) + 1] = msg
           /\ Queued' = Queued \cup {p \in Paths : Reports(msg, p)}
<1>1. /\ channel' \in Seq(Messages)
      /\ Len(channel') = Len(channel) + 1
      /\ \A i \in 1..Len(channel) : channel'[i] = channel[i]
      /\ channel'[Len(channel) + 1] = msg
      /\ Len(channel) \in Nat
  OBVIOUS
<1>2. ASSUME NEW p \in Paths
      PROVE  p \in Queued' <=> p \in Queued \/ Reports(msg, p)
  <2>1. ASSUME p \in Queued'
        PROVE  p \in Queued \/ Reports(msg, p)
    <3>1. PICK i \in 1..Len(channel') : Reports(channel'[i], p)
      BY <2>1 DEF Queued, Reports
    <3>2. i \in 1..Len(channel) \/ i = Len(channel) + 1
      BY <1>1, <3>1
    <3> QED BY <1>1, <3>1, <3>2 DEF Queued
  <2>2. ASSUME p \in Queued
        PROVE  p \in Queued'
    <3>1. PICK i \in 1..Len(channel) : Reports(channel[i], p)
      BY <2>2 DEF Queued
    <3>2. i \in 1..Len(channel') /\ Reports(channel'[i], p)
      BY <1>1, <3>1
    <3> QED BY <3>2 DEF Queued, Reports
  <2>3. ASSUME Reports(msg, p)
        PROVE  p \in Queued'
    <3>1. Len(channel) + 1 \in 1..Len(channel')
            /\ Reports(channel'[Len(channel) + 1], p)
      BY <1>1, <2>3
    <3> QED BY <3>1 DEF Queued, Reports
  <2> QED BY <2>1, <2>2, <2>3
<1>3. Queued \subseteq Paths /\ Queued' \subseteq Paths
  BY DEF Queued
<1> QED BY <1>1, <1>2, <1>3

\* Receiving one takes it from the front.
LEMMA Receiving ==
    ASSUME channel \in Seq(Messages), channel # <<>>,
           channel' = Tail(channel)
    PROVE  /\ channel' \in Seq(Messages)
           /\ Head(channel) \in Messages
           /\ Head(channel) = channel[1]
           /\ Len(channel') = Len(channel) - 1
           /\ \A i \in 1..Len(channel') : channel'[i] = channel[i + 1]
           /\ \A p \in Paths : p \in Queued =>
                p \in Queued' \/ Reports(Head(channel), p)
           /\ Queued' \subseteq Queued
<1>1. /\ channel' \in Seq(Messages)
      /\ Head(channel) \in Messages
      /\ Head(channel) = channel[1]
      /\ Len(channel') = Len(channel) - 1
      /\ \A i \in 1..Len(channel') : channel'[i] = channel[i + 1]
      /\ Len(channel) \in Nat \ {0}
  OBVIOUS
<1>2. ASSUME NEW p \in Paths, p \in Queued
      PROVE  p \in Queued' \/ Reports(Head(channel), p)
  <2>1. PICK i \in 1..Len(channel) : Reports(channel[i], p)
    BY <1>2 DEF Queued
  <2>2. CASE i = 1
    BY <1>1, <2>1, <2>2
  <2>3. CASE i # 1
    <3>1. i - 1 \in 1..Len(channel') /\ channel'[i - 1] = channel[i]
      BY <1>1, <2>1, <2>3
    <3> QED BY <2>1, <3>1 DEF Queued, Reports
  <2> QED BY <2>2, <2>3
<1>3. ASSUME NEW p \in Paths, p \in Queued'
      PROVE  p \in Queued
  <2>1. PICK i \in 1..Len(channel') : Reports(channel'[i], p)
    BY <1>3 DEF Queued, Reports
  <2>2. i + 1 \in 1..Len(channel) /\ Reports(channel[i + 1], p)
    BY <1>1, <2>1
  <2> QED BY <2>2 DEF Queued
<1>4. Queued \subseteq Paths /\ Queued' \subseteq Paths
  BY DEF Queued
<1> QED BY <1>1, <1>2, <1>3, <1>4

----------------------------------------------------------------------------
(* What the steps leave alone.                                             *)

Quiet ==
    \/ Bind
    \/ StartWatcher
    \/ RecvTimeout
    \/ FlushDone
    \/ Continue
    \/ Debounced
    \/ IdleTimeout

LEMMA QuietFrame ==
    ASSUME Quiet
    PROVE  UNCHANGED <<work, view, suspect, open, channel, pending, applying,
                       missed>>
BY DEF Quiet, Bind, StartWatcher, RecvTimeout, FlushDone, Continue, Debounced,
       IdleTimeout, index, loop

\* The tree changes and the watcher names p.
TreeStep(p) == MoveDirectory(p) \/ \E c \in Index!Content : Edit(p, c)

LEMMA TreeSteps ==
    ASSUME TypeOK, NEW p \in Paths, TreeStep(p)
    PROVE  /\ work' \in [Paths -> Index!Content]
           /\ p \in Changed
           /\ Tell(p)
<1>1. CASE MoveDirectory(p)
  BY <1>1, DaemonAssumption DEF MoveDirectory, Changed, Unfindable
<1>2. ASSUME NEW c \in Index!Content, Edit(p, c)
      PROVE  /\ work' \in [Paths -> Index!Content]
             /\ p \in Changed
             /\ Tell(p)
  BY <1>2 DEF Edit, Changed, TypeOK, Index!TypeOK
<1> QED BY <1>1, <1>2 DEF TreeStep

LEMMA TreeWork ==
    ASSUME TypeOK, NEW p \in Paths, TreeStep(p)
    PROVE  /\ work' \in [Paths -> Index!Content]
           /\ suspect' = suspect \cup Changed
           /\ suspect' \in SUBSET Paths
           /\ \A q \in Paths : q \notin Changed => work'[q] = work[q]
           /\ UNCHANGED <<view, open, dpc, pending, applying, timer, idle,
                          shutdown>>
BY TreeSteps DEF Tell, Changed, TypeOK, Index!TypeOK, loop

\* The watcher reports p, or every path that changed is missed.
LEMMA TreeChannel ==
    ASSUME TypeOK, NEW p \in Paths, TreeStep(p)
    PROVE  /\ channel' \in Seq(Messages)
           /\ channel' # channel => Watching
           /\ Len(channel) \in Nat
           /\ \A i \in 1..Len(channel) : channel'[i] = channel[i]
           /\ Queued \subseteq Queued'
           /\ p \in Changed
           /\ \/ /\ missed' = (missed \cup Changed) \ {p}
                 /\ Len(channel') = Len(channel) + 1
                 /\ Reports(channel'[Len(channel) + 1], p)
                 /\ \A q \in Paths \ {p} :
                      ~Reports(channel'[Len(channel) + 1], q)
                 /\ channel'[Len(channel) + 1].kind = "remove"
                      => work'[p] = Absent
                 /\ p \in Queued'
              \/ /\ missed' = missed \cup Changed
                 /\ \/ channel' = channel
                    \/ /\ Len(channel') = Len(channel) + 1
                       /\ \A q \in Paths :
                            ~Reports(channel'[Len(channel) + 1], q)
<1> USE DEF TypeOK
<1> DEFINE ev == [type |-> "fs", path |-> p, kind |-> Kind(work'[p])]
<1>1. p \in Changed /\ Tell(p)
  BY TreeSteps
<1>2. CASE ~Watching
  BY <1>1, <1>2 DEF Tell, Queued, Reports
<1>3. CASE Watching
  <2>1. ev \in Messages /\ (ev.kind = "remove" => work'[p] = Absent)
    BY FsMessage DEF Kind
  <2>2. channel' = Append(channel, ev)
    BY <1>1, <1>3 DEF Tell
  <2>3. /\ channel' \in Seq(Messages)
        /\ Len(channel') = Len(channel) + 1
        /\ \A i \in 1..Len(channel) : channel'[i] = channel[i]
        /\ channel'[Len(channel) + 1] = ev
        /\ Queued' = Queued \cup {q \in Paths : Reports(ev, q)}
    BY <2>1, <2>2, Sending
  <2>4. \A q \in Paths : Reports(ev, q) <=> q = p /\ p \notin Ignored
    BY DEF Reports
  <2>5. missed' = IF p \notin Ignored THEN (missed \cup Changed) \ {p}
                  ELSE missed \cup Changed
    BY <1>1, <1>3 DEF Tell
  <2> HIDE DEF ev
  <2> QED BY <1>1, <1>3, <2>1, <2>3, <2>4, <2>5
<1> QED BY <1>2, <1>3

LEMMA ConnectChannel ==
    ASSUME TypeOK, NEW r \in {"search", "shutdown"}, Connect(r)
    PROVE  /\ channel' \in Seq(Messages)
           /\ Len(channel) \in Nat
           /\ Len(channel') = Len(channel) + 1
           /\ \A i \in 1..Len(channel) : channel'[i] = channel[i]
           /\ \A q \in Paths : ~Reports(channel'[Len(channel) + 1], q)
           /\ Queued' = Queued
<1>1. [type |-> "conn", request |-> r] \in Messages
  BY ConnMessage
<1> QED BY <1>1, Sending DEF TypeOK, Connect, Reports

LEMMA RecordEffect ==
    ASSUME TypeOK, NEW msg \in Messages, msg.type = "fs"
    PROVE  /\ Record(msg) \in [Paths -> {"none", "changed", "removed"}]
           /\ \A p \in Paths :
                IF Reports(msg, p) /\ work[p] # Directory
                  THEN Record(msg)[p] =
                         IF msg.kind = "remove" \/ work[p] = Absent
                           THEN "removed" ELSE "changed"
                  ELSE Record(msg)[p] = pending[p]
BY EventFields DEF TypeOK, Record, Reports

----------------------------------------------------------------------------
(* One lemma for each part of the invariant.                               *)

\* The steps, as the proofs take them: Exit and Kill are both Stop.
LEMMA Steps ==
    ASSUME Next
    PROVE  \/ Quiet
           \/ \E p \in Paths : TreeStep(p)
           \/ \E r \in {"search", "shutdown"} : Connect(r)
           \/ OpenService
           \/ RecvEvent
           \/ RecvConn
           \/ FlushCheck
           \/ \E p \in Paths : Apply(p)
           \/ Stop
BY DEF Next, Outside, MainLoop, Exit, Kill, Quiet, TreeStep

LEMMA TypesStep ==
    ASSUME TypeOK, Next
    PROVE  TypeOK'
<1> USE DEF TypeOK, Index!TypeOK
<1>1. CASE Quiet
  BY <1>1 DEF Quiet, Bind, StartWatcher, RecvTimeout, FlushDone, Continue,
       Debounced, IdleTimeout, index, loop
<1>2. ASSUME NEW p \in Paths, TreeStep(p)
      PROVE  TypeOK'
  <2>1. work' \in [Paths -> Index!Content] /\ suspect' \in SUBSET Paths
    BY <1>2, TreeWork
  <2>2. channel' \in Seq(Messages) /\ missed' \in SUBSET Paths
    BY <1>2, TreeChannel DEF Changed
  <2> QED BY <1>2, <2>1, <2>2, TreeWork
<1>3. ASSUME NEW r \in {"search", "shutdown"}, Connect(r)
      PROVE  TypeOK'
  BY <1>3, ConnectChannel DEF Connect, index, loop
<1>4. CASE OpenService
  BY <1>4 DEF OpenService, Index!Publish, loop
<1>5. CASE RecvEvent
  BY <1>5, Receiving, RecordEffect DEF RecvEvent, index
<1>6. CASE RecvConn
  BY <1>6, Receiving DEF RecvConn, index
<1>7. CASE FlushCheck
  BY <1>7, NoChangeType DEF FlushCheck, index
<1>8. ASSUME NEW p \in Paths, Apply(p)
      PROVE  TypeOK'
  BY <1>8 DEF Apply, Index!Refresh, Index!Remove, Index!TextOf,
       Index!Content
<1>9. CASE Stop
  <2>1. Index!Nothing \in [Paths -> Index!Content]
    BY DEF Index!Nothing, Index!Content
  <2>2. <<>> \in Seq(Messages)
    OBVIOUS
  <2> QED BY <1>9, <2>1, <2>2, NoChangeType DEF Stop, Index!Close
<1> QED BY <1>1, <1>2, <1>3, <1>4, <1>5, <1>6, <1>7, <1>8, <1>9, Steps

LEMMA FreshStep ==
    ASSUME TypeOK, Index!Fresh, Next
    PROVE  Index!Fresh'
<1> USE DEF Index!Fresh, Index!AgreesOutside
<1>1. CASE UNCHANGED <<work, view, suspect, open>>
  BY <1>1 DEF Index!TextOf
<1>2. ASSUME NEW p \in Paths, TreeStep(p)
      PROVE  Index!Fresh'
  BY <1>2, TreeWork DEF TypeOK, Index!TypeOK, Index!TextOf
<1>4. CASE OpenService
  BY <1>4 DEF OpenService, Index!Publish
<1>8. ASSUME NEW p \in Paths, Apply(p)
      PROVE  Index!Fresh'
  BY <1>8 DEF Apply, Index!Refresh, Index!Remove, Index!TextOf, TypeOK,
       Index!TypeOK
<1>9. CASE Stop
  BY <1>9 DEF Stop, Index!Close
<1>10. CASE Quiet \/ RecvEvent \/ RecvConn \/ FlushCheck
             \/ \E r \in {"search", "shutdown"} : Connect(r)
  BY <1>10, <1>1, QuietFrame DEF RecvEvent, RecvConn, FlushCheck, Connect,
       index
<1> QED BY <1>2, <1>4, <1>8, <1>9, <1>10, Steps

LEMMA PhaseStep ==
    ASSUME TypeOK, PhaseInv, Next
    PROVE  PhaseInv'
<1> USE DEF PhaseInv
<1>1. CASE Quiet
  BY <1>1 DEF Quiet, Bind, StartWatcher, RecvTimeout, FlushDone, Continue,
       Debounced, IdleTimeout, index, loop, NoChange
<1>2. ASSUME NEW p \in Paths, TreeStep(p)
      PROVE  PhaseInv'
  BY <1>2, TreeWork, TreeChannel DEF Watching, NoChange
<1>3. ASSUME NEW r \in {"search", "shutdown"}, Connect(r)
      PROVE  PhaseInv'
  BY <1>3 DEF Connect, index, loop, NoChange
<1>4. CASE OpenService
  BY <1>4 DEF OpenService, Index!Publish, loop, NoChange
<1>5. CASE RecvEvent
  BY <1>5 DEF RecvEvent, index, NoChange
<1>6. CASE RecvConn
  BY <1>6 DEF RecvConn, index, NoChange
<1>7. CASE FlushCheck
  BY <1>7 DEF FlushCheck, index, NoChange
<1>8. ASSUME NEW p \in Paths, Apply(p)
      PROVE  PhaseInv'
  BY <1>8 DEF Apply, Index!Refresh, Index!Remove, NoChange
<1>9. CASE Stop
  BY <1>9 DEF Stop, Index!Close, NoChange, TypeOK, Index!TypeOK
<1> QED BY <1>1, <1>2, <1>3, <1>4, <1>5, <1>6, <1>7, <1>8, <1>9, Steps

\* Taking a message from the front keeps what it says of the others.
LEMMA ReceivedChannel ==
    ASSUME channel \in Seq(Messages), channel # <<>>,
           channel' = Tail(channel),
           UNCHANGED <<work, missed>>, ChannelInv
    PROVE  ChannelInv'
<1>1. Len(channel) \in Nat \ {0}
  OBVIOUS
<1>2. SUFFICES ASSUME NEW p \in Paths \ missed', NEW i \in 1..Len(channel'),
                      Reports(channel'[i], p), channel'[i].kind = "remove",
                      work'[p] \in Text
               PROVE  \E j \in 1..Len(channel') :
                        j > i /\ Reports(channel'[j], p)
  BY Zenon DEF ChannelInv, Reports
<1>3. p \in Paths \ missed /\ work[p] \in Text
  BY <1>2
<1>4. i + 1 \in 1..Len(channel) /\ channel'[i] = channel[i + 1]
  BY <1>1, Receiving
<1>5. PICK j \in 1..Len(channel) : j > i + 1 /\ Reports(channel[j], p)
  BY <1>2, <1>4, <1>3 DEF ChannelInv
<1>6. j - 1 \in 1..Len(channel') /\ channel'[j - 1] = channel[j] /\ j - 1 > i
  BY <1>1, <1>5, Receiving
<1> QED BY <1>5, <1>6

\* A message behind the others harms them only if it tells of a removal.
LEMMA SentChannel ==
    ASSUME NEW q \in Paths,
           Len(channel) \in Nat,
           \A i \in 1..Len(channel) : channel'[i] = channel[i],
           \/ channel' = channel
           \/ /\ Len(channel') = Len(channel) + 1
              /\ ~Reports(channel'[Len(channel) + 1], q),
           work'[q] = work[q],
           q \notin missed,
           ChannelInv
    PROVE  \A i \in 1..Len(channel') :
             Reports(channel'[i], q) /\ channel'[i].kind = "remove"
               /\ work'[q] \in Text =>
                 \E j \in 1..Len(channel') : j > i /\ Reports(channel'[j], q)
<1>1. SUFFICES ASSUME NEW i \in 1..Len(channel'),
                      Reports(channel'[i], q), channel'[i].kind = "remove",
                      work'[q] \in Text
               PROVE  \E j \in 1..Len(channel') :
                        j > i /\ Reports(channel'[j], q)
  OBVIOUS
<1>2. i \in 1..Len(channel)
  BY <1>1
<1>3. PICK j \in 1..Len(channel) : j > i /\ Reports(channel[j], q)
  BY <1>1, <1>2 DEF ChannelInv
<1>4. j \in 1..Len(channel') /\ channel'[j] = channel[j]
  BY <1>3
<1> QED BY <1>3, <1>4

LEMMA ChannelStep ==
    ASSUME TypeOK, PhaseInv, ChannelInv, Next
    PROVE  ChannelInv'
<1>1. CASE UNCHANGED <<work, channel, missed>>
  BY <1>1 DEF ChannelInv, Reports
<1>2. ASSUME NEW p \in Paths, TreeStep(p)
      PROVE  ChannelInv'
  <2>1. ASSUME NEW q \in Paths \ missed', NEW i \in 1..Len(channel'),
               Reports(channel'[i], q), channel'[i].kind = "remove",
               work'[q] \in Text
        PROVE  \E j \in 1..Len(channel') : j > i /\ Reports(channel'[j], q)
    <3>1. CASE q = p
      <4>1. /\ Len(channel) \in Nat
            /\ Len(channel') = Len(channel) + 1
            /\ Reports(channel'[Len(channel) + 1], p)
            /\ channel'[Len(channel) + 1].kind = "remove"
                 => work'[p] = Absent
        BY <1>2, <2>1, <3>1, TreeChannel
      <4>3. i < Len(channel) + 1
        BY <2>1, <3>1, <4>1, DaemonAssumption
      <4> QED BY <3>1, <4>1, <4>3
    <3>2. CASE q # p
      <4>1. /\ Len(channel) \in Nat
            /\ \A k \in 1..Len(channel) : channel'[k] = channel[k]
            /\ \/ channel' = channel
               \/ /\ Len(channel') = Len(channel) + 1
                  /\ ~Reports(channel'[Len(channel) + 1], q)
            /\ q \notin missed
        BY <1>2, <2>1, <3>2, TreeChannel DEF Reports
      <4>2. work'[q] = work[q]
        BY <1>2, <2>1, <3>2, TreeWork, TreeChannel
      <4> QED BY <2>1, <4>1, <4>2, SentChannel
    <3> QED BY <3>1, <3>2
  <2> QED BY <2>1 DEF ChannelInv, Reports
<1>3. ASSUME NEW r \in {"search", "shutdown"}, Connect(r)
      PROVE  ChannelInv'
  <2>1. work' = work /\ missed' = missed
    BY <1>3 DEF Connect
  <2>2. ASSUME NEW q \in Paths \ missed
        PROVE  \A i \in 1..Len(channel') :
                 Reports(channel'[i], q) /\ channel'[i].kind = "remove"
                   /\ work'[q] \in Text =>
                     \E j \in 1..Len(channel') :
                       j > i /\ Reports(channel'[j], q)
    BY <1>3, <2>1, ConnectChannel, SentChannel
  <2> QED BY <2>1, <2>2 DEF ChannelInv, Reports
<1>4. CASE OpenService \/ Stop
  <2>1. channel' = <<>>
    BY <1>4 DEF OpenService, Stop, PhaseInv
  <2>2. 1..Len(channel') = {}
    BY <2>1
  <2> QED BY <2>2 DEF ChannelInv
<1>5. CASE RecvEvent \/ RecvConn
  BY <1>5, ReceivedChannel DEF RecvEvent, RecvConn, TypeOK
<1>6. CASE Quiet \/ FlushCheck \/ \E p \in Paths : Apply(p)
  BY <1>1, <1>6, QuietFrame DEF FlushCheck, Apply, Index!Refresh,
     Index!Remove
<1> QED BY <1>2, <1>3, <1>4, <1>5, <1>6, Steps

LEMMA PendingStep ==
    ASSUME TypeOK, PhaseInv, ChannelInv, PendingInv, Next
    PROVE  PendingInv'
<1> USE DEF PendingInv
<1>1. CASE UNCHANGED <<work, channel, pending, applying, missed>>
  BY <1>1 DEF Queued, Reports
<1>2. ASSUME NEW p \in Paths, TreeStep(p)
      PROVE  PendingInv'
  <2>1. ASSUME NEW q \in Paths \ missed'
        PROVE  q \in Queued' \/ (q \notin missed /\ work'[q] = work[q])
    BY <1>2, <2>1, TreeChannel, TreeWork
  <2>2. Queued \subseteq Queued' /\ UNCHANGED <<pending, applying>>
    BY <1>2, TreeChannel, TreeWork
  <2> QED BY <2>1, <2>2
<1>3. ASSUME NEW r \in {"search", "shutdown"}, Connect(r)
      PROVE  PendingInv'
  BY <1>3, ConnectChannel DEF Connect, loop
<1>4. CASE OpenService \/ Stop
  <2>1. pending' = NoChange /\ applying' = NoChange
    BY <1>4 DEF OpenService, Stop, PhaseInv, loop
  <2> QED BY <2>1 DEF NoChange
<1>5. CASE RecvEvent
  <2>1. /\ channel \in Seq(Messages)
        /\ channel # <<>>
        /\ channel' = Tail(channel)
        /\ UNCHANGED <<work, missed, applying>>
        /\ pending' = Record(Head(channel))
        /\ applying = NoChange
        /\ Head(channel).type = "fs"
    BY <1>5 DEF RecvEvent, TypeOK, PhaseInv
  <2>2. SUFFICES ASSUME NEW p \in Paths \ missed,
                        pending'[p] = "removed", work[p] \in Text
                 PROVE  p \in Queued'
    BY <2>1 DEF NoChange
  <2>3. CASE Reports(Head(channel), p)
    <3>1. Head(channel).kind = "remove"
      BY <2>1, <2>2, <2>3, Receiving, RecordEffect, DaemonAssumption
      DEF Unfindable
    <3>2. /\ Len(channel) \in Nat \ {0}
          /\ Head(channel) = channel[1]
      BY <2>1
    <3>3. PICK j \in 1..Len(channel) : j > 1 /\ Reports(channel[j], p)
      BY <2>2, <2>3, <3>1, <3>2 DEF ChannelInv
    <3>4. j - 1 \in 1..Len(channel') /\ channel'[j - 1] = channel[j]
      BY <2>1, <3>2, <3>3, Receiving
    <3> QED BY <3>3, <3>4 DEF Queued, Reports
  <2>4. CASE ~Reports(Head(channel), p)
    <3>1. pending[p] = "removed"
      BY <2>1, <2>2, <2>4, Receiving, RecordEffect
    <3>2. p \in Queued
      BY <2>2, <3>1
    <3> QED BY <2>1, <2>4, <3>2, Receiving
  <2> QED BY <2>3, <2>4
<1>6. CASE RecvConn
  <2>1. /\ channel \in Seq(Messages)
        /\ channel # <<>>
        /\ channel' = Tail(channel)
        /\ UNCHANGED <<work, missed, applying, pending>>
        /\ Head(channel).type = "conn"
    BY <1>6 DEF RecvConn, TypeOK
  <2>2. \A p \in Paths : ~Reports(Head(channel), p)
    BY <2>1 DEF Reports
  <2>3. \A p \in Paths : p \in Queued => p \in Queued'
    BY <2>1, <2>2, Receiving
  <2> QED BY <2>1, <2>3
<1>7. CASE FlushCheck
  <2>1. UNCHANGED <<work, channel, missed>> /\ Queued' = Queued
    BY <1>7 DEF FlushCheck, Queued, Reports
  <2>2. CASE timer = "due"
    BY <1>7, <2>1, <2>2 DEF FlushCheck, NoChange
  <2>3. CASE timer # "due"
    BY <1>1, <1>7, <2>1, <2>3 DEF FlushCheck
  <2> QED BY <2>2, <2>3
<1>8. ASSUME NEW p \in Paths, Apply(p)
      PROVE  PendingInv'
  <2>1. UNCHANGED <<work, channel, pending, missed>> /\ Queued' = Queued
    BY <1>8 DEF Apply, Index!Refresh, Index!Remove, Queued, Reports
  <2>2. applying' = [applying EXCEPT ![p] = "none"]
    BY <1>8 DEF Apply
  <2> QED BY <2>1, <2>2 DEF TypeOK
<1>9. CASE Quiet
  BY <1>1, <1>9, QuietFrame
<1> QED BY <1>2, <1>3, <1>4, <1>5, <1>6, <1>7, <1>8, <1>9, Steps

LEMMA LostStep ==
    ASSUME TypeOK, PhaseInv, PendingInv, NoLostUpdate, Next
    PROVE  NoLostUpdate'
<1> USE DEF NoLostUpdate
<1>1. CASE UNCHANGED <<work, open, suspect, channel, pending, applying, missed>>
  BY <1>1 DEF Queued, Reports, Waiting, Directories
<1>2. ASSUME NEW p \in Paths, TreeStep(p)
      PROVE  NoLostUpdate'
  <2>1. /\ suspect' = suspect \cup Changed
        /\ UNCHANGED <<open, pending, applying>>
        /\ Directories \ Changed \subseteq Directories'
    BY <1>2, TreeWork DEF Directories
  <2>2. /\ Queued \subseteq Queued'
        /\ missed \cup Changed \subseteq Queued' \cup missed'
    BY <1>2, TreeChannel
  <2> QED BY <2>1, <2>2 DEF Waiting
<1>3. ASSUME NEW r \in {"search", "shutdown"}, Connect(r)
      PROVE  NoLostUpdate'
  BY <1>3, ConnectChannel DEF Connect, index, loop, Waiting, Directories
<1>4. CASE OpenService \/ Stop
  BY <1>4 DEF OpenService, Stop, Index!Close
<1>5. CASE RecvEvent
  <2>1. /\ channel \in Seq(Messages)
        /\ channel # <<>>
        /\ channel' = Tail(channel)
        /\ UNCHANGED <<work, open, suspect, missed, applying>>
        /\ pending' = Record(Head(channel))
        /\ Head(channel).type = "fs"
    BY <1>5 DEF RecvEvent, TypeOK, index
  <2>2. Waiting(pending) \subseteq Waiting(pending')
    BY <2>1, Receiving, RecordEffect DEF Waiting
  <2>3. Waiting(applying') = Waiting(applying)
    BY <2>1 DEF Waiting
  <2>4. ASSUME NEW p \in Queued
        PROVE  p \in Queued' \cup Waiting(pending') \cup Directories
    <3>1. p \in Paths
      BY DEF Queued
    <3>2. CASE Reports(Head(channel), p) /\ work[p] # Directory
      <4>1. pending'[p] # "none"
        BY <2>1, <3>1, <3>2, Receiving, RecordEffect
      <4> QED BY <3>1, <4>1 DEF Waiting
    <3>3. CASE ~Reports(Head(channel), p)
      BY <2>1, <2>4, <3>1, <3>3, Receiving
    <3>4. CASE work[p] = Directory
      BY <3>1, <3>4 DEF Directories
    <3> QED BY <3>2, <3>3, <3>4
  <2>5. (Waiting(pending))' = Waiting(pending')
          /\ (Waiting(applying))' = Waiting(applying')
          /\ Directories' = Directories
    BY <2>1 DEF Waiting, Directories
  <2> QED BY <2>1, <2>2, <2>3, <2>4, <2>5
<1>6. CASE RecvConn
  <2>1. /\ channel \in Seq(Messages)
        /\ channel # <<>>
        /\ channel' = Tail(channel)
        /\ UNCHANGED <<work, open, suspect, missed, applying, pending>>
        /\ Head(channel).type = "conn"
    BY <1>6 DEF RecvConn, TypeOK, index
  <2>2. \A p \in Paths : ~Reports(Head(channel), p)
    BY <2>1 DEF Reports
  <2>3. Queued \subseteq Queued'
    BY <2>1, <2>2, Receiving DEF Queued
  <2> QED BY <2>1, <2>3 DEF Waiting, Directories
<1>7. CASE FlushCheck
  <2>1. UNCHANGED <<work, open, suspect, channel, missed>> /\ Queued' = Queued
    BY <1>7 DEF FlushCheck, Queued, Reports, index
  <2>2. CASE timer = "due"
    <3>1. applying' = pending /\ applying = NoChange
      BY <1>7, <2>2 DEF FlushCheck, PhaseInv
    <3> QED BY <2>1, <3>1, NoChangeType DEF Waiting, Directories
  <2>3. CASE timer # "due"
    BY <1>1, <1>7, <2>1, <2>3 DEF FlushCheck
  <2> QED BY <2>2, <2>3
<1>8. ASSUME NEW p \in Paths, Apply(p)
      PROVE  NoLostUpdate'
  <2>1. UNCHANGED <<work, channel, pending, missed>> /\ Queued' = Queued
    BY <1>8 DEF Apply, Index!Refresh, Index!Remove, Queued, Reports
  <2>2. /\ applying' = [applying EXCEPT ![p] = "none"]
        /\ UNCHANGED open /\ open
    BY <1>8 DEF Apply, Index!Refresh, Index!Remove
  <2>3. Waiting(applying) \subseteq Waiting(applying') \cup {p}
    BY <2>2 DEF Waiting, TypeOK
  <2>4. \/ suspect' = suspect \ {p}
        \/ /\ suspect' = suspect \cup {p}
           /\ work[p] \in Text
           /\ applying[p] = "removed"
    BY <1>8 DEF Apply, Index!Refresh, Index!Remove
  <2>5. CASE suspect' = suspect \ {p}
    BY <2>1, <2>2, <2>3, <2>5 DEF Waiting, Directories
  <2>6. CASE /\ suspect' = suspect \cup {p}
             /\ work[p] \in Text
             /\ applying[p] = "removed"
    <3>1. p \in Queued \cup Waiting(pending) \cup missed
      BY <2>6 DEF PendingInv, Waiting
    <3> QED BY <2>1, <2>2, <2>3, <2>6, <3>1 DEF Waiting, Directories
  <2> QED BY <2>4, <2>5, <2>6
<1>9. CASE Quiet
  BY <1>1, <1>9, QuietFrame
<1> QED BY <1>2, <1>3, <1>4, <1>5, <1>6, <1>7, <1>8, <1>9, Steps

----------------------------------------------------------------------------
(* The invariant holds of every behaviour, and what follows from it.       *)

LEMMA InitIInv == Init => IInv
<1> SUFFICES ASSUME Init
             PROVE  IInv
  OBVIOUS
<1>1. TypeOK
  <2>1. Index!TypeOK
    BY DEF Init, Index!Init, Index!TypeOK, Index!Nothing, Index!Content
  <2>2. <<>> \in Seq(Messages)
    OBVIOUS
  <2> QED BY <2>1, <2>2, NoChangeType DEF Init, TypeOK
<1>2. Index!Fresh /\ NoLostUpdate
  BY DEF Init, Index!Init, Index!Fresh, NoLostUpdate
<1>3. PhaseInv
  BY DEF Init, Index!Init, PhaseInv
<1>4. ChannelInv /\ PendingInv
  <2>1. Paths \ missed = {}
    BY DEF Init
  <2> QED BY <2>1 DEF ChannelInv, PendingInv
<1> QED BY <1>1, <1>2, <1>3, <1>4 DEF IInv

LEMMA StepIInv == IInv /\ [Next]_vars => IInv'
<1> SUFFICES ASSUME IInv, [Next]_vars
             PROVE  IInv'
  OBVIOUS
<1> USE DEF IInv
<1>1. CASE Next
  BY <1>1, TypesStep, FreshStep, PhaseStep, ChannelStep, PendingStep, LostStep
<1>2. CASE UNCHANGED vars
  <2> USE <1>2 DEF vars, index, loop
  <2>1. TypeOK' /\ Index!Fresh' /\ PhaseInv'
    BY DEF TypeOK, Index!TypeOK, Index!Fresh, Index!AgreesOutside,
       Index!TextOf, PhaseInv, NoChange
  <2>2. ChannelInv' /\ PendingInv' /\ NoLostUpdate'
    BY DEF ChannelInv, PendingInv, NoLostUpdate, Queued, Reports, Waiting,
       Directories
  <2> QED BY <2>1, <2>2
<1> QED BY <1>1, <1>2

LEMMA Invariance == Spec => []IInv
BY InitIInv, StepIInv, PTL DEF Spec

(***************************************************************************)
(* Whatever happens, the daemon's state keeps its types: a message in the  *)
(* channel is one record_event or handle_conn understands, and what is     *)
(* pending is a change of a path.                                          *)
(***************************************************************************)
THEOREM DaemonTypeCorrect == Spec => []TypeOK
<1>1. IInv => TypeOK
  BY DEF IInv
<1> QED BY <1>1, Invariance, PTL

(***************************************************************************)
(* No change the watcher named is lost between the channel, the debounce   *)
(* and the flush of run_corpus, however events overtake each other, but    *)
(* where a directory now stands, whose events record_event passes over.    *)
(***************************************************************************)
THEOREM NoUpdateIsLost == Spec => []NoLostUpdate
<1>1. IInv => NoLostUpdate
  BY DEF IInv
<1> QED BY <1>1, Invariance, PTL

(***************************************************************************)
(* A daemon with nothing left to apply serves the tree as it is, on every  *)
(* path but those the watcher never named and those that are a directory.  *)
(***************************************************************************)
THEOREM CaughtUpIsFresh == Spec => []CaughtUpMeansFresh
<1>1. IInv => CaughtUpMeansFresh
  BY DEF IInv, NoLostUpdate, Index!Fresh, Index!AgreesOutside,
     CaughtUpMeansFresh, CaughtUp
<1> QED BY <1>1, Invariance, PTL

(***************************************************************************)
(* Every pending change has a flush ahead of it, and a flush that has begun*)
(* is not left half done.                                                  *)
(***************************************************************************)
THEOREM PendingIsFlushed == Spec => []PendingHasFlush
<1>1. IInv => PendingHasFlush
  BY NoChangeType DEF IInv, PhaseInv, PendingHasFlush
<1> QED BY <1>1, Invariance, PTL

=============================================================================
