--------------------------- MODULE IndexSetProofs ---------------------------
(* Proofs about the layered index, for every set of paths, contents and    *)
(* commits and every history.                                              *)
EXTENDS IndexSet, TLAPS

----------------------------------------------------------------------------
(* The inductive invariant.                                                *)

\* A shard that carries a commit holds no text of the working tree.
ShardsAnchored ==
    \A s \in {baseShard, deltaShard} \ {None} :
      s.oid # NoCommit =>
        \A p \in Paths : s.files[p] \in {Absent, BlobOf(Tree[s.oid][p])}

\* The delta on disk is never older than the base: a base rebuild deletes it
\* first, and it holds exactly what changed between the base and its commit.
DiskInv ==
    /\ ShardsAnchored
    /\ state # None /\ state.delta_oid # NoCommit =>
         \E diff \in Diffs(state.base_oid, state.delta_oid) :
           state.tombstones = diff.tombstones
    /\ deltaShard # None /\ baseShard # None =>
         /\ baseShard.oid # NoCommit
         /\ deltaShard.oid # NoCommit
         /\ deltaShard = ShardAt(deltaShard.oid,
                                 ChangedPaths(baseShard.oid, deltaShard.oid))
    /\ pc \in {"dropState", "build", "saveState", "saveSig"} =>
         deltaShard = None

\* What the process holds at each step of the open.
PhaseInv ==
    /\ pc \in {"saveState", "saveSig", "reconcile", "saveDelta", "status",
               "overlay", "served"} => base = baseShard /\ base # None
    /\ pc \in {"saveState", "reconcile", "saveDelta", "status", "overlay"} =>
         headSeen # NoCommit /\ base.oid # NoCommit
    /\ pc = "saveState" => base.oid = headSeen
    /\ pc = "saveSig" => headSeen = NoCommit /\ base.oid = NoCommit
    /\ pc = "served" /\ headSeen # NoCommit =>
         base.oid # NoCommit
    /\ pc \notin {"overlay", "served"} => statusHead = NoCommit
    /\ headSeen # NoCommit => head # NoCommit

\* The committed layers, base and delta, once they are in memory.
LayerInv ==
    /\ pc \in {"closed", "base", "dropState", "build", "saveState", "saveSig",
               "reconcile"} => delta = None /\ deltaTombs = {}
    /\ delta # None =>
         /\ base.oid # NoCommit
         /\ delta.oid # NoCommit
         /\ delta = ShardAt(delta.oid, ChangedPaths(base.oid, delta.oid))
    /\ pc \in {"saveDelta", "status", "overlay", "served"}
         /\ headSeen # NoCommit =>
           \E diff \in Diffs(base.oid, headSeen) : deltaTombs = diff.tombstones
    /\ pc = "served" /\ headSeen = NoCommit => delta = None /\ deltaTombs = {}

\* The overlay and the lines of git status still to be applied.
OverlayInv ==
    /\ pc \notin {"overlay", "served"} => ovTombs = {}
    /\ pc # "overlay" => todo = NoStatus
    /\ \A p \in Paths \ ovTombs : ovFiles[p] = Absent
    /\ pc \in {"overlay", "served"} =>
         \A p \in Paths \ (touched \cup statusClash) :
           /\ p \in ovTombs => ovFiles[p] = TextOf(work[p])
           /\ p \in todo.remove => work[p] \notin Regular
           /\ /\ p \notin ovTombs
              /\ p \notin todo.refresh
              /\ p \notin todo.remove
              /\ headSeen # NoCommit
              /\ statusHead # NoCommit
              => work[p] = Tree[statusHead][p]

\* A plain base in use was signed over the files as they still are.
SignedInv ==
    pc = "served" /\ headSeen = NoCommit /\ base.oid = NoCommit =>
      /\ baseSig \in [Paths -> Indexed]
      /\ \A p \in Paths \ (touched \cup ovTombs) :
           baseSig[p] = TextOf(work[p])

IInv ==
    /\ TypeOK
    /\ DiskInv
    /\ PhaseInv
    /\ LayerInv
    /\ OverlayInv
    /\ SignedInv

----------------------------------------------------------------------------
(* Facts about the operators the layers are built from.                    *)

LEMMA TextOfIndexed ==
    \A c : TextOf(c) \in Indexed /\ TextOf(c) \in Content
BY DEF TextOf, Indexed, Content

LEMMA BlobOfIndexed == \A c : BlobOf(c) \in Indexed
BY DEF BlobOf, Indexed, Regular

LEMMA NothingType == Nothing \in [Paths -> Indexed]
BY DEF Nothing, Indexed

LEMMA NothingContent == Nothing \in [Paths -> Content]
BY DEF Nothing, Content

LEMMA SignatureType == \A w : Signature(w) \in [Paths -> Indexed]
BY TextOfIndexed DEF Signature

\* A shard built at a commit carries it, and is never mistaken for no shard.
LEMMA ShardAtType ==
    ASSUME NEW oid \in Commits, NEW listed
    PROVE  /\ ShardAt(oid, listed) \in Shard
           /\ ShardAt(oid, listed) # None
           /\ ShardAt(oid, listed).oid = oid
           /\ \A p \in Paths : ShardAt(oid, listed).files[p] =
                IF p \in listed THEN BlobOf(Tree[oid][p]) ELSE Absent
<1>1. [p \in Paths |-> IF p \in listed THEN BlobOf(Tree[oid][p]) ELSE Absent]
        \in [Paths -> Indexed]
  BY BlobOfIndexed DEF Indexed
<1>2. ShardAt(oid, listed) \in Shard
  BY <1>1 DEF ShardAt, Shard
<1> QED BY <1>2, LayerAssumption DEF ShardAt

LEMMA DiffTypes ==
    ASSUME NEW from, NEW to, NEW diff \in Diffs(from, to)
    PROVE  /\ diff.changed \in SUBSET Paths
           /\ diff.tombstones \in SUBSET Paths
           /\ diff.changed \in {{}, ChangedPaths(from, to)}
           /\ diff.tombstones \subseteq Tombstones(from, to)
BY DEF Diffs, GitOut, ChangedPaths, Tombstones, Added, Deleted, Modified

\* Between a commit and itself there is nothing to layer.
LEMMA EmptyDiff ==
    ASSUME NEW c
    PROVE  \E diff \in Diffs(c, c) : diff.tombstones = {}
<1>1. Tombstones(c, c) = {}
  BY DEF Tombstones, Deleted, Modified
<1>2. [changed |-> ChangedPaths(c, c), tombstones |-> Tombstones(c, c)]
        \in Diffs(c, c)
  BY DEF Diffs, GitOut
<1> QED BY <1>1, <1>2

----------------------------------------------------------------------------
(* Types.                                                                  *)

LEMMA InitTypes == Init => TypeOK
<1> SUFFICES ASSUME Init PROVE TypeOK
  OBVIOUS
<1>1. work \in [Paths -> Content] /\ staged \in [Paths -> Content]
  BY LayerAssumption, NothingContent DEF Init
<1>2. todo \in [refresh : SUBSET Paths, remove : SUBSET Paths]
  BY DEF Init, NoStatus
<1> QED BY <1>1, <1>2, NothingType DEF Init, TypeOK, Phases

LEMMA UserTypes ==
    ASSUME TypeOK, User
    PROVE  TypeOK'
<1> USE DEF TypeOK, Touch, repo, disk, memory
<1>1. ASSUME NEW p \in Paths, NEW c \in Content, EditFile(p, c)
      PROVE  TypeOK'
  BY <1>1 DEF EditFile
<1>2. ASSUME NEW p \in Paths, NEW c \in Content, ConflictOn(p, c)
      PROVE  TypeOK'
  BY <1>2 DEF ConflictOn
<1>3. ASSUME NEW p \in Paths, Stage(p)
      PROVE  TypeOK'
  <2>1. head # NoCommit => Tree[head][p] \in Content
    BY LayerAssumption
  <2>2. work[p] \in Content /\ Absent \in Content
    BY DEF Content
  <2>3. staged' \in [Paths -> Content]
    BY <1>3, <2>1, <2>2 DEF Stage
  <2> QED BY <1>3, <2>3 DEF Stage
<1>4. ASSUME NEW c \in Commits, MoveHead(c)
      PROVE  TypeOK'
  BY <1>4 DEF MoveHead
<1>5. ASSUME NEW c \in Commits, Checkout(c)
      PROVE  TypeOK'
  <2>1. Tree[c] \in [Paths -> Content]
    BY LayerAssumption
  <2>2. work' \in [Paths -> Content]
    BY <1>5, <2>1 DEF Checkout
  <2>3. touched' \in SUBSET Paths
    BY <1>5 DEF Checkout
  <2> QED BY <1>5, <2>1, <2>2, <2>3 DEF Checkout
<1> QED BY <1>1, <1>2, <1>3, <1>4, <1>5 DEF User

LEMMA OverlayTypes ==
    ASSUME TypeOK, NEW p \in Paths, OverlayRefresh(p) \/ OverlayRemove(p)
    PROVE  ovFiles' \in [Paths -> Indexed] /\ ovTombs' \in SUBSET Paths
<1>1. Absent \in Indexed
  BY DEF Indexed
<1> QED BY <1>1, TextOfIndexed DEF TypeOK, OverlayRefresh, OverlayRemove

LEMMA OpenTypes ==
    ASSUME TypeOK, PhaseInv, OpenOrBuild
    PROVE  TypeOK'
<1> USE DEF TypeOK, repo, disk, memory, Phases
<1>1. CASE OpenIndex
  BY <1>1 DEF OpenIndex, RevParseHead, GitOut
<1>2. CASE ReuseBase
  BY <1>2 DEF ReuseBase, BaseUsable
<1>3. CASE DropDelta
  BY <1>3 DEF DropDelta
<1>4. CASE DropState
  BY <1>4 DEF DropState
<1>5. CASE BuildGitBase
  <2>1. headSeen \in Commits
    BY <1>5 DEF BuildGitBase
  <2>2. baseShard' \in Shard
    BY <1>5, <2>1, ShardAtType DEF BuildGitBase
  <2> QED BY <1>5, <2>2 DEF BuildGitBase
<1>6. CASE SaveBaseState
  <2>1. headSeen \in Commits
    BY <1>6 DEF SaveBaseState, PhaseInv
  <2>2. state' \in DeltaState
    BY <1>6, <2>1 DEF SaveBaseState, DeltaState
  <2> QED BY <1>6, <2>2 DEF SaveBaseState
<1>7. CASE BuildPlainBase
  <2>1. baseShard' \in Shard
    BY <1>7, SignatureType DEF BuildPlainBase, Shard
  <2> QED BY <1>7, <2>1 DEF BuildPlainBase
<1>8. CASE SavePlainSig
  BY <1>8, SignatureType DEF SavePlainSig
<1>9. CASE ReuseDelta
  <2>1. state \in DeltaState
    BY <1>9 DEF ReuseDelta, DeltaUsable
  <2>2. state.tombstones \in SUBSET Paths
    BY <2>1 DEF DeltaState
  <2> QED BY <1>9, <2>2 DEF ReuseDelta
<1>10. CASE WriteDelta
  <2>1. headSeen \in Commits
    BY <1>10 DEF WriteDelta, PhaseInv
  <2>2. deltaShard' \in Shard \cup {None}
    BY <1>10, <2>1, ShardAtType DEF WriteDelta
  <2>3. deltaTombs' \in SUBSET Paths
    BY <1>10, DiffTypes DEF WriteDelta
  <2> QED BY <1>10, <2>2, <2>3 DEF WriteDelta
<1>11. CASE SaveDeltaState
  <2>1. headSeen \in Commits /\ base.oid \in Commits
    BY <1>11 DEF SaveDeltaState, PhaseInv, Shard
  <2>2. state' \in DeltaState
    BY <1>11, <2>1 DEF SaveDeltaState, DeltaState
  <2> QED BY <1>11, <2>2 DEF SaveDeltaState
<1>12. CASE ReadStatus
  <2>1. todo' \in [refresh : SUBSET Paths, remove : SUBSET Paths]
    BY <1>12 DEF ReadStatus, Untracked, Dirty, StatusD
  <2> QED BY <1>12, <2>1 DEF ReadStatus
<1>13. ASSUME NEW p \in Paths, ApplyStatus(p)
       PROVE  TypeOK'
  <2>1. ovFiles' \in [Paths -> Indexed] /\ ovTombs' \in SUBSET Paths
    BY <1>13, OverlayTypes DEF ApplyStatus
  <2>2. todo' \in [refresh : SUBSET Paths, remove : SUBSET Paths]
    BY <1>13 DEF ApplyStatus
  <2> QED BY <1>13, <2>1, <2>2 DEF ApplyStatus
<1>14. CASE FinishOpen
  BY <1>14 DEF FinishOpen
<1> QED BY <1>1, <1>2, <1>3, <1>4, <1>5, <1>6, <1>7, <1>8, <1>9, <1>10,
           <1>11, <1>12, <1>13, <1>14 DEF OpenOrBuild

LEMMA StepTypes ==
    ASSUME TypeOK, PhaseInv, [Next]_vars
    PROVE  TypeOK'
<1>1. CASE User
  BY <1>1, UserTypes
<1>2. CASE OpenOrBuild
  BY <1>2, OpenTypes
<1>3. ASSUME NEW p \in Paths, RefreshFile(p) \/ RemoveFile(p)
      PROVE  TypeOK'
  <2>1. ovFiles' \in [Paths -> Indexed] /\ ovTombs' \in SUBSET Paths
    BY <1>3, OverlayTypes DEF RefreshFile, RemoveFile
  <2> QED BY <1>3, <2>1 DEF RefreshFile, RemoveFile, TypeOK, repo, disk
<1>4. CASE Exit
  <2>1. todo' \in [refresh : SUBSET Paths, remove : SUBSET Paths]
    BY <1>4 DEF Exit, NoStatus
  <2> QED BY <1>4, <2>1, NothingType DEF Exit, TypeOK, repo, disk, Phases
<1>5. CASE UNCHANGED vars
  BY <1>5 DEF vars, repo, disk, memory, TypeOK
<1>6. CASE LoseBase
  BY <1>6 DEF LoseBase, TypeOK, repo, memory
<1> QED BY <1>1, <1>2, <1>3, <1>4, <1>5, <1>6 DEF Next, Watch

----------------------------------------------------------------------------
(* The user.                                                               *)

\* A user step touches exactly the paths whose content it changes.
LEMMA UserTouches ==
    ASSUME TypeOK, User, pc # "closed"
    PROVE  touched' = touched \cup {p \in Paths : work'[p] # work[p]}
<1> USE DEF TypeOK, Touch
<1>1. ASSUME NEW p \in Paths, NEW c \in Content, EditFile(p, c)
      PROVE  touched' = touched \cup {q \in Paths : work'[q] # work[q]}
  BY <1>1 DEF EditFile
<1>2. ASSUME NEW p \in Paths, NEW c \in Content, ConflictOn(p, c)
      PROVE  touched' = touched \cup {q \in Paths : work'[q] # work[q]}
  BY <1>2 DEF ConflictOn
<1>3. ASSUME NEW p \in Paths, Stage(p)
      PROVE  touched' = touched \cup {q \in Paths : work'[q] # work[q]}
  BY <1>3 DEF Stage
<1>4. ASSUME NEW c \in Commits, MoveHead(c) \/ Checkout(c)
      PROVE  touched' = touched \cup {q \in Paths : work'[q] # work[q]}
  BY <1>4 DEF MoveHead, Checkout
<1> QED BY <1>1, <1>2, <1>3, <1>4 DEF User

\* What a user step never changes.
LEMMA UserFrame ==
    ASSUME User
    PROVE  UNCHANGED <<disk, pc, headSeen, statusHead, statusClash, memory, todo>>
BY DEF User, EditFile, ConflictOn, Stage, MoveHead, Checkout

----------------------------------------------------------------------------
(* The files under .gitpixel.                                              *)

\* What the user and the overlay do touches no file of the index.
LEMMA DiskStep ==
    ASSUME IInv, [Next]_vars
    PROVE  DiskInv'
<1> USE DEF IInv, DiskInv, ShardsAnchored, disk, memory, repo
<1>1. CASE User
  BY <1>1 DEF User, EditFile, ConflictOn, Stage, MoveHead, Checkout
<1>2. CASE OpenIndex \/ ReuseBase \/ FinishOpen \/ ReuseDelta \/ ReadStatus
  BY <1>2 DEF OpenIndex, ReuseBase, FinishOpen, ReuseDelta, ReadStatus
<1>3. CASE DropDelta
  BY <1>3 DEF DropDelta
<1>4. CASE DropState
  BY <1>4 DEF DropState
<1>5. CASE BuildGitBase
  <2>1. headSeen \in Commits /\ deltaShard = None
    BY <1>5 DEF BuildGitBase, TypeOK
  <2>2. \A p \in Paths :
          baseShard'.files[p] \in {Absent, BlobOf(Tree[baseShard'.oid][p])}
    BY <1>5, <2>1, ShardAtType DEF BuildGitBase
  <2> QED BY <1>5, <2>1, <2>2 DEF BuildGitBase
<1>6. CASE SaveBaseState
  BY <1>6 DEF SaveBaseState
<1>7. CASE BuildPlainBase
  BY <1>7 DEF BuildPlainBase
<1>8. CASE SavePlainSig
  BY <1>8 DEF SavePlainSig
<1>9. CASE WriteDelta
  <2>1. /\ headSeen \in Commits
        /\ baseShard # None
        /\ base = baseShard
        /\ base.oid # NoCommit
    BY <1>9 DEF WriteDelta, PhaseInv, TypeOK
  <2>2. deltaShard' # None =>
          deltaShard' = ShardAt(headSeen, ChangedPaths(base.oid, headSeen))
    BY <1>9, DiffTypes DEF WriteDelta
  <2>3. deltaShard' # None =>
          /\ deltaShard'.oid = headSeen
          /\ \A p \in Paths :
               deltaShard'.files[p] \in {Absent, BlobOf(Tree[headSeen][p])}
    BY <2>1, <2>2, ShardAtType
  <2> QED BY <1>9, <2>1, <2>2, <2>3, LayerAssumption DEF WriteDelta
<1>10. CASE SaveDeltaState
  <2>1. \E diff \in Diffs(base.oid, headSeen) : deltaTombs = diff.tombstones
    BY <1>10 DEF SaveDeltaState, PhaseInv, LayerInv
  <2>2. state'.base_oid = base.oid /\ state'.delta_oid = headSeen
          /\ state'.tombstones = deltaTombs
    BY <1>10 DEF SaveDeltaState
  <2>3. UNCHANGED <<baseShard, deltaShard>> /\ pc' = "status"
    BY <1>10 DEF SaveDeltaState
  <2> QED BY <2>1, <2>2, <2>3
<1>11. ASSUME NEW p \in Paths, ApplyStatus(p) \/ RefreshFile(p) \/ RemoveFile(p)
       PROVE  DiskInv'
  BY <1>11 DEF ApplyStatus, RefreshFile, RemoveFile
<1>12. CASE Exit
  BY <1>12 DEF Exit
<1>13. CASE UNCHANGED vars
  BY <1>13 DEF vars
<1>14. CASE LoseBase
  BY <1>14 DEF LoseBase
<1> QED BY <1>1, <1>2, <1>3, <1>4, <1>5, <1>6, <1>7, <1>8, <1>9, <1>10,
           <1>11, <1>12, <1>13, <1>14 DEF Next, OpenOrBuild, Watch

----------------------------------------------------------------------------
(* What the process holds.                                                 *)

LEMMA PhaseStep ==
    ASSUME IInv, [Next]_vars
    PROVE  PhaseInv'
<1> USE DEF IInv, PhaseInv, disk, memory, repo
<1>1. CASE User
  <2>1. UNCHANGED <<baseShard, base, pc, headSeen, statusHead>>
    BY <1>1 DEF User, EditFile, ConflictOn, Stage, MoveHead, Checkout
  <2>2. head' # NoCommit \/ head' = head
    BY <1>1, LayerAssumption
    DEF User, EditFile, ConflictOn, Stage, MoveHead, Checkout
  <2> QED BY <2>1, <2>2
<1>2. CASE OpenIndex
  BY <1>2 DEF OpenIndex, RevParseHead, GitOut
<1>3. CASE ReuseBase
  BY <1>3 DEF ReuseBase, BaseUsable
<1>4. CASE DropDelta \/ DropState
  BY <1>4 DEF DropDelta, DropState
<1>5. CASE BuildGitBase
  <2>1. headSeen \in Commits
    BY <1>5 DEF BuildGitBase, TypeOK
  <2> QED BY <1>5, <2>1, ShardAtType DEF BuildGitBase
<1>6. CASE SaveBaseState
  BY <1>6 DEF SaveBaseState
<1>7. CASE BuildPlainBase
  <2>1. baseShard' \in Shard
    BY <1>7, SignatureType DEF BuildPlainBase, Shard
  <2> QED BY <1>7, <2>1, LayerAssumption DEF BuildPlainBase
<1>8. CASE SavePlainSig
  BY <1>8 DEF SavePlainSig
<1>9. CASE ReuseDelta \/ WriteDelta \/ SaveDeltaState
  BY <1>9 DEF ReuseDelta, WriteDelta, SaveDeltaState
<1>10. CASE ReadStatus
  BY <1>10 DEF ReadStatus
<1>11. CASE FinishOpen
  BY <1>11 DEF FinishOpen
<1>12. ASSUME NEW p \in Paths, ApplyStatus(p) \/ RefreshFile(p) \/ RemoveFile(p)
       PROVE  PhaseInv'
  BY <1>12 DEF ApplyStatus, RefreshFile, RemoveFile
<1>13. CASE Exit
  BY <1>13 DEF Exit
<1>14. CASE UNCHANGED vars
  BY <1>14 DEF vars
<1>15. CASE LoseBase
  BY <1>15 DEF LoseBase
<1> QED BY <1>1, <1>2, <1>3, <1>4, <1>5, <1>6, <1>7, <1>8, <1>9, <1>10,
           <1>11, <1>12, <1>13, <1>14, <1>15 DEF Next, OpenOrBuild, Watch

----------------------------------------------------------------------------
(* The committed layers in memory.                                         *)

LEMMA LayerStep ==
    ASSUME IInv, [Next]_vars
    PROVE  LayerInv'
<1> USE DEF IInv, LayerInv, disk, memory, repo
<1>1. CASE User
  <2>1. UNCHANGED <<pc, headSeen, base, delta, deltaTombs>>
    BY <1>1, UserFrame
  <2> QED BY <2>1
<1>2. CASE OpenIndex \/ DropDelta \/ DropState
  BY <1>2 DEF OpenIndex, DropDelta, DropState
<1>3. CASE ReuseBase
  BY <1>3, EmptyDiff DEF ReuseBase, BaseUsable, PhaseInv
<1>4. CASE BuildGitBase \/ BuildPlainBase \/ SavePlainSig
  BY <1>4 DEF BuildGitBase, BuildPlainBase, SavePlainSig, PhaseInv
<1>5. CASE SaveBaseState
  BY <1>5, EmptyDiff DEF SaveBaseState, PhaseInv
<1>6. CASE ReuseDelta
  <2>1. /\ state # None
        /\ state.base_oid = base.oid
        /\ state.delta_oid = headSeen
        /\ headSeen # NoCommit
        /\ base = baseShard
        /\ baseShard # None
        /\ deltaShard # None
    BY <1>6 DEF ReuseDelta, DeltaUsable, PhaseInv
  <2>2. \E diff \in Diffs(base.oid, headSeen) :
          state.tombstones = diff.tombstones
    BY <2>1 DEF DiskInv
  <2> QED BY <1>6, <2>1, <2>2 DEF ReuseDelta, DiskInv
<1>7. CASE WriteDelta
  <2>1. headSeen \in Commits /\ base.oid # NoCommit
    BY <1>7 DEF WriteDelta, PhaseInv, TypeOK
  <2>2. PICK diff \in Diffs(base.oid, headSeen) :
          /\ deltaTombs' = diff.tombstones
          /\ delta' = IF diff.changed = {} THEN None
                      ELSE ShardAt(headSeen, diff.changed)
    BY <1>7 DEF WriteDelta
  <2>3. delta' # None =>
          /\ delta' = ShardAt(headSeen, ChangedPaths(base.oid, headSeen))
          /\ delta'.oid = headSeen
    BY <2>1, <2>2, DiffTypes, ShardAtType
  <2>4. UNCHANGED <<base, headSeen>> /\ pc' = "saveDelta"
    BY <1>7 DEF WriteDelta
  <2> QED BY <2>1, <2>2, <2>3, <2>4, LayerAssumption
<1>8. CASE SaveDeltaState
  BY <1>8 DEF SaveDeltaState
<1>9. CASE ReadStatus \/ FinishOpen
  BY <1>9 DEF ReadStatus, FinishOpen, PhaseInv
<1>10. ASSUME NEW p \in Paths, ApplyStatus(p) \/ RefreshFile(p) \/ RemoveFile(p)
       PROVE  LayerInv'
  BY <1>10 DEF ApplyStatus, RefreshFile, RemoveFile
<1>11. CASE Exit
  BY <1>11 DEF Exit
<1>12. CASE UNCHANGED vars
  BY <1>12 DEF vars
<1>13. CASE LoseBase
  BY <1>13 DEF LoseBase
<1> QED BY <1>1, <1>2, <1>3, <1>4, <1>5, <1>6, <1>7, <1>8, <1>9, <1>10,
           <1>11, <1>12, <1>13 DEF Next, OpenOrBuild, Watch

----------------------------------------------------------------------------
(* The overlay.                                                            *)

\* A path without a line in git status has the content it has in HEAD; one
\* that is to be tombstoned has none, unless it is in a conflict.
LEMMA StatusSays ==
    ASSUME TypeOK, head \in Commits, NEW p \in Paths
    PROVE  /\ p \notin Untracked \cup (Dirty \ StatusD) /\ p \notin StatusD \ Untracked
                => work[p] = Tree[head][p]
           /\ p \in StatusD \ Untracked /\ p \notin conflicted
                => work[p] \notin Regular
BY LayerAssumption DEF Untracked, Dirty, StatusD, Regular

LEMMA OverlayStep ==
    ASSUME IInv, [Next]_vars
    PROVE  OverlayInv'
<1> USE DEF IInv, OverlayInv, disk, memory, repo
<1>1. CASE User
  <2>1. UNCHANGED <<pc, headSeen, statusHead, statusClash, ovFiles, ovTombs, todo>>
    BY <1>1, UserFrame
  <2>2. pc # "closed" =>
          touched' = touched \cup {p \in Paths : work'[p] # work[p]}
    BY <1>1, UserTouches
  <2> QED BY <2>1, <2>2
<1>2. CASE OpenIndex \/ DropDelta \/ DropState \/ BuildGitBase
             \/ SaveBaseState \/ BuildPlainBase \/ ReuseDelta \/ WriteDelta
             \/ SaveDeltaState
  BY <1>2 DEF OpenIndex, DropDelta, DropState, BuildGitBase, SaveBaseState,
              BuildPlainBase, ReuseDelta, WriteDelta, SaveDeltaState
<1>3. CASE ReuseBase
  BY <1>3 DEF ReuseBase, NoStatus
<1>4. CASE SavePlainSig
  BY <1>4 DEF SavePlainSig, NoStatus, PhaseInv
<1>5. CASE ReadStatus
  <2>1. head \in Commits
    BY <1>5 DEF ReadStatus, PhaseInv, TypeOK
  <2>2. CASE todo' = NoStatus /\ statusHead' = NoCommit
    BY <1>5, <2>2 DEF ReadStatus, NoStatus
  <2>3. CASE /\ todo' = [refresh |-> Untracked \cup (Dirty \ StatusD),
                         remove |-> StatusD \ Untracked]
             /\ statusHead' = head
             /\ statusClash' = conflicted
    BY <1>5, <2>1, <2>3, StatusSays DEF ReadStatus
  <2>4. statusHead = NoCommit /\ todo = NoStatus
    BY <1>5 DEF ReadStatus, PhaseInv
  <2> QED BY <1>5, <2>2, <2>3, <2>4 DEF ReadStatus
<1>6. ASSUME NEW p \in Paths, ApplyStatus(p)
      PROVE  OverlayInv'
  <2>1. CASE p \in todo.refresh /\ OverlayRefresh(p)
    BY <1>6, <2>1 DEF ApplyStatus, OverlayRefresh, TypeOK
  <2>2. CASE p \in todo.remove /\ OverlayRemove(p)
    BY <1>6, <2>2 DEF ApplyStatus, OverlayRemove, TypeOK, TextOf
  <2> QED BY <1>6, <2>1, <2>2 DEF ApplyStatus
<1>7. CASE FinishOpen
  BY <1>7 DEF FinishOpen, NoStatus
<1>8. ASSUME NEW p \in Paths, RefreshFile(p)
      PROVE  OverlayInv'
  <2>1. ovTombs' = ovTombs \cup {p} /\ ovFiles' \in [Paths -> Indexed]
    BY <1>8, OverlayTypes DEF RefreshFile, OverlayRefresh
  <2>2. /\ ovFiles'[p] = TextOf(work'[p])
        /\ \A q \in Paths \ {p} : ovFiles'[q] = ovFiles[q]
    BY <1>8 DEF RefreshFile, OverlayRefresh, TypeOK
  <2>3. /\ UNCHANGED <<work, pc, headSeen, statusHead, todo>>
        /\ pc = "served"
        /\ touched' = touched \ {p}
        /\ statusClash' = statusClash \ {p}
    BY <1>8 DEF RefreshFile
  <2> QED BY <2>1, <2>2, <2>3 DEF NoStatus
<1>9. ASSUME NEW p \in Paths, RemoveFile(p)
      PROVE  OverlayInv'
  BY <1>9 DEF RemoveFile, OverlayRemove, TypeOK, TextOf
<1>10. CASE Exit
  BY <1>10 DEF Exit, Nothing
<1>11. CASE UNCHANGED vars
  BY <1>11 DEF vars
<1>12. CASE LoseBase
  BY <1>12 DEF LoseBase
<1> QED BY <1>1, <1>2, <1>3, <1>4, <1>5, <1>6, <1>7, <1>8, <1>9, <1>10,
           <1>11, <1>12 DEF Next, OpenOrBuild, Watch

----------------------------------------------------------------------------
(* The signature of a plain base.                                          *)

LEMMA SignedStep ==
    ASSUME IInv, [Next]_vars
    PROVE  SignedInv'
<1> USE DEF IInv, SignedInv, disk, memory, repo
<1>1. CASE User
  <2>1. UNCHANGED <<pc, headSeen, base, baseSig, ovTombs>>
    BY <1>1, UserFrame
  <2>2. pc # "closed" =>
          touched' = touched \cup {p \in Paths : work'[p] # work[p]}
    BY <1>1, UserTouches
  <2> QED BY <2>1, <2>2
<1>2. CASE ReuseBase
  BY <1>2 DEF ReuseBase, BaseUsable, Signature, TextOf, Indexed
<1>3. CASE SavePlainSig
  BY <1>3 DEF SavePlainSig, Signature, TextOf, Indexed
<1>4. CASE FinishOpen
  BY <1>4 DEF FinishOpen, PhaseInv
<1>5. ASSUME NEW p \in Paths, RefreshFile(p) \/ RemoveFile(p)
      PROVE  SignedInv'
  BY <1>5 DEF RefreshFile, RemoveFile, OverlayRefresh, OverlayRemove
<1>6. CASE OpenIndex \/ DropDelta \/ DropState \/ BuildGitBase
             \/ SaveBaseState \/ BuildPlainBase \/ ReuseDelta \/ WriteDelta
             \/ SaveDeltaState \/ ReadStatus \/ Exit
             \/ \E p \in Paths : ApplyStatus(p)
  BY <1>6 DEF OpenIndex, DropDelta, DropState, BuildGitBase, SaveBaseState,
              BuildPlainBase, ReuseDelta, WriteDelta, SaveDeltaState,
              ReadStatus, Exit, ApplyStatus
<1>7. CASE UNCHANGED vars
  BY <1>7 DEF vars
<1>8. CASE LoseBase
  BY <1>8 DEF LoseBase
<1> QED BY <1>1, <1>2, <1>3, <1>4, <1>5, <1>6, <1>7, <1>8 DEF Next, OpenOrBuild, Watch

----------------------------------------------------------------------------
(* The invariant holds.                                                    *)

LEMMA InitIInv == Init => IInv
<1> SUFFICES ASSUME Init PROVE IInv
  OBVIOUS
<1>1. TypeOK
  BY InitTypes
<1>2. DiskInv
  BY DEF Init, DiskInv, ShardsAnchored
<1>3. PhaseInv /\ LayerInv /\ SignedInv
  BY DEF Init, PhaseInv, LayerInv, SignedInv
<1>4. OverlayInv
  BY DEF Init, OverlayInv, Nothing
<1> QED BY <1>1, <1>2, <1>3, <1>4 DEF IInv

LEMMA StepIInv == IInv /\ [Next]_vars => IInv'
<1> SUFFICES ASSUME IInv, [Next]_vars PROVE IInv'
  OBVIOUS
<1>1. TypeOK'
  BY StepTypes DEF IInv
<1>2. DiskInv' /\ PhaseInv' /\ LayerInv' /\ OverlayInv' /\ SignedInv'
  BY DiskStep, PhaseStep, LayerStep, OverlayStep, SignedStep
<1> QED BY <1>1, <1>2 DEF IInv

LEMMA Invariant == Spec => []IInv
BY InitIInv, StepIInv, PTL DEF Spec

----------------------------------------------------------------------------
(* What the layers of a served index hold.                                 *)

\* The base and the delta give a path the text it has in the commit the
\* index was opened at.
LEMMA CommittedText ==
    ASSUME IInv, pc = "served", headSeen # NoCommit, ~TornDelta,
           NEW p \in Paths, ~HiddenFromBase(p), ~DiffLost(p)
    PROVE  /\ delta # None /\ delta.files[p] # Absent =>
                delta.files[p] = BlobOf(Tree[headSeen][p])
           /\ p \in deltaTombs /\ (delta = None \/ delta.files[p] = Absent) =>
                BlobOf(Tree[headSeen][p]) = Absent
           /\ p \notin deltaTombs /\ (delta = None \/ delta.files[p] = Absent) =>
                base.files[p] = BlobOf(Tree[headSeen][p])
<1>1. /\ headSeen \in Commits
      /\ base \in Shard
      /\ base.oid \in Commits
  BY DEF IInv, TypeOK, PhaseInv, Shard
<1>2. base.files[p] = BlobOf(Tree[base.oid][p])
  BY <1>1, LayerAssumption
  DEF HiddenFromBase, IInv, PhaseInv, DiskInv, ShardsAnchored, TypeOK
<1>3. p \in deltaTombs <=> p \in Tombstones(base.oid, headSeen)
  BY DiffTypes DEF IInv, LayerInv, DiffLost
<1>4. delta = None => p \notin ChangedPaths(base.oid, headSeen)
  BY DEF DiffLost
<1>5. delta # None =>
        delta.files[p] = IF p \in ChangedPaths(base.oid, headSeen)
                           THEN BlobOf(Tree[headSeen][p]) ELSE Absent
  BY <1>1, ShardAtType DEF IInv, LayerInv, TornDelta
<1>6. p \notin ChangedPaths(base.oid, headSeen) =>
        \/ Tree[headSeen][p] = Tree[base.oid][p]
        \/ p \in Tombstones(base.oid, headSeen) /\ Tree[headSeen][p] = Absent
  BY DEF ChangedPaths, Tombstones, Added, Deleted, Modified
<1>7. p \in ChangedPaths(base.oid, headSeen)
        /\ p \notin Tombstones(base.oid, headSeen) =>
          Tree[base.oid][p] = Absent
  BY DEF ChangedPaths, Tombstones, Added, Deleted, Modified
<1>8. p \in Tombstones(base.oid, headSeen) =>
        \/ p \in ChangedPaths(base.oid, headSeen)
        \/ Tree[headSeen][p] = Absent
  BY DEF ChangedPaths, Tombstones, Added, Deleted, Modified
<1> QED BY <1>1, <1>2, <1>3, <1>4, <1>5, <1>6, <1>7, <1>8, LayerAssumption DEF BlobOf

\* Every path the user has not touched, and that is not excused, is held with
\* the text it has on disk.
LEMMA LayersAgree ==
    IInv /\ pc = "served" =>
      \A p \in Paths \ touched :
        ~Excused(p) => LayerView[p] = TextOf(work[p])
<1> SUFFICES ASSUME IInv, pc = "served",
                    NEW p \in Paths \ touched, ~Excused(p)
             PROVE  LayerView[p] = TextOf(work[p])
  OBVIOUS
<1>1. p \notin statusClash
  BY DEF Excused, ConflictHidden
<1>2. CASE p \in ovTombs
  BY <1>1, <1>2 DEF IInv, OverlayInv, LayerView
<1>3. CASE p \notin ovTombs /\ headSeen # NoCommit
  <2>1. /\ ~TornDelta /\ ~HiddenFromBase(p) /\ ~DiffLost(p)
        /\ statusHead = headSeen
    BY <1>3 DEF Excused, HeadMoved, StatusLost
  <2>2. todo = NoStatus
    BY DEF IInv, OverlayInv
  <2>3. work[p] = Tree[headSeen][p]
    BY <1>1, <1>3, <2>1, <2>2 DEF IInv, OverlayInv, NoStatus
  <2>4. LayerView[p] = BlobOf(work[p])
    BY <1>3, <2>1, <2>3, CommittedText, LayerAssumption DEF LayerView, BlobOf
  <2>5. work[p] \notin Links \cup {Empty}
    BY <1>3, <2>4 DEF Excused, KeptAsBlob
  <2> QED BY <2>4, <2>5 DEF TextOf, BlobOf, Regular
<1>4. CASE p \notin ovTombs /\ headSeen = NoCommit
  <2>1. base.oid = NoCommit
    BY <1>4 DEF Excused, Unanchored
  <2>2. baseSig \in [Paths -> Indexed] /\ baseSig[p] = TextOf(work[p])
    BY <1>4, <2>1 DEF IInv, SignedInv
  <2>4. base.files[p] = baseSig[p]
    BY <1>4, <2>1, <2>2 DEF Excused, SignedLate
  <2>3. delta = None /\ deltaTombs = {}
    BY <1>4 DEF IInv, LayerInv
  <2> QED BY <1>4, <2>2, <2>3, <2>4 DEF LayerView
<1> QED BY <1>2, <1>3, <1>4

\* A file is verified for a pattern that matches the text it is held with.
LEMMA ViewIsSearched ==
    ASSUME NEW p \in Paths, LayerView[p] # Absent
    PROVE  p \in Candidates(LayerView[p])
BY DEF LayerView, Candidates

LEMMA ViewIsListed ==
    ASSUME OverlayInv, NEW p \in Paths
    PROVE  p \in LivePaths <=> LayerView[p] # Absent
BY DEF OverlayInv, LayerView, LivePaths

----------------------------------------------------------------------------
(* The theorems.                                                           *)

\* Every variable keeps its type: what is under .gitpixel is always a shard
\* or a state the next open can read, wherever earlier processes died.
THEOREM TypeCorrect == Spec => []TypeOK
<1>1. IInv => TypeOK
  BY DEF IInv
<1> QED BY <1>1, Invariant, PTL

\* A saved delta state carries the tombstones of its two commits, and the
\* delta shard it names, if it is the one on disk, what changed between them.
THEOREM StateStaysWhole == Spec => []StateMatchesDelta
<1>1. IInv => StateMatchesDelta
  BY DEF IInv, DiskInv, StateMatchesDelta
<1> QED BY <1>1, Invariant, PTL

\* A served index finds every text file the user has not changed since it was
\* opened or re-read, and lists no other file, except in the named races.
THEOREM SearchIsComplete == Spec => []SearchComplete
<1>1. IInv => SearchComplete
  <2> SUFFICES ASSUME IInv, pc = "served",
                      NEW p \in Paths \ touched, ~Excused(p)
               PROVE  /\ work[p] \in Text => p \in Candidates(work[p])
                      /\ p \in LivePaths <=> work[p] \in Regular
    BY DEF SearchComplete
  <2>1. LayerView[p] = TextOf(work[p])
    BY LayersAgree
  <2>2. LayerView[p] # Absent => p \in Candidates(LayerView[p])
    BY ViewIsSearched
  <2>3. p \in LivePaths <=> LayerView[p] # Absent
    BY ViewIsListed DEF IInv
  <2> QED BY <2>1, <2>2, <2>3, LayerAssumption DEF TextOf, Regular
<1> QED BY <1>1, Invariant, PTL

----------------------------------------------------------------------------
(* The layered index implements SearchView.                                *)

LEMMA ViewType ==
    ASSUME IInv
    PROVE  View \in [Paths -> Content] /\ Suspect \in SUBSET Paths
<1>1. CASE pc = "served"
  <2>1. base \in Shard /\ delta \in Shard \cup {None}
    BY <1>1 DEF IInv, TypeOK, PhaseInv
  <2>2. \A p \in Paths : LayerView[p] \in Content
    <3>1. Indexed \subseteq Content /\ Absent \in Content
      BY DEF Indexed, Content
    <3>2. /\ base.files \in [Paths -> Indexed]
          /\ delta # None => delta.files \in [Paths -> Indexed]
      BY <2>1 DEF Shard
    <3> QED BY <3>1, <3>2 DEF IInv, TypeOK, LayerView
  <2>3. LayerView \in [Paths -> Content]
    BY <2>2 DEF LayerView
  <2> QED BY <1>1, <2>3 DEF View, Suspect, IInv, TypeOK
<1>2. CASE pc # "served"
  BY <1>2, NothingContent DEF View, Suspect
<1> QED BY <1>1, <1>2

\* What the invariant says of the view, as a state predicate: a step that
\* publishes needs it of the next state.
ViewAgrees ==
    /\ View \in [Paths -> Content]
    /\ Suspect \in SUBSET Paths
    /\ pc = "served" =>
         \A p \in Paths \ Suspect : View[p] = TextOf(work[p])

LEMMA InvariantAgrees == IInv => ViewAgrees
<1>1. IInv /\ pc = "served" =>
        \A p \in Paths \ Suspect : View[p] = TextOf(work[p])
  BY LayersAgree DEF View, Suspect
<1> QED BY <1>1, ViewType DEF ViewAgrees

LEMMA InvariantAgreesNext == IInv' => ViewAgrees'
BY InvariantAgrees, PTL

\* An open that ends publishes an index that is right wherever nothing is
\* suspect.
LEMMA PublishStep ==
    ASSUME IInv', pc # "served", pc' = "served", work' = work
    PROVE  Promise!Publish
<1>1. /\ View' \in [Paths -> Content]
      /\ Suspect' \in SUBSET Paths
      /\ \A p \in Paths \ Suspect' : View'[p] = TextOf(work[p])
  BY InvariantAgreesNext DEF ViewAgrees
<1> QED BY <1>1
        DEF Promise!Publish, Promise!AgreesOutside, Promise!TextOf, TextOf,
            Promise!Content, Content, Regular

LEMMA UserSimulates ==
    ASSUME IInv, IInv', User
    PROVE  Promise!Change
<1>1. UNCHANGED <<disk, pc, headSeen, statusHead, statusClash, memory, todo>>
  BY UserFrame
<1>2. work' \in [Paths -> Promise!Content]
  BY DEF IInv, TypeOK, Content, Promise!Content, Regular
<1>3. View' = View
  BY <1>1 DEF View, LayerView, memory
<1>4. \A p \in Paths : work'[p] = work[p] =>
        (Excused(p)' <=> Excused(p))
  BY <1>1 DEF Excused, ConflictHidden, TornDelta, DiffLost, StatusLost,
              HeadMoved, Unanchored,
              HiddenFromBase, SignedLate, KeptAsBlob, LayerView, disk, memory
<1>5. Suspect' = Suspect \cup {p \in Paths : work'[p] # work[p]}
  <2>1. CASE pc = "served"
    <3>1. touched' = touched \cup {p \in Paths : work'[p] # work[p]}
      BY <2>1, UserTouches DEF IInv
    <3> QED BY <1>1, <1>4, <2>1, <3>1 DEF Suspect
  <2>2. CASE pc # "served"
    BY <1>1, <2>2 DEF Suspect
  <2> QED BY <2>1, <2>2
<1> QED BY <1>1, <1>2, <1>3, <1>5 DEF Promise!Change

LEMMA RereadSimulates ==
    ASSUME IInv, NEW p \in Paths, RefreshFile(p) \/ RemoveFile(p)
    PROVE  Promise!Refresh(p) \/ Promise!Remove(p)
<1>1. /\ pc = "served" /\ pc' = "served"
      /\ UNCHANGED <<work, headSeen, statusHead, base, delta, deltaTombs,
                     baseSig>>
      /\ ovTombs' = ovTombs \cup {p}
      /\ statusClash' = statusClash \ {p}
  BY DEF RefreshFile, RemoveFile, OverlayRefresh, OverlayRemove, repo, disk
<1>2. /\ ~Excused(p)'
      /\ \A q \in Paths \ {p} : Excused(q)' <=> Excused(q)
  BY <1>1 DEF Excused, ConflictHidden, TornDelta, DiffLost, StatusLost,
              HeadMoved, Unanchored,
              HiddenFromBase, SignedLate, KeptAsBlob, LayerView
<1>3. ASSUME NEW c, ovFiles' = [ovFiles EXCEPT ![p] = c]
      PROVE  View' = [View EXCEPT ![p] = c]
  BY <1>1, <1>3 DEF View, LayerView, IInv, TypeOK
<1>4. CASE RefreshFile(p)
  <2>1. View' = [View EXCEPT ![p] = TextOf(work[p])]
    BY <1>3, <1>4 DEF RefreshFile, OverlayRefresh
  <2>2. Suspect' = Suspect \ {p}
    BY <1>1, <1>2, <1>4 DEF Suspect, RefreshFile
  <2> QED BY <1>1, <2>1, <2>2 DEF Promise!Refresh, Promise!TextOf, TextOf
<1>5. CASE RemoveFile(p)
  <2>1. View' = [View EXCEPT ![p] = Absent]
    BY <1>3, <1>5 DEF RemoveFile, OverlayRemove
  <2>2. Suspect' = IF work[p] \in Regular THEN Suspect \cup {p}
                   ELSE Suspect \ {p}
    BY <1>1, <1>2, <1>5 DEF Suspect, RemoveFile
  <2> QED BY <1>1, <2>1, <2>2 DEF Promise!Remove
<1> QED BY <1>4, <1>5

LEMMA OpenSimulates ==
    ASSUME IInv, IInv', OpenOrBuild
    PROVE  Promise!Publish \/ UNCHANGED Promise!vars
<1>1. pc # "served" /\ work' = work
  BY DEF OpenOrBuild, OpenIndex, ReuseBase, DropDelta, DropState,
         BuildGitBase, SaveBaseState, BuildPlainBase, SavePlainSig,
         ReuseDelta, WriteDelta, SaveDeltaState, ReadStatus, ApplyStatus,
         FinishOpen, repo
<1>2. CASE pc' = "served"
  BY <1>1, <1>2, PublishStep
<1>3. CASE pc' # "served"
  BY <1>1, <1>3 DEF Promise!vars, View, Suspect
<1> QED BY <1>2, <1>3

LEMMA StepSimulates ==
    IInv /\ IInv' /\ [Next]_vars => [Promise!Next]_(Promise!vars)
<1> SUFFICES ASSUME IInv, IInv', [Next]_vars
             PROVE  Promise!Next \/ UNCHANGED Promise!vars
  OBVIOUS
<1>1. CASE User
  BY <1>1, UserSimulates DEF Promise!Next
<1>2. CASE OpenOrBuild
  BY <1>2, OpenSimulates DEF Promise!Next
<1>3. CASE Watch
  BY <1>3, RereadSimulates DEF Watch, Promise!Next
<1>4. CASE Exit
  BY <1>4 DEF Exit, Promise!Next, Promise!Close, Promise!Nothing, Nothing,
              Promise!vars, View, Suspect, repo
<1>5. CASE LoseBase
  BY <1>5 DEF LoseBase, Promise!vars, View, Suspect, repo
<1>6. CASE UNCHANGED vars
  <2>1. UNCHANGED <<work, pc, View, Suspect>>
    BY <1>6 DEF vars, repo, disk, memory, View, LayerView, Suspect, Excused,
                ConflictHidden, TornDelta, DiffLost, StatusLost,
              HeadMoved, Unanchored,
                HiddenFromBase, SignedLate, KeptAsBlob, LayerView
  <2> QED BY <2>1 DEF Promise!vars
<1> QED BY <1>1, <1>2, <1>3, <1>4, <1>5, <1>6 DEF Next

\* The layered index, whatever its layers and whatever crashes, implements
\* the index that has a single view of the tree.
THEOREM ImplementsPromise == Spec => ImplementsSearchView
<1>1. Init => Promise!Init
  <2> SUFFICES ASSUME Init PROVE Promise!Init
    OBVIOUS
  <2>1. work \in [Paths -> Promise!Content]
    BY InitTypes DEF TypeOK, Content, Promise!Content, Regular
  <2> QED BY <2>1 DEF Init, Promise!Init, Promise!Nothing, Nothing, View,
                      Suspect
<1>2. IInv /\ IInv' /\ [Next]_vars => [Promise!Next]_(Promise!vars)
  BY StepSimulates
<1> QED BY <1>1, <1>2, Invariant, PTL
        DEF Spec, ImplementsSearchView, Promise!Spec

=============================================================================
