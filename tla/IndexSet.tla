------------------------------ MODULE IndexSet ------------------------------
(***************************************************************************)
(* The layered text index of gitpixel-core: a base shard pinned to a       *)
(* commit, a delta shard covering base..HEAD, and an in-memory overlay of  *)
(* the dirty working tree (indexset.rs, delta.rs, overlay.rs).             *)
(*                                                                         *)
(* One process opens the index in the steps of IndexSet::open_or_build,    *)
(* one action per file it writes or Git command it runs, and may die       *)
(* between any two of them; the files under .gitpixel survive it.  The     *)
(* user edits, stages, commits and checks out at any moment.               *)
(*                                                                         *)
(* A shard is abstracted to the text each path is found by: a gram set     *)
(* stands for the content it was extracted from.  A file read from disk    *)
(* and a blob read from a commit are not indexed alike: see TextOf, BlobOf.*)
(***************************************************************************)
CONSTANTS
    Paths,
    Text,       \* what a regular file with some text in it says
    Links,      \* what a symbolic link says: the path it points to
    Empty,      \* a regular file of no bytes
    Binary,     \* a regular file no layer takes in: a NUL byte, oversize
    Absent,     \* no file
    Commits,    \* the commits the repository has or will have
    NoCommit,   \* no HEAD: not a repository, or Git could not be run
    Tree,       \* [Commits -> [Paths -> Content]], the object store
    None,       \* a file under .gitpixel that does not exist
    GitFails    \* the Git commands that may fail: pruned objects, a lock

Regular == Text \cup {Empty}
Content == Regular \cup Links \cup {Binary, Absent}

\* What a layer can hold for a path.
Indexed == Regular \cup Links \cup {Absent}

Shard == [oid : Commits \cup {NoCommit}, files : [Paths -> Indexed]]
DeltaState == [base_oid : Commits,
               delta_oid : Commits \cup {NoCommit},
               tombstones : SUBSET Paths]

ASSUME LayerAssumption ==
    /\ Text \cap Links = {}
    /\ {Empty, Binary, Absent} \cap (Text \cup Links) = {}
    /\ Empty # Binary /\ Empty # Absent /\ Binary # Absent
    /\ NoCommit \notin Commits
    /\ None \notin Shard
    /\ Tree \in [Commits -> [Paths -> Content]]
    /\ GitFails \subseteq {"rev-parse", "ls-files", "diff", "status"}

VARIABLES
    \* the repository
    work,           \* [Paths -> Content], the files on disk
    staged,         \* [Paths -> Content], the Git index
    conflicted,     \* paths in a delete/modify merge conflict (DU or UD)
    head,           \* the commit HEAD names, or NoCommit
    \* .gitpixel
    baseShard,      \* base.shard
    deltaShard,     \* delta.shard
    state,          \* state.json, a DeltaState
    baseSig,        \* base.sig, the signature of a plain walk
    \* the process
    pc,
    headSeen,       \* `head`, read once when the open starts
    statusHead,     \* history: the HEAD that git status compared against,
                    \* NoCommit if it has not run or has failed
    statusClash,    \* history: the paths git status gave as DU or UD, not
                    \* re-read since
    base,           \* self.base
    delta,          \* self.delta
    deltaTombs,     \* self.delta_tombstones
    ovFiles,        \* self.overlay.files, Absent where it has no entry
    ovTombs,        \* self.overlay.tombstones
    todo,           \* entries of git status not applied yet
    touched         \* history: paths changed since the open began or the
                    \* path was last re-read

repo == <<work, staged, conflicted, head>>
disk == <<baseShard, deltaShard, state, baseSig>>
memory == <<base, delta, deltaTombs, ovFiles, ovTombs>>
vars == <<repo, disk, pc, headSeen, statusHead, statusClash, memory, todo,
          touched>>

\* read_regular_bounded and the NUL sniff: what a file on disk is indexed by.
\* A symbolic link is refused.
TextOf(c) == IF c \in Regular THEN c ELSE Absent

\* extract_blob: what a committed path is indexed by.  `git show` prints the
\* target of a symbolic link, and an empty blob is left out.
BlobOf(c) == IF c \in Text \cup Links THEN c ELSE Absent

Nothing == [p \in Paths |-> Absent]

NoStatus == [refresh |-> {}, remove |-> {}]

Phases == {"closed", "base", "dropState", "build", "saveState", "saveSig",
           "reconcile", "saveDelta", "status", "overlay", "served"}

TypeOK ==
    /\ work \in [Paths -> Content]
    /\ staged \in [Paths -> Content]
    /\ conflicted \in SUBSET Paths
    /\ head \in Commits \cup {NoCommit}
    /\ baseShard \in Shard \cup {None}
    /\ deltaShard \in Shard \cup {None}
    /\ state \in DeltaState \cup {None}
    /\ baseSig \in [Paths -> Indexed] \cup {None}
    /\ pc \in Phases
    /\ headSeen \in Commits \cup {NoCommit}
    /\ statusHead \in Commits \cup {NoCommit}
    /\ statusClash \in SUBSET Paths
    /\ base \in Shard \cup {None}
    /\ delta \in Shard \cup {None}
    /\ deltaTombs \in SUBSET Paths
    /\ ovFiles \in [Paths -> Indexed]
    /\ ovTombs \in SUBSET Paths
    /\ todo \in [refresh : SUBSET Paths, remove : SUBSET Paths]
    /\ touched \in SUBSET Paths

----------------------------------------------------------------------------
(* What the code computes from Git and from the working tree.              *)

\* Mutant: the signature takes in the files the index leaves out.
RawSignature(w) == w

\* plain_signature: the files of the tree the walk indexes, with their
\* contents.
Signature(w) == [p \in Paths |-> TextOf(w[p])]

\* Mutant: the bytes are read from the working tree.
ShardOfWorkTree(oid, listed) ==
    [oid |-> oid,
     files |-> [p \in Paths |->
                  IF p \in listed THEN TextOf(work[p]) ELSE Absent]]

\* build_shard_from: a shard of the listed paths, every blob read from the
\* object store at `oid`; a path the commit lacks, or a binary or empty one,
\* is skipped.
ShardAt(oid, listed) ==
    [oid |-> oid,
     files |-> [p \in Paths |->
                  IF p \in listed THEN BlobOf(Tree[oid][p]) ELSE Absent]]

\* git_out: what a Git command prints, or nothing if it fails.
GitOut(command, output, nothing) ==
    {output} \cup (IF command \in GitFails THEN {nothing} ELSE {})

\* git rev-parse HEAD: every failure reads as "no repository".
RevParseHead == GitOut("rev-parse", head, NoCommit)

\* git ls-files: the paths of the Git index.
LsFiles == GitOut("ls-files", {p \in Paths : staged[p] # Absent}, {})

\* git diff --name-status --no-renames from..to, split by reconcile_delta.
Added(from, to) ==
    {p \in Paths : Tree[from][p] = Absent /\ Tree[to][p] # Absent}
Deleted(from, to) ==
    {p \in Paths : Tree[from][p] # Absent /\ Tree[to][p] = Absent}
Modified(from, to) ==
    {p \in Paths : /\ Tree[from][p] # Tree[to][p]
                   /\ Tree[from][p] # Absent
                   /\ Tree[to][p] # Absent}
ChangedPaths(from, to) == Added(from, to) \cup Modified(from, to)

Tombstones(from, to) == Deleted(from, to) \cup Modified(from, to)

\* What reconcile_delta makes of the diff.
Diffs(from, to) ==
    GitOut("diff",
           [changed |-> ChangedPaths(from, to),
            tombstones |-> Tombstones(from, to)],
           [changed |-> {}, tombstones |-> {}])

\* git status --porcelain: the paths with a line, and those whose XY has a D.
\* A path removed from the Git index but still on disk has two lines, "D "
\* and "??"; Git prints the untracked ones last.
Untracked == {p \in Paths : staged[p] = Absent /\ work[p] # Absent}
Dirty == {p \in Paths : \/ p \in conflicted
                        \/ staged[p] # Tree[head][p]
                        \/ work[p] # staged[p]}
StatusD == {p \in Paths : \/ p \in conflicted
                          \/ staged[p] = Absent /\ Tree[head][p] # Absent
                          \/ work[p] = Absent /\ staged[p] # Absent}

----------------------------------------------------------------------------
\* A clean checkout of some commit, or a directory without one.
Init ==
    /\ \/ /\ head \in Commits
          /\ staged = Tree[head]
          /\ work = Tree[head]
       \/ /\ head = NoCommit
          /\ staged = Nothing
          /\ work \in [Paths -> Content]
    /\ conflicted = {}
    /\ baseShard = None
    /\ deltaShard = None
    /\ state = None
    /\ baseSig = None
    /\ pc = "closed"
    /\ headSeen = NoCommit
    /\ statusHead = NoCommit
    /\ statusClash = {}
    /\ base = None
    /\ delta = None
    /\ deltaTombs = {}
    /\ ovFiles = Nothing
    /\ ovTombs = {}
    /\ todo = NoStatus
    /\ touched = {}

----------------------------------------------------------------------------
(* The user and Git.                                                       *)

\* Only an open under way, or an open index, has a promise to break.
Touch(S) == touched' = IF pc = "closed" THEN {} ELSE touched \cup S

EditFile(p, c) ==
    /\ c # work[p]
    /\ work' = [work EXCEPT ![p] = c]
    /\ Touch({p})
    /\ UNCHANGED <<staged, conflicted, head, disk, pc, headSeen, statusHead,
                   statusClash, memory, todo>>

\* git add, git rm --cached, git restore --staged
Stage(p) ==
    /\ staged' \in {[staged EXCEPT ![p] = c] :
                      c \in {work[p], Absent} \cup
                            (IF head = NoCommit THEN {} ELSE {Tree[head][p]})}
    /\ conflicted' = conflicted \ {p}
    /\ UNCHANGED <<work, head, disk, pc, headSeen, statusHead, statusClash,
                   memory, todo, touched>>

\* git commit (the commit's tree is the Git index) or git reset --soft
MoveHead(c) ==
    /\ conflicted = {}
    /\ c # head
    /\ head = NoCommit => Tree[c] = staged
    /\ head' = c
    /\ UNCHANGED <<work, staged, conflicted, disk, pc, headSeen, statusHead,
                   statusClash, memory, todo, touched>>

\* git checkout -f, git reset --hard: untracked files stay.
Checkout(c) ==
    /\ head # NoCommit
    /\ head' = c
    /\ staged' = Tree[c]
    /\ work' = [p \in Paths |->
                  IF staged[p] # Absent \/ Tree[c][p] # Absent
                    THEN Tree[c][p] ELSE work[p]]
    /\ conflicted' = {}
    /\ Touch({p \in Paths : work'[p] # work[p]})
    /\ UNCHANGED <<disk, pc, headSeen, statusHead, statusClash, memory,
                   todo>>

\* A merge in which one side deleted p and the other modified it: Git leaves
\* the modified file on disk, in its index, and marks it UD (they deleted it)
\* or DU (we had deleted it; c is their version).
ConflictOn(p, c) ==
    /\ head # NoCommit
    /\ p \notin conflicted
    /\ c \in Text
    /\ staged[p] = Tree[head][p]
    /\ work[p] = staged[p]
    /\ staged[p] \in {c, Absent}
    /\ work' = [work EXCEPT ![p] = c]
    /\ staged' = [staged EXCEPT ![p] = c]
    /\ conflicted' = conflicted \cup {p}
    /\ Touch({p} \cap {q \in Paths : work'[q] # work[q]})
    /\ UNCHANGED <<head, disk, pc, headSeen, statusHead, statusClash, memory,
                   todo>>

User ==
    \/ \E p \in Paths, c \in Content : EditFile(p, c) \/ ConflictOn(p, c)
    \/ \E p \in Paths : Stage(p)
    \/ \E c \in Commits : MoveHead(c) \/ Checkout(c)

\* base.shard is damaged, or was written by a version whose extractor had
\* another id: the next open does not read it.
LoseBase ==
    /\ pc = "closed"
    /\ baseShard # None
    /\ baseShard' = None
    /\ UNCHANGED <<repo, deltaShard, state, baseSig, pc, headSeen, statusHead,
                   statusClash, memory, todo, touched>>

----------------------------------------------------------------------------
(* IndexSet::open_or_build.                                                *)

OpenIndex ==
    /\ pc = "closed"
    /\ headSeen' \in RevParseHead
    /\ pc' = "base"
    /\ touched' = {}
    /\ UNCHANGED <<repo, disk, statusHead, statusClash, memory, todo>>

\* Mutant: a plain base is reused without its signature.
BaseUsableUnsigned ==
    /\ baseShard # None
    /\ headSeen # NoCommit => baseShard.oid # NoCommit

BaseUsable ==
    /\ baseShard # None
    /\ headSeen # NoCommit => baseShard.oid # NoCommit
    /\ headSeen = NoCommit /\ baseShard.oid = NoCommit =>
         baseSig = Signature(work)

ReuseBase ==
    /\ pc = "base"
    /\ BaseUsable
    /\ base' = baseShard
    /\ pc' = IF headSeen = NoCommit THEN "served"
             ELSE IF headSeen # baseShard.oid THEN "reconcile" ELSE "status"
    /\ UNCHANGED <<repo, disk, headSeen, statusHead, statusClash, delta,
                   deltaTombs, ovFiles, ovTombs, todo, touched>>

\* A base rebuild first deletes delta.shard, then state.json.
DropDelta ==
    /\ pc = "base"
    /\ ~BaseUsable
    /\ deltaShard' = None
    /\ pc' = "dropState"
    /\ UNCHANGED <<repo, baseShard, state, baseSig, headSeen, statusHead,
                   statusClash, memory, todo, touched>>

DropState ==
    /\ pc = "dropState"
    /\ state' = None
    /\ pc' = "build"
    /\ UNCHANGED <<repo, baseShard, deltaShard, baseSig, headSeen,
                   statusHead, statusClash, memory, todo, touched>>

\* Tracked paths, each with the bytes it has in the commit.
BuildGitBase ==
    /\ pc = "build"
    /\ headSeen # NoCommit
    /\ \E listed \in LsFiles : baseShard' = ShardAt(headSeen, listed)
    /\ base' = baseShard'
    /\ pc' = "saveState"
    /\ UNCHANGED <<repo, deltaShard, state, baseSig, headSeen, statusHead,
                   statusClash, delta, deltaTombs, ovFiles, ovTombs, todo,
                   touched>>

SaveBaseState ==
    /\ pc = "saveState"
    /\ state' = [base_oid |-> headSeen, delta_oid |-> NoCommit,
                 tombstones |-> {}]
    /\ pc' = "status"
    /\ UNCHANGED <<repo, baseShard, deltaShard, baseSig, headSeen,
                   statusHead, statusClash, memory, todo, touched>>

\* No repository: walk the directory (index::build) ...
BuildPlainBase ==
    /\ pc = "build"
    /\ headSeen = NoCommit
    /\ baseShard' = [oid |-> NoCommit, files |-> Signature(work)]
    /\ base' = baseShard'
    /\ pc' = "saveSig"
    /\ UNCHANGED <<repo, deltaShard, state, baseSig, headSeen, statusHead,
                   statusClash, delta, deltaTombs, ovFiles, ovTombs, todo,
                   touched>>

\* ... and sign the directory as it is once the shard has been written.
SavePlainSig ==
    /\ pc = "saveSig"
    /\ baseSig' = Signature(work)
    /\ pc' = "served"
    /\ UNCHANGED <<repo, baseShard, deltaShard, state, headSeen, statusHead,
                   statusClash, memory, todo, touched>>

\* reconcile_delta
DeltaUsable ==
    /\ state # None
    /\ deltaShard # None
    /\ state.base_oid = base.oid
    /\ state.delta_oid = headSeen

ReuseDelta ==
    /\ pc = "reconcile"
    /\ DeltaUsable
    /\ delta' = deltaShard
    /\ deltaTombs' = state.tombstones
    /\ pc' = "status"
    /\ UNCHANGED <<repo, disk, headSeen, statusHead, statusClash, base,
                   ovFiles, ovTombs, todo, touched>>

WriteDelta ==
    /\ pc = "reconcile"
    /\ ~DeltaUsable
    /\ \E diff \in Diffs(base.oid, headSeen) :
         /\ deltaShard' = IF diff.changed = {} THEN None
                          ELSE ShardAt(headSeen, diff.changed)
         /\ deltaTombs' = diff.tombstones
    /\ delta' = deltaShard'
    /\ pc' = "saveDelta"
    /\ UNCHANGED <<repo, baseShard, state, baseSig, headSeen, statusHead,
                   statusClash, base, ovFiles, ovTombs, todo, touched>>

\* Mutant: the state is pinned to HEAD on both sides.
SaveDeltaStateAtHead ==
    /\ pc = "saveDelta"
    /\ state' = [base_oid |-> headSeen, delta_oid |-> headSeen,
                 tombstones |-> deltaTombs]
    /\ pc' = "status"
    /\ UNCHANGED <<repo, baseShard, deltaShard, baseSig, headSeen,
                   statusHead, statusClash, memory, todo, touched>>

SaveDeltaState ==
    /\ pc = "saveDelta"
    /\ state' = [base_oid |-> base.oid, delta_oid |-> headSeen,
                 tombstones |-> deltaTombs]
    /\ pc' = "status"
    /\ UNCHANGED <<repo, baseShard, deltaShard, baseSig, headSeen,
                   statusHead, statusClash, memory, todo, touched>>

\* status_porcelain: a path whose XY holds a D is to be tombstoned, any other
\* line re-read; the untracked line of a path comes after its D line.
ReadStatus ==
    /\ pc = "status"
    /\ \/ /\ todo' = [refresh |-> Untracked \cup (Dirty \ StatusD),
                      remove |-> StatusD \ Untracked]
          /\ statusHead' = head
          /\ statusClash' = conflicted
       \/ /\ "status" \in GitFails
          /\ UNCHANGED <<todo, statusHead, statusClash>>
    /\ pc' = "overlay"
    /\ UNCHANGED <<repo, disk, headSeen, memory, touched>>

\* Overlay::refresh_file and Overlay::remove_file
OverlayRefresh(p) ==
    /\ ovTombs' = ovTombs \cup {p}
    /\ ovFiles' = [ovFiles EXCEPT ![p] = TextOf(work[p])]

OverlayRemove(p) ==
    /\ ovTombs' = ovTombs \cup {p}
    /\ ovFiles' = [ovFiles EXCEPT ![p] = Absent]

ApplyStatus(p) ==
    /\ pc = "overlay"
    /\ \/ /\ p \in todo.refresh
          /\ OverlayRefresh(p)
       \/ /\ p \in todo.remove
          /\ OverlayRemove(p)
    /\ todo' = [refresh |-> todo.refresh \ {p}, remove |-> todo.remove \ {p}]
    /\ UNCHANGED <<repo, disk, pc, headSeen, statusHead, statusClash, base,
                   delta, deltaTombs, touched>>

FinishOpen ==
    /\ pc = "overlay"
    /\ todo = NoStatus
    /\ pc' = "served"
    /\ UNCHANGED <<repo, disk, headSeen, statusHead, statusClash, memory,
                   todo, touched>>

----------------------------------------------------------------------------
(* The open index: the watcher's two calls, and the end of the process.    *)

RefreshFile(p) ==
    /\ pc = "served"
    /\ OverlayRefresh(p)
    /\ touched' = touched \ {p}
    /\ statusClash' = statusClash \ {p}
    /\ UNCHANGED <<repo, disk, pc, headSeen, statusHead, base,
                   delta, deltaTombs, todo>>

\* The watcher believes the file gone; the file may have come back since.
RemoveFile(p) ==
    /\ pc = "served"
    /\ OverlayRemove(p)
    /\ touched' = IF work[p] \in Regular THEN touched \cup {p} ELSE touched \ {p}
    /\ statusClash' = statusClash \ {p}
    /\ UNCHANGED <<repo, disk, pc, headSeen, statusHead, base,
                   delta, deltaTombs, todo>>

\* The process exits, or dies at any step of the open.
Exit ==
    /\ pc # "closed"
    /\ pc' = "closed"
    /\ headSeen' = NoCommit
    /\ statusHead' = NoCommit
    /\ statusClash' = {}
    /\ base' = None
    /\ delta' = None
    /\ deltaTombs' = {}
    /\ ovFiles' = Nothing
    /\ ovTombs' = {}
    /\ todo' = NoStatus
    /\ touched' = {}
    /\ UNCHANGED <<repo, disk>>

OpenOrBuild ==
    \/ OpenIndex
    \/ ReuseBase
    \/ DropDelta
    \/ DropState
    \/ BuildGitBase
    \/ SaveBaseState
    \/ BuildPlainBase
    \/ SavePlainSig
    \/ ReuseDelta
    \/ WriteDelta
    \/ SaveDeltaState
    \/ ReadStatus
    \/ \E p \in Paths : ApplyStatus(p)
    \/ FinishOpen

Watch == \E p \in Paths : RefreshFile(p) \/ RemoveFile(p)

Next == User \/ LoseBase \/ OpenOrBuild \/ Watch \/ Exit

Spec == Init /\ [][Next]_vars

----------------------------------------------------------------------------
(* Queries.                                                                *)

\* search_page_in: the paths verified against the files on disk for a
\* pattern that matches the content c.
Candidates(c) ==
    {p \in Paths :
       \/ base.files[p] = c /\ p \notin deltaTombs /\ p \notin ovTombs
       \/ delta # None /\ delta.files[p] = c /\ p \notin ovTombs
       \/ ovFiles[p] = c}

\* IndexSet::paths: the files the index takes to exist.
LivePaths ==
    {p \in Paths :
       \/ base.files[p] # Absent /\ p \notin deltaTombs /\ p \notin ovTombs
       \/ delta # None /\ delta.files[p] # Absent /\ p \notin ovTombs
       \/ ovFiles[p] # Absent}

\* The one content the layers give each path, the newest layer first.
LayerView ==
    [p \in Paths |->
       IF p \in ovTombs THEN ovFiles[p]
       ELSE IF delta # None /\ delta.files[p] # Absent THEN delta.files[p]
       ELSE IF p \in deltaTombs THEN Absent
       ELSE base.files[p]]

----------------------------------------------------------------------------
(* How an index that has just been opened can be wrong.  Each is a race or *)
(* a failure the code does not guard against; DeltaCoversHead and the      *)
(* README say more of the first.                                           *)

\* delta.shard was replaced and state.json was not.
TornDelta == delta # None /\ delta.oid # headSeen

\* git diff did not answer: base..HEAD was taken to be empty for p.
DiffLost(p) ==
    /\ headSeen # NoCommit
    /\ \/ p \in Tombstones(base.oid, headSeen) \ deltaTombs
       \/ delta = None /\ p \in ChangedPaths(base.oid, headSeen)

\* git status did not answer: the working tree was taken to be clean.
StatusLost == headSeen # NoCommit /\ statusHead = NoCommit

\* HEAD was read at the start and moved before git status compared with it.
HeadMoved == headSeen # NoCommit /\ statusHead \notin {headSeen, NoCommit}

\* Git did not answer over a base anchored to a commit: it is served as it is.
Unanchored == headSeen = NoCommit /\ base.oid # NoCommit

\* The base was built while p was staged for deletion, so ls-files hid it.
HiddenFromBase(p) ==
    /\ base.oid # NoCommit
    /\ base.files[p] = Absent
    /\ BlobOf(Tree[base.oid][p]) # Absent

\* p changed between the plain walk and the signature taken after it.
SignedLate(p) ==
    /\ headSeen = NoCommit
    /\ base.oid = NoCommit
    /\ baseSig \in [Paths -> Indexed]
    /\ base.files[p] # baseSig[p]

\* p is a symbolic link or an empty file, and no newer layer than a commit
\* holds it: a link is listed as if it were a file, and found by its target;
\* an empty file is not listed.
KeptAsBlob(p) ==
    /\ work[p] \in Links \cup {Empty}
    /\ LayerView[p] = BlobOf(work[p])

\* git status printed DU or UD for p, so its file was taken to be deleted.
ConflictHidden(p) == p \in statusClash

Excused(p) ==
    \/ ConflictHidden(p)
    \/ /\ p \notin ovTombs
       /\ \/ TornDelta
          \/ DiffLost(p)
          \/ StatusLost
          \/ HeadMoved
          \/ Unanchored
          \/ HiddenFromBase(p)
          \/ SignedLate(p)
          \/ KeptAsBlob(p)

(***************************************************************************)
(* An index that is being served finds every file whose text the user has  *)
(* not changed since the open began (or since the watcher re-read it), and *)
(* lists no other, except in the ways named above: whatever the user did   *)
(* before, wherever earlier processes died and whichever layers were       *)
(* reused.                                                                 *)
(***************************************************************************)
SearchComplete ==
    pc = "served" =>
      \A p \in Paths \ touched :
        ~Excused(p) =>
          /\ work[p] \in Text => p \in Candidates(work[p])
          /\ p \in LivePaths <=> work[p] \in Regular

(***************************************************************************)
(* state.json is whole: a state that names a delta carries the tombstones  *)
(* of base..delta (or none, if Git did not say), and that delta's shard,   *)
(* when it is on disk and has not been replaced, holds exactly what        *)
(* base..delta changed, also after a crash at any step.                    *)
(***************************************************************************)
StateMatchesDelta ==
    state # None /\ state.delta_oid # NoCommit =>
      /\ \E diff \in Diffs(state.base_oid, state.delta_oid) :
           state.tombstones = diff.tombstones
      /\ /\ deltaShard # None /\ baseShard # None
         /\ deltaShard.oid = state.delta_oid
         /\ baseShard.oid = state.base_oid
         => deltaShard = ShardAt(state.delta_oid,
                           ChangedPaths(state.base_oid, state.delta_oid))

(***************************************************************************)
(* A delta that is served covers the HEAD the index was opened at          *)
(* (delta.rs: "OID the delta shard covers"; indexset.rs: "Reuse a delta    *)
(* already pinned to this exact HEAD").  A crash between the write of      *)
(* delta.shard and the save of state.json breaks it.                       *)
(***************************************************************************)
DeltaCoversHead == pc = "served" /\ delta # None => delta.oid = headSeen

----------------------------------------------------------------------------
(* The refinement: while the index is served its layers give every path    *)
(* one view, and only touched or excused paths are suspect.                *)

View == IF pc = "served" THEN LayerView ELSE Nothing
Suspect == IF pc = "served" THEN touched \cup {p \in Paths : Excused(p)}
           ELSE Paths

Promise == INSTANCE SearchView
             WITH Text <- Regular, Unfindable <- Links \cup {Binary},
                  view <- View, suspect <- Suspect, open <- (pc = "served")

\* The layered index implements the promise of SearchView.
ImplementsSearchView == Promise!Spec

=============================================================================
