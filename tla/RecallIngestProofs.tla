------------------------- MODULE RecallIngestProofs -------------------------
(***************************************************************************)
(* RecallIngest for every set of ingesters, units and conversations.       *)
(*                                                                         *)
(* Store holds between any two transactions of store.rs: the ties between  *)
(* its tables, and Kin, which says where the row ids of sessions may come  *)
(* back.  Job says what a pass holds; with them IngestInv gives the types  *)
(* and the links.                                                          *)
(*                                                                         *)
(* RecordedInv says of every file what the store has of the recorded       *)
(* lines.  What makes it inductive is that a text is written once: as long *)
(* as every recorded text is on some disk the recorded lines begin their   *)
(* file (Follows), so a pass that reads the file again reads them again.   *)
(*                                                                         *)
(* AccountedInv adds what the store has of units that nobody writes.  What *)
(* makes it inductive is their times: a unit that has the time it was      *)
(* discovered with was not written since (FreshInv), so what was parsed is *)
(* what is there.                                                          *)
(***************************************************************************)
EXTENDS RecallIngest, SetsOfNumbers, FiniteSetTheorems, SequenceTheorems, TLAPS

----------------------------------------------------------------------------
(* Tables.                                                                 *)

\* The last id of a table is the greatest, and every id is a positive number.
LEMMA LastIdFound ==
    ASSUME NEW rows, Numbered(rows)
    PROVE  /\ LastId(rows) \in Nat
           /\ LastId(rows) \in DOMAIN rows \cup {0}
           /\ \A id \in DOMAIN rows : id \in Nat \ {0} /\ id <= LastId(rows)
<1>1. LastId(rows) = Max(DOMAIN rows \cup {0})
  BY Zenon DEF LastId
<1> QED BY <1>1, GreatestRow

LEMMA WithoutRows ==
    ASSUME NEW rows, NEW ids
    PROVE  /\ DOMAIN Without(rows, ids) = DOMAIN rows \ ids
           /\ \A id \in DOMAIN rows \ ids : Without(rows, ids)[id] = rows[id]
  BY DEF Without

LEMMA WithRows ==
    ASSUME NEW rows, NEW more
    PROVE  /\ DOMAIN With(rows, more) = DOMAIN rows \cup DOMAIN more
           /\ \A id \in DOMAIN more : With(rows, more)[id] = more[id]
           /\ \A id \in DOMAIN rows \ DOMAIN more : With(rows, more)[id] = rows[id]
  BY DEF With

----------------------------------------------------------------------------
(* Sequences and what begins them.                                         *)

\* A function on an initial segment is a sequence.
LEMMA ListedSeq ==
    ASSUME NEW S, NEW n \in Nat, NEW f \in [1..n -> S]
    PROVE  f \in Seq(S) /\ Len(f) = n
<1>1. f \in Seq(S)
  BY SeqDef
<1>2. Len(f) \in Nat /\ DOMAIN f = 1..Len(f)
  BY <1>1, LenProperties
<1>3. 1..Len(f) = 1..n
  BY <1>2
<1>4. Len(f) = n
  <2>1. CASE n = 0
    BY <1>2, <1>3, <2>1
  <2>2. CASE n > 0
    <3>1. n \in 1..Len(f)
      BY <1>3, <2>2
    <3>2. Len(f) \in 1..n
      BY <1>2, <1>3, <3>1
    <3> QED BY <1>2, <3>1, <3>2
  <2> QED BY <2>1, <2>2
<1> QED BY <1>1, <1>4

\* What IsPrefix says, place by place, and what follows the beginning.
LEMMA PrefixMeans ==
    ASSUME NEW S, NEW a \in Seq(S), NEW b \in Seq(S)
    PROVE  /\ IsPrefix(a, b) <=> Len(a) <= Len(b) /\ \A i \in 1..Len(a) : a[i] = b[i]
           /\ IsPrefix(a, b) => /\ SubSeq(b, Len(a) + 1, Len(b)) \in Seq(S)
                                /\ b = a \o SubSeq(b, Len(a) + 1, Len(b))
<1>1. Len(a) \in Nat /\ Len(b) \in Nat
  BY LenProperties
<1>2. SubSeq(a, 1, Len(a)) = a
  BY SubSeqFull
<1>3. /\ \A i \in 1..Len(a) : a[i] \in S
      /\ \A i \in 1..Len(b) : b[i] \in S
  BY ElementOfSeq
<1>4. ASSUME Len(a) <= Len(b)
      PROVE  /\ SubSeq(b, 1, Len(a)) \in Seq(S)
             /\ Len(SubSeq(b, 1, Len(a))) = Len(a)
             /\ \A i \in 1..Len(a) : SubSeq(b, 1, Len(a))[i] = b[i]
  <2>1. 1 \in Int /\ Len(a) \in Int /\ \A i \in 1..Len(a) : b[i] \in S
    BY <1>1, <1>3, <1>4
  <2>2. /\ SubSeq(b, 1, Len(a)) \in Seq(S)
        /\ Len(SubSeq(b, 1, Len(a))) = IF 1 <= Len(a) THEN Len(a) - 1 + 1 ELSE 0
        /\ \A i \in 1..(Len(a) - 1 + 1) : SubSeq(b, 1, Len(a))[i] = b[1 + i - 1]
    BY <2>1, SubSeqProperties
  <2> QED BY <1>1, <2>2
<1>5. IsPrefix(a, b) <=> Len(a) <= Len(b) /\ \A i \in 1..Len(a) : a[i] = b[i]
  <2>1. IsPrefix(a, b) <=> Len(a) <= Len(b) /\ a = SubSeq(b, 1, Len(a))
    BY <1>2 DEF IsPrefix
  <2> DEFINE c == SubSeq(b, 1, Len(a))
  <2>2. Len(a) <= Len(b) =>
          c \in Seq(S) /\ Len(c) = Len(a) /\ \A i \in 1..Len(a) : c[i] = b[i]
    BY <1>4
  <2> HIDE DEF c
  <2>3. ASSUME Len(a) <= Len(b), \A i \in 1..Len(a) : a[i] = b[i]
        PROVE  a = c
    BY <2>2, <2>3, SeqEqual
  <2> QED BY <2>1, <2>2, <2>3 DEF c
<1>6. ASSUME IsPrefix(a, b)
      PROVE  /\ SubSeq(b, Len(a) + 1, Len(b)) \in Seq(S)
             /\ b = a \o SubSeq(b, Len(a) + 1, Len(b))
  <2> DEFINE c == SubSeq(b, Len(a) + 1, Len(b))
  <2>1. Len(a) + 1 \in Int /\ Len(b) \in Int /\ \A i \in (Len(a) + 1)..Len(b) : b[i] \in S
    BY <1>1, <1>3
  <2>2. c \in Seq(S)
    BY <2>1, SubSeqProperties
  <2>3. a = SubSeq(b, 1, Len(a)) /\ b = SubSeq(b, 1, Len(b)) /\ Len(a) <= Len(b)
    BY <1>2, <1>6, SubSeqFull DEF IsPrefix
  <2>4. 1 \in 1..(Len(b) + 1) /\ Len(a) \in (1 - 1)..Len(b) /\ Len(b) \in Len(a)..Len(b)
    BY <1>1, <2>3
  <2>5. SubSeq(b, 1, Len(a)) \o SubSeq(b, Len(a) + 1, Len(b)) = SubSeq(b, 1, Len(b))
    BY <2>4, ConcatAdjacentSubSeq
  <2> QED BY <2>2, <2>3, <2>5
<1> QED BY <1>5, <1>6

\* A sequence begins its extension.
LEMMA PrefixOfLonger ==
    ASSUME NEW S, NEW a \in Seq(S), NEW b \in Seq(S)
    PROVE  IsPrefix(a, a) /\ IsPrefix(a, a \o b)
<1>1. /\ a \o b \in Seq(S) /\ Len(a \o b) = Len(a) + Len(b)
      /\ \A i \in 1..(Len(a) + Len(b)) : (a \o b)[i] = IF i <= Len(a) THEN a[i] ELSE b[i - Len(a)]
  BY ConcatProperties
<1>2. Len(a) \in Nat /\ Len(b) \in Nat
  BY LenProperties
<1>3. IsPrefix(a, a)
  <2>1. Len(a) <= Len(a) /\ \A i \in 1..Len(a) : a[i] = a[i]
    BY <1>2
  <2> QED BY <2>1, PrefixMeans
<1> DEFINE c == a \o b
<1>4. c \in Seq(S) /\ Len(a) <= Len(c) /\ \A i \in 1..Len(a) : a[i] = c[i]
  BY <1>1, <1>2
<1> HIDE DEF c
<1>5. IsPrefix(a, c)
  BY <1>4, PrefixMeans
<1> QED BY <1>3, <1>5 DEF c

\* And what begins the one begins the other.
LEMMA PrefixGrows ==
    ASSUME NEW S, NEW a \in Seq(S), NEW b \in Seq(S), NEW c \in Seq(S),
           IsPrefix(a, b), IsPrefix(b, c)
    PROVE  IsPrefix(a, c)
<1>1. Len(a) \in Nat /\ Len(b) \in Nat /\ Len(c) \in Nat
  BY LenProperties
<1>2. Len(a) <= Len(b) /\ \A i \in 1..Len(a) : a[i] = b[i]
  BY PrefixMeans
<1>3. Len(b) <= Len(c) /\ \A i \in 1..Len(b) : b[i] = c[i]
  BY PrefixMeans
<1>4. Len(a) <= Len(c) /\ \A i \in 1..Len(a) : a[i] = c[i]
  BY <1>1, <1>2, <1>3
<1> QED BY <1>4, PrefixMeans

\* What begins the empty sequence begins any.
LEMMA PrefixOfNone ==
    ASSUME NEW S, NEW a \in Seq(S), NEW none, none = <<>>, IsPrefix(a, none), NEW b \in Seq(S)
    PROVE  IsPrefix(a, b)
<1>1. none \in Seq(S) /\ Len(none) = 0 /\ Len(a) \in Nat /\ Len(b) \in Nat
  BY LenProperties
<1>2. Len(a) <= Len(none)
  BY <1>1, PrefixMeans
<1>3. Len(a) <= Len(b) /\ \A i \in 1..Len(a) : a[i] = b[i]
  BY <1>1, <1>2
<1> QED BY <1>3, PrefixMeans

----------------------------------------------------------------------------
(* The sessions and their parents.                                         *)

SessionColumns == {"source", "count", "parent"}

(***************************************************************************)
(* The id of a deleted row comes back only when the row was the last, and  *)
(* then for the session that had it: below the last row there is always    *)
(* one, so that a replaced session is numbered as before or beyond every   *)
(* id that a link names.                                                   *)
(***************************************************************************)
Kin(rows) ==
    /\ Numbered(rows)
    /\ \A id \in DOMAIN rows : DOMAIN rows[id] = SessionColumns
    /\ \A a, b \in DOMAIN rows : rows[a].source = rows[b].source => a = b
    /\ LastId(rows) > 1 => LastId(rows) - 1 \in DOMAIN rows
    /\ \A c \in DOMAIN rows : rows[c].parent # None =>
         /\ rows[c].parent \in 1..LastId(rows)
         /\ rows[c].parent \in DOMAIN rows =>
              rows[rows[c].parent].source = ParentOf[rows[c].source]

\* A link in Kin leads to the parent or nowhere.
LEMMA KinLinks ==
    ASSUME NEW rows, Kin(rows), NEW c \in DOMAIN rows, rows[c].parent \in DOMAIN rows
    PROVE  rows[rows[c].parent].source = ParentOf[rows[c].source]
<1>1. DOMAIN rows \subseteq Nat
  BY LastIdFound DEF Kin
<1>2. rows[c].parent # None
  BY <1>1, IngestAssumption
<1> QED BY <1>2 DEF Kin

\* Counting its turns moves no session.
LEMMA KinCounted ==
    ASSUME NEW rows, NEW new, Kin(rows), DOMAIN new = DOMAIN rows,
           \A id \in DOMAIN rows : /\ DOMAIN new[id] = SessionColumns
                                   /\ new[id].source = rows[id].source
                                   /\ new[id].parent = rows[id].parent
    PROVE  Kin(new)
<1>1. LastId(new) = LastId(rows)
  BY DEF LastId
<1>2. Numbered(new)
  BY DEF Kin, Numbered
<1> QED BY <1>1, <1>2 DEF Kin

(***************************************************************************)
(* A session is inserted after its old row, if it had one, was deleted:    *)
(* what is left is rest.                                                   *)
(***************************************************************************)
LEMMA KinInserted ==
    ASSUME NEW rows, Kin(rows), NEW s, NEW rest, NEW new,
           DOMAIN rest = {id \in DOMAIN rows : rows[id].source # s},
           \A id \in DOMAIN rest : rest[id] = rows[id],
           DOMAIN new = DOMAIN rest \cup {LastId(rest) + 1},
           \A id \in DOMAIN rest : id # LastId(rest) + 1 => new[id] = rest[id],
           new[LastId(rest) + 1] = [source |-> s, count |-> 0, parent |-> None]
    PROVE  /\ Kin(new)
           /\ LastId(new) = LastId(rest) + 1
           /\ LastId(new) \in DOMAIN new \ DOMAIN rest
<1> DEFINE l == LastId(rest)
           old == LastId(rows)
<1>1. Numbered(rest)
  BY DEF Kin, Numbered
<1>2. l \in Nat /\ l \in DOMAIN rest \cup {0} /\ \A id \in DOMAIN rest : id \in Nat \ {0} /\ id <= l
  BY <1>1, LastIdFound
<1>3. old \in Nat /\ old \in DOMAIN rows \cup {0} /\ \A id \in DOMAIN rows : id \in Nat \ {0} /\ id <= old
  BY LastIdFound DEF Kin
<1> HIDE DEF l, old
<1>4. Numbered(new)
  <2>1. DOMAIN new \subseteq 1..(l + 1)
    BY <1>2 DEF l
  <2> QED BY <1>2, <2>1 DEF Numbered
<1>5. LastId(new) = l + 1
  <2>1. /\ LastId(new) \in Nat /\ LastId(new) \in DOMAIN new \cup {0}
        /\ \A id \in DOMAIN new : id <= LastId(new)
    BY <1>4, LastIdFound
  <2>2. l + 1 \in DOMAIN new /\ \A id \in DOMAIN new : id <= l + 1
    BY <1>2 DEF l
  <2>3. LastId(new) >= l + 1 /\ LastId(new) <= l + 1
    BY <1>2, <2>1, <2>2
  <2> QED BY <1>2, <2>1, <2>3
<1>6. l + 1 \notin DOMAIN rest
  BY <1>2
\* The old row is not the last, or the only one of its id again.
<1>7. \/ l = old
      \/ old \in DOMAIN rows /\ rows[old].source = s /\ l + 1 = old
  <2>1. CASE old = 0
    BY <1>2, <1>3, <2>1
  <2>2. CASE old \in DOMAIN rows /\ rows[old].source # s
    <3>1. old \in DOMAIN rest /\ l \in DOMAIN rows \cup {0}
      BY <1>2, <2>2
    <3>2. old <= l /\ l <= old
      BY <1>2, <1>3, <3>1
    <3> QED BY <1>2, <1>3, <3>2
  <2>3. CASE old \in DOMAIN rows /\ rows[old].source = s
    <3>1. l # old /\ l <= old
      BY <1>2, <1>3, <2>3
    <3>2. CASE old = 1
      BY <1>2, <1>3, <2>3, <3>1, <3>2
    <3>3. CASE old > 1
      <4>1. old - 1 \in DOMAIN rows /\ old - 1 # old
        BY <1>3, <3>3 DEF Kin, old
      <4>2. rows[old - 1].source # s
        BY <2>3, <4>1 DEF Kin
      <4>3. old - 1 \in DOMAIN rest
        BY <4>1, <4>2
      <4>4. old - 1 <= l
        BY <1>2, <4>3
      <4> QED BY <1>2, <1>3, <2>3, <3>1, <4>4
    <3> QED BY <1>3, <2>3, <3>2, <3>3
  <2> QED BY <1>3, <2>1, <2>2, <2>3
<1>8. \A id \in DOMAIN new : DOMAIN new[id] = SessionColumns
  BY DEF Kin, SessionColumns
<1>9. \A id \in DOMAIN rest : new[id] = rows[id] /\ id \in DOMAIN rows /\ rows[id].source # s
  BY <1>6 DEF l
<1>10. new[l + 1].source = s /\ new[l + 1].parent = None /\ DOMAIN new = DOMAIN rest \cup {l + 1}
  BY DEF l
<1>11. \A a, b \in DOMAIN new : new[a].source = new[b].source => a = b
  BY <1>9, <1>10 DEF Kin
<1>12. l + 1 > 1 => (l + 1) - 1 \in DOMAIN new
  BY <1>2, <1>10
<1>13. ASSUME NEW c \in DOMAIN new, new[c].parent # None
       PROVE  /\ new[c].parent \in 1..(l + 1)
              /\ new[c].parent \in DOMAIN new =>
                   new[new[c].parent].source = ParentOf[new[c].source]
  <2> DEFINE p == rows[c].parent
  <2>1. c \in DOMAIN rest /\ c \in DOMAIN rows /\ new[c] = rows[c]
    BY <1>9, <1>10, <1>13
  <2>2. p \in 1..old /\ (p \in DOMAIN rows => rows[p].source = ParentOf[rows[c].source])
    BY <1>13, <2>1 DEF Kin, old
  <2> HIDE DEF p
  <2>3. p \in 1..(l + 1)
    BY <1>2, <1>3, <1>7, <2>2
  <2>4. CASE p \in DOMAIN rest
    BY <1>9, <2>1, <2>2, <2>3, <2>4 DEF p
  <2>5. CASE p = l + 1
    <3>1. CASE l = old
      BY <1>3, <2>2, <2>5, <3>1
    <3>2. CASE old \in DOMAIN rows /\ rows[old].source = s /\ l + 1 = old
      <4>1. s = ParentOf[rows[c].source]
        BY <2>2, <2>5, <3>2
      <4> QED BY <1>10, <2>1, <2>3, <2>5, <4>1 DEF p
    <3> QED BY <1>7, <3>1, <3>2
  <2>6. CASE p \notin DOMAIN rest \cup {l + 1}
    BY <1>10, <2>1, <2>3, <2>6 DEF p
  <2> QED BY <2>4, <2>5, <2>6
<1>14. Kin(new)
  BY <1>4, <1>5, <1>8, <1>11, <1>12, <1>13 DEF Kin
<1> QED BY <1>5, <1>6, <1>10, <1>14 DEF l

----------------------------------------------------------------------------
(* The store between two transactions.                                     *)

TurnColumns == {"session", "seq", "text", "embedded"}

\* The turns of a session are n, numbered from 0.
Counted(d, sid, n) ==
    /\ n \in Nat
    /\ Cardinality(TurnIds(d, sid)) = n
    /\ {d.turns[t].seq : t \in TurnIds(d, sid)} = 0..(n - 1)

\* Within a transaction the turns of one session are not counted yet.
StoreBut(d, opened) ==
    /\ DOMAIN d = {"state", "sessions", "turns", "chunks"}
    /\ Numbered(d.turns)
    /\ \A t \in DOMAIN d.turns : /\ DOMAIN d.turns[t] = TurnColumns
                                 /\ d.turns[t].session \in DOMAIN d.sessions
                                 /\ d.turns[t].text \in Nat
    /\ Kin(d.sessions)
    /\ \A sid \in DOMAIN d.sessions \ opened : Counted(d, sid, d.sessions[sid].count)
    /\ \A u \in DOMAIN d.state : d.state[u].bytes \in Nat

Store(d) == StoreBut(d, {})

\* What Counted says depends on the turns of that session alone.
LEMMA CountedSame ==
    ASSUME NEW d, NEW e, NEW sid, NEW n, Counted(d, sid, n),
           TurnIds(e, sid) = TurnIds(d, sid),
           \A t \in TurnIds(d, sid) : e.turns[t] = d.turns[t]
    PROVE  Counted(e, sid, n)
<1>1. {e.turns[t].seq : t \in TurnIds(e, sid)} = {d.turns[t].seq : t \in TurnIds(d, sid)}
  BY Zenon
<1> QED BY <1>1 DEF Counted

\* The same turns are counted alike.
LEMMA CountedTurns ==
    ASSUME NEW d, NEW e, NEW sid, NEW n, Counted(d, sid, n), e.turns = d.turns
    PROVE  Counted(e, sid, n)
  BY DEF Counted, TurnIds

\* A session of the store has its turns at these places.
Tells(d, sid, texts) ==
    /\ texts \in Seq(Nat)
    /\ Len(texts) = Cardinality(TurnIds(d, sid))
    /\ \A t \in TurnIds(d, sid) : texts[d.turns[t].seq + 1] = d.turns[t].text

\* No two turns of a session have the same place.
LEMMA PlaceIsOwn ==
    ASSUME NEW d, Numbered(d.turns), NEW sid, NEW n, Counted(d, sid, n)
    PROVE  /\ \A t \in TurnIds(d, sid) : d.turns[t].seq \in 0..(n - 1)
           /\ \A k \in 0..(n - 1) : \E t \in TurnIds(d, sid) : d.turns[t].seq = k
           /\ \A t, x \in TurnIds(d, sid) : d.turns[t].seq = d.turns[x].seq => t = x
<1> DEFINE ids == TurnIds(d, sid)
           seqs == 0..(n - 1)
           f == [t \in ids |-> d.turns[t].seq]
<1>1. n \in Nat /\ Cardinality(ids) = n /\ {d.turns[t].seq : t \in ids} = seqs
  BY DEF Counted
<1>2. IsFiniteSet(seqs) /\ Cardinality(seqs) = n
  <2>1. 0 \in Int /\ n - 1 \in Int
    BY <1>1
  <2>2. IsFiniteSet(0..(n - 1)) /\ Cardinality(0..(n - 1)) = IF 0 > n - 1 THEN 0 ELSE n - 1 - 0 + 1
    BY <2>1, FS_Interval
  <2> QED BY <1>1, <2>2
<1>3. IsFiniteSet(ids)
  <2>1. PICK b \in Nat : DOMAIN d.turns \subseteq 1..b
    BY DEF Numbered
  <2>2. IsFiniteSet(1..b) /\ ids \in SUBSET (1..b)
    BY <2>1, FS_Interval DEF TurnIds
  <2> QED BY <2>2, FS_Subset
<1> HIDE DEF ids, seqs
<1>4. f \in [ids -> seqs]
  BY <1>1
<1>5. f \in Surjection(ids, seqs)
  BY <1>1, <1>4 DEF Surjection
<1>6. f \in Injection(ids, seqs)
  BY <1>1, <1>2, <1>3, <1>5, FS_SurjSameCardinalityImpliesInj
<1>7. \A t, x \in ids : f[t] = f[x] => t = x
  BY <1>6 DEF Injection, IsInjective
<1>8. \A t \in ids : d.turns[t].seq \in seqs
  BY <1>1
<1>9. \A k \in seqs : \E t \in ids : d.turns[t].seq = k
  BY <1>1
<1>10. \A t, x \in ids : d.turns[t].seq = d.turns[x].seq => t = x
  BY <1>7
<1> QED BY <1>8, <1>9, <1>10 DEF ids, seqs

(***************************************************************************)
(* The texts of a session, read by their places, are the one sequence that *)
(* has each of its turns at its place.                                     *)
(***************************************************************************)
LEMMA TextsTold ==
    ASSUME NEW d, Numbered(d.turns), \A t \in DOMAIN d.turns : d.turns[t].text \in Nat,
           NEW s, NEW sid, SessionIds(d, s) = {sid}, NEW n, Counted(d, sid, n)
    PROVE  /\ Tells(d, sid, TextsOf(d, s))
           /\ \A texts : Tells(d, sid, texts) => texts = TextsOf(d, s)
<1> DEFINE ids == TurnIds(d, sid)
           Before(id) == {other \in ids : d.turns[other].seq < d.turns[id].seq}
           Place(i) == CHOOSE id \in ids : Cardinality(Before(id)) = i - 1
           own == [i \in 1..n |-> d.turns[Place(i)].text]
<1>1. n \in Nat /\ Cardinality(ids) = n
  BY DEF Counted
<1>2. /\ \A t \in ids : d.turns[t].seq \in 0..(n - 1)
      /\ \A k \in 0..(n - 1) : \E t \in ids : d.turns[t].seq = k
      /\ \A t, x \in ids : d.turns[t].seq = d.turns[x].seq => t = x
  BY PlaceIsOwn
<1>3. \A t \in ids : d.turns[t].text \in Nat
  BY DEF TurnIds
<1>4. UNION {TurnIds(d, x) : x \in SessionIds(d, s)} = ids
  OBVIOUS
<1>5. TextsOf(d, s) = own
  <2> DEFINE Among(S, id) == {other \in S : d.turns[other].seq < d.turns[id].seq}
             Texts(S) == [i \in 1..Cardinality(S) |->
                            d.turns[CHOOSE id \in S : Cardinality(Among(S, id)) = i - 1].text]
  <2>1. TextsOf(d, s) = Texts(UNION {TurnIds(d, x) : x \in SessionIds(d, s)})
    BY Zenon DEF TextsOf
  <2>2. Texts(UNION {TurnIds(d, x) : x \in SessionIds(d, s)}) = Texts(ids)
    <3> HIDE DEF Texts
    <3> QED BY Zenon, <1>4
  <2>3. Texts(ids) = [i \in 1..Cardinality(ids) |-> d.turns[Place(i)].text]
    BY Zenon
  <2> HIDE DEF Texts, Place, ids
  <2> QED BY <1>1, <2>1, <2>2, <2>3
<1> HIDE DEF ids
\* As many come before a turn as its place says.
<1>6. ASSUME NEW t \in ids
      PROVE  Cardinality(Before(t)) = d.turns[t].seq
  <2> DEFINE k == d.turns[t].seq
             f == [x \in Before(t) |-> d.turns[x].seq]
  <2>1. k \in 0..(n - 1)
    BY <1>2
  <2>2. IsFiniteSet(0..(k - 1)) /\ Cardinality(0..(k - 1)) = k
    <3>1. 0 \in Int /\ k - 1 \in Int
      BY <1>1, <2>1
    <3>2. /\ IsFiniteSet(0..(k - 1))
          /\ Cardinality(0..(k - 1)) = IF 0 > k - 1 THEN 0 ELSE k - 1 - 0 + 1
      BY <3>1, FS_Interval
    <3> QED BY <1>1, <2>1, <3>2
  <2>3. \A x \in Before(t) : x \in ids /\ d.turns[x].seq < k
    OBVIOUS
  <2>4. \A x \in ids : d.turns[x].seq < k => x \in Before(t)
    OBVIOUS
  <2> HIDE DEF Before, k
  <2>5. f \in [Before(t) -> 0..(k - 1)] /\ \A x \in Before(t) : f[x] = d.turns[x].seq
    BY <1>1, <1>2, <2>1, <2>3
  <2>6. \A x, y \in Before(t) : f[x] = f[y] => x = y
    BY <1>2, <2>3, <2>5
  <2>7. \A q \in 0..(k - 1) : \E x \in Before(t) : f[x] = q
    <3> TAKE q \in 0..(k - 1)
    <3>1. q \in 0..(n - 1) /\ q < k
      BY <1>1, <2>1
    <3>2. PICK x \in ids : d.turns[x].seq = q
      BY <1>2, <3>1
    <3> QED BY <2>4, <2>5, <3>1, <3>2
  <2> HIDE DEF f
  <2>8. f \in Injection(Before(t), 0..(k - 1)) /\ f \in Surjection(Before(t), 0..(k - 1))
    BY <2>5, <2>6, <2>7 DEF Injection, Surjection, IsInjective
  <2>9. Cardinality(Before(t)) = Cardinality(0..(k - 1))
    BY <2>2, <2>8, FS_Injection
  <2> QED BY <2>2, <2>9 DEF k
<1> HIDE DEF Before
<1>7. ASSUME NEW t \in ids
      PROVE  d.turns[t].seq + 1 \in 1..n /\ Place(d.turns[t].seq + 1) = t
  <2> DEFINE i == d.turns[t].seq + 1
  <2>1. i \in 1..n /\ i - 1 = d.turns[t].seq
    BY <1>1, <1>2
  <2>2. \E id \in ids : Cardinality(Before(id)) = i - 1
    BY <1>6, <2>1
  <2> HIDE DEF i
  <2>3. Place(i) \in ids /\ Cardinality(Before(Place(i))) = i - 1
    BY Zenon, <2>2
  <2> HIDE DEF Place
  <2>4. d.turns[Place(i)].seq = d.turns[t].seq
    BY <1>6, <2>1, <2>3
  <2>5. Place(i) = t
    BY <1>2, <2>3, <2>4
  <2> QED BY <2>1, <2>5 DEF i
<1>8. \A i \in 1..n : \E t \in ids : i = d.turns[t].seq + 1
  <2> TAKE i \in 1..n
  <2>1. i - 1 \in 0..(n - 1) /\ i = (i - 1) + 1
    BY <1>1
  <2> QED BY <1>2, <2>1
<1> HIDE DEF Place
<1>9. own \in [1..n -> Nat]
  BY <1>3, <1>7, <1>8
<1>10. \A t \in ids : own[d.turns[t].seq + 1] = d.turns[t].text
  BY <1>7
<1> HIDE DEF own
<1>11. own \in Seq(Nat) /\ Len(own) = n
  BY <1>1, <1>9, ListedSeq
<1>12. Tells(d, sid, own)
  BY <1>1, <1>10, <1>11 DEF Tells, ids
<1>13. ASSUME NEW texts, Tells(d, sid, texts)
       PROVE  texts = own
  <2>1. /\ texts \in Seq(Nat) /\ Len(texts) = n
        /\ \A t \in ids : texts[d.turns[t].seq + 1] = d.turns[t].text
    BY <1>1, <1>13 DEF Tells, ids
  <2>2. \A i \in 1..n : texts[i] = own[i]
    BY <1>8, <1>10, <2>1
  <2> QED BY <1>11, <2>1, <2>2, SeqEqual
<1> QED BY <1>5, <1>12, <1>13

\* A source without a session has no text.
LEMMA NoTexts ==
    ASSUME NEW d, NEW s, SessionIds(d, s) = {}
    PROVE  TextsOf(d, s) = <<>>
<1> DEFINE ids == UNION {TurnIds(d, sid) : sid \in SessionIds(d, s)}
           Before(id) == {other \in ids : d.turns[other].seq < d.turns[id].seq}
           own(i) == d.turns[CHOOSE id \in ids : Cardinality(Before(id)) = i - 1].text
<1>1. TextsOf(d, s) = [i \in 1..Cardinality(ids) |-> own(i)]
  BY Zenon DEF TextsOf
<1>2. ids = {}
  OBVIOUS
<1>3. Cardinality(ids) = 0
  BY <1>2, FS_EmptySet
<1> HIDE DEF own, ids
<1>4. 1..Cardinality(ids) = {}
  BY <1>3
<1> QED BY <1>1, <1>4

\* What the texts of a source depend on.
LEMMA TextsSame ==
    ASSUME NEW d, NEW e, NEW s, SessionIds(e, s) = SessionIds(d, s), e.turns = d.turns
    PROVE  TextsOf(e, s) = TextsOf(d, s)
<1> DEFINE Ids(turns, sids) == UNION {{id \in DOMAIN turns : turns[id].session = sid} : sid \in sids}
           Among(turns, S, id) == {other \in S : turns[other].seq < turns[id].seq}
           Texts(turns, S) ==
             [i \in 1..Cardinality(S) |->
                turns[CHOOSE id \in S : Cardinality(Among(turns, S, id)) = i - 1].text]
<1>1. /\ TextsOf(d, s) = Texts(d.turns, Ids(d.turns, SessionIds(d, s)))
      /\ TextsOf(e, s) = Texts(e.turns, Ids(e.turns, SessionIds(e, s)))
  BY Zenon DEF TextsOf, TurnIds
<1> HIDE DEF Texts, Ids
<1> QED BY <1>1

\* A session has the same turns.
Kept(d, e, sid) ==
    /\ TurnIds(e, sid) = TurnIds(d, sid)
    /\ \A t \in TurnIds(d, sid) : e.turns[t] = d.turns[t]

\* The sources but s have the same sessions with the same turns.
OthersKept(d, e, s) ==
    \A r : r # s => /\ SessionIds(e, r) = SessionIds(d, r)
                   /\ \A sid \in SessionIds(d, r) : Kept(d, e, sid)

\* Then it tells the same.
LEMMA KeptTells ==
    ASSUME NEW d, NEW e, NEW sid, Kept(d, e, sid), NEW texts, Tells(d, sid, texts)
    PROVE  Tells(e, sid, texts)
  BY DEF Kept, Tells

\* In the store every source has one session at most, which tells its texts.
LEMMA StoreTells ==
    ASSUME NEW d, Store(d), NEW s
    PROVE  /\ TextsOf(d, s) \in Seq(Nat)
           /\ \A sid \in SessionIds(d, s) :
                /\ SessionIds(d, s) = {sid}
                /\ Tells(d, sid, TextsOf(d, s))
                /\ \A texts : Tells(d, sid, texts) => texts = TextsOf(d, s)
<1>1. ASSUME NEW sid \in SessionIds(d, s)
      PROVE  /\ SessionIds(d, s) = {sid}
             /\ Tells(d, sid, TextsOf(d, s))
             /\ \A texts : Tells(d, sid, texts) => texts = TextsOf(d, s)
  <2>1. sid \in DOMAIN d.sessions /\ Counted(d, sid, d.sessions[sid].count)
    BY DEF SessionIds, Store, StoreBut
  <2>2. SessionIds(d, s) = {sid}
    BY DEF SessionIds, Store, StoreBut, Kin
  <2>3. Numbered(d.turns) /\ \A t \in DOMAIN d.turns : d.turns[t].text \in Nat
    BY DEF Store, StoreBut
  <2> QED BY <2>1, <2>2, <2>3, TextsTold
<1>2. CASE SessionIds(d, s) = {}
  <2>1. TextsOf(d, s) = <<>>
    BY <1>2, NoTexts
  <2> QED BY <1>2, <2>1
<1>3. CASE SessionIds(d, s) # {}
  BY <1>1, <1>3 DEF Tells
<1> QED BY <1>1, <1>2, <1>3

\* A source whose session is kept has the same texts.
LEMMA TextsKept ==
    ASSUME NEW d, Store(d), NEW e, Store(e), NEW s, SessionIds(e, s) = SessionIds(d, s),
           \A sid \in SessionIds(d, s) : Kept(d, e, sid)
    PROVE  TextsOf(e, s) = TextsOf(d, s)
<1>1. CASE SessionIds(d, s) = {}
  BY <1>1, NoTexts
<1>2. ASSUME NEW sid \in SessionIds(d, s)
      PROVE  TextsOf(e, s) = TextsOf(d, s)
  <2>1. Tells(e, sid, TextsOf(d, s))
    BY <1>2, StoreTells, KeptTells
  <2> QED BY <1>2, <2>1, StoreTells
<1> QED BY <1>1, <1>2

\* The recorded state is written with its byte offset.
LEMMA UpsertKeepsStore ==
    ASSUME NEW d, Store(d), NEW u, NEW st, st.bytes \in Nat, NEW e, e = UpsertState(d, u, st)
    PROVE  /\ Store(e)
           /\ \A v : IngestState(e, v) = IF v = u THEN st ELSE IngestState(d, v)
           /\ \A s : TextsOf(e, s) = TextsOf(d, s)
<1> DEFINE more == [x \in {u} |-> st]
<1>1. DOMAIN more = {u} /\ more[u] = st
  OBVIOUS
<1>2. /\ DOMAIN With(d.state, more) = DOMAIN d.state \cup DOMAIN more
      /\ \A x \in DOMAIN more : With(d.state, more)[x] = more[x]
      /\ \A x \in DOMAIN d.state \ DOMAIN more : With(d.state, more)[x] = d.state[x]
  BY WithRows
<1>3. e = [d EXCEPT !.state = With(d.state, more)]
  BY DEF UpsertState
<1> HIDE DEF more
<1>4. /\ DOMAIN e = DOMAIN d /\ e.state = With(d.state, more)
      /\ e.sessions = d.sessions /\ e.turns = d.turns
  BY <1>3 DEF Store, StoreBut
<1>5. \A x \in DOMAIN e.state : e.state[x].bytes \in Nat
  BY <1>1, <1>2, <1>4 DEF Store, StoreBut
<1>6. \A sid \in DOMAIN e.sessions : Counted(e, sid, e.sessions[sid].count)
  BY <1>4, CountedTurns DEF Store, StoreBut
<1>7. Store(e)
  BY <1>4, <1>5, <1>6 DEF Store, StoreBut
<1>8. ASSUME NEW s
      PROVE  TextsOf(e, s) = TextsOf(d, s)
  <2>1. SessionIds(e, s) = SessionIds(d, s)
    BY <1>4 DEF SessionIds
  <2> QED BY <1>4, <2>1, TextsSame
<1>9. ASSUME NEW v
      PROVE  IngestState(e, v) = IF v = u THEN st ELSE IngestState(d, v)
  BY <1>1, <1>2, <1>4 DEF IngestState
<1> QED BY <1>7, <1>8, <1>9

\* The session sid of source s is finished with these turns behind its own.
Filled(d, e, sid, s, texts) ==
    /\ Store(e)
    /\ e.state = d.state
    /\ OthersKept(d, e, s)
    /\ SessionIds(e, s) = SessionIds(d, s)
    /\ \A told : Tells(d, sid, told) => Tells(e, sid, told \o texts)

(***************************************************************************)
(* The end of both transactions: the turns are inserted after the m that   *)
(* are there, and the session is finished.  It tells them behind what it   *)
(* told.                                                                   *)
(***************************************************************************)
LEMMA FilledStore ==
    ASSUME NEW d, NEW sid, StoreBut(d, {sid}), sid \in DOMAIN d.sessions,
           NEW m, Counted(d, sid, m), NEW texts \in Seq(Nat),
           NEW e, e = FinalizeSession(InsertTurns(d, sid, m, texts), sid),
           NEW r, d.sessions[sid].source = r
    PROVE  Filled(d, e, sid, r, texts)
<1> DEFINE n == Len(texts)
           last == LastId(d.turns)
           fresh == (last + 1)..(last + n)
           more == [id \in (last + 1)..(last + Len(texts)) |->
                        [session |-> sid, seq |-> m + (id - last - 1),
                         text |-> texts[id - last], embedded |-> Pending]]
           t == With(d.turns, more)
           f == InsertTurns(d, sid, m, texts)
           c == Cardinality(TurnIds(f, sid))
<1>0. n \in Nat /\ Len(texts) = n
  BY LenProperties
<1>f. e = FinalizeSession(f, sid)
  BY Zenon
<1>1. last \in Nat /\ \A id \in DOMAIN d.turns : id \in Nat \ {0} /\ id <= last
  BY LastIdFound DEF StoreBut
<1>2. /\ DOMAIN more = fresh
      /\ \A id \in fresh : /\ DOMAIN more[id] = TurnColumns
                           /\ more[id].session = sid
                           /\ more[id].seq = m + (id - last - 1)
                           /\ more[id].text = texts[id - last]
  BY <1>0 DEF TurnColumns
<1>3. f = [d EXCEPT !.turns = t]
  BY Zenon DEF InsertTurns
<1>4. /\ DOMAIN t = DOMAIN d.turns \cup DOMAIN more
      /\ \A id \in DOMAIN more : t[id] = more[id]
      /\ \A id \in DOMAIN d.turns \ DOMAIN more : t[id] = d.turns[id]
  BY WithRows
<1>5. m \in Nat
  BY DEF Counted
<1> HIDE DEF n, last, more, t, f
<1>6. fresh \cap DOMAIN d.turns = {}
  BY <1>0, <1>1
<1> HIDE DEF fresh
<1>7. /\ DOMAIN f = DOMAIN d /\ f.turns = t /\ f.sessions = d.sessions /\ f.state = d.state
  BY <1>3 DEF StoreBut
<1>8. /\ DOMAIN t = DOMAIN d.turns \cup fresh
      /\ \A id \in DOMAIN d.turns : t[id] = d.turns[id]
      /\ \A id \in fresh : /\ DOMAIN t[id] = TurnColumns
                           /\ t[id].session = sid
                           /\ t[id].seq = m + (id - last - 1)
                           /\ t[id].text = texts[id - last]
  BY <1>2, <1>4, <1>6
<1>9. Numbered(t)
  <2>1. Numbered(more)
    <3>1. last + n \in Nat /\ fresh \subseteq 1..(last + n)
      BY <1>0, <1>1 DEF fresh
    <3> QED BY <1>2, <3>1 DEF Numbered
  <2> QED BY <1>4, <2>1, BothNumbered DEF StoreBut
\* The session is counted.
<1>10. TurnIds(f, sid) = TurnIds(d, sid) \cup fresh
  BY <1>7, <1>8 DEF TurnIds
<1>11. c = m + n /\ c \in Nat
  <2>1. TurnIds(d, sid) \cap fresh = {}
    BY <1>6 DEF TurnIds
  <2>2. IsFiniteSet(TurnIds(d, sid))
    <3>1. PICK b \in Nat : DOMAIN d.turns \subseteq 1..b
      BY DEF StoreBut, Numbered
    <3>2. IsFiniteSet(1..b) /\ TurnIds(d, sid) \in SUBSET (1..b)
      BY <3>1, FS_Interval DEF TurnIds
    <3> QED BY <3>2, FS_Subset
  <2>3. IsFiniteSet(fresh) /\ Cardinality(fresh) = n
    <3> DEFINE a == last + 1
               z == last + n
    <3>1. a \in Int /\ z \in Int /\ (IF a > z THEN 0 ELSE z - a + 1) = n
      BY <1>0, <1>1
    <3>2. fresh = a..z
      BY DEF fresh
    <3> HIDE DEF a, z
    <3>3. IsFiniteSet(a..z) /\ Cardinality(a..z) = IF a > z THEN 0 ELSE z - a + 1
      BY <3>1, FS_Interval
    <3> QED BY <3>1, <3>2, <3>3
  <2>4. Cardinality(TurnIds(d, sid) \cup fresh)
          = Cardinality(TurnIds(d, sid)) + Cardinality(fresh) - Cardinality(TurnIds(d, sid) \cap fresh)
    BY <2>2, <2>3, FS_Union
  <2>5. Cardinality(TurnIds(d, sid) \cap fresh) = 0
    BY <2>1, FS_EmptySet
  <2> QED BY <1>0, <1>5, <1>10, <2>3, <2>4, <2>5 DEF Counted
<1>12. {f.turns[x].seq : x \in TurnIds(f, sid)} = 0..(m + n - 1)
  <2> DEFINE All == {f.turns[x].seq : x \in TurnIds(f, sid)}
  <2>1. \A x \in TurnIds(d, sid) : f.turns[x] = d.turns[x]
    BY <1>7, <1>8 DEF TurnIds
  <2>2. \A x \in TurnIds(d, sid) : f.turns[x].seq \in 0..(m - 1)
    BY <2>1 DEF Counted
  <2>3. \A x \in fresh : f.turns[x].seq \in m..(m + n - 1)
    BY <1>0, <1>1, <1>5, <1>7, <1>8 DEF fresh
  <2>4. All \subseteq 0..(m + n - 1)
    BY <1>0, <1>5, <1>10, <2>2, <2>3
  <2>5. ASSUME NEW q \in 0..(m + n - 1)
        PROVE  q \in All
    <3>1. CASE q < m
      <4>1. q \in 0..(m - 1)
        BY <1>0, <1>5, <2>5, <3>1
      <4>2. {d.turns[x].seq : x \in TurnIds(d, sid)} = 0..(m - 1)
        BY DEF Counted
      <4>3. q \in {d.turns[x].seq : x \in TurnIds(d, sid)}
        BY <4>1, <4>2
      <4> QED BY <1>0, <1>10, <2>1, <4>3
    <3>2. CASE q >= m
      <4> DEFINE x == last + 1 + (q - m)
      <4>1. x \in fresh
        BY <1>0, <1>1, <1>5, <2>5, <3>2 DEF fresh
      <4>2. m + (x - last - 1) = q
        BY <1>0, <1>1, <1>5, <2>5
      <4> HIDE DEF x
      <4>3. f.turns[x].seq = q
        BY <1>7, <1>8, <4>1, <4>2
      <4> QED BY <1>0, <1>10, <4>1, <4>3
    <3> QED BY <1>0, <1>5, <2>5, <3>1, <3>2
  <2> QED BY <2>4, <2>5
<1> HIDE DEF c
<1>13. Counted(f, sid, c)
  BY <1>0, <1>11, <1>12 DEF Counted, c
<1>14. ASSUME NEW s \in DOMAIN d.sessions, s # sid
       PROVE  Counted(f, s, d.sessions[s].count)
  <2>1. TurnIds(f, s) = TurnIds(d, s)
    BY <1>7, <1>8, <1>14 DEF TurnIds
  <2>2. \A x \in TurnIds(d, s) : f.turns[x] = d.turns[x]
    BY <1>7, <1>8 DEF TurnIds
  <2>3. Counted(d, s, d.sessions[s].count)
    BY <1>0, <1>14 DEF StoreBut
  <2> QED BY <2>1, <2>2, <2>3, CountedSame
<1>15. /\ DOMAIN e = DOMAIN f /\ e.turns = f.turns /\ e.state = f.state
       /\ DOMAIN e.sessions = DOMAIN d.sessions
       /\ \A s \in DOMAIN d.sessions : s # sid => e.sessions[s] = d.sessions[s]
       /\ e.sessions[sid] = [d.sessions[sid] EXCEPT !.count = c]
  BY <1>f, <1>7 DEF FinalizeSession, c, StoreBut
<1>16. \A s \in DOMAIN d.sessions : DOMAIN d.sessions[s] = SessionColumns
  BY DEF StoreBut, Kin
<1>17. \A s \in DOMAIN d.sessions : /\ DOMAIN e.sessions[s] = SessionColumns
                                    /\ e.sessions[s].source = d.sessions[s].source
                                    /\ e.sessions[s].parent = d.sessions[s].parent
  BY <1>0, <1>15, <1>16 DEF SessionColumns
<1>18. Kin(e.sessions)
  BY <1>0, <1>15, <1>17, KinCounted DEF StoreBut
<1>19. ASSUME NEW s \in DOMAIN e.sessions
       PROVE  Counted(e, s, e.sessions[s].count)
  <2>1. CASE s = sid
    <3>1. e.sessions[s].count = c
      BY <1>0, <1>15, <1>16, <2>1 DEF SessionColumns
    <3> QED BY <1>0, <1>13, <1>15, <2>1, <3>1, CountedTurns
  <2>2. CASE s # sid
    BY <1>0, <1>14, <1>15, <1>19, <2>2, CountedTurns
  <2> QED BY <2>1, <2>2
<1>20. \A x \in DOMAIN e.turns : /\ DOMAIN e.turns[x] = TurnColumns
                                 /\ e.turns[x].session \in DOMAIN e.sessions
                                 /\ e.turns[x].text \in Nat
  <2>1. \A x \in fresh : x - last \in 1..n
    BY <1>0, <1>1 DEF fresh
  <2>2. \A k \in 1..n : texts[k] \in Nat
    BY <1>0, ElementOfSeq
  <2> QED BY <1>7, <1>8, <1>15, <2>1, <2>2 DEF StoreBut
<1>21. DOMAIN e = {"state", "sessions", "turns", "chunks"} /\ e.state = d.state /\ e.turns = t
  BY <1>7, <1>15 DEF StoreBut
<1>22. Store(e)
  BY <1>9, <1>18, <1>19, <1>20, <1>21 DEF Store, StoreBut
<1>23. ASSUME NEW s
       PROVE  SessionIds(e, s) = SessionIds(d, s)
  BY <1>0, <1>15, <1>17 DEF SessionIds
<1>24. ASSUME NEW id \in DOMAIN d.sessions, id # sid
       PROVE  Kept(d, e, id)
  BY <1>7, <1>8, <1>15, <1>24 DEF Kept, TurnIds
<1>25. TurnIds(e, sid) = TurnIds(d, sid) \cup fresh
  BY <1>0, <1>10, <1>15 DEF TurnIds
<1>26. ASSUME NEW told, Tells(d, sid, told)
       PROVE  Tells(e, sid, told \o texts)
  <2>1. told \in Seq(Nat) /\ Len(told) = m
    BY <1>26 DEF Tells, Counted
  <2> DEFINE all == told \o texts
  <2>2. /\ all \in Seq(Nat) /\ Len(all) = m + n
        /\ \A i \in 1..(m + n) : all[i] = IF i <= m THEN told[i] ELSE texts[i - m]
    BY <1>0, <2>1, ConcatProperties
  <2> HIDE DEF all
  <2>3. Cardinality(TurnIds(e, sid)) = m + n
    BY <1>0, <1>10, <1>11, <1>25 DEF c
  <2>4. ASSUME NEW x \in TurnIds(d, sid)
        PROVE  all[e.turns[x].seq + 1] = e.turns[x].text
    <3>1. e.turns[x] = d.turns[x] /\ d.turns[x].seq \in 0..(m - 1)
      BY <1>7, <1>8, <1>15 DEF Counted, TurnIds
    <3>2. d.turns[x].seq + 1 \in 1..(m + n) /\ d.turns[x].seq + 1 <= m
      BY <1>0, <1>5, <3>1
    <3>3. told[d.turns[x].seq + 1] = d.turns[x].text
      BY <1>26 DEF Tells
    <3> QED BY <2>2, <3>1, <3>2, <3>3
  <2>5. ASSUME NEW x \in fresh
        PROVE  all[e.turns[x].seq + 1] = e.turns[x].text
    <3>1. e.turns[x].seq = m + (x - last - 1) /\ e.turns[x].text = texts[x - last]
      BY <1>7, <1>8, <1>15
    <3>2. x - last \in 1..n /\ x \in Int
      BY <1>0, <1>1 DEF fresh
    <3> DEFINE i == m + (x - last - 1) + 1
    <3>3. i \in 1..(m + n) /\ ~(i <= m) /\ i - m = x - last
      BY <1>0, <1>1, <1>5, <3>2
    <3>4. all[i] = texts[i - m]
      BY <2>2, <3>3
    <3> QED BY <3>1, <3>3, <3>4
  <2>6. Tells(e, sid, all)
    BY <1>25, <2>2, <2>3, <2>4, <2>5 DEF Tells
  <2> QED BY <2>6 DEF all
<1>27. e.state = d.state
  BY <1>21
<1>28. OthersKept(d, e, r)
  BY <1>23, <1>24 DEF OthersKept, SessionIds
<1> QED BY <1>22, <1>23, <1>26, <1>27, <1>28 DEF Filled

(***************************************************************************)
(* A session is opened in the store rest, which lacks the old row of its   *)
(* source, if there was one, and that row's turns.                         *)
(***************************************************************************)
Rest(d, rest, s) ==
    /\ DOMAIN rest = {"state", "sessions", "turns", "chunks"}
    /\ rest.state = d.state
    /\ DOMAIN rest.sessions = {id \in DOMAIN d.sessions : d.sessions[id].source # s}
    /\ \A id \in DOMAIN rest.sessions : rest.sessions[id] = d.sessions[id]
    /\ DOMAIN rest.turns = {t \in DOMAIN d.turns : d.turns[t].session \in DOMAIN rest.sessions}
    /\ \A t \in DOMAIN rest.turns : rest.turns[t] = d.turns[t]

\* Where the source has no session yet, everything is left.
LEMMA RestItself ==
    ASSUME NEW d, Store(d), NEW s,
           {id \in DOMAIN d.sessions : d.sessions[id].source # s} = DOMAIN d.sessions
    PROVE  Rest(d, d, s)
<1>1. DOMAIN d.turns = {t \in DOMAIN d.turns : d.turns[t].session \in DOMAIN d.sessions}
  BY DEF Store, StoreBut
<1> QED BY <1>1 DEF Rest, Store, StoreBut

\* InsertSession: the new session is alone of its source, and without turns.
LEMMA InsertOpens ==
    ASSUME NEW d, Store(d), NEW s, NEW rest, Rest(d, rest, s)
    PROVE  LET opened == InsertSession(rest, s)
               sid == LastId(opened.sessions)
           IN  /\ StoreBut(opened, {sid})
               /\ SessionIds(opened, s) = {sid}
               /\ sid \in DOMAIN opened.sessions
               /\ Counted(opened, sid, 0)
               /\ Tells(opened, sid, <<>>)
               /\ opened.state = d.state
               /\ OthersKept(d, opened, s)
<1> DEFINE opened == InsertSession(rest, s)
           sid == LastId(opened.sessions)
           l == LastId(rest.sessions)
           row == [source |-> s, count |-> 0, parent |-> None]
           more == [x \in {l + 1} |-> row]
           new == With(rest.sessions, more)
<1>1. /\ DOMAIN new = DOMAIN rest.sessions \cup DOMAIN more
      /\ \A id \in DOMAIN more : new[id] = more[id]
      /\ \A id \in DOMAIN rest.sessions \ DOMAIN more : new[id] = rest.sessions[id]
  BY WithRows
<1>2. DOMAIN more = {l + 1} /\ more[l + 1] = row
  OBVIOUS
<1>3. opened = [rest EXCEPT !.sessions = new]
  BY Zenon DEF InsertSession
<1> HIDE DEF more, new, row, opened
<1>4. /\ DOMAIN opened = {"state", "sessions", "turns", "chunks"} /\ opened.sessions = new
      /\ opened.turns = rest.turns /\ opened.state = d.state
  BY <1>3 DEF Rest
<1>5. /\ DOMAIN new = DOMAIN rest.sessions \cup {l + 1}
      /\ \A id \in DOMAIN rest.sessions : id # l + 1 => new[id] = rest.sessions[id]
      /\ new[l + 1] = [source |-> s, count |-> 0, parent |-> None]
  BY <1>1, <1>2 DEF row
<1>6. Kin(new) /\ LastId(new) = l + 1 /\ LastId(new) \in DOMAIN new \ DOMAIN rest.sessions
  <2> DEFINE rows == d.sessions
             left == rest.sessions
  <2>1. Kin(rows)
    BY DEF Store, StoreBut
  <2>2. /\ DOMAIN left = {id \in DOMAIN rows : rows[id].source # s}
        /\ \A id \in DOMAIN left : left[id] = rows[id]
    BY DEF Rest
  <2>3. /\ DOMAIN new = DOMAIN left \cup {LastId(left) + 1}
        /\ \A id \in DOMAIN left : id # LastId(left) + 1 => new[id] = left[id]
        /\ new[LastId(left) + 1] = [source |-> s, count |-> 0, parent |-> None]
    BY <1>5
  <2> HIDE DEF rows, left
  <2>4. /\ Kin(new) /\ LastId(new) = LastId(left) + 1
        /\ LastId(new) \in DOMAIN new \ DOMAIN left
    BY <2>1, <2>2, <2>3, KinInserted
  <2> QED BY <2>4 DEF left
<1>7. sid = l + 1
  BY <1>4, <1>6
<1> HIDE DEF sid
<1>8. sid \in DOMAIN opened.sessions /\ sid \notin DOMAIN rest.sessions
  BY <1>4, <1>6, <1>7
<1>9. TurnIds(opened, sid) = {}
  BY <1>4, <1>8 DEF TurnIds, Rest
<1>10. Counted(opened, sid, 0)
  <2>1. Cardinality(TurnIds(opened, sid)) = 0
    BY <1>9, FS_EmptySet
  <2>2. {opened.turns[t].seq : t \in TurnIds(opened, sid)} = {}
    BY <1>9
  <2>3. 0..(0 - 1) = {}
    OBVIOUS
  <2> QED BY <2>1, <2>2, <2>3 DEF Counted
<1>11. SessionIds(opened, s) = {sid}
  <2>1. \A id \in DOMAIN rest.sessions : opened.sessions[id].source # s
    BY <1>4, <1>5, <1>7, <1>8 DEF Rest
  <2>2. opened.sessions[sid].source = s
    BY <1>4, <1>5, <1>7
  <2> QED BY <1>4, <1>5, <1>7, <2>1, <2>2 DEF SessionIds
<1>12. ASSUME NEW id \in DOMAIN opened.sessions \ {sid}
       PROVE  Counted(opened, id, opened.sessions[id].count)
  <2>1. id \in DOMAIN rest.sessions /\ id \in DOMAIN d.sessions
        /\ opened.sessions[id] = d.sessions[id]
    BY <1>4, <1>5, <1>7 DEF Rest
  <2>2. TurnIds(opened, id) = TurnIds(d, id)
    BY <1>4, <2>1 DEF TurnIds, Rest
  <2>3. \A t \in TurnIds(d, id) : opened.turns[t] = d.turns[t]
    BY <1>4, <2>1 DEF TurnIds, Rest
  <2>4. Counted(d, id, d.sessions[id].count)
    BY <2>1 DEF Store, StoreBut
  <2> QED BY <2>1, <2>2, <2>3, <2>4, CountedSame
<1>13. Numbered(opened.turns)
  BY <1>4 DEF Rest, Store, StoreBut, Numbered
<1>14. \A t \in DOMAIN opened.turns : /\ DOMAIN opened.turns[t] = TurnColumns
                                      /\ opened.turns[t].session \in DOMAIN opened.sessions
                                      /\ opened.turns[t].text \in Nat
  BY <1>4, <1>5 DEF Rest, Store, StoreBut
<1>15. \A x \in DOMAIN opened.state : opened.state[x].bytes \in Nat
  BY <1>4 DEF Store, StoreBut
<1>16. StoreBut(opened, {sid})
  BY <1>4, <1>6, <1>12, <1>13, <1>14, <1>15 DEF StoreBut
<1>17. Tells(opened, sid, <<>>)
  BY <1>9, <1>10 DEF Tells, Counted
<1>18. ASSUME NEW r, r # s
       PROVE  /\ SessionIds(opened, r) = SessionIds(d, r)
              /\ \A id \in SessionIds(d, r) : Kept(d, opened, id)
  <2>1. \A id \in DOMAIN rest.sessions : opened.sessions[id] = d.sessions[id]
    BY <1>4, <1>5, <1>7, <1>8 DEF Rest
  <2>2. opened.sessions[sid].source = s /\ DOMAIN opened.sessions = DOMAIN rest.sessions \cup {sid}
    BY <1>4, <1>5, <1>7
  <2>3. DOMAIN rest.sessions = {id \in DOMAIN d.sessions : d.sessions[id].source # s}
    BY DEF Rest
  <2>4. SessionIds(opened, r) = SessionIds(d, r)
    BY <1>18, <2>1, <2>2, <2>3 DEF SessionIds
  <2>5. ASSUME NEW id \in SessionIds(d, r)
        PROVE  Kept(d, opened, id)
    <3>1. id \in DOMAIN rest.sessions
      BY <1>18, <2>3, <2>5 DEF SessionIds
    <3> QED BY <1>4, <3>1 DEF Kept, TurnIds, Rest
  <2> QED BY <2>4, <2>5
<1>19. OthersKept(d, opened, s)
  BY <1>18 DEF OthersKept
<1> QED BY <1>4, <1>8, <1>10, <1>11, <1>16, <1>17, <1>19 DEF opened, sid

\* What a transaction does to one session leaves the texts of the others.
LEMMA OtherTexts ==
    ASSUME NEW d, Store(d), NEW e, Store(e), NEW opened, NEW s,
           OthersKept(d, opened, s), OthersKept(opened, e, s)
    PROVE  \A r : r # s => TextsOf(e, r) = TextsOf(d, r)
<1> SUFFICES ASSUME NEW r, r # s PROVE TextsOf(e, r) = TextsOf(d, r)
  OBVIOUS
<1>1. SessionIds(e, r) = SessionIds(d, r)
  BY DEF OthersKept
<1>2. ASSUME NEW sid \in SessionIds(d, r)
      PROVE  Kept(d, e, sid)
  <2>1. Kept(d, opened, sid) /\ Kept(opened, e, sid)
    BY DEF OthersKept
  <2> QED BY <2>1 DEF Kept
<1> QED BY <1>1, <1>2, TextsKept

\* What a transaction leaves: these turns of one session, and a recorded state.
Stores(d, e, s, turns, u, st) ==
    /\ Store(e)
    /\ \A v : IngestState(e, v) = IF v = u THEN st ELSE IngestState(d, v)
    /\ TextsOf(e, s) = turns
    /\ \A r : r # s => TextsOf(e, r) = TextsOf(d, r)

(***************************************************************************)
(* AppendSession: the tail of a transcript comes after the turns that are  *)
(* there, in the session that is there or in a new one.                    *)
(***************************************************************************)
LEMMA AppendKeepsStore ==
    ASSUME NEW d, Store(d), NEW s, NEW texts \in Seq(Nat), NEW u, NEW st, st.bytes \in Nat
    PROVE  Stores(d, AppendSession(d, s, texts, u, st), s, TextsOf(d, s) \o texts, u, st)
<1> DEFINE opened == IF SessionIds(d, s) = {} THEN InsertSession(d, s) ELSE d
           sid == CHOOSE id \in SessionIds(opened, s) : TRUE
           places == {opened.turns[id].seq : id \in TurnIds(opened, sid)}
           next == IF places = {} THEN 0 ELSE Max(places) + 1
           filled == FinalizeSession(InsertTurns(opened, sid, next, texts), sid)
<1>1. AppendSession(d, s, texts, u, st) = UpsertState(filled, u, st)
  BY Zenon DEF AppendSession
<1>2. /\ StoreBut(opened, {sid}) /\ sid \in DOMAIN opened.sessions
      /\ \E m : Counted(opened, sid, m)
      /\ SessionIds(opened, s) = {sid} /\ Tells(opened, sid, TextsOf(d, s))
      /\ opened.state = d.state /\ OthersKept(d, opened, s)
  <2>1. CASE SessionIds(d, s) = {}
    <3>1. opened = InsertSession(d, s)
      BY <2>1
    <3>2. \A id \in DOMAIN d.sessions : d.sessions[id].source # s
      BY <2>1 DEF SessionIds
    <3>3. {id \in DOMAIN d.sessions : d.sessions[id].source # s} = DOMAIN d.sessions
      BY <3>2
    <3>4. Rest(d, d, s)
      BY <3>3, RestItself
    <3> HIDE DEF opened
    <3>5. TextsOf(d, s) = <<>>
      BY <2>1, NoTexts
    <3>6. /\ StoreBut(opened, {LastId(opened.sessions)})
          /\ SessionIds(opened, s) = {LastId(opened.sessions)}
          /\ LastId(opened.sessions) \in DOMAIN opened.sessions
          /\ Counted(opened, LastId(opened.sessions), 0)
          /\ Tells(opened, LastId(opened.sessions), <<>>)
          /\ opened.state = d.state
          /\ OthersKept(d, opened, s)
      BY <3>1, <3>4, InsertOpens
    <3>7. sid = LastId(opened.sessions)
      BY <3>6
    <3> HIDE DEF sid
    <3> QED BY <3>5, <3>6, <3>7
  <2>2. CASE SessionIds(d, s) # {}
    <3>1. opened = d
      BY <2>2
    <3> HIDE DEF opened
    <3>2. sid \in SessionIds(d, s)
      BY <2>2, <3>1
    <3>3. sid \in DOMAIN d.sessions
      BY <3>2 DEF SessionIds
    <3>4. Counted(d, sid, d.sessions[sid].count)
      BY <3>3 DEF Store, StoreBut
    <3> HIDE DEF sid
    <3>5. SessionIds(d, s) = {sid} /\ Tells(d, sid, TextsOf(d, s))
      BY <3>2, StoreTells
    <3>6. OthersKept(d, d, s)
      BY DEF Kept, OthersKept
    <3> QED BY <3>1, <3>3, <3>4, <3>5, <3>6 DEF Store, StoreBut
  <2> QED BY <2>1, <2>2
<1> HIDE DEF opened, sid
<1>3. PICK m : Counted(opened, sid, m)
  BY <1>2
<1>4. next = m
  <2>1. m \in Nat /\ places = 0..(m - 1)
    BY <1>3 DEF Counted
  <2> HIDE DEF places
  <2>2. CASE m = 0
    <3>1. places = {}
      BY <2>1, <2>2
    <3> QED BY <2>2, <3>1
  <2>3. CASE m # 0
    <3>1. places # {} /\ places \in SUBSET (0..m) /\ m - 1 \in places
      <4>1. m - 1 \in 0..(m - 1) /\ 0..(m - 1) \in SUBSET (0..m)
        BY <2>1, <2>3
      <4> QED BY <2>1, <4>1
    <3>2. Max(places) \in places /\ \A x \in places : x <= Max(places)
      BY <2>1, <3>1, GreatestExists
    <3>3. Max(places) = m - 1
      BY <2>1, <3>1, <3>2
    <3> QED BY <2>1, <3>1, <3>3
  <2> QED BY <2>2, <2>3
<1>5. sid \in SessionIds(opened, s) /\ opened.sessions[sid].source = s
  BY <1>2 DEF SessionIds
<1>6. /\ Store(filled) /\ filled.state = opened.state /\ OthersKept(opened, filled, s)
      /\ SessionIds(filled, s) = {sid}
      /\ Tells(filled, sid, TextsOf(d, s) \o texts)
  <2>1. filled = FinalizeSession(InsertTurns(opened, sid, m, texts), sid)
    BY <1>4
  <2> HIDE DEF filled
  <2>2. Filled(opened, filled, sid, s, texts)
    <3>1. StoreBut(opened, {sid}) /\ sid \in DOMAIN opened.sessions /\ Counted(opened, sid, m)
      BY <1>2, <1>3
    <3> QED BY Zenon, <1>5, <3>1, <2>1, FilledStore
  <2> QED BY <1>2, <2>2 DEF Filled
<1> HIDE DEF filled
<1>7. TextsOf(filled, s) = TextsOf(d, s) \o texts
  BY <1>6, StoreTells
<1>8. \A r : r # s => TextsOf(filled, r) = TextsOf(d, r)
  BY <1>2, <1>6, OtherTexts
<1> DEFINE e == UpsertState(filled, u, st)
<1>e. e = UpsertState(filled, u, st)
  OBVIOUS
<1> HIDE DEF e
<1>9. /\ Store(e) /\ (\A v : IngestState(e, v) = IF v = u THEN st ELSE IngestState(filled, v))
      /\ \A r : TextsOf(e, r) = TextsOf(filled, r)
  BY <1>6, <1>e, UpsertKeepsStore
<1>10. \A v : IngestState(filled, v) = IngestState(d, v)
  BY <1>2, <1>6 DEF IngestState
<1>11. Stores(d, e, s, TextsOf(d, s) \o texts, u, st)
  BY <1>7, <1>8, <1>9, <1>10 DEF Stores
<1> QED BY <1>1, <1>11 DEF e

(***************************************************************************)
(* ReplaceSession: the session is deleted with its turns and read anew.    *)
(***************************************************************************)
LEMMA ReplaceKeepsStore ==
    ASSUME NEW d, Store(d), NEW s, NEW texts \in Seq(Nat), NEW u, NEW st, st.bytes \in Nat
    PROVE  Stores(d, ReplaceSession(d, s, texts, u, st), s, texts, u, st)
<1> DEFINE old == SessionIds(d, s)
           ids == UNION {TurnIds(d, id) : id \in old}
           cleared == [d EXCEPT !.turns = Without(d.turns, ids),
                                !.sessions = Without(d.sessions, old)]
           opened == InsertSession(cleared, s)
           sid == LastId(opened.sessions)
           filled == FinalizeSession(InsertTurns(opened, sid, 0, texts), sid)
<1>1. ReplaceSession(d, s, texts, u, st) = UpsertState(filled, u, st)
  BY Zenon DEF ReplaceSession
<1>2. /\ DOMAIN cleared = {"state", "sessions", "turns", "chunks"}
      /\ cleared.state = d.state
      /\ cleared.sessions = Without(d.sessions, old)
      /\ cleared.turns = Without(d.turns, ids)
  BY DEF Store, StoreBut
<1> HIDE DEF cleared, old, ids
<1>3. DOMAIN cleared.sessions = {id \in DOMAIN d.sessions : d.sessions[id].source # s}
  <2>1. DOMAIN cleared.sessions = DOMAIN d.sessions \ old
    BY <1>2, WithoutRows
  <2> QED BY <2>1 DEF SessionIds, old
<1>4. \A id \in DOMAIN cleared.sessions : cleared.sessions[id] = d.sessions[id]
  <2>1. DOMAIN cleared.sessions = DOMAIN d.sessions \ old
    BY <1>2, WithoutRows
  <2>2. \A x \in DOMAIN d.sessions \ old : Without(d.sessions, old)[x] = d.sessions[x]
    BY WithoutRows
  <2> QED BY <1>2, <2>1, <2>2
<1>5. \A t \in DOMAIN cleared.turns : cleared.turns[t] = d.turns[t]
  <2>1. DOMAIN cleared.turns = DOMAIN d.turns \ ids
    BY <1>2, WithoutRows
  <2>2. \A x \in DOMAIN d.turns \ ids : Without(d.turns, ids)[x] = d.turns[x]
    BY WithoutRows
  <2> QED BY <1>2, <2>1, <2>2
<1>6. DOMAIN cleared.turns
        = {t \in DOMAIN d.turns : d.turns[t].session \in DOMAIN cleared.sessions}
  <2>1. DOMAIN cleared.turns = DOMAIN d.turns \ ids
    BY <1>2, WithoutRows
  <2>2. \A t \in DOMAIN d.turns : t \in ids <=> d.turns[t].session \in old
    BY DEF TurnIds, ids
  <2>3. \A t \in DOMAIN d.turns : d.turns[t].session \in DOMAIN d.sessions
    BY DEF Store, StoreBut
  <2>4. \A id \in DOMAIN d.sessions : id \in old <=> id \notin DOMAIN cleared.sessions
    BY <1>3 DEF SessionIds, old
  <2> QED BY <2>1, <2>2, <2>3, <2>4
<1>7. Rest(d, cleared, s)
  BY <1>2, <1>3, <1>4, <1>5, <1>6 DEF Rest
<1>8. /\ StoreBut(opened, {sid}) /\ sid \in DOMAIN opened.sessions /\ Counted(opened, sid, 0)
      /\ SessionIds(opened, s) = {sid} /\ Tells(opened, sid, <<>>) /\ opened.state = d.state
      /\ OthersKept(d, opened, s)
  BY <1>7, InsertOpens
<1> HIDE DEF opened, sid
<1>9. opened.sessions[sid].source = s
  BY <1>8 DEF SessionIds
<1>10. /\ Store(filled) /\ filled.state = opened.state /\ OthersKept(opened, filled, s)
       /\ SessionIds(filled, s) = {sid} /\ Tells(filled, sid, texts)
  <2>1. <<>> \o texts = texts
    BY ConcatEmptySeq
  <2>3. filled = FinalizeSession(InsertTurns(opened, sid, 0, texts), sid)
    OBVIOUS
  <2> HIDE DEF filled
  <2>2. Filled(opened, filled, sid, s, texts)
    <3>1. StoreBut(opened, {sid}) /\ sid \in DOMAIN opened.sessions /\ Counted(opened, sid, 0)
      BY <1>8
    <3> QED BY Zenon, <1>9, <3>1, <2>3, FilledStore
  <2>4. Tells(filled, sid, <<>> \o texts)
    BY <1>8, <2>2 DEF Filled
  <2> QED BY <1>8, <2>1, <2>2, <2>4 DEF Filled
<1> HIDE DEF filled
<1>11. TextsOf(filled, s) = texts
  BY <1>10, StoreTells
<1>12. \A r : r # s => TextsOf(filled, r) = TextsOf(d, r)
  BY <1>8, <1>10, OtherTexts
<1> DEFINE e == UpsertState(filled, u, st)
<1>e. e = UpsertState(filled, u, st)
  OBVIOUS
<1> HIDE DEF e
<1>13. /\ Store(e) /\ (\A v : IngestState(e, v) = IF v = u THEN st ELSE IngestState(filled, v))
       /\ \A r : TextsOf(e, r) = TextsOf(filled, r)
  BY <1>10, <1>e, UpsertKeepsStore
<1>14. \A v : IngestState(filled, v) = IngestState(d, v)
  BY <1>8, <1>10 DEF IngestState
<1>15. Stores(d, e, s, texts, u, st)
  BY <1>11, <1>12, <1>13, <1>14 DEF Stores
<1> QED BY <1>1, <1>15 DEF e

(***************************************************************************)
(* LinkSubagents: a subagent without a parent gets the row of its parent.  *)
(***************************************************************************)
LEMMA LinkKeepsStore ==
    ASSUME NEW d, Store(d), NEW sources
    PROVE  /\ Store(LinkSubagents(d, sources))
           /\ \A u : IngestState(LinkSubagents(d, sources), u) = IngestState(d, u)
           /\ \A s : TextsOf(LinkSubagents(d, sources), s) = TextsOf(d, s)
<1> DEFINE rows == d.sessions
           Parent(row) ==
             IF /\ row.source \in sources
                /\ ParentOf[row.source] # None
                /\ row.parent = None
             THEN LET parents == {p \in SessionIds(d, ParentOf[row.source]) :
                                     ParentOf[rows[p].source] = None}
                  IN  IF parents = {} THEN None ELSE CHOOSE p \in parents : TRUE
             ELSE row.parent
           new == [id \in DOMAIN rows |-> [rows[id] EXCEPT !.parent = Parent(rows[id])]]
           e == LinkSubagents(d, sources)
<1>1. e = [d EXCEPT !.sessions = new]
  BY Zenon DEF LinkSubagents
<1>2. ASSUME NEW c \in DOMAIN rows
      PROVE  \/ Parent(rows[c]) \in {None, rows[c].parent}
             \/ Parent(rows[c]) \in SessionIds(d, ParentOf[rows[c].source])
  <2> DEFINE parents == {p \in SessionIds(d, ParentOf[rows[c].source]) :
                            ParentOf[rows[p].source] = None}
  <2>1. Parent(rows[c]) \in {None, rows[c].parent} \/ Parent(rows[c]) \in parents
    BY Zenon
  <2> QED BY <2>1
<1> HIDE DEF Parent
<1>3. \A id \in DOMAIN rows : DOMAIN rows[id] = SessionColumns
  BY DEF Store, StoreBut, Kin
<1>4. /\ DOMAIN new = DOMAIN rows
      /\ \A id \in DOMAIN rows : /\ DOMAIN new[id] = SessionColumns
                                 /\ new[id].source = rows[id].source
                                 /\ new[id].count = rows[id].count
                                 /\ new[id].parent = Parent(rows[id])
  BY <1>3 DEF SessionColumns
<1> HIDE DEF new, e
<1>5. /\ DOMAIN e = {"state", "sessions", "turns", "chunks"} /\ e.sessions = new
      /\ e.turns = d.turns /\ e.state = d.state
  BY <1>1 DEF Store, StoreBut
<1>6. Kin(new)
  <2>1. Kin(rows)
    BY DEF Store, StoreBut
  <2> HIDE DEF rows
  <2>2. LastId(new) = LastId(rows) /\ Numbered(new)
    BY <1>4, <2>1 DEF LastId, Kin, Numbered
  <2>3. LastId(rows) \in Nat /\ \A id \in DOMAIN rows : id \in Nat \ {0} /\ id <= LastId(rows)
    BY <2>1, LastIdFound DEF Kin
  <2>4. ASSUME NEW c \in DOMAIN new, new[c].parent # None
        PROVE  /\ new[c].parent \in 1..LastId(rows)
               /\ new[c].parent \in DOMAIN new =>
                    new[new[c].parent].source = ParentOf[new[c].source]
    <3> DEFINE p == new[c].parent
    <3>1. CASE p \in SessionIds(d, ParentOf[rows[c].source])
      <4>1. p \in DOMAIN rows /\ rows[p].source = ParentOf[rows[c].source]
        BY <3>1 DEF SessionIds, rows
      <4> QED BY <1>4, <2>3, <4>1
    <3>2. CASE p = rows[c].parent
      <4>1. /\ p \in 1..LastId(rows)
            /\ p \in DOMAIN rows => rows[p].source = ParentOf[rows[c].source]
        BY <1>4, <2>1, <2>4, <3>2 DEF Kin
      <4> QED BY <1>4, <4>1
    <3> QED BY <1>2, <1>4, <2>4, <3>1, <3>2
  <2> QED BY <1>4, <2>1, <2>2, <2>4 DEF Kin
<1>7. \A sid \in DOMAIN e.sessions : Counted(e, sid, e.sessions[sid].count)
  BY <1>4, <1>5, CountedTurns DEF Store, StoreBut
<1>8. \A t \in DOMAIN e.turns : /\ DOMAIN e.turns[t] = TurnColumns
                                /\ e.turns[t].session \in DOMAIN e.sessions
                                /\ e.turns[t].text \in Nat
  BY <1>4, <1>5 DEF Store, StoreBut
<1>9. Numbered(e.turns) /\ \A u \in DOMAIN e.state : e.state[u].bytes \in Nat
  BY <1>5 DEF Store, StoreBut
<1>10. Store(e)
  BY <1>5, <1>6, <1>7, <1>8, <1>9 DEF Store, StoreBut
<1>11. ASSUME NEW s
       PROVE  TextsOf(e, s) = TextsOf(d, s)
  <2>1. SessionIds(e, s) = SessionIds(d, s)
    BY <1>4, <1>5 DEF SessionIds
  <2> QED BY <1>5, <2>1, TextsSame
<1>12. \A u : IngestState(e, u) = IngestState(d, u)
  BY <1>5 DEF IngestState
<1> QED BY <1>10, <1>11, <1>12 DEF e

----------------------------------------------------------------------------
(* What the tools write and what the parsers make of it.                   *)

Records == [conv : Sources, text : Nat, at : Nat]

Parsed == [conv : Sources, turns : Seq(Nat)]

Written == [lines : Seq(Records), half : BOOLEAN, mtime : Nat]

\* At takes records of the list, as many as there are places.
LEMMA AtTyped ==
    ASSUME NEW S, NEW lines \in Seq(S), NEW places \in SUBSET DOMAIN lines
    PROVE  /\ Cardinality(places) \in Nat
           /\ At(lines, places) \in [1..Cardinality(places) -> S]
           /\ At(lines, places) \in Seq(S)
           /\ DOMAIN At(lines, places) = 1..Cardinality(places)
<1> DEFINE n == Cardinality(places)
           Place(k) == CHOOSE i \in places : Cardinality({j \in places : j <= i}) = k
<1>1. /\ Len(lines) \in Nat /\ DOMAIN lines = 1..Len(lines)
      /\ \A i \in DOMAIN lines : lines[i] \in S
  BY LenProperties, ElementOfSeq
<1>2. n \in Nat
  <2>1. IsFiniteSet(DOMAIN lines)
    BY <1>1, FS_Interval
  <2> QED BY <2>1, FS_Subset, FS_CardinalityType
<1>3. ASSUME NEW k \in 1..n
      PROVE  Place(k) \in DOMAIN lines
  <2>1. places \in SUBSET (0..Len(lines))
    BY <1>1
  <2>2. \E x \in places : Cardinality(UpTo(places, x)) = k
    BY <1>1, <2>1, RankExists
  <2>3. \E x \in places : Cardinality({j \in places : j <= x}) = k
    BY Zenon, <2>2 DEF UpTo
  <2>4. Place(k) \in places
    BY Zenon, <2>3
  <2> HIDE DEF Place
  <2> QED BY <2>4
<1>4. At(lines, places) = [k \in 1..n |-> lines[Place(k)]]
  BY Zenon DEF At
<1> HIDE DEF n, Place
<1>5. At(lines, places) \in [1..n -> S]
  BY <1>1, <1>3, <1>4
<1> QED BY <1>2, <1>5, ListedSeq DEF n

\* The records of a session, and its turns, which are their texts.
LEMMA RowsTyped ==
    ASSUME NEW lines \in Seq(Records), NEW s
    PROVE  RowsOf(lines, s) \in Seq(Records)
<1> DEFINE places == {i \in DOMAIN lines : lines[i].conv = s}
<1>1. places \in SUBSET DOMAIN lines
  OBVIOUS
<1>2. RowsOf(lines, s) = At(lines, places)
  BY DEF RowsOf
<1> HIDE DEF places
<1> QED BY <1>1, <1>2, AtTyped

LEMMA TurnsTyped ==
    ASSUME NEW lines \in Seq(Records), NEW s
    PROVE  TurnsOf(lines, s) \in Seq(Nat)
<1> DEFINE own == RowsOf(lines, s)
           n == Len(own)
<1>1. TurnsOf(lines, s) = [k \in DOMAIN own |-> own[k].text]
  BY DEF TurnsOf
<1>2. own \in Seq(Records)
  BY RowsTyped
<1> HIDE DEF own
<1>3. n \in Nat /\ DOMAIN own = 1..n /\ \A k \in 1..n : own[k] \in Records
  BY <1>2, LenProperties, ElementOfSeq
<1> HIDE DEF n
<1>4. TurnsOf(lines, s) \in [1..n -> Nat]
  BY <1>1, <1>3 DEF Records
<1> QED BY <1>3, <1>4, ListedSeq

\* Every parser of a whole file or database returns sessions.
LEMMA SessionsTyped ==
    ASSUME NEW lines \in Seq(Records), NEW convs
    PROVE  SessionsOf(lines, convs) \in Seq(Parsed)
<1> DEFINE places == {i \in DOMAIN lines :
                        /\ lines[i].conv \in convs
                        /\ \A j \in 1..(i - 1) : lines[j].conv # lines[i].conv}
           first == At(lines, places)
<1>1. places \in SUBSET DOMAIN lines
  OBVIOUS
<1>2. SessionsOf(lines, convs)
        = [k \in DOMAIN first |->
             [conv |-> first[k].conv, turns |-> TurnsOf(lines, first[k].conv)]]
  BY Zenon DEF SessionsOf
<1> HIDE DEF places
<1> DEFINE n == Cardinality(places)
<1>3. n \in Nat /\ first \in [1..n -> Records]
  BY <1>1, AtTyped
<1> HIDE DEF first, n
<1>4. ASSUME NEW k \in 1..n
      PROVE  [conv |-> first[k].conv, turns |-> TurnsOf(lines, first[k].conv)] \in Parsed
  <2>1. first[k].conv \in Sources
    BY <1>3 DEF Records
  <2>2. TurnsOf(lines, first[k].conv) \in Seq(Nat)
    BY TurnsTyped
  <2> QED BY <2>1, <2>2 DEF Parsed
<1>5. SessionsOf(lines, convs) \in [1..n -> Parsed]
  BY <1>2, <1>3, <1>4
<1> QED BY <1>3, <1>5, ListedSeq

\* The lines behind a resume point, which may be beyond the end.
LEMMA LinesTyped ==
    ASSUME NEW u, disk[u] \in Written, NEW from \in Nat
    PROVE  LinesFrom(u, from) \in Seq(Records)
<1> DEFINE lines == disk[u].lines
<1>1. lines \in Seq(Records)
  BY DEF Written
<1> HIDE DEF lines
<1>2. Len(lines) \in Nat /\ \A i \in 1..Len(lines) : lines[i] \in Records
  BY <1>1, LenProperties, ElementOfSeq
<1>3. from + 1 \in Int /\ Len(lines) \in Int /\ \A i \in (from + 1)..Len(lines) : lines[i] \in Records
  BY <1>2
<1>4. SubSeq(lines, from + 1, Len(lines)) \in Seq(Records)
  BY <1>3, SubSeqProperties
<1> QED BY <1>4 DEF LinesFrom, lines

\* So do the parsers of a file that is one session.
LEMMA OneSessionTyped ==
    ASSUME NEW u, disk[u] \in Written, NEW change, change.from \in Nat, NEW s \in Sources
    PROVE  OneSession(u, change, s) \in Seq(Parsed)
<1> DEFINE read == LinesFrom(u, change.from)
<1>1. read \in Seq(Records)
  BY LinesTyped
<1> HIDE DEF read
<1>2. Len(read) \in Nat /\ DOMAIN read = 1..Len(read) /\ \A i \in DOMAIN read : read[i] \in Records
  BY <1>1, LenProperties, ElementOfSeq
<1> DEFINE texts == [i \in DOMAIN read |-> read[i].text]
<1>3. texts \in Seq(Nat)
  <2>1. texts \in [1..Len(read) -> Nat]
    BY <1>2 DEF Records
  <2> HIDE DEF texts
  <2> QED BY <1>2, <2>1, ListedSeq
<1>4. OneSession(u, change, s) = <<>>
      \/ OneSession(u, change, s) = <<[conv |-> s, turns |-> texts]>>
  BY Zenon DEF OneSession, read
<1> HIDE DEF texts
<1>5. [conv |-> s, turns |-> texts] \in Parsed
  BY <1>3 DEF Parsed
<1> DEFINE row == [conv |-> s, turns |-> texts]
<1>6. row \in Parsed /\ (OneSession(u, change, s) = <<>> \/ OneSession(u, change, s) = <<row>>)
  BY <1>4, <1>5
<1> HIDE DEF row
<1>7. <<>> \in Seq(Parsed) /\ <<row>> \in Seq(Parsed)
  BY <1>6
<1> QED BY <1>6, <1>7

(***************************************************************************)
(* Whatever a unit holds and wherever its resume point is, the parser of   *)
(* its agent returns sessions of known conversations.                      *)
(***************************************************************************)
LEMMA ParseTyped ==
    ASSUME NEW u \in Units, disk[u] \in Written, disk[u] # Absent,
           NEW change, change.from \in Nat, NEW st
    PROVE  Parse(u, change, st) \in Seq(Parsed)
<1>1. disk[u].lines \in Seq(Records)
  BY DEF Written
<1>2. u \in Sources /\ \A s \in Conv[u] : s \in Sources
  BY DEF Sources
<1>3. CASE Agent[u] = "claude"
  <2>1. (CHOOSE s \in Conv[u] : TRUE) \in Sources
    BY <1>2, IngestAssumption
  <2>2. ParseClaude(u, change) \in Seq(Parsed)
    BY <2>1, OneSessionTyped DEF ParseClaude
  <2> QED BY <1>3, <2>2 DEF Parse
<1>4. CASE Agent[u] = "cursor"
  <2>1. (CHOOSE s \in Conv[u] : TRUE) \in Sources
    BY <1>2, IngestAssumption
  <2>2. ParseCursor(u, change) \in Seq(Parsed)
    BY <2>1, OneSessionTyped DEF ParseCursor
  <2> QED BY <1>4, <2>2 DEF Parse
<1>5. CASE Agent[u] = "codex"
  <2> DEFINE s == IF disk[u].lines = <<>> THEN u ELSE disk[u].lines[1].conv
  <2>1. s \in Sources
    <3>1. CASE disk[u].lines = <<>>
      BY <1>2, <3>1
    <3>2. CASE disk[u].lines # <<>>
      <4>1. disk[u].lines[1] \in Records
        BY <1>1, <3>2
      <4> QED BY <3>2, <4>1 DEF Records
    <3> QED BY <3>1, <3>2
  <2>2. ParseCodex(u, change) = OneSession(u, change, s)
    BY DEF ParseCodex
  <2> HIDE DEF s
  <2>3. ParseCodex(u, change) \in Seq(Parsed)
    BY <2>1, <2>2, OneSessionTyped
  <2> QED BY <1>5, <2>3 DEF Parse
<1>6. CASE Agent[u] = "gemini"
  <2>1. LinesFrom(u, change.from) \in Seq(Records)
    BY LinesTyped
  <2>2. ParseGemini(u, change) \in Seq(Parsed)
    BY <2>1, SessionsTyped DEF ParseGemini
  <2> QED BY <1>6, <2>2 DEF Parse
<1>7. Rows(u) \in Seq(Records)
  BY <1>1 DEF Rows
<1>8. CASE Agent[u] = "opencode"
  <2>1. ParseOpencode(u, change, st) \in Seq(Parsed)
    <3>1. PICK convs : ParseOpencode(u, change, st) = SessionsOf(Rows(u), convs)
      BY Zenon DEF ParseOpencode
    <3> QED BY <1>7, <3>1, SessionsTyped
  <2> QED BY <1>8, <2>1 DEF Parse
<1>9. CASE Agent[u] = "devin"
  <2>1. ParseDevin(u, change, st) \in Seq(Parsed)
    <3>1. PICK convs : ParseDevin(u, change, st) = SessionsOf(Rows(u), convs)
      BY Zenon DEF ParseDevin
    <3> QED BY <1>7, <3>1, SessionsTyped
  <2> QED BY <1>9, <2>1 DEF Parse
<1>10. Agent[u] \in {"claude", "cursor", "codex", "gemini"} \cup Databases
  BY IngestAssumption DEF Agents
<1> QED BY <1>3, <1>4, <1>5, <1>6, <1>8, <1>9, <1>10 DEF Databases

----------------------------------------------------------------------------
(* The records of a conversation.                                          *)

\* At puts the record of the k-th place k-th.
LEMMA AtRanked ==
    ASSUME NEW S, NEW lines \in Seq(S), NEW places \in SUBSET DOMAIN lines
    PROVE  /\ places \in SUBSET (0..Len(lines))
           /\ \A i \in places : At(lines, places)[Cardinality(UpTo(places, i))] = lines[i]
<1>1. Len(lines) \in Nat /\ DOMAIN lines = 1..Len(lines)
  BY LenProperties
<1>2. places \in SUBSET (0..Len(lines))
  BY <1>1
<1>3. ASSUME NEW i \in places
      PROVE  At(lines, places)[Cardinality(UpTo(places, i))] = lines[i]
  <2> DEFINE k == Cardinality(UpTo(places, i))
             j == CHOOSE j \in places : Cardinality({x \in places : x <= j}) = k
  <2>1. k \in 1..Cardinality(places)
    BY <1>1, <1>2, RankIsOwn
  <2>2. At(lines, places)[k] = lines[j]
    BY <2>1 DEF At
  <2>3. \E x \in places : Cardinality({y \in places : y <= x}) = k
    BY DEF UpTo
  <2>4. j \in places /\ Cardinality({x \in places : x <= j}) = k
    BY Zenon, <2>3
  <2> HIDE DEF j, k
  <2>5. Cardinality(UpTo(places, j)) = Cardinality(UpTo(places, i))
    BY <2>4 DEF UpTo, k
  <2>6. j = i
    BY <1>1, <1>2, <2>4, <2>5, RankIsOwn
  <2> QED BY <2>2, <2>6 DEF k
<1> QED BY <1>2, <1>3

\* Where a conversation has its records.
Places(lines, s) == {i \in DOMAIN lines : lines[i].conv = s}

\* A list of records has so many places.
LEMMA PlacesOf ==
    ASSUME NEW lines \in Seq(Records), NEW s
    PROVE  /\ Len(lines) \in Nat /\ DOMAIN lines = 1..Len(lines)
           /\ \A i \in 1..Len(lines) : lines[i] \in Records /\ lines[i].text \in Nat
           /\ Places(lines, s) \in SUBSET DOMAIN lines
           /\ Places(lines, s) \in SUBSET (0..Len(lines))
           /\ IsFiniteSet(Places(lines, s)) /\ Cardinality(Places(lines, s)) \in Nat
<1>1. Len(lines) \in Nat /\ DOMAIN lines = 1..Len(lines)
  BY LenProperties
<1>2. \A i \in 1..Len(lines) : lines[i] \in Records
  BY ElementOfSeq
<1>3. \A i \in 1..Len(lines) : lines[i].text \in Nat
  BY <1>2 DEF Records
<1>4. Places(lines, s) \in SUBSET DOMAIN lines
  BY DEF Places
<1>5. Places(lines, s) \in SUBSET (0..Len(lines))
  BY <1>1, <1>4
<1>6. IsFiniteSet(0..Len(lines))
  BY <1>1, FS_Interval
<1>7. IsFiniteSet(Places(lines, s)) /\ Cardinality(Places(lines, s)) \in Nat
  BY <1>5, <1>6, FS_Subset, FS_CardinalityType
<1> QED BY <1>1, <1>2, <1>3, <1>4, <1>5, <1>7

\* The records of a conversation are those at its places, in their order.
LEMMA RowsRanked ==
    ASSUME NEW lines \in Seq(Records), NEW s
    PROVE  /\ RowsOf(lines, s) \in Seq(Records)
           /\ Len(RowsOf(lines, s)) = Cardinality(Places(lines, s))
           /\ \A i \in Places(lines, s) :
                RowsOf(lines, s)[Cardinality(UpTo(Places(lines, s), i))] = lines[i]
<1> DEFINE places == Places(lines, s)
           n == Cardinality(places)
<1>1. RowsOf(lines, s) = At(lines, places)
  BY DEF RowsOf, Places
<1>2. places \in SUBSET DOMAIN lines
  BY PlacesOf
<1> HIDE DEF places
<1>3. /\ n \in Nat /\ At(lines, places) \in [1..n -> Records]
      /\ \A i \in places : At(lines, places)[Cardinality(UpTo(places, i))] = lines[i]
  BY <1>2, AtTyped, AtRanked
<1> HIDE DEF n
<1>4. At(lines, places) \in Seq(Records) /\ Len(At(lines, places)) = n
  BY <1>3, ListedSeq
<1> QED BY <1>1, <1>3, <1>4 DEF places, n

\* And nothing else: what has these records at these ranks is theirs.
LEMMA RowsAre ==
    ASSUME NEW lines \in Seq(Records), NEW s, NEW rows \in Seq(Records),
           Len(rows) = Cardinality(Places(lines, s)),
           \A i \in Places(lines, s) :
             rows[Cardinality(UpTo(Places(lines, s), i))] = lines[i]
    PROVE  RowsOf(lines, s) = rows
<1> DEFINE places == Places(lines, s)
           own == RowsOf(lines, s)
<1>1. /\ own \in Seq(Records) /\ Len(own) = Cardinality(places)
      /\ \A i \in places : own[Cardinality(UpTo(places, i))] = lines[i]
  BY RowsRanked
<1>2. places \in SUBSET (0..Len(lines)) /\ Len(lines) \in Nat
  BY PlacesOf
<1>3. ASSUME NEW k \in 1..Len(own)
      PROVE  own[k] = rows[k]
  <2>1. k \in 1..Cardinality(places)
    BY <1>1
  <2>2. \E i \in places : Cardinality(UpTo(places, i)) = k
    BY <1>2, <2>1, RankExists
  <2> HIDE DEF places, own
  <2>3. PICK i \in places : Cardinality(UpTo(places, i)) = k
    BY <2>2
  <2> QED BY <1>1, <2>3 DEF places
<1> HIDE DEF own
<1>4. own = rows
  BY <1>1, <1>3, SeqEqual
<1> QED BY <1>4 DEF own

\* Each of them is at a place, and each at a place is one of them.
LEMMA RowsFrom ==
    ASSUME NEW lines \in Seq(Records), NEW s
    PROVE  /\ \A k \in DOMAIN RowsOf(lines, s) :
                \E i \in DOMAIN lines : lines[i].conv = s /\ RowsOf(lines, s)[k] = lines[i]
           /\ \A i \in DOMAIN lines : lines[i].conv = s =>
                \E k \in DOMAIN RowsOf(lines, s) : RowsOf(lines, s)[k] = lines[i]
<1> DEFINE places == Places(lines, s)
           own == RowsOf(lines, s)
<1>1. /\ own \in Seq(Records) /\ Len(own) = Cardinality(places)
      /\ \A i \in places : own[Cardinality(UpTo(places, i))] = lines[i]
  BY RowsRanked
<1>2. places \in SUBSET (0..Len(lines)) /\ Len(lines) \in Nat
  BY PlacesOf
<1>3. \A i : i \in places <=> i \in DOMAIN lines /\ lines[i].conv = s
  BY DEF Places
<1> HIDE DEF places, own
<1>4. DOMAIN own = 1..Cardinality(places)
  BY <1>1, LenProperties
<1>5. \A k \in DOMAIN own : \E i \in places : Cardinality(UpTo(places, i)) = k
  BY <1>2, <1>4, RankExists
<1>6. \A i \in places : Cardinality(UpTo(places, i)) \in DOMAIN own
  BY <1>2, <1>4, RankIsOwn
<1>7. \A k \in DOMAIN own : \E i \in DOMAIN lines : lines[i].conv = s /\ own[k] = lines[i]
  BY <1>1, <1>3, <1>5
<1>8. \A i \in DOMAIN lines : lines[i].conv = s => \E k \in DOMAIN own : own[k] = lines[i]
  BY <1>1, <1>3, <1>6
<1> QED BY <1>7, <1>8 DEF own

\* A conversation without a record has no turn.
LEMMA RowsNone ==
    ASSUME NEW lines \in Seq(Records), NEW s, s \notin ConvsOf(lines)
    PROVE  RowsOf(lines, s) = <<>>
<1>1. Places(lines, s) = {}
  BY DEF Places, ConvsOf
<1>2. Cardinality(Places(lines, s)) = 0
  BY <1>1, FS_EmptySet
<1>3. <<>> \in Seq(Records) /\ Len(<<>>) = 0
  OBVIOUS
<1> QED BY <1>1, <1>2, <1>3, RowsAre

LEMMA TurnsNone ==
    ASSUME NEW lines \in Seq(Records), NEW s, s \notin ConvsOf(lines)
    PROVE  TurnsOf(lines, s) = <<>>
<1>1. RowsOf(lines, s) = <<>>
  BY RowsNone
<1>2. TurnsOf(lines, s) \in Seq(Nat) /\ DOMAIN TurnsOf(lines, s) = {}
  BY <1>1, TurnsTyped DEF TurnsOf
<1> DEFINE turns == TurnsOf(lines, s)
<1> HIDE DEF turns
<1>3. turns \in Seq(Nat) /\ DOMAIN turns = {} => turns = <<>>
  OBVIOUS
<1> QED BY <1>2, <1>3 DEF turns

\* Where all records are of one conversation, their texts are its turns.
LEMMA TurnsAll ==
    ASSUME NEW lines \in Seq(Records), NEW s, \A i \in DOMAIN lines : lines[i].conv = s
    PROVE  TurnsOf(lines, s) = [i \in DOMAIN lines |-> lines[i].text]
<1> DEFINE n == Len(lines)
<1>1. n \in Nat /\ DOMAIN lines = 1..n
  BY PlacesOf
<1>2. Places(lines, s) = 1..n
  BY <1>1 DEF Places
<1>3. Len(lines) = n
  OBVIOUS
<1> HIDE DEF n
<1>5. Cardinality(1..n) = n
  <2>1. Cardinality(1..n) = IF 1 > n THEN 0 ELSE n - 1 + 1
    BY <1>1, FS_Interval
  <2> QED BY <1>1, <2>1
<1>6. ASSUME NEW i \in 1..n
      PROVE  Cardinality(UpTo(1..n, i)) = i
  <2>1. UpTo(1..n, i) = 1..i
    BY <1>1 DEF UpTo
  <2>2. Cardinality(1..i) = IF 1 > i THEN 0 ELSE i - 1 + 1
    BY <1>1, FS_Interval
  <2> QED BY <1>1, <2>1, <2>2
<1>7. RowsOf(lines, s) = lines
  BY <1>2, <1>3, <1>5, <1>6, RowsAre
<1> QED BY <1>7 DEF TurnsOf

(***************************************************************************)
(* The records of a list and of what is appended to it come one after the  *)
(* other, and so do the turns: those of the second keep their order,       *)
(* behind all those of the first.                                          *)
(***************************************************************************)
LEMMA RowsSplit ==
    ASSUME NEW a \in Seq(Records), NEW b \in Seq(Records), NEW s
    PROVE  RowsOf(a \o b, s) = RowsOf(a, s) \o RowsOf(b, s)
<1> DEFINE c == a \o b
           l == Len(a)
           A == Places(a, s)
           B == Places(b, s)
           Up(S) == {l + x : x \in S}
           rows == RowsOf(a, s) \o RowsOf(b, s)
<1>1. /\ c \in Seq(Records) /\ Len(c) = l + Len(b)
      /\ \A i \in 1..(l + Len(b)) : c[i] = IF i <= l THEN a[i] ELSE b[i - l]
  BY ConcatProperties
<1>2. /\ l \in Nat /\ DOMAIN a = 1..l /\ A \in SUBSET (1..l) /\ IsFiniteSet(A)
      /\ Cardinality(A) \in Nat /\ A \in SUBSET (0..l)
  BY PlacesOf
<1>3. /\ Len(b) \in Nat /\ DOMAIN b = 1..Len(b) /\ B \in SUBSET (1..Len(b)) /\ IsFiniteSet(B)
      /\ Cardinality(B) \in Nat /\ B \in SUBSET (0..Len(b))
  BY PlacesOf
<1>4. DOMAIN c = 1..(l + Len(b))
  BY <1>1, LenProperties
<1>5. \A i \in A : a[i].conv = s
  BY DEF Places
<1>6. \A i \in B : b[i].conv = s
  BY DEF Places
<1>7. \A i \in 1..l : c[i] = a[i] /\ i \in 1..(l + Len(b))
  BY <1>1, <1>2, <1>3
<1>8. \A j \in 1..Len(b) : c[l + j] = b[j] /\ l + j \in 1..(l + Len(b))
  BY <1>1, <1>2, <1>3
<1>9. \A i \in 1..l : i \in A <=> a[i].conv = s
  BY <1>2 DEF Places
<1>10. \A j \in 1..Len(b) : j \in B <=> b[j].conv = s
  BY <1>3 DEF Places
<1> HIDE DEF A, B, c
<1>11. Places(c, s) = A \cup Up(B)
  <2>1. A \cup Up(B) \subseteq Places(c, s)
    <3>1. \A i \in A : i \in DOMAIN c /\ c[i].conv = s
      BY <1>2, <1>4, <1>5, <1>7
    <3>2. \A j \in B : l + j \in DOMAIN c /\ c[l + j].conv = s
      BY <1>3, <1>4, <1>6, <1>8
    <3> QED BY <3>1, <3>2 DEF Places
  <2>2. ASSUME NEW i \in Places(c, s)
        PROVE  i \in A \cup Up(B)
    <3>1. i \in 1..(l + Len(b)) /\ c[i].conv = s
      BY <1>4 DEF Places
    <3>2. CASE i <= l
      <4>1. i \in 1..l
        BY <1>2, <3>1, <3>2
      <4> QED BY <1>7, <1>9, <3>1, <4>1
    <3>3. CASE ~(i <= l)
      <4> DEFINE j == i - l
      <4>1. j \in 1..Len(b) /\ l + j = i
        BY <1>2, <1>3, <3>1, <3>3
      <4> HIDE DEF j
      <4>2. j \in B
        BY <1>8, <1>10, <3>1, <4>1
      <4> QED BY <4>1, <4>2
    <3> QED BY <3>2, <3>3
  <2> QED BY <2>1, <2>2
\* So many are the records of both, and so are they ranked.
<1>12. \A S \in SUBSET B : /\ IsFiniteSet(A \cup Up(S))
                           /\ Cardinality(A \cup Up(S)) = Cardinality(A) + Cardinality(S)
  <2> TAKE S \in SUBSET B
  <2>1. S \in SUBSET (0..Len(b))
    BY <1>3
  <2>2. IsFiniteSet(Up(S)) /\ Cardinality(Up(S)) = Cardinality(S)
    BY <1>2, <1>3, <2>1, MovedUp
  <2>3. A \cap Up(S) = {}
    <3>1. \A j \in S : ~(l + j \in 1..l)
      BY <1>2, <1>3
    <3> QED BY <1>2, <3>1
  <2>4. Cardinality(S) \in Nat
    BY <1>3, FS_Subset, FS_CardinalityType
  <2> HIDE DEF Up
  <2>5. /\ IsFiniteSet(A \cup Up(S))
        /\ Cardinality(A \cup Up(S)) = Cardinality(A) + Cardinality(Up(S)) - Cardinality(A \cap Up(S))
    BY <1>2, <2>2, FS_Union
  <2>6. Cardinality(A \cap Up(S)) = 0
    BY <2>3, FS_EmptySet
  <2> QED BY <1>2, <2>2, <2>4, <2>5, <2>6
<1>13. ASSUME NEW i \in A
       PROVE  UpTo(A \cup Up(B), i) = UpTo(A, i)
  <2>1. \A j \in B : ~(l + j <= i)
    BY <1>2, <1>3
  <2> QED BY <2>1 DEF UpTo
<1>14. ASSUME NEW j \in B
       PROVE  UpTo(A \cup Up(B), l + j) = A \cup Up(UpTo(B, j))
  <2>1. \A i \in A : i <= l + j
    BY <1>2, <1>3
  <2>2. \A x \in B : l + x <= l + j <=> x <= j
    BY <1>2, <1>3
  <2> QED BY <2>1, <2>2 DEF UpTo
<1>15. /\ RowsOf(a, s) \in Seq(Records) /\ Len(RowsOf(a, s)) = Cardinality(A)
       /\ \A i \in A : RowsOf(a, s)[Cardinality(UpTo(A, i))] = a[i]
  BY RowsRanked DEF A
<1>16. /\ RowsOf(b, s) \in Seq(Records) /\ Len(RowsOf(b, s)) = Cardinality(B)
       /\ \A j \in B : RowsOf(b, s)[Cardinality(UpTo(B, j))] = b[j]
  BY RowsRanked DEF B
<1>17. /\ rows \in Seq(Records) /\ Len(rows) = Cardinality(A) + Cardinality(B)
       /\ \A k \in 1..(Cardinality(A) + Cardinality(B)) :
            rows[k] = IF k <= Cardinality(A) THEN RowsOf(a, s)[k]
                       ELSE RowsOf(b, s)[k - Cardinality(A)]
  <2> DEFINE x == RowsOf(a, s)
             y == RowsOf(b, s)
  <2>1. /\ x \in Seq(Records) /\ y \in Seq(Records) /\ rows = x \o y
        /\ Len(x) = Cardinality(A) /\ Len(y) = Cardinality(B)
    BY <1>15, <1>16
  <2> HIDE DEF x, y, rows
  <2>2. /\ x \o y \in Seq(Records) /\ Len(x \o y) = Len(x) + Len(y)
        /\ \A k \in 1..(Len(x) + Len(y)) : (x \o y)[k] = IF k <= Len(x) THEN x[k] ELSE y[k - Len(x)]
    BY <2>1, ConcatProperties
  <2> QED BY <2>1, <2>2 DEF x, y
<1> HIDE DEF rows, Up, l
<1>18. Len(rows) = Cardinality(Places(c, s))
  <2>1. Cardinality(A \cup Up(B)) = Cardinality(A) + Cardinality(B)
    BY <1>12
  <2> QED BY <1>11, <1>17, <2>1
<1>19. ASSUME NEW i \in Places(c, s)
       PROVE  rows[Cardinality(UpTo(Places(c, s), i))] = c[i]
  <2>1. CASE i \in A
    <3> DEFINE k == Cardinality(UpTo(A, i))
    <3>1. k \in 1..Cardinality(A)
      BY <1>2, <2>1, RankIsOwn
    <3>2. Cardinality(UpTo(Places(c, s), i)) = k
      BY <1>11, <1>13, <2>1
    <3> HIDE DEF k
    <3>3. rows[k] = RowsOf(a, s)[k]
      BY <1>2, <1>3, <1>17, <3>1
    <3>4. RowsOf(a, s)[k] = a[i] /\ c[i] = a[i]
      BY <1>2, <1>7, <1>15, <2>1 DEF k
    <3> QED BY <3>2, <3>3, <3>4
  <2>2. CASE i \in Up(B)
    <3>1. PICK j \in B : i = l + j
      BY <2>2 DEF Up
    <3> DEFINE k == Cardinality(UpTo(B, j))
    <3>2. k \in 1..Cardinality(B)
      BY <1>3, <3>1, RankIsOwn
    <3>3. UpTo(B, j) \in SUBSET B
      BY DEF UpTo
    <3>4. Cardinality(A \cup Up(UpTo(B, j))) = Cardinality(A) + k
      BY <1>12, <3>3
    <3>5. Cardinality(UpTo(Places(c, s), i)) = Cardinality(A) + k
      BY <1>11, <1>14, <3>1, <3>4
    <3>6. RowsOf(b, s)[k] = b[j] /\ c[i] = b[j]
      BY <1>3, <1>8, <1>16, <3>1
    <3> HIDE DEF k
    <3>7. rows[Cardinality(A) + k] = RowsOf(b, s)[k]
      <4>1. /\ Cardinality(A) + k \in 1..(Cardinality(A) + Cardinality(B))
            /\ ~(Cardinality(A) + k <= Cardinality(A))
            /\ (Cardinality(A) + k) - Cardinality(A) = k
        BY <1>2, <1>3, <3>2
      <4> QED BY <1>17, <4>1
    <3> QED BY <3>5, <3>6, <3>7
  <2> QED BY <1>11, <2>1, <2>2
<1>20. RowsOf(c, s) = rows
  BY <1>1, <1>17, <1>18, <1>19, RowsAre
<1> QED BY <1>20 DEF c, rows

\* The same, as a fact about all pairs.
LEMMA RowsOfAll ==
    \A s : \A p, q \in Seq(Records) : RowsOf(p \o q, s) = RowsOf(p, s) \o RowsOf(q, s)
<1> SUFFICES ASSUME NEW s, NEW p \in Seq(Records), NEW q \in Seq(Records)
             PROVE  RowsOf(p \o q, s) = RowsOf(p, s) \o RowsOf(q, s)
  OBVIOUS
<1> QED BY RowsSplit

\* So are the turns of a conversation in two stretches of records.
LEMMA TurnsSplit ==
    ASSUME NEW a \in Seq(Records), NEW b \in Seq(Records), NEW s
    PROVE  TurnsOf(a \o b, s) = TurnsOf(a, s) \o TurnsOf(b, s)
<1> DEFINE x == RowsOf(a, s)
           y == RowsOf(b, s)
           tx == TurnsOf(a, s)
           ty == TurnsOf(b, s)
           c == TurnsOf(a \o b, s)
<1>1. x \in Seq(Records) /\ y \in Seq(Records) /\ tx \in Seq(Nat) /\ ty \in Seq(Nat)
  BY RowsTyped, TurnsTyped
<1>2. RowsOf(a \o b, s) = x \o y
  BY RowsSplit
<1>3. a \o b \in Seq(Records)
  BY ConcatProperties
<1>4. c \in Seq(Nat)
  BY <1>3, TurnsTyped
<1>5. /\ DOMAIN c = DOMAIN (x \o y) /\ \A k \in DOMAIN c : c[k] = (x \o y)[k].text
      /\ DOMAIN tx = DOMAIN x /\ \A k \in DOMAIN x : tx[k] = x[k].text
      /\ DOMAIN ty = DOMAIN y /\ \A k \in DOMAIN y : ty[k] = y[k].text
  BY <1>2 DEF TurnsOf
<1> HIDE DEF x, y, tx, ty, c
<1>6. /\ x \o y \in Seq(Records) /\ Len(x \o y) = Len(x) + Len(y)
      /\ \A i \in 1..(Len(x) + Len(y)) :
           (x \o y)[i] = IF i <= Len(x) THEN x[i] ELSE y[i - Len(x)]
      /\ tx \o ty \in Seq(Nat) /\ Len(tx \o ty) = Len(tx) + Len(ty)
      /\ \A i \in 1..(Len(tx) + Len(ty)) :
           (tx \o ty)[i] = IF i <= Len(tx) THEN tx[i] ELSE ty[i - Len(tx)]
  BY <1>1, ConcatProperties
<1>7. /\ Len(x) \in Nat /\ DOMAIN x = 1..Len(x) /\ Len(y) \in Nat /\ DOMAIN y = 1..Len(y)
      /\ Len(tx) \in Nat /\ DOMAIN tx = 1..Len(tx) /\ Len(ty) \in Nat /\ DOMAIN ty = 1..Len(ty)
      /\ Len(c) \in Nat /\ DOMAIN c = 1..Len(c)
      /\ DOMAIN (x \o y) = 1..(Len(x) + Len(y))
  BY <1>1, <1>4, <1>6, LenProperties
<1> DEFINE n == Len(x)
           m == Len(y)
<1>9. n \in Nat /\ m \in Nat /\ n + m \in Nat
  BY <1>7
<1>8. Len(tx) = n /\ Len(ty) = m /\ Len(c) = n + m
  <2>1. 1..Len(tx) = 1..n /\ 1..Len(ty) = 1..m /\ 1..Len(c) = 1..(n + m)
    BY <1>5, <1>7
  <2>2. \A p, q \in Nat : 1..p = 1..q => p = q
    OBVIOUS
  <2> QED BY <1>7, <1>9, <2>1, <2>2
<1>10. ASSUME NEW i \in 1..Len(c)
       PROVE  c[i] = (tx \o ty)[i]
  <2>1. i \in 1..(n + m)
    BY <1>8
  <2>2. CASE i <= n
    <3>1. i \in 1..n
      BY <1>9, <2>1, <2>2
    <3> QED BY <1>5, <1>6, <1>7, <1>8, <2>1, <2>2, <3>1
  <2>3. CASE ~(i <= n)
    <3>1. i - n \in 1..m
      BY <1>9, <2>1, <2>3
    <3>2. c[i] = (x \o y)[i].text /\ (x \o y)[i] = y[i - n]
      BY <1>5, <1>6, <1>7, <1>8, <2>1, <2>3
    <3>3. (tx \o ty)[i] = ty[i - n]
      BY <1>6, <1>8, <2>1, <2>3
    <3>4. ty[i - n] = y[i - n].text
      BY <1>5, <1>7, <3>1
    <3> QED BY <3>2, <3>3, <3>4
  <2> QED BY <2>2, <2>3
<1>11. c = tx \o ty
  BY <1>4, <1>6, <1>8, <1>10, SeqEqual
<1> QED BY <1>11 DEF c, tx, ty

\* So the turns of a beginning begin the turns of the whole.
LEMMA TurnsOfPrefix ==
    ASSUME NEW a \in Seq(Records), NEW b \in Seq(Records), IsPrefix(a, b), NEW s
    PROVE  IsPrefix(TurnsOf(a, s), TurnsOf(b, s))
<1> DEFINE rest == SubSeq(b, Len(a) + 1, Len(b))
<1>1. rest \in Seq(Records) /\ b = a \o rest
  BY PrefixMeans
<1> HIDE DEF rest
<1>2. TurnsOf(b, s) = TurnsOf(a, s) \o TurnsOf(rest, s)
  BY <1>1, TurnsSplit
<1>3. TurnsOf(a, s) \in Seq(Nat) /\ TurnsOf(rest, s) \in Seq(Nat)
  BY <1>1, TurnsTyped
<1> QED BY <1>2, <1>3, PrefixOfLonger

(***************************************************************************)
(* SessionsOf: each of these conversations once, with its turns.           *)
(***************************************************************************)
LEMMA SessionsCover ==
    ASSUME NEW lines \in Seq(Records), NEW convs
    PROVE  LET sessions == SessionsOf(lines, convs)
           IN  /\ \A n \in DOMAIN sessions :
                    /\ sessions[n].conv \in ConvsOf(lines)
                    /\ sessions[n].turns = TurnsOf(lines, sessions[n].conv)
               /\ \A s \in ConvsOf(lines) \cap convs :
                    \E n \in DOMAIN sessions : sessions[n].conv = s
               /\ \A n, m \in DOMAIN sessions : sessions[n].conv = sessions[m].conv => n = m
<1> DEFINE places == {i \in DOMAIN lines :
                        /\ lines[i].conv \in convs
                        /\ \A j \in 1..(i - 1) : lines[j].conv # lines[i].conv}
           first == At(lines, places)
           sessions == SessionsOf(lines, convs)
           Rank(i) == Cardinality(UpTo(places, i))
<1>1. sessions = [k \in DOMAIN first |->
                    [conv |-> first[k].conv, turns |-> TurnsOf(lines, first[k].conv)]]
  BY Zenon DEF SessionsOf
<1>2. places \in SUBSET DOMAIN lines /\ Len(lines) \in Nat /\ DOMAIN lines = 1..Len(lines)
  BY LenProperties
<1>3. \A i \in DOMAIN lines :
        i \in places <=> /\ lines[i].conv \in convs
                         /\ \A j \in 1..(i - 1) : lines[j].conv # lines[i].conv
  OBVIOUS
<1> HIDE DEF places, sessions
<1>4. DOMAIN first = 1..Cardinality(places)
  BY <1>2, AtTyped
<1>5. /\ places \in SUBSET (0..Len(lines))
      /\ \A i \in places : first[Rank(i)] = lines[i]
  BY <1>2, AtRanked
<1>6. \A i \in places : Rank(i) \in DOMAIN first
  BY <1>2, <1>4, <1>5, RankIsOwn
<1>7. ASSUME NEW n \in DOMAIN first
      PROVE  \E i \in places : Rank(i) = n
  BY <1>2, <1>4, <1>5, RankExists
<1> HIDE DEF first
<1>8. DOMAIN sessions = DOMAIN first
      /\ \A n \in DOMAIN first : /\ sessions[n].conv = first[n].conv
                                 /\ sessions[n].turns = TurnsOf(lines, first[n].conv)
  BY <1>1
<1>9. ASSUME NEW n \in DOMAIN sessions
      PROVE  sessions[n].conv \in ConvsOf(lines)
  <2>1. PICK i \in places : Rank(i) = n
    BY <1>7, <1>8
  <2>2. sessions[n].conv = lines[i].conv
    BY <1>5, <1>8, <2>1
  <2> QED BY <1>2, <2>2 DEF ConvsOf
<1>10. ASSUME NEW s \in ConvsOf(lines), s \in convs
       PROVE  \E n \in DOMAIN sessions : sessions[n].conv = s
  <2> DEFINE own == {i \in DOMAIN lines : lines[i].conv = s}
  <2>1. own # {} /\ own \in SUBSET Nat
    BY <1>2 DEF ConvsOf
  <2>2. PICK i \in own : \A j \in own : i <= j
    BY <2>1, LeastExists
  <2>3. i \in DOMAIN lines /\ lines[i].conv = s /\ i \in 1..Len(lines)
    BY <1>2, <2>2
  <2>4. \A j \in 1..(i - 1) : j \in DOMAIN lines /\ ~(i <= j)
    BY <1>2, <2>3
  <2>5. \A j \in 1..(i - 1) : lines[j].conv # s
    BY <2>2, <2>4
  <2>6. i \in places
    BY <1>3, <1>10, <2>3, <2>5
  <2>7. sessions[Rank(i)].conv = s /\ Rank(i) \in DOMAIN sessions
    BY <1>5, <1>6, <1>8, <2>3, <2>6
  <2> QED BY <2>7
<1>11. ASSUME NEW n \in DOMAIN sessions, NEW m \in DOMAIN sessions,
              sessions[n].conv = sessions[m].conv
       PROVE  n = m
  <2>1. PICK i \in places : Rank(i) = n
    BY <1>7, <1>8
  <2>2. PICK j \in places : Rank(j) = m
    BY <1>7, <1>8
  <2>3. lines[i].conv = lines[j].conv
    BY <1>5, <1>8, <1>11, <2>1, <2>2
  <2>4. i \in 1..Len(lines) /\ j \in 1..Len(lines)
    BY <1>2
  <2>5. ~(i < j)
    <3>1. i < j => i \in 1..(j - 1)
      BY <1>2, <2>4
    <3> QED BY <1>2, <1>3, <2>3, <3>1
  <2>6. ~(j < i)
    <3>1. j < i => j \in 1..(i - 1)
      BY <1>2, <2>4
    <3> QED BY <1>2, <1>3, <2>3, <3>1
  <2>7. i = j
    BY <1>2, <2>4, <2>5, <2>6
  <2> QED BY <2>1, <2>2, <2>7
<1>12. \A n \in DOMAIN sessions : sessions[n].turns = TurnsOf(lines, sessions[n].conv)
  BY <1>8
<1> QED BY <1>9, <1>10, <1>11, <1>12 DEF sessions

----------------------------------------------------------------------------
(* Passes.                                                                 *)

DiskTyped ==
    /\ disk \in [Units -> {Absent} \cup Written]
    /\ clock \in Nat

(***************************************************************************)
(* What a pass holds: the resume point it read, the sessions it parsed and *)
(* the one of them it stores next.                                         *)
(***************************************************************************)
Job(job) ==
    /\ DOMAIN job = DOMAIN Idle
    /\ JobType(job)
    /\ job.unit \in Units \cup {None}
    /\ job.old # None => job.old.bytes \in Nat
    /\ job.change.from \in Nat
    /\ job.prefix \in Seq(Records)
    /\ job.sessions \in Seq(Parsed)
    /\ job.k \in Nat
    /\ job.pc # "store" => job.k = 1

IngestInv ==
    /\ Store(db)
    /\ DiskTyped
    /\ \A i \in Ingesters : Job(ing[i])
    /\ DOMAIN ing = Ingesters
    /\ doubt \subseteq Sources

Fields == {"pc", "agent", "seen", "unit", "old", "change", "sessions", "prefix", "cursor",
           "k", "base", "fooled"}

LEMMA IdleTyped == Job(Idle) /\ DOMAIN Idle = Fields
<1>1. DOMAIN Idle = Fields
  BY DEF Idle, Fields
<1>2. /\ Idle.pc = "idle" /\ Idle.seen = <<>> /\ Idle.unit = None /\ Idle.old = None
      /\ Idle.change.from = 0 /\ Idle.sessions = <<>> /\ Idle.prefix = <<>> /\ Idle.k = 1
  BY DEF Idle, Unchanged
<1>3. Idle.prefix \in Seq(Records) /\ Idle.sessions \in Seq(Parsed) /\ DOMAIN Idle.seen = {}
  BY <1>2
<1>4. JobType(Idle)
  BY <1>2, <1>3 DEF JobType
<1> QED BY <1>1, <1>2, <1>3, <1>4 DEF Job

\* A pass that goes on to its next unit holds nothing of the last.
LEMMA NextUnitTyped ==
    ASSUME NEW job, DOMAIN job = Fields, DOMAIN job.seen \subseteq Units
    PROVE  Job(NextUnit(job))
<1> DEFINE next == NextUnit(job)
<1>1. /\ DOMAIN next = Fields
      /\ next.pc = "unit" /\ next.seen = Without(job.seen, {job.unit}) /\ next.unit = None
      /\ next.old = None /\ next.change = Unchanged /\ next.sessions = <<>>
      /\ next.prefix = <<>> /\ next.k = 1
  BY DEF NextUnit, Fields
<1> HIDE DEF next
<1>2. DOMAIN next.seen \subseteq Units
  <2>1. DOMAIN Without(job.seen, {job.unit}) = DOMAIN job.seen \ {job.unit}
    BY WithoutRows
  <2> QED BY <1>1, <2>1
<1>3. next.change.from = 0
  BY <1>1 DEF Unchanged
<1>4. next.prefix \in Seq(Records) /\ next.sessions \in Seq(Parsed)
  BY <1>1
<1>5. JobType(next)
  BY <1>1, <1>2 DEF JobType
<1>6. Job(next)
  BY <1>1, <1>2, <1>3, <1>4, <1>5, IdleTyped DEF Job
<1> QED BY <1>6 DEF next

\* Nothing but the pass of i changes.
LEMMA PassMoves ==
    ASSUME IngestInv, NEW i \in Ingesters, NEW job, Job(job),
           ing' = [ing EXCEPT ![i] = job], UNCHANGED <<db, disk, clock, doubt>>
    PROVE  IngestInv'
<1>1. \A j \in Ingesters : Job(ing'[j])
  BY DEF IngestInv
<1>2. DOMAIN ing' = Ingesters
  BY DEF IngestInv
<1>3. Store(db') /\ disk' = disk /\ clock' = clock /\ doubt' = doubt
  BY DEF IngestInv
<1> QED BY <1>1, <1>2, <1>3 DEF IngestInv, DiskTyped

LEMMA StartStep ==
    ASSUME IngestInv, NEW i \in Ingesters, Start(i)
    PROVE  IngestInv'
<1>1. PICK agent \in Agents :
        ing' = [ing EXCEPT ![i] =
                  [Idle EXCEPT !.pc = "unit", !.agent = agent, !.seen = Discover(agent)]]
  BY DEF Start
<1> DEFINE job == [Idle EXCEPT !.pc = "unit", !.agent = agent, !.seen = Discover(agent)]
<1>2. /\ DOMAIN job = Fields /\ job.pc = "unit" /\ job.seen = Discover(agent)
      /\ job.unit = Idle.unit /\ job.old = Idle.old /\ job.change = Idle.change
      /\ job.sessions = Idle.sessions /\ job.prefix = Idle.prefix /\ job.k = Idle.k
  BY IdleTyped DEF Fields
<1>3. Idle.unit = None /\ Idle.k = 1
  BY DEF Idle
<1>4. DOMAIN Discover(agent) \subseteq Units
  BY DEF Discover
<1>5. ing' = [ing EXCEPT ![i] = job]
  BY <1>1
<1> HIDE DEF job
<1>6. JobType(job)
  BY <1>2, <1>3, <1>4 DEF JobType
<1>7. Job(job)
  BY <1>2, <1>3, <1>6, IdleTyped DEF Job
<1>8. UNCHANGED <<db, disk, clock, doubt>>
  BY DEF Start
<1> QED BY <1>5, <1>7, <1>8, PassMoves

\* The recorded state of a unit has its byte offset.
LEMMA RecordedBytes ==
    ASSUME Store(db), NEW u, IngestState(db, u) # None
    PROVE  IngestState(db, u).bytes \in Nat
  BY DEF Store, StoreBut, IngestState

\* A unit is resumed at a recorded offset or from its beginning.
LEMMA ClassifyTyped ==
    ASSUME NEW u, NEW seen, NEW st, st # None => st.bytes \in Nat
    PROVE  Classify(u, seen, st).from \in Nat
<1>1. /\ New.from = 0 /\ Rewritten.from = 0 /\ Unchanged.from = 0
      /\ \A n : Appended(n).from = n
  BY DEF New, Rewritten, Unchanged, Appended
<1>2. ClassifyFile(seen, st).from \in Nat
  BY <1>1 DEF ClassifyFile
<1>3. ClassifyDatabase(u, st).from \in Nat
  BY <1>1 DEF ClassifyDatabase
<1> QED BY <1>1, <1>2, <1>3 DEF Classify

LEMMA TakeStep ==
    ASSUME IngestInv, NEW i \in Ingesters, Take(i)
    PROVE  IngestInv'
<1> DEFINE job == ing[i]
<1>1. Job(job) /\ job.pc = "unit" /\ DOMAIN job = Fields
  BY IdleTyped DEF IngestInv, Take, Job
<1>2. PICK u \in DOMAIN job.seen :
        LET st == IngestState(db, u)
            change == Classify(u, job.seen[u], st)
        IN  ing' = [ing EXCEPT ![i] =
               IF change = Unchanged THEN NextUnit([job EXCEPT !.unit = u])
               ELSE [job EXCEPT !.pc = "parse", !.unit = u, !.old = st,
                                !.change = change, !.base = Behind(u)]]
  BY Zenon DEF Take
<1> DEFINE st == IngestState(db, u)
           change == Classify(u, job.seen[u], st)
           skipped == NextUnit([job EXCEPT !.unit = u])
           taken == [job EXCEPT !.pc = "parse", !.unit = u, !.old = st,
                                !.change = change, !.base = Behind(u)]
<1>3. ing' = [ing EXCEPT ![i] = IF change = Unchanged THEN skipped ELSE taken]
  BY Zenon, <1>2
<1>4. UNCHANGED <<db, disk, clock, doubt>>
  BY DEF Take
<1>5. u \in Units /\ DOMAIN job.seen \subseteq Units
  BY <1>1, <1>2 DEF Job, JobType
<1>6. (st # None => st.bytes \in Nat) /\ change.from \in Nat
  BY RecordedBytes, ClassifyTyped DEF IngestInv
<1> HIDE DEF job, st, change
<1>7. Job(skipped)
  <2> DEFINE named == [job EXCEPT !.unit = u]
  <2>1. DOMAIN named = Fields /\ DOMAIN named.seen \subseteq Units
    BY <1>1, <1>5 DEF Fields
  <2> HIDE DEF named
  <2>2. Job(NextUnit(named))
    BY <2>1, NextUnitTyped
  <2> QED BY <2>2 DEF named
<1>8. Job(taken)
  <2>1. /\ DOMAIN taken = Fields /\ taken.pc = "parse" /\ taken.unit = u /\ taken.old = st
        /\ taken.change = change /\ taken.seen = job.seen /\ taken.sessions = job.sessions
        /\ taken.prefix = job.prefix /\ taken.k = job.k
    BY <1>1 DEF Fields
  <2> HIDE DEF taken
  <2>2. JobType(taken)
    BY <1>5, <2>1, IngestAssumption DEF JobType
  <2> QED BY <1>1, <1>5, <1>6, <2>1, <2>2, IdleTyped DEF Job
<1> HIDE DEF skipped, taken
<1>9. Job(IF change = Unchanged THEN skipped ELSE taken)
  BY <1>7, <1>8
<1> QED BY <1>3, <1>4, <1>9, PassMoves

\* SnapshotCursor and MakeCursor set the cursor and go on.
LEMMA CursorTaken ==
    ASSUME NEW job, Job(job), job.unit # None, NEW pc \in {"select", "store"},
           pc = "store" => job.pc = "cursor" /\ job.k = 1, job.pc # "store", NEW c
    PROVE  Job([job EXCEPT !.pc = pc, !.cursor = c])
<1> DEFINE next == [job EXCEPT !.pc = pc, !.cursor = c]
<1>1. /\ DOMAIN next = Fields /\ next.pc = pc /\ next.unit = job.unit /\ next.old = job.old
      /\ next.change = job.change /\ next.seen = job.seen /\ next.sessions = job.sessions
      /\ next.prefix = job.prefix /\ next.k = job.k
  BY IdleTyped DEF Job, Fields
<1> HIDE DEF next
<1>2. job.k = 1
  BY DEF Job
<1>3. job.sessions # <<>> => 1 \in DOMAIN job.sessions
  BY DEF Job
<1>4. JobType(next)
  BY <1>1, <1>2, <1>3 DEF Job, JobType
<1>5. Job(next)
  BY <1>1, <1>2, <1>4, IdleTyped DEF Job
<1> QED BY <1>5 DEF next

LEMMA SnapshotCursorStep ==
    ASSUME IngestInv, NEW i \in Ingesters, SnapshotCursor(i)
    PROVE  IngestInv'
<1> DEFINE job == ing[i]
           next == [job EXCEPT !.pc = "select", !.cursor = MaxCursor(job.unit)]
<1>1. Job(job) /\ job.pc = "parse" /\ ing' = [ing EXCEPT ![i] = next]
      /\ UNCHANGED <<db, disk, clock, doubt>>
  BY DEF IngestInv, SnapshotCursor
<1>2. job.unit # None
  BY <1>1 DEF Job, JobType
<1> HIDE DEF job
<1>3. Job(next)
  BY <1>1, <1>2, CursorTaken
<1> HIDE DEF next
<1> QED BY <1>1, <1>3, PassMoves

LEMMA MakeCursorStep ==
    ASSUME IngestInv, NEW i \in Ingesters, MakeCursor(i)
    PROVE  IngestInv'
<1> DEFINE job == ing[i]
           next == [job EXCEPT !.pc = "store", !.cursor = TailHash(job.unit, Consumed(job))]
<1>1. Job(job) /\ job.pc = "cursor" /\ ing' = [ing EXCEPT ![i] = next]
      /\ UNCHANGED <<db, disk, clock, doubt>>
  BY DEF IngestInv, MakeCursor
<1>2. job.unit # None /\ job.k = 1
  BY <1>1 DEF Job, JobType
<1> HIDE DEF job
<1>3. Job(next)
  BY <1>1, <1>2, CursorTaken
<1> HIDE DEF next
<1> QED BY <1>1, <1>3, PassMoves

LEMMA ParseUnitStep ==
    ASSUME IngestInv, NEW i \in Ingesters, ParseUnit(i)
    PROVE  IngestInv'
<1> DEFINE job == ing[i]
           u == job.unit
           parsed == Parse(u, job.change, job.old)
           pc == IF IsFile(u) THEN "cursor" ELSE "store"
           next == [job EXCEPT !.pc = pc, !.sessions = parsed,
                               !.prefix = disk[u].lines, !.fooled = Fooled(job)]
<1>1. /\ Job(job) /\ job.pc \in {"select", "parse"} /\ disk[u] # Absent
      /\ ing' = [ing EXCEPT ![i] = next] /\ UNCHANGED <<db, disk, clock, doubt>>
  BY DEF IngestInv, ParseUnit
<1>2. u \in Units /\ u # None /\ job.change.from \in Nat /\ job.k = 1
  BY <1>1 DEF Job, JobType
<1>3. disk[u] \in Written
  BY <1>1, <1>2 DEF IngestInv, DiskTyped
<1> DEFINE change == job.change
           st == job.old
<1>4. parsed \in Seq(Parsed)
  <2> HIDE DEF u, change, st
  <2>1. Parse(u, change, st) \in Seq(Parsed)
    BY <1>1, <1>2, <1>3, ParseTyped DEF change
  <2> QED BY <2>1 DEF change, st
<1>5. disk[u].lines \in Seq(Records)
  BY <1>3 DEF Written
<1>6. pc \in {"cursor", "store"}
  BY DEF IsFile
<1> DEFINE lines == disk[u].lines
           fooled == Fooled(job)
<1> HIDE DEF job, parsed, pc, lines, fooled
<1>7. /\ DOMAIN next = Fields /\ next.pc = pc /\ next.unit = u /\ next.old = job.old
      /\ next.change = job.change /\ next.seen = job.seen /\ next.sessions = parsed
      /\ next.prefix = lines /\ next.k = job.k
  BY <1>1, IdleTyped DEF Job, Fields, lines
<1> HIDE DEF next
<1>8. next.sessions # <<>> => next.k \in DOMAIN next.sessions
  BY <1>2, <1>4, <1>7
<1>9. JobType(next)
  BY <1>1, <1>2, <1>6, <1>7, <1>8 DEF Job, JobType
<1>10. lines \in Seq(Records)
  BY <1>5 DEF lines
<1>11. Job(next)
  BY <1>1, <1>2, <1>4, <1>7, <1>9, <1>10, IdleTyped DEF Job
<1> QED BY <1>1, <1>11, PassMoves

LEMMA ParseFailsStep ==
    ASSUME IngestInv, NEW i \in Ingesters, ParseFails(i)
    PROVE  IngestInv'
<1> DEFINE job == ing[i]
           next == NextUnit(job)
<1>1. Job(job) /\ ing' = [ing EXCEPT ![i] = next] /\ UNCHANGED <<db, disk, clock, doubt>>
  BY DEF IngestInv, ParseFails
<1> HIDE DEF job
<1>2. Job(next)
  BY <1>1, NextUnitTyped, IdleTyped DEF Job, JobType
<1> HIDE DEF next
<1> QED BY <1>1, <1>2, PassMoves

LEMMA AbortStep ==
    ASSUME IngestInv, NEW i \in Ingesters, Abort(i)
    PROVE  IngestInv'
<1>1. ing' = [ing EXCEPT ![i] = Idle] /\ UNCHANGED <<db, disk, clock, doubt>>
  BY DEF Abort
<1> QED BY <1>1, IdleTyped, PassMoves

\* The resume point a transaction records: of the whole unit, or of what was
\* recorded before.
LEMMA StatesTyped ==
    ASSUME NEW job, Job(job)
    PROVE  DoneState(job).bytes \in Nat /\ StaleState(job).bytes \in Nat
<1>1. job.change.from \in Nat /\ Len(job.prefix) \in Nat
  BY LenProperties DEF Job
<1>2. Max({job.change.from, Len(job.prefix)}) \in Nat
  <2> DEFINE a == job.change.from
             b == Len(job.prefix)
  <2> HIDE DEF a, b
  <2>1. a \in Nat /\ b \in Nat
    BY <1>1 DEF a, b
  <2>2. Max({a, b}) \in Nat
    BY <2>1, MaxOfTwo
  <2> QED BY <2>2 DEF a, b
<1>3. Consumed(job) \in Nat
  BY <1>2 DEF Consumed
<1>4. DoneState(job).bytes = Consumed(job)
  BY DEF DoneState
<1>5. StaleState(job).bytes \in Nat
  BY <1>1 DEF StaleState, Job
<1> QED BY <1>3, <1>4, <1>5

LEMMA StoreSessionStep ==
    ASSUME IngestInv, NEW i \in Ingesters, StoreSession(i)
    PROVE  IngestInv'
<1> DEFINE job == ing[i]
           p == job.sessions[job.k]
           last == job.k = Len(job.sessions)
           st == IF last THEN DoneState(job) ELSE StaleState(job)
           spoilt == IF Raced(job) THEN Conv[job.unit] ELSE {}
           next == IF last THEN NextUnit(job) ELSE [job EXCEPT !.k = @ + 1]
<1>1. /\ Job(job) /\ job.pc = "store" /\ job.sessions # <<>>
      /\ ing' = [ing EXCEPT ![i] = next]
      /\ \/ db' = AppendSession(db, p.conv, p.turns, job.unit, st)
         \/ db' = ReplaceSession(db, p.conv, p.turns, job.unit, st)
      /\ UNCHANGED <<disk, clock>>
  BY DEF IngestInv, StoreSession
<1>2. doubt' = (IF Appends(job) THEN doubt ELSE doubt \ {p.conv}) \cup spoilt
  BY Zenon DEF StoreSession
<1>3. job.k \in DOMAIN job.sessions /\ job.unit \in Units
  BY <1>1 DEF Job, JobType
<1>4. p.turns \in Seq(Nat)
  <2>1. p \in Parsed
    BY <1>1, <1>3, LenProperties, ElementOfSeq DEF Job
  <2> HIDE DEF p
  <2> QED BY <2>1 DEF Parsed
<1>5. st.bytes \in Nat
  BY <1>1, StatesTyped
<1>6. Conv[job.unit] \subseteq Sources
  BY <1>3 DEF Sources
<1>7. doubt' \subseteq Sources
  <2>1. spoilt \subseteq Sources
    BY <1>6
  <2> HIDE DEF spoilt
  <2>2. doubt \subseteq Sources
    BY DEF IngestInv
  <2> QED BY <1>2, <2>1, <2>2
<1> HIDE DEF job, p, st, spoilt
<1>8. Store(db')
  <2> DEFINE s == p.conv
             texts == p.turns
             u == job.unit
  <2>1. Store(db) /\ texts \in Seq(Nat)
    BY <1>4 DEF IngestInv
  <2> HIDE DEF s, texts, u
  <2>2. Store(AppendSession(db, s, texts, u, st)) /\ Store(ReplaceSession(db, s, texts, u, st))
    BY <1>5, <2>1, AppendKeepsStore, ReplaceKeepsStore DEF Stores
  <2> QED BY <1>1, <2>2 DEF s, texts, u
<1>9. Job(next)
  <2>1. CASE last
    <3>1. Job(NextUnit(job))
      BY <1>1, NextUnitTyped, IdleTyped DEF Job, JobType
    <3> QED BY <2>1, <3>1
  <2>2. CASE ~last
    <3> DEFINE more == [job EXCEPT !.k = @ + 1]
    <3>1. /\ DOMAIN more = Fields /\ more.pc = job.pc /\ more.unit = job.unit
          /\ more.old = job.old /\ more.change = job.change /\ more.seen = job.seen
          /\ more.sessions = job.sessions /\ more.prefix = job.prefix /\ more.k = job.k + 1
      BY <1>1, IdleTyped DEF Job, Fields
    <3> HIDE DEF more
    <3>2. /\ Len(job.sessions) \in Nat /\ DOMAIN job.sessions = 1..Len(job.sessions)
      BY <1>1, LenProperties DEF Job
    <3>3. more.k \in Nat /\ more.k \in DOMAIN more.sessions
      BY <1>3, <2>2, <3>1, <3>2
    <3>4. JobType(more)
      BY <1>1, <3>1, <3>3 DEF Job, JobType
    <3>5. Job(more)
      BY <1>1, <3>1, <3>3, <3>4, IdleTyped DEF Job
    <3> QED BY <2>2, <3>5 DEF more
  <2> QED BY <2>1, <2>2
<1> HIDE DEF next
<1>10. \A j \in Ingesters : Job(ing'[j])
  BY <1>1, <1>9 DEF IngestInv
<1>11. DOMAIN ing' = Ingesters
  BY <1>1 DEF IngestInv
<1>12. disk' = disk /\ clock' = clock /\ DiskTyped
  BY <1>1 DEF IngestInv
<1> QED BY <1>7, <1>8, <1>10, <1>11, <1>12 DEF IngestInv, DiskTyped

LEMMA TouchUnitStep ==
    ASSUME IngestInv, NEW i \in Ingesters, TouchUnit(i)
    PROVE  IngestInv'
<1> DEFINE job == ing[i]
           next == NextUnit(job)
           st == DoneState(job)
<1>1. /\ Job(job) /\ job.pc = "store"
      /\ ing' = [ing EXCEPT ![i] = next]
      /\ db' = UpsertState(db, job.unit, st)
      /\ doubt' = (IF job.fooled \/ Moved(job) THEN doubt \cup Conv[job.unit] ELSE doubt)
      /\ UNCHANGED <<disk, clock>>
  BY DEF IngestInv, TouchUnit
<1>2. job.unit \in Units
  BY <1>1 DEF Job, JobType
<1>3. doubt' \subseteq Sources
  <2>1. Conv[job.unit] \subseteq Sources /\ doubt \subseteq Sources
    BY <1>2 DEF Sources, IngestInv
  <2>2. doubt' = doubt \cup Conv[job.unit] \/ doubt' = doubt
    BY <1>1
  <2> QED BY <2>1, <2>2
<1> HIDE DEF job, st
<1>4. Store(db')
  <2>1. Store(db) /\ st.bytes \in Nat
    BY <1>1, StatesTyped DEF IngestInv, st
  <2> DEFINE u == job.unit
  <2> HIDE DEF u
  <2>2. Store(UpsertState(db, u, st))
    BY <2>1, UpsertKeepsStore
  <2> QED BY <1>1, <2>2 DEF u
<1>5. Job(next)
  BY <1>1, NextUnitTyped, IdleTyped DEF Job, JobType
<1> HIDE DEF next
<1>6. \A j \in Ingesters : Job(ing'[j])
  BY <1>1, <1>5 DEF IngestInv
<1>7. DOMAIN ing' = Ingesters
  BY <1>1 DEF IngestInv
<1>8. disk' = disk /\ clock' = clock /\ DiskTyped
  BY <1>1 DEF IngestInv
<1> QED BY <1>3, <1>4, <1>6, <1>7, <1>8 DEF IngestInv, DiskTyped

LEMMA LinkStep ==
    ASSUME IngestInv, NEW i \in Ingesters, Link(i)
    PROVE  IngestInv'
<1> DEFINE sources == UNION {Conv[u] : u \in {u \in Units : Agent[u] = ing[i].agent}}
<1>1. /\ db' = LinkSubagents(db, sources) /\ ing' = [ing EXCEPT ![i] = Idle]
      /\ UNCHANGED <<disk, clock, doubt>>
  BY Zenon DEF Link
<1> HIDE DEF sources
<1>2. Store(db')
  BY <1>1, LinkKeepsStore DEF IngestInv
<1>3. \A j \in Ingesters : Job(ing'[j])
  BY <1>1, IdleTyped DEF IngestInv
<1>4. DOMAIN ing' = Ingesters /\ doubt' \subseteq Sources
  BY <1>1 DEF IngestInv
<1>5. disk' = disk /\ clock' = clock /\ DiskTyped
  BY <1>1 DEF IngestInv
<1> QED BY <1>2, <1>3, <1>4, <1>5 DEF IngestInv, DiskTyped

----------------------------------------------------------------------------
(* Tools.                                                                  *)

\* What a tool finds of its unit: what it wrote, or nothing yet.
LEMMA ContentTyped ==
    ASSUME IngestInv, NEW u \in Units
    PROVE  Content(u).lines \in Seq(Records)
<1>1. CASE disk[u] = Absent
  <2>1. Content(u).lines = <<>>
    BY <1>1 DEF Content
  <2> QED BY <2>1
<1>2. CASE disk[u] # Absent
  <2>1. disk[u] \in Written /\ Content(u) = disk[u]
    BY <1>2 DEF IngestInv, DiskTyped, Content
  <2> QED BY <2>1 DEF Written
<1> QED BY <1>1, <1>2

\* The unit is written, and the clock with it.
LEMMA WriteStep ==
    ASSUME IngestInv, NEW u \in Units, NEW lines \in Seq(Records), NEW half \in BOOLEAN,
           Write(u, lines, half)
    PROVE  IngestInv'
<1> DEFINE new == [lines |-> lines, half |-> half, mtime |-> clock + 1]
<1>1. /\ clock' = clock + 1 /\ disk' = [disk EXCEPT ![u] = new]
      /\ UNCHANGED <<db, ing, doubt>>
  BY DEF Write
<1>2. new \in Written /\ clock + 1 \in Nat
  BY DEF Written, IngestInv, DiskTyped
<1> HIDE DEF new
<1>3. disk' \in [Units -> {Absent} \cup Written] /\ clock' \in Nat
  BY <1>1, <1>2 DEF IngestInv, DiskTyped
<1>4. Store(db') /\ ing' = ing /\ doubt' = doubt
  BY <1>1 DEF IngestInv
<1> QED BY <1>3, <1>4 DEF IngestInv, DiskTyped

\* A record of a known conversation, and it appended.
LEMMA RecordTyped ==
    ASSUME IngestInv, NEW u \in Units, NEW s \in Sources, NEW at \in Nat
    PROVE  Append(Content(u).lines, Record(s, at)) \in Seq(Records)
<1> DEFINE lines == Content(u).lines
           r == Record(s, at)
<1>1. lines \in Seq(Records)
  BY ContentTyped
<1>2. r \in Records
  BY DEF Record, Records, IngestInv, DiskTyped
<1> HIDE DEF lines, r
<1>3. Append(lines, r) \in Seq(Records)
  BY <1>1, <1>2
<1> QED BY <1>3 DEF lines, r

\* What a tool writes in a file is records.
LEMMA AppendLineWrites ==
    ASSUME IngestInv, NEW u \in Units, AppendLine(u)
    PROVE  \E lines \in Seq(Records), half \in BOOLEAN : Write(u, lines, half)
<1>1. PICK s \in Speakers(u) : Write(u, Append(Content(u).lines, Record(s, 0)), FALSE)
  BY DEF AppendLine
<1>2. s \in Sources
  <2>1. CASE Agent[u] = "codex" /\ Content(u).lines # <<>>
    <3> DEFINE lines == Content(u).lines
    <3>1. lines \in Seq(Records) /\ lines # <<>>
      BY <2>1, ContentTyped
    <3>2. s = lines[1].conv
      BY <1>1, <2>1 DEF Speakers
    <3> HIDE DEF lines
    <3>3. lines[1] \in Records
      BY <3>1
    <3> QED BY <3>2, <3>3 DEF Records
  <2>2. CASE ~(Agent[u] = "codex" /\ Content(u).lines # <<>>)
    <3>1. s \in Conv[u]
      BY <1>1, <2>2 DEF Speakers
    <3> QED BY <3>1 DEF Sources
  <2> QED BY <2>1, <2>2
<1> DEFINE new == Append(Content(u).lines, Record(s, 0))
<1>3. new \in Seq(Records)
  BY <1>2, RecordTyped
<1> HIDE DEF new
<1> QED BY <1>1, <1>3 DEF new

LEMMA BeginLineWrites ==
    ASSUME IngestInv, NEW u \in Units, BeginLine(u)
    PROVE  \E lines \in Seq(Records), half \in BOOLEAN : Write(u, lines, half)
<1> DEFINE lines == Content(u).lines
<1>1. lines \in Seq(Records) /\ Write(u, lines, TRUE)
  BY ContentTyped DEF BeginLine
<1> HIDE DEF lines
<1> QED BY <1>1

LEMMA RewriteFileWrites ==
    ASSUME IngestInv, NEW u \in Units, RewriteFile(u)
    PROVE  \E lines \in Seq(Records), half \in BOOLEAN : Write(u, lines, half)
<1> DEFINE lines == Content(u).lines
<1>1. lines \in Seq(Records)
  BY ContentTyped
<1>2. PICK n \in DOMAIN lines :
        \/ Write(u, RemoveAt(lines, n), FALSE)
        \/ Write(u, [lines EXCEPT ![n].text = clock + 1], FALSE)
  BY DEF RewriteFile
<1> HIDE DEF lines
<1> DEFINE dropped == RemoveAt(lines, n)
           changed == [lines EXCEPT ![n].text = clock + 1]
<1>3. /\ Len(lines) \in Nat /\ DOMAIN lines = 1..Len(lines) /\ n \in 1..Len(lines)
      /\ \A i \in 1..Len(lines) : lines[i] \in Records
  BY <1>1, <1>2, LenProperties, ElementOfSeq
<1>4. dropped \in Seq(Records)
  <2> DEFINE a == SubSeq(lines, 1, n - 1)
             b == SubSeq(lines, n + 1, Len(lines))
  <2>1. n - 1 \in Int /\ n + 1 \in Int /\ \A i \in 1..(n - 1) : lines[i] \in Records
    BY <1>3
  <2>2. a \in Seq(Records)
    BY <1>3, <2>1, SubSeqProperties
  <2>3. \A i \in (n + 1)..Len(lines) : lines[i] \in Records
    BY <1>3
  <2>4. b \in Seq(Records)
    BY <1>3, <2>1, <2>3, SubSeqProperties
  <2>5. dropped = a \o b
    BY DEF RemoveAt
  <2> HIDE DEF a, b, dropped
  <2> QED BY <2>2, <2>4, <2>5
<1>5. changed \in Seq(Records)
  <2> DEFINE r == [lines[n] EXCEPT !.text = clock + 1]
  <2>1. r \in Records
    BY <1>3 DEF Records, IngestInv, DiskTyped
  <2>2. changed = [lines EXCEPT ![n] = r]
    BY <1>3
  <2> HIDE DEF r, changed
  <2> QED BY <1>1, <1>3, <2>1, <2>2, ExceptSeq
<1> HIDE DEF dropped, changed
<1> QED BY <1>2, <1>4, <1>5 DEF dropped, changed

LEMMA FileWritten ==
    ASSUME IngestInv, NEW u \in Units, AppendLine(u) \/ BeginLine(u) \/ RewriteFile(u)
    PROVE  \E lines \in Seq(Records), half \in BOOLEAN : Write(u, lines, half)
  BY AppendLineWrites, BeginLineWrites, RewriteFileWrites

\* And in a database.
LEMMA InsertRowStep ==
    ASSUME IngestInv, NEW u \in Units, InsertRow(u)
    PROVE  IngestInv'
<1> DEFINE same == Content(u).lines
           at == clock + 1
<1>1. \/ \E s \in Conv[u] : Write(u, Append(Content(u).lines, Record(s, at)), FALSE)
      \/ Write(u, same, FALSE)
  BY DEF InsertRow
<1>2. same \in Seq(Records) /\ at \in Nat
  BY ContentTyped DEF IngestInv, DiskTyped
<1> HIDE DEF same, at
<1>3. CASE Write(u, same, FALSE)
  BY <1>2, <1>3, WriteStep
<1>4. ASSUME NEW s \in Conv[u], Write(u, Append(Content(u).lines, Record(s, at)), FALSE)
      PROVE  IngestInv'
  <2> DEFINE new == Append(Content(u).lines, Record(s, at))
  <2>1. s \in Sources
    BY DEF Sources
  <2>2. new \in Seq(Records)
    BY <1>2, <2>1, RecordTyped
  <2> HIDE DEF new
  <2> QED BY <1>4, <2>2, WriteStep DEF new
<1> QED BY <1>1, <1>3, <1>4

\* Only the records of one conversation are others: those between two parts.
Between(old, new, s) ==
    \E a, b, x, y \in Seq(Records) :
        /\ old = (a \o x) \o b
        /\ new = (a \o y) \o b
        /\ \A i \in DOMAIN x : x[i].conv = s
        /\ \A i \in DOMAIN y : y[i].conv = s

\* What a late row makes of the rows of its database.
Late(u, s, lines) ==
    LET old == disk[u].lines
    IN  /\ lines \in Seq(Records)
        /\ Between(old, lines, s)
        /\ \A i \in DOMAIN lines :
             \/ lines[i].text = clock + 1 /\ lines[i].conv = s
             \/ \E j \in DOMAIN old : lines[i] = old[j]
        /\ \A i \in DOMAIN lines :
             \/ lines[i].at <= disk[u].mtime
             \/ \E j \in DOMAIN old : lines[i].at = old[j].at
        /\ /\ \A i \in DOMAIN old : old[i].text <= clock
           /\ \A i, j \in DOMAIN old : old[i].text = old[j].text => i = j
           => \A i, j \in DOMAIN lines : lines[i].text = lines[j].text => i = j

\* A list of records cut before a place.
LEMMA Cut ==
    ASSUME NEW lines \in Seq(Records), NEW n \in 1..(Len(lines) + 1)
    PROVE  LET a == SubSeq(lines, 1, n - 1)
               b == SubSeq(lines, n, Len(lines))
           IN  /\ a \in Seq(Records) /\ Len(a) = n - 1
               /\ \A i \in 1..(n - 1) : a[i] = lines[i]
               /\ b \in Seq(Records) /\ Len(b) = Len(lines) - n + 1
               /\ \A i \in 1..(Len(lines) - n + 1) : b[i] = lines[n + i - 1]
               /\ lines = a \o b
<1> DEFINE l == Len(lines)
           a == SubSeq(lines, 1, n - 1)
           b == SubSeq(lines, n, l)
           m == n - 1
<1>1. l \in Nat /\ \A i \in 1..l : lines[i] \in Records
  BY LenProperties, ElementOfSeq
<1>2. SubSeq(lines, 1, l) = lines
  BY SubSeqFull
<1>3. n \in 1..(l + 1)
  OBVIOUS
<1> HIDE DEF l
<1>4. m \in Nat /\ m \in Int /\ 1 \in Int /\ n \in Int /\ l \in Int /\ n = m + 1 /\ m <= l
  BY <1>1, <1>3
<1>5. (\A i \in 1..m : lines[i] \in Records) /\ (\A i \in n..l : lines[i] \in Records)
  BY <1>1, <1>3, <1>4
<1> HIDE DEF m
<1> DEFINE x == SubSeq(lines, 1, m)
<1>6. /\ x \in Seq(Records)
      /\ Len(x) = IF 1 <= m THEN m - 1 + 1 ELSE 0
      /\ \A i \in 1..(m - 1 + 1) : x[i] = lines[1 + i - 1]
  BY <1>4, <1>5, SubSeqProperties
<1>7. /\ b \in Seq(Records)
      /\ Len(b) = IF n <= l THEN l - n + 1 ELSE 0
      /\ \A i \in 1..(l - n + 1) : b[i] = lines[n + i - 1]
  BY <1>4, <1>5, SubSeqProperties
<1>8. lines = x \o b
  <2>1. 1 \in 1..(l + 1) /\ m \in (1 - 1)..l /\ l \in m..l
    BY <1>1, <1>4
  <2>2. SubSeq(lines, 1, m) \o SubSeq(lines, m + 1, l) = SubSeq(lines, 1, l)
    BY <2>1, ConcatAdjacentSubSeq DEF l
  <2> QED BY <1>2, <1>4, <2>2
<1> HIDE DEF x, b
<1>9. Len(x) = m /\ \A i \in 1..m : x[i] = lines[i]
  <2>1. (IF 1 <= m THEN m - 1 + 1 ELSE 0) = m /\ m - 1 + 1 = m /\ \A i \in 1..m : 1 + i - 1 = i
    BY <1>4
  <2> QED BY <1>6, <2>1
<1>10. Len(b) = l - n + 1
  BY <1>1, <1>3, <1>7
<1> QED BY <1>6, <1>7, <1>8, <1>9, <1>10 DEF x, b, m, l

\* And a record put there.
LEMMA PutThere ==
    ASSUME NEW a \in Seq(Records), NEW b \in Seq(Records), NEW r \in Records
    PROVE  LET c == (a \o <<r>>) \o b
           IN  /\ c \in Seq(Records) /\ Len(c) = Len(a) + 1 + Len(b)
               /\ \A i \in 1..Len(a) : c[i] = a[i]
               /\ c[Len(a) + 1] = r
               /\ \A i \in 1..Len(b) : c[Len(a) + 1 + i] = b[i]
<1> DEFINE one == <<r>>
           d == a \o one
           c == d \o b
<1>1. one \in Seq(Records) /\ Len(one) = 1 /\ one[1] = r
  OBVIOUS
<1> HIDE DEF one
<1>2. Len(a) \in Nat /\ Len(b) \in Nat
  BY LenProperties
<1>3. /\ d \in Seq(Records) /\ Len(d) = Len(a) + Len(one)
      /\ \A i \in 1..(Len(a) + Len(one)) :
           d[i] = IF i <= Len(a) THEN a[i] ELSE one[i - Len(a)]
  BY <1>1, ConcatProperties
<1> HIDE DEF d
<1>4. /\ c \in Seq(Records) /\ Len(c) = Len(d) + Len(b)
      /\ \A i \in 1..(Len(d) + Len(b)) : c[i] = IF i <= Len(d) THEN d[i] ELSE b[i - Len(d)]
  <2>1. d \in Seq(Records) /\ b \in Seq(Records)
    BY <1>3
  <2> QED BY <2>1, ConcatProperties
<1> HIDE DEF c
<1>5. Len(d) = Len(a) + 1 /\ Len(c) = Len(a) + 1 + Len(b)
  BY <1>1, <1>3, <1>4
<1>6. \A i \in 1..Len(a) : c[i] = a[i]
  BY <1>1, <1>2, <1>3, <1>4
<1>7. c[Len(a) + 1] = r
  <2> DEFINE p == Len(a) + 1
  <2>1. p \in 1..(Len(d) + Len(b)) /\ p <= Len(d) /\ ~(p <= Len(a)) /\ p - Len(a) = 1
        /\ p \in 1..(Len(a) + Len(one))
    BY <1>1, <1>2, <1>5
  <2> HIDE DEF p
  <2>2. c[p] = d[p] /\ d[p] = one[1]
    BY <1>3, <1>4, <2>1
  <2> QED BY <1>1, <2>2 DEF p
<1>8. ASSUME NEW i \in 1..Len(b)
      PROVE  c[Len(a) + 1 + i] = b[i]
  <2> DEFINE p == Len(a) + 1 + i
  <2>1. p \in 1..(Len(d) + Len(b)) /\ ~(p <= Len(d)) /\ p - Len(d) = i
    BY <1>2, <1>5
  <2> HIDE DEF p
  <2> QED BY <1>4, <2>1 DEF p
<1> QED BY <1>4, <1>5, <1>6, <1>7, <1>8 DEF c, d, one

\* A message of an earlier time.
LEMMA LateMessageIs ==
    ASSUME IngestInv, NEW u \in Units, disk[u] # Absent, NEW s \in Conv[u],
           NEW at \in 0..disk[u].mtime, NEW n \in 1..(Len(disk[u].lines) + 1),
           LateMessage(u, s, at, n)
    PROVE  \E lines : Late(u, s, lines) /\ disk' = [disk EXCEPT ![u].lines = lines]
<1> DEFINE old == disk[u].lines
           l == Len(old)
           r == Record(s, at)
           a == SubSeq(old, 1, n - 1)
           b == SubSeq(old, n, l)
           none == <<>>
           lines == (a \o <<r>>) \o b
<1>1. disk[u] \in Written /\ clock \in Nat /\ DOMAIN disk = Units
  BY DEF IngestInv, DiskTyped
<1>2. old \in Seq(Records) /\ disk[u].mtime \in Nat /\ at \in Nat /\ at <= disk[u].mtime
  BY <1>1 DEF Written
<1>3. disk' = [disk EXCEPT ![u].lines = lines]
  BY <1>1 DEF LateMessage
<1>4. /\ r \in Records /\ r.text = clock + 1 /\ r.conv = s /\ r.at = at
      /\ \A i \in DOMAIN <<r>> : <<r>>[i].conv = s
      /\ none \in Seq(Records) /\ \A i \in DOMAIN none : none[i].conv = s
      /\ <<r>> \in Seq(Records)
  <2>1. r \in Records /\ r.text = clock + 1 /\ r.conv = s /\ r.at = at
    BY <1>1, <1>2 DEF Record, Records, Sources
  <2> QED BY <2>1
<1> HIDE DEF r
<1>5. n \in 1..(Len(old) + 1) /\ l \in Nat /\ DOMAIN old = 1..l
  BY <1>2, LenProperties
<1> HIDE DEF old
<1>6. /\ a \in Seq(Records) /\ Len(a) = n - 1
      /\ \A i \in 1..(n - 1) : a[i] = old[i]
      /\ b \in Seq(Records) /\ Len(b) = l - n + 1
      /\ \A i \in 1..(l - n + 1) : b[i] = old[n + i - 1]
      /\ old = a \o b
  BY <1>2, <1>5, Cut
<1> HIDE DEF a, b, l
<1>7. /\ lines \in Seq(Records) /\ Len(lines) = Len(a) + 1 + Len(b)
      /\ \A i \in 1..Len(a) : lines[i] = a[i]
      /\ lines[Len(a) + 1] = r
      /\ \A i \in 1..Len(b) : lines[Len(a) + 1 + i] = b[i]
  BY <1>4, <1>6, PutThere
<1>8. Between(old, lines, s)
  <2> DEFINE one == <<r>>
  <2>1. one \in Seq(Records) /\ \A i \in DOMAIN one : one[i].conv = s
    BY <1>4
  <2>2. lines = (a \o one) \o b
    OBVIOUS
  <2> HIDE DEF one, lines
  <2>3. a \o none = a
    BY <1>6, ConcatEmptySeq
  <2>4. old = (a \o none) \o b
    BY <1>6, <2>3
  <2> HIDE DEF none
  <2> QED BY <1>4, <1>6, <2>1, <2>2, <2>4 DEF Between
<1> HIDE DEF lines, none
<1>9. DOMAIN lines = 1..(l + 1)
  <2>1. DOMAIN lines = 1..Len(lines)
    BY <1>7, LenProperties
  <2>2. Len(a) + 1 + Len(b) = l + 1
    BY <1>5, <1>6
  <2> QED BY <1>7, <2>1, <2>2
<1> DEFINE Was(i) == IF i < n THEN i ELSE i - 1
<1>10. ASSUME NEW i \in DOMAIN lines, i # n
       PROVE  Was(i) \in DOMAIN old /\ lines[i] = old[Was(i)]
  <2>1. CASE i < n
    <3>1. i \in 1..(n - 1) /\ i \in DOMAIN old
      BY <1>5, <1>9, <2>1
    <3> QED BY <1>6, <1>7, <2>1, <3>1
  <2>2. CASE ~(i < n)
    <3> DEFINE j == i - n
    <3>1. j \in 1..(l - n + 1) /\ n + j - 1 = i - 1 /\ i - 1 \in 1..l /\ i = (n - 1) + 1 + j
      BY <1>5, <1>9, <1>10, <2>2
    <3> HIDE DEF j
    <3>2. lines[i] = b[j]
      BY <1>6, <1>7, <3>1
    <3>3. b[j] = old[i - 1]
      BY <1>6, <3>1
    <3> QED BY <1>5, <2>2, <3>1, <3>2, <3>3
  <2> QED BY <2>1, <2>2
<1>11. lines[n] = r
  <2>1. Len(a) + 1 = n
    BY <1>5, <1>6
  <2> QED BY <1>7, <2>1
<1>12. \A i, j \in DOMAIN lines : i # n /\ j # n /\ Was(i) = Was(j) => i = j
  BY <1>5, <1>9
<1> HIDE DEF Was
<1>13. \A i \in DOMAIN lines :
         \/ lines[i].text = clock + 1 /\ lines[i].conv = s
         \/ \E j \in DOMAIN old : lines[i] = old[j]
  BY <1>4, <1>10, <1>11
<1>14. \A i \in DOMAIN lines : lines[i].at <= disk[u].mtime \/ \E j \in DOMAIN old : lines[i].at = old[j].at
  BY <1>2, <1>4, <1>10, <1>11
<1>15. ASSUME \A i \in DOMAIN old : old[i].text <= clock,
              \A i, j \in DOMAIN old : old[i].text = old[j].text => i = j,
              NEW i \in DOMAIN lines, NEW j \in DOMAIN lines, lines[i].text = lines[j].text
       PROVE  i = j
  <2>1. \A x \in DOMAIN old : old[x].text # clock + 1
    <3>1. \A x \in 1..l : old[x].text \in Nat
      BY <1>2, PlacesOf DEF l
    <3> QED BY <1>1, <1>5, <1>15, <3>1
  <2>2. CASE i = n \/ j = n
    BY <1>4, <1>10, <1>11, <1>15, <2>1, <2>2
  <2>3. CASE i # n /\ j # n
    <3>1. Was(i) = Was(j)
      BY <1>10, <1>15, <2>3
    <3> QED BY <1>12, <2>3, <3>1
  <2> QED BY <2>2, <2>3
<1>16. Late(u, s, lines)
  BY <1>7, <1>8, <1>13, <1>14, <1>15 DEF Late, old
<1> QED BY <1>3, <1>16

\* One more part of a message.
LEMMA LatePartIs ==
    ASSUME IngestInv, NEW u \in Units, disk[u] # Absent, NEW s \in Conv[u], NEW n,
           LatePart(u, s, n)
    PROVE  \E lines : Late(u, s, lines) /\ disk' = [disk EXCEPT ![u].lines = lines]
<1> DEFINE old == disk[u].lines
           l == Len(old)
           q == old[n]
           r == [q EXCEPT !.text = clock + 1]
           lines == [old EXCEPT ![n] = r]
<1>1. disk[u] \in Written /\ clock \in Nat /\ DOMAIN disk = Units
  BY DEF IngestInv, DiskTyped
<1>2. old \in Seq(Records)
  BY <1>1 DEF Written
<1>3. n \in DOMAIN old /\ q.conv = s /\ l \in Nat /\ DOMAIN old = 1..l
  BY <1>2, LenProperties DEF LatePart
<1>4. disk' = [disk EXCEPT ![u].lines = lines]
  BY <1>1, <1>2, <1>3 DEF LatePart
<1>5. q \in Records /\ \A i \in 1..l : old[i] \in Records
  BY <1>2, <1>3, ElementOfSeq
<1>6. r \in Records /\ r.text = clock + 1 /\ r.conv = s /\ r.at = q.at
  BY <1>1, <1>3, <1>5 DEF Records
<1> HIDE DEF r
<1>7. /\ lines \in Seq(Records) /\ DOMAIN lines = DOMAIN old /\ lines[n] = r
      /\ \A i \in DOMAIN old : i # n => lines[i] = old[i]
  BY <1>2, <1>3, <1>5, <1>6, ExceptSeq
<1>8. Between(old, lines, s)
  <2> DEFINE k == n + 1
             a == SubSeq(old, 1, n - 1)
             b == SubSeq(old, k, l)
             x == <<q>>
             y == <<r>>
             c == (a \o x) \o b
             d == (a \o y) \o b
  <2>1. n \in 1..(Len(old) + 1) /\ k \in 1..(Len(old) + 1) /\ n \in 1..l
    BY <1>3
  <2>2. /\ x \in Seq(Records) /\ y \in Seq(Records)
        /\ (\A i \in DOMAIN x : x[i].conv = s) /\ (\A i \in DOMAIN y : y[i].conv = s)
    BY <1>3, <1>5, <1>6
  <2> HIDE DEF old, lines
  <2>3. /\ a \in Seq(Records) /\ Len(a) = n - 1
        /\ \A i \in 1..(n - 1) : a[i] = old[i]
    BY <1>2, <2>1, Cut
  <2>4. /\ b \in Seq(Records) /\ Len(b) = l - k + 1
        /\ \A i \in 1..(l - k + 1) : b[i] = old[k + i - 1]
    BY <1>2, <2>1, Cut
  <2> HIDE DEF a, b
  <2>5. /\ c \in Seq(Records) /\ Len(c) = Len(a) + 1 + Len(b)
        /\ \A i \in 1..Len(a) : c[i] = a[i]
        /\ c[Len(a) + 1] = q
        /\ \A i \in 1..Len(b) : c[Len(a) + 1 + i] = b[i]
    BY <1>5, <2>3, <2>4, PutThere
  <2>6. /\ d \in Seq(Records) /\ Len(d) = Len(a) + 1 + Len(b)
        /\ \A i \in 1..Len(a) : d[i] = a[i]
        /\ d[Len(a) + 1] = r
        /\ \A i \in 1..Len(b) : d[Len(a) + 1 + i] = b[i]
    BY <1>6, <2>3, <2>4, PutThere
  <2> HIDE DEF c, d, q, l
  <2>7. Len(a) + 1 = n /\ Len(c) = l /\ Len(d) = l
    BY <1>3, <2>1, <2>3, <2>4, <2>5, <2>6
  <2>8. ASSUME NEW i \in 1..l
        PROVE  c[i] = old[i] /\ d[i] = lines[i]
    <3>1. CASE i = n
      BY <1>7, <2>5, <2>6, <2>7, <3>1 DEF q
    <3>2. CASE i < n
      <4>1. i \in 1..Len(a) /\ i \in 1..(n - 1) /\ i # n
        BY <2>1, <2>7, <3>2
      <4>2. c[i] = a[i] /\ d[i] = a[i]
        BY <2>5, <2>6, <4>1
      <4>3. a[i] = old[i] /\ lines[i] = old[i]
        BY <1>3, <1>7, <2>3, <4>1
      <4> QED BY <4>2, <4>3
    <3>3. CASE i > n
      <4> DEFINE j == i - n
      <4>1. j \in 1..(l - k + 1) /\ k + j - 1 = i /\ n + j = i /\ j \in 1..Len(b)
        BY <1>3, <2>1, <2>4, <3>3
      <4> HIDE DEF j
      <4>2. c[i] = b[j] /\ d[i] = b[j] /\ b[j] = old[i]
        BY <2>4, <2>5, <2>6, <2>7, <4>1
      <4> QED BY <1>3, <1>7, <3>3, <4>2
    <3> QED BY <2>1, <3>1, <3>2, <3>3
  <2>9. Len(lines) = l
    <3>1. DOMAIN lines = 1..Len(lines) /\ Len(lines) \in Nat
      BY <1>7, LenProperties
    <3> QED BY <1>3, <1>7, <3>1
  <2>10. old = c
    BY <1>2, <2>5, <2>7, <2>8, SeqEqual DEF l
  <2>11. lines = d
    BY <1>7, <2>6, <2>7, <2>8, <2>9, SeqEqual
  <2> HIDE DEF x, y
  <2> QED BY <2>2, <2>3, <2>4, <2>10, <2>11 DEF Between, c, d
<1> HIDE DEF lines
<1>9. \A i \in DOMAIN lines :
         \/ lines[i].text = clock + 1 /\ lines[i].conv = s
         \/ \E j \in DOMAIN old : lines[i] = old[j]
  BY <1>6, <1>7
<1>10. \A i \in DOMAIN lines : \E j \in DOMAIN old : lines[i].at = old[j].at
  BY <1>3, <1>6, <1>7
<1>11. ASSUME \A i \in DOMAIN old : old[i].text <= clock,
              \A i, j \in DOMAIN old : old[i].text = old[j].text => i = j,
              NEW i \in DOMAIN lines, NEW j \in DOMAIN lines, lines[i].text = lines[j].text
       PROVE  i = j
  <2>1. \A x \in DOMAIN old : old[x].text # clock + 1
    <3>1. \A x \in 1..l : old[x].text \in Nat
      BY <1>2, PlacesOf
    <3> QED BY <1>1, <1>3, <1>11, <3>1
  <2> QED BY <1>6, <1>7, <1>11, <2>1
<1>12. Late(u, s, lines)
  BY <1>7, <1>8, <1>9, <1>10, <1>11 DEF Late
<1> QED BY <1>4, <1>12

\* Either way the row is late.
LEMMA LateRowIs ==
    ASSUME IngestInv, NEW u \in Units, LateRow(u)
    PROVE  /\ Agent[u] = "opencode" /\ disk[u] # Absent
           /\ clock' = clock + 1 /\ UNCHANGED <<db, ing, ingested, doubt>>
           /\ \E s, lines :
                /\ s \in Conv[u]
                /\ Late(u, s, lines)
                /\ disk' = [disk EXCEPT ![u].lines = lines]
                /\ ahead' = ahead \cup {s}
<1>1. disk[u] # Absent
  BY DEF LateRow
<1>2. PICK s \in Conv[u], n \in 1..(Len(disk[u].lines) + 1) :
        /\ (\E at \in 0..disk[u].mtime : LateMessage(u, s, at, n)) \/ LatePart(u, s, n)
        /\ ahead' = ahead \cup {s}
  BY DEF LateRow
<1>3. \E lines : Late(u, s, lines) /\ disk' = [disk EXCEPT ![u].lines = lines]
  BY <1>1, <1>2, LateMessageIs, LatePartIs
<1> QED BY <1>2, <1>3 DEF LateRow

LEMMA LateRowStep ==
    ASSUME IngestInv, NEW u \in Units, LateRow(u)
    PROVE  IngestInv'
<1>1. PICK lines \in Seq(Records) : disk' = [disk EXCEPT ![u].lines = lines]
  BY LateRowIs DEF Late
<1>2. disk[u] \in Written /\ clock \in Nat /\ disk[u] # Absent
  BY LateRowIs DEF IngestInv, DiskTyped
<1> DEFINE new == [disk[u] EXCEPT !.lines = lines]
<1>3. disk' = [disk EXCEPT ![u] = new]
  BY <1>1, <1>2 DEF IngestInv, DiskTyped
<1>4. new \in Written
  BY <1>2 DEF Written
<1> HIDE DEF new
<1>5. disk' \in [Units -> {Absent} \cup Written] /\ clock' \in Nat
  BY <1>2, <1>3, <1>4, LateRowIs DEF IngestInv, DiskTyped
<1>6. Store(db') /\ ing' = ing /\ doubt' = doubt
  BY LateRowIs DEF IngestInv
<1> QED BY <1>5, <1>6 DEF IngestInv, DiskTyped

LEMMA ArchiveStep ==
    ASSUME IngestInv, NEW u \in Units, NEW v \in Units, Archive(u, v)
    PROVE  IngestInv'
<1>1. /\ clock' = clock + 1 /\ disk' = [disk EXCEPT ![v] = disk[u], ![u] = Absent]
      /\ UNCHANGED <<db, ing, doubt>>
  BY DEF Archive
<1>2. disk' \in [Units -> {Absent} \cup Written] /\ clock' \in Nat
  BY <1>1 DEF IngestInv, DiskTyped
<1>3. Store(db') /\ ing' = ing /\ doubt' = doubt
  BY <1>1 DEF IngestInv
<1> QED BY <1>2, <1>3 DEF IngestInv, DiskTyped

----------------------------------------------------------------------------
(* What is on the disk, and what was.                                      *)

\* The places a rollout of codex may be at; any other unit has one.
Copies(u) ==
    IF Agent[u] = "codex" THEN {w \in Units : Agent[w] = "codex" /\ Conv[w] = Conv[u]} ELSE {u}

RowsIn(dk, u) == IF dk[u] = Absent THEN <<>> ELSE dk[u].lines

OnDisk(dk, text) ==
    \E u \in Units : \E i \in DOMAIN RowsIn(dk, u) : RowsIn(dk, u)[i].text = text

\* Every one of these records is still there, in one unit or another.
Alive(dk, lines) == \A i \in DOMAIN lines : OnDisk(dk, lines[i].text)

Begins(dk, u, lines) == \E w \in Copies(u) : IsPrefix(lines, RowsIn(dk, w))

\* What was once the beginning of a unit is so until a record of it is gone.
Follows(dk, u, lines) == Alive(dk, lines) => Begins(dk, u, lines)

\* Records of a conversation of the unit, written until now.
Own(now, u, lines) ==
    /\ lines \in Seq(Records)
    /\ \A i \in DOMAIN lines : lines[i].conv \in Conv[u] /\ lines[i].text <= now

(***************************************************************************)
(* No text is on the disk twice, and of a codex rollout, which is one      *)
(* conversation, there is one copy.                                        *)
(***************************************************************************)
DiskSound(dk, now) ==
    /\ \A u \in Units : Own(now, u, RowsIn(dk, u))
    /\ \A u, v \in Units : \A i \in DOMAIN RowsIn(dk, u), j \in DOMAIN RowsIn(dk, v) :
         RowsIn(dk, u)[i].text = RowsIn(dk, v)[j].text => u = v /\ i = j
    /\ \A u \in Units : Agent[u] = "codex" =>
         /\ \A i, j \in DOMAIN RowsIn(dk, u) : RowsIn(dk, u)[i].conv = RowsIn(dk, u)[j].conv
         /\ \A w \in Copies(u) : dk[u] # Absent /\ dk[w] # Absent => u = w

(***************************************************************************)
(* From one disk to a later one: old texts do not appear, and what began a *)
(* file begins it, or its copy, while its texts are there.                 *)
(***************************************************************************)
Later(dk, now, e, then) ==
    /\ now \in Nat /\ then \in Nat /\ now <= then
    /\ \A text \in Nat : text <= now /\ OnDisk(e, text) => OnDisk(dk, text)
    /\ \A w \in Units : \A lines \in Seq(Records) :
         IsFile(w) /\ IsPrefix(lines, RowsIn(dk, w)) /\ Alive(e, lines) => Begins(e, w, lines)

\* What a tool makes of the records of its unit in one write.
Revises(u, old, lines, fresh) ==
    /\ Own(fresh, u, lines)
    /\ \A i \in DOMAIN lines :
         lines[i].text = fresh \/ \E j \in DOMAIN old : lines[i].text = old[j].text
    /\ \A i, j \in DOMAIN lines : lines[i].text = lines[j].text => i = j
    /\ Agent[u] = "codex" => \A i, j \in DOMAIN lines : lines[i].conv = lines[j].conv
    /\ IsFile(u) => \A n \in DOMAIN old :
         \/ n \in DOMAIN lines /\ lines[n] = old[n]
         \/ \E i \in 1..n : \A j \in DOMAIN lines : lines[j].text # old[i].text

LEMMA CopiesOfCopies ==
    ASSUME NEW u \in Units, NEW w \in Copies(u)
    PROVE  /\ w \in Units /\ Copies(w) = Copies(u) /\ u \in Copies(u)
           /\ IsFile(w) <=> IsFile(u)
  BY DEF Copies, IsFile

\* A unit that is written.
LEMMA WriteSound ==
    ASSUME NEW dk \in [Units -> {Absent} \cup Written], NEW now \in Nat, DiskSound(dk, now),
           NEW u \in Units, Agent[u] = "codex" => \A w \in Copies(u) \ {u} : dk[w] = Absent,
           NEW new, NEW e, e = [dk EXCEPT ![u] = new],
           Revises(u, RowsIn(dk, u), RowsIn(e, u), now + 1)
    PROVE  DiskSound(e, now + 1) /\ Later(dk, now, e, now + 1)
<1> DEFINE old == RowsIn(dk, u)
           lines == RowsIn(e, u)
<1>1. /\ RowsIn(e, u) = lines
      /\ \A w \in Units \ {u} : e[w] = dk[w] /\ RowsIn(e, w) = RowsIn(dk, w)
  BY DEF RowsIn
<1>2. lines \in Seq(Records) /\ Revises(u, old, lines, now + 1)
  BY DEF Revises, Own
<1>3. \A w \in Units : RowsIn(dk, w) \in Seq(Records)
  BY DEF DiskSound, Own
<1> HIDE DEF old, lines
<1>4. ASSUME NEW w \in Units
      PROVE  Own(now + 1, w, RowsIn(e, w))
  <2>1. CASE w = u
    BY <1>1, <1>2, <2>1 DEF Revises
  <2>2. CASE w # u
    <3>1. RowsIn(e, w) = RowsIn(dk, w) /\ Own(now, w, RowsIn(dk, w))
      BY <1>1, <2>2 DEF DiskSound
    <3> DEFINE rows == RowsIn(dk, w)
    <3>2. \A i \in DOMAIN rows : rows[i].text \in Nat
      BY <1>3, PlacesOf
    <3> HIDE DEF rows
    <3>3. Own(now, w, rows) => Own(now + 1, w, rows)
      BY <3>2 DEF Own
    <3> QED BY <3>1, <3>3 DEF rows
  <2> QED BY <2>1, <2>2
\* A text of the written unit that another has is the fresh one, which none has.
<1>5. ASSUME NEW w \in Units, w # u, NEW i \in DOMAIN lines, NEW j \in DOMAIN RowsIn(dk, w)
      PROVE  lines[i].text # RowsIn(dk, w)[j].text
  <2>1. RowsIn(dk, w)[j].text <= now /\ RowsIn(dk, w)[j].text \in Nat
    <3>1. RowsIn(dk, w) \in Seq(Records)
      BY <1>3
    <3>2. Own(now, w, RowsIn(dk, w))
      BY DEF DiskSound
    <3> QED BY <1>5, <3>1, <3>2, PlacesOf DEF Own
  <2>2. lines[i].text = now + 1 \/ \E x \in DOMAIN old : lines[i].text = old[x].text
    BY <1>2 DEF Revises
  <2>3. \A x \in DOMAIN old : old[x].text # RowsIn(dk, w)[j].text
    BY <1>5 DEF DiskSound, old
  <2> QED BY <2>1, <2>2, <2>3
<1>6. ASSUME NEW v \in Units, NEW w \in Units,
             NEW i \in DOMAIN RowsIn(e, v), NEW j \in DOMAIN RowsIn(e, w),
             RowsIn(e, v)[i].text = RowsIn(e, w)[j].text
      PROVE  v = w /\ i = j
  <2> DEFINE a == RowsIn(e, v)
             b == RowsIn(e, w)
  <2>0. i \in DOMAIN a /\ j \in DOMAIN b /\ a[i].text = b[j].text
    BY <1>6
  <2>5. (v = u => a = lines) /\ (v # u => a = RowsIn(dk, v))
    BY <1>1
  <2>6. (w = u => b = lines) /\ (w # u => b = RowsIn(dk, w))
    BY <1>1
  <2> HIDE DEF a, b
  <2>1. CASE v = u /\ w = u
    BY <1>2, <2>0, <2>1, <2>5, <2>6 DEF Revises
  <2>2. CASE v = u /\ w # u
    BY <1>5, <2>0, <2>2, <2>5, <2>6
  <2>3. CASE v # u /\ w = u
    BY <1>5, <2>0, <2>3, <2>5, <2>6
  <2>4. CASE v # u /\ w # u
    BY <2>0, <2>4, <2>5, <2>6 DEF DiskSound
  <2> QED BY <2>1, <2>2, <2>3, <2>4
<1>7. ASSUME NEW v \in Units, Agent[v] = "codex"
      PROVE  /\ \A i, j \in DOMAIN RowsIn(e, v) : RowsIn(e, v)[i].conv = RowsIn(e, v)[j].conv
             /\ \A w \in Copies(v) : e[v] # Absent /\ e[w] # Absent => v = w
  <2>1. \A i, j \in DOMAIN RowsIn(e, v) : RowsIn(e, v)[i].conv = RowsIn(e, v)[j].conv
    <3>1. CASE v = u
      <4>1. RowsIn(e, v) = lines /\ Agent[u] = "codex"
        BY <1>1, <1>7, <3>1
      <4>2. \A i, j \in DOMAIN lines : lines[i].conv = lines[j].conv
        BY <1>2, <4>1 DEF Revises
      <4> QED BY <4>1, <4>2
    <3>2. CASE v # u
      <4>1. RowsIn(e, v) = RowsIn(dk, v)
        BY <1>1, <3>2
      <4>2. \A i, j \in DOMAIN RowsIn(dk, v) : RowsIn(dk, v)[i].conv = RowsIn(dk, v)[j].conv
        BY <1>7 DEF DiskSound
      <4> QED BY <4>1, <4>2
    <3> QED BY <3>1, <3>2
  <2>2. ASSUME NEW w \in Copies(v), e[v] # Absent, e[w] # Absent, v # w
        PROVE  FALSE
    <3>1. w \in Units /\ Agent[w] = "codex" /\ v \in Copies(w)
      BY <1>7 DEF Copies
    <3>2. CASE v = u
      BY <1>1, <1>7, <2>2, <3>1, <3>2
    <3>3. CASE w = u
      BY <1>1, <1>7, <2>2, <3>1, <3>3
    <3>4. CASE v # u /\ w # u
      BY <1>1, <1>7, <2>2, <3>1, <3>4 DEF DiskSound
    <3> QED BY <3>2, <3>3, <3>4
  <2> QED BY <2>1, <2>2
<1>8. DiskSound(e, now + 1)
  BY <1>4, <1>6, <1>7 DEF DiskSound
<1>9. ASSUME NEW text \in Nat, text <= now, OnDisk(e, text)
      PROVE  OnDisk(dk, text)
  <2>1. PICK w \in Units : \E i \in DOMAIN RowsIn(e, w) : RowsIn(e, w)[i].text = text
    BY <1>9 DEF OnDisk
  <2>2. PICK i \in DOMAIN RowsIn(e, w) : RowsIn(e, w)[i].text = text
    BY <2>1
  <2>3. CASE w # u
    BY <1>1, <2>2, <2>3 DEF OnDisk
  <2>4. CASE w = u
    <3>1. i \in DOMAIN lines /\ lines[i].text = text
      BY <1>1, <2>2, <2>4
    <3>2. text # now + 1
      BY <1>9
    <3>3. \E j \in DOMAIN old : old[j].text = text
      BY <1>2, <3>1, <3>2 DEF Revises
    <3> QED BY <3>3 DEF OnDisk, old
  <2> QED BY <2>3, <2>4
<1>10. ASSUME NEW w \in Units, NEW part \in Seq(Records), IsFile(w),
              IsPrefix(part, RowsIn(dk, w)), Alive(e, part)
       PROVE  Begins(e, w, part)
  <2>1. w \in Copies(w)
    BY CopiesOfCopies DEF Copies
  <2>2. CASE w # u
    BY <1>1, <1>10, <2>1, <2>2 DEF Begins
  <2>3. CASE w = u
    <3>1. Len(part) <= Len(old) /\ \A i \in 1..Len(part) : part[i] = old[i]
      BY <1>3, <1>10, <2>3, PrefixMeans DEF old
    <3>2. /\ Len(part) \in Nat /\ DOMAIN part = 1..Len(part)
          /\ Len(old) \in Nat /\ DOMAIN old = 1..Len(old)
          /\ Len(lines) \in Nat /\ DOMAIN lines = 1..Len(lines)
      BY <1>2, <1>3, LenProperties DEF old
    <3>3. ASSUME NEW i \in 1..Len(part)
          PROVE  \E j \in DOMAIN lines : lines[j].text = old[i].text
      <4>1. OnDisk(e, old[i].text)
        BY <1>10, <3>1, <3>2 DEF Alive
      <4>2. PICK v \in Units : \E j \in DOMAIN RowsIn(e, v) : RowsIn(e, v)[j].text = old[i].text
        BY <4>1 DEF OnDisk
      <4>3. PICK j \in DOMAIN RowsIn(e, v) : RowsIn(e, v)[j].text = old[i].text
        BY <4>2
      <4>4. i \in DOMAIN old
        BY <3>1, <3>2
      <4>5. v = u
        <5>1. SUFFICES ASSUME v # u PROVE FALSE
          OBVIOUS
        <5>2. j \in DOMAIN RowsIn(dk, v) /\ RowsIn(dk, v)[j].text = RowsIn(dk, u)[i].text
          BY <1>1, <4>3, <5>1 DEF old
        <5>3. i \in DOMAIN RowsIn(dk, u)
          BY <4>4 DEF old
        <5> QED BY <5>1, <5>2, <5>3 DEF DiskSound
      <4> QED BY <1>1, <4>3, <4>5
    <3>4. ASSUME NEW n \in 1..Len(part)
          PROVE  n \in DOMAIN lines /\ lines[n] = old[n]
      <4>1. n \in DOMAIN old
        BY <3>1, <3>2
      <4>2. \A i \in 1..n : i \in 1..Len(part)
        BY <3>2
      <4> QED BY <1>2, <1>10, <2>3, <3>3, <4>1, <4>2 DEF Revises
    <3>5. Len(part) <= Len(lines)
      BY <3>2, <3>4
    <3>6. \A i \in 1..Len(part) : part[i] = lines[i]
      BY <3>1, <3>4
    <3>7. IsPrefix(part, lines)
      BY <1>2, <3>5, <3>6, PrefixMeans
    <3> QED BY <1>1, <2>1, <2>3, <3>7 DEF Begins
  <2> QED BY <2>2, <2>3
<1> DEFINE then == now + 1
<1>11. now \in Nat /\ then \in Nat /\ now <= then
  OBVIOUS
<1> HIDE DEF then
<1>12. Later(dk, now, e, then)
  BY <1>9, <1>10, <1>11 DEF Later
<1> QED BY <1>8, <1>12 DEF then

\* Nothing that a pass holds is put in doubt by what happens to the disk.
LEMMA LaterFollows ==
    ASSUME NEW dk, NEW now, NEW e, NEW then, Later(dk, now, e, then), NEW u \in Units,
           IsFile(u), NEW lines, Own(now, u, lines), Follows(dk, u, lines)
    PROVE  /\ Own(then, u, lines)
           /\ Follows(e, u, lines)
           /\ Alive(e, lines) => Alive(dk, lines)
<1>1. \A i \in DOMAIN lines : lines[i].text \in Nat /\ lines[i].text <= now
  <2>1. lines \in Seq(Records)
    BY DEF Own
  <2>2. \A i \in DOMAIN lines : lines[i].text \in Nat
    BY <2>1, PlacesOf
  <2> QED BY <2>2 DEF Own
<1>2. now \in Nat /\ then \in Nat /\ now <= then
  BY DEF Later
<1>3. \A i \in DOMAIN lines : lines[i].text <= then
  BY <1>1, <1>2
<1>4. Alive(e, lines) => Alive(dk, lines)
  BY <1>1 DEF Later, Alive
<1>5. ASSUME Alive(e, lines)
      PROVE  Begins(e, u, lines)
  <2>1. PICK w \in Copies(u) : IsPrefix(lines, RowsIn(dk, w))
    BY <1>4, <1>5 DEF Follows, Begins
  <2>2. w \in Units /\ Copies(w) = Copies(u) /\ IsFile(w)
    BY CopiesOfCopies
  <2>3. lines \in Seq(Records)
    BY DEF Own
  <2>4. Begins(e, w, lines)
    BY <1>5, <2>1, <2>2, <2>3 DEF Later
  <2> QED BY <2>2, <2>4 DEF Begins
<1> QED BY <1>3, <1>4, <1>5 DEF Own, Follows

\* codex moves a rollout.
LEMMA MoveSound ==
    ASSUME NEW dk \in [Units -> {Absent} \cup Written], NEW now \in Nat, DiskSound(dk, now),
           NEW u \in Units, NEW v \in Units, v \in Copies(u), Agent[u] = "codex",
           dk[u] # Absent, dk[v] = Absent,
           NEW e, e = [dk EXCEPT ![v] = dk[u], ![u] = Absent]
    PROVE  DiskSound(e, now + 1) /\ Later(dk, now, e, now + 1)
<1>1. /\ u # v /\ RowsIn(e, v) = RowsIn(dk, u) /\ RowsIn(e, u) = <<>> /\ RowsIn(dk, v) = <<>>
      /\ e[u] = Absent /\ e[v] = dk[u]
      /\ \A w \in Units \ {u, v} : e[w] = dk[w] /\ RowsIn(e, w) = RowsIn(dk, w)
  BY DEF RowsIn
<1>2. \A w \in Units : RowsIn(dk, w) \in Seq(Records)
  BY DEF DiskSound, Own
<1>3. Agent[v] = "codex" /\ Conv[v] = Conv[u] /\ u \in Copies(v) /\ Copies(v) = Copies(u)
  BY DEF Copies
\* Every record of the new disk was on the old one, at most elsewhere.
<1> DEFINE From(w) == IF w = v THEN u ELSE w
<1>4. ASSUME NEW w \in Units
      PROVE  /\ From(w) \in Units /\ Conv[From(w)] = Conv[w]
             /\ \/ RowsIn(e, w) = <<>>
                \/ w # u /\ RowsIn(e, w) = RowsIn(dk, From(w))
  BY <1>1, <1>3
<1> HIDE DEF From
<1>5. ASSUME NEW w \in Units
      PROVE  Own(now + 1, w, RowsIn(e, w))
  <2>1. CASE RowsIn(e, w) = <<>>
    <3> DEFINE rows == RowsIn(e, w)
    <3>1. rows \in Seq(Records) /\ DOMAIN rows = {}
      BY <2>1
    <3> HIDE DEF rows
    <3>2. Own(now + 1, w, rows)
      BY <3>1 DEF Own
    <3> QED BY <3>2 DEF rows
  <2>2. CASE RowsIn(e, w) = RowsIn(dk, From(w))
    <3> DEFINE rows == RowsIn(dk, From(w))
    <3>1. Own(now, From(w), rows) /\ Conv[From(w)] = Conv[w] /\ rows \in Seq(Records)
      BY <1>2, <1>4 DEF DiskSound
    <3> HIDE DEF rows
    <3>2. \A i \in DOMAIN rows : rows[i].text \in Nat
      BY <3>1, PlacesOf
    <3>3. Own(now + 1, w, rows)
      BY <3>1, <3>2 DEF Own
    <3> QED BY <2>2, <3>3 DEF rows
  <2> QED BY <1>4, <2>1, <2>2
<1>6. ASSUME NEW a \in Units, NEW b \in Units,
             NEW i \in DOMAIN RowsIn(e, a), NEW j \in DOMAIN RowsIn(e, b),
             RowsIn(e, a)[i].text = RowsIn(e, b)[j].text
      PROVE  a = b /\ i = j
  <2> DEFINE ra == RowsIn(e, a)
             rb == RowsIn(e, b)
  <2>1. i \in DOMAIN ra /\ j \in DOMAIN rb /\ ra[i].text = rb[j].text
    BY <1>6
  <2> HIDE DEF ra, rb
  <2>2. ra # <<>> /\ rb # <<>>
    BY <2>1
  <2>3. /\ a # u /\ ra = RowsIn(dk, From(a)) /\ From(a) \in Units
        /\ b # u /\ rb = RowsIn(dk, From(b)) /\ From(b) \in Units
    BY <1>4, <2>2 DEF ra, rb
  <2>4. From(a) = From(b) /\ i = j
    BY <2>1, <2>3 DEF DiskSound
  <2> QED BY <2>3, <2>4 DEF From
<1>7. ASSUME NEW w \in Units, Agent[w] = "codex"
      PROVE  /\ \A i, j \in DOMAIN RowsIn(e, w) : RowsIn(e, w)[i].conv = RowsIn(e, w)[j].conv
             /\ \A x \in Copies(w) : e[w] # Absent /\ e[x] # Absent => w = x
  <2>1. \A i, j \in DOMAIN RowsIn(e, w) : RowsIn(e, w)[i].conv = RowsIn(e, w)[j].conv
    <3> DEFINE rows == RowsIn(e, w)
    <3>1. CASE rows = <<>>
      <4>1. DOMAIN rows = {}
        BY <3>1
      <4> QED BY <4>1
    <3>2. CASE rows = RowsIn(dk, From(w))
      <4>1. Agent[From(w)] = "codex" /\ From(w) \in Units
        BY <1>4, <1>7 DEF From
      <4>2. \A i, j \in DOMAIN RowsIn(dk, From(w)) :
              RowsIn(dk, From(w))[i].conv = RowsIn(dk, From(w))[j].conv
        BY <4>1 DEF DiskSound
      <4> QED BY <3>2, <4>2
    <3> QED BY <1>4, <3>1, <3>2
  <2>2. ASSUME NEW x \in Copies(w), e[w] # Absent, e[x] # Absent
        PROVE  w = x
    <3>1. x \in Units /\ w # u /\ x # u
      BY <1>1, <1>7, <2>2 DEF Copies
    <3>2. From(x) \in Copies(From(w)) /\ From(w) \in Units /\ Agent[From(w)] = "codex"
      BY <1>3, <1>7, <2>2 DEF From, Copies
    <3>3. dk[From(x)] # Absent /\ dk[From(w)] # Absent
      BY <1>1, <2>2, <3>1 DEF From
    <3>4. From(w) = From(x)
      BY <3>2, <3>3 DEF DiskSound
    <3> QED BY <3>1, <3>4 DEF From
  <2> QED BY <2>1, <2>2
<1>8. DiskSound(e, now + 1)
  BY <1>5, <1>6, <1>7 DEF DiskSound
<1>9. ASSUME NEW text, OnDisk(e, text)
      PROVE  OnDisk(dk, text)
  <2>1. PICK w \in Units : \E i \in DOMAIN RowsIn(e, w) : RowsIn(e, w)[i].text = text
    BY <1>9 DEF OnDisk
  <2> DEFINE rows == RowsIn(e, w)
  <2>2. PICK i \in DOMAIN rows : rows[i].text = text
    BY <2>1
  <2> HIDE DEF rows
  <2>3. rows # <<>>
    BY <2>2
  <2>4. From(w) \in Units /\ rows = RowsIn(dk, From(w))
    BY <1>4, <2>3 DEF rows
  <2> QED BY <2>2, <2>4 DEF OnDisk
<1>10. ASSUME NEW w \in Units, NEW part \in Seq(Records), IsFile(w),
              IsPrefix(part, RowsIn(dk, w)), Alive(e, part)
       PROVE  Begins(e, w, part)
  <2>1. CASE w = u
    <3>1. IsPrefix(part, RowsIn(e, v)) /\ v \in Copies(w)
      BY <1>1, <1>10, <2>1
    <3> QED BY <3>1 DEF Begins
  <2>2. CASE w # u
    <3>1. w \in Copies(w)
      BY DEF Copies
    <3>2. CASE w # v
      BY <1>1, <1>10, <2>2, <3>1, <3>2 DEF Begins
    <3>3. CASE w = v
      <4> DEFINE rows == RowsIn(e, w)
                 none == RowsIn(dk, w)
      <4>1. none = <<>> /\ IsPrefix(part, none) /\ rows \in Seq(Records)
        BY <1>1, <1>5, <1>10, <3>3 DEF Own
      <4> HIDE DEF rows, none
      <4>2. IsPrefix(part, rows)
        BY <4>1, PrefixOfNone
      <4> QED BY <3>1, <4>2 DEF Begins, rows
    <3> QED BY <3>2, <3>3
  <2> QED BY <2>1, <2>2
<1> DEFINE then == now + 1
<1>11. now \in Nat /\ then \in Nat /\ now <= then
  OBVIOUS
<1> HIDE DEF then
<1>12. Later(dk, now, e, then)
  BY <1>9, <1>10, <1>11 DEF Later
<1> QED BY <1>8, <1>12 DEF then

\* What a tool finds of its unit.
LEMMA ContentRows ==
    ASSUME IngestInv, DiskSound(disk, clock), NEW u \in Units
    PROVE  /\ Content(u).lines = RowsIn(disk, u)
           /\ Own(clock, u, RowsIn(disk, u))
           /\ RowsIn(disk, u) \in Seq(Records)
           /\ \A i \in DOMAIN RowsIn(disk, u) : /\ RowsIn(disk, u)[i].text \in Nat
                                                /\ RowsIn(disk, u)[i].text <= clock
           /\ \A i, j \in DOMAIN RowsIn(disk, u) :
                RowsIn(disk, u)[i].text = RowsIn(disk, u)[j].text => i = j
           /\ Agent[u] = "codex" => \A i, j \in DOMAIN RowsIn(disk, u) :
                RowsIn(disk, u)[i].conv = RowsIn(disk, u)[j].conv
           /\ clock \in Nat
<1> DEFINE rows == RowsIn(disk, u)
<1>1. Content(u).lines = rows
  BY DEF Content, RowsIn
<1>2. Own(clock, u, rows)
  BY DEF DiskSound
<1>3. \A i, j \in DOMAIN rows : rows[i].text = rows[j].text => i = j
  BY DEF DiskSound
<1>4. Agent[u] = "codex" => \A i, j \in DOMAIN rows : rows[i].conv = rows[j].conv
  BY DEF DiskSound
<1> HIDE DEF rows
<1>5. rows \in Seq(Records)
  BY <1>2 DEF Own
<1>6. \A i \in DOMAIN rows : rows[i].text \in Nat
  BY <1>5, PlacesOf
<1>7. clock \in Nat
  BY DEF IngestInv, DiskTyped
<1> QED BY <1>1, <1>2, <1>3, <1>4, <1>5, <1>6, <1>7 DEF Own, rows

LEMMA WriteRevises ==
    ASSUME IngestInv, DiskSound(disk, clock), NEW u \in Units, NEW lines, NEW half,
           Write(u, lines, half), Revises(u, RowsIn(disk, u), lines, clock + 1)
    PROVE  DiskSound(disk', clock') /\ Later(disk, clock, disk', clock')
<1> DEFINE new == [lines |-> lines, half |-> half, mtime |-> clock + 1]
           old == RowsIn(disk, u)
           e == [disk EXCEPT ![u] = new]
<1>1. disk \in [Units -> {Absent} \cup Written] /\ clock \in Nat
  BY DEF IngestInv, DiskTyped
<1>2. disk' = e /\ clock' = clock + 1
  BY DEF Write
<1>3. Agent[u] = "codex" => \A w \in Copies(u) \ {u} : disk[w] = Absent
  BY DEF Write, OnlyCopy, Copies
<1>4. new.lines = lines
  OBVIOUS
<1>5. old \in Seq(Records)
  BY ContentRows
<1> HIDE DEF new, old
<1>6. RowsIn(e, u) = lines \/ RowsIn(e, u) = <<>>
  BY <1>1, <1>4 DEF RowsIn
<1>7. Revises(u, old, <<>>, clock + 1)
  <2> DEFINE none == <<>>
  <2>1. none \in Seq(Records) /\ DOMAIN none = {}
    OBVIOUS
  <2>2. \A n \in DOMAIN old : n \in 1..n
    BY <1>5, LenProperties
  <2> HIDE DEF none
  <2>3. Revises(u, old, none, clock + 1)
    BY <2>1, <2>2 DEF Revises, Own
  <2> QED BY <2>3 DEF none
<1>8. Revises(u, old, RowsIn(e, u), clock + 1)
  BY <1>6, <1>7 DEF old
<1> DEFINE dk == disk
           now == clock
<1>9. /\ dk \in [Units -> {Absent} \cup Written] /\ now \in Nat /\ DiskSound(dk, now)
      /\ e = [dk EXCEPT ![u] = new] /\ Revises(u, RowsIn(dk, u), RowsIn(e, u), now + 1)
      /\ (Agent[u] = "codex" => \A w \in Copies(u) \ {u} : dk[w] = Absent)
  BY <1>1, <1>3, <1>8 DEF old
<1> HIDE DEF dk, now, e
<1>10. DiskSound(e, now + 1) /\ Later(dk, now, e, now + 1)
  BY <1>9, WriteSound
<1> QED BY <1>2, <1>10 DEF dk, now

\* A record is appended.
LEMMA AppendRevises ==
    ASSUME IngestInv, DiskSound(disk, clock), NEW u \in Units, NEW s \in Conv[u], NEW at \in Nat,
           Agent[u] = "codex" /\ RowsIn(disk, u) # <<>> => s = RowsIn(disk, u)[1].conv
    PROVE  Revises(u, RowsIn(disk, u), Append(RowsIn(disk, u), Record(s, at)), clock + 1)
<1> DEFINE old == RowsIn(disk, u)
           r == Record(s, at)
           lines == Append(old, r)
           l == Len(old)
<1>1. /\ old \in Seq(Records)
      /\ \A i \in DOMAIN old : /\ old[i].conv \in Conv[u] /\ old[i].text \in Nat
                               /\ old[i].text <= clock
      /\ \A i, j \in DOMAIN old : old[i].text = old[j].text => i = j
      /\ Agent[u] = "codex" => \A i, j \in DOMAIN old : old[i].conv = old[j].conv
      /\ clock \in Nat
  BY ContentRows DEF Own
<1>2. r.conv = s /\ r.text = clock + 1
  BY DEF Record
<1>3. lines \in Seq(Records)
  <2>1. s \in Sources /\ Content(u).lines = old
    BY ContentRows DEF Sources
  <2> QED BY <2>1, RecordTyped
<1>4. l \in Nat /\ DOMAIN old = 1..l
  BY <1>1, LenProperties
<1>5. DOMAIN lines = 1..(l + 1) /\ lines[l + 1] = r /\ \A i \in 1..l : lines[i] = old[i]
  <2>1. r \in Records
    BY <1>1 DEF Record, Records, Sources
  <2> HIDE DEF old, r
  <2> QED BY <1>1, <1>4, <2>1, AppendProperties
<1>6. Agent[u] = "codex" => \A i \in DOMAIN old : old[i].conv = s
  <2>1. SUFFICES ASSUME Agent[u] = "codex", NEW i \in DOMAIN old PROVE old[i].conv = s
    OBVIOUS
  <2>2. 1 \in DOMAIN old /\ old # <<>>
    BY <1>4, <2>1
  <2> QED BY <1>1, <2>1, <2>2
<1> HIDE DEF old, r, lines, l
<1>7. \A i \in DOMAIN lines : i = l + 1 \/ i \in DOMAIN old
  BY <1>4, <1>5
<1>8. \A i \in DOMAIN lines : /\ lines[i].conv \in Conv[u]
                              /\ lines[i].text <= clock + 1
                              /\ lines[i].text = clock + 1 => i = l + 1
                              /\ i # l + 1 => i \in DOMAIN old /\ lines[i] = old[i]
  <2> TAKE i \in DOMAIN lines
  <2>1. CASE i = l + 1
    BY <1>1, <1>2, <1>5, <2>1
  <2>2. CASE i \in DOMAIN old
    <3>1. lines[i] = old[i]
      BY <1>4, <1>5, <2>2
    <3>2. old[i].text # clock + 1 /\ old[i].text <= clock + 1
      BY <1>1, <2>2
    <3> QED BY <1>1, <2>2, <3>1, <3>2
  <2> QED BY <1>7, <2>1, <2>2
<1>9. Own(clock + 1, u, lines)
  BY <1>3, <1>8 DEF Own
<1>10. \A i \in DOMAIN lines :
         lines[i].text = clock + 1 \/ \E j \in DOMAIN old : lines[i].text = old[j].text
  BY <1>2, <1>5, <1>8
<1>11. \A i, j \in DOMAIN lines : lines[i].text = lines[j].text => i = j
  <2> SUFFICES ASSUME NEW i \in DOMAIN lines, NEW j \in DOMAIN lines,
                      lines[i].text = lines[j].text
               PROVE  i = j
    OBVIOUS
  <2>1. CASE i = l + 1 \/ j = l + 1
    BY <1>2, <1>5, <1>8, <2>1
  <2>2. CASE i # l + 1 /\ j # l + 1
    BY <1>1, <1>8, <2>2
  <2> QED BY <2>1, <2>2
<1>12. Agent[u] = "codex" => \A i, j \in DOMAIN lines : lines[i].conv = lines[j].conv
  BY <1>2, <1>5, <1>6, <1>8
<1>13. \A n \in DOMAIN old : n \in DOMAIN lines /\ lines[n] = old[n]
  BY <1>4, <1>5
<1>14. Revises(u, old, lines, clock + 1)
  BY <1>9, <1>10, <1>11, <1>12, <1>13 DEF Revises
<1> QED BY <1>14 DEF old, lines, r

\* No record changes: a line is begun.
LEMMA SameRevises ==
    ASSUME IngestInv, DiskSound(disk, clock), NEW u \in Units
    PROVE  Revises(u, RowsIn(disk, u), RowsIn(disk, u), clock + 1)
<1> DEFINE old == RowsIn(disk, u)
<1>1. /\ old \in Seq(Records)
      /\ \A i \in DOMAIN old : /\ old[i].conv \in Conv[u] /\ old[i].text \in Nat
                               /\ old[i].text <= clock
      /\ \A i, j \in DOMAIN old : old[i].text = old[j].text => i = j
      /\ Agent[u] = "codex" => \A i, j \in DOMAIN old : old[i].conv = old[j].conv
      /\ clock \in Nat
  BY ContentRows DEF Own
<1> HIDE DEF old
<1>2. \A i \in DOMAIN old : old[i].text <= clock + 1
  BY <1>1
<1>3. Own(clock + 1, u, old)
  BY <1>1, <1>2 DEF Own
<1>4. Revises(u, old, old, clock + 1)
  BY <1>1, <1>3 DEF Revises
<1> QED BY <1>4 DEF old

\* A record is dropped: those behind it move up, and it is gone.
LEMMA RemoveRevises ==
    ASSUME IngestInv, DiskSound(disk, clock), NEW u \in Units, NEW n \in DOMAIN RowsIn(disk, u)
    PROVE  Revises(u, RowsIn(disk, u), RemoveAt(RowsIn(disk, u), n), clock + 1)
<1> DEFINE old == RowsIn(disk, u)
           lines == RemoveAt(old, n)
           l == Len(old)
           Was(i) == IF i < n THEN i ELSE i + 1
<1>1. /\ old \in Seq(Records)
      /\ \A i \in DOMAIN old : /\ old[i].conv \in Conv[u] /\ old[i].text \in Nat
                               /\ old[i].text <= clock
      /\ \A i, j \in DOMAIN old : old[i].text = old[j].text => i = j
      /\ Agent[u] = "codex" => \A i, j \in DOMAIN old : old[i].conv = old[j].conv
      /\ clock \in Nat
  BY ContentRows DEF Own
<1>2. n \in DOMAIN old
  OBVIOUS
<1> HIDE DEF old
<1>3. l \in Nat /\ DOMAIN old = 1..l /\ n \in 1..l /\ \A i \in 1..l : old[i] \in Records
  BY <1>1, <1>2, LenProperties, ElementOfSeq
<1>4. /\ lines \in Seq(Records) /\ DOMAIN lines = 1..(l - 1)
      /\ \A i \in 1..(l - 1) : lines[i] = old[Was(i)]
  <2> DEFINE a == SubSeq(old, 1, n - 1)
             b == SubSeq(old, n + 1, l)
  <2>1. n - 1 \in Int /\ n + 1 \in Int /\ l \in Int /\ 1 \in Int
    BY <1>3
  <2>2. (\A i \in 1..(n - 1) : old[i] \in Records) /\ (\A i \in (n + 1)..l : old[i] \in Records)
    BY <1>3
  <2>3. a \in Seq(Records) /\ Len(a) = n - 1 /\ \A i \in 1..(n - 1) : a[i] = old[i]
    <3>1. /\ a \in Seq(Records)
          /\ Len(a) = IF 1 <= n - 1 THEN (n - 1) - 1 + 1 ELSE 0
          /\ \A i \in 1..((n - 1) - 1 + 1) : a[i] = old[1 + i - 1]
      BY <2>1, <2>2, SubSeqProperties
    <3> HIDE DEF a
    <3>2. (IF 1 <= n - 1 THEN (n - 1) - 1 + 1 ELSE 0) = n - 1 /\ (n - 1) - 1 + 1 = n - 1
      BY <1>3
    <3>3. \A i \in 1..(n - 1) : 1 + i - 1 = i
      BY <1>3
    <3> QED BY <3>1, <3>2, <3>3
  <2>4. b \in Seq(Records) /\ Len(b) = l - n /\ \A i \in 1..(l - n) : b[i] = old[n + i]
    <3>1. /\ b \in Seq(Records)
          /\ Len(b) = IF n + 1 <= l THEN l - (n + 1) + 1 ELSE 0
          /\ \A i \in 1..(l - (n + 1) + 1) : b[i] = old[n + 1 + i - 1]
      BY <2>1, <2>2, SubSeqProperties
    <3> HIDE DEF b
    <3>2. (IF n + 1 <= l THEN l - (n + 1) + 1 ELSE 0) = l - n /\ l - (n + 1) + 1 = l - n
      BY <1>3
    <3>3. \A i \in 1..(l - n) : n + 1 + i - 1 = n + i
      BY <1>3
    <3> QED BY <3>1, <3>2, <3>3
  <2>5. lines = a \o b
    BY DEF RemoveAt
  <2> HIDE DEF a, b, lines
  <2>6. /\ lines \in Seq(Records) /\ Len(lines) = Len(a) + Len(b)
        /\ \A i \in 1..(Len(a) + Len(b)) : lines[i] = IF i <= Len(a) THEN a[i] ELSE b[i - Len(a)]
    BY <2>3, <2>4, <2>5, ConcatProperties
  <2>7. DOMAIN lines = 1..Len(lines)
    BY <2>6, LenProperties
  <2>8. Len(a) + Len(b) = l - 1
    BY <1>3, <2>3, <2>4
  <2>9. ASSUME NEW i \in 1..(l - 1)
        PROVE  lines[i] = old[Was(i)]
    <3>1. CASE i < n
      <4>1. i <= Len(a) /\ i \in 1..(n - 1)
        BY <1>3, <2>3, <3>1
      <4> QED BY <2>3, <2>6, <2>8, <3>1, <4>1
    <3>2. CASE ~(i < n)
      <4>1. ~(i <= Len(a)) /\ i - Len(a) \in 1..(l - n) /\ n + (i - Len(a)) = i + 1
        BY <1>3, <2>3, <3>2
      <4> DEFINE j == i - Len(a)
      <4>2. lines[i] = b[j] /\ j \in 1..(l - n) /\ n + j = i + 1
        BY <2>6, <2>8, <4>1
      <4> HIDE DEF j
      <4>3. lines[i] = old[i + 1]
        BY <2>4, <4>2
      <4> QED BY <3>2, <4>3
    <3> QED BY <3>1, <3>2
  <2> QED BY <2>6, <2>7, <2>8, <2>9
<1> HIDE DEF lines
<1>5. /\ \A i \in 1..(l - 1) : Was(i) \in 1..l /\ Was(i) # n
      /\ \A i, j \in 1..(l - 1) : Was(i) = Was(j) => i = j
      /\ \A i \in 1..(l - 1) : i < n => Was(i) = i
  BY <1>3
<1> HIDE DEF Was
<1>6. \A i \in DOMAIN lines : Was(i) \in DOMAIN old /\ lines[i] = old[Was(i)]
  BY <1>3, <1>4, <1>5
<1>7. Own(clock + 1, u, lines)
  <2>1. \A i \in DOMAIN old : old[i].text <= clock + 1
    BY <1>1
  <2> QED BY <1>1, <1>4, <1>6, <2>1 DEF Own
<1>8. \A i \in DOMAIN lines : \E j \in DOMAIN old : lines[i].text = old[j].text
  BY <1>6
<1>9. \A i, j \in DOMAIN lines : lines[i].text = lines[j].text => i = j
  <2> SUFFICES ASSUME NEW i \in DOMAIN lines, NEW j \in DOMAIN lines,
                      lines[i].text = lines[j].text
               PROVE  i = j
    OBVIOUS
  <2>1. Was(i) = Was(j)
    BY <1>1, <1>6
  <2> QED BY <1>4, <1>5, <2>1
<1>10. Agent[u] = "codex" => \A i, j \in DOMAIN lines : lines[i].conv = lines[j].conv
  BY <1>1, <1>6
<1>11. ASSUME NEW m \in DOMAIN old
       PROVE  \/ m \in DOMAIN lines /\ lines[m] = old[m]
              \/ \E i \in 1..m : \A j \in DOMAIN lines : lines[j].text # old[i].text
  <2>1. CASE m < n
    <3>1. m \in 1..(l - 1)
      BY <1>3, <2>1
    <3> QED BY <1>4, <1>5, <2>1, <3>1
  <2>2. CASE ~(m < n)
    <3>1. n \in 1..m
      BY <1>3, <2>2
    <3>2. \A j \in DOMAIN lines : lines[j].text # old[n].text
      BY <1>1, <1>2, <1>4, <1>5, <1>6
    <3> QED BY <3>1, <3>2
  <2> QED BY <2>1, <2>2
<1>12. Revises(u, old, lines, clock + 1)
  BY <1>7, <1>8, <1>9, <1>10, <1>11 DEF Revises
<1> QED BY <1>12 DEF old, lines

\* A record is changed in place: its old text is gone.
LEMMA ChangeRevises ==
    ASSUME IngestInv, DiskSound(disk, clock), NEW u \in Units, NEW n \in DOMAIN RowsIn(disk, u)
    PROVE  Revises(u, RowsIn(disk, u), [RowsIn(disk, u) EXCEPT ![n].text = clock + 1], clock + 1)
<1> DEFINE old == RowsIn(disk, u)
           r == [old[n] EXCEPT !.text = clock + 1]
           lines == [old EXCEPT ![n] = r]
<1>1. /\ old \in Seq(Records)
      /\ \A i \in DOMAIN old : /\ old[i].conv \in Conv[u] /\ old[i].text \in Nat
                               /\ old[i].text <= clock
      /\ \A i, j \in DOMAIN old : old[i].text = old[j].text => i = j
      /\ Agent[u] = "codex" => \A i, j \in DOMAIN old : old[i].conv = old[j].conv
      /\ clock \in Nat
  BY ContentRows DEF Own
<1>2. n \in DOMAIN old /\ [old EXCEPT ![n].text = clock + 1] = lines
  BY <1>1
<1> HIDE DEF old
<1>3. DOMAIN old = 1..Len(old) /\ Len(old) \in Nat /\ n \in 1..Len(old) /\ old[n] \in Records
  BY <1>1, <1>2, LenProperties, ElementOfSeq
<1>4. r \in Records /\ r.text = clock + 1 /\ r.conv = old[n].conv
  BY <1>1, <1>3 DEF Records
<1> HIDE DEF r
<1>5. /\ lines \in Seq(Records) /\ DOMAIN lines = DOMAIN old /\ lines[n] = r
      /\ \A i \in DOMAIN old : i # n => lines[i] = old[i]
  BY <1>1, <1>2, <1>3, <1>4, ExceptSeq
<1> HIDE DEF lines
<1>6. \A i \in DOMAIN old : old[i].text # clock + 1 /\ old[i].text <= clock + 1
  BY <1>1
<1>7. clock + 1 <= clock + 1
  BY <1>1
<1>8. Own(clock + 1, u, lines)
  <2>1. ASSUME NEW i \in DOMAIN lines
        PROVE  lines[i].conv \in Conv[u] /\ lines[i].text <= clock + 1
    <3>1. CASE i = n
      BY <1>1, <1>2, <1>4, <1>5, <1>7, <3>1
    <3>2. CASE i # n
      BY <1>1, <1>5, <1>6, <3>2
    <3> QED BY <3>1, <3>2
  <2> QED BY <1>5, <2>1 DEF Own
<1>9. \A i \in DOMAIN lines :
        lines[i].text = clock + 1 \/ \E j \in DOMAIN old : lines[i].text = old[j].text
  BY <1>4, <1>5
<1>10. \A i, j \in DOMAIN lines : lines[i].text = lines[j].text => i = j
  BY <1>1, <1>4, <1>5, <1>6
<1>11. Agent[u] = "codex" => \A i, j \in DOMAIN lines : lines[i].conv = lines[j].conv
  <2>1. \A i \in DOMAIN lines : i \in DOMAIN old /\ lines[i].conv = old[i].conv
    BY <1>4, <1>5
  <2> QED BY <1>1, <2>1
<1>12. ASSUME NEW m \in DOMAIN old
       PROVE  \/ m \in DOMAIN lines /\ lines[m] = old[m]
              \/ \E i \in 1..m : \A j \in DOMAIN lines : lines[j].text # old[i].text
  <2>1. CASE m # n
    BY <1>5, <2>1
  <2>2. CASE m = n
    <3>1. m \in 1..m
      BY <1>3
    <3>2. \A j \in DOMAIN lines : lines[j].text # old[m].text
      BY <1>1, <1>2, <1>4, <1>5, <1>6, <2>2
    <3> QED BY <3>1, <3>2
  <2> QED BY <2>1, <2>2
<1>13. Revises(u, old, lines, clock + 1)
  BY <1>8, <1>9, <1>10, <1>11, <1>12 DEF Revises
<1> QED BY <1>2, <1>13 DEF old

(***************************************************************************)
(* Whatever the tools do next, the disk stays sound and what was ingested  *)
(* follows it.                                                             *)
(***************************************************************************)
LEMMA ToolsSound ==
    ASSUME IngestInv, DiskSound(disk, clock), Tools
    PROVE  DiskSound(disk', clock') /\ Later(disk, clock, disk', clock')
<1>1. ASSUME NEW u \in Units, AppendLine(u)
      PROVE  DiskSound(disk', clock') /\ Later(disk, clock, disk', clock')
  <2>1. Content(u).lines = RowsIn(disk, u) /\ Own(clock, u, RowsIn(disk, u))
    BY ContentRows
  <2>2. PICK s \in Speakers(u) : Write(u, Append(RowsIn(disk, u), Record(s, 0)), FALSE)
    BY <1>1, <2>1 DEF AppendLine
  <2>3. s \in Conv[u] /\ (Agent[u] = "codex" /\ RowsIn(disk, u) # <<>> => s = RowsIn(disk, u)[1].conv)
    <3>1. CASE Agent[u] = "codex" /\ RowsIn(disk, u) # <<>>
      <4> DEFINE rows == RowsIn(disk, u)
      <4>1. rows \in Seq(Records) /\ rows # <<>>
        BY <2>1, <3>1 DEF Own
      <4>2. s = rows[1].conv
        BY <2>1, <2>2, <3>1 DEF Speakers
      <4> HIDE DEF rows
      <4>3. 1 \in DOMAIN rows
        BY <4>1
      <4> QED BY <2>1, <4>2, <4>3 DEF Own, rows
    <3>2. CASE ~(Agent[u] = "codex" /\ RowsIn(disk, u) # <<>>)
      BY <2>1, <2>2, <3>2 DEF Speakers
    <3> QED BY <3>1, <3>2
  <2>4. Revises(u, RowsIn(disk, u), Append(RowsIn(disk, u), Record(s, 0)), clock + 1)
    BY <2>3, AppendRevises
  <2> DEFINE new == Append(RowsIn(disk, u), Record(s, 0))
  <2> HIDE DEF new
  <2> QED BY <2>2, <2>4, WriteRevises DEF new
<1>2. ASSUME NEW u \in Units, BeginLine(u)
      PROVE  DiskSound(disk', clock') /\ Later(disk, clock, disk', clock')
  <2>1. Write(u, RowsIn(disk, u), TRUE)
    BY <1>2, ContentRows DEF BeginLine
  <2> QED BY <2>1, SameRevises, WriteRevises
<1>3. ASSUME NEW u \in Units, RewriteFile(u)
      PROVE  DiskSound(disk', clock') /\ Later(disk, clock, disk', clock')
  <2> DEFINE rows == RowsIn(disk, u)
  <2>1. Content(u).lines = rows
    BY ContentRows
  <2>2. PICK n \in DOMAIN rows :
          \/ Write(u, RemoveAt(rows, n), FALSE)
          \/ Write(u, [rows EXCEPT ![n].text = clock + 1], FALSE)
    BY <1>3, <2>1 DEF RewriteFile
  <2> DEFINE dropped == RemoveAt(rows, n)
             changed == [rows EXCEPT ![n].text = clock + 1]
  <2>3. Revises(u, RowsIn(disk, u), dropped, clock + 1)
    BY RemoveRevises
  <2>4. Revises(u, RowsIn(disk, u), changed, clock + 1)
    BY ChangeRevises
  <2>5. Write(u, dropped, FALSE) \/ Write(u, changed, FALSE)
    BY <2>2
  <2> HIDE DEF dropped, changed
  <2> QED BY <2>3, <2>4, <2>5, WriteRevises
<1>4. ASSUME NEW u \in Units, InsertRow(u)
      PROVE  DiskSound(disk', clock') /\ Later(disk, clock, disk', clock')
  <2>1. Content(u).lines = RowsIn(disk, u) /\ clock \in Nat
    BY ContentRows
  <2>2. \/ \E s \in Conv[u] : Write(u, Append(RowsIn(disk, u), Record(s, clock + 1)), FALSE)
        \/ Write(u, RowsIn(disk, u), FALSE)
    BY <1>4, <2>1 DEF InsertRow
  <2>3. CASE Write(u, RowsIn(disk, u), FALSE)
    BY <2>3, SameRevises, WriteRevises
  <2>4. ASSUME NEW s \in Conv[u], Write(u, Append(RowsIn(disk, u), Record(s, clock + 1)), FALSE)
        PROVE  DiskSound(disk', clock') /\ Later(disk, clock, disk', clock')
    <3>1. Agent[u] # "codex" /\ clock + 1 \in Nat
      BY <1>4, <2>1 DEF InsertRow, IsFile, Databases
    <3> DEFINE at == clock + 1
    <3>2. at \in Nat
      BY <3>1
    <3> HIDE DEF at
    <3>3. Revises(u, RowsIn(disk, u), Append(RowsIn(disk, u), Record(s, at)), clock + 1)
      BY <3>1, <3>2, AppendRevises
    <3> DEFINE new == Append(RowsIn(disk, u), Record(s, at))
    <3> HIDE DEF new
    <3>4. Write(u, new, FALSE)
      BY <2>4 DEF new, at
    <3> QED BY <3>3, <3>4, WriteRevises DEF new
  <2> QED BY <2>2, <2>3, <2>4
<1>5. ASSUME NEW u \in Units, NEW v \in Units, Archive(u, v)
      PROVE  DiskSound(disk', clock') /\ Later(disk, clock, disk', clock')
  <2>1. /\ clock' = clock + 1 /\ disk' = [disk EXCEPT ![v] = disk[u], ![u] = Absent]
        /\ disk[u] # Absent /\ disk[v] = Absent /\ Agent[u] = "codex" /\ v \in Copies(u)
    BY <1>5 DEF Archive, Copies
  <2>2. disk \in [Units -> {Absent} \cup Written] /\ clock \in Nat
    BY DEF IngestInv, DiskTyped
  <2> DEFINE dk == disk
             now == clock
             e == [dk EXCEPT ![v] = dk[u], ![u] = Absent]
  <2>3. /\ dk \in [Units -> {Absent} \cup Written] /\ now \in Nat /\ DiskSound(dk, now)
        /\ e = [dk EXCEPT ![v] = dk[u], ![u] = Absent] /\ dk[u] # Absent /\ dk[v] = Absent
        /\ disk' = e
    BY <2>1, <2>2
  <2> HIDE DEF dk, now, e
  <2>4. DiskSound(e, now + 1) /\ Later(dk, now, e, now + 1)
    BY <2>1, <2>3, MoveSound
  <2> QED BY <2>1, <2>3, <2>4 DEF dk, now
<1>6. ASSUME NEW u \in Units, LateRow(u)
      PROVE  DiskSound(disk', clock') /\ Later(disk, clock, disk', clock')
  <2>1. PICK s, lines :
          s \in Conv[u] /\ Late(u, s, lines) /\ disk' = [disk EXCEPT ![u].lines = lines]
    BY <1>6, LateRowIs
  <2>2. /\ Agent[u] = "opencode" /\ disk[u] # Absent /\ clock' = clock + 1
        /\ disk \in [Units -> {Absent} \cup Written] /\ clock \in Nat
    BY <1>6, LateRowIs DEF IngestInv, DiskTyped
  <2> DEFINE dk == disk
             now == clock
             new == [dk[u] EXCEPT !.lines = lines]
             e == [dk EXCEPT ![u] = new]
             old == RowsIn(disk, u)
  <2>3. disk' = e
    BY <2>1, <2>2
  <2>4. new.lines = lines
    BY <2>2 DEF Written
  <2>5. new # Absent
    <3>1. new \in Written
      BY <2>1, <2>2 DEF Written, Late
    <3> QED BY <3>1, IngestAssumption DEF Written, Records
  <2>6. /\ \A i \in DOMAIN old : old[i].conv \in Conv[u] /\ old[i].text <= clock
        /\ \A i, j \in DOMAIN old : old[i].text = old[j].text => i = j
        /\ \A i \in DOMAIN old : old[i].text \in Nat
        /\ old = disk[u].lines
    BY <2>2, ContentRows DEF Own, RowsIn
  <2> HIDE DEF new, old
  <2>7. RowsIn(e, u) = lines
    BY <2>2, <2>4, <2>5 DEF RowsIn
  <2>8. Own(clock + 1, u, lines)
    <3>1. \A j \in DOMAIN old : old[j].conv \in Conv[u] /\ old[j].text <= clock + 1
      BY <2>2, <2>6
    <3>2. clock + 1 <= clock + 1
      BY <2>2
    <3> QED BY <2>1, <2>6, <3>1, <3>2 DEF Own, Late
  <2>9. Revises(u, old, lines, clock + 1)
    <3>1. ~IsFile(u) /\ Agent[u] # "codex"
      BY <2>2 DEF IsFile, Databases
    <3>2. \A i \in DOMAIN lines :
            lines[i].text = clock + 1 \/ \E j \in DOMAIN old : lines[i].text = old[j].text
      BY <2>1, <2>6 DEF Late
    <3>3. \A i, j \in DOMAIN lines : lines[i].text = lines[j].text => i = j
      BY <2>1, <2>6 DEF Late
    <3> QED BY <2>8, <3>1, <3>2, <3>3 DEF Revises
  <2>10. /\ dk \in [Units -> {Absent} \cup Written] /\ now \in Nat /\ DiskSound(dk, now)
         /\ e = [dk EXCEPT ![u] = new] /\ Revises(u, RowsIn(dk, u), RowsIn(e, u), now + 1)
         /\ Agent[u] # "codex"
    BY <2>2, <2>7, <2>9 DEF old
  <2> HIDE DEF dk, now, e
  <2>11. DiskSound(e, now + 1) /\ Later(dk, now, e, now + 1)
    BY <2>10, WriteSound
  <2> QED BY <2>2, <2>3, <2>11 DEF dk, now
<1> QED BY <1>1, <1>2, <1>3, <1>4, <1>5, <1>6 DEF Tools

----------------------------------------------------------------------------
(* What the parsers read.                                                  *)

\* The lines behind an offset are lines of the file, and from the start all.
LEMMA LinesAre ==
    ASSUME NEW u, disk[u] \in Written, NEW from \in Nat
    PROVE  /\ LinesFrom(u, from) \in Seq(Records)
           /\ \A i \in DOMAIN LinesFrom(u, from) :
                \E j \in DOMAIN disk[u].lines : LinesFrom(u, from)[i] = disk[u].lines[j]
           /\ from = 0 => LinesFrom(u, from) = disk[u].lines
<1> DEFINE lines == disk[u].lines
           read == LinesFrom(u, from)
           l == Len(lines)
<1>1. lines \in Seq(Records)
  BY DEF Written
<1>2. read = SubSeq(lines, from + 1, l)
  BY DEF LinesFrom
<1> HIDE DEF lines, read
<1>3. l \in Nat /\ DOMAIN lines = 1..l /\ \A i \in 1..l : lines[i] \in Records
  BY <1>1, LenProperties, ElementOfSeq
<1> HIDE DEF l
<1> DEFINE a == from + 1
<1>4. a \in Int /\ l \in Int /\ \A i \in a..l : lines[i] \in Records
  BY <1>3
<1>5. a >= 1 /\ (from = 0 => a = 1)
  OBVIOUS
<1>6. read = SubSeq(lines, a, l)
  BY <1>2
<1> HIDE DEF a
<1>7. /\ read \in Seq(Records)
      /\ Len(read) = IF a <= l THEN l - a + 1 ELSE 0
      /\ \A i \in 1..(l - a + 1) : read[i] = lines[a + i - 1]
  BY <1>4, <1>6, SubSeqProperties
<1>8. ASSUME NEW i \in DOMAIN read
      PROVE  \E j \in DOMAIN lines : read[i] = lines[j]
  <2>1. i \in 1..Len(read)
    BY <1>7, LenProperties
  <2>2. i \in 1..(l - a + 1) /\ a + i - 1 \in 1..l
    BY <1>3, <1>4, <1>5, <1>7, <2>1
  <2> QED BY <1>3, <1>7, <2>2
<1>9. from = 0 => read = lines
  <2>1. SubSeq(lines, 1, l) = lines
    BY <1>1, SubSeqFull DEF l
  <2> QED BY <1>5, <1>6, <2>1
<1> QED BY <1>7, <1>8, <1>9 DEF read, lines

\* Each session once, with its turns among the records read.
SessionsRead(read, sessions) ==
    /\ \A n \in DOMAIN sessions : sessions[n].turns = TurnsOf(read, sessions[n].conv)
    /\ \A n, m \in DOMAIN sessions : sessions[n].conv = sessions[m].conv => n = m

\* No record is left out.
AllRead(read, sessions) ==
    \A s \in ConvsOf(read) : \E n \in DOMAIN sessions : sessions[n].conv = s

\* A file of one session.
LEMMA OneSessionRead ==
    ASSUME NEW u, disk[u] \in Written, NEW change, change.from \in Nat, NEW s,
           \A i \in DOMAIN LinesFrom(u, change.from) : LinesFrom(u, change.from)[i].conv = s
    PROVE  LET read == LinesFrom(u, change.from)
               sessions == OneSession(u, change, s)
           IN  /\ SessionsRead(read, sessions)
               /\ AllRead(read, sessions)
               /\ \A n \in DOMAIN sessions : sessions[n].conv = s
               /\ change.kind # "appended" /\ read = <<>> => sessions = <<>>
<1> DEFINE read == LinesFrom(u, change.from)
           sessions == OneSession(u, change, s)
           texts == [i \in DOMAIN read |-> read[i].text]
           row == [conv |-> s, turns |-> texts]
<1>1. read \in Seq(Records) /\ \A i \in DOMAIN read : read[i].conv = s
  BY LinesAre
<1>2. sessions = IF read = <<>> /\ change.kind # "appended" THEN <<>> ELSE <<row>>
  BY Zenon DEF OneSession
<1> HIDE DEF read, sessions
<1>3. texts = TurnsOf(read, s)
  BY <1>1, TurnsAll
<1>4. row.conv = s /\ row.turns = texts
  OBVIOUS
<1> HIDE DEF texts, row
<1>5. \A r \in ConvsOf(read) : r = s /\ read # <<>>
  <2>1. read = <<>> => DOMAIN read = {}
    OBVIOUS
  <2> QED BY <1>1, <2>1 DEF ConvsOf
<1>6. CASE sessions = <<>>
  <2>1. DOMAIN sessions = {} /\ read = <<>>
    BY <1>2, <1>6
  <2> QED BY <1>2, <1>5, <2>1 DEF SessionsRead, AllRead, read, sessions
<1>7. CASE sessions = <<row>>
  <2>1. DOMAIN sessions = {1} /\ sessions[1] = row
    BY <1>7
  <2>2. SessionsRead(read, sessions)
    BY <1>3, <1>4, <2>1 DEF SessionsRead
  <2>3. AllRead(read, sessions)
    BY <1>4, <1>5, <2>1 DEF AllRead
  <2>4. \A n \in DOMAIN sessions : sessions[n].conv = s
    BY <1>4, <2>1
  <2>5. change.kind # "appended" /\ read = <<>> => sessions = <<>>
    BY <1>2
  <2> QED BY <2>2, <2>3, <2>4, <2>5 DEF read, sessions
<1> QED BY <1>2, <1>6, <1>7

\* What a parse of a unit gives, whoever wrote it.
LEMMA ParseRead ==
    ASSUME IngestInv, DiskSound(disk, clock), NEW u \in Units, disk[u] # Absent,
           NEW change, change.from \in Nat, NEW st,
           ~IsFile(u) => change.from = 0
    PROVE  LET read == LinesFrom(u, change.from)
               sessions == Parse(u, change, st)
           IN  /\ SessionsRead(read, sessions)
               /\ IsFile(u) => AllRead(read, sessions)
               /\ change.kind # "appended" \/ ~IsFile(u) =>
                    \A n \in DOMAIN sessions : sessions[n].conv \in Conv[u]
<1> DEFINE read == LinesFrom(u, change.from)
           lines == disk[u].lines
           sessions == Parse(u, change, st)
           whole == change.kind # "appended" \/ ~IsFile(u)
           Goal(x) == /\ SessionsRead(read, x)
                      /\ IsFile(u) => AllRead(read, x)
                      /\ whole => \A n \in DOMAIN x : x[n].conv \in Conv[u]
<1>1. disk[u] \in Written /\ RowsIn(disk, u) = lines
  BY DEF IngestInv, DiskTyped, RowsIn
<1>2. Own(clock, u, lines)
  BY <1>1, ContentRows
<1>3. /\ read \in Seq(Records)
      /\ \A i \in DOMAIN read : \E j \in DOMAIN lines : read[i] = lines[j]
      /\ change.from = 0 => read = lines
  BY <1>1, LinesAre
<1>4. \A i \in DOMAIN read : read[i].conv \in Conv[u]
  BY <1>2, <1>3 DEF Own
<1>5. Agent[u] \in Agents
  BY DEF Agents
<1>6. ConvsOf(read) \subseteq Conv[u]
  BY <1>4 DEF ConvsOf
<1>7. lines \in Seq(Records)
  BY <1>2 DEF Own
<1>8. ASSUME NEW s, \A i \in DOMAIN read : read[i].conv = s, IsFile(u)
      PROVE  Goal(OneSession(u, change, s))
  <2> DEFINE one == OneSession(u, change, s)
  <2>1. /\ SessionsRead(read, one) /\ AllRead(read, one)
        /\ \A n \in DOMAIN one : one[n].conv = s
        /\ change.kind # "appended" /\ read = <<>> => one = <<>>
    BY <1>1, <1>8, OneSessionRead
  <2> HIDE DEF one, read
  <2>2. ASSUME whole, NEW n \in DOMAIN one
        PROVE  one[n].conv \in Conv[u]
    <3>1. change.kind # "appended"
      BY <1>8, <2>2
    <3>2. read # <<>>
      <4>1. one = <<>> => DOMAIN one = {}
        OBVIOUS
      <4> QED BY <2>1, <2>2, <3>1, <4>1
    <3>3. 1 \in DOMAIN read
      BY <1>3, <3>2
    <3> QED BY <1>4, <1>8, <2>1, <3>3
  <2> QED BY <2>1, <2>2 DEF one
<1>9. ASSUME NEW rows \in Seq(Records), rows = read, NEW convs,
             IsFile(u) => ConvsOf(rows) \subseteq convs
      PROVE  Goal(SessionsOf(rows, convs))
  <2> DEFINE x == SessionsOf(rows, convs)
  <2>1. /\ \A n \in DOMAIN x : /\ x[n].conv \in ConvsOf(rows)
                               /\ x[n].turns = TurnsOf(rows, x[n].conv)
        /\ \A s \in ConvsOf(rows) \cap convs : \E n \in DOMAIN x : x[n].conv = s
        /\ \A n, m \in DOMAIN x : x[n].conv = x[m].conv => n = m
    BY SessionsCover
  <2> HIDE DEF x, read
  <2>2. SessionsRead(read, x)
    BY <1>9, <2>1 DEF SessionsRead
  <2>3. IsFile(u) => AllRead(read, x)
    BY <1>9, <2>1 DEF AllRead
  <2>4. \A n \in DOMAIN x : x[n].conv \in Conv[u]
    BY <1>6, <1>9, <2>1
  <2> QED BY <2>2, <2>3, <2>4 DEF x
<1> HIDE DEF Goal
<1>10. CASE Agent[u] \in {"claude", "cursor"}
  <2>1. PICK s \in Conv[u] : Conv[u] = {s}
    BY <1>10, IngestAssumption
  <2>2. (CHOOSE c \in Conv[u] : TRUE) = s
    BY <2>1
  <2>3. sessions = OneSession(u, change, s)
    <3>1. CASE Agent[u] = "claude"
      BY <2>2, <3>1 DEF Parse, ParseClaude
    <3>2. CASE Agent[u] = "cursor"
      BY <2>2, <3>2 DEF Parse, ParseCursor
    <3> QED BY <1>10, <3>1, <3>2
  <2>4. IsFile(u)
    BY <1>10 DEF IsFile, Databases
  <2>5. \A i \in DOMAIN read : read[i].conv = s
    BY <1>4, <2>1
  <2> QED BY <1>8, <2>3, <2>4, <2>5 DEF Goal
<1>11. CASE Agent[u] = "codex"
  <2> DEFINE s == IF lines = <<>> THEN u ELSE lines[1].conv
  <2>1. sessions = OneSession(u, change, s)
    BY <1>11 DEF Parse, ParseCodex
  <2>2. IsFile(u)
    BY <1>11 DEF IsFile, Databases
  <2>3. \A i, j \in DOMAIN lines : lines[i].conv = lines[j].conv
    BY <1>1, <1>11, ContentRows
  <2>4. ASSUME NEW i \in DOMAIN read
        PROVE  read[i].conv = s
    <3> HIDE DEF lines
    <3>1. PICK j \in DOMAIN lines : read[i] = lines[j]
      BY <1>3
    <3>2. lines # <<>>
      <4>1. lines = <<>> => DOMAIN lines = {}
        OBVIOUS
      <4> QED BY <3>1, <4>1
    <3>3. 1 \in DOMAIN lines
      BY <1>7, <3>2
    <3> QED BY <2>3, <3>1, <3>2, <3>3
  <2> HIDE DEF s
  <2> QED BY <1>8, <2>1, <2>2, <2>4 DEF Goal
<1>12. CASE Agent[u] = "gemini"
  <2>1. sessions = SessionsOf(read, ConvsOf(read))
    BY <1>12 DEF Parse, ParseGemini
  <2>2. Goal(SessionsOf(read, ConvsOf(read)))
    BY <1>3, <1>9
  <2> QED BY <2>1, <2>2 DEF Goal
<1>13. CASE Agent[u] \in {"opencode", "devin"}
  <2>1. ~IsFile(u)
    BY <1>13 DEF IsFile, Databases
  <2>2. read = lines
    BY <1>3, <2>1
  <2>3. \E convs : sessions = SessionsOf(lines, convs)
    <3>1. Rows(u) = lines
      BY DEF Rows
    <3>2. CASE Agent[u] = "opencode"
      BY <3>1, <3>2 DEF Parse, ParseOpencode
    <3>3. CASE Agent[u] = "devin"
      BY <3>1, <3>3 DEF Parse, ParseDevin
    <3> QED BY <1>13, <3>2, <3>3
  <2>4. PICK convs : sessions = SessionsOf(lines, convs)
    BY <2>3
  <2>5. Goal(SessionsOf(lines, convs))
    BY <1>7, <1>9, <2>1, <2>2
  <2> QED BY <2>4, <2>5 DEF Goal
<1> QED BY <1>5, <1>10, <1>11, <1>12, <1>13, IngestAssumption DEF Databases

----------------------------------------------------------------------------
(* What the recorded states and the passes stand for.                      *)

\* These lines are what a recorded state of the unit stands for.
Resumes(dk, now, u, lines, st) ==
    /\ Own(now, u, lines)
    /\ Follows(dk, u, lines)
    /\ Len(lines) = IF st = None THEN 0 ELSE st.bytes

\* A pass took a unit: it goes on behind the recorded lines or from the start.
Taken(dk, now, job) ==
    /\ IsFile(job.unit) =>
         /\ Resumes(dk, now, job.unit, job.base, job.old)
         /\ job.change.kind = "appended" => job.old # None
    /\ job.change.from = IF Appends(job) THEN Len(job.base) ELSE 0

Reads(job) == SubSeq(job.prefix, job.change.from + 1, Len(job.prefix))

(***************************************************************************)
(* And parsed it: its sessions are those of the lines it read, and of a    *)
(* file, none of whose recorded lines is gone, these come behind the       *)
(* recorded ones.                                                          *)
(***************************************************************************)
Sliced(dk, now, job) ==
    /\ SessionsRead(Reads(job), job.sessions)
    /\ ~Appends(job) => \A n \in DOMAIN job.sessions : job.sessions[n].conv \in Conv[job.unit]
    /\ IsFile(job.unit) =>
         /\ AllRead(Reads(job), job.sessions)
         /\ Own(now, job.unit, job.prefix)
         /\ Follows(dk, job.unit, job.prefix)
         /\ Alive(dk, job.base) => IsPrefix(job.base, job.prefix)

JobSound(dk, now, job) ==
    /\ job.pc \notin {"idle", "unit"} => Taken(dk, now, job)
    /\ job.pc \in {"cursor", "store"} => Sliced(dk, now, job)

\* The lines behind the recorded state of a unit.
Recorded(d, hist, u) == IF IngestState(d, u) = None THEN <<>> ELSE hist[u]

StateSound(d, dk, now, hist) ==
    /\ DOMAIN hist = Units
    /\ \A u \in Units : IsFile(u) =>
         Resumes(dk, now, u, Recorded(d, hist, u), IngestState(d, u))

(***************************************************************************)
(* The turns of the recorded lines begin the turns in the store, as long   *)
(* as none of those lines is gone from the disk.                           *)
(***************************************************************************)
RecordedSound(d, dk, hist, dbt) ==
    \A u \in Units : IsFile(u) /\ Alive(dk, Recorded(d, hist, u)) =>
        \A s \in ConvsOf(Recorded(d, hist, u)) \ dbt :
            IsPrefix(TurnsOf(Recorded(d, hist, u), s), TextsOf(d, s))

RecordedInv ==
    /\ IngestInv
    /\ DiskSound(disk, clock)
    /\ StateSound(db, disk, clock, ingested)
    /\ \A i \in Ingesters : JobSound(disk, clock, ing[i])
    /\ RecordedSound(db, disk, ingested, doubt)

\* All of it outlives a change of the disk.
LEMMA ResumesLater ==
    ASSUME NEW dk, NEW now, NEW e, NEW then, Later(dk, now, e, then), NEW u \in Units,
           IsFile(u), NEW lines, NEW st, Resumes(dk, now, u, lines, st)
    PROVE  Resumes(e, then, u, lines, st)
<1>1. Own(now, u, lines) /\ Follows(dk, u, lines)
  BY DEF Resumes
<1>2. Own(then, u, lines) /\ Follows(e, u, lines)
  BY <1>1, LaterFollows
<1> QED BY <1>2 DEF Resumes

LEMMA JobLater ==
    ASSUME NEW dk, NEW now, NEW e, NEW then, Later(dk, now, e, then),
           NEW job, Job(job), JobSound(dk, now, job)
    PROVE  JobSound(e, then, job)
<1> DEFINE u == job.unit
           base == job.base
           prefix == job.prefix
<1>1. ASSUME job.pc \notin {"idle", "unit"}
      PROVE  u \in Units
  BY <1>1 DEF Job, JobType
<1>2. ASSUME job.pc \notin {"idle", "unit"}
      PROVE  Taken(e, then, job)
  <2>1. Taken(dk, now, job) /\ u \in Units
    BY <1>1, <1>2 DEF JobSound
  <2>2. IsFile(u) => Resumes(e, then, u, base, job.old)
    <3>1. IsFile(u) => Resumes(dk, now, u, base, job.old)
      BY <2>1 DEF Taken
    <3> DEFINE old == job.old
    <3> HIDE DEF u, base, old
    <3>2. IsFile(u) /\ Resumes(dk, now, u, base, old) => Resumes(e, then, u, base, old)
      BY <2>1, ResumesLater
    <3> QED BY <3>1, <3>2 DEF old
  <2> QED BY <2>1, <2>2 DEF Taken
<1>3. ASSUME job.pc \in {"cursor", "store"}
      PROVE  Sliced(e, then, job)
  <2>1. Sliced(dk, now, job) /\ Taken(dk, now, job) /\ u \in Units
    BY <1>1, <1>3 DEF JobSound
  <2>2. ASSUME IsFile(u)
        PROVE  /\ Own(then, u, prefix)
               /\ Follows(e, u, prefix)
               /\ Alive(e, base) => IsPrefix(base, prefix)
    <3>1. /\ Own(now, u, prefix) /\ Follows(dk, u, prefix)
          /\ Alive(dk, base) => IsPrefix(base, prefix)
      BY <2>1, <2>2 DEF Sliced
    <3>2. Own(now, u, base) /\ Follows(dk, u, base)
      BY <2>1, <2>2 DEF Taken, Resumes
    <3>5. IsFile(u) /\ u \in Units
      BY <2>1, <2>2
    <3> HIDE DEF u, base, prefix
    <3>3. Own(then, u, prefix) /\ Follows(e, u, prefix)
      BY <3>1, <3>5, LaterFollows
    <3>4. Alive(e, base) => Alive(dk, base)
      BY <3>2, <3>5, LaterFollows
    <3> QED BY <3>1, <3>3, <3>4
  <2> QED BY <2>1, <2>2 DEF Sliced
<1> QED BY <1>2, <1>3 DEF JobSound

\* A write of a tool.
LEMMA ToolsRecorded ==
    ASSUME RecordedInv, Tools, IngestInv'
    PROVE  RecordedInv'
<1>1. DiskSound(disk', clock') /\ Later(disk, clock, disk', clock')
  BY ToolsSound DEF RecordedInv
<1>2. UNCHANGED <<db, ing, ingested, doubt>>
  BY DEF Tools, AppendLine, BeginLine, RewriteFile, InsertRow, LateRow, Archive, Write
<1>3. StateSound(db', disk', clock', ingested')
  <2>1. StateSound(db, disk, clock, ingested)
    BY DEF RecordedInv
  <2>2. ASSUME NEW u \in Units, IsFile(u)
        PROVE  Resumes(disk', clock', u, Recorded(db, ingested, u), IngestState(db, u))
    <3>1. Resumes(disk, clock, u, Recorded(db, ingested, u), IngestState(db, u))
      BY <2>1, <2>2 DEF StateSound
    <3> QED BY <1>1, <2>2, <3>1, ResumesLater
  <2>3. StateSound(db, disk', clock', ingested)
    BY <2>1, <2>2 DEF StateSound
  <2> QED BY <1>2, <2>3
<1>4. \A i \in Ingesters : JobSound(disk', clock', ing'[i])
  <2>1. ASSUME NEW i \in Ingesters
        PROVE  JobSound(disk', clock', ing[i])
    <3>1. Job(ing[i]) /\ JobSound(disk, clock, ing[i])
      BY DEF RecordedInv, IngestInv
    <3> QED BY <1>1, <3>1, JobLater
  <2> QED BY <1>2, <2>1
<1>5. RecordedSound(db', disk', ingested', doubt')
  <2>1. ASSUME NEW u \in Units, IsFile(u), Alive(disk', Recorded(db, ingested, u))
        PROVE  Alive(disk, Recorded(db, ingested, u))
    <3>1. Own(clock, u, Recorded(db, ingested, u)) /\ Follows(disk, u, Recorded(db, ingested, u))
      BY <2>1 DEF RecordedInv, StateSound, Resumes
    <3> QED BY <1>1, <2>1, <3>1, LaterFollows
  <2>2. RecordedSound(db, disk, ingested, doubt)
    BY DEF RecordedInv
  <2>3. RecordedSound(db, disk', ingested, doubt)
    BY <2>1, <2>2 DEF RecordedSound
  <2> QED BY <1>2, <2>3
<1> QED BY <1>1, <1>3, <1>4, <1>5 DEF RecordedInv

\* A step of one pass that stores nothing.
LEMMA PassRecorded ==
    ASSUME RecordedInv, IngestInv', NEW i \in Ingesters, NEW job, ing' = [ing EXCEPT ![i] = job],
           UNCHANGED <<db, disk, clock, ingested, doubt>>, JobSound(disk, clock, job)
    PROVE  RecordedInv'
<1>1. \A j \in Ingesters : JobSound(disk, clock, ing'[j])
  BY DEF RecordedInv, IngestInv
<1>2. \A j \in Ingesters : JobSound(disk', clock', ing'[j])
  BY <1>1
<1>3. DiskSound(disk', clock') /\ StateSound(db', disk', clock', ingested')
  BY DEF RecordedInv
<1>4. RecordedSound(db', disk', ingested', doubt')
  BY DEF RecordedInv
<1> QED BY <1>2, <1>3, <1>4 DEF RecordedInv

\* Of a pass between two units nothing is asked.
LEMMA RestingSound ==
    ASSUME NEW dk, NEW now, NEW job, job.pc \in {"idle", "unit"}
    PROVE  JobSound(dk, now, job)
  BY DEF JobSound

\* The recorded lines are those that the resume point stands for.
LEMMA BehindIs ==
    ASSUME RecordedInv, NEW u \in Units, IsFile(u)
    PROVE  Behind(u) = Recorded(db, ingested, u)
<1> DEFINE st == IngestState(db, u)
           lines == ingested[u]
           n == Len(lines)
<1>1. CASE st = None
  BY <1>1 DEF Behind, Recorded
<1>2. ASSUME st # None
      PROVE  Behind(u) = lines
  <2>1. Resumes(disk, clock, u, lines, st)
    BY <1>2 DEF RecordedInv, StateSound, Recorded
  <2>2. lines \in Seq(Records) /\ n = st.bytes
    BY <1>2, <2>1 DEF Resumes, Own
  <2>3. Behind(u) = SubSeq(lines, 1, Min({st.bytes, n}))
    BY <1>2 DEF Behind
  <2> HIDE DEF st, lines
  <2>4. SubSeq(lines, 1, n) = lines /\ n \in Nat
    BY <2>2, SubSeqFull, LenProperties
  <2>5. {st.bytes, n} = {n}
    BY <2>2
  <2> HIDE DEF n
  <2>6. Min({n}) = n
    BY <2>4 DEF Min
  <2>7. Min({st.bytes, n}) = n
    BY <2>5, <2>6
  <2> QED BY <2>3, <2>4, <2>7
<1> QED BY <1>1, <1>2 DEF Recorded

\* A pass at its next unit rests.
LEMMA NextUnitRests ==
    ASSUME NEW job, DOMAIN job = Fields
    PROVE  NextUnit(job).pc = "unit"
  BY DEF NextUnit, Fields

LEMMA StartRecorded ==
    ASSUME RecordedInv, IngestInv', NEW i \in Ingesters, Start(i)
    PROVE  RecordedInv'
<1>1. PICK agent \in Agents :
        ing' = [ing EXCEPT ![i] =
                  [Idle EXCEPT !.pc = "unit", !.agent = agent, !.seen = Discover(agent)]]
  BY DEF Start
<1> DEFINE job == [Idle EXCEPT !.pc = "unit", !.agent = agent, !.seen = Discover(agent)]
<1>2. job.pc = "unit"
  BY IdleTyped DEF Fields
<1>3. ing' = [ing EXCEPT ![i] = job] /\ UNCHANGED <<db, disk, clock, ingested, doubt>>
  BY <1>1 DEF Start
<1> HIDE DEF job
<1>4. JobSound(disk, clock, job)
  BY <1>2, RestingSound
<1> QED BY <1>3, <1>4, PassRecorded

\* Only a file that was recorded is resumed, where the recorded lines end.
LEMMA ClassifyFrom ==
    ASSUME NEW u, NEW seen, NEW st
    PROVE  LET change == Classify(u, seen, st)
           IN  IF IsFile(u) /\ change.kind = "appended"
               THEN st # None /\ change.from = st.bytes
               ELSE change.from = 0
<1>1. /\ New.kind = "new" /\ Rewritten.kind = "rewritten" /\ Unchanged.kind = "unchanged"
      /\ New.from = 0 /\ Rewritten.from = 0 /\ Unchanged.from = 0
      /\ \A n : Appended(n).from = n /\ Appended(n).kind = "appended"
  BY DEF New, Rewritten, Unchanged, Appended
<1>2. CASE ~IsFile(u)
  <2>1. ClassifyDatabase(u, st).from = 0
    BY <1>1 DEF ClassifyDatabase
  <2> QED BY <1>2, <2>1 DEF Classify
<1>3. CASE IsFile(u)
  <2> DEFINE change == ClassifyFile(seen, st)
  <2>1. \/ change = New \/ change = Unchanged \/ change = Rewritten
        \/ st # None /\ change = Appended(st.bytes)
    BY DEF ClassifyFile
  <2>2. Classify(u, seen, st) = change \/ Classify(u, seen, st) = Rewritten
    BY <1>3 DEF Classify
  <2> HIDE DEF change
  <2> QED BY <1>1, <1>3, <2>1, <2>2
<1> QED BY <1>2, <1>3

LEMMA TakeRecorded ==
    ASSUME RecordedInv, IngestInv', NEW i \in Ingesters, Take(i)
    PROVE  RecordedInv'
<1> DEFINE job == ing[i]
<1>1. Job(job) /\ job.pc = "unit" /\ DOMAIN job = Fields
  BY IdleTyped DEF RecordedInv, IngestInv, Take, Job
<1>2. PICK u \in DOMAIN job.seen :
        LET st == IngestState(db, u)
            change == Classify(u, job.seen[u], st)
        IN  ing' = [ing EXCEPT ![i] =
               IF change = Unchanged THEN NextUnit([job EXCEPT !.unit = u])
               ELSE [job EXCEPT !.pc = "parse", !.unit = u, !.old = st,
                                !.change = change, !.base = Behind(u)]]
  BY Zenon DEF Take
<1> DEFINE st == IngestState(db, u)
           change == Classify(u, job.seen[u], st)
           named == [job EXCEPT !.unit = u]
           skipped == NextUnit(named)
           taken == [job EXCEPT !.pc = "parse", !.unit = u, !.old = st,
                                !.change = change, !.base = Behind(u)]
<1>3. ing' = [ing EXCEPT ![i] = IF change = Unchanged THEN skipped ELSE taken]
  BY Zenon, <1>2
<1>4. UNCHANGED <<db, disk, clock, ingested, doubt>>
  BY DEF Take
<1>5. u \in Units
  BY <1>1, <1>2 DEF Job, JobType
<1>6. IF IsFile(u) /\ change.kind = "appended" THEN st # None /\ change.from = st.bytes
      ELSE change.from = 0
  BY ClassifyFrom
<1>7. IsFile(u) => Resumes(disk, clock, u, Behind(u), st)
  BY <1>5, BehindIs DEF RecordedInv, StateSound
<1> HIDE DEF job, st, change
<1>8. JobSound(disk, clock, skipped)
  <2>1. DOMAIN named = Fields
    BY <1>1
  <2> HIDE DEF named
  <2>2. skipped.pc = "unit"
    BY <2>1, NextUnitRests
  <2> HIDE DEF skipped
  <2> QED BY <2>2, RestingSound
<1>9. JobSound(disk, clock, taken)
  <2>1. /\ taken.pc = "parse" /\ taken.unit = u /\ taken.old = st
        /\ taken.change = change /\ taken.base = Behind(u)
    BY <1>1 DEF Fields
  <2> HIDE DEF taken
  <2>2. IsFile(u) => Len(taken.base) = IF st = None THEN 0 ELSE st.bytes
    BY <1>7, <2>1 DEF Resumes
  <2>3. Appends(taken) <=> IsFile(u) /\ change.kind = "appended"
    BY <2>1 DEF Appends
  <2>4. Taken(disk, clock, taken)
    BY <1>6, <1>7, <2>1, <2>2, <2>3 DEF Taken
  <2> QED BY <2>1, <2>4 DEF JobSound
<1> HIDE DEF skipped, taken
<1>10. JobSound(disk, clock, IF change = Unchanged THEN skipped ELSE taken)
  BY <1>8, <1>9
<1> QED BY <1>3, <1>4, <1>10, PassRecorded

LEMMA CursorSound ==
    ASSUME NEW dk, NEW now, NEW job, Job(job), JobSound(dk, now, job),
           job.pc \notin {"idle", "unit"}, NEW pc \in {"select", "store"},
           pc = "store" => job.pc = "cursor", NEW c
    PROVE  JobSound(dk, now, [job EXCEPT !.pc = pc, !.cursor = c])
<1> DEFINE next == [job EXCEPT !.pc = pc, !.cursor = c]
<1>1. /\ next.pc = pc /\ next.unit = job.unit /\ next.old = job.old /\ next.change = job.change
      /\ next.base = job.base /\ next.sessions = job.sessions /\ next.prefix = job.prefix
  BY IdleTyped DEF Job, Fields
<1> HIDE DEF next
<1>2. (Appends(next) <=> Appends(job)) /\ Reads(next) = Reads(job)
  BY <1>1 DEF Appends, Reads
<1>3. Taken(dk, now, next)
  <2>1. Taken(dk, now, job)
    BY DEF JobSound
  <2> QED BY <1>1, <1>2, <2>1 DEF Taken
<1>4. pc = "store" => Sliced(dk, now, next)
  <2>1. pc = "store" => Sliced(dk, now, job)
    BY DEF JobSound
  <2> QED BY <1>1, <1>2, <2>1 DEF Sliced
<1>5. JobSound(dk, now, next)
  BY <1>1, <1>3, <1>4 DEF JobSound
<1> QED BY <1>5 DEF next

LEMMA SnapshotCursorRecorded ==
    ASSUME RecordedInv, IngestInv', NEW i \in Ingesters, SnapshotCursor(i)
    PROVE  RecordedInv'
<1> DEFINE job == ing[i]
           c == MaxCursor(job.unit)
           next == [job EXCEPT !.pc = "select", !.cursor = c]
<1>1. Job(job) /\ job.pc = "parse" /\ ing' = [ing EXCEPT ![i] = next]
      /\ UNCHANGED <<db, disk, clock, ingested, doubt>> /\ JobSound(disk, clock, job)
  BY DEF RecordedInv, IngestInv, SnapshotCursor
<1> HIDE DEF job, c
<1>2. JobSound(disk, clock, next)
  BY <1>1, CursorSound
<1> HIDE DEF next
<1> QED BY <1>1, <1>2, PassRecorded

LEMMA MakeCursorRecorded ==
    ASSUME RecordedInv, IngestInv', NEW i \in Ingesters, MakeCursor(i)
    PROVE  RecordedInv'
<1> DEFINE job == ing[i]
           c == TailHash(job.unit, Consumed(job))
           next == [job EXCEPT !.pc = "store", !.cursor = c]
<1>1. Job(job) /\ job.pc = "cursor" /\ ing' = [ing EXCEPT ![i] = next]
      /\ UNCHANGED <<db, disk, clock, ingested, doubt>> /\ JobSound(disk, clock, job)
  BY DEF RecordedInv, IngestInv, MakeCursor
<1> HIDE DEF job, c
<1>2. JobSound(disk, clock, next)
  BY <1>1, CursorSound
<1> HIDE DEF next
<1> QED BY <1>1, <1>2, PassRecorded

\* Recorded lines of which none is gone begin the file that is there.
LEMMA BaseBegins ==
    ASSUME IngestInv, DiskSound(disk, clock), NEW u \in Units, disk[u] # Absent,
           NEW base, Own(clock, u, base), Follows(disk, u, base), Alive(disk, base)
    PROVE  IsPrefix(base, disk[u].lines)
<1> DEFINE lines == RowsIn(disk, u)
<1>1. lines = disk[u].lines /\ lines \in Seq(Records) /\ base \in Seq(Records)
  BY ContentRows DEF RowsIn, Own
<1>2. PICK w \in Copies(u) : IsPrefix(base, RowsIn(disk, w))
  BY DEF Follows, Begins
<1>3. CASE w = u
  BY <1>1, <1>2, <1>3
<1>4. CASE w # u
  <2>1. Agent[u] = "codex"
    BY <1>2, <1>4 DEF Copies
  <2>2. disk[w] = Absent
    BY <1>2, <1>4, <2>1 DEF DiskSound
  <2> DEFINE none == RowsIn(disk, w)
  <2>3. none = <<>> /\ IsPrefix(base, none)
    BY <1>2, <2>2 DEF RowsIn
  <2> HIDE DEF none, lines
  <2>4. IsPrefix(base, lines)
    BY <1>1, <2>3, PrefixOfNone
  <2> QED BY <1>1, <2>4
<1> QED BY <1>3, <1>4

LEMMA ParseUnitRecorded ==
    ASSUME RecordedInv, IngestInv', NEW i \in Ingesters, ParseUnit(i)
    PROVE  RecordedInv'
<1> DEFINE job == ing[i]
           u == job.unit
           lines == disk[u].lines
           change == job.change
           sessions == Parse(u, change, job.old)
           pc == IF IsFile(u) THEN "cursor" ELSE "store"
           fooled == Fooled(job)
           next == [job EXCEPT !.pc = pc, !.sessions = sessions, !.prefix = lines,
                               !.fooled = fooled]
<1>1. /\ Job(job) /\ job.pc \in {"select", "parse"} /\ disk[u] # Absent
      /\ ing' = [ing EXCEPT ![i] = next] /\ UNCHANGED <<db, disk, clock, ingested, doubt>>
      /\ JobSound(disk, clock, job)
  BY DEF RecordedInv, IngestInv, ParseUnit
<1>2. u \in Units /\ change.from \in Nat /\ IngestInv /\ DiskSound(disk, clock)
  BY <1>1 DEF Job, JobType, RecordedInv
<1>3. Taken(disk, clock, job)
  BY <1>1 DEF JobSound
<1>4. ~IsFile(u) => change.from = 0
  BY <1>3 DEF Taken, Appends
<1> DEFINE read == LinesFrom(u, change.from)
           old == job.old
<1>5. /\ SessionsRead(read, sessions)
      /\ IsFile(u) => AllRead(read, sessions)
      /\ change.kind # "appended" \/ ~IsFile(u) =>
           \A n \in DOMAIN sessions : sessions[n].conv \in Conv[u]
  <2> DEFINE parsed == Parse(u, change, old)
  <2>1. parsed = sessions
    OBVIOUS
  <2> HIDE DEF u, change, old
  <2>2. /\ SessionsRead(read, parsed)
        /\ IsFile(u) => AllRead(read, parsed)
        /\ change.kind # "appended" \/ ~IsFile(u) =>
             \A n \in DOMAIN parsed : parsed[n].conv \in Conv[u]
    BY <1>1, <1>2, <1>4, ParseRead
  <2> HIDE DEF parsed, sessions
  <2> QED BY <2>1, <2>2
<1>6. read = SubSeq(lines, change.from + 1, Len(lines))
  BY DEF LinesFrom
<1>7. Own(clock, u, lines) /\ Follows(disk, u, lines)
  <2> DEFINE rows == RowsIn(disk, u)
  <2>1. Own(clock, u, rows) /\ rows \in Seq(Records) /\ rows = lines
    BY <1>1, <1>2, ContentRows DEF RowsIn
  <2>2. IsPrefix(rows, rows)
    <3> HIDE DEF rows
    <3> QED BY <2>1, PrefixOfLonger
  <2>3. u \in Copies(u)
    BY <1>2 DEF Copies
  <2>4. Follows(disk, u, rows)
    BY <2>2, <2>3 DEF Follows, Begins
  <2> QED BY <2>1, <2>4
<1> DEFINE base == job.base
<1>8. ASSUME IsFile(u), Alive(disk, base)
      PROVE  IsPrefix(base, lines)
  <2>1. Own(clock, u, base) /\ Follows(disk, u, base)
    BY <1>3, <1>8 DEF Taken, Resumes
  <2> HIDE DEF u, base
  <2> QED BY <1>1, <1>2, <1>8, <2>1, BaseBegins
<1> HIDE DEF job, u, lines, change, sessions, fooled, read
<1>9. /\ next.pc = pc /\ next.unit = u /\ next.old = job.old /\ next.change = change
      /\ next.sessions = sessions /\ next.prefix = lines /\ next.base = base
  BY <1>1, IdleTyped DEF Job, Fields, u, change
<1> HIDE DEF next, base, pc
<1>10. /\ Reads(next) = read
       /\ Appends(next) <=> IsFile(u) /\ change.kind = "appended"
       /\ Appends(next) <=> Appends(job)
  BY <1>6, <1>9 DEF Reads, Appends, u, change
<1>11. Taken(disk, clock, next)
  BY <1>3, <1>9, <1>10 DEF Taken, u, change, base
<1>12. Sliced(disk, clock, next)
  BY <1>5, <1>7, <1>8, <1>9, <1>10 DEF Sliced
<1>13. JobSound(disk, clock, next)
  BY <1>11, <1>12 DEF JobSound
<1> QED BY <1>1, <1>13, PassRecorded

LEMMA ParseFailsRecorded ==
    ASSUME RecordedInv, IngestInv', NEW i \in Ingesters, ParseFails(i)
    PROVE  RecordedInv'
<1> DEFINE job == ing[i]
           next == NextUnit(job)
<1>1. /\ DOMAIN job = Fields /\ ing' = [ing EXCEPT ![i] = next]
      /\ UNCHANGED <<db, disk, clock, ingested, doubt>>
  BY IdleTyped DEF RecordedInv, IngestInv, ParseFails, Job
<1> HIDE DEF job
<1>2. next.pc = "unit"
  BY <1>1, NextUnitRests
<1> HIDE DEF next
<1>3. JobSound(disk, clock, next)
  BY <1>2, RestingSound
<1> QED BY <1>1, <1>3, PassRecorded

LEMMA AbortRecorded ==
    ASSUME RecordedInv, IngestInv', NEW i \in Ingesters, Abort(i)
    PROVE  RecordedInv'
<1>1. ing' = [ing EXCEPT ![i] = Idle] /\ UNCHANGED <<db, disk, clock, ingested, doubt>>
  BY DEF Abort
<1>2. Idle.pc = "idle"
  BY DEF Idle
<1>3. JobSound(disk, clock, Idle)
  BY <1>2, RestingSound
<1> QED BY <1>1, <1>3, PassRecorded

----------------------------------------------------------------------------
(* What a pass stores.                                                     *)

\* A sequence and one behind it.
LEMMA BothParts ==
    ASSUME NEW a \in Seq(Records), NEW b \in Seq(Records)
    PROVE  /\ a \o b \in Seq(Records) /\ Len(a \o b) = Len(a) + Len(b)
           /\ \A i \in DOMAIN (a \o b) :
                \/ i \in DOMAIN a /\ (a \o b)[i] = a[i]
                \/ \E j \in DOMAIN b : (a \o b)[i] = b[j]
           /\ \A i \in DOMAIN a : i \in DOMAIN (a \o b) /\ (a \o b)[i] = a[i]
<1> DEFINE c == a \o b
<1>1. /\ c \in Seq(Records) /\ Len(c) = Len(a) + Len(b)
      /\ \A i \in 1..(Len(a) + Len(b)) : c[i] = IF i <= Len(a) THEN a[i] ELSE b[i - Len(a)]
  BY ConcatProperties
<1> HIDE DEF c
<1>2. /\ Len(a) \in Nat /\ Len(b) \in Nat /\ DOMAIN a = 1..Len(a) /\ DOMAIN b = 1..Len(b)
      /\ DOMAIN c = 1..(Len(a) + Len(b))
  BY <1>1, LenProperties
<1>3. ASSUME NEW i \in DOMAIN c
      PROVE  (i \in DOMAIN a /\ c[i] = a[i]) \/ \E j \in DOMAIN b : c[i] = b[j]
  <2>1. CASE i <= Len(a)
    BY <1>1, <1>2, <2>1
  <2>2. CASE ~(i <= Len(a))
    <3>1. i - Len(a) \in DOMAIN b
      BY <1>2, <2>2
    <3> QED BY <1>1, <1>2, <2>2, <3>1
  <2> QED BY <2>1, <2>2
<1>4. \A i \in DOMAIN a : i \in DOMAIN c /\ c[i] = a[i]
  BY <1>1, <1>2
<1> QED BY <1>1, <1>3, <1>4 DEF c

\* The last of these sessions is stored behind these lines, as were the others.
LastStored(d, e, first, sessions) ==
    LET k == Len(sessions)
    IN  /\ \A n \in 1..(k - 1) :
             TextsOf(d, sessions[n].conv) = TurnsOf(first, sessions[n].conv) \o sessions[n].turns
        /\ TextsOf(e, sessions[k].conv) = TurnsOf(first, sessions[k].conv) \o sessions[k].turns
        /\ \A r : r # sessions[k].conv => TextsOf(e, r) = TextsOf(d, r)

(***************************************************************************)
(* Once its last session is stored, every conversation of the unit has in  *)
(* the store the turns of the recorded lines, then those of the lines      *)
(* read.                                                                   *)
(***************************************************************************)
LEMMA DoneTurns ==
    ASSUME NEW first \in Seq(Records), NEW read \in Seq(Records), NEW sessions \in Seq(Parsed),
           sessions # <<>>, SessionsRead(read, sessions), AllRead(read, sessions),
           NEW d, NEW e, LastStored(d, e, first, sessions),
           NEW s, s \notin ConvsOf(read) => IsPrefix(TurnsOf(first, s), TextsOf(e, s))
    PROVE  IsPrefix(TurnsOf(first \o read, s), TextsOf(e, s))
<1> DEFINE k == Len(sessions)
<1>k. /\ \A n \in 1..(k - 1) :
           TextsOf(d, sessions[n].conv) = TurnsOf(first, sessions[n].conv) \o sessions[n].turns
      /\ TextsOf(e, sessions[k].conv) = TurnsOf(first, sessions[k].conv) \o sessions[k].turns
      /\ \A r : r # sessions[k].conv => TextsOf(e, r) = TextsOf(d, r)
  BY DEF LastStored
<1>l. k \in Nat /\ DOMAIN sessions = 1..k /\ k \in DOMAIN sessions
  BY LenProperties, EmptySeq
<1> HIDE DEF k
<1>1. TurnsOf(first \o read, s) = TurnsOf(first, s) \o TurnsOf(read, s)
  BY TurnsSplit
<1>2. /\ TurnsOf(first, s) \in Seq(Nat) /\ TurnsOf(read, s) \in Seq(Nat)
      /\ TurnsOf(first, s) \o TurnsOf(read, s) \in Seq(Nat)
  BY TurnsTyped, ConcatProperties
<1>3. CASE s \notin ConvsOf(read)
  <2>1. TurnsOf(read, s) = <<>>
    BY <1>3, TurnsNone
  <2>2. TurnsOf(first, s) \o TurnsOf(read, s) = TurnsOf(first, s)
    BY <1>2, <2>1, ConcatEmptySeq
  <2> QED BY <1>1, <1>3, <2>2
<1>4. CASE s \in ConvsOf(read)
  <2>1. PICK n \in DOMAIN sessions : sessions[n].conv = s
    BY <1>4 DEF AllRead
  <2>2. sessions[n].turns = TurnsOf(read, s)
    BY <2>1 DEF SessionsRead
  <2>3. k \in Nat /\ DOMAIN sessions = 1..k /\ n \in 1..k /\ k \in DOMAIN sessions
    BY <1>l, <2>1
  <2>4. TextsOf(e, s) = TurnsOf(first, s) \o TurnsOf(read, s)
    <3>1. CASE n = k
      BY <1>k, <2>1, <2>2, <3>1
    <3>2. CASE n # k
      <4>1. n \in 1..(k - 1)
        BY <2>3, <3>2
      <4>2. sessions[k].conv # s
        BY <2>1, <2>3, <3>2 DEF SessionsRead
      <4> QED BY <1>k, <2>1, <2>2, <4>1, <4>2
    <3> QED BY <3>1, <3>2
  <2> DEFINE all == TurnsOf(first, s) \o TurnsOf(read, s)
  <2>5. all \in Seq(Nat)
    BY <1>2
  <2>6. TurnsOf(first \o read, s) = all /\ TextsOf(e, s) = all
    BY <1>1, <2>4
  <2> HIDE DEF all
  <2>7. IsPrefix(all, all)
    BY <2>5, PrefixOfLonger
  <2> QED BY <2>6, <2>7
<1> QED BY <1>3, <1>4

\* The lines a pass reads are lines of the file it read.
LEMMA ReadsTyped ==
    ASSUME NEW job, job.prefix \in Seq(Records), job.change.from \in Nat
    PROVE  /\ Reads(job) \in Seq(Records)
           /\ \A i \in DOMAIN Reads(job) :
                \E j \in DOMAIN job.prefix : Reads(job)[i] = job.prefix[j]
           /\ Len(Reads(job)) = IF job.change.from < Len(job.prefix)
                                THEN Len(job.prefix) - job.change.from ELSE 0
           /\ job.change.from = 0 => Reads(job) = job.prefix
<1> DEFINE lines == job.prefix
           read == Reads(job)
           l == Len(lines)
           a == job.change.from + 1
<1>1. lines \in Seq(Records) /\ read = SubSeq(lines, a, l)
  BY DEF Reads
<1>2. a \in Nat /\ a >= 1 /\ job.change.from = a - 1
  OBVIOUS
<1> HIDE DEF lines, read
<1>3. l \in Nat /\ DOMAIN lines = 1..l /\ \A i \in 1..l : lines[i] \in Records
  BY <1>1, LenProperties, ElementOfSeq
<1>4. SubSeq(lines, 1, l) = lines
  BY <1>1, SubSeqFull
<1> HIDE DEF l, a
<1>5. a \in Int /\ l \in Int /\ \A i \in a..l : lines[i] \in Records
  BY <1>2, <1>3
<1>6. /\ read \in Seq(Records)
      /\ Len(read) = IF a <= l THEN l - a + 1 ELSE 0
      /\ \A i \in 1..(l - a + 1) : read[i] = lines[a + i - 1]
  BY <1>1, <1>5, SubSeqProperties
<1>7. ASSUME NEW i \in DOMAIN read
      PROVE  \E j \in DOMAIN lines : read[i] = lines[j]
  <2>1. i \in 1..Len(read)
    BY <1>6, LenProperties
  <2>2. i \in 1..(l - a + 1) /\ a + i - 1 \in 1..l
    BY <1>2, <1>3, <1>6, <2>1
  <2> QED BY <1>3, <1>6, <2>2
<1>8. Len(read) = IF job.change.from < l THEN l - job.change.from ELSE 0
  BY <1>2, <1>3, <1>6
<1>9. job.change.from = 0 => read = lines
  BY <1>1, <1>2, <1>4
<1> QED BY <1>6, <1>7, <1>8, <1>9 DEF l, lines, read

(***************************************************************************)
(* What a pass leaves recorded: the recorded lines and those it read, and  *)
(* Consumed counts them.                                                   *)
(***************************************************************************)
LEMMA StandsForIs ==
    ASSUME NEW job, job.prefix \in Seq(Records), job.change.from \in Nat, IsFile(job.unit),
           job.base \in Seq(Records), job.change.from = IF Appends(job) THEN Len(job.base) ELSE 0
    PROVE  /\ StandsFor(job) = (IF Appends(job) THEN job.base ELSE <<>>) \o Reads(job)
           /\ StandsFor(job) \in Seq(Records)
           /\ Len(StandsFor(job)) = Consumed(job)
<1> DEFINE base == job.base
           prefix == job.prefix
           from == job.change.from
           read == Reads(job)
<1>1. /\ read \in Seq(Records) /\ read = SubSeq(prefix, from + 1, Len(prefix))
      /\ Len(read) = IF from < Len(prefix) THEN Len(prefix) - from ELSE 0
      /\ from = 0 => read = prefix
  BY ReadsTyped DEF Reads
<1>2. Consumed(job) = Max({from, Len(prefix)})
  BY DEF Consumed
<1>3. StandsFor(job) = IF Appends(job) /\ ~IsPrefix(base, prefix) THEN base \o read ELSE prefix
  BY <1>1 DEF StandsFor
<1>4. prefix \in Seq(Records) /\ base \in Seq(Records) /\ from \in Nat /\ Len(prefix) \in Nat
      /\ from = IF Appends(job) THEN Len(base) ELSE 0
  BY LenProperties
<1> HIDE DEF base, prefix, from, read
<1>5. Max({from, Len(prefix)}) = from + Len(read)
  <2> DEFINE a == from
             b == Len(prefix)
             n == Len(read)
  <2>1. a \in Nat /\ b \in Nat /\ n = IF a < b THEN b - a ELSE 0
    BY <1>1, <1>4
  <2> HIDE DEF a, b, n
  <2>2. Max({a, b}) = IF a >= b THEN a ELSE b
    BY <2>1, MaxOfTwo
  <2>3. a + n = IF a >= b THEN a ELSE b
    BY <2>1
  <2>4. Max({a, b}) = a + n
    BY <2>2, <2>3
  <2> QED BY <2>4 DEF a, b, n
<1>6. CASE Appends(job)
  <2>1. IsPrefix(base, prefix) => prefix = base \o read
    BY <1>1, <1>4, <1>6, PrefixMeans
  <2>2. StandsFor(job) = base \o read
    BY <1>3, <1>6, <2>1
  <2>3. base \o read \in Seq(Records) /\ Len(base \o read) = Len(base) + Len(read)
    BY <1>1, <1>4, BothParts
  <2> QED BY <1>2, <1>4, <1>5, <1>6, <2>2, <2>3 DEF base, read
<1>7. CASE ~Appends(job)
  <2>1. StandsFor(job) = read /\ from = 0
    BY <1>1, <1>3, <1>4, <1>7
  <2>2. <<>> \o read = read
    BY <1>1, ConcatEmptySeq
  <2>3. from + Len(read) = Len(read)
    BY <1>1, <2>1, LenProperties
  <2> QED BY <1>1, <1>2, <1>5, <1>7, <2>1, <2>2, <2>3 DEF read
<1> QED BY <1>6, <1>7

(***************************************************************************)
(* What a pass leaves recorded when it is done with a file is a beginning  *)
(* of the file until one of its lines is gone.                             *)
(***************************************************************************)
LEMMA StandsSound ==
    ASSUME NEW dk, NEW now, NEW job, Job(job), IsFile(job.unit),
           Taken(dk, now, job), Sliced(dk, now, job)
    PROVE  /\ StandsFor(job) = (IF Appends(job) THEN job.base ELSE <<>>) \o Reads(job)
           /\ Own(now, job.unit, StandsFor(job))
           /\ Follows(dk, job.unit, StandsFor(job))
           /\ Len(StandsFor(job)) = DoneState(job).bytes
<1> DEFINE u == job.unit
           base == job.base
           prefix == job.prefix
           read == Reads(job)
           lines == StandsFor(job)
           first == IF Appends(job) THEN base ELSE <<>>
<1>1. /\ prefix \in Seq(Records) /\ job.change.from \in Nat
      /\ Own(now, u, base) /\ Own(now, u, prefix) /\ Follows(dk, u, prefix)
      /\ Alive(dk, base) => IsPrefix(base, prefix)
      /\ job.change.from = IF Appends(job) THEN Len(base) ELSE 0
  BY DEF Job, Taken, Sliced, Resumes
<1>2. base \in Seq(Records)
  BY <1>1 DEF Own
<1>3. /\ lines = first \o read /\ lines \in Seq(Records) /\ Len(lines) = Consumed(job)
  BY <1>1, <1>2, StandsForIs
<1>4. DoneState(job).bytes = Consumed(job)
  BY DEF DoneState
<1>5. /\ read \in Seq(Records)
      /\ \A i \in DOMAIN read : \E j \in DOMAIN prefix : read[i] = prefix[j]
  BY <1>1, ReadsTyped
<1>6. lines = IF Appends(job) /\ ~IsPrefix(base, prefix) THEN base \o read ELSE prefix
  BY DEF StandsFor, Reads
<1> HIDE DEF u, base, prefix, read, lines
<1>7. first \in Seq(Records) /\ \A i \in DOMAIN first : i \in DOMAIN base /\ first[i] = base[i]
  <2>1. CASE Appends(job)
    BY <1>2, <2>1
  <2>2. CASE ~Appends(job)
    <3>1. first = <<>> /\ DOMAIN first = {}
      BY <2>2
    <3> QED BY <3>1, EmptySeq
  <2> QED BY <2>1, <2>2
<1> HIDE DEF first
<1>8. Own(now, u, lines)
  <2>1. ASSUME NEW i \in DOMAIN lines
        PROVE  lines[i].conv \in Conv[u] /\ lines[i].text <= now
    <3>1. \/ i \in DOMAIN first /\ lines[i] = first[i]
          \/ \E j \in DOMAIN read : lines[i] = read[j]
      BY <1>3, <1>5, <1>7, <2>1, BothParts
    <3>2. \/ i \in DOMAIN base /\ lines[i] = base[i]
          \/ \E j \in DOMAIN prefix : lines[i] = prefix[j]
      BY <1>5, <1>7, <3>1
    <3> QED BY <1>1, <3>2 DEF Own
  <2> QED BY <1>3, <2>1 DEF Own
<1>9. Follows(dk, u, lines)
  <2>1. CASE Appends(job) /\ ~IsPrefix(base, prefix)
    <3>1. lines = base \o read
      BY <1>6, <2>1
    <3>2. \A i \in DOMAIN base : i \in DOMAIN lines /\ lines[i] = base[i]
      BY <1>2, <1>5, <3>1, BothParts
    <3>3. Alive(dk, lines) => Alive(dk, base)
      BY <3>2 DEF Alive
    <3> QED BY <1>1, <2>1, <3>3 DEF Follows
  <2>2. CASE ~(Appends(job) /\ ~IsPrefix(base, prefix))
    BY <1>1, <1>6, <2>2
  <2> QED BY <2>1, <2>2
<1> QED BY <1>3, <1>4, <1>8, <1>9 DEF u, base, read, lines, first

\* A state that a pass records.
LEMMA ResumesNew ==
    ASSUME NEW dk, NEW now, DiskSound(dk, now), NEW u \in Units, NEW lines, NEW st,
           Own(now, u, lines), Follows(dk, u, lines), st # None => Len(lines) = st.bytes
    PROVE  Resumes(dk, now, u, IF st = None THEN <<>> ELSE lines, st)
<1>1. CASE st # None
  BY <1>1 DEF Resumes
<1>2. CASE st = None
  <2> DEFINE none == <<>>
             rows == RowsIn(dk, u)
  <2>1. rows \in Seq(Records)
    BY DEF DiskSound, Own
  <2>2. none \in Seq(Records) /\ Len(none) = 0 /\ DOMAIN none = {}
    OBVIOUS
  <2> HIDE DEF none, rows
  <2>3. Len(rows) \in Nat /\ IsPrefix(none, rows)
    <3>1. Len(rows) \in Nat
      BY <2>1, LenProperties
    <3>2. Len(none) <= Len(rows) /\ \A i \in 1..Len(none) : none[i] = rows[i]
      BY <2>2, <3>1
    <3> QED BY <2>1, <2>2, <3>1, <3>2, PrefixMeans
  <2>4. u \in Copies(u)
    BY DEF Copies
  <2>5. Follows(dk, u, none)
    BY <2>3, <2>4 DEF Follows, Begins, rows
  <2>6. Own(now, u, none)
    BY <2>2 DEF Own
  <2>7. Resumes(dk, now, u, none, st)
    BY <1>2, <2>2, <2>5, <2>6 DEF Resumes
  <2> QED BY <1>2, <2>7 DEF none
<1> QED BY <1>1, <1>2

\* A recorded state, that of one unit, changes, and with it the recorded lines.
StateIs(d, e, u, st) == \A v : IngestState(e, v) = IF v = u THEN st ELSE IngestState(d, v)

RecordedIs(d, hist, e, h, u, lines) ==
    /\ Recorded(e, h, u) = lines
    /\ \A v \in Units \ {u} : Recorded(e, h, v) = Recorded(d, hist, v)

LEMMA StateMoves ==
    ASSUME NEW d, NEW dk, NEW now, NEW hist, DiskSound(dk, now), StateSound(d, dk, now, hist),
           NEW u \in Units, NEW st, NEW lines, NEW e, NEW h, h = [hist EXCEPT ![u] = lines],
           StateIs(d, e, u, st),
           IsFile(u) => /\ Own(now, u, lines)
                        /\ Follows(dk, u, lines)
                        /\ st # None => Len(lines) = st.bytes
    PROVE  /\ StateSound(e, dk, now, h)
           /\ RecordedIs(d, hist, e, h, u, IF st = None THEN <<>> ELSE lines)
<1>s. \A v : IngestState(e, v) = IF v = u THEN st ELSE IngestState(d, v)
  BY DEF StateIs
<1>1. /\ DOMAIN hist = Units /\ DOMAIN h = Units /\ h[u] = lines
      /\ \A v \in Units \ {u} : h[v] = hist[v]
  BY DEF StateSound
<1>2. Recorded(e, h, u) = IF st = None THEN <<>> ELSE lines
  BY <1>1, <1>s DEF Recorded
<1>3. \A v \in Units \ {u} : Recorded(e, h, v) = Recorded(d, hist, v)
  BY <1>1, <1>s DEF Recorded
<1>4. ASSUME NEW v \in Units, IsFile(v)
      PROVE  Resumes(dk, now, v, Recorded(e, h, v), IngestState(e, v))
  <2>1. CASE v = u
    <3>1. Resumes(dk, now, u, IF st = None THEN <<>> ELSE lines, st)
      BY <1>4, <2>1, ResumesNew
    <3>2. IngestState(e, u) = st
      BY <1>s
    <3> QED BY <1>2, <2>1, <3>1, <3>2
  <2>2. CASE v # u
    <3>1. IngestState(e, v) = IngestState(d, v) /\ Recorded(e, h, v) = Recorded(d, hist, v)
      BY <1>3, <1>s, <2>2
    <3>2. Resumes(dk, now, v, Recorded(d, hist, v), IngestState(d, v))
      BY <1>4 DEF StateSound
    <3> QED BY <3>1, <3>2
  <2> QED BY <2>1, <2>2
<1>5. StateSound(e, dk, now, h)
  BY <1>1, <1>4 DEF StateSound
<1> QED BY <1>2, <1>3, <1>5 DEF RecordedIs

\* One session stored, behind what the store had of it or in its place.
Stored(d, e, s, texts, appends) ==
    /\ \A r : TextsOf(d, r) \in Seq(Nat)
    /\ texts \in Seq(Nat)
    /\ TextsOf(e, s) = IF appends THEN TextsOf(d, s) \o texts ELSE texts
    /\ \A r : r # s => TextsOf(e, r) = TextsOf(d, r)

\* The turns of these lines begin what the store has, except of sessions in doubt.
Held(d, lines, dbt) ==
    \A s \in ConvsOf(lines) \ dbt : IsPrefix(TurnsOf(lines, s), TextsOf(d, s))

LEMMA SessionStored ==
    ASSUME NEW d, Store(d), NEW s, NEW texts \in Seq(Nat), NEW u, NEW st, st.bytes \in Nat
    PROVE  LET more == AppendSession(d, s, texts, u, st)
               new == ReplaceSession(d, s, texts, u, st)
           IN  /\ StateIs(d, more, u, st) /\ Stored(d, more, s, texts, TRUE)
               /\ StateIs(d, new, u, st) /\ Stored(d, new, s, texts, FALSE)
<1> DEFINE more == AppendSession(d, s, texts, u, st)
           new == ReplaceSession(d, s, texts, u, st)
<1>1. \A r : TextsOf(d, r) \in Seq(Nat)
  BY StoreTells
<1>2. Stores(d, more, s, TextsOf(d, s) \o texts, u, st)
  BY AppendKeepsStore
<1>3. Stores(d, new, s, texts, u, st)
  BY ReplaceKeepsStore
<1> HIDE DEF more, new
<1>4. /\ StateIs(d, more, u, st) /\ Stored(d, more, s, texts, TRUE)
      /\ StateIs(d, new, u, st) /\ Stored(d, new, s, texts, FALSE)
  BY <1>1, <1>2, <1>3 DEF StateIs, Stored, Stores
<1> QED BY <1>4 DEF more, new

LEMMA StoreEffects ==
    ASSUME IngestInv, NEW i \in Ingesters, StoreSession(i)
    PROVE  LET job == ing[i]
               p == job.sessions[job.k]
               last == job.k = Len(job.sessions)
               st == IF last THEN DoneState(job) ELSE StaleState(job)
           IN  /\ Job(job) /\ job.pc = "store" /\ job.sessions # <<>>
               /\ job.k \in DOMAIN job.sessions /\ job.unit \in Units
               /\ Stored(db, db', p.conv, p.turns, Appends(job))
               /\ StateIs(db, db', job.unit, st)
               /\ ing' = [ing EXCEPT ![i] =
                            IF last THEN NextUnit(job) ELSE [job EXCEPT !.k = @ + 1]]
               /\ ingested' = [ingested EXCEPT ![job.unit] =
                                 IF last THEN StandsFor(job) ELSE job.base]
               /\ doubt' = (IF Appends(job) THEN doubt ELSE doubt \ {p.conv})
                             \cup (IF Raced(job) THEN Conv[job.unit] ELSE {})
               /\ UNCHANGED <<disk, clock>>
<1> DEFINE job == ing[i]
           p == job.sessions[job.k]
           last == job.k = Len(job.sessions)
           st == IF last THEN DoneState(job) ELSE StaleState(job)
<1>1. /\ Job(job) /\ job.pc = "store" /\ job.sessions # <<>>
      /\ ing' = [ing EXCEPT ![i] =
                   IF last THEN NextUnit(job) ELSE [job EXCEPT !.k = @ + 1]]
      /\ ingested' = [ingested EXCEPT ![job.unit] = IF last THEN StandsFor(job) ELSE job.base]
      /\ db' = IF Appends(job) THEN AppendSession(db, p.conv, p.turns, job.unit, st)
               ELSE ReplaceSession(db, p.conv, p.turns, job.unit, st)
      /\ UNCHANGED <<disk, clock>>
  BY DEF IngestInv, StoreSession
<1>2. doubt' = (IF Appends(job) THEN doubt ELSE doubt \ {p.conv})
                 \cup (IF Raced(job) THEN Conv[job.unit] ELSE {})
  BY Zenon DEF StoreSession
<1>3. job.k \in DOMAIN job.sessions /\ job.unit \in Units
  BY <1>1 DEF Job, JobType
<1>4. p.turns \in Seq(Nat)
  <2>1. p \in Parsed
    BY <1>1, <1>3, LenProperties, ElementOfSeq DEF Job
  <2> HIDE DEF p
  <2> QED BY <2>1 DEF Parsed
<1>5. st.bytes \in Nat
  BY <1>1, StatesTyped
<1>6. /\ Stored(db, db', p.conv, p.turns, Appends(job))
      /\ StateIs(db, db', job.unit, st)
  <2> DEFINE s == p.conv
             texts == p.turns
             u == job.unit
             more == AppendSession(db, s, texts, u, st)
             new == ReplaceSession(db, s, texts, u, st)
  <2>1. Store(db) /\ texts \in Seq(Nat)
    BY <1>4 DEF IngestInv
  <2>2. db' = IF Appends(job) THEN more ELSE new
    BY <1>1
  <2> HIDE DEF s, texts, u, st
  <2>4. /\ StateIs(db, more, u, st)
        /\ Stored(db, more, s, texts, TRUE)
    BY <1>5, <2>1, SessionStored
  <2>5. /\ StateIs(db, new, u, st)
        /\ Stored(db, new, s, texts, FALSE)
    BY <1>5, <2>1, SessionStored
  <2> HIDE DEF more, new
  <2>6. ASSUME Appends(job)
        PROVE  /\ Stored(db, db', s, texts, Appends(job))
               /\ StateIs(db, db', u, st)
    <3>1. db' = more
      BY <2>2, <2>6
    <3> QED BY <2>4, <2>6, <3>1 DEF Stored
  <2>7. ASSUME ~Appends(job)
        PROVE  /\ Stored(db, db', s, texts, Appends(job))
               /\ StateIs(db, db', u, st)
    <3>1. db' = new
      BY <2>2, <2>7
    <3> QED BY <2>5, <2>7, <3>1 DEF Stored
  <2>8. /\ Stored(db, db', s, texts, Appends(job))
        /\ StateIs(db, db', u, st)
    BY <2>6, <2>7
  <2> QED BY <2>8 DEF s, texts, u, st
<1> QED BY <1>1, <1>2, <1>3, <1>6

\* What begins the turns of a session still does unless it is replaced.
LEMMA StoredBegins ==
    ASSUME NEW d, NEW e, NEW r, NEW texts, NEW appends \in BOOLEAN, Stored(d, e, r, texts, appends),
           NEW turns \in Seq(Nat), NEW s, s # r \/ appends, IsPrefix(turns, TextsOf(d, s))
    PROVE  IsPrefix(turns, TextsOf(e, s))
<1>1. CASE s # r
  BY <1>1 DEF Stored
<1>2. CASE s = r
  <2> DEFINE had == TextsOf(d, s)
             all == had \o texts
  <2>1. had \in Seq(Nat) /\ texts \in Seq(Nat) /\ TextsOf(e, s) = all
    BY <1>2 DEF Stored
  <2> HIDE DEF had
  <2>2. all \in Seq(Nat) /\ IsPrefix(had, all)
    BY <2>1, ConcatProperties, PrefixOfLonger
  <2> HIDE DEF all
  <2>3. IsPrefix(turns, had)
    BY DEF had
  <2>4. IsPrefix(turns, all)
    BY <2>1, <2>2, <2>3, PrefixGrows
  <2> QED BY <2>1, <2>4
<1> QED BY <1>1, <1>2

\* Of lines that had their turns in the store.
LEMMA HeldStill ==
    ASSUME NEW d, NEW e, NEW r, NEW texts, NEW appends \in BOOLEAN, Stored(d, e, r, texts, appends),
           NEW lines \in Seq(Records), NEW dbt, NEW then, Held(d, lines, dbt),
           \A s : s \in dbt /\ (s # r \/ appends) => s \in then,
           NEW s \in ConvsOf(lines) \ then, s # r \/ appends
    PROVE  IsPrefix(TurnsOf(lines, s), TextsOf(e, s))
<1>1. s \in ConvsOf(lines) \ dbt
  OBVIOUS
<1>2. IsPrefix(TurnsOf(lines, s), TextsOf(d, s))
  BY <1>1 DEF Held
<1>3. TurnsOf(lines, s) \in Seq(Nat)
  BY TurnsTyped
<1> QED BY <1>2, <1>3, StoredBegins

\* What a pass that did not race found.
LEMMA NotRaced ==
    ASSUME NEW job, ~Raced(job)
    PROVE  LET s == job.sessions[job.k].conv
           IN  /\ Appends(job) \/ job.k < Len(job.sessions) => ~Moved(job)
               /\ Appends(job) => TextsOf(db, s) = TurnsOf(job.base, s)
               /\ \A n \in 1..(job.k - 1) :
                    TextsOf(db, job.sessions[n].conv)
                      = (IF Appends(job) THEN TurnsOf(job.base, job.sessions[n].conv) ELSE <<>>)
                          \o job.sessions[n].turns
               /\ \A v \in Units \ {job.unit} :
                    s \in Conv[v] => IsPrefix(ingested[v], job.prefix)
  BY DEF Raced, Appends

\* Nobody recorded the unit of a pass meanwhile.
LEMMA UnmovedBase ==
    ASSUME RecordedInv, NEW job, job.unit \in Units, IsFile(job.unit), ~Moved(job)
    PROVE  Recorded(db, ingested, job.unit) = job.base
<1> DEFINE u == job.unit
<1>1. Behind(u) = job.base
  BY DEF Moved
<1>2. u \in Units /\ IsFile(u)
  OBVIOUS
<1> HIDE DEF u
<1>3. Behind(u) = Recorded(db, ingested, u)
  BY <1>2, BehindIs
<1> QED BY <1>1, <1>3 DEF u

\* The recorded lines of a file are its records and theirs are the turns held.
LEMMA RecordedHeld ==
    ASSUME RecordedInv, NEW v \in Units, IsFile(v)
    PROVE  LET lines == Recorded(db, ingested, v)
           IN  /\ lines \in Seq(Records)
               /\ ConvsOf(lines) \subseteq Conv[v]
               /\ lines = <<>> \/ lines = ingested[v]
               /\ Alive(disk, lines) => Held(db, lines, doubt)
<1> DEFINE lines == Recorded(db, ingested, v)
<1>1. Own(clock, v, lines)
  BY DEF RecordedInv, StateSound, Resumes
<1>2. Alive(disk, lines) => Held(db, lines, doubt)
  BY DEF RecordedInv, RecordedSound, Held
<1>3. lines = <<>> \/ lines = ingested[v]
  BY DEF Recorded
<1> HIDE DEF lines
<1>4. lines \in Seq(Records) /\ ConvsOf(lines) \subseteq Conv[v]
  BY <1>1 DEF Own, ConvsOf
<1> QED BY <1>2, <1>3, <1>4 DEF lines

\* A session of a pass, in the terms of what it read.
LEMMA SessionTold ==
    ASSUME NEW job, Job(job), job.k \in DOMAIN job.sessions,
           Taken(disk, clock, job), Sliced(disk, clock, job)
    PROVE  LET p == job.sessions[job.k]
           IN  /\ p.turns = TurnsOf(Reads(job), p.conv)
               /\ ~Appends(job) => /\ p.turns = TurnsOf(job.prefix, p.conv)
                                   /\ p.conv \in Conv[job.unit]
<1> DEFINE p == job.sessions[job.k]
<1>1. p.turns = TurnsOf(Reads(job), p.conv)
  BY DEF Sliced, SessionsRead
<1>2. ASSUME ~Appends(job)
      PROVE  p.turns = TurnsOf(job.prefix, p.conv) /\ p.conv \in Conv[job.unit]
  <2>1. job.change.from = 0 /\ p.conv \in Conv[job.unit]
    BY <1>2 DEF Taken, Sliced
  <2>2. Reads(job) = job.prefix
    BY <2>1, ReadsTyped DEF Job
  <2> QED BY <1>1, <2>1, <2>2
<1> QED BY <1>1, <1>2

(***************************************************************************)
(* StoreSession: what is recorded of the other units is still in the       *)
(* store.  A session that is replaced by a copy has the turns of all that  *)
(* was ingested of the other copies, or the pass raced.                    *)
(***************************************************************************)
LEMMA StoreHeldElsewhere ==
    ASSUME RecordedInv, NEW i \in Ingesters, StoreSession(i),
           NEW v \in Units \ {ing[i].unit}, IsFile(v), Alive(disk, Recorded(db, ingested, v))
    PROVE  Held(db', Recorded(db, ingested, v), doubt')
<1> DEFINE job == ing[i]
           p == job.sessions[job.k]
           u == job.unit
           lines == Recorded(db, ingested, v)
           appends == Appends(job)
<1>1. /\ Job(job) /\ job.k \in DOMAIN job.sessions /\ job.pc = "store"
      /\ Stored(db, db', p.conv, p.turns, appends)
      /\ doubt' = (IF appends THEN doubt ELSE doubt \ {p.conv})
                    \cup (IF Raced(job) THEN Conv[u] ELSE {})
  BY StoreEffects DEF RecordedInv
<1>2. /\ lines \in Seq(Records) /\ ConvsOf(lines) \subseteq Conv[v]
      /\ lines = <<>> \/ lines = ingested[v]
      /\ Held(db, lines, doubt)
  BY RecordedHeld
<1>3. Taken(disk, clock, job) /\ Sliced(disk, clock, job)
  BY <1>1 DEF RecordedInv, JobSound
<1>4. ~appends => p.turns = TurnsOf(job.prefix, p.conv) /\ p.conv \in Conv[u]
  BY <1>1, <1>3, SessionTold
<1>5. appends \in BOOLEAN /\ job.prefix \in Seq(Records)
  BY <1>1 DEF Appends, Job
<1>6. ~Raced(job) => (p.conv \in Conv[v] => IsPrefix(ingested[v], job.prefix))
  BY NotRaced
<1> DEFINE r == p.conv
           texts == p.turns
           prefix == job.prefix
           raced == Raced(job)
<1> HIDE DEF job, p, u, lines, appends, r, texts, prefix, raced
<1> SUFFICES ASSUME NEW s \in ConvsOf(lines) \ doubt'
             PROVE  IsPrefix(TurnsOf(lines, s), TextsOf(db', s))
  BY DEF Held, lines
<1>7. Stored(db, db', r, texts, appends)
  BY <1>1 DEF r, texts
<1>8. doubt' = (IF appends THEN doubt ELSE doubt \ {r}) \cup (IF raced THEN Conv[u] ELSE {})
  BY <1>1 DEF r, raced
<1>9. CASE s # r \/ appends
  <2>1. \A x : x \in doubt /\ (x # r \/ appends) => x \in doubt'
    BY <1>8
  <2> QED BY <1>2, <1>5, <1>7, <1>9, <2>1, HeldStill
<1>10. CASE s = r /\ ~appends
  <2>1. r \in Conv[u] /\ r \in Conv[v] /\ texts = TurnsOf(prefix, r)
    BY <1>2, <1>4, <1>10 DEF r, texts, prefix
  <2>2. ~raced
    BY <1>8, <1>10, <2>1
  <2>3. IsPrefix(ingested[v], prefix)
    BY <1>6, <2>1, <2>2 DEF raced, r, prefix
  <2>4. lines # <<>>
    <3>1. ConvsOf(<<>>) = {}
      BY DEF ConvsOf
    <3> QED BY <3>1
  <2>5. IsPrefix(lines, prefix) /\ prefix \in Seq(Records)
    BY <1>2, <1>5, <2>3, <2>4 DEF prefix
  <2>6. IsPrefix(TurnsOf(lines, s), TurnsOf(prefix, s))
    BY <1>2, <2>5, TurnsOfPrefix
  <2>7. TextsOf(db', s) = TurnsOf(prefix, s)
    BY <1>7, <1>10, <2>1 DEF Stored
  <2> QED BY <2>6, <2>7
<1> QED BY <1>9, <1>10

(***************************************************************************)
(* A session stored, but not the last: the resume point is what it was,    *)
(* and its turns are still in the store.                                   *)
(***************************************************************************)
LEMMA StoreHeldBefore ==
    ASSUME RecordedInv, NEW i \in Ingesters, StoreSession(i), IsFile(ing[i].unit),
           ing[i].k # Len(ing[i].sessions), Alive(disk, ing[i].base)
    PROVE  Held(db', ing[i].base, doubt')
<1> DEFINE job == ing[i]
           p == job.sessions[job.k]
           u == job.unit
           base == job.base
           appends == Appends(job)
<1>1. /\ Job(job) /\ job.k \in DOMAIN job.sessions /\ job.pc = "store" /\ u \in Units
      /\ Stored(db, db', p.conv, p.turns, appends)
      /\ doubt' = (IF appends THEN doubt ELSE doubt \ {p.conv})
                    \cup (IF Raced(job) THEN Conv[u] ELSE {})
  BY StoreEffects DEF RecordedInv
<1>2. Taken(disk, clock, job) /\ Sliced(disk, clock, job)
  BY <1>1 DEF RecordedInv, JobSound
<1>3. Own(clock, u, base) /\ IsPrefix(base, job.prefix)
  BY <1>2 DEF Taken, Resumes, Sliced
<1>4. ~appends => p.turns = TurnsOf(job.prefix, p.conv)
  BY <1>1, <1>2, SessionTold
<1>5. appends \in BOOLEAN /\ job.prefix \in Seq(Records)
  BY <1>1 DEF Appends, Job
<1>6. job.k < Len(job.sessions)
  BY <1>1, LenProperties DEF Job
<1>7. ~Raced(job) => Held(db, base, doubt)
  <2> SUFFICES ASSUME ~Raced(job)
               PROVE  Held(db, base, doubt)
    OBVIOUS
  <2>1. ~Moved(job)
    BY <1>6, NotRaced
  <2>2. Recorded(db, ingested, u) = base
    BY <1>1, <2>1, UnmovedBase
  <2>3. Alive(disk, Recorded(db, ingested, u)) => Held(db, Recorded(db, ingested, u), doubt)
    <3> HIDE DEF u
    <3>1. u \in Units /\ IsFile(u)
      BY <1>1 DEF u
    <3> QED BY <3>1, RecordedHeld
  <2> QED BY <2>2, <2>3
<1> DEFINE r == p.conv
           texts == p.turns
           prefix == job.prefix
           raced == Raced(job)
<1> HIDE DEF job, p, u, base, appends, r, texts, prefix, raced
<1>8. Stored(db, db', r, texts, appends)
  BY <1>1 DEF r, texts
<1>9. doubt' = (IF appends THEN doubt ELSE doubt \ {r}) \cup (IF raced THEN Conv[u] ELSE {})
  BY <1>1 DEF r, raced
<1>10. base \in Seq(Records) /\ ConvsOf(base) \subseteq Conv[u]
  BY <1>3 DEF Own, ConvsOf
<1> SUFFICES ASSUME NEW s \in ConvsOf(base) \ doubt'
             PROVE  IsPrefix(TurnsOf(base, s), TextsOf(db', s))
  BY DEF Held, base, job
<1>11. ~raced
  BY <1>9, <1>10
<1>12. Held(db, base, doubt)
  BY <1>7, <1>11 DEF raced
<1>13. CASE s # r \/ appends
  <2>1. \A x : x \in doubt /\ (x # r \/ appends) => x \in doubt'
    BY <1>9
  <2> QED BY <1>5, <1>8, <1>10, <1>12, <1>13, <2>1, HeldStill
<1>14. CASE s = r /\ ~appends
  <2>1. IsPrefix(TurnsOf(base, s), TurnsOf(prefix, s))
    BY <1>3, <1>5, <1>10, TurnsOfPrefix DEF prefix
  <2>2. TextsOf(db', s) = TurnsOf(prefix, s)
    BY <1>4, <1>8, <1>14 DEF Stored, r, texts, prefix
  <2> QED BY <2>1, <2>2
<1> QED BY <1>13, <1>14

\* With the last session the pass records the unit: all its turns are there.
LEMMA StoreHeldDone ==
    ASSUME RecordedInv, NEW i \in Ingesters, StoreSession(i), IsFile(ing[i].unit),
           ing[i].k = Len(ing[i].sessions), Alive(disk, StandsFor(ing[i]))
    PROVE  Held(db', StandsFor(ing[i]), doubt')
<1> DEFINE job == ing[i]
           sessions == job.sessions
           k == job.k
           p == sessions[k]
           u == job.unit
           base == job.base
           read == Reads(job)
           lines == StandsFor(job)
           appends == Appends(job)
           first == IF appends THEN base ELSE <<>>
<1>1. /\ Job(job) /\ k \in DOMAIN sessions /\ job.pc = "store" /\ u \in Units /\ sessions # <<>>
      /\ Stored(db, db', p.conv, p.turns, appends)
      /\ doubt' = (IF appends THEN doubt ELSE doubt \ {p.conv})
                    \cup (IF Raced(job) THEN Conv[u] ELSE {})
  BY StoreEffects DEF RecordedInv
<1>2. Taken(disk, clock, job) /\ Sliced(disk, clock, job)
  BY <1>1 DEF RecordedInv, JobSound
<1>3. /\ lines = first \o read /\ Own(clock, u, lines)
  BY <1>1, <1>2, StandsSound
<1>4. /\ SessionsRead(read, sessions) /\ AllRead(read, sessions) /\ Own(clock, u, base)
  BY <1>2 DEF Sliced, Taken, Resumes
<1>5. /\ read \in Seq(Records) /\ sessions \in Seq(Parsed) /\ appends \in BOOLEAN
      /\ base \in Seq(Records)
  BY <1>1, <1>4, ReadsTyped DEF Job, Appends, Own
<1>6. ASSUME ~Raced(job)
      PROVE  /\ appends => ~Moved(job)
             /\ appends => TextsOf(db, p.conv) = TurnsOf(base, p.conv)
             /\ \A n \in 1..(k - 1) :
                  TextsOf(db, sessions[n].conv)
                    = (IF appends THEN TurnsOf(base, sessions[n].conv) ELSE <<>>)
                        \o sessions[n].turns
  BY <1>6, NotRaced
<1>7. ASSUME ~Raced(job), appends
      PROVE  Alive(disk, base) => Held(db, base, doubt)
  <2>1. Recorded(db, ingested, u) = base
    BY <1>1, <1>6, <1>7, UnmovedBase
  <2>2. Alive(disk, Recorded(db, ingested, u)) => Held(db, Recorded(db, ingested, u), doubt)
    <3> HIDE DEF u
    <3>1. u \in Units /\ IsFile(u)
      BY <1>1 DEF u
    <3> QED BY <3>1, RecordedHeld
  <2> QED BY <2>1, <2>2
<1> DEFINE raced == Raced(job)
           r == p.conv
           texts == p.turns
<1>8. Alive(disk, lines)
  OBVIOUS
<1>k. k = Len(sessions)
  OBVIOUS
<1> HIDE DEF job, sessions, k, u, base, read, lines, appends, raced
<1>9. Stored(db, db', r, texts, appends)
  BY <1>1
<1>10. doubt' = (IF appends THEN doubt ELSE doubt \ {r}) \cup (IF raced THEN Conv[u] ELSE {})
  BY <1>1 DEF raced
<1>11. ConvsOf(lines) \subseteq Conv[u]
  BY <1>3 DEF Own, ConvsOf
<1> SUFFICES ASSUME NEW s \in ConvsOf(lines) \ doubt'
             PROVE  IsPrefix(TurnsOf(lines, s), TextsOf(db', s))
  BY DEF Held, lines, job
<1>12. ~raced
  BY <1>10, <1>11
<1>13. first \in Seq(Records)
  <2>1. CASE appends
    BY <1>5, <2>1
  <2>2. CASE ~appends
    BY <2>2
  <2> QED BY <2>1, <2>2
<1>14. \A x : TurnsOf(first, x) = IF appends THEN TurnsOf(base, x) ELSE <<>>
  <2>1. \A x : ~appends => TurnsOf(first, x) = <<>>
    <3> SUFFICES ASSUME ~appends, NEW x PROVE TurnsOf(first, x) = <<>>
      OBVIOUS
    <3>1. x \notin ConvsOf(first)
      BY DEF ConvsOf
    <3> QED BY <1>13, <3>1, TurnsNone
  <2> QED BY <2>1
<1>15. \A n \in 1..(k - 1) :
         TextsOf(db, sessions[n].conv) = TurnsOf(first, sessions[n].conv) \o sessions[n].turns
  BY <1>6, <1>12, <1>14 DEF raced
<1>16. TextsOf(db', r) = TurnsOf(first, r) \o texts
  <2>1. CASE appends
    <3>1. TextsOf(db, r) = TurnsOf(base, r)
      BY <1>6, <1>12, <2>1 DEF raced
    <3>2. TextsOf(db', r) = TextsOf(db, r) \o texts
      BY <1>9, <2>1 DEF Stored
    <3> QED BY <1>14, <2>1, <3>1, <3>2
  <2>2. CASE ~appends
    <3>1. TextsOf(db', r) = texts /\ texts \in Seq(Nat)
      BY <1>9, <2>2 DEF Stored
    <3>2. <<>> \o texts = texts
      BY <3>1, ConcatEmptySeq
    <3> QED BY <1>14, <2>2, <3>1, <3>2
  <2> QED BY <2>1, <2>2
<1>17. \A x : x # r => TextsOf(db', x) = TextsOf(db, x)
  BY <1>9 DEF Stored
<1> HIDE DEF first
<1>18. s \notin ConvsOf(read) => IsPrefix(TurnsOf(first, s), TextsOf(db', s))
  <2> SUFFICES ASSUME s \notin ConvsOf(read)
               PROVE  IsPrefix(TurnsOf(first, s), TextsOf(db', s))
    OBVIOUS
  <2>1. PICK j \in DOMAIN lines : lines[j].conv = s
    BY DEF ConvsOf
  <2>2. j \in DOMAIN first /\ lines[j] = first[j]
    <3>1. \/ j \in DOMAIN first /\ lines[j] = first[j]
          \/ \E n \in DOMAIN read : lines[j] = read[n]
      BY <1>3, <1>5, <1>13, BothParts
    <3>2. \A n \in DOMAIN read : read[n].conv # s
      BY DEF ConvsOf
    <3> QED BY <2>1, <3>1, <3>2
  <2>3. appends /\ first = base
    <3>1. ~appends => DOMAIN first = {}
      BY DEF first
    <3> QED BY <2>2, <3>1 DEF first
  <2>4. Alive(disk, base)
    <3>1. \A n \in DOMAIN base : n \in DOMAIN lines /\ lines[n] = base[n]
      BY <1>3, <1>5, <2>3, BothParts
    <3> QED BY <1>8, <3>1 DEF Alive
  <2>5. Held(db, base, doubt)
    BY <1>7, <1>12, <2>3, <2>4 DEF raced
  <2>6. \A x : x \in doubt /\ (x # r \/ appends) => x \in doubt'
    BY <1>10
  <2>7. s \in ConvsOf(base) \ doubt'
    BY <2>1, <2>2, <2>3 DEF ConvsOf
  <2> HIDE DEF r, texts
  <2>8. s # r \/ appends
    BY <2>3
  <2>9. IsPrefix(TurnsOf(base, s), TextsOf(db', s))
    BY <2>8, <1>5, <1>9, <2>5, <2>6, <2>7, HeldStill
  <2> QED BY <2>3, <2>9
<1>19. /\ TextsOf(db', sessions[k].conv) = TurnsOf(first, sessions[k].conv) \o sessions[k].turns
       /\ \A x : x # sessions[k].conv => TextsOf(db', x) = TextsOf(db, x)
  BY <1>16, <1>17 DEF p
<1>20. sessions # <<>>
  BY <1>1
<1> HIDE DEF r, texts
<1>21. LastStored(db, db', first, sessions)
  BY <1>k, <1>15, <1>19 DEF LastStored
<1>22. IsPrefix(TurnsOf(first \o read, s), TextsOf(db', s))
  BY <1>4, <1>5, <1>13, <1>18, <1>20, <1>21, DoneTurns
<1> QED BY <1>3, <1>22

\* The state recorded with a session counts the lines it stands for.
LEMMA StaleSound ==
    ASSUME NEW dk, NEW now, NEW job, IsFile(job.unit), Taken(dk, now, job)
    PROVE  /\ Own(now, job.unit, job.base)
           /\ Follows(dk, job.unit, job.base)
           /\ Len(job.base) = StaleState(job).bytes
<1>1. /\ Own(now, job.unit, job.base) /\ Follows(dk, job.unit, job.base)
      /\ Len(job.base) = IF job.old = None THEN 0 ELSE job.old.bytes
      /\ job.change.from = IF Appends(job) THEN Len(job.base) ELSE 0
  BY DEF Taken, Resumes
<1>2. StaleState(job).bytes = IF job.old # None THEN job.old.bytes ELSE job.change.from
  BY DEF StaleState
<1> QED BY <1>1, <1>2

\* A pass that has stored one session and goes on to the next is what it was.
LEMMA NextSessionSound ==
    ASSUME NEW dk, NEW now, NEW job, Job(job), job.pc = "store", JobSound(dk, now, job)
    PROVE  JobSound(dk, now, [job EXCEPT !.k = @ + 1])
<1> DEFINE next == [job EXCEPT !.k = @ + 1]
<1>1. /\ next.pc = job.pc /\ next.unit = job.unit /\ next.old = job.old
      /\ next.change = job.change /\ next.base = job.base /\ next.sessions = job.sessions
      /\ next.prefix = job.prefix
  BY IdleTyped DEF Job, Fields
<1>2. Taken(dk, now, job) /\ Sliced(dk, now, job)
  BY DEF JobSound
<1> HIDE DEF next
<1>3. (Appends(next) <=> Appends(job)) /\ Reads(next) = Reads(job)
  BY <1>1 DEF Appends, Reads
<1>4. Taken(dk, now, next)
  BY <1>1, <1>2, <1>3 DEF Taken
<1>5. Sliced(dk, now, next)
  BY <1>1, <1>2, <1>3 DEF Sliced
<1>6. JobSound(dk, now, next)
  BY <1>4, <1>5 DEF JobSound
<1> QED BY <1>6 DEF next

(***************************************************************************)
(* A transaction of a pass: of the unit it records these lines, and what   *)
(* is recorded of the others stays.                                        *)
(***************************************************************************)
LEMMA TransactionRecorded ==
    ASSUME RecordedInv, IngestInv', NEW i \in Ingesters, NEW next,
           ing' = [ing EXCEPT ![i] = next], JobSound(disk, clock, next),
           UNCHANGED <<disk, clock>>, NEW u \in Units, NEW st, StateIs(db, db', u, st),
           NEW lines, ingested' = [ingested EXCEPT ![u] = lines],
           IsFile(u) => /\ Own(clock, u, lines)
                        /\ Follows(disk, u, lines)
                        /\ st # None => Len(lines) = st.bytes
                        /\ Alive(disk, lines) => Held(db', lines, doubt'),
           \A v \in Units \ {u} : IsFile(v) /\ Alive(disk, Recorded(db, ingested, v)) =>
             Held(db', Recorded(db, ingested, v), doubt')
    PROVE  RecordedInv'
<1>1. /\ IngestInv /\ DiskSound(disk, clock) /\ StateSound(db, disk, clock, ingested)
      /\ \A j \in Ingesters : JobSound(disk, clock, ing[j])
  BY DEF RecordedInv
<1>2. /\ StateSound(db', disk, clock, ingested')
      /\ Recorded(db', ingested', u) = IF st = None THEN <<>> ELSE lines
      /\ \A v \in Units \ {u} : Recorded(db', ingested', v) = Recorded(db, ingested, v)
  <2>1. IsFile(u) => /\ Own(clock, u, lines)
                     /\ Follows(disk, u, lines)
                     /\ st # None => Len(lines) = st.bytes
    OBVIOUS
  <2> DEFINE e == db'
             h == ingested'
  <2>2. h = [ingested EXCEPT ![u] = lines] /\ StateIs(db, e, u, st)
    OBVIOUS
  <2> HIDE DEF e, h
  <2>3. /\ StateSound(e, disk, clock, h)
        /\ RecordedIs(db, ingested, e, h, u, IF st = None THEN <<>> ELSE lines)
    BY <1>1, <2>1, <2>2, StateMoves
  <2> QED BY <2>3 DEF e, h, RecordedIs
<1>3. \A j \in Ingesters : JobSound(disk', clock', ing'[j])
  <2>1. \A j \in Ingesters : JobSound(disk, clock, ing'[j])
    BY <1>1 DEF IngestInv
  <2> QED BY <2>1
<1>4. ASSUME NEW v \in Units, IsFile(v), Alive(disk, Recorded(db', ingested', v))
      PROVE  Held(db', Recorded(db', ingested', v), doubt')
  <2>1. CASE v # u
    BY <1>2, <1>4, <2>1
  <2>2. CASE v = u /\ st # None
    BY <1>2, <1>4, <2>2
  <2>3. CASE v = u /\ st = None
    <3>1. Recorded(db', ingested', v) = <<>>
      BY <1>2, <2>3
    <3>2. ConvsOf(<<>>) = {}
      BY DEF ConvsOf
    <3> QED BY <3>1, <3>2 DEF Held
  <2> QED BY <2>1, <2>2, <2>3
<1>5. RecordedSound(db', disk, ingested', doubt')
  BY <1>4 DEF RecordedSound, Held
<1>6. DiskSound(disk', clock') /\ StateSound(db', disk', clock', ingested')
      /\ RecordedSound(db', disk', ingested', doubt')
  BY <1>1, <1>2, <1>5
<1> QED BY <1>3, <1>6 DEF RecordedInv

LEMMA StoreSessionRecorded ==
    ASSUME RecordedInv, IngestInv', NEW i \in Ingesters, StoreSession(i)
    PROVE  RecordedInv'
<1> DEFINE job == ing[i]
           u == job.unit
           last == job.k = Len(job.sessions)
           st == IF last THEN DoneState(job) ELSE StaleState(job)
           lines == IF last THEN StandsFor(job) ELSE job.base
           next == IF last THEN NextUnit(job) ELSE [job EXCEPT !.k = @ + 1]
<1>1. /\ Job(job) /\ job.pc = "store" /\ u \in Units
      /\ StateIs(db, db', u, st)
      /\ ing' = [ing EXCEPT ![i] = next] /\ ingested' = [ingested EXCEPT ![u] = lines]
      /\ UNCHANGED <<disk, clock>>
  BY StoreEffects DEF RecordedInv
<1>2. JobSound(disk, clock, job) /\ Taken(disk, clock, job) /\ Sliced(disk, clock, job)
  BY <1>1 DEF RecordedInv, JobSound
<1>3. JobSound(disk, clock, next)
  <2>1. CASE last
    <3>1. NextUnit(job).pc = "unit"
      BY <1>1, NextUnitRests, IdleTyped DEF Job
    <3> QED BY <2>1, <3>1, RestingSound
  <2>2. CASE ~last
    BY <1>1, <1>2, <2>2, NextSessionSound
  <2> QED BY <2>1, <2>2
<1>4. ASSUME IsFile(u)
      PROVE  /\ Own(clock, u, lines)
             /\ Follows(disk, u, lines)
             /\ st # None => Len(lines) = st.bytes
             /\ Alive(disk, lines) => Held(db', lines, doubt')
  <2>1. CASE last
    <3>1. /\ Own(clock, u, StandsFor(job)) /\ Follows(disk, u, StandsFor(job))
          /\ Len(StandsFor(job)) = DoneState(job).bytes
      BY <1>1, <1>2, <1>4, StandsSound
    <3>2. Alive(disk, StandsFor(job)) => Held(db', StandsFor(job), doubt')
      BY <1>4, <2>1, StoreHeldDone
    <3> QED BY <2>1, <3>1, <3>2
  <2>2. CASE ~last
    <3>1. /\ Own(clock, u, job.base) /\ Follows(disk, u, job.base)
          /\ Len(job.base) = StaleState(job).bytes
      BY <1>2, <1>4, StaleSound
    <3>2. Alive(disk, job.base) => Held(db', job.base, doubt')
      BY <1>4, <2>2, StoreHeldBefore
    <3> QED BY <2>2, <3>1, <3>2
  <2> QED BY <2>1, <2>2
<1>5. \A v \in Units \ {u} : IsFile(v) /\ Alive(disk, Recorded(db, ingested, v)) =>
         Held(db', Recorded(db, ingested, v), doubt')
  BY StoreHeldElsewhere
<1> HIDE DEF job, u, st, lines, next
<1> QED BY <1>1, <1>3, <1>4, <1>5, TransactionRecorded

(***************************************************************************)
(* TouchUnit: a file of which nothing new was read stands for what the     *)
(* resume point stood for, or for nothing.                                 *)
(***************************************************************************)
LEMMA TouchUnitRecorded ==
    ASSUME RecordedInv, IngestInv', NEW i \in Ingesters, TouchUnit(i)
    PROVE  RecordedInv'
<1> DEFINE job == ing[i]
           u == job.unit
           st == DoneState(job)
           lines == StandsFor(job)
           next == NextUnit(job)
           base == job.base
           read == Reads(job)
           spoilt == job.fooled \/ Moved(job)
<1>1. /\ Job(job) /\ job.pc = "store" /\ u \in Units /\ job.sessions = <<>>
      /\ db' = UpsertState(db, u, st)
      /\ ing' = [ing EXCEPT ![i] = next] /\ ingested' = [ingested EXCEPT ![u] = lines]
      /\ doubt' = (IF spoilt THEN doubt \cup Conv[u] ELSE doubt)
      /\ UNCHANGED <<disk, clock>>
  BY DEF RecordedInv, IngestInv, TouchUnit, Job, JobType
<1>2. Taken(disk, clock, job) /\ Sliced(disk, clock, job)
  BY <1>1 DEF RecordedInv, JobSound
<1>3. JobSound(disk, clock, next)
  <2>1. NextUnit(job).pc = "unit"
    BY <1>1, NextUnitRests, IdleTyped DEF Job
  <2> QED BY <2>1, RestingSound
<1>4. StateIs(db, db', u, st) /\ \A s : TextsOf(db', s) = TextsOf(db, s)
  <2>1. Store(db) /\ st.bytes \in Nat
    BY <1>1, StatesTyped DEF RecordedInv, IngestInv
  <2>2. db' = UpsertState(db, u, st)
    BY <1>1
  <2> HIDE DEF u, st
  <2>3. /\ \A v : IngestState(db', v) = IF v = u THEN st ELSE IngestState(db, v)
        /\ \A s : TextsOf(db', s) = TextsOf(db, s)
    BY <2>1, <2>2, UpsertKeepsStore
  <2> QED BY <2>3 DEF StateIs
<1>5. doubt \subseteq doubt'
  BY <1>1
<1>6. ASSUME NEW rows, Held(db, rows, doubt)
      PROVE  Held(db', rows, doubt')
  BY <1>4, <1>5, <1>6 DEF Held
<1>7. ASSUME IsFile(u)
      PROVE  /\ Own(clock, u, lines)
             /\ Follows(disk, u, lines)
             /\ st # None => Len(lines) = st.bytes
             /\ Alive(disk, lines) => Held(db', lines, doubt')
  <2>1. /\ lines = (IF Appends(job) THEN base ELSE <<>>) \o read
        /\ Own(clock, u, lines) /\ Follows(disk, u, lines) /\ Len(lines) = st.bytes
    BY <1>1, <1>2, <1>7, StandsSound
  <2>2. read \in Seq(Records) /\ AllRead(read, job.sessions) /\ base \in Seq(Records)
    BY <1>1, <1>2, <1>7, ReadsTyped DEF Job, Sliced, Taken, Resumes, Own
  <2>3. read = <<>>
    <3>1. DOMAIN job.sessions = {}
      BY <1>1
    <3>2. ConvsOf(read) = {}
      BY <2>2, <3>1 DEF AllRead
    <3> HIDE DEF read
    <3>3. DOMAIN read = {}
      BY <3>2 DEF ConvsOf
    <3> QED BY <2>2, <3>3, EmptySeq, LenProperties
  <2>4. lines = IF Appends(job) THEN base ELSE <<>>
    <3>1. base \o <<>> = base /\ <<>> \o <<>> = <<>>
      BY <2>2, ConcatEmptySeq
    <3> QED BY <2>1, <2>3, <3>1
  <2>5. ASSUME Alive(disk, lines), NEW s \in ConvsOf(lines) \ doubt'
        PROVE  IsPrefix(TurnsOf(lines, s), TextsOf(db', s))
    <3>1. lines = base
      <4>1. ConvsOf(<<>>) = {}
        BY DEF ConvsOf
      <4> QED BY <2>4, <2>5, <4>1
    <3>2. s \in Conv[u]
      BY <2>1, <2>5 DEF Own, ConvsOf
    <3>3. ~Moved(job)
      BY <1>1, <2>5, <3>2
    <3>4. Recorded(db, ingested, u) = base
      BY <1>1, <1>7, <3>3, UnmovedBase
    <3>5. Alive(disk, Recorded(db, ingested, u)) => Held(db, Recorded(db, ingested, u), doubt)
      <4> HIDE DEF u
      <4>1. u \in Units /\ IsFile(u)
        BY <1>1, <1>7 DEF u
      <4> QED BY <4>1, RecordedHeld
    <3>6. Held(db', lines, doubt')
      BY <1>6, <2>5, <3>1, <3>4, <3>5
    <3> QED BY <2>5, <3>6 DEF Held
  <2> QED BY <2>1, <2>5 DEF Held
<1>8. \A v \in Units \ {u} : IsFile(v) /\ Alive(disk, Recorded(db, ingested, v)) =>
         Held(db', Recorded(db, ingested, v), doubt')
  BY <1>6, RecordedHeld
<1> HIDE DEF job, u, st, lines, next
<1> QED BY <1>1, <1>3, <1>4, <1>7, <1>8, TransactionRecorded

LEMMA LinkRecorded ==
    ASSUME RecordedInv, IngestInv', NEW i \in Ingesters, Link(i)
    PROVE  RecordedInv'
<1> DEFINE sources == UNION {Conv[u] : u \in {u \in Units : Agent[u] = ing[i].agent}}
<1>1. /\ db' = LinkSubagents(db, sources) /\ ing' = [ing EXCEPT ![i] = Idle]
      /\ UNCHANGED <<disk, clock, ingested, doubt>>
  BY Zenon DEF Link
<1> HIDE DEF sources
<1>2. /\ \A u : IngestState(db', u) = IngestState(db, u)
      /\ \A s : TextsOf(db', s) = TextsOf(db, s)
  BY <1>1, LinkKeepsStore DEF RecordedInv, IngestInv
<1>3. \A u : Recorded(db', ingested, u) = Recorded(db, ingested, u)
  BY <1>2 DEF Recorded
<1>4. StateSound(db', disk, clock, ingested)
  <2>1. StateSound(db, disk, clock, ingested)
    BY DEF RecordedInv
  <2> QED BY <1>2, <1>3, <2>1 DEF StateSound
<1>5. RecordedSound(db', disk, ingested, doubt)
  <2>1. RecordedSound(db, disk, ingested, doubt)
    BY DEF RecordedInv
  <2> QED BY <1>2, <1>3, <2>1 DEF RecordedSound
<1>6. \A j \in Ingesters : JobSound(disk', clock', ing'[j])
  <2>1. JobSound(disk, clock, Idle)
    BY RestingSound DEF Idle
  <2>2. \A j \in Ingesters : JobSound(disk, clock, ing'[j])
    BY <1>1, <2>1 DEF RecordedInv, IngestInv
  <2> QED BY <1>1, <2>2
<1>7. /\ DiskSound(disk', clock') /\ StateSound(db', disk', clock', ingested')
      /\ RecordedSound(db', disk', ingested', doubt')
  BY <1>1, <1>4, <1>5 DEF RecordedInv
<1> QED BY <1>6, <1>7 DEF RecordedInv

----------------------------------------------------------------------------
(* When units were written.                                                *)

\* No two units were written at the same time, and no row of a database is
\* later than its latest message.
Timed(dk, now) ==
    /\ \A u \in Units : dk[u] # Absent =>
         /\ dk[u].mtime <= now
         /\ \A w \in Units : dk[w] # Absent /\ dk[w].mtime = dk[u].mtime => w = u
         /\ ~IsFile(u) => \A i \in DOMAIN RowsIn(dk, u) : RowsIn(dk, u)[i].at <= dk[u].mtime
    /\ \A u \in Units : Agent[u] = "devin" =>
         \A i \in DOMAIN RowsIn(dk, u) : RowsIn(dk, u)[i].at > 0

\* A cursor that was read.
Past(now, c) == c \in Nat /\ c <= now

\* The rows that were read, and behind them some later than a cursor.
Newer(read, rows, c) ==
    IsPrefix(read, rows) /\ \A i \in DOMAIN rows : i > Len(read) => rows[i].at > c

(***************************************************************************)
(* From one disk to a later one: a time that is there was there, or is     *)
(* newer; a file of such a time is as it was; and the conversations of a   *)
(* database have got newer rows only, but for those that are late.         *)
(***************************************************************************)
Aged(dk, now, e, then, late) ==
    /\ now \in Nat /\ then \in Nat /\ now <= then
    /\ \A w \in Units : e[w] # Absent =>
         \/ e[w].mtime > now
         \/ \E v \in Copies(w) : /\ dk[v] # Absent /\ e[w].mtime = dk[v].mtime
                                 /\ IsFile(w) => e[w] = dk[v]
    /\ \A u \in Units : ~IsFile(u) =>
         \A s \in Sources \ late : Newer(RowsOf(RowsIn(dk, u), s), RowsOf(RowsIn(e, u), s), now)

LEMMA NewerBehind ==
    ASSUME NEW read \in Seq(Records), NEW more \in Seq(Records), NEW c,
           \A i \in DOMAIN more : more[i].at > c
    PROVE  Newer(read, read \o more, c)
<1> DEFINE rows == read \o more
<1>1. IsPrefix(read, rows)
  BY PrefixOfLonger
<1>2. /\ rows \in Seq(Records) /\ Len(rows) = Len(read) + Len(more)
      /\ Len(read) \in Nat /\ Len(more) \in Nat
      /\ DOMAIN rows = 1..Len(rows) /\ DOMAIN more = 1..Len(more)
  BY BothParts, LenProperties
<1>3. ASSUME NEW i \in DOMAIN rows, i > Len(read)
      PROVE  rows[i].at > c
  <2> DEFINE l == Len(read)
             n == Len(more)
  <2>1. i \in 1..(l + n) /\ ~(i <= l) /\ l \in Nat /\ n \in Nat
    BY <1>2, <1>3
  <2>2. rows[i] = more[i - l]
    BY <2>1, ConcatProperties
  <2>3. i - l \in DOMAIN more
    <3> HIDE DEF l, n
    <3>1. i - l \in 1..n
      BY <2>1
    <3> QED BY <1>2, <3>1 DEF n
  <2> QED BY <2>2, <2>3
<1> HIDE DEF rows
<1>4. Newer(read, rows, c)
  BY <1>1, <1>3 DEF Newer
<1> QED BY <1>4 DEF rows

LEMMA NewerSame ==
    ASSUME NEW rows \in Seq(Records), NEW c
    PROVE  Newer(rows, rows, c)
<1> DEFINE none == <<>>
<1>1. none \in Seq(Records) /\ DOMAIN none = {} /\ rows \o none = rows
  BY ConcatEmptySeq
<1> HIDE DEF none
<1>2. Newer(rows, rows \o none, c)
  BY <1>1, NewerBehind
<1> QED BY <1>1, <1>2

\* The records of a conversation, one written behind them.
LEMMA RowBehind ==
    ASSUME NEW rows \in Seq(Records), NEW r \in Records, NEW c, r.at > c, NEW s
    PROVE  Newer(RowsOf(rows, s), RowsOf(Append(rows, r), s), c)
<1> DEFINE one == <<r>>
           own == RowsOf(rows, s)
           more == RowsOf(one, s)
<1>1. one \in Seq(Records) /\ Append(rows, r) = rows \o one /\ \A i \in DOMAIN one : one[i] = r
  OBVIOUS
<1> HIDE DEF one
<1>2. own \in Seq(Records) /\ more \in Seq(Records)
  BY <1>1, RowsTyped
<1>3. \A k \in DOMAIN more : \E i \in DOMAIN one : more[k] = one[i]
  BY <1>1, RowsFrom
<1>4. RowsOf(rows \o one, s) = own \o more
  BY <1>1, RowsSplit
<1> HIDE DEF own, more
<1>5. \A k \in DOMAIN more : more[k].at > c
  BY <1>1, <1>3
<1>6. Newer(own, own \o more, c)
  BY <1>2, <1>5, NewerBehind
<1> QED BY <1>1, <1>4, <1>6 DEF own

\* The records of the other conversations are the same.
LEMMA BetweenOthers ==
    ASSUME NEW old, NEW new, NEW s, Between(old, new, s), NEW r, r # s
    PROVE  RowsOf(old, r) = RowsOf(new, r)
<1>1. PICK a, b, x, y \in Seq(Records) :
        /\ old = (a \o x) \o b
        /\ new = (a \o y) \o b
        /\ \A i \in DOMAIN x : x[i].conv = s
        /\ \A i \in DOMAIN y : y[i].conv = s
  BY DEF Between
<1>2. \A p, q \in Seq(Records) : RowsOf(p \o q, r) = RowsOf(p, r) \o RowsOf(q, r)
  BY RowsOfAll, Zenon
<1>3. ASSUME NEW z \in Seq(Records), \A i \in DOMAIN z : z[i].conv = s
      PROVE  RowsOf((a \o z) \o b, r) = RowsOf(a, r) \o RowsOf(b, r)
  <2>1. a \o z \in Seq(Records)
    BY ConcatProperties
  <2>2. r \notin ConvsOf(z)
    BY <1>3 DEF ConvsOf
  <2>3. RowsOf(z, r) = <<>>
    BY <2>2, RowsNone
  <2>4. RowsOf(a \o z, r) = RowsOf(a, r) \o RowsOf(z, r)
    BY <1>2, Zenon
  <2>5. RowsOf((a \o z) \o b, r) = RowsOf(a \o z, r) \o RowsOf(b, r)
    BY <2>1, <1>2, Zenon
  <2>6. RowsOf(a, r) \o <<>> = RowsOf(a, r)
    BY RowsTyped, ConcatEmptySeq
  <2> QED BY <2>3, <2>4, <2>5, <2>6
<1>4. RowsOf(old, r) = RowsOf(a, r) \o RowsOf(b, r)
  BY <1>1, <1>3
<1>5. RowsOf(new, r) = RowsOf(a, r) \o RowsOf(b, r)
  BY <1>1, <1>3
<1> QED BY <1>4, <1>5

\* One unit gets other lines, now or with the time it had.
LEMMA UnitAges ==
    ASSUME IngestInv, DiskSound(disk, clock), Timed(disk, clock), NEW u \in Units,
           NEW new \in Written, disk' = [disk EXCEPT ![u] = new], clock' = clock + 1,
           NEW late,
           \/ new.mtime = clock + 1
           \/ ~IsFile(u) /\ disk[u] # Absent /\ new.mtime = disk[u].mtime,
           ~IsFile(u) =>
             /\ \A i \in DOMAIN new.lines : new.lines[i].at <= new.mtime
             /\ Agent[u] = "devin" => \A i \in DOMAIN new.lines : new.lines[i].at > 0
             /\ \A s \in Sources \ late :
                  Newer(RowsOf(RowsIn(disk, u), s), RowsOf(new.lines, s), clock)
    PROVE  Timed(disk', clock') /\ Aged(disk, clock, disk', clock', late)
<1>1. DOMAIN disk = Units /\ clock \in Nat /\ new.mtime \in Nat
  BY DEF IngestInv, DiskTyped, Written
<1>2. new # Absent
  BY IngestAssumption DEF Written, Records
<1>3. /\ disk'[u] = new /\ RowsIn(disk', u) = new.lines
      /\ \A w \in Units \ {u} : disk'[w] = disk[w] /\ RowsIn(disk', w) = RowsIn(disk, w)
  BY <1>1, <1>2 DEF RowsIn
<1>4. \A w \in Units : disk[w] # Absent => disk[w].mtime \in Nat /\ disk[w].mtime <= clock
  <2>1. \A w \in Units : disk[w] # Absent => disk[w] \in Written
    BY DEF IngestInv, DiskTyped
  <2> QED BY <2>1 DEF Timed, Written
<1>5. new.mtime <= clock + 1
  BY <1>1, <1>4
<1>6. \A w \in Units \ {u} : disk[w] # Absent => disk[w].mtime # new.mtime
  <2>1. CASE new.mtime = clock + 1
    BY <1>1, <1>4, <2>1
  <2>2. CASE disk[u] # Absent /\ new.mtime = disk[u].mtime
    BY <2>2 DEF Timed
  <2> QED BY <2>1, <2>2
<1>7. ASSUME NEW v \in Units, disk'[v] # Absent
      PROVE  /\ disk'[v].mtime <= clock + 1
             /\ \A w \in Units : disk'[w] # Absent /\ disk'[w].mtime = disk'[v].mtime => w = v
             /\ ~IsFile(v) =>
                  \A i \in DOMAIN RowsIn(disk', v) : RowsIn(disk', v)[i].at <= disk'[v].mtime
  <2>1. CASE v = u
    BY <1>3, <1>5, <1>6, <2>1
  <2>2. CASE v # u
    <3>1. disk'[v] = disk[v] /\ RowsIn(disk', v) = RowsIn(disk, v) /\ disk[v] # Absent
      BY <1>3, <1>7, <2>2
    <3>2. disk[v].mtime \in Nat /\ disk[v].mtime <= clock
      BY <1>4, <3>1
    <3>3. \A w \in Units : disk'[w] # Absent /\ disk'[w].mtime = disk[v].mtime => w = v
      <4>1. disk'[u].mtime # disk[v].mtime
        BY <1>3, <1>6, <2>2, <3>1
      <4>2. \A w \in Units \ {u} : disk'[w] # Absent /\ disk'[w].mtime = disk[v].mtime => w = v
        BY <1>3, <3>1 DEF Timed
      <4> QED BY <4>1, <4>2
    <3> QED BY <1>1, <3>1, <3>2, <3>3 DEF Timed
  <2> QED BY <2>1, <2>2
<1>8. ASSUME NEW v \in Units, Agent[v] = "devin"
      PROVE  \A i \in DOMAIN RowsIn(disk', v) : RowsIn(disk', v)[i].at > 0
  <2>1. ~IsFile(v)
    BY <1>8 DEF IsFile, Databases
  <2>2. CASE v = u
    BY <1>3, <1>8, <2>1, <2>2
  <2>3. CASE v # u
    BY <1>3, <1>8, <2>3 DEF Timed
  <2> QED BY <2>2, <2>3
<1>9. Timed(disk', clock')
  BY <1>7, <1>8 DEF Timed
<1>10. ASSUME NEW w \in Units, disk'[w] # Absent
       PROVE  \/ disk'[w].mtime > clock
              \/ \E v \in Copies(w) : /\ disk[v] # Absent /\ disk'[w].mtime = disk[v].mtime
                                      /\ IsFile(w) => disk'[w] = disk[v]
  <2>1. w \in Copies(w)
    BY DEF Copies
  <2>2. CASE w # u
    BY <1>3, <1>10, <2>1, <2>2
  <2>3. CASE w = u /\ new.mtime = clock + 1
    BY <1>1, <1>3, <2>3
  <2>4. CASE w = u /\ ~IsFile(u) /\ disk[u] # Absent /\ new.mtime = disk[u].mtime
    BY <1>3, <2>1, <2>4
  <2> QED BY <2>2, <2>3, <2>4
<1>11. ASSUME NEW v \in Units, ~IsFile(v), NEW s \in Sources \ late
       PROVE  Newer(RowsOf(RowsIn(disk, v), s), RowsOf(RowsIn(disk', v), s), clock)
  <2>1. CASE v = u
    BY <1>3, <1>11, <2>1
  <2>2. CASE v # u
    <3> DEFINE rows == RowsOf(RowsIn(disk, v), s)
    <3>1. RowsIn(disk, v) \in Seq(Records)
      BY ContentRows
    <3>2. rows \in Seq(Records)
      BY <3>1, RowsTyped
    <3>3. RowsOf(RowsIn(disk', v), s) = rows
      BY <1>3, <2>2
    <3> HIDE DEF rows
    <3>4. Newer(rows, rows, clock)
      BY <3>2, NewerSame
    <3> QED BY <3>3, <3>4 DEF rows
  <2> QED BY <2>1, <2>2
<1>12. clock \in Nat /\ clock' \in Nat /\ clock <= clock'
  BY <1>1
<1>13. Aged(disk, clock, disk', clock', late)
  BY <1>10, <1>11, <1>12 DEF Aged
<1> QED BY <1>9, <1>13

\* A unit is written.
LEMMA WriteAges ==
    ASSUME IngestInv, DiskSound(disk, clock), Timed(disk, clock), NEW u \in Units,
           NEW lines \in Seq(Records), NEW half \in BOOLEAN, Write(u, lines, half),
           ~IsFile(u) =>
             /\ \A i \in DOMAIN lines : lines[i].at <= clock + 1
             /\ Agent[u] = "devin" => \A i \in DOMAIN lines : lines[i].at > 0
             /\ \A s : Newer(RowsOf(RowsIn(disk, u), s), RowsOf(lines, s), clock)
    PROVE  Timed(disk', clock') /\ Aged(disk, clock, disk', clock', {})
<1> DEFINE new == [lines |-> lines, half |-> half, mtime |-> clock + 1]
<1>1. clock' = clock + 1 /\ disk' = [disk EXCEPT ![u] = new] /\ clock \in Nat
  BY DEF Write, IngestInv, DiskTyped
<1>2. new \in Written /\ new.lines = lines /\ new.mtime = clock + 1
  BY <1>1 DEF Written
<1> HIDE DEF new
<1> QED BY <1>1, <1>2, UnitAges

\* A row of a database comes late.
LEMMA LateRowAges ==
    ASSUME IngestInv, DiskSound(disk, clock), Timed(disk, clock), NEW u \in Units, LateRow(u)
    PROVE  /\ ahead \subseteq ahead'
           /\ Timed(disk', clock') /\ Aged(disk, clock, disk', clock', ahead')
<1>1. Agent[u] = "opencode" /\ disk[u] # Absent /\ clock' = clock + 1
  BY LateRowIs
<1>2. PICK s, lines :
        /\ s \in Conv[u]
        /\ Late(u, s, lines)
        /\ disk' = [disk EXCEPT ![u].lines = lines]
        /\ ahead' = ahead \cup {s}
  BY LateRowIs
<1> DEFINE old == disk[u].lines
           new == [disk[u] EXCEPT !.lines = lines]
<1>3. ~IsFile(u) /\ Agent[u] # "devin"
  BY <1>1 DEF IsFile, Databases
<1>4. disk[u] \in Written /\ DOMAIN disk = Units /\ RowsIn(disk, u) = old
  BY <1>1 DEF IngestInv, DiskTyped, RowsIn
<1>5. lines \in Seq(Records) /\ Between(old, lines, s)
  BY <1>2 DEF Late
<1>6. new \in Written /\ new.lines = lines /\ new.mtime = disk[u].mtime
  BY <1>4, <1>5 DEF Written
<1>7. disk' = [disk EXCEPT ![u] = new]
  BY <1>2
<1>8. \A i \in DOMAIN lines : lines[i].at <= disk[u].mtime
  <2>1. \A j \in DOMAIN old : old[j].at <= disk[u].mtime
    BY <1>1, <1>3, <1>4 DEF Timed
  <2> QED BY <1>2, <2>1 DEF Late
<1>9. ASSUME NEW r \in Sources \ ahead'
      PROVE  Newer(RowsOf(RowsIn(disk, u), r), RowsOf(lines, r), clock)
  <2> DEFINE rows == RowsOf(lines, r)
  <2>1. r # s
    BY <1>2
  <2>2. RowsOf(old, r) = rows
    BY <1>5, <2>1, BetweenOthers
  <2>3. rows \in Seq(Records)
    BY <1>5, RowsTyped
  <2> HIDE DEF rows, old
  <2>4. Newer(rows, rows, clock)
    BY <2>3, NewerSame
  <2> QED BY <1>4, <2>2, <2>4 DEF rows, old
<1> HIDE DEF new
<1>10. Timed(disk', clock') /\ Aged(disk, clock, disk', clock', ahead')
  BY <1>1, <1>3, <1>6, <1>7, <1>8, <1>9, UnitAges
<1> QED BY <1>2, <1>10

\* What is late is what no recorded state accounts for.
LEMMA ToolsAge ==
    ASSUME IngestInv, DiskSound(disk, clock), Timed(disk, clock), Tools
    PROVE  /\ ahead \subseteq ahead' /\ UNCHANGED <<db, ing, ingested, doubt>>
           /\ Timed(disk', clock') /\ Aged(disk, clock, disk', clock', ahead')
<1> DEFINE Ages(late) == Timed(disk', clock') /\ Aged(disk, clock, disk', clock', late)
<1>1. ASSUME NEW u \in Units, AppendLine(u) \/ BeginLine(u) \/ RewriteFile(u)
      PROVE  Ages({}) /\ UNCHANGED <<db, ing, ingested, doubt, ahead>>
  <2>1. IsFile(u) /\ \E lines \in Seq(Records), half \in BOOLEAN : Write(u, lines, half)
    BY <1>1, FileWritten DEF AppendLine, BeginLine, RewriteFile
  <2> QED BY <2>1, WriteAges DEF Write
<1>2. ASSUME NEW u \in Units, InsertRow(u)
      PROVE  Ages({}) /\ UNCHANGED <<db, ing, ingested, doubt, ahead>>
  <2> DEFINE rows == RowsIn(disk, u)
  <2>1. Content(u).lines = rows /\ rows \in Seq(Records) /\ clock \in Nat /\ ~IsFile(u)
    BY <1>2, ContentRows DEF InsertRow
  <2>2. PICK lines :
          /\ Write(u, lines, FALSE)
          /\ \/ lines = rows
             \/ \E s \in Conv[u] : lines = Append(rows, Record(s, clock + 1))
    BY <1>2, <2>1 DEF InsertRow
  <2>3. \A s \in Conv[u] : Record(s, clock + 1) \in Records /\ Record(s, clock + 1).at = clock + 1
    <3>1. clock + 1 \in Nat /\ Conv[u] \subseteq Sources
      BY <2>1 DEF Sources
    <3> QED BY <3>1 DEF Record, Records
  <2>4. \A i \in DOMAIN rows : /\ rows[i].at \in Nat /\ rows[i].at <= clock
                               /\ Agent[u] = "devin" => rows[i].at > 0
    <3>1. \A i \in DOMAIN rows : rows[i] \in Records
      BY <2>1, LenProperties, ElementOfSeq
    <3>2. \A i \in DOMAIN rows : rows[i].at \in Nat
      BY <3>1 DEF Records
    <3>3. Agent[u] = "devin" => \A i \in DOMAIN rows : rows[i].at > 0
      BY DEF Timed
    <3>4. CASE disk[u] = Absent
      <4>1. DOMAIN rows = {}
        BY <3>4 DEF RowsIn
      <4> QED BY <4>1
    <3>5. CASE disk[u] # Absent
      <4>1. disk[u].mtime \in Nat /\ disk[u].mtime <= clock
        BY <3>5 DEF IngestInv, DiskTyped, Written, Timed
      <4>2. \A i \in DOMAIN rows : rows[i].at <= disk[u].mtime
        BY <2>1, <3>5 DEF Timed
      <4> HIDE DEF rows
      <4> QED BY <2>1, <3>2, <3>3, <4>1, <4>2
    <3> QED BY <3>4, <3>5
  <2> HIDE DEF rows
  <2>5. CASE lines = rows
    <3>1. \A s : RowsOf(rows, s) \in Seq(Records)
      BY <2>1, RowsTyped
    <3>2. \A s : Newer(RowsOf(rows, s), RowsOf(rows, s), clock)
      BY <3>1, NewerSame
    <3>3. \A i \in DOMAIN rows : rows[i].at <= clock + 1
      BY <2>1, <2>4
    <3> QED BY <2>1, <2>2, <2>4, <2>5, <3>2, <3>3, WriteAges DEF Write, rows
  <2>6. ASSUME NEW s \in Conv[u], lines = Append(rows, Record(s, clock + 1))
        PROVE  Ages({}) /\ UNCHANGED <<db, ing, ingested, doubt, ahead>>
    <3> DEFINE r == Record(s, clock + 1)
    <3>1. r \in Records /\ r.at = clock + 1 /\ r.at > clock
      BY <2>1, <2>3
    <3>2. lines = Append(rows, r)
      BY <2>6
    <3> HIDE DEF r
    <3>3. /\ lines \in Seq(Records)
          /\ \A i \in DOMAIN lines : lines[i] = r \/ (i \in DOMAIN rows /\ lines[i] = rows[i])
      <4>1. /\ lines \in Seq(Records) /\ Len(lines) = Len(rows) + 1 /\ lines[Len(rows) + 1] = r
            /\ \A i \in 1..Len(rows) : lines[i] = rows[i]
        BY <2>1, <3>1, <3>2, AppendProperties
      <4>2. Len(rows) \in Nat /\ DOMAIN rows = 1..Len(rows) /\ DOMAIN lines = 1..(Len(rows) + 1)
        BY <2>1, <4>1, LenProperties
      <4> QED BY <4>1, <4>2
    <3>4. \A i \in DOMAIN lines : lines[i].at <= clock + 1 /\ (Agent[u] = "devin" => lines[i].at > 0)
      BY <2>1, <2>4, <3>1, <3>3
    <3>5. \A x : Newer(RowsOf(rows, x), RowsOf(lines, x), clock)
      BY <2>1, <3>1, <3>2, RowBehind
    <3> QED BY <2>1, <2>2, <3>3, <3>4, <3>5, WriteAges DEF Write, rows
  <2> QED BY <2>2, <2>5, <2>6
<1>3. ASSUME NEW u \in Units, NEW v \in Units, Archive(u, v)
      PROVE  Ages({}) /\ UNCHANGED <<db, ing, ingested, doubt, ahead>>
  <2>1. /\ clock' = clock + 1 /\ disk' = [disk EXCEPT ![v] = disk[u], ![u] = Absent]
        /\ disk[u] # Absent /\ disk[v] = Absent /\ Agent[u] = "codex" /\ Agent[v] = "codex"
        /\ Conv[u] = Conv[v] /\ UNCHANGED <<db, ing, ingested, doubt, ahead>>
    BY <1>3 DEF Archive
  <2>2. DOMAIN disk = Units /\ clock \in Nat
    BY DEF IngestInv, DiskTyped
  <2>3. /\ u # v /\ disk'[u] = Absent /\ disk'[v] = disk[u]
        /\ \A w \in Units \ {u, v} : disk'[w] = disk[w]
    BY <2>1, <2>2
  <2>4. \A w \in Units : disk[w] # Absent => disk[w].mtime \in Nat /\ disk[w].mtime <= clock
    <3>1. \A w \in Units : disk[w] # Absent => disk[w] \in Written
      BY DEF IngestInv, DiskTyped
    <3> QED BY <3>1 DEF Timed, Written
  <2> DEFINE From(w) == IF w = v THEN u ELSE w
  <2>5. ASSUME NEW w \in Units, disk'[w] # Absent
        PROVE  w # u /\ From(w) \in Copies(w) /\ disk'[w] = disk[From(w)]
    BY <2>1, <2>3, <2>5 DEF Copies
  <2>6. ASSUME NEW w \in Units, disk'[w] # Absent
        PROVE  /\ disk'[w].mtime <= clock + 1
               /\ \A x \in Units : disk'[x] # Absent /\ disk'[x].mtime = disk'[w].mtime => x = w
    <3>1. disk'[w] = disk[From(w)] /\ From(w) \in Units /\ w # u
      BY <2>5, <2>6
    <3>2. disk'[w].mtime <= clock /\ disk'[w].mtime \in Nat
      BY <2>4, <2>6, <3>1
    <3>3. ASSUME NEW x \in Units, disk'[x] # Absent, disk'[x].mtime = disk'[w].mtime
          PROVE  x = w
      <4>1. disk'[x] = disk[From(x)] /\ From(x) \in Units /\ x # u
        BY <2>5, <3>3
      <4>2. From(x) = From(w)
        BY <2>6, <3>1, <3>3, <4>1 DEF Timed
      <4> QED BY <3>1, <4>1, <4>2
    <3> QED BY <2>2, <3>2, <3>3
  <2>7. ASSUME NEW w \in Units, ~IsFile(w)
        PROVE  disk'[w] = disk[w] /\ RowsIn(disk', w) = RowsIn(disk, w)
    <3>1. Agent[w] # "codex"
      BY <2>7, IngestAssumption DEF IsFile, Databases, Agents
    <3>2. w \in Units \ {u, v}
      BY <2>1, <3>1
    <3>3. disk'[w] = disk[w]
      BY <2>3, <3>2
    <3> QED BY <3>3 DEF RowsIn
  <2>8. ASSUME NEW w \in Units, ~IsFile(w), NEW s
        PROVE  Newer(RowsOf(RowsIn(disk, w), s), RowsOf(RowsIn(disk', w), s), clock)
    <3> DEFINE rows == RowsOf(RowsIn(disk, w), s)
    <3>1. RowsIn(disk, w) \in Seq(Records)
      BY ContentRows
    <3>2. rows \in Seq(Records) /\ RowsOf(RowsIn(disk', w), s) = rows
      BY <2>7, <2>8, <3>1, RowsTyped
    <3> HIDE DEF rows
    <3> QED BY <3>2, NewerSame DEF rows
  <2>9. Timed(disk', clock')
    <3>1. \A w \in Units : Agent[w] = "devin" => ~IsFile(w)
      BY DEF IsFile, Databases
    <3> QED BY <2>1, <2>6, <2>7, <3>1 DEF Timed
  <2>10. \A w \in Units : disk'[w] # Absent =>
           \E x \in Copies(w) : disk[x] # Absent /\ disk'[w] = disk[x]
    BY <2>5
  <2>11. Aged(disk, clock, disk', clock', {})
    <3>1. clock \in Nat /\ clock' \in Nat /\ clock <= clock'
      BY <2>1, <2>2
    <3> QED BY <2>8, <2>10, <3>1 DEF Aged
  <2> QED BY <2>1, <2>9, <2>11
<1>4. ASSUME Ages({}), UNCHANGED <<db, ing, ingested, doubt, ahead>>
      PROVE  /\ ahead \subseteq ahead' /\ UNCHANGED <<db, ing, ingested, doubt>>
             /\ Ages(ahead')
  BY <1>4 DEF Aged
<1>5. ASSUME NEW u \in Units, LateRow(u)
      PROVE  /\ ahead \subseteq ahead' /\ UNCHANGED <<db, ing, ingested, doubt>>
             /\ Ages(ahead')
  BY <1>5, LateRowAges, LateRowIs
<1> QED BY <1>1, <1>2, <1>3, <1>4, <1>5 DEF Tools

----------------------------------------------------------------------------
(* What a pass saw of its units.                                           *)

\* A modification time that was once that of the unit, or is older.
Seen(dk, now, u, m) ==
    /\ m \in Int /\ m <= now
    /\ IsFile(u) => \A w \in Units : dk[w] # Absent =>
         /\ w \in Copies(u) => m <= dk[w].mtime
         /\ dk[w].mtime = m => w \in Copies(u)

\* TailHash, on any disk.
TailIn(dk, u, end) ==
    IF dk[u] = Absent \/ end > Len(dk[u].lines) THEN None
    ELSE SubSeq(dk[u].lines, Max({1, end + 1 - Window}), end)

(***************************************************************************)
(* Of a file not written since it was discovered: the resume point is      *)
(* behind what is there, and what was parsed is what is there.             *)
(***************************************************************************)
FileFresh(dk, w, job) ==
    /\ Appends(job) => job.old.cursor = None \/ TailIn(dk, w, job.old.bytes) = job.old.cursor
    /\ job.pc \in {"cursor", "store"} =>
         /\ RowsIn(dk, w) = job.prefix
         /\ Appends(job) /\ ~job.fooled => IsPrefix(job.base, job.prefix)

\* Whose sessions a parse gives: codex resumes the one its file names.
Named(job) ==
    /\ \A n \in DOMAIN job.sessions : job.sessions[n].conv \in Conv[job.unit] \cup {job.unit}
    /\ Agent[job.unit] = "codex" /\ Appends(job) =>
         /\ Len(job.sessions) = 1
         /\ job.prefix # <<>> => job.sessions[1].conv = job.prefix[1].conv

\* Rows of a session that no parse since that cursor gives.
Older(rows, s, c) == \A i \in DOMAIN rows : rows[i].conv = s => rows[i].at <= c

(***************************************************************************)
(* Of a database: a cursor is a time that is past, and the sessions not    *)
(* parsed have no message later than the recorded one.                     *)
(***************************************************************************)
RowsFresh(now, job) ==
    /\ job.pc # "cursor"
    /\ job.old # None /\ job.old.cursor # None => Past(now, job.old.cursor)
    /\ job.change.kind = "appended" => job.old # None /\ job.old.cursor # None
    /\ job.pc \in {"select", "store"} => job.cursor = None \/ Past(now, job.cursor)
    /\ job.pc = "store" =>
         \A s \in ConvsOf(job.prefix) \ ConvsOf(job.sessions) :
            job.change.kind = "appended" /\ Older(job.prefix, s, job.old.cursor)

JobFresh(dk, now, job) ==
    /\ \A u \in DOMAIN job.seen : Seen(dk, now, u, job.seen[u].mtime)
    /\ job.pc \notin {"idle", "unit"} =>
         /\ job.unit \in DOMAIN job.seen
         /\ IsFile(job.unit) =>
              /\ job.old # None => Seen(dk, now, job.unit, job.old.mtime)
              /\ \A w \in Units : dk[w] # Absent /\ dk[w].mtime = job.seen[job.unit].mtime =>
                   FileFresh(dk, w, job)
              /\ job.pc \in {"cursor", "store"} => Named(job)
         /\ ~IsFile(job.unit) => RowsFresh(now, job)

StatesSeen(d, dk, now) ==
    \A u \in Units : LET st == IngestState(d, u)
                     IN  st # None =>
                           /\ IsFile(u) => Seen(dk, now, u, st.mtime)
                           /\ ~IsFile(u) /\ st.cursor # None => Past(now, st.cursor)

\* A time that was seen is seen for ever.
LEMMA SeenAges ==
    ASSUME NEW dk, NEW now, NEW e \in [Units -> {Absent} \cup Written], NEW then,
           NEW late, Aged(dk, now, e, then, late), NEW u \in Units, NEW m, Seen(dk, now, u, m)
    PROVE  Seen(e, then, u, m)
<1>1. now \in Nat /\ then \in Nat /\ now <= then /\ m \in Int /\ m <= now
  BY DEF Aged, Seen
<1>2. ASSUME IsFile(u), NEW w \in Units, e[w] # Absent
      PROVE  /\ w \in Copies(u) => m <= e[w].mtime
             /\ e[w].mtime = m => w \in Copies(u)
  <2>1. e[w].mtime \in Nat
    BY <1>2 DEF Written
  <2>2. CASE e[w].mtime > now
    BY <1>1, <2>1, <2>2
  <2>3. ASSUME NEW v \in Copies(w), dk[v] # Absent, e[w].mtime = dk[v].mtime
        PROVE  /\ w \in Copies(u) => m <= e[w].mtime
               /\ e[w].mtime = m => w \in Copies(u)
    <3>1. v \in Units /\ Copies(v) = Copies(w) /\ w \in Copies(w)
      BY <2>3, CopiesOfCopies
    <3>2. w \in Copies(u) => Copies(w) = Copies(u)
      BY CopiesOfCopies
    <3>3. v \in Copies(u) => Copies(v) = Copies(u)
      BY CopiesOfCopies
    <3>4. w \in Copies(u) <=> v \in Copies(u)
      BY <2>3, <3>1, <3>2, <3>3
    <3> QED BY <1>2, <2>3, <3>1, <3>4 DEF Seen
  <2> QED BY <1>2, <2>2, <2>3 DEF Aged
<1>3. m <= then
  BY <1>1
<1> QED BY <1>1, <1>2, <1>3 DEF Seen

\* A file that has an old time has not been written since.
LEMMA UnwrittenStill ==
    ASSUME NEW dk, NEW now, NEW e \in [Units -> {Absent} \cup Written], NEW then,
           NEW late, Aged(dk, now, e, then, late), NEW u \in Units, IsFile(u),
           NEW m, Seen(dk, now, u, m), NEW w \in Units, e[w] # Absent, e[w].mtime = m
    PROVE  \E v \in Copies(w) : v \in Units /\ dk[v] # Absent /\ e[w] = dk[v]
<1>1. now \in Nat /\ m \in Int /\ ~(m > now)
  BY DEF Aged, Seen
<1>2. Seen(e, then, u, m)
  BY SeenAges
<1>3. IsFile(w)
  BY <1>2, CopiesOfCopies DEF Seen
<1>4. PICK v \in Copies(w) : dk[v] # Absent /\ e[w] = dk[v]
  BY <1>1, <1>3 DEF Aged
<1> QED BY <1>4, CopiesOfCopies

LEMMA FileFreshSame ==
    ASSUME NEW dk, NEW e, NEW w, NEW v, e[w] = dk[v], NEW job, FileFresh(dk, v, job)
    PROVE  FileFresh(e, w, job)
<1>1. RowsIn(e, w) = RowsIn(dk, v)
  BY DEF RowsIn
<1>2. \A end : TailIn(e, w, end) = TailIn(dk, v, end)
  BY DEF TailIn
<1> QED BY <1>1, <1>2 DEF FileFresh

LEMMA JobAges ==
    ASSUME NEW dk, NEW now, DiskSound(dk, now),
           NEW e \in [Units -> {Absent} \cup Written], NEW then,
           NEW late, Aged(dk, now, e, then, late), NEW job, Job(job), JobFresh(dk, now, job)
    PROVE  JobFresh(e, then, job)
<1>1. ASSUME NEW u \in DOMAIN job.seen
      PROVE  Seen(e, then, u, job.seen[u].mtime)
  <2>1. u \in Units /\ Seen(dk, now, u, job.seen[u].mtime)
    BY DEF Job, JobType, JobFresh
  <2> QED BY <2>1, SeenAges
<1>2. ASSUME job.pc \notin {"idle", "unit"}
      PROVE  job.unit \in DOMAIN job.seen /\ job.unit \in Units
  BY <1>2 DEF JobFresh, Job, JobType
<1>3. ASSUME job.pc \notin {"idle", "unit"}, IsFile(job.unit)
      PROVE  /\ job.old # None => Seen(e, then, job.unit, job.old.mtime)
             /\ \A w \in Units : e[w] # Absent /\ e[w].mtime = job.seen[job.unit].mtime =>
                  FileFresh(e, w, job)
             /\ job.pc \in {"cursor", "store"} => Named(job)
  <2> DEFINE u == job.unit
             m == job.seen[u].mtime
             old == job.old
  <2>1. /\ old # None => Seen(dk, now, u, old.mtime)
        /\ \A w \in Units : dk[w] # Absent /\ dk[w].mtime = m => FileFresh(dk, w, job)
        /\ job.pc \in {"cursor", "store"} => Named(job)
        /\ Seen(dk, now, u, m) /\ u \in Units /\ IsFile(u)
    BY <1>2, <1>3 DEF JobFresh
  <2> HIDE DEF u, m, old
  <2>2. old # None => Seen(e, then, u, old.mtime)
    BY <2>1, SeenAges
  <2>3. ASSUME NEW w \in Units, e[w] # Absent, e[w].mtime = m
        PROVE  FileFresh(e, w, job)
    <3>1. PICK v \in Copies(w) : v \in Units /\ dk[v] # Absent /\ e[w] = dk[v]
      BY <2>1, <2>3, UnwrittenStill
    <3>2. FileFresh(dk, v, job)
      BY <2>1, <2>3, <3>1
    <3> QED BY <3>1, <3>2, FileFreshSame
  <2> QED BY <2>1, <2>2, <2>3 DEF u, m, old
<1>4. ASSUME job.pc \notin {"idle", "unit"}, ~IsFile(job.unit)
      PROVE  RowsFresh(then, job)
  <2>1. RowsFresh(now, job)
    BY <1>4 DEF JobFresh
  <2>2. \A c : Past(now, c) => Past(then, c)
    BY DEF Aged, Past
  <2> QED BY <2>1, <2>2 DEF RowsFresh
<1> QED BY <1>1, <1>2, <1>3, <1>4 DEF JobFresh

LEMMA StatesAge ==
    ASSUME NEW d, NEW dk, NEW now, DiskSound(dk, now),
           NEW e \in [Units -> {Absent} \cup Written], NEW then,
           NEW late, Aged(dk, now, e, then, late), StatesSeen(d, dk, now)
    PROVE  StatesSeen(d, e, then)
<1> SUFFICES ASSUME NEW u \in Units, IngestState(d, u) # None
             PROVE  /\ IsFile(u) => Seen(e, then, u, IngestState(d, u).mtime)
                    /\ ~IsFile(u) /\ IngestState(d, u).cursor # None =>
                         Past(then, IngestState(d, u).cursor)
  BY DEF StatesSeen
<1> DEFINE st == IngestState(d, u)
<1>1. /\ IsFile(u) => Seen(dk, now, u, st.mtime)
      /\ ~IsFile(u) /\ st.cursor # None => Past(now, st.cursor)
  BY DEF StatesSeen
<1> HIDE DEF st
<1>2. IsFile(u) => Seen(e, then, u, st.mtime)
  BY <1>1, SeenAges
<1>3. \A c : Past(now, c) => Past(then, c)
  BY DEF Aged, Past
<1> QED BY <1>1, <1>2, <1>3 DEF st

\* The time of a unit that is there.
LEMMA SeenNow ==
    ASSUME IngestInv, DiskSound(disk, clock), Timed(disk, clock),
           NEW u \in Units, disk[u] # Absent
    PROVE  Seen(disk, clock, u, disk[u].mtime)
<1>1. disk[u].mtime \in Nat /\ disk[u].mtime <= clock
  BY DEF IngestInv, DiskTyped, Written, Timed
<1>2. ASSUME NEW w \in Units, disk[w] # Absent
      PROVE  /\ w \in Copies(u) => disk[u].mtime <= disk[w].mtime
             /\ disk[w].mtime = disk[u].mtime => w \in Copies(u)
  <2>1. w \in Copies(u) => w = u
    BY <1>2 DEF DiskSound, Copies
  <2>2. disk[w].mtime = disk[u].mtime => w = u
    BY <1>2 DEF Timed
  <2>3. u \in Copies(u)
    BY DEF Copies
  <2> QED BY <1>1, <2>1, <2>2, <2>3
<1> QED BY <1>1, <1>2 DEF Seen

\* A file that is there and was not written since is the unit itself.
LEMMA SeenSame ==
    ASSUME DiskSound(disk, clock), NEW u \in Units, IsFile(u), disk[u] # Absent,
           NEW m, Seen(disk, clock, u, m), NEW w \in Units, disk[w] # Absent, disk[w].mtime = m
    PROVE  w = u
<1>1. w \in Copies(u)
  BY DEF Seen
<1> QED BY <1>1 DEF DiskSound, Copies

LEMMA RestingFresh ==
    ASSUME NEW dk, NEW now, NEW job, job.pc \in {"idle", "unit"},
           \A u \in DOMAIN job.seen : Seen(dk, now, u, job.seen[u].mtime)
    PROVE  JobFresh(dk, now, job)
  BY DEF JobFresh

LEMMA NextUnitFresh ==
    ASSUME NEW dk, NEW now, NEW job, DOMAIN job = Fields,
           \A u \in DOMAIN job.seen : Seen(dk, now, u, job.seen[u].mtime)
    PROVE  JobFresh(dk, now, NextUnit(job))
<1> DEFINE next == NextUnit(job)
           seen == job.seen
           ids == {job.unit}
           rest == Without(seen, ids)
<1>1. next.pc = "unit" /\ next.seen = rest
  BY DEF NextUnit, Fields
<1> HIDE DEF next, seen, ids
<1>2. DOMAIN rest = DOMAIN seen \ ids /\ \A u \in DOMAIN seen \ ids : rest[u] = seen[u]
  BY WithoutRows
<1> HIDE DEF rest
<1>3. \A u \in DOMAIN rest : u \in DOMAIN seen /\ rest[u] = seen[u]
  BY <1>2
<1>4. JobFresh(dk, now, next)
  BY <1>1, <1>3, RestingFresh DEF seen
<1> QED BY <1>4 DEF next

\* The invariant, and what of it a step of a pass that stores nothing changes.
FreshInv ==
    /\ IngestInv
    /\ DiskSound(disk, clock)
    /\ Timed(disk, clock)
    /\ StatesSeen(db, disk, clock)
    /\ \A i \in Ingesters : JobFresh(disk, clock, ing[i])

LEMMA StartFresh ==
    ASSUME FreshInv, NEW i \in Ingesters, Start(i)
    PROVE  \E next : ing' = [ing EXCEPT ![i] = next] /\ JobFresh(disk, clock, next)
<1>1. PICK agent \in Agents :
        ing' = [ing EXCEPT ![i] =
                  [Idle EXCEPT !.pc = "unit", !.agent = agent, !.seen = Discover(agent)]]
  BY DEF Start
<1> DEFINE job == [Idle EXCEPT !.pc = "unit", !.agent = agent, !.seen = Discover(agent)]
<1>2. job.pc = "unit" /\ job.seen = Discover(agent)
  BY IdleTyped DEF Fields
<1>3. ing' = [ing EXCEPT ![i] = job]
  BY <1>1
<1> HIDE DEF job
<1>4. ASSUME NEW u \in DOMAIN job.seen
      PROVE  Seen(disk, clock, u, job.seen[u].mtime)
  <2>1. u \in Units /\ disk[u] # Absent /\ job.seen[u].mtime = disk[u].mtime
    BY <1>2, <1>4 DEF Discover, Stamp
  <2> QED BY <2>1, SeenNow DEF FreshInv
<1>5. JobFresh(disk, clock, job)
  BY <1>2, <1>4, RestingFresh
<1> QED BY <1>3, <1>5

\* A file is appended to when the tail is still what it was, a database when
\* it has a cursor.
LEMMA ClassifyAppended ==
    ASSUME NEW u, NEW seen, NEW st, Classify(u, seen, st).kind = "appended"
    PROVE  /\ IsFile(u) => AppendValid(u, st)
           /\ ~IsFile(u) => st # None /\ st.cursor # None
<1>1. New.kind = "new" /\ Rewritten.kind = "rewritten" /\ Unchanged.kind = "unchanged"
  BY DEF New, Rewritten, Unchanged
<1>2. CASE ~IsFile(u)
  <2>1. ClassifyDatabase(u, st).kind = "appended"
    BY <1>2 DEF Classify
  <2>2. st # None /\ st.cursor # None
    BY <1>1, <2>1 DEF ClassifyDatabase
  <2> QED BY <1>2, <2>2
<1>3. CASE IsFile(u)
  <2> DEFINE change == ClassifyFile(seen, st)
  <2>1. Classify(u, seen, st) =
          IF change.kind = "appended" /\ ~AppendValid(u, st) THEN Rewritten ELSE change
    BY <1>3 DEF Classify
  <2> HIDE DEF change
  <2> QED BY <1>1, <1>3, <2>1
<1> QED BY <1>2, <1>3

LEMMA TakeFresh ==
    ASSUME FreshInv, NEW i \in Ingesters, Take(i)
    PROVE  \E next : ing' = [ing EXCEPT ![i] = next] /\ JobFresh(disk, clock, next)
<1> DEFINE job == ing[i]
<1>1. /\ Job(job) /\ job.pc = "unit" /\ DOMAIN job = Fields
      /\ \A u \in DOMAIN job.seen : Seen(disk, clock, u, job.seen[u].mtime)
  BY IdleTyped DEF FreshInv, IngestInv, Take, Job, JobFresh
<1>2. PICK u \in DOMAIN job.seen :
        LET st == IngestState(db, u)
            change == Classify(u, job.seen[u], st)
        IN  ing' = [ing EXCEPT ![i] =
               IF change = Unchanged THEN NextUnit([job EXCEPT !.unit = u])
               ELSE [job EXCEPT !.pc = "parse", !.unit = u, !.old = st,
                                !.change = change, !.base = Behind(u)]]
  BY Zenon DEF Take
<1> DEFINE st == IngestState(db, u)
           change == Classify(u, job.seen[u], st)
           named == [job EXCEPT !.unit = u]
           skipped == NextUnit(named)
           taken == [job EXCEPT !.pc = "parse", !.unit = u, !.old = st,
                                !.change = change, !.base = Behind(u)]
<1>3. ing' = [ing EXCEPT ![i] = IF change = Unchanged THEN skipped ELSE taken]
  BY Zenon, <1>2
<1>4. u \in Units
  BY <1>1, <1>2 DEF Job, JobType
<1>5. change.kind = "appended" => /\ IsFile(u) => AppendValid(u, st)
                                  /\ ~IsFile(u) => st # None /\ st.cursor # None
  BY ClassifyAppended
<1>6. st # None => /\ IsFile(u) => Seen(disk, clock, u, st.mtime)
                   /\ ~IsFile(u) /\ st.cursor # None => Past(clock, st.cursor)
  BY <1>4 DEF FreshInv, StatesSeen
<1> HIDE DEF job, st, change
<1>7. JobFresh(disk, clock, skipped)
  <2>1. DOMAIN named = Fields /\ named.seen = job.seen
    BY <1>1 DEF Fields
  <2> HIDE DEF named
  <2> QED BY <1>1, <2>1, NextUnitFresh
<1>8. JobFresh(disk, clock, taken)
  <2>1. /\ taken.pc = "parse" /\ taken.unit = u /\ taken.old = st /\ taken.seen = job.seen
        /\ taken.change = change
    BY <1>1 DEF Fields
  <2> HIDE DEF taken
  <2>2. ASSUME IsFile(u), NEW w \in Units, disk[w] # Absent, disk[w].mtime = job.seen[u].mtime,
               Appends(taken)
        PROVE  st.cursor = None \/ TailIn(disk, w, st.bytes) = st.cursor
    <3>1. st.cursor = None \/ TailHash(u, st.bytes) = st.cursor
      BY <1>5, <2>1, <2>2 DEF Appends, AppendValid
    <3>2. ASSUME st.cursor # None
          PROVE  TailIn(disk, w, st.bytes) = st.cursor
      <4>1. disk[u] # Absent
        BY <3>1, <3>2 DEF TailHash
      <4>2. w = u
        BY <1>1, <1>4, <2>2, <4>1, SeenSame DEF FreshInv
      <4>3. TailIn(disk, u, st.bytes) = TailHash(u, st.bytes)
        BY DEF TailIn, TailHash
      <4> QED BY <3>1, <3>2, <4>2, <4>3
    <3> QED BY <3>2
  <2>3. ASSUME IsFile(u), NEW w \in Units, disk[w] # Absent, disk[w].mtime = job.seen[u].mtime
        PROVE  FileFresh(disk, w, taken)
    BY <2>1, <2>2, <2>3 DEF FileFresh
  <2>4. ~IsFile(u) => RowsFresh(clock, taken)
    BY <1>5, <1>6, <2>1 DEF RowsFresh
  <2> QED BY <1>1, <1>2, <1>6, <2>1, <2>3, <2>4 DEF JobFresh
<1> HIDE DEF skipped, taken
<1>9. JobFresh(disk, clock, IF change = Unchanged THEN skipped ELSE taken)
  BY <1>7, <1>8
<1> QED BY <1>3, <1>9

LEMMA SnapshotCursorFresh ==
    ASSUME FreshInv, NEW i \in Ingesters, SnapshotCursor(i)
    PROVE  \E next : ing' = [ing EXCEPT ![i] = next] /\ JobFresh(disk, clock, next)
<1> DEFINE job == ing[i]
           u == job.unit
           c == MaxCursor(u)
           next == [job EXCEPT !.pc = "select", !.cursor = c]
<1>1. /\ Job(job) /\ job.pc = "parse" /\ ing' = [ing EXCEPT ![i] = next] /\ ~IsFile(u)
      /\ JobFresh(disk, clock, job)
  BY DEF FreshInv, IngestInv, SnapshotCursor
<1>2. u \in Units
  BY <1>1 DEF Job, JobType
<1>3. c = None \/ Past(clock, c)
  <2>1. disk[u] # Absent => disk[u].mtime \in Nat /\ disk[u].mtime <= clock
    BY <1>2 DEF FreshInv, IngestInv, DiskTyped, Written, Timed
  <2> QED BY <2>1 DEF MaxCursor, Past
<1> HIDE DEF job, c
<1>4. /\ next.pc = "select" /\ next.cursor = c /\ next.unit = u /\ next.old = job.old
      /\ next.change = job.change /\ next.seen = job.seen
  BY <1>1, IdleTyped DEF Job, Fields
<1> HIDE DEF next
<1>5. RowsFresh(clock, next)
  BY <1>1, <1>3, <1>4 DEF JobFresh, RowsFresh
<1>6. JobFresh(disk, clock, next)
  BY <1>1, <1>4, <1>5 DEF JobFresh
<1> QED BY <1>1, <1>6

\* Going on with the same reading of the unit.
LEMMA SameReading ==
    ASSUME NEW dk, NEW now, NEW job, JobFresh(dk, now, job), job.pc \in {"cursor", "store"},
           NEW next, next.pc = "store", job.pc = "cursor" => IsFile(job.unit),
           next.unit = job.unit, next.old = job.old, next.change = job.change,
           next.seen = job.seen, next.sessions = job.sessions, next.prefix = job.prefix,
           next.base = job.base, next.fooled = job.fooled,
           IsFile(job.unit) \/ next.cursor = job.cursor
    PROVE  JobFresh(dk, now, next)
<1>1. Appends(next) <=> Appends(job)
  BY DEF Appends
<1>2. \A w : FileFresh(dk, w, job) => FileFresh(dk, w, next)
  BY <1>1 DEF FileFresh
<1>3. Named(job) => Named(next)
  BY <1>1 DEF Named
<1>4. ~IsFile(job.unit) => RowsFresh(now, next)
  <2> SUFFICES ASSUME ~IsFile(job.unit) PROVE RowsFresh(now, next)
    OBVIOUS
  <2>1. RowsFresh(now, job) /\ job.pc = "store" /\ next.cursor = job.cursor
    BY DEF JobFresh
  <2> QED BY <2>1 DEF RowsFresh
<1> QED BY <1>2, <1>3, <1>4 DEF JobFresh

LEMMA MakeCursorFresh ==
    ASSUME FreshInv, NEW i \in Ingesters, MakeCursor(i)
    PROVE  \E next : ing' = [ing EXCEPT ![i] = next] /\ JobFresh(disk, clock, next)
<1> DEFINE job == ing[i]
           c == TailHash(job.unit, Consumed(job))
           next == [job EXCEPT !.pc = "store", !.cursor = c]
<1>1. /\ Job(job) /\ job.pc = "cursor" /\ ing' = [ing EXCEPT ![i] = next]
      /\ JobFresh(disk, clock, job)
  BY DEF FreshInv, IngestInv, MakeCursor
<1> HIDE DEF job, c
<1>2. IsFile(job.unit)
  BY <1>1 DEF JobFresh, RowsFresh
<1>3. /\ next.pc = "store" /\ next.unit = job.unit /\ next.old = job.old
      /\ next.change = job.change /\ next.seen = job.seen /\ next.sessions = job.sessions
      /\ next.prefix = job.prefix /\ next.base = job.base /\ next.fooled = job.fooled
  BY <1>1, IdleTyped DEF Job, Fields
<1> HIDE DEF next
<1>4. JobFresh(disk, clock, next)
  BY <1>1, <1>2, <1>3, SameReading
<1> QED BY <1>1, <1>4

LEMMA NextSessionFresh ==
    ASSUME NEW dk, NEW now, NEW job, Job(job), job.pc = "store", JobFresh(dk, now, job)
    PROVE  JobFresh(dk, now, [job EXCEPT !.k = @ + 1])
<1> DEFINE next == [job EXCEPT !.k = @ + 1]
<1>1. /\ next.pc = "store" /\ next.unit = job.unit /\ next.old = job.old
      /\ next.change = job.change /\ next.seen = job.seen /\ next.sessions = job.sessions
      /\ next.prefix = job.prefix /\ next.base = job.base /\ next.fooled = job.fooled
      /\ next.cursor = job.cursor
  BY IdleTyped DEF Job, Fields
<1> HIDE DEF next
<1>2. JobFresh(dk, now, next)
  BY <1>1, SameReading
<1> QED BY <1>2 DEF next

LEMMA ParseFailsFresh ==
    ASSUME FreshInv, NEW i \in Ingesters, ParseFails(i)
    PROVE  \E next : ing' = [ing EXCEPT ![i] = next] /\ JobFresh(disk, clock, next)
<1> DEFINE job == ing[i]
<1>1. /\ DOMAIN job = Fields /\ ing' = [ing EXCEPT ![i] = NextUnit(job)]
      /\ \A u \in DOMAIN job.seen : Seen(disk, clock, u, job.seen[u].mtime)
  BY IdleTyped DEF FreshInv, IngestInv, ParseFails, Job, JobFresh
<1> HIDE DEF job
<1> QED BY <1>1, NextUnitFresh

LEMMA AbortFresh ==
    ASSUME FreshInv, NEW i \in Ingesters, ing' = [ing EXCEPT ![i] = Idle]
    PROVE  \E next : ing' = [ing EXCEPT ![i] = next] /\ JobFresh(disk, clock, next)
<1>1. Idle.pc = "idle" /\ DOMAIN Idle.seen = {}
  BY DEF Idle
<1>2. JobFresh(disk, clock, Idle)
  BY <1>1, RestingFresh
<1> QED BY <1>2

\* Whose sessions a parse of a file gives.
LEMMA ParseNames ==
    ASSUME IngestInv, DiskSound(disk, clock), NEW u \in Units, disk[u] # Absent, IsFile(u),
           NEW change, change.from \in Nat, NEW st
    PROVE  LET sessions == Parse(u, change, st)
               lines == disk[u].lines
           IN  /\ \A n \in DOMAIN sessions : sessions[n].conv \in Conv[u] \cup {u}
               /\ Agent[u] = "codex" /\ change.kind = "appended" =>
                    /\ Len(sessions) = 1
                    /\ lines # <<>> => sessions[1].conv = lines[1].conv
<1> DEFINE sessions == Parse(u, change, st)
           lines == disk[u].lines
           read == LinesFrom(u, change.from)
<1>1. disk[u] \in Written /\ RowsIn(disk, u) = lines
  BY DEF IngestInv, DiskTyped, RowsIn
<1>2. lines \in Seq(Records) /\ \A i \in DOMAIN lines : lines[i].conv \in Conv[u]
  BY <1>1, ContentRows DEF Own
<1>3. read \in Seq(Records) /\ \A i \in DOMAIN read : \E j \in DOMAIN lines : read[i] = lines[j]
  BY <1>1, LinesAre
<1>4. Agent[u] \in Agents \ Databases
  BY DEF Agents, IsFile
<1>5. ASSUME NEW s, NEW n \in DOMAIN OneSession(u, change, s)
      PROVE  OneSession(u, change, s)[n].conv = s
  <2> DEFINE one == <<[conv |-> s, turns |-> [i \in DOMAIN read |-> read[i].text]]>>
  <2>1. OneSession(u, change, s) = <<>> \/ OneSession(u, change, s) = one
    BY DEF OneSession
  <2>2. DOMAIN <<>> = {} /\ DOMAIN one = {1} /\ one[1].conv = s
    OBVIOUS
  <2> HIDE DEF one
  <2> QED BY <1>5, <2>1, <2>2
<1>6. CASE Agent[u] \in {"claude", "cursor"}
  <2>1. PICK s \in Conv[u] : Conv[u] = {s}
    BY <1>6, IngestAssumption
  <2>2. (CHOOSE c \in Conv[u] : TRUE) = s
    BY <2>1
  <2>3. sessions = OneSession(u, change, s)
    BY <1>6, <2>2 DEF Parse, ParseClaude, ParseCursor
  <2> HIDE DEF sessions
  <2>4. \A n \in DOMAIN sessions : sessions[n].conv = s
    BY <1>5, <2>3
  <2> QED BY <1>6, <2>4 DEF sessions
<1>7. CASE Agent[u] = "codex"
  <2> DEFINE s == IF lines = <<>> THEN u ELSE lines[1].conv
  <2>1. sessions = OneSession(u, change, s)
    BY <1>7 DEF Parse, ParseCodex
  <2>2. s \in Conv[u] \cup {u}
    <3> HIDE DEF lines
    <3>1. lines # <<>> => 1 \in DOMAIN lines
      BY <1>2
    <3> QED BY <1>2, <3>1
  <2>3. lines # <<>> => s = lines[1].conv
    OBVIOUS
  <2>4. change.kind = "appended" => Len(OneSession(u, change, s)) = 1 /\ 1 \in DOMAIN OneSession(u, change, s)
    BY DEF OneSession
  <2> HIDE DEF s, sessions, lines
  <2>5. \A n \in DOMAIN sessions : sessions[n].conv = s
    BY <1>5, <2>1
  <2> QED BY <2>1, <2>2, <2>3, <2>4, <2>5 DEF sessions, lines
<1>8. CASE Agent[u] = "gemini"
  <2>1. sessions = SessionsOf(read, ConvsOf(read))
    BY <1>8 DEF Parse, ParseGemini
  <2> HIDE DEF sessions, read, lines
  <2>2. \A n \in DOMAIN sessions : sessions[n].conv \in ConvsOf(read)
    BY <1>3, <2>1, SessionsCover
  <2>3. ConvsOf(read) \subseteq Conv[u]
    BY <1>2, <1>3 DEF ConvsOf
  <2> QED BY <1>8, <2>2, <2>3 DEF sessions
<1> QED BY <1>4, <1>6, <1>7, <1>8, IngestAssumption DEF Databases

\* Which sessions a parse of a database leaves out.
LEMMA ParseMisses ==
    ASSUME IngestInv, DiskSound(disk, clock), Timed(disk, clock), NEW u \in Units, ~IsFile(u),
           disk[u] # Absent, NEW change, NEW st,
           change.kind = "appended" => Past(clock, st.cursor),
           NEW s \in ConvsOf(disk[u].lines) \ ConvsOf(Parse(u, change, st))
    PROVE  change.kind = "appended" /\ Older(disk[u].lines, s, st.cursor)
<1> DEFINE rows == disk[u].lines
           least == IF Agent[u] = "devin" THEN 0 ELSE -1
           since == IF change.kind = "appended" THEN st.cursor ELSE least
           touched == {rows[i].conv : i \in {i \in DOMAIN rows : rows[i].at > since}}
<1>1. RowsIn(disk, u) = rows /\ Rows(u) = rows /\ rows \in Seq(Records)
  BY ContentRows DEF RowsIn, Rows
<1>2. Agent[u] \in {"opencode", "devin"}
  BY DEF IsFile, Databases
<1>3. Parse(u, change, st) = SessionsOf(rows, touched)
  <2>1. CASE Agent[u] = "opencode"
    BY <1>1, <2>1 DEF Parse, ParseOpencode
  <2>2. CASE Agent[u] = "devin"
    BY <1>1, <2>2 DEF Parse, ParseDevin
  <2> QED BY <1>2, <2>1, <2>2
<1>4. Agent[u] = "devin" => \A i \in DOMAIN rows : rows[i].at > 0
  BY <1>1 DEF Timed
<1>5. change.kind = "appended" => st.cursor \in Nat
  BY DEF Past
<1> DEFINE parsed == SessionsOf(rows, touched)
<1>6. s \in ConvsOf(rows) \ ConvsOf(parsed)
  BY <1>3
<1> HIDE DEF rows, touched, since
<1>7. \A i \in DOMAIN rows : rows[i].at \in Nat
  <2>1. \A i \in DOMAIN rows : rows[i] \in Records
    BY <1>1, LenProperties, ElementOfSeq
  <2> QED BY <2>1 DEF Records
<1>8. s \notin touched
  <2>1. \A x \in ConvsOf(rows) \cap touched : \E n \in DOMAIN parsed : parsed[n].conv = x
    <3>1. rows \in Seq(Records)
      BY <1>1
    <3> QED BY ONLY <3>1, SessionsCover
  <2> HIDE DEF parsed
  <2>2. \A x \in ConvsOf(rows) \cap touched : x \in ConvsOf(parsed)
    BY <2>1 DEF ConvsOf
  <2> QED BY <1>6, <2>2
<1>9. \A i \in DOMAIN rows : rows[i].conv = s => ~(rows[i].at > since)
  BY <1>8 DEF touched
<1>10. PICK i \in DOMAIN rows : rows[i].conv = s
  BY <1>6 DEF ConvsOf
<1>11. change.kind = "appended"
  <2> SUFFICES ASSUME change.kind # "appended" PROVE FALSE
    OBVIOUS
  <2>1. since = least
    BY DEF since
  <2>2. rows[i].at > least
    BY <1>4, <1>7, <1>10
  <2> QED BY <1>9, <1>10, <2>1, <2>2
<1>12. since = st.cursor /\ st.cursor \in Nat
  BY <1>5, <1>11 DEF since
<1>13. Older(rows, s, st.cursor)
  BY <1>7, <1>9, <1>12 DEF Older
<1> QED BY <1>11, <1>13 DEF rows

LEMMA ParseUnitFresh ==
    ASSUME FreshInv, NEW i \in Ingesters, ParseUnit(i)
    PROVE  \E next : ing' = [ing EXCEPT ![i] = next] /\ JobFresh(disk, clock, next)
<1> DEFINE job == ing[i]
           u == job.unit
           lines == disk[u].lines
           change == job.change
           old == job.old
           sessions == Parse(u, change, old)
           pc == IF IsFile(u) THEN "cursor" ELSE "store"
           fooled == Fooled(job)
           next == [job EXCEPT !.pc = pc, !.sessions = sessions, !.prefix = lines,
                               !.fooled = fooled]
<1>1. /\ Job(job) /\ job.pc \in {"select", "parse"} /\ disk[u] # Absent
      /\ ~IsFile(u) => job.pc = "select"
      /\ ing' = [ing EXCEPT ![i] = next]
      /\ JobFresh(disk, clock, job)
  BY DEF FreshInv, IngestInv, ParseUnit
<1>2. /\ u \in Units /\ change.from \in Nat /\ IngestInv /\ DiskSound(disk, clock)
      /\ Timed(disk, clock) /\ u \in DOMAIN job.seen
  BY <1>1 DEF Job, JobType, FreshInv, JobFresh
<1>3. RowsIn(disk, u) = lines /\ lines \in Seq(Records)
  BY <1>1, <1>2, ContentRows DEF RowsIn
<1>4. IsFile(u) => /\ \A n \in DOMAIN sessions : sessions[n].conv \in Conv[u] \cup {u}
                   /\ Agent[u] = "codex" /\ change.kind = "appended" =>
                        /\ Len(sessions) = 1
                        /\ lines # <<>> => sessions[1].conv = lines[1].conv
  <2> DEFINE parsed == Parse(u, change, old)
  <2>1. parsed = sessions
    OBVIOUS
  <2> HIDE DEF u, change, old
  <2>2. IsFile(u) => /\ \A n \in DOMAIN parsed : parsed[n].conv \in Conv[u] \cup {u}
                     /\ Agent[u] = "codex" /\ change.kind = "appended" =>
                          /\ Len(parsed) = 1
                          /\ lines # <<>> => parsed[1].conv = lines[1].conv
    BY <1>1, <1>2, ParseNames
  <2> HIDE DEF parsed, sessions
  <2> QED BY <2>1, <2>2
<1>5. ASSUME ~IsFile(u)
      PROVE  /\ RowsFresh(clock, job)
             /\ \A s \in ConvsOf(lines) \ ConvsOf(sessions) :
                  change.kind = "appended" /\ Older(lines, s, old.cursor)
  <2>1. RowsFresh(clock, job)
    BY <1>1, <1>5 DEF JobFresh
  <2>2. change.kind = "appended" => Past(clock, old.cursor)
    BY <2>1 DEF RowsFresh
  <2> HIDE DEF u, change, old
  <2>3. \A s \in ConvsOf(disk[u].lines) \ ConvsOf(Parse(u, change, old)) :
          change.kind = "appended" /\ Older(disk[u].lines, s, old.cursor)
    BY <1>1, <1>2, <1>5, <2>2, ParseMisses
  <2> QED BY <2>1, <2>3
<1>6. ASSUME IsFile(u), NEW w \in Units, disk[w] # Absent, disk[w].mtime = job.seen[u].mtime
      PROVE  /\ w = u
             /\ Appends(job) => /\ old.cursor = None \/ TailIn(disk, w, old.bytes) = old.cursor
                                /\ ~fooled => IsPrefix(job.base, lines)
  <2>1. w = u
    <3>1. Seen(disk, clock, u, job.seen[u].mtime)
      BY <1>1, <1>2 DEF JobFresh
    <3> DEFINE m == job.seen[u].mtime
    <3> HIDE DEF u, m
    <3> QED BY <1>1, <1>2, <1>6, <3>1, SeenSame DEF m
  <2>2. FileFresh(disk, w, job)
    BY <1>1, <1>6 DEF JobFresh
  <2>3. Appends(job) => old.cursor = None \/ TailIn(disk, w, old.bytes) = old.cursor
    BY <2>2 DEF FileFresh
  <2>4. TailIn(disk, u, old.bytes) = TailHash(u, old.bytes)
    BY DEF TailIn, TailHash
  <2>5. Appends(job) => AppendValid(u, old)
    BY <2>1, <2>3, <2>4 DEF AppendValid
  <2>6. Appends(job) /\ ~fooled => IsPrefix(job.base, lines)
    BY <2>5 DEF Fooled, Appends
  <2> QED BY <2>1, <2>3, <2>6
<1> HIDE DEF job, u, lines, change, sessions, fooled, old
<1>8. /\ next.pc = pc /\ next.unit = u /\ next.old = old /\ next.change = change
      /\ next.sessions = sessions /\ next.prefix = lines /\ next.base = job.base
      /\ next.seen = job.seen /\ next.fooled = fooled /\ next.cursor = job.cursor
  BY <1>1, IdleTyped DEF Job, Fields, u, change, old
<1> HIDE DEF next
<1>9. /\ Appends(next) <=> Appends(job)
      /\ Appends(next) <=> IsFile(u) /\ change.kind = "appended"
  BY <1>8 DEF Appends, u, change
<1>10. ASSUME IsFile(u)
       PROVE  /\ \A w \in Units : disk[w] # Absent /\ disk[w].mtime = job.seen[u].mtime =>
                   FileFresh(disk, w, next)
              /\ Named(next)
  <2>1. ASSUME NEW w \in Units, disk[w] # Absent, disk[w].mtime = job.seen[u].mtime
        PROVE  FileFresh(disk, w, next)
    <3>1. /\ w = u
          /\ Appends(job) => /\ old.cursor = None \/ TailIn(disk, w, old.bytes) = old.cursor
                             /\ ~fooled => IsPrefix(job.base, lines)
      BY <1>6, <1>10, <2>1
    <3> QED BY <1>3, <1>8, <1>9, <3>1 DEF FileFresh
  <2>2. Named(next)
    BY <1>4, <1>8, <1>9, <1>10 DEF Named
  <2> QED BY <2>1, <2>2
<1>11. ~IsFile(u) => RowsFresh(clock, next)
  <2> SUFFICES ASSUME ~IsFile(u) PROVE RowsFresh(clock, next)
    OBVIOUS
  <2>1. RowsFresh(clock, job) /\ job.pc = "select" /\ next.pc = "store"
    BY <1>1, <1>5, <1>8
  <2>2. job.old = old /\ job.change = change
    BY DEF old, change
  <2> QED BY <1>5, <1>8, <2>1, <2>2 DEF RowsFresh
<1>12. IsFile(u) /\ old # None => Seen(disk, clock, u, old.mtime)
  BY <1>1 DEF JobFresh, u, old
<1>13. JobFresh(disk, clock, next)
  BY <1>1, <1>2, <1>8, <1>10, <1>11, <1>12 DEF JobFresh
<1> QED BY <1>1, <1>13

----------------------------------------------------------------------------
(* What the store has of the units that are not written any more.          *)

\* The turns of these lines are those in the store, except of some sessions.
Exact(d, lines, out) == \A s \in ConvsOf(lines) \ out : TextsOf(d, s) = TurnsOf(lines, s)

(***************************************************************************)
(* What a recorded state accounts for: a file that has its time, the lines *)
(* it stands for, the sessions of a database without a later message.      *)
(***************************************************************************)
Accounts(d, dk, v, st, lines, out) ==
    /\ IsFile(v) /\ st # None =>
         \A w \in Units : dk[w] # Absent /\ dk[w].mtime = st.mtime => Exact(d, RowsIn(dk, w), out)
    /\ IsFile(v) /\ Agent[v] # "codex" => Exact(d, lines, out)
    /\ ~IsFile(v) /\ st # None /\ st.cursor # None =>
         \A s \in ConvsOf(RowsIn(dk, v)) \ out :
             Older(RowsIn(dk, v), s, st.cursor) => TextsOf(d, s) = TurnsOf(RowsIn(dk, v), s)

Accounted(d, dk, hist, out) ==
    \A v \in Units : Accounts(d, dk, v, IngestState(d, v), Recorded(d, hist, v), out)

\* The sessions of an old time are those of the unit.
LEMMA SeenOwn ==
    ASSUME DiskSound(disk, clock), NEW v \in Units, IsFile(v), NEW m, Seen(disk, clock, v, m),
           NEW w \in Units, disk[w] # Absent, disk[w].mtime = m
    PROVE  w \in Copies(v) /\ ConvsOf(RowsIn(disk, w)) \subseteq Conv[v]
<1>1. w \in Copies(v)
  BY DEF Seen
<1>2. Conv[w] = Conv[v]
  BY <1>1 DEF Copies
<1>3. ConvsOf(RowsIn(disk, w)) \subseteq Conv[w]
  BY DEF DiskSound, Own, ConvsOf
<1> QED BY <1>1, <1>2, <1>3

(***************************************************************************)
(* A state that accounted for its unit still does, if of its sessions that *)
(* are not excused now none was before, and their turns are the same.      *)
(***************************************************************************)
LEMMA AccountsStill ==
    ASSUME DiskSound(disk, clock), NEW v \in Units, NEW st, NEW lines,
           IsFile(v) /\ st # None => Seen(disk, clock, v, st.mtime),
           IsFile(v) => Own(clock, v, lines),
           NEW d, NEW e, NEW out, NEW then,
           \A s \in Conv[v] \ then : /\ Accounts(d, disk, v, st, lines, out)
                                     /\ s \notin out
                                     /\ TextsOf(e, s) = TextsOf(d, s)
    PROVE  Accounts(e, disk, v, st, lines, then)
<1>1. ASSUME IsFile(v), st # None, NEW w \in Units, disk[w] # Absent, disk[w].mtime = st.mtime,
             NEW s \in ConvsOf(RowsIn(disk, w)) \ then
      PROVE  TextsOf(e, s) = TurnsOf(RowsIn(disk, w), s)
  <2>1. s \in Conv[v] \ then
    BY <1>1, SeenOwn
  <2>2. Accounts(d, disk, v, st, lines, out) /\ s \notin out /\ TextsOf(e, s) = TextsOf(d, s)
    BY <2>1
  <2> QED BY <1>1, <2>2 DEF Accounts, Exact
<1>2. ASSUME IsFile(v), Agent[v] # "codex", NEW s \in ConvsOf(lines) \ then
      PROVE  TextsOf(e, s) = TurnsOf(lines, s)
  <2>1. s \in Conv[v] \ then
    BY <1>2 DEF Own, ConvsOf
  <2>2. Accounts(d, disk, v, st, lines, out) /\ s \notin out /\ TextsOf(e, s) = TextsOf(d, s)
    BY <2>1
  <2> QED BY <1>2, <2>2 DEF Accounts, Exact
<1>3. ASSUME ~IsFile(v), st # None, st.cursor # None,
             NEW s \in ConvsOf(RowsIn(disk, v)) \ then, Older(RowsIn(disk, v), s, st.cursor)
      PROVE  TextsOf(e, s) = TurnsOf(RowsIn(disk, v), s)
  <2>1. s \in Conv[v] \ then
    BY <1>3 DEF DiskSound, Own, ConvsOf
  <2>2. Accounts(d, disk, v, st, lines, out) /\ s \notin out /\ TextsOf(e, s) = TextsOf(d, s)
    BY <2>1
  <2> QED BY <1>3, <2>2 DEF Accounts
<1> QED BY <1>1, <1>2, <1>3 DEF Accounts, Exact

\* A conversation without a later message has not got newer rows.
LEMMA NewerNot ==
    ASSUME NEW was \in Seq(Records), NEW rows \in Seq(Records), NEW s, NEW now, NEW c,
           Newer(RowsOf(was, s), RowsOf(rows, s), now), Past(now, c), now \in Nat,
           NEW m, m = now \/ m = c, s \in ConvsOf(rows), Older(rows, s, m)
    PROVE  /\ s \in ConvsOf(was)
           /\ RowsOf(rows, s) = RowsOf(was, s)
           /\ TurnsOf(rows, s) = TurnsOf(was, s)
           /\ \A x : Older(was, s, x) <=> Older(rows, s, x)
<1> DEFINE a == RowsOf(was, s)
           b == RowsOf(rows, s)
<1>1. a \in Seq(Records) /\ b \in Seq(Records)
  BY RowsTyped
<1>2. /\ \A k \in DOMAIN a : \E i \in DOMAIN was : was[i].conv = s /\ a[k] = was[i]
      /\ \A i \in DOMAIN was : was[i].conv = s => \E k \in DOMAIN a : a[k] = was[i]
  BY RowsFrom
<1>3. /\ \A k \in DOMAIN b : \E i \in DOMAIN rows : rows[i].conv = s /\ b[k] = rows[i]
      /\ \A i \in DOMAIN rows : rows[i].conv = s => \E k \in DOMAIN b : b[k] = rows[i]
  BY RowsFrom
<1>4. TurnsOf(was, s) = [k \in DOMAIN a |-> a[k].text] /\ TurnsOf(rows, s) = [k \in DOMAIN b |-> b[k].text]
  BY DEF TurnsOf
<1>5. Newer(a, b, now)
  OBVIOUS
<1> HIDE DEF a, b
<1>6. /\ Len(a) \in Nat /\ Len(b) \in Nat /\ DOMAIN a = 1..Len(a) /\ DOMAIN b = 1..Len(b)
      /\ Len(a) <= Len(b) /\ \A i \in 1..Len(a) : a[i] = b[i]
  BY <1>1, <1>5, LenProperties, PrefixMeans DEF Newer
<1>7. \A k \in DOMAIN b : b[k].at \in Nat /\ b[k].at <= m
  <2>1. \A k \in DOMAIN b : b[k] \in Records
    BY <1>1, <1>6, ElementOfSeq
  <2> QED BY <1>3, <2>1 DEF Older, Records
<1>8. m \in Nat /\ m <= now
  BY DEF Past
<1>9. Len(a) = Len(b)
  <2>1. Len(a) \in Nat /\ Len(b) \in Nat /\ Len(a) <= Len(b)
    BY <1>6
  <2>2. ASSUME Len(a) < Len(b)
        PROVE  FALSE
    <3>1. Len(b) \in DOMAIN b /\ Len(b) > Len(a)
      BY <1>6, <2>1, <2>2
    <3>2. b[Len(b)].at > now
      BY <1>5, <3>1 DEF Newer
    <3> QED BY <1>7, <1>8, <3>1, <3>2
  <2> QED BY <2>1, <2>2
<1>10. a = b
  <2>1. a = [i \in 1..Len(a) |-> a[i]] /\ b = [i \in 1..Len(b) |-> b[i]]
    BY <1>1
  <2> QED BY <1>6, <1>9, <2>1
<1>11. s \in ConvsOf(was)
  <2>1. PICK i \in DOMAIN rows : rows[i].conv = s
    BY DEF ConvsOf
  <2>2. PICK k \in DOMAIN b : b[k] = rows[i]
    BY <1>3, <2>1
  <2> QED BY <1>2, <1>10, <2>2 DEF ConvsOf
<1>12. \A x : Older(was, s, x) <=> Older(rows, s, x)
  <2> SUFFICES ASSUME NEW x PROVE Older(was, s, x) <=> Older(rows, s, x)
    OBVIOUS
  <2>1. Older(was, s, x) <=> \A k \in DOMAIN a : a[k].at <= x
    BY <1>2 DEF Older
  <2>2. Older(rows, s, x) <=> \A k \in DOMAIN b : b[k].at <= x
    BY <1>3 DEF Older
  <2> QED BY <1>10, <2>1, <2>2
<1> QED BY <1>4, <1>10, <1>11, <1>12 DEF a, b

\* What was accounted for is, whatever the tools write.
LEMMA AccountsAge ==
    ASSUME NEW dk, NEW now, DiskSound(dk, now), NEW e \in [Units -> {Absent} \cup Written],
           NEW then, DiskSound(e, then), NEW late, Aged(dk, now, e, then, late),
           NEW d, NEW v \in Units, NEW st, NEW lines,
           NEW was, Accounts(d, dk, v, st, lines, was),
           NEW out, was \subseteq out, late \subseteq out,
           st # None => /\ IsFile(v) => Seen(dk, now, v, st.mtime)
                        /\ ~IsFile(v) /\ st.cursor # None => Past(now, st.cursor)
    PROVE  Accounts(d, e, v, st, lines, out)
<1>1. ASSUME IsFile(v), st # None, NEW w \in Units, e[w] # Absent, e[w].mtime = st.mtime
      PROVE  Exact(d, RowsIn(e, w), out)
  <2> DEFINE m == st.mtime
  <2>1. Seen(dk, now, v, m) /\ e[w].mtime = m
    BY <1>1
  <2> HIDE DEF m
  <2>2. PICK x \in Copies(w) : x \in Units /\ dk[x] # Absent /\ e[w] = dk[x]
    BY <1>1, <2>1, UnwrittenStill
  <2>3. RowsIn(e, w) = RowsIn(dk, x)
    BY <2>2 DEF RowsIn
  <2>4. Exact(d, RowsIn(dk, x), was)
    BY <1>1, <2>2 DEF Accounts
  <2> QED BY <2>3, <2>4 DEF Exact
<1>2. ASSUME ~IsFile(v), st # None, st.cursor # None,
             NEW s \in ConvsOf(RowsIn(e, v)) \ out, Older(RowsIn(e, v), s, st.cursor)
      PROVE  TextsOf(d, s) = TurnsOf(RowsIn(e, v), s)
  <2> DEFINE old == RowsIn(dk, v)
             rows == RowsIn(e, v)
             c == st.cursor
  <2>1. /\ now \in Nat /\ old \in Seq(Records) /\ rows \in Seq(Records) /\ Past(now, c)
        /\ ConvsOf(rows) \subseteq Conv[v]
    BY <1>2 DEF Aged, DiskSound, Own, ConvsOf
  <2>2. s \in Sources \ late
    BY <1>2, <2>1 DEF Sources
  <2>3. Newer(RowsOf(old, s), RowsOf(rows, s), now)
    BY <1>2, <2>2 DEF Aged
  <2>4. /\ s \in ConvsOf(rows) /\ Older(rows, s, c) /\ s \notin was
        /\ s \in ConvsOf(old) /\ Older(old, s, c) => TextsOf(d, s) = TurnsOf(old, s)
    BY <1>2 DEF Accounts
  <2> HIDE DEF old, rows, c
  <2>5. s \in ConvsOf(old) /\ Older(old, s, c) /\ TurnsOf(rows, s) = TurnsOf(old, s)
    BY <2>1, <2>3, <2>4, NewerNot
  <2> QED BY <2>4, <2>5 DEF rows
<1>3. ASSUME IsFile(v), Agent[v] # "codex"
      PROVE  Exact(d, lines, out)
  BY <1>3 DEF Accounts, Exact
<1> QED BY <1>1, <1>2, <1>3 DEF Accounts

\* Once the last session is stored, each has its turns behind these lines.
LEMMA SessionTurns ==
    ASSUME NEW first \in Seq(Records), NEW read \in Seq(Records), NEW sessions \in Seq(Parsed),
           sessions # <<>>, SessionsRead(read, sessions),
           NEW d, NEW e, LastStored(d, e, first, sessions), NEW s \in ConvsOf(sessions)
    PROVE  TextsOf(e, s) = TurnsOf(first \o read, s)
<1> DEFINE k == Len(sessions)
<1>1. /\ \A n \in 1..(k - 1) :
           TextsOf(d, sessions[n].conv) = TurnsOf(first, sessions[n].conv) \o sessions[n].turns
      /\ TextsOf(e, sessions[k].conv) = TurnsOf(first, sessions[k].conv) \o sessions[k].turns
      /\ \A r : r # sessions[k].conv => TextsOf(e, r) = TextsOf(d, r)
  BY DEF LastStored
<1>2. k \in Nat /\ DOMAIN sessions = 1..k /\ k \in DOMAIN sessions
  BY LenProperties, EmptySeq
<1> HIDE DEF k
<1>3. TurnsOf(first \o read, s) = TurnsOf(first, s) \o TurnsOf(read, s)
  BY TurnsSplit
<1>4. PICK n \in DOMAIN sessions : sessions[n].conv = s
  BY DEF ConvsOf
<1>5. sessions[n].turns = TurnsOf(read, s)
  BY <1>4 DEF SessionsRead
<1>6. CASE n = k
  BY <1>1, <1>3, <1>4, <1>5, <1>6
<1>7. CASE n # k
  <2>1. n \in 1..(k - 1)
    BY <1>2, <1>7
  <2>2. sessions[k].conv # s
    BY <1>2, <1>4, <1>7 DEF SessionsRead
  <2> QED BY <1>1, <1>3, <1>4, <1>5, <2>1, <2>2
<1> QED BY <1>6, <1>7

(***************************************************************************)
(* A pass that did not race and stores its last session: that one and the  *)
(* others have the turns of the resume point and behind them their own.    *)
(***************************************************************************)
LEMMA StoresLast ==
    ASSUME IngestInv, NEW i \in Ingesters, StoreSession(i),
           ing[i].k = Len(ing[i].sessions), ~Raced(ing[i]),
           Appends(ing[i]) => ing[i].base \in Seq(Records)
    PROVE  LastStored(db, db', IF Appends(ing[i]) THEN ing[i].base ELSE <<>>, ing[i].sessions)
<1> DEFINE job == ing[i]
           sessions == job.sessions
           k == job.k
           r == sessions[k].conv
           texts == sessions[k].turns
           base == job.base
           appends == Appends(job)
           first == IF appends THEN base ELSE <<>>
<1>1. /\ k \in DOMAIN sessions /\ k = Len(sessions)
      /\ Stored(db, db', r, texts, appends)
  BY StoreEffects
<1>2. /\ appends => TextsOf(db, r) = TurnsOf(base, r)
      /\ \A n \in 1..(k - 1) :
           TextsOf(db, sessions[n].conv)
             = (IF appends THEN TurnsOf(base, sessions[n].conv) ELSE <<>>) \o sessions[n].turns
  BY NotRaced
<1>3. appends \in BOOLEAN /\ (appends => base \in Seq(Records))
  BY DEF Appends
<1> HIDE DEF job, sessions, k, base, appends
<1>4. first \in Seq(Records)
  <2>1. CASE appends
    BY <1>3, <2>1
  <2>2. CASE ~appends
    BY <2>2
  <2> QED BY <2>1, <2>2
<1>5. \A x : TurnsOf(first, x) = IF appends THEN TurnsOf(base, x) ELSE <<>>
  <2>1. \A x : ~appends => TurnsOf(first, x) = <<>>
    <3> SUFFICES ASSUME ~appends, NEW x PROVE TurnsOf(first, x) = <<>>
      OBVIOUS
    <3>1. x \notin ConvsOf(first)
      BY DEF ConvsOf
    <3> QED BY <1>4, <3>1, TurnsNone
  <2> QED BY <2>1
<1>6. \A n \in 1..(k - 1) :
        TextsOf(db, sessions[n].conv) = TurnsOf(first, sessions[n].conv) \o sessions[n].turns
  BY <1>2, <1>5
<1> HIDE DEF r, texts
<1>7. TextsOf(db', r) = TurnsOf(first, r) \o texts
  <2>1. CASE appends
    BY <1>1, <1>2, <1>5, <2>1 DEF Stored
  <2>2. CASE ~appends
    <3>1. TextsOf(db', r) = texts /\ texts \in Seq(Nat)
      BY <1>1, <2>2 DEF Stored
    <3>2. <<>> \o texts = texts
      BY <3>1, ConcatEmptySeq
    <3> QED BY <1>5, <2>2, <3>1, <3>2
  <2> QED BY <2>1, <2>2
<1>8. \A x : x # r => TextsOf(db', x) = TextsOf(db, x)
  BY <1>1 DEF Stored
<1> HIDE DEF first
<1>9. LastStored(db, db', first, sessions)
  BY <1>1, <1>6, <1>7, <1>8 DEF LastStored, r, texts
<1> QED BY <1>9 DEF first, appends, base, sessions, job

(***************************************************************************)
(* A pass is done with its unit.  Of a session that is not excused then it *)
(* either stored all turns or found them accounted for, and nobody wrote   *)
(* or recorded its unit meanwhile.                                         *)
(***************************************************************************)
First(job) == IF Appends(job) THEN job.base ELSE <<>>

Finished(job, e, out, then) ==
    /\ \A s : s \notin then /\ s \notin ConvsOf(job.sessions) =>
         s \notin out /\ TextsOf(e, s) = TextsOf(db, s)
    /\ Overtaken(job) \cup Outdated(job) \subseteq then
    /\ \A s \in Conv[job.unit] \ then :
         /\ ~job.fooled
         /\ job.change.kind = "appended" => ~Moved(job)
         /\ s \in ConvsOf(job.sessions) => TextsOf(e, s) = TurnsOf(First(job) \o Reads(job), s)

LEMMA StoreFinishes ==
    ASSUME RecordedInv, NEW i \in Ingesters, StoreSession(i), ing[i].k = Len(ing[i].sessions)
    PROVE  Finished(ing[i], db', doubt \cup ahead, doubt' \cup ahead')
<1> DEFINE job == ing[i]
           sessions == job.sessions
           u == job.unit
           p == sessions[job.k]
           out == doubt \cup ahead
           then == doubt' \cup ahead'
           read == Reads(job)
<1>1. /\ Job(job) /\ job.k \in DOMAIN sessions /\ job.pc = "store" /\ u \in Units
      /\ sessions # <<>>
      /\ Stored(db, db', p.conv, p.turns, Appends(job))
      /\ doubt' = (IF Appends(job) THEN doubt ELSE doubt \ {p.conv})
                    \cup (IF Raced(job) THEN Conv[u] ELSE {})
  BY StoreEffects DEF RecordedInv
<1>2. ahead' = ((ahead \ ConvsOf(sessions)) \cup Outdated(job)) \cup Overtaken(job)
  BY Zenon DEF StoreSession
<1>3. Taken(disk, clock, job) /\ Sliced(disk, clock, job)
  BY <1>1 DEF RecordedInv, JobSound
<1>4. /\ Appends(job) => job.base \in Seq(Records)
      /\ read \in Seq(Records) /\ sessions \in Seq(Parsed) /\ SessionsRead(read, sessions)
  BY <1>1, <1>3, ReadsTyped DEF Taken, Resumes, Own, Appends, Job, Sliced
<1>5. p.conv \in ConvsOf(sessions)
  BY <1>1 DEF ConvsOf
<1>6. ASSUME NEW s, s \notin then, s \notin ConvsOf(sessions)
      PROVE  s \notin out /\ TextsOf(db', s) = TextsOf(db, s)
  <2>1. s # p.conv
    BY <1>5, <1>6
  <2>2. TextsOf(db', s) = TextsOf(db, s)
    BY <1>1, <2>1 DEF Stored
  <2>3. s \notin doubt' /\ s \notin ahead'
    BY <1>6
  <2>4. s \notin doubt /\ s \notin ahead
    BY <1>1, <1>2, <1>6, <2>1, <2>3
  <2> QED BY <2>2, <2>4
<1>7. ASSUME NEW s \in Conv[u] \ then
      PROVE  /\ ~job.fooled
             /\ job.change.kind = "appended" => ~Moved(job)
             /\ s \in ConvsOf(sessions) => TextsOf(db', s) = TurnsOf(First(job) \o read, s)
  <2>1. ~Raced(job)
    BY <1>1, <1>7
  <2>2. ~job.fooled /\ (job.change.kind = "appended" => ~Moved(job))
    BY <2>1 DEF Raced
  <2> DEFINE first == First(job)
  <2>3. LastStored(db, db', first, sessions)
    BY <1>4, <2>1, StoresLast DEF First, RecordedInv
  <2>4. first \in Seq(Records)
    BY <1>4 DEF First
  <2> HIDE DEF first, sessions, read
  <2>5. s \in ConvsOf(sessions) => TextsOf(db', s) = TurnsOf(first \o read, s)
    BY <1>1, <1>4, <2>3, <2>4, SessionTurns
  <2> QED BY <2>2, <2>5 DEF first
<1>8. Overtaken(job) \cup Outdated(job) \subseteq then
  BY <1>2
<1> QED BY <1>6, <1>7, <1>8 DEF Finished

LEMMA TouchFinishes ==
    ASSUME RecordedInv, NEW i \in Ingesters, TouchUnit(i)
    PROVE  /\ Finished(ing[i], db', doubt \cup ahead, doubt' \cup ahead')
           /\ StateIs(db, db', ing[i].unit, DoneState(ing[i]))
<1> DEFINE job == ing[i]
           u == job.unit
           st == DoneState(job)
           spoilt == job.fooled \/ Moved(job)
<1>1. /\ Job(job) /\ job.pc = "store" /\ u \in Units /\ job.sessions = <<>>
      /\ db' = UpsertState(db, u, st)
      /\ doubt' = (IF spoilt THEN doubt \cup Conv[u] ELSE doubt)
      /\ ahead' = ahead \cup Outdated(job)
  BY Zenon DEF RecordedInv, IngestInv, TouchUnit, Job, JobType
<1>2. StateIs(db, db', u, st) /\ \A s : TextsOf(db', s) = TextsOf(db, s)
  <2>1. Store(db) /\ st.bytes \in Nat
    BY <1>1, StatesTyped DEF RecordedInv, IngestInv
  <2>2. db' = UpsertState(db, u, st)
    BY <1>1
  <2> HIDE DEF u, st
  <2>3. /\ \A v : IngestState(db', v) = IF v = u THEN st ELSE IngestState(db, v)
        /\ \A s : TextsOf(db', s) = TextsOf(db, s)
    BY <2>1, <2>2, UpsertKeepsStore
  <2> QED BY <2>3 DEF StateIs
<1>3. ConvsOf(job.sessions) = {}
  BY <1>1 DEF ConvsOf
<1>4. Overtaken(job) \cup Outdated(job) \subseteq doubt' \cup ahead'
  BY <1>1, <1>3 DEF Overtaken
<1>5. doubt \cup ahead \subseteq doubt' \cup ahead'
  BY <1>1
<1>6. \A s \in Conv[u] \ (doubt' \cup ahead') : ~spoilt
  BY <1>1
<1>7. Finished(job, db', doubt \cup ahead, doubt' \cup ahead')
  BY <1>2, <1>3, <1>4, <1>5, <1>6 DEF Finished
<1> QED BY <1>2, <1>7

----------------------------------------------------------------------------
(* What a pass that is done with its unit leaves.                          *)

Ends(job, e, out, then) ==
    /\ RecordedInv
    /\ FreshInv
    /\ Accounted(db, disk, ingested, out)
    /\ Job(job) /\ job.pc = "store" /\ job.unit \in Units
    /\ JobSound(disk, clock, job)
    /\ JobFresh(disk, clock, job)
    /\ Finished(job, e, out, then)

\* A file has its turns behind the recorded lines; a codex rollout has one
\* session, which a resume gives if the rollout has a line.
LEMMA FinishedStands ==
    ASSUME NEW job, NEW e, NEW out, NEW then, Ends(job, e, out, then), IsFile(job.unit),
           NEW s \in ConvsOf(StandsFor(job)) \ then,
           Appends(job) /\ Agent[job.unit] = "codex" => s \in ConvsOf(job.sessions)
    PROVE  TextsOf(e, s) = TurnsOf(StandsFor(job), s)
<1> DEFINE u == job.unit
           base == job.base
           read == Reads(job)
           lines == StandsFor(job)
           sessions == job.sessions
<1>1. /\ Job(job) /\ u \in Units /\ Taken(disk, clock, job) /\ Sliced(disk, clock, job)
      /\ Finished(job, e, out, then)
  BY DEF Ends, JobSound
<1>2. lines = First(job) \o read /\ Own(clock, u, lines)
  BY <1>1, StandsSound DEF First
<1>3. s \in Conv[u] \ then
  BY <1>2 DEF Own, ConvsOf
<1>4. CASE s \in ConvsOf(sessions)
  BY <1>1, <1>2, <1>3, <1>4 DEF Finished
<1>5. CASE s \notin ConvsOf(sessions)
  <2>1. /\ base \in Seq(Records) /\ read \in Seq(Records)
        /\ AllRead(read, sessions)
    BY <1>1, ReadsTyped DEF Taken, Resumes, Own, Sliced, Job
  <2>2. s \notin ConvsOf(read)
    BY <1>5, <2>1 DEF AllRead, ConvsOf
  <2>3. Appends(job)
    <3> SUFFICES ASSUME ~Appends(job) PROVE FALSE
      OBVIOUS
    <3> HIDE DEF read
    <3>1. <<>> \o read = read
      BY <2>1, ConcatEmptySeq
    <3> QED BY <1>2, <2>2, <3>1 DEF First
  <2>4. Agent[u] # "codex" /\ ~Moved(job)
    BY <1>1, <1>3, <1>5, <2>3 DEF Appends, Finished
  <2>5. lines = base \o read
    BY <1>2, <2>3 DEF First
  <2> HIDE DEF read, base, lines, sessions
  <2>6. TurnsOf(lines, s) = TurnsOf(base, s)
    <3>1. TurnsOf(lines, s) = TurnsOf(base, s) \o TurnsOf(read, s)
      BY <2>1, <2>5, TurnsSplit
    <3>2. TurnsOf(read, s) = <<>>
      BY <2>1, <2>2, TurnsNone
    <3>3. TurnsOf(base, s) \o <<>> = TurnsOf(base, s)
      BY <2>1, TurnsTyped, ConcatEmptySeq
    <3> QED BY <3>1, <3>2, <3>3
  <2>7. s \in ConvsOf(base)
    <3>1. PICK i \in DOMAIN lines : lines[i].conv = s
      BY DEF ConvsOf, lines
    <3>2. \/ i \in DOMAIN base /\ lines[i] = base[i]
          \/ \E j \in DOMAIN read : lines[i] = read[j]
      BY <2>1, <2>5, <3>1, BothParts
    <3> QED BY <2>2, <3>1, <3>2 DEF ConvsOf
  <2>8. s \notin out /\ TextsOf(e, s) = TextsOf(db, s)
    BY <1>1, <1>3, <1>5 DEF Finished, sessions
  <2>9. Recorded(db, ingested, u) = base
    BY <1>1, <2>4, UnmovedBase DEF Ends, base
  <2>10. Exact(db, Recorded(db, ingested, u), out)
    BY <1>1, <2>4 DEF Ends, Accounted, Accounts
  <2>11. TextsOf(db, s) = TurnsOf(base, s)
    BY <2>7, <2>8, <2>9, <2>10 DEF Exact
  <2> QED BY <2>6, <2>8, <2>11 DEF lines
<1> QED BY <1>4, <1>5

\* A file that still has the time it was discovered with is stored.
LEMMA FinishedFile ==
    ASSUME NEW job, NEW e, NEW out, NEW then, Ends(job, e, out, then), IsFile(job.unit),
           NEW w \in Units, disk[w] # Absent, disk[w].mtime = job.seen[job.unit].mtime
    PROVE  Exact(e, RowsIn(disk, w), then)
<1> DEFINE u == job.unit
           prefix == job.prefix
           rows == RowsIn(disk, w)
           m == job.seen[u].mtime
<1>1. /\ u \in Units /\ Seen(disk, clock, u, m) /\ FileFresh(disk, w, job) /\ Named(job)
      /\ DiskSound(disk, clock) /\ Finished(job, e, out, then) /\ job.pc = "store"
  BY DEF Ends, JobFresh, RecordedInv
<1>2. disk[w].mtime = m /\ IsFile(u)
  OBVIOUS
<1> HIDE DEF m, u
<1>3. w \in Copies(u) /\ ConvsOf(rows) \subseteq Conv[u]
  BY <1>1, <1>2, SeenOwn
<1> SUFFICES ASSUME NEW s \in ConvsOf(rows) \ then PROVE TextsOf(e, s) = TurnsOf(rows, s)
  BY DEF Exact
<1>4. ~job.fooled
  BY <1>1, <1>3 DEF Finished, u
<1>5. StandsFor(job) = prefix /\ rows = prefix
  BY <1>1, <1>4 DEF FileFresh, StandsFor
<1>6. Appends(job) /\ Agent[u] = "codex" => s \in ConvsOf(job.sessions)
  <2> SUFFICES ASSUME Appends(job), Agent[u] = "codex" PROVE s \in ConvsOf(job.sessions)
    OBVIOUS
  <2>1. PICK n \in DOMAIN rows : rows[n].conv = s
    BY DEF ConvsOf
  <2>2. rows \in Seq(Records)
    BY <1>1 DEF DiskSound, Own
  <2>3. Agent[w] = "codex"
    BY <1>3, <2>2 DEF Copies
  <2>4. rows # <<>> /\ 1 \in DOMAIN rows
    BY <2>1, <2>2, LenProperties, EmptySeq
  <2>5. rows[1].conv = s
    BY <1>1, <2>1, <2>3, <2>4 DEF DiskSound
  <2>6. Len(job.sessions) = 1 /\ job.sessions[1].conv = rows[1].conv
    BY <1>1, <1>5, <2>4 DEF Named, u
  <2>7. 1 \in DOMAIN job.sessions
    BY <2>6, LenProperties DEF Ends, Job
  <2> QED BY <2>5, <2>6, <2>7 DEF ConvsOf
<1>7. s \in ConvsOf(StandsFor(job)) \ then
  BY <1>5
<1>8. TextsOf(e, s) = TurnsOf(StandsFor(job), s)
  BY <1>2, <1>6, <1>7, FinishedStands DEF u
<1> QED BY <1>5, <1>8

\* What is recorded of a database accounts for what was not read since.
LEMMA FinishedRows ==
    ASSUME NEW job, NEW e, NEW out, NEW then, Ends(job, e, out, then), ~IsFile(job.unit),
           job.cursor # None, NEW s \in ConvsOf(RowsIn(disk, job.unit)) \ then,
           Older(RowsIn(disk, job.unit), s, job.cursor)
    PROVE  TextsOf(e, s) = TurnsOf(RowsIn(disk, job.unit), s)
<1> DEFINE u == job.unit
           rows == RowsIn(disk, u)
           prefix == job.prefix
           sessions == job.sessions
           c == job.cursor
           old == job.old
<1>1. /\ u \in Units /\ RowsFresh(clock, job) /\ Taken(disk, clock, job)
      /\ Finished(job, e, out, then)
      /\ rows \in Seq(Records) /\ prefix \in Seq(Records) /\ ConvsOf(rows) \subseteq Conv[u]
  BY DEF Ends, JobFresh, JobSound, FreshInv, RecordedInv, DiskSound, Own, Job, ConvsOf
<1>2. /\ Past(clock, c)
      /\ s \in ConvsOf(prefix) \ ConvsOf(sessions) =>
           /\ job.change.kind = "appended" /\ Older(prefix, s, old.cursor)
           /\ old # None /\ old.cursor # None
  BY <1>1 DEF Ends, RowsFresh
<1>3. s \in ConvsOf(rows) /\ Older(rows, s, c) /\ s \in Conv[u] \ then
  BY <1>1
<1>4. job.change.from = 0 /\ ~Appends(job)
  BY <1>1 DEF Taken, Appends
<1>5. Reads(job) = prefix /\ First(job) = <<>>
  BY <1>1, <1>4, ReadsTyped DEF Ends, Job, First
<1>6. Newer(RowsOf(prefix, s), RowsOf(rows, s), c)
  <2>1. s \notin Outdated(job) /\ Rows(u) = rows
    BY <1>1, <1>3 DEF Finished, Rows, RowsIn
  <2> QED BY <1>3, <2>1 DEF Outdated, Newer
<1>7. /\ s \in ConvsOf(prefix) /\ TurnsOf(rows, s) = TurnsOf(prefix, s)
      /\ \A x : Older(prefix, s, x) <=> Older(rows, s, x)
  <2> HIDE DEF rows, prefix, c
  <2>1. c \in Nat /\ Past(c, c)
    BY <1>2 DEF Past
  <2> QED BY <1>1, <1>3, <1>6, <2>1, NewerNot
<1>8. CASE s \in ConvsOf(sessions)
  <2>1. TextsOf(e, s) = TurnsOf(First(job) \o Reads(job), s)
    BY <1>1, <1>3, <1>8 DEF Finished
  <2> HIDE DEF prefix
  <2>2. <<>> \o prefix = prefix
    BY <1>1, ConcatEmptySeq
  <2> QED BY <1>5, <1>7, <2>1, <2>2
<1>9. CASE s \notin ConvsOf(sessions)
  <2>1. /\ job.change.kind = "appended" /\ Older(prefix, s, old.cursor)
        /\ old # None /\ old.cursor # None
    BY <1>2, <1>7, <1>9
  <2>2. ~Moved(job) /\ s \notin out /\ TextsOf(e, s) = TextsOf(db, s)
    BY <1>1, <1>3, <1>9, <2>1 DEF Finished
  <2>3. IngestState(db, u) = old
    BY <2>1, <2>2 DEF Moved, StaleState
  <2>4. Older(rows, s, old.cursor)
    BY <1>7, <2>1
  <2>5. Accounts(db, disk, u, old, Recorded(db, ingested, u), out)
    BY <1>1, <2>3 DEF Ends, Accounted
  <2>6. TextsOf(db, s) = TurnsOf(rows, s)
    BY <1>3, <2>1, <2>2, <2>4, <2>5 DEF Accounts
  <2> QED BY <2>2, <2>6
<1> QED BY <1>8, <1>9

\* The state that a pass records accounts for its unit.
LEMMA FinishedOwn ==
    ASSUME NEW job, NEW e, NEW out, NEW then, Ends(job, e, out, then)
    PROVE  Accounts(e, disk, job.unit, DoneState(job), StandsFor(job), then)
<1> DEFINE u == job.unit
           st == DoneState(job)
<1>1. st.mtime = job.seen[u].mtime /\ st.cursor = job.cursor
  BY DEF DoneState
<1>2. IsFile(u) => \A w \in Units : disk[w] # Absent /\ disk[w].mtime = st.mtime =>
                     Exact(e, RowsIn(disk, w), then)
  BY <1>1, FinishedFile
<1>3. IsFile(u) /\ Agent[u] # "codex" => Exact(e, StandsFor(job), then)
  BY FinishedStands DEF Exact
<1>4. ~IsFile(u) /\ st.cursor # None =>
         \A s \in ConvsOf(RowsIn(disk, u)) \ then :
             Older(RowsIn(disk, u), s, st.cursor) => TextsOf(e, s) = TurnsOf(RowsIn(disk, u), s)
  BY <1>1, FinishedRows
<1> HIDE DEF st
<1> QED BY <1>2, <1>3, <1>4 DEF Accounts, st

\* The sessions of a parse are of its unit, or called like it.
LEMMA JobConvs ==
    ASSUME NEW job, JobSound(disk, clock, job), JobFresh(disk, clock, job), job.pc = "store"
    PROVE  ConvsOf(job.sessions) \subseteq Conv[job.unit] \cup {job.unit}
<1>1. CASE IsFile(job.unit)
  BY <1>1 DEF JobFresh, Named, ConvsOf
<1>2. CASE ~IsFile(job.unit)
  BY <1>2 DEF JobSound, Sliced, Appends, ConvsOf
<1> QED BY <1>1, <1>2

(***************************************************************************)
(* The states of the other units account for theirs as before.  Of the two *)
(* copies of a rollout the one that was recorded with a later time is      *)
(* excused.                                                                *)
(***************************************************************************)
LEMMA FinishedElsewhere ==
    ASSUME NEW job, NEW e, NEW out, NEW then, Ends(job, e, out, then), NEW v \in Units \ {job.unit}
    PROVE  Accounts(e, disk, v, IngestState(db, v), Recorded(db, ingested, v), then)
<1> DEFINE u == job.unit
           st == IngestState(db, v)
           lines == Recorded(db, ingested, v)
           sessions == job.sessions
<1>1. /\ Job(job) /\ u \in Units /\ Finished(job, e, out, then) /\ DiskSound(disk, clock)
      /\ Accounts(db, disk, v, st, lines, out)
      /\ IsFile(v) /\ st # None => Seen(disk, clock, v, st.mtime)
      /\ IsFile(v) => Own(clock, v, lines)
      /\ ConvsOf(sessions) \subseteq Conv[u] \cup {u}
  BY JobConvs DEF Ends, Accounted, FreshInv, RecordedInv, StatesSeen, StateSound, Resumes
<1>2. /\ \A s : s \notin then /\ s \notin ConvsOf(sessions) =>
           s \notin out /\ TextsOf(e, s) = TextsOf(db, s)
      /\ Overtaken(job) \subseteq then
  BY <1>1 DEF Finished
<1>3. CASE Conv[u] \cap Conv[v] = {}
  <2>1. u \notin Conv[v]
    BY <1>1, HomeAssumption
  <2>2. \A s \in Conv[v] \ then : s \notin ConvsOf(sessions)
    BY <1>1, <1>3, <2>1
  <2>3. \A s \in Conv[v] \ then :
           Accounts(db, disk, v, st, lines, out) /\ s \notin out /\ TextsOf(e, s) = TextsOf(db, s)
    BY <1>1, <1>2, <2>2
  <2> HIDE DEF st, lines, sessions
  <2>4. Accounts(e, disk, v, st, lines, then)
    BY <1>1, <2>3, AccountsStill
  <2> QED BY <2>4 DEF st, lines
<1>4. CASE Conv[u] \cap Conv[v] # {}
  <2>1. Agent[u] = "codex" /\ Agent[v] = "codex" /\ Conv[u] = Conv[v]
    BY <1>1, <1>4, HomeAssumption
  <2>2. IsFile(u) /\ IsFile(v) /\ Copies(u) = Copies(v)
    BY <2>1 DEF IsFile, Databases, Copies
  <2>3. ASSUME st # None, NEW w \in Units, disk[w] # Absent, disk[w].mtime = st.mtime,
               NEW s \in ConvsOf(RowsIn(disk, w)) \ then
        PROVE  TextsOf(e, s) = TurnsOf(RowsIn(disk, w), s)
    <3>1. w \in Copies(v) /\ s \in Conv[v]
      BY <1>1, <2>2, <2>3, SeenOwn
    <3>2. CASE s \in ConvsOf(sessions)
      <4> DEFINE m == job.seen[u].mtime
      <4>1. ~(st.mtime > m)
        <5>1. s \notin Overtaken(job)
          BY <1>2, <2>3
        <5> QED BY <2>3, <3>1, <3>2, <5>1 DEF Overtaken
      <4>2. Seen(disk, clock, u, m)
        BY DEF Ends, JobFresh
      <4>3. m \in Int /\ m <= disk[w].mtime /\ disk[w].mtime \in Nat
        <5>1. disk[w] \in Written
          BY <2>3 DEF Ends, RecordedInv, IngestInv, DiskTyped
        <5> QED BY <2>2, <2>3, <3>1, <4>2, <5>1 DEF Seen, Written
      <4>4. disk[w].mtime = m
        BY <2>3, <4>1, <4>3
      <4>5. Exact(e, RowsIn(disk, w), then)
        BY <2>2, <2>3, <4>4, FinishedFile
      <4> QED BY <2>3, <4>5 DEF Exact
    <3>3. CASE s \notin ConvsOf(sessions)
      <4>1. s \notin out /\ TextsOf(e, s) = TextsOf(db, s)
        BY <1>2, <2>3, <3>3
      <4>2. Exact(db, RowsIn(disk, w), out)
        BY <1>1, <2>2, <2>3 DEF Accounts
      <4> QED BY <2>3, <4>1, <4>2 DEF Exact
    <3> QED BY <3>2, <3>3
  <2> HIDE DEF st, lines
  <2>4. Accounts(e, disk, v, st, lines, then)
    BY <2>1, <2>2, <2>3 DEF Accounts, Exact
  <2> QED BY <2>4 DEF st, lines
<1> QED BY <1>3, <1>4

AccountedInv ==
    /\ RecordedInv
    /\ FreshInv
    /\ Accounted(db, disk, ingested, doubt \cup ahead)

\* A unit of which nothing is recorded.
LEMMA AccountsNothing ==
    ASSUME NEW d, NEW dk, NEW v, NEW lines, lines = <<>>, NEW out
    PROVE  Accounts(d, dk, v, None, lines, out)
<1>1. ConvsOf(lines) = {}
  BY DEF ConvsOf
<1> QED BY <1>1 DEF Accounts, Exact

\* What is recorded of which unit, once a transaction recorded one.
LEMMA RecordedMoves ==
    ASSUME RecordedInv, NEW e, NEW u \in Units, NEW st, StateIs(db, e, u, st),
           NEW h, NEW lines, h = [ingested EXCEPT ![u] = lines]
    PROVE  RecordedIs(db, ingested, e, h, u, IF st = None THEN <<>> ELSE lines)
<1>1. DOMAIN ingested = Units
  BY DEF RecordedInv, StateSound
<1> QED BY <1>1 DEF StateIs, Recorded, RecordedIs

LEMMA AccountedMoves ==
    ASSUME RecordedInv, NEW e, NEW u \in Units, NEW st, StateIs(db, e, u, st),
           NEW h, NEW lines, h = [ingested EXCEPT ![u] = lines], NEW then,
           Accounts(e, disk, u, st, lines, then),
           \A v \in Units \ {u} : Accounts(e, disk, v, IngestState(db, v), Recorded(db, ingested, v), then)
    PROVE  Accounted(e, disk, h, then)
<1>1. RecordedIs(db, ingested, e, h, u, IF st = None THEN <<>> ELSE lines)
  BY RecordedMoves
<1>2. \A v \in Units \ {u} : /\ IngestState(e, v) = IngestState(db, v)
                             /\ Recorded(e, h, v) = Recorded(db, ingested, v)
  BY <1>1 DEF StateIs, RecordedIs
<1>3. IngestState(e, u) = st /\ Recorded(e, h, u) = IF st = None THEN <<>> ELSE lines
  BY <1>1 DEF StateIs, RecordedIs
<1>4. Accounts(e, disk, u, IngestState(e, u), Recorded(e, h, u), then)
  <2>1. CASE st = None
    BY <1>3, <2>1, AccountsNothing
  <2>2. CASE st # None
    BY <1>3, <2>2
  <2> QED BY <2>1, <2>2
<1> QED BY <1>2, <1>4 DEF Accounted

LEMMA SeenMoves ==
    ASSUME FreshInv, NEW e, NEW u \in Units, NEW st, StateIs(db, e, u, st),
           st # None => /\ IsFile(u) => Seen(disk, clock, u, st.mtime)
                        /\ ~IsFile(u) /\ st.cursor # None => Past(clock, st.cursor)
    PROVE  StatesSeen(e, disk, clock)
<1>1. StatesSeen(db, disk, clock)
  BY DEF FreshInv
<1>2. ASSUME NEW v \in Units, IngestState(e, v) # None
      PROVE  /\ IsFile(v) => Seen(disk, clock, v, IngestState(e, v).mtime)
             /\ ~IsFile(v) /\ IngestState(e, v).cursor # None =>
                  Past(clock, IngestState(e, v).cursor)
  <2>1. CASE v = u
    <3>1. IngestState(e, v) = st
      BY <2>1 DEF StateIs
    <3> QED BY <1>2, <2>1, <3>1
  <2>2. CASE v # u
    <3>1. IngestState(e, v) = IngestState(db, v)
      BY <2>2 DEF StateIs
    <3> QED BY <1>1, <1>2, <3>1 DEF StatesSeen
  <2> QED BY <2>1, <2>2
<1> QED BY <1>2 DEF StatesSeen

\* What a pass records was seen.
LEMMA DoneSeen ==
    ASSUME FreshInv, NEW job, Job(job), job.pc = "store", JobFresh(disk, clock, job)
    PROVE  LET st == DoneState(job)
           IN  /\ IsFile(job.unit) => Seen(disk, clock, job.unit, st.mtime)
               /\ ~IsFile(job.unit) /\ st.cursor # None => Past(clock, st.cursor)
<1>1. /\ DoneState(job).mtime = job.seen[job.unit].mtime
      /\ DoneState(job).cursor = job.cursor
  BY DEF DoneState
<1>2. Seen(disk, clock, job.unit, job.seen[job.unit].mtime)
  BY DEF JobFresh
<1>3. ~IsFile(job.unit) /\ job.cursor # None => Past(clock, job.cursor)
  BY DEF JobFresh, RowsFresh
<1> QED BY <1>1, <1>2, <1>3

LEMMA StaleSeen ==
    ASSUME FreshInv, NEW job, Job(job), job.pc = "store", JobFresh(disk, clock, job)
    PROVE  LET st == StaleState(job)
           IN  /\ IsFile(job.unit) => Seen(disk, clock, job.unit, st.mtime)
               /\ ~IsFile(job.unit) /\ st.cursor # None => Past(clock, st.cursor)
<1>1. CASE job.old # None
  BY <1>1 DEF JobFresh, RowsFresh, StaleState
<1>2. CASE job.old = None
  <2>1. StaleState(job).mtime = -1 /\ StaleState(job).cursor = None
    BY <1>2 DEF StaleState
  <2>2. clock \in Nat /\ \A w \in Units : disk[w] # Absent => disk[w].mtime \in Nat
    BY DEF FreshInv, IngestInv, DiskTyped, Written
  <2>3. Seen(disk, clock, job.unit, -1)
    BY <2>2 DEF Seen
  <2> QED BY <2>1, <2>3
<1> QED BY <1>1, <1>2

\* So does what a pass that nobody came in between found before it.
LEMMA StaleAccounts ==
    ASSUME RecordedInv, NEW job, job.unit \in Units, ~Moved(job), NEW out,
           Accounted(db, disk, ingested, out)
    PROVE  Accounts(db, disk, job.unit, StaleState(job), job.base, out)
<1> DEFINE u == job.unit
           st == StaleState(job)
           lines == Recorded(db, ingested, u)
<1>1. Accounts(db, disk, u, IngestState(db, u), lines, out)
  BY DEF Accounted
<1>2. IsFile(u) => lines = job.base
  BY UnmovedBase
<1>3. IngestState(db, u) = IF job.k = 1 THEN job.old ELSE st
  BY DEF Moved
<1>4. CASE IngestState(db, u) = st
  BY <1>1, <1>2, <1>4 DEF Accounts
<1>5. CASE IngestState(db, u) # st
  <2>1. job.old = None
    BY <1>3, <1>5 DEF StaleState
  <2>2. st.mtime = -1 /\ st.cursor = None
    BY <2>1 DEF StaleState
  <2>3. \A w \in Units : disk[w] # Absent => disk[w].mtime # -1
    BY DEF RecordedInv, IngestInv, DiskTyped, Written
  <2> HIDE DEF st
  <2>4. Accounts(db, disk, u, st, job.base, out)
    BY <1>1, <1>2, <2>2, <2>3 DEF Accounts
  <2> QED BY <2>4 DEF st
<1> QED BY <1>4, <1>5

----------------------------------------------------------------------------
(* The steps.                                                              *)

\* A step of one pass after which its reading is fresh.
LEMMA StepFresh ==
    ASSUME FreshInv, IngestInv', NEW i \in Ingesters, NEW next, ing' = [ing EXCEPT ![i] = next],
           JobFresh(disk, clock, next), UNCHANGED <<disk, clock>>, StatesSeen(db', disk, clock)
    PROVE  FreshInv'
<1>1. \A j \in Ingesters : JobFresh(disk, clock, ing'[j])
  BY DEF FreshInv, IngestInv
<1>2. \A j \in Ingesters : JobFresh(disk', clock', ing'[j])
  BY <1>1
<1>3. DiskSound(disk', clock') /\ Timed(disk', clock') /\ StatesSeen(db', disk', clock')
  BY DEF FreshInv
<1> QED BY <1>2, <1>3 DEF FreshInv

\* A step of one pass that stores nothing.
LEMMA ReadAccounted ==
    ASSUME AccountedInv, RecordedInv', NEW i \in Ingesters,
           \E next : ing' = [ing EXCEPT ![i] = next] /\ JobFresh(disk, clock, next),
           UNCHANGED <<db, disk, clock, ingested, doubt, ahead>>
    PROVE  AccountedInv'
<1>1. PICK next : ing' = [ing EXCEPT ![i] = next] /\ JobFresh(disk, clock, next)
  OBVIOUS
<1>2. FreshInv /\ StatesSeen(db, disk, clock) /\ IngestInv' /\ UNCHANGED <<disk, clock>>
  BY DEF AccountedInv, FreshInv, RecordedInv
<1>3. StatesSeen(db', disk, clock)
  BY <1>2
<1>4. FreshInv'
  BY <1>1, <1>2, <1>3, StepFresh
<1>5. Accounted(db', disk', ingested', doubt' \cup ahead')
  BY DEF AccountedInv
<1> QED BY <1>4, <1>5 DEF AccountedInv

\* The last session of a unit.
LEMMA StoreLastAccounted ==
    ASSUME AccountedInv, RecordedInv', NEW i \in Ingesters, StoreSession(i),
           ing[i].k = Len(ing[i].sessions)
    PROVE  AccountedInv'
<1> DEFINE job == ing[i]
           u == job.unit
           st == DoneState(job)
           lines == StandsFor(job)
           next == NextUnit(job)
           out == doubt \cup ahead
           then == doubt' \cup ahead'
           e == db'
           h == ingested'
<1>1. /\ Job(job) /\ job.pc = "store" /\ u \in Units
      /\ StateIs(db, e, u, st)
      /\ ing' = [ing EXCEPT ![i] = next] /\ h = [ingested EXCEPT ![u] = lines]
      /\ UNCHANGED <<disk, clock>>
  BY StoreEffects DEF AccountedInv, RecordedInv
<1>2. JobSound(disk, clock, job) /\ JobFresh(disk, clock, job) /\ RecordedInv /\ FreshInv
      /\ Accounted(db, disk, ingested, out)
  BY DEF AccountedInv, RecordedInv, FreshInv
<1>3. Finished(job, e, out, then)
  BY <1>2, StoreFinishes
<1>4. Ends(job, e, out, then)
  BY <1>1, <1>2, <1>3 DEF Ends
<1>5. JobFresh(disk, clock, next)
  BY <1>1, <1>2, NextUnitFresh, IdleTyped DEF Job, JobFresh
<1>6. StatesSeen(e, disk, clock)
  <2>1. /\ IsFile(u) => Seen(disk, clock, u, st.mtime)
        /\ ~IsFile(u) /\ st.cursor # None => Past(clock, st.cursor)
    BY <1>1, <1>2, DoneSeen
  <2> HIDE DEF st, u, e
  <2> QED BY <1>1, <1>2, <2>1, SeenMoves
<1>7. Accounted(e, disk, h, then)
  <2>1. Accounts(e, disk, u, st, lines, then)
    BY <1>4, FinishedOwn
  <2>2. \A v \in Units \ {u} :
          Accounts(e, disk, v, IngestState(db, v), Recorded(db, ingested, v), then)
    BY <1>4, FinishedElsewhere
  <2> HIDE DEF u, st, lines, e, h, then
  <2> QED BY <1>1, <1>2, <2>1, <2>2, AccountedMoves
<1>8. FreshInv'
  <2> HIDE DEF next
  <2> QED BY <1>1, <1>2, <1>5, <1>6, StepFresh DEF RecordedInv
<1>9. Accounted(db', disk', ingested', doubt' \cup ahead')
  BY <1>1, <1>7
<1> QED BY <1>8, <1>9 DEF AccountedInv

\* A session before the last.
LEMMA StoreFirstAccounted ==
    ASSUME AccountedInv, RecordedInv', NEW i \in Ingesters, StoreSession(i),
           ing[i].k # Len(ing[i].sessions)
    PROVE  AccountedInv'
<1> DEFINE job == ing[i]
           u == job.unit
           p == job.sessions[job.k]
           st == StaleState(job)
           lines == job.base
           next == [job EXCEPT !.k = @ + 1]
           out == doubt \cup ahead
           then == doubt' \cup ahead'
           e == db'
           h == ingested'
<1>1. /\ Job(job) /\ job.pc = "store" /\ u \in Units
      /\ StateIs(db, e, u, st)
      /\ Stored(db, e, p.conv, p.turns, Appends(job))
      /\ ing' = [ing EXCEPT ![i] = next] /\ h = [ingested EXCEPT ![u] = lines]
      /\ doubt' = (IF Appends(job) THEN doubt ELSE doubt \ {p.conv})
                    \cup (IF Raced(job) THEN Conv[u] ELSE {})
      /\ UNCHANGED <<disk, clock>>
      /\ job.k \in DOMAIN job.sessions
  BY StoreEffects DEF AccountedInv, RecordedInv
<1>2. JobSound(disk, clock, job) /\ JobFresh(disk, clock, job) /\ RecordedInv /\ FreshInv
      /\ Accounted(db, disk, ingested, out) /\ DiskSound(disk, clock)
  BY DEF AccountedInv, RecordedInv, FreshInv
<1>3. ahead' = ahead \cup {p.conv} \cup Overtaken(job)
  BY Zenon DEF StoreSession
<1>4. ASSUME NEW s, s \notin then
      PROVE  s \notin out /\ TextsOf(e, s) = TextsOf(db, s)
  <2>1. s # p.conv /\ s \notin ahead /\ s \notin doubt'
    BY <1>3, <1>4
  <2>2. s \notin doubt
    BY <1>1, <2>1
  <2> QED BY <1>1, <2>1, <2>2 DEF Stored
<1>5. JobFresh(disk, clock, next)
  BY <1>1, <1>2, NextSessionFresh
<1>6. /\ IsFile(u) => Seen(disk, clock, u, st.mtime)
      /\ ~IsFile(u) /\ st.cursor # None => Past(clock, st.cursor)
  BY <1>1, <1>2, StaleSeen
<1>7. IsFile(u) => Own(clock, u, lines)
  BY <1>1, <1>2, StaleSound DEF JobSound
<1>8. Accounts(e, disk, u, st, lines, then)
  <2>1. ASSUME NEW s \in Conv[u] \ then
        PROVE  Accounts(db, disk, u, st, lines, out) /\ s \notin out /\ TextsOf(e, s) = TextsOf(db, s)
    <3>1. ~Raced(job)
      BY <1>1, <2>1
    <3>2. ~Moved(job)
      <4>1. job.k < Len(job.sessions)
        <5>1. job.sessions \in Seq(Parsed) /\ job.k # Len(job.sessions)
          BY <1>1 DEF Job
        <5>2. Len(job.sessions) \in Nat /\ job.k \in 1..Len(job.sessions)
          BY <1>1, <5>1, LenProperties
        <5> QED BY <5>1, <5>2
      <4> QED BY <3>1, <4>1 DEF Raced
    <3>3. Accounts(db, disk, u, st, lines, out)
      BY <1>1, <1>2, <3>2, StaleAccounts
    <3> QED BY <1>4, <2>1, <3>3
  <2> HIDE DEF u, st, lines, e, out, then
  <2> QED BY <1>1, <1>2, <1>6, <1>7, <2>1, AccountsStill
<1>9. ASSUME NEW v \in Units \ {u}
      PROVE  Accounts(e, disk, v, IngestState(db, v), Recorded(db, ingested, v), then)
  <2> DEFINE was == IngestState(db, v)
             rows == Recorded(db, ingested, v)
  <2>1. /\ Accounts(db, disk, v, was, rows, out)
        /\ IsFile(v) /\ was # None => Seen(disk, clock, v, was.mtime)
        /\ IsFile(v) => Own(clock, v, rows)
    BY <1>2 DEF Accounted, FreshInv, RecordedInv, StatesSeen, StateSound, Resumes
  <2>2. \A s \in Conv[v] \ then :
           Accounts(db, disk, v, was, rows, out) /\ s \notin out /\ TextsOf(e, s) = TextsOf(db, s)
    BY <1>4, <2>1
  <2> HIDE DEF was, rows, e, out, then
  <2>3. Accounts(e, disk, v, was, rows, then)
    BY <1>2, <2>1, <2>2, AccountsStill
  <2> QED BY <2>3 DEF was, rows
<1>10. StatesSeen(e, disk, clock)
  <2> HIDE DEF st, u, e
  <2> QED BY <1>1, <1>2, <1>6, SeenMoves
<1>11. Accounted(e, disk, h, then)
  <2> HIDE DEF u, st, lines, e, h, then
  <2> QED BY <1>1, <1>2, <1>8, <1>9, AccountedMoves
<1>12. FreshInv'
  <2> HIDE DEF next
  <2> QED BY <1>1, <1>2, <1>5, <1>10, StepFresh DEF RecordedInv
<1>13. Accounted(db', disk', ingested', doubt' \cup ahead')
  BY <1>1, <1>11
<1> QED BY <1>12, <1>13 DEF AccountedInv

LEMMA TouchUnitAccounted ==
    ASSUME AccountedInv, RecordedInv', NEW i \in Ingesters, TouchUnit(i)
    PROVE  AccountedInv'
<1> DEFINE job == ing[i]
           u == job.unit
           st == DoneState(job)
           lines == StandsFor(job)
           next == NextUnit(job)
           out == doubt \cup ahead
           then == doubt' \cup ahead'
           e == db'
           h == ingested'
<1>1. /\ Job(job) /\ job.pc = "store" /\ u \in Units
      /\ ing' = [ing EXCEPT ![i] = next] /\ h = [ingested EXCEPT ![u] = lines]
      /\ UNCHANGED <<disk, clock>>
  BY DEF AccountedInv, RecordedInv, IngestInv, TouchUnit, Job, JobType
<1>2. JobSound(disk, clock, job) /\ JobFresh(disk, clock, job) /\ RecordedInv /\ FreshInv
      /\ Accounted(db, disk, ingested, out)
  BY DEF AccountedInv, RecordedInv, FreshInv
<1>3. Finished(job, e, out, then) /\ StateIs(db, e, u, st)
  BY <1>2, TouchFinishes
<1>4. Ends(job, e, out, then)
  BY <1>1, <1>2, <1>3 DEF Ends
<1>5. JobFresh(disk, clock, next)
  BY <1>1, <1>2, NextUnitFresh, IdleTyped DEF Job, JobFresh
<1>6. StatesSeen(e, disk, clock)
  <2>1. /\ IsFile(u) => Seen(disk, clock, u, st.mtime)
        /\ ~IsFile(u) /\ st.cursor # None => Past(clock, st.cursor)
    BY <1>1, <1>2, DoneSeen
  <2> HIDE DEF st, u, e
  <2> QED BY <1>1, <1>2, <1>3, <2>1, SeenMoves
<1>7. Accounted(e, disk, h, then)
  <2>1. Accounts(e, disk, u, st, lines, then)
    BY <1>4, FinishedOwn
  <2>2. \A v \in Units \ {u} :
          Accounts(e, disk, v, IngestState(db, v), Recorded(db, ingested, v), then)
    BY <1>4, FinishedElsewhere
  <2> HIDE DEF u, st, lines, e, h, then
  <2> QED BY <1>1, <1>2, <1>3, <2>1, <2>2, AccountedMoves
<1>8. FreshInv'
  <2> HIDE DEF next
  <2> QED BY <1>1, <1>2, <1>5, <1>6, StepFresh DEF RecordedInv
<1>9. Accounted(db', disk', ingested', doubt' \cup ahead')
  BY <1>1, <1>7
<1> QED BY <1>8, <1>9 DEF AccountedInv

LEMMA LinkAccounted ==
    ASSUME AccountedInv, RecordedInv', NEW i \in Ingesters, Link(i)
    PROVE  AccountedInv'
<1> DEFINE sources == UNION {Conv[u] : u \in {u \in Units : Agent[u] = ing[i].agent}}
<1>1. /\ db' = LinkSubagents(db, sources) /\ ing' = [ing EXCEPT ![i] = Idle]
      /\ UNCHANGED <<disk, clock, ingested, doubt, ahead>>
  BY Zenon DEF Link
<1> HIDE DEF sources
<1>2. /\ \A u : IngestState(db', u) = IngestState(db, u)
      /\ \A s : TextsOf(db', s) = TextsOf(db, s)
  BY <1>1, LinkKeepsStore DEF AccountedInv, RecordedInv, IngestInv
<1>3. \A u : Recorded(db', ingested, u) = Recorded(db, ingested, u)
  BY <1>2 DEF Recorded
<1>4. StatesSeen(db', disk, clock)
  BY <1>2 DEF AccountedInv, FreshInv, StatesSeen
<1>5. JobFresh(disk, clock, Idle)
  BY RestingFresh DEF Idle
<1>6. FreshInv'
  BY <1>1, <1>4, <1>5, StepFresh DEF AccountedInv, RecordedInv
<1>7. Accounted(db', disk, ingested, doubt \cup ahead)
  <2> DEFINE out == doubt \cup ahead
  <2>1. Accounted(db, disk, ingested, out)
    BY DEF AccountedInv
  <2> HIDE DEF out
  <2>2. \A v, st, lines : Accounts(db, disk, v, st, lines, out) => Accounts(db', disk, v, st, lines, out)
    BY <1>2 DEF Accounts, Exact
  <2> QED BY <1>2, <1>3, <2>1, <2>2 DEF Accounted, out
<1> QED BY <1>1, <1>6, <1>7 DEF AccountedInv

LEMMA ToolsAccounted ==
    ASSUME AccountedInv, RecordedInv', Tools
    PROVE  AccountedInv'
<1> DEFINE e == disk'
           then == clock'
           late == ahead'
           was == doubt \cup ahead
           out == doubt \cup ahead'
<1>1. /\ IngestInv /\ DiskSound(disk, clock) /\ Timed(disk, clock)
      /\ StatesSeen(db, disk, clock)
      /\ \A i \in Ingesters : Job(ing[i]) /\ JobFresh(disk, clock, ing[i])
      /\ Accounted(db, disk, ingested, was)
  BY DEF AccountedInv, FreshInv, IngestInv
<1>2. /\ ahead \subseteq late /\ UNCHANGED <<db, ing, ingested, doubt>>
      /\ Timed(e, then) /\ Aged(disk, clock, e, then, late)
  BY <1>1, ToolsAge
<1>3. e \in [Units -> {Absent} \cup Written] /\ DiskSound(e, then)
  BY DEF RecordedInv, IngestInv, DiskTyped
<1>4. was \subseteq out /\ late \subseteq out
  BY <1>2
<1> HIDE DEF e, then, late, was, out
<1>5. StatesSeen(db, e, then)
  BY <1>1, <1>2, <1>3, StatesAge
<1>6. \A i \in Ingesters : JobFresh(e, then, ing[i])
  BY <1>1, <1>2, <1>3, JobAges
<1>7. Accounted(db, e, ingested, out)
  <2>1. ASSUME NEW v \in Units
        PROVE  Accounts(db, e, v, IngestState(db, v), Recorded(db, ingested, v), out)
    <3> DEFINE st == IngestState(db, v)
               lines == Recorded(db, ingested, v)
    <3>1. /\ Accounts(db, disk, v, st, lines, was)
          /\ st # None => /\ IsFile(v) => Seen(disk, clock, v, st.mtime)
                          /\ ~IsFile(v) /\ st.cursor # None => Past(clock, st.cursor)
      BY <1>1 DEF Accounted, StatesSeen
    <3> HIDE DEF st, lines
    <3>2. Accounts(db, e, v, st, lines, out)
      BY <1>1, <1>2, <1>3, <1>4, <3>1, AccountsAge
    <3> QED BY <3>2 DEF st, lines
  <2> QED BY <2>1 DEF Accounted
<1>8. FreshInv'
  <2>1. StatesSeen(db', disk', clock') /\ \A i \in Ingesters : JobFresh(disk', clock', ing'[i])
    BY <1>2, <1>5, <1>6 DEF e, then
  <2>2. IngestInv' /\ DiskSound(disk', clock') /\ Timed(disk', clock')
    BY <1>2 DEF RecordedInv, e, then
  <2> QED BY <2>1, <2>2 DEF FreshInv
<1>9. Accounted(db', disk', ingested', doubt' \cup ahead')
  BY <1>2, <1>7 DEF e, out
<1> QED BY <1>8, <1>9 DEF AccountedInv

----------------------------------------------------------------------------
(* The invariant and the theorems.                                         *)

LEMMA IngestInvInit == Init => IngestInv
<1> SUFFICES ASSUME Init PROVE IngestInv
  OBVIOUS
<1>1. /\ DOMAIN db = {"state", "sessions", "turns", "chunks"}
      /\ db.state = <<>> /\ db.sessions = <<>> /\ db.turns = <<>>
  BY DEF Init, EmptyStore
<1>2. DOMAIN db.state = {} /\ DOMAIN db.sessions = {} /\ DOMAIN db.turns = {}
  BY <1>1
<1>3. Numbered(db.turns) /\ Numbered(db.sessions)
  BY <1>2 DEF Numbered
<1>4. LastId(db.sessions) = 0
  BY <1>2, <1>3, LastIdFound
<1>5. Kin(db.sessions)
  BY <1>2, <1>3, <1>4 DEF Kin
<1>6. Store(db)
  BY <1>1, <1>2, <1>3, <1>5 DEF Store, StoreBut
<1>7. DiskTyped
  BY DEF Init, DiskTyped
<1>8. DOMAIN ing = Ingesters /\ \A i \in Ingesters : Job(ing[i])
  BY IdleTyped DEF Init
<1> QED BY <1>6, <1>7, <1>8 DEF Init, IngestInv

LEMMA IngestInvStep == IngestInv /\ [Next]_vars => IngestInv'
<1> SUFFICES ASSUME IngestInv, [Next]_vars PROVE IngestInv'
  OBVIOUS
<1>1. CASE Tools
  <2>1. ASSUME NEW u \in Units, AppendLine(u) \/ BeginLine(u) \/ RewriteFile(u)
        PROVE  IngestInv'
    BY <2>1, FileWritten, WriteStep
  <2> QED BY <1>1, <2>1, InsertRowStep, LateRowStep, ArchiveStep DEF Tools
<1>2. ASSUME NEW i \in Ingesters, Start(i) \/ Abort(i)
      PROVE  IngestInv'
  BY <1>2, StartStep, AbortStep
<1>3. ASSUME NEW i \in Ingesters, Pass(i)
      PROVE  IngestInv'
  BY <1>3, TakeStep, SnapshotCursorStep, ParseUnitStep, ParseFailsStep, MakeCursorStep,
     StoreSessionStep, TouchUnitStep, LinkStep DEF Pass
<1>4. CASE UNCHANGED vars
  <2>1. Store(db') /\ disk' = disk /\ clock' = clock /\ ing' = ing /\ doubt' = doubt
    BY <1>4 DEF vars, IngestInv
  <2> QED BY <2>1 DEF IngestInv, DiskTyped
<1> QED BY <1>1, <1>2, <1>3, <1>4 DEF Next

(***************************************************************************)
(* Whoever ingests, in any order, with any death in between: the link of a *)
(* subagent (store.rs, link_subagent_sessions) never leads to a session    *)
(* other than its parent, although row ids come back.                      *)
(***************************************************************************)
THEOREM LinksAreTrue == Spec => []LinksNeverMislead
<1>1. ASSUME IngestInv
      PROVE  LinksNeverMislead
  <2> SUFFICES ASSUME NEW c \in DOMAIN db.sessions,
                      db.sessions[c].parent \in DOMAIN db.sessions
               PROVE  db.sessions[db.sessions[c].parent].source
                        = ParentOf[db.sessions[c].source]
    BY DEF LinksNeverMislead
  <2>1. Kin(db.sessions)
    BY <1>1 DEF IngestInv, Store, StoreBut
  <2> QED BY <2>1, KinLinks
<1>2. IngestInv => LinksNeverMislead
  BY <1>1
<1> QED BY IngestInvInit, IngestInvStep, <1>2, PTL DEF Spec

(***************************************************************************)
(* The ties between the tables hold after every transaction: no turn       *)
(* without its session, one session of a source, turns numbered from 0     *)
(* without a gap and counted; and a pass stores only sessions it parsed.   *)
(***************************************************************************)
THEOREM IngestTypeCorrect == Spec => []TypeOK
<1>1. ASSUME IngestInv
      PROVE  TypeOK
  <2>1. \A i \in Ingesters : JobType(ing[i])
    BY <1>1 DEF IngestInv, Job
  <2>2. \A sid \in DOMAIN db.sessions : Counted(db, sid, db.sessions[sid].count)
    BY <1>1 DEF IngestInv, Store, StoreBut
  <2>3. /\ \A u \in DOMAIN db.state : db.state[u].bytes \in Nat
        /\ \A t \in DOMAIN db.turns : db.turns[t].session \in DOMAIN db.sessions
        /\ \A a, b \in DOMAIN db.sessions :
             db.sessions[a].source = db.sessions[b].source => a = b
    BY <1>1 DEF IngestInv, Store, StoreBut, Kin
  <2>4. doubt \subseteq Sources
    BY <1>1 DEF IngestInv
  <2> QED BY <2>1, <2>2, <2>3, <2>4 DEF TypeOK, Counted
<1>2. IngestInv => TypeOK
  BY <1>1
<1> QED BY IngestInvInit, IngestInvStep, <1>2, PTL DEF Spec

LEMMA RecordedInvInit == Init => RecordedInv
<1> SUFFICES ASSUME Init PROVE RecordedInv
  OBVIOUS
<1>1. /\ db.state = <<>> /\ disk = [u \in Units |-> Absent] /\ clock = 0
      /\ ing = [i \in Ingesters |-> Idle] /\ ingested = [u \in Units |-> <<>>]
  BY DEF Init, EmptyStore
<1>2. \A u : IngestState(db, u) = None
  BY <1>1 DEF IngestState
<1>3. \A u \in Units : RowsIn(disk, u) = <<>> /\ Recorded(db, ingested, u) = <<>>
  BY <1>1, <1>2 DEF RowsIn, Recorded
<1> DEFINE none == <<>>
<1>4. none \in Seq(Records) /\ Len(none) = 0 /\ DOMAIN none = {} /\ ConvsOf(none) = {}
  BY DEF ConvsOf
<1>5. \A u \in Units : RowsIn(disk, u) = none /\ Recorded(db, ingested, u) = none
  BY <1>3
<1> HIDE DEF none
<1>6. DiskSound(disk, clock)
  BY <1>1, <1>4, <1>5 DEF DiskSound, Own
<1>7. \A u \in Units : Resumes(disk, clock, u, none, None)
  <2> SUFFICES ASSUME NEW u \in Units PROVE Resumes(disk, clock, u, none, None)
    OBVIOUS
  <2>1. u \in Copies(u)
    BY DEF Copies
  <2>2. IsPrefix(none, none)
    BY <1>4, PrefixOfLonger
  <2>3. Follows(disk, u, none)
    BY <1>5, <2>1, <2>2 DEF Follows, Begins
  <2>4. Own(clock, u, none)
    BY <1>4 DEF Own
  <2> QED BY <1>4, <2>3, <2>4 DEF Resumes
<1>8. StateSound(db, disk, clock, ingested)
  <2>1. DOMAIN ingested = Units
    BY <1>1
  <2> QED BY <1>2, <1>5, <1>7, <2>1 DEF StateSound
<1>9. \A i \in Ingesters : JobSound(disk, clock, ing[i])
  <2>1. JobSound(disk, clock, Idle)
    BY RestingSound DEF Idle
  <2> QED BY <1>1, <2>1
<1>10. RecordedSound(db, disk, ingested, doubt)
  BY <1>4, <1>5 DEF RecordedSound
<1> QED BY <1>6, <1>8, <1>9, <1>10, IngestInvInit DEF RecordedInv

LEMMA RecordedInvStep == RecordedInv /\ [Next]_vars => RecordedInv'
<1> SUFFICES ASSUME RecordedInv, [Next]_vars PROVE RecordedInv'
  OBVIOUS
<1>1. IngestInv'
  BY IngestInvStep DEF RecordedInv
<1>2. CASE Tools
  BY <1>1, <1>2, ToolsRecorded
<1>3. ASSUME NEW i \in Ingesters, Start(i) \/ Abort(i)
      PROVE  RecordedInv'
  BY <1>1, <1>3, StartRecorded, AbortRecorded
<1>4. ASSUME NEW i \in Ingesters, Pass(i)
      PROVE  RecordedInv'
  BY <1>1, <1>4, TakeRecorded, SnapshotCursorRecorded, ParseUnitRecorded, ParseFailsRecorded,
     MakeCursorRecorded, StoreSessionRecorded, TouchUnitRecorded, LinkRecorded DEF Pass
<1>5. CASE UNCHANGED vars
  <2>1. UNCHANGED <<db, disk, clock, ing, ingested, doubt>>
    BY <1>5 DEF vars
  <2>2. /\ DiskSound(disk', clock') /\ StateSound(db', disk', clock', ingested')
        /\ RecordedSound(db', disk', ingested', doubt')
    BY <2>1 DEF RecordedInv
  <2>3. \A i \in Ingesters : JobSound(disk', clock', ing'[i])
    BY <2>1 DEF RecordedInv
  <2> QED BY <1>1, <2>2, <2>3 DEF RecordedInv
<1> QED BY <1>2, <1>3, <1>4, <1>5 DEF Next

(***************************************************************************)
(* Whoever ingests, while the tools append, rewrite and archive, with any  *)
(* death in between: the recorded state (ingest.rs, the state upserted     *)
(* with the last session) never runs ahead of the store.                   *)
(***************************************************************************)
THEOREM RecordedStaysStored == Spec => []RecordedIsStored
<1>1. ASSUME RecordedInv
      PROVE  RecordedIsStored
  <2> SUFFICES ASSUME NEW u \in Units, IsFile(u), disk[u] # Absent,
                      IsPrefix(Behind(u), Rows(u)), NEW s \in ConvsOf(Behind(u)) \ doubt
               PROVE  IsPrefix(TurnsOf(Behind(u), s), TextsOf(db, s))
    BY DEF RecordedIsStored
  <2> DEFINE lines == Behind(u)
             rows == Rows(u)
  <2>1. lines = Recorded(db, ingested, u) /\ rows = RowsIn(disk, u)
    BY <1>1, BehindIs DEF Rows, RowsIn
  <2>2. lines \in Seq(Records) /\ rows \in Seq(Records) /\ IsPrefix(lines, rows)
    BY <1>1, <2>1, RecordedHeld DEF RecordedInv, DiskSound, Own
  <2>3. Alive(disk, Recorded(db, ingested, u)) => Held(db, Recorded(db, ingested, u), doubt)
    BY <1>1, RecordedHeld
  <2> HIDE DEF lines, rows
  <2>4. ASSUME NEW n \in DOMAIN lines
        PROVE  n \in DOMAIN rows /\ rows[n] = lines[n]
    <3>1. Len(lines) \in Nat /\ Len(rows) \in Nat /\ DOMAIN lines = 1..Len(lines)
          /\ DOMAIN rows = 1..Len(rows)
      BY <2>2, LenProperties
    <3>2. Len(lines) <= Len(rows) /\ \A k \in 1..Len(lines) : lines[k] = rows[k]
      BY <2>2, PrefixMeans
    <3> QED BY <3>1, <3>2
  <2>5. Alive(disk, lines)
    BY <2>1, <2>4 DEF Alive, OnDisk
  <2>6. Held(db, lines, doubt)
    BY <2>1, <2>3, <2>5
  <2> QED BY <2>6 DEF Held, lines
<1>2. RecordedInv => RecordedIsStored
  BY <1>1
<1> QED BY RecordedInvInit, RecordedInvStep, <1>2, PTL DEF Spec

LEMMA AccountedInvInit == Init => AccountedInv
<1> SUFFICES ASSUME Init PROVE AccountedInv
  OBVIOUS
<1>1. /\ db.state = <<>> /\ disk = [u \in Units |-> Absent] /\ clock = 0
      /\ ing = [i \in Ingesters |-> Idle] /\ ingested = [u \in Units |-> <<>>]
  BY DEF Init, EmptyStore
<1>2. \A u : IngestState(db, u) = None
  BY <1>1 DEF IngestState
<1>3. \A u \in Units : RowsIn(disk, u) = <<>>
  BY <1>1 DEF RowsIn
<1>4. RecordedInv
  BY RecordedInvInit
<1>5. Timed(disk, clock)
  <2>1. \A u \in Units : DOMAIN RowsIn(disk, u) = {}
    BY <1>3
  <2> QED BY <1>1, <2>1 DEF Timed
<1>6. StatesSeen(db, disk, clock)
  BY <1>2 DEF StatesSeen
<1>7. \A i \in Ingesters : JobFresh(disk, clock, ing[i])
  <2>1. JobFresh(disk, clock, Idle)
    BY RestingFresh DEF Idle
  <2> QED BY <1>1, <2>1
<1>8. FreshInv
  BY <1>4, <1>5, <1>6, <1>7 DEF FreshInv, RecordedInv
<1>9. Accounted(db, disk, ingested, doubt \cup ahead)
  <2> DEFINE none == <<>>
  <2>1. \A v \in Units : Recorded(db, ingested, v) = none
    BY <1>2 DEF Recorded
  <2>2. none = <<>>
    OBVIOUS
  <2> HIDE DEF none
  <2> QED BY <1>2, <2>1, <2>2, AccountsNothing DEF Accounted
<1> QED BY <1>4, <1>8, <1>9 DEF AccountedInv

LEMMA AccountedInvStep == AccountedInv /\ [Next]_vars => AccountedInv'
<1> SUFFICES ASSUME AccountedInv, [Next]_vars PROVE AccountedInv'
  OBVIOUS
<1>1. RecordedInv'
  BY RecordedInvStep DEF AccountedInv
<1>2. FreshInv
  BY DEF AccountedInv
<1>3. CASE Tools
  BY <1>1, <1>3, ToolsAccounted
<1>4. ASSUME NEW i \in Ingesters, Start(i) \/ Take(i) \/ SnapshotCursor(i) \/ ParseUnit(i)
                                  \/ ParseFails(i) \/ MakeCursor(i) \/ Abort(i)
      PROVE  AccountedInv'
  <2>1. \E next : ing' = [ing EXCEPT ![i] = next] /\ JobFresh(disk, clock, next)
    BY <1>2, <1>4, StartFresh, TakeFresh, SnapshotCursorFresh, ParseUnitFresh, ParseFailsFresh,
       MakeCursorFresh, AbortFresh DEF Abort, AccountedInv
  <2>2. UNCHANGED <<db, disk, clock, ingested, doubt, ahead>>
    BY <1>4 DEF Start, Take, SnapshotCursor, ParseUnit, ParseFails, MakeCursor, Abort
  <2> QED BY <1>1, <2>1, <2>2, ReadAccounted
<1>5. ASSUME NEW i \in Ingesters, StoreSession(i) \/ TouchUnit(i) \/ Link(i)
      PROVE  AccountedInv'
  BY <1>1, <1>5, StoreLastAccounted, StoreFirstAccounted, TouchUnitAccounted, LinkAccounted
<1>6. CASE UNCHANGED vars
  <2>1. UNCHANGED <<db, disk, clock, ing, ingested, doubt, ahead>>
    BY <1>6 DEF vars
  <2>2. /\ DiskSound(disk', clock') /\ Timed(disk', clock') /\ StatesSeen(db', disk', clock')
        /\ \A i \in Ingesters : JobFresh(disk', clock', ing'[i])
    BY <1>2, <2>1 DEF FreshInv
  <2>3. Accounted(db', disk', ingested', doubt' \cup ahead')
    BY <2>1 DEF AccountedInv
  <2> QED BY <1>1, <2>2, <2>3 DEF AccountedInv, FreshInv, RecordedInv
<1> QED BY <1>3, <1>4, <1>5, <1>6 DEF Next, Pass

\* What is classified as unchanged has a recorded state with its time, or
\* with its latest message.
LEMMA ClassifyUnchanged ==
    ASSUME NEW u, NEW seen, NEW st, Classify(u, seen, st) = Unchanged
    PROVE  /\ st # None
           /\ IsFile(u) => st.mtime = seen.mtime
           /\ ~IsFile(u) => st.cursor # None /\ MaxCursor(u) = st.cursor
<1>1. /\ New.kind = "new" /\ Rewritten.kind = "rewritten" /\ Unchanged.kind = "unchanged"
      /\ \A n : Appended(n).kind = "appended"
  BY DEF New, Rewritten, Unchanged, Appended
<1>2. CASE ~IsFile(u)
  <2>1. ClassifyDatabase(u, st).kind = "unchanged"
    BY <1>1, <1>2 DEF Classify
  <2>2. st # None /\ st.cursor # None /\ MaxCursor(u) = st.cursor
    BY <1>1, <2>1 DEF ClassifyDatabase
  <2> QED BY <1>2, <2>2
<1>3. CASE IsFile(u)
  <2> DEFINE change == ClassifyFile(seen, st)
  <2>1. Classify(u, seen, st) =
          IF change.kind = "appended" /\ ~AppendValid(u, st) THEN Rewritten ELSE change
    BY <1>3 DEF Classify
  <2>2. change.kind = "unchanged"
    <3> HIDE DEF change
    <3> QED BY <1>1, <2>1
  <2>3. st # None /\ st.mtime = seen.mtime
    BY <1>1, <2>2 DEF ClassifyFile
  <2> QED BY <1>3, <2>3
<1> QED BY <1>2, <1>3

(***************************************************************************)
(* Whoever ingests, while the tools write and with any death in between:   *)
(* of a unit that the next pass would skip as unchanged (adapter.classify) *)
(* every conversation has all its turns in the store, each once, in order, *)
(* but for those that the history variables excuse.                        *)
(***************************************************************************)
THEOREM UnchangedStaysStored == Spec => []UnchangedIsStored
<1>1. ASSUME AccountedInv
      PROVE  UnchangedIsStored
  <2> DEFINE out == doubt \cup ahead
  <2> SUFFICES ASSUME NEW u \in Units, Settled(u),
                      NEW s \in ConvsOf(Rows(u)) \ out
               PROVE  TextsOf(db, s) = TurnsOf(Rows(u), s)
    BY DEF UnchangedIsStored
  <2> DEFINE st == IngestState(db, u)
             rows == RowsIn(disk, u)
  <2>1. Rows(u) = rows
    BY DEF Rows, RowsIn
  <2>2. disk[u] # Absent /\ Classify(u, Stamp(u), st) = Unchanged
    BY DEF Settled
  <2>3. Accounts(db, disk, u, st, Recorded(db, ingested, u), out)
    BY <1>1 DEF AccountedInv, Accounted
  <2> HIDE DEF st, out
  <2>4. /\ st # None
        /\ IsFile(u) => st.mtime = disk[u].mtime
        /\ ~IsFile(u) => st.cursor # None /\ MaxCursor(u) = st.cursor
    <3>1. Stamp(u).mtime = disk[u].mtime
      BY DEF Stamp
    <3> QED BY <2>2, <3>1, ClassifyUnchanged
  <2>5. CASE IsFile(u)
    BY <2>1, <2>2, <2>3, <2>4, <2>5 DEF Accounts, Exact
  <2>6. CASE ~IsFile(u)
    <3>1. \A i \in DOMAIN rows : rows[i].at <= st.cursor
      <4>1. \A i \in DOMAIN rows : rows[i].at <= disk[u].mtime
        BY <1>1, <2>2, <2>6 DEF AccountedInv, FreshInv, Timed
      <4>2. st.cursor = disk[u].mtime
        BY <2>2, <2>4, <2>6 DEF MaxCursor
      <4> QED BY <4>1, <4>2
    <3>2. Older(rows, s, st.cursor)
      BY <3>1 DEF Older
    <3> QED BY <2>1, <2>3, <2>4, <2>6, <3>2 DEF Accounts
  <2> QED BY <2>5, <2>6
<1>2. AccountedInv => UnchangedIsStored
  BY <1>1
<1> QED BY AccountedInvInit, AccountedInvStep, <1>2, PTL DEF Spec

=============================================================================
