------------------------- MODULE SessionDraft_proofs -------------------------
(***************************************************************************)
(* What the owner of a session promises whoever commits to it, for any     *)
(* number of turns, follow-ups, deliveries and events.                     *)
(***************************************************************************)
EXTENDS SessionDraft, SequenceTheorems, WellFoundedInduction, TLAPS

Whats == {"in", "row", "mark", "part", "intr", "out", "delivery"}
Message == [what : Whats, by : Turns \cup Followups \cup Deliveries \cup Nat, gen : Nat]

Session ==
  [gen : Nat, rev : Nat, msgs : Seq(Message), journal : SUBSET Followups,
   pending : BOOLEAN, ckpt : Turns \cup {Nobody}, title : Nat, arch : Nat]

Draft ==
  [base : Session, msgs : Seq(Message), pending : BOOLEAN,
   ckpt : Turns \cup {Nobody}, title : Nat, arch : Nat,
   consumed : SUBSET Followups, run : Seq(Message)]

Statuses == {"idle", "open", "prepared", "saved", "done", "cancelled",
             "salvaging", "stopped", "refused", "dead"}

Pure(msgs, g) == \A i \in DOMAIN msgs : msgs[i].gen = g
Authors(msgs) == {msgs[i].by : i \in DOMAIN msgs}

(* A version of the session when g generations were issued and e events    *)
(* have happened.                                                          *)
Sound(s, g, e) ==
  /\ s \in Session
  /\ s.gen <= g /\ s.title <= e /\ s.arch <= Len(s.msgs)
  /\ Pure(s.msgs, s.gen)
  /\ s.gen = 0 => s = NoRow

(* Between two steps a turn holds a copy of the version it was given, and  *)
(* beside it only the records of its running model loop.                   *)
Copy(d, g, e) ==
  /\ d \in Draft
  /\ Sound(d.base, g, e) /\ d.base.rev = 0
  /\ d.msgs = d.base.msgs /\ d.pending = d.base.pending /\ d.ckpt = d.base.ckpt
  /\ d.title = d.base.title /\ d.arch = d.base.arch /\ d.consumed = {}
  /\ Pure(d.run, d.base.gen)

(* The snapshot is never ahead of the row, and level with it is the row.   *)
Cached ==
  snap.gen = row.gen =>
    /\ snap.rev <= row.rev
    /\ snap.rev = row.rev => snap = row

Versions ==
  /\ gens \in Nat /\ events \in 0 .. MaxEvents
  /\ Sound(row, gens, events) /\ Sound(snap, gens, events)
  /\ Sound(source, gens, events)
  /\ Cached

TurnOK(d, st, g, e) ==
  /\ st \in Statuses /\ Copy(d, g, e)
  /\ st \in {"open", "prepared", "saved", "salvaging"} => d.base.gen # 0
  /\ st = "prepared" => d.msgs # <<>>

Drafts ==
  /\ draft \in [Turns -> Draft] /\ status \in [Turns -> Statuses]
  /\ \A c \in Turns : TurnOK(draft[c], status[c], gens, events)

Rest ==
  /\ retired \in BOOLEAN
  /\ holder \in Turns \cup {Nobody, Compactor}
  /\ holder = Compactor => source.gen # 0
  /\ stop \in [turn : Turns \cup {Nobody}, ids : SUBSET Followups]
  /\ inbox \subseteq Followups /\ acked \subseteq Followups
  /\ delivered \subseteq Deliveries
  /\ journaled \in [Followups -> Nat]
  /\ \A f \in Followups : journaled[f] <= gens

(* The checkpoint of turn c is in the row only while c is on its way to    *)
(* drop it, and c then knows of it.                                        *)
CheckpointKnown ==
  \A c \in Turns : row.ckpt = c =>
    /\ status[c] \notin {"idle", "open", "saved", "done", "stopped"}
    /\ status[c] \in {"prepared", "salvaging"} => draft[c].base.ckpt = c

Known(S) == \A f \in S \cap Followups : journaled[f] # 0

(* A follow-up is in the journal or has its row, not both, and one that    *)
(* was journaled in the living generation is accounted for.                *)
Accounted ==
  \A f \in Followups :
    /\ ~(f \in row.journal /\ f \in Authors(row.msgs))
    /\ row.gen # 0 /\ journaled[f] = row.gen =>
         f \in row.journal \/ f \in Authors(row.msgs) \/ f \in acked

(* Every record of a is in b, in the order it has in a.                    *)
Keeps(a, b) ==
  \E f \in [1 .. Len(a) -> 1 .. Len(b)] :
    /\ \A i \in 1 .. Len(a) : b[f[i]] = a[i]
    /\ \A i, j \in 1 .. Len(a) : i < j => f[i] < f[j]

(* What a step does to the committed row: the records and the title of a   *)
(* generation stay, or the generation ends.                                *)
Moved ==
  \/ row'.gen = row.gen /\ Keeps(row.msgs, row'.msgs) /\ row.title <= row'.title
  \/ row'.gen = 0 \/ row'.gen = gens + 1

(* Whatever carries a follow-up got it after it was journaled.             *)
RowFollowups == Known(row.journal) /\ Known(Authors(row.msgs)) /\ Accounted
TurnFollowups == Known(inbox) /\ \A c \in Turns : Known(Authors(draft[c].run))

IInv ==
  Versions /\ Drafts /\ Rest /\ CheckpointKnown /\ RowFollowups /\ TurnFollowups

-----------------------------------------------------------------------------
(* Numbers and sequences.                                                  *)

(* A set of naturals has a least element.                                  *)
LEMMA LeastExists ==
  ASSUME NEW T \in SUBSET Nat, T # {}
  PROVE  \E x \in T : \A y \in T : x <= y
<1>1. PICK x \in T : \A y \in T : ~ (<<y, x>> \in OpToRel(<, Nat))
  BY WFMin, NatLessThanWellFounded
<1>2. \A y \in T : ~(y < x)
  BY <1>1 DEF OpToRel
<1> QED
  BY <1>2

(* Max is what it says on a bounded set: its CHOOSE has a witness.         *)
LEMMA MaxBounded ==
  ASSUME NEW n \in Nat, NEW S \in SUBSET (0 .. n), S # {}
  PROVE  Max(S) \in S /\ \A y \in S : y <= Max(S)
<1> DEFINE T == {k \in 0 .. n : n - k \in S}
<1>1. T # {} /\ T \in SUBSET Nat
  <2>1. PICK y \in S : TRUE
    OBVIOUS
  <2>2. n - y \in T
    BY <2>1
  <2>3. T \subseteq Nat
    OBVIOUS
  <2> HIDE DEF T
  <2> QED
    BY <2>2, <2>3
<1>2. PICK x \in T : \A y \in T : x <= y
  BY <1>1, LeastExists
<1>3. n - x \in S /\ \A y \in S : n - x >= y
  <2>1. \A y \in S : n - y \in T
    OBVIOUS
  <2> QED
    BY <1>2, <2>1
<1> QED
  BY <1>3 DEF Max

(* A stretch of a sequence.                                                *)
LEMMA Stretch ==
  ASSUME NEW S, NEW s \in Seq(S), NEW m \in 1 .. Len(s) + 1, NEW n \in m - 1 .. Len(s)
  PROVE  /\ SubSeq(s, m, n) \in Seq(S)
         /\ Len(SubSeq(s, m, n)) = n - m + 1
         /\ \A i \in 1 .. n - m + 1 : SubSeq(s, m, n)[i] = s[m + i - 1]
<1>1. m \in Int /\ n \in Int /\ \A i \in m .. n : s[i] \in S
  BY ElementOfSeq
<1> QED
  BY <1>1, SubSeqProperties

(* A sequence whose first n elements were kept and whose others were       *)
(* written anew.                                                           *)
LEMMA Rewritten ==
  ASSUME NEW S, NEW s \in Seq(S), NEW t \in Seq(S),
         NEW n \in 0 .. Len(s), n <= Len(t), SubSeq(s, 1, n) = SubSeq(t, 1, n)
  PROVE  SubSeq(s, 1, n) \o SubSeq(t, n + 1, Len(t)) = t
<1>1. SubSeq(t, 1, n) \o SubSeq(t, n + 1, Len(t)) = SubSeq(t, 1, Len(t))
  <2>1. 1 \in 1 .. Len(t) + 1 /\ n \in 1 - 1 .. Len(t) /\ Len(t) \in n .. Len(t)
    OBVIOUS
  <2> QED
    BY <2>1, ConcatAdjacentSubSeq
<1> QED
  BY <1>1, SubSeqFull

(* A sequence followed by what another one has beyond its first n elements *)
IsExtension(u, s, t, n) ==
  /\ Len(u) = Len(s) + Len(t) - n
  /\ \A i \in 1 .. Len(s) : u[i] = s[i]
  /\ \A i \in n + 1 .. Len(t) : u[Len(s) + i - n] = t[i]
  /\ \A i \in Len(s) + 1 .. Len(u) : u[i] = t[i - Len(s) + n]

LEMMA Extended ==
  ASSUME NEW S, NEW s \in Seq(S), NEW t \in Seq(S), NEW n \in 0 .. Len(t)
  PROVE  /\ s \o SubSeq(t, n + 1, Len(t)) \in Seq(S)
         /\ IsExtension(s \o SubSeq(t, n + 1, Len(t)), s, t, n)
<1> DEFINE v == SubSeq(t, n + 1, Len(t))
<1>1. v \in Seq(S) /\ Len(v) = Len(t) - n /\ \A i \in 1 .. Len(t) - n : v[i] = t[n + i]
  BY Stretch
<1> HIDE DEF v
<1>2. /\ s \o v \in Seq(S) /\ Len(s \o v) = Len(s) + Len(v)
      /\ \A i \in 1 .. Len(s) + Len(v) :
           (s \o v)[i] = IF i <= Len(s) THEN s[i] ELSE v[i - Len(s)]
  BY <1>1, ConcatProperties
<1>3. \A i \in n + 1 .. Len(t) : (s \o v)[Len(s) + i - n] = t[i]
  <2> TAKE i \in n + 1 .. Len(t)
  <2>1. Len(s) + i - n \in 1 .. Len(s) + Len(v) /\ ~(Len(s) + i - n <= Len(s))
    BY <1>1
  <2>2. (s \o v)[Len(s) + i - n] = v[i - n]
    BY <1>2, <2>1
  <2> QED
    BY <1>1, <2>2
<1>4. \A i \in Len(s) + 1 .. Len(s \o v) : (s \o v)[i] = t[i - Len(s) + n]
  <2> TAKE i \in Len(s) + 1 .. Len(s \o v)
  <2>1. (s \o v)[i] = v[i - Len(s)]
    BY <1>1, <1>2
  <2>2. i - Len(s) \in 1 .. Len(t) - n
    BY <1>1, <1>2
  <2>3. v[i - Len(s)] = t[n + (i - Len(s))]
    BY <1>1, <2>2
  <2>4. n + (i - Len(s)) = i - Len(s) + n
    OBVIOUS
  <2> QED
    BY <2>1, <2>3, <2>4
<1>5. \A i \in 1 .. Len(s) : (s \o v)[i] = s[i]
  BY <1>1, <1>2
<1>6. Len(s \o v) = Len(s) + Len(t) - n
  BY <1>1, <1>2
<1> QED
  BY <1>2, <1>3, <1>4, <1>5, <1>6 DEF v, IsExtension

(* A sequence with one element put in its midst.                           *)
LEMMA Inserted ==
  ASSUME NEW S, NEW s \in Seq(S), NEW x \in S, NEW j \in 1 .. Len(s) + 1
  PROVE  LET u == InsertAt(s, j, x) IN
         /\ u \in Seq(S) /\ Len(u) = Len(s) + 1
         /\ \A i \in 1 .. j - 1 : u[i] = s[i]
         /\ u[j] = x
         /\ \A i \in j .. Len(s) : u[i + 1] = s[i]
<1> DEFINE a == SubSeq(s, 1, j - 1)
           b == SubSeq(s, j, Len(s))
           w == a \o <<x>>
<1>1. a \in Seq(S) /\ Len(a) = j - 1 /\ \A i \in 1 .. j - 1 : a[i] = s[i]
  BY Stretch
<1>2. /\ b \in Seq(S) /\ Len(b) = Len(s) - j + 1
      /\ \A i \in 1 .. Len(s) - j + 1 : b[i] = s[j + i - 1]
  <2>1. Len(s) \in j - 1 .. Len(s)
    OBVIOUS
  <2> QED
    BY <2>1, Stretch
<1>3. InsertAt(s, j, x) = w \o b
  BY DEF InsertAt
<1> HIDE DEF a, b
<1>4. <<x>> \in Seq(S) /\ Len(<<x>>) = 1 /\ <<x>>[1] = x
  OBVIOUS
<1>5. /\ w \in Seq(S) /\ Len(w) = j
      /\ \A i \in 1 .. j - 1 : w[i] = s[i]
      /\ w[j] = x
  <2>1. /\ w \in Seq(S) /\ Len(w) = Len(a) + Len(<<x>>)
        /\ \A i \in 1 .. Len(a) + Len(<<x>>) :
             w[i] = IF i <= Len(a) THEN a[i] ELSE <<x>>[i - Len(a)]
    BY <1>1, <1>4, ConcatProperties
  <2>2. Len(a) + Len(<<x>>) = j /\ j \in 1 .. j /\ ~(j <= Len(a)) /\ j - Len(a) = 1
    BY <1>1, <1>4
  <2>3. w[j] = x
    BY <1>4, <2>1, <2>2
  <2>4. ASSUME NEW i \in 1 .. j - 1
        PROVE  w[i] = s[i]
    <3>1. i \in 1 .. Len(a) + Len(<<x>>) /\ i <= Len(a)
      BY <1>1, <2>2
    <3>2. w[i] = a[i]
      BY <2>1, <3>1
    <3> QED
      BY <1>1, <3>2
  <2> HIDE DEF w
  <2>5. w \in Seq(S) /\ Len(w) = j
    BY <2>1, <2>2
  <2> QED
    BY <2>3, <2>4, <2>5
<1> HIDE DEF w
<1>6. /\ w \o b \in Seq(S) /\ Len(w \o b) = Len(s) + 1
      /\ \A i \in 1 .. Len(w) + Len(b) :
           (w \o b)[i] = IF i <= Len(w) THEN w[i] ELSE b[i - Len(w)]
  <2>1. /\ w \o b \in Seq(S) /\ Len(w \o b) = Len(w) + Len(b)
        /\ \A i \in 1 .. Len(w) + Len(b) :
             (w \o b)[i] = IF i <= Len(w) THEN w[i] ELSE b[i - Len(w)]
    BY <1>2, <1>5, ConcatProperties
  <2> QED
    BY <1>2, <1>5, <2>1
<1>7. \A i \in j .. Len(s) : (w \o b)[i + 1] = s[i]
  <2> TAKE i \in j .. Len(s)
  <2>1. (w \o b)[i + 1] = b[i + 1 - j]
    BY <1>2, <1>5, <1>6
  <2>2. i + 1 - j \in 1 .. Len(s) - j + 1 /\ j + (i + 1 - j) - 1 = i
    OBVIOUS
  <2>3. b[i + 1 - j] = s[j + (i + 1 - j) - 1]
    BY <1>2, <2>2
  <2> QED
    BY <2>1, <2>2, <2>3
<1>8. (\A i \in 1 .. j - 1 : (w \o b)[i] = s[i]) /\ (w \o b)[j] = x
  BY <1>2, <1>5, <1>6
<1> QED
  BY <1>3, <1>6, <1>7, <1>8

(* A sequence keeps what it begins with.                                   *)
LEMMA KeepsStart ==
  ASSUME NEW a \in Seq(Message), NEW b \in Seq(Message), Len(a) <= Len(b),
         \A i \in 1 .. Len(a) : b[i] = a[i]
  PROVE  Keeps(a, b)
<1> DEFINE f == [i \in 1 .. Len(a) |-> i]
<1>1. \A i \in 1 .. Len(a) : i \in 1 .. Len(b)
  OBVIOUS
<1>2. f \in [1 .. Len(a) -> 1 .. Len(b)] /\ \A i \in 1 .. Len(a) : f[i] = i
  BY <1>1
<1> HIDE DEF f
<1>3. \A i \in 1 .. Len(a) : b[f[i]] = a[i]
  BY <1>2
<1>4. \A i, j \in 1 .. Len(a) : i < j => f[i] < f[j]
  BY <1>2
<1> QED
  BY <1>2, <1>3, <1>4 DEF Keeps

LEMMA KeepsChain ==
  ASSUME NEW a \in Seq(Message), NEW b \in Seq(Message), NEW c \in Seq(Message),
         Keeps(a, b), Keeps(b, c)
  PROVE  Keeps(a, c)
<1>1. PICK f \in [1 .. Len(a) -> 1 .. Len(b)] :
        /\ \A i \in 1 .. Len(a) : b[f[i]] = a[i]
        /\ \A i, j \in 1 .. Len(a) : i < j => f[i] < f[j]
  BY DEF Keeps
<1>2. PICK g \in [1 .. Len(b) -> 1 .. Len(c)] :
        /\ \A i \in 1 .. Len(b) : c[g[i]] = b[i]
        /\ \A i, j \in 1 .. Len(b) : i < j => g[i] < g[j]
  BY DEF Keeps
<1> DEFINE h == [i \in 1 .. Len(a) |-> g[f[i]]]
<1>3. /\ h \in [1 .. Len(a) -> 1 .. Len(c)]
      /\ \A i \in 1 .. Len(a) : h[i] = g[f[i]] /\ f[i] \in 1 .. Len(b)
  BY <1>1, <1>2
<1> HIDE DEF h
<1>4. \A i \in 1 .. Len(a) : c[h[i]] = a[i]
  BY <1>1, <1>2, <1>3
<1>5. \A i, j \in 1 .. Len(a) : i < j => h[i] < h[j]
  BY <1>1, <1>2, <1>3
<1> QED
  BY <1>3, <1>4, <1>5 DEF Keeps

-----------------------------------------------------------------------------
(* The owner.                                                              *)

(* What _load reuses is what the table holds.                              *)
LEMMA LoadedIsRow ==
  ASSUME Versions
  PROVE  Loaded = row /\ row \in Session
BY DEF Versions, Cached, Loaded, Sound, Session

(* save leaves in the table what it was given, and publishes the same.     *)
LEMMA CommitSaves ==
  ASSUME Versions, NEW s \in Session, Commit(s)
  PROVE  row' = [s EXCEPT !.rev = @ + 1] /\ snap' = row'
<1> DEFINE a == row.msgs
           b == s.msgs
           S == {n \in 0 .. Len(a) : n <= Len(b) /\ SubSeq(a, 1, n) = SubSeq(b, 1, n)}
           n == ChangedStart(a, b)
<1>1. a \in Seq(Message) /\ b \in Seq(Message) /\ Loaded.msgs = a
  BY LoadedIsRow DEF Session
<1>2. n \in S
  <2>1. 0 \in S
    BY <1>1, SubSeqEmpty
  <2>2. S \in SUBSET (0 .. Len(a)) /\ Len(a) \in Nat
    BY <1>1
  <2>3. n = Max(S)
    BY DEF ChangedStart
  <2> HIDE DEF S, n
  <2> QED
    BY <2>1, <2>2, <2>3, MaxBounded
<1>3. SubSeq(a, 1, n) \o SubSeq(b, n + 1, Len(b)) = b
  <2> HIDE DEF n
  <2> QED
    BY <1>1, <1>2, Rewritten
<1>4. row' = Saved(s, n) /\ snap' = [s EXCEPT !.rev = @ + 1]
  BY <1>1 DEF Commit
<1> HIDE DEF n
<1> QED
  BY <1>3, <1>4 DEF Saved, Session

-----------------------------------------------------------------------------
(* The merge.                                                              *)

(* A draft as a turn submits it: records were added to those of its        *)
(* baseline, the checkpoint at most dropped, and the follow-ups it claims  *)
(* to have consumed are those it added.                                    *)
Proposal(d) ==
  /\ d \in Draft
  /\ Sound(d.base, gens, events)
  /\ d.title = d.base.title
  /\ d.ckpt \in {d.base.ckpt, Nobody}
  /\ Pure(d.msgs, d.base.gen)
  /\ Len(d.base.msgs) <= Len(d.msgs) /\ d.arch <= Len(d.msgs)
  /\ Keeps(d.base.msgs, d.msgs)
  /\ Authors(d.base.msgs) \subseteq Authors(d.msgs)
  /\ Authors(d.msgs) \cap Followups \subseteq Authors(d.base.msgs) \cup d.consumed
  /\ d.consumed \subseteq Authors(d.msgs)
  /\ d.msgs = d.base.msgs => d.arch = d.base.arch /\ d.consumed = {}

LEMMA PrefixSame ==
  ASSUME NEW b \in Seq(Message), NEW m \in Seq(Message), IsPrefix(b, m)
  PROVE  Len(b) <= Len(m) /\ \A i \in 1 .. Len(b) : m[i] = b[i]
<1>1. Len(b) <= Len(m) /\ SubSeq(b, 1, Len(b)) = SubSeq(m, 1, Len(b))
  BY DEF IsPrefix
<1>2. 1 \in 1 .. Len(m) + 1 /\ Len(b) \in 1 - 1 .. Len(m) /\ Len(b) - 1 + 1 = Len(b)
  BY <1>1
<1>3. \A i \in 1 .. Len(b) - 1 + 1 : SubSeq(m, 1, Len(b))[i] = m[1 + i - 1]
  BY <1>2, Stretch
<1>4. \A i \in 1 .. Len(b) : 1 + i - 1 = i
  OBVIOUS
<1> QED
  BY <1>1, <1>2, <1>3, <1>4, SubSeqFull

LEMMA PrefixAuthors ==
  ASSUME NEW b \in Seq(Message), NEW m \in Seq(Message), IsPrefix(b, m)
  PROVE  Authors(b) \subseteq Authors(m)
BY PrefixSame DEF Authors

(* A history appended to one that grew from the same baseline.             *)
LEMMA MergedHistory ==
  ASSUME NEW b \in Seq(Message), NEW m \in Seq(Message), NEW r \in Seq(Message),
         IsPrefix(b, m), IsPrefix(b, r)
  PROVE  LET u == r \o SubSeq(m, Len(b) + 1, Len(m)) IN
         /\ u \in Seq(Message)
         /\ Len(u) = Len(r) + Len(m) - Len(b) /\ Len(m) <= Len(u) /\ Len(r) <= Len(u)
         /\ Authors(u) = Authors(r) \cup Authors(m) /\ Keeps(r, u)
         /\ \A g : Pure(r, g) /\ Pure(m, g) => Pure(u, g)
<1> DEFINE n == Len(b)
           u == r \o SubSeq(m, n + 1, Len(m))
<1>1. n <= Len(m) /\ n <= Len(r) /\ n \in Nat /\ n \in 0 .. Len(m)
  BY DEF IsPrefix
<1>2. \A i \in 1 .. n : m[i] = b[i] /\ r[i] = b[i]
  BY PrefixSame
<1>3. /\ u \in Seq(Message) /\ Len(u) = Len(r) + Len(m) - n
      /\ \A i \in 1 .. Len(r) : u[i] = r[i]
      /\ \A i \in n + 1 .. Len(m) : u[Len(r) + i - n] = m[i]
      /\ \A i \in Len(r) + 1 .. Len(u) : u[i] = m[i - Len(r) + n]
  <2>1. n \in 0 .. Len(m)
    BY <1>1
  <2>2. u \in Seq(Message) /\ IsExtension(u, r, m, n)
    <3> HIDE DEF n
    <3> QED
      BY <2>1, Extended
  <2> HIDE DEF u, n
  <2> QED
    BY <2>2 DEF IsExtension
<1> HIDE DEF u, n
<1>4. Len(m) <= Len(u) /\ Len(r) <= Len(u)
  BY <1>1, <1>3
<1>5. \A i \in 1 .. Len(u) :
        \/ i \in 1 .. Len(r) /\ u[i] = r[i]
        \/ \E k \in 1 .. Len(m) : u[i] = m[k]
  <2> TAKE i \in 1 .. Len(u)
  <2>1. CASE i <= Len(r)
    BY <1>3, <2>1
  <2>2. CASE i > Len(r)
    <3>1. i - Len(r) + n \in 1 .. Len(m) /\ i \in Len(r) + 1 .. Len(u)
      BY <1>1, <1>3, <2>2
    <3> QED
      BY <1>3, <3>1
  <2> QED
    BY <1>3, <2>1, <2>2
<1>6. \A k \in 1 .. Len(m) : \E i \in 1 .. Len(u) : u[i] = m[k]
  <2> TAKE k \in 1 .. Len(m)
  <2>1. CASE k <= n
    <3>1. k \in 1 .. Len(u) /\ u[k] = r[k] /\ r[k] = m[k]
      BY <1>1, <1>2, <1>3, <2>1
    <3> QED
      BY <3>1
  <2>2. CASE k > n
    <3>1. Len(r) + k - n \in 1 .. Len(u) /\ k \in n + 1 .. Len(m)
      BY <1>1, <1>3, <2>2
    <3> QED
      BY <1>3, <3>1
  <2> QED
    BY <1>1, <2>1, <2>2
<1>7. Authors(u) = Authors(r) \cup Authors(m)
  <2>1. Authors(u) \subseteq Authors(r) \cup Authors(m)
    BY <1>3, <1>5 DEF Authors
  <2>2. Authors(m) \subseteq Authors(u)
    <3>1. ASSUME NEW a \in Authors(m)  PROVE a \in Authors(u)
      <4>1. PICK k \in 1 .. Len(m) : a = m[k].by
        BY DEF Authors
      <4>2. PICK i \in 1 .. Len(u) : u[i] = m[k]
        BY <1>6
      <4>3. i \in DOMAIN u
        BY <1>3, <4>2
      <4> QED
        BY <4>1, <4>2, <4>3 DEF Authors
    <3> QED
      BY <3>1
  <2>3. Authors(r) \subseteq Authors(u)
    BY <1>3, <1>4 DEF Authors
  <2> QED
    BY <2>1, <2>2, <2>3
<1>8. \A g : Pure(r, g) /\ Pure(m, g) => Pure(u, g)
  BY <1>3, <1>5 DEF Pure
<1>9. Keeps(r, u)
  BY <1>3, <1>4, KeepsStart
<1> QED
  BY <1>3, <1>4, <1>7, <1>8, <1>9 DEF u, n

(* A merge changes no version but the row's, keeps what the row holds and  *)
(* takes from the journal what gets its row.                               *)
LEMMA MergedIs ==
  ASSUME Versions, NEW d, Proposal(d), Mergeable(d)
  PROVE  LET m == Merged(d) IN
         /\ Sound(m, gens, events)
         /\ row.gen # 0 /\ m.gen = row.gen /\ m.gen = d.base.gen
         /\ m.rev = row.rev /\ m.title = row.title
         /\ m.journal = row.journal \ d.consumed
         /\ m.ckpt \in {row.ckpt, Nobody}
         /\ d.ckpt = Nobody /\ d.base.ckpt # Nobody => m.ckpt = Nobody
         /\ d.msgs # d.base.msgs => Len(d.msgs) <= Len(m.msgs)
         /\ Keeps(row.msgs, m.msgs)
         /\ Authors(row.msgs) \subseteq Authors(m.msgs)
         /\ d.consumed \subseteq Authors(m.msgs)
         /\ Authors(m.msgs) \cap Followups \subseteq Authors(row.msgs) \cup d.consumed
<1> DEFINE m == Merged(d)
<1>1. row \in Session /\ row.gen # 0 /\ Current(d) = row /\ row.gen = d.base.gen
  BY LoadedIsRow DEF Mergeable, Current
<1>2. m = [row EXCEPT
             !.msgs = MergedMessages(d),
             !.journal = row.journal \ d.consumed,
             !.pending = Merge(d.base.pending, d.pending, row.pending),
             !.ckpt = Merge(d.base.ckpt, d.ckpt, row.ckpt),
             !.title = Merge(d.base.title, d.title, row.title),
             !.arch = Merge(d.base.arch, d.arch, row.arch)]
  BY <1>1 DEF Merged, MergedJournal
<1>3. d \in Draft /\ Sound(d.base, gens, events) /\ d.base \in Session
  BY DEF Proposal, Sound
<1>4. Sound(row, gens, events) /\ gens \in Nat /\ events \in Nat
  BY DEF Versions
<1> DEFINE b == d.base.msgs
           q == d.msgs
           r == row.msgs
           u == MergedMessages(d)
<1>5. b \in Seq(Message) /\ q \in Seq(Message) /\ r \in Seq(Message)
  BY <1>1, <1>3 DEF Session, Draft
<1>6. \/ q = b /\ u = r
      \/ q # b /\ r = b /\ u = q
      \/ q # b /\ IsPrefix(b, q) /\ IsPrefix(b, r) /\ u = r \o SubSeq(q, Len(b) + 1, Len(q))
  BY <1>1 DEF Mergeable, HistoryAgrees, BothExtend, MergedMessages
<1>7. /\ Len(b) <= Len(q) /\ d.arch <= Len(q) /\ row.arch <= Len(r)
      /\ Pure(q, row.gen) /\ Pure(r, row.gen)
      /\ Authors(b) \subseteq Authors(q) /\ Keeps(b, q)
      /\ Authors(q) \cap Followups \subseteq Authors(b) \cup d.consumed
      /\ d.consumed \subseteq Authors(q)
      /\ q = b => d.arch = d.base.arch /\ d.consumed = {}
  BY <1>1, <1>4 DEF Proposal, Sound
<1> HIDE DEF m, b, q, r, u
<1>8. /\ u \in Seq(Message) /\ Pure(u, row.gen) /\ Len(r) <= Len(u)
      /\ q # b => Len(q) <= Len(u)
      /\ Authors(r) \subseteq Authors(u) /\ Keeps(r, u)
      /\ d.consumed \subseteq Authors(u)
      /\ Authors(u) \cap Followups \subseteq Authors(r) \cup d.consumed
  <2>1. CASE q = b /\ u = r
    BY <1>5, <1>7, <2>1, KeepsStart
  <2>2. CASE q # b /\ r = b /\ u = q
    BY <1>5, <1>7, <2>2
  <2>3. CASE IsPrefix(b, q) /\ IsPrefix(b, r) /\ u = r \o SubSeq(q, Len(b) + 1, Len(q))
    <3>1. /\ u \in Seq(Message) /\ Len(q) <= Len(u) /\ Len(r) <= Len(u)
          /\ Authors(u) = Authors(r) \cup Authors(q) /\ Keeps(r, u)
          /\ Pure(u, row.gen)
      BY <1>5, <1>7, <2>3, MergedHistory
    <3>2. Authors(b) \subseteq Authors(r)
      BY <1>5, <2>3, PrefixAuthors
    <3> QED
      BY <1>7, <3>1, <3>2
  <2> QED
    BY <1>6, <2>1, <2>2, <2>3
<1>9. /\ Merge(d.base.title, d.title, row.title) = row.title
      /\ Merge(d.base.ckpt, d.ckpt, row.ckpt) \in {row.ckpt, Nobody}
      /\ d.ckpt = Nobody /\ d.base.ckpt # Nobody =>
           Merge(d.base.ckpt, d.ckpt, row.ckpt) = Nobody
      /\ Merge(d.base.arch, d.arch, row.arch) \in Nat
      /\ Merge(d.base.arch, d.arch, row.arch) <= Len(u)
      /\ Merge(d.base.pending, d.pending, row.pending) \in BOOLEAN
  BY <1>1, <1>3, <1>5, <1>7, <1>8, SMTT(30) DEF Merge, Proposal, Session, Draft, b, q
<1>10. m \in Session /\ m.gen = row.gen /\ m.rev = row.rev /\ m.title = row.title
       /\ m.journal = row.journal \ d.consumed /\ m.msgs = u
       /\ m.ckpt = Merge(d.base.ckpt, d.ckpt, row.ckpt)
       /\ m.arch = Merge(d.base.arch, d.arch, row.arch)
  BY <1>1, <1>2, <1>8, <1>9, ZenonT(90) DEF Session, u
<1>11. Sound(m, gens, events)
  BY <1>1, <1>4, <1>8, <1>9, <1>10 DEF Sound
<1> QED
  BY <1>1, <1>8, <1>9, <1>10, <1>11 DEF m, b, q, r, u

-----------------------------------------------------------------------------
(* What a change of the row does to the invariant.                         *)

LEMMA SoundLater ==
  ASSUME NEW s, NEW g \in Nat, NEW e \in Nat, NEW g2 \in Nat, NEW e2 \in Nat,
         Sound(s, g, e), g <= g2, e <= e2
  PROVE  Sound(s, g2, e2)
BY DEF Sound, Session

LEMMA CopyLater ==
  ASSUME NEW d, NEW g \in Nat, NEW e \in Nat, NEW g2 \in Nat, NEW e2 \in Nat,
         Copy(d, g, e), g <= g2, e <= e2
  PROVE  Copy(d, g2, e2)
BY SoundLater DEF Copy

LEMMA NoRowSound ==
  ASSUME NEW g \in Nat, NEW e \in Nat
  PROVE  Sound(NoRow, g, e) /\ Copy(NoDraft, g, e) /\ Authors(<<>>) = {}
<1>1. NoRow \in Session
  BY DEF NoRow, Session
<1>2. Sound(NoRow, g, e)
  BY <1>1 DEF NoRow, Sound, Pure
<1>3. /\ NoDraft \in Draft /\ NoDraft.base = NoRow /\ NoDraft.run = <<>> /\ NoRow.rev = 0
      /\ NoDraft.msgs = NoRow.msgs /\ NoDraft.pending = NoRow.pending
      /\ NoDraft.ckpt = NoRow.ckpt /\ NoDraft.title = NoRow.title
      /\ NoDraft.arch = NoRow.arch /\ NoDraft.consumed = {}
  BY <1>1 DEF NoDraft, DraftOf, NoRow, Draft, Session
<1>4. Copy(NoDraft, g, e)
  BY <1>2, <1>3 DEF Copy, Pure
<1> QED
  BY <1>2, <1>4 DEF Authors

(* The counters only grow.                                                 *)
Later == /\ gens' \in Nat /\ gens <= gens'
         /\ events' \in 0 .. MaxEvents /\ events <= events'

(* A version the owner committed, or one another process committed.        *)
LEMMA Published ==
  ASSUME Versions, Later, Sound(row', gens', events'),
         \/ snap' \in {row', NoRow}
         \/ snap' = snap /\ row' = row
         \/ snap' = snap /\ row'.gen = row.gen /\ row'.rev > row.rev
         \/ snap' = snap /\ row'.gen > gens,
         source' \in {source, NoRow, row}
  PROVE  Versions'
<1>1. /\ gens \in Nat /\ events \in Nat /\ events' \in Nat
      /\ Sound(row, gens, events) /\ Sound(snap, gens, events) /\ Sound(source, gens, events)
      /\ Cached
  BY DEF Versions, Later
<1>2. Sound(snap, gens', events') /\ Sound(source', gens', events') /\ Sound(NoRow, gens', events')
  BY <1>1, SoundLater, NoRowSound DEF Later
<1>3. Cached'
  <2>1. /\ row'.gen \in Nat /\ row'.rev \in Nat /\ snap.gen \in Nat /\ snap.rev \in Nat
        /\ row.rev \in Nat /\ snap.gen <= gens /\ NoRow.gen = 0
        /\ row'.gen = 0 => row' = NoRow
    BY <1>1 DEF Sound, Session, NoRow
  <2>2. CASE snap' = row'
    BY <2>1, <2>2 DEF Cached
  <2>3. CASE snap' = NoRow
    BY <2>1, <2>3 DEF Cached
  <2>4. CASE snap' = snap /\ row' = row
    BY <1>1, <2>4 DEF Cached
  <2>5. CASE snap' = snap /\ row'.gen = row.gen /\ row'.rev > row.rev
    BY <1>1, <2>1, <2>5 DEF Cached
  <2>6. CASE snap' = snap /\ row'.gen > gens
    BY <1>1, <2>1, <2>6 DEF Cached
  <2> QED
    BY <2>2, <2>3, <2>4, <2>5, <2>6
<1> QED
  BY <1>1, <1>2, <1>3 DEF Versions, Later

(* replace_metadata and save_runtime_checkpoint: the new header, with the  *)
(* messages of the row, and a snapshot that is the row or none.            *)
LEMMA HeaderSaves ==
  ASSUME Versions, NEW s, s.gen = row.gen, s.rev = row.rev, s.msgs = row.msgs,
         s \in Session, CommitHeader(s)
  PROVE  row' = [s EXCEPT !.rev = @ + 1] /\ snap' \in {row', NoRow}
<1>1. row' = [s EXCEPT !.rev = @ + 1] /\ snap' = PublishedHeader(row')
  BY DEF CommitHeader
<1>2. row'.gen = row.gen /\ row'.rev = row.rev + 1 /\ row'.msgs = row.msgs
  BY <1>1 DEF Session
<1>3. CASE snap.gen = row.gen /\ snap.rev = row.rev
  <2>1. snap.msgs = row'.msgs
    BY <1>2, <1>3 DEF Versions, Cached
  <2>2. snap' = [row' EXCEPT !.msgs = row'.msgs] \/ snap' = NoRow
    BY <1>1, <2>1 DEF PublishedHeader
  <2>3. row' \in Session
    BY <1>1 DEF Session
  <2> QED
    BY <1>1, <2>2, <2>3 DEF Session
<1>4. CASE ~(snap.gen = row.gen /\ snap.rev = row.rev)
  <2>1. snap.rev \in Nat /\ row.rev \in Nat
    BY DEF Versions, Sound, Session
  <2> QED
    BY <1>1, <1>2, <1>4, <2>1 DEF PublishedHeader
<1> QED
  BY <1>1, <1>3, <1>4

(* s is the row with the follow-ups of F moved from journal to history.    *)
Carries(s, F) ==
  /\ s.gen = row.gen
  /\ s.journal = row.journal \ F
  /\ Keeps(row.msgs, s.msgs) /\ row.title <= s.title
  /\ Authors(row.msgs) \subseteq Authors(s.msgs)
  /\ F \subseteq Authors(s.msgs)
  /\ Authors(s.msgs) \cap Followups \subseteq Authors(row.msgs) \cup F

LEMMA SameRecords ==
  ASSUME row \in Session, NEW s, s.gen = row.gen, s.msgs = row.msgs,
         s.journal = row.journal, row.title <= s.title
  PROVE  Carries(s, {})
<1>1. row.msgs \in Seq(Message) /\ row.journal \subseteq Followups
  BY DEF Session
<1>2. Keeps(row.msgs, s.msgs)
  BY <1>1, KeepsStart
<1> QED
  BY <1>1, <1>2 DEF Carries

LEMMA HeaderMoved ==
  ASSUME Versions, row'.gen = row.gen, row'.msgs = row.msgs, row'.title = row.title
  PROVE  Moved
<1>1. row.msgs \in Seq(Message) /\ row.title <= row.title
  BY LoadedIsRow DEF Session
<1> QED
  BY <1>1, KeepsStart DEF Moved

LEMMA RowSame ==
  ASSUME Versions, row' = row
  PROVE  Moved /\ Carries(row', {})
<1>1. row \in Session /\ row.title <= row.title
  BY LoadedIsRow DEF Session
<1>2. Carries(row', {})
  BY <1>1, SameRecords
<1> QED
  BY <1>2 DEF Moved, Carries

LEMMA AccountedKept ==
  ASSUME RowFollowups, NEW F \in SUBSET Followups, Carries(row', F), Known(F),
         UNCHANGED journaled, acked \subseteq acked'
  PROVE  RowFollowups'
BY DEF RowFollowups, Accounted, Known, Carries

LEMMA AccountedAnew ==
  ASSUME Rest, Versions, row'.gen = 0 \/ row'.gen > gens, row'.msgs = <<>>, row'.journal = {},
         UNCHANGED journaled
  PROVE  RowFollowups'
<1>1. Authors(row'.msgs) = {}
  BY NoRowSound DEF Versions, Authors
<1>2. \A f \in Followups : journaled[f] <= gens /\ journaled[f] \in Nat
  BY DEF Rest
<1>3. gens \in Nat
  BY DEF Versions
<1> QED
  BY <1>1, <1>2, <1>3 DEF RowFollowups, Known, Accounted

LEMMA DraftsSame ==
  ASSUME Versions, Drafts, Later, UNCHANGED <<draft, status>>
  PROVE  Drafts'
<1>1. gens \in Nat /\ events \in Nat /\ gens' \in Nat /\ events' \in Nat
  BY DEF Versions, Later
<1>2. \A c \in Turns : TurnOK(draft[c], status[c], gens', events')
  BY <1>1, CopyLater DEF Drafts, TurnOK, Later
<1> QED
  BY <1>2 DEF Drafts

LEMMA DraftsSet ==
  ASSUME Versions, Drafts, Later, NEW c \in Turns, NEW d, NEW st,
         draft' = [draft EXCEPT ![c] = d], status' = [status EXCEPT ![c] = st],
         TurnOK(d, st, gens', events')
  PROVE  Drafts'
<1>1. gens \in Nat /\ events \in Nat /\ gens' \in Nat /\ events' \in Nat
  BY DEF Versions, Later
<1>2. \A t \in Turns : TurnOK(draft[t], status[t], gens', events')
  BY <1>1, CopyLater DEF Drafts, TurnOK, Later
<1>3. d \in Draft /\ st \in Statuses
  BY DEF TurnOK, Copy
<1>4. \A t \in Turns : /\ draft'[t] = IF t = c THEN d ELSE draft[t]
                       /\ status'[t] = IF t = c THEN st ELSE status[t]
  BY DEF Drafts
<1>5. draft' \in [Turns -> Draft] /\ status' \in [Turns -> Statuses]
  BY <1>3 DEF Drafts
<1> QED
  BY <1>2, <1>4, <1>5 DEF Drafts

(* A session as it is loaded, copied for a turn.                           *)
LEMMA DraftOfCopy ==
  ASSUME NEW s, NEW g \in Nat, NEW e \in Nat, Sound(s, g, e), NEW r \in Seq(Message),
         Pure(r, s.gen), s.gen # 0
  PROVE  LET d == [DraftOf(s) EXCEPT !.run = r] IN
         /\ Copy(d, g, e) /\ d.run = r /\ d.msgs = s.msgs
         /\ d.base.gen = s.gen /\ d.base.ckpt = s.ckpt
<1> DEFINE d == [DraftOf(s) EXCEPT !.run = r]
           b == [s EXCEPT !.rev = 0]
<1>1. s \in Session /\ b \in Session /\ b.rev = 0
  BY DEF Sound, Session
<1>2. /\ b.gen = s.gen /\ b.msgs = s.msgs /\ b.pending = s.pending
      /\ b.ckpt = s.ckpt /\ b.title = s.title /\ b.arch = s.arch
  BY <1>1 DEF Session
<1>3. /\ d.base = b /\ d.msgs = s.msgs /\ d.pending = s.pending /\ d.ckpt = s.ckpt
      /\ d.title = s.title /\ d.arch = s.arch /\ d.consumed = {} /\ d.run = r
  BY DEF DraftOf
<1>4. d \in Draft
  BY <1>1 DEF Draft, Session, DraftOf
<1>5. Sound(b, g, e)
  BY <1>1, <1>2 DEF Sound
<1> HIDE DEF b, d
<1>6. Copy(d, g, e)
  BY <1>1, <1>2, <1>3, <1>4, <1>5 DEF Copy
<1> QED
  BY <1>2, <1>3, <1>6 DEF d

(* What is known of the draft a turn holds.                                *)
LEMMA CopyIs ==
  ASSUME NEW d, NEW g, NEW e, Copy(d, g, e)
  PROVE  /\ d \in Draft /\ d.base \in Session /\ Sound(d.base, g, e)
         /\ d.msgs = d.base.msgs /\ d.pending = d.base.pending /\ d.ckpt = d.base.ckpt
         /\ d.title = d.base.title /\ d.arch = d.base.arch /\ d.consumed = {}
         /\ d.msgs \in Seq(Message) /\ Pure(d.msgs, d.base.gen) /\ d.arch <= Len(d.msgs)
         /\ d.run \in Seq(Message) /\ Pure(d.run, d.base.gen)
BY DEF Copy, Draft, Sound

-----------------------------------------------------------------------------
(* What turns submit.                                                      *)

(* One more record at the end of a history.                                *)
LEMMA OneMore ==
  ASSUME NEW b \in Seq(Message), NEW x \in Message
  PROVE  /\ Append(b, x) \in Seq(Message) /\ Len(Append(b, x)) = Len(b) + 1
         /\ Append(b, x) # b /\ Append(b, x) # <<>>
         /\ Authors(Append(b, x)) = Authors(b) \cup {x.by} /\ Keeps(b, Append(b, x))
         /\ Pure(b, x.gen) => Pure(Append(b, x), x.gen)
<1> DEFINE u == Append(b, x)
<1>1. /\ u \in Seq(Message) /\ Len(u) = Len(b) + 1 /\ u # <<>>
      /\ \A i \in 1 .. Len(b) : u[i] = b[i]
      /\ u[Len(b) + 1] = x
  BY AppendProperties
<1> HIDE DEF u
<1>2. DOMAIN u = 1 .. Len(b) + 1 /\ DOMAIN b = 1 .. Len(b) /\ u # b
  BY <1>1
<1>3. \A i \in DOMAIN u : i = Len(b) + 1 \/ i \in DOMAIN b
  BY <1>2
<1>4. Authors(u) = Authors(b) \cup {x.by}
  <2>1. Authors(u) \subseteq Authors(b) \cup {x.by}
    BY <1>1, <1>2, <1>3 DEF Authors
  <2>2. Authors(b) \subseteq Authors(u)
    BY <1>1, <1>2 DEF Authors
  <2>3. Len(b) + 1 \in DOMAIN u
    BY <1>1, <1>2
  <2>4. x.by \in Authors(u)
    BY <1>1, <2>3 DEF Authors
  <2> QED
    BY <2>1, <2>2, <2>4
<1>5. Pure(b, x.gen) => Pure(u, x.gen)
  BY <1>1, <1>2, <1>3 DEF Pure
<1>6. Keeps(b, u)
  BY <1>1, KeepsStart
<1> QED
  BY <1>1, <1>2, <1>4, <1>5, <1>6 DEF u

(* A proposal that says nothing about records.                             *)
LEMMA CopyProposed ==
  ASSUME Versions, NEW d, Copy(d, gens, events), NEW p \in Draft,
         p.base = d.base, p.msgs = d.msgs, p.title = d.title, p.arch = d.arch,
         p.ckpt \in {d.ckpt, Nobody}, p.consumed = {}
  PROVE  Proposal(p)
<1>1. /\ d \in Draft /\ d.base \in Session /\ Sound(d.base, gens, events)
      /\ d.msgs = d.base.msgs /\ d.ckpt = d.base.ckpt /\ d.title = d.base.title
      /\ d.arch = d.base.arch
  BY CopyIs
<1>2. Len(p.msgs) \in Nat /\ p.msgs \in Seq(Message)
  BY DEF Draft
<1>3. Keeps(p.msgs, p.msgs)
  BY <1>2, KeepsStart
<1> QED
  BY <1>1, <1>2, <1>3 DEF Proposal, Sound

(* A proposal with one record of the turn more, by a follow-up if the turn *)
(* consumed one.                                                           *)
LEMMA RecordProposed ==
  ASSUME Versions, NEW d, Copy(d, gens, events), NEW p \in Draft,
         NEW x \in Message, x.gen = d.base.gen,
         p.base = d.base, p.msgs = Append(d.msgs, x), p.title = d.title, p.arch = d.arch,
         p.ckpt \in {d.ckpt, Nobody}, p.consumed = {x.by} \cap Followups
  PROVE  Proposal(p) /\ p.msgs # <<>> /\ p.msgs # p.base.msgs
<1> DEFINE b == d.base.msgs
<1>1. /\ d \in Draft /\ b \in Seq(Message) /\ Pure(b, x.gen) /\ d.base \in Session
      /\ Sound(d.base, gens, events) /\ d.msgs = b /\ d.ckpt = d.base.ckpt
      /\ d.title = d.base.title /\ d.arch = d.base.arch
  BY CopyIs
<1>2. /\ p.msgs = Append(b, x) /\ p.title = d.base.title /\ p.arch = d.base.arch
      /\ p.ckpt \in {d.base.ckpt, Nobody}
  BY <1>1
<1>3. /\ Pure(p.msgs, x.gen) /\ Len(p.msgs) = Len(b) + 1 /\ p.msgs # b /\ p.msgs # <<>>
      /\ Authors(p.msgs) = Authors(b) \cup {x.by} /\ Keeps(b, p.msgs)
  BY <1>1, <1>2, OneMore
<1>4. p.arch <= Len(p.msgs) /\ Len(b) <= Len(p.msgs)
  BY <1>1, <1>2, <1>3 DEF Sound, Session
<1>5. Proposal(p)
  BY <1>1, <1>2, <1>3, <1>4 DEF Proposal
<1> QED
  BY <1>2, <1>3, <1>5

(* _submit_draft of a proposal, whatever it was made for.                  *)
LEMMA SubmitKeeps ==
  ASSUME IInv, NEW c \in Turns, NEW d, NEW next \in {"open", "prepared", "saved"},
         Proposal(d), SubmitDraft(c, d, next),
         Pure(d.run, d.base.gen), Known(Authors(d.run)), Known(d.consumed),
         next = "prepared" => d.msgs # d.base.msgs,
         Mergeable(d) => Merged(d).ckpt # c,
         inbox' \subseteq inbox,
         UNCHANGED <<source, stop, journaled, acked, delivered, events>>
  PROVE  IInv' /\ Moved
<1> DEFINE m == Merged(d)
           s == [m EXCEPT !.rev = @ + 1]
<1>0. Versions /\ Drafts /\ Rest /\ CheckpointKnown /\ RowFollowups /\ TurnFollowups
  BY DEF IInv
<1>1. CASE ~Mergeable(d)
  <2>1. /\ UNCHANGED <<row, snap, retired, gens, draft>>
        /\ status' = [status EXCEPT ![c] = "refused"] /\ holder' = Nobody
    BY <1>1 DEF SubmitDraft, ownerVars
  <2>2. Later
    BY <1>0, <2>1 DEF Later, Versions
  <2>3. Versions'
    BY <1>0, <2>1 DEF Versions, Cached
  <2>4. Drafts'
    <3>1. TurnOK(draft[c], "refused", gens', events')
      BY <1>0, <2>1 DEF Drafts, TurnOK, Statuses
    <3>2. draft' = [draft EXCEPT ![c] = draft[c]]
      BY <1>0, <2>1 DEF Drafts
    <3> QED
      BY <1>0, <2>1, <2>2, <3>1, <3>2, DraftsSet
  <2>5. CheckpointKnown'
    BY <1>0, <2>1 DEF CheckpointKnown, Drafts
  <2>6. Rest' /\ RowFollowups' /\ TurnFollowups'
    BY <1>0, <2>1, NamesAssumption DEF Rest, RowFollowups, TurnFollowups, Accounted, Known
  <2> QED
    BY <1>0, <2>1, <2>3, <2>4, <2>5, <2>6, RowSame DEF IInv
<1>2. CASE Mergeable(d)
  <2>1. /\ Commit(m) /\ UNCHANGED <<retired, gens, holder>>
        /\ draft' = [draft EXCEPT ![c] = [DraftOf(s) EXCEPT !.run = d.run]]
        /\ status' = [status EXCEPT ![c] = next]
    BY <1>2 DEF SubmitDraft, Refreshed
  <2>2. /\ Sound(m, gens, events) /\ m.gen = row.gen /\ m.gen = d.base.gen /\ row.gen # 0
        /\ m.rev = row.rev /\ m.journal = row.journal \ d.consumed
        /\ m.ckpt \in {row.ckpt, Nobody}
        /\ d.msgs # d.base.msgs => Len(d.msgs) <= Len(m.msgs)
        /\ Authors(row.msgs) \subseteq Authors(m.msgs)
        /\ d.consumed \subseteq Authors(m.msgs)
        /\ Authors(m.msgs) \cap Followups \subseteq Authors(row.msgs) \cup d.consumed
        /\ Keeps(row.msgs, m.msgs) /\ m.title = row.title
    BY <1>0, <1>2, MergedIs
  <2>3. m.ckpt # c
    BY <1>2
  <2> HIDE DEF m
  <2>4. m \in Session /\ row' = s /\ snap' = s
    BY <1>0, <2>1, <2>2, CommitSaves DEF Sound
  <2>5. /\ Sound(s, gens, events) /\ s.gen = m.gen /\ s.msgs = m.msgs /\ s.ckpt = m.ckpt
        /\ s.journal = m.journal /\ s.title = m.title
    <3>1. /\ s \in Session /\ s.gen = m.gen /\ s.msgs = m.msgs /\ s.ckpt = m.ckpt
          /\ s.journal = m.journal /\ s.title = m.title /\ s.arch = m.arch
      BY <2>4 DEF Session
    <3> HIDE DEF s
    <3> QED
      BY <2>2, <3>1 DEF Sound
  <2> HIDE DEF s
  <2>6. Later
    BY <1>0, <2>1 DEF Later, Versions
  <2>7. Versions'
    BY <1>0, <2>1, <2>4, <2>5, <2>6, Published
  <2>8. Drafts' /\ draft'[c].run = d.run /\ \A t \in Turns \ {c} : draft'[t] = draft[t]
    <3> DEFINE n == [DraftOf(s) EXCEPT !.run = d.run]
    <3>1. d.run \in Seq(Message) /\ gens \in Nat /\ events \in Nat
      BY <1>0 DEF Proposal, Draft, Versions
    <3>2. /\ Copy(n, gens, events) /\ n.run = d.run /\ n.msgs = s.msgs
          /\ n.base.gen = s.gen
      BY <2>2, <2>5, <3>1, DraftOfCopy
    <3>3. next = "prepared" => n.msgs # <<>>
      <4>1. /\ d.base.msgs \in Seq(Message) /\ d.msgs \in Seq(Message)
            /\ Len(d.base.msgs) <= Len(d.msgs) /\ m.msgs \in Seq(Message)
        BY <2>4 DEF Proposal, Draft, Session
      <4>2. d.msgs # d.base.msgs => Len(d.msgs) > 0
        BY <4>1
      <4> QED
        BY <2>2, <2>5, <3>2, <4>1, <4>2
    <3> HIDE DEF n
    <3>4. TurnOK(n, next, gens', events')
      BY <2>1, <2>2, <2>5, <3>2, <3>3 DEF TurnOK, Statuses
    <3>5. draft' = [draft EXCEPT ![c] = n]
      BY <2>1 DEF n
    <3> QED
      BY <1>0, <2>1, <2>6, <3>2, <3>4, <3>5, DraftsSet DEF Drafts
  <2>9. CheckpointKnown'
    BY <1>0, <2>1, <2>2, <2>3, <2>4, <2>5, <2>8, NamesAssumption
    DEF CheckpointKnown, Drafts
  <2>10. Carries(row', d.consumed) /\ d.consumed \in SUBSET Followups
    <3>1. row.title <= row.title
      BY <1>0, LoadedIsRow DEF Session
    <3> QED
      BY <2>2, <2>4, <2>5, <3>1 DEF Carries, Proposal, Draft
  <2>11. RowFollowups'
    BY <1>0, <2>10, AccountedKept
  <2>12. TurnFollowups'
    BY <1>0, <2>8 DEF TurnFollowups, Known
  <2>13. Rest'
    BY <1>0, <2>1, NamesAssumption DEF Rest
  <2> QED
    BY <2>7, <2>8, <2>9, <2>10, <2>12, <2>13, <2>11 DEF IInv, Carries, Moved
<1> QED
  BY <1>1, <1>2

-----------------------------------------------------------------------------
(* One lemma per action: the turn.                                         *)

LEMMA FreshSound ==
  ASSUME NEW g \in Nat, NEW e \in Nat, NEW h \in Nat, 0 < h, h <= g
  PROVE  /\ Sound(Fresh(h), g, e) /\ Fresh(h) \in Session /\ Fresh(h).gen = h
         /\ Fresh(h).rev = 1 /\ Fresh(h).msgs = <<>> /\ Fresh(h).journal = {}
         /\ Fresh(h).ckpt = Nobody
<1>1. /\ Fresh(h) \in Session /\ Fresh(h).gen = h /\ Fresh(h).rev = 1
      /\ Fresh(h).msgs = <<>> /\ Fresh(h).journal = {} /\ Fresh(h).ckpt = Nobody
      /\ Fresh(h).title = 0 /\ Fresh(h).arch = 0
  <2>1. /\ NoRow \in Session /\ NoRow.msgs = <<>> /\ NoRow.journal = {}
        /\ NoRow.ckpt = Nobody /\ NoRow.title = 0 /\ NoRow.arch = 0
    BY NoRowSound DEF NoRow, Sound
  <2> QED
    BY <2>1 DEF Fresh, Session
<1> HIDE DEF Fresh
<1>2. Sound(Fresh(h), g, e)
  BY <1>1 DEF Sound, Pure
<1> QED
  BY <1>1, <1>2

(* get: the row, created when it is missing.                               *)
LEMMA GetKeeps ==
  ASSUME IInv, Get, UNCHANGED <<source, events, journaled, acked>>
  PROVE  /\ Versions' /\ RowFollowups' /\ Later /\ retired' \in BOOLEAN
         /\ Sound(Got, gens', events') /\ Got.gen # 0 /\ Got.ckpt = row'.ckpt
         /\ row'.ckpt \in {row.ckpt, Nobody} /\ Moved
<1>0. Versions /\ Drafts /\ Rest /\ CheckpointKnown /\ RowFollowups /\ TurnFollowups
  BY DEF IInv
<1>1. CASE row.gen = 0
  <2>1. /\ Got = Fresh(gens + 1) /\ gens' = gens + 1 /\ row' = Fresh(gens + 1)
        /\ snap' = row' /\ retired' = FALSE
    BY <1>1 DEF Get, Got, Create
  <2>2. Later /\ gens' \in Nat /\ events' \in Nat /\ 0 < gens' /\ gens + 1 # 0
    BY <1>0, <2>1 DEF Versions, Later
  <2>3. /\ Sound(row', gens', events') /\ row'.gen = gens + 1 /\ row'.msgs = <<>>
        /\ row'.journal = {} /\ row'.ckpt = Nobody
    BY <2>1, <2>2, FreshSound
  <2>4. Versions'
    BY <1>0, <2>1, <2>2, <2>3, Published
  <2>5. RowFollowups'
    <3>1. row'.gen > gens
      BY <1>0, <2>3 DEF Versions
    <3> QED
      BY <1>0, <2>3, <3>1, AccountedAnew
  <2> QED
    BY <2>1, <2>2, <2>3, <2>4, <2>5 DEF Moved
<1>2. CASE row.gen # 0
  <2>1. Got = row /\ snap' = row' /\ UNCHANGED <<row, retired, gens>>
    BY <1>0, <1>2, LoadedIsRow DEF Get, Got
  <2>2. Later /\ Sound(row', gens', events')
    BY <1>0, <2>1 DEF Versions, Later
  <2>3. Versions'
    BY <1>0, <2>1, <2>2, Published
  <2>4. RowFollowups'
    BY <1>0, <2>1 DEF RowFollowups, Accounted, Known
  <2> QED
    BY <1>0, <1>2, <2>1, <2>2, <2>3, <2>4, RowSame DEF Rest
<1> QED
  BY <1>1, <1>2

(* A turn starts from a fresh copy.                                        *)
LEMMA OpensCopy ==
  ASSUME IInv, Get, UNCHANGED <<source, events, journaled, acked, inbox, stop, delivered>>,
         NEW c \in Turns, NEW st \in {"open", "salvaging"},
         status[c] = IF st = "open" THEN "idle" ELSE "cancelled",
         draft' = [draft EXCEPT ![c] = DraftOf(Got)],
         status' = [status EXCEPT ![c] = st],
         holder' \in {c, holder}
  PROVE  IInv' /\ Moved
<1>0. Versions /\ Drafts /\ Rest /\ CheckpointKnown /\ RowFollowups /\ TurnFollowups
  BY DEF IInv
<1>1. /\ Versions' /\ RowFollowups' /\ Later /\ retired' \in BOOLEAN
      /\ Sound(Got, gens', events') /\ Got.gen # 0 /\ Got.ckpt = row'.ckpt
      /\ row'.ckpt \in {row.ckpt, Nobody} /\ Moved
  BY GetKeeps
<1> DEFINE d == DraftOf(Got)
<1>2. Copy(d, gens', events') /\ d.run = <<>> /\ d.base.gen # 0 /\ d.base.ckpt = row'.ckpt
  <2>1. d = [DraftOf(Got) EXCEPT !.run = <<>>]
    BY DEF DraftOf
  <2>2. gens' \in Nat /\ events' \in Nat /\ <<>> \in Seq(Message) /\ Pure(<<>>, Got.gen)
    BY <1>1 DEF Later, Pure
  <2>3. \A g, e \in Nat : Sound(Got, g, e) =>
          LET x == [DraftOf(Got) EXCEPT !.run = <<>>] IN
          Copy(x, g, e) /\ x.run = <<>> /\ x.base.gen = Got.gen /\ x.base.ckpt = Got.ckpt
    <3>1. Got.gen # 0 /\ <<>> \in Seq(Message) /\ Pure(<<>>, Got.gen)
      BY <1>1, <2>2
    <3> SUFFICES ASSUME NEW g \in Nat, NEW e \in Nat, Sound(Got, g, e)
                 PROVE  LET x == [DraftOf(Got) EXCEPT !.run = <<>>] IN
                        /\ Copy(x, g, e) /\ x.run = <<>>
                        /\ x.base.gen = Got.gen /\ x.base.ckpt = Got.ckpt
      OBVIOUS
    <3> QED
      BY <3>1, DraftOfCopy, ZenonT(90)
  <2> HIDE DEF d
  <2> QED
    BY <1>1, <2>1, <2>2, <2>3
<1> HIDE DEF d
<1>3. Drafts'
  <2>1. TurnOK(d, st, gens', events')
    BY <1>1, <1>2 DEF TurnOK, Statuses
  <2>2. draft' = [draft EXCEPT ![c] = d]
    BY DEF d
  <2> QED
    BY <1>0, <1>1, <2>1, <2>2, DraftsSet
<1>4. /\ draft'[c] = d /\ status'[c] = st
      /\ \A t \in Turns \ {c} : draft'[t] = draft[t] /\ status'[t] = status[t]
  BY <1>0 DEF d, Drafts
<1>5. CheckpointKnown'
  BY <1>0, <1>1, <1>2, <1>4, NamesAssumption DEF CheckpointKnown
<1>6. TurnFollowups'
  BY <1>0, <1>2, <1>4, NoRowSound DEF TurnFollowups, Known, Authors
<1>7. Rest'
  <2>1. \A f \in Followups : journaled[f] \in Nat /\ journaled[f] <= gens /\ gens \in Nat
    BY <1>0 DEF Rest, Versions
  <2> QED
    BY <1>0, <1>1, <2>1, NamesAssumption DEF Rest, Later
<1> QED
  BY <1>1, <1>3, <1>5, <1>6, <1>7 DEF IInv

LEMMA StepOpen ==
  ASSUME IInv, NEW c \in Turns, Open(c)
  PROVE  IInv' /\ Moved
BY OpensCopy DEF Open, SetStatus, SetDraft, inputVars, countVars

LEMMA StepReopen ==
  ASSUME IInv, NEW c \in Turns, Reopen(c)
  PROVE  IInv' /\ Moved
BY OpensCopy DEF Reopen, SetStatus, SetDraft, inputVars, countVars

(* The checkpointed record is there, or is put at the end.                 *)
LEMMA SalvagedProposed ==
  ASSUME Versions, NEW d, Copy(d, gens, events), d.ckpt # Nobody,
         NEW p \in {Salvaged(d), Finished(Salvaged(d))}
  PROVE  Proposal(p) /\ p.run = d.run /\ p.consumed = {} /\ p.ckpt = Nobody
         /\ p.base = d.base
<1> DEFINE x == Msg("part", d.ckpt, d.base.gen)
<1>1. d \in Draft /\ d.consumed = {} /\ d.base \in Session
  BY CopyIs
<1>2. x \in Message /\ x.gen = d.base.gen /\ x.by = d.ckpt /\ {x.by} \cap Followups = {}
  BY <1>1, NamesAssumption DEF Msg, Message, Whats, Draft, Session
<1>3. /\ p.base = d.base /\ p.title = d.title /\ p.arch = d.arch /\ p.ckpt = Nobody
      /\ p.consumed = d.consumed /\ p.run = d.run /\ p.pending = FALSE
      /\ p.msgs = d.msgs \/ p.msgs = Append(d.msgs, x)
      /\ DOMAIN p = DOMAIN d
  BY <1>1 DEF Salvaged, Finished, Draft
<1>4. CASE p.msgs = d.msgs
  <2>1. p \in Draft
    BY <1>1, <1>3, <1>4 DEF Draft, Salvaged, Finished
  <2> QED
    BY <1>1, <1>3, <1>4, <2>1, CopyProposed
<1>5. CASE p.msgs = Append(d.msgs, x)
  <2> HIDE DEF x
  <2>1. Append(d.msgs, x) \in Seq(Message)
    BY <1>1, <1>2, OneMore DEF Draft
  <2>2. p \in Draft
    BY <1>1, <1>3, <1>5, <2>1 DEF Draft, Salvaged, Finished
  <2> QED
    BY <1>1, <1>2, <1>3, <1>5, <2>2, RecordProposed
<1> QED
  BY <1>3, <1>4, <1>5

(* A turn that was interrupted is closed by a record, when it was open.    *)
LEMMA InterruptedProposed ==
  ASSUME Versions, NEW d, Copy(d, gens, events), NEW c \in Turns
  PROVE  LET p == Interrupted(d, c) IN
         /\ Proposal(p) /\ p.run = d.run /\ p.consumed = {} /\ p.ckpt = d.ckpt
         /\ p.base = d.base /\ p.arch = d.arch /\ ~p.pending
         /\ p.msgs = d.msgs \/ p.msgs = Append(d.msgs, Msg("intr", c, d.base.gen))
<1> DEFINE x == Msg("intr", c, d.base.gen)
           p == Interrupted(d, c)
<1>1. d \in Draft /\ d.consumed = {} /\ d.base \in Session /\ d.msgs \in Seq(Message)
  BY CopyIs
<1>2. x \in Message /\ x.gen = d.base.gen /\ {x.by} \cap Followups = {}
  BY <1>1, NamesAssumption DEF Msg, Message, Whats, Session
<1>3. /\ p.base = d.base /\ p.title = d.title /\ p.arch = d.arch /\ p.ckpt = d.ckpt
      /\ p.consumed = d.consumed /\ p.run = d.run /\ ~p.pending
      /\ p.msgs = d.msgs \/ p.msgs = Append(d.msgs, x)
  BY <1>1 DEF Interrupted, Draft
<1> HIDE DEF x
<1>4. Append(d.msgs, x) \in Seq(Message)
  BY <1>1, <1>2, OneMore
<1>5. p \in Draft
  BY <1>1, <1>3, <1>4 DEF Draft, Interrupted
<1> HIDE DEF p
<1>6. Proposal(p)
  BY <1>1, <1>2, <1>3, <1>5, CopyProposed, RecordProposed
<1> QED
  BY <1>1, <1>3, <1>6 DEF p, x

(* What a turn under way knows, from the invariant.                        *)
LEMMA TurnHas ==
  ASSUME IInv, NEW c \in Turns
  PROVE  /\ Versions /\ Copy(draft[c], gens, events) /\ draft[c] \in Draft
         /\ Known(Authors(draft[c].run)) /\ c # Nobody
         /\ row.ckpt = c /\ status[c] \in {"prepared", "salvaging"} =>
              draft[c].base.ckpt = c
         /\ status[c] \in {"idle", "open", "saved", "done", "stopped"} => row.ckpt # c
BY NamesAssumption
DEF IInv, Drafts, TurnOK, Copy, TurnFollowups, CheckpointKnown

LEMMA StepRestore ==
  ASSUME IInv, NEW c \in Turns, Restore(c)
  PROVE  IInv' /\ Moved
<1> DEFINE d == draft[c]
<1>1. /\ status[c] = "open" /\ UNCHANGED <<source, stop, inputVars, countVars>>
      /\ \/ d.ckpt # Nobody /\ SubmitDraft(c, Salvaged(d), "open")
         \/ d.ckpt = Nobody /\ d.pending /\ SubmitDraft(c, Interrupted(d, c), "open")
  BY DEF Restore
<1>2. /\ Versions /\ Copy(d, gens, events) /\ d \in Draft /\ Known(Authors(d.run))
      /\ row.ckpt # c /\ d.base \in Session /\ d.consumed = {} /\ d.msgs \in Seq(Message)
      /\ Pure(d.run, d.base.gen)
  BY <1>1, TurnHas, CopyIs
<1> HIDE DEF d
<1>3. ASSUME NEW p, Proposal(p), p.run = d.run, p.consumed = {}, p.base = d.base,
             SubmitDraft(c, p, "open")
      PROVE  IInv' /\ Moved
  <2>1. Mergeable(p) => Merged(p).ckpt # c
    <3>1. Mergeable(p) => Merged(p).ckpt \in {row.ckpt, Nobody}
      BY <1>2, <1>3, MergedIs
    <3> QED
      BY <1>2, <3>1, NamesAssumption
  <2>2. Known(p.consumed)
    BY <1>3 DEF Known
  <2> QED
    BY <1>1, <1>2, <1>3, <2>1, <2>2, SubmitKeeps DEF inputVars, countVars
<1>4. CASE d.ckpt # Nobody /\ SubmitDraft(c, Salvaged(d), "open")
  BY <1>2, <1>3, <1>4, SalvagedProposed
<1>5. CASE d.ckpt = Nobody /\ SubmitDraft(c, Interrupted(d, c), "open")
  BY <1>2, <1>3, <1>5, InterruptedProposed
<1> QED
  BY <1>1, <1>4, <1>5 DEF d

(* What a turn commits of its input, or of a follow-up it recovers.        *)
LEMMA PrepareSubmits ==
  ASSUME IInv, NEW c \in Turns, NEW f \in Followups \cup {Nobody}, Prepare(c, f)
  PROVE  LET d == draft[c]
             x == IF f = Nobody THEN Msg("in", c, d.base.gen) ELSE Msg("row", f, d.base.gen)
         IN  \E p : /\ SubmitDraft(c, p, "prepared") /\ Proposal(p) /\ p.msgs # p.base.msgs
                    /\ p.base = d.base /\ p.arch = d.arch /\ p.ckpt = d.ckpt /\ p.run = d.run
                    /\ p.consumed = {f} \ {Nobody} /\ p.msgs = Append(d.msgs, x) /\ x \in Message
<1> DEFINE d == draft[c]
           x == IF f = Nobody THEN Msg("in", c, d.base.gen) ELSE Msg("row", f, d.base.gen)
           p == [d EXCEPT !.msgs = Append(@, x), !.pending = TRUE,
                          !.consumed = @ \cup ({f} \ {Nobody})]
<1>1. status[c] = "open" /\ SubmitDraft(c, p, "prepared")
  BY DEF Prepare
<1>2. /\ Versions /\ Copy(d, gens, events) /\ d \in Draft
      /\ d.base \in Session /\ d.consumed = {} /\ d.msgs \in Seq(Message)
  BY <1>1, TurnHas, CopyIs
<1> HIDE DEF d
<1>3. x \in Message /\ x.gen = d.base.gen /\ {x.by} \cap Followups = {f} \ {Nobody}
  BY <1>2, NamesAssumption DEF Msg, Message, Whats, Session
<1> HIDE DEF x
<1>4. Append(d.msgs, x) \in Seq(Message)
  BY <1>2, <1>3, OneMore
<1>5. /\ p \in Draft /\ p.base = d.base /\ p.title = d.title /\ p.arch = d.arch
      /\ p.ckpt = d.ckpt /\ p.consumed = {f} \ {Nobody} /\ p.run = d.run
      /\ p.msgs = Append(d.msgs, x)
  BY <1>2, <1>4 DEF Draft
<1> HIDE DEF p
<1>6. Proposal(p) /\ p.msgs # p.base.msgs
  BY <1>2, <1>3, <1>5, RecordProposed, ZenonT(90)
<1> QED
  BY <1>1, <1>3, <1>5, <1>6 DEF d, x

LEMMA StepPrepare ==
  ASSUME IInv, NEW c \in Turns, NEW f \in Followups \cup {Nobody}, Prepare(c, f)
  PROVE  IInv' /\ Moved
<1>1. /\ status[c] = "open" /\ inbox' = inbox \ {f} /\ f \in inbox \cup {Nobody}
      /\ UNCHANGED <<source, stop, journaled, acked, delivered, events>>
  BY DEF Prepare, countVars
<1>2. /\ Versions /\ Known(Authors(draft[c].run)) /\ row.ckpt # c /\ c # Nobody
      /\ Pure(draft[c].run, draft[c].base.gen)
  BY <1>1, TurnHas, CopyIs
<1>3. PICK p : /\ SubmitDraft(c, p, "prepared") /\ Proposal(p) /\ p.msgs # p.base.msgs
               /\ p.base = draft[c].base /\ p.run = draft[c].run
               /\ p.consumed = {f} \ {Nobody}
  BY PrepareSubmits
<1>4. Mergeable(p) => Merged(p).ckpt # c
  <2>1. Mergeable(p) => Merged(p).ckpt \in {row.ckpt, Nobody}
    BY <1>2, <1>3, MergedIs
  <2> QED
    BY <1>2, <2>1
<1>5. Known(p.consumed)
  BY <1>1, <1>3 DEF Known, IInv, TurnFollowups
<1> QED
  BY <1>1, <1>2, <1>3, <1>4, <1>5, SubmitKeeps

LEMMA StepInject ==
  ASSUME IInv, NEW c \in Turns, NEW f \in Followups, Inject(c, f)
  PROVE  IInv' /\ Moved
<1> DEFINE d == draft[c]
           x == Msg("row", f, d.base.gen)
           n == [d EXCEPT !.run = Append(@, x)]
<1>0. Versions /\ Drafts /\ Rest /\ CheckpointKnown /\ RowFollowups /\ TurnFollowups
  BY DEF IInv
<1>1. /\ f \in inbox /\ inbox' = inbox \ {f} /\ draft' = [draft EXCEPT ![c] = n]
      /\ status[c] = "prepared"
      /\ UNCHANGED <<row, snap, retired, gens, holder, status, source, stop, journaled,
                     acked, delivered, events>>
  BY DEF Inject, SetDraft, ownerVars, countVars
<1>2. /\ Copy(d, gens, events) /\ d \in Draft /\ Known(Authors(d.run))
      /\ d.base \in Session /\ d.run \in Seq(Message) /\ Pure(d.run, d.base.gen)
      /\ TurnOK(d, status[c], gens, events)
  BY <1>0, TurnHas, CopyIs DEF Drafts
<1> HIDE DEF d
<1>3. x \in Message /\ x.gen = d.base.gen /\ x.by = f
  BY <1>2 DEF Msg, Message, Whats, Session
<1> HIDE DEF x
<1>4. /\ Append(d.run, x) \in Seq(Message) /\ Pure(Append(d.run, x), d.base.gen)
      /\ Authors(Append(d.run, x)) = Authors(d.run) \cup {f}
  BY <1>2, <1>3, OneMore
<1>5. /\ n \in Draft /\ n.base = d.base /\ n.msgs = d.msgs /\ n.pending = d.pending
      /\ n.ckpt = d.ckpt /\ n.title = d.title /\ n.arch = d.arch /\ n.consumed = d.consumed
      /\ n.run = Append(d.run, x)
  BY <1>2, <1>4 DEF Draft
<1> HIDE DEF n
<1>6. TurnOK(n, status[c], gens', events')
  BY <1>1, <1>2, <1>4, <1>5 DEF TurnOK, Copy
<1>7. Later
  BY <1>0, <1>1 DEF Later, Versions
<1>8. Drafts'
  <2>1. status' = [status EXCEPT ![c] = status[c]]
    BY <1>0, <1>1 DEF Drafts
  <2> QED
    BY <1>0, <1>1, <1>6, <1>7, <2>1, DraftsSet
<1>9. draft'[c] = n /\ \A t \in Turns \ {c} : draft'[t] = draft[t]
  BY <1>0, <1>1 DEF Drafts
<1>10. Versions' /\ RowFollowups' /\ Rest'
  BY <1>0, <1>1 DEF Versions, Cached, RowFollowups, Accounted, Known, Rest
<1>11. CheckpointKnown'
  BY <1>0, <1>1, <1>5, <1>9 DEF CheckpointKnown, d
<1>12. TurnFollowups'
  <2>1. journaled[f] # 0
    BY <1>0, <1>1 DEF TurnFollowups, Known
  <2>2. Authors(draft'[c].run) = Authors(d.run) \cup {f}
    BY <1>4, <1>5, <1>9
  <2>3. Known(Authors(draft'[c].run)) /\ \A t \in Turns : Known(Authors(draft[t].run))
    BY <1>0, <1>2, <2>1, <2>2 DEF TurnFollowups, Known
  <2>4. \A t \in Turns : Known(Authors(draft'[t].run))
    BY <1>9, <2>3
  <2>5. Known(inbox')
    BY <1>0, <1>1 DEF TurnFollowups, Known
  <2> QED
    BY <1>1, <2>4, <2>5 DEF TurnFollowups, Known
<1> QED
  BY <1>0, <1>1, <1>8, <1>10, <1>11, <1>12, RowSame DEF IInv

LEMMA StepCheckpoint ==
  ASSUME IInv, NEW c \in Turns, NEW cut \in BOOLEAN, Checkpoint(c, cut)
  PROVE  IInv' /\ Moved
<1> DEFINE d == draft[c]
           s == [row EXCEPT !.ckpt = c]
<1>0. Versions /\ Drafts /\ Rest /\ CheckpointKnown /\ RowFollowups /\ TurnFollowups
  BY DEF IInv
<1>1. /\ status[c] = "prepared" /\ d.ckpt = Nobody /\ row.gen = d.base.gen
      /\ CommitHeader(s)
      /\ \/ /\ status' = [status EXCEPT ![c] = "cancelled"]
            /\ draft' = [draft EXCEPT ![c] = NoDraft]
         \/ draft' = [draft EXCEPT ![c] = DraftCheckpointed(d, c)] /\ UNCHANGED status
      /\ UNCHANGED <<retired, gens, holder, source, stop, inbox, journaled, acked,
                     delivered, events>>
  BY DEF Checkpoint, SetStatus, SetDraft, inputVars, countVars
<1>2. /\ Copy(d, gens, events) /\ d \in Draft /\ TurnOK(d, "prepared", gens, events)
      /\ row \in Session /\ Sound(row, gens, events)
  BY <1>0, <1>1, LoadedIsRow, TurnHas DEF Drafts, Versions
<1>3. row.gen # 0
  BY <1>1, <1>2 DEF TurnOK
<1>4. /\ s \in Session /\ s.gen = row.gen /\ s.rev = row.rev /\ s.msgs = row.msgs
      /\ s.journal = row.journal /\ s.ckpt = c /\ s.title = row.title /\ s.arch = row.arch
  BY <1>2 DEF Session
<1> HIDE DEF s
<1>5. row' = [s EXCEPT !.rev = @ + 1] /\ snap' \in {row', NoRow}
  BY <1>0, <1>1, <1>4, HeaderSaves
<1>6. /\ row' \in Session /\ row'.gen = row.gen /\ row'.msgs = row.msgs /\ row'.ckpt = c
      /\ row'.journal = row.journal /\ row'.title = row.title /\ row'.arch = row.arch
  BY <1>4, <1>5 DEF Session
<1>7. Later /\ Sound(row', gens', events')
  BY <1>0, <1>1, <1>2, <1>3, <1>6 DEF Later, Versions, Sound
<1>8. Versions'
  BY <1>0, <1>1, <1>5, <1>7, Published
<1>9. Carries(row', {}) /\ Moved
  <2>1. row.title <= row'.title
    BY <1>2, <1>6 DEF Session
  <2> QED
    BY <1>2, <1>6, <2>1, SameRecords DEF Carries, Moved
<1>10. RowFollowups'
  <2>1. Known({}) /\ {} \in SUBSET Followups
    BY DEF Known
  <2> QED
    BY <1>0, <1>1, <1>9, <2>1, AccountedKept
<1>11. Rest'
  BY <1>0, <1>1 DEF Rest
<1>12. CASE status' = [status EXCEPT ![c] = "cancelled"] /\ draft' = [draft EXCEPT ![c] = NoDraft]
  <2>1. gens' \in Nat /\ events' \in Nat
    BY <1>7 DEF Later
  <2>2. TurnOK(NoDraft, "cancelled", gens', events') /\ NoDraft.run = <<>>
    BY <2>1, NoRowSound DEF TurnOK, Statuses, NoDraft, DraftOf
  <2>3. Drafts'
    BY <1>0, <1>7, <1>12, <2>2, DraftsSet
  <2>4. /\ draft'[c] = NoDraft /\ status'[c] = "cancelled"
        /\ \A t \in Turns \ {c} : draft'[t] = draft[t] /\ status'[t] = status[t]
    BY <1>0, <1>12 DEF Drafts
  <2>5. CheckpointKnown'
    BY <1>6, <2>4 DEF CheckpointKnown
  <2>6. TurnFollowups'
    BY <1>0, <1>1, <2>2, <2>4, NoRowSound DEF TurnFollowups, Known
  <2> QED
    BY <1>8, <1>10, <1>11, <1>9, <2>3, <2>5, <2>6 DEF IInv
<1>13. CASE draft' = [draft EXCEPT ![c] = DraftCheckpointed(d, c)] /\ UNCHANGED status
  <2> DEFINE n == DraftCheckpointed(d, c)
  <2>1. d.base \in Session /\ Sound(d.base, gens, events)
    BY <1>2, CopyIs
  <2>2. /\ n \in Draft /\ n.base = [d.base EXCEPT !.ckpt = c] /\ n.msgs = d.msgs
        /\ n.pending = d.pending /\ n.ckpt = c /\ n.title = d.title /\ n.arch = d.arch
        /\ n.consumed = d.consumed /\ n.run = d.run
    BY <1>2, <2>1 DEF DraftCheckpointed, Draft, Session
  <2>3. /\ n.base \in Session /\ n.base.gen = d.base.gen /\ n.base.rev = d.base.rev
        /\ n.base.msgs = d.base.msgs /\ n.base.pending = d.base.pending
        /\ n.base.ckpt = c /\ n.base.title = d.base.title /\ n.base.arch = d.base.arch
    BY <2>1, <2>2 DEF Session
  <2> HIDE DEF n
  <2>4. Sound(n.base, gens, events)
    BY <1>1, <1>3, <2>1, <2>3 DEF Sound
  <2>5. TurnOK(n, "prepared", gens', events')
    BY <1>1, <1>2, <2>2, <2>3, <2>4 DEF TurnOK, Copy
  <2>6. Drafts'
    <3>1. status' = [status EXCEPT ![c] = "prepared"]
      BY <1>0, <1>1, <1>13 DEF Drafts
    <3> QED
      BY <1>0, <1>7, <1>13, <2>5, <3>1, DraftsSet DEF n
  <2>7. draft'[c] = n /\ \A t \in Turns \ {c} : draft'[t] = draft[t]
    BY <1>0, <1>13 DEF Drafts, n
  <2>8. CheckpointKnown'
    BY <1>1, <1>6, <1>13, <2>3, <2>7 DEF CheckpointKnown
  <2>9. TurnFollowups'
    BY <1>0, <1>1, <2>2, <2>7 DEF TurnFollowups, Known
  <2> QED
    BY <1>8, <1>10, <1>11, <1>9, <2>6, <2>8, <2>9 DEF IInv
<1> QED
  BY <1>1, <1>12, <1>13

(* Two histories in a row, and a history with a marker put in.             *)
LEMMA Joined ==
  ASSUME NEW a \in Seq(Message), NEW b \in Seq(Message)
  PROVE  /\ a \o b \in Seq(Message) /\ Len(a \o b) = Len(a) + Len(b)
         /\ Authors(a \o b) = Authors(a) \cup Authors(b) /\ Keeps(a, a \o b)
         /\ \A g : Pure(a, g) /\ Pure(b, g) => Pure(a \o b, g)
<1> DEFINE u == a \o b
<1>1. /\ u \in Seq(Message) /\ Len(u) = Len(a) + Len(b)
      /\ \A i \in 1 .. Len(a) + Len(b) : u[i] = IF i <= Len(a) THEN a[i] ELSE b[i - Len(a)]
  BY ConcatProperties
<1> HIDE DEF u
<1>2. \A i \in 1 .. Len(u) : \/ i \in 1 .. Len(a) /\ u[i] = a[i]
                             \/ i - Len(a) \in 1 .. Len(b) /\ u[i] = b[i - Len(a)]
  BY <1>1
<1>3. \A i \in 1 .. Len(a) : i \in 1 .. Len(u) /\ u[i] = a[i]
  BY <1>1
<1>4. \A i \in 1 .. Len(b) : Len(a) + i \in 1 .. Len(u) /\ u[Len(a) + i] = b[i]
  <2> TAKE i \in 1 .. Len(b)
  <2>1. Len(a) + i \in 1 .. Len(u) /\ ~(Len(a) + i <= Len(a)) /\ Len(a) + i - Len(a) = i
    BY <1>1
  <2> QED
    BY <1>1, <2>1
<1>5. DOMAIN u = 1 .. Len(u) /\ DOMAIN a = 1 .. Len(a) /\ DOMAIN b = 1 .. Len(b)
  BY <1>1
<1>6. Authors(u) = Authors(a) \cup Authors(b)
  <2>1. Authors(a) \subseteq Authors(u) /\ Authors(u) \subseteq Authors(a) \cup Authors(b)
    BY <1>2, <1>3, <1>5 DEF Authors
  <2>2. Authors(b) \subseteq Authors(u)
    BY <1>4, <1>5 DEF Authors
  <2> QED
    BY <2>1, <2>2
<1>7. \A g : Pure(a, g) /\ Pure(b, g) => Pure(u, g)
  BY <1>2, <1>5 DEF Pure
<1>8. Keeps(a, u)
  BY <1>1, <1>3, KeepsStart
<1> QED
  BY <1>1, <1>6, <1>7, <1>8 DEF u

LEMMA Marked ==
  ASSUME NEW s \in Seq(Message), NEW x \in Message, NEW j \in 1 .. Len(s) + 1
  PROVE  /\ InsertAt(s, j, x) \in Seq(Message) /\ Len(InsertAt(s, j, x)) = Len(s) + 1
         /\ Authors(InsertAt(s, j, x)) = Authors(s) \cup {x.by}
         /\ Keeps(s, InsertAt(s, j, x))
         /\ Pure(s, x.gen) => Pure(InsertAt(s, j, x), x.gen)
<1> DEFINE u == InsertAt(s, j, x)
<1>1. /\ u \in Seq(Message) /\ Len(u) = Len(s) + 1
      /\ \A i \in 1 .. j - 1 : u[i] = s[i]
      /\ u[j] = x
      /\ \A i \in j .. Len(s) : u[i + 1] = s[i]
  BY Inserted
<1> HIDE DEF u
<1>2. \A i \in 1 .. Len(u) : \/ i \in 1 .. Len(s) /\ u[i] = s[i]
                             \/ u[i] = x
                             \/ i - 1 \in 1 .. Len(s) /\ u[i] = s[i - 1]
  <2> TAKE i \in 1 .. Len(u)
  <2>1. CASE i < j
    BY <1>1, <2>1
  <2>2. CASE i > j
    <3>1. i - 1 \in j .. Len(s) /\ i - 1 + 1 = i
      BY <1>1, <2>2
    <3>2. u[i - 1 + 1] = s[i - 1]
      BY <1>1, <3>1
    <3> QED
      BY <3>1, <3>2
  <2> QED
    BY <1>1, <2>1, <2>2
<1>3. \A i \in 1 .. Len(s) : \E k \in 1 .. Len(u) : u[k] = s[i]
  <2> TAKE i \in 1 .. Len(s)
  <2>1. CASE i < j
    BY <1>1, <2>1
  <2>2. CASE i >= j
    <3>1. i + 1 \in 1 .. Len(u) /\ u[i + 1] = s[i]
      BY <1>1, <2>2
    <3> QED
      BY <3>1
  <2> QED
    BY <2>1, <2>2
<1>4. DOMAIN u = 1 .. Len(u) /\ DOMAIN s = 1 .. Len(s) /\ j \in DOMAIN u
  BY <1>1
<1>5. Authors(u) = Authors(s) \cup {x.by}
  <2>1. Authors(u) \subseteq Authors(s) \cup {x.by}
    BY <1>2, <1>4 DEF Authors
  <2>2. x.by \in Authors(u)
    BY <1>1, <1>4 DEF Authors
  <2>3. ASSUME NEW a \in Authors(s)  PROVE a \in Authors(u)
    <3>1. PICK i \in 1 .. Len(s) : a = s[i].by
      BY <1>4 DEF Authors
    <3>2. PICK k \in 1 .. Len(u) : u[k] = s[i]
      BY <1>3
    <3> QED
      BY <1>4, <3>1, <3>2 DEF Authors
  <2> QED
    BY <2>1, <2>2, <2>3
<1>6. Pure(s, x.gen) => Pure(u, x.gen)
  BY <1>2, <1>4 DEF Pure
<1>7. Keeps(s, u)
  <2> DEFINE f == [i \in 1 .. Len(s) |-> IF i < j THEN i ELSE i + 1]
  <2>1. \A i \in 1 .. Len(s) : i \in 1 .. Len(u) /\ i + 1 \in 1 .. Len(u)
    BY <1>1
  <2>2. /\ f \in [1 .. Len(s) -> 1 .. Len(u)]
        /\ \A i \in 1 .. Len(s) : f[i] = IF i < j THEN i ELSE i + 1
    BY <2>1
  <2> HIDE DEF f
  <2>3. \A i \in 1 .. Len(s) : u[f[i]] = s[i]
    BY <1>1, <2>2
  <2>4. \A i, k \in 1 .. Len(s) : i < k => f[i] < f[k]
    BY <2>2
  <2> QED
    BY <2>2, <2>3, <2>4 DEF Keeps
<1> QED
  BY <1>1, <1>5, <1>6, <1>7 DEF u

(* What a turn commits at its end: its follow-ups and its answer, and the  *)
(* marker of a summary it made.                                            *)
LEMMA FinishSubmits ==
  ASSUME IInv, NEW c \in Turns, NEW place \in Places, NEW n \in Nat, Finish(c, place, n)
  PROVE  LET d == draft[c]
             all == d.msgs \o Append(d.run, Msg("out", c, d.base.gen))
             at == IF place = "before_input" THEN Len(d.msgs) - 1 ELSE Len(d.msgs) + n
         IN  \E p : /\ SubmitDraft(c, p, "saved") /\ Proposal(p)
                    /\ p.base = d.base /\ p.ckpt = Nobody /\ p.run = <<>>
                    /\ p.consumed = Authors(d.run) \cap Followups
                    /\ d.msgs # <<>> /\ at \in Len(d.msgs) - 1 .. Len(all)
                    /\ \/ p.msgs = all /\ p.arch = d.arch
                       \/ /\ p.msgs = InsertAt(all, at + 1, Msg("mark", at, d.base.gen))
                          /\ p.arch = at
<1> DEFINE d == draft[c]
           out == Msg("out", c, d.base.gen)
           rows == Append(d.run, out)
           taken == {f \in Followups : \E i \in DOMAIN d.run : d.run[i].by = f}
           all == d.msgs \o rows
           at == IF place = "before_input" THEN Len(d.msgs) - 1 ELSE Len(d.msgs) + n
           mark == Msg("mark", at, d.base.gen)
           w == WithSummary(d, rows, place, n)
           p == Finished([w EXCEPT !.consumed = @ \cup taken, !.run = <<>>])
<1>1. /\ status[c] = "prepared" /\ SubmitDraft(c, p, "saved")
      /\ n \in 0 .. (IF place = "within" THEN Len(rows) ELSE 0)
  BY DEF Finish
<1>2. /\ Versions /\ Copy(d, gens, events) /\ d \in Draft
      /\ d.base \in Session /\ d.consumed = {} /\ d.msgs \in Seq(Message)
      /\ d.run \in Seq(Message) /\ Pure(d.run, d.base.gen) /\ Pure(d.msgs, d.base.gen)
      /\ d.msgs = d.base.msgs /\ d.arch <= Len(d.msgs) /\ d.title = d.base.title
      /\ Sound(d.base, gens, events) /\ c # Nobody
  BY <1>1, TurnHas, CopyIs
<1>3. d.msgs # <<>>
  BY <1>1 DEF IInv, Drafts, TurnOK
<1>4. taken = Authors(d.run) \cap Followups
  BY <1>2 DEF Authors
<1> HIDE DEF d, taken
<1>5. out \in Message /\ out.gen = d.base.gen /\ out.by = c
  BY <1>2 DEF Msg, Message, Whats, Session
<1> HIDE DEF out
<1>6. /\ rows \in Seq(Message) /\ Authors(rows) = Authors(d.run) \cup {c}
      /\ Pure(rows, d.base.gen) /\ Len(rows) \in Nat /\ Len(rows) > 0
  BY <1>2, <1>5, OneMore
<1> HIDE DEF rows
<1>7. /\ all \in Seq(Message) /\ Len(all) = Len(d.msgs) + Len(rows)
      /\ Authors(all) = Authors(d.msgs) \cup Authors(d.run) \cup {c}
      /\ Pure(all, d.base.gen) /\ Keeps(d.msgs, all)
  BY <1>2, <1>6, Joined
<1> HIDE DEF all
<1>8. at \in 0 .. Len(all) /\ at \in Len(d.msgs) - 1 .. Len(all)
  <2>1. Len(d.msgs) \in Nat /\ Len(d.msgs) > 0
    BY <1>2, <1>3
  <2>2. n <= Len(rows)
    BY <1>1, <1>6
  <2> QED
    BY <1>6, <1>7, <2>1, <2>2
<1> HIDE DEF at
<1>9. mark \in Message /\ mark.gen = d.base.gen /\ mark.by = at /\ at \notin Followups
  BY <1>2, <1>8, NamesAssumption DEF Msg, Message, Whats, Session
<1> HIDE DEF mark
<1> DEFINE u == InsertAt(all, at + 1, mark)
<1>10. /\ u \in Seq(Message) /\ Len(u) = Len(all) + 1
       /\ Authors(u) = Authors(all) \cup {at} /\ Pure(u, d.base.gen) /\ Keeps(all, u)
  <2>1. at + 1 \in 1 .. Len(all) + 1
    BY <1>7, <1>8
  <2> QED
    BY <1>7, <1>9, <2>1, Marked
<1>11. \/ w = [d EXCEPT !.msgs = all]
       \/ w = [d EXCEPT !.arch = at, !.msgs = u]
  BY DEF WithSummary, all, at, mark, u
<1> HIDE DEF u, w
<1>12. /\ p.base = d.base /\ p.title = d.title /\ p.ckpt = Nobody /\ p.pending = FALSE
       /\ p.consumed = taken /\ p.run = <<>> /\ p \in Draft
       /\ \/ p.msgs = all /\ p.arch = d.arch
          \/ p.msgs = u /\ p.arch = at
  <2>1. taken \in SUBSET Followups /\ <<>> \in Seq(Message) /\ at \in Nat
    BY <1>7, <1>8 DEF taken
  <2>2. /\ w \in Draft /\ w.base = d.base /\ w.title = d.title /\ w.consumed = {}
        /\ \/ w.msgs = all /\ w.arch = d.arch
           \/ w.msgs = u /\ w.arch = at
    BY <1>2, <1>7, <1>10, <1>11, <2>1 DEF Draft
  <2> QED
    BY <2>1, <2>2 DEF Finished, Draft
<1> HIDE DEF p
<1>13. /\ Len(d.msgs) < Len(p.msgs) /\ p.arch <= Len(p.msgs) /\ Pure(p.msgs, d.base.gen)
       /\ Authors(d.msgs) \subseteq Authors(p.msgs) /\ Authors(d.run) \subseteq Authors(p.msgs)
       /\ Authors(p.msgs) \subseteq Authors(d.msgs) \cup Authors(d.run) \cup {c, at}
       /\ Keeps(d.msgs, p.msgs)
  <2>1. Len(d.msgs) \in Nat /\ d.arch \in Nat
    BY <1>2 DEF Draft
  <2>2. CASE p.msgs = all /\ p.arch = d.arch
    <3>1. Len(d.msgs) < Len(p.msgs) /\ p.arch <= Len(p.msgs)
      BY <1>2, <1>6, <1>7, <2>1, <2>2
    <3> QED
      BY <1>7, <2>2, <3>1
  <2>3. CASE p.msgs = u /\ p.arch = at
    <3>1. Len(d.msgs) < Len(p.msgs) /\ p.arch <= Len(p.msgs)
      BY <1>6, <1>7, <1>8, <1>10, <2>1, <2>3
    <3>2. Keeps(d.msgs, u)
      BY <1>2, <1>7, <1>10, KeepsChain
    <3> QED
      BY <1>7, <1>10, <2>3, <3>1, <3>2
  <2> QED
    BY <1>12, <2>2, <2>3
<1>14. Proposal(p)
  <2>1. c \notin Followups
    BY NamesAssumption
  <2>2. p.msgs # p.base.msgs /\ Len(p.base.msgs) <= Len(p.msgs)
    BY <1>2, <1>12, <1>13 DEF Draft
  <2> QED
    BY <1>2, <1>4, <1>9, <1>12, <1>13, <2>1, <2>2 DEF Proposal
<1> QED
  BY <1>1, <1>3, <1>4, <1>8, <1>12, <1>14 DEF d, out, rows, all, at, mark, u

LEMMA StepFinish ==
  ASSUME IInv, NEW c \in Turns, NEW place \in Places, NEW n \in Nat, Finish(c, place, n)
  PROVE  IInv' /\ Moved
<1> DEFINE d == draft[c]
<1>1. status[c] = "prepared"
      /\ UNCHANGED <<source, stop, inbox, journaled, acked, delivered, events>>
  BY DEF Finish, inputVars, countVars
<1>2. /\ Versions /\ Copy(d, gens, events) /\ Known(Authors(d.run))
      /\ row.ckpt = c => d.base.ckpt = c
      /\ c # Nobody
  BY <1>1, TurnHas
<1>3. PICK p : /\ SubmitDraft(c, p, "saved") /\ Proposal(p)
               /\ p.base = d.base /\ p.ckpt = Nobody /\ p.run = <<>>
               /\ p.consumed = Authors(d.run) \cap Followups
  BY FinishSubmits
<1> HIDE DEF d
<1>4. Mergeable(p) => Merged(p).ckpt # c
  <2>1. Mergeable(p) => /\ Merged(p).ckpt \in {row.ckpt, Nobody}
                        /\ p.base.ckpt # Nobody => Merged(p).ckpt = Nobody
    BY <1>2, <1>3, MergedIs
  <2> QED
    BY <1>2, <1>3, <2>1
<1>5. Known(p.consumed) /\ Authors(p.run) = {} /\ Known(Authors(p.run)) /\ Pure(p.run, p.base.gen)
  BY <1>2, <1>3 DEF Known, Authors, Pure
<1> QED
  BY <1>1, <1>3, <1>4, <1>5, SubmitKeeps

(* A turn that ends or stops without a commit: the row stays, and no draft *)
(* is kept that was not there.                                             *)
LEMMA TurnMoves ==
  ASSUME IInv, UNCHANGED <<row, gens, journaled, acked, delivered>>, retired' \in BOOLEAN,
         events' \in 0 .. MaxEvents, events <= events',
         snap' = snap \/ snap' = NoRow, source' \in {source, NoRow},
         inbox' \subseteq inbox \cup row.journal,
         holder' \in {holder, Nobody}, source' # source => holder' = Nobody,
         stop' \in [turn : Turns \cup {Nobody}, ids : SUBSET Followups],
         draft' \in [Turns -> Draft], status' \in [Turns -> Statuses],
         \A c \in Turns :
           /\ draft'[c] = draft[c] \/ draft'[c] = NoDraft
           /\ \/ status'[c] = status[c] /\ draft'[c] = draft[c]
              \/ status'[c] \in {"refused", "dead", "cancelled"}
              \/ status[c] = "saved" /\ status'[c] = "done"
  PROVE  IInv' /\ Moved
<1>0. Versions /\ Drafts /\ Rest /\ CheckpointKnown /\ RowFollowups /\ TurnFollowups
  BY DEF IInv
<1>1. Later /\ gens' \in Nat /\ events' \in Nat /\ Sound(row', gens', events')
  <2>1. gens \in Nat /\ events \in Nat /\ Sound(row, gens, events) /\ events' \in Nat
    BY <1>0 DEF Versions
  <2> QED
    BY <2>1, SoundLater DEF Later
<1>2. Versions'
  <2>1. CASE snap' = snap
    BY <1>0, <1>1, <2>1, Published
  <2>2. CASE snap' = NoRow
    BY <1>0, <1>1, <2>2, Published
  <2> QED
    BY <2>1, <2>2
<1>3. Drafts'
  <2>1. ASSUME NEW c \in Turns  PROVE TurnOK(draft'[c], status'[c], gens', events')
    <3>1. /\ Copy(draft[c], gens, events) /\ TurnOK(draft[c], status[c], gens, events)
          /\ gens \in Nat /\ events \in Nat
      BY <1>0 DEF Drafts, TurnOK, Versions
    <3>2. Copy(draft[c], gens', events') /\ Copy(NoDraft, gens', events')
      BY <1>1, <3>1, CopyLater, NoRowSound DEF Later
    <3> QED
      BY <3>1, <3>2 DEF TurnOK
  <2> QED
    BY <2>1 DEF Drafts
<1>4. CheckpointKnown'
  BY <1>0 DEF CheckpointKnown
<1>5. RowFollowups'
  BY <1>0 DEF RowFollowups, Accounted, Known
<1>6. TurnFollowups'
  <2>1. \A c \in Turns : Known(Authors(draft'[c].run))
    <3>1. NoDraft.run = <<>> /\ Authors(<<>>) = {}
      BY NoRowSound DEF NoDraft, DraftOf, Authors
    <3> QED
      BY <1>0, <3>1 DEF TurnFollowups, Known
  <2>2. Known(inbox')
    BY <1>0 DEF TurnFollowups, RowFollowups, Known
  <2> QED
    BY <2>1, <2>2 DEF TurnFollowups, Known
<1>7. Rest'
  <2>1. row.journal \subseteq Followups
    BY <1>0 DEF Versions, Sound, Session
  <2> QED
    BY <1>0, <2>1, NamesAssumption DEF Rest
<1> QED
  BY <1>0, <1>2, <1>3, <1>4, <1>5, <1>6, <1>7, RowSame DEF IInv

LEMMA StepQuiet ==
  ASSUME IInv, NEW c,
         \/ c \in Turns /\ CheckpointRefused(c)
         \/ c \in Turns /\ Release(c)
         \/ c \in Turns /\ StopRead(c)
         \/ c \in Turns /\ Cancel(c)
         \/ Restart
  PROVE  IInv' /\ Moved
<1>0. Versions /\ Drafts /\ Rest
  BY DEF IInv
<1>1. /\ draft \in [Turns -> Draft] /\ status \in [Turns -> Statuses]
      /\ NoDraft \in Draft /\ events \in 0 .. MaxEvents /\ row.journal \subseteq Followups
  <2>1. gens \in Nat /\ events \in Nat
    BY <1>0 DEF Versions
  <2> QED
    BY <1>0, <2>1, NoRowSound DEF Drafts, Copy, Versions, Sound, Session
<1>2. CASE c \in Turns /\ CheckpointRefused(c)
  BY <1>0, <1>1, <1>2, TurnMoves
  DEF CheckpointRefused, SetStatus, ownerVars, inputVars, countVars, Statuses, Rest
<1>3. CASE c \in Turns /\ Release(c)
  BY <1>0, <1>1, <1>3, TurnMoves
  DEF Release, SetStatus, SetDraft, ownerVars, inputVars, countVars, Statuses, Rest
<1>4. CASE c \in Turns /\ StopRead(c)
  BY <1>0, <1>1, <1>4, TurnMoves, BoundsAssumption
  DEF StopRead, Event, ownerVars, inputVars, Rest
<1>5. CASE c \in Turns /\ Cancel(c)
  BY <1>0, <1>1, <1>5, TurnMoves
  DEF Cancel, SetStatus, SetDraft, ownerVars, inputVars, countVars, Statuses, Rest
<1>6. CASE Restart
  <2>1. /\ events' = events + 1 /\ events < MaxEvents
        /\ draft' = [t \in Turns |-> IF t = holder THEN NoDraft ELSE draft[t]]
        /\ status' = [t \in Turns |-> IF t = holder THEN "dead" ELSE status[t]]
        /\ source' = NoRow /\ holder' = Nobody /\ stop' = [turn |-> Nobody, ids |-> {}]
        /\ snap' = NoRow /\ retired' = FALSE /\ inbox' = row.journal
        /\ UNCHANGED <<row, gens, journaled, acked, delivered>>
    BY <1>6 DEF Restart, Event
  <2>2. /\ draft' \in [Turns -> Draft] /\ status' \in [Turns -> Statuses]
        /\ \A t \in Turns :
             \/ status'[t] = status[t] /\ draft'[t] = draft[t]
             \/ status'[t] = "dead" /\ draft'[t] = NoDraft
    BY <1>1, <2>1 DEF Statuses
  <2>3. events' \in 0 .. MaxEvents /\ events <= events'
    BY <1>1, <2>1, BoundsAssumption
  <2>4. stop' \in [turn : Turns \cup {Nobody}, ids : SUBSET Followups]
    BY <2>1
  <2> QED
    BY <1>0, <2>1, <2>2, <2>3, <2>4, TurnMoves
<1> QED
  BY <1>2, <1>3, <1>4, <1>5, <1>6

-----------------------------------------------------------------------------
(* One lemma per action: the others.                                       *)

(* A commit changes nothing in a version but its revision.                 *)
LEMMA NextRevision ==
  ASSUME NEW s \in Session, NEW r, r = [s EXCEPT !.rev = @ + 1]
  PROVE  /\ r \in Session /\ r.gen = s.gen /\ r.rev = s.rev + 1 /\ r.msgs = s.msgs
         /\ r.journal = s.journal /\ r.ckpt = s.ckpt /\ r.title = s.title /\ r.arch = s.arch
BY DEF Session

(* A step that moves no turn.                                              *)
LEMMA OthersMove ==
  ASSUME IInv, Later, Versions', RowFollowups', UNCHANGED <<draft, status>>,
         row'.ckpt \in {row.ckpt, Nobody},
         inbox' \subseteq Followups, Known(inbox)',
         \A f \in Followups : journaled[f] # 0 => journaled'[f] # 0,
         journaled' \in [Followups -> Nat], \A f \in Followups : journaled'[f] <= gens',
         retired' \in BOOLEAN, holder' \in Turns \cup {Nobody, Compactor},
         holder' = Compactor => source'.gen # 0,
         stop' \in [turn : Turns \cup {Nobody}, ids : SUBSET Followups],
         acked' \subseteq Followups, delivered' \subseteq Deliveries
  PROVE  IInv'
<1>0. Versions /\ Drafts /\ CheckpointKnown /\ TurnFollowups
  BY DEF IInv
<1>1. Drafts'
  BY <1>0, DraftsSame
<1>2. CheckpointKnown'
  BY <1>0, NamesAssumption DEF CheckpointKnown
<1>3. TurnFollowups'
  BY <1>0 DEF TurnFollowups, Known
<1>4. Rest'
  BY DEF Rest
<1> QED
  BY <1>1, <1>2, <1>3, <1>4 DEF IInv

(* The owner, or another process, wrote a version whose records and        *)
(* journal go on where those of the row stop.                              *)
LEMMA RowGoesOn ==
  ASSUME IInv, Later, Sound(row', gens', events'), Carries(row', {}),
         \/ snap' \in {row', NoRow}
         \/ snap' = snap /\ row' = row
         \/ snap' = snap /\ row'.rev > row.rev,
         source' \in {source, NoRow, row},
         row'.ckpt \in {row.ckpt, Nobody}, retired' \in BOOLEAN,
         holder' \in Turns \cup {Nobody, Compactor},
         holder' = Compactor => source'.gen # 0,
         delivered' \subseteq Deliveries,
         UNCHANGED <<draft, status, stop, inbox, journaled, acked>>
  PROVE  IInv' /\ Moved
<1>0. Versions /\ Rest /\ RowFollowups /\ TurnFollowups
  BY DEF IInv
<1>1. Versions'
  BY <1>0, Published DEF Carries
<1>2. Known({}) /\ {} \in SUBSET Followups
  BY DEF Known
<1>3. RowFollowups'
  BY <1>0, <1>2, AccountedKept
<1>4. \A f \in Followups : journaled[f] \in Nat /\ journaled[f] <= gens'
  BY <1>0 DEF Rest, Later, Versions
<1> QED
  BY <1>0, <1>1, <1>3, <1>4, OthersMove DEF Rest, TurnFollowups, Known, Carries, Moved

(* The row was replaced by another life, or deleted.                       *)
LEMMA RowStartsAnew ==
  ASSUME IInv, Later, Sound(row', gens', events'),
         row'.msgs = <<>>, row'.journal = {}, row'.ckpt = Nobody,
         \/ row'.gen = gens + 1
         \/ row'.gen = 0 /\ snap' = NoRow,
         snap' = snap \/ snap' \in {row', NoRow}, retired' \in BOOLEAN,
         UNCHANGED <<draft, status, source, holder, stop, inbox, journaled, acked, delivered>>
  PROVE  IInv' /\ Moved
<1>0. Versions /\ Rest /\ TurnFollowups
  BY DEF IInv
<1>1. (row'.gen = 0 /\ snap' = NoRow) \/ row'.gen > gens
  BY <1>0 DEF Versions
<1>2. Versions'
  <2>1. CASE row'.gen > gens /\ snap' = snap
    BY <1>0, <2>1, Published
  <2>2. CASE snap' \in {row', NoRow}
    BY <1>0, <2>2, Published
  <2> QED
    BY <1>1, <2>1, <2>2
<1>3. RowFollowups'
  BY <1>0, <1>1, AccountedAnew
<1>4. \A f \in Followups : journaled[f] \in Nat /\ journaled[f] <= gens'
  BY <1>0 DEF Rest, Later, Versions
<1> QED
  BY <1>0, <1>2, <1>3, <1>4, OthersMove DEF Rest, TurnFollowups, Known, Moved

LEMMA StepSetTitle ==
  ASSUME IInv, SetTitle
  PROVE  IInv' /\ Moved
<1> DEFINE s == [row EXCEPT !.title = @ + 1]
<1>0. Versions /\ Rest
  BY DEF IInv
<1>1. /\ row \in Session /\ Sound(row, gens, events) /\ row.gen # 0
      /\ gens \in Nat /\ events \in Nat
      /\ events < MaxEvents /\ events' = events + 1 /\ CommitHeader(s)
      /\ UNCHANGED <<retired, gens, draft, status, source, holder, stop, inbox, journaled,
                     acked, delivered>>
  BY <1>0, LoadedIsRow DEF SetTitle, Event, turnVars, inputVars, Versions
<1>2. /\ s \in Session /\ s.gen = row.gen /\ s.rev = row.rev /\ s.msgs = row.msgs
      /\ s.journal = row.journal /\ s.ckpt = row.ckpt /\ s.title = row.title + 1
      /\ s.arch = row.arch
  <2>1. row.title + 1 \in Nat
    BY <1>1 DEF Session
  <2> QED
    BY <1>1, <2>1 DEF Session
<1> HIDE DEF s
<1>3. row' = [s EXCEPT !.rev = @ + 1] /\ snap' \in {row', NoRow}
  BY <1>0, <1>1, <1>2, HeaderSaves
<1>4. /\ row' \in Session /\ row'.gen = row.gen /\ row'.msgs = row.msgs
      /\ row'.journal = row.journal /\ row'.ckpt = row.ckpt
      /\ row'.title = row.title + 1 /\ row'.arch = row.arch
  BY <1>2, <1>3 DEF Session
<1>5. Later /\ Sound(row', gens', events')
  BY <1>1, <1>4, BoundsAssumption DEF Later, Sound, Session
<1>6. Carries(row', {})
  <2>1. row.title <= row'.title
    BY <1>1, <1>4 DEF Session
  <2> QED
    BY <1>1, <1>4, <2>1, SameRecords
<1> QED
  BY <1>0, <1>1, <1>3, <1>4, <1>5, <1>6, RowGoesOn DEF Rest

LEMMA StepRecordDelivery ==
  ASSUME IInv, NEW e \in Deliveries, NEW gen \in 1 .. gens, RecordDelivery(e, gen)
  PROVE  IInv' /\ Moved
<1> DEFINE x == Msg("delivery", e, gen)
           s == [row EXCEPT !.msgs = Append(@, x)]
<1>0. Versions /\ Rest
  BY DEF IInv
<1>1. /\ row \in Session /\ Sound(row, gens, events) /\ Loaded = row /\ Later
      /\ delivered' \subseteq Deliveries
      /\ \/ row.gen = gen /\ Commit(s)
         \/ UNCHANGED <<row, snap>>
      /\ UNCHANGED <<retired, gens, draft, status, source, holder, stop, inbox, journaled,
                     acked, events>>
  BY <1>0, LoadedIsRow
  DEF RecordDelivery, AcceptsDelivery, turnVars, inputVars, Versions, Later, Rest
<1>2. CASE UNCHANGED <<row, snap>>
  <2>1. Carries(row', {}) /\ Sound(row', gens', events')
    BY <1>0, <1>1, <1>2, RowSame
  <2> QED
    BY <1>0, <1>1, <1>2, <2>1, RowGoesOn DEF Rest
<1>3. CASE row.gen = gen /\ Commit(s)
  <2>1. x \in Message /\ x.gen = gen /\ x.by = e /\ e \notin Followups
    BY <1>3, NamesAssumption DEF Msg, Message, Whats
  <2> HIDE DEF x
  <2>2. /\ Append(row.msgs, x) \in Seq(Message) /\ Len(Append(row.msgs, x)) = Len(row.msgs) + 1
        /\ Authors(Append(row.msgs, x)) = Authors(row.msgs) \cup {e}
        /\ Pure(Append(row.msgs, x), gen) /\ Append(row.msgs, x) # <<>>
        /\ Keeps(row.msgs, Append(row.msgs, x))
    BY <1>1, <1>3, <2>1, OneMore DEF Sound, Session
  <2>3. s \in Session
    BY <1>1, <2>2 DEF Session
  <2>4. row' = [s EXCEPT !.rev = @ + 1] /\ snap' = row'
    BY <1>0, <1>3, <2>3, CommitSaves
  <2>5. /\ row' \in Session /\ row'.gen = row.gen /\ row'.msgs = Append(row.msgs, x)
        /\ row'.journal = row.journal /\ row'.ckpt = row.ckpt
        /\ row'.title = row.title /\ row'.arch = row.arch
    <3>1. /\ s.gen = row.gen /\ s.msgs = Append(row.msgs, x) /\ s.journal = row.journal
          /\ s.ckpt = row.ckpt /\ s.title = row.title /\ s.arch = row.arch
      BY <1>1 DEF Session
    <3> HIDE DEF s
    <3> QED
      BY <2>3, <2>4, <3>1, NextRevision
  <2> HIDE DEF s
  <2>6. Sound(row', gens', events')
    <3>1. row.gen # 0
      BY <1>3
    <3> QED
      BY <1>1, <1>3, <2>2, <2>5, <3>1 DEF Sound, Session
  <2>7. Carries(row', {})
    BY <1>1, <2>1, <2>2, <2>5 DEF Carries, Session
  <2> QED
    BY <1>0, <1>1, <2>4, <2>5, <2>6, <2>7, RowGoesOn DEF Rest
<1> QED
  BY <1>1, <1>2, <1>3

LEMMA StepForeignDelivery ==
  ASSUME IInv, NEW e \in Deliveries, ForeignDelivery(e)
  PROVE  IInv' /\ Moved
<1> DEFINE x == Msg("delivery", e, row.gen)
           s == [row EXCEPT !.msgs = Append(@, x)]
<1>0. Versions /\ Rest
  BY DEF IInv
<1>1. /\ row \in Session /\ Sound(row, gens, events) /\ row.gen # 0
      /\ gens \in Nat /\ events \in Nat /\ events < MaxEvents /\ events' = events + 1
      /\ delivered' \subseteq Deliveries
      /\ row' = [row EXCEPT !.rev = @ + 1, !.msgs = Append(@, x)]
      /\ UNCHANGED <<snap, retired, gens, draft, status, source, holder, stop, inbox,
                     journaled, acked>>
  BY <1>0, LoadedIsRow DEF ForeignDelivery, Event, turnVars, inputVars, Versions, Rest
<1>2. x \in Message /\ x.gen = row.gen /\ x.by = e /\ e \notin Followups
  BY <1>1, NamesAssumption DEF Msg, Message, Whats, Session
<1> HIDE DEF x
<1>3. /\ Append(row.msgs, x) \in Seq(Message) /\ Len(Append(row.msgs, x)) = Len(row.msgs) + 1
      /\ Authors(Append(row.msgs, x)) = Authors(row.msgs) \cup {e}
      /\ Pure(Append(row.msgs, x), row.gen) /\ Keeps(row.msgs, Append(row.msgs, x))
  BY <1>1, <1>2, OneMore DEF Sound, Session
<1>4. /\ row' \in Session /\ row'.gen = row.gen /\ row'.msgs = Append(row.msgs, x)
      /\ row'.rev = row.rev + 1 /\ row'.journal = row.journal /\ row'.ckpt = row.ckpt
      /\ row'.title = row.title /\ row'.arch = row.arch
  <2>1. row.rev + 1 \in Nat
    BY <1>1 DEF Session
  <2> QED
    BY <1>1, <1>3, <2>1 DEF Session
<1>5. Later /\ Sound(row', gens', events') /\ row'.rev > row.rev
  <2>1. Later /\ row'.rev > row.rev /\ gens' = gens
    BY <1>1, <1>4, BoundsAssumption, SMTT(30) DEF Later, Session
  <2>2. row.arch \in Nat /\ row.title \in Nat /\ row.msgs \in Seq(Message)
    BY <1>1 DEF Session
  <2>3. Sound(row', gens', events')
    BY <1>1, <1>3, <1>4, <2>1, <2>2 DEF Sound
  <2> QED
    BY <2>1, <2>3
<1>6. Carries(row', {})
  BY <1>1, <1>2, <1>3, <1>4 DEF Carries, Session
<1> QED
  BY <1>0, <1>1, <1>4, <1>5, <1>6, RowGoesOn DEF Rest

LEMMA StepReplace ==
  ASSUME IInv, Reset \/ ForeignReset \/ Delete
  PROVE  IInv' /\ Moved
<1>0. Versions /\ Rest
  BY DEF IInv
<1>1. /\ row \in Session /\ Sound(row, gens, events)
      /\ gens \in Nat /\ events \in Nat /\ events < MaxEvents /\ events' = events + 1
      /\ events' \in Nat /\ gens + 1 \in Nat
      /\ \/ row' = ResetRow /\ gens' = gens + 1 /\ snap' \in {row', snap}
         \/ row' = NoRow /\ snap' = NoRow /\ gens' = gens
      /\ retired' \in BOOLEAN
      /\ UNCHANGED <<draft, status, source, holder, stop, inbox, journaled, acked, delivered>>
  <2>1. /\ row \in Session /\ Sound(row, gens, events) /\ gens \in Nat /\ events \in Nat
        /\ gens + 1 \in Nat /\ events + 1 \in Nat /\ retired \in BOOLEAN
    BY <1>0, LoadedIsRow DEF Versions, Rest
  <2>2. CASE Reset
    BY <2>1, <2>2 DEF Reset, Create, Event, turnVars, inputVars
  <2>3. CASE ForeignReset
    BY <2>1, <2>3 DEF ForeignReset, Event, turnVars, inputVars
  <2>4. CASE Delete
    BY <2>1, <2>4 DEF Delete, Event, turnVars, inputVars
  <2> QED
    BY <2>2, <2>3, <2>4
<1>2. Later
  BY <1>1, BoundsAssumption DEF Later
<1>3. CASE row' = ResetRow /\ gens' = gens + 1 /\ snap' \in {row', snap}
  <2>1. /\ Fresh(gens + 1) \in Session /\ Fresh(gens + 1).gen = gens + 1
        /\ Fresh(gens + 1).msgs = <<>> /\ Fresh(gens + 1).journal = {}
        /\ Fresh(gens + 1).ckpt = Nobody /\ Sound(Fresh(gens + 1), gens + 1, events')
    BY <1>1, FreshSound
  <2>2. /\ row' \in Session /\ row'.gen = gens + 1 /\ row'.msgs = <<>> /\ row'.journal = {}
        /\ row'.ckpt = Nobody /\ row'.title = row.title
        /\ row'.arch = Fresh(gens + 1).arch
    BY <1>1, <1>3, <2>1 DEF ResetRow, Session
  <2>3. Sound(row', gens', events') /\ row'.gen > gens
    BY <1>1, <1>3, <2>1, <2>2 DEF Sound, Session
  <2> QED
    BY <1>1, <1>2, <1>3, <2>2, <2>3, RowStartsAnew
<1>4. CASE row' = NoRow /\ snap' = NoRow /\ gens' = gens
  <2>1. Sound(row', gens', events')
    BY <1>1, <1>4, NoRowSound
  <2>2. row'.msgs = <<>> /\ row'.journal = {} /\ row'.ckpt = Nobody /\ row'.gen = 0
    BY <1>4 DEF NoRow
  <2> QED
    BY <1>1, <1>2, <1>4, <2>1, <2>2, RowStartsAnew
<1> QED
  BY <1>1, <1>3, <1>4

LEMMA StepRowStays ==
  ASSUME IInv, Evict \/ CompactStart \/ CompactFail
  PROVE  IInv' /\ Moved
<1>0. Versions /\ Rest
  BY DEF IInv
<1>1. /\ row \in Session /\ Sound(row, gens, events)
      /\ gens \in Nat /\ events \in 0 .. MaxEvents /\ events' \in 0 .. MaxEvents
      /\ events <= events'
      /\ row' = row /\ gens' = gens /\ snap' \in {snap, row, NoRow}
      /\ source' \in {source, NoRow, row} /\ retired' \in BOOLEAN
      /\ \/ UNCHANGED <<holder, source>>
         \/ holder' = Compactor /\ source' = row /\ row.gen # 0
         \/ holder' = Nobody /\ source' = NoRow
      /\ UNCHANGED <<draft, status, stop, inbox, journaled, acked, delivered>>
  <2>1. /\ row \in Session /\ Sound(row, gens, events)
        /\ gens \in Nat /\ events \in 0 .. MaxEvents /\ retired \in BOOLEAN
        /\ events < MaxEvents => events + 1 \in 0 .. MaxEvents /\ events <= events + 1
    BY <1>0, LoadedIsRow, BoundsAssumption DEF Versions, Rest
  <2>2. CASE Evict
    BY <2>1, <2>2 DEF Evict, Event, turnVars, inputVars
  <2>3. CASE CompactStart
    BY <2>1, <2>3 DEF CompactStart, Event, inputVars
  <2>4. CASE CompactFail
    BY <2>1, <2>4 DEF CompactFail, ownerVars, inputVars, countVars
  <2> QED
    BY <2>2, <2>3, <2>4
<1>2. Later /\ Sound(row', gens', events')
  BY <1>1, SoundLater DEF Later
<1>3. Carries(row', {})
  BY <1>0, <1>1, RowSame
<1> QED
  BY <1>0, <1>1, <1>2, <1>3, RowGoesOn, NamesAssumption DEF Rest

LEMMA StepCompactCommit ==
  ASSUME IInv, CompactCommit
  PROVE  IInv' /\ Moved
<1> DEFINE at == Len(source.msgs)
           x == Msg("mark", at, row.gen)
           u == InsertAt(row.msgs, at + 1, x)
           s == [row EXCEPT !.arch = at, !.msgs = u]
<1>0. Versions /\ Rest
  BY DEF IInv
<1>1. /\ row \in Session /\ Sound(row, gens, events) /\ Loaded = row /\ Later
      /\ source \in Session
      /\ holder' = Nobody /\ source' = NoRow
      /\ \/ row.gen = source.gen /\ IsPrefix(source.msgs, row.msgs) /\ Commit(s)
         \/ UNCHANGED <<row, snap>>
      /\ UNCHANGED <<retired, gens, draft, status, stop, inbox, journaled, acked, delivered,
                     events>>
  <2>1. row \in Session /\ Sound(row, gens, events) /\ Loaded = row /\ source \in Session
    BY <1>0, LoadedIsRow DEF Versions, Sound
  <2> QED
    BY <1>0, <2>1
    DEF CompactCommit, SourceStillThere, inputVars, countVars, Versions, Later
<1>2. CASE UNCHANGED <<row, snap>>
  <2>1. Carries(row', {}) /\ Sound(row', gens', events')
    BY <1>0, <1>1, <1>2, RowSame
  <2> QED
    BY <1>0, <1>1, <1>2, <2>1, RowGoesOn, NamesAssumption DEF Rest
<1>3. CASE row.gen = source.gen /\ IsPrefix(source.msgs, row.msgs) /\ Commit(s)
  <2>1. at \in 0 .. Len(row.msgs) /\ row.msgs \in Seq(Message) /\ at \notin Followups
    BY <1>1, <1>3, NamesAssumption DEF IsPrefix, Session
  <2> HIDE DEF at
  <2>2. x \in Message /\ x.gen = row.gen /\ x.by = at
    BY <1>1, <2>1 DEF Msg, Message, Whats, Session
  <2> HIDE DEF x
  <2>3. /\ u \in Seq(Message) /\ Len(u) = Len(row.msgs) + 1
        /\ Authors(u) = Authors(row.msgs) \cup {at} /\ Pure(u, row.gen) /\ Keeps(row.msgs, u)
    <3>1. at + 1 \in 1 .. Len(row.msgs) + 1
      BY <2>1
    <3> QED
      BY <1>1, <2>1, <2>2, <3>1, Marked DEF Sound
  <2> HIDE DEF u
  <2>4. /\ s \in Session /\ s.gen = row.gen /\ s.msgs = u /\ s.journal = row.journal
        /\ s.ckpt = row.ckpt /\ s.title = row.title /\ s.arch = at
    <3>1. at \in Nat
      BY <2>1
    <3> QED
      BY <1>1, <2>3, <3>1 DEF Session
  <2> HIDE DEF s
  <2>5. row' = [s EXCEPT !.rev = @ + 1] /\ snap' = row'
    BY <1>0, <1>3, <2>4, CommitSaves
  <2>6. /\ row' \in Session /\ row'.gen = row.gen /\ row'.msgs = u
        /\ row'.journal = row.journal /\ row'.ckpt = row.ckpt
        /\ row'.title = row.title /\ row'.arch = at
    BY <2>4, <2>5, NextRevision
  <2>7. row.gen # 0
    BY <1>0, <1>1, <1>3 DEF Rest, CompactCommit
  <2>8. Sound(row', gens', events')
    BY <1>1, <2>1, <2>3, <2>6, <2>7 DEF Sound, Session
  <2>9. Carries(row', {})
    BY <1>1, <2>1, <2>3, <2>6 DEF Carries, Session
  <2> QED
    BY <1>0, <1>1, <2>5, <2>6, <2>8, <2>9, RowGoesOn, NamesAssumption DEF Rest
<1> QED
  BY <1>1, <1>2, <1>3

-----------------------------------------------------------------------------
(* One lemma per action: a stop, and a follow-up.                          *)

LEMMA KeptProposed ==
  ASSUME Versions, NEW d, Copy(d, gens, events), NEW p,
         p = Finished(d) \/ (d.ckpt # Nobody /\ p = Finished(Salvaged(d)))
  PROVE  Proposal(p) /\ p.consumed = {} /\ p.ckpt = Nobody /\ p.base = d.base
<1>1. CASE d.ckpt # Nobody /\ p = Finished(Salvaged(d))
  BY <1>1, SalvagedProposed
<1>2. CASE p = Finished(d)
  <2>1. d \in Draft /\ d.consumed = {}
    BY CopyIs
  <2>2. /\ p \in Draft /\ p.base = d.base /\ p.msgs = d.msgs /\ p.title = d.title
        /\ p.arch = d.arch /\ p.ckpt = Nobody /\ p.consumed = d.consumed
    BY <1>2, <2>1 DEF Finished, Draft
  <2> QED
    BY <2>1, <2>2, CopyProposed
<1> QED
  BY <1>1, <1>2

LEMMA StepSalvage ==
  ASSUME IInv, NEW c \in Turns, Salvage(c)
  PROVE  IInv' /\ Moved
<1> DEFINE d == draft[c]
           kept == IF d.ckpt = Nobody THEN d ELSE Salvaged(d)
           p == Finished(kept)
           m == Merged(p)
<1>0. Versions /\ Drafts /\ Rest /\ CheckpointKnown /\ RowFollowups /\ TurnFollowups
  BY DEF IInv
<1>1. /\ status[c] = "salvaging" /\ holder' = Nobody
      /\ \/ /\ Mergeable(p) /\ Commit(m)
            /\ status' = [status EXCEPT ![c] = "stopped"]
            /\ draft' = [draft EXCEPT ![c] = NoDraft]
         \/ /\ status' = [status EXCEPT ![c] = "refused"]
            /\ UNCHANGED <<row, snap, draft>>
      /\ UNCHANGED <<retired, gens, source, stop, inbox, journaled, acked, delivered, events>>
  BY DEF Salvage, SetStatus, SetDraft, inputVars, countVars
<1>2. /\ draft \in [Turns -> Draft] /\ status \in [Turns -> Statuses]
      /\ events \in 0 .. MaxEvents /\ gens \in Nat /\ events \in Nat /\ NoDraft \in Draft
  <2>1. gens \in Nat /\ events \in Nat
    BY <1>0 DEF Versions
  <2> QED
    BY <1>0, <2>1, NoRowSound DEF Drafts, Copy, Versions
<1>3. CASE UNCHANGED <<row, snap, draft>> /\ status' = [status EXCEPT ![c] = "refused"]
  BY <1>0, <1>1, <1>2, <1>3, TurnMoves DEF Statuses, Rest
<1>4. CASE /\ Mergeable(p) /\ Commit(m)
           /\ status' = [status EXCEPT ![c] = "stopped"]
           /\ draft' = [draft EXCEPT ![c] = NoDraft]
  <2>1. /\ Copy(d, gens, events) /\ d \in Draft /\ c # Nobody /\ (row.ckpt = c => d.base.ckpt = c)
        /\ d.ckpt = d.base.ckpt /\ d.consumed = {}
    BY <1>1, TurnHas, CopyIs
  <2> HIDE DEF d
  <2>2. Proposal(p) /\ p.consumed = {} /\ p.ckpt = Nobody /\ p.base = d.base
    <3>1. p = Finished(d) \/ (d.ckpt # Nobody /\ p = Finished(Salvaged(d)))
      OBVIOUS
    <3>2. Versions /\ Copy(d, gens, events)
      BY <1>0, <2>1
    <3> HIDE DEF p, kept
    <3> QED
      BY <3>1, <3>2, KeptProposed
  <2> HIDE DEF p
  <2>3. /\ Sound(m, gens, events) /\ m.gen = row.gen /\ row.gen # 0
        /\ m.journal = row.journal /\ m.ckpt \in {row.ckpt, Nobody} /\ m.ckpt # c
        /\ Authors(row.msgs) \subseteq Authors(m.msgs)
        /\ Authors(m.msgs) \cap Followups \subseteq Authors(row.msgs)
        /\ Keeps(row.msgs, m.msgs) /\ m.title = row.title
    <3>1. Mergeable(p)
      BY <1>4
    <3>2. /\ Sound(m, gens, events) /\ m.gen = row.gen /\ row.gen # 0
          /\ m.journal = row.journal \ {} /\ m.ckpt \in {row.ckpt, Nobody}
          /\ d.base.ckpt # Nobody => m.ckpt = Nobody
          /\ Authors(row.msgs) \subseteq Authors(m.msgs)
          /\ Authors(m.msgs) \cap Followups \subseteq Authors(row.msgs) \cup {}
          /\ Keeps(row.msgs, m.msgs) /\ m.title = row.title
      BY <1>0, <2>2, <3>1, MergedIs
    <3> HIDE DEF m
    <3>3. row.journal \ {} = row.journal
      OBVIOUS
    <3>4. m.ckpt # c
      <4>1. CASE row.ckpt = c
        <5>1. d.base.ckpt # Nobody
          BY <2>1, <4>1
        <5> QED
          BY <2>1, <3>2, <5>1
      <4>2. CASE row.ckpt # c
        BY <2>1, <3>2, <4>2
      <4> QED
        BY <4>1, <4>2
    <3> QED
      BY <3>2, <3>3, <3>4
  <2> HIDE DEF m
  <2>4. m \in Session
    BY <2>3 DEF Sound
  <2>5. row' = [m EXCEPT !.rev = @ + 1] /\ snap' = row'
    BY <1>0, <1>4, <2>4, CommitSaves
  <2>6. /\ row' \in Session /\ row'.gen = m.gen /\ row'.msgs = m.msgs
        /\ row'.journal = m.journal /\ row'.ckpt = m.ckpt /\ row'.title = m.title
        /\ row'.arch = m.arch
    BY <2>4, <2>5, NextRevision
  <2>7. Later /\ Sound(row', gens', events')
    BY <1>1, <1>2, <2>3, <2>6 DEF Later, Sound
  <2>8. Versions'
    BY <1>0, <1>1, <2>5, <2>7, Published
  <2>9. Drafts' /\ TurnOK(NoDraft, "stopped", gens', events') /\ NoDraft.run = <<>>
    <3>1. TurnOK(NoDraft, "stopped", gens', events')
      BY <1>1, <1>2, NoRowSound DEF TurnOK, Statuses
    <3> QED
      BY <1>0, <1>4, <2>7, <3>1, DraftsSet DEF NoDraft, DraftOf
  <2>10. /\ draft'[c] = NoDraft /\ status'[c] = "stopped"
         /\ \A t \in Turns \ {c} : draft'[t] = draft[t] /\ status'[t] = status[t]
    BY <1>2, <1>4
  <2>11. CheckpointKnown'
    BY <1>0, <2>3, <2>6, <2>10, NamesAssumption DEF CheckpointKnown
  <2>12. Carries(row', {}) /\ Moved
    <3>1. row.journal \ {} = row.journal /\ row.title <= row'.title
      BY <1>0, <2>3, <2>6, LoadedIsRow DEF Session
    <3> QED
      BY <2>3, <2>6, <3>1 DEF Carries, Moved
  <2>13. RowFollowups'
    <3>1. Known({}) /\ {} \in SUBSET Followups
      BY DEF Known
    <3> QED
      BY <1>0, <1>1, <2>12, <3>1, AccountedKept
  <2>14. TurnFollowups'
    <3>1. Authors(NoDraft.run) = {}
      BY <2>9, NoRowSound DEF Authors
    <3> QED
      BY <1>0, <1>1, <2>10, <3>1 DEF TurnFollowups, Known
  <2>15. Rest'
    BY <1>0, <1>1, NamesAssumption DEF Rest
  <2> QED
    BY <2>8, <2>9, <2>11, <2>13, <2>14, <2>15, <2>12 DEF IInv
<1> QED
  BY <1>1, <1>3, <1>4

LEMMA StepStopAck ==
  ASSUME IInv, StopAck
  PROVE  IInv' /\ Moved
<1> DEFINE s == [row EXCEPT !.journal = @ \ stop.ids]
<1>0. Versions /\ Rest /\ RowFollowups /\ TurnFollowups
  BY DEF IInv
<1>1. /\ row \in Session /\ Sound(row, gens, events) /\ Later
      /\ stop.ids \subseteq Followups
      /\ stop' = [turn |-> Nobody, ids |-> {}]
      /\ inbox' \in {inbox, {}}
      /\ \/ row.gen # 0 /\ CommitHeader(s) /\ acked' = acked \cup stop.ids
         \/ UNCHANGED <<row, snap, acked>>
      /\ UNCHANGED <<retired, gens, holder, status, draft, source, journaled, delivered, events>>
  BY <1>0, LoadedIsRow DEF StopAck, countVars, Versions, Rest, Later
<1>2. /\ inbox' \subseteq Followups /\ Known(inbox)'
      /\ stop' \in [turn : Turns \cup {Nobody}, ids : SUBSET Followups]
  BY <1>0, <1>1 DEF TurnFollowups, Known, Rest
<1>3. CASE UNCHANGED <<row, snap, acked>>
  <2>1. Versions' /\ RowFollowups'
    BY <1>0, <1>1, <1>3 DEF Versions, Cached, RowFollowups, Accounted, Known
  <2> QED
    BY <1>0, <1>1, <1>2, <1>3, <2>1, OthersMove, RowSame DEF Rest
<1>4. CASE row.gen # 0 /\ CommitHeader(s) /\ acked' = acked \cup stop.ids
  <2>1. /\ s \in Session /\ s.gen = row.gen /\ s.rev = row.rev /\ s.msgs = row.msgs
        /\ s.journal = row.journal \ stop.ids /\ s.ckpt = row.ckpt
        /\ s.title = row.title /\ s.arch = row.arch
    BY <1>1 DEF Session
  <2> HIDE DEF s
  <2>2. row' = [s EXCEPT !.rev = @ + 1] /\ snap' \in {row', NoRow}
    BY <1>0, <1>4, <2>1, HeaderSaves
  <2>3. /\ row' \in Session /\ row'.gen = row.gen /\ row'.msgs = row.msgs
        /\ row'.journal = row.journal \ stop.ids /\ row'.ckpt = row.ckpt
        /\ row'.title = row.title /\ row'.arch = row.arch
    BY <2>1, <2>2, NextRevision
  <2>4. Sound(row', gens', events')
    BY <1>1, <1>4, <2>3 DEF Sound
  <2>5. Versions'
    BY <1>0, <1>1, <2>2, <2>4, Published
  <2>6. RowFollowups'
    BY <1>0, <1>1, <1>4, <2>3 DEF RowFollowups, Accounted, Known
  <2> QED
    BY <1>0, <1>1, <1>2, <1>4, <2>3, <2>5, <2>6, OthersMove, HeaderMoved DEF Rest
<1> QED
  BY <1>1, <1>3, <1>4

LEMMA StepQueueFollowup ==
  ASSUME IInv, NEW f \in Followups, QueueFollowup(f)
  PROVE  IInv' /\ Moved
<1> DEFINE s == IF row.gen = 0 THEN [Fresh(gens + 1) EXCEPT !.journal = {f}]
                ELSE [row EXCEPT !.journal = @ \cup {f}]
<1>0. Versions /\ Rest /\ RowFollowups /\ TurnFollowups
  BY DEF IInv
<1>1. /\ row \in Session /\ Sound(row, gens, events) /\ gens \in Nat /\ events \in 0 .. MaxEvents
      /\ journaled[f] = 0
      /\ \/ row.gen = 0 /\ gens' = gens + 1 /\ row' = s /\ snap' = s
         \/ row.gen # 0 /\ CommitHeader(s) /\ gens' = gens
      /\ journaled' = [journaled EXCEPT ![f] = row'.gen]
      /\ inbox' = inbox \cup {f}
      /\ UNCHANGED <<retired, holder, stop, status, draft, source, acked, delivered, events>>
  <2>1. row \in Session /\ Sound(row, gens, events) /\ gens \in Nat /\ events \in 0 .. MaxEvents
    BY <1>0, LoadedIsRow DEF Versions
  <2> QED
    BY <2>1 DEF QueueFollowup, Create, turnVars, countVars
<1>2. /\ Later /\ Sound(row', gens', events') /\ snap' \in {row', NoRow} /\ row'.gen \in Nat
      /\ row'.gen # 0 /\ row'.gen <= gens' /\ row'.ckpt \in {row.ckpt, Nobody}
      /\ Moved
      /\ \/ row'.gen = row.gen /\ row'.msgs = row.msgs /\ row'.journal = row.journal \cup {f}
         \/ row'.gen > gens /\ row'.msgs = <<>> /\ row'.journal = {f}
  <2>1. CASE row.gen = 0 /\ gens' = gens + 1 /\ row' = s /\ snap' = s
    <3>1. events \in Nat /\ gens + 1 \in Nat /\ 0 < gens + 1 /\ Later
      BY <1>1, <2>1, BoundsAssumption DEF Later
    <3>2. /\ Fresh(gens + 1) \in Session /\ Fresh(gens + 1).gen = gens + 1
          /\ Fresh(gens + 1).msgs = <<>> /\ Fresh(gens + 1).ckpt = Nobody
          /\ Sound(Fresh(gens + 1), gens + 1, events)
      BY <3>1, FreshSound
    <3>3. /\ s \in Session /\ s.gen = gens + 1 /\ s.msgs = <<>> /\ s.journal = {f}
          /\ s.ckpt = Nobody /\ s.title = Fresh(gens + 1).title /\ s.arch = Fresh(gens + 1).arch
      BY <2>1, <3>2 DEF Session
    <3> HIDE DEF s
    <3>4. Sound(s, gens + 1, events)
      BY <3>1, <3>2, <3>3 DEF Sound
    <3> QED
      BY <1>1, <2>1, <3>1, <3>3, <3>4 DEF Moved
  <2>2. CASE row.gen # 0 /\ CommitHeader(s) /\ gens' = gens
    <3>1. /\ s \in Session /\ s.gen = row.gen /\ s.rev = row.rev /\ s.msgs = row.msgs
          /\ s.journal = row.journal \cup {f} /\ s.ckpt = row.ckpt /\ s.title = row.title
          /\ s.arch = row.arch
      BY <1>1, <2>2 DEF Session
    <3> HIDE DEF s
    <3>2. row' = [s EXCEPT !.rev = @ + 1] /\ snap' \in {row', NoRow}
      BY <1>0, <2>2, <3>1, HeaderSaves
    <3>3. /\ row' \in Session /\ row'.gen = row.gen /\ row'.msgs = row.msgs
          /\ row'.journal = row.journal \cup {f} /\ row'.ckpt = row.ckpt
          /\ row'.title = row.title /\ row'.arch = row.arch
      BY <3>1, <3>2, NextRevision
    <3>4. Later /\ Sound(row', gens', events')
      BY <1>1, <2>2, <3>3 DEF Later, Sound
    <3>5. Moved
      BY <1>0, <3>3, HeaderMoved
    <3> QED
      BY <1>1, <2>2, <3>2, <3>3, <3>4, <3>5 DEF Sound, Session
  <2> QED
    BY <1>1, <2>1, <2>2
<1> HIDE DEF s
<1>3. Versions'
  BY <1>0, <1>1, <1>2, Published
<1>4. /\ journaled' \in [Followups -> Nat] /\ journaled'[f] = row'.gen
      /\ \A g \in Followups \ {f} : journaled'[g] = journaled[g]
      /\ \A g \in Followups : journaled[g] \in Nat /\ journaled[g] <= gens
  BY <1>0, <1>1, <1>2 DEF Rest
<1>5. /\ \A g \in Followups : journaled[g] # 0 => journaled'[g] # 0
      /\ \A g \in Followups : journaled'[g] <= gens'
  BY <1>1, <1>2, <1>4 DEF Later
<1>6. RowFollowups'
  <2>1. Authors(<<>>) = {}
    BY DEF Authors
  <2>2. CASE row'.gen = row.gen /\ row'.msgs = row.msgs /\ row'.journal = row.journal \cup {f}
    <3>1. f \notin Authors(row.msgs)
      BY <1>0, <1>1 DEF RowFollowups, Known
    <3> QED
      BY <1>0, <1>1, <1>2, <1>4, <2>2, <3>1 DEF RowFollowups, Known, Accounted
  <2>3. CASE row'.gen > gens /\ row'.msgs = <<>> /\ row'.journal = {f}
    BY <1>1, <1>2, <1>4, <2>1, <2>3 DEF RowFollowups, Known, Accounted
  <2> QED
    BY <1>2, <2>2, <2>3
<1>7. inbox' \subseteq Followups /\ Known(inbox)'
  BY <1>0, <1>1, <1>2, <1>4, <1>5 DEF Rest, TurnFollowups, Known
<1> QED
  BY <1>0, <1>1, <1>2, <1>3, <1>4, <1>5, <1>6, <1>7, OthersMove DEF Rest

-----------------------------------------------------------------------------
(* The theorems.                                                           *)

LEMMA InitHolds == Init => IInv
<1> SUFFICES ASSUME Init  PROVE IInv
  OBVIOUS
<1>1. gens = 0 /\ events = 0 /\ row = NoRow /\ snap = NoRow /\ source = NoRow
  BY DEF Init
<1>2. /\ NoRow.gen = 0 /\ NoRow.journal = {} /\ NoRow.msgs = <<>> /\ NoRow.ckpt = Nobody
      /\ NoDraft.run = <<>> /\ Authors(<<>>) = {}
  BY NoRowSound DEF NoRow, NoDraft, DraftOf, Authors
<1>3. Sound(NoRow, 0, 0) /\ Copy(NoDraft, 0, 0) /\ NoDraft \in Draft
  BY NoRowSound DEF Copy
<1>4. Versions
  <2>1. 0 \in Nat /\ 0 \in 0 .. MaxEvents /\ Cached
    BY <1>1, BoundsAssumption DEF Cached, NoRow
  <2> QED
    BY <1>1, <1>3, <2>1 DEF Versions
<1>5. Drafts
  BY <1>1, <1>3 DEF Init, Drafts, TurnOK, Statuses
<1>6. Rest
  <2>1. /\ holder = Nobody /\ Nobody # Compactor /\ retired = FALSE
        /\ inbox = {} /\ acked = {} /\ delivered = {}
        /\ stop = [turn |-> Nobody, ids |-> {}]
        /\ journaled = [f \in Followups |-> 0]
    BY NamesAssumption DEF Init
  <2>2. stop \in [turn : Turns \cup {Nobody}, ids : SUBSET Followups]
    BY <2>1
  <2>3. journaled \in [Followups -> Nat] /\ \A f \in Followups : journaled[f] <= gens
    BY <1>1, <2>1
  <2> QED
    BY <2>1, <2>2, <2>3 DEF Rest
<1>7. CheckpointKnown /\ RowFollowups /\ TurnFollowups
  BY <1>1, <1>2, NamesAssumption
  DEF Init, CheckpointKnown, RowFollowups, TurnFollowups, Accounted, Known
<1> QED
  BY <1>4, <1>5, <1>6, <1>7 DEF IInv

LEMMA NextKeeps == IInv /\ [Next]_vars => IInv' /\ Moved
<1> SUFFICES ASSUME IInv, [Next]_vars  PROVE IInv' /\ Moved
  OBVIOUS
<1>1. ASSUME NEW c \in Turns, Turn(c)  PROVE IInv' /\ Moved
  <2>1. CASE Open(c)
    BY <2>1, StepOpen
  <2>2. CASE Restore(c)
    BY <2>2, StepRestore
  <2>3. CASE CheckpointRefused(c) \/ Release(c)
    BY <2>3, StepQuiet
  <2>4. CASE \E f \in Followups \cup {Nobody} : Prepare(c, f)
    BY <2>4, StepPrepare
  <2>5. CASE \E f \in Followups : Inject(c, f)
    BY <2>5, StepInject
  <2>6. CASE \E cut \in BOOLEAN : Checkpoint(c, cut)
    BY <2>6, StepCheckpoint
  <2>7. CASE \E place \in Places, n \in 0 .. Cardinality(Followups) + 1 : Finish(c, place, n)
    BY <2>7, StepFinish
  <2> QED
    BY <1>1, <2>1, <2>2, <2>3, <2>4, <2>5, <2>6, <2>7 DEF Turn
<1>2. ASSUME Stopping  PROVE IInv' /\ Moved
  BY <1>2, StepQuiet, StepReopen, StepSalvage, StepStopAck DEF Stopping
<1>3. ASSUME Others  PROVE IInv' /\ Moved
  <2>1. CASE Restart
    BY <2>1, StepQuiet
  <2>2. CASE \E f \in Followups : QueueFollowup(f)
    BY <2>2, StepQueueFollowup
  <2>3. CASE \E e \in Deliveries : ForeignDelivery(e)
    BY <2>3, StepForeignDelivery
  <2>4. CASE \E e \in Deliveries, gen \in 1 .. gens : RecordDelivery(e, gen)
    BY <2>4, StepRecordDelivery
  <2>5. CASE SetTitle
    BY <2>5, StepSetTitle
  <2>6. CASE Reset \/ Delete \/ ForeignReset
    BY <2>6, StepReplace
  <2>7. CASE Evict
    BY <2>7, StepRowStays
  <2> QED
    BY <1>3, <2>1, <2>2, <2>3, <2>4, <2>5, <2>6, <2>7 DEF Others
<1>4. ASSUME Compaction  PROVE IInv' /\ Moved
  BY <1>4, StepRowStays, StepCompactCommit DEF Compaction
<1>5. ASSUME UNCHANGED vars  PROVE IInv' /\ Moved
  <2>1. UNCHANGED <<row, snap, retired, gens, holder, status, draft, source, stop, inbox,
                    journaled, acked, delivered, events>>
    BY <1>5 DEF vars, ownerVars, turnVars, inputVars, countVars
  <2> QED
    BY <2>1, RowSame DEF IInv, Versions, Cached, Drafts, Rest, CheckpointKnown, RowFollowups,
                Accounted, Known, TurnFollowups
<1> QED
  BY <1>1, <1>2, <1>3, <1>4, <1>5 DEF Next

(* The inductive invariant.                                                *)
THEOREM Invariance == Spec => []IInv
<1>1. IInv /\ [Next]_vars => IInv'
  BY NextKeeps
<1> QED
  BY <1>1, InitHolds, PTL DEF Spec

(* The variables have their types, and an archive boundary lies inside its *)
(* history.                                                                *)
THEOREM TypeCorrect == Spec => []TypeOK
<1>1. IInv => TypeOK
  <2> SUFFICES ASSUME IInv  PROVE TypeOK
    OBVIOUS
  <2>1. /\ gens \in Nat /\ events \in 0 .. MaxEvents /\ Rest
        /\ Sound(row, gens, events) /\ Sound(snap, gens, events)
        /\ Sound(source, gens, events)
    BY DEF IInv, Versions
  <2>2. ASSUME NEW s, Sound(s, gens, events)  PROVE SessionType(s)
    <3>1. s \in Session /\ Len(s.msgs) \in Nat
      BY <2>2 DEF Sound, Session
    <3>2. s.gen \in 0 .. gens /\ s.title \in 0 .. MaxEvents /\ s.arch \in 0 .. Len(s.msgs)
      <4>1. s.gen <= gens /\ s.title <= events /\ s.arch <= Len(s.msgs)
        BY <2>2 DEF Sound
      <4>2. s.gen \in Nat /\ s.title \in Nat /\ s.arch \in Nat
        BY <3>1 DEF Session
      <4> QED
        BY <2>1, <3>1, <4>1, <4>2, BoundsAssumption
    <3> QED
      BY <3>1, <3>2 DEF SessionType, Session
  <2> QED
    BY <2>1, <2>2 DEF TypeOK, Rest
<1> QED
  BY <1>1, Invariance, PTL

(* A record belongs to the generation it is stored under, whoever commits  *)
(* it and however late: _apply_turn and record_delivery compare the        *)
(* generation they worked on with the row's.                               *)
THEOREM RecordsOfOneLife == Spec => []GenerationPure
<1>1. IInv => GenerationPure
  BY DEF IInv, Versions, Sound, Pure, GenerationPure
<1> QED
  BY <1>1, Invariance, PTL

(* A snapshot of the row's generation and revision is the row: what _load  *)
(* reuses is what the table holds, also after another process wrote.       *)
THEOREM SnapshotIsRow == Spec => []CacheCoherent
<1>1. IInv => CacheCoherent
  BY DEF IInv, Versions, Cached, CacheCoherent
<1> QED
  BY <1>1, Invariance, PTL

(* A turn that was saved or stopped left no checkpoint of its own behind.  *)
THEOREM CheckpointDropped == Spec => []NoStaleCheckpoint
<1>1. IInv => NoStaleCheckpoint
  BY DEF IInv, CheckpointKnown, NoStaleCheckpoint
<1> QED
  BY <1>1, Invariance, PTL

(* A follow-up journaled in the living generation is in the journal until  *)
(* its record is committed or a stop gives it up, and never in both.       *)
THEOREM FollowupAccounted == Spec => []JournalOrRow
<1>1. IInv => JournalOrRow
  <2>1. \A f : HasRow(f) <=> f \in Authors(row.msgs)
    BY DEF HasRow, Authors
  <2> QED
    BY <2>1 DEF IInv, RowFollowups, Accounted, JournalOrRow
<1> QED
  BY <1>1, Invariance, PTL

(* A generation that ended never comes back: no late turn, delivery or     *)
(* follow-up recreates a session that was deleted or reset under it.       *)
THEOREM NoReturn == Spec => EndedStaysEnded
<1>1. IInv /\ [Next]_vars => Moved
  BY NextKeeps
<1>2. Moved => (row'.gen # row.gen => row'.gen = 0 \/ row'.gen = gens + 1)
  BY DEF Moved
<1> QED
  BY <1>1, <1>2, Invariance, PTL DEF Spec, EndedStaysEnded

(* While a generation lives every committed record stays, in the order it  *)
(* was committed in, and no title is taken back.                           *)
RecordsStay ==
  [][SameLife => Keeps(row.msgs, row'.msgs) /\ row.title <= row'.title]_vars

(* That is so whoever commits: a turn overtaken by a delivery or a new     *)
(* title, a restored checkpoint, a summary put among the records           *)
(* (_apply_turn, save, commit_summary).                                    *)
THEOREM NothingTakenBack == Spec => RecordsStay
<1>1. IInv /\ [Next]_vars => (SameLife => Keeps(row.msgs, row'.msgs) /\ row.title <= row'.title)
  <2> SUFFICES ASSUME IInv, [Next]_vars, SameLife
               PROVE  Keeps(row.msgs, row'.msgs) /\ row.title <= row'.title
    OBVIOUS
  <2>1. row.gen <= gens /\ row.gen \in Nat /\ gens \in Nat
    BY DEF IInv, Versions, Sound, Session
  <2> QED
    BY <2>1, NextKeeps DEF Moved, SameLife
<1> QED
  BY <1>1, Invariance, PTL DEF Spec, RecordsStay

=============================================================================
