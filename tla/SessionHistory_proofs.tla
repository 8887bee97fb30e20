------------------------ MODULE SessionHistory_proofs ------------------------
(***************************************************************************)
(* The committed history of a session: every record once, in its order,    *)
(* and the summary where the records end that it replaces.  SessionDraft_  *)
(* proofs has shown what may be committed at all; here it is shown that    *)
(* what a turn adds was never there before.                                *)
(***************************************************************************)
EXTENDS SessionDraft_proofs

(* Who has the session's lock, and who works on a draft of the session.    *)
Locking == {"open", "prepared", "saved", "cancelled", "salvaging"}
Working == {"open", "prepared", "salvaging"}

Exclusive == \A c \in Turns : status[c] \in Locking => holder = c

(* While someone holds the lock, the others only deliver.                  *)
Follows(s, t) ==
  /\ Len(s.msgs) <= Len(t.msgs)
  /\ \A i \in 1 .. Len(s.msgs) : t.msgs[i] = s.msgs[i]
  /\ \A i \in Len(s.msgs) + 1 .. Len(t.msgs) : t.msgs[i].what = "delivery"
  /\ t.arch = s.arch /\ t.ckpt = s.ckpt /\ t.pending = s.pending

Basis ==
  /\ \A c \in Turns :
       status[c] \in Working /\ row.gen = draft[c].base.gen => Follows(draft[c].base, row)
  /\ holder = Compactor /\ row.gen = source.gen => Follows(source, row)

Distinct(h) == \A i, j \in DOMAIN h : h[i] = h[j] => i = j

(* What has happened before a record is committed, and happens once: st    *)
(* and dr are the turns, de the deliveries, bx the inbox, ck the           *)
(* checkpoint of the row.                                                  *)
Spoken(x, st, dr, de, bx, ck) ==
  /\ x.what \in {"in", "out", "intr", "part"} => x.by \in Turns /\ st[x.by] # "idle"
  /\ x.what = "in" => st[x.by] # "open"
  /\ x.what \in {"out", "part"} => st[x.by] \notin {"open", "prepared"}
  /\ x.what = "intr" /\ st[x.by] = "open" => ~dr[x.by].pending
  /\ x.what = "part" => x.by # ck
  /\ x.what = "row" => /\ x.by \in Followups \ bx
                       /\ \A c \in Turns : st[c] = "prepared" => x.by \notin Authors(dr[c].run)
  /\ x.what = "delivery" => x.by \in de

Records ==
  /\ Distinct(row.msgs)
  /\ \A i \in DOMAIN row.msgs :
       Spoken(row.msgs[i], status, draft, delivered, inbox, row.ckpt)

(* A marker stands behind all it summarises, and the last one says how     *)
(* much of the history is archived.                                        *)
Summarised(h, a) ==
  /\ \A i \in DOMAIN h : h[i].what = "mark" => h[i].by \in Nat /\ h[i].by < i
  /\ \/ a = 0 /\ \A i \in DOMAIN h : h[i].what # "mark"
     \/ \E k \in DOMAIN h :
          /\ h[k].what = "mark" /\ h[k].by = a
          /\ \A i \in DOMAIN h : i > k => h[i].what # "mark"

Marks == Summarised(row.msgs, row.arch)

(* The follow-ups that are in a running loop, after the turn's own input.  *)
LoopOK(h, r, bx) ==
  /\ h[Len(h)].what \in {"in", "row"}
  /\ \A i \in DOMAIN r : r[i].what = "row" /\ r[i].by \in Followups \ bx
  /\ Distinct(r)

Loops ==
  \A c \in Turns :
    /\ status[c] = "open" => draft[c].run = <<>>
    /\ status[c] = "prepared" => LoopOK(draft[c].msgs, draft[c].run, inbox)

HInv == Exclusive /\ Basis /\ Records /\ Marks /\ Loops

-----------------------------------------------------------------------------
(* Histories.                                                              *)

LEMMA AppendIs ==
  ASSUME NEW h \in Seq(Message), NEW x \in Message
  PROVE  LET u == Append(h, x) IN
         /\ u \in Seq(Message) /\ Len(u) = Len(h) + 1 /\ DOMAIN u = 1 .. Len(h) + 1
         /\ \A i \in 1 .. Len(h) : u[i] = h[i]
         /\ u[Len(h) + 1] = x
BY AppendProperties

(* A history with a new record at its end.                                 *)
LEMMA DistinctAppend ==
  ASSUME NEW h \in Seq(Message), NEW x \in Message, Distinct(h), x \notin Range(h)
  PROVE  /\ Distinct(Append(h, x)) /\ Range(Append(h, x)) = Range(h) \cup {x}
         /\ Append(h, x)[Len(Append(h, x))] = x
<1> DEFINE u == Append(h, x)
<1>1. /\ u \in Seq(Message) /\ Len(u) = Len(h) + 1 /\ DOMAIN u = 1 .. Len(h) + 1
      /\ \A i \in 1 .. Len(h) : u[i] = h[i]
      /\ u[Len(h) + 1] = x
  BY AppendIs
<1> HIDE DEF u
<1>2. DOMAIN h = 1 .. Len(h) /\ Len(h) \in Nat /\ \A i \in 1 .. Len(h) : h[i] # x
  BY DEF Range
<1>3. \A i \in DOMAIN u : i = Len(h) + 1 \/ i \in 1 .. Len(h)
  BY <1>1, <1>2
<1>4. Distinct(u)
  BY <1>1, <1>2, <1>3 DEF Distinct
<1>5. Range(u) = Range(h) \cup {x}
  <2>1. Range(u) \subseteq Range(h) \cup {x}
    BY <1>1, <1>2, <1>3 DEF Range
  <2>2. Range(h) \subseteq Range(u) /\ x \in Range(u)
    BY <1>1, <1>2 DEF Range
  <2> QED
    BY <2>1, <2>2
<1> QED
  BY <1>1, <1>4, <1>5 DEF u

LEMMA MarkedAppend ==
  ASSUME NEW h \in Seq(Message), NEW x \in Message, NEW a, Summarised(h, a), x.what # "mark"
  PROVE  Summarised(Append(h, x), a)
<1> DEFINE u == Append(h, x)
<1>1. /\ DOMAIN u = 1 .. Len(h) + 1 /\ DOMAIN h = 1 .. Len(h) /\ Len(h) \in Nat
      /\ \A i \in 1 .. Len(h) : u[i] = h[i]
      /\ u[Len(h) + 1] = x
  BY AppendIs
<1> HIDE DEF u
<1>2. \A i \in DOMAIN u : i = Len(h) + 1 \/ i \in DOMAIN h
  BY <1>1
<1>3. \A i \in DOMAIN u : u[i].what = "mark" => i \in DOMAIN h /\ u[i] = h[i]
  BY <1>1, <1>2
<1>4. \A i \in DOMAIN h : i \in DOMAIN u /\ u[i] = h[i]
  BY <1>1
<1> QED
  BY <1>3, <1>4 DEF Summarised, u

LEMMA DistinctJoin ==
  ASSUME NEW g \in Seq(Message), NEW h \in Seq(Message), Distinct(g), Distinct(h),
         Range(g) \cap Range(h) = {}
  PROVE  Distinct(g \o h) /\ Range(g \o h) = Range(g) \cup Range(h)
<1> DEFINE u == g \o h
<1>1. /\ DOMAIN u = 1 .. Len(g) + Len(h) /\ Len(g) \in Nat /\ Len(h) \in Nat
      /\ DOMAIN g = 1 .. Len(g) /\ DOMAIN h = 1 .. Len(h)
      /\ \A i \in 1 .. Len(g) + Len(h) : u[i] = IF i <= Len(g) THEN g[i] ELSE h[i - Len(g)]
  BY ConcatProperties
<1> HIDE DEF u
<1>2. \A i \in DOMAIN u : \/ i \in DOMAIN g /\ u[i] = g[i]
                          \/ i > Len(g) /\ i - Len(g) \in DOMAIN h /\ u[i] = h[i - Len(g)]
  BY <1>1
<1>3. \A i \in DOMAIN g, j \in DOMAIN h : g[i] # h[j]
  BY DEF Range
<1>4. Distinct(u)
  <2> SUFFICES ASSUME NEW i \in DOMAIN u, NEW j \in DOMAIN u, u[i] = u[j]
               PROVE  i = j
    BY DEF Distinct
  <2>1. CASE i \in DOMAIN g /\ u[i] = g[i] /\ j \in DOMAIN g /\ u[j] = g[j]
    BY <2>1 DEF Distinct
  <2>2. CASE /\ i > Len(g) /\ i - Len(g) \in DOMAIN h /\ u[i] = h[i - Len(g)]
             /\ j > Len(g) /\ j - Len(g) \in DOMAIN h /\ u[j] = h[j - Len(g)]
    <3>1. i - Len(g) = j - Len(g)
      BY <2>2 DEF Distinct
    <3> QED
      BY <1>1, <3>1
  <2> QED
    BY <1>2, <1>3, <2>1, <2>2
<1>5. Range(u) = Range(g) \cup Range(h)
  BY RangeConcatenation DEF u
<1> QED
  BY <1>4, <1>5 DEF u

(* A history with a marker put behind the first a records.                 *)
LEMMA MarkInserted ==
  ASSUME NEW h \in Seq(Message), NEW a \in 0 .. Len(h), NEW x \in Message,
         x.what = "mark", x.by = a,
         \A i \in 1 .. a : h[i].what = "mark" => h[i].by \in Nat /\ h[i].by < i,
         \A i \in a + 1 .. Len(h) : h[i].what # "mark"
  PROVE  LET u == InsertAt(h, a + 1, x) IN
         /\ Summarised(u, a)
         /\ Distinct(h) /\ x \notin Range(h) => Distinct(u)
         /\ Range(u) = Range(h) \cup {x}
<1> DEFINE u == InsertAt(h, a + 1, x)
<1>1. /\ u \in Seq(Message) /\ Len(u) = Len(h) + 1
      /\ \A i \in 1 .. a : u[i] = h[i]
      /\ u[a + 1] = x
      /\ \A i \in a + 1 .. Len(h) : u[i + 1] = h[i]
  <2>1. a + 1 \in 1 .. Len(h) + 1 /\ a + 1 - 1 = a
    OBVIOUS
  <2> QED
    BY <2>1, Inserted
<1> HIDE DEF u
<1>2. /\ DOMAIN u = 1 .. Len(h) + 1 /\ DOMAIN h = 1 .. Len(h) /\ Len(h) \in Nat
      /\ a + 1 \in DOMAIN u
  BY <1>1
<1>3. \A i \in DOMAIN u : \/ i \in 1 .. a /\ i \in DOMAIN h /\ u[i] = h[i]
                          \/ i = a + 1
                          \/ i > a + 1 /\ i - 1 \in a + 1 .. Len(h) /\ u[i] = h[i - 1]
  <2> TAKE i \in DOMAIN u
  <2>1. CASE i > a + 1
    <3>1. i - 1 \in a + 1 .. Len(h) /\ i - 1 + 1 = i
      BY <1>2, <2>1
    <3>2. u[i - 1 + 1] = h[i - 1]
      BY <1>1, <3>1
    <3> QED
      BY <2>1, <3>1, <3>2
  <2>2. CASE i <= a
    BY <1>1, <1>2, <2>2
  <2> QED
    BY <1>2, <2>1, <2>2
<1>4. Summarised(u, a)
  <2>1. ASSUME NEW i \in DOMAIN u, u[i].what = "mark"
        PROVE  u[i].by \in Nat /\ u[i].by < i
    <3>1. CASE i \in 1 .. a /\ u[i] = h[i]
      BY <2>1, <3>1
    <3>2. CASE i = a + 1
      BY <1>1, <3>2
    <3>3. CASE i - 1 \in a + 1 .. Len(h) /\ u[i] = h[i - 1]
      BY <2>1, <3>3
    <3> QED
      BY <1>3, <3>1, <3>2, <3>3
  <2>2. \A i \in DOMAIN u : i > a + 1 => u[i].what # "mark"
    BY <1>3
  <2> QED
    BY <1>1, <1>2, <2>1, <2>2 DEF Summarised
<1>5. ASSUME Distinct(h), x \notin Range(h)
      PROVE  Distinct(u)
  <2> DEFINE Back(i) == IF i <= a THEN i ELSE i - 1
  <2>1. \A i \in DOMAIN u : i # a + 1 => Back(i) \in DOMAIN h /\ u[i] = h[Back(i)]
    BY <1>2, <1>3
  <2>2. \A i \in DOMAIN u : i # a + 1 => u[i] # x
    BY <1>5, <2>1 DEF Range
  <2> SUFFICES ASSUME NEW i \in DOMAIN u, NEW j \in DOMAIN u, u[i] = u[j]
               PROVE  i = j
    BY DEF Distinct
  <2>3. CASE i = a + 1 \/ j = a + 1
    BY <1>1, <2>2, <2>3
  <2>4. CASE i # a + 1 /\ j # a + 1
    <3>1. Back(i) = Back(j)
      BY <1>5, <2>1, <2>4 DEF Distinct
    <3> QED
      BY <1>2, <2>4, <3>1
  <2> QED
    BY <2>3, <2>4
<1>6. Range(u) = Range(h) \cup {x}
  <2>1. Range(u) \subseteq Range(h) \cup {x}
    BY <1>1, <1>2, <1>3 DEF Range
  <2>2. x \in Range(u)
    BY <1>1, <1>2 DEF Range
  <2>3. ASSUME NEW i \in DOMAIN h
        PROVE  h[i] \in Range(u)
    <3>1. CASE i <= a
      BY <1>1, <1>2, <3>1 DEF Range
    <3>2. CASE i > a
      <4>1. i + 1 \in DOMAIN u /\ u[i + 1] = h[i]
        BY <1>1, <1>2, <3>2
      <4> QED
        BY <4>1 DEF Range
    <3> QED
      BY <1>2, <3>1, <3>2
  <2> QED
    BY <2>1, <2>2, <2>3 DEF Range
<1> QED
  BY <1>4, <1>5, <1>6 DEF u

(* What was archived at a version is told by its history.                  *)
LEMMA SummarisedOnce ==
  ASSUME NEW h \in Seq(Message), NEW a, NEW b, Summarised(h, a), Summarised(h, b)
  PROVE  a = b
<1>1. CASE \A i \in DOMAIN h : h[i].what # "mark"
  BY <1>1 DEF Summarised
<1>2. CASE \E i \in DOMAIN h : h[i].what = "mark"
  <2>1. PICK k \in DOMAIN h : /\ h[k].what = "mark" /\ h[k].by = a
                              /\ \A i \in DOMAIN h : i > k => h[i].what # "mark"
    BY <1>2 DEF Summarised
  <2>2. PICK l \in DOMAIN h : /\ h[l].what = "mark" /\ h[l].by = b
                              /\ \A i \in DOMAIN h : i > l => h[i].what # "mark"
    BY <1>2 DEF Summarised
  <2>3. k \in Nat /\ l \in Nat /\ ~(k > l) /\ ~(l > k)
    BY <2>1, <2>2
  <2> QED
    BY <2>1, <2>2, <2>3
<1> QED
  BY <1>1, <1>2

LEMMA FollowsSelf ==
  ASSUME NEW s, s.msgs \in Seq(Message)
  PROVE  Follows(s, s)
BY DEF Follows

LEMMA FollowsOn ==
  ASSUME NEW s, NEW t, NEW u, s.msgs \in Seq(Message), t.msgs \in Seq(Message),
         u.msgs \in Seq(Message), Follows(s, t), Follows(t, u)
  PROVE  Follows(s, u)
<1>1. \A i \in 1 .. Len(s.msgs) : i \in 1 .. Len(t.msgs)
  BY DEF Follows
<1>2. \A i \in Len(s.msgs) + 1 .. Len(u.msgs) :
         i \in Len(s.msgs) + 1 .. Len(t.msgs) \/ i \in Len(t.msgs) + 1 .. Len(u.msgs)
  OBVIOUS
<1>3. \A i \in Len(s.msgs) + 1 .. Len(t.msgs) : i \in 1 .. Len(t.msgs)
  OBVIOUS
<1>4. \A i \in 1 .. Len(s.msgs) : u.msgs[i] = s.msgs[i]
  BY <1>1 DEF Follows
<1>5. \A i \in Len(s.msgs) + 1 .. Len(u.msgs) : u.msgs[i].what = "delivery"
  BY <1>2, <1>3 DEF Follows
<1>6. Len(s.msgs) <= Len(u.msgs)
  BY DEF Follows
<1> QED
  BY <1>4, <1>5, <1>6 DEF Follows

(* What holds of a history holds of the one it followed.                   *)
LEMMA FollowsBack ==
  ASSUME NEW s \in Session, NEW t \in Session, Follows(s, t), Distinct(t.msgs),
         Summarised(t.msgs, t.arch)
  PROVE  /\ Distinct(s.msgs) /\ Summarised(s.msgs, s.arch)
         /\ Range(s.msgs) \subseteq Range(t.msgs)
         /\ \A x \in Range(t.msgs) : x \in Range(s.msgs) \/ x.what = "delivery"
<1> DEFINE b == s.msgs
           r == t.msgs
<1>1. /\ DOMAIN b = 1 .. Len(b) /\ DOMAIN r = 1 .. Len(r) /\ Len(b) \in Nat /\ Len(r) \in Nat
      /\ Len(b) <= Len(r) /\ \A i \in 1 .. Len(b) : r[i] = b[i]
      /\ \A i \in Len(b) + 1 .. Len(r) : r[i].what = "delivery"
      /\ t.arch = s.arch
  BY DEF Follows, Session
<1>2. Distinct(r) /\ Summarised(r, s.arch)
  BY <1>1
<1> HIDE DEF b, r
<1>3. \A i \in DOMAIN b : i \in DOMAIN r /\ r[i] = b[i]
  BY <1>1
<1>4. \A i \in DOMAIN r : i \in DOMAIN b \/ r[i].what = "delivery"
  BY <1>1
<1>5. Distinct(b)
  BY <1>2, <1>3 DEF Distinct
<1>6. Summarised(b, s.arch)
  BY <1>2, <1>3, <1>4 DEF Summarised
<1>7. Range(b) \subseteq Range(r) /\ \A x \in Range(r) : x \in Range(b) \/ x.what = "delivery"
  BY <1>3, <1>4 DEF Range
<1> QED
  BY <1>5, <1>6, <1>7 DEF b, r

-----------------------------------------------------------------------------
(* The merge of what was never in the row.                                 *)

Adds(p) ==
  /\ Distinct(p.msgs) /\ Summarised(p.msgs, p.arch)
  /\ Range(p.msgs) \cap Range(row.msgs) \subseteq Range(p.base.msgs)

(* Both histories begin with b; what r has beyond it was delivered.        *)
LEMMA JoinedSummarised ==
  ASSUME NEW b \in Seq(Message), NEW q \in Seq(Message), NEW r \in Seq(Message),
         NEW u \in Seq(Message), NEW a,
         Len(b) <= Len(q), \A i \in 1 .. Len(b) : q[i] = b[i],
         Len(b) <= Len(r), \A i \in 1 .. Len(b) : r[i] = b[i],
         \A i \in Len(b) + 1 .. Len(r) : r[i].what = "delivery",
         IsExtension(u, r, q, Len(b)), Summarised(q, a)
  PROVE  Summarised(u, a)
<1>1. /\ DOMAIN b = 1 .. Len(b) /\ DOMAIN q = 1 .. Len(q) /\ DOMAIN r = 1 .. Len(r)
      /\ DOMAIN u = 1 .. Len(u) /\ Len(u) = Len(r) + Len(q) - Len(b)
      /\ Len(b) \in Nat /\ Len(q) \in Nat /\ Len(r) \in Nat
  BY DEF IsExtension
<1>2. /\ \A i \in 1 .. Len(r) : u[i] = r[i]
      /\ \A i \in Len(b) + 1 .. Len(q) : u[Len(r) + i - Len(b)] = q[i]
      /\ \A i \in Len(r) + 1 .. Len(u) : u[i] = q[i - Len(r) + Len(b)]
  BY DEF IsExtension
<1>3. \A i \in DOMAIN u :
         \/ i <= Len(b) /\ i \in DOMAIN q /\ u[i] = q[i]
         \/ u[i].what # "mark"
         \/ /\ i > Len(r) /\ i - Len(r) + Len(b) \in DOMAIN q /\ i - Len(r) + Len(b) <= i
            /\ i - Len(r) + Len(b) > Len(b) /\ u[i] = q[i - Len(r) + Len(b)]
  <2> TAKE i \in DOMAIN u
  <2>1. CASE i <= Len(b)
    <3>1. i \in DOMAIN q /\ i \in 1 .. Len(b) /\ i \in 1 .. Len(r)
      BY <1>1, <2>1
    <3> QED
      BY <1>2, <2>1, <3>1
  <2>2. CASE i > Len(b) /\ i <= Len(r)
    <3>1. i \in Len(b) + 1 .. Len(r) /\ i \in 1 .. Len(r)
      BY <1>1, <2>2
    <3>2. u[i].what = "delivery"
      BY <1>2, <3>1
    <3> QED
      BY <3>2
  <2>3. CASE i > Len(r)
    <3>1. i \in Len(r) + 1 .. Len(u)
      BY <1>1, <2>3
    <3>2. u[i] = q[i - Len(r) + Len(b)]
      BY <1>2, <3>1
    <3>3. /\ i - Len(r) + Len(b) \in DOMAIN q /\ i - Len(r) + Len(b) <= i
          /\ i - Len(r) + Len(b) > Len(b)
      BY <1>1, <2>3, <3>1
    <3> QED
      BY <2>3, <3>2, <3>3
  <2> QED
    BY <1>1, <2>1, <2>2, <2>3
<1>4. \A i \in DOMAIN q : q[i].what = "mark" => q[i].by \in Nat /\ q[i].by < i
  BY DEF Summarised
<1>5. \A i \in DOMAIN u : u[i].what = "mark" => u[i].by \in Nat /\ u[i].by < i
  <2> SUFFICES ASSUME NEW i \in DOMAIN u, u[i].what = "mark"
               PROVE  u[i].by \in Nat /\ u[i].by < i
    OBVIOUS
  <2>1. CASE i \in DOMAIN q /\ u[i] = q[i]
    BY <1>4, <2>1
  <2>2. CASE /\ i - Len(r) + Len(b) \in DOMAIN q /\ i - Len(r) + Len(b) <= i
             /\ u[i] = q[i - Len(r) + Len(b)]
    <3>1. u[i].by \in Nat /\ u[i].by < i - Len(r) + Len(b)
      BY <1>4, <2>2
    <3> QED
      BY <1>1, <2>2, <3>1
  <2> QED
    BY <1>3, <2>1, <2>2
<1>6. CASE a = 0 /\ \A i \in DOMAIN q : q[i].what # "mark"
  <2>1. \A i \in DOMAIN u : u[i].what # "mark"
    BY <1>3, <1>6
  <2> QED
    BY <1>5, <1>6, <2>1 DEF Summarised
<1>7. ASSUME NEW k \in DOMAIN q, q[k].what = "mark", q[k].by = a,
             \A i \in DOMAIN q : i > k => q[i].what # "mark"
      PROVE  Summarised(u, a)
  <2> DEFINE l == IF k <= Len(b) THEN k ELSE Len(r) + k - Len(b)
  <2>1. l \in DOMAIN u /\ u[l] = q[k]
    <3>1. CASE k <= Len(b)
      <4>1. k \in 1 .. Len(b) /\ k \in 1 .. Len(r) /\ k \in DOMAIN u
        BY <1>1, <3>1
      <4> QED
        BY <1>2, <3>1, <4>1
    <3>2. CASE k > Len(b)
      BY <1>1, <1>2, <3>2
    <3> QED
      BY <1>1, <3>1, <3>2
  <2>2. ASSUME NEW i \in DOMAIN u, i > l  PROVE u[i].what # "mark"
    <3>1. CASE i <= Len(b) /\ i \in DOMAIN q /\ u[i] = q[i]
      <4>1. i > k
        BY <1>1, <2>2, <3>1
      <4> QED
        BY <1>7, <3>1, <4>1
    <3>2. CASE /\ i > Len(r) /\ i - Len(r) + Len(b) \in DOMAIN q
               /\ i - Len(r) + Len(b) > Len(b) /\ u[i] = q[i - Len(r) + Len(b)]
      <4>1. i - Len(r) + Len(b) > k
        BY <1>1, <2>2, <3>2
      <4> QED
        BY <1>7, <3>2, <4>1
    <3> QED
      BY <1>3, <3>1, <3>2
  <2> HIDE DEF l
  <2> QED
    BY <1>5, <1>7, <2>1, <2>2 DEF Summarised
<1> QED
  BY <1>6, <1>7 DEF Summarised

(* What _apply_turn commits of such a proposal.                            *)
LEMMA MergeAdds ==
  ASSUME Versions, NEW p, Proposal(p), Mergeable(p), Follows(p.base, row),
         Distinct(row.msgs), Marks, Adds(p)
  PROVE  LET m == Merged(p) IN
         /\ Distinct(m.msgs) /\ Summarised(m.msgs, m.arch)
         /\ Range(m.msgs) \subseteq Range(row.msgs) \cup Range(p.msgs)
         /\ Len(p.base.msgs) < Len(p.msgs) => m.msgs[Len(m.msgs)] = p.msgs[Len(p.msgs)]
         /\ m.ckpt = p.ckpt /\ m.pending = p.pending
<1> DEFINE m == Merged(p)
<1>1. row \in Session /\ Current(p) = row
  BY LoadedIsRow DEF Mergeable, Current
<1>2. p \in Draft /\ p.base \in Session /\ Len(p.base.msgs) <= Len(p.msgs)
      /\ (p.msgs = p.base.msgs => p.arch = p.base.arch)
  BY DEF Proposal, Sound
<1> DEFINE b == p.base.msgs
           q == p.msgs
           r == row.msgs
           u == MergedMessages(p)
<1>3. b \in Seq(Message) /\ q \in Seq(Message) /\ r \in Seq(Message)
  BY <1>1, <1>2 DEF Session, Draft
<1>4. row.arch = p.base.arch /\ row.ckpt = p.base.ckpt /\ row.pending = p.base.pending
  BY DEF Follows
<1>5. m.msgs = u /\ m.arch = p.arch /\ m.ckpt = p.ckpt /\ m.pending = p.pending
  <2>1. /\ Merge(p.base.arch, p.arch, row.arch) = p.arch
        /\ Merge(p.base.ckpt, p.ckpt, row.ckpt) = p.ckpt
        /\ Merge(p.base.pending, p.pending, row.pending) = p.pending
    BY <1>4 DEF Merge
  <2> QED
    BY <1>1, <2>1 DEF Merged, Session
<1>6. \/ q = b /\ u = r
      \/ q # b /\ r = b /\ u = q
      \/ q # b /\ IsPrefix(b, q) /\ IsPrefix(b, r) /\ u = r \o SubSeq(q, Len(b) + 1, Len(q))
  BY <1>1 DEF Mergeable, HistoryAgrees, BothExtend, MergedMessages
<1>7. /\ Distinct(q) /\ Summarised(q, p.arch) /\ Distinct(r) /\ Summarised(r, p.base.arch)
      /\ Range(q) \cap Range(r) \subseteq Range(b)
      /\ Len(b) <= Len(q) /\ (q = b => p.arch = p.base.arch)
  BY <1>2, <1>4 DEF Adds, Marks
<1>8. Len(b) <= Len(r) /\ \A i \in Len(b) + 1 .. Len(r) : r[i].what = "delivery"
  BY DEF Follows
<1> HIDE DEF m, b, q, r, u
<1>9. /\ Distinct(u) /\ Summarised(u, p.arch) /\ Range(u) \subseteq Range(r) \cup Range(q)
      /\ Len(b) < Len(q) => u[Len(u)] = q[Len(q)]
  <2>1. CASE q = b /\ u = r
    BY <1>3, <1>7, <2>1
  <2>2. CASE u = q
    BY <1>7, <2>2
  <2>3. CASE IsPrefix(b, q) /\ IsPrefix(b, r) /\ u = r \o SubSeq(q, Len(b) + 1, Len(q))
    <3> DEFINE v == SubSeq(q, Len(b) + 1, Len(q))
    <3>1. /\ Len(b) \in Nat /\ Len(q) \in Nat /\ Len(r) \in Nat /\ Len(b) \in 0 .. Len(q)
          /\ DOMAIN q = 1 .. Len(q) /\ DOMAIN b = 1 .. Len(b)
      BY <1>3, <1>7
    <3>2. (\A i \in 1 .. Len(b) : q[i] = b[i]) /\ \A i \in 1 .. Len(b) : r[i] = b[i]
      BY <1>3, <2>3, PrefixSame
    <3>3. u \in Seq(Message) /\ IsExtension(u, r, q, Len(b))
      BY <1>3, <2>3, <3>1, Extended
    <3>4. /\ v \in Seq(Message) /\ Len(v) = Len(q) - Len(b)
          /\ \A i \in 1 .. Len(q) - Len(b) : v[i] = q[Len(b) + i]
      <4>1. Len(b) + 1 \in 1 .. Len(q) + 1 /\ Len(q) \in Len(b) + 1 - 1 .. Len(q)
        BY <3>1
      <4>2. /\ v \in Seq(Message) /\ Len(v) = Len(q) - (Len(b) + 1) + 1
            /\ \A i \in 1 .. Len(q) - (Len(b) + 1) + 1 : v[i] = q[Len(b) + 1 + i - 1]
        BY <1>3, <4>1, Stretch
      <4> HIDE DEF v
      <4>3. Len(q) - (Len(b) + 1) + 1 = Len(q) - Len(b)
        BY <3>1
      <4>4. \A i \in 1 .. Len(q) - Len(b) : Len(b) + 1 + i - 1 = Len(b) + i
        BY <3>1
      <4> QED
        BY <4>2, <4>3, <4>4
    <3> HIDE DEF v
    <3>5. DOMAIN v = 1 .. Len(q) - Len(b) /\ \A i \in DOMAIN v : Len(b) + i \in DOMAIN q
      BY <3>1, <3>4
    <3>6. Distinct(v)
      <4> SUFFICES ASSUME NEW i \in DOMAIN v, NEW j \in DOMAIN v, v[i] = v[j]
                   PROVE  i = j
        BY DEF Distinct
      <4>1. Len(b) + i = Len(b) + j
        BY <1>7, <3>4, <3>5 DEF Distinct
      <4> QED
        BY <3>1, <3>5, <4>1
    <3>7. Range(v) \cap Range(r) = {}
      <4> SUFFICES ASSUME NEW i \in DOMAIN v, v[i] \in Range(r)
                   PROVE  FALSE
        BY DEF Range
      <4>1. v[i] = q[Len(b) + i] /\ Len(b) + i \in DOMAIN q
        BY <3>4, <3>5
      <4>2. v[i] \in Range(b)
        BY <1>7, <4>1 DEF Range
      <4>3. PICK j \in DOMAIN b : b[j] = v[i]
        BY <4>2 DEF Range
      <4>4. j \in DOMAIN q /\ q[j] = q[Len(b) + i] /\ j <= Len(b)
        BY <3>1, <3>2, <4>1, <4>3
      <4>5. j = Len(b) + i
        BY <1>7, <4>1, <4>4 DEF Distinct
      <4> QED
        BY <3>1, <3>5, <4>4, <4>5
    <3>8. Distinct(u) /\ Range(u) = Range(r) \cup Range(v)
      BY <1>3, <1>7, <2>3, <3>4, <3>6, <3>7, DistinctJoin DEF v
    <3>9. Range(v) \subseteq Range(q)
      BY <3>4, <3>5 DEF Range
    <3>10. Summarised(u, p.arch)
      BY <1>3, <1>7, <1>8, <3>2, <3>3, JoinedSummarised
    <3>11. ASSUME Len(b) < Len(q)  PROVE u[Len(u)] = q[Len(q)]
      <4>1. Len(q) \in Len(b) + 1 .. Len(q)
        BY <3>1, <3>11
      <4>2. Len(u) = Len(r) + Len(q) - Len(b) /\ u[Len(r) + Len(q) - Len(b)] = q[Len(q)]
        BY <3>3, <4>1 DEF IsExtension
      <4> QED
        BY <4>2
    <3> QED
      BY <3>8, <3>9, <3>10, <3>11
  <2> QED
    BY <1>6, <2>1, <2>2, <2>3
<1> QED
  BY <1>5, <1>9 DEF m, b, q, r, u

-----------------------------------------------------------------------------
(* What a step may do to the turns, and what it may not take back.         *)

(* No turn becomes again what it was before it spoke; the inbox grows by   *)
(* what has no record yet, and a loop takes from the inbox.                *)
Onward ==
  /\ delivered \subseteq delivered'
  /\ \A f \in inbox' : f \in inbox \/ f \notin Authors(row.msgs)
  /\ row'.ckpt # row.ckpt =>
       row'.ckpt = Nobody \/ (row'.ckpt \in Turns /\ status[row'.ckpt] = "prepared")
  /\ \A c \in Turns :
       /\ status[c] # "idle" => status'[c] # "idle"
       /\ status'[c] = "open" =>
            \/ status[c] = "idle"
            \/ status[c] = "open" /\ (draft'[c].pending => draft[c].pending)
       /\ status'[c] = "prepared" =>
            /\ status[c] \in {"open", "prepared"}
            /\ \A f \in Authors(draft'[c].run) :
                 \/ f \in inbox
                 \/ status[c] = "prepared" /\ f \in Authors(draft[c].run)

LEMMA SpokenStays ==
  ASSUME Onward, NEW x, Spoken(x, status, draft, delivered, inbox, row.ckpt),
         x.what = "row" => x.by \in Authors(row.msgs)
  PROVE  Spoken(x, status', draft', delivered', inbox', row'.ckpt)
<1>1. /\ x.what \in {"in", "out", "intr", "part"} => x.by \in Turns /\ status[x.by] # "idle"
      /\ x.what = "in" => status[x.by] # "open"
      /\ x.what \in {"out", "part"} => status[x.by] \notin {"open", "prepared"}
      /\ x.what = "intr" /\ status[x.by] = "open" => ~draft[x.by].pending
      /\ x.what = "part" => x.by # row.ckpt
      /\ x.what = "row" =>
           /\ x.by \in Followups \ inbox
           /\ \A c \in Turns : status[c] = "prepared" => x.by \notin Authors(draft[c].run)
      /\ x.what = "delivery" => x.by \in delivered
  BY DEF Spoken
<1>2. x.what \in {"in", "out", "intr", "part"} => x.by \in Turns /\ status'[x.by] # "idle"
  BY <1>1 DEF Onward
<1>3. x.what = "in" => status'[x.by] # "open"
  BY <1>1 DEF Onward
<1>4. x.what \in {"out", "part"} => status'[x.by] \notin {"open", "prepared"}
  BY <1>1 DEF Onward
<1>5. x.what = "intr" /\ status'[x.by] = "open" => ~draft'[x.by].pending
  BY <1>1 DEF Onward
<1>6. x.what = "part" => x.by # row'.ckpt
  BY <1>1, NamesAssumption DEF Onward
<1>7. x.what = "row" =>
           /\ x.by \in Followups \ inbox'
           /\ \A c \in Turns : status'[c] = "prepared" => x.by \notin Authors(draft'[c].run)
  BY <1>1 DEF Onward
<1>8. x.what = "delivery" => x.by \in delivered'
  BY <1>1 DEF Onward
<1> QED
  BY <1>2, <1>3, <1>4, <1>5, <1>6, <1>7, <1>8 DEF Spoken

(* A new history whose records were there or have just been spoken.        *)
LEMMA RecordsOn ==
  ASSUME Onward, Records,
         row'.msgs \in Seq(Message), Distinct(row'.msgs), Summarised(row'.msgs, row'.arch),
         \A x \in Range(row'.msgs) :
           x \in Range(row.msgs) \/ Spoken(x, status', draft', delivered', inbox', row'.ckpt)
  PROVE  Records' /\ Marks'
<1>1. ASSUME NEW i \in DOMAIN row'.msgs
      PROVE  Spoken(row'.msgs[i], status', draft', delivered', inbox', row'.ckpt)
  <2>1. CASE row'.msgs[i] \in Range(row.msgs)
    <3>1. PICK j \in DOMAIN row.msgs : row.msgs[j] = row'.msgs[i]
      BY <2>1 DEF Range
    <3>2. row.msgs[j].by \in Authors(row.msgs)
      BY DEF Authors
    <3> QED
      BY <3>1, <3>2, SpokenStays DEF Records
  <2> QED
    BY <2>1 DEF Range
<1> QED
  BY <1>1 DEF Records, Marks

LEMMA RecordsSame ==
  ASSUME IInv, Onward, Records, Marks, row'.msgs = row.msgs, row'.arch = row.arch
  PROVE  Records' /\ Marks'
<1>1. row.msgs \in Seq(Message)
  BY DEF IInv, Versions, Sound, Session
<1> QED
  BY <1>1, RecordsOn DEF Records, Marks

LEMMA RecordsNone ==
  ASSUME row'.msgs = <<>>, row'.arch = 0
  PROVE  Records' /\ Marks'
<1>1. DOMAIN row'.msgs = {}
  OBVIOUS
<1> QED
  BY <1>1 DEF Records, Marks, Distinct, Summarised

(* Another life is none a turn or a compaction works on.                   *)
Ended == row'.gen = 0 \/ row'.gen > gens

(* Drafts and lock stay, the row is followed or replaced.                  *)
LEMMA BasisOn ==
  ASSUME IInv, Basis,
         \A c \in Turns : status'[c] \in Working =>
           status[c] \in Working /\ draft'[c].base = draft[c].base,
         holder' = Compactor => \/ holder = Compactor /\ source' = source
                                \/ source' = row /\ row' = row,
         row'.msgs \in Seq(Message),
         \/ row'.gen = row.gen /\ Follows(row, row')
         \/ Ended
  PROVE  Basis'
<1>1. gens \in Nat /\ row.msgs \in Seq(Message) /\ source.msgs \in Seq(Message)
      /\ source.gen \in Nat /\ source.gen <= gens /\ (holder = Compactor => source.gen # 0)
  BY DEF IInv, Versions, Sound, Session, Rest
<1>2. ASSUME NEW c \in Turns, status'[c] \in Working, row'.gen = draft'[c].base.gen
      PROVE  Follows(draft'[c].base, row')
  <2>1. status[c] \in Working /\ draft'[c].base = draft[c].base
    BY <1>2
  <2>2. /\ draft[c].base.gen \in Nat /\ draft[c].base.gen <= gens /\ draft[c].base.gen # 0
        /\ draft[c].base.msgs \in Seq(Message)
    BY <2>1 DEF Working, IInv, Drafts, TurnOK, Copy, Sound, Session
  <2>3. ~Ended
    BY <1>1, <1>2, <2>1, <2>2 DEF Ended
  <2>4. Follows(draft[c].base, row) /\ Follows(row, row')
    BY <1>2, <2>1, <2>3 DEF Basis
  <2> QED
    BY <1>1, <2>1, <2>2, <2>4, FollowsOn
<1>3. ASSUME holder' = Compactor, row'.gen = source'.gen
      PROVE  Follows(source', row')
  <2>1. CASE holder = Compactor /\ source' = source
    <3>1. ~Ended
      BY <1>1, <1>3, <2>1 DEF Ended
    <3>2. Follows(source, row) /\ Follows(row, row')
      BY <1>3, <2>1, <3>1 DEF Basis
    <3> QED
      BY <1>1, <2>1, <3>2, FollowsOn
  <2>2. CASE source' = row /\ row' = row
    BY <1>1, <2>2, FollowsSelf
  <2> QED
    BY <1>3, <2>1, <2>2
<1> QED
  BY <1>2, <1>3 DEF Basis

(* At most turn c works on a draft, and nobody compacts.                   *)
LEMMA BasisOf ==
  ASSUME NEW c \in Turns,
         \A t \in Turns \ {c} : status'[t] \notin Working, holder' # Compactor,
         status'[c] \in Working /\ row'.gen = draft'[c].base.gen => Follows(draft'[c].base, row')
  PROVE  Basis'
BY DEF Basis

(* The holder of the lock is the only one to be under way.                 *)
LEMMA Alone ==
  ASSUME Exclusive, NEW c \in Turns, status[c] \in Locking
  PROVE  holder = c /\ holder # Compactor /\ \A t \in Turns \ {c} : status[t] \notin Locking
BY NamesAssumption DEF Exclusive

-----------------------------------------------------------------------------
(* One lemma per action: the others.                                       *)

LEMMA LoopsOn ==
  ASSUME Loops,
         \A c \in Turns : status'[c] \in {"open", "prepared"} =>
           status'[c] = status[c] /\ draft'[c] = draft[c],
         \A f \in inbox', c \in Turns :
           f \in inbox \/ status'[c] # "prepared" \/ f \notin Authors(draft[c].run)
  PROVE  Loops'
<1>1. ASSUME NEW c \in Turns, status'[c] = "open"
      PROVE  draft'[c].run = <<>>
  BY <1>1 DEF Loops
<1>2. ASSUME NEW c \in Turns, status'[c] = "prepared"
      PROVE  LoopOK(draft'[c].msgs, draft'[c].run, inbox')
  <2>1. status[c] = "prepared" /\ draft'[c] = draft[c]
    BY <1>2
  <2>2. LoopOK(draft[c].msgs, draft[c].run, inbox)
    BY <2>1 DEF Loops
  <2>3. \A i \in DOMAIN draft[c].run : draft[c].run[i].by \in Authors(draft[c].run)
    BY DEF Authors
  <2>4. \A i \in DOMAIN draft[c].run : draft[c].run[i].by \notin inbox'
    BY <1>2, <2>2, <2>3 DEF LoopOK
  <2> QED
    BY <2>1, <2>2, <2>4 DEF LoopOK
<1> QED
  BY <1>1, <1>2 DEF Loops

(* The row gets one delivery more, or another header, or another life; the *)
(* turns stay as they are.                                                 *)
LEMMA OthersOn ==
  ASSUME IInv, HInv, UNCHANGED <<draft, status, holder, source>>,
         delivered \subseteq delivered', row'.ckpt \in {row.ckpt, Nobody},
         \A f \in inbox' : f \in inbox \/ (f \in Followups /\ journaled[f] = 0),
         \/ /\ row'.gen = row.gen /\ row'.arch = row.arch
            /\ row'.ckpt = row.ckpt /\ row'.pending = row.pending
            /\ \/ row'.msgs = row.msgs
               \/ \E x \in Message : /\ x.what = "delivery" /\ x.by \in delivered' \ delivered
                                     /\ row'.msgs = Append(row.msgs, x)
         \/ Ended /\ row'.msgs = <<>> /\ row'.arch = 0
  PROVE  HInv'
<1>1. Exclusive /\ Basis /\ Records /\ Marks /\ Loops /\ row.msgs \in Seq(Message)
  BY DEF HInv, IInv, Versions, Sound, Session
<1>2. \A f \in Followups : journaled[f] = 0 =>
        f \notin Authors(row.msgs) /\ \A c \in Turns : f \notin Authors(draft[c].run)
  BY DEF IInv, RowFollowups, TurnFollowups, Known
<1>3. Onward
  <2>1. \A f \in inbox' : f \in inbox \/ f \notin Authors(row.msgs)
    BY <1>2
  <2>2. \A c \in Turns : status'[c] = "prepared" =>
          status[c] = "prepared" /\ draft'[c] = draft[c]
    OBVIOUS
  <2> QED
    BY <2>1, <2>2 DEF Onward
<1>4. Exclusive'
  BY <1>1 DEF Exclusive
<1>5. Loops'
  BY <1>1, <1>2, LoopsOn
<1>6. CASE /\ row'.gen = row.gen /\ row'.arch = row.arch
           /\ row'.ckpt = row.ckpt /\ row'.pending = row.pending
           /\ row'.msgs = row.msgs
  <2>1. Follows(row, row')
    BY <1>1, <1>6 DEF Follows
  <2>2. Basis'
    BY <1>1, <1>6, <2>1, BasisOn
  <2> QED
    BY <1>1, <1>3, <1>4, <1>5, <1>6, <2>2, RecordsSame DEF HInv
<1>7. ASSUME row'.gen = row.gen, row'.arch = row.arch,
             row'.ckpt = row.ckpt, row'.pending = row.pending,
             NEW x \in Message, x.what = "delivery", x.by \in delivered' \ delivered,
             row'.msgs = Append(row.msgs, x)
      PROVE  HInv'
  <2>1. x \notin Range(row.msgs)
    <3>1. \A i \in DOMAIN row.msgs : row.msgs[i].what = "delivery" => row.msgs[i].by \in delivered
      BY <1>1 DEF Records, Spoken
    <3> QED
      BY <1>7, <3>1 DEF Range
  <2>2. /\ row'.msgs \in Seq(Message) /\ Len(row'.msgs) = Len(row.msgs) + 1
        /\ \A i \in 1 .. Len(row.msgs) : row'.msgs[i] = row.msgs[i]
        /\ row'.msgs[Len(row.msgs) + 1] = x
    BY <1>1, <1>7, AppendIs
  <2>3. Distinct(row'.msgs) /\ Range(row'.msgs) = Range(row.msgs) \cup {x}
    BY <1>1, <1>7, <2>1, DistinctAppend DEF Records
  <2>4. Summarised(row'.msgs, row'.arch)
    BY <1>1, <1>7, MarkedAppend DEF Marks
  <2>5. Spoken(x, status', draft', delivered', inbox', row'.ckpt)
    BY <1>7 DEF Spoken
  <2>6. Records' /\ Marks'
    BY <1>1, <1>3, <2>2, <2>3, <2>4, <2>5, RecordsOn
  <2>7. Follows(row, row')
    <3>1. Len(row.msgs) \in Nat
      BY <1>1
    <3>2. \A i \in Len(row.msgs) + 1 .. Len(row'.msgs) : row'.msgs[i].what = "delivery"
      BY <1>7, <2>2, <3>1
    <3> QED
      BY <1>7, <2>2, <3>1, <3>2 DEF Follows
  <2>8. Basis'
    BY <1>1, <1>7, <2>2, <2>7, BasisOn
  <2> QED
    BY <1>4, <1>5, <2>6, <2>8 DEF HInv
<1>8. CASE Ended /\ row'.msgs = <<>> /\ row'.arch = 0
  <2>1. Basis'
    <3>1. row'.msgs \in Seq(Message)
      BY <1>8
    <3> QED
      BY <1>1, <1>8, <3>1, BasisOn
  <2> QED
    BY <1>4, <1>5, <1>8, <2>1, RecordsNone DEF HInv
<1> QED
  BY <1>6, <1>7, <1>8

(* The row stays; some turns leave, or a compaction begins.                *)
LEMMA TurnsLeave ==
  ASSUME IInv, HInv, UNCHANGED <<row, delivered>>, Exclusive',
         \A c \in Turns : \/ status'[c] = status[c] /\ draft'[c] = draft[c]
                          \/ status'[c] \notin Working \cup {"idle"},
         holder' = Compactor => \/ holder = Compactor /\ source' = source
                                \/ source' = row,
         \/ inbox' \subseteq inbox
         \/ inbox' = row.journal /\ \A c \in Turns : status'[c] \notin Working
  PROVE  HInv'
<1>1. Exclusive /\ Basis /\ Records /\ Marks /\ Loops /\ row.msgs \in Seq(Message)
  BY DEF HInv, IInv, Versions, Sound, Session
<1>2. \A f \in row.journal : f \notin Authors(row.msgs)
  BY DEF IInv, RowFollowups, Accounted, Versions, Sound, Session
<1>3. \A c \in Turns : status'[c] \in Working => status'[c] = status[c] /\ draft'[c] = draft[c]
  OBVIOUS
<1>4. Onward
  <2>1. \A f \in inbox' : f \in inbox \/ f \notin Authors(row.msgs)
    BY <1>2
  <2> QED
    BY <1>3, <2>1 DEF Onward, Working
<1>5. Basis'
  <2>1. Follows(row, row')
    BY <1>1, FollowsSelf
  <2> QED
    BY <1>1, <1>3, <2>1, BasisOn
<1>6. Loops'
  <2>1. \A f \in inbox', c \in Turns : f \in inbox \/ status'[c] # "prepared"
    BY DEF Working
  <2> QED
    BY <1>1, <1>3, <2>1, LoopsOn DEF Working
<1> QED
  BY <1>1, <1>4, <1>5, <1>6, RecordsSame DEF HInv

LEMMA HeaderHistory ==
  ASSUME IInv, HInv, SetTitle \/ StopAck
  PROVE  HInv'
<1>1. Versions /\ row \in Session
  BY DEF IInv, Versions, Sound
<1>2. CASE SetTitle
  <2> DEFINE s == [row EXCEPT !.title = @ + 1]
  <2>1. s \in Session /\ s.gen = row.gen /\ s.rev = row.rev /\ s.msgs = row.msgs
        /\ s.arch = row.arch /\ s.ckpt = row.ckpt /\ s.pending = row.pending
    BY <1>1 DEF Session
  <2>2. CommitHeader(s)
    BY <1>2 DEF SetTitle
  <2> HIDE DEF s
  <2>3. row' = [s EXCEPT !.rev = @ + 1]
    BY <1>1, <2>1, <2>2, HeaderSaves
  <2>4. row'.gen = row.gen /\ row'.msgs = row.msgs
        /\ row'.arch = row.arch /\ row'.ckpt = row.ckpt /\ row'.pending = row.pending
    BY <2>1, <2>3 DEF Session
  <2>5. UNCHANGED <<draft, status, holder, source, inbox, delivered>>
    BY <1>2 DEF SetTitle, turnVars, inputVars
  <2> QED
    BY <2>4, <2>5, OthersOn
<1>3. CASE StopAck
  <2> DEFINE s == [row EXCEPT !.journal = @ \ stop.ids]
  <2>1. s \in Session /\ s.gen = row.gen /\ s.rev = row.rev /\ s.msgs = row.msgs
        /\ s.arch = row.arch /\ s.ckpt = row.ckpt /\ s.pending = row.pending
    BY <1>1 DEF Session
  <2>2. CommitHeader(s) \/ row' = row
    BY <1>3 DEF StopAck
  <2> HIDE DEF s
  <2>3. row' = [s EXCEPT !.rev = @ + 1] \/ row' = row
    BY <1>1, <2>1, <2>2, HeaderSaves
  <2>4. row'.gen = row.gen /\ row'.msgs = row.msgs
        /\ row'.arch = row.arch /\ row'.ckpt = row.ckpt /\ row'.pending = row.pending
    BY <2>1, <2>3 DEF Session
  <2>5. UNCHANGED <<draft, status, holder, source, delivered>> /\ inbox' \subseteq inbox
    BY <1>3 DEF StopAck, countVars
  <2> QED
    BY <2>4, <2>5, OthersOn
<1> QED
  BY <1>2, <1>3

LEMMA DeliveryHistory ==
  ASSUME IInv, HInv, NEW e \in Deliveries,
         ForeignDelivery(e) \/ \E gen \in 1 .. gens : RecordDelivery(e, gen)
  PROVE  HInv'
<1>1. Versions /\ row \in Session /\ gens \in Nat
  BY DEF IInv, Versions, Sound
<1>2. e \notin delivered /\ delivered' = delivered \cup {e}
      /\ UNCHANGED <<draft, status, holder, source, inbox>>
  BY DEF ForeignDelivery, RecordDelivery, turnVars, inputVars
<1>3. ASSUME NEW gen \in Nat, NEW r \in Session,
             r = [row EXCEPT !.msgs = Append(@, Msg("delivery", e, gen))],
             row' = [r EXCEPT !.rev = @ + 1]
      PROVE  HInv'
  <2> DEFINE x == Msg("delivery", e, gen)
  <2>1. x \in Message /\ x.what = "delivery" /\ x.by = e
    BY DEF Msg, Message, Whats
  <2>2. row'.gen = row.gen /\ row'.arch = row.arch /\ row'.ckpt = row.ckpt
        /\ row'.pending = row.pending /\ row'.msgs = Append(row.msgs, x)
    BY <1>1, <1>3 DEF Session
  <2> HIDE DEF x
  <2>3. x.by \in delivered' \ delivered
    BY <1>2, <2>1
  <2> QED
    BY <1>2, <2>1, <2>2, <2>3, OthersOn
<1>4. ASSUME NEW gen \in Nat
      PROVE  [row EXCEPT !.msgs = Append(@, Msg("delivery", e, gen))] \in Session
  <2>1. Msg("delivery", e, gen) \in Message
    BY DEF Msg, Message, Whats
  <2>2. Append(row.msgs, Msg("delivery", e, gen)) \in Seq(Message)
    BY <1>1, <2>1, AppendProperties DEF Session
  <2> QED
    BY <1>1, <2>2 DEF Session
<1>5. CASE ForeignDelivery(e)
  <2> DEFINE r == [row EXCEPT !.msgs = Append(@, Msg("delivery", e, row.gen))]
  <2>1. row.gen \in Nat
    BY <1>1 DEF Session
  <2>2. r \in Session
    BY <1>4, <2>1
  <2>3. row' = [r EXCEPT !.rev = @ + 1]
    BY <1>1, <1>5 DEF ForeignDelivery, Session
  <2> QED
    BY <1>3, <2>1, <2>2, <2>3
<1>6. ASSUME NEW gen \in 1 .. gens, RecordDelivery(e, gen)
      PROVE  HInv'
  <2> DEFINE r == [row EXCEPT !.msgs = Append(@, Msg("delivery", e, gen))]
  <2>1. gen \in Nat /\ r \in Session
    BY <1>1, <1>4
  <2>2. CASE AcceptsDelivery(gen)
    <3>1. Loaded = row
      BY <1>1, LoadedIsRow
    <3>2. Commit(r)
      BY <1>6, <2>2, <3>1 DEF RecordDelivery
    <3>3. row' = [r EXCEPT !.rev = @ + 1]
      BY <1>1, <2>1, <3>2, CommitSaves
    <3> QED
      BY <1>3, <2>1, <3>3
  <2>3. CASE ~AcceptsDelivery(gen)
    <3>1. row' = row
      BY <1>6, <2>3 DEF RecordDelivery
    <3> QED
      BY <1>2, <3>1, OthersOn
  <2> QED
    BY <2>2, <2>3
<1> QED
  BY <1>5, <1>6

LEMMA ReplaceHistory ==
  ASSUME IInv, HInv, Reset \/ ForeignReset \/ Delete \/ Evict
  PROVE  HInv'
<1>1. row \in Session /\ gens \in Nat
  BY DEF IInv, Versions, Sound
<1>2. UNCHANGED <<draft, status, holder, source, inbox, delivered>>
  BY DEF Reset, ForeignReset, Delete, Evict, turnVars, inputVars
<1>3. CASE Reset \/ ForeignReset
  <2>1. row' = ResetRow
    BY <1>3 DEF Reset, ForeignReset, Create
  <2>2. row'.gen = gens + 1 /\ row'.msgs = <<>> /\ row'.arch = 0 /\ row'.ckpt = Nobody
    BY <2>1 DEF ResetRow, Fresh, NoRow
  <2>3. Ended
    BY <1>1, <2>2 DEF Ended
  <2> QED
    BY <1>2, <2>2, <2>3, OthersOn
<1>4. CASE Delete
  <2>1. row'.gen = 0 /\ row'.msgs = <<>> /\ row'.arch = 0 /\ row'.ckpt = Nobody
    BY <1>4 DEF Delete, NoRow
  <2> QED
    BY <1>2, <2>1, OthersOn DEF Ended
<1>5. CASE Evict
  <2>1. row' = row
    BY <1>5 DEF Evict
  <2> QED
    BY <1>2, <2>1, OthersOn
<1> QED
  BY <1>3, <1>4, <1>5

LEMMA QueueHistory ==
  ASSUME IInv, HInv, NEW f \in Followups, QueueFollowup(f)
  PROVE  HInv'
<1>1. Versions /\ row \in Session /\ gens \in Nat
  BY DEF IInv, Versions, Sound
<1>2. UNCHANGED <<draft, status, holder, source, delivered>> /\ inbox' = inbox \cup {f}
      /\ journaled[f] = 0
  BY DEF QueueFollowup, turnVars, countVars
<1>3. CASE row.gen = 0
  <2>1. row' = [Fresh(gens + 1) EXCEPT !.journal = {f}]
    BY <1>3 DEF QueueFollowup, Create
  <2>2. row'.gen = gens + 1 /\ row'.msgs = <<>> /\ row'.arch = 0 /\ row'.ckpt = Nobody
    BY <2>1 DEF Fresh, NoRow
  <2>3. Ended
    BY <1>1, <2>2 DEF Ended
  <2> QED
    BY <1>2, <2>2, <2>3, OthersOn
<1>4. CASE row.gen # 0
  <2> DEFINE s == [row EXCEPT !.journal = @ \cup {f}]
  <2>1. s \in Session /\ s.gen = row.gen /\ s.rev = row.rev /\ s.msgs = row.msgs
        /\ s.arch = row.arch /\ s.ckpt = row.ckpt /\ s.pending = row.pending
    BY <1>1 DEF Session
  <2>2. CommitHeader(s)
    BY <1>4 DEF QueueFollowup
  <2> HIDE DEF s
  <2>3. row' = [s EXCEPT !.rev = @ + 1]
    BY <1>1, <2>1, <2>2, HeaderSaves
  <2>4. row'.gen = row.gen /\ row'.msgs = row.msgs
        /\ row'.arch = row.arch /\ row'.ckpt = row.ckpt /\ row'.pending = row.pending
    BY <2>1, <2>3 DEF Session
  <2> QED
    BY <1>2, <2>4, OthersOn
<1> QED
  BY <1>3, <1>4

-----------------------------------------------------------------------------
(* One lemma per action: turns that leave, and a compaction.               *)

LEMMA LeaveHistory ==
  ASSUME IInv, HInv, NEW c \in Turns,
         CheckpointRefused(c) \/ Release(c) \/ StopRead(c) \/ Cancel(c)
  PROVE  HInv'
<1>1. Exclusive /\ status \in [Turns -> Statuses] /\ draft \in [Turns -> Draft]
  BY DEF HInv, IInv, Drafts
<1>2. UNCHANGED <<row, delivered, inbox, source>>
  BY DEF CheckpointRefused, Release, StopRead, Cancel, ownerVars, inputVars, countVars
<1>3. CASE CheckpointRefused(c) \/ Release(c)
  <2>1. /\ status[c] \in Locking /\ holder' = Nobody
        /\ \A t \in Turns \ {c} : status'[t] = status[t] /\ draft'[t] = draft[t]
        /\ status'[c] \in {"refused", "done"}
    BY <1>1, <1>3 DEF CheckpointRefused, Release, SetStatus, SetDraft, Locking
  <2>2. \A t \in Turns \ {c} : status[t] \notin Locking
    BY <1>1, <2>1, Alone
  <2>3. Exclusive'
    BY <2>1, <2>2 DEF Exclusive, Locking
  <2>4. \A t \in Turns : \/ status'[t] = status[t] /\ draft'[t] = draft[t]
                         \/ status'[t] \notin Working \cup {"idle"}
    BY <2>1 DEF Working
  <2> QED
    BY <1>2, <2>1, <2>3, <2>4, TurnsLeave, NamesAssumption
<1>4. CASE StopRead(c)
  <2>1. UNCHANGED <<holder, status, draft>>
    BY <1>4 DEF StopRead
  <2>2. Exclusive'
    BY <1>1, <2>1 DEF Exclusive
  <2> QED
    BY <1>2, <2>1, <2>2, TurnsLeave
<1>5. CASE Cancel(c)
  <2>1. /\ status[c] \in Locking /\ holder' = holder
        /\ \A t \in Turns \ {c} : status'[t] = status[t] /\ draft'[t] = draft[t]
        /\ status'[c] = "cancelled"
    BY <1>1, <1>5 DEF Cancel, SetStatus, SetDraft, Locking
  <2>2. Exclusive'
    BY <1>1, <2>1 DEF Exclusive
  <2>3. \A t \in Turns : \/ status'[t] = status[t] /\ draft'[t] = draft[t]
                         \/ status'[t] \notin Working \cup {"idle"}
    BY <2>1 DEF Working
  <2> QED
    BY <1>2, <2>1, <2>2, <2>3, TurnsLeave
<1> QED
  BY <1>3, <1>4, <1>5

LEMMA RestartHistory ==
  ASSUME IInv, HInv, Restart
  PROVE  HInv'
<1>1. Exclusive /\ UNCHANGED <<row, delivered>> /\ inbox' = row.journal /\ holder' = Nobody
  BY DEF HInv, Restart
<1>2. \A t \in Turns : status'[t] = IF t = holder THEN "dead" ELSE status[t]
  BY DEF Restart
<1>3. \A t \in Turns : draft'[t] = IF t = holder THEN NoDraft ELSE draft[t]
  BY DEF Restart
<1>4. \A t \in Turns : status'[t] \notin Locking
  BY <1>1, <1>2 DEF Exclusive, Locking
<1>5. Exclusive'
  BY <1>4 DEF Exclusive
<1>6. \A t \in Turns : \/ status'[t] = status[t] /\ draft'[t] = draft[t]
                       \/ status'[t] \notin Working \cup {"idle"}
  BY <1>2, <1>3 DEF Working
<1>7. \A t \in Turns : status'[t] \notin Working
  BY <1>4 DEF Locking, Working
<1> QED
  BY <1>1, <1>5, <1>6, <1>7, TurnsLeave, NamesAssumption

LEMMA CompactionHistory ==
  ASSUME IInv, HInv, CompactStart \/ CompactFail
  PROVE  HInv'
<1>1. Exclusive /\ UNCHANGED <<row, delivered, inbox, status, draft>>
  BY DEF HInv, CompactStart, CompactFail, ownerVars, inputVars, countVars
<1>2. holder \in {Nobody, Compactor}
  BY DEF CompactStart, CompactFail
<1>3. \A t \in Turns : status[t] \notin Locking
  BY <1>1, <1>2, NamesAssumption DEF Exclusive
<1>4. Exclusive'
  BY <1>1, <1>3 DEF Exclusive
<1>5. holder' = Compactor => source' = row
  BY NamesAssumption DEF CompactStart, CompactFail
<1> QED
  BY <1>1, <1>4, <1>5, TurnsLeave

LEMMA CompactCommitHistory ==
  ASSUME IInv, HInv, CompactCommit
  PROVE  HInv'
<1>1. Exclusive /\ Basis /\ Records /\ Marks /\ Loops /\ Versions /\ row \in Session
      /\ source \in Session
  BY DEF HInv, IInv, Versions, Sound
<1>2. holder = Compactor /\ holder' = Nobody /\ UNCHANGED <<status, draft, inbox, delivered>>
  BY DEF CompactCommit, inputVars, countVars
<1>3. \A t \in Turns : status[t] \notin Locking
  BY <1>1, <1>2, NamesAssumption DEF Exclusive
<1>4. Exclusive'
  BY <1>2, <1>3 DEF Exclusive
<1>5. CASE row' = row
  <2>1. holder' # Compactor
    BY <1>2, NamesAssumption
  <2> QED
    BY <1>2, <1>4, <1>5, <2>1, TurnsLeave
<1>6. CASE SourceStillThere
  <2> DEFINE h == row.msgs
             at == Len(source.msgs)
             x == Msg("mark", at, row.gen)
             s == [row EXCEPT !.arch = at, !.msgs = InsertAt(h, at + 1, x)]
  <2>1. Follows(source, row)
    BY <1>1, <1>2, <1>6 DEF SourceStillThere, Basis
  <2>2. h \in Seq(Message) /\ at \in 0 .. Len(h) /\ row.gen \in Nat
        /\ \A i \in at + 1 .. Len(h) : h[i].what = "delivery"
    BY <1>1, <2>1 DEF Follows, Session
  <2>3. x \in Message /\ x.what = "mark" /\ x.by = at
    BY <2>2 DEF Msg, Message, Whats
  <2>4. Loaded = row
    BY <1>1, LoadedIsRow
  <2>5. Commit(s)
    BY <1>6, <2>4 DEF CompactCommit
  <2>6. at + 1 \in 1 .. Len(h) + 1 /\ DOMAIN h = 1 .. Len(h)
    BY <2>2
  <2> HIDE DEF h, at, x
  <2>7. InsertAt(h, at + 1, x) \in Seq(Message)
    BY <2>2, <2>3, <2>6, Inserted
  <2>8. s \in Session
    <3>1. at \in Nat
      BY <2>2
    <3> QED
      BY <1>1, <2>7, <3>1 DEF Session
  <2>9. row'.msgs = InsertAt(h, at + 1, x) /\ row'.arch = at /\ row'.ckpt = row.ckpt
    <3>1. row' = [s EXCEPT !.rev = @ + 1]
      BY <1>1, <2>5, <2>8, CommitSaves
    <3> QED
      BY <1>1, <2>8, <3>1 DEF Session
  <2>10. \A i \in DOMAIN h : h[i].what = "mark" => h[i].by \in Nat /\ h[i].by < i /\ i <= at
    <3>1. \A i \in DOMAIN h : h[i].what = "mark" => h[i].by \in Nat /\ h[i].by < i
      BY <1>1 DEF Marks, Summarised, h
    <3>2. \A i \in DOMAIN h : h[i].what = "mark" => i <= at
      BY <2>2, <2>6
    <3> QED
      BY <3>1, <3>2
  <2>11. x \notin Range(h)
    BY <2>2, <2>3, <2>10 DEF Range
  <2>12. /\ Summarised(row'.msgs, row'.arch) /\ Distinct(row'.msgs)
         /\ Range(row'.msgs) = Range(h) \cup {x}
    <3>1. Distinct(h)
      BY <1>1 DEF Records, h
    <3>2. /\ \A i \in 1 .. at : h[i].what = "mark" => h[i].by \in Nat /\ h[i].by < i
          /\ \A i \in at + 1 .. Len(h) : h[i].what # "mark"
      BY <2>2, <2>6, <2>10
    <3> QED
      BY <2>2, <2>3, <2>9, <2>11, <3>1, <3>2, MarkInserted
  <2>13. Spoken(x, status', draft', delivered', inbox', row'.ckpt)
    BY <2>3 DEF Spoken
  <2>14. Onward
    BY <1>2, <2>9 DEF Onward
  <2>15. Records' /\ Marks'
    BY <1>1, <2>7, <2>9, <2>12, <2>13, <2>14, RecordsOn DEF h
  <2>16. Basis'
    BY <1>2, <1>3, NamesAssumption DEF Basis, Working, Locking
  <2>17. Loops'
    BY <1>1, <1>2, LoopsOn
  <2> QED
    BY <1>4, <2>15, <2>16, <2>17 DEF HInv
<1> QED
  BY <1>5, <1>6 DEF CompactCommit

-----------------------------------------------------------------------------
(* One lemma per action: a turn.                                           *)

(* A turn starts from a copy of the row, made when it was missing.         *)
LEMMA OpenHistory ==
  ASSUME IInv, HInv, NEW c \in Turns, Open(c) \/ Reopen(c)
  PROVE  HInv'
<1>1. Exclusive /\ Basis /\ Records /\ Marks /\ Loops /\ Versions /\ row \in Session
      /\ status \in [Turns -> Statuses] /\ draft \in [Turns -> Draft] /\ gens \in Nat
  BY DEF HInv, IInv, Versions, Sound, Drafts
<1>2. /\ Get /\ holder' = c /\ status'[c] \in {"open", "salvaging"}
      /\ status'[c] = "open" => status[c] = "idle"
      /\ status[c] \in {"idle", "cancelled"}
      /\ \A t \in Turns \ {c} : status'[t] = status[t] /\ draft'[t] = draft[t]
      /\ \A t \in Turns \ {c} : status[t] \notin Locking
      /\ draft'[c] = DraftOf(Got) /\ UNCHANGED <<inbox, delivered>>
  <2>1. CASE Open(c)
    <3>1. holder = Nobody /\ \A t \in Turns : t # Nobody
      BY <2>1, NamesAssumption DEF Open
    <3> QED
      BY <1>1, <2>1, <3>1 DEF Open, SetStatus, SetDraft, Exclusive, inputVars, countVars
  <2>2. CASE Reopen(c)
    <3>1. status[c] \in Locking
      BY <2>2 DEF Reopen, Locking
    <3>2. holder = c /\ \A t \in Turns \ {c} : status[t] \notin Locking
      BY <1>1, <3>1, Alone
    <3> QED
      BY <1>1, <2>2, <3>2 DEF Reopen, SetStatus, SetDraft, inputVars, countVars
  <2> QED
    BY <2>1, <2>2
<1>3. Exclusive'
  BY <1>2 DEF Exclusive
<1>4. \A t \in Turns \ {c} : status'[t] \notin Locking /\ status'[t] \notin Working
  BY <1>2 DEF Locking, Working
<1>5. /\ row' = Got
      /\ \/ row' = row
         \/ row'.msgs = <<>> /\ row'.arch = 0 /\ row'.ckpt = Nobody
  <2>1. CASE row.gen = 0
    BY <1>2, <2>1 DEF Get, Create, Got, Fresh, NoRow
  <2>2. CASE row.gen # 0
    <3>1. Got = row
      BY <1>1, <2>2, LoadedIsRow DEF Got
    <3>2. row' = row
      BY <1>2, <2>2 DEF Get
    <3> QED
      BY <3>1, <3>2
  <2> QED
    BY <2>1, <2>2
<1>6. /\ draft'[c].base = [row' EXCEPT !.rev = 0] /\ draft'[c].run = <<>>
  BY <1>2, <1>5 DEF DraftOf
<1>7. Onward
  <2>1. \A t \in Turns : status'[t] # "prepared"
    BY <1>2, <1>4 DEF Working
  <2>2. row'.ckpt # row.ckpt => row'.ckpt = Nobody
    BY <1>5
  <2>3. \A t \in Turns : status'[t] = "open" => status[t] = "idle"
    BY <1>2, <1>4 DEF Working
  <2>4. \A t \in Turns : status[t] # "idle" => status'[t] # "idle"
    BY <1>2
  <2> QED
    BY <1>2, <2>1, <2>2, <2>3, <2>4 DEF Onward
<1>8. row'.msgs \in Seq(Message)
  <2>1. row.msgs \in Seq(Message) /\ <<>> \in Seq(Message)
    BY <1>1 DEF Session
  <2>2. row' = row \/ row'.msgs = <<>>
    BY <1>5
  <2> QED
    BY <2>1, <2>2
<1>9. Records' /\ Marks'
  BY <1>1, <1>5, <1>7, RecordsSame, RecordsNone
<1>10. Basis'
  <2>2. Follows(draft'[c].base, row')
    BY <1>5, <1>6, <1>8 DEF Follows
  <2>3. holder' # Compactor
    BY <1>2, NamesAssumption
  <2> QED
    BY <1>4, <2>2, <2>3, BasisOf
<1>11. Loops'
  <2>1. ASSUME NEW t \in Turns
        PROVE  /\ status'[t] = "open" => draft'[t].run = <<>>
               /\ status'[t] # "prepared"
    BY <1>2, <1>4, <1>6 DEF Working
  <2> QED
    BY <2>1 DEF Loops
<1> QED
  BY <1>3, <1>9, <1>10, <1>11 DEF HInv

(* What a turn that may commit knows of the row.                           *)
LEMMA DraftKnows ==
  ASSUME IInv, HInv, NEW c \in Turns, status[c] \in Working,
         NEW p, p.base = draft[c].base, Mergeable(p)
  PROVE  LET d == draft[c] IN
         /\ row.gen = d.base.gen /\ Follows(d.base, row)
         /\ Distinct(d.msgs) /\ Summarised(d.msgs, d.arch)
         /\ Range(d.msgs) \subseteq Range(row.msgs)
         /\ \A x \in Range(row.msgs) : x \in Range(d.msgs) \/ x.what = "delivery"
         /\ row.ckpt = d.ckpt /\ row.pending = d.pending /\ row.arch = d.arch
<1> DEFINE d == draft[c]
<1>1. Exclusive /\ Basis /\ Records /\ Marks /\ Loops /\ Versions /\ row \in Session
  BY DEF HInv, IInv, Versions, Sound
<1>2. d.base \in Session /\ d.msgs = d.base.msgs /\ d.arch = d.base.arch
      /\ d.ckpt = d.base.ckpt /\ d.pending = d.base.pending
  BY CopyIs DEF IInv, Drafts, TurnOK
<1>3. row.gen = d.base.gen
  BY LoadedIsRow, <1>1 DEF Mergeable, Current
<1>4. Follows(d.base, row)
  BY <1>1, <1>3 DEF Basis
<1>5. Distinct(row.msgs) /\ Summarised(row.msgs, row.arch)
  BY <1>1 DEF Records, Marks
<1>6. /\ Distinct(d.base.msgs) /\ Summarised(d.base.msgs, d.base.arch)
      /\ Range(d.base.msgs) \subseteq Range(row.msgs)
      /\ \A x \in Range(row.msgs) : x \in Range(d.base.msgs) \/ x.what = "delivery"
  BY <1>1, <1>2, <1>4, <1>5, FollowsBack
<1> HIDE DEF d
<1>7. row.ckpt = d.base.ckpt /\ row.pending = d.base.pending /\ row.arch = d.base.arch
  BY <1>4 DEF Follows
<1> QED
  BY <1>2, <1>3, <1>4, <1>6, <1>7 DEF d

(* The row after such a commit.                                            *)
LEMMA CommitAdds ==
  ASSUME IInv, HInv, NEW c \in Turns, status[c] \in Working,
         NEW p, Proposal(p), p.base = draft[c].base, Mergeable(p), Adds(p), Commit(Merged(p))
  PROVE  /\ row'.msgs \in Seq(Message) /\ Distinct(row'.msgs)
         /\ Summarised(row'.msgs, row'.arch)
         /\ Range(row'.msgs) \subseteq Range(row.msgs) \cup Range(p.msgs)
         /\ Len(p.base.msgs) < Len(p.msgs) => row'.msgs[Len(row'.msgs)] = p.msgs[Len(p.msgs)]
         /\ row'.ckpt = p.ckpt /\ row'.pending = p.pending /\ row'.ckpt \in {row.ckpt, Nobody}
         /\ row' = [Merged(p) EXCEPT !.rev = @ + 1] /\ Merged(p) \in Session
<1>1. Versions /\ Distinct(row.msgs) /\ Marks
  BY DEF IInv, HInv, Records
<1>2. Follows(p.base, row) /\ row.ckpt = p.base.ckpt
  BY DraftKnows, CopyIs DEF IInv, Drafts, TurnOK
<1>3. Merged(p) \in Session /\ p.ckpt \in {p.base.ckpt, Nobody}
  BY <1>1, MergedIs DEF Sound, Proposal
<1>4. row' = [Merged(p) EXCEPT !.rev = @ + 1]
  BY <1>1, <1>3, CommitSaves
<1> DEFINE m == Merged(p)
<1>5. /\ Distinct(m.msgs) /\ Summarised(m.msgs, m.arch)
      /\ Range(m.msgs) \subseteq Range(row.msgs) \cup Range(p.msgs)
      /\ Len(p.base.msgs) < Len(p.msgs) => m.msgs[Len(m.msgs)] = p.msgs[Len(p.msgs)]
      /\ m.ckpt = p.ckpt /\ m.pending = p.pending
  BY <1>1, <1>2, MergeAdds
<1> HIDE DEF m
<1>6. /\ row'.msgs = m.msgs /\ row'.arch = m.arch /\ row'.ckpt = m.ckpt
      /\ row'.pending = m.pending /\ m.msgs \in Seq(Message)
  BY <1>3, <1>4 DEF Session, m
<1> QED
  BY <1>2, <1>3, <1>4, <1>5, <1>6

(* What is spoken does not depend on the baselines.                        *)
LEMMA SpokenSame ==
  ASSUME NEW x, NEW st, NEW dr, NEW d2, NEW de, NEW bx, NEW ck,
         Spoken(x, st, dr, de, bx, ck),
         \A t \in Turns : d2[t].pending = dr[t].pending /\ d2[t].run = dr[t].run
  PROVE  Spoken(x, st, d2, de, bx, ck)
<1>1. \A t \in Turns : Authors(d2[t].run) = Authors(dr[t].run)
  BY DEF Authors
<1> QED
  BY <1>1 DEF Spoken

(* _submit_draft of a proposal whose records were never in the row.        *)
LEMMA SubmitHistory ==
  ASSUME IInv, HInv, NEW c \in Turns, status[c] \in {"open", "prepared"},
         NEW p, NEW next \in {"open", "prepared", "saved"},
         Proposal(p), p.base = draft[c].base, SubmitDraft(c, p, next),
         inbox' \subseteq inbox, UNCHANGED <<source, delivered>>,
         Mergeable(p) => /\ Adds(p)
                         /\ \A x \in Range(p.msgs) :
                              \/ x \in Range(draft[c].msgs)
                              \/ Spoken(x, [status EXCEPT ![c] = next],
                                        [draft EXCEPT ![c] = p], delivered, inbox', p.ckpt),
         next # "saved" => status[c] = "open" /\ p.run = <<>>,
         next = "open" => (p.pending => draft[c].pending),
         next = "prepared" => /\ Len(p.base.msgs) < Len(p.msgs)
                              /\ p.msgs[Len(p.msgs)].what \in {"in", "row"}
  PROVE  HInv'
<1>1. Exclusive /\ Basis /\ Records /\ Marks /\ Loops /\ Versions /\ row \in Session
      /\ status \in [Turns -> Statuses] /\ draft \in [Turns -> Draft]
  BY DEF HInv, IInv, Versions, Sound, Drafts
<1>2. /\ status[c] \in Locking /\ status[c] \in Working
      /\ holder = c /\ \A t \in Turns \ {c} : status[t] \notin Locking
  BY <1>1, Alone DEF Locking, Working
<1>3. CASE ~Mergeable(p)
  <2>1. status' = [status EXCEPT ![c] = "refused"] /\ holder' = Nobody
        /\ UNCHANGED <<row, draft>>
    BY <1>3 DEF SubmitDraft, ownerVars
  <2>2. Exclusive'
    BY <1>1, <1>2, <2>1 DEF Exclusive, Locking
  <2>3. \A t \in Turns : \/ status'[t] = status[t] /\ draft'[t] = draft[t]
                         \/ status'[t] \notin Working \cup {"idle"}
    BY <1>1, <2>1 DEF Working
  <2> QED
    BY <2>1, <2>2, <2>3, TurnsLeave, NamesAssumption
<1>4. CASE Mergeable(p)
  <2> DEFINE m == Merged(p)
  <2>1. /\ Commit(m) /\ UNCHANGED holder
        /\ status' = [status EXCEPT ![c] = next]
        /\ draft' = [draft EXCEPT ![c] = Refreshed(m, p)]
    BY <1>4 DEF SubmitDraft
  <2>2. /\ row'.msgs \in Seq(Message) /\ Distinct(row'.msgs)
        /\ Summarised(row'.msgs, row'.arch)
        /\ Range(row'.msgs) \subseteq Range(row.msgs) \cup Range(p.msgs)
        /\ Len(p.base.msgs) < Len(p.msgs) => row'.msgs[Len(row'.msgs)] = p.msgs[Len(p.msgs)]
        /\ row'.ckpt = p.ckpt /\ row'.pending = p.pending /\ row'.ckpt \in {row.ckpt, Nobody}
        /\ row' = [m EXCEPT !.rev = @ + 1] /\ m \in Session
    BY <1>2, <1>4, <2>1, CommitAdds
  <2> HIDE DEF m
  <2>3. /\ Range(draft[c].msgs) \subseteq Range(row.msgs)
    BY <1>2, <1>4, DraftKnows
  <2>4. /\ Refreshed(m, p).base = [row' EXCEPT !.rev = 0]
        /\ Refreshed(m, p).run = p.run /\ Refreshed(m, p).pending = row'.pending
        /\ Refreshed(m, p).msgs = row'.msgs
    BY <2>2 DEF Refreshed, DraftOf, Session
  <2>5. /\ status'[c] = next
        /\ draft'[c].base = [row' EXCEPT !.rev = 0] /\ draft'[c].run = p.run
        /\ draft'[c].pending = p.pending /\ draft'[c].msgs = row'.msgs
        /\ \A t \in Turns \ {c} : status'[t] = status[t] /\ draft'[t] = draft[t]
    BY <1>1, <2>1, <2>2, <2>4
  <2>6. Onward
    <3>1. \A f \in inbox' : f \in inbox
      OBVIOUS
    <3>2. status'[c] # "idle"
          /\ (status'[c] = "open" =>
                 status[c] = "open" /\ (draft'[c].pending => draft[c].pending))
          /\ (status'[c] = "prepared" => status[c] = "open" /\ Authors(draft'[c].run) = {})
      BY <2>5 DEF Authors
    <3>3. \A t \in Turns \ {c} : status[t] \notin {"open", "prepared"}
      BY <1>2 DEF Locking
    <3> QED
      BY <2>2, <2>5, <3>1, <3>2, <3>3 DEF Onward
  <2>7. ASSUME NEW x \in Range(row'.msgs)
        PROVE  \/ x \in Range(row.msgs)
               \/ Spoken(x, status', draft', delivered', inbox', row'.ckpt)
    <3>1. CASE x \in Range(p.msgs) /\ x \notin Range(row.msgs)
      <4> DEFINE d2 == [draft EXCEPT ![c] = p]
      <4>1. Spoken(x, status', d2, delivered, inbox', p.ckpt)
        BY <1>4, <2>1, <2>3, <3>1
      <4>2. \A t \in Turns : draft'[t].pending = d2[t].pending /\ draft'[t].run = d2[t].run
        BY <1>1, <2>5
      <4> HIDE DEF d2
      <4>3. Spoken(x, status', draft', delivered, inbox', p.ckpt)
        BY <4>1, <4>2, SpokenSame
      <4> QED
        BY <2>2, <4>3
    <3> QED
      BY <2>2, <3>1
  <2>8. Records' /\ Marks'
    BY <1>1, <2>2, <2>6, <2>7, RecordsOn
  <2>9. Exclusive'
    BY <1>2, <2>1, <2>5 DEF Exclusive
  <2>10. Basis'
    <3>1. Follows(draft'[c].base, row')
      <4>1. draft'[c].base.msgs = row'.msgs /\ draft'[c].base.arch = row'.arch
            /\ draft'[c].base.ckpt = row'.ckpt /\ draft'[c].base.pending = row'.pending
        BY <2>2, <2>5 DEF Session
      <4> QED
        BY <2>2, <4>1 DEF Follows
    <3>2. \A t \in Turns \ {c} : status'[t] \notin Working
      BY <1>2, <2>5 DEF Locking, Working
    <3>3. holder' # Compactor
      BY <1>2, <2>1, NamesAssumption
    <3> QED
      BY <3>1, <3>2, <3>3, BasisOf
  <2>11. Loops'
    <3>1. ASSUME status'[c] = "prepared"
          PROVE  LoopOK(draft'[c].msgs, draft'[c].run, inbox')
      <4>1. row'.msgs[Len(row'.msgs)].what \in {"in", "row"}
        BY <2>2, <2>5, <3>1
      <4>2. draft'[c].run = <<>> /\ DOMAIN draft'[c].run = {}
        BY <2>5, <3>1
      <4> QED
        BY <2>5, <4>1, <4>2 DEF LoopOK, Distinct
    <3>2. \A t \in Turns \ {c} : status'[t] \notin {"open", "prepared"}
      BY <1>2, <2>5 DEF Locking
    <3>3. status'[c] = "open" => draft'[c].run = <<>>
      BY <2>5
    <3> QED
      BY <3>1, <3>2, <3>3 DEF Loops
  <2> QED
    BY <2>8, <2>9, <2>10, <2>11 DEF HInv
<1> QED
  BY <1>3, <1>4

(* One record more at the end of the draft, that the row does not have.    *)
LEMMA AppendAdds ==
  ASSUME IInv, HInv, NEW c \in Turns, status[c] \in Working,
         NEW p, p.base = draft[c].base, Mergeable(p), NEW x \in Message,
         p.msgs = Append(draft[c].msgs, x), p.arch = draft[c].arch,
         x.what # "mark", x \notin Range(row.msgs)
  PROVE  /\ Adds(p) /\ Len(p.base.msgs) < Len(p.msgs) /\ p.msgs[Len(p.msgs)] = x
         /\ \A y \in Range(p.msgs) : y \in Range(draft[c].msgs) \/ y = x
<1> DEFINE h == draft[c].msgs
<1>1. h \in Seq(Message) /\ p.base.msgs = h
  BY CopyIs DEF IInv, Drafts, TurnOK
<1>2. Distinct(h) /\ Summarised(h, p.arch) /\ Range(h) \subseteq Range(row.msgs)
  BY DraftKnows
<1> HIDE DEF h
<1>3. p.msgs = Append(h, x)
  BY DEF h
<1>4. /\ Distinct(p.msgs) /\ Range(p.msgs) = Range(h) \cup {x} /\ p.msgs[Len(p.msgs)] = x
  BY <1>1, <1>2, <1>3, DistinctAppend
<1>5. Summarised(p.msgs, p.arch)
  BY <1>1, <1>2, <1>3, MarkedAppend
<1>6. Len(h) < Len(p.msgs)
  <2>1. Len(p.msgs) = Len(h) + 1 /\ Len(h) \in Nat
    BY <1>1, <1>3, AppendIs
  <2> QED
    BY <2>1
<1> QED
  BY <1>1, <1>4, <1>5, <1>6 DEF Adds, h

(* The draft as it is, under another header.                               *)
LEMMA SameAdds ==
  ASSUME IInv, HInv, NEW c \in Turns, status[c] \in Working,
         NEW p, p.base = draft[c].base, Mergeable(p),
         p.msgs = draft[c].msgs, p.arch = draft[c].arch
  PROVE  Adds(p)
<1>1. p.base.msgs = draft[c].msgs
  BY CopyIs DEF IInv, Drafts, TurnOK
<1> QED
  BY <1>1, DraftKnows DEF Adds

(* What a turn that restores a checkpoint adds: the records of another     *)
(* turn, or its own, that no longer has the lock.                          *)
LEMMA SalvagedAdds ==
  ASSUME IInv, HInv, NEW c \in Turns, status[c] \in {"open", "salvaging"},
         NEW next, next \notin {"idle", "prepared"}, next = "open" => status[c] = "open",
         draft[c].ckpt # Nobody, NEW bx, NEW d2,
         NEW p \in {Salvaged(draft[c]), Finished(Salvaged(draft[c]))}, Mergeable(p)
  PROVE  /\ Adds(p) /\ ~p.pending
         /\ \A x \in Range(p.msgs) :
              \/ x \in Range(draft[c].msgs)
              \/ Spoken(x, [status EXCEPT ![c] = next], d2, delivered, bx, p.ckpt)
<1> DEFINE d == draft[c]
           e == d.ckpt
           x == Msg("part", e, d.base.gen)
<1>1. /\ Exclusive /\ Records /\ CheckpointKnown /\ status \in [Turns -> Statuses]
      /\ d \in Draft /\ d.base \in Session /\ Versions
  BY CopyIs DEF HInv, IInv, Drafts, TurnOK
<1>2. /\ p.base = d.base /\ p.arch = d.arch /\ p.ckpt = Nobody /\ ~p.pending
      /\ p.msgs = d.msgs \/ p.msgs = Append(d.msgs, x)
  BY <1>1 DEF Salvaged, Finished, Draft
<1>3. status[c] \in Working /\ status[c] \in Locking
  BY DEF Working, Locking
<1> HIDE DEF d
<1>4. row.ckpt = e
  BY <1>2, <1>3, DraftKnows DEF d
<1>5. e \in Turns /\ status[e] \notin {"idle", "open", "prepared"}
  <2>1. e \in Turns
    BY <1>1 DEF Draft, d
  <2>2. status[e] \notin {"idle", "open"}
    BY <1>1, <1>4, <2>1 DEF CheckpointKnown
  <2>3. e = c \/ status[e] \notin Locking
    BY <1>1, <1>3, <2>1, Alone
  <2> QED
    BY <2>1, <2>2, <2>3 DEF Locking
<1>6. x \in Message /\ x.what = "part" /\ x.by = e
  BY <1>1, <1>5 DEF Msg, Message, Whats, Session
<1> HIDE DEF x, e
<1>7. x \notin Range(row.msgs)
  BY <1>1, <1>4, <1>6 DEF Records, Spoken, Range
<1>8. Spoken(x, [status EXCEPT ![c] = next], d2, delivered, bx, p.ckpt)
  <2> DEFINE st == [status EXCEPT ![c] = next]
  <2>1. st[e] \notin {"idle", "open", "prepared"}
    BY <1>1, <1>5
  <2> HIDE DEF st
  <2> QED
    BY <1>2, <1>5, <1>6, <2>1, NamesAssumption DEF Spoken, st
<1>9. CASE p.msgs = d.msgs
  BY <1>2, <1>3, <1>9, SameAdds DEF d
<1>10. CASE p.msgs = Append(d.msgs, x)
  <2>1. Adds(p) /\ \A y \in Range(p.msgs) : y \in Range(d.msgs) \/ y = x
    BY <1>2, <1>3, <1>6, <1>7, <1>10, AppendAdds DEF d
  <2> QED
    BY <1>2, <1>8, <2>1 DEF d
<1> QED
  BY <1>2, <1>9, <1>10

LEMMA RestoreHistory ==
  ASSUME IInv, HInv, NEW c \in Turns, Restore(c)
  PROVE  HInv'
<1> DEFINE d == draft[c]
<1>1. /\ status[c] = "open" /\ UNCHANGED <<source, inbox, delivered>>
      /\ \/ d.ckpt # Nobody /\ SubmitDraft(c, Salvaged(d), "open")
         \/ d.ckpt = Nobody /\ d.pending /\ SubmitDraft(c, Interrupted(d, c), "open")
  BY DEF Restore, inputVars, countVars
<1>2. Versions /\ Copy(d, gens, events) /\ d.base \in Session /\ d.run = <<>> /\ Records
      /\ status \in [Turns -> Statuses] /\ draft \in [Turns -> Draft]
  BY <1>1, TurnHas, CopyIs DEF HInv, Loops, IInv, Drafts
<1>3. status[c] \in Working
  BY <1>1 DEF Working
<1> HIDE DEF d
<1>4. CASE d.ckpt # Nobody /\ SubmitDraft(c, Salvaged(d), "open")
  <2> DEFINE p == Salvaged(d)
  <2>1. Proposal(p) /\ p.run = <<>> /\ p.base = d.base
    BY <1>2, <1>4, SalvagedProposed
  <2>2. ASSUME Mergeable(p)
        PROVE  /\ Adds(p) /\ ~p.pending
               /\ \A x \in Range(p.msgs) :
                    \/ x \in Range(draft[c].msgs)
                    \/ Spoken(x, [status EXCEPT ![c] = "open"], [draft EXCEPT ![c] = p],
                              delivered, inbox', p.ckpt)
    BY <1>1, <1>4, <2>2, SalvagedAdds DEF d
  <2>3. ~p.pending
    BY <1>2 DEF Salvaged, Copy, Draft
  <2> HIDE DEF p
  <2>4. SubmitDraft(c, p, "open")
    BY <1>4 DEF p
  <2> QED
    BY <1>1, <2>1, <2>2, <2>3, <2>4, SubmitHistory DEF d
<1>5. CASE d.pending /\ SubmitDraft(c, Interrupted(d, c), "open")
  <2> DEFINE p == Interrupted(d, c)
             x == Msg("intr", c, d.base.gen)
  <2>1. /\ Proposal(p) /\ p.run = <<>> /\ p.base = d.base /\ p.arch = d.arch /\ ~p.pending
        /\ p.msgs = d.msgs \/ p.msgs = Append(d.msgs, x)
    BY <1>2, InterruptedProposed
  <2>2. x \in Message /\ x.what = "intr" /\ x.by = c
    BY <1>2 DEF Msg, Message, Whats, Session
  <2>3. SubmitDraft(c, p, "open")
    BY <1>5
  <2> HIDE DEF p, x
  <2>4. x \notin Range(row.msgs)
    BY <1>1, <1>2, <1>5, <2>2 DEF Records, Spoken, Range, d
  <2> DEFINE st == [status EXCEPT ![c] = "open"]
             dr == [draft EXCEPT ![c] = p]
  <2>5. Spoken(x, st, dr, delivered, inbox', p.ckpt)
    <3>1. st[c] = "open" /\ dr[c].pending = p.pending
      BY <1>2
    <3> HIDE DEF st, dr
    <3> QED
      BY <2>1, <2>2, <3>1 DEF Spoken
  <2>6. ASSUME Mergeable(p)
        PROVE  /\ Adds(p)
               /\ \A y \in Range(p.msgs) :
                    y \in Range(draft[c].msgs) \/ Spoken(y, st, dr, delivered, inbox', p.ckpt)
    <3>1. CASE p.msgs = d.msgs
      BY <1>3, <2>1, <2>6, <3>1, SameAdds DEF d
    <3>2. CASE p.msgs = Append(d.msgs, x)
      <4>1. Adds(p) /\ \A y \in Range(p.msgs) : y \in Range(draft[c].msgs) \/ y = x
        BY <1>3, <2>1, <2>2, <2>4, <2>6, <3>2, AppendAdds DEF d
      <4> QED
        BY <2>5, <4>1
    <3> QED
      BY <2>1, <3>1, <3>2
  <2> QED
    BY <1>1, <2>1, <2>3, <2>6, SubmitHistory DEF d
<1> QED
  BY <1>1, <1>4, <1>5 DEF d

LEMMA PrepareHistory ==
  ASSUME IInv, HInv, NEW c \in Turns, NEW f \in Followups \cup {Nobody}, Prepare(c, f)
  PROVE  HInv'
<1> DEFINE d == draft[c]
           x == IF f = Nobody THEN Msg("in", c, d.base.gen) ELSE Msg("row", f, d.base.gen)
<1>1. /\ status[c] = "open" /\ UNCHANGED <<source, delivered>> /\ inbox' = inbox \ {f}
      /\ f \in inbox \cup {Nobody}
  BY DEF Prepare, countVars
<1>2. d.run = <<>> /\ Records /\ Exclusive
      /\ status \in [Turns -> Statuses] /\ draft \in [Turns -> Draft]
  BY <1>1 DEF HInv, Loops, IInv, Drafts
<1>3. status[c] \in Working /\ status[c] \in Locking
  BY <1>1 DEF Working, Locking
<1>4. PICK p : /\ SubmitDraft(c, p, "prepared") /\ Proposal(p) /\ p.base = d.base
               /\ p.arch = d.arch /\ p.run = d.run /\ p.msgs = Append(d.msgs, x)
               /\ x \in Message
  BY PrepareSubmits
<1>5. \/ f = Nobody /\ x.what = "in" /\ x.by = c
      \/ f \in Followups /\ x.what = "row" /\ x.by = f /\ f \in inbox
  BY <1>1 DEF Msg
<1> HIDE DEF d, x
<1>6. x \notin Range(row.msgs)
  BY <1>1, <1>2, <1>5 DEF Records, Spoken, Range
<1> DEFINE st == [status EXCEPT ![c] = "prepared"]
           dr == [draft EXCEPT ![c] = p]
<1>7. Spoken(x, st, dr, delivered, inbox', p.ckpt)
  <2>1. st[c] = "prepared" /\ dr[c].run = <<>>
    BY <1>2, <1>4
  <2>2. \A t \in Turns : st[t] = "prepared" => t = c
    <3>1. \A t \in Turns \ {c} : status[t] \notin Locking
      BY <1>2, <1>3, Alone
    <3> QED
      BY <1>2, <3>1 DEF Locking
  <2> HIDE DEF st, dr
  <2>3. \A t \in Turns : st[t] = "prepared" => Authors(dr[t].run) = {}
    BY <2>1, <2>2 DEF Authors
  <2> QED
    BY <1>1, <1>5, <2>1, <2>3 DEF Spoken
<1>8. /\ Len(p.base.msgs) < Len(p.msgs) /\ p.msgs[Len(p.msgs)].what \in {"in", "row"}
  <2>1. /\ p.base.msgs \in Seq(Message) /\ p.base.msgs = d.msgs
    BY <1>4, CopyIs DEF IInv, Drafts, TurnOK, d
  <2>2. /\ Len(p.msgs) = Len(p.base.msgs) + 1 /\ Len(p.base.msgs) \in Nat
        /\ p.msgs[Len(p.base.msgs) + 1] = x
    BY <1>4, <2>1, AppendIs
  <2> QED
    BY <1>5, <2>2
<1>9. ASSUME Mergeable(p)
      PROVE  /\ Adds(p)
             /\ \A y \in Range(p.msgs) :
                  y \in Range(draft[c].msgs) \/ Spoken(y, st, dr, delivered, inbox', p.ckpt)
  <2>1. Adds(p) /\ \A y \in Range(p.msgs) : y \in Range(draft[c].msgs) \/ y = x
    BY <1>3, <1>4, <1>5, <1>6, <1>9, AppendAdds DEF d
  <2> QED
    BY <1>7, <2>1
<1> QED
  BY <1>1, <1>2, <1>4, <1>8, <1>9, SubmitHistory DEF d

LEMMA InjectHistory ==
  ASSUME IInv, HInv, NEW c \in Turns, NEW f \in Followups, Inject(c, f)
  PROVE  HInv'
<1> DEFINE d == draft[c]
           x == Msg("row", f, d.base.gen)
           n == [d EXCEPT !.run = Append(@, x)]
<1>1. /\ status[c] = "prepared" /\ f \in inbox /\ inbox' = inbox \ {f}
      /\ draft' = [draft EXCEPT ![c] = n]
      /\ UNCHANGED <<row, holder, status, source, delivered>>
  BY DEF Inject, SetDraft, ownerVars, countVars
<1>2. /\ Exclusive /\ Basis /\ Records /\ Marks /\ Loops
      /\ draft \in [Turns -> Draft] /\ d \in Draft /\ d.base \in Session /\ d.run \in Seq(Message)
      /\ row.msgs \in Seq(Message)
  BY CopyIs DEF HInv, IInv, Drafts, TurnOK, Versions, Sound, Session
<1>3. status[c] \in Locking
  BY <1>1 DEF Locking
<1>4. LoopOK(d.msgs, d.run, inbox)
  BY <1>1, <1>2 DEF Loops
<1> HIDE DEF d
<1>5. x \in Message /\ x.what = "row" /\ x.by = f
  BY <1>2 DEF Msg, Message, Whats, Session
<1> HIDE DEF x
<1>6. n.base = d.base /\ n.msgs = d.msgs /\ n.pending = d.pending /\ n.run = Append(d.run, x)
  BY <1>2 DEF Draft
<1>7. draft'[c] = n /\ \A t \in Turns \ {c} : draft'[t] = draft[t]
  BY <1>1, <1>2
<1> HIDE DEF n
<1>8. \A t \in Turns \ {c} : status[t] \notin Locking
  BY <1>2, <1>3, Alone
<1>9. x \notin Range(d.run)
  BY <1>1, <1>4, <1>5 DEF LoopOK, Range
<1>10. Distinct(Append(d.run, x)) /\ Range(Append(d.run, x)) = Range(d.run) \cup {x}
  BY <1>2, <1>4, <1>5, <1>9, DistinctAppend DEF LoopOK
<1>11. LoopOK(n.msgs, n.run, inbox')
  <2>1. \A y \in Range(d.run) : y.what = "row" /\ y.by \in Followups \ inbox
    BY <1>4 DEF LoopOK, Range
  <2>2. \A y \in Range(n.run) : y.what = "row" /\ y.by \in Followups \ inbox'
    BY <1>1, <1>5, <1>6, <1>10, <2>1
  <2> QED
    BY <1>4, <1>6, <1>10, <2>2 DEF LoopOK, Range
<1>12. Loops'
  <2>1. \A t \in Turns \ {c} : status'[t] \notin {"open", "prepared"}
    BY <1>1, <1>8 DEF Locking
  <2> QED
    BY <1>1, <1>6, <1>7, <1>11, <2>1 DEF Loops
<1>13. Onward
  <2>1. Authors(n.run) = Authors(d.run) \cup {f}
    BY <1>2, <1>5, <1>6, OneMore
  <2>2. \A g \in Authors(draft'[c].run) : g \in inbox \/ g \in Authors(draft[c].run)
    BY <1>1, <1>7, <2>1 DEF d
  <2>3. \A t \in Turns \ {c} : status'[t] \notin {"open", "prepared"}
    BY <1>1, <1>8 DEF Locking
  <2>4. status[c] = "prepared" /\ status'[c] = "prepared"
    BY <1>1
  <2> QED
    BY <1>1, <2>2, <2>3, <2>4 DEF Onward
<1>14. Basis'
  <2>1. Follows(row, row')
    BY <1>1, <1>2, FollowsSelf
  <2>2. \A t \in Turns : draft'[t].base = draft[t].base
    BY <1>6, <1>7 DEF d
  <2> QED
    BY <1>1, <1>2, <2>1, <2>2, BasisOn
<1>15. Exclusive'
  BY <1>1, <1>2 DEF Exclusive
<1> QED
  BY <1>1, <1>2, <1>12, <1>13, <1>14, <1>15, RecordsSame DEF HInv

LEMMA CheckpointHistory ==
  ASSUME IInv, HInv, NEW c \in Turns, NEW cut \in BOOLEAN, Checkpoint(c, cut)
  PROVE  HInv'
<1> DEFINE d == draft[c]
           s == [row EXCEPT !.ckpt = c]
<1>1. /\ status[c] = "prepared" /\ row.gen = d.base.gen /\ CommitHeader(s)
      /\ \/ /\ status' = [status EXCEPT ![c] = "cancelled"]
            /\ draft' = [draft EXCEPT ![c] = NoDraft]
         \/ draft' = [draft EXCEPT ![c] = DraftCheckpointed(d, c)] /\ UNCHANGED status
      /\ UNCHANGED <<holder, source, inbox, delivered>>
  BY DEF Checkpoint, SetStatus, SetDraft, inputVars, countVars
<1>2. /\ Exclusive /\ Basis /\ Records /\ Marks /\ Loops /\ Versions /\ row \in Session
      /\ draft \in [Turns -> Draft] /\ status \in [Turns -> Statuses]
      /\ d \in Draft /\ d.base \in Session
  BY CopyIs DEF HInv, IInv, Drafts, TurnOK, Versions, Sound
<1>3. status[c] \in Locking /\ status[c] \in Working
  BY <1>1 DEF Locking, Working
<1>4. holder = c /\ \A t \in Turns \ {c} : status[t] \notin Locking
  BY <1>2, <1>3, Alone
<1>5. LoopOK(d.msgs, d.run, inbox) /\ Follows(d.base, row)
  BY <1>1, <1>2, <1>3 DEF Loops, Basis
<1>6. /\ s \in Session /\ s.gen = row.gen /\ s.rev = row.rev /\ s.msgs = row.msgs
      /\ s.ckpt = c /\ s.arch = row.arch /\ s.pending = row.pending
  BY <1>2 DEF Session
<1> HIDE DEF s, d
<1>7. row' = [s EXCEPT !.rev = @ + 1]
  BY <1>1, <1>2, <1>6, HeaderSaves
<1>8. /\ row'.gen = row.gen /\ row'.msgs = row.msgs /\ row'.ckpt = c
      /\ row'.arch = row.arch /\ row'.pending = row.pending
  BY <1>6, <1>7 DEF Session
<1>9. \A t \in Turns \ {c} : status'[t] = status[t] /\ status'[t] \notin Locking
  BY <1>1, <1>2, <1>4
<1>10. \/ status'[c] = "cancelled"
       \/ /\ status'[c] = "prepared" /\ draft'[c].run = d.run /\ draft'[c].msgs = d.msgs
          /\ draft'[c].base = [d.base EXCEPT !.ckpt = c]
  <2> DEFINE n == DraftCheckpointed(d, c)
  <2>1. n.run = d.run /\ n.msgs = d.msgs /\ n.base = [d.base EXCEPT !.ckpt = c]
    BY <1>2 DEF DraftCheckpointed, Draft, Session
  <2> HIDE DEF n
  <2>2. \/ status'[c] = "cancelled"
        \/ status'[c] = "prepared" /\ draft'[c] = n
    BY <1>1, <1>2 DEF n
  <2> QED
    BY <2>1, <2>2
<1>11. Onward
  <2>1. \A t \in Turns \ {c} : status'[t] \notin {"open", "prepared"}
    BY <1>9 DEF Locking
  <2>2. status'[c] = "prepared" =>
          status[c] = "prepared" /\ draft'[c].run = draft[c].run
    BY <1>1, <1>10 DEF d
  <2>3. \A t \in Turns : (status[t] # "idle" => status'[t] # "idle")
    BY <1>9, <1>10
  <2>4. status'[c] # "open"
    BY <1>10
  <2> QED
    BY <1>1, <1>8, <2>1, <2>2, <2>3, <2>4 DEF Onward
<1>12. Records' /\ Marks'
  BY <1>2, <1>8, <1>11, RecordsSame
<1>13. Exclusive'
  BY <1>1, <1>4, <1>9 DEF Exclusive
<1>14. Basis'
  <2>1. \A t \in Turns \ {c} : status'[t] \notin Working
    BY <1>9 DEF Locking, Working
  <2>2. holder' # Compactor
    BY <1>1, <1>4, NamesAssumption
  <2>3. ASSUME status'[c] \in Working
        PROVE  Follows(draft'[c].base, row')
    <3>1. draft'[c].base = [d.base EXCEPT !.ckpt = c]
      BY <1>10, <2>3 DEF Working
    <3>2. /\ draft'[c].base.msgs = d.base.msgs /\ draft'[c].base.arch = d.base.arch
          /\ draft'[c].base.pending = d.base.pending /\ draft'[c].base.ckpt = c
      BY <1>2, <3>1 DEF Session
    <3> QED
      BY <1>5, <1>8, <3>2 DEF Follows
  <2> QED
    BY <2>1, <2>2, <2>3, BasisOf
<1>15. Loops'
  <2>1. \A t \in Turns \ {c} : status'[t] \notin {"open", "prepared"}
    BY <1>9 DEF Locking
  <2> QED
    BY <1>1, <1>5, <1>10, <2>1 DEF Loops
<1> QED
  BY <1>12, <1>13, <1>14, <1>15 DEF HInv

LEMMA SalvageHistory ==
  ASSUME IInv, HInv, NEW c \in Turns, Salvage(c)
  PROVE  HInv'
<1> DEFINE d == draft[c]
           p == IF d.ckpt = Nobody THEN Finished(d) ELSE Finished(Salvaged(d))
           m == Merged(p)
<1>1. /\ status[c] = "salvaging" /\ holder' = Nobody
      /\ \/ /\ Mergeable(p) /\ Commit(m)
            /\ status' = [status EXCEPT ![c] = "stopped"]
            /\ draft' = [draft EXCEPT ![c] = NoDraft]
         \/ /\ status' = [status EXCEPT ![c] = "refused"]
            /\ UNCHANGED <<row, draft>>
      /\ UNCHANGED <<source, inbox, delivered>>
  BY DEF Salvage, SetStatus, SetDraft, inputVars, countVars
<1>2. /\ Exclusive /\ Basis /\ Records /\ Marks /\ Loops /\ Versions /\ row \in Session
      /\ draft \in [Turns -> Draft] /\ status \in [Turns -> Statuses]
      /\ d \in Draft /\ Copy(d, gens, events)
  BY CopyIs DEF HInv, IInv, Drafts, TurnOK, Versions, Sound
<1>3. status[c] \in Locking /\ status[c] \in Working
  BY <1>1 DEF Locking, Working
<1>4. \A t \in Turns \ {c} : status[t] \notin Locking
  BY <1>2, <1>3, Alone
<1> HIDE DEF d
<1>5. Proposal(p) /\ p.base = d.base
  <2>1. p = Finished(d) \/ (d.ckpt # Nobody /\ p = Finished(Salvaged(d)))
    OBVIOUS
  <2> HIDE DEF p
  <2> QED
    BY <1>2, <2>1, KeptProposed
<1>6. /\ status'[c] \in {"stopped", "refused"}
      /\ \A t \in Turns \ {c} : status'[t] = status[t] /\ draft'[t] = draft[t]
  BY <1>1, <1>2
<1>7. \A t \in Turns : status'[t] \notin Locking /\ status'[t] \notin Working
  BY <1>4, <1>6 DEF Locking, Working
<1>8. Exclusive'
  BY <1>7 DEF Exclusive
<1>9. CASE UNCHANGED <<row, draft>>
  <2>1. \A t \in Turns : \/ status'[t] = status[t] /\ draft'[t] = draft[t]
                         \/ status'[t] \notin Working \cup {"idle"}
    BY <1>6 DEF Working
  <2> QED
    BY <1>1, <1>8, <1>9, <2>1, TurnsLeave, NamesAssumption
<1>10. ASSUME Mergeable(p), Commit(m), status' = [status EXCEPT ![c] = "stopped"]
       PROVE  HInv'
  <2>1. Adds(p) /\ \A x \in Range(p.msgs) :
                      \/ x \in Range(draft[c].msgs)
                      \/ Spoken(x, status', draft', delivered, inbox', p.ckpt)
    <3>1. CASE d.ckpt = Nobody
      <4>1. p.msgs = d.msgs /\ p.arch = d.arch
        BY <1>2, <3>1 DEF Finished, Draft
      <4> HIDE DEF p
      <4> QED
        BY <1>3, <1>5, <1>10, <4>1, SameAdds DEF d
    <3>2. CASE d.ckpt # Nobody
      <4>1. p \in {Salvaged(d), Finished(Salvaged(d))}
        BY <3>2
      <4> HIDE DEF p
      <4> QED
        BY <1>1, <1>10, <3>2, <4>1, SalvagedAdds DEF d
    <3> QED
      BY <3>1, <3>2
  <2> HIDE DEF p
  <2>2. /\ row'.msgs \in Seq(Message) /\ Distinct(row'.msgs)
        /\ Summarised(row'.msgs, row'.arch)
        /\ Range(row'.msgs) \subseteq Range(row.msgs) \cup Range(p.msgs)
        /\ row'.ckpt = p.ckpt /\ row'.ckpt \in {row.ckpt, Nobody}
    BY <1>3, <1>5, <1>10, <2>1, CommitAdds DEF d
  <2>3. Range(draft[c].msgs) \subseteq Range(row.msgs)
    BY <1>3, <1>5, <1>10, DraftKnows DEF d
  <2>4. Onward
    <3>1. \A t \in Turns : status'[t] \notin {"open", "prepared"}
      BY <1>7 DEF Locking
    <3>2. \A t \in Turns : status[t] # "idle" => status'[t] # "idle"
      BY <1>6
    <3> QED
      BY <1>1, <2>2, <3>1, <3>2 DEF Onward
  <2>5. \A x \in Range(row'.msgs) :
           x \in Range(row.msgs) \/ Spoken(x, status', draft', delivered', inbox', row'.ckpt)
    BY <1>1, <2>1, <2>2, <2>3
  <2>6. Records' /\ Marks'
    BY <1>2, <2>2, <2>4, <2>5, RecordsOn
  <2>7. Basis'
    BY <1>1, <1>7, NamesAssumption DEF Basis
  <2>8. Loops'
    <3>1. \A t \in Turns : status'[t] \notin {"open", "prepared"}
      BY <1>7 DEF Locking
    <3> QED
      BY <3>1 DEF Loops
  <2> QED
    BY <1>8, <2>6, <2>7, <2>8 DEF HInv
<1> QED
  BY <1>1, <1>9, <1>10

(* A turn's end: what it took from the inbox, its answer, its summary.     *)
LEMMA FinishHistory ==
  ASSUME IInv, HInv, NEW c \in Turns, NEW place \in Places, NEW n \in Nat, Finish(c, place, n)
  PROVE  HInv'
<1> DEFINE d == draft[c]
           out == Msg("out", c, d.base.gen)
           rows == Append(d.run, out)
           all == d.msgs \o rows
           at == IF place = "before_input" THEN Len(d.msgs) - 1 ELSE Len(d.msgs) + n
           mark == Msg("mark", at, d.base.gen)
           u == InsertAt(all, at + 1, mark)
<1>1. /\ status[c] = "prepared" /\ UNCHANGED <<source, inbox, delivered>>
  BY DEF Finish, inputVars, countVars
<1>2. /\ Exclusive /\ Records /\ Marks
      /\ draft \in [Turns -> Draft] /\ status \in [Turns -> Statuses]
      /\ d.base \in Session /\ d.msgs \in Seq(Message) /\ d.run \in Seq(Message)
      /\ d.msgs = d.base.msgs
  BY CopyIs DEF HInv, IInv, Drafts, TurnOK
<1>3. status[c] \in Locking /\ status[c] \in Working
  BY <1>1 DEF Locking, Working
<1>4. LoopOK(d.msgs, d.run, inbox)
  BY <1>1 DEF HInv, Loops
<1>5. PICK p : /\ SubmitDraft(c, p, "saved") /\ Proposal(p)
               /\ p.base = d.base /\ p.ckpt = Nobody /\ p.run = <<>>
               /\ p.consumed = Authors(d.run) \cap Followups
               /\ d.msgs # <<>> /\ at \in Len(d.msgs) - 1 .. Len(all)
               /\ \/ p.msgs = all /\ p.arch = d.arch
                  \/ p.msgs = u /\ p.arch = at
  BY FinishSubmits, ZenonT(90)
<1> HIDE DEF d
<1>6. out \in Message /\ out.what = "out" /\ out.by = c
  BY <1>2 DEF Msg, Message, Whats, Session
<1> HIDE DEF out
<1>7. /\ rows \in Seq(Message) /\ Distinct(rows) /\ Range(rows) = Range(d.run) \cup {out}
  <2>1. out \notin Range(d.run)
    BY <1>4, <1>6 DEF LoopOK, Range
  <2> QED
    BY <1>2, <1>4, <1>6, <2>1, AppendIs, DistinctAppend DEF LoopOK
<1> HIDE DEF rows
<1> DEFINE st == [status EXCEPT ![c] = "saved"]
           dr == [draft EXCEPT ![c] = p]
<1>8. \A t \in Turns : st[t] \notin {"open", "prepared"}
  <2>1. \A t \in Turns \ {c} : status[t] \notin Locking
    BY <1>2, <1>3, Alone
  <2> QED
    BY <1>2, <2>1 DEF Locking
<1>9. st[c] = "saved"
  BY <1>2
<1> HIDE DEF st, dr
<1>10. \A x \in Range(rows) :
         /\ x \notin Range(row.msgs) /\ x.what # "mark"
         /\ Spoken(x, st, dr, delivered, inbox', p.ckpt)
  <2>1. out \notin Range(row.msgs)
    BY <1>1, <1>2, <1>6 DEF Records, Spoken, Range
  <2>2. Spoken(out, st, dr, delivered, inbox', p.ckpt)
    BY <1>6, <1>8, <1>9 DEF Spoken
  <2>3. ASSUME NEW i \in DOMAIN d.run
        PROVE  /\ d.run[i] \notin Range(row.msgs) /\ d.run[i].what = "row"
               /\ Spoken(d.run[i], st, dr, delivered, inbox', p.ckpt)
    <3>1. d.run[i].what = "row" /\ d.run[i].by \in Followups \ inbox
      BY <1>4 DEF LoopOK
    <3>2. d.run[i].by \in Authors(d.run)
      BY DEF Authors
    <3>3. d.run[i] \notin Range(row.msgs)
      BY <1>1, <1>2, <3>1, <3>2 DEF Records, Spoken, Range, d
    <3>4. Spoken(d.run[i], st, dr, delivered, inbox', p.ckpt)
      BY <1>1, <1>8, <3>1 DEF Spoken
    <3> QED
      BY <3>1, <3>3, <3>4
  <2>4. ASSUME NEW x \in Range(d.run)
        PROVE  /\ x \notin Range(row.msgs) /\ x.what # "mark"
               /\ Spoken(x, st, dr, delivered, inbox', p.ckpt)
    BY <2>3 DEF Range
  <2> QED
    BY <1>6, <1>7, <2>1, <2>2, <2>4
<1>11. ASSUME Mergeable(p)
       PROVE  /\ Adds(p)
              /\ \A x \in Range(p.msgs) :
                   \/ x \in Range(draft[c].msgs)
                   \/ Spoken(x, st, dr, delivered, inbox', p.ckpt)
  <2>1. /\ Distinct(d.msgs) /\ Summarised(d.msgs, d.arch) /\ Range(d.msgs) \subseteq Range(row.msgs)
        /\ \A x \in Range(row.msgs) : x \in Range(d.msgs) \/ x.what = "delivery"
    BY <1>3, <1>5, <1>11, DraftKnows DEF d
  <2>2. Distinct(all) /\ Range(all) = Range(d.msgs) \cup Range(rows)
    <3>1. Range(d.msgs) \cap Range(rows) = {}
      BY <1>10, <2>1
    <3> QED
      BY <1>2, <1>7, <2>1, <3>1, DistinctJoin
  <2>3. all \in Seq(Message) /\ Len(all) = Len(d.msgs) + Len(rows)
        /\ DOMAIN all = 1 .. Len(d.msgs) + Len(rows)
        /\ Len(d.msgs) \in Nat /\ Len(rows) \in Nat /\ DOMAIN d.msgs = 1 .. Len(d.msgs)
        /\ DOMAIN rows = 1 .. Len(rows)
        /\ \A i \in 1 .. Len(d.msgs) + Len(rows) :
             all[i] = IF i <= Len(d.msgs) THEN d.msgs[i] ELSE rows[i - Len(d.msgs)]
    BY <1>2, <1>7, ConcatProperties
  <2> HIDE DEF all
  <2>4. \A i \in DOMAIN all : \/ i \in DOMAIN d.msgs /\ all[i] = d.msgs[i]
                              \/ i > Len(d.msgs) /\ all[i].what # "mark"
    <3> TAKE i \in DOMAIN all
    <3>1. CASE i > Len(d.msgs)
      <4>1. i - Len(d.msgs) \in DOMAIN rows /\ all[i] = rows[i - Len(d.msgs)]
        BY <2>3, <3>1
      <4>2. all[i] \in Range(rows)
        BY <4>1 DEF Range
      <4> QED
        BY <1>10, <3>1, <4>2
    <3>2. CASE i <= Len(d.msgs)
      BY <2>3, <3>2
    <3> QED
      BY <2>3, <3>1, <3>2
  <2>5. \A i \in DOMAIN d.msgs : i \in DOMAIN all /\ all[i] = d.msgs[i]
    BY <2>3
  <2>6. CASE p.msgs = all /\ p.arch = d.arch
    <3>1. Summarised(all, d.arch)
      <4>1. \A i \in DOMAIN all : all[i].what = "mark" => i \in DOMAIN d.msgs /\ all[i] = d.msgs[i]
        BY <2>4
      <4> QED
        BY <2>1, <2>5, <4>1 DEF Summarised
    <3>2. Range(p.msgs) \cap Range(row.msgs) \subseteq Range(p.base.msgs)
      BY <1>2, <1>5, <1>10, <2>2, <2>6
    <3> QED
      BY <1>10, <2>2, <2>6, <3>1, <3>2 DEF Adds, d
  <2>7. CASE p.msgs = u /\ p.arch = at
    <3>1. at \in 0 .. Len(all) /\ at >= Len(d.msgs) - 1 /\ Len(d.msgs) >= 1
      BY <1>2, <1>5, <2>3
    <3> HIDE DEF at
    <3>2. mark \in Message /\ mark.what = "mark" /\ mark.by = at
      BY <1>2, <3>1 DEF Msg, Message, Whats, Session
    <3> HIDE DEF mark
    <3>3. d.msgs[Len(d.msgs)].what # "mark"
      BY <1>4 DEF LoopOK
    <3>4. ASSUME NEW i \in DOMAIN all, all[i].what = "mark"
          PROVE  /\ all[i].by \in Nat /\ all[i].by < i /\ i < Len(d.msgs)
      <4>1. i \in DOMAIN d.msgs /\ all[i] = d.msgs[i]
        BY <2>4, <3>4
      <4>2. all[i].by \in Nat /\ all[i].by < i
        BY <2>1, <3>4, <4>1 DEF Summarised
      <4>3. i # Len(d.msgs)
        BY <3>3, <3>4, <4>1
      <4> QED
        BY <2>3, <4>1, <4>2, <4>3
    <3>5. /\ \A i \in 1 .. at : all[i].what = "mark" => all[i].by \in Nat /\ all[i].by < i
          /\ \A i \in at + 1 .. Len(all) : all[i].what # "mark"
      <4>1. \A i \in 1 .. at : i \in DOMAIN all
        BY <2>3, <3>1
      <4>2. \A i \in at + 1 .. Len(all) : i \in DOMAIN all /\ ~(i < Len(d.msgs))
        BY <2>3, <3>1
      <4> QED
        BY <3>4, <4>1, <4>2
    <3>6. mark \notin Range(all)
      <4>1. \A i \in DOMAIN all : all[i].what = "mark" => all[i].by # at
        BY <2>3, <3>1, <3>4
      <4> QED
        BY <3>2, <4>1 DEF Range
    <3>7. Summarised(u, at) /\ Distinct(u) /\ Range(u) = Range(all) \cup {mark}
      <4>1. all \in Seq(Message) /\ at \in 0 .. Len(all)
        BY <2>3, <3>1
      <4>2. /\ Summarised(u, at)
            /\ Distinct(all) /\ mark \notin Range(all) => Distinct(u)
            /\ Range(u) = Range(all) \cup {mark}
        BY <3>2, <3>5, <4>1, MarkInserted
      <4> HIDE DEF u
      <4> QED
        BY <2>2, <3>6, <4>2
    <3>8. mark \notin Range(row.msgs)
      <4>1. mark \notin Range(d.msgs)
        BY <2>2, <3>6
      <4> QED
        BY <2>1, <3>2, <4>1
    <3>9. Spoken(mark, st, dr, delivered, inbox', p.ckpt)
      BY <3>2 DEF Spoken
    <3> HIDE DEF u
    <3>10. Range(p.msgs) \cap Range(row.msgs) \subseteq Range(p.base.msgs)
      BY <1>2, <1>5, <1>10, <2>2, <2>7, <3>7, <3>8
    <3>11. Adds(p)
      BY <2>7, <3>7, <3>10 DEF Adds
    <3>12. \A x \in Range(p.msgs) : x \in Range(d.msgs) \/ x \in Range(rows) \/ x = mark
      BY <2>2, <2>7, <3>7
    <3> QED
      BY <1>10, <3>9, <3>11, <3>12 DEF d
  <2> QED
    BY <1>5, <2>6, <2>7
<1> QED
  BY <1>1, <1>5, <1>11, SubmitHistory DEF d, st, dr

-----------------------------------------------------------------------------
(* The theorems.                                                           *)

LEMMA HistoryInit == Init => HInv
<1> SUFFICES ASSUME Init  PROVE HInv
  OBVIOUS
<1>1. row.msgs = <<>> /\ row.arch = 0 /\ holder = Nobody /\ \A c \in Turns : status[c] = "idle"
  BY DEF Init, NoRow
<1>2. Records /\ Marks
  <2>1. DOMAIN row.msgs = {}
    BY <1>1
  <2> QED
    BY <1>1, <2>1 DEF Records, Marks, Distinct, Summarised
<1> QED
  BY <1>1, <1>2, NamesAssumption DEF HInv, Exclusive, Basis, Loops, Locking, Working

LEMMA HistoryNext == IInv /\ HInv /\ [Next]_vars => HInv'
<1> SUFFICES ASSUME IInv, HInv, [Next]_vars  PROVE HInv'
  OBVIOUS
<1>1. ASSUME NEW c \in Turns, Turn(c)  PROVE HInv'
  <2>1. CASE \E f \in Followups \cup {Nobody} : Prepare(c, f)
    BY <2>1, PrepareHistory
  <2>2. CASE \E f \in Followups : Inject(c, f)
    BY <2>2, InjectHistory
  <2>3. CASE \E cut \in BOOLEAN : Checkpoint(c, cut)
    BY <2>3, CheckpointHistory
  <2>4. ASSUME NEW place \in Places, NEW n \in 0 .. Cardinality(Followups) + 1,
               Finish(c, place, n)
        PROVE  HInv'
    <3>1. n \in Nat
      BY <2>4 DEF Finish
    <3> QED
      BY <2>4, <3>1, FinishHistory
  <2>5. CASE Open(c) \/ Restore(c) \/ CheckpointRefused(c) \/ Release(c)
    BY <2>5, OpenHistory, RestoreHistory, LeaveHistory
  <2> QED
    BY <1>1, <2>1, <2>2, <2>3, <2>4, <2>5 DEF Turn
<1>2. ASSUME Stopping  PROVE HInv'
  BY <1>2, LeaveHistory, OpenHistory, SalvageHistory, HeaderHistory DEF Stopping
<1>3. ASSUME Others  PROVE HInv'
  <2>1. CASE \E f \in Followups : QueueFollowup(f)
    BY <2>1, QueueHistory
  <2>2. CASE \E e \in Deliveries : ForeignDelivery(e)
    BY <2>2, DeliveryHistory
  <2>3. CASE \E e \in Deliveries, gen \in 1 .. gens : RecordDelivery(e, gen)
    BY <2>3, DeliveryHistory
  <2>4. CASE SetTitle
    BY <2>4, HeaderHistory
  <2>5. CASE Reset \/ Delete \/ ForeignReset \/ Evict
    BY <2>5, ReplaceHistory
  <2>6. CASE Restart
    BY <2>6, RestartHistory
  <2> QED
    BY <1>3, <2>1, <2>2, <2>3, <2>4, <2>5, <2>6 DEF Others
<1>4. ASSUME Compaction  PROVE HInv'
  BY <1>4, CompactionHistory, CompactCommitHistory DEF Compaction
<1>5. CASE UNCHANGED vars
  <2>1. UNCHANGED <<row, holder, status, draft, source, inbox, delivered>>
    BY <1>5 DEF vars, ownerVars, turnVars, inputVars, countVars
  <2> QED
    BY <2>1, OthersOn
<1> QED
  BY <1>1, <1>2, <1>3, <1>4, <1>5 DEF Next

(* The inductive invariant: while someone holds the lock the others only   *)
(* deliver, and every record tells of something that has happened and that *)
(* no turn has still before it.                                            *)
THEOREM HistoryInvariance == Spec => []HInv
<1>1. IInv /\ HInv /\ [Next]_vars => HInv'
  BY HistoryNext
<1> QED
  BY <1>1, HistoryInit, Invariance, PTL DEF Spec

(* Records that are kept in a history without repetition are each in it    *)
(* once and in their order.                                                *)
LEMMA KeptOnce ==
  ASSUME NEW a \in Seq(Message), NEW b \in Seq(Message), Keeps(a, b), Distinct(b)
  PROVE  OnceInOrder(a, b)
<1>1. PICK f \in [1 .. Len(a) -> 1 .. Len(b)] :
        /\ \A i \in 1 .. Len(a) : b[f[i]] = a[i]
        /\ \A i, j \in 1 .. Len(a) : i < j => f[i] < f[j]
  BY DEF Keeps
<1>2. DOMAIN a = 1 .. Len(a) /\ DOMAIN b = 1 .. Len(b) /\ Len(a) \in Nat /\ Len(b) \in Nat
  OBVIOUS
<1>3. \A i \in DOMAIN a : f[i] \in DOMAIN b /\ b[f[i]] = a[i]
  BY <1>1, <1>2
<1>4. \A k, l \in DOMAIN b : k < l => b[k] # b[l]
  BY <1>2 DEF Distinct
<1>5. ASSUME NEW j \in DOMAIN a
      PROVE  \E l \in DOMAIN b :
               a[j] = b[l] /\ \A i \in 1 .. j - 1 : \E k \in 1 .. l - 1 : a[i] = b[k]
  <2>0. \A i \in 1 .. j - 1 : i \in 1 .. Len(a) /\ i < j /\ j \in 1 .. Len(a)
    BY <1>2
  <2>1. \A i \in 1 .. j - 1 : /\ i \in DOMAIN a /\ f[i] < f[j]
                              /\ f[i] \in DOMAIN b /\ f[j] \in DOMAIN b
    BY <1>1, <1>2, <1>3, <2>0
  <2>2. \A i \in 1 .. j - 1 : f[i] \in 1 .. f[j] - 1 /\ a[i] = b[f[i]]
    BY <1>2, <1>3, <2>1
  <2> QED
    BY <1>3, <2>2
<1> QED
  BY <1>4, <1>5 DEF OnceInOrder

(* While a generation lives no record of it is lost, doubled or moved      *)
(* behind a later one, and no title is taken back: not by a turn that a    *)
(* delivery overtook, not by a checkpoint that is restored, not by a       *)
(* summary (_apply_turn, restore_runtime_checkpoint, commit_summary).      *)
THEOREM NothingDoubled == Spec => HistoryKept
<1>1. IInv /\ IInv' /\ HInv' /\ [Next]_vars =>
        (SameLife => OnceInOrder(row.msgs, row'.msgs) /\ row.title <= row'.title)
  <2> SUFFICES ASSUME IInv, IInv', HInv', [Next]_vars, SameLife
               PROVE  OnceInOrder(row.msgs, row'.msgs) /\ row.title <= row'.title
    OBVIOUS
  <2>1. row.gen <= gens /\ row.gen \in Nat /\ gens \in Nat
    BY DEF IInv, Versions, Sound, Session
  <2>2. Keeps(row.msgs, row'.msgs) /\ row.title <= row'.title
    BY <2>1, NextKeeps DEF Moved, SameLife
  <2>3. row.msgs \in Seq(Message) /\ row'.msgs \in Seq(Message)
    BY DEF IInv, Versions, Sound, Session
  <2>4. Distinct(row'.msgs)
    BY DEF HInv, Records
  <2> QED
    BY <2>2, <2>3, <2>4, KeptOnce
<1> QED
  BY <1>1, Invariance, HistoryInvariance, PTL DEF Spec, HistoryKept

(* Replay begins at the marker of the last summary, when that marker was   *)
(* committed where its draft had it, and what is archived is what the last *)
(* marker says, whatever was delivered meanwhile (get_history).            *)
THEOREM SummaryReplaces == Spec => []SummaryInPlace
<1>1. IInv /\ HInv => SummaryInPlace
  <2> SUFFICES ASSUME IInv, HInv  PROVE SummaryInPlace
    OBVIOUS
  <2> DEFINE h == row.msgs
             N == {0} \cup {i \in DOMAIN h : h[i].what = "mark"}
             mark == NewestMark(row)
  <2>1. /\ h \in Seq(Message) /\ Summarised(h, row.arch) /\ row.arch \in Nat
        /\ DOMAIN h = 1 .. Len(h) /\ Len(h) \in Nat
    BY DEF HInv, Marks, IInv, Versions, Sound, Session
  <2>2. mark \in N /\ \A i \in N : i <= mark
    <3>1. N \in SUBSET (0 .. Len(h)) /\ N # {}
      BY <2>1
    <3> HIDE DEF N
    <3>2. Max(N) \in N /\ \A i \in N : i <= Max(N)
      BY <2>1, <3>1, MaxBounded
    <3> QED
      BY <3>2 DEF NewestMark, N, h
  <2> HIDE DEF h, mark
  <2>3. mark > 0 \/ row.arch > 0 =>
          mark \in DOMAIN h /\ h[mark].what = "mark" /\ h[mark].by = row.arch
    <3> SUFFICES ASSUME mark > 0 \/ row.arch > 0
                 PROVE  mark \in DOMAIN h /\ h[mark].what = "mark" /\ h[mark].by = row.arch
      OBVIOUS
    <3>1. row.arch > 0 \/ \E i \in DOMAIN h : h[i].what = "mark"
      BY <2>2
    <3>2. PICK k \in DOMAIN h : /\ h[k].what = "mark" /\ h[k].by = row.arch
                                /\ \A i \in DOMAIN h : i > k => h[i].what # "mark"
      BY <2>1, <3>1 DEF Summarised
    <3>3. k <= mark /\ k > 0
      BY <2>1, <2>2, <3>2
    <3>4. mark \in DOMAIN h /\ h[mark].what = "mark"
      BY <2>1, <2>2, <3>3
    <3>5. mark = k
      BY <2>1, <3>2, <3>3, <3>4
    <3> QED
      BY <3>2, <3>5
  <2>4. row.arch > 0 => mark > 0
    BY <2>1, <2>3
  <2>5. ASSUME mark > 0, h[mark].by = mark - 1
        PROVE  ReplayStart(row) = mark
    <3> DEFINE users == {i \in row.arch + 1 .. Len(h) : h[i].what \in FromUser}
    <3>1. mark \in users /\ \A i \in users : mark <= i
      BY <2>1, <2>3, <2>5 DEF FromUser
    <3>2. \A i \in users : i \in Nat
      BY <2>1
    <3>3. Min(users) \in users /\ \A i \in users : Min(users) <= i
      BY <3>1 DEF Min
    <3>4. users # {} /\ Min(users) = mark /\ mark = row.arch + 1
      <4> HIDE DEF users
      <4>1. Min(users) = mark
        BY <3>1, <3>2, <3>3
      <4> QED
        BY <2>1, <2>3, <2>5, <3>1, <4>1
    <3>5. ReplayStart(row) = IF users = {} THEN row.arch + 1
                             ELSE IF Min(users) > row.arch + 1 /\ h[Min(users) - 1].what = "delivery"
                               THEN Min(users) - 1 ELSE Min(users)
      BY DEF ReplayStart, h
    <3> HIDE DEF users
    <3> QED
      BY <2>1, <3>4, <3>5
  <2>6. mark > 0 /\ h[mark].by = mark - 1 => Replaced(mark)
    <3>1. mark \in Nat
      BY <2>1, <2>2
    <3> QED
      BY <2>5, <3>1 DEF Replaced
  <2> QED
    BY <2>4, <2>6 DEF SummaryInPlace, h, mark
<1> QED
  BY <1>1, Invariance, HistoryInvariance, PTL
=============================================================================
