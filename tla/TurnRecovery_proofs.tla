------------------------ MODULE TurnRecovery_proofs ------------------------
(***************************************************************************)
(* What the recovery of interrupted turns promises, for any number of      *)
(* messages, clicks, batches and faults.                                   *)
(***************************************************************************)
EXTENDS TurnRecovery, SequenceTheorems, FiniteSetTheorems, TLAPS

Message == [kind : {"input", "resume", "stop"}, n : Nat]

CheckpointType ==
  [of : Nat, k : Nat,
   phase : {"none", "awaiting_tools", "tools_completed", "final_response"}]

RowType ==
  [what : {"user", "answer", "tools", "cut", "closing"}, of : Nat, k : Nat]

StateType ==
  [status : {"none", "resuming", "awaiting_user", "failed", "recovered"},
   id : Nat, at : Nat, can : BOOLEAN,
   reason : {"other", "model", "dismissed"}, count : Nat]

Session ==
  [state : StateType, pending : BOOLEAN, ckpt : CheckpointType, hist : Seq(RowType)]

(* A draft that was read and not yet changed: the history still holds what *)
(* was read, and a state that is given now is newer.                       *)
Unchanged(d) ==
  /\ d \in [base : Session, cur : Session]
  /\ d.cur = d.base
  /\ Range(d.base.hist) \subseteq Range(row.hist) /\ d.base.state.at \in 0 .. clock

(* Where the worker is in a turn. *)
InTurn == {"restore", "prepare", "run"}
WithDraft == {"admit", "completed", "salvage"}
WithMessage == {"admit", "open", "complete", "completed", "salvage"}

TurnType == [pc : InTurn, msg : Message, turn : Nat, ckpt : CheckpointType,
             draft : [base : Session, cur : Session]]

WorkerOK ==
  /\ worker.pc \in InTurn \cup WithMessage \cup {"none", "head"}
  /\ worker.pc \in WithMessage => worker.msg \in Message
  /\ worker.pc \in WithDraft => Unchanged(worker.draft)
  /\ worker.pc \in InTurn => worker \in TurnType /\ Unchanged(worker.draft)
  /\ worker.pc = "prepare" => worker.msg.kind # "resume"

Handed == [pc : {"admit", "waiting"}, msg : Message, draft : [base : Session, cur : Session]]

ConsumerOK ==
  /\ consumer.pc \in {"idle", "stopping", "admit", "waiting", "put"}
  /\ consumer.pc \in {"admit", "waiting"} => consumer \in Handed /\ Unchanged(consumer.draft)
  /\ consumer.pc = "put" => consumer.msg \in Message
  /\ consumer.pc \in {"waiting", "put"} => consumer.msg.kind = "input"

ClicksOK ==
  /\ DOMAIN click = Clickers
  /\ \A c \in Clickers :
       /\ click[c].pc \in {"idle", "dismiss", "continue", "queue"}
       /\ click[c].pc \in {"dismiss", "continue"} => Unchanged(click[c].draft)
       /\ click[c].pc = "queue" => click[c].id \in Nat

RowOK ==
  /\ row \in Session
  /\ row.state.id <= ids /\ row.state.at <= clock
  /\ row.state.status = "failed" => ~row.state.can

Counters ==
  /\ up \in BOOLEAN /\ tail \in BOOLEAN /\ registered \in BOOLEAN /\ cancelled \in BOOLEAN
  /\ sent \in Nat /\ ids \in Nat /\ clock \in Nat /\ turns \in Nat
  /\ offers \subseteq 0 .. ids /\ latest \in CheckpointType

Types ==
  /\ RowOK /\ bus \in Seq(Message) /\ inbox \in Seq(Message)
  /\ WorkerOK /\ ConsumerOK /\ ClicksOK /\ Counters

(* Nothing outlives the gateway but the row and the transcript.            *)
Down ==
  ~up => /\ bus = <<>> /\ inbox = <<>> /\ consumer = Idle /\ worker = NoWorker
         /\ \A c \in Clickers : click[c] = Idle

(* The running turn knows the checkpoint that is in the row, if one is.    *)
TurnCheckpoint ==
  worker.pc \in InTurn =>
    /\ row.ckpt \in {worker.draft.base.ckpt, NoCheckpoint}
    /\ worker.pc # "restore" => worker.draft.base.ckpt = worker.ckpt
    /\ worker.pc # "run" => worker.ckpt = NoCheckpoint
    /\ worker.ckpt.phase = "none" => worker.ckpt = NoCheckpoint
    /\ worker.ckpt.phase \in {"awaiting_tools", "tools_completed"} => worker.ckpt.k >= 1

(* The permits to continue an interruption, and where they are: clicks     *)
(* that were confirmed, messages on their way, the one the worker decides. *)
Permit(m) == IF m.kind = "resume" THEN {m.n} ELSE {}
Permits(ms) == UNION {Permit(ms[i]) : i \in DOMAIN ms}
Once(ms) == \A i, j \in DOMAIN ms : i # j => Permit(ms[i]) \cap Permit(ms[j]) = {}

OfConsumer == IF consumer.pc = "admit" THEN Permit(consumer.msg) ELSE {}
OfWorker == IF worker.pc = "admit" THEN Permit(worker.msg) ELSE {}
OfClick(c) == IF click[c].pc = "queue" THEN {click[c].id} ELSE {}
OfClicks == UNION {OfClick(c) : c \in Clickers}

(* There is one permit for an interruption, whatever was clicked.          *)
Single ==
  /\ Once(bus) /\ Once(inbox)
  /\ \A c, e \in Clickers : c # e => OfClick(c) \cap OfClick(e) = {}
  /\ Permits(bus) \cap Permits(inbox) = {} /\ Permits(bus) \cap OfConsumer = {}
  /\ Permits(bus) \cap OfWorker = {} /\ Permits(inbox) \cap OfConsumer = {}
  /\ Permits(inbox) \cap OfWorker = {} /\ OfConsumer \cap OfWorker = {}
  /\ OfClicks \cap (Permits(bus) \cup Permits(inbox) \cup OfConsumer \cup OfWorker) = {}

Outstanding == OfClicks \cup Permits(bus) \cup Permits(inbox) \cup OfConsumer \cup OfWorker

(* An interruption that was offered is open until its permit is used, and  *)
(* is not offered again while the permit is under way.                     *)
Offered ==
  /\ Outstanding \subseteq offers
  /\ row.state.status = "awaiting_user" => row.state.id \in offers \ Outstanding

(* An input that will be routed without asking for the recovery again.     *)
LateInput ==
  \/ consumer.pc = "put"
  \/ /\ consumer.pc = "admit" /\ consumer.msg.kind = "input"
     /\ consumer.draft.cur.state.status \notin Waiting

(* A permit that a newer input overtook is no longer current.              *)
Overtaken ==
  \A p \in DOMAIN inbox :
    /\ inbox[p].kind = "resume"
    /\ LateInput \/ \E q \in DOMAIN inbox : q > p /\ inbox[q].kind = "input"
    => ~Confirmed(row, inbox[p])

Continuing ==
  /\ worker.pc \in {"admit", "open"} \cup InTurn /\ worker.msg.kind = "resume"
  /\ worker.pc = "admit" => Confirmed(worker.draft.cur, worker.msg)

(* A continuation that runs is registered, and either its state is still   *)
(* confirmed or the user dismissed it.                                     *)
Fresh ==
  Continuing /\ ~cancelled =>
    /\ registered
    /\ \/ row.state.status = "resuming" /\ ~LateInput /\ Numbers(inbox) = {}
       \/ row.state.status = "recovered" /\ row.state.reason = "dismissed"

IInv ==
  Types /\ Down /\ TurnCheckpoint /\ LatestKept /\ Single /\ Offered /\ Overtaken /\ Fresh

-----------------------------------------------------------------------------
(* Sequences.                                                              *)

LEMMA Appended ==
  ASSUME NEW S, NEW h \in Seq(S), NEW x \in S
  PROVE  Append(h, x) = h \o <<x>> /\ <<x>> \in Seq(S) /\ Append(h, x) \in Seq(S)
OBVIOUS

(* What a history is extended by is what it grew by.                       *)
LEMMA GrownIs ==
  ASSUME NEW S, NEW h \in Seq(S), NEW s \in Seq(S)
  PROVE  /\ h \o s \in Seq(S) /\ Len(h \o s) = Len(h) + Len(s)
         /\ SubSeq(h \o s, Len(h) + 1, Len(h \o s)) = s
<1> DEFINE u == h \o s
           v == SubSeq(u, Len(h) + 1, Len(u))
<1>1. /\ u \in Seq(S) /\ Len(u) = Len(h) + Len(s)
      /\ \A i \in 1 .. Len(h) + Len(s) : u[i] = IF i <= Len(h) THEN h[i] ELSE s[i - Len(h)]
  BY ConcatProperties
<1> HIDE DEF u
<1>2. Len(h) + 1 \in 1 .. Len(u) + 1 /\ Len(u) \in Len(h) + 1 - 1 .. Len(u)
  BY <1>1
<1>3. /\ v \in Seq(S) /\ Len(v) = Len(u) - (Len(h) + 1) + 1
      /\ \A i \in 1 .. Len(u) - (Len(h) + 1) + 1 : v[i] = u[Len(h) + 1 + i - 1]
  <2>1. \A i \in Len(h) + 1 .. Len(u) : u[i] \in S
    BY <1>1, ElementOfSeq
  <2>2. Len(h) + 1 \in Int /\ Len(u) \in Int
    BY <1>1
  <2> QED
    BY <1>1, <1>2, <2>1, <2>2, SubSeqProperties
<1> HIDE DEF v
<1>4. Len(v) = Len(s)
  BY <1>1, <1>3
<1>5. \A i \in 1 .. Len(s) : v[i] = s[i]
  <2> TAKE i \in 1 .. Len(s)
  <2>1. v[i] = u[Len(h) + 1 + i - 1]
    BY <1>1, <1>3
  <2>2. Len(h) + 1 + i - 1 = Len(h) + i
    OBVIOUS
  <2>3. Len(h) + i \in 1 .. Len(h) + Len(s) /\ ~(Len(h) + i <= Len(h)) /\ Len(h) + i - Len(h) = i
    OBVIOUS
  <2>4. u[Len(h) + i] = s[i]
    BY <1>1, <2>3
  <2> QED
    BY <2>1, <2>2, <2>4
<1>6. v = s
  BY <1>3, <1>4, <1>5, SeqEqual
<1> QED
  BY <1>1, <1>6 DEF u, v

LEMMA RangeJoined ==
  ASSUME NEW S, NEW h \in Seq(S), NEW s \in Seq(S)
  PROVE  Range(h \o s) = Range(h) \cup Range(s)
<1> DEFINE u == h \o s
<1>1. /\ u \in Seq(S) /\ Len(u) = Len(h) + Len(s)
      /\ \A i \in 1 .. Len(h) + Len(s) : u[i] = IF i <= Len(h) THEN h[i] ELSE s[i - Len(h)]
  BY ConcatProperties
<1> HIDE DEF u
<1>2. DOMAIN u = 1 .. Len(h) + Len(s) /\ DOMAIN h = 1 .. Len(h) /\ DOMAIN s = 1 .. Len(s)
  BY <1>1
<1>3. Range(u) \subseteq Range(h) \cup Range(s)
  <2>1. ASSUME NEW i \in 1 .. Len(h) + Len(s)  PROVE u[i] \in Range(h) \cup Range(s)
    <3>1. CASE i <= Len(h)
      BY <1>1, <1>2, <3>1 DEF Range
    <3>2. CASE i > Len(h)
      <4>1. i - Len(h) \in 1 .. Len(s) /\ u[i] = s[i - Len(h)]
        BY <1>1, <3>2
      <4> QED
        BY <1>2, <4>1 DEF Range
    <3> QED
      BY <3>1, <3>2
  <2> QED
    BY <1>2, <2>1 DEF Range
<1>4. Range(h) \subseteq Range(u)
  <2>1. \A i \in 1 .. Len(h) : i \in 1 .. Len(h) + Len(s) /\ u[i] = h[i]
    BY <1>1
  <2> QED
    BY <1>2, <2>1 DEF Range
<1>5. Range(s) \subseteq Range(u)
  <2>1. ASSUME NEW i \in 1 .. Len(s)  PROVE s[i] \in Range(u)
    <3>1. /\ Len(h) + i \in 1 .. Len(h) + Len(s) /\ ~(Len(h) + i <= Len(h))
          /\ Len(h) + i - Len(h) = i
      OBVIOUS
    <3>2. u[Len(h) + i] = s[i]
      BY <1>1, <3>1
    <3> QED
      BY <1>2, <3>1, <3>2 DEF Range
  <2> QED
    BY <1>2, <2>1 DEF Range
<1> QED
  BY <1>3, <1>4, <1>5 DEF u

(* What a queue of messages carries.                                       *)
LEMMA PermitsAppended ==
  ASSUME NEW ms \in Seq(Message), NEW m \in Message
  PROVE  /\ Append(ms, m) \in Seq(Message)
         /\ Permits(Append(ms, m)) = Permits(ms) \cup Permit(m)
         /\ Once(ms) /\ Permits(ms) \cap Permit(m) = {} => Once(Append(ms, m))
         /\ Numbers(Append(ms, m)) = Numbers(ms) \cup (IF m.kind = "input" THEN {m.n} ELSE {})
<1> DEFINE u == Append(ms, m)
<1>1. /\ u \in Seq(Message) /\ Len(u) = Len(ms) + 1
      /\ \A i \in 1 .. Len(ms) : u[i] = ms[i]
      /\ u[Len(ms) + 1] = m
  BY AppendProperties
<1> HIDE DEF u
<1>2. DOMAIN u = DOMAIN ms \cup {Len(ms) + 1} /\ DOMAIN ms = 1 .. Len(ms)
  BY <1>1
<1>3. \A i \in DOMAIN u : (i \in DOMAIN ms /\ u[i] = ms[i]) \/ (i = Len(ms) + 1 /\ u[i] = m)
  BY <1>1, <1>2
<1>4. \A i \in DOMAIN ms : i \in DOMAIN u /\ u[i] = ms[i] /\ i # Len(ms) + 1
  BY <1>1, <1>2
<1>5. Permits(u) = Permits(ms) \cup Permit(m)
  BY <1>1, <1>2, <1>3, <1>4 DEF Permits
<1>6. Once(ms) /\ Permits(ms) \cap Permit(m) = {} => Once(u)
  BY <1>3 DEF Permits, Once
<1>7. Numbers(u) = Numbers(ms) \cup (IF m.kind = "input" THEN {m.n} ELSE {})
  BY <1>1, <1>2, <1>3, <1>4 DEF Numbers
<1> QED
  BY <1>1, <1>5, <1>6, <1>7 DEF u

LEMMA PermitsTaken ==
  ASSUME NEW ms \in Seq(Message), ms # <<>>
  PROVE  /\ Head(ms) \in Message /\ Tail(ms) \in Seq(Message) /\ 1 \in DOMAIN ms
         /\ Head(ms) = ms[1]
         /\ DOMAIN Tail(ms) = 1 .. Len(ms) - 1
         /\ \A i \in DOMAIN Tail(ms) : i + 1 \in DOMAIN ms /\ Tail(ms)[i] = ms[i + 1]
         /\ Permits(ms) = Permit(Head(ms)) \cup Permits(Tail(ms))
         /\ Once(ms) => Once(Tail(ms)) /\ Permit(Head(ms)) \cap Permits(Tail(ms)) = {}
<1> DEFINE t == Tail(ms)
<1>1. /\ Len(ms) \in Nat /\ Len(ms) >= 1 /\ DOMAIN ms = 1 .. Len(ms)
      /\ Head(ms) = ms[1] /\ ms[1] \in Message
      /\ t \in Seq(Message) /\ Len(t) = Len(ms) - 1
      /\ \A i \in 1 .. Len(t) : t[i] = ms[i + 1]
  BY EmptySeq, HeadTailProperties
<1> HIDE DEF t
<1>2. DOMAIN t = 1 .. Len(ms) - 1 /\ 1 \in DOMAIN ms
  BY <1>1
<1>3. \A i \in DOMAIN t : i + 1 \in DOMAIN ms /\ t[i] = ms[i + 1] /\ i + 1 # 1
  BY <1>1, <1>2
<1>4. \A i \in DOMAIN ms : i = 1 \/ (i - 1 \in DOMAIN t /\ t[i - 1] = ms[i])
  <2> TAKE i \in DOMAIN ms
  <2>1. CASE i # 1
    <3>1. i - 1 \in 1 .. Len(t) /\ i - 1 + 1 = i
      BY <1>1, <2>1
    <3> QED
      BY <1>1, <1>2, <3>1
  <2> QED
    BY <2>1
<1>5. Permits(ms) = Permit(Head(ms)) \cup Permits(t)
  <2>1. Permits(ms) \subseteq Permit(Head(ms)) \cup Permits(t)
    BY <1>1, <1>4 DEF Permits
  <2>2. Permits(t) \subseteq Permits(ms) /\ Permit(Head(ms)) \subseteq Permits(ms)
    BY <1>1, <1>2, <1>3 DEF Permits
  <2> QED
    BY <2>1, <2>2
<1>6. Once(ms) => Once(t) /\ Permit(Head(ms)) \cap Permits(t) = {}
  <2>1. SUFFICES ASSUME Once(ms)  PROVE Once(t) /\ Permit(Head(ms)) \cap Permits(t) = {}
    OBVIOUS
  <2>2. \A i, j \in DOMAIN t : i # j => i + 1 # j + 1
    BY <1>2
  <2>3. Once(t)
    BY <1>3, <2>1, <2>2 DEF Once
  <2>4. \A i \in DOMAIN t : Permit(ms[1]) \cap Permit(t[i]) = {}
    BY <1>2, <1>3, <2>1 DEF Once
  <2> QED
    BY <1>1, <2>3, <2>4 DEF Permits
<1> QED
  BY <1>1, <1>2, <1>3, <1>5, <1>6 DEF t

LEMMA PermitsOfFew ==
  /\ <<>> \in Seq(Message) /\ Permits(<<>>) = {} /\ Once(<<>>) /\ Numbers(<<>>) = {}
  /\ \A m \in Message : <<m>> \in Seq(Message) /\ Permits(<<m>>) = Permit(m) /\ Once(<<m>>)
<1>1. <<>> \in Seq(Message) /\ DOMAIN <<>> = {}
  OBVIOUS
<1>2. \A m \in Message : <<m>> \in Seq(Message) /\ DOMAIN <<m>> = {1} /\ <<m>>[1] = m
  OBVIOUS
<1> QED
  BY <1>1, <1>2 DEF Permits, Once, Numbers

-----------------------------------------------------------------------------
(* Drafts and their commits.                                               *)

(* What the parties make of the row they read: they extend the history,    *)
(* and drop the checkpoint only for the row it stands for.                 *)
Amends(cur, r) ==
  /\ cur \in Session
  /\ \E s \in Seq(RowType) : cur.hist = r.hist \o s
  /\ cur.ckpt \in {r.ckpt, NoCheckpoint}
  /\ cur.ckpt # r.ckpt => RowOf(r.ckpt) \in Range(cur.hist)

LEMMA Kinds ==
  /\ NoCheckpoint \in CheckpointType
  /\ \A c \in CheckpointType : RowOf(c) \in RowType
  /\ \A what \in {"user", "answer", "tools", "cut", "closing"}, of, k \in Nat :
       Row(what, of, k) \in RowType
  /\ Closing \in RowType
BY DEF NoCheckpoint, CheckpointType, RowOf, Row, RowType, Closing

LEMMA NoGrowth ==
  ASSUME NEW h \in Seq(RowType)
  PROVE  <<>> \in Seq(RowType) /\ h = h \o <<>>
BY ConcatEmptySeq

(* Two extensions of a history are one.                                    *)
LEMMA Extended ==
  ASSUME NEW h \in Seq(RowType), NEW s \in Seq(RowType), NEW t \in Seq(RowType)
  PROVE  s \o t \in Seq(RowType) /\ (h \o s) \o t = h \o (s \o t)
BY ConcatAssociative

LEMMA SessionIs ==
  ASSUME NEW f, f = [x \in {"state", "pending", "ckpt", "hist"} |-> f[x]],
         f.state \in StateType, f.pending \in BOOLEAN, f.ckpt \in CheckpointType,
         f.hist \in Seq(RowType)
  PROVE  f \in Session
BY DEF Session

LEMMA MergedIs ==
  ASSUME row \in Session, NEW d \in [base : Session, cur : Session],
         NEW s \in Seq(RowType), d.cur.hist = d.base.hist \o s
  PROVE  /\ Merged(d) \in Session
         /\ Merged(d).hist = row.hist \o s
         /\ Merged(d).state = IF d.cur.state # d.base.state THEN d.cur.state ELSE row.state
         /\ Merged(d).ckpt = IF d.cur.ckpt # d.base.ckpt THEN d.cur.ckpt ELSE row.ckpt
<1>1. DOMAIN row = {"state", "pending", "ckpt", "hist"}
  BY DEF Session
<1>2. d.base \in Session /\ d.cur \in Session
  OBVIOUS
<1>3. d.base.hist \in Seq(RowType) /\ row.hist \in Seq(RowType)
  BY <1>2 DEF Session
<1>4. Grown(d) = s
  BY <1>3, GrownIs, ZenonT(90) DEF Grown
<1>5. row.hist \o s \in Seq(RowType)
  BY <1>3, GrownIs
<1> DEFINE m == Merged(d)
<1>6. m = [x \in {"state", "pending", "ckpt", "hist"} |->
             IF x = "hist" THEN row.hist \o Grown(d)
             ELSE IF d.cur[x] # d.base[x] THEN d.cur[x] ELSE row[x]]
  BY <1>1 DEF Merged
<1> HIDE DEF m
<1>7. /\ m.hist = row.hist \o s
      /\ m.state = IF d.cur.state # d.base.state THEN d.cur.state ELSE row.state
      /\ m.ckpt = IF d.cur.ckpt # d.base.ckpt THEN d.cur.ckpt ELSE row.ckpt
      /\ m.pending = IF d.cur.pending # d.base.pending THEN d.cur.pending ELSE row.pending
  BY <1>4, <1>6
<1>8. m = [x \in {"state", "pending", "ckpt", "hist"} |-> m[x]]
  BY <1>6
<1>9. m.state \in StateType /\ m.pending \in BOOLEAN /\ m.ckpt \in CheckpointType
  BY <1>2, <1>7 DEF Session
<1>10. m \in Session
  <2>1. m.hist \in Seq(RowType)
    BY <1>5, <1>7
  <2> QED
    BY <1>8, <1>9, <2>1, SessionIs
<1> QED
  BY <1>7, <1>10 DEF m

(* A commit that is not refused: the history has grown, the checkpoint is  *)
(* the one that was there or is in the history, and a new recovery state   *)
(* replaces the one that was read.                                         *)
RowKept ==
  /\ row' \in Session
  /\ Range(row.hist) \subseteq Range(row'.hist)
  /\ row'.ckpt \in {row.ckpt, NoCheckpoint}
  /\ row'.ckpt # row.ckpt => RowOf(row.ckpt) \in Range(row'.hist)

LEMMA Committed ==
  ASSUME row \in Session, clock \in Nat, row.state.at <= clock,
         NEW d, Unchanged(d), NEW cur, Amends(cur, d.base),
         cur.state # d.base.state => cur.state.at = clock + 1,
         ~Clash(Changed(d, cur)), Commit(Changed(d, cur))
  PROVE  /\ RowKept
         /\ cur.ckpt # d.base.ckpt => row'.ckpt = NoCheckpoint
         /\ cur.state = d.base.state => row'.state = row.state
         /\ cur.state # d.base.state => row.state = d.base.state /\ row'.state = cur.state
         /\ clock' \in Nat /\ clock' >= clock /\ row'.state.at <= clock'
<1> DEFINE e == Changed(d, cur)
<1>1. /\ d \in [base : Session, cur : Session] /\ d.cur = d.base
      /\ Range(d.base.hist) \subseteq Range(row.hist) /\ cur \in Session
  BY DEF Unchanged, Amends
<1>2. e \in [base : Session, cur : Session] /\ e.base = d.base /\ e.cur = cur
  BY <1>1 DEF Changed
<1>3. ~Clash(e) /\ Commit(e)
  OBVIOUS
<1> HIDE DEF e
<1>4. PICK s \in Seq(RowType) : e.cur.hist = e.base.hist \o s
  BY <1>2 DEF Amends
<1>5. row' = Merged(e) /\ clock' = IF e.cur.state.at > clock THEN e.cur.state.at ELSE clock
  BY <1>3 DEF Commit
<1>6. /\ row' \in Session
      /\ row'.hist = row.hist \o s
      /\ row'.state = IF e.cur.state # e.base.state THEN e.cur.state ELSE row.state
      /\ row'.ckpt = IF e.cur.ckpt # e.base.ckpt THEN e.cur.ckpt ELSE row.ckpt
  BY <1>2, <1>4, <1>5, MergedIs
<1>7. row.hist \in Seq(RowType) /\ e.base.hist \in Seq(RowType)
  BY <1>2 DEF Session
<1>8. /\ Range(row'.hist) = Range(row.hist) \cup Range(s)
      /\ Range(e.cur.hist) = Range(e.base.hist) \cup Range(s)
  BY <1>4, <1>6, <1>7, RangeJoined
<1>9. /\ e.cur.ckpt # e.base.ckpt => row.ckpt \in {e.base.ckpt, e.cur.ckpt}
      /\ e.cur.state # e.base.state => row.state \in {e.base.state, e.cur.state}
  BY <1>3 DEF Clash
<1>10. /\ e.cur.ckpt \in {e.base.ckpt, NoCheckpoint}
       /\ e.cur.ckpt # e.base.ckpt => RowOf(e.base.ckpt) \in Range(e.cur.hist)
  BY <1>2 DEF Amends
<1>11. RowKept
  BY <1>1, <1>2, <1>6, <1>8, <1>9, <1>10 DEF RowKept
<1>12. e.cur.state # e.base.state => row.state = e.base.state
  BY <1>2, <1>9
<1>13. clock' \in Nat /\ clock' >= clock /\ row'.state.at <= clock'
  <2>1. e.cur.state.at \in Nat /\ row.state.at \in Nat
    BY <1>2 DEF Session, StateType
  <2> QED
    BY <1>5, <1>6, <2>1
<1> QED
  BY <1>2, <1>6, <1>10, <1>11, <1>12, <1>13

(* What session/recovery.py does to a draft.                               *)
LEMMA RestoredIs ==
  ASSUME NEW r \in Session
  PROVE  Amends(Restored(r), r) /\ Restored(r).state = r.state /\ Restored(r).ckpt = NoCheckpoint
<1>1. /\ r.hist \in Seq(RowType) /\ RowOf(r.ckpt) \in RowType /\ NoCheckpoint \in CheckpointType
      /\ r.ckpt \in CheckpointType
  BY Kinds DEF Session
<1>2. CASE r.ckpt = NoCheckpoint
  <2>1. Restored(r) = r
    BY <1>2 DEF Restored
  <2> QED
    BY <1>1, <1>2, <2>1, NoGrowth DEF Amends
<1>3. CASE r.ckpt # NoCheckpoint
  <2> DEFINE h == IF r.hist # <<>> /\ Last(r.hist) = RowOf(r.ckpt) THEN r.hist
                  ELSE Append(r.hist, RowOf(r.ckpt))
             s == IF r.hist # <<>> /\ Last(r.hist) = RowOf(r.ckpt) THEN <<>>
                  ELSE <<RowOf(r.ckpt)>>
             q == Restored(r)
  <2>1. q = [r EXCEPT !.hist = h, !.ckpt = NoCheckpoint, !.pending = FALSE]
    BY <1>3 DEF Restored
  <2>2. s \in Seq(RowType) /\ h = r.hist \o s /\ h \in Seq(RowType)
    BY <1>1, NoGrowth, Appended
  <2>3. RowOf(r.ckpt) \in Range(h)
    <3>1. CASE r.hist # <<>> /\ Last(r.hist) = RowOf(r.ckpt)
      <4>1. Len(r.hist) \in DOMAIN r.hist
        BY <1>1, <3>1
      <4> QED
        BY <3>1, <4>1 DEF Last, Range
    <3>2. CASE ~(r.hist # <<>> /\ Last(r.hist) = RowOf(r.ckpt))
      <4>1. h = Append(r.hist, RowOf(r.ckpt))
        BY <3>2
      <4>2. h[Len(r.hist) + 1] = RowOf(r.ckpt) /\ Len(r.hist) + 1 \in DOMAIN h
        BY <1>1, <4>1, AppendProperties
      <4> HIDE DEF h
      <4> QED
        BY <4>2 DEF Range
    <3> QED
      BY <3>1, <3>2
  <2> HIDE DEF h, s
  <2>4. /\ q \in Session /\ q.state = r.state /\ q.ckpt = NoCheckpoint /\ q.hist = h
    BY <1>1, <2>1, <2>2 DEF Session
  <2> HIDE DEF q
  <2>5. Amends(q, r)
    BY <2>2, <2>3, <2>4 DEF Amends
  <2> QED
    BY <2>4, <2>5 DEF q
<1> QED
  BY <1>2, <1>3

(* Closing rows are appended, and nothing else is changed that matters.    *)
Extends(q, r) ==
  /\ q \in Session
  /\ \E s \in Seq(RowType) : q.hist = r.hist \o s
  /\ q.ckpt = r.ckpt /\ q.state = r.state

LEMMA ExtendsAmended ==
  ASSUME NEW r \in Session, NEW p, NEW q, Amends(p, r), Extends(q, p)
  PROVE  Amends(q, r) /\ q.state = p.state /\ q.ckpt = p.ckpt
<1>1. PICK s \in Seq(RowType) : p.hist = r.hist \o s
  BY DEF Amends
<1>2. PICK t \in Seq(RowType) : q.hist = p.hist \o t
  BY DEF Extends
<1>3. r.hist \in Seq(RowType) /\ p.hist \in Seq(RowType)
  BY DEF Session, Amends
<1>4. s \o t \in Seq(RowType) /\ q.hist = r.hist \o (s \o t)
  <2>1. s \o t \in Seq(RowType) /\ (r.hist \o s) \o t = r.hist \o (s \o t)
    BY <1>3, Extended, ZenonT(90)
  <2>2. q.hist = (r.hist \o s) \o t
    BY <1>1, <1>2
  <2> QED
    BY <2>1, <2>2
<1>5. Range(q.hist) = Range(p.hist) \cup Range(t)
  BY <1>2, <1>3, RangeJoined
<1> QED
  BY <1>4, <1>5 DEF Amends, Extends

LEMMA InterruptedIs ==
  ASSUME NEW r \in Session
  PROVE  Extends(Interrupted(r), r)
<1>1. r.hist \in Seq(RowType) /\ Closing \in RowType
  BY Kinds DEF Session
<1> DEFINE c == r.pending /\ r.hist # <<>> /\ Last(r.hist).what = "user"
           h == IF c THEN Append(r.hist, Closing) ELSE r.hist
           s == IF c THEN <<Closing>> ELSE <<>>
           q == Interrupted(r)
<1>2. q = [r EXCEPT !.hist = h, !.pending = FALSE]
  BY DEF Interrupted
<1>3. s \in Seq(RowType) /\ h = r.hist \o s /\ h \in Seq(RowType)
  BY <1>1, NoGrowth, Appended
<1> HIDE DEF h, s
<1>4. q \in Session /\ q.hist = h /\ q.ckpt = r.ckpt /\ q.state = r.state
  BY <1>2, <1>3 DEF Session
<1> HIDE DEF q
<1> QED
  <2>1. Extends(q, r)
    BY <1>3, <1>4 DEF Extends
  <2> QED
    BY <2>1 DEF q

LEMMA ClosedIs ==
  ASSUME NEW r \in Session
  PROVE  Extends(Closed(r), r)
<1>1. r.hist \in Seq(RowType) /\ Closing \in RowType
  BY Kinds DEF Session
<1> DEFINE c == r.hist # <<>> /\ Last(r.hist).what \in {"cut", "closing"}
           h == IF c THEN r.hist ELSE Append(r.hist, Closing)
           s == IF c THEN <<>> ELSE <<Closing>>
           q == Closed(r)
<1>2. q = [r EXCEPT !.hist = h]
  BY DEF Closed
<1>3. s \in Seq(RowType) /\ h = r.hist \o s /\ h \in Seq(RowType)
  BY <1>1, NoGrowth, Appended
<1> HIDE DEF h, s
<1>4. q \in Session /\ q.hist = h /\ q.ckpt = r.ckpt /\ q.state = r.state
  BY <1>2, <1>3 DEF Session
<1> HIDE DEF q
<1> QED
  <2>1. Extends(q, r)
    BY <1>3, <1>4 DEF Extends
  <2> QED
    BY <2>1 DEF q

(* A new recovery state changes nothing else.                              *)
LEMMA StateGiven ==
  ASSUME NEW r \in Session, NEW p, Amends(p, r), NEW st \in StateType
  PROVE  /\ Amends([p EXCEPT !.state = st], r)
         /\ [p EXCEPT !.state = st].state = st
         /\ [p EXCEPT !.state = st].ckpt = p.ckpt
<1> DEFINE q == [p EXCEPT !.state = st]
<1>1. p \in Session
  BY DEF Amends
<1>2. q \in Session /\ q.state = st /\ q.ckpt = p.ckpt /\ q.hist = p.hist
  BY <1>1 DEF Session
<1> HIDE DEF q
<1>3. Amends(q, r)
  BY <1>2 DEF Amends
<1> QED
  BY <1>2, <1>3 DEF q

LEMMA AmendsItself ==
  ASSUME NEW r \in Session
  PROVE  Amends(r, r)
<1>1. r.hist \in Seq(RowType)
  BY DEF Session
<1> QED
  BY <1>1, NoGrowth DEF Amends

LEMMA BecomeIs ==
  ASSUME clock \in Nat, NEW r \in Session, NEW p, Amends(p, r), p.state = r.state,
         NEW status \in {"none", "resuming", "awaiting_user", "failed", "recovered"}
  PROVE  LET q == Become(p, status) IN
         /\ Amends(q, r) /\ q.ckpt = p.ckpt
         /\ q.state.status = status /\ q.state.id = r.state.id /\ q.state.at = clock + 1
         /\ q.state.reason = "other"
<1> DEFINE st == State(status, p.state.id, TRUE, "other", 0)
           q == Become(p, status)
<1>1. r.state.id \in Nat
  BY DEF Session, StateType
<1>2. /\ st \in StateType /\ st.status = status /\ st.id = r.state.id /\ st.at = clock + 1
      /\ st.reason = "other"
  BY <1>1 DEF State, StateType
<1>3. q = [p EXCEPT !.state = st]
  BY DEF Become
<1> HIDE DEF st
<1>4. Amends(q, r) /\ q.state = st /\ q.ckpt = p.ckpt
  BY <1>2, <1>3, StateGiven
<1> HIDE DEF q
<1>5. /\ Amends(q, r) /\ q.ckpt = p.ckpt
      /\ q.state.status = status /\ q.state.id = r.state.id /\ q.state.at = clock + 1
      /\ q.state.reason = "other"
  BY <1>2, <1>4
<1> QED
  BY <1>5 DEF q

LEMMA SupersededIs ==
  ASSUME clock \in Nat, NEW r \in Session
  PROVE  LET q == Superseded(r) IN
         /\ Amends(q, r) /\ q.state.status = "recovered" /\ q.state.at = clock + 1
         /\ q.state.id = r.state.id /\ q.state.reason = "other"
<1> DEFINE p == IF r.state.reason = "model" THEN r
                ELSE IF Restored(r).pending THEN Interrupted(Restored(r))
                ELSE Closed(Restored(r))
<1>1. Amends(p, r) /\ p.state = r.state
  <2>1. Amends(Restored(r), r) /\ Restored(r).state = r.state /\ Restored(r) \in Session
    BY RestoredIs DEF Amends
  <2>2. Amends(Interrupted(Restored(r)), r) /\ Interrupted(Restored(r)).state = r.state
    <3>1. Extends(Interrupted(Restored(r)), Restored(r))
      BY <2>1, InterruptedIs
    <3> QED
      BY <2>1, <3>1, ExtendsAmended
  <2>3. Amends(Closed(Restored(r)), r) /\ Closed(Restored(r)).state = r.state
    <3>1. Extends(Closed(Restored(r)), Restored(r))
      BY <2>1, ClosedIs
    <3> QED
      BY <2>1, <3>1, ExtendsAmended
  <2> QED
    BY <2>2, <2>3, AmendsItself
<1>2. Superseded(r) = Become(p, "recovered")
  BY DEF Superseded
<1> HIDE DEF p
<1> QED
  BY <1>1, <1>2, BecomeIs

-----------------------------------------------------------------------------
(* What a step leaves alone.                                               *)

Onward ==
  /\ Range(row.hist) \subseteq Range(row'.hist)
  /\ clock \in Nat /\ clock' \in Nat /\ clock' >= clock

LEMMA DraftsStay ==
  ASSUME Onward
  PROVE  /\ ConsumerOK /\ consumer' = consumer => ConsumerOK'
         /\ ClicksOK /\ click' = click => ClicksOK'
         /\ WorkerOK /\ worker' = worker => WorkerOK'
<1>1. ASSUME ConsumerOK, consumer' = consumer  PROVE ConsumerOK'
  BY <1>1 DEF ConsumerOK, Unchanged, Onward
<1>2. ASSUME ClicksOK, click' = click  PROVE ClicksOK'
  BY <1>2 DEF ClicksOK, Unchanged, Onward
<1>3. ASSUME WorkerOK, worker' = worker  PROVE WorkerOK'
  BY <1>3 DEF WorkerOK, Unchanged, Onward
<1> QED
  BY <1>1, <1>2, <1>3

LEMMA SameRow ==
  ASSUME row \in Session, row' = row
  PROVE  RowKept
BY DEF RowKept

(* Where a draft just read is as good as the row.                          *)
LEMMA ReadIs ==
  ASSUME RowOK, Counters, row' = row, clock' = clock
  PROVE  /\ Read \in [base : Session, cur : Session] /\ Read.cur = row /\ Read.base = row
         /\ Unchanged(Read)'
<1>1. row \in Session /\ row.state.at \in 0 .. clock
  BY DEF RowOK, Counters, Session, StateType
<1> QED
  BY <1>1 DEF Read, Unchanged

LEMMA TurnCheckpointStays ==
  ASSUME TurnCheckpoint, worker' = worker \/ worker'.pc \notin InTurn,
         row'.ckpt \in {row.ckpt, NoCheckpoint}
  PROVE  TurnCheckpoint'
<1>1. CASE worker' = worker
  BY <1>1 DEF TurnCheckpoint
<1>2. CASE worker'.pc \notin InTurn
  BY <1>2 DEF TurnCheckpoint
<1> QED
  BY <1>1, <1>2

LEMMA LatestStays ==
  ASSUME LatestKept, RowKept, latest' = latest
  PROVE  LatestKept'
BY DEF LatestKept, RowKept

(* Permits are not multiplied.                                             *)
Fewer ==
  /\ Once(bus') /\ Once(inbox')
  /\ Permits(bus') \subseteq Permits(bus) /\ Permits(inbox') \subseteq Permits(inbox)
  /\ OfConsumer' \subseteq OfConsumer /\ OfWorker' \subseteq OfWorker
  /\ \A c \in Clickers : OfClick(c)' \subseteq OfClick(c)

LEMMA FewerKeeps ==
  ASSUME Single, Fewer
  PROVE  Single' /\ Outstanding' \subseteq Outstanding
<1>1. OfClicks' \subseteq OfClicks
  BY DEF Fewer, OfClicks
<1>2. Outstanding' \subseteq Outstanding
  BY <1>1 DEF Fewer, Outstanding
<1>3. \A c, e \in Clickers : c # e => OfClick(c)' \cap OfClick(e)' = {}
  BY DEF Fewer, Single
<1>4. Single'
  BY <1>1, <1>3 DEF Fewer, Single
<1> QED
  BY <1>2, <1>4

LEMMA OfferedStays ==
  ASSUME Offered, Outstanding' \subseteq Outstanding, offers' = offers,
         row'.state = row.state \/ row'.state.status # "awaiting_user"
  PROVE  Offered'
BY DEF Offered

LEMMA OvertakenStays ==
  ASSUME Overtaken, inbox' = inbox,
         \/ row'.state.status # "resuming"
         \/ row'.state = row.state /\ (LateInput' => LateInput)
  PROVE  Overtaken'
<1>1. CASE row'.state.status # "resuming"
  BY <1>1 DEF Overtaken, Confirmed
<1>2. CASE row'.state = row.state /\ (LateInput' => LateInput)
  BY <1>2 DEF Overtaken, Confirmed
<1> QED
  BY <1>1, <1>2

LEMMA FreshStays ==
  ASSUME Fresh, Continuing' => Continuing, registered => registered',
         cancelled => cancelled',
         \/ /\ row'.state = row.state
            /\ row.state.status = "resuming" /\ ~LateInput /\ Numbers(inbox) = {}
               => ~LateInput' /\ Numbers(inbox') = {}
         \/ row'.state.status = "recovered" /\ row'.state.reason = "dismissed"
  PROVE  Fresh'
BY DEF Fresh

LEMMA SameWorker ==
  ASSUME worker' = worker
  PROVE  (Continuing' <=> Continuing) /\ OfWorker' = OfWorker
BY DEF Continuing, OfWorker

LEMMA SameConsumer ==
  ASSUME consumer' = consumer
  PROVE  (LateInput' <=> LateInput) /\ OfConsumer' = OfConsumer
BY DEF LateInput, OfConsumer

LEMMA SameClicks ==
  ASSUME click' = click
  PROVE  \A c \in Clickers : OfClick(c)' = OfClick(c)
BY DEF OfClick

(* Together.                                                               *)
LEMMA Kept ==
  ASSUME IInv, Types', up', RowKept, latest' = latest,
         worker' = worker \/ worker'.pc \notin InTurn,
         Fewer, offers' = offers,
         row'.state = row.state \/ row'.state.status # "awaiting_user",
         Overtaken', Fresh'
  PROVE  IInv'
<1> USE DEF IInv
<1>1. Down'
  BY DEF Down
<1>2. TurnCheckpoint'
  BY TurnCheckpointStays DEF RowKept
<1>3. LatestKept'
  BY LatestStays
<1>4. Single' /\ Offered'
  BY FewerKeeps, OfferedStays
<1> QED
  BY <1>1, <1>2, <1>3, <1>4

-----------------------------------------------------------------------------
(* Steps that leave the row alone.                                         *)

Quiet == UNCHANGED <<row, clock, ids, offers, latest>>

LEMMA QuietRow ==
  ASSUME RowOK, Counters, Quiet
  PROVE  RowOK' /\ RowKept /\ row'.state = row.state /\ Onward
BY SameRow DEF RowOK, Counters, Quiet, Onward

LEMMA QuietCounters ==
  ASSUME Counters, Quiet, up' \in BOOLEAN, tail' \in BOOLEAN, registered' \in BOOLEAN,
         cancelled' \in BOOLEAN, sent' \in Nat, turns' \in Nat
  PROVE  Counters'
BY DEF Counters, Quiet

(* What enters the bus, leaves it, or is put into the inbox.               *)
LEMMA BusExtended ==
  ASSUME bus \in Seq(Message), NEW m \in Message, bus' = Append(bus, m), Permit(m) = {},
         Once(bus)
  PROVE  bus' \in Seq(Message) /\ Once(bus') /\ Permits(bus') \subseteq Permits(bus)
BY PermitsAppended

LEMMA SendKeeps ==
  ASSUME IInv, Send
  PROVE  IInv'
<1> USE DEF IInv
<1>1. Quiet /\ UNCHANGED <<inbox, consumer, worker, click, up, registered, cancelled>>
  BY DEF Send, Quiet
<1>2. RowOK' /\ RowKept /\ row'.state = row.state /\ Onward
  BY <1>1, QuietRow DEF Types
<1>3. up' /\ tail' = FALSE /\ UNCHANGED turns
  BY DEF Send
<1>4. sent' \in Nat
  BY DEF Send, Types, Counters
<1>5. Input(sent') \in Message /\ Permit(Input(sent')) = {} /\ bus' = Append(bus, Input(sent'))
  BY <1>4 DEF Send, Input, Message, Permit
<1>6. bus' \in Seq(Message) /\ Once(bus') /\ Permits(bus') \subseteq Permits(bus)
  BY <1>5, BusExtended DEF Types, Single
<1>7. Counters'
  BY <1>1, <1>3, <1>4, QuietCounters DEF Types, Counters
<1>8. Types'
  BY <1>1, <1>2, <1>6, <1>7, DraftsStay DEF Types
<1>9. Fewer
  BY <1>1, <1>6, SameWorker, SameConsumer, SameClicks DEF Fewer, Single
<1>10. Overtaken' /\ Fresh'
  BY <1>1, <1>2, SameWorker, SameConsumer, OvertakenStays, FreshStays
<1> QED
  BY <1>1, <1>2, <1>3, <1>8, <1>9, <1>10, Kept DEF Quiet

LEMMA SendStopKeeps ==
  ASSUME IInv, SendStop
  PROVE  IInv'
<1> USE DEF IInv
<1>1. Quiet /\ UNCHANGED <<inbox, consumer, worker, click, up, registered, cancelled>>
  BY DEF SendStop, Quiet, history
<1>2. RowOK' /\ RowKept /\ row'.state = row.state /\ Onward
  BY <1>1, QuietRow DEF Types
<1>3. up' /\ UNCHANGED <<sent, tail, turns>>
  BY DEF SendStop, history
<1>4. Stop \in Message /\ Permit(Stop) = {} /\ bus' = Append(bus, Stop)
  BY <1>3 DEF SendStop, Stop, Message, Permit
<1>5. bus' \in Seq(Message) /\ Once(bus') /\ Permits(bus') \subseteq Permits(bus)
  BY <1>4, BusExtended DEF Types, Single
<1>6. Counters'
  BY <1>1, <1>3, QuietCounters DEF Types, Counters
<1>7. Types'
  BY <1>1, <1>2, <1>5, <1>6, DraftsStay DEF Types
<1>8. Fewer
  BY <1>1, <1>5, SameWorker, SameConsumer, SameClicks DEF Fewer, Single
<1>9. Overtaken' /\ Fresh'
  BY <1>1, <1>2, SameWorker, SameConsumer, OvertakenStays, FreshStays
<1> QED
  BY <1>1, <1>2, <1>3, <1>7, <1>8, <1>9, Kept DEF Quiet

LEMMA ClickKeeps ==
  ASSUME IInv, NEW c \in Clickers, NEW action \in {"dismiss", "continue"}, Click(c, action)
  PROVE  IInv'
<1> USE DEF IInv
<1>1. /\ Quiet /\ UNCHANGED <<bus, inbox, consumer, worker, up, registered, cancelled>>
      /\ click' = [click EXCEPT ![c] = [pc |-> action, draft |-> Read]] /\ up'
  BY DEF Click, Quiet, history
<1>2. RowOK' /\ RowKept /\ row'.state = row.state /\ Onward
  BY <1>1, QuietRow DEF Types
<1>3. Counters'
  <2>1. UNCHANGED <<sent, tail, turns>>
    BY DEF Click, history
  <2> QED
    BY <1>1, <2>1, QuietCounters DEF Types, Counters
<1>4. ClicksOK'
  <2>1. Unchanged(Read)'
    BY <1>1, ReadIs DEF Types, Quiet
  <2>2. Read' = Read
    BY <1>1 DEF Read, Quiet
  <2>3. DOMAIN click' = Clickers
    BY <1>1 DEF Types, ClicksOK
  <2>4. /\ click'[c].pc = action
        /\ click'[c].draft = Read
    BY <1>1 DEF Types, ClicksOK
  <2>5. ASSUME NEW e \in Clickers, e # c  PROVE click'[e] = click[e]
    BY <1>1, <2>5 DEF Types, ClicksOK
  <2>6. ASSUME NEW e \in Clickers, e # c
        PROVE  /\ click'[e].pc \in {"idle", "dismiss", "continue", "queue"}
               /\ click'[e].pc \in {"dismiss", "continue"} => Unchanged(click[e].draft)'
               /\ click'[e].pc = "queue" => click'[e].id \in Nat
    BY <1>2, <2>5, <2>6 DEF Types, ClicksOK, Unchanged, Onward
  <2> QED
    BY <2>1, <2>2, <2>3, <2>4, <2>6 DEF ClicksOK, Unchanged, Onward
<1>5. Types'
  BY <1>1, <1>2, <1>3, <1>4, DraftsStay DEF Types
<1>6. Fewer
  <2>1. \A e \in Clickers : OfClick(e)' \subseteq OfClick(e)
    BY <1>1 DEF OfClick, Types, ClicksOK
  <2> QED
    BY <1>1, <2>1, SameWorker, SameConsumer DEF Fewer, Single
<1>7. Overtaken' /\ Fresh'
  BY <1>1, <1>2, SameWorker, SameConsumer, OvertakenStays, FreshStays
<1> QED
  BY <1>1, <1>2, <1>5, <1>6, <1>7, Kept DEF Quiet

(* A permit that moves is not held twice: from a click into the bus, ...   *)
LEMMA QueueContinuationKeeps ==
  ASSUME IInv, NEW c \in Clickers, QueueContinuation(c)
  PROVE  IInv'
<1> USE DEF IInv
<1> DEFINE m == Resume(click[c].id)
<1>1. /\ Quiet /\ UNCHANGED <<inbox, consumer, worker, up, registered, cancelled>>
      /\ UNCHANGED <<sent, tail, turns>>
      /\ bus' = Append(bus, m) /\ click' = [click EXCEPT ![c] = Idle]
      /\ click[c].pc = "queue" /\ click[c].id \in Nat
  BY DEF QueueContinuation, Quiet, history, Types, ClicksOK
<1>2. RowOK' /\ RowKept /\ row'.state = row.state /\ Onward
  BY <1>1, QuietRow DEF Types
<1>3. Counters'
  BY <1>1, QuietCounters DEF Types, Counters
<1>4. m \in Message /\ Permit(m) = {click[c].id} /\ OfClick(c) = {click[c].id}
  BY <1>1 DEF Resume, Message, Permit, OfClick
<1>5. /\ OfClick(c)' = {}
      /\ \A e \in Clickers : e # c => OfClick(e)' = OfClick(e)
      /\ ClicksOK'
  <2>1. click'[c] = Idle /\ \A e \in Clickers : e # c => click'[e] = click[e]
    BY <1>1 DEF Types, ClicksOK
  <2>2. DOMAIN click' = Clickers
    BY <1>1 DEF Types, ClicksOK
  <2>3. OfClick(c)' = {} /\ \A e \in Clickers : e # c => OfClick(e)' = OfClick(e)
    BY <2>1 DEF OfClick, Idle
  <2>4. ASSUME NEW e \in Clickers, e # c
        PROVE  /\ click'[e].pc \in {"idle", "dismiss", "continue", "queue"}
               /\ click'[e].pc \in {"dismiss", "continue"} => Unchanged(click[e].draft)'
               /\ click'[e].pc = "queue" => click'[e].id \in Nat
    BY <1>2, <2>1, <2>4 DEF Types, ClicksOK, Unchanged, Onward
  <2>5. ClicksOK'
    BY <2>1, <2>2, <2>4 DEF ClicksOK, Unchanged, Idle
  <2> QED
    BY <2>3, <2>5
<1> HIDE DEF m
<1>6. Permits(bus) \cap Permit(m) = {} /\ Permit(m) \subseteq OfClicks
  BY <1>4 DEF Single, OfClicks
<1>7. bus' \in Seq(Message) /\ Once(bus') /\ Permits(bus') = Permits(bus) \cup Permit(m)
  BY <1>1, <1>4, <1>6, PermitsAppended DEF Types, Single
<1>8. Types'
  BY <1>1, <1>2, <1>3, <1>5, <1>7, DraftsStay DEF Types
<1>9. OfClicks' \subseteq OfClicks /\ OfClicks' \cap Permit(m) = {}
  <2>1. \A e \in Clickers : e # c => OfClick(e) \cap Permit(m) = {}
    BY <1>4 DEF Single
  <2> QED
    BY <1>5, <2>1 DEF OfClicks
<1>10. Permits(inbox') = Permits(inbox) /\ OfConsumer' = OfConsumer /\ OfWorker' = OfWorker
  BY <1>1, SameWorker, SameConsumer
<1>11. Outstanding' \subseteq Outstanding
  BY <1>6, <1>7, <1>9, <1>10 DEF Outstanding
<1>12. Single'
  <2>1. \A e, f \in Clickers : e # f => OfClick(e)' \cap OfClick(f)' = {}
    BY <1>5 DEF Single
  <2>2. Once(inbox')
    BY <1>1 DEF Single
  <2>3. /\ Permit(m) \cap Permits(inbox) = {} /\ Permit(m) \cap OfConsumer = {}
        /\ Permit(m) \cap OfWorker = {}
    BY <1>6 DEF Single
  <2> QED
    BY <1>6, <1>7, <1>9, <1>10, <2>1, <2>2, <2>3 DEF Single
<1>13. Offered'
  BY <1>1, <1>2, <1>11, OfferedStays DEF Quiet
<1>14. Overtaken' /\ Fresh'
  BY <1>1, <1>2, SameWorker, SameConsumer, OvertakenStays, FreshStays
<1>15. Down'
  BY <1>1 DEF Down, Idle
<1>16. TurnCheckpoint' /\ LatestKept'
  BY <1>1, <1>2, TurnCheckpointStays, LatestStays DEF RowKept, Quiet
<1> QED
  BY <1>8, <1>12, <1>13, <1>14, <1>15, <1>16

LEMMA PutIs ==
  ASSUME Types, Once(inbox), NEW m \in Message, Put(m),
         Permits(inbox) \cap Permit(m) = {}, row' = row, clock' = clock
  PROVE  /\ inbox' \in Seq(Message) /\ Once(inbox')
         /\ Permits(inbox') \subseteq Permits(inbox) \cup Permit(m)
         /\ m.kind # "input" /\ Numbers(inbox) = {} => Numbers(inbox') = {}
         /\ worker' = worker \/ worker'.pc = "head"
         /\ WorkerOK' /\ OfWorker' = OfWorker /\ (Continuing' => Continuing)
<1>1. CASE worker.pc = "none"
  <2>1. inbox' = <<m>> /\ worker' = [pc |-> "head"]
    BY <1>1 DEF Put
  <2>2. worker'.pc = "head"
    BY <2>1
  <2>3. WorkerOK' /\ ~Continuing' /\ OfWorker' = {} /\ OfWorker = {}
    BY <1>1, <2>2 DEF WorkerOK, InTurn, WithMessage, WithDraft, Continuing, OfWorker
  <2>4. Numbers(<<m>>) = {} \/ m.kind = "input"
    BY DEF Numbers
  <2>5. <<m>> \in Seq(Message) /\ Permits(<<m>>) = Permit(m) /\ Once(<<m>>)
    BY PermitsOfFew
  <2> QED
    BY <2>1, <2>2, <2>3, <2>4, <2>5
<1>2. CASE worker.pc # "none"
  <2>1. inbox' = Append(inbox, m) /\ worker' = worker /\ inbox \in Seq(Message)
    BY <1>2 DEF Put, Types
  <2>2. Onward
    BY DEF Onward, Types, Counters
  <2>3. WorkerOK'
    BY <2>1, <2>2, DraftsStay DEF Types
  <2> QED
    BY <2>1, <2>3, PermitsAppended, SameWorker
<1> QED
  BY <1>1, <1>2

(* An input is put behind a permit only when the permit is spent.          *)
LEMMA OvertakenPut ==
  ASSUME Types, Overtaken, NEW m \in Message, Put(m), row' = row, ~LateInput',
         m.kind = "input" => LateInput
  PROVE  Overtaken'
<1> SUFFICES ASSUME NEW p \in DOMAIN inbox', inbox'[p].kind = "resume",
                    NEW q \in DOMAIN inbox', q > p, inbox'[q].kind = "input"
             PROVE  ~Confirmed(row, inbox'[p])
  BY DEF Overtaken
<1>1. worker.pc # "none" /\ inbox' = Append(inbox, m)
  <2>1. CASE worker.pc = "none"
    <3>1. inbox' = <<m>>
      BY <2>1 DEF Put
    <3>2. p = 1 /\ q = 1
      BY <3>1
    <3> QED
      BY <3>2
  <2> QED
    BY <2>1 DEF Put
<1>2. /\ DOMAIN inbox' = 1 .. Len(inbox) + 1 /\ DOMAIN inbox = 1 .. Len(inbox)
      /\ Len(inbox) \in Nat
      /\ \A i \in DOMAIN inbox : inbox'[i] = inbox[i]
      /\ inbox'[Len(inbox) + 1] = m
  BY <1>1, AppendProperties DEF Types
<1>3. p \in DOMAIN inbox
  BY <1>2
<1>4. CASE q \in DOMAIN inbox
  BY <1>2, <1>3, <1>4 DEF Overtaken
<1>5. CASE q = Len(inbox) + 1
  BY <1>2, <1>3, <1>5 DEF Overtaken
<1> QED
  BY <1>2, <1>4, <1>5

LEMMA StoppedKeeps ==
  ASSUME IInv, Stopped
  PROVE  IInv'
<1> USE DEF IInv
<1>1. /\ Quiet /\ UNCHANGED <<bus, inbox, worker, click, up, registered, cancelled>>
      /\ UNCHANGED <<sent, tail, turns>> /\ consumer.pc = "stopping" /\ consumer' = Idle
  BY DEF Stopped, Quiet, consumerFrame
<1>2. RowOK' /\ RowKept /\ row'.state = row.state /\ Onward
  BY <1>1, QuietRow DEF Types
<1>3. Counters'
  BY <1>1, QuietCounters DEF Types, Counters
<1>4. ConsumerOK' /\ OfConsumer' = {} /\ ~LateInput'
  BY <1>1 DEF ConsumerOK, Idle, OfConsumer, LateInput
<1>5. Types'
  BY <1>1, <1>2, <1>3, <1>4, DraftsStay DEF Types
<1>6. Fewer
  BY <1>1, <1>4, SameWorker, SameClicks DEF Fewer, Single
<1>7. Overtaken' /\ Fresh'
  BY <1>1, <1>2, <1>4, SameWorker, OvertakenStays, FreshStays
<1>8. up'
  BY <1>1 DEF Down, Idle
<1> QED
  BY <1>1, <1>2, <1>5, <1>6, <1>7, <1>8, Kept DEF Quiet

LEMMA AdmitInputKeeps ==
  ASSUME IInv, AdmitInput
  PROVE  IInv'
<1> USE DEF IInv
<1>1. /\ Quiet /\ UNCHANGED <<bus, click, up, registered, cancelled>>
      /\ UNCHANGED <<sent, tail, turns>> /\ consumer.pc = "admit" /\ consumer' = Idle
      /\ consumer.msg.kind = "input" /\ LateInput /\ Put(consumer.msg)
  BY DEF AdmitInput, Quiet, consumerFrame, LateInput
<1>2. RowOK' /\ RowKept /\ row'.state = row.state /\ Onward
  BY <1>1, QuietRow DEF Types
<1>3. Counters'
  BY <1>1, QuietCounters DEF Types, Counters
<1>4. ConsumerOK' /\ OfConsumer' = {} /\ ~LateInput'
  BY <1>1 DEF ConsumerOK, Idle, OfConsumer, LateInput
<1>5. consumer.msg \in Message /\ Permit(consumer.msg) = {}
  BY <1>1 DEF Types, ConsumerOK, Handed, Permit
<1>6. row' = row /\ clock' = clock
  BY <1>1 DEF Quiet
<1>7. /\ inbox' \in Seq(Message) /\ Once(inbox') /\ Permits(inbox') \subseteq Permits(inbox)
      /\ worker' = worker \/ worker'.pc = "head"
      /\ WorkerOK' /\ OfWorker' = OfWorker /\ (Continuing' => Continuing)
  BY <1>1, <1>5, <1>6, PutIs DEF Single
<1>8. Types'
  BY <1>1, <1>2, <1>3, <1>4, <1>7, DraftsStay DEF Types
<1>9. Fewer
  BY <1>1, <1>4, <1>7, SameClicks DEF Fewer, Single
<1>10. Overtaken'
  BY <1>1, <1>4, <1>5, <1>6, OvertakenPut
<1>11. Fresh'
  BY <1>1, <1>2, <1>7, FreshStays
<1>12. up'
  BY <1>1 DEF Down, Idle
<1>13. worker' = worker \/ worker'.pc \notin InTurn
  BY <1>7 DEF InTurn
<1> QED
  BY <1>1, <1>2, <1>8, <1>9, <1>10, <1>11, <1>12, <1>13, Kept DEF Quiet

LEMMA PutInputKeeps ==
  ASSUME IInv, PutInput
  PROVE  IInv'
<1> USE DEF IInv
<1>1. /\ Quiet /\ UNCHANGED <<bus, click, up, registered, cancelled>>
      /\ UNCHANGED <<sent, tail, turns>> /\ consumer.pc = "put" /\ consumer' = Idle
      /\ LateInput /\ Put(consumer.msg)
  BY DEF PutInput, Quiet, consumerFrame, LateInput
<1>2. RowOK' /\ RowKept /\ row'.state = row.state /\ Onward
  BY <1>1, QuietRow DEF Types
<1>3. Counters'
  BY <1>1, QuietCounters DEF Types, Counters
<1>4. ConsumerOK' /\ OfConsumer' = {} /\ ~LateInput'
  BY <1>1 DEF ConsumerOK, Idle, OfConsumer, LateInput
<1>5. consumer.msg \in Message /\ Permit(consumer.msg) = {}
  BY <1>1 DEF Types, ConsumerOK, Permit
<1>6. row' = row /\ clock' = clock
  BY <1>1 DEF Quiet
<1>7. /\ inbox' \in Seq(Message) /\ Once(inbox') /\ Permits(inbox') \subseteq Permits(inbox)
      /\ worker' = worker \/ worker'.pc = "head"
      /\ WorkerOK' /\ OfWorker' = OfWorker /\ (Continuing' => Continuing)
  BY <1>1, <1>5, <1>6, PutIs DEF Single
<1>8. Types'
  BY <1>1, <1>2, <1>3, <1>4, <1>7, DraftsStay DEF Types
<1>9. Fewer
  BY <1>1, <1>4, <1>7, SameClicks DEF Fewer, Single
<1>10. Overtaken'
  BY <1>1, <1>4, <1>5, <1>6, OvertakenPut
<1>11. Fresh'
  BY <1>1, <1>2, <1>7, FreshStays
<1>12. up'
  BY <1>1 DEF Down, Idle
<1>13. worker' = worker \/ worker'.pc \notin InTurn
  BY <1>7 DEF InTurn
<1> QED
  BY <1>1, <1>2, <1>8, <1>9, <1>10, <1>11, <1>12, <1>13, Kept DEF Quiet

(* ... from the consumer into the inbox, ...                               *)
LEMMA AdmitResumeKeeps ==
  ASSUME IInv, AdmitResume
  PROVE  IInv'
<1> USE DEF IInv
<1> DEFINE m == consumer.msg
<1>1. /\ Quiet /\ UNCHANGED <<bus, click, up, registered, cancelled>>
      /\ UNCHANGED <<sent, tail, turns>> /\ consumer.pc = "admit" /\ consumer' = Idle
      /\ m.kind = "resume" /\ (Put(m) \/ UNCHANGED <<inbox, worker>>)
  BY DEF AdmitResume, Quiet, consumerFrame
<1>2. RowOK' /\ RowKept /\ row'.state = row.state /\ Onward
  BY <1>1, QuietRow DEF Types
<1>3. Counters'
  BY <1>1, QuietCounters DEF Types, Counters
<1>4. ConsumerOK' /\ OfConsumer' = {} /\ ~LateInput' /\ ~LateInput
  BY <1>1 DEF ConsumerOK, Idle, OfConsumer, LateInput
<1>5. m \in Message /\ Permit(m) = OfConsumer /\ Permits(inbox) \cap Permit(m) = {}
  BY <1>1 DEF Types, ConsumerOK, Handed, OfConsumer, Single
<1>6. row' = row /\ clock' = clock
  BY <1>1 DEF Quiet
<1>7. /\ inbox' \in Seq(Message) /\ Once(inbox')
      /\ Permits(inbox') \subseteq Permits(inbox) \cup OfConsumer
      /\ Numbers(inbox) = {} => Numbers(inbox') = {}
      /\ worker' = worker \/ worker'.pc = "head"
      /\ WorkerOK' /\ OfWorker' = OfWorker /\ (Continuing' => Continuing)
      /\ Overtaken'
  <2>1. CASE Put(m)
    <3>1. m.kind # "input"
      BY <1>1
    <3> HIDE DEF m
    <3>2. Overtaken'
      BY <1>4, <1>5, <1>6, <2>1, <3>1, OvertakenPut
    <3> QED
      BY <1>5, <1>6, <2>1, <3>1, <3>2, PutIs DEF Single
  <2>2. CASE UNCHANGED <<inbox, worker>>
    <3>1. Overtaken'
      BY <1>2, <1>4, <2>2, OvertakenStays
    <3>2. WorkerOK'
      BY <1>2, <2>2, DraftsStay DEF Types
    <3> QED
      BY <2>2, <3>1, <3>2, SameWorker DEF Types, Single
  <2> QED
    BY <1>1, <2>1, <2>2
<1> HIDE DEF m
<1>8. Types'
  BY <1>1, <1>2, <1>3, <1>4, <1>7, DraftsStay DEF Types
<1>9. /\ \A c \in Clickers : OfClick(c)' = OfClick(c)
      /\ OfClicks' = OfClicks /\ Permits(bus') = Permits(bus)
  BY <1>1, SameClicks DEF OfClicks
<1>10. Outstanding' \subseteq Outstanding
  BY <1>4, <1>7, <1>9 DEF Outstanding
<1>11. Single'
  <2>1. Once(bus') /\ \A c, e \in Clickers : c # e => OfClick(c)' \cap OfClick(e)' = {}
    BY <1>1, <1>9 DEF Single
  <2> QED
    BY <1>4, <1>7, <1>9, <2>1 DEF Single
<1>12. Offered'
  BY <1>1, <1>2, <1>10, OfferedStays DEF Quiet
<1>13. Fresh'
  BY <1>1, <1>2, <1>4, <1>7, FreshStays
<1>14. up' /\ Down'
  BY <1>1 DEF Down, Idle
<1>15. TurnCheckpoint' /\ LatestKept'
  BY <1>1, <1>2, <1>7, TurnCheckpointStays, LatestStays DEF RowKept, Quiet, InTurn
<1> QED
  BY <1>7, <1>8, <1>11, <1>12, <1>13, <1>14, <1>15

LEMMA CancelRecoveryKeeps ==
  ASSUME IInv, CancelRecovery
  PROVE  IInv'
<1> USE DEF IInv
<1>1. /\ Quiet /\ UNCHANGED <<bus, inbox, worker, click, up, registered>>
      /\ UNCHANGED <<sent, tail, turns>> /\ consumer.pc = "admit" /\ cancelled' = TRUE
      /\ consumer' = [consumer EXCEPT !.pc = "waiting"] /\ consumer.msg.kind = "input"
  BY DEF CancelRecovery, Quiet, consumerFrame
<1>2. RowOK' /\ RowKept /\ row'.state = row.state /\ Onward
  BY <1>1, QuietRow DEF Types
<1>3. Counters'
  BY <1>1, QuietCounters DEF Types, Counters
<1>4. ConsumerOK' /\ OfConsumer' = {} /\ ~LateInput'
  <2>1. consumer \in Handed /\ Unchanged(consumer.draft)
    BY <1>1 DEF Types, ConsumerOK
  <2>2. /\ consumer' \in Handed /\ consumer'.pc = "waiting"
        /\ consumer'.draft = consumer.draft /\ consumer'.msg = consumer.msg
    BY <1>1, <2>1 DEF Handed
  <2>3. Unchanged(consumer.draft)'
    BY <1>2, <2>1, <2>2 DEF Unchanged, Onward
  <2> QED
    BY <1>1, <2>2, <2>3 DEF ConsumerOK, OfConsumer, LateInput
<1>5. Types'
  BY <1>1, <1>2, <1>3, <1>4, DraftsStay DEF Types
<1>6. Fewer
  BY <1>1, <1>4, SameWorker, SameClicks DEF Fewer, Single
<1>7. Overtaken'
  BY <1>1, <1>2, <1>4, OvertakenStays
<1>8. Fresh'
  BY <1>1 DEF Fresh
<1>9. up'
  BY <1>1 DEF Down, Idle
<1> QED
  BY <1>1, <1>2, <1>5, <1>6, <1>7, <1>8, <1>9, Kept DEF Quiet

(* ... from the bus to the consumer or into the inbox, ...                 *)
LEMMA TakeKeeps ==
  ASSUME IInv, Take
  PROVE  IInv'
<1> USE DEF IInv
<1> DEFINE m == Head(bus)
<1>1. /\ Quiet /\ UNCHANGED <<click, up, registered>>
      /\ UNCHANGED <<sent, tail, turns>> /\ up /\ consumer = Idle /\ bus # <<>> /\ bus' = Tail(bus)
  BY DEF Take, Quiet, consumerFrame
<1>2. RowOK' /\ RowKept /\ row'.state = row.state /\ Onward
  BY <1>1, QuietRow DEF Types
<1>3. /\ m \in Message /\ bus' \in Seq(Message) /\ Once(bus')
      /\ Permits(bus) = Permit(m) \cup Permits(bus') /\ Permit(m) \cap Permits(bus') = {}
  BY <1>1, PermitsTaken DEF Types, Single
<1>4. OfConsumer = {} /\ ~LateInput
  BY <1>1 DEF Idle, OfConsumer, LateInput
<1>5. row' = row /\ clock' = clock /\ Permits(inbox) \cap Permit(m) = {} /\ Permits(bus') \cap Permits(inbox) = {}
  BY <1>1, <1>3 DEF Quiet, Single
<1>6. \/ /\ m = Stop /\ cancelled' = (worker.pc # "none")
         /\ consumer' = IF worker.pc # "none" THEN [pc |-> "stopping"] ELSE Idle
         /\ UNCHANGED <<inbox, worker>>
      \/ /\ m # Stop /\ worker.pc = "none" /\ Put(m)
         /\ UNCHANGED <<cancelled, consumer>>
      \/ /\ m # Stop /\ worker.pc # "none"
         /\ consumer' = [pc |-> "admit", msg |-> m, draft |-> Read]
         /\ UNCHANGED <<inbox, worker, cancelled>>
  BY DEF Take
<1> HIDE DEF m
(* What every case shows.                                                  *)
<1> DEFINE Shown ==
        /\ WorkerOK' /\ ConsumerOK' /\ inbox' \in Seq(Message) /\ Once(inbox')
        /\ cancelled' \in BOOLEAN
        /\ worker' = worker \/ worker'.pc = "head"
        /\ OfWorker' = OfWorker /\ Permits(inbox') \cap OfConsumer' = {}
        /\ Permits(inbox') \subseteq Permits(inbox) \cup Permit(m) /\ OfConsumer' \subseteq Permit(m)
        /\ Overtaken' /\ Fresh'
<1>7. ASSUME m = Stop, UNCHANGED <<inbox, worker>>  PROVE Shown
  <2>1. /\ cancelled' = (worker.pc # "none")
        /\ consumer' = IF worker.pc # "none" THEN [pc |-> "stopping"] ELSE Idle
    BY <1>6, <1>7
  <2>2. ConsumerOK' /\ OfConsumer' = {} /\ ~LateInput'
    BY <2>1 DEF ConsumerOK, Idle, OfConsumer, LateInput
  <2>3. WorkerOK' /\ OfWorker' = OfWorker /\ (Continuing' <=> Continuing)
    BY <1>2, <1>7, DraftsStay, SameWorker DEF Types
  <2>4. Fresh'
    <3>1. CASE worker.pc = "none"
      BY <2>3, <3>1 DEF Fresh, Continuing, InTurn
    <3>2. CASE worker.pc # "none"
      BY <2>1, <3>2 DEF Fresh
    <3> QED
      BY <3>1, <3>2
  <2>5. Overtaken'
    BY <1>2, <1>7, <2>2, OvertakenStays
  <2>6. inbox' \in Seq(Message) /\ Once(inbox')
    BY <1>7 DEF Types, Single
  <2>7. cancelled' \in BOOLEAN
    BY <2>1
  <2> QED
    BY <1>7, <2>2, <2>3, <2>4, <2>5, <2>6, <2>7
<1>8. ASSUME worker.pc = "none", Put(m), UNCHANGED <<cancelled, consumer>>  PROVE Shown
  <2>1. /\ inbox' \in Seq(Message) /\ Once(inbox')
        /\ Permits(inbox') \subseteq Permits(inbox) \cup Permit(m)
        /\ worker' = worker \/ worker'.pc = "head"
        /\ WorkerOK' /\ OfWorker' = OfWorker /\ (Continuing' => Continuing)
    BY <1>3, <1>5, <1>8, PutIs DEF Single
  <2>2. ConsumerOK' /\ OfConsumer' = {} /\ ~LateInput'
    BY <1>2, <1>4, <1>8, DraftsStay, SameConsumer DEF Types
  <2>3. ~Continuing
    BY <1>8 DEF Continuing, InTurn
  <2>4. Fresh'
    BY <2>1, <2>3 DEF Fresh
  <2>5. Overtaken'
    <3>1. inbox' = <<m>>
      BY <1>8 DEF Put
    <3>2. \A p, q \in DOMAIN inbox' : ~(q > p)
      BY <3>1
    <3> QED
      BY <2>2, <3>2 DEF Overtaken
  <2>6. cancelled' \in BOOLEAN
    BY <1>8 DEF Types, Counters
  <2> QED
    BY <2>1, <2>2, <2>4, <2>5, <2>6
<1>9. ASSUME worker.pc # "none", consumer' = [pc |-> "admit", msg |-> m, draft |-> Read],
             UNCHANGED <<inbox, worker, cancelled>>
      PROVE  Shown
  <2>1. /\ Read \in [base : Session, cur : Session] /\ Read.cur = row /\ Unchanged(Read)'
        /\ Read' = Read
    BY <1>1, ReadIs DEF Types, Quiet, Read
  <2>2. /\ consumer' \in Handed /\ consumer'.pc = "admit" /\ consumer'.msg = m
        /\ consumer'.draft = Read
    BY <1>3, <1>9, <2>1 DEF Handed
  <2>3. ConsumerOK'
    BY <2>1, <2>2 DEF ConsumerOK, Unchanged
  <2>4. OfConsumer' = Permit(m)
    BY <2>2 DEF OfConsumer
  <2>5. LateInput' => row.state.status \notin Waiting
    BY <2>1, <2>2 DEF LateInput
  <2>6. WorkerOK' /\ OfWorker' = OfWorker /\ (Continuing' <=> Continuing)
    BY <1>2, <1>9, DraftsStay, SameWorker DEF Types
  <2>7. row.state.status = "resuming" => ~LateInput'
    BY <2>5 DEF Waiting
  <2>8. Overtaken'
    BY <1>2, <1>9, <2>7, OvertakenStays
  <2>9. Fresh'
    BY <1>1, <1>2, <1>9, <2>6, <2>7, FreshStays
  <2>10. cancelled' \in BOOLEAN /\ inbox' \in Seq(Message) /\ Once(inbox')
    BY <1>9 DEF Types, Counters, Single
  <2> QED
    BY <1>5, <1>9, <2>3, <2>4, <2>6, <2>8, <2>9, <2>10
<1>10. Shown
  BY <1>6, <1>7, <1>8, <1>9
<1>11. Types'
  <2>1. ClicksOK' /\ Counters'
    BY <1>1, <1>2, <1>10, DraftsStay, QuietCounters DEF Types, Counters
  <2> QED
    BY <1>2, <1>3, <1>10, <2>1 DEF Types
<1>12. \A c \in Clickers : OfClick(c)' = OfClick(c)
  BY <1>1, SameClicks
<1>13. OfClicks' = OfClicks
  BY <1>12 DEF OfClicks
<1>14. Outstanding' \subseteq Outstanding
  BY <1>3, <1>10, <1>13 DEF Outstanding
<1>15. Single'
  <2>1. \A c, e \in Clickers : c # e => OfClick(c)' \cap OfClick(e)' = {}
    BY <1>12 DEF Single
  <2>2. /\ Permit(m) \cap OfWorker = {} /\ Permits(bus') \cap OfWorker = {}
        /\ Permits(inbox) \cap OfWorker = {}
        /\ OfClicks \cap (Permits(bus) \cup Permits(inbox) \cup OfWorker) = {}
    BY <1>3 DEF Single
  <2>3. Permits(bus') \cap Permits(inbox') = {} /\ Permits(bus') \cap OfConsumer' = {}
    BY <1>3, <1>5, <1>10
  <2> QED
    BY <1>3, <1>10, <1>13, <2>1, <2>2, <2>3 DEF Single
<1>16. Offered'
  BY <1>1, <1>2, <1>14, OfferedStays DEF Quiet
<1>17. up' /\ Down'
  BY <1>1 DEF Down
<1>18. TurnCheckpoint' /\ LatestKept'
  BY <1>1, <1>2, <1>10, TurnCheckpointStays, LatestStays DEF RowKept, Quiet, InTurn
<1> QED
  BY <1>10, <1>11, <1>15, <1>16, <1>17, <1>18

(* ... and from the inbox to the worker.                                   *)
LEMMA WorkerHeadKeeps ==
  ASSUME IInv, WorkerHead
  PROVE  IInv'
<1> USE DEF IInv
<1> DEFINE m == Head(inbox)
<1>1. /\ Quiet /\ UNCHANGED <<bus, consumer, click, up, cancelled>>
      /\ UNCHANGED <<sent, tail, turns>> /\ worker.pc = "head"
  BY DEF WorkerHead, Quiet, workerFrame
<1>2. RowOK' /\ RowKept /\ row'.state = row.state /\ Onward
  BY <1>1, QuietRow DEF Types
<1>3. up'
  BY <1>1 DEF Down, NoWorker
<1>4. CASE inbox = <<>>
  <2>1. worker' = NoWorker /\ UNCHANGED <<inbox, registered>>
    BY <1>4 DEF WorkerHead, Unregistered
  <2>2. worker'.pc = "none"
    BY <2>1 DEF NoWorker
  <2>3. WorkerOK' /\ OfWorker' = {} /\ ~Continuing' /\ worker'.pc \notin InTurn
    BY <2>2 DEF WorkerOK, InTurn, WithMessage, WithDraft, Continuing, OfWorker
  <2>4. Types'
    BY <1>1, <1>2, <2>1, <2>3, DraftsStay, QuietCounters DEF Types, Counters
  <2>5. Fewer
    BY <1>1, <2>1, <2>3, SameConsumer, SameClicks DEF Fewer, Single
  <2>6. Overtaken' /\ Fresh'
    BY <1>1, <1>2, <2>1, <2>3, SameConsumer, OvertakenStays DEF Fresh
  <2> QED
    BY <1>1, <1>2, <1>3, <2>3, <2>4, <2>5, <2>6, Kept DEF Quiet
<1>5. CASE inbox # <<>>
  <2>1. /\ worker' = [pc |-> "admit", msg |-> m, draft |-> Read]
        /\ inbox' = Tail(inbox) /\ registered' = (m.kind = "resume")
    BY <1>5 DEF WorkerHead, RegisteredAtOnce
  <2>2. /\ m \in Message /\ inbox' \in Seq(Message) /\ Once(inbox') /\ m = inbox[1] /\ 1 \in DOMAIN inbox
        /\ Permits(inbox) = Permit(m) \cup Permits(inbox') /\ Permit(m) \cap Permits(inbox') = {}
        /\ DOMAIN inbox' = 1 .. Len(inbox) - 1
        /\ \A i \in DOMAIN inbox' : i + 1 \in DOMAIN inbox /\ inbox'[i] = inbox[i + 1]
    BY <1>5, <2>1, PermitsTaken DEF Types, Single
  <2>3. /\ Read \in [base : Session, cur : Session] /\ Read.cur = row /\ Unchanged(Read)'
        /\ Read' = Read
    BY <1>1, ReadIs DEF Types, Quiet, Read
  <2> HIDE DEF m
  <2>4. worker'.pc = "admit" /\ worker'.msg = m /\ worker'.draft = Read
    BY <2>1
  <2>5. WorkerOK' /\ worker'.pc \notin InTurn /\ OfWorker' = Permit(m) /\ OfWorker = {}
    <3>1. WorkerOK'
      BY <2>2, <2>3, <2>4 DEF WorkerOK, InTurn, WithMessage, WithDraft, Unchanged
    <3> QED
      BY <1>1, <2>4, <3>1 DEF InTurn, OfWorker
  <2>6. Types'
    <3>1. registered' \in BOOLEAN
      BY <2>1
    <3> QED
      BY <1>1, <1>2, <2>2, <2>5, <3>1, DraftsStay, QuietCounters DEF Types, Counters
  <2>7. OfConsumer' = OfConsumer /\ \A c \in Clickers : OfClick(c)' = OfClick(c)
    BY <1>1, SameConsumer, SameClicks
  <2>8. OfClicks' = OfClicks /\ Permits(bus') = Permits(bus)
    BY <1>1, <2>7 DEF OfClicks
  <2>9. Outstanding' \subseteq Outstanding
    BY <2>2, <2>5, <2>7, <2>8 DEF Outstanding
  <2>10. Single'
    <3>1. Once(bus') /\ \A c, e \in Clickers : c # e => OfClick(c)' \cap OfClick(e)' = {}
      BY <1>1, <2>7 DEF Single
    <3> QED
      BY <2>2, <2>5, <2>7, <2>8, <3>1 DEF Single
  <2>11. Offered'
    BY <1>1, <1>2, <2>9, OfferedStays DEF Quiet
  <2>12. LateInput' <=> LateInput
    BY <1>1, SameConsumer
  <2>13. Overtaken'
    <3> SUFFICES ASSUME NEW p \in DOMAIN inbox', inbox'[p].kind = "resume",
                        LateInput' \/ \E q \in DOMAIN inbox' : q > p /\ inbox'[q].kind = "input"
                 PROVE  ~Confirmed(row, inbox'[p])
      BY <1>1 DEF Overtaken, Quiet
    <3>1. p + 1 \in DOMAIN inbox /\ inbox'[p] = inbox[p + 1]
      BY <2>2
    <3>2. \A q \in DOMAIN inbox' : q > p => q + 1 > p + 1
      BY <2>2
    <3> QED
      BY <2>2, <2>12, <3>1, <3>2 DEF Overtaken
  <2>14. Fresh'
    <3> SUFFICES ASSUME Continuing'
                 PROVE  /\ registered' /\ row'.state.status = "resuming"
                        /\ ~LateInput' /\ Numbers(inbox') = {}
      BY DEF Fresh
    <3>1. m.kind = "resume" /\ Confirmed(row, m)
      BY <2>3, <2>4 DEF Continuing
    <3>2. registered'
      BY <2>1, <3>1
    <3>3. row.state.status = "resuming"
      BY <3>1 DEF Confirmed
    <3>4. ~LateInput /\ \A q \in DOMAIN inbox : q > 1 => inbox[q].kind # "input"
      BY <2>2, <3>1 DEF Overtaken
    <3>5. \A i \in DOMAIN inbox' : inbox'[i].kind # "input"
      <4>1. \A i \in DOMAIN inbox' : i + 1 > 1
        BY <2>2
      <4> QED
        BY <2>2, <3>4, <4>1
    <3>6. Numbers(inbox') = {}
      BY <3>5 DEF Numbers
    <3> QED
      BY <1>2, <2>12, <3>2, <3>3, <3>4, <3>6
  <2>15. Down' /\ TurnCheckpoint' /\ LatestKept'
    BY <1>1, <1>2, <1>3, <2>5, TurnCheckpointStays, LatestStays DEF RowKept, Quiet, Down
  <2> QED
    BY <2>6, <2>10, <2>11, <2>13, <2>14, <2>15
<1> QED
  BY <1>4, <1>5

(* The worker's own steps leave the other parties alone.                   *)
LEMMA WorkerAlone ==
  ASSUME IInv, UNCHANGED <<bus, inbox, consumer, click, up>>, OfWorker' \subseteq OfWorker
  PROVE  /\ Fewer /\ OfClicks' = OfClicks /\ OfConsumer' = OfConsumer
         /\ (LateInput' <=> LateInput)
BY SameConsumer, SameClicks DEF IInv, Fewer, Single, OfClicks

(* The permit is used: the interruption is not open any more.              *)
LEMMA AdmitContinuationKeeps ==
  ASSUME IInv, AdmitContinuation
  PROVE  IInv'
<1> USE DEF IInv
<1> DEFINE m == worker.msg
<1>1. /\ UNCHANGED <<row, clock, ids, latest>>
      /\ UNCHANGED <<bus, inbox, consumer, click, up, cancelled>>
      /\ UNCHANGED <<sent, tail, turns>> /\ worker.pc = "admit" /\ m.kind = "resume"
  BY DEF AdmitContinuation, workerFrame
<1>2. RowOK' /\ RowKept /\ row'.state = row.state /\ Onward
  BY <1>1, SameRow DEF Types, RowOK, Counters, Onward
<1>3. /\ m \in Message /\ OfWorker = {m.n}
      /\ \/ /\ worker' = [pc |-> "open", msg |-> m] /\ Confirmed(worker.draft.cur, m)
            /\ offers' = offers \ {m.n} /\ registered' = TRUE
         \/ worker' = [pc |-> "head"] /\ registered' = FALSE /\ offers' = offers
  BY <1>1 DEF AdmitContinuation, Begin, Types, WorkerOK, WithMessage, OfWorker, Permit
<1> HIDE DEF m
<1>4. /\ worker'.pc \in {"open", "head"} /\ (worker'.pc = "open" => worker'.msg = m)
      /\ offers \ {m.n} \subseteq offers' /\ offers' \subseteq offers
  BY <1>3
<1>5. WorkerOK' /\ OfWorker' = {} /\ worker'.pc \notin InTurn
  BY <1>3, <1>4 DEF WorkerOK, WithMessage, WithDraft, InTurn, OfWorker
<1>6. Counters'
  <2>1. registered' \in BOOLEAN
    BY <1>3
  <2> QED
    BY <1>1, <1>4, <2>1 DEF Types, Counters
<1>7. Types'
  BY <1>1, <1>2, <1>5, <1>6, DraftsStay DEF Types
<1>8. Fewer /\ OfClicks' = OfClicks /\ OfConsumer' = OfConsumer /\ (LateInput' <=> LateInput)
  BY <1>1, <1>5, WorkerAlone
<1>9. Single'
  BY <1>8, FewerKeeps
<1>10. Outstanding' \subseteq Outstanding \ {m.n} /\ m.n \in Outstanding
  <2>1. Permits(bus') = Permits(bus) /\ Permits(inbox') = Permits(inbox)
    BY <1>1
  <2> QED
    BY <1>3, <1>5, <1>8, <2>1 DEF Outstanding, Single
<1>11. Offered'
  BY <1>2, <1>4, <1>10 DEF Offered
<1>12. Continuing' => Continuing /\ registered'
  <2> SUFFICES ASSUME Continuing'  PROVE Continuing /\ registered'
    OBVIOUS
  <2>1. worker'.pc # "head"
    BY DEF Continuing, InTurn
  <2>2. Confirmed(worker.draft.cur, m) /\ registered'
    BY <1>3, <2>1
  <2> QED
    BY <1>1, <2>2 DEF Continuing, m
<1>13. Overtaken'
  BY <1>1, <1>2, <1>8, OvertakenStays
<1>14. Fresh'
  BY <1>1, <1>2, <1>8, <1>12 DEF Fresh
<1>15. up
  BY <1>1 DEF Down, NoWorker
<1>16. Down' /\ TurnCheckpoint' /\ LatestKept'
  BY <1>1, <1>2, <1>5, <1>15, TurnCheckpointStays, LatestStays DEF RowKept, Down
<1> QED
  BY <1>7, <1>9, <1>11, <1>13, <1>14, <1>16

(* A worker step that leaves the row alone.                                *)
LEMMA WorkerQuiet ==
  ASSUME IInv, Quiet, UNCHANGED <<bus, inbox, consumer, click, up, sent>>, worker.pc # "none",
         tail' \in BOOLEAN, registered' \in BOOLEAN, cancelled' \in BOOLEAN, turns' \in Nat,
         worker'.pc \notin InTurn, WorkerOK', OfWorker' = {},
         Continuing' => Continuing, registered => registered', cancelled => cancelled'
  PROVE  IInv'
<1> USE DEF IInv
<1>1. RowOK' /\ RowKept /\ row'.state = row.state /\ Onward
  BY QuietRow DEF Types
<1>2. Counters'
  BY QuietCounters DEF Types, Counters
<1>3. Types'
  BY <1>1, <1>2, DraftsStay DEF Types
<1>4. Fewer /\ (LateInput' <=> LateInput)
  BY WorkerAlone
<1>5. Overtaken' /\ Fresh'
  BY <1>1, <1>4, OvertakenStays, FreshStays
<1>6. up'
  BY DEF Down, NoWorker
<1> QED
  BY <1>1, <1>3, <1>4, <1>5, <1>6, Kept DEF Quiet

LEMMA CompleteKeeps ==
  ASSUME IInv, Complete
  PROVE  IInv'
<1> USE DEF IInv
<1>1. /\ Quiet /\ UNCHANGED <<bus, inbox, consumer, click, up, sent, registered, cancelled, turns>>
      /\ worker.pc = "complete" /\ tail' = FALSE
      /\ worker' = [pc |-> "completed", msg |-> worker.msg, failure |-> worker.failure, draft |-> Read]
  BY DEF Complete, Quiet, turnFrame, workerFrame
<1>2. /\ Read \in [base : Session, cur : Session] /\ Read.cur = row /\ Unchanged(Read)' /\ Read' = Read
  BY <1>1, ReadIs DEF Types, Quiet, Read
<1>3. worker'.pc = "completed" /\ worker'.msg = worker.msg /\ worker'.draft = Read
  BY <1>1
<1>4. worker.msg \in Message
  BY <1>1 DEF Types, WorkerOK, WithMessage
<1>5. WorkerOK' /\ OfWorker' = {} /\ ~Continuing' /\ worker'.pc \notin InTurn
  BY <1>2, <1>3, <1>4 DEF WorkerOK, WithMessage, WithDraft, InTurn, OfWorker, Continuing, Unchanged
<1>6. tail' \in BOOLEAN /\ registered' \in BOOLEAN /\ cancelled' \in BOOLEAN /\ turns' \in Nat
  BY <1>1 DEF Types, Counters
<1> QED
  BY <1>1, <1>5, <1>6, WorkerQuiet

LEMMA SalvageReadKeeps ==
  ASSUME IInv, SalvageRead
  PROVE  IInv'
<1> USE DEF IInv
<1>1. /\ Quiet /\ UNCHANGED <<bus, inbox, consumer, click, up, sent, registered, cancelled, turns, tail>>
      /\ Caught
      /\ worker' = [pc |-> "salvage", msg |-> worker.msg, draft |-> Read]
  BY DEF SalvageRead, Quiet, unwindFrame, workerFrame
<1>2. /\ Read \in [base : Session, cur : Session] /\ Read.cur = row /\ Unchanged(Read)' /\ Read' = Read
  BY <1>1, ReadIs DEF Types, Quiet, Read
<1>3. worker'.pc = "salvage" /\ worker'.msg = worker.msg /\ worker'.draft = Read
  BY <1>1
<1>4. worker.msg \in Message /\ worker.pc # "none"
  BY <1>1 DEF Caught, Types, WorkerOK, WithMessage, InTurn, TurnType
<1>5. WorkerOK' /\ OfWorker' = {} /\ ~Continuing' /\ worker'.pc \notin InTurn
  BY <1>2, <1>3, <1>4 DEF WorkerOK, WithMessage, WithDraft, InTurn, OfWorker, Continuing, Unchanged
<1>6. tail' \in BOOLEAN /\ registered' \in BOOLEAN /\ cancelled' \in BOOLEAN /\ turns' \in Nat
  BY <1>1 DEF Types, Counters
<1> QED
  BY <1>1, <1>4, <1>5, <1>6, WorkerQuiet

LEMMA OpenKeeps ==
  ASSUME IInv, Open
  PROVE  IInv'
<1> USE DEF IInv
<1>1. /\ Quiet /\ UNCHANGED <<bus, inbox, consumer, click, up, sent, registered, cancelled, tail>>
      /\ worker.pc = "open" /\ turns' = turns + 1
      /\ worker' = [pc |-> "restore", msg |-> worker.msg, draft |-> Read, turn |-> turns',
                    ckpt |-> NoCheckpoint]
  BY DEF Open, Quiet, workerFrame
<1>2. RowOK' /\ RowKept /\ row'.state = row.state /\ Onward
  BY <1>1, QuietRow DEF Types
<1>3. /\ Read \in [base : Session, cur : Session] /\ Read.cur = row /\ Read.base = row
      /\ Unchanged(Read)' /\ Read' = Read
  BY <1>1, ReadIs DEF Types, Quiet, Read
<1>4. worker.msg \in Message
  BY <1>1 DEF Types, WorkerOK, WithMessage
<1>5. turns' \in Nat
  BY <1>1 DEF Types, Counters
<1>6. /\ worker'.pc = "restore" /\ worker'.msg = worker.msg /\ worker'.draft = Read
      /\ worker'.ckpt = NoCheckpoint
  BY <1>1
<1>7. worker' \in TurnType
  BY <1>1, <1>3, <1>4, <1>5, Kinds DEF TurnType, InTurn
<1>8. WorkerOK' /\ OfWorker' = {}
  BY <1>3, <1>6, <1>7 DEF WorkerOK, WithMessage, WithDraft, InTurn, OfWorker, Unchanged
<1>9. Continuing' => Continuing
  BY <1>1, <1>6 DEF Continuing
<1>10. Counters'
  BY <1>1, <1>5, QuietCounters DEF Types, Counters
<1>11. Types'
  BY <1>1, <1>2, <1>8, <1>10, DraftsStay DEF Types
<1>12. Fewer /\ (LateInput' <=> LateInput)
  BY <1>1, <1>8, WorkerAlone
<1>13. Overtaken' /\ Fresh'
  BY <1>1, <1>2, <1>9, <1>12, OvertakenStays, FreshStays
<1>14. up
  BY <1>1 DEF Down, NoWorker
<1>15. TurnCheckpoint'
  BY <1>1, <1>3, <1>6 DEF TurnCheckpoint, Quiet, NoCheckpoint
<1>16. Single' /\ Offered'
  BY <1>1, <1>2, <1>12, FewerKeeps, OfferedStays DEF Quiet
<1>17. Down' /\ LatestKept'
  BY <1>1, <1>2, <1>14, LatestStays DEF Down, Quiet
<1> QED
  BY <1>11, <1>13, <1>15, <1>16, <1>17

(* The inbox and the worker end together.                                  *)
LEMMA GoneIs ==
  ASSUME WorkerGone
  PROVE  /\ WorkerOK' /\ OfWorker' = {} /\ ~Continuing' /\ worker'.pc \notin InTurn
         /\ inbox' \in Seq(Message) /\ Once(inbox') /\ Permits(inbox') = {}
         /\ Overtaken' /\ Fresh'
         /\ registered' = FALSE /\ cancelled' = FALSE /\ worker' = NoWorker
<1>1. inbox' = <<>> /\ worker' = NoWorker /\ registered' = FALSE /\ cancelled' = FALSE
  BY DEF WorkerGone
<1>2. worker'.pc = "none"
  BY <1>1 DEF NoWorker
<1>3. WorkerOK' /\ OfWorker' = {} /\ ~Continuing' /\ worker'.pc \notin InTurn
  BY <1>2 DEF WorkerOK, WithMessage, WithDraft, InTurn, OfWorker, Continuing
<1>4. inbox' \in Seq(Message) /\ Once(inbox') /\ Permits(inbox') = {} /\ DOMAIN inbox' = {}
  BY <1>1, PermitsOfFew
<1>5. Overtaken' /\ Fresh'
  BY <1>3, <1>4 DEF Overtaken, Fresh
<1> QED
  BY <1>1, <1>3, <1>4, <1>5

LEMMA UnwindKeeps ==
  ASSUME IInv, Unwind
  PROVE  IInv'
<1> USE DEF IInv
<1>1. /\ Quiet /\ UNCHANGED <<bus, consumer, click, up, sent, turns, tail>>
      /\ WorkerGone /\ worker.pc # "none"
  BY DEF Unwind, Quiet, unwindFrame, workerFrame
<1>2. RowOK' /\ RowKept /\ row'.state = row.state /\ Onward
  BY <1>1, QuietRow DEF Types
<1>3. /\ WorkerOK' /\ OfWorker' = {} /\ ~Continuing' /\ worker'.pc \notin InTurn
      /\ inbox' \in Seq(Message) /\ Once(inbox') /\ Permits(inbox') = {}
      /\ Overtaken' /\ Fresh' /\ registered' = FALSE /\ cancelled' = FALSE
  BY <1>1, GoneIs
<1>4. Counters'
  BY <1>1, <1>3, QuietCounters DEF Types, Counters
<1>5. Types'
  BY <1>1, <1>2, <1>3, <1>4, DraftsStay DEF Types
<1>6. Fewer
  BY <1>1, <1>3, SameConsumer, SameClicks DEF Fewer, Single
<1>7. up'
  BY <1>1 DEF Down, NoWorker
<1> QED
  BY <1>1, <1>2, <1>3, <1>5, <1>6, <1>7, Kept DEF Quiet

-----------------------------------------------------------------------------
(* Steps that commit a draft.                                              *)

LEMMA CommitOnward ==
  ASSUME Types, NEW d, Unchanged(d), NEW cur, Amends(cur, d.base),
         cur.state # d.base.state => cur.state.at = clock + 1,
         ~Clash(Changed(d, cur)), Commit(Changed(d, cur))
  PROVE  /\ RowKept /\ Onward
         /\ cur.ckpt # d.base.ckpt => row'.ckpt = NoCheckpoint
         /\ cur.state = d.base.state => row'.state = row.state
         /\ cur.state.at = clock + 1 => row.state = d.base.state /\ row'.state = cur.state
         /\ row'.state.at <= clock'
<1>1. row \in Session /\ clock \in Nat /\ row.state.at <= clock
  BY DEF Types, RowOK, Counters
<1>2. /\ RowKept
      /\ cur.ckpt # d.base.ckpt => row'.ckpt = NoCheckpoint
      /\ cur.state = d.base.state => row'.state = row.state
      /\ cur.state # d.base.state => row.state = d.base.state /\ row'.state = cur.state
      /\ clock' \in Nat /\ clock' >= clock /\ row'.state.at <= clock'
  BY <1>1, Committed
<1>3. cur.state.at = clock + 1 => cur.state # d.base.state
  BY <1>1 DEF Unchanged
<1>4. Onward
  BY <1>1, <1>2 DEF Onward, RowKept
<1> QED
  BY <1>2, <1>3, <1>4

LEMMA RowGoesOn ==
  ASSUME Types, RowKept, row'.state.at <= clock', ids' = ids,
         \/ row'.state = row.state
         \/ row'.state.id = row.state.id /\ row'.state.status # "failed"
  PROVE  RowOK'
BY DEF Types, RowOK, RowKept

LEMMA CommitCounters ==
  ASSUME Counters, Onward, UNCHANGED <<ids, offers, latest>>,
         up' \in BOOLEAN, tail' \in BOOLEAN, registered' \in BOOLEAN,
         cancelled' \in BOOLEAN, sent' \in Nat, turns' \in Nat
  PROVE  Counters'
BY DEF Counters, Onward

(* A handler of a click that is done.                                      *)
LEMMA HandlerDone ==
  ASSUME ClicksOK, NEW c \in Clickers, click' = [click EXCEPT ![c] = Idle], Onward
  PROVE  ClicksOK' /\ \A e \in Clickers : OfClick(e)' \subseteq OfClick(e)
<1>1. DOMAIN click' = Clickers /\ click'[c] = Idle
  BY DEF ClicksOK
<1>2. \A e \in Clickers : e # c => click'[e] = click[e]
  BY DEF ClicksOK
<1>3. ASSUME NEW e \in Clickers, e # c
      PROVE  /\ click'[e].pc \in {"idle", "dismiss", "continue", "queue"}
             /\ click'[e].pc \in {"dismiss", "continue"} => Unchanged(click[e].draft)'
             /\ click'[e].pc = "queue" => click'[e].id \in Nat
  BY <1>2, <1>3 DEF ClicksOK, Unchanged, Onward
<1>4. ClicksOK'
  BY <1>1, <1>2, <1>3 DEF ClicksOK, Unchanged, Idle
<1>5. \A e \in Clickers : OfClick(e)' \subseteq OfClick(e)
  BY <1>1, <1>2 DEF OfClick, Idle
<1> QED
  BY <1>4, <1>5

LEMMA DismissKeeps ==
  ASSUME IInv, NEW c \in Clickers, Dismiss(c)
  PROVE  IInv'
<1> USE DEF IInv
<1> DEFINE d == click[c].draft
           p == Interrupted(Restored(d.base))
           st == State("recovered", d.base.state.id, TRUE, "dismissed", 0)
           cur == [p EXCEPT !.state = st]
<1>1. /\ UNCHANGED <<bus, inbox, consumer, worker, registered, cancelled, up, tail>>
      /\ UNCHANGED <<sent, offers, latest, ids, turns>>
      /\ click' = [click EXCEPT ![c] = Idle] /\ click[c].pc = "dismiss"
  BY DEF Dismiss, clickFrame, history
<1>2. Unchanged(d) /\ d.cur = d.base /\ d.base \in Session
  BY <1>1 DEF Types, ClicksOK, Unchanged
<1>3. (UNCHANGED <<row, clock>>) \/ (~Clash(Changed(d, cur)) /\ Commit(Changed(d, cur)))
  BY <1>2 DEF Dismiss
<1>4. Amends(p, d.base)
  <2>1. Amends(Restored(d.base), d.base) /\ Restored(d.base) \in Session
    BY <1>2, RestoredIs DEF Amends
  <2>2. Extends(p, Restored(d.base))
    BY <2>1, InterruptedIs
  <2> QED
    BY <1>2, <2>1, <2>2, ExtendsAmended
<1>5. /\ st \in StateType /\ st.status = "recovered" /\ st.id = d.base.state.id
      /\ st.at = clock + 1 /\ st.reason = "dismissed"
  <2>1. d.base.state.id \in Nat /\ clock \in Nat
    BY <1>2 DEF Session, StateType, Types, Counters
  <2> QED
    BY <2>1 DEF State, StateType
<1> HIDE DEF p, st
<1>6. Amends(cur, d.base) /\ cur.state = st
  BY <1>2, <1>4, <1>5, StateGiven
<1> HIDE DEF d, cur
<1>7. /\ RowKept /\ Onward /\ RowOK'
      /\ \/ row'.state = row.state
         \/ row'.state.status = "recovered" /\ row'.state.reason = "dismissed"
  <2>1. CASE UNCHANGED <<row, clock>>
    <3>1. Quiet
      BY <1>1, <2>1 DEF Quiet
    <3> QED
      BY <3>1, QuietRow DEF Types
  <2>2. CASE ~Clash(Changed(d, cur)) /\ Commit(Changed(d, cur))
    <3>1. /\ RowKept /\ Onward /\ row'.state.at <= clock'
          /\ row.state = d.base.state /\ row'.state = cur.state
      BY <1>2, <1>5, <1>6, <2>2, CommitOnward
    <3>2. /\ row'.state.status = "recovered" /\ row'.state.reason = "dismissed"
          /\ row'.state.id = row.state.id
      BY <1>5, <1>6, <3>1
    <3>3. RowOK'
      BY <1>1, <3>1, <3>2, RowGoesOn
    <3> QED
      BY <3>1, <3>2, <3>3
  <2> QED
    BY <1>3, <2>1, <2>2
<1>8. ClicksOK' /\ \A e \in Clickers : OfClick(e)' \subseteq OfClick(e)
  BY <1>1, <1>7, HandlerDone DEF Types
<1>9. Counters'
  BY <1>1, <1>7, CommitCounters DEF Types, Counters
<1>10. Types'
  BY <1>1, <1>7, <1>8, <1>9, DraftsStay DEF Types
<1>11. Fewer
  BY <1>1, <1>8, SameWorker, SameConsumer DEF Fewer, Single
<1>12. Overtaken' /\ Fresh'
  BY <1>1, <1>7, SameWorker, SameConsumer, OvertakenStays, FreshStays
<1>13. up'
  BY <1>1 DEF Down, Idle
<1> QED
  BY <1>1, <1>7, <1>10, <1>11, <1>12, <1>13, Kept

(* A confirmed click turns the offer into its one permit.                  *)
LEMMA ContinueKeeps ==
  ASSUME IInv, NEW c \in Clickers, Continue(c)
  PROVE  IInv'
<1> USE DEF IInv
<1> DEFINE d == click[c].draft
           r == d.base
           st == State("resuming", r.state.id, TRUE, "other", Len(r.hist))
           cur == [r EXCEPT !.state = st]
<1>1. /\ UNCHANGED <<bus, inbox, consumer, worker, registered, cancelled, up, tail>>
      /\ UNCHANGED <<sent, offers, latest, ids, turns>> /\ click[c].pc = "continue"
  BY DEF Continue, clickFrame, history
<1>2. Unchanged(d) /\ d.cur = d.base /\ r \in Session
  BY <1>1 DEF Types, ClicksOK, Unchanged
<1>3. \/ click' = [click EXCEPT ![c] = Idle] /\ UNCHANGED <<row, clock>>
      \/ /\ r.state.status \in {"awaiting_user", "failed"} /\ r.state.can
         /\ ~Clash(Changed(d, cur)) /\ Commit(Changed(d, cur))
         /\ click' = [click EXCEPT ![c] = [pc |-> "queue", id |-> st.id]]
  BY <1>2 DEF Continue
<1>4. up'
  BY <1>1 DEF Down, Idle
<1>5. CASE click' = [click EXCEPT ![c] = Idle] /\ UNCHANGED <<row, clock>>
  <2>1. Quiet
    BY <1>1, <1>5 DEF Quiet
  <2>2. RowOK' /\ RowKept /\ row'.state = row.state /\ Onward
    BY <2>1, QuietRow DEF Types
  <2>3. ClicksOK' /\ \A e \in Clickers : OfClick(e)' \subseteq OfClick(e)
    BY <1>5, <2>2, HandlerDone DEF Types
  <2>4. Counters'
    BY <1>1, <2>1, QuietCounters DEF Types, Counters
  <2>5. Types'
    BY <1>1, <2>2, <2>3, <2>4, DraftsStay DEF Types
  <2>6. Fewer
    BY <1>1, <2>3, SameWorker, SameConsumer DEF Fewer, Single
  <2>7. Overtaken' /\ Fresh'
    BY <1>1, <2>2, SameWorker, SameConsumer, OvertakenStays, FreshStays
  <2> QED
    BY <1>1, <1>4, <2>2, <2>5, <2>6, <2>7, Kept
<1>6. CASE /\ r.state.status \in {"awaiting_user", "failed"} /\ r.state.can
           /\ ~Clash(Changed(d, cur)) /\ Commit(Changed(d, cur))
           /\ click' = [click EXCEPT ![c] = [pc |-> "queue", id |-> st.id]]
  <2>1. st \in StateType /\ st.status = "resuming" /\ st.id = r.state.id /\ st.at = clock + 1
    <3>1. r.state.id \in Nat /\ clock \in Nat /\ Len(r.hist) \in Nat
      BY <1>2 DEF Session, StateType, Types, Counters
    <3> QED
      BY <3>1 DEF State, StateType
  <2>2. click' = [click EXCEPT ![c] = [pc |-> "queue", id |-> st.id]]
    BY <1>6
  <2> HIDE DEF st
  <2>3. Amends(r, r)
    BY <1>2, AmendsItself
  <2>4. Amends(cur, r) /\ cur.state = st
    BY <1>2, <2>1, <2>3, StateGiven
  <2> HIDE DEF cur
  <2>5. /\ RowKept /\ Onward /\ row'.state.at <= clock'
        /\ row.state = r.state /\ row'.state = st
    <3> HIDE DEF d
    <3> QED
      BY <1>2, <1>6, <2>1, <2>4, CommitOnward
  <2>6. row.state.status = "awaiting_user"
    BY <1>6, <2>5 DEF Types, RowOK
  <2> DEFINE i == row.state.id
  <2>7. /\ i \in offers /\ i \notin Outstanding /\ i \in Nat
        /\ row'.state.status = "resuming" /\ row'.state.id = i
    BY <1>2, <2>1, <2>5, <2>6 DEF Offered, Session, StateType
  <2>8. click' = [click EXCEPT ![c] = [pc |-> "queue", id |-> i]]
    BY <2>1, <2>2, <2>5
  <2> HIDE DEF i, d
  <2>9. RowOK'
    BY <1>1, <2>5, <2>7, RowGoesOn DEF i
  <2>10. /\ DOMAIN click' = Clickers /\ click'[c] = [pc |-> "queue", id |-> i]
         /\ \A e \in Clickers : e # c => click'[e] = click[e]
    BY <2>8 DEF Types, ClicksOK
  <2>11. ClicksOK'
    <3>1. ASSUME NEW e \in Clickers, e # c
          PROVE  /\ click'[e].pc \in {"idle", "dismiss", "continue", "queue"}
                 /\ click'[e].pc \in {"dismiss", "continue"} => Unchanged(click[e].draft)'
                 /\ click'[e].pc = "queue" => click'[e].id \in Nat
      BY <2>5, <2>10, <3>1 DEF Types, ClicksOK, Unchanged, Onward
    <3>2. click'[c].pc = "queue" /\ click'[c].id \in Nat
      BY <2>7, <2>10
    <3> QED
      BY <2>10, <3>1, <3>2 DEF ClicksOK, Unchanged
  <2>12. Types'
    BY <1>1, <2>5, <2>9, <2>11, DraftsStay, CommitCounters DEF Types, Counters
  <2>13. OfClick(c)' = {i} /\ \A e \in Clickers : e # c => OfClick(e)' = OfClick(e)
    BY <2>10 DEF OfClick
  <2>14. OfClicks' \subseteq OfClicks \cup {i}
    BY <2>13 DEF OfClicks
  <2>15. /\ Permits(bus') = Permits(bus) /\ Permits(inbox') = Permits(inbox)
         /\ OfConsumer' = OfConsumer /\ OfWorker' = OfWorker
    BY <1>1, SameWorker, SameConsumer
  <2>16. Outstanding' \subseteq Outstanding \cup {i}
    BY <2>14, <2>15 DEF Outstanding
  <2>17. Single'
    <3>1. \A e \in Clickers : i \notin OfClick(e)
      BY <2>7 DEF Outstanding, OfClicks
    <3>2. \A e, f \in Clickers : e # f => OfClick(e)' \cap OfClick(f)' = {}
      BY <2>13, <3>1 DEF Single
    <3>3. Once(bus') /\ Once(inbox')
      BY <1>1 DEF Single
    <3> QED
      BY <2>7, <2>14, <2>15, <3>2, <3>3 DEF Single, Outstanding
  <2>18. Offered'
    BY <1>1, <2>7, <2>16 DEF Offered
  <2>19. Overtaken'
    <3>1. \A p \in DOMAIN inbox : inbox[p].kind = "resume" => inbox[p].n # i
      <4>1. \A p \in DOMAIN inbox : inbox[p].kind = "resume" => inbox[p].n \in Permits(inbox)
        BY DEF Permits, Permit
      <4> QED
        BY <2>7, <4>1 DEF Outstanding
    <3> QED
      BY <1>1, <2>7, <3>1 DEF Overtaken, Confirmed
  <2>20. Fresh'
    <3>1. ~(Continuing /\ ~cancelled)
      BY <2>6 DEF Fresh
    <3> QED
      BY <1>1, <3>1, SameWorker DEF Fresh
  <2>21. Down' /\ TurnCheckpoint' /\ LatestKept'
    BY <1>1, <1>4, <2>5, TurnCheckpointStays, LatestStays DEF RowKept, Down
  <2> QED
    BY <2>12, <2>17, <2>18, <2>19, <2>20, <2>21
<1> QED
  BY <1>3, <1>5, <1>6

LEMMA SupersedeKeeps ==
  ASSUME IInv, Supersede
  PROVE  IInv'
<1> USE DEF IInv
<1> DEFINE d == consumer.draft
           cur == Superseded(d.base)
<1>1. /\ UNCHANGED <<bus, inbox, worker, registered, cancelled, click, up, tail>>
      /\ UNCHANGED <<sent, offers, latest, ids, turns>>
      /\ consumer.pc \in {"admit", "waiting"}
      /\ ~registered \/ worker.pc = "none"
  BY DEF Supersede, consumerFrame, ActiveRecovery
<1>2. /\ consumer \in Handed /\ Unchanged(d) /\ d.cur = d.base /\ d.base \in Session
  BY <1>1 DEF Types, ConsumerOK, Unchanged
<1>3. consumer.msg \in Message /\ consumer.msg.kind = "input"
  BY <1>1, <1>2 DEF Types, ConsumerOK, Handed, Supersede
<1>4. \/ consumer' = Idle /\ UNCHANGED <<row, clock>>
      \/ /\ ~Clash(Changed(d, cur)) /\ Commit(Changed(d, cur))
         /\ consumer' = [pc |-> "put", msg |-> consumer.msg]
  BY <1>2 DEF Supersede
<1>5. /\ Amends(cur, d.base) /\ cur.state.status = "recovered" /\ cur.state.at = clock + 1
      /\ cur.state.id = d.base.state.id
  BY <1>2, SupersededIs DEF Types, Counters
<1> HIDE DEF d, cur
<1>6. /\ RowKept /\ Onward /\ RowOK' /\ ConsumerOK' /\ OfConsumer' = {}
      /\ \/ row'.state = row.state /\ ~LateInput'
         \/ row'.state.status = "recovered"
  <2>1. CASE consumer' = Idle /\ UNCHANGED <<row, clock>>
    <3>1. Quiet
      BY <1>1, <2>1 DEF Quiet
    <3>2. ConsumerOK' /\ OfConsumer' = {} /\ ~LateInput'
      BY <2>1 DEF ConsumerOK, Idle, OfConsumer, LateInput
    <3> QED
      BY <3>1, <3>2, QuietRow DEF Types
  <2>2. CASE /\ ~Clash(Changed(d, cur)) /\ Commit(Changed(d, cur))
             /\ consumer' = [pc |-> "put", msg |-> consumer.msg]
    <3>1. /\ RowKept /\ Onward /\ row'.state.at <= clock'
          /\ row.state = d.base.state /\ row'.state = cur.state
      BY <1>2, <1>5, <2>2, CommitOnward
    <3>2. row'.state.status = "recovered" /\ row'.state.id = row.state.id
      BY <1>5, <3>1
    <3>3. RowOK'
      BY <1>1, <3>1, <3>2, RowGoesOn
    <3>4. ConsumerOK' /\ OfConsumer' = {}
      BY <1>3, <2>2 DEF ConsumerOK, OfConsumer
    <3> QED
      BY <3>1, <3>2, <3>3, <3>4
  <2> QED
    BY <1>4, <2>1, <2>2
<1>7. Counters'
  BY <1>1, <1>6, CommitCounters DEF Types, Counters
<1>8. Types'
  BY <1>1, <1>6, <1>7, DraftsStay DEF Types
<1>9. Fewer
  BY <1>1, <1>6, SameWorker, SameClicks DEF Fewer, Single
<1>10. Overtaken'
  BY <1>1, <1>6, OvertakenStays
<1>11. Fresh'
  <2>1. ~(Continuing /\ ~cancelled)
    BY <1>1 DEF Fresh, Continuing, InTurn
  <2> QED
    BY <1>1, <2>1, SameWorker DEF Fresh
<1>12. up'
  BY <1>1 DEF Down, Idle
<1> QED
  BY <1>1, <1>6, <1>8, <1>9, <1>10, <1>11, <1>12, Kept

(* A commit of the worker.                                                 *)
LEMMA WorkerCommits ==
  ASSUME IInv, UNCHANGED <<bus, inbox, consumer, click, up, sent, ids, offers, latest>>,
         worker.pc # "none",
         RowKept, Onward, RowOK', WorkerOK', TurnCheckpoint', OfWorker' = {},
         tail' \in BOOLEAN, registered' \in BOOLEAN, cancelled' \in BOOLEAN, turns' \in Nat,
         \/ row'.state.status = "recovered" /\ ~Continuing'
         \/ /\ row'.state = row.state /\ (Continuing' => Continuing)
            /\ (registered => registered') /\ (cancelled => cancelled')
  PROVE  IInv'
<1> USE DEF IInv
<1>1. Counters'
  BY CommitCounters DEF Types, Counters
<1>2. Types'
  BY <1>1, DraftsStay DEF Types
<1>3. Fewer /\ (LateInput' <=> LateInput)
  BY WorkerAlone
<1>4. row'.state = row.state \/ row'.state.status = "recovered"
  OBVIOUS
<1>5. Overtaken'
  BY <1>3, <1>4, OvertakenStays
<1>6. Fresh'
  <2>1. CASE ~Continuing'
    BY <2>1 DEF Fresh
  <2>2. CASE /\ row'.state = row.state /\ (Continuing' => Continuing)
             /\ (registered => registered') /\ (cancelled => cancelled')
    BY <1>3, <2>2, FreshStays
  <2> QED
    BY <2>1, <2>2
<1>7. Single' /\ Offered'
  BY <1>3, <1>4, FewerKeeps, OfferedStays
<1>8. up /\ Down'
  BY DEF Down, NoWorker
<1>9. LatestKept'
  BY LatestStays
<1> QED
  BY <1>2, <1>5, <1>6, <1>7, <1>8, <1>9

LEMMA AdmitMessageKeeps ==
  ASSUME IInv, AdmitMessage
  PROVE  IInv'
<1> USE DEF IInv
<1> DEFINE d == worker.draft
           m == worker.msg
           cur == Superseded(d.base)
<1>1. /\ UNCHANGED <<bus, inbox, consumer, click, up, registered, cancelled, tail>>
      /\ UNCHANGED <<sent, offers, latest, ids, turns>>
      /\ worker.pc = "admit" /\ m.kind = "input"
  BY DEF AdmitMessage, workerFrame
<1>2. Unchanged(d) /\ d.cur = d.base /\ d.base \in Session /\ m \in Message
  BY <1>1 DEF Types, WorkerOK, WithDraft, WithMessage, Unchanged
<1>3. /\ (UNCHANGED <<row, clock>>) \/ (~Clash(Changed(d, cur)) /\ Commit(Changed(d, cur)))
      /\ worker' = [pc |-> "open", msg |-> m] \/ worker' = [pc |-> "head"]
  BY <1>2 DEF AdmitMessage, Begin
<1>4. /\ Amends(cur, d.base) /\ cur.state.status = "recovered" /\ cur.state.at = clock + 1
      /\ cur.state.id = d.base.state.id
  BY <1>2, SupersededIs DEF Types, Counters
<1> HIDE DEF cur, d, m
<1>5. worker'.pc \in {"open", "head"} /\ (worker'.pc = "open" => worker'.msg = m)
  BY <1>3
<1>6. WorkerOK' /\ OfWorker' = {} /\ ~Continuing' /\ TurnCheckpoint'
  <2>1. WorkerOK' /\ OfWorker' = {} /\ TurnCheckpoint'
    BY <1>2, <1>5 DEF WorkerOK, WithMessage, WithDraft, InTurn, OfWorker, TurnCheckpoint
  <2>2. ~Continuing'
    BY <1>1, <1>5 DEF Continuing, InTurn
  <2> QED
    BY <2>1, <2>2
<1>7. /\ RowKept /\ Onward /\ RowOK'
      /\ row'.state = row.state \/ row'.state.status = "recovered"
  <2>1. CASE UNCHANGED <<row, clock>>
    <3>1. Quiet
      BY <1>1, <2>1 DEF Quiet
    <3> QED
      BY <3>1, QuietRow DEF Types
  <2>2. CASE ~Clash(Changed(d, cur)) /\ Commit(Changed(d, cur))
    <3>1. /\ RowKept /\ Onward /\ row'.state.at <= clock'
          /\ row.state = d.base.state /\ row'.state = cur.state
      BY <1>2, <1>4, <2>2, CommitOnward
    <3>2. row'.state.status = "recovered" /\ row'.state.id = row.state.id
      BY <1>4, <3>1
    <3>3. RowOK'
      BY <1>1, <3>1, <3>2, RowGoesOn
    <3> QED
      BY <3>1, <3>2, <3>3
  <2> QED
    BY <1>3, <2>1, <2>2
<1>8. tail' \in BOOLEAN /\ registered' \in BOOLEAN /\ cancelled' \in BOOLEAN /\ turns' \in Nat
  BY <1>1 DEF Types, Counters
<1> QED
  BY <1>1, <1>6, <1>7, <1>8, WorkerCommits

(* The user's message is not pending any more.                             *)
LEMMA NotPending ==
  ASSUME NEW r \in Session, NEW p, Amends(p, r)
  PROVE  LET q == [p EXCEPT !.pending = FALSE] IN
         Amends(q, r) /\ q.state = p.state /\ q.ckpt = p.ckpt
<1> DEFINE q == [p EXCEPT !.pending = FALSE]
<1>1. q \in Session /\ q.state = p.state /\ q.ckpt = p.ckpt /\ q.hist = p.hist
  BY DEF Amends, Session
<1> HIDE DEF q
<1>2. Amends(q, r)
  BY <1>1 DEF Amends
<1> QED
  BY <1>1, <1>2 DEF q

LEMMA SalvageKeeps ==
  ASSUME IInv, Salvage
  PROVE  IInv'
<1> USE DEF IInv
<1> DEFINE d == worker.draft
           cur == [Restored(d.base) EXCEPT !.pending = FALSE]
<1>1. /\ UNCHANGED <<bus, consumer, click, up, tail, sent, offers, latest, ids, turns>>
      /\ worker.pc = "salvage" /\ WorkerGone
  BY DEF Salvage, unwindFrame, workerFrame
<1>2. Unchanged(d) /\ d.cur = d.base /\ d.base \in Session
  BY <1>1 DEF Types, WorkerOK, WithDraft, Unchanged
<1>3. (UNCHANGED <<row, clock>>) \/ (~Clash(Changed(d, cur)) /\ Commit(Changed(d, cur)))
  BY <1>2 DEF Salvage
<1>4. Amends(cur, d.base) /\ cur.state = d.base.state
  BY <1>2, RestoredIs, NotPending
<1> HIDE DEF cur, d
<1>5. RowKept /\ Onward /\ RowOK' /\ row'.state = row.state
  <2>1. CASE UNCHANGED <<row, clock>>
    <3>1. Quiet
      BY <1>1, <2>1 DEF Quiet
    <3> QED
      BY <3>1, QuietRow DEF Types
  <2>2. CASE ~Clash(Changed(d, cur)) /\ Commit(Changed(d, cur))
    <3>1. RowKept /\ Onward /\ row'.state.at <= clock' /\ row'.state = row.state
      BY <1>2, <1>4, <2>2, CommitOnward
    <3> QED
      BY <1>1, <3>1, RowGoesOn
  <2> QED
    BY <1>3, <2>1, <2>2
<1>6. /\ WorkerOK' /\ OfWorker' = {} /\ ~Continuing' /\ worker'.pc \notin InTurn
      /\ inbox' \in Seq(Message) /\ Once(inbox') /\ Permits(inbox') = {}
      /\ Overtaken' /\ Fresh' /\ registered' = FALSE /\ cancelled' = FALSE
  BY <1>1, GoneIs
<1>7. Counters'
  BY <1>1, <1>5, <1>6, CommitCounters DEF Types, Counters
<1>8. Types'
  BY <1>1, <1>5, <1>6, <1>7, DraftsStay DEF Types
<1>9. Fewer
  BY <1>1, <1>6, SameConsumer, SameClicks DEF Fewer, Single
<1>10. up'
  BY <1>1 DEF Down, NoWorker
<1> QED
  BY <1>1, <1>5, <1>6, <1>8, <1>9, <1>10, Kept

(* What a commit of the turn comes to, when it changes no recovery state.  *)
LEMMA TurnCommitted ==
  ASSUME IInv, UNCHANGED <<bus, inbox, consumer, click, up, sent, ids, offers, latest>>,
         UNCHANGED <<tail, registered, cancelled, turns>>,
         worker.pc \in {"restore", "prepare"},
         NEW cur, Amends(cur, worker.draft.base), cur.state = worker.draft.base.state,
         NEW pc \in {"prepare", "run"},
         pc = "prepare" \/ worker.pc = "prepare" => worker.msg.kind # "resume",
         cur.ckpt = NoCheckpoint,
         CommitTurn(cur, pc)
  PROVE  IInv'
<1> USE DEF IInv
<1> DEFINE d == worker.draft
<1>1. /\ Unchanged(d) /\ d.cur = d.base /\ d.base \in Session /\ worker \in TurnType
      /\ worker.msg \in Message /\ worker.pc \in InTurn
  BY DEF Types, WorkerOK, InTurn, Unchanged, TurnType
<1>2. worker.ckpt = NoCheckpoint /\ row.ckpt \in {d.base.ckpt, NoCheckpoint}
  BY <1>1 DEF TurnCheckpoint
<1>3. worker.pc # "none" /\ OfWorker = {}
  BY DEF OfWorker
<1>4. tail' \in BOOLEAN /\ registered' \in BOOLEAN /\ cancelled' \in BOOLEAN /\ turns' \in Nat
  BY DEF Types, Counters
<1>5. CASE worker' = Raised /\ UNCHANGED <<row, clock>>
  <2>1. worker'.pc = "complete" /\ worker'.msg = worker.msg
    BY <1>5 DEF Raised
  <2>2. WorkerOK' /\ OfWorker' = {} /\ ~Continuing' /\ TurnCheckpoint'
    BY <1>1, <2>1 DEF WorkerOK, WithMessage, WithDraft, InTurn, OfWorker, Continuing, TurnCheckpoint
  <2>3. Quiet
    BY <1>5 DEF Quiet
  <2>4. RowOK' /\ RowKept /\ row'.state = row.state /\ Onward
    BY <2>3, QuietRow DEF Types
  <2> QED
    BY <1>3, <1>4, <2>2, <2>4, WorkerCommits
<1>6. CASE /\ ~Clash(Changed(d, cur)) /\ Commit(Changed(d, cur))
           /\ worker' = To(pc, [base |-> row', cur |-> row'])
  <2>1. /\ RowKept /\ Onward /\ row'.state = row.state /\ row'.state.at <= clock'
        /\ cur.ckpt # d.base.ckpt => row'.ckpt = NoCheckpoint
    BY <1>1, <1>6, CommitOnward
  <2>2. RowOK'
    BY <2>1, RowGoesOn
  <2>3. row'.ckpt = NoCheckpoint
    BY <1>2, <2>1 DEF RowKept
  <2>4. /\ worker' \in TurnType /\ worker'.pc = pc /\ worker'.msg = worker.msg
        /\ worker'.draft = [base |-> row', cur |-> row'] /\ worker'.ckpt = NoCheckpoint
    BY <1>1, <1>2, <1>6, <2>1 DEF To, TurnType, InTurn, RowKept
  <2>5. /\ worker'.draft \in [base : Session, cur : Session]
        /\ worker'.draft.cur = row' /\ worker'.draft.base = row'
    BY <2>1, <2>4 DEF RowKept
  <2>6. row'.state.at \in 0 .. clock'
    BY <2>1 DEF RowKept, Session, StateType, Onward
  <2>7. WorkerOK' /\ OfWorker' = {}
    BY <2>4, <2>5, <2>6 DEF WorkerOK, WithMessage, WithDraft, InTurn, OfWorker, Unchanged
  <2>8. TurnCheckpoint'
    BY <2>3, <2>4, <2>5 DEF TurnCheckpoint, NoCheckpoint
  <2>9. Continuing' => Continuing
    BY <2>4 DEF Continuing, InTurn
  <2> QED
    BY <1>3, <1>4, <2>1, <2>2, <2>7, <2>8, <2>9, WorkerCommits
<1> QED
  BY <1>5, <1>6 DEF CommitTurn

LEMMA RestoreKeeps ==
  ASSUME IInv, Restore
  PROVE  IInv'
<1> USE DEF IInv
<1> DEFINE d == worker.draft
           r == d.base
           resume == worker.msg.kind = "resume"
           cur == IF resume THEN Restored(r) ELSE Interrupted(Restored(r))
           pc == IF resume THEN "run" ELSE "prepare"
<1>1. /\ UNCHANGED <<bus, inbox, consumer, click, up, sent, ids, offers, latest>>
      /\ UNCHANGED <<tail, registered, cancelled, turns>> /\ worker.pc = "restore"
  BY DEF Restore, turnFrame, workerFrame
<1>2. /\ Unchanged(d) /\ d.cur = d.base /\ r \in Session /\ worker \in TurnType
      /\ worker.msg \in Message
  BY <1>1 DEF Types, WorkerOK, InTurn, Unchanged, TurnType
<1>3. \/ cur = r /\ worker' = To(pc, d) /\ UNCHANGED <<row, clock>>
      \/ CommitTurn(cur, pc)
  BY <1>2 DEF Restore
<1>4. Amends(cur, r) /\ cur.state = r.state /\ cur.ckpt = NoCheckpoint
  <2>1. /\ Amends(Restored(r), r) /\ Restored(r).state = r.state
        /\ Restored(r).ckpt = NoCheckpoint /\ Restored(r) \in Session
    BY <1>2, RestoredIs DEF Amends
  <2>2. Extends(Interrupted(Restored(r)), Restored(r))
    BY <2>1, InterruptedIs
  <2>3. /\ Amends(Interrupted(Restored(r)), r) /\ Interrupted(Restored(r)).state = r.state
        /\ Interrupted(Restored(r)).ckpt = NoCheckpoint
    BY <1>2, <2>1, <2>2, ExtendsAmended
  <2> QED
    BY <2>1, <2>3
<1>5. pc \in {"prepare", "run"} /\ (pc = "prepare" => worker.msg.kind # "resume")
  OBVIOUS
<1> HIDE DEF cur, pc
<1>6. CASE cur = r /\ worker' = To(pc, d) /\ UNCHANGED <<row, clock>>
  <2>1. Quiet
    BY <1>1, <1>6 DEF Quiet
  <2>2. RowOK' /\ RowKept /\ row'.state = row.state /\ Onward
    BY <2>1, QuietRow DEF Types
  <2>3. r.ckpt = NoCheckpoint /\ worker.ckpt = NoCheckpoint /\ row.ckpt = NoCheckpoint
    BY <1>1, <1>4, <1>6 DEF TurnCheckpoint, InTurn
  <2>4. /\ worker' \in TurnType /\ worker'.pc = pc /\ worker'.msg = worker.msg
        /\ worker'.draft = d /\ worker'.ckpt = NoCheckpoint
    BY <1>2, <1>5, <1>6, <2>3 DEF To, TurnType, InTurn
  <2>5. Unchanged(d)'
    BY <1>2, <2>2, <2>4 DEF Unchanged, Onward
  <2>6. WorkerOK' /\ OfWorker' = {}
    BY <1>5, <2>4, <2>5 DEF WorkerOK, WithMessage, WithDraft, InTurn, OfWorker
  <2>7. TurnCheckpoint'
    BY <1>6, <2>3, <2>4 DEF TurnCheckpoint, NoCheckpoint
  <2>8. Continuing' => Continuing
    BY <1>1, <2>4 DEF Continuing, InTurn
  <2>9. tail' \in BOOLEAN /\ registered' \in BOOLEAN /\ cancelled' \in BOOLEAN /\ turns' \in Nat
    BY <1>1 DEF Types, Counters
  <2> QED
    BY <1>1, <2>2, <2>6, <2>7, <2>8, <2>9, WorkerCommits
<1>7. CASE CommitTurn(cur, pc)
  <2> HIDE DEF IInv
  <2> QED
    BY <1>1, <1>4, <1>5, <1>7, TurnCommitted
<1> QED
  BY <1>3, <1>6, <1>7

LEMMA PrepareKeeps ==
  ASSUME IInv, Prepare
  PROVE  IInv'
<1> DEFINE d == worker.draft
           r == d.base
           h == Append(r.hist, Row("user", worker.msg.n, 0))
           cur == [r EXCEPT !.hist = h, !.pending = TRUE]
<1>1. /\ UNCHANGED <<bus, inbox, consumer, click, up, sent, ids, offers, latest>>
      /\ UNCHANGED <<tail, registered, cancelled, turns>> /\ worker.pc = "prepare"
  BY DEF Prepare, turnFrame, workerFrame
<1>2. /\ Unchanged(d) /\ d.cur = d.base /\ r \in Session
      /\ worker.msg \in Message /\ worker.msg.kind # "resume"
  BY <1>1 DEF IInv, Types, WorkerOK, InTurn, Unchanged, TurnType
<1>3. CommitTurn(cur, "run")
  BY <1>2 DEF Prepare
<1>4. r.ckpt = NoCheckpoint
  BY <1>1 DEF IInv, TurnCheckpoint, InTurn
<1>5. /\ r.hist \in Seq(RowType) /\ <<Row("user", worker.msg.n, 0)>> \in Seq(RowType)
      /\ h = r.hist \o <<Row("user", worker.msg.n, 0)>> /\ h \in Seq(RowType)
  <2>1. Row("user", worker.msg.n, 0) \in RowType /\ r.hist \in Seq(RowType)
    BY <1>2 DEF Row, RowType, Message, Session
  <2> QED
    BY <2>1, Appended
<1> HIDE DEF h
<1>6. cur \in Session /\ cur.hist = h /\ cur.state = r.state /\ cur.ckpt = NoCheckpoint
  BY <1>2, <1>4, <1>5 DEF Session
<1> HIDE DEF cur
<1>7. Amends(cur, r)
  BY <1>4, <1>5, <1>6 DEF Amends
<1> QED
  BY <1>1, <1>2, <1>3, <1>6, <1>7, TurnCommitted

(* The checkpoint goes into the row, the draft and its baseline at once.   *)
LEMMA CheckpointKeeps ==
  ASSUME IInv, Checkpoint
  PROVE  IInv'
<1> USE DEF IInv
<1>1. /\ UNCHANGED <<bus, inbox, consumer, click, up, sent, ids, offers, clock>>
      /\ UNCHANGED <<registered, cancelled, turns>> /\ worker.pc = "run" /\ tail' = TRUE
  BY DEF Checkpoint, turnFrame, workerFrame
<1>2. /\ Unchanged(worker.draft) /\ worker \in TurnType /\ row \in Session
      /\ worker.ckpt \in CheckpointType
  BY <1>1 DEF Types, WorkerOK, InTurn, TurnType, RowOK
<1>3. PICK c \in NextCheckpoints :
        /\ row' = [row EXCEPT !.ckpt = c] /\ latest' = c
        /\ worker' = [worker EXCEPT !.ckpt = c, !.draft.cur.ckpt = c, !.draft.base.ckpt = c]
  BY DEF Checkpoint
<1>4. /\ c \in CheckpointType /\ c.phase # "none"
      /\ c.phase \in {"awaiting_tools", "tools_completed"} => c.k >= 1
  <2>1. /\ worker.turn \in Nat /\ worker.ckpt.k \in Nat
        /\ worker.ckpt.phase \in {"none", "awaiting_tools", "tools_completed", "final_response"}
        /\ worker.ckpt.phase = "awaiting_tools" => worker.ckpt.k >= 1
    BY <1>1, <1>2 DEF TurnType, CheckpointType, TurnCheckpoint, InTurn
  <2>2. \/ c = [of |-> worker.turn, k |-> worker.ckpt.k, phase |-> "final_response"]
        \/ c = [of |-> worker.turn, k |-> worker.ckpt.k + 1, phase |-> "awaiting_tools"]
        \/ /\ c = [of |-> worker.turn, k |-> worker.ckpt.k, phase |-> "tools_completed"]
           /\ worker.ckpt.phase = "awaiting_tools"
    BY <2>1 DEF NextCheckpoints
  <2> QED
    BY <2>1, <2>2 DEF CheckpointType
<1>5. /\ row' \in Session /\ row'.state = row.state /\ row'.hist = row.hist /\ row'.ckpt = c
  BY <1>2, <1>3, <1>4 DEF Session
<1> DEFINE b == worker.draft.base
           e == [b EXCEPT !.ckpt = c]
<1>6. b \in Session /\ worker.draft.cur = b /\ Range(b.hist) \subseteq Range(row.hist) /\ b.state.at \in 0 .. clock
  BY <1>2 DEF Unchanged
<1>7. e \in Session /\ e.hist = b.hist /\ e.state = b.state /\ e.ckpt = c
  BY <1>4, <1>6 DEF Session
<1>8. /\ worker' \in TurnType /\ worker'.pc = "run" /\ worker'.msg = worker.msg
      /\ worker'.ckpt = c /\ worker'.draft.base = e /\ worker'.draft.cur = e
  <2>1. worker'.draft = [base |-> e, cur |-> e]
    BY <1>2, <1>3, <1>6 DEF TurnType
  <2>2. /\ worker'.pc = "run" /\ worker'.msg = worker.msg /\ worker'.ckpt = c
        /\ worker' = [pc |-> worker.pc, msg |-> worker.msg, turn |-> worker.turn, ckpt |-> c,
                      draft |-> worker'.draft]
    BY <1>1, <1>2, <1>3 DEF TurnType
  <2> HIDE DEF e
  <2>3. worker' \in TurnType
    BY <1>2, <1>4, <1>7, <2>1, <2>2 DEF TurnType
  <2> QED
    BY <2>1, <2>2, <2>3
<1> HIDE DEF b, e
<1>9. Unchanged(worker.draft)'
  <2>1. worker'.draft \in [base : Session, cur : Session]
    BY <1>8 DEF TurnType
  <2> QED
    BY <1>1, <1>5, <1>6, <1>7, <1>8, <2>1 DEF Unchanged
<1>10. WorkerOK' /\ OfWorker' = {} /\ OfWorker = {}
  BY <1>1, <1>8, <1>9 DEF WorkerOK, WithMessage, WithDraft, InTurn, OfWorker
<1>11. Onward /\ RowOK'
  BY <1>1, <1>5 DEF Types, RowOK, Counters, Onward
<1>12. Counters'
  BY <1>1, <1>3, <1>4 DEF Types, Counters
<1>13. Types'
  BY <1>1, <1>10, <1>11, <1>12, DraftsStay DEF Types
<1>14. TurnCheckpoint'
  BY <1>4, <1>5, <1>7, <1>8 DEF TurnCheckpoint
<1>15. LatestKept'
  BY <1>3, <1>5 DEF LatestKept
<1>16. Fewer /\ (LateInput' <=> LateInput)
  BY <1>1, <1>10, WorkerAlone
<1>17. Single' /\ Offered'
  BY <1>1, <1>5, <1>16, FewerKeeps, OfferedStays
<1>18. Continuing' => Continuing
  BY <1>1, <1>8 DEF Continuing, InTurn
<1>19. Overtaken' /\ Fresh'
  BY <1>1, <1>5, <1>16, <1>18, OvertakenStays, FreshStays
<1>20. Down'
  BY <1>1 DEF Down, NoWorker
<1> QED
  BY <1>13, <1>14, <1>15, <1>17, <1>19, <1>20

(* The rows of a turn that ends hold what its checkpoint stands for.       *)
LEMMA RowsOfTurn ==
  ASSUME NEW c \in CheckpointType, NEW failure \in {"none", "model"},
         failure = "none" => c.phase = "final_response",
         failure = "model" => c.phase = "tools_completed" /\ c.k >= 1
  PROVE  RowOf(c) \in Range(RowsOf(c, failure))
<1> DEFINE u == [k \in 1 .. c.k |-> Row("tools", c.of, k)]
           v == IF failure = "none" THEN <<RowOf(c)>> ELSE <<>>
<1>1. c.k \in Nat /\ c.of \in Nat
  BY DEF CheckpointType
<1>2. u \in Seq(RowType) /\ Len(u) = c.k /\ \A k \in 1 .. c.k : u[k] = Row("tools", c.of, k)
  <2>1. \A k \in 1 .. c.k : Row("tools", c.of, k) \in RowType
    BY <1>1, Kinds
  <2> QED
    BY <1>1, <2>1
<1>3. v \in Seq(RowType)
  <2>1. RowOf(c) \in RowType
    BY Kinds
  <2> QED
    BY <2>1
<1>4. RowsOf(c, failure) = u \o v
  BY DEF RowsOf
<1>5. CASE failure = "none"
  <2>1. v = <<RowOf(c)>>
    BY <1>5
  <2>2. RowOf(c) \in Range(v)
    BY <2>1 DEF Range
  <2> HIDE DEF u, v
  <2> QED
    BY <1>2, <1>3, <1>4, <2>2, RangeJoined
<1>6. CASE failure = "model"
  <2>1. RowOf(c) = u[c.k] /\ c.k \in DOMAIN u
    BY <1>1, <1>2, <1>6 DEF RowOf
  <2> HIDE DEF u, v
  <2>2. RowOf(c) \in Range(u)
    BY <2>1 DEF Range
  <2> QED
    BY <1>2, <1>3, <1>4, <2>2, RangeJoined
<1> QED
  BY <1>5, <1>6

LEMMA RowsTyped ==
  ASSUME NEW c \in CheckpointType, NEW failure
  PROVE  RowsOf(c, failure) \in Seq(RowType)
<1> DEFINE u == [k \in 1 .. c.k |-> Row("tools", c.of, k)]
           v == IF failure = "none" THEN <<RowOf(c)>> ELSE <<>>
<1>1. u \in Seq(RowType)
  <2>1. c.k \in Nat /\ \A k \in 1 .. c.k : Row("tools", c.of, k) \in RowType
    BY Kinds DEF CheckpointType
  <2> QED
    BY <2>1
<1>2. v \in Seq(RowType)
  <2>1. RowOf(c) \in RowType
    BY Kinds
  <2> QED
    BY <2>1
<1>3. RowsOf(c, failure) = u \o v
  BY DEF RowsOf
<1> HIDE DEF u, v
<1> QED
  BY <1>1, <1>2, <1>3, ConcatProperties

LEMMA FinishKeeps ==
  ASSUME IInv, NEW failure \in {"none", "model", "internal"}, Finish(failure)
  PROVE  IInv'
<1> USE DEF IInv
<1> DEFINE d == worker.draft
           r == d.base
           c == worker.ckpt
           h == r.hist \o RowsOf(c, failure)
           cur == [r EXCEPT !.hist = h, !.pending = FALSE, !.ckpt = NoCheckpoint]
<1>1. /\ UNCHANGED <<bus, inbox, consumer, click, up, sent, ids, offers, latest>>
      /\ UNCHANGED <<tail, registered, cancelled, turns>> /\ worker.pc = "run"
  BY DEF Finish, turnFrame, workerFrame
<1>2. /\ Unchanged(d) /\ d.cur = r /\ r \in Session /\ c \in CheckpointType
      /\ worker.msg \in Message
  BY <1>1 DEF Types, WorkerOK, InTurn, Unchanged, TurnType
<1>3. \/ worker' = Raised /\ UNCHANGED <<row, clock>>
      \/ /\ failure # "internal" /\ ~Clash(Changed(d, cur)) /\ Commit(Changed(d, cur))
         /\ worker' = [pc |-> "complete", msg |-> worker.msg, failure |-> failure]
  BY <1>2 DEF Finish
<1>4. /\ r.ckpt = c
      /\ c.phase = "none" => c = NoCheckpoint
      /\ c.phase \in {"awaiting_tools", "tools_completed"} => c.k >= 1
  BY <1>1 DEF TurnCheckpoint, InTurn
<1>5. /\ failure = "none" => c.phase = "final_response"
      /\ failure = "model" => c.phase \in {"none", "tools_completed"}
  BY DEF Finish
<1>6. worker'.pc = "complete" /\ worker'.msg = worker.msg
  BY <1>3 DEF Raised
<1>7. WorkerOK' /\ OfWorker' = {} /\ ~Continuing' /\ TurnCheckpoint'
  BY <1>2, <1>6 DEF WorkerOK, WithMessage, WithDraft, InTurn, OfWorker, Continuing, TurnCheckpoint
<1>8. tail' \in BOOLEAN /\ registered' \in BOOLEAN /\ cancelled' \in BOOLEAN /\ turns' \in Nat
  BY <1>1 DEF Types, Counters
<1>9. RowKept /\ Onward /\ RowOK' /\ row'.state = row.state
  <2>1. CASE UNCHANGED <<row, clock>>
    <3>1. Quiet
      BY <1>1, <2>1 DEF Quiet
    <3> QED
      BY <3>1, QuietRow DEF Types
  <2>2. CASE failure # "internal" /\ ~Clash(Changed(d, cur)) /\ Commit(Changed(d, cur))
    <3>1. r.hist \in Seq(RowType) /\ RowsOf(c, failure) \in Seq(RowType) /\ h \in Seq(RowType)
      <4>1. r.hist \in Seq(RowType) /\ RowsOf(c, failure) \in Seq(RowType)
        BY <1>2, RowsTyped DEF Session
      <4> QED
        BY <4>1, ConcatProperties
    <3>2. Range(h) = Range(r.hist) \cup Range(RowsOf(c, failure))
      BY <3>1, RangeJoined
    <3>3. cur \in Session /\ cur.hist = h /\ cur.state = r.state /\ cur.ckpt = NoCheckpoint
      <4> HIDE DEF h
      <4> QED
        BY <1>2, <3>1, Kinds DEF Session
    <3>4. cur.ckpt # r.ckpt => RowOf(r.ckpt) \in Range(h)
      <4> SUFFICES ASSUME c # NoCheckpoint  PROVE RowOf(c) \in Range(RowsOf(c, failure))
        BY <1>4, <3>2, <3>3
      <4>1. failure \in {"none", "model"}
        BY <2>2
      <4>2. failure = "model" => c.phase = "tools_completed" /\ c.k >= 1
        BY <1>4, <1>5
      <4> QED
        BY <1>2, <1>5, <4>1, <4>2, RowsOfTurn
    <3>5. \E s \in Seq(RowType) : h = r.hist \o s
      BY <3>1
    <3> HIDE DEF h, cur
    <3>6. Amends(cur, r)
      BY <3>3, <3>4, <3>5 DEF Amends
    <3> HIDE DEF d
    <3>7. RowKept /\ Onward /\ row'.state.at <= clock' /\ row'.state = row.state
      BY <1>2, <2>2, <3>3, <3>6, CommitOnward
    <3> QED
      BY <1>1, <3>7, RowGoesOn
  <2> QED
    BY <1>3, <2>1, <2>2
<1>10. worker.pc # "none"
  BY <1>1
<1> QED
  BY <1>1, <1>7, <1>8, <1>9, <1>10, WorkerCommits

LEMMA CompletedKeeps ==
  ASSUME IInv, Completed
  PROVE  IInv'
<1> USE DEF IInv
<1> DEFINE d == worker.draft
           r == d.base
           st == State("awaiting_user", ids + 1, TRUE, "model", 0)
           offer == [r EXCEPT !.state = st]
           done == Become(r, "recovered")
<1>1. /\ UNCHANGED <<bus, inbox, consumer, click, up, sent, latest>>
      /\ UNCHANGED <<tail, cancelled, turns>> /\ worker.pc = "completed"
      /\ worker' = [pc |-> "head"] /\ registered' = FALSE
  BY DEF Completed, workerFrame
<1>2. Unchanged(d) /\ d.cur = r /\ r \in Session
  BY <1>1 DEF Types, WorkerOK, WithDraft, Unchanged
<1>3. \/ UNCHANGED <<row, clock, ids, offers>>
      \/ /\ ~Clash(Changed(d, offer)) /\ Commit(Changed(d, offer))
         /\ ids' = ids + 1 /\ offers' = offers \cup {ids + 1}
      \/ /\ ~Clash(Changed(d, done)) /\ Commit(Changed(d, done))
         /\ UNCHANGED <<ids, offers>>
  <2>1. CASE worker.failure = "model"
    BY <1>2, <2>1 DEF Completed
  <2>2. CASE worker.failure # "model" /\ r.state.status = "resuming"
    BY <1>2, <2>2 DEF Completed
  <2>3. CASE worker.failure # "model" /\ r.state.status # "resuming"
    BY <1>2, <2>3 DEF Completed
  <2> QED
    BY <2>1, <2>2, <2>3
<1>4. worker'.pc = "head"
  BY <1>1
<1>5. /\ WorkerOK' /\ OfWorker' = {} /\ ~Continuing' /\ TurnCheckpoint'
      /\ OfWorker = {} /\ worker.pc # "none"
  BY <1>1, <1>4 DEF WorkerOK, WithMessage, WithDraft, InTurn, OfWorker, Continuing, TurnCheckpoint
<1>6. tail' \in BOOLEAN /\ registered' \in BOOLEAN /\ cancelled' \in BOOLEAN /\ turns' \in Nat
  BY <1>1 DEF Types, Counters
<1>7. clock \in Nat /\ ids \in Nat /\ Amends(r, r)
  BY <1>2, AmendsItself DEF Types, Counters
<1>8. CASE UNCHANGED <<row, clock, ids, offers>>
  <2>1. Quiet
    BY <1>1, <1>8 DEF Quiet
  <2>2. RowOK' /\ RowKept /\ row'.state = row.state /\ Onward
    BY <2>1, QuietRow DEF Types
  <2>3. Quiet /\ UNCHANGED <<bus, inbox, consumer, click, up, sent>>
    BY <1>1, <2>1
  <2>4. Fewer /\ (LateInput' <=> LateInput)
    BY <1>5, <2>3, WorkerAlone
  <2>5. Overtaken' /\ Fresh'
    BY <1>1, <1>5, <2>2, <2>4, OvertakenStays DEF Fresh
  <2>6. Types'
    BY <1>1, <1>5, <1>6, <2>1, <2>2, DraftsStay, QuietCounters DEF Types, Counters
  <2>7. up' /\ worker'.pc \notin InTurn
    BY <1>1, <1>4 DEF Down, NoWorker, InTurn
  <2> QED
    BY <1>1, <1>8, <2>2, <2>4, <2>5, <2>6, <2>7, Kept
<1>9. CASE /\ ~Clash(Changed(d, done)) /\ Commit(Changed(d, done))
           /\ UNCHANGED <<ids, offers>>
  <2>1. /\ Amends(done, r) /\ done.state.status = "recovered" /\ done.state.id = r.state.id
        /\ done.state.at = clock + 1
    BY <1>2, <1>7, BecomeIs
  <2> HIDE DEF done, d
  <2>2. /\ RowKept /\ Onward /\ row'.state.at <= clock'
        /\ row.state = r.state /\ row'.state = done.state
    BY <1>2, <1>9, <2>1, CommitOnward
  <2>3. row'.state.status = "recovered" /\ row'.state.id = row.state.id
    BY <2>1, <2>2
  <2>4. RowOK'
    BY <1>9, <2>2, <2>3, RowGoesOn
  <2>5. Counters'
    BY <1>1, <1>6, <1>9, <2>2, CommitCounters DEF Types, Counters
  <2>6. Types'
    BY <1>1, <1>5, <2>2, <2>4, <2>5, DraftsStay DEF Types
  <2>7. Fewer /\ (LateInput' <=> LateInput)
    BY <1>1, <1>5, WorkerAlone
  <2>8. Overtaken' /\ Fresh'
    BY <1>1, <1>5, <2>3, OvertakenStays DEF Fresh
  <2>9. up' /\ worker'.pc \notin InTurn
    BY <1>1, <1>4 DEF Down, NoWorker, InTurn
  <2> QED
    BY <1>1, <1>9, <2>2, <2>3, <2>6, <2>7, <2>8, <2>9, Kept
<1>10. CASE /\ ~Clash(Changed(d, offer)) /\ Commit(Changed(d, offer))
            /\ ids' = ids + 1 /\ offers' = offers \cup {ids + 1}
  <2>1. /\ st \in StateType /\ st.status = "awaiting_user" /\ st.id = ids + 1
        /\ st.at = clock + 1
    BY <1>7 DEF State, StateType
  <2> HIDE DEF st
  <2>2. Amends(offer, r) /\ offer.state = st
    BY <1>2, <1>7, <2>1, StateGiven
  <2> HIDE DEF offer, d
  <2>3. /\ RowKept /\ Onward /\ row'.state.at <= clock' /\ row'.state = st
    BY <1>2, <1>10, <2>1, <2>2, CommitOnward
  <2>4. RowOK'
    BY <1>7, <1>10, <2>1, <2>3 DEF RowOK, RowKept
  <2>5. Counters'
    BY <1>1, <1>6, <1>7, <1>10, <2>3 DEF Types, Counters, Onward
  <2>6. Types'
    BY <1>1, <1>5, <2>3, <2>4, <2>5, DraftsStay DEF Types
  <2>7. Fewer /\ (LateInput' <=> LateInput)
    BY <1>1, <1>5, WorkerAlone
  <2>8. Single' /\ Outstanding' \subseteq Outstanding
    BY <2>7, FewerKeeps
  <2>9. ids + 1 \notin Outstanding
    BY <1>7 DEF Offered, Types, Counters
  <2>10. Offered'
    BY <1>10, <2>1, <2>3, <2>8, <2>9 DEF Offered
  <2>11. row'.state.status # "resuming"
    BY <2>1, <2>3
  <2>12. Overtaken' /\ Fresh'
    BY <1>1, <1>5, <2>11, OvertakenStays DEF Fresh
  <2>13. Down' /\ LatestKept'
    BY <1>1, <1>5, <2>3, LatestStays DEF Down, NoWorker
  <2> QED
    BY <1>5, <2>6, <2>8, <2>10, <2>12, <2>13
<1> QED
  BY <1>3, <1>8, <1>9, <1>10

-----------------------------------------------------------------------------
(* The end of the gateway, and the next one.                               *)

(* Without a gateway there is nobody and nothing under way.                *)
LEMMA NobodyIs ==
  ASSUME up \in BOOLEAN, bus' = <<>>, inbox' = <<>>, consumer' = Idle, worker' = NoWorker,
         DOMAIN click' = Clickers, \A c \in Clickers : click'[c] = Idle
  PROVE  /\ bus' \in Seq(Message) /\ inbox' \in Seq(Message)
         /\ WorkerOK' /\ ConsumerOK' /\ ClicksOK'
         /\ Down' /\ TurnCheckpoint' /\ Single' /\ Outstanding' = {} /\ Overtaken' /\ Fresh'
<1>1. worker'.pc = "none" /\ consumer'.pc = "idle" /\ \A c \in Clickers : click'[c].pc = "idle"
  BY DEF NoWorker, Idle
<1>2. WorkerOK' /\ TurnCheckpoint' /\ OfWorker' = {} /\ ~Continuing'
  BY <1>1 DEF WorkerOK, WithMessage, WithDraft, InTurn, TurnCheckpoint, OfWorker, Continuing
<1>3. ConsumerOK' /\ OfConsumer' = {}
  BY <1>1 DEF ConsumerOK, OfConsumer
<1>4. ClicksOK' /\ \A c \in Clickers : OfClick(c)' = {}
  BY <1>1 DEF ClicksOK, OfClick
<1>5. OfClicks' = {}
  BY <1>4 DEF OfClicks
<1>6. /\ bus' \in Seq(Message) /\ inbox' \in Seq(Message)
      /\ Permits(bus') = {} /\ Once(bus') /\ Permits(inbox') = {} /\ Once(inbox') /\ DOMAIN inbox' = {}
  BY PermitsOfFew
<1>7. Outstanding' = {}
  BY <1>2, <1>3, <1>5, <1>6 DEF Outstanding
<1>8. Single'
  BY <1>2, <1>3, <1>4, <1>5, <1>6 DEF Single
<1>9. Overtaken' /\ Fresh' /\ Down'
  BY <1>2, <1>6 DEF Overtaken, Fresh, Down
<1> QED
  BY <1>2, <1>3, <1>4, <1>6, <1>7, <1>8, <1>9

LEMMA CrashKeeps ==
  ASSUME IInv, Crash
  PROVE  IInv'
<1> USE DEF IInv
<1>1. /\ Quiet /\ UNCHANGED <<tail, sent, turns>> /\ up' = FALSE
      /\ bus' = <<>> /\ inbox' = <<>> /\ consumer' = Idle /\ worker' = NoWorker
      /\ registered' = FALSE /\ cancelled' = FALSE
      /\ DOMAIN click' = Clickers /\ \A c \in Clickers : click'[c] = Idle
  BY DEF Crash, Quiet
<1>2. RowOK' /\ RowKept /\ row'.state = row.state /\ Onward
  BY <1>1, QuietRow DEF Types
<1>3. up \in BOOLEAN /\ up' \in BOOLEAN /\ registered' \in BOOLEAN /\ cancelled' \in BOOLEAN
  BY <1>1 DEF Types, Counters
<1>4. Counters'
  BY <1>1, <1>3, QuietCounters DEF Types, Counters
<1>5. /\ bus' \in Seq(Message) /\ inbox' \in Seq(Message)
      /\ WorkerOK' /\ ConsumerOK' /\ ClicksOK'
      /\ Down' /\ TurnCheckpoint' /\ Single' /\ Outstanding' = {} /\ Overtaken' /\ Fresh'
  BY <1>1, <1>3, NobodyIs
<1>6. Offered' /\ LatestKept'
  BY <1>1, <1>2, <1>5, OfferedStays, LatestStays DEF Quiet
<1> QED
  BY <1>2, <1>4, <1>5, <1>6 DEF Types

(* What the scan makes of an interrupted session.                          *)
LEMMA RecoveredIs ==
  ASSUME Types, NEW r \in Recovered
  PROVE  /\ Amends(r, row) /\ r.state.at = clock + 1 /\ r.state.id \in {row.state.id, ids + 1}
         /\ r.state.status \in {"recovered", "awaiting_user"}
<1> DEFINE New(q, status, can) ==
             [q EXCEPT !.state = State(status, ids + 1, can, "other", 0)]
           Outcome(q) == /\ Amends(q, row) /\ q.state.at = clock + 1
                         /\ q.state.id \in {row.state.id, ids + 1}
                         /\ q.state.status \in {"recovered", "awaiting_user"}
           Final == {"recovered", "awaiting_user"}
<1>1. row \in Session /\ clock \in Nat /\ ids \in Nat
  BY DEF Types, RowOK, Counters
<1>2. Amends(row, row)
  BY <1>1, AmendsItself
<1>3. Amends(Restored(row), row) /\ Restored(row).state = row.state /\ Restored(row) \in Session
  BY <1>1, RestoredIs DEF Amends
<1>4. /\ Amends(Interrupted(Restored(row)), row)
      /\ Interrupted(Restored(row)).state = row.state
  <2>1. Extends(Interrupted(Restored(row)), Restored(row))
    BY <1>3, InterruptedIs
  <2> QED
    BY <1>1, <1>3, <2>1, ExtendsAmended
<1>5. ASSUME NEW q, Amends(q, row), q.state = row.state, NEW status \in Final
      PROVE  Outcome(Become(q, status))
  BY <1>1, <1>5, BecomeIs
<1>6. ASSUME NEW q, Amends(q, row), NEW status \in Final, NEW can \in BOOLEAN
      PROVE  Outcome(New(q, status, can))
  <2> DEFINE st == State(status, ids + 1, can, "other", 0)
  <2>1. st \in StateType /\ st.status = status /\ st.id = ids + 1 /\ st.at = clock + 1
    BY <1>1 DEF State, StateType
  <2> HIDE DEF st
  <2>2. Amends([q EXCEPT !.state = st], row) /\ [q EXCEPT !.state = st].state = st
    BY <1>1, <1>6, <2>1, StateGiven
  <2> QED
    BY <1>6, <2>1, <2>2 DEF st
<1>7. SavedContext(row.hist) \in BOOLEAN
  BY DEF SavedContext
<1>8. \/ \E status \in Final : r = Become(row, status)
      \/ r = New(row, "awaiting_user", SavedContext(row.hist))
      \/ r = Become(Interrupted(Restored(row)), "awaiting_user")
      \/ \E status \in Final : r = New(Restored(row), status, TRUE)
  <2> HIDE DEF New
  <2>1. CASE ~row.pending /\ row.ckpt = NoCheckpoint /\ row.state.status = "resuming"
    BY <2>1 DEF Recovered
  <2>2. CASE ~row.pending /\ row.ckpt = NoCheckpoint /\ row.state.status # "resuming" /\ tail
    BY <2>2 DEF Recovered, New
  <2>3. CASE ~row.pending /\ row.ckpt = NoCheckpoint /\ row.state.status # "resuming" /\ ~tail
    BY <2>3 DEF Recovered
  <2>4. CASE (row.pending \/ row.ckpt # NoCheckpoint) /\ row.state.status = "resuming"
    <3> DEFINE closed == Interrupted(Restored(row))
    <3> HIDE DEF closed
    <3>1. Recovered = {Become(closed, "awaiting_user")}
      BY <2>4 DEF Recovered, closed, Waiting
    <3> QED
      BY <3>1 DEF closed
  <2>5. CASE /\ row.pending \/ row.ckpt # NoCheckpoint
             /\ row.state.status # "resuming" /\ row.state.status \notin Waiting
    BY <2>5 DEF Recovered, New
  <2>6. CASE /\ row.pending \/ row.ckpt # NoCheckpoint
             /\ row.state.status # "resuming" /\ row.state.status \in Waiting
    BY <2>6 DEF Recovered
  <2> QED
    BY <2>1, <2>2, <2>3, <2>4, <2>5, <2>6
<1> HIDE DEF New, Outcome
<1>9. Outcome(r)
  <2>1. ASSUME NEW status \in Final, r = Become(row, status)  PROVE Outcome(r)
    BY <1>2, <1>5, <2>1
  <2>2. ASSUME r = New(row, "awaiting_user", SavedContext(row.hist))  PROVE Outcome(r)
    BY <1>2, <1>6, <1>7, <2>2
  <2>3. ASSUME r = Become(Interrupted(Restored(row)), "awaiting_user")  PROVE Outcome(r)
    BY <1>4, <1>5, <2>3
  <2>4. ASSUME NEW status \in Final, r = New(Restored(row), status, TRUE)  PROVE Outcome(r)
    BY <1>3, <1>6, <2>4
  <2> QED
    BY <1>8, <2>1, <2>2, <2>3, <2>4
<1> QED
  BY <1>9 DEF Outcome

LEMMA RestartKeeps ==
  ASSUME IInv, Restart
  PROVE  IInv'
<1> USE DEF IInv
<1>1. /\ UNCHANGED <<bus, inbox, consumer, worker, registered, cancelled, click, tail>>
      /\ UNCHANGED <<sent, turns, latest>> /\ ~up /\ up' = TRUE
  BY DEF Restart
<1>2. /\ bus' = <<>> /\ inbox' = <<>> /\ consumer' = Idle /\ worker' = NoWorker
      /\ DOMAIN click' = Clickers /\ \A c \in Clickers : click'[c] = Idle
  BY <1>1 DEF Down, Types, ClicksOK
<1>3. up \in BOOLEAN
  BY DEF Types, Counters
<1>4. /\ bus' \in Seq(Message) /\ inbox' \in Seq(Message)
      /\ WorkerOK' /\ ConsumerOK' /\ ClicksOK'
      /\ Down' /\ TurnCheckpoint' /\ Single' /\ Outstanding' = {} /\ Overtaken' /\ Fresh'
  BY <1>2, <1>3, NobodyIs
<1>5. \/ UNCHANGED <<row, clock, ids, offers>>
      \/ \E r \in Recovered, failed \in BOOLEAN :
            /\ row' = IF failed THEN FailedScan(r) ELSE r
            /\ clock' = clock + 1
            /\ ids' = IF r.state.id > ids THEN r.state.id ELSE ids
            /\ offers' = IF row'.state.status = "awaiting_user"
                         THEN offers \cup {r.state.id} ELSE offers
  BY DEF Restart
<1>6. CASE UNCHANGED <<row, clock, ids, offers>>
  <2>1. Quiet
    BY <1>1, <1>6 DEF Quiet
  <2>2. RowOK' /\ RowKept /\ row'.state = row.state /\ Onward
    BY <2>1, QuietRow DEF Types
  <2>3. Counters'
    BY <1>1, <2>1, QuietCounters DEF Types, Counters
  <2>4. Offered' /\ LatestKept'
    BY <1>1, <1>4, <1>6, <2>2, OfferedStays, LatestStays
  <2> QED
    BY <1>4, <2>2, <2>3, <2>4 DEF Types
<1>7. ASSUME NEW r \in Recovered, NEW failed \in BOOLEAN,
             row' = IF failed THEN FailedScan(r) ELSE r,
             clock' = clock + 1,
             ids' = IF r.state.id > ids THEN r.state.id ELSE ids,
             offers' = IF row'.state.status = "awaiting_user"
                       THEN offers \cup {r.state.id} ELSE offers
      PROVE  IInv'
  <2>1. /\ Amends(r, row) /\ r.state.at = clock + 1 /\ r.state.id \in {row.state.id, ids + 1}
        /\ r.state.status \in {"recovered", "awaiting_user"}
    BY <1>7, RecoveredIs
  <2>2. row \in Session /\ clock \in Nat /\ ids \in Nat /\ row.state.id <= ids /\ r \in Session
    BY <2>1 DEF Types, RowOK, Counters, Amends
  <2>3. r.state.id \in Nat
    BY <2>2 DEF Session, StateType
  <2>4. ids' \in Nat /\ ids' >= ids /\ r.state.id <= ids'
    BY <1>7, <2>1, <2>2, <2>3
  <2>5. /\ Amends(row', row) /\ row'.state.at = clock' /\ row'.state.id = r.state.id
        /\ row'.state.status \in {"recovered", "awaiting_user", "failed"}
        /\ row'.state.status = "failed" => ~row'.state.can
    <3>1. CASE failed
      <4> DEFINE st == State("failed", r.state.id, FALSE, "other", 0)
      <4>1. /\ st \in StateType /\ st.status = "failed" /\ st.id = r.state.id
            /\ st.at = clock + 1 /\ st.can = FALSE
        BY <2>2, <2>3 DEF State, StateType
      <4>2. row' = [r EXCEPT !.state = st]
        BY <1>7, <3>1 DEF FailedScan
      <4> HIDE DEF st
      <4>3. Amends(row', row) /\ row'.state = st
        BY <2>1, <2>2, <4>1, <4>2, StateGiven
      <4> QED
        BY <1>7, <4>1, <4>3
    <3>2. CASE ~failed
      BY <1>7, <2>1, <3>2
    <3> QED
      BY <3>1, <3>2
  <2>6. RowKept
    <3>1. PICK s \in Seq(RowType) : row'.hist = row.hist \o s
      BY <2>5 DEF Amends
    <3>2. row.hist \in Seq(RowType)
      BY <2>2 DEF Session
    <3>3. Range(row'.hist) = Range(row.hist) \cup Range(s)
      BY <3>1, <3>2, RangeJoined
    <3> QED
      BY <2>5, <3>3 DEF Amends, RowKept
  <2>7. RowOK'
    BY <1>7, <2>2, <2>4, <2>5 DEF RowOK, Amends
  <2>8. offers' \subseteq offers \cup {r.state.id}
    BY <1>7
  <2>9. Counters'
    <3>1. offers' \subseteq 0 .. ids'
      BY <2>2, <2>3, <2>4, <2>8 DEF Types, Counters
    <3>2. clock' \in Nat /\ up' \in BOOLEAN
      BY <1>1, <1>7, <2>2
    <3> QED
      BY <1>1, <2>4, <3>1, <3>2 DEF Types, Counters
  <2>10. Offered'
    BY <1>4, <1>7, <2>5 DEF Offered
  <2>11. LatestKept'
    BY <1>1, <2>6, LatestStays
  <2> QED
    BY <1>4, <2>7, <2>9, <2>10, <2>11 DEF Types
<1> QED
  BY <1>5, <1>6, <1>7

-----------------------------------------------------------------------------
(* The theorems.                                                           *)

LEMMA InitHolds ==
  ASSUME Init
  PROVE  IInv
<1>1. /\ bus = <<>> /\ inbox = <<>> /\ consumer = Idle /\ worker = NoWorker
      /\ registered = FALSE /\ cancelled = FALSE /\ click = [c \in Clickers |-> Idle]
      /\ up = TRUE /\ tail = FALSE /\ latest = NoCheckpoint
      /\ sent = Cardinality(offers) /\ ids = sent /\ clock = sent /\ turns = sent
  BY DEF Init
<1>2. /\ row \in Session /\ row.ckpt = NoCheckpoint
      /\ \/ offers = {} /\ sent = 0 /\ row.state.status = "none"
            /\ row.state.id = 0 /\ row.state.at = 0
         \/ offers = {1} /\ sent = 1 /\ row.state.status = "awaiting_user"
            /\ row.state.id = 1 /\ row.state.at = 1
  <2>1. CASE row = NewRow /\ offers = {}
    <3>1. /\ row.state = [status |-> "none", id |-> 0, at |-> 0, can |-> TRUE,
                          reason |-> "other", count |-> 0]
          /\ row.pending = FALSE /\ row.ckpt = NoCheckpoint /\ row.hist = <<>>
          /\ row = [state |-> row.state, pending |-> row.pending, ckpt |-> row.ckpt, hist |-> row.hist]
      BY <2>1 DEF NewRow
    <3>2. row \in Session
      <4>1. row.state \in StateType
        BY <3>1 DEF StateType
      <4>2. row.pending \in BOOLEAN /\ row.ckpt \in CheckpointType /\ row.hist \in Seq(RowType)
        <5>1. <<>> \in Seq(RowType)
          OBVIOUS
        <5>2. row.pending = FALSE /\ row.ckpt = NoCheckpoint /\ row.hist = <<>>
          BY <3>1
        <5> QED
          BY <5>1, <5>2, Kinds
      <4> QED
        BY <3>1, <4>1, <4>2 DEF Session
    <3>3. Cardinality({}) = 0
      BY FS_EmptySet
    <3> QED
      BY <1>1, <2>1, <3>1, <3>2, <3>3
  <2>2. CASE row = InterruptedRow /\ offers = {1}
    <3>1. <<Row("user", 1, 0)>> \in Seq(RowType)
      <4>1. Row("user", 1, 0) \in RowType
        BY DEF Row, RowType
      <4> QED
        BY <4>1
    <3>2. /\ row.state = [status |-> "awaiting_user", id |-> 1, at |-> 1, can |-> TRUE,
                          reason |-> "other", count |-> 0]
          /\ row.pending = TRUE /\ row.ckpt = NoCheckpoint /\ row.hist = <<Row("user", 1, 0)>>
          /\ row = [state |-> row.state, pending |-> row.pending, ckpt |-> row.ckpt, hist |-> row.hist]
      BY <2>2, ZenonT(90) DEF InterruptedRow, NewRow
    <3>3. row \in Session
      <4>1. row.state \in StateType
        BY <3>2 DEF StateType
      <4>2. row.pending \in BOOLEAN /\ row.ckpt \in CheckpointType /\ row.hist \in Seq(RowType)
        BY <3>1, <3>2, Kinds
      <4> QED
        BY <3>2, <4>1, <4>2 DEF Session
    <3>4. Cardinality({1}) = 1
      BY FS_Singleton
    <3> QED
      BY <1>1, <2>2, <3>2, <3>3, <3>4
  <2> QED
    BY <2>1, <2>2 DEF Init
<1>3. worker.pc = "none" /\ consumer.pc = "idle" /\ \A c \in Clickers : click[c].pc = "idle"
  BY <1>1 DEF NoWorker, Idle
<1>4. WorkerOK /\ TurnCheckpoint /\ OfWorker = {} /\ ~Continuing
  BY <1>3 DEF WorkerOK, WithMessage, WithDraft, InTurn, TurnCheckpoint, OfWorker, Continuing
<1>5. ConsumerOK /\ OfConsumer = {}
  BY <1>3 DEF ConsumerOK, OfConsumer
<1>6. ClicksOK /\ \A c \in Clickers : OfClick(c) = {}
  BY <1>1, <1>3 DEF ClicksOK, OfClick
<1>7. OfClicks = {}
  BY <1>6 DEF OfClicks
<1>8. /\ bus \in Seq(Message) /\ inbox \in Seq(Message)
      /\ Permits(bus) = {} /\ Once(bus) /\ Permits(inbox) = {} /\ Once(inbox) /\ DOMAIN inbox = {}
  BY <1>1, PermitsOfFew
<1>9. Outstanding = {}
  BY <1>4, <1>5, <1>7, <1>8 DEF Outstanding
<1>10. Single
  BY <1>4, <1>5, <1>6, <1>7, <1>8 DEF Single
<1>11. Overtaken /\ Fresh /\ Down /\ LatestKept
  BY <1>1, <1>4, <1>8 DEF Overtaken, Fresh, Down, LatestKept
<1>12. Offered
  BY <1>2, <1>9 DEF Offered
<1>13. RowOK /\ Counters
  <2>1. RowOK
    BY <1>1, <1>2 DEF RowOK
  <2>2. up \in BOOLEAN /\ tail \in BOOLEAN /\ registered \in BOOLEAN /\ cancelled \in BOOLEAN
    BY <1>1
  <2>3. latest \in CheckpointType
    BY <1>1, Kinds
  <2>4. sent \in Nat /\ ids \in Nat /\ clock \in Nat /\ turns \in Nat
    BY <1>1, <1>2
  <2>5. offers \subseteq 0 .. ids
    BY <1>1, <1>2
  <2> QED
    BY <2>1, <2>2, <2>3, <2>4, <2>5 DEF Counters
<1> QED
  BY <1>4, <1>5, <1>6, <1>8, <1>10, <1>11, <1>12, <1>13 DEF IInv, Types

LEMMA NextKeeps ==
  ASSUME IInv, [Next]_vars
  PROVE  IInv'
<1>1. CASE Send \/ SendStop
  BY <1>1, SendKeeps, SendStopKeeps
<1>2. CASE \E c \in Clickers : Handler(c) \/ \E action \in {"dismiss", "continue"} : Click(c, action)
  BY <1>2, DismissKeeps, ContinueKeeps, QueueContinuationKeeps, ClickKeeps DEF Handler
<1>3. CASE Consumer
  BY <1>3, TakeKeeps, StoppedKeeps, AdmitResumeKeeps, AdmitInputKeeps, CancelRecoveryKeeps,
     SupersedeKeeps, PutInputKeeps DEF Consumer
<1>4. CASE Worker
  BY <1>4, WorkerHeadKeeps, AdmitContinuationKeeps, AdmitMessageKeeps, OpenKeeps, RestoreKeeps,
     PrepareKeeps, CheckpointKeeps, FinishKeeps, CompleteKeeps, CompletedKeeps, UnwindKeeps,
     SalvageReadKeeps, SalvageKeeps DEF Worker
<1>5. CASE Finish("model") \/ Finish("internal")
  BY <1>5, FinishKeeps
<1>6. CASE Crash \/ Restart
  BY <1>6, CrashKeeps, RestartKeeps
<1>7. CASE UNCHANGED vars
  <2>1. Types'
    <3>1. RowOK' /\ Counters' /\ ClicksOK'
      BY <1>7 DEF vars, IInv, Types, RowOK, Counters, ClicksOK, Unchanged
    <3>2. WorkerOK' /\ ConsumerOK'
      BY <1>7 DEF vars, IInv, Types, WorkerOK, ConsumerOK, Unchanged
    <3> QED
      BY <1>7, <3>1, <3>2 DEF vars, IInv, Types
  <2>2. Down' /\ TurnCheckpoint' /\ LatestKept'
    BY <1>7 DEF vars, IInv, Down, TurnCheckpoint, LatestKept
  <2>3. Single'
    BY <1>7 DEF vars, IInv, Single, Outstanding, OfClicks, OfClick, OfConsumer, OfWorker
  <2>4. Offered' /\ Overtaken'
    BY <1>7 DEF vars, IInv, Offered, Overtaken, LateInput, Outstanding, OfClicks, OfClick,
       OfConsumer, OfWorker
  <2>5. Fresh'
    BY <1>7 DEF vars, IInv, Fresh, LateInput, Continuing
  <2> QED
    BY <2>1, <2>2, <2>3, <2>4, <2>5 DEF IInv
<1> QED
  BY <1>1, <1>2, <1>3, <1>4, <1>5, <1>6, <1>7 DEF Next

(* The parts of the invariant hold in every state.                         *)
THEOREM Invariance == Spec => []IInv
<1>1. Init => IInv
  BY InitHolds
<1>2. IInv /\ [Next]_vars => IInv'
  BY NextKeeps
<1> QED
  BY <1>1, <1>2, PTL DEF Spec

(* Every variable has the values its place in the code can have, and a     *)
(* recovery that failed cannot be continued (RecoveryCoordinator).         *)
THEOREM TypeCorrect == Spec => []Types
<1>1. IInv => Types
  BY DEF IInv
<1> QED
  BY <1>1, Invariance, PTL

(* The latest checkpoint of a turn is in the row or in the history,        *)
(* whoever committed a draft that was read before it was saved             *)
(* (_apply_turn, restore_runtime_checkpoint, _persist_turn).               *)
THEOREM LatestCheckpointKept == Spec => []LatestKept
<1>1. IInv => LatestKept
  BY DEF IInv
<1> QED
  BY <1>1, Invariance, PTL

(* A message of the user never waits behind a continuation that would take *)
(* it for its own: the continuation is cancelled first, unless the user    *)
(* dismissed it (admit, _cancel_active_recovery).                          *)
THEOREM NewerInputSupersedes == Spec => []NewerInputWins
<1>1. IInv => NewerInputWins
  <2> SUFFICES ASSUME IInv, worker.pc \in {"open", "restore", "run"}, worker.msg.kind = "resume",
                      ~cancelled, Numbers(inbox) # {}
               PROVE  row.state.reason = "dismissed"
    BY DEF NewerInputWins
  <2>1. Continuing
    BY DEF Continuing, InTurn
  <2> QED
    BY <2>1 DEF IInv, Fresh
<1> QED
  BY <1>1, Invariance, PTL

(* A continuation begins only for an interruption that is still open, and  *)
(* closes it: the permits are never more than the offers, whatever clicks, *)
(* stops, failed scans and restarts there were (handle_action, admit).     *)
THEOREM ResumedOnce == Spec => OneRunPerOffer
<1>1. IInv /\ [Next]_vars =>
        (worker.pc = "admit" /\ worker'.pc = "open" /\ worker.msg.kind = "resume"
         => worker.msg.n \in offers)
  <2> SUFFICES ASSUME IInv, worker.pc = "admit", worker.msg.kind = "resume"
               PROVE  worker.msg.n \in offers
    OBVIOUS
  <2>1. worker.msg.n \in OfWorker
    BY DEF OfWorker, Permit
  <2> QED
    BY <2>1 DEF IInv, Offered, Outstanding
<1> QED
  BY <1>1, Invariance, PTL DEF Spec, OneRunPerOffer

=============================================================================
