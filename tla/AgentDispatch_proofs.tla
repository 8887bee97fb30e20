------------------------ MODULE AgentDispatch_proofs ------------------------
(***************************************************************************)
(* What the dispatch of one session promises, for any messages, workers    *)
(* and cancellations.                                                      *)
(***************************************************************************)
EXTENDS AgentDispatch, SequenceTheorems, WellFoundedInduction, TLAPS

-----------------------------------------------------------------------------
(* Sequences.                                                              *)

(* A set of naturals has a least element.                                  *)
LEMMA LeastExists ==
  ASSUME NEW T \in SUBSET Nat, T # {}
  PROVE  \E x \in T : \A y \in T : x <= y
<1>1. PICK x \in T : \A y \in T : ~ (<<y, x>> \in OpToRel(<, Nat))
  BY WFMin, NatLessThanWellFounded
<1>2. \A y \in T : ~(y < x)
  BY <1>1 DEF OpToRel
<1> QED
  BY <1>2

LEMMA RangeEmpty == Range(<<>>) = {}
  BY DEF Range

LEMMA RangeAppend ==
  ASSUME NEW S, NEW s \in Seq(S), NEW e \in S
  PROVE  Range(Append(s, e)) = Range(s) \cup {e}
<1>1. /\ Len(s) \in Nat /\ DOMAIN s = 1 .. Len(s)
      /\ DOMAIN Append(s, e) = 1 .. Len(s) + 1
      /\ \A i \in 1 .. Len(s) : Append(s, e)[i] = s[i]
      /\ Append(s, e)[Len(s) + 1] = e
  BY AppendProperties, LenProperties
<1> QED
  BY <1>1 DEF Range

LEMMA RangeConcat ==
  ASSUME NEW S, NEW s \in Seq(S), NEW t \in Seq(S)
  PROVE  Range(s \o t) = Range(s) \cup Range(t)
  BY RangeConcatenation

LEMMA Associative ==
  ASSUME NEW S, NEW a \in Seq(S), NEW b \in Seq(S), NEW c \in Seq(S)
  PROVE  (a \o b) \o c = a \o (b \o c)
  BY ConcatAssociative

LEMMA RangeHeadTail ==
  ASSUME NEW S, NEW s \in Seq(S), s # <<>>
  PROVE  /\ Head(s) \in S /\ Tail(s) \in Seq(S)
         /\ Range(s) = {Head(s)} \cup Range(Tail(s))
         /\ <<Head(s)>> \o Tail(s) = s
<1>1. /\ Head(s) \in S /\ Tail(s) \in Seq(S) /\ Len(Tail(s)) = Len(s) - 1
      /\ \A i \in 1 .. Len(Tail(s)) : Tail(s)[i] = s[i + 1]
      /\ Head(s) = s[1] /\ Len(s) \in Nat /\ Len(s) # 0
  BY HeadTailProperties, LenProperties, EmptySeq
<1>2. DOMAIN s = 1 .. Len(s) /\ DOMAIN Tail(s) = 1 .. Len(s) - 1
  BY <1>1, LenProperties
<1>3. Range(s) = {Head(s)} \cup Range(Tail(s))
  <2>1. ASSUME NEW i \in DOMAIN s
        PROVE  s[i] = Head(s) \/ \E k \in DOMAIN Tail(s) : s[i] = Tail(s)[k]
    <3>1. CASE i = 1
      BY <1>1, <3>1
    <3>2. CASE i # 1
      <4>1. i - 1 \in DOMAIN Tail(s) /\ Tail(s)[i - 1] = s[i]
        BY <1>1, <1>2, <3>2
      <4> QED
        BY <4>1
    <3> QED
      BY <3>1, <3>2
  <2>2. 1 \in DOMAIN s /\ \A k \in DOMAIN Tail(s) : k + 1 \in DOMAIN s /\ Tail(s)[k] = s[k + 1]
    BY <1>1, <1>2
  <2> QED
    BY <1>1, <2>1, <2>2 DEF Range
<1>4. <<Head(s)>> \o Tail(s) = s
  <2> DEFINE h == <<Head(s)>>
             t == Tail(s)
  <2>1. h \in Seq(S) /\ Len(h) = 1 /\ h[1] = s[1]
    BY <1>1
  <2>0. t \in Seq(S) /\ Len(h) = 1
    BY <1>1, <2>1
  <2> HIDE DEF h, t
  <2>2. /\ h \o t \in Seq(S) /\ Len(h \o t) = Len(h) + Len(t)
        /\ \A i \in 1 .. Len(h) + Len(t) : (h \o t)[i] = IF i <= Len(h) THEN h[i] ELSE t[i - Len(h)]
    BY <2>0, <2>1, ConcatProperties
  <2>3. Len(h \o t) = Len(s) /\ \A i \in 1 .. Len(h \o t) : (h \o t)[i] = s[i]
    BY <1>1, <2>0, <2>1, <2>2 DEF t
  <2> QED
    BY <2>2, <2>3, SeqEqual DEF h, t
<1> QED
  BY <1>1, <1>3, <1>4

(* A sequence falls into a prefix and the rest.                            *)
LEMMA Parts ==
  ASSUME NEW S, NEW s \in Seq(S), NEW n \in 0 .. Len(s)
  PROVE  /\ SubSeq(s, 1, n) \in Seq(S) /\ SubSeq(s, n + 1, Len(s)) \in Seq(S)
         /\ SubSeq(s, 1, n) \o SubSeq(s, n + 1, Len(s)) = s
         /\ Range(SubSeq(s, 1, n)) \cup Range(SubSeq(s, n + 1, Len(s))) = Range(s)
         /\ Range(SubSeq(s, 1, n)) = {s[i] : i \in 1 .. n}
<1>1. Len(s) \in Nat /\ \A i \in 1 .. Len(s) : s[i] \in S
  BY ElementOfSeq, LenProperties
<1>2. /\ SubSeq(s, 1, n) \in Seq(S)
      /\ Len(SubSeq(s, 1, n)) = n
      /\ \A i \in 1 .. n : SubSeq(s, 1, n)[i] = s[i]
  <2>1. \A i \in 1 .. n : s[i] \in S
    BY <1>1
  <2>2. /\ SubSeq(s, 1, n) \in Seq(S)
        /\ Len(SubSeq(s, 1, n)) = IF 1 <= n THEN n - 1 + 1 ELSE 0
        /\ \A i \in 1 .. n - 1 + 1 : SubSeq(s, 1, n)[i] = s[1 + i - 1]
    BY <2>1, SubSeqProperties
  <2> QED
    BY <1>1, <2>2
<1>3. SubSeq(s, n + 1, Len(s)) \in Seq(S)
  <2>1. \A i \in n + 1 .. Len(s) : s[i] \in S
    BY <1>1
  <2> QED
    BY <1>1, <2>1, SubSeqProperties
<1>4. SubSeq(s, 1, n) \o SubSeq(s, n + 1, Len(s)) = SubSeq(s, 1, Len(s))
  <2>1. 1 \in 1 .. Len(s) + 1 /\ n \in 1 - 1 .. Len(s) /\ Len(s) \in n .. Len(s)
    BY <1>1
  <2> QED
    BY <2>1, ConcatAdjacentSubSeq
<1>5. SubSeq(s, 1, Len(s)) = s
  BY SubSeqFull
<1>6. Range(SubSeq(s, 1, n)) = {s[i] : i \in 1 .. n}
  <2>1. DOMAIN SubSeq(s, 1, n) = 1 .. n
    BY <1>2, LenProperties
  <2> QED
    BY <1>2, <2>1 DEF Range
<1>7. Range(SubSeq(s, 1, n)) \cup Range(SubSeq(s, n + 1, Len(s))) = Range(s)
  <2>1. Range(SubSeq(s, 1, n) \o SubSeq(s, n + 1, Len(s)))
          = Range(SubSeq(s, 1, n)) \cup Range(SubSeq(s, n + 1, Len(s)))
    BY <1>2, <1>3, RangeConcat, ZenonT(90)
  <2> QED
    BY <1>4, <1>5, <2>1
<1> QED
  BY <1>2, <1>3, <1>4, <1>5, <1>6, <1>7

(* How many messages a sweep removes before it awaits.                     *)
LEMMA CutBounds ==
  ASSUME NEW s \in Seq(Messages)
  PROVE  Cut(s) \in 0 .. Len(s) /\ (~Awaits(s) => Cut(s) = Len(s))
<1> DEFINE I == {i \in 1 .. Len(s) : s[i] \in Commands}
<1>1. Len(s) \in Nat /\ I \in SUBSET Nat
  BY LenProperties
<1>2. CASE I = {}
  <2>1. SelectInSeq(s, LAMBDA m : m \in Commands) = 0
    BY <1>2 DEF SelectInSeq
  <2> QED
    BY <1>1, <2>1 DEF Cut
<1>3. CASE I # {}
  <2>1. \E x \in I : \A y \in I : x <= y
    <3> HIDE DEF I
    <3> QED
      BY <1>1, <1>3, LeastExists
  <2>2. Min(I) \in I
    BY <2>1 DEF Min
  <2>3. SelectInSeq(s, LAMBDA m : m \in Commands) = Min(I)
    BY <1>3 DEF SelectInSeq
  <2>4. Cut(s) = Min(I)
    <3>1. Min(I) # 0
      BY <2>2
    <3> QED
      BY <2>3, <3>1 DEF Cut
  <2>5. Awaits(s)
    BY <1>3 DEF Awaits
  <2> QED
    BY <2>2, <2>4, <2>5
<1> QED
  BY <1>2, <1>3

-----------------------------------------------------------------------------
(* Types.                                                                  *)

Deeds == {"idle", "journal", "read", "wait", "sweep", "tail"}
Buses == [at : Deeds, msg : Messages \cup {Nothing}, kind : {"stop", "discard"},
          box : Boxes \cup {None}, tasks : SUBSET Boxes, before : SUBSET Messages]

LEMMA BoxesFacts == Boxes \subseteq Nat \ {0} /\ None \notin Boxes
  BY BoundsAssumption DEF Boxes, None

LEMMA PutTypes ==
  ASSUME TypeOK, NEW m \in Messages, Put(m)
  PROVE  /\ route' \in Boxes \cup {None} /\ inbox' \in [Boxes -> Seq(Messages)]
         /\ phase' \in [Boxes -> Phases] /\ accepted' \in Seq(Messages)
<1>1. accepted' \in Seq(Messages)
  BY AppendProperties DEF Put, TypeOK
<1>2. CASE route # None
  <2>1. route \in Boxes /\ inbox[route] \in Seq(Messages)
    BY <1>2 DEF TypeOK
  <2>2. Append(inbox[route], m) \in Seq(Messages)
    BY <2>1, AppendProperties
  <2> QED
    BY <1>1, <1>2, <2>1, <2>2 DEF Put, TypeOK
<1>3. CASE route = None
  <2>1. <<m>> \in Seq(Messages)
    OBVIOUS
  <2>2. PICK w \in Boxes : /\ route' = w /\ inbox' = [inbox EXCEPT ![w] = <<m>>]
                           /\ phase' = [phase EXCEPT ![w] = "new"]
    BY <1>3 DEF Put
  <2>3. inbox' \in [Boxes -> Seq(Messages)]
    BY <2>1, <2>2 DEF TypeOK
  <2>4. phase' \in [Boxes -> Phases] /\ route' \in Boxes \cup {None}
    BY <2>2 DEF TypeOK, Phases
  <2> QED
    BY <1>1, <2>3, <2>4
<1> QED
  BY <1>2, <1>3

(* What a worker takes at the head of its loop, and where from.            *)
LEMMA HeadTaken ==
  ASSUME TypeOK, NEW w \in Boxes, LoopHead(w)
  PROVE  \/ /\ route = w /\ inbox[w] # <<>>
            /\ current' = [current EXCEPT ![w] = Head(inbox[w])]
            /\ phase' = [phase EXCEPT ![w] = "admit"]
            /\ inbox' = [inbox EXCEPT ![w] = Tail(@)]
            /\ deferred' = deferred /\ route' = route
            /\ handled' = Append(handled, Head(inbox[w]))
         \/ /\ route = w /\ inbox[w] = <<>> /\ deferred # <<>>
            /\ current' = [current EXCEPT ![w] = Head(deferred)]
            /\ phase' = [phase EXCEPT ![w] = "admit"]
            /\ deferred' = Tail(deferred) /\ inbox' = inbox /\ route' = route
            /\ handled' = Append(handled, Head(deferred))
         \/ /\ route = w => inbox[w] = <<>> /\ deferred = <<>>
            /\ current' = [current EXCEPT ![w] = Nothing]
            /\ phase' = [phase EXCEPT ![w] = "done"]
            /\ route' = RouteAfter(w)
            /\ inbox' = inbox /\ deferred' = deferred /\ handled' = handled
<1>1. inbox[w] \in Seq(Messages) /\ deferred \in Seq(Messages)
  BY DEF TypeOK, Messages, Automations
<1>2. inbox[w] # <<>> => Head(inbox[w]) # Nothing
  BY <1>1, HeadTailProperties, NamesAssumption
<1>3. deferred # <<>> => Head(deferred) # Nothing
  BY <1>1, HeadTailProperties, NamesAssumption
<1>4. CASE route = w /\ NextMessage(w) # Nothing
  <2>1. CASE inbox[w] # <<>>
    BY <1>4, <2>1 DEF LoopHead, NextMessage
  <2>2. CASE inbox[w] = <<>>
    BY <1>4, <2>2 DEF LoopHead, NextMessage
  <2> QED
    BY <2>1, <2>2
<1>5. CASE ~(route = w /\ NextMessage(w) # Nothing)
  BY <1>2, <1>3, <1>5 DEF LoopHead, NextMessage
<1> QED
  BY <1>4, <1>5

LEMMA LoopHeadTypes ==
  ASSUME TypeOK, NEW w \in Boxes, LoopHead(w)
  PROVE  /\ route' \in Boxes \cup {None} /\ inbox' \in [Boxes -> Seq(Messages)]
         /\ deferred' \in Seq(Deferring) /\ phase' \in [Boxes -> Phases]
         /\ current' \in [Boxes -> Messages \cup {Nothing}]
         /\ handled' \in Seq(Messages)
<1>1. /\ inbox \in [Boxes -> Seq(Messages)] /\ inbox[w] \in Seq(Messages)
      /\ deferred \in Seq(Deferring) /\ handled \in Seq(Messages)
      /\ Deferring \subseteq Messages
  BY DEF TypeOK, Messages, Automations
<1>2. inbox[w] # <<>> =>
        /\ Head(inbox[w]) \in Messages /\ Tail(inbox[w]) \in Seq(Messages)
        /\ Append(handled, Head(inbox[w])) \in Seq(Messages)
  BY <1>1, HeadTailProperties, AppendProperties
<1>3. deferred # <<>> =>
        /\ Head(deferred) \in Messages /\ Tail(deferred) \in Seq(Deferring)
        /\ Append(handled, Head(deferred)) \in Seq(Messages)
  BY <1>1, HeadTailProperties, AppendProperties
<1> DEFINE hi == Head(inbox[w])
           hd == Head(deferred)
<1>4. CASE /\ inbox[w] # <<>>
           /\ current' = [current EXCEPT ![w] = hi]
           /\ phase' = [phase EXCEPT ![w] = "admit"]
           /\ inbox' = [inbox EXCEPT ![w] = Tail(@)]
           /\ deferred' = deferred /\ route' = route
           /\ handled' = Append(handled, hi)
  <2>1. Tail(inbox[w]) \in Seq(Messages) /\ hi \in Messages /\ handled' \in Seq(Messages)
    BY <1>2, <1>4
  <2> HIDE DEF hi
  <2>2. inbox' \in [Boxes -> Seq(Messages)]
    BY <1>1, <1>4, <2>1
  <2>3. current' \in [Boxes -> Messages \cup {Nothing}] /\ phase' \in [Boxes -> Phases]
    BY <1>4, <2>1 DEF TypeOK, Phases
  <2> QED
    BY <1>1, <1>4, <2>1, <2>2, <2>3 DEF TypeOK
<1>5. CASE /\ deferred # <<>>
           /\ current' = [current EXCEPT ![w] = hd]
           /\ phase' = [phase EXCEPT ![w] = "admit"]
           /\ deferred' = Tail(deferred) /\ inbox' = inbox /\ route' = route
           /\ handled' = Append(handled, hd)
  <2>1. Tail(deferred) \in Seq(Deferring) /\ hd \in Messages /\ handled' \in Seq(Messages)
    BY <1>3, <1>5
  <2> HIDE DEF hd
  <2>2. current' \in [Boxes -> Messages \cup {Nothing}] /\ phase' \in [Boxes -> Phases]
    BY <1>5, <2>1 DEF TypeOK, Phases
  <2> QED
    BY <1>1, <1>5, <2>1, <2>2 DEF TypeOK
<1>6. CASE /\ current' = [current EXCEPT ![w] = Nothing]
           /\ phase' = [phase EXCEPT ![w] = "done"]
           /\ route' = RouteAfter(w)
           /\ inbox' = inbox /\ deferred' = deferred /\ handled' = handled
  <2>1. current' \in [Boxes -> Messages \cup {Nothing}] /\ phase' \in [Boxes -> Phases]
    BY <1>6 DEF TypeOK, Phases
  <2>2. route' \in Boxes \cup {None}
    BY <1>6 DEF TypeOK, RouteAfter
  <2> QED
    BY <1>1, <1>6, <2>1, <2>2
<1> QED
  BY <1>4, <1>5, <1>6, HeadTaken

LEMMA AnswerTypes ==
  ASSUME TypeOK, NEW done, Answer(done)
  PROVE  waiter' \in [Automations -> {"unsent", "waiting", "answered"}]
  BY DEF Answer, TypeOK

(* What a sweep of an inbox removes and leaves.                            *)
LEMMA SweepParts ==
  ASSUME NEW s \in Seq(Messages)
  PROVE  /\ SubSeq(s, 1, Cut(s)) \in Seq(Messages)
         /\ SubSeq(s, Cut(s) + 1, Len(s)) \in Seq(Messages)
         /\ Range(SubSeq(s, 1, Cut(s))) \cup Range(SubSeq(s, Cut(s) + 1, Len(s))) = Range(s)
         /\ Range(s) \subseteq Messages
         /\ ~Awaits(s) => /\ Range(SubSeq(s, 1, Cut(s))) = Range(s)
                          /\ SubSeq(s, Cut(s) + 1, Len(s)) = <<>>
<1>1. Cut(s) \in 0 .. Len(s) /\ (~Awaits(s) => Cut(s) = Len(s)) /\ Len(s) \in Nat
  BY CutBounds, LenProperties
<1>2. /\ SubSeq(s, 1, Cut(s)) \in Seq(Messages)
      /\ SubSeq(s, Cut(s) + 1, Len(s)) \in Seq(Messages)
      /\ Range(SubSeq(s, 1, Cut(s))) \cup Range(SubSeq(s, Cut(s) + 1, Len(s))) = Range(s)
  BY <1>1, Parts
<1>3. Range(s) \subseteq Messages
  BY RangeOfSeq
<1>4. ~Awaits(s) => /\ Range(SubSeq(s, 1, Cut(s))) = Range(s)
                    /\ SubSeq(s, Cut(s) + 1, Len(s)) = <<>>
  <2> SUFFICES ASSUME ~Awaits(s)
               PROVE  /\ Range(SubSeq(s, 1, Cut(s))) = Range(s)
                      /\ SubSeq(s, Cut(s) + 1, Len(s)) = <<>>
    OBVIOUS
  <2>1. Cut(s) = Len(s) /\ SubSeq(s, 1, Len(s)) = s
    BY <1>1, SubSeqFull
  <2>2. Len(s) + 1 \in Int /\ Len(s) \in Int /\ Len(s) < Len(s) + 1
    BY <1>1
  <2>3. SubSeq(s, Len(s) + 1, Len(s)) = <<>>
    BY <2>2, SubSeqEmpty
  <2> QED
    BY <2>1, <2>3
<1> QED
  BY <1>2, <1>3, <1>4

LEMMA SweepTypes ==
  ASSUME TypeOK, NEW w \in Boxes, NEW s \in Seq(Messages), NEW also, Sweep(w, s, also)
  PROVE  /\ inbox' \in [Boxes -> Seq(Messages)] /\ dropped' \subseteq Messages
         /\ waiter' \in [Automations -> {"unsent", "waiting", "answered"}]
<1> DEFINE out == Range(SubSeq(s, 1, Cut(s)))
           rest == SubSeq(s, Cut(s) + 1, Len(s))
<1>1. out \subseteq Messages /\ rest \in Seq(Messages)
  BY SweepParts
<1>2. inbox' = [inbox EXCEPT ![w] = rest] /\ dropped' = dropped \cup out /\ Answer(out \cup also)
  BY DEF Sweep
<1> HIDE DEF out, rest
<1>3. waiter' \in [Automations -> {"unsent", "waiting", "answered"}]
  BY <1>2, AnswerTypes
<1> QED
  BY <1>1, <1>2, <1>3 DEF TypeOK

LEMMA AllQueuedTypes ==
  ASSUME TypeOK, NEW w \in Boxes
  PROVE  /\ AllQueued(w) \in Seq(Messages)
         /\ Range(AllQueued(w)) = Range(inbox[w]) \cup Range(deferred)
<1>1. inbox[w] \in Seq(Messages) /\ deferred \in Seq(Deferring) /\ Deferring \subseteq Messages
  BY DEF TypeOK, Messages, Automations
<1>2. deferred \in Seq(Messages)
  BY <1>1, SeqMonotonic
<1> QED
  BY <1>1, <1>2, ConcatProperties, RangeConcat DEF AllQueued

LEMMA PutBackTypes ==
  ASSUME TypeOK, NEW w \in Boxes, NEW n \in 0 .. Len(batch[w])
  PROVE  /\ PutBack(w, n) \in Seq(Messages)
         /\ SubSeq(batch[w], 1, n) \in Seq(Messages)
         /\ Range(SubSeq(batch[w], 1, n)) \cup Range(PutBack(w, n))
              = Range(inbox[w]) \cup Range(batch[w])
         /\ SubSeq(batch[w], 1, n) \o PutBack(w, n) = batch[w] \o inbox[w]
<1>1. inbox[w] \in Seq(Messages) /\ batch[w] \in Seq(Messages)
  BY DEF TypeOK
<1> DEFINE a == SubSeq(batch[w], 1, n)
           b == SubSeq(batch[w], n + 1, Len(batch[w]))
<1>2. /\ a \in Seq(Messages) /\ b \in Seq(Messages) /\ a \o b = batch[w]
      /\ Range(a) \cup Range(b) = Range(batch[w])
  BY <1>1, Parts
<1>3. PutBack(w, n) = b \o inbox[w]
  BY DEF PutBack
<1> HIDE DEF a, b
<1>4. PutBack(w, n) \in Seq(Messages) /\ Range(PutBack(w, n)) = Range(b) \cup Range(inbox[w])
  BY <1>1, <1>2, <1>3, ConcatProperties, RangeConcat
<1>5. a \o (b \o inbox[w]) = (a \o b) \o inbox[w]
  <2> DEFINE c == inbox[w]
  <2>1. a \in Seq(Messages) /\ b \in Seq(Messages) /\ c \in Seq(Messages)
    BY <1>1, <1>2
  <2> HIDE DEF c
  <2>2. (a \o b) \o c = a \o (b \o c)
    BY <2>1, Associative
  <2> QED
    BY <2>2 DEF c
<1>6. a \o PutBack(w, n) = batch[w] \o inbox[w]
  BY <1>2, <1>3, <1>5
<1>7. Range(a) \cup Range(PutBack(w, n)) = Range(inbox[w]) \cup Range(batch[w])
  BY <1>2, <1>4
<1> QED
  BY <1>2, <1>4, <1>6, <1>7 DEF a

(* The consumer journals an input, and sweeps an inbox.                    *)
Shape == /\ bus.at = "journal" => bus.msg \in Inputs
         /\ bus.at = "sweep" => bus.box \in Boxes

LEMMA BusTypes ==
  ASSUME TypeOK
  PROVE  /\ bus \in Buses /\ IdleBus \in Buses /\ Alive \subseteq Boxes
         /\ Range(accepted) \subseteq Messages
<1>1. Alive \subseteq Boxes /\ None \in Boxes \cup {None}
  BY DEF Alive
<1>2. Range(accepted) \subseteq Messages
  BY RangeOfSeq DEF TypeOK
<1> QED
  BY <1>1, <1>2 DEF TypeOK, IdleBus, Buses, Deeds

(* The consumer and the submitters keep the types.                         *)
LEMMA ReceiveTypes ==
  ASSUME TypeOK, Shape, NEW m \in Messages, Receive(m)
  PROVE  TypeOK' /\ Shape'
<1>1. /\ deferred' = deferred /\ current' = current /\ batch' = batch
      /\ doomed' = doomed /\ lock' = lock /\ waiter' = waiter /\ handled' = handled
      /\ dropped' = dropped /\ cancels' = cancels /\ failures' = failures
  BY DEF Receive, countVars
<1>2. CASE m \in Inputs /\ route # None
  <2>1. /\ route' = route /\ inbox' = inbox /\ phase' = phase /\ accepted' = accepted
        /\ bus' = [bus EXCEPT !.at = "journal", !.msg = m]
    BY <1>2 DEF Receive
  <2>2. bus' \in Buses /\ bus'.at = "journal" /\ bus'.msg = m
    BY <2>1, BusTypes DEF Buses, Deeds
  <2>3. Shape'
    BY <1>2, <2>2 DEF Shape
  <2> QED
    BY <1>1, <2>1, <2>2, <2>3 DEF TypeOK, Buses, Deeds
<1>3. CASE ~(m \in Inputs /\ route # None)
  <2>1. Put(m) /\ bus' = bus
    BY <1>3 DEF Receive
  <2> QED
    BY <1>1, <2>1, PutTypes DEF TypeOK, Shape
<1> QED
  BY <1>2, <1>3

LEMMA SubmitTypes ==
  ASSUME TypeOK, Shape, NEW a \in Automations, Submit(a)
  PROVE  TypeOK' /\ Shape'
<1>1. /\ current' = current /\ batch' = batch /\ bus' = bus
      /\ doomed' = doomed /\ lock' = lock /\ handled' = handled
      /\ dropped' = dropped /\ cancels' = cancels /\ failures' = failures
      /\ waiter' = [waiter EXCEPT ![a] = "waiting"]
  BY DEF Submit, countVars
<1>2. waiter' \in [Automations -> {"unsent", "waiting", "answered"}]
  BY <1>1 DEF TypeOK
<1>3. CASE Defers(a)
  <2>1. /\ route' = route /\ inbox' = inbox /\ phase' = phase /\ accepted' = accepted
        /\ deferred' = Append(deferred, a)
    BY <1>3 DEF Submit
  <2>2. deferred' \in Seq(Deferring)
    BY <1>3, <2>1, AppendProperties DEF TypeOK, Defers
  <2> QED
    BY <1>1, <1>2, <2>1, <2>2 DEF TypeOK, Shape
<1>4. CASE ~Defers(a)
  <2>1. Put(a) /\ deferred' = deferred /\ a \in Messages
    BY <1>4 DEF Submit, Messages
  <2> QED
    BY <1>1, <1>2, <2>1, PutTypes DEF TypeOK, Shape
<1> QED
  BY <1>3, <1>4

(* The consumer's own steps.                                               *)
LEMMA JournaledTypes ==
  ASSUME TypeOK, Shape, Journaled \/ JournalRefused
  PROVE  TypeOK' /\ Shape'
<1>1. bus \in Buses /\ IdleBus \in Buses
  BY BusTypes
<1>2. Shape' /\ bus' = IdleBus
  BY DEF Journaled, JournalRefused, Shape, IdleBus
<1>3. CASE Journaled
  <2>1. /\ deferred' = deferred /\ current' = current /\ batch' = batch
        /\ doomed' = doomed /\ lock' = lock /\ waiter' = waiter /\ handled' = handled
        /\ dropped' = dropped /\ cancels' = cancels /\ failures' = failures
        /\ Put(bus.msg)
    BY <1>3 DEF Journaled, countVars
  <2>2. bus.msg \in Messages
    BY <1>3 DEF Journaled, Shape, Messages
  <2> QED
    BY <1>1, <1>2, <2>1, <2>2, PutTypes DEF TypeOK, Buses, Deeds
<1>4. CASE JournalRefused
  BY <1>1, <1>2, <1>4
     DEF JournalRefused, TypeOK, Buses, Deeds, queueVars, workerVars, countVars
<1> QED
  BY <1>3, <1>4

LEMMA CancelTypes ==
  ASSUME TypeOK, Shape, CutOff \/ \E kind \in CancelKinds : Cancel(kind)
  PROVE  TypeOK' /\ Shape'
<1>1. bus \in Buses /\ IdleBus \in Buses /\ Alive \subseteq Boxes /\ Range(accepted) \subseteq Messages
  BY BusTypes
<1>2. CASE CutOff
  <2>1. /\ bus' = [bus EXCEPT !.at = "wait", !.box = route, !.tasks = Alive]
        /\ doomed' = Alive
        /\ route' = route /\ inbox' = inbox /\ deferred' = deferred /\ phase' = phase
        /\ current' = current /\ batch' = batch /\ lock' = lock /\ waiter' = waiter
        /\ accepted' = accepted /\ handled' = handled /\ dropped' = dropped
        /\ cancels' = cancels /\ failures' = failures
    BY <1>2 DEF CutOff, queueVars, countVars
  <2>2. bus' \in Buses /\ bus'.at = "wait"
    BY <1>1, <2>1 DEF Buses, Deeds, TypeOK
  <2> QED
    BY <1>1, <2>1, <2>2 DEF TypeOK, Shape, Buses, Deeds
<1>3. ASSUME NEW kind \in CancelKinds, Cancel(kind)
      PROVE  TypeOK' /\ Shape'
  <2>1. /\ bus' = [IdleBus EXCEPT !.at = "read", !.kind = kind, !.before = Range(accepted)]
        /\ cancels < MaxCancels /\ cancels' = cancels + 1
        /\ route' = route /\ inbox' = inbox /\ deferred' = deferred /\ phase' = phase
        /\ current' = current /\ batch' = batch /\ doomed' = doomed
        /\ lock' = lock /\ waiter' = waiter
        /\ accepted' = accepted /\ handled' = handled /\ dropped' = dropped
        /\ failures' = failures
    BY <1>3 DEF Cancel, queueVars, workerVars
  <2>2. bus' \in Buses /\ bus'.at = "read"
    BY <1>1, <2>1, KindsAssumption DEF Buses, Deeds
  <2>3. cancels' \in 0 .. MaxCancels
    BY <2>1, BoundsAssumption, SMTT(30) DEF TypeOK
  <2> QED
    BY <2>1, <2>2, <2>3 DEF TypeOK, Shape, Buses, Deeds
<1> QED
  BY <1>2, <1>3

LEMMA ReclaimTypes ==
  ASSUME TypeOK, Shape, Reclaim \/ ReclaimOn \/ StopTail
  PROVE  TypeOK' /\ Shape'
<1>1. bus \in Buses /\ IdleBus \in Buses
  BY BusTypes
<1>2. CASE Reclaim
  <2>1. /\ phase' = phase /\ current' = current /\ batch' = batch /\ doomed' = doomed
        /\ lock' = lock /\ accepted' = accepted /\ handled' = handled
        /\ cancels' = cancels /\ failures' = failures
    BY <1>2 DEF Reclaim, workerVars, countVars
  <2>2. CASE Reclaims
    <3>1. /\ route' = None /\ Sweep(bus.box, AllQueued(bus.box), {}) /\ deferred' = <<>>
          /\ bus' = [bus EXCEPT !.at = IF Awaits(AllQueued(bus.box)) THEN "sweep" ELSE "tail"]
      BY <1>2, <2>2 DEF Reclaim
    <3>2. bus.box \in Boxes
      BY <1>1, <2>2 DEF Reclaims, Buses
    <3>3. AllQueued(bus.box) \in Seq(Messages)
      BY <3>2, AllQueuedTypes
    <3>4. /\ inbox' \in [Boxes -> Seq(Messages)] /\ dropped' \subseteq Messages
          /\ waiter' \in [Automations -> {"unsent", "waiting", "answered"}]
      BY <3>1, <3>2, <3>3, SweepTypes
    <3>5. bus' \in Buses /\ bus'.at \in {"sweep", "tail"} /\ bus'.box = bus.box
      BY <1>1, <3>1 DEF Buses, Deeds
    <3>6. Shape'
      BY <3>2, <3>5 DEF Shape
    <3>7. deferred' \in Seq(Deferring) /\ route' \in Boxes \cup {None}
      BY <3>1, EmptySeq
    <3> QED
      BY <2>1, <3>4, <3>5, <3>6, <3>7 DEF TypeOK, Buses, Deeds
  <2>3. CASE ~Reclaims
    <3>1. /\ bus' = [bus EXCEPT !.at = "tail"]
          /\ route' = route /\ inbox' = inbox /\ deferred' = deferred
          /\ waiter' = waiter /\ dropped' = dropped
      BY <1>2, <2>3 DEF Reclaim, queueVars
    <3>2. bus' \in Buses /\ bus'.at = "tail"
      BY <1>1, <3>1 DEF Buses, Deeds
    <3> QED
      BY <2>1, <3>1, <3>2 DEF TypeOK, Shape, Buses, Deeds
  <2> QED
    BY <2>2, <2>3
<1>3. CASE ReclaimOn
  <2>1. /\ phase' = phase /\ current' = current /\ batch' = batch /\ doomed' = doomed
        /\ lock' = lock /\ accepted' = accepted /\ handled' = handled
        /\ cancels' = cancels /\ failures' = failures /\ route' = route
        /\ deferred' = deferred /\ Sweep(bus.box, inbox[bus.box], {})
        /\ bus' = bus \/ bus' = [bus EXCEPT !.at = "tail"]
    BY <1>3 DEF ReclaimOn, workerVars, countVars
  <2>2. bus.box \in Boxes
    BY <1>3 DEF ReclaimOn, Shape
  <2>3. inbox[bus.box] \in Seq(Messages)
    BY <2>2 DEF TypeOK
  <2>4. /\ inbox' \in [Boxes -> Seq(Messages)] /\ dropped' \subseteq Messages
        /\ waiter' \in [Automations -> {"unsent", "waiting", "answered"}]
    BY <2>1, <2>2, <2>3, SweepTypes
  <2>5. bus' \in Buses /\ Shape'
    <3>1. CASE bus' = bus
      BY <1>1, <3>1 DEF Shape
    <3>2. CASE bus' = [bus EXCEPT !.at = "tail"]
      <4>1. bus' \in Buses /\ bus'.at = "tail"
        BY <1>1, <3>2 DEF Buses, Deeds
      <4> QED
        BY <4>1 DEF Shape
    <3> QED
      BY <2>1, <3>1, <3>2
  <2> QED
    BY <2>1, <2>4, <2>5 DEF TypeOK, Buses, Deeds
<1>4. CASE StopTail
  <2>1. /\ deferred' = deferred /\ phase' = phase /\ current' = current /\ batch' = batch
        /\ doomed' = doomed /\ lock' = lock /\ accepted' = accepted /\ handled' = handled
        /\ waiter' = waiter /\ cancels' = cancels /\ failures' = failures /\ bus' = IdleBus
    BY <1>4 DEF StopTail, workerVars, countVars
  <2>2. Shape'
    BY <2>1 DEF Shape, IdleBus
  <2>3. CASE bus.kind = "stop" /\ route # None
    <3>1. /\ route' = None /\ inbox' = [inbox EXCEPT ![route] = <<>>]
          /\ dropped' = dropped \cup Range(inbox[route])
      BY <1>4, <2>3 DEF StopTail
    <3>2. route \in Boxes /\ inbox[route] \in Seq(Messages)
      BY <2>3 DEF TypeOK
    <3>3. Range(inbox[route]) \subseteq Messages /\ <<>> \in Seq(Messages)
      BY <3>2, RangeOfSeq, EmptySeq
    <3> QED
      BY <1>1, <2>1, <2>2, <3>1, <3>3 DEF TypeOK, Buses, Deeds
  <2>4. CASE ~(bus.kind = "stop" /\ route # None)
    <3>1. route' = route /\ inbox' = inbox /\ dropped' = dropped
      BY <1>4, <2>4 DEF StopTail
    <3> QED
      BY <1>1, <2>1, <2>2, <3>1 DEF TypeOK, Buses, Deeds
  <2> QED
    BY <2>3, <2>4
<1> QED
  BY <1>2, <1>3, <1>4

(* The worker keeps the types.                                             *)
LEMMA LoopTypes ==
  ASSUME TypeOK, Shape, NEW w \in Boxes, Begin(w) \/ FailEarly(w) \/ Return(w)
  PROVE  TypeOK' /\ Shape'
<1>1. /\ batch' = batch /\ doomed' = doomed /\ waiter' = waiter /\ bus' = bus
      /\ accepted' = accepted /\ dropped' = dropped /\ cancels' = cancels
      /\ LoopHead(w) /\ (lock' = lock \/ lock' = None)
      /\ failures' = failures \/ (failures < MaxFailures /\ failures' = failures + 1)
  BY DEF Begin, FailEarly, Return, countVars
<1>2. failures' \in 0 .. MaxFailures
  BY <1>1, BoundsAssumption DEF TypeOK
<1>3. lock' \in Boxes \cup {None}
  BY <1>1 DEF TypeOK
<1> QED
  BY <1>1, <1>2, <1>3, LoopHeadTypes DEF TypeOK, Shape

LEMMA TurnTypes ==
  ASSUME TypeOK, Shape, NEW w \in Boxes, Acquire(w) \/ Finish(w) \/ Stillborn(w)
  PROVE  TypeOK' /\ Shape'
<1>1. /\ route' = route /\ inbox' = inbox /\ deferred' = deferred
      /\ current' = current /\ batch' = batch /\ bus' = bus /\ accepted' = accepted
      /\ handled' = handled /\ dropped' = dropped /\ cancels' = cancels
      /\ failures' = failures
      /\ doomed' = doomed \/ doomed' = doomed \ {w}
      /\ lock' = lock \/ lock' = w
      /\ waiter' = waiter \/ Answer({current[w]})
      /\ \E p \in {"run", "settle", "done"} : phase' = [phase EXCEPT ![w] = p]
  BY DEF Acquire, Finish, Stillborn, queueVars, countVars
<1>2. phase' \in [Boxes -> Phases] /\ lock' \in Boxes \cup {None} /\ doomed' \subseteq Boxes
  BY <1>1 DEF TypeOK, Phases
<1>3. waiter' \in [Automations -> {"unsent", "waiting", "answered"}]
  BY <1>1, AnswerTypes DEF TypeOK
<1> QED
  BY <1>1, <1>2, <1>3 DEF TypeOK, Shape

LEMMA DrainTypes ==
  ASSUME TypeOK, Shape, NEW w \in Boxes, Drain(w) \/ DrainDone(w) \/ Unwind(w)
  PROVE  TypeOK' /\ Shape'
<1>1. /\ route' = route /\ deferred' = deferred /\ current' = current /\ lock' = lock
      /\ waiter' = waiter /\ bus' = bus /\ accepted' = accepted /\ dropped' = dropped
      /\ cancels' = cancels /\ failures' = failures
      /\ doomed' = doomed \/ doomed' = doomed \ {w}
      /\ \E p \in {"drain", "run", "unwind"} : phase' = [phase EXCEPT ![w] = p]
  BY DEF Drain, DrainDone, Unwind, countVars
<1>2. phase' \in [Boxes -> Phases] /\ doomed' \subseteq Boxes
  BY <1>1 DEF TypeOK, Phases
<1>3. /\ inbox \in [Boxes -> Seq(Messages)] /\ batch \in [Boxes -> Seq(Messages)]
      /\ handled \in Seq(Messages) /\ <<>> \in Seq(Messages)
      /\ batch[w] \in Seq(Messages) /\ inbox[w] \in Seq(Messages) /\ Len(batch[w]) \in Nat
  BY LenProperties, EmptySeq DEF TypeOK
<1>4. /\ inbox' \in [Boxes -> Seq(Messages)] /\ batch' \in [Boxes -> Seq(Messages)]
      /\ handled' \in Seq(Messages)
  <2>1. CASE Drain(w)
    BY <1>3, <2>1 DEF Drain
  <2>2. CASE DrainDone(w)
    <3>1. PICK n \in Absorbable(w) :
            /\ inbox' = [inbox EXCEPT ![w] = PutBack(w, n)]
            /\ handled' = handled \o SubSeq(batch[w], 1, n)
      BY <2>2 DEF DrainDone
    <3>2. n \in 0 .. Len(batch[w])
      BY DEF Absorbable
    <3>3. PutBack(w, n) \in Seq(Messages) /\ SubSeq(batch[w], 1, n) \in Seq(Messages)
      BY <3>2, PutBackTypes
    <3>4. handled' \in Seq(Messages)
      BY <1>3, <3>1, <3>3, ConcatProperties
    <3>5. batch' = [batch EXCEPT ![w] = <<>>]
      BY <2>2 DEF DrainDone
    <3>6. inbox' \in [Boxes -> Seq(Messages)]
      BY <1>3, <3>1, <3>3
    <3> QED
      BY <1>3, <3>4, <3>5, <3>6
  <2>3. CASE Unwind(w)
    <3>1. PutBack(w, 0) \in Seq(Messages)
      BY <1>3, PutBackTypes
    <3> QED
      BY <1>3, <2>3, <3>1 DEF Unwind
  <2> QED
    BY <2>1, <2>2, <2>3
<1> QED
  BY <1>1, <1>2, <1>4 DEF TypeOK, Shape

LEMMA SweepingTypes ==
  ASSUME TypeOK, Shape, NEW w \in Boxes, Unwound(w) \/ SweepOn(w)
  PROVE  TypeOK' /\ Shape'
<1>1. /\ batch' = batch /\ doomed' = doomed /\ bus' = bus /\ accepted' = accepted
      /\ handled' = handled /\ cancels' = cancels /\ failures' = failures
  BY DEF Unwound, SweepOn, countVars
<1>2. ASSUME NEW s \in Seq(Messages), NEW also, Sweep(w, s, also), EndOrAwait(w, s)
      PROVE  /\ inbox' \in [Boxes -> Seq(Messages)] /\ dropped' \subseteq Messages
             /\ waiter' \in [Automations -> {"unsent", "waiting", "answered"}]
             /\ phase' \in [Boxes -> Phases] /\ route' \in Boxes \cup {None}
  <2>1. /\ inbox' \in [Boxes -> Seq(Messages)] /\ dropped' \subseteq Messages
        /\ waiter' \in [Automations -> {"unsent", "waiting", "answered"}]
    BY <1>2, SweepTypes
  <2>2. phase' \in [Boxes -> Phases] /\ route' \in Boxes \cup {None}
    BY <1>2 DEF EndOrAwait, RouteAfter, TypeOK, Phases
  <2> QED
    BY <2>1, <2>2
<1>3. CASE Unwound(w)
  <2>1. AllQueued(w) \in Seq(Messages)
    BY AllQueuedTypes
  <2>2. /\ Sweep(w, AllQueued(w), {current[w]}) /\ EndOrAwait(w, AllQueued(w))
        /\ deferred' = <<>> /\ current' = [current EXCEPT ![w] = Nothing]
        /\ lock' = None \/ lock' = lock
    BY <1>3 DEF Unwound
  <2>3. /\ deferred' \in Seq(Deferring) /\ lock' \in Boxes \cup {None}
        /\ current' \in [Boxes -> Messages \cup {Nothing}]
    BY <2>2, EmptySeq DEF TypeOK
  <2> QED
    BY <1>1, <1>2, <2>1, <2>2, <2>3 DEF TypeOK, Shape
<1>4. CASE SweepOn(w)
  <2>1. inbox[w] \in Seq(Messages)
    BY DEF TypeOK
  <2>2. /\ Sweep(w, inbox[w], {}) /\ EndOrAwait(w, inbox[w])
        /\ deferred' = deferred /\ current' = current /\ lock' = lock
    BY <1>4 DEF SweepOn
  <2> QED
    BY <1>1, <1>2, <2>1, <2>2 DEF TypeOK, Shape
<1> QED
  BY <1>3, <1>4

LEMMA NextTypes ==
  ASSUME TypeOK, Shape, [Next]_vars
  PROVE  TypeOK' /\ Shape'
<1>1. ASSUME NEW m \in Inputs \cup Commands, Receive(m)
      PROVE  TypeOK' /\ Shape'
  <2>1. m \in Messages
    BY DEF Messages
  <2> QED
    BY <1>1, <2>1, ReceiveTypes
<1>2. ASSUME NEW w \in Boxes, WorkerStep(w)
      PROVE  TypeOK' /\ Shape'
  BY <1>2, LoopTypes, TurnTypes, DrainTypes, SweepingTypes DEF WorkerStep
<1>3. CASE BusStep \/ \E kind \in CancelKinds : Cancel(kind)
  BY <1>3, JournaledTypes, CancelTypes, ReclaimTypes DEF BusStep
<1>4. CASE UNCHANGED vars
  BY <1>4 DEF TypeOK, Shape, vars, queueVars, workerVars, countVars
<1> QED
  BY <1>1, <1>2, <1>3, <1>4, SubmitTypes DEF Next

LEMMA InitTypes ==
  ASSUME Init
  PROVE  TypeOK /\ Shape
<1>1. bus = IdleBus /\ bus \in Buses
  BY DEF Init, IdleBus, Buses, Deeds
<1>2. Shape
  BY <1>1 DEF Shape, IdleBus
<1>3. /\ \A S : <<>> \in Seq(S)
      /\ 0 \in 0 .. MaxCancels /\ 0 \in 0 .. MaxFailures
  BY EmptySeq, BoundsAssumption
<1> QED
  BY <1>1, <1>2, <1>3 DEF Init, TypeOK, Phases, Buses, Deeds

-----------------------------------------------------------------------------
(* The worker, the route to its inbox and the running cancellation.        *)

Working == {"new", "admit", "run", "drain", "settle"}
Leaving == {"unwind", "sweep"}
Serving == Working \cup {"unwind"}
Cancelling == {"wait", "sweep", "tail"}

(* A cancellation holds the workers it found, and has let go of none       *)
(* before all of them are done.                                            *)
BusShape ==
  /\ bus.at \notin Cancelling => bus.tasks = {} /\ bus.box = None
  /\ bus.at \in Cancelling \cup {"read"} => bus.kind \in CancelKinds
  /\ (bus.at \in Cancelling /\ bus.box # None) => bus.box \in bus.tasks
  /\ \A w \in bus.tasks : phase[w] # "absent"
  /\ bus.at \in {"sweep", "tail"} => \A w \in bus.tasks : phase[w] = "done"

(* Workers are cancelled and unwound while their canceller waits for them. *)
DoomedShape ==
  \A w \in doomed : bus.at = "wait" /\ w \in bus.tasks /\ phase[w] \in Working
LeavingShape ==
  \A w \in Boxes : phase[w] \in Leaving =>
    bus.at = "wait" /\ w \in bus.tasks /\ w \notin doomed

(* A registered inbox has a live worker, or a canceller that reclaims it.  *)
RouteShape ==
  /\ route # None => Live(route) \/ (bus.at = "wait" /\ route \in bus.tasks)
  /\ (bus.at = "wait" /\ route \in bus.tasks) => bus.box = route

BatchShape == \A w \in Boxes : batch[w] # <<>> => phase[w] = "drain"

(* Only /stop takes the route from a live worker.                          *)
Sole == "stop" \notin CancelKinds => \A w \in Boxes : Live(w) => route = w

(* Only a command makes a sweep await.                                     *)
NoSweep == Commands = {} => bus.at # "sweep" /\ \A w \in Boxes : phase[w] # "sweep"

Skeleton == /\ BusShape /\ DoomedShape /\ LeavingShape /\ RouteShape /\ BatchShape
            /\ Sole /\ NoSweep

LEMMA PutDone ==
  ASSUME TypeOK, NEW m, Put(m)
  PROVE  /\ accepted' = Append(accepted, m)
         /\ \/ /\ route # None /\ route' = route /\ phase' = phase
               /\ inbox' = [inbox EXCEPT ![route] = Append(@, m)]
            \/ /\ route = None
               /\ \E w \in Boxes :
                    /\ phase[w] = "absent" /\ route' = w
                    /\ inbox' = [inbox EXCEPT ![w] = <<m>>]
                    /\ phase' = [phase EXCEPT ![w] = "new"]
  BY DEF Put

(* A message comes in; the consumer is not cancelling when it moves.       *)
LEMMA SkeletonPut ==
  ASSUME TypeOK, TypeOK', Skeleton, doomed' = doomed, batch' = batch,
         \/ route' = route /\ phase' = phase
         \/ \E m : Put(m),
         \/ bus' = bus
         \/ /\ bus.at \notin Cancelling /\ bus'.at \in {"idle", "journal"}
            /\ bus'.tasks = {} /\ bus'.box = None
  PROVE  Skeleton'
<1>1. \/ route' = route /\ phase' = phase
      \/ /\ route = None
         /\ \E w \in Boxes : /\ phase[w] = "absent" /\ route' = w
                             /\ phase' = [phase EXCEPT ![w] = "new"]
  BY PutDone
<1>2. phase \in [Boxes -> Phases] /\ bus \in Buses /\ None \notin Boxes
  BY BusTypes, BoxesFacts DEF TypeOK
<1>3. BusShape' /\ bus'.tasks = bus.tasks /\ (bus'.at \in Cancelling => bus' = bus)
  BY <1>1, <1>2 DEF Skeleton, BusShape, Cancelling, Buses
<1>4. DoomedShape'
  <2> SUFFICES ASSUME NEW v \in doomed
               PROVE  bus'.at = "wait" /\ v \in bus'.tasks /\ phase'[v] \in Working
    BY DEF DoomedShape
  <2>1. v \in Boxes /\ bus.at = "wait" /\ v \in bus.tasks /\ phase[v] \in Working
    BY DEF Skeleton, DoomedShape, TypeOK
  <2>2. bus' = bus
    BY <2>1 DEF Cancelling
  <2>3. phase'[v] = phase[v] \/ phase'[v] = "new"
    BY <1>1, <1>2, <2>1
  <2> QED
    BY <2>1, <2>2, <2>3 DEF Working
<1>5. LeavingShape'
  BY <1>1, <1>2 DEF Skeleton, LeavingShape, Cancelling, Leaving
<1>6. RouteShape'
  BY <1>1, <1>2 DEF Skeleton, RouteShape, BusShape, Cancelling, Live, Buses
<1>7. BatchShape'
  BY <1>1, <1>2 DEF Skeleton, BatchShape
<1>8. Sole'
  BY <1>1, <1>2 DEF Skeleton, Sole, Live
<1>9. NoSweep'
  BY <1>1, <1>2 DEF Skeleton, NoSweep
<1> QED
  BY <1>3, <1>4, <1>5, <1>6, <1>7, <1>8, <1>9 DEF Skeleton

(* A worker goes on, is unwound or ends.                                   *)
LEMMA SkeletonMove ==
  ASSUME TypeOK, TypeOK', Skeleton, bus' = bus, NEW w \in Boxes, NEW p \in Phases,
         phase' = [phase EXCEPT ![w] = p], Live(w), p # "absent",
         \/ w \notin doomed /\ doomed' = doomed /\ p \in Working \cup {"done"}
         \/ w \in doomed /\ doomed' = doomed \ {w} /\ p \in {"unwind", "done"}
         \/ phase[w] \in Leaving /\ doomed' = doomed /\ p \in {"sweep", "done"},
         route' = route \/ (route = w /\ route' = None),
         p = "done" /\ w \notin doomed => route' # w,
         p # "done" => route' = route,
         \A v \in Boxes : v # w => batch'[v] = batch[v],
         batch'[w] # <<>> => p = "drain",
         p = "sweep" => Commands # {}
  PROVE  Skeleton'
<1>1. phase \in [Boxes -> Phases] /\ bus \in Buses /\ None \notin Boxes /\ doomed \subseteq Boxes
  BY BusTypes, BoxesFacts DEF TypeOK
<1>2. phase'[w] = p /\ \A v \in Boxes : v # w => phase'[v] = phase[v]
  BY <1>1
<1>3. BusShape'
  <2>1. bus.at \in {"sweep", "tail"} => w \notin bus.tasks
    BY DEF Skeleton, BusShape, Live
  <2> QED
    BY <1>1, <1>2, <2>1 DEF Skeleton, BusShape, Buses
<1>4. DoomedShape'
  BY <1>1, <1>2 DEF Skeleton, DoomedShape, LeavingShape, Working, Leaving
<1>5. LeavingShape'
  BY <1>1, <1>2 DEF Skeleton, DoomedShape, LeavingShape, Working, Leaving
<1>6. RouteShape'
  <2>1. RouteShape /\ BusShape /\ DoomedShape
    BY DEF Skeleton
  <2>2. CASE route' = None
    <3>1. route' \notin bus.tasks
      BY <1>1, <2>2 DEF Buses
    <3> QED
      BY <2>2, <3>1 DEF RouteShape
  <2>3. CASE route' = route /\ route # None /\ route # w
    <3>1. route \in Boxes /\ phase'[route] = phase[route]
      BY <1>2, <2>3 DEF TypeOK
    <3> QED
      BY <2>1, <2>3, <3>1 DEF RouteShape, Live
  <2>4. CASE route' = route /\ route # None /\ route = w
    <3>1. (bus.at = "wait" /\ route \in bus.tasks) => bus.box = route
      BY <2>1 DEF RouteShape
    <3>2. CASE p # "done"
      BY <1>2, <2>4, <3>1, <3>2 DEF RouteShape, Live
    <3>3. CASE p = "done"
      <4>1. w \in doomed
        BY <2>4, <3>3
      <4> QED
        BY <2>1, <2>4, <3>1, <4>1 DEF RouteShape, DoomedShape
    <3> QED
      BY <3>2, <3>3
  <2> QED
    BY <2>2, <2>3, <2>4
<1>7. BatchShape'
  BY <1>1, <1>2 DEF Skeleton, BatchShape
<1>8. Sole'
  BY <1>1, <1>2 DEF Skeleton, Sole, Live
<1>9. NoSweep'
  BY <1>1, <1>2 DEF Skeleton, NoSweep
<1> QED
  BY <1>3, <1>4, <1>5, <1>6, <1>7, <1>8, <1>9 DEF Skeleton

LEMMA CommandFree ==
  ASSUME Commands = {}, NEW s
  PROVE  ~Awaits(s)
  BY DEF Awaits

LEMMA SkeletonLoop ==
  ASSUME TypeOK, TypeOK', Skeleton, NEW w \in Boxes,
         Begin(w) \/ FailEarly(w) \/ Return(w)
  PROVE  Skeleton'
<1>1. /\ bus' = bus /\ batch' = batch /\ doomed' = doomed /\ w \notin doomed
      /\ LoopHead(w) /\ phase[w] \in {"new", "admit", "settle"}
  BY DEF Begin, FailEarly, Return
<1>2. batch[w] = <<>>
  BY <1>1 DEF Skeleton, BatchShape
<1>3. \/ phase' = [phase EXCEPT ![w] = "admit"] /\ route' = route
      \/ phase' = [phase EXCEPT ![w] = "done"] /\ route' = RouteAfter(w)
  BY <1>1, HeadTaken
<1>4. Live(w) /\ None \notin Boxes
  BY <1>1, BoxesFacts DEF Live
<1>5. CASE phase' = [phase EXCEPT ![w] = "admit"] /\ route' = route
  BY <1>1, <1>2, <1>4, <1>5, SkeletonMove DEF Phases, Working
<1>6. CASE phase' = [phase EXCEPT ![w] = "done"] /\ route' = RouteAfter(w)
  <2>1. (route' = route \/ (route = w /\ route' = None)) /\ route' # w
    BY <1>4, <1>6 DEF RouteAfter
  <2> QED
    BY <1>1, <1>2, <1>4, <1>6, <2>1, SkeletonMove DEF Phases
<1> QED
  BY <1>3, <1>5, <1>6

LEMMA SkeletonTurn ==
  ASSUME TypeOK, TypeOK', Skeleton, NEW w \in Boxes,
         Acquire(w) \/ Finish(w) \/ Drain(w) \/ DrainDone(w)
  PROVE  Skeleton'
<1>1. /\ bus' = bus /\ doomed' = doomed /\ w \notin doomed /\ route' = route
      /\ phase[w] \in {"admit", "run", "drain"}
  BY DEF Acquire, Finish, Drain, DrainDone, queueVars
<1>2. Live(w) /\ (phase[w] # "drain" => batch[w] = <<>>)
  BY <1>1 DEF Live, Skeleton, BatchShape
<1>3. CASE Acquire(w) \/ Finish(w)
  <2>1. PICK p \in {"run", "settle"} : phase' = [phase EXCEPT ![w] = p]
    BY <1>3 DEF Acquire, Finish
  <2>2. batch' = batch /\ batch'[w] = <<>>
    BY <1>2, <1>3 DEF Acquire, Finish
  <2> QED
    BY <1>1, <1>2, <2>1, <2>2, SkeletonMove DEF Phases, Working
<1>4. CASE Drain(w)
  <2>1. /\ phase' = [phase EXCEPT ![w] = "drain"]
        /\ \A v \in Boxes : v # w => batch'[v] = batch[v]
    BY <1>4 DEF Drain, TypeOK
  <2> QED
    BY <1>1, <1>2, <2>1, SkeletonMove DEF Phases, Working
<1>5. CASE DrainDone(w)
  <2>1. /\ phase' = [phase EXCEPT ![w] = "run"]
        /\ batch'[w] = <<>> /\ \A v \in Boxes : v # w => batch'[v] = batch[v]
    BY <1>5 DEF DrainDone, TypeOK
  <2> QED
    BY <1>1, <1>2, <2>1, SkeletonMove DEF Phases, Working
<1> QED
  BY <1>3, <1>4, <1>5

LEMMA SkeletonLeave ==
  ASSUME TypeOK, TypeOK', Skeleton, NEW w \in Boxes,
         Unwind(w) \/ Stillborn(w) \/ Unwound(w) \/ SweepOn(w)
  PROVE  Skeleton'
<1>1. /\ bus' = bus /\ Live(w)
      /\ phase[w] \in {"new", "unwind", "sweep"} => batch[w] = <<>>
      /\ None \notin Boxes
  BY BoxesFacts DEF Unwind, Stillborn, Unwound, SweepOn, Live, Skeleton, BatchShape
<1>2. CASE Unwind(w)
  <2>1. /\ phase' = [phase EXCEPT ![w] = "unwind"] /\ route' = route
        /\ w \in doomed /\ doomed' = doomed \ {w}
        /\ batch'[w] = <<>> /\ \A v \in Boxes : v # w => batch'[v] = batch[v]
    BY <1>2 DEF Unwind, TypeOK
  <2> QED
    BY <1>1, <2>1, SkeletonMove DEF Phases
<1>3. CASE Stillborn(w)
  <2>1. /\ phase' = [phase EXCEPT ![w] = "done"] /\ route' = route
        /\ w \in doomed /\ doomed' = doomed \ {w} /\ batch' = batch /\ batch[w] = <<>>
    BY <1>1, <1>3 DEF Stillborn, queueVars
  <2> QED
    BY <1>1, <2>1, SkeletonMove DEF Phases
<1>4. CASE Unwound(w) \/ SweepOn(w)
  <2>1. /\ phase[w] \in Leaving /\ doomed' = doomed /\ batch' = batch /\ batch[w] = <<>>
        /\ w \notin doomed
    BY <1>1, <1>4 DEF Unwound, SweepOn, Leaving, Skeleton, LeavingShape
  <2>2. PICK s : EndOrAwait(w, s)
    BY <1>4 DEF Unwound, SweepOn
  <2>3. CASE Awaits(s)
    <3>1. Commands # {} /\ phase' = [phase EXCEPT ![w] = "sweep"] /\ route' = route
      BY <2>2, <2>3 DEF EndOrAwait, Awaits
    <3> QED
      BY <1>1, <2>1, <3>1, SkeletonMove DEF Phases
  <2>4. CASE ~Awaits(s)
    <3>1. phase' = [phase EXCEPT ![w] = "done"] /\ route' = RouteAfter(w)
      BY <2>2, <2>4 DEF EndOrAwait
    <3>2. (route' = route \/ (route = w /\ route' = None)) /\ route' # w
      BY <1>1, <3>1 DEF RouteAfter
    <3> QED
      BY <1>1, <2>1, <3>1, <3>2, SkeletonMove DEF Phases
  <2> QED
    BY <2>3, <2>4
<1> QED
  BY <1>2, <1>3, <1>4

LEMMA SkeletonAdmit ==
  ASSUME TypeOK, TypeOK', Skeleton,
         \/ \E m : Receive(m) \/ Submit(m)
         \/ Journaled \/ JournalRefused
  PROVE  Skeleton'
<1>1. doomed' = doomed /\ batch' = batch
  BY DEF Receive, Submit, Journaled, JournalRefused, workerVars
<1>2. (route' = route /\ phase' = phase) \/ \E m : Put(m)
  BY DEF Receive, Submit, Journaled, JournalRefused, workerVars, queueVars
<1>3. \/ bus' = bus
      \/ /\ bus.at \notin Cancelling /\ bus'.at \in {"idle", "journal"}
         /\ bus'.tasks = {} /\ bus'.box = None
  <2>1. CASE \E m : Submit(m)
    BY <2>1 DEF Submit
  <2>2. CASE Journaled \/ JournalRefused
    BY <2>2 DEF Journaled, JournalRefused, IdleBus, Cancelling
  <2>3. ASSUME NEW m, Receive(m)
        PROVE  <1>3!2 \/ bus' = bus
    <3>1. bus.at = "idle" /\ bus \in Buses /\ bus.tasks = {} /\ bus.box = None
      BY <2>3, BusTypes DEF Receive, ConsumerFree, Skeleton, BusShape, Cancelling
    <3> QED
      BY <2>3, <3>1 DEF Receive, Cancelling, Buses
  <2> QED
    BY <2>1, <2>2, <2>3
<1> QED
  BY <1>1, <1>2, <1>3, SkeletonPut

LEMMA SkeletonBus ==
  ASSUME TypeOK, TypeOK', Skeleton, Shape,
         \/ \E kind \in CancelKinds : Cancel(kind)
         \/ CutOff \/ Reclaim \/ ReclaimOn \/ StopTail
  PROVE  Skeleton'
<1>0. bus \in Buses /\ None \notin Boxes /\ doomed \subseteq Boxes /\ Alive \subseteq Boxes
  BY BusTypes, BoxesFacts DEF TypeOK
<1>1. ASSUME NEW kind \in CancelKinds, Cancel(kind)
      PROVE  Skeleton'
  <2>1. /\ UNCHANGED <<route, phase, batch, doomed>>
        /\ bus'.at = "read" /\ bus'.kind = kind /\ bus'.tasks = {} /\ bus'.box = None
        /\ bus.at = "idle"
    BY <1>1 DEF Cancel, IdleBus, workerVars, queueVars
  <2> QED
    BY <2>1 DEF Skeleton, BusShape, DoomedShape, LeavingShape, RouteShape, BatchShape,
             Sole, NoSweep, Cancelling, Live
<1>2. CASE CutOff
  <2>1. /\ UNCHANGED <<route, phase, batch>> /\ doomed' = Alive
        /\ bus.at = "read"
        /\ bus'.at = "wait" /\ bus'.kind = bus.kind /\ bus'.tasks = Alive
        /\ bus'.box = route
    BY <1>0, <1>2 DEF CutOff, Buses, queueVars
  <2>2. \A w \in Boxes : w \in Alive <=> Live(w)
    BY DEF Alive
  <2>3. \A w \in Boxes : phase[w] \notin Leaving /\ (Live(w) => phase[w] \in Working)
    BY <2>1 DEF Skeleton, LeavingShape, Leaving, Working, Live, TypeOK, Phases
  <2>4. route # None => Live(route) /\ route \in Boxes
    BY <2>1 DEF Skeleton, RouteShape, TypeOK
  <2>5. BusShape'
    BY <1>0, <2>1, <2>2, <2>4 DEF Skeleton, BusShape, Cancelling, Live
  <2>6. DoomedShape' /\ LeavingShape'
    BY <1>0, <2>1, <2>2, <2>3 DEF DoomedShape, LeavingShape
  <2>7. RouteShape' /\ BatchShape' /\ Sole' /\ NoSweep'
    BY <2>1, <2>2, <2>4 DEF Skeleton, RouteShape, BatchShape, Sole, NoSweep, Live
  <2> QED
    BY <2>5, <2>6, <2>7 DEF Skeleton
<1>3. CASE Reclaim
  <2>1. /\ UNCHANGED <<phase, batch, doomed>> /\ bus.at = "wait"
        /\ \A w \in bus.tasks : phase[w] = "done"
        /\ bus'.kind = bus.kind /\ bus'.tasks = bus.tasks /\ bus'.box = bus.box
        /\ bus'.at \in {"sweep", "tail"}
    BY <1>0, <1>3 DEF Reclaim, Awaited, Buses, workerVars
  <2>2. /\ route' = route \/ route' = None
        /\ route' # None => route \notin bus.tasks
        /\ route' # None => route' = route
    BY <1>3 DEF Reclaim, Reclaims, queueVars, Skeleton, RouteShape
  <2>3. \A w \in Boxes : Live(w) => w \notin bus.tasks
    BY <2>1 DEF Live
  <2>4. doomed = {}
    BY <1>0, <2>1 DEF Skeleton, DoomedShape, Working
  <2>5. \A w \in Boxes : phase[w] \notin Leaving
    BY <2>1 DEF Skeleton, LeavingShape, Leaving
  <2>6. BusShape'
    BY <2>1 DEF Skeleton, BusShape, Cancelling
  <2>7. DoomedShape' /\ LeavingShape'
    BY <2>1, <2>4, <2>5 DEF DoomedShape, LeavingShape
  <2>8. RouteShape'
    BY <2>1, <2>2 DEF Skeleton, RouteShape, Live
  <2>9. BatchShape' /\ Sole'
    <3>1. ASSUME NEW w \in Boxes, "stop" \notin CancelKinds, Live(w)
          PROVE  route' = w
      <4>1. route = w /\ w \notin bus.tasks
        BY <2>3, <3>1 DEF Skeleton, Sole
      <4>2. route' = route
        BY <1>0, <1>3, <4>1 DEF Reclaim, Reclaims, queueVars, Skeleton, BusShape
      <4> QED
        BY <4>1, <4>2
    <3> QED
      BY <2>1, <3>1 DEF Skeleton, BatchShape, Sole, Live
  <2>10. NoSweep'
    <3>1. ASSUME Commands = {}
          PROVE  bus'.at # "sweep"
      BY <1>0, <1>3, <3>1 DEF Reclaim, Awaits, Buses
    <3> QED
      BY <2>1, <3>1 DEF Skeleton, NoSweep
  <2> QED
    BY <2>6, <2>7, <2>8, <2>9, <2>10 DEF Skeleton
<1>4. CASE ReclaimOn
  <2>1. /\ UNCHANGED <<phase, batch, doomed, route>> /\ bus.at = "sweep"
        /\ bus'.kind = bus.kind /\ bus'.tasks = bus.tasks /\ bus'.box = bus.box
        /\ (bus'.at = "sweep" /\ Commands # {}) \/ bus'.at = "tail"
    BY <1>0, <1>4 DEF ReclaimOn, Buses, workerVars, Awaits
  <2> QED
    BY <2>1 DEF Skeleton, BusShape, DoomedShape, LeavingShape, RouteShape, BatchShape,
             Sole, NoSweep, Cancelling, Live
<1>5. CASE StopTail
  <2>1. /\ UNCHANGED <<phase, batch, doomed>> /\ bus.at = "tail"
        /\ bus'.at = "idle" /\ bus'.tasks = {} /\ bus'.box = None
        /\ route' = route \/ (route' = None /\ bus.kind = "stop")
    BY <1>5 DEF StopTail, workerVars, IdleBus
  <2> QED
    BY <2>1 DEF Skeleton, BusShape, DoomedShape, LeavingShape, RouteShape, BatchShape,
             Sole, NoSweep, Cancelling, Live
<1> QED
  BY <1>1, <1>2, <1>3, <1>4, <1>5

LEMMA NextSkeleton ==
  ASSUME TypeOK, TypeOK', Shape, Skeleton, [Next]_vars
  PROVE  Skeleton'
<1>1. ASSUME NEW w \in Boxes, WorkerStep(w)
      PROVE  Skeleton'
  BY <1>1, SkeletonLoop, SkeletonTurn, SkeletonLeave DEF WorkerStep
<1>2. CASE BusStep \/ \E kind \in CancelKinds : Cancel(kind)
  BY <1>2, SkeletonAdmit, SkeletonBus DEF BusStep
<1>3. CASE \E m : Receive(m) \/ Submit(m)
  BY <1>3, SkeletonAdmit
<1>4. CASE UNCHANGED vars
  BY <1>4 DEF Skeleton, BusShape, DoomedShape, LeavingShape, RouteShape, BatchShape,
           Sole, NoSweep, Live, vars, queueVars, workerVars
<1> QED
  BY <1>1, <1>2, <1>3, <1>4 DEF Next

LEMMA InitSkeleton ==
  ASSUME Init
  PROVE  Skeleton
<1>1. \A w \in Boxes : phase[w] = "absent" /\ batch[w] = <<>>
  BY DEF Init
<1>2. /\ route = None /\ doomed = {}
      /\ bus.at = "idle" /\ bus.tasks = {} /\ bus.box = None
  BY DEF Init, IdleBus
<1> QED
  BY <1>1, <1>2 DEF Skeleton, BusShape, DoomedShape, LeavingShape, RouteShape, BatchShape,
           Sole, NoSweep, Live, Cancelling, Leaving

-----------------------------------------------------------------------------
(* What the inboxes and the drains hold.                                   *)

Held(w) == Range(inbox[w]) \cup Range(batch[w])
Sent(m) == m \in Range(accepted) \/ (m \in Automations /\ waiter[m] # "unsent")

(* The inbox of a worker that was not started is empty.                    *)
Fresh == \A w \in Boxes : phase[w] = "absent" => inbox[w] = <<>>

(* What is handled, held or deferred was sent, and only once.              *)
Places ==
  /\ \A m \in Range(handled) : Sent(m)
  /\ \A w \in Boxes : \A m \in Held(w) : Sent(m)
  /\ \A m \in Range(deferred) : waiter[m] # "unsent" /\ m \notin Range(accepted)
  /\ \A m \in Range(accepted) \cap Automations : waiter[m] # "unsent"

(* A follow-up that is being journaled was not accepted yet.               *)
Journaling == bus.at = "journal" => bus.msg \notin Range(accepted)

Came(m) ==
  /\ m \in Messages /\ m \notin Range(accepted)
  /\ accepted' = Append(accepted, m)
  /\ handled' = handled /\ dropped' = dropped /\ batch' = batch /\ deferred' = deferred
  /\ current' = current /\ doomed' = doomed
  /\ route' \in Boxes /\ inbox'[route'] = Append(inbox[route'], m)
  /\ \A v \in Boxes : v # route' => inbox'[v] = inbox[v] /\ phase'[v] = phase[v]
  /\ \/ route' = route /\ phase' = phase
     \/ route = None /\ phase[route'] = "absent" /\ phase'[route'] = "new"
  /\ \/ /\ m \in Inputs \cup Commands /\ waiter' = waiter
        /\ bus.at \in {"idle", "journal"} /\ bus'.at = "idle"
     \/ /\ m \in Automations /\ waiter[m] = "unsent"
        /\ waiter' = [waiter EXCEPT ![m] = "waiting"] /\ bus' = bus
        /\ m \in Deferring => route = None

Stayed ==
  /\ accepted' = accepted
  /\ Range(handled) \subseteq Range(handled') /\ dropped \subseteq dropped'
  /\ \A v \in Boxes : /\ Held(v)' \subseteq Held(v) \cup Range(deferred)
                      /\ phase'[v] \in Serving => Held(v)' \subseteq Held(v)
                      /\ Held(v) \subseteq Held(v)' \cup Range(handled') \cup dropped'
  /\ Range(handled') \subseteq Range(handled) \cup (UNION {Held(v) : v \in Boxes}) \cup Range(deferred)
  /\ Range(deferred') \subseteq Range(deferred) \cup {a \in Automations : waiter[a] = "unsent" /\ waiter'[a] # "unsent"}
  /\ \A a \in Automations : waiter[a] # "unsent" => waiter'[a] # "unsent"

LEMMA NamesApart == Inputs \cap Automations = {} /\ Commands \cap Automations = {}
  BY NamesAssumption

LEMMA HeldTypes ==
  ASSUME TypeOK
  PROVE  /\ \A w \in Boxes : /\ inbox[w] \in Seq(Messages) /\ batch[w] \in Seq(Messages)
                             /\ Held(w) \subseteq Messages
         /\ Range(accepted) \subseteq Messages /\ Range(handled) \subseteq Messages
         /\ Range(deferred) \subseteq Deferring
  BY RangeOfSeq DEF TypeOK, Held

LEMMA PutComes ==
  ASSUME TypeOK, Fresh, NEW m \in Messages, Put(m)
  PROVE  /\ accepted' = Append(accepted, m)
         /\ route' \in Boxes /\ inbox'[route'] = Append(inbox[route'], m)
         /\ \A v \in Boxes : v # route' => inbox'[v] = inbox[v] /\ phase'[v] = phase[v]
         /\ \/ route' = route /\ phase' = phase
            \/ route = None /\ phase[route'] = "absent" /\ phase'[route'] = "new"
<1>1. CASE route # None
  <2>1. route \in Boxes
    BY <1>1 DEF TypeOK
  <2> QED
    BY <1>1, <2>1 DEF Put, TypeOK
<1>2. CASE route = None
  <2>1. PICK w \in Boxes : /\ phase[w] = "absent" /\ route' = w
                           /\ inbox' = [inbox EXCEPT ![w] = <<m>>]
                           /\ phase' = [phase EXCEPT ![w] = "new"]
    BY <1>2 DEF Put
  <2>2. inbox[w] = <<>> /\ Append(<<>>, m) = <<m>>
    BY <2>1 DEF Fresh
  <2>3. inbox'[w] = Append(inbox[w], m)
    BY <2>1, <2>2 DEF TypeOK
  <2> QED
    BY <1>2, <2>1, <2>3 DEF Put, TypeOK
<1> QED
  BY <1>1, <1>2

LEMMA Admitted ==
  ASSUME TypeOK, Shape, Fresh, Places, Journaling,
         \/ \E m \in Inputs \cup Commands : Receive(m)
         \/ \E a \in Automations : Submit(a)
         \/ Journaled
  PROVE  (\E m : Came(m)) \/ (Stayed /\ UNCHANGED <<inbox, batch, handled, phase, route, dropped>>)
<1>1. ASSUME NEW m \in Inputs \cup Commands, Receive(m)
      PROVE  Came(m) \/ (Stayed /\ UNCHANGED <<inbox, batch, handled, phase, route, dropped>>)
  <2>1. CASE m \in Inputs /\ route # None
    BY <1>1, <2>1 DEF Receive, Stayed, Held
  <2>2. CASE ~(m \in Inputs /\ route # None)
    <3>1. /\ Put(m) /\ bus' = bus /\ bus.at = "idle" /\ m \notin Range(accepted)
          /\ m \in Messages
          /\ UNCHANGED <<deferred, current, batch, doomed, waiter, handled, dropped>>
      BY <1>1, <2>2 DEF Receive, ConsumerFree, New, Messages
    <3> QED
      BY <3>1, PutComes DEF Came
  <2> QED
    BY <2>1, <2>2
<1>2. ASSUME NEW a \in Automations, Submit(a)
      PROVE  Came(a) \/ (Stayed /\ UNCHANGED <<inbox, batch, handled, phase, route, dropped>>)
  <2>0. waiter[a] = "unsent" /\ waiter' = [waiter EXCEPT ![a] = "waiting"] /\ a \in Messages
    BY <1>2 DEF Submit, Messages
  <2>1. CASE Defers(a)
    <3>1. /\ deferred' = Append(deferred, a) /\ a \in Deferring /\ accepted' = accepted
          /\ UNCHANGED <<inbox, batch, handled, phase, route, dropped>>
      BY <1>2, <2>1 DEF Submit, Defers
    <3>2. Range(deferred') = Range(deferred) \cup {a}
      BY <3>1, RangeAppend DEF TypeOK
    <3>3. waiter'[a] = "waiting" /\ \A b \in Automations : waiter[b] # "unsent" => waiter'[b] # "unsent"
      BY <2>0 DEF TypeOK
    <3> QED
      BY <2>0, <3>1, <3>2, <3>3 DEF Stayed, Held
  <2>2. CASE ~Defers(a)
    <3>1. /\ Put(a) /\ bus' = bus /\ (a \in Deferring => route = None)
          /\ UNCHANGED <<deferred, current, batch, doomed, handled, dropped>>
      BY <1>2, <2>2 DEF Submit, Defers
    <3>2. a \notin Range(accepted)
      BY <2>0 DEF Places
    <3> QED
      BY <2>0, <3>1, <3>2, PutComes DEF Came
  <2> QED
    BY <2>1, <2>2
<1>3. ASSUME Journaled
      PROVE  Came(bus.msg)
  <2>1. /\ Put(bus.msg) /\ bus.at = "journal" /\ bus'.at = "idle"
        /\ UNCHANGED <<deferred, current, batch, doomed, waiter, handled, dropped>>
    BY <1>3 DEF Journaled, IdleBus
  <2>2. bus.msg \in Inputs /\ bus.msg \in Messages /\ bus.msg \notin Range(accepted)
    BY <2>1 DEF Shape, Journaling, Messages
  <2> QED
    BY <2>1, <2>2, PutComes DEF Came
<1> QED
  BY <1>1, <1>2, <1>3

LEMMA AnswerKeeps ==
  ASSUME TypeOK, NEW done, Answer(done)
  PROVE  \A a \in Automations : waiter[a] # "unsent" => waiter'[a] # "unsent"
  BY DEF Answer

(* A sweep of the inbox of w, which holds s.                               *)
LEMMA SweepHolds ==
  ASSUME TypeOK, NEW w \in Boxes, NEW s \in Seq(Messages), NEW also, Sweep(w, s, also),
         batch' = batch
  PROVE  /\ dropped \subseteq dropped' /\ dropped' \subseteq dropped \cup Range(s)
         /\ Range(s) \subseteq Range(inbox[w])' \cup dropped'
         /\ Range(inbox[w])' \subseteq Range(s)
         /\ ~Awaits(s) => inbox'[w] = <<>> /\ Range(s) \subseteq dropped'
         /\ \A v \in Boxes : v # w => inbox'[v] = inbox[v] /\ Held(v)' = Held(v)
         /\ \A a \in Automations : waiter[a] # "unsent" => waiter'[a] # "unsent"
<1> DEFINE out == Range(SubSeq(s, 1, Cut(s)))
           rest == SubSeq(s, Cut(s) + 1, Len(s))
<1>1. /\ out \cup Range(rest) = Range(s)
      /\ ~Awaits(s) => out = Range(s) /\ rest = <<>>
  BY SweepParts
<1>2. inbox' = [inbox EXCEPT ![w] = rest] /\ dropped' = dropped \cup out /\ Answer(out \cup also)
  BY DEF Sweep
<1> HIDE DEF out, rest
<1>3. /\ inbox'[w] = rest
      /\ \A v \in Boxes : v # w => inbox'[v] = inbox[v] /\ Held(v)' = Held(v)
  BY <1>2 DEF TypeOK, Held
<1>4. \A a \in Automations : waiter[a] # "unsent" => waiter'[a] # "unsent"
  BY <1>2, AnswerKeeps
<1> QED
  BY <1>1, <1>2, <1>3, <1>4

LEMMA LoopStays ==
  ASSUME TypeOK, NEW w \in Boxes, Begin(w) \/ FailEarly(w) \/ Return(w)
  PROVE  Stayed
<1>1. /\ accepted' = accepted /\ dropped' = dropped /\ batch' = batch /\ waiter' = waiter
      /\ LoopHead(w)
  BY DEF Begin, FailEarly, Return
<1>2. inbox[w] \in Seq(Messages) /\ deferred \in Seq(Deferring) /\ handled \in Seq(Messages)
  BY DEF TypeOK
<1>3. CASE inbox' = inbox /\ deferred' = deferred /\ handled' = handled
  BY <1>1, <1>3 DEF Stayed, Held
<1>4. CASE /\ inbox[w] # <<>>
           /\ inbox' = [inbox EXCEPT ![w] = Tail(@)]
           /\ deferred' = deferred /\ handled' = Append(handled, Head(inbox[w]))
  <2>1. /\ Range(inbox[w]) = {Head(inbox[w])} \cup Range(Tail(inbox[w]))
        /\ Head(inbox[w]) \in Messages
    BY <1>2, <1>4, RangeHeadTail
  <2>2. Range(handled') = Range(handled) \cup {Head(inbox[w])}
    BY <1>2, <1>4, <2>1, RangeAppend
  <2>3. inbox'[w] = Tail(inbox[w]) /\ \A v \in Boxes : v # w => inbox'[v] = inbox[v]
    BY <1>4 DEF TypeOK
  <2>4. /\ Held(w)' \subseteq Held(w) /\ Held(w) \subseteq Held(w)' \cup Range(handled')
        /\ Head(inbox[w]) \in Held(w)
        /\ \A v \in Boxes : v # w => Held(v)' = Held(v)
    BY <1>1, <2>1, <2>2, <2>3 DEF Held
  <2> QED
    BY <1>1, <1>4, <2>2, <2>4 DEF Stayed
<1>5. CASE /\ deferred # <<>> /\ inbox' = inbox
           /\ deferred' = Tail(deferred) /\ handled' = Append(handled, Head(deferred))
  <2>1. /\ Range(deferred) = {Head(deferred)} \cup Range(Tail(deferred))
        /\ Head(deferred) \in Messages
    BY <1>2, <1>5, RangeHeadTail DEF Messages, Automations
  <2>2. Range(handled') = Range(handled) \cup {Head(deferred)}
    BY <1>2, <1>5, <2>1, RangeAppend
  <2>3. \A v \in Boxes : Held(v)' = Held(v)
    BY <1>1, <1>5 DEF Held
  <2>4. /\ Range(deferred') \subseteq Range(deferred)
        /\ Range(handled') \subseteq Range(handled) \cup Range(deferred)
        /\ Range(handled) \subseteq Range(handled')
    BY <1>5, <2>1, <2>2
  <2> QED
    BY <1>1, <2>3, <2>4 DEF Stayed
<1> QED
  BY <1>1, <1>3, <1>4, <1>5, HeadTaken

LEMMA TurnStays ==
  ASSUME TypeOK, Skeleton, NEW w \in Boxes,
         Acquire(w) \/ Finish(w) \/ Drain(w) \/ DrainDone(w)
  PROVE  Stayed
<1>1. CASE Acquire(w) \/ Finish(w)
  <2>1. \A a \in Automations : waiter[a] # "unsent" => waiter'[a] # "unsent"
    BY <1>1, AnswerKeeps DEF Acquire, Finish
  <2> QED
    BY <1>1, <2>1 DEF Acquire, Finish, queueVars, Stayed, Held
<1>2. CASE Drain(w)
  <2>1. /\ batch[w] = <<>> /\ batch'[w] = inbox[w] /\ inbox'[w] = <<>>
        /\ \A v \in Boxes : v # w => batch'[v] = batch[v] /\ inbox'[v] = inbox[v]
    BY <1>2 DEF Drain, TypeOK, Skeleton, BatchShape
  <2>2. \A v \in Boxes : Held(v)' = Held(v)
    BY <2>1 DEF Held
  <2> QED
    BY <1>2, <2>2 DEF Drain, Stayed
<1>3. CASE DrainDone(w)
  <2>1. PICK n \in Absorbable(w) : /\ inbox' = [inbox EXCEPT ![w] = PutBack(w, n)]
                                   /\ handled' = handled \o SubSeq(batch[w], 1, n)
    BY <1>3 DEF DrainDone
  <2>2. n \in 0 .. Len(batch[w])
    BY DEF Absorbable
  <2> DEFINE a == SubSeq(batch[w], 1, n)
             b == PutBack(w, n)
  <2>3. a \in Seq(Messages) /\ Range(a) \cup Range(b) = Held(w)
    BY <2>2, PutBackTypes DEF Held
  <2>4. handled' = handled \o a /\ inbox'[w] = b
    BY <2>1 DEF TypeOK
  <2> HIDE DEF a, b
  <2>5. Range(handled') = Range(handled) \cup Range(a)
    BY <2>3, <2>4, RangeConcat DEF TypeOK
  <2>6. /\ batch'[w] = <<>>
        /\ \A v \in Boxes : v # w => batch'[v] = batch[v] /\ inbox'[v] = inbox[v]
    BY <1>3, <2>1 DEF DrainDone, TypeOK
  <2>7. Held(w)' = Range(b) /\ \A v \in Boxes : v # w => Held(v)' = Held(v)
    BY <2>4, <2>6, RangeEmpty DEF Held
  <2> QED
    BY <1>3, <2>3, <2>5, <2>7 DEF DrainDone, Stayed
<1> QED
  BY <1>1, <1>2, <1>3

LEMMA LeaveStays ==
  ASSUME TypeOK, Skeleton, NEW w \in Boxes,
         Unwind(w) \/ Stillborn(w) \/ Unwound(w) \/ SweepOn(w)
  PROVE  Stayed
<1>0. inbox[w] \in Seq(Messages) /\ batch[w] \in Seq(Messages)
  BY DEF TypeOK
<1>1. CASE Stillborn(w)
  BY <1>1 DEF Stillborn, queueVars, Stayed, Held
<1>2. CASE Unwind(w)
  <2>1. /\ batch'[w] = <<>> /\ inbox'[w] = PutBack(w, 0)
        /\ \A v \in Boxes : v # w => batch'[v] = batch[v] /\ inbox'[v] = inbox[v]
    BY <1>2 DEF Unwind, TypeOK
  <2>2. Range(PutBack(w, 0)) = Range(inbox[w]) \cup Range(batch[w])
    <3>1. 0 \in 0 .. Len(batch[w])
      BY <1>0, LenProperties
    <3>2. SubSeq(batch[w], 1, 0) = <<>>
      BY SubSeqEmpty
    <3> QED
      BY <3>1, <3>2, PutBackTypes, RangeEmpty
  <2>3. \A v \in Boxes : Held(v)' = Held(v)
    BY <2>1, <2>2, RangeEmpty DEF Held
  <2> QED
    BY <1>2, <2>3 DEF Unwind, Stayed
<1>3. CASE Unwound(w) \/ SweepOn(w)
  <2>1. /\ accepted' = accepted /\ handled' = handled /\ batch' = batch
        /\ Range(deferred') \subseteq Range(deferred)
    BY <1>3, RangeEmpty DEF Unwound, SweepOn
  <2>2. \E s, also :
          /\ s \in Seq(Messages) /\ Sweep(w, s, also) /\ Range(inbox[w]) \subseteq Range(s)
          /\ Range(s) \subseteq Range(inbox[w]) \cup Range(deferred)
    BY <1>0, <1>3, AllQueuedTypes DEF Unwound, SweepOn
  <2>3. PICK s, also :
          /\ s \in Seq(Messages) /\ Sweep(w, s, also) /\ Range(inbox[w]) \subseteq Range(s)
          /\ Range(s) \subseteq Range(inbox[w]) \cup Range(deferred)
    BY <2>2
  <2>4. /\ dropped \subseteq dropped'
        /\ Range(s) \subseteq Range(inbox[w])' \cup dropped'
        /\ Range(inbox[w])' \subseteq Range(s)
        /\ \A v \in Boxes : v # w => Held(v)' = Held(v)
        /\ \A a \in Automations : waiter[a] # "unsent" => waiter'[a] # "unsent"
    BY <2>1, <2>3, SweepHolds
  <2>5. Held(w)' \subseteq Held(w) \cup Range(deferred) /\ Held(w) \subseteq Held(w)' \cup dropped'
    BY <2>1, <2>3, <2>4 DEF Held
  <2>6. phase'[w] \notin Serving
    BY <1>3 DEF Unwound, SweepOn, EndOrAwait, Serving, Working, TypeOK
  <2> QED
    BY <2>1, <2>4, <2>5, <2>6 DEF Stayed
<1> QED
  BY <1>1, <1>2, <1>3

LEMMA BusStays ==
  ASSUME TypeOK, Shape, Skeleton,
         \/ \E kind \in CancelKinds : Cancel(kind)
         \/ JournalRefused \/ CutOff \/ Reclaim \/ ReclaimOn \/ StopTail
  PROVE  Stayed
<1>1. CASE (\E kind \in CancelKinds : Cancel(kind)) \/ JournalRefused \/ CutOff
  BY <1>1 DEF Cancel, JournalRefused, CutOff, queueVars, workerVars, Stayed, Held
<1>2. CASE (Reclaim /\ Reclaims) \/ ReclaimOn
  <2>a. bus.box \in Boxes
    BY <1>2, BusTypes DEF Reclaims, Reclaim, ReclaimOn, Shape, Buses
  <2>0. PICK w \in Boxes : w = bus.box
    BY <2>a
  <2>1. /\ accepted' = accepted /\ handled' = handled /\ batch' = batch
        /\ Range(deferred') \subseteq Range(deferred)
    BY <1>2, RangeEmpty DEF Reclaim, ReclaimOn, workerVars
  <2>2. \E s, also :
          /\ s \in Seq(Messages) /\ Sweep(w, s, also) /\ Range(inbox[w]) \subseteq Range(s)
          /\ Range(s) \subseteq Range(inbox[w]) \cup Range(deferred)
    <3>1. inbox[w] \in Seq(Messages)
      BY <2>0 DEF TypeOK
    <3>2. AllQueued(w) \in Seq(Messages) /\ Range(AllQueued(w)) = Range(inbox[w]) \cup Range(deferred)
      BY <2>0, AllQueuedTypes
    <3>3. Sweep(w, AllQueued(w), {}) \/ Sweep(w, inbox[w], {})
      BY <1>2, <2>0 DEF Reclaim, ReclaimOn
    <3> QED
      BY <3>1, <3>2, <3>3
  <2>3. PICK s, also :
          /\ s \in Seq(Messages) /\ Sweep(w, s, also) /\ Range(inbox[w]) \subseteq Range(s)
          /\ Range(s) \subseteq Range(inbox[w]) \cup Range(deferred)
    BY <2>2
  <2>4. /\ dropped \subseteq dropped'
        /\ Range(s) \subseteq Range(inbox[w])' \cup dropped'
        /\ Range(inbox[w])' \subseteq Range(s)
        /\ \A v \in Boxes : v # w => Held(v)' = Held(v)
        /\ \A a \in Automations : waiter[a] # "unsent" => waiter'[a] # "unsent"
    BY <2>0, <2>1, <2>3, SweepHolds
  <2>5. Held(w)' \subseteq Held(w) \cup Range(deferred) /\ Held(w) \subseteq Held(w)' \cup dropped'
    BY <2>1, <2>3, <2>4 DEF Held
  <2>6. phase'[w] \notin Serving
    <3>1. phase' = phase /\ phase[w] = "done"
      BY <1>2, <2>0, BoxesFacts DEF Reclaim, ReclaimOn, Reclaims, Awaited, workerVars, Skeleton,
             BusShape, Cancelling
    <3> QED
      BY <3>1 DEF Serving, Working
  <2> QED
    BY <2>1, <2>4, <2>5, <2>6 DEF Stayed
<1>3. CASE Reclaim /\ ~Reclaims
  BY <1>3 DEF Reclaim, queueVars, workerVars, Stayed, Held
<1>4. CASE StopTail
  <2>1. /\ accepted' = accepted /\ handled' = handled /\ batch' = batch
        /\ deferred' = deferred /\ waiter' = waiter
    BY <1>4 DEF StopTail, workerVars
  <2>2. CASE inbox' = inbox /\ dropped' = dropped
    BY <2>1, <2>2 DEF Stayed, Held
  <2>3. CASE /\ route # None /\ inbox' = [inbox EXCEPT ![route] = <<>>]
             /\ dropped' = dropped \cup Range(inbox[route])
    <3>0. PICK r \in Boxes : r = route
      BY <2>3 DEF TypeOK
    <3>1. inbox'[r] = <<>> /\ \A v \in Boxes : v # r => inbox'[v] = inbox[v]
      BY <2>3, <3>0 DEF TypeOK
    <3>2. /\ Held(r)' \subseteq Held(r) /\ Held(r) \subseteq Held(r)' \cup dropped'
          /\ \A v \in Boxes : v # r => Held(v)' = Held(v)
      BY <2>1, <2>3, <3>0, <3>1, RangeEmpty DEF Held
    <3> QED
      BY <2>1, <2>3, <3>1, <3>2 DEF Stayed
  <2> QED
    BY <1>4, <2>2, <2>3 DEF StopTail
<1> QED
  BY <1>1, <1>2, <1>3, <1>4

(* A step accepts one new message, or moves and drops what there is.       *)
LEMMA Flow ==
  ASSUME TypeOK, Shape, Skeleton, Fresh, Places, Journaling, [Next]_vars
  PROVE  (\E m : Came(m)) \/ Stayed
<1>1. ASSUME NEW w \in Boxes, WorkerStep(w)
      PROVE  Stayed
  BY <1>1, LoopStays, TurnStays, LeaveStays DEF WorkerStep
<1>2. CASE UNCHANGED vars
  BY <1>2 DEF vars, queueVars, workerVars, Stayed, Held
<1> QED
  BY <1>1, <1>2, Admitted, BusStays DEF Next, BusStep

-----------------------------------------------------------------------------
(* Which worker a step touches, and what it does to the cancellation.      *)

Touches(w) ==
  /\ phase[w] # "absent" /\ phase'[w] # "absent"
  /\ \A v \in Boxes : v # w =>
       /\ inbox'[v] = inbox[v] /\ batch'[v] = batch[v]
       /\ phase'[v] = phase[v] /\ current'[v] = current[v]

LEMMA WorkerTouches ==
  ASSUME TypeOK, NEW w \in Boxes, WorkerStep(w)
  PROVE  Touches(w) /\ Live(w) /\ bus' = bus /\ accepted' = accepted
<1>1. CASE Begin(w) \/ FailEarly(w) \/ Return(w)
  <2>1. /\ batch' = batch /\ bus' = bus /\ accepted' = accepted /\ LoopHead(w)
        /\ phase[w] \in {"new", "admit", "settle"}
    BY <1>1 DEF Begin, FailEarly, Return
  <2>2. /\ current' = [current EXCEPT ![w] = current'[w]]
        /\ phase' = [phase EXCEPT ![w] = "admit"] \/ phase' = [phase EXCEPT ![w] = "done"]
        /\ inbox' = [inbox EXCEPT ![w] = Tail(@)] \/ inbox' = inbox
    BY <2>1, HeadTaken DEF TypeOK
  <2> QED
    BY <2>1, <2>2 DEF Touches, TypeOK, Live
<1>2. CASE Acquire(w) \/ Finish(w) \/ Drain(w) \/ DrainDone(w) \/ Unwind(w) \/ Stillborn(w)
  BY <1>2 DEF Acquire, Finish, Drain, DrainDone, Unwind, Stillborn, queueVars, Touches,
           TypeOK, Live
<1>3. CASE Unwound(w) \/ SweepOn(w)
  BY <1>3 DEF Unwound, SweepOn, Sweep, EndOrAwait, Touches, TypeOK, Live
<1> QED
  BY <1>1, <1>2, <1>3 DEF WorkerStep

LEMMA BusTouches ==
  ASSUME TypeOK, Shape, Skeleton,
         \/ \E kind \in CancelKinds : Cancel(kind)
         \/ JournalRefused \/ CutOff \/ Reclaim \/ ReclaimOn \/ StopTail
  PROVE  /\ phase' = phase /\ batch' = batch /\ current' = current /\ accepted' = accepted
         /\ inbox' = inbox \/ \E w \in Boxes : Touches(w)
<1>1. phase' = phase /\ batch' = batch /\ current' = current /\ accepted' = accepted
  BY DEF Cancel, JournalRefused, CutOff, Reclaim, ReclaimOn, StopTail, workerVars
<1>2. CASE (\E kind \in CancelKinds : Cancel(kind)) \/ JournalRefused \/ CutOff
  BY <1>1, <1>2 DEF Cancel, JournalRefused, CutOff, queueVars
<1>3. CASE Reclaim \/ ReclaimOn
  <2>1. CASE inbox' = inbox
    BY <1>1, <2>1
  <2>2. CASE inbox' # inbox
    <3>1. bus.box # None /\ bus.at \in Cancelling /\ \E s : inbox' = [inbox EXCEPT ![bus.box] = s]
      BY <1>3, <2>2, BoxesFacts DEF Reclaim, Reclaims, ReclaimOn, Sweep, queueVars, Cancelling, Shape
    <3>2. bus.box \in Boxes /\ phase[bus.box] # "absent"
      BY <3>1, BusTypes DEF Skeleton, BusShape, Buses
    <3> QED
      BY <1>1, <3>1, <3>2 DEF Touches, TypeOK
  <2> QED
    BY <2>1, <2>2
<1>4. CASE StopTail
  <2>1. CASE inbox' = inbox
    BY <1>1, <2>1
  <2>2. CASE inbox' # inbox
    <3>1. route # None /\ inbox' = [inbox EXCEPT ![route] = <<>>]
      BY <1>4, <2>2 DEF StopTail
    <3>2. route \in Boxes /\ Live(route)
      BY <1>4, <3>1 DEF Skeleton, RouteShape, TypeOK, StopTail
    <3> QED
      BY <1>1, <3>1, <3>2 DEF Touches, TypeOK, Live
  <2> QED
    BY <2>1, <2>2
<1> QED
  BY <1>1, <1>2, <1>3, <1>4

LEMMA BusMoves ==
  ASSUME TypeOK, Shape, Skeleton, [Next]_vars
  PROVE  /\ bus'.at = "journal" =>
              bus' = bus \/ (accepted' = accepted /\ bus'.msg \notin Range(accepted))
         /\ bus'.at \in Cancelling \cup {"read"} =>
              \/ /\ bus.at \in Cancelling \cup {"read"} /\ bus'.before = bus.before
                 /\ bus.at # "read" => bus'.tasks = bus.tasks
                 /\ (bus.at = "read" /\ bus'.at # "read") => bus'.tasks = Alive
              \/ /\ bus'.at = "read" /\ bus'.before = Range(accepted) /\ accepted' = accepted
<1>0. bus \in Buses
  BY BusTypes
<1>1. ASSUME NEW m \in Inputs \cup Commands, Receive(m)
      PROVE  /\ bus'.at \notin Cancelling \cup {"read"}
             /\ bus'.at = "journal" =>
                  bus' = bus \/ (accepted' = accepted /\ bus'.msg \notin Range(accepted))
  BY <1>0, <1>1 DEF Receive, ConsumerFree, New, Buses, Cancelling
<1>2. CASE (\E a \in Automations : Submit(a)) \/ UNCHANGED vars \/ \E w \in Boxes : WorkerStep(w)
  <2>1. bus' = bus
    BY <1>2, WorkerTouches DEF Submit, vars
  <2> QED
    BY <2>1 DEF Cancelling
<1>3. CASE Journaled \/ JournalRefused \/ StopTail
  BY <1>3 DEF Journaled, JournalRefused, StopTail, IdleBus, Cancelling
<1>4. CASE \E kind \in CancelKinds : Cancel(kind)
  BY <1>4 DEF Cancel, IdleBus, Cancelling
<1>5. CASE CutOff \/ Reclaim \/ ReclaimOn
  BY <1>0, <1>5 DEF CutOff, Reclaim, ReclaimOn, Buses, Cancelling
<1> QED
  BY <1>1, <1>2, <1>3, <1>4, <1>5 DEF Next, BusStep

(* Only a cancellation drops messages, and the workers it has cancelled.   *)
LEMMA Drops ==
  ASSUME TypeOK, Shape, Skeleton, [Next]_vars
  PROVE  \/ dropped' = dropped
         \/ /\ bus.at \in Cancelling
            /\ \E w \in Boxes : dropped' \subseteq dropped \cup Held(w) \cup Range(deferred)
<1>1. CASE \E w \in Boxes : Unwound(w) \/ SweepOn(w)
  <2>1. PICK w \in Boxes : Unwound(w) \/ SweepOn(w)
    BY <1>1
  <2>2. bus.at \in Cancelling
    BY <2>1 DEF Unwound, SweepOn, Skeleton, LeavingShape, Leaving, Cancelling
  <2>3. batch' = batch /\ inbox[w] \in Seq(Messages)
    BY <2>1 DEF Unwound, SweepOn, TypeOK
  <2>4. CASE Unwound(w)
    <3>1. /\ AllQueued(w) \in Seq(Messages) /\ Sweep(w, AllQueued(w), {current[w]})
          /\ Range(AllQueued(w)) = Range(inbox[w]) \cup Range(deferred)
      BY <2>4, AllQueuedTypes DEF Unwound
    <3>2. dropped' \subseteq dropped \cup Range(AllQueued(w))
      BY <2>3, <3>1, SweepHolds
    <3> QED
      BY <2>2, <3>1, <3>2 DEF Held
  <2>5. CASE SweepOn(w)
    <3>1. Sweep(w, inbox[w], {})
      BY <2>5 DEF SweepOn
    <3>2. dropped' \subseteq dropped \cup Range(inbox[w])
      BY <2>3, <3>1, SweepHolds
    <3> QED
      BY <2>2, <3>2 DEF Held
  <2> QED
    BY <2>1, <2>4, <2>5
<1>2. CASE (Reclaim /\ Reclaims) \/ ReclaimOn
  <2>a. bus.box \in Boxes /\ bus.at \in Cancelling
    BY <1>2, BusTypes DEF Reclaims, Reclaim, ReclaimOn, Shape, Buses, Cancelling
  <2>1. PICK w \in Boxes : w = bus.box
    BY <2>a
  <2>3. batch' = batch /\ inbox[w] \in Seq(Messages)
    BY <1>2 DEF Reclaim, ReclaimOn, TypeOK, workerVars
  <2>4. CASE Reclaim /\ Reclaims
    <3>1. /\ AllQueued(w) \in Seq(Messages) /\ Sweep(w, AllQueued(w), {})
          /\ Range(AllQueued(w)) = Range(inbox[w]) \cup Range(deferred)
      BY <2>1, <2>4, AllQueuedTypes DEF Reclaim
    <3>2. dropped' \subseteq dropped \cup Range(AllQueued(w))
      BY <2>3, <3>1, SweepHolds
    <3> QED
      BY <2>a, <3>1, <3>2 DEF Held
  <2>5. CASE ReclaimOn
    <3>1. Sweep(w, inbox[w], {})
      BY <2>1, <2>5 DEF ReclaimOn
    <3>2. dropped' \subseteq dropped \cup Range(inbox[w])
      BY <2>3, <3>1, SweepHolds
    <3> QED
      BY <2>a, <3>2 DEF Held
  <2> QED
    BY <1>2, <2>4, <2>5
<1>3. CASE Reclaim /\ ~Reclaims
  BY <1>3 DEF Reclaim
<1>4. CASE StopTail
  BY <1>4 DEF StopTail, Cancelling, Held, TypeOK
<1>5. CASE \/ \E m \in Inputs \cup Commands : Receive(m)
           \/ \E a \in Automations : Submit(a)
           \/ \E kind \in CancelKinds : Cancel(kind)
           \/ Journaled \/ JournalRefused \/ CutOff \/ UNCHANGED vars
  BY <1>5 DEF Receive, Submit, Cancel, Journaled, JournalRefused, CutOff, vars
<1>6. CASE \E w \in Boxes : \/ Begin(w) \/ Acquire(w) \/ FailEarly(w) \/ Drain(w) \/ DrainDone(w)
                            \/ Finish(w) \/ Return(w) \/ Unwind(w) \/ Stillborn(w)
  BY <1>6 DEF Begin, Acquire, FailEarly, Drain, DrainDone, Finish, Return, Unwind, Stillborn
<1> QED
  BY <1>1, <1>2, <1>3, <1>4, <1>5, <1>6 DEF Next, BusStep, WorkerStep

LEMMA CameHolds ==
  ASSUME TypeOK, NEW m, Came(m)
  PROVE  /\ \A r \in Boxes : r = route' => Held(r)' = Held(r) \cup {m}
         /\ \A v \in Boxes : v # route' => Held(v)' = Held(v)
         /\ Range(accepted') = Range(accepted) \cup {m}
<1>1. m \in Messages /\ accepted \in Seq(Messages)
  BY DEF Came, TypeOK
<1>2. ASSUME NEW r \in Boxes, r = route'
      PROVE  Held(r)' = Held(r) \cup {m}
  <2>1. inbox'[r] = Append(inbox[r], m) /\ batch' = batch /\ inbox[r] \in Seq(Messages)
    BY <1>2 DEF Came, TypeOK
  <2>2. Range(inbox'[r]) = Range(inbox[r]) \cup {m}
    BY <1>1, <2>1, RangeAppend
  <2> QED
    BY <2>1, <2>2 DEF Held
<1>3. \A v \in Boxes : v # route' => Held(v)' = Held(v)
  BY DEF Came, Held
<1>4. Range(accepted') = Range(accepted) \cup {m}
  BY <1>1, RangeAppend DEF Came
<1> QED
  BY <1>2, <1>3, <1>4

LEMMA Steps ==
  ASSUME TypeOK, Shape, Skeleton, Fresh, Places, Journaling, [Next]_vars
  PROVE  \/ \E m : Came(m)
         \/ Stayed /\ \E w \in Boxes : Touches(w) /\ (Live(w) \/ phase' = phase)
         \/ Stayed /\ inbox' = inbox /\ batch' = batch /\ phase' = phase
<1>1. ASSUME NEW w \in Boxes, WorkerStep(w)
      PROVE  Touches(w) /\ Live(w)
  BY <1>1, WorkerTouches
<1>2. ASSUME NEW w \in Boxes, WorkerStep(w)
      PROVE  Stayed
  BY <1>2, LoopStays, TurnStays, LeaveStays DEF WorkerStep
<1>3. CASE UNCHANGED vars
  <2>1. Stayed
    BY <1>3 DEF vars, queueVars, workerVars, Stayed, Held
  <2> QED
    BY <1>3, <2>1 DEF vars, queueVars, workerVars
<1>4. CASE \/ \E kind \in CancelKinds : Cancel(kind)
           \/ JournalRefused \/ CutOff \/ Reclaim \/ ReclaimOn \/ StopTail
  BY <1>4, BusStays, BusTouches
<1>5. CASE \/ \E m \in Inputs \cup Commands : Receive(m)
           \/ \E a \in Automations : Submit(a)
           \/ Journaled
  BY <1>5, Admitted
<1> QED
  BY <1>1, <1>2, <1>3, <1>4, <1>5 DEF Next, BusStep

LEMMA NextFresh ==
  ASSUME TypeOK, Shape, Skeleton, Fresh, Places, Journaling, [Next]_vars
  PROVE  Fresh'
<1>1. ASSUME NEW m, Came(m), NEW v \in Boxes, phase'[v] = "absent"
      PROVE  inbox'[v] = <<>>
  <2>1. CASE v = route'
    <3>1. route # None /\ phase[route] = "absent"
      BY <1>1, <2>1, BoxesFacts DEF Came
    <3> QED
      BY <3>1 DEF Skeleton, RouteShape, BusShape, Live
  <2>2. CASE v # route'
    BY <1>1, <2>2 DEF Came, Fresh
  <2> QED
    BY <2>1, <2>2
<1>2. CASE \E w \in Boxes : Touches(w)
  BY <1>2 DEF Touches, Fresh
<1>3. CASE inbox' = inbox /\ phase' = phase
  BY <1>3 DEF Fresh
<1> QED
  BY <1>1, <1>2, <1>3, Steps DEF Fresh

LEMMA NextPlaces ==
  ASSUME TypeOK, TypeOK', Shape, Skeleton, Fresh, Places, Journaling, [Next]_vars
  PROVE  Places'
<1>1. ASSUME NEW m, Came(m)
      PROVE  Places'
  <2>1. /\ Range(accepted') = Range(accepted) \cup {m}
        /\ \A v \in Boxes : Held(v)' \subseteq Held(v) \cup {m}
    BY <1>1, CameHolds
  <2>2. /\ handled' = handled /\ deferred' = deferred
        /\ \A a \in Automations : waiter[a] # "unsent" => waiter'[a] # "unsent"
        /\ m \in Automations => waiter[m] = "unsent" /\ waiter'[m] # "unsent"
    BY <1>1, NamesApart DEF Came, TypeOK
  <2>3. \A x : Sent(x) => Sent(x)'
    BY <2>1, <2>2 DEF Sent
  <2>4. Sent(m)'
    BY <2>1 DEF Sent
  <2>5. /\ \A x \in Range(handled') : Sent(x)'
        /\ \A w \in Boxes : \A x \in Held(w)' : Sent(x)'
    BY <2>1, <2>2, <2>3, <2>4 DEF Places
  <2>6. \A x \in Range(deferred') : waiter'[x] # "unsent" /\ x \notin Range(accepted')
    <3>1. \A x \in Range(deferred) : x \in Automations /\ waiter[x] # "unsent" /\ x \notin Range(accepted)
      BY HeldTypes DEF Places, Automations
    <3> QED
      BY <2>1, <2>2, <3>1
  <2>7. \A x \in Range(accepted') \cap Automations : waiter'[x] # "unsent"
    BY <2>1, <2>2 DEF Places
  <2> QED
    BY <2>5, <2>6, <2>7 DEF Places
<1>2. CASE Stayed
  <2>1. /\ accepted' = accepted
        /\ \A v \in Boxes : Held(v)' \subseteq Held(v) \cup Range(deferred)
        /\ Range(handled') \subseteq Range(handled) \cup (UNION {Held(v) : v \in Boxes}) \cup Range(deferred)
        /\ Range(deferred') \subseteq Range(deferred) \cup {a \in Automations : waiter[a] = "unsent" /\ waiter'[a] # "unsent"}
        /\ \A a \in Automations : waiter[a] # "unsent" => waiter'[a] # "unsent"
    BY <1>2 DEF Stayed
  <2>2. \A x : Sent(x) => Sent(x)'
    BY <2>1 DEF Sent
  <2>3. \A x \in Range(deferred) : x \in Automations /\ Sent(x)
    BY HeldTypes DEF Places, Automations, Sent
  <2>4. /\ \A x \in Range(handled') : Sent(x)
        /\ \A w \in Boxes : \A x \in Held(w)' : Sent(x)
    BY <2>1, <2>3 DEF Places
  <2>5. \A x \in Range(deferred') : waiter'[x] # "unsent" /\ x \notin Range(accepted')
    BY <2>1, <2>3 DEF Places
  <2>6. \A x \in Range(accepted') \cap Automations : waiter'[x] # "unsent"
    BY <2>1 DEF Places
  <2> QED
    BY <2>2, <2>4, <2>5, <2>6 DEF Places
<1> QED
  BY <1>1, <1>2, Flow

LEMMA NextJournaling ==
  ASSUME TypeOK, Shape, Skeleton, Fresh, Places, Journaling, [Next]_vars
  PROVE  Journaling'
<1>1. SUFFICES ASSUME bus'.at = "journal", bus' = bus
               PROVE  bus.msg \notin Range(accepted')
  BY BusMoves DEF Journaling
<1>2. bus.msg \in Inputs /\ bus.msg \notin Range(accepted)
  BY <1>1 DEF Shape, Journaling
<1>3. ASSUME NEW m, Came(m)
      PROVE  bus.msg \notin Range(accepted')
  <2>1. m \in Automations
    BY <1>1, <1>3 DEF Came
  <2> QED
    BY <1>2, <1>3, <2>1, CameHolds, NamesApart
<1> QED
  BY <1>2, <1>3, Flow DEF Stayed

(* While a cancellation runs, only inputs from before it are accepted, and *)
(* the workers started meanwhile hold none.                                *)
Late ==
  /\ bus.at \in Cancelling \cup {"read"} => Range(accepted) \cap Inputs \subseteq bus.before
  /\ bus.at \in Cancelling =>
       \A w \in Boxes : Live(w) /\ w \notin bus.tasks => Held(w) \cap Inputs = {}

LEMMA NextLate ==
  ASSUME TypeOK, Shape, Skeleton, Fresh, Places, Journaling, Late, [Next]_vars
  PROVE  Late'
<1>0. Range(deferred) \cap Inputs = {}
  BY HeldTypes, NamesApart DEF Automations
<1>1. ASSUME bus'.at \in Cancelling \cup {"read"}, NEW m, Came(m)
      PROVE  m \notin Inputs /\ bus' = bus
  BY <1>1, NamesApart DEF Came, Cancelling
<1>2. ASSUME bus'.at \in Cancelling \cup {"read"}
      PROVE  Range(accepted') \cap Inputs \subseteq bus'.before
  <2>1. CASE \E m : Came(m)
    BY <1>1, <1>2, <2>1, CameHolds DEF Late
  <2>2. CASE Stayed
    BY <1>2, <2>2, BusMoves DEF Late, Stayed
  <2> QED
    BY <2>1, <2>2, Flow
<1>3. ASSUME bus'.at \in Cancelling, NEW w \in Boxes, Live(w)', w \notin bus'.tasks
      PROVE  Held(w)' \cap Inputs = {}
  <2>1. CASE \E m : Came(m)
    <3>1. PICK m : Came(m)
      BY <2>1
    <3>2. m \notin Inputs /\ bus' = bus
      BY <1>1, <1>3, <3>1
    <3>3. Held(w)' \subseteq Held(w) \cup {m}
      BY <3>1, CameHolds
    <3>4. Live(w) \/ Held(w) = {}
      <4>1. phase'[w] = phase[w] \/ phase[w] = "absent"
        BY <3>1 DEF Came
      <4>2. phase[w] = "absent" => inbox[w] = <<>> /\ batch[w] = <<>>
        BY DEF Fresh, Skeleton, BatchShape
      <4> QED
        BY <1>3, <4>1, <4>2, RangeEmpty DEF Live, Held
    <3> QED
      BY <1>3, <3>2, <3>3, <3>4 DEF Late
  <2>2. CASE Stayed /\ \/ \E v \in Boxes : Touches(v) /\ (Live(v) \/ phase' = phase)
                       \/ phase' = phase
    <3>1. Live(w)
      BY <1>3, <2>2 DEF Live, Touches
    <3>2. Held(w)' \subseteq Held(w) \cup Range(deferred)
      BY <2>2 DEF Stayed
    <3>3. bus.at \in Cancelling /\ bus'.tasks = bus.tasks
      <4>1. bus.at = "read" => bus'.tasks = Alive
        BY <1>3, BusMoves DEF Cancelling
      <4> QED
        BY <1>3, <3>1, <4>1, BusMoves DEF Alive, Cancelling
    <3> QED
      BY <1>0, <1>3, <3>1, <3>2, <3>3 DEF Late
  <2> QED
    BY <2>1, <2>2, Steps
<1> QED
  BY <1>2, <1>3 DEF Late

(* Who leaves the states of work, and what takes a route away.             *)
LEMMA Loses ==
  ASSUME TypeOK, Skeleton, [Next]_vars, NEW v \in Boxes, phase'[v] \in Serving
  PROVE  /\ phase[v] \in Serving \/ route' = v
         /\ route = v => route' = v \/ StopTail
<1>0. None \notin Boxes
  BY BoxesFacts
<1>1. ASSUME NEW w \in Boxes, WorkerStep(w)
      PROVE  phase[v] \in Serving /\ (route = v => route' = v)
  <2>1. CASE Begin(w) \/ FailEarly(w) \/ Return(w)
    <3>1. phase[w] \in Working /\ LoopHead(w)
      BY <2>1 DEF Begin, FailEarly, Return, Working
    <3>2. \/ phase' = [phase EXCEPT ![w] = "admit"] /\ route' = route
          \/ phase' = [phase EXCEPT ![w] = "done"] /\ route' = RouteAfter(w)
      BY <3>1, HeadTaken
    <3> QED
      BY <3>1, <3>2 DEF TypeOK, RouteAfter, Serving, Working
  <2>2. CASE Acquire(w) \/ Finish(w) \/ Drain(w) \/ DrainDone(w)
    BY <2>2 DEF Acquire, Finish, Drain, DrainDone, queueVars, Serving, Working, TypeOK
  <2>3. CASE Unwind(w) \/ Stillborn(w)
    BY <2>3 DEF Unwind, Stillborn, queueVars, Serving, Working, TypeOK
  <2>4. CASE Unwound(w) \/ SweepOn(w)
    BY <2>4 DEF Unwound, SweepOn, EndOrAwait, RouteAfter, Serving, Working, TypeOK
  <2> QED
    BY <1>1, <2>1, <2>2, <2>3, <2>4 DEF WorkerStep
<1>2. CASE \/ \E m \in Inputs \cup Commands : Receive(m)
           \/ \E a \in Automations : Submit(a)
           \/ Journaled \/ JournalRefused
  <2>2. (route' = route /\ phase' = phase) \/ \E m : Put(m)
    BY <1>2 DEF Receive, Submit, Journaled, JournalRefused, workerVars, queueVars
  <2>3. \/ route' = route /\ phase' = phase
        \/ /\ route = None
           /\ \E w \in Boxes : route' = w /\ phase' = [phase EXCEPT ![w] = "new"]
    BY <2>2, PutDone
  <2> QED
    BY <1>0, <2>3 DEF TypeOK
<1>3. CASE (\E kind \in CancelKinds : Cancel(kind)) \/ UNCHANGED vars
  BY <1>3 DEF Cancel, vars, queueVars, workerVars
<1>4. CASE CutOff
  BY <1>4 DEF CutOff, queueVars
<1>5. CASE Reclaim \/ ReclaimOn
  <2>1. phase' = phase
    BY <1>5 DEF Reclaim, ReclaimOn, workerVars
  <2>2. route = v => route' = v
    <3>1. phase[v] # "done"
      BY <2>1 DEF Serving, Working
    <3> QED
      BY <1>5, <3>1 DEF Reclaim, Reclaims, Awaited, ReclaimOn, queueVars, Skeleton, BusShape, Cancelling
  <2> QED
    BY <2>1, <2>2
<1>6. CASE StopTail
  BY <1>6 DEF StopTail, workerVars
<1> QED
  BY <1>1, <1>2, <1>3, <1>4, <1>5, <1>6 DEF Next, BusStep

(* A worker that lost the route holds no input.                            *)
Stray ==
  \A w \in Boxes : (phase[w] \in Serving /\ w # route) => Held(w) \cap Inputs = {}

LEMMA NextStray ==
  ASSUME TypeOK, Shape, Skeleton, Fresh, Places, Journaling, Late, Stray, [Next]_vars
  PROVE  Stray'
<1>1. SUFFICES ASSUME NEW v \in Boxes, phase'[v] \in Serving, v # route'
               PROVE  Held(v)' \cap Inputs = {}
  BY DEF Stray
<1>2. phase[v] \in Serving /\ (route = v => bus.at = "tail")
  BY <1>1, Loses DEF StopTail
<1>3. Held(v) \cap Inputs = {}
  <2>1. CASE route # v
    BY <1>2, <2>1 DEF Stray
  <2>2. CASE route = v
    <3>1. Live(v) /\ v \notin bus.tasks
      BY <1>2, <2>2 DEF Skeleton, BusShape, Serving, Working, Live
    <3> QED
      BY <1>2, <2>2, <3>1 DEF Late, Cancelling
  <2> QED
    BY <2>1, <2>2
<1>4. CASE \E m : Came(m)
  BY <1>1, <1>3, <1>4, CameHolds
<1>5. CASE Stayed
  <2>1. Range(deferred) \cap Inputs = {}
    BY HeldTypes, NamesApart DEF Automations
  <2> QED
    BY <1>3, <1>5, <2>1 DEF Stayed
<1> QED
  BY <1>4, <1>5, Flow

(* What was accepted is somewhere.                                         *)
Accounted ==
  \A m \in Range(accepted) :
    m \in Range(handled) \cup dropped \/ \E w \in Boxes : m \in Held(w)

LEMMA NextAccounted ==
  ASSUME TypeOK, Shape, Skeleton, Fresh, Places, Journaling, Accounted, [Next]_vars
  PROVE  Accounted'
<1>1. ASSUME NEW m, Came(m)
      PROVE  Accounted'
  <2>1. /\ Range(accepted') = Range(accepted) \cup {m}
        /\ handled' = handled /\ dropped' = dropped
        /\ \A r \in Boxes : Held(r) \subseteq Held(r)' /\ (r = route' => m \in Held(r)')
        /\ \E r \in Boxes : r = route'
    BY <1>1, CameHolds DEF Came
  <2> QED
    BY <2>1 DEF Accounted
<1>2. CASE Stayed
  <2>1. /\ accepted' = accepted
        /\ Range(handled) \subseteq Range(handled') /\ dropped \subseteq dropped'
        /\ \A v \in Boxes : Held(v) \subseteq Held(v)' \cup Range(handled') \cup dropped'
    BY <1>2 DEF Stayed
  <2> QED
    BY <2>1 DEF Accounted
<1> QED
  BY <1>1, <1>2, Flow

(* /stop takes the route from a worker that was started while it ran, and  *)
(* empties its inbox; what such a worker has in a drain would be lost.     *)
Strayless == "stop" \notin CancelKinds \/ Joining = {}

LEMMA HoldsNothing ==
  ASSUME TypeOK, NEW w \in Boxes
  PROVE  Held(w) = {} <=> inbox[w] = <<>> /\ batch[w] = <<>>
<1>1. ASSUME NEW s \in Seq(Messages), Range(s) = {}
      PROVE  s = <<>>
  <2>1. Len(s) \in Nat /\ \A i \in 1 .. Len(s) : s[i] \in Range(s)
    BY LenProperties DEF Range
  <2>2. Len(s) = 0
    BY <1>1, <2>1
  <2> QED
    BY <2>2, EmptySeq
<1>2. inbox[w] \in Seq(Messages) /\ batch[w] \in Seq(Messages)
  BY DEF TypeOK
<1> QED
  BY <1>1, <1>2, RangeEmpty DEF Held

(* A worker started while a cancellation runs has its first message only.  *)
Thin ==
  (Joining = {} /\ bus.at \in Cancelling) =>
    \A w \in Boxes : (Live(w) /\ w \notin bus.tasks) =>
      Held(w) = {} \/ (phase[w] = "new" /\ Len(inbox[w]) = 1)

LEMMA NextThin ==
  ASSUME TypeOK, TypeOK', Shape, Skeleton, Skeleton', Fresh, Places, Journaling, Thin, [Next]_vars
  PROVE  Thin'
<1>0. None \notin Boxes
  BY BoxesFacts
<1>1. SUFFICES ASSUME Joining = {}, bus'.at \in Cancelling,
                      NEW v \in Boxes, Live(v)', v \notin bus'.tasks
               PROVE  Held(v)' = {} \/ (phase'[v] = "new" /\ Len(inbox'[v]) = 1)
  BY DEF Thin
<1>2. CASE \E m : Came(m)
  <2>1. PICK m : Came(m)
    BY <1>2
  <2>2. bus' = bus /\ m \in Deferring /\ m \in Messages /\ route = None
    BY <1>1, <2>1, NamesApart DEF Came, Cancelling, Automations
  <2>3. CASE v = route'
    <3>1. phase[v] = "absent" /\ phase'[v] = "new" /\ inbox'[v] = Append(inbox[v], m)
      BY <1>0, <2>1, <2>2, <2>3 DEF Came
    <3>2. inbox[v] = <<>> /\ Len(Append(<<>>, m)) = 1
      BY <3>1 DEF Fresh
    <3> QED
      BY <3>1, <3>2
  <2>4. CASE v # route'
    <3>1. inbox'[v] = inbox[v] /\ phase'[v] = phase[v] /\ Held(v)' = Held(v)
      BY <2>1, <2>4, CameHolds DEF Came
    <3> QED
      BY <1>1, <2>2, <3>1 DEF Thin, Live
  <2> QED
    BY <2>3, <2>4
<1>3. CASE ~(\E m : Came(m))
  <2>1. Stayed /\ Live(v)
    BY <1>1, <1>3, Steps DEF Touches, Live
  <2>2. bus.at \in Cancelling /\ bus'.tasks = bus.tasks
    <3>1. bus.at = "read" => bus'.tasks = Alive
      BY <1>1, BusMoves DEF Cancelling
    <3> QED
      BY <1>1, <2>1, <3>1, BusMoves DEF Alive, Cancelling
  <2>3. phase'[v] \in Serving /\ phase[v] \in Working /\ v \notin doomed
    BY <1>1, <2>1, <2>2, ZenonT(90) DEF Skeleton, DoomedShape, LeavingShape, Live, Serving, Working, Leaving,
           TypeOK, Phases
  <2>4. CASE Held(v) = {}
    BY <2>1, <2>3, <2>4 DEF Stayed
  <2>5. CASE phase[v] = "new" /\ Len(inbox[v]) = 1
    <3>0. inbox[v] \in Seq(Messages) /\ batch[v] = <<>>
      BY <2>5 DEF TypeOK, Skeleton, BatchShape
    <3>1. inbox[v] \in Seq(Messages) /\ inbox[v] # <<>> /\ batch[v] = <<>>
      <4>1. inbox[v] = <<>> => Len(inbox[v]) = 0
        BY <3>0, EmptySeq
      <4>2. Len(inbox[v]) = 1
        BY <2>5
      <4> QED
        BY <3>0, <4>1, <4>2
    <3>2. CASE WorkerStep(v)
      <4>1. Begin(v)
        BY <2>3, <2>5, <3>2 DEF WorkerStep, Acquire, FailEarly, Drain, DrainDone, Finish, Return,
               Unwind, Stillborn, Unwound, SweepOn
      <4>2. LoopHead(v) /\ batch' = batch
        BY <4>1 DEF Begin
      <4>3. inbox'[v] = Tail(inbox[v])
        BY <1>1, <3>1, <4>2, HeadTaken DEF TypeOK, Live
      <4>4. Tail(inbox[v]) \in Seq(Messages) /\ Len(Tail(inbox[v])) = 0
        BY <2>5, <3>1, HeadTailProperties
      <4>5. inbox'[v] = <<>> /\ batch'[v] = <<>>
        BY <3>1, <4>2, <4>3, <4>4, EmptySeq
      <4> QED
        BY <4>5, RangeEmpty DEF Held
    <3>3. CASE inbox'[v] = inbox[v] /\ phase'[v] = phase[v]
      BY <2>5, <3>3
    <3>4. ASSUME NEW w \in Boxes, WorkerStep(w), w # v
          PROVE  inbox'[v] = inbox[v] /\ phase'[v] = phase[v]
      BY <3>4, WorkerTouches DEF Touches
    <3>5. CASE (\E kind \in CancelKinds : Cancel(kind)) \/ JournalRefused \/ CutOff \/ UNCHANGED vars
      BY <3>3, <3>5 DEF Cancel, JournalRefused, CutOff, vars, queueVars, workerVars
    <3>6. CASE Reclaim \/ ReclaimOn
      <4>1. phase' = phase
        BY <3>6 DEF Reclaim, ReclaimOn, workerVars
      <4>2. CASE inbox' = inbox
        BY <3>3, <4>1, <4>2
      <4>3. CASE inbox' # inbox
        <5>1. bus.box \in bus.tasks
          BY <2>2, <3>6, <4>3, BoxesFacts DEF Reclaim, ReclaimOn, Reclaims, queueVars, Skeleton, BusShape,
                 Shape
        <5>2. \E s : inbox' = [inbox EXCEPT ![bus.box] = s]
          BY <3>6, <4>3 DEF Reclaim, ReclaimOn, Sweep, queueVars
        <5>3. inbox'[v] = inbox[v]
          <6>1. inbox \in [Boxes -> Seq(Messages)] /\ bus.box # v
            BY <1>1, <2>2, <5>1 DEF TypeOK
          <6> QED
            BY <5>2, <6>1
        <5> QED
          BY <3>3, <4>1, <5>3
      <4> QED
        BY <4>2, <4>3
    <3>7. ~StopTail /\ ~Journaled
      BY <1>1 DEF StopTail, Journaled, IdleBus, Cancelling
    <3>8. CASE (\E m \in Inputs \cup Commands : Receive(m)) \/ (\E a \in Automations : Submit(a))
      BY <1>3, <3>3, <3>8, Admitted
    <3> QED
      BY <3>2, <3>3, <3>4, <3>5, <3>6, <3>7, <3>8 DEF Next, BusStep
  <2> QED
    BY <1>1, <2>1, <2>2, <2>4, <2>5 DEF Thin
<1> QED
  BY <1>2, <1>3

(* A worker that lost the route holds nothing.                             *)
Bare ==
  Strayless => \A w \in Boxes : (phase[w] \in Serving /\ w # route) => Held(w) = {}

LEMMA NextBare ==
  ASSUME TypeOK, TypeOK', Shape, Skeleton, Skeleton', Fresh, Places, Journaling, Thin, Bare,
         [Next]_vars
  PROVE  Bare'
<1>0. None \notin Boxes
  BY BoxesFacts
<1>1. SUFFICES ASSUME Strayless, NEW v \in Boxes, phase'[v] \in Serving, v # route'
               PROVE  Held(v)' = {}
  BY DEF Bare
<1>2. phase[v] \in Serving /\ (route = v => StopTail)
  BY <1>1, Loses
<1>3. CASE route # v
  <2>1. Held(v) = {}
    BY <1>1, <1>2, <1>3 DEF Bare
  <2> QED
    BY <1>1, <2>1, CameHolds, Flow DEF Stayed
<1>4. CASE route = v
  <2>1. StopTail /\ bus.at = "tail"
    BY <1>2, <1>4 DEF StopTail
  <2>2. Joining = {}
    BY <1>1 DEF Strayless, Skeleton, Sole, Live, Serving, Working
  <2>3. inbox'[v] = <<>> /\ batch' = batch
    BY <1>1, <1>4, <2>1 DEF StopTail, workerVars, TypeOK
  <2>4. Live(v) /\ v \notin bus.tasks
    BY <1>2, <2>1 DEF Skeleton, BusShape, Serving, Working, Live
  <2>5. batch[v] = <<>>
    <3>1. Held(v) = {} \/ phase[v] = "new"
      BY <2>1, <2>2, <2>4 DEF Thin, Cancelling
    <3> QED
      BY <3>1, HoldsNothing DEF Skeleton, BatchShape
  <2> QED
    BY <2>3, <2>5, RangeEmpty DEF Held
<1> QED
  BY <1>3, <1>4

(* An inbox that nobody will look at is empty.                             *)
Empty ==
  Strayless =>
    \A w \in Boxes :
      ~Live(w) /\ w # route /\ ~(bus.at = "sweep" /\ bus.box = w) => inbox[w] = <<>>

LEMMA NextEmpty ==
  ASSUME TypeOK, Shape, Skeleton, Fresh, Places, Journaling, Bare, Empty,
         [Next]_vars
  PROVE  Empty'
<1>0. None \notin Boxes
  BY BoxesFacts
<1>1. SUFFICES ASSUME Strayless, NEW v \in Boxes, ~Live(v)', v # route',
                      ~(bus'.at = "sweep" /\ bus'.box = v)
               PROVE  inbox'[v] = <<>>
  BY DEF Empty
<1>2. (phase[v] \in Serving /\ v # route) => inbox[v] = <<>>
  BY <1>1, HoldsNothing DEF Bare
<1>3. (~Live(v) /\ v # route /\ ~(bus.at = "sweep" /\ bus.box = v)) => inbox[v] = <<>>
  BY <1>1 DEF Empty
<1>4. ASSUME NEW m, Came(m)
      PROVE  inbox'[v] = <<>>
  <2>1. /\ inbox'[v] = inbox[v] /\ phase'[v] = phase[v]
        /\ bus.at \in {"idle", "journal"} \/ bus' = bus
        /\ route = None \/ route' = route
    BY <1>1, <1>4 DEF Came
  <2> QED
    BY <1>0, <1>1, <1>3, <2>1 DEF Live
<1>5. ASSUME NEW w \in Boxes, Begin(w) \/ FailEarly(w) \/ Return(w)
      PROVE  inbox'[v] = <<>>
  <2>1. LoopHead(w) /\ bus' = bus /\ phase[w] \in Serving
    BY <1>5 DEF Begin, FailEarly, Return, Serving, Working
  <2>2. CASE v = w
    BY <1>1, <1>2, <2>1, <2>2, HeadTaken DEF Live, TypeOK
  <2>3. CASE v # w
    <3>1. phase'[v] = phase[v] /\ inbox'[v] = inbox[v]
      BY <1>5, <2>3, WorkerTouches DEF WorkerStep, Touches
    <3>2. route # v
      BY <1>1, <2>1, <2>3, HeadTaken DEF RouteAfter
    <3> QED
      BY <1>1, <1>3, <2>1, <3>1, <3>2 DEF Live
  <2> QED
    BY <2>2, <2>3
<1>6. ASSUME NEW w \in Boxes, Acquire(w) \/ Finish(w) \/ Drain(w) \/ DrainDone(w) \/ Unwind(w) \/ Stillborn(w)
      PROVE  inbox'[v] = <<>>
  <2>1. bus' = bus /\ route' = route
    BY <1>6 DEF Acquire, Finish, Drain, DrainDone, Unwind, Stillborn, queueVars
  <2>2. CASE v = w
    <3>1. Stillborn(w)
      BY <1>1, <1>6, <2>2 DEF Acquire, Finish, Drain, DrainDone, Unwind, Live, TypeOK
    <3> QED
      BY <1>1, <1>2, <2>1, <2>2, <3>1 DEF Stillborn, queueVars, Serving, Working
  <2>3. CASE v # w
    <3>1. phase'[v] = phase[v] /\ inbox'[v] = inbox[v]
      BY <1>6, <2>3, WorkerTouches DEF WorkerStep, Touches
    <3> QED
      BY <1>1, <1>3, <2>1, <3>1 DEF Live
  <2> QED
    BY <2>2, <2>3
<1>7. ASSUME NEW w \in Boxes, Unwound(w) \/ SweepOn(w)
      PROVE  inbox'[v] = <<>>
  <2>1. bus' = bus /\ Live(w) /\ batch' = batch
    BY <1>7 DEF Unwound, SweepOn, Live
  <2>2. CASE v = w
    <3>1. \E s, also : s \in Seq(Messages) /\ Sweep(w, s, also) /\ EndOrAwait(w, s)
      BY <1>7, AllQueuedTypes DEF Unwound, SweepOn, TypeOK
    <3>2. PICK s, also : s \in Seq(Messages) /\ Sweep(w, s, also) /\ EndOrAwait(w, s)
      BY <3>1
    <3>3. ~Awaits(s)
      BY <1>1, <2>2, <3>2 DEF EndOrAwait, Live, TypeOK
    <3> QED
      BY <2>1, <2>2, <3>2, <3>3, SweepHolds
  <2>3. CASE v # w
    <3>1. phase'[v] = phase[v] /\ inbox'[v] = inbox[v]
      BY <1>7, <2>3, WorkerTouches DEF WorkerStep, Touches
    <3>2. route # v
      BY <1>1, <1>7, <2>3 DEF Unwound, SweepOn, EndOrAwait, RouteAfter
    <3> QED
      BY <1>1, <1>3, <2>1, <3>1, <3>2 DEF Live
  <2> QED
    BY <2>2, <2>3
<1>8. CASE \/ \E kind \in CancelKinds : Cancel(kind)
           \/ JournalRefused \/ CutOff \/ UNCHANGED vars
  <2>1. UNCHANGED <<inbox, phase, route>> /\ (bus' = bus \/ bus.at # "sweep")
    BY <1>8 DEF Cancel, JournalRefused, CutOff, vars, queueVars, workerVars
  <2> QED
    BY <1>1, <1>3, <2>1 DEF Live
<1>9. CASE Reclaim \/ ReclaimOn
  <2>1. phase' = phase /\ batch' = batch /\ bus'.box = bus.box
    BY <1>9, BusTypes DEF Reclaim, ReclaimOn, workerVars, Buses
  <2>2. CASE (Reclaim /\ Reclaims) \/ ReclaimOn
    <3>1. bus.box \in Boxes
      BY <2>2, BusTypes DEF Reclaims, Reclaim, ReclaimOn, Shape, Buses
    <3>2. PICK w \in Boxes : w = bus.box
      BY <3>1
    <3>3. \E s \in Seq(Messages) :
            Sweep(w, s, {}) /\ (bus'.at = "sweep" \/ ~Awaits(s))
      <4>1. inbox[w] \in Seq(Messages) /\ AllQueued(w) \in Seq(Messages)
        BY AllQueuedTypes DEF TypeOK
      <4>2. CASE Reclaim /\ Reclaims
        <5>1. Sweep(w, AllQueued(w), {}) /\ (bus'.at = "sweep" \/ ~Awaits(AllQueued(w)))
          BY <3>2, <4>2, BusTypes DEF Reclaim, Buses
        <5> QED
          BY <4>1, <5>1
      <4>3. CASE ReclaimOn
        <5>1. Sweep(w, inbox[w], {}) /\ (bus'.at = "sweep" \/ ~Awaits(inbox[w]))
          BY <3>2, <4>3, BusTypes DEF ReclaimOn, Buses
        <5> QED
          BY <4>1, <5>1
      <4> QED
        BY <2>2, <4>2, <4>3
    <3>4. PICK s \in Seq(Messages) : Sweep(w, s, {}) /\ (bus'.at = "sweep" \/ ~Awaits(s))
      BY <3>3
    <3>5. CASE v = w
      BY <1>1, <2>1, <3>2, <3>4, <3>5, SweepHolds
    <3>6. CASE v # w
      <4>1. inbox'[v] = inbox[v]
        BY <2>1, <3>4, <3>6, SweepHolds
      <4>2. route # v
        BY <1>1, <2>2, <3>2, <3>6 DEF Reclaim, Reclaims, ReclaimOn
      <4> QED
        BY <1>1, <1>3, <2>1, <3>2, <3>6, <4>1, <4>2 DEF Live
    <3> QED
      BY <3>5, <3>6
  <2>3. CASE Reclaim /\ ~Reclaims
    BY <1>1, <1>3, <2>1, <2>3 DEF Reclaim, queueVars, Live
  <2> QED
    BY <1>9, <2>2, <2>3
<1>10. CASE StopTail
  <2>1. bus.at = "tail" /\ phase' = phase
    BY <1>10 DEF StopTail, workerVars
  <2>2. \/ route = v /\ inbox'[v] = <<>>
        \/ route # v /\ inbox'[v] = inbox[v]
    BY <1>1, <1>10 DEF StopTail, TypeOK
  <2> QED
    BY <1>1, <1>3, <2>1, <2>2 DEF Live
<1>11. CASE \/ \E m \in Inputs \cup Commands : Receive(m)
            \/ \E a \in Automations : Submit(a)
            \/ Journaled
  <2>1. CASE inbox' = inbox /\ phase' = phase /\ route' = route
    <3>1. bus' = bus \/ bus.at # "sweep"
      BY <1>11 DEF Receive, Submit, Journaled, ConsumerFree
    <3> QED
      BY <1>1, <1>3, <2>1, <3>1 DEF Live
  <2> QED
    BY <1>4, <1>11, <2>1, Admitted
<1> QED
  BY <1>5, <1>6, <1>7, <1>8, <1>9, <1>10, <1>11 DEF Next, BusStep, WorkerStep

-----------------------------------------------------------------------------
(* Order.                                                                  *)

OrderedBy(a, s) == \A i, j \in 1 .. Len(s) : i < j => ~ Precedes(a, s[j], s[i])

LEMMA OrderedPrefix ==
  ASSUME NEW S, NEW s \in Seq(S), NEW t \in Seq(S), NEW a, OrderedBy(a, s \o t)
  PROVE  OrderedBy(a, s)
<1>1. /\ Len(s) \in Nat /\ Len(t) \in Nat /\ Len(s \o t) = Len(s) + Len(t)
      /\ \A i \in 1 .. Len(s) : (s \o t)[i] = s[i]
  BY ConcatProperties, LenProperties
<1> QED
  BY <1>1 DEF OrderedBy

(* A message that was never accepted is in order anywhere.                 *)
LEMMA OrderedSkip ==
  ASSUME NEW S, NEW a \in Seq(S), NEW s \in Seq(S), NEW d \in S, d \notin Range(a),
         OrderedBy(a, s)
  PROVE  OrderedBy(a, Append(s, d))
<1>1. /\ Len(s) \in Nat /\ Len(Append(s, d)) = Len(s) + 1
      /\ \A i \in 1 .. Len(s) : Append(s, d)[i] = s[i]
      /\ Append(s, d)[Len(s) + 1] = d
  BY AppendProperties, LenProperties
<1>2. \A x : ~ Precedes(a, d, x)
  BY LenProperties DEF Precedes, Range
<1>3. ASSUME NEW i \in 1 .. Len(s) + 1, NEW j \in 1 .. Len(s) + 1, i < j
      PROVE  ~ Precedes(a, Append(s, d)[j], Append(s, d)[i])
  <2>1. CASE j = Len(s) + 1
    BY <1>1, <1>2, <2>1
  <2>2. CASE j # Len(s) + 1
    <3>1. i \in 1 .. Len(s) /\ j \in 1 .. Len(s)
      BY <1>1, <1>3, <2>2
    <3> QED
      BY <1>1, <1>3, <3>1 DEF OrderedBy
  <2> QED
    BY <2>1, <2>2
<1> QED
  BY <1>1, <1>3 DEF OrderedBy

(* A message accepted last comes before no other.                          *)
LEMMA OrderedGrow ==
  ASSUME NEW S, NEW a \in Seq(S), NEW s \in Seq(S), NEW m \in S, m \notin Range(a),
         m \notin Range(s), OrderedBy(a, s)
  PROVE  OrderedBy(Append(a, m), s) /\ OrderedBy(Append(a, m), Append(s, m))
<1> DEFINE b == Append(a, m)
           t == Append(s, m)
<1>1. /\ Len(a) \in Nat /\ Len(b) = Len(a) + 1
      /\ \A i \in 1 .. Len(a) : b[i] = a[i]
      /\ b[Len(a) + 1] = m
  BY AppendProperties, LenProperties
<1>2. /\ Len(s) \in Nat /\ Len(t) = Len(s) + 1
      /\ \A i \in 1 .. Len(s) : t[i] = s[i]
      /\ t[Len(s) + 1] = m
  BY AppendProperties, LenProperties
<1>3. \A i \in 1 .. Len(a) : a[i] # m
  BY LenProperties DEF Range
<1>4. \A i \in 1 .. Len(s) : s[i] # m
  BY LenProperties DEF Range
<1> HIDE DEF b, t
<1>5. ASSUME NEW x, NEW y, y # m, Precedes(b, x, y)
      PROVE  Precedes(a, x, y)
  <2>1. PICK i \in 1 .. Len(b), j \in 1 .. Len(b) : i < j /\ b[i] = x /\ b[j] = y
    BY <1>5 DEF Precedes
  <2>2. i \in 1 .. Len(a) /\ j \in 1 .. Len(a)
    BY <1>1, <1>5, <2>1
  <2> QED
    BY <1>1, <2>1, <2>2 DEF Precedes
<1>6. ASSUME NEW y, Precedes(b, m, y)
      PROVE  FALSE
  <2>1. PICK i \in 1 .. Len(b), j \in 1 .. Len(b) : i < j /\ b[i] = m /\ b[j] = y
    BY <1>6 DEF Precedes
  <2>2. i \in 1 .. Len(a)
    BY <1>1, <2>1
  <2> QED
    BY <1>1, <1>3, <2>1, <2>2
<1>7. OrderedBy(b, s)
  BY <1>4, <1>5 DEF OrderedBy
<1>8. ASSUME NEW i \in 1 .. Len(s) + 1, NEW j \in 1 .. Len(s) + 1, i < j
      PROVE  ~ Precedes(b, t[j], t[i])
  <2>1. CASE j = Len(s) + 1
    BY <1>2, <1>6, <2>1
  <2>2. CASE j # Len(s) + 1
    <3>1. i \in 1 .. Len(s) /\ j \in 1 .. Len(s)
      BY <1>2, <1>8, <2>2
    <3> QED
      BY <1>2, <1>7, <1>8, <3>1 DEF OrderedBy
  <2> QED
    BY <2>1, <2>2
<1>9. OrderedBy(b, t)
  BY <1>2, <1>8 DEF OrderedBy
<1> QED
  BY <1>7, <1>9 DEF b, t

LEMMA AppendConcat ==
  ASSUME NEW S, NEW a \in Seq(S), NEW b \in Seq(S), NEW m \in S
  PROVE  Append(a \o b, m) = a \o Append(b, m)
<1> DEFINE e == <<m>>
<1>1. e \in Seq(S) /\ a \o b \in Seq(S)
  BY ConcatProperties
<1>2. Append(a \o b, m) = (a \o b) \o e /\ Append(b, m) = b \o e
  BY <1>1, AppendIsConcat
<1> HIDE DEF e
<1>3. (a \o b) \o e = a \o (b \o e)
  BY <1>1, Associative
<1> QED
  BY <1>2, <1>3

(* A message taken from the front goes to the end of what was taken.       *)
LEMMA TakeFront ==
  ASSUME NEW S, NEW a \in Seq(S), NEW s \in Seq(S), s # <<>>
  PROVE  Append(a, Head(s)) \o Tail(s) = a \o s
<1> DEFINE e == <<Head(s)>>
           t == Tail(s)
<1>1. Head(s) \in S /\ t \in Seq(S) /\ e \o t = s
  BY RangeHeadTail
<1>2. e \in Seq(S) /\ Append(a, Head(s)) = a \o e
  BY <1>1, AppendIsConcat
<1>3. a \in Seq(S) /\ e \in Seq(S) /\ t \in Seq(S)
  BY <1>1, <1>2
<1> HIDE DEF e, t
<1>4. (a \o e) \o t = a \o (e \o t)
  BY <1>3, Associative
<1> QED
  BY <1>1, <1>2, <1>4 DEF t

LEMMA ConcatEmpty ==
  ASSUME NEW S, NEW s \in Seq(S)
  PROVE  s \o <<>> = s /\ <<>> \o s = s
  BY ConcatEmptySeq

(* What a turn has taken and will find, when its worker holds the route.   *)
Ahead(w) == handled \o (batch[w] \o inbox[w])

Order ==
  /\ OrderedBy(accepted, handled)
  /\ \A w \in Boxes : w = route /\ phase[w] \in Working => OrderedBy(accepted, Ahead(w))

LEMMA AheadTypes ==
  ASSUME TypeOK, NEW w \in Boxes
  PROVE  /\ inbox[w] \in Seq(Messages) /\ batch[w] \in Seq(Messages) /\ handled \in Seq(Messages)
         /\ batch[w] \o inbox[w] \in Seq(Messages) /\ Ahead(w) \in Seq(Messages)
         /\ batch[w] = <<>> => Ahead(w) = handled \o inbox[w]
         /\ (batch[w] = <<>> /\ inbox[w] = <<>>) => Ahead(w) = handled
         /\ Range(Ahead(w)) = Range(handled) \cup Held(w)
<1> DEFINE b == batch[w]
           c == inbox[w]
<1>1. b \in Seq(Messages) /\ c \in Seq(Messages) /\ handled \in Seq(Messages)
  BY DEF TypeOK
<1> HIDE DEF b, c
<1>2. b \o c \in Seq(Messages) /\ Range(b \o c) = Range(b) \cup Range(c)
  BY <1>1, ConcatProperties, RangeConcat
<1>3. /\ handled \o (b \o c) \in Seq(Messages)
      /\ Range(handled \o (b \o c)) = Range(handled) \cup Range(b \o c)
  <2> DEFINE d == b \o c
  <2>1. handled \in Seq(Messages) /\ d \in Seq(Messages)
    BY <1>1, <1>2
  <2> HIDE DEF d
  <2>2. handled \o d \in Seq(Messages) /\ Range(handled \o d) = Range(handled) \cup Range(d)
    BY <2>1, ConcatProperties, RangeConcat
  <2> QED
    BY <2>2 DEF d
<1>4. /\ b = <<>> => b \o c = c
      /\ handled \o <<>> = handled
  BY <1>1, ConcatEmpty
<1>5. Ahead(w) = handled \o (b \o c) /\ Held(w) = Range(c) \cup Range(b)
  BY DEF Ahead, Held, b, c
<1> QED
  BY <1>1, <1>2, <1>3, <1>4, <1>5 DEF b, c

LEMMA OrderCame ==
  ASSUME TypeOK, Skeleton, Fresh, Places, Order, NEW m, Came(m)
  PROVE  Order'
<1>1. /\ m \in Messages /\ m \notin Range(accepted) /\ accepted' = Append(accepted, m)
      /\ handled' = handled /\ batch' = batch
      /\ accepted \in Seq(Messages) /\ handled \in Seq(Messages)
  BY DEF Came, TypeOK
<1>2. ~Sent(m)
  BY NamesApart DEF Came, Sent
<1>3. m \notin Range(handled) /\ \A w \in Boxes : m \notin Held(w)
  BY <1>2 DEF Places
<1>4. OrderedBy(accepted', handled')
  BY <1>1, <1>3, OrderedGrow DEF Order
<1>5. ASSUME NEW w \in Boxes, w = route', phase'[w] \in Working
      PROVE  OrderedBy(accepted', Ahead(w)')
  <2>1. inbox'[w] = Append(inbox[w], m)
    BY <1>5 DEF Came
  <2>2. OrderedBy(accepted, Ahead(w))
    <3>1. CASE route' = route /\ phase' = phase
      BY <1>5, <3>1 DEF Order
    <3>2. CASE phase[route'] = "absent"
      <4>1. inbox[w] = <<>> /\ batch[w] = <<>>
        BY <1>5, <3>2 DEF Fresh, Skeleton, BatchShape
      <4>2. Ahead(w) = handled
        BY <4>1, AheadTypes
      <4> QED
        BY <4>2 DEF Order
    <3> QED
      BY <3>1, <3>2 DEF Came
  <2>3. Ahead(w)' = Append(Ahead(w), m)
    <3> DEFINE b == batch[w]
               c == inbox[w]
    <3>1. b \in Seq(Messages) /\ c \in Seq(Messages) /\ b \o c \in Seq(Messages)
      BY AheadTypes
    <3>2. Ahead(w)' = handled \o (b \o Append(c, m)) /\ Ahead(w) = handled \o (b \o c)
      BY <1>1, <2>1 DEF Ahead
    <3> HIDE DEF b, c
    <3>3. b \o Append(c, m) = Append(b \o c, m)
      BY <1>1, <3>1, AppendConcat
    <3> DEFINE d == b \o c
    <3>4. handled \in Seq(Messages) /\ d \in Seq(Messages) /\ m \in Messages
      BY <1>1, <3>1
    <3> HIDE DEF d
    <3>5. handled \o Append(d, m) = Append(handled \o d, m)
      BY <3>4, AppendConcat
    <3> QED
      BY <3>2, <3>3, <3>5 DEF d
  <2>4. Ahead(w) \in Seq(Messages) /\ m \notin Range(Ahead(w))
    BY <1>3, AheadTypes
  <2> DEFINE s == Ahead(w)
  <2>5. s \in Seq(Messages) /\ m \notin Range(s) /\ OrderedBy(accepted, s)
    BY <2>2, <2>4
  <2> HIDE DEF s
  <2>6. OrderedBy(Append(accepted, m), Append(s, m))
    BY <1>1, <2>5, OrderedGrow
  <2> QED
    BY <1>1, <2>3, <2>6 DEF s
<1> QED
  BY <1>4, <1>5 DEF Order

LEMMA OrderLoop ==
  ASSUME TypeOK, TypeOK', Skeleton, Places, Order, NEW w \in Boxes,
         Begin(w) \/ FailEarly(w) \/ Return(w)
  PROVE  Order'
<1>1. /\ accepted' = accepted /\ batch' = batch /\ LoopHead(w)
      /\ phase[w] \in Working /\ batch[w] = <<>>
  BY DEF Begin, FailEarly, Return, Working, Skeleton, BatchShape
<1>2. /\ inbox[w] \in Seq(Messages) /\ handled \in Seq(Messages)
      /\ deferred \in Seq(Deferring) /\ accepted \in Seq(Messages)
  BY DEF TypeOK
<1>3. CASE /\ route = w /\ inbox[w] # <<>>
           /\ inbox' = [inbox EXCEPT ![w] = Tail(@)] /\ route' = route
           /\ handled' = Append(handled, Head(inbox[w]))
  <2>1. OrderedBy(accepted, Ahead(w)) /\ Ahead(w) = handled \o inbox[w]
    BY <1>1, <1>3, AheadTypes DEF Order
  <2>2. inbox'[w] = Tail(inbox[w]) /\ batch'[w] = <<>>
    BY <1>1, <1>3 DEF TypeOK
  <2>3. Tail(inbox[w]) \in Seq(Messages) /\ handled' \in Seq(Messages)
    BY <1>3, <1>2, RangeHeadTail DEF TypeOK
  <2>4. Ahead(w)' = handled' \o Tail(inbox[w])
    BY <2>2, <2>3, ConcatEmpty DEF Ahead
  <2>5. Append(handled, Head(inbox[w])) \o Tail(inbox[w]) = handled \o inbox[w]
    <3> DEFINE c == inbox[w]
    <3>1. c \in Seq(Messages) /\ c # <<>>
      BY <1>2, <1>3
    <3> HIDE DEF c
    <3>2. Append(handled, Head(c)) \o Tail(c) = handled \o c
      BY <1>2, <3>1, TakeFront
    <3> QED
      BY <3>2 DEF c
  <2>6. OrderedBy(accepted, handled' \o Tail(inbox[w]))
    BY <1>3, <2>1, <2>5
  <2>7. OrderedBy(accepted, handled')
    <3> DEFINE t == Tail(inbox[w])
    <3>1. t \in Seq(Messages) /\ OrderedBy(accepted, handled' \o t)
      BY <2>3, <2>6
    <3> HIDE DEF t
    <3> QED
      BY <2>3, <3>1, OrderedPrefix
  <2> QED
    BY <1>1, <1>3, <2>4, <2>6, <2>7 DEF Order
<1>4. CASE /\ route = w /\ inbox[w] = <<>> /\ deferred # <<>>
           /\ inbox' = inbox /\ route' = route
           /\ handled' = Append(handled, Head(deferred))
  <2>1. Head(deferred) \in Range(deferred) /\ Head(deferred) \in Messages
    BY <1>2, <1>4, RangeHeadTail DEF Messages, Automations
  <2>2. Head(deferred) \notin Range(accepted)
    BY <2>1 DEF Places
  <2>3. OrderedBy(accepted, handled')
    <3> DEFINE d == Head(deferred)
    <3>1. d \in Messages /\ d \notin Range(accepted) /\ handled' = Append(handled, d)
      BY <1>4, <2>1, <2>2
    <3> HIDE DEF d
    <3> QED
      BY <1>2, <3>1, OrderedSkip DEF Order
  <2>4. batch'[w] = <<>> /\ inbox'[w] = <<>>
    BY <1>1, <1>4
  <2>5. Ahead(w)' = handled'
    <3>1. handled' \in Seq(Messages)
      BY DEF TypeOK
    <3> QED
      BY <2>4, <3>1, ConcatEmpty, EmptySeq DEF Ahead
  <2> QED
    BY <1>1, <1>4, <2>3, <2>5 DEF Order
<1>5. CASE /\ phase' = [phase EXCEPT ![w] = "done"] /\ route' = RouteAfter(w)
           /\ inbox' = inbox /\ handled' = handled
  <2>1. \A v \in Boxes : v = route' => v # w /\ v = route /\ phase'[v] = phase[v]
    BY <1>5, BoxesFacts DEF RouteAfter, TypeOK
  <2>2. \A v \in Boxes : Ahead(v)' = Ahead(v)
    BY <1>1, <1>5 DEF Ahead
  <2> QED
    BY <1>1, <1>5, <2>1, <2>2 DEF Order
<1> QED
  BY <1>1, <1>3, <1>4, <1>5, HeadTaken

LEMMA OrderDrain ==
  ASSUME TypeOK, TypeOK', Skeleton, Stray, Order, NEW w \in Boxes,
         Drain(w) \/ DrainDone(w)
  PROVE  Order'
<1>1. accepted' = accepted /\ route' = route /\ phase[w] \in Working /\ w \notin doomed
  BY DEF Drain, DrainDone, Working
<1>2. \A v \in Boxes : v # w => inbox'[v] = inbox[v] /\ batch'[v] = batch[v] /\ phase'[v] = phase[v]
  BY DEF Drain, DrainDone, TypeOK
<1>3. CASE Drain(w)
  <2>1. /\ handled' = handled /\ batch[w] = <<>> /\ batch'[w] = inbox[w] /\ inbox'[w] = <<>>
    BY <1>3 DEF Drain, TypeOK, Skeleton, BatchShape
  <2>2. inbox[w] \in Seq(Messages)
    BY DEF TypeOK
  <2>3. inbox[w] \o <<>> = inbox[w] /\ <<>> \o inbox[w] = inbox[w]
    BY <2>2, ConcatEmpty
  <2>4. \A v \in Boxes : Ahead(v)' = Ahead(v)
    BY <1>2, <2>1, <2>3 DEF Ahead
  <2> QED
    BY <1>1, <1>2, <2>1, <2>4 DEF Order
<1>4. CASE DrainDone(w)
  <2>1. PICK n \in Absorbable(w) : /\ inbox' = [inbox EXCEPT ![w] = PutBack(w, n)]
                                   /\ handled' = handled \o SubSeq(batch[w], 1, n)
    BY <1>4 DEF DrainDone
  <2>2. n \in 0 .. Len(batch[w]) /\ \A i \in 1 .. n : batch[w][i] \in Inputs
    BY <2>1 DEF Absorbable
  <2> DEFINE a == SubSeq(batch[w], 1, n)
             b == PutBack(w, n)
             c == batch[w] \o inbox[w]
  <2>3. a \in Seq(Messages) /\ b \in Seq(Messages) /\ a \o b = c
    BY <2>2, PutBackTypes
  <2>4. handled' = handled \o a /\ inbox'[w] = b /\ batch'[w] = <<>>
    BY <1>4, <2>1 DEF DrainDone, TypeOK
  <2>5. Ahead(w) = handled \o c
    BY DEF Ahead
  <2>6. CASE w = route
    <3> HIDE DEF a, b, c
    <3>1. handled \in Seq(Messages) /\ handled' \in Seq(Messages)
      BY DEF TypeOK
    <3>2. (handled \o a) \o b = handled \o (a \o b)
      <4>1. handled \in Seq(Messages) /\ a \in Seq(Messages) /\ b \in Seq(Messages)
        BY <2>3, <3>1
      <4> QED
        BY <4>1, Associative
    <3>3. <<>> \o b = b
      BY <2>3, ConcatEmpty
    <3>4. Ahead(w)' = handled' \o b
      BY <2>4, <3>3 DEF Ahead
    <3>5. handled' \o b = Ahead(w)
      BY <2>3, <2>4, <2>5, <3>2
    <3>6. OrderedBy(accepted, Ahead(w))
      BY <1>1, <2>6 DEF Order
    <3>7. OrderedBy(accepted, handled' \o b)
      BY <3>5, <3>6
    <3>8. OrderedBy(accepted, handled')
      BY <2>3, <3>1, <3>7, OrderedPrefix
    <3> QED
      BY <1>1, <2>6, <3>4, <3>7, <3>8 DEF Order
  <2>7. CASE w # route
    <3>1. Held(w) \cap Inputs = {}
      BY <1>1, <2>7 DEF Stray, Serving
    <3>2. n = 0
      <4>1. n # 0 => batch[w][1] \in Held(w)
        <5>1. Len(batch[w]) \in Nat /\ DOMAIN batch[w] = 1 .. Len(batch[w])
          BY LenProperties DEF TypeOK
        <5> QED
          BY <2>2, <5>1 DEF Held, Range
      <4>2. n \in Nat
        BY <2>2
      <4> QED
        BY <2>2, <3>1, <4>1, <4>2
    <3>3. a = <<>>
      BY <3>2, SubSeqEmpty
    <3>4. handled' = handled
      <4>1. handled \in Seq(Messages)
        BY DEF TypeOK
      <4> QED
        BY <2>4, <3>3, <4>1, ConcatEmpty
    <3>5. \A v \in Boxes : v = route' => Ahead(v)' = Ahead(v) /\ phase'[v] = phase[v]
      BY <1>1, <1>2, <2>7, <3>4 DEF Ahead
    <3> QED
      BY <1>1, <3>4, <3>5 DEF Order
  <2> QED
    BY <2>6, <2>7
<1> QED
  BY <1>3, <1>4

LEMMA OrderRest ==
  ASSUME TypeOK, Skeleton, Order, accepted' = accepted, handled' = handled,
         \A v \in Boxes : (v = route' /\ phase'[v] \in Working) =>
            /\ v = route /\ phase[v] \in Working
            /\ inbox'[v] = inbox[v] /\ batch'[v] = batch[v]
  PROVE  Order'
<1>1. OrderedBy(accepted', handled')
  BY DEF Order
<1>2. ASSUME NEW v \in Boxes, v = route', phase'[v] \in Working
      PROVE  OrderedBy(accepted', Ahead(v)')
  <2>1. Ahead(v)' = Ahead(v) /\ v = route /\ phase[v] \in Working
    BY <1>2 DEF Ahead
  <2> QED
    BY <2>1 DEF Order
<1> QED
  BY <1>1, <1>2 DEF Order

LEMMA NextOrder ==
  ASSUME TypeOK, TypeOK', Shape, Skeleton, Fresh, Places, Journaling, Stray, Order, [Next]_vars
  PROVE  Order'
<1>0. None \notin Boxes
  BY BoxesFacts
<1>1. ASSUME NEW w \in Boxes, WorkerStep(w)
      PROVE  Order'
  <2>1. CASE Acquire(w) \/ Finish(w)
    <3>1. /\ UNCHANGED <<accepted, handled, route, inbox, batch>>
          /\ phase[w] \in Working /\ \A v \in Boxes : v # w => phase'[v] = phase[v]
      BY <2>1 DEF Acquire, Finish, queueVars, Working, TypeOK
    <3> QED
      BY <3>1, OrderRest
  <2>2. CASE Unwind(w) \/ Stillborn(w) \/ Unwound(w) \/ SweepOn(w)
    <3>1. accepted' = accepted /\ handled' = handled
      BY <2>2 DEF Unwind, Stillborn, Unwound, SweepOn
    <3>2. phase'[w] \notin Working
      BY <2>2, ZenonT(90) DEF Unwind, Stillborn, Unwound, SweepOn, EndOrAwait, Working, TypeOK
    <3>3. route' = route \/ route' = None
      BY <2>2 DEF Unwind, Stillborn, Unwound, SweepOn, EndOrAwait, RouteAfter, queueVars
    <3>4. \A v \in Boxes : v # w => inbox'[v] = inbox[v] /\ batch'[v] = batch[v] /\ phase'[v] = phase[v]
      BY <1>1, WorkerTouches DEF Touches
    <3> QED
      BY <1>0, <3>1, <3>2, <3>3, <3>4, OrderRest
  <2> QED
    BY <1>1, <2>1, <2>2, OrderLoop, OrderDrain DEF WorkerStep
<1>2. CASE (\E kind \in CancelKinds : Cancel(kind)) \/ JournalRefused \/ CutOff \/ UNCHANGED vars
  BY <1>2, OrderRest DEF Cancel, JournalRefused, CutOff, vars, queueVars, workerVars
<1>3. CASE Reclaim \/ ReclaimOn \/ StopTail
  <2>1. accepted' = accepted /\ handled' = handled /\ phase' = phase /\ batch' = batch
    BY <1>3 DEF Reclaim, ReclaimOn, StopTail, workerVars
  <2>2. ASSUME NEW v \in Boxes, v = route', phase'[v] \in Working
        PROVE  v = route /\ inbox'[v] = inbox[v]
    <3>1. v = route
      BY <1>0, <1>3, <2>2 DEF Reclaim, ReclaimOn, StopTail, queueVars
    <3>2. CASE ReclaimOn
      <4>1. bus.box # v
        BY <1>0, <2>1, <2>2, <3>2 DEF ReclaimOn, Skeleton, BusShape, Cancelling, Working
      <4>2. \E s : inbox' = [inbox EXCEPT ![bus.box] = s]
        BY <3>2 DEF ReclaimOn, Sweep
      <4>3. inbox \in [Boxes -> Seq(Messages)]
        BY DEF TypeOK
      <4>4. inbox'[v] = inbox[v]
        BY <4>1, <4>2, <4>3
      <4> QED
        BY <3>1, <4>4
    <3>3. CASE Reclaim \/ StopTail
      BY <1>0, <2>2, <3>3 DEF Reclaim, StopTail, queueVars
    <3> QED
      BY <1>3, <3>1, <3>2, <3>3
  <2> QED
    BY <2>1, <2>2, OrderRest
<1>4. CASE \/ \E m \in Inputs \cup Commands : Receive(m)
           \/ \E a \in Automations : Submit(a)
           \/ Journaled
  <2>1. CASE \E m : Came(m)
    BY <2>1, OrderCame
  <2>2. CASE UNCHANGED <<inbox, batch, handled, phase, route>> /\ accepted' = accepted
    BY <2>2, OrderRest
  <2> QED
    BY <1>4, <2>1, <2>2, Admitted DEF Stayed
<1> QED
  BY <1>1, <1>2, <1>3, <1>4 DEF Next, BusStep

-----------------------------------------------------------------------------
(* The inductive invariant and what follows from it.                       *)

IInv == /\ TypeOK /\ Shape /\ Skeleton /\ Fresh /\ Places /\ Journaling
        /\ Late /\ Stray /\ Order /\ Accounted
        /\ Thin /\ Bare /\ Empty

LEMMA InitInv ==
  ASSUME Init
  PROVE  IInv
<1>1. TypeOK /\ Shape /\ Skeleton
  BY InitTypes, InitSkeleton
<1>2. /\ bus.at = "idle" /\ accepted = <<>> /\ handled = <<>> /\ deferred = <<>>
      /\ \A w \in Boxes : phase[w] = "absent" /\ inbox[w] = <<>> /\ batch[w] = <<>>
  BY DEF Init, IdleBus
<1>3. /\ Range(accepted) = {} /\ Range(handled) = {} /\ Range(deferred) = {}
      /\ \A w \in Boxes : Held(w) = {}
  BY <1>2, RangeEmpty DEF Held
<1>4. Fresh /\ Places /\ Journaling /\ Late /\ Accounted
  BY <1>2, <1>3 DEF Fresh, Places, Journaling, Late, Cancelling, Accounted
<1>5. Stray /\ Thin /\ Bare /\ Empty
  BY <1>2, <1>3 DEF Stray, Thin, Bare, Empty, Cancelling
<1>6. Order
  <2>1. OrderedBy(accepted, handled)
    <3>1. Len(<<>>) = 0
      OBVIOUS
    <3> QED
      BY <1>2, <3>1 DEF OrderedBy
  <2>2. \A w \in Boxes : phase[w] \notin Working
    BY <1>2 DEF Working
  <2> QED
    BY <2>1, <2>2 DEF Order
<1> QED
  BY <1>1, <1>4, <1>5, <1>6 DEF IInv

LEMMA NextInv ==
  ASSUME IInv, [Next]_vars
  PROVE  IInv'
<1>1. /\ TypeOK /\ Shape /\ Skeleton /\ Fresh /\ Places /\ Journaling
      /\ Late /\ Stray /\ Order /\ Accounted /\ Thin /\ Bare /\ Empty
  BY DEF IInv
<1>2. TypeOK' /\ Shape'
  BY <1>1, NextTypes
<1>3. Skeleton'
  BY <1>1, <1>2, NextSkeleton
<1>4. Fresh' /\ Places' /\ Journaling'
  BY <1>1, <1>2, NextFresh, NextPlaces, NextJournaling
<1>5. Late' /\ Stray'
  BY <1>1, NextLate, NextStray
<1>6. Order' /\ Accounted'
  BY <1>1, <1>2, NextOrder, NextAccounted
<1>7. Thin' /\ Bare' /\ Empty'
  BY <1>1, <1>2, <1>3, NextThin, NextBare, NextEmpty
<1> QED
  BY <1>2, <1>3, <1>4, <1>5, <1>6, <1>7 DEF IInv

(* The invariant that carries the promises below.                          *)
THEOREM Invariance == Spec => []IInv
<1>1. Init => IInv
  BY InitInv
<1>2. IInv /\ [Next]_vars => IInv'
  BY NextInv
<1> QED
  BY <1>1, <1>2, PTL DEF Spec

(* Every variable keeps its type (the fields of AgentLoop.__init__).       *)
THEOREM TypeCorrect == Spec => []TypeOK
<1>1. IInv => TypeOK
  BY DEF IInv
<1> QED
  BY <1>1, Invariance, PTL

(* What the user sends after a cancellation was requested survives it:     *)
(* cmd_stop and the cancelled workers drop older inputs only.              *)
THEOREM LateInputs == Spec => LateInputKept
<1>1. ASSUME IInv, [Next]_vars
      PROVE  [(dropped' \ dropped) \cap Inputs \subseteq bus.before]_vars
  <2>1. CASE dropped' = dropped
    BY <2>1
  <2>2. CASE /\ bus.at \in Cancelling
             /\ \E w \in Boxes : dropped' \subseteq dropped \cup Held(w) \cup Range(deferred)
    <3>1. \A w \in Boxes : Held(w) \cap Inputs \subseteq Range(accepted)
      BY <1>1, NamesApart DEF IInv, Places, Sent
    <3>2. Range(deferred) \cap Inputs = {}
      BY <1>1, HeldTypes, NamesApart DEF IInv, Automations
    <3>3. Range(accepted) \cap Inputs \subseteq bus.before
      BY <1>1, <2>2 DEF IInv, Late
    <3> QED
      BY <2>2, <3>1, <3>2, <3>3
  <2> QED
    BY <1>1, <2>1, <2>2, Drops DEF IInv
<1> QED
  BY <1>1, Invariance, PTL DEF LateInputKept, Spec

(* The messages of a session are handled in the order in which they were   *)
(* accepted, across drains, put-backs, cancellations and new workers.      *)
THEOREM HandledInOrder == Spec => []InOrder
<1>1. IInv => InOrder
  BY DEF IInv, Order, OrderedBy, InOrder
<1> QED
  BY <1>1, Invariance, PTL

(* Without /stop a session has one worker at a time (_run_session_queue).  *)
THEOREM OneWorker ==
  ASSUME "stop" \notin CancelKinds
  PROVE  Spec => []SoleWorker
<1>1. IInv => SoleWorker
  BY DEF IInv, Skeleton, Sole, SoleWorker, Alive
<1> QED
  BY <1>1, Invariance, PTL

LEMMA RouteAttended ==
  ASSUME IInv, route # None
  PROVE  route \in Boxes /\ Attended(route)
  BY DEF IInv, TypeOK, Skeleton, RouteShape, Attended

LEMMA HeldAttended ==
  ASSUME IInv, Strayless, NEW w \in Boxes, Held(w) # {}
  PROVE  Attended(w)
<1>1. CASE Live(w)
  BY <1>1 DEF Attended
<1>2. CASE w = route
  BY <1>2, RouteAttended, BoxesFacts
<1>3. CASE ~Live(w) /\ w # route
  <2>1. batch[w] = <<>>
    BY <1>3 DEF IInv, Skeleton, BatchShape, Live
  <2>2. inbox[w] # <<>>
    BY <2>1, HoldsNothing DEF IInv
  <2> QED
    BY <1>3, <2>2 DEF IInv, Empty, Attended
<1> QED
  BY <1>1, <1>2, <1>3

(* No accepted message is left where nobody looks: a message that comes in *)
(* while the worker ends finds the worker or a new one, and what a drain   *)
(* or a cancellation puts back is found again.  /stop takes the route from *)
(* the worker of a cron run that another is joined to; then it may fail.   *)
THEOREM NoMessageLost ==
  ASSUME "stop" \notin CancelKinds \/ Joining = {}
  PROVE  Spec => []NothingLost
<1>1. IInv => NothingLost
  <2> SUFFICES ASSUME IInv, NEW m \in Range(accepted), m \notin Range(handled) \cup dropped
               PROVE  \E w \in Boxes : Attended(w) /\ Holds(w, m)
    BY DEF NothingLost
  <2>1. PICK w \in Boxes : m \in Held(w)
    BY DEF IInv, Accounted
  <2>2. Attended(w)
    BY <2>1, HeldAttended DEF Strayless
  <2> QED
    BY <2>1, <2>2 DEF Holds, Held
<1> QED
  BY <1>1, Invariance, PTL

-----------------------------------------------------------------------------
(* Automations.                                                            *)

(* An idle-only automation starts when the session has nothing else left:  *)
(* its worker's inbox is empty, and no other inbox holds anything.         *)
(* Queued commands make a sweep await, with the deferred ones in its inbox.*)
THEOREM YieldsToInput ==
  ASSUME "stop" \notin CancelKinds \/ Joining = {}, Commands = {}
  PROVE  Spec => AutomationYields
<1>1. ASSUME IInv, [Next]_vars
      PROVE  [\A a \in Range(deferred) \ (Range(deferred') \cup dropped') :
                Range(accepted) \subseteq Range(handled) \cup dropped]_vars
  <2> SUFFICES ASSUME NEW a \in Range(deferred), a \notin Range(deferred'), a \notin dropped'
               PROVE  Range(accepted) \subseteq Range(handled) \cup dropped
    OBVIOUS
  <2>0. TypeOK /\ Strayless
    BY <1>1 DEF IInv, Strayless
  <2>1. ASSUME NEW w \in Boxes, Begin(w) \/ FailEarly(w) \/ Return(w)
        PROVE  Range(accepted) \subseteq Range(handled) \cup dropped
    <3>1. LoopHead(w) /\ phase[w] \in Working /\ batch[w] = <<>>
      BY <1>1, <2>1 DEF Begin, FailEarly, Return, Working, IInv, Skeleton, BatchShape
    <3>2. route = w /\ inbox[w] = <<>>
      BY <2>0, <3>1, HeadTaken
    <3>3. ASSUME NEW v \in Boxes
          PROVE  Held(v) = {}
      <4>1. CASE v = w
        BY <2>0, <3>1, <3>2, <4>1, HoldsNothing
      <4>2. CASE v # w /\ phase[v] \in Serving
        BY <1>1, <2>0, <3>2, <4>2 DEF IInv, Bare
      <4>3. CASE v # w /\ phase[v] \notin Serving
        <5>1. bus.at # "sweep" /\ phase[v] # "sweep"
          BY <1>1 DEF IInv, Skeleton, NoSweep
        <5>2. ~Live(v)
          BY <2>0, <4>3, <5>1 DEF Live, Serving, Working, TypeOK, Phases
        <5>3. inbox[v] = <<>>
          BY <1>1, <2>0, <3>2, <4>3, <5>1, <5>2 DEF IInv, Empty
        <5>4. batch[v] = <<>>
          BY <1>1, <5>2 DEF IInv, Skeleton, BatchShape, Live
        <5> QED
          BY <2>0, <5>3, <5>4, HoldsNothing
      <4> QED
        BY <4>1, <4>2, <4>3
    <3> QED
      BY <1>1, <3>3 DEF IInv, Accounted
  <2>2. ASSUME NEW w \in Boxes, Sweep(w, AllQueued(w), {}) \/ Sweep(w, AllQueued(w), {current[w]}),
               batch' = batch
        PROVE  FALSE
    <3>1. AllQueued(w) \in Seq(Messages) /\ a \in Range(AllQueued(w)) /\ ~Awaits(AllQueued(w))
      BY <2>0, AllQueuedTypes, CommandFree
    <3>2. Range(AllQueued(w)) \subseteq dropped'
      BY <2>0, <2>2, <3>1, SweepHolds
    <3> QED
      BY <3>1, <3>2
  <2>3. ASSUME NEW w \in Boxes, Unwound(w)
        PROVE  FALSE
    BY <2>2, <2>3 DEF Unwound
  <2>4. CASE Reclaim /\ Reclaims
    <3>1. bus.box \in Boxes
      BY <2>4, <2>0, BusTypes DEF Reclaims, Buses
    <3> QED
      BY <2>2, <2>4, <3>1 DEF Reclaim, workerVars
  <2>5. CASE deferred' = deferred
    BY <2>5
  <2>6. CASE \E b \in Automations : Submit(b)
    <3>1. PICK b \in Automations : Submit(b)
      BY <2>6
    <3>2. deferred' = deferred \/ (deferred' = Append(deferred, b) /\ b \in Deferring)
      BY <3>1 DEF Submit, Defers
    <3>3. Range(deferred) \subseteq Range(deferred')
      <4>1. deferred \in Seq(Deferring)
        BY <2>0 DEF TypeOK
      <4>2. b \in Deferring => Range(Append(deferred, b)) = Range(deferred) \cup {b}
        BY <4>1, RangeAppend
      <4> QED
        BY <3>2, <4>2
    <3> QED
      BY <3>3
  <2>7. CASE \/ \E m \in Inputs \cup Commands : Receive(m)
             \/ \E kind \in CancelKinds : Cancel(kind)
             \/ Journaled \/ JournalRefused \/ CutOff \/ ReclaimOn \/ StopTail \/ UNCHANGED vars
             \/ (Reclaim /\ ~Reclaims)
    <3>1. deferred' = deferred
      BY <2>7 DEF Receive, Cancel, Journaled, JournalRefused, CutOff, ReclaimOn, StopTail,
             Reclaim, vars, queueVars
    <3> QED
      BY <2>5, <3>1
  <2>8. CASE \E w \in Boxes : \/ Acquire(w) \/ Drain(w) \/ DrainDone(w) \/ Finish(w)
                              \/ Unwind(w) \/ Stillborn(w) \/ SweepOn(w)
    <3>1. deferred' = deferred
      BY <2>8 DEF Acquire, Drain, DrainDone, Finish, Unwind, Stillborn, SweepOn, queueVars
    <3> QED
      BY <2>5, <3>1
  <2> QED
    BY <1>1, <2>1, <2>3, <2>4, <2>6, <2>7, <2>8 DEF Next, BusStep, WorkerStep
<1> QED
  BY <1>1, Invariance, PTL DEF AutomationYields, Spec

(* What an automation can rely on when its session has no queued command,  *)
(* no message fails before its turn, and /stop is not used.                *)
Quiet == "stop" \notin CancelKinds /\ Commands = {} /\ MaxFailures = 0

DeferredRouted == deferred # <<>> => route # None

(* What a worker has in its hands was taken.                               *)
CurrentTaken ==
  \A w \in Boxes : /\ current[w] # Nothing => current[w] \in Range(handled)
                   /\ phase[w] \in {"absent", "new"} => current[w] = Nothing

(* A turn that ended has answered.                                         *)
TurnAnswered ==
  \A w \in Boxes, a \in Automations :
    phase[w] = "settle" /\ current[w] = a => waiter[a] # "waiting"

Placed(a) == \/ \E w \in Boxes : Live(w) /\ current[w] = a
             \/ \E w \in Boxes : a \in Held(w)
             \/ a \in Range(deferred)
WaitersPlaced == \A a \in Automations : waiter[a] = "waiting" => Placed(a)

LEMMA NextDeferredRouted ==
  ASSUME TypeOK, Skeleton, Quiet, DeferredRouted, [Next]_vars
  PROVE  DeferredRouted'
<1>0. None \notin Boxes /\ bus \in Buses
  BY BoxesFacts, BusTypes
<1>1. ASSUME NEW w \in Boxes, WorkerStep(w)
      PROVE  DeferredRouted'
  <2>1. CASE Begin(w) \/ FailEarly(w) \/ Return(w)
    <3>1. LoopHead(w)
      BY <2>1 DEF Begin, FailEarly, Return
    <3> QED
      BY <1>0, <3>1, HeadTaken DEF DeferredRouted, RouteAfter
  <2>2. CASE Acquire(w) \/ Finish(w) \/ Drain(w) \/ DrainDone(w) \/ Unwind(w) \/ Stillborn(w)
    BY <2>2 DEF Acquire, Finish, Drain, DrainDone, Unwind, Stillborn, queueVars, DeferredRouted
  <2>3. CASE Unwound(w) \/ SweepOn(w)
    <3>1. ~SweepOn(w)
      BY DEF SweepOn, Skeleton, NoSweep, Quiet
    <3> QED
      BY <2>3, <3>1 DEF Unwound, DeferredRouted
  <2> QED
    BY <1>1, <2>1, <2>2, <2>3 DEF WorkerStep
<1>2. CASE \/ \E m \in Inputs \cup Commands : Receive(m)
           \/ \E a \in Automations : Submit(a)
           \/ Journaled
  <2>1. \/ deferred' = deferred /\ route' = route
        \/ deferred' = deferred /\ \E m : Put(m)
        \/ route # None /\ route' = route
    BY <1>2 DEF Receive, Submit, Journaled, Defers
  <2>2. (\E m : Put(m)) => route' # None
    BY <1>0 DEF Put
  <2> QED
    BY <2>1, <2>2 DEF DeferredRouted
<1>3. CASE (\E kind \in CancelKinds : Cancel(kind)) \/ JournalRefused \/ CutOff \/ UNCHANGED vars
  BY <1>3 DEF Cancel, JournalRefused, CutOff, vars, queueVars, DeferredRouted
<1>4. CASE Reclaim \/ ReclaimOn
  BY <1>4 DEF Reclaim, ReclaimOn, queueVars, DeferredRouted
<1>5. CASE StopTail
  <2>1. bus.kind # "stop"
    BY <1>5 DEF StopTail, Skeleton, BusShape, Cancelling, Quiet
  <2> QED
    BY <1>5, <2>1 DEF StopTail, DeferredRouted
<1> QED
  BY <1>1, <1>2, <1>3, <1>4, <1>5 DEF Next, BusStep

(* What a step of a worker does to the message in its hands.               *)
LEMMA HandMoves ==
  ASSUME TypeOK, NEW w \in Boxes, WorkerStep(w)
  PROVE  /\ \A v \in Boxes : v # w => current'[v] = current[v] /\ phase'[v] = phase[v]
         /\ phase'[w] \notin {"absent", "new"}
         /\ current'[w] \in {Nothing, current[w]} \/ current'[w] \in Range(handled')
         /\ phase'[w] = "settle" => Finish(w)
         /\ \/ current'[w] = current[w] /\ Live(w)'
            \/ Begin(w) \/ FailEarly(w) \/ Return(w) \/ Stillborn(w) \/ Unwound(w) \/ SweepOn(w)
<1>0. \A v \in Boxes : v # w => current'[v] = current[v] /\ phase'[v] = phase[v]
  BY WorkerTouches DEF Touches
<1>1. CASE Begin(w) \/ FailEarly(w) \/ Return(w)
  <2>1. LoopHead(w) /\ handled \in Seq(Messages)
    BY <1>1 DEF Begin, FailEarly, Return, TypeOK
  <2>2. \/ \E m \in Messages : /\ current' = [current EXCEPT ![w] = m]
                               /\ phase' = [phase EXCEPT ![w] = "admit"]
                               /\ handled' = Append(handled, m)
        \/ /\ current' = [current EXCEPT ![w] = Nothing]
           /\ phase' = [phase EXCEPT ![w] = "done"]
    <3>1. inbox[w] \in Seq(Messages) /\ deferred \in Seq(Deferring) /\ Deferring \subseteq Messages
      BY DEF TypeOK, Messages, Automations
    <3>2. /\ inbox[w] # <<>> => Head(inbox[w]) \in Messages
          /\ deferred # <<>> => Head(deferred) \in Messages
      BY <3>1, HeadTailProperties
    <3> QED
      BY <2>1, <3>2, HeadTaken
  <2>3. CASE \E m \in Messages : /\ current' = [current EXCEPT ![w] = m]
                                 /\ phase' = [phase EXCEPT ![w] = "admit"]
                                 /\ handled' = Append(handled, m)
    <3>1. PICK m \in Messages : /\ current' = [current EXCEPT ![w] = m]
                                /\ phase' = [phase EXCEPT ![w] = "admit"]
                                /\ handled' = Append(handled, m)
      BY <2>3
    <3>2. Range(handled') = Range(handled) \cup {m}
      BY <2>1, <3>1, RangeAppend
    <3> QED
      BY <1>0, <1>1, <3>1, <3>2 DEF TypeOK
  <2>4. CASE /\ current' = [current EXCEPT ![w] = Nothing]
             /\ phase' = [phase EXCEPT ![w] = "done"]
    BY <1>0, <1>1, <2>4 DEF TypeOK
  <2> QED
    BY <2>2, <2>3, <2>4
<1>2. CASE Acquire(w) \/ Finish(w) \/ Drain(w) \/ DrainDone(w) \/ Unwind(w) \/ Stillborn(w)
  BY <1>0, <1>2 DEF Acquire, Finish, Drain, DrainDone, Unwind, Stillborn, TypeOK, Live
<1>3. CASE Unwound(w) \/ SweepOn(w)
  BY <1>0, <1>3 DEF Unwound, SweepOn, EndOrAwait, TypeOK
<1> QED
  BY <1>1, <1>2, <1>3 DEF WorkerStep

LEMMA NextCurrentTaken ==
  ASSUME TypeOK, Shape, Skeleton, Fresh, Places, Journaling, CurrentTaken, [Next]_vars
  PROVE  CurrentTaken'
<1>1. Range(handled) \subseteq Range(handled')
  BY Flow DEF Stayed, Came
<1>2. ASSUME NEW w \in Boxes, WorkerStep(w)
      PROVE  CurrentTaken'
  <2>1. /\ \A v \in Boxes : v # w => current'[v] = current[v] /\ phase'[v] = phase[v]
        /\ phase'[w] \notin {"absent", "new"}
        /\ current'[w] \in {Nothing, current[w]} \/ current'[w] \in Range(handled')
    BY <1>2, HandMoves
  <2> QED
    BY <1>1, <2>1 DEF CurrentTaken
<1>3. CASE \E m : Came(m)
  BY <1>1, <1>3 DEF Came, CurrentTaken
<1>4. CASE current' = current /\ phase' = phase
  BY <1>1, <1>4 DEF CurrentTaken
<1>5. CASE \/ \E m \in Inputs \cup Commands : Receive(m)
           \/ \E a \in Automations : Submit(a)
           \/ Journaled
  <2>1. current' = current
    BY <1>5 DEF Receive, Submit, Journaled
  <2> QED
    BY <1>3, <1>4, <1>5, <2>1, Admitted
<1>6. CASE \/ \E kind \in CancelKinds : Cancel(kind)
           \/ JournalRefused \/ CutOff \/ Reclaim \/ ReclaimOn \/ StopTail
  BY <1>4, <1>6, BusTouches
<1>7. CASE UNCHANGED vars
  BY <1>4, <1>7 DEF vars, workerVars
<1> QED
  BY <1>2, <1>5, <1>6, <1>7 DEF Next, BusStep

LEMMA WaiterMoves ==
  ASSUME TypeOK, [Next]_vars, NEW a \in Automations, waiter'[a] = "waiting"
  PROVE  waiter[a] = "waiting" \/ (waiter[a] = "unsent" /\ Submit(a))
<1>1. ASSUME NEW done, Answer(done)
      PROVE  waiter[a] = "waiting"
  BY <1>1 DEF Answer
<1>2. CASE waiter' = waiter
  BY <1>2
<1>3. ASSUME NEW b \in Automations, Submit(b)
      PROVE  waiter[a] = "waiting" \/ (waiter[a] = "unsent" /\ Submit(a))
  BY <1>3 DEF Submit, TypeOK
<1>4. ASSUME NEW w \in Boxes, WorkerStep(w)
      PROVE  waiter[a] = "waiting"
  <2>1. waiter' = waiter \/ \E done : Answer(done)
    BY <1>4 DEF WorkerStep, Begin, Acquire, FailEarly, Drain, DrainDone, Finish, Return, Unwind,
           Stillborn, Unwound, SweepOn, Sweep
  <2> QED
    BY <1>1, <1>2, <2>1
<1>5. CASE \/ \E m \in Inputs \cup Commands : Receive(m)
           \/ \E kind \in CancelKinds : Cancel(kind)
           \/ BusStep \/ UNCHANGED vars
  <2>1. waiter' = waiter \/ \E done : Answer(done)
    BY <1>5 DEF Receive, Cancel, BusStep, Journaled, JournalRefused, CutOff, Reclaim, ReclaimOn,
           StopTail, Sweep, vars
  <2> QED
    BY <1>1, <1>2, <2>1
<1> QED
  BY <1>3, <1>4, <1>5 DEF Next

LEMMA NextTurnAnswered ==
  ASSUME TypeOK, Shape, Skeleton, Fresh, Places, Journaling, CurrentTaken, TurnAnswered,
         [Next]_vars
  PROVE  TurnAnswered'
<1>1. SUFFICES ASSUME NEW w \in Boxes, NEW a \in Automations,
                      phase'[w] = "settle", current'[w] = a, waiter'[a] = "waiting"
               PROVE  FALSE
  BY DEF TurnAnswered
<1>2. CASE Finish(w)
  <2>1. Answer({a})
    BY <1>1, <1>2 DEF Finish
  <2> QED
    BY <1>1, <2>1 DEF Answer
<1>3. CASE phase[w] = "settle" /\ current[w] = a
  <2>1. Sent(a) /\ a # Nothing
    BY <1>3, NamesAssumption DEF CurrentTaken, Places, Messages
  <2>2. waiter[a] # "unsent"
    BY <2>1 DEF Sent, Places
  <2>3. waiter[a] # "waiting"
    BY <1>3 DEF TurnAnswered
  <2> QED
    BY <1>1, <2>2, <2>3, WaiterMoves
<1>4. ASSUME NEW v \in Boxes, WorkerStep(v)
      PROVE  FALSE
  <2>1. /\ w # v => current'[w] = current[w] /\ phase'[w] = phase[w]
        /\ phase'[v] = "settle" => Finish(v)
    BY <1>4, HandMoves
  <2> QED
    BY <1>1, <1>2, <1>3, <2>1
<1>5. CASE \E m : Came(m)
  BY <1>1, <1>3, <1>5 DEF Came
<1>6. CASE \/ \E m \in Inputs \cup Commands : Receive(m)
           \/ \E b \in Automations : Submit(b)
           \/ Journaled
  <2>1. current' = current
    BY <1>6 DEF Receive, Submit, Journaled
  <2> QED
    BY <1>1, <1>3, <1>5, <1>6, <2>1, Admitted
<1>7. CASE \/ \E kind \in CancelKinds : Cancel(kind)
           \/ JournalRefused \/ CutOff \/ Reclaim \/ ReclaimOn \/ StopTail
  BY <1>1, <1>3, <1>7, BusTouches
<1>8. CASE UNCHANGED vars
  BY <1>1, <1>3, <1>8 DEF vars, workerVars
<1> QED
  BY <1>4, <1>6, <1>7, <1>8 DEF Next, BusStep

(* A waiter whose message a sweep removes is answered.                     *)
LEMMA SweepAnswers ==
  ASSUME TypeOK, NEW w \in Boxes, NEW s \in Seq(Messages), NEW also, Sweep(w, s, also),
         NEW a \in Automations, a \in Range(s) \cup also, waiter'[a] = "waiting"
  PROVE  a \in Range(inbox'[w])
<1> DEFINE out == Range(SubSeq(s, 1, Cut(s)))
           rest == SubSeq(s, Cut(s) + 1, Len(s))
<1>1. out \cup Range(rest) = Range(s)
  BY SweepParts
<1>2. inbox' = [inbox EXCEPT ![w] = rest] /\ Answer(out \cup also)
  BY DEF Sweep
<1> HIDE DEF out, rest
<1>3. a \notin out \cup also
  BY <1>2 DEF Answer
<1>4. inbox'[w] = rest
  BY <1>2 DEF TypeOK
<1> QED
  BY <1>1, <1>3, <1>4

(* What a worker takes from its inbox or from the deferred ones is in its  *)
(* hands.                                                                  *)
LEMMA LoopPlaces ==
  ASSUME TypeOK, NEW w \in Boxes, LoopHead(w), batch' = batch, NEW a
  PROVE  /\ \A u \in Boxes : a \in Held(u) =>
              a \in Held(u)' \/ (Live(w)' /\ current'[w] = a)
         /\ a \in Range(deferred) => a \in Range(deferred') \/ (Live(w)' /\ current'[w] = a)
<1>1. inbox[w] \in Seq(Messages) /\ deferred \in Seq(Deferring)
  BY DEF TypeOK
<1>2. inbox[w] # <<>> => Range(inbox[w]) = {Head(inbox[w])} \cup Range(Tail(inbox[w]))
  BY <1>1, RangeHeadTail
<1>3. deferred # <<>> => Range(deferred) = {Head(deferred)} \cup Range(Tail(deferred))
  BY <1>1, RangeHeadTail
<1> DEFINE hi == Head(inbox[w])
           ti == Tail(inbox[w])
           hd == Head(deferred)
           td == Tail(deferred)
<1>4. \/ /\ Range(inbox[w]) = {hi} \cup Range(ti)
         /\ current' = [current EXCEPT ![w] = hi] /\ phase' = [phase EXCEPT ![w] = "admit"]
         /\ inbox' = [inbox EXCEPT ![w] = ti] /\ deferred' = deferred
      \/ /\ Range(deferred) = {hd} \cup Range(td)
         /\ current' = [current EXCEPT ![w] = hd] /\ phase' = [phase EXCEPT ![w] = "admit"]
         /\ deferred' = td /\ inbox' = inbox
      \/ inbox' = inbox /\ deferred' = deferred
  BY <1>2, <1>3, HeadTaken
<1> HIDE DEF hi, ti, hd, td
<1>5. CASE /\ Range(inbox[w]) = {hi} \cup Range(ti)
           /\ current' = [current EXCEPT ![w] = hi] /\ phase' = [phase EXCEPT ![w] = "admit"]
           /\ inbox' = [inbox EXCEPT ![w] = ti] /\ deferred' = deferred
  <2>1. /\ inbox'[w] = ti /\ current'[w] = hi /\ phase'[w] = "admit"
        /\ \A u \in Boxes : u # w => inbox'[u] = inbox[u]
    BY <1>5 DEF TypeOK
  <2> QED
    BY <1>5, <2>1 DEF Held, Live
<1>6. CASE /\ Range(deferred) = {hd} \cup Range(td)
           /\ current' = [current EXCEPT ![w] = hd] /\ phase' = [phase EXCEPT ![w] = "admit"]
           /\ deferred' = td /\ inbox' = inbox
  <2>1. current'[w] = hd /\ phase'[w] = "admit"
    BY <1>6 DEF TypeOK
  <2> QED
    BY <1>6, <2>1 DEF Held, Live
<1>7. CASE inbox' = inbox /\ deferred' = deferred
  BY <1>7 DEF Held
<1> QED
  BY <1>4, <1>5, <1>6, <1>7

(* A step of a worker keeps the waiters of the others in their place.      *)
LEMMA WorkerPlaces ==
  ASSUME TypeOK, Shape, Skeleton, Quiet, CurrentTaken, TurnAnswered, NEW w \in Boxes,
         WorkerStep(w), NEW a \in Automations, waiter[a] = "waiting", waiter'[a] = "waiting",
         Placed(a)
  PROVE  Placed(a)'
<1>0. a # Nothing /\ a \notin Inputs
  BY NamesAssumption, NamesApart DEF Messages
<1>1. ASSUME NEW u \in Boxes, Live(u), current[u] = a
      PROVE  Placed(a)'
  <2>1. CASE u # w
    <3>1. current'[u] = a /\ phase'[u] = phase[u]
      BY <1>1, <2>1, HandMoves
    <3> QED
      BY <1>1, <3>1 DEF Placed, Live
  <2>2. CASE u = w /\ current'[w] = current[w] /\ Live(w)'
    BY <1>1, <2>2 DEF Placed
  <2>3. CASE u = w /\ (Begin(w) \/ Stillborn(w))
    BY <1>0, <1>1, <2>3 DEF Begin, Stillborn, CurrentTaken
  <2>4. CASE u = w /\ FailEarly(w)
    <3>1. failures \in 0 .. 0 /\ failures < 0
      BY <2>4 DEF FailEarly, TypeOK, Quiet
    <3> QED
      BY <3>1
  <2>5. CASE u = w /\ Return(w)
    BY <1>1, <2>5 DEF Return, TurnAnswered
  <2>6. CASE u = w /\ Unwound(w)
    <3>1. Sweep(w, AllQueued(w), {a}) /\ AllQueued(w) \in Seq(Messages)
      BY <1>1, <2>6, AllQueuedTypes DEF Unwound
    <3>2. a \in Range(inbox'[w])
      BY <3>1, SweepAnswers
    <3> QED
      BY <3>2 DEF Placed, Held
  <2>7. CASE u = w /\ SweepOn(w)
    BY <2>7 DEF SweepOn, Skeleton, NoSweep, Quiet
  <2> QED
    BY <1>1, <2>1, <2>2, <2>3, <2>4, <2>5, <2>6, <2>7, HandMoves
<1>2. CASE Begin(w) \/ FailEarly(w) \/ Return(w)
  <2>1. LoopHead(w) /\ batch' = batch
    BY <1>2 DEF Begin, FailEarly, Return
  <2>2. /\ \A u \in Boxes : a \in Held(u) =>
              a \in Held(u)' \/ (Live(w)' /\ current'[w] = a)
        /\ a \in Range(deferred) => a \in Range(deferred') \/ (Live(w)' /\ current'[w] = a)
    BY <2>1, LoopPlaces
  <2> QED
    BY <1>1, <2>2 DEF Placed
<1>3. CASE Acquire(w) \/ Finish(w) \/ Drain(w) \/ DrainDone(w) \/ Unwind(w) \/ Stillborn(w)
  <2>0. deferred' = deferred
    BY <1>3 DEF Acquire, Finish, Drain, DrainDone, Unwind, Stillborn, queueVars
  <2>1. ASSUME NEW u \in Boxes, a \in Held(u)
        PROVE  a \in Held(u)'
    <3>1. CASE u # w
      BY <1>3, <2>1, <3>1, WorkerTouches DEF WorkerStep, Touches, Held
    <3>2. CASE u = w /\ (Acquire(w) \/ Finish(w) \/ Stillborn(w))
      BY <2>1, <3>2 DEF Acquire, Finish, Stillborn, queueVars, Held
    <3>3. CASE u = w /\ Drain(w)
      <4>1. batch'[w] = inbox[w] /\ batch[w] = <<>>
        BY <3>3 DEF Drain, TypeOK, Skeleton, BatchShape
      <4> QED
        BY <2>1, <3>3, <4>1, RangeEmpty DEF Held
    <3>4. CASE u = w /\ (DrainDone(w) \/ Unwind(w))
      <4>1. PICK n \in 0 .. Len(batch[w]) : /\ \A i \in 1 .. n : DrainDone(w) => batch[w][i] \in Inputs
                                            /\ inbox' = [inbox EXCEPT ![w] = PutBack(w, n)]
                                            /\ DrainDone(w) \/ n = 0
        <5>1. 0 \in 0 .. Len(batch[w]) /\ 1 .. 0 = {}
          BY LenProperties DEF TypeOK
        <5>2. CASE DrainDone(w)
          BY <5>2 DEF DrainDone, Absorbable
        <5>3. CASE Unwind(w)
          BY <5>1, <5>3 DEF Unwind
        <5> QED
          BY <3>4, <5>2, <5>3
      <4>2. /\ Range(SubSeq(batch[w], 1, n)) \cup Range(PutBack(w, n)) = Held(w)
            /\ SubSeq(batch[w], 1, n) \in Seq(Messages)
        BY PutBackTypes DEF Held
      <4>3. a \notin Range(SubSeq(batch[w], 1, n))
        <5>1. batch[w] \in Seq(Messages) /\ n \in Nat /\ n <= Len(batch[w])
          BY LenProperties DEF TypeOK
        <5>2. /\ DOMAIN SubSeq(batch[w], 1, n) = 1 .. n
              /\ \A i \in 1 .. n : SubSeq(batch[w], 1, n)[i] = batch[w][i]
          BY <5>1
        <5>3. DrainDone(w) => Range(SubSeq(batch[w], 1, n)) \subseteq Inputs
          BY <4>1, <5>2 DEF Range
        <5>4. n = 0 => Range(SubSeq(batch[w], 1, n)) = {}
          BY <5>2 DEF Range
        <5> QED
          BY <1>0, <4>1, <5>3, <5>4
      <4>4. a \in Range(PutBack(w, n)) /\ inbox'[w] = PutBack(w, n)
        BY <2>1, <3>4, <4>1, <4>2, <4>3 DEF TypeOK
      <4> QED
        BY <3>4, <4>4 DEF Held
    <3> QED
      BY <1>3, <3>1, <3>2, <3>3, <3>4
  <2> QED
    BY <1>1, <2>0, <2>1 DEF Placed
<1>4. CASE Unwound(w)
  <2>1. Sweep(w, AllQueued(w), {current[w]}) /\ AllQueued(w) \in Seq(Messages) /\ batch' = batch
    BY <1>4, AllQueuedTypes DEF Unwound
  <2>2. a \in Range(inbox[w]) \cup Range(deferred) => a \in Held(w)'
    BY <2>1, AllQueuedTypes, SweepAnswers DEF Held
  <2>3. \A u \in Boxes : a \in Held(u) => a \in Held(u)'
    BY <2>1, <2>2, SweepHolds DEF Held
  <2> QED
    BY <1>1, <2>2, <2>3 DEF Placed
<1>5. CASE SweepOn(w)
  BY <1>5 DEF SweepOn, Skeleton, NoSweep, Quiet
<1> QED
  BY <1>2, <1>3, <1>4, <1>5 DEF WorkerStep

LEMMA NextWaitersPlaced ==
  ASSUME TypeOK, Shape, Skeleton, Fresh, Places, Journaling, Quiet, CurrentTaken, TurnAnswered,
         WaitersPlaced, [Next]_vars
  PROVE  WaitersPlaced'
<1>1. SUFFICES ASSUME NEW a \in Automations, waiter'[a] = "waiting"
               PROVE  Placed(a)'
  BY DEF WaitersPlaced
<1>2. waiter[a] = "waiting" \/ (waiter[a] = "unsent" /\ Submit(a))
  BY <1>1, WaiterMoves
<1>3. CASE waiter[a] = "unsent" /\ Submit(a)
  <2>1. CASE Defers(a)
    <3>1. deferred' = Append(deferred, a) /\ a \in Deferring /\ deferred \in Seq(Deferring)
      BY <1>3, <2>1 DEF Submit, Defers, TypeOK
    <3>2. a \in Range(deferred')
      BY <3>1, RangeAppend
    <3> QED
      BY <3>2 DEF Placed
  <2>2. CASE ~Defers(a)
    <3>1. Put(a) /\ a \in Messages /\ batch' = batch
      BY <1>3, <2>2 DEF Submit, Messages
    <3>2. PICK r \in Boxes : r = route' /\ inbox'[r] = Append(inbox[r], a)
      BY <3>1, PutComes
    <3>3. a \in Range(inbox'[r])
      BY <3>1, <3>2, RangeAppend DEF TypeOK
    <3> QED
      BY <3>3 DEF Placed, Held
  <2> QED
    BY <2>1, <2>2
<1>4. CASE waiter[a] = "waiting"
  <2>0. Placed(a)
    BY <1>4 DEF WaitersPlaced
  <2>1. ASSUME NEW w \in Boxes, WorkerStep(w)
        PROVE  Placed(a)'
    BY <1>1, <1>4, <2>0, <2>1, WorkerPlaces
  <2>2. ASSUME NEW m, Came(m)
        PROVE  Placed(a)'
    <3>1. \A u \in Boxes : Held(u) \subseteq Held(u)'
      BY <2>2, CameHolds DEF Came
    <3>2. \A u \in Boxes : Live(u) => Live(u)'
      BY <2>2 DEF Came, Live
    <3> QED
      BY <2>0, <2>2, <3>1, <3>2 DEF Placed, Came
  <2>3. CASE /\ current' = current /\ phase' = phase /\ inbox' = inbox /\ batch' = batch
             /\ deferred' = deferred
    BY <2>0, <2>3 DEF Placed, Live, Held
  <2>4. CASE \/ \E m \in Inputs \cup Commands : Receive(m)
             \/ \E b \in Automations : Submit(b)
             \/ Journaled
    <3>1. current' = current
      BY <2>4 DEF Receive, Submit, Journaled
    <3>2. Range(deferred) \subseteq Range(deferred')
      <4>1. CASE deferred' = deferred
        BY <4>1
      <4>2. CASE \E b \in Deferring : deferred' = Append(deferred, b)
        BY <4>2, RangeAppend DEF TypeOK
      <4> QED
        BY <2>4, <4>1, <4>2 DEF Receive, Submit, Journaled, Defers
    <3>3. CASE inbox' = inbox /\ batch' = batch /\ phase' = phase
      BY <2>0, <3>1, <3>2, <3>3 DEF Placed, Live, Held
    <3> QED
      BY <2>2, <2>4, <3>3, Admitted
  <2>5. CASE (\E kind \in CancelKinds : Cancel(kind)) \/ JournalRefused \/ CutOff \/ UNCHANGED vars
    BY <2>3, <2>5 DEF Cancel, JournalRefused, CutOff, vars, queueVars, workerVars
  <2>6. CASE Reclaim /\ Reclaims
    <3>1. PICK w \in Boxes : w = bus.box
      BY <2>6, BusTypes DEF Reclaims, Buses
    <3>2. /\ Sweep(w, AllQueued(w), {}) /\ AllQueued(w) \in Seq(Messages)
          /\ current' = current /\ phase' = phase /\ batch' = batch
      BY <2>6, <3>1, AllQueuedTypes DEF Reclaim, workerVars
    <3>3. a \in Range(inbox[w]) \cup Range(deferred) => a \in Held(w)'
      BY <1>1, <3>2, AllQueuedTypes, SweepAnswers DEF Held
    <3>4. \A u \in Boxes : a \in Held(u) => a \in Held(u)'
      BY <3>2, <3>3, SweepHolds DEF Held
    <3> QED
      BY <2>0, <3>2, <3>3, <3>4 DEF Placed, Live
  <2>7. CASE Reclaim /\ ~Reclaims
    BY <2>3, <2>7 DEF Reclaim, queueVars, workerVars
  <2>8. CASE ReclaimOn
    BY <2>8 DEF ReclaimOn, Skeleton, NoSweep, Quiet
  <2>9. CASE StopTail
    <3>1. bus.kind # "stop"
      BY <2>9 DEF StopTail, Skeleton, BusShape, Cancelling, Quiet
    <3> QED
      BY <2>3, <2>9, <3>1 DEF StopTail, workerVars
  <2> QED
    BY <2>1, <2>4, <2>5, <2>6, <2>7, <2>8, <2>9 DEF Next, BusStep
<1> QED
  BY <1>2, <1>3, <1>4

(* Whoever waits for an automation has somebody left who will run it or    *)
(* fail it: its message is in a worker's hands, in an inbox that is looked *)
(* at, or deferred behind a registered inbox.  /stop and a queued command  *)
(* can leave it deferred behind none, and a message that fails before its  *)
(* turn is not answered at all.                                            *)
THEOREM WaiterServed ==
  ASSUME "stop" \notin CancelKinds, Commands = {}, MaxFailures = 0
  PROVE  Spec => []WaiterHasRunner
<1> DEFINE WInv == DeferredRouted /\ CurrentTaken /\ TurnAnswered /\ WaitersPlaced
<1>0. Quiet /\ Strayless
  BY DEF Quiet, Strayless
<1>1. Init => WInv
  BY DEF Init, DeferredRouted, CurrentTaken, TurnAnswered, WaitersPlaced
<1>2. IInv /\ WInv /\ [Next]_vars => WInv'
  BY <1>0, NextDeferredRouted, NextCurrentTaken, NextTurnAnswered, NextWaitersPlaced DEF IInv
<1>3. IInv /\ WInv => WaiterHasRunner
  <2> SUFFICES ASSUME IInv, WInv, NEW a \in Automations, waiter[a] = "waiting"
               PROVE  \/ \E w \in Alive : current[w] = a
                      \/ \E w \in Boxes : Attended(w) /\ Holds(w, a)
                      \/ (a \in Range(deferred) /\ route # None /\ Attended(route))
    BY DEF WaiterHasRunner
  <2>1. CASE \E w \in Boxes : Live(w) /\ current[w] = a
    BY <2>1 DEF Alive
  <2>2. CASE \E w \in Boxes : a \in Held(w)
    BY <1>0, <2>2, HeldAttended DEF Holds, Held
  <2>3. CASE a \in Range(deferred)
    <3>1. deferred # <<>>
      BY <2>3, RangeEmpty
    <3>2. route # None
      BY <3>1 DEF DeferredRouted
    <3> QED
      BY <2>3, <3>2, RouteAttended
  <2> QED
    BY <2>1, <2>2, <2>3 DEF WaitersPlaced, Placed
<1> HIDE DEF WInv
<1> QED
  BY <1>1, <1>2, <1>3, Invariance, PTL DEF Spec

=============================================================================
