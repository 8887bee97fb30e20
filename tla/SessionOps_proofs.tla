-------------------------- MODULE SessionOps_proofs --------------------------
(***************************************************************************)
(* Proofs about SessionOps for every set of keys, every set of shapes and  *)
(* every capacity, number of readers and bound.                            *)
(***************************************************************************)
EXTENDS SessionOps, FiniteSetTheorems, SequenceTheorems, WellFoundedInduction,
        TLAPS

(***************************************************************************)
(* The inductive invariant.  AdmissionOrder alone is not inductive: that j *)
(* waits says nothing about what it waits for.  WaitChain adds that one of *)
(* the unfinished tasks j awaits is i itself or something between the two  *)
(* that conflicts with i, and so waits in turn.                            *)
(***************************************************************************)
Numbered == \A o \in Ops : phase[o] = "new" <=> o > count

PendingCovers == Active \subseteq pending /\ \A o \in pending : o <= count

Injective(q) == \A x, y \in 1 .. Len(q) : q[x] = q[y] => x = y

Queued(q, which) ==
  /\ \A x \in 1 .. Len(q) : phase[q[x]] = "queued" /\ leg[q[x]] = which
  /\ Injective(q)

PoolsQueued == Queued(readQ, "read") /\ Queued(writeQ, "write")

Between(i, j) ==
  \E p \in preds[j] : p \in Active /\ (p = i \/ (i < p /\ Conflict(i, p)))

WaitChain ==
  \A i, j \in Ops :
    i < j /\ i \in Active /\ j \in Active /\ Conflict(i, j)
      => phase[j] = "waiting" /\ Between(i, j)

DrainCovers ==
  /\ closer \in {"draining", "closed"} => Active \subseteq drain
  /\ ClosedIsDrained

IInv ==
  /\ TypeOK
  /\ Numbered
  /\ PendingCovers
  /\ PoolsQueued
  /\ SlotAccounting
  /\ TailsExact
  /\ WaitChain
  /\ DrainCovers

-----------------------------------------------------------------------------

(* The initial state satisfies the invariant. *)
LEMMA InitIInv == Init => IInv
<1> SUFFICES ASSUME Init PROVE IInv
  OBVIOUS
<1> USE CapacityAssumption, BoundsAssumption DEF None
<1>1. Active = {}
  BY DEF Init, Active
<1>2. TypeOK
  BY DEF Init, TypeOK, Ops, ShapeType, Kinds, Plans, Phases
<1>3. Numbered
  BY DEF Init, Numbered, Ops
<1>4. PendingCovers
  BY <1>1 DEF Init, PendingCovers
<1>5. PoolsQueued
  BY DEF Init, PoolsQueued, Queued, Injective
<1>6. SlotAccounting
  BY <1>1, FS_EmptySet DEF Init, SlotAccounting
<1>7. TailsExact
  BY <1>1 DEF Init, TailsExact, IsNewest
<1>8. WaitChain
  BY <1>1 DEF WaitChain
<1>9. DrainCovers
  BY <1>1 DEF Init, DrainCovers, ClosedIsDrained
<1> QED
  BY <1>2, <1>3, <1>4, <1>5, <1>6, <1>7, <1>8, <1>9 DEF IInv

(* A step that moves o between two unfinished phases finishes nothing. *)
LEMMA ActiveKept ==
  ASSUME NEW o \in Ops, NEW v, TypeOK, o \in Active,
         v \notin {"new", "settled"},
         phase' = [phase EXCEPT ![o] = v]
  PROVE  Active' = Active
BY DEF Active, TypeOK

(* Active is a finite set. *)
LEMMA ActiveFinite == IsFiniteSet(Active) /\ IsFiniteSet(Ops)
<1>1. IsFiniteSet(Ops)
  BY FS_Interval, BoundsAssumption DEF Ops
<1> QED
  BY <1>1, FS_Subset DEF Active

(* The tail that _submit writes is the newest of its class. *)
LEMMA NewestAdded ==
  ASSUME NEW S, NEW o \in Int, S \subseteq Int, \A x \in S : x <= o
  PROVE  IsNewest(o, S \cup {o})
BY DEF IsNewest

(* Admission: the tails cover the unfinished operations the new one meets. *)
LEMMA StepSubmit ==
  ASSUME IInv, NEW s \in Shapes, Submit(s)
  PROVE  IInv'
<1> DEFINE o == count + 1
<1> USE CapacityAssumption, BoundsAssumption
<1>0. /\ TypeOK /\ Numbered /\ PendingCovers /\ PoolsQueued /\ SlotAccounting
      /\ TailsExact /\ WaitChain /\ DrainCovers
  BY DEF IInv
<1>1. /\ o \in Ops /\ count \in 0 .. MaxOps /\ phase[o] = "new" /\ o \notin Active
      /\ o \notin pending
  BY <1>0 DEF TypeOK, Numbered, Submit, Ops, Active, PendingCovers
<1>2. s \in ShapeType /\ (s.kind = "keyed" <=> s.keys # {})
  BY ShapesAssumption DEF ShapeType
<1>3. Active' = Active \cup {o} /\ phase'[o] = "waiting" /\ shape'[o] = s
  <2>1. phase' = [phase EXCEPT ![o] = "waiting"] /\ shape' = [shape EXCEPT ![o] = s]
    BY DEF Submit
  <2>2. phase \in [Ops -> Phases] /\ shape \in [Ops -> ShapeType]
    BY <1>0 DEF TypeOK
  <2>3. phase'[o] = "waiting" /\ shape'[o] = s
    BY <1>1, <2>1, <2>2
  <2>4. \A x \in Ops : x # o => phase'[x] = phase[x]
    BY <2>1, <2>2
  <2> HIDE DEF o
  <2> QED
    BY <1>1, <2>3, <2>4 DEF Active
<1>4. \A x \in Active : shape'[x] = shape[x] /\ phase'[x] = phase[x] /\ x < o
                        /\ preds'[x] = preds[x] /\ x # o
  BY <1>0, <1>1 DEF Submit, Active, TypeOK, Numbered, Ops
<1>5. TypeOK'
  <2>1. Predecessors(s) \subseteq Ops
    BY <1>0, <1>2 DEF Predecessors, TypeOK, ShapeType, Kinds, None
  <2>2. FirstLeg(s.plan) \in {"read", "write"}
    BY DEF FirstLeg
  <2>3. admitted' \in 0 .. Capacity
    BY <1>0 DEF Submit, HasRoom, TypeOK
  <2>4. keyTail' \in [Keys -> Ops \cup {None}]
    BY <1>0, <1>1 DEF Submit, TypeOK
  <2> QED
    BY <1>0, <1>1, <1>2, <2>1, <2>2, <2>3, <2>4
    DEF Submit, TypeOK, Phases, closeVars, Ops
<1>6. Numbered'
  BY <1>0, <1>1 DEF Submit, Numbered, TypeOK, Ops
<1>7. PendingCovers'
  BY <1>0, <1>1, <1>3 DEF Submit, PendingCovers, TypeOK, Ops
<1>8. PoolsQueued'
  <2>1. \A x \in Ops : phase[x] = "queued" => phase'[x] = "queued" /\ leg'[x] = leg[x]
    BY <1>0, <1>1 DEF Submit, TypeOK
  <2> QED
    BY <1>0, <2>1 DEF Submit, PoolsQueued, Queued, Injective, TypeOK
<1>9. SlotAccounting'
  BY <1>0, <1>1, <1>3, ActiveFinite, FS_AddElement DEF Submit, SlotAccounting, TypeOK
<1>10. TailsExact'
  <2>1. ASSUME NEW k \in Keys
        PROVE  IsNewest(keyTail'[k], {x \in Active' : k \in shape'[x].keys})
    <3>1. CASE k \in s.keys
      <4> DEFINE S == {x \in Active : k \in shape[x].keys}
      <4>1. {x \in Active' : k \in shape'[x].keys} = S \cup {o}
        BY <1>3, <1>4, <3>1
      <4>2. keyTail'[k] = o
        BY <3>1 DEF Submit
      <4>3. S \subseteq Int /\ o \in Int /\ \A x \in S : x <= o
        BY <1>1, <1>4 DEF Active, Ops
      <4>4. IsNewest(o, S \cup {o})
        <5> HIDE DEF S, o
        <5> QED
          BY <4>3, NewestAdded
      <4> QED
        BY <4>1, <4>2, <4>4
    <3>2. CASE k \notin s.keys
      <4>1. {x \in Active' : k \in shape'[x].keys} = {x \in Active : k \in shape[x].keys}
        BY <1>3, <1>4, <3>2
      <4> QED
        BY <1>0, <3>2, <4>1 DEF Submit, TailsExact
    <3> QED
      BY <3>1, <3>2
  <2>2. IsNewest(globalTail', {x \in Active' : shape'[x].kind = "barrier"})
    <3>1. CASE s.kind = "barrier"
      <4> DEFINE S == {x \in Active : shape[x].kind = "barrier"}
      <4>1. {x \in Active' : shape'[x].kind = "barrier"} = S \cup {o}
        BY <1>3, <1>4, <3>1
      <4>2. globalTail' = o
        BY <3>1 DEF Submit
      <4>3. S \subseteq Int /\ o \in Int /\ \A x \in S : x <= o
        BY <1>1, <1>4 DEF Active, Ops
      <4>4. IsNewest(o, S \cup {o})
        <5> HIDE DEF S, o
        <5> QED
          BY <4>3, NewestAdded
      <4> QED
        BY <4>1, <4>2, <4>4
    <3>2. CASE s.kind # "barrier"
      <4>1. {x \in Active' : shape'[x].kind = "barrier"}
              = {x \in Active : shape[x].kind = "barrier"}
        BY <1>3, <1>4, <3>2
      <4> QED
        BY <1>0, <3>2, <4>1 DEF Submit, TailsExact
    <3> QED
      BY <3>1, <3>2
  <2> QED
    BY <2>1, <2>2 DEF TailsExact, IsNewest
<1>11. WaitChain'
  <2> SUFFICES ASSUME NEW i \in Ops, NEW j \in Ops, i < j, i \in Active',
                      j \in Active', Conflict(i, j)'
               PROVE  phase'[j] = "waiting" /\ Between(i, j)'
    BY DEF WaitChain
  <2>1. i \in Active /\ i # o
    BY <1>3, <1>4 DEF Ops
  <2>2. CASE j \in Active
    <3>1. Conflict(i, j)
      BY <1>4, <2>1, <2>2 DEF Conflict
    <3>2. phase[j] = "waiting" /\ Between(i, j)
      BY <1>0, <2>1, <2>2, <3>1 DEF WaitChain
    <3> QED
      BY <1>3, <1>4, <2>1, <2>2, <3>2 DEF Between, Conflict
  <2>3. CASE j = o
    <3>1. preds'[o] = Predecessors(s)
      BY <1>0, <1>1 DEF Submit, TypeOK
    <3>2. CASE s.kind = "barrier"
      BY <1>0, <1>3, <2>1, <2>3, <3>1, <3>2
      DEF Between, Predecessors, PendingCovers
    <3>3. CASE s.kind = "keyed" /\ shape[i].kind = "barrier"
      <4>1. PICK t \in Ops : t = globalTail /\ t \in Active /\ i <= t
                             /\ shape[t].kind = "barrier"
        BY <1>0, <2>1, <3>3 DEF TailsExact, IsNewest, Active
      <4>2. t \in preds'[o] /\ shape'[t].kind = "barrier"
        BY <1>4, <3>1, <3>3, <4>1 DEF Predecessors, None, Ops
      <4>3. t = i \/ (i < t /\ Conflict(i, t)')
        BY <4>1, <4>2 DEF Conflict, Ops
      <4> QED
        BY <1>3, <2>3, <4>1, <4>2, <4>3 DEF Between
    <3>4. CASE s.kind = "keyed" /\ shape[i].keys \cap s.keys # {}
      <4>1. PICK k \in Keys : k \in shape[i].keys /\ k \in s.keys
        BY <1>2, <3>4 DEF ShapeType
      <4>2. PICK t \in Ops : t = keyTail[k] /\ t \in Active /\ i <= t
                             /\ k \in shape[t].keys
        BY <1>0, <2>1, <4>1 DEF TailsExact, IsNewest, Active
      <4>3. t \in preds'[o] /\ shape'[t] = shape[t] /\ shape'[i] = shape[i]
        BY <1>4, <2>1, <3>1, <3>4, <4>1, <4>2 DEF Predecessors, None, Ops
      <4>4. shape[i].kind \in Kinds /\ shape[t].kind = "keyed"
        BY <1>0, <4>2 DEF TypeOK, ShapeType
      <4>5. t = i \/ (i < t /\ Conflict(i, t)')
        BY <4>1, <4>2, <4>3, <4>4 DEF Conflict, Ops
      <4> QED
        BY <1>3, <2>3, <4>2, <4>3, <4>5 DEF Between
    <3>5. \/ s.kind = "barrier"
          \/ s.kind = "keyed" /\ shape[i].kind = "barrier"
          \/ s.kind = "keyed" /\ shape[i].keys \cap s.keys # {}
      BY <1>3, <1>4, <2>1, <2>3 DEF Conflict
    <3> QED
      BY <1>3, <2>3, <3>2, <3>3, <3>4, <3>5
  <2> QED
    BY <1>3, <2>2, <2>3
<1>12. DrainCovers'
  BY <1>0 DEF Submit, DrainCovers, ClosedIsDrained, closeVars
<1> QED
  BY <1>5, <1>6, <1>7, <1>8, <1>9, <1>10, <1>11, <1>12 DEF IInv

(***************************************************************************)
(* A step that ends no operation and changes no tail: an operation may     *)
(* leave its wait only when nothing it awaits is unfinished.               *)
(***************************************************************************)
LEMMA StepWithin ==
  ASSUME IInv,
         Active' = Active,
         UNCHANGED <<count, shape, preds, admitted, keyTail, globalTail>>,
         \A o \in Ops : phase'[o] = "new" <=> phase[o] = "new",
         \A o \in Ops : phase[o] = "waiting" =>
           phase'[o] = "waiting" \/ \A p \in preds[o] : p \notin Active
  PROVE  Numbered' /\ SlotAccounting' /\ TailsExact' /\ WaitChain'
<1>1. Numbered'
  BY DEF IInv, Numbered
<1>2. SlotAccounting'
  BY DEF IInv, SlotAccounting
<1>3. TailsExact'
  BY DEF IInv, TailsExact, IsNewest
<1>4. WaitChain'
  <2> SUFFICES ASSUME NEW i \in Ops, NEW j \in Ops, i < j, i \in Active',
                      j \in Active', Conflict(i, j)'
               PROVE  phase'[j] = "waiting" /\ Between(i, j)'
    BY DEF WaitChain
  <2>1. phase[j] = "waiting" /\ Between(i, j)
    BY DEF IInv, WaitChain, Conflict
  <2>2. PICK p \in preds[j] : p \in Active /\ (p = i \/ (i < p /\ Conflict(i, p)))
    BY <2>1 DEF Between
  <2> QED
    BY <2>1, <2>2 DEF Between, Conflict
<1> QED
  BY <1>1, <1>2, <1>3, <1>4

(* A job put on the queue of an executor it was not on. *)
LEMMA QueuePut ==
  ASSUME NEW o \in Ops, NEW which \in {"read", "write"}, TypeOK,
         phase[o] # "queued",
         phase' = [phase EXCEPT ![o] = "queued"],
         leg' = [leg EXCEPT ![o] = which],
         PutOnQueue(o, which), PoolsQueued
  PROVE  PoolsQueued' /\ readQ' \in Seq(Ops) /\ writeQ' \in Seq(Ops)
<1>1. \A x \in Ops : x # o => phase'[x] = phase[x] /\ leg'[x] = leg[x]
  BY DEF TypeOK
<1>2. phase'[o] = "queued" /\ leg'[o] = which
  BY DEF TypeOK
<1>3. ASSUME NEW q \in Seq(Ops), NEW w \in {"read", "write"}, Queued(q, w)
      PROVE  /\ \A x \in 1 .. Len(q) : q[x] \in Ops /\ q[x] # o
             /\ \A x \in 1 .. Len(q) : phase'[q[x]] = "queued" /\ leg'[q[x]] = w
             /\ Append(q, o) \in Seq(Ops)
             /\ \A x, y \in 1 .. Len(Append(q, o)) :
                  Append(q, o)[x] = Append(q, o)[y] => x = y
             /\ \A x \in 1 .. Len(Append(q, o)) :
                  Append(q, o)[x] = o \/ \E y \in 1 .. Len(q) : Append(q, o)[x] = q[y]
  <2>1. \A x \in 1 .. Len(q) : q[x] \in Ops /\ q[x] # o
    BY <1>3 DEF Queued
  <2>2. \A x \in 1 .. Len(q) : phase'[q[x]] = "queued" /\ leg'[q[x]] = w
    BY <1>1, <1>3, <2>1 DEF Queued
  <2> QED
    BY <1>3, <2>1, <2>2 DEF Queued, Injective
<1>4. readQ \in Seq(Ops) /\ writeQ \in Seq(Ops)
  BY DEF TypeOK
<1>5. Queued(readQ, "read") /\ Queued(writeQ, "write")
  BY DEF PoolsQueued
<1>6. CASE which = "write"
  <2>1. writeQ' = Append(writeQ, o) /\ readQ' = readQ
    BY <1>6 DEF PutOnQueue
  <2>2. Queued(readQ, "read")'
    BY <1>3, <1>4, <1>5, <2>1 DEF Queued, Injective
  <2>3. Queued(writeQ, "write")'
    BY <1>2, <1>3, <1>4, <1>5, <1>6, <2>1 DEF Queued, Injective
  <2> QED
    BY <1>3, <1>4, <1>5, <2>1, <2>2, <2>3 DEF PoolsQueued
<1>7. CASE which = "read"
  <2>1. readQ' = Append(readQ, o) /\ writeQ' = writeQ
    BY <1>7 DEF PutOnQueue
  <2>2. Queued(writeQ, "write")'
    BY <1>3, <1>4, <1>5, <2>1 DEF Queued, Injective
  <2>3. Queued(readQ, "read")'
    BY <1>2, <1>3, <1>4, <1>5, <1>7, <2>1 DEF Queued, Injective
  <2> QED
    BY <1>3, <1>4, <1>5, <2>1, <2>2, <2>3 DEF PoolsQueued
<1> QED
  BY <1>6, <1>7

(* The body goes to its executor when all that the task awaited is over. *)
LEMMA StepStart ==
  ASSUME IInv, NEW o \in Ops, Start(o)
  PROVE  IInv'
<1>0. TypeOK /\ PendingCovers /\ PoolsQueued /\ DrainCovers
  BY DEF IInv
<1>1. o \in Active /\ phase[o] = "waiting" /\ \A p \in preds[o] : p \notin Active
  BY DEF Start, Active, Done
<1>2. Active' = Active
  BY <1>0, <1>1, ActiveKept DEF Start
<1>3. leg' = [leg EXCEPT ![o] = leg[o]] /\ leg[o] \in {"read", "write"}
  BY <1>0 DEF Start, TypeOK
<1>4. PoolsQueued' /\ readQ' \in Seq(Ops) /\ writeQ' \in Seq(Ops)
  BY <1>0, <1>1, <1>3, QueuePut DEF Start
<1>5. TypeOK'
  BY <1>0, <1>4 DEF Start, TypeOK, Phases, opVars, tailVars, closeVars
<1>6. Numbered' /\ SlotAccounting' /\ TailsExact' /\ WaitChain'
  <2>1. \A x \in Ops : phase'[x] = "new" <=> phase[x] = "new"
    BY <1>0, <1>1 DEF Start, TypeOK
  <2>2. \A x \in Ops : phase[x] = "waiting" =>
          phase'[x] = "waiting" \/ \A p \in preds[x] : p \notin Active
    BY <1>0, <1>1 DEF Start, TypeOK
  <2> QED
    BY <1>2, <2>1, <2>2, StepWithin DEF Start, opVars, tailVars
<1>7. PendingCovers' /\ DrainCovers'
  BY <1>0, <1>2 DEF Start, PendingCovers, DrainCovers, ClosedIsDrained, opVars, closeVars
<1> QED
  BY <1>4, <1>5, <1>6, <1>7 DEF IInv

(* A second leg: the task re-enters a queue without ending. *)
LEMMA StepSecondLeg ==
  ASSUME IInv, NEW o \in Ops, SecondLeg(o)
  PROVE  IInv'
<1>0. TypeOK /\ PendingCovers /\ PoolsQueued /\ DrainCovers
  BY DEF IInv
<1>1. o \in Active /\ phase[o] = "ran"
  BY DEF SecondLeg, Active
<1>2. Active' = Active
  BY <1>0, <1>1, ActiveKept DEF SecondLeg
<1>4. PoolsQueued' /\ readQ' \in Seq(Ops) /\ writeQ' \in Seq(Ops)
  BY <1>0, <1>1, QueuePut DEF SecondLeg
<1>5. TypeOK'
  BY <1>0, <1>4 DEF SecondLeg, TypeOK, Phases, opVars, tailVars, closeVars
<1>6. Numbered' /\ SlotAccounting' /\ TailsExact' /\ WaitChain'
  <2>1. \A x \in Ops : /\ phase'[x] = "new" <=> phase[x] = "new"
                       /\ phase[x] = "waiting" => phase'[x] = "waiting"
    BY <1>0, <1>1 DEF SecondLeg, TypeOK
  <2> QED
    BY <1>2, <2>1, StepWithin DEF SecondLeg, opVars, tailVars
<1>7. PendingCovers' /\ DrainCovers'
  BY <1>0, <1>2 DEF SecondLeg, PendingCovers, DrainCovers, ClosedIsDrained, opVars, closeVars
<1> QED
  BY <1>4, <1>5, <1>6, <1>7 DEF IInv

(* A pool takes the head of its queue, which is queued there exactly once. *)
LEMMA StepTakeRead ==
  ASSUME IInv, TakeRead
  PROVE  IInv'
<1>0. TypeOK /\ PendingCovers /\ PoolsQueued /\ DrainCovers
  BY DEF IInv
<1> DEFINE o == Head(readQ)
<1>1. /\ readQ \in Seq(Ops) /\ readQ # <<>> /\ o = readQ[1] /\ 1 \in 1 .. Len(readQ)
      /\ o \in Ops
  BY <1>0 DEF TakeRead, TypeOK
<1>2. phase[o] = "queued" /\ leg[o] = "read" /\ o \in Active
  BY <1>0, <1>1 DEF PoolsQueued, Queued, Active
<1>3. \A x \in Ops : x # o => phase'[x] = phase[x]
  BY <1>0, <1>1 DEF TakeRead, TypeOK
<1>4. Active' = Active
  BY <1>0, <1>1, <1>2, ActiveKept, ZenonT(90) DEF TakeRead
<1>5. Queued(readQ, "read")'
  BY <1>0, <1>1, <1>3 DEF TakeRead, PoolsQueued, Queued, Injective
<1>6. Queued(writeQ, "write")'
  BY <1>0, <1>2, <1>3 DEF TakeRead, PoolsQueued, Queued, Injective, TypeOK
<1>7. TypeOK'
  BY <1>0, <1>1 DEF TakeRead, TypeOK, Phases, opVars, tailVars, closeVars
<1>8. Numbered' /\ SlotAccounting' /\ TailsExact' /\ WaitChain'
  <2>1. \A x \in Ops : /\ phase'[x] = "new" <=> phase[x] = "new"
                       /\ phase[x] = "waiting" => phase'[x] = "waiting"
    BY <1>0, <1>1, <1>2 DEF TakeRead, TypeOK
  <2> QED
    BY <1>4, <2>1, StepWithin DEF TakeRead, opVars, tailVars
<1>9. PendingCovers' /\ DrainCovers'
  BY <1>0, <1>4 DEF TakeRead, PendingCovers, DrainCovers, ClosedIsDrained, opVars, closeVars
<1> QED
  BY <1>5, <1>6, <1>7, <1>8, <1>9 DEF IInv, PoolsQueued

(* The same for the writer thread. *)
LEMMA StepTakeWrite ==
  ASSUME IInv, TakeWrite
  PROVE  IInv'
<1>0. TypeOK /\ PendingCovers /\ PoolsQueued /\ DrainCovers
  BY DEF IInv
<1> DEFINE o == Head(writeQ)
<1>1. /\ writeQ \in Seq(Ops) /\ writeQ # <<>> /\ o = writeQ[1] /\ 1 \in 1 .. Len(writeQ)
      /\ o \in Ops
  BY <1>0 DEF TakeWrite, TypeOK
<1>2. phase[o] = "queued" /\ leg[o] = "write" /\ o \in Active
  BY <1>0, <1>1 DEF PoolsQueued, Queued, Active
<1>3. \A x \in Ops : x # o => phase'[x] = phase[x]
  BY <1>0, <1>1 DEF TakeWrite, TypeOK
<1>4. Active' = Active
  BY <1>0, <1>1, <1>2, ActiveKept, ZenonT(90) DEF TakeWrite
<1>5. Queued(writeQ, "write")'
  BY <1>0, <1>1, <1>3 DEF TakeWrite, PoolsQueued, Queued, Injective
<1>6. Queued(readQ, "read")'
  BY <1>0, <1>2, <1>3 DEF TakeWrite, PoolsQueued, Queued, Injective, TypeOK
<1>7. TypeOK'
  BY <1>0, <1>1 DEF TakeWrite, TypeOK, Phases, opVars, tailVars, closeVars
<1>8. Numbered' /\ SlotAccounting' /\ TailsExact' /\ WaitChain'
  <2>1. \A x \in Ops : /\ phase'[x] = "new" <=> phase[x] = "new"
                       /\ phase[x] = "waiting" => phase'[x] = "waiting"
    BY <1>0, <1>1, <1>2 DEF TakeWrite, TypeOK
  <2> QED
    BY <1>4, <2>1, StepWithin DEF TakeWrite, opVars, tailVars
<1>9. PendingCovers' /\ DrainCovers'
  BY <1>0, <1>4 DEF TakeWrite, PendingCovers, DrainCovers, ClosedIsDrained, opVars, closeVars
<1> QED
  BY <1>5, <1>6, <1>7, <1>8, <1>9 DEF IInv, PoolsQueued

(* The body ends in its thread. *)
LEMMA StepFinish ==
  ASSUME IInv, NEW o \in Ops, Finish(o)
  PROVE  IInv'
<1>0. TypeOK /\ PendingCovers /\ PoolsQueued /\ DrainCovers
  BY DEF IInv
<1>1. o \in Active /\ phase[o] = "running"
  BY DEF Finish, Active
<1>2. Active' = Active
  BY <1>0, <1>1, ActiveKept DEF Finish
<1>3. \A x \in Ops : x # o => phase'[x] = phase[x]
  BY <1>0 DEF Finish, TypeOK
<1>4. PoolsQueued'
  BY <1>0, <1>1, <1>3 DEF Finish, PoolsQueued, Queued, Injective, TypeOK
<1>5. TypeOK'
  BY <1>0 DEF Finish, TypeOK, Phases, opVars, tailVars, closeVars
<1>6. Numbered' /\ SlotAccounting' /\ TailsExact' /\ WaitChain'
  <2>1. \A x \in Ops : /\ phase'[x] = "new" <=> phase[x] = "new"
                       /\ phase[x] = "waiting" => phase'[x] = "waiting"
    BY <1>0, <1>1 DEF Finish, TypeOK
  <2> QED
    BY <1>2, <2>1, StepWithin DEF Finish, opVars, tailVars
<1>7. PendingCovers' /\ DrainCovers'
  BY <1>0, <1>2 DEF Finish, PendingCovers, DrainCovers, ClosedIsDrained, opVars, closeVars
<1> QED
  BY <1>4, <1>5, <1>6, <1>7 DEF IInv

(***************************************************************************)
(* The task ends.  A tail it still holds may be emptied because no older   *)
(* operation of its class is unfinished: by WaitChain o would wait for it. *)
(***************************************************************************)
LEMMA StepSettle ==
  ASSUME IInv, NEW o \in Ops, Settle(o)
  PROVE  IInv'
<1>0. /\ TypeOK /\ Numbered /\ PendingCovers /\ PoolsQueued /\ SlotAccounting
      /\ TailsExact /\ WaitChain /\ DrainCovers
  BY DEF IInv
<1>1. o \in Active /\ phase[o] = "ran"
  BY DEF Settle, Active
<1>2. Active' = Active \ {o}
  BY <1>0, <1>1 DEF Settle, Active, TypeOK
<1>3. \A x \in Ops : x # o => phase'[x] = phase[x]
  BY <1>0 DEF Settle, TypeOK
<1>4. shape' = shape /\ preds' = preds /\ count' = count
  BY DEF Settle, opVars
<1>5. \A i \in Active : i < o => ~ Conflict(i, o)
  BY <1>0, <1>1 DEF WaitChain, Active
<1>6. admitted' = Cardinality(Active') /\ admitted' \in 0 .. Capacity
  <2>1. IsFiniteSet(Active) /\ Cardinality(Active) \in Nat /\ admitted = Cardinality(Active)
    BY <1>0, ActiveFinite, FS_CardinalityType DEF SlotAccounting
  <2>2. Cardinality(Active \ {o}) = Cardinality(Active) - 1
    BY <1>1, <2>1, FS_RemoveElement
  <2>3. Cardinality(Active') \in Nat
    BY <1>2, <2>1, FS_RemoveElement, FS_CardinalityType
  <2> QED
    BY <1>0, <1>2, <2>1, <2>2, <2>3, CapacityAssumption DEF Settle, SlotsAfter, TypeOK
<1>7. TypeOK'
  <2>1. keyTail' \in [Keys -> Ops \cup {None}]
    BY <1>0 DEF Settle, TailAfter, TypeOK
  <2>2. globalTail' \in Ops \cup {None}
    BY <1>0 DEF Settle, TailAfter, TypeOK
  <2> QED
    BY <1>0, <1>6, <2>1, <2>2 DEF Settle, TypeOK, Phases, opVars, closeVars
<1>8. Numbered'
  BY <1>0, <1>1, <1>3 DEF Settle, Numbered, TypeOK, opVars
<1>9. PoolsQueued'
  BY <1>0, <1>1, <1>3 DEF Settle, PoolsQueued, Queued, Injective, TypeOK
<1>10. TailsExact'
  <2>1. ASSUME NEW k \in Keys
        PROVE  IsNewest(keyTail[k], {x \in Active : k \in shape[x].keys})
    BY <1>0 DEF TailsExact
  <2>2. ASSUME NEW k \in Keys
        PROVE  IsNewest(keyTail'[k], {x \in Active' : k \in shape'[x].keys})
    <3> DEFINE S == {x \in Active : k \in shape[x].keys}
               T == {x \in Active' : k \in shape'[x].keys}
    <3>1. T = S \ {o}
      BY <1>2, <1>4
    <3>2. CASE k \notin shape[o].keys
      <4>1. T = S /\ keyTail'[k] = keyTail[k]
        BY <3>1, <3>2 DEF Settle
      <4> QED
        BY <2>1, <4>1
    <3>3. CASE k \in shape[o].keys /\ keyTail[k] # o
      <4>1. keyTail'[k] = keyTail[k] /\ o \in S
        BY <1>1, <3>3 DEF Settle, TailAfter
      <4> QED
        BY <2>1, <3>1, <3>3, <4>1 DEF IsNewest
    <3>4. CASE k \in shape[o].keys /\ keyTail[k] = o
      <4>1. keyTail'[k] = None
        BY <3>4 DEF Settle, TailAfter
      <4>2. \A x \in S : x <= o
        BY <1>1, <2>1, <3>4 DEF IsNewest
      <4>3. \A x \in S : x < o => Conflict(x, o)
        BY <1>0, <3>4 DEF Conflict, TypeOK, ShapeType
      <4>4. \A x \in S : x = o
        BY <1>5, <4>2, <4>3 DEF Active, Ops
      <4>5. T = {}
        BY <3>1, <4>4
      <4> QED
        BY <4>1, <4>5 DEF IsNewest
    <3> QED
      BY <3>2, <3>3, <3>4
  <2>3. IsNewest(globalTail', {x \in Active' : shape'[x].kind = "barrier"})
    <3> DEFINE S == {x \in Active : shape[x].kind = "barrier"}
               T == {x \in Active' : shape'[x].kind = "barrier"}
    <3>0. IsNewest(globalTail, S)
      BY <1>0 DEF TailsExact
    <3>1. T = S \ {o}
      BY <1>2, <1>4
    <3>2. CASE shape[o].kind # "barrier"
      <4>1. T = S /\ globalTail # o
        BY <1>1, <3>0, <3>1, <3>2 DEF IsNewest, None, Ops
      <4> QED
        BY <3>0, <4>1 DEF Settle, TailAfter
    <3>3. CASE shape[o].kind = "barrier" /\ globalTail # o
      <4>1. globalTail' = globalTail /\ o \in S
        BY <1>1, <3>3 DEF Settle, TailAfter
      <4> QED
        BY <3>0, <3>1, <3>3, <4>1 DEF IsNewest
    <3>4. CASE shape[o].kind = "barrier" /\ globalTail = o
      <4>1. \A x \in S : x <= o
        BY <1>1, <3>0, <3>4 DEF IsNewest
      <4>2. \A x \in S : x = o
        BY <1>5, <3>4, <4>1 DEF Active, Ops, Conflict
      <4> QED
        BY <3>1, <3>4, <4>2 DEF IsNewest, Settle, TailAfter
    <3> QED
      BY <3>2, <3>3, <3>4
  <2> QED
    BY <2>2, <2>3 DEF TailsExact, IsNewest
<1>11. WaitChain'
  <2> SUFFICES ASSUME NEW i \in Ops, NEW j \in Ops, i < j, i \in Active',
                      j \in Active', Conflict(i, j)'
               PROVE  phase'[j] = "waiting" /\ Between(i, j)'
    BY DEF WaitChain
  <2>1. i \in Active /\ j \in Active /\ i # o /\ j # o /\ Conflict(i, j)
    BY <1>2, <1>4 DEF Conflict
  <2>2. phase[j] = "waiting" /\ Between(i, j)
    BY <1>0, <2>1 DEF WaitChain
  <2>3. PICK p \in preds[j] : p \in Active /\ (p = i \/ (i < p /\ Conflict(i, p)))
    BY <2>2 DEF Between
  <2>4. p # o
    BY <1>5, <2>1, <2>3
  <2> QED
    BY <1>2, <1>3, <1>4, <2>1, <2>2, <2>3, <2>4 DEF Between, Conflict
<1>12. PendingCovers' /\ DrainCovers'
  BY <1>0, <1>2 DEF Settle, PendingCovers, DrainCovers, ClosedIsDrained, opVars, closeVars
<1> QED
  BY <1>6, <1>7, <1>8, <1>9, <1>10, <1>11, <1>12 DEF IInv, SlotAccounting

(* Steps that leave every task, tail and queue alone. *)
LEMMA StepAround ==
  ASSUME IInv, UNCHANGED <<count, shape, phase, preds, leg, failed, admitted,
                           keyTail, globalTail, readQ, writeQ>>,
         PendingCovers', DrainCovers', cancelled' \subseteq Ops,
         pending' \subseteq Ops, drain' \subseteq Ops,
         closer' \in {"open", "closing", "draining", "closed"}
  PROVE  IInv'
<1>1. Active' = Active
  BY DEF Active
<1>2. TypeOK'
  BY DEF IInv, TypeOK
<1>3. PoolsQueued'
  BY DEF IInv, PoolsQueued, Queued, Injective
<1>4. Numbered' /\ SlotAccounting' /\ TailsExact' /\ WaitChain'
  BY <1>1, StepWithin
<1> QED
  BY <1>2, <1>3, <1>4 DEF IInv

(* Cancellation and return: only a finished task leaves _pending. *)
LEMMA StepCaller ==
  ASSUME IInv, NEW o \in Ops, Cancel(o) \/ Return(o)
  PROVE  IInv'
<1>0. TypeOK /\ PendingCovers /\ DrainCovers
  BY DEF IInv
<1>1. Active' = Active
  BY DEF Cancel, Return, Active
<1>2. PendingCovers'
  BY <1>0, <1>1 DEF Cancel, Return, CallerMayLeave, Done, Active, PendingCovers, opVars
<1>3. DrainCovers'
  BY <1>0, <1>1 DEF Cancel, Return, DrainCovers, ClosedIsDrained, closeVars
<1> QED
  BY <1>0, <1>2, <1>3, StepAround
  DEF Cancel, Return, TypeOK, opVars, tailVars, closeVars

(* aclose gathers _pending, which covers every unfinished task. *)
LEMMA StepClose ==
  ASSUME IInv, Close \/ CloseGather \/ CloseShutdown
  PROVE  IInv'
<1>0. TypeOK /\ PendingCovers /\ DrainCovers
  BY DEF IInv
<1>1. Active' = Active
  BY DEF Close, CloseGather, CloseShutdown, Active
<1>2. PendingCovers'
  BY <1>0, <1>1 DEF Close, CloseGather, CloseShutdown, PendingCovers, opVars
<1>3. DrainCovers'
  BY <1>0, <1>1
  DEF Close, CloseGather, CloseShutdown, DrainCovers, ClosedIsDrained,
      PendingCovers, Done, Active
<1> QED
  BY <1>0, <1>2, <1>3, StepAround
  DEF Close, CloseGather, CloseShutdown, TypeOK, opVars, tailVars

(* Stuttering. *)
LEMMA StutterIInv == IInv /\ UNCHANGED vars => IInv'
<1> SUFFICES ASSUME IInv, UNCHANGED vars PROVE IInv'
  OBVIOUS
<1>1. PendingCovers' /\ DrainCovers'
  BY DEF vars, IInv, PendingCovers, DrainCovers, ClosedIsDrained, Active
<1> QED
  BY <1>1, StepAround DEF vars, IInv, TypeOK

(* Every step preserves the invariant. *)
LEMMA NextIInv == IInv /\ [Next]_vars => IInv'
<1> SUFFICES ASSUME IInv, [Next]_vars PROVE IInv'
  OBVIOUS
<1>1. CASE \E s \in Shapes : Submit(s)
  BY <1>1, StepSubmit
<1>2. CASE \E o \in Ops : OpStep(o)
  BY <1>2, StepStart, StepFinish, StepSecondLeg, StepSettle, StepCaller DEF OpStep
<1>3. CASE TakeRead
  BY <1>3, StepTakeRead
<1>4. CASE TakeWrite
  BY <1>4, StepTakeWrite
<1>5. CASE Close \/ CloseGather \/ CloseShutdown
  BY <1>5, StepClose
<1>6. CASE UNCHANGED vars
  BY <1>6, StutterIInv
<1> QED
  BY <1>1, <1>2, <1>3, <1>4, <1>5, <1>6 DEF Next

(* The inductive invariant holds in every reachable state. *)
THEOREM Invariance == Spec => []IInv
<1> QED
  BY InitIInv, NextIInv, PTL DEF Spec

(* Type correctness of the scheduler's state (SessionState.__init__). *)
THEOREM TypeCorrect == Spec => []TypeOK
<1>1. IInv => TypeOK
  BY DEF IInv
<1> QED
  BY <1>1, Invariance, PTL

(***************************************************************************)
(* FIFO key affinity and barrier separation (_submit): for any number of   *)
(* keys, operations, failures and cancelled callers, no operation leaves   *)
(* its wait while an earlier one it conflicts with is unfinished.          *)
(***************************************************************************)
THEOREM Ordered == Spec => []AdmissionOrder
<1>1. IInv => AdmissionOrder
  BY DEF IInv, WaitChain, AdmissionOrder
<1> QED
  BY <1>1, Invariance, PTL

(* _admitted is the number of unfinished tasks, whatever was admitted. *)
THEOREM SlotsCounted == Spec => []SlotAccounting
<1>1. IInv => SlotAccounting
  BY DEF IInv
<1> QED
  BY <1>1, Invariance, PTL

(* The tails name the newest unfinished task of their class, or nothing. *)
THEOREM TailsNewest == Spec => []TailsExact
<1>1. IInv => TailsExact
  BY DEF IInv
<1> QED
  BY <1>1, Invariance, PTL

(* aclose never shuts the executors down under an unfinished operation. *)
THEOREM DrainedWhenClosed == Spec => []ClosedIsDrained
<1>1. IInv => ClosedIsDrained
  BY DEF IInv, DrainCovers
<1> QED
  BY <1>1, Invariance, PTL

-----------------------------------------------------------------------------
(***************************************************************************)
(* Progress: waits lead to older operations only, and a queued operation   *)
(* is in the queue of its executor.                                        *)
(***************************************************************************)
WaitsForOlder == \A o \in Ops : \A p \in preds[o] : p < o

In(o, q) == \E x \in 1 .. Len(q) : q[x] = o

QueuedIsInPool ==
  \A o \in Ops : phase[o] = "queued" => In(o, readQ) \/ In(o, writeQ)

Unstuck == WaitsForOlder /\ QueuedIsInPool

(* What a queue still holds when its oldest job is taken or one is added. *)
LEMMA InTail ==
  ASSUME NEW q \in Seq(Ops), q # <<>>, NEW o, In(o, q), o # Head(q)
  PROVE  In(o, Tail(q))
<1>1. PICK x \in 1 .. Len(q) : q[x] = o
  BY DEF In
<1>2. Len(q) \in Nat /\ Len(Tail(q)) = Len(q) - 1 /\ x # 1
  BY <1>1
<1>3. x - 1 \in 1 .. Len(Tail(q)) /\ Tail(q)[x - 1] = q[x]
  BY <1>2
<1> QED
  BY <1>1, <1>3 DEF In

LEMMA InAppend ==
  ASSUME NEW q \in Seq(Ops), NEW n \in Ops
  PROVE  In(n, Append(q, n)) /\ \A o : In(o, q) => In(o, Append(q, n))
<1>1. /\ Len(q) \in Nat /\ Len(Append(q, n)) = Len(q) + 1
      /\ Append(q, n)[Len(q) + 1] = n
      /\ \A x \in 1 .. Len(q) : Append(q, n)[x] = q[x]
  BY AppendProperties
<1>2. \A x \in 1 .. Len(q) : x \in 1 .. Len(Append(q, n))
  BY <1>1
<1>3. Len(q) + 1 \in 1 .. Len(Append(q, n))
  BY <1>1
<1> QED
  BY <1>1, <1>2, <1>3 DEF In

(* A new operation awaits only what was admitted before it. *)
LEMMA SubmitUnstuck ==
  ASSUME IInv, Unstuck, NEW s \in Shapes, Submit(s)
  PROVE  Unstuck'
<1> DEFINE n == count + 1
<1> USE BoundsAssumption
<1>0. TypeOK /\ Numbered /\ PendingCovers /\ TailsExact
  BY DEF IInv
<1>1. n \in Ops /\ count \in 0 .. MaxOps /\ s \in ShapeType
  BY <1>0, ShapesAssumption DEF TypeOK, Submit
<1>2. \A p \in Active : p < n
  BY <1>0, <1>1 DEF Active, Numbered, Ops
<1>3. \A k \in Keys : keyTail[k] = None \/ keyTail[k] \in Active
  BY <1>0 DEF TailsExact, IsNewest
<1>4. globalTail = None \/ globalTail \in Active
  BY <1>0 DEF TailsExact, IsNewest
<1>5. s.keys \subseteq Keys /\ s.kind \in Kinds
  BY <1>1 DEF ShapeType
<1>6. \A p \in Predecessors(s) : p < n
  <2>1. CASE s.kind = "barrier"
    BY <1>0, <1>1, <2>1 DEF Predecessors, PendingCovers, TypeOK, Ops
  <2>2. CASE s.kind = "query"
    BY <2>2 DEF Predecessors
  <2>3. CASE s.kind = "keyed"
    BY <1>2, <1>3, <1>4, <1>5, <2>3 DEF Predecessors
  <2> QED
    BY <1>5, <2>1, <2>2, <2>3 DEF Kinds
<1>7. /\ preds' = [preds EXCEPT ![n] = Predecessors(s)]
      /\ phase' = [phase EXCEPT ![n] = "waiting"]
      /\ readQ' = readQ /\ writeQ' = writeQ
  BY DEF Submit
<1> HIDE DEF n
<1>8. WaitsForOlder'
  BY <1>0, <1>1, <1>6, <1>7 DEF Unstuck, WaitsForOlder, TypeOK
<1>9. QueuedIsInPool'
  BY <1>0, <1>1, <1>7 DEF Unstuck, QueuedIsInPool, TypeOK, In
<1> QED
  BY <1>8, <1>9 DEF Unstuck

(* An operation that becomes queued is put on a queue. *)
LEMMA PutUnstuck ==
  ASSUME IInv, Unstuck, NEW o \in Ops, NEW which,
         phase' = [phase EXCEPT ![o] = "queued"], preds' = preds,
         PutOnQueue(o, which)
  PROVE  Unstuck'
<1>0. phase \in [Ops -> Phases] /\ readQ \in Seq(Ops) /\ writeQ \in Seq(Ops)
  BY DEF IInv, TypeOK
<1>1. \A x \in Ops : x # o => phase'[x] = phase[x]
  BY <1>0
<1>2. In(o, readQ') \/ In(o, writeQ')
  BY <1>0, InAppend DEF PutOnQueue
<1>3. \A x : In(x, readQ) => In(x, readQ')
  BY <1>0, InAppend DEF PutOnQueue
<1>4. \A x : In(x, writeQ) => In(x, writeQ')
  BY <1>0, InAppend DEF PutOnQueue
<1>5. QueuedIsInPool'
  <2> SUFFICES ASSUME NEW x \in Ops, phase'[x] = "queued"
               PROVE  In(x, readQ') \/ In(x, writeQ')
    BY DEF QueuedIsInPool, In
  <2> QED
    BY <1>1, <1>2, <1>3, <1>4 DEF Unstuck, QueuedIsInPool
<1>6. WaitsForOlder'
  BY DEF Unstuck, WaitsForOlder
<1> QED
  BY <1>5, <1>6 DEF Unstuck

(* A thread takes the oldest job, which then runs. *)
LEMMA TakeUnstuck ==
  ASSUME IInv, Unstuck, TakeRead \/ TakeWrite
  PROVE  Unstuck'
<1>0. phase \in [Ops -> Phases] /\ readQ \in Seq(Ops) /\ writeQ \in Seq(Ops)
  BY DEF IInv, TypeOK
<1>1. WaitsForOlder'
  BY DEF Unstuck, WaitsForOlder, TakeRead, TakeWrite, opVars
<1> SUFFICES ASSUME NEW x \in Ops, phase'[x] = "queued"
             PROVE  In(x, readQ') \/ In(x, writeQ')
  BY <1>1 DEF Unstuck, QueuedIsInPool, In
<1>2. CASE TakeRead
  <2>1. phase' = [phase EXCEPT ![Head(readQ)] = "running"] /\ readQ # <<>>
        /\ readQ' = Tail(readQ) /\ writeQ' = writeQ
    BY <1>2 DEF TakeRead
  <2>2. x # Head(readQ) /\ phase[x] = "queued"
    BY <1>0, <2>1
  <2>3. In(x, readQ) \/ In(x, writeQ)
    BY <2>2 DEF Unstuck, QueuedIsInPool
  <2> QED
    BY <1>0, <2>1, <2>2, <2>3, InTail
<1>3. CASE TakeWrite
  <2>1. phase' = [phase EXCEPT ![Head(writeQ)] = "running"] /\ writeQ # <<>>
        /\ writeQ' = Tail(writeQ) /\ readQ' = readQ
    BY <1>3 DEF TakeWrite
  <2>2. x # Head(writeQ) /\ phase[x] = "queued"
    BY <1>0, <2>1
  <2>3. In(x, readQ) \/ In(x, writeQ)
    BY <2>2 DEF Unstuck, QueuedIsInPool
  <2> QED
    BY <1>0, <2>1, <2>2, <2>3, InTail
<1> QED
  BY <1>2, <1>3

(* The steps that queue nothing and take nothing. *)
LEMMA QuietUnstuck ==
  ASSUME IInv, Unstuck, preds' = preds, readQ' = readQ, writeQ' = writeQ,
         \A o \in Ops : phase'[o] = "queued" => phase[o] = "queued"
  PROVE  Unstuck'
BY DEF Unstuck, WaitsForOlder, QueuedIsInPool, In

LEMMA OpUnstuck ==
  ASSUME IInv, Unstuck, NEW o \in Ops, OpStep(o)
  PROVE  Unstuck'
<1>0. phase \in [Ops -> Phases]
  BY DEF IInv, TypeOK
<1>1. CASE Start(o)
  BY <1>1, PutUnstuck DEF Start, opVars
<1>2. CASE SecondLeg(o)
  BY <1>2, PutUnstuck DEF SecondLeg, opVars
<1>3. CASE Finish(o)
  BY <1>0, <1>3, QuietUnstuck DEF Finish, opVars
<1>4. CASE Settle(o)
  BY <1>0, <1>4, QuietUnstuck DEF Settle, opVars
<1>5. CASE Return(o)
  BY <1>5, QuietUnstuck DEF Return, opVars
<1>6. CASE Cancel(o)
  BY <1>6, QuietUnstuck DEF Cancel, opVars
<1> QED
  BY <1>1, <1>2, <1>3, <1>4, <1>5, <1>6 DEF OpStep

LEMMA NextUnstuck == IInv /\ Unstuck /\ [Next]_vars => Unstuck'
<1> SUFFICES ASSUME IInv, Unstuck, [Next]_vars PROVE Unstuck'
  OBVIOUS
<1>1. CASE \E s \in Shapes : Submit(s)
  BY <1>1, SubmitUnstuck
<1>2. CASE \E o \in Ops : OpStep(o)
  BY <1>2, OpUnstuck
<1>3. CASE TakeRead \/ TakeWrite
  BY <1>3, TakeUnstuck
<1>4. CASE Close \/ CloseGather \/ CloseShutdown
  BY <1>4, QuietUnstuck DEF Close, CloseGather, CloseShutdown, opVars
<1>5. CASE UNCHANGED vars
  BY <1>5, QuietUnstuck DEF vars
<1> QED
  BY <1>1, <1>2, <1>3, <1>4, <1>5 DEF Next

(* A set of operations has an oldest.                                      *)
LEMMA OldestExists ==
  ASSUME NEW T \in SUBSET Nat, T # {}
  PROVE  \E o \in T : \A p \in T : o <= p
<1>1. PICK o \in T : \A p \in T : ~ (<<p, o>> \in OpToRel(<, Nat))
  BY WFMin, NatLessThanWellFounded
<1>2. \A p \in T : ~(p < o)
  BY <1>1 DEF OpToRel
<1> QED
  BY <1>2

(* Somebody can go on: the oldest unfinished operation waits for nothing,  *)
(* or a thread is free for the oldest job of a queue, or is at work.       *)
LEMMA SomebodyGoes ==
  ASSUME IInv, Unstuck
  PROVE  NoStall
<1> SUFFICES ASSUME Active # {},
                    \A o \in Active : phase[o] \notin {"running", "ran"}
             PROVE  \/ \E o \in Active :
                         phase[o] = "waiting" /\ \A p \in preds[o] : Done(p)
                    \/ readQ # <<>> /\ Busy("read") < Readers
                    \/ writeQ # <<>> /\ Busy("write") = 0
  BY DEF NoStall
<1>0. TypeOK /\ Numbered
  BY DEF IInv
<1> DEFINE T == Active
<1>9. T \in SUBSET Nat /\ T # {}
  BY BoundsAssumption DEF Active, Ops
<1> HIDE DEF T
<1>10. \E o \in T : \A p \in T : o <= p
  BY <1>9, OldestExists
<1>1. PICK o \in Active : \A p \in Active : o <= p
  BY <1>10 DEF T
<1>2. o \in Ops /\ phase[o] \in {"waiting", "queued"}
  BY <1>0, <1>1 DEF Active, TypeOK, Phases
<1>3. \A w : {x \in Ops : phase[x] = "running" /\ leg[x] = w} = {}
  BY DEF Active
<1>4. \A w : Busy(w) = 0
  BY <1>3, FS_EmptySet DEF Busy
<1>5. CASE phase[o] = "waiting"
  <2>1. \A p \in preds[o] : p \in Ops /\ p < o /\ p \notin Active
    BY <1>0, <1>1, <1>2 DEF Unstuck, WaitsForOlder, TypeOK, Ops
  <2>2. o <= count
    BY <1>0, <1>2, <1>5, BoundsAssumption DEF Numbered, TypeOK, Ops
  <2>3. \A p \in preds[o] : phase[p] # "new"
    BY <1>0, <1>2, <2>1, <2>2, BoundsAssumption DEF Numbered, TypeOK, Ops
  <2>4. \A p \in preds[o] : Done(p)
    BY <2>1, <2>3 DEF Active, Done
  <2> QED
    BY <1>1, <1>5, <2>4
<1>6. CASE phase[o] = "queued"
  <2>1. In(o, readQ) \/ In(o, writeQ)
    BY <1>2, <1>6 DEF Unstuck, QueuedIsInPool
  <2>2. readQ # <<>> \/ writeQ # <<>>
    BY <2>1 DEF In
  <2> QED
    BY <1>4, <2>2, ReadersAssumption
<1> QED
  BY <1>2, <1>5, <1>6

(***************************************************************************)
(* No operation ever waits in a circle (_submit): whatever is admitted,    *)
(* fails or is cancelled, an unfinished operation means that one can take  *)
(* its next step.                                                          *)
(***************************************************************************)
THEOREM NoCircularWait == Spec => []NoStall
<1>1. Init => Unstuck
  BY DEF Init, Unstuck, WaitsForOlder, QueuedIsInPool
<1>2. IInv /\ IInv' /\ Unstuck /\ [Next]_vars => Unstuck'
  BY NextUnstuck
<1>3. IInv /\ Unstuck => NoStall
  BY SomebodyGoes
<1> QED
  BY <1>1, <1>2, <1>3, Invariance, PTL DEF Spec

-----------------------------------------------------------------------------
(***************************************************************************)
(* Refinement: every step of the scheduler is a step of the lines.         *)
(***************************************************************************)
QLine == [k \in Keys |-> {o \in Active : Orders(o, k)}]
QRunning == {o \in Active : phase[o] # "waiting" /\ shape[o].kind # "query"}

(* The lines and the running set do not see a step inside a task. *)
LEMMA HiddenStep ==
  ASSUME IInv, UNCHANGED <<count, shape>>, Active' = Active,
         \A o \in Ops : phase'[o] = "waiting" <=> phase[o] = "waiting"
  PROVE  UNCHANGED <<count, QLine, QRunning>>
<1>1. QLine' = QLine
  BY DEF QLine, Orders
<1>2. QRunning' = QRunning
  BY DEF QRunning, Active
<1> QED
  BY <1>1, <1>2

(* Submit draws the next number and joins the lines of its keys. *)
LEMMA SubmitEnqueues ==
  ASSUME IInv, NEW s \in Shapes, Submit(s)
  PROVE  \E o \in Ops, S \in SUBSET Keys :
           /\ o > count /\ count' = o
           /\ QLine' = [k \in Keys |-> IF k \in S THEN QLine[k] \cup {o} ELSE QLine[k]]
           /\ QRunning' = QRunning
<1> DEFINE o == count + 1
           S == IF s.kind = "barrier" THEN Keys ELSE s.keys
<1>1. /\ o \in Ops /\ o > count /\ phase[o] = "new" /\ o \notin Active
  BY DEF Submit, IInv, TypeOK, Numbered, Ops, Active
<1>2. s \in ShapeType /\ S \in SUBSET Keys
  BY ShapesAssumption DEF ShapeType
<1>3. Active' = Active \cup {o} /\ phase'[o] = "waiting" /\ shape'[o] = s
  BY <1>1 DEF IInv, Submit, Active, TypeOK
<1>4. \A x \in Active : shape'[x] = shape[x] /\ phase'[x] = phase[x]
  BY <1>1 DEF IInv, Submit, Active, TypeOK
<1>5. ASSUME NEW k \in Keys
      PROVE  {x \in Active' : Orders(x, k)'}
               = IF k \in S THEN {x \in Active : Orders(x, k)} \cup {o}
                            ELSE {x \in Active : Orders(x, k)}
  BY <1>1, <1>2, <1>3, <1>4 DEF Orders
<1>6. QLine' = [k \in Keys |-> IF k \in S THEN QLine[k] \cup {o} ELSE QLine[k]]
  BY <1>5 DEF QLine
<1>7. QRunning' = QRunning
  BY <1>1, <1>3, <1>4 DEF QRunning
<1> QED
  BY <1>1, <1>2, <1>6, <1>7 DEF Submit

(* Start is Begin: by WaitChain nothing before o is left in its lines. *)
LEMMA StartBegins ==
  ASSUME IInv, NEW o \in Ops, Start(o), shape[o].kind # "query"
  PROVE  /\ o \notin QRunning
         /\ {k \in Keys : o \in QLine[k]} # {}
         /\ \A k \in {x \in Keys : o \in QLine[x]} : \A x \in QLine[k] : o <= x
         /\ QRunning' = QRunning \cup {o}
         /\ UNCHANGED <<count, QLine>>
<1>1. o \in Active /\ phase[o] = "waiting" /\ \A p \in preds[o] : p \notin Active
  BY DEF Start, Active, Done
<1>2. Active' = Active
  BY <1>1, ActiveKept DEF Start, IInv
<1>3. o \notin QRunning
  BY <1>1 DEF QRunning
<1>4. shape[o] \in ShapeType
  BY DEF IInv, TypeOK
<1>5. {k \in Keys : o \in QLine[k]} # {}
  BY <1>1, <1>4, KeysAssumption DEF QLine, Orders, ShapeType, Kinds
<1>6. ASSUME NEW k \in Keys, o \in QLine[k], NEW x \in QLine[k]
      PROVE  o <= x
  <2>1. x \in Active /\ Orders(x, k) /\ Orders(o, k) /\ x \in Ops
    BY <1>6 DEF QLine, Active
  <2>2. Conflict(x, o)
    BY <2>1, <1>4 DEF Orders, Conflict, ShapeType, Kinds
  <2>3. ~ (x < o)
    BY <1>1, <2>1, <2>2 DEF IInv, WaitChain, Between
  <2> QED
    BY <2>1, <2>3 DEF Ops
<1>7. QRunning' = QRunning \cup {o}
  BY <1>1, <1>2 DEF QRunning, Start, IInv, TypeOK, opVars
<1>8. UNCHANGED <<count, QLine>>
  BY <1>2 DEF QLine, Orders, Start, opVars
<1> QED
  BY <1>3, <1>5, <1>6, <1>7, <1>8

(* Settle leaves every line; a query stood in none. *)
LEMMA SettleEnds ==
  ASSUME IInv, NEW o \in Ops, Settle(o)
  PROVE  /\ shape[o].kind # "query" => o \in QRunning
         /\ shape[o].kind = "query" => UNCHANGED <<QLine, QRunning>>
         /\ QRunning' = QRunning \ {o}
         /\ QLine' = [k \in Keys |-> QLine[k] \ {o}]
         /\ UNCHANGED count
<1>1. o \in Active /\ phase[o] = "ran" /\ UNCHANGED <<count, shape>>
  BY DEF Settle, Active, opVars
<1>2. Active' = Active \ {o} /\ \A x \in Active' : phase'[x] = phase[x]
  BY <1>1 DEF Settle, Active, IInv, TypeOK
<1>3. shape[o].kind # "query" => o \in QRunning
  BY <1>1 DEF QRunning
<1>4. QRunning' = QRunning \ {o}
  BY <1>1, <1>2 DEF QRunning
<1>5. QLine' = [k \in Keys |-> QLine[k] \ {o}]
  BY <1>1, <1>2 DEF QLine, Orders
<1>6. shape[o].kind = "query" => UNCHANGED <<QLine, QRunning>>
  <2> SUFFICES ASSUME shape[o].kind = "query" PROVE UNCHANGED <<QLine, QRunning>>
    OBVIOUS
  <2>1. shape[o].keys = {}
    BY DEF IInv, TypeOK, ShapeType
  <2>2. \A k \in Keys : ~ Orders(o, k)
    BY <2>1 DEF Orders
  <2>3. QLine' = QLine
    BY <1>1, <1>2, <2>2 DEF QLine, Orders
  <2>4. QRunning' = QRunning
    BY <1>4 DEF QRunning
  <2> QED
    BY <2>3, <2>4
<1> QED
  BY <1>1, <1>3, <1>4, <1>5, <1>6

(* Every step maps to a step of the lines or to a stutter. *)
LEMMA StepRefines ==
  ASSUME IInv, [Next]_vars
  PROVE  [Queues!Next]_(Queues!vars)
<1> USE DEF Queues!vars, Queues!Next, Queues!Enqueue, Queues!Begin, Queues!End,
            Queues!Lines, Queues!First
<1>1. ASSUME NEW s \in Shapes, Submit(s) PROVE Queues!Next
  BY <1>1, SubmitEnqueues DEF QLine, QRunning
<1>2. ASSUME NEW o \in Ops, Start(o), shape[o].kind # "query" PROVE Queues!Next
  BY <1>2, StartBegins DEF QLine, QRunning
<1>3. ASSUME NEW o \in Ops, Settle(o), shape[o].kind # "query" PROVE Queues!Next
  BY <1>3, SettleEnds DEF QLine, QRunning
<1>4. ASSUME UNCHANGED <<count, QLine, QRunning>> PROVE UNCHANGED Queues!vars
  BY <1>4 DEF QLine, QRunning
<1>5. ASSUME NEW o \in Ops, Start(o), shape[o].kind = "query"
      PROVE  UNCHANGED <<count, QLine, QRunning>>
  <2>1. Active' = Active
    BY <1>5, ActiveKept DEF Start, Active, IInv
  <2> QED
    BY <1>5, <2>1 DEF Start, opVars, QLine, QRunning, Orders, IInv, TypeOK
<1>6. ASSUME NEW o \in Ops, Settle(o), shape[o].kind = "query"
      PROVE  UNCHANGED <<count, QLine, QRunning>>
  BY <1>6, SettleEnds
<1>7. ASSUME NEW o \in Ops, SecondLeg(o) \/ Finish(o)
      PROVE  UNCHANGED <<count, QLine, QRunning>>
  <2>1. Active' = Active
    BY <1>7, ActiveKept DEF SecondLeg, Finish, Active, IInv
  <2>2. \A x \in Ops : phase'[x] = "waiting" <=> phase[x] = "waiting"
    BY <1>7 DEF SecondLeg, Finish, IInv, TypeOK
  <2> QED
    BY <1>7, <2>1, <2>2, HiddenStep DEF SecondLeg, Finish, opVars
<1>8. ASSUME TakeRead \/ TakeWrite
      PROVE  UNCHANGED <<count, QLine, QRunning>>
  <2>1. PICK o \in Ops : phase[o] = "queued" /\ phase' = [phase EXCEPT ![o] = "running"]
    BY <1>8 DEF TakeRead, TakeWrite, IInv, TypeOK, PoolsQueued, Queued
  <2>2. Active' = Active
    BY <2>1, ActiveKept DEF Active, IInv
  <2>3. \A x \in Ops : phase'[x] = "waiting" <=> phase[x] = "waiting"
    BY <2>1 DEF IInv, TypeOK
  <2> QED
    BY <1>8, <2>2, <2>3, HiddenStep DEF TakeRead, TakeWrite, opVars
<1>9. ASSUME \/ \E o \in Ops : Cancel(o) \/ Return(o)
             \/ Close \/ CloseGather \/ CloseShutdown
             \/ UNCHANGED vars
      PROVE  UNCHANGED <<count, QLine, QRunning>>
  <2>1. UNCHANGED <<count, shape, phase>>
    BY <1>9 DEF Cancel, Return, Close, CloseGather, CloseShutdown, opVars, vars
  <2> QED
    BY <2>1, HiddenStep DEF Active
<1>10. CASE \E s \in Shapes : Submit(s)
  BY <1>1, <1>10
<1>11. CASE \E o \in Ops : Start(o) \/ Settle(o)
  BY <1>2, <1>3, <1>4, <1>5, <1>6, <1>11
<1>12. CASE TakeRead \/ TakeWrite \/ \E o \in Ops : SecondLeg(o) \/ Finish(o)
  BY <1>4, <1>7, <1>8, <1>12
<1>13. CASE \/ \E o \in Ops : Cancel(o) \/ Return(o)
            \/ Close \/ CloseGather \/ CloseShutdown
            \/ UNCHANGED vars
  BY <1>4, <1>9, <1>13
<1> HIDE DEF Queues!Next, Queues!vars
<1> QED
  BY <1>10, <1>11, <1>12, <1>13 DEF Next, OpStep

(***************************************************************************)
(* SessionState (_submit) implements one line per key for every set of     *)
(* keys and every mix of operations: per-session serial order and global   *)
(* barriers, as the class promises its callers.                            *)
(***************************************************************************)
THEOREM RefinesQueues == Spec => Queues!Spec
<1>1. Init => Queues!Init
  BY DEF Init, Queues!Init, Active
<1>2. IInv /\ [Next]_vars => [Queues!Next]_(Queues!vars)
  BY StepRefines
<1> QED
  BY <1>1, <1>2, Invariance, PTL DEF Spec, Queues!Spec
=============================================================================
