----------------------------- MODULE SessionOps -----------------------------
(***************************************************************************)
(* The operation scheduler of SessionState (nanobot/session/state.py).     *)
(*                                                                         *)
(* Every session mutation or ordered read is a task admitted by _submit.   *)
(* A keyed operation follows the last admitted operation of each of its    *)
(* keys and the last barrier; a barrier follows every operation that is    *)
(* still pending; an unordered query follows nothing.  The body of an      *)
(* operation runs on one writer thread or on a pool of reader threads.     *)
(* Callers may be cancelled, and aclose drains what was admitted.          *)
(*                                                                         *)
(* Operations are numbered in the order of admission.  Session contents    *)
(* are the subject of SessionDraft.                                        *)
(***************************************************************************)
EXTENDS Integers, Sequences, FiniteSets

CONSTANTS Keys,      \* session keys
          Shapes,    \* the operations callers may submit
          Capacity,  \* bound on admitted operations
          Readers,   \* number of reader threads
          MaxOps,    \* bound: operations admitted in one behaviour
          MaxFaults  \* bound: operations that raise and callers cancelled

Ops == 1 .. MaxOps
None == 0

Kinds == {"keyed", "barrier", "query"}
Plans == {"read", "write", "read_write"}
ShapeType == {s \in [kind : Kinds, keys : SUBSET Keys, plan : Plans] :
                s.kind = "keyed" <=> s.keys # {}}

ASSUME KeysAssumption == Keys # {}
ASSUME CapacityAssumption == Capacity \in Nat \ {0}
ASSUME ReadersAssumption == Readers \in Nat \ {0}
ASSUME BoundsAssumption ==
  MaxOps \in Nat /\ MaxFaults \in Nat
ASSUME ShapesAssumption == Shapes \subseteq ShapeType

VARIABLES
  count,       \* number of operations admitted so far
  shape,       \* shape[o]: what operation o was submitted as
  phase,       \* phase[o]: how far operation o has come
  preds,       \* preds[o]: the tasks o awaits before it runs
  leg,         \* leg[o]: the executor the current body of o belongs to
  failed,      \* operations whose body raised
  cancelled,   \* operations whose caller was cancelled while it waited
  admitted,    \* _admitted
  keyTail,     \* _key_tails, None where a key has no entry
  globalTail,  \* _global_tail
  pending,     \* _pending
  readQ,       \* work queue of the reader pool
  writeQ,      \* work queue of the writer thread
  closer,      \* the progress of aclose
  drain        \* the pending tasks aclose gathers

opVars == <<count, shape, preds>>
tailVars == <<admitted, keyTail, globalTail>>
closeVars == <<closer, drain>>
vars == <<count, shape, phase, preds, leg, failed, cancelled, admitted,
          keyTail, globalTail, pending, readQ, writeQ, closer, drain>>

Phases == {"new", "waiting", "queued", "running", "ran", "settled"}
Active == {o \in Ops : phase[o] \notin {"new", "settled"}}
Done(o) == phase[o] = "settled"

FirstLeg(plan) == IF plan = "write" THEN "write" ELSE "read"

Init ==
  /\ count = 0
  /\ shape = [o \in Ops |-> [kind |-> "query", keys |-> {}, plan |-> "read"]]
  /\ phase = [o \in Ops |-> "new"]
  /\ preds = [o \in Ops |-> {}]
  /\ leg = [o \in Ops |-> "read"]
  /\ failed = {}
  /\ cancelled = {}
  /\ admitted = 0
  /\ keyTail = [k \in Keys |-> None]
  /\ globalTail = None
  /\ pending = {}
  /\ readQ = <<>>
  /\ writeQ = <<>>
  /\ closer = "open"
  /\ drain = {}

(* mutant: tails updated before they are read *)
PredecessorsOfItself(s) ==
  CASE s.kind = "barrier" -> pending
    [] s.kind = "query"   -> {}
    [] s.kind = "keyed"   -> {count + 1}

(* mutant: a barrier that waits for the tails instead of all that is pending *)
PredecessorsOfTails(s) ==
  IF s.kind = "query" THEN {}
  ELSE ({keyTail[k] : k \in s.keys} \cup {globalTail}) \ {None}

(* The predecessors _submit computes before it creates the task. *)
Predecessors(s) ==
  CASE s.kind = "barrier" -> pending
    [] s.kind = "query"   -> {}
    [] s.kind = "keyed"   ->
         ({keyTail[k] : k \in s.keys} \cup {globalTail}) \ {None}

HasRoom == admitted < Capacity

(***************************************************************************)
(* _submit up to its first await: one uninterrupted step of the event      *)
(* loop.  A full or closed owner raises and changes nothing.               *)
(***************************************************************************)
Submit(s) ==
  LET o == count + 1 IN
  /\ o \in Ops
  /\ closer = "open"
  /\ HasRoom
  /\ count' = o
  /\ shape' = [shape EXCEPT ![o] = s]
  /\ preds' = [preds EXCEPT ![o] = Predecessors(s)]
  /\ phase' = [phase EXCEPT ![o] = "waiting"]
  /\ leg' = [leg EXCEPT ![o] = FirstLeg(s.plan)]
  /\ admitted' = admitted + 1
  /\ keyTail' = [k \in Keys |-> IF k \in s.keys THEN o ELSE keyTail[k]]
  /\ globalTail' = IF s.kind = "barrier" THEN o ELSE globalTail
  /\ pending' = pending \cup {o}
  /\ UNCHANGED <<failed, cancelled, readQ, writeQ, closeVars>>

PutOnQueue(o, which) ==
  IF which = "write"
    THEN writeQ' = Append(writeQ, o) /\ UNCHANGED readQ
    ELSE readQ' = Append(readQ, o) /\ UNCHANGED writeQ

(***************************************************************************)
(* The gathered predecessors are done, whatever their outcome: the body    *)
(* goes to its executor.                                                   *)
(***************************************************************************)
Start(o) ==
  /\ phase[o] = "waiting"
  /\ \A p \in preds[o] : Done(p)
  /\ phase' = [phase EXCEPT ![o] = "queued"]
  /\ PutOnQueue(o, leg[o])
  /\ UNCHANGED <<opVars, leg, failed, cancelled, tailVars, pending, closeVars>>

Busy(which) == Cardinality({o \in Ops : phase[o] = "running" /\ leg[o] = which})

(* A reader thread, or the only writer thread, takes the oldest job. *)
TakeRead ==
  /\ readQ # <<>>
  /\ Busy("read") < Readers
  /\ phase' = [phase EXCEPT ![Head(readQ)] = "running"]
  /\ readQ' = Tail(readQ)
  /\ UNCHANGED <<opVars, leg, failed, cancelled, tailVars, pending, writeQ,
                 closeVars>>

TakeWrite ==
  /\ writeQ # <<>>
  /\ Busy("write") = 0
  /\ phase' = [phase EXCEPT ![Head(writeQ)] = "running"]
  /\ writeQ' = Tail(writeQ)
  /\ UNCHANGED <<opVars, leg, failed, cancelled, tailVars, pending, readQ,
                 closeVars>>

FaultsLeft == Cardinality(failed) + Cardinality(cancelled) < MaxFaults

(* The body returns or raises in its thread; the task has not resumed yet. *)
Finish(o) ==
  /\ phase[o] = "running"
  /\ phase' = [phase EXCEPT ![o] = "ran"]
  /\ \/ UNCHANGED failed
     \/ FaultsLeft /\ failed' = failed \cup {o}
  /\ UNCHANGED <<opVars, leg, cancelled, tailVars, pending, readQ, writeQ,
                 closeVars>>

(***************************************************************************)
(* get and ensure_session_handles: when the read found nothing (or names   *)
(* to allocate) the same task goes on with a write, in the same slot.      *)
(***************************************************************************)
SecondLeg(o) ==
  /\ phase[o] = "ran"
  /\ o \notin failed
  /\ shape[o].plan = "read_write"
  /\ leg[o] = "read"
  /\ phase' = [phase EXCEPT ![o] = "queued"]
  /\ leg' = [leg EXCEPT ![o] = "write"]
  /\ PutOnQueue(o, "write")
  /\ UNCHANGED <<opVars, failed, cancelled, tailVars, pending, closeVars>>

(* mutant: no finally around the slot *)
SlotsAfterSuccess(o) == IF o \in failed THEN admitted ELSE admitted - 1

SlotsAfter(o) == admitted - 1
TailAfter(t, o) == IF t = o THEN None ELSE t

(***************************************************************************)
(* The task ends: its finally clause gives back the slot and takes the     *)
(* task out of the tails it still holds.                                   *)
(***************************************************************************)
Settle(o) ==
  /\ phase[o] = "ran"
  /\ phase' = [phase EXCEPT ![o] = "settled"]
  /\ admitted' = SlotsAfter(o)
  /\ keyTail' = [k \in Keys |-> IF k \in shape[o].keys
                                   THEN TailAfter(keyTail[k], o)
                                   ELSE keyTail[k]]
  /\ globalTail' = TailAfter(globalTail, o)
  /\ UNCHANGED <<opVars, leg, failed, cancelled, pending, readQ, writeQ,
                 closeVars>>

(* The caller of an unfinished submission is cancelled. *)
Cancel(o) ==
  /\ o \in pending \ cancelled
  /\ FaultsLeft
  /\ cancelled' = cancelled \cup {o}
  /\ UNCHANGED <<opVars, phase, leg, failed, tailVars, pending, readQ, writeQ,
                 closeVars>>

(* mutant: asyncio.shield alone lets a cancelled caller leave at once *)
CallerMayLeaveEarly(o) == Done(o) \/ o \in cancelled

(* shield_and_drain keeps its caller, cancelled or not, until the task ends. *)
CallerMayLeave(o) == Done(o)

(* The caller of _submit takes the outcome, or its cancellation. *)
Return(o) ==
  /\ o \in pending
  /\ CallerMayLeave(o)
  /\ pending' = pending \ {o}
  /\ UNCHANGED <<opVars, phase, leg, failed, cancelled, tailVars, readQ, writeQ,
                 closeVars>>

(***************************************************************************)
(* aclose: refuse new operations, gather the pending tasks, then shut the  *)
(* executors down.  The gather runs in a task of its own, created later.   *)
(***************************************************************************)
Close ==
  /\ closer = "open"
  /\ closer' = "closing"
  /\ UNCHANGED <<opVars, phase, leg, failed, cancelled, tailVars, pending,
                 readQ, writeQ, drain>>

(* mutant: only the tasks whose callers still wait are gathered *)
CloseGatherUncancelled ==
  /\ closer = "closing"
  /\ closer' = "draining"
  /\ drain' = pending \ cancelled
  /\ UNCHANGED <<opVars, phase, leg, failed, cancelled, tailVars, pending,
                 readQ, writeQ>>

CloseGather ==
  /\ closer = "closing"
  /\ closer' = "draining"
  /\ drain' = pending
  /\ UNCHANGED <<opVars, phase, leg, failed, cancelled, tailVars, pending,
                 readQ, writeQ>>

CloseShutdown ==
  /\ closer = "draining"
  /\ \A o \in drain : Done(o)
  /\ closer' = "closed"
  /\ UNCHANGED <<opVars, phase, leg, failed, cancelled, tailVars, pending,
                 readQ, writeQ, drain>>

OpStep(o) == \/ Start(o) \/ Finish(o) \/ SecondLeg(o)
             \/ Settle(o) \/ Return(o) \/ Cancel(o)

Next ==
  \/ \E s \in Shapes : Submit(s)
  \/ \E o \in Ops : OpStep(o)
  \/ TakeRead
  \/ TakeWrite
  \/ Close
  \/ CloseGather
  \/ CloseShutdown

Spec == Init /\ [][Next]_vars

(***************************************************************************)
(* The event loop runs every ready task, a pool runs every queued job, and *)
(* a body is a bounded SQLite call: it returns or raises.  Nothing forces  *)
(* a caller to submit, to be cancelled or to close.                        *)
(***************************************************************************)
Progress(o) == Start(o) \/ Finish(o) \/ Settle(o) \/ Return(o)

Fairness ==
  /\ \A o \in Ops : WF_vars(Progress(o))
  /\ WF_vars(TakeRead)
  /\ WF_vars(TakeWrite)
  /\ WF_vars(CloseGather)
  /\ WF_vars(CloseShutdown)

FairSpec == Spec /\ Fairness

-----------------------------------------------------------------------------

TypeOK ==
  /\ count \in 0 .. MaxOps
  /\ shape \in [Ops -> ShapeType]
  /\ phase \in [Ops -> Phases]
  /\ preds \in [Ops -> SUBSET Ops]
  /\ leg \in [Ops -> {"read", "write"}]
  /\ failed \subseteq Ops
  /\ cancelled \subseteq Ops
  /\ admitted \in 0 .. Capacity
  /\ keyTail \in [Keys -> Ops \cup {None}]
  /\ globalTail \in Ops \cup {None}
  /\ pending \subseteq Ops
  /\ readQ \in Seq(Ops)
  /\ writeQ \in Seq(Ops)
  /\ closer \in {"open", "closing", "draining", "closed"}
  /\ drain \subseteq Ops

(* j, admitted after i, must not run before i is over. *)
Conflict(i, j) ==
  \/ shape[j].kind = "barrier"
  \/ /\ shape[j].kind = "keyed"
     /\ shape[i].kind = "barrier" \/ shape[i].keys \cap shape[j].keys # {}

(***************************************************************************)
(* FIFO key affinity: while an operation is unfinished, no later operation *)
(* on one of its keys has left its wait, a barrier overtakes nothing that  *)
(* was admitted before it, and no keyed operation overtakes a barrier      *)
(* (_submit, whatever fails and whoever is cancelled).                     *)
(***************************************************************************)
AdmissionOrder ==
  \A i, j \in Ops :
    i < j /\ i \in Active /\ j \in Active /\ Conflict(i, j)
      => phase[j] = "waiting"

(***************************************************************************)
(* _admitted counts exactly the unfinished tasks, so a failed operation or *)
(* a cancelled caller neither leaks a slot nor frees one twice.            *)
(***************************************************************************)
SlotAccounting == admitted = Cardinality(Active)

(***************************************************************************)
(* _key_tails and _global_tail name the newest unfinished operation of     *)
(* their key and the newest unfinished barrier, and nothing once there is  *)
(* none: the popped entry of an old task never hides a newer one.          *)
(***************************************************************************)
IsNewest(t, S) == IF S = {} THEN t = None
                            ELSE t \in S /\ \A o \in S : o <= t

TailsExact ==
  /\ \A k \in Keys : IsNewest(keyTail[k], {o \in Active : k \in shape[o].keys})
  /\ IsNewest(globalTail, {o \in Active : shape[o].kind = "barrier"})

(***************************************************************************)
(* Once aclose has shut the executors down no admitted operation still     *)
(* needs them: a cancelled caller cannot take its task out of the drain.   *)
(***************************************************************************)
ClosedIsDrained == closer = "closed" => Active = {}

(***************************************************************************)
(* No circular wait: while an operation is unfinished, one that waits has  *)
(* nothing left to wait for, or an executor has a job and a free thread,   *)
(* or a body runs or has ended (_submit awaits its predecessors while it   *)
(* keeps its slot, and get queues twice).                                  *)
(***************************************************************************)
NoStall ==
  Active # {} =>
    \/ \E o \in Active : phase[o] = "waiting" /\ \A p \in preds[o] : Done(p)
    \/ \E o \in Active : phase[o] \in {"running", "ran"}
    \/ readQ # <<>> /\ Busy("read") < Readers
    \/ writeQ # <<>> /\ Busy("write") = 0

(***************************************************************************)
(* Every admitted operation is answered, after a failed or cancelled       *)
(* predecessor too, and while the owner closes: waits are never circular.  *)
(***************************************************************************)
EveryOpReturns ==
  \A o \in Ops : phase[o] = "waiting" ~> (phase[o] = "settled" /\ o \notin pending)

(* aclose gets to the end of its drain whatever was admitted before it. *)
CloseCompletes == closer = "closing" ~> closer = "closed"

(***************************************************************************)
(* The owner implements one line per session key, SessionQueues: on every  *)
(* key operations begin in the order of admission, one at a time, barriers *)
(* included, and each of them gets its turn.                               *)
(***************************************************************************)
Orders(o, k) == shape[o].kind = "barrier" \/ k \in shape[o].keys

Queues == INSTANCE SessionQueues WITH
  drawn <- count,
  line <- [k \in Keys |-> {o \in Active : Orders(o, k)}],
  running <- {o \in Active : phase[o] # "waiting" /\ shape[o].kind # "query"}

ImplementsQueues == Queues!FairSpec
=============================================================================
