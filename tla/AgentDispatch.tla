--------------------------- MODULE AgentDispatch ---------------------------
(***************************************************************************)
(* How AgentLoop admits work to one session and runs it                    *)
(* (nanobot/agent/loop.py, agent/automation_turns.py, command/builtin.py). *)
(*                                                                         *)
(* The consumer of the message bus handles one input at a time and either  *)
(* adds it to the inbox of the session's worker or starts a worker with a  *)
(* fresh inbox.  Automations (cron runs, local triggers) enter from tasks  *)
(* of their own and wait for their answer.  A worker takes one message at  *)
(* a time under the session's lock; while its turn runs it may drain later *)
(* inputs into the turn.  /stop and other cancellations run on the bus     *)
(* consumer and await the workers they cancel.                             *)
(*                                                                         *)
(* A step is the code between two awaits: the event loop interleaves only  *)
(* there.  One session; inboxes and their workers are numbered in order.   *)
(***************************************************************************)
EXTENDS Integers, Sequences, FiniteSets, FiniteSetsExt, SequencesExt

CONSTANTS Inputs,      \* messages a running turn may absorb
          Commands,    \* commands that need the session worker: /compact
          Deferring,   \* automations that wait for an idle session
          Joining,     \* automations that queue behind the inbox
          Nothing,     \* no message
          CancelKinds, \* cancellations that may be requested
          MaxInboxes,  \* bound: workers started in one behaviour
          MaxCancels,  \* bound: cancellations in one behaviour
          MaxFailures  \* bound: messages that fail before their turn

Automations == Deferring \cup Joining
Messages == Inputs \cup Commands \cup Automations
Boxes == 1 .. MaxInboxes
None == 0

ASSUME KindsAssumption == CancelKinds \subseteq {"stop", "discard"}
ASSUME NamesAssumption ==
  /\ Nothing \notin Messages
  /\ Inputs \cap (Commands \cup Automations) = {}
  /\ Commands \cap Automations = {}
  /\ Deferring \cap Joining = {}
ASSUME BoundsAssumption ==
  /\ MaxInboxes \in Nat
  /\ MaxCancels \in Nat
  /\ MaxFailures \in Nat

VARIABLES
  route,    \* _pending_queues[key], None when the session is idle
  inbox,    \* inbox[w]: the queue worker w serves
  deferred, \* _deferred_automation_turns[key]
  phase,    \* phase[w]: how far worker w has come
  current,  \* current[w]: the message worker w is handling
  batch,    \* batch[w]: the snapshot a drain is converting
  doomed,   \* workers cancelled that have not resumed yet
  lock,     \* the worker holding the session lock
  waiter,   \* waiter[a]: the future of automation a
  bus,      \* what the bus consumer is doing
  accepted, \* messages put on an inbox, oldest first
  handled,  \* messages taken or absorbed by a turn, oldest first
  dropped,  \* messages discarded by a cancellation
  cancels,  \* cancellations so far
  failures  \* messages that failed before their turn so far

workerVars == <<phase, current, batch, doomed, lock>>
queueVars == <<route, inbox, deferred>>
countVars == <<cancels, failures>>
vars == <<queueVars, workerVars, waiter, bus, accepted, handled, dropped,
          countVars>>

Phases == {"absent", "new", "admit", "run", "drain", "settle",
           "unwind", "sweep", "done"}
Live(w) == phase[w] \notin {"absent", "done"}
Alive == {w \in Boxes : Live(w)}

IdleBus == [at |-> "idle", msg |-> Nothing, kind |-> "stop", box |-> None,
            tasks |-> {}, before |-> {}]

Init ==
  /\ route = None
  /\ inbox = [w \in Boxes |-> <<>>]
  /\ deferred = <<>>
  /\ phase = [w \in Boxes |-> "absent"]
  /\ current = [w \in Boxes |-> Nothing]
  /\ batch = [w \in Boxes |-> <<>>]
  /\ doomed = {}
  /\ lock = None
  /\ waiter = [a \in Automations |-> "unsent"]
  /\ bus = IdleBus
  /\ accepted = <<>>
  /\ handled = <<>>
  /\ dropped = {}
  /\ cancels = 0
  /\ failures = 0

Answer(done) ==
  waiter' = [a \in Automations |->
               IF a \in done /\ waiter[a] = "waiting" THEN "answered"
               ELSE waiter[a]]

(***************************************************************************)
(* Admission                                                               *)
(***************************************************************************)

(* The end of _enqueue_session_message: join the live inbox, or start a    *)
(* worker with a fresh one.  No await separates the look-up from the put.  *)
Put(m) ==
  /\ accepted' = Append(accepted, m)
  /\ IF route # None
       THEN /\ inbox' = [inbox EXCEPT ![route] = Append(@, m)]
            /\ UNCHANGED <<route, phase>>
       ELSE \E w \in Boxes :
              /\ phase[w] = "absent"
              /\ \A v \in 1 .. w - 1 : phase[v] # "absent"
              /\ route' = w
              /\ inbox' = [inbox EXCEPT ![w] = <<m>>]
              /\ phase' = [phase EXCEPT ![w] = "new"]

New(m) == m \notin Range(accepted) /\ m # bus.msg

(* mutant: the tail of a cancellation runs beside the consumer *)
ConsumerBesideTail == bus.at \in {"idle", "tail"}

(* The consumer awaits what it dispatched before it takes the next input. *)
ConsumerFree == bus.at = "idle"

(* The consumer takes one input.  For an active session a follow-up is     *)
(* journaled first, which awaits the session owner.                        *)
Receive(m) ==
  /\ ConsumerFree
  /\ New(m)
  /\ IF m \in Inputs /\ route # None
       THEN /\ bus' = [bus EXCEPT !.at = "journal", !.msg = m]
            /\ UNCHANGED <<route, inbox, phase, accepted>>
       ELSE Put(m) /\ UNCHANGED bus
  /\ UNCHANGED <<deferred, current, batch, doomed, lock, waiter, handled,
                 dropped, countVars>>

(* mutant: the inbox looked up before the journal was awaited *)
JournaledToOld ==
  /\ bus.at = "journal"
  /\ \E w \in Boxes :
       /\ phase[w] # "absent"
       /\ \A v \in Boxes : phase[v] # "absent" => v <= w
       /\ inbox' = [inbox EXCEPT ![w] = Append(@, bus.msg)]
  /\ accepted' = Append(accepted, bus.msg)
  /\ bus' = IdleBus
  /\ UNCHANGED <<route, phase, deferred, current, batch, doomed, lock, waiter,
                 handled, dropped, countVars>>

(* The journal is written: the live inbox is looked up again. *)
Journaled ==
  /\ bus.at = "journal"
  /\ Put(bus.msg)
  /\ bus' = IdleBus
  /\ UNCHANGED <<deferred, current, batch, doomed, lock, waiter, handled,
                 dropped, countVars>>

(* The session was replaced or its owner is full: the input is refused and *)
(* the sender is told.                                                     *)
JournalRefused ==
  /\ bus.at = "journal"
  /\ bus' = IdleBus
  /\ UNCHANGED <<queueVars, workerVars, waiter, accepted, handled, dropped,
                 countVars>>

(* _should_defer_cron_turn, _should_defer_local_trigger_turn *)
Defers(a) == a \in Deferring /\ route # None

(* An automation's own task registers its waiter and enqueues its message  *)
(* without an await in between.                                            *)
Submit(a) ==
  /\ waiter[a] = "unsent"
  /\ waiter' = [waiter EXCEPT ![a] = "waiting"]
  /\ IF Defers(a)
       THEN /\ deferred' = Append(deferred, a)
            /\ UNCHANGED <<route, inbox, phase, accepted>>
       ELSE Put(a) /\ UNCHANGED deferred
  /\ UNCHANGED <<current, batch, doomed, lock, bus, handled, dropped,
                 countVars>>

(***************************************************************************)
(* The worker                                                              *)
(***************************************************************************)

(* mutant: idle-only automations taken before the inbox is empty *)
NextMessageEager(w) ==
  IF deferred # <<>> THEN Head(deferred)
  ELSE IF inbox[w] # <<>> THEN Head(inbox[w]) ELSE Nothing

(* What the head of the loop in _run_session_queue takes. *)
NextMessage(w) ==
  IF inbox[w] # <<>> THEN Head(inbox[w])
  ELSE IF deferred # <<>> THEN Head(deferred) ELSE Nothing

(* the finally clause: only the registered worker removes the inbox *)
RouteAfter(w) == IF route = w THEN None ELSE route

(* From the head of the loop to the next await: take a message, or end the *)
(* worker.  A worker whose inbox is no longer registered ends.             *)
LoopHead(w) ==
  LET m == NextMessage(w) IN
  IF route = w /\ m # Nothing
    THEN /\ current' = [current EXCEPT ![w] = m]
         /\ phase' = [phase EXCEPT ![w] = "admit"]
         /\ IF inbox[w] # <<>> /\ m = Head(inbox[w])
              THEN inbox' = [inbox EXCEPT ![w] = Tail(@)] /\ UNCHANGED deferred
              ELSE deferred' = Tail(deferred) /\ UNCHANGED inbox
         /\ handled' = Append(handled, m)
         /\ UNCHANGED route
    ELSE /\ current' = [current EXCEPT ![w] = Nothing]
         /\ phase' = [phase EXCEPT ![w] = "done"]
         /\ route' = RouteAfter(w)
         /\ UNCHANGED <<inbox, deferred, handled>>

Begin(w) ==
  /\ phase[w] = "new" /\ w \notin doomed
  /\ LoopHead(w)
  /\ UNCHANGED <<batch, doomed, lock, waiter, bus, accepted, dropped,
                 countVars>>

(* _dispatch_one passed recovery admission and got the session lock. *)
Acquire(w) ==
  /\ phase[w] = "admit" /\ w \notin doomed
  /\ lock = None
  /\ lock' = w
  /\ phase' = [phase EXCEPT ![w] = "run"]
  /\ UNCHANGED <<queueVars, current, batch, doomed, waiter, bus, accepted,
                 handled, dropped, countVars>>

(* Recovery admission raises before the turn: the loop logs the error and  *)
(* goes on with the next message.                                          *)
FailEarly(w) ==
  /\ phase[w] = "admit" /\ w \notin doomed
  /\ failures < MaxFailures
  /\ failures' = failures + 1
  /\ LoopHead(w)
  /\ UNCHANGED <<batch, doomed, lock, waiter, bus, accepted, dropped, cancels>>

(* _drain_pending takes all that is waiting, then converts it (awaits). *)
Drain(w) ==
  /\ phase[w] = "run" /\ w \notin doomed
  /\ inbox[w] # <<>>
  /\ phase' = [phase EXCEPT ![w] = "drain"]
  /\ batch' = [batch EXCEPT ![w] = inbox[w]]
  /\ inbox' = [inbox EXCEPT ![w] = <<>>]
  /\ UNCHANGED <<route, deferred, current, doomed, lock, waiter, bus, accepted,
                 handled, dropped, countVars>>

(* mutant: what arrived during the drain is put before what was drained *)
PutBackReversed(w, n) == inbox[w] \o SubSeq(batch[w], n + 1, Len(batch[w]))

(* the finally clause of _drain_pending *)
PutBack(w, n) == SubSeq(batch[w], n + 1, Len(batch[w])) \o inbox[w]

(* The converted prefix ends before the first message that must not be     *)
(* injected; a message of another authority may end it earlier.            *)
Absorbable(w) ==
  {n \in 0 .. Len(batch[w]) : \A i \in 1 .. n : batch[w][i] \in Inputs}

DrainDone(w) ==
  /\ phase[w] = "drain" /\ w \notin doomed
  /\ \E n \in Absorbable(w) :
       /\ inbox' = [inbox EXCEPT ![w] = PutBack(w, n)]
       /\ handled' = handled \o SubSeq(batch[w], 1, n)
  /\ batch' = [batch EXCEPT ![w] = <<>>]
  /\ phase' = [phase EXCEPT ![w] = "run"]
  /\ UNCHANGED <<route, deferred, current, doomed, lock, waiter, bus, accepted,
                 dropped, countVars>>

(* The turn ended, well or with an error: its waiter is answered. *)
Finish(w) ==
  /\ phase[w] = "run" /\ w \notin doomed
  /\ Answer({current[w]})
  /\ phase' = [phase EXCEPT ![w] = "settle"]
  /\ UNCHANGED <<queueVars, current, batch, doomed, lock, bus, accepted,
                 handled, dropped, countVars>>

(* The lock is released and the loop goes on. *)
Return(w) ==
  /\ phase[w] = "settle" /\ w \notin doomed
  /\ lock' = None
  /\ LoopHead(w)
  /\ UNCHANGED <<batch, doomed, waiter, bus, accepted, dropped, countVars>>

(***************************************************************************)
(* Cancellation                                                            *)
(***************************************************************************)

(* How many messages _cancel_pending_messages removes before it awaits: up *)
(* to the first command, whose completion it publishes.                    *)
Cut(s) ==
  LET first == SelectInSeq(s, LAMBDA m : m \in Commands) IN
  IF first = 0 THEN Len(s) ELSE first

Awaits(s) == \E i \in 1 .. Len(s) : s[i] \in Commands

(* One stretch of _cancel_pending_messages on the inbox of w, which holds  *)
(* s.  The waiters of what it removes, and of also, are answered.          *)
Sweep(w, s, also) ==
  LET out == Range(SubSeq(s, 1, Cut(s))) IN
  /\ inbox' = [inbox EXCEPT ![w] = SubSeq(s, Cut(s) + 1, Len(s))]
  /\ dropped' = dropped \cup out
  /\ Answer(out \cup also)

(* The cancelled worker resumes with CancelledError.  A drain puts its     *)
(* snapshot back; a turn closes its stream and saves what it has.          *)
Unwind(w) ==
  /\ w \in doomed
  /\ phase[w] \in {"admit", "run", "drain", "settle"}
  /\ doomed' = doomed \ {w}
  /\ phase' = [phase EXCEPT ![w] = "unwind"]
  /\ inbox' = [inbox EXCEPT ![w] = PutBack(w, 0)]
  /\ batch' = [batch EXCEPT ![w] = <<>>]
  /\ UNCHANGED <<route, deferred, current, lock, waiter, bus, accepted,
                 handled, dropped, countVars>>

(* A task cancelled before its first step never enters the worker. *)
Stillborn(w) ==
  /\ phase[w] = "new" /\ w \in doomed
  /\ doomed' = doomed \ {w}
  /\ phase' = [phase EXCEPT ![w] = "done"]
  /\ UNCHANGED <<queueVars, current, batch, lock, waiter, bus, accepted,
                 handled, dropped, countVars>>

(* The worker sweeps its inbox; when nothing is left to await it ends. *)
EndOrAwait(w, s) ==
  IF Awaits(s)
    THEN phase' = [phase EXCEPT ![w] = "sweep"] /\ UNCHANGED route
    ELSE phase' = [phase EXCEPT ![w] = "done"] /\ route' = RouteAfter(w)

(* mutant: the idle-only automations are forgotten *)
QueuedFor(w) == inbox[w]

(* _cancel_pending_messages first moves the deferred list to the inbox. *)
AllQueued(w) == inbox[w] \o deferred

Unwound(w) ==
  /\ phase[w] = "unwind"
  /\ lock' = IF lock = w THEN None ELSE lock
  /\ Sweep(w, AllQueued(w), {current[w]})
  /\ deferred' = <<>>
  /\ current' = [current EXCEPT ![w] = Nothing]
  /\ EndOrAwait(w, AllQueued(w))
  /\ UNCHANGED <<batch, doomed, bus, accepted, handled, countVars>>

SweepOn(w) ==
  /\ phase[w] = "sweep"
  /\ Sweep(w, inbox[w], {})
  /\ EndOrAwait(w, inbox[w])
  /\ UNCHANGED <<deferred, current, batch, doomed, lock, bus, accepted,
                 handled, countVars>>

(* /stop, or another caller of _cancel_active_tasks, reads the journal. *)
Cancel(kind) ==
  /\ bus.at = "idle"
  /\ cancels < MaxCancels
  /\ cancels' = cancels + 1
  /\ bus' = [IdleBus EXCEPT !.at = "read", !.kind = kind,
                            !.before = Range(accepted)]
  /\ UNCHANGED <<queueVars, workerVars, waiter, accepted, handled, dropped,
                 failures>>

(* It takes hold of the inbox and cancels every worker of the session. *)
CutOff ==
  /\ bus.at = "read"
  /\ bus' = [bus EXCEPT !.at = "wait", !.box = route, !.tasks = Alive]
  /\ doomed' = Alive
  /\ UNCHANGED <<queueVars, phase, current, batch, lock, waiter, accepted,
                 handled, dropped, countVars>>

(* mutant: the cancelled workers are not awaited *)
NobodyToAwait == TRUE

(* mutant: the canceller is among the tasks it awaits *)
AwaitsItself == bus.tasks = {}

Awaited == \A w \in bus.tasks : phase[w] = "done"

(* Only the inbox it took hold of is reclaimed. *)
Reclaims == bus.tasks # {} /\ bus.box # None /\ route = bus.box

Reclaim ==
  /\ bus.at = "wait"
  /\ Awaited
  /\ IF Reclaims
       THEN /\ route' = None
            /\ Sweep(bus.box, AllQueued(bus.box), {})
            /\ deferred' = <<>>
            /\ bus' = [bus EXCEPT !.at = IF Awaits(AllQueued(bus.box))
                                           THEN "sweep" ELSE "tail"]
       ELSE /\ bus' = [bus EXCEPT !.at = "tail"]
            /\ UNCHANGED <<queueVars, waiter, dropped>>
  /\ UNCHANGED <<workerVars, accepted, handled, countVars>>

ReclaimOn ==
  /\ bus.at = "sweep"
  /\ Sweep(bus.box, inbox[bus.box], {})
  /\ bus' = IF Awaits(inbox[bus.box]) THEN bus ELSE [bus EXCEPT !.at = "tail"]
  /\ UNCHANGED <<route, deferred, workerVars, accepted, handled, countVars>>

(* The journal is acknowledged, subagents and exec sessions are stopped;   *)
(* then cmd_stop empties the inbox that is registered by now, if any.      *)
StopTail ==
  /\ bus.at = "tail"
  /\ bus' = IdleBus
  /\ IF bus.kind = "stop" /\ route # None
       THEN /\ route' = None
            /\ inbox' = [inbox EXCEPT ![route] = <<>>]
            /\ dropped' = dropped \cup Range(inbox[route])
       ELSE UNCHANGED <<route, inbox, dropped>>
  /\ UNCHANGED <<deferred, workerVars, waiter, accepted, handled, countVars>>

BusStep ==
  \/ Journaled \/ JournalRefused \/ CutOff \/ Reclaim \/ ReclaimOn \/ StopTail

WorkerStep(w) ==
  \/ Begin(w) \/ Acquire(w) \/ FailEarly(w) \/ Drain(w) \/ DrainDone(w)
  \/ Finish(w) \/ Return(w)
  \/ Unwind(w) \/ Stillborn(w) \/ Unwound(w) \/ SweepOn(w)

Next ==
  \/ \E m \in Inputs \cup Commands : Receive(m)
  \/ \E a \in Automations : Submit(a)
  \/ \E kind \in CancelKinds : Cancel(kind)
  \/ BusStep
  \/ \E w \in Boxes : WorkerStep(w)

Spec == Init /\ [][Next]_vars

(* The event loop resumes every task that can go on, and turns end: the    *)
(* provider and the tools are bounded by timeouts.  A turn drains its     *)
(* inbox a bounded number of times, hence strong fairness of its end.      *)
Fairness ==
  /\ WF_vars(BusStep)
  /\ \A w \in Boxes : WF_vars(WorkerStep(w)) /\ SF_vars(Finish(w))

FairSpec == Spec /\ Fairness

(***************************************************************************)
(* Properties                                                              *)
(***************************************************************************)

(* Every variable has its type (the fields of AgentLoop.__init__). *)
TypeOK ==
  /\ route \in Boxes \cup {None}
  /\ inbox \in [Boxes -> Seq(Messages)]
  /\ deferred \in Seq(Deferring)
  /\ phase \in [Boxes -> Phases]
  /\ current \in [Boxes -> Messages \cup {Nothing}]
  /\ batch \in [Boxes -> Seq(Messages)]
  /\ doomed \subseteq Boxes
  /\ lock \in Boxes \cup {None}
  /\ waiter \in [Automations -> {"unsent", "waiting", "answered"}]
  /\ bus \in [at : {"idle", "journal", "read", "wait", "sweep", "tail"},
              msg : Messages \cup {Nothing}, kind : {"stop", "discard"},
              box : Boxes \cup {None}, tasks : SUBSET Boxes,
              before : SUBSET Messages]
  /\ accepted \in Seq(Messages)
  /\ handled \in Seq(Messages)
  /\ dropped \subseteq Messages
  /\ cancels \in 0 .. MaxCancels
  /\ failures \in 0 .. MaxFailures

(* _run_session_queue, "the sole worker for a session": two workers are    *)
(* never alive at once.                                                    *)
SoleWorker == \A v, w \in Alive : v = w

(* An inbox that a live worker or the running cancellation will look at. *)
Attended(w) ==
  Live(w) \/ (bus.at \in {"wait", "sweep"} /\ bus.box = w)

Holds(w, m) == m \in Range(inbox[w]) \cup Range(batch[w])

(* No accepted message is left in an inbox nobody reads: it was handled,   *)
(* was dropped by a cancellation, or waits where a worker will find it     *)
(* (_enqueue_session_message against the end of _run_session_queue).       *)
NothingLost ==
  \A m \in Range(accepted) :
    \/ m \in Range(handled) \cup dropped
    \/ \E w \in Boxes : Attended(w) /\ Holds(w, m)

(* Whoever waits for an automation (AutomationTurnCoordinator.submit) has  *)
(* somebody left who will run it or fail it.                               *)
WaiterHasRunner ==
  \A a \in Automations :
    waiter[a] = "waiting" =>
      \/ \E w \in Alive : current[w] = a
      \/ \E w \in Boxes : Attended(w) /\ Holds(w, a)
      \/ (a \in Range(deferred) /\ route # None /\ Attended(route))

Precedes(s, m, n) ==
  \E i, j \in 1 .. Len(s) : i < j /\ s[i] = m /\ s[j] = n

(* The messages of a session are handled in the order in which they were   *)
(* accepted, whether a turn of their own takes them or a running turn      *)
(* absorbs them (the finally clause of _drain_pending).                    *)
InOrder ==
  \A i, j \in 1 .. Len(handled) :
    i < j => ~ Precedes(accepted, handled[j], handled[i])

(* "Idle-only automation follows all accepted user input": a deferred      *)
(* automation starts only when everything accepted has been handled or     *)
(* dropped (_run_session_queue).                                           *)
AutomationYields ==
  [][\A a \in Range(deferred) \ (Range(deferred') \cup dropped') :
       Range(accepted) \subseteq Range(handled) \cup dropped]_vars

(* A cancellation drops only inputs accepted before it was requested: the  *)
(* user's next message survives a /stop (cmd_stop, run).                   *)
LateInputKept ==
  [][(dropped' \ dropped) \cap Inputs \subseteq bus.before]_vars

(* Every submitted automation is answered in the end. *)
EveryWaiterAnswered ==
  \A a \in Automations : waiter[a] = "waiting" ~> waiter[a] = "answered"

(* Every accepted message is handled in the end, unless a cancellation     *)
(* drops it.                                                               *)
EveryMessageEnds ==
  \A m \in Messages :
    m \in Range(accepted) ~> m \in Range(handled) \cup dropped
=============================================================================
