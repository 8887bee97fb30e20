--------------------------- MODULE DeliveryOutbox ---------------------------
(***************************************************************************)
(* Outbound delivery: the bus queue, the dispatcher of                     *)
(* channels/manager.py with its send tasks, and the table of scheduled     *)
(* results in channels/outbox.py.                                          *)
(*                                                                         *)
(* A message is a number, in the order of publication; that is the order   *)
(* of the rowids.  A "result" has a row from the moment it is published,   *)
(* a "plain" message lives in memory only.  Each database method is one    *)
(* transaction that first prunes.  The process may die at any step: rows   *)
(* survive it.  What an adapter does with a message is its own choice      *)
(* within the contract of BaseChannel.send.                                *)
(***************************************************************************)
EXTENDS Integers, Sequences, FiniteSets

CONSTANTS Chats, Channels,
          ChannelOf,       \* ChannelOf[c]: the channel of chat c
          NoChat,
          MaxMessages,     \* bound: messages ever published
          Slots,           \* _OUTBOUND_PENDING_LIMIT
          Sends,           \* _OUTBOUND_CONCURRENCY
          MaxPending,      \* MAX_PENDING of the outbox
          MaxAttempts,     \* channels.send_max_retries
          MaxErrors,       \* bound: store errors
          Disturbances,    \* which DisturbanceKinds may happen
          MaxDisturbances  \* bound on their number

Messages == 1..MaxMessages
Nobody == 0
DisturbanceKinds == {"crash", "shutdown", "stop", "pause", "replace"}

ASSUME ChannelsAssumption == ChannelOf \in [Chats -> Channels]
ASSUME ChatsAssumption == NoChat \notin Chats
ASSUME BoundsAssumption ==
  /\ MaxMessages \in Nat /\ Slots \in Nat \ {0} /\ Sends \in Nat \ {0}
  /\ MaxPending \in Nat \ {0} /\ MaxAttempts \in Nat \ {0}
  /\ MaxErrors \in Nat /\ MaxDisturbances \in Nat
  /\ Disturbances \subseteq DisturbanceKinds

VARIABLES
  published,    \* how many messages have been published
  kind,         \* kind[m]: "none", "result" or "plain"
  to,           \* to[m]: its chat
  row,          \* row[m]: the status in table deliveries, "none" without row
  due,          \* results with next_attempt <= now
  aged,         \* results with created <= now - MAX_AGE_SECONDS
  replaced,     \* results whose source session has another generation
  swept,        \* DeliveryOutbox._initialized
  bus,          \* MessageBus.outbound
  pc,           \* what the dispatcher does
  hand,         \* the message it carries
  stale,        \* the channel it looked up for it has been stopped since
  recovering,   \* inside _recover_scheduled, which counts as activity
  todo,         \* the results it has still to queue
  recoveryDue,  \* time.monotonic() >= next_recovery
  task,         \* task[m]: the send task of m
  previous,     \* previous[m]: the task it waits for
  tails,        \* _outbound_tails
  cancelling,   \* tasks with a cancellation they have not seen yet
  channel,      \* channel[n]: "on", "stopping" or "off"
  paused,       \* RuntimeAdmission._paused
  got,          \* got[m]: how often the service accepted m
  errors, disturbances

storeVars == <<row, due, aged, replaced, swept>>
dispatchVars == <<pc, hand, stale, recovering, todo, recoveryDue>>
taskVars == <<task, previous, tails, cancelling>>
sentVars == <<published, kind, to>>
boundVars == <<errors, disturbances>>
vars == <<sentVars, storeVars, bus, dispatchVars, taskVars, channel, paused,
          got, boundVars>>

Open == {"pending", "sending"}
InAdapter == {"adapter", "accepted"}

Init ==
  /\ published = 0
  /\ kind = [m \in Messages |-> "none"]
  /\ to = [m \in Messages |-> NoChat]
  /\ row = [m \in Messages |-> "none"]
  /\ due = {} /\ aged = {} /\ replaced = {}
  /\ swept = FALSE
  /\ bus = <<>>
  /\ pc = "loop" /\ hand = Nobody /\ stale = FALSE
  /\ recovering = FALSE /\ todo = {} /\ recoveryDue = TRUE
  /\ task = [m \in Messages |-> "none"]
  /\ previous = [m \in Messages |-> Nobody]
  /\ tails = [c \in Chats |-> Nobody]
  /\ cancelling = {}
  /\ channel = [n \in Channels |-> "on"]
  /\ paused = FALSE
  /\ got = [m \in Messages |-> 0]
  /\ errors = 0 /\ disturbances = 0

-----------------------------------------------------------------------------
(* The table                                                               *)

(* mutant: interrupted sends are left as they are *)
OpenedUnswept == row

(* The first connection of a process settles interrupted sends.            *)
Opened == IF swept THEN row
          ELSE [m \in Messages |->
                  IF row[m] = "sending" THEN "unknown" ELSE row[m]]

Pruned(rows) == [m \in Messages |->
                   IF rows[m] = "pending" /\ m \in aged THEN "failed"
                   ELSE rows[m]]

Current == Pruned(Opened)

Older(m) == {n \in Messages : n < m /\ to[n] = to[m]}

(* DeliveryOutbox.finish: an outcome is recorded for an open row only.     *)
FinishRow(m, status) ==
  /\ row' = Pruned(IF Opened[m] \in Open
                   THEN [Opened EXCEPT ![m] = status] ELSE Opened)
  /\ due' = IF status = "pending" THEN due \ {m} ELSE due
  /\ swept' = TRUE
  /\ UNCHANGED <<aged, replaced, errors>>

(* A transaction that fails changes nothing.                               *)
StoreFails ==
  /\ errors < MaxErrors
  /\ errors' = errors + 1
  /\ UNCHANGED storeVars

(* mutant: a later row of the chat does not wait *)
ClaimableOutOfOrder(m) == Current[m] = "pending" /\ m \in due

(* DeliveryOutbox.claim *)
Claimable(m) ==
  /\ Current[m] = "pending" /\ m \in due
  /\ \A n \in Older(m) : Current[n] \notin Open

-----------------------------------------------------------------------------
(* Tasks                                                                   *)

Tasks == {m \in Messages : task[m] # "none"}
Channel(m) == ChannelOf[to[m]]
TasksOf(n) == {m \in Tasks : Channel(m) = n}
Sending == {m \in Messages : task[m] \in InAdapter}

(* finished(): the slot is free and whoever waits for m goes on.           *)
EndTask(m) ==
  /\ task' = [task EXCEPT ![m] = "none"]
  /\ previous' = [n \in Messages |->
                    IF n = m \/ previous[n] = m THEN Nobody ELSE previous[n]]
  /\ tails' = [c \in Chats |-> IF tails[c] = m THEN Nobody ELSE tails[c]]
  /\ cancelling' = cancelling \ {m}

(* mutant: the task does not wait for the one before it *)
CreateTaskUnchained(m) ==
  /\ task' = [task EXCEPT ![m] = "waiting"]
  /\ tails' = [tails EXCEPT ![to[m]] = m]
  /\ UNCHANGED <<previous, cancelling>>

(* _queue_outbound once it has the slot                                    *)
CreateTask(m) ==
  /\ task' = [task EXCEPT ![m] = "waiting"]
  /\ previous' = [previous EXCEPT ![m] = tails[to[m]]]
  /\ tails' = [tails EXCEPT ![to[m]] = m]
  /\ UNCHANGED cancelling

(* send(): the previous task has ended and a send is free.                 *)
MayStart(m) ==
  /\ task[m] = "waiting" /\ m \notin cancelling
  /\ previous[m] = Nobody
  /\ Cardinality(Sending) < Sends

StartPlain(m) ==
  /\ kind[m] = "plain" /\ MayStart(m)
  /\ task' = [task EXCEPT ![m] = "adapter"]
  /\ UNCHANGED <<sentVars, storeVars, bus, dispatchVars, previous, tails,
                 cancelling, channel, paused, got, boundVars>>

(* _send_scheduled up to the attempt: the source session, then the claim.  *)
Start(m) ==
  /\ kind[m] = "result" /\ MayStart(m)
  /\ \/ /\ m \in replaced
        /\ FinishRow(m, "failed") /\ EndTask(m)
     \/ /\ m \notin replaced /\ Claimable(m)
        /\ row' = [Current EXCEPT ![m] = "sending"]
        /\ task' = [task EXCEPT ![m] = "adapter"]
        /\ swept' = TRUE
        /\ UNCHANGED <<due, aged, replaced, errors, previous, tails,
                       cancelling>>
     \/ /\ m \notin replaced /\ ~Claimable(m)
        /\ row' = Current /\ swept' = TRUE
        /\ UNCHANGED <<due, aged, replaced, errors>>
        /\ EndTask(m)
     \/ StoreFails /\ EndTask(m)
  /\ UNCHANGED <<sentVars, bus, dispatchVars, channel, paused, got,
                 disturbances>>

(* The service takes the message; the adapter has not returned.            *)
Accept(m) ==
  /\ task[m] = "adapter"
  /\ kind[m] = "plain" => got[m] < MaxAttempts
  /\ task' = [task EXCEPT ![m] = "accepted"]
  /\ got' = [got EXCEPT ![m] = @ + 1]
  /\ UNCHANGED <<sentVars, storeVars, bus, dispatchVars, previous, tails,
                 cancelling, channel, paused, boundVars>>

(* mutant: an uncertain attempt is tried again *)
OutcomesRetried(m) ==
  IF task[m] = "adapter" THEN {"pending", "failed"} ELSE {"sent", "pending"}

(* What _send_scheduled makes of the adapter's return or exception.        *)
Outcomes(m) ==
  IF m \in cancelling THEN {"unknown"}
  ELSE IF task[m] = "adapter" THEN {"pending", "failed", "unknown"}
  ELSE {"sent", "unknown"}

Return(m) ==
  /\ kind[m] = "result" /\ task[m] \in InAdapter
  /\ \/ \E status \in Outcomes(m) : FinishRow(m, status)
     \/ StoreFails
  /\ EndTask(m)
  /\ UNCHANGED <<sentVars, bus, dispatchVars, channel, paused, got,
                 disturbances>>

(* _send_with_retry                                                        *)
ReturnPlain(m) ==
  /\ kind[m] = "plain" /\ task[m] \in InAdapter
  /\ EndTask(m)
  /\ UNCHANGED <<sentVars, storeVars, bus, dispatchVars, channel, paused,
                 got, boundVars>>

RetryPlain(m) ==
  /\ kind[m] = "plain" /\ task[m] = "accepted" /\ m \notin cancelling
  /\ got[m] < MaxAttempts
  /\ task' = [task EXCEPT ![m] = "adapter"]
  /\ UNCHANGED <<sentVars, storeVars, bus, dispatchVars, previous, tails,
                 cancelling, channel, paused, got, boundVars>>

(* A cancellation reaches a task that has not called the adapter.          *)
Cancelled(m) ==
  /\ m \in cancelling /\ task[m] = "waiting"
  /\ EndTask(m)
  /\ UNCHANGED <<sentVars, storeVars, bus, dispatchVars, channel, paused,
                 got, boundVars>>

-----------------------------------------------------------------------------
(* The dispatcher                                                          *)

ReadyRows == {m \in Messages : Current[m] = "pending" /\ m \in due}

(* Back to the loop, or to the list of the recovery.                       *)
Onward == /\ pc' = IF recovering THEN "recover" ELSE "loop"
          /\ hand' = Nobody
          /\ UNCHANGED stale

(* _queue_outbound.  Tasks for chats outside the model hold slots too: the *)
(* dispatcher may have to wait for one.                                    *)
Enter(m) ==
  \/ m \in Tasks /\ Onward /\ UNCHANGED taskVars
  \/ /\ m \notin Tasks /\ Cardinality(Tasks) < Slots
     /\ Onward
     /\ IF channel[Channel(m)] = "on" THEN CreateTask(m)
        ELSE UNCHANGED taskVars
  \/ /\ m \notin Tasks
     /\ pc' = "slot" /\ hand' = m /\ stale' = FALSE
     /\ UNCHANGED taskVars

Queue ==
  /\ pc = "slot" /\ Cardinality(Tasks) < Slots
  /\ IF stale \/ channel[Channel(hand)] # "on"
     THEN UNCHANGED taskVars ELSE CreateTask(hand)
  /\ Onward
  /\ UNCHANGED <<sentVars, storeVars, bus, recovering, todo, recoveryDue,
                 channel, paused, got, boundVars>>

(* The head of the loop, past the gate: DeliveryOutbox.ready.              *)
Recover ==
  /\ pc = "loop" /\ ~paused /\ recoveryDue
  /\ recoveryDue' = FALSE
  /\ \/ /\ todo' = ReadyRows
        /\ row' = Current /\ swept' = TRUE
        /\ UNCHANGED <<due, aged, replaced, errors>>
        /\ pc' = "recover" /\ recovering' = TRUE
     \/ StoreFails /\ UNCHANGED <<pc, todo, recovering>>
  /\ UNCHANGED <<sentVars, bus, hand, stale, taskVars, channel, paused, got,
                 disturbances>>

(* _recover_scheduled, the next result of its list: the oldest             *)
RecoverNext(m) ==
  /\ pc = "recover"
  /\ m \in todo /\ \A n \in todo : m <= n
  /\ \/ /\ channel[Channel(m)] = "off"
        /\ \/ FinishRow(m, "failed") /\ todo' = todo \ {m}
           \/ StoreFails /\ todo' = {}
        /\ UNCHANGED <<pc, hand, stale, taskVars>>
     \/ /\ channel[Channel(m)] # "off"
        /\ todo' = todo \ {m}
        /\ Enter(m)
        /\ UNCHANGED <<storeVars, errors>>
  /\ UNCHANGED <<sentVars, bus, recovering, recoveryDue, channel, paused, got,
                 disturbances>>

RecoverEnd ==
  /\ pc = "recover" /\ todo = {}
  /\ pc' = "loop" /\ recovering' = FALSE
  /\ UNCHANGED <<sentVars, storeVars, bus, hand, stale, todo, recoveryDue,
                 taskVars, channel, paused, got, boundVars>>

(* A disabled channel: the row is closed; an error there ends the loop and *)
(* cancels every task.                                                     *)
Refuse(m) ==
  \/ /\ \/ kind[m] = "plain" /\ UNCHANGED <<storeVars, errors>>
        \/ kind[m] = "result" /\ FinishRow(m, "failed")
     /\ Onward /\ UNCHANGED taskVars
  \/ /\ kind[m] = "result" /\ StoreFails
     /\ pc' = "dead" /\ hand' = Nobody
     /\ cancelling' = Tasks
     /\ UNCHANGED <<stale, task, previous, tails>>

RouteMessage(m) ==
  \/ channel[Channel(m)] = "off" /\ Refuse(m)
  \/ channel[Channel(m)] # "off" /\ Enter(m) /\ UNCHANGED <<storeVars, errors>>

(* mutant: the message is routed at once *)
MayRouteWhilePaused == TRUE

(* The second wait for the gate, with the message in hand.                 *)
MayRoute == ~paused

Take ==
  /\ pc = "loop" /\ bus # <<>>
  /\ bus' = Tail(bus)
  /\ \/ MayRoute /\ RouteMessage(Head(bus))
     \/ /\ ~MayRoute
        /\ hand' = Head(bus) /\ pc' = "held"
        /\ UNCHANGED <<stale, taskVars, storeVars, errors>>
  /\ UNCHANGED <<sentVars, recovering, todo, recoveryDue, channel, paused, got,
                 disturbances>>

Route ==
  /\ pc = "held" /\ MayRoute
  /\ RouteMessage(hand)
  /\ UNCHANGED <<sentVars, bus, recovering, todo, recoveryDue, channel,
                 paused, got, disturbances>>

-----------------------------------------------------------------------------
(* The rest of the gateway, time and the operator                          *)

OpenRows == {m \in Messages : Current[m] \in Open}

(* publish_outbound: record() commits the row before the queue has it; a   *)
(* full table or an error rejects the message.                             *)
Publish(k, c) ==
  /\ published < MaxMessages
  /\ k = "result" => ~paused /\ Cardinality(OpenRows) < MaxPending
  /\ LET m == published + 1 IN
     /\ published' = m
     /\ kind' = [kind EXCEPT ![m] = k]
     /\ to' = [to EXCEPT ![m] = c]
     /\ bus' = Append(bus, m)
     /\ IF k = "plain" THEN UNCHANGED storeVars
        ELSE /\ row' = [Current EXCEPT ![m] = "pending"]
             /\ due' = due \cup {m}
             /\ swept' = TRUE
             /\ UNCHANGED <<aged, replaced>>
  /\ UNCHANGED <<dispatchVars, taskVars, channel, paused, got, boundVars>>

timeFrame == <<sentVars, row, replaced, swept, bus, pc, hand, stale,
               recovering, todo, taskVars, channel, paused, got, boundVars>>

RetryTime(m) == /\ row[m] \in Open /\ m \notin due
                /\ due' = due \cup {m}
                /\ UNCHANGED <<timeFrame, aged, recoveryDue>>

(* The clock runs one way: older rows reach the limit first.               *)
MaxAge(m) == /\ row[m] \in Open /\ m \notin aged
             /\ \A n \in Messages : n < m /\ row[n] \in Open => n \in aged
             /\ aged' = aged \cup {m}
             /\ UNCHANGED <<timeFrame, due, recoveryDue>>

RecoveryTime == /\ ~recoveryDue
                /\ recoveryDue' = TRUE
                /\ UNCHANGED <<timeFrame, due, aged>>

Disturb(k) == /\ k \in Disturbances
              /\ disturbances < MaxDisturbances
              /\ disturbances' = disturbances + 1

ReplaceSession(m) ==
  /\ Disturb("replace")
  /\ row[m] \in Open /\ m \notin replaced
  /\ replaced' = replaced \cup {m}
  /\ UNCHANGED <<sentVars, row, due, aged, swept, bus, dispatchVars, taskVars,
                 channel, paused, got, errors>>

(* _stop_channel: the tasks of the channel are cancelled and waited for    *)
StopChannel(n) ==
  /\ Disturb("stop")
  /\ channel[n] = "on"
  /\ channel' = [channel EXCEPT ![n] = "stopping"]
  /\ cancelling' = cancelling \cup TasksOf(n)
  /\ stale' = (stale \/ (pc = "slot" /\ Channel(hand) = n))
  /\ UNCHANGED <<sentVars, storeVars, bus, pc, hand, recovering, todo,
                 recoveryDue, task, previous, tails, paused, got, errors>>

(* The channel is disabled, or another object has its name.                *)
ChannelStopped(n) ==
  /\ channel[n] = "stopping" /\ TasksOf(n) = {}
  /\ \E s \in {"on", "off"} : channel' = [channel EXCEPT ![n] = s]
  /\ UNCHANGED <<sentVars, storeVars, bus, dispatchVars, taskVars, paused,
                 got, boundVars>>

(* has_pending_delivery and the activity of a recovery                     *)
Idle == bus = <<>> /\ hand = Nobody /\ Tasks = {} /\ ~recovering

Pause == /\ Disturb("pause")
         /\ ~paused /\ Idle
         /\ paused' = TRUE
         /\ UNCHANGED <<sentVars, storeVars, bus, dispatchVars, taskVars,
                        channel, got, errors>>

Release == /\ paused
           /\ paused' = FALSE
           /\ UNCHANGED <<sentVars, storeVars, bus, dispatchVars, taskVars,
                          channel, got, boundVars>>

(* stop_all: the dispatcher is cancelled and cancels every task.           *)
ShutDown == /\ Disturb("shutdown")
            /\ pc \notin {"stopped", "dead"}
            /\ pc' = "stopped"
            /\ hand' = Nobody /\ stale' = FALSE
            /\ recovering' = FALSE /\ todo' = {}
            /\ cancelling' = Tasks
            /\ UNCHANGED <<sentVars, storeVars, bus, recoveryDue, task,
                           previous, tails, channel, paused, got, errors>>

(* A new process; the update worker may hold it before it starts.          *)
Restarted ==
  /\ bus' = <<>>
  /\ pc' = "loop" /\ hand' = Nobody /\ stale' = FALSE
  /\ recovering' = FALSE /\ todo' = {} /\ recoveryDue' = TRUE
  /\ task' = [m \in Messages |-> "none"]
  /\ previous' = [m \in Messages |-> Nobody]
  /\ tails' = [c \in Chats |-> Nobody]
  /\ cancelling' = {}
  /\ channel' = [n \in Channels |-> IF channel[n] = "off" THEN "off" ELSE "on"]
  /\ paused' \in BOOLEAN
  /\ swept' = FALSE
  /\ UNCHANGED <<sentVars, row, due, aged, replaced, got, errors>>

Crash == Disturb("crash") /\ Restarted

Restart == /\ pc = "stopped" /\ Tasks = {}
           /\ Restarted /\ UNCHANGED disturbances

Dispatch == \/ Recover \/ (\E m \in Messages : RecoverNext(m))
            \/ RecoverEnd \/ Take \/ Route \/ Queue

TaskStep(m) == \/ Start(m) \/ StartPlain(m) \/ Accept(m) \/ Return(m)
               \/ ReturnPlain(m) \/ RetryPlain(m) \/ Cancelled(m)

Next ==
  \/ Dispatch
  \/ \E m \in Messages : \/ TaskStep(m) \/ RetryTime(m) \/ MaxAge(m)
                         \/ ReplaceSession(m)
  \/ \E k \in {"result", "plain"}, c \in Chats : Publish(k, c)
  \/ \E n \in Channels : StopChannel(n) \/ ChannelStopped(n)
  \/ RecoveryTime \/ Pause \/ Release \/ ShutDown \/ Crash \/ Restart

Spec == Init /\ [][Next]_vars

(* Time passes, the event loop runs what it can, an adapter returns and so *)
(* does its cancellation, maintenance is released, a gateway that was shut *)
(* down starts again.  Nothing is assumed of the adapter's answers.        *)
Fairness ==
  /\ WF_vars(Dispatch)
  /\ WF_vars(RecoveryTime)
  /\ WF_vars(Release \/ Restart \/ \E n \in Channels : ChannelStopped(n))
  /\ \A m \in Messages :
       /\ WF_vars(MaxAge(m))
       /\ WF_vars(Start(m) \/ StartPlain(m))
       /\ WF_vars(Return(m) \/ ReturnPlain(m) \/ Cancelled(m))

FairSpec == Spec /\ Fairness

-----------------------------------------------------------------------------
(* Properties                                                              *)

(* Every variable keeps its type.                                          *)
TypeOK ==
  /\ published \in 0..MaxMessages
  /\ kind \in [Messages -> {"none", "result", "plain"}]
  /\ to \in [Messages -> Chats \cup {NoChat}]
  /\ row \in [Messages -> {"none", "pending", "sending", "sent", "failed",
                           "unknown"}]
  /\ due \subseteq Messages /\ aged \subseteq Messages
  /\ replaced \subseteq Messages
  /\ swept \in BOOLEAN
  /\ bus \in Seq(Messages)
  /\ pc \in {"loop", "recover", "held", "slot", "stopped", "dead"}
  /\ hand \in Messages \cup {Nobody}
  /\ stale \in BOOLEAN /\ recovering \in BOOLEAN
  /\ todo \subseteq Messages /\ recoveryDue \in BOOLEAN
  /\ task \in [Messages -> {"none", "waiting", "adapter", "accepted"}]
  /\ previous \in [Messages -> Messages \cup {Nobody}]
  /\ tails \in [Chats -> Messages \cup {Nobody}]
  /\ cancelling \subseteq Messages
  /\ channel \in [Channels -> {"on", "stopping", "off"}]
  /\ paused \in BOOLEAN
  /\ got \in [Messages -> Nat]
  /\ errors \in Nat /\ disturbances \in Nat

(* The status table of docs/automations.md, which operators and the retry  *)
(* rule rely on: a pending result has not reached the service, a sent one  *)
(* has, once, and a failed one has not, unless the store failed meanwhile. *)
StatusTruthful ==
  \A m \in Messages : kind[m] = "result" =>
    /\ row[m] = "pending" => got[m] = 0
    /\ row[m] = "sent" => got[m] = 1
    /\ row[m] = "failed" => got[m] = 0 \/ errors > 0

(* _queue_outbound: ordinary messages reach a chat in the order they were  *)
(* published, across slots, semaphores, retries and stopped channels.      *)
PlainInOrder ==
  [][\A m, n \in Messages :
       m < n /\ kind[m] = "plain" /\ kind[n] = "plain" /\ to[m] = to[n]
       => (got[n] > 0 => got'[m] = got[m])]_vars

(* While maintenance holds the gate no send task exists and no recovery    *)
(* runs, even for a message taken from the queue after it closed.          *)
QuietInMaintenance == paused => Tasks = {} /\ ~recovering

(* send() awaits the task before it and then a free send: never in a       *)
(* circle, so while there are tasks one is in an adapter, is cancelled or  *)
(* may start.                                                              *)
SendsGoOn ==
  Tasks # {} => \E m \in Tasks : task[m] \in InAdapter \/ m \in cancelling \/ MayStart(m)

(* A result that was accepted for delivery gets a final status, whatever   *)
(* the adapter answers and however often the gateway is restarted, unless  *)
(* the store fails.                                                        *)
EveryResultSettles ==
  \A m \in Messages : row[m] \in Open ~> (row[m] \notin Open \/ errors > 0)

(* docs/automations.md: a result that was not sent is retried every 30     *)
(* seconds for up to one hour.  It does not stay pending.                  *)
PendingIsRetried ==
  \A m \in Messages : row[m] = "pending" ~> row[m] # "pending"

(* The table, the tasks, the periodic recovery and the restarts together   *)
(* keep the promise of ResultMailbox.                                      *)
Results == {m \in Messages : kind[m] = "result"}

Mailbox == INSTANCE ResultMailbox WITH
  to <- [m \in Messages |-> IF m \in Results THEN to[m] ELSE NoChat],
  open <- {m \in Messages : row[m] \in Open},
  delivered <- [m \in Messages |-> IF m \in Results THEN got[m] ELSE 0]

ImplementsMailbox == Mailbox!Spec
=============================================================================
