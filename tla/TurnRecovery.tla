---------------------------- MODULE TurnRecovery ----------------------------
(***************************************************************************)
(* The recovery of interrupted WebUI turns (webui/recovery.py with          *)
(* session/recovery.py) around the worker of one session (agent/loop.py).   *)
(* After a restart, or a failure of the model, the user is offered to       *)
(* continue or to dismiss what was interrupted; a new message supersedes    *)
(* it.  Four parties touch the same row, each reading a draft, deciding on  *)
(* it across an await and committing it against what is there by then: the  *)
(* consumer of the bus, the worker, the handlers of clicks, and the scan of *)
(* the next process.                                                        *)
(*                                                                         *)
(* One operation of the session owner is one step (see SessionOps).  A row  *)
(* of the history stands for the messages saved together.                   *)
(***************************************************************************)
EXTENDS Integers, SequencesExt

CONSTANTS Clickers,    \* bound: recovery actions handled at the same time
          MaxInputs,   \* bound: messages of the user
          MaxClicks,   \* bound: clicks on Continue or Dismiss
          MaxBatches,  \* bound: batches of tool calls in a turn
          MaxFaults,   \* bound: crashes, stops, failed turns and failed scans
          Faults       \* the kinds of them that happen

ASSUME ClickersAssumption == Clickers \subseteq Nat

VARIABLES
  row,        \* the committed session: state, pending, ckpt, hist
  bus,        \* MessageBus.inbound
  inbox,      \* the inbox of the session's worker
  consumer,   \* AgentLoop.run with the message it dispatches
  worker,     \* the task of _run_session_queue; pc "none": no inbox registered
  registered, \* the worker is in _active_recovery_tasks
  cancelled,  \* the worker has been cancelled
  click,      \* click[c]: handle_action
  up,         \* the gateway runs
  tail,       \* the transcript ends in an unfinished activity
  sent,       \* messages sent by the user
  ended,      \* those that were handled, refused, stopped or lost with a crash
  ids,        \* recovery ids given out
  clock,      \* updated_at of the newest recovery state
  turns,      \* turns begun
  clicks, faults,
  offers,     \* ids whose interruption waits for a confirmed run
  latest      \* the checkpoint that was saved last

vars == <<row, bus, inbox, consumer, worker, registered, cancelled, click, up,
          tail, sent, ended, ids, clock, turns, clicks, faults, offers, latest>>

history == <<sent, ended, offers, latest>>

Input(n) == [kind |-> "input", n |-> n]
Resume(id) == [kind |-> "resume", n |-> id]
Stop == [kind |-> "stop", n |-> 0]

Idle == [pc |-> "idle"]
NoWorker == [pc |-> "none"]
NoCheckpoint == [of |-> 0, k |-> 0, phase |-> "none"]
Row(what, of, k) == [what |-> what, of |-> of, k |-> k]
Closing == Row("closing", 0, 0)

Waiting == {"resuming", "awaiting_user", "failed"}

NewRow == [state |-> [status |-> "none", id |-> 0, at |-> 0, can |-> TRUE,
                      reason |-> "other", count |-> 0],
           pending |-> FALSE, ckpt |-> NoCheckpoint, hist |-> <<>>]

(* What the scan leaves of a session whose first turn saved its message,    *)
(* when the gateway died before the first tool call.                        *)
InterruptedRow ==
  [NewRow EXCEPT !.hist = <<Row("user", 1, 0)>>, !.pending = TRUE,
                 !.state.status = "awaiting_user", !.state.id = 1, !.state.at = 1]

(* A new session, or an interrupted one after the restart.                  *)
Init ==
  /\ \/ row = NewRow /\ offers = {}
     \/ row = InterruptedRow /\ offers = {1}
  /\ bus = <<>> /\ inbox = <<>>
  /\ consumer = Idle
  /\ worker = NoWorker /\ registered = FALSE /\ cancelled = FALSE
  /\ click = [c \in Clickers |-> Idle]
  /\ up = TRUE /\ tail = FALSE
  /\ sent = Cardinality(offers) /\ ended = 1..sent
  /\ ids = sent /\ clock = sent /\ turns = sent /\ clicks = 0 /\ faults = 0
  /\ latest = NoCheckpoint

CanFault(k) == k \in Faults /\ faults < MaxFaults

-----------------------------------------------------------------------------
(* session/recovery.py: changes of a draft                                 *)

(* What a checkpoint becomes in the history: its answer, its tool calls     *)
(* with their results, or its tool calls marked as interrupted.             *)
RowOf(c) == Row(CASE c.phase = "final_response" -> "answer"
                  [] c.phase = "tools_completed" -> "tools"
                  [] OTHER -> "cut", c.of, c.k)

(* restore_runtime_checkpoint; what the history already ends with is not    *)
(* appended again.                                                          *)
Restored(r) ==
  IF r.ckpt = NoCheckpoint THEN r
  ELSE [r EXCEPT !.hist = IF @ # <<>> /\ Last(@) = RowOf(r.ckpt) THEN @
                          ELSE Append(@, RowOf(r.ckpt)),
                 !.ckpt = NoCheckpoint, !.pending = FALSE]

(* restore_pending_interruption                                            *)
Interrupted(r) ==
  [r EXCEPT !.hist = IF r.pending /\ @ # <<>> /\ Last(@).what = "user"
                     THEN Append(@, Closing) ELSE @,
            !.pending = FALSE]

(* append_recovery_interruption                                            *)
Closed(r) ==
  [r EXCEPT !.hist = IF @ # <<>> /\ Last(@).what \in {"cut", "closing"} THEN @
                     ELSE Append(@, Closing)]

(* RecoveryCoordinator._set_state; updated_at tells two states apart, and   *)
(* the reason is "model" after a failure of the model.                      *)
State(status, id, can, reason, count) ==
  [status |-> status, id |-> id, at |-> clock + 1, can |-> can,
   reason |-> reason, count |-> count]

Become(r, status) ==
  [r EXCEPT !.state = State(status, r.state.id, TRUE, "other", 0)]

(* The draft that admit commits for a newer message.                        *)
Superseded(r) ==
  Become(IF r.state.reason = "model" THEN r
         ELSE IF Restored(r).pending THEN Interrupted(Restored(r))
         ELSE Closed(Restored(r)), "recovered")

-----------------------------------------------------------------------------
(* session/state.py: a draft and its commit                                *)

Read == [base |-> row, cur |-> row]

Changed(d, cur) == [d EXCEPT !.cur = cur]

(* mutants: a stale recovery state, or checkpoint, is not refused           *)
ClashIgnoringState(d) ==
  \E f \in {"pending", "ckpt"} :
    d.cur[f] # d.base[f] /\ row[f] \notin {d.base[f], d.cur[f]}

ClashIgnoringCheckpoint(d) ==
  \E f \in {"state", "pending"} :
    d.cur[f] # d.base[f] /\ row[f] \notin {d.base[f], d.cur[f]}

(* _apply_turn refuses a draft whose metadata changed meanwhile.  Histories *)
(* only grow here, so both always extend the baseline.                      *)
Clash(d) ==
  \E f \in {"state", "pending", "ckpt"} :
    d.cur[f] # d.base[f] /\ row[f] \notin {d.base[f], d.cur[f]}

Grown(d) == SubSeq(d.cur.hist, Len(d.base.hist) + 1, Len(d.cur.hist))

Merged(d) ==
  [f \in DOMAIN row |->
     IF f = "hist" THEN row.hist \o Grown(d)
     ELSE IF d.cur[f] # d.base[f] THEN d.cur[f] ELSE row[f]]

(* The recovery state of a committed draft is new when its time is.         *)
Commit(d) == /\ row' = Merged(d)
             /\ clock' = IF d.cur.state.at > clock THEN d.cur.state.at ELSE clock

-----------------------------------------------------------------------------
(* The user                                                                *)

Send ==
  /\ up /\ sent < MaxInputs
  /\ sent' = sent + 1
  /\ bus' = Append(bus, Input(sent'))
  /\ tail' = FALSE
  /\ UNCHANGED <<row, inbox, consumer, worker, registered, cancelled, click, up,
                 ended, ids, clock, turns, clicks, faults, offers, latest>>

SendStop ==
  /\ up /\ CanFault("stop")
  /\ faults' = faults + 1
  /\ bus' = Append(bus, Stop)
  /\ UNCHANGED <<row, inbox, consumer, worker, registered, cancelled, click, up,
                 tail, history, ids, clock, turns, clicks>>

(* handle_action reads the session; an action on another id is refused.     *)
(* The handlers are alike, so the first idle one takes the click.           *)
Click(c, action) ==
  /\ up /\ clicks < MaxClicks
  /\ click[c] = Idle /\ \A b \in Clickers : b < c => click[b] # Idle
  /\ row.state.status # "none"
  /\ clicks' = clicks + 1
  /\ click' = [click EXCEPT ![c] = [pc |-> action, draft |-> Read]]
  /\ UNCHANGED <<row, bus, inbox, consumer, worker, registered, cancelled, up,
                 tail, history, ids, clock, turns, faults>>

clickFrame == <<bus, inbox, consumer, worker, registered, cancelled, up, tail,
                history, ids, turns, clicks, faults>>

Dismiss(c) ==
  /\ click[c].pc = "dismiss"
  /\ LET r == click[c].draft.cur
         d == Changed(click[c].draft,
                      [Interrupted(Restored(r)) EXCEPT !.state =
                         State("recovered", r.state.id, TRUE, "dismissed", 0)])
     IN IF Clash(d) THEN UNCHANGED <<row, clock>> ELSE Commit(d)
  /\ click' = [click EXCEPT ![c] = Idle]
  /\ UNCHANGED clickFrame

Continue(c) ==
  /\ click[c].pc = "continue"
  /\ LET r == click[c].draft.cur
         s == State("resuming", r.state.id, TRUE, "other", Len(r.hist))
         d == Changed(click[c].draft, [r EXCEPT !.state = s])
     IN IF r.state.status \in {"awaiting_user", "failed"} /\ r.state.can /\ ~Clash(d)
        THEN /\ Commit(d)
             /\ click' = [click EXCEPT ![c] = [pc |-> "queue", id |-> s.id]]
        ELSE /\ click' = [click EXCEPT ![c] = Idle]
             /\ UNCHANGED <<row, clock>>
  /\ UNCHANGED clickFrame

(* _queue_continuation                                                     *)
QueueContinuation(c) ==
  /\ click[c].pc = "queue"
  /\ bus' = Append(bus, Resume(click[c].id))
  /\ click' = [click EXCEPT ![c] = Idle]
  /\ UNCHANGED <<row, inbox, consumer, worker, registered, cancelled, up, tail,
                 history, ids, clock, turns, clicks, faults>>

-----------------------------------------------------------------------------
(* The consumer of the bus: _dispatch_inbound                              *)

(* _enqueue_session_message: into the worker's inbox, or a new worker.      *)
Put(m) ==
  IF worker.pc = "none"
  THEN inbox' = <<m>> /\ worker' = [pc |-> "head"]
  ELSE inbox' = Append(inbox, m) /\ UNCHANGED worker

consumerFrame == <<click, up, tail, sent, ids, turns, clicks, faults, offers,
                   latest>>

(* With a worker the message must pass admit, which begins with a read; a   *)
(* /stop cancels the worker and waits for it.                               *)
Take ==
  /\ up /\ consumer = Idle /\ bus # <<>>
  /\ bus' = Tail(bus)
  /\ LET m == Head(bus) IN
     \/ /\ m = Stop
        /\ cancelled' = (worker.pc # "none")
        /\ consumer' = IF worker.pc # "none" THEN [pc |-> "stopping"] ELSE Idle
        /\ UNCHANGED <<inbox, worker>>
     \/ /\ m # Stop /\ worker.pc = "none"
        /\ Put(m)
        /\ UNCHANGED <<cancelled, consumer>>
     \/ /\ m # Stop /\ worker.pc # "none"
        /\ consumer' = [pc |-> "admit", msg |-> m, draft |-> Read]
        /\ UNCHANGED <<inbox, worker, cancelled>>
  /\ UNCHANGED <<row, clock, registered, ended, consumerFrame>>

Stopped ==
  /\ consumer.pc = "stopping" /\ worker.pc = "none"
  /\ consumer' = Idle
  /\ UNCHANGED <<row, clock, bus, inbox, worker, registered, cancelled, ended,
                 consumerFrame>>

Confirmed(r, m) == r.state.status = "resuming" /\ r.state.id = m.n

(* A continuation is current or is dropped.                                 *)
AdmitResume ==
  /\ consumer.pc = "admit" /\ consumer.msg.kind = "resume"
  /\ IF Confirmed(consumer.draft.cur, consumer.msg) THEN Put(consumer.msg)
     ELSE UNCHANGED <<inbox, worker>>
  /\ consumer' = Idle
  /\ UNCHANGED <<row, clock, bus, registered, cancelled, ended, consumerFrame>>

AdmitInput ==
  /\ consumer.pc = "admit" /\ consumer.msg.kind = "input"
  /\ consumer.draft.cur.state.status \notin Waiting
  /\ Put(consumer.msg)
  /\ consumer' = Idle
  /\ UNCHANGED <<row, clock, bus, registered, cancelled, ended, consumerFrame>>

(* _cancel_active_recovery has a task to stop.                              *)
ActiveRecovery == registered

CancelRecovery ==
  /\ consumer.pc = "admit" /\ consumer.msg.kind = "input"
  /\ consumer.draft.cur.state.status \in Waiting
  /\ ActiveRecovery
  /\ cancelled' = TRUE
  /\ consumer' = [consumer EXCEPT !.pc = "waiting"]
  /\ UNCHANGED <<row, clock, bus, inbox, worker, registered, ended, consumerFrame>>

(* The draft was read before the wait.  A refused commit rejects the input. *)
Supersede ==
  /\ \/ /\ consumer.pc = "admit" /\ consumer.msg.kind = "input"
        /\ consumer.draft.cur.state.status \in Waiting
        /\ ~ActiveRecovery
     \/ consumer.pc = "waiting" /\ worker.pc = "none"
  /\ LET d == Changed(consumer.draft, Superseded(consumer.draft.cur)) IN
     IF Clash(d)
     THEN /\ ended' = ended \cup {consumer.msg.n}
          /\ consumer' = Idle
          /\ UNCHANGED <<row, clock>>
     ELSE /\ Commit(d)
          /\ consumer' = [pc |-> "put", msg |-> consumer.msg]
          /\ UNCHANGED ended
  /\ UNCHANGED <<bus, inbox, worker, registered, cancelled, consumerFrame>>

PutInput ==
  /\ consumer.pc = "put"
  /\ Put(consumer.msg)
  /\ consumer' = Idle
  /\ UNCHANGED <<row, clock, bus, registered, cancelled, ended, consumerFrame>>

-----------------------------------------------------------------------------
(* The worker: _run_session_queue and _dispatch_one                        *)

workerFrame == <<bus, consumer, click, up, sent, clicks>>

(* mutant: a continuation is registered when its turn begins                *)
RegisteredLater(m) == FALSE

RegisteredAtOnce(m) == m.kind = "resume"

(* mutant: the inbox of an idle worker stays registered                     *)
StillRegistered == [pc |-> "over"]

(* The inbox is unregistered when it is empty.                              *)
Unregistered == NoWorker

(* The next message; a continuation registers itself before it reads.       *)
WorkerHead ==
  /\ worker.pc = "head" /\ ~cancelled
  /\ IF inbox = <<>>
     THEN worker' = Unregistered /\ UNCHANGED <<inbox, registered>>
     ELSE /\ worker' = [pc |-> "admit", msg |-> Head(inbox), draft |-> Read]
          /\ inbox' = Tail(inbox)
          /\ registered' = RegisteredAtOnce(Head(inbox))
  /\ UNCHANGED <<row, clock, cancelled, tail, ended, ids, turns, faults, offers,
                 latest, workerFrame>>

Begin(m) == worker' = [pc |-> "open", msg |-> m]

(* admit in the worker.  An exception here is only logged: the message is   *)
(* gone.                                                                    *)
AdmitContinuation ==
  /\ worker.pc = "admit" /\ ~cancelled /\ worker.msg.kind = "resume"
  /\ IF Confirmed(worker.draft.cur, worker.msg)
     THEN /\ Begin(worker.msg)
          /\ offers' = offers \ {worker.msg.n}
          /\ registered' = TRUE
     ELSE /\ worker' = [pc |-> "head"] /\ registered' = FALSE
          /\ UNCHANGED offers
  /\ UNCHANGED <<row, clock, inbox, cancelled, tail, ended, ids, turns, faults,
                 latest, workerFrame>>

AdmitMessage ==
  /\ worker.pc = "admit" /\ ~cancelled /\ worker.msg.kind = "input"
  /\ LET d == Changed(worker.draft, Superseded(worker.draft.cur)) IN
     IF worker.draft.cur.state.status \notin Waiting
     THEN Begin(worker.msg) /\ UNCHANGED <<row, clock, ended>>
     ELSE IF Clash(d)
     THEN /\ worker' = [pc |-> "head"]
          /\ ended' = ended \cup {worker.msg.n}
          /\ UNCHANGED <<row, clock>>
     ELSE Commit(d) /\ Begin(worker.msg) /\ UNCHANGED ended
  /\ UNCHANGED <<inbox, registered, cancelled, tail, ids, turns, faults, offers,
                 latest, workerFrame>>

Open ==
  /\ worker.pc = "open" /\ ~cancelled
  /\ turns' = turns + 1
  /\ worker' = [pc |-> "restore", msg |-> worker.msg, draft |-> Read,
                turn |-> turns', ckpt |-> NoCheckpoint]
  /\ UNCHANGED <<row, clock, inbox, registered, cancelled, tail, ended, ids,
                 faults, offers, latest, workerFrame>>

To(pc, d) == [worker EXCEPT !.pc = pc, !.draft = d]
Raised == [pc |-> "complete", msg |-> worker.msg, failure |-> "internal"]

turnFrame == <<inbox, registered, cancelled, ended, ids, offers, workerFrame>>

(* A commit of the turn; an exception goes to the handler of _dispatch_one. *)
CommitTurn(cur, pc) ==
  LET d == Changed(worker.draft, cur) IN
  IF Clash(d) THEN worker' = Raised /\ UNCHANGED <<row, clock>>
  ELSE Commit(d) /\ worker' = To(pc, [base |-> row', cur |-> row'])

(* _restore_turn_state: what the last turn left is closed first, unless     *)
(* this turn continues it.                                                  *)
Restore ==
  /\ worker.pc = "restore" /\ ~cancelled
  /\ LET r == worker.draft.cur
         resume == worker.msg.kind = "resume"
         cur == IF resume THEN Restored(r) ELSE Interrupted(Restored(r))
         pc == IF resume THEN "run" ELSE "prepare"
     IN IF cur = r THEN worker' = To(pc, worker.draft) /\ UNCHANGED <<row, clock>>
        ELSE CommitTurn(cur, pc)
  /\ UNCHANGED <<tail, turns, faults, latest, turnFrame>>

(* _persist_user_message_early                                             *)
Prepare ==
  /\ worker.pc = "prepare" /\ ~cancelled
  /\ CommitTurn([worker.draft.cur EXCEPT
                   !.hist = Append(@, Row("user", worker.msg.n, 0)),
                   !.pending = TRUE], "run")
  /\ UNCHANGED <<tail, turns, faults, latest, turnFrame>>

(* Tool calls, then their results, batch by batch, then the answer.         *)
NextCheckpoints ==
  LET c == worker.ckpt
      Phase(k, phase) == [of |-> worker.turn, k |-> k, phase |-> phase]
  IN CASE c.phase = "awaiting_tools" -> {Phase(c.k, "tools_completed")}
       [] c.phase = "final_response" -> {}
       [] OTHER -> {Phase(c.k, "final_response")} \cup
                   {Phase(k, "awaiting_tools") : k \in {c.k + 1} \cap 1..MaxBatches}

(* checkpoint_view: the row, the draft and its baseline                     *)
Checkpoint ==
  /\ worker.pc = "run" /\ ~cancelled
  /\ \E c \in NextCheckpoints :
       /\ row' = [row EXCEPT !.ckpt = c]
       /\ worker' = [worker EXCEPT !.ckpt = c, !.draft.cur.ckpt = c,
                                   !.draft.base.ckpt = c]
       /\ latest' = c
  /\ tail' = TRUE
  /\ UNCHANGED <<clock, turns, faults, turnFrame>>

(* _save_turn's rows: the batches of the turn, and the answer if there is   *)
(* one.                                                                     *)
RowsOf(c, failure) ==
  [k \in 1..c.k |-> Row("tools", c.of, k)] \o
  IF failure = "none" THEN <<RowOf(c)>> ELSE <<>>

(* _persist_turn, for an answer or a failure of the model; or an exception. *)
Finish(failure) ==
  /\ worker.pc = "run" /\ ~cancelled
  /\ CASE failure = "none"  -> worker.ckpt.phase = "final_response"
       [] failure = "model" -> worker.ckpt.phase \in {"none", "tools_completed"}
       [] OTHER -> TRUE
  /\ IF failure = "none" THEN UNCHANGED faults
     ELSE CanFault(failure) /\ faults' = faults + 1
  /\ LET d == Changed(worker.draft,
                [worker.draft.cur EXCEPT
                   !.hist = @ \o RowsOf(worker.ckpt, failure),
                   !.pending = FALSE, !.ckpt = NoCheckpoint])
     IN IF failure = "internal" \/ Clash(d)
        THEN worker' = Raised /\ UNCHANGED <<row, clock>>
        ELSE /\ Commit(d)
             /\ worker' = [pc |-> "complete", msg |-> worker.msg,
                           failure |-> failure]
  /\ UNCHANGED <<tail, turns, latest, turnFrame>>

(* _handle_turn_completed_event: the transcript is closed, then             *)
(* turn_completed reads the session ...                                     *)
Complete ==
  /\ worker.pc = "complete" /\ ~cancelled
  /\ tail' = FALSE
  /\ worker' = [pc |-> "completed", msg |-> worker.msg,
                failure |-> worker.failure, draft |-> Read]
  /\ UNCHANGED <<row, clock, turns, faults, latest, turnFrame>>

(* ... and offers to continue after the model failed, or resolves a         *)
(* confirmed continuation.  An error of a subscriber is only logged.        *)
Completed ==
  /\ worker.pc = "completed" /\ ~cancelled
  /\ LET r == worker.draft.cur
         model == worker.failure = "model"
         cur == CASE model -> [r EXCEPT !.state =
                                 State("awaiting_user", ids + 1, TRUE, "model", 0)]
                  [] ~model /\ r.state.status = "resuming" -> Become(r, "recovered")
                  [] OTHER -> r
         d == Changed(worker.draft, cur)
     IN IF cur = r \/ Clash(d)
        THEN UNCHANGED <<row, clock, ids, offers>>
        ELSE /\ Commit(d)
             /\ ids' = IF model THEN ids + 1 ELSE ids
             /\ offers' = IF model THEN offers \cup {ids + 1} ELSE offers
  /\ worker' = [pc |-> "head"]
  /\ registered' = FALSE
  /\ ended' = IF worker.msg.kind = "input" THEN ended \cup {worker.msg.n} ELSE ended
  /\ UNCHANGED <<inbox, cancelled, tail, turns, faults, latest, workerFrame>>

-----------------------------------------------------------------------------
(* A cancelled worker                                                      *)

Numbers(ms) == {ms[i].n : i \in {j \in DOMAIN ms : ms[j].kind = "input"}}
InHand == IF "msg" \in DOMAIN worker THEN <<worker.msg>> ELSE <<>>

(* The inbox is swept and unregistered, and whoever waited goes on.         *)
WorkerGone ==
  /\ worker' = NoWorker /\ inbox' = <<>>
  /\ registered' = FALSE /\ cancelled' = FALSE
  /\ ended' = ended \cup Numbers(inbox) \cup Numbers(InHand)

unwindFrame == <<tail, ids, turns, faults, offers, latest, workerFrame>>

(* Where a cancellation reaches the handler that saves the partial turn: not *)
(* before the try statement, and not in the handler of an exception.  (A     *)
(* worker that has not begun is reclaimed by the /stop: see AgentDispatch.)  *)
Caught ==
  \/ worker.pc \in {"open", "restore", "prepare", "run"}
  \/ worker.pc \in {"complete", "completed"} /\ worker.failure # "internal"

Unwind ==
  /\ cancelled /\ ~Caught /\ worker.pc \notin {"none", "salvage"}
  /\ WorkerGone
  /\ UNCHANGED <<row, clock, unwindFrame>>

SalvageRead ==
  /\ cancelled /\ Caught
  /\ worker' = [pc |-> "salvage", msg |-> worker.msg, draft |-> Read]
  /\ UNCHANGED <<row, clock, inbox, registered, cancelled, ended, unwindFrame>>

Salvage ==
  /\ worker.pc = "salvage"
  /\ LET d == Changed(worker.draft,
                [Restored(worker.draft.cur) EXCEPT !.pending = FALSE])
     IN IF Clash(d) THEN UNCHANGED <<row, clock>> ELSE Commit(d)
  /\ WorkerGone
  /\ UNCHANGED unwindFrame

-----------------------------------------------------------------------------
(* The end of the gateway, and the scan of the next one before it takes     *)
(* any input                                                                *)

Crash ==
  /\ up /\ CanFault("crash")
  /\ faults' = faults + 1
  /\ up' = FALSE
  /\ bus' = <<>> /\ inbox' = <<>>
  /\ consumer' = Idle /\ worker' = NoWorker
  /\ registered' = FALSE /\ cancelled' = FALSE
  /\ click' = [c \in Clickers |-> Idle]
  /\ ended' = 1..sent
  /\ UNCHANGED <<row, tail, sent, ids, clock, turns, clicks, offers, latest>>

NeedsRecovery ==
  row.pending \/ row.ckpt # NoCheckpoint \/ row.state.status \in Waiting

(* _has_saved_continuation_context                                         *)
SavedContext(h) ==
  \E i \in 1..Len(h) :
    /\ h[i].what = "user" /\ i < Len(h)
    /\ \A j \in (i + 1)..Len(h) : h[j].what # "user"
    /\ \E j \in (i + 1)..Len(h) : h[j].what \in {"tools", "cut", "closing"}

(* _recover_session: what becomes of an interrupted session.  A set of one, *)
(* or of none when nothing is written.                                      *)
Recovered ==
  LET New(r, status, can) ==
        [r EXCEPT !.state = State(status, ids + 1, can, "other", 0)]
      s == row.state
  IN CASE ~row.pending /\ row.ckpt = NoCheckpoint /\ s.status = "resuming" ->
            {Become(row, IF Len(row.hist) > s.count THEN "recovered"
                         ELSE "awaiting_user")}
       [] ~row.pending /\ row.ckpt = NoCheckpoint /\ s.status # "resuming" /\ tail ->
            {New(row, "awaiting_user", SavedContext(row.hist))}
       [] ~row.pending /\ row.ckpt = NoCheckpoint /\ s.status # "resuming" /\ ~tail -> {}
       [] (row.pending \/ row.ckpt # NoCheckpoint) /\ s.status = "resuming" ->
            {Become(Interrupted(Restored(row)), "awaiting_user")}
       [] (row.pending \/ row.ckpt # NoCheckpoint) /\ s.status \notin Waiting ->
            {New(Restored(row), IF row.ckpt.phase = "final_response"
                                THEN "recovered" ELSE "awaiting_user", TRUE)}
       [] OTHER -> {}

(* When the commit fails, the draft is saved with the failure.              *)
FailedScan(r) ==
  [r EXCEPT !.state = State("failed", r.state.id, FALSE, "other", 0)]

Restart ==
  /\ ~up /\ up' = TRUE
  /\ LET found == IF NeedsRecovery \/ tail THEN Recovered ELSE {} IN
     \/ /\ found = {}
        /\ UNCHANGED <<row, clock, ids, offers>>
     \/ \E r \in found, failed \in BOOLEAN :
          /\ failed => "scan" \in Faults
          /\ row' = IF failed THEN FailedScan(r) ELSE r
          /\ clock' = clock + 1
          /\ ids' = IF r.state.id > ids THEN r.state.id ELSE ids
          /\ offers' = IF row'.state.status = "awaiting_user"
                       THEN offers \cup {r.state.id} ELSE offers
  /\ UNCHANGED <<bus, inbox, consumer, worker, registered, cancelled, click, tail,
                 sent, ended, turns, clicks, faults, latest>>

-----------------------------------------------------------------------------
Consumer == Take \/ Stopped \/ AdmitResume \/ AdmitInput \/ CancelRecovery
            \/ Supersede \/ PutInput

Worker == \/ WorkerHead \/ AdmitContinuation \/ AdmitMessage
          \/ Open \/ Restore \/ Prepare \/ Checkpoint \/ Finish("none")
          \/ Complete \/ Completed \/ Unwind \/ SalvageRead \/ Salvage

Handler(c) == Dismiss(c) \/ Continue(c) \/ QueueContinuation(c)

Next == \/ Send \/ SendStop
        \/ \E c \in Clickers :
             Handler(c) \/ \E action \in {"dismiss", "continue"} : Click(c, action)
        \/ Consumer \/ Worker
        \/ Finish("model") \/ Finish("internal")
        \/ Crash \/ Restart

Spec == Init /\ [][Next]_vars

(* The event loop runs every ready task, a turn ends, and a stopped gateway *)
(* is started again.                                                        *)
FairSpec == /\ Spec
            /\ WF_vars(Consumer) /\ WF_vars(Worker) /\ WF_vars(Restart)
            /\ \A c \in Clickers : WF_vars(Handler(c))

-----------------------------------------------------------------------------
(* The latest checkpoint of a turn is never lost: it is still in the row,   *)
(* or the history holds what it stands for.                                 *)
LatestKept == \/ latest = NoCheckpoint
              \/ row.ckpt = latest
              \/ RowOf(latest) \in Range(row.hist)

(* A newer message supersedes a continuation before it is routed: it never  *)
(* waits in the inbox of a continuation, which would take it for a          *)
(* follow-up of its own.  Only what the user dismissed is past superseding; *)
(* a dismissed continuation runs on.                                        *)
NewerInputWins ==
  /\ worker.pc \in {"open", "restore", "run"} /\ worker.msg.kind = "resume"
  /\ ~cancelled /\ Numbers(inbox) # {}
  => row.state.reason = "dismissed"

(* Model work is resumed once for an offer: neither clicks at the same      *)
(* time, nor a stop, nor a restart let a second continuation of the same    *)
(* interruption begin.                                                      *)
OneRunPerOffer ==
  [][worker.pc = "admit" /\ worker'.pc = "open" /\ worker.msg.kind = "resume"
     => worker.msg.n \in offers]_vars

(* Whoever waits for whom, every message of the user is handled, refused,   *)
(* stopped, or lost with the gateway: again and again none is left over     *)
(* (the messages are bounded).                                              *)
EveryInputEnds == []<>(ended = 1..sent)

(* session/recovery.py: "Materialize the durable checkpoint exactly once."  *)
CheckpointOnce ==
  \A i, j \in DOMAIN row.hist :
    row.hist[i].what \in {"tools", "cut"} /\ row.hist[i].of = row.hist[j].of
    /\ row.hist[i].k = row.hist[j].k /\ row.hist[j].what \in {"tools", "cut"} => i = j
=============================================================================
