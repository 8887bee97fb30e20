--------------------------- MODULE LocalTriggers ---------------------------
(***************************************************************************)
(* The durable queue of local triggers (nanobot/triggers/local_store.py,   *)
(* local_runner.py) behind the gate of runtime_admission.py.               *)
(*                                                                         *)
(* A command-line process writes a delivery file to inbox/.  The gateway's *)
(* runner moves a batch to processing/, runs its deliveries one after the  *)
(* other as session turns and deletes, requeues or gives up each of them.  *)
(* The WebUI switches and deletes triggers from threads of the gateway.    *)
(* All of them share one file lock.  Either process may die at any step;   *)
(* files survive, the runner's batch and the lock do not.                  *)
(*                                                                         *)
(* A step is one change of the directory tree or of the runner's memory.   *)
(* File names sort by age: a delivery is its place in that order.          *)
(***************************************************************************)
EXTENDS Integers, Sequences, FiniteSets

CONSTANTS Triggers,       \* triggers created before the behaviour
          Deliveries,     \* numbers of the deliveries, in file name order
          NoTrigger,      \* the trigger of a delivery never written
          BatchSize,      \* claim_deliveries(limit)
          MaxAttempts,    \* _MAX_DELIVERY_ATTEMPTS
          ErrorsHappen,   \* whether reading and writing the store may fail
          MaxDisturbances, \* bound: crashes, I/O errors and cancellations
          MaxChanges      \* bound: pauses of maintenance, switched triggers

ASSUME DeliveriesAssumption == Deliveries \subseteq Nat
ASSUME TriggersAssumption == NoTrigger \notin Triggers
ASSUME LimitsAssumption == /\ BatchSize \in Nat \ {0}
                           /\ MaxAttempts \in Nat \ {0}
                           /\ MaxDisturbances \in Nat /\ MaxChanges \in Nat
                           /\ ErrorsHappen \in BOOLEAN

VARIABLES
  trig,       \* trig[t]: "on", "off" or "gone" in triggers.json
  of,         \* of[d]: the trigger d was written for
  inbox,      \* inbox[d]: the attempts in d's file there, or NoFile
  processing, \* likewise
  failed,     \* likewise
  told,       \* told[d]: what the command line of d has reported
  sweep,      \* the trigger whose files a deletion is removing
  pc,         \* what the runner does
  batch,      \* the deliveries the runner has claimed: number and attempts
  why,        \* how the current delivery came out
  paused,     \* RuntimeAdmission._paused
  runs,       \* runs[d]: how often d was submitted to its session
  ended,      \* ended[d]: why d was completed, "no" before
  disturbances, \* what failed so far: crashes, I/O errors, cancellations
  changes     \* pauses and switches so far, which are no failures

fileVars == <<inbox, processing, failed>>
storeVars == <<trig, of, fileVars>>
runnerVars == <<pc, batch, why>>
countVars == <<disturbances, changes>>
vars == <<storeVars, told, sweep, runnerVars, paused, runs, ended, countVars>>

NoFile == -1
Outcomes == {"ok", "error", "dropped"}

(* The runner inside "with gate.activity()".                               *)
Active == {"claim", "check", "submit", "turn", "record", "finish",
           "retry", "retryUnlink"}
(* The runner between two awaits.                                          *)
Synchronous == {"recover", "recoverUnlink", "loop"}
(* The runner inside "with self._lock".                                    *)
Locking == {"recover", "recoverUnlink", "claim", "retryUnlink"}

Locked == \/ \E d \in Deliveries : told[d] = "writing"
          \/ sweep # NoTrigger
          \/ pc \in Locking

Init ==
  /\ trig = [t \in Triggers |-> "on"]
  /\ of = [d \in Deliveries |-> NoTrigger]
  /\ inbox = [d \in Deliveries |-> NoFile]
  /\ processing = [d \in Deliveries |-> NoFile]
  /\ failed = [d \in Deliveries |-> NoFile]
  /\ told = [d \in Deliveries |-> "nothing"]
  /\ sweep = NoTrigger
  /\ pc = "down"
  /\ batch = <<>>
  /\ why = "ok"
  /\ paused = FALSE
  /\ runs = [d \in Deliveries |-> 0]
  /\ ended = [d \in Deliveries |-> "no"]
  /\ disturbances = 0 /\ changes = 0

Disturb == /\ disturbances < MaxDisturbances
           /\ disturbances' = disturbances + 1
           /\ UNCHANGED changes

Change == /\ changes < MaxChanges
          /\ changes' = changes + 1
          /\ UNCHANGED disturbances

IOError == ErrorsHappen /\ Disturb

-----------------------------------------------------------------------------
(* The command line: enqueue writes the file, then the run record and the  *)
(* trigger, all under the lock; an error on the way takes the file back.   *)

Enqueue(d, t) ==
  /\ ~Locked
  /\ of[d] = NoTrigger
  /\ trig[t] = "on"
  /\ of' = [of EXCEPT ![d] = t]
  /\ inbox' = [inbox EXCEPT ![d] = 0]
  /\ told' = [told EXCEPT ![d] = "writing"]
  /\ UNCHANGED <<trig, processing, failed, sweep, runnerVars, paused, runs,
                 ended, countVars>>

EnqueueSaved(d) ==
  /\ told[d] = "writing"
  /\ told' = [told EXCEPT ![d] = "queued"]
  /\ UNCHANGED <<storeVars, sweep, runnerVars, paused, runs, ended,
                 countVars>>

EnqueueFails(d) ==
  /\ told[d] = "writing"
  /\ IOError
  /\ told' = [told EXCEPT ![d] = "refused"]
  /\ inbox' = [inbox EXCEPT ![d] = NoFile]
  /\ UNCHANGED <<trig, of, processing, failed, sweep, runnerVars, paused,
                 runs, ended>>

EnqueueKilled(d) ==
  /\ told[d] = "writing"
  /\ Disturb
  /\ told' = [told EXCEPT ![d] = "silent"]
  /\ UNCHANGED <<storeVars, sweep, runnerVars, paused, runs, ended>>

(* The WebUI: a trigger is switched, or it leaves the store and then its   *)
(* files leave the directories.  A file that cannot be removed stays.      *)

Switch(t, s) ==
  /\ pc # "down"
  /\ ~Locked
  /\ trig[t] # "gone"
  /\ trig[t] # s
  /\ Change
  /\ trig' = [trig EXCEPT ![t] = s]
  /\ UNCHANGED <<of, fileVars, told, sweep, runnerVars, paused, runs, ended>>

Delete(t) ==
  /\ pc # "down"
  /\ ~Locked
  /\ trig[t] # "gone"
  /\ trig' = [trig EXCEPT ![t] = "gone"]
  /\ sweep' = t
  /\ UNCHANGED <<of, fileVars, told, runnerVars, paused, runs, ended,
                 countVars>>

Without(files, S) == [d \in Deliveries |-> IF d \in S THEN NoFile ELSE files[d]]

Swept == {d \in Deliveries : of[d] = sweep}

RemoveFiles(S) ==
  /\ sweep # NoTrigger
  /\ inbox' = Without(inbox, S)
  /\ processing' = Without(processing, S)
  /\ failed' = Without(failed, S)
  /\ sweep' = NoTrigger
  /\ UNCHANGED <<trig, of, told, runnerVars, paused, runs, ended>>

SweepFiles == RemoveFiles(Swept) /\ UNCHANGED countVars

SweepFails == \E S \in SUBSET Swept : S # Swept /\ RemoveFiles(S) /\ IOError

-----------------------------------------------------------------------------
(* The gate.  Maintenance closes it only when no activity is counted; the  *)
(* waiters its release wakes test it again, for it may be closed anew.     *)

(* mutant: only the turn itself counts as activity *)
IdleBetweenTurns(p) == p \notin {"submit", "turn"}

Idle(p) == p \notin Active
(* mutant: the release wakes nobody *)
WokenNever(p) == p

Woken(p) == IF p = "bootWait" THEN "boot"
            ELSE IF p = "gateWait" THEN "sleep" ELSE p

Pause ==
  /\ ~paused
  /\ Idle(pc)
  /\ pc \notin Synchronous \cup {"down"}
  /\ Change
  /\ paused' = TRUE
  /\ UNCHANGED <<storeVars, told, sweep, runnerVars, runs, ended>>

Release ==
  /\ paused
  /\ paused' = FALSE
  /\ pc' = Woken(pc)
  /\ UNCHANGED <<storeVars, told, sweep, batch, why, runs, ended,
                 countVars>>

RunnerKeeps == UNCHANGED <<trig, of, told, sweep, paused>>

WaitAtGate ==
  /\ paused
  /\ \/ pc = "boot" /\ pc' = "bootWait"
     \/ pc = "sleep" /\ pc' = "gateWait"
  /\ RunnerKeeps
  /\ UNCHANGED <<fileVars, batch, why, runs, ended, countVars>>

-----------------------------------------------------------------------------
(* The gateway starts, possibly held for an update, and requeues what its  *)
(* predecessor had claimed.                                                *)

Restart ==
  /\ pc = "down"
  /\ pc' = "boot"
  /\ paused' \in BOOLEAN
  /\ UNCHANGED <<storeVars, told, sweep, batch, why, runs, ended,
                 countVars>>

(* _retry_delivery_unlocked writes the new file first and removes the one  *)
(* in processing/ in a second step.                                        *)
Attempted(n) == n + 1

(* mutant: a delivery out of attempts is not kept in failed/ *)
PutBackOrLose(d, n) ==
  /\ inbox' = [inbox EXCEPT ![d] = IF Attempted(n) >= MaxAttempts THEN NoFile
                                   ELSE Attempted(n)]
  /\ UNCHANGED failed

PutBack(d, n) ==
  IF Attempted(n) >= MaxAttempts
  THEN /\ failed' = [failed EXCEPT ![d] = Attempted(n)]
       /\ UNCHANGED inbox
  ELSE /\ inbox' = [inbox EXCEPT ![d] = Attempted(n)]
       /\ UNCHANGED failed

Interrupted == {d \in Deliveries : processing[d] # NoFile}
Oldest(d, S) == d \in S /\ \A x \in S : d <= x

(* mutant: deliveries already waiting come before the interrupted ones *)
RecoverBeginLater ==
  /\ pc = "boot"
  /\ ~paused
  /\ ~Locked
  /\ pc' = IF \E d \in Deliveries : inbox[d] # NoFile THEN "loop" ELSE "recover"
  /\ RunnerKeeps
  /\ UNCHANGED <<fileVars, batch, why, runs, ended, countVars>>

RecoverBegin ==
  /\ pc = "boot"
  /\ ~paused
  /\ ~Locked
  /\ pc' = "recover"
  /\ RunnerKeeps
  /\ UNCHANGED <<fileVars, batch, why, runs, ended, countVars>>

RecoverWrite(d) ==
  /\ pc = "recover"
  /\ Oldest(d, Interrupted)
  /\ PutBack(d, processing[d])
  /\ pc' = "recoverUnlink"
  /\ RunnerKeeps
  /\ UNCHANGED <<processing, batch, why, runs, ended, countVars>>

RecoverUnlink(d) ==
  /\ pc = "recoverUnlink"
  /\ Oldest(d, Interrupted)
  /\ processing' = [processing EXCEPT ![d] = NoFile]
  /\ pc' = "recover"
  /\ RunnerKeeps
  /\ UNCHANGED <<inbox, failed, batch, why, runs, ended, countVars>>

(* mutant: a restart also requeues what was given up *)
RecoverEndReviving ==
  /\ pc = "recover"
  /\ Interrupted = {}
  /\ pc' = "loop"
  /\ inbox' = [d \in Deliveries |-> IF failed[d] = NoFile THEN inbox[d] ELSE 0]
  /\ failed' = [d \in Deliveries |-> NoFile]
  /\ RunnerKeeps
  /\ UNCHANGED <<processing, batch, why, runs, ended, countVars>>

RecoverEnd ==
  /\ pc = "recover"
  /\ Interrupted = {}
  /\ pc' = "loop"
  /\ RunnerKeeps
  /\ UNCHANGED <<fileVars, batch, why, runs, ended, countVars>>

-----------------------------------------------------------------------------
(* The polling loop: one batch is claimed, oldest file first.              *)

Pending == {d \in Deliveries : inbox[d] # NoFile}

ClaimBegin ==
  /\ pc \in {"loop", "sleep"}
  /\ ~paused
  /\ ~Locked
  /\ pc' = "claim"
  /\ RunnerKeeps
  /\ UNCHANGED <<fileVars, batch, why, runs, ended, countVars>>

ClaimNext(d) ==
  /\ pc = "claim"
  /\ Len(batch) < BatchSize
  /\ Oldest(d, Pending)
  /\ inbox' = [inbox EXCEPT ![d] = NoFile]
  /\ processing' = [processing EXCEPT ![d] = inbox[d]]
  /\ batch' = Append(batch, [id |-> d, n |-> inbox[d]])
  /\ RunnerKeeps
  /\ UNCHANGED <<failed, pc, why, runs, ended, countVars>>

ClaimEnd ==
  /\ pc = "claim"
  /\ Len(batch) = BatchSize \/ Pending = {}
  /\ pc' = IF batch = <<>> THEN "sleep" ELSE "check"
  /\ RunnerKeeps
  /\ UNCHANGED <<fileVars, batch, why, runs, ended, countVars>>

Current == Head(batch)

NextDelivery ==
  /\ batch' = Tail(batch)
  /\ pc' = IF Tail(batch) = <<>> THEN "loop" ELSE "check"

-----------------------------------------------------------------------------
(* _run_delivery.  An error inside its try statement leads to a retry; one *)
(* in its handlers ends the runner, and with it the gateway (Crash).       *)

Deliverable(t) == trig[t] = "on"

Check ==
  /\ pc = "check"
  /\ ~Locked
  /\ \/ /\ Deliverable(of[Current.id])
        /\ pc' = "submit"
        /\ UNCHANGED why
     \/ pc' = "record" /\ why' = "dropped" \* also: its channel is disabled
  /\ RunnerKeeps
  /\ UNCHANGED <<fileVars, batch, runs, ended, countVars>>

Submit ==
  /\ pc = "submit"
  /\ runs' = [runs EXCEPT ![Current.id] = @ + 1]
  /\ pc' = "turn"
  /\ RunnerKeeps
  /\ UNCHANGED <<fileVars, batch, why, ended, countVars>>

TurnEnds(outcome) ==
  /\ pc = "turn"
  /\ pc' = "record"
  /\ why' = outcome
  /\ RunnerKeeps
  /\ UNCHANGED <<fileVars, batch, runs, ended, countVars>>

Record ==
  /\ pc = "record"
  /\ ~Locked
  /\ pc' = "finish"
  /\ RunnerKeeps
  /\ UNCHANGED <<fileVars, batch, why, runs, ended, countVars>>

Complete(d) == processing' = [processing EXCEPT ![d] = NoFile]

(* mutant: a dropped delivery is recorded but its file stays *)
FinishKeepingDropped ==
  /\ pc = "finish"
  /\ ~Locked
  /\ IF why = "dropped" THEN UNCHANGED processing ELSE Complete(Current.id)
  /\ ended' = [ended EXCEPT ![Current.id] = why]
  /\ NextDelivery
  /\ RunnerKeeps
  /\ UNCHANGED <<inbox, failed, why, runs, countVars>>

(* mutant: the files of a batch are removed when the batch is over *)
FinishBatch ==
  /\ pc = "finish"
  /\ ~Locked
  /\ IF Len(batch) > 1 THEN UNCHANGED processing
     ELSE processing' = [d \in Deliveries |-> NoFile]
  /\ ended' = [ended EXCEPT ![Current.id] = why]
  /\ NextDelivery
  /\ RunnerKeeps
  /\ UNCHANGED <<inbox, failed, why, runs, countVars>>

Finish ==
  /\ pc = "finish"
  /\ ~Locked
  /\ Complete(Current.id)
  /\ ended' = [ended EXCEPT ![Current.id] = why]
  /\ NextDelivery
  /\ RunnerKeeps
  /\ UNCHANGED <<inbox, failed, why, runs, countVars>>

(* A failing store or session owner, before, in or after the turn.         *)
Error ==
  /\ \/ pc \in {"check", "submit", "turn"}
     \/ pc \in {"record", "finish"} /\ why = "ok"
  /\ IOError
  /\ pc' = "retry"
  /\ why' = "retry"
  /\ RunnerKeeps
  /\ UNCHANGED <<fileVars, batch, runs, ended>>

(* The gateway shuts down and cancels the runner, which requeues what it   *)
(* was waiting for and leaves the rest of its batch in processing/.        *)
Cancel ==
  /\ pc = "turn"
  /\ Disturb
  /\ pc' = "retry"
  /\ why' = "cancel"
  /\ RunnerKeeps
  /\ UNCHANGED <<fileVars, batch, runs, ended>>

RetryWrite ==
  /\ pc = "retry"
  /\ ~Locked
  /\ PutBack(Current.id, Current.n)
  /\ pc' = "retryUnlink"
  /\ RunnerKeeps
  /\ UNCHANGED <<processing, batch, why, runs, ended, countVars>>

RetryUnlink ==
  /\ pc = "retryUnlink"
  /\ Complete(Current.id)
  /\ IF why = "cancel" THEN pc' = "down" /\ batch' = <<>> ELSE NextDelivery
  /\ RunnerKeeps
  /\ UNCHANGED <<inbox, failed, why, runs, ended, countVars>>

Crash ==
  /\ pc # "down"
  /\ Disturb
  /\ pc' = "down"
  /\ batch' = <<>>
  /\ sweep' = NoTrigger
  /\ paused' = FALSE
  /\ UNCHANGED <<storeVars, told, why, runs, ended>>
-----------------------------------------------------------------------------

CommandLine(d) == \/ \E t \in Triggers : Enqueue(d, t)
                  \/ EnqueueSaved(d) \/ EnqueueFails(d) \/ EnqueueKilled(d)

WebUI == \/ \E t \in Triggers : Delete(t) \/ \E s \in {"on", "off"} : Switch(t, s)
         \/ SweepFiles \/ SweepFails

RunnerStep ==
  \/ WaitAtGate
  \/ RecoverBegin \/ RecoverEnd
  \/ \E d \in Deliveries : RecoverWrite(d) \/ RecoverUnlink(d)
  \/ ClaimBegin \/ ClaimEnd
  \/ \E d \in Deliveries : ClaimNext(d)
  \/ Check \/ Submit \/ Record \/ Finish
  \/ RetryWrite \/ RetryUnlink
  \/ \E outcome \in {"ok", "error"} : TurnEnds(outcome)

Next == \/ \E d \in Deliveries : CommandLine(d)
        \/ WebUI
        \/ RunnerStep
        \/ Restart \/ Error \/ Cancel \/ Crash
        \/ Pause \/ Release

Spec == Init /\ [][Next]_vars

(* Processes that are alive take their steps, maintenance ends, a stopped  *)
(* gateway is started again, and every turn is answered.                   *)
FairSpec == /\ Spec
            /\ WF_vars(RunnerStep)
            /\ WF_vars(Restart)
            /\ WF_vars(Release)
            /\ WF_vars(SweepFiles)
            /\ \A d \in Deliveries : WF_vars(EnqueueSaved(d))

-----------------------------------------------------------------------------
File == {NoFile} \cup 0 .. MaxAttempts
Claim == [id : Deliveries, n : 0 .. MaxAttempts]

(* Every variable holds a value of its type.                               *)
TypeOK ==
  /\ trig \in [Triggers -> {"on", "off", "gone"}]
  /\ of \in [Deliveries -> Triggers \cup {NoTrigger}]
  /\ inbox \in [Deliveries -> File]
  /\ processing \in [Deliveries -> File]
  /\ failed \in [Deliveries -> File]
  /\ told \in [Deliveries -> {"nothing", "writing", "queued", "refused", "silent"}]
  /\ sweep \in Triggers \cup {NoTrigger}
  /\ pc \in Active \cup Synchronous
            \cup {"down", "boot", "bootWait", "sleep", "gateWait"}
  /\ batch \in Seq(Claim)
  /\ why \in Outcomes \cup {"retry", "cancel"}
  /\ paused \in BOOLEAN
  /\ runs \in [Deliveries -> Nat]
  /\ ended \in [Deliveries -> Outcomes \cup {"no"}]
  /\ disturbances \in 0 .. MaxDisturbances /\ changes \in 0 .. MaxChanges

(* The trigger of d was deleted after d was written.                       *)
Withdrawn(d) == of[d] # NoTrigger /\ trig[of[d]] = "gone"

(* A message the command line has reported as queued, or had written when  *)
(* it died, is in one of the three directories until it is completed, or   *)
(* its trigger is deleted: no crash between two renames loses it.          *)
NothingForgotten ==
  \A d \in Deliveries :
    /\ told[d] \in {"queued", "silent"}
    /\ ended[d] = "no"
    /\ ~Withdrawn(d)
    => inbox[d] # NoFile \/ processing[d] # NoFile \/ failed[d] # NoFile

(* An enqueue that reported an error leaves nothing behind that runs.      *)
RefusedNeverRuns == \A d \in Deliveries : told[d] = "refused" => runs[d] = 0

(* A delivery has two files only between the write and the removal of a    *)
(* requeue, or after a crash there, and then they count one attempt apart; *)
(* no batch is claimed or run while such a pair exists.                    *)
OneCopy ==
  \A d \in Deliveries :
    processing[d] # NoFile /\ (inbox[d] # NoFile \/ failed[d] # NoFile)
    => /\ inbox[d] \in {NoFile, processing[d] + 1}
       /\ failed[d] \in {NoFile, processing[d] + 1}
       /\ \/ pc \in {"down", "boot", "bootWait", "recover", "recoverUnlink"}
          \/ pc = "retryUnlink" /\ d = Current.id

(* Whatever fails, crashes or is requeued, a message is handed to its      *)
(* session at most _MAX_DELIVERY_ATTEMPTS times.                           *)
BoundedRuns == \A d \in Deliveries : runs[d] <= MaxAttempts

(* The runs of a message after its first one.                              *)
Repeats == UNION {{d} \X (2 .. runs[d]) : d \in Deliveries}

(* A message runs again only because something failed, and one failure     *)
(* repeats one message at most, however large the batch it interrupts.     *)
(* A pause or a switched trigger is no failure and repeats nothing.        *)
OneRepeatPerFailure == Cardinality(Repeats) <= disturbances

(* While maintenance holds the gate closed no delivery is claimed, run or  *)
(* requeued: the runner enters only past the gate and the gate closes only *)
(* on an idle runner.                                                      *)
MaintenanceIsQuiet == paused => pc \notin Active \cup Synchronous

(* Every message reported as queued is completed or given up, unless its   *)
(* trigger is deleted.                                                     *)
Concluded(d) == ended[d] # "no" \/ failed[d] # NoFile \/ Withdrawn(d)

EveryMessageConcluded ==
  \A d \in Deliveries : told[d] = "queued" ~> Concluded(d)

(* The messages of a deleted trigger leave inbox/ and processing/ for good *)
(* even when a requeue or a failed removal puts one back.                  *)
DeletedIsDrained ==
  \A d \in Deliveries :
    Withdrawn(d) ~> [](inbox[d] = NoFile /\ processing[d] = NoFile)

(* The queue implements its abstract promise: what left it never runs.     *)
Claimed == {batch[i].id : i \in DOMAIN batch}
Queued == Pending \cup Interrupted \cup Claimed

Promise == INSTANCE AtLeastOnce WITH
             MaxRuns <- MaxAttempts,
             put <- {d \in Deliveries : of[d] # NoTrigger},
             queued <- Queued

ImplementsPromise == Promise!Spec
=============================================================================
