------------------------- MODULE LocalTriggers_proofs -------------------------
(***************************************************************************)
(* Proofs about LocalTriggers for every set of triggers and deliveries,    *)
(* every batch size, attempt limit and number of disturbances.             *)
(***************************************************************************)
EXTENDS LocalTriggers, SequenceTheorems, FiniteSetTheorems, TLAPS

(* The two counters are always looked at one by one.                       *)
USE DEF countVars

(***************************************************************************)
(* The inductive invariant.  The lock has one holder; what a claimed       *)
(* delivery remembers agrees with its file; runs never exceed the attempts *)
(* a file counts, by more than the one in hand; a file is removed only     *)
(* when another one, or an end, stands for the message.                    *)
(***************************************************************************)
Writing(d) == told[d] = "writing"
InBatch(d) == \E i \in 1 .. Len(batch) : batch[i].id = d
Submitted == {"turn", "record", "finish", "retry", "retryUnlink"}

OneHolder ==
  /\ \A d, e \in Deliveries : Writing(d) /\ Writing(e) => d = e
  /\ \A d \in Deliveries : Writing(d) => sweep = NoTrigger /\ pc \notin Locking
  /\ sweep # NoTrigger => pc \notin Locking /\ trig[sweep] = "gone"

Fresh ==
  \A d \in Deliveries :
    /\ told[d] = "nothing" => of[d] = NoTrigger
    /\ of[d] = NoTrigger => told[d] = "nothing" /\ inbox[d] = NoFile
    /\ told[d] \in {"nothing", "writing", "refused"} =>
         runs[d] = 0 /\ processing[d] = NoFile /\ failed[d] = NoFile /\ ~InBatch(d)
    /\ told[d] = "refused" => inbox[d] = NoFile
    /\ told[d] = "writing" => inbox[d] # NoFile

BatchStages ==
  /\ batch # <<>> => pc \in Active
  /\ pc \in Active \ {"claim"} => batch # <<>>
  /\ pc \in {"record", "finish"} => why \in Outcomes
  /\ \A i, j \in 1 .. Len(batch) : batch[i].id = batch[j].id => i = j

InHand(d, n, first) ==
  /\ n < MaxAttempts
  /\ processing[d] \in {NoFile, n}
  /\ IF first /\ pc = "retryUnlink" THEN inbox[d] # NoFile \/ failed[d] # NoFile
     ELSE inbox[d] = NoFile /\ failed[d] = NoFile
  /\ runs[d] <= IF first /\ pc \in Submitted THEN n + 1 ELSE n

BatchAgrees ==
  \A i \in 1 .. Len(batch) : InHand(batch[i].id, batch[i].n, i = 1)

FilesCount ==
  \A d \in Deliveries :
    /\ inbox[d] # NoFile =>
         inbox[d] < MaxAttempts /\ runs[d] <= inbox[d] /\ failed[d] = NoFile
    /\ processing[d] # NoFile =>
         processing[d] < MaxAttempts /\ runs[d] <= processing[d] + 1
    /\ failed[d] # NoFile => failed[d] = MaxAttempts
    /\ runs[d] <= MaxAttempts

Requeued ==
  \A d \in Deliveries :
    pc = "recoverUnlink" /\ Oldest(d, Interrupted)
      => inbox[d] # NoFile \/ failed[d] # NoFile

IInv ==
  /\ TypeOK
  /\ OneHolder
  /\ Fresh
  /\ BatchStages
  /\ BatchAgrees
  /\ FilesCount
  /\ OneCopy
  /\ Requeued
  /\ NothingForgotten
  /\ MaintenanceIsQuiet

-----------------------------------------------------------------------------
(* The initial state satisfies the invariant. *)
LEMMA InitIInv == Init => IInv
<1> SUFFICES ASSUME Init PROVE IInv
  OBVIOUS
<1> USE DeliveriesAssumption, TriggersAssumption, LimitsAssumption DEF NoFile
<1>1. TypeOK
  <2>1. NoFile \in File /\ 0 \in 0 .. MaxDisturbances /\ 0 \in 0 .. MaxChanges /\ batch \in Seq(Claim)
    BY DEF Init, File
  <2> QED
    BY <2>1 DEF Init, TypeOK, Active, Synchronous, Outcomes
<1>2. OneHolder
  BY DEF Init, OneHolder, Writing, Locking
<1>3. Fresh
  BY DEF Init, Fresh, InBatch
<1>4. BatchStages
  BY DEF Init, BatchStages, Active
<1>5. BatchAgrees
  BY DEF Init, BatchAgrees
<1>6. FilesCount
  BY DEF Init, FilesCount
<1>7. OneCopy
  BY DEF Init, OneCopy
<1>8. Requeued
  BY DEF Init, Requeued
<1>9. NothingForgotten
  BY DEF Init, NothingForgotten
<1>10. MaintenanceIsQuiet
  BY DEF Init, MaintenanceIsQuiet
<1> QED
  BY <1>1, <1>2, <1>3, <1>4, <1>5, <1>6, <1>7, <1>8, <1>9, <1>10 DEF IInv

(* A member of the batch is a delivery and the attempts its file counted. *)
LEMMA BatchTyped ==
  ASSUME TypeOK, NEW i \in 1 .. Len(batch)
  PROVE  batch[i].id \in Deliveries /\ batch[i].n \in 0 .. MaxAttempts
<1>1. batch[i] \in Claim
  BY DEF TypeOK
<1> QED
  BY <1>1 DEF Claim

(* Failures and changes are counted within their bounds.                   *)
Counted == disturbances \in 0 .. MaxDisturbances /\ changes \in 0 .. MaxChanges

LEMMA StepCounted ==
  ASSUME TypeOK, UNCHANGED countVars \/ Disturb \/ Change
  PROVE  Counted'
BY LimitsAssumption DEF TypeOK, Counted, Disturb, Change

(* The steps of the runner and the gate that touch no file, no message and *)
(* no member of the batch: they only move the control.                     *)
ControlStep ==
  \/ WaitAtGate \/ RecoverBegin \/ RecoverEnd \/ ClaimBegin \/ ClaimEnd
  \/ Check \/ Record \/ Error \/ Cancel \/ Restart \/ Pause \/ Release
  \/ \E outcome \in {"ok", "error"} : TurnEnds(outcome)

LEMMA StepControl == IInv /\ ControlStep => IInv'
<1> SUFFICES ASSUME IInv, ControlStep PROVE IInv'
  OBVIOUS
<1> USE DeliveriesAssumption, TriggersAssumption, LimitsAssumption DEF NoFile
<1>0. TypeOK /\ OneHolder /\ Fresh /\ BatchStages /\ BatchAgrees /\ FilesCount
      /\ OneCopy /\ Requeued /\ NothingForgotten /\ MaintenanceIsQuiet
  BY DEF IInv
<1>a. UNCHANGED <<storeVars, told, sweep, batch, runs, ended>>
  BY DEF ControlStep, WaitAtGate, RecoverBegin, RecoverEnd, ClaimBegin, ClaimEnd,
     Check, Record, Error, Cancel, Restart, Pause, Release, TurnEnds, RunnerKeeps,
     storeVars, fileVars, runnerVars
<1>1. TypeOK'
  <2>1. Counted'
    <3>1. UNCHANGED countVars \/ Disturb \/ Change
      BY DEF ControlStep, WaitAtGate, RecoverBegin, RecoverEnd, ClaimBegin,
         ClaimEnd, Check, Record, Error, Cancel, Restart, Pause, Release, TurnEnds,
         IOError
    <3> QED
      BY <1>0, <3>1, StepCounted
  <2>2. paused' \in BOOLEAN
    <3>1. paused' = paused \/ paused' \in BOOLEAN
      BY DEF ControlStep, WaitAtGate, RecoverBegin, RecoverEnd, ClaimBegin,
         ClaimEnd, Check, Record, Error, Cancel, Restart, Pause, Release, TurnEnds,
         RunnerKeeps
    <3> QED
      BY <1>0, <3>1 DEF TypeOK
  <2>3. why' \in Outcomes \cup {"retry", "cancel"}
    BY <1>0 DEF ControlStep, WaitAtGate, RecoverBegin, RecoverEnd, ClaimBegin,
       ClaimEnd, Check, Record, Error, Cancel, Restart, Pause, Release, TurnEnds,
       runnerVars, Outcomes, TypeOK
  <2>4. pc' \in Active \cup Synchronous
                \cup {"down", "boot", "bootWait", "sleep", "gateWait"}
    BY <1>0 DEF ControlStep, WaitAtGate, RecoverBegin, RecoverEnd, ClaimBegin,
       ClaimEnd, Check, Record, Error, Cancel, Restart, Pause, Release, TurnEnds,
       runnerVars, Woken, Active, Synchronous, TypeOK
  <2> QED
    BY <1>0, <1>a, <2>1, <2>2, <2>3, <2>4 DEF TypeOK, Counted, storeVars, fileVars
<1>2. OneHolder'
  BY <1>0, <1>a DEF ControlStep, WaitAtGate, RecoverBegin, RecoverEnd, ClaimBegin,
     ClaimEnd, Check, Record, Error, Cancel, Restart, Pause, Release, TurnEnds,
     Woken, runnerVars, OneHolder, Writing, Locking, Locked, storeVars
<1>3. Fresh'
  BY <1>0, <1>a DEF Fresh, InBatch, storeVars, fileVars
<1>4. BatchStages'
  BY <1>0, <1>a DEF ControlStep, WaitAtGate, RecoverBegin, RecoverEnd, ClaimBegin,
     ClaimEnd, Check, Record, Error, Cancel, Restart, Pause, Release, TurnEnds,
     Woken, runnerVars, BatchStages, Active, Outcomes
<1>5. BatchAgrees'
  <2>1. /\ pc' # "retryUnlink" /\ (batch = <<>> \/ pc # "retryUnlink")
        /\ pc \in Submitted => pc' \in Submitted \/ batch = <<>>
    BY <1>0 DEF ControlStep, WaitAtGate, RecoverBegin, RecoverEnd, ClaimBegin,
       ClaimEnd, Check, Record, Error, Cancel, Restart, Pause, Release, TurnEnds,
       Woken, runnerVars, Submitted, MaintenanceIsQuiet, Active, Synchronous, Idle
  <2> SUFFICES ASSUME NEW i \in 1 .. Len(batch)
               PROVE  InHand(batch[i].id, batch[i].n, i = 1)'
    BY <1>a DEF BatchAgrees
  <2> DEFINE d == batch[i].id  n == batch[i].n
  <2>2. InHand(d, n, i = 1) /\ d \in Deliveries /\ n \in 0 .. MaxAttempts
    BY <1>0, BatchTyped DEF BatchAgrees
  <2>3. /\ d' = d /\ n' = n /\ batch # <<>> /\ runs[d] \in Nat
        /\ UNCHANGED <<inbox, processing, failed, runs>>
    BY <1>0, <1>a, <2>2 DEF storeVars, fileVars, TypeOK
  <2> HIDE DEF d, n
  <2>4. InHand(d, n, i = 1)'
    BY <2>1, <2>2, <2>3 DEF InHand
  <2> QED
    BY <2>4 DEF d, n
<1>6. FilesCount'
  BY <1>0, <1>a DEF FilesCount, storeVars, fileVars
<1>7. OneCopy'
  BY <1>0, <1>a DEF ControlStep, WaitAtGate, RecoverBegin, RecoverEnd, ClaimBegin,
     ClaimEnd, Check, Record, Error, Cancel, Restart, Pause, Release, TurnEnds,
     Woken, runnerVars, OneCopy, Interrupted, Current, storeVars, fileVars
<1>8. Requeued'
  BY <1>0, <1>a DEF ControlStep, WaitAtGate, RecoverBegin, RecoverEnd, ClaimBegin,
     ClaimEnd, Check, Record, Error, Cancel, Restart, Pause, Release, TurnEnds,
     Woken, runnerVars, Requeued, Oldest, Interrupted, storeVars, fileVars
<1>9. NothingForgotten'
  BY <1>0, <1>a DEF NothingForgotten, Withdrawn, storeVars, fileVars
<1>10. MaintenanceIsQuiet'
  BY <1>0 DEF ControlStep, WaitAtGate, RecoverBegin, RecoverEnd, ClaimBegin,
     ClaimEnd, Check, Record, Error, Cancel, Restart, Pause, Release, TurnEnds,
     Woken, Idle, runnerVars, RunnerKeeps, MaintenanceIsQuiet, Active, Synchronous
<1> QED
  BY <1>1, <1>2, <1>3, <1>4, <1>5, <1>6, <1>7, <1>8, <1>9, <1>10 DEF IInv

(* What a claimed delivery remembers still agrees with its files after a   *)
(* step that leaves the runner where it is and touches none of its files.  *)
LEMMA HandKept ==
  ASSUME TypeOK, BatchAgrees,
         UNCHANGED <<batch, pc, runs>>,
         \A d \in Deliveries : InBatch(d) =>
            inbox'[d] = inbox[d] /\ processing'[d] = processing[d]
            /\ failed'[d] = failed[d]
  PROVE  BatchAgrees'
<1> SUFFICES ASSUME NEW i \in 1 .. Len(batch)
             PROVE  InHand(batch[i].id, batch[i].n, i = 1)'
  BY DEF BatchAgrees
<1> DEFINE d == batch[i].id  n == batch[i].n
<1>1. InHand(d, n, i = 1) /\ d \in Deliveries /\ InBatch(d)
  BY BatchTyped DEF BatchAgrees, InBatch
<1>2. d' = d /\ n' = n
  OBVIOUS
<1> HIDE DEF d, n
<1>3. InHand(d, n, i = 1)'
  BY <1>1, <1>2 DEF InHand
<1> QED
  BY <1>3 DEF d, n

(* A command line writes a delivery for a trigger that is switched on.     *)
LEMMA StepEnqueue ==
  ASSUME IInv, NEW d \in Deliveries, NEW t \in Triggers, Enqueue(d, t)
  PROVE  IInv'
<1> USE DeliveriesAssumption, TriggersAssumption, LimitsAssumption DEF NoFile
<1>0. TypeOK /\ OneHolder /\ Fresh /\ BatchStages /\ BatchAgrees /\ FilesCount
      /\ OneCopy /\ Requeued /\ NothingForgotten /\ MaintenanceIsQuiet
  BY DEF IInv
<1>a. /\ of[d] = NoTrigger /\ of' = [of EXCEPT ![d] = t]
      /\ inbox' = [inbox EXCEPT ![d] = 0]
      /\ told' = [told EXCEPT ![d] = "writing"]
      /\ UNCHANGED <<trig, processing, failed, sweep, pc, batch, why, paused,
                     runs, ended, disturbances, changes>>
  BY DEF Enqueue, runnerVars
<1>b. ~Locked /\ told[d] = "nothing" /\ runs[d] = 0 /\ processing[d] = NoFile
      /\ failed[d] = NoFile /\ ~InBatch(d) /\ inbox[d] = NoFile
  BY <1>0, <1>a DEF Enqueue, Fresh
<1>1. TypeOK'
  <2>1. 0 \in File
    BY DEF File
  <2> QED
    BY <1>0, <1>a, <2>1 DEF TypeOK
<1>2. OneHolder'
  BY <1>0, <1>a, <1>b DEF OneHolder, Writing, Locked, TypeOK
<1>3. Fresh'
  <2>1. /\ told'[d] = "writing" /\ of'[d] = t /\ inbox'[d] = 0
        /\ \A e \in Deliveries : e # d =>
             told'[e] = told[e] /\ of'[e] = of[e] /\ inbox'[e] = inbox[e]
    BY <1>0, <1>a DEF TypeOK
  <2> QED
    BY <1>0, <1>a, <1>b, <2>1 DEF Fresh, InBatch
<1>4. BatchStages'
  BY <1>0, <1>a DEF BatchStages
<1>5. BatchAgrees'
  <2>1. \A e \in Deliveries : InBatch(e) => inbox'[e] = inbox[e]
    BY <1>0, <1>a, <1>b DEF TypeOK
  <2> QED
    BY <1>0, <1>a, <2>1, HandKept
<1>6. FilesCount'
  BY <1>0, <1>a, <1>b DEF FilesCount, TypeOK
<1>7. OneCopy'
  BY <1>0, <1>a, <1>b DEF OneCopy, TypeOK, Current
<1>8. Requeued'
  BY <1>0, <1>a, <1>b DEF Requeued, Oldest, Interrupted, TypeOK
<1>9. NothingForgotten'
  BY <1>0, <1>a, <1>b DEF NothingForgotten, Withdrawn, TypeOK
<1>10. MaintenanceIsQuiet'
  BY <1>0, <1>a DEF MaintenanceIsQuiet
<1> QED
  BY <1>1, <1>2, <1>3, <1>4, <1>5, <1>6, <1>7, <1>8, <1>9, <1>10 DEF IInv

(* The command line reports, fails or dies.  Only a failure touches a      *)
(* file, and then the delivery is nowhere else.                            *)
LEMMA StepTold ==
  ASSUME IInv, NEW d \in Deliveries,
         EnqueueSaved(d) \/ EnqueueFails(d) \/ EnqueueKilled(d)
  PROVE  IInv'
<1> USE DeliveriesAssumption, TriggersAssumption, LimitsAssumption DEF NoFile
<1>0. TypeOK /\ OneHolder /\ Fresh /\ BatchStages /\ BatchAgrees /\ FilesCount
      /\ OneCopy /\ Requeued /\ NothingForgotten /\ MaintenanceIsQuiet
  BY DEF IInv
<1>a. /\ told[d] = "writing"
      /\ UNCHANGED <<trig, of, processing, failed, sweep, pc, batch, why, paused,
                     runs, ended>>
  BY DEF EnqueueSaved, EnqueueFails, EnqueueKilled, runnerVars, storeVars, fileVars
<1>b. \/ inbox' = inbox /\ told' = [told EXCEPT ![d] = "queued"]
      \/ inbox' = inbox /\ told' = [told EXCEPT ![d] = "silent"]
      \/ /\ inbox' = [inbox EXCEPT ![d] = NoFile]
         /\ told' = [told EXCEPT ![d] = "refused"]
  BY DEF EnqueueSaved, EnqueueFails, EnqueueKilled, storeVars, fileVars
<1>c. runs[d] = 0 /\ processing[d] = NoFile /\ failed[d] = NoFile /\ ~InBatch(d)
      /\ of[d] # NoTrigger
  BY <1>0, <1>a DEF Fresh
<1>d. inbox' \in [Deliveries -> File] /\ \A e \in Deliveries : e # d =>
        inbox'[e] = inbox[e] /\ told'[e] = told[e]
  BY <1>0, <1>b DEF TypeOK, File
<1>1. TypeOK'
  <2>1. UNCHANGED countVars \/ Disturb \/ Change
    BY DEF EnqueueSaved, EnqueueFails, EnqueueKilled, IOError
  <2>2. Counted'
    BY <1>0, <2>1, StepCounted
  <2>3. told' \in [Deliveries -> {"nothing", "writing", "queued", "refused", "silent"}]
    BY <1>0, <1>b DEF TypeOK
  <2> QED
    BY <1>0, <1>a, <1>d, <2>2, <2>3 DEF TypeOK, Counted
<1>2. OneHolder'
  BY <1>0, <1>a, <1>b DEF OneHolder, Writing, TypeOK
<1>3. Fresh'
  BY <1>0, <1>a, <1>b, <1>c DEF Fresh, InBatch, TypeOK
<1>4. BatchStages'
  BY <1>0, <1>a DEF BatchStages
<1>5. BatchAgrees'
  <2>1. \A e \in Deliveries : InBatch(e) => inbox'[e] = inbox[e]
    BY <1>c, <1>d
  <2> QED
    BY <1>0, <1>a, <2>1, HandKept
<1>6. FilesCount'
  BY <1>0, <1>a, <1>b, <1>c DEF FilesCount, TypeOK
<1>7. OneCopy'
  BY <1>0, <1>a, <1>c, <1>d DEF OneCopy, Current
<1>8. Requeued'
  BY <1>0, <1>a, <1>c, <1>d DEF Requeued, Oldest, Interrupted
<1>9. NothingForgotten'
  <2>1. inbox[d] # NoFile
    BY <1>0, <1>a DEF Fresh
  <2> QED
    BY <1>0, <1>a, <1>b, <1>c, <1>d, <2>1 DEF NothingForgotten, Withdrawn, TypeOK
<1>10. MaintenanceIsQuiet'
  BY <1>0, <1>a DEF MaintenanceIsQuiet
<1> QED
  BY <1>1, <1>2, <1>3, <1>4, <1>5, <1>6, <1>7, <1>8, <1>9, <1>10 DEF IInv

(* The WebUI switches a trigger, or takes it out of the store.             *)
LEMMA StepTrigger ==
  ASSUME IInv, NEW t \in Triggers,
         Delete(t) \/ \E s \in {"on", "off"} : Switch(t, s)
  PROVE  IInv'
<1> USE DeliveriesAssumption, TriggersAssumption, LimitsAssumption DEF NoFile
<1>0. TypeOK /\ OneHolder /\ Fresh /\ BatchStages /\ BatchAgrees /\ FilesCount
      /\ OneCopy /\ Requeued /\ NothingForgotten /\ MaintenanceIsQuiet
  BY DEF IInv
<1>a. /\ ~Locked /\ trig[t] # "gone"
      /\ UNCHANGED <<of, inbox, processing, failed, told, pc, batch, why, paused,
                     runs, ended>>
  BY DEF Delete, Switch, runnerVars, fileVars
<1>b. \E s \in {"on", "off", "gone"} :
        /\ trig' = [trig EXCEPT ![t] = s]
        /\ (s = "gone" /\ sweep' = t) \/ sweep' = sweep
  BY DEF Delete, Switch
<1>1. TypeOK'
  <2>1. UNCHANGED countVars \/ Disturb \/ Change
    BY DEF Delete, Switch
  <2>2. Counted'
    BY <1>0, <2>1, StepCounted
  <2> QED
    BY <1>0, <1>a, <1>b, <2>2 DEF TypeOK, Counted
<1>2. OneHolder'
  BY <1>0, <1>a, <1>b DEF OneHolder, Writing, Locked, TypeOK
<1>3. Fresh'
  BY <1>0, <1>a DEF Fresh, InBatch
<1>4. BatchStages'
  BY <1>0, <1>a DEF BatchStages
<1>5. BatchAgrees'
  BY <1>0, <1>a, HandKept
<1>6. FilesCount'
  BY <1>0, <1>a DEF FilesCount
<1>7. OneCopy'
  BY <1>0, <1>a DEF OneCopy, Current
<1>8. Requeued'
  BY <1>0, <1>a DEF Requeued, Oldest, Interrupted
<1>9. NothingForgotten'
  <2>1. \A d \in Deliveries : Withdrawn(d) => Withdrawn(d)'
    BY <1>0, <1>a, <1>b DEF Withdrawn, TypeOK
  <2> QED
    BY <1>0, <1>a, <2>1 DEF NothingForgotten
<1>10. MaintenanceIsQuiet'
  BY <1>0, <1>a DEF MaintenanceIsQuiet
<1> QED
  BY <1>1, <1>2, <1>3, <1>4, <1>5, <1>6, <1>7, <1>8, <1>9, <1>10 DEF IInv

(* A deletion removes files of its trigger, all of them or some; the lock  *)
(* keeps the runner out of the middle of a requeue.                        *)
LEMMA StepSweep == IInv /\ (SweepFiles \/ SweepFails) => IInv'
<1> SUFFICES ASSUME IInv, SweepFiles \/ SweepFails PROVE IInv'
  OBVIOUS
<1> USE DeliveriesAssumption, TriggersAssumption, LimitsAssumption DEF NoFile
<1>0. TypeOK /\ OneHolder /\ Fresh /\ BatchStages /\ BatchAgrees /\ FilesCount
      /\ OneCopy /\ Requeued /\ NothingForgotten /\ MaintenanceIsQuiet
  BY DEF IInv
<1> PICK S \in SUBSET Swept :
         RemoveFiles(S) /\ (UNCHANGED countVars \/ Disturb \/ Change)
  BY DEF SweepFiles, SweepFails, IOError
<1>a. /\ sweep # NoTrigger /\ sweep' = NoTrigger
      /\ UNCHANGED <<trig, of, told, pc, batch, why, paused, runs, ended>>
  BY DEF RemoveFiles, runnerVars
<1>b. /\ inbox' \in [Deliveries -> File] /\ processing' \in [Deliveries -> File]
      /\ failed' \in [Deliveries -> File]
  BY <1>0 DEF RemoveFiles, Without, TypeOK, File
<1>c. \A d \in Deliveries :
        \/ /\ inbox'[d] = inbox[d] /\ processing'[d] = processing[d]
           /\ failed'[d] = failed[d]
        \/ /\ of[d] = sweep
           /\ inbox'[d] = NoFile /\ processing'[d] = NoFile /\ failed'[d] = NoFile
  BY DEF RemoveFiles, Without, Swept
<1>d. pc \notin Locking /\ trig[sweep] = "gone"
      /\ \A d \in Deliveries : told[d] # "writing"
  BY <1>0, <1>a DEF OneHolder, Writing
<1>1. TypeOK'
  <2>1. Counted'
    BY <1>0, StepCounted
  <2> QED
    BY <1>0, <1>a, <1>b, <2>1 DEF TypeOK, Counted
<1>2. OneHolder'
  BY <1>0, <1>a DEF OneHolder, Writing
<1>3. Fresh'
  BY <1>0, <1>a, <1>c, <1>d DEF Fresh, InBatch
<1>4. BatchStages'
  BY <1>0, <1>a DEF BatchStages
<1>5. BatchAgrees'
  <2> SUFFICES ASSUME NEW i \in 1 .. Len(batch)
               PROVE  InHand(batch[i].id, batch[i].n, i = 1)'
    BY <1>a DEF BatchAgrees
  <2> DEFINE d == batch[i].id  n == batch[i].n
  <2>1. InHand(d, n, i = 1) /\ d \in Deliveries
    BY <1>0, BatchTyped DEF BatchAgrees
  <2>2. d' = d /\ n' = n
    BY <1>a
  <2> HIDE DEF d, n
  <2>3. InHand(d, n, i = 1)'
    BY <1>a, <1>c, <1>d, <2>1, <2>2 DEF InHand, Locking
  <2> QED
    BY <2>3 DEF d, n
<1>6. FilesCount'
  BY <1>0, <1>a, <1>c DEF FilesCount
<1>7. OneCopy'
  BY <1>0, <1>a, <1>c DEF OneCopy, Current
<1>8. Requeued'
  BY <1>a, <1>d DEF Requeued, Locking
<1>9. NothingForgotten'
  BY <1>0, <1>a, <1>c, <1>d DEF NothingForgotten, Withdrawn
<1>10. MaintenanceIsQuiet'
  BY <1>0, <1>a DEF MaintenanceIsQuiet
<1> QED
  BY <1>1, <1>2, <1>3, <1>4, <1>5, <1>6, <1>7, <1>8, <1>9, <1>10 DEF IInv

(* What a requeue writes: the next attempt to inbox/, the last to failed/. *)
LEMMA PutBackFiles ==
  ASSUME TypeOK, NEW d \in Deliveries, NEW n \in 0 .. MaxAttempts,
         n < MaxAttempts, PutBack(d, n)
  PROVE  /\ inbox' \in [Deliveries -> File] /\ failed' \in [Deliveries -> File]
         /\ \A e \in Deliveries :
              e # d => inbox'[e] = inbox[e] /\ failed'[e] = failed[e]
         /\ \/ /\ n + 1 < MaxAttempts
               /\ inbox'[d] = n + 1 /\ failed'[d] = failed[d]
            \/ /\ n + 1 = MaxAttempts
               /\ failed'[d] = MaxAttempts /\ inbox'[d] = inbox[d]
<1> USE LimitsAssumption
<1>1. n + 1 \in File /\ inbox \in [Deliveries -> File] /\ failed \in [Deliveries -> File]
  BY DEF File, TypeOK
<1>2. CASE n + 1 >= MaxAttempts
  <2>1. n + 1 = MaxAttempts /\ failed' = [failed EXCEPT ![d] = n + 1] /\ inbox' = inbox
    BY <1>2 DEF PutBack, Attempted
  <2> QED
    BY <1>1, <2>1
<1>3. CASE ~(n + 1 >= MaxAttempts)
  <2>1. n + 1 < MaxAttempts /\ inbox' = [inbox EXCEPT ![d] = n + 1] /\ failed' = failed
    BY <1>3 DEF PutBack, Attempted
  <2> QED
    BY <1>1, <2>1
<1> QED
  BY <1>2, <1>3

(* After a restart the runner requeues the oldest interrupted delivery.    *)
LEMMA StepRecoverWrite ==
  ASSUME IInv, NEW d \in Deliveries, RecoverWrite(d)
  PROVE  IInv'
<1> USE DeliveriesAssumption, TriggersAssumption, LimitsAssumption DEF NoFile
<1>0. TypeOK /\ OneHolder /\ Fresh /\ BatchStages /\ BatchAgrees /\ FilesCount
      /\ OneCopy /\ Requeued /\ NothingForgotten /\ MaintenanceIsQuiet
  BY DEF IInv
<1>a. /\ pc = "recover" /\ pc' = "recoverUnlink" /\ Oldest(d, Interrupted)
      /\ UNCHANGED <<trig, of, processing, told, sweep, batch, why, paused, runs,
                     ended, disturbances, changes>>
  BY DEF RecoverWrite, RunnerKeeps
<1> DEFINE n == processing[d]
<1>b. /\ n # NoFile /\ n \in 0 .. MaxAttempts /\ n < MaxAttempts
      /\ runs[d] <= n + 1 /\ runs[d] \in Nat
  BY <1>0, <1>a DEF Oldest, Interrupted, TypeOK, File, FilesCount
<1>c. /\ inbox' \in [Deliveries -> File] /\ failed' \in [Deliveries -> File]
      /\ \A e \in Deliveries :
           e # d => inbox'[e] = inbox[e] /\ failed'[e] = failed[e]
      /\ \/ /\ n + 1 < MaxAttempts
            /\ inbox'[d] = n + 1 /\ failed'[d] = failed[d]
         \/ /\ n + 1 = MaxAttempts
            /\ failed'[d] = MaxAttempts /\ inbox'[d] = inbox[d]
  BY <1>0, <1>b, PutBackFiles DEF RecoverWrite
<1>d. batch = <<>> /\ told[d] \notin {"nothing", "writing", "refused"}
  BY <1>0, <1>a, <1>b DEF BatchStages, Active, Fresh
<1>e. inbox'[d] \in {NoFile, n + 1} /\ failed'[d] \in {NoFile, n + 1}
  BY <1>0, <1>b, <1>c DEF OneCopy
<1>1. TypeOK'
  BY <1>0, <1>a, <1>c DEF TypeOK, Synchronous
<1>2. OneHolder'
  BY <1>0, <1>a DEF OneHolder, Writing, Locking
<1>3. Fresh'
  BY <1>0, <1>a, <1>c, <1>d DEF Fresh, InBatch
<1>4. BatchStages'
  BY <1>0, <1>a, <1>d DEF BatchStages, Active
<1>5. BatchAgrees'
  BY <1>a, <1>d DEF BatchAgrees
<1>6. FilesCount'
  <2>1. failed[d] \in {NoFile, n + 1} /\ inbox[d] \in {NoFile, n + 1}
    BY <1>0, <1>b DEF OneCopy
  <2>2. n + 1 < MaxAttempts => failed[d] = NoFile
    BY <1>0, <2>1 DEF FilesCount
  <2>3. n + 1 = MaxAttempts => inbox[d] = NoFile
    BY <1>0, <2>1 DEF FilesCount
  <2> QED
    BY <1>0, <1>a, <1>b, <1>c, <2>2, <2>3 DEF FilesCount
<1>7. OneCopy'
  BY <1>0, <1>a, <1>c, <1>e DEF OneCopy
<1>8. Requeued'
  <2> SUFFICES ASSUME NEW e \in Deliveries, Oldest(e, Interrupted)'
               PROVE  (inbox[e] # NoFile \/ failed[e] # NoFile)'
    BY DEF Requeued
  <2>1. e = d
    BY <1>a DEF Oldest, Interrupted
  <2> QED
    BY <1>b, <1>c, <2>1
<1>9. NothingForgotten'
  BY <1>0, <1>a, <1>b, <1>c DEF NothingForgotten, Withdrawn
<1>10. MaintenanceIsQuiet'
  BY <1>0, <1>a DEF MaintenanceIsQuiet, Synchronous
<1> QED
  BY <1>1, <1>2, <1>3, <1>4, <1>5, <1>6, <1>7, <1>8, <1>9, <1>10 DEF IInv

(* ... and removes its file from processing/, another one being written.   *)
LEMMA StepRecoverUnlink ==
  ASSUME IInv, NEW d \in Deliveries, RecoverUnlink(d)
  PROVE  IInv'
<1> USE DeliveriesAssumption, TriggersAssumption, LimitsAssumption DEF NoFile
<1>0. TypeOK /\ OneHolder /\ Fresh /\ BatchStages /\ BatchAgrees /\ FilesCount
      /\ OneCopy /\ Requeued /\ NothingForgotten /\ MaintenanceIsQuiet
  BY DEF IInv
<1>a. /\ pc = "recoverUnlink" /\ pc' = "recover"
      /\ processing' = [processing EXCEPT ![d] = NoFile]
      /\ UNCHANGED <<trig, of, inbox, failed, told, sweep, batch, why, paused,
                     runs, ended, disturbances, changes>>
  BY DEF RecoverUnlink, RunnerKeeps
<1>b. /\ batch = <<>>
      /\ inbox[d] # NoFile \/ failed[d] # NoFile
  BY <1>0, <1>a DEF BatchStages, Active, Requeued, RecoverUnlink
<1>c. /\ processing' \in [Deliveries -> File] /\ processing'[d] = NoFile
      /\ \A e \in Deliveries : e # d => processing'[e] = processing[e]
  BY <1>0, <1>a DEF TypeOK, File
<1>1. TypeOK'
  BY <1>0, <1>a, <1>c DEF TypeOK, Synchronous
<1>2. OneHolder'
  BY <1>0, <1>a DEF OneHolder, Writing, Locking
<1>3. Fresh'
  BY <1>0, <1>a, <1>c DEF Fresh, InBatch
<1>4. BatchStages'
  BY <1>0, <1>a, <1>b DEF BatchStages, Active
<1>5. BatchAgrees'
  BY <1>a, <1>b DEF BatchAgrees
<1>6. FilesCount'
  BY <1>0, <1>a, <1>c DEF FilesCount
<1>7. OneCopy'
  BY <1>0, <1>a, <1>c DEF OneCopy
<1>8. Requeued'
  BY <1>a DEF Requeued
<1>9. NothingForgotten'
  BY <1>0, <1>a, <1>b, <1>c DEF NothingForgotten, Withdrawn
<1>10. MaintenanceIsQuiet'
  BY <1>0, <1>a DEF MaintenanceIsQuiet, Synchronous
<1> QED
  BY <1>1, <1>2, <1>3, <1>4, <1>5, <1>6, <1>7, <1>8, <1>9, <1>10 DEF IInv

(* The runner moves the oldest pending delivery to processing/ and to its  *)
(* batch.                                                                  *)
LEMMA StepClaimNext ==
  ASSUME IInv, NEW d \in Deliveries, ClaimNext(d)
  PROVE  IInv'
<1> USE DeliveriesAssumption, TriggersAssumption, LimitsAssumption DEF NoFile
<1>0. TypeOK /\ OneHolder /\ Fresh /\ BatchStages /\ BatchAgrees /\ FilesCount
      /\ OneCopy /\ Requeued /\ NothingForgotten /\ MaintenanceIsQuiet
  BY DEF IInv
<1> DEFINE m == inbox[d]
<1>a. /\ pc = "claim" /\ d \in Pending
      /\ inbox' = [inbox EXCEPT ![d] = NoFile]
      /\ processing' = [processing EXCEPT ![d] = m]
      /\ batch' = Append(batch, [id |-> d, n |-> m])
      /\ UNCHANGED <<trig, of, failed, told, sweep, pc, why, paused, runs, ended,
                     disturbances, changes>>
  BY DEF ClaimNext, RunnerKeeps, Oldest
<1>b. m # NoFile /\ m \in 0 .. MaxAttempts /\ m < MaxAttempts /\ runs[d] <= m
      /\ failed[d] = NoFile
  BY <1>0, <1>a DEF Pending, TypeOK, File, FilesCount
<1>c. processing[d] = NoFile
  BY <1>0, <1>a, <1>b DEF OneCopy
<1>d. told[d] \notin {"nothing", "writing", "refused"}
  BY <1>0, <1>a, <1>b DEF Fresh, OneHolder, Writing, Locking
<1>e. ~InBatch(d)
  <2> SUFFICES ASSUME NEW i \in 1 .. Len(batch), batch[i].id = d PROVE FALSE
    BY DEF InBatch
  <2>1. InHand(d, batch[i].n, i = 1)
    BY <1>0 DEF BatchAgrees
  <2> QED
    BY <1>a, <1>b, <2>1 DEF InHand
<1>f. /\ batch' \in Seq(Claim) /\ Len(batch') = Len(batch) + 1 /\ Len(batch) \in Nat
      /\ \A i \in 1 .. Len(batch) : batch'[i] = batch[i]
      /\ batch'[Len(batch) + 1] = [id |-> d, n |-> m]
  <2>1. batch \in Seq(Claim) /\ [id |-> d, n |-> m] \in Claim
    BY <1>0, <1>b DEF TypeOK, Claim
  <2> QED
    BY <1>a, <2>1, AppendProperties
<1>g. \A i \in 1 .. Len(batch') :
        i \in 1 .. Len(batch) \/ i = Len(batch) + 1
  BY <1>f
<1>h. /\ inbox' \in [Deliveries -> File] /\ processing' \in [Deliveries -> File]
      /\ inbox'[d] = NoFile /\ processing'[d] = m
      /\ \A e \in Deliveries :
           e # d => inbox'[e] = inbox[e] /\ processing'[e] = processing[e]
  BY <1>0, <1>a, <1>b DEF TypeOK, File
<1>1. TypeOK'
  BY <1>0, <1>a, <1>f, <1>h DEF TypeOK
<1>2. OneHolder'
  BY <1>0, <1>a DEF OneHolder, Writing
<1>3. Fresh'
  <2>1. \A e \in Deliveries : InBatch(e)' => InBatch(e) \/ e = d
    BY <1>f, <1>g DEF InBatch
  <2> QED
    BY <1>0, <1>a, <1>d, <1>h, <2>1 DEF Fresh
<1>4. BatchStages'
  <2>1. \A i \in 1 .. Len(batch) : batch[i].id # d
    BY <1>e DEF InBatch
  <2>2. \A i, j \in 1 .. Len(batch') : batch'[i].id = batch'[j].id => i = j
    BY <1>0, <1>f, <1>g, <2>1 DEF BatchStages
  <2> QED
    BY <1>0, <1>a, <2>2 DEF BatchStages, Active
<1>5. BatchAgrees'
  <2> SUFFICES ASSUME NEW i \in 1 .. Len(batch')
               PROVE  InHand(batch[i].id, batch[i].n, i = 1)'
    BY DEF BatchAgrees
  <2> DEFINE e == batch[i].id  k == batch[i].n
  <2>1. CASE i \in 1 .. Len(batch)
    <3>1. InHand(e, k, i = 1) /\ e \in Deliveries /\ e # d
      BY <1>0, <1>e, <2>1, BatchTyped DEF BatchAgrees, InBatch
    <3>2. batch'[i].id = e /\ batch'[i].n = k
      BY <1>f, <2>1
    <3> HIDE DEF e, k
    <3> QED
      BY <1>a, <1>h, <3>1, <3>2 DEF InHand, Submitted
  <2>2. CASE i = Len(batch) + 1
    <3>1. batch'[i].id = d /\ batch'[i].n = m
      BY <1>f, <2>2
    <3> QED
      BY <1>a, <1>b, <1>h, <3>1 DEF InHand, Submitted
  <2> QED
    BY <1>g, <2>1, <2>2
<1>6. FilesCount'
  BY <1>0, <1>a, <1>b, <1>h DEF FilesCount, TypeOK
<1>7. OneCopy'
  BY <1>0, <1>a, <1>b, <1>c, <1>h DEF OneCopy
<1>8. Requeued'
  BY <1>a DEF Requeued
<1>9. NothingForgotten'
  BY <1>0, <1>a, <1>b, <1>h DEF NothingForgotten, Withdrawn
<1>10. MaintenanceIsQuiet'
  BY <1>0, <1>a DEF MaintenanceIsQuiet
<1> QED
  BY <1>1, <1>2, <1>3, <1>4, <1>5, <1>6, <1>7, <1>8, <1>9, <1>10 DEF IInv

(* The delivery in hand is the first of the batch and no other one.        *)
LEMMA InHandFirst ==
  ASSUME IInv, pc \in Active \ {"claim"}
  PROVE  /\ batch # <<>> /\ 1 \in 1 .. Len(batch) /\ Current = batch[1]
         /\ Current.id \in Deliveries /\ Current.n \in 0 .. MaxAttempts
         /\ InHand(Current.id, Current.n, TRUE)
         /\ told[Current.id] \notin {"nothing", "writing", "refused"}
         /\ of[Current.id] # NoTrigger
         /\ \A i \in 1 .. Len(batch) : batch[i].id = Current.id => i = 1
<1>1. batch # <<>> /\ batch \in Seq(Claim)
  BY DEF IInv, BatchStages, TypeOK
<1>2. 1 \in 1 .. Len(batch) /\ Current = batch[1]
  BY <1>1 DEF Current
<1>3. Current.id \in Deliveries /\ Current.n \in 0 .. MaxAttempts
  BY <1>2, BatchTyped DEF IInv
<1>4. InHand(Current.id, Current.n, TRUE)
  BY <1>2 DEF IInv, BatchAgrees
<1>5. told[Current.id] \notin {"nothing", "writing", "refused"}
      /\ of[Current.id] # NoTrigger
  BY <1>2, <1>3 DEF IInv, Fresh, InBatch
<1>6. \A i \in 1 .. Len(batch) : batch[i].id = Current.id => i = 1
  BY <1>2 DEF IInv, BatchStages
<1> QED
  BY <1>1, <1>2, <1>3, <1>4, <1>5, <1>6

(* The runner submits the delivery in hand to its session.                 *)
LEMMA StepSubmit == IInv /\ Submit => IInv'
<1> SUFFICES ASSUME IInv, Submit PROVE IInv'
  OBVIOUS
<1> USE DeliveriesAssumption, TriggersAssumption, LimitsAssumption DEF NoFile
<1>0. TypeOK /\ OneHolder /\ Fresh /\ BatchStages /\ BatchAgrees /\ FilesCount
      /\ OneCopy /\ Requeued /\ NothingForgotten /\ MaintenanceIsQuiet
  BY DEF IInv
<1> DEFINE c == Current.id  k == Current.n
<1>a. /\ pc = "submit" /\ pc' = "turn" /\ runs' = [runs EXCEPT ![c] = @ + 1]
      /\ UNCHANGED <<trig, of, inbox, processing, failed, told, sweep, batch, why,
                     paused, ended, disturbances, changes>>
  BY DEF Submit, RunnerKeeps, fileVars
<1>b. /\ c \in Deliveries /\ InHand(c, k, TRUE) /\ k \in 0 .. MaxAttempts
      /\ told[c] \notin {"nothing", "writing", "refused"}
      /\ Current = batch[1]
      /\ \A i \in 1 .. Len(batch) : batch[i].id = c => i = 1
  <2>1. pc \in Active \ {"claim"}
    BY <1>a DEF Active
  <2> QED
    BY <2>1, InHandFirst
<1>c. /\ k < MaxAttempts /\ processing[c] \in {NoFile, k} /\ runs[c] <= k
      /\ inbox[c] = NoFile /\ failed[c] = NoFile
  BY <1>a, <1>b DEF InHand, Submitted
<1> HIDE DEF c, k
<1>d. /\ runs' \in [Deliveries -> Nat] /\ runs[c] \in Nat /\ runs'[c] = runs[c] + 1
      /\ \A e \in Deliveries : e # c => runs'[e] = runs[e]
  BY <1>0, <1>a, <1>b DEF TypeOK
<1>1. TypeOK'
  BY <1>0, <1>a, <1>d DEF TypeOK, Active
<1>2. OneHolder'
  BY <1>0, <1>a DEF OneHolder, Writing, Locking
<1>3. Fresh'
  BY <1>0, <1>a, <1>b, <1>d DEF Fresh, InBatch
<1>4. BatchStages'
  BY <1>0, <1>a DEF BatchStages, Active
<1>5. BatchAgrees'
  <2> SUFFICES ASSUME NEW i \in 1 .. Len(batch)
               PROVE  InHand(batch[i].id, batch[i].n, i = 1)'
    BY <1>a DEF BatchAgrees
  <2> DEFINE e == batch[i].id  n == batch[i].n
  <2>1. InHand(e, n, i = 1) /\ e \in Deliveries /\ n \in 0 .. MaxAttempts
    BY <1>0, BatchTyped DEF BatchAgrees
  <2>2. e' = e /\ n' = n
    BY <1>a
  <2>3. (e = c) <=> (i = 1)
    BY <1>b DEF c
  <2> HIDE DEF e, n
  <2>4. InHand(e, n, i = 1)'
    BY <1>a, <1>b, <1>d, <2>1, <2>2, <2>3 DEF InHand, Submitted
  <2> QED
    BY <2>4 DEF e, n
<1>6. FilesCount'
  BY <1>0, <1>a, <1>b, <1>c, <1>d DEF FilesCount
<1>7. OneCopy'
  BY <1>0, <1>a DEF OneCopy
<1>8. Requeued'
  BY <1>a DEF Requeued
<1>9. NothingForgotten'
  BY <1>0, <1>a DEF NothingForgotten, Withdrawn
<1>10. MaintenanceIsQuiet'
  BY <1>0, <1>a DEF MaintenanceIsQuiet, Active
<1> QED
  BY <1>1, <1>2, <1>3, <1>4, <1>5, <1>6, <1>7, <1>8, <1>9, <1>10 DEF IInv

(* The runner turns to the next delivery of its batch, whose files the     *)
(* step has not touched.                                                   *)
LEMMA BatchAdvances ==
  ASSUME IInv, pc \in Active \ {"claim"}, NextDelivery, UNCHANGED runs,
         \A e \in Deliveries : e # Current.id =>
            /\ inbox'[e] = inbox[e] /\ processing'[e] = processing[e]
            /\ failed'[e] = failed[e]
  PROVE  /\ batch' \in Seq(Claim) /\ pc' \in {"loop", "check"}
         /\ BatchStages' /\ BatchAgrees'
         /\ \A e \in Deliveries : InBatch(e)' => InBatch(e) /\ e # Current.id
<1>0. TypeOK /\ BatchStages /\ BatchAgrees
  BY DEF IInv
<1> DEFINE c == Current.id
<1>1. /\ batch # <<>> /\ batch \in Seq(Claim) /\ 1 \in 1 .. Len(batch)
      /\ \A i \in 1 .. Len(batch) : batch[i].id = c => i = 1
  BY <1>0, InHandFirst DEF TypeOK
<1>2. /\ batch' \in Seq(Claim) /\ Len(batch') = Len(batch) - 1 /\ Len(batch) \in Nat
      /\ \A i \in 1 .. Len(batch') : batch'[i] = batch[i + 1]
  BY <1>1, HeadTailProperties DEF NextDelivery
<1>3. \A i \in 1 .. Len(batch') : i + 1 \in 1 .. Len(batch) /\ i + 1 # 1 /\ i \in Nat
  BY <1>2
<1>4. \A i \in 1 .. Len(batch') : batch'[i].id # c
  BY <1>1, <1>2, <1>3
<1>5. pc' \in {"loop", "check"} /\ (batch' = <<>> <=> pc' = "loop")
  BY DEF NextDelivery
<1>6. BatchStages'
  <2>1. ASSUME NEW i \in 1 .. Len(batch'), NEW j \in 1 .. Len(batch'),
               batch'[i].id = batch'[j].id
        PROVE  i = j
    <3>1. i + 1 = j + 1
      BY <1>0, <1>2, <1>3, <2>1 DEF BatchStages
    <3> QED
      BY <1>3, <3>1
  <2> QED
    BY <1>5, <2>1 DEF BatchStages, Active
<1>7. BatchAgrees'
  <2> SUFFICES ASSUME NEW i \in 1 .. Len(batch')
               PROVE  InHand(batch[i].id, batch[i].n, i = 1)'
    BY DEF BatchAgrees
  <2> DEFINE e == batch[i + 1].id  n == batch[i + 1].n
  <2>1. InHand(e, n, FALSE) /\ e \in Deliveries /\ e # c
    BY <1>0, <1>1, <1>3, BatchTyped DEF BatchAgrees
  <2>2. batch'[i].id = e /\ batch'[i].n = n
    BY <1>2
  <2> HIDE DEF e, n
  <2> QED
    BY <1>5, <2>1, <2>2 DEF InHand, Submitted
<1>8. \A e \in Deliveries : InBatch(e)' => InBatch(e) /\ e # c
  BY <1>2, <1>3, <1>4 DEF InBatch
<1> QED
  BY <1>2, <1>5, <1>6, <1>7, <1>8

(* The file of the delivery in hand is removed: the message is completed,  *)
(* or its requeued copy stands for it.                                     *)
LEMMA StepDone == IInv /\ (Finish \/ RetryUnlink) => IInv'
<1> SUFFICES ASSUME IInv, Finish \/ RetryUnlink PROVE IInv'
  OBVIOUS
<1> USE DeliveriesAssumption, TriggersAssumption, LimitsAssumption DEF NoFile
<1>0. TypeOK /\ OneHolder /\ Fresh /\ BatchStages /\ BatchAgrees /\ FilesCount
      /\ OneCopy /\ Requeued /\ NothingForgotten /\ MaintenanceIsQuiet
  BY DEF IInv
<1> DEFINE c == Current.id
<1>a. /\ pc \in {"finish", "retryUnlink"}
      /\ processing' = [processing EXCEPT ![c] = NoFile]
      /\ UNCHANGED <<trig, of, inbox, failed, told, sweep, why, paused, runs,
                     disturbances, changes>>
  BY DEF Finish, RetryUnlink, Complete, RunnerKeeps
<1>b. \/ NextDelivery
      \/ pc' = "down" /\ batch' = <<>>
  BY DEF Finish, RetryUnlink
<1>c. pc \in Active \ {"claim"}
  BY <1>a DEF Active
<1>d. c \in Deliveries /\ InHand(c, Current.n, TRUE)
  BY <1>c, InHandFirst
<1>e. /\ processing' \in [Deliveries -> File] /\ processing'[c] = NoFile
      /\ \A e \in Deliveries : e # c => processing'[e] = processing[e]
  BY <1>0, <1>a, <1>d DEF TypeOK, File
<1>f. /\ batch' \in Seq(Claim) /\ pc' \in {"loop", "check", "down"}
      /\ BatchStages' /\ BatchAgrees'
      /\ \A e \in Deliveries : InBatch(e)' => InBatch(e)
  <2>1. CASE NextDelivery
    <3>1. \A e \in Deliveries : e # Current.id =>
            /\ inbox'[e] = inbox[e] /\ processing'[e] = processing[e]
            /\ failed'[e] = failed[e]
      BY <1>a, <1>e
    <3> QED
      BY <1>a, <1>c, <2>1, <3>1, BatchAdvances
  <2>2. CASE pc' = "down" /\ batch' = <<>>
    BY <2>2 DEF BatchStages, BatchAgrees, InBatch, Active
  <2> QED
    BY <1>b, <2>1, <2>2
<1>g. /\ ended' \in [Deliveries -> Outcomes \cup {"no"}]
      /\ \A e \in Deliveries : e # c => ended'[e] = ended[e]
      /\ ended'[c] # "no" \/ (inbox[c] # NoFile \/ failed[c] # NoFile)
  <2>1. CASE Finish
    <3>1. ended' = [ended EXCEPT ![c] = why] /\ why \in Outcomes
      BY <1>0, <2>1 DEF Finish, BatchStages
    <3> QED
      BY <1>0, <1>d, <3>1 DEF TypeOK, Outcomes
  <2>2. CASE RetryUnlink
    BY <1>0, <1>d, <2>2 DEF RetryUnlink, InHand, TypeOK
  <2> QED
    BY <2>1, <2>2
<1> HIDE DEF c
<1>1. TypeOK'
  BY <1>0, <1>a, <1>e, <1>f, <1>g DEF TypeOK, Active, Synchronous
<1>2. OneHolder'
  BY <1>0, <1>a, <1>f DEF OneHolder, Writing, Locking
<1>3. Fresh'
  BY <1>0, <1>a, <1>e, <1>f DEF Fresh
<1>4. BatchStages'
  BY <1>f
<1>5. BatchAgrees'
  BY <1>f
<1>6. FilesCount'
  BY <1>0, <1>a, <1>e DEF FilesCount
<1>7. OneCopy'
  BY <1>0, <1>a, <1>e DEF OneCopy, c
<1>8. Requeued'
  BY <1>f DEF Requeued
<1>9. NothingForgotten'
  BY <1>0, <1>a, <1>d, <1>e, <1>g DEF NothingForgotten, Withdrawn
<1>10. MaintenanceIsQuiet'
  BY <1>0, <1>a, <1>c DEF MaintenanceIsQuiet
<1> QED
  BY <1>1, <1>2, <1>3, <1>4, <1>5, <1>6, <1>7, <1>8, <1>9, <1>10 DEF IInv

(* The delivery in hand is requeued or given up: a second file for it.     *)
LEMMA StepRetryWrite == IInv /\ RetryWrite => IInv'
<1> SUFFICES ASSUME IInv, RetryWrite PROVE IInv'
  OBVIOUS
<1> USE DeliveriesAssumption, TriggersAssumption, LimitsAssumption DEF NoFile
<1>0. TypeOK /\ OneHolder /\ Fresh /\ BatchStages /\ BatchAgrees /\ FilesCount
      /\ OneCopy /\ Requeued /\ NothingForgotten /\ MaintenanceIsQuiet
  BY DEF IInv
<1> DEFINE c == Current.id  k == Current.n
<1>a. /\ pc = "retry" /\ pc' = "retryUnlink" /\ ~Locked
      /\ UNCHANGED <<trig, of, processing, told, sweep, batch, why, paused, runs,
                     ended, disturbances, changes>>
  BY DEF RetryWrite, RunnerKeeps
<1>b. /\ c \in Deliveries /\ InHand(c, k, TRUE) /\ k \in 0 .. MaxAttempts
      /\ told[c] \notin {"nothing", "writing", "refused"} /\ of[c] # NoTrigger
      /\ Current = batch[1]
      /\ \A i \in 1 .. Len(batch) : batch[i].id = c => i = 1
  <2>1. pc \in Active \ {"claim"}
    BY <1>a DEF Active
  <2> QED
    BY <2>1, InHandFirst
<1>c. /\ k < MaxAttempts /\ processing[c] \in {NoFile, k} /\ runs[c] <= k + 1
      /\ inbox[c] = NoFile /\ failed[c] = NoFile
  BY <1>a, <1>b DEF InHand, Submitted
<1>d. /\ inbox' \in [Deliveries -> File] /\ failed' \in [Deliveries -> File]
      /\ \A e \in Deliveries :
           e # c => inbox'[e] = inbox[e] /\ failed'[e] = failed[e]
      /\ \/ /\ k + 1 < MaxAttempts
            /\ inbox'[c] = k + 1 /\ failed'[c] = failed[c]
         \/ /\ k + 1 = MaxAttempts
            /\ failed'[c] = MaxAttempts /\ inbox'[c] = inbox[c]
  <2>1. PutBack(c, k)
    BY DEF RetryWrite
  <2> HIDE DEF c, k
  <2> QED
    BY <1>0, <1>b, <1>c, <2>1, PutBackFiles
<1>e. Current' = Current
  BY <1>a DEF Current
<1> HIDE DEF c, k
<1>1. TypeOK'
  BY <1>0, <1>a, <1>d DEF TypeOK, Active
<1>2. OneHolder'
  BY <1>0, <1>a DEF OneHolder, Writing, Locked, Locking
<1>3. Fresh'
  BY <1>0, <1>a, <1>b, <1>d DEF Fresh, InBatch
<1>4. BatchStages'
  BY <1>0, <1>a DEF BatchStages, Active
<1>5. BatchAgrees'
  <2> SUFFICES ASSUME NEW i \in 1 .. Len(batch)
               PROVE  InHand(batch[i].id, batch[i].n, i = 1)'
    BY <1>a DEF BatchAgrees
  <2> DEFINE e == batch[i].id  n == batch[i].n
  <2>1. InHand(e, n, i = 1) /\ e \in Deliveries /\ n \in 0 .. MaxAttempts
    BY <1>0, BatchTyped DEF BatchAgrees
  <2>2. e' = e /\ n' = n
    BY <1>a
  <2>3. (e = c) <=> (i = 1)
    BY <1>b DEF c
  <2> HIDE DEF e, n
  <2>4. InHand(e, n, i = 1)'
    <3>1. CASE i = 1
      BY <1>a, <1>b, <1>c, <1>d, <2>1, <2>2, <2>3, <3>1 DEF InHand, Submitted
    <3>2. CASE i # 1
      BY <1>a, <1>d, <2>1, <2>2, <2>3, <3>2 DEF InHand, Submitted
    <3> QED
      BY <3>1, <3>2
  <2> QED
    BY <2>4 DEF e, n
<1>6. FilesCount'
  BY <1>0, <1>a, <1>b, <1>c, <1>d DEF FilesCount
<1>7. OneCopy'
  BY <1>0, <1>a, <1>b, <1>c, <1>d, <1>e DEF OneCopy, c
<1>8. Requeued'
  BY <1>a DEF Requeued
<1>9. NothingForgotten'
  BY <1>0, <1>a, <1>b, <1>c, <1>d DEF NothingForgotten, Withdrawn
<1>10. MaintenanceIsQuiet'
  BY <1>0, <1>a DEF MaintenanceIsQuiet, Active
<1> QED
  BY <1>1, <1>2, <1>3, <1>4, <1>5, <1>6, <1>7, <1>8, <1>9, <1>10 DEF IInv

(* The gateway dies: its batch, its lock and its gate are gone, the files  *)
(* and the runs are not.                                                   *)
LEMMA StepCrash == IInv /\ Crash => IInv'
<1> SUFFICES ASSUME IInv, Crash PROVE IInv'
  OBVIOUS
<1> USE DeliveriesAssumption, TriggersAssumption, LimitsAssumption DEF NoFile
<1>0. TypeOK /\ OneHolder /\ Fresh /\ BatchStages /\ BatchAgrees /\ FilesCount
      /\ OneCopy /\ Requeued /\ NothingForgotten /\ MaintenanceIsQuiet
  BY DEF IInv
<1>a. /\ pc' = "down" /\ batch' = <<>> /\ sweep' = NoTrigger /\ paused' = FALSE
      /\ Disturb
      /\ UNCHANGED <<trig, of, inbox, processing, failed, told, why, runs, ended>>
  BY DEF Crash, storeVars, fileVars
<1>1. TypeOK'
  <2>1. Counted' /\ <<>> \in Seq(Claim)
    BY <1>0, <1>a, StepCounted
  <2> QED
    BY <1>0, <1>a, <2>1 DEF TypeOK, Counted
<1>2. OneHolder'
  BY <1>0, <1>a DEF OneHolder, Writing, Locking
<1>3. Fresh'
  <2>1. \A d \in Deliveries : ~InBatch(d)'
    BY <1>a DEF InBatch
  <2>2. /\ of' = of /\ inbox' = inbox /\ processing' = processing
        /\ failed' = failed /\ told' = told /\ runs' = runs
    BY <1>a
  <2> QED
    BY <1>0, <2>1, <2>2 DEF Fresh
<1>4. BatchStages'
  BY <1>a DEF BatchStages, Active
<1>5. BatchAgrees'
  BY <1>a DEF BatchAgrees
<1>6. FilesCount'
  BY <1>0, <1>a DEF FilesCount
<1>7. OneCopy'
  BY <1>0, <1>a DEF OneCopy
<1>8. Requeued'
  BY <1>a DEF Requeued
<1>9. NothingForgotten'
  BY <1>0, <1>a DEF NothingForgotten, Withdrawn
<1>10. MaintenanceIsQuiet'
  BY <1>a DEF MaintenanceIsQuiet
<1> QED
  BY <1>1, <1>2, <1>3, <1>4, <1>5, <1>6, <1>7, <1>8, <1>9, <1>10 DEF IInv

(* Every step of the specification preserves the invariant.                *)
LEMMA NextIInv == IInv /\ [Next]_vars => IInv'
<1> SUFFICES ASSUME IInv, [Next]_vars PROVE IInv'
  OBVIOUS
<1>1. ASSUME NEW d \in Deliveries, CommandLine(d) PROVE IInv'
  BY <1>1, StepEnqueue, StepTold DEF CommandLine
<1>2. CASE WebUI
  BY <1>2, StepTrigger, StepSweep DEF WebUI
<1>3. CASE RunnerStep
  <2>1. \/ ControlStep \/ Submit \/ Finish \/ RetryUnlink \/ RetryWrite
        \/ \E d \in Deliveries : RecoverWrite(d) \/ RecoverUnlink(d) \/ ClaimNext(d)
    BY <1>3 DEF RunnerStep, ControlStep
  <2> QED
    BY <2>1, StepControl, StepSubmit, StepDone, StepRetryWrite, StepRecoverWrite,
       StepRecoverUnlink, StepClaimNext
<1>4. CASE Restart \/ Error \/ Cancel \/ Pause \/ Release
  BY <1>4, StepControl DEF ControlStep
<1>5. CASE Crash
  BY <1>5, StepCrash
<1>6. CASE UNCHANGED vars
  <2>1. UNCHANGED <<trig, of, inbox, processing, failed, told, sweep, pc, batch, why,
                    paused, runs, ended, disturbances, changes>>
    BY <1>6 DEF vars, storeVars, fileVars, runnerVars
  <2>2. /\ TypeOK' /\ OneHolder' /\ Fresh' /\ BatchStages' /\ FilesCount'
    BY <2>1 DEF IInv, TypeOK, OneHolder, Fresh, BatchStages, FilesCount, Writing,
       InBatch
  <2>3. BatchAgrees'
    BY <2>1, HandKept DEF IInv
  <2>4. OneCopy' /\ Requeued' /\ NothingForgotten' /\ MaintenanceIsQuiet'
    BY <2>1 DEF IInv, OneCopy, Requeued, NothingForgotten, MaintenanceIsQuiet,
       Current, Oldest, Interrupted, Withdrawn
  <2> QED
    BY <2>2, <2>3, <2>4 DEF IInv
<1> QED
  BY <1>1, <1>2, <1>3, <1>4, <1>5, <1>6 DEF Next

(* The invariant holds in every reachable state.                           *)
LEMMA Invariant == Spec => []IInv
<1> QED
  BY InitIInv, NextIInv, PTL DEF Spec

-----------------------------------------------------------------------------
(* Every variable of the local trigger queue keeps its type.               *)
THEOREM TypeCorrect == Spec => []TypeOK
<1>1. IInv => TypeOK
  BY DEF IInv
<1> QED
  BY <1>1, Invariant, PTL

(* Crashes, errors, deletions and the renames between the directories lose *)
(* no message that was reported as queued.                                 *)
THEOREM NeverForgotten == Spec => []NothingForgotten
<1>1. IInv => NothingForgotten
  BY DEF IInv
<1> QED
  BY <1>1, Invariant, PTL

(* Two files of one delivery exist only between the two halves of a        *)
(* requeue, or after a crash there, and count one attempt apart.           *)
THEOREM PairsAreRequeues == Spec => []OneCopy
<1>1. IInv => OneCopy
  BY DEF IInv
<1> QED
  BY <1>1, Invariant, PTL

(* However often the gateway dies or the store fails, no message is handed *)
(* to its session more often than the attempt limit.                       *)
THEOREM RunsBounded == Spec => []BoundedRuns
<1>1. IInv => BoundedRuns
  BY DEF IInv, FilesCount, BoundedRuns
<1> QED
  BY <1>1, Invariant, PTL

(* A message whose enqueue reported an error never reaches its session,    *)
(* though its file was in inbox/ for a while.                              *)
THEOREM RefusedStaysOut == Spec => []RefusedNeverRuns
<1>1. IInv => RefusedNeverRuns
  BY DEF IInv, Fresh, RefusedNeverRuns
<1> QED
  BY <1>1, Invariant, PTL

(* The runner is between its polls whenever maintenance holds the gate.    *)
THEOREM GateHolds == Spec => []MaintenanceIsQuiet
<1>1. IInv => MaintenanceIsQuiet
  BY DEF IInv
<1> QED
  BY <1>1, Invariant, PTL

-----------------------------------------------------------------------------
(* Repeats.                                                                *)

(* Every step but an enqueue and a submission leaves runs alone.           *)
LEMMA OnlySubmitRuns == Next => Submit \/ UNCHANGED runs
BY DEF Next, CommandLine, WebUI, RunnerStep, Enqueue, EnqueueSaved, EnqueueFails,
   EnqueueKilled, Delete, Switch, SweepFiles, SweepFails, RemoveFiles, WaitAtGate,
   RecoverBegin, RecoverEnd, RecoverWrite, RecoverUnlink, ClaimBegin, ClaimEnd,
   ClaimNext, Check, Record, Finish, RetryWrite, RetryUnlink, TurnEnds, Restart,
   Error, Cancel, Crash, Pause, Release

(* The delivery whose turn is under way or has ended without an error.     *)
AtTurn(d) == pc \in {"turn", "record", "finish"} /\ Current.id = d

(* A message that ran and will run again.                                  *)
Again(d) ==
  /\ runs[d] >= 1 /\ ~AtTurn(d)
  /\ inbox[d] # NoFile \/ processing[d] # NoFile \/ InBatch(d)

(* The repeats so far and those to come.                                   *)
Due == Repeats \cup {<<d, runs[d] + 1>> : d \in {e \in Deliveries : Again(e)}}

Paid == IsFiniteSet(Due) /\ Cardinality(Due) <= disturbances

(* A step that makes no message due keeps what is due within its bound, as *)
(* does a disturbance that makes one message due.                          *)
LEMMA PaidKept ==
  ASSUME TypeOK, Paid, disturbances' \in Nat,
         \/ Due' \subseteq Due /\ disturbances' >= disturbances
         \/ (\E x : Due' \subseteq Due \cup {x}) /\ disturbances' = disturbances + 1
  PROVE  Paid'
<1>0. IsFiniteSet(Due) /\ Cardinality(Due) \in Nat /\ disturbances \in Nat
  BY LimitsAssumption, FS_CardinalityType DEF Paid, TypeOK
<1>1. CASE Due' \subseteq Due /\ disturbances' >= disturbances
  <2>1. IsFiniteSet(Due') /\ Cardinality(Due') <= Cardinality(Due) /\ Cardinality(Due') \in Nat
    BY <1>0, <1>1, FS_Subset, FS_CardinalityType
  <2> QED
    BY <1>0, <1>1, <2>1 DEF Paid
<1>2. CASE (\E x : Due' \subseteq Due \cup {x}) /\ disturbances' = disturbances + 1
  <2>1. PICK x : Due' \subseteq Due \cup {x}
    BY <1>2
  <2>2. /\ IsFiniteSet(Due \cup {x}) /\ Cardinality(Due \cup {x}) \in Nat
        /\ Cardinality(Due \cup {x}) <= Cardinality(Due) + 1
    <3>1. /\ IsFiniteSet(Due \cup {x})
          /\ Cardinality(Due \cup {x}) = IF x \in Due THEN Cardinality(Due) ELSE Cardinality(Due) + 1
      BY <1>0, FS_AddElement
    <3>2. Cardinality(Due \cup {x}) \in Nat
      BY <3>1, FS_CardinalityType
    <3> QED
      BY <1>0, <3>1, <3>2
  <2>3. /\ IsFiniteSet(Due') /\ Cardinality(Due') <= Cardinality(Due \cup {x})
        /\ Cardinality(Due') \in Nat
    BY <2>1, <2>2, FS_Subset, FS_CardinalityType
  <2> QED
    BY <1>0, <1>2, <2>2, <2>3 DEF Paid
<1> QED
  BY <1>1, <1>2

(* Nothing is due that was not, when no message runs and none is due anew. *)
LEMMA DueShrinks ==
  ASSUME UNCHANGED runs, NEW S, \A d \in Deliveries : Again(d)' => Again(d) \/ d \in S
  PROVE  Due' \subseteq Due \cup {<<d, runs[d] + 1>> : d \in S}
<1>1. Repeats' = Repeats
  BY DEF Repeats
<1> QED
  BY <1>1 DEF Due

(* Steps that make no message due.                                         *)
LEMMA NoneAnew ==
  ASSUME IInv, NEW d \in Deliveries, Again(d)',
         \/ \E e \in Deliveries : \/ CommandLine(e) \/ RecoverWrite(e) \/ RecoverUnlink(e)
                                  \/ ClaimNext(e)
         \/ WebUI \/ WaitAtGate \/ RecoverBegin \/ RecoverEnd \/ ClaimBegin \/ ClaimEnd
         \/ Check \/ Record \/ Finish \/ RetryWrite \/ RetryUnlink \/ Restart \/ Pause \/ Release
         \/ \E outcome \in {"ok", "error"} : TurnEnds(outcome)
  PROVE  Again(d)
<1>0. TypeOK /\ Fresh /\ BatchStages
  BY DEF IInv
<1>1. ASSUME NEW e \in Deliveries, CommandLine(e)
      PROVE  Again(d)
  <2>1. /\ UNCHANGED <<pc, batch, runs, processing>>
        /\ d # e => inbox'[d] = inbox[d]
        /\ told[e] \in {"nothing", "writing"}
    BY <1>0, <1>1 DEF CommandLine, Enqueue, EnqueueSaved, EnqueueFails, EnqueueKilled, storeVars,
           fileVars, runnerVars, TypeOK, Fresh
  <2>2. told[e] \in {"nothing", "writing"} => runs[e] = 0
    BY <1>0 DEF Fresh
  <2> QED
    BY <2>1, <2>2 DEF Again, AtTurn, Current, InBatch
<1>2. CASE WebUI
  <2>1. /\ UNCHANGED <<pc, batch, runs>>
        /\ inbox'[d] # NoFile => inbox[d] # NoFile
        /\ processing'[d] # NoFile => processing[d] # NoFile
    BY <1>2 DEF WebUI, Delete, Switch, SweepFiles, SweepFails, RemoveFiles, Without, fileVars,
           runnerVars
  <2> QED
    BY <2>1 DEF Again, AtTurn, Current, InBatch
<1>3. CASE \/ WaitAtGate \/ RecoverBegin \/ RecoverEnd \/ ClaimBegin \/ ClaimEnd \/ Check \/ Restart
  <2>1. /\ UNCHANGED <<batch, runs, inbox, processing>>
        /\ pc \notin {"turn", "record", "finish"}
    BY <1>3 DEF WaitAtGate, RecoverBegin, RecoverEnd, ClaimBegin, ClaimEnd, Check, Restart,
           storeVars, fileVars
  <2> QED
    BY <2>1 DEF Again, AtTurn, InBatch
<1>4. CASE \/ Record \/ Pause \/ Release \/ \E outcome \in {"ok", "error"} : TurnEnds(outcome)
  <2>1. /\ UNCHANGED <<batch, runs, inbox, processing>>
        /\ pc \in {"turn", "record", "finish"} => pc' \in {"turn", "record", "finish"}
    BY <1>4 DEF Record, Pause, Release, TurnEnds, Woken, storeVars, fileVars, runnerVars
  <2> QED
    BY <2>1 DEF Again, AtTurn, Current, InBatch
<1>5. ASSUME NEW e \in Deliveries, RecoverWrite(e) \/ RecoverUnlink(e)
      PROVE  Again(d)
  <2>1. /\ UNCHANGED <<batch, runs>> /\ processing[e] # NoFile
        /\ d # e => inbox'[d] = inbox[d] /\ processing'[d] = processing[d]
        /\ pc \notin {"turn", "record", "finish"}
    BY <1>0, <1>5 DEF RecoverWrite, RecoverUnlink, Oldest, Interrupted, PutBack, TypeOK
  <2> QED
    BY <2>1 DEF Again, AtTurn, InBatch
<1>6. ASSUME NEW e \in Deliveries, ClaimNext(e)
      PROVE  Again(d)
  <2>1. /\ inbox[e] # NoFile /\ runs' = runs /\ pc \notin {"turn", "record", "finish"}
        /\ d # e => inbox'[d] = inbox[d] /\ processing'[d] = processing[d]
        /\ batch' = Append(batch, [id |-> e, n |-> inbox[e]])
    BY <1>0, <1>6 DEF ClaimNext, Oldest, Pending, TypeOK
  <2>2. InBatch(d)' => InBatch(d) \/ d = e
    <3>1. batch \in Seq(Claim) /\ [id |-> e, n |-> inbox[e]].id = e
      BY <1>0 DEF TypeOK
    <3> DEFINE x == [id |-> e, n |-> inbox[e]]
    <3>2. /\ Len(Append(batch, x)) = Len(batch) + 1 /\ Len(batch) \in Nat
          /\ \A i \in 1 .. Len(batch) : Append(batch, x)[i] = batch[i]
          /\ Append(batch, x)[Len(batch) + 1] = x
      BY <3>1
    <3>3. x.id = e
      BY <3>1
    <3> HIDE DEF x
    <3>4. \A i \in 1 .. Len(batch) + 1 : i \in 1 .. Len(batch) \/ i = Len(batch) + 1
      BY <3>2
    <3>5. batch' = Append(batch, x)
      BY <2>1 DEF x
    <3> QED
      BY <3>2, <3>3, <3>4, <3>5 DEF InBatch
  <2> QED
    BY <2>1, <2>2 DEF Again, AtTurn
<1>7. CASE RetryWrite
  <2>1. /\ UNCHANGED <<batch, runs, processing>> /\ pc = "retry"
        /\ d # Current.id => inbox'[d] = inbox[d]
    BY <1>0, <1>7, InHandFirst DEF RetryWrite, PutBack, TypeOK, Active
  <2>2. InBatch(Current.id)
    BY <2>1, InHandFirst DEF InBatch, Active
  <2> QED
    BY <2>1, <2>2 DEF Again, AtTurn, InBatch
<1>8. CASE Finish \/ RetryUnlink
  <2>1. /\ UNCHANGED <<inbox, failed, runs>> /\ pc \in {"finish", "retryUnlink"}
        /\ processing' = [processing EXCEPT ![Current.id] = NoFile]
        /\ NextDelivery \/ batch' = <<>>
    BY <1>8 DEF Finish, RetryUnlink, Complete
  <2>2. processing'[d] # NoFile => processing[d] # NoFile /\ d # Current.id
    BY <1>0, <2>1 DEF TypeOK
  <2>3. InBatch(d)' => InBatch(d) /\ d # Current.id
    <3>1. CASE NextDelivery
      <4>1. pc \in Active \ {"claim"}
        BY <2>1 DEF Active
      <4>2. \A e \in Deliveries : e # Current.id => processing'[e] = processing[e]
        BY <1>0, <2>1 DEF TypeOK
      <4> QED
        BY <2>1, <3>1, <4>1, <4>2, BatchAdvances
    <3>2. CASE batch' = <<>>
      <4>1. Len(batch') = 0 /\ 1 .. 0 = {}
        BY <3>2
      <4> QED
        BY <4>1 DEF InBatch
    <3> QED
      BY <2>1, <3>1, <3>2
  <2>4. pc = "finish" => inbox[Current.id] = NoFile
    BY InHandFirst DEF InHand, Active
  <2> QED
    BY <2>1, <2>2, <2>3, <2>4 DEF Again, AtTurn
<1> QED
  BY <1>1, <1>2, <1>3, <1>4, <1>5, <1>6, <1>7, <1>8

(* A failure, a cancellation or a crash makes at most the message at its   *)
(* turn due again, and is counted.                                         *)
LEMMA OneAnew ==
  ASSUME IInv, Error \/ Cancel \/ Crash
  PROVE  /\ UNCHANGED runs /\ disturbances' = disturbances + 1
         /\ \A d \in Deliveries : Again(d)' => Again(d) \/ d \in {Current.id}
<1>1. /\ UNCHANGED <<runs, inbox, processing>> /\ disturbances' = disturbances + 1
      /\ batch' = batch \/ batch' = <<>>
  BY DEF Error, Cancel, Crash, IOError, Disturb, storeVars, fileVars
<1>2. \A d \in Deliveries : InBatch(d)' => InBatch(d)
  <2>1. CASE batch' = batch
    BY <2>1 DEF InBatch
  <2>2. CASE batch' = <<>>
    <3>1. Len(batch') = 0 /\ 1 .. 0 = {}
      BY <2>2
    <3> QED
      BY <3>1 DEF InBatch
  <2> QED
    BY <1>1, <2>1, <2>2
<1> QED
  BY <1>1, <1>2 DEF Again, AtTurn

(* A submission turns what was due into a repeat.                          *)
LEMMA SubmitPays ==
  ASSUME IInv, Submit
  PROVE  Due' \subseteq Due
<1> DEFINE c == Current.id
<1>0. TypeOK /\ c \in Deliveries /\ runs[c] \in Nat
  BY InHandFirst DEF IInv, Submit, Active, TypeOK
<1>1. /\ runs' = [runs EXCEPT ![c] = @ + 1] /\ pc = "submit" /\ pc' = "turn"
      /\ UNCHANGED <<batch, inbox, processing>>
  BY DEF Submit, fileVars
<1>2. InBatch(c)
  BY <1>1, InHandFirst DEF InBatch, Active
<1>3. Current' = Current
  BY <1>1 DEF Current
<1> HIDE DEF c
<1>4. \A d \in Deliveries : d # c => runs'[d] = runs[d] /\ (Again(d)' => Again(d))
  BY <1>0, <1>1 DEF Again, AtTurn, InBatch, TypeOK
<1>5. runs'[c] = runs[c] + 1 /\ \A d \in Deliveries : d = c => ~Again(d)'
  BY <1>0, <1>1, <1>3 DEF Again, AtTurn, TypeOK, c
<1>6. runs[c] >= 1 => Again(c)
  BY <1>1, <1>2 DEF Again, AtTurn
<1>7. ASSUME NEW x \in Due'
      PROVE  x \in Due
  <2>1. CASE x \in Repeats'
    <3>0. PICK d \in Deliveries : x \in {d} \X (2 .. runs'[d])
      BY <2>1 DEF Repeats
    <3>1. PICK k \in 2 .. runs'[d] : x = <<d, k>>
      BY <3>0
    <3>2. CASE k \in 2 .. runs[d]
      BY <3>1, <3>2 DEF Due, Repeats
    <3>3. CASE k \notin 2 .. runs[d]
      <4>1. d = c /\ k = runs[c] + 1 /\ runs[c] >= 1
        BY <1>0, <1>4, <1>5, <3>1, <3>3
      <4> QED
        BY <1>0, <1>6, <3>1, <4>1 DEF Due
    <3> QED
      BY <3>2, <3>3
  <2>2. CASE x \notin Repeats'
    <3>1. PICK d \in Deliveries : Again(d)' /\ x = <<d, runs'[d] + 1>>
      BY <1>7, <2>2 DEF Due
    <3> QED
      BY <1>4, <1>5, <3>1 DEF Due
  <2> QED
    BY <2>1, <2>2
<1> QED
  BY <1>7

LEMMA NextPaid == IInv /\ Paid /\ [Next]_vars => Paid'
<1> SUFFICES ASSUME IInv, Paid, [Next]_vars PROVE Paid'
  OBVIOUS
<1>0. TypeOK /\ disturbances' \in Nat /\ disturbances \in Nat
  BY NextIInv, LimitsAssumption DEF IInv, TypeOK
<1>1. disturbances' >= disturbances
  <2>1. UNCHANGED disturbances \/ Disturb \/ Change
    <3>1. ASSUME NEW d \in Deliveries, CommandLine(d)
          PROVE  UNCHANGED disturbances \/ Disturb \/ Change
      BY <3>1 DEF CommandLine, Enqueue, EnqueueSaved, EnqueueFails, EnqueueKilled, IOError
    <3>2. CASE WebUI
      BY <3>2 DEF WebUI, Delete, Switch, SweepFiles, SweepFails, IOError
    <3>3. CASE RunnerStep
      BY <3>3 DEF RunnerStep, WaitAtGate, RecoverBegin, RecoverEnd, RecoverWrite, RecoverUnlink,
         ClaimBegin, ClaimEnd, ClaimNext, Check, Submit, Record, Finish, RetryWrite, RetryUnlink,
         TurnEnds
    <3>4. CASE Restart \/ Error \/ Cancel \/ Crash \/ Pause \/ Release \/ UNCHANGED vars
      BY <3>4 DEF Restart, Error, Cancel, Crash, Pause, Release, IOError, vars
    <3> QED
      BY <3>1, <3>2, <3>3, <3>4 DEF Next
  <2> QED
    BY <1>0, <2>1 DEF Disturb, Change
<1>2. CASE Submit
  BY <1>0, <1>1, <1>2, SubmitPays, PaidKept
<1>3. CASE Error \/ Cancel \/ Crash
  <2>1. Due' \subseteq Due \cup {<<d, runs[d] + 1>> : d \in {Current.id}}
    BY <1>3, OneAnew, DueShrinks
  <2>2. \E x : Due' \subseteq Due \cup {x}
    BY <2>1
  <2> QED
    BY <1>0, <1>3, <2>2, OneAnew, PaidKept
<1>4. CASE UNCHANGED vars
  <2>1. \A d \in Deliveries : Again(d)' => Again(d)
    BY <1>4 DEF vars, storeVars, fileVars, runnerVars, Again, AtTurn, Current, InBatch
  <2>2. Due' \subseteq Due \cup {<<d, runs[d] + 1>> : d \in {}}
    BY <1>4, <2>1, DueShrinks DEF vars
  <2> QED
    BY <1>0, <1>1, <2>2, PaidKept
<1>5. CASE Next /\ ~(Submit \/ Error \/ Cancel \/ Crash)
  <2>1. \A d \in Deliveries : Again(d)' => Again(d)
    BY <1>5, NoneAnew DEF Next, RunnerStep
  <2>2. UNCHANGED runs
    BY <1>5, OnlySubmitRuns
  <2>3. Due' \subseteq Due \cup {<<d, runs[d] + 1>> : d \in {}}
    BY <2>1, <2>2, DueShrinks
  <2> QED
    BY <1>0, <1>1, <2>3, PaidKept
<1> QED
  BY <1>2, <1>3, <1>4, <1>5

(* However large a batch a failure interrupts, it repeats one message at   *)
(* most: the repeats so far and those to come are no more than the         *)
(* crashes, errors and cancellations that were counted.                    *)
THEOREM RepeatsPaid == Spec => []OneRepeatPerFailure
<1>1. Init => Paid
  <2> SUFFICES ASSUME Init PROVE Paid
    OBVIOUS
  <2>1. \A d \in Deliveries : runs[d] = 0 /\ ~Again(d) /\ 2 .. 0 = {}
    BY DEF Init, Again
  <2>2. Due = {}
    BY <2>1 DEF Due, Repeats
  <2> QED
    BY <2>2, FS_EmptySet DEF Paid, Init
<1>2. IInv /\ Paid => OneRepeatPerFailure
  <2> SUFFICES ASSUME IInv, Paid PROVE OneRepeatPerFailure
    OBVIOUS
  <2>1. /\ Repeats \in SUBSET Due /\ IsFiniteSet(Due) /\ Cardinality(Due) <= disturbances
        /\ disturbances \in Nat
    BY LimitsAssumption DEF Paid, Due, IInv, TypeOK
  <2>2. /\ Cardinality(Repeats) <= Cardinality(Due) /\ IsFiniteSet(Repeats)
    BY <2>1, FS_Subset
  <2> QED
    BY <2>1, <2>2, FS_CardinalityType DEF OneRepeatPerFailure
<1> QED
  BY <1>1, <1>2, NextPaid, Invariant, PTL DEF Spec

-----------------------------------------------------------------------------
(* A step that puts nothing, runs nothing and only shrinks the queue is a  *)
(* step of the promise.                                                    *)
LEMMA ShrinkIsLeave ==
  ASSUME UNCHANGED <<of, runs>>, Queued' \subseteq Queued, Queued \subseteq Deliveries
  PROVE  Promise!Next
<1> DEFINE S == Queued \ Queued'
<1>1. S \in SUBSET Deliveries /\ Queued' = Queued \ S
  OBVIOUS
<1>2. Promise!Leave(S)
  BY <1>1 DEF Promise!Leave
<1> QED
  BY <1>1, <1>2 DEF Promise!Next

(* The members of the queue are deliveries; those claimed are in the batch. *)
LEMMA QueuedTyped ==
  TypeOK => /\ Claimed = {d \in Deliveries : InBatch(d)}
            /\ Queued \subseteq Deliveries
<1> SUFFICES ASSUME TypeOK
             PROVE  /\ Claimed = {d \in Deliveries : InBatch(d)}
                    /\ Queued \subseteq Deliveries
  OBVIOUS
<1>1. batch \in Seq(Claim) /\ DOMAIN batch = 1 .. Len(batch)
  BY DEF TypeOK
<1>2. Claimed = {d \in Deliveries : InBatch(d)}
  BY <1>1, BatchTyped DEF Claimed, InBatch
<1> QED
  BY <1>2 DEF Queued, Pending, Interrupted

(* No step but an enqueue adds a member to the queue.                      *)
LEMMA QueueShrinks ==
  ASSUME IInv, IInv', Next,
         ~\E d \in Deliveries, t \in Triggers : Enqueue(d, t)
  PROVE  Queued' \subseteq Queued /\ UNCHANGED of
<1> USE DEF NoFile
<1>0. TypeOK /\ TypeOK'
  BY DEF IInv
<1> SUFFICES UNCHANGED of /\ \A e \in Deliveries :
               \/ inbox'[e] # NoFile \/ processing'[e] # NoFile \/ InBatch(e)'
               => inbox[e] # NoFile \/ processing[e] # NoFile \/ InBatch(e)
  <2>1. Claimed = {d \in Deliveries : InBatch(d)}
    BY <1>0, QueuedTyped
  <2>2. (Claimed = {d \in Deliveries : InBatch(d)})'
    BY <1>0, QueuedTyped, PTL
  <2> QED
    BY <2>1, <2>2 DEF Queued, Pending, Interrupted
<1>1. ASSUME NEW d \in Deliveries,
             EnqueueSaved(d) \/ EnqueueFails(d) \/ EnqueueKilled(d)
      PROVE  UNCHANGED <<of, processing, batch>> /\ \A e \in Deliveries :
               inbox'[e] \in {NoFile, inbox[e]}
  BY <1>0, <1>1 DEF EnqueueSaved, EnqueueFails, EnqueueKilled, storeVars, fileVars,
     runnerVars, TypeOK
<1>2. CASE WebUI
  <2>1. CASE \E t \in Triggers : Delete(t) \/ \E s \in {"on", "off"} : Switch(t, s)
    BY <2>1 DEF Delete, Switch, fileVars, runnerVars, InBatch
  <2>2. CASE SweepFiles \/ SweepFails
    <3> PICK S \in SUBSET Swept : RemoveFiles(S)
      BY <2>2 DEF SweepFiles, SweepFails
    <3> QED
      BY DEF RemoveFiles, Without, runnerVars, InBatch
  <2> QED
    BY <1>2, <2>1, <2>2 DEF WebUI
<1>3. CASE ControlStep
  BY <1>3 DEF ControlStep, WaitAtGate, RecoverBegin, RecoverEnd, ClaimBegin,
     ClaimEnd, Check, Record, Error, Cancel, Restart, Pause, Release, TurnEnds,
     RunnerKeeps, storeVars, fileVars, runnerVars, InBatch
<1>4. ASSUME NEW d \in Deliveries, RecoverWrite(d) \/ RecoverUnlink(d)
      PROVE  /\ UNCHANGED <<of, batch>> /\ processing[d] # NoFile
             /\ \A e \in Deliveries :
                  /\ e # d => inbox'[e] = inbox[e]
                  /\ processing'[e] \in {NoFile, processing[e]}
  <2>1. processing[d] # NoFile /\ UNCHANGED <<of, batch>>
    BY <1>4 DEF RecoverWrite, RecoverUnlink, Oldest, Interrupted, RunnerKeeps
  <2>2. CASE RecoverWrite(d)
    BY <1>0, <2>1, <2>2 DEF RecoverWrite, PutBack, TypeOK
  <2>3. CASE RecoverUnlink(d)
    BY <1>0, <2>1, <2>3 DEF RecoverUnlink, TypeOK
  <2> QED
    BY <1>4, <2>1, <2>2, <2>3
<1>5. ASSUME NEW d \in Deliveries, ClaimNext(d)
      PROVE  /\ UNCHANGED of /\ inbox[d] # NoFile
             /\ \A e \in Deliveries : e # d =>
                  /\ inbox'[e] = inbox[e] /\ processing'[e] = processing[e]
                  /\ InBatch(e)' => InBatch(e)
  <2> DEFINE r == [id |-> d, n |-> inbox[d]]
  <2>1. /\ UNCHANGED of /\ inbox[d] # NoFile /\ batch' = Append(batch, r)
        /\ inbox' = [inbox EXCEPT ![d] = NoFile]
        /\ processing' = [processing EXCEPT ![d] = inbox[d]]
    BY <1>5 DEF ClaimNext, RunnerKeeps, Oldest, Pending
  <2>2. batch \in Seq(Claim) /\ r \in Claim
    BY <1>0, <2>1 DEF TypeOK, Claim, File
  <2>3. /\ Len(batch') = Len(batch) + 1 /\ Len(batch) \in Nat
        /\ \A i \in 1 .. Len(batch) : batch'[i] = batch[i]
        /\ batch'[Len(batch) + 1] = r
    BY <2>1, <2>2, AppendProperties
  <2>4. \A i \in 1 .. Len(batch') : i \in 1 .. Len(batch) \/ i = Len(batch) + 1
    BY <2>3
  <2>5. \A e \in Deliveries : e # d => (InBatch(e)' => InBatch(e))
    BY <2>3, <2>4 DEF InBatch
  <2> QED
    BY <1>0, <2>1, <2>5 DEF TypeOK
<1>6. CASE Submit
  BY <1>6 DEF Submit, RunnerKeeps, fileVars, InBatch
<1>7. CASE Finish \/ RetryUnlink
  <2>1. /\ pc \in Active \ {"claim"} /\ UNCHANGED <<of, inbox>>
        /\ processing' = [processing EXCEPT ![Current.id] = NoFile]
        /\ NextDelivery \/ batch' = <<>>
    BY <1>7 DEF Finish, RetryUnlink, Complete, RunnerKeeps, Active
  <2>2. Current.id \in Deliveries /\ batch # <<>> /\ batch \in Seq(Claim)
    BY <1>0, <2>1, InHandFirst DEF TypeOK
  <2>3. \A e \in Deliveries : processing'[e] \in {NoFile, processing[e]}
    BY <1>0, <2>1, <2>2 DEF TypeOK
  <2>4. \A e \in Deliveries : InBatch(e)' => InBatch(e)
    <3>1. CASE batch' = <<>>
      BY <3>1 DEF InBatch
    <3>2. CASE batch' = Tail(batch)
      <4>1. /\ Len(batch') = Len(batch) - 1 /\ Len(batch) \in Nat
            /\ \A i \in 1 .. Len(batch') : batch'[i] = batch[i + 1]
        BY <2>2, <3>2, HeadTailProperties
      <4>2. \A i \in 1 .. Len(batch') : i + 1 \in 1 .. Len(batch)
        BY <4>1
      <4> QED
        BY <4>1, <4>2 DEF InBatch
    <3> QED
      BY <2>1, <3>1, <3>2 DEF NextDelivery
  <2> QED
    BY <2>1, <2>3, <2>4
<1>8. CASE RetryWrite
  <2>1. /\ Current.id \in Deliveries /\ InBatch(Current.id)
        /\ UNCHANGED <<of, processing, batch>>
    <3>1. pc \in Active \ {"claim"} /\ UNCHANGED <<of, processing, batch>>
      BY <1>8 DEF RetryWrite, RunnerKeeps, Active
    <3> QED
      BY <3>1, InHandFirst DEF InBatch
  <2>2. \A e \in Deliveries : e # Current.id => inbox'[e] = inbox[e]
    BY <1>0, <1>8, <2>1 DEF RetryWrite, PutBack, TypeOK
  <2> QED
    BY <2>1, <2>2 DEF InBatch
<1>9. CASE Crash
  BY <1>9 DEF Crash, storeVars, fileVars, InBatch
<1> QED
  BY <1>1, <1>2, <1>3, <1>4, <1>5, <1>6, <1>7, <1>8, <1>9
     DEF Next, CommandLine, RunnerStep, ControlStep, InBatch

(* The file queue with its lock, its batches, its gate, its retries and    *)
(* its crashes keeps the promise: a message is put once, runs only while   *)
(* it is queued and at most MaxAttempts times, and never runs once gone.   *)
THEOREM KeepsPromise == Spec => ImplementsPromise
<1>1. Init => Promise!Init
  <2> SUFFICES ASSUME Init PROVE Promise!Init
    OBVIOUS
  <2>1. {d \in Deliveries : of[d] # NoTrigger} = {} /\ runs = [d \in Deliveries |-> 0]
    BY DEF Init
  <2>2. Queued = {}
    BY DEF Init, Queued, Pending, Interrupted, Claimed
  <2> QED
    BY <2>1, <2>2 DEF Promise!Init
<1>2. IInv /\ IInv' /\ [Next]_vars => [Promise!Next]_(Promise!vars)
  <2> SUFFICES ASSUME IInv, IInv', [Next]_vars
               PROVE  Promise!Next \/ UNCHANGED Promise!vars
    OBVIOUS
  <2>0. TypeOK /\ TypeOK'
    BY DEF IInv
  <2>1. ASSUME NEW d \in Deliveries, NEW t \in Triggers, Enqueue(d, t)
        PROVE  Promise!Next
    <3>1. /\ of[d] = NoTrigger /\ of' = [of EXCEPT ![d] = t] /\ UNCHANGED runs
          /\ inbox' = [inbox EXCEPT ![d] = 0] /\ UNCHANGED <<processing, batch>>
      BY <2>1 DEF Enqueue, runnerVars
    <3>2. {e \in Deliveries : of'[e] # NoTrigger}
            = {e \in Deliveries : of[e] # NoTrigger} \cup {d}
      BY <2>0, <3>1, TriggersAssumption DEF TypeOK
    <3>3. Queued' = Queued \cup {d}
      <4>1. Claimed' = Claimed /\ Interrupted' = Interrupted
        BY <3>1 DEF Claimed, Interrupted
      <4>2. Pending' = Pending \cup {d}
        BY <2>0, <3>1 DEF Pending, TypeOK, NoFile
      <4> QED
        BY <4>1, <4>2 DEF Queued
    <3>4. Promise!Put(d)
      BY <3>1, <3>2, <3>3 DEF Promise!Put
    <3> QED
      BY <3>4 DEF Promise!Next
  <2>2. CASE Submit
    <3> DEFINE c == Current.id
    <3>1. pc = "submit" /\ runs' = [runs EXCEPT ![c] = @ + 1]
          /\ UNCHANGED <<of, inbox, processing, batch>>
      BY <2>2 DEF Submit, RunnerKeeps, fileVars
    <3>2. /\ c \in Deliveries /\ InBatch(c) /\ InHand(c, Current.n, TRUE)
          /\ Current.n \in 0 .. MaxAttempts
      <4>1. pc \in Active \ {"claim"}
        BY <3>1 DEF Active
      <4> QED
        BY <4>1, InHandFirst DEF InBatch
    <3>3. c \in Queued
      BY <2>0, <3>2, QueuedTyped DEF Queued
    <3>4. runs[c] < MaxAttempts
      <4>1. runs[c] <= Current.n /\ Current.n < MaxAttempts /\ runs[c] \in Nat
        BY <2>0, <3>1, <3>2 DEF InHand, Submitted, TypeOK
      <4> QED
        BY <3>2, <4>1, LimitsAssumption
    <3>5. Queued' = Queued
      BY <3>1 DEF Queued, Pending, Interrupted, Claimed
    <3>6. Promise!Run(c)
      BY <3>1, <3>3, <3>4, <3>5 DEF Promise!Run
    <3> QED
      BY <3>2, <3>6 DEF Promise!Next
  <2>3. CASE /\ Next /\ ~Submit
             /\ ~\E d \in Deliveries, t \in Triggers : Enqueue(d, t)
    BY <2>0, <2>3, QueueShrinks, QueuedTyped, OnlySubmitRuns, ShrinkIsLeave
  <2>4. CASE UNCHANGED vars
    BY <2>4 DEF vars, storeVars, fileVars, runnerVars, Promise!vars, Queued,
       Pending, Interrupted, Claimed
  <2> QED
    BY <2>1, <2>2, <2>3, <2>4
<1> QED
  BY <1>1, <1>2, Invariant, PTL DEF Spec, ImplementsPromise, Promise!Spec
=============================================================================
