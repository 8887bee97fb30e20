---------------------------- MODULE CronService ----------------------------
(***************************************************************************)
(* Scheduled jobs: cron/service.py in the gateway, and another process     *)
(* that adds and removes jobs through the action log.                      *)
(*                                                                         *)
(* The gateway keeps the jobs in memory and saves them as a whole; the log *)
(* is merged, the result saved, the log emptied when the store is loaded.  *)
(* A public method runs without an await, so it is one step; a run of a    *)
(* job takes as long as its callback.  Time is a small clock, an interval  *)
(* is one unit of it.  System jobs, unbound jobs and corrupt files are not *)
(* modelled.                                                               *)
(***************************************************************************)
EXTENDS Integers, Sequences, FiniteSets

CONSTANTS Jobs,
          KindOf,     \* KindOf[j]: "once", "delete" (once, then deleted), "every"
          NoJob,      \* a job that is not in a store
          Nobody,     \* a runner without a job
          MaxTime,    \* bound: the clock
          MaxEdits,   \* bound: edits by users
          MaxPolls,   \* bound: listings of the jobs
          Faults,     \* what may fail: "write", "truncate", "crash"
          MaxFaults   \* bound on faults

Times == 1..MaxTime
NoTime == 0
Runners == {"timer", "manual"}
OneShot(j) == KindOf[j] \in {"once", "delete"}

ASSUME KindAssumption == KindOf \in [Jobs -> {"once", "delete", "every"}]
ASSUME FaultsAssumption == Faults \subseteq {"write", "truncate", "crash"}
ASSUME NobodyAssumption == Nobody \notin Jobs
ASSUME BoundAssumption == MaxTime \in Nat
ASSUME NoJobAssumption ==
  NoJob \notin [at : Nat, enabled : BOOLEAN, next : Nat, binding : Nat]

VARIABLES
  now,
  up,        \* the gateway has started its service
  live,      \* _store, which only the gateway keeps
  disk,      \* jobs.json
  log,       \* action.jsonl
  dirty,     \* _store_dirty
  armed,     \* a timer task sleeps
  running,   \* running[r]: the job a runner executes
  moved,     \* runners whose job got another schedule meanwhile
  queue,     \* due jobs the timer has still to look at
  used,      \* jobs that were ever added
  asked,     \* asked[j]: what the accepted edits of j amount to
  deleted,   \* jobs for which remove_job returned "removed"
  fired,     \* fired[j][t]: runs the timer started for j due at t
  edits, polls, faults

storeVars == <<live, disk, log, dirty, faults>>
runVars == <<running, moved, queue>>
userVars == <<used, asked, deleted, edits, polls>>
vars == <<now, up, storeVars, armed, runVars, userVars, fired>>

Active == \E r \in Runners : running[r] # Nobody

-----------------------------------------------------------------------------
(* The store                                                               *)

(* _merge_action: a copy with an older chat binding is ignored.            *)
Apply(store, action) ==
  LET j == action.job IN
  IF action.copy # NoJob /\ store[j] # NoJob
     /\ action.copy.binding < store[j].binding
  THEN store ELSE [store EXCEPT ![j] = action.copy]

Merge(store, actions) ==
  LET merged[i \in 0..Len(actions)] ==
        IF i = 0 THEN store ELSE Apply(merged[i - 1], actions[i])
  IN merged[Len(actions)]

CanFail(k) == k \in Faults /\ faults < MaxFaults

(* The values a call works with; ok is FALSE once it has raised.           *)
Store == [live |-> live, disk |-> disk, log |-> log, dirty |-> dirty,
          faults |-> faults, ok |-> TRUE]

Assign(s) == /\ live' = s.live /\ disk' = s.disk /\ log' = s.log
             /\ dirty' = s.dirty /\ faults' = s.faults

Failed(s) == [s EXCEPT !.faults = @ + 1, !.ok = FALSE]

(* _save_store: a failure may come before or after the file is replaced.   *)
Saved(s, jobs) ==
  {[s EXCEPT !.live = jobs, !.disk = jobs, !.dirty = FALSE]} \cup
  {[Failed(s) EXCEPT !.live = jobs, !.disk = d, !.dirty = TRUE] :
     d \in IF CanFail("write") THEN {s.disk, jobs} ELSE {}}

(* _load_jobs and _merge_action                                            *)
Reloaded(s) ==
  LET merged == Merge(s.disk, s.log) IN
  IF s.log = <<>> THEN {[s EXCEPT !.live = merged]}
  ELSE UNION {IF ~w.ok THEN {w}
              ELSE {[w EXCEPT !.log = <<>>]} \cup
                   (IF CanFail("truncate") THEN {Failed(w)} ELSE {}) :
                w \in Saved(s, merged)}

(* mutant: a snapshot that was not saved is reloaded *)
LoadedStale(s) == IF Active THEN {s} ELSE Reloaded(s)

(* _load_store                                                             *)
Loaded(s) == IF s.dirty \/ Active THEN {s} ELSE Reloaded(s)

-----------------------------------------------------------------------------
(* Schedules                                                               *)

(* _compute_next_run                                                       *)
NextRun(j, at) == IF KindOf[j] = "every" THEN now + 1
                  ELSE IF at > now THEN at ELSE NoTime

(* _recompute_next_runs: an interval run in the future is kept.            *)
Resumed(j, job) ==
  IF job = NoJob \/ ~job.enabled THEN job
  ELSE IF KindOf[j] = "every" /\ job.next = now + 1 THEN job
  ELSE [job EXCEPT !.next = NextRun(j, job.at)]

NewJob(j, at) == [at |-> at, enabled |-> TRUE, next |-> NextRun(j, at),
                  binding |-> 0]

Due(job) == job # NoJob /\ job.enabled /\ job.next \in 1..now

(* What a completed run makes of its job.                                  *)
AfterRun(j, job) ==
  CASE KindOf[j] = "once" -> [job EXCEPT !.enabled = FALSE, !.next = NoTime]
    [] KindOf[j] = "delete" -> NoJob
    [] KindOf[j] = "every" -> [job EXCEPT !.next = now + 1]

(* mutant: the run completes whatever schedule the job has now *)
CompletedAnyway(jobs, r) ==
  LET j == running[r] IN
  IF jobs[j] = NoJob THEN jobs ELSE [jobs EXCEPT ![j] = AfterRun(j, @)]

(* mutant: the run writes its job back although it was removed meanwhile *)
CompletedRevived(jobs, r) ==
  LET j == running[r] IN
  IF r \in moved THEN jobs
  ELSE [jobs EXCEPT ![j] = IF @ = NoJob THEN NewJob(j, now) ELSE AfterRun(j, @)]

(* _execute_job after the callback                                         *)
Completed(jobs, r) ==
  LET j == running[r] IN
  IF jobs[j] = NoJob \/ r \in moved THEN jobs
  ELSE [jobs EXCEPT ![j] = AfterRun(j, @)]

Unasked == [what |-> "any"]
Gone == [what |-> "gone"]
Kept(job) == [what |-> "kept", job |-> job]

(* A completed run may have switched a one-shot job off; a removal that    *)
(* was answered meanwhile stands.                                          *)
AskedAfter(r) ==
  LET j == running[r] IN
  asked' = IF OneShot(j) /\ r \notin moved /\ asked[j] # Gone
           THEN [asked EXCEPT ![j] = Unasked] ELSE asked

Init ==
  /\ now = 0 /\ up = FALSE
  /\ live = [j \in Jobs |-> NoJob] /\ disk = [j \in Jobs |-> NoJob]
  /\ log = <<>> /\ dirty = FALSE
  /\ armed = FALSE
  /\ running = [r \in Runners |-> Nobody] /\ moved = {} /\ queue = {}
  /\ used = {} /\ deleted = {}
  /\ asked = [j \in Jobs |-> Unasked]
  /\ fired = [j \in Jobs |-> [t \in 0..MaxTime |-> 0]]
  /\ edits = 0 /\ polls = 0 /\ faults = 0

-----------------------------------------------------------------------------
(* The life of the gateway                                                 *)

Start ==
  /\ ~up
  /\ \E s \in Reloaded(Store) :
       IF ~s.ok THEN Assign([s EXCEPT !.dirty = FALSE]) /\ UNCHANGED <<up, armed>>
       ELSE \E w \in Saved(s, [j \in Jobs |-> Resumed(j, s.live[j])]) :
              IF w.ok THEN Assign(w) /\ up' = TRUE /\ armed' = TRUE
              ELSE /\ Assign([w EXCEPT !.dirty = FALSE])
                   /\ UNCHANGED <<up, armed>>
  /\ UNCHANGED <<now, runVars, userVars, fired>>

(* The process ends; what was not saved is lost.                           *)
Crash ==
  /\ up /\ CanFail("crash")
  /\ faults' = faults + 1
  /\ up' = FALSE /\ armed' = FALSE /\ dirty' = FALSE
  /\ live' = disk
  /\ running' = [r \in Runners |-> Nobody] /\ moved' = {} /\ queue' = {}
  /\ UNCHANGED <<now, disk, log, userVars, fired>>

Tick == /\ now < MaxTime
        /\ now' = now + 1
        /\ UNCHANGED <<up, storeVars, armed, runVars, userVars, fired>>

-----------------------------------------------------------------------------
(* Runs                                                                    *)

(* The next due job of the tick, or its end: save and arm the timer, which *)
(* waits for a manual run.                                                 *)
TimerGoesOn(s, candidates) ==
  LET dueNow == {j \in candidates : Due(s.live[j])} IN
  IF dueNow # {}
  THEN /\ \E j \in dueNow :
            /\ running' = [running EXCEPT !["timer"] = j]
            /\ queue' = dueNow \ {j}
            /\ fired' = [fired EXCEPT ![j][s.live[j].next] = @ + 1]
       /\ moved' = moved \ {"timer"}
       /\ Assign(s) /\ armed' = FALSE
  ELSE /\ \E w \in Saved(s, s.live) : Assign(w)
       /\ running' = [running EXCEPT !["timer"] = Nobody]
       /\ moved' = moved \ {"timer"} /\ queue' = {}
       /\ armed' = (running["manual"] = Nobody)
       /\ UNCHANGED fired

(* _run_timer: what was not saved is saved first, and nothing else done.   *)
TimerFires ==
  /\ up /\ armed
  /\ \/ /\ dirty
        /\ \E w \in Saved(Store, live) : Assign(w)
        /\ armed' = (running["manual"] = Nobody)
        /\ UNCHANGED <<runVars, fired>>
     \/ /\ ~dirty
        /\ \E s \in Loaded(Store) :
             \/ s.ok /\ TimerGoesOn(s, Jobs)
             \/ /\ ~s.ok /\ Assign(s)
                /\ armed' = (running["manual"] = Nobody)
                /\ UNCHANGED <<runVars, fired>>
  /\ UNCHANGED <<now, up, userVars>>

TimerRunEnds ==
  /\ running["timer"] # Nobody
  /\ TimerGoesOn([Store EXCEPT !.live = Completed(live, "timer")], queue)
  /\ AskedAfter("timer")
  /\ UNCHANGED <<now, up, used, deleted, edits, polls>>

(* run_job from the WebUI, once the job is known to be enabled             *)
ManualStarts(j) ==
  /\ up /\ running["manual"] = Nobody /\ edits < MaxEdits
  /\ edits' = edits + 1
  /\ \E d \in (IF dirty THEN Saved(Store, live) ELSE {Store}) :
     \E s \in (IF d.ok THEN Loaded(d) ELSE {d}) :
       /\ Assign(s)
       /\ \/ /\ s.ok /\ s.live[j] # NoJob /\ s.live[j].enabled
             /\ running' = [running EXCEPT !["manual"] = j]
             /\ moved' = moved \ {"manual"}
             /\ UNCHANGED armed
          \/ /\ ~(s.ok /\ s.live[j] # NoJob /\ s.live[j].enabled)
             /\ armed' = (armed \/ running["timer"] = Nobody)
             /\ UNCHANGED <<running, moved>>
  /\ UNCHANGED <<now, up, queue, used, asked, deleted, polls, fired>>

(* mutant: only the timer's own runs arm the timer *)
ManualEndsUnarmed ==
  /\ running["manual"] # Nobody
  /\ \E w \in Saved(Store, Completed(live, "manual")) : Assign(w)
  /\ AskedAfter("manual")
  /\ running' = [running EXCEPT !["manual"] = Nobody]
  /\ moved' = moved \ {"manual"}
  /\ UNCHANGED <<now, up, armed, queue, used, deleted, edits, polls, fired>>

ManualEnds ==
  /\ running["manual"] # Nobody
  /\ \E w \in Saved(Store, Completed(live, "manual")) : Assign(w)
  /\ AskedAfter("manual")
  /\ running' = [running EXCEPT !["manual"] = Nobody]
  /\ moved' = moved \ {"manual"}
  /\ armed' = (armed \/ running["timer"] = Nobody)
  /\ UNCHANGED <<now, up, queue, used, deleted, edits, polls, fired>>

-----------------------------------------------------------------------------
(* Edits in the gateway                                                    *)

(* An answered edit holds, unless the log names the same job.              *)
Accepted(j, s, what) ==
  IF s.ok /\ \A i \in DOMAIN s.log : s.log[i].job # j
  THEN [asked EXCEPT ![j] = what] ELSE [asked EXCEPT ![j] = Unasked]

(* The store is loaded, changed, saved; then the timer is armed again,     *)
(* unless a run will do that.                                              *)
Edit(j, Changed(_)) ==
  /\ up /\ edits < MaxEdits
  /\ edits' = edits + 1
  /\ \E s \in Loaded(Store) :
       \/ /\ ~s.ok \/ s.live[j] = NoJob
          /\ Assign(s)
          /\ UNCHANGED <<armed, asked, deleted, moved>>
       \/ /\ s.ok /\ s.live[j] # NoJob
          /\ LET old == s.live[j]
                 new == Changed(old)
             IN \E w \in Saved(s, [s.live EXCEPT ![j] = new]) :
                  /\ Assign(w)
                  /\ asked' = Accepted(j, w, IF new = NoJob THEN Gone
                                             ELSE Kept(new))
                  /\ deleted' = IF w.ok /\ new = NoJob THEN deleted \cup {j}
                                ELSE deleted
                  /\ moved' = IF new # NoJob /\ new.at # old.at
                              THEN moved \cup {r \in Runners : running[r] = j}
                              ELSE moved
                  /\ armed' = (armed \/ (w.ok /\ ~Active))
  /\ UNCHANGED <<now, up, running, queue, used, polls, fired>>

RemoveJob(j) == Edit(j, LAMBDA job : NoJob)

(* enable_job *)
EnableJob(j, enabled) ==
  Edit(j, LAMBDA job : [job EXCEPT !.enabled = enabled,
                          !.next = IF enabled THEN NextRun(j, job.at)
                                   ELSE NoTime])

(* update_job with a schedule; the same schedule changes nothing           *)
UpdateJob(j, at) ==
  /\ OneShot(j)
  /\ Edit(j, LAMBDA job :
       [job EXCEPT !.at = at,
                   !.next = IF ~job.enabled THEN NoTime
                            ELSE IF at = job.at THEN @ ELSE NextRun(j, at)])

AddJob(j, at) ==
  /\ up /\ edits < MaxEdits /\ j \notin used
  /\ edits' = edits + 1 /\ used' = used \cup {j}
  /\ at > now
  /\ \E s \in Loaded(Store) :
       \/ ~s.ok /\ Assign(s) /\ UNCHANGED <<armed, asked>>
       \/ /\ s.ok
          /\ \E w \in Saved(s, [s.live EXCEPT ![j] = NewJob(j, at)]) :
               /\ Assign(w)
               /\ asked' = Accepted(j, w, Kept(NewJob(j, at)))
               /\ armed' = (armed \/ (w.ok /\ ~Active))
  /\ UNCHANGED <<now, up, runVars, deleted, polls, fired>>

(* change_binding: a failed write that did replace the file is a success.  *)
ChangeBinding(j) ==
  /\ up /\ ~Active /\ ~dirty /\ edits < MaxEdits
  /\ edits' = edits + 1
  /\ \E s \in Reloaded(Store) :
       LET new == [s.live[j] EXCEPT !.binding = @ + 1] IN
       \/ /\ ~s.ok \/ s.live[j] = NoJob
          /\ Assign(s) /\ UNCHANGED <<armed, asked>>
       \/ /\ s.ok /\ s.live[j] # NoJob
          /\ \/ /\ Assign([s EXCEPT !.live[j] = new, !.disk = [s.live EXCEPT ![j] = new]])
                /\ asked' = [asked EXCEPT ![j] = Kept(new)]
                /\ armed' = TRUE
             \/ /\ CanFail("write")
                /\ Assign(Failed(s)) /\ UNCHANGED <<armed, asked>>
  /\ UNCHANGED <<now, up, runVars, used, deleted, polls, fired>>

(* list_jobs, get_job and status                                           *)
ListJobs ==
  /\ up /\ polls < MaxPolls
  /\ polls' = polls + 1
  /\ \E s \in Loaded(Store) : Assign(s)
  /\ UNCHANGED <<now, up, armed, runVars, used, asked, deleted, edits, fired>>

-----------------------------------------------------------------------------
(* The cron tool of the CLI agent, a process that has not started its      *)
(* service: it appends to the log.                                         *)

CliAdd(j, at) ==
  /\ edits < MaxEdits /\ j \notin used
  /\ edits' = edits + 1 /\ used' = used \cup {j}
  /\ at > now
  /\ log' = Append(log, [job |-> j, copy |-> NewJob(j, at)])
  /\ asked' = [asked EXCEPT ![j] = Kept(NewJob(j, at))]
  /\ UNCHANGED <<now, up, live, disk, dirty, faults, armed, runVars, deleted,
                 polls, fired>>

CliRemove(j) ==
  /\ edits < MaxEdits
  /\ Merge(disk, log)[j] # NoJob
  /\ edits' = edits + 1
  /\ log' = Append(log, [job |-> j, copy |-> NoJob])
  /\ asked' = [asked EXCEPT ![j] = Gone]
  /\ UNCHANGED <<now, up, live, disk, dirty, faults, armed, runVars, used,
                 deleted, polls, fired>>

Runs == TimerFires \/ TimerRunEnds \/ ManualEnds

Next ==
  \/ Start \/ Crash \/ Tick \/ Runs \/ ListJobs
  \/ \E j \in Jobs :
       \/ ManualStarts(j) \/ RemoveJob(j) \/ ChangeBinding(j) \/ CliRemove(j)
       \/ \E enabled \in BOOLEAN : EnableJob(j, enabled)
       \/ \E at \in Times : UpdateJob(j, at) \/ AddJob(j, at) \/ CliAdd(j, at)

Spec == Init /\ [][Next]_vars

(* The timer sleeps at most max_sleep_ms and a callback returns.           *)
Fairness == /\ WF_vars(TimerFires)
            /\ WF_vars(TimerRunEnds)
            /\ WF_vars(ManualEnds)

FairSpec == Spec /\ Fairness

-----------------------------------------------------------------------------
(* Properties                                                              *)

Job == [at : Times, enabled : BOOLEAN, next : 0..MaxTime + 1,
        binding : 0..MaxEdits]

(* Every variable keeps its type.                                          *)
TypeOK ==
  /\ now \in 0..MaxTime /\ up \in BOOLEAN
  /\ live \in [Jobs -> Job \cup {NoJob}]
  /\ disk \in [Jobs -> Job \cup {NoJob}]
  /\ log \in Seq([job : Jobs, copy : Job \cup {NoJob}])
  /\ dirty \in BOOLEAN /\ armed \in BOOLEAN
  /\ running \in [Runners -> Jobs \cup {Nobody}]
  /\ moved \subseteq Runners /\ queue \subseteq Jobs
  /\ used \subseteq Jobs /\ deleted \subseteq Jobs
  /\ fired \in [Jobs -> [0..MaxTime -> Nat]]
  /\ edits \in 0..MaxEdits /\ polls \in 0..MaxPolls /\ faults \in 0..MaxFaults

(* The comment of _load_store: a run whose result was not saved is not     *)
(* repeated.  The timer starts a one-shot job once for each time it was    *)
(* scheduled for, across failed saves, replays of the log and restarts.    *)
OneShotOnce ==
  \A j \in Jobs : OneShot(j) => \A t \in Times : fired[j][t] <= 1

(* What a restart now would find, with what the gateway has in memory.     *)
Effective == Merge(IF up THEN live ELSE disk, log)

(* An edit that was answered holds: the completion of a run, a poll, a     *)
(* crash, a failed save or the merge of other edits does not undo it.      *)
EditsHold ==
  \A j \in Jobs :
    /\ asked[j].what = "gone" => Effective[j] = NoJob
    /\ asked[j].what = "kept" =>
         /\ Effective[j] # NoJob
         /\ Effective[j].at = asked[j].job.at
         /\ Effective[j].enabled = asked[j].job.enabled
         /\ Effective[j].binding = asked[j].job.binding
         /\ OneShot(j) /\ asked[j].job.enabled /\ asked[j].job.at > now
              => Effective[j].next = asked[j].job.at

(* A due job is run or edited while the gateway is up, however runs of the *)
(* timer and of users overlap: the timer is always armed again.            *)
DueJobsRun ==
  \A j \in Jobs : (up /\ Due(live[j])) ~> (running["timer"] = j \/ ~up \/ ~Due(live[j]))

(* docs/automations.md: deleting a task affects future runs.  The timer    *)
(* starts no job after its removal was answered.                           *)
DeletedStaysDeleted ==
  [][\A j \in deleted : fired'[j] = fired[j]]_vars
=============================================================================
