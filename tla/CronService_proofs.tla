------------------------- MODULE CronService_proofs -------------------------
(***************************************************************************)
(* What the scheduler of jobs promises, for any jobs, edits and faults.    *)
(***************************************************************************)
EXTENDS CronService, SequenceTheorems, WellFoundedInduction, TLAPS

JobRecord == [at : Nat, enabled : BOOLEAN, next : Nat, binding : Nat]
Held == JobRecord \cup {NoJob}
Entry == [job : Jobs, copy : Held]

(* What a call has in its hands.                                           *)
Stores == [live : [Jobs -> Held], disk : [Jobs -> Held], log : Seq(Entry),
           dirty : BOOLEAN, faults : Nat, ok : BOOLEAN]

Types ==
  /\ now \in 0 .. MaxTime /\ up \in BOOLEAN /\ dirty \in BOOLEAN /\ armed \in BOOLEAN
  /\ live \in [Jobs -> Held] /\ disk \in [Jobs -> Held] /\ log \in Seq(Entry)
  /\ running \in [Runners -> Jobs \cup {Nobody}] /\ moved \subseteq Runners
  /\ queue \subseteq Jobs /\ used \subseteq Jobs /\ faults \in Nat
  /\ fired \in [Jobs -> [0 .. MaxTime -> Nat]]

(* A job is added under an id that was never used.                         *)
Adds(j) == \E i \in DOMAIN log : log[i].job = j /\ log[i].copy # NoJob

Known ==
  \A j \in Jobs :
    live[j] # NoJob \/ disk[j] # NoJob \/ Adds(j) \/ (\E t \in Times : fired[j][t] # 0)
    => j \in used

(* One timer, which does not sleep while it runs a job.                    *)
Alone ==
  /\ armed => running["timer"] = Nobody
  /\ ~up => ~Active
  /\ running["timer"] \notin queue

(* Nothing starts before its time.                                         *)
Future == \A j \in Jobs : \A t \in Times : t > now => fired[j][t] = 0

(* What the log adds has not started: a load that merges it either raises  *)
(* or empties the log, and nothing is merged while a job runs.             *)
Unmerged ==
  \A j \in Jobs :
    Adds(j) => /\ \A t \in Times : fired[j][t] = 0
               /\ Active => live[j] = NoJob

(* A copy of a one-shot job that is still due at a time it started for.    *)
Spent(j, job) ==
  /\ OneShot(j) /\ job # NoJob /\ job.enabled
  /\ job.next \in Times /\ fired[j][job.next] # 0

(* In memory only the job that the timer runs is spent, and only until its *)
(* schedule is changed.                                                    *)
InRun(j) == running["timer"] = j /\ "timer" \notin moved
LiveGood == up => \A j \in Jobs : Spent(j, live[j]) => InRun(j)

(* The file can be reloaded when memory is saved and no job runs.          *)
DiskGood == up /\ ~dirty /\ ~Active => \A j \in Jobs : ~Spent(j, disk[j])

(* Jobs that a call may keep in memory, with the ids that were used.       *)
Harmless(jobs, ids) ==
  /\ jobs \in [Jobs -> Held]
  /\ \A j \in Jobs : Spent(j, jobs[j]) => InRun(j)
  /\ \A j \in Jobs : jobs[j] # NoJob => j \in ids
  /\ Active => \A j \in Jobs : Adds(j) => jobs[j] = NoJob

(* A store that a call may leave behind, with the ids that were used.      *)
Sound(s, ids) ==
  /\ s \in Stores
  /\ s.log = log \/ s.log = <<>>
  /\ \A j \in Jobs : Spent(j, s.live[j]) => InRun(j)
  /\ (s.dirty = FALSE /\ ~Active) => \A j \in Jobs : ~Spent(j, s.disk[j])
  /\ \A j \in Jobs : (s.live[j] # NoJob \/ s.disk[j] # NoJob) => j \in ids
  /\ Active => \A j \in Jobs : Adds(j) => s.live[j] = NoJob

IInv ==
  Types /\ Known /\ Alone /\ Future /\ Unmerged /\ LiveGood /\ DiskGood /\ OneShotOnce

-----------------------------------------------------------------------------
(* The merge of the log into the store.                                    *)

(* A set of naturals has a least element.                                  *)
LEMMA LeastExists ==
  ASSUME NEW T \in SUBSET Nat, T # {}
  PROVE  \E x \in T : \A y \in T : x <= y
<1>1. PICK x \in T : \A y \in T : ~ (<<y, x>> \in OpToRel(<, Nat))
  BY WFMin, NatLessThanWellFounded
<1>2. \A y \in T : ~(y < x)
  BY <1>1 DEF OpToRel
<1> QED
  BY <1>2

(* Induction up to a bound, for a set of numbers.                          *)
LEMMA UpTo ==
  ASSUME NEW n \in Nat, NEW T, 0 \in T,
         \A i \in 1 .. n : i - 1 \in T => i \in T
  PROVE  \A i \in 0 .. n : i \in T
<1> SUFFICES ASSUME NEW i \in 0 .. n, i \notin T
             PROVE  FALSE
  OBVIOUS
<1> DEFINE Missing == {k \in 0 .. n : k \notin T}
<1>1. Missing # {} /\ Missing \subseteq Nat
  OBVIOUS
<1>2. PICK x \in Missing : \A y \in Missing : x <= y
  <2> HIDE DEF Missing
  <2> QED
    BY <1>1, LeastExists
<1>4. x # 0 /\ x \in 1 .. n
  OBVIOUS
<1>5. x - 1 \in Missing
  BY <1>4
<1> QED
  BY <1>2, <1>4, <1>5

LEMMA ApplyHeld ==
  ASSUME NEW store \in [Jobs -> Held], NEW action \in Entry
  PROVE  /\ Apply(store, action) \in [Jobs -> Held]
         /\ \A j \in Jobs : Apply(store, action)[j] # store[j]
              => action.job = j /\ Apply(store, action)[j] = action.copy
  BY DEF Apply, Entry

(* The merge applies the actions one after the other.                      *)
LEMMA MergeSteps ==
  ASSUME NEW store \in [Jobs -> Held], NEW actions \in Seq(Entry)
  PROVE  \E f \in [0 .. Len(actions) -> [Jobs -> Held]] :
           /\ Merge(store, actions) = f[Len(actions)]
           /\ f[0] = store
           /\ \A i \in 1 .. Len(actions) : f[i] = Apply(f[i - 1], actions[i])
<1> DEFINE n == Len(actions)
           Steps(f, k) == /\ f[0] = store
                          /\ \A i \in 1 .. k : f[i] = Apply(f[i - 1], actions[i])
           T == {k \in 0 .. n : \E f \in [0 .. k -> [Jobs -> Held]] : Steps(f, k)}
           Body(f) == [i \in 0 .. n |-> IF i = 0 THEN store
                                        ELSE Apply(f[i - 1], actions[i])]
<1>0. n \in Nat /\ \A i \in 1 .. n : actions[i] \in Entry
  BY ElementOfSeq, LenProperties
<1>1. 0 \in T
  <2>1. [i \in 0 .. 0 |-> store] \in [0 .. 0 -> [Jobs -> Held]]
    OBVIOUS
  <2>2. Steps([i \in 0 .. 0 |-> store], 0)
    OBVIOUS
  <2> HIDE DEF Steps
  <2> QED
    BY <2>1, <2>2, <1>0
<1>2. ASSUME NEW k \in 1 .. n, k - 1 \in T
      PROVE  k \in T
  <2>1. PICK f \in [0 .. k - 1 -> [Jobs -> Held]] : Steps(f, k - 1)
    BY <1>2
  <2> DEFINE g == [i \in 0 .. k |-> IF i = k THEN Apply(f[k - 1], actions[k]) ELSE f[i]]
  <2>2. Apply(f[k - 1], actions[k]) \in [Jobs -> Held]
    <3>1. f[k - 1] \in [Jobs -> Held] /\ actions[k] \in Entry
      BY <1>0, <2>1
    <3> QED
      BY <3>1, ApplyHeld
  <2>3. g \in [0 .. k -> [Jobs -> Held]]
    BY <2>1, <2>2, <1>0
  <2>4. Steps(g, k)
    BY <2>1, <1>0
  <2> HIDE DEF g, Steps
  <2>5. \E h \in [0 .. k -> [Jobs -> Held]] : Steps(h, k)
    BY <2>3, <2>4
  <2>6. k \in 0 .. n
    BY <1>0
  <2> QED
    BY <2>5, <2>6
<1>3. n \in T
  <2>1. \A i \in 0 .. n : i \in T
    <3> HIDE DEF n, T
    <3> QED
      BY <1>0, <1>1, <1>2, UpTo
  <2> HIDE DEF T
  <2> QED
    BY <2>1, <1>0
<1>4. PICK f \in [0 .. n -> [Jobs -> Held]] : Steps(f, n)
  BY <1>3
<1>5. f = Body(f)
  BY <1>4, <1>0
<1> DEFINE merged == CHOOSE h : h = Body(h)
<1>6. merged = Body(merged)
  <2> HIDE DEF Body
  <2> QED
    BY <1>5
<1>7. Merge(store, actions) = merged[n]
  BY DEF Merge
<1>8. DOMAIN merged = 0 .. n /\ Steps(merged, n)
  <2> HIDE DEF merged
  <2>1. DOMAIN merged = 0 .. n
    BY <1>6
  <2>2. \A i \in 0 .. n : merged[i] = IF i = 0 THEN store ELSE Apply(merged[i - 1], actions[i])
    BY <1>6
  <2> QED
    BY <1>0, <2>1, <2>2
<1>9. merged \in [0 .. n -> [Jobs -> Held]]
  <2> DEFINE U == {i \in 0 .. n : merged[i] \in [Jobs -> Held]}
  <2> HIDE DEF merged
  <2>1. 0 \in U
    BY <1>0, <1>8
  <2>2. ASSUME NEW i \in 1 .. n, i - 1 \in U
        PROVE  i \in U
    BY <1>0, <1>8, <2>2, ApplyHeld
  <2>3. \A i \in 0 .. n : i \in U
    <3> HIDE DEF n, U
    <3> QED
      BY <1>0, <2>1, <2>2, UpTo
  <2>4. merged = [i \in 0 .. n |-> merged[i]]
    BY <1>6
  <2> QED
    BY <2>3, <2>4
<1> HIDE DEF merged
<1> QED
  BY <1>7, <1>8, <1>9

(* What a job is after a merge was in the store or was added.              *)
LEMMA MergeOrigin ==
  ASSUME NEW store \in [Jobs -> Held], NEW actions \in Seq(Entry)
  PROVE  /\ Merge(store, actions) \in [Jobs -> Held]
         /\ \A j \in Jobs :
              \/ Merge(store, actions)[j] = store[j]
              \/ \E i \in DOMAIN actions :
                   actions[i].job = j /\ actions[i].copy = Merge(store, actions)[j]
<1> DEFINE n == Len(actions)
<1>1. PICK f \in [0 .. n -> [Jobs -> Held]] :
        /\ Merge(store, actions) = f[n]
        /\ f[0] = store
        /\ \A i \in 1 .. n : f[i] = Apply(f[i - 1], actions[i])
  BY MergeSteps
<1>2. n \in Nat /\ DOMAIN actions = 1 .. n /\ \A i \in 1 .. n : actions[i] \in Entry
  BY ElementOfSeq, LenProperties
<1> HIDE DEF n
<1>3. Merge(store, actions) \in [Jobs -> Held]
  BY <1>1, <1>2
<1>4. ASSUME NEW j \in Jobs
      PROVE  \/ f[n][j] = store[j]
             \/ \E i \in 1 .. n : actions[i].job = j /\ actions[i].copy = f[n][j]
  <2> DEFINE Origin(v) == \/ v = store[j]
                          \/ \E i \in 1 .. n : actions[i].job = j /\ actions[i].copy = v
             T == {i \in 0 .. n : Origin(f[i][j])}
  <2>1. 0 \in T
    BY <1>1, <1>2
  <2>2. ASSUME NEW i \in 1 .. n, i - 1 \in T
        PROVE  i \in T
    <3>1. f[i] = Apply(f[i - 1], actions[i]) /\ f[i - 1] \in [Jobs -> Held]
      BY <1>1, <1>2
    <3>2. \/ f[i][j] = f[i - 1][j]
          \/ actions[i].job = j /\ f[i][j] = actions[i].copy
      BY <1>2, <3>1, ApplyHeld
    <3>3. Origin(f[i - 1][j])
      BY <2>2
    <3>4. Origin(f[i][j])
      BY <3>2, <3>3
    <3>5. i \in 0 .. n
      BY <1>2
    <3> QED
      BY <3>4, <3>5
  <2>3. \A i \in 0 .. n : i \in T
    <3> HIDE DEF T
    <3> QED
      BY <1>2, <2>1, <2>2, UpTo
  <2>4. Origin(f[n][j])
    BY <1>2, <2>3
  <2> QED
    BY <2>4
<1> QED
  BY <1>1, <1>2, <1>3, <1>4

(* An empty log changes nothing.                                           *)
LEMMA MergeNothing ==
  ASSUME NEW store \in [Jobs -> Held]
  PROVE  Merge(store, <<>>) = store
<1>1. <<>> \in Seq(Entry) /\ Len(<<>>) = 0
  BY EmptySeq
<1>2. PICK f \in [0 .. Len(<<>>) -> [Jobs -> Held]] :
        Merge(store, <<>>) = f[Len(<<>>)] /\ f[0] = store
  <2> HIDE DEF Entry, Held
  <2> QED
    BY <1>1, MergeSteps, ZenonT(90)
<1> QED
  BY <1>1, <1>2

-----------------------------------------------------------------------------
(* Calls that save and load.                                               *)

LEMMA FailedOne ==
  ASSUME NEW s \in Stores
  PROVE  /\ Failed(s) \in Stores /\ Failed(s).ok = FALSE
         /\ Failed(s).live = s.live /\ Failed(s).disk = s.disk
         /\ Failed(s).log = s.log /\ Failed(s).dirty = s.dirty
<1>1. Failed(s) \in Stores
  <2>1. s.faults + 1 \in Nat
    BY DEF Stores
  <2> DEFINE n == s.faults + 1
  <2> HIDE DEF n
  <2>2. [s EXCEPT !.faults = n, !.ok = FALSE] \in Stores
    BY <2>1 DEF Stores, n
  <2> QED
    BY <2>2 DEF Failed, n
<1>2. Failed(s).ok = FALSE
  BY DEF Stores, Failed
<1>3. /\ Failed(s).live = s.live /\ Failed(s).disk = s.disk
      /\ Failed(s).log = s.log /\ Failed(s).dirty = s.dirty
  BY DEF Stores, Failed
<1> QED
  BY <1>1, <1>2, <1>3

(* A save replaces the file or leaves memory ahead of it.                  *)
LEMMA SavedOne ==
  ASSUME NEW s \in Stores, s.ok = TRUE, NEW jobs \in [Jobs -> Held], NEW w \in Saved(s, jobs)
  PROVE  /\ w \in Stores /\ w.live = jobs /\ w.log = s.log
         /\ \/ w.ok = TRUE /\ w.disk = jobs /\ w.dirty = FALSE
            \/ w.ok = FALSE /\ w.dirty = TRUE /\ (w.disk = jobs \/ w.disk = s.disk)
<1>1. CASE w = [s EXCEPT !.live = jobs, !.disk = jobs, !.dirty = FALSE]
  BY <1>1 DEF Stores
<1>2. CASE \E d \in {s.disk, jobs} :
             w = [Failed(s) EXCEPT !.live = jobs, !.disk = d, !.dirty = TRUE]
  <2> DEFINE f == Failed(s)
  <2>1. PICK d \in {s.disk, jobs} : w = [f EXCEPT !.live = jobs, !.disk = d, !.dirty = TRUE]
    BY <1>2
  <2>2. f \in Stores /\ f.ok = FALSE /\ f.log = s.log
    BY FailedOne
  <2>3. d \in [Jobs -> Held]
    BY DEF Stores
  <2> HIDE DEF f
  <2>4. w \in Stores
    BY <2>1, <2>2, <2>3 DEF Stores
  <2>5. w.live = jobs /\ w.log = f.log /\ w.disk = d /\ w.dirty = TRUE /\ w.ok = f.ok
    BY <2>1, <2>2 DEF Stores
  <2> QED
    BY <2>2, <2>4, <2>5
<1>3. QED
  BY <1>1, <1>2 DEF Saved

(* A load merges the log; what it empties it has saved.                    *)
LEMMA ReloadedOne ==
  ASSUME NEW s \in Stores, s.ok = TRUE, NEW m, m = Merge(s.disk, s.log), NEW w \in Reloaded(s)
  PROVE  /\ w \in Stores /\ w.live = m
         /\ w.log = <<>> \/ (w.log = s.log /\ w.ok = FALSE)
         /\ w.disk = m \/ (w.disk = s.disk /\ w.dirty = TRUE)
         /\ w.log = <<>> => w.disk = m
<1>0. m \in [Jobs -> Held] /\ <<>> \in Seq(Entry)
  BY MergeOrigin, EmptySeq DEF Stores
<1>1. CASE s.log = <<>>
  <2>1. w = [s EXCEPT !.live = m]
    BY <1>1 DEF Reloaded
  <2>2. m = s.disk
    BY <1>1, MergeNothing DEF Stores
  <2>3. w \in Stores
    BY <1>0, <2>1 DEF Stores
  <2>4. w.live = m /\ w.log = s.log /\ w.disk = s.disk
    BY <1>0, <2>1 DEF Stores
  <2> QED
    BY <1>1, <2>2, <2>3, <2>4
<1>2. CASE s.log # <<>>
  <2>1. PICK v \in Saved(s, m) :
          \/ ~v.ok /\ w = v
          \/ v.ok /\ (w = [v EXCEPT !.log = <<>>] \/ w = Failed(v))
    BY <1>2 DEF Reloaded
  <2>2. /\ v \in Stores /\ v.live = m /\ v.log = s.log
        /\ \/ v.ok = TRUE /\ v.disk = m /\ v.dirty = FALSE
           \/ v.ok = FALSE /\ v.dirty = TRUE /\ (v.disk = m \/ v.disk = s.disk)
    BY ONLY s \in Stores, s.ok = TRUE, <1>0, <2>1, SavedOne
  <2>3. CASE ~v.ok /\ w = v
    <3>1. w.ok \in BOOLEAN
      BY <2>2, <2>3 DEF Stores
    <3> QED
      BY <1>2, <2>2, <2>3, <3>1
  <2>4. CASE v.ok /\ w = [v EXCEPT !.log = <<>>]
    <3>1. w \in Stores
      BY <1>0, <2>2, <2>4 DEF Stores
    <3>2. w.live = v.live /\ w.log = <<>> /\ w.disk = v.disk
      BY <2>2, <2>4 DEF Stores
    <3> QED
      BY <2>2, <2>4, <3>1, <3>2
  <2>5. CASE v.ok /\ w = Failed(v)
    BY <1>2, <2>2, <2>5, FailedOne
  <2> QED
    BY <2>1, <2>3, <2>4, <2>5
<1> QED
  BY <1>1, <1>2

LEMMA StoreSound ==
  ASSUME IInv, up = TRUE
  PROVE  Sound(Store, used) /\ Store.ok = TRUE
<1>1. Store \in Stores
  BY DEF IInv, Types, Stores, Store
<1>2. /\ Store.live = live /\ Store.disk = disk /\ Store.log = log
      /\ Store.dirty = dirty /\ Store.ok = TRUE
  BY DEF Store
<1>3. \A j \in Jobs : Spent(j, live[j]) => InRun(j)
  BY DEF IInv, LiveGood
<1>4. (dirty = FALSE /\ ~Active) => \A j \in Jobs : ~Spent(j, disk[j])
  BY DEF IInv, DiskGood
<1>5. \A j \in Jobs : (live[j] # NoJob \/ disk[j] # NoJob) => j \in used
  BY DEF IInv, Known
<1>6. Active => \A j \in Jobs : Adds(j) => live[j] = NoJob
  BY DEF IInv, Unmerged
<1> QED
  BY <1>1, <1>2, <1>3, <1>4, <1>5, <1>6 DEF Sound

(* When nothing runs, nothing is in the timer's run.                       *)
LEMMA IdleRunsNothing ==
  ASSUME ~Active, NEW j \in Jobs
  PROVE  ~InRun(j)
  BY NobodyAssumption DEF Active, InRun, Runners

LEMMA SavedSound ==
  ASSUME IInv, NEW ids, NEW s, Sound(s, used), s.ok = TRUE, used \subseteq ids,
         NEW jobs, Harmless(jobs, ids), NEW w \in Saved(s, jobs)
  PROVE  Sound(w, ids)
<1>1. s \in Stores /\ jobs \in [Jobs -> Held]
  BY DEF Sound, Harmless
<1>2. /\ w \in Stores /\ w.live = jobs /\ w.log = s.log
      /\ \/ w.ok = TRUE /\ w.disk = jobs /\ w.dirty = FALSE
         \/ w.ok = FALSE /\ w.dirty = TRUE /\ (w.disk = jobs \/ w.disk = s.disk)
  BY <1>1, SavedOne
<1>3. w.log = log \/ w.log = <<>>
  BY <1>2 DEF Sound
<1>4. (w.dirty = FALSE /\ ~Active) => \A j \in Jobs : ~Spent(j, w.disk[j])
  BY <1>2, IdleRunsNothing DEF Harmless
<1>5. \A j \in Jobs : w.disk[j] # NoJob => j \in ids
  BY <1>2 DEF Sound, Harmless
<1> QED
  BY <1>2, <1>3, <1>4, <1>5 DEF Sound, Harmless

(* A load merges only when memory is saved and nothing runs.               *)
LEMMA ReloadedSound ==
  ASSUME IInv, NEW s, Sound(s, used), s.ok = TRUE, s.dirty = FALSE, ~Active,
         NEW w \in Reloaded(s)
  PROVE  Sound(w, used) /\ (w.ok = TRUE => w.log = <<>>)
<1> DEFINE m == Merge(s.disk, s.log)
<1>1. s \in Stores /\ s.disk \in [Jobs -> Held] /\ s.log \in Seq(Entry)
  BY DEF Sound, Stores
<1>2. m \in [Jobs -> Held]
  BY <1>1, MergeOrigin
<1>3. ASSUME NEW j \in Jobs, m[j] # NoJob
      PROVE  m[j] = s.disk[j] \/ Adds(j)
  <2>1. CASE \E i \in DOMAIN s.log : s.log[i].job = j /\ s.log[i].copy = m[j]
    <3>1. s.log = log
      BY <2>1 DEF Sound
    <3> QED
      BY <1>3, <2>1, <3>1 DEF Adds
  <2> QED
    BY <1>1, <2>1, MergeOrigin
<1> HIDE DEF m
<1>4. /\ w \in Stores /\ w.live = m
      /\ w.log = <<>> \/ (w.log = s.log /\ w.ok = FALSE)
      /\ w.disk = m \/ (w.disk = s.disk /\ w.dirty = TRUE)
  BY <1>1, ReloadedOne, ZenonT(90) DEF m
<1>5. \A j \in Jobs : ~Spent(j, m[j])
  <2> SUFFICES ASSUME NEW j \in Jobs, Spent(j, m[j])
               PROVE  FALSE
    OBVIOUS
  <2>1. m[j] # NoJob
    BY DEF Spent
  <2>2. CASE m[j] = s.disk[j]
    BY <2>2 DEF Sound
  <2>3. CASE Adds(j)
    <3>1. \A t \in Times : fired[j][t] = 0
      BY <2>3 DEF IInv, Unmerged
    <3> QED
      BY <3>1 DEF Spent
  <2> QED
    BY <1>3, <2>1, <2>2, <2>3
<1>6. \A j \in Jobs : m[j] # NoJob => j \in used
  BY <1>3 DEF Sound, IInv, Known
<1>7. \A j \in Jobs : w.disk[j] # NoJob => j \in used
  BY <1>4, <1>6 DEF Sound
<1>8. w.log = log \/ w.log = <<>>
  BY <1>4 DEF Sound
<1>9. w.dirty = FALSE => \A j \in Jobs : ~Spent(j, w.disk[j])
  BY <1>4, <1>5
<1> QED
  BY <1>4, <1>5, <1>6, <1>7, <1>8, <1>9 DEF Sound

LEMMA LoadedSound ==
  ASSUME IInv, NEW s, Sound(s, used), s.ok = TRUE, NEW w \in Loaded(s)
  PROVE  /\ Sound(w, used)
         /\ Active => w = s
         /\ (~Active /\ s.dirty = FALSE /\ w.ok = TRUE) => w.log = <<>>
<1>1. s.dirty \in BOOLEAN
  BY DEF Sound, Stores
<1>2. CASE s.dirty = TRUE \/ Active
  <2>1. w = s
    BY <1>2 DEF Loaded
  <2> QED
    BY <1>2, <2>1
<1>3. CASE s.dirty = FALSE /\ ~Active
  <2>1. w \in Reloaded(s)
    BY <1>3 DEF Loaded
  <2> QED
    BY <1>3, <2>1, ReloadedSound
<1> QED
  BY <1>1, <1>2, <1>3

LEMMA LoadedStore ==
  ASSUME IInv, up = TRUE, NEW s \in Loaded(Store)
  PROVE  /\ Sound(s, used) /\ s.ok \in BOOLEAN /\ s.live \in [Jobs -> Held]
         /\ s.disk \in [Jobs -> Held] /\ Active => s = Store
<1>1. Sound(s, used) /\ (Active => s = Store)
  BY StoreSound, LoadedSound
<1> QED
  BY <1>1 DEF Sound, Stores

-----------------------------------------------------------------------------
(* Steps that start no run.                                                *)

LEMMA Lasts ==
  ASSUME IInv, up' = TRUE, now' = now, fired' = fired, used \subseteq used',
         live' \in [Jobs -> Held], disk' \in [Jobs -> Held], dirty' \in BOOLEAN,
         armed' \in BOOLEAN, running' \in [Runners -> Jobs \cup {Nobody}],
         moved' \subseteq Runners, queue' \subseteq Jobs, used' \subseteq Jobs,
         faults' \in Nat,
         log' = log \/ log' = <<>>,
         \A j \in Jobs : (live'[j] # NoJob \/ disk'[j] # NoJob) => j \in used',
         armed' = TRUE => running'["timer"] = Nobody,
         running'["timer"] \notin queue',
         Active' => \A j \in Jobs : Adds(j) => (log' = <<>> \/ live'[j] = NoJob),
         \A j \in Jobs : Spent(j, live'[j]) => InRun(j)',
         (dirty' = FALSE /\ ~Active') => \A j \in Jobs : ~Spent(j, disk'[j])
  PROVE  IInv'
<1>1. \A j \in Jobs : Spent(j, live[j])' <=> Spent(j, live'[j])
  BY DEF Spent
<1>2. \A j \in Jobs : Spent(j, disk[j])' <=> Spent(j, disk'[j])
  BY DEF Spent
<1>3. \A j \in Jobs : Adds(j)' => Adds(j) /\ log' = log
  <2>1. CASE log' = log
    BY <2>1 DEF Adds
  <2>2. CASE log' = <<>>
    BY <2>2 DEF Adds
  <2> QED
    BY <2>1, <2>2
<1>4. Types'
  <2>1. log' \in Seq(Entry)
    BY EmptySeq DEF IInv, Types
  <2> QED
    BY <2>1 DEF IInv, Types
<1>5. Known'
  BY <1>3 DEF IInv, Known
<1>6. Alone'
  BY DEF Alone
<1>7. Future'
  BY DEF IInv, Future
<1>8. Unmerged'
  <2> SUFFICES ASSUME NEW j \in Jobs, Adds(j)'
               PROVE  /\ \A t \in Times : fired'[j][t] = 0
                      /\ Active' => live'[j] = NoJob
    BY DEF Unmerged
  <2>1. Adds(j) /\ log' = log
    BY <1>3
  <2>2. log' # <<>>
    BY <2>1 DEF Adds
  <2> QED
    BY <2>1, <2>2 DEF IInv, Unmerged
<1>9. LiveGood'
  BY <1>1 DEF LiveGood
<1>10. DiskGood'
  BY <1>2 DEF DiskGood
<1>11. OneShotOnce'
  BY DEF IInv, OneShotOnce
<1> QED
  BY <1>4, <1>5, <1>6, <1>7, <1>8, <1>9, <1>10, <1>11 DEF IInv

(* A call that leaves a sound store, and does not touch the runs.          *)
LEMMA SoundLasts ==
  ASSUME IInv, up = TRUE, up' = up, now' = now, running' = running, queue' = queue,
         fired' = fired, used \subseteq used', used' \subseteq Jobs,
         NEW s, Sound(s, used'), Assign(s),
         moved' \subseteq Runners,
         \A j \in Jobs : (Spent(j, s.live[j]) /\ InRun(j)) => "timer" \notin moved',
         armed' \in BOOLEAN, armed' = TRUE => running["timer"] = Nobody
  PROVE  IInv'
<1>1. /\ live' = s.live /\ disk' = s.disk /\ log' = s.log /\ dirty' = s.dirty
      /\ faults' = s.faults
  BY DEF Assign
<1>2. /\ s.live \in [Jobs -> Held] /\ s.disk \in [Jobs -> Held]
      /\ s.dirty \in BOOLEAN /\ s.faults \in Nat
  BY DEF Sound, Stores
<1>3. /\ running \in [Runners -> Jobs \cup {Nobody}] /\ queue \subseteq Jobs
      /\ running["timer"] \notin queue
  BY DEF IInv, Types, Alone
<1>4. Active' <=> Active
  BY DEF Active
<1>5. \A j \in Jobs : Spent(j, live'[j]) => InRun(j)'
  BY <1>1 DEF Sound, InRun
<1>6. (dirty' = FALSE /\ ~Active') => \A j \in Jobs : ~Spent(j, disk'[j])
  BY <1>1, <1>4 DEF Sound
<1>7. Active' => \A j \in Jobs : Adds(j) => (log' = <<>> \/ live'[j] = NoJob)
  BY <1>1, <1>4 DEF Sound
<1>8. \A j \in Jobs : (live'[j] # NoJob \/ disk'[j] # NoJob) => j \in used'
  BY <1>1 DEF Sound
<1>9. log' = log \/ log' = <<>>
  BY <1>1 DEF Sound
<1> QED
  BY <1>1, <1>2, <1>3, <1>5, <1>6, <1>7, <1>8, <1>9, Lasts

LEMMA ListKeeps ==
  ASSUME IInv, ListJobs
  PROVE  IInv'
<1>1. up = TRUE /\ up' = up /\ now' = now
  BY DEF ListJobs, IInv, Types
<1>2. /\ running' = running /\ queue' = queue /\ fired' = fired /\ used' = used
      /\ moved' = moved /\ armed' = armed
  BY DEF ListJobs, runVars
<1>3. PICK s \in Loaded(Store) : Assign(s)
  BY DEF ListJobs
<1>4. Sound(s, used)
  BY <1>1, LoadedStore
<1>5. /\ used \subseteq Jobs /\ moved \subseteq Runners /\ armed \in BOOLEAN
      /\ armed = TRUE => running["timer"] = Nobody
  BY DEF IInv, Types, Alone
<1>6. \A j \in Jobs : (Spent(j, s.live[j]) /\ InRun(j)) => "timer" \notin moved'
  BY <1>2 DEF InRun
<1> QED
  BY <1>1, <1>2, <1>3, <1>4, <1>5, <1>6, SoundLasts

(* What every edit in the gateway leaves alone.                            *)
EditFrame ==
  /\ up = TRUE /\ up' = up /\ now' = now /\ running' = running /\ queue' = queue
  /\ fired' = fired /\ used' = used

LEMMA ArmedLater ==
  ASSUME IInv, NEW saved \in BOOLEAN,
         armed' = armed \/ armed' = (armed \/ (saved /\ ~Active))
  PROVE  armed' \in BOOLEAN /\ (armed' = TRUE => running["timer"] = Nobody)
<1>1. armed \in BOOLEAN /\ (armed = TRUE => running["timer"] = Nobody)
  BY DEF IInv, Types, Alone
<1>2. ~Active => running["timer"] = Nobody
  BY DEF Active, Runners
<1> QED
  BY <1>1, <1>2

LEMMA EditRefused ==
  ASSUME IInv, EditFrame, NEW s \in Loaded(Store), Assign(s),
         armed' = armed, moved' = moved
  PROVE  IInv'
<1>1. Sound(s, used)
  BY LoadedStore DEF EditFrame
<1>2. /\ used \subseteq Jobs /\ moved \subseteq Runners /\ armed \in BOOLEAN
      /\ armed = TRUE => running["timer"] = Nobody
  BY DEF IInv, Types, Alone
<1>3. \A j \in Jobs : (Spent(j, s.live[j]) /\ InRun(j)) => "timer" \notin moved'
  BY DEF InRun
<1> QED
  BY <1>1, <1>2, <1>3, SoundLasts DEF EditFrame

(* An edit leaves a job spent only when it keeps its schedule.             *)
LEMMA EditMade ==
  ASSUME IInv, EditFrame, NEW j \in Jobs, NEW s \in Loaded(Store), s.ok = TRUE,
         s.live[j] # NoJob, NEW new \in Held,
         NEW w \in Saved(s, [s.live EXCEPT ![j] = new]), Assign(w),
         Spent(j, new) => (Spent(j, s.live[j]) /\ new.at = s.live[j].at),
         moved' = IF new # NoJob /\ new.at # s.live[j].at
                  THEN moved \cup {r \in Runners : running[r] = j} ELSE moved,
         armed' = (armed \/ (w.ok /\ ~Active))
  PROVE  IInv'
<1> DEFINE jobs == [s.live EXCEPT ![j] = new]
<1>1. Sound(s, used)
  BY LoadedStore DEF EditFrame
<1>2. s.live \in [Jobs -> Held]
  BY <1>1 DEF Sound, Stores
<1>3. /\ jobs \in [Jobs -> Held] /\ jobs[j] = new
      /\ \A k \in Jobs : k # j => jobs[k] = s.live[k]
  BY <1>2
<1> HIDE DEF jobs
<1>4. \A k \in Jobs : Spent(k, jobs[k]) => InRun(k)
  BY <1>1, <1>3 DEF Sound
<1>5. \A k \in Jobs : jobs[k] # NoJob => k \in used
  BY <1>1, <1>3 DEF Sound
<1>6. Active => \A k \in Jobs : Adds(k) => jobs[k] = NoJob
  <2> SUFFICES ASSUME Active, NEW k \in Jobs, Adds(k)
               PROVE  jobs[k] = NoJob
    OBVIOUS
  <2>1. s.live[k] = NoJob
    BY <1>1 DEF Sound
  <2> QED
    BY <1>3, <2>1
<1>7. Sound(w, used) /\ w.live = jobs
  <2>1. w \in Saved(s, jobs)
    BY DEF jobs
  <2>2. Harmless(jobs, used)
    BY <1>3, <1>4, <1>5, <1>6 DEF Harmless
  <2>3. Sound(w, used)
    BY <1>1, <2>1, <2>2, SavedSound
  <2>4. s \in Stores
    BY <1>1 DEF Sound
  <2> QED
    BY <1>3, <2>1, <2>3, <2>4, SavedOne, ZenonT(90)
<1>8. w.ok \in BOOLEAN
  BY <1>7 DEF Sound, Stores
<1>9. armed' \in BOOLEAN /\ (armed' = TRUE => running["timer"] = Nobody)
  BY <1>8, ArmedLater
<1>10. \A k \in Jobs : (Spent(k, w.live[k]) /\ InRun(k)) => "timer" \notin moved'
  <2> SUFFICES ASSUME NEW k \in Jobs, Spent(k, jobs[k]), InRun(k)
               PROVE  "timer" \notin moved'
    BY <1>7
  <2>1. CASE k = j
    <3>1. new.at = s.live[j].at
      BY <1>3, <2>1
    <3> QED
      BY <3>1 DEF InRun
  <2>2. CASE k # j
    BY <2>2 DEF InRun
  <2> QED
    BY <2>1, <2>2
<1>11. used \subseteq Jobs /\ moved' \subseteq Runners
  BY DEF IInv, Types
<1> QED
  BY <1>7, <1>9, <1>10, <1>11, SoundLasts DEF EditFrame

LEMMA RemoveKeeps ==
  ASSUME IInv, NEW j \in Jobs, RemoveJob(j)
  PROVE  IInv'
<1>1. EditFrame
  BY DEF RemoveJob, Edit, EditFrame, IInv, Types
<1>2. PICK s \in Loaded(Store) :
        \/ Assign(s) /\ armed' = armed /\ moved' = moved
        \/ /\ s.ok /\ s.live[j] # NoJob
           /\ \E w \in Saved(s, [s.live EXCEPT ![j] = NoJob]) :
                /\ Assign(w) /\ moved' = moved
                /\ armed' = (armed \/ (w.ok /\ ~Active))
  BY DEF RemoveJob, Edit
<1>3. CASE Assign(s) /\ armed' = armed /\ moved' = moved
  BY <1>1, <1>3, EditRefused
<1>4. ASSUME s.ok, s.live[j] # NoJob,
             NEW w \in Saved(s, [s.live EXCEPT ![j] = NoJob]),
             Assign(w), moved' = moved, armed' = (armed \/ (w.ok /\ ~Active))
      PROVE  IInv'
  <2>1. s.ok = TRUE
    BY <1>1, <1>4, LoadedStore DEF EditFrame
  <2>2. ~Spent(j, NoJob) /\ NoJob \in Held
    BY DEF Spent, Held
  <2> QED
    BY <1>1, <1>4, <2>1, <2>2, EditMade
<1> QED
  BY <1>2, <1>3, <1>4

(* A schedule that was just computed is ahead of the clock.                *)
LEMMA NextRunAhead ==
  ASSUME IInv, NEW j \in Jobs, NEW at \in Nat
  PROVE  /\ NextRun(j, at) \in Nat
         /\ \A job : job.next = NextRun(j, at) => ~Spent(j, job)
         /\ \A job : job.next = NoTime => ~Spent(j, job)
<1>1. now \in Nat /\ MaxTime \in Nat
  BY BoundAssumption DEF IInv, Types
<1>2. NextRun(j, at) \in Nat
  BY <1>1 DEF NextRun, NoTime
<1>3. OneShot(j) => (NextRun(j, at) > now \/ NextRun(j, at) = NoTime)
  BY <1>1 DEF OneShot, NextRun
<1>4. \A job : job.next = NoTime => ~Spent(j, job)
  BY <1>1 DEF Spent, NoTime, Times
<1>5. ASSUME NEW job, job.next = NextRun(j, at), Spent(j, job)
      PROVE  FALSE
  <2>1. OneShot(j) /\ job.next \in Times /\ fired[j][job.next] # 0
    BY <1>5 DEF Spent
  <2>2. job.next > now
    BY <1>3, <1>4, <1>5, <2>1
  <2> QED
    BY <2>1, <2>2 DEF IInv, Future
<1> QED
  BY <1>2, <1>4, <1>5

LEMMA EnableKeeps ==
  ASSUME IInv, NEW j \in Jobs, NEW enabled \in BOOLEAN, EnableJob(j, enabled)
  PROVE  IInv'
<1> DEFINE New(job) == [job EXCEPT !.enabled = enabled,
                          !.next = IF enabled THEN NextRun(j, job.at) ELSE NoTime]
<1>1. EditFrame
  BY DEF EnableJob, Edit, EditFrame, IInv, Types
<1>2. PICK s \in Loaded(Store) :
        \/ Assign(s) /\ armed' = armed /\ moved' = moved
        \/ /\ s.ok /\ s.live[j] # NoJob
           /\ \E w \in Saved(s, [s.live EXCEPT ![j] = New(s.live[j])]) :
                /\ Assign(w)
                /\ armed' = (armed \/ (w.ok /\ ~Active))
                /\ moved' = IF New(s.live[j]) # NoJob /\ New(s.live[j]).at # s.live[j].at
                            THEN moved \cup {r \in Runners : running[r] = j} ELSE moved
  BY DEF EnableJob, Edit
<1>3. CASE Assign(s) /\ armed' = armed /\ moved' = moved
  BY <1>1, <1>3, EditRefused
<1>4. ASSUME s.ok, s.live[j] # NoJob,
             NEW w \in Saved(s, [s.live EXCEPT ![j] = New(s.live[j])]),
             Assign(w), armed' = (armed \/ (w.ok /\ ~Active)),
             moved' = IF New(s.live[j]) # NoJob /\ New(s.live[j]).at # s.live[j].at
                      THEN moved \cup {r \in Runners : running[r] = j} ELSE moved
      PROVE  IInv'
  <2> DEFINE job == s.live[j]
             next == IF enabled THEN NextRun(j, job.at) ELSE NoTime
             new == New(job)
  <2>1. s.ok = TRUE /\ job \in JobRecord
    BY <1>1, <1>4, LoadedStore DEF EditFrame, Held
  <2>2. next \in Nat
    BY <2>1, NextRunAhead DEF JobRecord, NoTime
  <2>3. new = [job EXCEPT !.enabled = enabled, !.next = next]
    OBVIOUS
  <2> HIDE DEF job, next, New
  <2>4. new \in JobRecord /\ new.next = next
    BY <2>1, <2>2, <2>3 DEF JobRecord
  <2>5. ~Spent(j, new)
    BY <2>1, <2>4, NextRunAhead DEF next, JobRecord
  <2> HIDE DEF new
  <2>6. new \in Held
    BY <2>4 DEF Held
  <2> QED
    BY <1>1, <1>4, <2>1, <2>5, <2>6, EditMade DEF new, job
<1> QED
  BY <1>2, <1>3, <1>4

LEMMA UpdateKeeps ==
  ASSUME IInv, NEW j \in Jobs, NEW at \in Times, UpdateJob(j, at)
  PROVE  IInv'
<1> DEFINE NextTime(job) == IF ~job.enabled THEN NoTime
                         ELSE IF at = job.at THEN job.next ELSE NextRun(j, at)
           New(job) == [job EXCEPT !.at = at,
                          !.next = IF ~job.enabled THEN NoTime
                                   ELSE IF at = job.at THEN @ ELSE NextRun(j, at)]
<1>1. EditFrame
  BY DEF UpdateJob, Edit, EditFrame, IInv, Types
<1>2. PICK s \in Loaded(Store) :
        \/ Assign(s) /\ armed' = armed /\ moved' = moved
        \/ /\ s.ok /\ s.live[j] # NoJob
           /\ \E w \in Saved(s, [s.live EXCEPT ![j] = New(s.live[j])]) :
                /\ Assign(w)
                /\ armed' = (armed \/ (w.ok /\ ~Active))
                /\ moved' = IF New(s.live[j]) # NoJob /\ New(s.live[j]).at # s.live[j].at
                            THEN moved \cup {r \in Runners : running[r] = j} ELSE moved
  BY ZenonT(90) DEF UpdateJob, Edit
<1>3. CASE Assign(s) /\ armed' = armed /\ moved' = moved
  BY <1>1, <1>3, EditRefused
<1>4. ASSUME s.ok, s.live[j] # NoJob,
             NEW w \in Saved(s, [s.live EXCEPT ![j] = New(s.live[j])]),
             Assign(w), armed' = (armed \/ (w.ok /\ ~Active)),
             moved' = IF New(s.live[j]) # NoJob /\ New(s.live[j]).at # s.live[j].at
                      THEN moved \cup {r \in Runners : running[r] = j} ELSE moved
      PROVE  IInv'
  <2> DEFINE job == s.live[j]
             next == NextTime(job)
             new == New(job)
  <2>0. at \in Nat
    BY BoundAssumption DEF Times
  <2>1. s.ok = TRUE /\ job \in JobRecord
    BY <1>1, <1>4, LoadedStore DEF EditFrame, Held
  <2>2. next \in Nat
    BY <2>0, <2>1, NextRunAhead DEF JobRecord, NoTime
  <2>3. new = [job EXCEPT !.at = at, !.next = next]
    OBVIOUS
  <2>4. new \in JobRecord /\ new.next = next /\ new.at = at /\ new.enabled = job.enabled
    <3> HIDE DEF job, next, New, NextTime
    <3> QED
      BY <2>0, <2>1, <2>2, <2>3 DEF JobRecord
  <2>5. Spent(j, new) => (Spent(j, job) /\ at = job.at)
    <3> HIDE DEF job, New, new
    <3> SUFFICES ASSUME Spent(j, new)
                 PROVE  Spent(j, job) /\ at = job.at
      OBVIOUS
    <3>1. job.enabled /\ OneShot(j) /\ new.next \in Times /\ fired[j][new.next] # 0
      BY <2>4 DEF Spent
    <3>2. at = job.at
      BY <2>0, <2>4, <3>1, NextRunAhead
    <3>3. new.next = job.next
      BY <2>4, <3>1, <3>2
    <3> QED
      BY <1>4, <3>1, <3>2, <3>3 DEF Spent, job
  <2> HIDE DEF new, next, New, NextTime
  <2>6. new \in Held
    BY <2>4 DEF Held
  <2> QED
    BY <1>1, <1>4, <2>1, <2>4, <2>5, <2>6, EditMade DEF new, job
<1> QED
  BY <1>2, <1>3, <1>4

(* One job is replaced by one that is not spent.                           *)
LEMMA ReplacedHarmless ==
  ASSUME IInv, NEW ids, used \subseteq ids, NEW s, Sound(s, used), NEW j \in Jobs,
         NEW new \in Held, ~Spent(j, new), j \in ids,
         s.live[j] # NoJob \/ j \notin used
  PROVE  Harmless([s.live EXCEPT ![j] = new], ids)
<1> DEFINE jobs == [s.live EXCEPT ![j] = new]
<1>1. s.live \in [Jobs -> Held]
  BY DEF Sound, Stores
<1>2. /\ jobs \in [Jobs -> Held] /\ jobs[j] = new
      /\ \A k \in Jobs : k # j => jobs[k] = s.live[k]
  BY <1>1
<1> HIDE DEF jobs
<1>3. \A k \in Jobs : Spent(k, jobs[k]) => InRun(k)
  BY <1>2 DEF Sound
<1>4. \A k \in Jobs : jobs[k] # NoJob => k \in ids
  BY <1>2 DEF Sound
<1>5. ASSUME Active, NEW k \in Jobs, Adds(k)
      PROVE  jobs[k] = NoJob
  <2>1. s.live[k] = NoJob /\ k \in used
    BY <1>5 DEF Sound, IInv, Known
  <2> QED
    BY <1>2, <2>1
<1>6. Harmless(jobs, ids)
  BY <1>2, <1>3, <1>4, <1>5 DEF Harmless
<1> QED
  BY <1>6 DEF jobs

LEMMA AddKeeps ==
  ASSUME IInv, NEW j \in Jobs, NEW at \in Times, AddJob(j, at)
  PROVE  IInv'
<1> DEFINE new == NewJob(j, at)
<1>1. /\ up = TRUE /\ up' = up /\ now' = now /\ running' = running /\ queue' = queue
      /\ moved' = moved /\ fired' = fired /\ used' = used \cup {j} /\ j \notin used
  BY DEF AddJob, runVars, IInv, Types
<1>2. new \in Held /\ ~Spent(j, new)
  <2>1. at \in Nat
    BY BoundAssumption DEF Times
  <2>2. NextRun(j, at) \in Nat
    BY <2>1, NextRunAhead
  <2>3. new \in JobRecord /\ new.next = NextRun(j, at)
    BY <2>1, <2>2 DEF NewJob, JobRecord
  <2> QED
    BY <2>1, <2>3, NextRunAhead DEF Held
<1>3. PICK s \in Loaded(Store) :
        \/ Assign(s) /\ armed' = armed
        \/ /\ s.ok
           /\ \E w \in Saved(s, [s.live EXCEPT ![j] = new]) :
                Assign(w) /\ armed' = (armed \/ (w.ok /\ ~Active))
  BY DEF AddJob
<1>4. Sound(s, used) /\ s.ok \in BOOLEAN
  BY <1>1, LoadedStore
<1>5. \A w : \A k \in Jobs : (Spent(k, w.live[k]) /\ InRun(k)) => "timer" \notin moved'
  BY <1>1 DEF InRun
<1>6. used \subseteq used' /\ used' \subseteq Jobs /\ moved' \subseteq Runners /\ j \in used'
  BY <1>1 DEF IInv, Types
<1>7. CASE Assign(s) /\ armed' = armed
  <2>1. Sound(s, used')
    BY <1>4, <1>6 DEF Sound
  <2>2. armed' \in BOOLEAN /\ (armed' = TRUE => running["timer"] = Nobody)
    BY <1>7, ArmedLater
  <2> QED
    BY <1>1, <1>5, <1>6, <1>7, <2>1, <2>2, SoundLasts
<1>8. ASSUME s.ok, NEW w \in Saved(s, [s.live EXCEPT ![j] = new]),
             Assign(w), armed' = (armed \/ (w.ok /\ ~Active))
      PROVE  IInv'
  <2> DEFINE jobs == [s.live EXCEPT ![j] = new]
  <2>1. Harmless(jobs, used')
    <3> HIDE DEF new
    <3> QED
      BY <1>1, <1>2, <1>4, <1>6, ReplacedHarmless
  <2> HIDE DEF jobs, new
  <2>2. w \in Saved(s, jobs) /\ s.ok = TRUE
    BY <1>4, <1>8 DEF jobs
  <2>3. Sound(w, used')
    BY <1>4, <1>6, <2>1, <2>2, SavedSound
  <2>4. w.ok \in BOOLEAN
    BY <2>3 DEF Sound, Stores
  <2>5. armed' \in BOOLEAN /\ (armed' = TRUE => running["timer"] = Nobody)
    BY <1>8, <2>4, ArmedLater
  <2> QED
    BY <1>1, <1>5, <1>6, <1>8, <2>3, <2>5, SoundLasts
<1> QED
  BY <1>3, <1>7, <1>8

LEMMA ChangeBindingKeeps ==
  ASSUME IInv, NEW j \in Jobs, ChangeBinding(j)
  PROVE  IInv'
<1>1. /\ up = TRUE /\ up' = up /\ now' = now /\ running' = running /\ queue' = queue
      /\ moved' = moved /\ fired' = fired /\ used' = used
      /\ ~Active /\ dirty = FALSE
  BY DEF ChangeBinding, runVars, IInv, Types
<1>2. PICK s \in Reloaded(Store) :
        LET new == [s.live[j] EXCEPT !.binding = @ + 1] IN
        \/ Assign(s) /\ armed' = armed
        \/ /\ s.ok /\ s.live[j] # NoJob
           /\ \/ /\ Assign([s EXCEPT !.live[j] = new, !.disk = [s.live EXCEPT ![j] = new]])
                 /\ armed' = TRUE
              \/ Assign(Failed(s)) /\ armed' = armed
  BY DEF ChangeBinding
<1>3. Sound(s, used) /\ s \in Stores /\ s.live \in [Jobs -> Held]
  <2>1. Sound(Store, used) /\ Store.ok = TRUE /\ Store.dirty = FALSE
    BY <1>1, StoreSound DEF Store
  <2>2. Sound(s, used)
    BY <1>1, <2>1, ReloadedSound
  <2> QED
    BY <2>2 DEF Sound, Stores
<1>4. \A w : \A k \in Jobs : (Spent(k, w.live[k]) /\ InRun(k)) => "timer" \notin moved'
  BY <1>1 DEF InRun
<1>5. used \subseteq used' /\ used' \subseteq Jobs /\ moved' \subseteq Runners
  BY <1>1 DEF IInv, Types
<1>6. running["timer"] = Nobody
  BY <1>1 DEF Active, Runners
<1>7. CASE Assign(s) /\ armed' = armed
  <2>1. armed' \in BOOLEAN
    BY <1>7 DEF IInv, Types
  <2> QED
    BY <1>1, <1>3, <1>4, <1>5, <1>6, <1>7, <2>1, SoundLasts
<1>8. CASE Assign(Failed(s)) /\ armed' = armed
  <2>1. armed' \in BOOLEAN
    BY <1>8 DEF IInv, Types
  <2> DEFINE w == Failed(s)
  <2>2. Sound(w, used)
    <3>1. /\ w \in Stores /\ w.live = s.live /\ w.disk = s.disk
          /\ w.log = s.log /\ w.dirty = s.dirty
      BY <1>3, FailedOne
    <3> HIDE DEF w
    <3> QED
      BY <1>3, <3>1 DEF Sound
  <2> HIDE DEF w
  <2> QED
    BY <1>1, <1>4, <1>5, <1>6, <1>8, <2>1, <2>2, SoundLasts DEF w
<1>9. CASE /\ s.live[j] # NoJob /\ armed' = TRUE
           /\ LET new == [s.live[j] EXCEPT !.binding = @ + 1] IN
              Assign([s EXCEPT !.live[j] = new, !.disk = [s.live EXCEPT ![j] = new]])
  <2> DEFINE old == s.live[j]
             new == [old EXCEPT !.binding = @ + 1]
             jobs == [s.live EXCEPT ![j] = new]
             w == [s EXCEPT !.live[j] = new, !.disk = jobs]
  <2>1. old \in JobRecord
    BY <1>3, <1>9 DEF Held
  <2>2. new \in JobRecord /\ new.enabled = old.enabled /\ new.next = old.next
    <3> HIDE DEF old
    <3>1. old.binding + 1 \in Nat
      BY <2>1 DEF JobRecord
    <3>2. new = [old EXCEPT !.binding = old.binding + 1]
      BY <2>1 DEF JobRecord
    <3> HIDE DEF new
    <3> QED
      BY <2>1, <3>1, <3>2 DEF JobRecord
  <2>3. ~Spent(j, old)
    BY <1>1, <1>3, IdleRunsNothing DEF Sound
  <2>4. ~Spent(j, new)
    <3> HIDE DEF old, new
    <3> QED
      BY <1>9, <2>2, <2>3 DEF Spent, old
  <2>5. j \in used
    BY <1>3, <1>9 DEF Sound
  <2>6. Harmless(jobs, used)
    <3> HIDE DEF new
    <3>1. new \in Held
      BY <2>2 DEF Held
    <3> QED
      BY <1>3, <1>9, <2>4, <2>5, <3>1, ReplacedHarmless
  <2>7. w = [s EXCEPT !.live = jobs, !.disk = jobs]
    BY <1>3 DEF Stores
  <2>8. jobs \in [Jobs -> Held]
    BY <2>6 DEF Harmless
  <2> HIDE DEF jobs
  <2>9. /\ w.live = jobs /\ w.disk = jobs /\ w.log = s.log /\ w.dirty = s.dirty
        /\ w \in Stores
    <3> HIDE DEF w
    <3>1. w.live = jobs /\ w.disk = jobs /\ w.log = s.log /\ w.dirty = s.dirty
      BY <1>3, <2>7 DEF Stores
    <3>2. w \in Stores
      BY <1>3, <2>7, <2>8 DEF Stores
    <3> QED
      BY <3>1, <3>2
  <2>10. Assign(w)
    BY <1>9 DEF jobs
  <2> HIDE DEF w
  <2>11. Sound(w, used)
    BY <1>1, <1>3, <2>6, <2>9, IdleRunsNothing DEF Sound, Harmless
  <2> QED
    BY <1>1, <1>4, <1>5, <1>6, <1>9, <2>10, <2>11, SoundLasts
<1> QED
  BY <1>2, <1>7, <1>8, <1>9

-----------------------------------------------------------------------------
(* The other process appends to the log.                                   *)

LEMMA AppendKeeps ==
  ASSUME IInv, NEW j \in Jobs, NEW copy \in Held,
         log' = Append(log, [job |-> j, copy |-> copy]),
         copy # NoJob => j \notin used /\ j \in used',
         used \subseteq used', used' \subseteq Jobs,
         now' = now, up' = up, live' = live, disk' = disk, dirty' = dirty,
         faults' = faults, armed' = armed, running' = running, moved' = moved,
         queue' = queue, fired' = fired
  PROVE  IInv'
<1> DEFINE e == [job |-> j, copy |-> copy]
<1>1. e \in Entry /\ log \in Seq(Entry)
  BY DEF Entry, IInv, Types
<1>2. /\ log' \in Seq(Entry) /\ Len(log') = Len(log) + 1 /\ Len(log) \in Nat
      /\ \A i \in 1 .. Len(log) : log'[i] = log[i]
      /\ log'[Len(log) + 1] = e
  <2> HIDE DEF e
  <2> QED
    BY <1>1, AppendProperties, LenProperties DEF e
<1>3. DOMAIN log' = 1 .. Len(log) + 1 /\ DOMAIN log = 1 .. Len(log)
  BY <1>1, <1>2, LenProperties
<1>4. \A k \in Jobs : Adds(k)' => Adds(k) \/ (k = j /\ copy # NoJob)
  BY <1>2, <1>3 DEF Adds
<1>5. \A k \in Jobs : \A job : Spent(k, job)' <=> Spent(k, job)
  BY DEF Spent
<1>6. Active' <=> Active
  BY DEF Active
<1>7. Types'
  BY <1>2 DEF IInv, Types
<1>8. Known'
  BY <1>4 DEF IInv, Known
<1>9. Alone'
  BY <1>6 DEF IInv, Alone
<1>10. Future'
  BY DEF IInv, Future
<1>11. Unmerged'
  <2>1. \A k \in Jobs : k \notin used => live[k] = NoJob /\ \A t \in Times : fired[k][t] = 0
    BY DEF IInv, Known
  <2> QED
    BY <1>4, <1>6, <2>1 DEF IInv, Unmerged
<1>12. LiveGood'
  BY <1>5 DEF IInv, LiveGood, InRun
<1>13. DiskGood'
  BY <1>5, <1>6 DEF IInv, DiskGood
<1>14. OneShotOnce'
  BY DEF IInv, OneShotOnce
<1> QED
  BY <1>7, <1>8, <1>9, <1>10, <1>11, <1>12, <1>13, <1>14 DEF IInv

LEMMA CliAddKeeps ==
  ASSUME IInv, NEW j \in Jobs, NEW at \in Times, CliAdd(j, at)
  PROVE  IInv'
<1>1. at \in Nat
  BY BoundAssumption DEF Times
<1>2. NewJob(j, at) \in Held
  BY <1>1, NextRunAhead DEF NewJob, JobRecord, Held
<1>3. j \notin used /\ used' = used \cup {j} /\ used' \subseteq Jobs
  BY DEF CliAdd, IInv, Types
<1>4. log' = Append(log, [job |-> j, copy |-> NewJob(j, at)])
  BY DEF CliAdd
<1>5. /\ now' = now /\ up' = up /\ live' = live /\ disk' = disk /\ dirty' = dirty
      /\ faults' = faults /\ armed' = armed /\ running' = running /\ moved' = moved
      /\ queue' = queue /\ fired' = fired
  BY DEF CliAdd, runVars
<1> QED
  BY <1>2, <1>3, <1>4, <1>5, AppendKeeps

LEMMA CliRemoveKeeps ==
  ASSUME IInv, NEW j \in Jobs, CliRemove(j)
  PROVE  IInv'
<1>1. NoJob \in Held
  BY DEF Held
<1>2. used' = used /\ used' \subseteq Jobs
  BY DEF CliRemove, IInv, Types
<1>3. log' = Append(log, [job |-> j, copy |-> NoJob])
  BY DEF CliRemove
<1>4. /\ now' = now /\ up' = up /\ live' = live /\ disk' = disk /\ dirty' = dirty
      /\ faults' = faults /\ armed' = armed /\ running' = running /\ moved' = moved
      /\ queue' = queue /\ fired' = fired
  BY DEF CliRemove, runVars
<1> QED
  BY <1>1, <1>2, <1>3, <1>4, AppendKeeps

-----------------------------------------------------------------------------
(* The life of the gateway.                                                *)

LEMMA TickKeeps ==
  ASSUME IInv, Tick
  PROVE  IInv'
<1>1. now' = now + 1 /\ now \in 0 .. MaxTime /\ now < MaxTime /\ MaxTime \in Nat
  BY BoundAssumption DEF Tick, IInv, Types
<1>2. /\ up' = up /\ live' = live /\ disk' = disk /\ log' = log /\ dirty' = dirty
      /\ faults' = faults /\ armed' = armed /\ running' = running /\ moved' = moved
      /\ queue' = queue /\ fired' = fired /\ used' = used
  BY DEF Tick, storeVars, runVars, userVars
<1>3. \A j \in Jobs : Adds(j)' <=> Adds(j)
  BY <1>2 DEF Adds
<1>4. \A j \in Jobs : \A job : Spent(j, job)' <=> Spent(j, job)
  BY <1>2 DEF Spent
<1>5. Active' <=> Active
  BY <1>2 DEF Active
<1>6. Types'
  <2>1. now' \in 0 .. MaxTime
    BY <1>1
  <2> QED
    BY <1>2, <2>1 DEF IInv, Types
<1>7. Known'
  BY <1>2, <1>3 DEF IInv, Known
<1>8. Alone'
  BY <1>2, <1>5 DEF IInv, Alone
<1>9. Future'
  <2>1. \A t \in Times : t > now' => t > now
    BY <1>1 DEF Times
  <2> QED
    BY <1>2, <2>1 DEF IInv, Future
<1>10. Unmerged'
  BY <1>2, <1>3, <1>5 DEF IInv, Unmerged
<1>11. LiveGood'
  BY <1>2, <1>4 DEF IInv, LiveGood, InRun
<1>12. DiskGood'
  BY <1>2, <1>4, <1>5 DEF IInv, DiskGood
<1>13. OneShotOnce'
  BY <1>2 DEF IInv, OneShotOnce
<1> QED
  BY <1>6, <1>7, <1>8, <1>9, <1>10, <1>11, <1>12, <1>13 DEF IInv

LEMMA CrashKeeps ==
  ASSUME IInv, Crash
  PROVE  IInv'
<1>1. /\ up' = FALSE /\ armed' = FALSE /\ dirty' = FALSE /\ live' = disk
      /\ running' = [r \in Runners |-> Nobody] /\ moved' = {} /\ queue' = {}
      /\ faults' = faults + 1
  BY DEF Crash
<1>2. now' = now /\ disk' = disk /\ log' = log /\ fired' = fired /\ used' = used
  BY DEF Crash, userVars
<1>3. \A j \in Jobs : Adds(j)' <=> Adds(j)
  BY <1>2 DEF Adds
<1>4. ~Active'
  BY <1>1 DEF Active
<1>5. Types'
  <2>1. running' \in [Runners -> Jobs \cup {Nobody}]
    BY <1>1
  <2>2. faults' \in Nat
    BY <1>1 DEF IInv, Types
  <2> QED
    BY <1>1, <1>2, <2>1, <2>2 DEF IInv, Types
<1>6. Known'
  BY <1>1, <1>2, <1>3 DEF IInv, Known
<1>7. Alone'
  BY <1>1, <1>4 DEF Alone
<1>8. Future'
  BY <1>2 DEF IInv, Future
<1>9. Unmerged'
  BY <1>2, <1>3, <1>4 DEF IInv, Unmerged
<1>10. LiveGood' /\ DiskGood'
  BY <1>1 DEF LiveGood, DiskGood
<1>11. OneShotOnce'
  BY <1>2 DEF IInv, OneShotOnce
<1> QED
  BY <1>5, <1>6, <1>7, <1>8, <1>9, <1>10, <1>11 DEF IInv

(* A start recomputes when a job is next due, so none of them is spent.    *)
LEMMA ResumedAhead ==
  ASSUME IInv, NEW j \in Jobs, NEW job \in Held
  PROVE  /\ Resumed(j, job) \in Held
         /\ ~Spent(j, Resumed(j, job))
         /\ Resumed(j, job) # NoJob => job # NoJob
<1>1. CASE job = NoJob \/ ~job.enabled
  BY <1>1 DEF Resumed, Spent
<1>2. CASE ~(job = NoJob \/ ~job.enabled)
  <2>1. job \in JobRecord
    BY <1>2 DEF Held
  <2>2. CASE KindOf[j] = "every" /\ job.next = now + 1
    BY <1>2, <2>2 DEF Resumed, Spent, OneShot
  <2>3. CASE ~(KindOf[j] = "every" /\ job.next = now + 1)
    <3> DEFINE next == NextRun(j, job.at)
               new == [job EXCEPT !.next = next]
    <3>1. Resumed(j, job) = new
      BY <1>2, <2>3 DEF Resumed
    <3>2. next \in Nat
      BY <2>1, NextRunAhead DEF JobRecord
    <3>3. new \in JobRecord /\ new.next = next
      <4> HIDE DEF next
      <4> QED
        BY <2>1, <3>2 DEF JobRecord
    <3>4. ~Spent(j, new)
      <4> HIDE DEF new
      <4> QED
        BY <2>1, <3>3, NextRunAhead DEF JobRecord
    <3> QED
      BY <1>2, <3>1, <3>3, <3>4 DEF Held
  <2> QED
    BY <2>2, <2>3
<1> QED
  BY <1>1, <1>2

(* A gateway that is down, or that comes up with nothing spent.            *)
LEMMA ColdLasts ==
  ASSUME IInv, up = FALSE, now' = now, running' = running, moved' = moved,
         queue' = queue, fired' = fired, used' = used,
         up' \in BOOLEAN, dirty' \in BOOLEAN, armed' \in BOOLEAN, faults' \in Nat,
         live' \in [Jobs -> Held], disk' \in [Jobs -> Held],
         log' = log \/ log' = <<>>,
         \A j \in Jobs : (live'[j] # NoJob \/ disk'[j] # NoJob) => j \in used,
         up' = TRUE => \A j \in Jobs : ~Spent(j, live'[j]) /\ ~Spent(j, disk'[j])
  PROVE  IInv'
<1>1. ~Active /\ ~Active' /\ running["timer"] = Nobody
  BY DEF IInv, Alone, Active, Runners
<1>2. \A j \in Jobs : Adds(j)' => Adds(j)
  <2>1. CASE log' = log
    BY <2>1 DEF Adds
  <2>2. CASE log' = <<>>
    BY <2>2 DEF Adds
  <2> QED
    BY <2>1, <2>2
<1>3. \A j \in Jobs : \A job : Spent(j, job)' <=> Spent(j, job)
  BY DEF Spent
<1>4. Types'
  <2>1. log' \in Seq(Entry)
    BY EmptySeq DEF IInv, Types
  <2> QED
    BY <2>1 DEF IInv, Types
<1>5. Known'
  BY <1>2 DEF IInv, Known
<1>6. Alone'
  BY <1>1 DEF IInv, Alone
<1>7. Future'
  BY DEF IInv, Future
<1>8. Unmerged'
  BY <1>1, <1>2 DEF IInv, Unmerged
<1>9. LiveGood'
  BY <1>3 DEF LiveGood
<1>10. DiskGood'
  BY <1>3 DEF DiskGood
<1>11. OneShotOnce'
  BY DEF IInv, OneShotOnce
<1> QED
  BY <1>4, <1>5, <1>6, <1>7, <1>8, <1>9, <1>10, <1>11 DEF IInv

LEMMA StartKeeps ==
  ASSUME IInv, Start
  PROVE  IInv'
<1>1. /\ up = FALSE /\ now' = now /\ running' = running /\ moved' = moved
      /\ queue' = queue /\ fired' = fired /\ used' = used
  BY DEF Start, runVars, userVars, IInv, Types
<1> DEFINE m == Merge(disk, log)
           jobs(s) == [j \in Jobs |-> Resumed(j, s.live[j])]
<1>2. PICK s \in Reloaded(Store) :
        \/ ~s.ok /\ Assign([s EXCEPT !.dirty = FALSE]) /\ up' = up /\ armed' = armed
        \/ /\ s.ok
           /\ \E w \in Saved(s, jobs(s)) :
                \/ w.ok /\ Assign(w) /\ up' = TRUE /\ armed' = TRUE
                \/ ~w.ok /\ Assign([w EXCEPT !.dirty = FALSE]) /\ up' = up /\ armed' = armed
  BY DEF Start
<1>3. /\ Store \in Stores /\ Store.ok = TRUE /\ Store.disk = disk /\ Store.log = log
      /\ disk \in [Jobs -> Held] /\ log \in Seq(Entry) /\ armed \in BOOLEAN
  BY DEF IInv, Types, Stores, Store
<1>4. m \in [Jobs -> Held] /\ \A j \in Jobs : m[j] # NoJob => j \in used
  <2>1. \A j \in Jobs : m[j] = disk[j]
          \/ \E i \in DOMAIN log : log[i].job = j /\ log[i].copy = m[j]
    BY <1>3, MergeOrigin
  <2>2. \A j \in Jobs : m[j] # NoJob => disk[j] # NoJob \/ Adds(j)
    BY <2>1 DEF Adds
  <2> QED
    BY <1>3, <2>2, MergeOrigin DEF IInv, Known
<1> HIDE DEF m
<1>5. /\ s \in Stores /\ s.live = m
      /\ s.log = <<>> \/ s.log = log
      /\ s.disk = m \/ s.disk = disk
  <2>1. m = Merge(Store.disk, Store.log)
    BY <1>3 DEF m
  <2>2. /\ s \in Stores /\ s.live = m
        /\ s.log = <<>> \/ (s.log = Store.log /\ s.ok = FALSE)
        /\ s.disk = m \/ (s.disk = Store.disk /\ s.dirty = TRUE)
    BY <1>3, <2>1, ReloadedOne, ZenonT(90)
  <2> QED
    BY <1>3, <2>2
<1>6. \A j \in Jobs : (s.live[j] # NoJob \/ s.disk[j] # NoJob) => j \in used
  BY <1>4, <1>5 DEF IInv, Known
<1>7. s.live \in [Jobs -> Held] /\ s.disk \in [Jobs -> Held] /\ s.faults \in Nat /\ s.ok \in BOOLEAN
  BY <1>5 DEF Stores
<1>8. CASE Assign([s EXCEPT !.dirty = FALSE]) /\ up' = up /\ armed' = armed
  <2>1. /\ live' = s.live /\ disk' = s.disk /\ log' = s.log /\ dirty' = FALSE
        /\ faults' = s.faults
    BY <1>5, <1>8 DEF Assign, Stores
  <2> QED
    BY <1>1, <1>3, <1>5, <1>6, <1>7, <1>8, <2>1, ColdLasts
<1>9. ASSUME s.ok, NEW w \in Saved(s, jobs(s)),
             \/ w.ok /\ Assign(w) /\ up' = TRUE /\ armed' = TRUE
             \/ ~w.ok /\ Assign([w EXCEPT !.dirty = FALSE]) /\ up' = up /\ armed' = armed
      PROVE  IInv'
  <2> DEFINE new == jobs(s)
  <2>1. new \in [Jobs -> Held]
    BY <1>7, ResumedAhead
  <2>2. \A j \in Jobs : ~Spent(j, new[j]) /\ (new[j] # NoJob => s.live[j] # NoJob)
    BY <1>7, ResumedAhead
  <2> HIDE DEF new
  <2>3. w \in Saved(s, new) /\ s.ok = TRUE
    BY <1>7, <1>9 DEF new
  <2>4. /\ w \in Stores /\ w.live = new /\ w.log = s.log
        /\ \/ w.ok = TRUE /\ w.disk = new /\ w.dirty = FALSE
           \/ w.ok = FALSE /\ w.dirty = TRUE /\ (w.disk = new \/ w.disk = s.disk)
    BY <1>5, <2>1, <2>3, SavedOne
  <2>5. /\ w.live \in [Jobs -> Held] /\ w.disk \in [Jobs -> Held]
        /\ w.faults \in Nat /\ w.dirty \in BOOLEAN
    BY <2>4 DEF Stores
  <2>6. \A j \in Jobs : (w.live[j] # NoJob \/ w.disk[j] # NoJob) => j \in used
    BY <1>6, <2>2, <2>4
  <2>7. w.log = log \/ w.log = <<>>
    BY <1>5, <2>4
  <2>8. CASE w.ok /\ Assign(w) /\ up' = TRUE /\ armed' = TRUE
    <3>1. /\ live' = w.live /\ disk' = w.disk /\ log' = w.log /\ dirty' = w.dirty
          /\ faults' = w.faults
      BY <2>8 DEF Assign
    <3>2. \A j \in Jobs : ~Spent(j, live'[j]) /\ ~Spent(j, disk'[j])
      BY <2>2, <2>4, <2>8, <3>1
    <3>3. up' \in BOOLEAN /\ armed' \in BOOLEAN
      BY <2>8
    <3> QED
      BY <1>1, <2>5, <2>6, <2>7, <3>1, <3>2, <3>3, ColdLasts
  <2>9. CASE Assign([w EXCEPT !.dirty = FALSE]) /\ up' = up /\ armed' = armed
    <3>1. /\ live' = w.live /\ disk' = w.disk /\ log' = w.log /\ dirty' = FALSE
          /\ faults' = w.faults
      BY <2>4, <2>9 DEF Assign, Stores
    <3> QED
      BY <1>1, <1>3, <2>5, <2>6, <2>7, <2>9, <3>1, ColdLasts
  <2> QED
    BY <1>9, <2>8, <2>9
<1> QED
  BY <1>2, <1>8, <1>9

-----------------------------------------------------------------------------
(* Runs.                                                                   *)

LEMMA ManualStartKeeps ==
  ASSUME IInv, NEW j \in Jobs, ManualStarts(j)
  PROVE  IInv'
<1>1. /\ up = TRUE /\ up' = up /\ now' = now /\ fired' = fired /\ queue' = queue
      /\ used' = used /\ running["manual"] = Nobody
  BY DEF ManualStarts, IInv, Types
<1> DEFINE Outcome(s) ==
             /\ Assign(s)
             /\ \/ /\ s.ok /\ running' = [running EXCEPT !["manual"] = j]
                   /\ moved' = moved \ {"manual"} /\ armed' = armed
                \/ /\ armed' = (armed \/ running["timer"] = Nobody)
                   /\ running' = running /\ moved' = moved
<1>0. PICK d \in (IF dirty THEN Saved(Store, live) ELSE {Store}) :
        \E s \in (IF d.ok THEN Loaded(d) ELSE {d}) : Outcome(s)
  BY DEF ManualStarts
<1>2. PICK s \in (IF d.ok THEN Loaded(d) ELSE {d}) : Outcome(s)
  BY <1>0
<1>3. Sound(d, used) /\ d.ok \in BOOLEAN /\ (d.ok = TRUE => d.dirty = FALSE)
  <2>1. Sound(Store, used) /\ Store.ok = TRUE /\ Store \in Stores /\ Store.dirty = dirty
    BY <1>1, StoreSound DEF Sound, Store
  <2>2. CASE dirty
    <3>1. d \in Saved(Store, live)
      BY <1>0, <2>2
    <3>2. Harmless(live, used)
      BY <1>1 DEF IInv, Harmless, Types, LiveGood, Known, Unmerged
    <3>3. Sound(d, used)
      BY <2>1, <3>1, <3>2, SavedSound
    <3>4. d.ok = FALSE \/ (d.ok = TRUE /\ d.dirty = FALSE)
      BY <2>1, <3>1, <3>2, SavedOne, ZenonT(90) DEF Harmless
    <3> QED
      BY <3>3, <3>4
  <2>3. CASE ~dirty
    <3>1. d = Store /\ dirty = FALSE
      BY <1>0, <2>3 DEF IInv, Types
    <3> QED
      BY <2>1, <3>1
  <2> QED
    BY <2>2, <2>3
<1>4. /\ Sound(s, used) /\ s.ok \in BOOLEAN
      /\ s.ok = TRUE => (Active \/ s.log = <<>>)
  <2>1. CASE d.ok = TRUE
    <3>1. s \in Loaded(d)
      BY <1>2, <2>1
    <3>2. Sound(s, used) /\ ((~Active /\ d.dirty = FALSE /\ s.ok = TRUE) => s.log = <<>>)
      BY <1>3, <2>1, <3>1, LoadedSound
    <3> QED
      BY <1>3, <2>1, <3>2 DEF Sound, Stores
  <2>2. CASE d.ok = FALSE
    <3>1. s = d
      BY <1>2, <2>2
    <3> QED
      BY <1>3, <2>2, <3>1
  <2> QED
    BY <1>3, <2>1, <2>2
<1>5. /\ live' = s.live /\ disk' = s.disk /\ log' = s.log /\ dirty' = s.dirty
      /\ faults' = s.faults
  BY <1>2 DEF Assign
<1>6. /\ s.live \in [Jobs -> Held] /\ s.disk \in [Jobs -> Held]
      /\ s.dirty \in BOOLEAN /\ s.faults \in Nat
      /\ s.log = log \/ s.log = <<>>
  BY <1>4 DEF Sound, Stores
<1>7. /\ running \in [Runners -> Jobs \cup {Nobody}] /\ moved \subseteq Runners
      /\ queue \subseteq Jobs /\ used \subseteq Jobs /\ armed \in BOOLEAN
      /\ armed = TRUE => running["timer"] = Nobody
      /\ running["timer"] \notin queue
  BY DEF IInv, Types, Alone
<1>8. CASE /\ s.ok /\ running' = [running EXCEPT !["manual"] = j]
           /\ moved' = moved \ {"manual"} /\ armed' = armed
  <2>1. /\ running' \in [Runners -> Jobs \cup {Nobody}]
        /\ running'["timer"] = running["timer"] /\ running'["manual"] = j
    BY <1>7, <1>8 DEF Runners
  <2>2. Active'
    BY <2>1, NobodyAssumption DEF Active, Runners
  <2>3. \A k \in Jobs : InRun(k)' <=> InRun(k)
    BY <1>8, <2>1 DEF InRun
  <2>4. \A k \in Jobs : Adds(k) => (log' = <<>> \/ live'[k] = NoJob)
    <3>1. CASE Active
      BY <1>4, <1>5, <3>1 DEF Sound
    <3>2. CASE s.log = <<>>
      BY <1>5, <3>2
    <3>3. s.ok = TRUE
      BY <1>4, <1>8
    <3> QED
      BY <1>4, <3>1, <3>2, <3>3
  <2>5. \A k \in Jobs : Spent(k, live'[k]) => InRun(k)'
    BY <1>4, <1>5, <2>3 DEF Sound
  <2>6. \A k \in Jobs : (live'[k] # NoJob \/ disk'[k] # NoJob) => k \in used'
    BY <1>1, <1>4, <1>5 DEF Sound
  <2>7. moved' \subseteq Runners /\ armed' \in BOOLEAN /\ used \subseteq used'
    BY <1>1, <1>7, <1>8
  <2>8. armed' = TRUE => running'["timer"] = Nobody
    BY <1>7, <1>8, <2>1
  <2>9. (dirty' = FALSE /\ ~Active') => \A k \in Jobs : ~Spent(k, disk'[k])
    BY <2>2
  <2>10. Active' => \A k \in Jobs : Adds(k) => (log' = <<>> \/ live'[k] = NoJob)
    BY <2>4
  <2>11. running'["timer"] \notin queue' /\ queue' \subseteq Jobs /\ used' \subseteq Jobs
    BY <1>1, <1>7, <2>1
  <2>12. /\ live' \in [Jobs -> Held] /\ disk' \in [Jobs -> Held]
         /\ dirty' \in BOOLEAN /\ faults' \in Nat
         /\ log' = log \/ log' = <<>>
    BY <1>5, <1>6
  <2> QED
    BY <1>1, <2>1, <2>5, <2>6, <2>7, <2>8, <2>9, <2>10, <2>11, <2>12, Lasts
<1>9. CASE /\ armed' = (armed \/ running["timer"] = Nobody)
           /\ running' = running /\ moved' = moved
  <2>1. armed' \in BOOLEAN /\ (armed' = TRUE => running["timer"] = Nobody)
    BY <1>7, <1>9
  <2>2. \A k \in Jobs : (Spent(k, s.live[k]) /\ InRun(k)) => "timer" \notin moved'
    BY <1>9 DEF InRun
  <2>3. Sound(s, used') /\ used \subseteq used' /\ used' \subseteq Jobs
    BY <1>1, <1>4, <1>7
  <2> QED
    BY <1>1, <1>2, <1>7, <1>9, <2>1, <2>2, <2>3, SoundLasts
<1> QED
  BY <1>2, <1>8, <1>9

(* A completed run leaves no one-shot job as it found it, unless the job   *)
(* has got another schedule.                                               *)
LEMMA CompletedJobs ==
  ASSUME IInv, NEW r \in Runners, running[r] # Nobody
  PROVE  /\ Completed(live, r) \in [Jobs -> Held]
         /\ \A j \in Jobs : j # running[r] => Completed(live, r)[j] = live[j]
         /\ \A j \in Jobs : Completed(live, r)[j] # NoJob => live[j] # NoJob
         /\ \A j \in Jobs : Spent(j, Completed(live, r)[j]) =>
              Spent(j, live[j]) /\ (j # running[r] \/ r \in moved)
<1> DEFINE j == running[r]
           job == live[j]
           new == Completed(live, r)
           after == AfterRun(j, job)
<1>1. /\ j \in Jobs /\ live \in [Jobs -> Held] /\ job \in Held
      /\ now \in Nat /\ KindOf[j] \in {"once", "delete", "every"}
  BY BoundAssumption, KindAssumption DEF IInv, Types
<1>2. CASE job = NoJob \/ r \in moved
  <2>1. new = live
    BY <1>2 DEF Completed
  <2>2. ~Spent(j, NoJob)
    BY DEF Spent
  <2> QED
    BY <1>1, <1>2, <2>1, <2>2
<1>3. CASE ~(job = NoJob \/ r \in moved)
  <2>1. job \in JobRecord
    BY <1>1, <1>3 DEF Held
  <2>2. after \in Held /\ ~Spent(j, after)
    <3>1. CASE KindOf[j] = "once"
      <4>1. after = [job EXCEPT !.enabled = FALSE, !.next = NoTime]
        BY <3>1 DEF AfterRun
      <4> HIDE DEF after, job
      <4>2. after \in JobRecord
        BY <2>1, <4>1 DEF JobRecord, NoTime
      <4>3. after.enabled = FALSE
        BY <2>1, <4>1 DEF JobRecord
      <4> QED
        BY <4>2, <4>3 DEF Held, Spent
    <3>2. CASE KindOf[j] = "delete"
      <4>1. after = NoJob
        BY <3>2 DEF AfterRun
      <4> QED
        BY <4>1 DEF Held, Spent
    <3>3. CASE KindOf[j] = "every"
      <4>1. after = [job EXCEPT !.next = now + 1]
        BY <3>3 DEF AfterRun
      <4>2. now + 1 \in Nat
        BY <1>1
      <4> HIDE DEF after, job
      <4>3. after \in JobRecord
        BY <2>1, <4>1, <4>2 DEF JobRecord
      <4>4. ~Spent(j, after)
        BY <3>3 DEF Spent, OneShot
      <4> QED
        BY <4>3, <4>4 DEF Held
    <3> QED
      BY <1>1, <3>1, <3>2, <3>3
  <2>3. new = [live EXCEPT ![j] = after]
    BY <1>1, <1>3 DEF Completed
  <2> HIDE DEF new, after
  <2>4. /\ new \in [Jobs -> Held] /\ new[j] = after
        /\ \A k \in Jobs : k # j => new[k] = live[k]
    BY <1>1, <2>2, <2>3
  <2> QED
    BY <1>1, <1>3, <2>2, <2>4 DEF new
<1> QED
  BY <1>2, <1>3

(* The timer looks at jobs none of which is spent.                         *)
LEMMA GoesOnKeeps ==
  ASSUME IInv, up = TRUE, up' = up, now' = now, used' = used,
         NEW s \in Stores, s.ok = TRUE, s.log = log \/ s.log = <<>>,
         NEW candidates \in SUBSET Jobs,
         \A j \in Jobs : ~Spent(j, s.live[j]),
         \A j \in Jobs : (s.live[j] # NoJob \/ s.disk[j] # NoJob) => j \in used,
         \A j \in Jobs : s.live[j] # NoJob => s.log = <<>> \/ ~Adds(j),
         TimerGoesOn(s, candidates)
  PROVE  IInv'
<1> DEFINE dueNow == {j \in candidates : Due(s.live[j])}
<1>1. /\ s.live \in [Jobs -> Held] /\ s.disk \in [Jobs -> Held]
      /\ s.dirty \in BOOLEAN /\ s.faults \in Nat
  BY DEF Stores
<1>2. /\ running \in [Runners -> Jobs \cup {Nobody}] /\ moved \subseteq Runners
      /\ used \subseteq Jobs /\ now \in 0 .. MaxTime
      /\ fired \in [Jobs -> [0 .. MaxTime -> Nat]]
  BY DEF IInv, Types
<1>3. CASE dueNow # {}
  <2>1. PICK j \in dueNow :
          /\ running' = [running EXCEPT !["timer"] = j]
          /\ queue' = dueNow \ {j}
          /\ fired' = [fired EXCEPT ![j][s.live[j].next] = @ + 1]
    BY <1>3 DEF TimerGoesOn
  <2>2. /\ moved' = moved \ {"timer"} /\ armed' = FALSE
        /\ live' = s.live /\ disk' = s.disk /\ log' = s.log /\ dirty' = s.dirty
        /\ faults' = s.faults
    BY <1>3 DEF TimerGoesOn, Assign
  <2> DEFINE t == s.live[j].next
  <2>3. /\ j \in Jobs /\ s.live[j] # NoJob /\ s.live[j].enabled /\ t \in 1 .. now
        /\ queue' \subseteq Jobs /\ j \notin queue'
    BY <2>1 DEF Due
  <2>4. t \in Times /\ t \in 0 .. MaxTime /\ ~(t > now)
    BY <1>2, <2>3, BoundAssumption DEF Times
  <2>5. OneShot(j) => fired[j][t] = 0
    BY <2>3, <2>4 DEF Spent
  <2> HIDE DEF dueNow, t
  <2>6. /\ fired' \in [Jobs -> [0 .. MaxTime -> Nat]]
        /\ fired'[j][t] = fired[j][t] + 1
        /\ \A u \in 0 .. MaxTime : u # t => fired'[j][u] = fired[j][u]
        /\ \A k \in Jobs : k # j => fired'[k] = fired[k]
    <3> DEFINE counts == [fired[j] EXCEPT ![t] = @ + 1]
    <3>1. fired' = [fired EXCEPT ![j] = counts]
      BY <1>2, <2>1, <2>3 DEF t
    <3>2. /\ counts \in [0 .. MaxTime -> Nat] /\ counts[t] = fired[j][t] + 1
          /\ \A u \in 0 .. MaxTime : u # t => counts[u] = fired[j][u]
      <4> DEFINE old == fired[j]
      <4>1. old \in [0 .. MaxTime -> Nat]
        BY <1>2, <2>3
      <4> HIDE DEF old
      <4>0. old[t] \in Nat
        BY ONLY <2>4, <4>1
      <4>2. old[t] + 1 \in Nat
        BY ONLY <4>0
      <4>3. counts = [old EXCEPT ![t] = old[t] + 1]
        BY DEF old
      <4>4. /\ counts \in [0 .. MaxTime -> Nat] /\ counts[t] = old[t] + 1
            /\ \A u \in 0 .. MaxTime : u # t => counts[u] = old[u]
        <5> HIDE DEF counts
        <5> QED
          BY <2>4, <4>1, <4>2, <4>3
      <4> QED
        BY <4>4 DEF old
    <3> HIDE DEF counts
    <3> QED
      BY <1>2, <2>3, <3>1, <3>2
  <2>7. Times \subseteq 0 .. MaxTime
    BY BoundAssumption DEF Times
  <2>8. /\ running' \in [Runners -> Jobs \cup {Nobody}] /\ running'["timer"] = j
    BY <1>2, <2>1, <2>3 DEF Runners
  <2>9. Active'
    BY <2>3, <2>8, NobodyAssumption DEF Active, Runners
  <2>10. \A k \in Jobs : Adds(k)' => Adds(k) /\ s.live[k] = NoJob /\ k # j
    <3>1. \A k \in Jobs : Adds(k)' => Adds(k) /\ s.log # <<>>
      <4>1. CASE s.log = log
        BY <2>2, <4>1 DEF Adds
      <4>2. CASE s.log = <<>>
        BY <2>2, <4>2 DEF Adds
      <4> QED
        BY <4>1, <4>2
    <3> QED
      BY <2>3, <3>1
  <2>11. Types'
    <3>1. log' \in Seq(Entry)
      BY <2>2, EmptySeq DEF IInv, Types
    <3>2. moved' \subseteq Runners /\ armed' \in BOOLEAN
      BY <1>2, <2>2
    <3> QED
      BY <1>1, <1>2, <2>2, <2>3, <2>6, <2>8, <3>1, <3>2 DEF IInv, Types
  <2>12. Known'
    <3>1. j \in used
      BY <2>3
    <3>2. \A k \in Jobs : \A u \in Times : fired'[k][u] # 0 => k \in used
      BY <2>6, <2>7, <3>1 DEF IInv, Known
    <3>3. \A k \in Jobs : Adds(k)' => k \in used
      BY <2>10 DEF IInv, Known
    <3> QED
      BY <2>2, <3>2, <3>3 DEF Known
  <2>13. Alone'
    BY <2>2, <2>3, <2>8 DEF Alone
  <2>14. Future'
    BY <2>4, <2>6, <2>7 DEF IInv, Future
  <2>15. Unmerged'
    <3> SUFFICES ASSUME NEW k \in Jobs, Adds(k)'
                 PROVE  /\ \A u \in Times : fired'[k][u] = 0
                        /\ live'[k] = NoJob
      BY DEF Unmerged
    <3>1. Adds(k) /\ s.live[k] = NoJob /\ k # j
      BY <2>10
    <3> QED
      BY <2>2, <2>6, <3>1 DEF IInv, Unmerged
  <2>16. LiveGood'
    <3>1. InRun(j)'
      BY <2>2, <2>8 DEF InRun
    <3>2. ASSUME NEW k \in Jobs, k # j
          PROVE  ~Spent(k, live[k])'
      BY <2>2, <2>6, <3>2 DEF Spent
    <3> QED
      BY <3>1, <3>2 DEF LiveGood
  <2>17. DiskGood'
    BY <2>9 DEF DiskGood
  <2>18. OneShotOnce'
    <3> SUFFICES ASSUME NEW k \in Jobs, OneShot(k), NEW u \in Times
                 PROVE  fired'[k][u] <= 1
      BY DEF OneShotOnce
    <3>1. CASE k = j /\ u = t
      BY <2>5, <2>6, <3>1
    <3>2. CASE ~(k = j /\ u = t)
      BY <2>6, <2>7, <3>2 DEF IInv, OneShotOnce
    <3> QED
      BY <3>1, <3>2
  <2> QED
    BY <2>11, <2>12, <2>13, <2>14, <2>15, <2>16, <2>17, <2>18 DEF IInv
<1>4. CASE dueNow = {}
  <2>1. PICK w \in Saved(s, s.live) : Assign(w)
    BY <1>4 DEF TimerGoesOn
  <2>2. /\ running' = [running EXCEPT !["timer"] = Nobody]
        /\ moved' = moved \ {"timer"} /\ queue' = {}
        /\ armed' = (running["manual"] = Nobody) /\ fired' = fired
    BY <1>4 DEF TimerGoesOn
  <2>3. /\ w \in Stores /\ w.live = s.live /\ w.log = s.log
        /\ \/ w.ok = TRUE /\ w.disk = s.live /\ w.dirty = FALSE
           \/ w.ok = FALSE /\ w.dirty = TRUE /\ (w.disk = s.live \/ w.disk = s.disk)
    BY <1>1, <2>1, SavedOne
  <2>4. /\ live' = w.live /\ disk' = w.disk /\ log' = w.log /\ dirty' = w.dirty
        /\ faults' = w.faults
    BY <2>1 DEF Assign
  <2>5. /\ live' \in [Jobs -> Held] /\ disk' \in [Jobs -> Held]
        /\ dirty' \in BOOLEAN /\ faults' \in Nat
    BY <2>3, <2>4 DEF Stores
  <2>6. /\ running' \in [Runners -> Jobs \cup {Nobody}] /\ running'["timer"] = Nobody
    BY <1>2, <2>2 DEF Runners
  <2>7. log' = log \/ log' = <<>>
    BY <2>3, <2>4
  <2>8. \A j \in Jobs : (live'[j] # NoJob \/ disk'[j] # NoJob) => j \in used'
    BY <2>3, <2>4
  <2>9. Active' => \A j \in Jobs : Adds(j) => (log' = <<>> \/ live'[j] = NoJob)
    BY <2>3, <2>4
  <2>10. \A j \in Jobs : ~Spent(j, live'[j])
    BY <2>3, <2>4
  <2>11. (dirty' = FALSE /\ ~Active') => \A j \in Jobs : ~Spent(j, disk'[j])
    BY <2>3, <2>4
  <2>12. /\ armed' \in BOOLEAN /\ moved' \subseteq Runners /\ queue' \subseteq Jobs
         /\ used \subseteq used' /\ used' \subseteq Jobs
         /\ running'["timer"] \notin queue' /\ up' = TRUE
    BY <1>2, <2>2
  <2> QED
    BY <2>2, <2>5, <2>6, <2>7, <2>8, <2>9, <2>10, <2>11, <2>12, Lasts
<1> QED
  BY <1>3, <1>4

LEMMA RunEndsKeeps ==
  ASSUME IInv, TimerRunEnds
  PROVE  IInv'
<1> DEFINE new == Completed(live, "timer")
           s == [Store EXCEPT !.live = new]
<1>1. /\ running["timer"] # Nobody /\ up' = up /\ now' = now /\ used' = used
      /\ TimerGoesOn(s, queue)
  BY DEF TimerRunEnds
<1>2. Active /\ up = TRUE
  BY <1>1 DEF Active, Runners, IInv, Alone, Types
<1>3. "timer" \in Runners
  BY DEF Runners
<1>4. /\ new \in [Jobs -> Held]
      /\ \A j \in Jobs : new[j] # NoJob => live[j] # NoJob
      /\ \A j \in Jobs : Spent(j, new[j]) =>
           Spent(j, live[j]) /\ (j # running["timer"] \/ "timer" \in moved)
  BY <1>1, <1>3, CompletedJobs
<1> HIDE DEF new
<1>5. \A j \in Jobs : ~Spent(j, new[j])
  BY <1>2, <1>4 DEF IInv, LiveGood, InRun
<1>6. /\ s \in Stores /\ s.live = new /\ s.disk = disk /\ s.log = log /\ s.ok = TRUE
  <2>1. /\ Store \in Stores /\ Store.disk = disk /\ Store.log = log /\ Store.ok = TRUE
    BY DEF IInv, Types, Stores, Store
  <2>2. s \in Stores
    BY <1>4, <2>1 DEF Stores
  <2>3. s.live = new /\ s.disk = Store.disk /\ s.log = Store.log /\ s.ok = Store.ok
    BY <2>1 DEF Stores
  <2> QED
    BY <2>1, <2>2, <2>3
<1> HIDE DEF s
<1>7. \A j \in Jobs : (s.live[j] # NoJob \/ s.disk[j] # NoJob) => j \in used
  BY <1>4, <1>6 DEF IInv, Known
<1>8. \A j \in Jobs : s.live[j] # NoJob => s.log = <<>> \/ ~Adds(j)
  BY <1>2, <1>4, <1>6 DEF IInv, Unmerged
<1>9. queue \in SUBSET Jobs
  BY DEF IInv, Types
<1> QED
  BY <1>1, <1>2, <1>5, <1>6, <1>7, <1>8, <1>9, GoesOnKeeps

LEMMA TimerKeeps ==
  ASSUME IInv, TimerFires
  PROVE  IInv'
<1>1. /\ up = TRUE /\ armed = TRUE /\ up' = up /\ now' = now /\ used' = used
      /\ dirty \in BOOLEAN
  BY DEF TimerFires, userVars, IInv, Types
<1>2. running["timer"] = Nobody
  BY <1>1 DEF IInv, Alone
<1>3. \A j \in Jobs : ~InRun(j)
  BY <1>2, NobodyAssumption DEF InRun
<1>4. Sound(Store, used) /\ Store.ok = TRUE /\ Store \in Stores
  BY <1>1, StoreSound DEF Sound
<1>5. used \subseteq Jobs /\ moved \subseteq Runners
  BY DEF IInv, Types
<1>6. ASSUME NEW s, Sound(s, used), Assign(s), armed' = (running["manual"] = Nobody),
             running' = running, moved' = moved, queue' = queue, fired' = fired
      PROVE  IInv'
  <2>1. armed' \in BOOLEAN /\ (armed' = TRUE => running["timer"] = Nobody)
    BY <1>2, <1>6
  <2>2. \A j \in Jobs : (Spent(j, s.live[j]) /\ InRun(j)) => "timer" \notin moved'
    BY <1>3
  <2>3. Sound(s, used') /\ used \subseteq used' /\ used' \subseteq Jobs /\ moved' \subseteq Runners
    BY <1>1, <1>5, <1>6
  <2> QED
    BY <1>1, <1>6, <2>1, <2>2, <2>3, SoundLasts
<1>7. CASE dirty
  <2>1. PICK w \in Saved(Store, live) : Assign(w)
    BY <1>7 DEF TimerFires
  <2>2. /\ armed' = (running["manual"] = Nobody)
        /\ running' = running /\ moved' = moved /\ queue' = queue /\ fired' = fired
    BY <1>7 DEF TimerFires, runVars
  <2>3. Harmless(live, used)
    BY <1>1 DEF IInv, Harmless, Types, LiveGood, Known, Unmerged
  <2>4. Sound(w, used)
    BY <1>4, <2>1, <2>3, SavedSound
  <2> QED
    BY <1>6, <2>1, <2>2, <2>4
<1>8. CASE ~dirty
  <2>1. PICK s \in Loaded(Store) :
          \/ s.ok /\ TimerGoesOn(s, Jobs)
          \/ /\ ~s.ok /\ Assign(s) /\ armed' = (running["manual"] = Nobody)
             /\ running' = running /\ moved' = moved /\ queue' = queue /\ fired' = fired
    BY <1>8 DEF TimerFires, runVars
  <2>2. /\ Sound(s, used) /\ (Active => s = Store)
        /\ (~Active /\ Store.dirty = FALSE /\ s.ok = TRUE) => s.log = <<>>
    BY <1>4, LoadedSound
  <2>3. s \in Stores /\ s.ok \in BOOLEAN
    BY <2>2 DEF Sound, Stores
  <2>4. CASE s.ok /\ TimerGoesOn(s, Jobs)
    <3>1. s.ok = TRUE /\ (s.log = log \/ s.log = <<>>)
      BY <2>2, <2>3, <2>4 DEF Sound
    <3>2. \A j \in Jobs : ~Spent(j, s.live[j])
      BY <1>3, <2>2 DEF Sound
    <3>3. \A j \in Jobs : (s.live[j] # NoJob \/ s.disk[j] # NoJob) => j \in used
      BY <2>2 DEF Sound
    <3>4. \A j \in Jobs : s.live[j] # NoJob => s.log = <<>> \/ ~Adds(j)
      <4>1. CASE Active
        BY <2>2, <4>1 DEF Sound
      <4>2. CASE ~Active
        <5>1. Store.dirty = FALSE
          BY <1>1, <1>8 DEF Store
        <5> QED
          BY <2>2, <3>1, <4>2, <5>1
      <4> QED
        BY <4>1, <4>2
    <3>5. Jobs \in SUBSET Jobs /\ TimerGoesOn(s, Jobs)
      BY <2>4
    <3> QED
      BY <1>1, <2>3, <3>1, <3>2, <3>3, <3>4, <3>5, GoesOnKeeps
  <2>5. CASE /\ ~s.ok /\ Assign(s) /\ armed' = (running["manual"] = Nobody)
             /\ running' = running /\ moved' = moved /\ queue' = queue /\ fired' = fired
    BY <1>6, <2>2, <2>5
  <2> QED
    BY <2>1, <2>4, <2>5
<1> QED
  BY <1>7, <1>8

LEMMA ManualEndKeeps ==
  ASSUME IInv, ManualEnds
  PROVE  IInv'
<1> DEFINE new == Completed(live, "manual")
<1>1. /\ running["manual"] # Nobody /\ up' = up /\ now' = now /\ used' = used
      /\ queue' = queue /\ fired' = fired
      /\ running' = [running EXCEPT !["manual"] = Nobody]
      /\ moved' = moved \ {"manual"}
      /\ armed' = (armed \/ running["timer"] = Nobody)
  BY DEF ManualEnds
<1>2. PICK w \in Saved(Store, new) : Assign(w)
  BY DEF ManualEnds
<1>3. Active /\ up = TRUE /\ "manual" \in Runners
  BY <1>1 DEF Active, Runners, IInv, Alone, Types
<1>4. /\ new \in [Jobs -> Held]
      /\ \A j \in Jobs : new[j] # NoJob => live[j] # NoJob
      /\ \A j \in Jobs : Spent(j, new[j]) => Spent(j, live[j])
  BY <1>1, <1>3, CompletedJobs
<1> HIDE DEF new
<1>5. /\ Store \in Stores /\ Store.ok = TRUE /\ Store.disk = disk /\ Store.log = log
  BY DEF IInv, Types, Stores, Store
<1>6. /\ w \in Stores /\ w.live = new /\ w.log = Store.log
      /\ \/ w.ok = TRUE /\ w.disk = new /\ w.dirty = FALSE
         \/ w.ok = FALSE /\ w.dirty = TRUE /\ (w.disk = new \/ w.disk = Store.disk)
  BY <1>2, <1>4, <1>5, SavedOne
<1>7. /\ live' = new /\ disk' = w.disk /\ log' = log /\ dirty' = w.dirty
      /\ faults' = w.faults
  BY <1>2, <1>5, <1>6 DEF Assign
<1>8. /\ live' \in [Jobs -> Held] /\ disk' \in [Jobs -> Held]
      /\ dirty' \in BOOLEAN /\ faults' \in Nat
  BY <1>4, <1>6, <1>7 DEF Stores
<1>9. /\ running \in [Runners -> Jobs \cup {Nobody}] /\ moved \subseteq Runners
      /\ queue \subseteq Jobs /\ used \subseteq Jobs /\ armed \in BOOLEAN
      /\ armed = TRUE => running["timer"] = Nobody
      /\ running["timer"] \notin queue
  BY DEF IInv, Types, Alone
<1>10. /\ running' \in [Runners -> Jobs \cup {Nobody}]
       /\ running'["timer"] = running["timer"] /\ running'["manual"] = Nobody
  BY <1>1, <1>9 DEF Runners
<1>11. \A j \in Jobs : InRun(j)' <=> InRun(j)
  BY <1>1, <1>10 DEF InRun
<1>12. \A j \in Jobs : Spent(j, live'[j]) => InRun(j)'
  BY <1>3, <1>4, <1>7, <1>11 DEF IInv, LiveGood
<1>13. (dirty' = FALSE /\ ~Active') => \A j \in Jobs : ~Spent(j, disk'[j])
  <2> SUFFICES ASSUME dirty' = FALSE, ~Active', NEW j \in Jobs, Spent(j, disk'[j])
               PROVE  FALSE
    OBVIOUS
  <2>1. disk' = new
    BY <1>6, <1>7
  <2>2. running["timer"] = j
    BY <1>7, <1>11, <1>12, <2>1 DEF InRun
  <2>3. running'["timer"] = Nobody
    BY DEF Active, Runners
  <2> QED
    BY <1>10, <2>2, <2>3, NobodyAssumption
<1>14. \A j \in Jobs : (live'[j] # NoJob \/ disk'[j] # NoJob) => j \in used'
  BY <1>1, <1>4, <1>5, <1>6, <1>7 DEF IInv, Known
<1>15. Active' => \A j \in Jobs : Adds(j) => (log' = <<>> \/ live'[j] = NoJob)
  BY <1>3, <1>4, <1>7 DEF IInv, Unmerged
<1>16. /\ armed' \in BOOLEAN /\ moved' \subseteq Runners /\ queue' \subseteq Jobs
       /\ used \subseteq used' /\ used' \subseteq Jobs
       /\ running'["timer"] \notin queue' /\ up' = TRUE
       /\ armed' = TRUE => running'["timer"] = Nobody
  BY <1>1, <1>3, <1>9, <1>10
<1> QED
  BY <1>1, <1>7, <1>8, <1>10, <1>12, <1>13, <1>14, <1>15, <1>16, Lasts

-----------------------------------------------------------------------------
(* The theorems.                                                           *)

LEMMA InitInv ==
  ASSUME Init
  PROVE  IInv
<1>1. Types
  <2>1. log \in Seq(Entry)
    BY EmptySeq DEF Init
  <2>2. now \in 0 .. MaxTime
    BY BoundAssumption DEF Init
  <2> QED
    BY <2>1, <2>2 DEF Init, Types, Held
<1>2. \A j \in Jobs : \A t \in Times : fired[j][t] = 0
  BY BoundAssumption DEF Init, Times
<1>3. ~Active
  BY DEF Init, Active
<1>4. Known
  <2>1. \A j \in Jobs : ~Adds(j)
    BY DEF Init, Adds
  <2>2. \A j \in Jobs : live[j] = NoJob /\ disk[j] = NoJob
    BY DEF Init
  <2> QED
    BY <1>2, <2>1, <2>2 DEF Known
<1>5. Alone
  BY <1>3 DEF Init, Alone
<1>6. Future /\ OneShotOnce
  BY <1>2 DEF Future, OneShotOnce
<1>7. Unmerged
  BY <1>2, <1>3 DEF Unmerged
<1>8. LiveGood /\ DiskGood
  BY DEF Init, LiveGood, DiskGood
<1> QED
  BY <1>1, <1>4, <1>5, <1>6, <1>7, <1>8 DEF IInv

LEMMA StutterKeeps ==
  ASSUME IInv, UNCHANGED vars
  PROVE  IInv'
<1>1. /\ now' = now /\ up' = up /\ live' = live /\ disk' = disk /\ log' = log
      /\ dirty' = dirty /\ faults' = faults /\ armed' = armed /\ running' = running
      /\ moved' = moved /\ queue' = queue /\ used' = used /\ fired' = fired
  BY DEF vars, storeVars, runVars, userVars
<1>2. \A j \in Jobs : Adds(j)' <=> Adds(j)
  BY <1>1 DEF Adds
<1>3. \A j \in Jobs : \A job : Spent(j, job)' <=> Spent(j, job)
  BY <1>1 DEF Spent
<1>4. Active' <=> Active
  BY <1>1 DEF Active
<1>5. Types' /\ Future' /\ OneShotOnce'
  BY <1>1 DEF IInv, Types, Future, OneShotOnce
<1>6. Known'
  BY <1>1, <1>2 DEF IInv, Known
<1>7. Alone'
  BY <1>1, <1>4 DEF IInv, Alone
<1>8. Unmerged'
  BY <1>1, <1>2, <1>4 DEF IInv, Unmerged
<1>9. LiveGood' /\ DiskGood'
  BY <1>1, <1>3, <1>4 DEF IInv, LiveGood, DiskGood, InRun
<1> QED
  BY <1>5, <1>6, <1>7, <1>8, <1>9 DEF IInv

LEMMA NextKeeps ==
  ASSUME IInv, [Next]_vars
  PROVE  IInv'
<1>1. CASE Start \/ Crash \/ Tick \/ ListJobs
  BY <1>1, StartKeeps, CrashKeeps, TickKeeps, ListKeeps
<1>2. CASE Runs
  BY <1>2, TimerKeeps, RunEndsKeeps, ManualEndKeeps DEF Runs
<1>3. ASSUME NEW j \in Jobs,
             ManualStarts(j) \/ RemoveJob(j) \/ ChangeBinding(j) \/ CliRemove(j)
      PROVE  IInv'
  BY <1>3, ManualStartKeeps, RemoveKeeps, ChangeBindingKeeps, CliRemoveKeeps
<1>4. ASSUME NEW j \in Jobs, NEW enabled \in BOOLEAN, EnableJob(j, enabled)
      PROVE  IInv'
  BY <1>4, EnableKeeps
<1>5. ASSUME NEW j \in Jobs, NEW at \in Times,
             UpdateJob(j, at) \/ AddJob(j, at) \/ CliAdd(j, at)
      PROVE  IInv'
  BY <1>5, UpdateKeeps, AddKeeps, CliAddKeeps
<1>6. CASE UNCHANGED vars
  BY <1>6, StutterKeeps
<1> QED
  BY <1>1, <1>2, <1>3, <1>4, <1>5, <1>6 DEF Next

(* The invariant holds of every behaviour, whatever fails.                 *)
THEOREM Invariance == Spec => []IInv
<1>1. Init => IInv
  BY InitInv
<1>2. IInv /\ [Next]_vars => IInv'
  BY NextKeeps
<1> QED
  BY <1>1, <1>2, PTL DEF Spec

(* Every variable that the scheduler keeps has its type: a job in memory,  *)
(* in the file or in the log is a whole record.                            *)
THEOREM TypeCorrect == Spec => []Types
<1>1. IInv => Types
  BY DEF IInv
<1> QED
  BY <1>1, Invariance, PTL

(* The timer starts a one-shot job at most once for each time that it was  *)
(* scheduled for: not again after a failed save, a replayed log, a restart *)
(* or an edit that overlaps its run (_load_store, _run_timer and           *)
(* _execute_job of cron/service.py).                                       *)
THEOREM StartedOnce == Spec => []OneShotOnce
<1>1. IInv => OneShotOnce
  BY DEF IInv
<1> QED
  BY <1>1, Invariance, PTL

-----------------------------------------------------------------------------
(* An answered edit.                                                       *)

Names(j, actions) == \E i \in DOMAIN actions : actions[i].job = j
Last(j, actions, i) ==
  /\ i \in DOMAIN actions /\ actions[i].job = j
  /\ \A k \in DOMAIN actions : k > i => actions[k].job # j

(* A job is what the accepted edits amount to.                             *)
Fits(answer, job) ==
  /\ answer.what = "gone" => job = NoJob
  /\ answer.what = "kept" =>
       /\ job # NoJob /\ job.at = answer.job.at
       /\ job.enabled = answer.job.enabled /\ job.binding = answer.job.binding

OnTime(j, job) ==
  (OneShot(j) /\ job # NoJob /\ job.enabled /\ job.at > now) => job.next = job.at

(* A job that the log adds has not got another chat yet, in the log or     *)
(* where it was merged already.                                            *)
Unbound(job) == job # NoJob => job.binding = 0
Mergeable(store, actions) ==
  \A i \in DOMAIN actions : actions[i].copy # NoJob =>
    Unbound(actions[i].copy) /\ Unbound(store[actions[i].job])

(* The last word on a job is the log's, or else memory and the file agree  *)
(* with what was answered.                                                 *)
Heard(actions, answers) ==
  \A j \in Jobs : \A i \in DOMAIN actions :
    Last(j, actions, i) => Fits(answers[j], actions[i].copy)
Agrees(jobs, actions, answers) ==
  \A j \in Jobs : ~Names(j, actions) => Fits(answers[j], jobs[j])
Punctual(jobs) == \A j \in Jobs : OnTime(j, jobs[j])
LogPunctual(actions) == \A i \in DOMAIN actions : OnTime(actions[i].job, actions[i].copy)

Firm(s, answers) ==
  /\ Heard(s.log, answers) /\ LogPunctual(s.log)
  /\ Agrees(s.live, s.log, answers) /\ Agrees(s.disk, s.log, answers)
  /\ Punctual(s.live) /\ Punctual(s.disk)
  /\ Mergeable(s.live, s.log) /\ Mergeable(s.disk, s.log)

(* What a save of these jobs makes of the old answers: one is withdrawn,   *)
(* kept, or given once the save has succeeded.                             *)
Told(old, answers, jobs, actions, ok) ==
  \A j \in Jobs :
    \/ answers[j] = Unasked
    \/ answers[j] = old[j] /\ (~Names(j, actions) => Fits(old[j], jobs[j]))
    \/ ok = TRUE /\ ~Names(j, actions) /\ Fits(answers[j], jobs[j])

Answers == {Unasked, Gone} \cup {Kept(job) : job \in JobRecord}
Settled == asked \in [Jobs -> Answers] /\ Firm(Store, asked)

(* The merge leaves a job as the last action on it says.                   *)
LEMMA MergeLast ==
  ASSUME NEW store \in [Jobs -> Held], NEW actions \in Seq(Entry),
         Mergeable(store, actions), NEW j \in Jobs
  PROVE  \/ ~Names(j, actions) /\ Merge(store, actions)[j] = store[j]
         \/ \E i \in DOMAIN actions :
              Last(j, actions, i) /\ Merge(store, actions)[j] = actions[i].copy
<1> DEFINE n == Len(actions)
<1>1. PICK f \in [0 .. n -> [Jobs -> Held]] :
        /\ Merge(store, actions) = f[n]
        /\ f[0] = store
        /\ \A i \in 1 .. n : f[i] = Apply(f[i - 1], actions[i])
  BY MergeSteps
<1>2. n \in Nat /\ DOMAIN actions = 1 .. n /\ \A i \in 1 .. n : actions[i] \in Entry
  BY ElementOfSeq, LenProperties
<1> HIDE DEF n
<1> DEFINE None(k) == (\A i \in 1 .. k : actions[i].job # j) /\ f[k][j] = store[j]
           Until(k, i) == /\ actions[i].job = j /\ f[k][j] = actions[i].copy
                          /\ \A l \in 1 .. k : l > i => actions[l].job # j
           Some(k) == \E i \in 1 .. k : Until(k, i)
           T == {k \in 0 .. n : None(k) \/ Some(k)}
<1>3. 0 \in T
  BY <1>1, <1>2
<1>4. ASSUME NEW k \in 1 .. n, k - 1 \in T
      PROVE  k \in T
  <2> DEFINE a == actions[k]
             g == f[k - 1]
  <2>1. /\ f[k] = Apply(g, a) /\ g \in [Jobs -> Held] /\ a \in Entry
        /\ k \in 0 .. n /\ k - 1 \in 0 .. n
    BY <1>1, <1>2
  <2>2. None(k - 1) \/ Some(k - 1)
    BY <1>4
  <2>3. CASE a.job # j
    <3>1. f[k][j] = g[j]
      BY <2>1, <2>3, ApplyHeld
    <3>2. CASE None(k - 1)
      <4>1. None(k)
        BY <1>2, <2>3, <3>1, <3>2
      <4> QED
        BY <2>1, <4>1
    <3>3. CASE Some(k - 1)
      <4>1. PICK i \in 1 .. k - 1 : Until(k - 1, i)
        BY <3>3
      <4>2. Until(k, i) /\ i \in 1 .. k
        BY <1>2, <2>3, <3>1, <4>1
      <4> QED
        BY <2>1, <4>2
    <3> QED
      BY <2>2, <3>2, <3>3
  <2>4. CASE a.job = j
    <3>1. a.copy # NoJob => Unbound(a.copy) /\ Unbound(g[j])
      <4> SUFFICES ASSUME a.copy # NoJob
                   PROVE  Unbound(a.copy) /\ Unbound(g[j])
        OBVIOUS
      <4>1. Unbound(a.copy) /\ Unbound(store[j])
        BY <1>2, <2>4 DEF Mergeable
      <4>2. CASE Some(k - 1)
        <5>1. PICK i \in 1 .. k - 1 : Until(k - 1, i)
          BY <4>2
        <5>2. g[j] = actions[i].copy /\ i \in DOMAIN actions
          BY <1>2, <5>1
        <5>3. actions[i].copy # NoJob => Unbound(actions[i].copy)
          BY <5>2 DEF Mergeable
        <5> QED
          BY <4>1, <5>2, <5>3 DEF Unbound
      <4>3. CASE None(k - 1)
        BY <4>1, <4>3
      <4> QED
        BY <2>2, <4>1, <4>2, <4>3
    <3>2. f[k] = [g EXCEPT ![j] = a.copy]
      <4> HIDE DEF a, g
      <4>1. ~(a.copy # NoJob /\ g[j] # NoJob /\ a.copy.binding < g[j].binding)
        BY <3>1 DEF Unbound
      <4> QED
        BY <2>1, <2>4, <4>1 DEF Apply
    <3>3. f[k][j] = a.copy
      BY <2>1, <3>2
    <3>4. Until(k, k) /\ k \in 1 .. k
      BY <1>2, <2>4, <3>3
    <3> QED
      BY <2>1, <3>4
  <2> QED
    BY <2>3, <2>4
<1>5. None(n) \/ Some(n)
  <2>1. \A i \in 0 .. n : i \in T
    <3> HIDE DEF T
    <3> QED
      BY <1>2, <1>3, <1>4, UpTo
  <2> QED
    BY <1>2, <2>1
<1>6. CASE None(n)
  <2>1. ~Names(j, actions)
    BY <1>2, <1>6 DEF Names
  <2> QED
    BY <1>1, <1>6, <2>1
<1>7. CASE Some(n)
  <2>1. PICK i \in 1 .. n : Until(n, i)
    BY <1>7
  <2>2. Last(j, actions, i) /\ i \in DOMAIN actions
    BY <1>2, <2>1 DEF Last
  <2> QED
    BY <1>1, <2>1, <2>2
<1> QED
  BY <1>5, <1>6, <1>7

LEMMA FirmMerged ==
  ASSUME NEW s \in Stores, NEW answers, Firm(s, answers), NEW m, m = Merge(s.disk, s.log)
  PROVE  /\ m \in [Jobs -> Held] /\ Punctual(m) /\ Mergeable(m, s.log)
         /\ Agrees(m, s.log, answers)
         /\ \A j \in Jobs : Fits(answers[j], m[j])
<1>1. s.disk \in [Jobs -> Held] /\ s.log \in Seq(Entry)
  BY DEF Stores
<1>2. \A i \in DOMAIN s.log : s.log[i] \in Entry
  BY <1>1, ElementOfSeq, LenProperties
<1>3. m \in [Jobs -> Held]
  BY <1>1, MergeOrigin
<1>4. Mergeable(s.disk, s.log)
  BY DEF Firm
<1>5. \A j \in Jobs :
        \/ ~Names(j, s.log) /\ m[j] = s.disk[j]
        \/ \E i \in DOMAIN s.log : Last(j, s.log, i) /\ m[j] = s.log[i].copy
  BY <1>1, <1>4, MergeLast
<1>6. \A j \in Jobs : Fits(answers[j], m[j])
  <2> SUFFICES ASSUME NEW j \in Jobs
               PROVE  Fits(answers[j], m[j])
    OBVIOUS
  <2>1. CASE ~Names(j, s.log) /\ m[j] = s.disk[j]
    BY <2>1 DEF Firm, Agrees
  <2>2. CASE \E i \in DOMAIN s.log : Last(j, s.log, i) /\ m[j] = s.log[i].copy
    BY <2>2 DEF Firm, Heard
  <2> QED
    BY <1>5, <2>1, <2>2
<1>7. Punctual(m)
  <2> SUFFICES ASSUME NEW j \in Jobs
               PROVE  OnTime(j, m[j])
    BY DEF Punctual
  <2>1. CASE m[j] = s.disk[j]
    BY <2>1 DEF Firm, Punctual
  <2>2. CASE \E i \in DOMAIN s.log : Last(j, s.log, i) /\ m[j] = s.log[i].copy
    BY <2>2 DEF Firm, LogPunctual, Last
  <2> QED
    BY <1>5, <2>1, <2>2
<1>8. Mergeable(m, s.log)
  <2> SUFFICES ASSUME NEW i \in DOMAIN s.log, s.log[i].copy # NoJob
               PROVE  Unbound(s.log[i].copy) /\ Unbound(m[s.log[i].job])
    BY DEF Mergeable
  <2> DEFINE j == s.log[i].job
  <2>1. j \in Jobs
    BY <1>2 DEF Entry
  <2>2. Unbound(s.log[i].copy) /\ Unbound(s.disk[j])
    BY <1>4 DEF Mergeable
  <2>3. CASE m[j] = s.disk[j]
    BY <2>2, <2>3
  <2>4. CASE \E k \in DOMAIN s.log : Last(j, s.log, k) /\ m[j] = s.log[k].copy
    <3>1. PICK k \in DOMAIN s.log : m[j] = s.log[k].copy
      BY <2>4
    <3>2. s.log[k].copy # NoJob => Unbound(s.log[k].copy)
      BY <1>4 DEF Mergeable
    <3> QED
      BY <2>2, <3>1, <3>2 DEF Unbound
  <2> QED
    BY <1>5, <2>1, <2>2, <2>3, <2>4
<1> QED
  BY <1>3, <1>6, <1>7, <1>8 DEF Agrees

LEMMA EmptyLogSaysNothing ==
  /\ \A answers : Heard(<<>>, answers)
  /\ LogPunctual(<<>>)
  /\ \A store : Mergeable(store, <<>>)
  /\ \A j : ~Names(j, <<>>)
<1>1. DOMAIN <<>> = {}
  OBVIOUS
<1> QED
  BY <1>1 DEF Heard, LogPunctual, Mergeable, Names

(* A load keeps every answer, whether it saves and empties or fails.       *)
LEMMA FirmReloaded ==
  ASSUME NEW s \in Stores, s.ok = TRUE, NEW answers, Firm(s, answers), NEW w \in Reloaded(s)
  PROVE  Firm(w, answers)
<1> DEFINE m == Merge(s.disk, s.log)
<1>1. /\ m \in [Jobs -> Held] /\ Punctual(m) /\ Mergeable(m, s.log)
      /\ Agrees(m, s.log, answers)
      /\ \A j \in Jobs : Fits(answers[j], m[j])
  BY FirmMerged
<1>0. m = Merge(s.disk, s.log)
  OBVIOUS
<1> HIDE DEF m
<1>2. /\ w \in Stores /\ w.live = m
      /\ w.log = <<>> \/ (w.log = s.log /\ w.ok = FALSE)
      /\ w.disk = m \/ (w.disk = s.disk /\ w.dirty = TRUE)
      /\ w.log = <<>> => w.disk = m
  <2>1. \A n : n = Merge(s.disk, s.log) =>
          /\ w \in Stores /\ w.live = n
          /\ w.log = <<>> \/ (w.log = s.log /\ w.ok = FALSE)
          /\ w.disk = n \/ (w.disk = s.disk /\ w.dirty = TRUE)
          /\ w.log = <<>> => w.disk = n
    BY ReloadedOne, ZenonT(60)
  <2> QED
    BY <1>0, <2>1
<1>3. CASE w.log = <<>>
  <2>1. Heard(w.log, answers) /\ LogPunctual(w.log) /\ Mergeable(m, w.log)
    BY <1>3, EmptyLogSaysNothing
  <2>2. Agrees(m, w.log, answers)
    BY <1>1 DEF Agrees
  <2> QED
    BY <1>1, <1>2, <1>3, <2>1, <2>2 DEF Firm
<1>4. CASE w.log = s.log
  BY <1>1, <1>2, <1>4 DEF Firm
<1> QED
  BY <1>2, <1>3, <1>4

LEMMA FirmLoaded ==
  ASSUME NEW s \in Stores, s.ok = TRUE, NEW answers, Firm(s, answers), NEW w \in Loaded(s)
  PROVE  Firm(w, answers)
  BY FirmReloaded DEF Loaded

(* A save of jobs that agree with the answers keeps them; an answer that   *)
(* is new is given only for a save that succeeded.                         *)
LEMMA FirmSaved ==
  ASSUME NEW s \in Stores, s.ok = TRUE, NEW old, Firm(s, old), NEW answers,
         NEW jobs \in [Jobs -> Held], Punctual(jobs), Mergeable(jobs, s.log),
         NEW w \in Saved(s, jobs), Told(old, answers, jobs, s.log, w.ok)
  PROVE  Firm(w, answers)
<1>1. /\ w \in Stores /\ w.live = jobs /\ w.log = s.log
      /\ \/ w.ok = TRUE /\ w.disk = jobs /\ w.dirty = FALSE
         \/ w.ok = FALSE /\ w.dirty = TRUE /\ (w.disk = jobs \/ w.disk = s.disk)
  BY SavedOne
<1>2. \A job : Fits(Unasked, job)
  BY DEF Fits, Unasked
<1>3. Heard(s.log, answers)
  <2> SUFFICES ASSUME NEW j \in Jobs, NEW i \in DOMAIN s.log, Last(j, s.log, i)
               PROVE  Fits(answers[j], s.log[i].copy)
    BY DEF Heard
  <2>1. Fits(old[j], s.log[i].copy)
    BY DEF Firm, Heard
  <2>2. Names(j, s.log)
    BY DEF Names, Last
  <2> QED
    BY <1>2, <2>1, <2>2 DEF Told
<1>4. Agrees(jobs, s.log, answers)
  BY <1>2 DEF Agrees, Told
<1>5. Agrees(w.disk, s.log, answers)
  <2>1. CASE w.disk = jobs
    BY <1>4, <2>1
  <2>2. CASE w.ok = FALSE /\ w.disk = s.disk
    BY <1>2, <2>2 DEF Agrees, Firm, Told
  <2> QED
    BY <1>1, <2>1, <2>2
<1>6. Punctual(w.disk) /\ Mergeable(w.disk, s.log)
  BY <1>1 DEF Firm
<1> QED
  BY <1>1, <1>3, <1>4, <1>5, <1>6 DEF Firm

LEMMA StoreFirm ==
  ASSUME IInv, Settled
  PROVE  /\ Store \in Stores /\ Store.ok = TRUE /\ Firm(Store, asked)
         /\ Store.live = live /\ Store.disk = disk /\ Store.log = log
         /\ Store.dirty = dirty
<1>1. Store \in Stores
  BY DEF IInv, Types, Stores, Store
<1> QED
  BY <1>1 DEF Settled, Store

LEMMA SavedFields ==
  ASSUME NEW s \in Stores, s.ok = TRUE, NEW jobs \in [Jobs -> Held], NEW w \in Saved(s, jobs)
  PROVE  w \in Stores /\ w.live = jobs /\ w.log = s.log /\ w.ok \in BOOLEAN
<1>1. /\ w \in Stores /\ w.live = jobs /\ w.log = s.log
      /\ \/ w.ok = TRUE /\ w.disk = jobs /\ w.dirty = FALSE
         \/ w.ok = FALSE /\ w.dirty = TRUE /\ (w.disk = jobs \/ w.disk = s.disk)
  BY SavedOne
<1> QED
  BY <1>1

LEMMA LoadedInStores ==
  ASSUME NEW s \in Stores, s.ok = TRUE, NEW w \in Loaded(s)
  PROVE  w \in Stores
<1>1. CASE w = s
  BY <1>1
<1>2. CASE w \in Reloaded(s)
  <2>1. \A m : m = Merge(s.disk, s.log) => w \in Stores
    BY <1>2, ReloadedOne
  <2> QED
    BY <2>1
<1> QED
  BY <1>1, <1>2 DEF Loaded

(* What is assigned is what the next state holds.                          *)
LEMMA SettledAfter ==
  ASSUME NEW w, Assign(w), now' = now, asked' \in [Jobs -> Answers], Firm(w, asked')
  PROVE  Settled'
<1>1. live' = w.live /\ disk' = w.disk /\ log' = w.log
  BY DEF Assign
<1>2. \A j : \A job : OnTime(j, job)' <=> OnTime(j, job)
  BY DEF OnTime
<1>3. Store'.live = live' /\ Store'.disk = disk' /\ Store'.log = log'
  BY DEF Store
<1>4. Punctual(Store.live)' /\ Punctual(Store.disk)' /\ LogPunctual(Store.log)'
  BY <1>1, <1>2, <1>3 DEF Firm, Punctual, LogPunctual
<1>5. /\ Heard(Store.log, asked)'
      /\ Agrees(Store.live, Store.log, asked)' /\ Agrees(Store.disk, Store.log, asked)'
  BY <1>1, <1>3 DEF Firm, Heard, Agrees
<1>6. Mergeable(Store.live, Store.log)' /\ Mergeable(Store.disk, Store.log)'
  BY <1>1, <1>3 DEF Firm, Mergeable
<1> QED
  BY <1>4, <1>5, <1>6 DEF Settled, Firm

LEMMA LoadSettles ==
  ASSUME IInv, Settled, now' = now, asked' = asked, NEW s \in Loaded(Store), Assign(s)
  PROVE  Settled'
<1>1. Firm(s, asked)
  BY StoreFirm, FirmLoaded
<1>2. Firm(s, asked') /\ asked' \in [Jobs -> Answers]
  BY <1>1 DEF Settled
<1> QED
  BY <1>2, SettledAfter

(* One job is changed and the whole is saved.                              *)
LEMMA EditSettles ==
  ASSUME IInv, Settled, now' = now, NEW j \in Jobs, NEW s \in Loaded(Store), s.ok = TRUE,
         NEW new \in Held, OnTime(j, new), Unbound(s.live[j]) => Unbound(new),
         NEW what \in Answers, Fits(what, new),
         NEW w \in Saved(s, [s.live EXCEPT ![j] = new]), Assign(w),
         asked' = Accepted(j, w, what)
  PROVE  Settled'
<1> DEFINE jobs == [s.live EXCEPT ![j] = new]
<1>1. s \in Stores /\ Firm(s, asked) /\ asked \in [Jobs -> Answers]
  BY StoreFirm, LoadedInStores, FirmLoaded DEF Settled
<1>2. s.live \in [Jobs -> Held] /\ s.log \in Seq(Entry)
  BY <1>1 DEF Stores
<1>3. /\ jobs \in [Jobs -> Held] /\ jobs[j] = new /\ w \in Saved(s, jobs)
      /\ \A k \in Jobs : k # j => jobs[k] = s.live[k]
  BY <1>2
<1> HIDE DEF jobs
<1>4. /\ w \in Stores /\ w.log = s.log /\ w.ok \in BOOLEAN
  BY <1>1, <1>3, SavedFields, ZenonT(90)
<1>5. /\ asked' \in [Jobs -> Answers]
      /\ \A k \in Jobs : k # j => asked'[k] = asked[k]
      /\ \/ asked'[j] = Unasked
         \/ asked'[j] = what /\ w.ok = TRUE /\ ~Names(j, s.log)
  <2>1. CASE w.ok /\ \A i \in DOMAIN w.log : w.log[i].job # j
    <3>1. asked' = [asked EXCEPT ![j] = what]
      BY <2>1 DEF Accepted
    <3>2. ~Names(j, s.log) /\ w.ok = TRUE
      BY <1>4, <2>1 DEF Names
    <3> QED
      BY <1>1, <3>1, <3>2
  <2>2. CASE ~(w.ok /\ \A i \in DOMAIN w.log : w.log[i].job # j)
    <3>1. asked' = [asked EXCEPT ![j] = Unasked]
      BY <2>2 DEF Accepted
    <3>2. Unasked \in Answers
      BY DEF Answers
    <3> QED
      BY <1>1, <3>1, <3>2
  <2> QED
    BY <2>1, <2>2
<1>6. Punctual(jobs)
  BY <1>1, <1>3 DEF Firm, Punctual
<1>7. Mergeable(jobs, s.log)
  <2> SUFFICES ASSUME NEW i \in DOMAIN s.log, s.log[i].copy # NoJob
               PROVE  Unbound(s.log[i].copy) /\ Unbound(jobs[s.log[i].job])
    BY DEF Mergeable
  <2>0. s.log[i] \in Entry
    BY <1>2, ElementOfSeq, LenProperties
  <2>1. s.log[i].job \in Jobs
    BY <2>0 DEF Entry
  <2>2. Unbound(s.log[i].copy) /\ Unbound(s.live[s.log[i].job])
    BY <1>1 DEF Firm, Mergeable
  <2> QED
    BY <1>3, <2>1, <2>2
<1>8. Told(asked, asked', jobs, s.log, w.ok)
  <2> SUFFICES ASSUME NEW k \in Jobs
               PROVE  \/ asked'[k] = Unasked
                      \/ asked'[k] = asked[k] /\ (~Names(k, s.log) => Fits(asked[k], jobs[k]))
                      \/ w.ok = TRUE /\ ~Names(k, s.log) /\ Fits(asked'[k], jobs[k])
    BY DEF Told
  <2>1. CASE k = j
    BY <1>3, <1>5, <2>1
  <2>2. CASE k # j
    BY <1>1, <1>3, <1>5, <2>2 DEF Firm, Agrees
  <2> QED
    BY <2>1, <2>2
<1>9. Firm(w, asked')
  BY <1>1, <1>3, <1>6, <1>7, <1>8, FirmSaved
<1> QED
  BY <1>5, <1>9, SettledAfter

Answer(new) == IF new = NoJob THEN Gone ELSE Kept(new)

LEMMA AnswerFits ==
  ASSUME NEW new \in Held
  PROVE  Answer(new) \in Answers /\ Fits(Answer(new), new)
<1>1. CASE new = NoJob
  BY <1>1 DEF Answer, Answers, Fits, Gone
<1>2. CASE new # NoJob
  <2>1. new \in JobRecord /\ Answer(new) = Kept(new)
    BY <1>2 DEF Held, Answer
  <2>2. Kept(new).what = "kept" /\ Kept(new).job = new
    BY DEF Kept
  <2>3. Fits(Kept(new), new)
    BY <1>2, <2>2 DEF Fits
  <2> QED
    BY <2>1, <2>3 DEF Answers
<1> QED
  BY <1>1, <1>2

LEMMA ListSettles ==
  ASSUME IInv, Settled, ListJobs
  PROVE  Settled'
<1>1. now' = now /\ asked' = asked
  BY DEF ListJobs
<1>2. PICK s \in Loaded(Store) : Assign(s)
  BY DEF ListJobs
<1> QED
  BY <1>1, <1>2, LoadSettles

LEMMA RemoveSettles ==
  ASSUME IInv, Settled, NEW j \in Jobs, RemoveJob(j)
  PROVE  Settled'
<1>1. now' = now /\ up = TRUE
  BY DEF RemoveJob, Edit, IInv, Types
<1>2. PICK s \in Loaded(Store) :
        \/ Assign(s) /\ asked' = asked
        \/ /\ s.ok /\ s.live[j] # NoJob
           /\ \E w \in Saved(s, [s.live EXCEPT ![j] = NoJob]) :
                Assign(w) /\ asked' = Accepted(j, w, Answer(NoJob))
  BY DEF RemoveJob, Edit, Answer
<1>3. CASE Assign(s) /\ asked' = asked
  BY <1>1, <1>3, LoadSettles
<1>4. ASSUME s.ok, NEW w \in Saved(s, [s.live EXCEPT ![j] = NoJob]),
             Assign(w), asked' = Accepted(j, w, Answer(NoJob))
      PROVE  Settled'
  <2>1. s.ok = TRUE
    BY <1>1, <1>4, LoadedStore
  <2>2. NoJob \in Held /\ OnTime(j, NoJob) /\ Unbound(NoJob)
    BY DEF Held, OnTime, Unbound
  <2>3. Answer(NoJob) \in Answers /\ Fits(Answer(NoJob), NoJob)
    BY <2>2, AnswerFits
  <2> QED
    BY <1>1, <1>4, <2>1, <2>2, <2>3, EditSettles
<1> QED
  BY <1>2, <1>3, <1>4

(* A schedule that was just computed is at the time that was asked for.    *)
LEMMA NextRunOnTime ==
  ASSUME IInv, NEW j \in Jobs
  PROVE  \A job : (OneShot(j) => job.next = NextRun(j, job.at)) => OnTime(j, job)
  BY DEF OnTime, NextRun, OneShot

LEMMA EnableSettles ==
  ASSUME IInv, Settled, NEW j \in Jobs, NEW enabled \in BOOLEAN, EnableJob(j, enabled)
  PROVE  Settled'
<1> DEFINE New(job) == [job EXCEPT !.enabled = enabled,
                          !.next = IF enabled THEN NextRun(j, job.at) ELSE NoTime]
<1>1. now' = now /\ up = TRUE
  BY DEF EnableJob, Edit, IInv, Types
<1>2. PICK s \in Loaded(Store) :
        \/ Assign(s) /\ asked' = asked
        \/ /\ s.ok /\ s.live[j] # NoJob
           /\ \E w \in Saved(s, [s.live EXCEPT ![j] = New(s.live[j])]) :
                Assign(w) /\ asked' = Accepted(j, w, Answer(New(s.live[j])))
  BY DEF EnableJob, Edit, Answer
<1>3. CASE Assign(s) /\ asked' = asked
  BY <1>1, <1>3, LoadSettles
<1>4. ASSUME s.ok, s.live[j] # NoJob,
             NEW w \in Saved(s, [s.live EXCEPT ![j] = New(s.live[j])]),
             Assign(w), asked' = Accepted(j, w, Answer(New(s.live[j])))
      PROVE  Settled'
  <2> DEFINE job == s.live[j]
             next == IF enabled THEN NextRun(j, job.at) ELSE NoTime
             new == New(job)
  <2>1. s.ok = TRUE /\ job \in JobRecord
    BY <1>1, <1>4, LoadedStore DEF Held
  <2>2. next \in Nat
    BY <2>1, NextRunAhead DEF JobRecord, NoTime
  <2>3. new = [job EXCEPT !.enabled = enabled, !.next = next]
    OBVIOUS
  <2> HIDE DEF job, next, New
  <2>4. /\ new \in JobRecord /\ new.next = next /\ new.at = job.at
        /\ new.binding = job.binding /\ new.enabled = enabled
    BY <2>1, <2>2, <2>3 DEF JobRecord
  <2> HIDE DEF new
  <2>5. new \in Held
    BY <2>4 DEF Held
  <2>6. OnTime(j, new)
    <3>1. CASE enabled = TRUE
      BY <2>4, <3>1, NextRunOnTime DEF next
    <3>2. CASE enabled = FALSE
      BY <2>4, <3>2 DEF OnTime
    <3> QED
      BY <3>1, <3>2
  <2>7. Unbound(job) => Unbound(new)
    BY <1>4, <2>4 DEF Unbound, job
  <2>8. Answer(new) \in Answers /\ Fits(Answer(new), new)
    BY <2>5, AnswerFits
  <2>9. w \in Saved(s, [s.live EXCEPT ![j] = new]) /\ asked' = Accepted(j, w, Answer(new))
    BY <1>4 DEF new, job
  <2>10. Unbound(s.live[j]) => Unbound(new)
    BY <2>7 DEF job
  <2> QED
    BY <1>1, <1>4, <2>1, <2>5, <2>6, <2>8, <2>9, <2>10, EditSettles
<1> QED
  BY <1>2, <1>3, <1>4

LEMMA UpdateSettles ==
  ASSUME IInv, Settled, NEW j \in Jobs, NEW at \in Times, UpdateJob(j, at)
  PROVE  Settled'
<1> DEFINE NextTime(job) == IF ~job.enabled THEN NoTime
                         ELSE IF at = job.at THEN job.next ELSE NextRun(j, at)
           New(job) == [job EXCEPT !.at = at,
                          !.next = IF ~job.enabled THEN NoTime
                                   ELSE IF at = job.at THEN @ ELSE NextRun(j, at)]
<1>1. now' = now /\ up = TRUE
  BY DEF UpdateJob, Edit, IInv, Types
<1>2. PICK s \in Loaded(Store) :
        \/ Assign(s) /\ asked' = asked
        \/ /\ s.ok /\ s.live[j] # NoJob
           /\ \E w \in Saved(s, [s.live EXCEPT ![j] = New(s.live[j])]) :
                Assign(w) /\ asked' = Accepted(j, w, Answer(New(s.live[j])))
  BY DEF UpdateJob, Edit, Answer
<1>3. CASE Assign(s) /\ asked' = asked
  BY <1>1, <1>3, LoadSettles
<1>4. ASSUME s.ok, s.live[j] # NoJob,
             NEW w \in Saved(s, [s.live EXCEPT ![j] = New(s.live[j])]),
             Assign(w), asked' = Accepted(j, w, Answer(New(s.live[j])))
      PROVE  Settled'
  <2> DEFINE job == s.live[j]
             next == NextTime(job)
             new == New(job)
  <2>0. at \in Nat
    BY BoundAssumption DEF Times
  <2>1. s.ok = TRUE /\ job \in JobRecord
    BY <1>1, <1>4, LoadedStore DEF Held
  <2>2. next \in Nat
    BY <2>0, <2>1, NextRunAhead DEF JobRecord, NoTime
  <2>3. new = [job EXCEPT !.at = at, !.next = next]
    OBVIOUS
  <2>4. OnTime(j, job)
    <3>1. Firm(s, asked)
      BY StoreFirm, FirmLoaded
    <3> QED
      BY <3>1 DEF Firm, Punctual
  <2>5. (~job.enabled) \/ next = NextRun(j, at) \/ (at = job.at /\ next = job.next)
    OBVIOUS
  <2> HIDE DEF next, New, NextTime
  <2>6. /\ new \in JobRecord /\ new.next = next /\ new.at = at
        /\ new.binding = job.binding /\ new.enabled = job.enabled
    <3> HIDE DEF job
    <3> QED
      BY <2>0, <2>1, <2>2, <2>3 DEF JobRecord
  <2> HIDE DEF new
  <2>7. new \in Held
    BY <2>6 DEF Held
  <2>8. OnTime(j, new)
    <3> HIDE DEF job
    <3>1. CASE ~job.enabled
      BY <2>6, <3>1 DEF OnTime
    <3>2. CASE next = NextRun(j, at)
      BY <2>6, <3>2, NextRunOnTime
    <3>3. CASE at = job.at /\ next = job.next
      BY <1>4, <2>4, <2>6, <3>3 DEF OnTime, job
    <3> QED
      BY <2>5, <3>1, <3>2, <3>3
  <2>9. Unbound(s.live[j]) => Unbound(new)
    BY <1>4, <2>6 DEF Unbound
  <2>10. Answer(new) \in Answers /\ Fits(Answer(new), new)
    BY <2>7, AnswerFits
  <2>11. w \in Saved(s, [s.live EXCEPT ![j] = new]) /\ asked' = Accepted(j, w, Answer(new))
    BY <1>4 DEF new
  <2> QED
    BY <1>1, <1>4, <2>1, <2>7, <2>8, <2>9, <2>10, <2>11, EditSettles
<1> QED
  BY <1>2, <1>3, <1>4

LEMMA NewJobFacts ==
  ASSUME IInv, NEW j \in Jobs, NEW at \in Times
  PROVE  /\ NewJob(j, at) \in JobRecord /\ NewJob(j, at) # NoJob
         /\ OnTime(j, NewJob(j, at)) /\ Unbound(NewJob(j, at))
<1> DEFINE new == NewJob(j, at)
<1>1. at \in Nat
  BY BoundAssumption DEF Times
<1>2. NextRun(j, at) \in Nat
  BY <1>1, NextRunAhead
<1>3. /\ new \in JobRecord /\ new.at = at /\ new.next = NextRun(j, at)
      /\ new.binding = 0
  BY <1>1, <1>2 DEF NewJob, JobRecord
<1>4. new # NoJob
  BY <1>3, NoJobAssumption DEF JobRecord
<1> HIDE DEF new
<1>5. OnTime(j, new)
  BY <1>3, NextRunOnTime
<1>6. Unbound(new)
  BY <1>3 DEF Unbound
<1> QED
  BY <1>3, <1>4, <1>5, <1>6 DEF new

LEMMA AddSettles ==
  ASSUME IInv, Settled, NEW j \in Jobs, NEW at \in Times, AddJob(j, at)
  PROVE  Settled'
<1> DEFINE new == NewJob(j, at)
<1>1. now' = now /\ up = TRUE
  BY DEF AddJob, IInv, Types
<1>2. PICK s \in Loaded(Store) :
        \/ Assign(s) /\ asked' = asked
        \/ /\ s.ok
           /\ \E w \in Saved(s, [s.live EXCEPT ![j] = new]) :
                Assign(w) /\ asked' = Accepted(j, w, Kept(new))
  BY DEF AddJob
<1>3. CASE Assign(s) /\ asked' = asked
  BY <1>1, <1>3, LoadSettles
<1>4. new \in JobRecord /\ new # NoJob /\ OnTime(j, new) /\ Unbound(new)
  BY NewJobFacts
<1> HIDE DEF new
<1>5. new \in Held /\ Answer(new) = Kept(new)
  BY <1>4 DEF Held, Answer
<1>6. Kept(new) \in Answers /\ Fits(Kept(new), new)
  BY <1>5, AnswerFits
<1>7. ASSUME s.ok, NEW w \in Saved(s, [s.live EXCEPT ![j] = new]),
             Assign(w), asked' = Accepted(j, w, Kept(new))
      PROVE  Settled'
  <2>1. s.ok = TRUE
    BY <1>1, <1>7, LoadedStore
  <2> QED
    BY <1>1, <1>4, <1>5, <1>6, <1>7, <2>1, EditSettles
<1> QED
  BY <1>2, <1>3, <1>7

LEMMA BindingSettles ==
  ASSUME IInv, Settled, NEW j \in Jobs, ChangeBinding(j)
  PROVE  Settled'
<1> DEFINE New(job) == [job EXCEPT !.binding = @ + 1]
<1>1. now' = now /\ up = TRUE /\ ~Active /\ dirty = FALSE
  BY DEF ChangeBinding, IInv, Types
<1>2. PICK s \in Reloaded(Store) :
        \/ Assign(s) /\ asked' = asked
        \/ /\ s.ok /\ s.live[j] # NoJob
           /\ \/ /\ Assign([s EXCEPT !.live[j] = New(s.live[j]),
                                     !.disk = [s.live EXCEPT ![j] = New(s.live[j])]])
                 /\ asked' = [asked EXCEPT ![j] = Kept(New(s.live[j]))]
              \/ Assign(Failed(s)) /\ asked' = asked
  BY DEF ChangeBinding
<1>3. s \in Loaded(Store)
  BY <1>1 DEF Loaded, Store
<1>4. s \in Stores /\ Firm(s, asked)
  BY <1>3, StoreFirm, LoadedInStores, FirmLoaded
<1>5. s.live \in [Jobs -> Held] /\ s.ok \in BOOLEAN /\ asked \in [Jobs -> Answers]
  BY <1>4 DEF Stores, Settled
<1>6. CASE Assign(s) /\ asked' = asked
  BY <1>1, <1>3, <1>6, LoadSettles
<1>7. CASE Assign(Failed(s)) /\ asked' = asked
  <2> DEFINE w == Failed(s)
  <2>1. w.live = s.live /\ w.disk = s.disk /\ w.log = s.log
    BY <1>4, FailedOne
  <2> HIDE DEF w
  <2>2. Firm(w, asked')
    BY <1>4, <1>7, <2>1 DEF Firm
  <2>3. Assign(w) /\ asked' \in [Jobs -> Answers]
    BY <1>5, <1>7 DEF w
  <2> QED
    BY <1>1, <2>2, <2>3, SettledAfter
<1>8. CASE /\ s.ok /\ s.live[j] # NoJob
           /\ Assign([s EXCEPT !.live[j] = New(s.live[j]),
                               !.disk = [s.live EXCEPT ![j] = New(s.live[j])]])
           /\ asked' = [asked EXCEPT ![j] = Kept(New(s.live[j]))]
  <2> DEFINE job == s.live[j]
             new == New(job)
             jobs == [s.live EXCEPT ![j] = new]
             w == [s EXCEPT !.live[j] = new, !.disk = jobs]
  <2>1. job \in JobRecord
    BY <1>5, <1>8 DEF Held
  <2>2. /\ new \in JobRecord /\ new.at = job.at /\ new.next = job.next
        /\ new.enabled = job.enabled
    <3> HIDE DEF job
    <3>1. job.binding + 1 \in Nat
      BY <2>1 DEF JobRecord
    <3>2. new = [job EXCEPT !.binding = job.binding + 1]
      BY <2>1 DEF JobRecord
    <3> HIDE DEF New
    <3> QED
      BY <2>1, <3>1, <3>2 DEF JobRecord
  <2>3. OnTime(j, job)
    BY <1>4 DEF Firm, Punctual
  <2>4. Assign(w) /\ asked' = [asked EXCEPT ![j] = Kept(new)]
    BY <1>8
  <2> HIDE DEF New, new
  <2>5. OnTime(j, new)
    BY <1>8, <2>2, <2>3 DEF OnTime
  <2>6. new \in Held /\ new # NoJob
    BY <2>2, NoJobAssumption DEF Held, JobRecord
  <2>7. Kept(new) \in Answers /\ Fits(Kept(new), new)
    BY <2>6, AnswerFits DEF Answer
  <2>8. /\ jobs \in [Jobs -> Held] /\ jobs[j] = new
        /\ \A k \in Jobs : k # j => jobs[k] = s.live[k]
    BY <1>5, <2>6
  <2>9. w = [s EXCEPT !.live = jobs, !.disk = jobs]
    BY <1>4 DEF Stores
  <2> HIDE DEF jobs, w, job
  <2>10. w.live = jobs /\ w.disk = jobs /\ w.log = s.log
    BY <1>4, <2>9 DEF Stores
  <2>11. s.log = <<>>
    <3>1. \A m : m = Merge(Store.disk, Store.log) => s.log = <<>> \/ s.ok = FALSE
      BY StoreFirm, ReloadedOne
    <3> QED
      BY <1>5, <1>8, <3>1
  <2>12. /\ asked' \in [Jobs -> Answers] /\ asked'[j] = Kept(new)
         /\ \A k \in Jobs : k # j => asked'[k] = asked[k]
    BY <1>5, <2>4, <2>7
  <2>13. Agrees(jobs, s.log, asked')
    <3> SUFFICES ASSUME NEW k \in Jobs
                 PROVE  Fits(asked'[k], jobs[k])
      BY DEF Agrees
    <3>1. CASE k = j
      BY <2>7, <2>8, <2>12, <3>1
    <3>2. CASE k # j
      <4>1. ~Names(k, s.log)
        BY <2>11, EmptyLogSaysNothing
      <4> QED
        BY <1>4, <2>8, <2>12, <3>2, <4>1 DEF Firm, Agrees
    <3> QED
      BY <3>1, <3>2
  <2>14. Punctual(jobs)
    BY <1>4, <2>5, <2>8 DEF Firm, Punctual
  <2>15. Heard(s.log, asked') /\ LogPunctual(s.log) /\ Mergeable(jobs, s.log)
    BY <2>11, EmptyLogSaysNothing
  <2>16. Firm(w, asked')
    BY <2>10, <2>13, <2>14, <2>15 DEF Firm
  <2> QED
    BY <1>1, <2>4, <2>12, <2>16, SettledAfter
<1> QED
  BY <1>2, <1>6, <1>7, <1>8

(* The other process has the last word on a job, and adds only a new one.  *)
LEMMA AppendSettles ==
  ASSUME IInv, Settled, NEW j \in Jobs, NEW copy \in Held, OnTime(j, copy),
         log' = Append(log, [job |-> j, copy |-> copy]),
         copy # NoJob => j \notin used /\ Unbound(copy),
         now' = now, live' = live, disk' = disk,
         NEW what \in Answers, Fits(what, copy), asked' = [asked EXCEPT ![j] = what]
  PROVE  Settled'
<1> DEFINE e == [job |-> j, copy |-> copy]
           n == Len(log) + 1
<1>1. e \in Entry /\ e.job = j /\ e.copy = copy /\ log \in Seq(Entry)
  BY DEF Entry, IInv, Types
<1>2. /\ Len(log) \in Nat
      /\ \A i \in 1 .. Len(log) : log'[i] = log[i]
      /\ log'[n] = e /\ DOMAIN log = 1 .. Len(log) /\ DOMAIN log' = 1 .. n
  <2> HIDE DEF e
  <2> QED
    BY <1>1, AppendProperties, LenProperties DEF e
<1>3. /\ Heard(log, asked) /\ LogPunctual(log)
      /\ Agrees(live, log, asked) /\ Agrees(disk, log, asked)
      /\ Punctual(live) /\ Punctual(disk)
      /\ Mergeable(live, log) /\ Mergeable(disk, log)
  BY StoreFirm DEF Firm
<1>4. /\ asked' \in [Jobs -> Answers] /\ asked'[j] = what
      /\ \A k \in Jobs : k # j => asked'[k] = asked[k]
  BY DEF Settled
<1> HIDE DEF e
<1>5. Heard(log', asked')
  <2> SUFFICES ASSUME NEW k \in Jobs, NEW i \in DOMAIN log', Last(k, log', i)
               PROVE  Fits(asked'[k], log'[i].copy)
    BY DEF Heard
  <2>1. CASE i = n
    BY <1>1, <1>2, <1>4, <2>1 DEF Last
  <2>2. CASE i # n
    <3>1. i \in DOMAIN log /\ n > i /\ n \in DOMAIN log'
      BY <1>2, <2>2
    <3>2. k # j
      BY <1>1, <1>2, <3>1 DEF Last
    <3>3. Last(k, log, i)
      BY <1>2, <3>1 DEF Last
    <3> QED
      BY <1>2, <1>3, <1>4, <3>1, <3>2, <3>3 DEF Heard
  <2> QED
    BY <2>1, <2>2
<1>6. LogPunctual(log')
  BY <1>1, <1>2, <1>3 DEF LogPunctual
<1>7. ASSUME NEW jobs, Agrees(jobs, log, asked)
      PROVE  Agrees(jobs, log', asked')
  <2> SUFFICES ASSUME NEW k \in Jobs, ~Names(k, log')
               PROVE  Fits(asked'[k], jobs[k])
    BY DEF Agrees
  <2>1. k # j /\ ~Names(k, log)
    BY <1>1, <1>2 DEF Names
  <2> QED
    BY <1>4, <1>7, <2>1 DEF Agrees
<1>8. ASSUME NEW jobs, Mergeable(jobs, log), copy # NoJob => jobs[j] = NoJob
      PROVE  Mergeable(jobs, log')
  <2> SUFFICES ASSUME NEW i \in DOMAIN log', log'[i].copy # NoJob
               PROVE  Unbound(log'[i].copy) /\ Unbound(jobs[log'[i].job])
    BY DEF Mergeable
  <2>1. CASE i = n
    BY <1>1, <1>2, <1>8, <2>1 DEF Unbound
  <2>2. CASE i # n
    <3>1. i \in DOMAIN log /\ log'[i] = log[i]
      BY <1>2, <2>2
    <3> QED
      BY <1>8, <3>1 DEF Mergeable
  <2> QED
    BY <2>1, <2>2
<1>9. copy # NoJob => live[j] = NoJob /\ disk[j] = NoJob
  BY DEF IInv, Known
<1>10. /\ Store'.live = live /\ Store'.disk = disk /\ Store'.log = log'
  BY DEF Store
<1>11. \A k : \A job : OnTime(k, job)' <=> OnTime(k, job)
  BY DEF OnTime
<1>12. Punctual(Store.live)' /\ Punctual(Store.disk)' /\ LogPunctual(Store.log)'
  BY <1>3, <1>6, <1>10, <1>11 DEF Punctual, LogPunctual
<1>13. Heard(Store.log, asked)'
  BY <1>5, <1>10 DEF Heard
<1>14. Agrees(Store.live, Store.log, asked)' /\ Agrees(Store.disk, Store.log, asked)'
  BY <1>3, <1>7, <1>10
<1>15. Mergeable(Store.live, Store.log)' /\ Mergeable(Store.disk, Store.log)'
  BY <1>3, <1>8, <1>9, <1>10
<1> QED
  BY <1>4, <1>12, <1>13, <1>14, <1>15 DEF Settled, Firm

LEMMA CliAddSettles ==
  ASSUME IInv, Settled, NEW j \in Jobs, NEW at \in Times, CliAdd(j, at)
  PROVE  Settled'
<1> DEFINE new == NewJob(j, at)
<1>1. /\ now' = now /\ live' = live /\ disk' = disk /\ j \notin used
      /\ log' = Append(log, [job |-> j, copy |-> new])
      /\ asked' = [asked EXCEPT ![j] = Kept(new)]
  BY DEF CliAdd
<1>2. new \in JobRecord /\ new # NoJob /\ OnTime(j, new) /\ Unbound(new)
  BY NewJobFacts
<1> HIDE DEF new
<1>3. new \in Held /\ Answer(new) = Kept(new)
  BY <1>2 DEF Held, Answer
<1>4. Kept(new) \in Answers /\ Fits(Kept(new), new)
  BY <1>3, AnswerFits
<1> QED
  BY <1>1, <1>2, <1>3, <1>4, AppendSettles

LEMMA CliRemoveSettles ==
  ASSUME IInv, Settled, NEW j \in Jobs, CliRemove(j)
  PROVE  Settled'
<1>1. /\ now' = now /\ live' = live /\ disk' = disk
      /\ log' = Append(log, [job |-> j, copy |-> NoJob])
      /\ asked' = [asked EXCEPT ![j] = Gone]
  BY DEF CliRemove
<1>2. NoJob \in Held /\ OnTime(j, NoJob)
  BY DEF Held, OnTime
<1>3. Gone \in Answers /\ Fits(Gone, NoJob)
  BY <1>2, AnswerFits DEF Answer
<1> QED
  BY <1>1, <1>2, <1>3, AppendSettles

(* What was on time stays so while the clock runs.                         *)
LEMMA TickSettles ==
  ASSUME IInv, Settled, Tick
  PROVE  Settled'
<1>1. now' = now + 1 /\ now \in 0 .. MaxTime /\ MaxTime \in Nat
  BY BoundAssumption DEF Tick, IInv, Types
<1>2. live' = live /\ disk' = disk /\ log' = log /\ asked' = asked
  BY DEF Tick, storeVars, userVars
<1>3. \A j : \A job \in Held : OnTime(j, job) => OnTime(j, job)'
  <2> SUFFICES ASSUME NEW j, NEW job \in Held, OnTime(j, job), OneShot(j), job # NoJob,
                      job.enabled, job.at > now'
               PROVE  job.next = job.at
    BY <1>1 DEF OnTime, OneShot
  <2>1. job.at \in Nat
    BY DEF Held, JobRecord
  <2>2. job.at > now
    BY <1>1, <2>1
  <2> QED
    BY <2>2 DEF OnTime
<1>4. /\ Store.live = live /\ Store.disk = disk /\ Store.log = log
      /\ Store'.live = live /\ Store'.disk = disk /\ Store'.log = log
  BY <1>2 DEF Store
<1>5. live \in [Jobs -> Held] /\ disk \in [Jobs -> Held] /\ log \in Seq(Entry)
  BY DEF IInv, Types
<1>6. \A i \in DOMAIN log : log[i].copy \in Held
  <2>1. \A i \in DOMAIN log : log[i] \in Entry
    BY <1>5, ElementOfSeq, LenProperties
  <2> QED
    BY <2>1 DEF Entry
<1>7. Punctual(Store.live)' /\ Punctual(Store.disk)' /\ LogPunctual(Store.log)'
  BY <1>3, <1>4, <1>5, <1>6 DEF Settled, Firm, Punctual, LogPunctual
<1>8. /\ Heard(Store.log, asked)'
      /\ Agrees(Store.live, Store.log, asked)' /\ Agrees(Store.disk, Store.log, asked)'
      /\ Mergeable(Store.live, Store.log)' /\ Mergeable(Store.disk, Store.log)'
  BY <1>2, <1>4 DEF Settled, Firm
<1> QED
  BY <1>2, <1>7, <1>8 DEF Settled, Firm

(* A crash leaves the file and the log.                                    *)
LEMMA CrashSettles ==
  ASSUME IInv, Settled, Crash
  PROVE  Settled'
<1>1. /\ now' = now /\ live' = disk /\ disk' = disk /\ log' = log /\ asked' = asked
      /\ dirty' = FALSE /\ faults' = faults + 1
  BY DEF Crash, userVars
<1> DEFINE w == [live |-> disk, disk |-> disk, log |-> log, dirty |-> FALSE,
                 faults |-> faults + 1]
<1>2. Assign(w)
  BY <1>1 DEF Assign
<1>3. w.live = disk /\ w.disk = disk /\ w.log = log
  OBVIOUS
<1> HIDE DEF w
<1>4. Firm(w, asked')
  BY <1>1, <1>3, StoreFirm DEF Firm
<1>5. asked' \in [Jobs -> Answers]
  BY <1>1 DEF Settled
<1> QED
  BY <1>1, <1>2, <1>4, <1>5, SettledAfter

(* A job that differs at most in when it runs next.                        *)
Alike(job, new) ==
  /\ job = NoJob <=> new = NoJob
  /\ job # NoJob => /\ new.at = job.at /\ new.enabled = job.enabled
                    /\ new.binding = job.binding

LEMMA AlikeFits ==
  ASSUME NEW job, NEW new, Alike(job, new)
  PROVE  /\ \A answer : Fits(answer, job) => Fits(answer, new)
         /\ Unbound(job) => Unbound(new)
  BY DEF Alike, Fits, Unbound

LEMMA ResumedAlike ==
  ASSUME IInv, NEW j \in Jobs, NEW job \in Held, OnTime(j, job)
  PROVE  Alike(job, Resumed(j, job)) /\ OnTime(j, Resumed(j, job))
<1>1. CASE Resumed(j, job) = job
  BY <1>1 DEF Alike
<1>2. CASE job # NoJob /\ Resumed(j, job) = [job EXCEPT !.next = NextRun(j, job.at)]
  <2> DEFINE next == NextRun(j, job.at)
             new == [job EXCEPT !.next = next]
  <2>1. job \in JobRecord
    BY <1>2 DEF Held
  <2> HIDE DEF next
  <2>2. /\ new.next = next /\ new.at = job.at /\ new.enabled = job.enabled
        /\ new.binding = job.binding
    BY <2>1 DEF JobRecord
  <2>3. next \in Nat
    BY <2>1, NextRunAhead DEF JobRecord, next
  <2>4. new \in JobRecord
    BY <2>1, <2>3 DEF JobRecord
  <2>5. new # NoJob /\ Resumed(j, job) = new
    BY <1>2, <2>4, NoJobAssumption DEF JobRecord, next
  <2> HIDE DEF new
  <2>6. OnTime(j, new)
    BY <2>2, NextRunOnTime DEF next
  <2> QED
    BY <1>2, <2>2, <2>5, <2>6 DEF Alike
<1> QED
  BY <1>1, <1>2 DEF Resumed

(* The answers survive what happens to the jobs as a whole.                *)
LEMMA AlikeSaved ==
  ASSUME NEW s \in Stores, s.ok = TRUE, NEW answers, Firm(s, answers),
         NEW jobs \in [Jobs -> Held], Punctual(jobs),
         \A j \in Jobs : Alike(s.live[j], jobs[j]),
         NEW w \in Saved(s, jobs)
  PROVE  Firm(w, answers)
<1>1. Told(answers, answers, jobs, s.log, w.ok)
  <2>1. \A j \in Jobs : ~Names(j, s.log) => Fits(answers[j], s.live[j])
    BY DEF Firm, Agrees
  <2> QED
    BY <2>1, AlikeFits DEF Told
<1>2. Mergeable(jobs, s.log)
  <2> SUFFICES ASSUME NEW i \in DOMAIN s.log, s.log[i].copy # NoJob
               PROVE  Unbound(s.log[i].copy) /\ Unbound(jobs[s.log[i].job])
    BY DEF Mergeable
  <2>0. s.log \in Seq(Entry)
    BY DEF Stores
  <2>1. s.log[i] \in Entry
    BY <2>0, ElementOfSeq, LenProperties
  <2>2. s.log[i].job \in Jobs
    BY <2>1 DEF Entry
  <2>3. Unbound(s.log[i].copy) /\ Unbound(s.live[s.log[i].job])
    BY DEF Firm, Mergeable
  <2> QED
    BY <2>2, <2>3, AlikeFits
<1> QED
  BY <1>1, <1>2, FirmSaved

LEMMA FirmRelabelled ==
  ASSUME NEW s, NEW w, NEW answers, Firm(s, answers),
         w.live = s.live, w.disk = s.disk, w.log = s.log
  PROVE  Firm(w, answers)
  BY DEF Firm

LEMMA StartSettles ==
  ASSUME IInv, Settled, Start
  PROVE  Settled'
<1> DEFINE jobs(s) == [j \in Jobs |-> Resumed(j, s.live[j])]
<1>1. now' = now /\ asked' = asked /\ asked' \in [Jobs -> Answers]
  BY DEF Start, userVars, Settled
<1>2. PICK s \in Reloaded(Store) :
        \/ Assign([s EXCEPT !.dirty = FALSE])
        \/ /\ s.ok
           /\ \E w \in Saved(s, jobs(s)) :
                Assign(w) \/ Assign([w EXCEPT !.dirty = FALSE])
  BY DEF Start
<1>3. s \in Stores /\ s.ok \in BOOLEAN /\ Firm(s, asked) /\ s.live \in [Jobs -> Held]
  <2>1. Store \in Stores /\ Store.ok = TRUE /\ Firm(Store, asked)
    BY StoreFirm
  <2>2. \A m : m = Merge(Store.disk, Store.log) => s \in Stores
    BY <2>1, ReloadedOne
  <2>3. Firm(s, asked)
    BY <2>1, FirmReloaded
  <2> QED
    BY <2>2, <2>3 DEF Stores
<1>4. ASSUME NEW v \in Stores, Firm(v, asked), Assign([v EXCEPT !.dirty = FALSE])
      PROVE  Settled'
  <2> DEFINE w == [v EXCEPT !.dirty = FALSE]
  <2>1. w.live = v.live /\ w.disk = v.disk /\ w.log = v.log
    BY <1>4 DEF Stores
  <2>2. Assign(w)
    BY <1>4
  <2> HIDE DEF w
  <2>3. Firm(w, asked')
    BY <1>1, <1>4, <2>1, FirmRelabelled
  <2> QED
    BY <1>1, <2>2, <2>3, SettledAfter
<1>5. CASE Assign([s EXCEPT !.dirty = FALSE])
  BY <1>3, <1>4, <1>5
<1>6. ASSUME s.ok, NEW w \in Saved(s, jobs(s)),
             Assign(w) \/ Assign([w EXCEPT !.dirty = FALSE])
      PROVE  Settled'
  <2> DEFINE new == jobs(s)
  <2>1. Punctual(s.live)
    BY <1>3 DEF Firm
  <2>2. \A j \in Jobs : s.live[j] \in Held /\ OnTime(j, s.live[j])
    BY <1>3, <2>1 DEF Punctual
  <2>3. \A j \in Jobs : Resumed(j, s.live[j]) \in Held
    BY <2>2, ResumedAhead
  <2>4. new \in [Jobs -> Held]
    BY <2>3
  <2>5. \A j \in Jobs : Alike(s.live[j], new[j]) /\ OnTime(j, new[j])
    BY <2>2, ResumedAlike
  <2> HIDE DEF new
  <2>6. Punctual(new)
    BY <2>5 DEF Punctual
  <2>7. w \in Saved(s, new) /\ s.ok = TRUE
    BY <1>3, <1>6 DEF new
  <2>8. Firm(w, asked)
    BY <1>3, <2>4, <2>5, <2>6, <2>7, AlikeSaved
  <2>9. w \in Stores
    BY <1>3, <2>4, <2>7, SavedFields
  <2>10. CASE Assign(w)
    BY <1>1, <2>8, <2>10, SettledAfter
  <2>11. CASE Assign([w EXCEPT !.dirty = FALSE])
    BY <1>4, <2>8, <2>9, <2>11
  <2> QED
    BY <1>6, <2>10, <2>11
<1> QED
  BY <1>2, <1>5, <1>6

LEMMA LiveSaved ==
  ASSUME NEW s \in Stores, s.ok = TRUE, NEW answers, Firm(s, answers),
         NEW w \in Saved(s, s.live)
  PROVE  w \in Stores /\ w.ok \in BOOLEAN /\ Firm(w, answers)
<1>1. s.live \in [Jobs -> Held] /\ Punctual(s.live)
  BY DEF Stores, Firm
<1>2. \A j \in Jobs : Alike(s.live[j], s.live[j])
  BY DEF Alike
<1>3. Firm(w, answers)
  BY <1>1, <1>2, AlikeSaved
<1> QED
  BY <1>1, <1>3, SavedFields

LEMMA ManualStartSettles ==
  ASSUME IInv, Settled, NEW j \in Jobs, ManualStarts(j)
  PROVE  Settled'
<1>1. now' = now /\ asked' = asked /\ asked' \in [Jobs -> Answers]
  BY DEF ManualStarts, Settled
<1>2. PICK d \in (IF dirty THEN Saved(Store, live) ELSE {Store}) :
        \E s \in (IF d.ok THEN Loaded(d) ELSE {d}) : Assign(s)
  BY DEF ManualStarts
<1>3. PICK s \in (IF d.ok THEN Loaded(d) ELSE {d}) : Assign(s)
  BY <1>2
<1>4. d \in Stores /\ d.ok \in BOOLEAN /\ Firm(d, asked)
  <2>1. Store \in Stores /\ Store.ok = TRUE /\ Firm(Store, asked) /\ Store.live = live
    BY StoreFirm
  <2>2. CASE d \in Saved(Store, live)
    <3>1. d \in Saved(Store, Store.live)
      BY <2>1, <2>2
    <3> QED
      BY <2>1, <3>1, LiveSaved
  <2>3. CASE d = Store
    BY <2>1, <2>3
  <2> QED
    BY <1>2, <2>2, <2>3
<1>5. Firm(s, asked')
  <2>1. CASE d.ok
    <3>1. d.ok = TRUE /\ s \in Loaded(d)
      BY <1>3, <1>4, <2>1
    <3> QED
      BY <1>1, <1>4, <3>1, FirmLoaded
  <2>2. CASE ~d.ok
    BY <1>1, <1>3, <1>4, <2>2
  <2> QED
    BY <2>1, <2>2
<1> QED
  BY <1>1, <1>3, <1>5, SettledAfter

(* A run that completes withdraws the answer for a job it switches off, if *)
(* there still is one, and of another it changes when it runs next.        *)
LEMMA CompletedFirm ==
  ASSUME IInv, Settled, NEW r \in Runners, running[r] # Nobody, AskedAfter(r),
         NEW new, new = Completed(live, r)
  PROVE  /\ new \in [Jobs -> Held] /\ Punctual(new) /\ Mergeable(new, log)
         /\ asked' \in [Jobs -> Answers]
         /\ \A ok : Told(asked, asked', new, log, ok)
         /\ \A j \in Jobs : asked'[j] = Unasked \/ asked'[j] = asked[j]
         /\ Agrees(new, log, asked')
<1> DEFINE j == running[r]
           job == live[j]
           after == AfterRun(j, job)
<1>1. /\ j \in Jobs /\ live \in [Jobs -> Held] /\ job \in Held /\ log \in Seq(Entry)
      /\ now \in Nat /\ KindOf[j] \in {"once", "delete", "every"}
  BY BoundAssumption, KindAssumption DEF IInv, Types
<1>2. new \in [Jobs -> Held] /\ \A k \in Jobs : k # j => new[k] = live[k]
  BY CompletedJobs
<1>3. /\ Punctual(live) /\ Mergeable(live, log) /\ Agrees(live, log, asked)
      /\ asked \in [Jobs -> Answers]
  BY StoreFirm DEF Firm, Settled
<1>4. /\ asked' \in [Jobs -> Answers]
      /\ \A k \in Jobs : k # j => asked'[k] = asked[k]
      /\ asked'[j] = Unasked \/ asked'[j] = asked[j]
      /\ (OneShot(j) /\ r \notin moved /\ asked[j] # Gone) => asked'[j] = Unasked
      /\ ~(OneShot(j) /\ r \notin moved /\ asked[j] # Gone) => asked'[j] = asked[j]
  <2>1. Unasked \in Answers
    BY DEF Answers
  <2> QED
    BY <1>1, <1>3, <2>1 DEF AskedAfter
<1>5. OnTime(j, new[j]) /\ (Unbound(job) => Unbound(new[j]))
      /\ (asked'[j] \notin {Unasked, Gone} => Alike(job, new[j]))
      /\ (job = NoJob => new[j] = NoJob)
  <2>1. CASE job = NoJob \/ r \in moved
    <3>1. new[j] = job
      BY <2>1 DEF Completed
    <3> QED
      BY <1>1, <1>3, <3>1 DEF Punctual, Alike
  <2>2. CASE ~(job = NoJob \/ r \in moved)
    <3>1. job \in JobRecord
      BY <1>1, <2>2 DEF Held
    <3>2. new[j] = after
      BY <1>1, <2>2 DEF Completed
    <3>3. CASE KindOf[j] = "once"
      <4>1. after = [job EXCEPT !.enabled = FALSE, !.next = NoTime]
        BY <3>3 DEF AfterRun
      <4> HIDE DEF after, job
      <4>2. after.enabled = FALSE /\ after.binding = job.binding
        BY <3>1, <4>1 DEF JobRecord
      <4>3. OneShot(j)
        BY <3>3 DEF OneShot
      <4> QED
        BY <1>4, <2>2, <3>2, <4>2, <4>3 DEF OnTime, Unbound
    <3>4. CASE KindOf[j] = "delete"
      <4>1. after = NoJob /\ OneShot(j)
        BY <3>4 DEF AfterRun, OneShot
      <4> QED
        BY <1>4, <2>2, <3>2, <4>1 DEF OnTime, Unbound
    <3>5. CASE KindOf[j] = "every"
      <4>1. after = [job EXCEPT !.next = now + 1]
        BY <3>5 DEF AfterRun
      <4>2. now + 1 \in Nat
        BY <1>1
      <4> HIDE DEF after, job
      <4>3. /\ after \in JobRecord /\ after.at = job.at /\ after.enabled = job.enabled
            /\ after.binding = job.binding
        BY <3>1, <4>1, <4>2 DEF JobRecord
      <4>4. after # NoJob
        BY <4>3, NoJobAssumption DEF JobRecord
      <4>5. ~OneShot(j)
        BY <3>5 DEF OneShot
      <4> QED
        BY <2>2, <3>2, <4>3, <4>4, <4>5 DEF OnTime, Unbound, Alike
    <3> QED
      BY <1>1, <3>3, <3>4, <3>5
  <2> QED
    BY <2>1, <2>2
<1> HIDE DEF job, after, j
<1>6. \A k \in Jobs : ~Names(k, log) => Fits(asked'[k], new[k])
  <2> SUFFICES ASSUME NEW k \in Jobs, ~Names(k, log)
               PROVE  Fits(asked'[k], new[k])
    OBVIOUS
  <2>1. Fits(asked[k], live[k])
    BY <1>3 DEF Agrees
  <2>2. CASE asked'[k] = Unasked
    BY <2>2 DEF Fits, Unasked
  <2>3. CASE k # j
    BY <1>2, <1>4, <2>1, <2>3
  <2>4. CASE k = j /\ asked'[k] \notin {Unasked, Gone}
    <3>1. Alike(live[k], new[k]) /\ asked'[k] = asked[k]
      BY <1>4, <1>5, <2>4 DEF job
    <3> QED
      BY <2>1, <3>1, AlikeFits
  <2>5. CASE k = j /\ asked'[k] = Gone /\ asked'[k] # Unasked
    <3>1. live[k] = NoJob
      BY <1>4, <2>1, <2>5 DEF Fits, Gone
    <3>2. new[k] = NoJob
      BY <1>5, <2>5, <3>1 DEF job
    <3> QED
      BY <2>5, <3>2 DEF Fits, Gone
  <2> QED
    BY <2>2, <2>3, <2>4, <2>5
<1>7. \A k \in Jobs : asked'[k] = Unasked \/ asked'[k] = asked[k]
  BY <1>4
<1>8. \A ok : Told(asked, asked', new, log, ok)
  BY <1>6, <1>7 DEF Told
<1>9. Punctual(new)
  BY <1>2, <1>3, <1>5 DEF Punctual
<1>10. Mergeable(new, log)
  <2> SUFFICES ASSUME NEW i \in DOMAIN log, log[i].copy # NoJob
               PROVE  Unbound(log[i].copy) /\ Unbound(new[log[i].job])
    BY DEF Mergeable
  <2>1. log[i] \in Entry
    BY <1>1, ElementOfSeq, LenProperties
  <2>2. log[i].job \in Jobs
    BY <2>1 DEF Entry
  <2>3. Unbound(log[i].copy) /\ Unbound(live[log[i].job])
    BY <1>3 DEF Mergeable
  <2> QED
    BY <1>2, <1>5, <2>2, <2>3 DEF job
<1> QED
  BY <1>2, <1>4, <1>6, <1>7, <1>8, <1>9, <1>10 DEF Agrees

LEMMA GoesOnSettles ==
  ASSUME IInv, now' = now, NEW s \in Stores, s.ok = TRUE, Firm(s, asked'),
         asked' \in [Jobs -> Answers], NEW candidates, TimerGoesOn(s, candidates)
  PROVE  Settled'
<1>1. Assign(s) \/ \E w \in Saved(s, s.live) : Assign(w)
  BY DEF TimerGoesOn
<1>2. CASE Assign(s)
  BY <1>2, SettledAfter
<1>3. CASE \E w \in Saved(s, s.live) : Assign(w)
  <2>1. PICK w \in Saved(s, s.live) : Assign(w)
    BY <1>3
  <2>2. Firm(w, asked')
    BY <2>1, LiveSaved
  <2> QED
    BY <2>1, <2>2, SettledAfter
<1> QED
  BY <1>1, <1>2, <1>3

LEMMA RunEndsSettles ==
  ASSUME IInv, Settled, TimerRunEnds
  PROVE  Settled'
<1> DEFINE new == Completed(live, "timer")
           s == [Store EXCEPT !.live = new]
<1>1. /\ running["timer"] # Nobody /\ now' = now /\ AskedAfter("timer")
      /\ TimerGoesOn(s, queue) /\ "timer" \in Runners /\ new = Completed(live, "timer")
  BY DEF TimerRunEnds, Runners
<1> HIDE DEF new
<1>2. /\ new \in [Jobs -> Held] /\ Punctual(new) /\ Mergeable(new, log)
      /\ asked' \in [Jobs -> Answers]
      /\ \A j \in Jobs : asked'[j] = Unasked \/ asked'[j] = asked[j]
      /\ Agrees(new, log, asked')
  BY <1>1, CompletedFirm
<1>3. /\ Store \in Stores /\ Store.ok = TRUE /\ Firm(Store, asked)
      /\ Store.disk = disk /\ Store.log = log
  BY StoreFirm
<1>4. s \in Stores
  BY <1>2, <1>3 DEF Stores
<1>5. s.live = new /\ s.disk = disk /\ s.log = log /\ s.ok = TRUE
  BY <1>3 DEF Stores
<1> HIDE DEF s
<1>6. \A job : Fits(Unasked, job)
  BY DEF Fits, Unasked
<1>7. Heard(log, asked') /\ Agrees(disk, log, asked')
  BY <1>2, <1>3, <1>6 DEF Firm, Heard, Agrees
<1>8. Firm(s, asked')
  BY <1>2, <1>3, <1>5, <1>7 DEF Firm
<1> QED
  BY <1>1, <1>2, <1>4, <1>5, <1>8, GoesOnSettles

LEMMA TimerSettles ==
  ASSUME IInv, Settled, TimerFires
  PROVE  Settled'
<1>1. now' = now /\ asked' = asked /\ asked' \in [Jobs -> Answers]
  BY DEF TimerFires, userVars, Settled
<1>2. \/ \E w \in Saved(Store, live) : Assign(w)
      \/ \E s \in Loaded(Store) : (s.ok /\ TimerGoesOn(s, Jobs)) \/ Assign(s)
  BY DEF TimerFires
<1>3. Store \in Stores /\ Store.ok = TRUE /\ Firm(Store, asked) /\ Store.live = live
  BY StoreFirm
<1>4. ASSUME NEW w \in Saved(Store, live), Assign(w)
      PROVE  Settled'
  <2>1. Firm(w, asked')
    BY <1>1, <1>3, <1>4, LiveSaved
  <2> QED
    BY <1>1, <1>4, <2>1, SettledAfter
<1>5. ASSUME NEW s \in Loaded(Store), (s.ok /\ TimerGoesOn(s, Jobs)) \/ Assign(s)
      PROVE  Settled'
  <2>1. s \in Stores /\ Firm(s, asked')
    BY <1>1, <1>3, FirmLoaded, LoadedInStores
  <2>2. CASE Assign(s)
    BY <1>1, <2>1, <2>2, SettledAfter
  <2>3. CASE s.ok /\ TimerGoesOn(s, Jobs)
    <3>1. s.ok = TRUE
      BY <2>1, <2>3 DEF Stores
    <3> QED
      BY <1>1, <2>1, <2>3, <3>1, GoesOnSettles
  <2> QED
    BY <1>5, <2>2, <2>3
<1> QED
  BY <1>2, <1>4, <1>5

LEMMA ManualEndSettles ==
  ASSUME IInv, Settled, ManualEnds
  PROVE  Settled'
<1> DEFINE new == Completed(live, "manual")
<1>1. /\ running["manual"] # Nobody /\ now' = now /\ AskedAfter("manual")
      /\ "manual" \in Runners /\ new = Completed(live, "manual")
  BY DEF ManualEnds, Runners
<1>2. PICK w \in Saved(Store, new) : Assign(w)
  BY DEF ManualEnds
<1> HIDE DEF new
<1>3. /\ new \in [Jobs -> Held] /\ Punctual(new) /\ Mergeable(new, log)
      /\ asked' \in [Jobs -> Answers]
      /\ \A ok : Told(asked, asked', new, log, ok)
  BY <1>1, CompletedFirm
<1>4. Store \in Stores /\ Store.ok = TRUE /\ Firm(Store, asked) /\ Store.log = log
  BY StoreFirm
<1>5. Told(asked, asked', new, Store.log, w.ok) /\ Mergeable(new, Store.log)
  BY <1>3, <1>4
<1>6. Firm(w, asked')
  BY <1>2, <1>3, <1>4, <1>5, FirmSaved
<1> QED
  BY <1>1, <1>2, <1>3, <1>6, SettledAfter

LEMMA InitSettled ==
  ASSUME Init
  PROVE  Settled
<1>1. /\ Store.live = [j \in Jobs |-> NoJob] /\ Store.disk = [j \in Jobs |-> NoJob]
      /\ Store.log = <<>> /\ asked = [j \in Jobs |-> Unasked]
  BY DEF Init, Store
<1>2. /\ Heard(Store.log, asked) /\ LogPunctual(Store.log)
      /\ Mergeable(Store.live, Store.log) /\ Mergeable(Store.disk, Store.log)
  BY <1>1, EmptyLogSaysNothing
<1>3. /\ Agrees(Store.live, Store.log, asked) /\ Agrees(Store.disk, Store.log, asked)
  BY <1>1 DEF Agrees, Fits, Unasked
<1>4. Punctual(Store.live) /\ Punctual(Store.disk)
  BY <1>1 DEF Punctual, OnTime
<1>5. asked \in [Jobs -> Answers]
  BY <1>1 DEF Answers
<1> QED
  BY <1>2, <1>3, <1>4, <1>5 DEF Settled, Firm

LEMMA NextSettles ==
  ASSUME IInv, Settled, [Next]_vars
  PROVE  Settled'
<1>1. CASE Start \/ Crash \/ Tick \/ ListJobs
  BY <1>1, StartSettles, CrashSettles, TickSettles, ListSettles
<1>2. CASE Runs
  BY <1>2, TimerSettles, RunEndsSettles, ManualEndSettles DEF Runs
<1>3. ASSUME NEW j \in Jobs,
             ManualStarts(j) \/ RemoveJob(j) \/ ChangeBinding(j) \/ CliRemove(j)
      PROVE  Settled'
  BY <1>3, ManualStartSettles, RemoveSettles, BindingSettles, CliRemoveSettles
<1>4. ASSUME NEW j \in Jobs, NEW enabled \in BOOLEAN, EnableJob(j, enabled)
      PROVE  Settled'
  BY <1>4, EnableSettles
<1>5. ASSUME NEW j \in Jobs, NEW at \in Times,
             UpdateJob(j, at) \/ AddJob(j, at) \/ CliAdd(j, at)
      PROVE  Settled'
  BY <1>5, UpdateSettles, AddSettles, CliAddSettles
<1>6. CASE UNCHANGED vars
  <2>1. now' = now /\ live' = live /\ disk' = disk /\ log' = log /\ asked' = asked
    BY <1>6 DEF vars, storeVars, userVars
  <2>2. Assign(Store)
    BY <1>6 DEF Assign, Store, vars, storeVars
  <2>3. Firm(Store, asked') /\ asked' \in [Jobs -> Answers]
    BY <2>1 DEF Settled
  <2> QED
    BY <2>1, <2>2, <2>3, SettledAfter
<1> QED
  BY <1>1, <1>2, <1>3, <1>4, <1>5, <1>6 DEF Next

(* What is settled shows in what a restart now would find.                 *)
LEMMA SettledHolds ==
  ASSUME IInv, Settled
  PROVE  EditsHold
<1> DEFINE base == IF up THEN live ELSE disk
<1>1. /\ live \in [Jobs -> Held] /\ disk \in [Jobs -> Held] /\ log \in Seq(Entry)
  BY DEF IInv, Types
<1>2. /\ Heard(log, asked) /\ LogPunctual(log)
      /\ Agrees(base, log, asked) /\ Punctual(base) /\ Mergeable(base, log)
      /\ base \in [Jobs -> Held]
  BY <1>1, StoreFirm DEF Firm
<1>3. Effective = Merge(base, log)
  BY DEF Effective
<1> HIDE DEF base
<1>4. \A j \in Jobs : Fits(asked[j], Effective[j]) /\ OnTime(j, Effective[j])
  <2> SUFFICES ASSUME NEW j \in Jobs
               PROVE  Fits(asked[j], Effective[j]) /\ OnTime(j, Effective[j])
    OBVIOUS
  <2>1. \/ ~Names(j, log) /\ Effective[j] = base[j]
        \/ \E i \in DOMAIN log : Last(j, log, i) /\ Effective[j] = log[i].copy
    BY <1>1, <1>2, <1>3, MergeLast
  <2>2. CASE ~Names(j, log) /\ Effective[j] = base[j]
    BY <1>2, <2>2 DEF Agrees, Punctual
  <2>3. CASE \E i \in DOMAIN log : Last(j, log, i) /\ Effective[j] = log[i].copy
    BY <1>2, <2>3 DEF Heard, LogPunctual, Last
  <2> QED
    BY <2>1, <2>2, <2>3
<1> QED
  BY <1>4 DEF EditsHold, Fits, OnTime

(* An edit that was answered is what a restart now would find: no run that *)
(* completes, poll, crash, failed save or merge of the log of the other    *)
(* process undoes it (add_job, remove_job, enable_job, update_job,         *)
(* change_binding and _execute_job of cron/service.py).                    *)
THEOREM EditsStand == Spec => []EditsHold
<1>1. Init => Settled
  BY InitSettled
<1>2. IInv /\ Settled /\ [Next]_vars => Settled'
  BY NextSettles
<1>3. IInv /\ Settled => EditsHold
  BY SettledHolds
<1> QED
  BY <1>1, <1>2, <1>3, Invariance, PTL DEF Spec

=============================================================================
