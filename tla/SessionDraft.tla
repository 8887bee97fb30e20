---------------------------- MODULE SessionDraft ----------------------------
(***************************************************************************)
(* What the operations of SessionState do to one session                   *)
(* (nanobot/session/state.py, recovery.py and the turn code of             *)
(* nanobot/agent/loop.py that drives them).                                *)
(*                                                                         *)
(* A turn works on a draft: a copy of the session with the baseline it     *)
(* was copied from.  While it runs, deliveries, follow-ups, metadata       *)
(* commands, a reset, a deletion or another process change the committed   *)
(* row; the owner merges the draft into the row three ways.  The owner     *)
(* also keeps a published snapshot of the row, whose messages it reuses    *)
(* when generation and revision still match.                               *)
(*                                                                         *)
(* Each action is one admitted operation (SessionOps orders them); the     *)
(* per-session lock of the agent loop admits one turn or one compaction.   *)
(* The provider state, the timestamps and the policy are not modelled.     *)
(***************************************************************************)
EXTENDS Integers, Sequences, FiniteSets, FiniteSetsExt, SequencesExt

CONSTANTS Turns,       \* turns that may run
          Followups,   \* user inputs sent while a turn runs
          Deliveries,  \* messages delivered from outside a turn
          Nobody,      \* no turn, no follow-up
          Compactor,   \* the holder of the lock during a compaction
          MaxEvents    \* bound: commands, restarts, stops and the like

ASSUME NamesAssumption ==
  /\ Nobody \notin Turns \cup Followups
  /\ Compactor \notin Turns \cup {Nobody}
  /\ \A f \in Followups : f \notin Turns \cup Deliveries \cup Nat
ASSUME BoundsAssumption == MaxEvents \in Nat

VARIABLES
  row,       \* the committed session; generation 0 when there is none
  snap,      \* _snapshots[key]; generation 0 when there is none
  retired,   \* key \in _retired
  gens,      \* generations issued so far
  holder,    \* who holds the session's lock
  status,    \* status[c]: how far turn c has come
  draft,     \* draft[c]: the draft turn c owns
  source,    \* the draft a running compaction summarises
  stop,      \* a stop request: the turn it is for, the journal it read
  inbox,     \* follow-ups accepted and not yet taken by a turn
  journaled, \* journaled[f]: generation follow-up f was journaled in, or 0
  acked,     \* follow-ups acknowledged without a row of their own
  delivered, \* deliveries recorded or refused
  events     \* commands, restarts, stops and the like so far

ownerVars == <<row, snap, retired, gens>>
turnVars == <<holder, status, draft, source, stop>>
inputVars == <<inbox, journaled, acked>>
countVars == <<delivered, events>>
vars == <<ownerVars, turnVars, inputVars, countVars>>

NoRow == [gen |-> 0, rev |-> 0, msgs |-> <<>>, journal |-> {},
          pending |-> FALSE, ckpt |-> Nobody, title |-> 0, arch |-> 0]

Msg(what, by, gen) == [what |-> what, by |-> by, gen |-> gen]
FromUser == {"in", "row", "mark"}   \* records whose role is user

(* Session(key): a new generation, saved at revision 1 *)
Fresh(gen) == [NoRow EXCEPT !.gen = gen, !.rev = 1]

(* a draft does not use the revision of its baseline *)
DraftOf(s) == [base |-> [s EXCEPT !.rev = 0], msgs |-> s.msgs, pending |-> s.pending,
               ckpt |-> s.ckpt, title |-> s.title, arch |-> s.arch,
               consumed |-> {}, run |-> <<>>]

(* Event: one of the steps whose number MaxEvents bounds *)
Event == events < MaxEvents /\ events' = events + 1

NoDraft == DraftOf(NoRow)

Init ==
  /\ row = NoRow /\ snap = NoRow /\ retired = FALSE /\ gens = 0
  /\ holder = Nobody
  /\ status = [c \in Turns |-> "idle"]
  /\ draft = [c \in Turns |-> NoDraft]
  /\ source = NoRow
  /\ stop = [turn |-> Nobody, ids |-> {}]
  /\ inbox = {} /\ acked = {}
  /\ journaled = [f \in Followups |-> 0]
  /\ delivered = {} /\ events = 0

-----------------------------------------------------------------------------
(* The owner: loading, saving and publishing.                              *)

(* _load: the messages of the snapshot when it is of this very version *)
Loaded ==
  IF row.gen = snap.gen /\ row.rev = snap.rev
    THEN [row EXCEPT !.msgs = snap.msgs] ELSE row

(* _changed_start: length of the common prefix *)
ChangedStart(before, after) ==
  Max({n \in 0 .. Len(before) :
         n <= Len(after) /\ SubSeq(before, 1, n) = SubSeq(after, 1, n)})

(* save writes the rows from start on; the table keeps those before it *)
Saved(s, start) ==
  [s EXCEPT !.rev = @ + 1,
            !.msgs = SubSeq(row.msgs, 1, start) \o SubSeq(s.msgs, start + 1, Len(s.msgs))]

(* _commit and _publish of a session changed after it was loaded *)
Commit(s) ==
  /\ row' = Saved(s, ChangedStart(Loaded.msgs, s.msgs))
  /\ snap' = [s EXCEPT !.rev = @ + 1]

(* mutant: the snapshot takes the new header whatever it was taken at *)
PublishedAnyway(s) ==
  IF snap.gen # s.gen THEN NoRow ELSE [s EXCEPT !.msgs = snap.msgs]

(* _publish of a header: the snapshot must be the version just before *)
PublishedHeader(s) ==
  IF snap.gen # s.gen \/ snap.rev + 1 # s.rev
    THEN NoRow ELSE [s EXCEPT !.msgs = snap.msgs]

(* replace_metadata and save_runtime_checkpoint leave the messages alone *)
CommitHeader(s) ==
  /\ row' = [s EXCEPT !.rev = @ + 1]
  /\ snap' = PublishedHeader([s EXCEPT !.rev = @ + 1])

(* A session that was not there: saved whole, then published. *)
Create(s) ==
  /\ gens' = gens + 1
  /\ row' = s /\ snap' = s

(* get: what the caller receives, creating the session when it is missing *)
Got == IF row.gen = 0 THEN Fresh(gens + 1) ELSE Loaded
Get ==
  IF row.gen = 0
    THEN Create(Got) /\ retired' = FALSE
    ELSE snap' = Got /\ UNCHANGED <<row, retired, gens>>

-----------------------------------------------------------------------------
(* _apply_turn: the draft merged into the current row.                     *)

Clash(base, mine, theirs) == mine # base /\ theirs # base /\ theirs # mine

(* mutant: the draft's value always wins *)
MergeMine(base, mine, theirs) == mine

Merge(base, mine, theirs) == IF mine = base THEN theirs ELSE mine

(* current: the row, or the draft's own generation when there is no row *)
Current(d) == IF row.gen = 0 THEN [NoRow EXCEPT !.gen = d.base.gen] ELSE Loaded

BothExtend(d) ==
  IsPrefix(d.base.msgs, d.msgs) /\ IsPrefix(d.base.msgs, Current(d).msgs)

FieldsAgree(d) ==
  /\ ~Clash(d.base.pending, d.pending, Current(d).pending)
  /\ ~Clash(d.base.ckpt, d.ckpt, Current(d).ckpt)
  /\ ~Clash(d.base.title, d.title, Current(d).title)
  /\ ~Clash(d.base.arch, d.arch, Current(d).arch)

(* mutant: only the row is compared with the baseline *)
HistoryAgreesIfRowExtends(d) ==
  d.msgs = d.base.msgs \/ IsPrefix(d.base.msgs, Current(d).msgs)

HistoryAgrees(d) ==
  d.msgs = d.base.msgs \/ Current(d).msgs = d.base.msgs \/ BothExtend(d)

(* mutant: no check that the row is still there *)
MergeableUnlessReset(d) ==
  Current(d).gen = d.base.gen /\ FieldsAgree(d) /\ HistoryAgrees(d)

Mergeable(d) ==
  /\ row.gen # 0
  /\ Current(d).gen = d.base.gen
  /\ FieldsAgree(d)
  /\ HistoryAgrees(d)

(* mutant: the draft's messages replace what was committed meanwhile *)
MergedMessagesOfDraft(d) ==
  IF d.msgs = d.base.msgs THEN Current(d).msgs ELSE d.msgs

MergedMessages(d) ==
  IF d.msgs = d.base.msgs THEN Current(d).msgs
  ELSE IF Current(d).msgs = d.base.msgs THEN d.msgs
  ELSE Current(d).msgs \o SubSeq(d.msgs, Len(d.base.msgs) + 1, Len(d.msgs))

(* mutant: the journal is taken from the draft's baseline *)
JournalOfDraft(d) == d.base.journal \ d.consumed

MergedJournal(d) == Current(d).journal \ d.consumed

Merged(d) ==
  [Current(d) EXCEPT
     !.msgs = MergedMessages(d),
     !.journal = MergedJournal(d),
     !.pending = Merge(d.base.pending, d.pending, @),
     !.ckpt = Merge(d.base.ckpt, d.ckpt, @),
     !.title = Merge(d.base.title, d.title, @),
     !.arch = Merge(d.base.arch, d.arch, @)]

(* The draft the caller holds after its changes were committed *)
Refreshed(s, d) == [DraftOf([s EXCEPT !.rev = @ + 1]) EXCEPT !.run = d.run]

(* _submit_draft of d by turn c: committed, or refused with the row as it is *)
SubmitDraft(c, d, next) ==
  IF Mergeable(d)
    THEN /\ Commit(Merged(d))
         /\ draft' = [draft EXCEPT ![c] = Refreshed(Merged(d), d)]
         /\ status' = [status EXCEPT ![c] = next]
         /\ UNCHANGED <<retired, gens, holder>>
    ELSE /\ status' = [status EXCEPT ![c] = "refused"]
         /\ holder' = Nobody
         /\ UNCHANGED <<ownerVars, draft>>

-----------------------------------------------------------------------------
(* A turn.                                                                 *)

SetDraft(c, d) == draft' = [draft EXCEPT ![c] = d]
SetStatus(c, s) == status' = [status EXCEPT ![c] = s]

(* _process_message takes the lock's session: get *)
Open(c) ==
  /\ holder = Nobody /\ status[c] = "idle"
  /\ Get
  /\ holder' = c
  /\ SetStatus(c, "open")
  /\ SetDraft(c, DraftOf(Got))
  /\ UNCHANGED <<source, stop, inputVars, countVars>>

(* restore_runtime_checkpoint: the checkpointed records, unless history
   already ends with them *)
Salvaged(d) ==
  LET part == Msg("part", d.ckpt, d.base.gen)
      there == d.msgs # <<>> /\ Last(d.msgs) = part
  IN  [d EXCEPT !.msgs = IF there THEN @ ELSE Append(@, part),
                !.ckpt = Nobody, !.pending = FALSE]

(* restore_pending_interruption by turn c *)
Interrupted(d, c) ==
  LET open == d.msgs # <<>> /\ Last(d.msgs).what \in FromUser
  IN  [d EXCEPT !.msgs = IF open THEN Append(@, Msg("intr", c, d.base.gen)) ELSE @,
                !.pending = FALSE]

(* _restore_turn_state: what an earlier turn left is closed first *)
Restore(c) ==
  LET d == draft[c] IN
  /\ status[c] = "open"
  /\ \/ d.ckpt # Nobody /\ SubmitDraft(c, Salvaged(d), "open")
     \/ d.ckpt = Nobody /\ d.pending /\ SubmitDraft(c, Interrupted(d, c), "open")
  /\ UNCHANGED <<source, stop, inputVars, countVars>>

(* _persist_user_message_early: the input, or a recovered follow-up f *)
Prepare(c, f) ==
  LET d == draft[c]
      input == IF f = Nobody THEN Msg("in", c, d.base.gen) ELSE Msg("row", f, d.base.gen)
      d2 == [d EXCEPT !.msgs = Append(@, input), !.pending = TRUE,
                      !.consumed = @ \cup ({f} \ {Nobody})]
  IN
  /\ status[c] = "open" /\ d.ckpt = Nobody /\ ~d.pending
  /\ f \in inbox \cup {Nobody}
  /\ SubmitDraft(c, d2, "prepared")
  /\ inbox' = inbox \ {f}
  /\ UNCHANGED <<source, stop, journaled, acked, countVars>>

(* The runner takes a follow-up into the running turn: its record is local
   until the turn is saved. *)
Inject(c, f) ==
  /\ status[c] = "prepared" /\ f \in inbox
  /\ inbox' = inbox \ {f}
  /\ SetDraft(c, [draft[c] EXCEPT
                    !.run = Append(@, Msg("row", f, draft[c].base.gen))])
  /\ UNCHANGED <<ownerVars, holder, status, source, stop, journaled, acked, countVars>>

(* mutant: the draft and its baseline are not updated *)
DraftCheckpointForgotten(d, c) == [d EXCEPT !.ckpt = Nobody]

(* checkpoint_view leaves the checkpoint in the draft and in its baseline *)
DraftCheckpointed(d, c) == [d EXCEPT !.ckpt = c, !.base.ckpt = c]

(* checkpoint_view: the row takes the checkpoint and nothing else.  A caller
   cancelled while the operation drains (cut) does not update its draft. *)
Checkpoint(c, cut) ==
  /\ status[c] = "prepared" /\ draft[c].ckpt = Nobody
  /\ row.gen = draft[c].base.gen
  /\ cut => stop.turn = c
  /\ CommitHeader([row EXCEPT !.ckpt = c])
  /\ IF cut THEN SetStatus(c, "cancelled") /\ SetDraft(c, NoDraft)
            ELSE SetDraft(c, DraftCheckpointed(draft[c], c)) /\ UNCHANGED status
  /\ UNCHANGED <<retired, gens, holder, source, stop, inputVars, countVars>>

CheckpointRefused(c) ==
  /\ status[c] = "prepared"
  /\ row.gen # draft[c].base.gen
  /\ SetStatus(c, "refused")
  /\ holder' = Nobody
  /\ UNCHANGED <<ownerVars, draft, source, stop, inputVars, countVars>>

(* where a summary made during a turn ends, if there is one *)
Places == {"none", "before_input", "within"}

(* The marker of a summary the turn made, put where the summary ends: before
   the turn's input, or after the first n of the records being saved. *)
WithSummary(d, rows, place, n) ==
  LET at == IF place = "before_input" THEN Len(d.msgs) - 1 ELSE Len(d.msgs) + n
      all == d.msgs \o rows
  IN  IF place = "none" THEN [d EXCEPT !.msgs = all]
      ELSE [d EXCEPT !.arch = at,
             !.msgs = InsertAt(all, at + 1, Msg("mark", at, d.base.gen))]

(* finish_turn: markers popped, transcript committed *)
Finished(d) == [d EXCEPT !.pending = FALSE, !.ckpt = Nobody]

(* _persist_turn: _save_turn, then finish_turn *)
Finish(c, place, n) ==
  LET d == draft[c]
      rows == Append(d.run, Msg("out", c, d.base.gen))
      taken == {f \in Followups : \E i \in DOMAIN d.run : d.run[i].by = f}
      saved == [WithSummary(d, rows, place, n) EXCEPT
                  !.consumed = @ \cup taken, !.run = <<>>]
  IN
  /\ status[c] = "prepared"
  /\ place \in Places
  /\ n \in 0 .. (IF place = "within" THEN Len(rows) ELSE 0)
  /\ SubmitDraft(c, Finished(saved), "saved")
  /\ UNCHANGED <<source, stop, inputVars, countVars>>

Release(c) ==
  /\ status[c] = "saved"
  /\ SetStatus(c, "done") /\ holder' = Nobody
  /\ SetDraft(c, NoDraft)
  /\ UNCHANGED <<ownerVars, source, stop, inputVars, countVars>>

-----------------------------------------------------------------------------
(* Stopping a turn: _cancel_active_tasks and the handler in _dispatch_one. *)

StopRead(c) ==
  /\ Event
  /\ stop.turn = Nobody /\ holder = c
  /\ stop' = [turn |-> c, ids |-> row.journal]
  /\ UNCHANGED <<ownerVars, holder, status, draft, source, inputVars, delivered>>

Cancel(c) ==
  /\ stop.turn = c
  /\ status[c] \in {"open", "prepared", "saved"}
  /\ SetStatus(c, "cancelled")
  /\ SetDraft(c, NoDraft)
  /\ UNCHANGED <<ownerVars, holder, source, stop, inputVars, countVars>>

(* the handler of the cancellation reads the session afresh ... *)
Reopen(c) ==
  /\ status[c] = "cancelled"
  /\ Get
  /\ SetStatus(c, "salvaging")
  /\ SetDraft(c, DraftOf(Got))
  /\ UNCHANGED <<holder, source, stop, inputVars, countVars>>

(* ... and commits what the checkpoint holds *)
Salvage(c) ==
  LET d == draft[c]
      kept == IF d.ckpt = Nobody THEN d ELSE Salvaged(d)
  IN
  /\ status[c] = "salvaging"
  /\ IF Mergeable(Finished(kept))
       THEN /\ Commit(Merged(Finished(kept)))
            /\ SetStatus(c, "stopped") /\ SetDraft(c, NoDraft)
       ELSE /\ SetStatus(c, "refused")
            /\ UNCHANGED <<row, snap, draft>>
  /\ holder' = Nobody
  /\ UNCHANGED <<retired, gens, source, stop, inputVars, countVars>>

(* acknowledge_followups of what StopRead found in the journal; the inbox of
   a cancelled worker is dropped *)
StopAck ==
  /\ stop.turn # Nobody
  /\ status[stop.turn] \in {"stopped", "refused", "done"}
  /\ stop' = [turn |-> Nobody, ids |-> {}]
  /\ IF stop.ids # {} /\ row.gen # 0
       THEN CommitHeader([row EXCEPT !.journal = @ \ stop.ids])
            /\ acked' = acked \cup stop.ids
       ELSE UNCHANGED <<row, snap, acked>>
  /\ inbox' = IF status[stop.turn] = "done" THEN inbox ELSE {}
  /\ UNCHANGED <<retired, gens, holder, status, draft, source, journaled, countVars>>

(* The process ends, by a crash or with inflight turns preserved, and starts
   again: recovery replays the journal. *)
Restart ==
  /\ Event
  /\ draft' = [c \in Turns |-> IF c = holder THEN NoDraft ELSE draft[c]]
  /\ source' = NoRow
  /\ status' = [c \in Turns |->
                  IF c = holder THEN "dead" ELSE status[c]]
  /\ holder' = Nobody
  /\ stop' = [turn |-> Nobody, ids |-> {}]
  /\ snap' = NoRow /\ retired' = FALSE
  /\ inbox' = row.journal
  /\ UNCHANGED <<row, gens, journaled, acked, delivered>>

-----------------------------------------------------------------------------
(* What others do to the session meanwhile.                                *)

(* queue_followup: refused on a deleted session, otherwise journaled before
   the inbox gets it *)
QueueFollowup(f) ==
  /\ journaled[f] = 0
  /\ \/ /\ row.gen = 0 /\ ~retired
        /\ Create([Fresh(gens + 1) EXCEPT !.journal = {f}])
     \/ /\ row.gen # 0
        /\ CommitHeader([row EXCEPT !.journal = @ \cup {f}])
        /\ UNCHANGED gens
  /\ journaled' = [journaled EXCEPT ![f] = row'.gen]
  /\ inbox' = inbox \cup {f}
  /\ UNCHANGED <<retired, turnVars, acked, countVars>>

(* mutant: the generation a delivery belongs to is not compared *)
AcceptsAnyDelivery(gen) == row.gen # 0

AcceptsDelivery(gen) == row.gen = gen

(* record_delivery of d, which belongs to generation gen; a delivery of a
   replaced generation is refused *)
RecordDelivery(d, gen) ==
  /\ d \notin delivered
  /\ delivered' = delivered \cup {d}
  /\ IF AcceptsDelivery(gen)
       THEN Commit([Loaded EXCEPT !.msgs = Append(@, Msg("delivery", d, gen))])
       ELSE UNCHANGED <<row, snap>>
  /\ UNCHANGED <<retired, gens, turnVars, inputVars, events>>

(* mutate_metadata and update_metadata *)
SetTitle ==
  /\ Event /\ row.gen # 0
  /\ CommitHeader([row EXCEPT !.title = @ + 1])
  /\ UNCHANGED <<retired, gens, turnVars, inputVars, delivered>>

ResetRow == [Fresh(gens + 1) EXCEPT !.title = row.title]

(* reset keeps the metadata that is not turn state *)
Reset ==
  /\ Event /\ row.gen # 0
  /\ Create(ResetRow)
  /\ retired' = FALSE
  /\ UNCHANGED <<turnVars, inputVars, delivered>>

Delete ==
  /\ Event /\ row.gen # 0
  /\ row' = NoRow /\ snap' = NoRow /\ retired' = TRUE
  /\ UNCHANGED <<gens, turnVars, inputVars, delivered>>

(* The snapshot of this key is pushed out by those of other keys. *)
Evict ==
  /\ Event /\ snap # NoRow
  /\ snap' = NoRow
  /\ UNCHANGED <<row, retired, gens, turnVars, inputVars, delivered>>

(* Another process on the same database: its writes go through the row, and
   this process keeps its snapshot. *)
ForeignDelivery(d) ==
  /\ Event /\ row.gen # 0 /\ d \notin delivered
  /\ delivered' = delivered \cup {d}
  /\ row' = [row EXCEPT !.rev = @ + 1, !.msgs = Append(@, Msg("delivery", d, row.gen))]
  /\ UNCHANGED <<snap, retired, gens, turnVars, inputVars>>

ForeignReset ==
  /\ Event /\ row.gen # 0
  /\ gens' = gens + 1
  /\ row' = ResetRow
  /\ UNCHANGED <<snap, retired, turnVars, inputVars, delivered>>

-----------------------------------------------------------------------------
(* compact_idle_session, under the session's lock.                         *)

Unarchived(s) == \E i \in s.arch + 1 .. Len(s.msgs) : s.msgs[i].what # "mark"

(* discard, which retires the key, then get *)
CompactStart ==
  /\ Event /\ holder = Nobody
  /\ row.gen # 0
  /\ snap' = row /\ retired' = TRUE
  /\ IF Unarchived(row) THEN holder' = Compactor /\ source' = row
                        ELSE UNCHANGED <<holder, source>>
  /\ UNCHANGED <<row, gens, status, draft, stop, inputVars, delivered>>

SourceStillThere ==
  row.gen = source.gen /\ IsPrefix(source.msgs, Loaded.msgs)

(* commit_summary, which a replaced history refuses *)
CompactCommit ==
  LET at == Len(source.msgs) IN
  /\ holder = Compactor
  /\ holder' = Nobody /\ source' = NoRow
  /\ IF SourceStillThere
       THEN Commit([Loaded EXCEPT !.arch = at,
                      !.msgs = InsertAt(@, at + 1, Msg("mark", at, row.gen))])
       ELSE UNCHANGED <<row, snap>>
  /\ UNCHANGED <<retired, gens, status, draft, stop, inputVars, countVars>>

(* the summary could not be made *)
CompactFail ==
  /\ holder = Compactor
  /\ holder' = Nobody /\ source' = NoRow
  /\ UNCHANGED <<ownerVars, status, draft, stop, inputVars, countVars>>

-----------------------------------------------------------------------------
Turn(c) ==
  \/ Open(c) \/ Restore(c) \/ CheckpointRefused(c) \/ Release(c)
  \/ \E f \in Followups \cup {Nobody} : Prepare(c, f)
  \/ \E f \in Followups : Inject(c, f)
  \/ \E cut \in BOOLEAN : Checkpoint(c, cut)
  \/ \E place \in Places, n \in 0 .. Cardinality(Followups) + 1 : Finish(c, place, n)

Stopping ==
  \/ \E c \in Turns : StopRead(c) \/ Cancel(c) \/ Reopen(c) \/ Salvage(c)
  \/ StopAck

Others ==
  \/ \E f \in Followups : QueueFollowup(f)
  \/ \E d \in Deliveries : ForeignDelivery(d)
  \/ \E d \in Deliveries, gen \in 1 .. gens : RecordDelivery(d, gen)
  \/ SetTitle \/ Reset \/ Delete \/ Evict \/ ForeignReset \/ Restart

Compaction == CompactStart \/ CompactCommit \/ CompactFail

Next == (\E c \in Turns : Turn(c)) \/ Stopping \/ Others \/ Compaction

Spec == Init /\ [][Next]_vars

-----------------------------------------------------------------------------
(* get_history: where replay begins.  The archived prefix is skipped, then
   what precedes the first record of the user, except a delivery. *)
ReplayStart(s) ==
  LET users == {i \in s.arch + 1 .. Len(s.msgs) : s.msgs[i].what \in FromUser}
      first == Min(users)
  IN  IF users = {} THEN s.arch + 1
      ELSE IF first > s.arch + 1 /\ s.msgs[first - 1].what = "delivery"
        THEN first - 1 ELSE first

NewestMark(s) ==
  Max({0} \cup {i \in DOMAIN s.msgs : s.msgs[i].what = "mark"})

-----------------------------------------------------------------------------
SessionType(s) ==
  /\ s.gen \in 0 .. gens /\ s.rev \in Nat /\ s.title \in 0 .. MaxEvents
  /\ s.journal \subseteq Followups /\ s.pending \in BOOLEAN
  /\ s.ckpt \in Turns \cup {Nobody}
  /\ s.arch \in 0 .. Len(s.msgs)

(* The variables have their types; an archive boundary lies inside the
   history. *)
TypeOK ==
  /\ SessionType(row) /\ SessionType(snap) /\ SessionType(source)
  /\ retired \in BOOLEAN /\ gens \in Nat
  /\ holder \in Turns \cup {Nobody, Compactor}
  /\ stop.turn \in Turns \cup {Nobody} /\ stop.ids \subseteq Followups
  /\ inbox \subseteq Followups /\ acked \subseteq Followups
  /\ delivered \subseteq Deliveries

SameLife == row.gen # 0 /\ row'.gen = row.gen

(* No record is in new twice, and every record of old is in new, behind all
   that was before it. *)
OnceInOrder(old, new) ==
  /\ \A k, l \in DOMAIN new : k < l => new[k] # new[l]
  /\ \A j \in DOMAIN old : \E l \in DOMAIN new :
       /\ old[j] = new[l]
       /\ \A i \in 1 .. j - 1 : \E k \in 1 .. l - 1 : old[i] = new[k]

(* No committed record is lost, doubled or moved behind a later one while
   its generation lives, and no metadata command is undone, whoever commits:
   a turn that was overtaken by a delivery or a new title, a restored
   checkpoint, a summary (_apply_turn, save). *)
HistoryKept ==
  [][SameLife => OnceInOrder(row.msgs, row'.msgs) /\ row.title <= row'.title]_vars

(* A record belongs to the generation it is stored under: what a turn or a
   delivery of a reset or deleted session commits never reaches the next. *)
GenerationPure == \A i \in DOMAIN row.msgs : row.msgs[i].gen = row.gen

(* A generation that ended never comes back, and generations only grow: no
   late turn recreates a session that was deleted under it. *)
EndedStaysEnded ==
  [][row'.gen # row.gen => row'.gen = 0 \/ row'.gen = gens + 1]_vars

(* A snapshot of the row's own generation and revision is the row: what
   _load reuses and what save leaves in the table are the same records. *)
CacheCoherent == snap.gen = row.gen /\ snap.rev = row.rev => snap = row

HasRow(f) == \E i \in DOMAIN row.msgs : row.msgs[i].by = f

(* A follow-up journaled in the living generation is in the journal until its
   record is committed or a stop gives it up, and never in both. *)
JournalOrRow ==
  \A f \in Followups : row.gen # 0 /\ journaled[f] = row.gen =>
    /\ ~(f \in row.journal /\ HasRow(f))
    /\ f \in row.journal \/ HasRow(f) \/ f \in acked

(* A turn that was saved or stopped leaves no checkpoint of its own behind
   for a later turn to restore a second time. *)
NoStaleCheckpoint ==
  \A c \in Turns : status[c] \in {"saved", "done", "stopped"} => row.ckpt # c

Replaced(mark) ==
  /\ ReplayStart(row) <= mark
  /\ \A i \in ReplayStart(row) .. mark - 1 : row.msgs[i].what = "delivery"

(* The summary replaces what it summarises: replay begins at or before the
   marker of the last summary, and of the records before that marker only a
   delivery the turn never saw is replayed (get_history).  It holds for a
   marker that was committed where its draft had it: an idle compaction, a
   summary that ends before its turn's input, and one among the records of a
   turn that no delivery overtook (commit_summary, _apply_turn).  A delivery
   that overtakes a turn shifts its records and not the boundary. *)
SummaryInPlace ==
  LET mark == NewestMark(row) IN
  /\ row.arch > 0 => mark > 0
  /\ mark > 0 /\ row.msgs[mark].by = mark - 1 => Replaced(mark)
=============================================================================
