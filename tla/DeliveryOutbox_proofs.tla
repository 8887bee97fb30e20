------------------------ MODULE DeliveryOutbox_proofs ------------------------
(***************************************************************************)
(* The status table is truthful, maintenance is quiet, the queue keeps the *)
(* promise of ResultMailbox and ordinary messages stay in order, for any   *)
(* number of chats, channels, messages, slots and disturbances.            *)
(***************************************************************************)
EXTENDS DeliveryOutbox, SequenceTheorems, FiniteSetTheorems, WellFoundedInduction, TLAPS

(* What a publication fixes: messages are numbered, and a row exists for   *)
(* every result and for nothing else.                                      *)
Numbered ==
  \A m \in Messages :
    /\ m <= published <=> kind[m] # "none"
    /\ kind[m] # "none" => to[m] \in Chats
    /\ kind[m] = "none" => got[m] = 0
    /\ row[m] # "none" <=> kind[m] = "result"

(* What the dispatcher and the tasks carry has been published.             *)
Carried ==
  /\ \A i \in DOMAIN bus : kind[bus[i]] # "none"
  /\ hand # Nobody => kind[hand] # "none"
  /\ \A m \in Tasks : kind[m] # "none"
  /\ \A m \in todo : kind[m] = "result"
  /\ pc \in {"held", "slot"} => hand # Nobody
  /\ pc = "slot" => hand \notin Tasks
  /\ pc = "recover" => recovering

OffIsIdle == \A m \in Messages : m \in Tasks => channel[Channel(m)] # "off"

(* A result in the hands of the adapter has been claimed.                  *)
Claimed ==
  \A m \in Messages :
    kind[m] = "result" /\ task[m] \in InAdapter =>
      /\ row[m] = "sending" /\ swept
      /\ got[m] = IF task[m] = "adapter" THEN 0 ELSE 1

(* A claimed row in nobody's hands: the outcome could not be recorded.     *)
Stuck ==
  \A m \in Messages :
    row[m] = "sending" /\ swept /\ task[m] \notin InAdapter => errors > 0

(* A claimed or delivered result has no open predecessor in its chat.      *)
Foremost ==
  \A m \in Messages : \A n \in Older(m) :
    kind[m] = "result" /\ (row[m] = "sending" \/ got[m] > 0)
    => row[n] \notin Open

Outcome ==
  \A m \in Messages : kind[m] = "result" =>
    /\ got[m] \in {0, 1}
    /\ row[m] = "pending" => got[m] = 0
    /\ row[m] = "sent" => got[m] = 1
    /\ row[m] = "failed" => got[m] = 0 \/ errors > 0

Parked == paused => /\ Tasks = {} /\ ~recovering
                    /\ pc \notin {"recover", "slot"}

(* The part of the invariant about rows and the service, and the part      *)
(* about the dispatcher, the channels and the gate.                        *)
Data == Numbered /\ Claimed /\ Stuck /\ Foremost /\ Outcome
Control == Carried /\ OffIsIdle /\ Parked

IInv == TypeOK /\ Data /\ Control

Status == {"none", "pending", "sending", "sent", "failed", "unknown"}

(* What any transaction may do to a row it is not about.                   *)
Lapse(n) ==
  \/ row'[n] = row[n]
  \/ row[n] = "pending" /\ row'[n] = "failed"
  \/ row[n] = "sending" /\ ~swept /\ row'[n] = "unknown"

(* The rows after the table was opened and pruned are rows that lapsed.    *)
LEMMA CurrentLapses ==
  ASSUME TypeOK, row' = Current, swept' = TRUE
  PROVE  /\ row' \in [Messages -> Status]
         /\ \A n \in Messages : Lapse(n)
         /\ ~swept => \A n \in Messages : row'[n] # "sending"
BY DEF TypeOK, Current, Pruned, Opened, Lapse, Status

(* finish() closes an open row, or opens it again for a later attempt; the *)
(* other rows lapse.                                                       *)
LEMMA FinishMoves ==
  ASSUME TypeOK, NEW m \in Messages, NEW s \in Status \ {"none", "sending"},
         FinishRow(m, s)
  PROVE  /\ row' \in [Messages -> Status]
         /\ \A n \in Messages \ {m} : Lapse(n)
         /\ ~swept => \A n \in Messages : row'[n] # "sending"
         /\ \/ Lapse(m) /\ row[m] # "sending"
            \/ row[m] = "sending" /\ ~swept /\ row'[m] = "unknown"
            \/ row[m] \in Open /\ row'[m] = s
            \/ row[m] \in Open /\ s = "pending" /\ row'[m] = "failed"
         /\ row[m] = "sending" /\ ~swept => row'[m] = "unknown"
         /\ due' \subseteq Messages /\ swept' = TRUE
         /\ UNCHANGED <<aged, replaced, errors>>
BY DEF TypeOK, FinishRow, Pruned, Opened, Lapse, Status, Open

(* A transaction that is about no row in particular keeps what is known    *)
(* of the rows: nobody starts to hold one, a result leaves the adapter     *)
(* only when the store has failed.                                         *)
LEMMA LapsingStep ==
  ASSUME TypeOK, TypeOK', Data, UNCHANGED <<sentVars, got>>,
         \A n \in Messages : Lapse(n),
         swept' = swept \/ (swept' /\ \A n \in Messages : row'[n] # "sending"),
         errors' >= errors,
         \A n \in Messages :
           \/ task'[n] = task[n]
           \/ task[n] \notin InAdapter /\ task'[n] \notin InAdapter
           \/ kind[n] = "plain"
           \/ errors' > 0 /\ task'[n] \notin InAdapter
  PROVE  Data'
<1>u. /\ published' = published /\ kind' = kind /\ to' = to /\ got' = got
  BY DEF sentVars
<1>1. Numbered'
  BY <1>u DEF Data, Numbered, Lapse, TypeOK
<1>2. Claimed'
  <2> SUFFICES ASSUME NEW m \in Messages, kind[m] = "result",
                      task'[m] \in InAdapter
               PROVE  /\ row'[m] = "sending" /\ swept'
                      /\ got[m] = IF task'[m] = "adapter" THEN 0 ELSE 1
    BY <1>u DEF Claimed
  <2>1. task'[m] = task[m]
    BY DEF TypeOK
  <2>2. row[m] = "sending" /\ swept
        /\ got[m] = IF task[m] = "adapter" THEN 0 ELSE 1
    BY <2>1 DEF Data, Claimed
  <2> QED BY <2>1, <2>2 DEF Lapse
<1>3. Stuck'
  <2> SUFFICES ASSUME NEW m \in Messages, row'[m] = "sending", swept',
                      task'[m] \notin InAdapter
               PROVE  errors' > 0
    BY DEF Stuck
  <2>1. row[m] = "sending" /\ swept
    BY DEF Lapse
  <2>2. kind[m] = "result"
    BY <2>1 DEF Data, Numbered
  <2>3. task[m] \notin InAdapter \/ errors' > 0
    BY <2>2
  <2>4. task[m] \notin InAdapter => errors > 0
    BY <2>1 DEF Data, Stuck
  <2>5. errors \in Nat /\ errors' \in Nat
    BY DEF TypeOK
  <2> QED BY <2>3, <2>4, <2>5
<1>4. Foremost'
  <2> SUFFICES ASSUME NEW m \in Messages, NEW n \in Older(m),
                      kind[m] = "result", row'[m] = "sending" \/ got[m] > 0
               PROVE  row'[n] \notin Open
    BY <1>u DEF Foremost, Older
  <2>1. row[n] \notin Open /\ n \in Messages
    BY DEF Data, Foremost, Lapse, Older
  <2> QED BY <2>1 DEF Lapse, Open
<1>5. Outcome'
  BY <1>u DEF Data, Outcome, Lapse, TypeOK
<1> QED BY <1>1, <1>2, <1>3, <1>4, <1>5 DEF Data

(* A transaction that only opens and prunes the table.                     *)
LEMMA CurrentStep ==
  ASSUME TypeOK, TypeOK', Data, row' = Current, swept' = TRUE,
         errors' = errors, UNCHANGED <<sentVars, got>>,
         \A n \in Messages :
           \/ task'[n] = task[n]
           \/ task[n] \notin InAdapter /\ task'[n] \notin InAdapter
  PROVE  Data'
<1>1. /\ \A n \in Messages : Lapse(n)
      /\ ~swept => \A n \in Messages : row'[n] # "sending"
  BY CurrentLapses
<1>2. swept' = swept \/ (swept' /\ \A n \in Messages : row'[n] # "sending")
  <2>1. CASE swept
    BY <2>1
  <2>2. CASE ~swept
    BY <1>1, <2>2
  <2> QED BY <2>1, <2>2 DEF TypeOK
<1>3. errors' >= errors
  BY DEF TypeOK
<1> QED BY <1>1, <1>2, <1>3, LapsingStep

(* Recording an outcome keeps what is known of the rows, provided the      *)
(* outcome is one the adapter's return justifies.                          *)
LEMMA FinishingStep ==
  ASSUME TypeOK, TypeOK', Data, UNCHANGED <<sentVars, got>>,
         NEW m \in Messages, NEW s \in Status \ {"none", "sending"},
         FinishRow(m, s), kind[m] = "result",
         s = "pending" => task[m] = "adapter",
         s = "sent" => task[m] = "accepted",
         s = "failed" => task[m] # "accepted",
         task'[m] \notin InAdapter,
         \A n \in Messages \ {m} : task'[n] = task[n]
  PROVE  Data'
<1>u. /\ published' = published /\ kind' = kind /\ to' = to /\ got' = got
  BY DEF sentVars
<1>m. /\ \A n \in Messages \ {m} : Lapse(n)
      /\ ~swept => \A n \in Messages : row'[n] # "sending"
      /\ \/ Lapse(m) /\ row[m] # "sending"
         \/ row[m] = "sending" /\ ~swept /\ row'[m] = "unknown"
         \/ row[m] \in Open /\ row'[m] = s
         \/ row[m] \in Open /\ s = "pending" /\ row'[m] = "failed"
      /\ row[m] = "sending" /\ ~swept => row'[m] = "unknown"
      /\ swept' = TRUE /\ errors' = errors
  BY FinishMoves
<1>s. row'[m] # "sending"
  BY <1>m DEF Lapse, Status
<1>1. Numbered'
  BY <1>u, <1>m DEF Data, Numbered, Lapse, TypeOK, Open, Status
<1>2. Claimed'
  <2> SUFFICES ASSUME NEW n \in Messages, kind[n] = "result",
                      task'[n] \in InAdapter
               PROVE  /\ row'[n] = "sending"
                      /\ got[n] = IF task'[n] = "adapter" THEN 0 ELSE 1
    BY <1>u, <1>m DEF Claimed
  <2>1. n # m /\ task'[n] = task[n]
    OBVIOUS
  <2>2. row[n] = "sending" /\ swept
        /\ got[n] = IF task[n] = "adapter" THEN 0 ELSE 1
    BY <2>1 DEF Data, Claimed
  <2> QED BY <1>m, <2>1, <2>2 DEF Lapse
<1>3. Stuck'
  <2> SUFFICES ASSUME NEW n \in Messages, row'[n] = "sending",
                      task'[n] \notin InAdapter
               PROVE  errors > 0
    BY <1>m DEF Stuck
  <2>1. n # m /\ row[n] = "sending" /\ swept
    BY <1>s, <1>m DEF Lapse
  <2> QED BY <2>1 DEF Data, Stuck
<1>4. Foremost'
  <2> SUFFICES ASSUME NEW k \in Messages, NEW n \in Older(k),
                      kind[k] = "result", row'[k] = "sending" \/ got[k] > 0
               PROVE  row'[n] \notin Open
    BY <1>u DEF Foremost, Older
  <2>1. n \in Messages
    BY DEF Older
  <2>2. row[n] \notin Open
    BY <1>m, <1>s DEF Data, Foremost, Lapse
  <2> QED BY <1>m, <2>1, <2>2 DEF Lapse, Open
<1>5. Outcome'
  <2> SUFFICES ASSUME NEW n \in Messages, kind[n] = "result"
               PROVE  /\ got[n] \in {0, 1}
                      /\ row'[n] = "pending" => got[n] = 0
                      /\ row'[n] = "sent" => got[n] = 1
                      /\ row'[n] = "failed" => got[n] = 0 \/ errors > 0
    BY <1>u, <1>m DEF Outcome
  <2>1. /\ got[n] \in {0, 1}
        /\ row[n] = "pending" => got[n] = 0
        /\ row[n] = "sent" => got[n] = 1
        /\ row[n] = "failed" => got[n] = 0 \/ errors > 0
    BY DEF Data, Outcome
  <2>2. CASE n # m
    BY <2>1, <2>2, <1>m DEF Lapse
  <2>3. CASE n = m
    <3>1. task[m] = "adapter" => got[m] = 0
      BY DEF Data, Claimed, InAdapter
    <3>2. task[m] = "accepted" => got[m] = 1
      BY DEF Data, Claimed, InAdapter
    <3>3. row[m] = "sending" /\ swept /\ task[m] \notin InAdapter => errors > 0
      BY DEF Data, Stuck
    <3> QED BY <2>1, <2>3, <3>1, <3>2, <3>3, <1>m
            DEF Lapse, Open, Status, InAdapter, TypeOK
  <2> QED BY <2>2, <2>3
<1> QED BY <1>1, <1>2, <1>3, <1>4, <1>5 DEF Data

-----------------------------------------------------------------------------
(* The steps that are about one row                                        *)

(* A claim: the row was pending, nothing older of its chat is open.        *)
LEMMA ClaimStep ==
  ASSUME TypeOK, TypeOK', Data, UNCHANGED <<sentVars, got, errors>>,
         NEW m \in Messages, kind[m] = "result", task[m] = "waiting",
         Claimable(m), row' = [Current EXCEPT ![m] = "sending"],
         swept' = TRUE, task' = [task EXCEPT ![m] = "adapter"]
  PROVE  Data'
<1>u. /\ published' = published /\ kind' = kind /\ to' = to /\ got' = got
      /\ errors' = errors
  BY DEF sentVars
<1>c. /\ \A n \in Messages : \/ Current[n] = row[n]
                             \/ row[n] = "pending" /\ Current[n] = "failed"
                             \/ row[n] = "sending" /\ ~swept
                                /\ Current[n] = "unknown"
      /\ ~swept => \A n \in Messages : Current[n] # "sending"
      /\ Current \in [Messages -> Status]
  BY DEF TypeOK, Current, Pruned, Opened, Status
<1>m. /\ row'[m] = "sending" /\ row[m] = "pending"
      /\ \A n \in Messages \ {m} : row'[n] = Current[n]
      /\ \A n \in Older(m) : Current[n] \notin Open
  BY <1>c DEF Claimable
<1>t. task'[m] = "adapter" /\ \A n \in Messages \ {m} : task'[n] = task[n]
  BY DEF TypeOK
<1>1. Numbered'
  BY <1>u, <1>c, <1>m DEF Data, Numbered
<1>2. Claimed'
  <2> SUFFICES ASSUME NEW n \in Messages, kind[n] = "result",
                      task'[n] \in InAdapter
               PROVE  /\ row'[n] = "sending"
                      /\ got[n] = IF task'[n] = "adapter" THEN 0 ELSE 1
    BY <1>u DEF Claimed
  <2>1. CASE n = m
    BY <2>1, <1>m, <1>t DEF Data, Outcome
  <2>2. CASE n # m
    <3>1. row[n] = "sending" /\ swept
          /\ got[n] = IF task[n] = "adapter" THEN 0 ELSE 1
      BY <2>2, <1>t DEF Data, Claimed
    <3> QED BY <2>2, <3>1, <1>c, <1>m, <1>t
  <2> QED BY <2>1, <2>2
<1>3. Stuck'
  <2> SUFFICES ASSUME NEW n \in Messages, row'[n] = "sending",
                      task'[n] \notin InAdapter
               PROVE  errors > 0
    BY <1>u DEF Stuck
  <2>1. n # m
    BY <1>t DEF InAdapter
  <2>2. row[n] = "sending" /\ swept
    BY <2>1, <1>c, <1>m
  <2> QED BY <2>1, <2>2, <1>t DEF Data, Stuck
<1>4. Foremost'
  <2> SUFFICES ASSUME NEW k \in Messages, NEW n \in Older(k),
                      kind[k] = "result", row'[k] = "sending" \/ got[k] > 0
               PROVE  row'[n] \notin Open
    BY <1>u DEF Foremost, Older
  <2>0. n \in Messages /\ m \in Messages
    BY DEF Older
  <2>1. CASE k = m
    <3>1. n # m
      BY <2>0, <2>1 DEF Older, Messages
    <3> QED BY <2>0, <2>1, <3>1, <1>m
  <2>2. CASE k # m
    <3>1. row[k] = "sending" \/ got[k] > 0
      BY <2>2, <1>c, <1>m
    <3>2. row[n] \notin Open
      BY <3>1 DEF Data, Foremost
    <3>3. n # m
      BY <3>2, <1>m DEF Open
    <3> QED BY <2>0, <3>2, <3>3, <1>c, <1>m DEF Open
  <2> QED BY <2>1, <2>2
<1>5. Outcome'
  BY <1>u, <1>c, <1>m DEF Data, Outcome
<1> QED BY <1>1, <1>2, <1>3, <1>4, <1>5 DEF Data

(* The service accepts a message.                                          *)
LEMMA AcceptStep ==
  ASSUME TypeOK, TypeOK', Data, Carried, NEW m \in Messages, Accept(m)
  PROVE  Data'
<1>u. /\ published' = published /\ kind' = kind /\ to' = to /\ row' = row
      /\ swept' = swept /\ errors' = errors
  BY DEF Accept, sentVars, storeVars, boundVars
<1>a. /\ task[m] = "adapter" /\ task' = [task EXCEPT ![m] = "accepted"]
      /\ got' = [got EXCEPT ![m] = @ + 1] /\ kind[m] # "none"
  BY DEF Accept, Carried, Tasks
<1>t. /\ task'[m] = "accepted" /\ got'[m] = got[m] + 1
      /\ \A n \in Messages \ {m} : task'[n] = task[n] /\ got'[n] = got[n]
  BY <1>a DEF TypeOK
<1>r. kind[m] = "result" => row[m] = "sending" /\ swept /\ got[m] = 0
  BY <1>a DEF Data, Claimed, InAdapter
<1>1. Numbered'
  BY <1>u, <1>a, <1>t DEF Data, Numbered
<1>2. Claimed'
  <2> SUFFICES ASSUME NEW n \in Messages, kind[n] = "result",
                      task'[n] \in InAdapter
               PROVE  /\ row[n] = "sending" /\ swept
                      /\ got'[n] = IF task'[n] = "adapter" THEN 0 ELSE 1
    BY <1>u DEF Claimed
  <2>1. CASE n = m
    BY <2>1, <1>t, <1>r
  <2>2. CASE n # m
    BY <2>2, <1>t DEF Data, Claimed
  <2> QED BY <2>1, <2>2
<1>3. Stuck'
  BY <1>u, <1>a, <1>t DEF Data, Stuck, InAdapter
<1>4. Foremost'
  <2> SUFFICES ASSUME NEW k \in Messages, NEW n \in Older(k),
                      kind[k] = "result", row[k] = "sending" \/ got'[k] > 0
               PROVE  row[n] \notin Open
    BY <1>u DEF Foremost, Older
  <2> QED BY <1>t, <1>r DEF Data, Foremost
<1>5. Outcome'
  BY <1>u, <1>t, <1>r DEF Data, Outcome
<1> QED BY <1>1, <1>2, <1>3, <1>4, <1>5 DEF Data

(* A new message is younger than all others.                               *)
LEMMA PublishStep ==
  ASSUME TypeOK, TypeOK', Data, Carried, NEW k \in {"result", "plain"},
         NEW c \in Chats, Publish(k, c)
  PROVE  Data'
<1> DEFINE m == published + 1
<1>b. MaxMessages \in Nat /\ NoChat \notin Chats
  BY BoundsAssumption, ChatsAssumption
<1>m. m \in Messages /\ kind[m] = "none" /\ row[m] = "none" /\ got[m] = 0
      /\ task[m] = "none"
  BY <1>b DEF Publish, TypeOK, Messages, Data, Numbered, Carried, Tasks
<1>u. /\ published' = m /\ kind' = [kind EXCEPT ![m] = k]
      /\ to' = [to EXCEPT ![m] = c] /\ got' = got /\ task' = task
  BY DEF Publish, taskVars
<1>e. errors' = errors
  BY DEF Publish, boundVars
<1>k. /\ kind'[m] = k /\ to'[m] = c
      /\ \A n \in Messages \ {m} : kind'[n] = kind[n] /\ to'[n] = to[n]
  BY <1>u DEF TypeOK
<1>r. /\ row'[m] = IF k = "result" THEN "pending" ELSE "none"
      /\ \A n \in Messages \ {m} : Lapse(n)
      /\ \/ swept' = swept
         \/ swept' /\ (\A n \in Messages : row'[n] # "sending")
  <2>1. CASE k = "plain"
    <3>1. UNCHANGED storeVars
      BY <2>1 DEF Publish
    <3>2. row' = row /\ swept' = swept
      BY <3>1 DEF storeVars
    <3> QED BY <2>1, <3>2, <1>m DEF Lapse
  <2>2. CASE k = "result"
    <3>1. row' = [Current EXCEPT ![m] = "pending"] /\ swept' = TRUE
      BY <2>2 DEF Publish
    <3>2. Current \in [Messages -> Status]
      BY DEF TypeOK, Current, Pruned, Opened, Status
    <3>3. row'[m] = "pending" /\ \A n \in Messages \ {m} : row'[n] = Current[n]
      BY <3>1, <3>2, <1>m
    <3>4. /\ \A n \in Messages \ {m} : Lapse(n)
          /\ ~swept => \A n \in Messages : Current[n] # "sending"
      BY <3>3 DEF TypeOK, Current, Pruned, Opened, Lapse
    <3>5. row'[m] = IF k = "result" THEN "pending" ELSE "none"
      BY <2>2, <3>3
    <3>6. CASE swept
      BY <3>1, <3>4, <3>5, <3>6
    <3>7. CASE ~swept
      <4>1. \A n \in Messages : row'[n] # "sending"
        BY <3>3, <3>4, <3>7
      <4> QED BY <3>1, <3>4, <3>5, <4>1
    <3> QED BY <3>6, <3>7
  <2> QED BY <2>1, <2>2
<1>1. Numbered'
  BY <1>b, <1>m, <1>u, <1>k, <1>r
     DEF Data, Numbered, Lapse, Messages, TypeOK
<1>2. Claimed'
  BY <1>m, <1>u, <1>k, <1>r DEF Data, Claimed, Lapse, InAdapter, TypeOK
<1>3. Stuck'
  BY <1>m, <1>u, <1>k, <1>e, <1>r DEF Data, Stuck, Lapse, InAdapter, TypeOK
<1>4. Foremost'
  <2> SUFFICES ASSUME NEW i \in Messages, NEW n \in Messages, n < i,
                      to'[n] = to'[i], kind'[i] = "result",
                      row'[i] = "sending" \/ got[i] > 0
               PROVE  row'[n] \notin Open
    BY <1>u DEF Foremost, Older
  <2>1. i # m
    BY <1>m, <1>r
  <2>2. kind[i] # "none"
    BY <2>1, <1>k
  <2>3. n # m
    BY <1>b, <2>2 DEF Data, Numbered, Messages, TypeOK
  <2>4. n \in Older(i)
    BY <2>1, <2>3, <1>k DEF Older
  <2>5. row[n] \notin Open
    BY <2>1, <2>4, <1>k, <1>r DEF Data, Foremost, Lapse
  <2> QED BY <2>3, <2>5, <1>r DEF Lapse, Open
<1>5. Outcome'
  BY <1>m, <1>u, <1>k, <1>e, <1>r DEF Data, Outcome, Lapse, TypeOK
<1> QED BY <1>1, <1>2, <1>3, <1>4, <1>5 DEF Data

(* A new process finds the rows as they are and holds none of them.        *)
LEMMA RestartStep ==
  ASSUME TypeOK, Data, Restarted
  PROVE  Data'
<1>u. /\ published' = published /\ kind' = kind /\ to' = to /\ got' = got
      /\ row' = row /\ errors' = errors /\ swept' = FALSE
      /\ \A m \in Messages : task'[m] = "none"
  BY DEF Restarted, sentVars
<1> QED BY <1>u DEF Data, Numbered, Claimed, Stuck, Foremost, Outcome, Older,
                    InAdapter

-----------------------------------------------------------------------------
(* Types, in the groups the actions change together                        *)

StoreType ==
  /\ row \in [Messages -> Status]
  /\ due \subseteq Messages /\ aged \subseteq Messages
  /\ replaced \subseteq Messages /\ swept \in BOOLEAN

DispatchType ==
  /\ pc \in {"loop", "recover", "held", "slot", "stopped", "dead"}
  /\ hand \in Messages \cup {Nobody}
  /\ stale \in BOOLEAN /\ recovering \in BOOLEAN
  /\ todo \subseteq Messages /\ recoveryDue \in BOOLEAN

TaskType ==
  /\ task \in [Messages -> {"none", "waiting", "adapter", "accepted"}]
  /\ previous \in [Messages -> Messages \cup {Nobody}]
  /\ tails \in [Chats -> Messages \cup {Nobody}]
  /\ cancelling \subseteq Messages

SentType ==
  /\ published \in 0..MaxMessages
  /\ kind \in [Messages -> {"none", "result", "plain"}]
  /\ to \in [Messages -> Chats \cup {NoChat}]

RestType ==
  /\ bus \in Seq(Messages)
  /\ channel \in [Channels -> {"on", "stopping", "off"}]
  /\ paused \in BOOLEAN
  /\ got \in [Messages -> Nat]
  /\ errors \in Nat /\ disturbances \in Nat

LEMMA TypeGroups ==
  /\ TypeOK <=> StoreType /\ DispatchType /\ TaskType /\ SentType /\ RestType
  /\ TypeOK' <=> /\ StoreType' /\ DispatchType' /\ TaskType' /\ SentType'
                 /\ RestType'
BY DEF TypeOK, StoreType, DispatchType, TaskType, SentType, RestType, Status

(* The tasks a step may leave behind: those that were there, and one more. *)
LEMMA EndTaskLeaves ==
  ASSUME TypeOK, NEW m \in Messages, EndTask(m)
  PROVE  /\ TaskType' /\ task'[m] = "none"
         /\ \A n \in Messages \ {m} : task'[n] = task[n]
         /\ Tasks' \subseteq Tasks
BY DEF TypeOK, EndTask, TaskType, Tasks

LEMMA EnterLeaves ==
  ASSUME TypeOK, NEW m \in Messages, to[m] \in Chats, kind[m] # "none",
         channel[Channel(m)] # "off", Enter(m)
  PROVE  /\ TaskType'
         /\ \A n \in Messages : \/ task'[n] = task[n]
                                \/ /\ n = m /\ task[n] = "none"
                                   /\ task'[n] = "waiting"
         /\ Tasks' \subseteq Tasks \cup {m}
         /\ hand' \in {Nobody, m} /\ stale' \in BOOLEAN
         /\ \/ pc' = "slot" /\ hand' = m /\ m \notin Tasks'
            \/ pc' = "recover" /\ recovering
            \/ pc' = "loop"
<1>1. CASE Onward /\ UNCHANGED taskVars
  BY <1>1 DEF Onward, taskVars, TypeOK, TaskType, Tasks
<1>2. CASE m \notin Tasks /\ Onward /\ CreateTask(m)
  <2>1. task[m] = "none"
    BY <1>2 DEF Tasks
  <2>2. /\ task' = [task EXCEPT ![m] = "waiting"]
        /\ previous' = [previous EXCEPT ![m] = tails[to[m]]]
        /\ tails' = [tails EXCEPT ![to[m]] = m]
        /\ cancelling' = cancelling
    BY <1>2 DEF CreateTask
  <2>3. TaskType'
    BY <2>2 DEF TypeOK, TaskType
  <2>4. \A n \in Messages : task'[n] = task[n]
                            \/ (n = m /\ task'[n] = "waiting")
    BY <2>2 DEF TypeOK
  <2>5. Tasks' \subseteq Tasks \cup {m}
    BY <2>4 DEF Tasks
  <2>6. /\ hand' = Nobody /\ stale' = stale
        /\ pc' = IF recovering THEN "recover" ELSE "loop"
    BY <1>2 DEF Onward
  <2> QED BY <2>1, <2>3, <2>4, <2>5, <2>6 DEF TypeOK
<1>3. CASE /\ m \notin Tasks
           /\ pc' = "slot" /\ hand' = m /\ stale' = FALSE
           /\ UNCHANGED taskVars
  BY <1>3 DEF taskVars, TypeOK, TaskType, Tasks
<1> QED BY <1>1, <1>2, <1>3 DEF Enter

(* What FinishRow and an error leave of the store is well typed.           *)
LEMMA StoreTypes ==
  ASSUME TypeOK, NEW m \in Messages, NEW s \in Status \ {"none", "sending"},
         FinishRow(m, s) \/ StoreFails
  PROVE  StoreType' /\ errors' \in Nat /\ errors' >= errors
<1>1. CASE FinishRow(m, s)
  <2>1. /\ row' \in [Messages -> Status] /\ due' \subseteq Messages
        /\ swept' = TRUE /\ UNCHANGED <<aged, replaced, errors>>
    BY <1>1, FinishMoves
  <2> QED BY <2>1 DEF TypeOK, StoreType
<1>2. CASE StoreFails
  BY <1>2 DEF StoreFails, storeVars, TypeOK, StoreType, Status
<1> QED BY <1>1, <1>2

(* A failed transaction is a step in which every row lapses trivially.     *)
LEMMA FailureLapses ==
  ASSUME TypeOK, StoreFails
  PROVE  /\ \A n \in Messages : Lapse(n)
         /\ swept' = swept /\ errors' > 0 /\ errors' >= errors
         /\ row' = row
BY DEF StoreFails, storeVars, Lapse, TypeOK

-----------------------------------------------------------------------------
(* The steps of a task                                                     *)

LEMMA ControlFrame ==
  ASSUME Control, Tasks' \subseteq Tasks,
         UNCHANGED <<sentVars, bus, pc, hand, recovering, todo, channel,
                     paused>>
  PROVE  Control'
<1>u. /\ kind' = kind /\ to' = to /\ bus' = bus /\ pc' = pc /\ hand' = hand
      /\ recovering' = recovering /\ todo' = todo /\ channel' = channel
      /\ paused' = paused
  BY DEF sentVars
<1>1. Carried'
  BY <1>u DEF Control, Carried
<1>2. OffIsIdle'
  BY <1>u DEF Control, OffIsIdle, Channel
<1>3. Parked'
  BY <1>u DEF Control, Parked
<1> QED BY <1>1, <1>2, <1>3 DEF Control

LEMMA StartKeeps ==
  ASSUME IInv, NEW m \in Messages, Start(m) PROVE IInv'
<1>s. /\ kind[m] = "result" /\ task[m] = "waiting"
      /\ UNCHANGED <<sentVars, bus, dispatchVars, channel, paused, got,
                     disturbances>>
  BY DEF Start, MayStart
<1>u. /\ SentType' /\ DispatchType'
      /\ UNCHANGED <<bus, channel, paused, got, disturbances>>
      /\ UNCHANGED <<sentVars, got>>
      /\ UNCHANGED <<sentVars, bus, pc, hand, recovering, todo, channel,
                     paused>>
  BY <1>s, TypeGroups DEF IInv, sentVars, dispatchVars, SentType, DispatchType
<1>1. CASE FinishRow(m, "failed") /\ EndTask(m)
  <2>1. TypeOK'
    BY <1>1, <1>u, StoreTypes, EndTaskLeaves, TypeGroups
       DEF IInv, RestType, Status
  <2>2. Data'
    BY <1>1, <1>s, <1>u, <2>1, EndTaskLeaves, FinishingStep
       DEF IInv, Status, InAdapter
  <2> QED BY <1>1, <1>u, <2>1, <2>2, EndTaskLeaves, ControlFrame DEF IInv
<1>2. CASE /\ Claimable(m) /\ row' = [Current EXCEPT ![m] = "sending"]
           /\ task' = [task EXCEPT ![m] = "adapter"] /\ swept' = TRUE
           /\ UNCHANGED <<due, aged, replaced, errors, previous, tails,
                          cancelling>>
  <2>1. StoreType'
    BY <1>2 DEF IInv, TypeOK, StoreType, Current, Pruned, Opened, Status
  <2>2. TaskType' /\ Tasks' \subseteq Tasks
    BY <1>2, <1>s DEF IInv, TypeOK, TaskType, Tasks
  <2>3. TypeOK'
    BY <1>2, <1>u, <2>1, <2>2, TypeGroups DEF IInv, RestType
  <2>4. Data'
    BY <1>2, <1>s, <1>u, <2>3, ClaimStep DEF IInv
  <2> QED BY <1>u, <2>2, <2>3, <2>4, ControlFrame DEF IInv
<1>3. CASE /\ row' = Current /\ swept' = TRUE
           /\ UNCHANGED <<due, aged, replaced, errors>> /\ EndTask(m)
  <2>1. /\ row' \in [Messages -> Status] /\ \A n \in Messages : Lapse(n)
        /\ ~swept => \A n \in Messages : row'[n] # "sending"
    BY <1>3, CurrentLapses DEF IInv
  <2>2. StoreType'
    BY <1>3, <2>1 DEF IInv, TypeOK, StoreType
  <2>3. TypeOK'
    BY <1>3, <1>u, <2>2, EndTaskLeaves, TypeGroups DEF IInv, RestType
  <2>5. \A n \in Messages :
          \/ task'[n] = task[n]
          \/ task[n] \notin InAdapter /\ task'[n] \notin InAdapter
    BY <1>3, <1>s, EndTaskLeaves DEF IInv, InAdapter
  <2>6. Data'
    BY <1>3, <1>u, <2>3, <2>5, CurrentStep DEF IInv
  <2> QED BY <1>3, <1>u, <2>3, <2>6, EndTaskLeaves, ControlFrame DEF IInv
<1>4. CASE StoreFails /\ EndTask(m)
  <2>1. TypeOK'
    BY <1>4, <1>u, StoreTypes, EndTaskLeaves, TypeGroups, SMTT(30)
       DEF IInv, RestType, Status
  <2>2. \A n \in Messages :
          \/ task'[n] = task[n]
          \/ task[n] \notin InAdapter /\ task'[n] \notin InAdapter
    BY <1>4, <1>s, EndTaskLeaves DEF IInv, InAdapter
  <2>3. Data'
    BY <1>4, <1>u, <2>1, <2>2, FailureLapses, LapsingStep DEF IInv
  <2> QED BY <1>4, <1>u, <2>1, <2>3, EndTaskLeaves, ControlFrame DEF IInv
<1> QED BY <1>1, <1>2, <1>3, <1>4 DEF Start

LEMMA ReturnKeeps ==
  ASSUME IInv, NEW m \in Messages, Return(m) PROVE IInv'
<1>s. /\ kind[m] = "result" /\ task[m] \in InAdapter /\ EndTask(m)
      /\ UNCHANGED <<sentVars, bus, dispatchVars, channel, paused, got,
                     disturbances>>
  BY DEF Return
<1>u. /\ SentType' /\ DispatchType'
      /\ UNCHANGED <<bus, channel, paused, got, disturbances>>
      /\ UNCHANGED <<sentVars, got>>
      /\ UNCHANGED <<sentVars, bus, pc, hand, recovering, todo, channel,
                     paused>>
  BY <1>s, TypeGroups DEF IInv, sentVars, dispatchVars, SentType, DispatchType
<1>e. /\ TaskType' /\ task'[m] = "none" /\ Tasks' \subseteq Tasks
      /\ \A n \in Messages \ {m} : task'[n] = task[n]
  BY <1>s, EndTaskLeaves DEF IInv
<1>1. ASSUME NEW s \in Outcomes(m), FinishRow(m, s) PROVE IInv'
  <2>1. /\ s \in Status \ {"none", "sending"}
        /\ s = "pending" => task[m] = "adapter"
        /\ s = "sent" => task[m] = "accepted"
        /\ s = "failed" => task[m] # "accepted"
    BY <1>1, <1>s DEF Outcomes, InAdapter, Status
  <2>2. TypeOK'
    BY <1>1, <1>u, <1>e, <2>1, StoreTypes, TypeGroups DEF IInv, RestType
  <2>3. Data'
    BY <1>1, <1>s, <1>u, <1>e, <2>1, <2>2, FinishingStep DEF IInv, InAdapter
  <2> QED BY <1>u, <1>e, <2>2, <2>3, ControlFrame DEF IInv
<1>2. CASE StoreFails
  <2>1. TypeOK'
    BY <1>2, <1>u, <1>e, StoreTypes, TypeGroups DEF IInv, RestType, Status
  <2>2. \A n \in Messages :
          \/ task'[n] = task[n]
          \/ errors' > 0 /\ task'[n] \notin InAdapter
    BY <1>2, <1>e, FailureLapses DEF IInv, InAdapter
  <2>3. Data'
    BY <1>2, <1>u, <2>1, <2>2, FailureLapses, LapsingStep DEF IInv
  <2> QED BY <1>u, <1>e, <2>1, <2>3, ControlFrame DEF IInv
<1> QED BY <1>1, <1>2 DEF Return

(* Steps that leave the store alone.                                       *)
LEMMA MemoryStep ==
  ASSUME TypeOK, TypeOK', Data,
         UNCHANGED <<sentVars, row, swept, got, errors>>,
         \A n \in Messages :
           \/ task'[n] = task[n]
           \/ task[n] \notin InAdapter /\ task'[n] \notin InAdapter
           \/ kind[n] = "plain"
  PROVE  Data'
<1>1. /\ \A n \in Messages : Lapse(n)
      /\ errors' >= errors
  BY DEF Lapse, TypeOK
<1>2. UNCHANGED <<sentVars, got>> /\ swept' = swept
  OBVIOUS
<1> QED BY <1>1, <1>2, LapsingStep

LEMMA PlainKeeps ==
  ASSUME IInv, NEW m \in Messages,
         StartPlain(m) \/ ReturnPlain(m) \/ RetryPlain(m) \/ Cancelled(m)
  PROVE  IInv'
<1>u. /\ UNCHANGED <<sentVars, row, swept, got, errors>>
      /\ SentType' /\ DispatchType' /\ StoreType' /\ RestType'
      /\ UNCHANGED <<sentVars, bus, pc, hand, recovering, todo, channel,
                     paused>>
  BY TypeGroups DEF IInv, StartPlain, ReturnPlain, RetryPlain, Cancelled,
     sentVars, storeVars, dispatchVars, boundVars, SentType, DispatchType,
     StoreType, RestType
<1>t. /\ TaskType' /\ Tasks' \subseteq Tasks
      /\ \A n \in Messages \ {m} : task'[n] = task[n]
      /\ \/ kind[m] = "plain"
         \/ task[m] \notin InAdapter /\ task'[m] \notin InAdapter
  <2>1. CASE EndTask(m)
    BY <2>1, EndTaskLeaves DEF IInv, ReturnPlain, Cancelled, StartPlain,
       RetryPlain, InAdapter
  <2>2. CASE /\ kind[m] = "plain" /\ task[m] # "none"
             /\ task' = [task EXCEPT ![m] = "adapter"]
             /\ UNCHANGED <<previous, tails, cancelling>>
    BY <2>2 DEF IInv, TypeOK, TaskType, Tasks
  <2> QED BY <2>1, <2>2 DEF StartPlain, ReturnPlain, RetryPlain, Cancelled,
          MayStart
<1>1. TypeOK'
  BY <1>u, <1>t, TypeGroups
<1>2. Data'
  BY <1>u, <1>t, <1>1, MemoryStep DEF IInv
<1> QED BY <1>u, <1>t, <1>1, <1>2, ControlFrame DEF IInv

LEMMA AcceptKeeps ==
  ASSUME IInv, NEW m \in Messages, Accept(m) PROVE IInv'
<1>u. /\ SentType' /\ DispatchType' /\ StoreType'
      /\ UNCHANGED <<sentVars, bus, pc, hand, recovering, todo, channel,
                     paused>>
  BY TypeGroups DEF IInv, Accept, sentVars, storeVars, dispatchVars, SentType,
     DispatchType, StoreType
<1>t. TaskType' /\ Tasks' \subseteq Tasks
  BY DEF IInv, TypeOK, Accept, TaskType, Tasks
<1>r. RestType'
  BY DEF IInv, TypeOK, Accept, RestType, boundVars
<1>1. TypeOK'
  BY <1>u, <1>t, <1>r, TypeGroups
<1>2. Data'
  BY <1>1, AcceptStep DEF IInv, Control
<1> QED BY <1>u, <1>t, <1>1, <1>2, ControlFrame DEF IInv

-----------------------------------------------------------------------------
(* The steps of the dispatcher, all of them with the gate open             *)

LEMMA ControlStep ==
  ASSUME Control, UNCHANGED <<kind, to, channel, paused>>, ~paused,
         \A i \in DOMAIN bus' : kind[bus'[i]] # "none",
         hand' # Nobody => kind[hand'] # "none",
         \A n \in todo' : kind[n] = "result",
         \A n \in Tasks' \ Tasks :
           kind[n] # "none" /\ channel[Channel(n)] # "off",
         pc' \in {"held", "slot"} => hand' # Nobody,
         pc' = "slot" => hand' \notin Tasks',
         pc' = "recover" => recovering'
  PROVE  Control'
<1>1. Carried'
  BY DEF Control, Carried
<1>2. OffIsIdle'
  BY DEF Control, OffIsIdle, Channel
<1>3. Parked'
  BY DEF Control, Parked
<1> QED BY <1>1, <1>2, <1>3 DEF Control

LEMMA RecoverKeeps ==
  ASSUME IInv, Recover PROVE IInv'
<1>u. /\ UNCHANGED <<sentVars, got>> /\ UNCHANGED <<kind, to, channel, paused>>
      /\ UNCHANGED <<bus, hand, stale, task>> /\ UNCHANGED taskVars
      /\ pc = "loop" /\ ~paused /\ recoveryDue' = FALSE
      /\ disturbances' = disturbances
  BY DEF Recover, sentVars, taskVars
<1>f. /\ SentType' /\ TaskType' /\ Tasks' = Tasks
      /\ \A i \in DOMAIN bus : kind[bus[i]] # "none"
      /\ hand # Nobody => kind[hand] # "none"
  BY <1>u, TypeGroups DEF IInv, sentVars, taskVars, SentType, TaskType, Tasks,
     Control, Carried
<1>1. CASE /\ todo' = ReadyRows
           /\ row' = Current /\ swept' = TRUE
           /\ UNCHANGED <<due, aged, replaced, errors>>
           /\ pc' = "recover" /\ recovering' = TRUE
  <2>1. TypeOK'
    <3>1. row' \in [Messages -> Status]
      BY <1>1, CurrentLapses DEF IInv
    <3>2. StoreType' /\ DispatchType' /\ RestType'
      BY <1>1, <1>u, <3>1 DEF IInv, TypeOK, StoreType, DispatchType,
         RestType, ReadyRows
    <3> QED BY <1>f, <3>2, TypeGroups
  <2>2. Data'
    BY <1>1, <1>u, <2>1, CurrentStep DEF IInv
  <2>3. \A n \in todo' : kind[n] = "result"
    BY <1>1 DEF ReadyRows, Current, Pruned, Opened, IInv, TypeOK, Data,
       Numbered
  <2> QED BY <1>1, <1>u, <1>f, <2>1, <2>2, <2>3, ControlStep DEF IInv
<1>2. CASE StoreFails /\ UNCHANGED <<pc, todo, recovering>>
  <2>1. StoreType' /\ errors' \in Nat /\ swept' = swept /\ row' = row
        /\ errors' >= errors
    BY <1>2 DEF StoreFails, storeVars, IInv, TypeOK, StoreType, Status
  <2>2. TypeOK'
    BY <1>2, <1>u, <1>f, <2>1, TypeGroups DEF IInv, DispatchType, RestType
  <2>3. Data'
    BY <1>2, <1>u, <2>2, FailureLapses, LapsingStep DEF IInv
  <2>4. \A n \in todo' : kind[n] = "result"
    BY <1>2 DEF IInv, Control, Carried
  <2> QED BY <1>2, <1>u, <1>f, <2>2, <2>3, <2>4, ControlStep DEF IInv
<1> QED BY <1>1, <1>2 DEF Recover

(* Everything the dispatcher does without a transaction.                   *)
LEMMA QuietDispatch ==
  ASSUME IInv, UNCHANGED <<sentVars, storeVars, channel, paused, got,
                           boundVars>>,
         ~paused, TaskType', DispatchType', bus' \in Seq(Messages),
         \A n \in Messages : \/ task'[n] = task[n]
                             \/ task[n] = "none" /\ task'[n] = "waiting",
         \A i \in DOMAIN bus' : kind[bus'[i]] # "none",
         hand' # Nobody => kind[hand'] # "none",
         todo' \subseteq todo,
         \A n \in Tasks' \ Tasks :
           kind[n] # "none" /\ channel[Channel(n)] # "off",
         pc' \in {"held", "slot"} => hand' # Nobody,
         pc' = "slot" => hand' \notin Tasks',
         pc' = "recover" => recovering'
  PROVE  IInv'
<1>u. /\ UNCHANGED <<sentVars, row, swept, got, errors>>
      /\ UNCHANGED <<kind, to, channel, paused>>
      /\ SentType' /\ StoreType' /\ RestType'
  BY TypeGroups DEF IInv, sentVars, storeVars, boundVars, SentType, StoreType,
     RestType
<1>1. TypeOK'
  BY <1>u, TypeGroups
<1>2. Data'
  BY <1>u, <1>1, MemoryStep DEF IInv, InAdapter
<1>3. Control'
  BY <1>u, ControlStep DEF IInv, Control, Carried
<1> QED BY <1>1, <1>2, <1>3 DEF IInv

(* Closing the row of a result whose channel is off, or failing to.        *)
LEMMA CloseStep ==
  ASSUME IInv, TypeOK', NEW m \in Messages, kind[m] = "result",
         channel[Channel(m)] = "off",
         FinishRow(m, "failed") \/ StoreFails,
         UNCHANGED <<sentVars, got>>, task' = task
  PROVE  Data'
<1>1. task[m] = "none"
  BY DEF IInv, Control, OffIsIdle, Tasks
<1>2. CASE FinishRow(m, "failed")
  BY <1>1, <1>2, FinishingStep DEF IInv, Status, InAdapter
<1>3. CASE StoreFails
  BY <1>3, FailureLapses, LapsingStep DEF IInv
<1> QED BY <1>2, <1>3

LEMMA RecoverNextKeeps ==
  ASSUME IInv, NEW m \in Messages, RecoverNext(m) PROVE IInv'
<1>u. /\ UNCHANGED <<sentVars, got>> /\ UNCHANGED <<kind, to, channel, paused>>
      /\ UNCHANGED <<bus, recovering, recoveryDue, disturbances>>
      /\ pc = "recover" /\ recovering /\ ~paused
      /\ m \in todo /\ kind[m] = "result" /\ to[m] \in Chats
      /\ bus \in Seq(Messages)
      /\ \A i \in DOMAIN bus : kind[bus[i]] # "none"
      /\ hand # Nobody => kind[hand] # "none"
      /\ \A n \in todo : kind[n] = "result"
  BY DEF RecoverNext, sentVars, IInv, TypeOK, Data, Numbered, Control, Carried,
     Parked
<1>1. CASE /\ channel[Channel(m)] = "off"
           /\ FinishRow(m, "failed") \/ StoreFails
           /\ todo' \subseteq todo
           /\ UNCHANGED <<pc, hand, stale, taskVars>>
  <2>1. StoreType' /\ errors' \in Nat
    BY <1>1, StoreTypes DEF IInv, Status
  <2>2. /\ SentType' /\ TaskType' /\ DispatchType' /\ RestType'
        /\ Tasks' = Tasks /\ task' = task
    BY <1>1, <1>u, <2>1 DEF IInv, TypeOK, SentType, TaskType, DispatchType,
       RestType, Tasks, sentVars, taskVars
  <2>3. TypeOK'
    BY <2>1, <2>2, TypeGroups
  <2>4. Data'
    BY <1>1, <1>u, <2>2, <2>3, CloseStep
  <2>5. Control'
    BY <1>1, <1>u, <2>2, ControlStep DEF IInv
  <2> QED BY <2>3, <2>4, <2>5 DEF IInv
<1>2. CASE /\ channel[Channel(m)] # "off"
           /\ todo' = todo \ {m} /\ Enter(m)
           /\ UNCHANGED <<storeVars, errors>>
  <2>1. /\ TaskType'
        /\ \A n \in Messages : \/ task'[n] = task[n]
                               \/ task[n] = "none" /\ task'[n] = "waiting"
        /\ Tasks' \subseteq Tasks \cup {m}
        /\ hand' \in {Nobody, m} /\ stale' \in BOOLEAN
        /\ \/ pc' = "slot" /\ hand' = m /\ m \notin Tasks'
           \/ pc' = "recover" /\ recovering
           \/ pc' = "loop"
    BY <1>2, <1>u, EnterLeaves DEF IInv
  <2>2. DispatchType' /\ Nobody \notin Messages
    BY <1>2, <1>u, <2>1 DEF IInv, TypeOK, DispatchType, Nobody, Messages
  <2>3. UNCHANGED <<sentVars, storeVars, channel, paused, got, boundVars>>
    BY <1>2, <1>u DEF boundVars
  <2> QED BY <1>2, <1>u, <2>1, <2>2, <2>3, QuietDispatch
<1> QED BY <1>1, <1>2 DEF RecoverNext

LEMMA RecoverEndKeeps ==
  ASSUME IInv, RecoverEnd PROVE IInv'
<1>1. /\ UNCHANGED <<sentVars, storeVars, channel, paused, got, boundVars>>
      /\ UNCHANGED <<bus, hand, stale, todo, recoveryDue, taskVars>>
      /\ pc = "recover" /\ pc' = "loop" /\ recovering' = FALSE
  BY DEF RecoverEnd
<1>2. TaskType' /\ DispatchType' /\ Tasks' = Tasks /\ task' = task
  BY <1>1 DEF IInv, TypeOK, TaskType, DispatchType, taskVars, Tasks
<1>3. ~paused /\ bus' \in Seq(Messages)
  BY <1>1 DEF IInv, TypeOK, Control, Parked
<1> QED BY <1>1, <1>2, <1>3, QuietDispatch DEF IInv, Control, Carried

(* A message on its way from the queue to a task.                          *)
LEMMA RouteMessageKeeps ==
  ASSUME IInv, NEW m \in Messages, RouteMessage(m), kind[m] # "none", ~paused,
         UNCHANGED <<sentVars, recovering, todo, recoveryDue, channel, paused,
                     got, disturbances>>,
         bus' \in Seq(Messages), \A i \in DOMAIN bus' : kind[bus'[i]] # "none"
  PROVE  IInv'
<1>u. /\ UNCHANGED <<sentVars, got>> /\ UNCHANGED <<kind, to, channel, paused>>
      /\ UNCHANGED <<recovering, todo, recoveryDue, disturbances>>
      /\ to[m] \in Chats /\ Nobody \notin Messages
      /\ \A n \in todo : kind[n] = "result"
  BY DEF sentVars, IInv, TypeOK, Data, Numbered, Control, Carried, Nobody,
     Messages
<1>1. CASE /\ channel[Channel(m)] = "off"
           /\ kind[m] = "plain" /\ UNCHANGED <<storeVars, errors>>
           /\ Onward /\ UNCHANGED taskVars
  <2>1. /\ TaskType' /\ DispatchType' /\ Tasks' = Tasks /\ task' = task
        /\ hand' = Nobody /\ pc' \in {"recover", "loop"}
        /\ pc' = "recover" => recovering'
    BY <1>1, <1>u DEF IInv, TypeOK, TaskType, DispatchType, taskVars, Tasks,
       Onward
  <2>2. UNCHANGED <<sentVars, storeVars, channel, paused, got, boundVars>>
    BY <1>1, <1>u DEF boundVars
  <2> QED BY <1>u, <2>1, <2>2, QuietDispatch
<1>2. CASE /\ channel[Channel(m)] = "off" /\ kind[m] = "result"
           /\ FinishRow(m, "failed") \/ StoreFails
           /\ \/ Onward
              \/ pc' = "dead" /\ hand' = Nobody /\ UNCHANGED stale
           /\ UNCHANGED <<task, previous, tails>>
           /\ cancelling' \in {cancelling, Tasks}
  <2>1. StoreType' /\ errors' \in Nat
    BY <1>2, StoreTypes DEF IInv, Status
  <2>2. /\ SentType' /\ TaskType' /\ DispatchType' /\ RestType'
        /\ Tasks' = Tasks /\ task' = task
        /\ hand' = Nobody /\ pc' \in {"recover", "loop", "dead"}
        /\ pc' = "recover" => recovering'
    BY <1>2, <1>u, <2>1 DEF IInv, TypeOK, SentType, TaskType, DispatchType,
       RestType, Tasks, sentVars, Onward
  <2>3. TypeOK'
    BY <2>1, <2>2, TypeGroups
  <2>4. Data'
    BY <1>2, <1>u, <2>2, <2>3, CloseStep
  <2>5. Control'
    BY <1>u, <2>2, ControlStep DEF IInv
  <2> QED BY <2>3, <2>4, <2>5 DEF IInv
<1>3. CASE /\ channel[Channel(m)] # "off" /\ Enter(m)
           /\ UNCHANGED <<storeVars, errors>>
  <2>1. /\ TaskType'
        /\ \A n \in Messages : \/ task'[n] = task[n]
                               \/ task[n] = "none" /\ task'[n] = "waiting"
        /\ Tasks' \subseteq Tasks \cup {m}
        /\ hand' \in {Nobody, m} /\ stale' \in BOOLEAN
        /\ \/ pc' = "slot" /\ hand' = m /\ m \notin Tasks'
           \/ pc' = "recover" /\ recovering
           \/ pc' = "loop"
    BY <1>3, <1>u, EnterLeaves DEF IInv
  <2>2. DispatchType'
    BY <1>u, <2>1 DEF IInv, TypeOK, DispatchType
  <2>3. UNCHANGED <<sentVars, storeVars, channel, paused, got, boundVars>>
    BY <1>3, <1>u DEF boundVars
  <2> QED BY <1>3, <1>u, <2>1, <2>2, <2>3, QuietDispatch
<1>4. Refuse(m) => \/ /\ kind[m] = "plain" /\ UNCHANGED <<storeVars, errors>>
                      /\ Onward /\ UNCHANGED taskVars
                   \/ /\ kind[m] = "result"
                      /\ FinishRow(m, "failed") \/ StoreFails
                      /\ \/ Onward
                         \/ pc' = "dead" /\ hand' = Nobody /\ UNCHANGED stale
                      /\ UNCHANGED <<task, previous, tails>>
                      /\ cancelling' \in {cancelling, Tasks}
  BY DEF Refuse, taskVars
<1> QED BY <1>1, <1>2, <1>3, <1>4 DEF RouteMessage

LEMMA TakeKeeps ==
  ASSUME IInv, Take PROVE IInv'
<1>1. /\ bus \in Seq(Messages) /\ bus # <<>>
      /\ \A i \in DOMAIN bus : kind[bus[i]] # "none"
      /\ Head(bus) \in Messages /\ bus' = Tail(bus)
      /\ UNCHANGED <<sentVars, recovering, todo, recoveryDue, channel, paused,
                     got, disturbances>>
  BY HeadTailProperties DEF IInv, TypeOK, Control, Carried, Take
<1>2. /\ Tail(bus) \in Seq(Messages) /\ kind[Head(bus)] # "none"
      /\ \A i \in DOMAIN Tail(bus) : kind[Tail(bus)[i]] # "none"
  BY <1>1
<1>3. CASE MayRoute /\ RouteMessage(Head(bus))
  BY <1>1, <1>2, <1>3, RouteMessageKeeps DEF MayRoute
<1>4. CASE /\ ~MayRoute
           /\ hand' = Head(bus) /\ pc' = "held"
           /\ UNCHANGED <<stale, taskVars, storeVars, errors>>
  <2>1. /\ UNCHANGED <<sentVars, row, swept, got, errors>>
        /\ UNCHANGED <<kind, to, channel, paused, recovering, todo, task>>
    BY <1>1, <1>4 DEF sentVars, storeVars, taskVars
  <2>2. /\ SentType' /\ StoreType' /\ TaskType' /\ DispatchType' /\ RestType'
        /\ Tasks' = Tasks
    BY <1>1, <1>2, <1>4, TypeGroups DEF IInv, TypeOK, sentVars, storeVars,
       taskVars, SentType, StoreType, TaskType, DispatchType, RestType, Tasks,
       Status
  <2>3. TypeOK'
    BY <2>2, TypeGroups
  <2>4. Data'
    BY <2>1, <2>3, MemoryStep DEF IInv
  <2>5. Carried'
    BY <1>1, <1>2, <1>4, <2>1, <2>2 DEF IInv, Control, Carried, Nobody,
       Messages
  <2>6. OffIsIdle'
    BY <2>1, <2>2 DEF IInv, Control, OffIsIdle, Channel
  <2>7. Parked'
    BY <1>4, <2>1, <2>2 DEF IInv, Control, Parked
  <2> QED BY <2>3, <2>4, <2>5, <2>6, <2>7 DEF IInv, Control
<1> QED BY <1>3, <1>4 DEF Take

LEMMA RouteKeeps ==
  ASSUME IInv, Route PROVE IInv'
<1>1. /\ hand \in Messages /\ kind[hand] # "none" /\ ~paused
      /\ RouteMessage(hand)
      /\ bus' = bus /\ bus \in Seq(Messages)
      /\ UNCHANGED <<sentVars, recovering, todo, recoveryDue, channel, paused,
                     got, disturbances>>
  BY DEF IInv, TypeOK, Control, Carried, Route, MayRoute
<1> QED BY <1>1, RouteMessageKeeps DEF IInv, Control, Carried

LEMMA QueueKeeps ==
  ASSUME IInv, Queue PROVE IInv'
<1>1. /\ hand \in Messages /\ kind[hand] # "none" /\ ~paused
      /\ to[hand] \in Chats /\ bus \in Seq(Messages) /\ bus' = bus
      /\ UNCHANGED <<sentVars, storeVars, channel, paused, got, boundVars>>
      /\ todo' = todo /\ recovering' = recovering
      /\ hand' = Nobody /\ pc' \in {"recover", "loop"}
      /\ pc' = "recover" => recovering'
      /\ \A i \in DOMAIN bus : kind[bus[i]] # "none"
  BY DEF IInv, TypeOK, Control, Carried, Parked, Data, Numbered, Queue, Onward
<1>2. DispatchType'
  BY DEF IInv, TypeOK, DispatchType, Queue, Onward
<1>3. CASE UNCHANGED taskVars
  <2>1. TaskType' /\ task' = task /\ Tasks' = Tasks
    BY <1>3 DEF IInv, TypeOK, TaskType, taskVars, Tasks
  <2> QED BY <1>1, <1>2, <2>1, QuietDispatch
<1>4. CASE channel[Channel(hand)] = "on" /\ CreateTask(hand)
  <2>1. TaskType' /\ task[hand] = "none"
    BY <1>1, <1>4 DEF IInv, TypeOK, TaskType, CreateTask, Queue, Control,
       Carried, Tasks
  <2>2. \A n \in Messages : task'[n] = task[n]
                            \/ (n = hand /\ task'[n] = "waiting")
    BY <1>1, <1>4 DEF IInv, TypeOK, CreateTask
  <2>3. /\ Tasks' \subseteq Tasks \cup {hand}
        /\ \A n \in Messages : \/ task'[n] = task[n]
                               \/ task[n] = "none" /\ task'[n] = "waiting"
    BY <2>1, <2>2 DEF Tasks
  <2> QED BY <1>1, <1>2, <1>4, <2>1, <2>3, QuietDispatch
<1> QED BY <1>3, <1>4 DEF Queue

-----------------------------------------------------------------------------
(* The rest of the gateway, time and the operator                          *)

LEMMA PublishKeeps ==
  ASSUME IInv, NEW k \in {"result", "plain"}, NEW c \in Chats, Publish(k, c)
  PROVE  IInv'
<1> DEFINE m == published + 1
<1>b. MaxMessages \in Nat
  BY BoundsAssumption
<1>1. /\ m \in Messages /\ kind[m] = "none"
      /\ published' = m /\ m \in 0..MaxMessages
      /\ kind' = [kind EXCEPT ![m] = k] /\ to' = [to EXCEPT ![m] = c]
      /\ bus' = Append(bus, m)
      /\ UNCHANGED <<dispatchVars, taskVars, channel, paused, got, boundVars>>
  BY <1>b DEF Publish, IInv, TypeOK, Messages, Data, Numbered
<1>2. /\ UNCHANGED <<pc, hand, recovering, todo, channel, paused, task>>
      /\ Tasks' = Tasks /\ TaskType' /\ DispatchType'
  BY <1>1 DEF dispatchVars, taskVars, Tasks, IInv, TypeOK, TaskType,
     DispatchType
<1>3. SentType' /\ RestType'
  BY <1>1, AppendProperties DEF IInv, TypeOK, SentType, RestType, boundVars
<1>4. StoreType'
  <2>1. CASE k = "plain"
    BY <2>1 DEF Publish, storeVars, IInv, TypeOK, StoreType, Status
  <2>2. CASE k = "result"
    <3>1. /\ row' = [Current EXCEPT ![m] = "pending"] /\ due' = due \cup {m}
          /\ swept' = TRUE /\ UNCHANGED <<aged, replaced>>
      BY <2>2 DEF Publish
    <3> QED BY <1>1, <3>1 DEF IInv, TypeOK, StoreType, Status, Current,
            Pruned, Opened
  <2> QED BY <2>1, <2>2
<1>5. TypeOK'
  BY <1>2, <1>3, <1>4, TypeGroups
<1>6. Data'
  BY <1>5, PublishStep DEF IInv, Control
<1>k. \A n \in Messages : \/ kind'[n] = kind[n] /\ to'[n] = to[n]
                          \/ n = m /\ kind'[n] = k
  BY <1>1 DEF IInv, TypeOK
<1>7. Carried'
  <2>1. \A i \in DOMAIN bus' : kind'[bus'[i]] # "none"
    <3> SUFFICES ASSUME NEW i \in DOMAIN bus' PROVE kind'[bus'[i]] # "none"
      OBVIOUS
    <3>1. bus \in Seq(Messages) /\ \A j \in DOMAIN bus : kind[bus[j]] # "none"
      BY DEF IInv, TypeOK, Control, Carried
    <3>2. \/ i \in DOMAIN bus /\ bus'[i] = bus[i] /\ bus[i] \in Messages
          \/ bus'[i] = m
      BY <1>1, <3>1
    <3>3. CASE bus'[i] = m
      BY <1>1, <3>3 DEF IInv, TypeOK
    <3>4. CASE i \in DOMAIN bus /\ bus'[i] = bus[i] /\ bus[i] \in Messages
      BY <1>1, <1>k, <3>1, <3>4
    <3> QED BY <3>2, <3>3, <3>4
  <2>2. \A n \in Messages : kind[n] # "none" => kind'[n] = kind[n]
    BY <1>1, <1>k
  <2> QED BY <1>2, <2>1, <2>2 DEF IInv, TypeOK, Control, Carried, Tasks
<1>8. OffIsIdle'
  <2> SUFFICES ASSUME NEW n \in Messages, n \in Tasks
               PROVE  channel[ChannelOf[to'[n]]] # "off"
    BY <1>2 DEF OffIsIdle, Channel
  <2>1. kind[n] # "none"
    BY DEF IInv, Control, Carried
  <2> QED BY <1>1, <1>k, <2>1 DEF IInv, Control, OffIsIdle, Channel
<1>9. Parked'
  BY <1>2 DEF IInv, Control, Parked
<1> QED BY <1>5, <1>6, <1>7, <1>8, <1>9 DEF IInv, Control

LEMMA TimeStep ==
  ASSUME IInv,
         UNCHANGED <<sentVars, row, swept, bus, pc, hand, stale, recovering,
                     todo, taskVars, channel, paused, got, errors>>,
         due' \subseteq Messages, aged' \subseteq Messages,
         replaced' \subseteq Messages, recoveryDue' \in BOOLEAN,
         disturbances' \in Nat
  PROVE  IInv'
<1>1. /\ UNCHANGED <<sentVars, row, swept, got, errors>>
      /\ UNCHANGED <<sentVars, bus, pc, hand, recovering, todo, channel,
                     paused>>
      /\ task' = task
  BY DEF taskVars
<1>2. /\ SentType' /\ StoreType' /\ TaskType' /\ DispatchType' /\ RestType'
      /\ Tasks' = Tasks
  BY DEF IInv, TypeOK, SentType, StoreType, TaskType, DispatchType,
     RestType, Status, Tasks, sentVars, taskVars
<1>3. TypeOK'
  BY <1>2, TypeGroups
<1>4. Data'
  BY <1>1, <1>3, MemoryStep DEF IInv
<1>5. Control'
  BY <1>1, <1>2, ControlFrame DEF IInv
<1> QED BY <1>3, <1>4, <1>5 DEF IInv

LEMMA TimeKeeps ==
  ASSUME IInv,
         \/ RecoveryTime
         \/ \E m \in Messages : RetryTime(m) \/ MaxAge(m) \/ ReplaceSession(m)
  PROVE  IInv'
<1>1. CASE RecoveryTime
  BY <1>1, TimeStep DEF RecoveryTime, timeFrame, boundVars, IInv, TypeOK
<1>2. ASSUME NEW m \in Messages, RetryTime(m) PROVE IInv'
  BY <1>2, TimeStep DEF RetryTime, timeFrame, boundVars, IInv, TypeOK
<1>3. ASSUME NEW m \in Messages, MaxAge(m) PROVE IInv'
  BY <1>3, TimeStep DEF MaxAge, timeFrame, boundVars, IInv, TypeOK
<1>4. ASSUME NEW m \in Messages, ReplaceSession(m) PROVE IInv'
  BY <1>4, TimeStep DEF ReplaceSession, Disturb, dispatchVars, IInv, TypeOK
<1> QED BY <1>1, <1>2, <1>3, <1>4

(* Steps of the operator that change neither the queue nor the tasks.      *)
LEMMA OperatorStep ==
  ASSUME IInv, UNCHANGED <<sentVars, storeVars, bus, task, got, errors>>,
         DispatchType', TaskType', channel' \in [Channels -> {"on", "stopping", "off"}],
         paused' \in BOOLEAN, disturbances' \in Nat
  PROVE  TypeOK' /\ Data' /\ Tasks' = Tasks
<1>1. /\ UNCHANGED <<sentVars, row, swept, got, errors>>
      /\ SentType' /\ StoreType' /\ RestType' /\ Tasks' = Tasks
  BY DEF sentVars, storeVars, IInv, TypeOK, SentType, StoreType, RestType,
     Status, Tasks
<1>2. TypeOK'
  BY <1>1, TypeGroups
<1>3. Data'
  BY <1>1, <1>2, MemoryStep DEF IInv
<1> QED BY <1>1, <1>2, <1>3

LEMMA StopChannelKeeps ==
  ASSUME IInv, NEW n \in Channels, StopChannel(n) PROVE IInv'
<1>1. /\ UNCHANGED <<sentVars, storeVars, bus, task, got, errors>>
      /\ UNCHANGED <<kind, to, pc, hand, recovering, todo, paused, bus>>
      /\ channel' = [channel EXCEPT ![n] = "stopping"]
      /\ disturbances' \in Nat
  BY DEF StopChannel, Disturb, sentVars, IInv, TypeOK
<1>2. DispatchType' /\ TaskType'
  BY DEF StopChannel, IInv, TypeOK, DispatchType, TaskType, TasksOf, Tasks
<1>3. channel' \in [Channels -> {"on", "stopping", "off"}] /\ paused' \in BOOLEAN
  BY <1>1 DEF IInv, TypeOK
<1>4. TypeOK' /\ Data' /\ Tasks' = Tasks
  BY <1>1, <1>2, <1>3, OperatorStep
<1>5. Carried'
  BY <1>1, <1>4 DEF IInv, Control, Carried
<1>6. OffIsIdle'
  <2> SUFFICES ASSUME NEW m \in Messages, m \in Tasks
               PROVE  channel'[Channel(m)] # "off"
    BY <1>1, <1>4 DEF OffIsIdle, Channel
  <2>1. channel[Channel(m)] # "off"
    BY DEF IInv, Control, OffIsIdle
  <2>2. Channel(m) \in Channels
    BY ChannelsAssumption DEF IInv, TypeOK, Control, Carried, Data, Numbered, Channel
  <2> QED BY <1>1, <2>1, <2>2 DEF IInv, TypeOK
<1>7. Parked'
  BY <1>1, <1>4 DEF IInv, Control, Parked
<1> QED BY <1>4, <1>5, <1>6, <1>7 DEF IInv, Control

LEMMA ChannelStoppedKeeps ==
  ASSUME IInv, NEW n \in Channels, ChannelStopped(n) PROVE IInv'
<1>1. PICK s \in {"on", "off"} : channel' = [channel EXCEPT ![n] = s]
  BY DEF ChannelStopped
<1>2. /\ UNCHANGED <<sentVars, storeVars, bus, task, got, errors>>
      /\ UNCHANGED <<kind, to, pc, hand, recovering, todo, paused, bus>>
      /\ TasksOf(n) = {} /\ disturbances' \in Nat
      /\ DispatchType' /\ TaskType'
  BY DEF ChannelStopped, sentVars, dispatchVars, taskVars, boundVars, IInv,
     TypeOK, DispatchType, TaskType
<1>3. channel' \in [Channels -> {"on", "stopping", "off"}] /\ paused' \in BOOLEAN
  BY <1>1, <1>2 DEF IInv, TypeOK
<1>4. TypeOK' /\ Data' /\ Tasks' = Tasks
  BY <1>2, <1>3, OperatorStep
<1>5. Carried'
  BY <1>2, <1>4 DEF IInv, Control, Carried
<1>6. OffIsIdle'
  <2> SUFFICES ASSUME NEW m \in Messages, m \in Tasks
               PROVE  channel'[Channel(m)] # "off"
    BY <1>2, <1>4 DEF OffIsIdle, Channel
  <2>1. channel[Channel(m)] # "off" /\ Channel(m) # n
    BY <1>2 DEF IInv, Control, OffIsIdle, TasksOf
  <2>2. Channel(m) \in Channels
    BY ChannelsAssumption DEF IInv, TypeOK, Control, Carried, Data, Numbered, Channel
  <2> QED BY <1>1, <2>1, <2>2 DEF IInv, TypeOK
<1>7. Parked'
  BY <1>2, <1>4 DEF IInv, Control, Parked
<1> QED BY <1>4, <1>5, <1>6, <1>7 DEF IInv, Control

LEMMA PauseKeeps ==
  ASSUME IInv, Pause \/ Release PROVE IInv'
<1>1. /\ UNCHANGED <<sentVars, storeVars, bus, task, got, errors>>
      /\ UNCHANGED <<kind, to, pc, hand, recovering, todo, channel, bus>>
      /\ UNCHANGED <<dispatchVars, taskVars>>
  BY DEF Pause, Release, sentVars, dispatchVars, taskVars, boundVars
<1>d. paused' \in BOOLEAN /\ disturbances' \in Nat
  <2>1. CASE Pause
    BY <2>1 DEF Pause, Disturb, IInv, TypeOK
  <2>2. CASE Release
    BY <2>2 DEF Release, boundVars, IInv, TypeOK
  <2> QED BY <2>1, <2>2
<1>g. DispatchType' /\ TaskType'
  BY <1>1 DEF dispatchVars, taskVars, IInv, TypeOK, DispatchType, TaskType
<1>2. channel' \in [Channels -> {"on", "stopping", "off"}]
  BY <1>1 DEF IInv, TypeOK
<1>3. TypeOK' /\ Data' /\ Tasks' = Tasks
  BY <1>1, <1>d, <1>g, <1>2, OperatorStep
<1>4. Carried' /\ OffIsIdle'
  BY <1>1, <1>3 DEF IInv, Control, Carried, OffIsIdle, Channel
<1>5. Parked'
  <2>1. CASE Pause
    BY <1>1, <1>3, <2>1 DEF Pause, Idle, IInv, Control, Carried, Parked
  <2>2. CASE Release
    BY <2>2 DEF Release, Parked
  <2> QED BY <2>1, <2>2
<1> QED BY <1>3, <1>4, <1>5 DEF IInv, Control

LEMMA ShutDownKeeps ==
  ASSUME IInv, ShutDown PROVE IInv'
<1>1. /\ UNCHANGED <<sentVars, storeVars, bus, task, got, errors>>
      /\ UNCHANGED <<kind, to, channel, paused, bus>>
      /\ pc' = "stopped" /\ hand' = Nobody /\ recovering' = FALSE /\ todo' = {}
      /\ disturbances' \in Nat /\ paused' \in BOOLEAN
      /\ UNCHANGED <<recoveryDue, previous, tails>>
      /\ cancelling' = Tasks /\ stale' = FALSE
  BY DEF ShutDown, Disturb, sentVars, IInv, TypeOK
<1>g. DispatchType' /\ TaskType'
  BY <1>1 DEF IInv, TypeOK, DispatchType, TaskType, Tasks
<1>2. channel' \in [Channels -> {"on", "stopping", "off"}]
  BY <1>1 DEF IInv, TypeOK
<1>3. TypeOK' /\ Data' /\ Tasks' = Tasks
  BY <1>1, <1>g, <1>2, OperatorStep
<1>4. Control'
  BY <1>1, <1>3 DEF IInv, Control, Carried, OffIsIdle, Channel, Parked
<1> QED BY <1>3, <1>4 DEF IInv

LEMMA RestartKeeps ==
  ASSUME IInv, Restarted, disturbances' \in Nat PROVE IInv'
<1>1. /\ Tasks' = {} /\ bus' = <<>> /\ pc' = "loop" /\ hand' = Nobody
      /\ recovering' = FALSE /\ todo' = {} /\ paused' \in BOOLEAN
      /\ kind' = kind
  BY DEF Restarted, Tasks, sentVars
<1>2. TypeOK'
  <2>1. SentType' /\ StoreType' /\ DispatchType' /\ TaskType'
    BY DEF Restarted, IInv, TypeOK, SentType, StoreType, DispatchType,
       TaskType, Status, sentVars
  <2>2. RestType'
    BY EmptySeq DEF Restarted, IInv, TypeOK, RestType
  <2> QED BY <2>1, <2>2, TypeGroups
<1>3. Data'
  BY RestartStep DEF IInv
<1>4. Control'
  BY <1>1 DEF Control, Carried, OffIsIdle, Parked
<1> QED BY <1>2, <1>3, <1>4 DEF IInv

-----------------------------------------------------------------------------
(* The invariant                                                           *)

LEMMA InitIInv == Init => IInv
<1> SUFFICES ASSUME Init PROVE IInv
  OBVIOUS
<1>1. TypeOK
  <2>1. SentType
    BY BoundsAssumption DEF Init, SentType
  <2>2. StoreType
    BY DEF Init, StoreType, Status
  <2>3. DispatchType
    BY DEF Init, DispatchType
  <2>4. TaskType
    BY DEF Init, TaskType
  <2>5. RestType
    BY EmptySeq DEF Init, RestType
  <2> QED BY <2>1, <2>2, <2>3, <2>4, <2>5, TypeGroups
<1>2. Data
  BY BoundsAssumption DEF Init, Data, Numbered, Claimed, Stuck, Foremost,
     Outcome, Older, Messages, InAdapter
<1>3. Control
  BY DEF Init, Control, Carried, OffIsIdle, Parked, Tasks
<1> QED BY <1>1, <1>2, <1>3 DEF IInv

LEMMA StutterKeeps == ASSUME IInv, UNCHANGED vars PROVE IInv'
BY DEF vars, sentVars, storeVars, dispatchVars, taskVars, boundVars, IInv,
   TypeOK, Data, Control, Numbered, Claimed, Stuck, Foremost, Outcome, Older,
   Carried, OffIsIdle, Parked, Tasks, Channel

LEMMA NextKeeps == ASSUME IInv, [Next]_vars PROVE IInv'
<1>1. CASE Dispatch
  BY <1>1, RecoverKeeps, RecoverNextKeeps, RecoverEndKeeps, TakeKeeps,
     RouteKeeps, QueueKeeps DEF Dispatch
<1>2. ASSUME NEW m \in Messages, TaskStep(m) PROVE IInv'
  BY <1>2, StartKeeps, PlainKeeps, AcceptKeeps, ReturnKeeps DEF TaskStep
<1>3. CASE \/ RecoveryTime
           \/ \E m \in Messages : RetryTime(m) \/ MaxAge(m) \/ ReplaceSession(m)
  BY <1>3, TimeKeeps
<1>4. ASSUME NEW k \in {"result", "plain"}, NEW c \in Chats, Publish(k, c)
      PROVE  IInv'
  BY <1>4, PublishKeeps
<1>5. ASSUME NEW n \in Channels, StopChannel(n) \/ ChannelStopped(n)
      PROVE  IInv'
  BY <1>5, StopChannelKeeps, ChannelStoppedKeeps
<1>6. CASE Pause \/ Release \/ ShutDown
  BY <1>6, PauseKeeps, ShutDownKeeps
<1>7. CASE Crash \/ Restart
  BY <1>7, RestartKeeps, SMTT(30) DEF Crash, Restart, Disturb, IInv, TypeOK
<1>8. CASE UNCHANGED vars
  BY <1>8, StutterKeeps
<1> QED BY <1>1, <1>2, <1>3, <1>4, <1>5, <1>6, <1>7, <1>8 DEF Next

(* The rows, the tasks, the dispatcher and the gate agree in every state   *)
(* (_queue_outbound, _send_scheduled and the methods of DeliveryOutbox).   *)
THEOREM Invariant == Spec => []IInv
BY InitIInv, NextKeeps, PTL DEF Spec

(* Every variable keeps its type, whatever the bounds.                     *)
THEOREM TypeCorrect == Spec => []TypeOK
<1>1. IInv => TypeOK
  BY DEF IInv
<1> QED BY <1>1, Invariant, PTL

(* The status of a result tells the truth about what the service got.      *)
THEOREM StatusIsTrue == Spec => []StatusTruthful
<1>1. IInv => StatusTruthful
  BY DEF IInv, Data, Outcome, StatusTruthful
<1> QED BY <1>1, Invariant, PTL

(* Maintenance holds the gate over a process without sends.                *)
THEOREM MaintenanceIsQuiet == Spec => []QuietInMaintenance
<1>1. IInv => QuietInMaintenance
  BY DEF IInv, Control, Parked, QuietInMaintenance
<1> QED BY <1>1, Invariant, PTL

-----------------------------------------------------------------------------
(* The refinement of ResultMailbox                                         *)

BoxTo == [m \in Messages |-> IF m \in Results THEN to[m] ELSE NoChat]
BoxOpen == {m \in Messages : row[m] \in Open}
BoxDelivered == [m \in Messages |-> IF m \in Results THEN got[m] ELSE 0]

(* No row of an old message is opened again.                               *)
RowsOnlyClose == \A n \in Messages : row'[n] \in Open => row[n] \in Open

LEMMA SettleMaps ==
  ASSUME RowsOnlyClose, UNCHANGED <<BoxTo, BoxDelivered>>
  PROVE  Mailbox!Next
<1>0. PICK S \in SUBSET Messages :
        S = {n \in Messages : row[n] \in Open /\ row'[n] \notin Open}
  OBVIOUS
<1>1. BoxOpen' = BoxOpen \ S
  BY <1>0 DEF RowsOnlyClose, BoxOpen
<1>2. Mailbox!Settle(S)
  BY <1>1 DEF Mailbox!Settle, BoxTo, BoxOpen, BoxDelivered
<1> QED BY <1>2 DEF Mailbox!Next

LEMMA SameBox ==
  ASSUME UNCHANGED <<kind, to, got>>
  PROVE  UNCHANGED <<BoxTo, BoxDelivered>>
BY DEF BoxTo, BoxDelivered, Results

LEMMA FinishCloses ==
  ASSUME TypeOK, NEW m \in Messages, NEW s \in Status \ {"none", "sending"},
         FinishRow(m, s) \/ StoreFails
  PROVE  RowsOnlyClose
<1>1. CASE FinishRow(m, s)
  <2>1. /\ \A n \in Messages \ {m} : Lapse(n)
        /\ \/ Lapse(m)
           \/ row[m] \in Open
    BY <1>1, FinishMoves DEF Open
  <2> QED BY <2>1 DEF RowsOnlyClose, Lapse, Open
<1>2. CASE StoreFails
  BY <1>2 DEF StoreFails, storeVars, RowsOnlyClose
<1> QED BY <1>1, <1>2

LEMMA CurrentCloses ==
  ASSUME TypeOK, row' = Current PROVE RowsOnlyClose
BY DEF TypeOK, Current, Pruned, Opened, RowsOnlyClose, Open

LEMMA StartMaps ==
  ASSUME IInv, NEW m \in Messages, Start(m) PROVE Mailbox!Next
<1>1. UNCHANGED <<kind, to, got>>
  BY DEF Start, sentVars
<1>2. CASE FinishRow(m, "failed") \/ StoreFails
  BY <1>1, <1>2, FinishCloses, SameBox, SettleMaps DEF IInv, Status
<1>3. CASE Claimable(m) /\ row' = [Current EXCEPT ![m] = "sending"]
  <2>1. RowsOnlyClose
    BY <1>3 DEF IInv, TypeOK, Claimable, Current, Pruned, Opened,
       RowsOnlyClose, Open
  <2> QED BY <1>1, <2>1, SameBox, SettleMaps
<1>4. CASE row' = Current
  BY <1>1, <1>4, CurrentCloses, SameBox, SettleMaps DEF IInv
<1> QED BY <1>2, <1>3, <1>4 DEF Start

LEMMA ReturnMaps ==
  ASSUME IInv, NEW m \in Messages, Return(m) PROVE Mailbox!Next
<1>1. UNCHANGED <<kind, to, got>>
  BY DEF Return, sentVars
<1>2. \E s \in Status \ {"none", "sending"} : FinishRow(m, s) \/ StoreFails
  BY DEF Return, Outcomes, Status
<1> QED BY <1>1, <1>2, FinishCloses, SameBox, SettleMaps DEF IInv

LEMMA RouteMessageMaps ==
  ASSUME IInv, NEW m \in Messages, RouteMessage(m), UNCHANGED <<sentVars, got>>
  PROVE  Mailbox!Next
<1>1. UNCHANGED <<kind, to, got>>
  BY DEF sentVars
<1>2. CASE UNCHANGED storeVars
  BY <1>1, <1>2, SameBox, SettleMaps DEF storeVars, RowsOnlyClose
<1>3. CASE FinishRow(m, "failed") \/ StoreFails
  BY <1>1, <1>3, FinishCloses, SameBox, SettleMaps DEF IInv, Status
<1>4. \/ UNCHANGED storeVars
      \/ FinishRow(m, "failed") \/ StoreFails
  BY DEF RouteMessage, Refuse, storeVars
<1> QED BY <1>2, <1>3, <1>4

LEMMA DispatchMaps ==
  ASSUME IInv, Dispatch PROVE Mailbox!Next
<1>1. CASE Recover
  <2>1. UNCHANGED <<kind, to, got>>
    BY <1>1 DEF Recover, sentVars
  <2>2. RowsOnlyClose
    <3>1. row' = Current \/ row' = row
      BY <1>1 DEF Recover, StoreFails, storeVars
    <3> QED BY <3>1, CurrentCloses DEF IInv, RowsOnlyClose
  <2> QED BY <2>1, <2>2, SameBox, SettleMaps
<1>2. ASSUME NEW m \in Messages, RecoverNext(m) PROVE Mailbox!Next
  <2>1. UNCHANGED <<kind, to, got>>
    BY <1>2 DEF RecoverNext, sentVars
  <2>2. RowsOnlyClose
    <3>1. \/ UNCHANGED storeVars
          \/ FinishRow(m, "failed") \/ StoreFails
      BY <1>2 DEF RecoverNext
    <3>2. CASE UNCHANGED storeVars
      BY <3>2 DEF storeVars, RowsOnlyClose
    <3>3. CASE FinishRow(m, "failed") \/ StoreFails
      BY <3>3, FinishCloses DEF IInv, Status
    <3> QED BY <3>1, <3>2, <3>3
  <2> QED BY <2>1, <2>2, SameBox, SettleMaps
<1>3. CASE RecoverEnd \/ Queue
  BY <1>3, SameBox, SettleMaps
     DEF RecoverEnd, Queue, sentVars, storeVars, RowsOnlyClose
<1>4. CASE Take
  <2>1. bus \in Seq(Messages) /\ bus # <<>> /\ UNCHANGED <<sentVars, got>>
    BY <1>4 DEF Take, IInv, TypeOK
  <2>2. Head(bus) \in Messages
    BY <2>1
  <2>3. CASE RouteMessage(Head(bus))
    BY <2>1, <2>2, <2>3, RouteMessageMaps
  <2>4. CASE UNCHANGED storeVars
    <3>1. UNCHANGED <<kind, to, got, row>>
      BY <2>1, <2>4 DEF sentVars, storeVars
    <3> QED BY <3>1, SameBox, SettleMaps DEF RowsOnlyClose
  <2>5. RouteMessage(Head(bus)) \/ UNCHANGED storeVars
    BY <1>4 DEF Take, storeVars
  <2> QED BY <2>3, <2>4, <2>5
<1>5. CASE Route
  <2>1. hand \in Messages /\ RouteMessage(hand) /\ UNCHANGED <<sentVars, got>>
    BY <1>5 DEF Route, IInv, Control, Carried, TypeOK
  <2> QED BY <2>1, RouteMessageMaps
<1> QED BY <1>1, <1>2, <1>3, <1>4, <1>5 DEF Dispatch

(* The adapter hands a result to the service.                              *)
LEMMA AcceptMaps ==
  ASSUME IInv, NEW m \in Messages, Accept(m) PROVE Mailbox!Next
<1>1. /\ UNCHANGED <<kind, to, row>> /\ task[m] = "adapter"
      /\ got' = [got EXCEPT ![m] = @ + 1] /\ got \in [Messages -> Nat]
  BY DEF Accept, sentVars, storeVars, IInv, TypeOK
<1>2. CASE kind[m] # "result"
  <2>1. UNCHANGED <<BoxTo, BoxDelivered>>
    BY <1>1, <1>2 DEF BoxTo, BoxDelivered, Results
  <2> QED BY <1>1, <2>1, SettleMaps DEF RowsOnlyClose
<1>3. CASE kind[m] = "result"
  <2>1. row[m] = "sending" /\ got[m] = 0 /\ to[m] \in Chats
    BY <1>1, <1>3 DEF IInv, Data, Claimed, Numbered, InAdapter
  <2>2. ASSUME NEW n \in Messages, n > m, BoxTo[n] = BoxTo[m]
        PROVE  BoxDelivered[n] = 0
    <3>1. n \in Results /\ to[n] = to[m]
      BY <1>3, <2>1, <2>2, ChatsAssumption DEF BoxTo, Results
    <3>2. m \in Older(n)
      BY <2>2, <3>1 DEF Older, Messages
    <3>3. row[m] \in Open /\ kind[n] = "result" /\ got[n] \in Nat
      BY <1>1, <2>1, <3>1 DEF Results, Open
    <3>4. kind[n] = "result" /\ (row[n] = "sending" \/ got[n] > 0)
          => row[m] \notin Open
      BY <3>2 DEF IInv, Data, Foremost
    <3>5. got[n] = 0
      BY <3>3, <3>4
    <3> QED BY <3>5 DEF BoxDelivered
  <2>3. BoxDelivered' = [BoxDelivered EXCEPT ![m] = 1]
    <3>1. got' = [got EXCEPT ![m] = 1] /\ Results' = Results /\ m \in Results
      BY <1>1, <1>3, <2>1 DEF Results
    <3> QED BY <1>1, <3>1 DEF BoxDelivered
  <2>4. BoxTo' = BoxTo /\ BoxOpen' = BoxOpen
    BY <1>1 DEF BoxTo, BoxOpen, Results
  <2>5. m \in BoxOpen /\ BoxDelivered[m] = 0
    BY <1>3, <2>1 DEF BoxOpen, BoxDelivered, Results, Open
  <2>6. Mailbox!Deliver(m)
    BY <2>2, <2>3, <2>4, <2>5
       DEF Mailbox!Deliver, BoxTo, BoxOpen, BoxDelivered
  <2> QED BY <2>6 DEF Mailbox!Next
<1> QED BY <1>2, <1>3

LEMMA PublishMaps ==
  ASSUME IInv, NEW k \in {"result", "plain"}, NEW c \in Chats, Publish(k, c)
  PROVE  Mailbox!Next
<1> DEFINE m == published + 1
<1>b. MaxMessages \in Nat
  BY BoundsAssumption
<1>1. /\ m \in Messages /\ kind[m] = "none" /\ got[m] = 0
      /\ \A n \in Messages : kind[n] # "none" => n < m
      /\ kind' = [kind EXCEPT ![m] = k] /\ to' = [to EXCEPT ![m] = c]
      /\ got' = got
  BY <1>b DEF Publish, IInv, TypeOK, Messages, Data, Numbered
<1>2. CASE k = "plain"
  <2>1. row' = row
    BY <1>2 DEF Publish, storeVars
  <2>2. UNCHANGED <<BoxTo, BoxDelivered>>
    BY <1>1, <1>2 DEF IInv, TypeOK, BoxTo, BoxDelivered, Results
  <2> QED BY <2>1, <2>2, SettleMaps DEF RowsOnlyClose
<1>3. CASE k = "result"
  <2>0. PICK S \in SUBSET Messages :
          S = {n \in Messages : row[n] \in Open /\ row'[n] \notin Open}
    OBVIOUS
  <2>1. row' = [Current EXCEPT ![m] = "pending"]
    BY <1>3 DEF Publish
  <2>2. /\ row'[m] = "pending"
        /\ \A n \in Messages \ {m} : row'[n] \in Open => row[n] \in Open
    BY <1>1, <2>1 DEF IInv, TypeOK, Current, Pruned, Opened, Open
  <2>3. BoxOpen' = (BoxOpen \ S) \cup {m}
    BY <1>1, <2>0, <2>2 DEF BoxOpen, Open
  <2>4. Results' = Results \cup {m} /\ m \notin Results
    BY <1>1, <1>3 DEF IInv, TypeOK, Results
  <2>5. BoxTo' = [BoxTo EXCEPT ![m] = c]
    BY <1>1, <2>4 DEF IInv, TypeOK, BoxTo
  <2>6. BoxDelivered' = BoxDelivered
    BY <1>1, <2>4 DEF BoxDelivered
  <2>7. BoxTo[m] = NoChat /\ \A n \in Messages : BoxTo[n] = c => n < m
    BY <1>1, <2>4, ChatsAssumption DEF BoxTo, Results
  <2>8. Mailbox!Put(m, c, S)
    BY <2>3, <2>5, <2>6, <2>7 DEF Mailbox!Put, BoxTo, BoxOpen, BoxDelivered
  <2> QED BY <1>1, <2>8 DEF Mailbox!Next
<1> QED BY <1>2, <1>3

(* Every other step leaves rows and deliveries alone.                      *)
LEMMA OtherMaps ==
  ASSUME UNCHANGED <<kind, to, row, got>> PROVE Mailbox!Next
BY SameBox, SettleMaps DEF RowsOnlyClose

LEMMA NextMaps ==
  ASSUME IInv, [Next]_vars PROVE Mailbox!Next
<1>1. CASE Dispatch
  BY <1>1, DispatchMaps
<1>2. ASSUME NEW m \in Messages, TaskStep(m) PROVE Mailbox!Next
  <2>1. CASE Start(m) \/ Return(m) \/ Accept(m)
    BY <2>1, StartMaps, ReturnMaps, AcceptMaps
  <2>2. CASE \/ StartPlain(m) \/ ReturnPlain(m) \/ RetryPlain(m)
             \/ Cancelled(m)
    BY <2>2, OtherMaps DEF StartPlain, ReturnPlain, RetryPlain, Cancelled,
       sentVars, storeVars
  <2> QED BY <1>2, <2>1, <2>2 DEF TaskStep
<1>3. ASSUME NEW m \in Messages,
             RetryTime(m) \/ MaxAge(m) \/ ReplaceSession(m)
      PROVE  Mailbox!Next
  BY <1>3, OtherMaps
     DEF RetryTime, MaxAge, ReplaceSession, timeFrame, sentVars
<1>4. ASSUME NEW k \in {"result", "plain"}, NEW c \in Chats, Publish(k, c)
      PROVE  Mailbox!Next
  BY <1>4, PublishMaps
<1>5. ASSUME NEW n \in Channels, StopChannel(n) \/ ChannelStopped(n)
      PROVE  Mailbox!Next
  BY <1>5, OtherMaps DEF StopChannel, ChannelStopped, sentVars, storeVars
<1>6. CASE RecoveryTime \/ Pause \/ Release \/ ShutDown
  BY <1>6, OtherMaps
     DEF RecoveryTime, Pause, Release, ShutDown, timeFrame, sentVars, storeVars
<1>7. CASE Crash \/ Restart
  BY <1>7, OtherMaps DEF Crash, Restart, Restarted, sentVars
<1>8. CASE UNCHANGED vars
  BY <1>8, OtherMaps DEF vars, sentVars, storeVars
<1> QED BY <1>1, <1>2, <1>3, <1>4, <1>5, <1>6, <1>7, <1>8 DEF Next

LEMMA InitMaps == ASSUME Init PROVE Mailbox!Init
BY DEF Init, Mailbox!Init, Results, Open

(* Rows, tasks, recoveries and restarts together deliver every result at   *)
(* most once and in the order of its chat.                                 *)
THEOREM KeepsMailbox == Spec => ImplementsMailbox
<1>1. Init => Mailbox!Init
  BY InitMaps
<1>2. IInv /\ [Next]_vars => [Mailbox!Next]_(Mailbox!vars)
  BY NextMaps
<1> QED BY <1>1, <1>2, Invariant, PTL DEF Spec, ImplementsMailbox, Mailbox!Spec

-----------------------------------------------------------------------------
(* The order of the ordinary messages of a chat.                           *)

Plain(m) == m # Nobody /\ kind[m] = "plain"
Reached(m) == m \in Tasks \/ got[m] > 0

(* The queue is in the order of publication, the message in the hands of   *)
(* the dispatcher comes before it and what got further before both.        *)
Line ==
  /\ \A i, j \in 1 .. Len(bus) : i < j => bus[i] < bus[j]
  /\ Plain(hand) => \A i \in 1 .. Len(bus) : hand < bus[i]
  /\ \A n \in Messages : Plain(n) /\ Reached(n) =>
       /\ \A i \in 1 .. Len(bus) : n < bus[i]
       /\ Plain(hand) => n < hand

(* A cancellation takes all tasks of a channel, and none is added after.   *)
CalledOff ==
  /\ cancelling \subseteq Tasks
  /\ \A m \in cancelling : channel[Channel(m)] = "stopping" \/ pc \in {"stopped", "dead"}
  /\ \A m \in cancelling, n \in Tasks : Channel(m) = Channel(n) => n \in cancelling

Ends ==
  /\ \A m \in Messages : task[m] \in InAdapter => previous[m] = Nobody
  /\ \A c \in Chats : tails[c] # Nobody => tails[c] \in Tasks /\ to[tails[c]] = c

(* The tasks of a chat that were not cancelled wait for one another in the *)
(* order in which they were created, and plain ones in that of publication.*)
Lined == Tasks \ cancelling

Ranked(f) ==
  \A s, t \in Lined : to[s] = to[t] =>
    /\ tails[to[t]] \in Lined /\ f[t] <= f[tails[to[t]]]
    /\ f[s] = f[t] => s = t
    /\ f[s] < f[t] => /\ previous[t] \in Lined /\ to[previous[t]] = to[t]
                      /\ f[s] <= f[previous[t]] /\ f[previous[t]] < f[t]
    /\ (Plain(s) /\ Plain(t) /\ s < t) => f[s] < f[t]

Chained == \E f \in [Messages -> Nat] : Ranked(f)

(* When a plain message is at the adapter or was accepted, the earlier     *)
(* ones of its chat are over.                                              *)
Passed ==
  \A m, n \in Messages :
    m < n /\ Plain(m) /\ Plain(n) /\ to[m] = to[n] /\ (task[n] \in InAdapter \/ got[n] > 0)
    => m \notin Tasks

(* What a step does to the tasks.                                          *)
Frame == \A n \in Messages : kind[n] # "none" => kind'[n] = kind[n] /\ to'[n] = to[n]

Onwards ==
  /\ pc \in {"stopped", "dead"} => pc' \in {"stopped", "dead"}
  /\ \A n \in Channels : channel[n] = "stopping" => channel'[n] = "stopping" \/ TasksOf(n) = {}

Still == UNCHANGED taskVars /\ UNCHANGED got

Created(m) ==
  /\ m \notin Tasks /\ kind[m] # "none" /\ channel[Channel(m)] = "on"
  /\ pc \notin {"stopped", "dead"}
  /\ Plain(m) => m = hand \/ (bus # <<>> /\ m = Head(bus))
  /\ CreateTask(m) /\ UNCHANGED got

Ended(m) ==
  /\ m \in Tasks /\ (m \in cancelling \/ previous[m] = Nobody)
  /\ EndTask(m) /\ UNCHANGED got

Worked(m) ==
  /\ m \in Tasks /\ previous[m] = Nobody /\ (m \in cancelling => task[m] \in InAdapter)
  /\ \E x \in InAdapter : task' = [task EXCEPT ![m] = x]
  /\ UNCHANGED <<previous, tails, cancelling>>
  /\ \/ UNCHANGED got
     \/ task[m] \in InAdapter /\ got' = [got EXCEPT ![m] = @ + 1]

CalledIn ==
  /\ UNCHANGED <<task, previous, tails, got>>
  /\ \/ cancelling' = Tasks /\ pc' \in {"stopped", "dead"}
     \/ \E n \in Channels : /\ cancelling' = cancelling \cup TasksOf(n)
                            /\ channel' = [channel EXCEPT ![n] = "stopping"]

TasksMove == \/ Still \/ CalledIn
             \/ \E m \in Messages : Created(m) \/ Ended(m) \/ Worked(m)

LEMMA EnterMoves ==
  ASSUME IInv, NEW m \in Messages, Enter(m), kind[m] # "none", UNCHANGED got,
         pc \notin {"stopped", "dead"},
         Plain(m) => m = hand \/ (bus # <<>> /\ m = Head(bus))
  PROVE  Still \/ Created(m)
BY DEF Enter, Created, Still

LEMMA RouteMoves ==
  ASSUME IInv, NEW m \in Messages, RouteMessage(m), kind[m] # "none", UNCHANGED got,
         pc \notin {"stopped", "dead"},
         Plain(m) => m = hand \/ (bus # <<>> /\ m = Head(bus))
  PROVE  Still \/ CalledIn \/ Created(m)
<1>1. CASE Enter(m)
  BY <1>1, EnterMoves
<1>2. CASE Refuse(m)
  BY <1>2 DEF Refuse, Still, CalledIn, taskVars
<1> QED BY <1>1, <1>2 DEF RouteMessage

LEMMA NextMoves ==
  ASSUME IInv, Ends, [Next]_vars
  PROVE  (Frame /\ Onwards /\ TasksMove) \/ Restarted
<1>0. TypeOK /\ Data /\ Control
  BY DEF IInv
<1>1. CASE Dispatch
  <2>1. UNCHANGED sentVars /\ UNCHANGED channel /\ UNCHANGED got /\ pc \notin {"stopped", "dead"}
    BY <1>1 DEF Dispatch, Recover, RecoverNext, RecoverEnd, Take, Route, Queue, sentVars
  <2>2. Frame /\ Onwards
    BY <2>1 DEF Frame, Onwards, sentVars
  <2>3. CASE Recover \/ RecoverEnd
    BY <2>1, <2>2, <2>3 DEF Recover, RecoverEnd, TasksMove, Still
  <2>4. ASSUME NEW m \in Messages, RecoverNext(m)
        PROVE  Still \/ Created(m)
    <3>1. kind[m] = "result"
      BY <1>0, <2>4 DEF RecoverNext, Control, Carried
    <3>2. Still \/ Enter(m)
      BY <2>1, <2>4 DEF RecoverNext, Still
    <3> QED
      BY <2>1, <3>1, <3>2, EnterMoves DEF Plain
  <2>5. CASE Take
    <3>1. Head(bus) \in Messages /\ bus # <<>> /\ kind[Head(bus)] # "none"
      BY <1>0, <2>5 DEF Take, TypeOK, Control, Carried
    <3>2. Still \/ RouteMessage(Head(bus))
      BY <2>1, <2>5 DEF Take, Still
    <3>3. Still \/ CalledIn \/ Created(Head(bus))
      BY <2>1, <3>1, <3>2, RouteMoves
    <3> QED
      BY <2>2, <3>1, <3>3 DEF TasksMove
  <2>6. CASE Route
    <3>1. hand \in Messages /\ kind[hand] # "none" /\ RouteMessage(hand)
      BY <1>0, <2>6 DEF Route, TypeOK, Control, Carried
    <3>3. Still \/ CalledIn \/ Created(hand)
      BY <2>1, <3>1, RouteMoves
    <3> QED
      BY <2>2, <3>1, <3>3 DEF TasksMove
  <2>7. CASE Queue
    <3>1. hand \in Messages /\ kind[hand] # "none" /\ hand \notin Tasks
      BY <1>0, <2>7 DEF Queue, TypeOK, Control, Carried
    <3>2. Still \/ Created(hand)
      BY <2>1, <2>7, <3>1 DEF Queue, Still, Created
    <3> QED
      BY <2>2, <3>1, <3>2 DEF TasksMove
  <2> QED
    BY <1>1, <2>2, <2>3, <2>4, <2>5, <2>6, <2>7 DEF Dispatch, TasksMove
<1>2. ASSUME NEW m \in Messages, TaskStep(m)
      PROVE  Frame /\ Onwards /\ TasksMove
  <2>1. UNCHANGED sentVars /\ UNCHANGED channel /\ UNCHANGED pc
    BY <1>2 DEF TaskStep, Start, StartPlain, Accept, Return, ReturnPlain, RetryPlain, Cancelled,
       sentVars, dispatchVars
  <2>2. Frame /\ Onwards
    BY <2>1 DEF Frame, Onwards, sentVars
  <2>3. CASE Start(m)
    <3>1. m \in Tasks /\ previous[m] = Nobody /\ m \notin cancelling /\ UNCHANGED got
      BY <2>3 DEF Start, MayStart, Tasks
    <3>2. \/ EndTask(m)
          \/ task' = [task EXCEPT ![m] = "adapter"] /\ UNCHANGED <<previous, tails, cancelling>>
      BY <2>3 DEF Start
    <3> QED
      BY <2>2, <3>1, <3>2 DEF TasksMove, Ended, Worked, InAdapter
  <2>4. CASE StartPlain(m)
    <3>1. m \in Tasks /\ previous[m] = Nobody /\ m \notin cancelling /\ UNCHANGED got
      BY <2>4 DEF StartPlain, MayStart, Tasks
    <3>2. task' = [task EXCEPT ![m] = "adapter"] /\ UNCHANGED <<previous, tails, cancelling>>
      BY <2>4 DEF StartPlain
    <3> QED
      BY <2>2, <3>1, <3>2 DEF TasksMove, Worked, InAdapter
  <2>5. CASE Accept(m) \/ RetryPlain(m)
    <3>1. m \in Tasks /\ task[m] \in InAdapter /\ previous[m] = Nobody
      BY <2>5 DEF Accept, RetryPlain, Tasks, InAdapter, Ends
    <3>2. /\ \E x \in InAdapter : task' = [task EXCEPT ![m] = x]
          /\ UNCHANGED <<previous, tails, cancelling>>
          /\ UNCHANGED got \/ got' = [got EXCEPT ![m] = @ + 1]
      BY <2>5 DEF Accept, RetryPlain, InAdapter
    <3> QED
      BY <2>2, <3>1, <3>2 DEF TasksMove, Worked
  <2>6. CASE Return(m) \/ ReturnPlain(m) \/ Cancelled(m)
    <3>1. m \in Tasks /\ (m \in cancelling \/ previous[m] = Nobody)
      BY <2>6 DEF Return, ReturnPlain, Cancelled, Tasks, InAdapter, Ends
    <3>2. EndTask(m) /\ UNCHANGED got
      BY <2>6 DEF Return, ReturnPlain, Cancelled
    <3> QED
      BY <2>2, <3>1, <3>2 DEF TasksMove, Ended
  <2> QED
    BY <1>2, <2>3, <2>4, <2>5, <2>6 DEF TaskStep
<1>3. ASSUME NEW m \in Messages, RetryTime(m) \/ MaxAge(m) \/ ReplaceSession(m)
      PROVE  Frame /\ Onwards /\ TasksMove
  BY <1>3 DEF RetryTime, MaxAge, ReplaceSession, timeFrame, sentVars, Frame, Onwards, TasksMove,
     Still, taskVars, dispatchVars
<1>4. ASSUME NEW k \in {"result", "plain"}, NEW c \in Chats, Publish(k, c)
      PROVE  Frame /\ Onwards /\ TasksMove
  <2>1. Onwards /\ Still
    BY <1>4 DEF Publish, Onwards, Still, dispatchVars
  <2>2. Frame
    BY <1>0, <1>4, BoundsAssumption DEF Publish, Frame, Data, Numbered, TypeOK, Messages
  <2> QED
    BY <2>1, <2>2 DEF TasksMove
<1>5. ASSUME NEW n \in Channels, StopChannel(n) \/ ChannelStopped(n)
      PROVE  Frame /\ Onwards /\ TasksMove
  <2>1. CASE StopChannel(n)
    BY <1>0, <2>1 DEF StopChannel, sentVars, Frame, Onwards, TasksMove, CalledIn, TypeOK
  <2>2. CASE ChannelStopped(n)
    BY <1>0, <2>2 DEF ChannelStopped, sentVars, dispatchVars, Frame, Onwards, TasksMove, Still,
       TypeOK
  <2> QED
    BY <1>5, <2>1, <2>2
<1>6. CASE RecoveryTime \/ Pause \/ Release \/ UNCHANGED vars
  BY <1>6 DEF RecoveryTime, Pause, Release, vars, timeFrame, sentVars, dispatchVars, Frame, Onwards,
     TasksMove, Still, taskVars
<1>7. CASE ShutDown
  BY <1>7 DEF ShutDown, sentVars, Frame, Onwards, TasksMove, CalledIn
<1>8. CASE Crash \/ Restart
  BY <1>8 DEF Crash, Restart
<1> QED
  BY <1>1, <1>2, <1>3, <1>4, <1>5, <1>6, <1>7, <1>8 DEF Next

(* A task, and what the service got, has been published.                   *)
LEMMA Known ==
  ASSUME IInv
  PROVE  /\ \A m \in Tasks : m \in Messages /\ kind[m] # "none" /\ to[m] \in Chats
                             /\ Channel(m) \in Channels
         /\ \A m \in Messages : got[m] > 0 => kind[m] # "none"
         /\ \A m, n \in Messages : m < n /\ kind[n] # "none" => kind[m] # "none"
<1>1. TypeOK /\ Numbered /\ Carried
  BY DEF IInv, Data, Control
<1>2. \A m \in Tasks : m \in Messages /\ kind[m] # "none"
  BY <1>1 DEF Carried, Tasks
<1>3. \A m \in Messages : kind[m] # "none" => to[m] \in Chats
  BY <1>1 DEF Numbered
<1>4. \A m \in Messages : got[m] > 0 => kind[m] # "none"
  BY <1>1 DEF Numbered
<1>5. \A m, n \in Messages : m < n /\ kind[n] # "none" => kind[m] # "none"
  BY <1>1, BoundsAssumption DEF Numbered, TypeOK, Messages
<1> QED
  BY <1>2, <1>3, <1>4, <1>5, ChannelsAssumption DEF Channel

(* What a step leaves of the tasks, one by one.                            *)
LEMMA TasksAfter ==
  ASSUME IInv, Frame, TasksMove
  PROVE  /\ \A m \in Tasks' : m \in Tasks \/ Created(m)
         /\ \A m \in Tasks : /\ kind'[m] = kind[m] /\ to'[m] = to[m]
                             /\ Channel(m)' = Channel(m)
<1>1. TypeOK /\ \A m \in Tasks : m \in Messages /\ kind[m] # "none"
  BY Known DEF IInv
<1>2. \A m \in Tasks' : m \in Tasks \/ Created(m)
  <2>1. CASE Still \/ CalledIn
    BY <2>1 DEF Still, CalledIn, taskVars, Tasks
  <2>2. ASSUME NEW n \in Messages, Created(n)
        PROVE  \A m \in Tasks' : m \in Tasks \/ m = n
    BY <1>1, <2>2 DEF Created, CreateTask, Tasks, TypeOK
  <2>3. ASSUME NEW n \in Messages, Ended(n) \/ Worked(n)
        PROVE  \A m \in Tasks' : m \in Tasks
    BY <1>1, <2>3 DEF Ended, EndTask, Worked, Tasks, TypeOK
  <2> QED
    BY <2>1, <2>2, <2>3 DEF TasksMove
<1> QED
  BY <1>1, <1>2 DEF Frame, Channel

LEMMA RestartedClears ==
  ASSUME Restarted
  PROVE  Tasks' = {} /\ cancelling' = {} /\ CalledOff' /\ Ends' /\ Chained' /\ Passed'
<1>1. /\ \A m \in Messages : task'[m] = "none" /\ previous'[m] = Nobody
      /\ \A c \in Chats : tails'[c] = Nobody
      /\ cancelling' = {}
  BY DEF Restarted
<1>2. Tasks' = {}
  BY <1>1 DEF Tasks
<1>3. Chained'
  <2> DEFINE f == [m \in Messages |-> 0]
  <2>1. f \in [Messages -> Nat] /\ Ranked(f)'
    BY <1>2 DEF Ranked, Lined
  <2> HIDE DEF f
  <2> QED
    BY <2>1 DEF Chained
<1> QED
  BY <1>1, <1>2, <1>3 DEF CalledOff, Ends, InAdapter, Passed

LEMMA NextCalledOff ==
  ASSUME IInv, CalledOff, Frame, Onwards, TasksMove
  PROVE  CalledOff'
<1>0. /\ TypeOK /\ \A m \in Tasks : m \in Messages /\ Channel(m) \in Channels
      /\ \A m \in Tasks : Channel(m)' = Channel(m)
  BY Known, TasksAfter DEF IInv
<1>1. CASE Still
  <2>1. Tasks' = Tasks /\ cancelling' = cancelling
    BY <1>1 DEF Still, taskVars, Tasks
  <2>2. \A m \in cancelling : channel'[Channel(m)] = "stopping" \/ pc' \in {"stopped", "dead"}
    BY <1>0 DEF CalledOff, Onwards, TasksOf
  <2> QED
    BY <1>0, <2>1, <2>2 DEF CalledOff
<1>2. ASSUME NEW n \in Messages, Created(n)
      PROVE  CalledOff'
  <2>1. Tasks' = Tasks \cup {n} /\ cancelling' = cancelling
    BY <1>0, <1>2 DEF Created, CreateTask, Tasks, TypeOK
  <2>2. Channel(n)' = Channel(n)
    BY <1>2 DEF Created, Frame, Channel
  <2>3. \A m \in cancelling : Channel(m) # Channel(n)
    BY <1>2 DEF CalledOff, Created
  <2>4. \A m \in cancelling : channel'[Channel(m)] = "stopping" \/ pc' \in {"stopped", "dead"}
    BY <1>0 DEF CalledOff, Onwards, TasksOf
  <2> QED
    BY <1>0, <2>1, <2>2, <2>3, <2>4 DEF CalledOff
<1>3. ASSUME NEW n \in Messages, Ended(n) \/ Worked(n)
      PROVE  CalledOff'
  <2>1. \/ Tasks' = Tasks \ {n} /\ cancelling' = cancelling \ {n}
        \/ Tasks' = Tasks /\ cancelling' = cancelling
    BY <1>0, <1>3 DEF Ended, EndTask, Worked, InAdapter, Tasks, TypeOK
  <2>2. \A m \in cancelling : channel'[Channel(m)] = "stopping" \/ pc' \in {"stopped", "dead"}
    BY <1>0 DEF CalledOff, Onwards, TasksOf
  <2> QED
    BY <1>0, <2>1, <2>2 DEF CalledOff
<1>4. CASE CalledIn
  <2>1. Tasks' = Tasks
    BY <1>4 DEF CalledIn, Tasks
  <2>2. CASE cancelling' = Tasks /\ pc' \in {"stopped", "dead"}
    BY <1>0, <2>1, <2>2 DEF CalledOff
  <2>3. ASSUME NEW n \in Channels, cancelling' = cancelling \cup TasksOf(n),
               channel' = [channel EXCEPT ![n] = "stopping"]
        PROVE  CalledOff'
    <3>1. channel'[n] = "stopping" /\ TasksOf(n) = {m \in Tasks : Channel(m) = n}
      BY <1>0, <2>3 DEF TypeOK, TasksOf
    <3>2. \A m \in cancelling : channel'[Channel(m)] = "stopping" \/ pc' \in {"stopped", "dead"}
      BY <1>0 DEF CalledOff, Onwards, TasksOf
    <3> QED
      BY <1>0, <2>1, <2>3, <3>1, <3>2 DEF CalledOff
  <2> QED
    BY <1>4, <2>2, <2>3 DEF CalledIn
<1> QED
  BY <1>1, <1>2, <1>3, <1>4 DEF TasksMove

LEMMA NextEnds ==
  ASSUME IInv, Ends, Frame, TasksMove
  PROVE  Ends'
<1>0. /\ TypeOK /\ \A m \in Tasks : m \in Messages /\ to'[m] = to[m] /\ to[m] \in Chats
      /\ Nobody \notin Messages
  BY Known, TasksAfter DEF IInv, Nobody, Messages
<1>1. CASE Still \/ CalledIn
  <2>1. UNCHANGED <<task, previous, tails>> /\ Tasks' = Tasks
    BY <1>1 DEF Still, CalledIn, taskVars, Tasks
  <2> QED
    BY <1>0, <2>1 DEF Ends
<1>2. ASSUME NEW n \in Messages, Created(n)
      PROVE  Ends'
  <2>1. /\ task' = [task EXCEPT ![n] = "waiting"]
        /\ previous' = [previous EXCEPT ![n] = tails[to[n]]]
        /\ tails' = [tails EXCEPT ![to[n]] = n] /\ to'[n] = to[n]
    BY <1>2 DEF Created, CreateTask, Frame
  <2>2. Tasks' = Tasks \cup {n}
    BY <1>0, <2>1 DEF Tasks, TypeOK
  <2> QED
    BY <1>0, <2>1, <2>2 DEF Ends, TypeOK, InAdapter
<1>3. ASSUME NEW n \in Messages, Ended(n)
      PROVE  Ends'
  <2>1. /\ task' = [task EXCEPT ![n] = "none"]
        /\ \A m \in Messages : previous'[m] = IF m = n \/ previous[m] = n THEN Nobody ELSE previous[m]
        /\ \A c \in Chats : tails'[c] = IF tails[c] = n THEN Nobody ELSE tails[c]
    BY <1>3 DEF Ended, EndTask
  <2>2. Tasks' = Tasks \ {n}
    BY <1>0, <2>1 DEF Tasks, TypeOK
  <2> QED
    BY <1>0, <2>1, <2>2 DEF Ends, TypeOK, InAdapter
<1>4. ASSUME NEW n \in Messages, Worked(n)
      PROVE  Ends'
  <2>1. UNCHANGED <<previous, tails>> /\ previous[n] = Nobody /\ Tasks' = Tasks
        /\ \A m \in Messages : m # n => task'[m] = task[m]
    BY <1>0, <1>4 DEF Worked, Tasks, InAdapter, TypeOK
  <2> QED
    BY <1>0, <2>1 DEF Ends
<1> QED
  BY <1>1, <1>2, <1>3, <1>4 DEF TasksMove

(* The rank of a new task is above that of the task it waits for.          *)
LEMMA CreatedChains ==
  ASSUME IInv, Line, CalledOff, Ends, Chained, Frame, TasksMove, NEW n \in Messages, Created(n)
  PROVE  Chained'
<1>0. /\ TypeOK /\ Nobody \notin Messages
      /\ \A m \in Tasks : m \in Messages /\ kind'[m] = kind[m] /\ to'[m] = to[m] /\ to[m] \in Chats
      /\ kind'[n] = kind[n] /\ to'[n] = to[n] /\ to[n] \in Chats
  BY Known, TasksAfter DEF IInv, Nobody, Messages, Created, Frame, Data, Numbered
<1>1. /\ n \notin Tasks
      /\ previous' = [previous EXCEPT ![n] = tails[to[n]]]
      /\ tails' = [tails EXCEPT ![to[n]] = n] /\ Tasks' = Tasks \cup {n} /\ cancelling' = cancelling
  BY <1>0 DEF Created, CreateTask, Tasks, TypeOK
<1>2. Lined' = Lined \cup {n}
  BY <1>1 DEF Lined, CalledOff
<1>3. PICK f \in [Messages -> Nat] : Ranked(f)
  BY DEF Chained
<1> DEFINE c == to[n]
           u == tails[c]
<1>4. u # Nobody => u \in Lined /\ to[u] = c
  <2>1. u \in Tasks /\ to[u] = c => Channel(u) = Channel(n)
    BY DEF Channel
  <2>2. \A m \in cancelling : Channel(m) # Channel(n)
    BY DEF CalledOff, Created
  <2>3. u # Nobody => u \in Tasks /\ to[u] = c
    BY <1>0 DEF Ends
  <2> QED
    BY <2>1, <2>2, <2>3 DEF Lined
<1>5. \A s \in Lined : to[s] = c => u \in Lined /\ f[s] <= f[u]
  BY <1>3 DEF Ranked
<1>6. \A s \in Lined : Plain(s) /\ Plain(n) => s < n
  <2>1. ASSUME NEW s \in Lined, Plain(s), Plain(n)
        PROVE  s < n
    <3>1. s \in Messages /\ Reached(s)
      BY <1>0 DEF Lined, Reached
    <3>2. CASE n = hand
      BY <2>1, <3>1, <3>2 DEF Line
    <3>3. CASE bus # <<>> /\ n = Head(bus)
      <4>1. 1 \in 1 .. Len(bus) /\ n = bus[1]
        BY <1>0, <3>3 DEF TypeOK
      <4> QED
        BY <2>1, <3>1, <4>1 DEF Line
    <3> QED
      BY <2>1, <3>2, <3>3 DEF Created
  <2> QED
    BY <2>1
<1> DEFINE k == IF u = Nobody THEN 0 ELSE f[u] + 1
<1>7. /\ k \in Nat /\ Lined \subseteq Messages /\ n \notin Lined
      /\ u # Nobody => f[u] < k
  BY <1>0, <1>1, <1>3, <1>4 DEF Lined
<1> HIDE DEF k
<1>8. PICK g \in [Messages -> Nat] : g[n] = k /\ \A m \in Lined : g[m] = f[m]
  <2>1. [f EXCEPT ![n] = k] \in [Messages -> Nat]
    BY <1>3, <1>7
  <2>2. [f EXCEPT ![n] = k][n] = k /\ \A m \in Lined : [f EXCEPT ![n] = k][m] = f[m]
    BY <1>3, <1>7
  <2> QED
    BY <2>1, <2>2
<1>9. /\ previous'[n] = u /\ tails'[c] = n
      /\ \A m \in Lined : previous'[m] = previous[m]
      /\ \A d \in Chats : d # c => tails'[d] = tails[d]
  BY <1>0, <1>1, <1>7 DEF TypeOK
<1>10. /\ to'[n] = c /\ c \in Chats
       /\ \A m \in Lined : to'[m] = to[m] /\ to[m] \in Chats /\ kind'[m] = kind[m]
  BY <1>0 DEF Lined
<1>11. \A m \in Lined \cup {n} : Plain(m)' => Plain(m)
  BY <1>0, <1>10 DEF Plain
<1> HIDE DEF u, c
<1>12. ASSUME NEW s \in Lined', NEW t \in Lined', to'[s] = to'[t]
       PROVE  /\ tails'[to'[t]] \in Lined' /\ g[t] <= g[tails'[to'[t]]]
              /\ g[s] = g[t] => s = t
              /\ g[s] < g[t] => /\ previous'[t] \in Lined' /\ to'[previous'[t]] = to'[t]
                                /\ g[s] <= g[previous'[t]] /\ g[previous'[t]] < g[t]
              /\ (Plain(s)' /\ Plain(t)' /\ s < t) => g[s] < g[t]
  <2>1. CASE s # n /\ t # n
    <3>1. s \in Lined /\ t \in Lined /\ to[s] = to[t]
      BY <1>2, <1>10, <1>12, <2>1
    <3>2. /\ tails[to[t]] \in Lined /\ f[t] <= f[tails[to[t]]]
          /\ f[s] = f[t] => s = t
          /\ f[s] < f[t] => /\ previous[t] \in Lined /\ to[previous[t]] = to[t]
                            /\ f[s] <= f[previous[t]] /\ f[previous[t]] < f[t]
          /\ (Plain(s) /\ Plain(t) /\ s < t) => f[s] < f[t]
      BY <1>3, <3>1 DEF Ranked
    <3>3. tails'[to'[t]] \in Lined' /\ g[t] <= g[tails'[to'[t]]]
      <4>1. CASE to[t] = c
        <5>1. u \in Lined /\ f[t] <= f[u] /\ f[u] < k
          BY <1>0, <1>5, <1>7, <3>1, <4>1
        <5>2. f[t] \in Nat /\ f[u] \in Nat
          BY <1>3, <1>7, <3>1, <5>1
        <5> QED
          BY <1>2, <1>7, <1>8, <1>9, <1>10, <3>1, <4>1, <5>1, <5>2
      <4>2. CASE to[t] # c
        BY <1>2, <1>8, <1>9, <1>10, <3>1, <3>2, <4>2
      <4> QED
        BY <4>1, <4>2
    <3> QED
      BY <1>2, <1>8, <1>9, <1>10, <1>11, <3>1, <3>2, <3>3
  <2>2. CASE t = n
    <3>1. tails'[to'[t]] = n
      BY <1>9, <1>10, <2>2
    <3>2. CASE s = n
      <4>1. g[t] \in Nat /\ s \in Int /\ t \in Int /\ n \in Lined'
        BY <1>2, <1>8, <2>2, <3>2 DEF Messages
      <4> QED
        BY <2>2, <3>1, <3>2, <4>1
    <3>3. CASE s # n
      <4>1. s \in Lined /\ to[s] = c
        BY <1>2, <1>10, <1>12, <2>2, <3>3
      <4>2. u \in Lined /\ f[s] <= f[u] /\ f[u] < k /\ to[u] = c
        BY <1>0, <1>4, <1>5, <1>7, <4>1
      <4>3. f[s] \in Nat /\ f[u] \in Nat
        BY <1>3, <1>7, <4>1, <4>2
      <4> QED
        BY <1>2, <1>7, <1>8, <1>9, <1>10, <2>2, <3>1, <4>1, <4>2, <4>3
    <3> QED
      BY <3>2, <3>3
  <2>3. CASE s = n /\ t # n
    <3>1. t \in Lined /\ to[t] = c
      BY <1>2, <1>10, <1>12, <2>3
    <3>2. u \in Lined /\ f[t] <= f[u] /\ f[u] < k
      BY <1>0, <1>4, <1>5, <1>7, <3>1
    <3>3. f[t] \in Nat /\ f[u] \in Nat
      BY <1>3, <1>7, <3>1, <3>2
    <3>4. ~(Plain(s)' /\ Plain(t)' /\ s < t)
      <4>1. s \in Int /\ t \in Int
        BY <1>7, <2>3, <3>1 DEF Messages
      <4> QED
        BY <1>6, <1>11, <2>3, <3>1, <4>1
    <3>5. tails'[to'[t]] = n /\ g[s] = k /\ g[t] = f[t] /\ n \in Lined'
      BY <1>2, <1>8, <1>9, <1>10, <2>3, <3>1
    <3> QED
      BY <1>7, <1>8, <3>2, <3>3, <3>4, <3>5
  <2> QED
    BY <2>1, <2>2, <2>3
<1>13. Ranked(g)'
  BY <1>12 DEF Ranked
<1> QED
  BY <1>8, <1>13 DEF Chained

(* Ranks remain good for what is left of a line.                           *)
LEMMA RanksRemain ==
  ASSUME NEW f \in [Messages -> Nat], Ranked(f), Lined' \subseteq Lined,
         \A t \in Lined' :
           /\ to'[t] = to[t] /\ kind'[t] = kind[t]
           /\ tails'[to[t]] = tails[to[t]] /\ tails[to[t]] \in Lined'
           /\ \/ previous'[t] = previous[t] /\ (previous[t] \in Lined => previous[t] \in Lined' \/ to[previous[t]] # to[t])
              \/ \A s \in Lined' : to[s] = to[t] => ~(f[s] < f[t])
  PROVE  Ranked(f)'
<1>1. ASSUME NEW s \in Lined', NEW t \in Lined', to'[s] = to'[t]
      PROVE  /\ tails'[to'[t]] \in Lined' /\ f[t] <= f[tails'[to'[t]]]
             /\ f[s] = f[t] => s = t
             /\ f[s] < f[t] => /\ previous'[t] \in Lined' /\ to'[previous'[t]] = to'[t]
                               /\ f[s] <= f[previous'[t]] /\ f[previous'[t]] < f[t]
             /\ (Plain(s)' /\ Plain(t)' /\ s < t) => f[s] < f[t]
  <2>1. s \in Lined /\ t \in Lined /\ to[s] = to[t] /\ to'[t] = to[t]
    BY <1>1
  <2>2. /\ tails[to[t]] \in Lined /\ f[t] <= f[tails[to[t]]]
        /\ f[s] = f[t] => s = t
        /\ f[s] < f[t] => /\ previous[t] \in Lined /\ to[previous[t]] = to[t]
                          /\ f[s] <= f[previous[t]] /\ f[previous[t]] < f[t]
        /\ (Plain(s) /\ Plain(t) /\ s < t) => f[s] < f[t]
    BY <2>1 DEF Ranked
  <2>3. tails'[to'[t]] = tails[to[t]] /\ tails[to[t]] \in Lined'
    BY <1>1, <2>1
  <2>4. Plain(s)' /\ Plain(t)' => Plain(s) /\ Plain(t)
    BY <1>1 DEF Plain
  <2>5. ASSUME f[s] < f[t]
        PROVE  previous'[t] = previous[t] /\ previous[t] \in Lined' /\ to'[previous[t]] = to[t]
    <3>1. previous'[t] = previous[t] /\ previous[t] \in Lined'
      BY <1>1, <2>1, <2>2, <2>5
    <3> QED
      BY <2>2, <2>5, <3>1
  <2> QED
    BY <2>1, <2>2, <2>3, <2>4, <2>5
<1> QED
  BY <1>1 DEF Ranked

LEMMA NextChained ==
  ASSUME IInv, Line, CalledOff, Ends, Chained, Frame, TasksMove
  PROVE  Chained'
<1>0. /\ TypeOK /\ Nobody \notin Messages
      /\ \A m \in Tasks : m \in Messages /\ kind'[m] = kind[m] /\ to'[m] = to[m] /\ to[m] \in Chats
  BY Known, TasksAfter DEF IInv, Nobody, Messages
<1>1. PICK f \in [Messages -> Nat] : Ranked(f)
  BY DEF Chained
<1>2. \A t \in Lined : /\ t \in Tasks /\ t \in Messages /\ to[t] \in Chats
                       /\ tails[to[t]] \in Lined /\ to[tails[to[t]]] = to[t]
                       /\ f[t] <= f[tails[to[t]]]
  <2>1. \A t \in Lined : t \in Tasks /\ t \in Messages /\ to[t] \in Chats
    BY <1>0 DEF Lined
  <2>2. \A t \in Lined : tails[to[t]] \in Lined /\ f[t] <= f[tails[to[t]]]
    BY <1>1 DEF Ranked
  <2> QED
    BY <1>0, <2>1, <2>2 DEF Ends, Lined
<1>3. ASSUME Ranked(f)'
      PROVE  Chained'
  BY <1>3 DEF Chained
<1>4. CASE Still \/ \E n \in Messages : Worked(n)
  <2>1. UNCHANGED <<previous, tails, cancelling>> /\ Tasks' = Tasks
    BY <1>0, <1>4 DEF Still, Worked, taskVars, Tasks, InAdapter, TypeOK
  <2>2. Lined' = Lined
    BY <2>1 DEF Lined
  <2> QED
    BY <1>0, <1>1, <1>2, <1>3, <2>1, <2>2, RanksRemain
<1>5. CASE CalledIn
  <2>1. Tasks' = Tasks /\ UNCHANGED <<previous, tails>>
    BY <1>5 DEF CalledIn, Tasks
  <2>2. CASE cancelling' = Tasks
    <3>1. Lined' = {}
      BY <2>1, <2>2 DEF Lined
    <3>2. Ranked(f)'
      BY <3>1 DEF Ranked
    <3> QED
      BY <1>3, <3>2
  <2>3. ASSUME NEW n \in Channels, cancelling' = cancelling \cup TasksOf(n)
        PROVE  Chained'
    <3>1. Lined' = {t \in Lined : Channel(t) # n}
      BY <2>1, <2>3 DEF Lined, TasksOf
    <3>2. \A s, t \in Lined : to[s] = to[t] => Channel(s) = Channel(t)
      BY DEF Channel
    <3>3. \A t \in Lined' : /\ tails[to[t]] \in Lined'
                            /\ previous[t] \in Lined => previous[t] \in Lined' \/ to[previous[t]] # to[t]
      BY <1>2, <3>1, <3>2
    <3> QED
      BY <1>0, <1>1, <1>2, <1>3, <2>1, <3>1, <3>3, RanksRemain
  <2> QED
    BY <1>5, <2>2, <2>3 DEF CalledIn
<1>6. ASSUME NEW n \in Messages, Ended(n)
      PROVE  Chained'
  <2>1. /\ n \in Tasks /\ Tasks' = Tasks \ {n} /\ cancelling' = cancelling \ {n}
        /\ \A m \in Messages : previous'[m] = IF m = n \/ previous[m] = n THEN Nobody ELSE previous[m]
        /\ \A c \in Chats : tails'[c] = IF tails[c] = n THEN Nobody ELSE tails[c]
    BY <1>0, <1>6 DEF Ended, EndTask, Tasks, TypeOK
  <2>2. Lined' = Lined \ {n}
    BY <2>1 DEF Lined
  <2>3. CASE n \in cancelling
    <3>1. n \notin Lined
      BY <2>3 DEF Lined
    <3>2. \A t \in Lined : /\ tails[to[t]] # n /\ t # n
                           /\ previous[t] = n => \A s \in Lined : to[s] = to[t] => ~(f[s] < f[t])
      BY <1>1, <1>2, <3>1 DEF Ranked
    <3>3. Lined' = Lined
      BY <2>2, <3>1
    <3>4. \A t \in Lined' :
           /\ to'[t] = to[t] /\ kind'[t] = kind[t]
           /\ tails'[to[t]] = tails[to[t]] /\ tails[to[t]] \in Lined'
           /\ \/ previous'[t] = previous[t] /\ (previous[t] \in Lined => previous[t] \in Lined' \/ to[previous[t]] # to[t])
              \/ \A s \in Lined' : to[s] = to[t] => ~(f[s] < f[t])
      BY <1>0, <1>2, <2>1, <3>2, <3>3
    <3> QED
      BY <1>1, <1>3, <3>3, <3>4, RanksRemain
  <2>4. CASE n \notin cancelling
    <3>1. n \in Lined /\ previous[n] = Nobody /\ Nobody \notin Lined
      BY <1>0, <1>6, <2>1, <2>4 DEF Ended, Lined
    <3>2. \A s \in Lined : to[s] = to[n] /\ s # n => f[n] < f[s]
      <4>1. ASSUME NEW s \in Lined, to[s] = to[n], s # n
            PROVE  f[n] < f[s]
        <5>1. f[s] # f[n] /\ ~(f[s] < f[n])
          BY <1>1, <3>1, <4>1 DEF Ranked
        <5>2. f[s] \in Nat /\ f[n] \in Nat
          BY <1>1, <1>2
        <5> QED
          BY <5>1, <5>2
      <4> QED
        BY <4>1
    <3>3. \A t \in Lined : t # n => tails[to[t]] # n
      <4>1. ASSUME NEW t \in Lined, t # n, tails[to[t]] = n
            PROVE  FALSE
        <5>1. f[t] <= f[n] /\ f[n] < f[t]
          BY <1>2, <3>2, <4>1
        <5>2. f[t] \in Nat /\ f[n] \in Nat
          BY <1>1, <1>2
        <5> QED
          BY <5>1, <5>2
      <4> QED
        BY <4>1
    <3>4. \A s, t \in Lined : s # n /\ to[s] = to[t] /\ f[s] < f[t] => previous[t] # n
      <4>1. ASSUME NEW s \in Lined, NEW t \in Lined, s # n, to[s] = to[t], f[s] < f[t],
                   previous[t] = n
            PROVE  FALSE
        <5>1. f[s] <= f[n] /\ to[n] = to[t]
          BY <1>1, <4>1 DEF Ranked
        <5>2. f[n] < f[s]
          BY <3>2, <4>1, <5>1
        <5>3. f[s] \in Nat /\ f[n] \in Nat
          BY <1>1, <1>2
        <5> QED
          BY <5>1, <5>2, <5>3
      <4> QED
        BY <4>1
    <3>5. \A t \in Lined' :
           /\ to'[t] = to[t] /\ kind'[t] = kind[t]
           /\ tails'[to[t]] = tails[to[t]] /\ tails[to[t]] \in Lined'
           /\ \/ previous'[t] = previous[t] /\ (previous[t] \in Lined => previous[t] \in Lined' \/ to[previous[t]] # to[t])
              \/ \A s \in Lined' : to[s] = to[t] => ~(f[s] < f[t])
      <4>1. ASSUME NEW t \in Lined'
            PROVE  /\ to'[t] = to[t] /\ kind'[t] = kind[t]
                   /\ tails'[to[t]] = tails[to[t]] /\ tails[to[t]] \in Lined'
        BY <1>0, <1>2, <2>1, <2>2, <3>3
      <4>2. ASSUME NEW t \in Lined', previous[t] # n
            PROVE  previous'[t] = previous[t] /\ (previous[t] \in Lined => previous[t] \in Lined')
        BY <1>2, <2>1, <2>2, <4>2
      <4>3. ASSUME NEW t \in Lined', previous[t] = n
            PROVE  \A s \in Lined' : to[s] = to[t] => ~(f[s] < f[t])
        BY <2>2, <3>4, <4>3
      <4> QED
        BY <4>1, <4>2, <4>3
    <3>6. Lined' \subseteq Lined
      BY <2>2
    <3>7. Ranked(f)'
      BY <1>1, <3>5, <3>6, RanksRemain
    <3> QED
      BY <1>3, <3>7
  <2> QED
    BY <2>3, <2>4
<1> QED
  BY <1>4, <1>5, <1>6, CreatedChains DEF TasksMove

LEMMA NextPassed ==
  ASSUME IInv, Line, CalledOff, Ends, Chained, Passed, Frame, TasksMove
  PROVE  Passed'
<1>0. TypeOK /\ Nobody \notin Messages
  BY DEF IInv, Nobody, Messages
<1> SUFFICES ASSUME NEW m \in Messages, NEW n \in Messages, m < n, Plain(m)', Plain(n)',
                    to'[m] = to'[n], task'[n] \in InAdapter \/ got'[n] > 0, m \in Tasks'
             PROVE  FALSE
  BY DEF Passed
<1>1. \/ task[n] \in InAdapter \/ got[n] > 0
      \/ Worked(n) /\ task[n] \notin InAdapter
  <2>1. CASE Still \/ CalledIn
    BY <2>1 DEF Still, CalledIn, taskVars
  <2>2. ASSUME NEW k \in Messages, Created(k) \/ Ended(k)
        PROVE  task[n] \in InAdapter \/ got[n] > 0
    BY <1>0, <2>2 DEF Created, CreateTask, Ended, EndTask, TypeOK, InAdapter
  <2>3. ASSUME NEW k \in Messages, Worked(k), k # n
        PROVE  task[n] \in InAdapter \/ got[n] > 0
    BY <1>0, <2>3 DEF Worked, TypeOK
  <2> QED
    BY <2>1, <2>2, <2>3 DEF TasksMove
<1>2. Reached(n) /\ kind[n] # "none"
  <2>1. Reached(n)
    BY <1>1 DEF Reached, Tasks, InAdapter, Worked
  <2> QED
    BY <2>1, Known DEF Reached
<1>3. kind[m] # "none"
  BY <1>2, Known
<1>4. Plain(m) /\ Plain(n) /\ to[m] = to[n]
  BY <1>2, <1>3 DEF Frame, Plain
<1>5. m \in Tasks
  <2>1. ASSUME Created(m)
        PROVE  FALSE
    <3>1. CASE m = hand
      <4>1. n < m
        BY <1>2, <1>4, <3>1 DEF Line
      <4> QED
        BY <4>1 DEF Messages
    <3>2. CASE bus # <<>> /\ m = Head(bus)
      <4>1. 1 \in 1 .. Len(bus) /\ m = bus[1]
        BY <1>0, <3>2 DEF TypeOK
      <4>2. n < m
        BY <1>2, <1>4, <4>1 DEF Line
      <4> QED
        BY <4>2 DEF Messages
    <3> QED
      BY <1>4, <2>1, <3>1, <3>2 DEF Created
  <2> QED
    BY <2>1, TasksAfter
<1>6. Worked(n) /\ task[n] \notin InAdapter
  BY <1>1, <1>4, <1>5 DEF Passed
<1>7. n \in Lined /\ previous[n] = Nobody
  BY <1>6 DEF Worked, Lined
<1>8. m \in Lined
  BY <1>4, <1>5, <1>7 DEF CalledOff, Lined, Channel
<1>9. PICK f \in [Messages -> Nat] : Ranked(f)
  BY DEF Chained
<1>10. f[m] < f[n]
  BY <1>4, <1>7, <1>8, <1>9 DEF Ranked
<1>11. previous[n] \in Lined
  BY <1>4, <1>7, <1>8, <1>9, <1>10 DEF Ranked
<1> QED
  BY <1>0, <1>7, <1>11 DEF Lined, Tasks

(* The queue moves on, or loses its head to the dispatcher.                *)
LEMMA LineMoves ==
  ASSUME IInv, Line, Frame, bus' = bus,
         hand' = hand \/ hand' = Nobody \/ (hand' \in Messages /\ kind[hand'] = "result"),
         \A n \in Messages : Reached(n)' => Reached(n) \/ kind[n] = "result" \/ (n = hand /\ hand' = Nobody)
  PROVE  Line'
<1>0. /\ Nobody \notin Messages /\ hand \in Messages \cup {Nobody}
      /\ hand # Nobody => kind[hand] # "none"
      /\ \A m \in Tasks : kind[m] # "none"
  BY DEF IInv, Control, Carried, TypeOK, Nobody, Messages
<1>1. \A n \in Messages : Plain(n)' /\ Reached(n)' => Plain(n) /\ (Reached(n) \/ (n = hand /\ hand' = Nobody))
  <2>1. ASSUME NEW n \in Messages, Plain(n)', Reached(n)'
        PROVE  Plain(n) /\ (Reached(n) \/ (n = hand /\ hand' = Nobody))
    <3>1. kind[n] # "none"
      BY <1>0, <2>1, Known DEF Reached
    <3> QED
      BY <2>1, <3>1 DEF Frame, Plain
  <2> QED
    BY <2>1
<1>3. Plain(hand)' => hand' = hand /\ Plain(hand)
  BY <1>0 DEF Plain, Frame
<1>4. \A i, j \in 1 .. Len(bus') : i < j => bus'[i] < bus'[j]
  BY DEF Line
<1>5. Plain(hand)' => \A i \in 1 .. Len(bus') : hand' < bus'[i]
  BY <1>3 DEF Line
<1>6. ASSUME NEW n \in Messages, Plain(n)', Reached(n)'
      PROVE  \A i \in 1 .. Len(bus') : n < bus'[i]
  BY <1>1, <1>6 DEF Line
<1>7. ASSUME NEW n \in Messages, Plain(n)', Reached(n)', Plain(hand)'
      PROVE  n < hand'
  BY <1>1, <1>3, <1>7 DEF Line, Plain
<1> QED
  BY <1>4, <1>5, <1>6, <1>7 DEF Line

(* What Enter does with the message, when it does not take it further.     *)
LEMMA EnterLine ==
  ASSUME TypeOK, NEW m \in Messages, RouteMessage(m)
  PROVE  /\ hand' \in {m, Nobody}
         /\ \A n \in Messages : n \in Tasks' => n \in Tasks \/ (n = m /\ hand' = Nobody)
<1>1. CASE Refuse(m)
  BY <1>1 DEF Refuse, Onward, taskVars, Tasks
<1>2. CASE Enter(m)
  <2>1. \A n \in Messages : CreateTask(m) /\ n \in Tasks' => n \in Tasks \/ n = m
    BY DEF CreateTask, Tasks, TypeOK
  <2>2. UNCHANGED taskVars => Tasks' = Tasks
    BY DEF taskVars, Tasks
  <2> QED
    BY <1>2, <2>1, <2>2 DEF Enter, Onward
<1> QED
  BY <1>1, <1>2 DEF RouteMessage

LEMMA NextLine ==
  ASSUME IInv, Line, Ends, [Next]_vars
  PROVE  Line'
<1>0. /\ TypeOK /\ Data /\ Control /\ Nobody \notin Messages
      /\ (Frame /\ Onwards /\ TasksMove) \/ Restarted
  BY NextMoves DEF IInv, Nobody, Messages
<1>1. CASE Restarted
  <2>1. bus' = <<>> /\ hand' = Nobody /\ Len(<<>>) = 0
    BY <1>1 DEF Restarted
  <2> QED
    BY <2>1 DEF Line, Plain
<1> SUFFICES ASSUME Frame, TasksMove
             PROVE  Line'
  BY <1>0, <1>1
<1>2. ASSUME bus' = bus, hand' = hand \/ hand' = Nobody, \A m \in Messages : m \in Tasks' => m \in Tasks,
             \A m \in Messages : got'[m] > 0 => got[m] > 0 \/ m \in Tasks
      PROVE  Line'
  BY <1>2, LineMoves DEF Reached
<1>3. CASE Recover \/ RecoverEnd
  BY <1>2, <1>3 DEF Recover, RecoverEnd, taskVars, Tasks
<1>4. ASSUME NEW m \in Messages, RecoverNext(m)
      PROVE  Line'
  <2>1. kind[m] = "result" /\ bus' = bus /\ UNCHANGED got
    BY <1>0, <1>4 DEF RecoverNext, Control, Carried
  <2>2. hand' = hand \/ hand' = Nobody \/ hand' = m
    BY <1>4 DEF RecoverNext, Enter, Onward
  <2>3. \A n \in Messages : n \in Tasks' => n \in Tasks \/ n = m
    BY <1>0, <1>4 DEF RecoverNext, Enter, CreateTask, taskVars, Tasks, TypeOK
  <2>4. \A n \in Messages : Reached(n)' => Reached(n) \/ kind[n] = "result"
    BY <2>1, <2>3 DEF Reached
  <2> QED
    BY <2>1, <2>2, <2>4, LineMoves
<1>5. CASE Take
  <2> DEFINE h == Head(bus)
  <2>1. /\ bus # <<>> /\ h \in Messages /\ kind[h] # "none" /\ bus' = Tail(bus) /\ h = bus[1]
        /\ \A i \in 1 .. Len(bus') : i + 1 \in 1 .. Len(bus) /\ bus'[i] = bus[i + 1]
        /\ 1 \in 1 .. Len(bus) /\ Len(bus) \in Nat /\ Len(bus') \in Nat
    BY <1>0, <1>5 DEF Take, TypeOK, Control, Carried
  <2>2. /\ hand' \in {h, Nobody} /\ UNCHANGED got
        /\ \A n \in Messages : n \in Tasks' => n \in Tasks \/ (n = h /\ hand' = Nobody)
    <3>1. CASE RouteMessage(h)
      BY <1>0, <1>5, <2>1, <3>1, EnterLine DEF Take
    <3>2. CASE hand' = h /\ UNCHANGED taskVars
      BY <1>5, <3>2 DEF Take, taskVars, Tasks
    <3> QED
      BY <1>5, <3>1, <3>2 DEF Take
  <2> HIDE DEF h
  <2>3. \A n \in Messages : Plain(n)' /\ Reached(n)' => Plain(n) /\ (Reached(n) \/ (n = h /\ hand' = Nobody))
    <3>1. ASSUME NEW n \in Messages, Plain(n)', Reached(n)'
          PROVE  Plain(n) /\ (Reached(n) \/ (n = h /\ hand' = Nobody))
      <4>1. Reached(n) \/ (n = h /\ hand' = Nobody)
        BY <2>2, <3>1 DEF Reached
      <4>2. kind[n] # "none"
        BY <2>1, <4>1, Known DEF Reached
      <4> QED
        BY <3>1, <4>1, <4>2 DEF Frame, Plain
    <3> QED
      BY <3>1
  <2>4. Plain(hand)' => hand' = h
    BY <2>2 DEF Plain
  <2>5. \A i \in 1 .. Len(bus') : h < bus'[i]
    <3>1. ASSUME NEW i \in 1 .. Len(bus')
          PROVE  h < bus'[i]
      <4>1. 1 < i + 1 /\ i + 1 \in 1 .. Len(bus) /\ bus'[i] = bus[i + 1]
        BY <2>1
      <4> QED
        BY <2>1, <4>1 DEF Line
    <3> QED
      BY <3>1
  <2>6. \A i, j \in 1 .. Len(bus') : i < j => bus'[i] < bus'[j]
    <3>1. ASSUME NEW i \in 1 .. Len(bus'), NEW j \in 1 .. Len(bus'), i < j
          PROVE  bus'[i] < bus'[j]
      <4>1. i + 1 < j + 1 /\ i + 1 \in 1 .. Len(bus) /\ j + 1 \in 1 .. Len(bus)
            /\ bus'[i] = bus[i + 1] /\ bus'[j] = bus[j + 1]
        BY <2>1, <3>1
      <4> QED
        BY <4>1 DEF Line
    <3> QED
      BY <3>1
  <2>7. \A n \in Messages : Plain(n) /\ Reached(n) => n < h /\ \A i \in 1 .. Len(bus') : n < bus'[i]
    BY <2>1 DEF Line
  <2>8. \A n \in Messages : Plain(n)' /\ Reached(n)' => /\ \A i \in 1 .. Len(bus') : n < bus'[i]
                                                        /\ Plain(hand)' => n < hand'
    BY <1>0, <2>3, <2>4, <2>5, <2>7 DEF Plain
  <2> QED
    BY <2>4, <2>5, <2>6, <2>8 DEF Line
<1>6. CASE Route
  <2>1. hand \in Messages /\ bus' = bus /\ UNCHANGED got /\ RouteMessage(hand)
    BY <1>0, <1>6 DEF Route, Control, Carried, TypeOK
  <2>2. /\ hand' \in {hand, Nobody}
        /\ \A n \in Messages : n \in Tasks' => n \in Tasks \/ (n = hand /\ hand' = Nobody)
    BY <1>0, <2>1, EnterLine
  <2>3. \A n \in Messages : Reached(n)' => Reached(n) \/ (n = hand /\ hand' = Nobody)
    BY <2>1, <2>2 DEF Reached
  <2> QED
    BY <2>1, <2>2, <2>3, LineMoves
<1>7. CASE Queue
  <2>1. hand' = Nobody /\ bus' = bus /\ UNCHANGED got
    BY <1>7 DEF Queue, Onward
  <2>2. \A n \in Messages : n \in Tasks' => n \in Tasks \/ n = hand
    BY <1>0, <1>7 DEF Queue, CreateTask, taskVars, Tasks, TypeOK
  <2>3. \A n \in Messages : Reached(n)' => Reached(n) \/ (n = hand /\ hand' = Nobody)
    BY <2>1, <2>2 DEF Reached
  <2> QED
    BY <2>1, <2>3, LineMoves
<1>8. ASSUME NEW m \in Messages, TaskStep(m)
      PROVE  Line'
  <2>1. bus' = bus /\ hand' = hand
    BY <1>8 DEF TaskStep, Start, StartPlain, Accept, Return, ReturnPlain, RetryPlain, Cancelled,
       dispatchVars
  <2>2. task'[m] # "none" => task[m] # "none"
    BY <1>8 DEF TaskStep, Start, StartPlain, Accept, Return, ReturnPlain, RetryPlain, Cancelled,
       MayStart, InAdapter
  <2>3. \A n \in Messages : n # m => task'[n] = task[n] \/ task'[n] = "none"
    BY <1>0, <1>8 DEF TaskStep, Start, StartPlain, Accept, Return, ReturnPlain, RetryPlain,
       Cancelled, EndTask, TypeOK
  <2>4. \A n \in Messages : got'[n] > 0 => got[n] > 0 \/ n \in Tasks
    BY <1>0, <1>8 DEF TaskStep, Start, StartPlain, Accept, Return, ReturnPlain, RetryPlain,
       Cancelled, Tasks, TypeOK
  <2>5. \A n \in Messages : n \in Tasks' => n \in Tasks
    BY <2>2, <2>3 DEF Tasks
  <2> QED
    BY <1>2, <2>1, <2>4, <2>5
<1>9. ASSUME NEW k \in {"result", "plain"}, NEW c \in Chats, Publish(k, c)
      PROVE  Line'
  <2> DEFINE p == published + 1
  <2>1. /\ bus' = Append(bus, p) /\ hand' = hand /\ Tasks' = Tasks /\ UNCHANGED got
    BY <1>9 DEF Publish, dispatchVars, taskVars, Tasks
  <2>2. p \in Messages /\ \A n \in Messages : kind[n] # "none" => n < p
    BY <1>0, <1>9, BoundsAssumption DEF Publish, TypeOK, Messages, Data, Numbered
  <2>3. /\ Len(bus) \in Nat /\ Len(bus') = Len(bus) + 1 /\ bus'[Len(bus) + 1] = p
        /\ \A i \in 1 .. Len(bus) : bus'[i] = bus[i] /\ bus[i] \in Messages /\ bus[i] < p
    BY <1>0, <2>1, <2>2 DEF TypeOK, Control, Carried
  <2>4. \A i \in 1 .. Len(bus') : i \in 1 .. Len(bus) \/ i = Len(bus) + 1
    BY <2>3
  <2> HIDE DEF p
  <2>5. \A n \in Messages : Plain(n)' /\ Reached(n)' => Plain(n) /\ Reached(n) /\ n < p
    <3>1. ASSUME NEW n \in Messages, Plain(n)', Reached(n)'
          PROVE  Plain(n) /\ Reached(n) /\ n < p
      <4>1. Reached(n) /\ kind[n] # "none"
        BY <2>1, <3>1, Known DEF Reached
      <4> QED
        BY <2>2, <3>1, <4>1 DEF Frame, Plain
    <3> QED
      BY <3>1
  <2>6. Plain(hand)' => Plain(hand) /\ hand' = hand /\ hand < p
    BY <1>0, <2>1, <2>2 DEF Plain, Frame, TypeOK, Control, Carried
  <2>7. \A i, j \in 1 .. Len(bus') : i < j => bus'[i] < bus'[j]
    <3>1. ASSUME NEW i \in 1 .. Len(bus'), NEW j \in 1 .. Len(bus'), i < j
          PROVE  bus'[i] < bus'[j]
      <4>1. i \in 1 .. Len(bus)
        BY <2>3, <3>1
      <4>2. CASE j \in 1 .. Len(bus)
        BY <2>3, <3>1, <4>1, <4>2 DEF Line
      <4>3. CASE j = Len(bus) + 1
        BY <2>3, <4>1, <4>3
      <4> QED
        BY <2>4, <4>2, <4>3
    <3> QED
      BY <3>1
  <2>8. Plain(hand)' => \A i \in 1 .. Len(bus') : hand' < bus'[i]
    BY <2>3, <2>4, <2>6 DEF Line
  <2>9. \A n \in Messages : Plain(n)' /\ Reached(n)' => /\ \A i \in 1 .. Len(bus') : n < bus'[i]
                                                        /\ Plain(hand)' => n < hand'
    BY <2>3, <2>4, <2>5, <2>6 DEF Line
  <2> QED
    BY <2>7, <2>8, <2>9 DEF Line
<1>10. ASSUME NEW m \in Messages, RetryTime(m) \/ MaxAge(m) \/ ReplaceSession(m)
       PROVE  Line'
  BY <1>2, <1>10 DEF RetryTime, MaxAge, ReplaceSession, timeFrame, taskVars, dispatchVars, Tasks
<1>11. ASSUME NEW n \in Channels, StopChannel(n) \/ ChannelStopped(n)
       PROVE  Line'
  BY <1>2, <1>11 DEF StopChannel, ChannelStopped, taskVars, dispatchVars, Tasks
<1>12. CASE RecoveryTime \/ Pause \/ Release \/ ShutDown \/ UNCHANGED vars
  BY <1>2, <1>12 DEF RecoveryTime, Pause, Release, ShutDown, vars, timeFrame, taskVars,
     dispatchVars, Tasks
<1>13. CASE Crash \/ Restart
  BY <1>1, <1>13 DEF Crash, Restart
<1> QED
  BY <1>3, <1>4, <1>5, <1>6, <1>7, <1>8, <1>9, <1>10, <1>11, <1>12, <1>13 DEF Next, Dispatch

(* Nothing is underway at the start.                                       *)
Ordered == Line /\ CalledOff /\ Ends /\ Chained /\ Passed

LEMMA InitOrdered == ASSUME Init PROVE Ordered
<1>1. /\ \A m \in Messages : task[m] = "none" /\ previous[m] = Nobody /\ got[m] = 0
      /\ \A c \in Chats : tails[c] = Nobody
      /\ cancelling = {} /\ bus = <<>> /\ hand = Nobody /\ Len(<<>>) = 0
  BY DEF Init
<1>2. Tasks = {}
  BY <1>1 DEF Tasks
<1>3. Chained
  <2>1. [m \in Messages |-> 0] \in [Messages -> Nat] /\ Ranked([m \in Messages |-> 0])
    BY <1>2 DEF Ranked, Lined
  <2> QED
    BY <2>1 DEF Chained
<1>4. Line
  BY <1>1 DEF Line, Plain
<1>5. CalledOff /\ Ends /\ Passed
  BY <1>1, <1>2 DEF CalledOff, Ends, InAdapter, Passed
<1> QED
  BY <1>3, <1>4, <1>5 DEF Ordered

LEMMA NextOrdered == ASSUME IInv, Ordered, [Next]_vars PROVE Ordered'
<1>1. Line'
  BY NextLine DEF Ordered
<1>2. CASE Restarted
  BY <1>1, <1>2, RestartedClears DEF Ordered
<1>3. CASE Frame /\ Onwards /\ TasksMove
  BY <1>1, <1>3, NextCalledOff, NextEnds, NextChained, NextPassed DEF Ordered
<1> QED
  BY <1>2, <1>3, NextMoves DEF Ordered

(* The service gets m although it has got the later n of the same chat.    *)
Overtakes(m, n) ==
  /\ m < n /\ kind[m] = "plain" /\ kind[n] = "plain" /\ to[m] = to[n]
  /\ got[n] > 0 /\ got'[m] # got[m]

(* Ordinary messages reach a chat in the order they were published, across *)
(* slots, retries, cancellations and stopped channels (_queue_outbound).   *)
THEOREM PlainStaysInOrder == Spec => PlainInOrder
<1>1. Init => IInv /\ Ordered
  BY InitIInv, InitOrdered
<1>2. IInv /\ Ordered /\ [Next]_vars => (IInv /\ Ordered)'
  BY NextKeeps, NextOrdered
<1>3. IInv /\ Ordered /\ [Next]_vars => \A m, n \in Messages : ~Overtakes(m, n)
  <2> SUFFICES ASSUME IInv, Ordered, [Next]_vars, NEW m \in Messages, NEW n \in Messages,
                      Overtakes(m, n)
               PROVE  FALSE
    OBVIOUS
  <2>1. TasksMove
    <3>1. ~Restarted
      BY DEF Restarted, Overtakes
    <3> QED
      BY <3>1, NextMoves DEF Ordered
  <2>2. m \in Tasks
    BY <2>1 DEF TasksMove, Still, CalledIn, Created, Ended, Worked, Overtakes, IInv, TypeOK
  <2>3. Nobody \notin Messages
    BY DEF Nobody, Messages
  <2> QED
    BY <2>2, <2>3 DEF Overtakes, Ordered, Passed, Plain
<1>4. (\A m, n \in Messages : ~Overtakes(m, n))
      => [\A m, n \in Messages :
           m < n /\ kind[m] = "plain" /\ kind[n] = "plain" /\ to[m] = to[n]
           => (got[n] > 0 => got'[m] = got[m])]_vars
  BY DEF Overtakes
<1> QED
  BY <1>1, <1>2, <1>3, <1>4, PTL DEF Spec, PlainInOrder

-----------------------------------------------------------------------------
(* Progress.  A task waits for one with a lower rank, cancelled tasks      *)
(* included, and b is above all ranks: the next task gets it.              *)
Forward(g, b) ==
  \A t \in Tasks :
    /\ g[t] < b
    /\ previous[t] # Nobody => previous[t] \in Tasks /\ g[previous[t]] < g[t]

Acyclic == \E g \in [Messages -> Nat], b \in Nat : Forward(g, b)

(* A new task waits for the tail of its chat, which is a task or nobody.   *)
LEMMA CreatedForward ==
  ASSUME IInv, Ends, Frame, Acyclic, NEW n \in Messages, Created(n)
  PROVE  Acyclic'
<1>0. TypeOK /\ Nobody \notin Messages /\ (\A m \in Tasks : m \in Messages)
  BY Known DEF IInv, Nobody, Messages
<1>1. PICK g \in [Messages -> Nat], b \in Nat : Forward(g, b)
  BY DEF Acyclic
<1> DEFINE h == [g EXCEPT ![n] = b]
<1>2. h \in [Messages -> Nat] /\ h[n] = b /\ \A m \in Messages : m # n => h[m] = g[m]
  OBVIOUS
<1> HIDE DEF h
<1>3. /\ n \notin Tasks /\ kind[n] # "none"
      /\ task' = [task EXCEPT ![n] = "waiting"]
      /\ previous' = [previous EXCEPT ![n] = tails[to[n]]]
  BY DEF Created, CreateTask
<1>4. Tasks' = Tasks \cup {n}
  BY <1>0, <1>3 DEF Tasks, TypeOK
<1>5. to[n] \in Chats
  BY <1>3 DEF IInv, Data, Numbered
<1>6. tails[to[n]] # Nobody => tails[to[n]] \in Tasks
  BY <1>5 DEF Ends
<1>7. previous'[n] = tails[to[n]] /\ \A m \in Messages : m # n => previous'[m] = previous[m]
  BY <1>0, <1>3 DEF TypeOK
<1>8. \A t \in Tasks : t # n /\ t \in Messages /\ g[t] < b /\ g[t] \in Nat
  BY <1>0, <1>1, <1>3 DEF Forward
<1>9. Forward(h, b + 1)'
  <2> SUFFICES ASSUME NEW t \in Tasks \cup {n}
               PROVE  /\ h[t] < b + 1
                      /\ previous'[t] # Nobody =>
                           previous'[t] \in Tasks \cup {n} /\ h[previous'[t]] < h[t]
    BY <1>4 DEF Forward
  <2>1. CASE t = n
    BY <1>2, <1>6, <1>7, <1>8, <2>1
  <2>2. CASE t \in Tasks
    BY <1>1, <1>2, <1>7, <1>8, <2>2 DEF Forward
  <2> QED
    BY <2>1, <2>2
<1> QED
  BY <1>2, <1>9 DEF Acyclic

LEMMA NextAcyclic ==
  ASSUME IInv, Ends, Frame, TasksMove, Acyclic
  PROVE  Acyclic'
<1>0. TypeOK /\ Nobody \notin Messages /\ (\A m \in Tasks : m \in Messages)
  BY Known DEF IInv, Nobody, Messages
<1>1. PICK g \in [Messages -> Nat], b \in Nat : Forward(g, b)
  BY DEF Acyclic
<1>2. ASSUME UNCHANGED previous, Tasks' = Tasks
      PROVE  Acyclic'
  <2>1. Forward(g, b)'
    BY <1>1, <1>2 DEF Forward
  <2> QED
    BY <2>1 DEF Acyclic
<1>3. CASE Still \/ CalledIn
  BY <1>2, <1>3 DEF Still, CalledIn, taskVars, Tasks
<1>4. ASSUME NEW n \in Messages, Created(n)
      PROVE  Acyclic'
  BY <1>4, CreatedForward
<1>5. ASSUME NEW n \in Messages, Ended(n)
      PROVE  Acyclic'
  <2>1. /\ task' = [task EXCEPT ![n] = "none"]
        /\ \A m \in Messages : previous'[m] = IF m = n \/ previous[m] = n THEN Nobody ELSE previous[m]
    BY <1>5 DEF Ended, EndTask
  <2>2. Tasks' = Tasks \ {n}
    BY <1>0, <2>1 DEF Tasks, TypeOK
  <2>3. Forward(g, b)'
    BY <1>0, <1>1, <2>1, <2>2 DEF Forward
  <2> QED
    BY <2>3 DEF Acyclic
<1>6. ASSUME NEW n \in Messages, Worked(n)
      PROVE  Acyclic'
  <2>1. Tasks' = Tasks /\ previous' = previous
    BY <1>0, <1>6 DEF Worked, Tasks, InAdapter, TypeOK
  <2> QED
    BY <1>2, <2>1
<1> QED
  BY <1>3, <1>4, <1>5, <1>6 DEF TasksMove

LEMMA NoTasksAcyclic ==
  ASSUME Tasks = {}
  PROVE  Acyclic
<1> DEFINE g == [m \in Messages |-> 0]
<1>1. g \in [Messages -> Nat] /\ 0 \in Nat /\ Forward(g, 0)
  BY DEF Forward
<1> HIDE DEF g
<1> QED
  BY <1>1 DEF Acyclic

LEMMA RestartedAcyclic ==
  ASSUME Restarted
  PROVE  Acyclic'
<1> DEFINE g == [m \in Messages |-> 0]
<1>1. Tasks' = {}
  BY RestartedClears
<1>2. g \in [Messages -> Nat] /\ 0 \in Nat /\ Forward(g, 0)'
  BY <1>1 DEF Forward
<1> HIDE DEF g
<1> QED
  BY <1>2 DEF Acyclic

(* A set of numbers has a least.                                           *)
LEMMA LeastExists ==
  ASSUME NEW T \in SUBSET Nat, T # {}
  PROVE  \E x \in T : \A y \in T : x <= y
<1>1. PICK x \in T : \A y \in T : ~ (<<y, x>> \in OpToRel(<, Nat))
  BY WFMin, NatLessThanWellFounded
<1>2. \A y \in T : ~(y < x)
  BY <1>1 DEF OpToRel
<1> QED
  BY <1>2

(* The task of the lowest rank waits for nobody, and finds a free send     *)
(* unless a task is in an adapter.                                         *)
LEMMA LowestGoes ==
  ASSUME IInv, Acyclic
  PROVE  SendsGoOn
<1> SUFFICES ASSUME Tasks # {}, \A m \in Tasks : task[m] \notin InAdapter /\ m \notin cancelling
             PROVE  \E m \in Tasks : MayStart(m)
  BY DEF SendsGoOn
<1>0. TypeOK /\ \A m \in Tasks : m \in Messages
  BY Known DEF IInv
<1>1. PICK g \in [Messages -> Nat], b \in Nat : Forward(g, b)
  BY DEF Acyclic
<1> DEFINE T == {g[m] : m \in Tasks}
<1>2. T \in SUBSET Nat /\ T # {}
  BY <1>0
<1>3. PICK x \in T : \A y \in T : x <= y
  <2> HIDE DEF T
  <2> QED
    BY <1>2, LeastExists
<1>4. PICK m \in Tasks : x = g[m]
  OBVIOUS
<1>5. \A n \in Tasks : g[m] <= g[n] /\ g[n] \in Nat
  BY <1>0, <1>3, <1>4
<1>6. previous[m] = Nobody
  BY <1>1, <1>4, <1>5 DEF Forward
<1>7. task[m] = "waiting" /\ m \notin cancelling
  BY <1>0, <1>4 DEF TypeOK, Tasks, InAdapter
<1>8. Sending = {}
  BY <1>0 DEF Sending, Tasks, InAdapter
<1>9. Cardinality(Sending) < Sends
  BY <1>8, FS_EmptySet, BoundsAssumption
<1> QED
  BY <1>4, <1>6, <1>7, <1>9 DEF MayStart

(* The send tasks never wait in a circle, whatever is cancelled, retried   *)
(* or stopped, so the dispatcher gets its slots back (_queue_outbound).    *)
THEOREM NoSendCircle == Spec => []SendsGoOn
<1>1. Init => IInv /\ Ordered /\ Acyclic
  <2>1. Init => Tasks = {}
    BY DEF Init, Tasks
  <2> QED
    BY <2>1, InitIInv, InitOrdered, NoTasksAcyclic
<1>2. IInv /\ Ordered /\ Acyclic /\ [Next]_vars => (IInv /\ Ordered /\ Acyclic)'
  <2> SUFFICES ASSUME IInv, Ordered, Acyclic, [Next]_vars
               PROVE  (IInv /\ Ordered /\ Acyclic)'
    OBVIOUS
  <2>1. Ends
    BY DEF Ordered
  <2>2. Acyclic'
    BY <2>1, NextMoves, NextAcyclic, RestartedAcyclic
  <2> QED
    BY <2>2, NextKeeps, NextOrdered
<1>3. IInv /\ Acyclic => SendsGoOn
  BY LowestGoes
<1> QED
  BY <1>1, <1>2, <1>3, PTL DEF Spec

=============================================================================
