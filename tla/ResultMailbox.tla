---------------------------- MODULE ResultMailbox ----------------------------
(***************************************************************************)
(* What the delivery queue of scheduled results promises, without rows,    *)
(* tasks, channels, retries or restarts: a stored result is delivered at   *)
(* most once, only while it is open, and never after a later result for    *)
(* the same chat.                                                          *)
(***************************************************************************)
EXTENDS Integers

CONSTANTS Messages, Chats, NoChat

VARIABLES to,        \* to[m]: the chat of a result, NoChat before it is put
          open,      \* results whose outcome is not settled
          delivered  \* delivered[m]: how often the service accepted m

vars == <<to, open, delivered>>

Init == /\ to = [m \in Messages |-> NoChat]
        /\ open = {}
        /\ delivered = [m \in Messages |-> 0]

(* Old results may be given up when a new one is stored.                   *)
Put(m, c, S) == /\ to[m] = NoChat
                /\ \A n \in Messages : to[n] = c => n < m
                /\ to' = [to EXCEPT ![m] = c]
                /\ open' = (open \ S) \cup {m}
                /\ UNCHANGED delivered

Deliver(m) == /\ m \in open
              /\ delivered[m] = 0
              /\ \A n \in Messages : n > m /\ to[n] = to[m] => delivered[n] = 0
              /\ delivered' = [delivered EXCEPT ![m] = 1]
              /\ UNCHANGED <<to, open>>

Settle(S) == /\ open' = open \ S
             /\ UNCHANGED <<to, delivered>>

Next == \/ \E m \in Messages : Deliver(m)
        \/ \E S \in SUBSET Messages :
             Settle(S) \/ \E m \in Messages, c \in Chats : Put(m, c, S)

Spec == Init /\ [][Next]_vars
=============================================================================
