----------------------------- MODULE AtLeastOnce -----------------------------
(***************************************************************************)
(* What the local trigger queue promises of a message, without files,      *)
(* locks, processes or crashes.  A message is put once; while it is in     *)
(* the queue it may run, more than once but at most MaxRuns times; when it *)
(* has left the queue it never runs again.                                 *)
(***************************************************************************)
EXTENDS Integers

CONSTANTS Deliveries, MaxRuns

VARIABLES put,    \* messages put so far
          queued, \* messages in the queue
          runs    \* runs[d]: how often d was handed to a session

vars == <<put, queued, runs>>

Init == put = {} /\ queued = {} /\ runs = [d \in Deliveries |-> 0]

Put(d) == /\ d \notin put
          /\ put' = put \cup {d}
          /\ queued' = queued \cup {d}
          /\ UNCHANGED runs

Run(d) == /\ d \in queued
          /\ runs[d] < MaxRuns
          /\ runs' = [runs EXCEPT ![d] = @ + 1]
          /\ UNCHANGED <<put, queued>>

Leave(S) == /\ queued' = queued \ S
            /\ UNCHANGED <<put, runs>>

Next == \/ \E d \in Deliveries : Put(d) \/ Run(d)
        \/ \E S \in SUBSET Deliveries : Leave(S)

Spec == Init /\ [][Next]_vars
=============================================================================
