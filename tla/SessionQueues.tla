---------------------------- MODULE SessionQueues ----------------------------
(***************************************************************************)
(* What the session owner promises its callers, without tasks, tails or    *)
(* threads.  Operations draw increasing numbers and every session key has  *)
(* a line.  An operation joins the lines of all its keys at once, a        *)
(* barrier joins every line and an unordered query none.  It begins only   *)
(* as the first of each line it stands in, and leaves them all at once     *)
(* when it is over.                                                        *)
(***************************************************************************)
EXTENDS Integers

CONSTANTS Keys, Ops

VARIABLES drawn,   \* the last number given out
          line,    \* line[k]: the unfinished operations on k
          running  \* operations that began and are not over

vars == <<drawn, line, running>>

Init == drawn = 0 /\ line = [k \in Keys |-> {}] /\ running = {}

Lines(o) == {k \in Keys : o \in line[k]}
First(o, k) == \A x \in line[k] : o <= x

Enqueue(o, S) ==
  /\ o > drawn
  /\ drawn' = o
  /\ line' = [k \in Keys |-> IF k \in S THEN line[k] \cup {o} ELSE line[k]]
  /\ UNCHANGED running

Begin(o) ==
  /\ o \notin running
  /\ Lines(o) # {}
  /\ \A k \in Lines(o) : First(o, k)
  /\ running' = running \cup {o}
  /\ UNCHANGED <<drawn, line>>

End(o) ==
  /\ o \in running
  /\ running' = running \ {o}
  /\ line' = [k \in Keys |-> line[k] \ {o}]
  /\ UNCHANGED drawn

Next == \E o \in Ops : \/ \E S \in SUBSET Keys : Enqueue(o, S)
                       \/ Begin(o)
                       \/ End(o)

Spec == Init /\ [][Next]_vars

(* Whoever stands first in all its lines gets to run, and runs to its end. *)
FairSpec == Spec /\ \A o \in Ops : WF_vars(Begin(o)) /\ WF_vars(End(o))
=============================================================================
