--------------------------- MODULE MCCronService ---------------------------
(* A one-shot job and one that is deleted after its run.                *)
EXTENDS CronService, TLC

CONSTANTS a, b

OnceAndDelete == a :> "once" @@ b :> "delete"
OnlyOnce == a :> "once"
=============================================================================
