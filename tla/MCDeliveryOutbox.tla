-------------------------- MODULE MCDeliveryOutbox --------------------------
(* Instances of DeliveryOutbox for TLC. *)
EXTENDS DeliveryOutbox, TLC

CONSTANTS a, b, n1, n2

(* one chat; two chats of two channels *)
OneChat == (a :> n1)
TwoChats == (a :> n1) @@ (b :> n2)
=============================================================================
