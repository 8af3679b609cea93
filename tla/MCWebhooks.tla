---------------------------- MODULE MCWebhooks ----------------------------
(* One webhook and three kinds of envelope: one it delivers, one its filters *)
(* hold back and one that is not an alert.                                   *)
EXTENDS Webhooks

MCInputs ==
    {[type |-> "alert", severity |-> 2, state |-> "firing", matches |-> TRUE],
     [type |-> "alert", severity |-> 2, state |-> "resolved", matches |-> TRUE],
     [type |-> "other"]}
=============================================================================
