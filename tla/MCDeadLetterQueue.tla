-------------------------- MODULE MCDeadLetterQueue ---------------------------
(* Two messages, one of them for two recipients.                            *)
EXTENDS DeadLetterQueue, TLC

CONSTANTS a1, a2, m1, m2, e1, e2

MCRecipients == m1 :> <<a1, a2>> @@ m2 :> <<a2>>
=============================================================================
