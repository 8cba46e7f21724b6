-------------------------- MODULE MCAgentMessaging ----------------------------
(* Two workers, in one engine or in two; a message for two recipients and   *)
(* one for one of them; up to two concurrent acknowledgements.              *)
EXTENDS AgentMessaging, TLC

CONSTANTS a1, a2, m1, m2, e1, e2, w1, w2

MCRecipients == [m \in Messages |-> IF m = m1 THEN <<a1, a2>> ELSE <<a2>>]
OneWorker == w1 :> e1
OneEngine == w1 :> e1 @@ w2 :> e1
TwoEngines == w1 :> e1 @@ w2 :> e2

\* The messages in requests of their own, or in one batch.
Apart == {<<m>> : m \in Messages}
Together == {<<m1, m2>>}

MCSymmetry == Permutations(Workers) \cup Permutations(Handlers) \cup Permutations(Nonces)
=============================================================================
