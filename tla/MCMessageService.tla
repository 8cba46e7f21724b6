--------------------------- MODULE MCMessageService ---------------------------
(* A message for two recipients and one for one of them.                    *)
EXTENDS MessageService, TLC

CONSTANTS a1, a2, m1, m2, h1, h2, n1, n2

MCRecipients == m1 :> <<a1, a2>> @@ m2 :> <<a2>>
Together == {<<m1, m2>>}
MCSymmetry == Permutations({h1, h2}) \cup Permutations({n1, n2})
=============================================================================
