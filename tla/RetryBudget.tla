----------------------------- MODULE RetryBudget ------------------------------
(***************************************************************************)
(* What the dead-letter table promises, without the loops that write it:   *)
(* a growing list of cells, each opened with no retries used, each retry   *)
(* used exactly once and counted, and a cell that has been processed or    *)
(* has used its last retry closed for good.                                *)
(***************************************************************************)
EXTENDS Naturals, Sequences

CONSTANTS Messages, MaxRetries

VARIABLE cells

Init == cells = << >>

\* A message is dead-lettered, once.
Open(m) ==
  /\ \A id \in DOMAIN cells : cells[id].msg # m
  /\ cells' = Append(cells, [msg |-> m, status |-> "pending", retries |-> 0])

\* A retry failed; the last one exhausts the cell.
Fail(id) ==
  /\ cells[id].status = "pending"
  /\ LET n == cells[id].retries + 1
     IN cells' = [cells EXCEPT ![id].status = IF n = MaxRetries THEN "exhausted"
                                              ELSE "pending",
                               ![id].retries = n]

\* A retry reached every recipient.
Succeed(id) ==
  /\ cells[id].status = "pending"
  /\ cells' = [cells EXCEPT ![id].status = "processed", ![id].retries = @ + 1]

Next == \/ \E m \in Messages : Open(m)
        \/ \E id \in DOMAIN cells : Fail(id) \/ Succeed(id)

Spec == Init /\ [][Next]_cells
=============================================================================
