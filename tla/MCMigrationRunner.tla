--------------------------- MODULE MCMigrationRunner --------------------------
(* Two gateways that start together, and cmd/migrate run beside them.       *)
EXTENDS MigrationRunner, TLC

CONSTANTS g1, g2, job
=============================================================================
