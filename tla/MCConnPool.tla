----------------------------- MODULE MCConnPool -----------------------------
(***************************************************************************)
(* Instances of ConnPool for TLC.  Tasks that compete for fewer connections*)
(* than there are tasks make every acquisition path happen: immediate,     *)
(* queued behind another waiter, cancelled, and refused by `close`.        *)
(***************************************************************************)
EXTENDS ConnPool, TLC

\* The tasks that acquire a second handle while they hold a first one, as
\* validate_solution_set_dry_run does: it keeps `conn` alive across the await
\* of validate_dry_run, whose queries acquire from the same pool.
CONSTANT DryRuns

MCNeed == [t \in Tasks |-> IF t \in DryRuns THEN 2 ELSE 1]
=============================================================================
