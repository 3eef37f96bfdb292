------------------------- MODULE ConnectionExecutor -------------------------
(* The command executor of one connection (gui/connection_command_executor.py):
   a lease that lets one caller at a time use the UpgradeSession, in which
   foreground operations go before maintenance PINGs.  The operators here are
   the transitions its methods make while they hold the condition variable; the
   threads that call them are in ExecutorThreads (any number of callers) and in
   GuiConnection (the callers the GUI really has). *)
EXTENDS Naturals

\* The executor of connection generation g as __init__ leaves it.
NewExecutor(g) == [generation |-> g, active |-> FALSE, waiters |-> 0, valid |-> TRUE]

ExecutorStates(Generations) ==
  [generation: Generations, active: BOOLEAN, waiters: Nat, valid: BOOLEAN]

\* What _raise_if_unavailable raises for a caller that names generation g.
Unavailable(e, g) ==
  IF ~e.valid THEN "closed" ELSE IF e.generation # g THEN "stale" ELSE "no"

\* A foreground caller counts itself before it looks at the lease ...
Queued(e) == [e EXCEPT !.waiters = @ + 1]

\* ... leaves the wait with an error ...
Abandoned(e) == [e EXCEPT !.waiters = @ - 1]

\* ... or takes the lease once that is free, and is no longer counted.
Granted(e) == [Abandoned(e) EXCEPT !.active = TRUE]

\* Mutants: maintenance that forgets to look at the lease, or at the waiters.
MutantMaintenanceIgnoresLease(e, g) ==
  IF Unavailable(e, g) # "no" THEN Unavailable(e, g)
  ELSE IF e.waiters > 0 THEN "busy" ELSE "run"

MutantMaintenanceIgnoresWaiters(e, g) ==
  IF Unavailable(e, g) # "no" THEN Unavailable(e, g)
  ELSE IF e.active THEN "busy" ELSE "run"

\* What try_execute_maintenance answers, "run" when it takes the lease.
MaintenanceStatus(e, g) ==
  IF Unavailable(e, g) # "no" THEN Unavailable(e, g)
  ELSE IF e.active \/ e.waiters > 0 THEN "busy" ELSE "run"

MaintenanceGranted(e) == [e EXCEPT !.active = TRUE]

Released(e) == [e EXCEPT !.active = FALSE]

Invalidated(e) == [e EXCEPT !.valid = FALSE]

=============================================================================
