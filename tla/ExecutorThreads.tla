-------------------------- MODULE ExecutorThreads ---------------------------
(* Any number of threads using one ConnectionCommandExecutor: foreground calls,
   maintenance calls, and invalidate() at any moment.  A call that waits is in
   the wait set of the condition variable; notify_all after every change makes
   each of its wake-ups re-examine the lease. *)
EXTENDS ConnectionExecutor, FiniteSets

CONSTANTS
  Threads,      \* callers
  Generations,  \* generations the callers may name
  Own           \* the generation this executor was created for

ASSUME OwnAssumption == Own \in Generations
ASSUME ThreadsAssumption == IsFiniteSet(Threads)

VARIABLES
  executor,  \* the executor's fields
  call       \* call[t]: where t is in its current call, or how its last one ended

vars == <<executor, call>>

Returned == {"done", "closed", "stale", "busy"}
Holding  == {"foreground", "maintenance"}

TypeOK ==
  /\ executor \in ExecutorStates(Generations)
  /\ call \in [Threads -> Returned \cup Holding \cup {"waiting"}]

Init ==
  /\ executor = NewExecutor(Own)
  /\ call = [t \in Threads |-> "done"]

\* execute_foreground, up to the lease or the first wait.
CallForeground(t, g) ==
  /\ call[t] \in Returned
  /\ LET refusal == Unavailable(executor, g) IN
     \/ /\ refusal # "no"
        /\ call' = [call EXCEPT ![t] = refusal]
        /\ UNCHANGED executor
     \/ /\ refusal = "no" /\ ~executor.active
        /\ executor' = Granted(Queued(executor))
        /\ call' = [call EXCEPT ![t] = "foreground"]
     \/ /\ refusal = "no" /\ executor.active
        /\ executor' = Queued(executor)
        /\ call' = [call EXCEPT ![t] = "waiting"]

\* Mutant: invalidate() does not end the wait.
MutantWakeKeepsWaiting(t) ==
  /\ call[t] = "waiting"
  /\ ~executor.active /\ executor.valid
  /\ executor' = Granted(executor)
  /\ call' = [call EXCEPT ![t] = "foreground"]

\* A waiter wakes: it leaves when the executor was invalidated, takes a free
\* lease, and waits on otherwise.
Wake(t) ==
  /\ call[t] = "waiting"
  /\ \/ /\ ~executor.valid
        /\ executor' = Abandoned(executor)
        /\ call' = [call EXCEPT ![t] = "closed"]
     \/ /\ executor.valid /\ ~executor.active
        /\ executor' = Granted(executor)
        /\ call' = [call EXCEPT ![t] = "foreground"]

\* try_execute_maintenance, up to the lease.
CallMaintenance(t, g) ==
  /\ call[t] \in Returned
  /\ LET status == MaintenanceStatus(executor, g) IN
     \/ /\ status # "run"
        /\ call' = [call EXCEPT ![t] = status]
        /\ UNCHANGED executor
     \/ /\ status = "run"
        /\ executor' = MaintenanceGranted(executor)
        /\ call' = [call EXCEPT ![t] = "maintenance"]

\* The action ends, with a result or an exception: the finally clause releases.
Return(t) ==
  /\ call[t] \in Holding
  /\ executor' = Released(executor)
  /\ call' = [call EXCEPT ![t] = "done"]

Invalidate ==
  /\ executor' = Invalidated(executor)
  /\ UNCHANGED call

Next ==
  \/ \E t \in Threads : \/ Wake(t) \/ Return(t)
                        \/ \E g \in Generations : CallForeground(t, g) \/ CallMaintenance(t, g)
  \/ Invalidate

Spec == Init /\ [][Next]_vars

\* Actions end (protocol timeouts bound them) and woken threads run; nobody has to call.
FairSpec == Spec /\ \A t \in Threads : WF_vars(Return(t)) /\ WF_vars(Wake(t))

-----------------------------------------------------------------------------
(* Properties. *)

\* No two operations of any kind are inside the session at once
\* (execute_foreground and try_execute_maintenance share the one lease).
LeaseExclusive ==
  \A t, u \in Threads : call[t] \in Holding /\ call[u] \in Holding => t = u

\* A PING never enters while a foreground operation is waiting for the lease:
\* foreground waits for at most the PING that was already running.
ForegroundFirst ==
  [][\A t \in Threads : call[t] # "maintenance" /\ call'[t] = "maintenance"
       => \A u \in Threads : call[u] # "waiting"]_vars

\* After invalidate() no operation enters the session any more: only one that
\* was already inside may still be there.
NoEntryAfterInvalidate ==
  [][~executor.valid => \A t \in Threads : call'[t] \in Holding => call[t] \in Holding]_vars

\* Invalidating the executor of a dead connection lets every waiter go: none
\* waits for ever on a lease that nobody will grant.
InvalidateDrains ==
  \A t \in Threads : (~executor.valid /\ call[t] = "waiting") ~> call[t] # "waiting"

\* The waiter count is exactly the waiting threads, so maintenance is not locked
\* out by a waiter that has left (waiters > 0 would skip every PING for ever).
WaitersAreReal ==
  executor.waiters = Cardinality({t \in Threads : call[t] = "waiting"})
=============================================================================
