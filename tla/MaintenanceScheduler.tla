------------------------ MODULE MaintenanceScheduler ------------------------
(* The idle PING scheduler (gui/qt_connection_maintenance.py).  Its slots all run
   in the GUI thread, one after the other; each operator here is one slot, as a
   function from the scheduler's fields to its fields.  The host of the PING
   worker and the queue that delivers the signals are in GuiConnection. *)
EXTENDS Naturals

\* No generation: Python's None.
None == 0

\* The scheduler as __init__ leaves it.
NewScheduler ==
  [active |-> None, foreground |-> FALSE, inflight |-> None, timer |-> FALSE,
   enabled |-> TRUE, shutdown |-> FALSE]

SchedulerStates(Generations) ==
  [active: Generations, foreground: BOOLEAN, inflight: Generations, timer: BOOLEAN,
   enabled: BOOLEAN, shutdown: BOOLEAN]

\* _restart_timer_if_idle
RestartTimerIfIdle(s) ==
  IF ~s.shutdown /\ s.enabled /\ s.active # None /\ ~s.foreground /\ s.inflight = None
  THEN [s EXCEPT !.timer = TRUE] ELSE s

OnConnectionOpened(s, g) ==
  IF s.shutdown THEN s
  ELSE RestartTimerIfIdle([s EXCEPT !.timer = FALSE, !.active = g, !.foreground = FALSE])

OnForegroundStarted(s, g) ==
  IF g # s.active THEN s ELSE [s EXCEPT !.foreground = TRUE, !.timer = FALSE]

OnForegroundFinished(s, g) ==
  IF g # s.active THEN s ELSE RestartTimerIfIdle([s EXCEPT !.foreground = FALSE])

OnProtocolActivity(s, g) ==
  IF g # s.active THEN s ELSE RestartTimerIfIdle([s EXCEPT !.timer = FALSE])

\* What _on_connection_closed and a PING refused by a dead executor leave.
Forgotten(s) == [s EXCEPT !.timer = FALSE, !.active = None, !.foreground = FALSE]

\* Mutant: the closed connection stays scheduled.
MutantCloseOnlyStops(s, g) ==
  IF g # s.active THEN s ELSE [s EXCEPT !.timer = FALSE]

OnConnectionClosed(s, g) == IF g # s.active THEN s ELSE Forgotten(s)

OnAutoPing(s, enabled) ==
  IF s.shutdown THEN [s EXCEPT !.enabled = FALSE]
  ELSE IF enabled THEN RestartTimerIfIdle([s EXCEPT !.enabled = TRUE])
  ELSE [s EXCEPT !.enabled = FALSE, !.timer = FALSE]

\* _on_timeout: the single-shot timer has stopped; CanSubmit says whether the
\* slot hands a PING of the active generation to the worker.
CanSubmit(s) ==
  s.active # None /\ ~s.shutdown /\ s.enabled /\ ~s.foreground /\ s.inflight = None

OnTimeout(s) ==
  [s EXCEPT !.timer = FALSE, !.inflight = IF CanSubmit(s) THEN s.active ELSE @]

\* Mutant: the answer of an older connection's PING re-arms nothing.
MutantStalePingStops(s, g, status) ==
  LET landed == IF s.inflight = g THEN [s EXCEPT !.inflight = None] ELSE s IN
  IF s.shutdown \/ g # s.active THEN landed
  ELSE IF status \in {"stale", "closed"} THEN Forgotten(landed)
  ELSE RestartTimerIfIdle(landed)

\* _on_ping_completed for a PING of generation g
OnPingCompleted(s, g, status) ==
  LET landed == IF s.inflight = g THEN [s EXCEPT !.inflight = None] ELSE s IN
  IF s.shutdown \/ g # s.active THEN RestartTimerIfIdle(landed)
  ELSE IF status \in {"stale", "closed"} THEN Forgotten(landed)
  ELSE RestartTimerIfIdle(landed)

\* _shutdown, on aboutToQuit
Shutdown(s) ==
  [s EXCEPT !.shutdown = TRUE, !.enabled = FALSE, !.timer = FALSE, !.active = None,
            !.foreground = FALSE]
=============================================================================
