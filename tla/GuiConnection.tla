--------------------------- MODULE GuiConnection ----------------------------
(* The connection of the desktop tool, as its three threads share it: the GUI
   thread (GuiController and the PING scheduler, fed by one queue of signals),
   the worker thread that runs the controller's one active task against the
   RuntimeBackend, and the PING worker.  Protocol contents, progress messages
   and the evidence a task returns are left out. *)
EXTENDS ConnectionExecutor, MaintenanceScheduler, Sequences

CONSTANT MaxGeneration  \* bound on the connections that are opened

ASSUME MaxGenerationAssumption == MaxGeneration \in Nat

Generations == 0 .. MaxGeneration

VARIABLES
  ui,         \* the controller's snapshot, and the question it waits on
  worker,     \* the active task: its kind, where it is, the generation it captured
  backend,    \* RuntimeBackend: _session, _pending_close, _connection_command_executor
  store,      \* Runtime V2: the generation counter, the connection, its health
  executors,  \* one executor per generation
  open,       \* generations whose serial port is open
  sched,      \* the scheduler
  inbox,      \* signals queued for the GUI thread
  ping        \* the PING worker

vars == <<ui, worker, backend, store, executors, open, sched, inbox, ping>>

-----------------------------------------------------------------------------
(* State. *)

Idle == [kind |-> "none", at |-> "none", generation |-> None]

NoPing == [at |-> "idle", generation |-> None, executor |-> None, result |-> "none"]

UiStates == {"DISCONNECTED", "CONNECTING", "CONNECTED", "BUSY", "DISCONNECTING",
             "ERROR", "EXITED"}
Kinds    == {"none", "connect", "local", "task", "disconnect", "shutdown"}
Stages   == {"none", "start", "open", "publish", "enter", "waiting", "holding", "left",
             "raised", "release", "clear", "returned"}
Results  == {"none", "ok", "failed", "pending", "fatal", "ask", "drop", "busy", "closed",
             "stale", "HEALTHY", "UNHEALTHY", "on", "off"}
Signals  == {"opened", "started", "finished", "activity", "closed", "completed",
             "auto_ping", "result"}
Message  == [signal: Signals, generation: Generations, result: Results]

TypeOK ==
  /\ ui \in [state: UiStates, cleanup: BOOLEAN, asks: {"nothing", "disconnect", "cleanup"},
             origin: UiStates]
  /\ worker \in [kind: Kinds, at: Stages, generation: Generations]
  /\ backend \in [session: Generations, pending: BOOLEAN, executor: Generations]
  /\ store \in [generation: Generations, connection: Generations,
                health: {"UNKNOWN", "HEALTHY", "UNHEALTHY"}, source: Generations]
  /\ executors \in [Generations -> ExecutorStates(Generations)]
  /\ open \in SUBSET Generations
  /\ sched \in SchedulerStates(Generations)
  /\ inbox \in Seq(Message)
  /\ ping \in [at: {"idle", "submitted", "captured", "running", "answered", "reported"},
               generation: Generations, executor: Generations, result: Results]

Init ==
  /\ ui = [state |-> "DISCONNECTED", cleanup |-> FALSE, asks |-> "nothing",
           origin |-> "DISCONNECTED"]
  /\ worker = Idle
  /\ backend = [session |-> None, pending |-> FALSE, executor |-> None]
  /\ store = [generation |-> 0, connection |-> None, health |-> "UNKNOWN", source |-> None]
  /\ executors = [g \in Generations |-> NewExecutor(g)]
  /\ open = {}
  /\ sched = NewScheduler
  /\ inbox = <<>>
  /\ ping = NoPing

Signal(s, g) == [signal |-> s, generation |-> g, result |-> "none"]
Result(r)    == [signal |-> "result", generation |-> None, result |-> r]

\* The worker emits signals and, with the last of them, its result.
Emit(signals) == inbox' = inbox \o signals

Started(kind) == worker' = [kind |-> kind, at |-> "start", generation |-> None]

At(kind, stage) == worker.kind = kind /\ worker.at = stage

Go(stage) == worker' = [worker EXCEPT !.at = stage]

Finish(signals, result) ==
  /\ Go("returned")
  /\ Emit(Append(signals, Result(result)))

-----------------------------------------------------------------------------
(* The GUI thread: what the user may ask of the controller. *)

\* The controller admits one task at a time.
NoTask == worker = Idle /\ ui.asks = "nothing"

RequestConnect ==
  /\ NoTask /\ ui.state = "DISCONNECTED"
  /\ store.generation < MaxGeneration
  /\ ui' = [ui EXCEPT !.state = "CONNECTING"]
  /\ Started("connect")
  /\ UNCHANGED <<backend, store, executors, open, sched, inbox, ping>>

\* A task with or without a connection, such as parsing an image.
RequestTask(kind) ==
  /\ NoTask /\ ui.state \in {"DISCONNECTED", "CONNECTED"}
  /\ kind = "task" => ui.state = "CONNECTED"
  /\ ui' = [ui EXCEPT !.state = "BUSY", !.origin = ui.state]
  /\ Started(kind)
  /\ UNCHANGED <<backend, store, executors, open, sched, inbox, ping>>

RequestDisconnect ==
  /\ NoTask /\ ui.state = "CONNECTED"
  /\ ui' = [ui EXCEPT !.state = "DISCONNECTING"]
  /\ Started("disconnect")
  /\ UNCHANGED <<backend, store, executors, open, sched, inbox, ping>>

\* The application quits: aboutToQuit stops the scheduler.
Exit ==
  /\ ui' = [ui EXCEPT !.state = "EXITED", !.asks = "nothing"]
  /\ sched' = Shutdown(sched)

RequestApplicationClose ==
  /\ NoTask
  /\ \/ /\ ui.state = "DISCONNECTED" /\ ~ui.cleanup
        /\ Exit
        /\ UNCHANGED worker
     \/ /\ \/ ui.state \in {"CONNECTED", "ERROR"}
           \/ ui.state = "DISCONNECTED" /\ ui.cleanup
        /\ ui' = [ui EXCEPT !.state = "DISCONNECTING"]
        /\ Started("shutdown")
        /\ UNCHANGED sched
  /\ UNCHANGED <<backend, store, executors, open, inbox, ping>>

\* respond_task_action: the answers to the controller's two questions.
RespondTaskAction ==
  /\ worker = Idle
  /\ \/ /\ ui.asks = "disconnect"   \* KEEP_CONNECTION
        /\ ui' = [ui EXCEPT !.state = "CONNECTED", !.asks = "nothing"]
        /\ UNCHANGED <<worker, sched>>
     \/ /\ ui.asks = "disconnect"   \* DISCONNECT
        /\ ui' = [ui EXCEPT !.state = "DISCONNECTING", !.asks = "nothing"]
        /\ Started("disconnect")
        /\ UNCHANGED sched
     \/ /\ ui.asks = "cleanup"      \* RETRY_CLEANUP
        /\ ui' = [ui EXCEPT !.asks = "nothing"]
        /\ Started("shutdown")
        /\ UNCHANGED sched
     \/ /\ ui.asks = "cleanup"      \* FORCE_EXIT
        /\ Exit
        /\ UNCHANGED worker
  /\ UNCHANGED <<backend, store, executors, open, inbox, ping>>

\* set_auto_ping_enabled flips the setting; one such signal is queued at a time.
SetAutoPing ==
  /\ ui.state # "EXITED"
  /\ \A i \in 1 .. Len(inbox) : inbox[i].signal # "auto_ping"
  /\ Emit(<<[Signal("auto_ping", None) EXCEPT !.result =
              IF sched.enabled THEN "off" ELSE "on"]>>)
  /\ UNCHANGED <<ui, worker, backend, store, executors, open, sched, ping>>

-----------------------------------------------------------------------------
(* The GUI thread: the event queue and the timer. *)

\* _maybe_finish: the worker's result, once its thread has ended.
FinishTask(r) ==
  \/ /\ r = "fatal"
     /\ ui' = [ui EXCEPT !.state = "ERROR"]
     /\ worker' = Idle /\ UNCHANGED sched
  \/ /\ worker.kind = "local" /\ r # "fatal"
     /\ ui' = [ui EXCEPT !.state = ui.origin]
     /\ worker' = Idle /\ UNCHANGED sched
  \/ /\ worker.kind \in {"connect", "disconnect"} /\ r # "fatal"
     /\ ui' = [ui EXCEPT
          !.state = IF worker.kind = "connect" /\ r = "ok" THEN "CONNECTED" ELSE "DISCONNECTED",
          !.cleanup = r = "pending"]
     /\ worker' = Idle /\ UNCHANGED sched
  \/ /\ worker.kind = "task" /\ r = "ok"
     /\ ui' = [ui EXCEPT !.state = "CONNECTED"]
     /\ worker' = Idle /\ UNCHANGED sched
  \/ /\ worker.kind = "task" /\ r = "ask"      \* ASK_DISCONNECT
     /\ ui' = [ui EXCEPT !.asks = "disconnect"]
     /\ worker' = Idle /\ UNCHANGED sched
  \/ /\ worker.kind = "task" /\ r = "drop"     \* RELEASE_CONNECTION
     /\ ui' = [ui EXCEPT !.state = "DISCONNECTING"]
     /\ Started("disconnect") /\ UNCHANGED sched
  \/ /\ worker.kind = "shutdown" /\ r = "ok"
     /\ ui' = [ui EXCEPT !.state = "EXITED", !.cleanup = FALSE]
     /\ sched' = Shutdown(sched)
     /\ worker' = Idle
  \/ /\ worker.kind = "shutdown" /\ r = "pending"
     /\ ui' = [ui EXCEPT !.asks = "cleanup", !.cleanup = TRUE]
     /\ worker' = Idle /\ UNCHANGED sched

\* The scheduler's slot for a signal.
Slot(m) ==
  CASE m.signal = "opened"    -> OnConnectionOpened(sched, m.generation)
    [] m.signal = "started"   -> OnForegroundStarted(sched, m.generation)
    [] m.signal = "finished"  -> OnForegroundFinished(sched, m.generation)
    [] m.signal = "activity"  -> OnProtocolActivity(sched, m.generation)
    [] m.signal = "closed"    -> OnConnectionClosed(sched, m.generation)
    [] m.signal = "auto_ping" -> OnAutoPing(sched, m.result = "on")
    [] OTHER                  -> OnPingCompleted(sched, m.generation, m.result)

HandleSignal ==
  /\ inbox # <<>> /\ ui.state # "EXITED"
  /\ inbox' = Tail(inbox)
  /\ \/ /\ Head(inbox).signal = "result"
        /\ FinishTask(Head(inbox).result)
     \/ /\ Head(inbox).signal # "result"
        /\ sched' = Slot(Head(inbox))
        /\ UNCHANGED <<ui, worker>>
  /\ UNCHANGED <<backend, store, executors, open, ping>>

\* The idle interval is over: _on_timeout hands a PING to the pool of one thread.
Timeout ==
  /\ sched.timer /\ ui.state # "EXITED"
  /\ sched' = OnTimeout(sched)
  /\ ping' = IF CanSubmit(sched)
             THEN [NoPing EXCEPT !.at = "submitted", !.generation = sched.active]
             ELSE ping
  /\ UNCHANGED <<ui, worker, backend, store, executors, open, inbox>>

-----------------------------------------------------------------------------
(* The worker thread: RuntimeBackend.connect. *)

\* Settings that do not validate are refused before anything is touched.
ConnectInvalid ==
  /\ At("connect", "start")
  /\ Finish(<<>>, IF backend.pending THEN "pending" ELSE "failed")
  /\ UNCHANGED <<ui, backend, store, executors, open, sched, ping>>

\* A backend that still owns a session refuses with an exception.
ConnectRefused ==
  /\ At("connect", "start") /\ backend.session # None
  /\ Finish(<<>>, "fatal")
  /\ UNCHANGED <<ui, backend, store, executors, open, sched, ping>>

\* What an earlier connect could not close is closed first, or the connect fails.
\* (A backend without a session has no executor left to release here.)
PreConnectCleanup ==
  /\ At("connect", "start") /\ backend.session = None
  /\ \/ /\ backend.pending
        /\ Finish(<<>>, "pending") /\ UNCHANGED backend
     \/ /\ Go("open")
        /\ backend' = [backend EXCEPT !.pending = FALSE]
        /\ UNCHANGED inbox
  /\ UNCHANGED <<ui, store, executors, open, sched, ping>>

\* Autobaud, discovery, the user's cancellation or an unexpected exception ends
\* the attempt; closing what was opened may fail too and leaves it pending.
ConnectFails(closed) ==
  /\ At("connect", "open")
  /\ backend' = [backend EXCEPT !.pending = ~closed]
  /\ \/ Finish(<<>>, IF closed THEN "failed" ELSE "pending")
     \/ Finish(<<>>, "fatal")
  /\ UNCHANGED <<ui, store, executors, open, sched, ping>>

\* The target is identified: ConnectionOpened starts a new generation ...
ConnectOpens ==
  /\ At("connect", "open")
  /\ LET g == store.generation + 1 IN
     /\ store' = [generation |-> g, connection |-> g, health |-> "UNKNOWN", source |-> None]
     /\ backend' = [backend EXCEPT !.session = g]
     /\ open' = open \cup {g}
  /\ Go("publish")
  /\ UNCHANGED <<ui, executors, sched, inbox, ping>>

\* Mutant: the new connection gets no executor.
MutantNoExecutor ==
  /\ At("connect", "publish")
  /\ Finish(<<Signal("opened", store.generation)>>, "ok")
  /\ UNCHANGED <<ui, backend, store, executors, open, sched, ping>>

\* ... and gets its executor before the scheduler hears of it.
ConnectPublishes ==
  /\ At("connect", "publish")
  /\ backend' = [backend EXCEPT !.executor = store.generation]
  /\ executors' = [executors EXCEPT ![store.generation] = NewExecutor(store.generation)]
  /\ Finish(<<Signal("opened", store.generation)>>, "ok")
  /\ UNCHANGED <<ui, store, open, sched, ping>>

-----------------------------------------------------------------------------
(* The worker thread: tasks. *)

LocalTask ==
  /\ At("local", "start")
  /\ \E r \in {"ok", "fatal"} : Finish(<<>>, r)
  /\ UNCHANGED <<ui, backend, store, executors, open, sched, ping>>

\* _status_connection captures the executor and its generation;
\* _execute_connected_foreground announces the command.
TaskStarts ==
  /\ At("task", "start")
  /\ backend.session # None /\ backend.executor = store.connection
  /\ executors[backend.executor].valid
  /\ worker' = [worker EXCEPT !.at = "enter", !.generation = store.connection]
  /\ Emit(<<Signal("started", store.connection)>>)
  /\ UNCHANGED <<ui, backend, store, executors, open, sched, ping>>

\* execute_foreground up to the lease or its first wait, and a wake-up.
TaskEnters ==
  /\ worker.kind = "task"
  /\ LET g == worker.generation  e == executors[g] IN
     \/ /\ worker.at = "enter" /\ ~e.active
        /\ executors' = [executors EXCEPT ![g] = Granted(Queued(e))]
        /\ Go("holding")
     \/ /\ worker.at = "enter" /\ e.active
        /\ executors' = [executors EXCEPT ![g] = Queued(e)]
        /\ Go("waiting")
     \/ /\ worker.at = "waiting" /\ ~e.active
        /\ executors' = [executors EXCEPT ![g] = Granted(e)]
        /\ Go("holding")
  /\ UNCHANGED <<ui, backend, store, open, sched, inbox, ping>>

\* The operation ends or raises; the lease is released, and only an operation
\* that returned records protocol activity.
TaskLeaves(stage) ==
  /\ At("task", "holding")
  /\ executors' = [executors EXCEPT ![worker.generation] = Released(@)]
  /\ Go(stage)
  /\ IF stage = "left" THEN Emit(<<Signal("activity", worker.generation)>>)
                       ELSE UNCHANGED inbox
  /\ UNCHANGED <<ui, backend, store, open, sched, ping>>

TaskReturns ==
  /\ worker.kind = "task"
  /\ \/ /\ worker.at = "left"
        /\ \E r \in {"ok", "ask", "drop"} :
             Finish(<<Signal("finished", worker.generation)>>, r)
     \/ /\ worker.at = "raised"
        /\ Finish(<<Signal("finished", worker.generation)>>, "fatal")
  /\ UNCHANGED <<ui, backend, store, executors, open, sched, ping>>

-----------------------------------------------------------------------------
(* The worker thread: disconnect and shutdown, _close. *)

Closing == worker.kind \in {"disconnect", "shutdown"}

\* The resource is closed without the lease; a close that fails keeps it for a retry.
CloseResource ==
  /\ Closing /\ worker.at = "start"
  /\ \/ /\ backend.session # None \/ backend.pending
        /\ backend' = [backend EXCEPT !.pending = TRUE]
        /\ Finish(<<>>, "pending") /\ UNCHANGED open
     \/ /\ backend' = [backend EXCEPT !.pending = FALSE]
        /\ open' = open \ {backend.session}
        /\ Go("release") /\ UNCHANGED inbox
  /\ UNCHANGED <<ui, store, executors, sched, ping>>

\* _release_connection_executor
ReleaseExecutor ==
  /\ Closing /\ worker.at = "release"
  /\ \/ /\ backend.executor # None
        /\ executors' = [executors EXCEPT ![backend.executor] = Invalidated(@)]
        /\ IF executors[backend.executor].valid
             THEN Emit(<<Signal("closed", backend.executor)>>) ELSE UNCHANGED inbox
     \/ /\ backend.executor = None
        /\ UNCHANGED <<executors, inbox>>
  /\ backend' = [backend EXCEPT !.executor = None]
  /\ Go("clear")
  /\ UNCHANGED <<ui, store, open, sched, ping>>

\* _clear_active
ClearActive ==
  /\ Closing /\ worker.at = "clear"
  /\ store' = [store EXCEPT !.connection = None, !.health = "UNKNOWN", !.source = None]
  /\ backend' = [backend EXCEPT !.session = None]
  /\ Finish(<<>>, "ok")
  /\ UNCHANGED <<ui, executors, open, sched, ping>>

-----------------------------------------------------------------------------
(* The PING worker: try_execute_maintenance_ping. *)

\* It reads the backend's executor without a lock.
PingCaptures ==
  /\ ping.at = "submitted"
  /\ ping' = IF backend.executor = None
             THEN [ping EXCEPT !.at = "reported", !.result = "closed"]
             ELSE [ping EXCEPT !.at = "captured", !.executor = backend.executor]
  /\ UNCHANGED <<ui, worker, backend, store, executors, open, sched, inbox>>

PingEnters ==
  /\ ping.at = "captured"
  /\ LET status == MaintenanceStatus(executors[ping.executor], ping.generation) IN
     \/ /\ status # "run"
        /\ ping' = [ping EXCEPT !.at = "reported", !.result = status]
        /\ UNCHANGED executors
     \/ /\ status = "run"
        /\ ping' = [ping EXCEPT !.at = "running"]
        /\ executors' = [executors EXCEPT ![ping.executor] = MaintenanceGranted(@)]
  /\ UNCHANGED <<ui, worker, backend, store, open, sched, inbox>>

\* Mutant: a PING that fails keeps the lease.
MutantFailureKeepsLease(health) ==
  /\ ping.at = "running"
  /\ health = "HEALTHY" => ping.executor \in open
  /\ ping' = [ping EXCEPT !.at = "answered", !.result = health]
  /\ executors' = IF health = "HEALTHY"
                  THEN [executors EXCEPT ![ping.executor] = Released(@)] ELSE executors
  /\ UNCHANGED <<ui, worker, backend, store, open, sched, inbox>>

\* The device answers, or it does not; a port that was closed never does.
PingAnswers(health) ==
  /\ ping.at = "running"
  /\ health = "HEALTHY" => ping.executor \in open
  /\ ping' = [ping EXCEPT !.at = "answered", !.result = health]
  /\ executors' = [executors EXCEPT ![ping.executor] = Released(@)]
  /\ UNCHANGED <<ui, worker, backend, store, open, sched, inbox>>

\* Mutant: the health of any PING is applied to the connection of the moment.
MutantAnyGeneration(g, health, source) ==
  IF store.connection = None THEN store
  ELSE [store EXCEPT !.health = health, !.source = source]

\* ConnectionHealthPolicy: events of other generations are dropped.
HealthApplied(g, health, source) ==
  IF store.connection = None \/ store.connection # g THEN store
  ELSE [store EXCEPT !.health = health, !.source = source]

PingReports ==
  /\ ping.at = "answered"
  /\ store' = HealthApplied(ping.generation, ping.result, ping.executor)
  /\ IF ping.result = "HEALTHY" THEN Emit(<<Signal("activity", ping.generation)>>)
                                ELSE UNCHANGED inbox
  /\ ping' = [ping EXCEPT !.at = "reported"]
  /\ UNCHANGED <<ui, worker, backend, executors, open, sched>>

PingReturns ==
  /\ ping.at = "reported"
  /\ Emit(<<[Signal("completed", ping.generation) EXCEPT !.result = ping.result]>>)
  /\ ping' = NoPing
  /\ UNCHANGED <<ui, worker, backend, store, executors, open, sched>>

-----------------------------------------------------------------------------

UserSteps ==
  \/ RequestConnect \/ RequestDisconnect \/ RequestApplicationClose
  \/ RespondTaskAction \/ SetAutoPing
  \/ \E kind \in {"task", "local"} : RequestTask(kind)

WorkerSteps ==
  \/ ConnectInvalid \/ ConnectRefused \/ PreConnectCleanup
  \/ ConnectOpens \/ ConnectPublishes
  \/ \E closed \in BOOLEAN : ConnectFails(closed)
  \/ LocalTask \/ TaskStarts \/ TaskEnters \/ TaskReturns
  \/ \E stage \in {"left", "raised"} : TaskLeaves(stage)
  \/ CloseResource \/ ReleaseExecutor \/ ClearActive

PingSteps ==
  \/ PingCaptures \/ PingEnters \/ PingReports \/ PingReturns
  \/ \E health \in {"HEALTHY", "UNHEALTHY"} : PingAnswers(health)

Next == UserSteps \/ HandleSignal \/ Timeout \/ WorkerSteps \/ PingSteps

Spec == Init /\ [][Next]_vars

\* The event loop, its timer and both threads run; the user owes nothing.
FairSpec ==
  /\ Spec
  /\ WF_vars(HandleSignal) /\ WF_vars(Timeout)
  /\ WF_vars(WorkerSteps) /\ WF_vars(PingSteps)

-----------------------------------------------------------------------------
(* Properties. *)

\* The session of one connection is never used by a task and a PING at once.
SessionNotShared ==
  ~(worker.at = "holding" /\ ping.at = "running" /\ ping.executor = worker.generation)

\* The health shown for a connection was measured on that connection: a PING
\* that outlives its connection never colours the next one.
HealthIsOwn == store.source \in {None, store.connection}

\* All threads and the event queue are at rest.
Settled == worker = Idle /\ ping = NoPing /\ inbox = <<>> /\ ui.state # "EXITED"

\* At rest the scheduler serves exactly the open connection: the signals of two
\* threads, in whatever order they were queued, leave neither a dead connection
\* scheduled nor a living one forgotten.
SchedulerFollowsConnection == Settled => sched.active = store.connection

\* At rest an enabled scheduler with a connection has its timer running: no
\* order of signals loses the one-shot timer.
TimerNotLost ==
  Settled /\ sched.enabled /\ sched.active # None => sched.timer

\* Scheduler and connection agree whenever the program is at rest, in the order
\* of their signals that is worst for them (QtConnectionMaintenanceScheduler).
SchedulerServes == TypeOK /\ SchedulerFollowsConnection /\ TimerNotLost

\* A connected controller has a connection it can use: an open session with its
\* executor valid and free or in use by a PING.
ConnectedIsUsable ==
  ui.state = "CONNECTED" =>
    /\ backend.session # None /\ backend.session = store.connection
    /\ backend.session \in open
    /\ backend.executor = backend.session /\ executors[backend.executor].valid

\* An operation that waits for the lease gets it.
ForegroundRuns == worker.at = "waiting" ~> worker.at = "holding"

\* A connection that stays idle is checked again and again.
IdleIsPinged ==
  <>[](ui.state = "CONNECTED" /\ worker = Idle /\ sched.enabled)
    => []<>(ping.at = "running")

\* Neither side of the executor starves the other: tasks get their lease and idle
\* connections their PINGs, after failures and reconnects too.
BothSidesProgress == ForegroundRuns /\ IdleIsPinged

\* _connect's own assertion: a connect request reaches the backend only when it
\* owns no session.
ConnectOwnsNoSession == At("connect", "start") => backend.session = None
=============================================================================
