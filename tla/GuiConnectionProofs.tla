------------------------ MODULE GuiConnectionProofs -------------------------
(* Proofs about GuiConnection, for any number of connections: the session is
   never shared, health is shown only for the connection it was measured on, a
   connection shown as connected is usable, and the scheduler keeps up with it
   in every order of the signals that are on their way. *)
EXTENDS GuiConnection, SequenceTheorems, TLAPS

\* The types of what the threads share, which is all the proofs need.
CoreTypes ==
  /\ worker \in [kind: Kinds, at: Stages, generation: Generations]
  /\ backend \in [session: Generations, pending: BOOLEAN, executor: Generations]
  /\ store \in [generation: Generations, connection: Generations,
                health: {"UNKNOWN", "HEALTHY", "UNHEALTHY"}, source: Generations]
  /\ executors \in [Generations -> ExecutorStates(Generations)]
  /\ ping = [at |-> ping.at, generation |-> ping.generation, executor |-> ping.executor,
             result |-> ping.result]
  /\ ping.at \in {"idle", "submitted", "captured", "running", "answered", "reported"}
  /\ ping.executor \in Generations

\* Executors are named by the generation they were made for, which has begun;
\* a connection that is being published has not been seen by any other thread.
GenerationInv ==
  /\ \A g \in Generations : executors[g].generation = g
  /\ backend.executor <= store.generation /\ ping.executor <= store.generation
  /\ At("connect", "publish") =>
       backend.executor < store.generation /\ ping.executor < store.generation
  /\ worker.kind = "connect" /\ worker.at \in {"start", "open"} =>
       store.generation < MaxGeneration

\* Whoever is inside a session holds the lease of its executor.
LeaseInv ==
  /\ worker.at = "holding" => worker.kind = "task" /\ executors[worker.generation].active
  /\ ping.at = "running" => executors[ping.executor].active
  /\ ping.at \in {"running", "answered"} => ping.executor = ping.generation
  /\ worker.at = "waiting" => worker.kind = "task" /\ executors[worker.generation].waiters # 0
  /\ ping.at = "answered" => ping.result \in {"HEALTHY", "UNHEALTHY"}

\* The inductive invariant.
IInv == CoreTypes /\ GenerationInv /\ LeaseInv /\ SessionNotShared /\ HealthIsOwn

\* Granting the lease keeps the type when the taker was counted.
LEMMA GrantedType ==
  ASSUME NEW G, NEW e \in ExecutorStates(G), e.waiters # 0
  PROVE  /\ Granted(e) \in ExecutorStates(G)
         /\ Granted(e).active /\ Granted(e).waiters = e.waiters - 1
         /\ Granted(e).valid = e.valid /\ Granted(e).generation = e.generation
<1>1. /\ Abandoned(e) \in ExecutorStates(G)
      /\ Abandoned(e).waiters = e.waiters - 1 /\ Abandoned(e).active = e.active
      /\ Abandoned(e).valid = e.valid /\ Abandoned(e).generation = e.generation
  BY DEF Abandoned, ExecutorStates
<1> QED BY <1>1 DEF Granted, ExecutorStates

\* A caller that need not wait is counted and uncounted in one step.
LEMMA GrantedAtOnce ==
  ASSUME NEW G, NEW e \in ExecutorStates(G)
  PROVE  Granted(Queued(e)) = MaintenanceGranted(e)
<1>1. /\ Queued(e) \in ExecutorStates(G)
      /\ Queued(e).waiters = e.waiters + 1 /\ Queued(e).active = e.active
      /\ Queued(e).valid = e.valid /\ Queued(e).generation = e.generation
  BY DEF Queued, ExecutorStates
<1>2. Abandoned(Queued(e)) = e
  BY <1>1 DEF Abandoned, ExecutorStates
<1> QED BY <1>2 DEF Granted, MaintenanceGranted

\* No task, no connection, no PING.
LEMMA InitIInv == Init => IInv
<1> SUFFICES ASSUME Init PROVE IInv OBVIOUS
<1>0. 0 \in Generations /\ Generations \subseteq Nat
  BY MaxGenerationAssumption DEF Generations
<1>1. CoreTypes
  BY <1>0 DEF Init, CoreTypes, Idle, NoPing, None, Kinds, Stages, Results, NewExecutor, ExecutorStates
<1>2. GenerationInv
  BY <1>0 DEF Init, GenerationInv, Idle, NoPing, None, NewExecutor, At
<1>3. LeaseInv /\ SessionNotShared /\ HealthIsOwn
  BY DEF Init, LeaseInv, SessionNotShared, HealthIsOwn, Idle, NoPing, None
<1> QED BY <1>1, <1>2, <1>3 DEF IInv

\* A step that moves only the worker, and neither into the session nor to the
\* publication of a connection.
LEMMA QuietStep ==
  ASSUME IInv,
         UNCHANGED <<store, executors, ping>>,
         backend' \in [session: Generations, pending: BOOLEAN, executor: Generations],
         backend'.executor = backend.executor,
         worker' \in [kind: Kinds, at: Stages, generation: Generations],
         worker'.at \notin {"waiting", "holding", "publish"},
         worker'.kind = "connect" /\ worker'.at \in {"start", "open"} =>
           store.generation < MaxGeneration
  PROVE  IInv'
<1>1. CoreTypes' BY DEF IInv, CoreTypes
<1>2. GenerationInv' BY DEF IInv, GenerationInv, At
<1>3. LeaseInv' /\ SessionNotShared' /\ HealthIsOwn'
  BY DEF IInv, LeaseInv, SessionNotShared, HealthIsOwn
<1> QED BY <1>1, <1>2, <1>3 DEF IInv

\* What the user asks for and what the event loop does touch no session.
LEMMA GuiSteps == ASSUME IInv, UserSteps \/ HandleSignal PROVE IInv'
<1> USE DEF Kinds, Stages, None
<1>0. 0 \in Generations BY MaxGenerationAssumption DEF Generations
<1>1. UNCHANGED <<store, executors, ping, backend>>
  BY DEF UserSteps, RequestConnect, RequestDisconnect, RequestApplicationClose,
    RespondTaskAction, SetAutoPing, RequestTask, HandleSignal
<1>2. \/ worker' = worker \/ worker' = Idle
      \/ \E kind \in {"local", "task", "disconnect", "shutdown"} : Started(kind)
      \/ Started("connect") /\ store.generation < MaxGeneration
  BY DEF UserSteps, RequestConnect, RequestDisconnect, RequestApplicationClose,
    RespondTaskAction, SetAutoPing, RequestTask, HandleSignal, FinishTask
<1>3. CASE worker' = worker
  BY <1>1, <1>3 DEF IInv, CoreTypes, GenerationInv, At, LeaseInv, SessionNotShared, HealthIsOwn
<1>4. CASE worker' = Idle
  BY <1>0, <1>1, <1>4, QuietStep DEF Idle, IInv, CoreTypes
<1>5. CASE \E kind \in {"local", "task", "disconnect", "shutdown"} : Started(kind)
  BY <1>0, <1>1, <1>5, QuietStep DEF Started, IInv, CoreTypes
<1>6. CASE Started("connect") /\ store.generation < MaxGeneration
  BY <1>0, <1>1, <1>6, QuietStep DEF Started, IInv, CoreTypes
<1> QED BY <1>2, <1>3, <1>4, <1>5, <1>6

\* Handing a PING to the pool touches no session.
LEMMA TimeoutStep == ASSUME IInv, Timeout PROVE IInv'
<1>0. 0 \in Generations /\ Generations \subseteq Nat
  BY MaxGenerationAssumption DEF Generations
<1>1. UNCHANGED <<worker, backend, store, executors>> BY DEF Timeout
<1>2. ping' = ping \/ ping' = [NoPing EXCEPT !.at = "submitted", !.generation = sched.active]
  BY DEF Timeout
<1>3. CASE ping' = ping
  BY <1>1, <1>3 DEF IInv, CoreTypes, GenerationInv, At, LeaseInv, SessionNotShared, HealthIsOwn
<1>4. CASE ping' = [NoPing EXCEPT !.at = "submitted", !.generation = sched.active]
  <2>1. ping' = [at |-> "submitted", generation |-> sched.active, executor |-> None, result |-> "none"]
    BY <1>4 DEF NoPing
  <2>2. CoreTypes' BY <1>0, <1>1, <2>1 DEF IInv, CoreTypes, None, Results
  <2>3. GenerationInv'
    BY <1>0, <1>1, <2>1 DEF IInv, CoreTypes, GenerationInv, At, None
  <2>4. LeaseInv' /\ SessionNotShared' /\ HealthIsOwn'
    BY <1>1, <2>1 DEF IInv, LeaseInv, SessionNotShared, HealthIsOwn
  <2> QED BY <2>2, <2>3, <2>4 DEF IInv
<1> QED BY <1>2, <1>3, <1>4

\* RuntimeBackend.connect: a new generation begins with a lease that is free.
LEMMA ConnectSteps ==
  ASSUME IInv,
         \/ ConnectInvalid \/ ConnectRefused \/ PreConnectCleanup
         \/ ConnectOpens \/ ConnectPublishes
         \/ \E closed \in BOOLEAN : ConnectFails(closed)
  PROVE  IInv'
<1> USE DEF At, Go, Finish, None
<1>0. 0 \in Generations /\ Generations \subseteq Nat
  BY MaxGenerationAssumption DEF Generations
<1>1. CASE ConnectInvalid \/ ConnectRefused
  BY <1>1, QuietStep DEF ConnectInvalid, ConnectRefused, IInv, CoreTypes, Stages, Kinds
<1>2. CASE PreConnectCleanup
  <2>1. /\ UNCHANGED <<store, executors, ping>>
        /\ worker.kind = "connect" /\ worker.at = "start"
        /\ \/ worker' = [worker EXCEPT !.at = "returned"] /\ UNCHANGED backend
           \/ /\ worker' = [worker EXCEPT !.at = "open"]
              /\ backend' = [backend EXCEPT !.pending = FALSE]
    BY <1>2 DEF PreConnectCleanup
  <2>2. store.generation < MaxGeneration BY <2>1 DEF IInv, GenerationInv
  <2>3. CASE worker' = [worker EXCEPT !.at = "returned"] /\ UNCHANGED backend
    BY <2>1, <2>3, QuietStep DEF IInv, CoreTypes, Stages, Kinds
  <2>4. CASE /\ worker' = [worker EXCEPT !.at = "open"]
             /\ backend' = [backend EXCEPT !.pending = FALSE]
    BY <2>1, <2>2, <2>4, QuietStep DEF IInv, CoreTypes, Stages, Kinds
  <2> QED BY <2>1, <2>3, <2>4
<1>3. ASSUME NEW closed \in BOOLEAN, ConnectFails(closed) PROVE IInv'
  <2>1. /\ worker' = [worker EXCEPT !.at = "returned"]
        /\ backend' = [backend EXCEPT !.pending = ~closed]
        /\ UNCHANGED <<store, executors, ping>>
    BY <1>3 DEF ConnectFails
  <2> QED BY <2>1, QuietStep DEF IInv, CoreTypes, Stages, Kinds
<1>4. CASE ConnectOpens
  <2> DEFINE g == store.generation + 1
  <2>1. /\ store' = [generation |-> g, connection |-> g, health |-> "UNKNOWN", source |-> None]
        /\ backend' = [backend EXCEPT !.session = g]
        /\ worker' = [worker EXCEPT !.at = "publish"]
        /\ worker.kind = "connect" /\ worker.at = "open"
        /\ UNCHANGED <<executors, ping>>
    BY <1>4 DEF ConnectOpens
  <2>2. g \in Generations /\ store.generation \in Nat
    BY <1>0, <2>1, MaxGenerationAssumption DEF IInv, CoreTypes, GenerationInv, Generations
  <2>3. CoreTypes' BY <1>0, <2>1, <2>2 DEF IInv, CoreTypes, Stages
  <2>4. GenerationInv'
    <3>1. /\ store'.generation = store.generation + 1 /\ backend'.executor = backend.executor
          /\ worker'.kind = "connect" /\ worker'.at = "publish"
          /\ backend.executor \in Nat /\ ping.executor \in Nat
      BY <1>0, <2>1 DEF IInv, CoreTypes
    <3> QED BY <2>1, <2>2, <3>1 DEF IInv, GenerationInv
  <2>5. LeaseInv' /\ SessionNotShared' /\ HealthIsOwn'
    BY <2>1 DEF IInv, CoreTypes, LeaseInv, SessionNotShared, HealthIsOwn
  <2> QED BY <2>3, <2>4, <2>5 DEF IInv
<1>5. CASE ConnectPublishes
  <2> DEFINE g == store.generation
  <2>1. /\ backend' = [backend EXCEPT !.executor = g]
        /\ executors' = [executors EXCEPT ![g] = NewExecutor(g)]
        /\ worker' = [worker EXCEPT !.at = "returned"]
        /\ worker.kind = "connect" /\ worker.at = "publish"
        /\ UNCHANGED <<store, ping>>
    BY <1>5 DEF ConnectPublishes
  <2>2. g \in Generations /\ g \in Nat BY <1>0 DEF IInv, CoreTypes
  <2>3. NewExecutor(g) \in ExecutorStates(Generations) /\ NewExecutor(g).generation = g
    BY <2>2 DEF NewExecutor, ExecutorStates
  <2>4. CoreTypes' BY <2>1, <2>2, <2>3 DEF IInv, CoreTypes, Stages
  <2>5. GenerationInv' BY <1>0, <2>1, <2>2, <2>3 DEF IInv, CoreTypes, GenerationInv
  <2>6. ping.executor # g BY <1>0, <2>1, <2>2 DEF IInv, CoreTypes, GenerationInv
  <2>7. LeaseInv' /\ SessionNotShared' /\ HealthIsOwn'
    BY <2>1, <2>6 DEF IInv, CoreTypes, LeaseInv, SessionNotShared, HealthIsOwn
  <2> QED BY <2>4, <2>5, <2>7 DEF IInv
<1> QED BY <1>1, <1>2, <1>3, <1>4, <1>5

\* Tasks enter the session only through a free lease.
LEMMA TaskSteps ==
  ASSUME IInv,
         \/ LocalTask \/ TaskStarts \/ TaskEnters \/ TaskReturns
         \/ \E stage \in {"left", "raised"} : TaskLeaves(stage)
  PROVE  IInv'
<1> USE DEF At, Go, Finish
<1>0. 0 \in Generations /\ Generations \subseteq Nat
  BY MaxGenerationAssumption DEF Generations
<1>1. CASE LocalTask
  BY <1>1, QuietStep DEF LocalTask, IInv, CoreTypes, Stages, Kinds
<1>2. CASE TaskStarts
  BY <1>2, QuietStep DEF TaskStarts, IInv, CoreTypes, Stages, Kinds
<1>3. CASE TaskReturns
  BY <1>3, QuietStep DEF TaskReturns, IInv, CoreTypes, Stages, Kinds
<1> DEFINE g == worker.generation  e == executors[g]
<1>g. g \in Generations /\ e \in ExecutorStates(Generations) BY DEF IInv, CoreTypes
<1>4. CASE TaskEnters
  <2>1. /\ worker.kind = "task"
        /\ UNCHANGED <<backend, store, ping>>
    BY <1>4 DEF TaskEnters
  <2>2. CASE executors' = [executors EXCEPT ![g] = Queued(e)] /\ worker' = [worker EXCEPT !.at = "waiting"]
    <3>1. /\ Queued(e) \in ExecutorStates(Generations) /\ Queued(e).active = e.active
          /\ Queued(e).generation = e.generation /\ Queued(e).waiters # 0
      BY <1>g DEF Queued, ExecutorStates
    <3>2. CoreTypes' BY <1>g, <2>1, <2>2, <3>1 DEF IInv, CoreTypes, Stages
    <3>3. GenerationInv' BY <1>g, <2>1, <2>2, <3>1 DEF IInv, CoreTypes, GenerationInv
    <3>4. LeaseInv' /\ SessionNotShared' /\ HealthIsOwn'
      BY <1>g, <2>1, <2>2, <3>1 DEF IInv, CoreTypes, LeaseInv, SessionNotShared, HealthIsOwn
    <3> QED BY <3>2, <3>3, <3>4 DEF IInv
  <2>3. ASSUME NEW x \in ExecutorStates(Generations), x.active, x.generation = e.generation,
               ~e.active, executors' = [executors EXCEPT ![g] = x],
               worker' = [worker EXCEPT !.at = "holding"]
        PROVE  IInv'
    <3>1. CoreTypes' BY <1>g, <2>1, <2>3 DEF IInv, CoreTypes, Stages
    <3>2. GenerationInv' BY <1>g, <2>1, <2>3 DEF IInv, CoreTypes, GenerationInv
    <3>3. LeaseInv' /\ SessionNotShared' /\ HealthIsOwn'
      BY <1>g, <2>1, <2>3 DEF IInv, CoreTypes, LeaseInv, SessionNotShared, HealthIsOwn
    <3> QED BY <3>1, <3>2, <3>3 DEF IInv
  <2>4. CASE worker.at = "enter" /\ ~e.active
    <3>1. /\ executors' = [executors EXCEPT ![g] = Granted(Queued(e))]
          /\ worker' = [worker EXCEPT !.at = "holding"]
      BY <1>4, <2>4 DEF TaskEnters
    <3>q. Granted(Queued(e)) = MaintenanceGranted(e) BY <1>g, GrantedAtOnce
    <3>2. /\ Granted(Queued(e)) \in ExecutorStates(Generations) /\ Granted(Queued(e)).active
          /\ Granted(Queued(e)).generation = e.generation
      BY <1>g, <3>q DEF MaintenanceGranted, ExecutorStates
    <3> QED BY <2>3, <2>4, <3>1, <3>2
  <2>5. CASE worker.at = "waiting" /\ ~e.active
    <3>1. /\ executors' = [executors EXCEPT ![g] = Granted(e)]
          /\ worker' = [worker EXCEPT !.at = "holding"]
      BY <1>4, <2>5 DEF TaskEnters
    <3>2. e.waiters # 0 BY <2>1, <2>5 DEF IInv, LeaseInv
    <3>3. /\ Granted(e) \in ExecutorStates(Generations) /\ Granted(e).active
          /\ Granted(e).generation = e.generation
      BY <1>g, <3>2, GrantedType
    <3> QED BY <2>3, <2>5, <3>1, <3>3
  <2> QED BY <1>4, <2>2, <2>4, <2>5 DEF TaskEnters
<1>5. ASSUME NEW stage \in {"left", "raised"}, TaskLeaves(stage) PROVE IInv'
  <2>1. /\ executors' = [executors EXCEPT ![g] = Released(e)]
        /\ worker' = [worker EXCEPT !.at = stage]
        /\ worker.at = "holding" /\ worker.kind = "task"
        /\ UNCHANGED <<backend, store, ping>>
    BY <1>5 DEF TaskLeaves
  <2>2. /\ Released(e) \in ExecutorStates(Generations) /\ Released(e).generation = e.generation
        /\ Released(e).waiters = e.waiters
    BY <1>g DEF Released, ExecutorStates
  <2>3. CoreTypes' BY <1>g, <2>1, <2>2 DEF IInv, CoreTypes, Stages
  <2>4. GenerationInv' BY <1>g, <2>1, <2>2 DEF IInv, CoreTypes, GenerationInv
  <2>5. LeaseInv' /\ SessionNotShared' /\ HealthIsOwn'
    BY <1>g, <2>1, <2>2 DEF IInv, CoreTypes, LeaseInv, SessionNotShared, HealthIsOwn
  <2> QED BY <2>3, <2>4, <2>5 DEF IInv
<1> QED BY <1>1, <1>2, <1>3, <1>4, <1>5

\* Closing invalidates the executor but takes no lease from its holder.
LEMMA CloseSteps == ASSUME IInv, CloseResource \/ ReleaseExecutor \/ ClearActive PROVE IInv'
<1> USE DEF At, Go, Finish, None, Closing
<1>0. 0 \in Generations /\ Generations \subseteq Nat
  BY MaxGenerationAssumption DEF Generations
<1>1. CASE CloseResource
  BY <1>1, QuietStep DEF CloseResource, IInv, CoreTypes, Stages, Kinds
<1>2. CASE ReleaseExecutor
  <2> DEFINE g == backend.executor  e == executors[g]
  <2>1. /\ backend' = [backend EXCEPT !.executor = None]
        /\ worker' = [worker EXCEPT !.at = "clear"]
        /\ worker.kind # "connect"
        /\ UNCHANGED <<store, ping>>
        /\ executors' = executors \/ executors' = [executors EXCEPT ![g] = Invalidated(e)]
    BY <1>2 DEF ReleaseExecutor
  <2>i. g \in Generations /\ e \in ExecutorStates(Generations) BY DEF IInv, CoreTypes
  <2>2. /\ g \in Generations /\ Invalidated(e) \in ExecutorStates(Generations)
        /\ Invalidated(e).generation = e.generation /\ Invalidated(e).active = e.active
        /\ Invalidated(e).waiters = e.waiters
    BY <2>i DEF Invalidated, ExecutorStates
  <2>3. CoreTypes' BY <1>0, <2>1, <2>2 DEF IInv, CoreTypes, Stages
  <2>4. GenerationInv' BY <1>0, <2>1, <2>2 DEF IInv, CoreTypes, GenerationInv
  <2>5. LeaseInv' /\ SessionNotShared' /\ HealthIsOwn'
    BY <2>1, <2>2 DEF IInv, CoreTypes, LeaseInv, SessionNotShared, HealthIsOwn
  <2> QED BY <2>3, <2>4, <2>5 DEF IInv
<1>3. CASE ClearActive
  <2>1. /\ store' = [store EXCEPT !.connection = None, !.health = "UNKNOWN", !.source = None]
        /\ backend' = [backend EXCEPT !.session = None]
        /\ worker' = [worker EXCEPT !.at = "returned"]
        /\ worker.kind # "connect"
        /\ UNCHANGED <<executors, ping>>
    BY <1>3 DEF ClearActive
  <2>2. store' = [generation |-> store.generation, connection |-> None, health |-> "UNKNOWN",
                  source |-> None]
    BY <2>1 DEF IInv, CoreTypes
  <2>3. CoreTypes' BY <1>0, <2>1, <2>2 DEF IInv, CoreTypes, Stages
  <2>4. GenerationInv' BY <2>1, <2>2 DEF IInv, CoreTypes, GenerationInv
  <2>5. LeaseInv' /\ SessionNotShared' /\ HealthIsOwn'
    BY <2>1, <2>2 DEF IInv, CoreTypes, LeaseInv, SessionNotShared, HealthIsOwn
  <2> QED BY <2>3, <2>4, <2>5 DEF IInv
<1> QED BY <1>1, <1>2, <1>3

\* The PING worker enters only through a free lease of its own generation.
LEMMA PingStepsKeep == ASSUME IInv, PingSteps PROVE IInv'
<1> USE DEF At, None
<1>0. 0 \in Generations /\ Generations \subseteq Nat
  BY MaxGenerationAssumption DEF Generations
<1> DEFINE g == ping.executor  e == executors[g]
<1>g. g \in Generations /\ e \in ExecutorStates(Generations) /\ e.generation = g
  BY DEF IInv, CoreTypes, GenerationInv
<1>1. CASE PingCaptures
  <2>1. UNCHANGED <<worker, backend, store, executors>> BY <1>1 DEF PingCaptures
  <2>2. \/ ping' = [ping EXCEPT !.at = "reported", !.result = "closed"]
        \/ ping' = [ping EXCEPT !.at = "captured", !.executor = backend.executor]
    BY <1>1 DEF PingCaptures
  <2>3. /\ ping'.at \in {"reported", "captured"}
        /\ ping'.executor \in {ping.executor, backend.executor}
        /\ ping' = [at |-> ping'.at, generation |-> ping'.generation,
                    executor |-> ping'.executor, result |-> ping'.result]
    BY <2>2 DEF IInv, CoreTypes
  <2>4. CoreTypes' BY <2>1, <2>3 DEF IInv, CoreTypes
  <2>5. GenerationInv' BY <2>1, <2>3 DEF IInv, CoreTypes, GenerationInv
  <2>6. LeaseInv' /\ SessionNotShared' /\ HealthIsOwn'
    BY <2>1, <2>3 DEF IInv, LeaseInv, SessionNotShared, HealthIsOwn
  <2> QED BY <2>4, <2>5, <2>6 DEF IInv
<1>2. CASE PingEnters
  <2>1. UNCHANGED <<worker, backend, store>> BY <1>2 DEF PingEnters
  <2>2. CASE executors' = executors
    <3>1. ping' = [ping EXCEPT !.at = "reported",
                               !.result = MaintenanceStatus(e, ping.generation)]
      <4>1. MaintenanceStatus(e, ping.generation) = "run" => executors'[g] # e
        BY <1>2, <1>g DEF PingEnters, MaintenanceGranted, MaintenanceStatus, ExecutorStates,
          IInv, CoreTypes, Unavailable
      <4> QED BY <1>2, <2>2, <4>1 DEF PingEnters
    <3>2. /\ ping'.at = "reported" /\ ping'.executor = g
          /\ ping' = [at |-> ping'.at, generation |-> ping'.generation,
                      executor |-> ping'.executor, result |-> ping'.result]
      BY <3>1 DEF IInv, CoreTypes
    <3>3. CoreTypes' /\ GenerationInv'
      BY <2>1, <2>2, <3>2 DEF IInv, CoreTypes, GenerationInv
    <3>4. LeaseInv' /\ SessionNotShared' /\ HealthIsOwn'
      BY <2>1, <2>2, <3>2 DEF IInv, LeaseInv, SessionNotShared, HealthIsOwn
    <3> QED BY <3>3, <3>4 DEF IInv
  <2>3. CASE executors' # executors
    <3>1. /\ MaintenanceStatus(e, ping.generation) = "run"
          /\ ping' = [ping EXCEPT !.at = "running"]
          /\ executors' = [executors EXCEPT ![g] = MaintenanceGranted(e)]
      BY <1>2, <2>3 DEF PingEnters
    <3>2. ~e.active /\ ping.generation = g
      BY <1>g, <3>1 DEF MaintenanceStatus, Unavailable
    <3>3. /\ ping'.at = "running" /\ ping'.executor = g /\ ping'.generation = g
          /\ ping' = [at |-> ping'.at, generation |-> ping'.generation,
                      executor |-> ping'.executor, result |-> ping'.result]
      BY <3>1, <3>2 DEF IInv, CoreTypes
    <3>4. /\ MaintenanceGranted(e) \in ExecutorStates(Generations) /\ MaintenanceGranted(e).active
          /\ MaintenanceGranted(e).generation = g /\ MaintenanceGranted(e).waiters = e.waiters
      BY <1>g DEF MaintenanceGranted, ExecutorStates
    <3>5. CoreTypes' BY <1>g, <2>1, <3>1, <3>3, <3>4 DEF IInv, CoreTypes
    <3>6. GenerationInv' BY <1>g, <2>1, <3>1, <3>3, <3>4 DEF IInv, CoreTypes, GenerationInv
    <3>7. LeaseInv' /\ SessionNotShared' /\ HealthIsOwn'
      BY <1>g, <2>1, <3>1, <3>2, <3>3, <3>4
      DEF IInv, CoreTypes, LeaseInv, SessionNotShared, HealthIsOwn
    <3> QED BY <3>5, <3>6, <3>7 DEF IInv
  <2> QED BY <2>2, <2>3
<1>3. ASSUME NEW health \in {"HEALTHY", "UNHEALTHY"}, PingAnswers(health) PROVE IInv'
  <2>1. /\ UNCHANGED <<worker, backend, store>>
        /\ executors' = [executors EXCEPT ![g] = Released(e)]
        /\ ping' = [ping EXCEPT !.at = "answered", !.result = health]
        /\ ping.at = "running"
    BY <1>3 DEF PingAnswers
  <2>2. /\ ping'.at = "answered" /\ ping'.executor = g /\ ping'.generation = ping.generation
        /\ ping'.result = health
        /\ ping' = [at |-> ping'.at, generation |-> ping'.generation,
                    executor |-> ping'.executor, result |-> ping'.result]
    BY <2>1 DEF IInv, CoreTypes
  <2>3. /\ Released(e) \in ExecutorStates(Generations)
        /\ Released(e).generation = g /\ Released(e).waiters = e.waiters
    BY <1>g DEF Released, ExecutorStates
  <2>4. CoreTypes' BY <1>g, <2>1, <2>2, <2>3 DEF IInv, CoreTypes
  <2>5. GenerationInv' BY <1>g, <2>1, <2>2, <2>3 DEF IInv, CoreTypes, GenerationInv
  <2>6. LeaseInv' /\ SessionNotShared' /\ HealthIsOwn'
    BY <1>g, <2>1, <2>2, <2>3 DEF IInv, CoreTypes, LeaseInv, SessionNotShared, HealthIsOwn
  <2> QED BY <2>4, <2>5, <2>6 DEF IInv
<1>4. CASE PingReports
  <2>1. /\ UNCHANGED <<worker, backend, executors>>
        /\ store' = HealthApplied(ping.generation, ping.result, ping.executor)
        /\ ping' = [ping EXCEPT !.at = "reported"] /\ ping.at = "answered"
    BY <1>4 DEF PingReports
  <2>2. /\ ping'.at = "reported" /\ ping'.executor = g
        /\ ping' = [at |-> ping'.at, generation |-> ping'.generation,
                    executor |-> ping'.executor, result |-> ping'.result]
    BY <2>1 DEF IInv, CoreTypes
  <2>3. /\ ping.generation = g /\ ping.result \in {"HEALTHY", "UNHEALTHY"}
    BY <2>1 DEF IInv, LeaseInv
  <2>4. /\ store' \in [generation: Generations, connection: Generations,
                       health: {"UNKNOWN", "HEALTHY", "UNHEALTHY"}, source: Generations]
        /\ store'.generation = store.generation
        /\ store'.source \in {None, store'.connection}
    BY <1>g, <2>1, <2>3 DEF IInv, CoreTypes, HealthApplied, HealthIsOwn
  <2>5. CoreTypes' /\ GenerationInv'
    BY <2>1, <2>2, <2>4 DEF IInv, CoreTypes, GenerationInv
  <2>6. LeaseInv' /\ SessionNotShared' /\ HealthIsOwn'
    BY <2>1, <2>2, <2>4 DEF IInv, LeaseInv, SessionNotShared, HealthIsOwn
  <2> QED BY <2>5, <2>6 DEF IInv
<1>5. CASE PingReturns
  <2>1. UNCHANGED <<worker, backend, store, executors>> /\ ping' = NoPing
    BY <1>5 DEF PingReturns
  <2>2. CoreTypes' BY <1>0, <2>1 DEF IInv, CoreTypes, NoPing
  <2>3. GenerationInv' BY <1>0, <2>1 DEF IInv, CoreTypes, GenerationInv, NoPing
  <2>4. LeaseInv' /\ SessionNotShared' /\ HealthIsOwn'
    BY <2>1 DEF IInv, LeaseInv, SessionNotShared, HealthIsOwn, NoPing
  <2> QED BY <2>2, <2>3, <2>4 DEF IInv
<1> QED BY <1>1, <1>2, <1>3, <1>4, <1>5 DEF PingSteps

\* Every step of every thread preserves the invariant.
LEMMA NextIInv == IInv /\ [Next]_vars => IInv'
<1> SUFFICES ASSUME IInv, [Next]_vars PROVE IInv' OBVIOUS
<1>1. CASE UNCHANGED vars
  BY <1>1 DEF vars, IInv, CoreTypes, GenerationInv, At, LeaseInv, SessionNotShared, HealthIsOwn
<1>2. CASE Next
  BY <1>2, GuiSteps, TimeoutStep, ConnectSteps, TaskSteps, CloseSteps, PingStepsKeep
  DEF Next, WorkerSteps
<1> QED BY <1>1, <1>2

\* The invariant holds in every state the three threads can reach.
THEOREM ConnectionInvariant == Spec => []IInv
<1>1. Spec => []IInv BY InitIInv, NextIInv, PTL DEF Spec
<1> QED BY <1>1

\* A task and a PING are never inside the session of one connection together,
\* through any number of reconnects (RuntimeBackend._execute_connected_foreground
\* and try_execute_maintenance_ping).
THEOREM NeverShared == Spec => []SessionNotShared
<1>1. IInv => SessionNotShared BY DEF IInv
<1> QED BY <1>1, ConnectionInvariant, PTL

\* ConnectionHealthPolicy never applies the answer of one connection's PING to
\* another connection.
THEOREM HealthStaysOwn == Spec => []HealthIsOwn
<1>1. IInv => HealthIsOwn BY DEF IInv
<1> QED BY <1>1, ConnectionInvariant, PTL

-----------------------------------------------------------------------------
(* The controller's one task, the backend's connection and the scheduler.  The
   invariant above says who may be inside a session; the ones below say where
   the connection is, and which of the queued signals the scheduler still has
   to hear of. *)

\* The worker's result is queued once, when the task is over; a connect that
\* succeeded has its connection.
ResultInv ==
  \A i \in 1 .. Len(inbox) : inbox[i].signal = "result" =>
    /\ worker.at = "returned"
    /\ \A j \in 1 .. Len(inbox) : inbox[j].signal = "result" => j = i
    /\ worker.kind = "connect" /\ inbox[i].result = "ok" => store.connection # None

\* The controller asks, and shows CONNECTED, only when no task is active; the
\* stage of a task tells its kind.
TaskInv ==
  /\ worker.kind = "none" => worker = Idle
  /\ ui.asks # "nothing" => worker = Idle
  /\ ui.state = "CONNECTED" => worker = Idle /\ ui.asks = "nothing"
  /\ worker.at \in {"open", "publish"} => worker.kind = "connect"
  /\ worker.at \in {"release", "clear"} => Closing
  /\ worker.at \in {"enter", "waiting", "holding", "left", "raised"} => worker.kind = "task"

\* Session, executor and stored connection are one, except while a connect
\* publishes it or a close takes it down.
BackendInv ==
  /\ backend.session = store.connection
  /\ store.connection # None =>
       /\ store.connection = store.generation
       /\ store.connection \in open \/ worker.at \in {"release", "clear"}
  /\ worker.at \notin {"publish", "clear"} => backend.executor = store.connection
  /\ worker.at \in {"publish", "clear"} => backend.executor = None
  /\ worker.at = "open" => store.connection = None
  /\ worker.at = "publish" => store.connection # None
  /\ backend.executor # None => executors[backend.executor].valid

\* Whoever counts on a connection has one.
UsableInv ==
  \/ ui.state = "CONNECTED" \/ ui.asks = "disconnect" \/ worker.kind = "task"
  \/ worker.kind = "local" /\ ui.origin = "CONNECTED"
  => store.connection # None

\* The inductive invariant for the connection the controller shows.
UInv == TypeOK /\ ResultInv /\ TaskInv /\ BackendInv /\ UsableInv

\* t is s with k more elements.
Grown(s, t, k) ==
  /\ Len(t) = Len(s) + k
  /\ \A i \in 1 .. Len(s) : t[i] = s[i]

\* What queueing one signal does to the queue.
LEMMA EmitOne ==
  ASSUME NEW S, NEW s \in Seq(S), NEW m \in S
  PROVE  /\ s \o <<m>> \in Seq(S) /\ Grown(s, s \o <<m>>, 1)
         /\ (s \o <<m>>)[Len(s) + 1] = m
BY DEF Grown

\* What queueing two signals does to the queue.
LEMMA EmitTwo ==
  ASSUME NEW S, NEW s \in Seq(S), NEW m \in S, NEW n \in S
  PROVE  LET t == s \o Append(<<m>>, n) IN
         t \in Seq(S) /\ Grown(s, t, 2) /\ t[Len(s) + 1] = m /\ t[Len(s) + 2] = n
<1>1. <<m>> \in Seq(S) /\ Len(<<m>>) = 1 /\ <<m>>[1] = m OBVIOUS
<1> DEFINE u == Append(<<m>>, n)
<1>2. u \in Seq(S) /\ Len(u) = 2 /\ u[1] = m /\ u[2] = n BY <1>1
<1> HIDE DEF u
<1>3. /\ s \o u \in Seq(S) /\ Len(s \o u) = Len(s) + Len(u)
      /\ \A i \in 1 .. Len(s) + Len(u) :
           (s \o u)[i] = IF i <= Len(s) THEN s[i] ELSE u[i - Len(s)]
  BY <1>2, ConcatProperties, Zenon
<1>4. Grown(s, s \o u, 2) BY <1>2, <1>3 DEF Grown
<1>5. (s \o u)[Len(s) + 1] = m /\ (s \o u)[Len(s) + 2] = n BY <1>2, <1>3
<1> QED BY <1>3, <1>4, <1>5 DEF u

\* What taking a signal off the queue does to it.
LEMMA TakeOne ==
  ASSUME NEW S, NEW s \in Seq(S), s # <<>>
  PROVE  /\ Tail(s) \in Seq(S) /\ Len(s) \in Nat /\ Len(s) >= 1
         /\ Len(Tail(s)) = Len(s) - 1 /\ Head(s) = s[1] /\ s[1] \in S
         /\ \A i \in 1 .. Len(s) - 1 : Tail(s)[i] = s[i + 1]
OBVIOUS


\* A task that ends queues its result last.
LEMMA FinishBare ==
  ASSUME TypeOK, NEW r \in Results, Finish(<<>>, r)
  PROVE  /\ inbox' \in Seq(Message) /\ Grown(inbox, inbox', 1)
         /\ inbox'[Len(inbox) + 1] = Result(r)
         /\ worker' = [worker EXCEPT !.at = "returned"]
<1>1. Result(r) \in Message
  BY MaxGenerationAssumption DEF Result, Message, Signals, Generations, None
<1>2. Append(<<>>, Result(r)) = <<Result(r)>> OBVIOUS
<1>3. inbox' = inbox \o <<Result(r)>> BY <1>2 DEF Finish, Emit
<1> QED BY <1>1, <1>3, EmitOne DEF TypeOK, Finish, Go

\* The same with one signal before the result.
LEMMA FinishAfter ==
  ASSUME TypeOK, NEW m \in Message, NEW r \in Results, Finish(<<m>>, r)
  PROVE  /\ inbox' \in Seq(Message) /\ Grown(inbox, inbox', 2)
         /\ inbox'[Len(inbox) + 1] = m /\ inbox'[Len(inbox) + 2] = Result(r)
         /\ worker' = [worker EXCEPT !.at = "returned"]
<1>1. Result(r) \in Message
  BY MaxGenerationAssumption DEF Result, Message, Signals, Generations, None
<1>2. inbox' = inbox \o Append(<<m>>, Result(r)) BY DEF Finish, Emit
<1>3. inbox \in Seq(Message) BY DEF TypeOK
<1>4. /\ inbox' \in Seq(Message) /\ Grown(inbox, inbox', 2)
      /\ inbox'[Len(inbox) + 1] = m /\ inbox'[Len(inbox) + 2] = Result(r)
  BY <1>1, <1>2, <1>3, EmitTwo
<1> QED BY <1>4 DEF Finish, Go

\* A signal of the worker or of the PING is a message.
LEMMA SignalIsMessage ==
  ASSUME NEW s \in Signals, NEW g \in Generations
  PROVE  /\ Signal(s, g) \in Message /\ Signal(s, g).signal = s /\ Signal(s, g).generation = g
         /\ \A r \in Results : /\ [Signal(s, g) EXCEPT !.result = r] \in Message
                               /\ [Signal(s, g) EXCEPT !.result = r].signal = s
                               /\ [Signal(s, g) EXCEPT !.result = r].generation = g
                               /\ [Signal(s, g) EXCEPT !.result = r].result = r
BY DEF Signal, Message, Results

\* A task that is still running has no result in the queue, and ends with one.
LEMMA ResultQueued ==
  ASSUME TypeOK, ResultInv, worker.at # "returned", NEW r \in Results,
         \/ Finish(<<>>, r)
         \/ \E m \in Message : m.signal # "result" /\ Finish(<<m>>, r),
         worker.kind = "connect" /\ r = "ok" => store'.connection # None
  PROVE  ResultInv'
<1>0. /\ inbox \in Seq(Message) /\ Len(inbox) \in Nat
      /\ \A i \in 1 .. Len(inbox) : inbox[i].signal # "result"
  BY DEF TypeOK, ResultInv
<1>r. Result(r).signal = "result" /\ Result(r).result = r BY DEF Result
<1>w. ASSUME worker' = [worker EXCEPT !.at = "returned"]
      PROVE  worker'.at = "returned" /\ worker'.kind = worker.kind
  BY <1>w DEF TypeOK
<1>1. CASE Finish(<<>>, r)
  <2>1. /\ Grown(inbox, inbox', 1) /\ inbox'[Len(inbox) + 1] = Result(r)
        /\ worker' = [worker EXCEPT !.at = "returned"]
    BY <1>1, FinishBare
  <2> QED BY <1>0, <1>r, <1>w, <2>1 DEF ResultInv, Grown
<1>2. CASE \E m \in Message : m.signal # "result" /\ Finish(<<m>>, r)
  <2>0. PICK m \in Message : m.signal # "result" /\ Finish(<<m>>, r) BY <1>2
  <2>1. /\ Grown(inbox, inbox', 2) /\ inbox'[Len(inbox) + 2] = Result(r)
        /\ inbox'[Len(inbox) + 1] = m
        /\ worker' = [worker EXCEPT !.at = "returned"]
    BY <2>0, FinishAfter
  <2>2. \A i \in 1 .. Len(inbox') : inbox'[i].signal = "result" => i = Len(inbox) + 2
    <3>1. /\ Len(inbox') = Len(inbox) + 2
          /\ \A i \in 1 .. Len(inbox) : inbox'[i] = inbox[i]
      BY <2>1 DEF Grown
    <3>2. \A i \in 1 .. Len(inbox) + 2 :
            i \in 1 .. Len(inbox) \/ i = Len(inbox) + 1 \/ i = Len(inbox) + 2
      BY <1>0
    <3> QED BY <1>0, <2>0, <2>1, <3>1, <3>2
  <2>3. worker'.at = "returned" /\ worker'.kind = worker.kind BY <1>w, <2>1
  <2> QED BY <1>r, <2>1, <2>2, <2>3 DEF ResultInv
<1> QED BY <1>1, <1>2

\* Other signals leave the result where it is.
LEMMA ResultStays ==
  ASSUME TypeOK, ResultInv, worker.at # "returned" \/ worker' = worker,
         store'.connection = store.connection \/ worker.at # "returned",
         \/ inbox' = inbox
         \/ \E m \in Message : m.signal # "result" /\ inbox' = inbox \o <<m>>
         \/ inbox # <<>> /\ inbox' = Tail(inbox)
  PROVE  ResultInv'
<1>0. inbox \in Seq(Message) /\ Len(inbox) \in Nat BY DEF TypeOK
<1>1. CASE inbox' = inbox BY <1>1 DEF ResultInv
<1>2. CASE \E m \in Message : m.signal # "result" /\ inbox' = inbox \o <<m>>
  <2>1. PICK m \in Message : m.signal # "result" /\ inbox' = inbox \o <<m>> BY <1>2
  <2>2. Grown(inbox, inbox', 1) /\ inbox'[Len(inbox) + 1] = m
    BY <1>0, <2>1, EmitOne
  <2> QED BY <1>0, <2>1, <2>2 DEF ResultInv, Grown
<1>3. CASE inbox # <<>> /\ inbox' = Tail(inbox)
  <2>1. /\ Len(inbox') = Len(inbox) - 1
        /\ \A i \in 1 .. Len(inbox) - 1 : inbox'[i] = inbox[i + 1]
    BY <1>0, <1>3, TakeOne
  <2> QED BY <1>0, <2>1, SMTT(40) DEF ResultInv
<1> QED BY <1>1, <1>2, <1>3

\* The initial state.
LEMMA InitUInv == Init => UInv
<1> SUFFICES ASSUME Init PROVE UInv OBVIOUS
<1> USE DEF Init, None, Idle
<1>0. 0 \in Generations BY MaxGenerationAssumption DEF Generations
<1>1. TypeOK
  BY <1>0 DEF TypeOK, NoPing, NewExecutor, ExecutorStates, NewScheduler, SchedulerStates,
    Kinds, Stages, Results, UiStates
<1>2. ResultInv /\ TaskInv /\ BackendInv /\ UsableInv
  BY DEF ResultInv, TaskInv, BackendInv, UsableInv
<1> QED BY <1>1, <1>2 DEF UInv


\* The scheduler's slots keep its fields in their types.
LEMMA SlotTypes ==
  ASSUME NEW s \in SchedulerStates(Generations), NEW g \in Generations, NEW b \in BOOLEAN,
         NEW r
  PROVE  /\ Shutdown(s) \in SchedulerStates(Generations)
         /\ OnTimeout(s) \in SchedulerStates(Generations)
         /\ OnConnectionOpened(s, g) \in SchedulerStates(Generations)
         /\ OnForegroundStarted(s, g) \in SchedulerStates(Generations)
         /\ OnForegroundFinished(s, g) \in SchedulerStates(Generations)
         /\ OnProtocolActivity(s, g) \in SchedulerStates(Generations)
         /\ OnConnectionClosed(s, g) \in SchedulerStates(Generations)
         /\ OnAutoPing(s, b) \in SchedulerStates(Generations)
         /\ OnPingCompleted(s, g, r) \in SchedulerStates(Generations)
<1>0. None \in Generations BY MaxGenerationAssumption DEF Generations, None
<1>1. Shutdown(s) \in SchedulerStates(Generations) BY <1>0 DEF Shutdown, SchedulerStates
<1>2. OnTimeout(s) \in SchedulerStates(Generations) BY <1>0 DEF OnTimeout, SchedulerStates
<1>3. ASSUME NEW t \in SchedulerStates(Generations)
      PROVE  RestartTimerIfIdle(t) \in SchedulerStates(Generations)
  BY DEF RestartTimerIfIdle, SchedulerStates
<1>4. OnConnectionOpened(s, g) \in SchedulerStates(Generations)
  <2>1. [s EXCEPT !.timer = FALSE, !.active = g, !.foreground = FALSE]
          \in SchedulerStates(Generations)
    BY DEF SchedulerStates
  <2> QED BY <1>3, <2>1 DEF OnConnectionOpened
<1>5. OnForegroundStarted(s, g) \in SchedulerStates(Generations)
  BY DEF OnForegroundStarted, SchedulerStates
<1>6. OnForegroundFinished(s, g) \in SchedulerStates(Generations)
  <2>1. [s EXCEPT !.foreground = FALSE] \in SchedulerStates(Generations) BY DEF SchedulerStates
  <2> QED BY <1>3, <2>1 DEF OnForegroundFinished
<1>7. OnProtocolActivity(s, g) \in SchedulerStates(Generations)
  <2>1. [s EXCEPT !.timer = FALSE] \in SchedulerStates(Generations) BY DEF SchedulerStates
  <2> QED BY <1>3, <2>1 DEF OnProtocolActivity
<1>8. ASSUME NEW t \in SchedulerStates(Generations)
      PROVE  Forgotten(t) \in SchedulerStates(Generations)
  BY <1>0 DEF Forgotten, SchedulerStates
<1>9. OnConnectionClosed(s, g) \in SchedulerStates(Generations)
  BY <1>8 DEF OnConnectionClosed
<1>10. OnAutoPing(s, b) \in SchedulerStates(Generations)
  <2>1. /\ [s EXCEPT !.enabled = TRUE] \in SchedulerStates(Generations)
        /\ [s EXCEPT !.enabled = FALSE] \in SchedulerStates(Generations)
        /\ [s EXCEPT !.enabled = FALSE, !.timer = FALSE] \in SchedulerStates(Generations)
    BY DEF SchedulerStates
  <2> QED BY <1>3, <2>1 DEF OnAutoPing
<1>11. OnPingCompleted(s, g, r) \in SchedulerStates(Generations)
  <2>1. [s EXCEPT !.inflight = None] \in SchedulerStates(Generations)
    BY <1>0 DEF SchedulerStates
  <2> QED BY <1>3, <1>8, <2>1 DEF OnPingCompleted
<1> QED BY <1>1, <1>2, <1>4, <1>5, <1>6, <1>7, <1>9, <1>10, <1>11

\* Handling a signal keeps the scheduler's type.
LEMMA SlotType ==
  ASSUME sched \in SchedulerStates(Generations), NEW m \in Message
  PROVE  Slot(m) \in SchedulerStates(Generations)
<1>1. m.generation \in Generations /\ (m.result = "on") \in BOOLEAN BY DEF Message
<1>2. PICK b \in BOOLEAN : b = (m.result = "on") OBVIOUS
<1> QED BY <1>1, <1>2, SlotTypes DEF Slot

\* The types the threads share are those of the first invariant.
LEMMA OuterTypes ==
  ASSUME IInv', 
         ui' \in [state: UiStates, cleanup: BOOLEAN, asks: {"nothing", "disconnect", "cleanup"},
                  origin: UiStates],
         open' \in SUBSET Generations,
         sched' \in SchedulerStates(Generations),
         inbox' \in Seq(Message),
         ping'.generation \in Generations, ping'.result \in Results
  PROVE  TypeOK'
BY DEF IInv, CoreTypes, TypeOK

\* The user's requests start a task when none is active.
LEMMA UserKeeps == ASSUME IInv, IInv', UInv, UserSteps PROVE UInv'
<1> USE DEF None
<1>0. 0 \in Generations BY MaxGenerationAssumption DEF Generations
<1> DEFINE UiTypes == [state: UiStates, cleanup: BOOLEAN,
                       asks: {"nothing", "disconnect", "cleanup"}, origin: UiStates]
<1>t. /\ TypeOK /\ ResultInv /\ ui \in UiTypes
  BY DEF UInv, TypeOK
<1>s. UNCHANGED <<backend, store, executors, open, ping>>
  BY DEF UserSteps, RequestConnect, RequestDisconnect, RequestApplicationClose,
    RespondTaskAction, SetAutoPing, RequestTask
<1>1. CASE SetAutoPing
  <2>1. /\ UNCHANGED <<ui, worker, sched>>
        /\ Emit(<<[Signal("auto_ping", None) EXCEPT !.result =
                     IF sched.enabled THEN "off" ELSE "on"]>>)
    BY <1>1 DEF SetAutoPing
  <2>r. PICK r \in Results : r = IF sched.enabled THEN "off" ELSE "on" BY DEF Results
  <2>e. inbox' = inbox \o <<[Signal("auto_ping", None) EXCEPT !.result = r]>>
    BY <2>1, <2>r DEF Emit
  <2>m. "auto_ping" \in Signals BY DEF Signals
  <2>2. PICK m \in Message : m.signal = "auto_ping" /\ inbox' = inbox \o <<m>>
    <3>1. /\ [Signal("auto_ping", None) EXCEPT !.result = r] \in Message
          /\ [Signal("auto_ping", None) EXCEPT !.result = r].signal = "auto_ping"
      BY <1>0, <2>m, SignalIsMessage
    <3> QED BY <2>e, <3>1, Zenon
  <2>3. inbox' \in Seq(Message) BY <1>t, <2>2, EmitOne DEF TypeOK
  <2>4. TypeOK' BY <1>s, <1>t, <2>1, <2>3 DEF TypeOK
  <2>5. ResultInv' BY <1>t, <1>s, <2>1, <2>2, ResultStays
  <2>6. TaskInv' /\ BackendInv' /\ UsableInv'
    BY <1>s, <2>1 DEF UInv, TaskInv, BackendInv, UsableInv, Closing
  <2> QED BY <2>4, <2>5, <2>6 DEF UInv
<1>2. ASSUME worker = Idle, inbox' = inbox,
             ui' \in UiTypes, sched' \in SchedulerStates(Generations),
             \/ worker' = Idle
             \/ \E kind \in Kinds \ {"none"} : Started(kind) /\ ui'.state # "CONNECTED" /\ ui'.asks = "nothing",
             ui'.state = "CONNECTED" => ui'.asks = "nothing",
             \/ ui'.state = "CONNECTED" \/ ui'.asks = "disconnect" \/ worker'.kind = "task"
             \/ worker'.kind = "local" /\ ui'.origin = "CONNECTED"
             => store.connection # None
      PROVE  UInv'
  <2>1. TypeOK' BY <1>s, <1>t, <1>2, OuterTypes DEF TypeOK
  <2>2. ResultInv' BY <1>t, <1>s, <1>2, ResultStays DEF Idle
  <2>3. worker' = Idle \/ (worker'.at = "start" /\ worker'.kind # "none")
    BY <1>2 DEF Started
  <2>4. TaskInv' BY <1>2, <2>3 DEF UInv, TaskInv, Idle
  <2>5. BackendInv' BY <1>s, <1>2, <2>3 DEF UInv, BackendInv, Idle
  <2>6. UsableInv' BY <1>s, <1>2 DEF UsableInv
  <2> QED BY <2>1, <2>2, <2>4, <2>5, <2>6 DEF UInv
<1>3. /\ ui.state = "CONNECTED" => store.connection # None
      /\ ui.asks = "disconnect" => store.connection # None
      /\ ui.state = "CONNECTED" => ui.asks = "nothing"
      /\ sched \in SchedulerStates(Generations)
      /\ Shutdown(sched) \in SchedulerStates(Generations)
  <2>1. sched \in SchedulerStates(Generations) BY <1>t DEF TypeOK
  <2> QED BY <1>0, <2>1, SlotTypes DEF UInv, UsableInv, TaskInv
<1>4. CASE RequestConnect
  BY <1>2, <1>3, <1>4, <1>t DEF RequestConnect, NoTask, Started, UiStates, Kinds
<1>5. CASE RequestDisconnect
  BY <1>2, <1>3, <1>5, <1>t DEF RequestDisconnect, NoTask, Started, UiStates, Kinds
<1>6. ASSUME NEW kind \in {"task", "local"}, RequestTask(kind) PROVE UInv'
  BY <1>2, <1>3, <1>6, <1>t DEF RequestTask, NoTask, Started, UiStates, Kinds
<1>7. CASE RequestApplicationClose
  <2>1. CASE ui.state = "DISCONNECTED" /\ ~ui.cleanup /\ Exit /\ UNCHANGED worker
    BY <1>2, <1>3, <1>7, <2>1, <1>t DEF RequestApplicationClose, NoTask, Exit, UiStates, Idle
  <2>2. CASE /\ ui' = [ui EXCEPT !.state = "DISCONNECTING"]
             /\ Started("shutdown") /\ UNCHANGED sched
    BY <1>2, <1>3, <1>7, <2>2, <1>t DEF RequestApplicationClose, NoTask, Started, UiStates, Kinds
  <2> QED BY <1>7, <2>1, <2>2 DEF RequestApplicationClose
<1>8. CASE RespondTaskAction
  <2>1. worker = Idle /\ inbox' = inbox BY <1>8 DEF RespondTaskAction
  <2>2. CASE /\ ui.asks = "disconnect" /\ UNCHANGED <<worker, sched>>
             /\ ui' = [ui EXCEPT !.state = "CONNECTED", !.asks = "nothing"]
    BY <1>2, <1>3, <2>1, <2>2, <1>t DEF UiStates, Idle
  <2>3. CASE /\ ui.asks = "disconnect" /\ UNCHANGED sched
             /\ ui' = [ui EXCEPT !.state = "DISCONNECTING", !.asks = "nothing"]
             /\ Started("disconnect")
    BY <1>2, <1>3, <2>1, <2>3, <1>t DEF UiStates, Started, Kinds
  <2>4. CASE /\ ui.asks = "cleanup" /\ UNCHANGED sched
             /\ ui' = [ui EXCEPT !.asks = "nothing"]
             /\ Started("shutdown")
    BY <1>2, <1>3, <2>1, <2>4, <1>t DEF UiStates, Started, Kinds
  <2>5. CASE ui.asks = "cleanup" /\ Exit /\ UNCHANGED worker
    BY <1>2, <1>3, <2>1, <2>5, <1>t DEF Exit, UiStates, Idle
  <2> QED BY <1>8, <2>2, <2>3, <2>4, <2>5 DEF RespondTaskAction
<1> QED BY <1>1, <1>4, <1>5, <1>6, <1>7, <1>8 DEF UserSteps


\* The event loop ends the task whose result it takes, and nothing else.
LEMMA HandleKeeps == ASSUME IInv, IInv', UInv, HandleSignal PROVE UInv'
<1> USE DEF None
<1> DEFINE UiTypes == [state: UiStates, cleanup: BOOLEAN,
                       asks: {"nothing", "disconnect", "cleanup"}, origin: UiStates]
<1>t. /\ TypeOK /\ ResultInv /\ ui \in UiTypes /\ inbox \in Seq(Message)
      /\ sched \in SchedulerStates(Generations)
  BY DEF UInv, TypeOK
<1>s. /\ UNCHANGED <<backend, store, executors, open, ping>>
      /\ inbox # <<>> /\ inbox' = Tail(inbox)
  BY DEF HandleSignal
<1>h. /\ inbox' \in Seq(Message) /\ Len(inbox) \in Nat /\ Len(inbox) >= 1
      /\ Len(inbox') = Len(inbox) - 1
      /\ Head(inbox) = inbox[1] /\ inbox[1] \in Message
      /\ \A i \in 1 .. Len(inbox) - 1 : inbox'[i] = inbox[i + 1]
  BY <1>s, <1>t, TakeOne
<1>1. CASE /\ Head(inbox).signal # "result" /\ sched' = Slot(Head(inbox))
           /\ UNCHANGED <<ui, worker>>
  <2>1. sched' \in SchedulerStates(Generations) BY <1>1, <1>h, <1>t, SlotType
  <2>2. TypeOK' BY <1>1, <1>h, <1>s, <1>t, <2>1 DEF TypeOK
  <2>3. ResultInv' BY <1>1, <1>s, <1>t, ResultStays
  <2>4. TaskInv' /\ BackendInv' /\ UsableInv'
    BY <1>1, <1>s DEF UInv, TaskInv, BackendInv, UsableInv, Closing
  <2> QED BY <2>2, <2>3, <2>4 DEF UInv
<1>2. CASE Head(inbox).signal = "result" /\ FinishTask(Head(inbox).result)
  <2>r. PICK r \in Results : r = Head(inbox).result BY <1>h DEF Message
  <2>0. /\ worker.at = "returned"
        /\ \A i \in 1 .. Len(inbox') : inbox'[i].signal # "result"
        /\ worker.kind = "connect" /\ r = "ok" => store.connection # None
    <3>1. 1 \in 1 .. Len(inbox) /\ inbox[1].signal = "result" /\ inbox[1].result = r
      BY <1>2, <1>h, <2>r
    <3>2. \A j \in 1 .. Len(inbox) : inbox[j].signal = "result" => j = 1
      BY <1>t, <3>1 DEF ResultInv
    <3>3. \A i \in 1 .. Len(inbox') : inbox'[i] = inbox[i + 1] /\ i + 1 \in 1 .. Len(inbox) /\ i + 1 # 1
      BY <1>h
    <3>4. \A i \in 1 .. Len(inbox') : inbox'[i].signal # "result" BY <3>2, <3>3
    <3> QED BY <1>t, <3>1, <3>4 DEF ResultInv
  <2>1. ResultInv' BY <2>0 DEF ResultInv
  <2>2. /\ worker # Idle /\ worker.kind # "none" /\ ui.asks = "nothing" /\ ui.state # "CONNECTED"
        /\ worker.kind = "task" \/ (worker.kind = "local" /\ ui.origin = "CONNECTED")
           => store.connection # None
        /\ backend.session = store.connection /\ backend.executor = store.connection
        /\ store.connection # None => /\ store.connection = store.generation
                                      /\ store.connection \in open
        /\ backend.executor # None => executors[backend.executor].valid
    <3>1. worker # Idle BY <2>0 DEF Idle
    <3> QED BY <2>0, <3>1 DEF UInv, TaskInv, BackendInv, UsableInv, Idle
  <2>3. ASSUME ui' \in UiTypes, sched' \in SchedulerStates(Generations),
               worker' = Idle \/ (Started("disconnect") /\ ui'.state = "DISCONNECTING" /\ ui'.asks = "nothing"),
               ui'.state = "CONNECTED" => ui'.asks = "nothing" /\ store.connection # None,
               ui'.asks = "disconnect" => store.connection # None
        PROVE  UInv'
    <3>1. TypeOK' BY <1>h, <1>s, <1>t, <2>3, OuterTypes DEF TypeOK
    <3>2. worker' = Idle \/ (worker'.at = "start" /\ worker'.kind = "disconnect") BY <2>3 DEF Started
    <3>3. TaskInv' BY <2>3, <3>2 DEF TaskInv, Idle
    <3>4. BackendInv' BY <1>s, <2>2, <3>2 DEF BackendInv, Idle
    <3>5. UsableInv' BY <1>s, <2>3, <3>2 DEF UsableInv, Idle
    <3> QED BY <2>1, <3>1, <3>3, <3>4, <3>5 DEF UInv
  <2>4. Shutdown(sched) \in SchedulerStates(Generations)
    <3>1. 0 \in Generations /\ TRUE \in BOOLEAN BY MaxGenerationAssumption DEF Generations
    <3> QED BY <1>t, <3>1, SlotTypes
  <2> USE DEF UiStates
  <2>5. FinishTask(r) BY <1>2, <2>r
  <2>6. CASE ui' = [ui EXCEPT !.state = "ERROR"] /\ worker' = Idle /\ UNCHANGED sched
    BY <1>t, <2>2, <2>3, <2>6
  <2>7. CASE /\ worker.kind = "local" /\ ui' = [ui EXCEPT !.state = ui.origin]
             /\ worker' = Idle /\ UNCHANGED sched
    BY <1>t, <2>2, <2>3, <2>7
  <2>8. CASE /\ ui' = [ui EXCEPT
                  !.state = IF worker.kind = "connect" /\ r = "ok" THEN "CONNECTED" ELSE "DISCONNECTED",
                  !.cleanup = r = "pending"]
             /\ worker' = Idle /\ UNCHANGED sched
    BY <1>t, <2>0, <2>2, <2>3, <2>8
  <2>9. CASE /\ worker.kind = "task" /\ ui' = [ui EXCEPT !.state = "CONNECTED"]
             /\ worker' = Idle /\ UNCHANGED sched
    BY <1>t, <2>2, <2>3, <2>9
  <2>10. CASE /\ worker.kind = "task" /\ ui' = [ui EXCEPT !.asks = "disconnect"]
              /\ worker' = Idle /\ UNCHANGED sched
    BY <1>t, <2>2, <2>3, <2>10
  <2>11. CASE /\ ui' = [ui EXCEPT !.state = "DISCONNECTING"]
              /\ Started("disconnect") /\ UNCHANGED sched
    BY <1>t, <2>2, <2>3, <2>11
  <2>12. CASE /\ ui' = [ui EXCEPT !.state = "EXITED", !.cleanup = FALSE]
              /\ sched' = Shutdown(sched) /\ worker' = Idle
    BY <1>t, <2>2, <2>3, <2>4, <2>12
  <2>13. CASE /\ ui' = [ui EXCEPT !.asks = "cleanup", !.cleanup = TRUE]
              /\ worker' = Idle /\ UNCHANGED sched
    BY <1>t, <2>2, <2>3, <2>13
  <2> QED BY <2>5, <2>6, <2>7, <2>8, <2>9, <2>10, <2>11, <2>12, <2>13 DEF FinishTask
<1> QED BY <1>1, <1>2 DEF HandleSignal

\* The timer and the PING worker leave the connection alone.
LEMMA PingKeeps == ASSUME IInv, IInv', UInv, Timeout \/ PingSteps PROVE UInv'
<1> USE DEF None
<1>0. 0 \in Generations BY MaxGenerationAssumption DEF Generations
<1>t. /\ TypeOK /\ ResultInv /\ inbox \in Seq(Message)
      /\ sched \in SchedulerStates(Generations)
      /\ ping.generation \in Generations /\ ping.result \in Results
  BY DEF UInv, TypeOK
<1>s. /\ UNCHANGED <<ui, worker, backend, open>>
      /\ store'.generation = store.generation /\ store'.connection = store.connection
  <2>1. CASE PingReports
    <3>1. UNCHANGED <<ui, worker, backend, open>> BY <2>1 DEF PingReports
    <3>2. store' = HealthApplied(ping.generation, ping.result, ping.executor)
      BY <2>1 DEF PingReports
    <3>3. /\ store'.generation = store.generation /\ store'.connection = store.connection
      BY <1>t, <3>2 DEF HealthApplied, TypeOK
    <3> QED BY <3>1, <3>3
  <2> QED BY <2>1 DEF Timeout, PingSteps, PingCaptures, PingEnters, PingAnswers, PingReturns
<1>v. ASSUME NEW g \in Generations PROVE executors'[g].valid = executors[g].valid
  <2> DEFINE e == executors[ping.executor]
  <2>e. ping.executor \in Generations /\ e \in ExecutorStates(Generations)
    BY <1>t DEF TypeOK
  <2>1. Released(e).valid = e.valid /\ MaintenanceGranted(e).valid = e.valid
    BY <2>e DEF Released, MaintenanceGranted, ExecutorStates
  <2>2. \/ executors' = executors
        \/ executors' = [executors EXCEPT ![ping.executor] = Released(e)]
        \/ executors' = [executors EXCEPT ![ping.executor] = MaintenanceGranted(e)]
    BY DEF Timeout, PingSteps, PingCaptures, PingEnters, PingAnswers, PingReturns, PingReports
  <2> QED BY <1>t, <2>e, <2>1, <2>2 DEF TypeOK
<1>1. TaskInv' /\ BackendInv' /\ UsableInv'
  <2>1. backend.executor \in Generations BY <1>t DEF TypeOK
  <2> QED BY <1>s, <1>v, <2>1 DEF UInv, TaskInv, BackendInv, UsableInv, Closing
<1>2. sched' \in SchedulerStates(Generations)
  BY <1>0, <1>t, SlotTypes DEF Timeout, PingSteps, PingCaptures, PingEnters, PingAnswers,
    PingReturns, PingReports
<1>3. ping'.generation \in Generations /\ ping'.result \in Results
  <2>1. CASE Timeout
    BY <1>0, <1>t, <2>1 DEF Timeout, NoPing, Results, SchedulerStates
  <2>2. CASE PingCaptures BY <1>t, <2>2 DEF PingCaptures, TypeOK, Results
  <2>3. CASE PingEnters
    BY <1>t, <2>3 DEF PingEnters, TypeOK, Results, MaintenanceStatus, Unavailable
  <2>4. ASSUME NEW h \in {"HEALTHY", "UNHEALTHY"}, PingAnswers(h)
        PROVE  ping'.generation \in Generations /\ ping'.result \in Results
    BY <1>t, <2>4 DEF PingAnswers, TypeOK, Results
  <2>5. CASE PingReports BY <1>t, <2>5 DEF PingReports, TypeOK
  <2>6. CASE PingReturns BY <1>0, <2>6 DEF PingReturns, NoPing, Results
  <2> QED BY <2>1, <2>2, <2>3, <2>4, <2>5, <2>6 DEF PingSteps
<1>4. \/ inbox' = inbox
      \/ \E m \in Message : m.signal # "result" /\ inbox' = inbox \o <<m>>
  <2>1. CASE PingReports
    <3>1. "activity" \in Signals BY DEF Signals
    <3>2. /\ Signal("activity", ping.generation) \in Message
          /\ Signal("activity", ping.generation).signal = "activity"
      BY <1>t, <3>1, SignalIsMessage
    <3>3. inbox' = inbox \/ inbox' = inbox \o <<Signal("activity", ping.generation)>>
      BY <2>1 DEF PingReports, Emit
    <3> QED BY <3>2, <3>3
  <2>2. CASE PingReturns
    <3>1. "completed" \in Signals BY DEF Signals
    <3>2. /\ [Signal("completed", ping.generation) EXCEPT !.result = ping.result] \in Message
          /\ [Signal("completed", ping.generation) EXCEPT !.result = ping.result].signal = "completed"
      BY <1>t, <3>1, SignalIsMessage
    <3>3. inbox' = inbox \o <<[Signal("completed", ping.generation) EXCEPT !.result = ping.result]>>
      BY <2>2 DEF PingReturns, Emit
    <3> QED BY <3>2, <3>3, Zenon
  <2> QED BY <2>1, <2>2 DEF Timeout, PingSteps, PingCaptures, PingEnters, PingAnswers
<1>5. inbox' \in Seq(Message) BY <1>4, <1>t, EmitOne
<1>6. ResultInv' BY <1>4, <1>s, <1>t, ResultStays
<1>7. TypeOK' BY <1>2, <1>3, <1>5, <1>s, <1>t, OuterTypes DEF TypeOK
<1> QED BY <1>1, <1>6, <1>7 DEF UInv


\* A step of the worker that keeps session and executor and ends in stage.
LEMMA WorkerMoves ==
  ASSUME IInv', UInv, UNCHANGED <<ui, sched, ping>>,
         store' = store, backend'.session = backend.session, backend'.executor = backend.executor,
         executors' = executors \/ \A g \in Generations : executors'[g].valid = executors[g].valid,
         worker.at \notin {"none", "publish", "clear", "returned"},
         worker.kind # "none", worker'.kind = worker.kind,
         NEW stage, worker'.at = stage,
         stage \in {"open", "enter", "waiting", "holding", "left", "raised", "release", "returned"},
         stage = "open" => worker.kind = "connect" /\ store.connection = None,
         stage \in {"enter", "waiting", "holding", "left", "raised"} => worker.kind = "task",
         stage = "release" => Closing,
         open' \in SUBSET Generations,
         open' = open \/ stage = "release", worker.at # "release",
         inbox' \in Seq(Message), ResultInv'
  PROVE  UInv'
<1>t. TypeOK /\ backend.executor \in Generations BY DEF UInv, TypeOK
<1>1. TypeOK' BY <1>t, OuterTypes DEF TypeOK
<1>2. worker # Idle /\ worker' # Idle BY DEF Idle
<1>3. TaskInv' BY <1>2 DEF UInv, TaskInv, Closing
<1>4. BackendInv' BY <1>t DEF UInv, BackendInv
<1>5. UsableInv' BY DEF UInv, UsableInv
<1> QED BY <1>1, <1>3, <1>4, <1>5 DEF UInv

\* RuntimeBackend.connect
LEMMA ConnectKeeps ==
  ASSUME IInv, IInv', UInv,
         \/ ConnectInvalid \/ ConnectRefused \/ PreConnectCleanup
         \/ ConnectOpens \/ ConnectPublishes
         \/ \E closed \in BOOLEAN : ConnectFails(closed)
  PROVE  UInv'
<1> USE DEF None
<1>0. 0 \in Generations /\ Generations \subseteq Nat
  BY MaxGenerationAssumption DEF Generations
<1>t. /\ TypeOK /\ ResultInv /\ inbox \in Seq(Message) /\ open \in SUBSET Generations
      /\ worker \in [kind: Kinds, at: Stages, generation: Generations]
      /\ backend \in [session: Generations, pending: BOOLEAN, executor: Generations]
  BY DEF UInv, TypeOK
<1>w. worker.kind = "connect" /\ UNCHANGED <<ui, sched, ping>>
  BY DEF ConnectInvalid, ConnectRefused, PreConnectCleanup, ConnectOpens, ConnectPublishes,
    ConnectFails, At
<1>1. ASSUME NEW r \in Results, r # "ok", Finish(<<>>, r), worker.at \in {"start", "open"},
             UNCHANGED <<store, executors, open>>,
             backend'.session = backend.session, backend'.executor = backend.executor
      PROVE  UInv'
  <2>1. /\ inbox' \in Seq(Message) /\ worker' = [worker EXCEPT !.at = "returned"]
    BY <1>1, <1>t, FinishBare
  <2>2. ResultInv' BY <1>1, <1>t, ResultQueued
  <2>3. worker'.at = "returned" /\ worker'.kind = worker.kind BY <1>t, <2>1
  <2> QED BY <1>1, <1>t, <1>w, <2>1, <2>2, <2>3, WorkerMoves
<1>2. CASE ConnectInvalid
  <2>1. PICK r \in Results : r = IF backend.pending THEN "pending" ELSE "failed" BY DEF Results
  <2> QED BY <1>1, <1>2, <2>1 DEF ConnectInvalid, At
<1>3. CASE ConnectRefused BY <1>1, <1>3 DEF ConnectRefused, At, Results
<1>4. CASE PreConnectCleanup
  <2>1. CASE Finish(<<>>, "pending") /\ UNCHANGED backend
    BY <1>1, <1>4, <2>1 DEF PreConnectCleanup, At, Results
  <2>2. CASE /\ Go("open") /\ backend' = [backend EXCEPT !.pending = FALSE] /\ UNCHANGED inbox
    <3>1. /\ worker.at = "start" /\ backend.session = None /\ UNCHANGED <<store, executors, open>>
      BY <1>4 DEF PreConnectCleanup, At
    <3>2. worker'.at = "open" /\ worker'.kind = worker.kind BY <1>t, <2>2 DEF Go
    <3>3. backend'.session = backend.session /\ backend'.executor = backend.executor
      BY <1>t, <2>2
    <3>4. ResultInv' BY <1>t, <2>2, <3>1, ResultStays
    <3>5. store.connection = None BY <3>1 DEF UInv, BackendInv
    <3> QED BY <1>t, <1>w, <2>2, <3>1, <3>2, <3>3, <3>4, <3>5, WorkerMoves
  <2> QED BY <1>4, <2>1, <2>2 DEF PreConnectCleanup
<1>5. ASSUME NEW closed \in BOOLEAN, ConnectFails(closed) PROVE UInv'
  <2>1. PICK r \in Results : r # "ok" /\ Finish(<<>>, r)
    BY <1>5 DEF ConnectFails, Results
  <2>2. backend'.session = backend.session /\ backend'.executor = backend.executor
    BY <1>5, <1>t DEF ConnectFails
  <2> QED BY <1>1, <1>5, <2>1, <2>2 DEF ConnectFails, At
<1>6. CASE ConnectOpens
  <2> DEFINE g == store.generation + 1
  <2>1. /\ store' = [generation |-> g, connection |-> g, health |-> "UNKNOWN", source |-> None]
        /\ backend' = [backend EXCEPT !.session = g] /\ open' = open \cup {g}
        /\ worker' = [worker EXCEPT !.at = "publish"] /\ worker.at = "open"
        /\ UNCHANGED <<executors, inbox>>
    BY <1>6 DEF ConnectOpens, At, Go
  <2>2. /\ store'.generation = g /\ store'.connection = g /\ g # 0
        /\ backend'.session = g /\ backend'.executor = backend.executor
        /\ worker'.at = "publish" /\ worker'.kind = "connect" /\ g \in Generations
    <3>1. store'.generation \in Generations /\ store.generation \in Nat
      BY <1>0, <1>t DEF IInv, CoreTypes, TypeOK
    <3>2. store'.generation = g BY <2>1
    <3> QED BY <1>t, <1>w, <2>1, <3>1, <3>2
  <2>3. TypeOK' BY <1>t, <1>w, <2>1, <2>2, OuterTypes DEF TypeOK
  <2>4. ResultInv' BY <1>t, <2>1, ResultStays
  <2>5. backend.executor = None BY <2>1 DEF UInv, BackendInv
  <2>6. worker # Idle /\ worker' # Idle BY <1>w, <2>2 DEF Idle
  <2>7. TaskInv' BY <1>w, <2>2, <2>6 DEF UInv, TaskInv, Closing
  <2>8. BackendInv' BY <2>1, <2>2, <2>5 DEF BackendInv
  <2>9. UsableInv' BY <2>2 DEF UsableInv
  <2> QED BY <2>3, <2>4, <2>7, <2>8, <2>9 DEF UInv
<1>7. CASE ConnectPublishes
  <2> DEFINE g == store.generation
  <2>1. /\ backend' = [backend EXCEPT !.executor = g]
        /\ executors' = [executors EXCEPT ![g] = NewExecutor(g)]
        /\ Finish(<<Signal("opened", g)>>, "ok") /\ worker.at = "publish"
        /\ UNCHANGED <<store, open>>
    BY <1>7 DEF ConnectPublishes, At
  <2>2. /\ g \in Generations /\ store.connection = g /\ g # 0 /\ g \in open
        /\ backend.session = g
    BY <1>t, <2>1 DEF UInv, BackendInv, TypeOK
  <2>3. /\ "opened" \in Signals /\ "ok" \in Results BY DEF Signals, Results
  <2>4. PICK m \in Message : m = Signal("opened", g) /\ m.signal = "opened"
    BY <2>2, <2>3, SignalIsMessage
  <2>5. Finish(<<m>>, "ok") BY <2>1, <2>4
  <2>6. /\ inbox' \in Seq(Message) /\ worker' = [worker EXCEPT !.at = "returned"]
    BY <1>t, <2>3, <2>5, FinishAfter
  <2>7. ResultInv' BY <1>t, <2>1, <2>2, <2>3, <2>4, <2>5, ResultQueued
  <2>8. /\ worker'.at = "returned" /\ worker'.kind = "connect"
        /\ backend'.session = g /\ backend'.executor = g
        /\ executors'[g].valid
    BY <1>t, <1>w, <2>1, <2>2, <2>6 DEF TypeOK, NewExecutor
  <2>9. TypeOK' BY <1>t, <1>w, <2>1, <2>6, OuterTypes DEF TypeOK
  <2>10. worker # Idle /\ worker' # Idle BY <1>w, <2>8 DEF Idle
  <2>11. TaskInv' BY <1>w, <2>8, <2>10 DEF UInv, TaskInv, Closing
  <2>12. BackendInv' BY <2>1, <2>2, <2>8 DEF BackendInv
  <2>13. UsableInv' BY <2>1, <2>2 DEF UsableInv
  <2> QED BY <2>7, <2>9, <2>11, <2>12, <2>13 DEF UInv
<1> QED BY <1>2, <1>3, <1>4, <1>5, <1>6, <1>7

\* Tasks use the connection and leave it where it is.
LEMMA TaskKeeps ==
  ASSUME IInv, IInv', UInv,
         \/ LocalTask \/ TaskStarts \/ TaskEnters \/ TaskReturns
         \/ \E stage \in {"left", "raised"} : TaskLeaves(stage)
  PROVE  UInv'
<1> USE DEF None
<1>t. /\ TypeOK /\ ResultInv /\ inbox \in Seq(Message) /\ open \in SUBSET Generations
      /\ worker \in [kind: Kinds, at: Stages, generation: Generations]
      /\ worker.generation \in Generations /\ store.connection \in Generations
  BY DEF UInv, TypeOK
<1>w. /\ worker.kind \in {"local", "task"} /\ UNCHANGED <<ui, sched, ping, store, backend, open>>
      /\ worker.at \in {"start", "enter", "waiting", "holding", "left", "raised"}
  BY DEF LocalTask, TaskStarts, TaskEnters, TaskReturns, TaskLeaves, At
<1>v. ASSUME NEW g \in Generations PROVE executors'[g].valid = executors[g].valid
  <2> DEFINE e == executors[worker.generation]
  <2>e. e \in ExecutorStates(Generations) BY <1>t DEF TypeOK
  <2>1. Queued(e) \in ExecutorStates(Generations) /\ Queued(e).valid = e.valid
    BY <2>e DEF Queued, ExecutorStates
  <2>2. Granted(Queued(e)).valid = e.valid
    <3>1. Granted(Queued(e)) = MaintenanceGranted(e) BY <2>e, GrantedAtOnce
    <3> QED BY <2>e, <3>1 DEF MaintenanceGranted, ExecutorStates
  <2>3. Released(e).valid = e.valid BY <2>e DEF Released, ExecutorStates
  <2>4. Granted(e).valid = e.valid
    <3>1. Abandoned(e).valid = e.valid /\ Abandoned(e) = [e EXCEPT !.waiters = @ - 1]
      BY <2>e DEF Abandoned, ExecutorStates
    <3> QED BY <2>e, <3>1 DEF Granted, Abandoned, ExecutorStates
  <2>5. \/ executors' = executors
        \/ executors' = [executors EXCEPT ![worker.generation] = Queued(e)]
        \/ executors' = [executors EXCEPT ![worker.generation] = Granted(Queued(e))]
        \/ executors' = [executors EXCEPT ![worker.generation] = Granted(e)]
        \/ executors' = [executors EXCEPT ![worker.generation] = Released(e)]
    BY DEF LocalTask, TaskStarts, TaskEnters, TaskReturns, TaskLeaves
  <2> QED BY <1>t, <2>1, <2>2, <2>3, <2>4, <2>5 DEF TypeOK
<1>1. CASE LocalTask
  <2>1. PICK r \in Results : Finish(<<>>, r) BY <1>1 DEF LocalTask, Results
  <2>2. worker.kind = "local" /\ worker.at = "start" BY <1>1 DEF LocalTask, At
  <2>3. inbox' \in Seq(Message) /\ worker' = [worker EXCEPT !.at = "returned"]
    BY <1>t, <2>1, FinishBare
  <2>4. ResultInv' BY <1>t, <2>1, <2>2, ResultQueued
  <2>5. worker'.at = "returned" /\ worker'.kind = worker.kind BY <1>t, <2>3
  <2> QED BY <1>t, <1>v, <1>w, <2>2, <2>3, <2>4, <2>5, WorkerMoves
<1>2. ASSUME NEW s \in {"started", "activity"}, NEW g \in Generations,
             inbox' = inbox \/ inbox' = inbox \o <<Signal(s, g)>>,
             worker.kind = "task", worker'.kind = "task",
             worker'.at \in {"enter", "waiting", "holding", "left", "raised"}
      PROVE  UInv'
  <2>1. s \in Signals BY DEF Signals
  <2>2. PICK m \in Message : m = Signal(s, g) /\ m.signal = s BY <2>1, SignalIsMessage
  <2>3. inbox' = inbox \/ inbox' = inbox \o <<m>> BY <1>2, <2>2
  <2>4. inbox' \in Seq(Message) BY <1>t, <2>3, EmitOne
  <2>5. ResultInv' BY <1>t, <1>w, <2>2, <2>3, ResultStays
  <2> QED BY <1>2, <1>t, <1>v, <1>w, <2>4, <2>5, WorkerMoves
<1>3. CASE TaskStarts BY <1>2, <1>3, <1>t DEF TaskStarts, Emit, At
<1>4. CASE TaskEnters
  <2>1. worker'.kind = "task" /\ worker'.at \in {"holding", "waiting"} /\ inbox' = inbox
    BY <1>4, <1>t DEF TaskEnters, Go
  <2> QED BY <1>2, <1>4, <1>t, <2>1 DEF TaskEnters
<1>5. ASSUME NEW stage \in {"left", "raised"}, TaskLeaves(stage) PROVE UInv'
  <2>1. /\ worker'.kind = "task" /\ worker'.at = stage /\ worker.kind = "task"
        /\ inbox' = inbox \/ inbox' = inbox \o <<Signal("activity", worker.generation)>>
    BY <1>5, <1>t DEF TaskLeaves, Go, At, Emit
  <2> QED BY <1>2, <1>t, <2>1
<1>6. CASE TaskReturns
  <2>1. /\ worker.kind = "task" /\ worker.at \in {"left", "raised"}
        /\ \E r \in {"ok", "ask", "drop", "fatal"} :
             Finish(<<Signal("finished", worker.generation)>>, r)
    BY <1>6 DEF TaskReturns
  <2>2. PICK r \in Results : Finish(<<Signal("finished", worker.generation)>>, r)
    BY <2>1 DEF Results
  <2>3. "finished" \in Signals BY DEF Signals
  <2>4. PICK m \in Message : m = Signal("finished", worker.generation) /\ m.signal = "finished"
    BY <1>t, <2>3, SignalIsMessage
  <2>5. Finish(<<m>>, r) BY <2>2, <2>4
  <2>6. inbox' \in Seq(Message) /\ worker' = [worker EXCEPT !.at = "returned"]
    BY <1>t, <2>5, FinishAfter
  <2>7. ResultInv' BY <1>t, <2>1, <2>4, <2>5, ResultQueued
  <2>8. worker'.at = "returned" /\ worker'.kind = worker.kind BY <1>t, <2>6
  <2> QED BY <1>t, <1>v, <1>w, <2>1, <2>6, <2>7, <2>8, WorkerMoves
<1> QED BY <1>1, <1>3, <1>4, <1>5, <1>6

\* _close takes the connection down in three steps.
LEMMA CloseKeeps ==
  ASSUME IInv, IInv', UInv, CloseResource \/ ReleaseExecutor \/ ClearActive
  PROVE  UInv'
<1> USE DEF None
<1>0. 0 \in Generations BY MaxGenerationAssumption DEF Generations
<1>t. /\ TypeOK /\ ResultInv /\ inbox \in Seq(Message) /\ open \in SUBSET Generations
      /\ worker \in [kind: Kinds, at: Stages, generation: Generations]
      /\ backend \in [session: Generations, pending: BOOLEAN, executor: Generations]
  BY DEF UInv, TypeOK
<1>w. /\ worker.kind \in {"disconnect", "shutdown"} /\ UNCHANGED <<ui, sched, ping>>
      /\ worker.at \in {"start", "release", "clear"} /\ worker # Idle
      /\ ui.asks = "nothing" /\ ui.state # "CONNECTED"
  <2>1. /\ worker.kind \in {"disconnect", "shutdown"} /\ UNCHANGED <<ui, sched, ping>>
        /\ worker.at \in {"start", "release", "clear"}
    BY DEF CloseResource, ReleaseExecutor, ClearActive, Closing
  <2>2. worker # Idle BY <2>1 DEF Idle
  <2> QED BY <2>1, <2>2 DEF UInv, TaskInv
<1>1. CASE CloseResource
  <2>1. /\ worker.at = "start" /\ UNCHANGED <<store, executors>>
        /\ backend'.session = backend.session /\ backend'.executor = backend.executor
    BY <1>1, <1>t DEF CloseResource
  <2>2. CASE Finish(<<>>, "pending") /\ UNCHANGED open
    <3>1. "pending" \in Results BY DEF Results
    <3>2. inbox' \in Seq(Message) /\ worker' = [worker EXCEPT !.at = "returned"]
      BY <1>t, <2>2, <3>1, FinishBare
    <3>3. ResultInv' BY <1>t, <2>1, <2>2, <3>1, ResultQueued
    <3>4. worker'.at = "returned" /\ worker'.kind = worker.kind BY <1>t, <3>2
    <3> QED BY <1>t, <1>w, <2>1, <2>2, <3>2, <3>3, <3>4, WorkerMoves
  <2>3. CASE open' = open \ {backend.session} /\ Go("release") /\ UNCHANGED inbox
    <3>1. worker'.at = "release" /\ worker'.kind = worker.kind BY <1>t, <2>3 DEF Go
    <3>2. ResultInv' BY <1>t, <2>1, <2>3, ResultStays
    <3> QED BY <1>t, <1>w, <2>1, <2>3, <3>1, <3>2, WorkerMoves DEF Closing
  <2> QED BY <1>1, <2>2, <2>3 DEF CloseResource
<1>2. CASE ReleaseExecutor
  <2>1. /\ worker.at = "release" /\ UNCHANGED <<store, open>>
        /\ backend'.session = backend.session /\ backend'.executor = None
        /\ worker'.at = "clear" /\ worker'.kind = worker.kind
    BY <1>2, <1>t DEF ReleaseExecutor, Go
  <2>2. inbox' = inbox \/ inbox' = inbox \o <<Signal("closed", backend.executor)>>
    BY <1>2 DEF ReleaseExecutor, Emit
  <2>3. "closed" \in Signals BY DEF Signals
  <2>4. PICK m \in Message : m = Signal("closed", backend.executor) /\ m.signal = "closed"
    BY <1>t, <2>3, SignalIsMessage
  <2>5. inbox' = inbox \/ inbox' = inbox \o <<m>> BY <2>2, <2>4
  <2>6. inbox' \in Seq(Message) BY <1>t, <2>5, EmitOne, SMTT(40)
  <2>7. ResultInv' BY <1>t, <2>1, <2>4, <2>5, ResultStays
  <2>8. TypeOK' BY <1>t, <1>w, <2>1, <2>6, OuterTypes DEF TypeOK
  <2>9. TaskInv' BY <1>w, <2>1 DEF TaskInv, Closing
  <2>10. BackendInv' BY <2>1 DEF UInv, BackendInv
  <2>11. UsableInv' BY <1>w, <2>1 DEF UsableInv
  <2> QED BY <2>7, <2>8, <2>9, <2>10, <2>11 DEF UInv
<1>3. CASE ClearActive
  <2>1. /\ worker.at = "clear" /\ UNCHANGED <<executors, open>>
        /\ store' = [store EXCEPT !.connection = None, !.health = "UNKNOWN", !.source = None]
        /\ backend'.session = None /\ backend'.executor = backend.executor
        /\ Finish(<<>>, "ok")
    BY <1>3, <1>t DEF ClearActive
  <2>2. "ok" \in Results BY DEF Results
  <2>3. inbox' \in Seq(Message) /\ worker' = [worker EXCEPT !.at = "returned"]
    BY <1>t, <2>1, <2>2, FinishBare
  <2>4. worker'.at = "returned" /\ worker'.kind = worker.kind BY <1>t, <2>3
  <2>5. ResultInv' BY <1>t, <1>w, <2>1, <2>2, ResultQueued
  <2>6. store'.connection = None BY <2>1, <1>t DEF TypeOK
  <2>7. TypeOK' BY <1>t, <1>w, <2>1, <2>3, OuterTypes DEF TypeOK
  <2>8. TaskInv' BY <1>w, <2>4 DEF TaskInv, Closing
  <2>9. BackendInv' BY <2>1, <2>4, <2>6 DEF UInv, BackendInv
  <2>10. UsableInv' BY <1>w, <2>4 DEF UsableInv
  <2> QED BY <2>5, <2>7, <2>8, <2>9, <2>10 DEF UInv
<1> QED BY <1>1, <1>2, <1>3

\* Every step keeps the connection where the controller shows it.
LEMMA NextUInv == IInv /\ IInv' /\ UInv /\ [Next]_vars => UInv'
<1> SUFFICES ASSUME IInv, IInv', UInv, [Next]_vars PROVE UInv' OBVIOUS
<1>1. CASE UNCHANGED vars
  <2>1. TypeOK' /\ ResultInv' BY <1>1 DEF vars, UInv, TypeOK, ResultInv
  <2>2. TaskInv' /\ BackendInv' /\ UsableInv'
    BY <1>1 DEF vars, UInv, TaskInv, BackendInv, UsableInv, Closing
  <2> QED BY <2>1, <2>2 DEF UInv
<1>2. CASE Next
  BY <1>2, UserKeeps, HandleKeeps, PingKeeps, ConnectKeeps, TaskKeeps, CloseKeeps
  DEF Next, WorkerSteps
<1> QED BY <1>1, <1>2

\* Types and the connection's place hold in every state the threads can reach.
THEOREM ConnectionPlace == Spec => []UInv
<1>1. Spec => [](IInv /\ UInv)
  BY InitIInv, NextIInv, InitUInv, NextUInv, PTL DEF Spec
<1> QED BY <1>1, PTL

\* A controller that shows CONNECTED has an open session with a valid executor,
\* whatever connects, closes and failures came before and whatever the PING
\* worker does meanwhile (GuiController._maybe_finish, RuntimeBackend._close).
THEOREM ConnectedUsable == Spec => []ConnectedIsUsable
<1>1. UInv => ConnectedIsUsable
  BY DEF UInv, TaskInv, BackendInv, UsableInv, ConnectedIsUsable, Idle
<1> QED BY <1>1, ConnectionPlace, PTL


-----------------------------------------------------------------------------
(* The scheduler. *)

\* Signal s of generation g waits in the queue, or waits behind its i-th signal.
Pending(s, g) == \E i \in 1 .. Len(inbox) : inbox[i].signal = s /\ inbox[i].generation = g
PendingAfter(i, s, g) ==
  \E j \in i + 1 .. Len(inbox) : inbox[j].signal = s /\ inbox[j].generation = g

\* The generations whose executor has been made, and those of them that are over.
Published == IF worker.at = "publish" THEN store.generation - 1 ELSE store.generation
Dead(g) == g \in 1 .. Published /\ ~executors[g].valid

\* Only the backend's executor is alive.
DeadInv == \A g \in 1 .. Published : g # backend.executor => ~executors[g].valid

\* What a queued opened or closed signal says of its generation.
ClosedOK(i) == inbox[i].signal = "closed" => Dead(inbox[i].generation)
OpenedOK(i) ==
  inbox[i].signal = "opened" =>
    /\ inbox[i].generation \in 1 .. Published /\ sched.active < inbox[i].generation
    /\ inbox[i].generation = backend.executor \/ PendingAfter(i, "closed", inbox[i].generation)
    /\ \A j \in i + 1 .. Len(inbox) : inbox[j].signal = "opened" =>
         inbox[i].generation < inbox[j].generation

\* The scheduler serves the backend's executor, or the signal that will tell it
\* so is on its way.
OpenInv ==
  /\ sched.active <= Published
  /\ sched.active # None => sched.active = backend.executor \/ Pending("closed", sched.active)
  /\ backend.executor # None => \/ sched.shutdown \/ sched.active = backend.executor
                                \/ Pending("opened", backend.executor)
  /\ sched.shutdown => ui.state = "EXITED" /\ ui.asks = "nothing"
  /\ \A i \in 1 .. Len(inbox) : ClosedOK(i) /\ OpenedOK(i)

\* What a queued completed signal says of its generation.
CompletedOK(i) ==
  inbox[i].signal = "completed" =>
    /\ sched.inflight = inbox[i].generation /\ inbox[i].generation # None
    /\ \A j \in 1 .. Len(inbox) : inbox[j].signal = "completed" => j = i
    /\ inbox[i].result \in {"closed", "stale"} => Dead(inbox[i].generation)

\* The scheduler's one PING is on its thread or its completion is on its way; it
\* is refused only when its connection is over.
PingInv ==
  /\ ping.at = "idle" => ping = NoPing
  /\ ping.at # "idle" =>
       /\ sched.inflight = ping.generation /\ ping.generation \in 1 .. Published
       /\ \A i \in 1 .. Len(inbox) : inbox[i].signal # "completed"
  /\ sched.inflight # None => ping.at # "idle" \/ Pending("completed", sched.inflight)
  /\ ping.at = "captured" => ping.executor = ping.generation \/ Dead(ping.generation)
  /\ ping.at = "reported" /\ ping.result \in {"closed", "stale"} => Dead(ping.generation)
  /\ \A i \in 1 .. Len(inbox) : CompletedOK(i)

\* The worker runs a command of generation g.
TaskOf(g) ==
  worker.generation = g /\ worker.at \in {"enter", "waiting", "holding", "left", "raised"}

StartedOK(i) ==
  inbox[i].signal = "started" =>
    TaskOf(inbox[i].generation) \/ PendingAfter(i, "finished", inbox[i].generation)

\* A command the scheduler takes to be running is, or its end is on its way.
ForegroundInv ==
  /\ sched.foreground => TaskOf(sched.active) \/ Pending("finished", sched.active)
  /\ \A i \in 1 .. Len(inbox) : StartedOK(i)

\* An enabled scheduler with a connection has its timer running unless a command
\* or a PING will restart it.
Armed(s) ==
  s.active # None /\ s.enabled /\ ~s.shutdown => s.timer \/ s.foreground \/ s.inflight # None

\* The inductive invariant for the scheduler.
SInv == DeadInv /\ OpenInv /\ PingInv /\ ForegroundInv /\ Armed(sched)

\* Signals stay queued when others follow them.
LEMMA GrownPending ==
  ASSUME inbox \in Seq(Message), NEW k \in Nat, Grown(inbox, inbox', k)
  PROVE  \A s, g : /\ Pending(s, g) => Pending(s, g)'
                   /\ \A i \in 1 .. Len(inbox) : PendingAfter(i, s, g) => PendingAfter(i, s, g)'
<1>0. Len(inbox) \in Nat OBVIOUS
<1> TAKE s, g
<1>1. Pending(s, g) => Pending(s, g)' BY <1>0 DEF Grown, Pending
<1>2. ASSUME NEW i \in 1 .. Len(inbox), PendingAfter(i, s, g) PROVE PendingAfter(i, s, g)'
  <2>1. PICK j \in i + 1 .. Len(inbox) : inbox[j].signal = s /\ inbox[j].generation = g
    BY <1>2 DEF PendingAfter
  <2>2. j \in 1 .. Len(inbox) /\ j \in i + 1 .. Len(inbox') BY <1>0, <2>1 DEF Grown
  <2> QED BY <2>1, <2>2 DEF PendingAfter, Grown
<1> QED BY <1>1, <1>2

\* A new signal is behind all the others.
LEMMA NewPending ==
  ASSUME inbox \in Seq(Message), NEW k \in 1 .. 2, Grown(inbox, inbox', k),
         NEW s, NEW g, inbox'[Len(inbox) + 1].signal = s, inbox'[Len(inbox) + 1].generation = g
  PROVE  /\ Pending(s, g)'
         /\ \A i \in 1 .. Len(inbox) : PendingAfter(i, s, g)'
<1>0. Len(inbox) \in Nat /\ Len(inbox') = Len(inbox) + k BY DEF Grown
<1>1. Pending(s, g)' BY <1>0 DEF Pending
<1>2. ASSUME NEW i \in 1 .. Len(inbox) PROVE PendingAfter(i, s, g)'
  <2>1. Len(inbox) + 1 \in i + 1 .. Len(inbox') BY <1>0
  <2> QED BY <2>1 DEF PendingAfter
<1> QED BY <1>1, <1>2

\* Taking the first signal leaves the others in their order.
LEMMA TailPending ==
  ASSUME inbox \in Seq(Message), inbox # <<>>, inbox' = Tail(inbox)
  PROVE  \A s, g :
           /\ Pending(s, g) =>
                (inbox[1].signal = s /\ inbox[1].generation = g) \/ Pending(s, g)'
           /\ PendingAfter(1, s, g) => Pending(s, g)'
           /\ \A i \in 1 .. Len(inbox') : PendingAfter(i + 1, s, g) => PendingAfter(i, s, g)'
<1>0. /\ Len(inbox) \in Nat /\ Len(inbox) >= 1 /\ Len(inbox') = Len(inbox) - 1
      /\ \A i \in 1 .. Len(inbox) - 1 : inbox'[i] = inbox[i + 1]
  BY TakeOne
<1>1. ASSUME NEW j \in 2 .. Len(inbox) PROVE j - 1 \in 1 .. Len(inbox') /\ inbox'[j - 1] = inbox[j]
  <2>1. j - 1 \in 1 .. Len(inbox) - 1 /\ (j - 1) + 1 = j BY <1>0
  <2> QED BY <1>0, <2>1
<1> TAKE s, g
<1>2. ASSUME Pending(s, g) PROVE (inbox[1].signal = s /\ inbox[1].generation = g) \/ Pending(s, g)'
  <2>1. PICK j \in 1 .. Len(inbox) : inbox[j].signal = s /\ inbox[j].generation = g
    BY <1>2 DEF Pending
  <2>2. CASE j = 1 BY <2>1, <2>2
  <2>3. CASE j # 1
    <3>1. j \in 2 .. Len(inbox) BY <1>0, <2>1, <2>3
    <3> QED BY <1>1, <2>1, <3>1 DEF Pending
  <2> QED BY <2>2, <2>3
<1>3. ASSUME PendingAfter(1, s, g) PROVE Pending(s, g)'
  <2>1. PICK j \in 2 .. Len(inbox) : inbox[j].signal = s /\ inbox[j].generation = g
    BY <1>3 DEF PendingAfter
  <2> QED BY <1>1, <2>1 DEF Pending
<1>4. ASSUME NEW i \in 1 .. Len(inbox'), PendingAfter(i + 1, s, g) PROVE PendingAfter(i, s, g)'
  <2>1. PICK j \in i + 1 + 1 .. Len(inbox) : inbox[j].signal = s /\ inbox[j].generation = g
    BY <1>4 DEF PendingAfter
  <2>2. j \in 2 .. Len(inbox) /\ j - 1 \in i + 1 .. Len(inbox') BY <1>0, <2>1
  <2> QED BY <1>1, <2>1, <2>2 DEF PendingAfter
<1> QED BY <1>2, <1>3, <1>4


\* The backend's executor is the last one made.
LEMMA PublishedType ==
  ASSUME UInv
  PROVE  /\ Published \in Nat /\ 1 .. Published \subseteq Generations
         /\ inbox \in Seq(Message) /\ Len(inbox) \in Nat
         /\ \A i \in 1 .. Len(inbox) : inbox[i] \in Message /\ inbox[i].generation \in Nat
         /\ sched.active \in Nat /\ sched.inflight \in Nat /\ backend.executor \in Generations
         /\ ping.generation \in Nat
         /\ backend.executor # None =>
              /\ backend.executor = Published /\ backend.executor \in 1 .. Published
              /\ executors[backend.executor].valid
<1> USE MaxGenerationAssumption DEF Generations, None
<1>1. /\ store.generation \in Generations /\ store.connection \in Generations
      /\ backend.executor \in Generations /\ inbox \in Seq(Message)
      /\ sched.active \in Generations /\ sched.inflight \in Generations
      /\ ping.generation \in Generations
  BY DEF UInv, TypeOK, SchedulerStates
<1>2. worker.at = "publish" => store.connection = store.generation /\ store.connection # 0
  BY DEF UInv, BackendInv
<1>3. Published \in Nat /\ Published <= store.generation BY <1>1, <1>2 DEF Published
<1>4. \A i \in 1 .. Len(inbox) : inbox[i] \in Message /\ inbox[i].generation \in Generations
  <2>1. \A i \in 1 .. Len(inbox) : inbox[i] \in Message BY <1>1
  <2>2. \A m \in Message : m.generation \in Generations BY DEF Message
  <2> QED BY <2>1, <2>2
<1>5. ASSUME backend.executor # None
      PROVE  /\ backend.executor = Published /\ backend.executor \in 1 .. Published
             /\ executors[backend.executor].valid
  <2>1. worker.at \notin {"publish", "clear"} BY <1>5 DEF UInv, BackendInv
  <2>2. /\ backend.executor = store.connection /\ store.connection = store.generation
        /\ executors[backend.executor].valid
    BY <1>5, <2>1 DEF UInv, BackendInv
  <2> QED BY <1>1, <1>5, <2>1, <2>2 DEF Published
<1>6. \A g \in 1 .. Published : g \in Generations BY <1>1, <1>3
<1> QED BY <1>1, <1>3, <1>4, <1>5, <1>6

\* The backend's executor and the fate of the others stay as they are.
SameExecutors ==
  /\ backend'.executor = backend.executor /\ Published' = Published
  /\ \A g \in Generations : executors'[g].valid = executors[g].valid

\* The signals queued behind the present ones are none of S.
NewNotIn(S) == \A i \in 1 .. Len(inbox') : i > Len(inbox) => inbox'[i].signal \notin S

\* With the executors as they are, so are the dead ones.
LEMMA SameDead ==
  ASSUME UInv, SameExecutors
  PROVE  /\ \A g : Dead(g) => Dead(g)'
         /\ DeadInv => DeadInv'
<1>1. \A g \in 1 .. Published : g \in Generations BY PublishedType
<1> QED BY <1>1 DEF SameExecutors, Dead, DeadInv

\* Signals that open or close nothing do not disturb the scheduler's view.
LEMMA OpenGrows ==
  ASSUME UInv, OpenInv, SameExecutors, NEW k \in 0 .. 2, Grown(inbox, inbox', k),
         NewNotIn({"opened", "closed"}),
         sched'.active = sched.active, sched'.shutdown = sched.shutdown,
         ui' = ui \/ ~sched.shutdown
  PROVE  OpenInv'
<1>t. inbox \in Seq(Message) /\ Len(inbox) \in Nat BY PublishedType
<1>k. k \in Nat OBVIOUS
<1>1. \A s, g : /\ Pending(s, g) => Pending(s, g)'
                /\ \A i \in 1 .. Len(inbox) : PendingAfter(i, s, g) => PendingAfter(i, s, g)'
  BY <1>k, <1>t, GrownPending, Zenon
<1>2. \A g : Dead(g) => Dead(g)' BY SameDead
<1>3. ASSUME NEW i \in 1 .. Len(inbox') PROVE (ClosedOK(i) /\ OpenedOK(i))'
  <2>1. CASE i > Len(inbox)
    BY <2>1 DEF NewNotIn, ClosedOK, OpenedOK
  <2>2. CASE i \in 1 .. Len(inbox)
    <3>0. inbox'[i] = inbox[i] BY <2>2 DEF Grown
    <3>1. ClosedOK(i) /\ OpenedOK(i) BY <2>2 DEF OpenInv
    <3>2. ClosedOK(i)' BY <1>2, <3>0, <3>1 DEF ClosedOK
    <3>3. ASSUME inbox'[i].signal = "opened" 
          PROVE  \A j \in i + 1 .. Len(inbox') : inbox'[j].signal = "opened" =>
                   inbox'[i].generation < inbox'[j].generation
      <4> TAKE j \in i + 1 .. Len(inbox')
      <4>1. CASE j > Len(inbox) 
        <5>1. j \in 1 .. Len(inbox') BY <1>t, <2>2, <4>1 DEF Grown
        <5> QED BY <4>1, <5>1 DEF NewNotIn
      <4>2. CASE ~(j > Len(inbox))
        <5>1. j \in i + 1 .. Len(inbox) /\ j \in 1 .. Len(inbox) BY <1>t, <2>2, <4>2 DEF Grown
        <5>2. inbox'[j] = inbox[j] BY <5>1 DEF Grown
        <5> QED BY <3>0, <3>1, <3>3, <5>1, <5>2 DEF OpenedOK
      <4> QED BY <4>1, <4>2
    <3>4. OpenedOK(i)' BY <1>1, <2>2, <3>0, <3>1, <3>3 DEF OpenedOK, SameExecutors
    <3> QED BY <3>2, <3>4
  <2> QED BY <1>t, <2>1, <2>2
<1>4. /\ (sched.active <= Published)'
      /\ (sched.active # None => sched.active = backend.executor \/ Pending("closed", sched.active))'
      /\ (backend.executor # None => \/ sched.shutdown \/ sched.active = backend.executor
                                     \/ Pending("opened", backend.executor))'
      /\ (sched.shutdown => ui.state = "EXITED" /\ ui.asks = "nothing")'
  BY <1>1 DEF OpenInv, SameExecutors
<1> QED BY <1>3, <1>4 DEF OpenInv

\* Signals other than a completion do not disturb the PING.
LEMMA PingGrows ==
  ASSUME UInv, PingInv, Published' = Published \/ Published' = Published + 1,
         \A g : Dead(g) => Dead(g)',
         NEW k \in 0 .. 2, Grown(inbox, inbox', k), NewNotIn({"completed"}),
         sched'.inflight = sched.inflight, ping' = ping
  PROVE  PingInv'
<1>t. inbox \in Seq(Message) /\ Len(inbox) \in Nat /\ Published \in Nat BY PublishedType
<1>k. k \in Nat OBVIOUS
<1>1. \A s, g : Pending(s, g) => Pending(s, g)' BY <1>k, <1>t, GrownPending, Zenon
<1>2. \A i \in 1 .. Len(inbox') : inbox'[i].signal = "completed" =>
        i \in 1 .. Len(inbox) /\ inbox'[i] = inbox[i]
  BY <1>t DEF NewNotIn, Grown
<1>3. \A i \in 1 .. Len(inbox') : CompletedOK(i)'
  BY <1>2 DEF PingInv, CompletedOK
<1>4. /\ (ping.at = "idle" => ping = NoPing)'
      /\ (ping.at # "idle" =>
            /\ sched.inflight = ping.generation /\ ping.generation \in 1 .. Published
            /\ \A i \in 1 .. Len(inbox) : inbox[i].signal # "completed")'
      /\ (ping.at = "captured" => ping.executor = ping.generation \/ Dead(ping.generation))'
      /\ (ping.at = "reported" /\ ping.result \in {"closed", "stale"} => Dead(ping.generation))'
  BY <1>t, <1>2 DEF PingInv, NoPing
<1>5. (sched.inflight # None => ping.at # "idle" \/ Pending("completed", sched.inflight))'
  BY <1>1 DEF PingInv
<1> QED BY <1>3, <1>4, <1>5 DEF PingInv

\* Signals other than the start of a command do not disturb the foreground, as
\* long as the command runs on.
LEMMA ForegroundGrows ==
  ASSUME UInv, ForegroundInv, NEW k \in 0 .. 2, Grown(inbox, inbox', k), NewNotIn({"started"}),
         sched'.foreground => sched.foreground /\ sched'.active = sched.active,
         \A g : TaskOf(g) => TaskOf(g)'
  PROVE  ForegroundInv'
<1>t. inbox \in Seq(Message) /\ Len(inbox) \in Nat BY PublishedType
<1>k. k \in Nat OBVIOUS
<1>1. \A s, g : /\ Pending(s, g) => Pending(s, g)'
                /\ \A i \in 1 .. Len(inbox) : PendingAfter(i, s, g) => PendingAfter(i, s, g)'
  BY <1>k, <1>t, GrownPending, Zenon
<1>2. \A i \in 1 .. Len(inbox') : inbox'[i].signal = "started" =>
        i \in 1 .. Len(inbox) /\ inbox'[i] = inbox[i]
  BY <1>t DEF NewNotIn, Grown
<1>3. \A i \in 1 .. Len(inbox') : StartedOK(i)'
  BY <1>1, <1>2 DEF ForegroundInv, StartedOK
<1>4. (sched.foreground => TaskOf(sched.active) \/ Pending("finished", sched.active))'
  BY <1>1 DEF ForegroundInv
<1> QED BY <1>3, <1>4 DEF ForegroundInv


\* What is new in the queue after no, one or two signals.
LEMMA NewNone ==
  ASSUME inbox \in Seq(Message), inbox' = inbox
  PROVE  Grown(inbox, inbox', 0) /\ \A S : NewNotIn(S)
BY DEF Grown, NewNotIn

LEMMA NewOne ==
  ASSUME inbox \in Seq(Message), Grown(inbox, inbox', 1)
  PROVE  \A S : inbox'[Len(inbox) + 1].signal \notin S => NewNotIn(S)
BY DEF Grown, NewNotIn

LEMMA NewTwo ==
  ASSUME inbox \in Seq(Message), Grown(inbox, inbox', 2)
  PROVE  \A S : inbox'[Len(inbox) + 1].signal \notin S /\ inbox'[Len(inbox) + 2].signal \notin S
                  => NewNotIn(S)
<1>0. Len(inbox) \in Nat /\ Len(inbox') = Len(inbox) + 2 BY DEF Grown
<1>1. \A i \in 1 .. Len(inbox') : i > Len(inbox) => i = Len(inbox) + 1 \/ i = Len(inbox) + 2
  BY <1>0
<1> SUFFICES ASSUME NEW S, inbox'[Len(inbox) + 1].signal \notin S,
                    inbox'[Len(inbox) + 2].signal \notin S
             PROVE  NewNotIn(S)
  OBVIOUS
<1>2. \A i \in 1 .. Len(inbox') : i > Len(inbox) => inbox'[i].signal \notin S
  BY <1>1
<1> QED BY <1>2 DEF NewNotIn

\* A step the scheduler does not hear of.
LEMMA QuietSched ==
  ASSUME UInv, SInv, SameExecutors, NEW k \in 0 .. 2, Grown(inbox, inbox', k),
         NewNotIn({"opened", "closed", "completed", "started"}),
         sched' = sched, ping' = ping,
         \A g : TaskOf(g) => TaskOf(g)',
         ui' = ui \/ ~sched.shutdown
  PROVE  SInv'
<1>1. /\ NewNotIn({"opened", "closed"}) /\ NewNotIn({"completed"}) /\ NewNotIn({"started"})
  BY DEF NewNotIn
<1>2. OpenInv' BY <1>1, OpenGrows DEF SInv
<1>3. (\A g : Dead(g) => Dead(g)') /\ DeadInv' BY SameDead DEF SInv
<1>4. PingInv' BY <1>1, <1>3, PingGrows DEF SInv, SameExecutors
<1>5. ForegroundInv' BY <1>1, ForegroundGrows DEF SInv
<1>6. Armed(sched)' BY DEF SInv, Armed
<1> QED BY <1>2, <1>3, <1>4, <1>5, <1>6 DEF SInv

\* With the same store and executors, and no connection being published.
LEMMA SameStore ==
  ASSUME UInv, store' = store, backend'.executor = backend.executor,
         \A g \in Generations : executors'[g].valid = executors[g].valid,
         worker.at # "publish", worker'.at # "publish"
  PROVE  SameExecutors
BY DEF SameExecutors, Published

\* The application quits: the scheduler serves nothing any more.
LEMMA ExitSched ==
  ASSUME UInv, SInv, SameExecutors, inbox' = inbox, ping' = ping,
         sched' = Shutdown(sched), ui'.state = "EXITED", ui'.asks = "nothing",
         \A g : TaskOf(g) => TaskOf(g)'
  PROVE  SInv'
<1>t. /\ inbox \in Seq(Message) /\ Len(inbox) \in Nat /\ Published \in Nat
      /\ sched \in SchedulerStates(Generations)
  BY PublishedType DEF UInv, TypeOK
<1>0. /\ sched'.active = None /\ sched'.shutdown /\ ~sched'.foreground
      /\ sched'.inflight = sched.inflight
  BY <1>t DEF Shutdown, SchedulerStates
<1>n. Grown(inbox, inbox', 0) /\ \A S : NewNotIn(S) BY <1>t, NewNone
<1>1. (\A g : Dead(g) => Dead(g)') /\ DeadInv' BY SameDead DEF SInv
<1>2. PingInv' BY <1>0, <1>1, <1>n, PingGrows DEF SInv, SameExecutors
<1>3. ForegroundInv' BY <1>0, <1>n, ForegroundGrows DEF SInv
<1>4. OpenInv'
  <2>1. ASSUME NEW i \in 1 .. Len(inbox) PROVE (ClosedOK(i) /\ OpenedOK(i))'
    <3>1. ClosedOK(i) /\ OpenedOK(i) BY DEF SInv, OpenInv
    <3>2. ClosedOK(i)' BY <1>1, <3>1 DEF ClosedOK
    <3>3. OpenedOK(i)'
      BY <1>0, <3>1 DEF OpenedOK, SameExecutors, PendingAfter, None
    <3> QED BY <3>2, <3>3
  <2> QED BY <1>0, <1>t, <2>1 DEF OpenInv, SameExecutors, None
<1>5. Armed(sched)' BY <1>0 DEF Armed
<1> QED BY <1>1, <1>2, <1>3, <1>4, <1>5 DEF SInv

\* What the user asks for.
LEMMA UserSched == ASSUME UInv, SInv, UserSteps PROVE SInv'
<1>t. inbox \in Seq(Message) /\ Len(inbox) \in Nat BY PublishedType
<1>0. 0 \in Generations BY MaxGenerationAssumption DEF Generations
<1>s. UNCHANGED <<backend, store, executors, ping>>
  BY DEF UserSteps, RequestConnect, RequestDisconnect, RequestApplicationClose,
    RespondTaskAction, SetAutoPing, RequestTask
<1>1. CASE SetAutoPing
  <2>1. /\ UNCHANGED <<ui, worker, sched>>
        /\ Emit(<<[Signal("auto_ping", None) EXCEPT !.result =
                     IF sched.enabled THEN "off" ELSE "on"]>>)
    BY <1>1 DEF SetAutoPing
  <2>r. PICK r \in Results : r = IF sched.enabled THEN "off" ELSE "on" BY DEF Results
  <2>e. inbox' = inbox \o <<[Signal("auto_ping", None) EXCEPT !.result = r]>>
    BY <2>1, <2>r DEF Emit
  <2>m. "auto_ping" \in Signals BY DEF Signals
  <2>2. PICK m \in Message : m.signal = "auto_ping" /\ inbox' = inbox \o <<m>>
    <3>1. /\ [Signal("auto_ping", None) EXCEPT !.result = r] \in Message
          /\ [Signal("auto_ping", None) EXCEPT !.result = r].signal = "auto_ping"
      BY <1>0, <2>m, SignalIsMessage DEF None
    <3> QED BY <2>e, <3>1, Zenon
  <2>3. Grown(inbox, inbox', 1) /\ inbox'[Len(inbox) + 1].signal = "auto_ping"
    BY <1>t, <2>2, EmitOne
  <2>4. NewNotIn({"opened", "closed", "completed", "started"}) BY <1>t, <2>3, NewOne
  <2>5. SameExecutors BY <1>s, <2>1 DEF SameExecutors, Published
  <2>6. \A g : TaskOf(g) => TaskOf(g)' BY <2>1 DEF TaskOf
  <2> QED BY <1>s, <2>1, <2>3, <2>4, <2>5, <2>6, QuietSched
<1>2. ASSUME worker = Idle, inbox' = inbox, worker'.at \in {"none", "start"},
             \/ sched' = sched /\ (ui.state # "EXITED" \/ ui.asks # "nothing")
             \/ sched' = Shutdown(sched) /\ ui'.state = "EXITED" /\ ui'.asks = "nothing"
      PROVE  SInv'
  <2>1. worker.at = "none" BY <1>2 DEF Idle
  <2>2. SameExecutors BY <1>2, <1>s, <2>1, SameStore
  <2>3. \A g : TaskOf(g) => TaskOf(g)' BY <2>1 DEF TaskOf
  <2>4. CASE sched' = sched /\ (ui.state # "EXITED" \/ ui.asks # "nothing")
    <3>1. ~sched.shutdown BY <2>4 DEF SInv, OpenInv
    <3>2. Grown(inbox, inbox', 0) /\ NewNotIn({"opened", "closed", "completed", "started"})
      BY <1>2, <1>t, NewNone
    <3> QED BY <1>s, <2>2, <2>3, <2>4, <3>1, <3>2, QuietSched
  <2>5. CASE sched' = Shutdown(sched) /\ ui'.state = "EXITED" /\ ui'.asks = "nothing"
    BY <1>2, <1>s, <2>2, <2>3, <2>5, ExitSched
  <2> QED BY <1>2, <2>4, <2>5
<1>u. ui \in [state: UiStates, cleanup: BOOLEAN, asks: {"nothing", "disconnect", "cleanup"},
              origin: UiStates]
  BY DEF UInv, TypeOK
<1>3. CASE RequestConnect BY <1>2, <1>3 DEF RequestConnect, NoTask, Started
<1>4. CASE RequestDisconnect BY <1>2, <1>4 DEF RequestDisconnect, NoTask, Started
<1>5. ASSUME NEW kind \in {"task", "local"}, RequestTask(kind) PROVE SInv'
  BY <1>2, <1>5 DEF RequestTask, NoTask, Started
<1>6. CASE RequestApplicationClose
  <2>1. worker = Idle /\ inbox' = inbox BY <1>6 DEF RequestApplicationClose, NoTask
  <2>2. CASE Exit /\ UNCHANGED worker BY <1>2, <1>u, <2>1, <2>2 DEF Exit, Idle
  <2>3. CASE UNCHANGED sched /\ Started("shutdown") /\ ui.state # "EXITED"
    BY <1>2, <2>1, <2>3 DEF Started
  <2> QED BY <1>6, <2>2, <2>3 DEF RequestApplicationClose
<1>7. CASE RespondTaskAction
  <2>1. worker = Idle /\ inbox' = inbox BY <1>7 DEF RespondTaskAction
  <2>2. CASE Exit /\ UNCHANGED worker BY <1>2, <1>u, <2>1, <2>2 DEF Exit, Idle
  <2>3. CASE /\ UNCHANGED sched /\ ui.asks # "nothing"
             /\ worker' = worker \/ Started("disconnect") \/ Started("shutdown")
    BY <1>2, <2>1, <2>3 DEF Started, Idle
  <2> QED BY <1>7, <2>2, <2>3 DEF RespondTaskAction
<1> QED BY <1>1, <1>3, <1>4, <1>5, <1>6, <1>7 DEF UserSteps


\* Worker steps that move the task on.
LEMMA WorkerQuiet ==
  ASSUME UInv, SInv, UNCHANGED <<ui, sched, ping>>, SameExecutors,
         \A g : TaskOf(g) => TaskOf(g)',
         \/ inbox' = inbox
         \/ \E r \in Results : Finish(<<>>, r)
         \/ \E g \in Generations : Emit(<<Signal("activity", g)>>)
  PROVE  SInv'
<1>t. inbox \in Seq(Message) /\ Len(inbox) \in Nat /\ TypeOK BY PublishedType DEF UInv
<1>1. CASE inbox' = inbox BY <1>1, <1>t, NewNone, QuietSched
<1>2. CASE \E r \in Results : Finish(<<>>, r)
  <2>1. PICK r \in Results : Finish(<<>>, r) BY <1>2
  <2>2. Grown(inbox, inbox', 1) /\ inbox'[Len(inbox) + 1] = Result(r) BY <1>t, <2>1, FinishBare
  <2>3. inbox'[Len(inbox) + 1].signal = "result" BY <2>2 DEF Result
  <2>4. NewNotIn({"opened", "closed", "completed", "started"}) BY <1>t, <2>2, <2>3, NewOne
  <2> QED BY <2>2, <2>4, QuietSched
<1>3. CASE \E g \in Generations : Emit(<<Signal("activity", g)>>)
  <2>1. PICK g \in Generations : Emit(<<Signal("activity", g)>>) BY <1>3
  <2>2. "activity" \in Signals BY DEF Signals
  <2>3. PICK m \in Message : m = Signal("activity", g) /\ m.signal = "activity"
    BY <2>2, SignalIsMessage
  <2>4. inbox' = inbox \o <<m>> BY <2>1, <2>3 DEF Emit
  <2>5. Grown(inbox, inbox', 1) /\ inbox'[Len(inbox) + 1].signal = "activity"
    BY <1>t, <2>3, <2>4, EmitOne
  <2>6. NewNotIn({"opened", "closed", "completed", "started"}) BY <1>t, <2>5, NewOne
  <2> QED BY <2>5, <2>6, QuietSched
<1> QED BY <1>1, <1>2, <1>3

\* A new executor, and the signal that tells of it.
LEMMA PublishSched == ASSUME IInv, UInv, SInv, ConnectPublishes PROVE SInv'
<1> USE DEF None
<1>t. /\ inbox \in Seq(Message) /\ Len(inbox) \in Nat /\ TypeOK /\ Published \in Nat
      /\ sched.active \in Nat /\ \A i \in 1 .. Len(inbox) : inbox[i].generation \in Nat
      /\ 1 .. Published \subseteq Generations
  BY PublishedType DEF UInv
<1> DEFINE g == store.generation
<1>1. /\ backend' = [backend EXCEPT !.executor = g]
      /\ executors' = [executors EXCEPT ![g] = NewExecutor(g)]
      /\ Finish(<<Signal("opened", g)>>, "ok")
      /\ worker.at = "publish" /\ UNCHANGED <<ui, store, sched, ping>>
  BY DEF ConnectPublishes, At
<1>2. /\ g \in Generations /\ g \in Nat /\ g = Published + 1
      /\ backend.executor = None /\ backend'.executor = g
  <2>1. g \in Generations /\ backend.executor = None BY <1>1 DEF UInv, BackendInv, TypeOK
  <2>2. g \in Nat BY <2>1, MaxGenerationAssumption DEF Generations
  <2>3. backend'.executor = g BY <1>1, <1>t DEF TypeOK
  <2> QED BY <1>1, <2>1, <2>2, <2>3 DEF Published
<1>3. "opened" \in Signals /\ "ok" \in Results BY DEF Signals, Results
<1>4. PICK m \in Message : m = Signal("opened", g) /\ m.signal = "opened" /\ m.generation = g
  BY <1>2, <1>3, SignalIsMessage
<1>5. Finish(<<m>>, "ok") BY <1>1, <1>4
<1>6. /\ Grown(inbox, inbox', 2) /\ inbox'[Len(inbox) + 1] = m
      /\ inbox'[Len(inbox) + 2] = Result("ok") /\ worker' = [worker EXCEPT !.at = "returned"]
  BY <1>3, <1>5, <1>t, FinishAfter
<1>7. /\ Len(inbox') = Len(inbox) + 2 /\ inbox'[Len(inbox) + 2].signal = "result"
      /\ \A i \in 1 .. Len(inbox) : inbox'[i] = inbox[i]
  BY <1>6 DEF Result, Grown
<1>8. worker'.at = "returned" /\ Published' = g
  <2>1. worker'.at = "returned" BY <1>6, <1>t DEF TypeOK
  <2> QED BY <1>1, <2>1 DEF Published
<1>9. \A h \in 1 .. Published : executors'[h].valid = executors[h].valid
  BY <1>1, <1>2, <1>t DEF TypeOK
<1>10. (\A h : Dead(h) => Dead(h)')
  BY <1>2, <1>8, <1>9, <1>t DEF Dead
<1>11. DeadInv'
  <2>1. ASSUME NEW h \in 1 .. g, h # g PROVE ~executors'[h].valid
    <3>1. h \in 1 .. Published /\ h # 0 BY <1>2, <1>t, <2>1
    <3> QED BY <1>2, <1>9, <3>1 DEF SInv, DeadInv
  <2> QED BY <1>2, <1>8, <2>1 DEF DeadInv
<1>12. PingInv'
  <2>1. NewNotIn({"completed"}) BY <1>4, <1>6, <1>7, <1>t, NewTwo
  <2> QED BY <1>1, <1>2, <1>6, <1>8, <1>10, <2>1, PingGrows DEF SInv
<1>13. ForegroundInv'
  <2>1. NewNotIn({"started"}) BY <1>4, <1>6, <1>7, <1>t, NewTwo
  <2>2. \A h : TaskOf(h) => TaskOf(h)' BY <1>1 DEF TaskOf
  <2> QED BY <1>1, <1>6, <2>1, <2>2, ForegroundGrows DEF SInv
<1>14. OpenInv'
  <2>1. \A s, h : /\ Pending(s, h) => Pending(s, h)'
                  /\ \A i \in 1 .. Len(inbox) : PendingAfter(i, s, h) => PendingAfter(i, s, h)'
    <3>1. 2 \in Nat OBVIOUS
    <3> QED BY <1>6, <1>t, <3>1, GrownPending, Zenon
  <2>2. Pending("opened", g)'
    <3>1. Len(inbox) + 1 \in 1 .. Len(inbox') BY <1>7, <1>t
    <3> QED BY <1>1, <1>4, <1>6, <3>1 DEF Pending
  <2>3. ASSUME NEW i \in 1 .. Len(inbox') PROVE (ClosedOK(i) /\ OpenedOK(i))'
    <3>1. CASE i \in 1 .. Len(inbox)
      <4>1. ClosedOK(i) /\ OpenedOK(i) /\ inbox'[i] = inbox[i] BY <1>7, <3>1 DEF SInv, OpenInv
      <4>2. ClosedOK(i)' BY <1>10, <4>1 DEF ClosedOK
      <4>0. PICK h \in Nat : h = inbox[i].generation BY <1>t, <3>1
      <4>3. ASSUME inbox[i].signal = "opened"
            PROVE  /\ inbox[i].generation \in 1 .. g /\ sched.active < inbox[i].generation
                   /\ PendingAfter(i, "closed", h)'
                   /\ \A j \in i + 1 .. Len(inbox') : inbox'[j].signal = "opened" =>
                        inbox[i].generation < inbox'[j].generation
        <5>1. /\ inbox[i].generation \in 1 .. Published /\ sched.active < inbox[i].generation
              /\ PendingAfter(i, "closed", inbox[i].generation)
              /\ \A j \in i + 1 .. Len(inbox) : inbox[j].signal = "opened" =>
                   inbox[i].generation < inbox[j].generation
          BY <1>2, <4>1, <4>3 DEF OpenedOK
        <5>2. \A j \in i + 1 .. Len(inbox') :
                \/ j \in i + 1 .. Len(inbox) /\ j \in 1 .. Len(inbox)
                \/ j = Len(inbox) + 1 \/ j = Len(inbox) + 2
          BY <1>7, <1>t, <3>1
        <5>3. inbox[i].generation < g BY <1>2, <1>t, <5>1
        <5>4. ASSUME NEW j \in i + 1 .. Len(inbox'), inbox'[j].signal = "opened"
              PROVE  inbox[i].generation < inbox'[j].generation
          BY <1>4, <1>6, <1>7, <5>1, <5>2, <5>3, <5>4
        <5>5. inbox[i].generation \in 1 .. g BY <1>2, <1>t, <5>1
        <5>6. PendingAfter(i, "closed", h)' BY <2>1, <3>1, <4>0, <5>1
        <5> QED BY <5>1, <5>4, <5>5, <5>6
      <4>4. OpenedOK(i)' BY <1>1, <1>8, <4>0, <4>1, <4>3 DEF OpenedOK
      <4> QED BY <4>2, <4>4
    <3>2. CASE i = Len(inbox) + 1
      <4>1. inbox'[i] = m BY <1>6, <3>2
      <4>2. \A j \in i + 1 .. Len(inbox') : inbox'[j].signal # "opened"
        <5>1. \A j \in i + 1 .. Len(inbox') : j = Len(inbox) + 2 BY <1>7, <1>t, <3>2
        <5> QED BY <1>7, <5>1
      <4>3. g \in 1 .. g /\ sched.active < g BY <1>2, <1>t DEF SInv, OpenInv
      <4> QED BY <1>1, <1>2, <1>4, <1>8, <4>1, <4>2, <4>3 DEF ClosedOK, OpenedOK
    <3>3. CASE i = Len(inbox) + 2 BY <1>7, <3>3 DEF ClosedOK, OpenedOK
    <3> QED BY <1>7, <1>t, <3>1, <3>2, <3>3
  <2>4. sched.active <= g BY <1>2, <1>t DEF SInv, OpenInv
  <2>5. sched.active # None => Pending("closed", sched.active)'
    BY <1>1, <1>2, <2>1 DEF SInv, OpenInv
  <2> QED BY <1>1, <1>2, <1>8, <2>2, <2>3, <2>4, <2>5 DEF SInv, OpenInv
<1>15. Armed(sched)' BY <1>1 DEF SInv, Armed
<1> QED BY <1>11, <1>12, <1>13, <1>14, <1>15 DEF SInv

\* The other steps of RuntimeBackend.connect.
LEMMA ConnectSched ==
  ASSUME IInv, UInv, SInv,
         \/ ConnectInvalid \/ ConnectRefused \/ PreConnectCleanup
         \/ ConnectOpens \/ ConnectPublishes
         \/ \E closed \in BOOLEAN : ConnectFails(closed)
  PROVE  SInv'
<1>t. /\ worker \in [kind: Kinds, at: Stages, generation: Generations]
      /\ backend \in [session: Generations, pending: BOOLEAN, executor: Generations]
  BY DEF UInv, TypeOK
<1>1. ASSUME worker.at \in {"start", "open"}, UNCHANGED <<ui, sched, ping, store, executors>>,
             backend'.executor = backend.executor,
             \/ inbox' = inbox /\ worker'.at = "open"
             \/ \E r \in Results : Finish(<<>>, r)
      PROVE  SInv'
  <2>1. worker'.at # "publish" BY <1>1, <1>t DEF Finish, Go
  <2>2. SameExecutors BY <1>1, <2>1, SameStore
  <2>3. \A g : TaskOf(g) => TaskOf(g)' BY <1>1 DEF TaskOf
  <2> QED BY <1>1, <2>2, <2>3, WorkerQuiet
<1>2. CASE ConnectInvalid
  <2>1. PICK r \in Results : r = IF backend.pending THEN "pending" ELSE "failed" BY DEF Results
  <2> QED BY <1>1, <1>2, <2>1 DEF ConnectInvalid, At
<1>3. CASE ConnectRefused
  <2>1. "fatal" \in Results BY DEF Results
  <2> QED BY <1>1, <1>3, <2>1 DEF ConnectRefused, At
<1>4. CASE PreConnectCleanup
  <2>1. "pending" \in Results BY DEF Results
  <2>2. worker' = [worker EXCEPT !.at = "open"] => worker'.at = "open" BY <1>t
  <2> QED BY <1>1, <1>4, <1>t, <2>1, <2>2 DEF PreConnectCleanup, At, Go
<1>5. ASSUME NEW closed \in BOOLEAN, ConnectFails(closed) PROVE SInv'
  <2>1. PICK r \in Results : Finish(<<>>, r) BY <1>5 DEF ConnectFails, Results
  <2>2. backend'.executor = backend.executor BY <1>5, <1>t DEF ConnectFails
  <2> QED BY <1>1, <1>5, <2>1, <2>2 DEF ConnectFails, At
<1>6. CASE ConnectOpens
  <2>1. /\ UNCHANGED <<ui, executors, sched, inbox, ping>> /\ worker.at = "open"
        /\ store'.generation = store.generation + 1
        /\ backend'.executor = backend.executor /\ worker'.at = "publish"
    BY <1>6, <1>t DEF ConnectOpens, At, Go
  <2>2. store.generation \in Nat BY MaxGenerationAssumption DEF UInv, TypeOK, Generations
  <2>3. Published' = Published BY <2>1, <2>2 DEF Published
  <2>4. SameExecutors BY <2>1, <2>3 DEF SameExecutors
  <2>5. \A g : TaskOf(g) => TaskOf(g)' BY <2>1 DEF TaskOf
  <2> QED BY <2>1, <2>4, <2>5, WorkerQuiet
<1> QED BY <1>2, <1>3, <1>4, <1>5, <1>6, PublishSched


\* Tasks tell the scheduler when a command begins and ends.
LEMMA TaskSched ==
  ASSUME IInv, UInv, SInv,
         \/ LocalTask \/ TaskStarts \/ TaskEnters \/ TaskReturns
         \/ \E stage \in {"left", "raised"} : TaskLeaves(stage)
  PROVE  SInv'
<1>t. /\ TypeOK /\ inbox \in Seq(Message) /\ Len(inbox) \in Nat
      /\ worker \in [kind: Kinds, at: Stages, generation: Generations]
      /\ worker.generation \in Generations /\ store.connection \in Generations
  BY PublishedType DEF UInv, TypeOK
<1>w. /\ UNCHANGED <<ui, sched, ping, store, backend>>
      /\ worker.at \in {"start", "enter", "waiting", "holding", "left", "raised"}
      /\ worker'.at # "publish"
  BY <1>t DEF LocalTask, TaskStarts, TaskEnters, TaskReturns, TaskLeaves, At, Finish, Go
<1>v. ASSUME NEW g \in Generations PROVE executors'[g].valid = executors[g].valid
  <2> DEFINE e == executors[worker.generation]
  <2>e. e \in ExecutorStates(Generations) BY <1>t DEF TypeOK
  <2>1. Queued(e).valid = e.valid BY <2>e DEF Queued, ExecutorStates
  <2>2. Granted(Queued(e)).valid = e.valid
    <3>1. Granted(Queued(e)) = MaintenanceGranted(e) BY <2>e, GrantedAtOnce
    <3> QED BY <2>e, <3>1 DEF MaintenanceGranted, ExecutorStates
  <2>3. Released(e).valid = e.valid BY <2>e DEF Released, ExecutorStates
  <2>4. Granted(e).valid = e.valid
    <3>1. Abandoned(e).valid = e.valid /\ Abandoned(e) = [e EXCEPT !.waiters = @ - 1]
      BY <2>e DEF Abandoned, ExecutorStates
    <3> QED BY <2>e, <3>1 DEF Granted, Abandoned, ExecutorStates
  <2>5. \/ executors' = executors
        \/ executors' = [executors EXCEPT ![worker.generation] = Queued(e)]
        \/ executors' = [executors EXCEPT ![worker.generation] = Granted(Queued(e))]
        \/ executors' = [executors EXCEPT ![worker.generation] = Granted(e)]
        \/ executors' = [executors EXCEPT ![worker.generation] = Released(e)]
    BY DEF LocalTask, TaskStarts, TaskEnters, TaskReturns, TaskLeaves
  <2> QED BY <1>t, <2>1, <2>2, <2>3, <2>4, <2>5 DEF TypeOK
<1>s. SameExecutors BY <1>v, <1>w, SameStore
<1>1. CASE LocalTask
  <2>1. PICK r \in Results : Finish(<<>>, r) BY <1>1 DEF LocalTask, Results
  <2>2. \A g : TaskOf(g) => TaskOf(g)' BY <1>1 DEF LocalTask, At, TaskOf
  <2> QED BY <1>s, <1>w, <2>1, <2>2, WorkerQuiet
<1>2. CASE TaskEnters
  <2>1. worker' = [worker EXCEPT !.at = "holding"] \/ worker' = [worker EXCEPT !.at = "waiting"]
    BY <1>2 DEF TaskEnters, Go
  <2>2. \A g : TaskOf(g) => TaskOf(g)' BY <1>t, <2>1 DEF TaskOf
  <2> QED BY <1>2, <1>s, <1>w, <2>2, WorkerQuiet DEF TaskEnters
<1>3. ASSUME NEW stage \in {"left", "raised"}, TaskLeaves(stage) PROVE SInv'
  <2>1. worker' = [worker EXCEPT !.at = stage] BY <1>3 DEF TaskLeaves, Go
  <2>2. \A g : TaskOf(g) => TaskOf(g)' BY <1>t, <2>1 DEF TaskOf
  <2>3. inbox' = inbox \/ Emit(<<Signal("activity", worker.generation)>>)
    BY <1>3 DEF TaskLeaves
  <2> QED BY <1>s, <1>t, <1>w, <2>2, <2>3, WorkerQuiet
<1>d. (\A g : Dead(g) => Dead(g)') /\ DeadInv' BY <1>s, SameDead DEF SInv
<1>a. Armed(sched)' BY <1>w DEF SInv, Armed
<1>4. CASE TaskStarts
  <2>1. /\ worker' = [worker EXCEPT !.at = "enter", !.generation = store.connection]
        /\ Emit(<<Signal("started", store.connection)>>) /\ worker.at = "start"
    BY <1>4 DEF TaskStarts, At
  <2>2. "started" \in Signals BY DEF Signals
  <2>3. PICK m \in Message : /\ m = Signal("started", store.connection) /\ m.signal = "started"
                             /\ m.generation = store.connection
    BY <1>t, <2>2, SignalIsMessage
  <2>4. inbox' = inbox \o <<m>> BY <2>1, <2>3 DEF Emit
  <2>5. Grown(inbox, inbox', 1) /\ inbox'[Len(inbox) + 1] = m BY <1>t, <2>4, EmitOne
  <2>6. NewNotIn({"opened", "closed"}) /\ NewNotIn({"completed"}) BY <1>t, <2>3, <2>5, NewOne
  <2>7. OpenInv' BY <1>s, <1>w, <2>5, <2>6, OpenGrows DEF SInv
  <2>8. PingInv' BY <1>d, <1>s, <1>w, <2>5, <2>6, PingGrows DEF SInv, SameExecutors
  <2>9. ForegroundInv'
    <3>1. \A s, g : /\ Pending(s, g) => Pending(s, g)'
                    /\ \A i \in 1 .. Len(inbox) : PendingAfter(i, s, g) => PendingAfter(i, s, g)'
      <4>1. 1 \in Nat OBVIOUS
      <4> QED BY <1>t, <2>5, <4>1, GrownPending, Zenon
    <3>2. \A g : ~TaskOf(g) BY <2>1 DEF TaskOf
    <3>3. worker'.generation = store.connection /\ worker'.at = "enter" BY <1>t, <2>1
    <3>4. ASSUME NEW i \in 1 .. Len(inbox') PROVE StartedOK(i)'
      <4>1. CASE i \in 1 .. Len(inbox)
        <5>1. inbox'[i] = inbox[i] /\ StartedOK(i) BY <2>5, <4>1 DEF Grown, SInv, ForegroundInv
        <5> QED BY <3>1, <3>2, <4>1, <5>1 DEF StartedOK
      <4>2. CASE i = Len(inbox) + 1
        BY <2>3, <2>5, <3>3, <4>2 DEF StartedOK, TaskOf
      <4> QED BY <1>t, <2>5, <4>1, <4>2 DEF Grown
    <3>5. (sched.foreground => Pending("finished", sched.active))'
      BY <1>w, <3>1, <3>2 DEF SInv, ForegroundInv
    <3> QED BY <3>4, <3>5 DEF ForegroundInv
  <2> QED BY <1>a, <1>d, <2>7, <2>8, <2>9 DEF SInv
<1>5. CASE TaskReturns
  <2>1. \E r \in {"ok", "ask", "drop", "fatal"} :
             Finish(<<Signal("finished", worker.generation)>>, r)
    BY <1>5 DEF TaskReturns
  <2>2. PICK r \in Results : Finish(<<Signal("finished", worker.generation)>>, r)
    BY <2>1 DEF Results
  <2>3. "finished" \in Signals BY DEF Signals
  <2>4. PICK m \in Message : /\ m = Signal("finished", worker.generation) /\ m.signal = "finished"
                             /\ m.generation = worker.generation
    BY <1>t, <2>3, SignalIsMessage
  <2>5. Finish(<<m>>, r) BY <2>2, <2>4
  <2>6. /\ Grown(inbox, inbox', 2) /\ inbox'[Len(inbox) + 1] = m
        /\ inbox'[Len(inbox) + 2] = Result(r)
    BY <1>t, <2>5, FinishAfter
  <2>7. inbox'[Len(inbox) + 2].signal = "result" BY <2>6 DEF Result
  <2>8. /\ NewNotIn({"opened", "closed"}) /\ NewNotIn({"completed"}) /\ NewNotIn({"started"})
    BY <1>t, <2>4, <2>6, <2>7, NewTwo
  <2>9. OpenInv' BY <1>s, <1>w, <2>6, <2>8, OpenGrows DEF SInv
  <2>10. PingInv' BY <1>d, <1>s, <1>w, <2>6, <2>8, PingGrows DEF SInv, SameExecutors
  <2>11. ForegroundInv'
    <3>1. \A s, g : /\ Pending(s, g) => Pending(s, g)'
                    /\ \A i \in 1 .. Len(inbox) : PendingAfter(i, s, g) => PendingAfter(i, s, g)'
      <4>1. 2 \in Nat OBVIOUS
      <4> QED BY <1>t, <2>6, <4>1, GrownPending, Zenon
    <3>0. PICK w \in Generations : w = worker.generation BY <1>t
    <3>2. /\ Pending("finished", w)'
          /\ \A i \in 1 .. Len(inbox) : PendingAfter(i, "finished", w)'
      BY <1>t, <2>4, <2>6, <3>0, NewPending
    <3>3. \A g : TaskOf(g) => g = w BY <3>0 DEF TaskOf
    <3>4. ASSUME NEW i \in 1 .. Len(inbox') PROVE StartedOK(i)'
      <4>1. CASE i \in 1 .. Len(inbox)
        <5>1. inbox'[i] = inbox[i] /\ StartedOK(i) BY <2>6, <4>1 DEF Grown, SInv, ForegroundInv
        <5> QED BY <3>1, <3>2, <3>3, <4>1, <5>1 DEF StartedOK
      <4>2. CASE ~(i \in 1 .. Len(inbox))
        <5>1. inbox'[i].signal # "started"
          BY <1>t, <2>8, <4>2 DEF NewNotIn
        <5> QED BY <5>1 DEF StartedOK
      <4> QED BY <4>1, <4>2
    <3>5. (sched.foreground => Pending("finished", sched.active))'
      BY <1>w, <3>1, <3>2, <3>3 DEF SInv, ForegroundInv
    <3> QED BY <3>4, <3>5 DEF ForegroundInv
  <2> QED BY <1>a, <1>d, <2>9, <2>10, <2>11 DEF SInv
<1> QED BY <1>1, <1>2, <1>3, <1>4, <1>5

\* A close invalidates the executor and tells the scheduler in one step.
LEMMA CloseSched ==
  ASSUME IInv, UInv, SInv, CloseResource \/ ReleaseExecutor \/ ClearActive
  PROVE  SInv'
<1> USE DEF None
<1>t. /\ TypeOK /\ inbox \in Seq(Message) /\ Len(inbox) \in Nat /\ Published \in Nat
      /\ worker \in [kind: Kinds, at: Stages, generation: Generations]
      /\ backend \in [session: Generations, pending: BOOLEAN, executor: Generations]
      /\ 1 .. Published \subseteq Generations /\ sched.active \in Nat
      /\ \A i \in 1 .. Len(inbox) : inbox[i].generation \in Nat
  BY PublishedType DEF UInv, TypeOK
<1>w. UNCHANGED <<ui, sched, ping>> /\ worker.at \in {"start", "release", "clear"}
  BY DEF CloseResource, ReleaseExecutor, ClearActive
<1>1. CASE CloseResource
  <2>1. /\ worker.at = "start" /\ UNCHANGED <<store, executors>>
        /\ backend'.executor = backend.executor
        /\ inbox' = inbox \/ Finish(<<>>, "pending")
        /\ worker'.at # "publish"
    BY <1>1, <1>t DEF CloseResource, Go, Finish
  <2>2. "pending" \in Results BY DEF Results
  <2>3. \A g : TaskOf(g) => TaskOf(g)' BY <2>1 DEF TaskOf
  <2>4. SameExecutors BY <2>1, SameStore
  <2> QED BY <1>w, <2>1, <2>2, <2>3, <2>4, WorkerQuiet
<1>2. CASE ClearActive
  <2>1. /\ worker.at = "clear" /\ UNCHANGED executors
        /\ backend'.executor = backend.executor
        /\ Finish(<<>>, "ok") /\ worker'.at # "publish" /\ store'.generation = store.generation
    BY <1>2, <1>t DEF ClearActive, Go, Finish, TypeOK
  <2>2. "ok" \in Results BY DEF Results
  <2>3. \A g : TaskOf(g) => TaskOf(g)' BY <2>1 DEF TaskOf
  <2>4. SameExecutors BY <2>1 DEF SameExecutors, Published
  <2> QED BY <1>w, <2>1, <2>2, <2>3, <2>4, WorkerQuiet
<1>3. CASE ReleaseExecutor
  <2>0. PICK x \in Generations : x = backend.executor BY <1>t
  <2>1. /\ worker.at = "release" /\ UNCHANGED store
        /\ backend'.executor = None /\ worker'.at = "clear"
    BY <1>3, <1>t DEF ReleaseExecutor, Go
  <2>2. \A g : ~TaskOf(g) BY <2>1 DEF TaskOf
  <2>3. Published' = Published BY <2>1 DEF Published
  <2>4. CASE backend.executor = None
    <3>1. UNCHANGED <<executors, inbox>> BY <1>3, <2>4 DEF ReleaseExecutor
    <3>2. SameExecutors BY <2>1, <2>3, <2>4, <3>1 DEF SameExecutors
    <3> QED BY <1>w, <2>2, <3>1, <3>2, WorkerQuiet
  <2>5. CASE backend.executor # None
    <3>1. /\ x = Published /\ x \in 1 .. Published /\ executors[x].valid
      BY <2>0, <2>5, PublishedType
    <3>2. /\ executors' = [executors EXCEPT ![x] = Invalidated(executors[x])]
          /\ inbox' = inbox \o <<Signal("closed", x)>>
      BY <1>3, <2>0, <2>5, <3>1 DEF ReleaseExecutor, Emit
    <3>3. "closed" \in Signals BY DEF Signals
    <3>4. PICK m \in Message : m = Signal("closed", x) /\ m.signal = "closed" /\ m.generation = x
      BY <3>3, SignalIsMessage
    <3>5. Grown(inbox, inbox', 1) /\ inbox'[Len(inbox) + 1] = m BY <1>t, <3>2, <3>4, EmitOne
    <3>6. /\ ~executors'[x].valid
          /\ \A g \in 1 .. Published : g # x => executors'[g] = executors[g]
      <4>1. executors[x] \in ExecutorStates(Generations) BY <1>t DEF TypeOK
      <4>2. ~Invalidated(executors[x]).valid BY <4>1 DEF Invalidated, ExecutorStates
      <4> QED BY <1>t, <3>2, <4>2 DEF TypeOK
    <3>7. \A g \in 1 .. Published : ~executors'[g].valid
      BY <2>0, <3>6 DEF SInv, DeadInv
    <3>8. (\A g : Dead(g) => Dead(g)') /\ DeadInv' /\ Dead(x)'
      BY <2>3, <3>1, <3>7 DEF Dead, DeadInv
    <3>9. NewNotIn({"completed"}) /\ NewNotIn({"started"}) /\ NewNotIn({"opened"})
      BY <1>t, <3>4, <3>5, NewOne
    <3>10. PingInv' BY <1>w, <2>3, <3>5, <3>8, <3>9, PingGrows DEF SInv
    <3>11. ForegroundInv' BY <1>w, <2>2, <3>5, <3>9, ForegroundGrows DEF SInv
    <3>12. \A s, g : /\ Pending(s, g) => Pending(s, g)'
                     /\ \A i \in 1 .. Len(inbox) : PendingAfter(i, s, g) => PendingAfter(i, s, g)'
      <4>1. 1 \in Nat OBVIOUS
      <4> QED BY <1>t, <3>5, <4>1, GrownPending, Zenon
    <3>13. /\ Pending("closed", x)'
           /\ \A i \in 1 .. Len(inbox) : PendingAfter(i, "closed", x)'
      BY <1>t, <3>4, <3>5, NewPending
    <3>14. ASSUME NEW i \in 1 .. Len(inbox') PROVE (ClosedOK(i) /\ OpenedOK(i))'
      <4>1. CASE i \in 1 .. Len(inbox)
        <5>1. ClosedOK(i) /\ OpenedOK(i) /\ inbox'[i] = inbox[i]
          BY <3>5, <4>1 DEF Grown, SInv, OpenInv
        <5>2. ClosedOK(i)' BY <3>8, <5>1 DEF ClosedOK
        <5>3. PICK h \in Nat : h = inbox[i].generation BY <1>t, <4>1
        <5>4. ASSUME inbox[i].signal = "opened" PROVE PendingAfter(i, "closed", h)'
          BY <2>0, <3>12, <3>13, <4>1, <5>1, <5>3, <5>4 DEF OpenedOK
        <5>5. ASSUME inbox[i].signal = "opened",
                     NEW j \in i + 1 .. Len(inbox'), inbox'[j].signal = "opened"
              PROVE  inbox[i].generation < inbox'[j].generation
          <6>1. j \in 1 .. Len(inbox') /\ ~(j > Len(inbox))
            BY <1>t, <3>5, <3>9, <4>1, <5>5 DEF Grown, NewNotIn
          <6>2. j \in i + 1 .. Len(inbox) /\ j \in 1 .. Len(inbox) BY <1>t, <4>1, <6>1
          <6>3. inbox'[j] = inbox[j] BY <3>5, <6>2 DEF Grown
          <6> QED BY <5>1, <5>5, <6>2, <6>3 DEF OpenedOK
        <5>6. OpenedOK(i)' BY <1>w, <2>3, <5>1, <5>3, <5>4, <5>5 DEF OpenedOK
        <5> QED BY <5>2, <5>6
      <4>2. CASE i = Len(inbox) + 1 BY <3>4, <3>5, <3>8, <4>2 DEF ClosedOK, OpenedOK
      <4> QED BY <1>t, <3>5, <4>1, <4>2 DEF Grown
    <3>15. (sched.active # None => Pending("closed", sched.active))'
      BY <1>w, <2>0, <3>12, <3>13 DEF SInv, OpenInv
    <3>16. OpenInv' BY <1>w, <2>1, <2>3, <3>14, <3>15 DEF SInv, OpenInv
    <3>17. Armed(sched)' BY <1>w DEF SInv, Armed
    <3> QED BY <3>8, <3>10, <3>11, <3>16, <3>17 DEF SInv
  <2> QED BY <2>4, <2>5
<1> QED BY <1>1, <1>2, <1>3


\* The timer hands over a PING only when none is under way.
LEMMA TimeoutSched == ASSUME IInv, UInv, SInv, Timeout PROVE SInv'
<1> USE DEF None
<1>t. /\ TypeOK /\ inbox \in Seq(Message) /\ Len(inbox) \in Nat /\ Published \in Nat
      /\ sched \in SchedulerStates(Generations) /\ sched.active \in Nat
  BY PublishedType DEF UInv, TypeOK
<1>1. /\ UNCHANGED <<ui, worker, backend, store, executors, inbox>>
      /\ sched' = OnTimeout(sched)
  BY DEF Timeout
<1>2. SameExecutors BY <1>1 DEF SameExecutors, Published
<1>3. (\A g : Dead(g) => Dead(g)') /\ DeadInv' BY <1>2, SameDead DEF SInv
<1>4. /\ sched'.active = sched.active /\ sched'.shutdown = sched.shutdown
      /\ sched'.foreground = sched.foreground /\ sched'.enabled = sched.enabled
      /\ ~sched'.timer /\ sched'.inflight = IF CanSubmit(sched) THEN sched.active ELSE sched.inflight
  BY <1>1, <1>t DEF OnTimeout, SchedulerStates
<1>n. Grown(inbox, inbox', 0) /\ \A S : NewNotIn(S) BY <1>1, <1>t, NewNone
<1>5. OpenInv' BY <1>1, <1>2, <1>4, <1>n, OpenGrows DEF SInv
<1>6. ForegroundInv'
  <2>1. \A g : TaskOf(g) => TaskOf(g)' BY <1>1 DEF TaskOf
  <2> QED BY <1>4, <1>n, <2>1, ForegroundGrows DEF SInv
<1>7. Armed(sched)' BY <1>4, <1>t DEF Armed, CanSubmit, SchedulerStates
<1>8. CASE ~CanSubmit(sched)
  <2>1. ping' = ping /\ sched'.inflight = sched.inflight BY <1>4, <1>8 DEF Timeout
  <2>2. PingInv' BY <1>2, <1>3, <1>n, <2>1, PingGrows DEF SInv, SameExecutors
  <2> QED BY <1>3, <1>5, <1>6, <1>7, <2>2 DEF SInv
<1>9. CASE CanSubmit(sched)
  <2>1. /\ ping' = [at |-> "submitted", generation |-> sched.active, executor |-> None,
                    result |-> "none"]
    BY <1>9 DEF Timeout, NoPing
  <2>2. /\ sched.inflight = None /\ sched.active # None /\ sched'.inflight = sched.active
    BY <1>4, <1>9 DEF CanSubmit
  <2>3. \A i \in 1 .. Len(inbox) : inbox[i].signal # "completed"
    BY <2>2 DEF SInv, PingInv, CompletedOK
  <2>4. sched.active \in 1 .. Published BY <1>t, <2>2 DEF SInv, OpenInv
  <2>5. PingInv' BY <1>1, <1>2, <2>1, <2>2, <2>3, <2>4 DEF PingInv, CompletedOK, SameExecutors
  <2> QED BY <1>3, <1>5, <1>6, <1>7, <2>5 DEF SInv
<1> QED BY <1>8, <1>9

\* The PING is refused only by an executor that is over.
LEMMA PingSched == ASSUME IInv, UInv, SInv, PingSteps PROVE SInv'
<1> USE DEF None
<1>t. /\ TypeOK /\ inbox \in Seq(Message) /\ Len(inbox) \in Nat /\ Published \in Nat
      /\ ping.generation \in Generations /\ ping.executor \in Generations
      /\ ping.result \in Results
      /\ ping \in [at: {"idle", "submitted", "captured", "running", "answered", "reported"},
                   generation: Generations, executor: Generations, result: Results]
  BY PublishedType DEF UInv, TypeOK
<1>s. /\ UNCHANGED <<ui, worker, backend, sched>>
      /\ store'.generation = store.generation
      /\ ping.at # "idle"
  <2>1. CASE PingReports
    <3>1. store' = HealthApplied(ping.generation, ping.result, ping.executor)
      BY <2>1 DEF PingReports
    <3>2. store'.generation = store.generation BY <1>t, <3>1 DEF HealthApplied, TypeOK
    <3> QED BY <2>1, <3>2 DEF PingReports
  <2> QED BY <2>1 DEF PingSteps, PingCaptures, PingEnters, PingAnswers, PingReturns
<1>v. ASSUME NEW g \in Generations PROVE executors'[g].valid = executors[g].valid
  <2> DEFINE e == executors[ping.executor]
  <2>e. e \in ExecutorStates(Generations) BY <1>t DEF TypeOK
  <2>1. Released(e).valid = e.valid /\ MaintenanceGranted(e).valid = e.valid
    BY <2>e DEF Released, MaintenanceGranted, ExecutorStates
  <2>2. \/ executors' = executors
        \/ executors' = [executors EXCEPT ![ping.executor] = Released(e)]
        \/ executors' = [executors EXCEPT ![ping.executor] = MaintenanceGranted(e)]
    BY DEF PingSteps, PingCaptures, PingEnters, PingAnswers, PingReturns, PingReports
  <2> QED BY <1>t, <2>e, <2>1, <2>2 DEF TypeOK
<1>2. SameExecutors BY <1>s, <1>v DEF SameExecutors, Published
<1>3. (\A g : Dead(g) => Dead(g)') /\ DeadInv' BY <1>2, SameDead DEF SInv
<1>4. \A g : TaskOf(g) => TaskOf(g)' BY <1>s DEF TaskOf
<1>5. Armed(sched)' BY <1>s DEF SInv, Armed
<1>p. /\ sched.inflight = ping.generation /\ ping.generation \in 1 .. Published
      /\ \A i \in 1 .. Len(inbox) : inbox[i].signal # "completed"
  BY <1>s DEF SInv, PingInv
\* The PING moves on, and tells at most of its activity.
<1>6. ASSUME NEW k \in 0 .. 1, Grown(inbox, inbox', k),
             NewNotIn({"opened", "closed", "completed", "started"}),
             ping'.generation = ping.generation, ping'.at # "idle",
             ping'.at = "captured" => ping'.executor = ping.generation \/ Dead(ping.generation),
             ping'.at = "reported" /\ ping'.result \in {"closed", "stale"} => Dead(ping.generation)
      PROVE  SInv'
  <2>1. /\ NewNotIn({"opened", "closed"}) /\ NewNotIn({"completed"}) /\ NewNotIn({"started"})
        /\ k \in 0 .. 2
    BY <1>6 DEF NewNotIn
  <2>2. OpenInv' BY <1>2, <1>6, <1>s, <2>1, OpenGrows DEF SInv
  <2>3. ForegroundInv' BY <1>4, <1>6, <1>s, <2>1, ForegroundGrows DEF SInv
  <2>4. \A i \in 1 .. Len(inbox') : inbox'[i].signal # "completed"
    BY <1>6, <1>p, <1>t, <2>1 DEF NewNotIn, Grown
  <2>5. PICK g \in Generations : g = ping.generation BY <1>t
  <2>6. Dead(g) => Dead(g)' BY <1>3
  <2>7. PingInv' BY <1>2, <1>6, <1>p, <1>s, <2>4, <2>5, <2>6 DEF PingInv, CompletedOK, SameExecutors
  <2> QED BY <1>3, <1>5, <2>2, <2>3, <2>7 DEF SInv
<1>n. ASSUME inbox' = inbox
      PROVE  Grown(inbox, inbox', 0) /\ NewNotIn({"opened", "closed", "completed", "started"})
  BY <1>n, <1>t, NewNone
<1>7. CASE PingCaptures
  <2>1. inbox' = inbox BY <1>7 DEF PingCaptures
  <2>2. ping.generation # backend.executor => Dead(ping.generation)
    BY <1>p DEF SInv, DeadInv, Dead
  <2>3. CASE backend.executor = None
    <3>1. ping' = [ping EXCEPT !.at = "reported", !.result = "closed"]
      BY <1>7, <2>3 DEF PingCaptures
    <3>2. ping'.generation = ping.generation /\ ping'.at = "reported" BY <1>t, <3>1
    <3>3. Dead(ping.generation) BY <1>p, <1>t, <2>2, <2>3
    <3> QED BY <1>6, <1>n, <2>1, <3>2, <3>3
  <2>4. CASE backend.executor # None
    <3>1. ping' = [ping EXCEPT !.at = "captured", !.executor = backend.executor]
      BY <1>7, <2>4 DEF PingCaptures
    <3>2. /\ ping'.generation = ping.generation /\ ping'.at = "captured"
          /\ ping'.executor = backend.executor
      BY <1>t, <3>1
    <3> QED BY <1>6, <1>n, <2>1, <2>2, <3>2
  <2> QED BY <2>3, <2>4
<1>8. CASE PingEnters
  <2>1. inbox' = inbox /\ ping.at = "captured" BY <1>8 DEF PingEnters
  <2>2. ping.executor = ping.generation \/ Dead(ping.generation)
    BY <2>1 DEF SInv, PingInv
  <2> DEFINE e == executors[ping.executor]
             status == MaintenanceStatus(e, ping.generation)
  <2>3. CASE status # "run"
    <3>1. ping' = [ping EXCEPT !.at = "reported", !.result = status]
      BY <1>8, <2>3 DEF PingEnters
    <3>2. ping'.generation = ping.generation /\ ping'.at = "reported" /\ ping'.result = status
      BY <1>t, <3>1
    <3>3. e.generation = ping.executor BY <1>t DEF IInv, GenerationInv
    <3>4. status \in {"closed", "stale"} => Dead(ping.generation)
      BY <1>p, <2>2, <3>3 DEF MaintenanceStatus, Unavailable, Dead
    <3> QED BY <1>6, <1>n, <2>1, <3>2, <3>4
  <2>4. CASE status = "run"
    <3>1. ping' = [ping EXCEPT !.at = "running"] BY <1>8, <2>4 DEF PingEnters
    <3>2. ping'.generation = ping.generation /\ ping'.at = "running" BY <1>t, <3>1
    <3> QED BY <1>6, <1>n, <2>1, <3>2
  <2> QED BY <2>3, <2>4
<1>9. ASSUME NEW h \in {"HEALTHY", "UNHEALTHY"}, PingAnswers(h) PROVE SInv'
  <2>1. inbox' = inbox /\ ping' = [ping EXCEPT !.at = "answered", !.result = h]
    BY <1>9 DEF PingAnswers
  <2>2. ping'.generation = ping.generation /\ ping'.at = "answered" BY <1>t, <2>1
  <2> QED BY <1>6, <1>n, <2>1, <2>2
<1>10. CASE PingReports
  <2>1. /\ ping.at = "answered" /\ ping' = [ping EXCEPT !.at = "reported"]
        /\ inbox' = inbox \/ inbox' = inbox \o <<Signal("activity", ping.generation)>>
    BY <1>10 DEF PingReports, Emit
  <2>2. /\ ping'.generation = ping.generation /\ ping'.at = "reported"
        /\ ping'.result \notin {"closed", "stale"}
    BY <1>t, <2>1 DEF IInv, LeaseInv
  <2>3. "activity" \in Signals BY DEF Signals
  <2>4. PICK m \in Message : m = Signal("activity", ping.generation) /\ m.signal = "activity"
    BY <1>t, <2>3, SignalIsMessage
  <2>5. CASE inbox' = inbox \o <<m>>
    <3>1. Grown(inbox, inbox', 1) /\ inbox'[Len(inbox) + 1].signal = "activity"
      BY <1>t, <2>4, <2>5, EmitOne
    <3>2. NewNotIn({"opened", "closed", "completed", "started"}) BY <1>t, <3>1, NewOne
    <3> QED BY <1>6, <2>2, <3>1, <3>2
  <2>6. CASE inbox' = inbox BY <1>6, <1>n, <2>2, <2>6
  <2> QED BY <2>1, <2>4, <2>5, <2>6
<1>11. CASE PingReturns
  <2>0. PICK g \in Generations : g = ping.generation BY <1>t
  <2>r. PICK r \in Results : r = ping.result BY <1>t
  <2>1. /\ ping.at = "reported" /\ ping' = NoPing
        /\ inbox' = inbox \o <<[Signal("completed", g) EXCEPT !.result = r]>>
    BY <1>11, <2>0, <2>r DEF PingReturns, Emit
  <2>2. "completed" \in Signals BY DEF Signals
  <2>3. PICK m \in Message : /\ m.signal = "completed" /\ m.generation = g /\ m.result = r
                             /\ inbox' = inbox \o <<m>>
    <3>1. /\ [Signal("completed", g) EXCEPT !.result = r] \in Message
          /\ [Signal("completed", g) EXCEPT !.result = r].signal = "completed"
          /\ [Signal("completed", g) EXCEPT !.result = r].generation = g
          /\ [Signal("completed", g) EXCEPT !.result = r].result = r
      BY <2>2, SignalIsMessage
    <3> QED BY <2>1, <3>1, Zenon
  <2>4. Grown(inbox, inbox', 1) /\ inbox'[Len(inbox) + 1] = m
    BY <1>t, <2>3, EmitOne
  <2>5. NewNotIn({"opened", "closed"}) /\ NewNotIn({"started"}) BY <1>t, <2>3, <2>4, NewOne
  <2>6. OpenInv' BY <1>2, <1>s, <2>4, <2>5, OpenGrows DEF SInv
  <2>7. ForegroundInv' BY <1>4, <1>s, <2>4, <2>5, ForegroundGrows DEF SInv
  <2>8. Pending("completed", g)' BY <1>t, <2>3, <2>4, NewPending
  <2>9. r \in {"closed", "stale"} => Dead(g)'
    BY <1>3, <2>0, <2>1, <2>r DEF SInv, PingInv
  <2>10. g # 0 /\ sched.inflight = g BY <1>p, <1>t, <2>0
  <2>11. \A i \in 1 .. Len(inbox') : inbox'[i].signal = "completed" => i = Len(inbox) + 1
    BY <1>p, <1>t, <2>4 DEF Grown
  <2>12. ASSUME NEW i \in 1 .. Len(inbox') PROVE CompletedOK(i)'
    BY <1>s, <2>3, <2>4, <2>9, <2>10, <2>11 DEF CompletedOK
  <2>13. ping'.at = "idle" BY <2>1 DEF NoPing
  <2>14. PingInv' BY <1>s, <2>1, <2>8, <2>10, <2>12, <2>13 DEF PingInv, NoPing
  <2> QED BY <1>3, <1>5, <2>6, <2>7, <2>14 DEF SInv
<1> QED BY <1>7, <1>8, <1>9, <1>10, <1>11 DEF PingSteps


\* What a slot may do to the generation the scheduler serves, and that it keeps
\* the timer armed.
LEMMA SlotEffects ==
  ASSUME sched \in SchedulerStates(Generations), ~sched.shutdown, Armed(sched), NEW m \in Message,
         m.signal # "result"
  PROVE  LET s == Slot(m)  a == sched.active IN
         /\ Armed(s) /\ ~s.shutdown
         /\ s.inflight = IF m.signal = "completed" /\ sched.inflight = m.generation
                         THEN None ELSE sched.inflight
         /\ \/ m.signal = "opened" /\ s.active = m.generation
            \/ m.signal = "closed" /\ m.generation = a /\ s.active = None
            \/ /\ m.signal = "completed" /\ m.generation = a /\ m.result \in {"closed", "stale"}
               /\ s.active = None
            \/ /\ m.signal # "opened" /\ s.active = a
               /\ m.signal = "closed" => m.generation # a
         /\ \/ ~s.foreground
            \/ m.signal = "started" /\ m.generation = a /\ s.active = a
            \/ /\ sched.foreground /\ s.active = a
               /\ m.signal = "finished" => m.generation # a
<1> USE DEF None
<1>r. ASSUME NEW s \in SchedulerStates(Generations)
      PROVE  /\ Armed(RestartTimerIfIdle(s))
             /\ RestartTimerIfIdle(s).active = s.active
             /\ RestartTimerIfIdle(s).shutdown = s.shutdown
             /\ RestartTimerIfIdle(s).inflight = s.inflight
             /\ RestartTimerIfIdle(s).foreground = s.foreground
  BY DEF RestartTimerIfIdle, SchedulerStates, Armed
<1>g. 0 \in Generations /\ m.generation \in Generations
  BY MaxGenerationAssumption DEF Generations, Message
<1>1. CASE m.signal = "opened"
  <2> DEFINE s == [sched EXCEPT !.timer = FALSE, !.active = m.generation, !.foreground = FALSE]
  <2>1. /\ s \in SchedulerStates(Generations)
        /\ s.active = m.generation /\ ~s.foreground /\ s.inflight = sched.inflight
        /\ s.shutdown = sched.shutdown
    BY <1>g DEF SchedulerStates
  <2>2. Slot(m) = RestartTimerIfIdle(s) BY <1>1, <2>1 DEF Slot, OnConnectionOpened
  <2> QED BY <1>1, <1>r, <2>1, <2>2
<1>2. CASE m.signal = "started"
  <2>1. Slot(m) = OnForegroundStarted(sched, m.generation) BY <1>2 DEF Slot
  <2> QED BY <1>2, <2>1 DEF OnForegroundStarted, SchedulerStates, Armed
<1>3. CASE m.signal = "finished"
  <2>1. Slot(m) = OnForegroundFinished(sched, m.generation) BY <1>3 DEF Slot
  <2> DEFINE s == [sched EXCEPT !.foreground = FALSE]
  <2>2. /\ s \in SchedulerStates(Generations)
        /\ s.active = sched.active /\ ~s.foreground /\ s.inflight = sched.inflight
        /\ s.shutdown = sched.shutdown
    BY <1>g DEF SchedulerStates
  <2>3. CASE m.generation # sched.active
    <3>1. Slot(m) = sched BY <2>1, <2>3 DEF OnForegroundFinished
    <3> QED BY <1>3, <2>3, <3>1
  <2>4. CASE m.generation = sched.active
    <3>1. Slot(m) = RestartTimerIfIdle(s) BY <2>1, <2>2, <2>4 DEF OnForegroundFinished
    <3> QED BY <1>3, <1>r, <2>2, <3>1
  <2> QED BY <2>3, <2>4
<1>4. CASE m.signal = "activity"
  <2>1. Slot(m) = OnProtocolActivity(sched, m.generation) BY <1>4 DEF Slot
  <2> DEFINE s == [sched EXCEPT !.timer = FALSE]
  <2>2. /\ s \in SchedulerStates(Generations)
        /\ s.active = sched.active /\ s.foreground = sched.foreground
        /\ s.inflight = sched.inflight /\ s.shutdown = sched.shutdown
    BY <1>g DEF SchedulerStates
  <2>3. Slot(m) = sched \/ Slot(m) = RestartTimerIfIdle(s) BY <2>1, <2>2 DEF OnProtocolActivity
  <2> QED BY <1>4, <1>r, <2>2, <2>3
<1>5. CASE m.signal = "closed"
  <2>1. Slot(m) = OnConnectionClosed(sched, m.generation) BY <1>5 DEF Slot
  <2> QED BY <1>5, <2>1 DEF OnConnectionClosed, Forgotten, SchedulerStates, Armed
<1>6. CASE m.signal = "auto_ping"
  <2>1. Slot(m) = OnAutoPing(sched, m.result = "on") BY <1>6 DEF Slot
  <2> DEFINE s == [sched EXCEPT !.enabled = TRUE]
  <2>2. /\ s \in SchedulerStates(Generations)
        /\ s.active = sched.active /\ s.foreground = sched.foreground
        /\ s.inflight = sched.inflight /\ s.shutdown = sched.shutdown
    BY <1>g DEF SchedulerStates
  <2>3. \/ Slot(m) = RestartTimerIfIdle(s)
        \/ Slot(m) = [sched EXCEPT !.enabled = FALSE, !.timer = FALSE]
    BY <2>1, <2>2 DEF OnAutoPing
  <2>4. CASE Slot(m) = RestartTimerIfIdle(s) BY <1>6, <1>r, <2>2, <2>4
  <2>5. CASE Slot(m) = [sched EXCEPT !.enabled = FALSE, !.timer = FALSE]
    BY <1>6, <2>5 DEF SchedulerStates, Armed
  <2> QED BY <2>3, <2>4, <2>5
<1>7. CASE m.signal = "completed"
  <2>1. Slot(m) = OnPingCompleted(sched, m.generation, m.result) BY <1>7 DEF Slot
  <2> DEFINE s == IF sched.inflight = m.generation THEN [sched EXCEPT !.inflight = None] ELSE sched
  <2>2. /\ s \in SchedulerStates(Generations)
        /\ s.active = sched.active /\ s.foreground = sched.foreground
        /\ s.inflight = IF sched.inflight = m.generation THEN None ELSE sched.inflight
        /\ s.shutdown = sched.shutdown
    BY <1>g DEF SchedulerStates
  <2>3. CASE m.generation = sched.active /\ m.result \in {"closed", "stale"}
    <3>1. Slot(m) = Forgotten(s) BY <2>1, <2>2, <2>3 DEF OnPingCompleted
    <3> QED BY <1>7, <2>2, <2>3, <3>1 DEF Forgotten, SchedulerStates, Armed
  <2>4. CASE ~(m.generation = sched.active /\ m.result \in {"closed", "stale"})
    <3>1. Slot(m) = RestartTimerIfIdle(s) BY <2>1, <2>2, <2>4 DEF OnPingCompleted
    <3> HIDE DEF s
    <3>2. /\ Armed(Slot(m)) /\ Slot(m).active = sched.active /\ ~Slot(m).shutdown
          /\ Slot(m).inflight = s.inflight /\ Slot(m).foreground = sched.foreground
      BY <1>r, <2>2, <3>1
    <3> QED BY <1>7, <2>2, <2>4, <3>2
  <2> QED BY <2>3, <2>4
<1> QED BY <1>1, <1>2, <1>3, <1>4, <1>5, <1>6, <1>7 DEF Message, Signals

\* Taking a signal off the queue when the scheduler heeds it.
LEMMA OpenTail ==
  ASSUME UInv, OpenInv, DeadInv, SameExecutors, inbox # <<>>, inbox' = Tail(inbox), ~sched.shutdown,
         sched'.shutdown => ui'.state = "EXITED" /\ ui'.asks = "nothing",
         \/ inbox[1].signal = "opened" /\ sched'.active = inbox[1].generation
         \/ /\ inbox[1].signal # "opened" /\ sched'.active = None
            /\ sched'.shutdown \/ sched.active = None \/ Dead(sched.active)
         \/ /\ inbox[1].signal # "opened" /\ sched'.active = sched.active
            /\ inbox[1].signal = "closed" => inbox[1].generation # sched.active
  PROVE  OpenInv'
<1> USE DEF None
<1>t. /\ inbox \in Seq(Message) /\ Len(inbox) \in Nat /\ Published \in Nat
      /\ sched.active \in Nat /\ \A i \in 1 .. Len(inbox) : inbox[i].generation \in Nat
      /\ backend.executor # None => /\ backend.executor = Published
                                    /\ backend.executor \in 1 .. Published
                                    /\ executors[backend.executor].valid
  BY PublishedType
<1>h. /\ Len(inbox) >= 1 /\ Len(inbox') = Len(inbox) - 1 /\ 1 \in 1 .. Len(inbox)
      /\ \A i \in 1 .. Len(inbox') : inbox'[i] = inbox[i + 1] /\ i + 1 \in 2 .. Len(inbox)
  <2>1. /\ Len(inbox) >= 1 /\ Len(inbox') = Len(inbox) - 1
        /\ \A i \in 1 .. Len(inbox) - 1 : inbox'[i] = inbox[i + 1]
    BY <1>t, TakeOne
  <2> QED BY <1>t, <2>1
<1>p. \A s, g :
        /\ Pending(s, g) => (inbox[1].signal = s /\ inbox[1].generation = g) \/ Pending(s, g)'
        /\ PendingAfter(1, s, g) => Pending(s, g)'
        /\ \A i \in 1 .. Len(inbox') : PendingAfter(i + 1, s, g) => PendingAfter(i, s, g)'
  BY <1>t, TailPending
<1>d. \A g : Dead(g) => Dead(g)' BY SameDead
<1>o. \A i \in 1 .. Len(inbox) : ClosedOK(i) /\ OpenedOK(i) BY DEF OpenInv
<1>x. backend.executor # None => ~Dead(backend.executor) BY <1>t DEF Dead
<1>1. ASSUME NEW i \in 1 .. Len(inbox'), inbox'[i].signal = "opened"
      PROVE  sched'.active < inbox'[i].generation
  <2>1. /\ i + 1 \in 1 .. Len(inbox) /\ i + 1 \in 1 + 1 .. Len(inbox)
        /\ inbox'[i] = inbox[i + 1] /\ inbox[i + 1].signal = "opened"
    BY <1>1, <1>h
  <2>2. sched.active < inbox[i + 1].generation /\ inbox[i + 1].generation \in 1 .. Published
    BY <1>o, <2>1 DEF OpenedOK
  <2>3. CASE inbox[1].signal = "opened" /\ sched'.active = inbox[1].generation
    BY <1>h, <1>o, <2>1, <2>3 DEF OpenedOK
  <2>4. CASE sched'.active = None BY <1>t, <2>1, <2>2, <2>4
  <2>5. CASE sched'.active = sched.active BY <2>1, <2>2, <2>5
  <2> QED BY <2>3, <2>4, <2>5
<1>2. ASSUME NEW i \in 1 .. Len(inbox') PROVE (ClosedOK(i) /\ OpenedOK(i))'
  <2>1. i + 1 \in 1 .. Len(inbox) /\ inbox'[i] = inbox[i + 1] BY <1>h, <1>t
  <2>2. ClosedOK(i + 1) /\ OpenedOK(i + 1) BY <1>o, <2>1
  <2>3. ClosedOK(i)' BY <1>d, <2>1, <2>2 DEF ClosedOK
  <2>4. PICK h \in Nat : h = inbox[i + 1].generation BY <1>t, <2>1
  <2>5. ASSUME inbox'[i].signal = "opened"
        PROVE  h = backend.executor \/ PendingAfter(i, "closed", h)'
    BY <1>p, <2>1, <2>2, <2>4, <2>5 DEF OpenedOK
  <2>6. ASSUME inbox'[i].signal = "opened", NEW j \in i + 1 .. Len(inbox'),
               inbox'[j].signal = "opened"
        PROVE  inbox'[i].generation < inbox'[j].generation
    <3>1. j \in 1 .. Len(inbox') /\ j + 1 \in (i + 1) + 1 .. Len(inbox) BY <1>h, <1>t
    <3>2. inbox'[j] = inbox[j + 1] BY <1>h, <3>1
    <3> QED BY <2>1, <2>2, <2>6, <3>1, <3>2 DEF OpenedOK
  <2>7. OpenedOK(i)' BY <1>1, <2>1, <2>2, <2>4, <2>5, <2>6 DEF OpenedOK, SameExecutors
  <2> QED BY <2>3, <2>7
<1>3. (sched.active <= Published)'
  BY <1>h, <1>o, <1>t DEF OpenInv, OpenedOK, SameExecutors
<1>a. PICK a \in Nat : a = sched'.active BY <1>h, <1>t
<1>4. a # None => a = backend.executor \/ Pending("closed", a)'
  <2>1. CASE inbox[1].signal = "opened" /\ sched'.active = inbox[1].generation
    BY <1>a, <1>h, <1>o, <1>p, <2>1 DEF OpenedOK
  <2>2. CASE sched'.active = None BY <1>a, <2>2
  <2>3. CASE /\ inbox[1].signal # "opened" /\ sched'.active = sched.active
             /\ inbox[1].signal = "closed" => inbox[1].generation # sched.active
    BY <1>a, <1>p, <2>3 DEF OpenInv
  <2> QED BY <2>1, <2>2, <2>3
<1>b. PICK x \in Generations : x = backend.executor BY DEF UInv, TypeOK
<1>5. x # None => sched'.shutdown \/ a = x \/ Pending("opened", x)'
  <2> SUFFICES ASSUME x # None, ~sched'.shutdown PROVE a = x \/ Pending("opened", x)'
    OBVIOUS
  <2>0. sched.active = x \/ Pending("opened", x) BY <1>b DEF OpenInv
  <2>1. CASE inbox[1].signal = "opened" /\ sched'.active = inbox[1].generation
    <3>1. /\ inbox[1].generation \in 1 .. Published /\ sched.active < inbox[1].generation
      BY <1>h, <1>o, <2>1 DEF OpenedOK
    <3>2. x = Published BY <1>b, <1>t
    <3>3. sched.active # x BY <1>t, <3>1, <3>2
    <3> QED BY <1>a, <1>p, <2>0, <2>1, <3>3
  <2>2. CASE /\ inbox[1].signal # "opened" /\ sched'.active = None
             /\ sched'.shutdown \/ sched.active = None \/ Dead(sched.active)
    <3>1. sched.active # x BY <1>b, <1>x, <2>2
    <3> QED BY <1>p, <2>0, <2>2, <3>1
  <2>3. CASE inbox[1].signal # "opened" /\ sched'.active = sched.active
    BY <1>a, <1>p, <2>0, <2>3
  <2> QED BY <2>1, <2>2, <2>3
<1>6. backend'.executor = x BY <1>b DEF SameExecutors
<1> QED BY <1>2, <1>3, <1>4, <1>5, <1>6, <1>a, <1>b DEF OpenInv

\* The same for a completion.
LEMMA PingTail ==
  ASSUME UInv, PingInv, SameExecutors, inbox # <<>>, inbox' = Tail(inbox), ping' = ping,
         sched'.inflight = IF inbox[1].signal = "completed" /\ sched.inflight = inbox[1].generation
                           THEN None ELSE sched.inflight
  PROVE  PingInv'
<1> USE DEF None
<1>t. /\ inbox \in Seq(Message) /\ Len(inbox) \in Nat /\ Published \in Nat BY PublishedType
<1>h. /\ Len(inbox) >= 1 /\ Len(inbox') = Len(inbox) - 1 /\ 1 \in 1 .. Len(inbox)
      /\ \A i \in 1 .. Len(inbox') :
           inbox'[i] = inbox[i + 1] /\ i + 1 \in 1 .. Len(inbox) /\ i + 1 # 1
  <2>1. /\ Len(inbox) >= 1 /\ Len(inbox') = Len(inbox) - 1
        /\ \A i \in 1 .. Len(inbox) - 1 : inbox'[i] = inbox[i + 1]
    BY <1>t, TakeOne
  <2> QED BY <1>t, <2>1
<1>p. \A s, g :
        Pending(s, g) => (inbox[1].signal = s /\ inbox[1].generation = g) \/ Pending(s, g)'
  BY <1>t, TailPending
<1>d. \A g : Dead(g) => Dead(g)' BY SameDead
<1>1. CASE inbox[1].signal = "completed"
  <2>1. /\ sched.inflight = inbox[1].generation
        /\ \A j \in 1 .. Len(inbox) : inbox[j].signal = "completed" => j = 1
    BY <1>1, <1>h DEF PingInv, CompletedOK
  <2>2. \A i \in 1 .. Len(inbox') : inbox'[i].signal # "completed" BY <1>h, <2>1
  <2>3. ping.at = "idle" BY <1>1, <1>h DEF PingInv
  <2>4. sched'.inflight = None BY <1>1, <2>1
  <2> QED BY <2>2, <2>3, <2>4 DEF PingInv, CompletedOK, NoPing
<1>2. CASE inbox[1].signal # "completed"
  <2>1. sched'.inflight = sched.inflight BY <1>2
  <2>2. ASSUME NEW i \in 1 .. Len(inbox') PROVE CompletedOK(i)'
    <3>1. /\ inbox'[i] = inbox[i + 1] /\ i + 1 \in 1 .. Len(inbox) /\ CompletedOK(i + 1)
      BY <1>h DEF PingInv
    <3>2. ASSUME inbox'[i].signal = "completed", NEW j \in 1 .. Len(inbox'),
                 inbox'[j].signal = "completed"
          PROVE  j = i
      <4>1. inbox'[j] = inbox[j + 1] /\ j + 1 \in 1 .. Len(inbox) BY <1>h
      <4>2. j + 1 = i + 1 BY <3>1, <3>2, <4>1 DEF CompletedOK
      <4> QED BY <4>2
    <3> QED BY <1>d, <2>1, <3>1, <3>2 DEF CompletedOK
  <2>3. PICK f : f = sched.inflight OBVIOUS
  <2>4. f # None => ping.at # "idle" \/ Pending("completed", f)'
    BY <1>2, <1>p, <2>3 DEF PingInv
  <2>5. PICK g : g = ping.generation OBVIOUS
  <2>6. Dead(g) => Dead(g)' BY <1>d
  <2>7. /\ (ping.at = "idle" => ping = NoPing)'
        /\ (ping.at # "idle" =>
              /\ sched.inflight = ping.generation /\ ping.generation \in 1 .. Published
              /\ \A i \in 1 .. Len(inbox) : inbox[i].signal # "completed")'
    BY <1>h, <2>1 DEF PingInv, NoPing, SameExecutors
  <2>8. /\ (ping.at = "captured" => ping.executor = ping.generation \/ Dead(ping.generation))'
        /\ (ping.at = "reported" /\ ping.result \in {"closed", "stale"} => Dead(ping.generation))'
    BY <2>5, <2>6 DEF PingInv
  <2> QED BY <2>1, <2>2, <2>3, <2>4, <2>7, <2>8 DEF PingInv
<1> QED BY <1>1, <1>2

\* The same for the start and the end of a command.
LEMMA ForegroundTail ==
  ASSUME UInv, ForegroundInv, inbox # <<>>, inbox' = Tail(inbox),
         \A g : TaskOf(g) => TaskOf(g)',
         \/ ~sched'.foreground
         \/ /\ inbox[1].signal = "started" /\ inbox[1].generation = sched.active
            /\ sched'.active = sched.active
         \/ /\ sched.foreground /\ sched'.active = sched.active
            /\ inbox[1].signal = "finished" => inbox[1].generation # sched.active
  PROVE  ForegroundInv'
<1>t. inbox \in Seq(Message) /\ Len(inbox) \in Nat BY PublishedType
<1>h. /\ Len(inbox) >= 1 /\ Len(inbox') = Len(inbox) - 1 /\ 1 \in 1 .. Len(inbox)
      /\ \A i \in 1 .. Len(inbox') : inbox'[i] = inbox[i + 1] /\ i + 1 \in 1 .. Len(inbox)
  <2>1. /\ Len(inbox) >= 1 /\ Len(inbox') = Len(inbox) - 1
        /\ \A i \in 1 .. Len(inbox) - 1 : inbox'[i] = inbox[i + 1]
    BY <1>t, TakeOne
  <2> QED BY <1>t, <2>1
<1>p. \A s, g :
        /\ Pending(s, g) => (inbox[1].signal = s /\ inbox[1].generation = g) \/ Pending(s, g)'
        /\ PendingAfter(1, s, g) => Pending(s, g)'
        /\ \A i \in 1 .. Len(inbox') : PendingAfter(i + 1, s, g) => PendingAfter(i, s, g)'
  BY <1>t, TailPending
<1>1. ASSUME NEW i \in 1 .. Len(inbox') PROVE StartedOK(i)'
  <2>1. inbox'[i] = inbox[i + 1] /\ StartedOK(i + 1) BY <1>h DEF ForegroundInv
  <2> QED BY <1>p, <2>1 DEF StartedOK
<1>a. PICK a : a = sched.active OBVIOUS
<1>2. sched'.foreground => sched'.active = a /\ (TaskOf(a)' \/ Pending("finished", a)')
  <2>1. CASE /\ inbox[1].signal = "started" /\ inbox[1].generation = sched.active
             /\ sched'.active = sched.active
    BY <1>a, <1>h, <1>p, <2>1 DEF ForegroundInv, StartedOK
  <2>2. CASE /\ sched.foreground /\ sched'.active = sched.active
             /\ inbox[1].signal = "finished" => inbox[1].generation # sched.active
    BY <1>a, <1>p, <2>2 DEF ForegroundInv
  <2> QED BY <2>1, <2>2
<1> QED BY <1>1, <1>2, <1>a DEF ForegroundInv


\* The event loop: the scheduler's slot, or the end of the task.
LEMMA HandleSched == ASSUME IInv, UInv, UInv', SInv, HandleSignal PROVE SInv'
<1> USE DEF None
<1>t. /\ TypeOK /\ inbox \in Seq(Message) /\ Len(inbox) \in Nat
      /\ sched \in SchedulerStates(Generations)
      /\ ui \in [state: UiStates, cleanup: BOOLEAN, asks: {"nothing", "disconnect", "cleanup"},
                 origin: UiStates]
  BY PublishedType DEF UInv, TypeOK
<1>s. /\ UNCHANGED <<backend, store, executors, open, ping>> /\ ui.state # "EXITED"
      /\ inbox # <<>> /\ inbox' = Tail(inbox)
  BY DEF HandleSignal
<1>h. Head(inbox) = inbox[1] /\ inbox[1] \in Message /\ 1 \in 1 .. Len(inbox)
  BY <1>s, <1>t, TakeOne
<1>n. ~sched.shutdown BY <1>s DEF SInv, OpenInv
<1>1. CASE /\ Head(inbox).signal # "result" /\ sched' = Slot(Head(inbox))
           /\ UNCHANGED <<ui, worker>>
  <2>0. PICK m \in Message : m = inbox[1] BY <1>h
  <2>1. sched' = Slot(m) /\ m.signal # "result" BY <1>1, <1>h, <2>0
  <2>2. SameExecutors BY <1>1, <1>s DEF SameExecutors, Published
  <2>3. \A g : TaskOf(g) => TaskOf(g)' BY <1>1 DEF TaskOf
  <2>4. /\ Armed(sched') /\ ~sched'.shutdown
        /\ sched'.inflight = IF m.signal = "completed" /\ sched.inflight = m.generation
                             THEN None ELSE sched.inflight
    BY <1>n, <1>t, <2>1, SlotEffects DEF SInv
  <2>5. \/ m.signal = "opened" /\ sched'.active = m.generation
        \/ m.signal = "closed" /\ m.generation = sched.active /\ sched'.active = None
        \/ /\ m.signal = "completed" /\ m.generation = sched.active
           /\ m.result \in {"closed", "stale"} /\ sched'.active = None
        \/ /\ m.signal # "opened" /\ sched'.active = sched.active
           /\ m.signal = "closed" => m.generation # sched.active
    BY <1>n, <1>t, <2>1, SlotEffects DEF SInv
  <2>6. \/ ~sched'.foreground
        \/ /\ m.signal = "started" /\ m.generation = sched.active /\ sched'.active = sched.active
        \/ /\ sched.foreground /\ sched'.active = sched.active
           /\ m.signal = "finished" => m.generation # sched.active
    BY <1>n, <1>t, <2>1, SlotEffects DEF SInv
  <2>7. \/ m.signal = "opened" /\ sched'.active = m.generation
        \/ m.signal # "opened" /\ sched'.active = None /\ Dead(sched.active)
        \/ /\ m.signal # "opened" /\ sched'.active = sched.active
           /\ m.signal = "closed" => m.generation # sched.active
    <3>1. CASE m.signal = "closed" /\ m.generation = sched.active /\ sched'.active = None
      BY <1>h, <2>0, <3>1 DEF SInv, OpenInv, ClosedOK
    <3>2. CASE /\ m.signal = "completed" /\ m.generation = sched.active
               /\ m.result \in {"closed", "stale"} /\ sched'.active = None
      BY <1>h, <2>0, <3>2 DEF SInv, PingInv, CompletedOK
    <3> QED BY <2>5, <3>1, <3>2
  <2>8. DeadInv' BY <2>2, SameDead DEF SInv
  <2>9. OpenInv' BY <1>n, <1>s, <2>0, <2>2, <2>4, <2>7, OpenTail DEF SInv
  <2>10. PingInv' BY <1>s, <2>0, <2>2, <2>4, PingTail DEF SInv
  <2>11. ForegroundInv' BY <1>s, <2>0, <2>3, <2>6, ForegroundTail DEF SInv
  <2>12. Armed(sched)' BY <2>4 DEF Armed
  <2> QED BY <2>8, <2>9, <2>10, <2>11, <2>12 DEF SInv
<1>2. CASE Head(inbox).signal = "result" /\ FinishTask(Head(inbox).result)
  <2>0. inbox[1].signal = "result" /\ worker.at = "returned"
    BY <1>2, <1>h DEF UInv, ResultInv
  <2>1. \/ sched' = sched
        \/ sched' = Shutdown(sched) /\ ui' = [ui EXCEPT !.state = "EXITED", !.cleanup = FALSE]
    BY <1>2 DEF FinishTask
  <2>2. worker'.at # "publish"
    BY <1>2 DEF FinishTask, Started, Idle
  <2>3. SameExecutors BY <1>s, <2>0, <2>2, SameStore
  <2>4. \A g : TaskOf(g) => TaskOf(g)' BY <2>0 DEF TaskOf
  <2>5. ui.asks = "nothing"
    <3>1. worker # Idle BY <2>0 DEF Idle
    <3> QED BY <3>1 DEF UInv, TaskInv
  <2>6. /\ sched'.inflight = sched.inflight
        /\ \/ sched' = sched
           \/ /\ sched'.shutdown /\ sched'.active = None /\ ~sched'.foreground
              /\ ui'.state = "EXITED" /\ ui'.asks = "nothing"
    BY <1>t, <2>1, <2>5 DEF Shutdown, SchedulerStates
  <2>7. DeadInv' BY <2>3, SameDead DEF SInv
  <2>8. OpenInv' BY <1>n, <1>s, <2>0, <2>3, <2>6, OpenTail DEF SInv
  <2>9. PingInv' BY <1>s, <2>0, <2>3, <2>6, PingTail DEF SInv
  <2>10. ForegroundInv' BY <1>s, <2>0, <2>4, <2>6, ForegroundTail DEF SInv
  <2>11. Armed(sched)' BY <2>6 DEF SInv, Armed
  <2> QED BY <2>7, <2>8, <2>9, <2>10, <2>11 DEF SInv
<1> QED BY <1>1, <1>2 DEF HandleSignal

\* The initial state: nothing to serve.
LEMMA InitSInv == Init => SInv
<1> SUFFICES ASSUME Init PROVE SInv OBVIOUS
<1> USE DEF Init, None, Idle, Published
<1>1. DeadInv BY DEF DeadInv
<1>2. OpenInv BY DEF OpenInv, NewScheduler
<1>3. PingInv BY DEF PingInv, NewScheduler, NoPing
<1>4. ForegroundInv BY DEF ForegroundInv, NewScheduler
<1>5. Armed(sched) BY DEF Armed, NewScheduler
<1> QED BY <1>1, <1>2, <1>3, <1>4, <1>5 DEF SInv

\* Every step keeps the scheduler in touch with the connection.
LEMMA NextSInv == IInv /\ UInv /\ UInv' /\ SInv /\ [Next]_vars => SInv'
<1> SUFFICES ASSUME IInv, UInv, UInv', SInv, [Next]_vars PROVE SInv' OBVIOUS
<1>1. CASE UNCHANGED vars
  <2>1. inbox \in Seq(Message) BY PublishedType
  <2>2. SameExecutors BY <1>1 DEF vars, SameExecutors, Published
  <2>3. \A g : TaskOf(g) => TaskOf(g)' BY <1>1 DEF vars, TaskOf
  <2>4. Grown(inbox, inbox', 0) /\ NewNotIn({"opened", "closed", "completed", "started"})
    BY <1>1, <2>1, NewNone DEF vars
  <2>5. sched' = sched /\ ping' = ping /\ ui' = ui BY <1>1 DEF vars
  <2> QED BY <2>2, <2>3, <2>4, <2>5, QuietSched
<1>2. CASE Next
  BY <1>2, UserSched, HandleSched, TimeoutSched, ConnectSched, TaskSched, CloseSched, PingSched
  DEF Next, WorkerSteps
<1> QED BY <1>1, <1>2

\* The scheduler's invariant holds in every state the threads can reach.
THEOREM SchedulerInvariant == Spec => []SInv
<1>1. Spec => [](IInv /\ UInv /\ SInv)
  BY InitIInv, NextIInv, InitUInv, NextUInv, InitSInv, NextSInv, PTL DEF Spec
<1> QED BY <1>1, PTL

\* In whatever order the signals of the worker and of the PING thread are queued,
\* at rest the scheduler serves exactly the open connection, and its one-shot
\* timer is not lost (QtConnectionMaintenanceScheduler), through any number of
\* reconnects.
THEOREM SchedulerAlwaysServes == Spec => []SchedulerServes
<1>1. ASSUME UInv, SInv PROVE SchedulerServes
  <2> USE DEF None
  <2>1. TypeOK BY <1>1 DEF UInv
  <2>2. ASSUME Settled
        PROVE  /\ sched.active = store.connection
               /\ sched.enabled /\ sched.active # None => sched.timer
    <3>1. /\ worker.at = "none" /\ ping.at = "idle" /\ Len(inbox) = 0 /\ ui.state # "EXITED"
      BY <2>2 DEF Settled, Idle, NoPing
    <3>2. /\ \A s, g : ~Pending(s, g)
          /\ \A g : ~TaskOf(g)
      BY <3>1 DEF Pending, TaskOf
    <3>3. ~sched.shutdown /\ sched.active = backend.executor
      BY <1>1, <3>1, <3>2 DEF SInv, OpenInv
    <3>4. backend.executor = store.connection BY <1>1, <3>1 DEF UInv, BackendInv
    <3>5. ~sched.foreground /\ sched.inflight = None
      BY <1>1, <3>1, <3>2 DEF SInv, ForegroundInv, PingInv
    <3>6. sched.enabled /\ sched.active # None => sched.timer
      BY <1>1, <3>3, <3>5 DEF SInv, Armed
    <3> QED BY <3>3, <3>4, <3>6
  <2> QED BY <2>1, <2>2 DEF SchedulerServes, SchedulerFollowsConnection, TimerNotLost
<1> QED BY <1>1, ConnectionPlace, SchedulerInvariant, PTL

=============================================================================
