# Formal model of the bootloader upgrade tool

The repository holds two programs that talk over a serial line: a bootloader for
the TMS320F28377D (`src/dsp`, C) and the PC tool that drives it
(`src/pc/src/bootloader_upgrade_tool`, Python: protocol client, operations, CLI and a
Qt GUI). This directory models the parts of both that keep state other parts rely
on, checks them with TLC and proves their main properties with TLAPS.

`PROJECT.json` lists components, runs, mutants, findings, hazards and theorems, and maps
every definition to the lines it models.

## 1. The system

### Device

| part | state it keeps | operations | what makes it correct |
|---|---|---|---|
| Metadata journal (`boot_metadata_scan.c`, `boot_metadata_build.c`) | 64-word records in sector B: type, sequence, image identity, CRC | scan, build | the scan gives one answer for any Flash contents; torn records are ignored; attempts and confirmation count for the current publication only |
| Flash service (`flash_service_lib`), downloaded to RAM | `g_service`: initialised, Flash API ready, `verify_succeeded`, the open transfer | ERASE, PROGRAM/VERIFY BEGIN-DATA-END, METADATA_APPEND_RECORD, the application's confirmation | an acknowledged append is in the journal; IMAGE_VALID needs a VERIFY, which a write that succeeds takes back (one that fails does not, section 7); nothing is half trusted after a power loss |
| Bootloader core (`boot_algorithm.c`) | RAM load counters and ranges, `service_state`, the active handler, pending entry point | RAM_LOAD, CHECK_CRC, SERVICE_ATTACH, forwarding, RUN, RUN_RAM, RESET | only an intact service is called; only a trusted image is started |
| Start-up, SCI port, communication timeout (`bootloader_user`) | start-up summary, Timer 2, interrupt enable | scan, takeover window, command loop, jump, timeout reset | a device whose host disappears comes back; a timeout never cuts a Flash operation |
| Protocol framing (`boot_protocol_core.c`, `boot_io.c`) | receive position | receive, resynchronise, answer | one response per request, resynchronisation after noise |
| Application access (`app_flash_service`) | none | confirm the running image through a published service | it calls only an intact service |

The core forwards Flash commands to the service through the header of the downloaded
artifact; the service writes the journal; the start-up code reads it; the application
finds the service through the publish words the core leaves in RAM. RAM survives a
reset, so each of these can meet what another one left half done.

### PC

| part | state | operations | what makes it correct |
|---|---|---|---|
| `ConnectionCommandExecutor` | lease, waiting foreground calls, validity, generation | `execute_foreground`, `try_execute_maintenance`, `invalidate` | one user of the session at a time, foreground first, nobody left waiting |
| `QtConnectionMaintenanceScheduler` | active and in-flight generation, foreground flag, one-shot timer | slots for connection, foreground, activity, setting and completion signals | an idle connection keeps being checked; a dead one is forgotten |
| `GuiController`, `TaskWorker` | runtime state, active task, open question | connect, task, disconnect, close, answers | one task at a time; the state shown agrees with the backend |
| `RuntimeBackend` | session, pending close, executor, plus image and service resources | connect, disconnect, shutdown, tasks, PING | owns at most one session; closes or keeps it for a retry |
| Runtime V2 store and policies | connection and its health, metadata, evidence | events through policies | events of an old connection change nothing |
| GUI bindings (`advanced_*_binding.py`, `program_image_binding.py`, `flash_service_binding.py`, ...) | the context frozen for an operation, edit timers | enable, freeze, confirm, submit, show the result | what was confirmed is what is executed; every outcome is shown |
| Sessions and settings (`session_gui_binding.py`, `session_application_service.py`, `persistence_stores.py`, `global_settings_binding.py`) | session document and its baseline, recent list, parse queue, settings page, files | New, Open, Save, Recent, close, settings | no work is lost unasked; nothing of one session enters another |
| Protocol clients, frame reader, transports | sequence number, receive buffer, port | `open`, `transact`, resynchronise | a response belongs to its request |
| Operations (`operations/`) | none beyond the call | service, erase, program, verify, append, RAM load, run, read; cancellation | a result is true of the device, also after cancellation and lost answers |
| `UpgradeWorkflow` and the tools on it (`core/`, `tools/`) | `flash_modified`, `verify_succeeded`, state | flash, upgrade, verify, run, confirm, probes | an interrupted upgrade is neither trusted nor skipped |
| Simulator (`simulator/core.py`) | Flash, journal, sessions, service, faults | every command | it keeps the lifecycle the device keeps |
| Image parsing, interactive CLI, rendering of the pages | various | | |

Controller and scheduler live in the GUI thread and get queued signals; the backend is
called from the worker thread of the one active task; PINGs run on a pool thread. The
three share the backend's executor reference, the executor, the store and the serial port.

### What is hard here

Power loss or a failing Flash call inside an append or an erase; a timeout interrupt in
the middle of a RAM packet; RAM that survives resets; summaries read before a wait and
used after it; two PC threads on one serial port; signals of two threads in one queue;
a PING that outlives its connection; a close that fails; a late answer that the next
transaction reads; a lost answer to a record that was written; a cancellation in an open
transfer; evidence and metadata that a later operation or connection makes untrue; files and
settings that change under an open confirmation; dialogs whose event loop lets timers and
task results in; writes of files that fail half way. `PROJECT.json` "hazards" has
the full list with the line where each bites.

## 2. Modules

| module | models | composed with |
|---|---|---|
| `MetadataRecords` | slots, records and the journal summary as declarative definitions | used by the next three |
| `MetadataScanLoop` | `BootMetadata_Scan`, slot by slot in its two passes (`ScanSpec`) | checked and proved against `MetadataRecords` |
| `TrustLifecycle` | abstract: trusted image, attempts, confirmed | implemented by `FlashService`, used by `BootCore` |
| `FlashService` | the flash service over the Flash port | EXTENDS `MetadataRecords` |
| `BootCore` | `boot_algorithm.c` | INSTANCEs `TrustLifecycle` for what the service does to Flash |
| `BootDevice` | start-up, window, loop, timer, jump, application, reset, power | EXTENDS `BootCore` |
| `ConnectionExecutor` | the executor's critical sections as functions on its fields | |
| `ExecutorThreads` | any set of threads calling one executor | EXTENDS `ConnectionExecutor` |
| `MaintenanceScheduler` | each slot of the scheduler as a function on its fields | |
| `GuiConnection` | controller, worker, backend, store, PING thread and event queue | EXTENDS `ConnectionExecutor`, `MaintenanceScheduler` |
| `ProtocolLink` | three protocol stacks of the PC, the serial line, the receive loops of the DSP and of the simulator | |
| `SimulatorCore` | the simulated device as a function from request to answer | |
| `HostOperations` | `operations/*.py`, one command per step | EXTENDS `SimulatorCore`; implements `TrustLifecycle` |
| `UpgradeTools` | `tools/*.py` and `core/workflow.py` as scripts of requests and decisions | EXTENDS `SimulatorCore` |
| `RuntimeState` | the Runtime V2 snapshot, its events and its policies as functions | |
| `RuntimeTasks` | a GUI task from page to device and back (`TasksSpec`) | EXTENDS `RuntimeState` |
| `GlobalSettings` | the settings page, its file and what the runtime was told | |
| `Sessions` | session files, recent list, switching, closing, the parse queue (`SessionsSpec`) | EXTENDS `GlobalSettings` |
| `FlashServiceProofs` | theorems about the journal, the service and the scan | EXTENDS `FlashService`, `MetadataScanLoop` |
| `SimulatorProofs` | lemmas about the simulated device | EXTENDS `SimulatorCore` |
| `DeviceViewProofs` | theorems about the device as the pages show it and as it starts | EXTENDS `RuntimeTasks`, `BootDevice` |
| `GuiThreadsProofs` | theorems about the GUI's threads: the executor, and the sessions with their event loop | EXTENDS `ExecutorThreads`, `Sessions` |
| other `*Proofs` | theorems about the module they are named after | |
| `MC_*` | instances for TLC where constants are operators; the other modules are instantiated by their cfg files alone | |

### How state and actions correspond to the code

*Journal.* A slot is erased, invalid or a record `[type, sequence, image]`. A record's CRC is
its last programmed word, so an interrupted append leaves an erased, an invalid or a
complete slot. The 64 words and the CRC arithmetic are abstracted; a torn record is assumed
never to pass its CRC. `MetadataScanLoop` keeps the local variables of the two loops.

*Flash service.* One action per command and outcome: the service is single threaded and
answers before it reads on. `slots` and `app` are Flash, `initialized`,
`flash_initialized`, `verify_succeeded` and `session` are the fields of `g_service`,
`response` is the last answer. `verified` and `session.compared` are history: what a VERIFY
compared. `Faults` names the Flash API calls that may fail; a call that fails may stop
after any sector or unit. What it does to a sector it was erasing is an assumption: all slots are
kept, all erased or all invalid, and mixtures are left out. `PowerLossIn...` is the same with
everything in RAM gone.

*Core.* RAM is a row of cells, each a run of words that is written as a whole: plain,
header, publish words, code, data, plain. A packet's cells are written one at a time, and
`CommTimeout` may reset between them. A Flash command is two steps (`FlashCommand`,
`FlashCommandReturns`), between which the guard keeps the timer stopped and power may fail.

*Device.* `mode` is where `main` is. `host` says whether a PC is still there: connections
and commands need it.

*Executor.* Each `with self._condition` block is one atomic operator (`Queued`, `Granted`,
`Abandoned`, `Released`, ...). A thread in `wait()` is "waiting"; its wake-up re-examines
the lease as the loop does.

*GUI.* `worker.at` is where the worker thread is inside the backend call; steps are cut
where another thread can look (queueing a signal, taking or releasing the lease, closing
the port, replacing the executor reference). `inbox` is the GUI thread's event queue. The
scheduler's slots and `_maybe_finish` run when their message is handled. A worker's result
and the end of its thread are one message, the last of the two to arrive, since
`_maybe_finish` waits for both. A connected task performs one foreground operation; a task
that performs several looks to the other threads like that many tasks.

*Protocol link.* A frame is a run of cells: magic, rest of the header, payload, payload CRC. The
line may lose a cell or replace it by junk, in either direction and at any time, and an answer
may come after the timeout. A CRC is right exactly when the cells it covers are those of one frame.
`stack` chooses which pair of programs runs: `BootProtocolClient` with its session-long
`FrameReader`, or `ProtocolClient`, which drops what it read beyond its answer, against
`BootProtocol_Receive` or the simulator's `ResyncReader`. `port` follows `open()` with its
settle, autobaud and delay phases. A handler answers OK or ERROR, whatever it did of its work: an
erase or a program may fail part-way, an append after it was written. `handled` (the requests that
reached a handler, with the status it answered) and `reused` are history.

*Operations and tools.* An image is a number, the number of packets it is sent in; Flash is an array
of packets. `Respond` is the device; `Answered` and `Unanswered` are an exchange that works
and one that is lost, before or after the device acted on it. An operation is a stage (`op.at`)
and a count of packets sent; cancellation is a flag set at any time and looked at where the code
looks. A tool is a script of requests, extended by its decisions (`same_image`,
`ensure_boot_attempt`, ...) when it has read what they depend on. `workflow` is driven freely.

*Runtime tasks.* `rt` is the store's snapshot, `be` the backend's revisions and service, `ui` the
dialog and the frozen context, `job` the task between submission and result, `disk` the files and
`dev` the devices. The checks of the page (`Context`), of the controller and of the worker
(`Problem`, `image_error`) are three definitions because the code has them three times.

*Sessions.* `gui.at` is where the GUI thread is inside a handler; in a dialog only timers and queued
results get in. Files are written through a temporary file and a replace: a write takes place as a
whole or not at all, and the program may die before or after it. The worker meets the GUI
only in the backend's non-blocking lock.

## 3. Runs

| run | instance | shows |
|---|---|---|
| `metadata_scan` | every journal of 4 slots over 2 images and sequences 1-3 (arbitrary order, repeats and holes) | the two-pass scan computes the declarative summary (`ScanCorrect`) |
| `journal` | 3 slots, limit 1, 2 images, one unit; init, erase and journal faults | order, acknowledged appends, append-only, and that the service implements `TrustLifecycle`. Three slots hold a whole lifecycle, fill up, leave room for one attempt too many, and let an image that was tried be published again |
| `transfer` | 2 units in a second sector, 2 packets of up to 2 units; init, erase and program faults | the verify flag stays truthful; counters do not overrun |
| `device` | 6 RAM cells, a good and an unsupported header, 1 image, limit 1, loads of 2 packets; auto-boot and RUN_RAM built in | service intact when called and when published, only trusted images and checked RAM loads run, the timeout spares Flash, a device left alone comes back |
| `executor` | 3 threads, 2 generations | exclusion, priority, no waiter left behind by `invalidate` |
| `gui_connection` | 2 connections | a task and a PING never share a session, health comes from its own connection, scheduler and connection agree and the one-shot timer is never lost, CONNECTED is usable, tasks get their lease and idle connections their PINGs |
| `protocol_link` | 3 requests, sequence numbers up to 3, 1 fault, payloads up to 2 cells, device limit 1 | a transaction succeeds, or reports an error, only with the answer of its own handler; a payload reported damaged reached no handler; no request is too long for the device; requests are handled in order and at most once |
| `host_operations` | an image of 2 packets, service of 1, 3 records, limit 2, 1 lost exchange, unlimited cancellations and device faults | results are true of the device, cancelled transfers leave it clean, metadata goes before the image, the simulator implements `TrustLifecycle` |
| `upgrade_tools` | images of 1 and 2 packets (the freely driven workflow handles the second), 3 records, limit 2, 1 lost exchange or loss of power | reports and workflow flags are true, an image on record is in Flash whole, a retried run spends one attempt |
| `runtime_tasks` | 2 CPUs, one with the Flash commands, one with RAM loads and reads, 2 images, 2 connections, 1 change of a file or setting | what is shown is true of the device, what is offered is accepted, only what was confirmed is written, the outcome of every Flash operation, append and RAM operation is shown |
| `sessions` | 2 session files, 1 image path, 2 ports, 3 user moves, 1 failed write or crash | what is shown as stored is stored, sessions do not mix, unsaved work is kept, the parse queue drains |
| `gui_reconnect` | 2 connections | expected violation, see section 6 |

Some checked properties are conjunctions of named parts, because their parts are about one promise:
`DeviceComesBack`, `SchedulerServes`, `BothSidesProgress`, `LinkInv`, `ResultHolds`,
`CancellationHolds`, `ToolsInv`, `ShownIsTrue`, `TasksInv`, `FilesAgree` and
`SessionsStayApart`. Each part has its own comment where it is defined.

Every property of a passing run has a mutant in `PROJECT.json`: an operator defined beside
the original that has a plausible bug, under which TLC finds the property violated.

### Bounds

Sequence numbers of the journal are unbounded in `FlashService`: they never exceed the number of
slots. `MaxPackets`, `MaxDataUnits`, `MaxLoadPackets`, `MaxLoadWords`, `MaxPacketWords`,
`LoadEntries`, `MaxGeneration`, `MaxRequests`, `MaxSequence`, `MaxWords`, `MaxFaults`,
`MaxLost`, `WorkflowImages`, `ReadFrames`, `MaxGen`, `MaxService`, `MaxChanges` and `MaxMoves` bound inputs,
connections and faults in guards; `SetAutoPing` queues one setting at a time.

* Two generations are enough for `gui_connection` and `runtime_tasks` because every hazard there is
  about one connection and the one after it. Two waiting threads and a holder are enough for the
  executor, whose code tells no two waiters apart.
* Three requests are one answer late, its victim, and the request after both. `MaxRequests <=
  MaxSequence` is an assumption: an answer is never so late that 65535 numbers have come round. With
  a smaller `MaxSequence` the model finds that a late answer is taken for a new request's own.
* Two packets make a transfer that can be cut between packets; a single lost exchange, before or after
  the device acted, at each place of each script, is what separates the host's view from the device's.
* Three moves of the user in `sessions` are an edit, a switch and what follows it; with one failed
  write or crash at any of its steps.

### Fairness and deadlock

`BootDevice!FairSpec` has weak fairness on the device's own steps only: start-up, the end of
the window, the return of the service, the jump and the timer interrupt. The processor runs,
the window is counted and Timer 2 is hardware. The host, the application and the power
promise nothing; power is stable once the host has left, otherwise nothing could be said of
a device that is switched off for ever. `ExecutorThreads!FairSpec` lets actions end
(protocol timeouts bound them) and woken threads run. `GuiConnection!FairSpec` is weak
fairness of the event loop, the timer, the worker and the PING thread; the user owes nothing.
`Sessions!Fairness` is weak for the GUI thread's handlers and the worker, strong for the delivery of a
task's result and for the parse timer: Qt delivers a posted event although the user keeps
opening handlers in between, each of which disables the delivery for its own duration.
`ProtocolLink`, `HostOperations`, `UpgradeTools` and `RuntimeTasks` state safety only: their
steps end by the time limits of the transport, which are not modelled as time.

Deadlock is not checked where the system may stop: an unconfirmed device without a host waits
for autobaud for ever (dsp_bootloader.md), a finished scan is finished, a closed application has
no next step, and the host modules stop when their bounds are used up.

## 4. Proofs

Theorems hold for every value of the constants that satisfies the named assumptions.

* `FlashServiceProofs`, the journal: what an append, an erase and a scrambled sector do to the journal
  summary. The lemmas rest on `OrderedJournal`: erased slots last, sequence numbers growing
  with the slot and at most one above its index.
* `FlashServiceProofs`, the service: `TypeOK /\ JournalOrdered` is inductive. Types alone are not:
  that the next sequence number is in range needs the order. From it follow no repeated sequence,
  append-only, the lifecycle order, acknowledged appends, no overrun, the honest verify
  flag and `Refinement`: every step maps to one step of `TrustLifecycle` or to none.
* `FlashServiceProofs`, the scan: `ScanInv` relates each variable of the two loops to the slots
  already passed (`FirstPass`: first erased slot, newest record, newest image, repeats;
  `SecondPass`: attempts and confirmation of the chosen image). It assumes nothing of the
  journal, no order either, so `ScanCorrect` is proved for contents no history of the service
  would leave.
* `DeviceViewProofs`, the device: `TypeOK`, `ServiceInv`, `StartInv`, `GuardInv` and `RamInv` are inductive
  together. `ServiceInv` says that an active service is intact *and* that a published one is,
  once start-up looked at it; neither half is inductive without the other, since a reset keeps
  RAM. `StartInv` carries the checks behind a start across the window and the jump. The
  service theorems assume `WellLinked`: the declared code stays inside the service area.
  The linker file sees to it; `BootAlgorithm_ValidateFlashService` checks only that the
  immutable range lies in writable RAM.
* `DeviceViewProofs`, the tasks: `TasksInvariant` follows a task from its submission to its result.
  While it runs, its context is well formed and of the connection that is still open (`JobIsSound`).
  What it is about to make untrue is no longer shown once the worker has announced it (`Announced`):
  without that, evidence would have to be true of a device that is being written. What the worker
  checked still holds when it acts (`Checked`): the evidence behind IMAGE_VALID, the journal the user
  was shown, the content of the file, and after an append the readback it will compare. The inputs of a
  Flash operation or an append stay as they were frozen (`Pending`), because their setters give up while
  a task is active; a page therefore recognises the result of its task. `StoreIsSound` is the validation
  of the snapshot (`SnapshotValid`), carried through every event and policy: a step on the store
  is proved by one lemma per policy and one per event, and an operation by the lemmas about its path.
  From it `ShownIsTrue`, `TasksInv`, `ConfirmedIsExecuted` and `ResultIsShown`, for any set of CPUs,
  files, images, masks and scopes and any number of connections and changes.
* `GuiThreadsProofs`, the executor: the lease is held by exactly the threads inside
  the session, and the count of waiters is the cardinality of the waiting threads.
* `GuiThreadsProofs`, the sessions. `CleanIsOnDisk` alone is not inductive: a session that becomes clean
  must have been equal to something that is on disk. `StoredInv` names it: the file of the session holds
  the *baseline*, and `dirty` is the difference from it. `SessionsDoNotMix` speaks of the idle GUI thread
  only; `ApartInv` says which slots are `Settled` at each place of a handler, and that a settled slot
  has a revision of at least 1, for at revision 0 a worker fills the selection with the path of its own
  task. `PlaceInv` says what has become of unsaved work at each place the GUI thread can be in.
  Together (`SessionsInv`) they give `FilesAgree`, `SessionsStayApart` and `WorkIsKept`, for any set of
  files, images, ports and settings and any number of failed writes and crashes.
* `GuiConnectionProofs`, in three layers. Executors are numbered by generation and a new one is
  created above every one the PING thread may still hold (`GenerationInv`); whoever is inside a
  session holds its lease (`LeaseInv`): together `SessionNotShared` and `HealthIsOwn`.
  `UInv` adds where the connection is while controller, worker and backend each know a part of
  it, from the first click to the failed close: `ConnectedIsUsable`. `SInv` adds what
  the queued signals will still tell the scheduler, taken as a whole queue and not signal by signal,
  because only the last announcement of a connection decides: `SchedulerServes`, which contains
  the module's full `TypeOK`.
* `SimulatorProofs`: what one request does to the simulated device: its types, its summary, the one
  record an append adds, the session a packet belongs to. `HostOperationsProofs` and
  `UpgradeToolsProofs` rest on it.
* `HostOperationsProofs`: the result of an operation is put together from what it saw on its way.
  `IInv` says for each stage what the running operation already knows of the device and how the
  device relates to `op.before`; it must hold with an exchange lost, a fault, a
  cancellation or a reset at any stage. From it `ResultHolds`, `CancellationHolds`,
  `TrustGoesFirst`, and the refinement of `TrustLifecycle` by the simulator: device and simulator
  implement one abstract specification, each by a proof.
* `ProtocolLinkProofs`: the magics on their way up are ordered by request and newer than anything
  handled (`OrderInv`, `DoneInv`), which no loss or damage disturbs, since both only take cells
  away or spoil them: `HandledInOrder`. A frame coming down carries the status its request's handler
  answered, and BAD_PAYLOAD_CRC only when none was called (`DoneInv`): `ErrorIsOwn`. `SequenceInv` counts back from the last number
  given out; that no late answer meets its number again after the wrap needs
  `LatenessAssumption`, that no answer comes a whole round of numbers late: `ResponseIsOwn`.
* `UpgradeToolsProofs`: a script is as long as its image, so nothing can be said of it step by step.
  `IInv` speaks of the list still to do: every step that rests on something (a packet on the packet
  before it, IMAGE_VALID on a whole VERIFY, the erase of an application on the erase of its
  record, a decision on the summary) follows one that provides it (`Chain`), and what the *first*
  step rests on is true of the device now (`Need`). An answer to the first step makes the need of the
  second true; a failure drops the list; a loss of power keeps it and ends the transfer it was in,
  whose next packet is then refused. A decision puts a list before the rest, and the join must be
  a chain again. `PublishInv`, `AttemptInv` and `EndInv` say of the same list which image it may
  still publish, that it holds at most one BOOT_ATTEMPT, and how it ends. From these `ToolsInv`,
  `TrustIsEarned` and `OneAttempt`, for images of any number of packets.

Assumptions: the geometry and layout constants are natural numbers in the order of the linker
file; special values (`NoImage`, `Blank`, `Damaged`, `Junk`, ...) differ from contents; CRCs
are free of collisions (a modelling assumption, not an ASSUME); threads are finite. `None` of the GUI
modules is no content, file, stage or error code (`NoneIsApart`), and the groups of diagnostic reads are
no kinds of other tasks (`GroupsAreApart`): in the code they are members of different enumerations.

Proved, and checked by TLC through stronger or wider properties only: `NeverDuplicateSequence` (by
`JournalOrdered`), `LifecycleOrder` (by `ImplementsLifecycle`), `TypeOK` of the device and of the
executor, `WaitersAreReal` and `NoEntryAfterInvalidate`; their theorems are `NoDuplicate`,
`LifecycleInOrder`, `DeviceTypeCorrect`, `ExecutorTypeCorrect`, `WaitersCounted` and `InvalidIsFinal`.

Only model-checked: the liveness properties, which are beyond the prover together with ENABLED
(`DeviceComesBack`, `InvalidateDrains`, `BothSidesProgress`, `QueueDrains`), and the run that is
expected to fail. Every safety property of a passing run has a theorem.

## 5. Not modelled

* On the device: `last_error`, MEMORY_READ and the report fields of status answers; registers, ECC and
  wait states; tables of device information; the words of a record and the CRC arithmetic.
* Parsing: hex, map and linker command files, `hex2000` output, block merging and padding. Text and
  byte processing without state; images enter the model parsed or failed.
* The interactive CLI (`cli/`): one operation per command, which `HostOperations` has; its prompts
  and history are input and output.
* What the pages render, texts, logs, progress messages and icons; developer scripts under `tools/`.
* The controller's checks of the messages it gets (`TaskProgress` out of order, results of an earlier
  execution): a worker of this program cannot send them.
* The disposition FORCE_DISCONNECTED of a task's result (`controller.py:250`): no operation, task or
  backend of the program produces it.
* In the simulator, a RAM application loaded over the service (`core.py:730-743`): images of the model
  do not overlap. In the tools, `--force-service-attach` and `--force` are one flag, and the service's
  status is asked for even where `--force-service-attach` skips the question; its answer is then not used. In `Sessions`, a collision of
  the worker with the lock held by a path setter outside a switch: it changes a state
  label only.
* Whether the results of RUN, of reads and of image preparation are shown: `RuntimeTasks` takes them as
  shown, so `ResultIsShown` says nothing of them.
* Time: a timeout may fire whenever the step it guards has not ended.
* An exception between publishing a new session and creating its executor: both are plain
  constructor calls.

## 6. Where code and documents disagree

Checked as a run: `gui_reconnect`. After a disconnect that failed, the controller admits a connect that
the backend answers with an exception instead of the cleanup that the repository's test of
`_connect` expects.

Found while modelling; the models follow the code:

| code | text |
|---|---|
| the wait for the byte after the baud lock has no deadline (`boot_user_io_sci.c:194`) | dsp_bootloader.md:25: a finite takeover window when confirmed |
| RUN is refused without a BOOT_ATTEMPT (`boot_algorithm.c:711`) | pc_operations.md:389-392: explicit RUN does not require one |
| the loaded RAM image is a hull; gaps count as loaded (`boot_algorithm.c:251`) | communication_protocol.md:760: the entry must be inside the loaded image |
| `_on_timeout` does not ask about disconnect or a pending decision (`qt_connection_maintenance.py:270`) | runtime_architecture.md:815-817: no PING during disconnect, shutdown or result disposition |
| a failed write leaves its sequence number to the next request (`boot_protocol_client.py:216-219`) | communication_protocol.md:135-142 |
| after a header whose CRC fails the DSP searches on behind the header (`boot_protocol_core.c`) | communication_protocol.md:767-771 |
| the gate of a session switch is asked before the dialogs only (`session_gui_binding.py:300`) | runtime_architecture.md:1457 |

## 7. Behaviour worth knowing

None of this violates a checked property; each is visible in the models.

* The service's `verify_succeeded` outlives an ERASE or a PROGRAM_DATA that fails part-way
  (`boot_flash_service_lib.c:110-118`, `284-290`): an IMAGE_VALID that follows is accepted over contents
  nobody verified. `VerifiedContentIntact` exempts these states through `verified.writeFailed`; it says
  that they are the only ones.
* An error answer does not tell what was done. The host is told of an error for an erase that stopped
  after a sector and for an append that is on record (`boot_flash_service_lib.c:433`);
  `ErrorIsOwn` says whose error it is, and `AppendReported` what the operation may conclude.
* After a timeout whose answer still comes, `BootProtocolClient` stays one answer behind: every later
  transaction reads the answer before its own and fails on the sequence number.
* `FrameReader` reports an oversized header and leaves it in its buffer, so every later read of that
  session fails (`frame_reader.py:53`).
* `SerialTransport`: an `open()` that fails, and whose close fails, leaves `_serial` set; the next
  `open()` returns without a handshake.
* An answer lost inside a transfer leaves the device's session open; a retry's BEGIN is BUSY.
* Erasing application sectors by hand leaves the metadata trusting them, and `cpu1_upgrade flash` then
  skips the image as already there. `stale` marks these states in `UpgradeTools`.
* `UpgradeWorkflow.verify_succeeded` belongs to no image, and `UpgradeWorkflow.run` compares entry
  points only and spends a BOOT_ATTEMPT at each call.
* A new choice of RAM path between the end of a RAM task and its `finished` signal hides its result;
  CRC evidence for RAM survives Flash operations that load the service over the image
  (`runtime_v2_policies.py:301`).
* `loaded_image_match` is computed when metadata is read and not again (`runtime_backend.py:1582`).
* When the answer to RUN is lost and the application confirms itself, FRESH metadata is out of date
  until the next read.
* `apply_session_change` starts revisions at 0 again; a worker that enters the backend between it and
  the setting of the paths tears the switch (`torn` in `Sessions`). Save, chosen in the
  unsaved-changes dialog while a task runs, is refused without a message.

## 8. Next

1. Block merging, padding and sector masks of images as pure functions against a reference definition.
2. Progress and result validation of the controller; the interactive CLI as a driver of the operations.
