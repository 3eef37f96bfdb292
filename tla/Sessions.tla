------------------------------ MODULE Sessions ------------------------------
(***************************************************************************)
(* gui/session_gui_binding.py over SessionApplicationService and the       *)
(* stores: New, Open, Save, Save As, Recent and the closing of the window, *)
(* the session files and the recent-sessions cache on disk, the image      *)
(* paths the backend holds and the queue that parses them after a switch.  *)
(*                                                                         *)
(* The GUI thread is one process.  A dialog runs a nested event loop: the  *)
(* user can do nothing else, but timers fire and task results arrive.  The *)
(* task worker is the other process; it meets the GUI thread only in the   *)
(* backend's non-blocking lock (RuntimeBackend._acquire).                  *)
(*                                                                         *)
(* A document is the port and the image paths of one CPU; baud rate, time  *)
(* limits and erase scopes are captured and applied as these are.          *)
(***************************************************************************)
EXTENDS GlobalSettings, SequencesExt

CONSTANTS
  Files,       \* where session files may be
  Images,      \* image paths
  Ports,
  None,
  Absent,      \* what a file is that does not exist
  Corrupt,     \* what a file holds that cannot be read or is not valid
  MaxRecent,   \* MAX_RECENT_SESSIONS
  MaxMoves,    \* bound: what the user does outside dialogs
  MaxFaults    \* bound: failed writes and crashes

ASSUME SessionsAssumption ==
  /\ None \notin Files \cup Images \cup Ports
  /\ Images # {} /\ \E p, q \in Ports : p # q
  /\ Absent # Corrupt
  /\ {MaxRecent, MaxMoves, MaxFaults} \subseteq Nat

VARIABLES
  disk,      \* the session files
  cache,     \* the Runtime Cache file: recent files, newest first, or Corrupt
  session,   \* SessionApplicationService
  recent,    \* its Runtime Cache document
  port,      \* the connection fields of the window
  resource,  \* the backend's image paths and parse states, with their revisions
  state,     \* RuntimeSnapshot.state when no task runs
  task,      \* the controller's active task, or None
  gui,       \* where the GUI thread is
  parses,    \* the parse queue of SessionGuiBinding
  pending,   \* zero-interval timers: edits of a path, the start-up preparation
  discarded, \* history: the user chose to discard, and has not edited since
  torn,      \* history: a worker broke into the materialization of this session
  moves, faults

sessionVars == <<disk, cache, session, recent>>
guiVars == <<settings, sessionVars, port, resource, state, task, gui, parses,
          pending, discarded, torn, moves, faults>>

Slots == {"program", "ram"}
Paths == Images \cup {None}
Documents == [port : Ports \cup {None}, program : Paths, ram : Paths]

\* SessionDocument(): no port is recorded, no image is selected.
UntitledDocument == [port |-> None, program |-> None, ram |-> None]

NoResource == [path |-> None, status |-> "EMPTY", parsed |-> None, revision |-> 0]

\* SessionGuiBinding.__init__ materializes the untitled session.
StartResource == [NoResource EXCEPT !.revision = 1]

Untitled == [document |-> UntitledDocument, baseline |-> UntitledDocument,
             path |-> None, dirty |-> FALSE]

Idle == [at |-> "idle", for |-> None, file |-> None, to |-> None]

NoParses == [queue |-> <<>>, ours |-> FALSE, scheduled |-> FALSE,
             generation |-> 0, timers |-> {}]

\* SessionApplicationService.__init__: a cache that cannot be read is empty.
LoadedCache(file) == IF file = Corrupt THEN <<>> ELSE file

\* The port the window shows first.
AnyPort == CHOOSE p \in Ports : TRUE

\* One session with both images, others with a RAM image only.
SomeDocument(f) == [port |-> CHOOSE p \in Ports : p # AnyPort,
                    program |-> IF f = CHOOSE g \in Files : TRUE
                                THEN CHOOSE i \in Images : TRUE ELSE None,
                    ram |-> CHOOSE i \in Images : TRUE]

\* A first start, perhaps after an older version, or one that finds files.
SessionsInit ==
  /\ \/ /\ settings \in {Applied([version |-> v, document |-> DefaultSettings]) :
                             v \in {"absent", "corrupt", "legacy"}}
        /\ disk = [f \in Files |-> Absent] /\ cache = <<>>
     \/ /\ settings = Applied([version |-> "current", document |-> DefaultSettings])
        /\ \/ disk = [f \in Files |-> SomeDocument(f)] /\ cache = <<>>
           \/ disk = [f \in Files |-> Corrupt] /\ cache = Corrupt
  /\ session = Untitled /\ recent = LoadedCache(cache)
  /\ port = AnyPort /\ resource = [s \in Slots |-> StartResource]
  /\ state = "DISCONNECTED" /\ task = None
  /\ gui = Idle /\ parses = NoParses /\ pending = {"service"}
  /\ discarded = FALSE /\ torn = FALSE /\ moves = 0 /\ faults = 0

-----------------------------------------------------------------------------
(* The gates                                                               *)

\* The GUI thread is in its event loop, the nested one of a dialog included.
InEventLoop == gui.at \in {"idle", "ask", "choose_open", "choose_save"}

\* Every task but the start-up preparation of the Flash service shows a modal
\* task dialog, which takes the user's input.
TaskDialogOpen == task # None /\ task.kind # "service"

UserActs ==
  /\ gui.at = "idle" /\ ~TaskDialogOpen
  /\ moves < MaxMoves /\ moves' = moves + 1

\* The backend's lock is held by the worker for the whole of a task.
LockHeld == task # None /\ task.at = "inside"

SwitchGate == task = None /\ state = "DISCONNECTED"

SaveGate == task = None

ParseIdle == task = None /\ state = "DISCONNECTED"

-----------------------------------------------------------------------------
(* The parse queue                                                         *)

\* _schedule_parse_start, once p is what the handler made of the queue.
Scheduled(p, idle) ==
  IF p.queue = <<>> \/ p.ours \/ p.scheduled \/ ~idle THEN p
  ELSE [p EXCEPT !.scheduled = TRUE, !.timers = @ \cup {p.generation}]

\* _cancel_parse_queue.
Cancelled(p) ==
  [queue |-> <<>>, ours |-> FALSE, scheduled |-> FALSE,
   generation |-> p.generation + 1, timers |-> p.timers]

\* GuiController.request_task and its like; the bindings stop their edit timers.
Request(kind, path, revision) ==
  /\ task' = [kind |-> kind, path |-> path, revision |-> revision,
              at |-> "submitted", result |-> None]
  /\ pending' = pending \cap {"service"}

\* _submit_current and AdvancedRamBinding._prepare: the resource is marked
\* PARSING and the task carries the path and the revision it was started for.
Submit(slot) ==
  /\ resource' = [resource EXCEPT ![slot].status = "PARSING", ![slot].parsed = None]
  /\ Request(slot, resource[slot].path, resource[slot].revision)

\* _start_next_parse.  A slot without a path is skipped.
StartNextParse(generation) ==
  /\ InEventLoop
  /\ generation \in parses.timers
  /\ LET fired == [parses EXCEPT !.timers = @ \ {generation}]
         p == [fired EXCEPT !.scheduled = FALSE]
         rest == [p EXCEPT !.queue = Tail(@)]
         current == generation = parses.generation
         starts == current /\ ~p.ours /\ p.queue # <<>> /\ ParseIdle IN
     \/ ~current /\ parses' = fired /\ UNCHANGED <<resource, task, pending>>
     \/ current /\ ~starts /\ parses' = p /\ UNCHANGED <<resource, task, pending>>
     \/ /\ starts
        /\ resource[Head(p.queue)].path = None
        /\ parses' = Scheduled(rest, TRUE)
        /\ UNCHANGED <<resource, task, pending>>
     \/ /\ starts
        /\ resource[Head(p.queue)].path # None
        /\ parses' = [rest EXCEPT !.ours = TRUE]
        /\ Submit(Head(p.queue))
  /\ UNCHANGED <<settings, sessionVars, port, state, gui, discarded, torn, moves, faults>>

-----------------------------------------------------------------------------
(* Editing                                                                 *)

\* _capture_document, for the port and the paths the handlers left behind.
Captured(document, p, r) ==
  [document EXCEPT !.port = p, !.program = r["program"].path, !.ram = r["ram"].path]

\* replace_document.
Replaced(s, document) == [s EXCEPT !.document = document, !.dirty = document # s.baseline]

\* set_program_image_path and set_ram_image_path.
PathSet(r, slot, path) ==
  [r EXCEPT ![slot] = [path |-> path, status |-> "EMPTY", parsed |-> None,
                       revision |-> @.revision + 1]]

\* _session_edited runs after the handler that changed port or resource.
SessionEdited(r) == session' = Replaced(session, Captured(session.document, port', r))

\* A path field changes; editing it finishes when the field loses the focus.
\* A program path can be edited while disconnected without a task, a RAM path
\* at any time, but a worker in the backend makes the change fail.
EditPath(slot, path) ==
  /\ UserActs
  /\ slot = "program" => ParseIdle
  /\ ~LockHeld
  /\ path # resource[slot].path
  /\ resource' = PathSet(resource, slot, path)
  /\ UNCHANGED port
  /\ SessionEdited(resource')
  /\ pending' = IF task = None THEN pending \cup {slot} ELSE pending \ {slot}
  /\ discarded' = FALSE
  /\ UNCHANGED <<settings, disk, cache, recent, state, task, gui, parses, torn, faults>>

EditPort(p) ==
  /\ UserActs
  /\ task = None
  /\ p # port
  /\ port' = p
  /\ UNCHANGED resource
  /\ SessionEdited(resource')
  /\ discarded' = FALSE
  /\ UNCHANGED <<settings, disk, cache, recent, state, task, gui, parses, pending, torn, faults>>

\* The edit timer fires, perhaps in the event loop of a dialog opened meanwhile.
EditTimerFires(slot) ==
  /\ InEventLoop
  /\ slot \in pending
  /\ \/ /\ task = None
        /\ state = "DISCONNECTED" \/ slot = "ram"
        /\ resource[slot].path # None
        /\ resource[slot].status \notin {"PARSING", "READY"}
        /\ Submit(slot)
     \/ /\ \/ task # None
           \/ state # "DISCONNECTED" /\ slot # "ram"
           \/ resource[slot].path = None
           \/ resource[slot].status \in {"PARSING", "READY"}
        /\ pending' = pending \ {slot}
        /\ UNCHANGED <<resource, task>>
  /\ UNCHANGED <<settings, sessionVars, port, state, gui, parses, discarded, torn, moves, faults>>

\* FlashServiceBinding._startup_prepare.
StartupPrepare ==
  /\ InEventLoop
  /\ "service" \in pending
  /\ IF task = None
     THEN /\ task' = [kind |-> "service", path |-> None, revision |-> 0,
                      at |-> "submitted", result |-> None]
          /\ pending' = {}
     ELSE UNCHANGED task /\ pending' = pending \ {"service"}
  /\ UNCHANGED <<settings, sessionVars, port, resource, state, gui, parses, discarded, torn, moves, faults>>

\* request_connect and request_disconnect.
ConnectOrDisconnect ==
  /\ UserActs
  /\ task = None
  /\ \/ state = "DISCONNECTED" /\ Request("connect", None, 0)
     \/ state = "CONNECTED" /\ Request("disconnect", None, 0)
  /\ UNCHANGED <<settings, sessionVars, port, resource, state, gui, parses, discarded, torn, faults>>

-----------------------------------------------------------------------------
(* The worker                                                              *)

\* A bug: only the revision is compared, and revisions restart with a session.
MutantRevisionOnly(t, r) == t.revision = r.revision

IsCurrent(t, r) == t.revision = r.revision /\ t.path = r.path

\* _prepare_flash_image and _prepare_ram_image on a selection that is empty and
\* untouched: the request's own path is taken over.
Adopted(t, r) ==
  IF /\ r.status = "EMPTY" /\ r.path = None /\ r.revision = 0
     /\ t.kind = "program" \/ t.revision = 0
  THEN [path |-> t.path, status |-> "PARSING", parsed |-> None, revision |-> t.revision]
  ELSE r

\* The worker gets the lock.  A parse whose selection has changed ends at once.
WorkerEnters ==
  /\ task # None /\ task.at = "submitted"
  /\ IF task.kind \in Slots
     THEN LET r == Adopted(task, resource[task.kind])
              starts == IsCurrent(task, r) /\ (task.kind = "ram" => r.status = "PARSING") IN
          /\ resource' = [resource EXCEPT ![task.kind] =
                             IF starts THEN [r EXCEPT !.status = "PARSING", !.parsed = None] ELSE r]
          /\ task' = IF starts THEN [task EXCEPT !.at = "inside"]
                     ELSE [task EXCEPT !.at = "done", !.result = "failed"]
     ELSE task' = [task EXCEPT !.at = "inside"] /\ UNCHANGED resource
  /\ UNCHANGED <<settings, sessionVars, port, state, gui, parses, pending, discarded, torn, moves, faults>>

\* The worker finds the lock held by a handler of the GUI thread: _acquire
\* raises, and the worker's result is fatal.
WorkerCollides ==
  /\ task # None /\ task.at = "submitted"
  /\ gui.at \in {"apply_program", "apply_ram", "apply_erase"}
  /\ task' = [task EXCEPT !.at = "done", !.result = "fatal"]
  /\ UNCHANGED <<settings, sessionVars, port, resource, state, gui, parses, pending, discarded, torn, moves, faults>>

\* The task ends; a parse publishes what it found if its selection is current.
WorkerEnds ==
  /\ task # None /\ task.at = "inside"
  /\ \E result \in {"ok", "failed"} :
       /\ task' = [task EXCEPT !.at = "done", !.result = result]
       /\ IF task.kind \in Slots /\ IsCurrent(task, resource[task.kind])
          THEN resource' = [resource EXCEPT
                 ![task.kind].status = IF result = "ok" THEN "READY" ELSE "ERROR",
                 ![task.kind].parsed = IF result = "ok" THEN task.path ELSE None]
          ELSE UNCHANGED resource
  /\ UNCHANGED <<settings, sessionVars, port, state, gui, parses, pending, discarded, torn, moves, faults>>

\* The program starts: everything but the files is new.
Restart ==
  /\ settings' = Applied(settings.file)
  /\ session' = Untitled /\ recent' = LoadedCache(cache)
  /\ port' = AnyPort /\ resource' = [s \in Slots |-> StartResource]
  /\ state' = "DISCONNECTED" /\ task' = None
  /\ gui' = Idle /\ parses' = NoParses /\ pending' = {"service"}
  /\ discarded' = FALSE /\ torn' = FALSE
  /\ UNCHANGED <<disk, cache, moves>>

\* A bug: a finished task does not restart the queue.
MutantNotRescheduled(p, idle) == [p EXCEPT !.ours = FALSE]

\* _runtime_state_changed and _task_finished, in the order _complete emits them.
QueueAfterTask(p, idle) == Scheduled([p EXCEPT !.ours = FALSE], idle)

StateAfter(t) ==
  CASE t.result = "fatal" -> "ERROR"
    [] t.result = "ok" /\ t.kind = "connect" -> "CONNECTED"
    [] t.kind = "disconnect" -> "DISCONNECTED"
    [] OTHER -> state

\* The controller hears of the end of the worker.
TaskFinishes ==
  /\ InEventLoop
  /\ task # None /\ task.at = "done" /\ task.kind # "shutdown"
  /\ task' = None
  /\ state' = StateAfter(task)
  /\ parses' = QueueAfterTask(parses, state' = "DISCONNECTED")
  /\ UNCHANGED <<settings, sessionVars, port, resource, gui, pending, discarded, torn, moves, faults>>

\* shutdownReady, or the user's forced exit: authorize_close asks nothing more.
ShutdownFinishes ==
  /\ task # None /\ task.at = "done" /\ task.kind = "shutdown"
  /\ Restart
  /\ UNCHANGED faults

-----------------------------------------------------------------------------
(* Switching and closing                                                   *)
ReturnToLoop == gui' = Idle /\ discarded' = FALSE

\* _begin_switch and the question of _resolve_dirty.
Begin(for, file) ==
  gui' = [Idle EXCEPT !.at = IF session.dirty THEN "ask" ELSE "proceed",
                      !.for = for, !.file = file]

\* new, open, open_recent; closeEvent.
Leave ==
  /\ UserActs
  /\ \/ /\ SwitchGate
        /\ \/ Begin("new", None)
           \/ Begin("open", None)
           \/ \E i \in DOMAIN recent : Begin("recent", recent[i])
     \/ Begin("close", None)
  /\ discarded' = FALSE
  /\ UNCHANGED <<settings, sessionVars, port, resource, state, task, parses, pending, torn, faults>>

\* A bug: a save that is refused lets the switch go on.
MutantRefusedSave == [gui EXCEPT !.at = "proceed"]

\* save answers FALSE when a task is active, and the switch is given up.
RefusedSave == Idle

\* save: an untitled session asks for a file first.
SaveFrom(g) ==
  IF session.path = None THEN [g EXCEPT !.at = "choose_save"]
  ELSE [g EXCEPT !.at = "write", !.to = session.path]

\* The answer to UnsavedSessionDialog.
Answer ==
  /\ gui.at = "ask" /\ ~TaskDialogOpen
  /\ \/ gui' = Idle /\ discarded' = FALSE
     \/ gui' = [gui EXCEPT !.at = "proceed"] /\ discarded' = TRUE
     \/ /\ gui' = IF SaveGate THEN SaveFrom(gui) ELSE RefusedSave
        /\ discarded' = FALSE
  /\ UNCHANGED <<settings, sessionVars, port, resource, state, task, parses, pending, torn, moves, faults>>

\* save and save_as from the ribbon.
Save ==
  /\ UserActs /\ SaveGate
  /\ \/ session.dirty /\ gui' = SaveFrom([Idle EXCEPT !.for = "save"])
     \/ gui' = [Idle EXCEPT !.at = "choose_save", !.for = "save"]
  /\ UNCHANGED <<settings, sessionVars, port, resource, state, task, parses, pending, discarded, torn, faults>>

ChooseSave ==
  /\ gui.at = "choose_save"
  /\ \/ \E file \in Files : gui' = [gui EXCEPT !.at = "write", !.to = file] /\ UNCHANGED discarded
     \/ ReturnToLoop
  /\ UNCHANGED <<settings, sessionVars, port, resource, state, task, parses, pending, torn, moves, faults>>

\* A bug: the baseline is moved before the file is written.
MutantSavedState(s, document, file, written) ==
  [document |-> document, baseline |-> document, path |-> file, dirty |-> FALSE]

\* _save_to: nothing but the captured document changes when the write fails.
SavedState(s, document, file, written) ==
  IF written
  THEN [document |-> document, baseline |-> document, path |-> file, dirty |-> FALSE]
  ELSE Replaced(s, document)

\* The capture and the write: _atomic_write replaces the file or leaves it.
Write ==
  /\ gui.at = "write"
  /\ LET document == Captured(session.document, port, resource) IN
     \/ /\ session' = SavedState(session, document, gui.to, TRUE)
        /\ disk' = [disk EXCEPT ![gui.to] = document]
        /\ gui' = [gui EXCEPT !.at = "cache"]
        /\ UNCHANGED <<discarded, faults>>
     \/ /\ faults < MaxFaults
        /\ session' = SavedState(session, document, gui.to, FALSE)
        /\ faults' = faults + 1
        /\ ReturnToLoop
        /\ UNCHANGED disk
  /\ UNCHANGED <<settings, cache, recent, port, resource, state, task, parses, pending, torn, moves>>

\* without_recent_session: no file is listed twice.
Without(entries, file) ==
  IF file \in Range(entries)
  THEN RemoveAt(entries, CHOOSE i \in DOMAIN entries : entries[i] = file)
  ELSE entries

\* with_recent_session.
WithRecent(entries, file) ==
  LET all == <<file>> \o Without(entries, file) IN
  SubSeq(all, 1, IF Len(all) < MaxRecent THEN Len(all) ELSE MaxRecent)

\* The Runtime Cache is replaced on disk, then in memory.
CacheUpdated(candidate, written) ==
  IF written THEN recent' = candidate /\ cache' = candidate ELSE UNCHANGED <<recent, cache>>

\* A cache that cannot be written is a warning; the save has succeeded.
WriteCache ==
  /\ gui.at = "cache"
  /\ \E written \in BOOLEAN :
       /\ written \/ faults < MaxFaults
       /\ CacheUpdated(WithRecent(recent, gui.to), written)
       /\ faults' = IF written THEN faults ELSE faults + 1
  /\ gui' = IF gui.for = "save" THEN Idle ELSE [gui EXCEPT !.at = "proceed"]
  /\ UNCHANGED <<settings, disk, session, port, resource, state, task, parses, pending, discarded, torn, moves>>

\* _recent_remove.
RemoveRecent ==
  /\ UserActs
  /\ \E i \in DOMAIN recent, written \in BOOLEAN :
       /\ written \/ faults < MaxFaults
       /\ CacheUpdated(Without(recent, recent[i]), written)
       /\ faults' = IF written THEN faults ELSE faults + 1
  /\ UNCHANGED <<settings, disk, session, port, resource, state, task, gui, parses, pending, discarded, torn>>

\* _finish_switch up to commit_switch.  The gate is not asked again: a worker
\* inside the backend makes apply_session_change raise, one about to enter not.
FinishSwitch(document, file) ==
  /\ ~LockHeld
  /\ resource' = [s \in Slots |-> NoResource]
  /\ parses' = Cancelled(parses)
  /\ session' = [document |-> document, baseline |-> document, path |-> file, dirty |-> FALSE]
  /\ port' = IF document.port = None THEN port ELSE document.port
  /\ gui' = [Idle EXCEPT !.at = "apply_program"]
  /\ discarded' = FALSE /\ torn' = FALSE
  /\ UNCHANGED <<settings, disk, cache, recent, state, task, pending, moves, faults>>

SwitchRefused ==
  /\ ReturnToLoop
  /\ UNCHANGED <<settings, sessionVars, port, resource, state, task, parses, pending, torn, moves, faults>>

\* _open_path: the file must be there, be readable and be valid.
OpenPath(file) ==
  \/ disk[file] \in Documents /\ FinishSwitch(disk[file], file)
  \/ (disk[file] \notin Documents \/ LockHeld) /\ SwitchRefused

ChooseOpen ==
  /\ gui.at = "choose_open"
  /\ \/ \E file \in Files : OpenPath(file)
     \/ SwitchRefused

\* request_application_close, after request_close.
CloseWindow ==
  \/ task # None /\ SwitchRefused
  \/ task = None /\ state = "DISCONNECTED" /\ Restart /\ UNCHANGED faults
  \/ /\ task = None /\ state # "DISCONNECTED"
     /\ Request("shutdown", None, 0)
     /\ parses' = Cancelled(parses)
     /\ gui' = Idle
     /\ UNCHANGED <<settings, sessionVars, port, resource, state, discarded, torn, moves, faults>>

\* The question is settled: what was asked for is done.
Proceed ==
  /\ gui.at = "proceed"
  /\ \/ gui.for = "new" /\ FinishSwitch(UntitledDocument, None)
     \/ gui.for = "new" /\ LockHeld /\ SwitchRefused
     \/ /\ gui.for = "open"
        /\ gui' = [gui EXCEPT !.at = "choose_open"]
        /\ UNCHANGED <<settings, sessionVars, port, resource, state, task, parses, pending,
                       discarded, torn, moves, faults>>
     \/ gui.for = "recent" /\ OpenPath(gui.file)
     \/ gui.for = "close" /\ CloseWindow

\* _apply_materialization.  The program binding lets the exception of a held
\* lock through, the RAM binding catches it, set_erase_configuration does not:
\* the handler ends there and the images are not queued.
ApplyProgram ==
  /\ gui.at = "apply_program"
  /\ pending' = pending \ {"program"}
  /\ IF LockHeld
     THEN torn' = TRUE /\ gui' = Idle /\ UNCHANGED resource
     ELSE /\ resource' = PathSet(resource, "program", session.document.program)
          /\ gui' = [gui EXCEPT !.at = "apply_ram"]
          /\ UNCHANGED torn
  /\ UNCHANGED <<settings, sessionVars, port, state, task, parses, discarded, moves, faults>>

ApplyRam ==
  /\ gui.at = "apply_ram"
  /\ pending' = pending \ {"ram"}
  /\ gui' = [gui EXCEPT !.at = "apply_erase"]
  /\ IF LockHeld THEN torn' = TRUE /\ UNCHANGED resource
     ELSE resource' = PathSet(resource, "ram", session.document.ram) /\ UNCHANGED torn
  /\ UNCHANGED <<settings, sessionVars, port, state, task, parses, discarded, moves, faults>>

\* The images to parse, the program image first.
ImagesOf(document) ==
  (IF document.program # None THEN <<"program">> ELSE <<>>)
    \o (IF document.ram # None THEN <<"ram">> ELSE <<>>)

ApplyErase ==
  /\ gui.at = "apply_erase"
  /\ gui' = Idle
  /\ IF LockHeld THEN torn' = TRUE /\ UNCHANGED parses
     ELSE /\ parses' = Scheduled([parses EXCEPT !.queue = ImagesOf(session.document)], ParseIdle)
          /\ UNCHANGED torn
  /\ UNCHANGED <<settings, sessionVars, port, resource, state, task, pending, discarded, moves, faults>>

-----------------------------------------------------------------------------
\* The settings page, enabled while no task runs.
SettingsPage ==
  /\ UserActs /\ task = None
  /\ \/ (EditSettings \/ SaveSettings(TRUE) \/ ReloadSettings) /\ UNCHANGED faults
     \/ faults < MaxFaults /\ SaveSettings(FALSE) /\ faults' = faults + 1
  /\ UNCHANGED <<sessionVars, port, resource, state, task, gui, parses, pending, discarded, torn>>

\* The program dies anywhere, between the two files of a save too.
Crash ==
  /\ faults < MaxFaults
  /\ Restart
  /\ faults' = faults + 1

GuiSteps ==
  Write \/ WriteCache \/ Proceed \/ ApplyProgram \/ ApplyRam \/ ApplyErase

SessionsNext ==
  \/ GuiSteps
  \/ WorkerEnters \/ WorkerCollides \/ WorkerEnds
  \/ TaskFinishes \/ ShutdownFinishes
  \/ \E g \in parses.timers : StartNextParse(g)
  \/ \E s \in Slots : EditTimerFires(s)
  \/ StartupPrepare
  \/ \E s \in Slots, path \in Paths : EditPath(s, path)
  \/ \E p \in Ports : EditPort(p)
  \/ ConnectOrDisconnect
  \/ Leave \/ Answer \/ Save \/ ChooseSave \/ ChooseOpen \/ RemoveRecent
  \/ SettingsPage
  \/ Crash

\* Threads run; a posted result or an expired timer is delivered although the
\* user keeps the event loop busy with handlers of his own.  He promises nothing.
Fairness ==
  /\ WF_guiVars(GuiSteps)
  /\ WF_guiVars(WorkerEnters \/ WorkerEnds)
  /\ SF_guiVars(TaskFinishes \/ \E g \in parses.timers : StartNextParse(g))

SessionsSpec == SessionsInit /\ [][SessionsNext]_guiVars /\ Fairness

-----------------------------------------------------------------------------
SessionsTypeOK ==
  /\ settings.file \in SettingsFiles
  /\ {settings.baseline, settings.candidate} \subseteq SettingsDocuments
  /\ \A f \in Files : disk[f] \in Documents \cup {Absent, Corrupt}
  /\ session.document \in Documents /\ session.path \in Files \cup {None}
  /\ Len(recent) <= MaxRecent /\ IsInjective(recent)
  /\ \A s \in Slots : resource[s].path \in Paths
  /\ state \in {"DISCONNECTED", "CONNECTED", "ERROR"}
  /\ task = None \/ task.at \in {"submitted", "inside", "done"}
  /\ Len(parses.queue) <= 2 /\ parses.timers \subseteq 0 .. parses.generation
  /\ pending \subseteq Slots \cup {"service"}

\* A session shown as saved is on disk as it is shown, whichever of its writes
\* failed and wherever the program died (_save_to, _atomic_write).
CleanIsOnDisk ==
  session.path # None /\ ~session.dirty => disk[session.path] = session.document

\* What the user changed disappears only when he said so: not by a switch whose
\* save failed or was refused while a task ran, not by closing the window, not
\* at the end of a shutdown (_resolve_dirty, request_close).
WorkIsKept ==
  [][session.dirty /\ session'.document # session.document
       /\ gui.at # "write" /\ moves' = moves
       => discarded \/ faults' > faults]_guiVars

\* Outside a handler, the port and the paths in use are those of the session, so
\* that a save never writes those of another one.  A worker that enters the
\* backend in the middle of a switch breaks this (_finish_switch): see torn.
SessionsDoNotMix ==
  gui.at = "idle" /\ ~torn =>
    /\ session.document.port \in {None, port}
    /\ \A s \in Slots : resource[s].path = session.document[s]

\* An image shown as parsed is the one whose path is shown, even when the task
\* was started in another session whose revisions were the same numbers.
ReadyIsOwn ==
  \A s \in Slots : resource[s].status = "READY" => resource[s].parsed = resource[s].path

\* The list of recent sessions is the one the next start will read, except
\* where that file cannot be read at all.
RecentIsStored == cache # Corrupt => recent = cache

\* When nothing is offered for saving, the settings shown are what the file would
\* load as, and the runtime works with the path that was saved and with the
\* switch that is shown (save, reload, _apply_backend).
SettingsInEffect ==
  /\ ~SettingsDirty(settings) => settings.candidate = LoadedSettings(settings.file)
  /\ settings.tool = settings.baseline.tool
  /\ settings.pinging = settings.candidate.ping

\* The images of an opened session are all taken up, unless a connection or a
\* fatal error comes first.
QueueDrains ==
  parses.queue # <<>> ~> (parses.queue = <<>> \/ state # "DISCONNECTED")

\* What is shown as stored is on disk: the session, the recent list, the settings.
FilesAgree == SessionsTypeOK /\ CleanIsOnDisk /\ RecentIsStored /\ SettingsInEffect

\* Nothing of one session, a task still running for it included, enters another.
SessionsStayApart == SessionsDoNotMix /\ ReadyIsOwn

=============================================================================
