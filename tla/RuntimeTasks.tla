---------------------------- MODULE RuntimeTasks ----------------------------
(***************************************************************************)
(* The tasks of the GUI: from the state a page looks at, through the       *)
(* context it freezes, the confirmation dialog, the admission by the       *)
(* controller and the checks of RuntimeBackend.execute, to the device, and *)
(* back to what the page shows.                                            *)
(*                                                                         *)
(* The user interface runs in one thread; a task runs in a worker thread   *)
(* that holds the backend's lock from Start to its last step.  The setters *)
(* of the backend give up when the lock is taken, so they are actions that *)
(* need a free lock.  Files change under the program at any time, and the  *)
(* device may lose an answer, lose power or be running its application.    *)
(* Opening and closing a connection, one step each here, are modelled in   *)
(* GuiConnection, the operations on the device in HostOperations.          *)
(***************************************************************************)
EXTENDS RuntimeState, TLC

CONSTANTS
    FlashCpus,      \* CPUs whose profile has a Flash layout and its commands
    RamCpus,        \* CPUs whose profile has the RAM load commands
    ReadCpus,       \* CPUs whose profile has the memory and diagnostic reads
    RunCpu,         \* FLASH_APP_RUN_CPU
    ProgramFiles, RamFiles,   \* paths the user may select
    OutFiles,       \* those that end in .out and are converted by hex2000
    FlashImages, RamImages, Services,   \* what the files may hold
    ServiceFile,    \* the path the AppResourceProvider returns
    Scopes, Masks,  \* what the user may select to erase
    Limit,          \* boot_attempt_limit
    MaxGen,         \* bound on connections
    MaxService,     \* bound on the revisions of the Flash service
    MaxChanges      \* bound on changes made by the user and the file system

ASSUME RuntimeConstants ==
    /\ FlashCpus \cup RamCpus \cup ReadCpus \cup {RunCpu} \subseteq Cpus
    /\ Scopes \subseteq EraseScopes
    /\ {MaxGen, MaxChanges, MaxService, Limit} \subseteq Nat
    /\ ServiceFile \notin ProgramFiles \cup RamFiles

VARIABLES
    rt,         \* the Runtime V2 snapshot
    be,         \* revisions of the backend and the state of the Flash service
    ui,         \* what the controller and the dialogs remember
    job,        \* the active task
    disk,       \* what every file holds
    dev,        \* the device behind each CPU
    changes     \* changes made so far, up to MaxChanges

taskVars == <<rt, be, ui, job, disk, dev, changes>>

Sectors == {"META", "APP"}          \* allowed_erase_mask
Missing == "missing"
Files == ProgramFiles \cup RamFiles \cup {ServiceFile}
Contents == FlashImages \cup RamImages \cup Services \cup {Missing}
Holds(f) == {Missing} \cup (CASE f \in ProgramFiles -> FlashImages
                             [] f \in RamFiles -> RamImages
                             [] OTHER -> Services)
BlankJournal == [image |-> None, attempts |-> 0, confirmed |-> FALSE]
FlashKinds == {"ERASE", "PROGRAM", "VERIFY"}
AppendKinds == {"IMAGE_VALID", "BOOT_ATTEMPT", "APP_CONFIRMED"}
WriteKinds == {"ERASE", "PROGRAM"} \cup AppendKinds
RamKinds == {"RAM_LOAD", "RAM_CRC", "RAM_RUN"}
ReadKinds == {"METADATA", "MEMORY"} \cup Groups
PrepareKinds == {"PREPARE_FLASH", "PREPARE_RAM", "PREPARE_SERVICE"}
Kinds == FlashKinds \cup AppendKinds \cup RamKinds \cup ReadKinds \cup PrepareKinds \cup {"RUN"}

NoContext == [kind |-> None, cpu |-> None, gen |-> 0, path |-> None, rev |-> 0, tool |-> 0,
              id |-> None, svcRev |-> 0, svc |-> None, scope |-> None, mask |-> {},
              meta |-> None, evidence |-> None]

(***************************************************************************)
(* stage: "queued" the worker thread has not started yet, "image" and      *)
(* "service" a file is being read, "device" and "refresh" the device is    *)
(* used, "done" the worker has ended, "ask" the user is asked whether to   *)
(* disconnect.  touched: the files changed since their fingerprint.        *)
(***************************************************************************)
NoJob == [stage |-> None, ctx |-> NoContext, touched |-> {}, result |-> None, reason |-> None]
NewUi == [suspect |-> FALSE, pending |-> NoContext]
NewDevice == [flash |-> "blank", journal |-> BlankJournal, ram |-> None, link |-> FALSE]

TasksInit ==
    /\ rt = NewStore
    /\ be = [prog |-> [c \in Cpus |-> 0], ram |-> [c \in Cpus |-> 0], tool |-> 0,
             svc |-> [status |-> "UNVALIDATED", rev |-> 0, summary |-> None]]
    /\ ui = NewUi
    /\ job = NoJob
    /\ disk \in {d \in [Files -> Contents] : \A f \in Files : d[f] \in Holds(f) \ {Missing}}
    /\ dev = [c \in Cpus |-> NewDevice]
    /\ changes = 0

-----------------------------------------------------------------------------
(***************************************************************************)
(* What the controller's snapshot and active_target_context say.           *)
(***************************************************************************)
Connected == rt.conn # None
Cpu == rt.conn.cpu                   \* of the active target
NoTask == job.stage = None           \* active_task_id is None
LockFree == job.stage \in {None, "queued", "done", "ask"}

(***************************************************************************)
(* The part every page's context has in common: connected, nothing active, *)
(* nothing suspect, no decision pending.                                   *)
(***************************************************************************)
Idle == Connected /\ NoTask /\ ~ui.suspect

Program(c) == rt.res[c].program
Ram(c) == rt.res[c].ram
Stale(f, tool) == f \in OutFiles /\ tool # be.tool   \* converted with other settings

ServiceReady == be.svc.status = "READY" /\ be.svc.summary.cpu = Cpu

-----------------------------------------------------------------------------
(***************************************************************************)
(* _current_context of the pages: the inputs frozen for one operation, or  *)
(* NoContext when its button is disabled.                                  *)
(***************************************************************************)
Frozen(k) == [NoContext EXCEPT !.kind = k, !.cpu = Cpu, !.gen = rt.gen, !.tool = be.tool,
                               !.svcRev = be.svc.rev, !.svc = be.svc.summary]
OnProgram(x) == [x EXCEPT !.path = Program(Cpu).path, !.rev = be.prog[Cpu], !.id = Program(Cpu).summary]

erase_mask(scope, custom) == IF scope = "CUSTOM" THEN custom ELSE Sectors

flash_context(k) ==
    IF Idle /\ Program(Cpu).status = "READY" /\ ServiceReady /\ Cpu \in FlashCpus
    THEN IF k # "ERASE" THEN OnProgram(Frozen(k))
         ELSE LET mask == erase_mask(rt.res[Cpu].scope, rt.res[Cpu].mask)
              IN  IF mask = {} THEN NoContext
                  ELSE [OnProgram(Frozen(k)) EXCEPT !.scope = rt.res[Cpu].scope, !.mask = mask]
    ELSE NoContext

(***************************************************************************)
(* _matching_metadata_snapshot: FRESH, of this connection, with a valid    *)
(* image.  A mutant: STALE will do.                                        *)
(***************************************************************************)
MutantSeenImage == rt.meta.value # None /\ rt.meta.value.image # None
SeenImage == rt.meta.freshness = "FRESH" /\ rt.meta.value.image # None

metadata_context(k) ==
    IF ~(Idle /\ ServiceReady) THEN NoContext
    ELSE CASE k = "IMAGE_VALID" ->
                IF /\ Program(Cpu).status = "READY"
                   /\ rt.res[Cpu].verify = [cpu |-> Cpu, gen |-> rt.gen, id |-> Program(Cpu).summary]
                THEN [OnProgram(Frozen(k)) EXCEPT !.evidence = rt.res[Cpu].verify]
                ELSE NoContext
           [] k = "BOOT_ATTEMPT" ->
                IF SeenImage /\ ~rt.meta.value.confirmed /\ rt.meta.value.attempts < Limit
                THEN [Frozen(k) EXCEPT !.meta = rt.meta.value]
                ELSE NoContext
           [] OTHER ->
                IF SeenImage /\ rt.meta.value.attempts > 0 /\ ~rt.meta.value.confirmed
                THEN [Frozen(k) EXCEPT !.meta = rt.meta.value]
                ELSE NoContext

OnRam(x) == [x EXCEPT !.path = Ram(Cpu).path, !.rev = be.ram[Cpu], !.id = Ram(Cpu).summary]

ram_run_evidence ==
    rt.res[Cpu].crc = [cpu |-> Cpu, gen |-> rt.gen, id |-> Ram(Cpu).summary]

ram_context(k) ==
    IF Idle /\ Cpu \in RamCpus /\ Ram(Cpu).status = "READY" /\ (k = "RAM_RUN" => ram_run_evidence)
    THEN [OnRam(Frozen(k)) EXCEPT !.evidence = IF k = "RAM_RUN" THEN rt.res[Cpu].crc ELSE None,
                                  !.svcRev = 0, !.svc = None]
    ELSE NoContext

execution_context ==
    IF Idle /\ Cpu = RunCpu /\ SeenImage
    THEN [Frozen("RUN") EXCEPT !.meta = rt.meta.value, !.svcRev = 0, !.svc = None, !.tool = 0]
    ELSE NoContext

Reads(c, k) == c \in (IF k = "METADATA" THEN FlashCpus ELSE ReadCpus)

read_context(k) ==
    IF Idle /\ Reads(Cpu, k)
    THEN [NoContext EXCEPT !.kind = k, !.cpu = Cpu, !.gen = rt.gen] ELSE NoContext

Context(k) == CASE k \in FlashKinds -> flash_context(k)
                [] k \in AppendKinds -> metadata_context(k)
                [] k \in RamKinds -> ram_context(k)
                [] k = "RUN" -> execution_context
                [] OTHER -> read_context(k)

-----------------------------------------------------------------------------
(***************************************************************************)
(* The checks of the backend when the worker starts; None when it accepts. *)
(***************************************************************************)
connection_problem(x) ==
    IF Connected /\ rt.conn = [gen |-> x.gen, cpu |-> x.cpu] THEN None ELSE "STALE_CONNECTION"

program_problem(x) ==                         \* _program_operation_state
    LET i == Program(x.cpu)
    IN  IF i.status # "READY" THEN "PREPARED_FLASH_IMAGE_REQUIRED"
        ELSE IF \/ i.path # x.path \/ be.prog[x.cpu] # x.rev \/ i.summary # x.id
                \/ Stale(x.path, x.tool)
        THEN "STALE_IMAGE_CONFIGURATION" ELSE None

ram_problem(x) ==                             \* _ram_operation_state
    LET i == Ram(x.cpu)
    IN  IF i.status # "READY" THEN "PREPARED_RAM_IMAGE_REQUIRED"
        ELSE IF \/ be.ram[x.cpu] # x.rev \/ i.summary # x.id
                \/ x.kind # "RAM_RUN" /\ (i.path # x.path \/ Stale(x.path, x.tool))
        THEN "STALE_IMAGE_CONFIGURATION" ELSE None

service_problem(x) ==
    IF be.svc.status # "READY" THEN "PREPARED_FLASH_SERVICE_REQUIRED"
    ELSE IF be.svc.rev # x.svcRev \/ be.tool # x.tool \/ be.svc.summary # x.svc
    THEN "STALE_SERVICE_CONFIGURATION" ELSE None

metadata_problem(x) ==
    IF rt.meta.freshness = "FRESH" /\ rt.meta.value = x.meta THEN None
    ELSE "STALE_METADATA_CONFIGURATION"

verify_evidence_matches(x) ==
    /\ x.evidence # None /\ x.evidence = rt.res[x.cpu].verify
    /\ rt.conn = [gen |-> x.evidence.gen, cpu |-> x.cpu]
    /\ Program(x.cpu).summary = x.id /\ x.evidence.id = x.id
    /\ be.prog[x.cpu] = x.rev /\ be.tool = x.tool
    /\ job.reason # None => job.reason = x.evidence.id    \* the identity read from the file

ram_crc_evidence_matches(x) ==
    /\ x.evidence # None /\ x.evidence = rt.res[x.cpu].crc
    /\ rt.conn = [gen |-> x.evidence.gen, cpu |-> x.cpu]
    /\ x.evidence.id = x.id

FirstProblem(ps) ==
    IF \A n \in DOMAIN ps : ps[n] = None THEN None
    ELSE ps[CHOOSE n \in DOMAIN ps : ps[n] # None /\ \A m \in 1..(n - 1) : ps[m] = None]

Unless(test, code) == IF test THEN None ELSE code

flash_problem(x) ==
    FirstProblem(<<connection_problem(x), Unless(x.cpu \in FlashCpus, "UNSUPPORTED_OPERATION"),
                   program_problem(x), service_problem(x),
                   Unless(x.kind = "ERASE" => x.mask # {}, "FORBIDDEN_SECTOR")>>)

append_problem(x) ==
    FirstProblem(<<connection_problem(x), IF x.kind = "IMAGE_VALID" THEN program_problem(x) ELSE None,
                   service_problem(x), IF x.kind = "IMAGE_VALID" THEN None ELSE metadata_problem(x),
                   Unless(x.kind = "IMAGE_VALID" => verify_evidence_matches(x), "VERIFY_EVIDENCE_REQUIRED")>>)

ram_operation_problem(x) ==
    FirstProblem(<<connection_problem(x),
                   IF x.kind = "RAM_RUN" THEN Unless(ram_problem(x) = None, "RAM_CRC_EVIDENCE_REQUIRED")
                   ELSE ram_problem(x),
                   Unless(x.cpu \in RamCpus, "UNSUPPORTED_OPERATION"),
                   Unless(x.kind = "RAM_RUN" => ram_crc_evidence_matches(x), "RAM_CRC_EVIDENCE_REQUIRED")>>)

run_problem(x) ==
    FirstProblem(<<connection_problem(x), Unless(x.cpu = RunCpu, "STALE_TARGET"), metadata_problem(x),
                   Unless(x.meta # None /\ x.meta.image # None, "IMAGE_VALID_REQUIRED")>>)

prepare_flash_problem(x) ==
    Unless(Program(x.cpu).path = x.path /\ be.prog[x.cpu] = x.rev, "IMAGE_SELECTION_CHANGED")
prepare_ram_problem(x) ==
    Unless(Ram(x.cpu).path = x.path /\ be.ram[x.cpu] = x.rev /\ Ram(x.cpu).status = "PARSING",
           "IMAGE_SELECTION_CHANGED")
prepare_service_problem(x) ==
    Unless(be.svc.rev = x.svcRev /\ be.tool = x.tool, "SERVICE_CONFIGURATION_CHANGED")

Problem(x) == CASE x.kind \in FlashKinds -> flash_problem(x)
                [] x.kind \in AppendKinds -> append_problem(x)
                [] x.kind \in RamKinds -> ram_operation_problem(x)
                [] x.kind = "RUN" -> run_problem(x)
                [] x.kind \in ReadKinds ->
                    FirstProblem(<<connection_problem(x),
                                   Unless(Reads(x.cpu, x.kind), "UNSUPPORTED_OPERATION")>>)
                [] x.kind = "PREPARE_FLASH" -> prepare_flash_problem(x)
                [] x.kind = "PREPARE_RAM" -> prepare_ram_problem(x)
                [] OTHER -> prepare_service_problem(x)

-----------------------------------------------------------------------------
(***************************************************************************)
(* What the user and the file system do.                                   *)
(***************************************************************************)
Change == changes < MaxChanges /\ changes' = changes + 1
Selects(path) == IF path = None THEN UNCHANGED changes ELSE Change   \* the first choice is free

Dispatch(e) == rt' = Transition(e, rt)

SetProgramPath(c, f) ==
    /\ ~Connected /\ NoTask /\ c \in FlashCpus /\ Selects(Program(c).path)
    /\ Dispatch(ProgramImageChanged(c, f, "EMPTY", None))
    /\ be' = [be EXCEPT !.prog[c] = @ + 1]
    /\ UNCHANGED <<ui, job, disk, dev>>

SetRamPath(c, f) ==
    /\ LockFree /\ c \in RamCpus /\ Selects(Ram(c).path)
    /\ Dispatch(RamImageChanged(c, f, "EMPTY", None))
    /\ be' = [be EXCEPT !.ram[c] = @ + 1]
    /\ UNCHANGED <<ui, job, disk, dev>>

SetImageToolPaths ==
    /\ NoTask /\ Change
    /\ be' = [be EXCEPT !.tool = @ + 1]
    /\ UNCHANGED <<rt, ui, job, disk, dev>>

SetEraseConfiguration(s, k) ==
    /\ Idle /\ Cpu \in FlashCpus /\ Change
    /\ <<s, k>> # <<rt.res[Cpu].scope, rt.res[Cpu].mask>>
    /\ Dispatch(SectorSelectionChanged(Cpu, s, k))
    /\ UNCHANGED <<be, ui, job, disk, dev>>

ClearMemory(c) ==
    /\ rt.mem[c].words # None
    /\ Dispatch(MemoryCleared(c))
    /\ UNCHANGED <<be, ui, job, disk, dev, changes>>

ApplySessionChange ==
    /\ ~Connected /\ NoTask /\ Change
    /\ Dispatch(SessionChanged)
    /\ be' = [be EXCEPT !.prog = [c \in Cpus |-> 0], !.ram = [c \in Cpus |-> 0]]
    /\ UNCHANGED <<ui, job, disk, dev>>

(***************************************************************************)
(* A file is written, replaced or removed.  Missing also stands for an     *)
(* image file that cannot be parsed.                                       *)
(***************************************************************************)
FileChanged(f, v) ==
    /\ Change /\ disk[f] # v
    /\ disk' = [disk EXCEPT ![f] = v]
    /\ job' = IF \/ f = job.ctx.path /\ job.stage \in {"image", "service", "device"}
                 \/ f = ServiceFile /\ job.stage = "service"
              THEN [job EXCEPT !.touched = @ \cup {f}] ELSE job
    /\ UNCHANGED <<rt, be, ui, dev>>

OpenConnection(c) ==
    /\ ~Connected /\ NoTask /\ rt.gen < MaxGen
    /\ Dispatch(ConnectionOpened(c))
    /\ ui' = [ui EXCEPT !.suspect = FALSE]
    /\ dev' = [dev EXCEPT ![c].link = TRUE, ![c].ram = None]
    /\ UNCHANGED <<be, job, disk, changes>>

Disconnect ==
    /\ Connected /\ NoTask
    /\ Dispatch(ConnectionClosed(rt.gen))
    /\ ui' = [ui EXCEPT !.suspect = FALSE]
    /\ dev' = [dev EXCEPT ![Cpu].link = FALSE]
    /\ UNCHANGED <<be, job, disk, changes>>

-----------------------------------------------------------------------------
(***************************************************************************)
(* Requests.  A read, a verification, a RAM operation and RUN go straight  *)
(* to the controller; what writes Flash is confirmed first, in a dialog    *)
(* that blocks other requests while it is open.  The settings, the files   *)
(* and the connection may change under it.                                 *)
(***************************************************************************)
Queued(x) == [NoJob EXCEPT !.stage = "queued", !.ctx = x]

Submit(k) ==
    /\ k \in Kinds \ (WriteKinds \cup PrepareKinds)
    /\ ui.pending = NoContext
    /\ Context(k) # NoContext
    /\ job' = Queued(Context(k))
    /\ UNCHANGED <<rt, be, ui, disk, dev, changes>>

Present(k) ==
    /\ k \in WriteKinds
    /\ Context(k) # NoContext
    /\ ui.pending = NoContext
    /\ ui' = [ui EXCEPT !.pending = Context(k)]
    /\ UNCHANGED <<rt, be, job, disk, dev, changes>>

(***************************************************************************)
(* A mutant: what was confirmed is submitted whatever happened since.      *)
(***************************************************************************)
MutantConfirm ==
    /\ ui.pending # NoContext /\ NoTask
    /\ ui' = [ui EXCEPT !.pending = NoContext]
    /\ job' = Queued(ui.pending)
    /\ UNCHANGED <<rt, be, disk, dev, changes>>

Confirm ==
    /\ ui.pending # NoContext
    /\ ui' = [ui EXCEPT !.pending = NoContext]
    /\ job' = IF Context(ui.pending.kind) = ui.pending THEN Queued(ui.pending) ELSE job
    /\ UNCHANGED <<rt, be, disk, dev, changes>>

RejectWrite ==
    /\ ui.pending # NoContext
    /\ ui' = [ui EXCEPT !.pending = NoContext]
    /\ UNCHANGED <<rt, be, job, disk, dev, changes>>

begin_program_image_parse(c) == Dispatch(ProgramImageChanged(c, Program(c).path, "PARSING", None))
begin_ram_image_parse(c) == Dispatch(RamImageChanged(c, Ram(c).path, "PARSING", None))

PrepareProgramImage(c) ==
    /\ ~Connected /\ NoTask /\ ui.pending = NoContext /\ Program(c).path # None
    /\ begin_program_image_parse(c)
    /\ job' = Queued([NoContext EXCEPT !.kind = "PREPARE_FLASH", !.cpu = c, !.path = Program(c).path,
                                       !.rev = be.prog[c]])
    /\ UNCHANGED <<be, ui, disk, dev, changes>>

PrepareRamImage(c) ==
    /\ NoTask /\ ui.pending = NoContext /\ Ram(c).path # None
    /\ begin_ram_image_parse(c)
    /\ job' = Queued([NoContext EXCEPT !.kind = "PREPARE_RAM", !.cpu = c, !.path = Ram(c).path,
                                       !.rev = be.ram[c]])
    /\ UNCHANGED <<be, ui, disk, dev, changes>>

(***************************************************************************)
(* refresh_flash_service_resources, which the Flash service page calls     *)
(* before it asks for a preparation.                                       *)
(***************************************************************************)
Refreshed ==
    IF disk[ServiceFile] = Missing
    THEN [status |-> "UNAVAILABLE", summary |-> None,
          rev |-> be.svc.rev + (IF be.svc.status = "UNAVAILABLE" THEN 0 ELSE 1)]
    ELSE IF be.svc.status = "READY" THEN be.svc
    ELSE [status |-> "UNVALIDATED", summary |-> None,
          rev |-> be.svc.rev + (IF be.svc.status = "UNAVAILABLE" THEN 1 ELSE 0)]

\* The timer of FlashServiceBinding looks at the files again when no task runs,
\* also while a confirmation is open.
RefreshFlashService ==
    /\ NoTask /\ be.svc.status \in {"UNAVAILABLE", "UNVALIDATED", "READY"} /\ Refreshed.rev <= MaxService
    /\ be' = [be EXCEPT !.svc = Refreshed]
    /\ UNCHANGED <<rt, ui, job, disk, dev, changes>>

PrepareFlashService(c) ==
    /\ NoTask /\ ui.pending = NoContext /\ c \in FlashCpus /\ Refreshed.rev <= MaxService
    /\ be' = [be EXCEPT !.svc = Refreshed]
    /\ job' = IF Refreshed.status = "UNAVAILABLE" THEN job
              ELSE Queued([NoContext EXCEPT !.kind = "PREPARE_SERVICE", !.cpu = c, !.tool = be.tool,
                                            !.svcRev = Refreshed.rev, !.svc = Refreshed.summary])
    /\ UNCHANGED <<rt, ui, disk, dev, changes>>

-----------------------------------------------------------------------------
(***************************************************************************)
(* RuntimeBackend.execute, in the worker.                                  *)
(***************************************************************************)
NeedsImage(x) ==
    \/ x.kind \in {"PROGRAM", "VERIFY", "IMAGE_VALID", "RAM_LOAD", "RAM_CRC", "PREPARE_FLASH", "PREPARE_RAM"}
    \/ x.kind = "ERASE" /\ x.scope = "REQUIRED"
NeedsService(x) == x.kind \in FlashKinds \cup AppendKinds \cup {"PREPARE_SERVICE"}
OfRam(x) == x.kind \in RamKinds \cup {"PREPARE_RAM"}

Ended(j, r) == [j EXCEPT !.stage = "done", !.result = r, !.touched = {}]

(***************************************************************************)
(* _fail_program_image_parse and _fail_ram_image_parse: only for the image *)
(* that is still selected.                                                 *)
(***************************************************************************)
FailParse(x) ==
    IF OfRam(x)
    THEN IF Ram(x.cpu).path = x.path /\ be.ram[x.cpu] = x.rev
         THEN Dispatch(RamImageChanged(x.cpu, x.path, "ERROR", None)) ELSE UNCHANGED rt
    ELSE IF Program(x.cpu).path = x.path /\ be.prog[x.cpu] = x.rev
         THEN Dispatch(ProgramImageChanged(x.cpu, x.path, "ERROR", None)) ELSE UNCHANGED rt

(***************************************************************************)
(* The operation is announced before its files are read: from here on the  *)
(* evidence of an earlier verification no longer counts.                   *)
(***************************************************************************)
Announce(x) ==
    IF x.kind \in FlashKinds \cup {"RAM_LOAD", "RAM_CRC"}
    THEN Dispatch(OperationStarted(x.kind, x.cpu, x.gen)) ELSE UNCHANGED rt

Start ==
    /\ job.stage = "queued"
    /\ LET x == job.ctx  p == Problem(x)
       IN  IF p # None
           THEN /\ job' = Ended(job, p)
                /\ IF x.kind \in {"PREPARE_FLASH", "PREPARE_RAM"} THEN FailParse(x) ELSE UNCHANGED rt
                /\ UNCHANGED be
           ELSE /\ job' = [job EXCEPT !.stage = IF NeedsImage(x) THEN "image"
                                                ELSE IF NeedsService(x) THEN "service" ELSE "device"]
                /\ Announce(x)
                /\ be' = IF x.kind = "PREPARE_SERVICE"
                         THEN [be EXCEPT !.svc.status = "UNVALIDATED", !.svc.summary = None] ELSE be
    /\ UNCHANGED <<ui, disk, dev, changes>>

(***************************************************************************)
(* A mutant: the file's content is not compared with the image that was    *)
(* prepared and confirmed.                                                 *)
(***************************************************************************)
MutantImageError(x) ==
    CASE disk[x.path] = Missing -> "IMAGE_FILE_ACCESS_FAILED"
      [] OTHER -> None

image_error(x) ==                       \* _materialize_flash_app, _materialize_ram_app
    IF x.path \in job.touched THEN "IMAGE_CHANGED_DURING_PREPARATION"
    ELSE IF disk[x.path] = Missing THEN "IMAGE_FILE_ACCESS_FAILED"
    ELSE IF x.id # None /\ disk[x.path] # x.id THEN "IMAGE_CHANGED"
    ELSE None

PrepareImageEnds(x) ==
    /\ job' = Ended(job, "OK")
    /\ Dispatch(IF OfRam(x) THEN RamImageChanged(x.cpu, x.path, "READY", disk[x.path])
                            ELSE ProgramImageChanged(x.cpu, x.path, "READY", disk[x.path]))

ImageRead ==
    /\ job.stage = "image"
    /\ LET x == job.ctx  e == image_error(x)
       IN  IF e # None THEN job' = Ended(job, e) /\ FailParse(x)
           ELSE IF x.kind \in PrepareKinds THEN PrepareImageEnds(x)
           ELSE /\ job' = IF Problem(x) # None THEN Ended(job, Problem(x))
                          ELSE [job EXCEPT !.stage = IF NeedsService(x) THEN "service" ELSE "device",
                                           !.reason = disk[x.path]]
                /\ UNCHANGED rt
    /\ UNCHANGED <<be, ui, disk, dev, changes>>

service_error(x) ==                     \* _materialize_flash_service
    IF ServiceFile \in job.touched THEN "SERVICE_CHANGED_DURING_PREPARATION"
    ELSE IF disk[ServiceFile] = Missing THEN "SERVICE_FILE_ACCESS_FAILED"
    ELSE IF x.kind # "PREPARE_SERVICE" /\ disk[ServiceFile] # x.svc.id THEN "SERVICE_RESOURCE_CHANGED"
    ELSE None

ServiceFailed(e) ==                     \* _set_service_failure_state
    [status |-> IF e = "SERVICE_FILE_ACCESS_FAILED" THEN "UNAVAILABLE" ELSE "STALE",
     rev |-> be.svc.rev + 1, summary |-> None]

ServicePrepared(x) ==
    LET new == [cpu |-> x.cpu, id |-> disk[ServiceFile]]
    IN  [status |-> "READY", summary |-> new,
         rev |-> be.svc.rev + (IF x.svc # None /\ x.svc # new THEN 1 ELSE 0)]

ServiceRead ==
    /\ job.stage = "service"
    /\ LET x == job.ctx  e == service_error(x)
       IN  /\ be' = IF e # None THEN [be EXCEPT !.svc = ServiceFailed(e)]
                    ELSE IF x.kind = "PREPARE_SERVICE" THEN [be EXCEPT !.svc = ServicePrepared(x)] ELSE be
           /\ job' = IF e # None THEN Ended(job, e)
                     ELSE IF x.kind = "PREPARE_SERVICE" THEN Ended(job, "OK")
                     ELSE IF x.kind = "IMAGE_VALID" /\ ~verify_evidence_matches(x)
                     THEN Ended(job, "VERIFY_EVIDENCE_REQUIRED")
                     ELSE [job EXCEPT !.stage = "device"]
           /\ IF e = None /\ x.kind \in AppendKinds
              THEN Dispatch(MetadataWriteStarted(x.cpu, x.gen)) ELSE UNCHANGED rt
    /\ UNCHANGED <<ui, disk, dev, changes>>

-----------------------------------------------------------------------------
(***************************************************************************)
(* The device.  An outcome is the device after the operation, what the     *)
(* task is told, and for an append why nothing was written.  "LATE" is     *)
(* COMPLETED_AFTER_CANCEL_REQUEST, "REFUSED" a status of the device,       *)
(* "LOST" an answer that never came.  Flash operations load the service    *)
(* into RAM first.                                                         *)
(***************************************************************************)
DeviceOutcome(d, r) == [dev |-> d, result |-> r, why |-> None]
Completed == {"OK", "LATE"}
WithService(d) == [d EXCEPT !.ram = "service"]

(***************************************************************************)
(* An operation ended before it touched the Flash: cancelled, refused or   *)
(* lost while the service was loaded.                                      *)
(***************************************************************************)
Unstarted(d) == {DeviceOutcome(e, r) : e \in {d, WithService(d)}, r \in {"CANCELLED", "REFUSED", "LOST"}}

Erased(d, s) ==
    [WithService(d) EXCEPT !.flash = IF "APP" \in s THEN "blank" ELSE @,
                           !.journal = IF "META" \in s THEN BlankJournal ELSE @]
Torn(d) == [WithService(d) EXCEPT !.flash = "torn"]

(***************************************************************************)
(* With REQUIRED_APP_SECTORS the metadata is erased before the image.      *)
(***************************************************************************)
PartlyErased(d, x) ==
    {Erased(d, s) : s \in {t \in SUBSET x.mask : x.scope = "REQUIRED" /\ "APP" \in t => "META" \in t}}
    \cup {Torn(Erased(d, s)) : s \in {t \in {x.mask, x.mask \ {"META"}} :
                /\ "APP" \in t
                /\ x.scope = "REQUIRED" => t = x.mask}}

ErasePath(d, x) ==
    Unstarted(d)
    \cup {DeviceOutcome(Erased(d, x.mask), r) : r \in Completed}
    \cup {DeviceOutcome(e, r) : e \in PartlyErased(d, x), r \in {"REFUSED", "LOST"}}

ProgramPath(d, img) ==
    Unstarted(d)
    \cup {DeviceOutcome(Torn(d), r) : r \in {"CANCELLED", "REFUSED", "LOST"}}
    \cup IF d.flash # "blank" THEN {}
         ELSE {DeviceOutcome([WithService(d) EXCEPT !.flash = img], r) : r \in Completed \cup {"REFUSED", "LOST"}}

VerifyPath(d, img) ==
    Unstarted(d) \cup (IF d.flash = img THEN {DeviceOutcome(WithService(d), r) : r \in Completed} ELSE {})

(***************************************************************************)
(* The append operations look at the journal before they write.            *)
(***************************************************************************)
AppendReason(k, j) ==
    IF k = "IMAGE_VALID" THEN IF j.image # None THEN "IMAGE_VALID_ALREADY_EXISTS" ELSE None
    ELSE IF j.image = None THEN "IMAGE_VALID_REQUIRED"
    ELSE IF j.confirmed THEN "APP_CONFIRMED_ALREADY_EXISTS"
    ELSE IF k = "BOOT_ATTEMPT" THEN IF j.attempts >= Limit THEN "BOOT_ATTEMPT_LIMIT_REACHED" ELSE None
    ELSE IF j.attempts = 0 THEN "BOOT_ATTEMPT_REQUIRED" ELSE None

Appended(k, j, img) ==
    IF AppendReason(k, j) # None THEN j
    ELSE CASE k = "IMAGE_VALID" -> [j EXCEPT !.image = img]
           [] k = "BOOT_ATTEMPT" -> [j EXCEPT !.attempts = @ + 1]
           [] OTHER -> [j EXCEPT !.confirmed = TRUE]

AppendPath(d, x, img) ==
    LET done == [WithService(d) EXCEPT !.journal = Appended(x.kind, @, img)]
    IN  Unstarted(d) \cup
        {[dev |-> done, result |-> r, why |-> AppendReason(x.kind, d.journal)]
            : r \in Completed \cup {"REFUSED", "LOST"}}

RamPath(d, x, img) ==
    LET loaded(i) == [d EXCEPT !.ram = i]
    IN  CASE x.kind = "RAM_LOAD" ->
                {DeviceOutcome(d, "CANCELLED"), DeviceOutcome(d, "REFUSED"), DeviceOutcome(d, "LOST")}
                \cup {DeviceOutcome(loaded(None), r) : r \in {"CANCELLED", "REFUSED", "LOST"}}
                \cup {DeviceOutcome(loaded(img), r) : r \in Completed \cup {"LOST"}}
          [] x.kind = "RAM_CRC" ->
                {DeviceOutcome(d, IF d.ram = img THEN "OK" ELSE "REFUSED"), DeviceOutcome(d, "LOST")}
          [] OTHER ->
                {DeviceOutcome(d, "REFUSED"), DeviceOutcome(d, "LOST")}
                \cup IF d.ram = None THEN {}
                     ELSE {DeviceOutcome([d EXCEPT !.link = FALSE], r) : r \in {"OK", "LOST"}}

RunPath(d) ==
    {DeviceOutcome(d, "REFUSED"), DeviceOutcome(d, "LOST")}
    \cup IF d.journal.image = None THEN {}
         ELSE {DeviceOutcome([d EXCEPT !.link = FALSE], r) : r \in {"OK", "LOST"}}

ReadPath(d, x) ==
    {DeviceOutcome(d, r) : r \in {"OK", "REFUSED", "LOST"} \cup
                            (IF x.kind = "MEMORY" THEN {"LATE", "CANCELLED"} ELSE {})}

DeviceOutcomes(d, x, img) ==
    IF ~d.link THEN {DeviceOutcome(d, "LOST")}
    ELSE CASE x.kind = "ERASE" -> ErasePath(d, x)
           [] x.kind = "PROGRAM" -> ProgramPath(d, img)
           [] x.kind = "VERIFY" -> VerifyPath(d, img)
           [] x.kind \in AppendKinds -> AppendPath(d, x, img)
           [] x.kind \in RamKinds -> RamPath(d, x, img)
           [] x.kind = "RUN" -> RunPath(d)
           [] OTHER -> ReadPath(d, x)

-----------------------------------------------------------------------------
(***************************************************************************)
(* _dispatch_clean_verify_success and _dispatch_clean_ram_crc_success: the *)
(* operation ended cleanly, and neither the file nor the configuration     *)
(* changed meanwhile.                                                      *)
(***************************************************************************)
CleanSuccess(x, r) == r = "OK" /\ x.path \notin job.touched /\ Problem(x) = None

(***************************************************************************)
(* The event a read or a verification ends with.                           *)
(***************************************************************************)
ReadEvent(x, r) ==
    CASE x.kind = "METADATA" ->
            IF r = "OK" THEN MetadataReadSucceeded(x.cpu, x.gen, dev[x.cpu].journal)
            ELSE MetadataReadFailed(x.cpu, x.gen)
      [] x.kind = "MEMORY" ->
            IF r \in Completed THEN MemoryReadSucceeded(x.cpu, x.gen, "words")
            ELSE MemoryReadFailed(x.cpu, x.gen)
      [] OTHER ->
            IF r = "OK" THEN DiagnosticReadSucceeded(x.cpu, x.gen, x.kind, "reading")
            ELSE DiagnosticReadFailed(x.cpu, x.gen, x.kind)

OperationEnds(x, r) ==
    IF x.kind \in {"VERIFY", "RAM_CRC"} /\ CleanSuccess(x, r)
    THEN Dispatch(OperationSucceeded(x.kind, x.cpu, x.gen, job.reason))
    ELSE IF x.kind \in ReadKinds /\ r # "CANCELLED" THEN Dispatch(ReadEvent(x, r))
    ELSE UNCHANGED rt

DeviceUsed ==
    /\ job.stage = "device"
    /\ \E o \in DeviceOutcomes(dev[job.ctx.cpu], job.ctx, job.reason) :
          /\ dev' = [dev EXCEPT ![job.ctx.cpu] = o.dev]
          /\ job' = IF job.ctx.kind \in WriteKinds /\ o.result \in Completed
                    THEN [job EXCEPT !.stage = "refresh", !.result = o.result, !.touched = {}, !.reason = o.why]
                    ELSE [Ended(job, o.result) EXCEPT !.reason = None]
          /\ OperationEnds(job.ctx, o.result)
    /\ UNCHANGED <<be, ui, disk, changes>>

(***************************************************************************)
(* _metadata_readback_matches: does the journal read after an append agree *)
(* with what the append reported?                                          *)
(***************************************************************************)
readback_matches(x, why, j) ==
    LET source == IF x.kind = "IMAGE_VALID" THEN x.id ELSE x.meta.image
        image_matches == j.image # None /\ j.image = source
    IN  CASE why = "IMAGE_VALID_ALREADY_EXISTS" -> j.image # None
          [] why = "IMAGE_VALID_REQUIRED" -> j.image = None
          [] why = "APP_CONFIRMED_ALREADY_EXISTS" -> image_matches /\ j.confirmed
          [] why = "BOOT_ATTEMPT_LIMIT_REACHED" -> image_matches /\ j.attempts >= Limit
          [] why = "BOOT_ATTEMPT_REQUIRED" -> image_matches /\ j.attempts = 0
          [] OTHER -> /\ image_matches
                      /\ x.kind = "BOOT_ATTEMPT" => j.attempts = x.meta.attempts + 1
                      /\ x.kind = "APP_CONFIRMED" => j.confirmed

(***************************************************************************)
(* _refresh_metadata_after_write.  A refresh that fails is a warning: the  *)
(* result of the operation stands.                                         *)
(***************************************************************************)
MetadataRefreshed ==
    /\ job.stage = "refresh"
    /\ LET x == job.ctx  j == dev[x.cpu].journal
       IN  \/ /\ dev[x.cpu].link
              /\ Dispatch(MetadataReadSucceeded(x.cpu, x.gen, j))
              /\ job' = [Ended(job, IF x.kind \in AppendKinds /\ ~readback_matches(x, job.reason, j)
                                   THEN "METADATA_READBACK_MISMATCH" ELSE job.result) EXCEPT !.reason = None]
           \/ /\ Dispatch(MetadataReadFailed(x.cpu, x.gen))
              /\ job' = [Ended(job, job.result) EXCEPT !.reason = None]
    /\ UNCHANGED <<be, ui, disk, dev, changes>>

-----------------------------------------------------------------------------
(***************************************************************************)
(* The controller: _finish_task and respond_task_action.                   *)
(***************************************************************************)
AsksDisconnect(r) == r \in {"LOST", "METADATA_READBACK_MISMATCH"}
ReleasesConnection(x, r) == x.kind \in {"RUN", "RAM_RUN"} /\ r \in Completed

CloseConnection ==
    /\ Dispatch(ConnectionClosed(rt.gen))
    /\ ui' = [ui EXCEPT !.suspect = FALSE]
    /\ dev' = [dev EXCEPT ![Cpu].link = FALSE]
    /\ job' = NoJob

TaskFinished ==
    /\ job.stage = "done"
    /\ CASE AsksDisconnect(job.result) ->
              /\ job' = [job EXCEPT !.stage = "ask"]
              /\ ui' = [ui EXCEPT !.suspect = TRUE]
              /\ UNCHANGED <<rt, dev>>
         [] ReleasesConnection(job.ctx, job.result) -> CloseConnection
         [] OTHER -> job' = NoJob /\ UNCHANGED <<rt, ui, dev>>
    /\ UNCHANGED <<be, disk, changes>>

KeepConnection ==
    /\ job.stage = "ask"
    /\ job' = NoJob
    /\ UNCHANGED <<rt, be, ui, disk, dev, changes>>

DisconnectSuspect ==
    /\ job.stage = "ask"
    /\ CloseConnection
    /\ UNCHANGED <<be, disk, changes>>

-----------------------------------------------------------------------------
(***************************************************************************)
(* The device loses power, and an application that was booted confirms     *)
(* itself.                                                                 *)
(***************************************************************************)
PowerCycle(c) ==
    /\ Change /\ dev[c].link
    /\ dev' = [dev EXCEPT ![c].link = FALSE, ![c].ram = None]
    /\ UNCHANGED <<rt, be, ui, job, disk>>

ApplicationConfirms(c) ==
    /\ ~dev[c].link
    /\ dev[c].journal.image # None /\ dev[c].journal.attempts > 0 /\ ~dev[c].journal.confirmed
    /\ dev' = [dev EXCEPT ![c].journal.confirmed = TRUE]
    /\ UNCHANGED <<rt, be, ui, job, disk, changes>>

-----------------------------------------------------------------------------
(***************************************************************************)
(* What the pages do with a result: _task_finished, with the state s and   *)
(* the revisions b they find when the task has finished.                   *)
(***************************************************************************)
same_connection(x, s) == s.conn = None \/ s.conn = [gen |-> x.gen, cpu |-> x.cpu]

program_inputs_current(x, s, b) ==
    LET i == s.res[x.cpu].program
    IN  /\ b.prog[x.cpu] = x.rev /\ i.status = "READY" /\ i.path = x.path /\ i.summary = x.id
        /\ x.tool = b.tool

non_service_context_current(x, s, b) ==
    /\ x.kind \in FlashKinds \cup {"IMAGE_VALID"} => program_inputs_current(x, s, b)
    /\ x.kind \in {"BOOT_ATTEMPT", "APP_CONFIRMED"} /\ s.conn # None => x.tool = b.tool
    /\ same_connection(x, s)

context_current(x, s, b) == non_service_context_current(x, s, b) /\ x.svcRev = b.svc.rev

current_service_failure(x, r, s, b) ==
    /\ r \in {"SERVICE_CHANGED_DURING_PREPARATION", "SERVICE_FILE_ACCESS_FAILED", "SERVICE_RESOURCE_CHANGED"}
    /\ non_service_context_current(x, s, b)
    /\ b.svc.status \in {"STALE", "UNAVAILABLE"}
    /\ b.svc.rev = x.svcRev + 1

current_program_failure(x, r, s, b) ==
    /\ r \in {"IMAGE_CHANGED_DURING_PREPARATION", "IMAGE_FILE_ACCESS_FAILED", "IMAGE_CHANGED"}
    /\ s.res[x.cpu].program = [path |-> x.path, summary |-> None, status |-> "ERROR"]
    /\ b.prog[x.cpu] = x.rev /\ b.svc.rev = x.svcRev /\ x.tool = b.tool
    /\ same_connection(x, s)

flash_task_finished(x, r, s, b) ==
    \/ current_service_failure(x, r, s, b)
    \/ current_program_failure(x, r, s, b)
    \/ context_current(x, s, b)

metadata_task_finished(x, r, s, b) ==
    \/ current_service_failure(x, r, s, b)
    \/ x.kind = "IMAGE_VALID" /\ current_program_failure(x, r, s, b)
    \/ context_current(x, s, b)

ram_task_finished(x, s, b) == b.ram[x.cpu] = x.rev /\ same_connection(x, s)

shown(x, r, s, b) ==
    CASE x.kind \in FlashKinds -> flash_task_finished(x, r, s, b)
      [] x.kind \in AppendKinds -> metadata_task_finished(x, r, s, b)
      [] x.kind \in RamKinds -> ram_task_finished(x, s, b)
      [] OTHER -> TRUE

-----------------------------------------------------------------------------
TasksNext ==
    \/ \E c \in Cpus :
          \/ \E f \in ProgramFiles : SetProgramPath(c, f)
          \/ \E f \in RamFiles : SetRamPath(c, f)
          \/ ClearMemory(c)
          \/ OpenConnection(c)
          \/ PrepareProgramImage(c)
          \/ PrepareRamImage(c)
          \/ PrepareFlashService(c)
          \/ PowerCycle(c)
          \/ ApplicationConfirms(c)
    \/ SetImageToolPaths
    \/ RefreshFlashService
    \/ \E s \in Scopes, k \in Masks : SetEraseConfiguration(s, k)
    \/ ApplySessionChange
    \/ \E f \in Files : \E v \in Holds(f) : FileChanged(f, v)
    \/ Disconnect
    \/ Idle /\ \E k \in Kinds : Submit(k) \/ Present(k)
    \/ Confirm
    \/ RejectWrite
    \/ Start
    \/ ImageRead
    \/ ServiceRead
    \/ DeviceUsed
    \/ MetadataRefreshed
    \/ TaskFinished
    \/ KeepConnection
    \/ DisconnectSuspect

TasksSpec == TasksInit /\ [][TasksNext]_taskVars

Symmetry == Permutations(FlashImages)

-----------------------------------------------------------------------------
ActiveStages == {"queued", "image", "service", "device", "refresh", "done", "ask"}
Stages == ActiveStages \cup {None}

(***************************************************************************)
(* The error codes of the backend's checks, of reading a file and of the   *)
(* append operations.                                                      *)
(***************************************************************************)
ErrorCodes == {"STALE_CONNECTION", "PREPARED_FLASH_IMAGE_REQUIRED", "STALE_IMAGE_CONFIGURATION",
               "PREPARED_RAM_IMAGE_REQUIRED", "PREPARED_FLASH_SERVICE_REQUIRED",
               "STALE_SERVICE_CONFIGURATION", "STALE_METADATA_CONFIGURATION", "UNSUPPORTED_OPERATION",
               "FORBIDDEN_SECTOR", "VERIFY_EVIDENCE_REQUIRED", "RAM_CRC_EVIDENCE_REQUIRED",
               "STALE_TARGET", "IMAGE_VALID_REQUIRED", "IMAGE_SELECTION_CHANGED",
               "SERVICE_CONFIGURATION_CHANGED", "IMAGE_CHANGED_DURING_PREPARATION",
               "IMAGE_FILE_ACCESS_FAILED", "IMAGE_CHANGED", "SERVICE_CHANGED_DURING_PREPARATION",
               "SERVICE_FILE_ACCESS_FAILED", "SERVICE_RESOURCE_CHANGED", "IMAGE_VALID_ALREADY_EXISTS",
               "APP_CONFIRMED_ALREADY_EXISTS", "BOOT_ATTEMPT_LIMIT_REACHED", "BOOT_ATTEMPT_REQUIRED",
               "METADATA_READBACK_MISMATCH"}

(***************************************************************************)
(* Python's None is no string, no image, no path, no connection, no        *)
(* evidence and no service summary, and the name of a diagnostic group is  *)
(* the name of no other task.                                              *)
(***************************************************************************)
ASSUME NoneIsApart ==
    /\ None \notin ActiveStages \cup ErrorCodes \cup Contents \cup Files
    /\ None \notin [gen : Nat, cpu : Cpus]
    /\ None \notin [cpu : Cpus, gen : Nat, id : Contents]
    /\ None \notin [cpu : Cpus, id : Contents]
ASSUME GroupsAreApart ==
    Groups \cap (FlashKinds \cup AppendKinds \cup RamKinds \cup PrepareKinds
                    \cup {"METADATA", "MEMORY", "RUN"}) = {}

(***************************************************************************)
(* The state is well formed.                                               *)
(***************************************************************************)
TasksTypeOK ==
    /\ SnapshotValid(rt)
    /\ rt.gen \in 0..MaxGen
    /\ be.svc.status \in {"UNVALIDATED", "READY", "STALE", "UNAVAILABLE"}
    /\ (be.svc.status = "READY") = (be.svc.summary # None)
    /\ job.stage \in Stages
    /\ disk \in [Files -> Contents]
    /\ changes \in 0..MaxChanges

(***************************************************************************)
(* What the pages show as verified is in the Flash: while the device is    *)
(* reachable on the connection of the evidence, its Flash holds the image  *)
(* the evidence names.  Evidence of another connection or of an image that *)
(* is no longer the prepared one does not exist.                           *)
(***************************************************************************)
EvidenceIsTrue ==
    \A c \in Cpus : rt.res[c].verify # None =>
        /\ rt.conn = [gen |-> rt.res[c].verify.gen, cpu |-> c]
        /\ dev[c].flash = rt.res[c].verify.id

(***************************************************************************)
(* Metadata shown as FRESH is what the journal holds, as long as the       *)
(* device has not left the bootloader behind the program's back.           *)
(***************************************************************************)
FreshMetadataIsTrue ==
    rt.meta.freshness = "FRESH" /\ dev[Cpu].link => rt.meta.value = dev[Cpu].journal

(***************************************************************************)
(* The CRC evidence RUN RAM rests on was earned on this connection and for *)
(* an image that is still in RAM, unless a Flash operation loaded the      *)
(* Flash service over it.                                                  *)
(***************************************************************************)
RamEvidenceIsTrue ==
    \A c \in Cpus : rt.res[c].crc # None =>
        /\ rt.conn = [gen |-> rt.res[c].crc.gen, cpu |-> c]
        /\ dev[c].link => dev[c].ram \in {rt.res[c].crc.id, "service"}

(***************************************************************************)
(* What is shown as FRESH was read on the active connection.               *)
(***************************************************************************)
FreshBelongsToConnection ==
    /\ \A c \in Cpus : rt.mem[c].freshness = "FRESH" =>
            rt.conn = [gen |-> rt.mem[c].gen, cpu |-> c]
    /\ rt.meta.freshness = "FRESH" => Connected
    /\ \A g \in Groups : rt.diag[g].freshness = "FRESH" => Connected

(***************************************************************************)
(* What a page offers the backend accepts: the conditions that enable a    *)
(* button and the checks made again when the worker starts agree.          *)
(***************************************************************************)
EnabledIsAccepted ==
    Idle => \A k \in Kinds \ PrepareKinds : Context(k) # NoContext => Problem(Context(k)) = None

(***************************************************************************)
(* The readback after an append contradicts the append only when the       *)
(* device really differs from what the user was shown.                     *)
(***************************************************************************)
NoFalseMismatch == job.result # "METADATA_READBACK_MISMATCH"

(***************************************************************************)
(* A job writes nothing but what was confirmed, to the device and the      *)
(* connection it was confirmed for: the Flash changes only to the image    *)
(* the user prepared, or to what an unfinished or an erase operation       *)
(* leaves, and the journal trusts only an image that is in the Flash.      *)
(***************************************************************************)
ConfirmedIsExecuted ==
    [][\A c \in Cpus :
        /\ dev'[c].flash # dev[c].flash =>
              /\ rt.conn = [gen |-> job.ctx.gen, cpu |-> c] /\ job.ctx.cpu = c
              /\ dev'[c].flash \in {"blank", "torn", Program(c).summary}
              /\ job.ctx.rev = be.prog[c]
        /\ dev'[c].journal.image \notin {None, dev[c].journal.image} =>
              dev[c].flash = dev'[c].journal.image]_taskVars

(***************************************************************************)
(* The outcome of every Flash, append and RAM operation reaches the page   *)
(* it was asked from, failures to read a file included.  The one exception *)
(* is a RAM operation whose image was replaced by another choice before it *)
(* ended.  (The pages of RUN, the reads and the preparations show what     *)
(* they get without comparing.)                                            *)
(***************************************************************************)
ResultIsShown ==
    [][job.stage \in {"done", "ask"} /\ job'.stage = None =>
        \/ shown(job.ctx, job.result, rt', be')
        \/ job.ctx.kind \in RamKinds /\ be'.ram[job.ctx.cpu] # job.ctx.rev]_taskVars

(***************************************************************************)
(* Whatever the pages show as verified, checked or fresh is true of the    *)
(* device on the active connection (the policies of runtime_v2_policies).  *)
(***************************************************************************)
ShownIsTrue ==
    EvidenceIsTrue /\ RamEvidenceIsTrue /\ FreshMetadataIsTrue /\ FreshBelongsToConnection

(***************************************************************************)
(* Pages, worker and device agree on what can be done: nothing is offered  *)
(* that is then refused, and no readback contradicts an append in vain.    *)
(***************************************************************************)
TasksInv == TasksTypeOK /\ EnabledIsAccepted /\ NoFalseMismatch

=============================================================================
