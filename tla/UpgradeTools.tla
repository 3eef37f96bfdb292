---------------------------- MODULE UpgradeTools ----------------------------
(***************************************************************************)
(* The command-line tools of tools/*.py and core.UpgradeWorkflow under     *)
(* them, against the simulated device: a tool is a script of protocol      *)
(* requests and of decisions on what was read, run to its end or to its    *)
(* first failure.  Requests and answers are lost, the device faults and    *)
(* loses power between any two requests.                                   *)
(*                                                                         *)
(* The tool "workflow" stands for a program that keeps one UpgradeWorkflow *)
(* and calls its methods in any order, also after a failure.  Images are   *)
(* taken to be valid.                                                      *)
(***************************************************************************)
EXTENDS SimulatorCore

CONSTANTS
  WorkflowImages,  \* bound: images the program that drives a workflow handles
  MaxLost          \* bound: exchanges lost on the wire and losses of power

ASSUME ToolsAssumption == WorkflowImages \subseteq Images /\ MaxLost \in Nat

VARIABLES
  device,     \* the simulated device
  tool,       \* the running tool
  workflow,   \* its UpgradeWorkflow
  report,     \* what the last tool printed
  stale,      \* history: app sectors were erased by hand under a journal left in place
  lost        \* exchanges and power lost so far

vars == <<device, tool, workflow, report, stale, lost>>

-----------------------------------------------------------------------------
(* Scripts.  A step is a request, sent by the client itself or by the      *)
(* workflow's _transact, or a decision.                                    *)

NoReq == Req("none", None)
Do(what) == <<[do |-> what, q |-> NoReq]>>
Ask(by, q) == <<[do |-> by, q |-> q]>>
Client(command, image) == Ask("client", Req(command, image))
Append_(by, type, image) == Ask(by, [Req("METADATA_APPEND_RECORD", image) EXCEPT !.type = type])

\* _transfer, and the RAM_LOAD loops: BEGIN, every packet, END.
Transfer(by, k, image) ==
  Ask(by, [Req("BEGIN", image) EXCEPT !.type = k])
    \o [i \in 1 .. Packets(image) |->
          [do |-> by, q |-> [Req("DATA", image) EXCEPT !.type = k, !.index = i - 1]]]
    \o Ask(by, [Req("END", image) EXCEPT !.type = k])

load_and_attach_service ==
  Transfer("client", "RAM_LOAD", Service) \o Client("RAM_CHECK_CRC", Service)
    \o Client("SERVICE_ATTACH", Service) \o Client("GET_SERVICE_STATUS", None) \o Do("attached?")
run_ram_image ==
  Transfer("client", "RAM_LOAD", RamApp) \o Client("RAM_CHECK_CRC", RamApp) \o Client("RUN_RAM", RamApp)

\* The requests of these change the workflow's flags (Sending, OnOk).
erase(sectors) == Ask("modify", [Req("ERASE", None) EXCEPT !.sectors = sectors])
program(image) == Transfer("modify", "PROGRAM", image)
verify(image) == Transfer("verify", "VERIFY", image)
dfu(sectors, image) ==
  erase(sectors) \o program(image) \o verify(image) \o Append_("dfu", "IMAGE_VALID", image)

\* UpgradeWorkflow.run
workflow_run(image) ==
  Do("verified?") \o Client("GET_METADATA_SUMMARY", None) \o Do("runnable?")
    \o Ask("workflow", Req("RUN", image))

collect_boot_status == Client("GET_METADATA_SUMMARY", None)
ensure_service_attached == Client("GET_SERVICE_STATUS", None) \o Do("service?")

\* perform_dfu_erase, resolve_dfu_erase_masks and resolve_manual_erase_masks: the
\* metadata sector goes first and alone.
MutantEraseMasks(sectors) ==
  erase(sectors \ {"metadata"}) \o erase(sectors \cap {"metadata"})
erase_masks(sectors) ==
  (IF "metadata" \in sectors THEN erase({"metadata"}) ELSE <<>>)
    \o (IF sectors \ {"metadata"} # {} THEN erase(sectors \ {"metadata"}) ELSE <<>>)

verify_app_and_write_image_valid(image) ==
  verify(image) \o Append_("client", "IMAGE_VALID", image)

Masks == {{"metadata"}, {"app"}, {"metadata", "app"}}
Connect == Client("GET_DEVICE_INFO", None)

\* What each tool does; the flash and upgrade flows unfold at "flash?".
run_cpu1_status == Connect \o collect_boot_status
run_cpu1_attach_service == Connect \o ensure_service_attached
run_cpu1_erase(sectors) == Connect \o ensure_service_attached \o erase_masks(sectors)
run_cpu1_program(image) == Connect \o ensure_service_attached \o program(image)
run_cpu1_verify(image) ==
  Connect \o ensure_service_attached \o verify_app_and_write_image_valid(image)
run_cpu1_flash == Connect \o collect_boot_status \o Do("flash?")   \* and upgrade --no-run
run_cpu1_run == Connect \o collect_boot_status \o Do("attempt?") \o Do("send_run")
run_cpu1_upgrade == run_cpu1_flash \o Do("attempt?") \o Do("send_run")
write_app_confirmed_and_verify == Do("confirm") \o collect_boot_status \o Do("confirmed?")
run_cpu1_confirm ==
  Connect \o collect_boot_status \o Do("confirmable?") \o ensure_service_attached
    \o write_app_confirmed_and_verify
app_confirm_probe ==
  Connect \o load_and_attach_service \o collect_boot_status \o Do("confirmable?")
    \o Do("confirm") \o collect_boot_status \o Do("confirmed?")
service_attach_probe == Connect \o load_and_attach_service
service_flash_probe(sectors, image) ==
  Connect \o load_and_attach_service \o dfu(sectors, image) \o workflow_run(image)
ram_run == Connect \o run_ram_image
run_cpu1_ram_run == Connect \o run_ram_image
metadata_probe ==
  Connect \o Client("GET_PROTOCOL_INFO", None) \o Client("GET_METADATA_SUMMARY", None)
    \o Client("MEMORY_READ", None)

\* run_command
Script(name, image, sectors) ==
  CASE name = "status" -> run_cpu1_status
    [] name = "attach-service" -> run_cpu1_attach_service
    [] name = "erase" -> run_cpu1_erase(sectors)
    [] name = "program" -> run_cpu1_program(image)
    [] name = "verify" -> run_cpu1_verify(image)
    [] name = "flash" -> run_cpu1_flash
    [] name = "run" -> run_cpu1_run
    [] name = "confirm" -> run_cpu1_confirm
    [] name = "upgrade" -> run_cpu1_upgrade
    [] name = "app_confirm_probe" -> app_confirm_probe
    [] name = "service_attach_probe" -> service_attach_probe
    [] name = "service_flash_probe" -> service_flash_probe(sectors, image)
    [] name = "ram_run" -> ram_run
    [] name = "cpu1_ram_run" -> run_cpu1_ram_run
    [] name = "metadata_probe" -> metadata_probe
    [] name = "workflow" -> Connect

Tools == {"status", "attach-service", "erase", "program", "verify", "flash", "upgrade", "run",
          "confirm", "app_confirm_probe", "service_attach_probe", "service_flash_probe", "ram_run",
          "cpu1_ram_run", "metadata_probe", "workflow"}
TakesImage == {"program", "verify", "flash", "upgrade", "service_flash_probe"}
TakesMask == {"erase", "service_flash_probe"}

NoTool == [name |-> "none"]
NewTool(name, image, sectors, force) ==
  [name |-> name, image |-> image, force |-> force, todo |-> Script(name, image, sectors),
   summary |-> Summary(NewDevice(FALSE)), matches |-> FALSE, flashed |-> FALSE, attempted |-> FALSE,
   changed |-> FALSE]

\* UpgradeWorkflow.__init__
NewWorkflow == [state |-> "READY", modified |-> FALSE, verified |-> FALSE]

NoReport == [of |-> "none", image |-> None, ok |-> FALSE, flashed |-> FALSE, attempted |-> FALSE]

Init ==
  /\ device = NewDevice(TRUE)
  /\ tool = NoTool /\ workflow = NewWorkflow /\ report = NoReport
  /\ stale = FALSE /\ lost = 0

-----------------------------------------------------------------------------
(* Running a tool. *)

Start ==
  /\ tool = NoTool
  /\ \E name \in Tools, force \in BOOLEAN :
     \E image \in IF name \in TakesImage THEN Images ELSE {None},
        sectors \in IF name \in TakesMask THEN Masks ELSE {{}} :
       /\ force => name \in {"flash", "upgrade", "attach-service"}
       /\ tool' = NewTool(name, image, sectors, force)
  /\ workflow' = NewWorkflow /\ report' = NoReport
  /\ UNCHANGED <<device, stale, lost>>

\* main: the tool prints its result or its error, and closes the client.
Finish(ok) ==
  /\ report' = [of |-> tool.name, image |-> tool.image, ok |-> ok, flashed |-> tool.flashed,
                attempted |-> tool.attempted]
  /\ tool' = NoTool /\ workflow' = NewWorkflow

\* An exception ends a tool; a program that uses the workflow goes on with it.
Raise(w) ==
  IF tool.name = "workflow"
  THEN /\ tool' = [NewTool("workflow", None, {}, FALSE) EXCEPT
                      !.todo = <<>>, !.changed = tool.changed \/ device'.flash # device.flash]
       /\ workflow' = w /\ UNCHANGED report
  ELSE Finish(FALSE)

Running(by) == tool # NoTool /\ tool.todo # <<>> /\ Head(tool.todo).do \in by

\* History: q has changed Flash since the program around a workflow began.
Touches(q) == tool.name = "workflow" /\ Respond(device, q, "none").device.flash # device.flash

\* What the tool keeps of an answer.
Answered(q) ==
  LET t == [tool EXCEPT !.todo = Tail(@), !.changed = @ \/ Touches(q)] IN
  CASE q.command = "GET_METADATA_SUMMARY" -> [t EXCEPT !.summary = Summary(device)]
    [] q.command = "GET_SERVICE_STATUS" -> [t EXCEPT !.matches = device.service = "ATTACHED"]
    [] OTHER -> t

\* Tools whose user chooses the sectors to erase.
ByHand == {"erase", "service_flash_probe", "workflow"}

\* Erasing application sectors by hand under a journal that stays makes it stale; what
\* makes it true again is a new IMAGE_VALID or the loss of all records.
Staleness(q, d) ==
  CASE q.command = "ERASE" -> d.journal # <<>>
         /\ (stale \/ (d.flash # device.flash /\ tool.name \in ByHand))
    [] q.command = "METADATA_APPEND_RECORD" /\ q.type = "IMAGE_VALID" -> stale /\ d = device
    [] OTHER -> stale

\* Flash counts as modified, and as not verified, before the first request of an
\* erase or a program, and as verified after the last of a verify.
Sending(by) ==
  CASE by = "modify" -> [workflow EXCEPT !.modified = TRUE, !.verified = FALSE]
    [] by = "verify" -> [workflow EXCEPT !.verified = FALSE]
    [] OTHER -> workflow
OnOk(by, q) ==
  IF by = "verify" /\ q.command = "END"
  THEN [workflow EXCEPT !.verified = TRUE, !.state = "READY"] ELSE Sending(by)

\* _transact's handlers.  A status error fetches the error detail, which changes
\* nothing; a timeout leaves the state unknown and probes with a PING whose
\* outcome nothing reads.
OnStatusError(by) == IF by = "dfu" THEN [workflow EXCEPT !.verified = FALSE] ELSE Sending(by)
OnTimeout(by) ==
  CASE by = "client" -> workflow
    [] by = "dfu" -> [workflow EXCEPT !.verified = FALSE]
    [] by \in {"workflow", "modify", "verify"} -> [Sending(by) EXCEPT !.state = "UNKNOWN"]

Transact ==
  /\ Running({"client", "workflow", "modify", "verify", "dfu"})
  /\ LET by == Head(tool.todo).do
         q == Head(tool.todo).q
     IN \/ \E fault \in Faults(q) :
             LET a == Respond(device, q, fault) IN
             /\ device' = a.device /\ stale' = Staleness(q, a.device)
             /\ IF a.status = "OK"
                THEN tool' = Answered(q) /\ workflow' = OnOk(by, q) /\ UNCHANGED report
                ELSE Raise(OnStatusError(by))
             /\ UNCHANGED lost
        \/ \E reached \in BOOLEAN :
             LET d == IF reached THEN Respond(device, q, "none").device ELSE device IN
             /\ lost < MaxLost /\ lost' = lost + 1
             /\ device' = d /\ stale' = Staleness(q, d)
             /\ Raise(OnTimeout(by))

-----------------------------------------------------------------------------
(* Decisions: what is to be done next, or Stop for an exception. *)

Stop == Do("raise")

\* Mutant: an attempt on record is not looked at.
MutantEnsureBootAttempt(s) ==
  IF s.image = None THEN Stop
  ELSE IF s.confirmed THEN <<>>
  ELSE ensure_service_attached \o Append_("client", "BOOT_ATTEMPT", s.image)

ensure_boot_attempt(s) ==
  IF s.image = None THEN Stop
  ELSE IF s.confirmed \/ s.attempts > 0 THEN <<>>
  ELSE (IF tool.flashed THEN <<>> ELSE ensure_service_attached)
         \o Append_("client", "BOOT_ATTEMPT", s.image)

\* Mutant: entry points are compared and nothing else.
MutantSameImage(s, image) == EntryPoint(s.image) = EntryPoint(image)
same_image(s, image) == s.image = image

\* run_flash_flow
run_flash_flow ==
  IF same_image(tool.summary, tool.image) /\ ~tool.force THEN <<>>
  ELSE ensure_service_attached \o Do("flash") \o collect_boot_status

\* UpgradeWorkflow.run spends an attempt on every run of an unconfirmed image.
Runnable(s, image) ==
  IF s.image = None \/ EntryPoint(s.image) # EntryPoint(image) THEN Stop
  ELSE IF s.confirmed THEN <<>>
  ELSE IF s.attempts >= AttemptLimit THEN Stop
  ELSE Append_("client", "BOOT_ATTEMPT", s.image)

\* preview_boot_policy: may the bootloader start the application by itself?
preview_boot_policy(s) ==
  IF s.image = None THEN "NO_IMAGE_VALID"
  ELSE IF s.attempts = 0 THEN IF s.confirmed THEN "METADATA_INVALID" ELSE "FIRST_TRIAL_REQUIRES_PC_RUN"
  ELSE IF s.confirmed THEN "APP_CONFIRMED" ELSE "WAIT_APP_CONFIRM"

\* _require_current_attempt
require_current_attempt(s) == IF s.image = None \/ s.attempts = 0 THEN Stop ELSE <<>>

Decision(do) ==
  LET s == tool.summary IN
  CASE do = "service?" -> IF tool.matches /\ ~tool.force THEN <<>> ELSE load_and_attach_service
    [] do = "attached?" -> IF tool.matches THEN <<>> ELSE Stop
    [] do = "flash?" -> run_flash_flow
    [] do = "flash" -> erase_masks({"metadata", "app"}) \o program(tool.image)
                         \o verify_app_and_write_image_valid(tool.image) \o Do("flashed")
    [] do = "attempt?" -> ensure_boot_attempt(s)
    [] do = "send_run" -> IF s.image = None THEN Stop ELSE Client("RUN", s.image)
    [] do = "confirmable?" -> require_current_attempt(s)
    [] do = "confirm" -> Append_("client", "APP_CONFIRMED", s.image)
    [] do = "confirmed?" -> IF preview_boot_policy(s) = "APP_CONFIRMED" THEN <<>> ELSE Stop
    [] do = "verified?" -> IF workflow.modified /\ ~workflow.verified THEN Stop ELSE <<>>
    [] do = "runnable?" -> Runnable(s, tool.image)
    [] OTHER -> <<>>

Decides ==
  /\ Running({"service?", "attached?", "flash?", "flash", "attempt?", "send_run", "confirmable?",
              "confirm", "confirmed?", "verified?", "runnable?", "flashed"})
  /\ UNCHANGED <<device, stale, lost>>
  /\ LET do == Head(tool.todo).do
         next == Decision(do)
     IN IF next = Stop THEN Raise(workflow)
        ELSE /\ tool' = [tool EXCEPT !.todo = next \o Tail(@),
                                     !.matches = FALSE,
                                     !.flashed = @ \/ do = "flashed",
                                     !.attempted = @ \/ (do = "attempt?" /\ next # <<>>)]
             /\ UNCHANGED <<workflow, report>>

Done ==
  /\ tool # NoTool /\ tool.name # "workflow" /\ tool.todo = <<>>
  /\ Finish(TRUE)
  /\ UNCHANGED <<device, stale, lost>>

\* The program around an UpgradeWorkflow calls its next method, or ends.
Call ==
  /\ tool # NoTool /\ tool.name = "workflow" /\ tool.todo = <<>>
  /\ \/ \E image \in WorkflowImages, sectors \in Masks :
          \E call \in {<<None, erase(sectors)>>, <<None, program(image)>>, <<None, verify(image)>>,
                       <<None, dfu(sectors, image)>>, <<image, workflow_run(image)>>,
                       <<None, Ask("workflow", Req("RESET", None))>>,
                       <<None, load_and_attach_service>>, <<None, run_ram_image>>} :
            tool' = [NewTool("workflow", call[1], {}, FALSE) EXCEPT
                       !.todo = call[2], !.changed = tool.changed]
       /\ UNCHANGED <<workflow, report>>
     \/ Finish(TRUE)
  /\ UNCHANGED <<device, stale, lost>>

\* The device loses power or resets: Flash stays, RAM and its sessions do not.
PowerCycle ==
  /\ lost < MaxLost /\ lost' = lost + 1
  /\ device' = [NewDevice(device.require) EXCEPT !.flash = device.flash, !.journal = device.journal]
  /\ UNCHANGED <<tool, workflow, report, stale>>

Next == Start \/ Transact \/ Decides \/ Done \/ Call \/ PowerCycle

Spec == Init /\ [][Next]_vars

-----------------------------------------------------------------------------
(* Properties. *)

Holds(image) == \A a \in 1 .. image : device.flash[a] = image

TypeOK ==
  /\ device.flash \in [Addresses -> Images \cup {None}]
  /\ Len(device.journal) <= RecordCount
  /\ \A k \in Transfers : device.session[k].index <= Packets(device.session[k].image)
  /\ workflow.state \in {"READY", "UNKNOWN"} /\ lost \in 0 .. MaxLost

\* What a tool prints is true of the device: a flash or an upgrade, skipped ones
\* included, leaves an image that is in Flash and on record (run_flash_flow), a
\* confirmation leaves a confirmed image (write_app_confirmed_and_verify), and a
\* run was accepted for an image that had an attempt or a confirmation.
ReportHolds ==
  LET s == Summary(device) IN
  report.ok =>
    /\ report.of \in {"flash", "upgrade", "verify"} => s.image = report.image
    /\ report.of \in {"flash", "upgrade", "verify"} /\ ~stale => Holds(report.image)
    /\ report.of \in {"confirm", "app_confirm_probe"} => s.confirmed /\ s.attempts > 0
    /\ report.of \in {"upgrade", "run"} => s.confirmed \/ s.attempts > 0
    /\ report.attempted => s.attempts = 1

\* An image on record is in Flash whole, whatever upgrade, verify or program was
\* cut short by a lost exchange or a loss of power, unless application sectors
\* were erased by hand under the journal.
TrustIsEarned ==
  Summary(device).image # None /\ ~stale => Holds(Summary(device).image)

\* The workflow's flags are true of the device although they are set from answers
\* that may be lost (UpgradeWorkflow._transact): Flash that has changed under the
\* workflow counts as modified, and verified Flash holds an image.
FlagsHold ==
  tool.name = "workflow" =>
    /\ tool.changed => workflow.modified
    /\ workflow.verified => \E image \in Images : Holds(image)

\* cpu1_upgrade run and upgrade spend an attempt only on an image that has none,
\* also when an earlier run lost the answer to its BOOT_ATTEMPT
\* (ensure_boot_attempt).
OneAttempt ==
  [][ tool.name \in {"run", "upgrade"} /\ Summary(device').attempts > Summary(device).attempts
        => Summary(device).attempts = 0 ]_vars

\* What a tool prints, and what a workflow remembers, is true of the device.
ToolsInv == TypeOK /\ ReportHolds /\ FlagsHold

=============================================================================
