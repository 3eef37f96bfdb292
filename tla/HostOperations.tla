--------------------------- MODULE HostOperations ---------------------------
(***************************************************************************)
(* The PC's operations (operations/*.py) against the simulated device: one *)
(* protocol command per step, cancellation requested at any moment and     *)
(* asked for where the code asks, requests and responses lost on the wire, *)
(* device faults, and the cleanup that closes a transfer cut short.        *)
(*                                                                         *)
(* The code asks for cancellation between commands, so a step is "ask,     *)
(* then send one command": a request that comes after the asking is seen   *)
(* by the next step, as in the code.                                       *)
(***************************************************************************)
EXTENDS SimulatorCore

CONSTANTS
  ReadFrames,   \* bound: frames of a MEMORY_READ
  MaxLost       \* bound: exchanges lost on the wire

ASSUME OperationsAssumption == ReadFrames \in Nat \ {0} /\ MaxLost \in Nat

FlashOperations == {"erase_flash_image_area", "erase_sector_mask", "program_flash_image",
                    "verify_flash_image", "append_image_valid", "append_boot_attempt",
                    "append_app_confirmed", "attach_flash_service"}
OneCommand == {"check_ram_crc", "run_flash_app", "run_ram_image", "reset_target", "get_status"}
Operations == FlashOperations \cup OneCommand
                \cup {"load_ram_image", "memory_read", "discover_connected_target"}
UsesImage == {"program_flash_image", "verify_flash_image", "append_image_valid", "run_flash_app"}
Appends == [append_image_valid |-> "IMAGE_VALID", append_boot_attempt |-> "BOOT_ATTEMPT",
            append_app_confirmed |-> "APP_CONFIRMED"]

VARIABLES
  device,      \* the simulated device
  identity,    \* which device answers: supported, or not
  discovered,  \* the session's client holds DeviceInfo and ProtocolInfo
  op,          \* the running operation
  cancel,      \* its cancellation token
  result,      \* the OperationResult of the last operation
  lost         \* exchanges lost so far

vars == <<device, identity, discovered, op, cancel, result, lost>>

\* at is the stage, sent the packets (frames, for a read) sent so far, current
\* what the metadata summary said, before the device when the operation began.
NoOp == [name |-> "none", at |-> "none"]
NewOp(name, image, force) ==
  [name |-> name, image |-> image, force |-> force, sent |-> 0, current |-> None,
   at |-> IF name \in FlashOperations THEN "GET_SERVICE_STATUS"
          ELSE IF name = "load_ram_image" THEN "RAM_LOAD"
          ELSE IF name = "memory_read" THEN "MEMORY_READ"
          ELSE IF name = "discover_connected_target" THEN "GET_DEVICE_INFO" ELSE "COMMAND",
   before |-> [flash |-> device.flash, journal |-> device.journal, session |-> device.session]]

\* OperationResult with the parts of OperationCancellationInfo that are not fixed
\* by completion; clean is protocol_state_clean, attached is service_attached.
Result(completion, clean, partial, attached, written) ==
  [of |-> [op EXCEPT !.sent = 0, !.at = "none"], completion |-> completion, clean |-> clean, partial |-> partial,
   attached |-> attached, written |-> written]
NoResult == [of |-> NoOp, completion |-> "none", clean |-> TRUE, partial |-> FALSE,
             attached |-> FALSE, written |-> FALSE]

Init ==
  /\ device = NewDevice(TRUE)
  /\ identity \in {"supported", "other"}
  /\ discovered = FALSE /\ op = NoOp /\ cancel = FALSE /\ result = NoResult /\ lost = 0

Finish(r) == op' = NoOp /\ result' = r /\ cancel' = FALSE

\* ok_result, or completed_after_cancel_result when cancellation is requested by
\* the time the work is done.
Completed(written) ==
  Finish(Result(IF cancel THEN "completed_after_cancel_request" ELSE "succeeded",
                TRUE, FALSE, op.name \in FlashOperations, written))
CancelledResult(partial, attached) ==
  Finish(Result("cancelled", TRUE, partial, attached, FALSE))
\* failure_result: the exception of the command becomes an error.
Failed == Finish(Result("failed", TRUE, FALSE, FALSE, FALSE))
CleanupFailed ==
  Finish(Result("cleanup_failed", FALSE, op.at = "PROGRAM" /\ op.sent > 1, FALSE, FALSE))

GoTo(stage) == op' = [op EXCEPT !.at = stage, !.sent = 0] /\ UNCHANGED <<cancel, result>>

\* transact: the device answers, or the request or its answer is lost.
Answered(q, accepted, Then, Else) ==
  /\ \E fault \in Faults(q) :
       LET r == Respond(device, q, fault) IN
       device' = r.device /\ IF r.status \in accepted THEN Then ELSE Else
  /\ UNCHANGED <<identity, discovered, lost>>
Unanswered(q, Then) ==
  /\ lost < MaxLost /\ lost' = lost + 1
  /\ device' \in {device, Respond(device, q, "none").device}
  /\ Then
  /\ UNCHANGED <<identity, discovered>>
\* The common case: anything but OK ends the operation.
Exchange(q, Then) ==
  \/ Answered(q, {"OK"}, Then, Failed)
  \/ Unanswered(q, Failed)

Ask(stage) == op.at = stage /\ ~cancel
\* Nothing is sent once cancellation is seen.
SeenAt(stages) == op.at \in stages /\ cancel /\ UNCHANGED <<device, identity, discovered, lost>>

-----------------------------------------------------------------------------
(* Starting an operation, and asking it to stop. *)

\* A target must have been discovered before any other operation has a context.
Start(name, image, force) ==
  /\ op = NoOp
  /\ discovered \/ name = "discover_connected_target"
  /\ image # None <=> name \in UsesImage
  /\ force => name \in FlashOperations
  /\ op' = NewOp(name, image, force)
  /\ result' = NoResult
  /\ UNCHANGED <<device, identity, discovered, cancel, lost>>

RequestCancel ==
  /\ op # NoOp /\ ~cancel
  /\ op.name \notin OneCommand \cup {"discover_connected_target"}  \* no token there
  /\ cancel' = TRUE
  /\ UNCHANGED <<device, identity, discovered, op, result, lost>>

-----------------------------------------------------------------------------
(* ensure_service_attached: reuse the service, or load, check and attach it. *)

ServiceMatches == device.service = "ATTACHED"

AfterService ==
  CASE op.name = "program_flash_image" -> "PROGRAM"
    [] op.name = "verify_flash_image" -> "VERIFY"
    [] op.name \in DOMAIN Appends -> "READ_METADATA_SUMMARY"
    [] op.name = "erase_flash_image_area" -> "ERASE_METADATA"
    [] op.name = "erase_sector_mask" -> "ERASE"
    [] op.name = "attach_flash_service" -> "DONE"

ServiceReady == IF op.name = "attach_flash_service" THEN Completed(FALSE) ELSE GoTo(AfterService)

GetServiceStatus ==
  /\ Ask("GET_SERVICE_STATUS")
  /\ Exchange(Req("GET_SERVICE_STATUS", None),
              IF ServiceMatches /\ ~op.force THEN ServiceReady ELSE GoTo("RAM_LOAD"))

RamCheckCrcStage ==
  /\ Ask("RAM_CHECK_CRC")
  /\ Exchange(Req("RAM_CHECK_CRC", Service), GoTo("SERVICE_ATTACH"))

ServiceAttachStage ==
  /\ Ask("SERVICE_ATTACH")
  /\ Exchange(Req("SERVICE_ATTACH", Service), GoTo("CONFIRM_SERVICE"))

ConfirmService ==
  /\ Ask("CONFIRM_SERVICE")
  /\ Exchange(Req("GET_SERVICE_STATUS", None), IF ServiceMatches THEN ServiceReady ELSE Failed)

\* Seen before the device was asked it is unknown whether the service is attached;
\* afterwards the result tells what was last known.
ServiceCancelled ==
  \/ /\ SeenAt({"GET_SERVICE_STATUS", "RAM_CHECK_CRC", "SERVICE_ATTACH"})
     /\ CancelledResult(FALSE, FALSE)
  \/ SeenAt({"CONFIRM_SERVICE"}) /\ CancelledResult(FALSE, TRUE)

-----------------------------------------------------------------------------
(* run_cancellable_transfer: the service, a RAM image, a program or a verify. *)

TransferImage == CASE op.at \in {"PROGRAM", "VERIFY"} -> op.image
                   [] op.name = "load_ram_image" -> RamApp
                   [] OTHER -> Service
TransferReq(command) ==
  [Req(command, TransferImage) EXCEPT !.type = op.at, !.index = op.sent - 1]
Transferring == op.at \in Transfers
Total == Packets(TransferImage)
Sent(n) == op' = [op EXCEPT !.sent = n] /\ UNCHANGED <<cancel, result>>

\* sent = 0 before BEGIN, then one more than the data packets sent.
TransferBegin ==
  /\ Transferring /\ op.sent = 0 /\ ~cancel
  /\ Exchange(TransferReq("BEGIN"), Sent(1))

TransferData ==
  /\ Transferring /\ op.sent \in 1 .. Total /\ ~cancel
  /\ Exchange(TransferReq("DATA"), Sent(op.sent + 1))

Attached == op.name \in FlashOperations /\ op.at # "RAM_LOAD"

TransferCancelled ==
  /\ Transferring /\ op.sent = 0
  /\ SeenAt(Transfers) /\ CancelledResult(FALSE, Attached)

\* Mutant: words sent are only reported after the second packet.
MutantTransferCleanup ==
  /\ Transferring /\ op.sent \in 1 .. Total /\ cancel
  /\ \/ Answered(TransferReq("END"), {"OK", "TOTAL_COUNT_MISMATCH"},
                 CancelledResult(op.at = "PROGRAM" /\ op.sent > 2, Attached), CleanupFailed)
     \/ Unanswered(TransferReq("END"), CleanupFailed)

\* Cut short: END is sent all the same, and must fail on the count.
TransferCleanup ==
  /\ Transferring /\ op.sent \in 1 .. Total /\ cancel
  /\ \/ Answered(TransferReq("END"), {"OK", "TOTAL_COUNT_MISMATCH"},
                 CancelledResult(op.at = "PROGRAM" /\ op.sent > 1, Attached), CleanupFailed)
     \/ Unanswered(TransferReq("END"), CleanupFailed)

\* Cancellation seen after the last packet lets the transfer finish; a service
\* that is loaded but not attached is then given up.
TransferEnd ==
  /\ Transferring /\ op.sent = Total + 1
  /\ Exchange(TransferReq("END"),
              IF TransferImage # Service THEN Completed(FALSE)
              ELSE IF cancel THEN CancelledResult(FALSE, FALSE) ELSE GoTo("RAM_CHECK_CRC"))

-----------------------------------------------------------------------------
(* Erase. *)

EraseReq(sectors) == [Req("ERASE", None) EXCEPT !.sectors = sectors]

\* Mutant: the image's sectors are erased first.
MutantEraseMetadata ==
  /\ Ask("ERASE_METADATA") /\ Exchange(EraseReq({"app"}), GoTo("ERASE_REST"))

\* erase_flash_image_area gives up the metadata first; it does not ask for
\* cancellation between the two commands.
EraseMetadata ==
  /\ Ask("ERASE_METADATA") /\ Exchange(EraseReq({"metadata"}), GoTo("ERASE_REST"))
EraseRest == op.at = "ERASE_REST" /\ Exchange(EraseReq({"app"}), Completed(FALSE))

\* erase_sector_mask: any allowed sectors; _check_sector_mask refuses the others
\* before anything is sent.
EraseSectorMask(sectors) ==
  /\ Ask("ERASE")
  /\ sectors # {} /\ "boot" \notin sectors
  /\ Exchange(EraseReq(sectors), Completed(FALSE))

EraseCancelled == SeenAt({"ERASE_METADATA", "ERASE"}) /\ CancelledResult(FALSE, TRUE)

-----------------------------------------------------------------------------
(* append_image_valid, append_boot_attempt, append_app_confirmed *)

\* Whether the summary that was read lets the record be written.
Writable(s) ==
  CASE op.name = "append_image_valid" -> s.image = None
    [] op.name = "append_boot_attempt" ->
         s.image # None /\ ~s.confirmed /\ s.attempts < AttemptLimit
    [] op.name = "append_app_confirmed" -> s.image # None /\ ~s.confirmed /\ s.attempts > 0

ReadMetadataSummary ==
  /\ Ask("READ_METADATA_SUMMARY")
  /\ LET s == Summary(device) IN
     Exchange(Req("GET_METADATA_SUMMARY", None),
              IF ~Writable(s) THEN Completed(FALSE)
              ELSE /\ op' = [op EXCEPT !.at = "METADATA_APPEND_RECORD",
                                       !.current = IF s.image = None THEN op.image ELSE s.image]
                   /\ UNCHANGED <<cancel, result>>)

AppendReq == [Req("METADATA_APPEND_RECORD", op.current) EXCEPT !.type = Appends[op.name]]

\* Mutant: an answer that does not come is asked for once more.
MutantAppend ==
  /\ Ask("METADATA_APPEND_RECORD")
  /\ \/ Answered(AppendReq, {"OK"}, Completed(TRUE), Failed)
     \/ Unanswered(AppendReq, op' = op /\ UNCHANGED <<cancel, result>>)

AppendRecord ==
  /\ Ask("METADATA_APPEND_RECORD")
  /\ Exchange(AppendReq, Completed(TRUE))

AppendCancelled ==
  SeenAt({"READ_METADATA_SUMMARY", "METADATA_APPEND_RECORD"}) /\ CancelledResult(FALSE, TRUE)

-----------------------------------------------------------------------------
(* The rest: one command, or the frames of a read, or the two of a discovery. *)

CommandReq ==
  CASE op.name = "check_ram_crc" -> Req("RAM_CHECK_CRC", RamApp)
    [] op.name = "run_flash_app" -> Req("RUN", op.image)
    [] op.name = "run_ram_image" -> Req("RUN_RAM", None)
    [] op.name = "reset_target" -> Req("RESET", None)
    [] op.name = "get_status" -> Req("PING", None)

OneCommandStage == op.at = "COMMAND" /\ Exchange(CommandReq, Completed(FALSE))

\* Cancellation is asked before the first frame and after every frame.
MemoryRead ==
  /\ Ask("MEMORY_READ")
  /\ Exchange(Req("MEMORY_READ", None),
              IF op.sent + 1 = ReadFrames THEN Completed(FALSE) ELSE Sent(op.sent + 1))
MemoryReadCancelled == SeenAt({"MEMORY_READ"}) /\ CancelledResult(FALSE, FALSE)

\* GET_DEVICE_INFO must name a device whose profile is known; only then
\* GET_PROTOCOL_INFO completes what the client has to know.
Discover ==
  \/ /\ op.at = "GET_DEVICE_INFO"
     /\ Exchange(Req("GET_DEVICE_INFO", None),
                 IF identity = "supported" THEN GoTo("GET_PROTOCOL_INFO") ELSE Failed)
  \/ /\ op.at = "GET_PROTOCOL_INFO"
     /\ \/ /\ Finish(Result("succeeded", TRUE, FALSE, FALSE, FALSE))
           /\ discovered' = TRUE /\ UNCHANGED <<device, identity, lost>>
        \/ Unanswered(Req("GET_PROTOCOL_INFO", None), Failed)

Next ==
  \/ \E name \in Operations, image \in Images \cup {None}, force \in BOOLEAN : Start(name, image, force)
  \/ RequestCancel
  \/ GetServiceStatus \/ RamCheckCrcStage \/ ServiceAttachStage \/ ConfirmService
  \/ ServiceCancelled
  \/ TransferBegin \/ TransferData \/ TransferEnd \/ TransferCancelled \/ TransferCleanup
  \/ EraseMetadata \/ EraseRest \/ EraseCancelled
  \/ \E sectors \in SUBSET Sectors : EraseSectorMask(sectors)
  \/ ReadMetadataSummary \/ AppendRecord \/ AppendCancelled
  \/ OneCommandStage \/ MemoryRead \/ MemoryReadCancelled \/ Discover

Spec == Init /\ [][Next]_vars

-----------------------------------------------------------------------------
(* Properties. *)

TypeOK ==
  /\ device.flash \in [Addresses -> Images \cup {None}]
  /\ Len(device.journal) \in 0 .. RecordCount
  /\ \A i \in DOMAIN device.journal :
       device.journal[i] \in [type : RecordTypes, image : Images]
  /\ \A k \in Transfers : device.session[k].index \in 0 .. 1 + Packets(device.session[k].image)
  /\ device.service \in {"DETACHED", "ATTACHED", "ERROR"} /\ device.loaded \in {None, Service, RamApp}
  /\ device.crc_ok \in BOOLEAN /\ device.verified \in BOOLEAN
  /\ op = NoOp \/ op.name \in Operations
  /\ cancel \in BOOLEAN /\ lost \in 0 .. MaxLost /\ discovered \in BOOLEAN

Done(name) == op = NoOp /\ result.of.name = name
Worked == result.completion \in {"succeeded", "completed_after_cancel_request"}

\* A result that says "done" is true of the device, whatever was cancelled, lost or
\* left over from operations before it: what was programmed is in Flash, what was
\* verified counts as verified, what was erased is erased, the service is attached.
SuccessHolds ==
  Worked =>
    /\ Done("program_flash_image") =>
         \A a \in 1 .. result.of.image : device.flash[a] = result.of.image
    /\ Done("verify_flash_image") =>
         device.verified /\ \A a \in 1 .. result.of.image : device.flash[a] = result.of.image
    /\ Done("erase_flash_image_area") =>
         Summary(device).image = None /\ \A a \in Addresses : device.flash[a] = None
    /\ Done("attach_flash_service") => device.service = "ATTACHED"
    /\ Done("load_ram_image") => device.loaded = RamApp

\* A cancelled operation that calls the protocol state clean has left no transfer
\* open on the device: the next BEGIN is not answered BUSY because of it.
CancelledIsClean ==
  op = NoOp /\ result.completion = "cancelled" =>
    \A k \in Transfers :
      device.session[k] # NoSession => device.session[k] = result.of.before.session[k]

\* The recovery a cancelled program proposes is right: "restart" only when Flash is
\* as it was, "erase and restart" when packets were written.
RestartIsSafe ==
  Done("program_flash_image") /\ result.completion = "cancelled" =>
    (result.partial <=> device.flash # result.of.before.flash)

\* A result that says the service is attached is right about it.
AttachedIsTrue == op = NoOp /\ result.attached => device.service = "ATTACHED"

\* One append operation writes at most one record, though its answer may be lost;
\* it reports a record it did write, and no other.
AppendReported ==
  op = NoOp /\ result.of.name \in DOMAIN Appends =>
    LET before == result.of.before.journal IN
    /\ result.written =>
         /\ Len(device.journal) = Len(before) + 1
         /\ Last(device.journal).type = Appends[result.of.name]
    /\ ~result.written =>
         IF result.completion = "failed"
         THEN device.journal = before \/ Front(device.journal) = before
         ELSE device.journal = before

\* Erasing an image's area never leaves the device trusting an image whose Flash is
\* going: a lost answer or a fault between the two commands included.
TrustGoesFirst ==
  [][op.name = "erase_flash_image_area" /\ device.flash' # device.flash
       => Summary(device).image = None]_vars

\* The simulator keeps the promise the flash service of the DSP keeps: an image is
\* published, attempted up to the limit, confirmed, and revoked as a whole.
Lifecycle == INSTANCE TrustLifecycle WITH
  NoImage <- None, image <- Summary(device).image,
  attempts <- Summary(device).attempts, confirmed <- Summary(device).confirmed
ImplementsLifecycle == Lifecycle!Spec

\* What the result of an operation says is true of the device, after any history of
\* cancelled, failed and lost operations before it (operations/results.py).
ResultHolds == TypeOK /\ SuccessHolds /\ AttachedIsTrue /\ AppendReported

\* What a cancelled operation says about the device, and about what to do next, is
\* true (run_cancellable_transfer, cancelled_result).
CancellationHolds == CancelledIsClean /\ RestartIsSafe

=============================================================================
