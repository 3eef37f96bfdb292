------------------------ MODULE HostOperationsProofs ------------------------
(***************************************************************************)
(* What the PC's operations report is true of the device, for every set of *)
(* images, size of the service and journal, attempt limit and number of    *)
(* lost exchanges; and the simulator implements TrustLifecycle.            *)
(*                                                                         *)
(* A result is made of what the operation saw on its way, so the invariant *)
(* says, stage by stage, what a running operation already knows of the     *)
(* device, and how the device relates to what it was when the operation    *)
(* began (op.before).                                                      *)
(***************************************************************************)
EXTENDS HostOperations, SimulatorProofs

-----------------------------------------------------------------------------
(* The inductive invariant. *)

\* The stages an operation passes once the service is known to be attached.
ServiceStages == {"PROGRAM", "VERIFY", "READ_METADATA_SUMMARY", "METADATA_APPEND_RECORD",
                  "ERASE_METADATA", "ERASE_REST", "ERASE"}
AttachStages == {"GET_SERVICE_STATUS", "RAM_CHECK_CRC", "SERVICE_ATTACH", "CONFIRM_SERVICE"}
OtherStages == {"RAM_LOAD", "MEMORY_READ", "GET_DEVICE_INFO", "GET_PROTOCOL_INFO", "COMMAND"}
Stages == ServiceStages \cup AttachStages \cup OtherStages

OpType ==
  [name : Operations, image : Images \cup {None}, force : BOOLEAN, sent : Nat,
   current : Images \cup {None}, at : Stages,
   before : [flash : FlashContents, journal : Seq(Records), session : SessionTable]]

\* TransferImage, AfterService and Writable, of any operation.
ImageOf(o) == CASE o.at \in {"PROGRAM", "VERIFY"} -> o.image
                [] o.name = "load_ram_image" -> RamApp
                [] OTHER -> Service
StageAfterService(name) ==
  CASE name = "program_flash_image" -> "PROGRAM"
    [] name = "verify_flash_image" -> "VERIFY"
    [] name \in DOMAIN Appends -> "READ_METADATA_SUMMARY"
    [] name = "erase_flash_image_area" -> "ERASE_METADATA"
    [] name = "erase_sector_mask" -> "ERASE"
    [] name = "attach_flash_service" -> "DONE"
MayWrite(name, s) ==
  CASE name = "append_image_valid" -> s.image = None
    [] name = "append_boot_attempt" -> s.image # None /\ ~s.confirmed /\ s.attempts < AttemptLimit
    [] name = "append_app_confirmed" -> s.image # None /\ ~s.confirmed /\ s.attempts > 0

\* Which operation is at which stage, with which image, how far into a transfer.
OpInv(o) ==
  /\ o \in OpType
  /\ o.image # None <=> o.name \in UsesImage
  /\ o.at \in ServiceStages \cup AttachStages => o.name \in FlashOperations
  /\ o.at = "RAM_LOAD" => o.name \in FlashOperations \cup {"load_ram_image"}
  /\ o.at \in ServiceStages =>
       \/ o.at = "METADATA_APPEND_RECORD" /\ o.name \in DOMAIN Appends
       \/ o.at = "ERASE_REST" /\ o.name = "erase_flash_image_area"
       \/ o.at = StageAfterService(o.name)
  /\ o.at \in OtherStages \ {"RAM_LOAD"} => o.name \notin FlashOperations \cup {"load_ram_image"}
  /\ o.at = "COMMAND" => o.name \in OneCommand
  /\ o.at \in Transfers => o.sent <= Packets(ImageOf(o)) + 1

Sending(o, k) == o.at = k /\ o.sent > 0

\* The transfer in progress is the one session the operation opened.
SessionInv(o, d) ==
  \A k \in Transfers :
    IF Sending(o, k) THEN d.session[k] = [image |-> ImageOf(o), index |-> o.sent - 1]
    ELSE d.session[k] \in {NoSession, o.before.session[k]}

\* What Flash holds of the image so far, and what of it was there before.
FlashInv(o, d) ==
  /\ o.at \in {"PROGRAM", "VERIFY"} =>
       \A a \in 1 .. o.image : a < o.sent => d.flash[a] = o.image
  /\ o.name = "program_flash_image" =>
       \A a \in Addresses :
         IF o.at = "PROGRAM" /\ a < o.sent
         THEN o.before.flash[a] = None
         ELSE d.flash[a] = o.before.flash[a]

\* What the device's journal says about the record to be written.
JournalInv(o, d) ==
  /\ o.name \in DOMAIN Appends => d.journal = o.before.journal
  /\ o.at = "METADATA_APPEND_RECORD" =>
       /\ MayWrite(o.name, Summary(d))
       /\ o.current = IF Summary(d).image = None THEN o.image ELSE Summary(d).image
  /\ o.at = "ERASE_REST" => d.journal = <<>>

ServiceInv(o, d) == o.at \in ServiceStages \cup {"CONFIRM_SERVICE"} => d.service = "ATTACHED"

Running(o, d) ==
  OpInv(o) /\ SessionInv(o, d) /\ FlashInv(o, d) /\ JournalInv(o, d) /\ ServiceInv(o, d)

LineType == discovered \in BOOLEAN /\ lost \in 0 .. MaxLost
RestType == cancel \in BOOLEAN /\ LineType

\* Everything a finished operation's result claims.
Reported == SuccessHolds /\ AttachedIsTrue /\ AppendReported /\ CancellationHolds

IInv ==
  DeviceInv(device) /\ (op # NoOp => Running(op, device)) /\ RestType /\ Reported

-----------------------------------------------------------------------------
(* How an operation ends. *)

\* The operation is over, and its result is of it.
EndsAs(completion) ==
  /\ op' = NoOp /\ cancel' = FALSE
  /\ result'.of.name = op.name /\ result'.of.image = op.image /\ result'.of.before = op.before
  /\ result'.completion = completion

\* The definitions of the model and their forms for any operation.
LEMMA SameNotions ==
  /\ TransferImage = ImageOf(op) /\ Total = Packets(ImageOf(op))
  /\ AfterService = StageAfterService(op.name)
  /\ \A s : Writable(s) = MayWrite(op.name, s)
BY DEF TransferImage, Total, ImageOf, AfterService, StageAfterService, Writable, MayWrite

LEMMA RunningIsNotNone ==
  ASSUME NEW o, OpInv(o)
  PROVE  o # NoOp /\ o.name \in Operations
BY DEF OpInv, OpType, NoOp, Operations, FlashOperations, OneCommand

LEMMA FailedEnds ==
  ASSUME OpInv(op), Failed
  PROVE  EndsAs("failed") /\ ~result'.attached /\ ~result'.written
BY DEF Failed, Finish, Result, EndsAs, OpInv, OpType

LEMMA CleanupFailedEnds ==
  ASSUME OpInv(op), CleanupFailed
  PROVE  EndsAs("cleanup_failed") /\ ~result'.attached /\ ~result'.written
BY DEF CleanupFailed, Finish, Result, EndsAs, OpInv, OpType

LEMMA CompletedEnds ==
  ASSUME OpInv(op)
  PROVE  /\ Completed(FALSE) => ~result'.written
         /\ Completed(TRUE) => result'.written
         /\ Completed(FALSE) \/ Completed(TRUE) =>
              /\ EndsAs("completed_after_cancel_request") \/ EndsAs("succeeded")
              /\ result'.attached => op.name \in FlashOperations
<1>1. Completed(FALSE) => ~result'.written
  BY DEF Completed, Finish, Result
<1>2. Completed(TRUE) => result'.written
  BY DEF Completed, Finish, Result
<1>3. ASSUME Completed(FALSE) \/ Completed(TRUE)
      PROVE  result'.attached => op.name \in FlashOperations
  <2> SUFFICES ASSUME op.name \notin FlashOperations PROVE ~result'.attached
    OBVIOUS
  <2>1. (op.name \in FlashOperations) = FALSE
    OBVIOUS
  <2>2. result'.attached = (op.name \in FlashOperations)
    BY <1>3 DEF Completed, Finish, Result
  <2>3. QED
    BY <2>1, <2>2
<1>4. ASSUME Completed(FALSE) \/ Completed(TRUE)
      PROVE  EndsAs("completed_after_cancel_request") \/ EndsAs("succeeded")
  <2>1. result'.of = [op EXCEPT !.sent = 0, !.at = "none"] /\ op' = NoOp /\ cancel' = FALSE
    BY <1>4 DEF Completed, Finish, Result
  <2>2. result'.completion \in {"completed_after_cancel_request", "succeeded"}
    BY <1>4 DEF Completed, Finish, Result
  <2>3. QED
    BY <2>1, <2>2 DEF EndsAs, OpInv, OpType
<1>5. QED
  BY <1>1, <1>2, <1>3, <1>4

LEMMA CancelledEnds ==
  ASSUME OpInv(op)
  PROVE  /\ CancelledResult(FALSE, FALSE) => ~result'.partial /\ ~result'.attached
         /\ CancelledResult(FALSE, TRUE) => ~result'.partial
         /\ CancelledResult(FALSE, Attached) => ~result'.partial /\ (result'.attached => Attached)
         /\ CancelledResult(FALSE, FALSE) \/ CancelledResult(FALSE, TRUE)
              \/ CancelledResult(FALSE, Attached) => EndsAs("cancelled") /\ ~result'.written
<1>1. CancelledResult(FALSE, FALSE) => ~result'.partial /\ ~result'.attached
  BY DEF CancelledResult, Finish, Result
<1>2. CancelledResult(FALSE, TRUE) => ~result'.partial
  BY DEF CancelledResult, Finish, Result
<1>3. CancelledResult(FALSE, Attached) => ~result'.partial /\ (result'.attached => Attached)
  <2> SUFFICES ASSUME CancelledResult(FALSE, Attached)
               PROVE  ~result'.partial /\ (result'.attached => Attached)
    OBVIOUS
  <2>1. result'.attached = Attached
    BY DEF CancelledResult, Finish, Result
  <2>2. ~result'.partial
    BY DEF CancelledResult, Finish, Result
  <2>3. QED
    BY <2>1, <2>2
<1>4. ASSUME \/ CancelledResult(FALSE, FALSE)
             \/ CancelledResult(FALSE, TRUE)
             \/ CancelledResult(FALSE, Attached)
      PROVE  EndsAs("cancelled") /\ ~result'.written
  <2>1. result'.of = [op EXCEPT !.sent = 0, !.at = "none"] /\ op' = NoOp /\ cancel' = FALSE
    BY <1>4 DEF CancelledResult, Finish, Result
  <2>2. result'.completion = "cancelled" /\ ~result'.written
    BY <1>4 DEF CancelledResult, Finish, Result
  <2>3. QED
    BY <2>1, <2>2 DEF EndsAs, OpInv, OpType
<1>5. QED
  BY <1>1, <1>2, <1>3, <1>4

\* What a stage outside a transfer, or before its BEGIN, has left as it was.
Quiet(o, d) ==
  /\ \A k \in Transfers : d.session[k] \in {NoSession, o.before.session[k]}
  /\ o.name = "program_flash_image" => \A a \in Addresses : d.flash[a] = o.before.flash[a]
  /\ o.name \in DOMAIN Appends => d.journal = o.before.journal

LEMMA QuietStage ==
  ASSUME NEW o, NEW d, Running(o, d), \A k \in Transfers : ~Sending(o, k)
  PROVE  Quiet(o, d)
<1>1. o.sent \in Nat /\ Addresses \subseteq Nat
  BY SimulatorAssumption DEF Running, OpInv, OpType, Addresses
<1>2. o.name = "program_flash_image" => \A a \in Addresses : d.flash[a] = o.before.flash[a]
  <2> SUFFICES ASSUME o.name = "program_flash_image", NEW a \in Addresses
               PROVE  d.flash[a] = o.before.flash[a]
    OBVIOUS
  <2>1. ~(o.at = "PROGRAM" /\ a < o.sent)
    BY <1>1 DEF Sending, Transfers
  <2>2. QED
    BY <2>1 DEF Running, FlashInv
<1>3. QED
  BY <1>2 DEF Running, SessionInv, JournalInv, Quiet

\* A new stage needs nothing but that all is quiet, and what its place demands.
LEMMA EnterStage ==
  ASSUME NEW o, NEW d, OpInv(o), Quiet(o, d), o.sent = 0, o.at # "METADATA_APPEND_RECORD",
         o.at = "ERASE_REST" => d.journal = <<>>, ServiceInv(o, d)
  PROVE  Running(o, d)
<1>1. \A k \in Transfers : ~Sending(o, k)
  BY DEF Sending
<1>2. SessionInv(o, d)
  BY <1>1 DEF SessionInv, Quiet
<1>3. \A a \in Addresses : ~(a < o.sent)
  BY SimulatorAssumption DEF Addresses
<1>4. FlashInv(o, d)
  <2>1. o.image \in Nat => \A a \in 1 .. o.image : ~(a < o.sent)
    OBVIOUS
  <2>2. o.image \in Nat
    BY SimulatorAssumption DEF OpInv, OpType, None
  <2>3. QED
    BY <1>3, <2>1, <2>2 DEF FlashInv, Quiet
<1>5. QED
  BY <1>2, <1>4 DEF Running, JournalInv, Quiet

\* A device that keeps Flash and journal, and closes sessions only, stays quiet.
LEMMA QuietKept ==
  ASSUME NEW o, NEW d, NEW e, Quiet(o, d), SameStore(d, e),
         \A k \in Transfers : e.session[k] \in {NoSession, d.session[k]}
  PROVE  Quiet(o, e)
BY DEF Quiet, SameStore

\* An operation that failed claims nothing but that at most one record was written.
LEMMA FailedStep ==
  ASSUME IInv, OpInv(op), Failed, DeviceInv(device'), LineType',
         op.name \in DOMAIN Appends => \/ device'.journal = op.before.journal
                                       \/ Front(device'.journal) = op.before.journal
  PROVE  IInv'
<1>1. EndsAs("failed") /\ ~result'.attached /\ ~result'.written
  BY FailedEnds
<1>2. op' = NoOp /\ RestType'
  BY <1>1 DEF EndsAs, RestType
<1>3. SuccessHolds' /\ AttachedIsTrue' /\ CancellationHolds'
  BY <1>1 DEF EndsAs, SuccessHolds, AttachedIsTrue, CancellationHolds, CancelledIsClean,
     RestartIsSafe, Worked, Done
<1>4. AppendReported'
  BY <1>1 DEF EndsAs, AppendReported
<1>5. QED
  BY <1>2, <1>3, <1>4 DEF IInv, Reported

\* A cleanup that failed claims nothing but that no record was written.
LEMMA CleanupFailedStep ==
  ASSUME IInv, OpInv(op), CleanupFailed, DeviceInv(device'), LineType',
         op.name \in DOMAIN Appends => device'.journal = op.before.journal
  PROVE  IInv'
<1>1. EndsAs("cleanup_failed") /\ ~result'.attached /\ ~result'.written
  BY CleanupFailedEnds
<1>2. op' = NoOp /\ RestType'
  BY <1>1 DEF EndsAs, RestType
<1>3. SuccessHolds' /\ AttachedIsTrue' /\ CancellationHolds'
  BY <1>1 DEF EndsAs, SuccessHolds, AttachedIsTrue, CancellationHolds, CancelledIsClean,
     RestartIsSafe, Worked, Done
<1>4. AppendReported'
  BY <1>1 DEF EndsAs, AppendReported
<1>5. QED
  BY <1>2, <1>3, <1>4 DEF IInv, Reported

\* A cancelled operation claims that no transfer of its own is open, that no record
\* was written, and whether Flash was programmed.
LEMMA CancelledStep ==
  ASSUME IInv, OpInv(op), EndsAs("cancelled"), ~result'.written, DeviceInv(device'),
         LineType',
         result'.attached => device'.service = "ATTACHED",
         \A k \in Transfers : device'.session[k] \in {NoSession, op.before.session[k]},
         op.name \in DOMAIN Appends => device'.journal = op.before.journal,
         op.name = "program_flash_image" => (result'.partial <=> device'.flash # op.before.flash)
  PROVE  IInv'
<1>1. op' = NoOp /\ RestType'
  BY DEF EndsAs, RestType
<1>2. SuccessHolds' /\ AttachedIsTrue'
  BY DEF EndsAs, SuccessHolds, AttachedIsTrue, Worked, Done
<1>3. CancelledIsClean'
  BY DEF EndsAs, CancelledIsClean
<1>4. RestartIsSafe'
  BY DEF EndsAs, RestartIsSafe, Done
<1>5. AppendReported'
  BY DEF EndsAs, AppendReported
<1>6. QED
  BY <1>1, <1>2, <1>3, <1>4, <1>5 DEF IInv, Reported, CancellationHolds

\* Cancelled while all was quiet: nothing of the operation is left on the device.
LEMMA QuietCancelledStep ==
  ASSUME IInv, OpInv(op), DeviceInv(device'), Quiet(op, device'),
         LineType',
         \/ CancelledResult(FALSE, FALSE)
         \/ CancelledResult(FALSE, TRUE) /\ device'.service = "ATTACHED"
         \/ CancelledResult(FALSE, Attached) /\ (Attached => device'.service = "ATTACHED")
  PROVE  IInv'
<1>1. /\ EndsAs("cancelled") /\ ~result'.written /\ ~result'.partial
      /\ result'.attached => device'.service = "ATTACHED"
  BY CancelledEnds
<1>2. op.name = "program_flash_image" => device'.flash = op.before.flash
  <2>1. device'.flash \in FlashContents /\ op.before.flash \in FlashContents
    BY DEF DeviceInv, DeviceType, OpInv, OpType
  <2>2. QED
    BY <2>1 DEF Quiet, FlashContents
<1>3. QED
  BY <1>1, <1>2, CancelledStep DEF Quiet

\* What an operation that says "done" has to have done.
Achieved(o, d) ==
  /\ o.name = "program_flash_image" => \A a \in 1 .. o.image : d.flash[a] = o.image
  /\ o.name = "verify_flash_image" => d.verified /\ \A a \in 1 .. o.image : d.flash[a] = o.image
  /\ o.name = "erase_flash_image_area" =>
       Summary(d).image = None /\ \A a \in Addresses : d.flash[a] = None
  /\ o.name = "load_ram_image" => d.loaded = RamApp
  /\ o.name \in FlashOperations => d.service = "ATTACHED"

LEMMA CompletedStep ==
  ASSUME IInv, OpInv(op), DeviceInv(device'), LineType',
         Achieved(op, device'),
         \/ Completed(FALSE) /\ (op.name \in DOMAIN Appends => device'.journal = op.before.journal)
         \/ /\ Completed(TRUE)
            /\ op.name \in DOMAIN Appends =>
                 /\ Len(device'.journal) = Len(op.before.journal) + 1
                 /\ Last(device'.journal).type = Appends[op.name]
  PROVE  IInv'
<1>1. /\ EndsAs("completed_after_cancel_request") \/ EndsAs("succeeded")
      /\ result'.attached => op.name \in FlashOperations
      /\ Completed(FALSE) => ~result'.written
      /\ Completed(TRUE) => result'.written
  BY CompletedEnds
<1>2. op' = NoOp /\ RestType'
  BY <1>1 DEF EndsAs, RestType
<1>3. SuccessHolds' /\ AttachedIsTrue' /\ CancellationHolds'
  BY <1>1 DEF EndsAs, SuccessHolds, AttachedIsTrue, CancellationHolds, CancelledIsClean,
     RestartIsSafe, Done, Achieved, FlashOperations
<1>4. AppendReported'
  BY <1>1 DEF EndsAs, AppendReported
<1>5. QED
  BY <1>2, <1>3, <1>4 DEF IInv, Reported

\* An operation that goes on claims nothing yet.
LEMMA GoesOn ==
  ASSUME IInv, DeviceInv(device'), Running(op', device'), RestType'
  PROVE  IInv'
<1>1. op' # NoOp
  BY RunningIsNotNone DEF Running
<1>2. Reported'
  BY <1>1 DEF Reported, SuccessHolds, AttachedIsTrue, AppendReported, CancellationHolds,
     CancelledIsClean, RestartIsSafe, Done
<1>3. QED
  BY <1>2 DEF IInv

\* The next stage of an operation, or the next packet of a transfer.
LEMMA NextStage ==
  ASSUME OpInv(op), NEW stage \in Stages, GoTo(stage)
  PROVE  /\ op' \in OpType /\ op'.at = stage /\ op'.sent = 0
         /\ op'.name = op.name /\ op'.image = op.image /\ op'.before = op.before
         /\ cancel' = cancel
BY DEF OpInv, OpType, GoTo

LEMMA NextPacket ==
  ASSUME OpInv(op), NEW n \in Nat, Sent(n)
  PROVE  /\ op' \in OpType /\ op'.at = op.at /\ op'.sent = n
         /\ op'.name = op.name /\ op'.image = op.image /\ op'.before = op.before
         /\ cancel' = cancel
BY DEF OpInv, OpType, Sent

-----------------------------------------------------------------------------
(* Every action keeps the invariant: first those that ask for the service. *)

\* What an exchange leaves: the device after an OK, or after anything that can happen.
AfterOK(q) ==
  \E fault : LET r == Respond(device, q, fault) IN device' = r.device /\ r.status = "OK"
AfterAny(q) == device' = device \/ \E fault : device' = Respond(device, q, fault).device

LEMMA AtStage ==
  ASSUME IInv, op.at \in Stages
  PROVE  Running(op, device) /\ OpInv(op) /\ DeviceInv(device) /\ op # NoOp
<1>1. op # NoOp
  BY DEF NoOp, Stages, ServiceStages, AttachStages, OtherStages
<1>2. QED
  BY <1>1 DEF IInv, Running

LEMMA NotTransferring ==
  ASSUME IInv, op.at \in Stages \ Transfers
  PROVE  Quiet(op, device)
<1>1. Running(op, device) /\ \A k \in Transfers : ~Sending(op, k)
  BY AtStage DEF Sending
<1>2. QED
  BY <1>1, QuietStage

\* A stage that is entered with the device as quiet as it was.
LEMMA StageEntered ==
  ASSUME IInv, OpInv(op), DeviceInv(device'), Quiet(op, device'), LineType',
         NEW stage \in Stages \ {"METADATA_APPEND_RECORD", "COMMAND"}, GoTo(stage),
         stage \in ServiceStages \cup AttachStages \cup {"RAM_LOAD"} => op.name \in FlashOperations,
         stage \in OtherStages \ {"RAM_LOAD"} => op.name \notin FlashOperations \cup {"load_ram_image"},
         stage \in ServiceStages => \/ stage = "ERASE_REST" /\ op.name = "erase_flash_image_area"
                                    \/ stage = StageAfterService(op.name),
         stage = "ERASE_REST" => device'.journal = <<>>,
         stage \in ServiceStages \cup {"CONFIRM_SERVICE"} => device'.service = "ATTACHED"
  PROVE  IInv'
<1>1. /\ op' \in OpType /\ op'.at = stage /\ op'.sent = 0
      /\ op'.name = op.name /\ op'.image = op.image /\ op'.before = op.before
      /\ cancel' = cancel
  BY NextStage
<1>2. stage \in Transfers => Packets(ImageOf(op')) \in Nat
  <2>1. ImageOf(op') \in SessionImages
    BY <1>1 DEF ImageOf, SessionImages, OpType
  <2>2. QED
    BY <2>1, PacketsType
<1>3. OpInv(op')
  BY <1>1, <1>2 DEF OpInv
<1>4. Quiet(op', device') /\ ServiceInv(op', device')
  BY <1>1 DEF Quiet, ServiceInv
<1>5. Running(op', device')
  BY <1>1, <1>3, <1>4, EnterStage
<1>6. QED
  BY <1>1, <1>5, GoesOn DEF RestType, IInv

\* The service is there: on to the operation's own work.
LEMMA ServiceReadyStep ==
  ASSUME IInv, OpInv(op), DeviceInv(device'), Quiet(op, device'), LineType',
         ServiceReady, op.name \in FlashOperations, device'.service = "ATTACHED"
  PROVE  IInv'
<1>1. CASE op.name = "attach_flash_service"
  <2>1. Completed(FALSE)
    BY <1>1 DEF ServiceReady
  <2>2. Achieved(op, device') /\ op.name \notin DOMAIN Appends
    BY <1>1 DEF Achieved, Appends
  <2>3. QED
    BY <2>1, <2>2, CompletedStep
<1>2. CASE op.name # "attach_flash_service"
  <2>1. PICK stage : stage = StageAfterService(op.name)
    OBVIOUS
  <2>2. GoTo(stage)
    BY <1>2, <2>1, SameNotions DEF ServiceReady
  <2>3. stage \in ServiceStages \ {"METADATA_APPEND_RECORD", "ERASE_REST"}
    BY <1>2, <2>1 DEF StageAfterService, FlashOperations, Appends, ServiceStages
  <2>4. stage \in Stages /\ stage \notin OtherStages /\ stage # "COMMAND"
    BY <2>3 DEF Stages, ServiceStages, OtherStages
  <2>5. QED
    BY <2>1, <2>2, <2>3, <2>4, StageEntered
<1>3. QED
  BY <1>1, <1>2

\* An exchange on the line is answered, or one more is lost.
LEMMA LineKept ==
  ASSUME IInv, discovered' = discovered, lost' = lost \/ (lost < MaxLost /\ lost' = lost + 1)
  PROVE  LineType'
BY OperationsAssumption DEF IInv, RestType, LineType

LEMMA GetServiceStatusStep == IInv /\ GetServiceStatus => IInv'
<1> SUFFICES ASSUME IInv, GetServiceStatus PROVE IInv'
  OBVIOUS
<1> DEFINE q == Req("GET_SERVICE_STATUS", None)
<1>1. op.at = "GET_SERVICE_STATUS"
  BY DEF GetServiceStatus, Ask
<1>2. /\ Running(op, device) /\ OpInv(op) /\ DeviceInv(device) /\ Quiet(op, device)
      /\ op.name \in FlashOperations
  <2>1. op.at \in Stages \ Transfers /\ op.at \in AttachStages
    BY <1>1 DEF Stages, AttachStages, Transfers
  <2>2. QED
    BY <2>1, AtStage, NotTransferring DEF OpInv
<1>3. /\ LineType'
      /\ \/ Failed
         \/ IF ServiceMatches /\ ~op.force THEN ServiceReady ELSE GoTo("RAM_LOAD")
      /\ AfterAny(q)
  <2>1. discovered' = discovered /\ (lost' = lost \/ (lost < MaxLost /\ lost' = lost + 1))
    BY DEF GetServiceStatus, Exchange, Answered, Unanswered
  <2>2. /\ \/ Failed
           \/ IF ServiceMatches /\ ~op.force THEN ServiceReady ELSE GoTo("RAM_LOAD")
        /\ AfterAny(q)
    BY Zenon DEF GetServiceStatus, Exchange, Answered, Unanswered, AfterAny
  <2>3. QED
    BY <2>1, <2>2, LineKept
<1>4. device' = device
  <2>1. q.command \in Reads /\ q.type = "none"
    BY DEF Req, Reads
  <2> HIDE DEF q
  <2>2. QED
    BY <1>3, <2>1, ReadEffect DEF AfterAny
<1>5. CASE Failed
  BY <1>2, <1>3, <1>4, <1>5, FailedStep DEF Quiet
<1>6. CASE ServiceMatches /\ ServiceReady
  BY <1>2, <1>3, <1>4, <1>6, ServiceReadyStep DEF ServiceMatches
<1>7. CASE GoTo("RAM_LOAD")
  BY <1>2, <1>3, <1>4, <1>7, StageEntered DEF Stages, ServiceStages, OtherStages
<1>8. QED
  BY <1>3, <1>5, <1>6, <1>7

LEMMA RamCheckCrcStep == IInv /\ RamCheckCrcStage => IInv'
<1> SUFFICES ASSUME IInv, RamCheckCrcStage PROVE IInv'
  OBVIOUS
<1> DEFINE q == Req("RAM_CHECK_CRC", Service)
<1>1. op.at = "RAM_CHECK_CRC"
  BY DEF RamCheckCrcStage, Ask
<1>2. /\ Running(op, device) /\ OpInv(op) /\ DeviceInv(device) /\ Quiet(op, device)
      /\ op.name \in FlashOperations
  <2>1. op.at \in Stages \ Transfers /\ op.at \in AttachStages
    BY <1>1 DEF Stages, AttachStages, Transfers
  <2>2. QED
    BY <2>1, AtStage, NotTransferring DEF OpInv
<1>3. LineType'
  <2>1. discovered' = discovered /\ (lost' = lost \/ (lost < MaxLost /\ lost' = lost + 1))
    BY DEF RamCheckCrcStage, Exchange, Answered, Unanswered
  <2>2. QED
    BY <2>1, LineKept
<1>4. (Failed \/ GoTo("SERVICE_ATTACH")) /\ AfterAny(q)
  BY Zenon DEF RamCheckCrcStage, Exchange, Answered, Unanswered, AfterAny
<1>5. DeviceInv(device') /\ Quiet(op, device')
  <2>1. q.command = "RAM_CHECK_CRC" /\ q.type = "none"
    BY DEF Req
  <2> HIDE DEF q
  <2>2. /\ DeviceInv(device') /\ SameStore(device, device') /\ device'.session = device.session
    BY <1>2, <1>4, <2>1, CrcEffect DEF AfterAny, SameStore
  <2>3. QED
    BY <1>2, <2>2, QuietKept
<1>6. CASE Failed
  BY <1>2, <1>3, <1>5, <1>6, FailedStep DEF Quiet
<1>7. CASE GoTo("SERVICE_ATTACH")
  BY <1>2, <1>3, <1>5, <1>7, StageEntered DEF Stages, ServiceStages, AttachStages, OtherStages
<1>8. QED
  BY <1>4, <1>6, <1>7

LEMMA ServiceAttachStep == IInv /\ ServiceAttachStage => IInv'
<1> SUFFICES ASSUME IInv, ServiceAttachStage PROVE IInv'
  OBVIOUS
<1> DEFINE q == Req("SERVICE_ATTACH", Service)
<1>1. op.at = "SERVICE_ATTACH"
  BY DEF ServiceAttachStage, Ask
<1>2. /\ Running(op, device) /\ OpInv(op) /\ DeviceInv(device) /\ Quiet(op, device)
      /\ op.name \in FlashOperations
  <2>1. op.at \in Stages \ Transfers /\ op.at \in AttachStages
    BY <1>1 DEF Stages, AttachStages, Transfers
  <2>2. QED
    BY <2>1, AtStage, NotTransferring DEF OpInv
<1>3. LineType'
  <2>1. discovered' = discovered /\ (lost' = lost \/ (lost < MaxLost /\ lost' = lost + 1))
    BY DEF ServiceAttachStage, Exchange, Answered, Unanswered
  <2>2. QED
    BY <2>1, LineKept
<1>4. (Failed /\ AfterAny(q)) \/ (GoTo("CONFIRM_SERVICE") /\ AfterOK(q))
  BY Zenon DEF ServiceAttachStage, Exchange, Answered, Unanswered, AfterAny, AfterOK
<1>5. q.command = "SERVICE_ATTACH" /\ q.type = "none"
  BY DEF Req
<1> HIDE DEF q
<1>6. /\ DeviceInv(device') /\ SameStore(device, device') /\ device'.session = device.session
      /\ AfterOK(q) => device'.service = "ATTACHED"
  BY <1>2, <1>4, <1>5, AttachEffect DEF AfterAny, AfterOK, SameStore
<1>7. Quiet(op, device')
  BY <1>2, <1>6, QuietKept
<1>8. CASE Failed
  BY <1>2, <1>3, <1>6, <1>7, <1>8, FailedStep DEF Quiet
<1>9. CASE GoTo("CONFIRM_SERVICE") /\ AfterOK(q)
  BY <1>2, <1>3, <1>6, <1>7, <1>9, StageEntered
     DEF Stages, ServiceStages, AttachStages, OtherStages
<1>10. QED
  BY <1>4, <1>8, <1>9

LEMMA ConfirmServiceStep == IInv /\ ConfirmService => IInv'
<1> SUFFICES ASSUME IInv, ConfirmService PROVE IInv'
  OBVIOUS
<1> DEFINE q == Req("GET_SERVICE_STATUS", None)
<1>1. op.at = "CONFIRM_SERVICE"
  BY DEF ConfirmService, Ask
<1>2. /\ Running(op, device) /\ OpInv(op) /\ DeviceInv(device) /\ Quiet(op, device)
      /\ op.name \in FlashOperations
  <2>1. op.at \in Stages \ Transfers /\ op.at \in AttachStages
    BY <1>1 DEF Stages, AttachStages, Transfers
  <2>2. QED
    BY <2>1, AtStage, NotTransferring DEF OpInv
<1>3. LineType'
  <2>1. discovered' = discovered /\ (lost' = lost \/ (lost < MaxLost /\ lost' = lost + 1))
    BY DEF ConfirmService, Exchange, Answered, Unanswered
  <2>2. QED
    BY <2>1, LineKept
<1>4. (Failed \/ IF ServiceMatches THEN ServiceReady ELSE Failed) /\ AfterAny(q)
  BY Zenon DEF ConfirmService, Exchange, Answered, Unanswered, AfterAny
<1>5. device' = device
  <2>1. q.command \in Reads /\ q.type = "none"
    BY DEF Req, Reads
  <2> HIDE DEF q
  <2>2. QED
    BY <1>4, <2>1, ReadEffect DEF AfterAny
<1>6. CASE Failed
  BY <1>2, <1>3, <1>5, <1>6, FailedStep DEF Quiet
<1>7. CASE ServiceMatches /\ ServiceReady
  BY <1>2, <1>3, <1>5, <1>7, ServiceReadyStep DEF ServiceMatches
<1>8. QED
  BY <1>4, <1>6, <1>7

LEMMA ServiceCancelledStep == IInv /\ ServiceCancelled => IInv'
<1> SUFFICES ASSUME IInv, ServiceCancelled PROVE IInv'
  OBVIOUS
<1>1. op.at \in AttachStages /\ device' = device /\ discovered' = discovered /\ lost' = lost
  BY DEF ServiceCancelled, SeenAt, AttachStages
<1>2. Running(op, device) /\ OpInv(op) /\ DeviceInv(device) /\ Quiet(op, device)
  <2>1. op.at \in Stages \ Transfers
    BY <1>1 DEF Stages, AttachStages, Transfers
  <2>2. QED
    BY <2>1, AtStage, NotTransferring
<1>3. LineType'
  BY <1>1, LineKept
<1>4. \/ CancelledResult(FALSE, FALSE)
      \/ CancelledResult(FALSE, TRUE) /\ device'.service = "ATTACHED"
  BY <1>1, <1>2 DEF ServiceCancelled, SeenAt, Running, ServiceInv
<1>5. QED
  BY <1>1, <1>2, <1>3, <1>4, QuietCancelledStep

-----------------------------------------------------------------------------
(* Transfers. *)

\* What is known of an operation in a transfer, and of the requests it sends.
LEMMA InTransfer ==
  ASSUME IInv, Transferring
  PROVE  /\ Running(op, device) /\ OpInv(op) /\ DeviceInv(device)
         /\ op.at \in Transfers /\ op.sent \in Nat
         /\ ImageOf(op) \in SessionImages /\ Packets(ImageOf(op)) \in Nat
         /\ op.at = "RAM_LOAD" =>
              /\ ImageOf(op) = IF op.name = "load_ram_image" THEN RamApp ELSE Service
              /\ op.name \in FlashOperations \cup {"load_ram_image"}
         /\ op.at # "RAM_LOAD" =>
              /\ ImageOf(op) = op.image /\ op.image \in Images /\ Packets(op.image) = op.image
              /\ op.name \in FlashOperations /\ device.service = "ATTACHED"
         /\ op.at = "PROGRAM" <=> op.name = "program_flash_image" /\ op.at # "RAM_LOAD"
         /\ op.at = "VERIFY" <=> op.name = "verify_flash_image" /\ op.at # "RAM_LOAD"
<1>1. op.at \in Transfers
  BY DEF Transferring
<1>2. op.at \in Stages
  BY <1>1 DEF Transfers, Stages, ServiceStages, OtherStages
<1>3. Running(op, device) /\ OpInv(op) /\ DeviceInv(device)
  BY <1>2, AtStage
<1>4. op.sent \in Nat /\ op.image \in Images \cup {None} /\ op.name \in Operations
  BY <1>3 DEF OpInv, OpType
<1>5. CASE op.at = "RAM_LOAD"
  <2>1. /\ ImageOf(op) = IF op.name = "load_ram_image" THEN RamApp ELSE Service
        /\ op.name \in FlashOperations \cup {"load_ram_image"}
    BY <1>3, <1>5 DEF ImageOf, OpInv
  <2>2. ImageOf(op) \in SessionImages
    BY <2>1 DEF SessionImages
  <2>3. QED
    BY <1>1, <1>3, <1>4, <1>5, <2>1, <2>2, PacketsType
<1>6. CASE op.at # "RAM_LOAD"
  <2>1. op.at \in {"PROGRAM", "VERIFY"} /\ op.at \in ServiceStages
    BY <1>1, <1>6 DEF Transfers, ServiceStages
  <2>2. op.at = StageAfterService(op.name) /\ op.name \in FlashOperations
    BY <1>3, <2>1 DEF OpInv
  <2>3. /\ op.at = "PROGRAM" <=> op.name = "program_flash_image"
        /\ op.at = "VERIFY" <=> op.name = "verify_flash_image"
    BY <2>1, <2>2 DEF StageAfterService, FlashOperations, Appends
  <2>4. op.image \in Images /\ ImageOf(op) = op.image
    BY <1>3, <1>4, <2>1, <2>3 DEF OpInv, UsesImage, ImageOf
  <2>5. op.image \in SessionImages
    BY <2>4 DEF SessionImages
  <2>6. device.service = "ATTACHED"
    BY <1>3, <2>1 DEF Running, ServiceInv
  <2>7. QED
    BY <1>1, <1>3, <1>4, <1>6, <2>2, <2>3, <2>4, <2>5, <2>6, PacketsType
<1>7. QED
  BY <1>5, <1>6

LEMMA TransferRequest ==
  ASSUME NEW command, NEW q, q = TransferReq(command)
  PROVE  q.command = command /\ q.type = op.at /\ q.image = ImageOf(op) /\ q.index = op.sent - 1
BY SameNotions DEF TransferReq, Req

\* The operation with one more packet sent.
LEMMA PacketSent ==
  ASSUME IInv, Transferring, NEW n \in Nat, n > 0, n <= Packets(ImageOf(op)) + 1, Sent(n)
  PROVE  /\ OpInv(op') /\ op'.at = op.at /\ op'.sent = n /\ ImageOf(op') = ImageOf(op)
         /\ op'.name = op.name /\ op'.image = op.image /\ op'.before = op.before
         /\ cancel' = cancel
<1>1. OpInv(op) /\ op.at \in Transfers
  BY InTransfer
<1>2. /\ op' \in OpType /\ op'.at = op.at /\ op'.sent = n
      /\ op'.name = op.name /\ op'.image = op.image /\ op'.before = op.before
      /\ cancel' = cancel
  BY <1>1, NextPacket
<1>3. ImageOf(op') = ImageOf(op)
  BY <1>2 DEF ImageOf
<1>4. QED
  BY <1>1, <1>2, <1>3 DEF OpInv

LEMMA TransferBeginStep == IInv /\ TransferBegin => IInv'
<1> SUFFICES ASSUME IInv, TransferBegin PROVE IInv'
  OBVIOUS
<1>1. Transferring /\ op.sent = 0
  BY DEF TransferBegin
<1>2. PICK q : q = TransferReq("BEGIN")
  OBVIOUS
<1>3. q.command = "BEGIN" /\ q.type = op.at /\ q.image = ImageOf(op)
  BY <1>2, TransferRequest
<1>4. LineType'
  <2>1. discovered' = discovered /\ (lost' = lost \/ (lost < MaxLost /\ lost' = lost + 1))
    BY DEF TransferBegin, Exchange, Answered, Unanswered
  <2>2. QED
    BY <2>1, LineKept
<1>5. (Failed /\ AfterAny(q)) \/ (Sent(1) /\ AfterOK(q))
  BY <1>2, Zenon DEF TransferBegin, Exchange, Answered, Unanswered, AfterAny, AfterOK
<1>6. /\ Running(op, device) /\ OpInv(op) /\ DeviceInv(device) /\ op.at \in Transfers
      /\ ImageOf(op) \in SessionImages /\ Packets(ImageOf(op)) \in Nat
      /\ op.at = "RAM_LOAD" => ImageOf(op) \in {Service, RamApp}
  BY <1>1, InTransfer
<1>7. Quiet(op, device)
  BY <1>1, <1>6, QuietStage DEF Sending
<1>8. /\ DeviceInv(device') /\ SameStore(device, device') /\ device'.service = device.service
      /\ AfterOK(q) => SessionMoved(device, device', op.at, Session(ImageOf(op)))
  BY <1>3, <1>5, <1>6, BeginEffect DEF AfterAny, AfterOK, SameStore, SameFlashService
<1>9. CASE Failed
  BY <1>4, <1>6, <1>7, <1>8, <1>9, FailedStep DEF Quiet, SameStore
<1>10. CASE Sent(1) /\ AfterOK(q)
  <2>1. /\ OpInv(op') /\ op'.at = op.at /\ op'.sent = 1 /\ ImageOf(op') = ImageOf(op)
        /\ op'.name = op.name /\ op'.image = op.image /\ op'.before = op.before
        /\ cancel' = cancel
    BY <1>1, <1>6, <1>10, PacketSent
  <2>2. SessionInv(op', device')
    <3> SUFFICES ASSUME NEW k \in Transfers
                 PROVE  IF Sending(op', k)
                        THEN device'.session[k] = [image |-> ImageOf(op'), index |-> op'.sent - 1]
                        ELSE device'.session[k] \in {NoSession, op'.before.session[k]}
      BY DEF SessionInv
    <3>1. CASE k = op.at
      BY <1>8, <1>10, <2>1, <3>1 DEF Sending, SessionMoved, Session
    <3>2. CASE k # op.at
      BY <1>7, <1>8, <1>10, <2>1, <3>2 DEF Sending, SessionMoved, Quiet
    <3>3. QED
      BY <3>1, <3>2
  <2>3. FlashInv(op', device')
    <3>1. /\ \A a \in 1 .. op.image : ~(a < op'.sent)
          /\ \A a \in Addresses : ~(a < op'.sent)
      BY <1>6, <2>1, PositiveNumbers DEF OpInv, OpType
    <3>2. QED
      BY <1>7, <1>8, <2>1, <3>1 DEF FlashInv, Quiet, SameStore
  <2>4. JournalInv(op', device') /\ ServiceInv(op', device')
    BY <1>6, <1>8, <2>1 DEF Running, JournalInv, ServiceInv, SameStore, Transfers
  <2>5. RestType'
    BY <1>4, <2>1 DEF IInv, RestType
  <2>6. QED
    BY <1>8, <2>1, <2>2, <2>3, <2>4, <2>5, GoesOn DEF Running
<1>11. QED
  BY <1>5, <1>9, <1>10

\* What a data packet of the operation's transfer leaves.
LEMMA DataOfTransfer ==
  ASSUME IInv, Transferring, op.sent \in 1 .. Packets(ImageOf(op)),
         NEW q, q = TransferReq("DATA"), AfterAny(q) \/ AfterOK(q)
  PROVE  /\ DeviceInv(device') /\ device'.journal = device.journal
         /\ op.at # "PROGRAM" => device'.flash = device.flash
         /\ op.at # "RAM_LOAD" => device'.service = device.service
         /\ AfterOK(q) =>
              /\ SessionMoved(device, device', op.at,
                              [image |-> ImageOf(op), index |-> op.sent])
              /\ op.at = "PROGRAM" => /\ device.flash[op.sent] = None
                                      /\ PacketWritten(device, device', op.sent, op.image)
              /\ op.at = "VERIFY" => device.flash[op.sent] = op.image
<1>1. q.command = "DATA" /\ q.type = op.at /\ q.image = ImageOf(op) /\ q.index = op.sent - 1
  BY TransferRequest
<1>2. /\ Running(op, device) /\ OpInv(op) /\ DeviceInv(device) /\ op.at \in Transfers
      /\ op.sent \in Nat /\ ImageOf(op) \in SessionImages /\ Packets(ImageOf(op)) \in Nat
      /\ op.at = "RAM_LOAD" => ImageOf(op) \in {Service, RamApp}
      /\ op.at # "RAM_LOAD" => ImageOf(op) = op.image /\ op.image \in Images
  BY InTransfer
<1>3. device.session[op.at] = [image |-> ImageOf(op), index |-> op.sent - 1]
  BY <1>2 DEF Running, SessionInv, Sending
<1>4. q.index \in Nat /\ q.index < Packets(q.image) /\ q.index + 1 = op.sent
  BY <1>1, <1>2
<1>5. ASSUME NEW fault, NEW r, r = Respond(device, q, fault)
      PROVE  /\ DeviceInv(r.device) /\ r.device.journal = device.journal
             /\ op.at # "PROGRAM" => r.device.flash = device.flash
             /\ op.at # "RAM_LOAD" => r.device.service = device.service
             /\ r.status = "OK" =>
                  /\ SessionMoved(device, r.device, op.at,
                                  [image |-> ImageOf(op), index |-> op.sent])
                  /\ op.at = "PROGRAM" => /\ device.flash[op.sent] = None
                                          /\ PacketWritten(device, r.device, op.sent, op.image)
                  /\ op.at = "VERIFY" => device.flash[op.sent] = op.image
  <2>1. /\ q.image \in SessionImages /\ (q.type = "RAM_LOAD" => q.image \in {Service, RamApp})
        /\ q.type # "RAM_LOAD" => q.image \in Images
        /\ q.type \in Transfers
        /\ device.session[q.type] = [image |-> q.image, index |-> q.index]
    BY <1>1, <1>2, <1>3
  <2>2. /\ DeviceInv(r.device) /\ r.device.journal = device.journal
        /\ q.type # "PROGRAM" => r.device.flash = device.flash
        /\ q.type # "RAM_LOAD" => r.device.service = device.service
        /\ r.status = "OK" =>
             /\ SessionMoved(device, r.device, q.type,
                             [image |-> q.image, index |-> q.index + 1])
             /\ q.type = "PROGRAM" => /\ device.flash[q.index + 1] = None
                                      /\ PacketWritten(device, r.device, q.index + 1, q.image)
             /\ q.type = "VERIFY" => device.flash[q.index + 1] = q.image
    BY <1>1, <1>2, <1>4, <1>5, <2>1, DataEffect
  <2>3. QED
    BY <1>1, <1>2, <1>4, <2>2
<1>6. CASE device' = device /\ ~AfterOK(q)
  BY <1>2, <1>6
<1>7. CASE AfterOK(q)
  BY <1>5, <1>7 DEF AfterOK
<1>8. CASE ~AfterOK(q) /\ \E fault : device' = Respond(device, q, fault).device
  BY <1>5, <1>8
<1>9. QED
  BY <1>6, <1>7, <1>8 DEF AfterAny

LEMMA TransferDataStep == IInv /\ TransferData => IInv'
<1> SUFFICES ASSUME IInv, TransferData PROVE IInv'
  OBVIOUS
<1>1. Transferring /\ op.sent \in 1 .. Packets(ImageOf(op))
  BY SameNotions DEF TransferData
<1>2. PICK q : q = TransferReq("DATA")
  OBVIOUS
<1>3. LineType'
  <2>1. discovered' = discovered /\ (lost' = lost \/ (lost < MaxLost /\ lost' = lost + 1))
    BY DEF TransferData, Exchange, Answered, Unanswered
  <2>2. QED
    BY <2>1, LineKept
<1>4. (Failed /\ AfterAny(q)) \/ (Sent(op.sent + 1) /\ AfterOK(q))
  BY <1>2, Zenon DEF TransferData, Exchange, Answered, Unanswered, AfterAny, AfterOK
<1>5. /\ Running(op, device) /\ OpInv(op) /\ DeviceInv(device) /\ op.at \in Transfers
      /\ op.sent \in Nat /\ ImageOf(op) \in SessionImages /\ Packets(ImageOf(op)) \in Nat
      /\ op.at = "RAM_LOAD" => ImageOf(op) \in {Service, RamApp}
      /\ op.at # "RAM_LOAD" => /\ ImageOf(op) = op.image /\ op.image \in Images
                               /\ Packets(op.image) = op.image
      /\ op.at = "PROGRAM" <=> op.name = "program_flash_image" /\ op.at # "RAM_LOAD"
  BY <1>1, InTransfer
<1>6. /\ DeviceInv(device') /\ device'.journal = device.journal
      /\ op.at # "PROGRAM" => device'.flash = device.flash
      /\ op.at # "RAM_LOAD" => device'.service = device.service
      /\ AfterOK(q) =>
           /\ SessionMoved(device, device', op.at,
                           [image |-> ImageOf(op), index |-> op.sent])
           /\ op.at = "PROGRAM" => /\ device.flash[op.sent] = None
                                   /\ PacketWritten(device, device', op.sent, op.image)
           /\ op.at = "VERIFY" => device.flash[op.sent] = op.image
  BY <1>1, <1>2, <1>4, DataOfTransfer
<1>7. CASE Failed
  BY <1>3, <1>5, <1>6, <1>7, FailedStep DEF Running, JournalInv
<1>8. CASE Sent(op.sent + 1) /\ AfterOK(q)
  <2>1. /\ OpInv(op') /\ op'.at = op.at /\ op'.sent = op.sent + 1 /\ ImageOf(op') = ImageOf(op)
        /\ op'.name = op.name /\ op'.image = op.image /\ op'.before = op.before
        /\ cancel' = cancel
    BY <1>1, <1>5, <1>8, PacketSent
  <2>2. SessionInv(op', device')
    <3> SUFFICES ASSUME NEW k \in Transfers
                 PROVE  IF Sending(op', k)
                        THEN device'.session[k] = [image |-> ImageOf(op'), index |-> op'.sent - 1]
                        ELSE device'.session[k] \in {NoSession, op'.before.session[k]}
      BY DEF SessionInv
    <3>1. CASE k = op.at
      BY <1>5, <1>6, <1>8, <2>1, <3>1 DEF Sending, SessionMoved
    <3>2. CASE k # op.at
      BY <1>5, <1>6, <1>8, <2>1, <3>2 DEF Sending, SessionMoved, Running, SessionInv
    <3>3. QED
      BY <3>1, <3>2
  <2>3. FlashInv(op', device')
    <3>1. ASSUME op.at \in {"PROGRAM", "VERIFY"}, NEW a \in 1 .. op.image, a < op.sent + 1
          PROVE  device'.flash[a] = op.image
      <4>1. a \in Addresses /\ (a < op.sent \/ a = op.sent)
        BY <1>5, <3>1, ImageAddresses, PositiveNumbers
      <4>2. a < op.sent => device.flash[a] = op.image
        BY <1>5, <3>1 DEF Running, FlashInv
      <4>3. QED
        BY <1>6, <1>8, <3>1, <4>1, <4>2 DEF PacketWritten
    <3>2. ASSUME op.name = "program_flash_image", NEW a \in Addresses
          PROVE  IF op.at = "PROGRAM" /\ a < op.sent + 1
                 THEN op.before.flash[a] = None
                 ELSE device'.flash[a] = op.before.flash[a]
      <4>1. IF op.at = "PROGRAM" /\ a < op.sent
            THEN op.before.flash[a] = None
            ELSE device.flash[a] = op.before.flash[a]
        BY <1>5, <3>2 DEF Running, FlashInv
      <4>2. a \in Nat /\ (a < op.sent + 1 <=> a < op.sent \/ a = op.sent) /\ ~(op.sent < op.sent)
        BY <1>5, PositiveNumbers
      <4>3. QED
        BY <1>6, <1>8, <4>1, <4>2 DEF PacketWritten
    <3>3. QED
      BY <2>1, <3>1, <3>2 DEF FlashInv
  <2>4. JournalInv(op', device') /\ ServiceInv(op', device')
    BY <1>5, <1>6, <2>1 DEF Running, JournalInv, ServiceInv, Transfers, ServiceStages
  <2>5. RestType'
    BY <1>3, <2>1 DEF IInv, RestType
  <2>6. QED
    BY <1>6, <2>1, <2>2, <2>3, <2>4, <2>5, GoesOn DEF Running
<1>9. QED
  BY <1>4, <1>7, <1>8

LEMMA TransferCancelledStep == IInv /\ TransferCancelled => IInv'
<1> SUFFICES ASSUME IInv, TransferCancelled PROVE IInv'
  OBVIOUS
<1>1. /\ Transferring /\ op.sent = 0 /\ CancelledResult(FALSE, Attached)
      /\ device' = device /\ discovered' = discovered /\ lost' = lost
  BY DEF TransferCancelled, SeenAt
<1>2. /\ Running(op, device) /\ OpInv(op) /\ DeviceInv(device)
      /\ Attached => device.service = "ATTACHED"
  BY <1>1, InTransfer DEF Attached
<1>3. Quiet(op, device)
  BY <1>1, <1>2, QuietStage DEF Sending
<1>4. LineType'
  BY <1>1, LineKept
<1>5. QED
  BY <1>1, <1>2, <1>3, <1>4, QuietCancelledStep

\* What a transfer cut short reports.
LEMMA CutShortEnds ==
  ASSUME OpInv(op), CancelledResult(op.at = "PROGRAM" /\ op.sent > 1, Attached)
  PROVE  /\ EndsAs("cancelled") /\ ~result'.written
         /\ result'.partial <=> op.at = "PROGRAM" /\ op.sent > 1
         /\ result'.attached => Attached
<1>1. result'.of = [op EXCEPT !.sent = 0, !.at = "none"] /\ op' = NoOp /\ cancel' = FALSE
  BY DEF CancelledResult, Finish, Result
<1>2. result'.completion = "cancelled" /\ ~result'.written
  BY DEF CancelledResult, Finish, Result
<1>3. EndsAs("cancelled")
  BY <1>1, <1>2 DEF EndsAs, OpInv, OpType
<1>4. result'.partial = (op.at = "PROGRAM" /\ op.sent > 1)
  BY DEF CancelledResult, Finish, Result
<1>5. result'.attached = Attached
  BY DEF CancelledResult, Finish, Result
<1>6. QED
  BY <1>2, <1>3, <1>4, <1>5

\* The device after an END that closed its session, complete or not.
AfterClosed(q) ==
  \E fault : LET r == Respond(device, q, fault) IN
    device' = r.device /\ r.status \in {"OK", "TOTAL_COUNT_MISMATCH"}

\* What END leaves, of any transfer of the operation.
LEMMA EndOfTransfer ==
  ASSUME IInv, Transferring, op.sent > 0, NEW q, q = TransferReq("END"),
         AfterAny(q) \/ AfterClosed(q)
  PROVE  /\ DeviceInv(device') /\ SameStore(device, device') /\ device'.service = device.service
         /\ AfterClosed(q) =>
              \A k \in Transfers : device'.session[k] \in {NoSession, op.before.session[k]}
         /\ AfterOK(q) => /\ op.at = "VERIFY" => device'.verified
                          /\ op.at = "RAM_LOAD" => device'.loaded = ImageOf(op)
<1>1. q.command = "END" /\ q.type = op.at /\ q.image = ImageOf(op)
  BY TransferRequest
<1>2. /\ Running(op, device) /\ OpInv(op) /\ DeviceInv(device) /\ op.at \in Transfers
  BY InTransfer
<1>3. device.session[op.at] = [image |-> ImageOf(op), index |-> op.sent - 1]
  BY <1>2 DEF Running, SessionInv, Sending
<1>4. ASSUME NEW fault, NEW r, r = Respond(device, q, fault)
      PROVE  /\ DeviceInv(r.device) /\ SameStore(device, r.device)
             /\ r.device.service = device.service
             /\ r.status \in {"OK", "TOTAL_COUNT_MISMATCH"} =>
                  SessionMoved(device, r.device, op.at, NoSession)
             /\ r.status = "OK" => /\ op.at = "VERIFY" => r.device.verified
                                   /\ op.at = "RAM_LOAD" => r.device.loaded = ImageOf(op)
  <2>1. /\ DeviceInv(r.device) /\ SameStore(device, r.device) /\ r.device.service = device.service
        /\ r.status \in {"OK", "TOTAL_COUNT_MISMATCH"} =>
             SessionMoved(device, r.device, q.type, NoSession)
        /\ r.status = "OK" => /\ q.type = "VERIFY" => r.device.verified
                              /\ q.type = "RAM_LOAD" => r.device.loaded = device.session[q.type].image
    BY <1>1, <1>2, <1>4, EndEffect
  <2>2. QED
    BY <1>1, <1>3, <2>1
<1>5. /\ DeviceInv(device') /\ SameStore(device, device') /\ device'.service = device.service
  BY <1>2, <1>4 DEF AfterAny, AfterClosed, SameStore
<1>6. ASSUME AfterClosed(q), NEW k \in Transfers
      PROVE  device'.session[k] \in {NoSession, op.before.session[k]}
  <2>1. SessionMoved(device, device', op.at, NoSession)
    BY <1>4, <1>6 DEF AfterClosed
  <2>2. CASE k = op.at
    BY <2>1, <2>2 DEF SessionMoved
  <2>3. CASE k # op.at
    <3>1. ~Sending(op, k)
      BY <2>3 DEF Sending
    <3>2. QED
      BY <1>2, <2>1, <2>3, <3>1 DEF SessionMoved, Running, SessionInv
  <2>4. QED
    BY <2>2, <2>3
<1>7. AfterOK(q) => /\ op.at = "VERIFY" => device'.verified
                    /\ op.at = "RAM_LOAD" => device'.loaded = ImageOf(op)
  BY <1>4 DEF AfterOK
<1>8. QED
  BY <1>5, <1>6, <1>7

LEMMA TransferCleanupStep == IInv /\ TransferCleanup => IInv'
<1> SUFFICES ASSUME IInv, TransferCleanup PROVE IInv'
  OBVIOUS
<1>1. Transferring /\ op.sent \in 1 .. Packets(ImageOf(op))
  BY SameNotions DEF TransferCleanup
<1>2. PICK q : q = TransferReq("END")
  OBVIOUS
<1>3. LineType'
  <2>1. discovered' = discovered /\ (lost' = lost \/ (lost < MaxLost /\ lost' = lost + 1))
    BY DEF TransferCleanup, Answered, Unanswered
  <2>2. QED
    BY <2>1, LineKept
<1>4. \/ CleanupFailed /\ AfterAny(q)
      \/ CancelledResult(op.at = "PROGRAM" /\ op.sent > 1, Attached) /\ AfterClosed(q)
  BY <1>2, Zenon DEF TransferCleanup, Answered, Unanswered, AfterAny, AfterClosed
<1>5. /\ Running(op, device) /\ OpInv(op) /\ DeviceInv(device) /\ op.at \in Transfers
      /\ op.sent \in Nat /\ ImageOf(op) \in SessionImages /\ Packets(ImageOf(op)) \in Nat
      /\ op.at # "RAM_LOAD" =>
           /\ ImageOf(op) = op.image /\ op.image \in Images /\ Packets(op.image) = op.image
           /\ device.service = "ATTACHED"
      /\ op.at = "PROGRAM" <=> op.name = "program_flash_image" /\ op.at # "RAM_LOAD"
  BY <1>1, InTransfer
<1>6. op.sent > 0
  BY <1>1, <1>5
<1>7. /\ DeviceInv(device') /\ SameStore(device, device') /\ device'.service = device.service
      /\ AfterClosed(q) =>
           \A k \in Transfers : device'.session[k] \in {NoSession, op.before.session[k]}
  BY <1>1, <1>2, <1>4, <1>6, EndOfTransfer
<1>8. op.name \in DOMAIN Appends => device'.journal = op.before.journal
  BY <1>5, <1>7 DEF Running, JournalInv, SameStore
<1>9. CASE CleanupFailed
  BY <1>3, <1>5, <1>7, <1>8, <1>9, CleanupFailedStep
<1>10. CASE CancelledResult(op.at = "PROGRAM" /\ op.sent > 1, Attached) /\ AfterClosed(q)
  <2>1. /\ EndsAs("cancelled") /\ ~result'.written
        /\ result'.partial <=> op.at = "PROGRAM" /\ op.sent > 1
        /\ result'.attached => Attached
    BY <1>5, <1>10, CutShortEnds
  <2>2. result'.attached => device'.service = "ATTACHED"
    BY <1>5, <1>7, <2>1 DEF Attached
  <2>3. ASSUME op.name = "program_flash_image"
        PROVE  device.flash # op.before.flash <=> op.at = "PROGRAM" /\ op.sent > 1
    <3>1. device.flash \in FlashContents /\ op.before.flash \in FlashContents
      BY <1>5 DEF DeviceInv, DeviceType, OpInv, OpType
    <3>2. ASSUME op.at = "PROGRAM", op.sent > 1 PROVE device.flash # op.before.flash
      <4>1. op.image \in Images /\ op.image \in Nat /\ op.image > 0 /\ op.image # None
        BY <1>5, <3>2, PositiveNumbers DEF None
      <4>2. 1 \in 1 .. op.image /\ 1 < op.sent /\ 1 \in Addresses
        BY <1>5, <3>2, <4>1, ImageAddresses
      <4>3. device.flash[1] = op.image
        BY <1>5, <3>2, <4>2 DEF Running, FlashInv
      <4>4. op.before.flash[1] = None
        BY <1>5, <2>3, <3>2, <4>2 DEF Running, FlashInv
      <4>5. QED
        BY <4>1, <4>3, <4>4
    <3>3. ASSUME ~(op.at = "PROGRAM" /\ op.sent > 1) PROVE device.flash = op.before.flash
      <4>1. \A a \in Addresses : ~(op.at = "PROGRAM" /\ a < op.sent)
        BY <1>5, <3>3, PositiveNumbers
      <4>2. \A a \in Addresses : device.flash[a] = op.before.flash[a]
        BY <1>5, <2>3, <4>1 DEF Running, FlashInv
      <4>3. QED
        BY <3>1, <4>2 DEF FlashContents
    <3>4. QED
      BY <3>2, <3>3
  <2>4. op.name = "program_flash_image" => (result'.partial <=> device'.flash # op.before.flash)
    BY <1>7, <2>1, <2>3 DEF SameStore
  <2>5. QED
    BY <1>3, <1>5, <1>7, <1>8, <1>10, <2>1, <2>2, <2>4, CancelledStep
<1>11. QED
  BY <1>4, <1>9, <1>10

\* A complete transfer has done what the operation is for, or loaded the service.
LEMMA TransferEndStep == IInv /\ TransferEnd => IInv'
<1> SUFFICES ASSUME IInv, TransferEnd PROVE IInv'
  OBVIOUS
<1>1. Transferring /\ op.sent = Packets(ImageOf(op)) + 1
  BY SameNotions DEF TransferEnd
<1>2. PICK q : q = TransferReq("END")
  OBVIOUS
<1>3. LineType'
  <2>1. discovered' = discovered /\ (lost' = lost \/ (lost < MaxLost /\ lost' = lost + 1))
    BY DEF TransferEnd, Exchange, Answered, Unanswered
  <2>2. QED
    BY <2>1, LineKept
<1>4. \/ Failed /\ AfterAny(q)
      \/ /\ IF TransferImage # Service THEN Completed(FALSE)
            ELSE IF cancel THEN CancelledResult(FALSE, FALSE) ELSE GoTo("RAM_CHECK_CRC")
         /\ AfterOK(q)
  BY <1>2, Zenon DEF TransferEnd, Exchange, Answered, Unanswered, AfterAny, AfterOK
<1>5. /\ Running(op, device) /\ OpInv(op) /\ DeviceInv(device) /\ op.at \in Transfers
      /\ op.sent \in Nat /\ ImageOf(op) \in SessionImages /\ Packets(ImageOf(op)) \in Nat
      /\ op.at = "RAM_LOAD" =>
           /\ ImageOf(op) = IF op.name = "load_ram_image" THEN RamApp ELSE Service
           /\ op.name \in FlashOperations \cup {"load_ram_image"}
      /\ op.at # "RAM_LOAD" =>
           /\ ImageOf(op) = op.image /\ op.image \in Images /\ Packets(op.image) = op.image
           /\ device.service = "ATTACHED" /\ op.name \in FlashOperations
      /\ op.at = "PROGRAM" <=> op.name = "program_flash_image" /\ op.at # "RAM_LOAD"
      /\ op.at = "VERIFY" <=> op.name = "verify_flash_image" /\ op.at # "RAM_LOAD"
  BY <1>1, InTransfer
<1>6. op.sent > 0 /\ (AfterOK(q) => AfterClosed(q))
  BY <1>1, <1>5 DEF AfterOK, AfterClosed
<1>7. /\ DeviceInv(device') /\ SameStore(device, device') /\ device'.service = device.service
      /\ AfterOK(q) =>
           /\ \A k \in Transfers : device'.session[k] \in {NoSession, op.before.session[k]}
           /\ op.at = "VERIFY" => device'.verified
           /\ op.at = "RAM_LOAD" => device'.loaded = ImageOf(op)
  BY <1>1, <1>2, <1>4, <1>6, EndOfTransfer
<1>8. op.name \in DOMAIN Appends => device'.journal = op.before.journal
  BY <1>5, <1>7 DEF Running, JournalInv, SameStore
<1>9. CASE Failed
  BY <1>3, <1>5, <1>7, <1>8, <1>9, FailedStep
<1>10. CASE op.at # "RAM_LOAD" /\ Completed(FALSE) /\ AfterOK(q)
  <2>1. op.at \in {"PROGRAM", "VERIFY"}
    BY <1>5, <1>10 DEF Transfers
  <2>2. \A a \in 1 .. op.image : device'.flash[a] = op.image
    <3>1. op.image \in Nat /\ op.sent = op.image + 1
      BY <1>1, <1>5, <1>10, PositiveNumbers
    <3>2. \A a \in 1 .. op.image : a < op.sent
      BY <3>1
    <3>3. QED
      BY <1>5, <1>7, <2>1, <3>2 DEF Running, FlashInv, SameStore
  <2>3. op.name \in {"program_flash_image", "verify_flash_image"}
    BY <1>5, <1>10, <2>1
  <2>4. Achieved(op, device')
    BY <1>5, <1>7, <1>10, <2>2, <2>3 DEF Achieved
  <2>5. QED
    BY <1>3, <1>5, <1>7, <1>8, <1>10, <2>4, CompletedStep
<1>11. CASE op.at = "RAM_LOAD" /\ op.name = "load_ram_image" /\ Completed(FALSE) /\ AfterOK(q)
  <2>1. Achieved(op, device')
    BY <1>5, <1>7, <1>11 DEF Achieved, FlashOperations
  <2>2. QED
    BY <1>3, <1>5, <1>7, <1>8, <1>11, <2>1, CompletedStep
<1>12. CASE /\ op.at = "RAM_LOAD" /\ op.name \in FlashOperations /\ AfterOK(q)
            /\ CancelledResult(FALSE, FALSE) \/ GoTo("RAM_CHECK_CRC")
  <2>1. Quiet(op, device')
    BY <1>5, <1>7, <1>8, <1>12 DEF Quiet, Running, FlashInv, SameStore
  <2>2. CASE CancelledResult(FALSE, FALSE)
    BY <1>3, <1>5, <1>7, <2>1, <2>2, QuietCancelledStep
  <2>3. CASE GoTo("RAM_CHECK_CRC")
    BY <1>3, <1>5, <1>7, <1>12, <2>1, <2>3, StageEntered
       DEF Stages, ServiceStages, AttachStages, OtherStages
  <2>4. QED
    BY <1>12, <2>2, <2>3
<1>13. QED
  <2>1. TransferImage = ImageOf(op)
    BY SameNotions
  <2>2. RamApp # Service /\ (op.image \in Images => op.image # Service) /\ "load_ram_image" \notin FlashOperations
    BY PositiveNumbers DEF RamApp, Service, FlashOperations
  <2>3. CASE op.at = "RAM_LOAD"
    BY <1>4, <1>5, <1>9, <1>11, <1>12, <2>1, <2>2, <2>3
  <2>4. CASE op.at # "RAM_LOAD"
    BY <1>4, <1>5, <1>9, <1>10, <2>1, <2>2, <2>4
  <2>5. QED
    BY <2>3, <2>4

-----------------------------------------------------------------------------
(* Erasing. *)

LEMMA EraseRequest ==
  ASSUME NEW sectors, NEW q, q = EraseReq(sectors)
  PROVE  q.command = "ERASE" /\ q.sectors = sectors
BY DEF EraseReq, Req

\* What an exchange with ERASE leaves.
LEMMA Erased ==
  ASSUME DeviceInv(device), NEW q, q.command = "ERASE", AfterAny(q) \/ AfterOK(q)
  PROVE  /\ DeviceInv(device') /\ device'.service = device.service
         /\ \A k \in Transfers : device'.session[k] \in {NoSession, device.session[k]}
         /\ "app" \notin q.sectors => device'.flash = device.flash
         /\ device'.journal \in {<<>>, device.journal}
         /\ "metadata" \notin q.sectors => device'.journal = device.journal
         /\ AfterOK(q) => /\ "app" \in q.sectors => \A a \in Addresses : device'.flash[a] = None
                          /\ "metadata" \in q.sectors => device'.journal = <<>>
BY EraseEffect DEF AfterAny, AfterOK

\* The metadata is gone before the image's sectors are touched.
LEMMA EraseMetadataStep == IInv /\ EraseMetadata => IInv'
<1> SUFFICES ASSUME IInv, EraseMetadata PROVE IInv'
  OBVIOUS
<1>1. op.at = "ERASE_METADATA"
  BY DEF EraseMetadata, Ask
<1>2. PICK q : q = EraseReq({"metadata"})
  OBVIOUS
<1>3. q.command = "ERASE" /\ "app" \notin q.sectors /\ "metadata" \in q.sectors
  BY <1>2, EraseRequest
<1>4. /\ Running(op, device) /\ OpInv(op) /\ DeviceInv(device) /\ Quiet(op, device)
      /\ op.name = "erase_flash_image_area" /\ device.service = "ATTACHED"
  <2>1. op.at \in Stages \ Transfers /\ op.at \in ServiceStages
    BY <1>1 DEF Stages, ServiceStages, Transfers
  <2>2. /\ Running(op, device) /\ OpInv(op) /\ DeviceInv(device) /\ Quiet(op, device)
    BY <2>1, AtStage, NotTransferring
  <2>3. op.name = "erase_flash_image_area"
    BY <1>1, <2>1, <2>2 DEF OpInv, StageAfterService, FlashOperations, Appends
  <2>4. QED
    BY <2>1, <2>2, <2>3 DEF Running, ServiceInv
<1>5. LineType'
  <2>1. discovered' = discovered /\ (lost' = lost \/ (lost < MaxLost /\ lost' = lost + 1))
    BY DEF EraseMetadata, Exchange, Answered, Unanswered
  <2>2. QED
    BY <2>1, LineKept
<1>6. (Failed /\ AfterAny(q)) \/ (GoTo("ERASE_REST") /\ AfterOK(q))
  BY <1>2, Zenon DEF EraseMetadata, Exchange, Answered, Unanswered, AfterAny, AfterOK
<1>7. /\ DeviceInv(device') /\ device'.service = device.service
      /\ \A k \in Transfers : device'.session[k] \in {NoSession, device.session[k]}
      /\ AfterOK(q) => device'.journal = <<>>
  BY <1>3, <1>4, <1>6, Erased
<1>8. op.name \notin DOMAIN Appends /\ op.name \in FlashOperations
  BY <1>4 DEF Appends, FlashOperations
<1>9. Quiet(op, device')
  BY <1>4, <1>7, <1>8 DEF Quiet
<1>10. CASE Failed
  BY <1>4, <1>5, <1>7, <1>8, <1>10, FailedStep
<1>11. CASE GoTo("ERASE_REST") /\ AfterOK(q)
  BY <1>4, <1>5, <1>7, <1>8, <1>9, <1>11, StageEntered DEF Stages, ServiceStages, OtherStages
<1>12. QED
  BY <1>6, <1>10, <1>11

LEMMA EraseRestStep == IInv /\ EraseRest => IInv'
<1> SUFFICES ASSUME IInv, EraseRest PROVE IInv'
  OBVIOUS
<1>1. op.at = "ERASE_REST"
  BY DEF EraseRest
<1>2. PICK q : q = EraseReq({"app"})
  OBVIOUS
<1>3. q.command = "ERASE" /\ "app" \in q.sectors /\ "metadata" \notin q.sectors
  BY <1>2, EraseRequest
<1>4. /\ Running(op, device) /\ OpInv(op) /\ DeviceInv(device)
      /\ op.name = "erase_flash_image_area" /\ device.service = "ATTACHED"
      /\ device.journal = <<>>
  <2>1. op.at \in Stages \ Transfers /\ op.at \in ServiceStages
    BY <1>1 DEF Stages, ServiceStages, Transfers
  <2>2. /\ Running(op, device) /\ OpInv(op) /\ DeviceInv(device)
    BY <2>1, AtStage
  <2>3. op.name = "erase_flash_image_area"
    BY <1>1, <2>1, <2>2 DEF OpInv, StageAfterService, FlashOperations, Appends
  <2>4. QED
    BY <1>1, <2>1, <2>2, <2>3 DEF Running, ServiceInv, JournalInv
<1>5. LineType'
  <2>1. discovered' = discovered /\ (lost' = lost \/ (lost < MaxLost /\ lost' = lost + 1))
    BY DEF EraseRest, Exchange, Answered, Unanswered
  <2>2. QED
    BY <2>1, LineKept
<1>6. (Failed /\ AfterAny(q)) \/ (Completed(FALSE) /\ AfterOK(q))
  BY <1>2, Zenon DEF EraseRest, Exchange, Answered, Unanswered, AfterAny, AfterOK
<1>7. /\ DeviceInv(device') /\ device'.service = device.service
      /\ device'.journal = device.journal
      /\ AfterOK(q) => \A a \in Addresses : device'.flash[a] = None
  BY <1>3, <1>4, <1>6, Erased
<1>8. op.name \notin DOMAIN Appends /\ Summary(device').image = None
  BY <1>4, <1>7, EmptySummary DEF Appends
<1>9. CASE Failed
  BY <1>4, <1>5, <1>7, <1>8, <1>9, FailedStep
<1>10. CASE Completed(FALSE) /\ AfterOK(q)
  <2>1. Achieved(op, device')
    BY <1>4, <1>7, <1>8, <1>10 DEF Achieved
  <2>2. QED
    BY <1>4, <1>5, <1>7, <1>8, <1>10, <2>1, CompletedStep
<1>11. QED
  BY <1>6, <1>9, <1>10

LEMMA EraseSectorMaskStep ==
  ASSUME IInv, NEW sectors, EraseSectorMask(sectors)
  PROVE  IInv'
<1>1. op.at = "ERASE"
  BY DEF EraseSectorMask, Ask
<1>2. PICK q : q = EraseReq(sectors)
  OBVIOUS
<1>3. q.command = "ERASE"
  BY <1>2, EraseRequest
<1>4. /\ OpInv(op) /\ DeviceInv(device)
      /\ op.name = "erase_sector_mask" /\ device.service = "ATTACHED"
  <2>1. op.at \in Stages \ Transfers /\ op.at \in ServiceStages
    BY <1>1 DEF Stages, ServiceStages, Transfers
  <2>2. /\ Running(op, device) /\ OpInv(op) /\ DeviceInv(device)
    BY <2>1, AtStage
  <2>3. op.name = "erase_sector_mask"
    BY <1>1, <2>1, <2>2 DEF OpInv, StageAfterService, FlashOperations, Appends
  <2>4. QED
    BY <2>1, <2>2, <2>3 DEF Running, ServiceInv
<1>5. LineType'
  <2>1. discovered' = discovered /\ (lost' = lost \/ (lost < MaxLost /\ lost' = lost + 1))
    BY DEF EraseSectorMask, Exchange, Answered, Unanswered
  <2>2. QED
    BY <2>1, LineKept
<1>6. (Failed \/ Completed(FALSE)) /\ (AfterAny(q) \/ AfterOK(q))
  BY <1>2, Zenon DEF EraseSectorMask, Exchange, Answered, Unanswered, AfterAny, AfterOK
<1>7. DeviceInv(device') /\ device'.service = device.service
  BY <1>3, <1>4, <1>6, Erased
<1>8. op.name \notin DOMAIN Appends
  BY <1>4 DEF Appends
<1>9. CASE Failed
  BY <1>4, <1>5, <1>7, <1>8, <1>9, FailedStep
<1>10. CASE Completed(FALSE)
  <2>1. Achieved(op, device')
    BY <1>4, <1>7 DEF Achieved
  <2>2. QED
    BY <1>4, <1>5, <1>7, <1>8, <1>10, <2>1, CompletedStep
<1>11. QED
  BY <1>6, <1>9, <1>10

\* Nothing was sent, and the service was known to be attached.
LEMMA ServiceStageCancelled ==
  ASSUME IInv, op.at \in ServiceStages \ Transfers, CancelledResult(FALSE, TRUE),
         device' = device, discovered' = discovered, lost' = lost
  PROVE  IInv'
<1>1. op.at \in Stages \ Transfers
  BY DEF Stages, ServiceStages, Transfers
<1>2. /\ Running(op, device) /\ OpInv(op) /\ DeviceInv(device) /\ Quiet(op, device)
      /\ device.service = "ATTACHED"
  BY <1>1, AtStage, NotTransferring DEF Running, ServiceInv
<1>3. LineType'
  BY LineKept
<1>4. QED
  BY <1>2, <1>3, QuietCancelledStep

LEMMA EraseCancelledStep == IInv /\ EraseCancelled => IInv'
BY ServiceStageCancelled DEF EraseCancelled, SeenAt, ServiceStages, Transfers

-----------------------------------------------------------------------------
(* Records of the journal. *)

LEMMA AppendStage ==
  ASSUME IInv, op.at \in {"READ_METADATA_SUMMARY", "METADATA_APPEND_RECORD"}
  PROVE  /\ Running(op, device) /\ OpInv(op) /\ DeviceInv(device) /\ Quiet(op, device)
         /\ op.name \in DOMAIN Appends /\ op.name \in FlashOperations
         /\ device.service = "ATTACHED" /\ device.journal = op.before.journal
<1>1. op.at \in Stages \ Transfers /\ op.at \in ServiceStages
  BY DEF Stages, ServiceStages, Transfers
<1>2. Running(op, device) /\ OpInv(op) /\ DeviceInv(device) /\ Quiet(op, device)
  BY <1>1, AtStage, NotTransferring
<1>3. op.name \in DOMAIN Appends /\ op.name \in FlashOperations
  BY <1>1, <1>2 DEF OpInv, StageAfterService, FlashOperations, Appends
<1>4. QED
  BY <1>1, <1>2, <1>3 DEF Running, ServiceInv, Quiet

LEMMA AppendAchieves ==
  ASSUME NEW o, NEW d, o.name \in DOMAIN Appends, d.service = "ATTACHED"
  PROVE  Achieved(o, d)
BY DEF Achieved, Appends

LEMMA ReadMetadataSummaryStep == IInv /\ ReadMetadataSummary => IInv'
<1> SUFFICES ASSUME IInv, ReadMetadataSummary PROVE IInv'
  OBVIOUS
<1> DEFINE q == Req("GET_METADATA_SUMMARY", None)
<1>1. op.at = "READ_METADATA_SUMMARY"
  BY DEF ReadMetadataSummary, Ask
<1>2. /\ Running(op, device) /\ OpInv(op) /\ DeviceInv(device) /\ Quiet(op, device)
      /\ op.name \in DOMAIN Appends /\ op.name \in FlashOperations
      /\ device.service = "ATTACHED" /\ device.journal = op.before.journal
  BY <1>1, AppendStage
<1>3. PICK current : current = IF Summary(device).image = None THEN op.image
                               ELSE Summary(device).image
  OBVIOUS
<1>4. LineType'
  <2>1. discovered' = discovered /\ (lost' = lost \/ (lost < MaxLost /\ lost' = lost + 1))
    BY DEF ReadMetadataSummary, Exchange, Answered, Unanswered
  <2>2. QED
    BY <2>1, LineKept
<1>5. /\ \/ Failed
         \/ Completed(FALSE)
         \/ /\ Writable(Summary(device))
            /\ op' = [op EXCEPT !.at = "METADATA_APPEND_RECORD", !.current = current]
            /\ UNCHANGED <<cancel, result>>
      /\ AfterAny(q)
  BY <1>3, Zenon DEF ReadMetadataSummary, Exchange, Answered, Unanswered, AfterAny
<1>6. device' = device
  <2>1. q.command \in Reads /\ q.type = "none"
    BY DEF Req, Reads
  <2> HIDE DEF q
  <2>2. QED
    BY <1>5, <2>1, ReadEffect DEF AfterAny
<1>7. CASE Failed
  BY <1>2, <1>4, <1>6, <1>7, FailedStep
<1>8. CASE Completed(FALSE)
  BY <1>2, <1>4, <1>6, <1>8, CompletedStep, AppendAchieves
<1>9. CASE /\ Writable(Summary(device))
           /\ op' = [op EXCEPT !.at = "METADATA_APPEND_RECORD", !.current = current]
           /\ UNCHANGED <<cancel, result>>
  <2>1. MayWrite(op.name, Summary(device))
    BY <1>9, SameNotions
  <2>2. current \in Images \cup {None}
    BY <1>2, <1>3, SummaryFields DEF DeviceInv, DeviceType, OpInv, OpType
  <2>3. /\ op' \in OpType /\ op'.at = "METADATA_APPEND_RECORD" /\ op'.current = current
        /\ op'.name = op.name /\ op'.image = op.image /\ op'.before = op.before
    BY <1>2, <1>9, <2>2 DEF OpInv, OpType, Stages, ServiceStages
  <2>4. OpInv(op')
    BY <1>2, <2>3 DEF OpInv, ServiceStages, AttachStages, OtherStages, Transfers
  <2>5. SessionInv(op', device')
    BY <1>2, <1>6, <2>3 DEF SessionInv, Quiet, Sending, Transfers
  <2>6. FlashInv(op', device') /\ ServiceInv(op', device')
    BY <1>2, <1>6, <2>3 DEF FlashInv, ServiceInv, Appends
  <2>7. JournalInv(op', device')
    BY <1>2, <1>3, <1>6, <2>1, <2>3 DEF JournalInv
  <2>8. RestType'
    BY <1>4, <1>9 DEF IInv, RestType
  <2>9. QED
    BY <1>2, <1>6, <2>4, <2>5, <2>6, <2>7, <2>8, GoesOn DEF Running
<1>10. QED
  BY <1>5, <1>7, <1>8, <1>9

\* The request names the image the summary was of, and what was asked of it holds.
LEMMA AppendRequest ==
  ASSUME IInv, op.at = "METADATA_APPEND_RECORD", NEW q, q = AppendReq
  PROVE  /\ q.command = "METADATA_APPEND_RECORD" /\ q.type = Appends[op.name]
         /\ q.type \in RecordTypes /\ q.image \in Images
         /\ q.type = "IMAGE_VALID" \/ ~Summary(device).confirmed
<1>1. /\ Running(op, device) /\ OpInv(op) /\ DeviceInv(device) /\ op.name \in DOMAIN Appends
  BY AppendStage
<1>2. q.command = "METADATA_APPEND_RECORD" /\ q.type = Appends[op.name] /\ q.image = op.current
  BY DEF AppendReq, Req
<1>3. /\ MayWrite(op.name, Summary(device))
      /\ op.current = IF Summary(device).image = None THEN op.image ELSE Summary(device).image
  BY <1>1 DEF Running, JournalInv
<1>4. Summary(device).image \in Images \cup {None}
  BY <1>1, SummaryFields DEF DeviceInv, DeviceType
<1>5. CASE op.name = "append_image_valid"
  <2>1. op.image \in Images
    BY <1>1, <1>5 DEF OpInv, OpType, UsesImage
  <2>2. QED
    BY <1>2, <1>3, <1>5, <2>1 DEF MayWrite, Appends, RecordTypes
<1>6. CASE op.name \in {"append_boot_attempt", "append_app_confirmed"}
  <2>1. PICK s : s = Summary(device)
    OBVIOUS
  <2>2. s.image # None /\ ~s.confirmed
    BY <1>3, <1>6, <2>1 DEF MayWrite
  <2>3. QED
    BY <1>2, <1>3, <1>4, <1>6, <2>1, <2>2 DEF Appends, RecordTypes
<1>7. QED
  BY <1>1, <1>5, <1>6 DEF Appends

\* One record more, or none; one more for certain when the answer is OK.
LEMMA AppendRecordStep == IInv /\ AppendRecord => IInv'
<1> SUFFICES ASSUME IInv, AppendRecord PROVE IInv'
  OBVIOUS
<1>1. op.at = "METADATA_APPEND_RECORD"
  BY DEF AppendRecord, Ask
<1>2. PICK q : q = AppendReq
  OBVIOUS
<1>3. /\ q.command = "METADATA_APPEND_RECORD" /\ q.type = Appends[op.name]
      /\ q.type \in RecordTypes /\ q.image \in Images
      /\ q.type = "IMAGE_VALID" \/ ~Summary(device).confirmed
  BY <1>1, <1>2, AppendRequest
<1>4. /\ OpInv(op) /\ DeviceInv(device) /\ op.name \in DOMAIN Appends
      /\ device.service = "ATTACHED" /\ device.journal = op.before.journal
  BY <1>1, AppendStage
<1>5. LineType'
  <2>1. discovered' = discovered /\ (lost' = lost \/ (lost < MaxLost /\ lost' = lost + 1))
    BY DEF AppendRecord, Exchange, Answered, Unanswered
  <2>2. QED
    BY <2>1, LineKept
<1>6. (Failed /\ AfterAny(q)) \/ (Completed(TRUE) /\ AfterOK(q))
  BY <1>2, Zenon DEF AppendRecord, Exchange, Answered, Unanswered, AfterAny, AfterOK
<1>7. /\ DeviceInv(device') /\ device'.service = device.service
      /\ \/ device'.journal = device.journal
         \/ Wrote(device, device', q.type, q.image)
      /\ AfterOK(q) => Wrote(device, device', q.type, q.image)
  <2>1. ASSUME NEW fault, NEW r, r = Respond(device, q, fault)
        PROVE  /\ DeviceInv(r.device) /\ r.device.service = device.service
               /\ \/ r.device.journal = device.journal
                  \/ Wrote(device, r.device, q.type, q.image)
               /\ r.status = "OK" => Wrote(device, r.device, q.type, q.image)
    BY <1>3, <1>4, <2>1, AppendEffect
  <2>2. CASE AfterOK(q)
    BY <2>1, <2>2 DEF AfterOK
  <2>3. CASE ~AfterOK(q)
    BY <1>4, <1>6, <2>1, <2>3 DEF AfterAny
  <2>4. QED
    BY <2>2, <2>3
<1>8. Wrote(device, device', q.type, q.image) =>
        /\ Len(device'.journal) = Len(device.journal) + 1
        /\ Front(device'.journal) = device.journal /\ Last(device'.journal).type = q.type
  BY <1>3, <1>4, RecordAppended DEF Wrote
<1>9. CASE Failed
  BY <1>4, <1>5, <1>7, <1>8, <1>9, FailedStep
<1>10. CASE Completed(TRUE) /\ AfterOK(q)
  <2>1. Achieved(op, device')
    BY <1>4, <1>7, AppendAchieves
  <2>2. QED
    BY <1>3, <1>4, <1>5, <1>7, <1>8, <1>10, <2>1, CompletedStep
<1>11. QED
  BY <1>6, <1>9, <1>10

LEMMA AppendCancelledStep == IInv /\ AppendCancelled => IInv'
BY ServiceStageCancelled DEF AppendCancelled, SeenAt, ServiceStages, Transfers

-----------------------------------------------------------------------------
(* One command, the frames of a read, the two commands of a discovery. *)

\* An operation that uses no service and makes no claim about the device.
LEMMA PlainStage ==
  ASSUME IInv, op.at \in {"COMMAND", "MEMORY_READ", "GET_DEVICE_INFO", "GET_PROTOCOL_INFO"}
  PROVE  /\ Running(op, device) /\ OpInv(op) /\ DeviceInv(device) /\ Quiet(op, device)
         /\ op.name \notin FlashOperations \cup {"load_ram_image"} /\ op.name \notin DOMAIN Appends
         /\ \A d : Achieved(op, d)
<1>1. op.at \in Stages \ Transfers /\ op.at \in OtherStages \ {"RAM_LOAD"}
  BY DEF Stages, OtherStages, Transfers
<1>2. Running(op, device) /\ OpInv(op) /\ DeviceInv(device) /\ Quiet(op, device)
  BY <1>1, AtStage, NotTransferring
<1>3. op.name \notin FlashOperations \cup {"load_ram_image"}
  BY <1>1, <1>2 DEF OpInv
<1>4. QED
  BY <1>2, <1>3 DEF Achieved, FlashOperations, Appends

LEMMA OneCommandStep == IInv /\ OneCommandStage => IInv'
<1> SUFFICES ASSUME IInv, OneCommandStage PROVE IInv'
  OBVIOUS
<1>1. op.at = "COMMAND"
  BY DEF OneCommandStage
<1>2. PICK q : q = CommandReq
  OBVIOUS
<1>3. /\ OpInv(op) /\ DeviceInv(device) /\ op.name \notin DOMAIN Appends
      /\ \A d : Achieved(op, d)
  BY <1>1, PlainStage
<1>4. q.type = "none" /\ q.command \in Reads \cup {"RUN", "RUN_RAM", "RAM_CHECK_CRC"}
  <2>1. op.name \in OneCommand
    BY <1>1, <1>3 DEF OpInv
  <2>2. QED
    BY <1>2, <2>1 DEF CommandReq, OneCommand, Req, Reads
<1>5. LineType'
  <2>1. discovered' = discovered /\ (lost' = lost \/ (lost < MaxLost /\ lost' = lost + 1))
    BY DEF OneCommandStage, Exchange, Answered, Unanswered
  <2>2. QED
    BY <2>1, LineKept
<1>6. (Failed \/ Completed(FALSE)) /\ AfterAny(q)
  BY <1>2, Zenon DEF OneCommandStage, Exchange, Answered, Unanswered, AfterAny
<1>7. DeviceInv(device')
  <2>1. CASE q.command = "RAM_CHECK_CRC"
    BY <1>3, <1>4, <1>6, <2>1, CrcEffect DEF AfterAny
  <2>2. CASE q.command \in Reads \cup {"RUN", "RUN_RAM"}
    BY <1>3, <1>4, <1>6, <2>2, ReadEffect DEF AfterAny
  <2>3. QED
    BY <1>4, <2>1, <2>2
<1>8. CASE Failed
  BY <1>3, <1>5, <1>7, <1>8, FailedStep
<1>9. CASE Completed(FALSE)
  BY <1>3, <1>5, <1>7, <1>9, CompletedStep
<1>10. QED
  BY <1>6, <1>8, <1>9

LEMMA MemoryReadStep == IInv /\ MemoryRead => IInv'
<1> SUFFICES ASSUME IInv, MemoryRead PROVE IInv'
  OBVIOUS
<1> DEFINE q == Req("MEMORY_READ", None)
<1>1. op.at = "MEMORY_READ"
  BY DEF MemoryRead, Ask
<1>2. /\ Running(op, device) /\ OpInv(op) /\ DeviceInv(device) /\ Quiet(op, device)
      /\ op.name \notin FlashOperations \cup {"load_ram_image"} /\ op.name \notin DOMAIN Appends
      /\ \A d : Achieved(op, d)
  BY <1>1, PlainStage
<1>3. LineType'
  <2>1. discovered' = discovered /\ (lost' = lost \/ (lost < MaxLost /\ lost' = lost + 1))
    BY DEF MemoryRead, Exchange, Answered, Unanswered
  <2>2. QED
    BY <2>1, LineKept
<1>4. (Failed \/ Completed(FALSE) \/ Sent(op.sent + 1)) /\ AfterAny(q)
  BY Zenon DEF MemoryRead, Exchange, Answered, Unanswered, AfterAny
<1>5. device' = device
  <2>1. q.command \in Reads /\ q.type = "none"
    BY DEF Req, Reads
  <2> HIDE DEF q
  <2>2. QED
    BY <1>4, <2>1, ReadEffect DEF AfterAny
<1>6. CASE Failed
  BY <1>2, <1>3, <1>5, <1>6, FailedStep
<1>7. CASE Completed(FALSE)
  BY <1>2, <1>3, <1>5, <1>7, CompletedStep
<1>8. CASE Sent(op.sent + 1)
  <2>1. op.sent + 1 \in Nat
    BY <1>2 DEF OpInv, OpType
  <2>2. /\ op' \in OpType /\ op'.at = op.at
        /\ op'.name = op.name /\ op'.image = op.image /\ op'.before = op.before
        /\ cancel' = cancel
    BY <1>2, <1>8, <2>1, NextPacket
  <2>3. OpInv(op')
    BY <1>1, <1>2, <2>2 DEF OpInv, ServiceStages, AttachStages, Transfers
  <2>4. SessionInv(op', device')
    BY <1>1, <1>2, <1>5, <2>2 DEF SessionInv, Quiet, Sending, Transfers
  <2>5. FlashInv(op', device') /\ ServiceInv(op', device') /\ JournalInv(op', device')
    BY <1>1, <1>2, <1>5, <2>2 DEF FlashInv, ServiceInv, JournalInv, ServiceStages, FlashOperations
  <2>6. RestType'
    BY <1>3, <2>2 DEF IInv, RestType
  <2>7. QED
    BY <1>2, <1>5, <2>3, <2>4, <2>5, <2>6, GoesOn DEF Running
<1>9. QED
  BY <1>4, <1>6, <1>7, <1>8

LEMMA MemoryReadCancelledStep == IInv /\ MemoryReadCancelled => IInv'
<1> SUFFICES ASSUME IInv, MemoryReadCancelled PROVE IInv'
  OBVIOUS
<1>1. /\ op.at = "MEMORY_READ" /\ CancelledResult(FALSE, FALSE)
      /\ device' = device /\ discovered' = discovered /\ lost' = lost
  BY DEF MemoryReadCancelled, SeenAt
<1>2. OpInv(op) /\ DeviceInv(device) /\ Quiet(op, device)
  BY <1>1, PlainStage
<1>3. QED
  BY <1>1, <1>2, LineKept, QuietCancelledStep

\* A target that was discovered is one whose device's profile is known.
LEMMA DiscoverStep == IInv /\ Discover => IInv'
<1> SUFFICES ASSUME IInv, Discover PROVE IInv'
  OBVIOUS
<1>1. op.at \in {"GET_DEVICE_INFO", "GET_PROTOCOL_INFO"}
  BY DEF Discover
<1>2. /\ Running(op, device) /\ OpInv(op) /\ DeviceInv(device) /\ Quiet(op, device)
      /\ op.name \notin FlashOperations \cup {"load_ram_image"} /\ op.name \notin DOMAIN Appends
      /\ \A d : Achieved(op, d)
  BY <1>1, PlainStage
<1>3. CASE op.at = "GET_DEVICE_INFO"
  <2> DEFINE q == Req("GET_DEVICE_INFO", None)
  <2>1. LineType'
    <3>1. discovered' = discovered /\ (lost' = lost \/ (lost < MaxLost /\ lost' = lost + 1))
      BY <1>3 DEF Discover, Exchange, Answered, Unanswered
    <3>2. QED
      BY <3>1, LineKept
  <2>2. op.at # "GET_PROTOCOL_INFO"
    BY <1>3
  <2>3. (Failed \/ GoTo("GET_PROTOCOL_INFO")) /\ AfterAny(q)
    BY <2>2, Zenon DEF Discover, Exchange, Answered, Unanswered, AfterAny
  <2>4. device' = device
    <3>1. q.command \in Reads /\ q.type = "none"
      BY DEF Req, Reads
    <3> HIDE DEF q
    <3>2. QED
      BY <2>3, <3>1, ReadEffect DEF AfterAny
  <2>5. CASE Failed
    BY <1>2, <2>1, <2>4, <2>5, FailedStep
  <2>6. CASE GoTo("GET_PROTOCOL_INFO")
    BY <1>2, <2>1, <2>4, <2>6, StageEntered DEF Stages, ServiceStages, AttachStages, OtherStages
  <2>7. QED
    BY <2>3, <2>5, <2>6
<1>4. CASE op.at = "GET_PROTOCOL_INFO"
  <2> DEFINE q == Req("GET_PROTOCOL_INFO", None)
  <2>1. op.at # "GET_DEVICE_INFO"
    BY <1>4
  <2>2. \/ /\ Finish(Result("succeeded", TRUE, FALSE, FALSE, FALSE))
           /\ discovered' = TRUE /\ device' = device /\ lost' = lost
        \/ Unanswered(q, Failed)
    BY <2>1 DEF Discover
  <2>3. CASE Unanswered(q, Failed)
    <3>1. Failed /\ AfterAny(q) /\ discovered' = discovered /\ lost < MaxLost /\ lost' = lost + 1
      BY <2>3, Zenon DEF Unanswered, AfterAny
    <3>2. device' = device
      <4>1. q.command \in Reads /\ q.type = "none"
        BY DEF Req, Reads
      <4> HIDE DEF q
      <4>2. QED
        BY <3>1, <4>1, ReadEffect DEF AfterAny
    <3>3. QED
      BY <1>2, <3>1, <3>2, LineKept, FailedStep
  <2>4. CASE /\ Finish(Result("succeeded", TRUE, FALSE, FALSE, FALSE))
             /\ discovered' = TRUE /\ device' = device /\ lost' = lost
    <3>1. EndsAs("succeeded") /\ ~result'.attached /\ ~result'.written
      BY <1>2, <2>4 DEF Finish, Result, EndsAs, OpInv, OpType
    <3>2. op' = NoOp /\ RestType'
      BY <2>4, <3>1 DEF EndsAs, RestType, IInv, LineType
    <3>3. SuccessHolds' /\ AttachedIsTrue' /\ CancellationHolds'
      BY <1>2, <3>1 DEF EndsAs, SuccessHolds, AttachedIsTrue, CancellationHolds, CancelledIsClean,
         RestartIsSafe, Done, FlashOperations
    <3>4. AppendReported'
      BY <1>2, <3>1 DEF EndsAs, AppendReported
    <3>5. QED
      BY <1>2, <2>4, <3>2, <3>3, <3>4 DEF IInv, Reported
  <2>5. QED
    BY <2>2, <2>3, <2>4
<1>5. QED
  BY <1>1, <1>3, <1>4

-----------------------------------------------------------------------------
(* Starting, asking to stop, and the invariant as a whole. *)

LEMMA StartStep ==
  ASSUME IInv, NEW name \in Operations, NEW image \in Images \cup {None}, NEW force \in BOOLEAN,
         Start(name, image, force)
  PROVE  IInv'
<1>1. /\ op' = NewOp(name, image, force) /\ device' = device
      /\ cancel' = cancel /\ discovered' = discovered /\ lost' = lost
      /\ image # None <=> name \in UsesImage
  BY DEF Start
<1>2. DeviceInv(device) /\ RestType'
  BY <1>1 DEF IInv, RestType, LineType
<1>3. PICK stage : stage = (IF name \in FlashOperations THEN "GET_SERVICE_STATUS"
                            ELSE IF name = "load_ram_image" THEN "RAM_LOAD"
                            ELSE IF name = "memory_read" THEN "MEMORY_READ"
                            ELSE IF name = "discover_connected_target" THEN "GET_DEVICE_INFO"
                            ELSE "COMMAND")
  OBVIOUS
<1>4. stage \in Stages
  BY <1>3 DEF Stages, AttachStages, OtherStages
<1>5. /\ op' \in OpType /\ op'.name = name /\ op'.image = image /\ op'.sent = 0 /\ op'.at = stage
      /\ op'.before.flash = device.flash /\ op'.before.journal = device.journal
      /\ op'.before.session = device.session
  <2>1. /\ device.flash \in FlashContents /\ device.journal \in Seq(Records)
        /\ device.session \in SessionTable
    BY <1>2 DEF DeviceInv, DeviceType
  <2>2. QED
    BY <1>1, <1>3, <1>4, <2>1 DEF NewOp, OpType
<1>6. stage \notin ServiceStages /\ stage \notin {"CONFIRM_SERVICE", "METADATA_APPEND_RECORD"}
  BY <1>3 DEF ServiceStages
<1>7. OpInv(op')
  <2>1. stage \in AttachStages => name \in FlashOperations
    BY <1>3 DEF AttachStages
  <2>2. stage = "RAM_LOAD" => name = "load_ram_image"
    BY <1>3
  <2>3. stage \in OtherStages \ {"RAM_LOAD"} => name \notin FlashOperations \cup {"load_ram_image"}
    BY <1>3 DEF OtherStages
  <2>4. stage = "COMMAND" => name \in OneCommand
    BY <1>3 DEF Operations
  <2>5. stage \in Transfers => op'.sent <= Packets(ImageOf(op')) + 1
    <3>1. ImageOf(op') \in SessionImages
      BY <1>5 DEF ImageOf, SessionImages
    <3>2. QED
      BY <1>5, <3>1, PacketsType
  <2>6. QED
    BY <1>1, <1>5, <1>6, <2>1, <2>2, <2>3, <2>4, <2>5 DEF OpInv
<1>8. Quiet(op', device') /\ ServiceInv(op', device')
  BY <1>1, <1>5, <1>6 DEF Quiet, ServiceInv
<1>9. Running(op', device')
  BY <1>5, <1>6, <1>7, <1>8, EnterStage DEF ServiceStages
<1>10. QED
  BY <1>1, <1>2, <1>9, GoesOn

LEMMA RequestCancelStep == IInv /\ RequestCancel => IInv'
<1> SUFFICES ASSUME IInv, RequestCancel PROVE IInv'
  OBVIOUS
<1>1. /\ op # NoOp /\ op' = op /\ device' = device /\ cancel' = TRUE
      /\ discovered' = discovered /\ lost' = lost
  BY DEF RequestCancel
<1>2. QED
  BY <1>1, GoesOn DEF IInv, RestType, LineType

\* What the session opens with: a blank device, nothing run yet.
LEMMA InitIInv == Init => IInv
<1> SUFFICES ASSUME Init PROVE IInv
  OBVIOUS
<1>1. /\ device = NewDevice(TRUE) /\ op = NoOp /\ cancel = FALSE /\ discovered = FALSE /\ lost = 0
      /\ result = NoResult
  BY DEF Init
<1>2. device \in DeviceType
  BY <1>1, NoSessionType DEF NewDevice, DeviceType, FlashContents, SessionTable
<1>3. /\ Len(device.journal) <= RecordCount /\ device.journal = <<>>
      /\ \A k \in Transfers : device.session[k] = NoSession
  BY <1>1, SimulatorAssumption DEF NewDevice
<1>4. HasLatest(device.journal)
  BY <1>3, EmptySummary
<1>5. DeviceInv(device)
  BY <1>2, <1>3, <1>4, NoSessionType DEF DeviceInv, Transfers
<1>6. RestType
  <2>1. cancel \in BOOLEAN /\ discovered \in BOOLEAN
    BY <1>1
  <2>2. lost \in 0 .. MaxLost
    BY <1>1, OperationsAssumption
  <2>3. QED
    BY <2>1, <2>2 DEF RestType, LineType
<1>7. Reported
  BY <1>1 DEF Reported, SuccessHolds, AttachedIsTrue, AppendReported, CancellationHolds,
     CancelledIsClean, RestartIsSafe, Done, Worked, NoResult, NoOp, Appends
<1>8. QED
  BY <1>1, <1>5, <1>6, <1>7 DEF IInv

LEMMA NextIInv == IInv /\ [Next]_vars => IInv'
<1> SUFFICES ASSUME IInv, [Next]_vars PROVE IInv'
  OBVIOUS
<1>1. CASE UNCHANGED vars
  BY <1>1 DEF vars, IInv, RestType, LineType, Reported, SuccessHolds, AttachedIsTrue,
     AppendReported, CancellationHolds, CancelledIsClean, RestartIsSafe, Done, Worked
<1>2. CASE Next
  BY <1>2, StartStep, RequestCancelStep, GetServiceStatusStep, RamCheckCrcStep, ServiceAttachStep,
     ConfirmServiceStep, ServiceCancelledStep, TransferBeginStep, TransferDataStep,
     TransferEndStep, TransferCancelledStep, TransferCleanupStep, EraseMetadataStep,
     EraseRestStep, EraseCancelledStep, EraseSectorMaskStep, ReadMetadataSummaryStep,
     AppendRecordStep, AppendCancelledStep, OneCommandStep, MemoryReadStep,
     MemoryReadCancelledStep, DiscoverStep DEF Next
<1>3. QED
  BY <1>1, <1>2

-----------------------------------------------------------------------------
(* What a step may do to Flash and to the journal. *)

\* Flash and journal as they were, a packet programmed, sectors erased, or a record
\* written: nothing else, and each only at its own stage.
StoreStep ==
  \/ SameStore(device, device')
  \/ op.at = "PROGRAM" /\ device'.journal = device.journal
  \/ op.at \in {"ERASE_REST", "ERASE"} /\ device'.journal \in {<<>>, device.journal}
  \/ op.at = "ERASE_METADATA" /\ device'.flash = device.flash
       /\ device'.journal \in {<<>>, device.journal}
  \/ op.at = "METADATA_APPEND_RECORD" /\ device'.flash = device.flash
       /\ LifecycleStep(Summary(device), Summary(device'))

\* A command that only reads, runs, checks or attaches leaves both as they were.
LEMMA PlainRequest ==
  ASSUME DeviceInv(device), NEW q, q.type = "none", AfterAny(q),
         q.command \in Reads \cup {"RUN", "RUN_RAM", "RAM_CHECK_CRC", "SERVICE_ATTACH"}
  PROVE  SameStore(device, device')
<1>1. CASE q.command \in Reads \cup {"RUN", "RUN_RAM"}
  BY <1>1, ReadEffect DEF AfterAny, SameStore
<1>2. CASE q.command = "RAM_CHECK_CRC"
  BY <1>2, CrcEffect DEF AfterAny, SameStore
<1>3. CASE q.command = "SERVICE_ATTACH"
  BY <1>3, AttachEffect DEF AfterAny, SameStore
<1>4. QED
  BY <1>1, <1>2, <1>3

LEMMA PlainStore ==
  ASSUME IInv,
         \/ GetServiceStatus \/ RamCheckCrcStage \/ ServiceAttachStage \/ ConfirmService
         \/ ReadMetadataSummary \/ OneCommandStage \/ MemoryRead \/ Discover
  PROVE  SameStore(device, device')
<1>1. ASSUME NEW command \in {"GET_SERVICE_STATUS", "RAM_CHECK_CRC", "SERVICE_ATTACH",
                              "GET_METADATA_SUMMARY", "MEMORY_READ", "GET_DEVICE_INFO",
                              "GET_PROTOCOL_INFO", "RUN", "RUN_RAM", "RESET", "PING"},
             NEW image, AfterAny(Req(command, image))
      PROVE  SameStore(device, device')
  <2>1. PICK q : q = Req(command, image)
    OBVIOUS
  <2>2. /\ q.type = "none" /\ AfterAny(q)
        /\ q.command \in Reads \cup {"RUN", "RUN_RAM", "RAM_CHECK_CRC", "SERVICE_ATTACH"}
    BY <1>1, <2>1 DEF Req, Reads
  <2>3. QED
    BY <2>2, PlainRequest DEF IInv
<1>2. CASE GetServiceStatus \/ ConfirmService
  <2>1. AfterAny(Req("GET_SERVICE_STATUS", None))
    BY <1>2, Zenon DEF GetServiceStatus, ConfirmService, Exchange, Answered, Unanswered, AfterAny
  <2>2. QED
    BY <1>1, <2>1
<1>3. CASE RamCheckCrcStage
  <2>1. AfterAny(Req("RAM_CHECK_CRC", Service))
    BY <1>3, Zenon DEF RamCheckCrcStage, Exchange, Answered, Unanswered, AfterAny
  <2>2. QED
    BY <1>1, <2>1
<1>4. CASE ServiceAttachStage
  <2>1. AfterAny(Req("SERVICE_ATTACH", Service))
    BY <1>4, Zenon DEF ServiceAttachStage, Exchange, Answered, Unanswered, AfterAny
  <2>2. QED
    BY <1>1, <2>1
<1>5. CASE ReadMetadataSummary
  <2>1. AfterAny(Req("GET_METADATA_SUMMARY", None))
    BY <1>5, Zenon DEF ReadMetadataSummary, Exchange, Answered, Unanswered, AfterAny
  <2>2. QED
    BY <1>1, <2>1
<1>6. CASE OneCommandStage
  <2>1. AfterAny(CommandReq)
    BY <1>6, Zenon DEF OneCommandStage, Exchange, Answered, Unanswered, AfterAny
  <2>2. op.name \in OneCommand
    BY <1>6, PlainStage DEF OneCommandStage, OpInv
  <2>3. \E command \in {"RAM_CHECK_CRC", "RUN", "RUN_RAM", "RESET", "PING"} :
          \E image : CommandReq = Req(command, image)
    <3>1. CommandReq \in {Req("RAM_CHECK_CRC", RamApp), Req("RUN", op.image), Req("RUN_RAM", None),
                          Req("RESET", None), Req("PING", None)}
      BY <2>2 DEF CommandReq, OneCommand
    <3>2. QED
      BY <3>1, Zenon
  <2>4. QED
    BY <1>1, <2>1, <2>3
<1>7. CASE MemoryRead
  <2>1. AfterAny(Req("MEMORY_READ", None))
    BY <1>7, Zenon DEF MemoryRead, Exchange, Answered, Unanswered, AfterAny
  <2>2. QED
    BY <1>1, <2>1
<1>8. CASE Discover
  <2>1. \/ AfterAny(Req("GET_DEVICE_INFO", None))
        \/ AfterAny(Req("GET_PROTOCOL_INFO", None))
    BY <1>8, Zenon DEF Discover, Exchange, Answered, Unanswered, AfterAny
  <2>2. QED
    BY <1>1, <2>1
<1>9. QED
  BY <1>2, <1>3, <1>4, <1>5, <1>6, <1>7, <1>8

\* Of a transfer, only the data of PROGRAM changes Flash.
LEMMA TransferStore ==
  ASSUME IInv, TransferBegin \/ TransferData \/ TransferEnd \/ TransferCleanup
  PROVE  StoreStep
<1>1. /\ Transferring /\ op.sent \in Nat /\ Packets(ImageOf(op)) \in Nat
  <2>1. Transferring
    BY DEF TransferBegin, TransferData, TransferEnd, TransferCleanup
  <2>2. QED
    BY <2>1, InTransfer
<1>2. /\ Running(op, device) /\ OpInv(op) /\ DeviceInv(device) /\ op.at \in Transfers
      /\ ImageOf(op) \in SessionImages
      /\ op.at = "RAM_LOAD" => ImageOf(op) \in {Service, RamApp}
      /\ op.at # "RAM_LOAD" => ImageOf(op) \in Images
  BY <1>1, InTransfer
<1>3. CASE TransferBegin
  <2>1. PICK q : q = TransferReq("BEGIN")
    OBVIOUS
  <2>2. q.command = "BEGIN" /\ q.type = op.at /\ q.image = ImageOf(op)
    BY <2>1, TransferRequest
  <2>3. AfterAny(q)
    BY <1>3, <2>1, Zenon DEF TransferBegin, Exchange, Answered, Unanswered, AfterAny
  <2>4. SameStore(device, device')
    BY <1>2, <2>2, <2>3, BeginEffect DEF AfterAny, SameStore
  <2>5. QED
    BY <2>4 DEF StoreStep
<1>4. CASE TransferData
  <2>1. PICK q : q = TransferReq("DATA")
    OBVIOUS
  <2>2. AfterAny(q)
    BY <1>4, <2>1, Zenon DEF TransferData, Exchange, Answered, Unanswered, AfterAny
  <2>3. op.sent \in 1 .. Packets(ImageOf(op))
    BY <1>4, SameNotions DEF TransferData
  <2>4. device'.journal = device.journal /\ (op.at # "PROGRAM" => device'.flash = device.flash)
    BY <1>1, <2>1, <2>2, <2>3, DataOfTransfer
  <2>5. QED
    BY <2>4 DEF StoreStep, SameStore
<1>5. CASE TransferEnd \/ TransferCleanup
  <2>1. PICK q : q = TransferReq("END")
    OBVIOUS
  <2>2. AfterAny(q)
    BY <1>5, <2>1, Zenon
       DEF TransferEnd, TransferCleanup, Exchange, Answered, Unanswered, AfterAny
  <2>3. op.sent > 0
    <3>1. Total = Packets(ImageOf(op))
      BY SameNotions
    <3>2. op.sent = Packets(ImageOf(op)) + 1 \/ op.sent \in 1 .. Packets(ImageOf(op))
      BY <1>5, <3>1 DEF TransferEnd, TransferCleanup
    <3>3. QED
      BY <1>1, <3>2
  <2>4. SameStore(device, device')
    BY <1>1, <2>1, <2>2, <2>3, EndOfTransfer
  <2>5. QED
    BY <2>4 DEF StoreStep
<1>6. QED
  BY <1>3, <1>4, <1>5

LEMMA EraseStore ==
  ASSUME IInv, EraseMetadata \/ EraseRest \/ \E sectors \in SUBSET Sectors : EraseSectorMask(sectors)
  PROVE  StoreStep
<1>1. DeviceInv(device)
  BY DEF IInv
<1>2. CASE EraseMetadata
  <2>1. PICK q : q = EraseReq({"metadata"})
    OBVIOUS
  <2>2. q.command = "ERASE" /\ "app" \notin q.sectors
    BY <2>1, EraseRequest
  <2>3. AfterAny(q)
    BY <1>2, <2>1, Zenon DEF EraseMetadata, Exchange, Answered, Unanswered, AfterAny
  <2>4. QED
    BY <1>1, <1>2, <2>2, <2>3, Erased DEF StoreStep, EraseMetadata, Ask
<1>3. CASE EraseRest
  <2>1. PICK q : q = EraseReq({"app"})
    OBVIOUS
  <2>2. q.command = "ERASE"
    BY <2>1, EraseRequest
  <2>3. AfterAny(q)
    BY <1>3, <2>1, Zenon DEF EraseRest, Exchange, Answered, Unanswered, AfterAny
  <2>4. QED
    BY <1>1, <1>3, <2>2, <2>3, Erased DEF StoreStep, EraseRest
<1>4. CASE \E sectors \in SUBSET Sectors : EraseSectorMask(sectors)
  <2>1. PICK sectors : EraseSectorMask(sectors)
    BY <1>4
  <2>2. PICK q : q = EraseReq(sectors)
    OBVIOUS
  <2>3. q.command = "ERASE"
    BY <2>2, EraseRequest
  <2>4. AfterAny(q)
    BY <2>1, <2>2, Zenon DEF EraseSectorMask, Exchange, Answered, Unanswered, AfterAny
  <2>5. QED
    BY <1>1, <2>1, <2>3, <2>4, Erased DEF StoreStep, EraseSectorMask, Ask
<1>5. QED
  BY <1>2, <1>3, <1>4

LEMMA AppendStore ==
  ASSUME IInv, AppendRecord
  PROVE  StoreStep
<1>1. op.at = "METADATA_APPEND_RECORD" /\ DeviceInv(device)
  BY DEF AppendRecord, Ask, IInv
<1>2. PICK q : q = AppendReq
  OBVIOUS
<1>3. q.command = "METADATA_APPEND_RECORD" /\ q.type \in RecordTypes /\ q.image \in Images
  BY <1>1, <1>2, AppendRequest
<1>4. AfterAny(q)
  BY <1>2, Zenon DEF AppendRecord, Exchange, Answered, Unanswered, AfterAny
<1>5. ASSUME NEW fault, NEW r, r = Respond(device, q, fault)
      PROVE  r.device.flash = device.flash /\ LifecycleStep(Summary(device), Summary(r.device))
  BY <1>1, <1>3, <1>5, AppendEffect
<1>6. CASE device' = device
  BY <1>6 DEF StoreStep, SameStore
<1>7. CASE \E fault : device' = Respond(device, q, fault).device
  BY <1>1, <1>5, <1>7 DEF StoreStep
<1>8. QED
  BY <1>4, <1>6, <1>7 DEF AfterAny

LEMMA NextStore == IInv /\ [Next]_vars => StoreStep
<1> SUFFICES ASSUME IInv, [Next]_vars PROVE StoreStep
  OBVIOUS
<1>1. CASE device' = device
  BY <1>1 DEF StoreStep, SameStore
<1>2. CASE \/ GetServiceStatus \/ RamCheckCrcStage \/ ServiceAttachStage \/ ConfirmService
           \/ ReadMetadataSummary \/ OneCommandStage \/ MemoryRead \/ Discover
  BY <1>2, PlainStore DEF StoreStep
<1>3. CASE \/ RequestCancel \/ ServiceCancelled \/ TransferCancelled \/ EraseCancelled
           \/ AppendCancelled \/ MemoryReadCancelled \/ UNCHANGED vars
           \/ \E name, image, force : Start(name, image, force)
  <2>1. device' = device
    BY <1>3 DEF RequestCancel, ServiceCancelled, TransferCancelled, EraseCancelled,
       AppendCancelled, MemoryReadCancelled, vars, Start, SeenAt
  <2>2. QED
    BY <1>1, <2>1
<1>4. QED
  BY <1>2, <1>3, TransferStore, EraseStore, AppendStore DEF Next

-----------------------------------------------------------------------------
(* The theorems. *)

\* The invariant holds throughout: what every stage knows of the device is true,
\* whatever was cancelled, lost or refused before.
THEOREM OperationsInvariant == Spec => []IInv
BY InitIInv, NextIInv, PTL DEF Spec

\* The device and the operation keep the types of the code's objects.
LEMMA IInvTypeOK == IInv => TypeOK
<1> SUFFICES ASSUME IInv PROVE TypeOK
  OBVIOUS
<1>1. DeviceInv(device) /\ device \in DeviceType
  BY DEF IInv, DeviceInv
<1>2. /\ device.flash \in [Addresses -> Images \cup {None}]
      /\ device.service \in {"DETACHED", "ATTACHED", "ERROR"}
      /\ device.loaded \in {None, Service, RamApp}
      /\ device.crc_ok \in BOOLEAN /\ device.verified \in BOOLEAN
  BY <1>1 DEF DeviceType, FlashContents
<1>3. /\ Len(device.journal) \in 0 .. RecordCount
      /\ \A i \in DOMAIN device.journal :
           device.journal[i] \in [type : RecordTypes, image : Images]
  <2>1. device.journal \in Seq(Records) /\ Len(device.journal) <= RecordCount
    BY <1>1 DEF DeviceInv, DeviceType
  <2>2. Len(device.journal) \in Nat /\ DOMAIN device.journal = 1 .. Len(device.journal)
    BY <2>1
  <2>3. \A i \in DOMAIN device.journal : device.journal[i] \in Records
    BY <2>1
  <2>4. QED
    BY <2>1, <2>2, <2>3, SimulatorAssumption DEF Records
<1>4. \A k \in Transfers : device.session[k].index \in 0 .. 1 + Packets(device.session[k].image)
  <2> SUFFICES ASSUME NEW k \in Transfers
               PROVE  device.session[k].index \in 0 .. 1 + Packets(device.session[k].image)
    OBVIOUS
  <2>1. device.session[k] \in [image : SessionImages, index : Nat]
    BY <1>1 DEF DeviceType, SessionTable
  <2>2. PICK image \in SessionImages : image = device.session[k].image
    BY <2>1
  <2>3. device.session[k].index \in Nat /\ device.session[k].index <= Packets(image)
    BY <1>1, <2>1, <2>2 DEF DeviceInv
  <2>4. QED
    BY <2>2, <2>3, PacketsType
<1>5. op = NoOp \/ op.name \in Operations
  BY RunningIsNotNone DEF IInv, Running
<1>6. cancel \in BOOLEAN /\ lost \in 0 .. MaxLost /\ discovered \in BOOLEAN
  BY DEF IInv, RestType, LineType
<1>7. QED
  BY <1>2, <1>3, <1>4, <1>5, <1>6 DEF TypeOK

\* What an OperationResult says is true of the device: a program or verify that
\* succeeded has the image in Flash, an erase has left nothing trusted, an attached
\* service is attached, and an append has written the one record it reports.
THEOREM ResultsAreTrue == Spec => []ResultHolds
<1>1. IInv => ResultHolds
  BY IInvTypeOK DEF IInv, Reported, ResultHolds
<1>2. QED
  BY <1>1, OperationsInvariant, PTL

\* A cancelled operation has left no transfer open, and the recovery it proposes for
\* Flash is right: "restart" exactly when nothing was programmed.
THEOREM CancellationsAreTrue == Spec => []CancellationHolds
<1>1. IInv => CancellationHolds
  BY DEF IInv, Reported
<1>2. QED
  BY <1>1, OperationsInvariant, PTL

\* erase_flash_image_area touches Flash only when the journal trusts no image.
THEOREM EraseGivesUpTrustFirst == Spec => TrustGoesFirst
<1>1. IInv /\ [Next]_vars =>
        [op.name = "erase_flash_image_area" /\ device.flash' # device.flash
           => Summary(device).image = None]_vars
  <2> SUFFICES ASSUME IInv, [Next]_vars,
                      op.name = "erase_flash_image_area", device.flash' # device.flash
               PROVE  Summary(device).image = None
    OBVIOUS
  <2>1. op # NoOp
    BY DEF NoOp
  <2>2. Running(op, device) /\ OpInv(op) /\ DeviceInv(device)
    BY <2>1 DEF IInv, Running
  <2>3. op.at \in {"PROGRAM", "ERASE_REST", "ERASE"}
    BY NextStore DEF StoreStep, SameStore
  <2>4. op.at = "ERASE_REST"
    BY <2>2, <2>3 DEF OpInv, ServiceStages, StageAfterService, Appends, FlashOperations
  <2>5. device.journal = <<>>
    BY <2>2, <2>4 DEF Running, JournalInv
  <2>6. QED
    BY <2>5, EmptySummary
<1>2. QED
  BY <1>1, OperationsInvariant, PTL DEF Spec, TrustGoesFirst

\* The summary starts as TrustLifecycle starts, and every step of the operations is a
\* step of it or none.
LEMMA LifecycleInit == Init => Lifecycle!Init
<1> SUFFICES ASSUME Init PROVE Lifecycle!Init
  OBVIOUS
<1>1. device.journal = <<>>
  BY DEF Init, NewDevice
<1>2. Summary(device).image = None /\ Summary(device).attempts = 0 /\ Summary(device).confirmed = FALSE
  BY <1>1, EmptySummary
<1>3. QED
  BY <1>2 DEF Lifecycle!Init

LEMMA LifecycleNext == IInv /\ [Next]_vars => LifecycleStep(Summary(device), Summary(device'))
<1> SUFFICES ASSUME IInv, [Next]_vars PROVE LifecycleStep(Summary(device), Summary(device'))
  OBVIOUS
<1>1. CASE device'.journal = device.journal
  <2>1. Summary(device') = Summary(device)
    BY <1>1, SummaryOfJournal
  <2>2. QED
    BY <2>1 DEF LifecycleStep
<1>2. CASE device'.journal = <<>>
  BY <1>2, EmptySummary DEF LifecycleStep
<1>3. QED
  BY <1>1, <1>2, NextStore DEF StoreStep, SameStore

\* The simulated device keeps the flash service's promise through every history of
\* operations, faults and lost answers: an image is published, attempted up to the
\* limit, confirmed, and revoked as a whole.
THEOREM SimulatorImplementsLifecycle == Spec => ImplementsLifecycle
<1>1. IInv /\ [Next]_vars => [Lifecycle!Next]_Lifecycle!lifecycle
  <2> SUFFICES ASSUME IInv, [Next]_vars PROVE [Lifecycle!Next]_Lifecycle!lifecycle
    OBVIOUS
  <2>1. PICK s : s = Summary(device)
    OBVIOUS
  <2>2. PICK t : t = Summary(device')
    OBVIOUS
  <2>3. LifecycleStep(s, t)
    BY <2>1, <2>2, LifecycleNext
  <2>4. Summary(device)' = t
    BY <2>2
  <2>5. QED
    BY <2>1, <2>3, <2>4 DEF LifecycleStep, Lifecycle!Next, Lifecycle!lifecycle, Lifecycle!Revoke,
       Lifecycle!Publish, Lifecycle!Attempt, Lifecycle!Confirm
<1>2. QED
  BY <1>1, LifecycleInit, OperationsInvariant, PTL DEF Spec, ImplementsLifecycle, Lifecycle!Spec

=============================================================================
