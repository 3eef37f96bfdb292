--------------------------- MODULE FlashService ----------------------------
(***************************************************************************)
(* The RAM-resident flash service (flash_service_lib) over the F28377D     *)
(* Flash port: ERASE, the PROGRAM and VERIFY transfers, the controlled     *)
(* metadata appends, the application's own confirmation, and the two ways  *)
(* it is interrupted, a Flash operation that fails part-way and a power    *)
(* loss.  One action is one command: the service is single threaded and    *)
(* answers a command before it reads the next.                             *)
(*                                                                         *)
(* Data.  Application Flash is a row of 8-word programming units; the      *)
(* words an image has at a unit are represented by the image itself.       *)
(* Sector 1 (sector B) holds the journal and the first units of the        *)
(* application; sector 0 (sector A) is the bootloader and outside the      *)
(* allowed erase mask.                                                     *)
(***************************************************************************)
EXTENDS MetadataRecords

CONSTANTS
  UnitCount,     \* programming units of the application area
  SectorOf,      \* the sector of each unit
  SectorCount,   \* erasable sectors are 1 .. SectorCount
  MaxPackets,    \* bound: packets a transfer may announce
  MaxDataUnits,  \* g_service.max_data_words, in units (more is malformed)
  BadImage,      \* an identity MetadataRequestValid refuses
  Blank,         \* content of an erased unit
  Damaged,       \* content of a unit that matches no image
  Faults         \* Flash API calls that may fail in this instance

Units == 0 .. UnitCount - 1
Sectors == 1 .. SectorCount
MetadataSector == 1
Cells == Images \cup {Blank, Damaged}

ASSUME GeometryAssumption ==
  /\ UnitCount \in Nat \ {0}
  /\ SectorCount \in Nat \ {0}
  /\ MaxPackets \in Nat \ {0}
  /\ MaxDataUnits \in Nat \ {0}
  /\ SectorOf \in [Units -> Sectors]
ASSUME ContentAssumption ==
  /\ Blank \notin Images
  /\ Damaged \notin Images
  /\ Blank # Damaged
  /\ BadImage \notin Images
ASSUME FaultsAssumption == Faults \subseteq {"init", "erase", "program", "journal"}

VARIABLES
  slots,             \* Flash: the journal
  app,               \* Flash: the application units
  initialized,       \* g_service.initialized
  flash_initialized, \* g_service.flash_initialized
  verify_succeeded,  \* g_service.verify_succeeded
  session,           \* g_service.session
  response,          \* the last command answered, with its status
  verified           \* history: what the VERIFY behind verify_succeeded compared

flash == <<slots, app>>
vars == <<slots, app, initialized, flash_initialized, verify_succeeded,
          session, response, verified>>

\* History: the contents a VERIFY compared with success, and whether an ERASE
\* or a PROGRAM_DATA was answered with a failure since it began.
NothingCompared == [units |-> [u \in Units |-> NoImage], writeFailed |-> FALSE]

\* compared is the history of the session; the other fields are the code's.
NoSession ==
  [operation |-> "NONE", expected_packets |-> 0, packets |-> 0,
   expected_units |-> 0, units |-> 0, compared |-> NothingCompared]

NoResponse == [command |-> "NONE", status |-> "OK", image |-> NoImage]

Reply(command, status) ==
  response' = [command |-> command, status |-> status, image |-> NoImage]

Init ==
  /\ slots = [i \in Indexes |-> Erased]
  /\ app = [u \in Units |-> Blank]
  /\ initialized = FALSE
  /\ flash_initialized = FALSE
  /\ verify_succeeded = FALSE
  /\ session = NoSession
  /\ response = NoResponse
  /\ verified = NothingCompared

-----------------------------------------------------------------------------
(***************************************************************************)
(* The Flash port.  What the cells hold after an erase or a program, both  *)
(* when it runs to its end and when it stops part-way.                     *)
(***************************************************************************)
EraseSlots(sectors) ==
  IF MetadataSector \in sectors THEN [i \in Indexes |-> Erased] ELSE slots

EraseApp(sectors) ==
  [u \in Units |-> IF SectorOf[u] \in sectors THEN Blank ELSE app[u]]

\* BootFlash_EraseBySectorMask takes the sectors in ascending order.  When it
\* stops at one, the earlier ones are erased and that one is untouched,
\* erased, or unreadable throughout.
StoppedErase(mask, s, left) ==
  LET done == {t \in mask : t < s} IN
  /\ slots' = CASE left = "kept" -> EraseSlots(done)
                [] left = "erased" -> EraseSlots(done \cup {s})
                [] left = "scrambled" ->
                     IF s = MetadataSector THEN [i \in Indexes |-> Invalid]
                     ELSE EraseSlots(done)
  /\ app' = [u \in Units |->
       CASE SectorOf[u] \in done -> Blank
         [] SectorOf[u] = s /\ left = "erased" -> Blank
         [] SectorOf[u] = s /\ left = "scrambled" -> Damaged
         [] OTHER -> app[u]]

\* Programming can only clear bits: a unit takes new data when it is blank or
\* holds that data already, and is spoilt (data and ECC) otherwise.
Programmed(cell, data) == IF cell \in {Blank, data} THEN data ELSE Damaged

ProgramUnits(packet, count) ==
  [u \in Units |->
     IF u \in packet.address .. packet.address + count - 1
     THEN Programmed(app[u], packet.data) ELSE app[u]]

StoppedProgram(packet, count, left) ==
  LET u == packet.address + count IN
  app' = [ProgramUnits(packet, count) EXCEPT
            ![u] = CASE left = "kept" -> app[u]
                     [] left = "written" -> Programmed(app[u], packet.data)
                     [] left = "scrambled" -> Damaged]

\* BootFlash_CheckAddress: the packet stays inside one application sector.
InOneSector(packet) ==
  LET last == packet.address + packet.count - 1 IN
  /\ packet.address \in Units /\ last \in Units
  /\ SectorOf[packet.address] = SectorOf[last]

\* BootFlashService_EnsureFlash: initialise the Flash API once.
EnsureFlash == flash_initialized' = TRUE

InitFails(command, status) ==
  /\ ~flash_initialized
  /\ "init" \in Faults
  /\ Reply(command, status)
  /\ UNCHANGED <<flash, initialized, flash_initialized, verify_succeeded,
                 session, verified>>

\* History of a failed write, for the flag and for a session left running.
NoteFailure(comparison, relevant) ==
  [comparison EXCEPT !.writeFailed = @ \/ relevant]

Refuse(command, status) ==
  /\ Reply(command, status)
  /\ UNCHANGED <<flash, initialized, flash_initialized, verify_succeeded,
                 session, verified>>

-----------------------------------------------------------------------------
\* BootHandleCommand refuses everything until boot_init accepted the target.
Uninitialised ==
  /\ ~initialized
  /\ Refuse("NONE", "INVALID_STATE")

\* A payload of the wrong length, slot or flags is refused before any state
\* is read (the transfer handlers look at their session first, see below).
Malformed(command) ==
  /\ initialized
  /\ Refuse(command, "BAD_REQUEST")

(***************************************************************************)
(* ERASE                                                                   *)
(***************************************************************************)
EraseRefused(mask) ==
  /\ initialized
  /\ mask = {}
  /\ Refuse("ERASE", "BAD_ADDRESS")

EraseInitFails(mask) ==
  /\ initialized
  /\ mask # {}
  /\ InitFails("ERASE", "ERASE_FAILED")

\* A mask with a sector outside the allowed ones fails before any erase.
EraseForbidden(mask) ==
  /\ initialized
  /\ mask # {} /\ ~(mask \subseteq Sectors)
  /\ EnsureFlash
  /\ Reply("ERASE", "BAD_ADDRESS")
  /\ UNCHANGED <<flash, initialized, verify_succeeded, session, verified>>

EraseFails(mask) ==
  /\ initialized
  /\ "erase" \in Faults
  /\ mask # {} /\ mask \subseteq Sectors
  /\ EnsureFlash
  /\ \E s \in mask, left \in {"kept", "erased", "scrambled"} :
       StoppedErase(mask, s, left)
  /\ Reply("ERASE", "ERASE_FAILED")
  /\ session' = [session EXCEPT
       !.compared = NoteFailure(@, session.operation = "VERIFY")]
  /\ verified' = NoteFailure(verified, verify_succeeded)
  /\ UNCHANGED <<initialized, verify_succeeded>>

\* Mutant: the erase forgets the verify flag.
MutantEraseKeepsVerify(mask) ==
  /\ initialized
  /\ mask # {} /\ mask \subseteq Sectors
  /\ EnsureFlash
  /\ slots' = EraseSlots(mask)
  /\ app' = EraseApp(mask)
  /\ session' = NoSession
  /\ Reply("ERASE", "OK")
  /\ UNCHANGED <<initialized, verify_succeeded, verified>>

EraseDone(mask) ==
  /\ initialized
  /\ mask # {} /\ mask \subseteq Sectors
  /\ EnsureFlash
  /\ slots' = EraseSlots(mask)
  /\ app' = EraseApp(mask)
  /\ session' = NoSession
  /\ verify_succeeded' = FALSE
  /\ verified' = NothingCompared
  /\ Reply("ERASE", "OK")
  /\ UNCHANGED initialized

HandleErase(mask) ==
  \/ Malformed("ERASE")
  \/ EraseRefused(mask)
  \/ EraseInitFails(mask)
  \/ EraseForbidden(mask)
  \/ EraseFails(mask)
  \/ EraseDone(mask)

-----------------------------------------------------------------------------
(***************************************************************************)
(* PROGRAM and VERIFY: BEGIN, DATA*, END.  The block index the next packet *)
(* must carry always equals the number of packets processed.               *)
(***************************************************************************)
Operations == {"PROGRAM", "VERIFY"}
Failed(op) == IF op = "PROGRAM" THEN "PROGRAM_FAILED" ELSE "VERIFY_FAILED"

BeginBusy(op) ==
  /\ initialized
  /\ session.operation # "NONE"
  /\ Refuse("BEGIN", "BUSY")

\* Wrong payload length, target, or a zero packet or word count.
BeginMalformed(op) ==
  /\ initialized
  /\ session.operation = "NONE"
  /\ Refuse("BEGIN", "BAD_REQUEST")

BeginInitFails(op) ==
  /\ initialized
  /\ session.operation = "NONE"
  /\ InitFails("BEGIN", Failed(op))

BeginDone(op, packets, units) ==
  /\ initialized
  /\ session.operation = "NONE"
  /\ EnsureFlash
  /\ session' = [operation |-> op, expected_packets |-> packets, packets |-> 0,
                 expected_units |-> units, units |-> 0,
                 compared |-> NothingCompared]
  /\ Reply("BEGIN", "OK")
  /\ UNCHANGED <<flash, initialized, verify_succeeded, verified>>

HandleBegin(op) ==
  \/ BeginBusy(op)
  \/ BeginMalformed(op)
  \/ BeginInitFails(op)
  \/ \E packets \in 1 .. MaxPackets, units \in 1 .. UnitCount :
       BeginDone(op, packets, units)

\* The DATA packets a host may send; of a malformed one nothing else matters.
MalformedPacket ==
  [index |-> 0, address |-> 0, count |-> 1, data |-> Blank, wellFormed |-> FALSE]
Packets ==
  [index : 0 .. MaxPackets, address : 0 .. UnitCount, count : 1 .. MaxDataUnits,
   data : Images, wellFormed : {TRUE}]

\* A DATA command of the wrong kind leaves the session alone ...
DataOutOfPlace(op) ==
  /\ initialized
  /\ session.operation # op
  /\ Refuse("DATA", IF session.operation = "NONE" THEN "MISSING_BEGIN"
                    ELSE "INVALID_STATE")

\* Mutant: a packet is not checked against the totals that BEGIN announced.
MutantDataUnbounded(packet) ==
  IF ~packet.wellFormed THEN "BAD_REQUEST"
  ELSE IF packet.index # session.packets THEN "BLOCK_INDEX_ERROR"
  ELSE IF ~InOneSector(packet) THEN "ADDRESS_OUT_OF_RANGE"
  ELSE "OK"

\* ... every other refusal ends it.
DataStatus(packet) ==
  IF ~packet.wellFormed THEN "BAD_REQUEST"
  ELSE IF packet.index # session.packets THEN "BLOCK_INDEX_ERROR"
  ELSE IF \/ session.packets >= session.expected_packets
          \/ packet.count > session.expected_units - session.units
       THEN "TOTAL_COUNT_MISMATCH"
  ELSE IF ~InOneSector(packet) THEN "ADDRESS_OUT_OF_RANGE"
  ELSE "OK"

DataRefused(op, packet) ==
  /\ initialized
  /\ session.operation = op
  /\ DataStatus(packet) # "OK"
  /\ session' = NoSession
  /\ Reply("DATA", DataStatus(packet))
  /\ UNCHANGED <<flash, initialized, flash_initialized, verify_succeeded,
                 verified>>

PacketUnits(packet) == packet.address .. packet.address + packet.count - 1

\* The counters advance; comparison is the session's history after the packet.
Accepted(packet, comparison) ==
  session' = [session EXCEPT !.packets = @ + 1, !.units = @ + packet.count,
                             !.compared.units = comparison]

ProgramDataDone(packet) ==
  /\ initialized
  /\ session.operation = "PROGRAM"
  /\ DataStatus(packet) = "OK"
  /\ app' = ProgramUnits(packet, packet.count)
  /\ Accepted(packet, session.compared.units)
  /\ verify_succeeded' = FALSE
  /\ verified' = NothingCompared
  /\ Reply("DATA", "OK")
  /\ UNCHANGED <<slots, initialized, flash_initialized>>

ProgramDataFails(packet) ==
  /\ initialized
  /\ "program" \in Faults
  /\ session.operation = "PROGRAM"
  /\ DataStatus(packet) = "OK"
  /\ \E count \in 0 .. packet.count - 1, left \in {"kept", "written", "scrambled"} :
       StoppedProgram(packet, count, left)
  /\ session' = NoSession
  /\ Reply("DATA", "PROGRAM_FAILED")
  /\ verified' = NoteFailure(verified, verify_succeeded)
  /\ UNCHANGED <<slots, initialized, flash_initialized, verify_succeeded>>

Matches(packet) == \A u \in PacketUnits(packet) : app[u] = packet.data

VerifyDataDone(packet) ==
  /\ initialized
  /\ session.operation = "VERIFY"
  /\ DataStatus(packet) = "OK"
  /\ Matches(packet)
  /\ Accepted(packet, [u \in Units |-> IF u \in PacketUnits(packet)
                                     THEN packet.data
                                     ELSE session.compared.units[u]])
  /\ Reply("DATA", "OK")
  /\ UNCHANGED <<flash, initialized, flash_initialized, verify_succeeded,
                 verified>>

VerifyDataMismatch(packet) ==
  /\ initialized
  /\ session.operation = "VERIFY"
  /\ DataStatus(packet) = "OK"
  /\ ~Matches(packet)
  /\ session' = NoSession
  /\ Reply("DATA", "VERIFY_FAILED")
  /\ UNCHANGED <<flash, initialized, flash_initialized, verify_succeeded,
                 verified>>

HandleData(op) ==
  \/ DataOutOfPlace(op)
  \/ DataRefused(op, MalformedPacket)
  \/ \E packet \in Packets :
       \/ DataRefused(op, packet)
       \/ op = "PROGRAM" /\ (ProgramDataDone(packet) \/ ProgramDataFails(packet))
       \/ op = "VERIFY" /\ (VerifyDataDone(packet) \/ VerifyDataMismatch(packet))

EndOutOfPlace(op) ==
  /\ initialized
  /\ session.operation # op
  /\ Refuse("END", IF session.operation = "NONE" THEN "MISSING_BEGIN"
                   ELSE "UNEXPECTED_END")

\* The session ends whether or not the totals agree.
TotalsAgree(packets, units) ==
  /\ packets = session.expected_packets
  /\ packets = session.packets
  /\ units = session.expected_units
  /\ units = session.units

EndMalformed(op) ==
  /\ initialized
  /\ session.operation = op
  /\ session' = NoSession
  /\ Reply("END", "BAD_REQUEST")
  /\ UNCHANGED <<flash, initialized, flash_initialized, verify_succeeded,
                 verified>>

EndMismatch(op, packets, units) ==
  /\ initialized
  /\ session.operation = op
  /\ ~TotalsAgree(packets, units)
  /\ session' = NoSession
  /\ Reply("END", "TOTAL_COUNT_MISMATCH")
  /\ UNCHANGED <<flash, initialized, flash_initialized, verify_succeeded,
                 verified>>

EndDone(op, packets, units) ==
  /\ initialized
  /\ session.operation = op
  /\ TotalsAgree(packets, units)
  /\ session' = NoSession
  /\ verify_succeeded' = (verify_succeeded \/ op = "VERIFY")
  /\ verified' = IF op = "VERIFY" THEN session.compared ELSE verified
  /\ Reply("END", "OK")
  /\ UNCHANGED <<flash, initialized, flash_initialized>>

HandleEnd(op) ==
  \/ EndOutOfPlace(op)
  \/ EndMalformed(op)
  \/ \E packets \in 1 .. MaxPackets, units \in 1 .. UnitCount :
       EndMismatch(op, packets, units) \/ EndDone(op, packets, units)

-----------------------------------------------------------------------------
(***************************************************************************)
(* METADATA_APPEND_RECORD.  Every append scans the journal, writes at most *)
(* one record into the first erased slot, and scans again before it        *)
(* answers OK.                                                             *)
(***************************************************************************)
WriteSlot(slot) == slots' = Appended(slots, slot)

\* Words 62 and 63 carry the CRC and are programmed last, so a record that is
\* not complete is INVALID.  A failing API call may still have completed it.
StoppedAppend(record) ==
  \E slot \in {Erased, Invalid, record} : WriteSlot(slot)

\* The commands that reach the write: what is asked, and the admission the
\* handler derives from its first scan ("OK" when a record is to be written,
\* "DONE" when the answer is OK without a write).
ImageValidStatus(image) ==
  IF image \notin Images THEN "BAD_REQUEST"
  ELSE IF ~verify_succeeded THEN "INVALID_STATE"
  ELSE IF DuplicateSequence(slots) THEN "METADATA_INVALID"
  ELSE IF NextRecordIndex(slots) = InvalidIndex THEN "METADATA_FULL"
  ELSE "OK"

BootAttemptStatus(image) ==
  IF ~MetadataValid(slots) THEN "METADATA_INVALID"
  ELSE IF AppConfirmed(slots) THEN "DONE"
  ELSE IF BootAttemptCount(slots) >= AttemptLimit THEN "ATTEMPT_LIMIT_REACHED"
  ELSE IF image # CurrentImage(slots) THEN "METADATA_INVALID"
  ELSE IF NextRecordIndex(slots) = InvalidIndex THEN "METADATA_FULL"
  ELSE "OK"

\* Mutant: an image that never booted is confirmed.
MutantConfirmUntried(image) ==
  IF ~MetadataValid(slots) \/ image # CurrentImage(slots) THEN "METADATA_INVALID"
  ELSE IF AppConfirmed(slots) THEN "DONE"
  ELSE IF NextRecordIndex(slots) = InvalidIndex THEN "METADATA_FULL"
  ELSE "OK"

\* BootFlashService_ConfirmJournal, for a given identity.
AppConfirmedStatus(image) ==
  IF \/ ~MetadataValid(slots)
     \/ image # CurrentImage(slots)
     \/ BootAttemptCount(slots) = 0
  THEN "METADATA_INVALID"
  ELSE IF AppConfirmed(slots) THEN "DONE"
  ELSE IF NextRecordIndex(slots) = InvalidIndex THEN "METADATA_FULL"
  ELSE "OK"

AppendStatus(type, image) ==
  CASE type = "IMAGE_VALID" -> ImageValidStatus(image)
    [] type = "BOOT_ATTEMPT" -> BootAttemptStatus(image)
    [] type = "APP_CONFIRMED" -> AppConfirmedStatus(image)

\* Mutant: the API result is trusted and the journal not scanned again.
MutantTrustApi(type, image) == type \in RecordTypes /\ image = image

\* The check of the second scan, old journal against new.
WriteConfirmed(type, image) ==
  /\ MetadataValid(slots')
  /\ CASE type = "IMAGE_VALID" ->
            /\ ImageValidSequence(slots') = NextSequence(slots)
            /\ CurrentImage(slots') = image
       [] type = "BOOT_ATTEMPT" ->
            BootAttemptCount(slots') = BootAttemptCount(slots) + 1
       [] type = "APP_CONFIRMED" ->
            /\ ImageValidSequence(slots') = ImageValidSequence(slots)
            /\ CurrentImage(slots') = CurrentImage(slots)
            /\ AppConfirmed(slots')

\* The image is kept with an OK answer only.
ReplyAppend(type, image, status) ==
  response' = [command |-> type, status |-> status,
               image |-> IF status = "OK" THEN image ELSE NoImage]

AppendRefused(type, image) ==
  LET status == AppendStatus(type, image) IN
  /\ initialized
  /\ status # "OK"
  /\ ReplyAppend(type, image, IF status = "DONE" THEN "OK" ELSE status)
  /\ UNCHANGED <<flash, initialized, flash_initialized, verify_succeeded,
                 session, verified>>

AppendInitFails(type, image) ==
  /\ initialized
  /\ AppendStatus(type, image) = "OK"
  /\ InitFails(type, "METADATA_WRITE_FAILED")

\* The API reported a failure: the handler answers without a second scan.
AppendFails(type, image) ==
  /\ initialized
  /\ "journal" \in Faults
  /\ AppendStatus(type, image) = "OK"
  /\ EnsureFlash
  /\ StoppedAppend(Record(type, NextSequence(slots), image))
  /\ ReplyAppend(type, image, "METADATA_WRITE_FAILED")
  /\ UNCHANGED <<app, initialized, verify_succeeded, session, verified>>

\* The API reported success; with a faulty Flash the slot may still read back
\* as invalid, which only the second scan can tell.
AppendDone(type, image) ==
  /\ initialized
  /\ AppendStatus(type, image) = "OK"
  /\ EnsureFlash
  /\ \/ WriteSlot(Record(type, NextSequence(slots), image))
     \/ "journal" \in Faults /\ WriteSlot(Invalid)
  /\ IF WriteConfirmed(type, image)
     THEN /\ ReplyAppend(type, image, "OK")
          /\ IF type = "IMAGE_VALID"
             THEN verify_succeeded' = FALSE /\ verified' = NothingCompared
             ELSE UNCHANGED <<verify_succeeded, verified>>
     ELSE /\ ReplyAppend(type, image, "METADATA_WRITE_FAILED")
          /\ UNCHANGED <<verify_succeeded, verified>>
  /\ UNCHANGED <<app, initialized, session>>

AppendRecord(type, image) ==
  \/ AppendRefused(type, image)
  \/ AppendInitFails(type, image)
  \/ AppendFails(type, image)
  \/ AppendDone(type, image)

HandleMetadataAppendRecord(type, image) ==
  Malformed(type) \/ AppendRecord(type, image)

\* The running application confirms whatever image the journal names.
ConfirmCurrentImage ==
  AppendRecord("APP_CONFIRMED", CurrentImage(slots))

-----------------------------------------------------------------------------
(***************************************************************************)
(* Attach, and loss of power before, between and inside Flash operations.  *)
(***************************************************************************)
ClearService ==
  /\ flash_initialized' = FALSE
  /\ verify_succeeded' = FALSE
  /\ session' = NoSession
  /\ response' = NoResponse
  /\ verified' = NothingCompared

\* The core calls boot_init on every attach; a refused target leaves the
\* service uninitialised.
BootInit(accepted) ==
  /\ initialized' = accepted
  /\ ClearService
  /\ UNCHANGED flash

LosePower ==
  /\ initialized
  /\ initialized' = FALSE
  /\ ClearService

PowerLoss == LosePower /\ UNCHANGED flash

PowerLossInErase(mask) ==
  /\ LosePower
  /\ mask # {} /\ mask \subseteq Sectors
  /\ \E s \in mask, left \in {"kept", "erased", "scrambled"} :
       StoppedErase(mask, s, left)

PowerLossInProgram(packet) ==
  /\ LosePower
  /\ session.operation = "PROGRAM"
  /\ DataStatus(packet) = "OK"
  /\ \E count \in 0 .. packet.count - 1, left \in {"kept", "written", "scrambled"} :
       StoppedProgram(packet, count, left)
  /\ UNCHANGED slots

PowerLossInAppend(type, image) ==
  /\ LosePower
  /\ AppendStatus(type, image) = "OK"
  /\ StoppedAppend(Record(type, NextSequence(slots), image))
  /\ UNCHANGED app

-----------------------------------------------------------------------------
Masks == SUBSET (0 .. SectorCount)

Commands ==
  \/ Uninitialised
  \/ \E mask \in Masks : HandleErase(mask)
  \/ \E op \in Operations : HandleBegin(op) \/ HandleData(op) \/ HandleEnd(op)
  \/ \E type \in RecordTypes, image \in Images \cup {BadImage} :
       HandleMetadataAppendRecord(type, image)
  \/ ConfirmCurrentImage

Interruptions ==
  \/ \E accepted \in BOOLEAN : BootInit(accepted)
  \/ PowerLoss
  \/ \E mask \in Masks : PowerLossInErase(mask)
  \/ \E packet \in Packets : PowerLossInProgram(packet)
  \/ \E type \in RecordTypes, image \in Images : PowerLossInAppend(type, image)

Next == Commands \/ Interruptions

Spec == Init /\ [][Next]_vars

-----------------------------------------------------------------------------
(***************************************************************************)
(* Properties                                                              *)
(***************************************************************************)
ComparedType ==
  [units : [Units -> Images \cup {NoImage}], writeFailed : BOOLEAN]

SessionType ==
  [operation : Operations \cup {"NONE"}, expected_packets : 0 .. MaxPackets,
   packets : 0 .. MaxPackets, expected_units : 0 .. UnitCount,
   units : 0 .. UnitCount, compared : ComparedType]

ResponseType ==
  [command : {"NONE", "ERASE", "BEGIN", "DATA", "END"} \cup RecordTypes,
   status : {"OK", "BAD_ADDRESS", "BAD_REQUEST", "BUSY", "MISSING_BEGIN",
             "INVALID_STATE", "UNEXPECTED_END", "BLOCK_INDEX_ERROR",
             "TOTAL_COUNT_MISMATCH", "ADDRESS_OUT_OF_RANGE", "ERASE_FAILED",
             "PROGRAM_FAILED", "VERIFY_FAILED", "METADATA_INVALID",
             "METADATA_FULL", "METADATA_WRITE_FAILED", "ATTEMPT_LIMIT_REACHED"},
   image : Images \cup {NoImage, BadImage}]

\* Every variable keeps its type: in particular a session never counts more
\* packets or units than a BEGIN may announce, and a stored sequence number
\* never exceeds the number of slots, so its 32 bits cannot wrap.
TypeOK ==
  /\ slots \in [Indexes -> Slots]
  /\ app \in [Units -> Cells]
  /\ initialized \in BOOLEAN
  /\ flash_initialized \in BOOLEAN
  /\ verify_succeeded \in BOOLEAN
  /\ session \in SessionType
  /\ response \in ResponseType
  /\ verified \in ComparedType

\* The order the appends keep in the journal, whatever failed or lost power:
\* erased slots last, sequence numbers growing with the slot and never more
\* than one above its index.
JournalOrdered == OrderedJournal(slots)

\* Whatever failed or lost power on the way, the service never leaves a
\* journal that the scan rejects as a whole for a repeated sequence number.
NeverDuplicateSequence == ~DuplicateSequence(slots)

\* The lifecycle order IMAGE_VALID -> BOOT_ATTEMPT -> APP_CONFIRMED: the
\* current image never has more attempts than the limit, and is confirmed
\* only after one of its own attempts, torn appends and re-published images
\* included.
LifecycleOrder ==
  /\ BootAttemptCount(slots) <= AttemptLimit
  /\ AppConfirmed(slots) => BootAttemptCount(slots) > 0

\* An append answered OK can be read back from the journal: the record the
\* host asked for is the one the next scan acts on.
AcknowledgedAppendHolds ==
  response.status = "OK" =>
    CASE response.command = "IMAGE_VALID" ->
           /\ CurrentImage(slots) = response.image
           /\ BootAttemptCount(slots) = 0
           /\ ~AppConfirmed(slots)
      [] response.command = "BOOT_ATTEMPT" ->
           \/ AppConfirmed(slots)
           \/ /\ CurrentImage(slots) = response.image
              /\ BootAttemptCount(slots) \in 1 .. AttemptLimit
      [] response.command = "APP_CONFIRMED" ->
           /\ CurrentImage(slots) = response.image
           /\ AppConfirmed(slots)
      [] OTHER -> TRUE

\* The flag that admits IMAGE_VALID is honest: while verify_succeeded is set
\* and no ERASE or PROGRAM_DATA has been answered with a failure since that
\* VERIFY began, every unit it compared still holds what was compared.
SameContent(contents) ==
  \A u \in Units : contents.units[u] # NoImage => app[u] = contents.units[u]

VerifiedContentIntact ==
  verify_succeeded /\ ~verified.writeFailed => SameContent(verified)

\* The same of the units a VERIFY session under way has compared so far.
ComparedContentIntact ==
  session.operation = "VERIFY" /\ ~session.compared.writeFailed =>
    SameContent(session.compared)

\* A session never processes more than its BEGIN announced, so the unsigned
\* difference expected - processed in HandleData cannot wrap around.
SessionNeverOverruns ==
  session.packets <= session.expected_packets /\
  session.units <= session.expected_units

\* The journal is append-only: a step changes a slot that is not erased only
\* by erasing (or spoiling) the whole sector, never one record.
WholeSector(j) ==
  j \in {[i \in Indexes |-> Erased], [i \in Indexes |-> Invalid]}

AppendOnly ==
  [][ \/ WholeSector(slots')
      \/ \A i \in Indexes : ~IsErased(slots[i]) => slots'[i] = slots[i] ]_slots

\* The service implements the trust lifecycle: each step publishes, attempts,
\* confirms or revokes as a whole, or changes nothing a reader can see.
Lifecycle ==
  INSTANCE TrustLifecycle WITH
    image <- CurrentImage(slots),
    attempts <- BootAttemptCount(slots),
    confirmed <- AppConfirmed(slots)

ImplementsLifecycle == Lifecycle!Spec

=============================================================================
