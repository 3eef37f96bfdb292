------------------------------ MODULE BootCore ------------------------------
(***************************************************************************)
(* The Flash-resident bootloader core (boot_algorithm.c): one request in,  *)
(* one response out.  It loads an image into RAM, validates and attaches   *)
(* the downloaded flash service, forwards Flash commands to it, and admits *)
(* RUN.  What the service does to Flash is taken from its abstract         *)
(* specification TrustLifecycle, which FlashService implements.            *)
(*                                                                         *)
(* Data.  RAM is a row of cells, each standing for a run of words that is  *)
(* written as a whole: plain RAM, then the service's header, its publish   *)
(* words, its immutable code and its mutable data, then plain RAM again.   *)
(* A cell keeps what its readers can tell apart: which header, which code, *)
(* whether the publish words are the valid pair; anything else is Junk.    *)
(* CRCs are taken to be collision free.  A response is an output, not      *)
(* state: its status is given where it decides what happens.  last_error   *)
(* and the report fields of service_state are left out.                    *)
(***************************************************************************)
EXTENDS Naturals

CONSTANTS
  ServiceStart, CodeStart, DataStart, ServiceEnd,  \* boot_flash_service_layout.h
  RamEnd,         \* writable RAM is 0 .. RamEnd - 1
  MaxLoadPackets, \* bound: packets a RAM load may announce
  MaxLoadWords,   \* bound: cells a RAM load may announce
  MaxPacketWords, \* bound: cells in one packet
  LoadEntries,    \* bound: RAM entry points the host announces
  Headers,        \* service headers with a correct magic, version and CRC
  Codes,          \* immutable code images
  Junk, Published,
  FieldStatus,    \* the verdict on the fields of a header
  CodeEnd,        \* the end of the immutable range a header declares
  CodeOf,         \* the code whose CRC a header carries
  BootInitStatus, \* what boot_init of the service answers
  Images, NoImage, AttemptLimit,
  EntryOf,        \* the entry point of an image
  NoEntry, BadEntry,  \* none; one that is not 8-word aligned
  RunRamEnabled   \* BOOT_ENABLE_RUN_RAM of the build

HeaderCell == ServiceStart
PublishCell == ServiceStart + 1
ServiceCells == ServiceStart .. ServiceEnd - 1
RamCells == 0 .. RamEnd - 1
CodeCells(h) == CodeStart .. CodeEnd[h] - 1
Addresses == 0 .. RamEnd
Data == Headers \cup Codes \cup {Junk, Published}
Entries == {EntryOf[i] : i \in Images}

ASSUME LayoutAssumption ==
  /\ ServiceStart \in Nat /\ CodeStart \in Nat /\ DataStart \in Nat
  /\ ServiceEnd \in Nat /\ RamEnd \in Nat
  /\ ServiceStart + 1 < CodeStart /\ CodeStart < DataStart
  /\ DataStart < ServiceEnd /\ ServiceEnd <= RamEnd
ASSUME LoadBoundsAssumption ==
  /\ MaxLoadPackets \in Nat \ {0}
  /\ MaxLoadWords \in Nat \ {0}
  /\ MaxPacketWords \in Nat \ {0}
  /\ LoadEntries \subseteq 0 .. RamEnd - 1
AttachStatuses ==
  {"OK", "METADATA_INVALID", "UNSUPPORTED_PROTOCOL", "RAM_REGION_ERROR",
   "UNSUPPORTED_FEATURE", "VERIFY_MISMATCH", "TARGET_MISMATCH", "BAD_REQUEST",
   "INVALID_STATE"}
ASSUME HeaderAssumption ==
  /\ FieldStatus \in [Headers -> AttachStatuses]
  /\ CodeEnd \in [Headers -> CodeStart + 1 .. RamEnd]
  /\ CodeOf \in [Headers -> Codes]
  /\ BootInitStatus \in [Headers -> AttachStatuses]
ASSUME ContentsAssumption ==
  /\ Junk # Published
  /\ Junk \notin Headers /\ Junk \notin Codes
  /\ Published \notin Headers /\ Published \notin Codes
ASSUME ImageAssumption ==
  /\ NoImage \notin Images
  /\ AttemptLimit \in Nat \ {0}
  /\ EntryOf \in [Images -> Entries]
  /\ NoEntry \notin Entries
ASSUME RunRamAssumption == RunRamEnabled \in BOOLEAN

VARIABLES
  ram,                 \* contents of the RAM cells
  ram_load,            \* algorithm->ram_load
  service_active,      \* algorithm->service_active and the command handler
  service_state,       \* algorithm->service_state.state
  service_busy,        \* the service handler is executing
  pending_entry_point, \* algorithm->pending_entry_point
  action,              \* what ProcessOne returned
  image, attempts, confirmed  \* what a scan of the metadata journal finds

journal == <<image, attempts, confirmed>>
service == <<service_active, service_state>>
coreVars == <<ram, ram_load, service_active, service_state, service_busy,
              pending_entry_point, action, image, attempts, confirmed>>

Journal == INSTANCE TrustLifecycle

\* loaded holds the cells written since BEGIN; the code keeps its bounds
\* loaded_start and loaded_end_exclusive.  The index the next packet must
\* carry always equals the number of packets processed.
NoLoad ==
  [active |-> FALSE, expected_packets |-> 0, packets |-> 0,
   expected_words |-> 0, words |-> 0, entry_point |-> 0, loaded |-> {},
   image_ready |-> FALSE, crc_checked |-> FALSE]

\* BootAlgorithm_Init
CoreInit ==
  /\ ram_load = NoLoad
  /\ service_active = FALSE
  /\ service_state = "DETACHED"
  /\ service_busy = FALSE
  /\ pending_entry_point = NoEntry
  /\ action = "NONE"

\* A command that only answers: BootAlgorithm_SendStatus, BootAlgorithm_Fail.
Answer(command, status) == UNCHANGED coreVars

-----------------------------------------------------------------------------
(***************************************************************************)
(* The service in RAM                                                      *)
(***************************************************************************)
\* What a cell shows its readers once data was written to it.  Code shows in
\* the cells where some header looks for it.
Stored(a, data) ==
  IF \/ a = HeaderCell /\ data \in Headers
     \/ a = PublishCell /\ data = Published
     \/ data \in Codes /\ \E h \in Headers : a \in CodeCells(h)
  THEN data ELSE Junk

CodeIntact(r, h) == \A a \in CodeCells(h) : r[a] = CodeOf[h]

\* The verdicts BootAlgorithm_ValidateFlashService can reach on RAM r.  The
\* application export lies in the code: damaged, it may be found out of range
\* before the capabilities and the CRC are looked at.
ValidateStatuses(r) ==
  LET h == r[HeaderCell] IN
  IF h \notin Headers THEN {"METADATA_INVALID"}
  ELSE IF FieldStatus[h] \notin {"OK", "UNSUPPORTED_FEATURE"}
       THEN {FieldStatus[h]}
  ELSE IF ~CodeIntact(r, h)
       THEN {"RAM_REGION_ERROR",
             IF FieldStatus[h] = "OK" THEN "VERIFY_MISMATCH" ELSE FieldStatus[h]}
  ELSE IF FieldStatus[h] # "OK" THEN {FieldStatus[h]}
  ELSE {BootInitStatus[h]}

IsPublished(r) == r[PublishCell] = Published
InvalidatePublishState(r) == [r EXCEPT ![PublishCell] = Junk]
Publish(r) == [r EXCEPT ![PublishCell] = Published]

\* The publish words are cleared first and written only after the last check.
ValidateFlashService(status) ==
  /\ status \in ValidateStatuses(InvalidatePublishState(ram))
  /\ ram' = IF status = "OK" THEN Publish(ram) ELSE InvalidatePublishState(ram)

Attached ==
  /\ service_active' = TRUE
  /\ service_state' = "ATTACHED"

\* BootAlgorithm_RestoreFlashService, on a core that was just initialised.
RestoreFlashService ==
  \E status \in AttachStatuses :
    /\ ValidateFlashService(status)
    /\ IF status = "OK" THEN Attached
       ELSE /\ service_active' = FALSE
            /\ service_state' = "DETACHED"

-----------------------------------------------------------------------------
(***************************************************************************)
(* RAM_LOAD_BEGIN, RAM_LOAD_DATA, RAM_LOAD_END, RAM_CHECK_CRC              *)
(***************************************************************************)
RamLoadBeginRefused ==
  \/ Answer("RAM_LOAD_BEGIN", "BAD_REQUEST")   \* length, target or zero count
  \/ ram_load.active /\ Answer("RAM_LOAD_BEGIN", "BUSY")
  \/ ~ram_load.active /\ Answer("RAM_LOAD_BEGIN", "RAM_REGION_ERROR")

RamLoadBeginDone(packets, words, entry) ==
  /\ ~ram_load.active
  /\ ram_load' = [NoLoad EXCEPT
       !.active = TRUE, !.expected_packets = packets, !.expected_words = words,
       !.entry_point = entry]
  /\ UNCHANGED <<ram, service, service_busy, pending_entry_point, action, journal>>

HandleRamLoadBegin ==
  \/ RamLoadBeginRefused
  \/ \E packets \in 1 .. MaxLoadPackets, words \in 1 .. MaxLoadWords,
        entry \in LoadEntries : RamLoadBeginDone(packets, words, entry)

\* The packets a host may send; of a malformed one nothing else matters.
MalformedLoad ==
  [index |-> 0, address |-> 0, count |-> 1, data |-> Junk, wellFormed |-> FALSE]
LoadPackets ==
  [index : 0 .. MaxLoadPackets, address : Addresses, count : 1 .. MaxPacketWords,
   data : Data, wellFormed : {TRUE}]

PacketCells(packet) == packet.address .. packet.address + packet.count - 1

RamLoadDataMissingBegin ==
  /\ ~ram_load.active
  /\ Answer("RAM_LOAD_DATA", "MISSING_BEGIN")

LoadDataStatus(packet) ==
  IF ~packet.wellFormed THEN "BAD_REQUEST"
  ELSE IF packet.index # ram_load.packets THEN "BLOCK_INDEX_ERROR"
  ELSE IF \/ ram_load.packets >= ram_load.expected_packets
          \/ packet.count > ram_load.expected_words - ram_load.words
       THEN "TOTAL_COUNT_MISMATCH"
  ELSE IF ~(packet.address + packet.count <= RamEnd) THEN "RAM_REGION_ERROR"
  ELSE "OK"

RangeOverlapsFlashService(packet) == PacketCells(packet) \cap ServiceCells # {}

\* Every refusal ends the load.
RamLoadDataRefused(packet) ==
  /\ ram_load.active
  /\ LoadDataStatus(packet) \notin {"OK", "RAM_REGION_ERROR"}
  /\ ram_load' = NoLoad
  /\ UNCHANGED <<ram, service, service_busy, pending_entry_point, action, journal>>

\* BootAlgorithm_InvalidateFlashService, when the packet touches the service.
InvalidateIfOverlapping(packet) ==
  IF RangeOverlapsFlashService(packet)
  THEN /\ service_active' = FALSE
       /\ service_state' = "DETACHED"
  ELSE UNCHANGED service

\* The service is given up before the address check fails.
RamLoadDataOutOfRegion(packet) ==
  /\ ram_load.active
  /\ LoadDataStatus(packet) = "RAM_REGION_ERROR"
  /\ InvalidateIfOverlapping(packet)
  /\ ram' = IF RangeOverlapsFlashService(packet)
            THEN InvalidatePublishState(ram) ELSE ram
  /\ ram_load' = NoLoad
  /\ UNCHANGED <<service_busy, pending_entry_point, action, journal>>

\* The first n cells of a packet reach RAM.
Written(packet, n) ==
  [a \in RamCells |->
     IF a \in packet.address .. packet.address + n - 1
     THEN Stored(a, packet.data) ELSE ram[a]]

\* Mutants: the publish words are not cleared again after the write; writing
\* over the service does not detach it.
MutantPublishKept(packet) ==
  /\ ram_load.active
  /\ LoadDataStatus(packet) = "OK"
  /\ InvalidateIfOverlapping(packet)
  /\ ram' = Written(packet, packet.count)
  /\ ram_load' = [ram_load EXCEPT !.packets = @ + 1, !.words = @ + packet.count,
                                  !.loaded = @ \cup PacketCells(packet)]
  /\ UNCHANGED <<service_busy, pending_entry_point, action, journal>>

MutantServiceKept(packet) ==
  /\ ram_load.active
  /\ LoadDataStatus(packet) = "OK"
  /\ ram' = IF RangeOverlapsFlashService(packet)
            THEN InvalidatePublishState(Written(packet, packet.count))
            ELSE Written(packet, packet.count)
  /\ ram_load' = [ram_load EXCEPT !.packets = @ + 1, !.words = @ + packet.count,
                                  !.loaded = @ \cup PacketCells(packet)]
  /\ UNCHANGED <<service, service_busy, pending_entry_point, action, journal>>

RamLoadDataDone(packet) ==
  /\ ram_load.active
  /\ LoadDataStatus(packet) = "OK"
  /\ InvalidateIfOverlapping(packet)
  /\ ram' = IF RangeOverlapsFlashService(packet)
            THEN InvalidatePublishState(Written(packet, packet.count))
            ELSE Written(packet, packet.count)
  /\ ram_load' = [ram_load EXCEPT !.packets = @ + 1, !.words = @ + packet.count,
                                  !.loaded = @ \cup PacketCells(packet)]
  /\ UNCHANGED <<service_busy, pending_entry_point, action, journal>>

HandleRamLoadData ==
  \/ RamLoadDataMissingBegin
  \/ RamLoadDataRefused(MalformedLoad)
  \/ \E packet \in LoadPackets :
       \/ RamLoadDataRefused(packet)
       \/ RamLoadDataOutOfRegion(packet)
       \/ RamLoadDataDone(packet)

\* Between loaded_start and loaded_end_exclusive.
InLoadedRange(a) ==
  (\E low \in ram_load.loaded : low <= a) /\ (\E high \in ram_load.loaded : a <= high)

RamLoadEndValid(packets, words) ==
  /\ packets = ram_load.expected_packets /\ packets = ram_load.packets
  /\ words = ram_load.expected_words /\ words = ram_load.words
  /\ InLoadedRange(ram_load.entry_point)

RamLoadEndMissingBegin ==
  /\ ~ram_load.active
  /\ Answer("RAM_LOAD_END", "MISSING_BEGIN")

RamLoadEndFails ==
  /\ ram_load.active
  /\ ram_load' = NoLoad
  /\ UNCHANGED <<ram, service, service_busy, pending_entry_point, action, journal>>

RamLoadEndDone ==
  /\ ram_load.active
  /\ ram_load' = [ram_load EXCEPT
       !.active = FALSE, !.image_ready = TRUE, !.crc_checked = FALSE]
  /\ UNCHANGED <<ram, service, service_busy, pending_entry_point, action, journal>>

HandleRamLoadEnd ==
  \/ RamLoadEndMissingBegin
  \/ RamLoadEndFails    \* BAD_PAYLOAD_LENGTH
  \/ \E packets \in 0 .. MaxLoadPackets, words \in 0 .. MaxLoadWords :
       IF RamLoadEndValid(packets, words) THEN RamLoadEndDone
       ELSE RamLoadEndFails   \* TOTAL_COUNT_MISMATCH

\* matches: the CRC and the word count of the request are those of the load.
RamCheckCrcRefused ==
  \/ Answer("RAM_CHECK_CRC", "BAD_REQUEST")
  \/ ~ram_load.image_ready /\ Answer("RAM_CHECK_CRC", "INVALID_STATE")

RamCheckCrcAnswered(matches) ==
  /\ ram_load.image_ready
  /\ ram_load' = [ram_load EXCEPT !.crc_checked = matches]
  /\ UNCHANGED <<ram, service, service_busy, pending_entry_point, action, journal>>

HandleRamCheckCrc ==
  RamCheckCrcRefused \/ \E matches \in BOOLEAN : RamCheckCrcAnswered(matches)

-----------------------------------------------------------------------------
(***************************************************************************)
(* SERVICE_ATTACH and the commands forwarded to the service                *)
(***************************************************************************)
\* A refused attach reports an error state only when no service is active.
FailServiceAttach ==
  /\ service_state' = IF service_active THEN service_state ELSE "ERROR"
  /\ UNCHANGED <<ram_load, service_active, service_busy, pending_entry_point,
                 action, journal>>

\* matches: the CRC and the word count of the request are those of the load;
\* atHeader: it names the fixed header address.
ServiceAttachStatus(matches, atHeader) ==
  IF ~(ram_load.image_ready /\ ram_load.crc_checked) THEN "INVALID_STATE"
  ELSE IF ~matches THEN "VERIFY_MISMATCH"
  ELSE IF ~(atHeader /\ InLoadedRange(HeaderCell)) THEN "RAM_REGION_ERROR"
  ELSE "OK"

ServiceAttachRefused(status) ==
  /\ status # "OK"
  /\ FailServiceAttach
  /\ UNCHANGED ram

ServiceAttachFails(status) ==
  /\ status # "OK"
  /\ ValidateFlashService(status)
  /\ FailServiceAttach

ServiceAttachDone ==
  /\ ValidateFlashService("OK")
  /\ Attached
  /\ UNCHANGED <<ram_load, service_busy, pending_entry_point, action, journal>>

HandleServiceAttach ==
  \/ ServiceAttachRefused("BAD_REQUEST")
  \/ \E matches, atHeader \in BOOLEAN :
       LET status == ServiceAttachStatus(matches, atHeader) IN
       \/ ServiceAttachRefused(status)
       \/ /\ status = "OK"
          /\ \/ \E verdict \in AttachStatuses : ServiceAttachFails(verdict)
             \/ ServiceAttachDone

\* A Flash command runs in the service between the two guard hooks.
ForwardRefused ==
  /\ ~service_active
  /\ Answer("FLASH", "UNSUPPORTED_FEATURE")

ForwardToService ==
  /\ service_active
  /\ service_busy' = TRUE
  /\ UNCHANGED <<ram, ram_load, service, pending_entry_point, action, journal>>

\* The service returns.  Its effect on the journal is one step of the abstract
\* lifecycle or none.
ServiceReturns ==
  /\ service_busy
  /\ service_busy' = FALSE
  /\ Journal!Next \/ UNCHANGED journal
  /\ UNCHANGED <<ram, ram_load, service, pending_entry_point, action>>

-----------------------------------------------------------------------------
(***************************************************************************)
(* RUN, RUN_RAM and the commands that only report                          *)
(***************************************************************************)
\* Mutant: any trusted image may run, tried or not.
MutantRunUntried(entry) ==
  IF entry = BadEntry THEN "BAD_ALIGNMENT"
  ELSE IF image = NoImage THEN "METADATA_INVALID"
  ELSE IF EntryOf[image] # entry THEN "METADATA_INVALID"
  ELSE "OK"

RunStatus(entry) ==
  IF entry = BadEntry THEN "BAD_ALIGNMENT"
  ELSE IF image = NoImage THEN "METADATA_INVALID"
  ELSE IF EntryOf[image] # entry THEN "METADATA_INVALID"
  ELSE IF ~confirmed /\ attempts = 0 THEN "INVALID_STATE"
  ELSE IF ~confirmed /\ attempts > AttemptLimit THEN "ATTEMPT_LIMIT_REACHED"
  ELSE "OK"

RunDone(entry) ==
  /\ RunStatus(entry) = "OK"
  /\ pending_entry_point' = entry
  /\ action' = "RUN_FLASH_APP"
  /\ UNCHANGED <<ram, ram_load, service, service_busy, journal>>

HandleRun ==
  \/ Answer("RUN", "BAD_REQUEST")
  \/ \E entry \in Entries \cup {BadEntry} :
       \/ RunStatus(entry) # "OK" /\ Answer("RUN", RunStatus(entry))
       \/ RunDone(entry)

\* Mutant: the CRC need not have been checked.
MutantRunRamUnchecked(entry) ==
  IF ~ram_load.image_ready THEN "INVALID_STATE"
  ELSE IF ~InLoadedRange(entry) THEN "RAM_REGION_ERROR"
  ELSE "OK"

\* Entry point 0 asks for the one the load announced.
RunRamStatus(entry) ==
  IF ~(ram_load.image_ready /\ ram_load.crc_checked) THEN "INVALID_STATE"
  ELSE IF ~InLoadedRange(entry) THEN "RAM_REGION_ERROR"
  ELSE "OK"

RunRamDone(entry) ==
  /\ RunRamStatus(entry) = "OK"
  /\ pending_entry_point' = entry
  /\ action' = "RUN_RAM_APP"
  /\ UNCHANGED <<ram, ram_load, service, service_busy, journal>>

HandleRunRam ==
  \/ ~RunRamEnabled /\ Answer("RUN_RAM", "UNSUPPORTED_FEATURE")
  \/ RunRamEnabled /\ Answer("RUN_RAM", "BAD_REQUEST")
  \/ /\ RunRamEnabled
     /\ \E entry \in Addresses \cup {ram_load.entry_point} :
          \/ RunRamStatus(entry) # "OK" /\ Answer("RUN_RAM", RunRamStatus(entry))
          \/ RunRamDone(entry)

\* The commands that answer from the state and change none of it.
Queries == {"PING", "GET_DEVICE_INFO", "GET_PROTOCOL_INFO", "GET_LAST_ERROR",
            "GET_SERVICE_STATUS", "GET_METADATA_SUMMARY"}
HandleQuery ==
  \E query \in Queries : Answer(query, "OK") \/ Answer(query, "BAD_PAYLOAD_LENGTH")

HandleMemoryRead ==
  \E status \in {"OK", "BAD_PAYLOAD_LENGTH", "BAD_FLAGS", "BAD_WORD_COUNT"} :
    Answer("MEMORY_READ", status)

\* RESET is not compiled in; every other command is unknown.
HandleOther == Answer("RESET", "UNSUPPORTED_FEATURE") \/ Answer("NONE", "UNKNOWN_COMMAND")

\* A frame that fails the checks before the dispatch.
BadFrame == Answer("NONE", "BAD_FRAME")

\* BootAlgorithm_ProcessOne, for a command the core handles itself.
ProcessOne ==
  \/ BadFrame
  \/ HandleQuery
  \/ HandleMemoryRead
  \/ HandleOther
  \/ HandleRamLoadBegin
  \/ HandleRamLoadData
  \/ HandleRamLoadEnd
  \/ HandleRamCheckCrc
  \/ HandleServiceAttach
  \/ ForwardRefused
  \/ HandleRun
  \/ HandleRunRam

=============================================================================
