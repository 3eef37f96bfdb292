--------------------------- MODULE SimulatorCore ----------------------------
(***************************************************************************)
(* The in-memory device the PC tools are tested against (simulator/core.py)*)
(* as a function: Respond(d, q, fault) is the device after request q and   *)
(* the status it answers.  HostOperations and UpgradeTools run against  *)
(* it.                                                                     *)
(*                                                                         *)
(* Data.  An image is a number, and its number is the number of packets it *)
(* is sent in; Flash is an array of packets.  The payload-shape checks     *)
(* (lengths, reserved words, block counts of zero) are left out: every     *)
(* caller in the repository builds its payloads with the right shape.      *)
(***************************************************************************)
EXTENDS Integers, Sequences, SequencesExt

CONSTANTS
  Images,          \* application images; image i takes i packets
  ServicePackets,  \* packets of the Flash service, and of the RAM application
  RecordCount,     \* METADATA_RECORD_COUNT, 16 in the code
  AttemptLimit     \* METADATA_BOOT_ATTEMPT_LIMIT, 3 in the code

ASSUME SimulatorAssumption ==
  /\ Images \subseteq Nat \ {0} /\ Images # {}
  /\ ServicePackets \in Nat \ {0} /\ RecordCount \in Nat \ {0} /\ AttemptLimit \in Nat \ {0}

None == 0
Service == -1      \* the Flash service and the RAM application, loaded into RAM
RamApp == -2
Sectors == {"boot", "metadata", "app"}   \* all application addresses are in "app"
Addresses == UNION {1 .. i : i \in Images}
Transfers == {"PROGRAM", "VERIFY", "RAM_LOAD"}
RecordTypes == {"IMAGE_VALID", "BOOT_ATTEMPT", "APP_CONFIRMED"}

Packets(image) == IF image < 0 THEN ServicePackets ELSE image

NoSession == [image |-> None, index |-> 0]
Session(image) == [image |-> image, index |-> 0]

\* SimulatorCore.__init__; require is require_service_for_flash_commands.
NewDevice(require) ==
  [require |-> require,
   flash |-> [a \in Addresses |-> None], journal |-> <<>>,
   session |-> [k \in Transfers |-> NoSession],
   loaded |-> None, crc_ok |-> FALSE,
   service |-> "DETACHED", verified |-> FALSE]

OK(d) == [device |-> d, status |-> "OK"]
Fail(d, status) == [device |-> d, status |-> status]

-----------------------------------------------------------------------------
(* The journal. *)

\* Where the latest IMAGE_VALID is, or 0; records are numbered as they are
\* written, so the latest is the last.
LatestImage(journal) ==
  CHOOSE i \in 0 .. Len(journal) :
    /\ i # 0 => journal[i].type = "IMAGE_VALID"
    /\ \A j \in i + 1 .. Len(journal) : journal[j].type # "IMAGE_VALID"

\* Mutant: every record behind the latest IMAGE_VALID counts as an attempt.
MutantSummary(d) ==
  LET latest == LatestImage(d.journal) IN
  [image |-> IF latest = 0 THEN None ELSE d.journal[latest].image,
   attempts |-> IF latest = 0 THEN 0 ELSE Len(d.journal) - latest,
   confirmed |-> \E i \in latest + 1 .. Len(d.journal) : d.journal[i].type = "APP_CONFIRMED"]

\* _metadata_summary_payload: the records of the type that follow the latest
\* IMAGE_VALID and name its image.
Summary(d) ==
  LET latest == LatestImage(d.journal)
      image == IF latest = 0 THEN None ELSE d.journal[latest].image
      Following(type) == {i \in latest + 1 .. Len(d.journal) :
                            d.journal[i] = [type |-> type, image |-> image]}
  IN [image |-> image, attempts |-> Cardinality(Following("BOOT_ATTEMPT")),
      confirmed |-> Following("APP_CONFIRMED") # {}]

WriteRecord(d, type, image) ==
  [d EXCEPT !.journal = Append(@, [type |-> type, image |-> image])]

\* BOOT_ATTEMPT and APP_CONFIRMED
AppendCurrent(d, type, image) ==
  LET s == Summary(d) IN
  CASE s.image = None -> Fail(d, "METADATA_INVALID")
    [] s.image # None /\ type = "APP_CONFIRMED" /\ s.attempts = 0 -> Fail(d, "INVALID_STATE")
    [] s.confirmed -> OK(d)
    [] type = "BOOT_ATTEMPT" /\ ~s.confirmed /\ s.attempts >= AttemptLimit ->
         Fail(d, "ATTEMPT_LIMIT_REACHED")
    [] OTHER -> IF s.image # image THEN Fail(d, "METADATA_INVALID")
                ELSE IF Len(d.journal) = RecordCount THEN Fail(d, "METADATA_FULL")
                ELSE OK(WriteRecord(d, type, image))

AppendImageValid(d, image) ==
  IF ~d.verified THEN Fail(d, "INVALID_STATE")
  ELSE IF Len(d.journal) = RecordCount THEN Fail(d, "METADATA_FULL")
  ELSE OK([WriteRecord(d, "IMAGE_VALID", image) EXCEPT !.verified = FALSE])

-----------------------------------------------------------------------------
(* Erase and transfers. *)

Erase(d, sectors, fault) ==
  IF fault = "erase" THEN Fail(d, "ERASE_FAILED")
  ELSE OK([d EXCEPT !.flash = [a \in Addresses |-> IF "app" \in sectors THEN None ELSE @[a]],
                    !.journal = IF "metadata" \in sectors THEN <<>> ELSE @,
                    !.session = [@ EXCEPT !["PROGRAM"] = NoSession, !["VERIFY"] = NoSession],
                    !.verified = FALSE])

Begin(d, k, image, fault) ==
  IF d.session[k] # NoSession THEN Fail(d, "BUSY")
  ELSE IF fault = "illegal_address" /\ k # "RAM_LOAD" THEN Fail(d, "ADDRESS_OUT_OF_RANGE")
  ELSE LET begun == [d EXCEPT !.session[k] = Session(image)] IN
       OK(IF k = "RAM_LOAD" THEN [begun EXCEPT !.loaded = None, !.crc_ok = FALSE] ELSE begun)

\* A data packet that fails ends its session; a VERIFY also gives up the flag.
Dropped(d, k, status) ==
  LET ended == [d EXCEPT !.session[k] = NoSession] IN
  Fail(IF k = "VERIFY" THEN [ended EXCEPT !.verified = FALSE] ELSE ended, status)

Advanced(d, k) == [d EXCEPT !.session[k].index = @ + 1]

ProgramData(d, image, address, fault) ==
  IF fault = "program" THEN Dropped(d, "PROGRAM", "PROGRAM_FAILED")
  ELSE IF d.flash[address] # None THEN Dropped(d, "PROGRAM", "REPROGRAM_FORBIDDEN")
  ELSE OK([Advanced(d, "PROGRAM") EXCEPT !.flash[address] = image, !.verified = FALSE])

VerifyData(d, image, address, fault) ==
  IF fault = "verify" \/ d.flash[address] # image THEN Dropped(d, "VERIFY", "VERIFY_MISMATCH")
  ELSE OK(Advanced(d, "VERIFY"))

\* The service's own RAM is written over: it is detached and unpublished.
RamLoadData(d, image) ==
  OK(IF image = Service THEN [Advanced(d, "RAM_LOAD") EXCEPT !.service = "DETACHED"]
     ELSE Advanced(d, "RAM_LOAD"))

\* _data, then what the command does with a good packet
Data(d, k, image, index, fault) ==
  IF d.session[k] = NoSession THEN Dropped(d, k, "MISSING_BEGIN")
  ELSE IF (fault = "bad_block_index" /\ k # "RAM_LOAD") \/ index # d.session[k].index
  THEN Dropped(d, k, "BLOCK_INDEX_ERROR")
  ELSE IF k = "RAM_LOAD" /\ index >= Packets(d.session[k].image)
  THEN Dropped(d, k, "TOTAL_COUNT_MISMATCH")
  ELSE IF fault = "illegal_address" /\ k # "RAM_LOAD" THEN Dropped(d, k, "ADDRESS_OUT_OF_RANGE")
  ELSE CASE k = "PROGRAM" -> ProgramData(d, image, index + 1, fault)
         [] k = "VERIFY" -> VerifyData(d, image, index + 1, fault)
         [] k = "RAM_LOAD" -> RamLoadData(d, image)

\* _end: every END closes the session; only a complete one counts.
End(d, k, image) ==
  LET ended == [d EXCEPT !.session[k] = NoSession] IN
  IF d.session[k] = NoSession THEN Dropped(d, k, "MISSING_BEGIN")
  ELSE IF Packets(image) # Packets(d.session[k].image) \/ Packets(image) # d.session[k].index
  THEN Dropped(d, k, "TOTAL_COUNT_MISMATCH")
  ELSE OK(CASE k = "PROGRAM" -> [ended EXCEPT !.verified = FALSE]
            [] k = "VERIFY" -> [ended EXCEPT !.verified = TRUE]
            [] k = "RAM_LOAD" -> [ended EXCEPT !.loaded = d.session[k].image, !.crc_ok = FALSE])

-----------------------------------------------------------------------------
(* RAM images, the service, and what leaves the bootloader. *)

RamCheckCrc(d, image) ==
  IF d.loaded = None THEN Fail(d, "INVALID_STATE")
  ELSE IF d.loaded # image THEN Fail([d EXCEPT !.crc_ok = FALSE], "VERIFY_MISMATCH")
  ELSE OK([d EXCEPT !.crc_ok = TRUE])

ServiceFail(d, status) ==
  Fail([d EXCEPT !.service = IF @ = "ATTACHED" THEN @ ELSE "ERROR"], status)

ServiceAttach(d) ==
  IF d.loaded = None \/ ~d.crc_ok THEN ServiceFail(d, "INVALID_STATE")
  ELSE IF d.loaded # Service THEN ServiceFail(d, "VERIFY_MISMATCH")
  ELSE OK([d EXCEPT !.service = "ATTACHED"])

\* RUN_RAM and RUN set pending_action and answer.
RunRam(d) ==
  IF d.loaded = None \/ ~d.crc_ok THEN Fail(d, "INVALID_STATE")
  ELSE OK(d)

\* RUN names an entry point.  Applications are linked to start at the same one, so
\* it does not tell images apart.
EntryPoint(image) == IF image = None THEN 0 ELSE 1

Run(d, image, fault) ==
  LET s == Summary(d) IN
  IF fault = "illegal_address" THEN Fail(d, "ADDRESS_OUT_OF_RANGE")
  ELSE IF s.image = None \/ EntryPoint(s.image) # EntryPoint(image) THEN Fail(d, "METADATA_INVALID")
  ELSE IF ~s.confirmed /\ s.attempts = 0 THEN Fail(d, "INVALID_STATE")
  ELSE IF ~s.confirmed /\ s.attempts > AttemptLimit THEN Fail(d, "ATTEMPT_LIMIT_REACHED")
  ELSE OK(d)

-----------------------------------------------------------------------------
(* transact *)

NeedsService(q) ==
  q.command \in {"ERASE", "METADATA_APPEND_RECORD"} \/ q.type \in {"PROGRAM", "VERIFY"}

\* Answered OK without a change; RESET only sets pending_action, which nothing in
\* the simulator reads.
Reads == {"PING", "GET_DEVICE_INFO", "GET_PROTOCOL_INFO", "GET_LAST_ERROR", "GET_SERVICE_STATUS",
          "GET_METADATA_SUMMARY", "MEMORY_READ", "RESET"}

\* A request: its command and the fields its handler uses.  BEGIN, DATA and END
\* of the three transfers are told apart by type.
Req(command, image) == [command |-> command, image |-> image, index |-> 0, type |-> "none",
                        sectors |-> {}]

\* SimulatorFaults that can strike q; those of the response are the line's.
Faults(q) ==
  {"none"} \cup (CASE q.command = "ERASE" -> {"erase"}
                  [] q.type = "PROGRAM" -> {"program", "illegal_address", "bad_block_index"}
                  [] q.type = "VERIFY" -> {"verify", "illegal_address", "bad_block_index"}
                  [] q.command = "RUN" -> {"illegal_address"}
                  [] OTHER -> {})

Respond(d, q, fault) ==
  IF d.require /\ NeedsService(q) /\ d.service # "ATTACHED"
  THEN Fail(d, "UNSUPPORTED_FEATURE")
  ELSE CASE q.command \in Reads -> OK(d)
         [] q.command = "BEGIN" -> Begin(d, q.type, q.image, fault)
         [] q.command = "DATA" -> Data(d, q.type, q.image, q.index, fault)
         [] q.command = "END" -> End(d, q.type, q.image)
         [] q.command = "ERASE" -> Erase(d, q.sectors, fault)
         [] q.command = "METADATA_APPEND_RECORD" ->
              IF q.type = "IMAGE_VALID" THEN AppendImageValid(d, q.image)
              ELSE AppendCurrent(d, q.type, q.image)
         [] q.command = "RAM_CHECK_CRC" -> RamCheckCrc(d, q.image)
         [] q.command = "SERVICE_ATTACH" -> ServiceAttach(d)
         [] q.command = "RUN" -> Run(d, q.image, fault)
         [] q.command = "RUN_RAM" -> RunRam(d)
=============================================================================
