----------------------------- MODULE BootDevice -----------------------------
(***************************************************************************)
(* The device around the core (main_cpu01.c and the user port): start-up,  *)
(* the takeover window, the command loop under the communication timeout,  *)
(* the jump to an application, the application's own confirmation, resets  *)
(* that keep RAM and power losses that do not.                             *)
(*                                                                         *)
(* mode is where main is:                                                  *)
(*   RESET     just out of reset, before the start-up scan                 *)
(*   CONNECT   in BootUser_CreateIoOpsTimeout, waiting for autobaud        *)
(*   LOCKED    in BootSci_ConnectFinish, baud locked, waiting for 'A'      *)
(*   COMMAND   in BootAlgorithm_Run                                        *)
(*   JUMP      RUN was answered, the application is about to start         *)
(*   FLASH_APP, RAM_APP   an application runs                              *)
(***************************************************************************)
EXTENDS BootCore

CONSTANTS
  AutoBootEnabled,  \* BOOT_USER_AUTO_BOOT_ENABLE of the build
  LockByteMayGoMissing \* the line may lock the baud rate and lose the 'A'

ASSUME BuildAssumption ==
  /\ AutoBootEnabled \in BOOLEAN
  /\ LockByteMayGoMissing \in BOOLEAN

VARIABLES
  mode,
  bootable,   \* main's start-up summary: the entry to start, or NoEntry
  timer,      \* CPU Timer 2: stopped or running
  interrupts, \* the CPU takes interrupts
  running,    \* the entry point of the application that runs
  host        \* the PC is there; once gone it sends nothing more

device == <<mode, bootable, timer, interrupts, running, host>>
vars == <<coreVars, device>>

Init ==
  /\ ram = [a \in RamCells |-> Junk]
  /\ CoreInit
  /\ Journal!Init
  /\ mode = "RESET"
  /\ bootable = NoEntry
  /\ timer = FALSE
  /\ interrupts = FALSE
  /\ running = NoEntry
  /\ host = TRUE

-----------------------------------------------------------------------------
(***************************************************************************)
(* Start-up                                                                *)
(***************************************************************************)
\* BootUser_PreviewAutoBootDecision reaches RUN_CONFIRMED_APP.  The scan
\* accepts only records with an entry point inside the application range.
IsConfirmedBootable == image # NoImage /\ attempts > 0 /\ confirmed

\* A service left in RAM is published again before anything may run.
StartUp ==
  /\ mode = "RESET"
  /\ \E status \in AttachStatuses : ValidateFlashService(status)
  /\ bootable' = IF IsConfirmedBootable THEN EntryOf[image] ELSE NoEntry
  /\ mode' = "CONNECT"
  /\ UNCHANGED <<ram_load, service, service_busy, pending_entry_point, action,
                 journal, timer, interrupts, running, host>>

\* BootAlgorithm_Init, RestoreFlashService, the hooks and the timer.
OpenSession ==
  /\ RestoreFlashService
  /\ ram_load' = NoLoad
  /\ service_busy' = FALSE
  /\ pending_entry_point' = NoEntry
  /\ action' = "NONE"
  /\ interrupts' = TRUE
  /\ timer' = TRUE
  /\ mode' = "COMMAND"
  /\ UNCHANGED <<journal, bootable, running, host>>

\* The 'A' of the host both locks the baud rate and is the byte waited for.
Connect == mode \in {"CONNECT", "LOCKED"} /\ host /\ OpenSession

\* The baud rate locks but the byte is dropped, by BootSci_RecoverRxError.
LockWithoutByte ==
  /\ LockByteMayGoMissing
  /\ mode = "CONNECT"
  /\ host
  /\ mode' = "LOCKED"
  /\ UNCHANGED <<coreVars, bootable, timer, interrupts, running, host>>

\* The window is finite only for a confirmed image of an auto-boot build.
WindowExpires ==
  /\ mode = "CONNECT"
  /\ AutoBootEnabled
  /\ bootable # NoEntry
  /\ mode' = "FLASH_APP"
  /\ running' = bootable
  /\ timer' = FALSE
  /\ interrupts' = FALSE
  /\ UNCHANGED <<coreVars, bootable, host>>

-----------------------------------------------------------------------------
(***************************************************************************)
(* The command loop                                                        *)
(***************************************************************************)
Listening == mode = "COMMAND" /\ host /\ ~service_busy

\* A command of the core; an accepted RUN leaves the loop.
Command ==
  /\ Listening
  /\ ProcessOne
  /\ mode' = IF action' = "NONE" THEN "COMMAND" ELSE "JUMP"
  /\ UNCHANGED <<bootable, timer, interrupts, running, host>>

\* Mutant: the guard's entry stops the timer nowhere.
MutantGuardEnter ==
  /\ Listening
  /\ ForwardToService
  /\ UNCHANGED device

\* A Flash command: BootUser_CommTimeoutServiceGuardEnter ...
FlashCommand ==
  /\ Listening
  /\ ForwardToService
  /\ interrupts' = FALSE
  /\ timer' = FALSE
  /\ UNCHANGED <<mode, bootable, running, host>>

\* Mutant: the guard's exit forgets to start the timer again.
MutantGuardExit ==
  /\ mode = "COMMAND"
  /\ ServiceReturns
  /\ interrupts' = TRUE
  /\ UNCHANGED <<mode, bootable, timer, running, host>>

\* ... and ServiceGuardExit around the service.
FlashCommandReturns ==
  /\ mode = "COMMAND"
  /\ ServiceReturns
  /\ timer' = TRUE
  /\ interrupts' = TRUE
  /\ UNCHANGED <<mode, bootable, running, host>>

\* BootUser_HandleAlgorithmAction: the response is flushed, the timer stopped.
Jump ==
  /\ mode = "JUMP"
  /\ mode' = IF action = "RUN_FLASH_APP" THEN "FLASH_APP" ELSE "RAM_APP"
  /\ running' = pending_entry_point
  /\ timer' = FALSE
  /\ interrupts' = FALSE
  /\ UNCHANGED <<coreVars, bootable, host>>

-----------------------------------------------------------------------------
(***************************************************************************)
(* The application, resets and power losses                                *)
(***************************************************************************)
\* BootFlashServiceApp_ConfirmCurrentImage calls the service it finds published.
AppConfirms ==
  /\ mode = "FLASH_APP"
  /\ IsPublished(ram)
  /\ Journal!Confirm
  /\ UNCHANGED <<ram, ram_load, service, service_busy, pending_entry_point,
                 action, device>>

\* main's variables are set before they are read again; they are cleared here.
\* RAM is what the reset found.
Restart ==
  /\ ram_load' = NoLoad
  /\ service_active' = FALSE
  /\ service_state' = "DETACHED"
  /\ service_busy' = FALSE
  /\ pending_entry_point' = NoEntry
  /\ action' = "NONE"
  /\ bootable' = NoEntry
  /\ timer' = FALSE
  /\ interrupts' = FALSE
  /\ running' = NoEntry
  /\ mode' = "RESET"
  /\ UNCHANGED host

\* The Timer 2 interrupt resets the device wherever it finds the core, in the
\* middle of a RAM load packet too, but never inside the service.
CommTimeout ==
  /\ timer /\ interrupts
  /\ Restart
  /\ \/ UNCHANGED ram
     \/ /\ ram_load.active
        /\ \E packet \in LoadPackets, n \in 1 .. MaxPacketWords :
             /\ LoadDataStatus(packet) = "OK"
             /\ n <= packet.count
             /\ ram' = Written(packet, n)
  /\ UNCHANGED journal

\* A reset of the running application keeps RAM.
AppResets ==
  /\ mode \in {"FLASH_APP", "RAM_APP"}
  /\ Restart
  /\ UNCHANGED <<ram, journal>>

\* A power loss spoils some of the RAM, and stops a Flash operation of the
\* service anywhere in it.  (Bound: the power is stable once the host left.)
PowerLoss ==
  /\ host
  /\ Restart
  /\ \E spoilt \in SUBSET {a \in RamCells : ram[a] # Junk} :
       ram' = [a \in RamCells |-> IF a \in spoilt THEN Junk ELSE ram[a]]
  /\ IF service_busy THEN Journal!Next \/ UNCHANGED journal
     ELSE UNCHANGED journal

HostLeaves ==
  /\ host
  /\ host' = FALSE
  /\ UNCHANGED <<coreVars, mode, bootable, timer, interrupts, running>>

-----------------------------------------------------------------------------
\* What the device does by itself.
DeviceSteps ==
  StartUp \/ WindowExpires \/ FlashCommandReturns \/ Jump \/ CommTimeout

Next ==
  \/ DeviceSteps
  \/ Connect
  \/ LockWithoutByte
  \/ Command
  \/ FlashCommand
  \/ AppConfirms
  \/ AppResets
  \/ PowerLoss
  \/ HostLeaves

\* The device's own steps are not put off for ever: code runs to its next
\* wait, the window and Timer 2 expire, the service returns.  The host, the
\* application and the power promise nothing.
Fairness ==
  /\ WF_vars(StartUp)
  /\ WF_vars(WindowExpires)
  /\ WF_vars(FlashCommandReturns)
  /\ WF_vars(Jump)
  /\ WF_vars(CommTimeout)

Spec == Init /\ [][Next]_vars
FairSpec == Spec /\ Fairness

-----------------------------------------------------------------------------
(***************************************************************************)
(* Properties                                                              *)
(***************************************************************************)
LoadType ==
  [active : BOOLEAN, expected_packets : 0 .. MaxLoadPackets,
   packets : 0 .. MaxLoadPackets, expected_words : 0 .. MaxLoadWords,
   words : 0 .. MaxLoadWords, entry_point : Addresses,
   loaded : SUBSET Addresses, image_ready : BOOLEAN, crc_checked : BOOLEAN]

\* Every variable keeps its type; a RAM load never counts more packets or
\* words than its BEGIN could announce.
TypeOK ==
  /\ ram \in [RamCells -> Data]
  /\ ram_load \in LoadType
  /\ service_active \in BOOLEAN
  /\ service_state \in {"DETACHED", "ATTACHED", "ERROR"}
  /\ service_busy \in BOOLEAN
  /\ action \in {"NONE", "RUN_FLASH_APP", "RUN_RAM_APP"}
  /\ image \in Images \cup {NoImage}
  /\ attempts \in 0 .. AttemptLimit
  /\ confirmed \in BOOLEAN
  /\ mode \in {"RESET", "CONNECT", "LOCKED", "COMMAND", "JUMP", "FLASH_APP",
               "RAM_APP"}
  /\ timer \in BOOLEAN
  /\ interrupts \in BOOLEAN
  /\ host \in BOOLEAN

ServiceIntact == ValidateStatuses(ram) = {"OK"}

\* The service artifact keeps its code inside the area reserved for services.
WellLinked == \A h \in Headers : CodeEnd[h] <= ServiceEnd

\* The handler that Flash commands are forwarded to is code that would pass
\* validation now, and is published to the application: no RAM load, failed
\* attach or reset leaves an active service over RAM that changed since.
AttachedServiceIntact ==
  WellLinked /\ service_active => ServiceIntact /\ IsPublished(ram)

\* Whenever an application runs, the publish words are the valid pair only
\* if a call through the export lands in intact service code.
PublishedServiceIntact ==
  WellLinked /\ mode \in {"FLASH_APP", "RAM_APP"} /\ IsPublished(ram) =>
    ServiceIntact

\* A Flash application that runs is the trusted image, entered at its own
\* entry point, with an attempt on record: the checks of RUN and of the
\* start-up scan still hold when the jump is taken.
OnlyTrustedRuns ==
  mode = "FLASH_APP" =>
    /\ image # NoImage
    /\ running = EntryOf[image]
    /\ attempts > 0

\* The communication timeout cannot cut a Flash operation short.
FlashRunsToItsEnd == [][ CommTimeout => ~service_busy ]_vars

\* A RAM application starts only from a complete load whose CRC the host
\* checked after its last packet.
OnlyCheckedRamRuns ==
  mode = "RAM_APP" =>
    /\ ram_load.image_ready /\ ram_load.crc_checked
    /\ ram_load.words = ram_load.expected_words
    /\ InLoadedRange(running)

\* A confirmed device that the host has left runs its application, or the RAM
\* application the host started last, whatever the host left half done: only a
\* Flash command still under way may first take the confirmation away, and only
\* the wait for a lock byte that the line lost, which has no deadline
\* (BootSci_ConnectFinish), keeps it from starting.
ConfirmedDeviceRecovers ==
  (~host /\ confirmed) ~> (mode \in {"FLASH_APP", "RAM_APP", "LOCKED"} \/ ~confirmed)

\* A session whose host went silent does not keep the device: the loop is
\* left by the timeout or by a jump.
SilentSessionEnds == (mode = "COMMAND" /\ ~host) ~> (mode # "COMMAND")

\* Whatever the host leaves half done, the device ends the session by itself and
\* a confirmed one starts its application (Timer 2, BootUser_CommTimeout).
DeviceComesBack == ConfirmedDeviceRecovers /\ SilentSessionEnds

=============================================================================
