---------------------------- MODULE ProtocolLink ----------------------------
(***************************************************************************)
(* One host, one device and the serial line between them: opening the      *)
(* port, the request/response transaction of the protocol clients, framing *)
(* and resynchronisation on both sides, over a line that loses or damages  *)
(* bytes and delays answers past the host's timeout.                       *)
(*                                                                         *)
(* stack says which of the repository's stacks is running:                 *)
(*   "session"   UpgradeSession, SerialTransport, BootProtocolClient and a *)
(*               FrameReader whose buffer lives as long as the session     *)
(*   "tool"      ProtocolClient over SerialIoDevice; the rest of what was  *)
(*               read with a response is dropped with the call             *)
(*   "simulator" ProtocolClient over SimulatorIoDevice, whose device side  *)
(*               is a ResyncReader                                         *)
(* The first two face the DSP's BootProtocol_Receive.                      *)
(*                                                                         *)
(* Data.  A frame is a run of cells: magic, the rest of the header, n      *)
(* cells of payload, and the payload CRC.  A CRC fails when the cells it   *)
(* covers are not those of one frame.                                      *)
(***************************************************************************)
EXTENDS Integers, Sequences, FiniteSets, FiniteSetsExt

CONSTANTS
  MaxRequests,     \* bound: requests written in a behaviour
  MaxSequence,     \* 65535 in the code
  MaxFaults,       \* bound: cells lost or damaged, and failed writes
  InfoWords,       \* payload cells of a DeviceInfo, the longest bootstrap answer
  MaxWords,        \* bound: payload cells of a request
  DeviceLimits     \* max_payload_words a device may announce, in cells

ASSUME LinkAssumption ==
  /\ MaxRequests \in Nat \ {0} /\ MaxSequence \in Nat \ {0}
  /\ MaxFaults \in Nat /\ MaxWords \in Nat /\ InfoWords \in Nat \ {0}
  /\ DeviceLimits \subseteq Nat \ {0} /\ DeviceLimits # {}
\* An answer is never so late that the sequence numbers have come round.
ASSUME LatenessAssumption == MaxRequests <= MaxSequence

Stacks == {"session", "tool", "simulator"}

\* The commands the wrappers of both clients issue.  WORK stands for all those
\* that need a discovered device; what they carry does not matter here.
Commands == {"GET_DEVICE_INFO", "GET_PROTOCOL_INFO", "WORK"}
BootstrapCommands == Commands \ {"WORK"}
RequestWords(command) == IF command = "WORK" THEN 1 .. MaxWords ELSE {0}

VARIABLES
  stack,     \* which stack runs
  limit,     \* max_payload_words of this device
  port,      \* _serial with the progress of open()
  sequence,  \* _sequence of the client
  known,     \* capabilities cached since connect
  call,      \* the running transaction, or NoCall
  outcome,   \* how the last transaction ended
  requests,  \* requests handed to the transport so far
  up,        \* cells on their way to the device
  down,      \* cells on their way to the host or in its serial port
  buffer,    \* FrameReader._buffer
  receiver,  \* the device's receive loop
  handled,   \* history: the requests that reached their command handler, in order,
             \* each with the status the handler answered
  reused,    \* history: a failed write left its sequence number to the next request
  faults     \* faults of the line and the port so far

vars == <<stack, limit, port, sequence, known, call, outcome, requests,
          up, down, buffer, receiver, handled, reused, faults>>
portVars == <<stack, limit, port>>
clientVars == <<sequence, known, call, outcome, requests, buffer, reused>>
deviceVars == <<receiver, handled>>

-----------------------------------------------------------------------------
(* Frames and cells. *)

NoFrame == [id |-> 0]
Junk == [kind |-> "junk", frame |-> NoFrame]
Cell(kind, f) == [kind |-> kind, frame |-> f]

\* encode_words: magic and header, payload, payload CRC.
Encode(f) ==
  <<Cell("magic", f), Cell("header", f)>>
    \o [i \in 1 .. f.n |-> Cell("data", f)] \o <<Cell("crc", f)>>

\* decode_frame on the first cells of s: header and payload of one frame.
Intact(s) == LET f == s[1].frame IN Len(s) >= f.n + 3 /\ SubSeq(s, 1, f.n + 3) = Encode(f)

\* Positions at which a sliding search stops: a magic that is followed by its
\* own header, or by nothing yet.
Candidates(s) ==
  {i \in 1 .. Len(s) :
     /\ s[i].kind = "magic"
     /\ i < Len(s) => s[i + 1] = Cell("header", s[i].frame)}

\* What the search leaves in the buffer.
Scanned(s) ==
  IF Candidates(s) = {} THEN <<>> ELSE SubSeq(s, Min(Candidates(s)), Len(s))

\* The announced number of payload cells has arrived, whatever they are.
Complete(s) == Len(s) >= 2 /\ Len(s) >= s[1].frame.n + 3
Oversized(s, max) == Len(s) >= 2 /\ s[1].frame.n > max
Rest(s) == SubSeq(s, s[1].frame.n + 4, Len(s))

Searching == [at |-> "magic", cells |-> <<>>]

NoCall == [id |-> 0, command |-> "WORK", sequence |-> 0, max |-> 0]
Outcome(id, how) == [id |-> id, how |-> how]

\* The status of an answer, as far as a caller can rely on it.  A handler that
\* answers ERROR may have done nothing, a part or all of its work: a failed erase
\* or program stops part-way, an append may be written and its read-back fail, and
\* a refused packet ends the transfer.  A damaged payload reaches no handler.
HandlerStatuses == {"OK", "ERROR"}
Statuses == HandlerStatuses \cup {"BAD_PAYLOAD_CRC"}

next_sequence(previous) == IF previous \in {0, MaxSequence} THEN 1 ELSE previous + 1

Init ==
  /\ stack \in Stacks /\ limit \in DeviceLimits
  /\ port = "closed"
  /\ sequence = 0 /\ known = {} /\ call = NoCall /\ outcome = Outcome(0, "none")
  /\ requests = 0
  /\ up = <<>> /\ down = <<>> /\ buffer = <<>>
  /\ receiver = Searching /\ handled = <<>> /\ reused = FALSE /\ faults = 0

-----------------------------------------------------------------------------
(* The port: SerialTransport.open, SerialIoDevice.open and wait_slave.  The *)
(* device answers autobaud only in start-up, so a new connection meets a    *)
(* receive loop that has just begun.                                        *)

\* Every connect makes a new UpgradeSession, with an empty FrameReader; its
\* connect and ProtocolClient.connect start the sequence numbers afresh.  Many
\* undisturbed transactions may have followed before the ones that are modelled.
OpenPort ==
  /\ port = "closed" /\ call = NoCall
  /\ port' = IF stack = "simulator" THEN "open" ELSE "settle"
  /\ sequence' \in {0, MaxSequence - 1} /\ known' = {} /\ buffer' = <<>>
  /\ up' = <<>> /\ down' = <<>> /\ receiver' = Searching
  /\ outcome' = Outcome(0, "none")
  /\ UNCHANGED <<stack, limit, call, requests, handled, reused, faults>>

\* 'A' is sent until it is echoed; an echo of an earlier 'A' may still follow.
Autobaud(echoes) ==
  /\ port = "autobaud"
  /\ port' = "delay"
  /\ down' = [i \in 1 .. echoes |-> Junk]
  /\ UNCHANGED <<stack, limit, clientVars, up, deviceVars, faults>>

OpenAdvances ==
  /\ \/ port = "settle" /\ port' = "autobaud"
     \/ port = "delay" /\ port' = "open"
  /\ UNCHANGED <<stack, limit, clientVars, up, down, deviceVars, faults>>

\* A timeout, an error or the cancellation token, asked between the waits, ends
\* open(); the port is closed again, and when that fails too the transport still
\* holds it.  (SerialIoDevice forgets its port either way.)
OpenFails(closes) ==
  /\ port \in {"settle", "autobaud", "delay"}
  /\ port' = IF closes \/ stack = "tool" THEN "closed" ELSE "unclosed"
  /\ UNCHANGED <<stack, limit, clientVars, up, down, deviceVars, faults>>

\* disconnect(); what the operating system had received is gone with the port.
ClosePort(closes) ==
  /\ port \in {"open", "unclosed"} /\ call = NoCall
  /\ port' = IF closes \/ stack # "session" THEN "closed" ELSE "unclosed"
  /\ down' = <<>>
  /\ UNCHANGED <<stack, limit, clientVars, up, deviceVars, faults>>

-----------------------------------------------------------------------------
(* The host: transact. *)

\* _payload_limit: before both capabilities are known only the bootstrap
\* commands may be sent; ProtocolClient has no limit of its own.
PayloadLimit(command) ==
  IF stack # "session" THEN MaxWords
  ELSE IF {"GET_DEVICE_INFO", "GET_PROTOCOL_INFO"} \subseteq known THEN limit
  ELSE IF command \notin BootstrapCommands THEN -1
  ELSE IF known = {} THEN InfoWords ELSE Min({InfoWords, limit})

Request(command, n) ==
  [id |-> requests + 1, command |-> command, sequence |-> next_sequence(sequence),
   n |-> n, status |-> "request"]

TransactRefused(command, n) ==
  /\ port = "open" /\ call = NoCall
  /\ n > PayloadLimit(command)
  /\ outcome' = Outcome(0, "limit")
  /\ UNCHANGED <<portVars, sequence, known, call, requests, up, down, buffer, reused,
                 deviceVars, faults>>

\* clear is get_device_info_debug's, which empties the port first.
Transact(command, n, clear) ==
  /\ port = "open" /\ call = NoCall /\ requests < MaxRequests
  /\ n <= PayloadLimit(command)
  /\ clear => command = "GET_DEVICE_INFO" /\ stack # "session"
  /\ LET f == Request(command, n) IN
     /\ up' = up \o Encode(f)
     /\ call' = [id |-> f.id, command |-> command, sequence |-> f.sequence,
                 max |-> PayloadLimit(command)]
     /\ sequence' = f.sequence
  /\ requests' = requests + 1
  /\ down' = IF clear THEN <<>> ELSE down
  /\ UNCHANGED <<portVars, known, outcome, buffer, reused, deviceVars, faults>>

\* write_all raises although bytes have left.  BootProtocolClient records the
\* sequence number after the write, ProtocolClient before it.
WriteFails(command, n) ==
  /\ port = "open" /\ call = NoCall /\ requests < MaxRequests /\ stack # "simulator"
  /\ n <= PayloadLimit(command)
  /\ faults < MaxFaults /\ faults' = faults + 1
  /\ LET f == Request(command, n) IN
     /\ \E sent \in {0, 2, n + 3} : up' = up \o SubSeq(Encode(f), 1, sent)
     /\ sequence' = IF stack = "session" THEN sequence ELSE f.sequence
     /\ reused' = (reused \/ stack = "session")
     /\ outcome' = Outcome(f.id, "write")
  /\ requests' = requests + 1
  /\ UNCHANGED <<portVars, known, call, down, buffer, deviceVars>>

\* The simulator answers inside the host's own write.
DeviceIsDone == stack = "simulator" => up = <<>>

\* The transaction is over; ProtocolClient forgets what else it had read.
Returns(how, rest) ==
  /\ outcome' = Outcome(call.id, how)
  /\ call' = NoCall
  /\ buffer' = IF stack = "session" THEN rest ELSE <<>>
  /\ UNCHANGED <<portVars, sequence, requests, up, reused, deviceVars, faults>>

\* Mutant: the answer of an earlier request is taken for this one's.
MutantMatches(f) == f.command = call.command

\* validate_response_sequence, then the command.
Matches(f) == f.sequence = call.sequence /\ f.command = call.command

\* decode_frame, the comparison with the request, and the status, with which
\* ProtocolStatusError is raised unless it is OK.
Verdict(b) ==
  LET f == b[1].frame IN IF ~Intact(b) \/ ~Matches(f) THEN "decode" ELSE f.status

\* read_frame: a chunk of what has arrived joins the buffer; only then is the
\* buffer looked at.  The header decides how much is awaited, or that it is too
\* much, which is raised before anything is taken out.
ReadChunk(size) ==
  /\ call # NoCall /\ size \in 1 .. Len(down) /\ DeviceIsDone
  /\ down' = SubSeq(down, size + 1, Len(down))
  /\ LET b == Scanned(buffer \o SubSeq(down, 1, size)) IN
     \/ /\ ~Oversized(b, call.max) /\ ~Complete(b)
        /\ buffer' = b
        /\ UNCHANGED <<portVars, sequence, known, call, outcome, requests, up, reused,
                       deviceVars, faults>>
     \/ /\ Oversized(b, call.max)
        /\ Returns("decode", b) /\ UNCHANGED known
     \/ /\ ~Oversized(b, call.max) /\ Complete(b)
        /\ Returns(Verdict(b), Rest(b))
        /\ known' = IF Verdict(b) = "OK" /\ call.command \in BootstrapCommands
                    THEN known \cup {call.command} ELSE known

\* The deadline passes while no complete frame has been read.
Timeout ==
  /\ call # NoCall /\ DeviceIsDone /\ (stack = "simulator" => down = <<>>)
  /\ Returns("timeout", buffer) /\ UNCHANGED <<known, down>>

-----------------------------------------------------------------------------
(* The device. *)

Reply(f, status) ==
  [f EXCEPT !.status = status,
            !.n = IF status = "OK" /\ f.command = "GET_DEVICE_INFO" THEN InfoWords ELSE 0]

\* BootProtocol_SendResponse: the answer carries command and sequence of the
\* request.  The simulator can be told to leave it out, to spoil its sequence
\* or to spoil its payload CRC.
Answer(f, status) ==
  LET words == Encode(Reply(f, status)) IN
  \/ down' = down \o words
  \/ /\ stack = "simulator"
     /\ \/ UNCHANGED down
        \/ down' = down \o Encode([Reply(f, status) EXCEPT !.sequence = next_sequence(@)])
        \/ down' = down \o [words EXCEPT ![Len(words)] = Junk]

Handled(f, status) == [id |-> f.id, status |-> status]

\* Mutant: the payload CRC is looked at after the handler was called.
MutantHandles(f, intact) ==
  \E status \in HandlerStatuses :
    /\ handled' = Append(handled, Handled(f, status))
    /\ Answer(f, IF intact THEN status ELSE "BAD_PAYLOAD_CRC")

\* A request goes to its command handler, whatever that makes of it; one with a
\* bad payload CRC is refused by the DSP and dropped by the simulator.
Handles(f, intact) ==
  \/ intact /\ \E status \in HandlerStatuses :
       handled' = Append(handled, Handled(f, status)) /\ Answer(f, status)
  \/ ~intact /\ UNCHANGED handled
     /\ \/ stack = "simulator" /\ UNCHANGED down
        \/ stack # "simulator" /\ Answer(f, "BAD_PAYLOAD_CRC")

\* BootProtocol_FindMagicBytes
DspFindsMagic ==
  /\ stack # "simulator" /\ up # <<>> /\ receiver.at = "magic"
  /\ LET found == {i \in 1 .. Len(up) : up[i].kind = "magic"} IN
     \/ /\ found = {}
        /\ up' = <<>> /\ UNCHANGED receiver
     \/ /\ found # {}
        /\ receiver' = [at |-> "header", cells |-> <<up[Min(found)]>>]
        /\ up' = SubSeq(up, Min(found) + 1, Len(up))
  /\ UNCHANGED <<portVars, clientVars, down, handled, faults>>

\* Ten header words are read before their CRC is looked at: cells of another
\* frame among them are gone when the search begins again.
DspReadsHeader ==
  /\ stack # "simulator" /\ up # <<>> /\ receiver.at = "header"
  /\ LET f == receiver.cells[1].frame IN
     receiver' = IF Head(up) = Cell("header", f) /\ f.n <= limit
                 THEN [at |-> "payload", cells |-> Append(receiver.cells, Head(up))]
                 ELSE Searching
  /\ up' = Tail(up)
  /\ UNCHANGED <<portVars, clientVars, down, handled, faults>>

\* Mutant: the receive loop keeps the frame it has handled.
MutantKeepsFrame ==
  /\ stack # "simulator" /\ up # <<>> /\ receiver.at = "payload"
  /\ up' = Tail(up)
  /\ LET cells == Append(receiver.cells, Head(up)) IN
     /\ receiver' = [receiver EXCEPT !.cells = cells]
     /\ IF Complete(cells) THEN Handles(cells[1].frame, Intact(cells))
        ELSE UNCHANGED <<down, handled>>
  /\ UNCHANGED <<portVars, clientVars, faults>>

\* payload_words words and the CRC are read, whatever frame they belong to.
DspReadsPayload ==
  /\ stack # "simulator" /\ up # <<>> /\ receiver.at = "payload"
  /\ up' = Tail(up)
  /\ LET cells == Append(receiver.cells, Head(up))  f == cells[1].frame IN
     \/ /\ ~Complete(cells)
        /\ receiver' = [receiver EXCEPT !.cells = cells]
        /\ UNCHANGED <<down, handled>>
     \/ /\ Complete(cells)
        /\ Handles(f, Intact(cells))
        /\ receiver' = Searching
  /\ UNCHANGED <<portVars, clientVars, faults>>

\* ResyncReader.feed and SimulatorIoDevice.write_word: a candidate that turns
\* out bad is given up word by word, so nothing behind it is lost.
SimulatorReads ==
  /\ stack = "simulator" /\ up # <<>>
  /\ up' = Tail(up)
  /\ LET cells == Scanned(Append(receiver.cells, Head(up))) IN
     \/ /\ Oversized(cells, limit)
        /\ receiver' = [receiver EXCEPT !.cells = Scanned(Tail(cells))]
        /\ UNCHANGED <<down, handled>>
     \/ /\ ~Complete(cells) /\ ~Oversized(cells, limit)
        /\ receiver' = [receiver EXCEPT !.cells = cells]
        /\ UNCHANGED <<down, handled>>
     \/ /\ Complete(cells) /\ ~Oversized(cells, limit)
        /\ receiver' = [receiver EXCEPT !.cells = Scanned(Rest(cells))]
        /\ Handles(cells[1].frame, Intact(cells))
  /\ UNCHANGED <<portVars, clientVars, faults>>

-----------------------------------------------------------------------------
(* The line: a cell is lost or damaged on its way. *)

Remove(s, i) == SubSeq(s, 1, i - 1) \o SubSeq(s, i + 1, Len(s))

LineFault ==
  /\ faults < MaxFaults /\ stack # "simulator"
  /\ faults' = faults + 1
  /\ \/ \E i \in 1 .. Len(up) :
          /\ up' \in {Remove(up, i), [up EXCEPT ![i] = Junk]}
          /\ UNCHANGED down
     \/ \E i \in 1 .. Len(down) :
          /\ down' \in {Remove(down, i), [down EXCEPT ![i] = Junk]}
          /\ UNCHANGED up
  /\ UNCHANGED <<portVars, clientVars, deviceVars>>

PortSteps ==
  \/ OpenPort \/ OpenAdvances
  \/ \E echoes \in 0 .. 1 : Autobaud(echoes)
  \/ \E closes \in BOOLEAN : OpenFails(closes) \/ ClosePort(closes)

HostSteps ==
  \/ \E command \in Commands : \E n \in RequestWords(command) :
       \/ TransactRefused(command, n) \/ WriteFails(command, n)
       \/ \E clear \in BOOLEAN : Transact(command, n, clear)
  \/ \E size \in {1, Len(down)} : ReadChunk(size)
  \/ Timeout

DeviceSteps == DspFindsMagic \/ DspReadsHeader \/ DspReadsPayload \/ SimulatorReads

Next == PortSteps \/ HostSteps \/ DeviceSteps \/ LineFault

Spec == Init /\ [][Next]_vars

-----------------------------------------------------------------------------
(* Properties. *)

Frames == [id : 1 .. MaxRequests, command : Commands, sequence : 1 .. MaxSequence,
           n : 0 .. MaxWords + InfoWords,
           status : {"request"} \cup Statuses]
Cells == [kind : {"magic", "header", "data", "crc"}, frame : Frames] \cup {Junk}
IsSeq(s, S) == \A i \in 1 .. Len(s) : s[i] \in S

TypeOK ==
  /\ stack \in Stacks /\ limit \in DeviceLimits
  /\ port \in {"closed", "settle", "autobaud", "delay", "open", "unclosed"}
  /\ sequence \in 0 .. MaxSequence /\ known \subseteq Commands
  /\ requests \in 0 .. MaxRequests /\ faults \in 0 .. MaxFaults /\ reused \in BOOLEAN
  /\ call = NoCall \/ call.id \in 1 .. requests
  /\ outcome.how \in {"none", "limit", "write", "decode", "timeout"} \cup Statuses
  /\ IsSeq(up, Cells) /\ IsSeq(down, Cells) /\ IsSeq(buffer, Cells)
  /\ receiver.at \in {"magic", "header", "payload"} /\ IsSeq(receiver.cells, Cells)

HasHandled(id, status) == \E i \in DOMAIN handled : handled[i] = [id |-> id, status |-> status]

\* A transaction that succeeds was carried out: late answers, answers to damaged
\* requests and leftovers in the buffer are never taken for its own.
\* (After a failed write BootProtocolClient repeats the sequence number, and
\* nothing tells the two requests apart: that case is left out.)
ResponseIsOwn ==
  ~reused /\ outcome.how = "OK" => HasHandled(outcome.id, "OK")

\* An error the caller is told of is its own request's: an error of a handler is
\* what that request's handler answered, not a late error of an earlier one; and
\* when the payload is reported damaged, no handler has seen the request.  (Only in
\* the second case may the caller conclude that nothing was done.)
ErrorIsOwn ==
  ~reused =>
    /\ outcome.how = "ERROR" => HasHandled(outcome.id, "ERROR")
    /\ outcome.how = "BAD_PAYLOAD_CRC" =>
         \A i \in DOMAIN handled : handled[i].id # outcome.id

\* Requests reach their handlers in the order they were written, each at most
\* once, whatever the line does to them and however the device's search resumes.
HandledInOrder ==
  \A i, j \in DOMAIN handled : i < j => handled[i].id < handled[j].id

\* BootProtocolClient never sends what the device would have to drop unanswered:
\* the limit it uses is never above the one the device announces, except for
\* commands without payload.
NeverOversized ==
  stack = "session" => \A i \in DOMAIN up : up[i].frame.id # 0 => up[i].frame.n <= limit

\* What the client is told and what it sends is sound: the errors it reports are its
\* own, and no request is one the device must drop (transact, _payload_limit).
LinkInv == TypeOK /\ ErrorIsOwn /\ NeverOversized

=============================================================================
