------------------------- MODULE UpgradeToolsProofs -------------------------
(***************************************************************************)
(* What the tools print is true, and an image on record is in Flash, for   *)
(* every set of images, size of the service and journal, attempt limit and *)
(* number of lost exchanges and power losses.                              *)
(*                                                                         *)
(* A tool is a list of steps still to be taken, which decisions extend.    *)
(* Most steps may be taken at any time.  Some rest on the one before them: *)
(* the packets of a transfer on those already sent, IMAGE_VALID on the     *)
(* VERIFY that precedes it, the erase of an application on the erase of    *)
(* its record, a decision on the summary just read.  The invariant says    *)
(* that in the list every such step follows one that provides for it, and  *)
(* that what the first step rests on is true of the device.                *)
(***************************************************************************)
EXTENDS UpgradeTools, SimulatorProofs, SequenceTheorems

-----------------------------------------------------------------------------
(* Steps. *)

Askers == {"client", "workflow", "modify", "verify", "dfu"}
Deciders == {"service?", "attached?", "flash?", "flash", "attempt?", "send_run", "confirmable?",
             "confirm", "confirmed?", "verified?", "runnable?", "flashed"}
TransferCommands == {"BEGIN", "DATA", "END"}
Commands == Reads \cup TransferCommands
              \cup {"none", "ERASE", "METADATA_APPEND_RECORD", "RAM_CHECK_CRC", "SERVICE_ATTACH",
                    "RUN", "RUN_RAM"}
Requests == [command : Commands, image : SessionImages, index : Nat,
             type : RecordTypes \cup Transfers \cup {"none"}, sectors : SUBSET Sectors]
Steps == [do : Askers \cup Deciders, q : Requests]

\* The requests the tools make.
Shape(x) ==
  /\ x \in Steps
  /\ x.do \in Deciders <=> x.q.command = "none"
  /\ x.q.command \in TransferCommands =>
       /\ x.q.type \in Transfers
       /\ x.q.image \in IF x.q.type = "RAM_LOAD" THEN {Service, RamApp} ELSE Images
  /\ x.q.command = "DATA" => x.q.index < Packets(x.q.image)
  /\ x.q.command = "METADATA_APPEND_RECORD" =>
       /\ x.q.type \in RecordTypes
       /\ x.q.image \in IF x.q.type = "IMAGE_VALID" THEN Images ELSE Images \cup {None}
  /\ x.q.command \notin TransferCommands \cup {"METADATA_APPEND_RECORD"} => x.q.type = "none"
  /\ x.q.command = "ERASE" \/ x.q.type = "PROGRAM" => x.do = "modify"
  /\ x.q.type = "VERIFY" <=> x.do = "verify"

Publishes(x) == x.q.command = "METADATA_APPEND_RECORD" /\ x.q.type = "IMAGE_VALID"
Attempts(x) == x.q.command = "METADATA_APPEND_RECORD" /\ x.q.type = "BOOT_ATTEMPT"
Erases(x) == x.q.command = "ERASE"
ErasesApp(x) == Erases(x) /\ "app" \in x.q.sectors
\* The decisions that act on the summary as it is now.
FreshDos == {"flash?", "attempt?", "confirmed?"}

\* A step that rests on nothing.  hand: the user chooses the sectors to erase.
Free(hand, x) ==
  /\ x.q.command \notin {"DATA", "END"} /\ ~Publishes(x) /\ x.do \notin FreshDos
  /\ ErasesApp(x) => hand

SameTransfer(x, y) == x.q.type = y.q.type /\ x.q.image = y.q.image

\* y may follow x because x provides what y rests on.
Gives(x, y) ==
  \/ /\ y.q.command = "DATA" /\ SameTransfer(x, y)
     /\ \/ x.q.command = "BEGIN" /\ y.q.index = 0
        \/ x.q.command = "DATA" /\ y.q.index = x.q.index + 1
  \/ /\ y.q.command = "END" /\ SameTransfer(x, y)
     /\ x.q.command = "DATA" /\ x.q.index + 1 = Packets(y.q.image)
  \/ Publishes(y) /\ x.q.command = "END" /\ x.q.type = "VERIFY" /\ x.q.image = y.q.image
  \/ ErasesApp(y) /\ Erases(x) /\ "metadata" \in x.q.sectors
  \/ y.do \in FreshDos /\ x.q.command = "GET_METADATA_SUMMARY"
  \/ y.do = "attempt?" /\ x.do = "flash?"

Link(hand, x, y) == Free(hand, y) \/ Gives(x, y)

Chain(hand, s) ==
  /\ s \in Seq(Steps)
  /\ \A p \in 1 .. Len(s) : Shape(s[p])
  /\ \A p \in 1 .. Len(s) - 1 : Link(hand, s[p], s[p + 1])

HoldsIn(flash, image, n) == \A a \in 1 .. n : flash[a] = image

\* What step x rests on is true of device d and of the summary s read last.
Need(hand, x, d, s) ==
  /\ x.q.command = "DATA" =>
       /\ d.session[x.q.type] \in {NoSession, [image |-> x.q.image, index |-> x.q.index]}
       /\ x.q.type = "VERIFY" => HoldsIn(d.flash, x.q.image, x.q.index)
  /\ x.q.command = "END" =>
       /\ d.session[x.q.type] \in {NoSession, [image |-> x.q.image, index |-> Packets(x.q.image)]}
       /\ x.q.type = "VERIFY" => HoldsIn(d.flash, x.q.image, x.q.image)
  /\ Publishes(x) => HoldsIn(d.flash, x.q.image, x.q.image)
  /\ ErasesApp(x) /\ ~hand => d.journal = <<>>
  /\ x.do \in FreshDos => s = Summary(d)

-----------------------------------------------------------------------------
(* The inductive invariant. *)

Summaries == [image : Images \cup {None}, attempts : Nat, confirmed : BOOLEAN]
ToolType ==
  [name : Tools, image : Images \cup {None}, force : BOOLEAN, todo : Seq(Steps),
   summary : Summaries, matches : BOOLEAN, flashed : BOOLEAN, attempted : BOOLEAN,
   changed : BOOLEAN]

ListInv(t, d) ==
  /\ Chain(t.name \in ByHand, t.todo)
  /\ t.todo # <<>> => Need(t.name \in ByHand, t.todo[1], d, t.summary)

\* Steps that publish an image, now or when they unfold; whatever erases is
\* followed by one.
Pub(x) == x.do \in {"flash?", "flash"} \/ Publishes(x)
HasPub(s) == \E p \in 1 .. Len(s) : Pub(s[p])
Covered(s) == \A p \in 1 .. Len(s) : Erases(s[p]) => \E r \in p + 1 .. Len(s) : Pub(s[r])
PubOnly(s, image) == \A p \in 1 .. Len(s) : Publishes(s[p]) => s[p].q.image = image
NoFlash(s) == \A p \in 1 .. Len(s) : s[p].do \notin {"flash?", "flash"}

PublishInv(t, d) ==
  /\ t.name \in {"flash", "upgrade", "verify"} =>
       /\ t.image \in Images /\ Covered(t.todo) /\ PubOnly(t.todo, t.image)
       /\ Summary(d).image = t.image \/ HasPub(t.todo)
  /\ t.name \notin {"flash", "upgrade"} => NoFlash(t.todo)

\* Steps that leave the records alone.
Harmless(x) ==
  /\ x.do \notin {"flash?", "flash", "attempt?", "confirm", "runnable?"}
  /\ x.q.command \notin {"ERASE", "METADATA_APPEND_RECORD"}
Calm(s) == \A p \in 1 .. Len(s) : Harmless(s[p])

\* An attempt is spent once: until "attempt?", the last step but one, none is;
\* then BOOT_ATTEMPT is the last step but one; then nothing writes a record.
NoBoot(s) == \A p \in 1 .. Len(s) : ~Attempts(s[p]) /\ s[p].do # "runnable?"
AttemptLate(s) == \A p \in 1 .. Len(s) : s[p].do = "attempt?" => p = Len(s) - 1
NoAttempt(s) == \A p \in 1 .. Len(s) : s[p].do # "attempt?"
Boot(s, image) ==
  /\ Len(s) > 1
  /\ \A p \in 1 .. Len(s) : IF p = Len(s) - 1 THEN Attempts(s[p]) /\ s[p].q.image = image
                            ELSE Harmless(s[p])

AttemptInv(t, d) ==
  /\ t.name \notin {"run", "upgrade"} => NoAttempt(t.todo) /\ ~t.attempted
  /\ t.name \in {"run", "upgrade"} /\ ~t.attempted => AttemptLate(t.todo) /\ NoBoot(t.todo)
  /\ t.attempted =>
       \/ Calm(t.todo) /\ Summary(d).attempts = 1
       \/ /\ Boot(t.todo, Summary(d).image) /\ Summary(d).image # None
          /\ Summary(d).attempts = 0 /\ ~Summary(d).confirmed

\* The last step of a tool that runs or confirms an image, and what it leaves.
Concludes(x, name) ==
  CASE name \in {"run", "upgrade"} -> x.do = "send_run" \/ x.q.command = "RUN"
    [] name \in {"confirm", "app_confirm_probe"} -> x.do = "confirmed?"
    [] OTHER -> TRUE
Concluded(name, d) ==
  CASE name \in {"run", "upgrade"} -> Summary(d).confirmed \/ Summary(d).attempts > 0
    [] name \in {"confirm", "app_confirm_probe"} -> Summary(d).confirmed /\ Summary(d).attempts > 0
    [] OTHER -> TRUE
EndInv(t, d) ==
  IF t.todo = <<>> THEN Concluded(t.name, d) ELSE Concludes(t.todo[Len(t.todo)], t.name)

ToolInv(t, d) ==
  t \in ToolType /\ ListInv(t, d) /\ PublishInv(t, d) /\ AttemptInv(t, d) /\ EndInv(t, d)

WorkflowType == [state : {"READY", "UNKNOWN"}, modified : BOOLEAN, verified : BOOLEAN]

IInv ==
  /\ DeviceInv(device) /\ workflow \in WorkflowType /\ lost \in 0 .. MaxLost /\ stale \in BOOLEAN
  /\ tool # NoTool => ToolInv(tool, device) /\ report = NoReport
  /\ TrustIsEarned /\ ReportHolds /\ FlagsHold

-----------------------------------------------------------------------------
(* Lists of steps. *)

\* A list that may be begun at any time.
Routine(hand, s) == Chain(hand, s) /\ (s # <<>> => Free(hand, s[1]))

LEMMA NoSteps ==
  ASSUME NEW s \in Seq(Steps)
  PROVE  s = <<>> <=> Len(s) = 0
OBVIOUS

LEMMA TailSteps ==
  ASSUME NEW s \in Seq(Steps), s # <<>>
  PROVE  /\ Tail(s) \in Seq(Steps) /\ Len(Tail(s)) = Len(s) - 1 /\ Len(s) \in Nat /\ Len(s) > 0
         /\ \A p \in 1 .. Len(s) - 1 : Tail(s)[p] = s[p + 1]
         /\ Tail(s) # <<>> <=> Len(s) > 1
         /\ Head(s) = s[1]
<1>1. Len(s) \in Nat /\ Len(s) > 0 /\ Head(s) = s[1]
  OBVIOUS
<1>2. Tail(s) \in Seq(Steps) /\ Len(Tail(s)) = Len(s) - 1
  OBVIOUS
<1>3. \A p \in 1 .. Len(s) - 1 : Tail(s)[p] = s[p + 1]
  OBVIOUS
<1>4. Tail(s) # <<>> <=> Len(s) > 1
  <2>1. PICK t \in Seq(Steps) : t = Tail(s) BY <1>2
  <2>2. t = <<>> <=> Len(t) = 0 BY NoSteps
  <2> QED BY <1>1, <1>2, <2>1, <2>2, SMTT(40)
<1> QED BY <1>1, <1>2, <1>3, <1>4

LEMMA JoinedSteps ==
  ASSUME NEW s \in Seq(Steps), NEW t \in Seq(Steps)
  PROVE  /\ s \o t \in Seq(Steps) /\ Len(s) \in Nat /\ Len(t) \in Nat
         /\ Len(s \o t) = Len(s) + Len(t)
         /\ \A p \in 1 .. Len(s) : (s \o t)[p] = s[p]
         /\ \A p \in 1 .. Len(t) : (s \o t)[Len(s) + p] = t[p]
         /\ \A p \in 1 .. Len(s \o t) :
              \/ p \in 1 .. Len(s) /\ (s \o t)[p] = s[p]
              \/ \E r \in 1 .. Len(t) : p = Len(s) + r /\ (s \o t)[p] = t[r]
         /\ s = <<>> <=> Len(s) = 0
         /\ t = <<>> <=> Len(t) = 0
         /\ s = <<>> => s \o t = t
         /\ t = <<>> => s \o t = s
<1>1. /\ s \o t \in Seq(Steps) /\ Len(s) \in Nat /\ Len(t) \in Nat
      /\ Len(s \o t) = Len(s) + Len(t)
  OBVIOUS
<1>2. \A p \in 1 .. Len(s \o t) : (s \o t)[p] = IF p <= Len(s) THEN s[p] ELSE t[p - Len(s)]
  OBVIOUS
<1>3. \A p \in 1 .. Len(s) : (s \o t)[p] = s[p]
  BY <1>1, <1>2
<1>4. \A p \in 1 .. Len(t) : (s \o t)[Len(s) + p] = t[p]
  <2> SUFFICES ASSUME NEW p \in 1 .. Len(t) PROVE (s \o t)[Len(s) + p] = t[p] OBVIOUS
  <2>1. Len(s) + p \in 1 .. Len(s \o t) /\ ~(Len(s) + p <= Len(s)) /\ (Len(s) + p) - Len(s) = p
    BY <1>1
  <2> QED BY <1>2, <2>1
<1>5. ASSUME NEW p \in 1 .. Len(s \o t)
      PROVE  \/ p \in 1 .. Len(s) /\ (s \o t)[p] = s[p]
             \/ \E r \in 1 .. Len(t) : p = Len(s) + r /\ (s \o t)[p] = t[r]
  <2>1. CASE p <= Len(s) BY <1>1, <1>2, <2>1
  <2>2. CASE ~(p <= Len(s))
    <3>1. p - Len(s) \in 1 .. Len(t) /\ p = Len(s) + (p - Len(s)) BY <1>1, <2>2
    <3> QED BY <1>2, <2>2, <3>1
  <2> QED BY <2>1, <2>2
<1>6. (s = <<>> <=> Len(s) = 0) /\ (t = <<>> <=> Len(t) = 0)
  OBVIOUS
<1>7. s = <<>> => s \o t = t
  BY <1>1
<1>8. t = <<>> => s \o t = s
  BY <1>1
<1> QED BY <1>1, <1>3, <1>4, <1>5, <1>6, <1>7, <1>8

\* u is s followed by t.
IsJoin(u, s, t) ==
  /\ u \in Seq(Steps) /\ Len(u) = Len(s) + Len(t)
  /\ \A p \in 1 .. Len(s) : u[p] = s[p]
  /\ \A p \in 1 .. Len(t) : u[Len(s) + p] = t[p]
  /\ \A p \in 1 .. Len(u) :
       \/ p \in 1 .. Len(s) /\ u[p] = s[p]
       \/ \E r \in 1 .. Len(t) : p = Len(s) + r /\ u[p] = t[r]

LEMMA Joined ==
  ASSUME NEW s \in Seq(Steps), NEW t \in Seq(Steps), NEW u, u = s \o t
  PROVE  IsJoin(u, s, t)
BY JoinedSteps DEF IsJoin

LEMMA OneStep ==
  ASSUME NEW x \in Steps
  PROVE  <<x>> \in Seq(Steps) /\ Len(<<x>>) = 1 /\ <<x>>[1] = x /\ <<x>> # <<>>
OBVIOUS

\* What is left of a chain, and two chains one after the other.
LEMMA ChainTail ==
  ASSUME NEW hand, NEW s, Chain(hand, s), s # <<>>
  PROVE  /\ Chain(hand, Tail(s)) /\ Shape(s[1])
         /\ Tail(s) # <<>> => Link(hand, s[1], Tail(s)[1])
<1>1. s \in Seq(Steps) BY DEF Chain
<1>2. /\ Tail(s) \in Seq(Steps) /\ Len(Tail(s)) = Len(s) - 1 /\ Len(s) \in Nat /\ Len(s) > 0
      /\ \A p \in 1 .. Len(s) - 1 : Tail(s)[p] = s[p + 1]
      /\ Tail(s) # <<>> <=> Len(s) > 1
  BY <1>1, TailSteps
<1>3. Shape(s[1]) BY <1>2 DEF Chain
<1>4. \A p \in 1 .. Len(Tail(s)) : Shape(Tail(s)[p])
  <2> SUFFICES ASSUME NEW p \in 1 .. Len(Tail(s)) PROVE Shape(Tail(s)[p]) OBVIOUS
  <2>1. p \in 1 .. Len(s) - 1 /\ p + 1 \in 1 .. Len(s) BY <1>2
  <2> QED BY <1>2, <2>1 DEF Chain
<1>5. \A p \in 1 .. Len(Tail(s)) - 1 : Link(hand, Tail(s)[p], Tail(s)[p + 1])
  <2> SUFFICES ASSUME NEW p \in 1 .. Len(Tail(s)) - 1 PROVE Link(hand, Tail(s)[p], Tail(s)[p + 1])
    OBVIOUS
  <2>1. /\ p \in 1 .. Len(s) - 1 /\ p + 1 \in 1 .. Len(s) - 1 BY <1>2
  <2>2. Link(hand, s[p + 1], s[(p + 1) + 1]) BY <2>1 DEF Chain
  <2> QED BY <1>2, <2>1, <2>2
<1>6. Tail(s) # <<>> => Link(hand, s[1], Tail(s)[1])
  <2> SUFFICES ASSUME Tail(s) # <<>> PROVE Link(hand, s[1], Tail(s)[1]) OBVIOUS
  <2>1. 1 \in 1 .. Len(s) - 1 BY <1>2
  <2>2. Link(hand, s[1], s[1 + 1]) BY <2>1 DEF Chain
  <2> QED BY <1>2, <2>1, <2>2
<1> QED BY <1>2, <1>3, <1>4, <1>5, <1>6 DEF Chain

LEMMA ChainJoin ==
  ASSUME NEW hand, NEW s, NEW t, Chain(hand, s), Chain(hand, t),
         s # <<>> /\ t # <<>> => Link(hand, s[Len(s)], t[1])
  PROVE  Chain(hand, s \o t)
<1>0. s \in Seq(Steps) /\ t \in Seq(Steps) BY DEF Chain
<1>1. /\ s \o t \in Seq(Steps) /\ Len(s) \in Nat /\ Len(t) \in Nat
      /\ Len(s \o t) = Len(s) + Len(t)
      /\ \A p \in 1 .. Len(s) : (s \o t)[p] = s[p]
      /\ \A p \in 1 .. Len(t) : (s \o t)[Len(s) + p] = t[p]
      /\ \A p \in 1 .. Len(s \o t) :
              \/ p \in 1 .. Len(s) /\ (s \o t)[p] = s[p]
              \/ \E r \in 1 .. Len(t) : p = Len(s) + r /\ (s \o t)[p] = t[r]
      /\ s = <<>> <=> Len(s) = 0
      /\ t = <<>> <=> Len(t) = 0
  BY <1>0, JoinedSteps, Zenon
<1>2. \A p \in 1 .. Len(s \o t) : Shape((s \o t)[p])
  BY <1>1, Zenon DEF Chain
<1>3. ASSUME NEW p \in 1 .. Len(s \o t) - 1
      PROVE  Link(hand, (s \o t)[p], (s \o t)[p + 1])
  <2>1. CASE p < Len(s)
    <3>1. p \in 1 .. Len(s) /\ p + 1 \in 1 .. Len(s) /\ p \in 1 .. Len(s) - 1 BY <1>1, <2>1
    <3> QED BY <1>1, <3>1 DEF Chain
  <2>2. CASE p = Len(s)
    <3>1. p \in 1 .. Len(s) /\ 1 \in 1 .. Len(t) /\ p + 1 = Len(s) + 1 /\ s # <<>> /\ t # <<>>
      BY <1>1, <2>2
    <3> QED BY <1>1, <2>2, <3>1
  <2>3. CASE p > Len(s)
    <3>1. PICK r \in 1 .. Len(t) - 1 : p = Len(s) + r
      <4>1. p - Len(s) \in 1 .. Len(t) - 1 /\ p = Len(s) + (p - Len(s)) BY <1>1, <2>3
      <4> QED BY <4>1
    <3>2. r \in 1 .. Len(t) /\ r + 1 \in 1 .. Len(t) /\ p + 1 = Len(s) + (r + 1) BY <1>1, <3>1
    <3>3. (s \o t)[p] = t[r] /\ (s \o t)[p + 1] = t[r + 1] BY <1>1, <3>1, <3>2
    <3>4. Link(hand, t[r], t[r + 1]) BY <3>1 DEF Chain
    <3> QED BY <3>3, <3>4
  <2> QED BY <1>1, <2>1, <2>2, <2>3, SMTT(40)
<1> QED BY <1>1, <1>2, <1>3 DEF Chain

LEMMA ScriptJoin ==
  ASSUME NEW hand, NEW s, NEW t, Routine(hand, s), Routine(hand, t)
  PROVE  Routine(hand, s \o t) /\ (Calm(s) /\ Calm(t) => Calm(s \o t))
<1>0. s \in Seq(Steps) /\ t \in Seq(Steps) BY DEF Routine, Chain
<1>1. Chain(hand, s \o t) BY ChainJoin DEF Routine, Link
<1>2. /\ Len(s) \in Nat /\ Len(t) \in Nat /\ Len(s \o t) = Len(s) + Len(t)
      /\ \A p \in 1 .. Len(s) : (s \o t)[p] = s[p]
      /\ \A p \in 1 .. Len(s \o t) :
              \/ p \in 1 .. Len(s) /\ (s \o t)[p] = s[p]
              \/ \E r \in 1 .. Len(t) : p = Len(s) + r /\ (s \o t)[p] = t[r]
      /\ s = <<>> <=> Len(s) = 0
      /\ s = <<>> => s \o t = t
  BY <1>0, JoinedSteps, Zenon
<1>3. s \o t # <<>> => Free(hand, (s \o t)[1])
  <2>1. CASE s = <<>> BY <1>2, <2>1 DEF Routine
  <2>2. CASE s # <<>>
    <3>1. 1 \in 1 .. Len(s) BY <1>2, <2>2
    <3> QED BY <1>2, <2>2, <3>1 DEF Routine
  <2> QED BY <2>1, <2>2
<1>4. Calm(s) /\ Calm(t) => Calm(s \o t) BY <1>2, Zenon DEF Calm
<1> QED BY <1>1, <1>3, <1>4 DEF Routine

LEMMA SingleStep ==
  ASSUME NEW hand, NEW x, Shape(x)
  PROVE  /\ Chain(hand, <<x>>) /\ (Free(hand, x) => Routine(hand, <<x>>))
         /\ Harmless(x) => Calm(<<x>>)
<1>1. x \in Steps BY DEF Shape
<1>2. <<x>> \in Seq(Steps) /\ Len(<<x>>) = 1 /\ <<x>>[1] = x BY <1>1, OneStep
<1>3. \A p \in 1 .. Len(<<x>>) : p = 1 BY <1>2
<1>4. \A p \in 1 .. Len(<<x>>) - 1 : FALSE BY <1>2
<1>5. Chain(hand, <<x>>) BY <1>2, <1>3, <1>4 DEF Chain
<1> QED BY <1>2, <1>3, <1>5 DEF Routine, Calm

-----------------------------------------------------------------------------
(* The pieces scripts are made of. *)

LEMMA ReqType ==
  ASSUME NEW command \in Commands, NEW image \in SessionImages
  PROVE  /\ Req(command, image) \in Requests
         /\ Req(command, image).command = command /\ Req(command, image).image = image
         /\ Req(command, image).type = "none" /\ Req(command, image).index = 0
         /\ Req(command, image).sectors = {}
BY DEF Req, Requests

LEMMA DoPiece ==
  ASSUME NEW hand, NEW what \in Deciders
  PROVE  /\ Chain(hand, Do(what)) /\ Len(Do(what)) = 1 /\ Do(what) # <<>>
         /\ Do(what)[1].do = what /\ Do(what)[1].q.command = "none" /\ Do(what)[1].q.type = "none"
         /\ what \notin FreshDos => Routine(hand, Do(what))
         /\ what \notin {"flash?", "flash", "attempt?", "confirm", "runnable?"} => Calm(Do(what))
<1>1. PICK x : x = [do |-> what, q |-> NoReq] OBVIOUS
<1>2. NoReq \in Requests /\ NoReq.command = "none" /\ NoReq.type = "none"
  <2>1. "none" \in Commands /\ None \in SessionImages BY DEF Commands, SessionImages
  <2> QED BY <2>1, ReqType DEF NoReq
<1>3. x \in Steps /\ x.do = what /\ x.q = NoReq BY <1>1, <1>2 DEF Steps
<1>4. Shape(x)
  BY <1>2, <1>3 DEF Shape, Deciders, TransferCommands
<1>5. Do(what) = <<x>> BY <1>1 DEF Do
<1>6. what \notin FreshDos => Free(hand, x)
  BY <1>2, <1>3 DEF Free, Publishes, ErasesApp, Erases
<1>7. what \notin {"flash?", "flash", "attempt?", "confirm", "runnable?"} => Harmless(x)
  BY <1>2, <1>3 DEF Harmless
<1> QED BY <1>2, <1>3, <1>4, <1>5, <1>6, <1>7, OneStep, SingleStep

Plain == Reads \cup {"RAM_CHECK_CRC", "SERVICE_ATTACH", "RUN", "RUN_RAM"}

LEMMA AskPiece ==
  ASSUME NEW hand, NEW by \in {"client", "workflow"}, NEW command \in Plain,
         NEW image \in SessionImages, NEW s, s = Ask(by, Req(command, image))
  PROVE  /\ Routine(hand, s) /\ Calm(s) /\ Len(s) = 1 /\ s # <<>>
         /\ s[1].do = by /\ s[1].q.command = command
<1>0. command \in Commands /\ command \notin {"none", "BEGIN", "DATA", "END", "ERASE", "METADATA_APPEND_RECORD"}
  BY DEF Plain, Commands, Reads
<1>1. PICK x : x = [do |-> by, q |-> Req(command, image)] OBVIOUS
<1>2. Req(command, image) \in Requests /\ Req(command, image).command = command
      /\ Req(command, image).type = "none"
  BY <1>0, ReqType
<1>3. x \in Steps /\ x.do = by /\ x.q = Req(command, image) BY <1>1, <1>2 DEF Steps, Askers
<1>4. Shape(x)
  BY <1>0, <1>2, <1>3 DEF Shape, Deciders, TransferCommands
<1>5. s = <<x>> BY <1>1 DEF Ask
<1>6. Free(hand, x) BY <1>0, <1>2, <1>3 DEF Free, Publishes, ErasesApp, Erases, FreshDos
<1>7. Harmless(x) BY <1>0, <1>2, <1>3 DEF Harmless
<1> QED BY <1>2, <1>3, <1>4, <1>5, <1>6, <1>7, OneStep, SingleStep

LEMMA ClientPiece ==
  ASSUME NEW hand, NEW command \in Plain, NEW image \in SessionImages
  PROVE  /\ Routine(hand, Client(command, image)) /\ Calm(Client(command, image))
         /\ Len(Client(command, image)) = 1 /\ Client(command, image) # <<>>
         /\ Client(command, image)[1].do = "client"
         /\ Client(command, image)[1].q.command = command
<1>1. PICK s : s = Ask("client", Req(command, image)) OBVIOUS
<1>2. /\ Routine(hand, s) /\ Calm(s) /\ Len(s) = 1 /\ s # <<>>
      /\ s[1].do = "client" /\ s[1].q.command = command
  BY <1>1, AskPiece
<1> QED BY <1>1, <1>2 DEF Client

LEMMA ErasePiece ==
  ASSUME NEW hand, NEW sectors \in SUBSET Sectors
  PROVE  /\ Chain(hand, erase(sectors)) /\ Len(erase(sectors)) = 1 /\ erase(sectors) # <<>>
         /\ Erases(erase(sectors)[1]) /\ erase(sectors)[1].q.sectors = sectors
         /\ erase(sectors)[1].do = "modify" /\ erase(sectors)[1].q.type = "none"
         /\ "app" \notin sectors \/ hand => Routine(hand, erase(sectors))
<1>0. "ERASE" \in Commands /\ None \in SessionImages BY DEF Commands, SessionImages
<1>1. PICK q : q = [Req("ERASE", None) EXCEPT !.sectors = sectors] OBVIOUS
<1>2. q \in Requests /\ q.command = "ERASE" /\ q.type = "none" /\ q.sectors = sectors
  BY <1>0, <1>1, ReqType DEF Requests
<1>3. PICK x : x = [do |-> "modify", q |-> q] OBVIOUS
<1>4. x \in Steps /\ x.do = "modify" /\ x.q = q BY <1>2, <1>3 DEF Steps, Askers
<1>5. Shape(x) BY <1>2, <1>4 DEF Shape, Deciders, TransferCommands
<1>6. erase(sectors) = <<x>> BY <1>1, <1>3 DEF erase, Ask
<1>7. "app" \notin sectors \/ hand => Free(hand, x)
  BY <1>2, <1>4 DEF Free, Publishes, ErasesApp, Erases, FreshDos
<1> QED BY <1>2, <1>4, <1>5, <1>6, <1>7, OneStep, SingleStep DEF Erases

LEMMA AppendPiece ==
  ASSUME NEW hand, NEW by \in {"client", "dfu"}, NEW type \in RecordTypes,
         NEW image \in Images \cup {None}, type = "IMAGE_VALID" => image \in Images,
         NEW s, s = Append_(by, type, image)
  PROVE  /\ Chain(hand, s) /\ Len(s) = 1 /\ s # <<>> /\ s[1].do = by
         /\ s[1].q.command = "METADATA_APPEND_RECORD" /\ s[1].q.type = type /\ s[1].q.image = image
         /\ type # "IMAGE_VALID" => Routine(hand, s)
<1>0. "METADATA_APPEND_RECORD" \in Commands /\ image \in SessionImages BY DEF Commands, SessionImages
<1>1. PICK q : q = [Req("METADATA_APPEND_RECORD", image) EXCEPT !.type = type] OBVIOUS
<1>2. q \in Requests /\ q.command = "METADATA_APPEND_RECORD" /\ q.type = type /\ q.image = image
  BY <1>0, <1>1, ReqType DEF Requests
<1>3. PICK x : x = [do |-> by, q |-> q] OBVIOUS
<1>4. x \in Steps /\ x.do = by /\ x.q = q BY <1>2, <1>3 DEF Steps, Askers
<1>5. Shape(x) BY <1>2, <1>4 DEF Shape, Deciders, TransferCommands, RecordTypes
<1>6. s = <<x>> BY <1>1, <1>3 DEF Append_, Ask
<1>7. type # "IMAGE_VALID" => Free(hand, x)
  BY <1>2, <1>4 DEF Free, Publishes, ErasesApp, Erases, FreshDos
<1> QED BY <1>2, <1>4, <1>5, <1>6, <1>7, OneStep, SingleStep

\* A transfer: BEGIN, each packet after the one before it, END after the last.
Carrier(k) == CASE k = "PROGRAM" -> "modify" [] k = "VERIFY" -> "verify" [] k = "RAM_LOAD" -> "client"

LEMMA TransferPiece ==
  ASSUME NEW hand, NEW k \in Transfers, NEW by, by = Carrier(k),
         NEW image, k = "RAM_LOAD" => image \in {Service, RamApp}, k # "RAM_LOAD" => image \in Images,
         NEW s, s = Transfer(by, k, image)
  PROVE  /\ Routine(hand, s) /\ Calm(s) /\ s # <<>>
         /\ s[Len(s)].do = by /\ s[Len(s)].q.command = "END" /\ s[Len(s)].q.type = k
         /\ s[Len(s)].q.image = image
         /\ \A p \in 1 .. Len(s) : s[p].q.command \in TransferCommands /\ s[p].do = by
<1>0. /\ image \in SessionImages /\ Packets(image) \in Nat /\ Packets(image) > 0
      /\ by \in Askers /\ TransferCommands \subseteq Commands
      /\ k = "PROGRAM" => by = "modify"
      /\ k = "VERIFY" => by = "verify"
      /\ k = "RAM_LOAD" => by = "client"
  BY SimulatorAssumption DEF SessionImages, Packets, Service, RamApp, Carrier, Askers, TransferCommands,
       Commands, Transfers
<1>1. PICK b : b = [do |-> by, q |-> [Req("BEGIN", image) EXCEPT !.type = k]] OBVIOUS
<1>2. PICK e : e = [do |-> by, q |-> [Req("END", image) EXCEPT !.type = k]] OBVIOUS
<1>3. PICK D : D = [i \in 1 .. Packets(image) |->
          [do |-> by, q |-> [Req("DATA", image) EXCEPT !.type = k, !.index = i - 1]]] OBVIOUS
<1>s. s = <<b>> \o D \o <<e>> BY <1>1, <1>2, <1>3 DEF Transfer, Ask
<1>b. b \in Steps /\ b.do = by /\ b.q.command = "BEGIN" /\ b.q.type = k /\ b.q.image = image
  <2>1. PICK q : q = [Req("BEGIN", image) EXCEPT !.type = k] OBVIOUS
  <2>2. q \in Requests /\ q.command = "BEGIN" /\ q.type = k /\ q.image = image
    BY <1>0, <2>1, ReqType DEF Requests, TransferCommands
  <2> QED BY <1>0, <1>1, <2>1, <2>2 DEF Steps
<1>e. e \in Steps /\ e.do = by /\ e.q.command = "END" /\ e.q.type = k /\ e.q.image = image
  <2>1. PICK q : q = [Req("END", image) EXCEPT !.type = k] OBVIOUS
  <2>2. q \in Requests /\ q.command = "END" /\ q.type = k /\ q.image = image
    BY <1>0, <2>1, ReqType DEF Requests, TransferCommands
  <2> QED BY <1>0, <1>2, <2>1, <2>2 DEF Steps
<1>d. ASSUME NEW i \in 1 .. Packets(image)
      PROVE  /\ D[i] \in Steps /\ D[i].do = by /\ D[i].q.command = "DATA" /\ D[i].q.type = k
             /\ D[i].q.image = image /\ D[i].q.index = i - 1
  <2>0. PICK n \in Nat : n = i - 1 BY <1>0
  <2>1. PICK q : q = [Req("DATA", image) EXCEPT !.type = k, !.index = n] OBVIOUS
  <2>2. /\ q \in Requests /\ q.command = "DATA" /\ q.type = k /\ q.image = image
        /\ q.index = n
    <3>1. PICK q0 : q0 = Req("DATA", image) OBVIOUS
    <3>2. q0 \in Requests /\ q0.command = "DATA" /\ q0.image = image
      BY <1>0, <3>1, ReqType DEF TransferCommands
    <3>3. q = [q0 EXCEPT !.type = k, !.index = n] BY <2>1, <3>1
    <3> QED BY <2>0, <3>2, <3>3 DEF Requests
  <2>3. D[i] = [do |-> by, q |-> q] BY <1>3, <2>0, <2>1
  <2> QED BY <1>0, <2>0, <2>2, <2>3 DEF Steps
<1>4. D \in Seq(Steps) /\ Len(D) = Packets(image)
  <2>1. D \in [1 .. Packets(image) -> Steps] BY <1>3, <1>d
  <2> QED BY <1>0, <2>1
<1>5. Shape(b) /\ Shape(e) /\ \A i \in 1 .. Packets(image) : Shape(D[i])
  <2>1. Shape(b) BY <1>0, <1>b DEF Shape, Transfers, TransferCommands, Deciders, Askers, RecordTypes
  <2>2. Shape(e) BY <1>0, <1>e DEF Shape, Transfers, TransferCommands, Deciders, Askers, RecordTypes
  <2>3. ASSUME NEW i \in 1 .. Packets(image) PROVE Shape(D[i])
    <3>1. i - 1 < Packets(image) BY <1>0
    <3> QED BY <1>0, <1>d, <3>1 DEF Shape, Transfers, TransferCommands, Deciders, Askers, RecordTypes
  <2> QED BY <2>1, <2>2, <2>3
<1>6. Chain(hand, D)
  <2>1. ASSUME NEW i \in 1 .. Len(D) - 1 PROVE Link(hand, D[i], D[i + 1])
    <3>1. i \in 1 .. Packets(image) /\ i + 1 \in 1 .. Packets(image) /\ (i + 1) - 1 = (i - 1) + 1
      BY <1>0, <1>4
    <3> QED BY <1>d, <3>1 DEF Link, Gives, SameTransfer
  <2> QED BY <1>4, <1>5, <2>1 DEF Chain
<1>bs. PICK bs : bs = <<b>> OBVIOUS
<1>es. PICK es : es = <<e>> OBVIOUS
<1>7. Chain(hand, bs) /\ Chain(hand, es) BY <1>5, <1>bs, <1>es, SingleStep
<1>8. /\ bs \in Seq(Steps) /\ Len(bs) = 1 /\ bs[1] = b
      /\ es \in Seq(Steps) /\ Len(es) = 1 /\ es[1] = e
  BY <1>b, <1>e, <1>bs, <1>es, OneStep
<1>9. Link(hand, b, D[1])
  <2>1. 1 \in 1 .. Packets(image) BY <1>0
  <2> QED BY <1>b, <1>d, <2>1 DEF Link, Gives, SameTransfer
<1>10. PICK t : t = bs \o D OBVIOUS
<1>11. Chain(hand, t)
  BY <1>6, <1>7, <1>8, <1>9, <1>10, ChainJoin
<1>12. /\ t \in Seq(Steps) /\ Len(t) = Packets(image) + 1 /\ t[1] = b
       /\ \A p \in 1 .. Packets(image) : t[1 + p] = D[p]
       /\ \A p \in 1 .. Len(t) : t[p] = b \/ \E r \in 1 .. Packets(image) : t[p] = D[r]
  <2>0. bs \in Seq(Steps) /\ D \in Seq(Steps) /\ t = bs \o D BY <1>4, <1>8, <1>10, <1>bs
  <2>a. IsJoin(t, bs, D) BY <2>0, Joined, Zenon
  <2>1. /\ t \in Seq(Steps) /\ Len(t) = Len(bs) + Len(D)
        /\ \A p \in 1 .. Len(bs) : t[p] = bs[p]
        /\ \A p \in 1 .. Len(D) : t[Len(bs) + p] = D[p]
        /\ \A p \in 1 .. Len(t) : \/ p \in 1 .. Len(bs) /\ t[p] = bs[p]
                                  \/ \E r \in 1 .. Len(D) : p = Len(bs) + r /\ t[p] = D[r]
    BY <2>a DEF IsJoin
  <2>2. 1 \in 1 .. Len(bs) /\ \A p \in 1 .. Len(bs) : p = 1 BY <1>8
  <2>3. Len(t) = Packets(image) + 1 BY <1>0, <1>4, <1>8, <2>1
  <2> QED BY <1>4, <1>8, <2>1, <2>2, <2>3, Zenon
<1>13. Link(hand, t[Len(t)], e)
  <2>1. Packets(image) \in 1 .. Packets(image) /\ Len(t) = 1 + Packets(image) BY <1>0, <1>12
  <2>2. t[Len(t)] = D[Packets(image)] BY <1>12, <2>1
  <2>3. (Packets(image) - 1) + 1 = Packets(image) BY <1>0
  <2> QED BY <1>d, <1>e, <2>1, <2>2, <2>3 DEF Link, Gives, SameTransfer
<1>14. PICK u : u = t \o es OBVIOUS
<1>15. Chain(hand, u) BY <1>7, <1>8, <1>11, <1>13, <1>14, ChainJoin
<1>16. /\ u \in Seq(Steps) /\ u[1] = b /\ u # <<>> /\ u[Len(u)] = e
       /\ \A p \in 1 .. Len(u) : u[p] = b \/ u[p] = e \/ \E r \in 1 .. Packets(image) : u[p] = D[r]
  <2>0. t \in Seq(Steps) /\ es \in Seq(Steps) /\ u = t \o es BY <1>8, <1>12, <1>14
  <2>a. IsJoin(u, t, es) BY <2>0, Joined, Zenon
  <2>1. /\ u \in Seq(Steps) /\ Len(u) = Len(t) + Len(es)
        /\ \A p \in 1 .. Len(t) : u[p] = t[p]
        /\ \A p \in 1 .. Len(es) : u[Len(t) + p] = es[p]
        /\ \A p \in 1 .. Len(u) : \/ p \in 1 .. Len(t) /\ u[p] = t[p]
                                  \/ \E r \in 1 .. Len(es) : p = Len(t) + r /\ u[p] = es[r]
    BY <2>a DEF IsJoin
  <2>2. /\ 1 \in 1 .. Len(es) /\ \A p \in 1 .. Len(es) : p = 1 BY <1>8
  <2>3. 1 \in 1 .. Len(t) /\ Len(u) = Len(t) + 1 /\ Len(u) # 0 BY <1>0, <1>8, <1>12, <2>1
  <2>4. u # <<>> BY <2>1, <2>3, NoSteps
  <2>5. u[1] = b BY <1>12, <2>1, <2>3
  <2>6. u[Len(u)] = e BY <1>8, <2>1, <2>2, <2>3
  <2>7. ASSUME NEW p \in 1 .. Len(u)
        PROVE  u[p] = b \/ u[p] = e \/ \E r \in 1 .. Packets(image) : u[p] = D[r]
    <3>1. CASE p \in 1 .. Len(t) /\ u[p] = t[p] BY <1>12, <3>1
    <3>2. CASE \E r \in 1 .. Len(es) : p = Len(t) + r /\ u[p] = es[r] BY <1>8, <2>2, <3>2
    <3> QED BY <2>1, <3>1, <3>2
  <2> QED BY <2>1, <2>4, <2>5, <2>6, <2>7
<1>17. Free(hand, b) BY <1>b, <1>0 DEF Free, Publishes, ErasesApp, Erases, FreshDos, Askers
<1>18. Harmless(b) /\ Harmless(e) /\ \A r \in 1 .. Packets(image) : Harmless(D[r])
  BY <1>0, <1>b, <1>d, <1>e DEF Harmless, Askers
<1>19. Routine(hand, u) /\ Calm(u)
  BY <1>15, <1>16, <1>17, <1>18, Zenon DEF Routine, Calm
<1>20. \A p \in 1 .. Len(u) : u[p].q.command \in TransferCommands /\ u[p].do = by
  <2>1. "BEGIN" \in TransferCommands /\ "DATA" \in TransferCommands /\ "END" \in TransferCommands
    BY DEF TransferCommands
  <2> SUFFICES ASSUME NEW p \in 1 .. Len(u) PROVE u[p].q.command \in TransferCommands /\ u[p].do = by
    OBVIOUS
  <2>2. CASE u[p] = b BY <1>b, <2>1, <2>2
  <2>3. CASE u[p] = e BY <1>e, <2>1, <2>3
  <2>4. CASE \E r \in 1 .. Packets(image) : u[p] = D[r] BY <1>d, <2>1, <2>4
  <2> QED BY <1>16, <2>2, <2>3, <2>4
<1>21. s = u BY <1>s, <1>10, <1>14, <1>bs, <1>es
<1> QED BY <1>e, <1>16, <1>19, <1>20, <1>21

\* A list that may be begun at any time and changes no record.
Smooth(hand, s) == Routine(hand, s) /\ Calm(s)

LEMMA SmoothJoin ==
  ASSUME NEW hand, NEW s, NEW t, Smooth(hand, s), Smooth(hand, t)
  PROVE  Smooth(hand, s \o t)
BY ScriptJoin DEF Smooth

LEMMA SmoothPieces ==
  ASSUME NEW hand
  PROVE  /\ \A command \in Plain, image \in SessionImages : Smooth(hand, Client(command, image))
         /\ \A image \in {Service, RamApp} : Smooth(hand, Transfer("client", "RAM_LOAD", image))
         /\ \A image \in Images : Smooth(hand, program(image)) /\ Smooth(hand, verify(image))
         /\ Smooth(hand, Do("service?")) /\ Smooth(hand, Do("attached?")) /\ Smooth(hand, Do("confirmable?"))
         /\ Smooth(hand, Do("verified?")) /\ Smooth(hand, Do("send_run")) /\ Smooth(hand, Do("flashed"))
<1>1. \A command \in Plain, image \in SessionImages : Smooth(hand, Client(command, image))
  BY ClientPiece DEF Smooth
<1>2. ASSUME NEW image \in {Service, RamApp} PROVE Smooth(hand, Transfer("client", "RAM_LOAD", image))
  <2>1. PICK k \in Transfers : k = "RAM_LOAD" BY DEF Transfers
  <2>2. PICK by : by = Carrier(k) OBVIOUS
  <2>3. by = "client" BY <2>1, <2>2 DEF Carrier
  <2>4. PICK s : s = Transfer(by, k, image) OBVIOUS
  <2>5. k = "RAM_LOAD" => image \in {Service, RamApp} OBVIOUS
  <2>6. k # "RAM_LOAD" => image \in Images BY <2>1
  <2>7. Routine(hand, s) /\ Calm(s) BY <2>2, <2>4, <2>5, <2>6, TransferPiece, ZenonT(40)
  <2> QED BY <2>1, <2>3, <2>4, <2>7 DEF Smooth
<1>3. ASSUME NEW image \in Images PROVE Smooth(hand, program(image)) /\ Smooth(hand, verify(image))
  <2>1. PICK s : s = Transfer("modify", "PROGRAM", image) OBVIOUS
  <2>2. "modify" = Carrier("PROGRAM") /\ "PROGRAM" \in Transfers BY DEF Carrier, Transfers
  <2>3. Routine(hand, s) /\ Calm(s) BY <2>1, <2>2, TransferPiece
  <2>4. PICK u : u = Transfer("verify", "VERIFY", image) OBVIOUS
  <2>5. "verify" = Carrier("VERIFY") /\ "VERIFY" \in Transfers BY DEF Carrier, Transfers
  <2>6. Routine(hand, u) /\ Calm(u) BY <2>4, <2>5, TransferPiece
  <2> QED BY <2>1, <2>3, <2>4, <2>6 DEF Smooth, program, verify
<1>4. ASSUME NEW what \in Deciders, what \notin FreshDos,
             what \notin {"flash?", "flash", "attempt?", "confirm", "runnable?"}
      PROVE  Smooth(hand, Do(what))
  BY <1>4, DoPiece DEF Smooth
<1>5. /\ Smooth(hand, Do("service?")) /\ Smooth(hand, Do("attached?")) /\ Smooth(hand, Do("confirmable?"))
      /\ Smooth(hand, Do("verified?")) /\ Smooth(hand, Do("send_run")) /\ Smooth(hand, Do("flashed"))
  BY <1>4 DEF Deciders, FreshDos
<1> QED BY <1>1, <1>2, <1>3, <1>5

LEMMA SmoothScripts ==
  ASSUME NEW hand
  PROVE  /\ Smooth(hand, Connect) /\ Smooth(hand, collect_boot_status)
         /\ Smooth(hand, ensure_service_attached) /\ Smooth(hand, load_and_attach_service)
         /\ Smooth(hand, run_ram_image)
<1>0. /\ {None, Service, RamApp} \subseteq SessionImages
      /\ {"GET_DEVICE_INFO", "GET_METADATA_SUMMARY", "GET_SERVICE_STATUS", "RAM_CHECK_CRC",
          "SERVICE_ATTACH", "RUN_RAM"} \subseteq Plain
  BY DEF SessionImages, Plain, Reads
<1>1. Smooth(hand, Connect) /\ Smooth(hand, collect_boot_status)
  BY <1>0, SmoothPieces DEF Connect, collect_boot_status
<1>2. Smooth(hand, ensure_service_attached)
  <2>1. Smooth(hand, Client("GET_SERVICE_STATUS", None)) /\ Smooth(hand, Do("service?"))
    BY <1>0, SmoothPieces
  <2> QED BY <2>1, SmoothJoin DEF ensure_service_attached
<1>3. Smooth(hand, load_and_attach_service)
  <2>1. PICK a : a = Transfer("client", "RAM_LOAD", Service) OBVIOUS
  <2>2. PICK b : b = Client("RAM_CHECK_CRC", Service) OBVIOUS
  <2>3. PICK c : c = Client("SERVICE_ATTACH", Service) OBVIOUS
  <2>4. PICK e : e = Client("GET_SERVICE_STATUS", None) OBVIOUS
  <2>5. PICK f : f = Do("attached?") OBVIOUS
  <2>6. Smooth(hand, a) /\ Smooth(hand, b) /\ Smooth(hand, c) /\ Smooth(hand, e) /\ Smooth(hand, f)
    BY <1>0, <2>1, <2>2, <2>3, <2>4, <2>5, SmoothPieces
  <2>7. Smooth(hand, a \o b \o c \o e \o f) BY <2>6, SmoothJoin
  <2> QED BY <2>1, <2>2, <2>3, <2>4, <2>5, <2>7 DEF load_and_attach_service
<1>4. Smooth(hand, run_ram_image)
  <2>1. PICK a : a = Transfer("client", "RAM_LOAD", RamApp) OBVIOUS
  <2>2. PICK b : b = Client("RAM_CHECK_CRC", RamApp) OBVIOUS
  <2>3. PICK c : c = Client("RUN_RAM", RamApp) OBVIOUS
  <2>4. Smooth(hand, a) /\ Smooth(hand, b) /\ Smooth(hand, c)
    BY <1>0, <2>1, <2>2, <2>3, SmoothPieces
  <2>5. Smooth(hand, a \o b \o c) BY <2>4, SmoothJoin
  <2> QED BY <2>1, <2>2, <2>3, <2>5 DEF run_ram_image
<1> QED BY <1>1, <1>2, <1>3, <1>4

-----------------------------------------------------------------------------
(* What the parts of the invariant say of a list's tail and of two lists   *)
(* one after the other.                                                    *)

Silent(s) == NoFlash(s) /\ NoAttempt(s)

LEMMA CalmIs ==
  ASSUME NEW s, Calm(s)
  PROVE  /\ Covered(s) /\ Silent(s) /\ NoBoot(s) /\ AttemptLate(s) /\ ~HasPub(s)
         /\ \A image : PubOnly(s, image)
BY DEF Calm, Harmless, Covered, Silent, NoFlash, NoAttempt, NoBoot, AttemptLate, HasPub, PubOnly, Erases,
     Publishes, Attempts, Pub

JoinFacts(s, t, u) ==
  /\ Covered(t) /\ (Covered(s) \/ HasPub(t)) => Covered(u)
  /\ HasPub(s) \/ HasPub(t) => HasPub(u)
  /\ \A image : PubOnly(s, image) /\ PubOnly(t, image) => PubOnly(u, image)
  /\ NoFlash(s) /\ NoFlash(t) => NoFlash(u)
  /\ NoAttempt(s) /\ NoAttempt(t) => NoAttempt(u)
  /\ NoBoot(s) /\ NoBoot(t) => NoBoot(u)
  /\ NoAttempt(s) /\ AttemptLate(t) => AttemptLate(u)
  /\ Calm(s) /\ Calm(t) => Calm(u)
  /\ \A image : Calm(s) /\ Boot(t, image) => Boot(u, image)
  /\ t # <<>> => u # <<>> /\ u[Len(u)] = t[Len(t)]
  /\ t = <<>> => u = s
  /\ s # <<>> => u # <<>> /\ u[1] = s[1]
  /\ s = <<>> => u = t

LEMMA JoinParts ==
  ASSUME NEW s \in Seq(Steps), NEW t \in Seq(Steps), NEW u, u = s \o t
  PROVE  JoinFacts(s, t, u)
<1>1. /\ u \in Seq(Steps) /\ Len(s) \in Nat /\ Len(t) \in Nat
      /\ Len(u) = Len(s) + Len(t)
      /\ \A p \in 1 .. Len(s) : u[p] = s[p]
      /\ \A p \in 1 .. Len(t) : u[Len(s) + p] = t[p]
      /\ \A p \in 1 .. Len(u) :
              \/ p \in 1 .. Len(s) /\ u[p] = s[p]
              \/ \E r \in 1 .. Len(t) : p = Len(s) + r /\ u[p] = t[r]
      /\ s = <<>> <=> Len(s) = 0
      /\ t = <<>> <=> Len(t) = 0
      /\ s = <<>> => u = t
      /\ t = <<>> => u = s
  BY JoinedSteps
<1>a. Len(s) \in Nat /\ Len(t) \in Nat /\ Len(u) = Len(s) + Len(t) BY <1>1
<1>2. /\ \A p \in 1 .. Len(s) : p \in 1 .. Len(u)
      /\ \A p \in 1 .. Len(t) : Len(s) + p \in 1 .. Len(u) /\ Len(s) + p \notin 1 .. Len(s)
      /\ \A p \in 1 .. Len(t) : \A r \in p + 1 .. Len(t) : r \in 1 .. Len(t) /\ Len(s) + r \in (Len(s) + p) + 1 .. Len(u)
      /\ \A p \in 1 .. Len(s) : \A r \in p + 1 .. Len(s) : r \in 1 .. Len(s) /\ r \in p + 1 .. Len(u)
      /\ \A p \in 1 .. Len(s), r \in 1 .. Len(t) : Len(s) + r \in p + 1 .. Len(u)
      /\ \A r \in 1 .. Len(t) : r = Len(t) - 1 <=> Len(s) + r = Len(u) - 1
  <2>1. ASSUME NEW a \in Nat, NEW b \in Nat, NEW c, c = a + b
        PROVE  /\ \A p \in 1 .. a : p \in 1 .. c
               /\ \A p \in 1 .. b : a + p \in 1 .. c /\ a + p \notin 1 .. a
               /\ \A p \in 1 .. b : \A r \in p + 1 .. b : r \in 1 .. b /\ a + r \in (a + p) + 1 .. c
               /\ \A p \in 1 .. a : \A r \in p + 1 .. a : r \in 1 .. a /\ r \in p + 1 .. c
               /\ \A p \in 1 .. a, r \in 1 .. b : a + r \in p + 1 .. c
               /\ \A r \in 1 .. b : r = b - 1 <=> a + r = c - 1
    BY <2>1
  <2> QED BY <1>a, <2>1, ZenonT(40)
<1>3. Covered(t) /\ (Covered(s) \/ HasPub(t)) => Covered(u)
  <2> SUFFICES ASSUME Covered(t), Covered(s) \/ HasPub(t), NEW p \in 1 .. Len(u), Erases(u[p])
               PROVE  \E r \in p + 1 .. Len(u) : Pub(u[r])
    BY DEF Covered
  <2>1. CASE p \in 1 .. Len(s) /\ u[p] = s[p]
    <3>1. CASE HasPub(t)
      <4>1. PICK r \in 1 .. Len(t) : Pub(t[r]) BY <3>1 DEF HasPub
      <4>2. Len(s) + r \in p + 1 .. Len(u) /\ u[Len(s) + r] = t[r] BY <1>1, <1>2, <2>1
      <4> QED BY <4>1, <4>2
    <3>2. CASE Covered(s)
      <4>1. PICK r \in p + 1 .. Len(s) : Pub(s[r]) BY <2>1, <3>2 DEF Covered
      <4>2. r \in 1 .. Len(s) /\ r \in p + 1 .. Len(u) BY <1>2, <2>1
      <4>3. u[r] = s[r] BY <1>1, <4>2
      <4> QED BY <4>1, <4>2, <4>3
    <3> QED BY <3>1, <3>2
  <2>2. CASE \E n \in 1 .. Len(t) : p = Len(s) + n /\ u[p] = t[n]
    <3>1. PICK n \in 1 .. Len(t) : p = Len(s) + n /\ u[p] = t[n] BY <2>2
    <3>2. PICK r \in n + 1 .. Len(t) : Pub(t[r]) BY <3>1 DEF Covered
    <3>3. r \in 1 .. Len(t) /\ Len(s) + r \in p + 1 .. Len(u) BY <1>2, <3>1
    <3>4. u[Len(s) + r] = t[r] BY <1>1, <3>3
    <3> QED BY <3>2, <3>3, <3>4
  <2> QED BY <1>1, <2>1, <2>2
<1>4. HasPub(s) \/ HasPub(t) => HasPub(u) BY <1>1, <1>2 DEF HasPub
<1>5. \A image : PubOnly(s, image) /\ PubOnly(t, image) => PubOnly(u, image)
  BY <1>1 DEF PubOnly
<1>6. /\ NoFlash(s) /\ NoFlash(t) => NoFlash(u)
      /\ NoAttempt(s) /\ NoAttempt(t) => NoAttempt(u)
      /\ NoBoot(s) /\ NoBoot(t) => NoBoot(u)
      /\ Calm(s) /\ Calm(t) => Calm(u)
  BY <1>1, SMTT(40) DEF NoFlash, NoAttempt, NoBoot, Calm
<1>7. NoAttempt(s) /\ AttemptLate(t) => AttemptLate(u)
  BY <1>1, <1>2, ZenonT(40) DEF NoAttempt, AttemptLate
<1>8. ASSUME NEW image, Calm(s), Boot(t, image) PROVE Boot(u, image)
  <2>1. Len(u) > 1 BY <1>1, <1>8 DEF Boot
  <2>2. ASSUME NEW p \in 1 .. Len(u)
        PROVE  IF p = Len(u) - 1 THEN Attempts(u[p]) /\ u[p].q.image = image ELSE Harmless(u[p])
    <3>1. CASE p \in 1 .. Len(s) /\ u[p] = s[p]
      <4>1. p # Len(u) - 1 BY <1>1, <1>8, <3>1 DEF Boot
      <4> QED BY <1>8, <3>1, <4>1 DEF Calm
    <3>2. CASE \E r \in 1 .. Len(t) : p = Len(s) + r /\ u[p] = t[r]
      BY <1>2, <1>8, <3>2 DEF Boot
    <3> QED BY <1>1, <3>1, <3>2
  <2> QED BY <2>1, <2>2 DEF Boot
<1>9. t # <<>> => u # <<>> /\ u[Len(u)] = t[Len(t)]
  <2> SUFFICES ASSUME t # <<>> PROVE u # <<>> /\ u[Len(u)] = t[Len(t)] OBVIOUS
  <2>1. Len(t) \in 1 .. Len(t) /\ Len(u) # 0 BY <1>1
  <2>2. u[Len(u)] = t[Len(t)] BY <1>1, <2>1
  <2> QED BY <1>1, <2>1, <2>2, NoSteps
<1>10. s # <<>> => u # <<>> /\ u[1] = s[1]
  <2> SUFFICES ASSUME s # <<>> PROVE u # <<>> /\ u[1] = s[1] OBVIOUS
  <2>1. 1 \in 1 .. Len(s) /\ Len(u) # 0 BY <1>1
  <2> QED BY <1>1, <2>1, NoSteps
<1> QED BY <1>1, <1>3, <1>4, <1>5, <1>6, <1>7, <1>8, <1>9, <1>10 DEF JoinFacts

TailFacts(s, t) ==
  /\ t \in Seq(Steps)
  /\ Covered(s) => Covered(t) /\ (Erases(s[1]) => HasPub(t))
  /\ HasPub(s) => Pub(s[1]) \/ HasPub(t)
  /\ \A image : PubOnly(s, image) => PubOnly(t, image) /\ (Publishes(s[1]) => s[1].q.image = image)
  /\ NoFlash(s) => NoFlash(t) /\ s[1].do \notin {"flash?", "flash"}
  /\ NoAttempt(s) => NoAttempt(t) /\ s[1].do # "attempt?"
  /\ NoBoot(s) => NoBoot(t) /\ ~Attempts(s[1]) /\ s[1].do # "runnable?"
  /\ AttemptLate(s) => AttemptLate(t) /\ (s[1].do = "attempt?" => Len(t) = 1)
  /\ Calm(s) => Calm(t) /\ Harmless(s[1])
  /\ \A image : Boot(s, image) =>
       \/ Boot(t, image) /\ Harmless(s[1])
       \/ Calm(t) /\ Attempts(s[1]) /\ s[1].q.image = image
  /\ t # <<>> => s[Len(s)] = t[Len(t)]
  /\ t = <<>> => s[Len(s)] = s[1]

LEMMA TailParts ==
  ASSUME NEW s \in Seq(Steps), s # <<>>, NEW t, t = Tail(s)
  PROVE  TailFacts(s, t)
<1>1. /\ t \in Seq(Steps) /\ Len(t) = Len(s) - 1 /\ Len(s) \in Nat /\ Len(s) > 0
      /\ \A p \in 1 .. Len(s) - 1 : t[p] = s[p + 1]
      /\ t # <<>> <=> Len(s) > 1
  <2>1. /\ Tail(s) \in Seq(Steps) /\ Len(Tail(s)) = Len(s) - 1 /\ Len(s) \in Nat /\ Len(s) > 0
        /\ \A p \in 1 .. Len(s) - 1 : Tail(s)[p] = s[p + 1]
        /\ Tail(s) # <<>> <=> Len(s) > 1
    BY TailSteps
  <2> QED BY <2>1
<1>a. Len(s) \in Nat /\ Len(t) = Len(s) - 1 /\ Len(s) > 0 BY <1>1
<1>2. /\ 1 \in 1 .. Len(s)
      /\ \A p \in 1 .. Len(t) : p + 1 \in 1 .. Len(s) /\ t[p] = s[p + 1]
      /\ \A p \in 1 .. Len(s) : p = 1 \/ \E r \in 1 .. Len(t) : p = r + 1
      /\ \A p \in 1 .. Len(t) : p = Len(t) - 1 <=> p + 1 = Len(s) - 1
  <2>1. ASSUME NEW p \in 1 .. Len(s), p # 1 PROVE \E r \in 1 .. Len(t) : p = r + 1
    <3>1. p - 1 \in 1 .. Len(t) /\ p = (p - 1) + 1 BY <1>1, <2>1
    <3> QED BY <3>1
  <2>2. \A p \in 1 .. Len(t) : p \in 1 .. Len(s) - 1 BY <1>1
  <2> QED BY <1>1, <2>1, <2>2
<1>3. Covered(s) => Covered(t) /\ (Erases(s[1]) => HasPub(t))
  <2> SUFFICES ASSUME Covered(s) PROVE Covered(t) /\ (Erases(s[1]) => HasPub(t)) OBVIOUS
  <2>1. ASSUME NEW p \in 1 .. Len(s), Erases(s[p]) PROVE \E r \in p .. Len(t) : r \in 1 .. Len(t) /\ Pub(t[r])
    <3>1. PICK r \in p + 1 .. Len(s) : Pub(s[r]) BY <2>1 DEF Covered
    <3>2. r - 1 \in p .. Len(t) /\ r - 1 \in 1 .. Len(t) /\ (r - 1) + 1 = r BY <1>1
    <3>3. t[r - 1] = s[r] BY <1>2, <3>2
    <3> QED BY <3>1, <3>2, <3>3
  <2>2. Erases(s[1]) => HasPub(t) BY <1>2, <2>1 DEF HasPub
  <2>3. ASSUME NEW p \in 1 .. Len(t), Erases(t[p]) PROVE \E r \in p + 1 .. Len(t) : Pub(t[r])
    <3>1. p + 1 \in 1 .. Len(s) /\ t[p] = s[p + 1] BY <1>2
    <3>2. Erases(s[p + 1]) BY <2>3, <3>1
    <3> QED BY <2>1, <3>1, <3>2
  <2> QED BY <2>2, <2>3 DEF Covered
<1>4. HasPub(s) => Pub(s[1]) \/ HasPub(t) BY <1>2 DEF HasPub
<1>5. \A image : PubOnly(s, image) => PubOnly(t, image) /\ (Publishes(s[1]) => s[1].q.image = image)
  BY <1>2 DEF PubOnly
<1>6. /\ NoFlash(s) => NoFlash(t) /\ s[1].do \notin {"flash?", "flash"}
      /\ NoAttempt(s) => NoAttempt(t) /\ s[1].do # "attempt?"
      /\ NoBoot(s) => NoBoot(t) /\ ~Attempts(s[1]) /\ s[1].do # "runnable?"
      /\ Calm(s) => Calm(t) /\ Harmless(s[1])
  BY <1>2 DEF NoFlash, NoAttempt, NoBoot, Calm
<1>7. AttemptLate(s) => AttemptLate(t) /\ (s[1].do = "attempt?" => Len(t) = 1)
  BY <1>1, <1>2 DEF AttemptLate
<1>8. ASSUME NEW image, Boot(s, image)
      PROVE  \/ Boot(t, image) /\ Harmless(s[1])
             \/ Calm(t) /\ Attempts(s[1]) /\ s[1].q.image = image
  <2>1. CASE 1 = Len(s) - 1
    <3>1. \A p \in 1 .. Len(t) : p + 1 # Len(s) - 1
      <4>1. ASSUME NEW n \in Nat, NEW m, m = n - 1, 1 = n - 1, NEW p \in 1 .. m PROVE p + 1 # n - 1
        BY <4>1
      <4> QED BY <1>a, <2>1, <4>1, Zenon
    <3>2. Calm(t) BY <1>2, <1>8, <3>1 DEF Calm, Boot
    <3> QED BY <1>2, <1>8, <2>1, <3>2 DEF Boot
  <2>2. CASE 1 # Len(s) - 1
    <3>0. Len(s) > 1 BY <1>8 DEF Boot
    <3>1. Len(t) > 1 BY <1>a, <2>2, <3>0
    <3>2. Harmless(s[1]) BY <1>2, <1>8, <2>2 DEF Boot
    <3>3. Boot(t, image) BY <1>2, <1>8, <3>1 DEF Boot
    <3> QED BY <3>2, <3>3
  <2> QED BY <2>1, <2>2
<1>9. t # <<>> => s[Len(s)] = t[Len(t)]
  <2> SUFFICES ASSUME t # <<>> PROVE s[Len(s)] = t[Len(t)] OBVIOUS
  <2>1. Len(t) \in 1 .. Len(t) /\ Len(t) + 1 = Len(s) BY <1>1
  <2> QED BY <1>2, <2>1
<1>10. t = <<>> => s[Len(s)] = s[1] BY <1>1
<1> QED BY <1>1, <1>3, <1>4, <1>5, <1>6, <1>7, <1>8, <1>9, <1>10 DEF TailFacts

-----------------------------------------------------------------------------
(* The lists that write records. *)

Decent(s, image) == Silent(s) /\ NoBoot(s) /\ PubOnly(s, image)

LEMMA RoutineJoin ==
  ASSUME NEW hand, NEW image, NEW s, NEW t, Routine(hand, s), Routine(hand, t)
  PROVE  /\ Routine(hand, s \o t)
         /\ Silent(s) /\ Silent(t) => Silent(s \o t)
         /\ Decent(s, image) /\ Decent(t, image) => Decent(s \o t, image)
         /\ t # <<>> => s \o t # <<>> /\ (s \o t)[Len(s \o t)] = t[Len(t)]
         /\ HasPub(s) \/ HasPub(t) => HasPub(s \o t)
         /\ Covered(t) /\ (Covered(s) \/ HasPub(t)) => Covered(s \o t)
<1>1. s \in Seq(Steps) /\ t \in Seq(Steps) BY DEF Routine, Chain
<1>2. PICK u : u = s \o t OBVIOUS
<1>a. JoinFacts(s, t, u) BY <1>1, <1>2, JoinParts
<1>3. /\ PubOnly(s, image) /\ PubOnly(t, image) => PubOnly(u, image)
      /\ NoFlash(s) /\ NoFlash(t) => NoFlash(u)
      /\ NoAttempt(s) /\ NoAttempt(t) => NoAttempt(u)
      /\ NoBoot(s) /\ NoBoot(t) => NoBoot(u)
      /\ t # <<>> => u # <<>> /\ u[Len(u)] = t[Len(t)]
      /\ HasPub(s) \/ HasPub(t) => HasPub(u)
      /\ Covered(t) /\ (Covered(s) \/ HasPub(t)) => Covered(u)
  BY <1>a DEF JoinFacts
<1> QED BY <1>2, <1>3, ScriptJoin DEF Silent, Decent

LEMMA SmoothIs ==
  ASSUME NEW hand, NEW s, Smooth(hand, s)
  PROVE  Routine(hand, s) /\ Silent(s) /\ Covered(s) /\ \A image : Decent(s, image)
BY CalmIs DEF Smooth, Decent

\* What holds of a list of one step.
LEMMA OneParts ==
  ASSUME NEW s, Len(s) = 1
  PROVE  /\ Silent(s) <=> s[1].do \notin {"flash?", "flash", "attempt?"}
         /\ NoBoot(s) <=> ~Attempts(s[1]) /\ s[1].do # "runnable?"
         /\ \A image : PubOnly(s, image) <=> (Publishes(s[1]) => s[1].q.image = image)
         /\ Covered(s) <=> ~Erases(s[1])
         /\ HasPub(s) <=> Pub(s[1])
         /\ Calm(s) <=> Harmless(s[1])
<1>1. 1 \in 1 .. Len(s) /\ (\A p \in 1 .. Len(s) : p = 1) /\ (\A r \in 1 + 1 .. Len(s) : FALSE) OBVIOUS
<1>2. Silent(s) <=> s[1].do \notin {"flash?", "flash", "attempt?"}
  BY <1>1 DEF Silent, NoFlash, NoAttempt
<1>3. /\ NoBoot(s) <=> ~Attempts(s[1]) /\ s[1].do # "runnable?"
      /\ \A image : PubOnly(s, image) <=> (Publishes(s[1]) => s[1].q.image = image)
  BY <1>1 DEF NoBoot, PubOnly
<1>4. /\ Covered(s) <=> ~Erases(s[1])
      /\ HasPub(s) <=> Pub(s[1])
      /\ Calm(s) <=> Harmless(s[1])
  BY <1>1 DEF Covered, HasPub, Calm
<1> QED BY <1>2, <1>3, <1>4

\* The last step of a verify, which a record of the image may follow.
EndsVerify(s, image) ==
  s # <<>> /\ s[Len(s)].q.command = "END" /\ s[Len(s)].q.type = "VERIFY" /\ s[Len(s)].q.image = image

LEMMA VerifyPiece ==
  ASSUME NEW hand, NEW image \in Images
  PROVE  Smooth(hand, verify(image)) /\ EndsVerify(verify(image), image)
<1>1. PICK s : s = Transfer("verify", "VERIFY", image) OBVIOUS
<1>2. "verify" = Carrier("VERIFY") /\ "VERIFY" \in Transfers BY DEF Carrier, Transfers
<1>3. /\ Routine(hand, s) /\ Calm(s) /\ s # <<>>
      /\ s[Len(s)].q.command = "END" /\ s[Len(s)].q.type = "VERIFY" /\ s[Len(s)].q.image = image
  BY <1>1, <1>2, TransferPiece
<1> QED BY <1>1, <1>3 DEF verify, Smooth, EndsVerify

LEMMA PublishAfter ==
  ASSUME NEW hand, NEW image \in Images, NEW s, Routine(hand, s), EndsVerify(s, image),
         NEW by \in {"client", "dfu"}
  PROVE  LET a == Append_(by, "IMAGE_VALID", image) IN
         /\ Routine(hand, s \o a) /\ s \o a # <<>> /\ HasPub(s \o a) /\ Covered(s \o a)
         /\ Silent(s) => Silent(s \o a)
         /\ Decent(s, image) => Decent(s \o a, image)
<1>1. PICK a : a = Append_(by, "IMAGE_VALID", image) OBVIOUS
<1>2. "IMAGE_VALID" \in RecordTypes BY DEF RecordTypes
<1>3. /\ Chain(hand, a) /\ Len(a) = 1 /\ a # <<>> /\ a[1].do = by
      /\ a[1].q.command = "METADATA_APPEND_RECORD" /\ a[1].q.type = "IMAGE_VALID" /\ a[1].q.image = image
  BY <1>1, <1>2, AppendPiece, SMTT(40)
<1>4. s \in Seq(Steps) /\ a \in Seq(Steps) BY <1>3 DEF Routine, Chain
<1>5. PICK u : u = s \o a OBVIOUS
<1>6. Publishes(a[1]) /\ ~Attempts(a[1]) /\ ~Erases(a[1]) BY <1>3 DEF Publishes, Attempts, Erases
<1>7. Silent(a) /\ NoBoot(a) /\ PubOnly(a, image) /\ Covered(a) /\ HasPub(a)
  BY <1>3, <1>6, OneParts DEF Pub
<1>8. Link(hand, s[Len(s)], a[1])
  BY <1>3, <1>6 DEF Link, Gives, EndsVerify
<1>9. Chain(hand, u) BY <1>3, <1>5, <1>8, ChainJoin DEF Routine
<1>a. JoinFacts(s, a, u) BY <1>4, <1>5, JoinParts
<1>10. /\ PubOnly(s, image) /\ PubOnly(a, image) => PubOnly(u, image)
       /\ NoFlash(s) /\ NoFlash(a) => NoFlash(u)
       /\ NoAttempt(s) /\ NoAttempt(a) => NoAttempt(u)
       /\ NoBoot(s) /\ NoBoot(a) => NoBoot(u)
       /\ HasPub(u) /\ Covered(u)
       /\ u # <<>> /\ u[1] = s[1]
  BY <1>3, <1>7, <1>a DEF EndsVerify, JoinFacts
<1>11. Routine(hand, u) BY <1>9, <1>10 DEF Routine, EndsVerify
<1> QED BY <1>1, <1>5, <1>7, <1>10, <1>11 DEF Silent, Decent

\* erase_masks: the journal goes before the application does.
LEMMA EraseParts ==
  ASSUME NEW hand, NEW sectors \in SUBSET Sectors
  PROVE  Silent(erase(sectors)) /\ NoBoot(erase(sectors)) /\ \A image : PubOnly(erase(sectors), image)
<1>1. PICK s : s = erase(sectors) OBVIOUS
<1>2. Len(s) = 1 /\ s[1].do = "modify" /\ Erases(s[1]) /\ s[1].q.type = "none"
  BY <1>1, ErasePiece
<1>3. ~Publishes(s[1]) /\ ~Attempts(s[1]) BY <1>2 DEF Publishes, Attempts
<1> QED BY <1>1, <1>2, <1>3, OneParts

LEMMA EraseMasksPiece ==
  ASSUME NEW hand, NEW sectors \in Masks, hand \/ sectors = {"metadata", "app"}, NEW image
  PROVE  /\ Routine(hand, erase_masks(sectors)) /\ Decent(erase_masks(sectors), image)
         /\ erase_masks(sectors) # <<>>
<1>0. {"metadata"} \in SUBSET Sectors /\ {"app"} \in SUBSET Sectors BY DEF Sectors
<1>1. PICK m : m = erase({"metadata"}) OBVIOUS
<1>2. PICK a : a = erase({"app"}) OBVIOUS
<1>3. /\ Routine(hand, m) /\ Chain(hand, m) /\ Len(m) = 1 /\ m # <<>> /\ Erases(m[1])
      /\ m[1].q.sectors = {"metadata"}
  BY <1>0, <1>1, ErasePiece
<1>4. /\ Chain(hand, a) /\ Len(a) = 1 /\ a # <<>> /\ Erases(a[1]) /\ a[1].q.sectors = {"app"}
      /\ hand => Routine(hand, a)
  BY <1>0, <1>2, ErasePiece
<1>5. /\ Silent(m) /\ NoBoot(m) /\ PubOnly(m, image)
      /\ Silent(a) /\ NoBoot(a) /\ PubOnly(a, image)
  BY <1>0, <1>1, <1>2, EraseParts
<1>6. m \in Seq(Steps) /\ a \in Seq(Steps) BY <1>3, <1>4 DEF Chain
<1>7. PICK none : none = <<>> OBVIOUS
<1>8. none \in Seq(Steps) BY <1>7
<1>9. CASE sectors = {"metadata"}
  <2>1. erase_masks(sectors) = m \o none BY <1>1, <1>7, <1>9 DEF erase_masks
  <2>2. m \o none = m BY <1>6, <1>7, <1>8, JoinedSteps
  <2> QED BY <1>3, <1>5, <2>1, <2>2 DEF Decent
<1>10. CASE sectors = {"app"}
  <2>0. hand BY <1>10
  <2>1. erase_masks(sectors) = none \o a BY <1>2, <1>7, <1>10 DEF erase_masks
  <2>2. none \o a = a BY <1>6, <1>7, <1>8, JoinedSteps
  <2> QED BY <1>4, <1>5, <2>0, <2>1, <2>2 DEF Decent
<1>11. CASE sectors = {"metadata", "app"}
  <2>1. sectors \ {"metadata"} = {"app"} BY <1>11
  <2>2. PICK u : u = m \o a OBVIOUS
  <2>3. erase_masks(sectors) = u BY <1>1, <1>2, <1>11, <2>1, <2>2 DEF erase_masks
  <2>4. Link(hand, m[Len(m)], a[1])
    <3>1. ErasesApp(a[1]) /\ "metadata" \in m[1].q.sectors BY <1>3, <1>4 DEF ErasesApp
    <3> QED BY <1>3, <3>1 DEF Link, Gives
  <2>5. Chain(hand, u) BY <1>3, <1>4, <2>2, <2>4, ChainJoin
  <2>6. /\ PubOnly(u, image) /\ NoFlash(u) /\ NoAttempt(u) /\ NoBoot(u)
        /\ u # <<>> /\ u[1] = m[1]
    BY <1>3, <1>5, <1>6, <2>2, JoinParts, ZenonT(40) DEF Silent, JoinFacts
  <2>7. Routine(hand, u) BY <1>3, <2>5, <2>6 DEF Routine
  <2> QED BY <2>3, <2>6, <2>7 DEF Decent, Silent
<1> QED BY <1>9, <1>10, <1>11 DEF Masks

LEMMA FlashPiece ==
  ASSUME NEW hand, NEW image \in Images, NEW s,
         s = erase_masks({"metadata", "app"}) \o program(image)
               \o verify_app_and_write_image_valid(image) \o Do("flashed")
  PROVE  Routine(hand, s) /\ Decent(s, image) /\ HasPub(s) /\ Covered(s) /\ s # <<>>
<1>1. PICK a : a = erase_masks({"metadata", "app"}) OBVIOUS
<1>2. Routine(hand, a) /\ Decent(a, image)
  <2>1. {"metadata", "app"} \in Masks BY DEF Masks
  <2> QED BY <1>1, <2>1, EraseMasksPiece
<1>3. PICK b : b = program(image) OBVIOUS
<1>4. Routine(hand, b) /\ Decent(b, image)
  <2>1. Smooth(hand, b) BY <1>3, SmoothPieces
  <2> QED BY <2>1, SmoothIs
<1>5. PICK c : c = verify_app_and_write_image_valid(image) OBVIOUS
<1>6. Routine(hand, c) /\ Decent(c, image) /\ HasPub(c) /\ Covered(c)
  <2>1. PICK v : v = verify(image) OBVIOUS
  <2>2. Smooth(hand, v) /\ EndsVerify(v, image) BY <2>1, VerifyPiece
  <2>3. Routine(hand, v) /\ Decent(v, image) BY <2>2, SmoothIs
  <2>4. PICK w : w = v \o Append_("client", "IMAGE_VALID", image) OBVIOUS
  <2>5. Routine(hand, w) /\ Decent(w, image) /\ HasPub(w) /\ Covered(w)
    BY <2>2, <2>3, <2>4, PublishAfter
  <2> QED BY <1>5, <2>1, <2>4, <2>5 DEF verify_app_and_write_image_valid
<1>7. PICK e : e = Do("flashed") OBVIOUS
<1>8. Routine(hand, e) /\ Decent(e, image) /\ Covered(e) /\ e # <<>>
  <2>1. Smooth(hand, e) BY <1>7, SmoothPieces
  <2>2. "flashed" \in Deciders BY DEF Deciders
  <2> QED BY <1>7, <2>1, <2>2, SmoothIs, DoPiece
<1>9. PICK ab : ab = a \o b OBVIOUS
<1>10. Routine(hand, ab) /\ Decent(ab, image) BY <1>2, <1>4, <1>9, RoutineJoin
<1>11. PICK abc : abc = ab \o c OBVIOUS
<1>12. Routine(hand, abc) /\ Decent(abc, image) /\ HasPub(abc) /\ Covered(abc)
  BY <1>6, <1>10, <1>11, RoutineJoin
<1>13. PICK u : u = abc \o e OBVIOUS
<1>14. Routine(hand, u) /\ Decent(u, image) /\ HasPub(u) /\ Covered(u) /\ u # <<>>
  BY <1>8, <1>12, <1>13, RoutineJoin
<1> QED BY <1>1, <1>3, <1>5, <1>7, <1>9, <1>11, <1>13, <1>14

LEMMA DfuPiece ==
  ASSUME NEW hand, hand, NEW image \in Images, NEW sectors \in Masks
  PROVE  Routine(hand, dfu(sectors, image)) /\ Silent(dfu(sectors, image))
<1>1. PICK a : a = erase(sectors) OBVIOUS
<1>2. Routine(hand, a) /\ Silent(a)
  <2>1. sectors \in SUBSET Sectors BY DEF Masks, Sectors
  <2> QED BY <1>1, <2>1, ErasePiece, EraseParts
<1>3. PICK b : b = program(image) OBVIOUS
<1>4. Routine(hand, b) /\ Silent(b)
  <2>1. Smooth(hand, b) BY <1>3, SmoothPieces
  <2> QED BY <2>1, SmoothIs
<1>5. PICK v : v = verify(image) OBVIOUS
<1>6. Routine(hand, v) /\ Silent(v) /\ EndsVerify(v, image)
  <2>1. Smooth(hand, v) /\ EndsVerify(v, image) BY <1>5, VerifyPiece
  <2> QED BY <2>1, SmoothIs
<1>7. PICK ab : ab = a \o b OBVIOUS
<1>8. Routine(hand, ab) /\ Silent(ab) BY <1>2, <1>4, <1>7, RoutineJoin
<1>9. PICK abv : abv = ab \o v OBVIOUS
<1>10. Routine(hand, abv) /\ Silent(abv) /\ EndsVerify(abv, image)
  <2>1. Routine(hand, abv) /\ Silent(abv) /\ abv # <<>> /\ abv[Len(abv)] = v[Len(v)]
    <3>1. v # <<>> BY <1>6 DEF EndsVerify
    <3>2. Routine(hand, abv) /\ Silent(abv) BY <1>6, <1>8, <1>9, RoutineJoin
    <3>3. ab \in Seq(Steps) /\ v \in Seq(Steps) BY <1>6, <1>8 DEF Routine, Chain
    <3>4. JoinFacts(ab, v, abv) BY <1>9, <3>3, JoinParts
    <3> QED BY <3>1, <3>2, <3>4 DEF JoinFacts
  <2> QED BY <1>6, <2>1 DEF EndsVerify
<1>11. PICK u : u = abv \o Append_("dfu", "IMAGE_VALID", image) OBVIOUS
<1>12. Routine(hand, u) /\ Silent(u) BY <1>10, <1>11, PublishAfter
<1> QED BY <1>1, <1>3, <1>5, <1>7, <1>9, <1>11, <1>12 DEF dfu

LEMMA WorkflowRunPiece ==
  ASSUME NEW hand, NEW image \in Images
  PROVE  Routine(hand, workflow_run(image)) /\ Silent(workflow_run(image))
<1>0. image \in SessionImages /\ "GET_METADATA_SUMMARY" \in Plain /\ "RUN" \in Plain /\ None \in SessionImages
  BY DEF SessionImages, Plain, Reads
<1>1. PICK a : a = Do("verified?") OBVIOUS
<1>2. PICK b : b = Client("GET_METADATA_SUMMARY", None) OBVIOUS
<1>3. PICK c : c = Do("runnable?") OBVIOUS
<1>4. PICK e : e = Ask("workflow", Req("RUN", image)) OBVIOUS
<1>5. Smooth(hand, a) /\ Smooth(hand, b) BY <1>0, <1>1, <1>2, SmoothPieces
<1>6. Smooth(hand, e)
  <2>1. PICK by \in {"client", "workflow"} : by = "workflow" OBVIOUS
  <2>2. PICK command \in Plain : command = "RUN" BY <1>0
  <2>3. e = Ask(by, Req(command, image)) BY <1>4, <2>1, <2>2
  <2>4. Routine(hand, e) /\ Calm(e) BY <1>0, <2>1, <2>2, <2>3, AskPiece
  <2> QED BY <2>4 DEF Smooth
<1>7. Routine(hand, c) /\ Silent(c)
  <2>1. "runnable?" \in Deciders /\ "runnable?" \notin FreshDos BY DEF Deciders, FreshDos
  <2>2. Routine(hand, c) /\ Len(c) = 1 /\ c[1].do = "runnable?" BY <1>3, <2>1, DoPiece
  <2> QED BY <2>2, OneParts
<1>8. /\ Routine(hand, a) /\ Silent(a) /\ Routine(hand, b) /\ Silent(b) /\ Routine(hand, e) /\ Silent(e)
  BY <1>5, <1>6, SmoothIs
<1>9. PICK ab : ab = a \o b OBVIOUS
<1>10. Routine(hand, ab) /\ Silent(ab) BY <1>8, <1>9, RoutineJoin
<1>11. PICK abc : abc = ab \o c OBVIOUS
<1>12. Routine(hand, abc) /\ Silent(abc) BY <1>7, <1>10, <1>11, RoutineJoin
<1>13. PICK u : u = abc \o e OBVIOUS
<1>14. Routine(hand, u) /\ Silent(u) BY <1>8, <1>12, <1>13, RoutineJoin
<1> QED BY <1>1, <1>2, <1>3, <1>4, <1>9, <1>11, <1>13, <1>14 DEF workflow_run

LEMMA DoParts ==
  ASSUME NEW what \in Deciders, NEW s, s = Do(what)
  PROVE  /\ s \in Seq(Steps) /\ Len(s) = 1 /\ s # <<>> /\ s[1].do = what /\ s[1].q.command = "none"
         /\ Silent(s) <=> what \notin {"flash?", "flash", "attempt?"}
         /\ NoBoot(s) <=> what # "runnable?"
         /\ (\A image : PubOnly(s, image)) /\ Covered(s)
         /\ HasPub(s) <=> what \in {"flash?", "flash"}
         /\ Calm(s) <=> what \notin {"flash?", "flash", "attempt?", "confirm", "runnable?"}
<1>1. PICK hand \in BOOLEAN : hand = TRUE OBVIOUS
<1>2. Chain(hand, s) /\ Len(s) = 1 /\ s # <<>> /\ s[1].do = what /\ s[1].q.command = "none" BY DoPiece
<1>3. s \in Seq(Steps) BY <1>2 DEF Chain
<1>4. ~Attempts(s[1]) /\ ~Publishes(s[1]) /\ ~Erases(s[1])
  BY <1>2 DEF Attempts, Publishes, Erases
<1>5. Pub(s[1]) <=> what \in {"flash?", "flash"} BY <1>2, <1>4 DEF Pub
<1>6. Harmless(s[1]) <=> what \notin {"flash?", "flash", "attempt?", "confirm", "runnable?"}
  BY <1>2 DEF Harmless
<1>7. /\ Silent(s) <=> s[1].do \notin {"flash?", "flash", "attempt?"}
      /\ NoBoot(s) <=> ~Attempts(s[1]) /\ s[1].do # "runnable?"
      /\ \A image : PubOnly(s, image) <=> (Publishes(s[1]) => s[1].q.image = image)
      /\ Covered(s) <=> ~Erases(s[1])
      /\ HasPub(s) <=> Pub(s[1])
      /\ Calm(s) <=> Harmless(s[1])
  BY <1>2, OneParts, Zenon
<1> QED BY <1>2, <1>3, <1>4, <1>5, <1>6, <1>7

\* A decision on the summary comes after the request that reads it.
Timely(s, what) ==
  what \in FreshDos /\ s[Len(s)].q.command # "GET_METADATA_SUMMARY"
    => s[Len(s)].do = "flash?" /\ what = "attempt?"

DoneAfter(hand, s, what, e, u) ==
  /\ Routine(hand, u) /\ u # <<>> /\ u[Len(u)].do = what /\ u[Len(u)].q.command = "none"
  /\ JoinFacts(s, e, u)

LEMMA DoAfter ==
  ASSUME NEW hand, NEW s, Routine(hand, s), s # <<>>, NEW what \in Deciders, Timely(s, what),
         NEW e, e = Do(what), NEW u, u = s \o e
  PROVE  DoneAfter(hand, s, what, e, u)
<1>1. Chain(hand, e) /\ Len(e) = 1 /\ e # <<>> /\ e[1].do = what /\ e[1].q.command = "none"
  BY DoPiece
<1>2. s \in Seq(Steps) /\ e \in Seq(Steps) BY <1>1 DEF Routine, Chain
<1>3. Link(hand, s[Len(s)], e[1])
  BY <1>1 DEF Timely, Link, Gives, Free, Publishes, ErasesApp, Erases
<1>4. Chain(hand, u) BY <1>1, <1>3, ChainJoin DEF Routine
<1>5. JoinFacts(s, e, u) BY <1>2, JoinParts
<1>6. u # <<>> /\ u[1] = s[1] /\ u[Len(u)] = e[Len(e)] BY <1>1, <1>5 DEF JoinFacts
<1> QED BY <1>1, <1>4, <1>5, <1>6 DEF Routine, DoneAfter

LEMMA AttemptBeforeLast ==
  ASSUME NEW s \in Seq(Steps), NoAttempt(s), NEW a, a = Do("attempt?"), NEW e, e = Do("send_run"),
         NEW v, v = s \o a, NEW u, u = v \o e
  PROVE  AttemptLate(u)
<1>0. "attempt?" \in Deciders /\ "send_run" \in Deciders BY DEF Deciders
<1>1. a \in Seq(Steps) /\ Len(a) = 1 /\ e \in Seq(Steps) /\ Len(e) = 1 /\ e[1].do = "send_run"
  BY <1>0, DoParts
<1>2. /\ Len(s) \in Nat /\ Len(v) = Len(s) + 1 /\ v \in Seq(Steps)
      /\ \A p \in 1 .. Len(s) : v[p] = s[p]
  BY <1>1, JoinedSteps, SMTT(40)
<1>3. /\ Len(u) = Len(v) + 1
      /\ \A p \in 1 .. Len(u) : (p \in 1 .. Len(v) /\ u[p] = v[p]) \/ \E r \in 1 .. Len(e) : u[p] = e[r]
  BY <1>1, <1>2, JoinedSteps
<1>4. \A r \in 1 .. Len(e) : r = 1 BY <1>1
<1> SUFFICES ASSUME NEW p \in 1 .. Len(u), u[p].do = "attempt?" PROVE p = Len(u) - 1
  BY DEF AttemptLate
<1>5. p \in 1 .. Len(v) /\ u[p] = v[p] BY <1>1, <1>3, <1>4
<1>6. p \notin 1 .. Len(s) BY <1>2, <1>5 DEF NoAttempt
<1>7. ASSUME NEW k \in Nat, NEW l, l = k + 1, NEW m, m = l + 1, p \in 1 .. l, p \notin 1 .. k
      PROVE  p = m - 1
  BY <1>7
<1>8. PICK k \in Nat : k = Len(s) BY <1>2
<1>9. PICK l : l = Len(v) OBVIOUS
<1>10. PICK m : m = Len(u) OBVIOUS
<1>11. l = k + 1 /\ m = l + 1 /\ p \in 1 .. l /\ p \notin 1 .. k
  BY <1>2, <1>3, <1>5, <1>6, <1>8, <1>9, <1>10
<1>12. p = m - 1 BY <1>7, <1>11
<1> QED BY <1>10, <1>12

-----------------------------------------------------------------------------
(* The script a tool begins with. *)

ScriptParts(hand, name, image, s) ==
  /\ Routine(hand, s)
  /\ name \in {"flash", "upgrade", "verify"} => Covered(s) /\ PubOnly(s, image) /\ HasPub(s)
  /\ name \notin {"flash", "upgrade"} => NoFlash(s)
  /\ name \notin {"run", "upgrade"} => NoAttempt(s)
  /\ name \in {"run", "upgrade"} => AttemptLate(s) /\ NoBoot(s)
  /\ name \in {"run", "upgrade", "confirm", "app_confirm_probe"} => s # <<>> /\ Concludes(s[Len(s)], name)

OtherTools == Tools \ {"flash", "upgrade", "verify", "run", "confirm", "app_confirm_probe"}

LEMMA SilentScript ==
  ASSUME NEW hand, NEW name \in OtherTools, NEW image, NEW s, Routine(hand, s), Silent(s)
  PROVE  ScriptParts(hand, name, image, s)
BY DEF ScriptParts, OtherTools, Silent

LEMMA SmoothTools ==
  ASSUME NEW hand, NEW image, NEW sectors,
         NEW name \in {"status", "attach-service", "program", "service_attach_probe", "ram_run",
                       "cpu1_ram_run", "metadata_probe", "workflow"},
         name = "program" => image \in Images
  PROVE  ScriptParts(hand, name, image, Script(name, image, sectors))
<1>0. name \in OtherTools BY DEF OtherTools, Tools
<1>1. PICK c : c = Connect OBVIOUS
<1>2. PICK b : b = collect_boot_status OBVIOUS
<1>3. PICK e : e = ensure_service_attached OBVIOUS
<1>4. PICK l : l = load_and_attach_service OBVIOUS
<1>5. PICK r : r = run_ram_image OBVIOUS
<1>6. Smooth(hand, c) /\ Smooth(hand, b) /\ Smooth(hand, e) /\ Smooth(hand, l) /\ Smooth(hand, r)
  BY <1>1, <1>2, <1>3, <1>4, <1>5, SmoothScripts
<1>7. Smooth(hand, Script(name, image, sectors))
  <2>1. CASE name = "status"
    BY <1>1, <1>2, <1>6, <2>1, SmoothJoin DEF Script, run_cpu1_status
  <2>2. CASE name = "attach-service"
    BY <1>1, <1>3, <1>6, <2>2, SmoothJoin DEF Script, run_cpu1_attach_service
  <2>3. CASE name = "program"
    <3>1. PICK p : p = program(image) OBVIOUS
    <3>2. Smooth(hand, p) BY <2>3, <3>1, SmoothPieces
    <3>3. Smooth(hand, c \o e \o p) BY <1>6, <3>2, SmoothJoin
    <3> QED BY <1>1, <1>3, <2>3, <3>1, <3>3 DEF Script, run_cpu1_program
  <2>4. CASE name = "service_attach_probe"
    BY <1>1, <1>4, <1>6, <2>4, SmoothJoin DEF Script, service_attach_probe
  <2>5. CASE name = "ram_run"
    BY <1>1, <1>5, <1>6, <2>5, SmoothJoin DEF Script, ram_run
  <2>6. CASE name = "cpu1_ram_run"
    BY <1>1, <1>5, <1>6, <2>6, SmoothJoin DEF Script, run_cpu1_ram_run
  <2>7. CASE name = "metadata_probe"
    <3>0. None \in SessionImages /\ {"GET_PROTOCOL_INFO", "GET_METADATA_SUMMARY", "MEMORY_READ"} \subseteq Plain
      BY DEF SessionImages, Plain, Reads
    <3>1. PICK x : x = Client("GET_PROTOCOL_INFO", None) OBVIOUS
    <3>2. PICK y : y = Client("GET_METADATA_SUMMARY", None) OBVIOUS
    <3>3. PICK z : z = Client("MEMORY_READ", None) OBVIOUS
    <3>4. Smooth(hand, x) /\ Smooth(hand, y) /\ Smooth(hand, z) BY <3>0, <3>1, <3>2, <3>3, SmoothPieces
    <3>5. Smooth(hand, c \o x \o y \o z) BY <1>6, <3>4, SmoothJoin
    <3> QED BY <1>1, <2>7, <3>1, <3>2, <3>3, <3>5 DEF Script, metadata_probe
  <2>8. CASE name = "workflow"
    BY <1>1, <1>6, <2>8 DEF Script
  <2> QED BY <2>1, <2>2, <2>3, <2>4, <2>5, <2>6, <2>7, <2>8
<1> QED BY <1>0, <1>7, SmoothIs, SilentScript

LEMMA EraseTools ==
  ASSUME NEW hand, hand, NEW image, NEW sectors \in Masks, NEW name \in {"erase", "service_flash_probe"},
         name = "service_flash_probe" => image \in Images
  PROVE  ScriptParts(hand, name, image, Script(name, image, sectors))
<1>0. name \in OtherTools BY DEF OtherTools, Tools
<1>1. PICK c : c = Connect OBVIOUS
<1>2. PICK e : e = ensure_service_attached OBVIOUS
<1>3. PICK l : l = load_and_attach_service OBVIOUS
<1>4. Smooth(hand, c) /\ Smooth(hand, e) /\ Smooth(hand, l) BY <1>1, <1>2, <1>3, SmoothScripts
<1>5. /\ Routine(hand, c \o e) /\ Silent(c \o e)
      /\ Routine(hand, c \o l) /\ Silent(c \o l)
  <2>1. Smooth(hand, c \o e) /\ Smooth(hand, c \o l) BY <1>4, SmoothJoin
  <2> QED BY <2>1, SmoothIs
<1>6. CASE name = "erase"
  <2>1. PICK m : m = erase_masks(sectors) OBVIOUS
  <2>2. Routine(hand, m) /\ Silent(m) BY <2>1, EraseMasksPiece DEF Decent
  <2>3. PICK ce : ce = c \o e OBVIOUS
  <2>4. PICK s : s = ce \o m OBVIOUS
  <2>5. Routine(hand, s) /\ Silent(s) BY <1>5, <2>2, <2>3, <2>4, RoutineJoin
  <2>6. Script(name, image, sectors) = s BY <1>1, <1>2, <1>6, <2>1, <2>3, <2>4 DEF Script, run_cpu1_erase
  <2> QED BY <1>0, <2>5, <2>6, SilentScript
<1>7. CASE name = "service_flash_probe"
  <2>1. PICK m : m = dfu(sectors, image) OBVIOUS
  <2>2. PICK w : w = workflow_run(image) OBVIOUS
  <2>3. Routine(hand, m) /\ Silent(m) /\ Routine(hand, w) /\ Silent(w)
    BY <1>7, <2>1, <2>2, DfuPiece, WorkflowRunPiece
  <2>4. PICK cl : cl = c \o l OBVIOUS
  <2>5. PICK clm : clm = cl \o m OBVIOUS
  <2>6. Routine(hand, clm) /\ Silent(clm) BY <1>5, <2>3, <2>4, <2>5, RoutineJoin
  <2>7. PICK s : s = clm \o w OBVIOUS
  <2>8. Routine(hand, s) /\ Silent(s) BY <2>3, <2>6, <2>7, RoutineJoin
  <2>9. Script(name, image, sectors) = s
    BY <1>1, <1>3, <1>7, <2>1, <2>2, <2>4, <2>5, <2>7 DEF Script, service_flash_probe
  <2> QED BY <1>0, <2>8, <2>9, SilentScript
<1> QED BY <1>6, <1>7

LEMMA SummaryAsked ==
  ASSUME NEW hand, NEW b, b = collect_boot_status
  PROVE  Smooth(hand, b) /\ b # <<>> /\ b[Len(b)].q.command = "GET_METADATA_SUMMARY"
<1>1. "GET_METADATA_SUMMARY" \in Plain /\ None \in SessionImages BY DEF Plain, Reads, SessionImages
<1>2. PICK s : s = Client("GET_METADATA_SUMMARY", None) OBVIOUS
<1>3. /\ Routine(hand, s) /\ Calm(s) /\ Len(s) = 1 /\ s # <<>>
      /\ s[1].q.command = "GET_METADATA_SUMMARY"
  BY <1>1, <1>2, ClientPiece
<1> QED BY <1>2, <1>3 DEF collect_boot_status, Smooth

\* A smooth list that ends by asking for the summary.
LEMMA AsksAtEnd ==
  ASSUME NEW hand, NEW s, Routine(hand, s), NEW b, b = collect_boot_status, NEW u, u = s \o b
  PROVE  /\ Routine(hand, u) /\ u # <<>> /\ u[Len(u)].q.command = "GET_METADATA_SUMMARY"
         /\ JoinFacts(s, b, u) /\ Calm(b) /\ (Calm(s) => Calm(u))
<1>1. Routine(hand, b) /\ Calm(b) /\ b # <<>> /\ b[Len(b)].q.command = "GET_METADATA_SUMMARY"
  BY SummaryAsked DEF Smooth
<1>2. s \in Seq(Steps) /\ b \in Seq(Steps) BY <1>1 DEF Routine, Chain
<1>3. JoinFacts(s, b, u) BY <1>2, JoinParts
<1>4. Routine(hand, u) BY <1>1, RoutineJoin
<1> QED BY <1>1, <1>3, <1>4 DEF JoinFacts

LEMMA VerifyTool ==
  ASSUME NEW hand, NEW image \in Images, NEW sectors
  PROVE  ScriptParts(hand, "verify", image, Script("verify", image, sectors))
<1>1. PICK c : c = Connect OBVIOUS
<1>2. PICK e : e = ensure_service_attached OBVIOUS
<1>3. PICK ce : ce = c \o e OBVIOUS
<1>4. Routine(hand, ce) /\ Decent(ce, image) /\ Covered(ce)
  <2>1. Smooth(hand, c) /\ Smooth(hand, e) BY <1>1, <1>2, SmoothScripts
  <2>2. Smooth(hand, ce) BY <1>3, <2>1, SmoothJoin
  <2> QED BY <2>2, SmoothIs
<1>5. PICK w : w = verify_app_and_write_image_valid(image) OBVIOUS
<1>6. Routine(hand, w) /\ Decent(w, image) /\ HasPub(w) /\ Covered(w)
  <2>1. PICK v : v = verify(image) OBVIOUS
  <2>2. Smooth(hand, v) /\ EndsVerify(v, image) BY <2>1, VerifyPiece
  <2>3. Routine(hand, v) /\ Decent(v, image) BY <2>2, SmoothIs
  <2>4. PICK x : x = v \o Append_("client", "IMAGE_VALID", image) OBVIOUS
  <2>5. Routine(hand, x) /\ Decent(x, image) /\ HasPub(x) /\ Covered(x)
    BY <2>2, <2>3, <2>4, PublishAfter
  <2> QED BY <1>5, <2>1, <2>4, <2>5 DEF verify_app_and_write_image_valid
<1>7. PICK s : s = ce \o w OBVIOUS
<1>8. Routine(hand, s) /\ Decent(s, image) /\ HasPub(s) /\ Covered(s) BY <1>4, <1>6, <1>7, RoutineJoin
<1>9. Script("verify", image, sectors) = s
  BY <1>1, <1>2, <1>3, <1>5, <1>7 DEF Script, run_cpu1_verify
<1>10. ScriptParts(hand, "verify", image, s) BY <1>8 DEF ScriptParts, Decent, Silent
<1> QED BY <1>9, <1>10

LEMMA FlashTools ==
  ASSUME NEW hand, NEW image, NEW sectors
  PROVE  /\ ScriptParts(hand, "flash", image, Script("flash", image, sectors))
         /\ ScriptParts(hand, "upgrade", image, Script("upgrade", image, sectors))
         /\ ScriptParts(hand, "run", image, Script("run", image, sectors))
<1>0. "flash?" \in Deciders /\ "attempt?" \in Deciders /\ "send_run" \in Deciders /\ "send_run" \notin FreshDos
  BY DEF Deciders, FreshDos
<1>1. PICK c : c = Connect OBVIOUS
<1>2. PICK b : b = collect_boot_status OBVIOUS
<1>3. PICK cb : cb = c \o b OBVIOUS
<1>4. /\ Routine(hand, cb) /\ Calm(cb) /\ cb # <<>> /\ cb[Len(cb)].q.command = "GET_METADATA_SUMMARY"
  <2>1. Routine(hand, c) /\ Calm(c) BY <1>1, SmoothScripts DEF Smooth
  <2> QED BY <1>2, <1>3, <2>1, AsksAtEnd
<1>5. /\ cb \in Seq(Steps) /\ Covered(cb) /\ Silent(cb) /\ NoBoot(cb) /\ PubOnly(cb, image)
  BY <1>4, CalmIs DEF Routine, Chain
<1>6. PICK f : f = Do("flash?") OBVIOUS
<1>7. PICK a : a = Do("attempt?") OBVIOUS
<1>8. PICK r : r = Do("send_run") OBVIOUS
<1>9. /\ Covered(f) /\ PubOnly(f, image) /\ HasPub(f) /\ NoBoot(f) /\ NoAttempt(f)
      /\ Covered(a) /\ PubOnly(a, image) /\ NoBoot(a) /\ NoFlash(a)
      /\ Covered(r) /\ PubOnly(r, image) /\ NoBoot(r) /\ NoFlash(r)
  <2>1. Covered(f) /\ PubOnly(f, image) /\ HasPub(f) /\ NoBoot(f) /\ Len(f) = 1 /\ f[1].do = "flash?"
    BY <1>0, <1>6, DoParts
  <2>2. Covered(a) /\ PubOnly(a, image) /\ NoBoot(a) /\ Len(a) = 1 /\ a[1].do = "attempt?"
    BY <1>0, <1>7, DoParts
  <2>3. Covered(r) /\ PubOnly(r, image) /\ NoBoot(r) /\ Silent(r) BY <1>0, <1>8, DoParts
  <2>4. NoAttempt(f) /\ NoFlash(a)
    <3>1. \A p \in 1 .. Len(f) : p = 1 BY <2>1
    <3>2. \A p \in 1 .. Len(a) : p = 1 BY <2>2
    <3> QED BY <2>1, <2>2, <3>1, <3>2 DEF NoAttempt, NoFlash
  <2> QED BY <2>1, <2>2, <2>3, <2>4 DEF Silent
<1>10. PICK fl : fl = cb \o f OBVIOUS
<1>11. /\ Routine(hand, fl) /\ fl # <<>> /\ fl[Len(fl)].do = "flash?" /\ JoinFacts(cb, f, fl)
  <2>1. Timely(cb, "flash?") BY <1>4 DEF Timely
  <2>2. DoneAfter(hand, cb, "flash?", f, fl) BY <1>0, <1>4, <1>6, <1>10, <2>1, DoAfter
  <2> QED BY <2>2 DEF DoneAfter
<1>12. /\ Covered(fl) /\ PubOnly(fl, image) /\ HasPub(fl) /\ NoBoot(fl) /\ NoAttempt(fl) /\ fl \in Seq(Steps)
  BY <1>5, <1>9, <1>11 DEF JoinFacts, Silent, Routine, Chain
<1>13. ScriptParts(hand, "flash", image, fl) BY <1>11, <1>12 DEF ScriptParts
<1>14. Script("flash", image, sectors) = fl
  BY <1>1, <1>2, <1>3, <1>6, <1>10 DEF Script, run_cpu1_flash
<1>15. PICK ua : ua = fl \o a OBVIOUS
<1>16. Routine(hand, ua) /\ ua # <<>> /\ JoinFacts(fl, a, ua)
  <2>1. Timely(fl, "attempt?") BY <1>11 DEF Timely
  <2>2. DoneAfter(hand, fl, "attempt?", a, ua) BY <1>0, <1>7, <1>11, <1>15, <2>1, DoAfter
  <2> QED BY <2>2 DEF DoneAfter
<1>17. Covered(ua) /\ PubOnly(ua, image) /\ HasPub(ua) /\ NoBoot(ua)
  BY <1>9, <1>12, <1>16 DEF JoinFacts
<1>18. PICK u : u = ua \o r OBVIOUS
<1>19. Routine(hand, u) /\ u # <<>> /\ u[Len(u)].do = "send_run" /\ JoinFacts(ua, r, u)
  <2>1. Timely(ua, "send_run") BY <1>0 DEF Timely
  <2>2. DoneAfter(hand, ua, "send_run", r, u) BY <1>0, <1>8, <1>16, <1>18, <2>1, DoAfter
  <2> QED BY <2>2 DEF DoneAfter
<1>20. Covered(u) /\ PubOnly(u, image) /\ HasPub(u) /\ NoBoot(u)
  BY <1>9, <1>17, <1>19 DEF JoinFacts
<1>21. AttemptLate(u) BY <1>7, <1>8, <1>12, <1>15, <1>18, AttemptBeforeLast
<1>22. ScriptParts(hand, "upgrade", image, u)
  BY <1>19, <1>20, <1>21 DEF ScriptParts, Concludes
<1>23. Script("upgrade", image, sectors) = u
  BY <1>1, <1>2, <1>3, <1>6, <1>7, <1>8, <1>10, <1>15, <1>18 DEF Script, run_cpu1_upgrade, run_cpu1_flash
<1>24. PICK ra : ra = cb \o a OBVIOUS
<1>25. Routine(hand, ra) /\ ra # <<>> /\ JoinFacts(cb, a, ra)
  <2>1. Timely(cb, "attempt?") BY <1>4 DEF Timely
  <2>2. DoneAfter(hand, cb, "attempt?", a, ra) BY <1>0, <1>4, <1>7, <1>24, <2>1, DoAfter
  <2> QED BY <2>2 DEF DoneAfter
<1>26. NoFlash(ra) /\ NoBoot(ra) BY <1>5, <1>9, <1>25 DEF JoinFacts, Silent
<1>27. PICK v : v = ra \o r OBVIOUS
<1>28. Routine(hand, v) /\ v # <<>> /\ v[Len(v)].do = "send_run" /\ JoinFacts(ra, r, v)
  <2>1. Timely(ra, "send_run") BY <1>0 DEF Timely
  <2>2. DoneAfter(hand, ra, "send_run", r, v) BY <1>0, <1>8, <1>25, <1>27, <2>1, DoAfter
  <2> QED BY <2>2 DEF DoneAfter
<1>29. NoFlash(v) /\ NoBoot(v) BY <1>9, <1>26, <1>28 DEF JoinFacts
<1>30. AttemptLate(v) BY <1>5, <1>7, <1>8, <1>24, <1>27, AttemptBeforeLast DEF Silent
<1>31. ScriptParts(hand, "run", image, v)
  BY <1>28, <1>29, <1>30 DEF ScriptParts, Concludes
<1>32. Script("run", image, sectors) = v
  BY <1>1, <1>2, <1>3, <1>7, <1>8, <1>24, <1>27 DEF Script, run_cpu1_run
<1> QED BY <1>13, <1>14, <1>22, <1>23, <1>31, <1>32

\* "confirm", the summary, and the decision on it.
LEMMA ConfirmEnd ==
  ASSUME NEW hand, NEW s, Routine(hand, s), Silent(s), NEW u,
         u = s \o Do("confirm") \o collect_boot_status \o Do("confirmed?")
  PROVE  Routine(hand, u) /\ Silent(u) /\ u # <<>> /\ u[Len(u)].do = "confirmed?"
<1>0. "confirm" \in Deciders /\ "confirm" \notin FreshDos /\ "confirmed?" \in Deciders
  BY DEF Deciders, FreshDos
<1>1. PICK c : c = Do("confirm") OBVIOUS
<1>2. PICK b : b = collect_boot_status OBVIOUS
<1>3. PICK e : e = Do("confirmed?") OBVIOUS
<1>4. Routine(hand, c) /\ Silent(c) BY <1>0, <1>1, DoPiece, DoParts
<1>5. Silent(e) BY <1>0, <1>3, DoParts
<1>6. PICK sc : sc = s \o c OBVIOUS
<1>7. Routine(hand, sc) /\ Silent(sc) BY <1>4, <1>6, RoutineJoin
<1>8. PICK scb : scb = sc \o b OBVIOUS
<1>9. Routine(hand, scb) /\ Silent(scb) /\ scb # <<>> /\ scb[Len(scb)].q.command = "GET_METADATA_SUMMARY"
  <2>1. /\ Routine(hand, scb) /\ scb # <<>> /\ scb[Len(scb)].q.command = "GET_METADATA_SUMMARY"
        /\ JoinFacts(sc, b, scb) /\ Calm(b)
    BY <1>2, <1>7, <1>8, AsksAtEnd
  <2>2. Silent(b) BY <2>1, CalmIs
  <2> QED BY <1>7, <2>1, <2>2 DEF JoinFacts, Silent
<1>10. PICK v : v = scb \o e OBVIOUS
<1>11. Timely(scb, "confirmed?") BY <1>9 DEF Timely
<1>12. DoneAfter(hand, scb, "confirmed?", e, v) BY <1>0, <1>3, <1>9, <1>10, <1>11, DoAfter
<1>13. Routine(hand, v) /\ Silent(v) /\ v # <<>> /\ v[Len(v)].do = "confirmed?"
  BY <1>5, <1>9, <1>12 DEF DoneAfter, JoinFacts, Silent
<1>14. u = v BY <1>1, <1>2, <1>3, <1>6, <1>8, <1>10
<1> QED BY <1>13, <1>14

LEMMA ConfirmTools ==
  ASSUME NEW hand, NEW image, NEW sectors
  PROVE  /\ ScriptParts(hand, "confirm", image, Script("confirm", image, sectors))
         /\ ScriptParts(hand, "app_confirm_probe", image, Script("app_confirm_probe", image, sectors))
<1>1. PICK c : c = Connect OBVIOUS
<1>2. PICK b : b = collect_boot_status OBVIOUS
<1>3. PICK m : m = Do("confirmable?") OBVIOUS
<1>4. PICK e : e = ensure_service_attached OBVIOUS
<1>5. PICK l : l = load_and_attach_service OBVIOUS
<1>6. Smooth(hand, c) /\ Smooth(hand, b) /\ Smooth(hand, m) /\ Smooth(hand, e) /\ Smooth(hand, l)
  BY <1>1, <1>2, <1>3, <1>4, <1>5, SmoothScripts, SmoothPieces
<1>7. PICK s1 : s1 = c \o b \o m \o e OBVIOUS
<1>8. PICK s2 : s2 = c \o l \o b \o m OBVIOUS
<1>9. Smooth(hand, s1) /\ Smooth(hand, s2) BY <1>6, <1>7, <1>8, SmoothJoin
<1>10. /\ Routine(hand, s1) /\ Silent(s1) /\ Routine(hand, s2) /\ Silent(s2) BY <1>9, SmoothIs
<1>11. PICK none : none = <<>> OBVIOUS
<1>12. Routine(hand, none) /\ Silent(none)
  <2>1. none \in Seq(Steps) /\ Len(none) = 0 BY <1>11
  <2>2. (\A p \in 1 .. Len(none) : FALSE) /\ (\A p \in 1 .. Len(none) - 1 : FALSE) BY <2>1
  <2> QED BY <1>11, <2>1, <2>2 DEF Routine, Chain, Silent, NoFlash, NoAttempt
<1>13. PICK w : w = none \o Do("confirm") \o collect_boot_status \o Do("confirmed?") OBVIOUS
<1>14. Routine(hand, w) /\ Silent(w) /\ w # <<>> /\ w[Len(w)].do = "confirmed?"
  BY <1>12, <1>13, ConfirmEnd
<1>15. w = write_app_confirmed_and_verify
  <2>1. "confirm" \in Deciders BY DEF Deciders
  <2>2. PICK x : x = Do("confirm") OBVIOUS
  <2>3. x \in Seq(Steps) BY <2>1, <2>2, DoParts
  <2>4. none \in Seq(Steps) BY <1>11
  <2>5. none \o x = x BY <1>11, <2>3, <2>4, JoinedSteps
  <2> QED BY <1>13, <2>2, <2>5 DEF write_app_confirmed_and_verify
<1>16. PICK u : u = s1 \o w OBVIOUS
<1>17. Routine(hand, u) /\ Silent(u) /\ u # <<>> /\ u[Len(u)].do = "confirmed?"
  <2>1. s1 \in Seq(Steps) /\ w \in Seq(Steps) BY <1>10, <1>14 DEF Routine, Chain
  <2>2. JoinFacts(s1, w, u) BY <1>16, <2>1, JoinParts
  <2>3. Routine(hand, u) /\ Silent(u) BY <1>10, <1>14, <1>16, RoutineJoin
  <2> QED BY <1>14, <2>2, <2>3 DEF JoinFacts
<1>18. Script("confirm", image, sectors) = u
  BY <1>1, <1>2, <1>3, <1>4, <1>7, <1>15, <1>16 DEF Script, run_cpu1_confirm
<1>19. PICK v : v = s2 \o Do("confirm") \o collect_boot_status \o Do("confirmed?") OBVIOUS
<1>20. Routine(hand, v) /\ Silent(v) /\ v # <<>> /\ v[Len(v)].do = "confirmed?"
  BY <1>10, <1>19, ConfirmEnd
<1>21. Script("app_confirm_probe", image, sectors) = v
  BY <1>1, <1>2, <1>3, <1>5, <1>8, <1>19 DEF Script, app_confirm_probe
<1>22. ScriptParts(hand, "confirm", image, u) BY <1>17 DEF ScriptParts, Concludes, Silent
<1>23. ScriptParts(hand, "app_confirm_probe", image, v) BY <1>20 DEF ScriptParts, Concludes, Silent
<1> QED BY <1>18, <1>21, <1>22, <1>23

\* Every script is sound to begin with.
LEMMA Scripts ==
  ASSUME NEW hand, NEW name \in Tools, name \in ByHand => hand, NEW image, NEW sectors,
         name \in TakesImage => image \in Images, name \in TakesMask => sectors \in Masks
  PROVE  ScriptParts(hand, name, image, Script(name, image, sectors))
<1>1. CASE name \in {"status", "attach-service", "program", "service_attach_probe", "ram_run",
                     "cpu1_ram_run", "metadata_probe", "workflow"}
  BY <1>1, SmoothTools DEF TakesImage
<1>2. CASE name \in {"erase", "service_flash_probe"}
  BY <1>2, EraseTools DEF TakesImage, TakesMask, ByHand
<1>3. CASE name = "verify" BY <1>3, VerifyTool DEF TakesImage
<1>4. CASE name \in {"flash", "upgrade", "run"} BY <1>4, FlashTools
<1>5. CASE name \in {"confirm", "app_confirm_probe"} BY <1>5, ConfirmTools
<1> QED BY <1>1, <1>2, <1>3, <1>4, <1>5 DEF Tools

LEMMA FreeNeeds ==
  ASSUME NEW hand, NEW x, Free(hand, x), NEW d, NEW s
  PROVE  Need(hand, x, d, s)
BY DEF Free, Need

\* A tool that begins with list s.
LEMMA NewToolInv ==
  ASSUME NEW d, DeviceInv(d), NEW name \in Tools, NEW image \in Images \cup {None},
         name \in {"flash", "upgrade", "verify"} => image \in Images,
         NEW hand \in BOOLEAN, hand = (name \in ByHand), NEW s, ScriptParts(hand, name, image, s),
         NEW t \in ToolType, t.name = name, t.image = image, t.todo = s, t.attempted = FALSE
  PROVE  ToolInv(t, d)
<1>1. Routine(hand, s) BY DEF ScriptParts
<1>2. ListInv(t, d)
  <2>1. t.todo # <<>> => Need(hand, t.todo[1], d, t.summary) BY <1>1, FreeNeeds DEF Routine
  <2>2. Chain(hand, t.todo) BY <1>1 DEF Routine
  <2> QED BY <2>1, <2>2, Zenon DEF ListInv
<1>3. PublishInv(t, d) BY DEF PublishInv, ScriptParts
<1>4. AttemptInv(t, d) BY DEF AttemptInv, ScriptParts
<1>5. EndInv(t, d)
  <2>1. CASE name \in {"run", "upgrade", "confirm", "app_confirm_probe"}
    BY <2>1 DEF EndInv, ScriptParts
  <2>2. CASE name \notin {"run", "upgrade", "confirm", "app_confirm_probe"}
    BY <2>2 DEF EndInv, Concluded, Concludes
  <2> QED BY <2>1, <2>2
<1> QED BY <1>2, <1>3, <1>4, <1>5 DEF ToolInv

-----------------------------------------------------------------------------
(* What a request does to the device. *)

\* The step asks for a record.
Appends(x) == x.q.command = "METADATA_APPEND_RECORD"

StepFacts(x, d, r) ==
  /\ DeviceInv(r.device)
  /\ ~Erases(x) => \A a \in Addresses : d.flash[a] # None => r.device.flash[a] = d.flash[a]
  /\ x.do # "modify" => r.device.flash = d.flash
  /\ ~Erases(x) /\ ~Appends(x) => r.device.journal = d.journal
  /\ Erases(x) => /\ r.device.journal \in {<<>>, d.journal}
                  /\ "app" \notin x.q.sectors => r.device.flash = d.flash
  /\ Publishes(x) => \/ r.device = d /\ r.status # "OK"
                     \/ Summary(r.device).image = x.q.image /\ Summary(r.device).attempts = 0
  /\ Appends(x) /\ ~Publishes(x) => Summary(r.device).image = Summary(d).image
  /\ Appends(x) /\ ~Publishes(x) /\ ~Attempts(x) => Summary(r.device).attempts = Summary(d).attempts
  /\ Attempts(x) /\ ~Summary(d).confirmed /\ r.status = "OK" =>
       Summary(r.device).attempts = Summary(d).attempts + 1
  /\ x.q.command = "RUN" /\ r.status = "OK" => Summary(d).confirmed \/ Summary(d).attempts > 0

\* What the step after an answered one rests on is true.
NextNeed(hand, x, d, r) ==
  \A y, s : /\ r.status = "OK" /\ Shape(y) /\ Gives(x, y)
            /\ x.q.command = "GET_METADATA_SUMMARY" => s = Summary(d)
            => Need(hand, y, r.device, s)

LEMMA QuietStep ==
  ASSUME NEW x, NEW d, NEW r, ~Erases(x), ~Appends(x), x.q.command # "RUN",
         DeviceInv(r.device), SameStore(d, r.device)
  PROVE  StepFacts(x, d, r)
BY DEF StepFacts, SameStore, Publishes, Attempts, Appends

LEMMA ReadStep ==
  ASSUME NEW hand, NEW x, Shape(x), NEW d, DeviceInv(d), NEW fault, NEW r, r = Respond(d, x.q, fault),
         x.q.command \in Reads \cup {"RUN", "RUN_RAM"}
  PROVE  StepFacts(x, d, r) /\ NextNeed(hand, x, d, r)
<1>0. x.q.command \notin {"none", "ERASE", "METADATA_APPEND_RECORD", "BEGIN", "DATA", "END"}
  BY DEF Reads
<1>1. x.q.type = "none" BY <1>0 DEF Shape, TransferCommands
<1>2. r.device = d BY <1>1, ReadEffect
<1>3. x.q.command = "RUN" /\ r.status = "OK" => Summary(d).confirmed \/ Summary(d).attempts > 0
  BY <1>1, RunEffect
<1>4. StepFacts(x, d, r)
  BY <1>0, <1>2, <1>3 DEF StepFacts, Publishes, Attempts, Appends, Erases
<1>5. x.do \notin Deciders BY <1>0 DEF Shape
<1>6. x.do # "flash?" BY <1>5 DEF Deciders
<1>7. NextNeed(hand, x, d, r)
  <2> SUFFICES ASSUME NEW y, NEW s, r.status = "OK", Shape(y), Gives(x, y),
                      x.q.command = "GET_METADATA_SUMMARY" => s = Summary(d)
               PROVE  Need(hand, y, r.device, s)
    BY DEF NextNeed
  <2>1. y.do \in FreshDos /\ x.q.command = "GET_METADATA_SUMMARY"
    BY <1>0, <1>6 DEF Gives, Erases
  <2>2. y.q.command = "none"
    BY <2>1 DEF Shape, FreshDos, Deciders
  <2> QED BY <1>2, <2>1, <2>2 DEF Need, Publishes, ErasesApp, Erases
<1> QED BY <1>4, <1>7

LEMMA RamStep ==
  ASSUME NEW hand, NEW x, Shape(x), NEW d, DeviceInv(d), NEW fault, NEW r, r = Respond(d, x.q, fault),
         x.q.command \in {"RAM_CHECK_CRC", "SERVICE_ATTACH"}
  PROVE  StepFacts(x, d, r) /\ NextNeed(hand, x, d, r)
<1>0. x.q.type = "none" BY DEF Shape, TransferCommands
<1>1. DeviceInv(r.device) /\ SameStore(d, r.device) BY <1>0, CrcEffect, AttachEffect
<1>2. StepFacts(x, d, r) BY <1>1, QuietStep DEF Erases, Appends
<1>3. x.do # "flash?" BY DEF Shape, Deciders
<1>4. \A y : ~Gives(x, y) BY <1>3 DEF Gives, Erases
<1> QED BY <1>2, <1>4 DEF NextNeed

LEMMA EraseStep ==
  ASSUME NEW hand, NEW x, Shape(x), NEW d, DeviceInv(d), NEW fault, NEW r, r = Respond(d, x.q, fault),
         Erases(x)
  PROVE  StepFacts(x, d, r) /\ NextNeed(hand, x, d, r)
<1>1. /\ DeviceInv(r.device)
      /\ "app" \notin x.q.sectors => r.device.flash = d.flash
      /\ r.device.journal \in {<<>>, d.journal}
      /\ r.status = "OK" => ("metadata" \in x.q.sectors => r.device.journal = <<>>)
  BY EraseEffect DEF Erases
<1>2. x.do = "modify" BY DEF Shape, Erases
<1>3. StepFacts(x, d, r) BY <1>1, <1>2 DEF StepFacts, Publishes, Attempts, Appends, Erases
<1>4. ASSUME NEW y, NEW s, r.status = "OK", Shape(y), Gives(x, y) PROVE Need(hand, y, r.device, s)
  <2>1. ErasesApp(y) /\ "metadata" \in x.q.sectors
    BY <1>2, <1>4 DEF Gives, Erases
  <2>2. y.q.command = "ERASE" /\ y.do = "modify" BY <1>4, <2>1 DEF ErasesApp, Erases, Shape
  <2>3. y.do \notin FreshDos BY <2>2 DEF FreshDos
  <2> QED BY <1>1, <1>4, <2>1, <2>2, <2>3 DEF Need, Publishes
<1> QED BY <1>3, <1>4 DEF NextNeed

LEMMA AppendStep ==
  ASSUME NEW hand, NEW x, Shape(x), NEW d, DeviceInv(d), NEW fault, NEW r, r = Respond(d, x.q, fault),
         Appends(x)
  PROVE  StepFacts(x, d, r) /\ NextNeed(hand, x, d, r)
<1>0. /\ x.q.type \in RecordTypes /\ x.q.image \in Images \cup {None}
      /\ Publishes(x) => x.q.image \in Images
      /\ x.q.command = "METADATA_APPEND_RECORD" /\ ~Erases(x)
  BY DEF Shape, Appends, Publishes, Erases
<1>1. \A y : ~Gives(x, y)
  <2>1. x.do # "flash?" BY <1>0 DEF Shape, Deciders
  <2> QED BY <1>0, <2>1 DEF Gives, Erases
<1>2. Summary(d).attempts \in Nat BY SummaryFields DEF DeviceInv, DeviceType
<1>3. CASE x.q.image = None
  <2>1. ~Publishes(x) BY <1>0, <1>3, PositiveNumbers DEF None
  <2>2. r.device = d BY <1>0, <1>3, <2>1, NamelessRecord DEF Publishes
  <2>3. Attempts(x) /\ ~Summary(d).confirmed => r.status # "OK"
    <3> SUFFICES ASSUME Attempts(x), ~Summary(d).confirmed PROVE r.status # "OK" OBVIOUS
    <3>1. r = Fail(d, "UNSUPPORTED_FEATURE") \/ r = AppendCurrent(d, "BOOT_ATTEMPT", None)
      BY <1>0, <1>3 DEF Respond, Reads, Attempts
    <3>2. r = AppendCurrent(d, "BOOT_ATTEMPT", None) => \E status : status # "OK" /\ r = Fail(d, status)
      BY DEF AppendCurrent
    <3>3. CASE r = Fail(d, "UNSUPPORTED_FEATURE") BY <3>3 DEF Fail
    <3>4. CASE r = AppendCurrent(d, "BOOT_ATTEMPT", None)
      <4>1. PICK status : status # "OK" /\ r = Fail(d, status) BY <3>2, <3>4
      <4> QED BY <4>1 DEF Fail
    <3> QED BY <3>1, <3>3, <3>4
  <2> QED BY <1>0, <1>1, <2>1, <2>2, <2>3 DEF StepFacts, NextNeed
<1>4. CASE x.q.image \in Images
  <2>1. /\ DeviceInv(r.device) /\ r.device.flash = d.flash
        /\ r.device = d \/ x.q.type = "IMAGE_VALID" \/ x.q.image = Summary(d).image
        /\ r.device = d \/ Wrote(d, r.device, x.q.type, x.q.image)
        /\ r.status = "OK" /\ (x.q.type = "IMAGE_VALID" \/ ~Summary(d).confirmed) =>
              Wrote(d, r.device, x.q.type, x.q.image)
    BY <1>0, <1>4, AppendEffect
  <2>2. CASE Publishes(x)
    <3>1. x.q.type = "IMAGE_VALID" BY <2>2 DEF Publishes
    <3>2. CASE Wrote(d, r.device, "IMAGE_VALID", x.q.image)
      <4>1. Summary(r.device).image = x.q.image /\ Summary(r.device).attempts = 0
        <5>1. PICK image \in Images : image = x.q.image BY <1>4
        <5>2. PICK e : e = r.device OBVIOUS
        <5>3. Wrote(d, e, "IMAGE_VALID", image) BY <3>2, <5>1, <5>2
        <5>4. Summary(e).image = image /\ Summary(e).attempts = 0 BY <5>3, PublishedSummary, ZenonT(40)
        <5> QED BY <5>1, <5>2, <5>4
      <4> QED BY <1>0, <1>1, <2>1, <2>2, <3>1, <4>1 DEF StepFacts, NextNeed, Attempts
    <3>3. CASE r.device = d /\ r.status # "OK"
      BY <1>0, <1>1, <2>1, <2>2, <3>1, <3>3 DEF StepFacts, NextNeed, Attempts
    <3> QED BY <2>1, <3>1, <3>2, <3>3
  <2>3. CASE ~Publishes(x)
    <3>1. x.q.type \in {"BOOT_ATTEMPT", "APP_CONFIRMED"} BY <1>0, <2>3 DEF Publishes, RecordTypes
    <3>2. PICK type \in {"BOOT_ATTEMPT", "APP_CONFIRMED"} : type = x.q.type BY <3>1
    <3>3. CASE r.device = d
      <4>1. Attempts(x) /\ ~Summary(d).confirmed => r.status # "OK"
        <5> SUFFICES ASSUME Attempts(x), ~Summary(d).confirmed, r.status = "OK" PROVE FALSE OBVIOUS
        <5>1. PICK image \in Images : image = x.q.image BY <1>4
        <5>2. PICK journal : journal = WriteRecord(d, type, image).journal OBVIOUS
        <5>3. journal = d.journal BY <2>1, <3>2, <3>3, <5>1, <5>2 DEF Wrote
        <5>4. type \in RecordTypes BY <3>1, <3>2 DEF RecordTypes
        <5>5. Len(journal) = Len(d.journal) + 1 /\ Len(d.journal) \in Nat
          BY <5>1, <5>2, <5>4, RecordAppended
        <5> QED BY <5>3, <5>5
      <4> QED BY <1>0, <1>1, <2>1, <2>3, <3>3, <4>1 DEF StepFacts, NextNeed
    <3>4. CASE Wrote(d, r.device, type, Summary(d).image) /\ Summary(d).image \in Images
      <4>1. /\ Summary(r.device).image = Summary(d).image
            /\ Summary(r.device).attempts = IF type = "BOOT_ATTEMPT" THEN Summary(d).attempts + 1
                                            ELSE Summary(d).attempts
        BY <3>4, CountedSummary
      <4>2. Attempts(x) <=> type = "BOOT_ATTEMPT" BY <1>0, <3>2 DEF Attempts
      <4> QED BY <1>0, <1>1, <2>1, <2>3, <4>1, <4>2 DEF StepFacts, NextNeed
    <3>5. r.device # d => Wrote(d, r.device, type, Summary(d).image) /\ Summary(d).image \in Images
      BY <1>4, <2>1, <2>3, <3>1, <3>2
    <3> QED BY <3>3, <3>4, <3>5
  <2> QED BY <2>2, <2>3
<1> QED BY <1>0, <1>3, <1>4

\* The fields of a step of a transfer.
LEMMA TransferFields ==
  ASSUME NEW x, Shape(x), x.q.command \in TransferCommands
  PROVE  /\ x.q.type \in Transfers /\ x.q.image \in SessionImages /\ x.q.index \in Nat
         /\ x.q.type = "RAM_LOAD" => x.q.image \in {Service, RamApp}
         /\ x.q.type # "RAM_LOAD" => x.q.image \in Images
         /\ x.q.command = "DATA" => x.q.index < Packets(x.q.image)
         /\ x.do # "flash?" /\ ~Erases(x) /\ ~Appends(x) /\ x.q.command # "RUN" /\ ~Publishes(x)
         /\ x.do \notin FreshDos /\ ~ErasesApp(x)
         /\ x.q.type = "PROGRAM" => x.do = "modify"
<1>1. x.q \in Requests /\ x.q.command # "none" BY DEF Shape, Steps, TransferCommands
<1>2. x.do \notin Deciders BY <1>1 DEF Shape
<1>3. x.do # "flash?" /\ x.do \notin FreshDos BY <1>2 DEF Deciders, FreshDos
<1>4. ~Erases(x) /\ ~Appends(x) /\ x.q.command # "RUN" /\ ~Publishes(x) /\ ~ErasesApp(x)
  BY DEF TransferCommands, Erases, Appends, Publishes, ErasesApp
<1> QED BY <1>1, <1>3, <1>4 DEF Shape, Requests

LEMMA BeginStep ==
  ASSUME NEW hand, NEW x, Shape(x), NEW d, DeviceInv(d), NEW fault, NEW r, r = Respond(d, x.q, fault),
         x.q.command = "BEGIN"
  PROVE  StepFacts(x, d, r) /\ NextNeed(hand, x, d, r)
<1>0. x.q.command \in TransferCommands BY DEF TransferCommands
<1>1. /\ x.q.type \in Transfers /\ x.q.image \in SessionImages
      /\ x.q.type = "RAM_LOAD" => x.q.image \in {Service, RamApp}
      /\ x.do # "flash?" /\ ~Erases(x) /\ ~Appends(x) /\ x.q.command # "RUN"
  BY <1>0, TransferFields
<1>2. /\ DeviceInv(r.device) /\ SameStore(d, r.device)
      /\ r.status = "OK" => SessionMoved(d, r.device, x.q.type, Session(x.q.image))
  BY <1>1, BeginEffect
<1>3. StepFacts(x, d, r) BY <1>1, <1>2, QuietStep
<1>4. ASSUME NEW y, NEW s, r.status = "OK", Shape(y), Gives(x, y) PROVE Need(hand, y, r.device, s)
  <2>1. y.q.command = "DATA" /\ SameTransfer(x, y) /\ y.q.index = 0
    BY <1>1, <1>4 DEF Gives, Erases
  <2>2. y.q.command \in TransferCommands BY <2>1 DEF TransferCommands
  <2>3. ~Publishes(y) /\ y.do \notin FreshDos /\ ~ErasesApp(y) BY <1>4, <2>2, TransferFields
  <2>4. r.device.session[y.q.type] = [image |-> y.q.image, index |-> y.q.index]
    BY <1>1, <1>2, <1>4, <2>1 DEF SessionMoved, Session, SameTransfer
  <2>5. HoldsIn(r.device.flash, y.q.image, y.q.index) BY <2>1 DEF HoldsIn
  <2> QED BY <2>1, <2>3, <2>4, <2>5 DEF Need
<1> QED BY <1>3, <1>4 DEF NextNeed

LEMMA EndStep ==
  ASSUME NEW hand, NEW x, Shape(x), NEW d, DeviceInv(d), NEW s0, Need(hand, x, d, s0),
         NEW fault, NEW r, r = Respond(d, x.q, fault), x.q.command = "END"
  PROVE  StepFacts(x, d, r) /\ NextNeed(hand, x, d, r)
<1>0. x.q.command \in TransferCommands BY DEF TransferCommands
<1>1. /\ x.q.type \in Transfers
      /\ x.do # "flash?" /\ ~Erases(x) /\ ~Appends(x) /\ x.q.command # "RUN"
  BY <1>0, TransferFields
<1>2. DeviceInv(r.device) /\ SameStore(d, r.device) BY <1>1, EndEffect
<1>3. StepFacts(x, d, r) BY <1>1, <1>2, QuietStep
<1>4. ASSUME NEW y, NEW s, r.status = "OK", Shape(y), Gives(x, y) PROVE Need(hand, y, r.device, s)
  <2>1. Publishes(y) /\ x.q.type = "VERIFY" /\ x.q.image = y.q.image
    BY <1>1, <1>4 DEF Gives, Erases
  <2>2. HoldsIn(r.device.flash, y.q.image, y.q.image)
    BY <1>2, <2>1 DEF Need, SameStore
  <2>3. y.do \notin FreshDos
    <3>1. y.do \notin Deciders BY <1>4, <2>1 DEF Shape, Publishes
    <3> QED BY <3>1 DEF Deciders, FreshDos
  <2> QED BY <2>1, <2>2, <2>3 DEF Need, Publishes, ErasesApp, Erases
<1> QED BY <1>3, <1>4 DEF NextNeed

LEMMA DataStep ==
  ASSUME NEW hand, NEW x, Shape(x), NEW d, DeviceInv(d), NEW s0, Need(hand, x, d, s0),
         NEW fault, NEW r, r = Respond(d, x.q, fault), x.q.command = "DATA"
  PROVE  StepFacts(x, d, r) /\ NextNeed(hand, x, d, r)
<1>0. x.q.command \in TransferCommands BY DEF TransferCommands
<1>1. /\ x.q.type \in Transfers /\ x.q.image \in SessionImages /\ x.q.index \in Nat
      /\ x.q.type = "RAM_LOAD" => x.q.image \in {Service, RamApp}
      /\ x.q.type # "RAM_LOAD" => x.q.image \in Images
      /\ x.q.index < Packets(x.q.image)
      /\ x.do # "flash?" /\ ~Erases(x) /\ ~Appends(x) /\ x.q.command # "RUN" /\ ~Publishes(x)
      /\ x.q.type = "PROGRAM" => x.do = "modify"
  BY <1>0, TransferFields
<1>2. CASE d.session[x.q.type] = NoSession
  <2>1. DeviceInv(r.device) /\ SameStore(d, r.device) /\ r.status # "OK"
    BY <1>1, <1>2, MissingBeginEffect
  <2> QED BY <1>1, <2>1, QuietStep DEF NextNeed
<1>3. CASE d.session[x.q.type] = [image |-> x.q.image, index |-> x.q.index]
  <2>1. /\ DeviceInv(r.device) /\ r.device.journal = d.journal
        /\ x.q.type # "PROGRAM" \/ r.status # "OK" => r.device.flash = d.flash
        /\ r.status = "OK" =>
              /\ SessionMoved(d, r.device, x.q.type, [image |-> x.q.image, index |-> x.q.index + 1])
              /\ x.q.type = "PROGRAM" => /\ d.flash[x.q.index + 1] = None
                                         /\ PacketWritten(d, r.device, x.q.index + 1, x.q.image)
              /\ x.q.type = "VERIFY" => d.flash[x.q.index + 1] = x.q.image
    <3>1. PICK q : q = x.q OBVIOUS
    <3>2. /\ q.command = "DATA" /\ q.type \in Transfers /\ q.image \in SessionImages /\ q.index \in Nat
          /\ q.type = "RAM_LOAD" => q.image \in {Service, RamApp}
          /\ q.type # "RAM_LOAD" => q.image \in Images
          /\ q.index < Packets(q.image) /\ r = Respond(d, q, fault)
          /\ d.session[q.type] = [image |-> q.image, index |-> q.index]
      BY <1>1, <1>3, <3>1
    <3>3. /\ DeviceInv(r.device) /\ r.device.journal = d.journal
          /\ q.type # "PROGRAM" \/ r.status # "OK" => r.device.flash = d.flash
          /\ r.status = "OK" =>
              /\ SessionMoved(d, r.device, q.type, [image |-> q.image, index |-> q.index + 1])
              /\ q.type = "PROGRAM" => /\ d.flash[q.index + 1] = None
                                       /\ PacketWritten(d, r.device, q.index + 1, q.image)
              /\ q.type = "VERIFY" => d.flash[q.index + 1] = q.image
      BY <3>2, DataEffect
    <3> QED BY <3>1, <3>3
  <2>2. \A a \in Addresses : d.flash[a] # None => r.device.flash[a] = d.flash[a]
    <3>1. CASE x.q.type # "PROGRAM" \/ r.status # "OK" BY <2>1, <3>1
    <3>2. CASE x.q.type = "PROGRAM" /\ r.status = "OK" BY <2>1, <3>2 DEF PacketWritten
    <3> QED BY <3>1, <3>2
  <2>3. StepFacts(x, d, r)
    BY <1>1, <2>1, <2>2 DEF StepFacts, Appends, Attempts
  <2>4. ASSUME NEW y, NEW s, r.status = "OK", Shape(y), Gives(x, y) PROVE Need(hand, y, r.device, s)
    <3>1. /\ SameTransfer(x, y)
          /\ \/ y.q.command = "DATA" /\ y.q.index = x.q.index + 1
             \/ y.q.command = "END" /\ x.q.index + 1 = Packets(y.q.image)
      BY <1>1, <2>4 DEF Gives, Erases
    <3>2. y.q.command \in TransferCommands BY <3>1 DEF TransferCommands
    <3>3. ~Publishes(y) /\ y.do \notin FreshDos /\ ~ErasesApp(y) BY <2>4, <3>2, TransferFields
    <3>4. r.device.session[y.q.type] = [image |-> y.q.image, index |-> x.q.index + 1]
      BY <1>1, <2>1, <2>4, <3>1 DEF SessionMoved, SameTransfer
    <3>5. y.q.type = "VERIFY" => HoldsIn(r.device.flash, y.q.image, x.q.index + 1)
      <4> SUFFICES ASSUME y.q.type = "VERIFY" PROVE HoldsIn(r.device.flash, y.q.image, x.q.index + 1)
        OBVIOUS
      <4>1. x.q.type = "VERIFY" /\ x.q.image = y.q.image BY <3>1 DEF SameTransfer
      <4>2. HoldsIn(d.flash, x.q.image, x.q.index) /\ d.flash[x.q.index + 1] = x.q.image
            /\ r.device.flash = d.flash
        BY <2>1, <2>4, <4>1 DEF Need
      <4>3. \A a \in 1 .. x.q.index + 1 : a \in 1 .. x.q.index \/ a = x.q.index + 1 BY <1>1
      <4> QED BY <4>1, <4>2, <4>3 DEF HoldsIn
    <3>6. CASE y.q.command = "DATA" /\ y.q.index = x.q.index + 1
      BY <3>3, <3>4, <3>5, <3>6 DEF Need
    <3>7. CASE y.q.command = "END" /\ x.q.index + 1 = Packets(y.q.image)
      <4>1. y.q.type = "VERIFY" => HoldsIn(r.device.flash, y.q.image, y.q.image)
        <5>1. y.q.type = "VERIFY" => y.q.image \in Images BY <1>1, <3>1 DEF SameTransfer
        <5>2. y.q.type = "VERIFY" => Packets(y.q.image) = y.q.image
          BY <1>1, <3>1, <5>1, PacketsType DEF SameTransfer
        <5> QED BY <3>5, <3>7, <5>2
      <4> QED BY <3>3, <3>4, <3>7, <4>1 DEF Need
    <3> QED BY <3>1, <3>6, <3>7
  <2> QED BY <2>3, <2>4 DEF NextNeed
<1> QED BY <1>2, <1>3 DEF Need

LEMMA StepEffect ==
  ASSUME NEW hand, NEW x, Shape(x), x.do \notin Deciders, NEW d, DeviceInv(d), NEW s0,
         Need(hand, x, d, s0), NEW fault, NEW r, r = Respond(d, x.q, fault)
  PROVE  StepFacts(x, d, r) /\ NextNeed(hand, x, d, r)
<1>1. x.q.command \in Commands \ {"none"} BY DEF Shape, Steps, Requests
<1>2. CASE x.q.command \in Reads \cup {"RUN", "RUN_RAM"} BY <1>2, ReadStep
<1>3. CASE x.q.command \in {"RAM_CHECK_CRC", "SERVICE_ATTACH"} BY <1>3, RamStep
<1>4. CASE Erases(x) BY <1>4, EraseStep
<1>5. CASE Appends(x) BY <1>5, AppendStep
<1>6. CASE x.q.command = "BEGIN" BY <1>6, BeginStep
<1>7. CASE x.q.command = "DATA" BY <1>7, DataStep
<1>8. CASE x.q.command = "END" BY <1>8, EndStep
<1> QED BY <1>1, <1>2, <1>3, <1>4, <1>5, <1>6, <1>7, <1>8 DEF Commands, TransferCommands, Erases, Appends

-----------------------------------------------------------------------------
(* A tool after an answer. *)

LEMMA SameSummary ==
  ASSUME NEW x, NEW d, NEW r, StepFacts(x, d, r), ~Erases(x), ~Appends(x)
  PROVE  Summary(r.device) = Summary(d)
BY SummaryOfJournal DEF StepFacts

LEMMA AnsweredInv ==
  ASSUME NEW d, DeviceInv(d), NEW t, ToolInv(t, d), t.todo # <<>>, NEW x, x = t.todo[1],
         x.do \notin Deciders, NEW hand \in BOOLEAN, hand = (t.name \in ByHand),
         NEW r, r.status = "OK", StepFacts(x, d, r), NextNeed(hand, x, d, r),
         NEW u \in ToolType, u.name = t.name, u.image = t.image, u.todo = Tail(t.todo),
         u.attempted = t.attempted, x.q.command = "GET_METADATA_SUMMARY" => u.summary = Summary(d)
  PROVE  ToolInv(u, r.device)
<1>1. Chain(hand, t.todo) BY Zenon DEF ToolInv, ListInv
<1>2. PICK s \in Seq(Steps) : s = t.todo BY <1>1 DEF Chain
<1>3. PICK tail : tail = Tail(s) OBVIOUS
<1>4. TailFacts(s, tail) BY <1>2, <1>3, TailParts
<1>5. Chain(hand, tail) /\ Shape(x) /\ (tail # <<>> => Link(hand, x, tail[1]))
  BY <1>1, <1>2, <1>3, ChainTail
<1>6. u.todo = tail /\ s # <<>> /\ x = s[1] BY <1>2, <1>3
<1>7. ListInv(u, r.device)
  <2>1. ASSUME tail # <<>> PROVE Need(hand, tail[1], r.device, u.summary)
    <3>1. CASE Free(hand, tail[1]) BY <3>1, FreeNeeds
    <3>2. CASE Gives(x, tail[1])
      <4>1. Shape(tail[1])
        <5>1. tail \in Seq(Steps) BY <1>4 DEF TailFacts
        <5>2. Len(tail) \in Nat /\ Len(tail) # 0 BY <2>1, <5>1, NoSteps
        <5>3. 1 \in 1 .. Len(tail) BY <5>2
        <5> QED BY <1>5, <5>3 DEF Chain
      <4> QED BY <3>2, <4>1 DEF NextNeed
    <3> QED BY <1>5, <2>1, <3>1, <3>2 DEF Link
  <2>2. u.todo # <<>> => Need(hand, u.todo[1], r.device, u.summary) BY <1>6, <2>1
  <2>3. Chain(hand, u.todo) BY <1>5, <1>6
  <2> QED BY <2>2, <2>3, Zenon DEF ListInv
<1>8. x.do \notin {"flash?", "flash", "attempt?", "send_run", "confirmed?"} BY DEF Deciders
<1>9. PublishInv(u, r.device)
  <2>1. PublishInv(t, d) BY DEF ToolInv
  <2>2. u.name \notin {"flash", "upgrade"} => NoFlash(u.todo)
    BY <1>2, <1>4, <1>6, <2>1 DEF PublishInv, TailFacts
  <2>3. ASSUME u.name \in {"flash", "upgrade", "verify"}
        PROVE  /\ u.image \in Images /\ Covered(tail) /\ PubOnly(tail, u.image)
               /\ Summary(r.device).image = u.image \/ HasPub(tail)
    <3>1. /\ t.image \in Images /\ Covered(s) /\ PubOnly(s, t.image)
          /\ Summary(d).image = t.image \/ HasPub(s)
      BY <1>2, <2>1, <2>3 DEF PublishInv
    <3>2. /\ Covered(tail) /\ PubOnly(tail, t.image) /\ (Erases(x) => HasPub(tail))
          /\ Publishes(x) => x.q.image = t.image
          /\ HasPub(s) => Pub(x) \/ HasPub(tail)
      BY <1>4, <1>6, <3>1 DEF TailFacts
    <3>3. CASE Erases(x) BY <3>1, <3>2, <3>3
    <3>4. CASE Publishes(x) BY <3>1, <3>2, <3>4 DEF StepFacts
    <3>5. CASE ~Erases(x) /\ ~Publishes(x)
      <4>1. Summary(r.device).image = Summary(d).image
        <5>1. CASE Appends(x) BY <3>5, <5>1 DEF StepFacts
        <5>2. CASE ~Appends(x) BY <3>5, <5>2, SameSummary
        <5> QED BY <5>1, <5>2
      <4>2. ~Pub(x) BY <1>8, <3>5 DEF Pub
      <4> QED BY <3>1, <3>2, <4>1, <4>2
    <3> QED BY <3>3, <3>4, <3>5
  <2> QED BY <1>6, <2>2, <2>3 DEF PublishInv
<1>10. AttemptInv(u, r.device)
  <2>1. AttemptInv(t, d) BY DEF ToolInv
  <2>2. /\ u.name \notin {"run", "upgrade"} => NoAttempt(u.todo) /\ ~u.attempted
        /\ u.name \in {"run", "upgrade"} /\ ~u.attempted => AttemptLate(u.todo) /\ NoBoot(u.todo)
    BY <1>2, <1>4, <1>6, <2>1 DEF AttemptInv, TailFacts
  <2>3. ASSUME u.attempted
        PROVE  \/ Calm(tail) /\ Summary(r.device).attempts = 1
               \/ /\ Boot(tail, Summary(r.device).image) /\ Summary(r.device).image # None
                  /\ Summary(r.device).attempts = 0 /\ ~Summary(r.device).confirmed
    <3>1. CASE Calm(s) /\ Summary(d).attempts = 1
      <4>1. Calm(tail) /\ Harmless(x) BY <1>4, <1>6, <3>1 DEF TailFacts
      <4>2. Summary(r.device) = Summary(d) BY <4>1, SameSummary DEF Harmless, Erases, Appends
      <4> QED BY <3>1, <4>1, <4>2
    <3>2. CASE /\ Boot(s, Summary(d).image) /\ Summary(d).image # None
               /\ Summary(d).attempts = 0 /\ ~Summary(d).confirmed
      <4>1. CASE Boot(tail, Summary(d).image) /\ Harmless(x)
        <5>1. Summary(r.device) = Summary(d) BY <4>1, SameSummary DEF Harmless, Erases, Appends
        <5> QED BY <3>2, <4>1, <5>1
      <4>2. CASE Calm(tail) /\ Attempts(x)
        <5>1. Summary(r.device).attempts = 0 + 1 BY <3>2, <4>2 DEF StepFacts
        <5> QED BY <4>2, <5>1
      <4> QED BY <1>4, <1>6, <3>2, <4>1, <4>2 DEF TailFacts
    <3> QED BY <1>2, <2>1, <2>3, <3>1, <3>2 DEF AttemptInv
  <2> QED BY <1>6, <2>2, <2>3 DEF AttemptInv
<1>11. EndInv(u, r.device)
  <2>1. Concludes(s[Len(s)], t.name) BY <1>2 DEF ToolInv, EndInv
  <2>2. CASE tail # <<>>
    <3>1. s[Len(s)] = tail[Len(tail)] BY <1>4, <2>2 DEF TailFacts
    <3> QED BY <1>6, <2>1, <2>2, <3>1 DEF EndInv
  <2>3. CASE tail = <<>>
    <3>1. Concludes(x, t.name) BY <1>4, <1>6, <2>1, <2>3 DEF TailFacts
    <3>2. CASE t.name \in {"run", "upgrade"}
      <4>1. x.q.command = "RUN" BY <1>8, <3>1, <3>2 DEF Concludes
      <4>2. Summary(r.device) = Summary(d) BY <4>1, SameSummary DEF Erases, Appends
      <4>3. Summary(d).confirmed \/ Summary(d).attempts > 0 BY <4>1 DEF StepFacts
      <4> QED BY <1>6, <2>3, <3>2, <4>2, <4>3 DEF EndInv, Concluded
    <3>3. CASE t.name \in {"confirm", "app_confirm_probe"}
      BY <1>8, <3>1, <3>3 DEF Concludes
    <3>4. CASE t.name \notin {"run", "upgrade", "confirm", "app_confirm_probe"}
      BY <1>6, <2>3, <3>4 DEF EndInv, Concluded
    <3> QED BY <3>2, <3>3, <3>4
  <2> QED BY <2>2, <2>3
<1> QED BY <1>7, <1>9, <1>10, <1>11 DEF ToolInv

-----------------------------------------------------------------------------
(* A tool after a decision. *)

\* A list whose last step, and no other, writes a record: an attempt for image.
BootEnds(n, image) ==
  /\ n # <<>>
  /\ \A p \in 1 .. Len(n) : IF p = Len(n) THEN Attempts(n[p]) /\ n[p].q.image = image
                            ELSE Harmless(n[p])

\* What the list n that takes the place of decision x does.
Decided(hand, t, d, x, n) ==
  /\ Routine(hand, n) /\ NoAttempt(n) /\ Covered(n) /\ PubOnly(n, t.image)
  /\ x.do # "flash?" => NoFlash(n)
  /\ x.do = "flash?" => \/ n = <<>> /\ Summary(d).image = t.image
                        \/ n # <<>> /\ HasPub(n) /\ n[Len(n)].q.command = "GET_METADATA_SUMMARY"
  /\ x.do = "flash" => HasPub(n)
  /\ x.do \notin {"attempt?", "runnable?"} => NoBoot(n)
  /\ Harmless(x) => Calm(n)
  /\ x.do = "attempt?" => \/ n = <<>>
                          \/ /\ BootEnds(n, Summary(d).image) /\ Summary(d).image # None
                             /\ Summary(d).attempts = 0 /\ ~Summary(d).confirmed
  /\ x.do = "send_run" => n # <<>> /\ n[Len(n)].q.command = "RUN"
  /\ x.do = "confirmed?" => n = <<>> /\ Summary(d).confirmed /\ Summary(d).attempts > 0

LEMMA DecidedList ==
  ASSUME NEW hand, NEW s, Chain(hand, s), s # <<>>, NEW x, x = s[1], x.do \in Deciders,
         NEW d, NEW sum, Need(hand, x, d, sum), NEW n, Routine(hand, n),
         x.do = "flash?" => n = <<>> \/ n[Len(n)].q.command = "GET_METADATA_SUMMARY",
         NEW tail, tail = Tail(s), NEW u, u = n \o tail
  PROVE  Chain(hand, u) /\ (u # <<>> => Need(hand, u[1], d, sum))
<1>1. Chain(hand, tail) /\ Shape(x) /\ (tail # <<>> => Link(hand, x, tail[1])) BY ChainTail
<1>2. x.q.command = "none" BY <1>1 DEF Shape
<1>3. tail # <<>> => Free(hand, tail[1]) \/ (x.do = "flash?" /\ tail[1].do = "attempt?")
  BY <1>1, <1>2 DEF Link, Gives, Erases
<1>4. n \in Seq(Steps) /\ tail \in Seq(Steps) BY <1>1 DEF Routine, Chain
<1>5. JoinFacts(n, tail, u) BY <1>4, JoinParts
<1>6. CASE n = <<>>
  <2>1. u = tail BY <1>5, <1>6 DEF JoinFacts
  <2>2. ASSUME tail # <<>> PROVE Need(hand, tail[1], d, sum)
    <3>1. CASE Free(hand, tail[1]) BY <3>1, FreeNeeds
    <3>2. CASE x.do = "flash?" /\ tail[1].do = "attempt?"
      <4>1. Shape(tail[1])
        <5>1. Len(tail) \in Nat /\ Len(tail) # 0 BY <1>4, <2>2, NoSteps
        <5>2. ASSUME NEW k \in Nat, k # 0 PROVE 1 \in 1 .. k BY <5>2
        <5>3. 1 \in 1 .. Len(tail) BY <5>1, <5>2, Zenon
        <5> QED BY <1>1, <5>3 DEF Chain
      <4>2. tail[1].q.command = "none" BY <3>2, <4>1 DEF Shape, Deciders
      <4>3. sum = Summary(d) BY <3>2 DEF Need, FreshDos
      <4> QED BY <4>2, <4>3 DEF Need, Publishes, ErasesApp, Erases
    <3> QED BY <1>3, <2>2, <3>1, <3>2
  <2> QED BY <1>1, <2>1, <2>2
<1>7. CASE n # <<>>
  <2>1. tail # <<>> => Link(hand, n[Len(n)], tail[1])
    BY <1>3, <1>7 DEF Link, Gives, FreshDos
  <2>2. Chain(hand, u) BY <1>1, <2>1, ChainJoin DEF Routine
  <2>3. u[1] = n[1] /\ Free(hand, n[1]) BY <1>5, <1>7 DEF JoinFacts, Routine
  <2> QED BY <2>2, <2>3, FreeNeeds
<1> QED BY <1>6, <1>7

LEMMA BootJoin ==
  ASSUME NEW n \in Seq(Steps), NEW tail \in Seq(Steps), NEW image, BootEnds(n, image),
         Len(tail) = 1, Harmless(tail[1]), NEW u, u = n \o tail
  PROVE  Boot(u, image)
<1>0. /\ u \in Seq(Steps) /\ Len(n) \in Nat
      /\ Len(u) = Len(n) + Len(tail)
      /\ \A p \in 1 .. Len(u) :
              \/ p \in 1 .. Len(n) /\ u[p] = n[p]
              \/ \E r \in 1 .. Len(tail) : p = Len(n) + r /\ u[p] = tail[r]
      /\ n = <<>> <=> Len(n) = 0
  <2>1. /\ n \o tail \in Seq(Steps) /\ Len(n) \in Nat
        /\ Len(n \o tail) = Len(n) + Len(tail)
        /\ \A p \in 1 .. Len(n \o tail) :
              \/ p \in 1 .. Len(n) /\ (n \o tail)[p] = n[p]
              \/ \E r \in 1 .. Len(tail) : p = Len(n) + r /\ (n \o tail)[p] = tail[r]
        /\ n = <<>> <=> Len(n) = 0
    BY JoinedSteps, Zenon
  <2> QED BY <2>1, Zenon
<1>1. /\ Len(n) \in Nat /\ Len(u) = Len(n) + 1
      /\ \A p \in 1 .. Len(u) :
              \/ p \in 1 .. Len(n) /\ u[p] = n[p]
              \/ \E r \in 1 .. Len(tail) : p = Len(n) + r /\ u[p] = tail[r]
      /\ n = <<>> <=> Len(n) = 0
  BY <1>0, Zenon
<1>2. PICK k \in Nat : k = Len(n) /\ k # 0 BY <1>1 DEF BootEnds
<1>3. Len(u) = k + 1 /\ Len(u) > 1 BY <1>1, <1>2
<1>4. ASSUME NEW p \in 1 .. Len(u)
      PROVE  IF p = Len(u) - 1 THEN Attempts(u[p]) /\ u[p].q.image = image ELSE Harmless(u[p])
  <2>1. p = Len(u) - 1 <=> p = k BY <1>2, <1>3
  <2>2. CASE p \in 1 .. Len(n) /\ u[p] = n[p]
    BY <1>2, <2>1, <2>2 DEF BootEnds
  <2>3. CASE \E r \in 1 .. Len(tail) : p = Len(n) + r /\ u[p] = tail[r]
    <3>1. p = k + 1 /\ u[p] = tail[1] BY <1>2, <2>3
    <3>2. p # k BY <1>2, <3>1
    <3> QED BY <2>1, <3>1, <3>2
  <2> QED BY <1>1, <2>2, <2>3
<1> QED BY <1>3, <1>4 DEF Boot

LEMMA DecidedInv ==
  ASSUME NEW d, DeviceInv(d), NEW t, ToolInv(t, d), t.todo # <<>>, NEW x, x = t.todo[1],
         x.do \in Deciders, NEW hand \in BOOLEAN, hand = (t.name \in ByHand),
         NEW n, Decided(hand, t, d, x, n),
         NEW u \in ToolType, u.name = t.name, u.image = t.image, u.todo = n \o Tail(t.todo),
         u.summary = t.summary, u.attempted = (t.attempted \/ (x.do = "attempt?" /\ n # <<>>))
  PROVE  ToolInv(u, d)
<1>1. Chain(hand, t.todo) /\ Need(hand, x, d, t.summary) BY Zenon DEF ToolInv, ListInv
<1>2. PICK s \in Seq(Steps) : s = t.todo BY <1>1 DEF Chain
<1>3. PICK tail : tail = Tail(s) OBVIOUS
<1>4. TailFacts(s, tail) BY <1>2, <1>3, TailParts
<1>5. PICK l : l = n \o tail OBVIOUS
<1>6. u.todo = l /\ s # <<>> /\ x = s[1] BY <1>2, <1>3, <1>5
<1>7. n \in Seq(Steps) /\ tail \in Seq(Steps) BY <1>4 DEF Decided, Routine, Chain, TailFacts
<1>8. JoinFacts(n, tail, l) BY <1>5, <1>7, JoinParts
<1>9. ListInv(u, d)
  <2>1. Routine(hand, n) /\ (x.do = "flash?" => n = <<>> \/ n[Len(n)].q.command = "GET_METADATA_SUMMARY")
    BY DEF Decided
  <2>2. Chain(hand, l) /\ (l # <<>> => Need(hand, l[1], d, t.summary))
    BY <1>1, <1>2, <1>3, <1>5, <1>6, <2>1, DecidedList, ZenonT(40)
  <2>3. Chain(hand, u.todo) /\ (u.todo # <<>> => Need(hand, u.todo[1], d, u.summary)) BY <1>6, <2>2
  <2> QED BY <2>3, Zenon DEF ListInv
<1>c. Shape(x) /\ x.q.command = "none"
  <2>1. Shape(x) BY <1>1, <1>2, <1>6, ChainTail
  <2> QED BY <2>1 DEF Shape
<1>p. ~Publishes(x) /\ ~Attempts(x) /\ ~Erases(x) BY <1>c DEF Publishes, Attempts, Erases
<1>10. PublishInv(u, d)
  <2>1. PublishInv(t, d) BY DEF ToolInv
  <2>2. ASSUME u.name \notin {"flash", "upgrade"} PROVE NoFlash(l)
    <3>1. NoFlash(tail) /\ x.do # "flash?" BY <1>2, <1>4, <1>6, <2>1, <2>2 DEF PublishInv, TailFacts
    <3> QED BY <1>8, <3>1 DEF JoinFacts, Decided
  <2>3. ASSUME u.name \in {"flash", "upgrade", "verify"}
        PROVE  /\ u.image \in Images /\ Covered(l) /\ PubOnly(l, u.image)
               /\ Summary(d).image = u.image \/ HasPub(l)
    <3>1. /\ t.image \in Images /\ Covered(s) /\ PubOnly(s, t.image)
          /\ Summary(d).image = t.image \/ HasPub(s)
      BY <1>2, <2>1, <2>3 DEF PublishInv
    <3>2. /\ Covered(tail) /\ PubOnly(tail, t.image)
          /\ HasPub(s) => Pub(x) \/ HasPub(tail)
      BY <1>4, <1>6, <3>1 DEF TailFacts
    <3>3. Covered(l) /\ PubOnly(l, t.image) BY <1>8, <3>2 DEF JoinFacts, Decided
    <3>4. CASE Summary(d).image = t.image BY <3>1, <3>3, <3>4
    <3>5. CASE HasPub(tail)
      <4>1. HasPub(l) BY <1>8, <3>5 DEF JoinFacts
      <4> QED BY <3>1, <3>3, <4>1
    <3>6. CASE Pub(x)
      <4>1. x.do \in {"flash?", "flash"} BY <1>p, <3>6 DEF Pub
      <4>2. HasPub(n) \/ Summary(d).image = t.image BY <4>1 DEF Decided
      <4>3. HasPub(l) \/ Summary(d).image = t.image BY <1>8, <4>2 DEF JoinFacts
      <4> QED BY <3>1, <3>3, <4>3
    <3> QED BY <3>1, <3>2, <3>4, <3>5, <3>6
  <2> QED BY <1>6, <2>2, <2>3 DEF PublishInv
<1>11. AttemptInv(u, d)
  <2>1. AttemptInv(t, d) BY DEF ToolInv
  <2>2. ASSUME u.name \notin {"run", "upgrade"} PROVE NoAttempt(l) /\ ~u.attempted
    <3>1. NoAttempt(tail) /\ x.do # "attempt?" /\ ~t.attempted
      BY <1>2, <1>4, <1>6, <2>1, <2>2 DEF AttemptInv, TailFacts
    <3> QED BY <1>8, <3>1 DEF JoinFacts, Decided
  <2>3. ASSUME u.name \in {"run", "upgrade"}, ~u.attempted PROVE AttemptLate(l) /\ NoBoot(l)
    <3>1. ~t.attempted /\ (x.do = "attempt?" => n = <<>>) BY <2>3
    <3>2. AttemptLate(tail) /\ NoBoot(tail) /\ x.do # "runnable?"
      BY <1>2, <1>4, <1>6, <2>1, <2>3, <3>1 DEF AttemptInv, TailFacts
    <3>3. CASE n = <<>>
      <4>1. l = tail BY <1>8, <3>3 DEF JoinFacts
      <4> QED BY <3>2, <4>1
    <3>4. CASE n # <<>>
      <4>1. NoBoot(n) /\ NoAttempt(n) BY <3>1, <3>2, <3>4 DEF Decided
      <4> QED BY <1>8, <3>2, <4>1 DEF JoinFacts
    <3> QED BY <3>3, <3>4
  <2>4. ASSUME t.attempted
        PROVE  \/ Calm(l) /\ Summary(d).attempts = 1
               \/ /\ Boot(l, Summary(d).image) /\ Summary(d).image # None
                  /\ Summary(d).attempts = 0 /\ ~Summary(d).confirmed
    <3>1. CASE Calm(s) /\ Summary(d).attempts = 1
      <4>1. Calm(tail) /\ Harmless(x) BY <1>4, <1>6, <3>1 DEF TailFacts
      <4>2. Calm(n) BY <4>1 DEF Decided
      <4> QED BY <1>8, <3>1, <4>1, <4>2 DEF JoinFacts
    <3>2. CASE /\ Boot(s, Summary(d).image) /\ Summary(d).image # None
               /\ Summary(d).attempts = 0 /\ ~Summary(d).confirmed
      <4>1. Boot(tail, Summary(d).image) /\ Harmless(x) BY <1>4, <1>6, <1>p, <3>2 DEF TailFacts
      <4>2. Calm(n) BY <4>1 DEF Decided
      <4>3. Boot(l, Summary(d).image) BY <1>8, <4>1, <4>2 DEF JoinFacts
      <4> QED BY <3>2, <4>3
    <3> QED BY <1>2, <2>1, <2>4, <3>1, <3>2 DEF AttemptInv
  <2>5. ASSUME u.attempted, ~t.attempted
        PROVE  /\ Boot(l, Summary(d).image) /\ Summary(d).image # None
               /\ Summary(d).attempts = 0 /\ ~Summary(d).confirmed
    <3>1. x.do = "attempt?" /\ n # <<>> BY <2>5
    <3>2. t.name \in {"run", "upgrade"}
      BY <1>2, <1>4, <1>6, <2>1, <3>1 DEF AttemptInv, TailFacts
    <3>3. Len(tail) = 1
      BY <1>2, <1>4, <1>6, <2>1, <2>5, <3>1, <3>2 DEF AttemptInv, TailFacts
    <3>4. tail # <<>>
      <4>1. tail = <<>> <=> Len(tail) = 0 BY <1>7, NoSteps
      <4>2. 1 # 0 OBVIOUS
      <4> QED BY <3>3, <4>1, <4>2, Zenon
    <3>5. Concludes(tail[1], t.name)
      <4>1. Concludes(s[Len(s)], t.name) BY <1>2, <1>6 DEF ToolInv, EndInv
      <4>2. s[Len(s)] = tail[1] BY <1>4, <3>3, <3>4 DEF TailFacts
      <4> QED BY <4>1, <4>2
    <3>6. tail[1].do = "send_run" \/ tail[1].q.command = "RUN" BY <3>2, <3>5 DEF Concludes
    <3>7. Shape(tail[1])
      <4>1. Chain(hand, tail) BY <1>1, <1>2, <1>3, <1>6, ChainTail
      <4>2. 1 \in 1 .. Len(tail) BY <3>3
      <4> QED BY <4>1, <4>2 DEF Chain
    <3>8. Harmless(tail[1])
      <4>1. CASE tail[1].do = "send_run" BY <3>7, <4>1 DEF Harmless, Shape, Deciders
      <4>2. CASE tail[1].q.command = "RUN" BY <3>7, <4>2 DEF Harmless, Shape, Deciders
      <4> QED BY <3>6, <4>1, <4>2
    <3>9. /\ BootEnds(n, Summary(d).image) /\ Summary(d).image # None
          /\ Summary(d).attempts = 0 /\ ~Summary(d).confirmed
      BY <3>1 DEF Decided
    <3>10. Boot(l, Summary(d).image) BY <1>5, <1>7, <3>3, <3>8, <3>9, BootJoin
    <3> QED BY <3>9, <3>10
  <2> QED BY <1>6, <2>2, <2>3, <2>4, <2>5 DEF AttemptInv
<1>12. EndInv(u, d)
  <2>1. Concludes(s[Len(s)], t.name) BY <1>2, <1>6 DEF ToolInv, EndInv
  <2>2. CASE tail # <<>>
    <3>1. s[Len(s)] = tail[Len(tail)] /\ l # <<>> /\ l[Len(l)] = tail[Len(tail)]
      BY <1>4, <1>8, <2>2 DEF TailFacts, JoinFacts
    <3> QED BY <1>6, <2>1, <3>1 DEF EndInv
  <2>3. CASE tail = <<>>
    <3>1. Concludes(x, t.name) /\ l = n BY <1>4, <1>6, <1>8, <2>1, <2>3 DEF TailFacts, JoinFacts
    <3>2. CASE t.name \in {"run", "upgrade"}
      <4>1. x.do = "send_run" BY <1>c, <3>1, <3>2 DEF Concludes
      <4>2. n # <<>> /\ n[Len(n)].q.command = "RUN" BY <4>1 DEF Decided
      <4> QED BY <1>6, <3>1, <3>2, <4>2 DEF EndInv, Concludes
    <3>3. CASE t.name \in {"confirm", "app_confirm_probe"}
      <4>1. x.do = "confirmed?" BY <3>1, <3>3 DEF Concludes
      <4>2. n = <<>> /\ Summary(d).confirmed /\ Summary(d).attempts > 0 BY <4>1 DEF Decided
      <4> QED BY <1>6, <3>1, <3>3, <4>2 DEF EndInv, Concluded
    <3>4. CASE t.name \notin {"run", "upgrade", "confirm", "app_confirm_probe"}
      BY <3>4 DEF EndInv, Concluded, Concludes
    <3> QED BY <3>2, <3>3, <3>4
  <2> QED BY <2>2, <2>3
<1> QED BY <1>9, <1>10, <1>11, <1>12 DEF ToolInv

-----------------------------------------------------------------------------
(* What each decision puts in its place. *)

LEMMA EmptyList ==
  ASSUME NEW hand, NEW s, s = <<>>
  PROVE  Smooth(hand, s)
<1>1. s \in Seq(Steps) /\ Len(s) = 0 OBVIOUS
<1>2. (\A p \in 1 .. Len(s) : FALSE) /\ (\A p \in 1 .. Len(s) - 1 : FALSE) BY <1>1
<1> QED BY <1>1, <1>2 DEF Smooth, Routine, Chain, Calm

LEMMA DecidedSmooth ==
  ASSUME NEW hand, NEW t, NEW d, NEW x, NEW n, Smooth(hand, n),
         x.do = "flash?" => n = <<>> /\ Summary(d).image = t.image,
         x.do # "flash",
         x.do = "attempt?" => n = <<>>,
         x.do = "send_run" => n # <<>> /\ n[Len(n)].q.command = "RUN",
         x.do = "confirmed?" => n = <<>> /\ Summary(d).confirmed /\ Summary(d).attempts > 0
  PROVE  Decided(hand, t, d, x, n)
<1>1. Routine(hand, n) /\ Calm(n) BY DEF Smooth
<1>2. Covered(n) /\ NoFlash(n) /\ NoAttempt(n) /\ NoBoot(n) /\ PubOnly(n, t.image)
  BY <1>1, CalmIs DEF Silent
<1> QED BY <1>1, <1>2 DEF Decided

\* A record other than IMAGE_VALID.
LEMMA RecordPiece ==
  ASSUME NEW hand, NEW type \in {"BOOT_ATTEMPT", "APP_CONFIRMED"}, NEW image \in Images \cup {None},
         NEW s, s = Append_("client", type, image)
  PROVE  /\ Routine(hand, s) /\ Len(s) = 1 /\ s # <<>> /\ Silent(s) /\ Covered(s)
         /\ s[1].q.image = image /\ (Attempts(s[1]) <=> type = "BOOT_ATTEMPT")
         /\ (type = "APP_CONFIRMED" => NoBoot(s)) /\ \A i : PubOnly(s, i)
<1>1. type \in RecordTypes /\ type # "IMAGE_VALID" BY DEF RecordTypes
<1>2. PICK by \in {"client", "dfu"} : by = "client" OBVIOUS
<1>3. s = Append_(by, type, image) BY <1>2
<1>4. /\ Chain(hand, s) /\ Len(s) = 1 /\ s # <<>> /\ s[1].do = by
      /\ s[1].q.command = "METADATA_APPEND_RECORD" /\ s[1].q.type = type /\ s[1].q.image = image
      /\ type # "IMAGE_VALID" => Routine(hand, s)
  BY <1>1, <1>3, AppendPiece
<1>5. /\ Attempts(s[1]) <=> type = "BOOT_ATTEMPT"
      /\ ~Publishes(s[1]) /\ ~Erases(s[1])
  BY <1>1, <1>4 DEF Attempts, Publishes, Erases
<1>6. Silent(s) /\ Covered(s) /\ (\A i : PubOnly(s, i)) BY <1>2, <1>4, <1>5, OneParts
<1>7. type = "APP_CONFIRMED" => NoBoot(s) BY <1>2, <1>4, <1>5, OneParts
<1> QED BY <1>1, <1>4, <1>5, <1>6, <1>7

LEMMA AttemptList ==
  ASSUME NEW hand, NEW c, Smooth(hand, c), NEW image \in Images,
         NEW a, a = Append_("client", "BOOT_ATTEMPT", image), NEW n, n = c \o a
  PROVE  /\ Routine(hand, n) /\ Covered(n) /\ NoFlash(n) /\ NoAttempt(n)
         /\ (\A i : PubOnly(n, i)) /\ BootEnds(n, image)
<1>4. /\ Routine(hand, a) /\ Len(a) = 1 /\ a # <<>> /\ a[1].q.image = image
      /\ Silent(a) /\ Covered(a) /\ Attempts(a[1]) /\ (\A i : PubOnly(a, i))
  <2>1. PICK type \in {"BOOT_ATTEMPT", "APP_CONFIRMED"} : type = "BOOT_ATTEMPT" OBVIOUS
  <2>2. a = Append_("client", type, image) BY <2>1
  <2>3. image \in Images \cup {None} OBVIOUS
  <2> QED BY <2>1, <2>2, <2>3, RecordPiece

<1>7. Routine(hand, c) /\ Calm(c) BY DEF Smooth
<1>8. Covered(c) /\ Silent(c) /\ \A i : PubOnly(c, i) BY <1>7, CalmIs
<1>9. c \in Seq(Steps) /\ a \in Seq(Steps) BY <1>4, <1>7 DEF Routine, Chain
<1>10. JoinFacts(c, a, n) BY <1>9, JoinParts
<1>11. Routine(hand, n) BY <1>4, <1>7, ScriptJoin
<1>12. /\ Covered(n) /\ NoFlash(n) /\ NoAttempt(n) /\ (\A i : PubOnly(n, i)) /\ n # <<>>
  BY <1>4, <1>8, <1>10 DEF JoinFacts, Silent
<1>13. ASSUME NEW p \in 1 .. Len(n)
       PROVE  IF p = Len(n) THEN Attempts(n[p]) /\ n[p].q.image = image ELSE Harmless(n[p])
  <2>1. /\ Len(c \o a) = Len(c) + Len(a) /\ Len(c) \in Nat
        /\ \A i \in 1 .. Len(c \o a) :
              \/ i \in 1 .. Len(c) /\ (c \o a)[i] = c[i]
              \/ \E r \in 1 .. Len(a) : i = Len(c) + r /\ (c \o a)[i] = a[r]
    BY <1>9, JoinedSteps, ZenonT(40)
  <2>2. /\ Len(n) = Len(c) + 1 /\ Len(c) \in Nat
        /\ (p \in 1 .. Len(c) /\ n[p] = c[p]) \/ \E r \in 1 .. 1 : p = Len(c) + r /\ n[p] = a[r]
    BY <1>4, <2>1, Zenon
  <2>3. PICK k \in Nat : k = Len(c) BY <2>2
  <2>4. \A r \in 1 .. 1 : r = 1 OBVIOUS
  <2>5. CASE p \in 1 .. k /\ n[p] = c[p]
    <3>1. p # k + 1 BY <2>5
    <3>2. Harmless(c[p]) BY <1>7, <2>3, <2>5 DEF Calm
    <3> QED BY <2>2, <2>3, <2>5, <3>1, <3>2
  <2>6. CASE \E r \in 1 .. 1 : p = k + r /\ n[p] = a[r]
    <3>1. p = k + 1 /\ n[p] = a[1] BY <2>4, <2>6
    <3> QED BY <1>4, <2>2, <2>3, <3>1
  <2> QED BY <2>2, <2>3, <2>5, <2>6
<1> QED BY <1>11, <1>12, <1>13 DEF BootEnds

\* run_flash_flow, when it does flash.
LEMMA FlashList ==
  ASSUME NEW hand, NEW image, NEW n,
         n = ensure_service_attached \o Do("flash") \o collect_boot_status
  PROVE  /\ Routine(hand, n) /\ Covered(n) /\ NoAttempt(n) /\ NoBoot(n) /\ PubOnly(n, image)
         /\ n # <<>> /\ HasPub(n) /\ n[Len(n)].q.command = "GET_METADATA_SUMMARY"
<1>1. PICK e : e = ensure_service_attached OBVIOUS
<1>2. PICK f : f = Do("flash") OBVIOUS
<1>3. PICK b : b = collect_boot_status OBVIOUS
<1>4. "flash" \in Deciders /\ "flash" \notin FreshDos BY DEF Deciders, FreshDos
<1>5. Routine(hand, f) BY <1>2, <1>4, DoPiece
<1>6. /\ f \in Seq(Steps) /\ Len(f) = 1 /\ f[1].do = "flash" /\ NoBoot(f) /\ PubOnly(f, image) /\ Covered(f)
      /\ HasPub(f)
  BY <1>2, <1>4, DoParts
<1>7. NoAttempt(f) BY <1>6 DEF NoAttempt
<1>8. Smooth(hand, e) BY <1>1, SmoothScripts
<1>9. Routine(hand, e) /\ Calm(e) BY <1>8 DEF Smooth
<1>10. Covered(e) /\ NoAttempt(e) /\ NoBoot(e) /\ PubOnly(e, image) BY <1>9, CalmIs DEF Silent
<1>11. PICK ef : ef = e \o f OBVIOUS
<1>12. e \in Seq(Steps) BY <1>9 DEF Routine, Chain
<1>13. JoinFacts(e, f, ef) BY <1>6, <1>11, <1>12, JoinParts
<1>14. Routine(hand, ef) BY <1>5, <1>9, <1>11, ScriptJoin
<1>15. Covered(ef) /\ NoAttempt(ef) /\ NoBoot(ef) /\ PubOnly(ef, image) /\ HasPub(ef)
  BY <1>6, <1>7, <1>10, <1>13 DEF JoinFacts
<1>16. PICK u : u = ef \o b OBVIOUS
<1>17. /\ Routine(hand, u) /\ u # <<>> /\ u[Len(u)].q.command = "GET_METADATA_SUMMARY"
       /\ JoinFacts(ef, b, u) /\ Calm(b)
  BY <1>3, <1>14, <1>16, AsksAtEnd
<1>18. Covered(b) /\ NoAttempt(b) /\ NoBoot(b) /\ PubOnly(b, image) BY <1>17, CalmIs DEF Silent
<1>19. Covered(u) /\ NoAttempt(u) /\ NoBoot(u) /\ PubOnly(u, image) /\ HasPub(u)
  BY <1>15, <1>17, <1>18 DEF JoinFacts
<1>20. n = u BY <1>1, <1>2, <1>3, <1>11, <1>16
<1> QED BY <1>17, <1>19, <1>20

LEMMA Decisions ==
  ASSUME DeviceInv(device), ToolInv(tool, device), tool.todo # <<>>, NEW x, x = tool.todo[1],
         x.do \in Deciders, NEW hand \in BOOLEAN, hand = (tool.name \in ByHand),
         NEW n, n = Decision(x.do), n # Stop
  PROVE  Decided(hand, tool, device, x, n)
<1>1. Need(hand, x, device, tool.summary) BY Zenon DEF ToolInv, ListInv
<1>2. PICK s : s = tool.summary OBVIOUS
<1>3. s \in Summaries /\ tool.image \in Images \cup {None} BY <1>2 DEF ToolInv, ToolType
<1>4. s.image \in Images \cup {None} /\ s.attempts \in Nat BY <1>3 DEF Summaries
<1>5. x.do \in FreshDos => s = Summary(device) BY <1>1, <1>2 DEF Need
<1>6. x.do \in {"flash?", "flash"} => tool.image \in Images
  <2>1. PublishInv(tool, device) /\ tool.todo \in Seq(Steps) BY DEF ToolInv, ToolType
  <2>2. PICK l \in Seq(Steps) : l = tool.todo BY <2>1
  <2>3. PICK tail : tail = Tail(l) OBVIOUS
  <2>4. TailFacts(l, tail) BY <2>2, <2>3, TailParts
  <2>5. NoFlash(l) => x.do \notin {"flash?", "flash"} BY <2>2, <2>4 DEF TailFacts
  <2> QED BY <2>1, <2>2, <2>5 DEF PublishInv
<1>7. n = <<>> => Smooth(hand, n) BY EmptyList
<1>8. CASE x.do = "service?"
  <2>1. n = <<>> \/ n = load_and_attach_service BY <1>8 DEF Decision
  <2>2. Smooth(hand, n) BY <1>7, <2>1, SmoothScripts
  <2> QED BY <1>8, <2>2, DecidedSmooth
<1>9. CASE x.do \in {"attached?", "verified?", "flashed", "confirmable?"}
  <2>1. n = <<>> BY <1>9 DEF Decision, require_current_attempt
  <2> QED BY <1>7, <1>9, <2>1, DecidedSmooth
<1>10. CASE x.do = "flash?"
  <2>1. n = run_flash_flow BY <1>10 DEF Decision
  <2>2. CASE n = <<>> /\ same_image(s, tool.image)
    <3>1. Summary(device).image = tool.image BY <1>5, <1>10, <2>2 DEF same_image, FreshDos
    <3> QED BY <1>7, <1>10, <2>2, <3>1, DecidedSmooth
  <2>3. CASE n = ensure_service_attached \o Do("flash") \o collect_boot_status
    <3>1. PICK image : image = tool.image OBVIOUS
    <3>2. PICK m : m = ensure_service_attached \o Do("flash") \o collect_boot_status OBVIOUS
    <3>3. /\ Routine(hand, m) /\ Covered(m) /\ NoAttempt(m) /\ NoBoot(m) /\ PubOnly(m, image)
          /\ m # <<>> /\ HasPub(m) /\ m[Len(m)].q.command = "GET_METADATA_SUMMARY"
      BY <3>2, FlashList
    <3>4. n = m /\ PubOnly(n, tool.image) BY <2>3, <3>1, <3>2, <3>3
    <3> QED BY <1>10, <3>3, <3>4 DEF Decided, Harmless
  <2> QED BY <1>2, <2>1, <2>2, <2>3 DEF run_flash_flow
<1>11. CASE x.do = "flash"
  <2>1. PICK image \in Images : image = tool.image BY <1>6, <1>11
  <2>2. PICK m : m = erase_masks({"metadata", "app"}) \o program(image)
                       \o verify_app_and_write_image_valid(image) \o Do("flashed")
    OBVIOUS
  <2>3. Routine(hand, m) /\ Decent(m, image) /\ HasPub(m) /\ Covered(m) /\ m # <<>> BY <2>2, FlashPiece
  <2>4. n = m BY <1>11, <2>1, <2>2 DEF Decision
  <2> QED BY <1>11, <2>1, <2>3, <2>4 DEF Decided, Decent, Silent, Harmless
<1>12. CASE x.do = "attempt?"
  <2>1. n = ensure_boot_attempt(s) /\ s = Summary(device) BY <1>2, <1>5, <1>12 DEF Decision, FreshDos
  <2>2. CASE n = <<>> BY <1>7, <1>12, <2>2, DecidedSmooth
  <2>3. CASE n # <<>>
    <3>1. /\ s.image # None /\ ~s.confirmed /\ ~(s.attempts > 0)
          /\ n = (IF tool.flashed THEN <<>> ELSE ensure_service_attached)
                    \o Append_("client", "BOOT_ATTEMPT", s.image)
      BY <2>1, <2>3 DEF ensure_boot_attempt
    <3>2. s.attempts = 0 BY <1>4, <3>1
    <3>3. PICK image \in Images : image = s.image BY <1>4, <3>1
    <3>4. PICK c : c = (IF tool.flashed THEN <<>> ELSE ensure_service_attached) OBVIOUS
    <3>5. Smooth(hand, c) BY <3>4, EmptyList, SmoothScripts
    <3>6. PICK a : a = Append_("client", "BOOT_ATTEMPT", image) OBVIOUS
    <3>7. n = c \o a BY <3>1, <3>3, <3>4, <3>6
    <3>8. PICK m : m = c \o a OBVIOUS
    <3>9. /\ Routine(hand, m) /\ Covered(m) /\ NoFlash(m) /\ NoAttempt(m)
          /\ (\A i : PubOnly(m, i)) /\ BootEnds(m, image)
      BY <3>5, <3>6, <3>8, AttemptList
    <3> QED BY <1>12, <2>1, <3>1, <3>2, <3>3, <3>7, <3>8, <3>9 DEF Decided, Harmless
  <2> QED BY <2>2, <2>3
<1>13. CASE x.do = "send_run"
  <2>1. n = Client("RUN", s.image) BY <1>2, <1>13 DEF Decision
  <2>2. PICK image \in SessionImages : image = s.image BY <1>4 DEF SessionImages
  <2>3. PICK m : m = Client("RUN", image) OBVIOUS
  <2>4. "RUN" \in Plain BY DEF Plain
  <2>5. /\ Routine(hand, m) /\ Calm(m) /\ Len(m) = 1 /\ m # <<>> /\ m[1].q.command = "RUN"
    BY <2>3, <2>4, ClientPiece
  <2>6. n = m /\ Smooth(hand, m) /\ m[Len(m)].q.command = "RUN" BY <2>1, <2>2, <2>3, <2>5 DEF Smooth
  <2> QED BY <1>13, <2>5, <2>6, DecidedSmooth
<1>14. CASE x.do = "confirm"
  <2>1. n = Append_("client", "APP_CONFIRMED", s.image) BY <1>2, <1>14 DEF Decision
  <2>2. PICK image \in Images \cup {None} : image = s.image BY <1>4
  <2>3. PICK type \in {"BOOT_ATTEMPT", "APP_CONFIRMED"} : type = "APP_CONFIRMED" OBVIOUS
  <2>4. PICK m : m = Append_("client", type, image) OBVIOUS
  <2>5. Routine(hand, m) /\ Silent(m) /\ Covered(m) /\ NoBoot(m) /\ \A i : PubOnly(m, i)
    BY <2>3, <2>4, RecordPiece
  <2>6. n = m BY <2>1, <2>2, <2>3, <2>4
  <2> QED BY <1>14, <2>5, <2>6 DEF Decided, Silent, Harmless
<1>15. CASE x.do = "confirmed?"
  <2>1. n = <<>> /\ preview_boot_policy(s) = "APP_CONFIRMED" /\ s = Summary(device)
    BY <1>2, <1>5, <1>15 DEF Decision, FreshDos
  <2>2. s.confirmed /\ s.attempts # 0 BY <2>1 DEF preview_boot_policy
  <2>3. s.attempts > 0 BY <1>4, <2>2
  <2> QED BY <1>7, <1>15, <2>1, <2>2, <2>3, DecidedSmooth
<1>16. CASE x.do = "runnable?"
  <2>1. n = Runnable(s, tool.image) BY <1>2, <1>16 DEF Decision
  <2>2. CASE n = <<>> BY <1>7, <1>16, <2>2, DecidedSmooth
  <2>3. CASE n = Append_("client", "BOOT_ATTEMPT", s.image)
    <3>1. PICK image \in Images \cup {None} : image = s.image BY <1>4
    <3>2. PICK type \in {"BOOT_ATTEMPT", "APP_CONFIRMED"} : type = "BOOT_ATTEMPT" OBVIOUS
    <3>3. PICK m : m = Append_("client", type, image) OBVIOUS
    <3>4. Routine(hand, m) /\ Silent(m) /\ Covered(m) /\ \A i : PubOnly(m, i)
      BY <3>3, RecordPiece
    <3>5. n = m BY <2>3, <3>1, <3>2, <3>3
    <3> QED BY <1>16, <3>4, <3>5 DEF Decided, Silent, Harmless
  <2> QED BY <2>1, <2>2, <2>3 DEF Runnable
<1> QED BY <1>8, <1>9, <1>10, <1>11, <1>12, <1>13, <1>14, <1>15, <1>16 DEF Deciders

-----------------------------------------------------------------------------
(* Trust and the workflow's flags after a request. *)

TrustIn(d, st) ==
  Summary(d).image # None /\ ~st => HoldsIn(d.flash, Summary(d).image, Summary(d).image)

Flags(changed, w, flash) ==
  /\ changed => w.modified
  /\ w.verified => \E image \in Images : HoldsIn(flash, image, image)

LEMMA SummaryType ==
  ASSUME NEW d, DeviceInv(d)
  PROVE  Summary(d) \in Summaries
<1>1. d.journal \in Seq(Records) /\ HasLatest(d.journal) BY DEF DeviceInv, DeviceType
<1>2. /\ Summary(d).image \in Images \cup {None} /\ Summary(d).attempts \in Nat
      /\ Summary(d).confirmed \in BOOLEAN
  BY <1>1, SummaryFields
<1>3. \E a, b, c : Summary(d) = [image |-> a, attempts |-> b, confirmed |-> c]
  BY Zenon DEF Summary
<1>4. PICK a, b, c : Summary(d) = [image |-> a, attempts |-> b, confirmed |-> c] BY <1>3
<1> QED BY <1>2, <1>4 DEF Summaries

LEMMA HoldsKept ==
  ASSUME NEW image \in Images, NEW f, HoldsIn(f, image, image), NEW g,
         \A a \in Addresses : f[a] # None => g[a] = f[a]
  PROVE  HoldsIn(g, image, image)
<1>1. image # None BY PositiveNumbers DEF None
<1>2. 1 .. image \subseteq Addresses BY ImageAddresses
<1> QED BY <1>1, <1>2 DEF HoldsIn

\* A request that is lost on its way changes nothing.
LEMMA LostStep ==
  ASSUME NEW x, NEW d, DeviceInv(d), NEW r, r.device = d, r.status # "OK"
  PROVE  StepFacts(x, d, r)
BY DEF StepFacts

LEMMA TrustStep ==
  ASSUME NEW x, Shape(x), DeviceInv(device), TrustIn(device, stale), stale \in BOOLEAN,
         NEW hand \in BOOLEAN, hand = (tool.name \in ByHand), NEW s, Need(hand, x, device, s),
         NEW r, StepFacts(x, device, r), NEW st, st = Staleness(x.q, r.device)
  PROVE  TrustIn(r.device, st) /\ st \in BOOLEAN
<1>1. PICK e : e = r.device OBVIOUS
<1>2. DeviceInv(e) BY <1>1 DEF StepFacts
<1>3. PICK f : f = e.flash OBVIOUS
<1>4. Summary(e).image \in Images \cup {None} /\ Summary(device).image \in Images \cup {None}
  <2>1. Summary(e) \in Summaries /\ Summary(device) \in Summaries BY <1>2, SummaryType
  <2> QED BY <2>1 DEF Summaries
<1>5. st \in BOOLEAN BY DEF Staleness
<1> SUFFICES ASSUME Summary(e).image # None, ~st
             PROVE  HoldsIn(f, Summary(e).image, Summary(e).image)
  BY <1>1, <1>3, <1>5 DEF TrustIn
<1>6. CASE Erases(x)
  <2>1. st = (e.journal # <<>> /\ (stale \/ (e.flash # device.flash /\ tool.name \in ByHand)))
    BY <1>1, <1>6 DEF Staleness, Erases
  <2>2. e.journal # <<>> BY EmptySummary
  <2>3. e.journal = device.journal BY <1>1, <1>6, <2>2 DEF StepFacts
  <2>4. ~stale /\ (e.flash # device.flash => ~hand) BY <2>1, <2>2
  <2>5. e.flash = device.flash
    <3> SUFFICES ASSUME e.flash # device.flash PROVE FALSE OBVIOUS
    <3>1. ErasesApp(x) /\ ~hand BY <1>1, <1>6, <2>4 DEF StepFacts, ErasesApp
    <3>2. device.journal = <<>> BY <3>1 DEF Need
    <3> QED BY <2>2, <2>3, <3>2
  <2>6. Summary(e) = Summary(device) BY <2>3, SummaryOfJournal
  <2> QED BY <1>3, <2>4, <2>5, <2>6 DEF TrustIn
<1>7. CASE Publishes(x)
  <2>1. st = (stale /\ e = device) BY <1>1, <1>7 DEF Staleness, Publishes
  <2>2. CASE e = device BY <1>3, <2>1, <2>2 DEF TrustIn
  <2>3. CASE e # device
    <3>1. Summary(e).image = x.q.image BY <1>1, <1>7, <2>3 DEF StepFacts
    <3>2. HoldsIn(device.flash, x.q.image, x.q.image) BY <1>7 DEF Need
    <3>3. PICK image \in Images : image = x.q.image BY <1>4, <3>1
    <3>4. ~Erases(x) BY <1>7 DEF Erases, Publishes
    <3>5. \A a \in Addresses : device.flash[a] # None => f[a] = device.flash[a]
      BY <1>1, <1>3, <3>4 DEF StepFacts
    <3>6. HoldsIn(f, image, image) BY <3>2, <3>3, <3>5, HoldsKept
    <3> QED BY <3>1, <3>3, <3>6
  <2> QED BY <2>2, <2>3
<1>8. CASE ~Erases(x) /\ ~Publishes(x)
  <2>1. st = stale BY <1>8 DEF Staleness, Erases, Publishes
  <2>2. Summary(e).image = Summary(device).image
    <3>1. CASE Appends(x) BY <1>1, <1>8, <3>1 DEF StepFacts
    <3>2. CASE ~Appends(x)
      <4>1. e.journal = device.journal BY <1>1, <1>8, <3>2 DEF StepFacts
      <4> QED BY <4>1, SummaryOfJournal
    <3> QED BY <3>1, <3>2
  <2>3. PICK image \in Images : image = Summary(device).image BY <1>4, <2>2
  <2>4. HoldsIn(device.flash, image, image) BY <2>1, <2>2, <2>3 DEF TrustIn
  <2>5. \A a \in Addresses : device.flash[a] # None => f[a] = device.flash[a]
    BY <1>1, <1>3, <1>8 DEF StepFacts
  <2>6. HoldsIn(f, image, image) BY <2>4, <2>5, HoldsKept
  <2> QED BY <2>2, <2>3, <2>6
<1> QED BY <1>6, <1>7, <1>8

LEMMA FlagsStep ==
  ASSUME NEW x, Shape(x), x.do \notin Deciders, workflow \in WorkflowType, NEW hand,
         NEW s, Need(hand, x, device, s), NEW r, StepFacts(x, device, r),
         NEW w, (w = OnOk(x.do, x.q)) \/ w = OnStatusError(x.do) \/ w = OnTimeout(x.do),
         NEW changed, changed => tool.changed \/ x.do = "modify"
  PROVE  /\ w \in WorkflowType
         /\ Flags(tool.changed, workflow, device.flash) => Flags(changed, w, r.device.flash)
<1>1. x.do \in Askers BY DEF Shape, Steps
<1>2. /\ w \in WorkflowType
      /\ workflow.modified => w.modified
      /\ x.do = "modify" => w.modified /\ ~w.verified
      /\ w.verified => workflow.verified \/ (x.do = "verify" /\ x.q.command = "END")
  <2>1. PICK by \in Askers : by = x.do BY <1>1
  <2>2. PICK m \in BOOLEAN : m = workflow.modified BY DEF WorkflowType
  <2>3. PICK v \in BOOLEAN : v = workflow.verified BY DEF WorkflowType
  <2>4. PICK state \in {"READY", "UNKNOWN"} : state = workflow.state BY DEF WorkflowType
  <2>5. workflow = [state |-> state, modified |-> m, verified |-> v] BY <2>2, <2>3, <2>4 DEF WorkflowType
  <2>6. CASE w = OnOk(by, x.q) BY <2>1, <2>5, <2>6 DEF OnOk, Sending, WorkflowType, Askers
  <2>7. CASE w = OnStatusError(by) BY <2>1, <2>5, <2>7 DEF OnStatusError, Sending, WorkflowType, Askers
  <2>8. CASE w = OnTimeout(by) BY <2>1, <2>5, <2>8 DEF OnTimeout, Sending, WorkflowType, Askers
  <2> QED BY <2>1, <2>6, <2>7, <2>8
<1> SUFFICES ASSUME Flags(tool.changed, workflow, device.flash)
             PROVE  Flags(changed, w, r.device.flash)
  BY <1>2
<1>3. changed => w.modified BY <1>2 DEF Flags
<1>4. ASSUME w.verified PROVE \E image \in Images : HoldsIn(r.device.flash, image, image)
  <2>1. r.device.flash = device.flash BY <1>2, <1>4 DEF StepFacts
  <2>2. CASE workflow.verified BY <2>1, <2>2 DEF Flags
  <2>3. CASE x.do = "verify" /\ x.q.command = "END"
    <3>1. x.q.type = "VERIFY" /\ x.q.image \in Images BY <2>3 DEF Shape, TransferCommands
    <3>2. HoldsIn(device.flash, x.q.image, x.q.image) BY <2>3, <3>1 DEF Need
    <3> QED BY <2>1, <3>1, <3>2
  <2> QED BY <1>2, <1>4, <2>2, <2>3
<1> QED BY <1>3, <1>4 DEF Flags

-----------------------------------------------------------------------------
(* The steps of the specification. *)

\* The invariant in terms of what the lemmas speak of.
LEMMA IInvParts ==
  ASSUME IInv
  PROVE  /\ DeviceInv(device) /\ workflow \in WorkflowType /\ lost \in 0 .. MaxLost /\ stale \in BOOLEAN
         /\ tool # NoTool => ToolInv(tool, device) /\ report = NoReport
         /\ TrustIn(device, stale) /\ ReportHolds
         /\ tool.name = "workflow" => Flags(tool.changed, workflow, device.flash)
BY DEF IInv, TrustIn, TrustIsEarned, FlagsHold, Flags, Holds, HoldsIn

LEMMA IInvNext ==
  ASSUME DeviceInv(device'), workflow' \in WorkflowType, lost' \in 0 .. MaxLost, stale' \in BOOLEAN,
         tool' # NoTool => ToolInv(tool', device') /\ report' = NoReport,
         TrustIn(device', stale'), ReportHolds',
         tool'.name = "workflow" => Flags(tool'.changed, workflow', device'.flash)
  PROVE  IInv'
BY DEF IInv, TrustIn, TrustIsEarned, FlagsHold, Flags, Holds, HoldsIn

LEMMA NotOk ==
  ASSUME report'.ok = FALSE
  PROVE  ReportHolds'
BY DEF ReportHolds

LEMMA NoReportNotOk ==
  NoReport.ok = FALSE /\ NoTool.name # "workflow"
BY DEF NoReport, NoTool

LEMMA NewWorkflowType ==
  NewWorkflow \in WorkflowType
BY DEF NewWorkflow, WorkflowType

\* A tool that has just been given its list.
BeginsWith(t, name, image, todo) ==
  /\ t \in ToolType /\ t.name = name /\ t.image = image /\ t.attempted = FALSE
  /\ t.todo = todo /\ t.changed = FALSE

LEMMA NewToolFields ==
  ASSUME NEW name, name \in Tools, NEW image, image \in Images \cup {None}, NEW sectors,
         NEW todo, todo = Script(name, image, sectors), todo \in Seq(Steps),
         NEW force, force \in BOOLEAN, NEW t, t = NewTool(name, image, sectors, force)
  PROVE  BeginsWith(t, name, image, todo)
<1>1. PICK d : d = NewDevice(FALSE) OBVIOUS
<1>2. d.journal = <<>> BY <1>1 DEF NewDevice
<1>3. d.journal \in Seq(Records) /\ HasLatest(d.journal)
  <2>1. d.journal \in Seq(Records) BY <1>2
  <2>2. HasLatest(d.journal) BY <1>2, EmptySummary
  <2> QED BY <2>1, <2>2
<1>4. /\ Summary(d).image \in Images \cup {None} /\ Summary(d).attempts \in Nat
      /\ Summary(d).confirmed \in BOOLEAN
  BY <1>3, SummaryFields
<1>5. PICK a, b, c : Summary(d) = [image |-> a, attempts |-> b, confirmed |-> c]
  <2>1. \E a, b, c : Summary(d) = [image |-> a, attempts |-> b, confirmed |-> c] BY Zenon DEF Summary
  <2> QED BY <2>1
<1>6. PICK s \in Summaries : s = Summary(d) BY <1>4, <1>5 DEF Summaries
<1>8. t = [name |-> name, image |-> image, force |-> force, todo |-> todo,
           summary |-> s, matches |-> FALSE, flashed |-> FALSE, attempted |-> FALSE,
           changed |-> FALSE]
  BY <1>1, <1>6 DEF NewTool
<1> QED BY <1>8 DEF ToolType, BeginsWith

\* A workflow that is idle or begins list s.
WorkflowWith(image, s, changed) ==
  [NewTool("workflow", image, {}, FALSE) EXCEPT !.todo = s, !.changed = changed]

LEMMA WorkflowTool ==
  ASSUME NEW d, DeviceInv(d), NEW image \in Images \cup {None}, NEW hand \in BOOLEAN, hand, NEW s,
         Routine(hand, s), Silent(s), NEW changed \in BOOLEAN,
         NEW t, t = WorkflowWith(image, s, changed)
  PROVE  ToolInv(t, d) /\ t.name = "workflow" /\ t.changed = changed
<1>1. "workflow" \in Tools /\ "workflow" \in OtherTools BY DEF Tools, OtherTools
<1>2. "workflow" \in ByHand BY DEF ByHand
<1>3. PICK sectors : sectors = {} OBVIOUS
<1>4. Script("workflow", image, sectors) \in Seq(Steps)
  <2>1. PICK c : c = Connect OBVIOUS
  <2>2. Smooth(hand, c) BY <2>1, SmoothScripts
  <2>3. c \in Seq(Steps) BY <2>2 DEF Smooth, Routine, Chain
  <2> QED BY <2>1, <2>3 DEF Script
<1>5. PICK u : u = NewTool("workflow", image, sectors, FALSE) OBVIOUS
<1>6. /\ u \in ToolType /\ u.name = "workflow" /\ u.image = image /\ u.attempted = FALSE
  <2>1. PICK name \in Tools : name = "workflow" BY <1>1
  <2>2. PICK force \in BOOLEAN : force = FALSE OBVIOUS
  <2>3. u = NewTool(name, image, sectors, force) BY <1>5, <2>1, <2>2
  <2>4. PICK todo : todo = Script(name, image, sectors) OBVIOUS
  <2>5. todo \in Seq(Steps) BY <1>4, <2>1, <2>4
  <2>6. BeginsWith(u, name, image, todo) BY <2>3, <2>4, <2>5, NewToolFields, Zenon
  <2> QED BY <2>1, <2>6 DEF BeginsWith
<1>7. t = [u EXCEPT !.todo = s, !.changed = changed] BY <1>3, <1>5 DEF WorkflowWith
<1>8. s \in Seq(Steps) BY DEF Routine, Chain
<1>9. /\ t \in ToolType /\ t.name = "workflow" /\ t.image = image /\ t.attempted = FALSE
      /\ t.todo = s /\ t.changed = changed
  BY <1>6, <1>7, <1>8 DEF ToolType
<1>10. ScriptParts(hand, "workflow", image, s)
  <2>1. PICK name \in OtherTools : name = "workflow" BY <1>1
  <2>2. ScriptParts(hand, name, image, s) BY SilentScript
  <2> QED BY <2>1, <2>2
<1>11. ToolInv(t, d)
  <2>1. PICK name \in Tools : name = "workflow" BY <1>1
  <2>2. name \notin {"flash", "upgrade", "verify"} /\ hand = (name \in ByHand) /\ t.name = name
    BY <1>2, <1>9, <2>1
  <2>3. ScriptParts(hand, name, image, s) BY <1>10, <2>1
  <2> QED BY <1>9, <2>2, <2>3, NewToolInv
<1> QED BY <1>9, <1>11

\* An exception.
LEMMA RaiseInv ==
  ASSUME IInv, tool # NoTool, NEW w \in WorkflowType, Raise(w), DeviceInv(device'), lost' \in 0 .. MaxLost,
         stale' \in BOOLEAN, TrustIn(device', stale'),
         tool.name = "workflow" =>
           Flags(tool.changed \/ device'.flash # device.flash, w, device'.flash)
  PROVE  IInv'
<1>1. ToolInv(tool, device) /\ report = NoReport BY IInvParts
<1>2. CASE tool.name = "workflow"
  <2>1. /\ tool' = [NewTool("workflow", None, {}, FALSE) EXCEPT
                      !.todo = <<>>, !.changed = tool.changed \/ device'.flash # device.flash]
        /\ workflow' = w /\ report' = report
    BY <1>2 DEF Raise
  <2>2. PICK s : s = <<>> OBVIOUS
  <2>3. PICK changed \in BOOLEAN : changed = (tool.changed \/ device'.flash # device.flash)
    <3>1. tool.changed \in BOOLEAN BY <1>1 DEF ToolInv, ToolType
    <3> QED BY <3>1
  <2>4. PICK image \in Images \cup {None} : image = None OBVIOUS
  <2>5. PICK t : t = WorkflowWith(image, s, changed) OBVIOUS
  <2>6. tool' = t BY <2>1, <2>2, <2>3, <2>4, <2>5 DEF WorkflowWith
  <2>7. PICK hand \in BOOLEAN : hand OBVIOUS
  <2>8. Smooth(hand, s) BY <2>2, EmptyList
  <2>9. Routine(hand, s) /\ Silent(s) BY <2>8, SmoothIs
  <2>10. PICK d : d = device' OBVIOUS
  <2>11. ToolInv(t, d) /\ t.name = "workflow" /\ t.changed = changed
    BY <2>5, <2>7, <2>9, <2>10, WorkflowTool
  <2>12. ReportHolds' BY <1>1, <2>1, NotOk, NoReportNotOk
  <2> QED BY <1>1, <1>2, <2>1, <2>3, <2>6, <2>10, <2>11, <2>12, IInvNext
<1>3. CASE tool.name # "workflow"
  <2>1. Finish(FALSE) BY <1>3 DEF Raise
  <2>2. tool' = NoTool /\ workflow' = NewWorkflow /\ report'.ok = FALSE BY <2>1 DEF Finish
  <2> QED BY <2>2, NotOk, NoReportNotOk, NewWorkflowType, IInvNext
<1> QED BY <1>2, <1>3

\* The tool after an answer to q.
AnsweredAs(u, q) ==
  /\ u \in ToolType /\ u.name = tool.name /\ u.image = tool.image /\ u.todo = Tail(tool.todo)
  /\ u.attempted = tool.attempted /\ u.changed = (tool.changed \/ Touches(q))
  /\ q.command = "GET_METADATA_SUMMARY" => u.summary = Summary(device)

LEMMA AnsweredFields ==
  ASSUME DeviceInv(device), tool \in ToolType, tool.todo # <<>>, NEW q, NEW u, u = Answered(q)
  PROVE  AnsweredAs(u, q)
<1>1. PICK c \in BOOLEAN : c = (tool.changed \/ Touches(q))
  <2>1. tool.changed \in BOOLEAN /\ Touches(q) \in BOOLEAN BY DEF ToolType, Touches
  <2> QED BY <2>1
<1>2. PICK tail \in Seq(Steps) : tail = Tail(tool.todo)
  <2>1. tool.todo \in Seq(Steps) BY DEF ToolType
  <2> QED BY <2>1, TailSteps
<1>3. PICK t : t = [tool EXCEPT !.todo = tail, !.changed = c] OBVIOUS
<1>4. /\ t \in ToolType /\ t.name = tool.name /\ t.image = tool.image /\ t.todo = tail
      /\ t.attempted = tool.attempted /\ t.changed = c
  BY <1>3 DEF ToolType
<1>5. t = [tool EXCEPT !.todo = Tail(@), !.changed = @ \/ Touches(q)] BY <1>1, <1>2, <1>3
<1>6. CASE q.command = "GET_METADATA_SUMMARY"
  <2>1. PICK s \in Summaries : s = Summary(device) BY SummaryType
  <2>2. u = [t EXCEPT !.summary = s] BY <1>5, <1>6, <2>1 DEF Answered
  <2>3. /\ u \in ToolType /\ u.name = t.name /\ u.image = t.image /\ u.todo = t.todo
        /\ u.attempted = t.attempted /\ u.changed = t.changed /\ u.summary = s
    BY <1>4, <2>2 DEF ToolType
  <2> QED BY <1>1, <1>2, <1>4, <2>1, <2>3 DEF AnsweredAs
<1>7. CASE q.command = "GET_SERVICE_STATUS"
  <2>1. PICK m \in BOOLEAN : m = (device.service = "ATTACHED") OBVIOUS
  <2>2. u = [t EXCEPT !.matches = m] BY <1>5, <1>7, <2>1 DEF Answered
  <2>3. /\ u \in ToolType /\ u.name = t.name /\ u.image = t.image /\ u.todo = t.todo
        /\ u.attempted = t.attempted /\ u.changed = t.changed
    BY <1>4, <2>2 DEF ToolType
  <2> QED BY <1>1, <1>2, <1>4, <1>7, <2>3 DEF AnsweredAs
<1>8. CASE q.command \notin {"GET_METADATA_SUMMARY", "GET_SERVICE_STATUS"}
  <2>1. u = t BY <1>5, <1>8 DEF Answered
  <2> QED BY <1>1, <1>2, <1>4, <1>8, <2>1 DEF AnsweredAs
<1> QED BY <1>6, <1>7, <1>8

LEMMA ByHandOrNot ==
  ASSUME NEW name
  PROVE  \E hand \in BOOLEAN : hand = (name \in ByHand)
<1>1. CASE name \in ByHand
  <2>1. TRUE \in BOOLEAN /\ TRUE = (name \in ByHand) BY <1>1
  <2> QED BY <2>1
<1>2. CASE name \notin ByHand
  <2>1. FALSE \in BOOLEAN /\ FALSE = (name \in ByHand) BY <1>2
  <2> QED BY <2>1
<1> QED BY <1>1, <1>2

LEMMA TransactInv ==
  ASSUME IInv, Transact
  PROVE  IInv'
<1>1. tool # NoTool /\ tool.todo # <<>> /\ Head(tool.todo).do \in Askers
  BY DEF Transact, Running, Askers
<1>2. /\ DeviceInv(device) /\ workflow \in WorkflowType /\ lost \in 0 .. MaxLost /\ stale \in BOOLEAN
      /\ ToolInv(tool, device) /\ report = NoReport /\ TrustIn(device, stale)
      /\ tool.name = "workflow" => Flags(tool.changed, workflow, device.flash)
  BY <1>1, IInvParts
<1>3. PICK x : x = tool.todo[1] OBVIOUS
<1>4. PICK hand \in BOOLEAN : hand = (tool.name \in ByHand) BY ByHandOrNot
<1>5. tool \in ToolType /\ tool.todo \in Seq(Steps) /\ tool.changed \in BOOLEAN BY <1>2 DEF ToolInv, ToolType
<1>6. Head(tool.todo) = x BY <1>1, <1>3, <1>5, TailSteps
<1>7. Chain(hand, tool.todo) /\ Need(hand, x, device, tool.summary)
  BY <1>1, <1>2, <1>3, <1>4, Zenon DEF ToolInv, ListInv
<1>8. Shape(x) BY <1>1, <1>3, <1>7, ChainTail
<1>9. x.do \in Askers /\ x.do \notin Deciders BY <1>1, <1>6 DEF Askers, Deciders
<1>10. ASSUME NEW fault, NEW r, r = Respond(device, x.q, fault)
       PROVE  StepFacts(x, device, r) /\ NextNeed(hand, x, device, r)
  BY <1>2, <1>7, <1>8, <1>9, <1>10, StepEffect
<1>11. Touches(x.q) => x.do = "modify"
  <2>1. PICK r : r = Respond(device, x.q, "none") OBVIOUS
  <2>2. StepFacts(x, device, r) BY <1>10, <2>1
  <2> QED BY <2>1, <2>2 DEF Touches, StepFacts
\* The lemmas about a request, for any outcome r of it.
<1>12. ASSUME NEW r, StepFacts(x, device, r), device' = r.device, stale' = Staleness(x.q, r.device),
              lost' \in 0 .. MaxLost, NEW w, w = OnStatusError(x.do) \/ w = OnTimeout(x.do), Raise(w)
       PROVE  IInv'
  <2>1. DeviceInv(device') BY <1>12 DEF StepFacts
  <2>2. PICK st : st = Staleness(x.q, r.device) OBVIOUS
  <2>3. TrustIn(r.device, st) /\ st \in BOOLEAN BY <1>2, <1>4, <1>7, <1>8, <1>12, <2>2, TrustStep
  <2>4. PICK changed \in BOOLEAN : changed = (tool.changed \/ device'.flash # device.flash) BY <1>5
  <2>5. changed => tool.changed \/ x.do = "modify" BY <1>12, <2>4 DEF StepFacts
  <2>6. /\ w \in WorkflowType
        /\ Flags(tool.changed, workflow, device.flash) => Flags(changed, w, r.device.flash)
    BY <1>2, <1>7, <1>8, <1>9, <1>12, <2>5, FlagsStep
  <2>7. tool.name = "workflow" =>
           Flags(tool.changed \/ device'.flash # device.flash, w, device'.flash)
    BY <1>2, <1>12, <2>4, <2>6
  <2>8. TrustIn(device', stale') /\ stale' \in BOOLEAN BY <1>12, <2>2, <2>3
  <2> QED BY <1>1, <1>12, <2>1, <2>6, <2>7, <2>8, RaiseInv
<1>13. CASE \E fault \in Faults(x.q) :
             LET a == Respond(device, x.q, fault) IN
             /\ device' = a.device /\ stale' = Staleness(x.q, a.device)
             /\ IF a.status = "OK"
                THEN tool' = Answered(x.q) /\ workflow' = OnOk(x.do, x.q) /\ UNCHANGED report
                ELSE Raise(OnStatusError(x.do))
             /\ UNCHANGED lost
  <2>1. PICK fault \in Faults(x.q) :
             LET a == Respond(device, x.q, fault) IN
             /\ device' = a.device /\ stale' = Staleness(x.q, a.device)
             /\ IF a.status = "OK"
                THEN tool' = Answered(x.q) /\ workflow' = OnOk(x.do, x.q) /\ UNCHANGED report
                ELSE Raise(OnStatusError(x.do))
             /\ UNCHANGED lost
    BY <1>13
  <2>2. PICK r : r = Respond(device, x.q, fault) OBVIOUS
  <2>3. StepFacts(x, device, r) /\ NextNeed(hand, x, device, r) BY <1>10, <2>2
  <2>4. device' = r.device /\ stale' = Staleness(x.q, r.device) /\ lost' \in 0 .. MaxLost
    BY <1>2, <2>1, <2>2
  <2>5. CASE r.status # "OK"
    <3>1. PICK w : w = OnStatusError(x.do) OBVIOUS
    <3>2. Raise(w) BY <2>1, <2>2, <2>5, <3>1
    <3> QED BY <1>12, <2>3, <2>4, <3>1, <3>2
  <2>6. CASE r.status = "OK"
    <3>1. tool' = Answered(x.q) /\ workflow' = OnOk(x.do, x.q) /\ report' = report
      BY <2>1, <2>2, <2>6
    <3>2. PICK u : u = Answered(x.q) OBVIOUS
    <3>3. AnsweredAs(u, x.q) BY <1>1, <1>2, <1>5, <3>2, AnsweredFields
    <3>4. ToolInv(u, r.device)
      <4>1. /\ u \in ToolType /\ u.name = tool.name /\ u.image = tool.image /\ u.todo = Tail(tool.todo)
            /\ u.attempted = tool.attempted
            /\ x.q.command = "GET_METADATA_SUMMARY" => u.summary = Summary(device)
        BY <3>3 DEF AnsweredAs
      <4>2. PICK t : t = tool OBVIOUS
      <4> QED BY <1>1, <1>2, <1>3, <1>4, <1>9, <2>3, <2>6, <4>1, AnsweredInv
    <3>5. PICK w : w = OnOk(x.do, x.q) OBVIOUS
    <3>6. PICK changed \in BOOLEAN : changed = (tool.changed \/ Touches(x.q))
      <4>1. Touches(x.q) \in BOOLEAN BY DEF Touches
      <4> QED BY <1>5, <4>1
    <3>7. changed => tool.changed \/ x.do = "modify" BY <1>11, <3>6
    <3>8. /\ w \in WorkflowType
          /\ Flags(tool.changed, workflow, device.flash) => Flags(changed, w, r.device.flash)
      BY <1>2, <1>7, <1>8, <1>9, <2>3, <3>5, <3>7, FlagsStep
    <3>9. u.name = tool.name /\ u.changed = changed BY <3>3, <3>6 DEF AnsweredAs
    <3>10. tool'.name = "workflow" => Flags(tool'.changed, workflow', device'.flash)
      BY <1>2, <2>4, <3>1, <3>2, <3>5, <3>8, <3>9
    <3>11. PICK st : st = Staleness(x.q, r.device) OBVIOUS
    <3>12. TrustIn(r.device, st) /\ st \in BOOLEAN BY <1>2, <1>4, <1>7, <1>8, <2>3, <3>11, TrustStep
    <3>13. ReportHolds' BY <1>2, <3>1, NotOk, NoReportNotOk
    <3>14. DeviceInv(device') BY <2>3, <2>4 DEF StepFacts
    <3>15. ToolInv(tool', device') /\ report' = NoReport BY <1>2, <2>4, <3>1, <3>2, <3>4
    <3>16. TrustIn(device', stale') /\ stale' \in BOOLEAN BY <2>4, <3>11, <3>12
    <3> QED BY <2>4, <3>1, <3>5, <3>8, <3>10, <3>13, <3>14, <3>15, <3>16, IInvNext
  <2> QED BY <2>5, <2>6
<1>14. CASE \E reached \in BOOLEAN :
             LET d == IF reached THEN Respond(device, x.q, "none").device ELSE device IN
             /\ lost < MaxLost /\ lost' = lost + 1
             /\ device' = d /\ stale' = Staleness(x.q, d)
             /\ Raise(OnTimeout(x.do))
  <2>1. PICK reached \in BOOLEAN :
             LET d == IF reached THEN Respond(device, x.q, "none").device ELSE device IN
             /\ lost < MaxLost /\ lost' = lost + 1
             /\ device' = d /\ stale' = Staleness(x.q, d)
             /\ Raise(OnTimeout(x.do))
    BY <1>14
  <2>2. PICK r : IF reached THEN r = Respond(device, x.q, "none") ELSE r = Fail(device, "TIMEOUT")
    OBVIOUS
  <2>3. StepFacts(x, device, r)
    <3>1. CASE reached BY <1>10, <2>2, <3>1
    <3>2. CASE ~reached
      <4>1. r.device = device /\ r.status # "OK" BY <2>2, <3>2 DEF Fail
      <4> QED BY <1>2, <4>1, LostStep
    <3> QED BY <3>1, <3>2
  <2>4. device' = r.device /\ stale' = Staleness(x.q, r.device)
    <3>1. CASE reached BY <2>1, <2>2, <3>1
    <3>2. CASE ~reached
      <4>1. r.device = device BY <2>2, <3>2 DEF Fail
      <4> QED BY <2>1, <3>2, <4>1
    <3> QED BY <3>1, <3>2
  <2>5. lost' \in 0 .. MaxLost BY <1>2, <2>1, ToolsAssumption
  <2>6. PICK w : w = OnTimeout(x.do) OBVIOUS
  <2>7. Raise(w) BY <2>1, <2>6
  <2> QED BY <1>12, <2>3, <2>4, <2>5, <2>6, <2>7
<1> QED BY <1>6, <1>13, <1>14 DEF Transact

LEMMA DecidesInv ==
  ASSUME IInv, Decides
  PROVE  IInv'
<1>1. /\ tool # NoTool /\ tool.todo # <<>> /\ Head(tool.todo).do \in Deciders
      /\ device' = device /\ stale' = stale /\ lost' = lost
  BY DEF Decides, Running, Deciders
<1>2. /\ DeviceInv(device) /\ workflow \in WorkflowType /\ lost \in 0 .. MaxLost /\ stale \in BOOLEAN
      /\ ToolInv(tool, device) /\ report = NoReport /\ TrustIn(device, stale)
      /\ tool.name = "workflow" => Flags(tool.changed, workflow, device.flash)
  BY <1>1, IInvParts
<1>3. PICK x : x = tool.todo[1] OBVIOUS
<1>4. PICK hand \in BOOLEAN : hand = (tool.name \in ByHand) BY ByHandOrNot
<1>5. tool \in ToolType /\ tool.todo \in Seq(Steps) /\ tool.changed \in BOOLEAN BY <1>2 DEF ToolInv, ToolType
<1>6. Head(tool.todo) = x /\ x.do \in Deciders BY <1>1, <1>3, <1>5, TailSteps
<1>7. PICK n : n = Decision(x.do) OBVIOUS
<1>8. /\ n = Stop => Raise(workflow)
      /\ n # Stop => /\ tool' = [tool EXCEPT !.todo = n \o Tail(@), !.matches = FALSE,
                                             !.flashed = @ \/ x.do = "flashed",
                                             !.attempted = @ \/ (x.do = "attempt?" /\ n # <<>>)]
                     /\ workflow' = workflow /\ report' = report
  BY <1>6, <1>7 DEF Decides
<1>9. DeviceInv(device') /\ lost' \in 0 .. MaxLost /\ stale' \in BOOLEAN /\ TrustIn(device', stale')
  BY <1>1, <1>2
<1>10. CASE n = Stop
  <2>1. PICK w \in WorkflowType : w = workflow BY <1>2
  <2>2. Raise(w) BY <1>8, <1>10, <2>1
  <2>3. PICK changed : changed = (tool.changed \/ device'.flash # device.flash) OBVIOUS
  <2>4. changed = tool.changed BY <1>1, <1>5, <2>3
  <2>5. tool.name = "workflow" =>
           Flags(tool.changed \/ device'.flash # device.flash, w, device'.flash)
    BY <1>1, <1>2, <2>1, <2>3, <2>4
  <2> QED BY <1>1, <1>9, <2>2, <2>5, RaiseInv
<1>11. CASE n # Stop
  <2>1. Decided(hand, tool, device, x, n)
    BY <1>1, <1>2, <1>3, <1>4, <1>6, <1>7, <1>11, Decisions
  <2>2. PICK l : l = n \o Tail(tool.todo) OBVIOUS
  <2>3. l \in Seq(Steps)
    <3>1. n \in Seq(Steps) BY <2>1 DEF Decided, Routine, Chain
    <3>2. PICK tail \in Seq(Steps) : tail = Tail(tool.todo) BY <1>1, <1>5, TailSteps
    <3>3. n \o tail \in Seq(Steps) BY <3>1, <3>2, JoinedSteps
    <3> QED BY <2>2, <3>2, <3>3
  <2>4. tool.flashed \in BOOLEAN /\ tool.attempted \in BOOLEAN BY <1>5 DEF ToolType
  <2>5. PICK f \in BOOLEAN : f = (tool.flashed \/ x.do = "flashed") BY <2>4
  <2>6. PICK a \in BOOLEAN : a = (tool.attempted \/ (x.do = "attempt?" /\ n # <<>>)) BY <2>4
  <2>7. PICK u : u = [tool EXCEPT !.todo = l, !.matches = FALSE, !.flashed = f, !.attempted = a] OBVIOUS
  <2>8. tool' = u BY <1>8, <1>11, <2>2, <2>5, <2>6, <2>7
  <2>9. /\ u \in ToolType /\ u.name = tool.name /\ u.image = tool.image /\ u.todo = l
        /\ u.summary = tool.summary /\ u.attempted = a /\ u.changed = tool.changed
    BY <1>5, <2>3, <2>7 DEF ToolType
  <2>10. ToolInv(u, device)
    BY <1>1, <1>2, <1>3, <1>4, <1>6, <2>1, <2>2, <2>6, <2>9, DecidedInv
  <2>11. workflow' = workflow /\ report' = report BY <1>8, <1>11
  <2>12. ReportHolds' BY <1>2, <2>11, NotOk, NoReportNotOk
  <2>13. ToolInv(tool', device') /\ report' = NoReport BY <1>1, <1>2, <2>8, <2>10, <2>11
  <2>14. tool'.name = "workflow" => Flags(tool'.changed, workflow', device'.flash)
    BY <1>1, <1>2, <2>8, <2>9, <2>11
  <2> QED BY <1>2, <1>9, <2>11, <2>12, <2>13, <2>14, IInvNext
<1> QED BY <1>10, <1>11

\* What a tool with nothing left to do reports.
LEMMA FinishInv ==
  ASSUME IInv, tool # NoTool, tool.todo = <<>>, Finish(TRUE), UNCHANGED <<device, stale, lost>>
  PROVE  IInv'
<1>1. /\ DeviceInv(device) /\ lost \in 0 .. MaxLost /\ stale \in BOOLEAN
      /\ ToolInv(tool, device) /\ TrustIn(device, stale)
  BY IInvParts
<1>2. tool' = NoTool /\ workflow' = NewWorkflow BY DEF Finish
<1>3. PICK none : none = <<>> OBVIOUS
<1>4. none \in Seq(Steps) /\ Len(none) = 0 BY <1>3
<1>5. ~HasPub(none) /\ \A image : ~Boot(none, image)
  <2>1. \A p \in 1 .. Len(none) : FALSE BY <1>4
  <2>2. ~HasPub(none) BY <2>1 DEF HasPub
  <2>3. ~(Len(none) > 1) BY <1>4
  <2> QED BY <2>2, <2>3 DEF Boot
<1>6. tool.name \in {"flash", "upgrade", "verify"} => tool.image \in Images /\ Summary(device).image = tool.image
  BY <1>1, <1>3, <1>5 DEF ToolInv, PublishInv
<1>7. Concluded(tool.name, device) BY <1>1 DEF ToolInv, EndInv
<1>8. tool.attempted => Summary(device).attempts = 1
  BY <1>1, <1>3, <1>5 DEF ToolInv, AttemptInv
<1>9. tool.name \in {"flash", "upgrade", "verify"} /\ ~stale => HoldsIn(device.flash, tool.image, tool.image)
  <2> SUFFICES ASSUME tool.name \in {"flash", "upgrade", "verify"}, ~stale
               PROVE  HoldsIn(device.flash, tool.image, tool.image)
    OBVIOUS
  <2>1. tool.image # None BY <1>6, PositiveNumbers DEF None
  <2> QED BY <1>1, <1>6, <2>1 DEF TrustIn
<1>10. /\ report'.of = tool.name /\ report'.image = tool.image /\ report'.attempted = tool.attempted
       /\ device' = device /\ stale' = stale /\ lost' = lost
  BY DEF Finish
<1>11. ReportHolds'
  BY <1>6, <1>7, <1>8, <1>9, <1>10 DEF ReportHolds, Holds, HoldsIn, Concluded
<1>12. DeviceInv(device') /\ lost' \in 0 .. MaxLost /\ stale' \in BOOLEAN /\ TrustIn(device', stale')
  BY <1>1, <1>10
<1> QED BY <1>2, <1>11, <1>12, NoReportNotOk, NewWorkflowType, IInvNext

LEMMA CallLists ==
  ASSUME NEW hand \in BOOLEAN, hand, NEW image \in Images, NEW sectors \in Masks,
         NEW s, s \in {erase(sectors), program(image), verify(image), dfu(sectors, image),
                       workflow_run(image), Ask("workflow", Req("RESET", None)),
                       load_and_attach_service, run_ram_image}
  PROVE  Routine(hand, s) /\ Silent(s)
<1>1. CASE s = erase(sectors)
  <2>1. sectors \in SUBSET Sectors BY DEF Masks, Sectors
  <2> QED BY <1>1, <2>1, ErasePiece, EraseParts
<1>2. CASE s \in {program(image), verify(image), load_and_attach_service, run_ram_image}
  <2>1. Smooth(hand, s) BY <1>2, SmoothPieces, SmoothScripts
  <2> QED BY <2>1, SmoothIs
<1>3. CASE s = dfu(sectors, image) BY <1>3, DfuPiece
<1>4. CASE s = workflow_run(image) BY <1>4, WorkflowRunPiece
<1>5. CASE s = Ask("workflow", Req("RESET", None))
  <2>1. PICK by \in {"client", "workflow"} : by = "workflow" OBVIOUS
  <2>2. PICK command \in Plain : command = "RESET" BY DEF Plain, Reads
  <2>3. PICK none \in SessionImages : none = None BY DEF SessionImages
  <2>4. PICK e : e = Ask(by, Req(command, none)) OBVIOUS
  <2>5. Routine(hand, e) /\ Calm(e) BY <2>4, AskPiece, ZenonT(40)
  <2>6. Routine(hand, e) /\ Silent(e) BY <2>5, CalmIs
  <2> QED BY <1>5, <2>1, <2>2, <2>3, <2>4, <2>6
<1> QED BY <1>1, <1>2, <1>3, <1>4, <1>5

Callable(image, sectors) ==
  {<<None, erase(sectors)>>, <<None, program(image)>>, <<None, verify(image)>>,
   <<None, dfu(sectors, image)>>, <<image, workflow_run(image)>>,
   <<None, Ask("workflow", Req("RESET", None))>>,
   <<None, load_and_attach_service>>, <<None, run_ram_image>>}
Called(call) ==
  /\ tool' = [NewTool("workflow", call[1], {}, FALSE) EXCEPT !.todo = call[2], !.changed = tool.changed]
  /\ UNCHANGED <<workflow, report>>

LEMMA CallInv ==
  ASSUME IInv, Call
  PROVE  IInv'
<1>1. tool # NoTool /\ tool.name = "workflow" /\ tool.todo = <<>> /\ UNCHANGED <<device, stale, lost>>
  BY DEF Call
<1>2. /\ DeviceInv(device) /\ workflow \in WorkflowType /\ lost \in 0 .. MaxLost /\ stale \in BOOLEAN
      /\ ToolInv(tool, device) /\ report = NoReport /\ TrustIn(device, stale)
      /\ Flags(tool.changed, workflow, device.flash)
  BY <1>1, IInvParts
<1>3. CASE Finish(TRUE) BY <1>1, <1>3, FinishInv
<1>4. ASSUME NEW image \in WorkflowImages, NEW sectors \in Masks,
             NEW call \in Callable(image, sectors), Called(call)
      PROVE  IInv'
  <2>0. /\ tool' = [NewTool("workflow", call[1], {}, FALSE) EXCEPT
                       !.todo = call[2], !.changed = tool.changed]
        /\ workflow' = workflow /\ report' = report
    BY <1>4 DEF Called
  <2>1. PICK i \in Images : i = image BY <1>4, ToolsAssumption
  <2>2. PICK hand \in BOOLEAN : hand OBVIOUS
  <2>3. PICK s : s = call[2] OBVIOUS
  <2>4. PICK c \in Images \cup {None} : c = call[1] BY <1>4, <2>1 DEF Callable
  <2>5. s \in {erase(sectors), program(i), verify(i), dfu(sectors, i), workflow_run(i),
               Ask("workflow", Req("RESET", None)), load_and_attach_service, run_ram_image}
    BY <1>4, <2>1, <2>3 DEF Callable
  <2>6. Routine(hand, s) /\ Silent(s) BY <2>2, <2>5, CallLists
  <2>7. PICK changed \in BOOLEAN : changed = tool.changed BY <1>2 DEF ToolInv, ToolType
  <2>8. PICK t : t = WorkflowWith(c, s, changed) OBVIOUS
  <2>9. tool' = t BY <2>0, <2>3, <2>4, <2>7, <2>8 DEF WorkflowWith
  <2>10. ToolInv(t, device) /\ t.name = "workflow" /\ t.changed = changed
    BY <1>2, <2>2, <2>6, <2>8, WorkflowTool
  <2>11. ReportHolds' BY <1>2, <2>0, NotOk, NoReportNotOk
  <2>12. DeviceInv(device') /\ lost' \in 0 .. MaxLost /\ stale' \in BOOLEAN /\ TrustIn(device', stale')
    BY <1>1, <1>2
  <2>13. ToolInv(tool', device') /\ report' = NoReport /\ workflow' \in WorkflowType
    BY <1>1, <1>2, <2>0, <2>9, <2>10
  <2>14. Flags(tool'.changed, workflow', device'.flash) BY <1>1, <1>2, <2>0, <2>7, <2>9, <2>10
  <2> QED BY <2>11, <2>12, <2>13, <2>14, IInvNext
<1>5. (\E image \in WorkflowImages, sectors \in Masks : \E call \in Callable(image, sectors) : Called(call))
        \/ Finish(TRUE)
  BY Zenon DEF Call, Callable, Called
<1> QED BY <1>3, <1>4, <1>5, Zenon

LEMMA StartInv ==
  ASSUME IInv, Start
  PROVE  IInv'
<1>1. /\ workflow' = NewWorkflow /\ report' = NoReport
      /\ device' = device /\ stale' = stale /\ lost' = lost
  BY DEF Start
<1>2. DeviceInv(device) /\ lost \in 0 .. MaxLost /\ stale \in BOOLEAN /\ TrustIn(device, stale)
  BY IInvParts
<1>3. PICK name \in Tools, force \in BOOLEAN :
        \E image \in IF name \in TakesImage THEN Images ELSE {None},
           sectors \in IF name \in TakesMask THEN Masks ELSE {{}} :
          tool' = NewTool(name, image, sectors, force)
  BY DEF Start
<1>4. PICK image \in IF name \in TakesImage THEN Images ELSE {None},
           sectors \in IF name \in TakesMask THEN Masks ELSE {{}} :
        tool' = NewTool(name, image, sectors, force)
  BY <1>3
<1>5. /\ image \in Images \cup {None}
      /\ name \in TakesImage => image \in Images
      /\ name \in TakesMask => sectors \in Masks
  BY <1>4
<1>6. name \in {"flash", "upgrade", "verify"} => image \in Images BY <1>5 DEF TakesImage
<1>7. PICK hand \in BOOLEAN : hand = (name \in ByHand) BY ByHandOrNot
<1>8. PICK todo : todo = Script(name, image, sectors) OBVIOUS
<1>9. ScriptParts(hand, name, image, todo)
  <2>1. ScriptParts(hand, name, image, Script(name, image, sectors)) BY <1>5, <1>7, Scripts
  <2> QED BY <1>8, <2>1
<1>10. todo \in Seq(Steps) BY <1>9 DEF ScriptParts, Routine, Chain
<1>11. PICK t : t = NewTool(name, image, sectors, force) OBVIOUS
<1>12. BeginsWith(t, name, image, todo)
  BY <1>5, <1>8, <1>10, <1>11, NewToolFields, Zenon
<1>13. /\ t \in ToolType /\ t.name = name /\ t.image = image /\ t.attempted = FALSE
       /\ t.todo = todo /\ t.changed = FALSE
  BY <1>12 DEF BeginsWith
<1>14. ToolInv(t, device) BY <1>2, <1>5, <1>6, <1>7, <1>9, <1>13, NewToolInv
<1>15. tool' = t BY <1>4, <1>11
<1>16. ToolInv(tool', device') BY <1>1, <1>14, <1>15
<1>17. Flags(tool'.changed, workflow', device'.flash) BY <1>1, <1>13, <1>15 DEF Flags, NewWorkflow
<1>18. ReportHolds' BY <1>1, NotOk, NoReportNotOk
<1>19. DeviceInv(device') /\ lost' \in 0 .. MaxLost /\ stale' \in BOOLEAN /\ TrustIn(device', stale')
  BY <1>1, <1>2
<1> QED BY <1>1, <1>16, <1>17, <1>18, <1>19, NewWorkflowType, IInvNext

\* A loss of power ends every session and keeps Flash.
PowerOff(d) == [NewDevice(d.require) EXCEPT !.flash = d.flash, !.journal = d.journal]

LEMMA PowerLost ==
  ASSUME NEW d, DeviceInv(d), NEW e, e = PowerOff(d)
  PROVE  /\ DeviceInv(e) /\ e.flash = d.flash /\ e.journal = d.journal
         /\ \A k \in Transfers : e.session[k] = NoSession
<1>1. d \in DeviceType /\ d.require = TRUE BY DEF DeviceInv, DeviceType
<1>2. PICK f \in FlashContents : f = d.flash BY <1>1 DEF DeviceType
<1>3. PICK j \in Seq(Records) : j = d.journal BY <1>1 DEF DeviceType
<1>4. PICK s \in SessionTable : s = [k \in Transfers |-> NoSession]
  BY NoSessionType DEF SessionTable
<1>5. PICK n : n = NewDevice(d.require) OBVIOUS
<1>6. n = [require |-> TRUE, flash |-> [a \in Addresses |-> None], journal |-> <<>>, session |-> s,
           loaded |-> None, crc_ok |-> FALSE, service |-> "DETACHED", verified |-> FALSE]
  BY <1>1, <1>4, <1>5 DEF NewDevice
<1>7. e = [n EXCEPT !.flash = f, !.journal = j] BY <1>2, <1>3, <1>5 DEF PowerOff
<1>a. e = [require |-> TRUE, flash |-> f, journal |-> j, session |-> s,
           loaded |-> None, crc_ok |-> FALSE, service |-> "DETACHED", verified |-> FALSE]
  BY <1>6, <1>7
<1>b. e \in DeviceType BY <1>a DEF DeviceType
<1>c. e.flash = f /\ e.journal = j /\ e.session = s BY <1>a
<1>d. e.flash = d.flash /\ e.journal = d.journal BY <1>2, <1>3, <1>c
<1>8. \A k \in Transfers : e.session[k] = NoSession BY <1>4, <1>c
<1>9. "RAM_LOAD" \in Transfers BY DEF Transfers
<1> QED BY <1>b, <1>d, <1>8, <1>9, NoSessionType DEF DeviceInv

LEMMA PowerLostTool ==
  ASSUME NEW d, NEW e, NEW t, ToolInv(t, d), e.flash = d.flash, e.journal = d.journal,
         \A k \in Transfers : e.session[k] = NoSession
  PROVE  ToolInv(t, e)
<1>1. Summary(e) = Summary(d) BY SummaryOfJournal
<1>2. PICK hand \in BOOLEAN : hand = (t.name \in ByHand) BY ByHandOrNot
<1>3. /\ Chain(hand, t.todo)
      /\ t.todo # <<>> => Need(hand, t.todo[1], d, t.summary)
  BY <1>2, Zenon DEF ToolInv, ListInv
<1>4. ASSUME t.todo # <<>> PROVE Need(hand, t.todo[1], e, t.summary)
  <2>1. PICK x : x = t.todo[1] OBVIOUS
  <2>2. Shape(x) /\ Need(hand, x, d, t.summary) BY <1>3, <1>4, <2>1, ChainTail
  <2>3. x.q.command \in {"DATA", "END"} => x.q.type \in Transfers BY <2>2 DEF Shape, TransferCommands
  <2>4. Need(hand, x, e, t.summary) BY <1>1, <2>2, <2>3 DEF Need
  <2> QED BY <2>1, <2>4
<1>5. ListInv(t, e) BY <1>2, <1>3, <1>4, Zenon DEF ListInv
<1>6. PublishInv(t, e) BY <1>1 DEF ToolInv, PublishInv
<1>7. AttemptInv(t, e) BY <1>1 DEF ToolInv, AttemptInv
<1>8. EndInv(t, e)
  <2>1. Concluded(t.name, d) => Concluded(t.name, e) BY <1>1 DEF Concluded
  <2> QED BY <2>1 DEF ToolInv, EndInv
<1> QED BY <1>5, <1>6, <1>7, <1>8 DEF ToolInv

LEMMA PowerCycleInv ==
  ASSUME IInv, PowerCycle
  PROVE  IInv'
<1>1. /\ lost < MaxLost /\ lost' = lost + 1
      /\ device' = [NewDevice(device.require) EXCEPT !.flash = device.flash, !.journal = device.journal]
      /\ tool' = tool /\ workflow' = workflow /\ report' = report /\ stale' = stale
  BY DEF PowerCycle
<1>2. /\ DeviceInv(device) /\ workflow \in WorkflowType /\ lost \in 0 .. MaxLost /\ stale \in BOOLEAN
      /\ tool # NoTool => ToolInv(tool, device) /\ report = NoReport
      /\ TrustIn(device, stale) /\ ReportHolds
      /\ tool.name = "workflow" => Flags(tool.changed, workflow, device.flash)
  BY IInvParts
<1>3. PICK e : e = PowerOff(device) OBVIOUS
<1>4. /\ DeviceInv(e) /\ e.flash = device.flash /\ e.journal = device.journal
      /\ \A k \in Transfers : e.session[k] = NoSession
  BY <1>2, <1>3, PowerLost
<1>5. device' = e BY <1>1, <1>3 DEF PowerOff
<1>6. Summary(e) = Summary(device) BY <1>4, SummaryOfJournal
<1>7. TrustIn(e, stale) BY <1>2, <1>4, <1>6 DEF TrustIn
<1>8. tool # NoTool => ToolInv(tool, e) BY <1>2, <1>4, PowerLostTool
<1>9. ReportHolds' BY <1>1, <1>2, <1>4, <1>5, <1>6 DEF ReportHolds, Holds
<1>10. lost' \in 0 .. MaxLost BY <1>1, <1>2, ToolsAssumption
<1>11. tool' # NoTool => ToolInv(tool', device') /\ report' = NoReport BY <1>1, <1>2, <1>5, <1>8
<1>12. tool'.name = "workflow" => Flags(tool'.changed, workflow', device'.flash)
  BY <1>1, <1>2, <1>4, <1>5
<1>13. DeviceInv(device') /\ TrustIn(device', stale') BY <1>1, <1>4, <1>5, <1>7
<1> QED BY <1>1, <1>2, <1>9, <1>10, <1>11, <1>12, <1>13, IInvNext

LEMMA InitIInv ==
  Init => IInv
<1> SUFFICES ASSUME Init PROVE IInv OBVIOUS
<1>1. /\ device = NewDevice(TRUE) /\ tool = NoTool /\ workflow = NewWorkflow /\ report = NoReport
      /\ stale = FALSE /\ lost = 0
  BY DEF Init
<1>2. device.journal = <<>> BY <1>1 DEF NewDevice
<1>3. /\ HasLatest(device.journal) /\ Summary(device).image = None BY <1>2, EmptySummary
<1>4. device \in DeviceType
  BY <1>1, NoSessionType DEF NewDevice, DeviceType, FlashContents, SessionTable
<1>5. /\ Len(device.journal) <= RecordCount
      /\ \A k \in Transfers : device.session[k] = NoSession
  BY <1>1, SimulatorAssumption DEF NewDevice
<1>6. DeviceInv(device)
  <2>1. "RAM_LOAD" \in Transfers BY DEF Transfers
  <2> QED BY <1>3, <1>4, <1>5, <2>1, NoSessionType DEF DeviceInv
<1>7. TrustIsEarned BY <1>3 DEF TrustIsEarned
<1>8. ReportHolds BY <1>1 DEF ReportHolds, NoReport
<1>9. FlagsHold BY <1>1 DEF FlagsHold, NoTool
<1>10. lost \in 0 .. MaxLost BY <1>1, ToolsAssumption
<1>11. stale \in BOOLEAN BY <1>1, Zenon
<1> QED BY <1>1, <1>6, <1>7, <1>8, <1>9, <1>10, <1>11, NewWorkflowType DEF IInv

LEMMA NextIInv ==
  IInv /\ [Next]_vars => IInv'
<1> SUFFICES ASSUME IInv, [Next]_vars PROVE IInv' OBVIOUS
<1>1. CASE Start BY <1>1, StartInv
<1>2. CASE Transact BY <1>2, TransactInv
<1>3. CASE Decides BY <1>3, DecidesInv
<1>4. CASE Done
  <2>1. tool # NoTool /\ tool.todo = <<>> /\ Finish(TRUE) /\ UNCHANGED <<device, stale, lost>>
    BY <1>4 DEF Done
  <2> QED BY <2>1, FinishInv
<1>5. CASE Call BY <1>5, CallInv
<1>6. CASE PowerCycle BY <1>6, PowerCycleInv
<1>7. CASE UNCHANGED vars
  BY <1>7 DEF vars, IInv, TrustIsEarned, ReportHolds, FlagsHold, Holds
<1> QED BY <1>1, <1>2, <1>3, <1>4, <1>5, <1>6, <1>7 DEF Next

-----------------------------------------------------------------------------
(* One attempt. *)

\* Whatever becomes of an exchange, the device is as some outcome of the request
\* leaves it.
LEMMA TransactStep ==
  ASSUME IInv, Transact
  PROVE  \E x, r : /\ tool # NoTool /\ tool.todo # <<>> /\ x = tool.todo[1]
                   /\ StepFacts(x, device, r) /\ device' = r.device
<1>1. tool # NoTool /\ tool.todo # <<>> /\ Head(tool.todo).do \in Askers
  BY DEF Transact, Running, Askers
<1>2. DeviceInv(device) /\ ToolInv(tool, device) BY <1>1, IInvParts
<1>3. PICK x : x = tool.todo[1] OBVIOUS
<1>4. PICK hand \in BOOLEAN : hand = (tool.name \in ByHand) BY ByHandOrNot
<1>5. tool.todo \in Seq(Steps) BY <1>2 DEF ToolInv, ToolType
<1>6. Head(tool.todo) = x BY <1>1, <1>3, <1>5, TailSteps
<1>7. Chain(hand, tool.todo) /\ Need(hand, x, device, tool.summary)
  BY <1>1, <1>2, <1>3, <1>4, Zenon DEF ToolInv, ListInv
<1>8. Shape(x) BY <1>1, <1>3, <1>7, ChainTail
<1>9. x.do \notin Deciders BY <1>1, <1>6 DEF Askers, Deciders
<1>10. ASSUME NEW fault, NEW r, r = Respond(device, x.q, fault)
       PROVE  StepFacts(x, device, r)
  BY <1>2, <1>7, <1>8, <1>9, <1>10, StepEffect
<1>11. \/ \E fault : device' = Respond(device, x.q, fault).device
       \/ device' = device
  BY <1>6 DEF Transact
<1>12. CASE \E fault : device' = Respond(device, x.q, fault).device
  <2>1. PICK fault : device' = Respond(device, x.q, fault).device BY <1>12
  <2>2. PICK r : r = Respond(device, x.q, fault) OBVIOUS
  <2>3. StepFacts(x, device, r) /\ device' = r.device BY <1>10, <2>1, <2>2
  <2> QED BY <1>1, <1>3, <2>3
<1>13. CASE device' = device
  <2>1. PICK r : r = Fail(device, "TIMEOUT") OBVIOUS
  <2>2. r.device = device /\ r.status # "OK" BY <2>1 DEF Fail
  <2>3. StepFacts(x, device, r) BY <1>2, <2>2, LostStep
  <2> QED BY <1>1, <1>3, <1>13, <2>2, <2>3
<1> QED BY <1>11, <1>12, <1>13

\* Only BOOT_ATTEMPT adds to the attempts.
LEMMA AttemptsGrow ==
  ASSUME NEW x, NEW d, DeviceInv(d), NEW r, StepFacts(x, d, r), ~Attempts(x)
  PROVE  ~(Summary(r.device).attempts > Summary(d).attempts)
<1>1. Summary(d).attempts \in Nat BY SummaryType DEF Summaries
<1>2. CASE Erases(x)
  <2>1. r.device.journal \in {<<>>, d.journal} BY <1>2 DEF StepFacts
  <2>2. CASE r.device.journal = d.journal BY <1>1, <2>2, SummaryOfJournal
  <2>3. CASE r.device.journal = <<>>
    <3>1. PICK e : e = r.device OBVIOUS
    <3>2. Summary(e).attempts = 0 BY <2>3, <3>1, EmptySummary
    <3> QED BY <1>1, <3>1, <3>2
  <2> QED BY <2>1, <2>2, <2>3
<1>3. CASE Publishes(x) BY <1>1, <1>3 DEF StepFacts
<1>4. CASE Appends(x) /\ ~Publishes(x) BY <1>1, <1>4 DEF StepFacts
<1>5. CASE ~Erases(x) /\ ~Appends(x) BY <1>1, <1>5, SameSummary
<1>6. Publishes(x) => Appends(x) BY DEF Publishes, Appends
<1> QED BY <1>2, <1>3, <1>4, <1>5, <1>6

LEMMA OneAttemptStep ==
  ASSUME IInv, [Next]_vars, tool.name \in {"run", "upgrade"},
         Summary(device').attempts > Summary(device).attempts
  PROVE  Summary(device).attempts = 0
<1>1. DeviceInv(device) /\ (tool # NoTool => ToolInv(tool, device)) BY IInvParts
<1>2. Summary(device).attempts \in Nat BY <1>1, SummaryType DEF Summaries
<1>3. device'.journal # device.journal BY <1>2, SummaryOfJournal
<1>4. CASE Transact
  <2>1. PICK x, r : /\ tool # NoTool /\ tool.todo # <<>> /\ x = tool.todo[1]
                    /\ StepFacts(x, device, r) /\ device' = r.device
    BY <1>4, TransactStep
  <2>2. Attempts(x) BY <1>1, <2>1, AttemptsGrow
  <2>3. AttemptInv(tool, device) /\ tool.todo \in Seq(Steps) BY <1>1, <2>1 DEF ToolInv, ToolType
  <2>4. PICK s \in Seq(Steps) : s = tool.todo BY <2>3
  <2>5. PICK rest : rest = Tail(s) OBVIOUS
  <2>6. TailFacts(s, rest) BY <2>1, <2>4, <2>5, TailParts
  <2>7. /\ NoBoot(s) => ~Attempts(x)
        /\ Calm(s) => ~Attempts(x)
    BY <2>1, <2>4, <2>6 DEF TailFacts, Harmless, Attempts
  <2> QED BY <2>2, <2>3, <2>4, <2>7 DEF AttemptInv
<1>5. CASE ~Transact
  <2>1. device' = device
         \/ device' = [NewDevice(device.require) EXCEPT !.flash = device.flash, !.journal = device.journal]
    BY <1>5 DEF Next, Start, Decides, Done, Call, PowerCycle, vars
  <2>2. CASE device' = [NewDevice(device.require) EXCEPT !.flash = device.flash, !.journal = device.journal]
    <3>1. PICK e : e = PowerOff(device) OBVIOUS
    <3>2. e.journal = device.journal BY <1>1, <3>1, PowerLost
    <3>3. device' = e BY <2>2, <3>1 DEF PowerOff
    <3> QED BY <1>3, <3>2, <3>3
  <2> QED BY <1>3, <2>1, <2>2
<1> QED BY <1>4, <1>5

-----------------------------------------------------------------------------
(* Theorems. *)

\* Whatever tool runs, whatever exchanges and power are lost, the steps it has
\* still to take rest on what is true of the device: a packet of an open
\* transfer on the packets before it, IMAGE_VALID on a whole verify, the erase of
\* an application on the erase of its record, a decision on a fresh summary
\* (tools/*.py, UpgradeWorkflow).
THEOREM ToolsInvariant == Spec => []IInv
BY InitIInv, NextIInv, PTL DEF Spec

\* What a tool prints and what a workflow remembers is true of the device
\* (main of tools/*.py, UpgradeWorkflow._transact).
THEOREM ToolsAreTrue == Spec => []ToolsInv
<1>1. IInv => ToolsInv
  <2> SUFFICES ASSUME IInv PROVE ToolsInv OBVIOUS
  <2>1. DeviceInv(device) /\ workflow \in WorkflowType /\ lost \in 0 .. MaxLost BY DEF IInv
  <2>2. device.flash \in [Addresses -> Images \cup {None}]
    BY <2>1 DEF DeviceInv, DeviceType, FlashContents
  <2>3. TypeOK BY <2>1, <2>2 DEF TypeOK, DeviceInv, WorkflowType
  <2> QED BY <2>3 DEF IInv, ToolsInv
<1> QED BY <1>1, ToolsInvariant, PTL

\* An image on record is in Flash whole, whatever was cut short, unless
\* application sectors were erased by hand under the journal (the order of
\* erase_masks, verify_app_and_write_image_valid).
THEOREM TrustEarned == Spec => []TrustIsEarned
<1>1. IInv => TrustIsEarned BY DEF IInv
<1> QED BY <1>1, ToolsInvariant, PTL

\* cpu1_upgrade run and upgrade spend an attempt only on an image that has none,
\* also when an earlier run lost the answer to its BOOT_ATTEMPT
\* (ensure_boot_attempt).
THEOREM SpendsOneAttempt == Spec => OneAttempt
<1>1. IInv /\ [Next]_vars =>
        [ tool.name \in {"run", "upgrade"} /\ Summary(device').attempts > Summary(device).attempts
            => Summary(device).attempts = 0 ]_vars
  BY OneAttemptStep
<1> QED BY <1>1, ToolsInvariant, PTL DEF Spec, OneAttempt

=============================================================================
