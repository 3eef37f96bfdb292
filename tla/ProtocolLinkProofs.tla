------------------------- MODULE ProtocolLinkProofs -------------------------
(***************************************************************************)
(* Proofs about ProtocolLink, for every number of requests, faults and     *)
(* payload cells: requests reach their handlers in the order they were     *)
(* written and each at most once, and what a transaction reports is what   *)
(* happened to its own request.                                            *)
(*                                                                         *)
(* The argument is about the frames whose magic is still somewhere between *)
(* the host and the device.  Nothing on the way creates a magic, and       *)
(* nothing puts one in front of another, so those going up are ordered by  *)
(* the id of their request and are all newer than what the device has      *)
(* handled.  A frame coming down carries the status its request's handler  *)
(* answered, or the report of a damaged payload whose request no handler   *)
(* has seen or will see; its sequence number tells which request it was.   *)
(***************************************************************************)
EXTENDS ProtocolLink, WellFoundedInduction, SequenceTheorems, TLAPS

\* The frames whose magic is among the cells of s.
IsMagic(c) == c.kind = "magic"
MagicFrames(s) ==
  {f \in Frames : \E i \in 1 .. Len(s) : IsMagic(s[i]) /\ s[i].frame = f}

\* The magics of s are in the order of their requests; there is at most one.
Ordered(s) ==
  \A i, j \in 1 .. Len(s) :
    i < j /\ IsMagic(s[i]) /\ IsMagic(s[j]) => s[i].frame.id < s[j].frame.id
Single(s) == \A i, j \in 1 .. Len(s) : IsMagic(s[i]) /\ IsMagic(s[j]) => i = j
Led(s) == s # <<>> => IsMagic(s[1])

Upstream == MagicFrames(receiver.cells) \cup MagicFrames(up)
Downstream == MagicFrames(buffer) \cup MagicFrames(down)
Log == {handled[i] : i \in DOMAIN handled}
Done == {h.id : h \in Log}

Handlings == [id : 1 .. MaxRequests, status : HandlerStatuses]
Calls == [id : 1 .. MaxRequests, command : Commands, sequence : 1 .. MaxSequence, max : Int]
Outcomes == [id : 0 .. MaxRequests,
             how : {"none", "limit", "write", "decode", "timeout"} \cup Statuses]
Receivers == [at : {"magic", "header", "payload"}, cells : Seq(Cells)]

\* The shape of every variable; the search of the DSP holds nothing, and what a
\* receiver holds begins with a magic.
ShapeInv ==
  /\ stack \in Stacks /\ limit \in DeviceLimits
  /\ port \in {"closed", "settle", "autobaud", "delay", "open", "unclosed"}
  /\ sequence \in 0 .. MaxSequence /\ known \subseteq Commands
  /\ requests \in 0 .. MaxRequests /\ faults \in 0 .. MaxFaults /\ reused \in BOOLEAN
  /\ call \in Calls \cup {NoCall} /\ call.id <= requests
  /\ outcome \in Outcomes
  /\ up \in Seq(Cells) /\ down \in Seq(Cells) /\ buffer \in Seq(Cells)
  /\ receiver \in Receivers
  /\ handled \in Seq(Handlings)
  /\ Led(receiver.cells)
  /\ receiver.at = "magic" /\ stack # "simulator" => receiver.cells = <<>>
  /\ receiver.at # "magic" => receiver.cells # <<>> /\ stack # "simulator"

\* Requests reach the device in their order.
OrderInv ==
  /\ HandledInOrder
  /\ Ordered(receiver.cells) /\ Ordered(up)
  /\ \A f \in MagicFrames(receiver.cells), g \in MagicFrames(up) : f.id < g.id

\* No request with this id has reached a handler or will reach one.
Never(id) == id \notin Done /\ \A g \in Upstream : id < g.id

\* What this status says of the request with this id is so.
TrueOf(id, status) ==
  IF status = "BAD_PAYLOAD_CRC" THEN Never(id) ELSE Handled([id |-> id], status) \in Log

\* What is on the way, and what the caller was told, agrees with what was handled.
DoneInv ==
  /\ \A f \in Upstream : f.id <= requests /\ \A id \in Done : id < f.id
  /\ \A id \in Done : id <= requests
  /\ \A f \in Downstream :
       f.id <= requests /\ f.status \in Statuses /\ TrueOf(f.id, f.status)
  /\ outcome.id <= requests
  /\ ~reused /\ outcome.how \in Statuses => TrueOf(outcome.id, outcome.how)

\* The sequence number the request with this id was sent with, counted back from
\* the last one.
CountedBack(last, count, id) ==
  LET d == last - (count - id) IN IF d < 1 THEN d + MaxSequence ELSE d
SequenceOf(id) == CountedBack(sequence, requests, id)

\* Sequence numbers identify requests, on a line that cannot spoil them unnoticed.
SequenceInv ==
  stack # "simulator" /\ ~reused =>
    /\ \A f \in Upstream \cup Downstream : f.sequence = SequenceOf(f.id)
    /\ call # NoCall => call.sequence = SequenceOf(call.id)

\* The simulator is fed one frame: nothing of it yet, or its first cells.
SimulatorReading ==
  /\ receiver.cells # <<>> =>
       /\ up # <<>> /\ MagicFrames(up) = {} /\ Single(receiver.cells)
       /\ Len(receiver.cells) + Len(up) = receiver.cells[1].frame.n + 3
  /\ MagicFrames(up) # {} =>
       Single(up) /\ IsMagic(up[1]) /\ Len(up) = up[1].frame.n + 3

\* The simulator answers inside the write, and answers once: there is at most one
\* frame about, and it is the running call's.
SimulatorInv ==
  stack = "simulator" =>
    /\ call = NoCall => /\ up = <<>> /\ receiver.cells = <<>> /\ buffer = <<>>
                        /\ MagicFrames(down) = {}
    /\ \A f \in Upstream \cup Downstream : f.id = call.id
    /\ SimulatorReading
    /\ Upstream # {} => Downstream = {}
    /\ Single(buffer) /\ Single(down)
    /\ MagicFrames(buffer) = {} \/ MagicFrames(down) = {}

IInv ==
  ShapeInv /\ OrderInv /\ DoneInv /\ SequenceInv /\ SimulatorInv /\ NeverOversized

-----------------------------------------------------------------------------
(* Facts about cells and sequences of cells. *)

\* A set of natural numbers has a least element, and Min is it.
LEMMA Minimum ==
  ASSUME NEW S \in SUBSET Nat, S # {}
  PROVE  Min(S) \in S /\ \A y \in S : Min(S) <= y
<1> DEFINE R == {ss \in Nat \X Nat : ss[1] < ss[2]}
<1>1. OpToRel(<,Nat) = R
  BY Zenon DEF OpToRel
<1>2. IsWellFoundedOn(R, Nat)
  BY <1>1, NatLessThanWellFounded, Zenon
<1>3. \E x \in S : \A y \in S : <<y, x>> \notin R
  <2> HIDE DEF R
  <2> QED BY <1>2, WFMin, Zenon
<1>4. \E x \in S : \A y \in S : x <= y
  <2>1. PICK x \in S : \A y \in S : <<y, x>> \notin R
    BY <1>3
  <2>2. ASSUME NEW y \in S PROVE x <= y
    <3>1. ASSUME y < x PROVE FALSE
      <4>1. <<y, x>> \in R
        BY <3>1
      <4> HIDE DEF R
      <4> QED BY <4>1, <2>1
    <3> QED BY <3>1
  <2> QED BY <2>2
<1> QED BY <1>4 DEF Min

\* Only a cell of a frame can be a magic.
LEMMA CellFacts ==
  /\ Junk \in Cells /\ ~IsMagic(Junk)
  /\ \A c \in Cells : c # Junk => c.frame \in Frames
  /\ \A c \in Cells : IsMagic(c) => c.frame \in Frames
  /\ \A f \in Frames : /\ Cell("magic", f) \in Cells /\ Cell("header", f) \in Cells
                       /\ Cell("data", f) \in Cells /\ Cell("crc", f) \in Cells
BY DEF Cells, Junk, IsMagic, Cell

LEMMA FrameFacts ==
  \A f \in Frames : /\ f.id \in Nat /\ f.id \in 1 .. MaxRequests /\ f.n \in Nat
                    /\ f.sequence \in 1 .. MaxSequence
BY LinkAssumption DEF Frames

LEMMA MagicHere ==
  ASSUME NEW s \in Seq(Cells), NEW i \in 1 .. Len(s), IsMagic(s[i])
  PROVE  s[i].frame \in MagicFrames(s) /\ s[i].frame \in Frames
BY CellFacts DEF MagicFrames

LEMMA MagicThere ==
  ASSUME NEW s \in Seq(Cells), NEW f \in MagicFrames(s)
  PROVE  \E i \in 1 .. Len(s) : IsMagic(s[i]) /\ s[i].frame = f
BY DEF MagicFrames

LEMMA MagicTyped == \A s : MagicFrames(s) \subseteq Frames
BY DEF MagicFrames

LEMMA MagicNone ==
  ASSUME NEW s \in Seq(Cells), \A i \in 1 .. Len(s) : ~IsMagic(s[i])
  PROVE  MagicFrames(s) = {} /\ Ordered(s) /\ Single(s)
BY DEF MagicFrames, Ordered, Single

LEMMA EmptyFacts ==
  /\ <<>> \in Seq(Cells) /\ Len(<<>>) = 0 /\ Led(<<>>)
  /\ MagicFrames(<<>>) = {} /\ Ordered(<<>>) /\ Single(<<>>)
<1>1. <<>> \in Seq(Cells) /\ Len(<<>>) = 0 /\ Led(<<>>)
  BY DEF Led
<1> QED BY <1>1 DEF MagicFrames, Ordered, Single

\* A frame on the line: its magic first and nowhere else.
LEMMA EncodeFacts ==
  ASSUME NEW f \in Frames
  PROVE  /\ Encode(f) \in Seq(Cells) /\ Len(Encode(f)) = f.n + 3
         /\ Encode(f)[1] = Cell("magic", f)
         /\ \A i \in 1 .. f.n + 3 : Encode(f)[i].frame = f /\ Encode(f)[i] # Junk
         /\ \A i \in 2 .. f.n + 3 : ~IsMagic(Encode(f)[i])
<1> DEFINE a == <<Cell("magic", f), Cell("header", f)>>
           b == [i \in 1 .. f.n |-> Cell("data", f)]
           c == <<Cell("crc", f)>>
<1>n. f.n \in Nat
  BY FrameFacts
<1>1. /\ a \in Seq(Cells) /\ Len(a) = 2 /\ a[1] = Cell("magic", f) /\ a[2] = Cell("header", f)
  BY CellFacts
<1>2. b \in Seq(Cells) /\ Len(b) = f.n /\ \A i \in 1 .. f.n : b[i] = Cell("data", f)
  <2>1. PICK d \in Cells : d = Cell("data", f)
    BY CellFacts
  <2>2. PICK n \in Nat : n = f.n
    BY <1>n
  <2>3. [i \in 1 .. n |-> d] \in Seq(Cells) /\ Len([i \in 1 .. n |-> d]) = n
    OBVIOUS
  <2> QED BY <2>1, <2>2, <2>3
<1>3. c \in Seq(Cells) /\ Len(c) = 1 /\ c[1] = Cell("crc", f)
  BY CellFacts
<1>e. Encode(f) = (a \o b) \o c
  BY DEF Encode
<1> HIDE DEF a, b, c
<1>4. /\ a \o b \in Seq(Cells) /\ Len(a \o b) = Len(a) + Len(b)
      /\ \A i \in 1 .. Len(a) + Len(b) : (a \o b)[i] = IF i <= Len(a) THEN a[i] ELSE b[i - Len(a)]
  BY <1>1, <1>2, ConcatProperties, Zenon
<1> DEFINE ab == a \o b
<1>5. /\ ab \in Seq(Cells) /\ Len(ab) = 2 + f.n
      /\ ab[1] = Cell("magic", f) /\ ab[2] = Cell("header", f)
      /\ \A i \in 3 .. f.n + 2 : ab[i] = Cell("data", f)
  BY <1>n, <1>1, <1>2, <1>4
<1>e2. Encode(f) = ab \o c
  BY <1>e
<1> HIDE DEF ab
<1>6. /\ ab \o c \in Seq(Cells) /\ Len(ab \o c) = Len(ab) + Len(c)
      /\ \A i \in 1 .. Len(ab) + Len(c) :
           (ab \o c)[i] = IF i <= Len(ab) THEN ab[i] ELSE c[i - Len(ab)]
  BY <1>5, <1>3, ConcatProperties, Zenon
<1>7. PICK e \in Seq(Cells) : e = Encode(f)
  BY <1>6, <1>e2
<1>8. /\ Len(e) = f.n + 3 /\ e[1] = Cell("magic", f) /\ e[2] = Cell("header", f)
      /\ \A i \in 3 .. f.n + 2 : e[i] = Cell("data", f)
      /\ e[f.n + 3] = Cell("crc", f)
  BY <1>n, <1>3, <1>5, <1>6, <1>7, <1>e2
<1>9. \A i \in 1 .. f.n + 3 : e[i].frame = f /\ e[i] # Junk
  <2> SUFFICES ASSUME NEW i \in 1 .. f.n + 3 PROVE e[i].frame = f /\ e[i] # Junk
    OBVIOUS
  <2>1. e[i] \in {Cell("magic", f), Cell("header", f), Cell("data", f), Cell("crc", f)}
    <3>1. i = 1 \/ i = 2 \/ i \in 3 .. f.n + 2 \/ i = f.n + 3
      BY <1>n
    <3> QED BY <3>1, <1>8
  <2> QED BY <2>1 DEF Cell, Junk
<1>10. \A i \in 2 .. f.n + 3 : ~IsMagic(e[i])
  <2> SUFFICES ASSUME NEW i \in 2 .. f.n + 3 PROVE ~IsMagic(e[i])
    OBVIOUS
  <2>1. e[i] \in {Cell("header", f), Cell("data", f), Cell("crc", f)}
    <3>1. i = 2 \/ i \in 3 .. f.n + 2 \/ i = f.n + 3
      BY <1>n
    <3> QED BY <3>1, <1>8
  <2> QED BY <2>1 DEF Cell, IsMagic
<1> QED BY <1>7, <1>8, <1>9, <1>10

\* What reading, losing or damaging cells leaves of a sequence: t has no cell but
\* those of s and junk, in the order they had.
Thins(t, s) ==
  /\ t \in Seq(Cells)
  /\ \A i \in 1 .. Len(t) : t[i] = Junk \/ \E j \in 1 .. Len(s) : t[i] = s[j]
  /\ MagicFrames(t) \subseteq MagicFrames(s)
  /\ Ordered(s) => Ordered(t)
  /\ Single(s) => Single(t)

\* The argument for each way of thinning: an order-preserving map of positions.
LEMMA ThinsBy ==
  ASSUME NEW s \in Seq(Cells), NEW t \in Seq(Cells),
         NEW h \in [1 .. Len(t) -> 1 .. Len(s)],
         \A i, j \in 1 .. Len(t) : i < j => h[i] < h[j],
         \A i \in 1 .. Len(t) : t[i] = Junk \/ t[i] = s[h[i]]
  PROVE  Thins(t, s)
<1>0. Len(t) \in Nat /\ Len(s) \in Nat
  OBVIOUS
<1>m. \A i \in 1 .. Len(t) : IsMagic(t[i]) => t[i] = s[h[i]]
  BY CellFacts
<1>1. \A i \in 1 .. Len(t) : t[i] = Junk \/ \E j \in 1 .. Len(s) : t[i] = s[j]
  OBVIOUS
<1>2. MagicFrames(t) \subseteq MagicFrames(s)
  BY <1>m DEF MagicFrames
<1>3. ASSUME Ordered(s) PROVE Ordered(t)
  <2> SUFFICES ASSUME NEW i \in 1 .. Len(t), NEW j \in 1 .. Len(t),
                      i < j, IsMagic(t[i]), IsMagic(t[j])
               PROVE  t[i].frame.id < t[j].frame.id
    BY DEF Ordered
  <2>1. PICK a \in 1 .. Len(s), b \in 1 .. Len(s) : a = h[i] /\ b = h[j]
    OBVIOUS
  <2>2. a < b /\ t[i] = s[a] /\ t[j] = s[b]
    BY <2>1, <1>m
  <2>3. IsMagic(s[a]) /\ IsMagic(s[b])
    BY <2>2
  <2>4. s[a].frame.id < s[b].frame.id
    BY <1>3, <2>2, <2>3 DEF Ordered
  <2> QED BY <2>4, <2>2
<1>4. ASSUME Single(s) PROVE Single(t)
  <2> SUFFICES ASSUME NEW i \in 1 .. Len(t), NEW j \in 1 .. Len(t),
                      IsMagic(t[i]), IsMagic(t[j])
               PROVE  i = j
    BY DEF Single
  <2>1. PICK a \in 1 .. Len(s), b \in 1 .. Len(s) : a = h[i] /\ b = h[j]
    OBVIOUS
  <2>2. t[i] = s[a] /\ t[j] = s[b]
    BY <2>1, <1>m
  <2>3. IsMagic(s[a]) /\ IsMagic(s[b])
    BY <2>2
  <2>4. a = b
    BY <1>4, <2>3 DEF Single
  <2>5. ASSUME i < j PROVE FALSE
    <3>1. h[i] < h[j]
      BY <2>5
    <3> QED BY <3>1, <2>1, <2>4
  <2>6. ASSUME j < i PROVE FALSE
    <3>1. h[j] < h[i]
      BY <2>6
    <3> QED BY <3>1, <2>1, <2>4
  <2> QED BY <2>5, <2>6
<1> QED BY <1>1, <1>2, <1>3, <1>4 DEF Thins

LEMMA ThinsTwice ==
  ASSUME NEW s, NEW t, NEW u, Thins(t, s), Thins(u, t)
  PROVE  Thins(u, s)
<1>1. \A i \in 1 .. Len(u) : u[i] = Junk \/ \E j \in 1 .. Len(s) : u[i] = s[j]
  <2> SUFFICES ASSUME NEW i \in 1 .. Len(u), u[i] # Junk
               PROVE  \E j \in 1 .. Len(s) : u[i] = s[j]
    OBVIOUS
  <2>1. PICK k \in 1 .. Len(t) : u[i] = t[k]
    BY DEF Thins
  <2> QED BY <2>1 DEF Thins
<1> QED BY <1>1 DEF Thins

LEMMA SubSeqThins ==
  ASSUME NEW s \in Seq(Cells), NEW m \in Nat \ {0}, NEW n \in 0 .. Len(s)
  PROVE  /\ Thins(SubSeq(s, m, n), s)
         /\ Len(SubSeq(s, m, n)) = IF m <= n THEN n - m + 1 ELSE 0
         /\ \A i \in 1 .. n - m + 1 : SubSeq(s, m, n)[i] = s[m + i - 1]
<1>1. /\ SubSeq(s, m, n) \in Seq(Cells)
      /\ Len(SubSeq(s, m, n)) = IF m <= n THEN n - m + 1 ELSE 0
      /\ \A i \in 1 .. n - m + 1 : SubSeq(s, m, n)[i] = s[m + i - 1]
  <2>1. \A i \in m .. n : s[i] \in Cells
    OBVIOUS
  <2>2. m \in Int /\ n \in Int
    OBVIOUS
  <2> QED BY <2>1, <2>2, SubSeqProperties
<1>2. PICK t \in Seq(Cells) : t = SubSeq(s, m, n)
  BY <1>1
<1>3. PICK h : h = [i \in 1 .. Len(t) |-> m + i - 1]
  OBVIOUS
<1>4. h \in [1 .. Len(t) -> 1 .. Len(s)]
  BY <1>1, <1>2, <1>3
<1>5. \A i, j \in 1 .. Len(t) : i < j => h[i] < h[j]
  BY <1>3
<1>6. \A i \in 1 .. Len(t) : t[i] = Junk \/ t[i] = s[h[i]]
  BY <1>1, <1>2, <1>3
<1>7. Thins(t, s)
  BY <1>4, <1>5, <1>6, ThinsBy
<1> QED BY <1>1, <1>2, <1>7

LEMMA TailThins ==
  ASSUME NEW s \in Seq(Cells), s # <<>>
  PROVE  /\ Thins(Tail(s), s) /\ Len(Tail(s)) = Len(s) - 1
         /\ \A i \in 1 .. Len(s) - 1 : Tail(s)[i] = s[i + 1]
         /\ Head(s) = s[1] /\ Head(s) \in Cells
<1>1. Tail(s) = SubSeq(s, 2, Len(s))
  BY TailIsSubSeq, Zenon
<1>2. Len(s) \in Nat \ {0} /\ Len(s) \in 0 .. Len(s)
  OBVIOUS
<1>3. /\ Thins(SubSeq(s, 2, Len(s)), s)
      /\ Len(SubSeq(s, 2, Len(s))) = IF 2 <= Len(s) THEN Len(s) - 2 + 1 ELSE 0
      /\ \A i \in 1 .. Len(s) - 2 + 1 : SubSeq(s, 2, Len(s))[i] = s[2 + i - 1]
  <2>1. 2 \in Nat \ {0}
    OBVIOUS
  <2> QED BY <1>2, <2>1, SubSeqThins, Zenon
<1>4. Head(s) = s[1] /\ Head(s) \in Cells
  BY <1>2
<1>5. PICK t : t = Tail(s)
  OBVIOUS
<1>6. /\ Thins(t, s) /\ Len(t) = IF 2 <= Len(s) THEN Len(s) - 2 + 1 ELSE 0
      /\ \A i \in 1 .. Len(s) - 2 + 1 : t[i] = s[2 + i - 1]
  BY <1>1, <1>3, <1>5, Zenon
<1>7. Len(t) = Len(s) - 1 /\ \A i \in 1 .. Len(s) - 1 : t[i] = s[i + 1]
  <2>1. PICK k \in Nat \ {0} : k = Len(s)
    BY <1>2
  <2>2. Len(t) = k - 1
    BY <1>6, <2>1
  <2>3. ASSUME NEW i \in 1 .. k - 1 PROVE t[i] = s[i + 1]
    <3>1. i \in 1 .. Len(s) - 2 + 1
      BY <2>1
    <3>2. t[i] = s[2 + i - 1]
      BY <3>1, <1>6
    <3>3. 2 + i - 1 = i + 1
      BY <2>3
    <3> QED BY <3>2, <3>3
  <2> QED BY <2>1, <2>2, <2>3
<1> QED BY <1>4, <1>5, <1>6, <1>7, Zenon

LEMMA RemoveThins ==
  ASSUME NEW s \in Seq(Cells), NEW k \in 1 .. Len(s)
  PROVE  Thins(Remove(s, k), s)
<1> DEFINE a == SubSeq(s, 1, k - 1)
           b == SubSeq(s, k + 1, Len(s))
<1>0. Len(s) \in Nat
  OBVIOUS
<1>1. /\ a \in Seq(Cells) /\ Len(a) = k - 1
      /\ \A i \in 1 .. k - 1 : a[i] = s[i]
  <2>1. k - 1 \in 0 .. Len(s) /\ 1 \in Nat \ {0}
    BY <1>0
  <2>2. PICK n \in 0 .. Len(s) : n = k - 1
    BY <2>1
  <2>3. /\ Thins(SubSeq(s, 1, n), s)
        /\ Len(SubSeq(s, 1, n)) = IF 1 <= n THEN n - 1 + 1 ELSE 0
        /\ \A i \in 1 .. n - 1 + 1 : SubSeq(s, 1, n)[i] = s[1 + i - 1]
    BY <2>1, SubSeqThins, Zenon
  <2>4. SubSeq(s, 1, n) \in Seq(Cells)
    BY <2>3 DEF Thins
  <2> QED BY <2>2, <2>3, <2>4
<1>2. /\ b \in Seq(Cells) /\ Len(b) = Len(s) - k
      /\ \A i \in 1 .. Len(s) - k : b[i] = s[k + i]
  <2>1. k + 1 \in Nat \ {0} /\ Len(s) \in 0 .. Len(s)
    BY <1>0
  <2>2. PICK m \in Nat \ {0} : m = k + 1
    BY <2>1
  <2>3. /\ Thins(SubSeq(s, m, Len(s)), s)
        /\ Len(SubSeq(s, m, Len(s))) = IF m <= Len(s) THEN Len(s) - m + 1 ELSE 0
        /\ \A i \in 1 .. Len(s) - m + 1 : SubSeq(s, m, Len(s))[i] = s[m + i - 1]
    BY <2>1, SubSeqThins, Zenon
  <2>4. SubSeq(s, m, Len(s)) \in Seq(Cells)
    BY <2>3 DEF Thins
  <2> QED BY <2>2, <2>3, <2>4, <1>0
<1>3. Remove(s, k) = a \o b
  BY DEF Remove
<1> HIDE DEF a, b
<1>4. /\ a \o b \in Seq(Cells) /\ Len(a \o b) = Len(a) + Len(b)
      /\ \A i \in 1 .. Len(a) + Len(b) : (a \o b)[i] = IF i <= Len(a) THEN a[i] ELSE b[i - Len(a)]
  BY <1>1, <1>2, ConcatProperties, Zenon
<1>5. PICK t \in Seq(Cells) : t = Remove(s, k)
  BY <1>3, <1>4
<1>6. PICK h : h = [i \in 1 .. Len(t) |-> IF i < k THEN i ELSE i + 1]
  OBVIOUS
<1>7. Len(t) = Len(s) - 1
  BY <1>0, <1>1, <1>2, <1>3, <1>4, <1>5
<1>8. h \in [1 .. Len(t) -> 1 .. Len(s)]
  BY <1>0, <1>6, <1>7
<1>9. \A i, j \in 1 .. Len(t) : i < j => h[i] < h[j]
  BY <1>0, <1>6, <1>7
<1>10. \A i \in 1 .. Len(t) : t[i] = s[h[i]]
  <2> SUFFICES ASSUME NEW i \in 1 .. Len(t) PROVE t[i] = s[h[i]]
    OBVIOUS
  <2>1. i \in 1 .. Len(a) + Len(b)
    BY <1>0, <1>1, <1>2, <1>7
  <2>2. t[i] = IF i <= Len(a) THEN a[i] ELSE b[i - Len(a)]
    BY <2>1, <1>3, <1>4, <1>5
  <2>3. CASE i < k
    BY <2>2, <2>3, <1>0, <1>1, <1>6
  <2>4. CASE ~(i < k)
    <3>1. i - Len(a) \in 1 .. Len(s) - k
      BY <2>4, <1>0, <1>1, <1>7
    <3>2. t[i] = b[i - Len(a)]
      BY <2>2, <2>4, <1>1
    <3>3. b[i - Len(a)] = s[k + (i - Len(a))]
      BY <3>1, <1>2
    <3> QED BY <3>2, <3>3, <2>4, <1>0, <1>1, <1>6
  <2> QED BY <2>3, <2>4
<1>11. \A i \in 1 .. Len(t) : t[i] = Junk \/ t[i] = s[h[i]]
  BY <1>10
<1>12. Thins(t, s)
  BY <1>8, <1>9, <1>11, ThinsBy
<1> QED BY <1>12, <1>5

LEMMA JunkThins ==
  ASSUME NEW s \in Seq(Cells), NEW k \in 1 .. Len(s)
  PROVE  Thins([s EXCEPT ![k] = Junk], s)
<1>1. PICK t : t = [s EXCEPT ![k] = Junk]
  OBVIOUS
<1>2. /\ t \in Seq(Cells) /\ Len(t) = Len(s)
      /\ \A i \in 1 .. Len(s) : t[i] = IF i = k THEN Junk ELSE s[i]
  BY <1>1, CellFacts
<1>3. PICK h : h = [i \in 1 .. Len(t) |-> i]
  OBVIOUS
<1>4. h \in [1 .. Len(t) -> 1 .. Len(s)]
  BY <1>2, <1>3
<1>5. \A i, j \in 1 .. Len(t) : i < j => h[i] < h[j]
  BY <1>3
<1>6. \A i \in 1 .. Len(t) : t[i] = Junk \/ t[i] = s[h[i]]
  BY <1>2, <1>3
<1>7. Thins(t, s)
  BY <1>2, <1>4, <1>5, <1>6, ThinsBy
<1> QED BY <1>1, <1>7

LEMMA SingleIsOrdered ==
  ASSUME NEW s \in Seq(Cells), Single(s)
  PROVE  Ordered(s)
BY DEF Single, Ordered

\* The search stops at a magic, or leaves nothing.
LEMMA ScannedFacts ==
  ASSUME NEW s \in Seq(Cells)
  PROVE  /\ Thins(Scanned(s), s) /\ Led(Scanned(s))
         /\ MagicFrames(s) = {} => Scanned(s) = <<>>
         /\ Single(s) /\ Led(s) => Scanned(s) \in {<<>>, s}
<1> DEFINE C == Candidates(s)
<1>0. Len(s) \in Nat
  OBVIOUS
<1>1. C \in SUBSET Nat /\ C \subseteq 1 .. Len(s) /\ \A i \in C : IsMagic(s[i])
  BY DEF Candidates, IsMagic
<1>2. CASE C = {}
  <2>1. Scanned(s) = <<>>
    BY <1>2 DEF Scanned
  <2>2. Thins(<<>>, s)
    BY EmptyFacts DEF Thins
  <2> QED BY <2>1, <2>2, EmptyFacts
<1>3. CASE C # {}
  <2> HIDE DEF C
  <2>1. PICK m \in C : m = Min(C)
    BY <1>1, <1>3, Minimum
  <2>2. m \in 1 .. Len(s) /\ m \in Nat \ {0} /\ IsMagic(s[m]) /\ Len(s) \in 0 .. Len(s)
    BY <1>0, <1>1, <2>1
  <2>3. Scanned(s) = SubSeq(s, m, Len(s))
    BY <1>3, <2>1 DEF Scanned, C
  <2>4. /\ Thins(SubSeq(s, m, Len(s)), s)
        /\ Len(SubSeq(s, m, Len(s))) = IF m <= Len(s) THEN Len(s) - m + 1 ELSE 0
        /\ \A i \in 1 .. Len(s) - m + 1 : SubSeq(s, m, Len(s))[i] = s[m + i - 1]
    BY <2>2, SubSeqThins, Zenon
  <2>5. SubSeq(s, m, Len(s))[1] = s[m]
    <3>1. 1 \in 1 .. Len(s) - m + 1 /\ m + 1 - 1 = m
      BY <1>0, <2>2
    <3> QED BY <3>1, <2>4
  <2>6. Led(Scanned(s))
    BY <2>2, <2>3, <2>5 DEF Led
  <2>7. MagicFrames(s) # {}
    BY <2>2, MagicHere
  <2>8. ASSUME Single(s), Led(s) PROVE Scanned(s) = s
    <3>1. s # <<>> /\ 1 \in 1 .. Len(s)
      BY <2>2
    <3>2. IsMagic(s[1])
      BY <2>8, <3>1 DEF Led
    <3>3. m = 1
      BY <2>8, <3>1, <3>2, <2>2 DEF Single
    <3>4. SubSeq(s, 1, Len(s)) = s
      BY SubSeqFull, Zenon
    <3> QED BY <2>3, <3>3, <3>4
  <2> QED BY <2>3, <2>4, <2>6, <2>7, <2>8
<1> QED BY <1>2, <1>3

\* What lies behind a magic in an ordered sequence is newer; a single magic has
\* no other behind it.
LEMMA FirstIsLeast ==
  ASSUME NEW s \in Seq(Cells), s # <<>>, IsMagic(s[1]), NEW m \in Nat \ {0, 1}
  PROVE  /\ Ordered(s) => \A g \in MagicFrames(SubSeq(s, m, Len(s))) : s[1].frame.id < g.id
         /\ Single(s) => MagicFrames(SubSeq(s, m, Len(s))) = {}
<1>0. Len(s) \in Nat \ {0} /\ Len(s) \in 0 .. Len(s) /\ m \in Nat \ {0}
  OBVIOUS
<1>1. /\ Thins(SubSeq(s, m, Len(s)), s)
      /\ Len(SubSeq(s, m, Len(s))) = IF m <= Len(s) THEN Len(s) - m + 1 ELSE 0
      /\ \A i \in 1 .. Len(s) - m + 1 : SubSeq(s, m, Len(s))[i] = s[m + i - 1]
  BY <1>0, SubSeqThins, Zenon
<1>2. PICK t \in Seq(Cells) : t = SubSeq(s, m, Len(s))
  BY <1>1 DEF Thins
<1>3. ASSUME NEW g \in MagicFrames(t)
      PROVE  \E j \in 2 .. Len(s) : IsMagic(s[j]) /\ s[j].frame = g
  <2>1. PICK i \in 1 .. Len(t) : IsMagic(t[i]) /\ t[i].frame = g
    BY <1>3, MagicThere
  <2>2. m <= Len(s) /\ i \in 1 .. Len(s) - m + 1
    BY <1>0, <1>1, <1>2, <2>1
  <2>3. t[i] = s[m + i - 1]
    BY <1>1, <1>2, <2>2
  <2>4. m + i - 1 \in 2 .. Len(s)
    BY <1>0, <2>2
  <2> QED BY <2>1, <2>3, <2>4
<1>4. ASSUME Ordered(s), NEW g \in MagicFrames(t) PROVE s[1].frame.id < g.id
  <2>1. PICK j \in 2 .. Len(s) : IsMagic(s[j]) /\ s[j].frame = g
    BY <1>3, <1>4
  <2>2. 1 \in 1 .. Len(s) /\ j \in 1 .. Len(s) /\ 1 < j
    BY <1>0
  <2> QED BY <1>4, <2>1, <2>2 DEF Ordered
<1>5. ASSUME Single(s), NEW g \in MagicFrames(t) PROVE FALSE
  <2>1. PICK j \in 2 .. Len(s) : IsMagic(s[j]) /\ s[j].frame = g
    BY <1>3, <1>5
  <2>2. 1 \in 1 .. Len(s) /\ j \in 1 .. Len(s) /\ 1 # j
    BY <1>0
  <2> QED BY <1>5, <2>1, <2>2 DEF Single
<1> QED BY <1>2, <1>4, <1>5

\* Two runs of cells one behind the other.
LEMMA ConcatFacts ==
  ASSUME NEW s \in Seq(Cells), NEW t \in Seq(Cells)
  PROVE  /\ s \o t \in Seq(Cells) /\ Len(s \o t) = Len(s) + Len(t)
         /\ \A i \in 1 .. Len(s) + Len(t) :
              (s \o t)[i] = IF i <= Len(s) THEN s[i] ELSE t[i - Len(s)]
         /\ MagicFrames(s \o t) = MagicFrames(s) \cup MagicFrames(t)
         /\ Ordered(s) /\ Ordered(t)
              /\ (\A f \in MagicFrames(s), g \in MagicFrames(t) : f.id < g.id)
              => Ordered(s \o t)
         /\ Single(s) /\ Single(t) /\ (MagicFrames(s) = {} \/ MagicFrames(t) = {})
              => Single(s \o t)
<1>0. Len(s) \in Nat /\ Len(t) \in Nat
  OBVIOUS
<1>1. /\ s \o t \in Seq(Cells) /\ Len(s \o t) = Len(s) + Len(t)
      /\ \A i \in 1 .. Len(s) + Len(t) :
           (s \o t)[i] = IF i <= Len(s) THEN s[i] ELSE t[i - Len(s)]
  BY ConcatProperties, Zenon
<1>2. PICK u \in Seq(Cells) : u = s \o t
  BY <1>1
<1>3. \A i \in 1 .. Len(s) : i \in 1 .. Len(u) /\ u[i] = s[i]
  BY <1>0, <1>1, <1>2
<1>4. \A i \in 1 .. Len(t) : Len(s) + i \in 1 .. Len(u) /\ u[Len(s) + i] = t[i]
  <2> SUFFICES ASSUME NEW i \in 1 .. Len(t)
               PROVE  Len(s) + i \in 1 .. Len(u) /\ u[Len(s) + i] = t[i]
    OBVIOUS
  <2>1. Len(s) + i \in 1 .. Len(s) + Len(t) /\ ~(Len(s) + i <= Len(s))
        /\ Len(s) + i - Len(s) = i
    BY <1>0
  <2> QED BY <2>1, <1>1, <1>2
<1>5. ASSUME NEW i \in 1 .. Len(u)
      PROVE  \/ i \in 1 .. Len(s) /\ u[i] = s[i]
             \/ i - Len(s) \in 1 .. Len(t) /\ u[i] = t[i - Len(s)] /\ ~(i <= Len(s))
  BY <1>0, <1>1, <1>2
<1>6. MagicFrames(u) = MagicFrames(s) \cup MagicFrames(t)
  <2>1. ASSUME NEW f \in MagicFrames(u) PROVE f \in MagicFrames(s) \cup MagicFrames(t)
    <3>1. PICK i \in 1 .. Len(u) : IsMagic(u[i]) /\ u[i].frame = f
      BY <2>1, MagicThere
    <3>2. CASE i \in 1 .. Len(s) /\ u[i] = s[i]
      BY <3>1, <3>2, MagicHere
    <3>3. CASE i - Len(s) \in 1 .. Len(t) /\ u[i] = t[i - Len(s)]
      <4>1. PICK k \in 1 .. Len(t) : k = i - Len(s)
        BY <3>3
      <4> QED BY <3>1, <3>3, <4>1, MagicHere
    <3> QED BY <3>2, <3>3, <1>5
  <2>2. ASSUME NEW f \in MagicFrames(s) PROVE f \in MagicFrames(u)
    <3>1. PICK i \in 1 .. Len(s) : IsMagic(s[i]) /\ s[i].frame = f
      BY <2>2, MagicThere
    <3>2. i \in 1 .. Len(u) /\ u[i] = s[i]
      BY <1>3
    <3> QED BY <3>1, <3>2, MagicHere
  <2>3. ASSUME NEW f \in MagicFrames(t) PROVE f \in MagicFrames(u)
    <3>1. PICK i \in 1 .. Len(t) : IsMagic(t[i]) /\ t[i].frame = f
      BY <2>3, MagicThere
    <3>2. PICK k \in 1 .. Len(u) : k = Len(s) + i /\ u[k] = t[i]
      BY <1>4
    <3> QED BY <3>1, <3>2, MagicHere
  <2> QED BY <2>1, <2>2, <2>3
<1>7. ASSUME Ordered(s), Ordered(t),
             \A f \in MagicFrames(s), g \in MagicFrames(t) : f.id < g.id
      PROVE  Ordered(u)
  <2> SUFFICES ASSUME NEW i \in 1 .. Len(u), NEW j \in 1 .. Len(u),
                      i < j, IsMagic(u[i]), IsMagic(u[j])
               PROVE  u[i].frame.id < u[j].frame.id
    BY DEF Ordered
  <2>1. CASE j \in 1 .. Len(s)
    <3>1. i \in 1 .. Len(s) /\ u[i] = s[i] /\ u[j] = s[j]
      BY <1>0, <1>3, <2>1
    <3> QED BY <3>1, <2>1, <1>7 DEF Ordered
  <2>2. CASE i \in 1 .. Len(s) /\ j \notin 1 .. Len(s)
    <3>1. u[i] = s[i] /\ j - Len(s) \in 1 .. Len(t) /\ u[j] = t[j - Len(s)]
      BY <1>3, <1>5, <2>2
    <3>2. PICK k \in 1 .. Len(t) : k = j - Len(s)
      BY <3>1
    <3>3. s[i].frame \in MagicFrames(s) /\ t[k].frame \in MagicFrames(t)
      BY <2>2, <3>1, <3>2, MagicHere
    <3> QED BY <3>1, <3>2, <3>3, <1>7
  <2>3. CASE i \notin 1 .. Len(s)
    <3>1. j \notin 1 .. Len(s)
      BY <1>0, <2>3
    <3>2. PICK h \in 1 .. Len(t), k \in 1 .. Len(t) :
            h = i - Len(s) /\ k = j - Len(s) /\ u[i] = t[h] /\ u[j] = t[k]
      BY <1>5, <2>3, <3>1
    <3>3. h < k
      BY <1>0, <3>2
    <3> QED BY <3>2, <3>3, <1>7 DEF Ordered
  <2> QED BY <2>1, <2>2, <2>3
<1>8. ASSUME Single(s), Single(t), MagicFrames(s) = {} \/ MagicFrames(t) = {}
      PROVE  Single(u)
  <2> SUFFICES ASSUME NEW i \in 1 .. Len(u), NEW j \in 1 .. Len(u),
                      IsMagic(u[i]), IsMagic(u[j])
               PROVE  i = j
    BY DEF Single
  <2>1. CASE MagicFrames(s) = {}
    <3>1. i \notin 1 .. Len(s) /\ j \notin 1 .. Len(s)
      BY <2>1, <1>3, MagicHere
    <3>2. PICK h \in 1 .. Len(t), k \in 1 .. Len(t) :
            h = i - Len(s) /\ k = j - Len(s) /\ u[i] = t[h] /\ u[j] = t[k]
      BY <1>5, <3>1
    <3>3. h = k
      BY <3>2, <1>8 DEF Single
    <3> QED BY <1>0, <3>2, <3>3
  <2>2. CASE MagicFrames(t) = {}
    <3>1. i \in 1 .. Len(s) /\ j \in 1 .. Len(s)
      <4>1. ASSUME NEW k \in 1 .. Len(t), IsMagic(t[k]) PROVE FALSE
        BY <4>1, <2>2, MagicHere
      <4> QED BY <4>1, <1>5
    <3> QED BY <3>1, <1>3, <1>8 DEF Single
  <2> QED BY <2>1, <2>2, <1>8
<1> QED BY <1>1, <1>2, <1>6, <1>7, <1>8

LEMMA EncodeMagic ==
  ASSUME NEW f \in Frames
  PROVE  /\ MagicFrames(Encode(f)) = {f} /\ Single(Encode(f)) /\ Ordered(Encode(f))
         /\ IsMagic(Encode(f)[1])
<1>0. f.n \in Nat
  BY FrameFacts
<1>1. PICK e \in Seq(Cells) : e = Encode(f)
  BY EncodeFacts
<1>2. /\ Len(e) = f.n + 3 /\ e[1] = Cell("magic", f)
      /\ \A i \in 1 .. f.n + 3 : e[i].frame = f
      /\ \A i \in 2 .. f.n + 3 : ~IsMagic(e[i])
  BY <1>1, EncodeFacts
<1>3. IsMagic(e[1])
  BY <1>2 DEF Cell, IsMagic
<1>4. 1 \in 1 .. Len(e) /\ \A i \in 1 .. Len(e) : e[i].frame = f /\ (IsMagic(e[i]) => i = 1)
  BY <1>0, <1>2
<1>5. Single(e)
  BY <1>4 DEF Single
<1>6. MagicFrames(e) = {f}
  BY <1>3, <1>4 DEF MagicFrames
<1> QED BY <1>1, <1>3, <1>5, <1>6, SingleIsOrdered

\* Part of a frame: what a failed write may have sent.
LEMMA EncodePrefix ==
  ASSUME NEW f \in Frames, NEW n \in 0 .. f.n + 3
  PROVE  Thins(SubSeq(Encode(f), 1, n), Encode(f))
<1>1. PICK e \in Seq(Cells) : e = Encode(f) /\ Len(e) = f.n + 3
  BY EncodeFacts
<1>2. n \in 0 .. Len(e) /\ 1 \in Nat \ {0}
  BY <1>1
<1> QED BY <1>1, <1>2, SubSeqThins

\* A device that reads the next cell keeps the order of what is on the way.
LEMMA MoveHead ==
  ASSUME NEW s \in Seq(Cells), NEW t \in Seq(Cells), t # <<>>,
         Ordered(s), Ordered(t),
         \A f \in MagicFrames(s), g \in MagicFrames(t) : f.id < g.id
  PROVE  /\ Append(s, Head(t)) \in Seq(Cells) /\ Ordered(Append(s, Head(t)))
         /\ Len(Append(s, Head(t))) = Len(s) + 1
         /\ s # <<>> => Append(s, Head(t))[1] = s[1]
         /\ s = <<>> => Append(s, Head(t))[1] = t[1]
         /\ MagicFrames(Append(s, Head(t))) \subseteq MagicFrames(s) \cup MagicFrames(t)
         /\ \A f \in MagicFrames(Append(s, Head(t))), g \in MagicFrames(Tail(t)) : f.id < g.id
         /\ Single(s) /\ (MagicFrames(t) = {} \/ MagicFrames(s) = {}) => Single(Append(s, Head(t)))
<1>0. Len(s) \in Nat /\ Len(t) \in Nat \ {0}
  OBVIOUS
<1>1. PICK c \in Cells : c = Head(t) /\ c = t[1]
  BY TailThins
<1>2. PICK w \in Seq(Cells) : w = <<c>>
  <2>1. <<c>> \in Seq(Cells)
    OBVIOUS
  <2> QED BY <2>1, Zenon
<1>3. Len(w) = 1 /\ w[1] = c
  BY <1>2
<1>4. Single(w) /\ Ordered(w)
  <2>1. Single(w)
    BY <1>3 DEF Single
  <2> QED BY <2>1, SingleIsOrdered
<1>5. MagicFrames(w) \subseteq MagicFrames(t) /\ \A f \in MagicFrames(w) : IsMagic(t[1]) /\ f = t[1].frame
  <2>1. ASSUME NEW f \in MagicFrames(w) PROVE IsMagic(t[1]) /\ f = t[1].frame
    BY <2>1, <1>1, <1>3 DEF MagicFrames
  <2>2. 1 \in 1 .. Len(t)
    BY <1>0
  <2> QED BY <2>1, <2>2, MagicHere
<1>6. Append(s, c) = s \o w
  BY <1>2, AppendIsConcat
<1>7. PICK u \in Seq(Cells) : u = s \o w
  BY ConcatFacts
<1>8. /\ Len(u) = Len(s) + 1
      /\ \A i \in 1 .. Len(s) + 1 : u[i] = IF i <= Len(s) THEN s[i] ELSE w[i - Len(s)]
      /\ MagicFrames(u) = MagicFrames(s) \cup MagicFrames(w)
  <2>1. /\ s \o w \in Seq(Cells) /\ Len(s \o w) = Len(s) + Len(w)
        /\ \A i \in 1 .. Len(s) + Len(w) :
             (s \o w)[i] = IF i <= Len(s) THEN s[i] ELSE w[i - Len(s)]
        /\ MagicFrames(s \o w) = MagicFrames(s) \cup MagicFrames(w)
    BY ConcatFacts, Zenon
  <2>2. /\ Len(u) = Len(s) + Len(w)
        /\ \A i \in 1 .. Len(s) + Len(w) : u[i] = IF i <= Len(s) THEN s[i] ELSE w[i - Len(s)]
        /\ MagicFrames(u) = MagicFrames(s) \cup MagicFrames(w)
    BY <2>1, <1>7, Zenon
  <2> QED BY <2>2, <1>3, Zenon
<1>9. Ordered(u)
  <2>1. \A f \in MagicFrames(s), g \in MagicFrames(w) : f.id < g.id
    BY <1>5
  <2> QED BY <2>1, <1>4, <1>7, ConcatFacts
<1>10. ASSUME NEW f \in MagicFrames(u), NEW g \in MagicFrames(Tail(t)) PROVE f.id < g.id
  <2>1. MagicFrames(Tail(t)) \subseteq MagicFrames(t)
    BY TailThins DEF Thins
  <2>2. CASE f \in MagicFrames(s)
    BY <2>1, <2>2, <1>10
  <2>3. CASE f \in MagicFrames(w)
    <3>1. IsMagic(t[1]) /\ f = t[1].frame
      BY <2>3, <1>5
    <3>2. Tail(t) = SubSeq(t, 2, Len(t))
      BY TailIsSubSeq, Zenon
    <3>3. 2 \in Nat \ {0, 1}
      OBVIOUS
    <3>4. \A h \in MagicFrames(SubSeq(t, 2, Len(t))) : t[1].frame.id < h.id
      BY <3>1, <3>3, FirstIsLeast, Zenon
    <3> QED BY <3>1, <3>2, <3>4, <1>10
  <2> QED BY <2>2, <2>3, <1>8, <1>10
<1>11. s # <<>> => u[1] = s[1]
  BY <1>0, <1>8
<1>12. s = <<>> => u[1] = t[1]
  BY <1>0, <1>1, <1>3, <1>8
<1>13. ASSUME Single(s), MagicFrames(t) = {} \/ MagicFrames(s) = {} PROVE Single(u)
  <2>1. MagicFrames(s) = {} \/ MagicFrames(w) = {}
    BY <1>13, <1>5
  <2> QED BY <2>1, <1>13, <1>4, <1>7, ConcatFacts
<1>14. u = Append(s, Head(t))
  BY <1>1, <1>6, <1>7
<1> HIDE DEF Single
<1> QED BY <1>5, <1>8, <1>9, <1>10, <1>11, <1>12, <1>13, <1>14

\* What is left behind a complete frame.
LEMMA RestFacts ==
  ASSUME NEW s \in Seq(Cells), Led(s), Complete(s)
  PROVE  /\ s # <<>> /\ IsMagic(s[1]) /\ s[1].frame \in MagicFrames(s)
         /\ s[1].frame \in Frames /\ Thins(Rest(s), s)
         /\ Ordered(s) => \A g \in MagicFrames(Rest(s)) : s[1].frame.id < g.id
         /\ Single(s) => MagicFrames(Rest(s)) = {}
         /\ Len(s) = s[1].frame.n + 3 => Rest(s) = <<>>
<1>1. Len(s) \in Nat /\ Len(s) >= 2
  BY DEF Complete
<1>2. s # <<>> /\ 1 \in 1 .. Len(s)
  BY <1>1
<1>3. IsMagic(s[1])
  BY <1>2 DEF Led
<1>4. s[1].frame \in MagicFrames(s) /\ s[1].frame \in Frames
  BY <1>2, <1>3, MagicHere
<1>5. s[1].frame.n \in Nat
  BY <1>4, FrameFacts
<1>6. PICK m \in Nat \ {0, 1} : m = s[1].frame.n + 4
  BY <1>5
<1>7. Rest(s) = SubSeq(s, m, Len(s))
  BY <1>6 DEF Rest
<1>8. Thins(SubSeq(s, m, Len(s)), s)
  <2>1. m \in Nat \ {0} /\ Len(s) \in 0 .. Len(s)
    BY <1>1
  <2> QED BY <2>1, SubSeqThins
<1>9. /\ Ordered(s) => \A g \in MagicFrames(SubSeq(s, m, Len(s))) : s[1].frame.id < g.id
      /\ Single(s) => MagicFrames(SubSeq(s, m, Len(s))) = {}
  BY <1>2, <1>3, FirstIsLeast
<1>10. ASSUME Len(s) = s[1].frame.n + 3 PROVE Rest(s) = <<>>
  <2>1. Len(s) < m /\ m \in Int /\ Len(s) \in Int
    BY <1>1, <1>5, <1>6, <1>10
  <2> QED BY <2>1, <1>7, SubSeqEmpty
<1> QED BY <1>2, <1>3, <1>4, <1>7, <1>8, <1>9, <1>10

-----------------------------------------------------------------------------
(* Steps as they concern the frames on the way. *)

LEMMA ShapeFacts ==
  ASSUME ShapeInv
  PROVE  /\ Upstream \subseteq Frames /\ Downstream \subseteq Frames
         /\ requests \in Nat /\ requests <= MaxRequests /\ sequence \in 0 .. MaxSequence
         /\ Log \subseteq Handlings /\ Done \subseteq 1 .. MaxRequests
         /\ receiver.cells \in Seq(Cells)
         /\ call.id \in Nat /\ (call # NoCall => call \in Calls)
         /\ outcome.id \in Nat
         /\ MaxRequests \in Nat /\ MaxSequence \in Nat /\ limit \in Nat
<1>1. Upstream \subseteq Frames /\ Downstream \subseteq Frames
  BY MagicTyped DEF Upstream, Downstream
<1>2. requests \in Nat /\ requests <= MaxRequests /\ sequence \in 0 .. MaxSequence
  BY LinkAssumption DEF ShapeInv
<1>3. Log \subseteq Handlings /\ Done \subseteq 1 .. MaxRequests
  <2>1. handled \in Seq(Handlings)
    BY DEF ShapeInv
  <2>2. DOMAIN handled = 1 .. Len(handled)
    BY <2>1, LenProperties
  <2>3. \A i \in 1 .. Len(handled) : handled[i] \in Handlings
    BY <2>1, ElementOfSeq
  <2>4. Log \subseteq Handlings
    BY <2>2, <2>3 DEF Log
  <2> QED BY <2>4 DEF Done, Handlings
<1>4. receiver.cells \in Seq(Cells)
  BY DEF ShapeInv, Receivers
<1>5. call.id \in Nat /\ (call # NoCall => call \in Calls)
  <2>1. CASE call = NoCall
    BY <2>1 DEF NoCall
  <2>2. CASE call \in Calls
    BY <2>2, LinkAssumption DEF Calls
  <2> QED BY <2>1, <2>2 DEF ShapeInv
<1>6. outcome.id \in Nat
  BY LinkAssumption DEF ShapeInv, Outcomes
<1>7. MaxRequests \in Nat /\ MaxSequence \in Nat /\ limit \in Nat
  BY LinkAssumption DEF ShapeInv
<1> QED BY <1>1, <1>2, <1>3, <1>4, <1>5, <1>6, <1>7

\* Steps that send and handle nothing: cells are read, lost or damaged, and perhaps
\* the transaction returns with something true.
LEMMA QuietStep ==
  ASSUME ShapeInv, DoneInv,
         Upstream' \subseteq Upstream, Downstream' \subseteq Downstream,
         handled' = handled, requests' = requests, reused' = reused,
         \/ outcome' = outcome
         \/ /\ outcome'.id <= requests
            /\ ~reused /\ outcome'.how \in Statuses => TrueOf(outcome'.id, outcome'.how)
  PROVE  DoneInv'
<1>1. Done' = Done /\ Log' = Log
  BY DEF Done, Log
<1>2. ASSUME NEW id, NEW status, TrueOf(id, status)
      PROVE  IF status = "BAD_PAYLOAD_CRC" THEN id \notin Done' /\ \A g \in Upstream' : id < g.id
             ELSE [id |-> id, status |-> status] \in Log'
  BY <1>1, <1>2 DEF TrueOf, Never, Handled
<1>3. \A f \in Upstream' : f.id <= requests' /\ \A id \in Done' : id < f.id
  BY <1>1 DEF DoneInv
<1>4. \A id \in Done' : id <= requests'
  BY <1>1 DEF DoneInv
<1>5. \A f \in Downstream' :
        /\ f.id <= requests' /\ f.status \in Statuses
        /\ IF f.status = "BAD_PAYLOAD_CRC"
           THEN f.id \notin Done' /\ \A g \in Upstream' : f.id < g.id
           ELSE [id |-> f.id, status |-> f.status] \in Log'
  BY <1>2 DEF DoneInv
<1>6. PICK o : o = outcome'
  OBVIOUS
<1>7. /\ o.id <= requests'
      /\ ~reused' /\ o.how \in Statuses =>
           IF o.how = "BAD_PAYLOAD_CRC"
           THEN o.id \notin Done' /\ \A g \in Upstream' : o.id < g.id
           ELSE [id |-> o.id, status |-> o.how] \in Log'
  <2>1. o.id <= requests /\ (~reused /\ o.how \in Statuses => TrueOf(o.id, o.how))
    BY <1>6 DEF DoneInv
  <2> QED BY <1>2, <2>1
<1> QED BY <1>3, <1>4, <1>5, <1>6, <1>7 DEF DoneInv, TrueOf, Never, Handled

LEMMA QuietSequence ==
  ASSUME SequenceInv,
         Upstream' \subseteq Upstream, Downstream' \subseteq Downstream,
         requests' = requests, sequence' = sequence, stack' = stack, reused' = reused,
         call' = call \/ call' = NoCall
  PROVE  SequenceInv'
<1>1. /\ ~(stack # "simulator" /\ ~reused) \/
           (\A f \in Upstream \cup Downstream : f.sequence = CountedBack(sequence, requests, f.id))
      /\ stack # "simulator" /\ ~reused /\ call # NoCall =>
           call.sequence = CountedBack(sequence, requests, call.id)
  BY DEF SequenceInv, SequenceOf
<1>2. PICK c : c = call'
  OBVIOUS
<1>3. c # NoCall => c = call
  BY <1>2
<1>4. stack' # "simulator" /\ ~reused' =>
        /\ \A f \in Upstream' \cup Downstream' :
             f.sequence = CountedBack(sequence', requests', f.id)
        /\ c # NoCall => c.sequence = CountedBack(sequence', requests', c.id)
  BY <1>1, <1>3
<1> QED BY <1>2, <1>4 DEF SequenceInv, SequenceOf

\* Counting back is stable while requests are added, as far as they go.
LEMMA CountedBackFacts ==
  ASSUME NEW s \in 0 .. MaxSequence, NEW r \in Nat, r <= MaxRequests
  PROVE  /\ \A id \in 1 .. r : r < MaxRequests =>
              CountedBack(next_sequence(s), r + 1, id) = CountedBack(s, r, id)
         /\ CountedBack(next_sequence(s), r + 1, r + 1) = next_sequence(s)
         /\ \A i, j \in 1 .. r : CountedBack(s, r, i) = CountedBack(s, r, j) => i = j
         /\ next_sequence(s) \in 1 .. MaxSequence
<1>0. /\ MaxRequests \in Nat \ {0} /\ MaxSequence \in Nat \ {0} /\ MaxRequests <= MaxSequence
  BY LinkAssumption, LatenessAssumption
<1>1. next_sequence(s) = IF s = 0 \/ s = MaxSequence THEN 1 ELSE s + 1
  BY DEF next_sequence
<1>2. next_sequence(s) \in 1 .. MaxSequence
  BY <1>0, <1>1
<1>3. CountedBack(next_sequence(s), r + 1, r + 1) = next_sequence(s)
  BY <1>0, <1>2 DEF CountedBack
<1>4. ASSUME NEW id \in 1 .. r, r < MaxRequests
      PROVE  CountedBack(next_sequence(s), r + 1, id) = CountedBack(s, r, id)
  <2>1. CASE s = 0
    BY <1>0, <1>1, <1>4, <2>1 DEF CountedBack
  <2>2. CASE s # 0 /\ s = MaxSequence
    BY <1>0, <1>1, <1>4, <2>2 DEF CountedBack
  <2>3. CASE s # 0 /\ s # MaxSequence
    BY <1>0, <1>1, <1>4, <2>3 DEF CountedBack
  <2> QED BY <2>1, <2>2, <2>3
<1>5. ASSUME NEW i \in 1 .. r, NEW j \in 1 .. r, CountedBack(s, r, i) = CountedBack(s, r, j)
      PROVE  i = j
  BY <1>0, <1>5 DEF CountedBack
<1> QED BY <1>2, <1>3, <1>4, <1>5

\* A request is written, whole or in part.
LEMMA RequestStep ==
  ASSUME ShapeInv, DoneInv, NEW f \in Frames, f.id = requests + 1,
         Upstream' \subseteq Upstream \cup {f}, Downstream' \subseteq Downstream,
         handled' = handled, requests' = requests + 1, reused => reused',
         \/ outcome' = outcome
         \/ outcome'.id = f.id /\ outcome'.how = "write"
  PROVE  DoneInv'
<1>1. Done' = Done /\ Log' = Log /\ \A id \in Done : id \in Nat /\ id <= requests
  <2>1. Done' = Done /\ Log' = Log
    BY DEF Done, Log
  <2>2. \A id \in Done : id \in Nat /\ id <= requests
    BY ShapeFacts DEF DoneInv
  <2> QED BY <2>1, <2>2
<1>t. requests \in Nat /\ Downstream \subseteq Frames /\ outcome.id \in Nat /\ f.id \in Nat
  BY ShapeFacts, FrameFacts
<1>2. ASSUME NEW id \in Nat, NEW status, id <= requests, TrueOf(id, status)
      PROVE  IF status = "BAD_PAYLOAD_CRC" THEN id \notin Done' /\ \A g \in Upstream' : id < g.id
             ELSE [id |-> id, status |-> status] \in Log'
  BY <1>1, <1>t, <1>2 DEF TrueOf, Never, Handled
<1>3. \A g \in Upstream' : g.id <= requests' /\ \A id \in Done' : id < g.id
  <2> SUFFICES ASSUME NEW g \in Upstream' PROVE g.id <= requests' /\ \A id \in Done' : id < g.id
    OBVIOUS
  <2>1. CASE g = f
    BY <1>1, <1>t, <2>1
  <2>2. CASE g \in Upstream
    <3>1. g.id \in Nat
      BY <2>2, ShapeFacts, FrameFacts
    <3> QED BY <1>1, <1>t, <2>2, <3>1 DEF DoneInv
  <2> QED BY <2>1, <2>2
<1>4. \A id \in Done' : id <= requests'
  BY <1>1, <1>t
<1>5. \A g \in Downstream' :
        /\ g.id <= requests' /\ g.status \in Statuses
        /\ IF g.status = "BAD_PAYLOAD_CRC"
           THEN g.id \notin Done' /\ \A h \in Upstream' : g.id < h.id
           ELSE [id |-> g.id, status |-> g.status] \in Log'
  <2> TAKE g \in Downstream'
  <2>1. g.id \in Nat /\ g.id <= requests /\ g.status \in Statuses /\ TrueOf(g.id, g.status)
    BY <1>t, FrameFacts DEF DoneInv
  <2> QED BY <1>2, <1>t, <2>1
<1>6. PICK o : o = outcome'
  OBVIOUS
<1>7. /\ o.id <= requests'
      /\ ~reused' /\ o.how \in Statuses =>
           IF o.how = "BAD_PAYLOAD_CRC"
           THEN o.id \notin Done' /\ \A g \in Upstream' : o.id < g.id
           ELSE [id |-> o.id, status |-> o.how] \in Log'
  <2>1. CASE outcome' = outcome
    <3>1. /\ o.id \in Nat /\ o.id <= requests
          /\ ~reused /\ o.how \in Statuses => TrueOf(o.id, o.how)
      BY <1>t, <1>6, <2>1 DEF DoneInv
    <3> QED BY <1>2, <1>t, <3>1
  <2>2. CASE outcome' # outcome
    BY <1>t, <1>6, <2>2 DEF Statuses, HandlerStatuses
  <2> QED BY <2>1, <2>2
<1> QED BY <1>3, <1>4, <1>5, <1>6, <1>7 DEF DoneInv, TrueOf, Never, Handled

LEMMA RequestSequence ==
  ASSUME ShapeInv, DoneInv, SequenceInv, NEW f \in Frames, f.id = requests + 1,
         f.sequence = next_sequence(sequence), requests < MaxRequests,
         Upstream' \subseteq Upstream \cup {f}, Downstream' \subseteq Downstream,
         requests' = requests + 1, stack' = stack, reused => reused',
         reused' \/ sequence' = f.sequence, call = NoCall,
         call' = NoCall \/ (call'.id = f.id /\ call'.sequence = f.sequence)
  PROVE  SequenceInv'
<1> SUFFICES ASSUME stack # "simulator", ~reused'
             PROVE  /\ \A g \in Upstream' \cup Downstream' :
                         g.sequence = CountedBack(sequence', requests', g.id)
                    /\ call' # NoCall =>
                         call'.sequence = CountedBack(sequence', requests', call'.id)
  BY DEF SequenceInv, SequenceOf
<1>0. requests \in Nat /\ requests <= MaxRequests /\ sequence \in 0 .. MaxSequence
  BY ShapeFacts
<1>1. sequence' = next_sequence(sequence) /\ ~reused
  OBVIOUS
<1>2. CountedBack(sequence', requests', f.id) = f.sequence
  BY <1>0, <1>1, CountedBackFacts
<1>3. ASSUME NEW g \in Upstream \cup Downstream
      PROVE  g.sequence = CountedBack(sequence', requests', g.id)
  <2>1. g.id \in 1 .. requests
    <3>1. g \in Frames
      BY ShapeFacts
    <3>2. g.id <= requests
      BY DEF DoneInv
    <3> QED BY <3>1, <3>2, FrameFacts, <1>0
  <2>2. g.sequence = CountedBack(sequence, requests, g.id)
    BY <1>1 DEF SequenceInv, SequenceOf
  <2>3. PICK k \in 1 .. requests : k = g.id
    BY <2>1
  <2>4. CountedBack(next_sequence(sequence), requests + 1, k) = CountedBack(sequence, requests, k)
    BY <1>0, CountedBackFacts
  <2> QED BY <2>2, <2>3, <2>4, <1>1
<1> QED BY <1>2, <1>3

\* The device hands a request to its handler, refuses it or drops it, and whatever is
\* still behind it is newer.
LEMMA HandleStep ==
  ASSUME ShapeInv, DoneInv, NEW f \in Upstream, NEW r \in Frames, r.id = f.id,
         \A g \in Upstream' : g \in Upstream /\ f.id < g.id,
         Downstream' \subseteq Downstream \cup {r}, r.status \in Statuses,
         IF r.status = "BAD_PAYLOAD_CRC" THEN Log' = Log
         ELSE Log' = Log \cup {Handled(f, r.status)},
         requests' = requests, reused' = reused, outcome' = outcome
  PROVE  DoneInv'
<1>t. /\ requests \in Nat /\ f \in Frames /\ f.id \in Nat /\ f.id <= requests
      /\ \A g \in Upstream : g.id \in Nat
      /\ \A id \in Done : id \in Nat /\ id < f.id
  BY ShapeFacts, FrameFacts DEF DoneInv
<1>n. f.id \notin Done
  BY <1>t
<1>2. Log \subseteq Log' /\ \A id \in Done' : id \in Done \/ id = f.id
  BY DEF Done, Handled
<1>1. ASSUME NEW id, NEW status, TrueOf(id, status)
      PROVE  IF status = "BAD_PAYLOAD_CRC" THEN id \notin Done' /\ \A g \in Upstream' : id < g.id
             ELSE [id |-> id, status |-> status] \in Log'
  <2>1. CASE status = "BAD_PAYLOAD_CRC"
    <3>1. Never(id) /\ id # f.id
      BY <1>1, <1>t, <2>1 DEF TrueOf, Never
    <3> QED BY <1>2, <2>1, <3>1 DEF Never
  <2>2. CASE status # "BAD_PAYLOAD_CRC"
    BY <1>1, <1>2, <2>2 DEF TrueOf, Handled
  <2> QED BY <2>1, <2>2
<1>3. \A g \in Upstream' : g.id <= requests' /\ \A id \in Done' : id < g.id
  BY <1>2 DEF DoneInv
<1>4. \A id \in Done' : id <= requests'
  BY <1>2, <1>t DEF DoneInv
<1>5. \A g \in Downstream' :
        /\ g.id <= requests' /\ g.status \in Statuses
        /\ IF g.status = "BAD_PAYLOAD_CRC"
           THEN g.id \notin Done' /\ \A h \in Upstream' : g.id < h.id
           ELSE [id |-> g.id, status |-> g.status] \in Log'
  <2> TAKE g \in Downstream'
  <2>1. CASE g = r
    <3>1. CASE r.status = "BAD_PAYLOAD_CRC"
      BY <1>t, <1>n, <2>1, <3>1 DEF Done
    <3>2. CASE r.status # "BAD_PAYLOAD_CRC"
      BY <1>t, <2>1, <3>2 DEF Handled
    <3> QED BY <3>1, <3>2
  <2>2. CASE g \in Downstream
    BY <1>1, <2>2 DEF DoneInv
  <2> QED BY <2>1, <2>2
<1>6. /\ outcome.id <= requests'
      /\ ~reused' /\ outcome.how \in Statuses =>
           IF outcome.how = "BAD_PAYLOAD_CRC"
           THEN outcome.id \notin Done' /\ \A g \in Upstream' : outcome.id < g.id
           ELSE [id |-> outcome.id, status |-> outcome.how] \in Log'
  BY <1>1 DEF DoneInv
<1> QED BY <1>3, <1>4, <1>5, <1>6 DEF DoneInv, TrueOf, Never, Handled

LEMMA HandleSequence ==
  ASSUME SequenceInv, NEW f \in Upstream, NEW r,
         stack # "simulator" => r.sequence = f.sequence /\ r.id = f.id,
         Upstream' \subseteq Upstream, Downstream' \subseteq Downstream \cup {r},
         requests' = requests, sequence' = sequence, stack' = stack, reused' = reused,
         call' = call
  PROVE  SequenceInv'
<1> SUFFICES ASSUME stack # "simulator", ~reused
             PROVE  /\ \A g \in Upstream' \cup Downstream' :
                         g.sequence = CountedBack(sequence, requests, g.id)
                    /\ call # NoCall => call.sequence = CountedBack(sequence, requests, call.id)
  BY DEF SequenceInv, SequenceOf
<1>1. /\ \A g \in Upstream \cup Downstream : g.sequence = CountedBack(sequence, requests, g.id)
      /\ call # NoCall => call.sequence = CountedBack(sequence, requests, call.id)
  BY DEF SequenceInv, SequenceOf
<1>2. r.sequence = CountedBack(sequence, requests, r.id)
  BY <1>1
<1> QED BY <1>1, <1>2

\* The history of handled requests grows by a newer one.
LEMMA HandledGrows ==
  ASSUME handled \in Seq(Handlings), HandledInOrder,
         NEW x \in Handlings, \A id \in Done : id < x.id,
         handled' = Append(handled, x)
  PROVE  handled' \in Seq(Handlings) /\ HandledInOrder' /\ Log' = Log \cup {x}
<1>1. /\ handled' \in Seq(Handlings) /\ Len(handled) \in Nat
      /\ DOMAIN handled = 1 .. Len(handled)
      /\ DOMAIN handled' = 1 .. Len(handled) + 1
      /\ \A i \in 1 .. Len(handled) : handled'[i] = handled[i]
      /\ handled'[Len(handled) + 1] = x
  BY AppendProperties, LenProperties
<1>2. \A i \in 1 .. Len(handled) : handled[i].id < x.id
  BY <1>1 DEF Done, Log
<1>3. HandledInOrder'
  <2> SUFFICES ASSUME NEW i \in 1 .. Len(handled) + 1, NEW j \in 1 .. Len(handled) + 1, i < j
               PROVE  handled'[i].id < handled'[j].id
    BY <1>1 DEF HandledInOrder
  <2>1. i \in 1 .. Len(handled)
    BY <1>1
  <2>2. CASE j = Len(handled) + 1
    BY <1>1, <1>2, <2>1, <2>2
  <2>3. CASE j \in 1 .. Len(handled)
    BY <1>1, <2>1, <2>3 DEF HandledInOrder
  <2> QED BY <1>1, <2>2, <2>3
<1>4. Log' = Log \cup {x}
  <2>1. ASSUME NEW h \in Log' PROVE h \in Log \cup {x}
    <3>1. PICK i \in 1 .. Len(handled) + 1 : h = handled'[i]
      BY <1>1, <2>1 DEF Log
    <3>2. i = Len(handled) + 1 \/ i \in 1 .. Len(handled)
      BY <1>1
    <3> QED BY <1>1, <3>1, <3>2 DEF Log
  <2>2. ASSUME NEW h \in Log PROVE h \in Log'
    <3>1. PICK i \in 1 .. Len(handled) : h = handled[i]
      BY <1>1, <2>2 DEF Log
    <3>2. i \in 1 .. Len(handled) + 1 /\ h = handled'[i]
      BY <1>1, <3>1
    <3> QED BY <1>1, <3>2 DEF Log
  <2>3. x \in Log'
    <3>1. Len(handled) + 1 \in 1 .. Len(handled) + 1
      BY <1>1
    <3> QED BY <1>1, <3>1 DEF Log
  <2> QED BY <2>1, <2>2, <2>3
<1> QED BY <1>1, <1>3, <1>4

\* An answer that matches is the running call's own.
LEMMA MatchingIsOwn ==
  ASSUME ShapeInv, DoneInv, SequenceInv, SimulatorInv,
         call # NoCall, ~reused, NEW f \in Downstream, Matches(f)
  PROVE  f.id = call.id
<1>1. CASE stack = "simulator"
  BY <1>1 DEF SimulatorInv, SimulatorReading
<1>2. CASE stack # "simulator"
  <2>1. requests \in Nat /\ requests <= MaxRequests /\ sequence \in 0 .. MaxSequence
    BY ShapeFacts
  <2>2. f.id \in 1 .. requests
    <3>1. f \in Frames /\ f.id <= requests
      BY ShapeFacts DEF DoneInv
    <3> QED BY <3>1, <2>1, FrameFacts
  <2>3. call.id \in 1 .. requests
    <3>1. call \in Calls /\ call.id <= requests
      BY DEF ShapeInv
    <3> QED BY <3>1, <2>1, LinkAssumption DEF Calls
  <2>4. /\ f.sequence = CountedBack(sequence, requests, f.id)
        /\ call.sequence = CountedBack(sequence, requests, call.id)
    BY <1>2 DEF SequenceInv, SequenceOf
  <2>5. CountedBack(sequence, requests, f.id) = CountedBack(sequence, requests, call.id)
    BY <2>4 DEF Matches
  <2>6. PICK i \in 1 .. requests, j \in 1 .. requests : i = f.id /\ j = call.id
    BY <2>2, <2>3
  <2>7. CountedBack(sequence, requests, i) = CountedBack(sequence, requests, j)
    BY <2>5, <2>6
  <2>8. i = j
    BY <2>1, <2>7, CountedBackFacts
  <2> QED BY <2>6, <2>8
<1> QED BY <1>1, <1>2

-----------------------------------------------------------------------------
(* The invariant holds at the start and is kept by the steps of the port. *)

LEMMA SearchingFacts == Searching \in Receivers /\ Searching.cells = <<>> /\ Searching.at = "magic"
BY EmptyFacts DEF Searching, Receivers

LEMMA InitEstablishes ==
  ASSUME Init PROVE IInv
<1> USE DEF Init
<1>1. /\ MagicFrames(up) = {} /\ MagicFrames(down) = {} /\ MagicFrames(buffer) = {}
      /\ MagicFrames(receiver.cells) = {} /\ receiver.cells = <<>>
  BY EmptyFacts, SearchingFacts
<1>2. Upstream = {} /\ Downstream = {}
  BY <1>1 DEF Upstream, Downstream
<1>3. Done = {} /\ HandledInOrder
  BY DEF Done, Log, HandledInOrder
<1>4. outcome = [id |-> 0, how |-> "none"]
  BY DEF Outcome
<1>5. ShapeInv
  <2>1. outcome \in Outcomes
    BY <1>4, LinkAssumption DEF Outcomes
  <2>2. handled \in Seq(Handlings)
    BY EmptySeq
  <2>3. Led(receiver.cells)
    BY <1>1, EmptyFacts
  <2>4. call \in Calls \cup {NoCall} /\ call.id <= requests
    BY DEF NoCall
  <2>5. up \in Seq(Cells) /\ down \in Seq(Cells) /\ buffer \in Seq(Cells)
    BY EmptyFacts
  <2>6. receiver \in Receivers /\ receiver.at = "magic"
    BY SearchingFacts
  <2>7. /\ sequence \in 0 .. MaxSequence /\ known \subseteq Commands
        /\ requests \in 0 .. MaxRequests /\ faults \in 0 .. MaxFaults
    BY LinkAssumption
  <2>8. reused \in BOOLEAN
    BY Zenon
  <2> QED BY <2>1, <2>2, <2>3, <2>4, <2>5, <2>6, <2>7, <2>8, <1>1 DEF ShapeInv
<1>6. OrderInv
  BY <1>1, <1>3, EmptyFacts DEF OrderInv
<1>7. DoneInv
  BY <1>2, <1>3, <1>4 DEF DoneInv, Statuses, HandlerStatuses
<1>8. SequenceInv
  BY <1>2 DEF SequenceInv
<1>9. SimulatorInv
  BY <1>1, <1>2, EmptyFacts DEF SimulatorInv, SimulatorReading
<1>10. NeverOversized
  BY EmptyFacts DEF NeverOversized
<1> QED BY <1>5, <1>6, <1>7, <1>8, <1>9, <1>10 DEF IInv

\* The port moves on and nothing but junk comes down.
LEMMA PortMoves ==
  ASSUME IInv,
         port' \in {"closed", "settle", "autobaud", "delay", "open", "unclosed"},
         UNCHANGED <<stack, limit, clientVars, up, deviceVars, faults>>,
         \/ down' = down
         \/ down' \in Seq(Cells) /\ MagicFrames(down') = {} /\ Single(down')
  PROVE  IInv'
<1> USE DEF IInv
<1>1. /\ stack' = stack /\ limit' = limit /\ sequence' = sequence /\ known' = known
      /\ call' = call /\ outcome' = outcome /\ requests' = requests /\ buffer' = buffer
      /\ reused' = reused /\ up' = up /\ receiver' = receiver /\ handled' = handled
      /\ faults' = faults
  BY DEF clientVars, deviceVars
<1>2. Upstream' = Upstream /\ Downstream' \subseteq Downstream
      /\ MagicFrames(down') \subseteq MagicFrames(down)
  BY <1>1 DEF Upstream, Downstream
<1>3. ShapeInv'
  BY <1>1 DEF ShapeInv
<1>4. OrderInv'
  BY <1>1 DEF OrderInv, HandledInOrder
<1>5. DoneInv'
  BY <1>1, <1>2, QuietStep
<1>6. SequenceInv'
  BY <1>1, <1>2, QuietSequence
<1>7. SimulatorInv'
  BY <1>1, <1>2 DEF SimulatorInv, SimulatorReading
<1>8. NeverOversized'
  BY <1>1 DEF NeverOversized
<1> QED BY <1>3, <1>4, <1>5, <1>6, <1>7, <1>8

LEMMA OpenPortKeeps ==
  ASSUME IInv, OpenPort PROVE IInv'
<1> USE DEF IInv, OpenPort
<1>1. /\ stack' = stack /\ limit' = limit /\ call' = NoCall /\ call = NoCall
      /\ requests' = requests /\ handled' = handled /\ reused' = reused /\ faults' = faults
      /\ up' = <<>> /\ down' = <<>> /\ buffer' = <<>> /\ receiver' = Searching
      /\ receiver'.cells = <<>> /\ receiver'.at = "magic"
  BY SearchingFacts
<1>2. outcome' = [id |-> 0, how |-> "none"]
  BY DEF Outcome
<1>3. Upstream' = {} /\ Downstream' = {}
  BY <1>1, EmptyFacts DEF Upstream, Downstream
<1>4. ShapeInv'
  <2>1. outcome' \in Outcomes
    BY <1>2, LinkAssumption DEF Outcomes
  <2>2. sequence' \in 0 .. MaxSequence
    BY LinkAssumption
  <2>3. Led(receiver'.cells) /\ up' \in Seq(Cells) /\ down' \in Seq(Cells) /\ buffer' \in Seq(Cells)
    BY <1>1, EmptyFacts
  <2>4. receiver' \in Receivers
    BY <1>1, SearchingFacts
  <2>5. port' \in {"closed", "settle", "autobaud", "delay", "open", "unclosed"}
    OBVIOUS
  <2> QED BY <2>1, <2>2, <2>3, <2>4, <2>5, <1>1 DEF ShapeInv
<1>5. OrderInv'
  <2>1. HandledInOrder'
    BY <1>1 DEF OrderInv, HandledInOrder
  <2> QED BY <1>1, <2>1, EmptyFacts DEF OrderInv
<1>6. DoneInv'
  <2>1. outcome'.id <= requests /\ outcome'.how \notin Statuses
    BY <1>2, ShapeFacts DEF Statuses, HandlerStatuses
  <2> QED BY <1>1, <1>3, <2>1, QuietStep
<1>7. SequenceInv'
  BY <1>1, <1>3 DEF SequenceInv
<1>8. SimulatorInv'
  BY <1>1, <1>3, EmptyFacts DEF SimulatorInv, SimulatorReading
<1>9. NeverOversized'
  BY <1>1, EmptyFacts DEF NeverOversized
<1> QED BY <1>4, <1>5, <1>6, <1>7, <1>8, <1>9

LEMMA PortStepsKeep ==
  ASSUME IInv, PortSteps PROVE IInv'
<1>1. CASE OpenPort
  BY <1>1, OpenPortKeeps
<1>2. CASE OpenAdvances
  BY <1>2, PortMoves DEF OpenAdvances
<1>3. ASSUME NEW echoes \in 0 .. 1, Autobaud(echoes) PROVE IInv'
  <2>1. PICK s : s = [i \in 1 .. echoes |-> Junk]
    OBVIOUS
  <2>2. s \in Seq(Cells) /\ \A i \in 1 .. Len(s) : ~IsMagic(s[i])
    BY <2>1, CellFacts
  <2>3. MagicFrames(s) = {} /\ Single(s)
    BY <2>2, MagicNone
  <2> QED BY <1>3, <2>1, <2>2, <2>3, PortMoves DEF Autobaud
<1>4. ASSUME NEW closes \in BOOLEAN, OpenFails(closes) PROVE IInv'
  <2>1. port' \in {"closed", "unclosed"}
    BY <1>4, Zenon DEF OpenFails
  <2> QED BY <1>4, <2>1, PortMoves DEF OpenFails
<1>5. ASSUME NEW closes \in BOOLEAN, ClosePort(closes) PROVE IInv'
  <2>1. port' \in {"closed", "unclosed"}
    BY <1>5, Zenon DEF ClosePort
  <2> QED BY <1>5, <2>1, EmptyFacts, PortMoves DEF ClosePort
<1> QED BY <1>1, <1>2, <1>3, <1>4, <1>5 DEF PortSteps

-----------------------------------------------------------------------------
(* The host. *)

\* BootProtocolClient never lets through more than the device takes.
LEMMA PayloadLimitFacts ==
  ASSUME ShapeInv, NEW command \in Commands
  PROVE  /\ PayloadLimit(command) \in Int
         /\ stack = "session" => \A n \in RequestWords(command) : n <= PayloadLimit(command) => n <= limit
<1>1. /\ MaxWords \in Nat /\ InfoWords \in Nat /\ limit \in Nat \ {0}
  BY LinkAssumption DEF ShapeInv
<1>2. Min({InfoWords, limit}) \in Nat
  <2>1. {InfoWords, limit} \in SUBSET Nat /\ {InfoWords, limit} # {}
    BY <1>1
  <2>2. Min({InfoWords, limit}) \in {InfoWords, limit}
    BY <2>1, Minimum
  <2> QED BY <2>2, <1>1
<1>3. PICK k \in Nat : k = Min({InfoWords, limit})
  BY <1>2
<1>4. PayloadLimit(command) =
        IF stack # "session" THEN MaxWords
        ELSE IF {"GET_DEVICE_INFO", "GET_PROTOCOL_INFO"} \subseteq known THEN limit
        ELSE IF command \notin BootstrapCommands THEN -1
        ELSE IF known = {} THEN InfoWords ELSE k
  BY <1>3 DEF PayloadLimit
<1>5. PayloadLimit(command) \in Int
  BY <1>1, <1>4
<1>6. ASSUME stack = "session", NEW n \in RequestWords(command), n <= PayloadLimit(command)
      PROVE  n <= limit
  <2>1. CASE {"GET_DEVICE_INFO", "GET_PROTOCOL_INFO"} \subseteq known
    BY <1>4, <1>6, <2>1
  <2>2. CASE ~({"GET_DEVICE_INFO", "GET_PROTOCOL_INFO"} \subseteq known) /\ command = "WORK"
    <3>1. PayloadLimit(command) = -1
      BY <1>4, <1>6, <2>2 DEF BootstrapCommands
    <3>2. n \in 1 .. MaxWords
      BY <1>6, <2>2 DEF RequestWords
    <3> QED BY <1>1, <1>6, <3>1, <3>2
  <2>3. CASE command # "WORK"
    BY <1>1, <1>6, <2>3 DEF RequestWords
  <2> QED BY <2>1, <2>2, <2>3
<1> QED BY <1>5, <1>6

LEMMA RequestFacts ==
  ASSUME ShapeInv, NEW command \in Commands, NEW n \in RequestWords(command),
         requests < MaxRequests
  PROVE  /\ Request(command, n) \in Frames
         /\ Request(command, n).id = requests + 1 /\ Request(command, n).n = n
         /\ Request(command, n).sequence = next_sequence(sequence)
         /\ Request(command, n).command = command
<1>1. n \in 0 .. MaxWords
  BY LinkAssumption DEF RequestWords
<1>2. next_sequence(sequence) \in 1 .. MaxSequence
  BY ShapeFacts, CountedBackFacts
<1>3. requests + 1 \in 1 .. MaxRequests
  BY ShapeFacts
<1>4. n \in 0 .. MaxWords + InfoWords
  BY <1>1, LinkAssumption
<1> QED BY <1>2, <1>3, <1>4 DEF Request, Frames

\* Cells of a new request behind those that are on the way.
LEMMA UpGrows ==
  ASSUME ShapeInv, OrderInv, DoneInv, NeverOversized,
         NEW f \in Frames, f.id = requests + 1, stack = "session" => f.n <= limit,
         NEW w, Thins(w, Encode(f)), up' = up \o w, receiver' = receiver,
         stack' = stack, limit' = limit
  PROVE  /\ up' \in Seq(Cells) /\ Ordered(up') /\ Upstream' \subseteq Upstream \cup {f}
         /\ \A g \in MagicFrames(receiver.cells), h \in MagicFrames(up') : g.id < h.id
         /\ NeverOversized'
<1>1. /\ up \in Seq(Cells) /\ w \in Seq(Cells) /\ Ordered(up) /\ Ordered(w)
      /\ MagicFrames(w) \subseteq {f}
  BY EncodeMagic DEF ShapeInv, OrderInv, Thins
<1>2. \A g \in Upstream : g.id < f.id
  <2> SUFFICES ASSUME NEW g \in Upstream PROVE g.id < f.id
    OBVIOUS
  <2>1. g.id \in Nat /\ g.id <= requests /\ requests \in Nat
    BY ShapeFacts, FrameFacts DEF DoneInv
  <2> QED BY <2>1
<1>3. \A g \in MagicFrames(up), h \in MagicFrames(w) : g.id < h.id
  BY <1>1, <1>2 DEF Upstream
<1>4. /\ up \o w \in Seq(Cells) /\ Len(up \o w) = Len(up) + Len(w)
      /\ \A i \in 1 .. Len(up) + Len(w) :
           (up \o w)[i] = IF i <= Len(up) THEN up[i] ELSE w[i - Len(up)]
      /\ MagicFrames(up \o w) = MagicFrames(up) \cup MagicFrames(w)
      /\ Ordered(up \o w)
  BY <1>1, <1>3, ConcatFacts
<1>5. PICK u \in Seq(Cells) : u = up \o w
  BY <1>4
<1>6. /\ Ordered(u) /\ MagicFrames(u) \subseteq MagicFrames(up) \cup {f}
      /\ Len(u) = Len(up) + Len(w)
      /\ \A i \in 1 .. Len(up) + Len(w) : u[i] = IF i <= Len(up) THEN up[i] ELSE w[i - Len(up)]
  BY <1>1, <1>4, <1>5
<1>7. Upstream' \subseteq Upstream \cup {f}
  BY <1>5, <1>6 DEF Upstream
<1>8. \A g \in MagicFrames(receiver.cells), h \in MagicFrames(u) : g.id < h.id
  BY <1>2, <1>6 DEF OrderInv, Upstream
<1>9. NeverOversized'
  <2>0. DOMAIN up = 1 .. Len(up) /\ DOMAIN u = 1 .. Len(u) /\ Len(up) \in Nat /\ Len(w) \in Nat
    BY <1>1, <1>5, LenProperties
  <2> SUFFICES ASSUME stack = "session", NEW i \in 1 .. Len(u), u[i].frame.id # 0
               PROVE  u[i].frame.n <= limit
    BY <1>5, <2>0 DEF NeverOversized
  <2>1. CASE i <= Len(up)
    <3>1. i \in 1 .. Len(up) /\ u[i] = up[i]
      BY <1>6, <2>0, <2>1
    <3> QED BY <3>1, <2>0 DEF NeverOversized
  <2>2. CASE ~(i <= Len(up))
    <3>1. PICK k \in 1 .. Len(w) : u[i] = w[k]
      BY <1>6, <2>0, <2>2
    <3>2. w[k] # Junk
      BY <3>1 DEF Junk, NoFrame
    <3>3. PICK j \in 1 .. Len(Encode(f)) : w[k] = Encode(f)[j]
      BY <3>2 DEF Thins
    <3>4. Encode(f)[j].frame = f
      BY <3>3, EncodeFacts
    <3> QED BY <3>1, <3>3, <3>4
  <2> QED BY <2>1, <2>2
<1> QED BY <1>5, <1>6, <1>7, <1>8, <1>9

LEMMA RefusedKeeps ==
  ASSUME IInv, NEW command \in Commands, NEW n \in RequestWords(command),
         TransactRefused(command, n)
  PROVE  IInv'
<1> USE DEF IInv
<1>1. /\ stack' = stack /\ limit' = limit /\ port' = port /\ sequence' = sequence /\ known' = known
      /\ call' = call /\ requests' = requests /\ buffer' = buffer
      /\ reused' = reused /\ up' = up /\ down' = down /\ receiver' = receiver
      /\ handled' = handled /\ faults' = faults
      /\ outcome' = [id |-> 0, how |-> "limit"]
  BY DEF TransactRefused, portVars, deviceVars, Outcome
<1>2. Upstream' = Upstream /\ Downstream' = Downstream
  BY <1>1 DEF Upstream, Downstream
<1>3. ShapeInv'
  <2>1. outcome' \in Outcomes
    BY <1>1, LinkAssumption DEF Outcomes
  <2> QED BY <1>1, <2>1 DEF ShapeInv
<1>4. OrderInv'
  BY <1>1 DEF OrderInv, HandledInOrder
<1>5. DoneInv'
  <2>1. outcome'.id <= requests /\ outcome'.how \notin Statuses
    BY <1>1, ShapeFacts DEF Statuses, HandlerStatuses
  <2> QED BY <1>1, <1>2, <2>1, QuietStep
<1>6. SequenceInv'
  BY <1>1, <1>2, QuietSequence
<1>7. SimulatorInv'
  BY <1>1, <1>2 DEF SimulatorInv, SimulatorReading
<1>8. NeverOversized'
  BY <1>1 DEF NeverOversized
<1> QED BY <1>3, <1>4, <1>5, <1>6, <1>7, <1>8

LEMMA TransactKeeps ==
  ASSUME IInv, NEW command \in Commands, NEW n \in RequestWords(command),
         NEW clear \in BOOLEAN, Transact(command, n, clear)
  PROVE  IInv'
<1> USE DEF IInv
<1>0. requests < MaxRequests /\ call = NoCall /\ n <= PayloadLimit(command)
  BY DEF Transact
<1>1. PICK f \in Frames : f = Request(command, n)
  BY <1>0, RequestFacts
<1>2. f.id = requests + 1 /\ f.sequence = next_sequence(sequence) /\ f.n = n
  BY <1>0, <1>1, RequestFacts
<1>3. /\ up' = up \o Encode(f) /\ sequence' = f.sequence
      /\ call' = [id |-> f.id, command |-> command, sequence |-> f.sequence,
                  max |-> PayloadLimit(command)]
  BY <1>1 DEF Transact
<1>4. /\ stack' = stack /\ limit' = limit /\ port' = port /\ known' = known
      /\ requests' = requests + 1 /\ buffer' = buffer /\ outcome' = outcome
      /\ reused' = reused /\ receiver' = receiver
      /\ handled' = handled /\ faults' = faults
  BY DEF Transact, portVars, deviceVars
<1>5. down' = down \/ down' = <<>>
  BY DEF Transact
<1>6. PICK w \in Seq(Cells) : w = Encode(f)
  BY EncodeFacts
<1>7. Thins(w, Encode(f))
  <2>1. \A i \in 1 .. Len(w) : \E j \in 1 .. Len(w) : w[i] = w[j]
    OBVIOUS
  <2> QED BY <1>6, <2>1 DEF Thins
<1>8. stack = "session" => f.n <= limit
  BY <1>0, <1>2, PayloadLimitFacts
<1>9. /\ up' \in Seq(Cells) /\ Ordered(up') /\ Upstream' \subseteq Upstream \cup {f}
      /\ \A g \in MagicFrames(receiver.cells), h \in MagicFrames(up') : g.id < h.id
      /\ NeverOversized'
  BY <1>2, <1>3, <1>4, <1>6, <1>7, <1>8, UpGrows
<1>10. /\ down' \in Seq(Cells) /\ MagicFrames(down') \subseteq MagicFrames(down)
       /\ Single(down) => Single(down')
  BY <1>5, EmptyFacts DEF ShapeInv
<1>11. Downstream' \subseteq Downstream
  BY <1>4, <1>10 DEF Downstream
<1>12. /\ call' \in Calls /\ call'.id = f.id /\ call'.sequence = f.sequence /\ call' # NoCall
  BY <1>2, <1>3, PayloadLimitFacts, FrameFacts DEF Calls, NoCall
<1>13. ShapeInv'
  <2>1. requests' \in 0 .. MaxRequests
    BY <1>0, <1>4, ShapeFacts
  <2>2. sequence' \in 0 .. MaxSequence
    BY <1>3, FrameFacts
  <2>3. call'.id <= requests'
    BY <1>2, <1>4, <1>12, ShapeFacts
  <2> QED BY <2>1, <2>2, <2>3, <1>4, <1>9, <1>10, <1>12 DEF ShapeInv
<1>14. OrderInv'
  BY <1>4, <1>9 DEF OrderInv, HandledInOrder
<1>15. DoneInv'
  BY <1>2, <1>4, <1>9, <1>11, RequestStep
<1>16. SequenceInv'
  BY <1>0, <1>2, <1>3, <1>4, <1>9, <1>11, <1>12, RequestSequence
<1>17. SimulatorInv'
  <2> SUFFICES ASSUME stack = "simulator"
               PROVE  /\ \A g \in Upstream' \cup Downstream' : g.id = call'.id
                      /\ receiver'.cells = <<>>
                      /\ Single(up') /\ IsMagic(up'[1]) /\ Len(up') = up'[1].frame.n + 3
                      /\ Downstream' = {} /\ Single(buffer') /\ Single(down')
                      /\ MagicFrames(buffer') = {}
    BY <1>4, <1>12 DEF SimulatorInv, SimulatorReading
  <2>1. /\ up = <<>> /\ receiver.cells = <<>> /\ buffer = <<>> /\ MagicFrames(down) = {}
        /\ Single(down)
    BY <1>0 DEF SimulatorInv, SimulatorReading
  <2>2. up' = w
    BY <1>3, <1>6, <2>1, ConcatEmptySeq
  <2>3. /\ MagicFrames(w) = {f} /\ Single(w) /\ IsMagic(w[1]) /\ Len(w) = f.n + 3
        /\ w[1].frame = f
    <3>1. MagicFrames(w) = {f} /\ Single(w) /\ IsMagic(w[1])
      BY <1>6, EncodeMagic
    <3>2. Len(w) = f.n + 3 /\ w[1] = Cell("magic", f)
      BY <1>6, EncodeFacts
    <3> QED BY <3>1, <3>2 DEF Cell
  <2>4. Upstream' = {f} /\ Downstream' = {}
    BY <1>4, <1>10, <2>1, <2>2, <2>3, EmptyFacts DEF Upstream, Downstream
  <2> QED BY <1>4, <1>10, <1>12, <2>1, <2>2, <2>3, <2>4, EmptyFacts
<1> QED BY <1>9, <1>13, <1>14, <1>15, <1>16, <1>17

LEMMA WriteFailsKeeps ==
  ASSUME IInv, NEW command \in Commands, NEW n \in RequestWords(command),
         WriteFails(command, n)
  PROVE  IInv'
<1> USE DEF IInv
<1>0. /\ requests < MaxRequests /\ call = NoCall /\ n <= PayloadLimit(command)
      /\ stack # "simulator" /\ faults < MaxFaults /\ faults' = faults + 1
  BY DEF WriteFails
<1>1. PICK f \in Frames : f = Request(command, n)
  BY <1>0, RequestFacts
<1>2. f.id = requests + 1 /\ f.sequence = next_sequence(sequence) /\ f.n = n
  BY <1>0, <1>1, RequestFacts
<1>3. PICK sent \in {0, 2, n + 3} : up' = up \o SubSeq(Encode(f), 1, sent)
  BY <1>1 DEF WriteFails
<1>4. /\ sequence' = IF stack = "session" THEN sequence ELSE f.sequence
      /\ outcome' = [id |-> f.id, how |-> "write"]
  BY <1>1 DEF WriteFails, Outcome
<1>5. reused' = (reused \/ stack = "session")
  BY DEF WriteFails
<1>6. /\ stack' = stack /\ limit' = limit /\ port' = port /\ known' = known
      /\ requests' = requests + 1 /\ buffer' = buffer /\ call' = call
      /\ down' = down /\ receiver' = receiver /\ handled' = handled
  BY DEF WriteFails, portVars, deviceVars
<1>7. reused' \in BOOLEAN /\ (reused => reused') /\ (reused' \/ sequence' = f.sequence)
  <2>1. reused' \in BOOLEAN
    BY <1>5, Zenon
  <2>2. reused => reused'
    BY <1>5, Zenon
  <2>3. reused' \/ stack # "session"
    BY <1>5, Zenon
  <2> QED BY <1>4, <2>1, <2>2, <2>3
<1>8. Thins(SubSeq(Encode(f), 1, sent), Encode(f))
  <2>1. sent \in 0 .. f.n + 3
    BY <1>2, <1>3, FrameFacts
  <2> QED BY <2>1, EncodePrefix
<1>9. stack = "session" => f.n <= limit
  BY <1>0, <1>2, PayloadLimitFacts
<1>10. /\ up' \in Seq(Cells) /\ Ordered(up') /\ Upstream' \subseteq Upstream \cup {f}
       /\ \A g \in MagicFrames(receiver.cells), h \in MagicFrames(up') : g.id < h.id
       /\ NeverOversized'
  BY <1>2, <1>3, <1>6, <1>8, <1>9, UpGrows
<1>11. Downstream' \subseteq Downstream
  BY <1>6 DEF Downstream
<1>12. ShapeInv'
  <2>1. requests' \in 0 .. MaxRequests /\ call'.id <= requests'
    BY <1>0, <1>6, ShapeFacts DEF NoCall
  <2>2. sequence' \in 0 .. MaxSequence
    BY <1>4, FrameFacts, ShapeFacts
  <2>3. outcome' \in Outcomes
    BY <1>4, FrameFacts, LinkAssumption DEF Outcomes
  <2>4. faults' \in 0 .. MaxFaults
    BY <1>0, LinkAssumption DEF ShapeInv
  <2> QED BY <2>1, <2>2, <2>3, <2>4, <1>6, <1>7, <1>10 DEF ShapeInv
<1>13. OrderInv'
  BY <1>6, <1>10 DEF OrderInv, HandledInOrder
<1>14. DoneInv'
  <2>1. outcome'.id = f.id /\ outcome'.how = "write"
    BY <1>4
  <2> QED BY <1>2, <1>6, <1>7, <1>10, <1>11, <2>1, RequestStep
<1>15. SequenceInv'
  BY <1>0, <1>2, <1>6, <1>7, <1>10, <1>11, RequestSequence
<1>16. SimulatorInv'
  BY <1>0, <1>6 DEF SimulatorInv, SimulatorReading
<1> QED BY <1>10, <1>12, <1>13, <1>14, <1>15, <1>16

\* The cells of a chunk join the buffer, of which the search leaves b.
LEMMA ChunkFacts ==
  ASSUME buffer \in Seq(Cells), down \in Seq(Cells), NEW size \in 1 .. Len(down),
         NEW b, b = Scanned(buffer \o SubSeq(down, 1, size)),
         NEW d, d = SubSeq(down, size + 1, Len(down))
  PROVE  /\ b \in Seq(Cells) /\ d \in Seq(Cells) /\ Led(b)
         /\ MagicFrames(b) \subseteq MagicFrames(buffer) \cup MagicFrames(down)
         /\ MagicFrames(d) \subseteq MagicFrames(down)
         /\ Single(buffer) /\ Single(down) /\ (MagicFrames(buffer) = {} \/ MagicFrames(down) = {})
              => /\ Single(b) /\ Single(d)
                 /\ MagicFrames(b) = {} \/ MagicFrames(d) = {}
<1>0. Len(down) \in Nat
  OBVIOUS
<1>1. PICK p : p = SubSeq(down, 1, size)
  OBVIOUS
<1>2. /\ Thins(p, down) /\ Len(p) = size /\ \A i \in 1 .. size : p[i] = down[i]
  <2>1. size \in 0 .. Len(down) /\ 1 \in Nat \ {0}
    BY <1>0
  <2>2. /\ Thins(SubSeq(down, 1, size), down)
        /\ Len(SubSeq(down, 1, size)) = IF 1 <= size THEN size - 1 + 1 ELSE 0
        /\ \A i \in 1 .. size - 1 + 1 : SubSeq(down, 1, size)[i] = down[1 + i - 1]
    BY <2>1, SubSeqThins, Zenon
  <2> QED BY <1>0, <1>1, <2>2
<1>3. /\ Thins(d, down) /\ Len(d) = Len(down) - size
      /\ \A i \in 1 .. Len(down) - size : d[i] = down[size + i]
  <2>1. PICK m \in Nat \ {0} : m = size + 1
    BY <1>0
  <2>2. Len(down) \in 0 .. Len(down)
    BY <1>0
  <2>3. /\ Thins(SubSeq(down, m, Len(down)), down)
        /\ Len(SubSeq(down, m, Len(down))) = IF m <= Len(down) THEN Len(down) - m + 1 ELSE 0
        /\ \A i \in 1 .. Len(down) - m + 1 : SubSeq(down, m, Len(down))[i] = down[m + i - 1]
    BY <2>2, SubSeqThins, Zenon
  <2>4. d = SubSeq(down, m, Len(down))
    BY <2>1
  <2>5. /\ Thins(d, down)
        /\ Len(d) = IF m <= Len(down) THEN Len(down) - m + 1 ELSE 0
        /\ \A i \in 1 .. Len(down) - m + 1 : d[i] = down[m + i - 1]
    BY <2>3, <2>4, Zenon
  <2> QED BY <1>0, <2>1, <2>5
<1>4. PICK q : q = buffer \o p
  OBVIOUS
<1>5. /\ q \in Seq(Cells) /\ MagicFrames(q) = MagicFrames(buffer) \cup MagicFrames(p)
      /\ Single(buffer) /\ Single(p) /\ (MagicFrames(buffer) = {} \/ MagicFrames(p) = {}) => Single(q)
  BY <1>2, <1>4, ConcatFacts DEF Thins
<1>6. b = Scanned(q)
  BY <1>1, <1>4
<1>7. Thins(b, q) /\ Led(b)
  BY <1>5, <1>6, ScannedFacts
<1>8. ASSUME Single(down) PROVE MagicFrames(p) = {} \/ MagicFrames(d) = {}
  <2> SUFFICES ASSUME NEW f \in MagicFrames(p), NEW g \in MagicFrames(d) PROVE FALSE
    OBVIOUS
  <2>1. p \in Seq(Cells) /\ d \in Seq(Cells)
    BY <1>2, <1>3 DEF Thins
  <2>2. PICK i \in 1 .. Len(p) : IsMagic(p[i]) /\ p[i].frame = f
    BY <2>1, MagicThere
  <2>3. PICK j \in 1 .. Len(d) : IsMagic(d[j]) /\ d[j].frame = g
    BY <2>1, MagicThere
  <2>4. i \in 1 .. Len(down) /\ IsMagic(down[i])
    BY <1>0, <1>2, <2>2
  <2>5. size + j \in 1 .. Len(down) /\ IsMagic(down[size + j])
    BY <1>0, <1>3, <2>3
  <2>6. i = size + j
    BY <1>8, <2>4, <2>5 DEF Single
  <2> QED BY <1>2, <2>6
<1> QED BY <1>2, <1>3, <1>5, <1>7, <1>8 DEF Thins

\* The transaction returns with something true.
LEMMA ReturnKeeps ==
  ASSUME IInv, call # NoCall, NEW how \in {"decode", "timeout"} \cup Statuses,
         ~reused /\ how \in Statuses => TrueOf(call.id, how),
         NEW rest \in Seq(Cells), MagicFrames(rest) \subseteq Downstream, Returns(how, rest),
         known' \subseteq Commands,
         down' \in Seq(Cells), MagicFrames(down') \subseteq MagicFrames(down),
         stack = "simulator" => up = <<>> /\ MagicFrames(down') = {} /\ Single(down')
  PROVE  IInv'
<1> USE DEF IInv
<1>1. /\ stack' = stack /\ limit' = limit /\ port' = port /\ sequence' = sequence
      /\ call' = NoCall /\ requests' = requests
      /\ reused' = reused /\ up' = up /\ receiver' = receiver
      /\ handled' = handled /\ faults' = faults
      /\ outcome' = [id |-> call.id, how |-> how]
  BY DEF Returns, portVars, deviceVars, Outcome
<1>2. /\ buffer' \in Seq(Cells) /\ MagicFrames(buffer') \subseteq Downstream
      /\ stack = "simulator" => buffer' = <<>>
  BY EmptyFacts DEF Returns
<1>3. Upstream' = Upstream /\ Downstream' \subseteq Downstream
  BY <1>1, <1>2 DEF Upstream, Downstream
<1>4. call \in Calls /\ call.id <= requests /\ call.id \in 1 .. MaxRequests
  BY ShapeFacts DEF ShapeInv, Calls
<1>5. ShapeInv'
  <2>1. outcome' \in Outcomes
    BY <1>1, <1>4, LinkAssumption DEF Outcomes
  <2>2. call' \in Calls \cup {NoCall} /\ call'.id <= requests'
    BY <1>1, ShapeFacts DEF NoCall
  <2> QED BY <1>1, <1>2, <2>1, <2>2 DEF ShapeInv
<1>6. OrderInv'
  BY <1>1 DEF OrderInv, HandledInOrder
<1>7. DoneInv'
  <2>1. outcome'.id = call.id /\ outcome'.how = how
    BY <1>1
  <2>2. /\ outcome'.id <= requests
        /\ ~reused /\ outcome'.how \in Statuses => TrueOf(outcome'.id, outcome'.how)
    BY <1>4, <2>1 DEF TrueOf, Never, Handled
  <2> QED BY <1>1, <1>3, <2>2, QuietStep
<1>8. SequenceInv'
  BY <1>1, <1>3, QuietSequence
<1>9. SimulatorInv'
  <2> SUFFICES ASSUME stack = "simulator"
               PROVE  /\ up' = <<>> /\ receiver'.cells = <<>> /\ buffer' = <<>>
                      /\ MagicFrames(down') = {} /\ Single(down')
                      /\ Upstream' = {} /\ Downstream' = {} /\ Single(buffer')
                      /\ MagicFrames(up') = {}
    BY <1>1 DEF SimulatorInv, SimulatorReading
  <2>1. up = <<>> /\ receiver.cells = <<>>
    BY DEF SimulatorInv, SimulatorReading
  <2> QED BY <1>1, <1>2, <2>1, EmptyFacts DEF Upstream, Downstream
<1>10. NeverOversized'
  BY <1>1 DEF NeverOversized
<1> QED BY <1>5, <1>6, <1>7, <1>8, <1>9, <1>10

LEMMA TimeoutKeeps ==
  ASSUME IInv, Timeout PROVE IInv'
<1>1. /\ call # NoCall /\ Returns("timeout", buffer) /\ known' = known /\ down' = down
      /\ stack = "simulator" => up = <<>> /\ down = <<>>
      /\ "timeout" \notin Statuses
  BY DEF Timeout, DeviceIsDone, Statuses, HandlerStatuses
<1>2. /\ buffer \in Seq(Cells) /\ down \in Seq(Cells) /\ known \subseteq Commands
      /\ MagicFrames(buffer) \subseteq Downstream
  BY DEF IInv, ShapeInv, Downstream
<1> QED BY <1>1, <1>2, EmptyFacts, ReturnKeeps

\* What the client makes of a complete frame is true of its request.
LEMMA VerdictIsTrue ==
  ASSUME IInv, call # NoCall, NEW b, b[1].frame \in Downstream
  PROVE  /\ Verdict(b) \in {"decode"} \cup Statuses
         /\ ~reused /\ Verdict(b) \in Statuses => TrueOf(call.id, Verdict(b))
<1> USE DEF IInv
<1>1. PICK f \in Downstream : f = b[1].frame
  OBVIOUS
<1>2. Verdict(b) = IF ~Intact(b) \/ ~Matches(f) THEN "decode" ELSE f.status
  BY <1>1 DEF Verdict
<1>3. CASE Verdict(b) = "decode"
  BY <1>3 DEF Statuses, HandlerStatuses
<1>4. CASE Verdict(b) # "decode"
  <2>1. Matches(f) /\ Verdict(b) = f.status
    BY <1>2, <1>4
  <2>2. f.status \in Statuses /\ TrueOf(f.id, f.status)
    BY DEF DoneInv
  <2>3. ~reused => f.id = call.id
    BY <2>1, MatchingIsOwn
  <2> QED BY <2>1, <2>2, <2>3 DEF TrueOf, Never, Handled
<1> QED BY <1>3, <1>4

LEMMA ReadChunkKeeps ==
  ASSUME IInv, NEW size \in {1, Len(down)}, ReadChunk(size) PROVE IInv'
<1> USE DEF IInv
<1>0. /\ call # NoCall /\ size \in 1 .. Len(down) /\ (stack = "simulator" => up = <<>>)
      /\ buffer \in Seq(Cells) /\ down \in Seq(Cells)
  BY DEF ReadChunk, DeviceIsDone, ShapeInv
<1>1. PICK b : b = Scanned(buffer \o SubSeq(down, 1, size))
  OBVIOUS
<1>2. PICK d : d = SubSeq(down, size + 1, Len(down))
  OBVIOUS
<1>3. /\ b \in Seq(Cells) /\ d \in Seq(Cells) /\ Led(b)
      /\ MagicFrames(b) \subseteq MagicFrames(buffer) \cup MagicFrames(down)
      /\ MagicFrames(d) \subseteq MagicFrames(down)
      /\ Single(buffer) /\ Single(down) /\ (MagicFrames(buffer) = {} \/ MagicFrames(down) = {})
           => /\ Single(b) /\ Single(d)
              /\ MagicFrames(b) = {} \/ MagicFrames(d) = {}
  BY <1>0, <1>1, <1>2, ChunkFacts
<1>4. /\ down' = d
      /\ \/ /\ buffer' = b
            /\ UNCHANGED <<portVars, sequence, known, call, outcome, requests, up, reused,
                           deviceVars, faults>>
         \/ Oversized(b, call.max) /\ Returns("decode", b) /\ UNCHANGED known
         \/ /\ Complete(b) /\ Returns(Verdict(b), Rest(b))
            /\ known' = IF Verdict(b) = "OK" /\ call.command \in BootstrapCommands
                        THEN known \cup {call.command} ELSE known
  BY <1>1, <1>2 DEF ReadChunk
<1>5. MagicFrames(b) \subseteq Downstream
  BY <1>3 DEF Downstream
<1>6. ASSUME stack = "simulator"
      PROVE  /\ Single(b) /\ Single(d)
             /\ MagicFrames(b) = {} \/ MagicFrames(d) = {}
  BY <1>3, <1>6 DEF SimulatorInv, SimulatorReading
<1>7. ASSUME stack = "simulator", Len(b) >= 2
      PROVE  up = <<>> /\ MagicFrames(d) = {} /\ Single(d)
  <2>1. b # <<>> /\ 1 \in 1 .. Len(b)
    BY <1>3, <1>7
  <2>2. MagicFrames(b) # {}
    BY <1>3, <2>1, MagicHere DEF Led
  <2> QED BY <1>0, <1>6, <1>7, <2>2
<1>8. CASE /\ buffer' = b
           /\ UNCHANGED <<portVars, sequence, known, call, outcome, requests, up, reused,
                          deviceVars, faults>>
  <2>1. /\ stack' = stack /\ limit' = limit /\ port' = port /\ sequence' = sequence
        /\ call' = call /\ requests' = requests /\ outcome' = outcome /\ known' = known
        /\ reused' = reused /\ up' = up /\ receiver' = receiver
        /\ handled' = handled /\ faults' = faults
    BY <1>8 DEF portVars, deviceVars
  <2>2. Upstream' = Upstream /\ Downstream' \subseteq Downstream
    BY <1>3, <1>4, <1>8, <2>1 DEF Upstream, Downstream
  <2>3. ShapeInv'
    BY <2>1, <1>3, <1>4, <1>8 DEF ShapeInv
  <2>4. OrderInv'
    BY <2>1 DEF OrderInv, HandledInOrder
  <2>5. DoneInv'
    BY <2>1, <2>2, QuietStep
  <2>6. SequenceInv'
    BY <2>1, <2>2, QuietSequence
  <2>7. SimulatorInv'
    <3> SUFFICES ASSUME stack = "simulator" PROVE SimulatorInv'
      BY <2>1 DEF SimulatorInv, SimulatorReading
    <3>1. /\ Single(buffer') /\ Single(down')
          /\ MagicFrames(buffer') = {} \/ MagicFrames(down') = {}
      BY <1>4, <1>6, <1>8
    <3>2. up = <<>> /\ receiver.cells = <<>> /\ MagicFrames(up) = {} /\ Upstream = {}
      BY <1>0, EmptyFacts DEF SimulatorInv, SimulatorReading, Upstream
    <3>3. \A f \in Upstream' \cup Downstream' : f.id = call'.id
      BY <2>1, <2>2 DEF SimulatorInv, SimulatorReading
    <3> QED BY <1>0, <2>1, <2>2, <3>1, <3>2, <3>3 DEF SimulatorInv, SimulatorReading
  <2>8. NeverOversized'
    BY <2>1 DEF NeverOversized
  <2> QED BY <2>3, <2>4, <2>5, <2>6, <2>7, <2>8
<1>9. CASE Oversized(b, call.max) /\ Returns("decode", b) /\ UNCHANGED known
  <2>1. Len(b) >= 2
    BY <1>9 DEF Oversized
  <2>2. known' \subseteq Commands /\ "decode" \notin Statuses
    BY <1>9 DEF ShapeInv, Statuses, HandlerStatuses
  <2> QED BY <1>0, <1>3, <1>4, <1>5, <1>7, <1>9, <2>1, <2>2, ReturnKeeps
<1>10. CASE /\ Complete(b) /\ Returns(Verdict(b), Rest(b))
            /\ known' = IF Verdict(b) = "OK" /\ call.command \in BootstrapCommands
                        THEN known \cup {call.command} ELSE known
  <2>1. Len(b) >= 2
    BY <1>10 DEF Complete
  <2>2. b[1].frame \in Downstream /\ Thins(Rest(b), b)
    BY <1>3, <1>5, <1>10, RestFacts
  <2>3. PICK rest \in Seq(Cells) : rest = Rest(b)
    BY <2>2 DEF Thins
  <2>4. MagicFrames(rest) \subseteq Downstream
    BY <1>5, <2>2, <2>3 DEF Thins
  <2>5. known' \subseteq Commands
    <3>1. call.command \in Commands
      BY <1>0, ShapeFacts DEF Calls
    <3> QED BY <1>10, <3>1 DEF ShapeInv
  <2>6. PICK how \in {"decode", "timeout"} \cup Statuses : how = Verdict(b)
    BY <1>0, <2>2, VerdictIsTrue
  <2>7. ~reused /\ how \in Statuses => TrueOf(call.id, how)
    BY <1>0, <2>2, <2>6, VerdictIsTrue
  <2>8. Returns(how, rest)
    BY <1>10, <2>3, <2>6
  <2> QED BY <1>0, <1>3, <1>4, <1>7, <2>1, <2>4, <2>5, <2>7, <2>8, ReturnKeeps
<1> QED BY <1>4, <1>8, <1>9, <1>10

LEMMA HostStepsKeep ==
  ASSUME IInv, HostSteps PROVE IInv'
BY RefusedKeeps, WriteFailsKeeps, TransactKeeps, ReadChunkKeeps, TimeoutKeeps DEF HostSteps

-----------------------------------------------------------------------------
(* The device. *)

LEMMA ReplyFacts ==
  ASSUME NEW f \in Frames, NEW status \in Statuses
  PROVE  /\ Reply(f, status) \in Frames /\ Reply(f, status).id = f.id
         /\ Reply(f, status).status = status /\ Reply(f, status).sequence = f.sequence
<1>1. PICK n \in 0 .. MaxWords + InfoWords :
        n = IF status = "OK" /\ f.command = "GET_DEVICE_INFO" THEN InfoWords ELSE 0
  BY LinkAssumption
<1>2. Reply(f, status) = [f EXCEPT !.status = status, !.n = n]
  BY <1>1 DEF Reply
<1> QED BY <1>2 DEF Frames

\* What the simulator makes of an answer when it is told to spoil it.
LEMMA SpoiledFacts ==
  ASSUME NEW f \in Frames
  PROVE  /\ [f EXCEPT !.sequence = next_sequence(@)] \in Frames
         /\ [f EXCEPT !.sequence = next_sequence(@)].id = f.id
         /\ [f EXCEPT !.sequence = next_sequence(@)].status = f.status
<1>1. f.sequence \in 0 .. MaxSequence /\ 0 \in Nat /\ 0 <= MaxRequests
  BY FrameFacts, LinkAssumption
<1>2. PICK s \in 1 .. MaxSequence : s = next_sequence(f.sequence)
  BY <1>1, CountedBackFacts
<1>3. [f EXCEPT !.sequence = next_sequence(@)] = [f EXCEPT !.sequence = s]
  BY <1>2
<1> QED BY <1>3 DEF Frames

LEMMA WholeThins ==
  ASSUME NEW f \in Frames PROVE Thins(Encode(f), Encode(f))
<1>1. PICK w \in Seq(Cells) : w = Encode(f)
  BY EncodeFacts
<1>2. \A i \in 1 .. Len(w) : \E j \in 1 .. Len(w) : w[i] = w[j]
  OBVIOUS
<1> QED BY <1>1, <1>2 DEF Thins

\* An answer adds the cells of one frame, or nothing.
LEMMA AnswerFacts ==
  ASSUME NEW f \in Frames, NEW status \in Statuses, Answer(f, status)
  PROVE  \E r \in Frames :
           /\ r.id = f.id /\ r.status = status
           /\ stack # "simulator" => r.sequence = f.sequence
           /\ down' = down \/ \E w : Thins(w, Encode(r)) /\ down' = down \o w
<1>1. PICK r \in Frames : r = Reply(f, status)
  BY ReplyFacts
<1>2. r.id = f.id /\ r.status = status /\ r.sequence = f.sequence
  BY <1>1, ReplyFacts
<1>3. \/ down' = down \o Encode(r)
      \/ stack = "simulator" /\ down' = down
      \/ stack = "simulator" /\ down' = down \o Encode([r EXCEPT !.sequence = next_sequence(@)])
      \/ stack = "simulator" /\ down' = down \o [Encode(r) EXCEPT ![Len(Encode(r))] = Junk]
  BY <1>1 DEF Answer
<1>4. CASE down' = down \o Encode(r)
  BY <1>2, <1>4, WholeThins
<1>5. CASE down' = down
  BY <1>2, <1>5
<1>6. CASE stack = "simulator" /\ down' = down \o Encode([r EXCEPT !.sequence = next_sequence(@)])
  <2>1. PICK q : q = [r EXCEPT !.sequence = next_sequence(@)]
    OBVIOUS
  <2>2. q \in Frames /\ q.id = r.id /\ q.status = r.status
    BY <2>1, SpoiledFacts
  <2>3. Thins(Encode(q), Encode(q)) /\ down' = down \o Encode(q)
    BY <1>6, <2>1, <2>2, WholeThins
  <2> QED BY <1>2, <1>6, <2>2, <2>3
<1>7. CASE stack = "simulator" /\ down' = down \o [Encode(r) EXCEPT ![Len(Encode(r))] = Junk]
  <2>1. PICK e \in Seq(Cells) : e = Encode(r)
    BY EncodeFacts
  <2>2. Len(e) \in 1 .. Len(e)
    <3>1. Len(e) = r.n + 3 /\ r.n \in Nat
      BY <2>1, EncodeFacts, FrameFacts
    <3> QED BY <3>1
  <2>3. PICK w : w = [e EXCEPT ![Len(e)] = Junk]
    OBVIOUS
  <2>4. Thins(w, e)
    BY <2>2, <2>3, JunkThins
  <2> QED BY <1>2, <1>7, <2>1, <2>3, <2>4
<1> QED BY <1>3, <1>4, <1>5, <1>6, <1>7

LEMMA HandlesFacts ==
  ASSUME NEW f \in Frames, NEW intact \in BOOLEAN, Handles(f, intact), down \in Seq(Cells)
  PROVE  \E r \in Frames :
           /\ r.id = f.id /\ r.status \in Statuses
           /\ stack # "simulator" => r.sequence = f.sequence
           /\ IF r.status = "BAD_PAYLOAD_CRC" THEN handled' = handled
              ELSE handled' = Append(handled, Handled(f, r.status))
           /\ down' \in Seq(Cells) /\ MagicFrames(down') \subseteq MagicFrames(down) \cup {r}
           /\ MagicFrames(down) = {} /\ Single(down) => Single(down')
<1>1. ASSUME NEW r \in Frames,
             down' = down \/ \E w : Thins(w, Encode(r)) /\ down' = down \o w
      PROVE  /\ down' \in Seq(Cells) /\ MagicFrames(down') \subseteq MagicFrames(down) \cup {r}
             /\ MagicFrames(down) = {} /\ Single(down) => Single(down')
  <2>1. CASE down' = down
    BY <2>1
  <2>2. ASSUME NEW w, Thins(w, Encode(r)), down' = down \o w
        PROVE  /\ down' \in Seq(Cells) /\ MagicFrames(down') \subseteq MagicFrames(down) \cup {r}
               /\ MagicFrames(down) = {} /\ Single(down) => Single(down')
    <3>1. w \in Seq(Cells) /\ MagicFrames(w) \subseteq {r} /\ Single(w)
      BY <2>2, EncodeMagic DEF Thins
    <3> QED BY <2>2, <3>1, ConcatFacts
  <2> QED BY <1>1, <2>1, <2>2
<1>s. "BAD_PAYLOAD_CRC" \in Statuses /\ "BAD_PAYLOAD_CRC" \notin HandlerStatuses
      /\ HandlerStatuses \subseteq Statuses
  BY DEF Statuses, HandlerStatuses
<1>2. PICK q \in Frames : q.id = f.id /\ q.sequence = f.sequence /\ q.status = "BAD_PAYLOAD_CRC"
  BY <1>s, ReplyFacts
<1>3. \/ \E status \in HandlerStatuses :
           handled' = Append(handled, Handled(f, status)) /\ Answer(f, status)
      \/ handled' = handled /\ down' = down
      \/ handled' = handled /\ Answer(f, "BAD_PAYLOAD_CRC")
  BY DEF Handles
<1>5. ASSUME NEW status \in Statuses, Answer(f, status),
             IF status = "BAD_PAYLOAD_CRC" THEN handled' = handled
             ELSE handled' = Append(handled, Handled(f, status))
      PROVE  \E r \in Frames :
           /\ r.id = f.id /\ r.status \in Statuses
           /\ stack # "simulator" => r.sequence = f.sequence
           /\ IF r.status = "BAD_PAYLOAD_CRC" THEN handled' = handled
              ELSE handled' = Append(handled, Handled(f, r.status))
           /\ down' \in Seq(Cells) /\ MagicFrames(down') \subseteq MagicFrames(down) \cup {r}
           /\ MagicFrames(down) = {} /\ Single(down) => Single(down')
  <2>1. PICK r \in Frames :
          /\ r.id = f.id /\ r.status = status
          /\ stack # "simulator" => r.sequence = f.sequence
          /\ down' = down \/ \E w : Thins(w, Encode(r)) /\ down' = down \o w
    BY <1>5, AnswerFacts, Zenon
  <2> QED BY <1>1, <1>5, <2>1
<1>4. ASSUME NEW status \in HandlerStatuses,
             handled' = Append(handled, Handled(f, status)), Answer(f, status)
      PROVE  IF status = "BAD_PAYLOAD_CRC" THEN handled' = handled
             ELSE handled' = Append(handled, Handled(f, status))
  BY <1>s, <1>4
<1>6. CASE handled' = handled /\ down' = down
  BY <1>1, <1>2, <1>6, <1>s
<1> QED BY <1>3, <1>4, <1>5, <1>6, <1>s

LEMMA SizesThin ==
  ASSUME NeverOversized, Thins(up', up), up \in Seq(Cells), stack' = stack, limit' = limit
  PROVE  NeverOversized'
<1>1. up' \in Seq(Cells) /\ DOMAIN up' = 1 .. Len(up') /\ DOMAIN up = 1 .. Len(up)
  BY LenProperties DEF Thins
<1> SUFFICES ASSUME stack = "session", NEW i \in 1 .. Len(up'), up'[i].frame.id # 0
             PROVE  up'[i].frame.n <= limit
  BY <1>1 DEF NeverOversized
<1>2. up'[i] # Junk
  BY DEF Junk, NoFrame
<1>3. PICK j \in 1 .. Len(up) : up'[i] = up[j]
  BY <1>2 DEF Thins
<1> QED BY <1>1, <1>3 DEF NeverOversized

\* The device reads on, and perhaps handles a request that is older than all
\* that is still to come.
LEMMA DeviceKeeps ==
  ASSUME IInv, UNCHANGED <<portVars, clientVars, faults>>,
         Thins(up', up), receiver' \in Receivers, Led(receiver'.cells),
         receiver'.at = "magic" /\ stack # "simulator" => receiver'.cells = <<>>,
         receiver'.at # "magic" => receiver'.cells # <<>> /\ stack # "simulator",
         Ordered(receiver'.cells), Upstream' \subseteq Upstream,
         \A f \in MagicFrames(receiver'.cells), g \in MagicFrames(up') : f.id < g.id,
         \/ down' = down /\ handled' = handled
         \/ \E f \in Upstream, intact \in BOOLEAN :
              /\ Handles(f, intact)
              /\ \A g \in Upstream' : f.id < g.id
              /\ stack = "simulator" => Upstream' = {},
         stack = "simulator" => call # NoCall /\ SimulatorReading'
  PROVE  IInv'
<1> USE DEF IInv
<1>1. /\ stack' = stack /\ limit' = limit /\ port' = port /\ sequence' = sequence
      /\ known' = known /\ call' = call /\ outcome' = outcome /\ requests' = requests
      /\ buffer' = buffer /\ reused' = reused /\ faults' = faults
  BY DEF portVars, clientVars
<1>2. /\ up \in Seq(Cells) /\ down \in Seq(Cells) /\ handled \in Seq(Handlings)
      /\ up' \in Seq(Cells) /\ Ordered(up') /\ HandledInOrder
  BY DEF ShapeInv, OrderInv, Thins
<1>3. NeverOversized'
  BY <1>1, <1>2, SizesThin
<1>4. ASSUME down' \in Seq(Cells), handled' \in Seq(Handlings) PROVE ShapeInv'
  BY <1>1, <1>2, <1>4 DEF ShapeInv
<1>5. ASSUME HandledInOrder' PROVE OrderInv'
  BY <1>2, <1>5 DEF OrderInv
<1>6. CASE down' = down /\ handled' = handled
  <2>1. Downstream' = Downstream
    BY <1>1, <1>6 DEF Downstream
  <2>2. ShapeInv'
    BY <1>2, <1>4, <1>6
  <2>3. OrderInv'
    BY <1>2, <1>5, <1>6 DEF HandledInOrder
  <2>4. DoneInv'
    BY <1>1, <1>6, <2>1, QuietStep
  <2>5. SequenceInv'
    BY <1>1, <2>1, QuietSequence
  <2>6. SimulatorInv'
    BY <1>1, <1>6, <2>1 DEF SimulatorInv
  <2> QED BY <1>3, <2>2, <2>3, <2>4, <2>5, <2>6
<1>7. ASSUME NEW f \in Upstream, NEW intact \in BOOLEAN, Handles(f, intact),
             \A g \in Upstream' : f.id < g.id, stack = "simulator" => Upstream' = {}
      PROVE  IInv'
  <2>1. f \in Frames /\ f.id \in 1 .. MaxRequests /\ \A id \in Done : id < f.id
    BY ShapeFacts, FrameFacts DEF DoneInv
  <2>2. PICK r \in Frames :
          /\ r.id = f.id /\ r.status \in Statuses
          /\ stack # "simulator" => r.sequence = f.sequence
          /\ IF r.status = "BAD_PAYLOAD_CRC" THEN handled' = handled
             ELSE handled' = Append(handled, Handled(f, r.status))
          /\ down' \in Seq(Cells) /\ MagicFrames(down') \subseteq MagicFrames(down) \cup {r}
          /\ MagicFrames(down) = {} /\ Single(down) => Single(down')
    BY <1>2, <1>7, <2>1, HandlesFacts
  <2>3. /\ handled' \in Seq(Handlings) /\ HandledInOrder'
        /\ IF r.status = "BAD_PAYLOAD_CRC" THEN Log' = Log
           ELSE Log' = Log \cup {Handled(f, r.status)}
    <3>1. CASE r.status # "BAD_PAYLOAD_CRC"
      <4>1. PICK x \in Handlings : x = Handled(f, r.status) /\ x.id = f.id
        BY <2>1, <2>2, <3>1 DEF Handlings, Handled, Statuses
      <4> QED BY <1>2, <2>1, <2>2, <3>1, <4>1, HandledGrows
    <3>2. CASE r.status = "BAD_PAYLOAD_CRC"
      BY <1>2, <2>2, <3>2 DEF Log, HandledInOrder
    <3> QED BY <3>1, <3>2
  <2>4. Downstream' \subseteq Downstream \cup {r}
    BY <1>1, <2>2 DEF Downstream
  <2>5. ShapeInv'
    BY <1>4, <2>2, <2>3
  <2>6. OrderInv'
    BY <1>5, <2>3
  <2>7. DoneInv'
    <3>1. \A g \in Upstream' : g \in Upstream /\ f.id < g.id
      BY <1>7
    <3> QED BY <1>1, <1>7, <2>2, <2>3, <2>4, <3>1, HandleStep
  <2>8. SequenceInv'
    BY <1>1, <1>7, <2>2, <2>4, HandleSequence
  <2>9. SimulatorInv'
    <3> SUFFICES ASSUME stack = "simulator"
                 PROVE  /\ \A g \in Downstream' : g.id = call'.id
                        /\ Single(buffer') /\ Single(down') /\ MagicFrames(buffer') = {}
      BY <1>1, <1>7 DEF SimulatorInv
    <3>1. Downstream = {} /\ Single(buffer) /\ Single(down) /\ f.id = call.id
      BY <1>7 DEF SimulatorInv
    <3>2. MagicFrames(buffer) = {} /\ MagicFrames(down) = {}
      BY <3>1 DEF Downstream
    <3> QED BY <1>1, <2>2, <2>4, <3>1, <3>2
  <2> QED BY <1>3, <2>5, <2>6, <2>7, <2>8, <2>9
<1> QED BY <1>6, <1>7

\* One cell that is a magic.
LEMMA OneCell ==
  ASSUME NEW c \in Cells
  PROVE  /\ <<c>> \in Seq(Cells) /\ Len(<<c>>) = 1 /\ <<c>>[1] = c /\ <<c>> # <<>>
         /\ Single(<<c>>) /\ Ordered(<<c>>)
         /\ \A f \in MagicFrames(<<c>>) : IsMagic(c) /\ f = c.frame
         /\ IsMagic(c) => Led(<<c>>)
<1>1. <<c>> \in Seq(Cells) /\ Len(<<c>>) = 1 /\ <<c>>[1] = c /\ <<c>> # <<>>
  OBVIOUS
<1>2. PICK w \in Seq(Cells) : w = <<c>>
  BY <1>1, Zenon
<1>3. Len(w) = 1 /\ w[1] = c /\ w # <<>>
  BY <1>1, <1>2
<1>4. Single(w)
  BY <1>3 DEF Single
<1>5. \A f \in MagicFrames(w) : IsMagic(c) /\ f = c.frame
  BY <1>3 DEF MagicFrames
<1>6. IsMagic(c) => Led(w)
  BY <1>3 DEF Led
<1> QED BY <1>1, <1>2, <1>4, <1>5, <1>6, SingleIsOrdered, Zenon

LEMMA DspFindsMagicKeeps ==
  ASSUME IInv, DspFindsMagic PROVE IInv'
<1> USE DEF IInv
<1>1. /\ stack # "simulator" /\ up # <<>> /\ receiver.at = "magic" /\ up \in Seq(Cells)
      /\ UNCHANGED <<portVars, clientVars, faults>> /\ down' = down /\ handled' = handled
      /\ receiver.cells = <<>> /\ Ordered(up) /\ receiver \in Receivers
  BY DEF DspFindsMagic, ShapeInv, OrderInv
<1>2. PICK found \in SUBSET Nat : found = {i \in 1 .. Len(up) : up[i].kind = "magic"}
  <2>1. {i \in 1 .. Len(up) : up[i].kind = "magic"} \in SUBSET Nat
    OBVIOUS
  <2> QED BY <2>1, Zenon
<1>3. CASE found = {}
  <2>1. up' = <<>> /\ receiver' = receiver
    BY <1>2, <1>3 DEF DspFindsMagic
  <2>2. Thins(<<>>, up)
    BY EmptyFacts DEF Thins
  <2>3. Upstream' = {} /\ MagicFrames(up') = {}
    BY <1>1, <2>1, EmptyFacts DEF Upstream
  <2> QED BY <1>1, <2>1, <2>2, <2>3, EmptyFacts, DeviceKeeps
<1>4. CASE found # {}
  <2>1. PICK m \in found : m = Min(found)
    BY <1>4, Minimum
  <2>2. /\ receiver' = [at |-> "header", cells |-> <<up[m]>>]
        /\ up' = SubSeq(up, m + 1, Len(up))
    BY <1>2, <1>4, <2>1 DEF DspFindsMagic
  <2>3. m \in 1 .. Len(up) /\ IsMagic(up[m]) /\ up[m] \in Cells /\ Len(up) \in Nat
    BY <1>1, <1>2, <2>1 DEF IsMagic
  <2>4. PICK c \in Cells : c = up[m]
    BY <2>3
  <2>5. PICK k \in Nat \ {0} : k = m + 1
    BY <2>3
  <2>6. Len(up) \in 0 .. Len(up)
    BY <2>3
  <2>7. /\ Thins(SubSeq(up, k, Len(up)), up)
        /\ Len(SubSeq(up, k, Len(up))) = IF k <= Len(up) THEN Len(up) - k + 1 ELSE 0
        /\ \A i \in 1 .. Len(up) - k + 1 : SubSeq(up, k, Len(up))[i] = up[k + i - 1]
    BY <1>1, <2>6, SubSeqThins, Zenon
  <2>8. up' = SubSeq(up, k, Len(up))
    BY <2>2, <2>5
  <2>9. /\ Thins(up', up)
        /\ Len(up') = IF k <= Len(up) THEN Len(up) - k + 1 ELSE 0
        /\ \A i \in 1 .. Len(up) - k + 1 : up'[i] = up[k + i - 1]
    BY <2>7, <2>8, Zenon
  <2>10. PICK w \in Seq(Cells) : w = <<c>>
    BY OneCell, Zenon
  <2>11. /\ w # <<>> /\ Ordered(w) /\ Led(w)
         /\ \A f \in MagicFrames(w) : f = up[m].frame
    BY <2>3, <2>4, <2>10, OneCell
  <2>12. receiver' \in Receivers /\ receiver'.cells = w /\ receiver'.at = "header"
    BY <2>2, <2>4, <2>10 DEF Receivers
  <2>13. ASSUME NEW g \in MagicFrames(up') PROVE up[m].frame.id < g.id
    <3>1. up' \in Seq(Cells)
      BY <2>9 DEF Thins
    <3>2. PICK i \in 1 .. Len(up') : IsMagic(up'[i]) /\ up'[i].frame = g
      BY <2>13, <3>1, MagicThere
    <3>3. k <= Len(up) /\ i \in 1 .. Len(up) - k + 1
      BY <2>3, <2>9, <3>2
    <3>4. PICK j \in 1 .. Len(up) : j = k + i - 1 /\ m < j
      BY <2>3, <2>5, <3>3
    <3>5. IsMagic(up[j]) /\ up[j].frame = g
      BY <2>9, <3>2, <3>3, <3>4
    <3> QED BY <1>1, <2>3, <3>4, <3>5 DEF Ordered
  <2>14. Upstream' \subseteq Upstream
    <3>1. MagicFrames(w) \subseteq MagicFrames(up)
      BY <1>1, <2>3, <2>11, MagicHere
    <3>2. MagicFrames(up') \subseteq MagicFrames(up)
      BY <2>9 DEF Thins
    <3> QED BY <2>12, <3>1, <3>2 DEF Upstream
  <2>15. \A f \in MagicFrames(receiver'.cells), g \in MagicFrames(up') : f.id < g.id
    BY <2>11, <2>12, <2>13
  <2> QED BY <1>1, <2>9, <2>11, <2>12, <2>14, <2>15, DeviceKeeps
<1> QED BY <1>3, <1>4

\* What reading the next cell does to the order of the requests.
LEMMA NextCell ==
  ASSUME IInv, up # <<>>, NEW cells, cells = Append(receiver.cells, Head(up)), up' = Tail(up)
  PROVE  /\ cells \in Seq(Cells) /\ Ordered(cells) /\ Len(cells) = Len(receiver.cells) + 1
         /\ receiver.cells # <<>> => cells[1] = receiver.cells[1] /\ Led(cells)
         /\ receiver.cells = <<>> => cells[1] = up[1]
         /\ MagicFrames(cells) \subseteq Upstream /\ MagicFrames(up') \subseteq Upstream
         /\ \A f \in MagicFrames(cells), g \in MagicFrames(up') : f.id < g.id
         /\ Thins(up', up) /\ Len(up') = Len(up) - 1
         /\ Single(receiver.cells) /\ (MagicFrames(up) = {} \/ MagicFrames(receiver.cells) = {})
              => Single(cells)
<1> USE DEF IInv
<1>1. /\ up \in Seq(Cells) /\ receiver.cells \in Seq(Cells) /\ Led(receiver.cells)
      /\ Ordered(receiver.cells) /\ Ordered(up)
      /\ \A f \in MagicFrames(receiver.cells), g \in MagicFrames(up) : f.id < g.id
  BY ShapeFacts DEF ShapeInv, OrderInv
<1>2. /\ cells \in Seq(Cells) /\ Ordered(cells) /\ Len(cells) = Len(receiver.cells) + 1
      /\ receiver.cells # <<>> => cells[1] = receiver.cells[1]
      /\ receiver.cells = <<>> => cells[1] = up[1]
      /\ MagicFrames(cells) \subseteq MagicFrames(receiver.cells) \cup MagicFrames(up)
      /\ \A f \in MagicFrames(cells), g \in MagicFrames(up') : f.id < g.id
      /\ Single(receiver.cells) /\ (MagicFrames(up) = {} \/ MagicFrames(receiver.cells) = {})
           => Single(cells)
  BY <1>1, MoveHead
<1>3. Thins(up', up) /\ Len(up') = Len(up) - 1
  BY <1>1, TailThins
<1>4. receiver.cells # <<>> => Led(cells)
  BY <1>1, <1>2 DEF Led
<1> QED BY <1>2, <1>3, <1>4 DEF Thins, Upstream

LEMMA DspReadsHeaderKeeps ==
  ASSUME IInv, DspReadsHeader PROVE IInv'
<1> USE DEF IInv
<1>1. /\ stack # "simulator" /\ up # <<>> /\ receiver.at = "header"
      /\ UNCHANGED <<portVars, clientVars, faults>> /\ down' = down /\ handled' = handled
      /\ receiver.cells # <<>> /\ up' = Tail(up)
  BY DEF DspReadsHeader, ShapeInv
<1>2. PICK cells : cells = Append(receiver.cells, Head(up))
  OBVIOUS
<1>3. /\ cells \in Seq(Cells) /\ Ordered(cells) /\ Len(cells) = Len(receiver.cells) + 1
      /\ Led(cells) /\ MagicFrames(cells) \subseteq Upstream /\ MagicFrames(up') \subseteq Upstream
      /\ \A f \in MagicFrames(cells), g \in MagicFrames(up') : f.id < g.id
      /\ Thins(up', up)
  BY <1>1, <1>2, NextCell
<1>4. receiver' = [at |-> "payload", cells |-> cells] \/ receiver' = Searching
  BY <1>2 DEF DspReadsHeader
<1>5. CASE receiver' = Searching
  <2>1. receiver' \in Receivers /\ receiver'.cells = <<>> /\ receiver'.at = "magic"
    BY <1>5, SearchingFacts
  <2>2. Upstream' \subseteq Upstream
    BY <1>3, <2>1, EmptyFacts DEF Upstream
  <2> QED BY <1>1, <1>3, <2>1, <2>2, EmptyFacts, DeviceKeeps
<1>6. CASE receiver' = [at |-> "payload", cells |-> cells]
  <2>1. receiver' \in Receivers /\ receiver'.cells = cells /\ receiver'.at = "payload"
    BY <1>3, <1>6 DEF Receivers
  <2>2. cells # <<>>
    <3>1. Len(receiver.cells) \in Nat
      BY ShapeFacts
    <3> QED BY <1>3, <3>1
  <2>3. Upstream' \subseteq Upstream
    BY <1>3, <2>1 DEF Upstream
  <2> QED BY <1>1, <1>3, <2>1, <2>2, <2>3, DeviceKeeps
<1> QED BY <1>4, <1>5, <1>6

LEMMA DspReadsPayloadKeeps ==
  ASSUME IInv, DspReadsPayload PROVE IInv'
<1> USE DEF IInv
<1>1. /\ stack # "simulator" /\ up # <<>> /\ receiver.at = "payload"
      /\ UNCHANGED <<portVars, clientVars, faults>>
      /\ receiver.cells # <<>> /\ up' = Tail(up) /\ receiver \in Receivers
  BY DEF DspReadsPayload, ShapeInv
<1>2. PICK cells : cells = Append(receiver.cells, Head(up))
  OBVIOUS
<1>3. /\ cells \in Seq(Cells) /\ Ordered(cells) /\ Len(cells) = Len(receiver.cells) + 1
      /\ Led(cells) /\ MagicFrames(cells) \subseteq Upstream /\ MagicFrames(up') \subseteq Upstream
      /\ \A f \in MagicFrames(cells), g \in MagicFrames(up') : f.id < g.id
      /\ Thins(up', up)
  BY <1>1, <1>2, NextCell
<1>4. \/ receiver' = [receiver EXCEPT !.cells = cells] /\ down' = down /\ handled' = handled
      \/ Complete(cells) /\ Handles(cells[1].frame, Intact(cells)) /\ receiver' = Searching
  BY <1>2 DEF DspReadsPayload
<1>5. CASE receiver' = [receiver EXCEPT !.cells = cells] /\ down' = down /\ handled' = handled
  <2>1. receiver' \in Receivers /\ receiver'.cells = cells /\ receiver'.at = "payload"
    BY <1>1, <1>3, <1>5 DEF Receivers
  <2>2. cells # <<>>
    <3>1. Len(receiver.cells) \in Nat
      BY ShapeFacts
    <3> QED BY <1>3, <3>1
  <2>3. Upstream' \subseteq Upstream
    BY <1>3, <2>1 DEF Upstream
  <2> QED BY <1>1, <1>3, <1>5, <2>1, <2>2, <2>3, DeviceKeeps
<1>6. CASE Complete(cells) /\ Handles(cells[1].frame, Intact(cells)) /\ receiver' = Searching
  <2>1. receiver' \in Receivers /\ receiver'.cells = <<>> /\ receiver'.at = "magic"
    BY <1>6, SearchingFacts
  <2>2. Upstream' = MagicFrames(up') /\ Upstream' \subseteq Upstream
    BY <1>3, <2>1, EmptyFacts DEF Upstream
  <2>3. cells[1].frame \in MagicFrames(cells)
    BY <1>3, <1>6, RestFacts
  <2>4. PICK f \in Upstream : f = cells[1].frame
    BY <1>3, <2>3
  <2>5. PICK intact \in BOOLEAN : intact = Intact(cells)
    BY Zenon DEF Intact
  <2>6. Handles(f, intact) /\ \A g \in Upstream' : f.id < g.id
    BY <1>3, <1>6, <2>2, <2>3, <2>4, <2>5
  <2>7. \A g \in MagicFrames(receiver'.cells), h \in MagicFrames(up') : g.id < h.id
    BY <2>1, EmptyFacts
  <2> QED BY <1>1, <1>3, <2>1, <2>2, <2>6, <2>7, EmptyFacts, DeviceKeeps
<1> QED BY <1>4, <1>5, <1>6

LEMMA SimulatorReadsKeeps ==
  ASSUME IInv, SimulatorReads PROVE IInv'
<1> USE DEF IInv
<1>1. /\ stack = "simulator" /\ up # <<>> /\ up' = Tail(up)
      /\ UNCHANGED <<portVars, clientVars, faults>>
      /\ receiver \in Receivers /\ up \in Seq(Cells) /\ receiver.cells \in Seq(Cells)
      /\ SimulatorReading /\ call # NoCall
  BY ShapeFacts DEF SimulatorReads, ShapeInv, SimulatorInv
<1>2. PICK taken : taken = Append(receiver.cells, Head(up))
  OBVIOUS
<1>3. /\ taken \in Seq(Cells) /\ Ordered(taken) /\ Len(taken) = Len(receiver.cells) + 1
      /\ receiver.cells # <<>> => taken[1] = receiver.cells[1] /\ Led(taken)
      /\ receiver.cells = <<>> => taken[1] = up[1]
      /\ MagicFrames(taken) \subseteq Upstream /\ MagicFrames(up') \subseteq Upstream
      /\ \A f \in MagicFrames(taken), g \in MagicFrames(up') : f.id < g.id
      /\ Thins(up', up) /\ Len(up') = Len(up) - 1
      /\ Single(receiver.cells) /\ (MagicFrames(up) = {} \/ MagicFrames(receiver.cells) = {})
           => Single(taken)
  BY <1>1, <1>2, NextCell
<1>4. PICK cells : cells = Scanned(taken)
  OBVIOUS
<1>5. /\ cells \in Seq(Cells) /\ Led(cells) /\ Ordered(cells) /\ Thins(cells, taken)
      /\ MagicFrames(cells) \subseteq Upstream
      /\ \A f \in MagicFrames(cells), g \in MagicFrames(up') : f.id < g.id
  BY <1>3, <1>4, ScannedFacts DEF Thins
<1>n. Len(up) \in Nat \ {0} /\ Len(receiver.cells) \in Nat
  BY <1>1
<1>6. /\ MagicFrames(up') = {} /\ Single(cells)
      /\ cells # <<>> => Len(cells) + Len(up') = cells[1].frame.n + 3
  <2>1. CASE receiver.cells # <<>>
    <3>1. /\ MagicFrames(up) = {} /\ Single(receiver.cells)
          /\ Len(receiver.cells) + Len(up) = receiver.cells[1].frame.n + 3
      BY <1>1, <2>1 DEF SimulatorReading
    <3>2. Single(taken) /\ Led(taken)
      BY <1>3, <2>1, <3>1
    <3>3. cells \in {<<>>, taken}
      BY <1>3, <1>4, <3>2, ScannedFacts
    <3>4. MagicFrames(up') = {}
      BY <1>3, <3>1 DEF Thins
    <3>5. Single(cells)
      BY <3>2, <3>3, EmptyFacts
    <3>6. cells # <<>> => Len(cells) + Len(up') = cells[1].frame.n + 3
      BY <1>3, <1>n, <2>1, <3>1, <3>3
    <3> QED BY <3>4, <3>5, <3>6
  <2>2. CASE receiver.cells = <<>> /\ MagicFrames(up) = {}
    <3>1. MagicFrames(taken) = {}
      <4>1. MagicFrames(receiver.cells) = {}
        BY <2>2, EmptyFacts
      <4> QED BY <1>3, <2>2, <4>1 DEF Upstream
    <3>2. cells = <<>>
      BY <1>3, <1>4, <3>1, ScannedFacts
    <3>3. MagicFrames(up') = {}
      BY <1>3, <2>2 DEF Thins
    <3> QED BY <3>2, <3>3, EmptyFacts
  <2>3. CASE receiver.cells = <<>> /\ MagicFrames(up) # {}
    <3>1. Single(up) /\ IsMagic(up[1]) /\ Len(up) = up[1].frame.n + 3
      BY <1>1, <2>3 DEF SimulatorReading
    <3>2. Single(taken)
      BY <1>3, <2>3, EmptyFacts
    <3>3. Led(taken)
      BY <1>3, <2>3, <3>1 DEF Led
    <3>4. cells \in {<<>>, taken}
      BY <1>3, <1>4, <3>2, <3>3, ScannedFacts
    <3>5. up' = SubSeq(up, 2, Len(up))
      BY <1>1, TailIsSubSeq, Zenon
    <3>6. 2 \in Nat \ {0, 1}
      OBVIOUS
    <3>7. MagicFrames(SubSeq(up, 2, Len(up))) = {}
      BY <1>1, <3>1, <3>6, FirstIsLeast, Zenon
    <3>8. MagicFrames(up') = {}
      BY <3>5, <3>7
    <3>9. Len(receiver.cells) = 0
      BY <2>3
    <3>10. cells # <<>> => Len(cells) + Len(up') = cells[1].frame.n + 3
      <4> SUFFICES ASSUME cells = taken PROVE Len(taken) + Len(up') = taken[1].frame.n + 3
        BY <3>4
      <4>1. Len(taken) = 1 /\ taken[1] = up[1] /\ Len(up') = Len(up) - 1
        BY <1>3, <2>3, <3>9
      <4> QED BY <1>n, <3>1, <4>1
    <3> QED BY <3>2, <3>4, <3>8, <3>10, EmptyFacts
  <2> QED BY <2>1, <2>2, <2>3
<1>7. \/ /\ Oversized(cells, limit) /\ down' = down /\ handled' = handled
         /\ receiver' = [receiver EXCEPT !.cells = Scanned(Tail(cells))]
      \/ /\ ~Complete(cells) /\ down' = down /\ handled' = handled
         /\ receiver' = [receiver EXCEPT !.cells = cells]
      \/ /\ Complete(cells) /\ Handles(cells[1].frame, Intact(cells))
         /\ receiver' = [receiver EXCEPT !.cells = Scanned(Rest(cells))]
  BY <1>2, <1>4 DEF SimulatorReads
<1>8. receiver.at = "magic"
  BY <1>1 DEF ShapeInv
<1> DEFINE Emptied == receiver' = [receiver EXCEPT !.cells = <<>>]
<1>9. ASSUME Emptied
      PROVE  /\ receiver' \in Receivers /\ receiver'.cells = <<>> /\ Upstream' = {}
             /\ receiver'.at = "magic" /\ SimulatorReading'
  <2>1. receiver' \in Receivers /\ receiver'.cells = <<>> /\ receiver'.at = "magic"
    BY <1>1, <1>8, <1>9, EmptyFacts DEF Receivers
  <2> QED BY <1>6, <2>1, EmptyFacts DEF Upstream, SimulatorReading
<1>10. CASE /\ Oversized(cells, limit) /\ down' = down /\ handled' = handled
            /\ receiver' = [receiver EXCEPT !.cells = Scanned(Tail(cells))]
  <2>1. cells # <<>> /\ IsMagic(cells[1])
    BY <1>5, <1>10 DEF Oversized, Led
  <2>2. Tail(cells) = SubSeq(cells, 2, Len(cells))
    BY <1>5, <2>1, TailIsSubSeq, Zenon
  <2>3. 2 \in Nat \ {0, 1}
    OBVIOUS
  <2>4. MagicFrames(SubSeq(cells, 2, Len(cells))) = {}
    BY <1>5, <1>6, <2>1, <2>3, FirstIsLeast, Zenon
  <2>5. PICK t \in Seq(Cells) : t = Tail(cells)
    BY <1>5, <2>1, TailThins DEF Thins
  <2>6. Scanned(t) = <<>>
    BY <2>2, <2>4, <2>5, ScannedFacts
  <2>7. Emptied
    BY <1>10, <2>5, <2>6
  <2> HIDE DEF Emptied
  <2> QED BY <1>1, <1>3, <1>6, <1>9, <1>10, <2>7, EmptyFacts, DeviceKeeps
<1>11. CASE /\ ~Complete(cells) /\ down' = down /\ handled' = handled
            /\ receiver' = [receiver EXCEPT !.cells = cells]
  <2>1. receiver' \in Receivers /\ receiver'.cells = cells /\ receiver'.at = "magic"
    BY <1>1, <1>5, <1>8, <1>11 DEF Receivers
  <2>2. Upstream' \subseteq Upstream
    BY <1>3, <1>5, <2>1 DEF Upstream
  <2>3. cells # <<>> => up' # <<>>
    <3> SUFFICES ASSUME cells # <<>>, up' = <<>> PROVE FALSE
      OBVIOUS
    <3>1. Len(up') = 0 /\ Len(cells) \in Nat \ {0} /\ 1 \in 1 .. Len(cells)
      BY <1>5
    <3>2. cells[1].frame.n \in Nat
      BY <1>5, <3>1, MagicHere, FrameFacts DEF Led
    <3> QED BY <1>6, <1>11, <3>1, <3>2 DEF Complete
  <2>4. SimulatorReading'
    BY <1>6, <2>1, <2>3 DEF SimulatorReading
  <2> QED BY <1>1, <1>3, <1>5, <1>11, <2>1, <2>2, <2>4, DeviceKeeps
<1>12. CASE /\ Complete(cells) /\ Handles(cells[1].frame, Intact(cells))
            /\ receiver' = [receiver EXCEPT !.cells = Scanned(Rest(cells))]
  <2>1. /\ cells # <<>> /\ cells[1].frame \in Upstream /\ MagicFrames(Rest(cells)) = {}
        /\ Thins(Rest(cells), cells)
    BY <1>5, <1>6, <1>12, RestFacts
  <2>2. PICK t \in Seq(Cells) : t = Rest(cells)
    BY <2>1 DEF Thins
  <2>3. Scanned(t) = <<>>
    BY <2>1, <2>2, ScannedFacts
  <2>4. Emptied
    BY <1>12, <2>2, <2>3
  <2> HIDE DEF Emptied
  <2>5. PICK f \in Upstream : f = cells[1].frame
    BY <2>1
  <2>6. PICK intact \in BOOLEAN : intact = Intact(cells)
    BY Zenon DEF Intact
  <2>7. Handles(f, intact) /\ Upstream' = {}
    BY <1>9, <1>12, <2>4, <2>5, <2>6
  <2> QED BY <1>1, <1>3, <1>6, <1>9, <2>4, <2>7, EmptyFacts, DeviceKeeps
<1> QED BY <1>7, <1>10, <1>11, <1>12

LEMMA DeviceStepsKeep ==
  ASSUME IInv, DeviceSteps PROVE IInv'
BY DspFindsMagicKeeps, DspReadsHeaderKeeps, DspReadsPayloadKeeps, SimulatorReadsKeeps
   DEF DeviceSteps

-----------------------------------------------------------------------------
(* The line, and the theorems. *)

LEMMA FaultThins ==
  ASSUME NEW s \in Seq(Cells), NEW i \in 1 .. Len(s),
         NEW t \in {Remove(s, i), [s EXCEPT ![i] = Junk]}
  PROVE  Thins(t, s)
BY RemoveThins, JunkThins

LEMMA LineFaultKeeps ==
  ASSUME IInv, LineFault PROVE IInv'
<1> USE DEF IInv
<1>1. /\ stack' = stack /\ limit' = limit /\ port' = port /\ sequence' = sequence
      /\ known' = known /\ call' = call /\ outcome' = outcome /\ requests' = requests
      /\ buffer' = buffer /\ reused' = reused /\ receiver' = receiver /\ handled' = handled
      /\ faults < MaxFaults /\ faults' = faults + 1 /\ stack # "simulator"
      /\ up \in Seq(Cells) /\ down \in Seq(Cells) /\ Ordered(up)
  BY DEF LineFault, portVars, clientVars, deviceVars, ShapeInv, OrderInv
<1>2. Thins(up', up) \/ up' = up
  BY <1>1, FaultThins DEF LineFault
<1>3. Thins(down', down) \/ down' = down
  BY <1>1, FaultThins DEF LineFault
<1>4. /\ up' \in Seq(Cells) /\ Ordered(up') /\ MagicFrames(up') \subseteq MagicFrames(up)
      /\ down' \in Seq(Cells) /\ MagicFrames(down') \subseteq MagicFrames(down)
  BY <1>1, <1>2, <1>3 DEF Thins
<1>5. Upstream' \subseteq Upstream /\ Downstream' \subseteq Downstream
  BY <1>1, <1>4 DEF Upstream, Downstream
<1>6. ShapeInv'
  <2>1. faults' \in 0 .. MaxFaults
    BY <1>1, LinkAssumption DEF ShapeInv
  <2> QED BY <1>1, <1>4, <2>1 DEF ShapeInv
<1>7. OrderInv'
  BY <1>1, <1>4 DEF OrderInv, HandledInOrder
<1>8. DoneInv'
  BY <1>1, <1>5, QuietStep
<1>9. SequenceInv'
  BY <1>1, <1>5, QuietSequence
<1>10. SimulatorInv'
  BY <1>1 DEF SimulatorInv
<1>11. NeverOversized'
  <2>1. CASE up' = up
    BY <1>1, <2>1 DEF NeverOversized
  <2>2. CASE Thins(up', up)
    BY <1>1, <2>2, SizesThin
  <2> QED BY <1>2, <2>1, <2>2
<1> QED BY <1>6, <1>7, <1>8, <1>9, <1>10, <1>11

LEMMA StutterKeeps ==
  ASSUME IInv, UNCHANGED vars PROVE IInv'
<1>1. UNCHANGED <<stack, limit, clientVars, up, deviceVars, faults>> /\ down' = down /\ port' = port
  BY DEF vars, clientVars, deviceVars
<1>2. port' \in {"closed", "settle", "autobaud", "delay", "open", "unclosed"}
  BY <1>1 DEF IInv, ShapeInv
<1> QED BY <1>1, <1>2, PortMoves

\* The state of the link: requests reach the device in order, and what is on the
\* way in either direction agrees with what has been handled.
THEOREM LinkState == Spec => []IInv
<1>1. Init => IInv
  BY InitEstablishes
<1>2. IInv /\ [Next]_vars => IInv'
  BY PortStepsKeep, HostStepsKeep, DeviceStepsKeep, LineFaultKeeps, StutterKeeps DEF Next
<1> QED BY <1>1, <1>2, PTL DEF Spec

\* Requests reach their handlers in the order they were written, each at most
\* once (BootProtocol_Receive, ResyncReader.feed).
THEOREM RequestsRunInOrder == Spec => []HandledInOrder
<1>1. IInv => HandledInOrder
  BY DEF IInv, OrderInv
<1> QED BY <1>1, LinkState, PTL

\* A transaction that succeeds was carried out for this very request, whatever the
\* line lost, damaged or delivered late (transact of both clients).
THEOREM SuccessIsOwn == Spec => []ResponseIsOwn
<1>1. IInv => ResponseIsOwn
  <2> SUFFICES ASSUME IInv, ~reused, outcome.how = "OK" PROVE HasHandled(outcome.id, "OK")
    BY DEF ResponseIsOwn
  <2>1. TrueOf(outcome.id, "OK")
    BY DEF IInv, DoneInv, Statuses, HandlerStatuses
  <2> QED BY <2>1 DEF TrueOf, Handled, Log, HasHandled
<1> QED BY <1>1, LinkState, PTL

\* An error a transaction reports is its own request's: one of a handler is what this
\* request's handler answered, and one of a damaged payload means that no handler has
\* seen the request; and BootProtocolClient sends no request that is longer than the
\* device takes (transact, _payload_limit, BootProtocol_Receive).
THEOREM ErrorsAreTrue == Spec => []LinkInv
<1>1. IInv => TypeOK
  <2> SUFFICES ASSUME IInv PROVE TypeOK
    OBVIOUS
  <2>1. call = NoCall \/ call.id \in 1 .. requests
    <3>1. CASE call # NoCall
      <4>1. call \in Calls /\ call.id <= requests /\ requests \in Nat
        BY <3>1, ShapeFacts DEF IInv, ShapeInv
      <4> QED BY <4>1, LinkAssumption DEF Calls
    <3> QED BY <3>1
  <2>2. IsSeq(up, Cells) /\ IsSeq(down, Cells) /\ IsSeq(buffer, Cells)
    BY DEF IInv, ShapeInv, IsSeq
  <2>3. receiver.at \in {"magic", "header", "payload"} /\ IsSeq(receiver.cells, Cells)
    BY DEF IInv, ShapeInv, Receivers, IsSeq
  <2>4. outcome.how \in {"none", "limit", "write", "decode", "timeout"} \cup Statuses
    BY DEF IInv, ShapeInv, Outcomes
  <2> QED BY <2>1, <2>2, <2>3, <2>4 DEF IInv, ShapeInv, TypeOK
<1>2. IInv => ErrorIsOwn
  <2> SUFFICES ASSUME IInv, ~reused
               PROVE  /\ outcome.how = "ERROR" => HasHandled(outcome.id, "ERROR")
                      /\ outcome.how = "BAD_PAYLOAD_CRC" =>
                           \A i \in DOMAIN handled : handled[i].id # outcome.id
    BY DEF ErrorIsOwn
  <2>1. outcome.how \in Statuses => TrueOf(outcome.id, outcome.how)
    BY DEF IInv, DoneInv
  <2>2. ASSUME outcome.how = "ERROR" PROVE HasHandled(outcome.id, "ERROR")
    BY <2>1, <2>2 DEF Statuses, HandlerStatuses, TrueOf, Handled, Log, HasHandled
  <2>3. ASSUME outcome.how = "BAD_PAYLOAD_CRC", NEW i \in DOMAIN handled
        PROVE  handled[i].id # outcome.id
    BY <2>1, <2>3 DEF Statuses, TrueOf, Never, Done, Log
  <2> QED BY <2>2, <2>3
<1>3. IInv => LinkInv
  BY <1>1, <1>2 DEF IInv, LinkInv
<1> QED BY <1>3, LinkState, PTL

=============================================================================
