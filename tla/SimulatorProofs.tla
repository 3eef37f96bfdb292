-------------------------- MODULE SimulatorProofs ---------------------------
(***************************************************************************)
(* What one request does to the simulated device: the facts about Respond  *)
(* on which the proofs about the PC's operations and tools rest.           *)
(***************************************************************************)
EXTENDS SimulatorCore, FiniteSetTheorems, TLAPS

Records == [type : RecordTypes, image : Images]
FlashContents == [Addresses -> Images \cup {None}]
SessionImages == Images \cup {None, Service, RamApp}
SessionTable == [Transfers -> [image : SessionImages, index : Nat]]

DeviceType ==
  [require : {TRUE}, flash : FlashContents, journal : Seq(Records), session : SessionTable,
   loaded : {None, Service, RamApp}, crc_ok : BOOLEAN,
   service : {"DETACHED", "ATTACHED", "ERROR"}, verified : BOOLEAN]

\* i is the place of the latest IMAGE_VALID of the journal, or 0.
IsLatest(i, journal) ==
  /\ i # 0 => journal[i].type = "IMAGE_VALID"
  /\ \A j \in i + 1 .. Len(journal) : journal[j].type # "IMAGE_VALID"
HasLatest(journal) == \E i \in 0 .. Len(journal) : IsLatest(i, journal)

DeviceInv(d) ==
  /\ d \in DeviceType
  /\ Len(d.journal) <= RecordCount /\ HasLatest(d.journal)
  /\ \A k \in Transfers : d.session[k].index <= Packets(d.session[k].image)
  /\ d.session["RAM_LOAD"].image \in {None, Service, RamApp}

-----------------------------------------------------------------------------
(* The journal: its summary, and what one more record does to it. *)

\* The journal has one latest IMAGE_VALID, the one LatestImage finds.
LEMMA LatestIs ==
  ASSUME NEW journal \in Seq(Records), NEW i \in 0 .. Len(journal), IsLatest(i, journal)
  PROVE  LatestImage(journal) = i
<1> DEFINE P(n) == /\ n # 0 => journal[n].type = "IMAGE_VALID"
                   /\ \A j \in n + 1 .. Len(journal) : journal[j].type # "IMAGE_VALID"
<1>1. P(i)
  BY DEF IsLatest
<1>2. \A n \in 0 .. Len(journal) : P(n) => n = i
  <2> SUFFICES ASSUME NEW n \in 0 .. Len(journal), P(n), n # i PROVE FALSE
    OBVIOUS
  <2>1. CASE n < i
    <3>1. i \in n + 1 .. Len(journal) /\ i # 0
      BY <2>1
    <3>2. QED
      BY <3>1, <1>1
  <2>2. CASE i < n
    <3>1. n \in i + 1 .. Len(journal) /\ n # 0
      BY <2>2
    <3>2. QED
      BY <3>1, <1>1
  <2>3. QED
    BY <2>1, <2>2
<1>3. LatestImage(journal) = CHOOSE n \in 0 .. Len(journal) : P(n)
  BY DEF LatestImage
<1> HIDE DEF P
<1>4. QED
  BY <1>1, <1>2, <1>3

\* The records of a type that follow the latest IMAGE_VALID and name its image.
Rec(type, image) == [type |-> type, image |-> image]
Following(d, type) ==
  {i \in LatestImage(d.journal) + 1 .. Len(d.journal) :
     d.journal[i] = Rec(type, Summary(d).image)}

LEMMA LatestType ==
  ASSUME NEW journal \in Seq(Records), HasLatest(journal)
  PROVE  LatestImage(journal) \in 0 .. Len(journal) /\ IsLatest(LatestImage(journal), journal)
<1>1. PICK i \in 0 .. Len(journal) : IsLatest(i, journal)
  BY DEF HasLatest
<1>2. QED
  BY <1>1, LatestIs

\* The three fields of the summary.
LEMMA SummaryFields ==
  ASSUME NEW d, d.journal \in Seq(Records), HasLatest(d.journal)
  PROVE  /\ Summary(d).image = IF LatestImage(d.journal) = 0 THEN None
                               ELSE d.journal[LatestImage(d.journal)].image
         /\ Summary(d).image \in Images \cup {None}
         /\ Summary(d).image = None <=> LatestImage(d.journal) = 0
         /\ IsFiniteSet(Following(d, "BOOT_ATTEMPT"))
         /\ Summary(d).attempts = Cardinality(Following(d, "BOOT_ATTEMPT"))
         /\ Summary(d).attempts \in Nat
         /\ Summary(d).confirmed = (Following(d, "APP_CONFIRMED") # {})
<1>1. Summary(d).image = IF LatestImage(d.journal) = 0 THEN None
                         ELSE d.journal[LatestImage(d.journal)].image
  BY DEF Summary
<1>2. LatestImage(d.journal) \in 0 .. Len(d.journal)
  BY LatestType
<1>3. /\ Summary(d).image \in Images \cup {None}
      /\ Summary(d).image = None <=> LatestImage(d.journal) = 0
  <2>1. LatestImage(d.journal) # 0 => d.journal[LatestImage(d.journal)] \in Records
    BY <1>2
  <2>2. LatestImage(d.journal) # 0 =>
          d.journal[LatestImage(d.journal)].image \in Images /\ 0 \notin Images
    BY <2>1, SimulatorAssumption DEF Records
  <2>3. QED
    BY <1>1, <2>2 DEF None
<1>4. IsFiniteSet(Following(d, "BOOT_ATTEMPT"))
  <2>1. IsFiniteSet(LatestImage(d.journal) + 1 .. Len(d.journal))
    BY <1>2, FS_Interval
  <2>2. QED
    BY <2>1, FS_Subset DEF Following
<1>5. /\ Summary(d).attempts = Cardinality(Following(d, "BOOT_ATTEMPT"))
      /\ Summary(d).confirmed = (Following(d, "APP_CONFIRMED") # {})
  BY <1>1 DEF Summary, Following, Rec
<1>6. Summary(d).attempts \in Nat
  BY <1>4, <1>5, FS_CardinalityType
<1>7. QED
  BY <1>1, <1>3, <1>4, <1>5, <1>6

\* The summary is a function of the journal.
LEMMA SummaryOfJournal ==
  ASSUME NEW d, NEW e, d.journal = e.journal
  PROVE  Summary(d) = Summary(e)
BY DEF Summary

\* An empty journal trusts nothing.
LEMMA EmptySummary ==
  ASSUME NEW d, d.journal = <<>>
  PROVE  /\ HasLatest(d.journal)
         /\ Summary(d).image = None /\ Summary(d).attempts = 0 /\ Summary(d).confirmed = FALSE
<1>1. d.journal \in Seq(Records) /\ Len(d.journal) = 0
  OBVIOUS
<1>2. IsLatest(0, d.journal)
  BY <1>1 DEF IsLatest
<1>3. HasLatest(d.journal)
  BY <1>1, <1>2 DEF HasLatest
<1>4. LatestImage(d.journal) = 0
  <2>1. 0 \in 0 .. Len(d.journal)
    BY <1>1
  <2>2. QED
    BY <1>1, <1>2, <2>1, LatestIs
<1>5. Following(d, "BOOT_ATTEMPT") = {} /\ Following(d, "APP_CONFIRMED") = {}
  BY <1>1, <1>4 DEF Following
<1>6. QED
  BY <1>1, <1>3, <1>4, <1>5, SummaryFields, FS_EmptySet

-----------------------------------------------------------------------------
(* What one request does to the device. *)

LEMMA PacketsType ==
  ASSUME NEW image \in SessionImages
  PROVE  Packets(image) \in Nat /\ (image \in Images => Packets(image) = image)
BY SimulatorAssumption DEF SessionImages, Packets, None, Service, RamApp

\* The addresses of an image are addresses of Flash.
LEMMA ImageAddresses ==
  ASSUME NEW image \in Images
  PROVE  1 .. image \subseteq Addresses
BY DEF Addresses

LEMMA PositiveNumbers ==
  /\ \A a \in Addresses : a \in Nat /\ a > 0
  /\ \A image \in Images : image \in Nat /\ image > 0
  /\ \A image \in Images \cup {None} : image \in Nat
<1>1. /\ \A image \in Images : image \in Nat /\ image > 0
      /\ \A image \in Images \cup {None} : image \in Nat
  BY SimulatorAssumption DEF None
<1>2. \A a \in Addresses : \E image \in Images : a \in 1 .. image
  BY DEF Addresses
<1>3. QED
  BY <1>1, <1>2

\* One field of the device changed, and the rest as it was.
PutSession(d, k, s) == [d EXCEPT !.session[k] = s]
PutVerified(d, v) == [d EXCEPT !.verified = v]
PutLoaded(d, image) == [d EXCEPT !.loaded = image, !.crc_ok = FALSE]
PutService(d, state) == [d EXCEPT !.service = state]
PutPacket(d, a, image) == [d EXCEPT !.flash[a] = image, !.verified = FALSE]

\* e's sessions are d's but for that of transfer k; e's Flash is d's but for one packet.
SessionMoved(d, e, k, s) ==
  \A j \in Transfers : e.session[j] = IF j = k THEN s ELSE d.session[j]
PacketWritten(d, e, a, image) ==
  \A b \in Addresses : e.flash[b] = IF b = a THEN image ELSE d.flash[b]
SameStore(d, e) == e.flash = d.flash /\ e.journal = d.journal
SameFlashService(d, e) == e.service = d.service /\ e.verified = d.verified

LEMMA WithSession ==
  ASSUME NEW d, DeviceInv(d), NEW k \in Transfers, NEW s \in [image : SessionImages, index : Nat],
         s.index <= Packets(s.image), k = "RAM_LOAD" => s.image \in {None, Service, RamApp}
  PROVE  /\ DeviceInv(PutSession(d, k, s))
         /\ SameStore(d, PutSession(d, k, s)) /\ SameFlashService(d, PutSession(d, k, s))
         /\ SessionMoved(d, PutSession(d, k, s), k, s)
<1> DEFINE table == [d.session EXCEPT ![k] = s]
           e == [d EXCEPT !.session = table]
<1>1. /\ table \in SessionTable /\ \A j \in Transfers : table[j] = IF j = k THEN s ELSE d.session[j]
  BY DEF DeviceInv, DeviceType, SessionTable
<1>2. PutSession(d, k, s) = e
  BY DEF PutSession
<1> HIDE DEF table
<1>3. /\ e \in DeviceType /\ e.journal = d.journal /\ e.flash = d.flash
      /\ e.service = d.service /\ e.verified = d.verified /\ e.session = table
  BY <1>1 DEF DeviceInv, DeviceType
<1> HIDE DEF e
<1>4. DeviceInv(e)
  BY <1>1, <1>3 DEF DeviceInv, Transfers
<1>5. QED
  BY <1>1, <1>2, <1>3, <1>4 DEF SameStore, SameFlashService, SessionMoved

LEMMA WithVerified ==
  ASSUME NEW d, DeviceInv(d), NEW e, e = PutVerified(d, TRUE) \/ e = PutVerified(d, FALSE)
  PROVE  /\ DeviceInv(e) /\ SameStore(d, e) /\ e.service = d.service /\ e.session = d.session
         /\ e = PutVerified(d, TRUE) => e.verified
BY DEF DeviceInv, DeviceType, SameStore, PutVerified

LEMMA WithLoaded ==
  ASSUME NEW d, DeviceInv(d), NEW image \in {None, Service, RamApp}
  PROVE  /\ DeviceInv(PutLoaded(d, image)) /\ SameStore(d, PutLoaded(d, image))
         /\ SameFlashService(d, PutLoaded(d, image))
         /\ PutLoaded(d, image).loaded = image /\ PutLoaded(d, image).session = d.session
BY DEF DeviceInv, DeviceType, SameStore, SameFlashService, PutLoaded

LEMMA WithService ==
  ASSUME NEW d, DeviceInv(d), NEW state \in {"DETACHED", "ATTACHED", "ERROR"}
  PROVE  /\ DeviceInv(PutService(d, state)) /\ SameStore(d, PutService(d, state))
         /\ PutService(d, state).service = state /\ PutService(d, state).session = d.session
BY DEF DeviceInv, DeviceType, SameStore, PutService

LEMMA WithPacket ==
  ASSUME NEW d, DeviceInv(d), NEW a \in Addresses, NEW image \in Images
  PROVE  /\ DeviceInv(PutPacket(d, a, image)) /\ PacketWritten(d, PutPacket(d, a, image), a, image)
         /\ PutPacket(d, a, image).journal = d.journal
         /\ PutPacket(d, a, image).service = d.service
         /\ PutPacket(d, a, image).session = d.session
<1> DEFINE flash == [d.flash EXCEPT ![a] = image]
           e == [d EXCEPT !.flash = flash, !.verified = FALSE]
<1>1. flash \in FlashContents /\ \A b \in Addresses : flash[b] = IF b = a THEN image ELSE d.flash[b]
  BY DEF DeviceInv, DeviceType, FlashContents
<1>2. PutPacket(d, a, image) = e
  BY DEF PutPacket
<1> HIDE DEF flash
<1>3. /\ DeviceInv(e) /\ e.flash = flash /\ e.journal = d.journal
      /\ e.service = d.service /\ e.session = d.session
  BY <1>1 DEF DeviceInv, DeviceType
<1> HIDE DEF e
<1>4. QED
  BY <1>1, <1>2, <1>3 DEF PacketWritten

LEMMA NoSessionType ==
  /\ NoSession \in [image : SessionImages, index : Nat]
  /\ NoSession.index <= Packets(NoSession.image) /\ NoSession.image \in {None, Service, RamApp}
BY DEF NoSession, SessionImages, Packets, None

\* The session of transfer k closed.
LEMMA WithNoSession ==
  ASSUME NEW d, DeviceInv(d), NEW k \in Transfers
  PROVE  LET e == PutSession(d, k, NoSession) IN
         /\ DeviceInv(e) /\ SameStore(d, e) /\ SameFlashService(d, e)
         /\ SessionMoved(d, e, k, NoSession)
BY NoSessionType, WithSession

\* BEGIN opens its session, or changes nothing.
LEMMA BeginEffect ==
  ASSUME NEW d, DeviceInv(d), NEW q, q.command = "BEGIN", q.type \in Transfers,
         q.image \in SessionImages, q.type = "RAM_LOAD" => q.image \in {Service, RamApp},
         NEW fault, NEW r, r = Respond(d, q, fault)
  PROVE  /\ DeviceInv(r.device) /\ SameStore(d, r.device) /\ SameFlashService(d, r.device)
         /\ \/ r.status # "OK" /\ r.device = d
            \/ r.status = "OK" /\ SessionMoved(d, r.device, q.type, Session(q.image))
<1> DEFINE begun == PutSession(d, q.type, Session(q.image))
           loaded == PutLoaded(begun, None)
<1>1. /\ Session(q.image) \in [image : SessionImages, index : Nat]
      /\ Session(q.image).index <= Packets(Session(q.image).image)
      /\ q.type = "RAM_LOAD" => Session(q.image).image \in {None, Service, RamApp}
  BY PacketsType DEF Session
<1>2. /\ DeviceInv(begun) /\ SameStore(d, begun) /\ SameFlashService(d, begun)
      /\ SessionMoved(d, begun, q.type, Session(q.image))
  BY <1>1, WithSession
<1>3. \/ r.device = d /\ r.status # "OK"
      \/ (r.device = begun \/ r.device = loaded) /\ r.status = "OK"
  BY DEF Respond, Begin, Reads, Fail, OK, PutSession, PutLoaded
<1> HIDE DEF begun
<1>4. /\ DeviceInv(loaded) /\ SameStore(begun, loaded) /\ SameFlashService(begun, loaded)
      /\ loaded.session = begun.session
  BY <1>2, WithLoaded
<1> HIDE DEF loaded
<1>5. QED
  BY <1>2, <1>3, <1>4 DEF SameStore, SameFlashService, SessionMoved

\* A packet of the open session that fails closes the session.
LEMMA DroppedEffect ==
  ASSUME NEW d, DeviceInv(d), NEW k \in Transfers, NEW status
  PROVE  LET r == Dropped(d, k, status) IN
         /\ DeviceInv(r.device) /\ r.status = status
         /\ SameStore(d, r.device) /\ r.device.service = d.service
         /\ SessionMoved(d, r.device, k, NoSession)
<1> DEFINE ended == PutSession(d, k, NoSession)
           r == Dropped(d, k, status)
<1>1. /\ DeviceInv(ended) /\ SameStore(d, ended) /\ ended.service = d.service
      /\ SessionMoved(d, ended, k, NoSession)
  BY WithNoSession DEF SameFlashService
<1>2. /\ r.device = ended \/ r.device = PutVerified(ended, FALSE)
      /\ r.status = status
  BY DEF Dropped, Fail, PutSession, PutVerified
<1> HIDE DEF ended, r
<1>3. CASE r.device = PutVerified(ended, FALSE)
  <2>1. /\ DeviceInv(r.device) /\ SameStore(ended, r.device)
        /\ r.device.service = ended.service /\ r.device.session = ended.session
    BY <1>1, <1>3, WithVerified
  <2>2. QED
    BY <1>1, <1>2, <2>1 DEF SameStore, SessionMoved, r
<1>4. CASE r.device = ended
  BY <1>1, <1>2, <1>4 DEF r
<1>5. QED
  BY <1>2, <1>3, <1>4

\* DATA that continues the open session: the packet is programmed into erased
\* Flash, found in Flash, or loaded; or the session is closed.
LEMMA DataEffect ==
  ASSUME NEW d, DeviceInv(d), NEW q, q.command = "DATA", q.type \in Transfers,
         q.image \in SessionImages, q.type = "RAM_LOAD" => q.image \in {Service, RamApp},
         q.type # "RAM_LOAD" => q.image \in Images,
         q.index \in Nat, q.index < Packets(q.image),
         d.session[q.type] = [image |-> q.image, index |-> q.index],
         NEW fault, NEW r, r = Respond(d, q, fault)
  PROVE  /\ DeviceInv(r.device) /\ r.device.journal = d.journal
         /\ q.type # "PROGRAM" \/ r.status # "OK" => r.device.flash = d.flash
         /\ q.type # "RAM_LOAD" => r.device.service = d.service
         /\ r.status = "OK" =>
              /\ SessionMoved(d, r.device, q.type, [image |-> q.image, index |-> q.index + 1])
              /\ q.type = "PROGRAM" => /\ d.flash[q.index + 1] = None
                                       /\ PacketWritten(d, r.device, q.index + 1, q.image)
              /\ q.type = "VERIFY" => d.flash[q.index + 1] = q.image
<1> DEFINE next == [image |-> q.image, index |-> q.index + 1]
           moved == PutSession(d, q.type, next)
           written == PutPacket(moved, q.index + 1, q.image)
           detached == PutService(moved, "DETACHED")
<1>1. Packets(q.image) \in Nat /\ (q.image \in Images => Packets(q.image) = q.image)
  BY PacketsType
<1>2. /\ next \in [image : SessionImages, index : Nat]
      /\ next.index <= Packets(next.image)
      /\ q.type = "RAM_LOAD" => next.image \in {None, Service, RamApp}
  BY <1>1
<1>3. q.type # "RAM_LOAD" => q.index + 1 \in Addresses
  BY <1>1, ImageAddresses
<1>4. Advanced(d, q.type) = moved
  <2>1. [d.session[q.type] EXCEPT !.index = @ + 1] = next
    OBVIOUS
  <2>2. QED
    BY <2>1 DEF Advanced, PutSession, DeviceInv, DeviceType, SessionTable
<1> HIDE DEF next
<1>5. /\ DeviceInv(moved) /\ SameStore(d, moved) /\ moved.service = d.service
      /\ SessionMoved(d, moved, q.type, next)
  BY <1>2, WithSession DEF SameFlashService
<1>6. \/ r.device = d /\ r.status = "UNSUPPORTED_FEATURE"
      \/ r = Data(d, q.type, q.image, q.index, fault)
  BY DEF Respond, Reads, Fail
<1>7. [Advanced(d, "PROGRAM") EXCEPT !.flash[q.index + 1] = q.image, !.verified = FALSE]
        = PutPacket(Advanced(d, "PROGRAM"), q.index + 1, q.image)
  BY DEF PutPacket
<1>8. [Advanced(d, "RAM_LOAD") EXCEPT !.service = "DETACHED"]
        = PutService(Advanced(d, "RAM_LOAD"), "DETACHED")
  BY DEF PutService
<1>9. r = Data(d, q.type, q.image, q.index, fault) =>
        \/ \E status : status # "OK" /\ r = Dropped(d, q.type, status)
        \/ q.type = "PROGRAM" /\ d.flash[q.index + 1] = None /\ r = OK(written)
        \/ q.type = "VERIFY" /\ d.flash[q.index + 1] = q.image /\ r = OK(moved)
        \/ q.type = "RAM_LOAD" /\ (r = OK(moved) \/ r = OK(detached))
  <2> SUFFICES ASSUME r = Data(d, q.type, q.image, q.index, fault),
                      ~ \E status : status # "OK" /\ r = Dropped(d, q.type, status)
               PROVE  \/ q.type = "PROGRAM" /\ d.flash[q.index + 1] = None /\ r = OK(written)
                      \/ q.type = "VERIFY" /\ d.flash[q.index + 1] = q.image /\ r = OK(moved)
                      \/ q.type = "RAM_LOAD" /\ (r = OK(moved) \/ r = OK(detached))
    OBVIOUS
  <2> HIDE DEF moved
  <2>1. CASE q.type = "PROGRAM"
    BY <1>4, <1>7, <2>1 DEF Data, ProgramData
  <2>2. CASE q.type = "VERIFY"
    BY <1>4, <2>2 DEF Data, VerifyData
  <2>3. CASE q.type = "RAM_LOAD"
    BY <1>4, <1>8, <2>3 DEF Data, RamLoadData
  <2>4. QED
    BY <2>1, <2>2, <2>3 DEF Transfers
<1> HIDE DEF moved
<1>10. CASE r.device = d /\ r.status = "UNSUPPORTED_FEATURE"
  BY <1>10
<1>11. CASE \E status : status # "OK" /\ r = Dropped(d, q.type, status)
  <2>1. PICK status : status # "OK" /\ r = Dropped(d, q.type, status)
    BY <1>11
  <2>2. QED
    BY <2>1, DroppedEffect DEF SameStore
<1>12. CASE q.type = "PROGRAM" /\ d.flash[q.index + 1] = None /\ r = OK(written)
  <2>1. /\ DeviceInv(written) /\ PacketWritten(moved, written, q.index + 1, q.image)
        /\ written.journal = moved.journal /\ written.service = moved.service
        /\ written.session = moved.session
    BY <1>3, <1>5, <1>12, WithPacket
  <2>2. PacketWritten(d, written, q.index + 1, q.image) /\ SessionMoved(d, written, q.type, next)
    BY <1>5, <2>1 DEF PacketWritten, SessionMoved, SameStore
  <2> HIDE DEF written
  <2>3. QED
    BY <1>5, <1>12, <2>1, <2>2 DEF OK, SameStore, next
<1>13. CASE r = OK(moved) /\ q.type # "PROGRAM"
            /\ (q.type = "VERIFY" => d.flash[q.index + 1] = q.image)
  BY <1>5, <1>13 DEF OK, SameStore, next
<1>14. CASE q.type = "RAM_LOAD" /\ r = OK(detached)
  <2>1. DeviceInv(detached) /\ SameStore(moved, detached) /\ detached.session = moved.session
    BY <1>5, WithService
  <2>2. SessionMoved(d, detached, q.type, next)
    BY <1>5, <2>1 DEF SessionMoved
  <2> HIDE DEF detached
  <2>3. QED
    BY <1>5, <1>14, <2>1, <2>2 DEF OK, SameStore, next
<1>15. QED
  BY <1>6, <1>9, <1>10, <1>11, <1>12, <1>13, <1>14

\* Every END closes its session, unless the service is missing; a complete one
\* makes a verify count, and an image in RAM loaded.
LEMMA EndEffect ==
  ASSUME NEW d, DeviceInv(d), NEW q, q.command = "END", q.type \in Transfers,
         NEW fault, NEW r, r = Respond(d, q, fault)
  PROVE  /\ DeviceInv(r.device) /\ SameStore(d, r.device) /\ r.device.service = d.service
         /\ r.status \in {"OK", "TOTAL_COUNT_MISMATCH"} =>
              SessionMoved(d, r.device, q.type, NoSession)
         /\ r.status = "OK" => /\ q.type = "VERIFY" => r.device.verified
                               /\ q.type = "RAM_LOAD" => r.device.loaded = d.session[q.type].image
<1> DEFINE ended == PutSession(d, q.type, NoSession)
           last == d.session["RAM_LOAD"].image
<1>1. /\ DeviceInv(ended) /\ SameStore(d, ended) /\ ended.service = d.service
      /\ SessionMoved(d, ended, q.type, NoSession)
  BY WithNoSession DEF SameFlashService
<1>2. \/ r.device = d /\ r.status = "UNSUPPORTED_FEATURE"
      \/ r = End(d, q.type, q.image)
  BY DEF Respond, Reads, Fail
<1>3. r = End(d, q.type, q.image) =>
        \/ \E status : status # "OK" /\ r = Dropped(d, q.type, status)
        \/ q.type = "PROGRAM" /\ r = OK(PutVerified(ended, FALSE))
        \/ q.type = "VERIFY" /\ r = OK(PutVerified(ended, TRUE))
        \/ q.type = "RAM_LOAD" /\ r = OK(PutLoaded(ended, last))
  <2> SUFFICES ASSUME r = End(d, q.type, q.image),
                      ~ \E status : status # "OK" /\ r = Dropped(d, q.type, status)
               PROVE  \/ q.type = "PROGRAM" /\ r = OK(PutVerified(ended, FALSE))
                      \/ q.type = "VERIFY" /\ r = OK(PutVerified(ended, TRUE))
                      \/ q.type = "RAM_LOAD" /\ r = OK(PutLoaded(ended, last))
    OBVIOUS
  <2>1. CASE q.type = "PROGRAM"
    BY <2>1 DEF End, PutVerified, PutSession
  <2>2. CASE q.type = "VERIFY"
    BY <2>2 DEF End, PutVerified, PutSession
  <2>3. CASE q.type = "RAM_LOAD"
    BY <2>3 DEF End, PutLoaded, PutSession
  <2>4. QED
    BY <2>1, <2>2, <2>3 DEF Transfers
<1>4. last \in {None, Service, RamApp}
  BY DEF DeviceInv
<1> HIDE DEF ended
<1>5. CASE r.device = d /\ r.status = "UNSUPPORTED_FEATURE"
  BY <1>5 DEF SameStore
<1>6. CASE \E status : status # "OK" /\ r = Dropped(d, q.type, status)
  <2>1. PICK status : status # "OK" /\ r = Dropped(d, q.type, status)
    BY <1>6
  <2>2. QED
    BY <2>1, DroppedEffect
<1>7. CASE q.type = "PROGRAM" /\ r = OK(PutVerified(ended, FALSE))
  <2>1. /\ DeviceInv(r.device) /\ SameStore(ended, r.device) /\ r.device.service = ended.service
        /\ r.device.session = ended.session
    <3>1. r.device = PutVerified(ended, FALSE)
      BY <1>7 DEF OK
    <3>2. QED
      BY <1>1, <3>1, WithVerified
  <2>2. QED
    BY <1>1, <1>7, <2>1 DEF SameStore, SessionMoved
<1>8. CASE q.type = "VERIFY" /\ r = OK(PutVerified(ended, TRUE))
  <2>1. /\ DeviceInv(r.device) /\ SameStore(ended, r.device) /\ r.device.service = ended.service
        /\ r.device.session = ended.session /\ r.device.verified
    <3>1. r.device = PutVerified(ended, TRUE)
      BY <1>8 DEF OK
    <3>2. QED
      BY <1>1, <3>1, WithVerified
  <2>2. QED
    BY <1>1, <1>8, <2>1 DEF SameStore, SessionMoved
<1>9. CASE q.type = "RAM_LOAD" /\ r = OK(PutLoaded(ended, last))
  <2>1. r.device = PutLoaded(ended, last)
    BY <1>9 DEF OK
  <2>2. /\ DeviceInv(r.device) /\ SameStore(ended, r.device) /\ r.device.service = ended.service
        /\ r.device.session = ended.session /\ r.device.loaded = last
    BY <1>1, <1>4, <2>1, WithLoaded DEF SameFlashService
  <2>3. QED
    BY <1>1, <1>9, <2>2 DEF SameStore, SessionMoved
<1>10. QED
  BY <1>2, <1>3, <1>5, <1>6, <1>7, <1>8, <1>9

\* ERASE empties what it is asked to, or fails and changes nothing.
LEMMA EraseEffect ==
  ASSUME NEW d, DeviceInv(d), NEW q, q.command = "ERASE",
         NEW fault, NEW r, r = Respond(d, q, fault)
  PROVE  /\ DeviceInv(r.device) /\ r.device.service = d.service
         /\ \A k \in Transfers : r.device.session[k] \in {NoSession, d.session[k]}
         /\ "app" \notin q.sectors => r.device.flash = d.flash
         /\ r.device.journal \in {<<>>, d.journal}
         /\ "metadata" \notin q.sectors => r.device.journal = d.journal
         /\ r.status = "OK" => /\ "app" \in q.sectors => \A a \in Addresses : r.device.flash[a] = None
                               /\ "metadata" \in q.sectors => r.device.journal = <<>>
<1> DEFINE flash == [a \in Addresses |-> IF "app" \in q.sectors THEN None ELSE d.flash[a]]
           journal == IF "metadata" \in q.sectors THEN <<>> ELSE d.journal
           session == [d.session EXCEPT !["PROGRAM"] = NoSession, !["VERIFY"] = NoSession]
           e == [d EXCEPT !.flash = flash, !.journal = journal, !.session = session,
                          !.verified = FALSE]
<1>1. /\ flash \in FlashContents
      /\ "app" \notin q.sectors => flash = d.flash
      /\ "app" \in q.sectors => \A a \in Addresses : flash[a] = None
  BY DEF FlashContents, DeviceInv, DeviceType
<1>2. /\ journal \in Seq(Records) /\ Len(journal) <= RecordCount /\ HasLatest(journal)
      /\ "metadata" \notin q.sectors => journal = d.journal
      /\ "metadata" \in q.sectors => journal = <<>>
  <2>1. CASE "metadata" \in q.sectors
    <3>1. journal = <<>> /\ Len(journal) = 0
      BY <2>1
    <3>2. IsLatest(0, <<>>)
      BY DEF IsLatest
    <3>3. QED
      BY <2>1, <3>1, <3>2, SimulatorAssumption DEF HasLatest
  <2>2. CASE "metadata" \notin q.sectors
    BY <2>2 DEF DeviceInv, DeviceType
  <2>3. QED
    BY <2>1, <2>2
<1>3. /\ session \in SessionTable
      /\ \A k \in Transfers : session[k] \in {NoSession, d.session[k]}
      /\ session["RAM_LOAD"] = d.session["RAM_LOAD"]
  BY NoSessionType DEF SessionTable, DeviceInv, DeviceType, Transfers
<1>4. \/ r.device = d /\ r.status # "OK"
      \/ r.device = e /\ r.status = "OK"
  BY DEF Respond, Erase, Reads, Fail, OK
<1> HIDE DEF flash, journal, session
<1>5. /\ e \in DeviceType /\ e.flash = flash /\ e.journal = journal /\ e.session = session
      /\ e.service = d.service
  BY <1>1, <1>2, <1>3 DEF DeviceInv, DeviceType
<1> HIDE DEF e
<1>6. DeviceInv(e)
  <2>1. \A k \in Transfers : e.session[k].index <= Packets(e.session[k].image)
    BY <1>3, <1>5, NoSessionType DEF DeviceInv
  <2>2. e.session["RAM_LOAD"].image \in {None, Service, RamApp}
    BY <1>3, <1>5 DEF DeviceInv
  <2>3. QED
    BY <1>2, <1>5, <2>1, <2>2 DEF DeviceInv
<1>7. QED
  BY <1>1, <1>2, <1>3, <1>4, <1>5, <1>6

\* Requests that only read, and RUN and RUN_RAM, which only answer.
LEMMA ReadEffect ==
  ASSUME NEW d, NEW q, q.command \in Reads \cup {"RUN", "RUN_RAM"}, q.type = "none",
         NEW fault, NEW r, r = Respond(d, q, fault)
  PROVE  r.device = d
BY DEF Respond, Reads, NeedsService, Run, RunRam, OK, Fail

\* Checking what is loaded changes the flag alone.
LEMMA CrcEffect ==
  ASSUME NEW d, DeviceInv(d), NEW q, q.command = "RAM_CHECK_CRC", q.type = "none",
         NEW fault, NEW r, r = Respond(d, q, fault)
  PROVE  /\ DeviceInv(r.device) /\ SameStore(d, r.device) /\ SameFlashService(d, r.device)
         /\ r.device.session = d.session
<1>1. r = RamCheckCrc(d, q.image)
  BY DEF Respond, Reads, NeedsService
<1>2. \/ r.device = d
      \/ r.device = [d EXCEPT !.crc_ok = FALSE]
      \/ r.device = [d EXCEPT !.crc_ok = TRUE]
  BY <1>1 DEF RamCheckCrc, Fail, OK
<1>3. QED
  BY <1>2 DEF DeviceInv, DeviceType, SameStore, SameFlashService

\* SERVICE_ATTACH answers OK only when the service is attached.
LEMMA AttachEffect ==
  ASSUME NEW d, DeviceInv(d), NEW q, q.command = "SERVICE_ATTACH", q.type = "none",
         NEW fault, NEW r, r = Respond(d, q, fault)
  PROVE  /\ DeviceInv(r.device) /\ SameStore(d, r.device) /\ r.device.session = d.session
         /\ r.status = "OK" => r.device.service = "ATTACHED"
<1>1. r = ServiceAttach(d)
  BY DEF Respond, Reads, NeedsService
<1>2. \/ r.status # "OK" /\ (r.device = PutService(d, "ERROR") \/ r.device = PutService(d, d.service))
      \/ r.device = PutService(d, "ATTACHED")
  BY <1>1 DEF ServiceAttach, ServiceFail, Fail, OK, PutService
<1>3. d.service \in {"DETACHED", "ATTACHED", "ERROR"}
  BY DEF DeviceInv, DeviceType
<1>4. QED
  BY <1>2, <1>3, WithService

-----------------------------------------------------------------------------
(* One record more in the journal. *)

\* e's journal is d's with one record more.
Wrote(d, e, type, image) == e.journal = WriteRecord(d, type, image).journal

LEMMA RecordAppended ==
  ASSUME NEW d, DeviceInv(d), NEW type \in RecordTypes, NEW image \in Images,
         NEW journal, journal = WriteRecord(d, type, image).journal
  PROVE  /\ journal \in Seq(Records) /\ Len(journal) = Len(d.journal) + 1
         /\ Len(d.journal) \in Nat
         /\ \A i \in 1 .. Len(d.journal) : journal[i] = d.journal[i]
         /\ journal[Len(d.journal) + 1] = Rec(type, image)
         /\ Front(journal) = d.journal /\ Last(journal).type = type
<1> DEFINE rec == Rec(type, image)
<1>1. rec \in Records /\ rec.type = type /\ d.journal \in Seq(Records)
  BY DEF Records, Rec, DeviceInv, DeviceType
<1>2. journal = Append(d.journal, rec)
  BY DEF WriteRecord, Rec, DeviceInv, DeviceType
<1> HIDE DEF rec
<1>3. /\ journal \in Seq(Records) /\ Len(journal) = Len(d.journal) + 1 /\ Len(d.journal) \in Nat
      /\ \A i \in 1 .. Len(d.journal) : journal[i] = d.journal[i]
      /\ journal[Len(d.journal) + 1] = rec
  BY <1>1, <1>2
<1>4. Last(journal) = rec
  BY <1>3 DEF Last
<1>5. Front(journal) = d.journal
  <2>1. Front(journal) = [i \in 1 .. Len(d.journal) |-> journal[i]]
    BY <1>3 DEF Front
  <2>2. d.journal = [i \in 1 .. Len(d.journal) |-> d.journal[i]]
    BY <1>1
  <2>3. QED
    BY <1>3, <2>1, <2>2
<1>6. QED
  BY <1>1, <1>3, <1>4, <1>5 DEF rec

\* A published image starts a lifecycle of its own.
LEMMA PublishedSummary ==
  ASSUME NEW d, DeviceInv(d), NEW image \in Images,
         NEW e, Wrote(d, e, "IMAGE_VALID", image)
  PROVE  /\ HasLatest(e.journal)
         /\ Summary(e).image = image /\ Summary(e).attempts = 0 /\ Summary(e).confirmed = FALSE
<1> DEFINE n == Len(d.journal) + 1
<1>1. /\ e.journal \in Seq(Records) /\ Len(e.journal) = n /\ n \in Nat \ {0}
      /\ e.journal[n] = Rec("IMAGE_VALID", image)
  BY RecordAppended DEF RecordTypes, Wrote
<1> HIDE DEF n
<1>2. n \in 0 .. Len(e.journal) /\ IsLatest(n, e.journal)
  BY <1>1 DEF IsLatest, Rec
<1>3. HasLatest(e.journal) /\ LatestImage(e.journal) = n
  BY <1>1, <1>2, LatestIs DEF HasLatest
<1>4. Following(e, "BOOT_ATTEMPT") = {} /\ Following(e, "APP_CONFIRMED") = {}
  BY <1>1, <1>3 DEF Following
<1>5. Summary(e).image = image
  <2>1. Summary(e).image = e.journal[n].image
    BY <1>1, <1>3, SummaryFields
  <2>2. QED
    BY <1>1, <2>1 DEF Rec
<1>6. Summary(e).attempts = 0 /\ Summary(e).confirmed = FALSE
  BY <1>1, <1>3, <1>4, SummaryFields, FS_EmptySet
<1>7. QED
  BY <1>3, <1>5, <1>6

\* Another record of the trusted image counts in its own field alone.
LEMMA CountedSummary ==
  ASSUME NEW d, DeviceInv(d), NEW type \in {"BOOT_ATTEMPT", "APP_CONFIRMED"},
         Summary(d).image \in Images,
         NEW e, Wrote(d, e, type, Summary(d).image)
  PROVE  /\ HasLatest(e.journal) /\ Summary(e).image = Summary(d).image
         /\ Summary(e).attempts = IF type = "BOOT_ATTEMPT" THEN Summary(d).attempts + 1
                                  ELSE Summary(d).attempts
         /\ Summary(e).confirmed = (type = "APP_CONFIRMED" \/ Summary(d).confirmed)
<1> DEFINE n == Len(d.journal)
           m == LatestImage(d.journal)
           image == Summary(d).image
           rec(t) == Rec(t, image)
<1>1. /\ e.journal \in Seq(Records) /\ Len(e.journal) = n + 1 /\ n \in Nat
      /\ \A i \in 1 .. n : e.journal[i] = d.journal[i]
      /\ e.journal[n + 1] = rec(type)
  <2>1. PICK i \in Images, t \in RecordTypes : i = Summary(d).image /\ t = type
    BY DEF RecordTypes
  <2>2. e.journal = WriteRecord(d, t, i).journal
    BY <2>1 DEF Wrote
  <2> HIDE DEF n
  <2>3. /\ e.journal \in Seq(Records) /\ Len(e.journal) = Len(d.journal) + 1
        /\ Len(d.journal) \in Nat
        /\ \A j \in 1 .. Len(d.journal) : e.journal[j] = d.journal[j]
        /\ e.journal[Len(d.journal) + 1] = Rec(t, i)
    BY <2>2, RecordAppended
  <2>4. QED
    BY <2>1, <2>3 DEF n
<1>2. d.journal \in Seq(Records) /\ HasLatest(d.journal)
  BY DEF DeviceInv, DeviceType
<1>3. m \in 0 .. n /\ IsLatest(m, d.journal)
  BY <1>2, LatestType
<1>4. m # 0 /\ d.journal[m].image = image
  <2>1. image # None
    BY SimulatorAssumption DEF None
  <2>2. QED
    BY <1>2, <2>1, SummaryFields
<1>5. IsLatest(m, e.journal)
  <2>1. e.journal[n + 1].type # "IMAGE_VALID"
    BY <1>1 DEF Rec
  <2> HIDE DEF rec, m, n, image
  <2>2. \A j \in m + 1 .. Len(e.journal) : j \in m + 1 .. n \/ j = n + 1
    BY <1>1, <1>3
  <2>3. \A j \in m .. n : j # 0 => e.journal[j] = d.journal[j]
    BY <1>1, <1>3
  <2>4. m \in m .. n /\ \A j \in m + 1 .. n : j \in m .. n /\ j # 0
    BY <1>1, <1>3
  <2>5. QED
    BY <1>3, <2>1, <2>2, <2>3, <2>4 DEF IsLatest, n
<1>6. HasLatest(e.journal) /\ LatestImage(e.journal) = m
  <2>1. m \in 0 .. Len(e.journal)
    BY <1>1, <1>3
  <2> HIDE DEF m
  <2>2. QED
    BY <1>1, <1>5, <2>1, LatestIs DEF HasLatest
<1>7. Summary(e).image = image
  BY <1>1, <1>3, <1>4, <1>6, SummaryFields
<1>8. \A t : Following(e, t) = {i \in m + 1 .. n + 1 : e.journal[i] = rec(t)}
  BY <1>1, <1>6, <1>7 DEF Following
<1>9. \A t : Following(d, t) = {i \in m + 1 .. n : d.journal[i] = rec(t)}
  BY DEF Following
<1>10. rec("BOOT_ATTEMPT") # rec("APP_CONFIRMED")
  BY DEF Rec
<1> HIDE DEF rec, m, n, image
<1>11. /\ Following(e, type) = Following(d, type) \cup {n + 1}
       /\ n + 1 \notin Following(d, type)
       /\ \A t \in {"BOOT_ATTEMPT", "APP_CONFIRMED"} :
            t # type => Following(e, t) = Following(d, t)
  <2>1. \A i : i \in m + 1 .. n + 1 <=> i \in m + 1 .. n \/ i = n + 1
    BY <1>1, <1>3
  <2>2. \A i \in m + 1 .. n : e.journal[i] = d.journal[i] /\ i # n + 1
    BY <1>1, <1>3
  <2>3. Following(e, type) = Following(d, type) \cup {n + 1}
    BY <1>1, <1>8, <1>9, <2>1, <2>2
  <2>4. n + 1 \notin Following(d, type)
    BY <1>1, <1>9, <2>2
  <2>5. ASSUME NEW t \in {"BOOT_ATTEMPT", "APP_CONFIRMED"}, t # type
        PROVE  Following(e, t) = Following(d, t)
    <3>1. e.journal[n + 1] # rec(t)
      BY <1>1, <1>10, <2>5
    <3>2. QED
      BY <1>8, <1>9, <2>1, <2>2, <3>1
  <2>6. QED
    BY <2>3, <2>4, <2>5
<1>12. CASE type = "BOOT_ATTEMPT"
  <2>1. IsFiniteSet(Following(d, type)) /\ Cardinality(Following(d, type)) = Summary(d).attempts
    BY <1>2, <1>12, SummaryFields
  <2>2. Cardinality(Following(e, type)) = Summary(d).attempts + 1
    BY <1>11, <2>1, FS_AddElement
  <2>3. Summary(e).confirmed = Summary(d).confirmed
    BY <1>1, <1>2, <1>6, <1>11, <1>12, SummaryFields
  <2>4. QED
    BY <1>1, <1>6, <1>7, <1>12, <2>2, <2>3, SummaryFields DEF image
<1>13. CASE type = "APP_CONFIRMED"
  <2>1. Summary(e).attempts = Summary(d).attempts
    BY <1>1, <1>2, <1>6, <1>11, <1>13, SummaryFields
  <2>2. Summary(e).confirmed = TRUE
    BY <1>1, <1>6, <1>11, <1>13, SummaryFields
  <2>3. QED
    BY <1>6, <1>7, <1>13, <2>1, <2>2 DEF image
<1>14. QED
  BY <1>12, <1>13

\* A step of TrustLifecycle, from what one summary says to what another says.
LifecycleStep(s, t) ==
  \/ t.image = s.image /\ t.attempts = s.attempts /\ t.confirmed = s.confirmed
  \/ t.image \in Images \cup {None} /\ t.attempts = 0 /\ t.confirmed = FALSE
  \/ /\ s.image # None /\ ~s.confirmed
     /\ \/ /\ s.attempts < AttemptLimit /\ t.attempts = s.attempts + 1
           /\ t.confirmed = s.confirmed
        \/ s.attempts > 0 /\ t.attempts = s.attempts /\ t.confirmed = TRUE
     /\ t.image = s.image

\* What publishing leaves of the device: verification is used up.
PutValid(d, image) == [WriteRecord(d, "IMAGE_VALID", image) EXCEPT !.verified = FALSE]

LEMMA WithRecord ==
  ASSUME NEW d, DeviceInv(d), NEW type \in RecordTypes, NEW image \in Images,
         Len(d.journal) # RecordCount,
         NEW e, \/ e = PutValid(d, image) /\ type = "IMAGE_VALID"
                \/ e = WriteRecord(d, type, image),
         Wrote(d, e, type, image) => HasLatest(e.journal)
  PROVE  /\ DeviceInv(e) /\ e.flash = d.flash /\ e.session = d.session /\ e.service = d.service
         /\ Wrote(d, e, type, image)
<1> DEFINE journal == WriteRecord(d, type, image).journal
<1>1. journal \in Seq(Records) /\ Len(journal) = Len(d.journal) + 1 /\ Len(d.journal) \in Nat
  BY RecordAppended
<1> HIDE DEF journal
<1>2. d.verified \in BOOLEAN /\ d \in DeviceType /\ Len(d.journal) <= RecordCount
  BY DEF DeviceInv, DeviceType
<1>3. Len(journal) <= RecordCount
  BY <1>1, <1>2, SimulatorAssumption
<1>4. \/ e = [d EXCEPT !.journal = journal, !.verified = FALSE]
      \/ e = [d EXCEPT !.journal = journal]
  BY <1>2 DEF PutValid, WriteRecord, journal, DeviceType
<1>5. /\ e \in DeviceType /\ e.journal = journal /\ e.flash = d.flash
      /\ e.session = d.session /\ e.service = d.service
  BY <1>1, <1>2, <1>4 DEF DeviceType
<1>6. DeviceInv(e)
  BY <1>3, <1>5 DEF DeviceInv, Wrote, journal
<1>7. QED
  BY <1>5, <1>6 DEF journal, Wrote

\* METADATA_APPEND_RECORD writes its record or changes nothing, and is a step of
\* the image's lifecycle.
LEMMA AppendEffect ==
  ASSUME NEW d, DeviceInv(d), NEW q, q.command = "METADATA_APPEND_RECORD",
         q.type \in RecordTypes, q.image \in Images, NEW fault, NEW r, r = Respond(d, q, fault)
  PROVE  /\ DeviceInv(r.device)
         /\ r.device.flash = d.flash /\ r.device.session = d.session
         /\ r.device.service = d.service
         /\ LifecycleStep(Summary(d), Summary(r.device))
         /\ \/ r.device.journal = d.journal
            \/ Wrote(d, r.device, q.type, q.image)
         /\ r.device = d \/ q.type = "IMAGE_VALID" \/ q.image = Summary(d).image
         /\ r.device = d \/ Wrote(d, r.device, q.type, q.image)
         /\ r.status = "OK" /\ (q.type = "IMAGE_VALID" \/ ~Summary(d).confirmed) =>
              Wrote(d, r.device, q.type, q.image)
<1>1. PICK type \in RecordTypes, image \in Images : type = q.type /\ image = q.image
  OBVIOUS
<1> DEFINE s == Summary(d)
           e == r.device
<1>2. d \in DeviceType /\ d.journal \in Seq(Records) /\ HasLatest(d.journal)
  BY DEF DeviceInv, DeviceType
<1> SUFFICES /\ DeviceInv(e) /\ e.flash = d.flash /\ e.session = d.session
             /\ e.service = d.service
             /\ LifecycleStep(s, Summary(e))
             /\ \/ e.journal = d.journal
                \/ Wrote(d, e, type, image)
             /\ e = d \/ type = "IMAGE_VALID" \/ image = s.image
             /\ e = d \/ Wrote(d, e, type, image)
             /\ r.status = "OK" /\ (type = "IMAGE_VALID" \/ ~s.confirmed) =>
                  Wrote(d, e, type, image)
  BY <1>1
<1> HIDE DEF s, e
<1>3. CASE e = d /\ (r.status = "OK" => type # "IMAGE_VALID" /\ s.confirmed)
  BY <1>3 DEF LifecycleStep, s
<1>4. CASE /\ type = "IMAGE_VALID" /\ Len(d.journal) # RecordCount
           /\ e = PutValid(d, image)
  <2>1. Wrote(d, e, type, image) /\ Wrote(d, e, "IMAGE_VALID", image)
    BY <1>2, <1>4 DEF PutValid, WriteRecord, DeviceType, Wrote
  <2>2. /\ HasLatest(e.journal)
        /\ Summary(e).image = image /\ Summary(e).attempts = 0 /\ Summary(e).confirmed = FALSE
    BY <2>1, PublishedSummary
  <2>3. /\ DeviceInv(e) /\ e.flash = d.flash /\ e.session = d.session /\ e.service = d.service
    BY <1>4, <2>2, WithRecord
  <2>4. QED
    BY <1>4, <2>1, <2>2, <2>3 DEF LifecycleStep
<1>5. CASE /\ type \in {"BOOT_ATTEMPT", "APP_CONFIRMED"} /\ Len(d.journal) # RecordCount
           /\ e = WriteRecord(d, type, image)
           /\ s.image = image /\ ~s.confirmed
           /\ type = "APP_CONFIRMED" => s.attempts # 0
           /\ type = "BOOT_ATTEMPT" => ~(s.attempts >= AttemptLimit)
  <2>1. Wrote(d, e, type, image) /\ Wrote(d, e, type, Summary(d).image)
    BY <1>2, <1>5 DEF s, Wrote
  <2>2. /\ HasLatest(e.journal) /\ Summary(e).image = s.image
        /\ Summary(e).attempts = IF type = "BOOT_ATTEMPT" THEN s.attempts + 1 ELSE s.attempts
        /\ Summary(e).confirmed = (type = "APP_CONFIRMED" \/ s.confirmed)
    BY <1>5, <2>1, CountedSummary DEF s
  <2>3. /\ DeviceInv(e) /\ e.flash = d.flash /\ e.session = d.session /\ e.service = d.service
    BY <1>5, <2>2, WithRecord
  <2>4. s.attempts \in Nat /\ s.image # None
    BY <1>2, <1>5, SummaryFields, SimulatorAssumption DEF None, s
  <2>5. CASE type = "BOOT_ATTEMPT"
    <3>1. s.attempts < AttemptLimit
      BY <1>5, <2>4, <2>5, SimulatorAssumption
    <3>2. LifecycleStep(s, Summary(e))
      <4>1. s.confirmed = FALSE
        BY <1>2, <1>5, SummaryFields DEF s
      <4>2. QED
        BY <1>5, <2>2, <2>4, <2>5, <3>1, <4>1 DEF LifecycleStep
    <3>3. QED
      BY <1>5, <2>1, <2>3, <3>2
  <2>6. CASE type = "APP_CONFIRMED"
    <3>1. s.attempts > 0
      BY <1>5, <2>4, <2>6
    <3>2. LifecycleStep(s, Summary(e))
      BY <1>5, <2>2, <2>4, <2>6, <3>1 DEF LifecycleStep
    <3>3. QED
      BY <1>5, <2>1, <2>3, <3>2
  <2>7. QED
    BY <1>5, <2>5, <2>6
<1>6. \/ r = Fail(d, "UNSUPPORTED_FEATURE")
      \/ type = "IMAGE_VALID" /\ r = AppendImageValid(d, image)
      \/ type # "IMAGE_VALID" /\ r = AppendCurrent(d, type, image)
  BY <1>1 DEF Respond, Reads
<1>7. CASE r = Fail(d, "UNSUPPORTED_FEATURE")
  BY <1>1, <1>3, <1>7 DEF Fail, e
<1>8. CASE type = "IMAGE_VALID" /\ r = AppendImageValid(d, image)
  <2>1. \/ r = Fail(d, "INVALID_STATE")
        \/ r = Fail(d, "METADATA_FULL")
        \/ Len(d.journal) # RecordCount /\ r = OK(PutValid(d, image))
    BY <1>8 DEF AppendImageValid, PutValid
  <2>2. \/ e = d /\ r.status # "OK"
        \/ Len(d.journal) # RecordCount /\ e = PutValid(d, image)
    BY <1>1, <2>1 DEF Fail, OK, e
  <2>3. QED
    BY <1>3, <1>4, <1>8, <2>2
<1>9. CASE type # "IMAGE_VALID" /\ r = AppendCurrent(d, type, image)
  <2>1. \/ \E status : status # "OK" /\ r = Fail(d, status)
        \/ s.confirmed /\ r = OK(d)
        \/ /\ Len(d.journal) # RecordCount /\ r = OK(WriteRecord(d, type, image))
           /\ s.image = image /\ ~s.confirmed
           /\ type = "APP_CONFIRMED" => s.attempts # 0
           /\ type = "BOOT_ATTEMPT" => ~(s.attempts >= AttemptLimit)
    <3>1. image # None
      BY SimulatorAssumption DEF None
    <3>2. QED
      BY <1>9, <3>1 DEF AppendCurrent, s
  <2>2. \/ e = d /\ (r.status = "OK" => s.confirmed)
        \/ /\ Len(d.journal) # RecordCount /\ e = WriteRecord(d, type, image)
           /\ s.image = image /\ ~s.confirmed
           /\ type = "APP_CONFIRMED" => s.attempts # 0
           /\ type = "BOOT_ATTEMPT" => ~(s.attempts >= AttemptLimit)
    BY <1>1, <2>1 DEF Fail, OK, e
  <2>3. type \in {"BOOT_ATTEMPT", "APP_CONFIRMED"}
    BY <1>9 DEF RecordTypes
  <2>4. QED
    BY <1>3, <1>5, <1>9, <2>2, <2>3
<1>10. QED
  BY <1>6, <1>7, <1>8, <1>9

\* A packet or an END without a BEGIN, and a record that names no image.
LEMMA MissingBeginEffect ==
  ASSUME NEW d, DeviceInv(d), NEW q, q.command \in {"DATA", "END"}, q.type \in Transfers,
         d.session[q.type] = NoSession, NEW fault, NEW r, r = Respond(d, q, fault)
  PROVE  DeviceInv(r.device) /\ SameStore(d, r.device) /\ r.status # "OK"
<1>1. \/ r.device = d /\ r.status = "UNSUPPORTED_FEATURE"
      \/ r = Dropped(d, q.type, "MISSING_BEGIN")
  BY DEF Respond, Data, End, Reads, Fail
<1>2. CASE r.device = d /\ r.status = "UNSUPPORTED_FEATURE" BY <1>2 DEF SameStore
<1>3. CASE r = Dropped(d, q.type, "MISSING_BEGIN")
  BY <1>3, DroppedEffect
<1> QED BY <1>1, <1>2, <1>3

LEMMA NamelessRecord ==
  ASSUME NEW d, NEW q, q.command = "METADATA_APPEND_RECORD", q.type \in RecordTypes,
         q.type # "IMAGE_VALID", q.image = None, NEW fault, NEW r, r = Respond(d, q, fault)
  PROVE  r.device = d
<1>1. r = Fail(d, "UNSUPPORTED_FEATURE") \/ r = AppendCurrent(d, q.type, None)
  BY DEF Respond, Reads
<1>2. r = AppendCurrent(d, q.type, None) => r = OK(d) \/ \E status : r = Fail(d, status)
  BY DEF AppendCurrent
<1> QED BY <1>1, <1>2 DEF OK, Fail

LEMMA RunEffect ==
  ASSUME NEW d, DeviceInv(d), NEW q, q.command = "RUN", q.type = "none", NEW fault, NEW r,
         r = Respond(d, q, fault), r.status = "OK"
  PROVE  Summary(d).confirmed \/ Summary(d).attempts > 0
<1>1. r = Run(d, q.image, fault) BY DEF Respond, Reads, Fail, NeedsService
<1>2. ~(~Summary(d).confirmed /\ Summary(d).attempts = 0) BY <1>1 DEF Run, Fail
<1>3. Summary(d).attempts \in Nat BY SummaryFields DEF DeviceInv, DeviceType
<1> QED BY <1>2, <1>3

=============================================================================
