------------------------ MODULE FlashServiceProofs -------------------------
(***************************************************************************)
(* What TLAPS proves of the flash service for every number of slots, units *)
(* and sectors, every set of images and every combination of faults.  The  *)
(* first part is about the journal as data: what one append does to a      *)
(* journal that is in order.  The last one is about the scan: the service  *)
(* takes it as one step that yields Summary, and the two loops of the code *)
(* compute just that.                                                      *)
(***************************************************************************)
EXTENDS FlashService, MetadataScanLoop, FiniteSetTheorems, TLAPS

USE RecordCountAssumption, AttemptLimitAssumption, NoImageAssumption

(***************************************************************************)
(* A non-empty set of natural numbers has a least element, and a greatest  *)
(* one when it is bounded.                                                 *)
(***************************************************************************)
LEMMA LeastElement ==
  ASSUME NEW T \in SUBSET Nat, T # {}
  PROVE  \E m \in T : \A n \in T : m <= n
<1>1. PICK m \in T : \A n \in T : ~(<<n, m>> \in OpToRel(<, Nat))
  BY WFMin, NatLessThanWellFounded
<1>2. \A n \in T : ~(n < m)
  BY <1>1 DEF OpToRel
<1> QED
  BY <1>2

LEMMA GreatestElement ==
  ASSUME NEW T \in SUBSET Nat, T # {}, NEW b \in Nat, \A n \in T : n <= b
  PROVE  \E m \in T : \A n \in T : n <= m
<1> DEFINE U == {u \in Nat : \A n \in T : n <= u}
<1>1. U \in SUBSET Nat /\ U # {}
  OBVIOUS
<1>2. PICK m \in U : \A n \in U : m <= n
  BY <1>1, LeastElement
<1>3. m \in T
  <2>1. SUFFICES ASSUME m \notin T PROVE FALSE
    OBVIOUS
  <2>2. \A n \in T : n <= m - 1
    BY <2>1
  <2>3. PICK n \in T : n \in Nat /\ n <= m - 1
    BY <2>2
  <2>4. m - 1 \in Nat
    BY <2>3
  <2> QED
    BY <1>2, <2>2, <2>4
<1> QED
  BY <1>3

-----------------------------------------------------------------------------
(***************************************************************************)
(* The slot an append writes: the first erased one.                        *)
(***************************************************************************)
LEMMA FirstErased ==
  ASSUME NEW j, NextRecordIndex(j) # InvalidIndex
  PROVE  /\ NextRecordIndex(j) \in Indexes
         /\ IsErased(j[NextRecordIndex(j)])
         /\ \A k \in Indexes : k < NextRecordIndex(j) => ~IsErased(j[k])
<1>1. ErasedIndexes(j) # {} /\ ErasedIndexes(j) \in SUBSET Nat
  BY DEF NextRecordIndex, ErasedIndexes, Indexes
<1>2. \E i \in ErasedIndexes(j) : \A k \in ErasedIndexes(j) : i <= k
  BY <1>1, LeastElement
<1>3. /\ NextRecordIndex(j) \in ErasedIndexes(j)
      /\ \A k \in ErasedIndexes(j) : NextRecordIndex(j) <= k
  BY <1>1, <1>2 DEF NextRecordIndex
<1> QED
  BY <1>3 DEF ErasedIndexes, Indexes

(***************************************************************************)
(* The latest sequence is the largest one in the journal.                  *)
(***************************************************************************)
LEMMA LatestIsLargest ==
  ASSUME NEW j \in [Indexes -> Slots], RecordIndexes(j) # {}
  PROVE  \E i \in RecordIndexes(j) :
           /\ LatestSequence(j) = j[i].sequence
           /\ \A k \in RecordIndexes(j) : j[k].sequence <= LatestSequence(j)
<1> DEFINE T == {j[i].sequence : i \in RecordIndexes(j)}
<1>1. \A i \in RecordIndexes(j) : j[i].sequence \in 1 .. RecordCount
  BY DEF RecordIndexes, IsRecord, RecordTypes, Slots, Erased, Invalid
<1>2. T \in SUBSET Nat /\ T # {} /\ \A n \in T : n <= RecordCount
  BY <1>1
<1>3. \E m \in T : \A n \in T : n <= m
  BY <1>2, GreatestElement
<1>4. \E m \in T : \A i \in RecordIndexes(j) : j[i].sequence <= m
  BY <1>3
<1>5. /\ LatestSequence(j) \in T
      /\ \A i \in RecordIndexes(j) : j[i].sequence <= LatestSequence(j)
  BY <1>4 DEF LatestSequence
<1> QED
  BY <1>5

(***************************************************************************)
(* The current image record carries the largest sequence of its type.      *)
(***************************************************************************)
LEMMA ImageIsNewest ==
  ASSUME NEW j \in [Indexes -> Slots], ImageIndexes(j) # {}
  PROVE  /\ ImageIndex(j) \in ImageIndexes(j)
         /\ \A k \in ImageIndexes(j) : j[k].sequence <= j[ImageIndex(j)].sequence
<1> DEFINE T == {j[i].sequence : i \in ImageIndexes(j)}
<1>1. \A i \in ImageIndexes(j) : j[i].sequence \in 1 .. RecordCount
  BY DEF ImageIndexes, IsImageValid, RecordTypes, Slots, Erased, Invalid
<1>2. T \in SUBSET Nat /\ T # {} /\ \A n \in T : n <= RecordCount
  BY <1>1
<1>3. \E m \in T : \A n \in T : n <= m
  BY <1>2, GreatestElement
<1>4. \E i \in ImageIndexes(j) :
        \A k \in ImageIndexes(j) : j[k].sequence <= j[i].sequence
  BY <1>3
<1> QED
  BY <1>4 DEF ImageIndex

\* The identity of the current image is one that a record may carry.
LEMMA CurrentImageType ==
  ASSUME NEW j \in [Indexes -> Slots], MetadataValid(j)
  PROVE  CurrentImage(j) \in Images
<1>1. ImageIndex(j) \in ImageIndexes(j)
  BY ImageIsNewest DEF MetadataValid
<1> QED
  BY <1>1 DEF CurrentImage, ImageIndexes, IsImageValid, Slots, Erased, Invalid

\* An ordered journal repeats no sequence number.
LEMMA OrderedHasNoDuplicate ==
  ASSUME NEW j \in [Indexes -> Slots], SequencesGrow(j)
  PROVE  ~DuplicateSequence(j)
<1>1. \A i \in RecordIndexes(j) : i \in Int /\ j[i].sequence \in Int
  BY DEF RecordIndexes, Indexes, IsRecord, RecordTypes, Slots, Erased, Invalid
<1> QED
  BY <1>1 DEF SequencesGrow, DuplicateSequence

-----------------------------------------------------------------------------
(***************************************************************************)
(* An append leaves the journal in order, whether the record is complete,  *)
(* torn or missing.                                                        *)
(***************************************************************************)
Writable(j) ==
  {Erased, Invalid} \cup
  {Record(type, NextSequence(j), image) : type \in RecordTypes, image \in Images}

\* The next number exceeds every number in the journal and fits the slot.
LEMMA NextSequenceIsNew ==
  ASSUME NEW j \in [Indexes -> Slots], OrderedJournal(j),
         NextRecordIndex(j) # InvalidIndex
  PROVE  /\ NextSequence(j) \in 1 .. NextRecordIndex(j) + 1
         /\ \A k \in RecordIndexes(j) :
              j[k].sequence < NextSequence(j) /\ k < NextRecordIndex(j)
<1>1. NextRecordIndex(j) \in Indexes /\ IsErased(j[NextRecordIndex(j)])
  BY FirstErased
<1>2. \A k \in RecordIndexes(j) :
        k \in Indexes /\ ~IsErased(j[k]) /\ j[k].sequence \in 1 .. RecordCount
  BY DEF RecordIndexes, IsRecord, IsErased, RecordTypes, Slots, Erased, Invalid
<1>3. \A k \in RecordIndexes(j) : k < NextRecordIndex(j)
  BY <1>1, <1>2 DEF OrderedJournal, ErasedSlotsLast, Indexes
<1>4. CASE RecordIndexes(j) = {}
  BY <1>1, <1>4 DEF NextSequence, Indexes
<1>5. CASE RecordIndexes(j) # {}
  <2>1. PICK i \in RecordIndexes(j) :
          /\ LatestSequence(j) = j[i].sequence
          /\ \A k \in RecordIndexes(j) : j[k].sequence <= LatestSequence(j)
    BY <1>5, LatestIsLargest
  <2>2. j[i].sequence <= i + 1 /\ i < NextRecordIndex(j)
    BY <1>3 DEF OrderedJournal, SequencesBounded
  <2>3. NextSequence(j) = j[i].sequence + 1
    BY <2>1, <1>5 DEF NextSequence
  <2> QED
    BY <1>1, <1>2, <1>3, <2>1, <2>2, <2>3 DEF Indexes
<1> QED
  BY <1>4, <1>5

LEMMA AppendKeepsOrder ==
  ASSUME NEW j \in [Indexes -> Slots], OrderedJournal(j),
         NextRecordIndex(j) # InvalidIndex, NEW x \in Writable(j)
  PROVE  Appended(j, x) \in [Indexes -> Slots] /\ OrderedJournal(Appended(j, x))
<1> DEFINE n == NextRecordIndex(j)
           a == Appended(j, x)
<1>1. /\ n \in Indexes /\ IsErased(j[n])
      /\ \A k \in Indexes : k < n => ~IsErased(j[k])
  BY FirstErased
<1>2. /\ NextSequence(j) \in 1 .. n + 1
      /\ \A k \in RecordIndexes(j) : j[k].sequence < NextSequence(j) /\ k < n
  BY NextSequenceIsNew
<1>3. NextSequence(j) \in 1 .. RecordCount
  BY <1>1, <1>2 DEF Indexes
<1>4. x \in Slots /\ (IsRecord(x) => x.sequence = NextSequence(j))
  BY <1>3 DEF Writable, Record, Slots, IsRecord, RecordTypes, Erased, Invalid
<1>5. /\ a \in [Indexes -> Slots] /\ a[n] = x
      /\ \A k \in Indexes : k # n => a[k] = j[k]
  BY <1>1, <1>4 DEF Appended
<1>6. ErasedSlotsLast(a)
  BY <1>1, <1>5 DEF OrderedJournal, ErasedSlotsLast, Indexes
<1>7. \A k \in RecordIndexes(a) :
        k \in RecordIndexes(j) \/ (k = n /\ a[k].sequence = NextSequence(j))
  BY <1>4, <1>5 DEF RecordIndexes
<1>8. \A k \in RecordIndexes(j) : k \in Indexes /\ a[k] = j[k]
  BY <1>1, <1>5 DEF RecordIndexes, IsRecord, IsErased, RecordTypes
<1>9. SequencesGrow(a)
  BY <1>1, <1>2, <1>7, <1>8 DEF OrderedJournal, SequencesGrow, Indexes
<1>10. SequencesBounded(a)
  BY <1>1, <1>2, <1>7, <1>8 DEF OrderedJournal, SequencesBounded, Indexes
<1> QED
  BY <1>5, <1>6, <1>9, <1>10 DEF OrderedJournal

\* A journal sector that is erased, or unreadable throughout, is in order and
\* names no image.
LEMMA UniformJournal ==
  ASSUME NEW x \in {Erased, Invalid}
  PROVE  LET j == [i \in Indexes |-> x] IN
         /\ j \in [Indexes -> Slots] /\ OrderedJournal(j)
         /\ CurrentImage(j) = NoImage
         /\ BootAttemptCount(j) = 0
         /\ AppConfirmed(j) = FALSE
<1> DEFINE j == [i \in Indexes |-> x]
<1>1. j \in [Indexes -> Slots] /\ RecordIndexes(j) = {} /\ ImageIndexes(j) = {}
  BY DEF Slots, RecordIndexes, IsRecord, RecordTypes, ImageIndexes,
         IsImageValid, Erased, Invalid
<1>2. OrderedJournal(j)
  BY <1>1 DEF OrderedJournal, ErasedSlotsLast, SequencesGrow, SequencesBounded
<1>3. ~MetadataValid(j)
  BY <1>1 DEF MetadataValid
<1> QED
  BY <1>1, <1>2, <1>3 DEF CurrentImage, BootAttemptCount, AppConfirmed

-----------------------------------------------------------------------------
(***************************************************************************)
(* What an append changes for a reader of the journal.                     *)
(***************************************************************************)
LEMMA ImageIndexIsUnique ==
  ASSUME NEW j \in [Indexes -> Slots], SequencesGrow(j),
         NEW i \in ImageIndexes(j),
         \A k \in ImageIndexes(j) : j[k].sequence <= j[i].sequence
  PROVE  ImageIndex(j) = i
<1>1. /\ ImageIndex(j) \in ImageIndexes(j)
      /\ j[i].sequence <= j[ImageIndex(j)].sequence
  BY ImageIsNewest
<1>2. \A k \in ImageIndexes(j) :
        k \in RecordIndexes(j) /\ k \in Int /\ j[k].sequence \in Int
  BY DEF ImageIndexes, RecordIndexes, Indexes, IsImageValid, IsRecord,
         RecordTypes, Slots, Erased, Invalid
<1> QED
  BY <1>1, <1>2 DEF SequencesGrow

\* The slot is the only one that changes, and held no record.
LEMMA AppendFrame ==
  ASSUME NEW j \in [Indexes -> Slots], OrderedJournal(j),
         NextRecordIndex(j) # InvalidIndex, NEW x \in Writable(j)
  PROVE  LET n == NextRecordIndex(j)  a == Appended(j, x) IN
         /\ n \in Indexes /\ a[n] = x
         /\ \A k \in Indexes : k # n => a[k] = j[k]
         /\ ImageIndexes(j) = ImageIndexes(a) \ {n}
         /\ \A type \in RecordTypes : j[n].type # type
         /\ SequencesGrow(a) /\ ~DuplicateSequence(a) /\ ~DuplicateSequence(j)
<1> DEFINE n == NextRecordIndex(j)
           a == Appended(j, x)
<1>1. n \in Indexes /\ j[n].type = "ERASED"
  BY FirstErased DEF IsErased
<1>2. a \in [Indexes -> Slots] /\ OrderedJournal(a)
  BY AppendKeepsOrder
<1>3. a[n] = x /\ \A k \in Indexes : k # n => a[k] = j[k]
  BY <1>1 DEF Appended
<1>4. ImageIndexes(j) = ImageIndexes(a) \ {n}
  BY <1>1, <1>3 DEF ImageIndexes, IsImageValid
<1>5. ~DuplicateSequence(a) /\ ~DuplicateSequence(j) /\ SequencesGrow(a)
  BY <1>2, OrderedHasNoDuplicate DEF OrderedJournal
<1> QED
  BY <1>1, <1>3, <1>4, <1>5 DEF RecordTypes

\* A new IMAGE_VALID starts a lifecycle without attempts or confirmation.
LEMMA AppendImageValid ==
  ASSUME NEW j \in [Indexes -> Slots], OrderedJournal(j),
         NextRecordIndex(j) # InvalidIndex, NEW image \in Images
  PROVE  LET a == Appended(j, Record("IMAGE_VALID", NextSequence(j), image)) IN
         /\ CurrentImage(a) = image
         /\ BootAttemptCount(a) = 0
         /\ AppConfirmed(a) = FALSE
<1> DEFINE x == Record("IMAGE_VALID", NextSequence(j), image)
           n == NextRecordIndex(j)
           a == Appended(j, x)
<1>1. x \in Writable(j)
  BY DEF Writable, RecordTypes
<1>2. /\ n \in Indexes /\ a[n] = x
      /\ \A k \in Indexes : k # n => a[k] = j[k]
      /\ SequencesGrow(a) /\ ~DuplicateSequence(a)
  BY <1>1, AppendFrame
<1>3. a \in [Indexes -> Slots]
  BY <1>1, AppendKeepsOrder
<1>4. \A k \in RecordIndexes(j) : j[k].sequence < NextSequence(j)
  BY NextSequenceIsNew
<1>5. /\ NextSequence(j) \in Int
      /\ \A k \in Indexes : j[k].type \in RecordTypes =>
           k \in RecordIndexes(j) /\ j[k].sequence \in Int
  <2>1. NextSequence(j) \in Int
    BY <1>2, NextSequenceIsNew DEF Indexes
  <2> QED
    BY <2>1 DEF RecordIndexes, IsRecord, RecordTypes, Slots, Erased, Invalid
<1>6. n \in ImageIndexes(a)
  BY <1>2 DEF ImageIndexes, IsImageValid, Record
<1>7. \A k \in ImageIndexes(a) : a[k].sequence <= a[n].sequence
  BY <1>2, <1>4, <1>5 DEF ImageIndexes, IsImageValid, RecordTypes, Record
<1>8. ImageIndex(a) = n
  BY <1>2, <1>3, <1>6, <1>7, ImageIndexIsUnique
<1>9. MetadataValid(a) /\ CurrentImage(a) = image
  BY <1>2, <1>6, <1>8 DEF MetadataValid, CurrentImage, Record
<1>10. \A type \in RecordTypes : BoundIndexes(a, type) = {}
  BY <1>2, <1>4, <1>5, <1>8 DEF BoundIndexes, Record
<1> QED
  BY <1>9, <1>10, FS_EmptySet
     DEF BootAttemptCount, AppConfirmed, AttemptIndexes, ConfirmIndexes, RecordTypes

\* Any other append leaves the current image alone, and is counted for it
\* exactly when it is a record of its identity.
LEMMA AppendOther ==
  ASSUME NEW j \in [Indexes -> Slots], OrderedJournal(j),
         NextRecordIndex(j) # InvalidIndex, NEW x \in Writable(j),
         x.type # "IMAGE_VALID"
  PROVE  LET a == Appended(j, x) IN
         /\ MetadataValid(a) = MetadataValid(j)
         /\ CurrentImage(a) = CurrentImage(j)
         /\ MetadataValid(j) =>
              /\ ImageValidSequence(a) = ImageValidSequence(j)
              /\ \A type \in RecordTypes :
                   BoundIndexes(a, type) =
                     IF x.type = type /\ x.image = CurrentImage(j)
                     THEN BoundIndexes(j, type) \cup {NextRecordIndex(j)}
                     ELSE BoundIndexes(j, type)
<1> DEFINE n == NextRecordIndex(j)
           a == Appended(j, x)
<1>1. /\ n \in Indexes /\ a[n] = x
      /\ \A k \in Indexes : k # n => a[k] = j[k]
      /\ ImageIndexes(j) = ImageIndexes(a) \ {n}
      /\ \A type \in RecordTypes : j[n].type # type
      /\ SequencesGrow(a) /\ ~DuplicateSequence(a) /\ ~DuplicateSequence(j)
  BY AppendFrame
<1>2. a \in [Indexes -> Slots]
  BY AppendKeepsOrder
<1>3. ImageIndexes(a) = ImageIndexes(j)
  BY <1>1 DEF ImageIndexes, IsImageValid
<1>4. MetadataValid(a) = MetadataValid(j)
  BY <1>1, <1>3 DEF MetadataValid
<1>5. ASSUME MetadataValid(j)
      PROVE  /\ ImageIndex(a) = ImageIndex(j)
             /\ ImageIndex(j) \in Indexes /\ ImageIndex(j) # n
             /\ ImageIndex(j) \in RecordIndexes(j)
  <2>1. /\ ImageIndex(j) \in ImageIndexes(j)
        /\ \A k \in ImageIndexes(j) : j[k].sequence <= j[ImageIndex(j)].sequence
    BY <1>5, ImageIsNewest DEF MetadataValid
  <2>2. \A k \in ImageIndexes(j) : a[k] = j[k] /\ k \in Indexes /\ k # n
    BY <1>1 DEF ImageIndexes
  <2>3. ImageIndex(a) = ImageIndex(j)
    BY <1>1, <1>2, <1>3, <2>1, <2>2, ImageIndexIsUnique
  <2>4. ImageIndex(j) \in RecordIndexes(j)
    BY <2>1 DEF ImageIndexes, RecordIndexes, IsImageValid, IsRecord, RecordTypes
  <2> QED
    BY <2>1, <2>2, <2>3, <2>4
<1>6. CurrentImage(a) = CurrentImage(j)
  BY <1>1, <1>4, <1>5 DEF CurrentImage
<1>7. ASSUME MetadataValid(j)
      PROVE  ImageValidSequence(a) = ImageValidSequence(j)
  BY <1>1, <1>4, <1>5, <1>7 DEF ImageValidSequence
<1>8. ASSUME MetadataValid(j), NEW type \in RecordTypes
      PROVE  BoundIndexes(a, type) =
               IF x.type = type /\ x.image = CurrentImage(j)
               THEN BoundIndexes(j, type) \cup {n} ELSE BoundIndexes(j, type)
  <2> DEFINE m == ImageIndex(j)
  <2>1. ImageIndex(a) = m /\ m \in Indexes /\ m # n /\ a[m] = j[m]
    BY <1>1, <1>5, <1>8
  <2>2. j[m].sequence < NextSequence(j)
    BY <1>5, <1>8, NextSequenceIsNew
  <2>3. x.type = type => x.sequence = NextSequence(j)
    BY DEF Writable, Erased, Invalid, RecordTypes, Record
  <2>4. n \notin BoundIndexes(j, type)
    BY <1>1 DEF BoundIndexes
  <2>5. n \in BoundIndexes(a, type) <=> x.type = type /\ x.image = j[m].image
    BY <1>1, <2>1, <2>2, <2>3 DEF BoundIndexes
  <2>6. \A k \in Indexes : k # n =>
          (k \in BoundIndexes(a, type) <=> k \in BoundIndexes(j, type))
    BY <1>1, <2>1 DEF BoundIndexes
  <2>7. BoundIndexes(a, type) \subseteq Indexes /\ BoundIndexes(j, type) \subseteq Indexes
    BY DEF BoundIndexes
  <2>8. CurrentImage(j) = j[m].image
    BY <1>8 DEF CurrentImage
  <2> QED
    BY <1>1, <2>4, <2>5, <2>6, <2>7, <2>8
<1> QED
  BY <1>4, <1>6, <1>7, <1>8

\* The same in the terms of the summary, for each kind of append.
LEMMA FiniteBound ==
  ASSUME NEW j, NEW type
  PROVE  /\ IsFiniteSet(BoundIndexes(j, type))
         /\ Cardinality(BoundIndexes(j, type)) \in Nat
<1>1. IsFiniteSet(Indexes)
  BY FS_Interval DEF Indexes
<1>2. BoundIndexes(j, type) \in SUBSET Indexes
  BY DEF BoundIndexes
<1> QED
  BY <1>1, <1>2, FS_Subset, FS_CardinalityType

LEMMA AppendTorn ==
  ASSUME NEW j \in [Indexes -> Slots], OrderedJournal(j),
         NextRecordIndex(j) # InvalidIndex, NEW x \in {Erased, Invalid}
  PROVE  LET a == Appended(j, x) IN
         /\ CurrentImage(a) = CurrentImage(j)
         /\ BootAttemptCount(a) = BootAttemptCount(j)
         /\ AppConfirmed(a) = AppConfirmed(j)
<1> DEFINE a == Appended(j, x)
<1>1. x \in Writable(j) /\ x.type \notin RecordTypes /\ x.type # "IMAGE_VALID"
  BY DEF Writable, Erased, Invalid, RecordTypes
<1>2. /\ MetadataValid(a) = MetadataValid(j)
      /\ CurrentImage(a) = CurrentImage(j)
      /\ MetadataValid(j) => \A type \in RecordTypes :
           BoundIndexes(a, type) = BoundIndexes(j, type)
  BY <1>1, AppendOther
<1> QED
  BY <1>2 DEF BootAttemptCount, AppConfirmed, AttemptIndexes, ConfirmIndexes,
              RecordTypes

LEMMA AppendBootAttempt ==
  ASSUME NEW j \in [Indexes -> Slots], OrderedJournal(j),
         NextRecordIndex(j) # InvalidIndex, MetadataValid(j)
  PROVE  LET a == Appended(j, Record("BOOT_ATTEMPT", NextSequence(j), CurrentImage(j))) IN
         /\ CurrentImage(a) = CurrentImage(j)
         /\ BootAttemptCount(a) = BootAttemptCount(j) + 1
         /\ AppConfirmed(a) = AppConfirmed(j)
<1> DEFINE x == Record("BOOT_ATTEMPT", NextSequence(j), CurrentImage(j))
           a == Appended(j, x)
           n == NextRecordIndex(j)
<1>1. /\ x \in Writable(j) /\ x.type = "BOOT_ATTEMPT" /\ x.image = CurrentImage(j)
  BY CurrentImageType DEF Writable, RecordTypes, Record
<1>2. /\ MetadataValid(a) /\ CurrentImage(a) = CurrentImage(j)
      /\ AttemptIndexes(a) = AttemptIndexes(j) \cup {n}
      /\ ConfirmIndexes(a) = ConfirmIndexes(j)
  BY <1>1, AppendOther DEF AttemptIndexes, ConfirmIndexes, RecordTypes
<1>3. n \notin AttemptIndexes(j)
  BY <1>1, AppendFrame DEF AttemptIndexes, BoundIndexes, RecordTypes
<1>4. IsFiniteSet(AttemptIndexes(j))
  BY FiniteBound DEF AttemptIndexes
<1>5. Cardinality(AttemptIndexes(a)) = Cardinality(AttemptIndexes(j)) + 1
  BY <1>2, <1>3, <1>4, FS_AddElement
<1> QED
  BY <1>2, <1>5 DEF BootAttemptCount, AppConfirmed

LEMMA AppendAppConfirmed ==
  ASSUME NEW j \in [Indexes -> Slots], OrderedJournal(j),
         NextRecordIndex(j) # InvalidIndex, MetadataValid(j)
  PROVE  LET a == Appended(j, Record("APP_CONFIRMED", NextSequence(j), CurrentImage(j))) IN
         /\ CurrentImage(a) = CurrentImage(j)
         /\ BootAttemptCount(a) = BootAttemptCount(j)
         /\ AppConfirmed(a) = TRUE
<1> DEFINE x == Record("APP_CONFIRMED", NextSequence(j), CurrentImage(j))
           a == Appended(j, x)
           n == NextRecordIndex(j)
<1>1. /\ x \in Writable(j) /\ x.type = "APP_CONFIRMED" /\ x.image = CurrentImage(j)
  BY CurrentImageType DEF Writable, RecordTypes, Record
<1>2. /\ MetadataValid(a) /\ CurrentImage(a) = CurrentImage(j)
      /\ AttemptIndexes(a) = AttemptIndexes(j)
      /\ ConfirmIndexes(a) = ConfirmIndexes(j) \cup {n}
  BY <1>1, AppendOther DEF AttemptIndexes, ConfirmIndexes, RecordTypes
<1> QED
  BY <1>2 DEF BootAttemptCount, AppConfirmed

-----------------------------------------------------------------------------
(* The service. *)

USE GeometryAssumption, ContentAssumption, FaultsAssumption

-----------------------------------------------------------------------------
(***************************************************************************)
(* Every step changes the journal in one of three ways.                    *)
(***************************************************************************)
SectorStep == WholeSector(slots')

AppendStep ==
  \E type \in RecordTypes, image \in Images \cup {BadImage, NoImage} :
    /\ AppendStatus(type, image) = "OK"
    /\ \E x \in {Erased, Invalid, Record(type, NextSequence(slots), image)} :
         slots' = Appended(slots, x)

JournalStep == slots' = slots \/ SectorStep \/ AppendStep

LEMMA StoppedEraseStep ==
  ASSUME NEW mask, NEW s, NEW left \in {"kept", "erased", "scrambled"},
         StoppedErase(mask, s, left)
  PROVE  JournalStep
  BY DEF StoppedErase, EraseSlots, JournalStep, SectorStep, WholeSector

LEMMA CurrentImageRange ==
  ASSUME TypeOK
  PROVE  CurrentImage(slots) \in Images \cup {NoImage}
  BY CurrentImageType DEF TypeOK, CurrentImage

LEMMA EveryJournalStep ==
  ASSUME TypeOK, [Next]_vars
  PROVE  JournalStep
<1>1. ASSUME NEW mask \in Masks, HandleErase(mask)
      PROVE  JournalStep
  BY <1>1, StoppedEraseStep
     DEF HandleErase, Malformed, EraseRefused, EraseInitFails, EraseForbidden,
         EraseFails, EraseDone, Refuse, InitFails, EraseSlots, JournalStep,
         SectorStep, WholeSector, flash
<1>2. ASSUME NEW op \in Operations, HandleBegin(op) \/ HandleData(op) \/ HandleEnd(op)
      PROVE  JournalStep
  BY <1>2 DEF HandleBegin, BeginBusy, BeginMalformed, BeginInitFails, BeginDone,
       HandleData, DataOutOfPlace, DataRefused, ProgramDataDone, ProgramDataFails,
       VerifyDataDone, VerifyDataMismatch, HandleEnd, EndOutOfPlace, EndMalformed,
       EndMismatch, EndDone, Refuse, InitFails, JournalStep, flash
<1>3. ASSUME NEW type \in RecordTypes, NEW image \in Images \cup {BadImage, NoImage},
             AppendRecord(type, image)
      PROVE  JournalStep
  BY <1>3 DEF AppendRecord, AppendRefused, AppendInitFails, AppendFails, AppendDone,
       StoppedAppend, WriteSlot, InitFails, JournalStep, AppendStep, flash
<1>4. ASSUME NEW type \in RecordTypes, NEW image \in Images \cup {BadImage},
             HandleMetadataAppendRecord(type, image)
      PROVE  JournalStep
  BY <1>3, <1>4 DEF HandleMetadataAppendRecord, Malformed, Refuse, JournalStep, flash
<1>5. ASSUME ConfirmCurrentImage
      PROVE  JournalStep
  BY <1>3, <1>5, CurrentImageRange DEF ConfirmCurrentImage, RecordTypes
<1>6. ASSUME Uninitialised \/ PowerLoss \/ \E accepted \in BOOLEAN : BootInit(accepted)
      PROVE  JournalStep
  BY <1>6 DEF Uninitialised, Refuse, PowerLoss, BootInit, JournalStep, flash
<1>7. ASSUME NEW mask \in Masks, PowerLossInErase(mask)
      PROVE  JournalStep
  BY <1>7, StoppedEraseStep DEF PowerLossInErase
<1>8. ASSUME NEW packet \in Packets, PowerLossInProgram(packet)
      PROVE  JournalStep
  BY <1>8 DEF PowerLossInProgram, JournalStep
<1>9. ASSUME NEW type \in RecordTypes, NEW image \in Images, PowerLossInAppend(type, image)
      PROVE  JournalStep
  BY <1>9 DEF PowerLossInAppend, StoppedAppend, WriteSlot, JournalStep, AppendStep
<1>10. CASE UNCHANGED vars
  BY <1>10 DEF vars, JournalStep
<1> QED
  BY <1>1, <1>2, <1>4, <1>5, <1>6, <1>7, <1>8, <1>9, <1>10
     DEF Next, Commands, Interruptions

(***************************************************************************)
(* What the first scan of an append has established when it admits one.    *)
(***************************************************************************)
LEMMA AppendAdmitted ==
  ASSUME TypeOK, NEW type \in RecordTypes, NEW image, AppendStatus(type, image) = "OK"
  PROVE  /\ NextRecordIndex(slots) # InvalidIndex
         /\ image \in Images
         /\ type # "IMAGE_VALID" =>
              /\ MetadataValid(slots)
              /\ image = CurrentImage(slots)
              /\ ~AppConfirmed(slots)
         /\ type = "BOOT_ATTEMPT" => ~(BootAttemptCount(slots) >= AttemptLimit)
         /\ type = "APP_CONFIRMED" => BootAttemptCount(slots) # 0
<1>1. CASE type = "IMAGE_VALID"
  BY <1>1 DEF AppendStatus, ImageValidStatus
<1>2. CASE type = "BOOT_ATTEMPT"
  BY <1>2, CurrentImageType DEF AppendStatus, BootAttemptStatus, TypeOK
<1>3. CASE type = "APP_CONFIRMED"
  BY <1>3, CurrentImageType DEF AppendStatus, AppConfirmedStatus, TypeOK
<1> QED
  BY <1>1, <1>2, <1>3 DEF RecordTypes

-----------------------------------------------------------------------------
(***************************************************************************)
(* The inductive invariant.  TypeOK alone is not inductive: that a new     *)
(* sequence number fits the bound needs the order of the journal.          *)
(***************************************************************************)
IInv == TypeOK /\ JournalOrdered

LEMMA JournalStepKeepsOrder ==
  ASSUME IInv, JournalStep
  PROVE  slots' \in [Indexes -> Slots] /\ OrderedJournal(slots')
<1>1. slots \in [Indexes -> Slots] /\ OrderedJournal(slots)
  BY DEF IInv, TypeOK, JournalOrdered
<1>2. CASE slots' = slots
  BY <1>1, <1>2
<1>3. CASE SectorStep
  BY <1>3, UniformJournal DEF SectorStep, WholeSector
<1>4. CASE AppendStep
  <2>1. PICK type \in RecordTypes, image \in Images \cup {BadImage, NoImage} :
          /\ AppendStatus(type, image) = "OK"
          /\ \E x \in {Erased, Invalid, Record(type, NextSequence(slots), image)} :
               slots' = Appended(slots, x)
    BY <1>4 DEF AppendStep
  <2>2. NextRecordIndex(slots) # InvalidIndex /\ image \in Images
    BY <2>1, AppendAdmitted DEF IInv
  <2>3. PICK x \in Writable(slots) : slots' = Appended(slots, x)
    BY <2>1, <2>2 DEF Writable
  <2> QED
    BY <1>1, <2>2, <2>3, AppendKeepsOrder
<1> QED
  BY <1>2, <1>3, <1>4 DEF JournalStep

\* The parts of TypeOK that are not about the journal.
OthersOK ==
  /\ app \in [Units -> Cells]
  /\ initialized \in BOOLEAN
  /\ flash_initialized \in BOOLEAN
  /\ verify_succeeded \in BOOLEAN
  /\ session \in SessionType
  /\ response \in ResponseType
  /\ verified \in ComparedType

LEMMA EmptyValuesTyped ==
  NothingCompared \in ComparedType /\ NoSession \in SessionType /\ NoResponse \in ResponseType
<1>1. NothingCompared \in ComparedType
  BY DEF NothingCompared, ComparedType
<1>2. NoSession \in SessionType
  BY <1>1 DEF NoSession, SessionType
<1>3. NoResponse \in ResponseType
  BY DEF NoResponse, ResponseType
<1> QED
  BY <1>1, <1>2, <1>3

LEMMA EraseKeepsTypes ==
  ASSUME TypeOK, NEW mask \in Masks, HandleErase(mask)
  PROVE  OthersOK'
<1> USE EmptyValuesTyped
<1>1. CASE Malformed("ERASE") \/ EraseRefused(mask) \/ EraseInitFails(mask)
           \/ EraseForbidden(mask)
  <2>1. response' \in ResponseType
    BY <1>1 DEF Malformed, EraseRefused, EraseInitFails, EraseForbidden, Refuse,
         InitFails, Reply, ResponseType
  <2>2. /\ UNCHANGED <<flash, initialized, verify_succeeded, session, verified>>
        /\ flash_initialized' \in {flash_initialized, TRUE}
    BY <1>1 DEF Malformed, EraseRefused, EraseInitFails, EraseForbidden, Refuse,
         InitFails, EnsureFlash
  <2> QED
    BY <2>1, <2>2 DEF TypeOK, OthersOK, flash
<1>2. CASE EraseFails(mask)
  <2>1. app' \in [Units -> Cells]
    BY <1>2 DEF TypeOK, EraseFails, StoppedErase, Cells
  <2>2. session' \in SessionType /\ verified' \in ComparedType
    BY <1>2 DEF TypeOK, EraseFails, NoteFailure, SessionType, ComparedType
  <2> QED
    BY <1>2, <2>1, <2>2 DEF TypeOK, OthersOK, EraseFails, EnsureFlash, Reply, ResponseType
<1>3. CASE EraseDone(mask)
  <2>1. app' \in [Units -> Cells]
    BY <1>3 DEF TypeOK, EraseDone, EraseApp, Cells
  <2> QED
    BY <1>3, <2>1 DEF TypeOK, OthersOK, EraseDone, EnsureFlash, Reply, ResponseType
<1> QED
  BY <1>1, <1>2, <1>3 DEF HandleErase

LEMMA BeginKeepsTypes ==
  ASSUME TypeOK, NEW op \in Operations, HandleBegin(op)
  PROVE  OthersOK'
<1>1. CASE BeginBusy(op) \/ BeginMalformed(op) \/ BeginInitFails(op)
  BY <1>1 DEF TypeOK, OthersOK, BeginBusy, BeginMalformed, BeginInitFails,
       Failed, Refuse, InitFails, Reply, ResponseType, flash
<1>2. ASSUME NEW packets \in 1 .. MaxPackets, NEW units \in 1 .. UnitCount,
             BeginDone(op, packets, units)
      PROVE  OthersOK'
  <2>1. session' \in SessionType
    BY <1>2, EmptyValuesTyped DEF BeginDone, SessionType
  <2> QED
    BY <1>2, <2>1 DEF TypeOK, OthersOK, BeginDone, EnsureFlash, Reply, ResponseType, flash
<1> QED
  BY <1>1, <1>2 DEF HandleBegin

LEMMA EndKeepsTypes ==
  ASSUME TypeOK, NEW op \in Operations, HandleEnd(op)
  PROVE  OthersOK'
<1> USE EmptyValuesTyped
<1>1. CASE EndOutOfPlace(op) \/ EndMalformed(op)
  BY <1>1 DEF TypeOK, OthersOK, EndOutOfPlace, EndMalformed, Refuse, Reply,
       ResponseType, flash
<1>2. ASSUME NEW packets \in 1 .. MaxPackets, NEW units \in 1 .. UnitCount,
             EndMismatch(op, packets, units)
      PROVE  OthersOK'
  BY <1>2 DEF TypeOK, OthersOK, EndMismatch, Reply, ResponseType, flash
<1>3. ASSUME NEW packets \in 1 .. MaxPackets, NEW units \in 1 .. UnitCount,
             EndDone(op, packets, units)
      PROVE  OthersOK'
  <2>1. verified' \in ComparedType
    BY <1>3 DEF TypeOK, EndDone, SessionType
  <2> QED
    BY <1>3, <2>1 DEF TypeOK, OthersOK, EndDone, Reply, ResponseType, flash
<1> QED
  BY <1>1, <1>2, <1>3 DEF HandleEnd

\* The counters stay within the totals, which stay within the bounds.
LEMMA AcceptedTyped ==
  ASSUME TypeOK, NEW packet \in Packets, DataStatus(packet) = "OK",
         NEW comparison \in [Units -> Images \cup {NoImage}],
         Accepted(packet, comparison)
  PROVE  session' \in SessionType
<1>1. /\ session.packets < session.expected_packets
      /\ packet.count <= session.expected_units - session.units
  BY DEF DataStatus, TypeOK, SessionType, Packets
<1>2. /\ session.packets + 1 \in 0 .. MaxPackets
      /\ session.units + packet.count \in 0 .. UnitCount
  BY <1>1 DEF TypeOK, SessionType, Packets
<1>3. [session.compared EXCEPT !.units = comparison] \in ComparedType
  BY DEF TypeOK, SessionType, ComparedType
<1> QED
  BY <1>2, <1>3 DEF Accepted, TypeOK, SessionType

LEMMA StoppedProgramTyped ==
  ASSUME TypeOK, NEW packet \in Packets,
         NEW count \in 0 .. packet.count - 1,
         NEW left \in {"kept", "written", "scrambled"},
         DataStatus(packet) = "OK", StoppedProgram(packet, count, left)
  PROVE  app' \in [Units -> Cells]
<1>1. ProgramUnits(packet, count) \in [Units -> Cells]
  BY DEF TypeOK, ProgramUnits, Programmed, Cells, Packets
<1>2. packet.address + count \in Units
  BY DEF DataStatus, InOneSector, Packets, Units
<1>3. app[packet.address + count] \in Cells
  BY <1>2 DEF TypeOK
<1>4. \E cell \in Cells :
        app' = [ProgramUnits(packet, count) EXCEPT ![packet.address + count] = cell]
  BY <1>3 DEF StoppedProgram, Programmed, Cells, Packets
<1> QED
  BY <1>1, <1>4

LEMMA DataKeepsTypes ==
  ASSUME TypeOK, NEW op \in Operations, HandleData(op)
  PROVE  OthersOK'
<1> USE EmptyValuesTyped
<1>1. CASE DataOutOfPlace(op)
  BY <1>1 DEF TypeOK, OthersOK, DataOutOfPlace, Refuse, Reply, ResponseType, flash
<1>2. ASSUME NEW packet, DataRefused(op, packet)
      PROVE  OthersOK'
  <2>1. DataStatus(packet) \in {"BAD_REQUEST", "BLOCK_INDEX_ERROR",
          "TOTAL_COUNT_MISMATCH", "ADDRESS_OUT_OF_RANGE", "OK"}
    BY DEF DataStatus
  <2>2. response' \in ResponseType
    BY <1>2, <2>1 DEF DataRefused, Reply, ResponseType
  <2> QED
    BY <1>2, <2>2 DEF TypeOK, OthersOK, DataRefused, flash
<1>3. ASSUME NEW packet \in Packets, ProgramDataDone(packet)
      PROVE  OthersOK'
  <2>1. app' \in [Units -> Cells]
    BY <1>3 DEF TypeOK, ProgramDataDone, ProgramUnits, Programmed, Cells, Packets
  <2>2. session' \in SessionType
    BY <1>3, AcceptedTyped DEF ProgramDataDone, TypeOK, SessionType, ComparedType
  <2> QED
    BY <1>3, <2>1, <2>2 DEF TypeOK, OthersOK, ProgramDataDone, Reply, ResponseType
<1>4. ASSUME NEW packet \in Packets, ProgramDataFails(packet)
      PROVE  OthersOK'
  <2>1. app' \in [Units -> Cells]
    BY <1>4, StoppedProgramTyped DEF ProgramDataFails
  <2>2. verified' \in ComparedType
    BY <1>4 DEF TypeOK, ProgramDataFails, NoteFailure, ComparedType
  <2> QED
    BY <1>4, <2>1, <2>2 DEF TypeOK, OthersOK, ProgramDataFails, Reply, ResponseType
<1>5. ASSUME NEW packet \in Packets, VerifyDataDone(packet)
      PROVE  OthersOK'
  <2>1. [u \in Units |-> IF u \in PacketUnits(packet) THEN packet.data
                        ELSE session.compared.units[u]]
          \in [Units -> Images \cup {NoImage}]
    BY DEF TypeOK, SessionType, ComparedType, Packets
  <2>2. session' \in SessionType
    BY <1>5, <2>1, AcceptedTyped DEF VerifyDataDone
  <2> QED
    BY <1>5, <2>2 DEF TypeOK, OthersOK, VerifyDataDone, Reply, ResponseType, flash
<1>6. ASSUME NEW packet \in Packets, VerifyDataMismatch(packet)
      PROVE  OthersOK'
  BY <1>6 DEF TypeOK, OthersOK, VerifyDataMismatch, Reply, ResponseType, flash
<1> QED
  BY <1>1, <1>2, <1>3, <1>4, <1>5, <1>6 DEF HandleData

LEMMA AppendKeepsTypes ==
  ASSUME TypeOK, NEW type \in RecordTypes,
         NEW image \in Images \cup {BadImage, NoImage}, AppendRecord(type, image)
  PROVE  OthersOK'
<1> USE EmptyValuesTyped
<1>1. AppendStatus(type, image) \in
        {"BAD_REQUEST", "INVALID_STATE", "METADATA_INVALID", "METADATA_FULL",
         "ATTEMPT_LIMIT_REACHED", "DONE", "OK"}
  BY DEF AppendStatus, ImageValidStatus, BootAttemptStatus, AppConfirmedStatus, RecordTypes
<1>2. ASSUME NEW status, ReplyAppend(type, image, status),
             status \in {"BAD_REQUEST", "INVALID_STATE", "METADATA_INVALID",
               "METADATA_FULL", "ATTEMPT_LIMIT_REACHED", "METADATA_WRITE_FAILED", "OK"}
      PROVE  response' \in ResponseType
  BY <1>2 DEF ReplyAppend, ResponseType
<1>3. CASE AppendRefused(type, image)
  <2>1. response' \in ResponseType
    BY <1>1, <1>2, <1>3 DEF AppendRefused
  <2> QED
    BY <1>3, <2>1 DEF TypeOK, OthersOK, AppendRefused, flash
<1>4. CASE AppendInitFails(type, image)
  BY <1>4 DEF TypeOK, OthersOK, AppendInitFails, InitFails, Reply, ResponseType, flash
<1>5. CASE AppendFails(type, image)
  <2>1. response' \in ResponseType
    BY <1>2, <1>5 DEF AppendFails
  <2> QED
    BY <1>5, <2>1 DEF TypeOK, OthersOK, AppendFails, EnsureFlash
<1>6. CASE AppendDone(type, image)
  <2>1. response' \in ResponseType
    BY <1>2, <1>6 DEF AppendDone
  <2> QED
    BY <1>6, <2>1 DEF TypeOK, OthersOK, AppendDone, EnsureFlash
<1> QED
  BY <1>3, <1>4, <1>5, <1>6 DEF AppendRecord

LEMMA InterruptionKeepsTypes ==
  ASSUME TypeOK, Interruptions
  PROVE  OthersOK'
<1> USE EmptyValuesTyped
<1>1. ASSUME ClearService, initialized' \in BOOLEAN, app' \in [Units -> Cells]
      PROVE  OthersOK'
  BY <1>1 DEF ClearService, OthersOK
<1>2. CASE PowerLoss \/ \E accepted \in BOOLEAN : BootInit(accepted)
  BY <1>1, <1>2 DEF PowerLoss, LosePower, BootInit, TypeOK, flash
<1>3. ASSUME NEW mask \in Masks, PowerLossInErase(mask)
      PROVE  OthersOK'
  <2>1. app' \in [Units -> Cells]
    BY <1>3 DEF TypeOK, PowerLossInErase, StoppedErase, Cells
  <2> QED
    BY <1>1, <1>3, <2>1 DEF PowerLossInErase, LosePower
<1>4. ASSUME NEW packet \in Packets, PowerLossInProgram(packet)
      PROVE  OthersOK'
  <2>1. app' \in [Units -> Cells]
    BY <1>4, StoppedProgramTyped DEF PowerLossInProgram
  <2> QED
    BY <1>1, <1>4, <2>1 DEF PowerLossInProgram, LosePower
<1>5. ASSUME NEW type \in RecordTypes, NEW image \in Images, PowerLossInAppend(type, image)
      PROVE  OthersOK'
  BY <1>1, <1>5 DEF PowerLossInAppend, LosePower, TypeOK
<1> QED
  BY <1>2, <1>3, <1>4, <1>5 DEF Interruptions

-----------------------------------------------------------------------------
LEMMA InitEstablishesIInv == Init => IInv
<1> SUFFICES ASSUME Init PROVE IInv
  OBVIOUS
<1>1. slots \in [Indexes -> Slots] /\ OrderedJournal(slots)
  BY UniformJournal DEF Init
<1>2. app \in [Units -> Cells]
  BY DEF Init, Cells
<1> QED
  BY <1>1, <1>2, EmptyValuesTyped DEF Init, IInv, TypeOK, JournalOrdered

LEMMA NextPreservesIInv == IInv /\ [Next]_vars => IInv'
<1> SUFFICES ASSUME IInv, [Next]_vars PROVE IInv'
  OBVIOUS
<1>1. TypeOK
  BY DEF IInv
<1>2. slots' \in [Indexes -> Slots] /\ OrderedJournal(slots')
  BY <1>1, EveryJournalStep, JournalStepKeepsOrder
<1>3. OthersOK'
  <2>1. CASE UNCHANGED vars
    BY <1>1, <2>1 DEF vars, TypeOK, OthersOK
  <2>2. CASE Uninitialised
    BY <1>1, <2>2 DEF Uninitialised, Refuse, Reply, ResponseType, TypeOK, OthersOK, flash
  <2>3. ASSUME NEW type \in RecordTypes, NEW image \in Images \cup {BadImage},
               HandleMetadataAppendRecord(type, image)
        PROVE  OthersOK'
    BY <1>1, <2>3, AppendKeepsTypes
       DEF HandleMetadataAppendRecord, Malformed, Refuse, Reply, ResponseType,
           TypeOK, OthersOK, flash
  <2>4. CASE ConfirmCurrentImage
    BY <1>1, <2>4, AppendKeepsTypes, CurrentImageRange DEF ConfirmCurrentImage, RecordTypes
  <2> QED
    BY <1>1, <2>1, <2>2, <2>3, <2>4, EraseKeepsTypes, BeginKeepsTypes,
       DataKeepsTypes, EndKeepsTypes, InterruptionKeepsTypes DEF Next, Commands
<1> QED
  BY <1>2, <1>3 DEF IInv, TypeOK, OthersOK, JournalOrdered

(***************************************************************************)
(* Types and the order of the journal hold together in every reachable     *)
(* state: every command, every Flash API fault and every power loss keeps  *)
(* them.                                                                   *)
(***************************************************************************)
THEOREM InvariantHolds == Spec => []IInv
  BY InitEstablishesIInv, NextPreservesIInv, PTL DEF Spec

(***************************************************************************)
(* Type correctness: counters, sequence numbers and contents stay in their *)
(* ranges through every command, fault and power loss.                     *)
(***************************************************************************)
THEOREM TypeCorrect == Spec => []TypeOK
<1>1. IInv => TypeOK
  BY DEF IInv
<1> QED
  BY <1>1, InvariantHolds, PTL

(***************************************************************************)
(* The order that appends keep in the journal.                             *)
(***************************************************************************)
THEOREM JournalStaysOrdered == Spec => []JournalOrdered
<1>1. IInv => JournalOrdered
  BY DEF IInv
<1> QED
  BY <1>1, InvariantHolds, PTL

(***************************************************************************)
(* No failure and no power loss makes the service write a sequence number  *)
(* twice, which the scan would answer by distrusting the whole journal.    *)
(***************************************************************************)
THEOREM NoDuplicate == Spec => []NeverDuplicateSequence
<1>1. IInv => NeverDuplicateSequence
  BY OrderedHasNoDuplicate
     DEF IInv, TypeOK, JournalOrdered, OrderedJournal, NeverDuplicateSequence
<1> QED
  BY <1>1, InvariantHolds, PTL

(***************************************************************************)
(* The journal is append-only.                                             *)
(***************************************************************************)
THEOREM JournalAppendOnly == Spec => AppendOnly
<1> DEFINE Kept ==
      \/ WholeSector(slots')
      \/ \A i \in Indexes : ~IsErased(slots[i]) => slots'[i] = slots[i]
<1>1. IInv /\ [Next]_vars => [Kept]_slots
  <2> SUFFICES ASSUME IInv, [Next]_vars PROVE [Kept]_slots
    OBVIOUS
  <2>1. JournalStep
    BY EveryJournalStep DEF IInv
  <2>2. CASE slots' = slots
    BY <2>2
  <2>3. CASE SectorStep
    BY <2>3 DEF SectorStep
  <2>4. CASE AppendStep
    <3>1. NextRecordIndex(slots) # InvalidIndex
      BY <2>4, AppendAdmitted DEF AppendStep, IInv
    <3>2. PICK x : slots' = Appended(slots, x)
      BY <2>4 DEF AppendStep
    <3>3. \A i \in Indexes : ~IsErased(slots[i]) => slots'[i] = slots[i]
      BY <3>1, <3>2, FirstErased DEF Appended, IInv, TypeOK
    <3> QED
      BY <3>3
  <2> QED
    BY <2>1, <2>2, <2>3, <2>4 DEF JournalStep
<1> QED
  BY <1>1, InvariantHolds, PTL DEF Spec, AppendOnly

-----------------------------------------------------------------------------
(***************************************************************************)
(* Refinement.  Each way a step may change the journal is a step of the    *)
(* trust lifecycle, or leaves what it maps to unchanged.                   *)
(***************************************************************************)
LEMMA AttemptCountType ==
  ASSUME NEW j
  PROVE  BootAttemptCount(j) \in Nat /\ AppConfirmed(j) \in BOOLEAN
<1>1. BootAttemptCount(j) \in Nat
  BY FiniteBound DEF BootAttemptCount, AttemptIndexes
<1>2. AppConfirmed(j) \in BOOLEAN
  BY DEF AppConfirmed
<1> QED
  BY <1>1, <1>2

LEMMA AppendStepRefines ==
  ASSUME IInv, NEW type \in RecordTypes, NEW image, AppendStatus(type, image) = "OK",
         NEW x \in {Erased, Invalid, Record(type, NextSequence(slots), image)},
         slots' = Appended(slots, x)
  PROVE  [Lifecycle!Next]_Lifecycle!lifecycle
<1>1. slots \in [Indexes -> Slots] /\ OrderedJournal(slots)
  BY DEF IInv, TypeOK, JournalOrdered
<1>2. /\ NextRecordIndex(slots) # InvalidIndex /\ image \in Images
      /\ type # "IMAGE_VALID" => /\ MetadataValid(slots)
                                 /\ image = CurrentImage(slots)
                                 /\ ~AppConfirmed(slots)
      /\ type = "BOOT_ATTEMPT" => ~(BootAttemptCount(slots) >= AttemptLimit)
      /\ type = "APP_CONFIRMED" => BootAttemptCount(slots) # 0
  BY AppendAdmitted DEF IInv
<1>3. BootAttemptCount(slots) \in Nat
  BY AttemptCountType
<1>4. MetadataValid(slots) => CurrentImage(slots) # NoImage
  BY <1>1, CurrentImageType
<1>5. CASE x \in {Erased, Invalid}
  <2>1. /\ CurrentImage(slots') = CurrentImage(slots)
        /\ BootAttemptCount(slots') = BootAttemptCount(slots)
        /\ AppConfirmed(slots') = AppConfirmed(slots)
    BY <1>1, <1>2, <1>5, AppendTorn
  <2> QED
    BY <2>1 DEF Lifecycle!lifecycle
<1>6. CASE x = Record("IMAGE_VALID", NextSequence(slots), image) /\ type = "IMAGE_VALID"
  <2>1. /\ CurrentImage(slots') = image
        /\ BootAttemptCount(slots') = 0
        /\ AppConfirmed(slots') = FALSE
    BY <1>1, <1>2, <1>6, AppendImageValid
  <2> QED
    BY <1>2, <2>1 DEF Lifecycle!Next, Lifecycle!Publish
<1>7. CASE x = Record("BOOT_ATTEMPT", NextSequence(slots), image) /\ type = "BOOT_ATTEMPT"
  <2>1. /\ CurrentImage(slots') = CurrentImage(slots)
        /\ BootAttemptCount(slots') = BootAttemptCount(slots) + 1
        /\ AppConfirmed(slots') = AppConfirmed(slots)
    BY <1>1, <1>2, <1>7, AppendBootAttempt
  <2> QED
    BY <1>2, <1>3, <1>4, <1>7, <2>1 DEF Lifecycle!Next, Lifecycle!Attempt
<1>8. CASE x = Record("APP_CONFIRMED", NextSequence(slots), image) /\ type = "APP_CONFIRMED"
  <2>1. /\ CurrentImage(slots') = CurrentImage(slots)
        /\ BootAttemptCount(slots') = BootAttemptCount(slots)
        /\ AppConfirmed(slots') = TRUE
    BY <1>1, <1>2, <1>8, AppendAppConfirmed
  <2> QED
    BY <1>2, <1>3, <1>4, <1>8, <2>1 DEF Lifecycle!Next, Lifecycle!Confirm
<1> QED
  BY <1>5, <1>6, <1>7, <1>8 DEF RecordTypes

LEMMA StepRefines ==
  IInv /\ [Next]_vars => [Lifecycle!Next]_Lifecycle!lifecycle
<1> SUFFICES ASSUME IInv, [Next]_vars PROVE [Lifecycle!Next]_Lifecycle!lifecycle
  OBVIOUS
<1>1. JournalStep
  BY EveryJournalStep DEF IInv
<1>2. CASE slots' = slots
  BY <1>2 DEF Lifecycle!lifecycle
<1>3. CASE SectorStep
  <2>1. /\ CurrentImage(slots') = NoImage
        /\ BootAttemptCount(slots') = 0
        /\ AppConfirmed(slots') = FALSE
    BY <1>3, UniformJournal DEF SectorStep, WholeSector
  <2> QED
    BY <2>1 DEF Lifecycle!Next, Lifecycle!Revoke
<1>4. CASE AppendStep
  BY <1>4, AppendStepRefines DEF AppendStep
<1> QED
  BY <1>1, <1>2, <1>3, <1>4 DEF JournalStep

(***************************************************************************)
(* The flash service implements the trust lifecycle through every fault    *)
(* and power loss.                                                         *)
(***************************************************************************)
THEOREM Refinement == Spec => ImplementsLifecycle
<1>1. Init => Lifecycle!Init
  <2> SUFFICES ASSUME Init PROVE Lifecycle!Init
    OBVIOUS
  <2>1. /\ CurrentImage(slots) = NoImage
        /\ BootAttemptCount(slots) = 0
        /\ AppConfirmed(slots) = FALSE
    BY UniformJournal DEF Init
  <2> QED
    BY <2>1 DEF Lifecycle!Init
<1> QED
  BY <1>1, StepRefines, InvariantHolds, PTL
     DEF Spec, ImplementsLifecycle, Lifecycle!Spec

(***************************************************************************)
(* The current image has at most AttemptLimit attempts, and is confirmed   *)
(* only after one of them.                                                 *)
(***************************************************************************)
THEOREM LifecycleInOrder == Spec => []LifecycleOrder
<1>1. Init => LifecycleOrder
  <2> SUFFICES ASSUME Init PROVE LifecycleOrder
    OBVIOUS
  <2>1. BootAttemptCount(slots) = 0 /\ AppConfirmed(slots) = FALSE
    BY UniformJournal DEF Init
  <2> QED
    BY <2>1 DEF LifecycleOrder
<1>2. IInv /\ LifecycleOrder /\ [Next]_vars => LifecycleOrder'
  <2> SUFFICES ASSUME IInv, LifecycleOrder, [Next]_vars PROVE LifecycleOrder'
    OBVIOUS
  <2>1. [Lifecycle!Next]_Lifecycle!lifecycle
    BY StepRefines
  <2>2. /\ BootAttemptCount(slots) \in Nat /\ BootAttemptCount(slots') \in Nat
        /\ AppConfirmed(slots) \in BOOLEAN /\ AppConfirmed(slots') \in BOOLEAN
    BY AttemptCountType
  <2> QED
    BY <2>1, <2>2 DEF LifecycleOrder, Lifecycle!Next, Lifecycle!lifecycle,
       Lifecycle!Revoke, Lifecycle!Publish, Lifecycle!Attempt, Lifecycle!Confirm
<1> QED
  BY <1>1, <1>2, InvariantHolds, PTL DEF Spec

-----------------------------------------------------------------------------
(***************************************************************************)
(* The transfers.  Most steps leave the application, the flag and the      *)
(* session alone, or drop the session.                                     *)
(***************************************************************************)
QuietStep ==
  /\ app' = app
  /\ UNCHANGED <<verify_succeeded, verified>> \/ verify_succeeded' = FALSE
  /\ session' = session \/ session' = NoSession

CutOff == verify_succeeded' = FALSE /\ session' = NoSession

TransferStep ==
  \/ QuietStep
  \/ CutOff
  \/ \E mask \in Masks : EraseFails(mask)
  \/ \E op \in Operations, packets \in 1 .. MaxPackets, units \in 1 .. UnitCount :
       BeginDone(op, packets, units) \/ EndDone(op, packets, units)
  \/ \E packet \in Packets : \/ ProgramDataDone(packet) \/ ProgramDataFails(packet)
                             \/ VerifyDataDone(packet)

LEMMA AppendIsQuiet ==
  ASSUME NEW type, NEW image, AppendRecord(type, image)
  PROVE  QuietStep
  BY DEF AppendRecord, AppendRefused, AppendInitFails, AppendFails, AppendDone,
         InitFails, QuietStep, flash

LEMMA EveryTransferStep ==
  ASSUME [Next]_vars
  PROVE  TransferStep
<1>1. ASSUME NEW mask \in Masks, HandleErase(mask)
      PROVE  TransferStep
  BY <1>1 DEF HandleErase, Malformed, EraseRefused, EraseInitFails, EraseForbidden,
       EraseDone, Refuse, InitFails, TransferStep, QuietStep, CutOff, flash
<1>2. ASSUME NEW op \in Operations, HandleBegin(op)
      PROVE  TransferStep
  BY <1>2 DEF HandleBegin, BeginBusy, BeginMalformed, BeginInitFails, Refuse,
       InitFails, TransferStep, QuietStep, flash
<1>3. ASSUME NEW op \in Operations, HandleData(op)
      PROVE  TransferStep
  BY <1>3 DEF HandleData, DataOutOfPlace, DataRefused, VerifyDataMismatch, Refuse,
       TransferStep, QuietStep, flash
<1>4. ASSUME NEW op \in Operations, HandleEnd(op)
      PROVE  TransferStep
  BY <1>4 DEF HandleEnd, EndOutOfPlace, EndMalformed, EndMismatch, Refuse,
       TransferStep, QuietStep, flash
<1>5. ASSUME NEW type \in RecordTypes, NEW image, HandleMetadataAppendRecord(type, image)
      PROVE  TransferStep
  BY <1>5, AppendIsQuiet DEF HandleMetadataAppendRecord, Malformed, Refuse,
       TransferStep, QuietStep, flash
<1>6. CASE ConfirmCurrentImage
  BY <1>6, AppendIsQuiet DEF ConfirmCurrentImage, TransferStep
<1>7. CASE Interruptions
  BY <1>7 DEF Interruptions, BootInit, PowerLoss, PowerLossInErase,
       PowerLossInProgram, PowerLossInAppend, LosePower, ClearService,
       TransferStep, CutOff
<1>8. CASE Uninitialised \/ UNCHANGED vars
  BY <1>8 DEF Uninitialised, Refuse, vars, TransferStep, QuietStep, flash
<1> QED
  BY <1>1, <1>2, <1>3, <1>4, <1>5, <1>6, <1>7, <1>8 DEF Next, Commands

(***************************************************************************)
(* A session never processes more than its BEGIN announced.                *)
(***************************************************************************)
THEOREM NoOverrun == Spec => []SessionNeverOverruns
<1>1. Init => SessionNeverOverruns
  BY DEF Init, NoSession, SessionNeverOverruns
<1>2. IInv /\ SessionNeverOverruns /\ [Next]_vars => SessionNeverOverruns'
  <2> SUFFICES ASSUME IInv, SessionNeverOverruns, [Next]_vars
               PROVE  SessionNeverOverruns'
    OBVIOUS
  <2> USE DEF SessionNeverOverruns
  <2>1. TransferStep
    BY EveryTransferStep
  <2>2. session \in SessionType
    BY DEF IInv, TypeOK
  <2>3. CASE QuietStep \/ CutOff
    BY <2>3 DEF QuietStep, CutOff, NoSession
  <2>4. ASSUME NEW mask \in Masks, EraseFails(mask)
        PROVE  SessionNeverOverruns'
    BY <2>2, <2>4 DEF EraseFails, SessionType
  <2>5. ASSUME NEW op \in Operations, NEW packets \in 1 .. MaxPackets,
               NEW units \in 1 .. UnitCount,
               BeginDone(op, packets, units) \/ EndDone(op, packets, units)
        PROVE  SessionNeverOverruns'
    BY <2>5 DEF BeginDone, EndDone, NoSession
  <2>6. ASSUME NEW packet \in Packets, NEW comparison, DataStatus(packet) = "OK",
               Accepted(packet, comparison)
        PROVE  SessionNeverOverruns'
    <3>1. /\ session.packets < session.expected_packets
          /\ packet.count <= session.expected_units - session.units
      BY <2>2, <2>6 DEF DataStatus, SessionType, Packets
    <3> QED
      BY <2>2, <2>6, <3>1 DEF Accepted, SessionType, Packets
  <2>7. ASSUME NEW packet \in Packets,
               ProgramDataDone(packet) \/ ProgramDataFails(packet) \/ VerifyDataDone(packet)
        PROVE  SessionNeverOverruns'
    BY <2>6, <2>7 DEF ProgramDataDone, ProgramDataFails, VerifyDataDone, NoSession
  <2> QED
    BY <2>1, <2>3, <2>4, <2>5, <2>7 DEF TransferStep
<1> QED
  BY <1>1, <1>2, InvariantHolds, PTL DEF Spec

(***************************************************************************)
(* The verify flag and a VERIFY under way tell the truth about Flash: the  *)
(* two invariants need each other, because END turns the second into the   *)
(* first.                                                                  *)
(***************************************************************************)
ContentIntact == VerifiedContentIntact /\ ComparedContentIntact

THEOREM VerifyIsHonest == Spec => []VerifiedContentIntact /\ []ComparedContentIntact
<1> USE DEF ContentIntact, VerifiedContentIntact, ComparedContentIntact
<1>1. Init => ContentIntact
  BY DEF Init, NoSession
<1>2. IInv /\ ContentIntact /\ [Next]_vars => ContentIntact'
  <2> SUFFICES ASSUME IInv, ContentIntact, [Next]_vars
               PROVE  ContentIntact'
    OBVIOUS
  <2>1. TransferStep
    BY EveryTransferStep
  <2>2. TypeOK
    BY DEF IInv
  <2>3. CASE QuietStep \/ CutOff
    BY <2>3 DEF QuietStep, CutOff, NoSession, SameContent
  <2>4. ASSUME NEW mask \in Masks, EraseFails(mask)
        PROVE  ContentIntact'
    BY <2>2, <2>4 DEF EraseFails, NoteFailure, TypeOK, SessionType, ComparedType
  <2>5. ASSUME NEW op \in Operations, NEW packets, NEW units,
               BeginDone(op, packets, units)
        PROVE  ContentIntact'
    BY <2>5 DEF BeginDone, NothingCompared, SameContent, flash
  <2>6. ASSUME NEW op \in Operations, NEW packets, NEW units,
               EndDone(op, packets, units)
        PROVE  ContentIntact'
    BY <2>2, <2>6 DEF EndDone, NoSession, SameContent, TypeOK, flash
  <2>7. ASSUME NEW packet \in Packets, ProgramDataDone(packet)
        PROVE  ContentIntact'
    BY <2>2, <2>7 DEF ProgramDataDone, Accepted, TypeOK, SessionType
  <2>8. ASSUME NEW packet \in Packets, ProgramDataFails(packet)
        PROVE  ContentIntact'
    BY <2>2, <2>8 DEF ProgramDataFails, NoteFailure, NoSession, TypeOK, ComparedType
  <2>9. ASSUME NEW packet \in Packets, VerifyDataDone(packet)
        PROVE  ContentIntact'
    BY <2>2, <2>9 DEF VerifyDataDone, Accepted, Matches, SameContent, TypeOK,
         SessionType, ComparedType, flash
  <2> QED
    BY <2>1, <2>3, <2>4, <2>5, <2>6, <2>7, <2>8, <2>9 DEF TransferStep
<1>3. ContentIntact => VerifiedContentIntact /\ ComparedContentIntact
  OBVIOUS
<1> QED
  BY <1>1, <1>2, <1>3, InvariantHolds, PTL DEF Spec

-----------------------------------------------------------------------------
(***************************************************************************)
(* An acknowledged append can be read back.                                *)
(***************************************************************************)
NoAppendAcknowledged ==
  response'.status # "OK" \/ response'.command \notin RecordTypes

LEMMA WriteConfirmedHolds ==
  ASSUME IInv, NEW type \in RecordTypes, NEW image \in Images \cup {BadImage, NoImage},
         AppendDone(type, image)
  PROVE  AcknowledgedAppendHolds'
<1>1. slots \in [Indexes -> Slots] /\ OrderedJournal(slots)
  BY DEF IInv, TypeOK, JournalOrdered
<1>2. /\ NextRecordIndex(slots) # InvalidIndex /\ image \in Images
      /\ type # "IMAGE_VALID" => /\ MetadataValid(slots)
                                 /\ image = CurrentImage(slots)
                                 /\ ~AppConfirmed(slots)
      /\ type = "BOOT_ATTEMPT" => ~(BootAttemptCount(slots) >= AttemptLimit)
  BY AppendAdmitted DEF AppendDone, IInv
<1>3. PICK x \in {Invalid, Record(type, NextSequence(slots), image)} :
        slots' = Appended(slots, x)
  BY DEF AppendDone, WriteSlot
<1>4. x \in Writable(slots)
  BY <1>2, <1>3 DEF Writable
<1>5. CASE ~WriteConfirmed(type, image)
  BY <1>5 DEF AppendDone, ReplyAppend, AcknowledgedAppendHolds
<1>6. CASE WriteConfirmed(type, image)
  <2>1. response' = [command |-> type, status |-> "OK", image |-> image]
    BY <1>6 DEF AppendDone, ReplyAppend
  <2>2. CASE type = "IMAGE_VALID"
    <3>1. x # Invalid
      <4>1. SUFFICES ASSUME x = Invalid PROVE FALSE
        OBVIOUS
      <4>2. x.type # "IMAGE_VALID"
        BY <4>1 DEF Invalid
      <4>3. /\ MetadataValid(slots') = MetadataValid(slots)
            /\ MetadataValid(slots) =>
                 ImageValidSequence(slots') = ImageValidSequence(slots)
        BY <1>1, <1>2, <1>3, <1>4, <4>2, AppendOther
      <4>4. /\ MetadataValid(slots)
            /\ ImageValidSequence(slots) = NextSequence(slots)
        BY <1>6, <2>2, <4>3 DEF WriteConfirmed
      <4>5. ImageIndex(slots) \in RecordIndexes(slots)
        BY <1>1, <4>4, ImageIsNewest
           DEF MetadataValid, ImageIndexes, RecordIndexes, IsImageValid, IsRecord, RecordTypes
      <4>6. ImageValidSequence(slots) < NextSequence(slots)
        BY <1>1, <1>2, <4>4, <4>5, NextSequenceIsNew DEF ImageValidSequence
      <4>7. NextSequence(slots) \in Int
        BY <1>1, <1>2, NextSequenceIsNew, FirstErased DEF Indexes
      <4> QED
        BY <4>4, <4>6, <4>7
    <3>2. x = Record("IMAGE_VALID", NextSequence(slots), image)
      BY <1>3, <2>2, <3>1
    <3>3. /\ CurrentImage(slots') = image
          /\ BootAttemptCount(slots') = 0
          /\ AppConfirmed(slots') = FALSE
      BY <1>1, <1>2, <1>3, <3>2, AppendImageValid
    <3> QED
      BY <2>1, <2>2, <3>3 DEF AcknowledgedAppendHolds
  <2>3. CASE type = "BOOT_ATTEMPT"
    <3>1. x.type # "IMAGE_VALID"
      BY <1>3, <2>3 DEF Invalid, Record
    <3>2. CurrentImage(slots') = image
      BY <1>1, <1>2, <1>3, <1>4, <2>3, <3>1, AppendOther
    <3>3. BootAttemptCount(slots') = BootAttemptCount(slots) + 1
      BY <1>6, <2>3 DEF WriteConfirmed
    <3>4. BootAttemptCount(slots') \in 1 .. AttemptLimit
      BY <1>2, <2>3, <3>3, AttemptCountType
    <3> QED
      BY <2>1, <2>3, <3>2, <3>4 DEF AcknowledgedAppendHolds
  <2>4. CASE type = "APP_CONFIRMED"
    <3>1. CurrentImage(slots') = image /\ AppConfirmed(slots')
      BY <1>2, <1>6, <2>4 DEF WriteConfirmed
    <3> QED
      BY <2>1, <2>4, <3>1 DEF AcknowledgedAppendHolds
  <2> QED
    BY <2>2, <2>3, <2>4 DEF RecordTypes
<1> QED
  BY <1>5, <1>6

LEMMA AppendAcknowledged ==
  ASSUME IInv, NEW type \in RecordTypes, NEW image \in Images \cup {BadImage, NoImage},
         AppendRecord(type, image)
  PROVE  AcknowledgedAppendHolds'
<1>1. CASE AppendRefused(type, image)
  <2>1. CASE AppendStatus(type, image) # "DONE"
    BY <1>1, <2>1 DEF AppendRefused, ReplyAppend, AcknowledgedAppendHolds
  <2>2. CASE AppendStatus(type, image) = "DONE"
    <3>1. /\ type # "IMAGE_VALID" /\ AppConfirmed(slots)
          /\ type = "APP_CONFIRMED" => image = CurrentImage(slots)
      <4>1. CASE type = "IMAGE_VALID"
        BY <2>2, <4>1 DEF AppendStatus, ImageValidStatus
      <4>2. CASE type = "BOOT_ATTEMPT"
        BY <2>2, <4>2 DEF AppendStatus, BootAttemptStatus
      <4>3. CASE type = "APP_CONFIRMED"
        <5>1. AppConfirmedStatus(image) = "DONE"
          BY <2>2, <4>3 DEF AppendStatus
        <5>2. image = CurrentImage(slots) /\ AppConfirmed(slots)
          BY <5>1 DEF AppConfirmedStatus
        <5> QED
          BY <4>3, <5>2
      <4> QED
        BY <4>1, <4>2, <4>3 DEF RecordTypes
    <3>2. /\ slots' = slots
          /\ response' = [command |-> type, status |-> "OK", image |-> image]
      BY <1>1, <2>2 DEF AppendRefused, ReplyAppend, flash
    <3> QED
      BY <3>1, <3>2 DEF AcknowledgedAppendHolds, RecordTypes
  <2> QED
    BY <2>1, <2>2
<1>2. CASE AppendInitFails(type, image) \/ AppendFails(type, image)
  BY <1>2 DEF AppendInitFails, InitFails, AppendFails, Reply, ReplyAppend,
       AcknowledgedAppendHolds
<1> QED
  BY <1>1, <1>2, WriteConfirmedHolds DEF AppendRecord

(***************************************************************************)
(* Whatever failed or lost power before, an append answered OK is what the *)
(* next scan of the journal acts on.                                       *)
(***************************************************************************)
THEOREM AcknowledgedHolds == Spec => []AcknowledgedAppendHolds
<1>1. Init => AcknowledgedAppendHolds
  BY DEF Init, NoResponse, AcknowledgedAppendHolds
<1>2. IInv /\ AcknowledgedAppendHolds /\ [Next]_vars => AcknowledgedAppendHolds'
  <2> SUFFICES ASSUME IInv, AcknowledgedAppendHolds, [Next]_vars
               PROVE  AcknowledgedAppendHolds'
    OBVIOUS
  <2>1. NoAppendAcknowledged => AcknowledgedAppendHolds'
    BY DEF NoAppendAcknowledged, AcknowledgedAppendHolds, RecordTypes
  <2>2. ASSUME NEW mask \in Masks, HandleErase(mask)
        PROVE  NoAppendAcknowledged
    BY <2>2 DEF HandleErase, Malformed, EraseRefused, EraseInitFails, EraseForbidden,
         EraseFails, EraseDone, Refuse, InitFails, Reply, NoAppendAcknowledged, RecordTypes
  <2>3. ASSUME NEW op \in Operations, HandleBegin(op) \/ HandleData(op) \/ HandleEnd(op)
        PROVE  NoAppendAcknowledged
    <3>1. HandleBegin(op) => response'.command = "BEGIN"
      BY DEF HandleBegin, BeginBusy, BeginMalformed, BeginInitFails, BeginDone,
           Refuse, InitFails, Reply
    <3>2. HandleData(op) => response'.command = "DATA"
      <4>1. ASSUME NEW packet
            PROVE  /\ DataRefused(op, packet) => response'.command = "DATA"
                   /\ ProgramDataDone(packet) \/ ProgramDataFails(packet) =>
                        response'.command = "DATA"
                   /\ VerifyDataDone(packet) \/ VerifyDataMismatch(packet) =>
                        response'.command = "DATA"
        BY DEF DataRefused, ProgramDataDone, ProgramDataFails, VerifyDataDone,
             VerifyDataMismatch, Reply
      <4>2. DataOutOfPlace(op) => response'.command = "DATA"
        BY DEF DataOutOfPlace, Refuse, Reply
      <4> QED
        BY <4>1, <4>2 DEF HandleData
    <3>3. HandleEnd(op) => response'.command = "END"
      BY DEF HandleEnd, EndOutOfPlace, EndMalformed, EndMismatch, EndDone, Refuse, Reply
    <3> QED
      BY <2>3, <3>1, <3>2, <3>3 DEF NoAppendAcknowledged, RecordTypes
  <2>4. ASSUME NEW type \in RecordTypes, NEW image \in Images \cup {BadImage},
               HandleMetadataAppendRecord(type, image)
        PROVE  AcknowledgedAppendHolds'
    BY <2>1, <2>4, AppendAcknowledged DEF HandleMetadataAppendRecord, Malformed,
         Refuse, Reply, NoAppendAcknowledged
  <2>5. CASE ConfirmCurrentImage
    BY <2>5, AppendAcknowledged, CurrentImageRange DEF ConfirmCurrentImage, RecordTypes, IInv
  <2>6. CASE Interruptions \/ Uninitialised
    <3>1. Interruptions => ClearService
      BY DEF Interruptions, BootInit, PowerLoss, PowerLossInErase,
           PowerLossInProgram, PowerLossInAppend, LosePower
    <3>2. response'.command = "NONE"
      BY <2>6, <3>1 DEF ClearService, NoResponse, Uninitialised, Refuse, Reply
    <3> QED
      BY <2>1, <3>2 DEF NoAppendAcknowledged, RecordTypes
  <2>7. CASE UNCHANGED vars
    BY <2>7 DEF vars, AcknowledgedAppendHolds
  <2> QED
    BY <2>1, <2>2, <2>3, <2>4, <2>5, <2>6, <2>7 DEF Next, Commands
<1> QED
  BY <1>1, <1>2, InvariantHolds, PTL DEF Spec

-----------------------------------------------------------------------------
(***************************************************************************)
(* The scan.  The two passes of BootMetadata_ScanLoadedRecords compute the *)
(* summary that MetadataRecords defines, for a journal of any length that  *)
(* holds anything: the loop invariant of each pass says that the running   *)
(* values are those of the slots below index.                              *)
(***************************************************************************)

\* The members of T the loop has passed when its variable is n.
Below(T, n) == {i \in T : i < n}

\* i is the first slot of T, or there is none.
IsFirst(i, T) ==
  IF T = {} THEN i = InvalidIndex ELSE i \in T /\ \A k \in T : i <= k

\* best is the record of T with the highest sequence, or there is none.
IsBest(j, best, T) ==
  IF T = {} THEN best = Erased
  ELSE \E i \in T : best = j[i] /\ \A k \in T : j[k].sequence <= best.sequence

SequencesOf(j, T) == {j[i].sequence : i \in T}

Repeats(j, T) == \E i, k \in T : i # k /\ j[i].sequence = j[k].sequence

LoopType ==
  /\ journal \in [Indexes -> StoredSlots]
  /\ pass \in {"first", "second", "done"} /\ index \in 0 .. RecordCount

\* The first pass: only the counts, the first erased slot and the mark of a
\* repeated sequence are in the summary; the rest is as BootMetadata_ClearSummary
\* left it.
FirstPass ==
  pass = "first" =>
    /\ summary = [state |-> summary.state, metadata_valid |-> FALSE, image |-> NoImage,
                  image_valid_sequence |-> 0, latest_sequence |-> 0,
                  boot_attempt_count |-> 0, app_confirmed |-> FALSE,
                  valid_record_count |-> Cardinality(Below(RecordIndexes(journal), index)),
                  invalid_record_count |-> Cardinality(Below(InvalidIndexes(journal), index)),
                  erased_record_count |-> Cardinality(Below(ErasedIndexes(journal), index)),
                  next_record_index |-> summary.next_record_index]
    /\ IsFirst(summary.next_record_index, Below(ErasedIndexes(journal), index))
    /\ IsBest(journal, latest_record, Below(RecordIndexes(journal), index))
    /\ IsBest(journal, image_record, Below(ImageIndexes(journal), index))
    /\ sequences = SequencesOf(journal, Below(RecordIndexes(journal), index))
    /\ summary.state = IF Repeats(journal, Below(RecordIndexes(journal), index))
                       THEN "DUPLICATE_SEQUENCE" ELSE "EMPTY"

\* The second pass: the summary is complete but for the records bound to the
\* image that are still to come.
SecondPass ==
  pass = "second" =>
    /\ MetadataValid(journal) /\ image_record = journal[ImageIndex(journal)]
    /\ summary = [state |-> "EMPTY", metadata_valid |-> FALSE, image |-> CurrentImage(journal),
                  image_valid_sequence |-> ImageValidSequence(journal),
                  latest_sequence |-> LatestSequence(journal),
                  boot_attempt_count |-> Cardinality(Below(AttemptIndexes(journal), index)),
                  app_confirmed |-> Below(ConfirmIndexes(journal), index) # {},
                  valid_record_count |-> Cardinality(RecordIndexes(journal)),
                  invalid_record_count |-> Cardinality(InvalidIndexes(journal)),
                  erased_record_count |-> Cardinality(ErasedIndexes(journal)),
                  next_record_index |-> NextRecordIndex(journal)]

\* The inductive invariant.
ScanInv == LoopType /\ FirstPass /\ SecondPass /\ ScanCorrect

-----------------------------------------------------------------------------
\* One more step of the loop passes one more slot.
LEMMA OneMore ==
  ASSUME NEW T \in SUBSET Indexes, NEW n \in Indexes
  PROVE  /\ n \in T => /\ Below(T, n + 1) = Below(T, n) \cup {n} /\ n \notin Below(T, n)
                       /\ Cardinality(Below(T, n + 1)) = Cardinality(Below(T, n)) + 1
         /\ n \notin T => Below(T, n + 1) = Below(T, n)
         /\ Cardinality(Below(T, n)) \in Nat
<1>1. IsFiniteSet(Below(T, n))
  BY FS_Interval, FS_Subset, 0 \in Int, RecordCount - 1 \in Int DEF Below, Indexes
<1>2. Cardinality(Below(T, n)) \in Nat
  BY <1>1, FS_CardinalityType
<1>t. n \in Int /\ \A i \in T : i \in Int BY DEF Indexes
<1>s. \A i \in T : (i < n + 1 <=> i < n \/ i = n) /\ ~(n < n)
  BY <1>t
<1>3. ASSUME n \in T
      PROVE  Below(T, n + 1) = Below(T, n) \cup {n} /\ n \notin Below(T, n)
  BY <1>s, <1>3, Zenon DEF Below
<1>4. ASSUME n \in T
      PROVE  Cardinality(Below(T, n + 1)) = Cardinality(Below(T, n)) + 1
  BY <1>1, <1>3, <1>4, FS_AddElement
<1>5. ASSUME n \notin T
      PROVE  Below(T, n + 1) = Below(T, n)
  BY <1>s, <1>5, Zenon DEF Below
<1> QED BY <1>2, <1>3, <1>4, <1>5

\* Before the first step nothing is passed; after the last one everything is.
LEMMA NoneYet ==
  ASSUME NEW T \in SUBSET Indexes
  PROVE  Below(T, 0) = {} /\ Cardinality(Below(T, 0)) = 0
<1>1. Below(T, 0) = {}
  <2>1. \A i \in T : i \in Nat BY DEF Indexes
  <2> QED BY <2>1 DEF Below
<1> QED BY <1>1, FS_EmptySet

LEMMA AllPassed ==
  ASSUME NEW T \in SUBSET Indexes
  PROVE  Below(T, RecordCount) = T
<1>1. \A i \in T : i < RecordCount BY DEF Indexes
<1> QED BY <1>1 DEF Below

\* The sets of slots a scan tells apart.
LEMMA SlotSets ==
  ASSUME NEW j
  PROVE  /\ RecordIndexes(j) \in SUBSET Indexes /\ ErasedIndexes(j) \in SUBSET Indexes
         /\ InvalidIndexes(j) \in SUBSET Indexes /\ ImageIndexes(j) \in SUBSET Indexes
         /\ AttemptIndexes(j) \in SUBSET Indexes /\ ConfirmIndexes(j) \in SUBSET Indexes
         /\ ImageIndexes(j) \in SUBSET RecordIndexes(j)
BY DEF RecordIndexes, ErasedIndexes, InvalidIndexes, ImageIndexes, AttemptIndexes,
       ConfirmIndexes, BoundIndexes, IsRecord, IsImageValid, RecordTypes

\* Every sequence number is a natural number.
LEMMA StoredSequence ==
  ASSUME journal \in [Indexes -> StoredSlots], NEW i \in Indexes
  PROVE  journal[i].sequence \in Nat
<1>1. journal[i] \in StoredSlots OBVIOUS
<1>2. CASE journal[i] \in {Erased, Invalid} BY <1>2 DEF Erased, Invalid
<1>3. CASE journal[i] \in [type : RecordTypes, sequence : Sequences32, image : Images]
  BY <1>3, Sequences32Assumption
<1> QED BY <1>1, <1>2, <1>3 DEF StoredSlots

\* The first erased slot is kept when the next slot is passed.
LEMMA FirstKept ==
  ASSUME NEW T \in SUBSET Indexes, NEW n \in Indexes, NEW i, IsFirst(i, Below(T, n)), n \in T
  PROVE  IsFirst(IF i = InvalidIndex THEN n ELSE i, Below(T, n + 1))
<1>1. Below(T, n + 1) = Below(T, n) \cup {n} BY OneMore
<1>2. CASE Below(T, n) = {}
  <2>1. i = InvalidIndex BY <1>2 DEF IsFirst
  <2>2. Below(T, n + 1) = {n} BY <1>1, <1>2
  <2> QED BY <2>1, <2>2 DEF IsFirst, Indexes
<1>3. CASE Below(T, n) # {}
  <2>1. i \in Below(T, n) /\ \A k \in Below(T, n) : i <= k BY <1>3 DEF IsFirst
  <2>2. i # InvalidIndex /\ i < n BY <2>1 DEF Below, Indexes, InvalidIndex
  <2>3. i \in Below(T, n + 1) /\ \A k \in Below(T, n + 1) : i <= k BY <1>1, <2>1, <2>2
                                                               DEF Indexes, Below
  <2> QED BY <2>2, <2>3 DEF IsFirst
<1> QED BY <1>2, <1>3

\* The best record so far, after one more record.
LEMMA BestKept ==
  ASSUME journal \in [Indexes -> StoredSlots],
         NEW T \in SUBSET Indexes, NEW n \in Indexes, n \in T,
         \A i \in T : IsRecord(journal[i]),
         NEW best, IsBest(journal, best, Below(T, n)), NEW next,
         next = IF Newer(journal[n], best) THEN journal[n] ELSE best
  PROVE  IsBest(journal, next, Below(T, n + 1))
<1>1. Below(T, n + 1) = Below(T, n) \cup {n} BY OneMore
<1>t. \A i \in Indexes : journal[i].sequence \in Nat BY StoredSequence
<1>2. CASE Below(T, n) = {}
  <2>1. best = Erased BY <1>2 DEF IsBest
  <2>2. next = journal[n] BY <2>1 DEF Newer, IsErased, Erased
  <2>3. Below(T, n + 1) = {n} BY <1>1, <1>2
  <2> QED BY <1>t, <2>2, <2>3 DEF IsBest
<1>3. CASE Below(T, n) # {}
  <2>1. PICK i \in Below(T, n) :
          best = journal[i] /\ \A k \in Below(T, n) : journal[k].sequence <= best.sequence
    BY <1>3 DEF IsBest
  <2>2. i \in T /\ i \in Indexes /\ Below(T, n) \in SUBSET Indexes BY DEF Below
  <2>3. ~IsErased(best) BY <2>1, <2>2 DEF IsRecord, IsErased, RecordTypes
  <2>4. \E m \in Below(T, n + 1) :
          next = journal[m] /\ \A k \in Below(T, n + 1) : journal[k].sequence <= next.sequence
    <3>1. CASE journal[n].sequence > best.sequence
      <4>1. next = journal[n] BY <3>1 DEF Newer
      <4>2. \A k \in Below(T, n + 1) : journal[k].sequence <= next.sequence
        BY <1>1, <1>t, <2>1, <2>2, <3>1, <4>1
      <4> QED BY <1>1, <4>1, <4>2
    <3>2. CASE ~(journal[n].sequence > best.sequence)
      <4>1. next = journal[i] BY <2>1, <2>3, <3>2 DEF Newer
      <4>2. \A k \in Below(T, n + 1) : journal[k].sequence <= next.sequence
        BY <1>1, <1>t, <2>1, <2>2, <3>2, <4>1
      <4> QED BY <1>1, <4>1, <4>2
    <3> QED BY <3>1, <3>2
  <2> QED BY <1>1, <2>4 DEF IsBest
<1> QED BY <1>2, <1>3

\* A sequence number seen before is a repeated one.
LEMMA RepeatFound ==
  ASSUME NEW T \in SUBSET Indexes, NEW n \in T
  PROVE  /\ Repeats(journal, Below(T, n + 1)) <=>
              Repeats(journal, Below(T, n)) \/ journal[n].sequence \in SequencesOf(journal, Below(T, n))
         /\ SequencesOf(journal, Below(T, n + 1)) =
              SequencesOf(journal, Below(T, n)) \cup {journal[n].sequence}
<1>1. Below(T, n + 1) = Below(T, n) \cup {n} /\ n \notin Below(T, n) BY OneMore
<1> QED BY <1>1 DEF Repeats, SequencesOf

-----------------------------------------------------------------------------
\* Nothing is scanned yet.
LEMMA ScanInitInv == ScanInit => ScanInv
<1> SUFFICES ASSUME ScanInit PROVE ScanInv OBVIOUS
<1> USE DEF ScanInit
<1>1. LoopType BY DEF LoopType
<1>2. /\ Below(RecordIndexes(journal), 0) = {} /\ Cardinality(Below(RecordIndexes(journal), 0)) = 0
      /\ Below(ErasedIndexes(journal), 0) = {} /\ Cardinality(Below(ErasedIndexes(journal), 0)) = 0
      /\ Below(ImageIndexes(journal), 0) = {}
      /\ Cardinality(Below(InvalidIndexes(journal), 0)) = 0
  BY SlotSets, NoneYet
<1>3. ~Repeats(journal, {}) /\ SequencesOf(journal, {}) = {} /\ IsFirst(InvalidIndex, {}) /\ IsBest(journal, Erased, {})
  BY DEF Repeats, SequencesOf, IsFirst, IsBest
<1>4. FirstPass BY <1>2, <1>3 DEF FirstPass, InitSummary
<1> QED BY <1>1, <1>4 DEF ScanInv, SecondPass, ScanCorrect

\* What one step of the first pass leaves for the next one.
LEMMA FirstPassStep ==
  ASSUME ScanInv, pass = "first", index < RecordCount
  PROVE  /\ index \in Indexes /\ index + 1 \in 0 .. RecordCount
         /\ journal[index] \in StoredSlots
         /\ index \in RecordIndexes(journal) <=> IsRecord(journal[index])
         /\ index \in ErasedIndexes(journal) <=> IsErased(journal[index])
         /\ index \in ImageIndexes(journal) <=> IsImageValid(journal[index])
         /\ index \in InvalidIndexes(journal) <=>
              ~IsErased(journal[index]) /\ ~IsRecord(journal[index])
         /\ ~(IsErased(journal[index]) /\ IsRecord(journal[index]))
         /\ IsImageValid(journal[index]) => IsRecord(journal[index])
<1>1. index \in Indexes /\ index + 1 \in 0 .. RecordCount BY DEF ScanInv, LoopType, Indexes
<1>2. journal[index] \in StoredSlots BY <1>1 DEF ScanInv, LoopType
<1> QED BY <1>1, <1>2 DEF RecordIndexes, ErasedIndexes, ImageIndexes, InvalidIndexes,
                         IsRecord, IsErased, IsImageValid, RecordTypes

LEMMA CountErasedStep ==
  ASSUME ScanInv, CountErased
  PROVE  ScanInv'
<1> USE DEF CountErased
<1> DEFINE R(n) == Below(RecordIndexes(journal), n)
           E(n) == Below(ErasedIndexes(journal), n)
           V(n) == Below(InvalidIndexes(journal), n)
           M(n) == Below(ImageIndexes(journal), n)
<1>1. /\ index \in Indexes /\ index + 1 \in 0 .. RecordCount
      /\ index \in ErasedIndexes(journal) /\ index \notin RecordIndexes(journal)
      /\ index \notin InvalidIndexes(journal) /\ index \notin ImageIndexes(journal)
  BY FirstPassStep
<1>2. /\ R(index + 1) = R(index) /\ V(index + 1) = V(index) /\ M(index + 1) = M(index)
      /\ Cardinality(E(index + 1)) = Cardinality(E(index)) + 1
  BY <1>1, SlotSets, OneMore
<1>3. PICK i : i = summary.next_record_index OBVIOUS
<1>4. IsFirst(i, E(index)) BY <1>3 DEF ScanInv, FirstPass
<1>5. IsFirst(IF i = InvalidIndex THEN index ELSE i, E(index + 1))
  BY <1>1, <1>4, SlotSets, FirstKept
<1>6. LoopType' BY <1>1 DEF ScanInv, LoopType
<1>s. PICK s : s = summary.state OBVIOUS
<1>c. PICK r, v, e : r = Cardinality(R(index)) /\ v = Cardinality(V(index)) /\ e = Cardinality(E(index))
  OBVIOUS
<1>a. summary = [state |-> s, metadata_valid |-> FALSE, image |-> NoImage,
             image_valid_sequence |-> 0, latest_sequence |-> 0,
             boot_attempt_count |-> 0, app_confirmed |-> FALSE,
             valid_record_count |-> r, invalid_record_count |-> v,
             erased_record_count |-> e, next_record_index |-> i]
  BY <1>3, <1>s, <1>c DEF ScanInv, FirstPass
<1>b. summary' = [summary EXCEPT !.erased_record_count = @ + 1,
                    !.next_record_index = IF @ = InvalidIndex THEN index ELSE @]
  OBVIOUS
<1> HIDE DEF CountErased
<1>7. summary' = [state |-> s, metadata_valid |-> FALSE, image |-> NoImage,
             image_valid_sequence |-> 0, latest_sequence |-> 0,
             boot_attempt_count |-> 0, app_confirmed |-> FALSE,
             valid_record_count |-> r, invalid_record_count |-> v,
             erased_record_count |-> e + 1,
             next_record_index |-> IF i = InvalidIndex THEN index ELSE i]
  BY <1>a, <1>b
<1>9. journal' = journal /\ index' = index + 1 /\ pass' = "first" /\ pass = "first"
      /\ latest_record' = latest_record /\ image_record' = image_record /\ sequences' = sequences
  BY DEF CountErased
<1>10. /\ IsBest(journal, latest_record, R(index)) /\ IsBest(journal, image_record, M(index)) /\ sequences = SequencesOf(journal, R(index))
       /\ s = IF Repeats(journal, R(index)) THEN "DUPLICATE_SEQUENCE" ELSE "EMPTY"
  BY <1>9, <1>s DEF ScanInv, FirstPass
<1>11. summary'.next_record_index = (IF i = InvalidIndex THEN index ELSE i) /\ summary'.state = s
  BY <1>7
<1>12. summary' =
        [state |-> summary'.state, metadata_valid |-> FALSE, image |-> NoImage,
         image_valid_sequence |-> 0, latest_sequence |-> 0,
         boot_attempt_count |-> 0, app_confirmed |-> FALSE,
         valid_record_count |-> Cardinality(R(index + 1)),
         invalid_record_count |-> Cardinality(V(index + 1)),
         erased_record_count |-> Cardinality(E(index + 1)),
         next_record_index |-> summary'.next_record_index]
  BY <1>2, <1>c, <1>7, <1>11
<1>13. FirstPass'
  BY <1>2, <1>5, <1>9, <1>10, <1>11, <1>12, Zenon DEF FirstPass
<1> QED BY <1>6, <1>9, <1>13 DEF ScanInv, SecondPass, ScanCorrect

LEMMA CountInvalidStep ==
  ASSUME ScanInv, CountInvalid
  PROVE  ScanInv'
<1> USE DEF CountInvalid
<1> DEFINE R(n) == Below(RecordIndexes(journal), n)
           E(n) == Below(ErasedIndexes(journal), n)
           V(n) == Below(InvalidIndexes(journal), n)
           M(n) == Below(ImageIndexes(journal), n)
<1>1. /\ index \in Indexes /\ index + 1 \in 0 .. RecordCount
      /\ index \notin ErasedIndexes(journal) /\ index \notin RecordIndexes(journal)
      /\ index \in InvalidIndexes(journal) /\ index \notin ImageIndexes(journal)
  BY FirstPassStep
<1>2. /\ R(index + 1) = R(index) /\ E(index + 1) = E(index) /\ M(index + 1) = M(index)
      /\ Cardinality(V(index + 1)) = Cardinality(V(index)) + 1
  BY <1>1, SlotSets, OneMore
<1>6. LoopType' BY <1>1 DEF ScanInv, LoopType
<1>s. PICK s, i : s = summary.state /\ i = summary.next_record_index OBVIOUS
<1>c. PICK r, v, e : r = Cardinality(R(index)) /\ v = Cardinality(V(index)) /\ e = Cardinality(E(index))
  OBVIOUS
<1>a. summary = [state |-> s, metadata_valid |-> FALSE, image |-> NoImage,
             image_valid_sequence |-> 0, latest_sequence |-> 0,
             boot_attempt_count |-> 0, app_confirmed |-> FALSE,
             valid_record_count |-> r, invalid_record_count |-> v,
             erased_record_count |-> e, next_record_index |-> i]
  BY <1>s, <1>c DEF ScanInv, FirstPass
<1>b. summary' = [summary EXCEPT !.invalid_record_count = @ + 1]
  OBVIOUS
<1> HIDE DEF CountInvalid
<1>7. summary' = [state |-> s, metadata_valid |-> FALSE, image |-> NoImage,
             image_valid_sequence |-> 0, latest_sequence |-> 0,
             boot_attempt_count |-> 0, app_confirmed |-> FALSE,
             valid_record_count |-> r, invalid_record_count |-> v + 1,
             erased_record_count |-> e, next_record_index |-> i]
  BY <1>a, <1>b
<1>9. journal' = journal /\ index' = index + 1 /\ pass' = "first" /\ pass = "first"
      /\ latest_record' = latest_record /\ image_record' = image_record /\ sequences' = sequences
  BY DEF CountInvalid
<1>10. /\ IsBest(journal, latest_record, R(index)) /\ IsBest(journal, image_record, M(index))
       /\ sequences = SequencesOf(journal, R(index)) /\ IsFirst(i, E(index))
       /\ s = IF Repeats(journal, R(index)) THEN "DUPLICATE_SEQUENCE" ELSE "EMPTY"
  BY <1>9, <1>s DEF ScanInv, FirstPass
<1>11. summary'.next_record_index = i /\ summary'.state = s
  BY <1>7
<1>12. summary' =
        [state |-> summary'.state, metadata_valid |-> FALSE, image |-> NoImage,
         image_valid_sequence |-> 0, latest_sequence |-> 0,
         boot_attempt_count |-> 0, app_confirmed |-> FALSE,
         valid_record_count |-> Cardinality(R(index + 1)),
         invalid_record_count |-> Cardinality(V(index + 1)),
         erased_record_count |-> Cardinality(E(index + 1)),
         next_record_index |-> summary'.next_record_index]
  BY <1>2, <1>c, <1>7, <1>11
<1>13. FirstPass'
  BY <1>2, <1>9, <1>10, <1>11, <1>12, Zenon DEF FirstPass
<1> QED BY <1>6, <1>9, <1>13 DEF ScanInv, SecondPass, ScanCorrect

LEMMA CountRecordStep ==
  ASSUME ScanInv, CountRecord
  PROVE  ScanInv'
<1> USE DEF CountRecord
<1> DEFINE R(n) == Below(RecordIndexes(journal), n)
           E(n) == Below(ErasedIndexes(journal), n)
           V(n) == Below(InvalidIndexes(journal), n)
           M(n) == Below(ImageIndexes(journal), n)
<1>1. /\ index \in Indexes /\ index + 1 \in 0 .. RecordCount
      /\ index \notin ErasedIndexes(journal) /\ index \in RecordIndexes(journal)
      /\ index \notin InvalidIndexes(journal)
      /\ index \in ImageIndexes(journal) <=> IsImageValid(journal[index])
  BY FirstPassStep
<1>2. /\ E(index + 1) = E(index) /\ V(index + 1) = V(index)
      /\ Cardinality(R(index + 1)) = Cardinality(R(index)) + 1
  BY <1>1, SlotSets, OneMore
<1>j. journal \in [Indexes -> StoredSlots] BY DEF ScanInv, LoopType
<1>r. \A i \in RecordIndexes(journal) : IsRecord(journal[i]) BY DEF RecordIndexes
<1>3. IsBest(journal, latest_record', R(index + 1))
  <2>1. IsBest(journal, latest_record, R(index)) BY DEF ScanInv, FirstPass
  <2>2. latest_record' = IF Newer(journal[index], latest_record) THEN journal[index] ELSE latest_record OBVIOUS
  <2> QED BY <1>1, <1>j, <1>r, <2>1, <2>2, SlotSets, BestKept
<1>4. IsBest(journal, image_record', M(index + 1))
  <2>1. IsBest(journal, image_record, M(index)) BY DEF ScanInv, FirstPass
  <2>2. CASE IsImageValid(journal[index])
    <3>1. image_record' = IF Newer(journal[index], image_record) THEN journal[index] ELSE image_record BY <2>2
    <3>2. \A i \in ImageIndexes(journal) : IsRecord(journal[i]) BY <1>r, SlotSets
    <3> QED BY <1>1, <1>j, <2>1, <2>2, <3>1, <3>2, SlotSets, BestKept
  <2>3. CASE ~IsImageValid(journal[index])
    <3>1. M(index + 1) = M(index) BY <1>1, <2>3, SlotSets, OneMore
    <3>2. image_record' = image_record BY <2>3
    <3> QED BY <2>1, <3>1, <3>2
  <2> QED BY <2>2, <2>3
<1>5. /\ Repeats(journal, R(index + 1)) <=> Repeats(journal, R(index)) \/ journal[index].sequence \in sequences
      /\ sequences' = SequencesOf(journal, R(index + 1))
  <2>1. sequences = SequencesOf(journal, R(index)) BY DEF ScanInv, FirstPass
  <2>2. sequences' = sequences \cup {journal[index].sequence} OBVIOUS
  <2> QED BY <1>1, <2>1, <2>2, SlotSets, RepeatFound
<1>6. LoopType' BY <1>1 DEF ScanInv, LoopType
<1>d. PICK t : t = IF journal[index].sequence \in sequences THEN "DUPLICATE_SEQUENCE" ELSE summary.state
  OBVIOUS
<1>s. PICK s, i : s = summary.state /\ i = summary.next_record_index OBVIOUS
<1>c. PICK r, v, e : r = Cardinality(R(index)) /\ v = Cardinality(V(index)) /\ e = Cardinality(E(index))
  OBVIOUS
<1>a. summary = [state |-> s, metadata_valid |-> FALSE, image |-> NoImage,
             image_valid_sequence |-> 0, latest_sequence |-> 0,
             boot_attempt_count |-> 0, app_confirmed |-> FALSE,
             valid_record_count |-> r, invalid_record_count |-> v,
             erased_record_count |-> e, next_record_index |-> i]
  BY <1>s, <1>c DEF ScanInv, FirstPass
<1>b. summary' = [summary EXCEPT
        !.valid_record_count = @ + 1,
        !.state = IF journal[index].sequence \in sequences THEN "DUPLICATE_SEQUENCE" ELSE @]
  OBVIOUS
<1>9. journal' = journal /\ index' = index + 1 /\ pass' = "first" /\ pass = "first"
  OBVIOUS
<1> HIDE DEF CountRecord
<1>7. summary' = [state |-> t, metadata_valid |-> FALSE, image |-> NoImage,
             image_valid_sequence |-> 0, latest_sequence |-> 0,
             boot_attempt_count |-> 0, app_confirmed |-> FALSE,
             valid_record_count |-> r + 1, invalid_record_count |-> v,
             erased_record_count |-> e, next_record_index |-> i]
  BY <1>a, <1>b, <1>d
<1>8. t = IF Repeats(journal, R(index + 1)) THEN "DUPLICATE_SEQUENCE" ELSE "EMPTY"
  <2>2. summary.state = IF Repeats(journal, R(index)) THEN "DUPLICATE_SEQUENCE" ELSE "EMPTY"
    BY <1>9 DEF ScanInv, FirstPass
  <2> QED BY <1>5, <1>d, <2>2
<1>10. IsFirst(i, E(index)) BY <1>9, <1>s DEF ScanInv, FirstPass
<1>11. summary'.next_record_index = i /\ summary'.state = t
  BY <1>7
<1>12. summary' =
        [state |-> summary'.state, metadata_valid |-> FALSE, image |-> NoImage,
         image_valid_sequence |-> 0, latest_sequence |-> 0,
         boot_attempt_count |-> 0, app_confirmed |-> FALSE,
         valid_record_count |-> Cardinality(R(index + 1)),
         invalid_record_count |-> Cardinality(V(index + 1)),
         erased_record_count |-> Cardinality(E(index + 1)),
         next_record_index |-> summary'.next_record_index]
  BY <1>2, <1>c, <1>7, <1>11
<1>13. FirstPass'
  BY <1>2, <1>3, <1>4, <1>5, <1>8, <1>9, <1>10, <1>11, <1>12, Zenon DEF FirstPass
<1> QED BY <1>6, <1>9, <1>13 DEF ScanInv, SecondPass, ScanCorrect

\* What the running values are when the first pass has seen every slot.
LEMMA FirstPassEnds ==
  ASSUME ScanInv, pass = "first", index = RecordCount
  PROVE  /\ IsFirst(summary.next_record_index, ErasedIndexes(journal))
         /\ IsBest(journal, latest_record, RecordIndexes(journal))
         /\ IsBest(journal, image_record, ImageIndexes(journal))
         /\ summary.state = IF DuplicateSequence(journal) THEN "DUPLICATE_SEQUENCE" ELSE "EMPTY"
         /\ summary = [state |-> summary.state, metadata_valid |-> FALSE, image |-> NoImage,
                       image_valid_sequence |-> 0, latest_sequence |-> 0,
                       boot_attempt_count |-> 0, app_confirmed |-> FALSE,
                       valid_record_count |-> Cardinality(RecordIndexes(journal)),
                       invalid_record_count |-> Cardinality(InvalidIndexes(journal)),
                       erased_record_count |-> Cardinality(ErasedIndexes(journal)),
                       next_record_index |-> summary.next_record_index]
<1>1. /\ Below(RecordIndexes(journal), index) = RecordIndexes(journal)
      /\ Below(ErasedIndexes(journal), index) = ErasedIndexes(journal)
      /\ Below(InvalidIndexes(journal), index) = InvalidIndexes(journal)
      /\ Below(ImageIndexes(journal), index) = ImageIndexes(journal)
  BY SlotSets, AllPassed
<1>2. FirstPass BY DEF ScanInv
<1>3. Repeats(journal, RecordIndexes(journal)) <=> DuplicateSequence(journal)
  BY DEF Repeats, DuplicateSequence
<1> QED BY <1>1, <1>2, <1>3, Zenon DEF FirstPass

\* The first erased slot is the next one to write.
LEMMA FirstIsNext ==
  ASSUME NEW j, NEW i, IsFirst(i, ErasedIndexes(j))
  PROVE  NextRecordIndex(j) = i
<1>1. CASE ErasedIndexes(j) = {} BY <1>1 DEF IsFirst, NextRecordIndex
<1>2. CASE ErasedIndexes(j) # {}
  <2>1. i \in ErasedIndexes(j) /\ \A k \in ErasedIndexes(j) : i <= k BY <1>2 DEF IsFirst
  <2>2. PICK m : m = NextRecordIndex(j) OBVIOUS
  <2>3. m \in ErasedIndexes(j) /\ \A k \in ErasedIndexes(j) : m <= k
    BY <1>2, <2>1, <2>2 DEF NextRecordIndex
  <2>4. i <= m /\ m <= i /\ i \in Int /\ m \in Int BY <2>1, <2>3 DEF ErasedIndexes, Indexes
  <2> QED BY <2>2, <2>4
<1> QED BY <1>1, <1>2

\* The record with the highest sequence gives the latest sequence.
LEMMA BestIsLatest ==
  ASSUME journal \in [Indexes -> StoredSlots], IsBest(journal, latest_record, RecordIndexes(journal))
  PROVE  LatestSequence(journal) = IF IsErased(latest_record) THEN 0 ELSE latest_record.sequence
<1>1. CASE RecordIndexes(journal) = {}
  <2>1. latest_record = Erased BY <1>1 DEF IsBest
  <2> QED BY <1>1, <2>1 DEF LatestSequence, IsErased, Erased
<1>2. CASE RecordIndexes(journal) # {}
  <2>1. PICK i \in RecordIndexes(journal) :
          /\ latest_record = journal[i]
          /\ \A k \in RecordIndexes(journal) : journal[k].sequence <= latest_record.sequence
    BY <1>2 DEF IsBest
  <2>2. ~IsErased(latest_record) BY <2>1 DEF RecordIndexes, IsRecord, IsErased, RecordTypes
  <2>3. PICK T : T = {journal[k].sequence : k \in RecordIndexes(journal)} OBVIOUS
  <2>4. latest_record.sequence \in T BY <2>1, <2>3
  <2>5. PICK m : m = LatestSequence(journal) OBVIOUS
  <2>6. m = CHOOSE n \in T : \A k \in RecordIndexes(journal) : journal[k].sequence <= n
    BY <1>2, <2>3, <2>5 DEF LatestSequence
  <2>7. m \in T /\ \A k \in RecordIndexes(journal) : journal[k].sequence <= m
    BY <2>1, <2>4, <2>6
  <2>8. \A k \in RecordIndexes(journal) : journal[k].sequence \in Nat
    BY SlotSets, StoredSequence
  <2>9. PICK k \in RecordIndexes(journal) : m = journal[k].sequence BY <2>3, <2>7
  <2>10. m = latest_record.sequence BY <2>1, <2>7, <2>8, <2>9
  <2> QED BY <2>2, <2>5, <2>10
<1> QED BY <1>1, <1>2

\* Without a repeated sequence the IMAGE_VALID with the highest one is unique.
LEMMA BestIsImage ==
  ASSUME journal \in [Indexes -> StoredSlots], IsBest(journal, image_record, ImageIndexes(journal))
  PROVE  /\ IsErased(image_record) <=> ImageIndexes(journal) = {}
         /\ ~DuplicateSequence(journal) /\ ImageIndexes(journal) # {} =>
              ImageIndex(journal) \in Indexes /\ image_record = journal[ImageIndex(journal)]
<1>1. CASE ImageIndexes(journal) = {}
  <2>1. image_record = Erased BY <1>1 DEF IsBest
  <2> QED BY <1>1, <2>1 DEF IsErased, Erased
<1>2. CASE ImageIndexes(journal) # {}
  <2>1. PICK i \in ImageIndexes(journal) :
          image_record = journal[i] /\ \A k \in ImageIndexes(journal) : journal[k].sequence <= image_record.sequence
    BY <1>2 DEF IsBest
  <2>2. ~IsErased(image_record) BY <2>1 DEF ImageIndexes, IsImageValid, IsErased
  <2>3. PICK m : m = ImageIndex(journal) OBVIOUS
  <2>4. m = CHOOSE n \in ImageIndexes(journal) :
              \A k \in ImageIndexes(journal) : journal[k].sequence <= journal[n].sequence
    BY <2>3 DEF ImageIndex
  <2>5. /\ m \in ImageIndexes(journal)
        /\ \A k \in ImageIndexes(journal) : journal[k].sequence <= journal[m].sequence
    BY <2>1, <2>4
  <2>6. \A k \in ImageIndexes(journal) : journal[k].sequence \in Nat BY SlotSets, StoredSequence
  <2>7. journal[m].sequence = journal[i].sequence BY <2>1, <2>5, <2>6
  <2>8. m \in RecordIndexes(journal) /\ i \in RecordIndexes(journal) /\ m \in Indexes
    BY <2>1, <2>5, SlotSets
  <2>9. ~DuplicateSequence(journal) => m = i BY <2>7, <2>8 DEF DuplicateSequence
  <2> QED BY <1>2, <2>1, <2>2, <2>3, <2>8, <2>9
<1> QED BY <1>1, <1>2

LEMMA ReturnDuplicateStep ==
  ASSUME ScanInv, ReturnDuplicate
  PROVE  ScanInv'
<1>1. /\ pass = "first" /\ index = RecordCount /\ summary.state = "DUPLICATE_SEQUENCE"
      /\ pass' = "done" /\ journal' = journal /\ index' = index
  BY DEF ReturnDuplicate
<1>j. journal \in [Indexes -> StoredSlots] BY DEF ScanInv, LoopType
<1>2. PICK n : n = summary.next_record_index OBVIOUS
<1>3. DuplicateSequence(journal) BY <1>1, FirstPassEnds
<1>4. NextRecordIndex(journal) = n BY <1>1, <1>2, FirstPassEnds, FirstIsNext
<1>5. PICK l : l = IF IsErased(latest_record) THEN 0 ELSE latest_record.sequence OBVIOUS
<1>6. LatestSequence(journal) = l BY <1>1, <1>5, <1>j, FirstPassEnds, BestIsLatest
<1>7. PICK r, v, e : /\ r = Cardinality(RecordIndexes(journal)) /\ v = Cardinality(InvalidIndexes(journal))
                     /\ e = Cardinality(ErasedIndexes(journal))
  OBVIOUS
<1>8. summary = [state |-> "DUPLICATE_SEQUENCE", metadata_valid |-> FALSE, image |-> NoImage,
             image_valid_sequence |-> 0, latest_sequence |-> 0,
             boot_attempt_count |-> 0, app_confirmed |-> FALSE,
             valid_record_count |-> r, invalid_record_count |-> v,
             erased_record_count |-> e, next_record_index |-> n]
  BY <1>1, <1>2, <1>7, FirstPassEnds
<1>9. summary' = [summary EXCEPT !.latest_sequence = l]
  BY <1>5 DEF ReturnDuplicate, LatestPublished
<1>10. summary' =
         [state |-> "DUPLICATE_SEQUENCE", metadata_valid |-> FALSE, image |-> NoImage,
             image_valid_sequence |-> 0, latest_sequence |-> l,
             boot_attempt_count |-> 0, app_confirmed |-> FALSE,
             valid_record_count |-> r, invalid_record_count |-> v,
             erased_record_count |-> e, next_record_index |-> n]
  BY <1>8, <1>9
<1>11. /\ ScanState(journal) = "DUPLICATE_SEQUENCE" /\ MetadataValid(journal) = FALSE
       /\ CurrentImage(journal) = NoImage /\ ImageValidSequence(journal) = 0
       /\ BootAttemptCount(journal) = 0 /\ AppConfirmed(journal) = FALSE
  BY <1>3 DEF ScanState, MetadataValid, CurrentImage, ImageValidSequence, BootAttemptCount, AppConfirmed
<1>12. summary' = Summary(journal)
  BY <1>4, <1>6, <1>7, <1>10, <1>11 DEF Summary
<1> QED BY <1>1, <1>12 DEF ScanInv, LoopType, FirstPass, SecondPass, ScanCorrect

LEMMA ReturnNoImageStep ==
  ASSUME ScanInv, ReturnNoImage
  PROVE  ScanInv'
<1>1. /\ pass = "first" /\ index = RecordCount /\ summary.state # "DUPLICATE_SEQUENCE"
      /\ pass' = "done" /\ journal' = journal /\ index' = index /\ IsErased(image_record)
  BY DEF ReturnNoImage
<1>j. journal \in [Indexes -> StoredSlots] BY DEF ScanInv, LoopType
<1>2. PICK n : n = summary.next_record_index OBVIOUS
<1>3. ~DuplicateSequence(journal) BY <1>1, FirstPassEnds
<1>i. ImageIndexes(journal) = {} BY <1>1, <1>j, FirstPassEnds, BestIsImage
<1>4. NextRecordIndex(journal) = n BY <1>1, <1>2, FirstPassEnds, FirstIsNext
<1>5. PICK l : l = IF IsErased(latest_record) THEN 0 ELSE latest_record.sequence OBVIOUS
<1>6. LatestSequence(journal) = l BY <1>1, <1>5, <1>j, FirstPassEnds, BestIsLatest
<1>7. PICK r, v, e : /\ r = Cardinality(RecordIndexes(journal)) /\ v = Cardinality(InvalidIndexes(journal))
                     /\ e = Cardinality(ErasedIndexes(journal))
  OBVIOUS
<1>p. PICK s : s = IF r + v = 0 THEN "EMPTY" ELSE "INVALID" OBVIOUS
<1>8. summary = [state |-> "EMPTY", metadata_valid |-> FALSE, image |-> NoImage,
             image_valid_sequence |-> 0, latest_sequence |-> 0,
             boot_attempt_count |-> 0, app_confirmed |-> FALSE,
             valid_record_count |-> r, invalid_record_count |-> v,
             erased_record_count |-> e, next_record_index |-> n]
  BY <1>1, <1>2, <1>3, <1>7, FirstPassEnds
<1>q. summary.valid_record_count = r /\ summary.invalid_record_count = v BY <1>8
<1>9. summary' = [[summary EXCEPT !.latest_sequence = l] EXCEPT !.state = s]
  BY <1>5, <1>p, <1>q DEF ReturnNoImage, LatestPublished
<1>10. summary' =
         [state |-> s, metadata_valid |-> FALSE, image |-> NoImage,
             image_valid_sequence |-> 0, latest_sequence |-> l,
             boot_attempt_count |-> 0, app_confirmed |-> FALSE,
             valid_record_count |-> r, invalid_record_count |-> v,
             erased_record_count |-> e, next_record_index |-> n]
  BY <1>8, <1>9
<1>f. r \in Nat /\ v \in Nat /\ (r = 0 <=> RecordIndexes(journal) = {})
      /\ (v = 0 <=> InvalidIndexes(journal) = {})
  <2>1. IsFiniteSet(Indexes) BY FS_Interval, 0 \in Int, RecordCount - 1 \in Int DEF Indexes
  <2>2. IsFiniteSet(RecordIndexes(journal)) /\ IsFiniteSet(InvalidIndexes(journal))
    BY <2>1, SlotSets, FS_Subset
  <2> QED BY <1>7, <2>2, FS_CardinalityType, FS_EmptySet
<1>g. ErasedIndexes(journal) = Indexes <=> RecordIndexes(journal) = {} /\ InvalidIndexes(journal) = {}
  BY DEF ErasedIndexes, RecordIndexes, InvalidIndexes, IsErased, IsRecord, RecordTypes
<1>h. ErasedIndexes(journal) = Indexes <=> r + v = 0 BY <1>f, <1>g
<1>11. /\ ScanState(journal) = s /\ MetadataValid(journal) = FALSE
       /\ CurrentImage(journal) = NoImage /\ ImageValidSequence(journal) = 0
       /\ BootAttemptCount(journal) = 0 /\ AppConfirmed(journal) = FALSE
  BY <1>3, <1>h, <1>i, <1>p
     DEF ScanState, MetadataValid, CurrentImage, ImageValidSequence, BootAttemptCount, AppConfirmed
<1>12. summary' = Summary(journal)
  BY <1>4, <1>6, <1>7, <1>10, <1>11 DEF Summary
<1> QED BY <1>1, <1>12 DEF ScanInv, LoopType, FirstPass, SecondPass, ScanCorrect

LEMMA CopyImageStep ==
  ASSUME ScanInv, CopyImageToSummary
  PROVE  ScanInv'
<1>1. /\ pass = "first" /\ index = RecordCount /\ summary.state # "DUPLICATE_SEQUENCE"
      /\ pass' = "second" /\ journal' = journal /\ index' = 0 /\ ~IsErased(image_record) /\ image_record' = image_record
  BY DEF CopyImageToSummary
<1>j. journal \in [Indexes -> StoredSlots] BY DEF ScanInv, LoopType
<1>2. PICK n : n = summary.next_record_index OBVIOUS
<1>3. ~DuplicateSequence(journal) BY <1>1, FirstPassEnds
<1>i. ImageIndexes(journal) # {} /\ image_record = journal[ImageIndex(journal)]
  BY <1>1, <1>3, <1>j, FirstPassEnds, BestIsImage
<1>4. NextRecordIndex(journal) = n BY <1>1, <1>2, FirstPassEnds, FirstIsNext
<1>5. PICK l : l = IF IsErased(latest_record) THEN 0 ELSE latest_record.sequence OBVIOUS
<1>6. LatestSequence(journal) = l BY <1>1, <1>5, <1>j, FirstPassEnds, BestIsLatest
<1>7. PICK r, v, e : /\ r = Cardinality(RecordIndexes(journal)) /\ v = Cardinality(InvalidIndexes(journal))
                     /\ e = Cardinality(ErasedIndexes(journal))
  OBVIOUS
<1>8. summary = [state |-> "EMPTY", metadata_valid |-> FALSE, image |-> NoImage,
             image_valid_sequence |-> 0, latest_sequence |-> 0,
             boot_attempt_count |-> 0, app_confirmed |-> FALSE,
             valid_record_count |-> r, invalid_record_count |-> v,
             erased_record_count |-> e, next_record_index |-> n]
  BY <1>1, <1>2, <1>3, <1>7, FirstPassEnds
<1>p. PICK m, q : m = image_record.image /\ q = image_record.sequence OBVIOUS
<1>9. summary' = [[summary EXCEPT !.latest_sequence = l] EXCEPT !.image = m, !.image_valid_sequence = q]
  BY <1>5, <1>p DEF CopyImageToSummary, LatestPublished
<1>10. summary' =
         [state |-> "EMPTY", metadata_valid |-> FALSE, image |-> m,
             image_valid_sequence |-> q, latest_sequence |-> l,
             boot_attempt_count |-> 0, app_confirmed |-> FALSE,
             valid_record_count |-> r, invalid_record_count |-> v,
             erased_record_count |-> e, next_record_index |-> n]
  BY <1>8, <1>9
<1>11. /\ MetadataValid(journal)
       /\ CurrentImage(journal) = m /\ ImageValidSequence(journal) = q
  BY <1>3, <1>i, <1>p DEF MetadataValid, CurrentImage, ImageValidSequence
<1>12. /\ Cardinality(Below(AttemptIndexes(journal), 0)) = 0
       /\ (Below(ConfirmIndexes(journal), 0) # {}) = FALSE
  BY SlotSets, NoneYet
<1>13. summary' =
         [state |-> "EMPTY", metadata_valid |-> FALSE, image |-> CurrentImage(journal),
          image_valid_sequence |-> ImageValidSequence(journal),
          latest_sequence |-> LatestSequence(journal),
          boot_attempt_count |-> Cardinality(Below(AttemptIndexes(journal), 0)),
          app_confirmed |-> Below(ConfirmIndexes(journal), 0) # {},
          valid_record_count |-> Cardinality(RecordIndexes(journal)),
          invalid_record_count |-> Cardinality(InvalidIndexes(journal)),
          erased_record_count |-> Cardinality(ErasedIndexes(journal)),
          next_record_index |-> NextRecordIndex(journal)]
  BY <1>4, <1>6, <1>7, <1>10, <1>11, <1>12
<1>14. SecondPass' BY <1>1, <1>11, <1>13, <1>i, Zenon DEF SecondPass
<1> QED BY <1>1, <1>j, <1>14 DEF ScanInv, LoopType, FirstPass, ScanCorrect

LEMMA CountBoundStep ==
  ASSUME ScanInv, CountBound
  PROVE  ScanInv'
<1>1. /\ pass = "second" /\ index < RecordCount /\ pass' = "second" /\ journal' = journal
      /\ index' = index + 1 /\ image_record' = image_record
  BY DEF CountBound
<1>j. journal \in [Indexes -> StoredSlots] BY DEF ScanInv, LoopType
<1>2. index \in Indexes /\ index + 1 \in 0 .. RecordCount BY <1>1 DEF ScanInv, LoopType, Indexes
<1>3. image_record = journal[ImageIndex(journal)] /\ MetadataValid(journal) BY <1>1 DEF ScanInv, SecondPass
<1>4. /\ index \in AttemptIndexes(journal) <=> IsBound(journal[index]) /\ journal[index].type = "BOOT_ATTEMPT"
      /\ index \in ConfirmIndexes(journal) <=> IsBound(journal[index]) /\ journal[index].type = "APP_CONFIRMED"
  BY <1>2, <1>3 DEF AttemptIndexes, ConfirmIndexes, BoundIndexes, IsBound, IsRecord, RecordTypes
<1> DEFINE A(n) == Below(AttemptIndexes(journal), n)
           C(n) == Below(ConfirmIndexes(journal), n)
<1>5. Cardinality(A(index + 1)) =
        IF index \in AttemptIndexes(journal) THEN Cardinality(A(index)) + 1 ELSE Cardinality(A(index))
  BY <1>2, SlotSets, OneMore
<1>6. C(index + 1) # {} <=> C(index) # {} \/ index \in ConfirmIndexes(journal)
  <2>1. CASE index \in ConfirmIndexes(journal)
    <3>1. C(index + 1) = C(index) \cup {index} BY <1>2, <2>1, SlotSets, OneMore
    <3> QED BY <2>1, <3>1
  <2>2. CASE index \notin ConfirmIndexes(journal)
    <3>1. C(index + 1) = C(index) BY <1>2, <2>2, SlotSets, OneMore
    <3> QED BY <2>2, <3>1
  <2> QED BY <2>1, <2>2
<1>7. PICK m, q, l, r, v, e, n :
        /\ m = CurrentImage(journal) /\ q = ImageValidSequence(journal) /\ l = LatestSequence(journal)
        /\ r = Cardinality(RecordIndexes(journal)) /\ v = Cardinality(InvalidIndexes(journal))
        /\ e = Cardinality(ErasedIndexes(journal)) /\ n = NextRecordIndex(journal)
  OBVIOUS
<1>8. PICK a, b : a = Cardinality(A(index)) /\ b = Cardinality(A(index + 1)) OBVIOUS
<1>9. PICK c \in BOOLEAN : c = (C(index) # {}) BY Zenon
<1>10. PICK d \in BOOLEAN : d = (C(index + 1) # {}) BY Zenon
<1>11. summary = [state |-> "EMPTY", metadata_valid |-> FALSE, image |-> m,
             image_valid_sequence |-> q, latest_sequence |-> l,
             boot_attempt_count |-> a, app_confirmed |-> c,
             valid_record_count |-> r, invalid_record_count |-> v,
             erased_record_count |-> e, next_record_index |-> n]
  <2>1. SecondPass BY DEF ScanInv
  <2> QED BY <1>1, <1>7, <1>8, <1>9, <2>1, Zenon DEF SecondPass
<1>12. summary' = [summary EXCEPT !.boot_attempt_count = b, !.app_confirmed = d]
  <2>1. summary.boot_attempt_count = a /\ summary.app_confirmed = c BY <1>11
  <2>2. b = IF IsBound(journal[index]) /\ journal[index].type = "BOOT_ATTEMPT"
            THEN summary.boot_attempt_count + 1 ELSE summary.boot_attempt_count
    BY <1>4, <1>5, <1>8, <2>1
  <2>3. d = (c \/ (IsBound(journal[index]) /\ journal[index].type = "APP_CONFIRMED"))
    BY <1>4, <1>6, <1>9, <1>10, Zenon
  <2>4. summary' = [summary EXCEPT
          !.boot_attempt_count =
             IF IsBound(journal[index]) /\ journal[index].type = "BOOT_ATTEMPT"
             THEN summary.boot_attempt_count + 1 ELSE summary.boot_attempt_count,
          !.app_confirmed =
             summary.app_confirmed \/ (IsBound(journal[index]) /\ journal[index].type = "APP_CONFIRMED")]
    BY DEF CountBound
  <2> QED BY <2>1, <2>2, <2>3, <2>4
<1>13. summary' =
         [state |-> "EMPTY", metadata_valid |-> FALSE, image |-> m,
             image_valid_sequence |-> q, latest_sequence |-> l,
             boot_attempt_count |-> b, app_confirmed |-> d,
             valid_record_count |-> r, invalid_record_count |-> v,
             erased_record_count |-> e, next_record_index |-> n]
  BY <1>11, <1>12
<1>14. SecondPass' BY <1>1, <1>3, <1>7, <1>8, <1>10, <1>13, Zenon DEF SecondPass
<1> QED BY <1>1, <1>2, <1>j, <1>14 DEF ScanInv, LoopType, FirstPass, ScanCorrect

LEMMA ReturnValidStep ==
  ASSUME ScanInv, ReturnValid
  PROVE  ScanInv'
<1>1. /\ pass = "second" /\ index = RecordCount /\ pass' = "done" /\ journal' = journal
      /\ index' = index
  BY DEF ReturnValid
<1>2. /\ Below(AttemptIndexes(journal), index) = AttemptIndexes(journal)
      /\ Below(ConfirmIndexes(journal), index) = ConfirmIndexes(journal)
  BY <1>1, SlotSets, AllPassed
<1>3. MetadataValid(journal) BY <1>1 DEF ScanInv, SecondPass
<1>7. PICK m, q, l, r, v, e, n, a :
        /\ m = CurrentImage(journal) /\ q = ImageValidSequence(journal) /\ l = LatestSequence(journal)
        /\ r = Cardinality(RecordIndexes(journal)) /\ v = Cardinality(InvalidIndexes(journal))
        /\ e = Cardinality(ErasedIndexes(journal)) /\ n = NextRecordIndex(journal)
        /\ a = Cardinality(AttemptIndexes(journal))
  OBVIOUS
<1>9. PICK c \in BOOLEAN : c = (ConfirmIndexes(journal) # {}) BY Zenon
<1>11. summary = [state |-> "EMPTY", metadata_valid |-> FALSE, image |-> m,
             image_valid_sequence |-> q, latest_sequence |-> l,
             boot_attempt_count |-> a, app_confirmed |-> c,
             valid_record_count |-> r, invalid_record_count |-> v,
             erased_record_count |-> e, next_record_index |-> n]
  <2>1. SecondPass BY DEF ScanInv
  <2> QED BY <1>1, <1>2, <1>7, <1>9, <2>1, Zenon DEF SecondPass
<1>12. summary' = [summary EXCEPT !.metadata_valid = TRUE, !.state = "VALID"] BY DEF ReturnValid
<1>13. summary' =
         [state |-> "VALID", metadata_valid |-> TRUE, image |-> m,
             image_valid_sequence |-> q, latest_sequence |-> l,
             boot_attempt_count |-> a, app_confirmed |-> c,
             valid_record_count |-> r, invalid_record_count |-> v,
             erased_record_count |-> e, next_record_index |-> n]
  BY <1>11, <1>12
<1>14. /\ ScanState(journal) = "VALID" /\ MetadataValid(journal) = TRUE
       /\ BootAttemptCount(journal) = a
  BY <1>3, <1>7 DEF ScanState, MetadataValid, BootAttemptCount
<1>15. AppConfirmed(journal) = c BY <1>3, <1>9, Zenon DEF AppConfirmed
<1>16. summary' = Summary(journal)
  BY <1>7, <1>13, <1>14, <1>15, Zenon DEF Summary
<1> QED BY <1>1, <1>16 DEF ScanInv, LoopType, FirstPass, SecondPass, ScanCorrect

-----------------------------------------------------------------------------
(***************************************************************************)
(* BootMetadata_ScanLoadedRecords: the loop invariants of the two passes.  *)
(***************************************************************************)
THEOREM ScanInvariant == ScanSpec => []ScanInv
<1>1. ScanInv /\ [ScanNext]_scan_vars => ScanInv'
  <2> SUFFICES ASSUME ScanInv, [ScanNext]_scan_vars PROVE ScanInv' OBVIOUS
  <2>1. CASE UNCHANGED scan_vars
    BY <2>1 DEF scan_vars, ScanInv, LoopType, FirstPass, SecondPass, ScanCorrect
  <2>2. CASE ScanNext
    BY <2>2, CountErasedStep, CountInvalidStep, CountRecordStep, ReturnDuplicateStep,
       ReturnNoImageStep, CopyImageStep, CountBoundStep, ReturnValidStep DEF ScanNext
  <2> QED BY <2>1, <2>2
<1> QED BY <1>1, ScanInitInv, PTL DEF ScanSpec

(***************************************************************************)
(* The scan returns the summary the rest of the specifications use, for a  *)
(* journal of any length and any content, repeated and unordered sequence  *)
(* numbers included.                                                       *)
(***************************************************************************)
THEOREM ScanIsCorrect == ScanSpec => []ScanCorrect
<1>1. ScanInv => ScanCorrect BY DEF ScanInv
<1> QED BY <1>1, ScanInvariant, PTL

=============================================================================
