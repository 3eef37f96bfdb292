-------------------------- MODULE MetadataRecords --------------------------
(***************************************************************************)
(* The Slot A metadata journal as data: the records that fit a slot, and   *)
(* the summary that BootMetadata_ScanFlashRecords derives from a journal.  *)
(* No variables: the bootloader core, the flash service and the automatic  *)
(* boot policy all read the journal through these operators.               *)
(*                                                                         *)
(* A slot is 64 words of Flash.  What the scanner can tell apart is         *)
(* whether the words are all 0xFFFF (ERASED), fail validation (INVALID:    *)
(* wrong magic, version, length, type, slot, CRC or application fields) or *)
(* hold a record.  The identity a record is bound to (entry point, size    *)
(* and CRC, compared by BootMetadata_RecordMatchesImage) is a value of     *)
(* Images.  That a torn record never passes its CRC is the one assumption. *)
(***************************************************************************)
EXTENDS Integers, FiniteSets

CONSTANTS
  RecordCount,   \* BOOT_METADATA_RECORD_COUNT: slots in the journal
  AttemptLimit,  \* BOOT_METADATA_BOOT_ATTEMPT_LIMIT
  Images,        \* image identities with acceptable application fields
  NoImage        \* the identity of a slot or summary without an image

ASSUME RecordCountAssumption == RecordCount \in Nat \ {0}
ASSUME AttemptLimitAssumption == AttemptLimit \in Nat \ {0}
ASSUME NoImageAssumption == NoImage \notin Images

Indexes == 0 .. RecordCount - 1
InvalidIndex == RecordCount     \* BOOT_METADATA_INVALID_INDEX: no free slot

RecordTypes == {"IMAGE_VALID", "BOOT_ATTEMPT", "APP_CONFIRMED"}

(***************************************************************************)
(* The values of a slot.  All have the same fields, so that a slot can be  *)
(* examined without first testing what it is.                              *)
(***************************************************************************)
Erased == [type |-> "ERASED", sequence |-> 0, image |-> NoImage]
Invalid == [type |-> "INVALID", sequence |-> 0, image |-> NoImage]
Record(type, sequence, image) ==
  [type |-> type, sequence |-> sequence, image |-> image]

Slots ==
  {Erased, Invalid} \cup
  [type : RecordTypes, sequence : 1 .. RecordCount, image : Images]

IsErased(slot) == slot.type = "ERASED"
IsRecord(slot) == slot.type \in RecordTypes
IsImageValid(slot) == slot.type = "IMAGE_VALID"

-----------------------------------------------------------------------------
(***************************************************************************)
(* What one scan of journal j finds.                                       *)
(***************************************************************************)
RecordIndexes(j) == {i \in Indexes : IsRecord(j[i])}
ErasedIndexes(j) == {i \in Indexes : IsErased(j[i])}
InvalidIndexes(j) == Indexes \ (RecordIndexes(j) \cup ErasedIndexes(j))
ImageIndexes(j) == {i \in Indexes : IsImageValid(j[i])}

\* Mutants: the scan keeps the last erased slot; it takes an invalid slot for
\* a free one.
MutantLastErased(j) ==
  IF ErasedIndexes(j) = {} THEN InvalidIndex
  ELSE CHOOSE i \in ErasedIndexes(j) : \A k \in ErasedIndexes(j) : k <= i

MutantReuseInvalid(j) ==
  LET free == Indexes \ RecordIndexes(j) IN
  IF free = {} THEN InvalidIndex
  ELSE CHOOSE i \in free : \A k \in free : i <= k

\* The first erased slot in physical order is the one written next.
NextRecordIndex(j) ==
  IF ErasedIndexes(j) = {} THEN InvalidIndex
  ELSE CHOOSE i \in ErasedIndexes(j) : \A k \in ErasedIndexes(j) : i <= k

LatestSequence(j) ==
  IF RecordIndexes(j) = {} THEN 0
  ELSE CHOOSE n \in {j[i].sequence : i \in RecordIndexes(j)} :
         \A i \in RecordIndexes(j) : j[i].sequence <= n

\* The number of the record that an append writes.
NextSequence(j) == IF RecordIndexes(j) = {} THEN 1 ELSE LatestSequence(j) + 1

DuplicateSequence(j) ==
  \E i, k \in RecordIndexes(j) : i # k /\ j[i].sequence = j[k].sequence

\* The index of the IMAGE_VALID record with the highest sequence.
ImageIndex(j) ==
  CHOOSE i \in ImageIndexes(j) :
    \A k \in ImageIndexes(j) : j[k].sequence <= j[i].sequence

MetadataValid(j) == ImageIndexes(j) # {} /\ ~DuplicateSequence(j)

\* Records written after the current IMAGE_VALID for the same identity.
BoundIndexes(j, type) ==
  {i \in Indexes : /\ j[i].type = type
                   /\ j[i].sequence > j[ImageIndex(j)].sequence
                   /\ j[i].image = j[ImageIndex(j)].image}

AttemptIndexes(j) == BoundIndexes(j, "BOOT_ATTEMPT")
ConfirmIndexes(j) == BoundIndexes(j, "APP_CONFIRMED")

CurrentImage(j) == IF MetadataValid(j) THEN j[ImageIndex(j)].image ELSE NoImage
ImageValidSequence(j) == IF MetadataValid(j) THEN j[ImageIndex(j)].sequence ELSE 0
BootAttemptCount(j) ==
  IF MetadataValid(j) THEN Cardinality(AttemptIndexes(j)) ELSE 0
AppConfirmed(j) == MetadataValid(j) /\ ConfirmIndexes(j) # {}

ScanState(j) ==
  CASE DuplicateSequence(j) -> "DUPLICATE_SEQUENCE"
    [] ~DuplicateSequence(j) /\ ImageIndexes(j) # {} -> "VALID"
    [] ~DuplicateSequence(j) /\ ImageIndexes(j) = {} ->
         IF ErasedIndexes(j) = Indexes THEN "EMPTY" ELSE "INVALID"

\* The summary BootMetadata_ScanFlashRecords hands to its callers.
Summary(j) ==
  [state |-> ScanState(j),
   metadata_valid |-> MetadataValid(j),
   image |-> CurrentImage(j),
   image_valid_sequence |-> ImageValidSequence(j),
   latest_sequence |-> LatestSequence(j),
   boot_attempt_count |-> BootAttemptCount(j),
   app_confirmed |-> AppConfirmed(j),
   valid_record_count |-> Cardinality(RecordIndexes(j)),
   invalid_record_count |-> Cardinality(InvalidIndexes(j)),
   erased_record_count |-> Cardinality(ErasedIndexes(j)),
   next_record_index |-> NextRecordIndex(j)]

-----------------------------------------------------------------------------
\* The journal after an append of x, and the order that appends keep: erased
\* slots come last, sequence numbers grow with the slot index, and a number
\* is at most one more than the index of its slot.
Appended(j, x) == [j EXCEPT ![NextRecordIndex(j)] = x]

ErasedSlotsLast(j) ==
  \A i, k \in Indexes : i < k /\ IsErased(j[i]) => IsErased(j[k])

SequencesGrow(j) ==
  \A i, k \in RecordIndexes(j) : i < k => j[i].sequence < j[k].sequence

SequencesBounded(j) == \A i \in RecordIndexes(j) : j[i].sequence <= i + 1

OrderedJournal(j) ==
  ErasedSlotsLast(j) /\ SequencesGrow(j) /\ SequencesBounded(j)

=============================================================================
