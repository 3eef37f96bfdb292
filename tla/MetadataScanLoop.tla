------------------------- MODULE MetadataScanLoop --------------------------
(***************************************************************************)
(* BootMetadata_ScanLoadedRecords as it runs: two passes over the journal  *)
(* that keep a handful of running values.  The journal may hold anything,  *)
(* because the scanner runs on whatever a power loss, an interrupted erase *)
(* or an older tool left in Flash, so the initial journal is any function  *)
(* from slots to slot values.  ScanCorrect compares the outcome with the   *)
(* declarative Summary of MetadataRecords, which the other modules use.    *)
(***************************************************************************)
EXTENDS MetadataRecords

CONSTANT
  Sequences32    \* the sequence numbers a stored record may carry

ASSUME Sequences32Assumption == Sequences32 \subseteq Nat

VARIABLES
  journal,       \* the slots being scanned; never written by the scan
  pass,          \* "first", "second" or "done"
  index,         \* the loop variable of the current pass
  latest_record, \* with has_latest
  image_record,  \* with has_image
  sequences,     \* the sequence numbers seen so far
  summary        \* the BootMetadataSummary under construction

scan_vars == <<journal, pass, index, latest_record, image_record, sequences, summary>>

StoredSlots ==
  {Erased, Invalid} \cup
  [type : RecordTypes, sequence : Sequences32, image : Images]

\* duplicate_sequence is kept in the summary's state until the pass ends.
InitSummary ==
  [state |-> "EMPTY", metadata_valid |-> FALSE, image |-> NoImage,
   image_valid_sequence |-> 0, latest_sequence |-> 0,
   boot_attempt_count |-> 0, app_confirmed |-> FALSE,
   valid_record_count |-> 0, invalid_record_count |-> 0,
   erased_record_count |-> 0, next_record_index |-> InvalidIndex]

ScanInit ==
  /\ journal \in [Indexes -> StoredSlots]
  /\ pass = "first"
  /\ index = 0
  /\ latest_record = Erased
  /\ image_record = Erased
  /\ sequences = {}
  /\ summary = InitSummary

\* A record replaces the best one so far only with a higher sequence, so of
\* two records with one sequence the first in physical order is kept.
Newer(record, best) == IsErased(best) \/ record.sequence > best.sequence

CountErased ==
  /\ pass = "first" /\ index < RecordCount
  /\ IsErased(journal[index])
  /\ summary' = [summary EXCEPT
       !.erased_record_count = @ + 1,
       !.next_record_index = IF @ = InvalidIndex THEN index ELSE @]
  /\ index' = index + 1
  /\ UNCHANGED <<journal, pass, latest_record, image_record, sequences>>

CountInvalid ==
  /\ pass = "first" /\ index < RecordCount
  /\ ~IsErased(journal[index]) /\ ~IsRecord(journal[index])
  /\ summary' = [summary EXCEPT !.invalid_record_count = @ + 1]
  /\ index' = index + 1
  /\ UNCHANGED <<journal, pass, latest_record, image_record, sequences>>

CountRecord ==
  LET record == journal[index] IN
  /\ pass = "first" /\ index < RecordCount
  /\ IsRecord(record)
  /\ summary' = [summary EXCEPT
       !.valid_record_count = @ + 1,
       !.state = IF record.sequence \in sequences
                 THEN "DUPLICATE_SEQUENCE" ELSE @]
  /\ sequences' = sequences \cup {record.sequence}
  /\ latest_record' = IF Newer(record, latest_record) THEN record ELSE latest_record
  /\ image_record' = IF IsImageValid(record) /\ Newer(record, image_record)
                     THEN record ELSE image_record
  /\ index' = index + 1
  /\ UNCHANGED <<journal, pass>>

\* Between the passes: the latest sequence is published, and the two early
\* returns leave the image fields of the summary untouched.
LatestPublished ==
  [summary EXCEPT
     !.latest_sequence = IF IsErased(latest_record) THEN 0 ELSE latest_record.sequence]

ReturnDuplicate ==
  /\ pass = "first" /\ index = RecordCount
  /\ summary.state = "DUPLICATE_SEQUENCE"
  /\ summary' = LatestPublished
  /\ pass' = "done"
  /\ UNCHANGED <<journal, index, latest_record, image_record, sequences>>

ReturnNoImage ==
  /\ pass = "first" /\ index = RecordCount
  /\ summary.state # "DUPLICATE_SEQUENCE"
  /\ IsErased(image_record)
  /\ summary' = [LatestPublished EXCEPT
       !.state = IF summary.valid_record_count + summary.invalid_record_count = 0
                 THEN "EMPTY" ELSE "INVALID"]
  /\ pass' = "done"
  /\ UNCHANGED <<journal, index, latest_record, image_record, sequences>>

CopyImageToSummary ==
  /\ pass = "first" /\ index = RecordCount
  /\ summary.state # "DUPLICATE_SEQUENCE"
  /\ ~IsErased(image_record)
  /\ summary' = [LatestPublished EXCEPT
       !.image = image_record.image, !.image_valid_sequence = image_record.sequence]
  /\ pass' = "second"
  /\ index' = 0
  /\ UNCHANGED <<journal, latest_record, image_record, sequences>>

\* Mutant: the second pass forgets to compare sequence numbers.
MutantBoundAnyOrder(slot) == IsRecord(slot) /\ slot.image = image_record.image

\* The second pass counts what is bound to the selected image.
IsBound(slot) ==
  /\ IsRecord(slot)
  /\ slot.sequence > image_record.sequence
  /\ slot.image = image_record.image

CountBound ==
  LET slot == journal[index] IN
  /\ pass = "second" /\ index < RecordCount
  /\ summary' = [summary EXCEPT
       !.boot_attempt_count =
          IF IsBound(slot) /\ slot.type = "BOOT_ATTEMPT" THEN @ + 1 ELSE @,
       !.app_confirmed =
          @ \/ (IsBound(slot) /\ slot.type = "APP_CONFIRMED")]
  /\ index' = index + 1
  /\ UNCHANGED <<journal, pass, latest_record, image_record, sequences>>

ReturnValid ==
  /\ pass = "second" /\ index = RecordCount
  /\ summary' = [summary EXCEPT !.metadata_valid = TRUE, !.state = "VALID"]
  /\ pass' = "done"
  /\ UNCHANGED <<journal, index, latest_record, image_record, sequences>>

ScanNext ==
  \/ CountErased \/ CountInvalid \/ CountRecord
  \/ ReturnDuplicate \/ ReturnNoImage \/ CopyImageToSummary
  \/ CountBound \/ ReturnValid

ScanSpec == ScanInit /\ [][ScanNext]_scan_vars

-----------------------------------------------------------------------------
(***************************************************************************)
(* The two-pass scan returns, for every journal content, exactly what the  *)
(* journal contract means: the current image is the IMAGE_VALID with the   *)
(* highest sequence, only later records with its identity count for it,    *)
(* any repeated sequence distrusts the journal as a whole, and the next    *)
(* slot to write is the first erased one.                                  *)
(***************************************************************************)
ScanCorrect == pass = "done" => summary = Summary(journal)

=============================================================================
