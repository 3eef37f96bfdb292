------------------------ MODULE MC_MetadataScanLoop ------------------------
(***************************************************************************)
(* Four slots, two images and sequences 1..3: enough for two IMAGE_VALID  *)
(* records in either physical order with a bound or unbound record between *)
(* them, for every pair of repeated sequences, and for holes in any place. *)
(***************************************************************************)
EXTENDS MetadataScanLoop

CONSTANTS imgA, imgB

MCImages == {imgA, imgB}
MCSequences == 1 .. 3

=============================================================================
