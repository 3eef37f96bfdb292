-------------------------- MODULE MC_FlashService --------------------------
(***************************************************************************)
(* Instances of the flash service for TLC.  The journal instance has one   *)
(* application unit and three slots: a whole lifecycle fits, the journal   *)
(* fills up, and an attempt beyond the limit still has a slot to go to.    *)
(* The transfer instance has two units in the second sector and a single   *)
(* slot in the first, so that transfers of several packets, packets of     *)
(* several units, partly programmed packets, erases that spare the units   *)
(* and erases of both sectors happen.                                      *)
(***************************************************************************)
EXTENDS FlashService, TLC

CONSTANTS imgA, imgB

ImageSymmetry == Permutations({imgA, imgB})

OneImage == {imgA}
TwoImages == {imgA, imgB}
OneSector == [u \in Units |-> 1]
SecondSector == [u \in Units |-> 2]
TransferFaults == {"init", "erase", "program"}
JournalFaults == {"init", "erase", "journal"}

=============================================================================
