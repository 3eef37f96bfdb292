-------------------------- MODULE TrustLifecycle ---------------------------
(***************************************************************************)
(* What the metadata journal promises to its readers (the RUN command, the *)
(* automatic boot policy, the PC), with no journal in sight: which image   *)
(* is trusted, how many boots of it were attempted, and whether the        *)
(* application confirmed it.  The flash service implements this            *)
(* specification through power losses and failing Flash operations.        *)
(***************************************************************************)
EXTENDS Naturals

CONSTANTS Images, NoImage, AttemptLimit

VARIABLES
  image,      \* the trusted image, or NoImage
  attempts,   \* boots attempted in its lifecycle
  confirmed   \* the application confirmed it

lifecycle == <<image, attempts, confirmed>>

Init == image = NoImage /\ attempts = 0 /\ confirmed = FALSE

\* Trust is given up as a whole, never in part.
Revoke == image' = NoImage /\ attempts' = 0 /\ confirmed' = FALSE

\* A newly published image starts a lifecycle of its own, even when it is
\* the same image again.
Publish ==
  /\ image' \in Images
  /\ attempts' = 0
  /\ confirmed' = FALSE

Attempt ==
  /\ image # NoImage
  /\ ~confirmed
  /\ attempts < AttemptLimit
  /\ attempts' = attempts + 1
  /\ UNCHANGED <<image, confirmed>>

Confirm ==
  /\ image # NoImage
  /\ attempts > 0
  /\ ~confirmed
  /\ confirmed' = TRUE
  /\ UNCHANGED <<image, attempts>>

Next == Revoke \/ Publish \/ Attempt \/ Confirm

Spec == Init /\ [][Next]_lifecycle

=============================================================================
