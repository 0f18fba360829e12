----------------------------- MODULE MCDebouncer -----------------------------
(***************************************************************************)
(* The instance of Debouncer that debouncing.cfg gives: a tag under a      *)
(* portal and one under none.  EventuallyObserved is a liveness property,  *)
(* so there is no symmetry set.                                            *)
(***************************************************************************)
EXTENDS Debouncer, TLC

=============================================================================
