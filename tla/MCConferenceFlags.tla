-------------------------- MODULE MCConferenceFlags --------------------------
(***************************************************************************)
(* Instances of ConferenceFlags for TLC.                                   *)
(***************************************************************************)
EXTENDS ConferenceFlags, TLC

\* Callers and administrators are interchangeable.
Symmetry == Permutations(Callers) \cup Permutations(Admins)
=============================================================================
