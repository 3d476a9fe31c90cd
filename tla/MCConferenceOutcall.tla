-------------------------- MODULE MCConferenceOutcall --------------------------
(***************************************************************************)
(* Instances of ConferenceOutcall for TLC: every constant is given by the  *)
(* configurations.                                                         *)
(***************************************************************************)
EXTENDS ConferenceOutcall
=============================================================================
