------------------------- MODULE MCConferenceRecord -------------------------
(***************************************************************************)
(* Instances of ConferenceRecord for TLC: every constant is given by the   *)
(* configuration.                                                          *)
(***************************************************************************)
EXTENDS ConferenceRecord
=============================================================================
