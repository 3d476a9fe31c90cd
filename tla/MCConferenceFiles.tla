-------------------------- MODULE MCConferenceFiles --------------------------
(***************************************************************************)
(* Instances of ConferenceFiles for TLC: every constant is given by the    *)
(* configuration.                                                          *)
(***************************************************************************)
EXTENDS ConferenceFiles
=============================================================================
