-------------------------- MODULE MCConferenceVideo --------------------------
(***************************************************************************)
(* Instances of ConferenceVideo for TLC: every constant is given by the    *)
(* configuration.                                                          *)
(***************************************************************************)
EXTENDS ConferenceVideo
=============================================================================
