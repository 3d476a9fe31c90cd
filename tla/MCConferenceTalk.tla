--------------------------- MODULE MCConferenceTalk ---------------------------
(***************************************************************************)
(* Instances of ConferenceTalk for TLC: every constant is given by the     *)
(* configurations.                                                         *)
(***************************************************************************)
EXTENDS ConferenceTalk
=============================================================================
