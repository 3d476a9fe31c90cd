------------------------- MODULE MCConferenceRoom -------------------------
(***************************************************************************)
(* Instances of ConferenceRoom for TLC: the callers, recorders, admins and *)
(* objects are model values given by the configurations.                   *)
(***************************************************************************)
EXTENDS ConferenceRoom, TLC

\* Objects that hold nothing are interchangeable; callers are not, because the
\* constants Bridge, Secure, EndConf and MinTwo tell them apart.
ObjectSymmetry == Permutations(Confs)
=============================================================================
