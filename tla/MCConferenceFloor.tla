-------------------------- MODULE MCConferenceFloor --------------------------
(***************************************************************************)
(* Instances of ConferenceFloor for TLC.                                   *)
(***************************************************************************)
EXTENDS ConferenceFloor, TLC

\* Members of a kind are interchangeable.
MemberSymmetry == Permutations(Video) \cup Permutations(Callers \ Video)
                  \cup Permutations(Recorders)
=============================================================================
