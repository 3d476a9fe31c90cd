---------------------- MODULE MCConferenceRoomDirectory ----------------------
(***************************************************************************)
(* Instances of ConferenceRoomDirectory for TLC: every constant is given   *)
(* by the configurations.                                                  *)
(***************************************************************************)
EXTENDS ConferenceRoomDirectory, TLC

\* Sound for the refinement too: RoomDirectory states no fairness and treats all
\* rooms alike.
ObjectSymmetry == Permutations(Confs)
=============================================================================
