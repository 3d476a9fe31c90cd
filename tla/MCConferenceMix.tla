--------------------------- MODULE MCConferenceMix ---------------------------
(***************************************************************************)
(* Instances of ConferenceMix for TLC.                                     *)
(***************************************************************************)
EXTENDS ConferenceMix

MCSamples == {-1, 2}
MCLo == -2
MCNoise == {<<2, -2>>}
MCUnheard == {<<1, 2>>}
=============================================================================
