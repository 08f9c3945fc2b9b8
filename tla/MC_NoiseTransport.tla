------------------------- MODULE MC_NoiseTransport --------------------------
(* Model-checking instance of NoiseTransport: both directions of a        *)
(* session, two plaintexts so that a replayed or reordered frame differs  *)
(* from the expected one, and three frames per direction so that the     *)
(* attacker can deliver a later frame before an earlier one and replay   *)
(* one already read.                                                       *)
EXTENDS NoiseTransport

MCMaxFrames == 3
=============================================================================
