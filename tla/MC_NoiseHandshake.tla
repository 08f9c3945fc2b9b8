------------------------- MODULE MC_NoiseHandshake -------------------------
(* Model-checking instance of NoiseHandshake: two initiators and two      *)
(* responders (model values in the cfg), certificates of duration 0       *)
(* (never valid, the spec's S2) and 1, and a clock of three instants so   *)
(* that a certificate can be issued early and have expired when checked. *)
EXTENDS NoiseHandshake, TLC

MCDurations == {0, 1}
MCMaxTime   == 2

\* Initiators are interchangeable, and so are responders (safety only).
MCSymmetry == Permutations(Initiators) \cup Permutations(Responders)
=============================================================================
