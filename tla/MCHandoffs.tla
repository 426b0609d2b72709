------------------------------- MODULE MCHandoffs -------------------------------
(***************************************************************************)
(* Instances of Handoffs for TLC.                                          *)
(***************************************************************************)
EXTENDS Handoffs, TLC

MCSymmetry == Permutations(Offer) \cup Permutations(Principal)

=============================================================================
