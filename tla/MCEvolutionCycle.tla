-------------------------- MODULE MCEvolutionCycle --------------------------
(* Instances of EvolutionCycle: a cosmetic mutation, a replaced text and a test of the
   same plan. *)
EXTENDS EvolutionStages, TLC

CONSTANTS p1, p2, note, swap, plan, area

SomeKinds == (note :> "AppendComment") @@ (swap :> "ReplaceText")
Symmetry == Permutations(Proc)
SomePatterns == (note :> {area}) @@ (swap :> {plan})
=============================================================================
