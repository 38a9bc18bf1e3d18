----------------------------- MODULE MCSwapFlow -----------------------------
(* Instances of SwapFlow for TLC. Operations and routers are alike. *)
EXTENDS SwapFlow, TLC

OpSymmetry == Permutations(Ops) \cup Permutations(Routers)

=============================================================================
