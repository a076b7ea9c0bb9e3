---------------------------- MODULE MCTunEngine ----------------------------
(* Flow objects are taken as they are needed: which one makes no difference. *)
EXTENDS TunEngine, TLC

FlowSymmetry == Permutations(Flows)
=============================================================================
