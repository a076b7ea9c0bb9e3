---------------------------- MODULE MCExitTunnel ----------------------------
(* Model-checking instance of ExitTunnel: connections and workers are      *)
(* interchangeable, as are the ids.                                        *)
EXTENDS ExitTunnel, TLC

Symmetry == Permutations(Ids) \cup Permutations(Conns) \cup Permutations(Workers)
=============================================================================
