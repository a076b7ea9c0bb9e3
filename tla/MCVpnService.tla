---------------------------- MODULE MCVpnService ----------------------------
(* Model-checking instance of VpnService: worker threads, clients and      *)
(* profiles are interchangeable.                                           *)
EXTENDS VpnService, TLC

Symmetry == Permutations(Workers) \cup Permutations(Clients) \cup Permutations(Profiles)
=============================================================================
