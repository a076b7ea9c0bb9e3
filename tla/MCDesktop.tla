------------------------------ MODULE MCDesktop ------------------------------
(* Model-checking instance of Desktop: requests and connections are        *)
(* interchangeable.                                                        *)
EXTENDS Desktop, TLC

MCHosts == {<<"www", "google", "com">>, <<"gemini", "google", "com">>, <<"digikala", "com">>}

Symmetry == Permutations(Requests) \cup Permutations(Conns)
=============================================================================
