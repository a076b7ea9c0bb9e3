----------------------------- MODULE MCWorkerHub -----------------------------
(***************************************************************************)
(* Batches as the client sends them: an open goes with the first rx or tx  *)
(* of its session, later operations go alone.                              *)
(***************************************************************************)
EXTENDS WorkerHub

MCBatches == {<<"open", "rx">>, <<"open", "tx">>, <<"tx">>, <<"rx">>, <<"close">>}
MCReads == {<<"open", "rx">>, <<"rx">>}

Symmetry == Permutations(Requests) \cup Permutations(Objs)
=============================================================================
