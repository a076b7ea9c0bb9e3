----------------------------- MODULE MCCoalescer -----------------------------
(* Instance of Coalescer: three requests, one too large to batch, and one  *)
(* of higher priority than the others that the script rejects.             *)
EXTENDS Coalescer

CONSTANTS a, b, c

Priority == [i \in Items |-> IF i = b THEN 0 ELSE 1]
=============================================================================
