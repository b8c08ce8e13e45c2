---------------------------- MODULE MCPublication ----------------------------
(* A small instance of Publication: one listing that is published and           *)
(* unpublished by requests that race, and one other source of readiness.       *)
EXTENDS Publication, TLC

MCSymmetry == Permutations(Requests) \cup Permutations(Rows)
==============================================================================
