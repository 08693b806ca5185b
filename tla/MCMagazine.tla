------------------------------ MODULE MCMagazine ------------------------------
(* Magazine.tla with interchangeable sessions.                             *)
EXTENDS Magazine

Interchangeable == Permutations(Sessions)
=============================================================================
