------------------------------ MODULE MCMining ------------------------------
(* A small instance of Mining: a fresh chain, and one that pays already.   *)
EXTENDS Mining

MCStarts == {0, 4}

=============================================================================
