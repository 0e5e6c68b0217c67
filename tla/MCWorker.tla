------------------------------ MODULE MCWorker ------------------------------
(* Small instances of Worker for TLC.                                      *)
EXTENDS Worker

\* Ids are only compared with each other.
IdSymmetry == Permutations(Id)
=============================================================================
