------------------------------ MODULE MCUploads ------------------------------
(* The instance of Uploads for model checking.                             *)
EXTENDS Uploads, TLC

Symmetry == Permutations(Worker)
=============================================================================
