---------------------------- MODULE MCBlobCache ----------------------------
(***************************************************************************)
(* Instances of BlobCache for TLC.  Search processes are interchangeable.  *)
(***************************************************************************)
EXTENDS BlobCache, TLC

Symmetry == Permutations(Proc)
=============================================================================
