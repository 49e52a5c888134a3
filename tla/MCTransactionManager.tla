------------------------ MODULE MCTransactionManager -------------------------
(***************************************************************************)
(* Instances of TransactionManager for TLC.  Page images are model values, *)
(* interchangeable, so permuting them is a symmetry of the specification.  *)
(***************************************************************************)
EXTENDS TransactionManager, TLC

ImageSymmetry == Permutations(Values)
=============================================================================
