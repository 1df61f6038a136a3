---------------------------- MODULE MCUnbonding ----------------------------
(* Instances of UnbondingRecords for model checking; the constants are set  *)
(* in the configurations.  Decimals count quarters.                         *)
EXTENDS UnbondingRecords, TLC

\* Users differ in nothing but their names.
UserSymmetry == Permutations(Users)
=============================================================================
