----------------------------- MODULE MCDeposits -----------------------------
(* Instances of DepositRecords for model checking; the constants are set in *)
(* the configurations.  Decimals have one digit after the point.            *)
EXTENDS DepositRecords
=============================================================================
