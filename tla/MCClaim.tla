------------------------------ MODULE MCClaim ------------------------------
(* Values for the constants of Claim that a configuration cannot write. *)
EXTENDS Claim, TLC

\* The identifier of the second airdrop extends that of the first.
MCExtends == [a \in Identifiers |-> {b \in Identifiers : a = "s" \/ b = a}]

\* The first airdrop has its recipients from genesis, the second is allocated later.
MCGenesisWeight == [a \in Identifiers |-> [u \in Users |-> IF a = "s" THEN 1 ELSE 0]]

\* The negative weight takes the total of an airdrop to 1, to 0 and below, shares the
\* pool with other negative ones, and hides a part of the positive one in the total.
MCBothSigns == {-1, 2}

\* A sole recipient has shares of 3 that are rounded to 4 in all.
MCGenesisBalance == [a \in Identifiers |-> IF a = "s" THEN 1 ELSE 3]

UserSymmetry == Permutations(Users)
=============================================================================
