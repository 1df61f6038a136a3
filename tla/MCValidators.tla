---------------------------- MODULE MCValidators ----------------------------
(* Values for the constants of Validators that a configuration cannot write. *)
EXTENDS Validators

\* One validator is new, the other has all the stake.
MCValidators == <<[addr |-> 1, weight |-> 3, amt |-> 0], [addr |-> 2, weight |-> 3, amt |-> 6]>>

\* Two validators have too much, by 3 and by 2; two too little, by 1 and by 4.
MCUnbalanced == [i \in 1..4 |-> [addr |-> i, weight |-> 1, amt |-> <<7, 6, 3, 0>>[i]]]
=============================================================================
