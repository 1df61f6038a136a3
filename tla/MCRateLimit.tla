----------------------------- MODULE MCRateLimit -----------------------------
(* Values for the constants of RateLimit that a configuration cannot write. *)
EXTENDS RateLimit, TLC

\* A zone's stToken is native; the zone's own token is a voucher.
MCOrigin == [d \in Denoms |-> IF d = "stToken" THEN "stride" ELSE "channel"]

\* A quota for both directions that truncates, and one that only lets tokens out.
MCQuotas == {[MaxPercentSend |-> 50, MaxPercentRecv |-> 50, DurationHours |-> 2],
             [MaxPercentSend |-> 100, MaxPercentRecv |-> 0, DurationHours |-> 1]}

MCSupply == [d \in Denoms |-> IF d = "stToken" THEN 1 ELSE 3]
MCAbroad == [p \in Path |-> IF p[1] = "stToken" THEN 0 ELSE 2]

\* Packets are told apart by nothing but their names.
PacketSymmetry == Permutations(PacketIds)
=============================================================================
