------------------------- MODULE RedemptionLifecycle -------------------------
(***************************************************************************)
(* What the unbonding pipeline promises for the redemptions, without       *)
(* packets, channels, callbacks and balances.  The redemptions of a day    *)
(* and a zone are one batch: it is collected, undelegated, unbonded and    *)
(* swept together, and from then on each redemption in it is paid once.    *)
(* A batch is dropped only when none of its redemptions is owed any more.  *)
(* UnbondingRecords implements it.                                         *)
(***************************************************************************)
EXTENDS Naturals

CONSTANTS
    Days,     \* names of the days that have batches
    Zones,
    Users

VARIABLES
    batch,      \* stage of the batch of a day and a zone
    redemption  \* stage and amount of a user's redemption in it

Redemption(stage, amount) == [stage |-> stage, amount |-> amount]
None == Redemption("none", 0)

Init ==
    /\ batch \in [Days -> [Zones -> {"none", "collecting"}]]
    /\ redemption = [d \in Days |-> [z \in Zones |-> [u \in Users |-> None]]]

\* The batches of the days before are closed, those that owe nothing dropped,
\* and the new day's batches opened under a name that is free.
NewDay(dropped, new, opened) ==
    /\ new \in dropped
    /\ \A d \in dropped, z \in Zones, u \in Users : redemption[d][z][u] = None
    /\ batch' = [d \in Days |-> [z \in Zones |->
          IF d = new /\ z \in opened THEN "collecting"
          ELSE IF d \in dropped THEN "none"
          ELSE IF batch[d][z] = "collecting" THEN "queued" ELSE batch[d][z]]]
    /\ UNCHANGED redemption

\* The batches in moved of a zone take a step from one stage to another.
Move(moved, z, from, to) ==
    /\ \A d \in moved : batch[d][z] = from
    /\ batch' = [d \in Days |-> [y \in Zones |->
          IF d \in moved /\ y = z THEN to ELSE batch[d][y]]]
    /\ UNCHANGED redemption

\* The host has undelegated or swept some batches, but the news of it is lost.
LoseNews(forgotten, z) ==
    /\ \A d \in forgotten : batch[d][z] \in {"undelegated", "swept"}
    /\ batch' = [d \in Days |-> [y \in Zones |->
          IF d \in forgotten /\ y = z
          THEN IF batch[d][y] = "swept" THEN "unbonding" ELSE "queued"
          ELSE batch[d][y]]]
    /\ UNCHANGED redemption

\* A user's redemption is written alone.
Becomes(d, z, u, r) ==
    /\ redemption' = [redemption EXCEPT ![d][z][u] = r]
    /\ UNCHANGED batch

Redeem(d, z, u) ==
    /\ batch[d][z] = "collecting"
    /\ redemption[d][z][u] = None
    /\ redemption'[d][z][u].amount > 0
    /\ Becomes(d, z, u, Redemption("owed", redemption'[d][z][u].amount))

Pay(d, z, u) ==
    /\ batch[d][z] = "claimable"
    /\ redemption[d][z][u].stage = "owed"
    /\ Becomes(d, z, u, Redemption("paid", redemption[d][z][u].amount))

Settle(d, z, u) ==
    /\ redemption[d][z][u].stage = "paid"
    /\ Becomes(d, z, u, None)

Next ==
    \/ \E dropped \in SUBSET Days, new \in Days, opened \in SUBSET Zones :
         NewDay(dropped, new, opened)
    \/ \E moved \in SUBSET Days, z \in Zones :
         \/ Move(moved, z, "queued", "undelegated")
         \/ Move(moved, z, "undelegated", "unbonding")
         \/ Move(moved, z, "unbonding", "swept")
         \/ Move(moved, z, "swept", "claimable")
         \/ LoseNews(moved, z)
    \/ \E d \in Days, z \in Zones, u \in Users :
         \/ Redeem(d, z, u)
         \/ Pay(d, z, u)
         \/ Settle(d, z, u)

Spec == Init /\ [][Next]_<<batch, redemption>>
=============================================================================
