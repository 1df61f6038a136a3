-------------------------- MODULE DepositLifecycle --------------------------
(***************************************************************************)
(* What the stride-epoch pipeline promises for a deposit, without queues,  *)
(* packets, channels and callbacks: the tokens are collected on stride,    *)
(* travel to the host, are staked there, and only then does the deposit    *)
(* leave the books.  The amount is fixed once the tokens have left stride. *)
(* DepositRecords implements it.                                           *)
(***************************************************************************)
EXTENDS Naturals

CONSTANT Ids      \* names of deposits

VARIABLE deposit  \* stage and amount of each deposit

Stages == {"none", "collecting", "transit", "onHost", "staked"}
Deposit(stage, amount) == [stage |-> stage, amount |-> amount]
None == Deposit("none", 0)

Init == deposit \in [Ids -> {None, Deposit("collecting", 0)}]

\* One deposit changes from before to after ...

\* ... at a stride epoch: opened for the new epoch, dropped because nobody
\* deposited anything, or sent to the host.
EpochStep(before, after) ==
    \/ before.stage = "none" /\ after = Deposit("collecting", 0)
    \/ before = Deposit("collecting", 0) /\ after = None
    \/ /\ before.stage = "collecting" /\ before.amount > 0
       /\ after = Deposit("transit", before.amount)

\* ... or when the host has staked it but the news of it is lost.
LoseNews(before, after) ==
    before.stage = "staked" /\ after = Deposit("onHost", before.amount)

\* A step that any number of deposits take together.
Together(Step(_, _)) ==
    /\ DOMAIN deposit' = Ids
    /\ \A i \in Ids : deposit'[i] = deposit[i] \/ Step(deposit[i], deposit'[i])

\* The deposit i is written alone.
Becomes(i, d) == deposit' = [deposit EXCEPT ![i] = d]

Move(i, from, to) ==
    /\ deposit[i].stage = from
    /\ Becomes(i, Deposit(to, deposit[i].amount))

Add(i) ==
    /\ deposit[i].stage = "collecting"
    /\ deposit'[i].amount > deposit[i].amount
    /\ Becomes(i, Deposit("collecting", deposit'[i].amount))

Reinvest(i) ==
    /\ deposit[i].stage = "none"
    /\ deposit'[i].amount > 0
    /\ Becomes(i, Deposit("onHost", deposit'[i].amount))

Retire(i) ==
    /\ deposit[i].stage = "staked"
    /\ Becomes(i, None)

Next ==
    \/ Together(EpochStep)
    \/ Together(LoseNews)
    \/ \E i \in Ids :
         \/ Add(i)
         \/ Move(i, "transit", "onHost")
         \/ Move(i, "transit", "collecting")   \* refunded
         \/ Move(i, "onHost", "staked")
         \/ Reinvest(i)
         \/ Retire(i)

Spec == Init /\ [][Next]_deposit
=============================================================================
