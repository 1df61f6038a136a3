------------------------------- MODULE Claim -------------------------------
(***************************************************************************)
(* x/claim: airdrops.  Each airdrop has a distributor account, a claim     *)
(* record with a weight for each recipient, and rounds: in each round a    *)
(* recipient may claim a share of the pool once per action.  The pool of a *)
(* round is what the distributor has plus what it paid since the round     *)
(* began (ClaimedSoFar), so that a share does not depend on who claims     *)
(* first.                                                                  *)
(*                                                                         *)
(* The records of an airdrop are found by a prefix of the store's keys,    *)
(* its identifier, with no separator after it: the records of an airdrop   *)
(* whose identifier extends it are among them.                             *)
(*                                                                         *)
(* Time is counted in epochs of an airdrop (months).                       *)
(***************************************************************************)
EXTENDS Dec, FiniteSets, FiniteSetsExt

CONSTANTS
    Identifiers,     \* airdrop identifiers
    Extends,         \* Extends[a]: the identifiers that have the prefix a, a too
    Users,
    GenesisWeight,   \* GenesisWeight[a][u]: weights of the records at genesis, or 0
    Weights,         \* weights of later allocations, of either sign
    GenesisBalance,  \* GenesisBalance[a]: what the distributor has at genesis
    StartDelays,     \* how far ahead the start of a new airdrop is set
    Deposits,        \* amounts a distributor is topped up with, or spends itself
    MaxChanges,      \* bound on the steps of administration in a behaviour
    InitialPeriod,   \* DefaultVestingInitialPeriod
    AirdropDuration,
    MaxTime,         \* bound on the time
    NoRecord

ASSUME ClaimAssumption ==
    /\ IsFiniteSet(Users)
    /\ Extends \in [Identifiers -> SUBSET Identifiers]
    /\ \A a \in Identifiers : a \in Extends[a]
    /\ GenesisWeight \in [Identifiers -> [Users -> Int]]
    /\ GenesisBalance \in [Identifiers -> Nat]
    /\ Weights \subseteq Int \ {0}    \* all that ValidateBasic rejects is a weight of zero
    /\ Deposits \subseteq Nat \ {0}
    /\ StartDelays \subseteq 0..1
    /\ {MaxChanges, InitialPeriod, AirdropDuration, MaxTime} \subseteq Nat

Actions == {"ACTION_FREE", "ACTION_DELEGATE_STAKE", "ACTION_LIQUID_STAKE"}

\* Tenths: 20%, 20% and 60%.
PercentageFor(action) ==
    ((IF action = "ACTION_LIQUID_STAKE" THEN 6 ELSE 2) * Precision) \div 10

VARIABLES
    time,
    changes,      \* steps of administration so far
    airdrop,      \* params.Airdrops with their epochs
    record,       \* the claim records
    totalWeight,
    balance,      \* of the distributors
    unpaid,       \* what was added to a user's vesting account and not sent to it
    pool,         \* ghost: what the distributor had when the round began, was sent and spent since
    negative      \* ghost: airdrops that were allocated a negative weight since they ended

vars == <<time, changes, airdrop, record, totalWeight, balance, unpaid, pool, negative>>

\* Ghosts of a record: how often an action was paid for in this round (counted to 2),
\* and whether another airdrop's epoch reset the record within the round.
Record == [weight : Int, completed : SUBSET Actions, paid : [Actions -> 0..2], early : BOOLEAN]

TypeOK ==
    /\ time \in 0..MaxTime
    /\ changes \in 0..MaxChanges
    /\ airdrop \in [Identifiers -> [live : BOOLEAN, start : 0..MaxTime + 1,
                                    epochs : 0..MaxTime, claimedSoFar : Nat]]
    /\ record \in [Identifiers -> [Users -> Record \cup {NoRecord}]]
    /\ totalWeight \in [Identifiers -> Int]
    /\ balance \in [Identifiers -> Nat]
    /\ unpaid \in [Users -> Nat]
    /\ pool \in [Identifiers -> Int]
    /\ negative \subseteq Identifiers

NewRecord(w) ==
    [weight |-> w, completed |-> {}, paid |-> [c \in Actions |-> 0], early |-> FALSE]

NewAirdrop(start) == [live |-> TRUE, start |-> start, epochs |-> 0, claimedSoFar |-> 0]

\* InitGenesis: the airdrops start with the chain, SetClaimRecordsWithWeights adds up
\* the weights.
Init ==
    /\ time = 0
    /\ changes = 0
    /\ airdrop = [a \in Identifiers |-> NewAirdrop(0)]
    /\ record = [a \in Identifiers |-> [u \in Users |->
                   IF GenesisWeight[a][u] = 0 THEN NoRecord ELSE NewRecord(GenesisWeight[a][u])]]
    /\ totalWeight = [a \in Identifiers |-> SumFunction([u \in Users |-> GenesisWeight[a][u]])]
    /\ balance = GenesisBalance
    /\ unpaid = [u \in Users |-> 0]
    /\ pool = GenesisBalance
    /\ negative = {a \in Identifiers : \E u \in Users : GenesisWeight[a][u] < 0}

-----------------------------------------------------------------------------
(* Claims *)

Elapsed(a) == time - airdrop[a].start

IsInitialPeriodPassed(a) == Elapsed(a) >= InitialPeriod

GetAirdropIdentifiersForUser(u) ==
    {a \in Identifiers : airdrop[a].live /\ record[a][u] # NoRecord}

Abs(n) == IF n < 0 THEN -n ELSE n

\* The decimals round the magnitude of a number, whatever its sign.
Share(total, action, weight, weights) ==
    LET magnitude == RoundInt(Quo(Mul(Mul(NewDecFromInt(total), PercentageFor(action)),
                                      NewDecFromInt(Abs(weight))),
                                  NewDecFromInt(Abs(weights))))
    IN  IF weight < 0 <=> weights < 0 THEN magnitude ELSE -magnitude

ShareFor(a, u, action) ==
    Share(balance[a] + airdrop[a].claimedSoFar, action, record[a][u].weight, totalWeight[a])

\* The share of an action that is open is computed before anything else is asked: a
\* total of zero cannot be divided by, and NewCoin takes no negative amount.
Panics(a, u, action) ==
    /\ action \notin record[a][u].completed
    /\ Elapsed(a) >= 0
    /\ totalWeight[a] = 0 \/ ShareFor(a, u, action) < 0

\* The panic aborts the whole transaction, of whatever message the claim is a part.
Aborts(u, action) == \E a \in GetAirdropIdentifiersForUser(u) : Panics(a, u, action)

\* Mutated: an action is not looked up among the completed ones.
GetClaimableAmountForAction_again(a, u, action) ==
    IF Elapsed(a) < 0 \/ Elapsed(a) > AirdropDuration \/ totalWeight[a] = 0 THEN 0
    ELSE ShareFor(a, u, action)

GetClaimableAmountForAction(a, u, action) ==
    IF \/ action \in record[a][u].completed
       \/ Elapsed(a) < 0
       \/ Elapsed(a) > AirdropDuration
    THEN 0
    ELSE ShareFor(a, u, action)

\* Mutated: the balance is not looked at.
Unpayable_never(u, action) == {}

\* The airdrops that have something for the user, and those of them whose distributor
\* cannot pay: shares are rounded, so the last ones may exceed what is left.
Claimable(u, action) ==
    {a \in GetAirdropIdentifiersForUser(u) : GetClaimableAmountForAction(a, u, action) > 0}

Unpayable(u, action) ==
    {a \in Claimable(u, action) : GetClaimableAmountForAction(a, u, action) > balance[a]}

ActionCompleted(rec, action) ==
    [rec EXCEPT !.completed = @ \cup {action}, !.paid[action] = IF @ < 2 THEN @ + 1 ELSE @]

\* ClaimCoinsForAction for the airdrops as, each of which has its own distributor and
\* record.  Within the initial period the amount vests: it is added to the user's
\* vesting account, and then the coins are sent, if the distributor has them.  kept
\* are the airdrops whose writes are kept; an error before the end is among the rest.
ClaimCoinsForAction(u, action, as, kept) ==
    LET Amount(a) == GetClaimableAmountForAction(a, u, action)
        sent == (as \cap kept) \ Unpayable(u, action)
        grants == {a \in as \cap kept : ~IsInitialPeriodPassed(a)}
    IN  /\ unpaid' = [unpaid EXCEPT ![u] = @ + SumFunction([a \in grants \ sent |-> Amount(a)])]
        /\ balance' = [a \in Identifiers |-> IF a \in sent THEN balance[a] - Amount(a) ELSE balance[a]]
        /\ record' = [a \in Identifiers |->
             IF a \in sent THEN [record[a] EXCEPT ![u] = ActionCompleted(@, action)] ELSE record[a]]
        /\ airdrop' = [a \in Identifiers |->
             IF a \in sent THEN [airdrop[a] EXCEPT !.claimedSoFar = @ + Amount(a)] ELSE airdrop[a]]
        /\ UNCHANGED <<time, changes, totalWeight, pool, negative>>

\* All of the user's airdrops or none: the message, or the delegation, fails with the
\* first claim that fails.
ClaimAllCoinsForAction(u, action) ==
    /\ ~Aborts(u, action)
    /\ Unpayable(u, action) = {}
    /\ ClaimCoinsForAction(u, action, Claimable(u, action), Claimable(u, action))

ClaimFreeAmount(u) == ClaimAllCoinsForAction(u, "ACTION_FREE")

AfterDelegationModified(u) == ClaimAllCoinsForAction(u, "ACTION_DELEGATE_STAKE")

\* Mutated: the writes of a failed claim are kept.
AfterLiquidStake_uncached(u) ==
    /\ ~Aborts(u, "ACTION_LIQUID_STAKE")
    /\ ClaimCoinsForAction(u, "ACTION_LIQUID_STAKE", Claimable(u, "ACTION_LIQUID_STAKE"),
                           Identifiers)

\* Each airdrop by itself, in a cached context: a claim that fails is dropped and logged.
AfterLiquidStake(u) ==
    /\ ~Aborts(u, "ACTION_LIQUID_STAKE")
    /\ ClaimCoinsForAction(u, "ACTION_LIQUID_STAKE", Claimable(u, "ACTION_LIQUID_STAKE"),
                           Identifiers \ Unpayable(u, "ACTION_LIQUID_STAKE"))

-----------------------------------------------------------------------------
(* Rounds *)

\* The airdrops whose records an airdrop takes for its own.
Prefixed(as) == {b \in Identifiers : \E a \in as : b \in Extends[a]}

\* The ghosts of a record start anew in a round of its own airdrop only.
ResetRecord(rec, own) ==
    IF rec = NoRecord THEN rec
    ELSE IF own THEN NewRecord(rec.weight)
    ELSE [rec EXCEPT !.completed = {}, !.early = TRUE]

\* Mutated: the records are reset, ClaimedSoFar is not.
ResetClaimStatus_recordsOnly(a) ==
    /\ record' = [b \in Identifiers |-> [u \in Users |->
                    IF b \in Prefixed({a}) THEN ResetRecord(record[b][u], b = a) ELSE record[b][u]]]
    /\ airdrop' = [airdrop EXCEPT ![a].epochs = @ + 1]
    /\ pool' = [pool EXCEPT ![a] = balance[a]]

ResetClaimStatus(a) ==
    /\ record' = [b \in Identifiers |-> [u \in Users |->
                    IF b \in Prefixed({a}) THEN ResetRecord(record[b][u], b = a) ELSE record[b][u]]]
    /\ airdrop' = [airdrop EXCEPT ![a].claimedSoFar = 0, ![a].epochs = @ + 1]
    /\ pool' = [pool EXCEPT ![a] = balance[a]]

\* The hook at the end of the epoch "airdrop-a".
AfterEpochEnd(a) ==
    /\ airdrop[a].live
    /\ Elapsed(a) > airdrop[a].epochs
    /\ IF IsInitialPeriodPassed(a)
       THEN ResetClaimStatus(a)
       ELSE airdrop' = [airdrop EXCEPT ![a].epochs = @ + 1] /\ UNCHANGED <<record, pool>>
    /\ UNCHANGED <<time, changes, totalWeight, balance, unpaid, negative>>

\* EndAirdrop for those whose duration has passed; the coins stay where they are.
EndBlocker ==
    LET over == {a \in Identifiers : airdrop[a].live /\ Elapsed(a) > AirdropDuration}
    IN  /\ over # {}
        /\ record' = [a \in Identifiers |-> [u \in Users |->
                        IF a \in Prefixed(over) THEN NoRecord ELSE record[a][u]]]
        /\ totalWeight' = [a \in Identifiers |-> IF a \in over THEN 0 ELSE totalWeight[a]]
        /\ airdrop' = [a \in Identifiers |->
                         IF a \in over THEN [NewAirdrop(0) EXCEPT !.live = FALSE] ELSE airdrop[a]]
        /\ negative' = negative \ over
        /\ UNCHANGED <<time, changes, balance, unpaid, pool>>

-----------------------------------------------------------------------------
(* Administration *)

Change == changes < MaxChanges /\ changes' = changes + 1

CreateAirdrop(a, start) ==
    /\ Change
    /\ ~airdrop[a].live
    /\ airdrop' = [airdrop EXCEPT ![a] = NewAirdrop(start)]
    /\ pool' = [pool EXCEPT ![a] = balance[a]]
    /\ UNCHANGED <<time, record, totalWeight, balance, unpaid, negative>>

\* Mutated: only the total weight is deleted.
DeleteAirdrop_weight(a) ==
    /\ Change
    /\ airdrop[a].live
    /\ airdrop' = [airdrop EXCEPT ![a] = [NewAirdrop(0) EXCEPT !.live = FALSE]]
    /\ totalWeight' = [totalWeight EXCEPT ![a] = 0]
    /\ UNCHANGED <<time, record, balance, unpaid, pool, negative>>

\* The records and the total weight stay in the store.
DeleteAirdrop(a) ==
    /\ Change
    /\ airdrop[a].live
    /\ airdrop' = [airdrop EXCEPT ![a] = [NewAirdrop(0) EXCEPT !.live = FALSE]]
    /\ UNCHANGED <<time, record, totalWeight, balance, unpaid, pool, negative>>

\* A user may occur twice in one message (bound: not more often): each occurrence adds
\* its weight to the total, as there is no record yet, and the last one, of weight w, sets
\* the record.  earlier is the weight of the first, or 0 if there is only one.
SetAirdropAllocations(a, u, earlier, w) ==
    /\ Change
    /\ airdrop[a].live
    /\ record[a][u] = NoRecord
    /\ record' = [record EXCEPT ![a][u] = NewRecord(w)]
    /\ totalWeight' = [totalWeight EXCEPT ![a] = @ + earlier + w]
    /\ negative' = negative \cup {b \in {a} : earlier < 0 \/ w < 0}
    /\ UNCHANGED <<time, airdrop, balance, unpaid, pool>>

\* Autopilot's claim route.  The record is written for the new address, over one that
\* may be there, and then deleted for the old.
UpdateAirdropAddress(a, existing, new) ==
    /\ Change
    /\ airdrop[a].live
    /\ record[a][existing] # NoRecord
    /\ record' = [record EXCEPT ![a][new] = record[a][existing], ![a][existing] = NoRecord]
    /\ UNCHANGED <<time, airdrop, totalWeight, balance, unpaid, pool, negative>>

\* Anyone may send coins to a distributor.
FundDistributor(a, amount) ==
    /\ Change
    /\ balance' = [balance EXCEPT ![a] = @ + amount]
    /\ pool' = [pool EXCEPT ![a] = @ + amount]
    /\ UNCHANGED <<time, airdrop, record, totalWeight, unpaid, negative>>

\* The distributor's account is an ordinary one: its coins may be sent elsewhere.
SpendDistributor(a, amount) ==
    /\ Change
    /\ amount <= balance[a]
    /\ balance' = [balance EXCEPT ![a] = @ - amount]
    /\ pool' = [pool EXCEPT ![a] = @ - amount]
    /\ UNCHANGED <<time, airdrop, record, totalWeight, unpaid, negative>>

Tick ==
    /\ time < MaxTime
    /\ time' = time + 1
    /\ UNCHANGED <<changes, airdrop, record, totalWeight, balance, unpaid, pool, negative>>

-----------------------------------------------------------------------------

Next ==
    \/ Tick
    \/ EndBlocker
    \/ \E u \in Users : ClaimFreeAmount(u) \/ AfterDelegationModified(u) \/ AfterLiquidStake(u)
    \/ \E a \in Identifiers :
         \/ AfterEpochEnd(a)
         \/ \E delay \in StartDelays : CreateAirdrop(a, time + delay)
         \/ DeleteAirdrop(a)
         \/ \E u \in Users, earlier \in Weights \cup {0}, w \in Weights :
              SetAirdropAllocations(a, u, earlier, w)
         \/ \E existing, new \in Users : UpdateAirdropAddress(a, existing, new)
         \/ \E amount \in Deposits : FundDistributor(a, amount) \/ SpendDistributor(a, amount)

Spec == Init /\ [][Next]_vars

-----------------------------------------------------------------------------
(* Properties *)

AllocatedWeight(a) ==
    LET allocated == {u \in Users : record[a][u] # NoRecord}
    IN  SumFunction([u \in allocated |-> record[a][u].weight])

\* The shares of a round are shares of one whole, as long as no weight of the airdrop
\* was negative: whatever is allocated, several times in one message too, moved to
\* another address, deleted and created again or cleared by another airdrop, the
\* weights of an airdrop's records never exceed its total weight (by which
\* GetClaimableAmountForAction divides, so that it is not zero either).  Nothing of the
\* kind holds once there were negative weights, which ValidateBasic lets pass.
SharesAtMostWhole ==
    \A a \in Identifiers \ negative : AllocatedWeight(a) <= totalWeight[a]

\* A recipient is paid at most once per action in a round of its airdrop, through
\* whatever address the record came to be stored under; only the epoch of an airdrop
\* whose identifier is a prefix of this one's can open the record again.
ClaimedOncePerRound ==
    \A a \in Identifiers, u \in Users : record[a][u] # NoRecord /\ ~record[a][u].early =>
        \A c \in Actions : record[a][u].paid[c] <= 1

\* It does not matter who claims first: every claim of a round is a share of the same
\* pool, what the distributor had when the round began and was sent, or spent, since.
\* GetClaimableAmountForAction with AfterClaim, ResetClaimStatus and CreateAirdrop.
PoolOfRound ==
    \A a \in Identifiers : airdrop[a].live => balance[a] + airdrop[a].claimedSoFar = pool[a]

\* What is locked in a vesting account was paid: a claim that fails when the coins are
\* to be sent leaves no grant behind.
GrantsArePaid == \A u \in Users : unpaid[u] = 0

\* Statement of the README on linking an address, "we then replace the Stride address
\* with a correct one": the weights of an airdrop outlive the change of an address.
\* The code writes the new record and deletes the old one in this order, so linking an
\* address to itself deletes the record.
LinkKeepsAllocation ==
    [][\A a \in Identifiers, existing, new \in Users :
         UpdateAirdropAddress(a, existing, new) /\ (new = existing \/ record[a][new] = NoRecord)
           => AllocatedWeight(a)' = AllocatedWeight(a)]_vars
=============================================================================
