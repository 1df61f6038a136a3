-------------------------------- MODULE Mint --------------------------------
(***************************************************************************)
(* x/mint on top of the epoch clock: the AfterEpochEnd hook that mints the *)
(* provisions of an epoch and distributes them, composed with BeginBlocker *)
(* of Epochs, which calls it once per ended epoch.  An error in the hook   *)
(* is a panic, and a panic in a BeginBlocker stops the chain.              *)
(***************************************************************************)
EXTENDS Epochs, Dec, Sequences, Functions

CONSTANTS
    MintId,                   \* Params.EpochIdentifier
    MintStartEpoch,           \* Params.MintingRewardsDistributionStartEpoch
    ReductionPeriodInEpochs,
    ReductionFactor,          \* a decimal
    GenesisEpochProvisions,   \* a decimal
    Proportions,              \* four decimals: staking, growth, reserve, security
    MintsBondDenom            \* the mint denom is sdk.DefaultBondDenom

ASSUME MintAssumption ==
    /\ MintId \in Ids
    /\ MintStartEpoch \in Nat
    /\ ReductionPeriodInEpochs \in Nat \ {0}
    /\ ReductionFactor \in 0..Precision
    /\ GenesisEpochProvisions \in Nat
    /\ Proportions \in Seq(0..Precision) /\ Len(Proportions) = 4
    /\ SumFunction(Proportions) = Precision
    /\ MintsBondDenom \in BOOLEAN

VARIABLES
    provisions,     \* Minter.EpochProvisions
    lastReduction,  \* LastReductionEpochNum
    pools,          \* what the four receivers have got
    supply,         \* what has been minted
    halted,         \* a hook has panicked
    mints           \* history: how often was minted

mintVars == <<provisions, lastReduction, pools, supply, halted, mints>>

MintInit ==
    /\ Init
    /\ provisions = GenesisEpochProvisions
    /\ lastReduction = 0
    /\ pools = [i \in DOMAIN Proportions |-> 0]
    /\ supply = 0
    /\ halted = FALSE
    /\ mints = 0

-----------------------------------------------------------------------------
GetProportions(coin, ratio) == TruncateInt(Mul(NewDecFromInt(coin), ratio))
Parts(coin) == [i \in DOMAIN Proportions |-> GetProportions(coin, Proportions[i])]

\* Mutated: the reserve's part is not deducted from what remains.
Remaining_reserve(coin) ==
    coin - SumFunctionOnSet(Parts(coin), DOMAIN Proportions \ {3})

Remaining(coin) == coin - SumFunction(Parts(coin))

\* The remainder is looked up in the bond denom, whatever denom is minted, and
\* compared with 5% of the coin, which must not be zero.
DistributionPanics(coin) ==
    \/ coin = 0
    \/ MintsBondDenom /\ Quo(NewDecFromInt(Remaining(coin)), NewDecFromInt(coin))
                           > Quo(NewDecFromInt(5), NewDecFromInt(100))

\* The second pool, community growth, gets the remainder too.
DistributeMintedCoin(coin) ==
    [i \in DOMAIN pools |->
        pools[i] + Parts(coin)[i] + (IF i = 2 THEN Remaining(coin) ELSE 0)]

\* Mutated: the number of the reduction epoch is not stored.
LastReductionEpochNum_kept(n) == IF n = MintStartEpoch THEN n ELSE lastReduction

LastReductionEpochNum(n) ==
    LET last == IF n = MintStartEpoch THEN n ELSE lastReduction
    IN  IF n >= ReductionPeriodInEpochs + last THEN n ELSE last

NextEpochProvisions(n) ==
    LET last == IF n = MintStartEpoch THEN n ELSE lastReduction
    IN  IF n >= ReductionPeriodInEpochs + last THEN Mul(provisions, ReductionFactor)
        ELSE provisions

\* n is the number the hook is called with, 0 when it is not called.
AfterEpochEnd(n) ==
    IF n = 0 \/ n < MintStartEpoch THEN UNCHANGED mintVars
    ELSE LET coin == TruncateInt(NextEpochProvisions(n)) IN
         /\ provisions' = NextEpochProvisions(n)
         /\ lastReduction' = LastReductionEpochNum(n)
         /\ halted' = DistributionPanics(coin)
         /\ supply' = supply + coin
         /\ pools' = IF halted' THEN pools ELSE DistributeMintedCoin(coin)
         /\ mints' = mints + 1

MintBeginBlocker(gap) ==
    /\ ~halted
    /\ BeginBlocker(gap)
    /\ AfterEpochEnd(hooks'[MintId].afterEnd)

MintNext ==
    \/ \E gap \in BlockGaps : MintBeginBlocker(gap)
    \/ ~halted /\ (\E id \in Ids : SubmitTxsEpoch(id)) /\ UNCHANGED mintVars

MintSpec == MintInit /\ [][MintNext]_<<vars, mintVars>>

-----------------------------------------------------------------------------
(* Properties *)

\* The epoch the reductions are counted from.  The hook is first called with
\* the number 2, so that a start epoch of 1 is never met and counting begins
\* with the number genesis left, 0; the reduction of epoch 1, which is due when
\* the period is a single epoch, is never made.
FirstReductionEpoch ==
    IF MintStartEpoch >= 2 THEN MintStartEpoch
    ELSE IF ReductionPeriodInEpochs = 1 THEN 1 ELSE 0

ReducedProvisions[k \in Nat] ==
    IF k = 0 THEN GenesisEpochProvisions
    ELSE Mul(ReducedProvisions[k - 1], ReductionFactor)

\* Every epoch that has ended since the start epoch was minted for exactly
\* once, and the provisions are those of a reduction every
\* ReductionPeriodInEpochs epochs: also when blocks come late and epochs are
\* caught up one per block.
MintSchedule ==
    LET n == info[MintId].currentEpoch
        first == IF MintStartEpoch >= 2 THEN MintStartEpoch ELSE 2
    IN  /\ mints = IF n < first THEN 0 ELSE n - first + 1
        /\ n >= first =>
             provisions = ReducedProvisions[(n - FirstReductionEpoch) \div ReductionPeriodInEpochs]

\* What was minted has gone to the four receivers, to the last token, although
\* each part is truncated; nothing piles up in the mint module's account.  Only
\* when the provisions have become dust does the hook stop the chain instead:
\* each part loses less than one token, which is more than 5% only of an amount
\* below 20 tokens per part.
MintedIsDistributed ==
    IF halted THEN TruncateInt(provisions) < 20 * Len(Proportions)
    ELSE supply = SumFunction(pools)
=============================================================================
