# Verification of the liquid-staking chain

This directory holds TLA+ specifications of the liquid-staking logic of this
repository (the Stride modules under `x/`), the TLC configurations that check
them on small instances, and proofs that TLAPS checks.

## The system

A *host zone* is another chain whose tokens are staked for the users of this
one. Users exchange native tokens for stTokens; the tokens are moved to the
host by ICS-20 and delegated there by an *interchain account* (ICA). Redeeming
runs the other way: undelegate, wait, sweep to a redemption account, claim.
Everything that involves the host is asynchronous: a record in a store on this
chain is put into an *in progress* status, a packet is sent, and a callback
moves the record on when the acknowledgement or the timeout arrives.

| Part | State | Operations | What makes it correct |
|---|---|---|---|
| `x/epochs` | EpochInfo per identifier | `BeginBlocker`, hooks | epochs neither drift nor get skipped when blocks are late |
| `x/stakeibc` epoch tracker | EpochTracker per identifier | `UpdateEpochTracker`, `GetICATimeoutNanos`, `IsWithinBufferWindow` | it agrees with `x/epochs`; slash queries are answered only when no ICA can still execute |
| `x/stakeibc` liquid staking | HostZone (rate, `StakedBal`, halted), bank balances | `LiquidStake`, stride-epoch hook, `DelegateCallback` | no value lost or counted twice, a deposit delegated once and in the end, the rate not diluted |
| `x/stakeibc` redemptions | HostZone, escrowed stTokens | `RedeemStake`, day-epoch hook, `ClaimUndelegatedTokens`, three callbacks | stTokens burned once, users paid at most once and able to claim in the end, sweeps leave deposits alone |
| `x/stakeibc` ICA handling | active channels | `OnChanOpenAck`, `OnAcknowledgementPacket`, `OnTimeoutPacket`, `RestoreInterchainAccount` | a restored channel leaves no record in progress and touches no other zone |
| `x/records` | deposit, unbonding, redemption records | stores, `Transfer`, `TransferCallback` | records and packets match |
| `x/icacallbacks` | callback data per packet | `CallRegisteredICACallback` | one callback per packet |
| `x/interchainquery` | queries | `MakeRequest`, `EndBlocker`, `SubmitQueryResponse` | a response is used once and not after its deadline |
| slash queries | validator exchange rates | two ICQ callbacks | only slashes lower `StakedBal` |
| validators | weights, delegations | add, remove, weight, split by weight, rebalance | the parts add up; the books follow the host; the chain does not stop |
| `x/ratelimit` | flow and quota per channel and denom, blacklist | send, receive, refund, reset, four proposals | what really moves in a window stays within the quota |
| `x/claim` | airdrops, claim records, total weights | claims, rounds, administration | an action is paid once per round, shares are of one whole |
| `x/mint` | provisions, last reduction | `AfterEpochEnd` | every ended epoch is minted for once, and all of it is distributed |
| `x/autopilot` | none | forwards a transfer to `LiquidStake` or `UpdateAirdropAddress` | that of what it calls |
| `deps/archway-main/x/photosynthesis` | deposit records of contracts, cumulative rewards | interval tasks | a reward is staked once |

`PROJECT.json` lists every part with its status, and the hazards of the code
line by line. The hard behaviours are:

* **Ordered channels that close.** An ICA channel is closed by the first packet
  that times out. Acknowledgements that were not relayed by then are refused
  for ever, so this chain cannot know what the host executed. An operator
  restores the account, and the code then puts every record in progress back
  into its queue.
* **Hooks that do many things in one block**, each of which may fail for one
  zone or one record while the rest goes on. They are not run in a cached
  context: an error that is logged does not undo what was done before it.
* **One account, several users.** Deposits that await their delegation and
  unbonded tokens that await their sweep share an account and a channel: a
  delegation that is repeated after a restore is paid with the tokens of a sweep.
* **Clocks.** Blocks are late, the chain halts for several epochs, and what
  this chain knows of the host's time lags behind.
* **Rounding**: the mint truncates, the redemption rounds to even, the rate is
  rounded each epoch.

## Modules

| Module | Models |
|---|---|
| `Dec` | the SDK's fixed-point decimals (`vendor/cosmossdk.io/math/dec.go`) |
| `Epochs` | `x/epochs` and what `x/stakeibc` derives from it |
| `Mint` | `x/mint`, on top of `Epochs` |
| `DepositRecords` | from `LiquidStake` to `DelegateCallback` |
| `DepositLifecycle` | the abstract specification `DepositRecords` implements |
| `UnbondingRecords` | from `RedeemStake` to `ClaimCallback` |
| `RedemptionLifecycle` | the abstract specification `UnbondingRecords` implements |
| `Validators` | the validators of a zone, the DELEGATION channel, slash queries and `x/interchainquery` |
| `RateLimit` | `x/ratelimit` with the transfers it watches |
| `Claim` | `x/claim` |
| `LedgerTheorems` | facts about sums, decimals and numbered packets for the other proofs |
| `EpochsProofs` | theorems about `Epochs` and `Mint` |
| `RateLimitProofs`, `ClaimProofs` | theorems about `RateLimit`, `Claim` |
| `DepositRecordsProofs` | theorems about `DepositRecords`: records, packets, the refinement, balances and the redemption rate |
| `UnbondingProofs`, `UnbondingLedgerProofs` | theorems about `UnbondingRecords`: types, records, packets and payments; balances and the refinement |
| `ValidatorsProofs` | theorems about `Validators` |
| `MCEpochs`, `MCDeposits`, `MCUnbonding`, `MCValidators`, `MCRateLimit`, `MCClaim` | instances for TLC |

### Epochs

A step is a block (`BeginBlocker`, with the time since the last block as its
input) or the submission of an ICA (`SubmitTxsEpoch`). `info` is the store of
`x/epochs`, `tracker` that of `x/stakeibc`, written by `BeforeEpochStart` in the
same block. `hooks` records the numbers the last block's hooks were given.
`deadline` is the latest time at which a packet of the identifier may still be
executed. `GetICATimeoutNanos` computes an absolute time, but `SubmitTxs` hands
it to `MsgSendTx`, whose timeout is relative to the block time; `deadline` is
what the controller makes of it. In all other modules a packet may therefore be
executed, or time out, in any epoch. The elapsed share is compared as an exact
fraction instead of a rounded decimal.

`Mint` extends the block by the `AfterEpochEnd` hook of `x/mint`: the number the
hook gets is the one `BeginBlocker` passes, which is that of the epoch that
begins. An error in the hook is a panic in a begin blocker: the chain stops.
The first number the hook gets is therefore 2, so a start epoch below 2 is never
met and the reductions are counted from 0 (`FirstReductionEpoch`); with a period
of a single epoch the one that is due at epoch 1 is not made. There are four
receivers, and their proportions add up to one, as `params.go` checks.

### DepositRecords

`records` is the deposit record store and `order` its iteration order, which
decides who gets at the module account first and whom `MaxStakeICACallsPerEpoch`
cuts off. `StrideEpoch(failed)` is the whole stride-epoch hook: create records,
`SetWithdrawalAddress`, update the rate, transfer, stake. `failed` is the set
of transfers for which `SendPacket` fails, after the vouchers were taken.
`TransferRecv`, `TransferAck` and `TransferTimeout` are the unordered ICS-20
channel; `ExecuteICA`, `AckICA` and `TimeoutICA` the ordered ICA channel;
`RestoreInterchainAccount` and `ChanOpenAck` bring it back. `ReinvestCallback`
adds a record for rewards; `BeginBlocker` is the safety halt.

Abstractions: a record is named by a slot that is reused after its removal; an
epoch number is kept modulo `EpochCycle`, together with whether a record is of
the current epoch (`fresh`), since the code only asks for divisibility and for
"before this epoch"; a delegation is one amount rather than one per validator;
messages to add or remove validators and zones are not taken.

The variables `burned`, `delegations`, `lostAcks` and `unrecorded` are history:
no action reads them except to update them.

### DepositLifecycle

What the pipeline promises for one deposit, without queues, packets, channels
and callbacks: a deposit is `collecting`, in `transit`, `onHost` or `staked`.
Its amount changes only while it is collecting; it goes back from transit when
it is refunded; it leaves the books empty or after it was staked; and a staked
one becomes `onHost` again only when the news of it is lost (`LoseNews`). The
mapping is in `DepositRecords`: the stage of a record (`StageOf`) follows from
its status and from how far its packet has come, so a transfer that was
received, and a delegation that was executed, count at once, before their
acknowledgements do. `StrideEpoch` is one step of many deposits (`Together`);
steps of packets without deposits, of the rate and of the clock stutter.

### UnbondingRecords

`hzu` is the epoch unbonding record store, one entry per record and zone;
`urr` the user redemption records; `current` the record of the current day.
`DayEpoch(lag)` is the whole day-epoch hook: undelegate what is queued, sweep
what has unbonded according to a light client `lag` ticks behind the host,
remove the records that owe nothing, create the new one. There are two ordered
channels per zone: DELEGATION for undelegations and sweeps, REDEMPTION for
claims. `Tick` is the host's clock: unbondings mature. A claim that a closed
channel never delivered is an `orphan`, which `TimeoutOnClose` can time out.

The deposits share the delegation account, its channel and `StakedBal` with the
redemptions. `deposits` is what their records hold on the host, `staking` the part in
status DELEGATION_IN_PROGRESS. `DelegateOnHost` submits a delegation, a packet like the
others: it is executed (from `hostAcct`) or refused by `ExecuteICA`, acknowledged by
`AckICA` (`DelegateCallback`), lost with the channel, and put back into the queue by
`RestoreInterchainAccount`, after which it is delegated a second time. `Reinvest`
adds a deposit, and `TimeoutOfAnother` is a packet of another kind that times out on the
channel. Abstractions: times are counted from now; a user is one sender and receiver;
deposits are taken together, not record by record (that is `DepositRecords`), and any
amount of them may be delegated at any time the account is open and the zone is not
halted; deposits still on stride are none of the tokens counted here; validators are left
out, so "the validators cannot cover the sum" is "the sum exceeds `StakedBal`", to which
their delegations add up (`StakedBalIsSum` of `Validators`).

### RedemptionLifecycle

What the pipeline promises for redemptions, without packets, channels, callbacks
and balances. The redemptions of a day and a zone are one batch, which is
`collecting`, `queued`, `undelegated`, `unbonding`, `swept` and `claimable`, in
this order. `Redeem` puts a redemption into a batch that is collecting, `Pay`
pays one out of a batch that is claimable, `Settle` strikes a paid one off the
books. `NewDay` closes the day's batches, drops batches that owe nothing, and
opens new ones under a free name. `LoseNews` alone goes back: what the host has
done is done, but stride will never learn of it.

The mapping is in `UnbondingRecords`: a batch is undelegated, or swept, and a
redemption paid, as soon as the host has executed the packet, before its
acknowledgement. `DayEpoch` is one `NewDay`; the submission of its packets, a
failure and a timeout stutter, since they leave the batch where it was. A
restored channel stutters as well: its lost news were forgotten when it closed.

### Validators

`vals` and `stakedBal` are the zone's books, `channel` the ordered DELEGATION
channel with packets of moves (delegate, undelegate, redelegate), `queries` the
store of `x/interchainquery`, `responses` what relayers have read on the host;
`shares` and `hostRate` are the host's own books. `BeginEpoch(d, u)` submits a
delegation of `d` and an undelegation of `u`, split by `GetTargetValAmtsForHostZone`
and `UnbondingSplit`; a part that is negative panics in a begin blocker and
`phase` becomes `halted`. `RebalanceValidators` is the loop of the code as a
recursive function, with the copies of the list's elements it works on.
`ExecuteICA`, `AcknowledgeICA` and `TimeoutICA` are the channel: a callback that
returns an error leaves the acknowledgement unreceived, and the channel waits.
A slash query is two queries: the answer to the first stores the exchange rate
and asks for the shares. An answer is refused outside the buffer window.
`SubmitQueryResponse` may come late and several times.

Abstractions: weights are added modulo `Uint64`, a small number, so that the
wrap-around happens; decimals have one digit; the time inside an epoch is
`open` or `window`; names of validators are left out (addresses are the names);
a slash leaves a validator something (at a rate of zero the staking module takes
no delegations any more). Splits and packets are functions from addresses and
message numbers, and totals are sums over them: the order in which the code adds
them up is left out, except where it decides who gets the rest (`Before`).

### RateLimit

`rateLimit` is the store, keyed by denom and channel, `held`, `supply` and
`abroad` are the tokens the middleware watches, `packets` the sends under way.
`Transfer` is a message, all or nothing. `HookTransfer` is the transfer of a
deposit record by the staking hook, which keeps what was done before an error:
vouchers are burned, and the flow is counted when it is the channel that
refuses. `Refund` is a failed acknowledgement or a timeout: the middleware
passes both on and gives no flow back. `BeforeEpochStart` starts new windows,
the four proposals change limits, `AddDenomToBlacklist` is what stakeibc does
when it halts a zone. The ghosts `moved` and `undone` say what really left a path in
the window of its limit, and what was counted and came back.

### Claim

`airdrop`, `record` and `totalWeight` are the stores, `balance` the distributors'
accounts. Claims come as a message (`ClaimFreeAmount`), from a delegation (an
error fails it) or from a liquid stake (each airdrop in a cached context).
`AfterEpochEnd` begins a round, `EndBlocker` ends airdrops. `Extends` says which
identifiers begin with which: the code finds the records of an airdrop by a
prefix scan, so a round or the end of one airdrop reaches the records of
another. `SetAirdropAllocations` takes weights of either sign, as `ValidateBasic` does,
and a user may be named twice in a message, with different weights: both are added to
the total, the last one is stored. A total of zero or a negative share makes
`GetClaimableAmountForAction` panic, and the transaction the claim is part of has no
effect (`Aborts`): the claims of that user are then disabled. `FundDistributor` and
`SpendDistributor` are the distributor's account in use. The ghost `negative` has the
airdrops that were allocated a negative weight, at genesis or later, until they end.
Abstractions: one unit of time is one epoch of an airdrop; weights are whole numbers; the
vesting schedule is only the amount that was granted; a distributor has one airdrop;
genesis records of weight zero, and pools that do not fit into 64 bits, are left out.

## Runs

All bounds are constants, named in the modules and set in the `.cfg` files.

| Run | Question | Bounds |
|---|---|---|
| `epochs` | Do epochs stay on their grid, with the tracker in step? Does the computed timeout lie before the buffer window? Are provisions minted on schedule and distributed to the last token? | a mint and a stride epoch of durations 5 and 7, not multiples of each other or of the buffer; gaps of 1, 2 and 16, the last longer than two epochs; time up to 44; provisions of 200.5, halved every second epoch, so that they become dust |
| `deposits` | Is value conserved, the transfer queue and `StakedBal` explained, the rate never lowered, do packets and records match, and is `DepositLifecycle` implemented? | any set of sends may fail in an epoch; one zone, two stakes of 3 and a reward of 1, so that the rate becomes 1.2 with one digit and rounding shows; delegation every second epoch, one a time |
| `deposits_live` | Is every deposit delegated? | two deposits, one delegation per epoch |
| `unbondings` | Are escrow, `StakedBal`, the delegation and the redemption account explained, and do sweeps leave the deposits alone, through lost and repeated delegations, undelegations and sweeps? Is nobody paid twice, are records kept as long as users are owed, do packets and records match? | two users (symmetric), a stake and a deposit of 1, a reward of 1 (rates of 1 and 1.5) that is a deposit too, three epoch records, two packets on a channel, at most one token delegated without the news |
| `unbondings_live` | Does every redemption become claimable, and is `RedemptionLifecycle` implemented? | one user, a stake of 1 and a deposit of 1 not yet delegated, so that the queue can exceed `StakedBal` and the batch is refused for a time; four records; a light client that lags by up to 1 |
| `validators` | Do the books follow the host through packets, changes of the set, slashes and queries? Does a split add up, and can it stop the chain? | three addresses, two registered with weights of 3 of which one has all the stake; weights wrap at 7, so that a third weight overflows; two changes, one slash to a half, one request, one epoch, two packets |
| `ratelimit` | Do the tokens that move stay within the quota, and does the flow account for them? | a native token and a voucher, two quotas (one truncates, one forbids receipts), amounts of 1 and 2, two packets (symmetric), flows up to 3, windows of one and two hours |
| `claim` | Are actions paid once, pools fair and grants paid? Do the weights of records stay within the total? | two users (symmetric), two airdrops of which one's identifier extends the other's; genesis weights of 1 and later ones of -1 and 2, alone and as the two occurrences of a user in one message, so that totals become less than a record's weight, zero and negative; a balance of 1, and one of 3, of which the shares round up to 4; deposits and payments of 1; three changes, two epochs |

The bounds on names of records, on packets and on time disable the actions that
would exceed them; they are large enough for a record of each status to exist
at once (a current one, one under way on each channel, one that is queued), and
for a retry to follow a retry. `MaxLostDelegation` bounds the tokens that are delegated
without the news: each such loss adds a token that can be delegated and undelegated once
more, so that the state space would have no end. One is enough for a deposit to be
delegated twice, for a sweep to find too little, and for a sweep to take the tokens of
another deposit. A light client that lags only delays sweeps; it is in
`unbondings_live`, and for the invariants in the proofs.

`epochs`, `validators`, `ratelimit` and the runs of `Claim` may stop, at a bound of time,
changes or flow or with a halted chain, and are run without deadlock checking.

The runs have one zone. That zones which share a store do not disturb each
other (`PacketsMatchRecords`, `DelegatedOnceUnlessAckLost` and
`ImplementsLifecycle` of `DepositRecords`) is proved for any set of zones.

### Refuted statements

Four runs show that the code does not do what a comment or a document says.

* `deposits_twice`: a deposit is delegated twice. Its delegation succeeds; its
  acknowledgement is not relayed before a later packet of the channel times
  out; the account is restored, the record reverted and submitted again. The
  second delegation is paid with the tokens of other deposits.
  `ValueConserved` still holds: the first delegation is missing from
  `StakedBal`, and one deposit can no longer be delegated.
* `epochs_deadline`: the timeout of an ICA is an absolute time, and the
  controller adds the block time to it. The buffer of the last part of an
  epoch, in which slash queries are answered on the assumption that no packet
  can be executed any more, does not exist (`SlashesAreReal` says what follows).
* `rebalance`: the loop of `RebalanceValidators` deducts what it moves from
  copies, so a validator may get more than it lacks.
* `claim_link`: linking an airdrop record to its own address deletes it.

Six more are known and have no run of their own:

* `AfterEpochEnd` gets the number of the epoch that begins, not, as
  `x/epochs/types/hooks.go:23` says, of the one that ends. Only mint
  reads it: its start epoch and its reduction period take effect one epoch end
  earlier. `MintSchedule` states the schedule as it is.
* When `SendPacket` fails in the stride-epoch hook, the vouchers of a deposit
  are burned and its record remains queued and counted in the rate: the term
  `burned` of `QueueAccounted`.
* A lost acknowledgement makes the next day epoch undelegate the same
  redemptions again: the lost terms of `StakedBalAccounted` and `EscrowAccounted`.
* A deposit that is delegated twice (`deposits_twice`) is paid the second time from the
  account in which unbonded tokens wait for their sweep: the sweep is then short of
  tokens, or takes those of the next deposits. `DepositsNotSwept` counts what was
  delegated without the news on the side of the account for that reason.
* A claim of unbonded tokens that failed stays pending when its error acknowledgement was lost with
  the REDEMPTION channel; nothing resets it.
* The validation of an allocation refuses a weight of zero only
  (`x/claim/types/msgs.go:81`). With
  negative weights, a user named twice with -1 and 2 has a record of 2 in a total of 1;
  a total of zero, or of another sign than a recipient's weight, aborts the recipient's
  claims, and with them delegations and liquid stakes. `SharesAtMostWhole` and
  `ClaimsSucceedHolds` say that nothing of this happens without a negative weight.

The passing properties say how far the damage goes: `DelegatedOnceUnlessAckLost`,
`StakedBalAccounted`, `RedemptionAcctAccounted` and `DepositsNotSwept` hold up to
precisely the messages whose acknowledgement was lost.

### Fairness

Both liveness properties assume that the chain goes through epochs (block
production), that relayers relay what they can and report expired packets
(the protocol's incentive, not the code's), and that an operator restores a
closed account (`RestoreInterchainAccount` is a message anybody may send).
A transfer or an ICA that is tried again and again is assumed to succeed at
some point (strong fairness): the code retries for ever, and without this a
host that always answers with an error is a counterexample. For the same
reason not every day epoch may meet a closed channel. `unbondings_live` also
assumes that what is queued for delegation is submitted, which `deposits_live` shows.
Neither property promises anything for a halted zone, since nothing in the code ends a
halt, nor once the acknowledgement of a delegation is lost, or for redemptions that of an
undelegation or a sweep; the acknowledgement of a claim may be lost.

## Proofs

TLAPS proves the following for every value of the constants that satisfies the
assumptions named in the modules (durations and the buffer size positive, names
finite in number, at least one zone).

`EpochsProofs`: `TypeOK`, `EpochGrid`, `TrackerInStep`,
`TimeoutBeforeBufferWindow` and `EveryEpochStarts`. The inductive invariant
joins the first three. That the window begins after the timeout that
`GetICATimeoutNanos` computes is then arithmetic: the buffer is rounded
down, so the timeout is at most `duration / BufferSize` (rounded up to a whole
unit) before the end, and the comparison in the window is strict. (`TypeOK` of
`Epochs` serves the proofs; no run lists it.)

The same module proves `MintSchedule` and `MintedIsDistributed` of `Mint`. A
behaviour of the mint is one of the clock (`MintKeepsTheClock`), so the clock's
invariant is there to build on, and `BlockStep` says with which number the hook is
called. The schedule is not inductive without `ReductionInStep`: the stored number
of the last reduction is the start plus a whole number of periods, and another
epoch either completes the next period or does not (`NextPeriod`). That the
provisions as a recursive function of the number of reductions exist is shown for
its beginnings first (`BeginningExists`, `ProvisionsReduced`). For the distribution,
each part is the integer part of a share (`PartIsFloor`), so less than four tokens
remain (`PartsAddUp`), and three tokens of eighty or more are not above 5%, however
`Quo` rounds (`NoPanic`).

`DepositRecordsProofs`: `RecordsTypeOK` (the part of `TypeOK` that is not about
balances), `PacketsMatchRecords` and `DelegatedOnceUnlessAckLost`. The last is
not inductive: that a delegation executes at most once needs that there is
only one packet for its record, and that the record of an executed packet is
not put back into the queue. `IndInv` joins the three with
`ClosedChannelsEmpty`, without which `RestoreInterchainAccount` could take the
record from under a packet that may still be acknowledged. There is one lemma
per action, and `StrideEpochStep` is the long one: it needs that names of new
records are free, that the sets of records transferred, staked and removed are
disjoint, and that a new packet's record had none before.

The same module proves the refinement `Spec => ImplementsLifecycle`, that is, every
behaviour of `DepositRecords` is one of `DepositLifecycle` under the mapping
`deposits`. The initial states map to initial states; then there is one lemma
per action that its step is a step of the abstract specification or leaves the
mapped state as it is, from the inductive invariant in both
states. The invariant is needed where a stage depends on a packet:
acknowledging a packet of one record must not change the stage of another,
which holds because a record has at most one packet, and restoring a channel
turns exactly the executed delegations into lost news because a closed channel
has no packets left.

`RateLimitProofs`: `TypeOK`, `FlowMatchesTransfers` and `NetFlowWithinQuota`.
The invariant adds to the first two that the stored net flow is within the
quota (`FlowWithinQuota`); what really moved is within it because it differs
from the stored flow by `undone` only, on the side the quota allows. A quota
that is changed starts a new window with an empty flow, without which
`FlowWithinQuota` would not survive a smaller one.

`LedgerTheorems` holds what the balances need. A balance is a sum over a set
of records or packets, and the sum of the community modules is a fold. The
library's induction theorems cannot be instantiated here, but a minimal
counterexample can be chosen by hand: of the subsets for which a statement
fails take a minimal one, and take one element out of it. This gives that the
fold is well defined, that a summand can be taken out, that equal summands have equal sums, and what happens to a
sum when one summand changes, when two sets are joined, and when summands are
compared. Every later step about a sum is one of these facts. For the decimals it says
when `Mul` and `Quo` are exact, that rounding keeps the order, and which numbers
are rounded to a given decimal or more (`ChopAtLeast`). Last are the packets of an
ordered channel, numbered from 1 without gaps: there are as many numbers as packets,
so no two packets have the same (`NumbersUnique`), and this stays so when one packet is
replaced, when one is added at the end, and when the first is removed and the others
move up (`ReplacedNumbered`, `NextNumbered`, `MovedUpNumbered`).

The balances in the same module are `QueueAccounted`, `ValueConserved` and
`StakedBalAccounted`. The invariant writes each balance as a sum over all record
names, of the part of the record that is on that account (queued, under way,
on the host, executed without the news), and says that the parts balance
(`Balanced`). It needs `IndInv`, that no other account
than the module's is overdrawn, and `TransfersUnderWay`: a record in transfer has its packet, without
which its tokens would be nowhere. A step then changes the parts of the records
it touches, and the proof of each action says which.

`RedemptionRateNeverFalls` follows. The rate is rounded when it is
computed and the stTokens are rounded twice when they are minted, so that the rate
is at no time exactly the quotient it stands for, and comparing the two proves nothing. The
invariant (`Covered`) says instead that the tokens counted for a zone are at least
its supply times the least number that is rounded to the present rate
(`LeastRoundedTo`): were the rate computed now, it would not be lower. A step
that moves deposits leaves the count alone, and the hook's new rate is the greatest
that is covered (`RateAtLeast`). For `LiquidStake` the
question is whether `Quo`, which rounds to the nearest decimal, can round
up what `TruncateInt` then keeps as a whole stToken too much. Below a rate of two it
cannot (`MintedAtMost`), and the theorem assumes `MaxRedemptionRate < NewDecFromInt(2)`,
the bound at which `LiquidStake` is refused. The default is 1.5
(`x/stakeibc/types/params.go:25`); a parameter change, or the bound a zone is registered
with, may be above two. There the property is false, if only by the last
digit: with decimals of one digit TLC finds 33 tokens for 16 stTokens, a rate of
2.1, a stake of 2 that mints one stToken because 2 / 2.1 is rounded up to 1.0, and the
rate of 35 / 17, which is 2.0.

Last in the module is the rest of `TypeOK`, from the invariant `TypeInv`: the
balances, that the packets of a channel are numbered without gaps
(`PacketsNumbered`), that the iteration order has each record once (`OrderOK`), and
that no account is overdrawn (`PurseOK`). What is hard is the hook.

* It pays the transfers of all zones in the order of the records, each from what is left
  in the account of its zone, and skips those that cannot be paid. The model takes the
  balances before each attempt from a recursive function, which is shown to exist for its
  beginnings first (`BalancesExist`); then, along the order, what is paid so far plus
  what is left is what there was, and what is left is not negative
  (`PaidCovered`). A record that came twice in the order would break the sum, hence `OrderOK`.
* It adds records in the order of their zones and removes the empty ones, and an
  acknowledgement removes one from the middle. The order is kept as a list (`Lists`), and
  `AppendLists`, `ConcatLists`, `WithoutLists` and `NewOrderLists` say that each of
  these leaves a list. They rest on `Places`: of finitely many elements with different
  values, each has its own number of smaller ones, and every number up to their count
  occurs.
* It numbers the delegations of a zone by their place among the zone's records in that
  order, after the packet of the withdrawal address: `Places` again
  (`SubmittedNumbered`).

`UnbondingProofs`: `TypeOK`, `PacketsMatchRecords`, `PaidAtMostOnce` and
`UsersAccounted`.
The invariant `RecordsInv` is one for both channels. To the three properties it
adds what they rest on: a packet under way is well formed and its channel is
open, so that nothing is under way on a channel that is restored
(`PacketsWellFormed`); a record that is absent owes nothing, and a user's record is pending
only if its host zone unbonding is claimable (`RecordsWellFormed`); the deposits in progress are those
whose delegations are under way, and no more than there are (`StakingInv`), so that an
acknowledgement finds its deposit; and a claim
that a closed channel never delivered still has its pending record and was not
paid (`OrphansPending`), without which `TimeoutOnClose` could open a redemption
that the host has paid. `DayEpoch`, `ClaimCallback` and
`RestoreInterchainAccount` are the long cases: they change many records at
once, and the proofs go record by record. `TypeOK` also says that the packets of a
channel are numbered from 1 without gaps, so that there is always exactly one
packet whose turn it is (the last lemmas of `LedgerTheorems`).

`UnbondingLedgerProofs`: `EscrowAccounted`, `StakedBalAccounted`,
`RedemptionAcctAccounted` and `DepositsNotSwept`. The first three come from `RecordsInv` and the same balances written as sums over
all records (`LedgerInv`). An acknowledgement moves the amount of its packet from
the sum over packets to the sum over records; that the two amounts are the same is
`PacketsMatchRecords`. A channel that closes moves the executed packets into `lost`.

`DepositsNotSwept` needs a second invariant, `HostInv`, because the tokens of waiting
deposits and of unbonded records are one balance on the host, and nothing but time
keeps a sweep from the deposits. For every time left, the unbonding entries that complete
then cover the records that are due then (`BucketsInv`), where a record whose
undelegation is executed but not acknowledged has the time of its packet; what is unbonding
beyond the records was undelegated twice (`UnbondingInv`); the account, the unbonding
entries, the lost sweeps and the delegations that were executed without the news
(`Unbooked`) are together the deposits, the records still on the host
and the undelegations whose acknowledgement was lost (`HostAcctInv`); and a record is
swept only after its own time (`SweptInv`). The property follows: what unbonds is at
most what those records and the lost undelegations account for, so the account, with what
was delegated or swept without the news, is at least the deposits.

The same module proves the refinement `Spec => ImplementsLifecycle`: there is one
lemma per action that its step is one of `RedemptionLifecycle`, or leaves the mapped state as
it is. `NewDay` may drop a batch only if nobody is owed, while the code only looks
at the amounts of the records; `UsersAccounted` says that this is the same. An
acknowledgement must not change the stage of another batch, which holds because a batch is in one
packet at most (`PacketsMatchRecords`). That `Settle` follows a payment needs one
more invariant (`ClaimsPaid`): a claim packet that was executed is in `paid`.

`ClaimProofs`: `TypeOK`, `SharesAtMostWhole`, `ClaimedOncePerRound`, `PoolOfRound` and
`GrantsArePaid`, for weights of either sign. The invariant adds that a record that was not
opened early by another airdrop has been paid only for what it has completed, and that
the weights of an airdrop that was never allocated a negative one are positive and add up
to at most the total (`WeightsOK`). What a claim pays is a natural number although the
weights may be negative, because the claim is aborted otherwise (`AmountNat`).
`ClaimsSucceedHolds` says when that cannot happen: none of the user's airdrops was
allocated a negative weight. A record is then a positive part of its total, so that the
total is not zero, and a share of positive weights is not negative.

`ValidatorsProofs`: `CallbackAtMostOnce`, `StakedBalIsSum`, `SplitsAddUp`,
`HaltsOnlyOnOverflow`, `BooksMatchHost`, `DelegationNeverNegative`,
`AckNotStuck` and `SlashesAreReal`, from four invariants.

* `QueriesInv`: a query that is in the store has not been answered since it was
  last asked. `CallbackAtMostOnce` follows.
* `BooksInv`: the staked balance is the sum of the recorded delegations, no
  address is registered twice, and a packet has the shape its message gives it
  (`Shaped`). A split adds up because its last part is the rest, and an undelegation
  is sent only if its parts add up to what was asked. The moves of a packet cancel
  over all places they touch (`MovesCancel`), so a callback changes the balance and
  the delegations alike. If the weights do not overflow, each share is at most
  what remains (`TargetsNat`), and no coin is negative: `HaltsOnlyOnOverflow`.
* `LedgerInv`: the host executes packets in the order they were sent in; and for
  an address that is not tainted the rate is one, the shares are the recorded
  delegation plus all that is executed and unbooked, and, what makes it
  inductive, the books plus any first part of what is executed are not negative.
  When a packet is executed this is what the host's refusal guarantees
  (`FeasibleStays`); when one is acknowledged the parts become one shorter. At a
  rate of one the decimals are exact (`TokensExact`, `ExchangedExact`).
* `RatesInv`: of an address that is not tainted, a rate stored in this epoch is
  one, an answer of the first query says so, and an answer of the second shows the
  delegation that is on the books, unless it was raced. An answer that is read
  while nothing of the address is executed and unbooked shows exactly that by
  `LedgerInv`; a packet that is executed or acknowledged later marks the answers
  that are on their way as raced. `SlashesAreReal` follows because a correction
  needs a difference.

`DelegationNeverNegative` is the empty first part; `AckNotStuck` uses the first
part of length one: the undelegated amount of each validator is on its books, and all of
them together are at most the staked balance because every other validator has at
least nothing. The last is why `AckNotStuck` excepts negative books: a slash query
that overwrites a recorded delegation while a redelegation is under way can
leave some behind when that redelegation is booked, and then the staked balance may be less than
what an honest packet undelegates.

Only model-checked:

* liveness (`DepositsGetDelegated`, `RedemptionsGetClaimable`), which is out of the prover's
  reach;
* the four violations, which are statements about one behaviour each.

Every invariant and action property of the passing runs, and both refinements, are
proved.

## Plan

Done: `Epochs`, `Mint`, `DepositRecords`, `DepositLifecycle` and the refinement,
`UnbondingRecords`, `RedemptionLifecycle` and the refinement, `Validators`, `RateLimit`,
`Claim`, their runs, and the proofs above. Left, in this order:

1. A reduced liveness model of the limit on delegations over several zones,
   one of which is halted.
2. The reward flow: the withdrawal-balance query, its ICA and the reinvestment.

## Not modelled

* `deps/archway-main/x/photosynthesis`: a module of another application that is
  kept in this repository and does not share state with the modules under
  `x/`; several of its tasks are marked as placeholders in the code. Its
  known hazards are in `PROJECT.json`: records that are marked completed are
  appended next to the pending originals, and rewards are never cleared.
* `x/stakeibc`'s reward allocation and `ClearBalance`, the balance queries of
  rewards and fees and the ICA between them.
* Generated protobuf code, CLI, queries, genesis import and export, upgrade
  handlers and store migrations (one-shot), address, denom and memo parsing,
  proof verification of IBC and of interchain queries (external), the schedule
  of vesting accounts, events, logs and telemetry.
* Registration of zones while packets are under way, and changes of
  parameters by governance.
