--------------------------- MODULE DepositRecords ---------------------------
(***************************************************************************)
(* The life of a deposit: x/stakeibc takes native tokens and mints         *)
(* stTokens, the stride-epoch hook sends the tokens to the host chain by   *)
(* ICS-20 and delegates them there through the DELEGATION interchain       *)
(* account, and the x/records and x/stakeibc callbacks move the deposit    *)
(* record along.  Both channels are unreliable: the transfer channel is    *)
(* unordered, the interchain-account channel is ordered and is closed by   *)
(* its first timeout, with the acknowledgements that were still under way. *)
(*                                                                         *)
(* Identifiers.  The store's ids only serve to name records and to order   *)
(* them.  Here a record is named by a slot of Ids, reused once the record  *)
(* is removed, and the store's iteration order is the sequence order.      *)
(* Validators are left out: a delegation is one amount per record.  The    *)
(* withdrawal-balance query and the withdrawal account are the environment *)
(* of ReinvestCallback.                                                    *)
(***************************************************************************)
EXTENDS Dec, FiniteSets, Sequences, SequencesExt

CONSTANTS
    Zones,                    \* chain ids, numbers: the store iterates them in order
    Ids,                      \* names for the deposit records that exist at once
    StakeAmounts,             \* amounts a user may liquid stake
    WalletBalance,            \* bound on what the users own at first
    RewardAmounts,            \* reinvested amounts, the commission already taken
    RewardBudget,             \* bound on the sum of all rewards
    MinRedemptionRate,        \* safety bounds of the rate, decimals
    MaxRedemptionRate,
    RedemptionRateInterval,   \* stakeibc parameters of the same names
    DepositInterval,
    DelegateInterval,
    EpochCycle,               \* epoch numbers are kept modulo this
    MaxStakeICACallsPerEpoch,
    MaxPackets,               \* bound on the packets outstanding on one ICA channel
    SendFailures,             \* may SendPacket fail for a transfer?
    SetWithdrawAddress        \* the message of that name, no record's name

ASSUME DepositRecordsAssumption ==
    /\ IsFiniteSet(Ids)
    /\ Zones \subseteq Nat
    /\ Zones # {}
    /\ StakeAmounts \subseteq Nat \ {0}
    /\ RewardAmounts \subseteq Nat \ {0}
    /\ WalletBalance \in Nat
    /\ RewardBudget \in Nat
    /\ {MinRedemptionRate, MaxRedemptionRate} \subseteq Nat \ {0}
    /\ {RedemptionRateInterval, DepositInterval, DelegateInterval, EpochCycle}
         \subseteq Nat \ {0}
    /\ {MaxStakeICACallsPerEpoch, MaxPackets} \subseteq Nat
    /\ SendFailures \in BOOLEAN
    /\ SetWithdrawAddress \notin Ids

\* Reducing the epoch number modulo EpochCycle must not change its divisibility.
ASSUME CycleAssumption ==
    \A interval \in {RedemptionRateInterval, DepositInterval, DelegateInterval} :
        EpochCycle % interval = 0

VARIABLES
    epoch,       \* stride epoch number modulo EpochCycle
    zone,        \* HostZone store: halted, redemptionRate, stakedBal
    supply,      \* supply of the zone's stToken
    wallet,      \* native tokens the users own on stride
    rewardsLeft, \* rewards the environment may still pay out
    moduleAcct,  \* balance of the zone's module account on stride
    records,     \* DepositRecord store
    order,       \* its iteration order
    transfers,   \* outstanding ICS-20 transfers of deposits
    channel,     \* DELEGATION channel: state, and outstanding packets
    hostAcct,    \* balance of the delegation account on the host
    delegated,   \* what the delegation account really has delegated
    burned,      \* history: vouchers burned for a packet that was not sent
    delegations, \* history: times the delegation of a record there is was executed
    lostAcks,    \* history: records whose success was never acknowledged
    unrecorded   \* history: the amounts of such successes

stride == <<epoch, zone, supply, wallet, rewardsLeft, moduleAcct>>
host == <<hostAcct, delegated>>
ghosts == <<burned, delegations, lostAcks, unrecorded>>
vars == <<stride, records, order, transfers, channel, host, ghosts>>

Statuses == {"NONE", "TRANSFER_QUEUE", "TRANSFER_IN_PROGRESS",
             "DELEGATION_QUEUE", "DELEGATION_IN_PROGRESS"}
Record == [status : Statuses, zone : Zones, amount : Nat,
           fresh : BOOLEAN]  \* fresh: DepositEpochNumber is the current epoch
NoRecord == [status |-> "NONE", zone |-> CHOOSE z \in Zones : TRUE,
             amount |-> 0, fresh |-> FALSE]
NewRecord(z, status, amount) ==
    [status |-> status, zone |-> z, amount |-> amount, fresh |-> TRUE]

\* Ways to name one new record for each zone of S with the names in free.
Slots(S, free) == {slot \in [S -> free] : \A y, z \in S : slot[y] = slot[z] => y = z}

\* The store old with an empty record for each zone that slot gives a name.
WithNewRecords(old, slot) ==
    [i \in Ids |->
        IF \E z \in DOMAIN slot : slot[z] = i
        THEN NewRecord(CHOOSE z \in DOMAIN slot : slot[z] = i, "TRANSFER_QUEUE", 0)
        ELSE old[i]]

\* The numbers of S in increasing order.
Ascending(S) ==
    [k \in 1..Cardinality(S) |-> CHOOSE n \in S : Cardinality({m \in S : m < n}) = k - 1]

\* The names slot gives, in the order of the zones.
NewOrder(slot) ==
    LET zones == Ascending(DOMAIN slot) IN [k \in DOMAIN zones |-> slot[zones[k]]]

\* The order without the names in S.
Without(ord, S) ==
    LET kept == Ascending({k \in DOMAIN ord : ord[k] \notin S})
    IN  [k \in DOMAIN kept |-> ord[kept[k]]]

PacketStates == {"sent", "ok", "err"}
TransferPacket == [id : Ids, amount : Nat, state : PacketStates]
\* seq counts from the next acknowledgement the channel expects.
ICAPacket == [msg : Ids \cup {SetWithdrawAddress}, amount : Nat, seq : Int,
              state : PacketStates]

\* RegisterHostZone has registered the zones, their accounts are open, and
\* each has the empty record it appends for the current epoch.
Init ==
    /\ Slots(Zones, Ids) # {}
    /\ epoch = 0
    /\ zone = [z \in Zones |-> [halted |-> FALSE, redemptionRate |-> NewDecFromInt(1),
                                stakedBal |-> 0]]
    /\ supply = [z \in Zones |-> 0]
    /\ wallet = WalletBalance
    /\ rewardsLeft = RewardBudget
    /\ moduleAcct = [z \in Zones |-> 0]
    /\ LET slot == CHOOSE s \in Slots(Zones, Ids) : TRUE IN
       /\ records = WithNewRecords([i \in Ids |-> NoRecord], slot)
       /\ order = NewOrder(slot)
    /\ transfers = {}
    /\ channel = [z \in Zones |-> [state |-> "OPEN", pkts |-> {}]]
    /\ hostAcct = [z \in Zones |-> 0]
    /\ delegated = [z \in Zones |-> 0]
    /\ burned = [z \in Zones |-> 0]
    /\ delegations = [i \in Ids |-> 0]
    /\ lostAcks = {}
    /\ unrecorded = [z \in Zones |-> 0]

-----------------------------------------------------------------------------
(* The deposit record store *)

Present(recs) == {i \in Ids : recs[i].status # "NONE"}
FreeIds == Ids \ Present(records)
ActiveZones == {z \in Zones : ~zone[z].halted}
WithStatus(recs, z, statuses) ==
    {i \in Ids : recs[i].zone = z /\ recs[i].status \in statuses}
TotalAmount(recs, S) == SumFunction([i \in S |-> recs[i].amount])

SetStatus(recs, S, status) ==
    [i \in Ids |-> IF i \in S THEN [recs[i] EXCEPT !.status = status] ELSE recs[i]]
Delete(recs, S) == [i \in Ids |-> IF i \in S THEN NoRecord ELSE recs[i]]

\* The store iterates i before j.
Precedes(ord, i, j) ==
    \E k, l \in DOMAIN ord : k < l /\ ord[k] = i /\ ord[l] = j

-----------------------------------------------------------------------------
(* Liquid staking *)

IsRedemptionRateWithinSafetyBounds(z) ==
    /\ zone[z].redemptionRate >= MinRedemptionRate
    /\ zone[z].redemptionRate <= MaxRedemptionRate

\* Mutated: the stTokens are rounded up.
StTokensFor_up(amount, rate) == TruncateInt(Quo(NewDecFromInt(amount), rate)) + 1

StTokensFor(amount, rate) == TruncateInt(Quo(NewDecFromInt(amount), rate))

\* Mutated: the record's epoch and status are not looked at.
CurrentTransferRecord_any(z) ==
    WithStatus(records, z, {"TRANSFER_QUEUE", "TRANSFER_IN_PROGRESS"})

\* GetTransferDepositRecordByEpochAndChain
CurrentTransferRecord(z) ==
    {i \in WithStatus(records, z, {"TRANSFER_QUEUE"}) : records[i].fresh}

LiquidStake(z, amount) ==
    LET stAmount == StTokensFor(amount, zone[z].redemptionRate) IN
    /\ ~zone[z].halted
    /\ IsRedemptionRateWithinSafetyBounds(z)
    /\ wallet >= amount
    /\ stAmount # 0
    /\ \E i \in CurrentTransferRecord(z) :
         records' = [records EXCEPT ![i].amount = @ + amount]
    /\ wallet' = wallet - amount
    /\ moduleAcct' = [moduleAcct EXCEPT ![z] = @ + amount]
    /\ supply' = [supply EXCEPT ![z] = @ + stAmount]
    /\ UNCHANGED <<epoch, zone, rewardsLeft, order, transfers, channel, host, ghosts>>

-----------------------------------------------------------------------------
(* BeforeEpochStart for STRIDE_EPOCH, one step as it is one block's hook    *)

CreateDepositRecordsForEpoch(slot) ==
    WithNewRecords([i \in Ids |-> [records[i] EXCEPT !.fresh = FALSE]], slot)

GetUndelegatedBalance(recs, z) ==
    TotalAmount(recs, WithStatus(recs, z, {"DELEGATION_QUEUE", "DELEGATION_IN_PROGRESS"}))

GetModuleAccountBalance(recs, z) ==
    TotalAmount(recs, WithStatus(recs, z, {"TRANSFER_QUEUE", "TRANSFER_IN_PROGRESS"}))

UpdateRedemptionRate(recs, z) ==
    Quo(NewDecFromInt(GetUndelegatedBalance(recs, z) + zone[z].stakedBal
                        + GetModuleAccountBalance(recs, z)),
        NewDecFromInt(supply[z]))

\* Records TransferExistingDepositsToHostZones looks at; the empty ones it
\* removes, and it skips those of halted zones.
TransferDue(recs, e) ==
    {i \in Ids : /\ e % DepositInterval = 0
                 /\ recs[i].status = "TRANSFER_QUEUE"
                 /\ ~recs[i].fresh}

\* Mutated: a record of an earlier epoch is removed whatever it holds.
EmptyRecords_old(recs, e) == TransferDue(recs, e)

EmptyRecords(recs, e) == {i \in TransferDue(recs, e) : recs[i].amount = 0}

\* External (ICS-20 Transfer): the vouchers are taken from the module account
\* and burned first, if it can pay, record after record in store order.
BalancesBefore(recs, ord, e) ==
    LET bal[k \in 1..Len(ord) + 1] ==
            IF k = 1 THEN moduleAcct
            ELSE LET r == recs[ord[k - 1]]
                     before == bal[k - 1]
                 IN  IF /\ ord[k - 1] \in TransferDue(recs, e) \ EmptyRecords(recs, e)
                        /\ r.zone \in ActiveZones
                        /\ before[r.zone] >= r.amount
                     THEN [before EXCEPT ![r.zone] = @ - r.amount]
                     ELSE before
    IN  bal

\* Records whose vouchers TransferKeeper.Transfer takes.  Whether it then
\* succeeds depends on SendPacket (rate limit, client status, channel).
PaidTransfers(recs, ord, e) ==
    LET bal == BalancesBefore(recs, ord, e) IN
    {i \in TransferDue(recs, e) \ EmptyRecords(recs, e) :
        /\ recs[i].zone \in ActiveZones
        /\ \E k \in 1..Len(ord) :
             ord[k] = i /\ bal[k][recs[i].zone] >= recs[i].amount}

\* The first MaxStakeICACallsPerEpoch records in DELEGATION_QUEUE, whatever
\* becomes of them ...
StakeDue(recs, ord, e) ==
    LET queued == {i \in Ids : /\ e % DelegateInterval = 0
                               /\ recs[i].status = "DELEGATION_QUEUE"
                               /\ ~recs[i].fresh}
    IN  {i \in queued : Cardinality({j \in queued : Precedes(ord, j, i)})
                          < MaxStakeICACallsPerEpoch}

\* ... and those of them that DelegateOnHost submits.
StakeSubmitted(recs, ord, e) ==
    {i \in StakeDue(recs, ord, e) :
        recs[i].zone \in ActiveZones /\ channel[recs[i].zone].state = "OPEN"}

\* The packets SetWithdrawalAddress and DelegateOnHost add to z's channel.
SubmittedPackets(recs, ord, staked, z) ==
    LET mine == {i \in staked : recs[i].zone = z}
        first == Cardinality(channel[z].pkts) + 1
    IN  {[msg |-> i, amount |-> recs[i].amount, state |-> "sent",
          seq |-> first + 1 + Cardinality({j \in mine : Precedes(ord, j, i)})] : i \in mine}
        \cup
        {[msg |-> SetWithdrawAddress, amount |-> 0, state |-> "sent",
          seq |-> first] : y \in {z} \cap {y \in ActiveZones : channel[y].state = "OPEN"}}

\* The hook's changes: recs and ord are the store with the new records; of
\* these, empty are removed, paid transferred but for the failed, and staked
\* delegated.
ProcessDeposits(failed, e, recs, ord, empty, paid, staked) ==
    /\ failed \subseteq paid
    /\ epoch' = e
    /\ zone' = [z \in Zones |->
            IF ~zone[z].halted /\ supply[z] # 0 /\ e % RedemptionRateInterval = 0
            THEN [zone[z] EXCEPT !.redemptionRate = UpdateRedemptionRate(recs, z)]
            ELSE zone[z]]
    /\ records' = Delete(SetStatus(SetStatus(recs, paid \ failed, "TRANSFER_IN_PROGRESS"),
                                   staked, "DELEGATION_IN_PROGRESS"),
                         empty)
    /\ order' = Without(ord, empty)
    /\ transfers' = transfers \cup
            {[id |-> i, amount |-> recs[i].amount, state |-> "sent"] : i \in paid \ failed}
    /\ moduleAcct' = [z \in Zones |-> moduleAcct[z]
            - TotalAmount(recs, {i \in paid : recs[i].zone = z})]
    /\ burned' = [z \in Zones |-> burned[z]
            + TotalAmount(recs, {i \in failed : recs[i].zone = z})]
    /\ channel' = [z \in Zones |-> [channel[z] EXCEPT !.pkts =
            @ \cup SubmittedPackets(recs, ord, staked, z)]]
    /\ \A z \in Zones : Cardinality(channel'[z].pkts) <= MaxPackets
    /\ UNCHANGED <<supply, wallet, rewardsLeft, host, delegations, lostAcks, unrecorded>>

StrideEpoch(failed) ==
    /\ Slots(ActiveZones, FreeIds) # {}    \* bound: there are names for the new records
    /\ LET slot == CHOOSE s \in Slots(ActiveZones, FreeIds) : TRUE
           e == (epoch + 1) % EpochCycle
       IN  \E recs \in {CreateDepositRecordsForEpoch(slot)}, ord \in {order \o NewOrder(slot)} :
             \E empty \in {EmptyRecords(recs, e)}, paid \in {PaidTransfers(recs, ord, e)},
                staked \in {StakeSubmitted(recs, ord, e)} :
               ProcessDeposits(failed, e, recs, ord, empty, paid, staked)

-----------------------------------------------------------------------------
(* The ICS-20 channel and TransferCallback *)

\* External: the host receives the transfer and writes the acknowledgement.
TransferRecv(t, result) ==
    /\ t.state = "sent"
    /\ transfers' = (transfers \ {t}) \cup {[t EXCEPT !.state = result]}
    /\ hostAcct' = [hostAcct EXCEPT ![records[t.id].zone] =
            IF result = "ok" THEN @ + t.amount ELSE @]
    /\ UNCHANGED <<stride, records, order, channel, delegated, ghosts>>

\* What TransferCallback makes of the record.
\* Mutated: a failed transfer is queued for delegation.
TransferCallback_ignoresFailure(id, result) ==
    SetStatus(records, {id}, "DELEGATION_QUEUE")

TransferCallback(id, result) ==
    SetStatus(records, {id},
              IF result = "ok" THEN "DELEGATION_QUEUE" ELSE "TRANSFER_QUEUE")

\* OnAcknowledgementPacket and OnTimeoutPacket: the callback, then the
\* transfer module's refund.
TransferDone(t, result) ==
    /\ records[t.id].status # "NONE"    \* else the callback fails
    /\ records' = TransferCallback(t.id, result)
    /\ transfers' = transfers \ {t}
    /\ moduleAcct' = [moduleAcct EXCEPT ![records[t.id].zone] =
            IF result = "ok" THEN @ ELSE @ + t.amount]
    /\ UNCHANGED <<epoch, zone, supply, wallet, rewardsLeft, order, channel, host, ghosts>>

TransferAck(t) == t.state # "sent" /\ TransferDone(t, t.state)
TransferTimeout(t) == t.state = "sent" /\ TransferDone(t, "timeout")

-----------------------------------------------------------------------------
(* The DELEGATION channel, DelegateCallback and RestoreInterchainAccount *)

\* External: the host executes the packets in order.  Their deadline (Epochs)
\* is so far away that the model leaves open when it passes.
\* Nobody looks at the outcome of a MsgSetWithdrawAddress.
ExecuteICA(z, p, result) ==
    /\ channel[z].state = "OPEN"
    /\ p.state = "sent"
    /\ \A q \in channel[z].pkts : q.seq < p.seq => q.state # "sent"
    /\ IF p.msg = SetWithdrawAddress THEN result = "ok"
       ELSE result = "ok" => hostAcct[z] >= p.amount
    /\ channel' = [channel EXCEPT ![z].pkts = (@ \ {p}) \cup {[p EXCEPT !.state = result]}]
    /\ IF p.msg \in Ids /\ result = "ok"
       THEN /\ hostAcct' = [hostAcct EXCEPT ![z] = @ - p.amount]
            /\ delegated' = [delegated EXCEPT ![z] = @ + p.amount]
            /\ delegations' = [delegations EXCEPT ![p.msg] = @ + 1]
       ELSE UNCHANGED <<hostAcct, delegated, delegations>>
    /\ UNCHANGED <<stride, records, order, transfers, burned, lostAcks, unrecorded>>

\* Mutated: a failed delegation is not put back into the queue.
DelegateCallback_stuck(p) ==
    IF p.state = "err" THEN records ELSE Delete(records, {p.msg})

\* Mutated: the record of a failed delegation is removed as well.
DelegateCallback_drops(p) == Delete(records, {p.msg})

\* Mutated: a delegated record is not removed.
DelegateCallback_keeps(p) ==
    IF p.state = "err" THEN SetStatus(records, {p.msg}, "DELEGATION_QUEUE") ELSE records

DelegateCallback(p) ==
    IF p.state = "err" THEN SetStatus(records, {p.msg}, "DELEGATION_QUEUE")
    ELSE Delete(records, {p.msg})

\* Mutated: the delegation is recorded although it failed.
StakedBalAfter_failed(z, p) == zone[z].stakedBal + p.amount

StakedBalAfter(z, p) ==
    IF p.state = "ok" THEN zone[z].stakedBal + p.amount ELSE zone[z].stakedBal

\* OnAcknowledgementPacket: the channel is open and the packet is the next.
AckICA(z, p) ==
    /\ channel[z].state = "OPEN"
    /\ p.seq = 1
    /\ p.state # "sent"
    /\ channel' = [channel EXCEPT ![z].pkts = {[q EXCEPT !.seq = @ - 1] : q \in @ \ {p}}]
    /\ IF p.msg = SetWithdrawAddress    \* no callback data
       THEN UNCHANGED <<records, order, zone, delegations, lostAcks>>
       ELSE /\ records[p.msg].status # "NONE"    \* else the callback fails
            /\ records' = DelegateCallback(p)
            /\ order' = IF p.state = "ok" THEN Without(order, {p.msg}) ELSE order
            /\ zone' = [zone EXCEPT ![z].stakedBal = StakedBalAfter(z, p)]
            /\ delegations' = [delegations EXCEPT ![p.msg] =
                    IF records'[p.msg].status = "NONE" THEN 0 ELSE @]
            /\ lostAcks' = IF p.state = "ok" THEN lostAcks \ {p.msg} ELSE lostAcks
    /\ UNCHANGED <<epoch, supply, wallet, rewardsLeft, moduleAcct, transfers, host,
                   burned, unrecorded>>

\* OnTimeoutPacket of any packet the host has not received: DelegateCallback
\* does nothing, and IBC closes the ordered channel.  Acknowledgements that
\* were not relayed by then are refused from here on.
ExecutedAmount(z) ==
    LET ok == {p \in channel[z].pkts : p.state = "ok" /\ p.msg \in Ids}
    IN  SumFunction([p \in ok |-> p.amount])

TimeoutICA(z) ==
    /\ channel[z].state = "OPEN"
    /\ \E p \in channel[z].pkts : p.state = "sent"
    /\ channel' = [channel EXCEPT ![z] = [state |-> "CLOSED", pkts |-> {}]]
    /\ lostAcks' = lostAcks \cup
            {p.msg : p \in {q \in channel[z].pkts : q.state = "ok" /\ q.msg \in Ids}}
    /\ unrecorded' = [unrecorded EXCEPT ![z] = @ + ExecutedAmount(z)]
    /\ UNCHANGED <<stride, records, order, transfers, host, burned, delegations>>

RevertedRecords(z) ==
    {i \in Ids : records[i].zone = z /\ records[i].status = "DELEGATION_IN_PROGRESS"}

\* RegisterInterchainAccount only refuses while the active channel is open.
RestoreInterchainAccount(z) ==
    /\ channel[z].state # "OPEN"
    /\ channel' = [channel EXCEPT ![z].state = "INIT"]
    /\ records' = SetStatus(records, RevertedRecords(z), "DELEGATION_QUEUE")
    /\ UNCHANGED <<stride, order, transfers, host, ghosts>>

\* OnChanOpenAck: the new channel becomes the active one.
ChanOpenAck(z) ==
    /\ channel[z].state = "INIT"
    /\ channel' = [channel EXCEPT ![z].state = "OPEN"]
    /\ UNCHANGED <<stride, records, order, transfers, host, ghosts>>

-----------------------------------------------------------------------------
(* Rewards, and the safety halt *)

\* ReinvestCallback on success: the withdrawal account has paid the
\* delegation account, and a record is queued for its delegation.
ReinvestCallback(z, amount) ==
    /\ amount <= rewardsLeft
    /\ FreeIds # {}
    /\ LET i == CHOOSE j \in FreeIds : TRUE IN
       /\ records' = [records EXCEPT ![i] = NewRecord(z, "DELEGATION_QUEUE", amount)]
       /\ order' = Append(order, i)
    /\ rewardsLeft' = rewardsLeft - amount
    /\ hostAcct' = [hostAcct EXCEPT ![z] = @ + amount]
    /\ UNCHANGED <<epoch, zone, supply, wallet, moduleAcct, transfers, channel,
                   delegated, ghosts>>

\* x/stakeibc BeginBlocker; it runs before the epoch hooks of the block, so a
\* rate they set is acted on a block later.
BeginBlocker(z) ==
    /\ ~IsRedemptionRateWithinSafetyBounds(z)
    /\ ~zone[z].halted
    /\ zone' = [zone EXCEPT ![z].halted = TRUE]
    /\ UNCHANGED <<epoch, supply, wallet, rewardsLeft, moduleAcct, records, order,
                   transfers, channel, host, ghosts>>

FailureSets == IF SendFailures THEN SUBSET Ids ELSE {{}}

Next ==
    \/ \E failed \in FailureSets : StrideEpoch(failed)
    \/ \E t \in transfers :
         \/ \E result \in {"ok", "err"} : TransferRecv(t, result)
         \/ TransferAck(t)
         \/ TransferTimeout(t)
    \/ \E z \in Zones :
         \/ \E amount \in StakeAmounts : LiquidStake(z, amount)
         \/ \E amount \in RewardAmounts : ReinvestCallback(z, amount)
         \/ \E p \in channel[z].pkts :
              \/ \E result \in {"ok", "err"} : ExecuteICA(z, p, result)
              \/ AckICA(z, p)
         \/ TimeoutICA(z)
         \/ RestoreInterchainAccount(z)
         \/ ChanOpenAck(z)
         \/ BeginBlocker(z)

Spec == Init /\ [][Next]_vars

(* Fairness: the chain keeps producing epochs; relayers deliver what can be  *)
(* delivered; an operator restores a closed account; and a transfer or       *)
(* delegation tried again and again succeeds.                                *)
Fairness ==
    /\ WF_vars(StrideEpoch({}))
    /\ SF_vars(\E t \in transfers : TransferRecv(t, "ok"))
    /\ WF_vars(\E t \in transfers : TransferAck(t))
    /\ \A z \in Zones :
         /\ SF_vars(\E p \in channel[z].pkts : p.msg \in Ids /\ ExecuteICA(z, p, "ok"))
         /\ SF_vars(\E p \in channel[z].pkts : p.msg \notin Ids /\ ExecuteICA(z, p, "ok"))
         /\ SF_vars(\E p \in channel[z].pkts : AckICA(z, p))
         /\ WF_vars(channel[z].state = "CLOSED" /\ RestoreInterchainAccount(z))
         /\ WF_vars(ChanOpenAck(z))

FairSpec == Spec /\ Fairness

-----------------------------------------------------------------------------
(* Properties *)

InTransit(z) ==
    LET away == {t \in transfers : records[t.id].zone = z /\ t.state # "ok"}
    IN  SumFunction([t \in away |-> t.amount])

RecordsTypeOK ==
    /\ records \in [Ids -> Record]
    /\ transfers \subseteq TransferPacket
    /\ channel \in [Zones -> [state : {"OPEN", "CLOSED", "INIT"}, pkts : SUBSET ICAPacket]]
    /\ \A z \in Zones : IsFiniteSet(channel[z].pkts)
    /\ delegations \in [Ids -> Nat]
    /\ lostAcks \subseteq Ids

\* The type invariant; ids, sequence numbers and balances are consistent: the
\* store iterates every record once, the packets of a channel are numbered
\* without gaps, and no account of either chain is overdrawn.
TypeOK ==
    /\ RecordsTypeOK
    /\ epoch \in 0..EpochCycle - 1
    /\ zone \in [Zones -> [halted : BOOLEAN, redemptionRate : Nat, stakedBal : Nat]]
    /\ {wallet, rewardsLeft} \subseteq Nat
    /\ \A f \in {supply, moduleAcct, hostAcct, delegated, burned, unrecorded} :
         f \in [Zones -> Nat]
    /\ ToSet(order) = Present(records)
    /\ Len(order) = Cardinality(Present(records))
    /\ \A z \in Zones :
         {p.seq : p \in channel[z].pkts} = 1..Cardinality(channel[z].pkts)

\* What is queued for transfer is what the module account holds and what was
\* burned for packets that were never sent: no deposit is transferred with
\* the tokens of another one, and every failed transfer is refunded to the
\* queue it came from.
QueueAccounted ==
    \A z \in Zones :
        moduleAcct[z] + burned[z]
          = TotalAmount(records, WithStatus(records, z, {"TRANSFER_QUEUE"}))

\* The tokens the redemption rate counts (all deposit records and StakedBal)
\* are the tokens there are: in the module account, under way, in the
\* delegation account or delegated.  Retries, reverts and lost
\* acknowledgements neither create value nor lose it.
ValueConserved ==
    \A z \in Zones :
        moduleAcct[z] + burned[z] + InTransit(z) + hostAcct[z] + delegated[z]
          = zone[z].stakedBal
              + TotalAmount(records, {i \in Present(records) : records[i].zone = z})

\* StakedBal, which caps redemptions and which slash queries compare with the
\* host, lags behind the real delegation by exactly what is not yet
\* acknowledged and what was lost with a closed channel.
StakedBalAccounted ==
    \A z \in Zones :
        delegated[z] = zone[z].stakedBal + unrecorded[z] + ExecutedAmount(z)

\* A packet under way belongs to a record that exists, waits for exactly this
\* packet, and still has the amount the packet carries: no callback fails for
\* want of its record, and nothing is added to a deposit that has been sent.
PacketsMatchRecords ==
    /\ \A t \in transfers : /\ records[t.id].status = "TRANSFER_IN_PROGRESS"
                            /\ records[t.id].amount = t.amount
    /\ \A t, u \in transfers : t.id = u.id => t = u
    /\ \A z \in Zones : \A p \in {q \in channel[z].pkts : q.msg \in Ids} :
         /\ records[p.msg].status = "DELEGATION_IN_PROGRESS"
         /\ records[p.msg].zone = z
         /\ records[p.msg].amount = p.amount
         /\ \A q \in channel[z].pkts : q.msg = p.msg => q = p

\* A deposit is delegated at most once, however often its transfer or its
\* delegation fails, times out or is resubmitted, unless the acknowledgement
\* of its delegation was lost with the channel.
DelegatedOnceUnlessAckLost ==
    \A i \in Ids \ lostAcks :
        delegations[i] =
            IF \E z \in Zones : \E p \in channel[z].pkts : p.msg = i /\ p.state = "ok"
            THEN 1 ELSE 0

\* Liquid staking and moving deposits around never lower the redemption rate,
\* with the rounding of the code's decimals: whoever stakes gets no more
\* stTokens than the rate allows, and no token drops out of the count.
RedemptionRateNeverFalls ==
    [][\A z \in Zones : zone'[z].redemptionRate >= zone[z].redemptionRate]_vars

\* Every deposit of a zone that is not halted is delegated in the end, unless
\* an acknowledgement was lost: a deposit that is then delegated twice uses up
\* the tokens of another one, which cannot be delegated any more.
DepositsGetDelegated ==
    \A i \in Ids :
        records[i].amount > 0
          ~> \/ records[i].amount = 0
             \/ zone[records[i].zone].halted
             \/ unrecorded[records[i].zone] > 0

(* What the pipeline promises: DepositLifecycle *)

\* The host has received the transfer of i, acknowledged or not; the host has
\* executed the delegation of i, and its success can still be acknowledged.
Landed(trs, i) == \E t \in trs : t.id = i /\ t.state = "ok"
Executed(pkts, i) == \E p \in pkts : p.msg = i /\ p.state = "ok"

\* The stage of a deposit in a store and with the packets of the two channels.
StageOf(recs, trs, chan, i) ==
    CASE recs[i].status = "NONE" -> "none"
      [] recs[i].status = "TRANSFER_QUEUE" -> "collecting"
      [] recs[i].status = "TRANSFER_IN_PROGRESS" ->
           IF Landed(trs, i) THEN "onHost" ELSE "transit"
      [] recs[i].status = "DELEGATION_QUEUE" -> "onHost"
      [] recs[i].status = "DELEGATION_IN_PROGRESS" ->
           IF Executed(chan[recs[i].zone].pkts, i) THEN "staked" ELSE "onHost"

deposits == [i \in Ids |-> [stage |-> StageOf(records, transfers, channel, i),
                            amount |-> records[i].amount]]

Lifecycle == INSTANCE DepositLifecycle WITH deposit <- deposits

\* Queues, packets, callbacks and restored channels together do nothing but
\* carry each deposit from stride to the host and stake it there: whatever
\* fails, is retried or is lost, its amount stays what was sent, it never
\* goes back once the host has it, and it leaves the books only when the
\* host has staked it (or when it is empty).
ImplementsLifecycle == Lifecycle!Spec

(* Refuted by the code *)

\* icacallbacks_delegate.go and msg_server_restore_interchain_account.go: a
\* record left in progress by a timeout is reverted when the channel is
\* restored, "so that they can be staked".  It was not staked before, then.
NeverDelegatedTwice == \A i \in Ids : delegations[i] <= 1
=============================================================================
