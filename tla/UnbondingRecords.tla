-------------------------- MODULE UnbondingRecords --------------------------
(***************************************************************************)
(* The life of a redemption: RedeemStake escrows stTokens and adds to the  *)
(* current epoch unbonding record, the day-epoch hook undelegates what the *)
(* records ask for and sweeps what has unbonded into the redemption        *)
(* account, and the users claim it there.  Undelegations and sweeps use    *)
(* the ordered DELEGATION channel of the zone, claims the ordered          *)
(* REDEMPTION channel; a timeout closes the channel, and the               *)
(* acknowledgements still under way are lost with it.                      *)
(*                                                                         *)
(* Epoch unbonding records are named by slots of Eurs, reused once the     *)
(* record is removed.  Validators are left out: their delegations add up   *)
(* to StakedBal.  The deposit records (DepositRecords) are taken together: *)
(* they share the delegation account, its channel and StakedBal, and their *)
(* delegations are packets on that channel.  Times are counted from now,   *)
(* in ticks of the host's clock.                                           *)
(***************************************************************************)
EXTENDS Dec, FiniteSets, Sequences, FiniteSetsExt

CONSTANTS
    Zones,
    Users,
    Eurs,                \* names for the epoch unbonding records there are at once
    RedeemAmounts,       \* stTokens a user may redeem
    InitialStake,        \* tokens delegated for a zone at first, with as many stTokens
    InitialDeposits,     \* tokens, with their stTokens, not yet delegated at first
    RewardBudget,        \* bound on the rewards that are reinvested
    MinRedemptionRate,
    MaxRedemptionRate,
    UnbondingFrequency,  \* of the host zone
    DayCycle,            \* day numbers are kept modulo this
    UnbondingPeriod,     \* of the host chain, in ticks
    MaxLag,              \* bound on the ticks the light client is behind the host
    MaxPackets,          \* bound on the packets outstanding on one channel
    MaxLostDelegation    \* bound on the tokens delegated without the news: each such
                         \* loss lets them be delegated and undelegated once more

ASSUME UnbondingRecordsAssumption ==
    /\ IsFiniteSet(Eurs) /\ Eurs # {}
    /\ IsFiniteSet(Users)
    /\ RedeemAmounts \subseteq Nat \ {0}
    /\ {InitialStake, InitialDeposits, RewardBudget, MaxLag, MaxPackets,
        MaxLostDelegation} \subseteq Nat
    /\ {MinRedemptionRate, MaxRedemptionRate} \subseteq Nat \ {0}
    /\ {UnbondingFrequency, DayCycle, UnbondingPeriod} \subseteq Nat \ {0}
    /\ DayCycle % UnbondingFrequency = 0

VARIABLES
    day,            \* day epoch number modulo DayCycle
    current,        \* the record of the current day epoch
    zone,           \* HostZone store: halted, redemptionRate, stakedBal
    hzu,            \* EpochUnbondingRecord store: the HostZoneUnbondings
    urr,            \* UserRedemptionRecord store
    stWallet,       \* stTokens the users hold
    escrow,         \* stTokens the zone's address holds
    deposits,       \* tokens of the deposit records, which are on the host
    staking,        \* those of them in status DELEGATION_IN_PROGRESS
    rewardsLeft,    \* rewards the environment may still pay out
    channel,        \* state and outstanding packets of the two channels of a zone
    orphans,        \* claims sent on a channel that has closed, never received
    delegated,      \* what the delegation account has delegated on the host
    unbonding,      \* what it has unbonding, by the time left
    hostAcct,       \* balance of the delegation account on the host
    redemptionAcct, \* balance of the redemption account on the host
    paid,           \* history: user records whose claim was executed
    lost            \* history: amounts executed whose acknowledgement was lost

records == <<day, current, hzu, urr>>
accounts == <<stWallet, escrow, deposits, staking, rewardsLeft>>
host == <<delegated, unbonding, hostAcct, redemptionAcct>>
ghosts == <<paid, lost>>
vars == <<records, zone, accounts, channel, orphans, host, ghosts>>

Accounts == {"DELEGATION", "REDEMPTION"}
Kinds == {"undelegate", "redemption", "claim", "delegate"}

\* Time left until the UnbondingTime, which may be long past.
Times == -(MaxLag + 1)..UnbondingPeriod
Passed(left) == IF left - 1 \in Times THEN left - 1 ELSE left

Statuses == {"NONE", "UNBONDING_QUEUE", "UNBONDING_IN_PROGRESS",
             "EXIT_TRANSFER_QUEUE", "EXIT_TRANSFER_IN_PROGRESS", "CLAIMABLE"}
HostZoneUnbonding == [status : Statuses, native : Nat, st : Nat, left : Times]
NoUnbonding == [status |-> "NONE", native |-> 0, st |-> 0, left |-> 0]
NewUnbonding == [NoUnbonding EXCEPT !.status = "UNBONDING_QUEUE"]

UserRedemptionRecord == [amount : Nat, pending : BOOLEAN]
NoRedemption == [amount |-> 0, pending |-> FALSE]    \* no record: amounts are positive
Key == [eur : Eurs, zone : Zones, user : Users]
UserRecord(k) == urr[k.eur][k.zone][k.user]

\* A packet is for the records it names; left is the completion time that the
\* acknowledgement of an undelegation carries.
Packet == [kind : Kinds, eurs : SUBSET Eurs, users : SUBSET Users, amount : Nat,
           seq : Int, state : {"sent", "ok", "err"}, left : Times]

Init ==
    /\ day = 0
    /\ current = CHOOSE e \in Eurs : TRUE
    /\ zone = [z \in Zones |-> [halted |-> FALSE, redemptionRate |-> NewDecFromInt(1),
                                stakedBal |-> InitialStake]]
    /\ hzu = [e \in Eurs |-> [z \in Zones |->
            IF e = current THEN NewUnbonding ELSE NoUnbonding]]
    /\ urr = [e \in Eurs |-> [z \in Zones |-> [u \in Users |-> NoRedemption]]]
    /\ stWallet = [z \in Zones |-> InitialStake + InitialDeposits]
    /\ escrow = [z \in Zones |-> 0]
    /\ deposits = [z \in Zones |-> InitialDeposits]
    /\ staking = [z \in Zones |-> 0]
    /\ rewardsLeft = RewardBudget
    /\ channel = [z \in Zones |-> [a \in Accounts |-> [state |-> "OPEN", pkts |-> {}]]]
    /\ orphans = {}
    /\ delegated = [z \in Zones |-> InitialStake]
    /\ unbonding = [z \in Zones |-> [t \in 1..UnbondingPeriod |-> 0]]
    /\ hostAcct = [z \in Zones |-> InitialDeposits]
    /\ redemptionAcct = [z \in Zones |-> 0]
    /\ paid = {}
    /\ lost = [z \in Zones |-> [k \in Kinds |-> 0]]

-----------------------------------------------------------------------------
(* The epoch unbonding record store *)

ActiveZones == {z \in Zones : ~zone[z].halted}
WithStatus(recs, z, statuses) == {e \in Eurs : recs[e][z].status \in statuses}
NativeAmount(recs, z, S) == SumFunction([e \in S |-> recs[e][z].native])
StAmount(recs, z, S) == SumFunction([e \in S |-> recs[e][z].st])

SetHostZoneUnbondings(recs, z, S, status) ==
    [e \in Eurs |-> [y \in Zones |->
        IF e \in S /\ y = z THEN [recs[e][y] EXCEPT !.status = status] ELSE recs[e][y]]]

-----------------------------------------------------------------------------
(* RedeemStake *)

IsRedemptionRateWithinSafetyBounds(z) ==
    /\ zone[z].redemptionRate >= MinRedemptionRate
    /\ zone[z].redemptionRate <= MaxRedemptionRate

NativeTokensFor(amount, rate) == RoundInt(Mul(NewDecFromInt(amount), rate))

RedeemStake(z, u, amount) ==
    LET native == NativeTokensFor(amount, zone[z].redemptionRate) IN
    /\ ~zone[z].halted
    /\ urr[current][z][u] = NoRedemption    \* one redemption a day
    /\ native <= zone[z].stakedBal
    /\ IsRedemptionRateWithinSafetyBounds(z)
    /\ native > 0
    /\ stWallet[z] >= amount
    /\ hzu[current][z].status # "NONE"
    /\ hzu' = [hzu EXCEPT ![current][z].native = @ + native, ![current][z].st = @ + amount]
    /\ urr' = [urr EXCEPT ![current][z][u] = [amount |-> native, pending |-> FALSE]]
    /\ stWallet' = [stWallet EXCEPT ![z] = @ - amount]
    /\ escrow' = [escrow EXCEPT ![z] = @ + amount]
    /\ UNCHANGED <<day, current, zone, deposits, staking, rewardsLeft, channel, orphans, host,
                   ghosts>>

-----------------------------------------------------------------------------
(* BeforeEpochStart for DAY_EPOCH, one step as it is one block's hook       *)

\* Mutated: what is in progress is submitted again, on whatever channel.
UnbondingDue_retries(z, d) ==
    {e \in WithStatus(hzu, z, {"UNBONDING_QUEUE", "UNBONDING_IN_PROGRESS"}) : hzu[e][z].native > 0}

\* GetHostZoneUnbondingMsgs: what is queued, in all records.  It fails when
\* the validators cannot cover the sum; SubmitTxs fails on a closed channel.
UnbondingDue(z, d) ==
    LET queued == {e \in WithStatus(hzu, z, {"UNBONDING_QUEUE"}) : hzu[e][z].native > 0} IN
    IF /\ z \in ActiveZones
       /\ d % UnbondingFrequency = 0
       /\ NativeAmount(hzu, z, queued) <= zone[z].stakedBal
       /\ channel[z]["DELEGATION"].state = "OPEN"
    THEN queued ELSE {}

\* Mutated: records are swept before they have unbonded.
SweepDue_early(z, lag) ==
    IF z \in ActiveZones /\ channel[z]["DELEGATION"].state = "OPEN"
    THEN WithStatus(hzu, z, {"EXIT_TRANSFER_QUEUE"}) ELSE {}

\* SweepAllUnbondedTokensForHostZone: what has unbonded by the time of the
\* light client, which is lag ticks behind the host.
SweepDue(z, lag) ==
    IF z \in ActiveZones /\ channel[z]["DELEGATION"].state = "OPEN"
    THEN {e \in WithStatus(hzu, z, {"EXIT_TRANSFER_QUEUE"}) : hzu[e][z].left + lag < 0}
    ELSE {}

\* Mutated: a record is removed as soon as it has been swept.
CleanedUp_swept(recs) ==
    {e \in Eurs : \A z \in Zones : recs[e][z].native = 0 \/ recs[e][z].status = "CLAIMABLE"}

\* CleanupEpochUnbondingRecords
CleanedUp(recs) == {e \in Eurs : \A z \in Zones : recs[e][z].native = 0}

\* CreateEpochUnbondingRecord, once the records in gone are removed.
CreateEpochUnbondingRecord(recs, gone, new) ==
    [e \in Eurs |-> [z \in Zones |->
        IF e = new /\ z \in ActiveZones THEN NewUnbonding
        ELSE IF e \in gone \cup {new} THEN NoUnbonding ELSE recs[e][z]]]

SubmittedPackets(z, d, lag) ==
    LET pkt(kind, S, first) ==
            {[kind |-> kind, eurs |-> S, users |-> {}, amount |-> NativeAmount(hzu, z, S),
              seq |-> first + Cardinality(channel[z]["DELEGATION"].pkts),
              state |-> "sent", left |-> 0] : T \in {S} \ {{}}}
        due == UnbondingDue(z, d)
    IN  pkt("undelegate", due, 1)
          \cup pkt("redemption", SweepDue(z, lag), IF due = {} THEN 1 ELSE 2)

DayEpoch(lag) ==
    LET d == (day + 1) % DayCycle
        recs == [e \in Eurs |-> [z \in Zones |->
                    CASE e \in UnbondingDue(z, d) ->
                           [hzu[e][z] EXCEPT !.status = "UNBONDING_IN_PROGRESS"]
                      [] e \in SweepDue(z, lag) ->
                           [hzu[e][z] EXCEPT !.status = "EXIT_TRANSFER_IN_PROGRESS"]
                      [] OTHER -> hzu[e][z]]]
        gone == CleanedUp(recs)
        new == CHOOSE e \in gone : TRUE
    IN
    /\ gone # {}    \* bound: there is a name for the new record
    /\ day' = d
    /\ current' = new
    /\ hzu' = CreateEpochUnbondingRecord(recs, gone, new)
    /\ channel' = [z \in Zones |-> [channel[z] EXCEPT !["DELEGATION"].pkts =
            @ \cup SubmittedPackets(z, d, lag)]]
    /\ \A z \in Zones : Cardinality(channel'[z]["DELEGATION"].pkts) <= MaxPackets
    /\ UNCHANGED <<zone, urr, accounts, orphans, host, paid, lost>>

-----------------------------------------------------------------------------
(* ClaimUndelegatedTokens *)

\* Mutated: a claim that awaits its acknowledgement may be made again.
Claimable_again(e, z, u) ==
    urr[e][z][u] # NoRedemption /\ hzu[e][z].status = "CLAIMABLE"

\* GetClaimableRedemptionRecord
Claimable(e, z, u) ==
    /\ urr[e][z][u] # NoRedemption
    /\ hzu[e][z].status = "CLAIMABLE"
    /\ ~urr[e][z][u].pending

ClaimUndelegatedTokens(e, z, u) ==
    LET pkts == channel[z]["REDEMPTION"].pkts IN
    /\ Claimable(e, z, u)
    /\ ~zone[z].halted
    /\ channel[z]["REDEMPTION"].state = "OPEN"
    /\ Cardinality(pkts) < MaxPackets
    /\ channel' = [channel EXCEPT ![z]["REDEMPTION"].pkts = @ \cup
            {[kind |-> "claim", eurs |-> {e}, users |-> {u}, amount |-> urr[e][z][u].amount,
              seq |-> Cardinality(pkts) + 1, state |-> "sent", left |-> 0]}]
    /\ urr' = [urr EXCEPT ![e][z][u].pending = TRUE]
    /\ UNCHANGED <<day, current, zone, hzu, accounts, orphans, host, ghosts>>

-----------------------------------------------------------------------------
(* The host chain *)

\* The user records a packet is for.
Keys(z, p) == {[eur |-> e, zone |-> z, user |-> u] : e \in p.eurs, u \in p.users}

\* External: the host executes the packets of a channel in order.  A message
\* may fail, and does when the account cannot pay.
ExecuteICA(z, a, p, result) ==
    /\ channel[z][a].state = "OPEN"
    /\ p.state = "sent"
    /\ \A q \in channel[z][a].pkts : q.seq < p.seq => q.state # "sent"
    /\ channel' = [channel EXCEPT ![z][a].pkts = (@ \ {p}) \cup
            {[p EXCEPT !.state = result,
                       !.left = IF p.kind = "undelegate" THEN UnbondingPeriod ELSE 0]}]
    /\ \/ /\ result = "err"
          /\ UNCHANGED <<host, paid>>
       \/ /\ result = "ok" /\ p.kind = "undelegate"
          /\ delegated[z] >= p.amount
          /\ delegated' = [delegated EXCEPT ![z] = @ - p.amount]
          /\ unbonding' = [unbonding EXCEPT ![z][UnbondingPeriod] = @ + p.amount]
          /\ UNCHANGED <<hostAcct, redemptionAcct, paid>>
       \/ /\ result = "ok" /\ p.kind = "redemption"
          /\ hostAcct[z] >= p.amount
          /\ hostAcct' = [hostAcct EXCEPT ![z] = @ - p.amount]
          /\ redemptionAcct' = [redemptionAcct EXCEPT ![z] = @ + p.amount]
          /\ UNCHANGED <<delegated, unbonding, paid>>
       \/ /\ result = "ok" /\ p.kind = "claim"
          /\ redemptionAcct[z] >= p.amount
          /\ redemptionAcct' = [redemptionAcct EXCEPT ![z] = @ - p.amount]
          /\ paid' = paid \cup Keys(z, p)
          /\ UNCHANGED <<delegated, unbonding, hostAcct>>
       \/ /\ result = "ok" /\ p.kind = "delegate"
          /\ hostAcct[z] >= p.amount
          /\ hostAcct' = [hostAcct EXCEPT ![z] = @ - p.amount]
          /\ delegated' = [delegated EXCEPT ![z] = @ + p.amount]
          /\ UNCHANGED <<unbonding, redemptionAcct, paid>>
    /\ UNCHANGED <<records, zone, accounts, orphans, lost>>

\* External: time passes on the host, and unbondings complete.
Tick ==
    /\ unbonding' = [z \in Zones |-> [t \in 1..UnbondingPeriod |->
            IF t = UnbondingPeriod THEN 0 ELSE unbonding[z][t + 1]]]
    /\ hostAcct' = [z \in Zones |-> hostAcct[z] + unbonding[z][1]]
    /\ hzu' = [e \in Eurs |-> [z \in Zones |->
            IF hzu[e][z].status \in {"EXIT_TRANSFER_QUEUE", "EXIT_TRANSFER_IN_PROGRESS"}
            THEN [hzu[e][z] EXCEPT !.left = Passed(@)] ELSE hzu[e][z]]]
    /\ channel' = [z \in Zones |-> [a \in Accounts |-> [channel[z][a] EXCEPT !.pkts =
            {IF p.kind = "undelegate" /\ p.state = "ok"
             THEN [p EXCEPT !.left = Passed(@)] ELSE p : p \in @}]]]
    /\ UNCHANGED <<day, current, urr, zone, accounts, orphans, delegated,
                   redemptionAcct, ghosts>>

-----------------------------------------------------------------------------
(* Acknowledgements and their callbacks *)

\* What UndelegateCallback makes of the records it is for: on success their
\* UnbondingTime is set and they wait for the sweep, else they are queued.
UndelegateCallback(z, p) ==
    LET timed == [e \in Eurs |-> [y \in Zones |->
                    IF e \in p.eurs /\ y = z THEN [hzu[e][y] EXCEPT !.left = p.left]
                    ELSE hzu[e][y]]]
    IN  IF p.state = "ok"
        THEN SetHostZoneUnbondings(timed, z, p.eurs, "EXIT_TRANSFER_QUEUE")
        ELSE SetHostZoneUnbondings(hzu, z, p.eurs, "UNBONDING_QUEUE")

\* UpdateHostZoneUnbondings: the stTokens to burn.
BurnAmount(z, p) == IF p.state = "ok" THEN StAmount(hzu, z, p.eurs) ELSE 0

\* Mutated: StakedBal is not decremented.
UnstakedAmount_none(p) == 0

\* UpdateDelegationBalances
UnstakedAmount(p) == IF p.state = "ok" THEN p.amount ELSE 0

\* Mutated: a sweep that failed makes the records claimable.
RedemptionCallback_ignoresFailure(z, p) ==
    SetHostZoneUnbondings(hzu, z, p.eurs, "CLAIMABLE")

RedemptionCallback(z, p) ==
    SetHostZoneUnbondings(hzu, z, p.eurs,
        IF p.state = "ok" THEN "CLAIMABLE" ELSE "EXIT_TRANSFER_QUEUE")

DecrementHostZoneUnbonding(k) ==
    [hzu EXCEPT ![k.eur][k.zone].native = @ - UserRecord(k).amount]

\* Mutated: the record is removed whatever became of the claim.
ClaimCallback_always(k, state) ==
    /\ UserRecord(k) # NoRedemption
    /\ urr' = [urr EXCEPT ![k.eur][k.zone][k.user] = NoRedemption]
    /\ hzu' = DecrementHostZoneUnbonding(k)
    /\ paid' = paid \ {k}

ClaimCallback(k, state) ==
    /\ UserRecord(k) # NoRedemption    \* else the callback fails
    /\ IF state = "ok"
       THEN /\ urr' = [urr EXCEPT ![k.eur][k.zone][k.user] = NoRedemption]
            /\ hzu' = DecrementHostZoneUnbonding(k)
            /\ paid' = paid \ {k}
       ELSE /\ urr' = [urr EXCEPT ![k.eur][k.zone][k.user].pending = FALSE]
            /\ UNCHANGED <<hzu, paid>>

\* On success the deposit record is removed and StakedBal incremented, else the
\* record is queued again.
DelegateCallback(z, p) ==
    LET amount == IF p.state = "ok" THEN p.amount ELSE 0 IN
    /\ zone' = [zone EXCEPT ![z].stakedBal = @ + amount]
    /\ deposits' = [deposits EXCEPT ![z] = @ - amount]
    /\ staking' = [staking EXCEPT ![z] = @ - p.amount]

\* OnAcknowledgementPacket: the channel is open and the packet is the next.
\* A callback that fails leaves everything as it was.
AckICA(z, a, p) ==
    /\ channel[z][a].state = "OPEN"
    /\ p.seq = 1
    /\ p.state # "sent"
    /\ \A e \in p.eurs : hzu[e][z].status # "NONE"
    /\ channel' = [channel EXCEPT ![z][a].pkts = {[q EXCEPT !.seq = @ - 1] : q \in @ \ {p}}]
    /\ \/ /\ p.kind = "undelegate"
          /\ zone[z].stakedBal >= UnstakedAmount(p)
          /\ escrow[z] >= BurnAmount(z, p)
          /\ zone' = [zone EXCEPT ![z].stakedBal = @ - UnstakedAmount(p)]
          /\ escrow' = [escrow EXCEPT ![z] = @ - BurnAmount(z, p)]
          /\ hzu' = UndelegateCallback(z, p)
          /\ UNCHANGED <<urr, deposits, staking, paid>>
       \/ /\ p.kind = "redemption"
          /\ hzu' = RedemptionCallback(z, p)
          /\ UNCHANGED <<zone, escrow, urr, deposits, staking, paid>>
       \/ /\ p.kind = "claim"
          /\ \E k \in Keys(z, p) : ClaimCallback(k, p.state)
          /\ UNCHANGED <<zone, escrow, deposits, staking>>
       \/ /\ p.kind = "delegate"
          /\ DelegateCallback(z, p)
          /\ UNCHANGED <<escrow, hzu, urr, paid>>
    /\ UNCHANGED <<day, current, stWallet, rewardsLeft, orphans, host, lost>>

-----------------------------------------------------------------------------
(* Timeouts and restored channels *)

\* What the host has executed and the controller was not told.
Executed(z, a, kind) ==
    LET ok == {p \in channel[z][a].pkts : p.state = "ok" /\ p.kind = kind}
    IN  SumFunction([p \in ok |-> p.amount])

\* IBC closes the channel.  The callbacks of delegations, undelegations and
\* sweeps do nothing, the callback of a claim allows the user to try again.  Claims sent
\* after it can never be received.
CloseChannel(z, a, expired) ==
    /\ channel' = [channel EXCEPT ![z][a] = [state |-> "CLOSED", pkts |-> {}]]
    /\ orphans' = orphans \cup UNION {Keys(z, p) : p \in
            {q \in channel[z][a].pkts \ expired : q.state = "sent"}}
    /\ lost' = [lost EXCEPT ![z] = [k \in Kinds |-> @[k] + Executed(z, a, k)]]
    /\ lost'[z]["delegate"] <= MaxLostDelegation
    /\ UNCHANGED <<day, current, zone, accounts, host>>

TimeoutICA(z, a, p) ==
    /\ channel[z][a].state = "OPEN"
    /\ p.state = "sent"
    /\ CloseChannel(z, a, {p})
    /\ IF p.kind = "claim" THEN \E k \in Keys(z, p) : ClaimCallback(k, "timeout")
       ELSE UNCHANGED <<hzu, urr, paid>>

\* Packets that move none of the tokens here use the same channel (withdraw
\* addresses, redelegations), and one of them timed out.
TimeoutOfAnother(z) ==
    /\ channel[z]["DELEGATION"].state = "OPEN"
    /\ CloseChannel(z, "DELEGATION", {})
    /\ UNCHANGED <<hzu, urr, paid>>

\* IBC's TimeoutOnClose for a claim the closed channel never delivered.
TimeoutOnClose(k) ==
    /\ ClaimCallback(k, "timeout")
    /\ orphans' = orphans \ {k}
    /\ UNCHANGED <<day, current, zone, accounts, channel, host, lost>>

\* Mutated: what was being swept is undelegated again.
RevertedUnbondings_all(z) ==
    SetHostZoneUnbondings(hzu, z,
        WithStatus(hzu, z, {"UNBONDING_IN_PROGRESS", "EXIT_TRANSFER_IN_PROGRESS"}),
        "UNBONDING_QUEUE")

\* Mutated: what was being swept is left in progress.
RevertedUnbondings_unswept(z) ==
    SetHostZoneUnbondings(hzu, z, WithStatus(hzu, z, {"UNBONDING_IN_PROGRESS"}),
                          "UNBONDING_QUEUE")

\* RestoreInterchainAccount of a delegation account reverts the records, those
\* of deposits too.
RevertedUnbondings(z) ==
    SetHostZoneUnbondings(
        SetHostZoneUnbondings(hzu, z, WithStatus(hzu, z, {"UNBONDING_IN_PROGRESS"}),
                              "UNBONDING_QUEUE"),
        z, WithStatus(hzu, z, {"EXIT_TRANSFER_IN_PROGRESS"}), "EXIT_TRANSFER_QUEUE")

RestoreInterchainAccount(z, a) ==
    /\ channel[z][a].state # "OPEN"
    /\ channel' = [channel EXCEPT ![z][a].state = "INIT"]
    /\ IF a = "DELEGATION"
       THEN /\ hzu' = RevertedUnbondings(z)
            /\ staking' = [staking EXCEPT ![z] = 0]
       ELSE UNCHANGED <<hzu, staking>>
    /\ UNCHANGED <<day, current, urr, zone, stWallet, escrow, deposits, rewardsLeft, orphans,
                   host, ghosts>>

ChanOpenAck(z, a) ==
    /\ channel[z][a].state = "INIT"
    /\ channel' = [channel EXCEPT ![z][a].state = "OPEN"]
    /\ UNCHANGED <<records, zone, accounts, orphans, host, ghosts>>

-----------------------------------------------------------------------------
(* The deposits' side, as far as it shares state with the redemptions *)

\* Rewards are reinvested: a new deposit record, its tokens on the host.
Reinvest(z) ==
    /\ rewardsLeft > 0
    /\ rewardsLeft' = rewardsLeft - 1
    /\ deposits' = [deposits EXCEPT ![z] = @ + 1]
    /\ hostAcct' = [hostAcct EXCEPT ![z] = @ + 1]
    /\ UNCHANGED <<records, zone, stWallet, escrow, staking, channel, orphans, delegated,
                   unbonding, redemptionAcct, ghosts>>

\* Of StakeExistingDepositsOnHostZones: some of the deposits that are queued
\* are delegated.  Which, and in how many packets, is up to the order of their
\* records and a limit.
DelegateOnHost(z, amount) ==
    LET pkts == channel[z]["DELEGATION"].pkts IN
    /\ staking[z] + amount <= deposits[z]
    /\ z \in ActiveZones
    /\ channel[z]["DELEGATION"].state = "OPEN"
    /\ Cardinality(pkts) < MaxPackets
    /\ channel' = [channel EXCEPT ![z]["DELEGATION"].pkts = @ \cup
            {[kind |-> "delegate", eurs |-> {}, users |-> {}, amount |-> amount,
              seq |-> Cardinality(pkts) + 1, state |-> "sent", left |-> 0]}]
    /\ staking' = [staking EXCEPT ![z] = @ + amount]
    /\ UNCHANGED <<records, zone, stWallet, escrow, deposits, rewardsLeft, orphans, host, ghosts>>

UpdateRedemptionRates(z) ==
    /\ ~zone[z].halted
    /\ stWallet[z] + escrow[z] > 0
    /\ zone' = [zone EXCEPT ![z].redemptionRate =
            Quo(NewDecFromInt(deposits[z] + zone[z].stakedBal),
                NewDecFromInt(stWallet[z] + escrow[z]))]
    /\ UNCHANGED <<records, accounts, channel, orphans, host, ghosts>>

BeginBlocker(z) ==
    /\ ~IsRedemptionRateWithinSafetyBounds(z)
    /\ ~zone[z].halted
    /\ zone' = [zone EXCEPT ![z].halted = TRUE]
    /\ UNCHANGED <<records, accounts, channel, orphans, host, ghosts>>

Next ==
    \/ \E lag \in 0..MaxLag : DayEpoch(lag)
    \/ Tick
    \/ \E z \in Zones :
         \/ \E u \in Users, amount \in RedeemAmounts : RedeemStake(z, u, amount)
         \/ \E e \in Eurs, u \in Users : ClaimUndelegatedTokens(e, z, u)
         \/ \E a \in Accounts :
              \/ \E p \in channel[z][a].pkts :
                   \/ \E result \in {"ok", "err"} : ExecuteICA(z, a, p, result)
                   \/ AckICA(z, a, p)
                   \/ TimeoutICA(z, a, p)
              \/ RestoreInterchainAccount(z, a)
              \/ ChanOpenAck(z, a)
         \/ TimeoutOfAnother(z)
         \/ Reinvest(z)
         \/ \E amount \in 1..deposits[z] : DelegateOnHost(z, amount)
         \/ UpdateRedemptionRates(z)
         \/ BeginBlocker(z)
    \/ \E k \in orphans : TimeoutOnClose(k)

Spec == Init /\ [][Next]_vars

(* Fairness: the chain keeps producing day epochs and the host keeps making  *)
(* blocks; relayers deliver what can be delivered, and the host answers it;  *)
(* an operator restores a closed account, and not every day epoch finds the  *)
(* account closed; a message tried again and again succeeds; and what is     *)
(* queued is submitted for delegation.                                       *)
Fairness ==
    /\ WF_vars(Tick)
    /\ \A z \in Zones :
         /\ SF_vars(channel[z]["DELEGATION"].state = "OPEN" /\ DayEpoch(0))
         /\ WF_vars(\E p \in channel[z]["DELEGATION"].pkts, result \in {"ok", "err"} :
                       ExecuteICA(z, "DELEGATION", p, result))
         /\ \A kind \in {"undelegate", "redemption", "delegate"} :
              /\ SF_vars(\E p \in channel[z]["DELEGATION"].pkts :
                            p.kind = kind /\ ExecuteICA(z, "DELEGATION", p, "ok"))
              /\ SF_vars(\E p \in channel[z]["DELEGATION"].pkts :
                            p.kind = kind /\ AckICA(z, "DELEGATION", p))
         /\ WF_vars(/\ channel[z]["DELEGATION"].state = "CLOSED"
                    /\ RestoreInterchainAccount(z, "DELEGATION"))
         /\ WF_vars(ChanOpenAck(z, "DELEGATION"))
         /\ SF_vars(\E amount \in 1..deposits[z] : DelegateOnHost(z, amount))

FairSpec == Spec /\ Fairness

-----------------------------------------------------------------------------
(* Properties *)

\* The type invariant; the packets of a channel are numbered without gaps, a
\* closed channel has none, and no account of either chain is overdrawn.
TypeOK ==
    /\ day \in 0..DayCycle - 1
    /\ current \in Eurs
    /\ zone \in [Zones -> [halted : BOOLEAN, redemptionRate : Nat, stakedBal : Nat]]
    /\ hzu \in [Eurs -> [Zones -> HostZoneUnbonding]]
    /\ urr \in [Eurs -> [Zones -> [Users -> UserRedemptionRecord]]]
    /\ \A f \in {stWallet, escrow, deposits, staking, delegated, hostAcct, redemptionAcct} :
         f \in [Zones -> Nat]
    /\ rewardsLeft \in Nat
    /\ unbonding \in [Zones -> [1..UnbondingPeriod -> Nat]]
    /\ DOMAIN channel = Zones
    /\ \A z \in Zones : DOMAIN channel[z] = Accounts
    /\ \A z \in Zones, a \in Accounts :
         /\ channel[z][a].state \in {"OPEN", "CLOSED", "INIT"}
         /\ \A p \in channel[z][a].pkts : p \in Packet /\ channel[z][a].state = "OPEN"
         /\ {p.seq : p \in channel[z][a].pkts} = 1..Cardinality(channel[z][a].pkts)
    /\ orphans \subseteq Key
    /\ paid \subseteq Key
    /\ lost \in [Zones -> [Kinds -> Nat]]

\* A host zone unbonding owes exactly what its users are still to be paid: no
\* record is cleaned up, or kept, against the claims of its users.
UsersAccounted ==
    \A e \in Eurs, z \in Zones :
        hzu[e][z].native = SumFunction([u \in Users |-> urr[e][z][u].amount])

\* The stTokens in escrow are those of the records that were not undelegated:
\* each is burned exactly once, when its undelegation is acknowledged.
EscrowAccounted ==
    \A z \in Zones :
        escrow[z] = StAmount(hzu, z,
            WithStatus(hzu, z, {"UNBONDING_QUEUE", "UNBONDING_IN_PROGRESS"}))

\* StakedBal differs from the real delegation by the delegations and the
\* undelegations that the host has executed and whose acknowledgement is under
\* way or lost.
StakedBalAccounted ==
    \A z \in Zones :
        zone[z].stakedBal + lost[z]["delegate"] + Executed(z, "DELEGATION", "delegate")
          = delegated[z] + lost[z]["undelegate"] + Executed(z, "DELEGATION", "undelegate")

\* The redemption account holds what the claimable records owe, up to sweeps
\* and claims whose acknowledgement is under way or lost: sweeps neither fall
\* short nor take what is not theirs, and claims are paid from them only.
RedemptionAcctAccounted ==
    \A z \in Zones :
        redemptionAcct[z] + lost[z]["claim"] + Executed(z, "REDEMPTION", "claim")
          = NativeAmount(hzu, z, WithStatus(hzu, z, {"CLAIMABLE"}))
              + lost[z]["redemption"] + Executed(z, "DELEGATION", "redemption")

\* Sweeps and delegations are paid from one account.  It holds the tokens of
\* the deposits that wait there, up to what was delegated without the news
\* (each such deposit is delegated again) and what was swept without it: a
\* sweep takes no tokens of deposits, but in place of unbonded ones that a
\* repeated delegation or an earlier run of the same sweep has taken.
DepositsNotSwept ==
    \A z \in Zones :
        hostAcct[z] + lost[z]["delegate"] + Executed(z, "DELEGATION", "delegate")
          + lost[z]["redemption"] >= deposits[z]

\* The tokens of the delegations under way.
Delegating(z) ==
    LET sent == {p \in channel[z]["DELEGATION"].pkts : p.kind = "delegate"}
    IN  SumFunction([p \in sent |-> p.amount])

\* A packet under way finds the records it is for, in the status that waits
\* for it and with the amount it carries: no redemption joins a batch that was
\* already submitted, no callback fails for want of a record, and on an open
\* channel just those deposits are in progress that have a delegation under way.
PacketsMatchRecords ==
    \A z \in Zones, a \in Accounts :
        /\ \A p \in channel[z][a].pkts : p.kind # "delegate" =>
             LET status == CASE p.kind = "undelegate" -> "UNBONDING_IN_PROGRESS"
                             [] p.kind = "redemption" -> "EXIT_TRANSFER_IN_PROGRESS"
                             [] p.kind = "claim" -> "CLAIMABLE"
             IN  /\ p.eurs \subseteq WithStatus(hzu, z, {status})
                 /\ IF p.kind = "claim"
                    THEN \A k \in Keys(z, p) : UserRecord(k).pending /\ UserRecord(k).amount = p.amount
                    ELSE /\ p.amount = NativeAmount(hzu, z, p.eurs)
                         /\ \A q \in channel[z][a].pkts \ {p} : p.eurs \cap q.eurs = {}
        /\ channel[z]["DELEGATION"].state = "OPEN" => staking[z] = Delegating(z)

\* A redemption is paid at most once, whatever is lost, times out or is tried
\* again: once its claim was executed its record stays pending until the
\* acknowledgement removes it.
PaidAtMostOnce ==
    \A k \in paid :
        /\ UserRecord(k).pending
        /\ k \notin orphans
        /\ \A p \in channel[k.zone]["REDEMPTION"].pkts :
             k \in Keys(k.zone, p) => p.state = "ok"

\* What a user redeems can be claimed in the end, unless the zone is halted or
\* the acknowledgement of a delegation, an undelegation or a sweep was lost.
RedemptionsGetClaimable ==
    \A e \in Eurs, z \in Zones, u \in Users :
        urr[e][z][u].amount > 0
          ~> \/ hzu[e][z].status = "CLAIMABLE"
             \/ zone[z].halted
             \/ \E kind \in Kinds \ {"claim"} : lost[z][kind] > 0

(* What the redemptions promise: RedemptionLifecycle *)

\* The host has executed what was sent for e, and its success can still be
\* acknowledged.
Told(pkts, kind, e) == \E p \in pkts : p.kind = kind /\ p.state = "ok" /\ e \in p.eurs

\* The stage of a batch, from its record, the packets of the delegation channel
\* and the day's record.
StageOf(h, pkts, cur, e, z) ==
    CASE h[e][z].status = "NONE" -> "none"
      [] h[e][z].status = "UNBONDING_QUEUE" -> IF e = cur THEN "collecting" ELSE "queued"
      [] h[e][z].status = "UNBONDING_IN_PROGRESS" ->
           IF Told(pkts, "undelegate", e) THEN "undelegated" ELSE "queued"
      [] h[e][z].status = "EXIT_TRANSFER_QUEUE" -> "unbonding"
      [] h[e][z].status = "EXIT_TRANSFER_IN_PROGRESS" ->
           IF Told(pkts, "redemption", e) THEN "swept" ELSE "unbonding"
      [] h[e][z].status = "CLAIMABLE" -> "claimable"

batches == [e \in Eurs |-> [z \in Zones |->
    StageOf(hzu, channel[z]["DELEGATION"].pkts, current, e, z)]]

\* A redemption has been paid when the host has executed its claim, whether or
\* not stride knows.
RedemptionOf(r, done, e, z, u) ==
    IF r[e][z][u] = NoRedemption THEN [stage |-> "none", amount |-> 0]
    ELSE [stage |-> IF [eur |-> e, zone |-> z, user |-> u] \in done THEN "paid" ELSE "owed",
          amount |-> r[e][z][u].amount]

redemptions == [e \in Eurs |-> [z \in Zones |-> [u \in Users |->
    RedemptionOf(urr, paid, e, z, u)]]]

Lifecycle == INSTANCE RedemptionLifecycle
    WITH Days <- Eurs, batch <- batches, redemption <- redemptions

\* Packets, callbacks, timeouts and restored channels together do nothing but
\* carry each day's batch from stride to the host and back to its users: who
\* redeemed into it and for how much is fixed once it is closed, nothing is
\* swept that was not undelegated, a redemption is paid only from a batch that
\* has arrived and never twice, and no batch is dropped while a user is owed.
ImplementsLifecycle == Lifecycle!Spec
=============================================================================
