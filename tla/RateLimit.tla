----------------------------- MODULE RateLimit -----------------------------
(***************************************************************************)
(* x/ratelimit: the middleware that denies a transfer of tokens over a     *)
(* channel when the net flow of the current window would exceed a quota, a *)
(* share of the denom's supply when the window began.                      *)
(*                                                                         *)
(* The module sits between the transfer application and the IBC channels,  *)
(* so the model also has the tokens the transfer application moves: what   *)
(* is held on stride, what left over each channel, and the packets under   *)
(* way.  A packet that is sent is counted when it is sent; nothing is      *)
(* uncounted when it comes back, because OnAcknowledgementPacket and       *)
(* OnTimeoutPacket only call the application.                              *)
(*                                                                         *)
(* A transfer in a transaction is undone as a whole when SendPacket fails. *)
(* The transfers that stakeibc makes in its epoch hook are not: there the  *)
(* tokens are escrowed or burnt before SendPacket is asked, and stay so.   *)
(***************************************************************************)
EXTENDS Integers

CONSTANTS
    Denoms,
    Channels,
    Origin,      \* Origin[d]: the channel whose counterparty issued d, or stride itself
    Quotas,      \* the quotas proposals ask for
    Amounts,     \* amounts of a packet
    Supply,      \* Supply[d]: supply of a denom at genesis, in the accounts of stride
    Abroad,      \* Abroad[p]: tokens beyond a channel at genesis
    Hours,       \* hour epochs are numbered modulo this
    PacketIds,   \* bound on the packets under way
    MaxFlow,     \* bound on what a window counts
    None         \* no rate limit

ASSUME RateLimitAssumption ==
    /\ Amounts \subseteq Nat \ {0}
    /\ Quotas \subseteq [MaxPercentSend : 0..100, MaxPercentRecv : 0..100, DurationHours : Nat \ {0}]
    /\ \A q \in Quotas : q.MaxPercentSend > 0 \/ q.MaxPercentRecv > 0
    /\ Supply \in [Denoms -> Nat]
    /\ MaxFlow \in Nat
    /\ Abroad \in [Denoms \X Channels -> Nat]
    /\ None \notin [Quota : Quotas, Flow : [Inflow : Nat, Outflow : Nat, ChannelValue : Nat]]

\* Reducing the hour modulo Hours must not change which windows end.
ASSUME HoursAssumption ==
    Hours \in Nat \ {0} /\ \A q \in Quotas : Hours % q.DurationHours = 0

Path == Denoms \X Channels

VARIABLES
    hour,       \* number of the hour epoch
    rateLimit,  \* the store: a quota and a flow for each path, or None
    blacklist,  \* denoms that no transfer may move
    held,       \* tokens of a denom in the accounts of stride
    supply,     \* supply of a denom on stride, escrow accounts included
    abroad,     \* tokens that are beyond a channel
    packets,    \* packets under way to the other chain
    moved,      \* ghost: net outflow of a path since its window began
    undone      \* ghost: outflow counted in the window that never left, or came back

tokens == <<held, supply, abroad, packets>>
ghosts == <<moved, undone>>
vars == <<hour, rateLimit, blacklist, tokens, ghosts>>

Flow == [Inflow : Nat, Outflow : Nat, ChannelValue : Nat]
RateLimits == [Quota : Quotas, Flow : Flow]
Packet == [id : PacketIds, path : Path, amount : Amounts]

TypeOK ==
    /\ hour \in 0..Hours - 1
    /\ rateLimit \in [Path -> RateLimits \cup {None}]
    /\ blacklist \subseteq Denoms
    /\ held \in [Denoms -> Nat]
    /\ supply \in [Denoms -> Nat]
    /\ abroad \in [Path -> Nat]
    /\ packets \subseteq Packet
    /\ moved \in [Path -> Int]
    /\ undone \in [Path -> Nat]

Init ==
    /\ hour = 0
    /\ rateLimit = [p \in Path |-> None]
    /\ blacklist = {}
    /\ held = Supply
    /\ supply = Supply
    /\ abroad = Abroad
    /\ packets = {}
    /\ moved = [p \in Path |-> 0]
    /\ undone = [p \in Path |-> 0]

-----------------------------------------------------------------------------
(* Tokens *)

\* A voucher that returns to where it came from is burnt, anything else is put in
\* escrow, where the supply still counts it.
Burns(p) == Origin[p[1]] = p[2]

GetChannelValue(d) == supply[d]

TakeTokens(p, amount) ==
    /\ held[p[1]] >= amount
    /\ Burns(p) => supply[p[1]] >= amount
    /\ held' = [held EXCEPT ![p[1]] = @ - amount]
    /\ supply' = IF Burns(p) THEN [supply EXCEPT ![p[1]] = @ - amount] ELSE supply

GiveTokens(p, amount) ==
    /\ held' = [held EXCEPT ![p[1]] = @ + amount]
    /\ supply' = IF Burns(p) THEN [supply EXCEPT ![p[1]] = @ + amount] ELSE supply

-----------------------------------------------------------------------------
(* Quotas *)

Percent(direction, quota) ==
    IF direction = "PACKET_RECV" THEN quota.MaxPercentRecv ELSE quota.MaxPercentSend

Threshold(direction, limit) ==
    (limit.Flow.ChannelValue * Percent(direction, limit.Quota)) \div 100

NetInflow(limit) == limit.Flow.Inflow - limit.Flow.Outflow

CheckExceedsQuota(direction, amount, limit) ==
    /\ limit.Flow.ChannelValue # 0
    /\ amount > Threshold(direction, limit)

\* Mutated: the packet alone is measured, not the flow of the window.
AllowsFlow_perPacket(direction, amount, limit) == ~CheckExceedsQuota(direction, amount, limit)

\* Would the quota allow amount more?  The net flow is what counts.
AllowsFlow(direction, amount, limit) ==
    IF direction = "PACKET_RECV"
    THEN ~CheckExceedsQuota(direction, NetInflow(limit) + amount, limit)
    ELSE ~CheckExceedsQuota(direction, amount - NetInflow(limit), limit)

UpdateFlow(direction, amount, limit) ==
    IF direction = "PACKET_RECV"
    THEN [limit EXCEPT !.Flow.Inflow = @ + amount]
    ELSE [limit EXCEPT !.Flow.Outflow = @ + amount]

\* CheckRateLimitAndUpdateFlow: the condition under which it returns no error...
RateLimitAllows(direction, p, amount) ==
    /\ p[1] \notin blacklist
    /\ rateLimit[p] # None => AllowsFlow(direction, amount, rateLimit[p])

\* ... and the store it then leaves behind.
Counted(direction, p, amount) ==
    IF rateLimit[p] = None THEN rateLimit
    ELSE [rateLimit EXCEPT ![p] = UpdateFlow(direction, amount, rateLimit[p])]

-----------------------------------------------------------------------------
(* Transfers *)

\* Bound of the model: a window counts no more than MaxFlow in all.
Countable(p, amount) ==
    /\ rateLimit[p] # None => rateLimit[p].Flow.Inflow + rateLimit[p].Flow.Outflow + amount <= MaxFlow
    /\ undone[p] + amount <= MaxFlow

FreeIds == PacketIds \ {k.id : k \in packets}

SendPacket(p, amount) ==
    /\ RateLimitAllows("PACKET_SEND", p, amount)
    /\ rateLimit' = Counted("PACKET_SEND", p, amount)
    /\ \E i \in FreeIds : packets' = packets \cup {[id |-> i, path |-> p, amount |-> amount]}
    /\ moved' = [moved EXCEPT ![p] = @ + amount]
    /\ undone' = undone

\* MsgTransfer: all or nothing.
Transfer(p, amount) ==
    /\ Countable(p, amount)
    /\ TakeTokens(p, amount)
    /\ SendPacket(p, amount)
    /\ UNCHANGED <<hour, blacklist, abroad>>

\* The transfer of a deposit record in stakeibc's epoch hook sends a zone's tokens
\* home.  What precedes an error of SendPacket remains: the vouchers are burnt, and
\* if it is the channel that refuses the packet, the flow is counted.
HookTransfer(p, amount, channelSends) ==
    /\ Burns(p)
    /\ FreeIds # {}
    /\ Countable(p, amount)
    /\ TakeTokens(p, amount)
    /\ \/ channelSends /\ SendPacket(p, amount)
       \/ /\ RateLimitAllows("PACKET_SEND", p, amount) /\ ~channelSends
          /\ rateLimit' = Counted("PACKET_SEND", p, amount)
          /\ undone' = [undone EXCEPT ![p] = @ + amount]
          /\ UNCHANGED <<packets, moved>>
       \/ /\ ~RateLimitAllows("PACKET_SEND", p, amount)
          /\ UNCHANGED <<rateLimit, packets, ghosts>>
    /\ UNCHANGED <<hour, blacklist, abroad>>

\* The other chain takes the packet.
Deliver(k) ==
    /\ packets' = packets \ {k}
    /\ abroad' = [abroad EXCEPT ![k.path] = @ + k.amount]
    /\ UNCHANGED <<hour, rateLimit, blacklist, held, supply, ghosts>>

\* OnAcknowledgementPacket with an error, or OnTimeoutPacket: the application
\* gives the tokens back, the middleware does nothing.
Refund(k) ==
    /\ undone[k.path] + k.amount <= MaxFlow
    /\ packets' = packets \ {k}
    /\ GiveTokens(k.path, k.amount)
    /\ moved' = [moved EXCEPT ![k.path] = @ - k.amount]
    /\ undone' = [undone EXCEPT ![k.path] = @ + k.amount]
    /\ UNCHANGED <<hour, rateLimit, blacklist, abroad>>

\* A packet that is denied, or that the application refuses, changes nothing here:
\* IBC drops the writes of a receive that ends in an error acknowledgement.
OnRecvPacket(p, amount) ==
    /\ abroad[p] >= amount
    /\ Countable(p, amount)
    /\ RateLimitAllows("PACKET_RECV", p, amount)
    /\ rateLimit' = Counted("PACKET_RECV", p, amount)
    /\ abroad' = [abroad EXCEPT ![p] = @ - amount]
    /\ GiveTokens(p, amount)
    /\ moved' = [moved EXCEPT ![p] = @ - amount]
    /\ UNCHANGED <<hour, blacklist, packets, undone>>

-----------------------------------------------------------------------------
(* Windows *)

NewFlow(d) == [Inflow |-> 0, Outflow |-> 0, ChannelValue |-> GetChannelValue(d)]

\* The ghosts of the paths whose window begins.
BeginWindows(ps) ==
    /\ moved' = [p \in Path |-> IF p \in ps THEN 0 ELSE moved[p]]
    /\ undone' = [p \in Path |-> IF p \in ps THEN 0 ELSE undone[p]]

\* Mutated: a new window renews the value and keeps the flow.
ResetRateLimit_keepsFlow(ps) ==
    /\ rateLimit' = [p \in Path |-> IF p \in ps
                        THEN [rateLimit[p] EXCEPT !.Flow.ChannelValue = GetChannelValue(p[1])]
                        ELSE rateLimit[p]]
    /\ BeginWindows(ps)

ResetRateLimit(ps) ==
    /\ rateLimit' = [p \in Path |-> IF p \in ps THEN [rateLimit[p] EXCEPT !.Flow = NewFlow(p[1])]
                                    ELSE rateLimit[p]]
    /\ BeginWindows(ps)

BeforeEpochStart ==
    /\ hour' = (hour + 1) % Hours
    /\ ResetRateLimit({p \in Path : /\ rateLimit[p] # None
                                    /\ hour' % rateLimit[p].Quota.DurationHours = 0})
    /\ UNCHANGED <<blacklist, tokens>>

SetRateLimit(p, quota) ==
    /\ rateLimit' = [rateLimit EXCEPT ![p] = [Quota |-> quota, Flow |-> NewFlow(p[1])]]
    /\ BeginWindows({p})
    /\ UNCHANGED <<hour, blacklist, tokens>>

AddRateLimit(p, quota) ==
    /\ GetChannelValue(p[1]) # 0
    /\ rateLimit[p] = None
    /\ SetRateLimit(p, quota)

UpdateRateLimit(p, quota) ==
    /\ rateLimit[p] # None
    /\ SetRateLimit(p, quota)

RemoveRateLimit(p) ==
    /\ rateLimit[p] # None
    /\ rateLimit' = [rateLimit EXCEPT ![p] = None]
    /\ UNCHANGED <<hour, blacklist, tokens, ghosts>>

ResetRateLimitProposal(p) ==
    /\ rateLimit[p] # None
    /\ ResetRateLimit({p})
    /\ UNCHANGED <<hour, blacklist, tokens>>

\* stakeibc halts a zone whose redemption rate is out of bounds and blocks its
\* stToken; nothing ever unblocks it.
AddDenomToBlacklist(d) ==
    /\ Origin[d] \notin Channels
    /\ blacklist' = blacklist \cup {d}
    /\ UNCHANGED <<hour, rateLimit, tokens, ghosts>>

-----------------------------------------------------------------------------

Next ==
    \/ BeforeEpochStart
    \/ \E d \in Denoms : AddDenomToBlacklist(d)
    \/ \E k \in packets : Deliver(k) \/ Refund(k)
    \/ \E p \in Path :
         \/ \E amount \in Amounts :
              \/ Transfer(p, amount)
              \/ \E channelSends \in BOOLEAN : HookTransfer(p, amount, channelSends)
              \/ OnRecvPacket(p, amount)
         \/ \E quota \in Quotas : AddRateLimit(p, quota) \/ UpdateRateLimit(p, quota)
         \/ RemoveRateLimit(p)
         \/ ResetRateLimitProposal(p)

Spec == Init /\ [][Next]_vars

-----------------------------------------------------------------------------
(* Properties *)

\* The promise of the middleware, over the tokens that really moved: since the window
\* began no more than the send quota left a limited path, net of what came back, and
\* no more than the receive quota came in, except for refunds of sends that the flow
\* still counts.  A channel value of zero (a window that began while every voucher was
\* away) lifts the limit.  CheckRateLimitAndUpdateFlow with OnTimeoutPacket.
NetFlowWithinQuota ==
    \A p \in Path : rateLimit[p] # None /\ rateLimit[p].Flow.ChannelValue # 0 =>
        /\ moved[p] <= Threshold("PACKET_SEND", rateLimit[p])
        /\ -moved[p] <= Threshold("PACKET_RECV", rateLimit[p]) + undone[p]

\* The stored flow is the exact account of the window, whatever sends failed or came
\* back, and on whichever side of a reset: what is refunded of an earlier window is
\* not in the flow, but is no outflow of this window either.
FlowMatchesTransfers ==
    \A p \in Path : rateLimit[p] # None => NetInflow(rateLimit[p]) = -(moved[p] + undone[p])
=============================================================================
