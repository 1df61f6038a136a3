-------------------------- MODULE RateLimitProofs --------------------------
(***************************************************************************)
(* The promise of the rate limit, for any denoms, channels, quotas and     *)
(* amounts.  NetFlowWithinQuota is about the tokens that moved, while the  *)
(* middleware only checks the flow it has counted; it is inductive only    *)
(* together with FlowMatchesTransfers, which ties the two, and with the    *)
(* bound on the counted flow, which a check keeps on its own side only     *)
(* because counting on the other side moves the net flow away from it.     *)
(***************************************************************************)
EXTENDS RateLimit, TLAPS

\* The counted flow of one window is within the quota on both sides.
WithinQuota(limit) ==
    limit.Flow.ChannelValue # 0 =>
        /\ NetInflow(limit) <= Threshold("PACKET_RECV", limit)
        /\ -NetInflow(limit) <= Threshold("PACKET_SEND", limit)

FlowWithinQuota == \A p \in Path : rateLimit[p] # None => WithinQuota(rateLimit[p])

IndInv == TypeOK /\ FlowMatchesTransfers /\ FlowWithinQuota

Directions == {"PACKET_SEND", "PACKET_RECV"}
Signed(direction, amount) == IF direction = "PACKET_RECV" THEN amount ELSE -amount

-----------------------------------------------------------------------------
(* Limits *)

LEMMA AmountsPositive == \A amount \in Amounts : amount \in Nat /\ amount > 0
    BY RateLimitAssumption

LEMMA NoneIsNoLimit == None \notin RateLimits
    BY RateLimitAssumption DEF RateLimits, Flow

LEMMA NetInflowType == \A limit \in RateLimits : NetInflow(limit) \in Int
    BY DEF NetInflow, RateLimits, Flow

LEMMA ThresholdType ==
    ASSUME NEW limit \in RateLimits, NEW direction
    PROVE  Threshold(direction, limit) \in Nat
<1> DEFINE value == limit.Flow.ChannelValue
           percent == Percent(direction, limit.Quota)
<1>1. value \in Nat
    BY DEF RateLimits, Flow
<1>2. percent \in Nat
    <2>1. limit.Quota \in [MaxPercentSend : 0..100, MaxPercentRecv : 0..100,
                           DurationHours : Nat \ {0}]
        BY RateLimitAssumption DEF RateLimits
    <2>2. limit.Quota.MaxPercentSend \in Nat /\ limit.Quota.MaxPercentRecv \in Nat
        BY <2>1
    <2>3. QED
        BY <2>2 DEF Percent
<1> HIDE DEF value, percent
<1>3. value * percent \in Nat
    BY <1>1, <1>2
<1>4. (value * percent) \div 100 \in Nat
    BY <1>3
<1>5. QED
    BY <1>4 DEF Threshold, value, percent

\* UpdateFlow changes the net flow by the amount and leaves the quota alone.
LEMMA UpdateFlowLimit ==
    ASSUME NEW limit \in RateLimits, NEW direction \in Directions, NEW amount \in Nat
    PROVE  LET new == UpdateFlow(direction, amount, limit) IN
           /\ new \in RateLimits
           /\ NetInflow(new) = NetInflow(limit) + Signed(direction, amount)
           /\ new.Flow.ChannelValue = limit.Flow.ChannelValue
           /\ new.Quota = limit.Quota
    BY DEF UpdateFlow, RateLimits, Flow, NetInflow, Signed, Directions

\* What the quota allows keeps the flow within it, on the other side too.
LEMMA AllowedStaysWithin ==
    ASSUME NEW limit \in RateLimits, NEW direction \in Directions, NEW amount \in Nat,
           WithinQuota(limit), AllowsFlow(direction, amount, limit)
    PROVE  WithinQuota(UpdateFlow(direction, amount, limit))
<1> DEFINE new == UpdateFlow(direction, amount, limit)
<1>1. /\ new \in RateLimits
      /\ NetInflow(new) = NetInflow(limit) + Signed(direction, amount)
      /\ new.Flow.ChannelValue = limit.Flow.ChannelValue
      /\ new.Quota = limit.Quota
    BY UpdateFlowLimit
<1> DEFINE recv == Threshold("PACKET_RECV", limit)
           send == Threshold("PACKET_SEND", limit)
           net == NetInflow(limit)
           value == limit.Flow.ChannelValue
<1>2. Threshold("PACKET_RECV", new) = recv /\ Threshold("PACKET_SEND", new) = send
    BY <1>1 DEF Threshold
<1>3. net \in Int /\ recv \in Nat /\ send \in Nat
    BY NetInflowType, ThresholdType
<1>4. value # 0 => net <= recv /\ -net <= send
    BY DEF WithinQuota
<1>5. value # 0 => net + Signed(direction, amount) <= recv
                   /\ -(net + Signed(direction, amount)) <= send
    <2>1. CASE direction = "PACKET_RECV"
        <3>1. value # 0 => ~(net + amount > recv)
            BY <2>1 DEF AllowsFlow, CheckExceedsQuota
        <3>2. Signed(direction, amount) = amount
            BY <2>1 DEF Signed
        <3> HIDE DEF net, recv, send, value
        <3>3. QED
            BY <1>3, <1>4, <3>1, <3>2
    <2>2. CASE direction = "PACKET_SEND"
        <3>1. value # 0 => ~(amount - net > send)
            BY <2>2 DEF AllowsFlow, CheckExceedsQuota
        <3>2. Signed(direction, amount) = -amount
            BY <2>2 DEF Signed
        <3> HIDE DEF net, recv, send, value
        <3>3. QED
            BY <1>3, <1>4, <3>1, <3>2
    <2>3. QED
        BY <2>1, <2>2 DEF Directions
<1> HIDE DEF new
<1>6. WithinQuota(new)
    BY <1>1, <1>2, <1>5 DEF WithinQuota
<1>7. QED
    BY <1>6 DEF new

LEMMA NewFlowLimit ==
    ASSUME TypeOK, NEW p \in Path, NEW quota \in Quotas
    PROVE  LET new == [Quota |-> quota, Flow |-> NewFlow(p[1])] IN
           /\ new \in RateLimits
           /\ NetInflow(new) = 0
           /\ WithinQuota(new)
<1> DEFINE new == [Quota |-> quota, Flow |-> NewFlow(p[1])]
<1>1. new \in RateLimits /\ NetInflow(new) = 0
    BY DEF TypeOK, RateLimits, Flow, NewFlow, GetChannelValue, NetInflow, Path
<1>2. \A dir : Threshold(dir, new) \in Nat
    BY <1>1, ThresholdType
<1> HIDE DEF new
<1>3. WithinQuota(new)
    BY <1>1, <1>2 DEF WithinQuota
<1>4. QED
    BY <1>1, <1>3 DEF new

-----------------------------------------------------------------------------
(* Steps *)

\* The store after CheckRateLimitAndUpdateFlow has let an amount pass.
LEMMA CountedStore ==
    ASSUME IndInv, NEW p \in Path, NEW direction \in Directions, NEW amount \in Amounts,
           RateLimitAllows(direction, p, amount),
           rateLimit' = Counted(direction, p, amount)
    PROVE  /\ rateLimit' \in [Path -> RateLimits \cup {None}]
           /\ FlowWithinQuota'
           /\ \A q \in Path \ {p} : rateLimit'[q] = rateLimit[q]
           /\ rateLimit'[p] # None =>
                /\ rateLimit[p] # None
                /\ NetInflow(rateLimit'[p]) = NetInflow(rateLimit[p]) + Signed(direction, amount)
<1>1. amount \in Nat
    BY AmountsPositive
<1>2. rateLimit \in [Path -> RateLimits \cup {None}]
    BY DEF IndInv, TypeOK
<1>3. CASE rateLimit[p] = None
    <2>1. rateLimit' = rateLimit
        BY <1>3 DEF Counted
    <2>2. QED
        BY <1>2, <1>3, <2>1 DEF IndInv, FlowWithinQuota
<1>4. CASE rateLimit[p] # None
    <2> DEFINE new == UpdateFlow(direction, amount, rateLimit[p])
    <2>1. rateLimit' = [rateLimit EXCEPT ![p] = new]
        BY <1>4 DEF Counted
    <2>2. rateLimit[p] \in RateLimits /\ WithinQuota(rateLimit[p])
        BY <1>2, <1>4 DEF IndInv, FlowWithinQuota
    <2>3. AllowsFlow(direction, amount, rateLimit[p])
        BY <1>4 DEF RateLimitAllows
    <2>4. /\ new \in RateLimits
          /\ NetInflow(new) = NetInflow(rateLimit[p]) + Signed(direction, amount)
        BY <1>1, <2>2, UpdateFlowLimit
    <2>5. WithinQuota(new)
        BY <1>1, <2>2, <2>3, AllowedStaysWithin
    <2> HIDE DEF new
    <2>6. rateLimit'[p] = new /\ \A q \in Path \ {p} : rateLimit'[q] = rateLimit[q]
        BY <1>2, <2>1
    <2>7. \A q \in Path : rateLimit'[q] # None => WithinQuota(rateLimit'[q])
        BY <2>5, <2>6 DEF IndInv, FlowWithinQuota
    <2>8. QED
        BY <1>2, <1>4, <2>1, <2>4, <2>6, <2>7 DEF FlowWithinQuota
<1>5. QED
    BY <1>3, <1>4

\* A packet that is sent.
LEMMA SendPacketStep ==
    ASSUME IndInv, NEW p \in Path, NEW amount \in Amounts, SendPacket(p, amount)
    PROVE  /\ rateLimit' \in [Path -> RateLimits \cup {None}]
           /\ packets' \subseteq Packet
           /\ moved' \in [Path -> Int] /\ undone' \in [Path -> Nat]
           /\ FlowWithinQuota' /\ FlowMatchesTransfers'
<1>1. amount \in Nat
    BY AmountsPositive
<1>2. /\ RateLimitAllows("PACKET_SEND", p, amount)
      /\ rateLimit' = Counted("PACKET_SEND", p, amount)
      /\ moved' = [moved EXCEPT ![p] = @ + amount]
      /\ undone' = undone
    BY DEF SendPacket
<1>3. PICK i \in FreeIds : packets' = packets \cup {[id |-> i, path |-> p, amount |-> amount]}
    BY DEF SendPacket
<1>4. packets' \subseteq Packet
    BY <1>3 DEF FreeIds, Packet, IndInv, TypeOK
<1>5. /\ rateLimit' \in [Path -> RateLimits \cup {None}]
      /\ FlowWithinQuota'
      /\ \A q \in Path \ {p} : rateLimit'[q] = rateLimit[q]
      /\ rateLimit'[p] # None =>
           /\ rateLimit[p] # None
           /\ NetInflow(rateLimit'[p]) = NetInflow(rateLimit[p]) + Signed("PACKET_SEND", amount)
    BY <1>2, CountedStore DEF Directions
<1>6. /\ moved' \in [Path -> Int] /\ undone' \in [Path -> Nat]
      /\ moved[p] \in Int /\ undone[p] \in Nat
      /\ moved'[p] = moved[p] + amount
      /\ \A q \in Path \ {p} : moved'[q] = moved[q]
    BY <1>1, <1>2 DEF IndInv, TypeOK
<1>7. FlowMatchesTransfers'
    <2> SUFFICES ASSUME NEW q \in Path, rateLimit'[q] # None
                 PROVE  NetInflow(rateLimit'[q]) = -(moved'[q] + undone'[q])
        BY DEF FlowMatchesTransfers
    <2>1. CASE q # p
        BY <1>2, <1>5, <1>6, <2>1 DEF IndInv, FlowMatchesTransfers
    <2>2. CASE q = p
        <3>1. NetInflow(rateLimit[p]) = -(moved[p] + undone[p])
            BY <1>5, <2>2 DEF IndInv, FlowMatchesTransfers
        <3>2. NetInflow(rateLimit'[p]) = NetInflow(rateLimit[p]) - amount
            BY <1>1, <1>5, <1>6, <2>2, <3>1 DEF Signed
        <3>3. QED
            BY <1>1, <1>2, <1>6, <2>2, <3>1, <3>2
    <2>3. QED
        BY <2>1, <2>2
<1>8. QED
    BY <1>4, <1>5, <1>6, <1>7

LEMMA TokensType ==
    ASSUME TypeOK, NEW p \in Path, NEW amount \in Nat,
           TakeTokens(p, amount) \/ GiveTokens(p, amount)
    PROVE  held' \in [Denoms -> Nat] /\ supply' \in [Denoms -> Nat]
<1>1. p[1] \in Denoms /\ held \in [Denoms -> Nat] /\ supply \in [Denoms -> Nat]
    BY DEF TypeOK, Path
<1>2. CASE TakeTokens(p, amount)
    BY <1>1, <1>2 DEF TakeTokens
<1>3. CASE GiveTokens(p, amount)
    BY <1>1, <1>3 DEF GiveTokens
<1>4. QED
    BY <1>2, <1>3

LEMMA TransferStep ==
    ASSUME IndInv, NEW p \in Path, NEW amount \in Amounts, Transfer(p, amount)
    PROVE  IndInv'
<1>1. TakeTokens(p, amount) /\ SendPacket(p, amount) /\ UNCHANGED <<hour, blacklist, abroad>>
    BY DEF Transfer
<1>2. held' \in [Denoms -> Nat] /\ supply' \in [Denoms -> Nat]
    BY <1>1, AmountsPositive, TokensType DEF IndInv
<1>3. QED
    BY <1>1, <1>2, SendPacketStep DEF IndInv, TypeOK

\* The flow may be counted for a packet that is then not sent: it is undone.
LEMMA HookTransferStep ==
    ASSUME IndInv, NEW p \in Path, NEW amount \in Amounts, NEW channelSends \in BOOLEAN,
           HookTransfer(p, amount, channelSends)
    PROVE  IndInv'
<1>1. TakeTokens(p, amount) /\ UNCHANGED <<hour, blacklist, abroad>>
    BY DEF HookTransfer
<1>2. held' \in [Denoms -> Nat] /\ supply' \in [Denoms -> Nat]
    BY <1>1, AmountsPositive, TokensType DEF IndInv
<1>3. CASE SendPacket(p, amount)
    BY <1>1, <1>2, <1>3, SendPacketStep DEF IndInv, TypeOK
<1>4. CASE /\ RateLimitAllows("PACKET_SEND", p, amount)
           /\ rateLimit' = Counted("PACKET_SEND", p, amount)
           /\ undone' = [undone EXCEPT ![p] = @ + amount]
           /\ UNCHANGED <<packets, moved>>
    <2>1. /\ rateLimit' \in [Path -> RateLimits \cup {None}]
          /\ FlowWithinQuota'
          /\ \A q \in Path \ {p} : rateLimit'[q] = rateLimit[q]
          /\ rateLimit'[p] # None =>
               /\ rateLimit[p] # None
               /\ NetInflow(rateLimit'[p])
                    = NetInflow(rateLimit[p]) + Signed("PACKET_SEND", amount)
        BY <1>4, CountedStore DEF Directions
    <2>2. /\ amount \in Nat /\ moved[p] \in Int /\ undone[p] \in Nat
          /\ undone' \in [Path -> Nat]
          /\ undone'[p] = undone[p] + amount
          /\ \A q \in Path \ {p} : undone'[q] = undone[q]
        BY <1>4, AmountsPositive DEF IndInv, TypeOK
    <2>3. FlowMatchesTransfers'
        <3> SUFFICES ASSUME NEW q \in Path, rateLimit'[q] # None
                     PROVE  NetInflow(rateLimit'[q]) = -(moved'[q] + undone'[q])
            BY DEF FlowMatchesTransfers
        <3>1. CASE q # p
            BY <1>4, <2>1, <2>2, <3>1 DEF IndInv, FlowMatchesTransfers
        <3>2. CASE q = p
            <4>1. NetInflow(rateLimit[p]) = -(moved[p] + undone[p])
                BY <2>1, <3>2 DEF IndInv, FlowMatchesTransfers
            <4>2. NetInflow(rateLimit'[p]) = NetInflow(rateLimit[p]) - amount
                BY <2>1, <2>2, <3>2, <4>1 DEF Signed
            <4>3. QED
                BY <1>4, <2>2, <3>2, <4>1, <4>2
        <3>3. QED
            BY <3>1, <3>2
    <2>4. QED
        BY <1>1, <1>2, <1>4, <2>1, <2>2, <2>3 DEF IndInv, TypeOK
<1>5. CASE UNCHANGED <<rateLimit, packets, ghosts>>
    BY <1>1, <1>2, <1>5
       DEF IndInv, TypeOK, FlowMatchesTransfers, FlowWithinQuota, ghosts
<1>6. QED
    BY <1>3, <1>4, <1>5 DEF HookTransfer

LEMMA DeliverStep ==
    ASSUME IndInv, NEW k \in packets, Deliver(k)
    PROVE  IndInv'
<1>1. /\ packets' = packets \ {k}
      /\ abroad' = [abroad EXCEPT ![k.path] = @ + k.amount]
      /\ UNCHANGED <<hour, rateLimit, blacklist, held, supply, moved, undone>>
    BY DEF Deliver, ghosts
<1>2. k.path \in Path /\ k.amount \in Nat
    BY AmountsPositive DEF IndInv, TypeOK, Packet
<1>3. QED
    BY <1>1, <1>2 DEF IndInv, TypeOK, FlowMatchesTransfers, FlowWithinQuota

\* A refund gives back what the flow keeps: moved and undone change together.
LEMMA RefundStep ==
    ASSUME IndInv, NEW k \in packets, Refund(k)
    PROVE  IndInv'
<1>1. /\ packets' = packets \ {k}
      /\ GiveTokens(k.path, k.amount)
      /\ moved' = [moved EXCEPT ![k.path] = @ - k.amount]
      /\ undone' = [undone EXCEPT ![k.path] = @ + k.amount]
      /\ UNCHANGED <<hour, rateLimit, blacklist, abroad>>
    BY DEF Refund
<1>2. k.path \in Path /\ k.amount \in Nat
    BY AmountsPositive DEF IndInv, TypeOK, Packet
<1>3. held' \in [Denoms -> Nat] /\ supply' \in [Denoms -> Nat]
    BY <1>1, <1>2, TokensType DEF IndInv
<1>4. /\ moved' \in [Path -> Int] /\ undone' \in [Path -> Nat]
      /\ \A q \in Path : moved'[q] + undone'[q] = moved[q] + undone[q]
    BY <1>1, <1>2 DEF IndInv, TypeOK
<1>5. TypeOK'
    BY <1>1, <1>3, <1>4 DEF IndInv, TypeOK
<1>6. QED
    BY <1>1, <1>4, <1>5 DEF IndInv, FlowMatchesTransfers, FlowWithinQuota

LEMMA OnRecvPacketStep ==
    ASSUME IndInv, NEW p \in Path, NEW amount \in Amounts, OnRecvPacket(p, amount)
    PROVE  IndInv'
<1>1. /\ abroad[p] >= amount
      /\ RateLimitAllows("PACKET_RECV", p, amount)
      /\ rateLimit' = Counted("PACKET_RECV", p, amount)
      /\ abroad' = [abroad EXCEPT ![p] = @ - amount]
      /\ GiveTokens(p, amount)
      /\ moved' = [moved EXCEPT ![p] = @ - amount]
      /\ UNCHANGED <<hour, blacklist, packets, undone>>
    BY DEF OnRecvPacket
<1>2. held' \in [Denoms -> Nat] /\ supply' \in [Denoms -> Nat]
    BY <1>1, AmountsPositive, TokensType DEF IndInv
<1>3. /\ rateLimit' \in [Path -> RateLimits \cup {None}]
      /\ FlowWithinQuota'
      /\ \A q \in Path \ {p} : rateLimit'[q] = rateLimit[q]
      /\ rateLimit'[p] # None =>
           /\ rateLimit[p] # None
           /\ NetInflow(rateLimit'[p]) = NetInflow(rateLimit[p]) + Signed("PACKET_RECV", amount)
    BY <1>1, CountedStore DEF Directions
<1>4. /\ amount \in Nat /\ moved[p] \in Int /\ undone[p] \in Nat
      /\ moved' \in [Path -> Int]
      /\ moved'[p] = moved[p] - amount
      /\ \A q \in Path \ {p} : moved'[q] = moved[q]
      /\ abroad' \in [Path -> Nat]
    BY <1>1, AmountsPositive DEF IndInv, TypeOK
<1>5. FlowMatchesTransfers'
    <2> SUFFICES ASSUME NEW q \in Path, rateLimit'[q] # None
                 PROVE  NetInflow(rateLimit'[q]) = -(moved'[q] + undone'[q])
        BY DEF FlowMatchesTransfers
    <2>1. CASE q # p
        BY <1>1, <1>3, <1>4, <2>1 DEF IndInv, FlowMatchesTransfers
    <2>2. CASE q = p
        <3>1. NetInflow(rateLimit[p]) = -(moved[p] + undone[p])
            BY <1>3, <2>2 DEF IndInv, FlowMatchesTransfers
        <3>2. NetInflow(rateLimit'[p]) = NetInflow(rateLimit[p]) + amount
            BY <1>3, <2>2 DEF Signed
        <3>3. QED
            BY <1>1, <1>4, <2>2, <3>1, <3>2
    <2>3. QED
        BY <2>1, <2>2
<1>6. QED
    BY <1>1, <1>2, <1>3, <1>4, <1>5 DEF IndInv, TypeOK

-----------------------------------------------------------------------------
(* Windows *)

\* A window begins with nothing counted and nothing moved.
LEMMA ResetStep ==
    ASSUME IndInv, NEW ps \in SUBSET Path, \A p \in ps : rateLimit[p] # None,
           ResetRateLimit(ps), UNCHANGED <<blacklist, tokens>>, hour' \in 0..Hours - 1
    PROVE  IndInv'
<1> DEFINE new(p) == [rateLimit[p] EXCEPT !.Flow = NewFlow(p[1])]
<1>1. /\ rateLimit' = [p \in Path |-> IF p \in ps THEN new(p) ELSE rateLimit[p]]
      /\ moved' = [p \in Path |-> IF p \in ps THEN 0 ELSE moved[p]]
      /\ undone' = [p \in Path |-> IF p \in ps THEN 0 ELSE undone[p]]
    BY DEF ResetRateLimit, BeginWindows
<1>2. ASSUME NEW p \in ps
      PROVE  new(p) \in RateLimits /\ NetInflow(new(p)) = 0 /\ WithinQuota(new(p))
    <2>1. rateLimit[p] \in RateLimits
        BY DEF IndInv, TypeOK
    <2>2. new(p) = [Quota |-> rateLimit[p].Quota, Flow |-> NewFlow(p[1])]
          /\ rateLimit[p].Quota \in Quotas
        BY <2>1 DEF RateLimits
    <2> HIDE DEF new
    <2>3. QED
        BY <2>2, NewFlowLimit DEF IndInv
<1> HIDE DEF new
<1>3. TypeOK'
    BY <1>1, <1>2 DEF IndInv, TypeOK, tokens
<1>4. FlowMatchesTransfers'
    BY <1>1, <1>2 DEF IndInv, FlowMatchesTransfers
<1>5. FlowWithinQuota'
    BY <1>1, <1>2 DEF IndInv, FlowWithinQuota
<1>6. QED
    BY <1>3, <1>4, <1>5 DEF IndInv

LEMMA BeforeEpochStartStep ==
    ASSUME IndInv, BeforeEpochStart
    PROVE  IndInv'
<1> DEFINE ps == {p \in Path : /\ rateLimit[p] # None
                              /\ hour' % rateLimit[p].Quota.DurationHours = 0}
<1>1. /\ hour' = (hour + 1) % Hours
      /\ ResetRateLimit(ps)
      /\ UNCHANGED <<blacklist, tokens>>
    BY DEF BeforeEpochStart
<1>2. hour' \in 0..Hours - 1
    BY <1>1, HoursAssumption DEF IndInv, TypeOK
<1>3. ps \in SUBSET Path /\ \A p \in ps : rateLimit[p] # None
    OBVIOUS
<1> HIDE DEF ps
<1>4. QED
    BY <1>1, <1>2, <1>3, ResetStep

LEMMA SetRateLimitStep ==
    ASSUME IndInv, NEW p \in Path, NEW quota \in Quotas, SetRateLimit(p, quota)
    PROVE  IndInv'
<1> DEFINE new == [Quota |-> quota, Flow |-> NewFlow(p[1])]
<1>1. /\ rateLimit' = [rateLimit EXCEPT ![p] = new]
      /\ moved' = [q \in Path |-> IF q \in {p} THEN 0 ELSE moved[q]]
      /\ undone' = [q \in Path |-> IF q \in {p} THEN 0 ELSE undone[q]]
      /\ UNCHANGED <<hour, blacklist, tokens>>
    BY DEF SetRateLimit, BeginWindows
<1>2. new \in RateLimits /\ NetInflow(new) = 0 /\ WithinQuota(new)
    BY NewFlowLimit DEF IndInv
<1> HIDE DEF new
<1>3. /\ rateLimit'[p] = new /\ moved'[p] = 0 /\ undone'[p] = 0
      /\ \A q \in Path \ {p} : /\ rateLimit'[q] = rateLimit[q]
                               /\ moved'[q] = moved[q] /\ undone'[q] = undone[q]
    BY <1>1 DEF IndInv, TypeOK
<1>4. TypeOK'
    BY <1>1, <1>2 DEF IndInv, TypeOK, tokens
<1>5. FlowMatchesTransfers'
    BY <1>2, <1>3 DEF IndInv, FlowMatchesTransfers
<1>6. FlowWithinQuota'
    BY <1>2, <1>3 DEF IndInv, FlowWithinQuota
<1>7. QED
    BY <1>4, <1>5, <1>6 DEF IndInv

LEMMA RemoveRateLimitStep ==
    ASSUME IndInv, NEW p \in Path, RemoveRateLimit(p)
    PROVE  IndInv'
    BY DEF RemoveRateLimit, IndInv, TypeOK, FlowMatchesTransfers, FlowWithinQuota,
           tokens, ghosts

-----------------------------------------------------------------------------
(* The theorems *)

LEMMA InitIndInv == Init => IndInv
    BY RateLimitAssumption, HoursAssumption
       DEF Init, IndInv, TypeOK, FlowMatchesTransfers, FlowWithinQuota, Path

LEMMA NextIndInv == IndInv /\ [Next]_vars => IndInv'
<1> SUFFICES ASSUME IndInv, [Next]_vars PROVE IndInv'
    OBVIOUS
<1>1. CASE BeforeEpochStart
    BY <1>1, BeforeEpochStartStep
<1>2. ASSUME NEW d \in Denoms, AddDenomToBlacklist(d) PROVE IndInv'
    BY <1>2 DEF AddDenomToBlacklist, IndInv, TypeOK, FlowMatchesTransfers, FlowWithinQuota,
                tokens, ghosts
<1>3. ASSUME NEW k \in packets, Deliver(k) \/ Refund(k) PROVE IndInv'
    BY <1>3, DeliverStep, RefundStep
<1>4. ASSUME NEW p \in Path, NEW amount \in Amounts,
             Transfer(p, amount) \/ OnRecvPacket(p, amount)
      PROVE  IndInv'
    BY <1>4, TransferStep, OnRecvPacketStep
<1>5. ASSUME NEW p \in Path, NEW amount \in Amounts, NEW channelSends \in BOOLEAN,
             HookTransfer(p, amount, channelSends)
      PROVE  IndInv'
    BY <1>5, HookTransferStep
<1>6. ASSUME NEW p \in Path, NEW quota \in Quotas,
             AddRateLimit(p, quota) \/ UpdateRateLimit(p, quota)
      PROVE  IndInv'
    BY <1>6, SetRateLimitStep DEF AddRateLimit, UpdateRateLimit
<1>7. ASSUME NEW p \in Path, RemoveRateLimit(p) PROVE IndInv'
    BY <1>7, RemoveRateLimitStep
<1>8. ASSUME NEW p \in Path, ResetRateLimitProposal(p) PROVE IndInv'
    <2>1. /\ rateLimit[p] # None /\ ResetRateLimit({p})
          /\ UNCHANGED <<hour, blacklist, tokens>>
        BY <1>8 DEF ResetRateLimitProposal
    <2>2. hour' \in 0..Hours - 1
        BY <2>1 DEF IndInv, TypeOK
    <2>3. QED
        BY <2>1, <2>2, ResetStep
<1>9. CASE UNCHANGED vars
    BY <1>9 DEF vars, IndInv, TypeOK, FlowMatchesTransfers, FlowWithinQuota, tokens, ghosts
<1>10. QED
    BY <1>1, <1>2, <1>3, <1>4, <1>5, <1>6, <1>7, <1>8, <1>9 DEF Next

LEMMA IndInvHolds == Spec => []IndInv
    BY InitIndInv, NextIndInv, PTL DEF Spec

\* The store and the tokens keep their types: no flow, value or balance of the
\* rate limits becomes negative.
THEOREM RateLimitTypeCorrect == Spec => []TypeOK
<1>1. IndInv => TypeOK
    BY DEF IndInv
<1>2. QED
    BY <1>1, IndInvHolds, PTL

\* The flow CheckRateLimitAndUpdateFlow has counted is what moved and what was
\* undone since the window began, for any resets, refunds and failed sends.
THEOREM FlowMatchesTransfersHolds == Spec => []FlowMatchesTransfers
<1>1. IndInv => FlowMatchesTransfers
    BY DEF IndInv
<1>2. QED
    BY <1>1, IndInvHolds, PTL

\* No window lets more out of stride, or in, than its quota, over what really
\* moved and not over what was counted.
THEOREM NetFlowWithinQuotaHolds == Spec => []NetFlowWithinQuota
<1>1. IndInv => NetFlowWithinQuota
    <2> SUFFICES ASSUME IndInv, NEW p \in Path,
                        rateLimit[p] # None /\ rateLimit[p].Flow.ChannelValue # 0
                 PROVE  /\ moved[p] <= Threshold("PACKET_SEND", rateLimit[p])
                        /\ -moved[p] <= Threshold("PACKET_RECV", rateLimit[p]) + undone[p]
        BY DEF NetFlowWithinQuota
    <2> DEFINE net == NetInflow(rateLimit[p])
               send == Threshold("PACKET_SEND", rateLimit[p])
               recv == Threshold("PACKET_RECV", rateLimit[p])
    <2>1. /\ rateLimit[p] \in RateLimits
          /\ moved[p] \in Int /\ undone[p] \in Nat
        BY DEF IndInv, TypeOK
    <2>2. net \in Int /\ send \in Nat /\ recv \in Nat
        BY <2>1, NetInflowType, ThresholdType
    <2>3. net <= recv /\ -net <= send
        BY DEF IndInv, FlowWithinQuota, WithinQuota
    <2>4. net = -(moved[p] + undone[p])
        BY DEF IndInv, FlowMatchesTransfers
    <2> HIDE DEF net, send, recv
    <2>5. moved[p] <= send /\ -moved[p] <= recv + undone[p]
        BY <2>1, <2>2, <2>3, <2>4
    <2>6. QED
        BY <2>5 DEF send, recv
<1>2. QED
    BY <1>1, IndInvHolds, PTL
=============================================================================
