--------------------------- MODULE UnbondingProofs --------------------------
(***************************************************************************)
(* For any zones, users, amounts and periods: packets and records match,   *)
(* a redemption is paid at most once, a record owes what its users are to  *)
(* be paid, and the types, with the numbering of the packets.              *)
(***************************************************************************)
EXTENDS UnbondingRecords, LedgerTheorems

-----------------------------------------------------------------------------
(* The inductive invariant *)

Channel == [state : {"OPEN", "CLOSED", "INIT"}, pkts : SUBSET Packet]

StoresTypeOK ==
    /\ current \in Eurs
    /\ hzu \in [Eurs -> [Zones -> HostZoneUnbonding]]
    /\ urr \in [Eurs -> [Zones -> [Users -> UserRedemptionRecord]]]
    /\ channel \in [Zones -> [Accounts -> Channel]]
    /\ \A z \in Zones, a \in Accounts : IsFiniteSet(channel[z][a].pkts)
    /\ orphans \subseteq Key
    /\ paid \subseteq Key

AccountsTypeOK ==
    /\ zone \in [Zones -> [halted : BOOLEAN, redemptionRate : Nat, stakedBal : Nat]]
    /\ stWallet \in [Zones -> Nat]
    /\ escrow \in [Zones -> Nat]
    /\ deposits \in [Zones -> Nat]
    /\ staking \in [Zones -> Nat]
    /\ delegated \in [Zones -> Nat]
    /\ hostAcct \in [Zones -> Nat]
    /\ redemptionAcct \in [Zones -> Nat]
    /\ rewardsLeft \in Nat
    /\ unbonding \in [Zones -> [1..UnbondingPeriod -> Nat]]
    /\ lost \in [Zones -> [Kinds -> Nat]]

\* Undelegations and sweeps are for some records, delegations for none; a
\* claim is for one user of one record, and no two claims are for the same; a
\* closed channel has no packets.
DelegationShape(pkts) ==
    \A p \in pkts :
        /\ p.kind \in {"undelegate", "redemption", "delegate"}
        /\ p.users = {}
        /\ p.kind = "delegate" <=> p.eurs = {}

RedemptionShape(pkts) ==
    /\ \A p \in pkts :
         p.kind = "claim" /\ \E e \in Eurs, u \in Users : p.eurs = {e} /\ p.users = {u}
    /\ \A p \in pkts, q \in pkts : p # q => p.eurs # q.eurs \/ p.users # q.users

PacketsWellFormed ==
    \A z \in Zones :
        /\ \A a \in Accounts : channel[z][a].pkts # {} => channel[z][a].state = "OPEN"
        /\ DelegationShape(channel[z]["DELEGATION"].pkts)
        /\ RedemptionShape(channel[z]["REDEMPTION"].pkts)

\* The day's record only collects redemptions, nothing is undelegated or swept
\* for nobody, and a claim waits only for what can be claimed.
RecordsWellFormed ==
    /\ \A z \in Zones : hzu[current][z].status \in {"NONE", "UNBONDING_QUEUE"}
    /\ \A e \in Eurs, z \in Zones :
         /\ hzu[e][z].status = "NONE" => hzu[e][z].native = 0 /\ hzu[e][z].st = 0
         /\ hzu[e][z].status = "UNBONDING_QUEUE" /\ hzu[e][z].native = 0 => hzu[e][z].st = 0
         /\ hzu[e][z].status \in {"UNBONDING_IN_PROGRESS", "EXIT_TRANSFER_QUEUE",
                                  "EXIT_TRANSFER_IN_PROGRESS"} => hzu[e][z].native > 0
    /\ \A e \in Eurs, z \in Zones, u \in Users :
         urr[e][z][u].pending => hzu[e][z].status = "CLAIMABLE" /\ urr[e][z][u].amount > 0

\* A claim that a closed channel never delivered is still pending, and there
\* is no other.
OrphansPending ==
    \A k \in orphans :
        /\ urr[k.eur][k.zone][k.user].pending
        /\ \A p \in channel[k.zone]["REDEMPTION"].pkts : ~(k.eur \in p.eurs /\ k.user \in p.users)

\* PacketsMatchRecords, packet by packet: the status that waits for a packet,
\* and what the packet finds then.
Awaits(p) ==
    CASE p.kind = "undelegate" -> "UNBONDING_IN_PROGRESS"
      [] p.kind = "redemption" -> "EXIT_TRANSFER_IN_PROGRESS"
      [] p.kind = "claim" -> "CLAIMABLE"

Matches(g, r, z, p) ==
    /\ \A e \in p.eurs : g[e][z].status = Awaits(p)
    /\ p.kind = "claim" => \A e \in p.eurs, u \in p.users :
         r[e][z][u].pending /\ r[e][z][u].amount = p.amount
    /\ p.kind \in {"undelegate", "redemption"} => p.amount = NativeAmount(g, z, p.eurs)

Separate(pkts) ==
    \A p \in pkts, q \in pkts : p # q /\ p.kind # "claim" => p.eurs \cap q.eurs = {}

PacketsMatch ==
    \A z \in Zones, a \in Accounts :
        /\ Separate(channel[z][a].pkts)
        /\ \A p \in channel[z][a].pkts : Matches(hzu, urr, z, p)

\* PaidAtMostOnce, key by key.
PaidOnce ==
    \A k \in paid :
        /\ urr[k.eur][k.zone][k.user].pending
        /\ k \notin orphans
        /\ \A p \in channel[k.zone]["REDEMPTION"].pkts :
             k.eur \in p.eurs /\ k.user \in p.users => p.state = "ok"

\* UsersAccounted, as a sum over all users.
UserAmounts(r, e, z) == [u \in Users |-> r[e][z][u].amount]

UsersOwed ==
    \A e \in Eurs, z \in Zones :
        hzu[e][z].native = SumFunctionOnSet(UserAmounts(urr, e, z), Users)

StoresInv ==
    /\ StoresTypeOK
    /\ PacketsWellFormed
    /\ RecordsWellFormed
    /\ PacketsMatch
    /\ OrphansPending
    /\ PaidOnce
    /\ UsersOwed

\* The packets of a channel are numbered without gaps.
PacketsNumbered ==
    \A z \in Zones, a \in Accounts :
        Numbered(channel[z][a].pkts, Cardinality(channel[z][a].pkts))

\* The amounts of some packets, added up: of those of a kind in some states,
\* of those the host has executed, of the delegations under way.
PacketAmounts(S) == [p \in S |-> p.amount]
PacketSum(S) == SumFunctionOnSet(PacketAmounts(S), S)

PacketsOf(pkts, kind, states) == {p \in pkts : p.kind = kind /\ p.state \in states}
KindSum(pkts, kind, states) == PacketSum(PacketsOf(pkts, kind, states))

OkSum(pkts, kind) == KindSum(pkts, kind, {"ok"})
StakingSum(pkts) == KindSum(pkts, "delegate", {"sent", "ok", "err"})

\* What is in progress is among the deposits, and under way if the channel is
\* open; a restored channel starts with nothing in progress.
StakingInv ==
    \A z \in Zones :
        /\ staking[z] <= deposits[z]
        /\ channel[z]["DELEGATION"].state = "OPEN"
             => staking[z] = StakingSum(channel[z]["DELEGATION"].pkts)
        /\ channel[z]["DELEGATION"].state = "INIT" => staking[z] = 0

RecordsInv == StoresInv /\ AccountsTypeOK /\ PacketsNumbered /\ StakingInv

-----------------------------------------------------------------------------
(* Facts about the helpers *)

LEMMA UsersOwedSum ==
    UsersAccounted <=> UsersOwed
  <1>1. ASSUME NEW e, NEW z
        PROVE  SumFunction(UserAmounts(urr, e, z)) = SumFunctionOnSet(UserAmounts(urr, e, z), Users)
    <2>1. DOMAIN UserAmounts(urr, e, z) = Users
      BY DEF UserAmounts
    <2> QED
      BY <2>1, Zenon DEF SumFunction
  <1>2. UsersAccounted <=> \A e \in Eurs, z \in Zones :
          hzu[e][z].native = SumFunction(UserAmounts(urr, e, z))
    BY Zenon DEF UsersAccounted, UserAmounts
  <1> QED
    BY <1>1, <1>2 DEF UsersOwed

\* Two sums over the users that differ in one user's record.
LEMMA OneUserSum ==
    ASSUME NEW f, NEW g, NEW u \in Users,
           \A v \in Users : f[v] \in Int, \A v \in Users : g[v] \in Int,
           \A v \in Users \ {u} : g[v] = f[v]
    PROVE  SumFunctionOnSet(g, Users) = SumFunctionOnSet(f, Users) + g[u] - f[u]
    BY SumChange, UnbondingRecordsAssumption

\* Fields of a host zone unbonding may be assigned.
LEMMA HostZoneUnbondingType ==
    ASSUME NEW r \in HostZoneUnbonding
    PROVE  /\ \A s \in Statuses : [r EXCEPT !.status = s] \in HostZoneUnbonding
           /\ \A t \in Times : [r EXCEPT !.left = t] \in HostZoneUnbonding
           /\ \A n \in Nat : [r EXCEPT !.native = n] \in HostZoneUnbonding
           /\ \A n, m \in Nat :
                [r EXCEPT !.native = @ + n, !.st = @ + m] \in HostZoneUnbonding
  <1>1. \A s \in Statuses : [r EXCEPT !.status = s] \in HostZoneUnbonding
    BY DEF HostZoneUnbonding
  <1>2. \A t \in Times : [r EXCEPT !.left = t] \in HostZoneUnbonding
    BY DEF HostZoneUnbonding
  <1>3. \A n \in Nat : [r EXCEPT !.native = n] \in HostZoneUnbonding
    BY DEF HostZoneUnbonding
  <1>4. ASSUME NEW n \in Nat, NEW m \in Nat
        PROVE  [r EXCEPT !.native = @ + n, !.st = @ + m] \in HostZoneUnbonding
    <2>1. r.native + n \in Nat /\ r.st + m \in Nat
      BY DEF HostZoneUnbonding
    <2>2. \A i, j \in Nat : [r EXCEPT !.native = i, !.st = j] \in HostZoneUnbonding
      BY DEF HostZoneUnbonding
    <2> QED
      BY <2>1, <2>2
  <1> QED
    BY <1>1, <1>2, <1>3, <1>4

\* A sum over records depends on their native amounts only ...
LEMMA NativeSame ==
    ASSUME NEW g, NEW h, NEW z, NEW S, \A e \in S : g[e][z].native = h[e][z].native
    PROVE  NativeAmount(g, z, S) = NativeAmount(h, z, S)
  <1>1. [e \in S |-> g[e][z].native] = [e \in S |-> h[e][z].native]
    OBVIOUS
  <1> QED
    BY <1>1, Zenon DEF NativeAmount

\* ... and is a number.
LEMMA NativeNat ==
    ASSUME NEW h, h \in [Eurs -> [Zones -> HostZoneUnbonding]],
           NEW z \in Zones, NEW S \in SUBSET Eurs
    PROVE  NativeAmount(h, z, S) \in Nat
  <1> DEFINE f == [e \in S |-> h[e][z].native]
  <1>1. IsFiniteSet(S)
    BY FS_Subset, UnbondingRecordsAssumption
  <1>2. DOMAIN f = S
    OBVIOUS
  <1>3. \A e \in S : f[e] \in Nat
    BY DEF HostZoneUnbonding
  <1> HIDE DEF f
  <1>4. SumFunctionOnSet(f, S) \in Nat
    BY <1>1, <1>3, SumNat
  <1>5. NativeAmount(h, z, S) = SumFunctionOnSet(f, DOMAIN f)
    BY Zenon DEF NativeAmount, SumFunction, f
  <1> QED
    BY <1>2, <1>4, <1>5

\* The keys of a packet.
LEMMA KeysMember ==
    ASSUME NEW z \in Zones, NEW p, NEW k \in Key
    PROVE  k \in Keys(z, p) <=> k.zone = z /\ k.eur \in p.eurs /\ k.user \in p.users
    BY DEF Keys, Key

\* Delegations are for no records.
LEMMA ForRecords ==
    ASSUME PacketsWellFormed, NEW z \in Zones, NEW a \in Accounts, NEW p \in channel[z][a].pkts,
           p.eurs # {}
    PROVE  p.kind # "delegate"
    BY DEF PacketsWellFormed, DelegationShape, RedemptionShape, Accounts

LEMMA MatchPointwise ==
    ASSUME StoresTypeOK, PacketsMatch,
           \A z \in Zones : channel[z]["DELEGATION"].state = "OPEN" => staking[z] = Delegating(z)
    PROVE  PacketsMatchRecords
  <1> DEFINE Claims(z, p) == \A k \in Keys(z, p) :
                UserRecord(k).pending /\ UserRecord(k).amount = p.amount
             Found(z, a, p) ==
                /\ p.eurs \subseteq WithStatus(hzu, z, {Awaits(p)})
                /\ IF p.kind = "claim" THEN Claims(z, p)
                   ELSE /\ p.amount = NativeAmount(hzu, z, p.eurs)
                        /\ \A q \in channel[z][a].pkts \ {p} : p.eurs \cap q.eurs = {}
  <1>1. ASSUME NEW z \in Zones, NEW a \in Accounts, NEW p \in channel[z][a].pkts,
               p.kind # "delegate"
        PROVE  Found(z, a, p)
    <2>1. p.eurs \subseteq Eurs /\ p.users \subseteq Users /\ p.kind \in Kinds
      BY DEF StoresTypeOK, Channel, Packet
    <2>3. p.eurs \subseteq WithStatus(hzu, z, {Awaits(p)})
                              <=> \A e \in p.eurs : hzu[e][z].status = Awaits(p)
      BY <2>1 DEF WithStatus
    <2>4. ASSUME \A e \in p.eurs, u \in p.users :
                   urr[e][z][u].pending /\ urr[e][z][u].amount = p.amount
          PROVE  Claims(z, p)
      <3> SUFFICES ASSUME NEW k \in Keys(z, p)
                   PROVE  UserRecord(k).pending /\ UserRecord(k).amount = p.amount
        OBVIOUS
      <3>1. PICK e \in p.eurs, u \in p.users : k = [eur |-> e, zone |-> z, user |-> u]
        BY DEF Keys
      <3>2. UserRecord(k) = urr[e][z][u]
        BY <3>1 DEF UserRecord
      <3> QED
        BY <2>4, <3>2
    <2>5. Matches(hzu, urr, z, p) /\ Separate(channel[z][a].pkts)
      BY DEF PacketsMatch
    <2> HIDE DEF Claims
    <2>6. CASE p.kind = "claim"
      BY <2>3, <2>4, <2>5, <2>6, Zenon DEF Matches
    <2>7. CASE p.kind # "claim"
      <3>1. p.kind \in {"undelegate", "redemption"}
        BY <1>1, <2>1, <2>7 DEF Kinds
      <3>2. \A q \in channel[z][a].pkts \ {p} : p.eurs \cap q.eurs = {}
        BY <2>5, <2>7 DEF Separate
      <3> QED
        BY <2>3, <2>5, <2>7, <3>1, <3>2, Zenon DEF Matches
    <2> QED
      BY <2>6, <2>7
  <1>2. PacketsMatchRecords <=> \A z \in Zones, a \in Accounts :
          /\ \A p \in channel[z][a].pkts : p.kind # "delegate" => Found(z, a, p)
          /\ channel[z]["DELEGATION"].state = "OPEN" => staking[z] = Delegating(z)
    BY Zenon DEF PacketsMatchRecords, Awaits
  <1> HIDE DEF Found
  <1> QED
    BY <1>1, <1>2, Zenon

LEMMA PaidPointwise ==
    StoresTypeOK => (PaidAtMostOnce <=> PaidOnce)
  <1> SUFFICES ASSUME StoresTypeOK PROVE PaidAtMostOnce <=> PaidOnce
    OBVIOUS
  <1>1. ASSUME NEW k \in paid, NEW p
        PROVE  k \in Keys(k.zone, p) <=> k.eur \in p.eurs /\ k.user \in p.users
    <2>1. k \in Key /\ k.zone \in Zones
      BY DEF StoresTypeOK, Key
    <2> QED
      BY <2>1, KeysMember
  <1> QED
    BY <1>1, Zenon DEF PaidAtMostOnce, PaidOnce, UserRecord

\* A packet that finds records unchanged in status and amount still matches.
LEMMA MatchesKept ==
    ASSUME NEW z, NEW g, NEW h, NEW r, NEW s, NEW p, Matches(g, r, z, p),
           \A e \in p.eurs : h[e][z].status = g[e][z].status,
           \A e \in p.eurs : h[e][z].native = g[e][z].native,
           \A e \in p.eurs, u \in p.users : s[e][z][u] = r[e][z][u]
    PROVE  Matches(h, s, z, p)
  <1>1. NativeAmount(h, z, p.eurs) = NativeAmount(g, z, p.eurs)
    BY NativeSame
  <1> QED
    BY <1>1 DEF Matches

\* For a claim, the amounts of the record do not matter.
LEMMA ClaimMatchesKept ==
    ASSUME NEW z, NEW g, NEW h, NEW r, NEW s, NEW p, Matches(g, r, z, p), p.kind = "claim",
           \A e \in p.eurs : h[e][z].status = g[e][z].status,
           \A e \in p.eurs, u \in p.users : s[e][z][u] = r[e][z][u]
    PROVE  Matches(h, s, z, p)
    BY DEF Matches

\* Packets that stem from other packets, one from one, and are for the same.
Same(p, q) == p.kind = q.kind /\ p.eurs = q.eurs /\ p.users = q.users /\ p.amount = q.amount

Derived(new, old) ==
    /\ \A p \in new : \E q \in old : Same(p, q)
    /\ \A p1 \in new, p2 \in new : p1 # p2 =>
         \E q1 \in old, q2 \in old : q1 # q2 /\ Same(p1, q1) /\ Same(p2, q2)

LEMMA DerivedKeeps ==
    ASSUME NEW old, NEW new, Derived(new, old)
    PROVE  /\ Separate(old) => Separate(new)
           /\ DelegationShape(old) => DelegationShape(new)
           /\ RedemptionShape(old) => RedemptionShape(new)
  <1>1. Separate(old) => Separate(new)
    BY DEF Separate, Derived, Same
  <1>2. DelegationShape(old) => DelegationShape(new)
    BY DEF DelegationShape, Derived, Same
  <1>3. RedemptionShape(old) => RedemptionShape(new)
    BY DEF RedemptionShape, Derived, Same
  <1> QED
    BY <1>1, <1>2, <1>3

LEMMA SameMatches ==
    ASSUME NEW p, NEW q, Same(p, q), NEW g, NEW r, NEW z, Matches(g, r, z, q)
    PROVE  Matches(g, r, z, p)
    BY DEF Matches, Same, Awaits

\* One channel gets other packets.
SetPackets(z, a, S) == channel' = [channel EXCEPT ![z][a].pkts = S]

LEMMA ChannelPackets ==
    ASSUME StoresTypeOK, NEW z \in Zones, NEW a \in Accounts, NEW S \in SUBSET Packet,
           SetPackets(z, a, S)
    PROVE  /\ channel' \in [Zones -> [Accounts -> Channel]]
           /\ channel'[z][a].pkts = S /\ channel'[z][a].state = channel[z][a].state
           /\ \A y \in Zones, b \in Accounts : ~(y = z /\ b = a) => channel'[y][b] = channel[y][b]
  <1> DEFINE new == [channel[z][a] EXCEPT !.pkts = S]
  <1>1. channel \in [Zones -> [Accounts -> Channel]] /\ channel[z][a] \in Channel
    BY DEF StoresTypeOK
  <1>2. new \in Channel /\ new.pkts = S /\ new.state = channel[z][a].state
    BY <1>1 DEF Channel
  <1>3. channel' = [channel EXCEPT ![z][a] = new]
    BY <1>1 DEF SetPackets
  <1> HIDE DEF new
  <1>4. channel' \in [Zones -> [Accounts -> Channel]]
    BY <1>1, <1>2, <1>3
  <1>5. channel'[z][a] = new
    BY <1>1, <1>3
  <1>6. \A y \in Zones, b \in Accounts : ~(y = z /\ b = a) => channel'[y][b] = channel[y][b]
    BY <1>1, <1>3
  <1> QED
    BY <1>2, <1>4, <1>5, <1>6

-----------------------------------------------------------------------------
(* Redemptions *)

\* What RedeemStake does to the stores.
LEMMA RedeemStakeRecords ==
    ASSUME RecordsInv, NEW z \in Zones, NEW u \in Users, NEW amount \in RedeemAmounts,
           RedeemStake(z, u, amount),
           NEW native, native = NativeTokensFor(amount, zone[z].redemptionRate)
    PROVE  /\ native \in Nat \ {0} /\ amount \in Nat \ {0}
           /\ hzu[current][z].status = "UNBONDING_QUEUE"
           /\ urr[current][z][u].amount = 0 /\ ~urr[current][z][u].pending
           /\ hzu' \in [Eurs -> [Zones -> HostZoneUnbonding]]
           /\ \A e \in Eurs, y \in Zones :
                /\ hzu'[e][y].status = hzu[e][y].status
                /\ hzu'[e][y].left = hzu[e][y].left
                /\ hzu'[e][y].native = IF e = current /\ y = z THEN hzu[e][y].native + native
                                       ELSE hzu[e][y].native
                /\ hzu'[e][y].st = IF e = current /\ y = z THEN hzu[e][y].st + amount
                                   ELSE hzu[e][y].st
           /\ urr' \in [Eurs -> [Zones -> [Users -> UserRedemptionRecord]]]
           /\ urr'[current][z][u].amount = native /\ ~urr'[current][z][u].pending
           /\ \A e \in Eurs, y \in Zones, v \in Users :
                ~(e = current /\ y = z /\ v = u) => urr'[e][y][v] = urr[e][y][v]
  <1>1. /\ hzu' = [hzu EXCEPT ![current][z].native = @ + native, ![current][z].st = @ + amount]
        /\ urr' = [urr EXCEPT ![current][z][u] = [amount |-> native, pending |-> FALSE]]
        /\ native > 0 /\ urr[current][z][u] = NoRedemption /\ hzu[current][z].status # "NONE"
    BY DEF RedeemStake
  <1>2. amount \in Nat \ {0} /\ native \in Nat
    <2>1. amount \in Nat \ {0} /\ zone[z].redemptionRate \in Nat
      BY UnbondingRecordsAssumption DEF RecordsInv, AccountsTypeOK
    <2> QED
      BY <2>1, NewDecNat, MulNat, ChopNat DEF NativeTokensFor, RoundInt
  <1>3. /\ hzu \in [Eurs -> [Zones -> HostZoneUnbonding]]
        /\ urr \in [Eurs -> [Zones -> [Users -> UserRedemptionRecord]]]
        /\ current \in Eurs
    BY DEF RecordsInv, StoresInv, StoresTypeOK
  <1>4. urr' \in [Eurs -> [Zones -> [Users -> UserRedemptionRecord]]]
    BY <1>1, <1>2, <1>3 DEF UserRedemptionRecord
  <1>5. /\ urr'[current][z][u] = [amount |-> native, pending |-> FALSE]
        /\ \A e \in Eurs, y \in Zones, v \in Users :
             ~(e = current /\ y = z /\ v = u) => urr'[e][y][v] = urr[e][y][v]
    BY <1>1, <1>3
  <1>6. \A e \in Eurs, y \in Zones :
          /\ hzu'[e][y].status = hzu[e][y].status
          /\ hzu'[e][y].left = hzu[e][y].left
          /\ hzu'[e][y].native = IF e = current /\ y = z THEN hzu[e][y].native + native
                                 ELSE hzu[e][y].native
          /\ hzu'[e][y].st = IF e = current /\ y = z THEN hzu[e][y].st + amount
                             ELSE hzu[e][y].st
    BY <1>1, <1>3 DEF HostZoneUnbonding
  <1>7. hzu' \in [Eurs -> [Zones -> HostZoneUnbonding]]
    <2> DEFINE old == hzu[current][z]
               new == [old EXCEPT !.native = @ + native, !.st = @ + amount]
    <2>1. old \in HostZoneUnbonding
      BY <1>3
    <2>2. new \in HostZoneUnbonding
      BY <1>2, <2>1, HostZoneUnbondingType
    <2>3. hzu' = [hzu EXCEPT ![current][z] = new]
      BY <1>1, <1>3, <2>1 DEF HostZoneUnbonding
    <2> HIDE DEF new
    <2> QED
      BY <1>3, <2>2, <2>3
  <1>8. hzu[current][z].status = "UNBONDING_QUEUE"
    BY <1>1 DEF RecordsInv, StoresInv, RecordsWellFormed
  <1>9. urr[current][z][u].amount = 0 /\ ~urr[current][z][u].pending
    BY <1>1 DEF NoRedemption
  <1>10. urr'[current][z][u].amount = native /\ ~urr'[current][z][u].pending
    BY <1>5
  <1>11. native \in Nat \ {0}
    BY <1>1, <1>2
  <1> QED
    BY <1>2, <1>4, <1>5, <1>6, <1>7, <1>8, <1>9, <1>10, <1>11, Zenon

LEMMA RedeemStakeStep ==
    ASSUME RecordsInv, NEW z \in Zones, NEW u \in Users, NEW amount \in RedeemAmounts,
           RedeemStake(z, u, amount)
    PROVE  StoresInv'
  <1> DEFINE native == NativeTokensFor(amount, zone[z].redemptionRate)
  <1>1. /\ native \in Nat \ {0} /\ amount \in Nat \ {0}
        /\ hzu[current][z].status = "UNBONDING_QUEUE"
        /\ urr[current][z][u].amount = 0 /\ ~urr[current][z][u].pending
        /\ hzu' \in [Eurs -> [Zones -> HostZoneUnbonding]]
        /\ \A e \in Eurs, y \in Zones :
             /\ hzu'[e][y].status = hzu[e][y].status
             /\ hzu'[e][y].left = hzu[e][y].left
             /\ hzu'[e][y].native = IF e = current /\ y = z THEN hzu[e][y].native + native
                                    ELSE hzu[e][y].native
             /\ hzu'[e][y].st = IF e = current /\ y = z THEN hzu[e][y].st + amount
                                ELSE hzu[e][y].st
        /\ urr' \in [Eurs -> [Zones -> [Users -> UserRedemptionRecord]]]
        /\ urr'[current][z][u].amount = native /\ ~urr'[current][z][u].pending
        /\ \A e \in Eurs, y \in Zones, v \in Users :
             ~(e = current /\ y = z /\ v = u) => urr'[e][y][v] = urr[e][y][v]
    BY RedeemStakeRecords
  <1>2. UNCHANGED <<current, channel, orphans, paid>>
    BY DEF RedeemStake, ghosts
  <1>3. /\ StoresTypeOK /\ PacketsWellFormed /\ RecordsWellFormed /\ PacketsMatch
        /\ OrphansPending /\ PaidOnce /\ UsersOwed
    BY DEF RecordsInv, StoresInv
  <1> HIDE DEF native
  <1>a. \A e \in Eurs, y \in Zones : hzu'[e][y].status = hzu[e][y].status
    BY <1>1
  <1>b. \A e \in Eurs, y \in Zones : ~(e = current /\ y = z) =>
          hzu'[e][y].native = hzu[e][y].native /\ hzu'[e][y].st = hzu[e][y].st
    BY <1>1
  <1>c. current \in Eurs /\ hzu'[current][z].native = hzu[current][z].native + native
    BY <1>1, <1>3 DEF StoresTypeOK
  <1>d. \A e \in Eurs, y \in Zones, v \in Users :
          ~(e = current /\ y = z /\ v = u) => urr'[e][y][v] = urr[e][y][v]
    BY <1>1
  <1>e. native \in Nat \ {0} /\ hzu[current][z].status = "UNBONDING_QUEUE" /\ ~urr'[current][z][u].pending
    BY <1>1
  <1>4. StoresTypeOK'
    BY <1>1, <1>2, <1>3 DEF StoresTypeOK
  <1>5. PacketsWellFormed'
    BY <1>2, <1>3 DEF PacketsWellFormed
  <1>6. RecordsWellFormed'
    <2>1. \A y \in Zones : hzu'[current'][y].status \in {"NONE", "UNBONDING_QUEUE"}
      BY <1>a, <1>c, <1>2, <1>3 DEF RecordsWellFormed
    <2>2. ASSUME NEW e \in Eurs, NEW y \in Zones
          PROVE /\ hzu'[e][y].status = "NONE" => hzu'[e][y].native = 0 /\ hzu'[e][y].st = 0
                /\ hzu'[e][y].status = "UNBONDING_QUEUE" /\ hzu'[e][y].native = 0 => hzu'[e][y].st = 0
                /\ hzu'[e][y].status \in {"UNBONDING_IN_PROGRESS", "EXIT_TRANSFER_QUEUE",
                                          "EXIT_TRANSFER_IN_PROGRESS"} => hzu'[e][y].native > 0
      <3>1. hzu[e][y].native \in Nat
        BY <1>3 DEF StoresTypeOK, HostZoneUnbonding
      <3>2. CASE e = current /\ y = z
        BY <1>a, <1>c, <1>e, <3>1, <3>2
      <3>3. CASE ~(e = current /\ y = z)
        BY <1>a, <1>b, <1>3, <3>3 DEF RecordsWellFormed
      <3> QED
        BY <3>2, <3>3
    <2>3. ASSUME NEW e \in Eurs, NEW y \in Zones, NEW v \in Users, urr'[e][y][v].pending
          PROVE  hzu'[e][y].status = "CLAIMABLE" /\ urr'[e][y][v].amount > 0
      BY <1>a, <1>d, <1>e, <1>3, <2>3 DEF RecordsWellFormed
    <2> QED
      BY <2>1, <2>2, <2>3, Zenon DEF RecordsWellFormed
  <1>7. PacketsMatch'
    <2>1. ASSUME NEW y \in Zones, NEW a \in Accounts, NEW p \in channel[y][a].pkts
          PROVE  Matches(hzu', urr', y, p)
      <3>1. Matches(hzu, urr, y, p) /\ p.eurs \subseteq Eurs /\ p.users \subseteq Users /\ p.kind \in Kinds
        BY <1>3 DEF StoresTypeOK, PacketsMatch, Channel, Packet
      <3>2. current \notin p.eurs
        <4>1. p.eurs # {} => p.kind # "delegate"
          BY <1>3, ForRecords
        <4> QED
          BY <1>3, <3>1, <4>1 DEF Matches, Awaits, Kinds, RecordsWellFormed
      <3>3. \A e \in p.eurs : hzu'[e][y].status = hzu[e][y].status
        BY <1>1, <3>1
      <3>4. \A e \in p.eurs : hzu'[e][y].native = hzu[e][y].native
        BY <1>1, <3>1, <3>2
      <3>5. \A e \in p.eurs, v \in p.users : urr'[e][y][v] = urr[e][y][v]
        BY <1>1, <3>1, <3>2
      <3> QED
        BY <3>1, <3>3, <3>4, <3>5, MatchesKept
    <2> QED
      BY <1>2, <1>3, <2>1 DEF PacketsMatch
  <1>8. ASSUME NEW k \in Key, urr[k.eur][k.zone][k.user].pending
        PROVE  urr'[k.eur][k.zone][k.user].pending
    BY <1>1, <1>8 DEF Key
  <1>9. OrphansPending'
    BY <1>2, <1>3, <1>8 DEF OrphansPending, StoresTypeOK
  <1>10. PaidOnce'
    BY <1>2, <1>3, <1>8 DEF PaidOnce, StoresTypeOK
  <1>11. UsersOwed'
    <2> SUFFICES ASSUME NEW e \in Eurs, NEW y \in Zones
                 PROVE  hzu'[e][y].native = SumFunctionOnSet(UserAmounts(urr', e, y), Users)
      BY DEF UsersOwed
    <2> DEFINE f == UserAmounts(urr, e, y)
               g == UserAmounts(urr', e, y)
    <2>1. hzu[e][y].native = SumFunctionOnSet(f, Users)
      BY <1>3 DEF UsersOwed
    <2>2. \A v \in Users : f[v] = urr[e][y][v].amount /\ g[v] = urr'[e][y][v].amount
      BY DEF UserAmounts
    <2>3. (\A v \in Users : f[v] \in Int) /\ (\A v \in Users : g[v] \in Int)
      BY <1>1, <1>3, <2>2 DEF StoresTypeOK, UserRedemptionRecord
    <2>4. \A v \in Users \ {u} : g[v] = f[v]
      BY <1>d, <2>2
    <2> HIDE DEF f, g
    <2>5. SumFunctionOnSet(g, Users) = SumFunctionOnSet(f, Users) + g[u] - f[u]
      BY <2>3, <2>4, OneUserSum
    <2>6. SumFunctionOnSet(f, Users) \in Int
      BY <2>3, SumInt, UnbondingRecordsAssumption
    <2>7. g[u] - f[u] = hzu'[e][y].native - hzu[e][y].native /\ g[u] \in Int /\ f[u] \in Int
      <3>1. hzu[e][y].native \in Nat
        BY <1>3 DEF StoresTypeOK, HostZoneUnbonding
      <3>2. CASE e = current /\ y = z
        BY <1>1, <1>c, <1>e, <2>2, <2>3, <3>1, <3>2
      <3>3. CASE ~(e = current /\ y = z)
        BY <1>b, <1>d, <2>2, <2>3, <3>1, <3>3
      <3> QED
        BY <3>2, <3>3
    <2>8. hzu[e][y].native \in Nat /\ hzu'[e][y].native \in Nat
      BY <1>1, <1>3 DEF StoresTypeOK, HostZoneUnbonding
    <2>9. hzu'[e][y].native = SumFunctionOnSet(g, Users)
      BY <2>1, <2>5, <2>6, <2>7, <2>8
    <2> QED
      BY <2>9 DEF g
  <1> QED
    BY <1>4, <1>5, <1>6, <1>7, <1>9, <1>10, <1>11 DEF StoresInv

-----------------------------------------------------------------------------
(* Steps that keep the packets, up to what the host made of them *)

ChannelsDerived ==
    \A z \in Zones, a \in Accounts :
        /\ Derived(channel'[z][a].pkts, channel[z][a].pkts)
        /\ channel'[z][a].pkts # {} => channel'[z][a].state = "OPEN"

LEMMA DerivedWellFormed ==
    ASSUME PacketsWellFormed, PacketsMatch, ChannelsDerived
    PROVE  /\ PacketsWellFormed'
           /\ \A z \in Zones, a \in Accounts : Separate(channel'[z][a].pkts)
  <1>1. \A z \in Zones, a \in Accounts : Separate(channel'[z][a].pkts)
    BY DerivedKeeps DEF PacketsMatch, ChannelsDerived
  <1>2. \A z \in Zones : /\ DelegationShape(channel'[z]["DELEGATION"].pkts)
                         /\ RedemptionShape(channel'[z]["REDEMPTION"].pkts)
    BY DerivedKeeps DEF PacketsWellFormed, ChannelsDerived, Accounts
  <1> QED
    BY <1>1, <1>2 DEF PacketsWellFormed, ChannelsDerived

\* The stores are as they were, but for the times.
StoresKept ==
    /\ current' = current /\ urr' = urr
    /\ \A e \in Eurs, z \in Zones :
         /\ hzu'[e][z].status = hzu[e][z].status
         /\ hzu'[e][z].native = hzu[e][z].native
         /\ hzu'[e][z].st = hzu[e][z].st

LEMMA KeptRecords ==
    ASSUME StoresTypeOK, RecordsWellFormed, UsersOwed, StoresKept
    PROVE  RecordsWellFormed' /\ UsersOwed'
  <1>1. RecordsWellFormed'
    <2>1. \A z \in Zones : hzu'[current'][z].status \in {"NONE", "UNBONDING_QUEUE"}
      BY DEF StoresTypeOK, RecordsWellFormed, StoresKept
    <2> QED
      BY <2>1 DEF RecordsWellFormed, StoresKept
  <1>2. UsersOwed'
    BY DEF UsersOwed, StoresKept
  <1> QED
    BY <1>1, <1>2

LEMMA KeptMatches ==
    ASSUME StoresTypeOK, PacketsWellFormed, PacketsMatch, ChannelsDerived, StoresKept
    PROVE  PacketsMatch'
  <1>1. ASSUME NEW z \in Zones, NEW a \in Accounts, NEW p \in channel'[z][a].pkts
        PROVE  Matches(hzu', urr', z, p)
    <2>1. PICK q \in channel[z][a].pkts : Same(p, q)
      BY DEF ChannelsDerived, Derived
    <2>2. Matches(hzu, urr, z, q) /\ q.eurs \subseteq Eurs
      BY DEF StoresTypeOK, PacketsMatch, Channel, Packet
    <2>3. Matches(hzu', urr', z, q)
      <3>1. \A e \in q.eurs : hzu'[e][z].status = hzu[e][z].status
        BY <2>2 DEF StoresKept
      <3>2. \A e \in q.eurs : hzu'[e][z].native = hzu[e][z].native
        BY <2>2 DEF StoresKept
      <3>3. \A e \in q.eurs, u \in q.users : urr'[e][z][u] = urr[e][z][u]
        BY DEF StoresKept
      <3> QED
        BY <2>2, <3>1, <3>2, <3>3, MatchesKept
    <2> QED
      BY <2>1, <2>3, SameMatches
  <1> QED
    BY <1>1, DerivedWellFormed DEF PacketsMatch

LEMMA DerivedOrphans ==
    ASSUME StoresTypeOK, OrphansPending, ChannelsDerived, urr' = urr, orphans' = orphans
    PROVE  OrphansPending'
  <1> SUFFICES ASSUME NEW k \in orphans
               PROVE  /\ urr[k.eur][k.zone][k.user].pending
                      /\ \A p \in channel'[k.zone]["REDEMPTION"].pkts :
                            ~(k.eur \in p.eurs /\ k.user \in p.users)
    BY DEF OrphansPending
  <1>1. k.zone \in Zones /\ "REDEMPTION" \in Accounts
    BY DEF StoresTypeOK, Key, Accounts
  <1>2. Derived(channel'[k.zone]["REDEMPTION"].pkts, channel[k.zone]["REDEMPTION"].pkts)
    BY <1>1 DEF ChannelsDerived
  <1> QED
    BY <1>2 DEF OrphansPending, Derived, Same

LEMMA TimesZero ==
    0 \in Times /\ UnbondingPeriod \in Times
    BY UnbondingRecordsAssumption DEF Times

\* The packet after the host executed it.
ExecutedPacket(p, result) ==
    [p EXCEPT !.state = result,
              !.left = IF p.kind = "undelegate" THEN UnbondingPeriod ELSE 0]

LEMMA ExecutedPacketSame ==
    ASSUME NEW p \in Packet, NEW result \in {"ok", "err"}
    PROVE  /\ ExecutedPacket(p, result) \in Packet
           /\ Same(ExecutedPacket(p, result), p)
           /\ ExecutedPacket(p, result).state = result
  <1> DEFINE t == IF p.kind = "undelegate" THEN UnbondingPeriod ELSE 0
  <1>1. t \in Times
    BY TimesZero
  <1>2. ExecutedPacket(p, result) = [p EXCEPT !.state = result, !.left = t]
    BY DEF ExecutedPacket
  <1> HIDE DEF t
  <1>3. ExecutedPacket(p, result) \in Packet
    BY <1>1, <1>2 DEF Packet
  <1> QED
    BY <1>2, <1>3 DEF Packet, Same

LEMMA ExecuteICAChannel ==
    ASSUME StoresInv, NEW z \in Zones, NEW a \in Accounts, NEW p \in channel[z][a].pkts,
           NEW result \in {"ok", "err"}, ExecuteICA(z, a, p, result)
    PROVE  /\ p \in Packet
           /\ StoresTypeOK' /\ ChannelsDerived
           /\ channel'[z][a].pkts = (channel[z][a].pkts \ {p}) \cup {ExecutedPacket(p, result)}
           /\ channel'[z][a].state = channel[z][a].state
           /\ \A y \in Zones, b \in Accounts : ~(y = z /\ b = a) => channel'[y][b] = channel[y][b]
  <1> DEFINE old == channel[z][a].pkts
             new == (old \ {p}) \cup {ExecutedPacket(p, result)}
  <1>1. StoresTypeOK /\ PacketsWellFormed
    BY DEF StoresInv
  <1>2. channel \in [Zones -> [Accounts -> Channel]] /\ old \in SUBSET Packet /\ p \in Packet
    BY <1>1 DEF StoresTypeOK, Channel
  <1>3. new \in SUBSET Packet
    BY <1>2, ExecutedPacketSame
  <1>4. SetPackets(z, a, new)
    BY DEF ExecuteICA, ExecutedPacket, SetPackets
  <1>5. /\ channel' \in [Zones -> [Accounts -> Channel]]
        /\ channel'[z][a].pkts = new /\ channel'[z][a].state = channel[z][a].state
        /\ \A y \in Zones, b \in Accounts : ~(y = z /\ b = a) => channel'[y][b] = channel[y][b]
    <2> HIDE DEF new
    <2> QED
      BY <1>1, <1>3, <1>4, ChannelPackets
  <1>6. UNCHANGED <<current, hzu, urr, orphans>>
    BY DEF ExecuteICA, records
  <1>7. paid' \in SUBSET Key
    <2>1. paid \in SUBSET Key /\ p.eurs \subseteq Eurs /\ p.users \subseteq Users
      BY <1>1, <1>2 DEF StoresTypeOK, Packet
    <2>2. Keys(z, p) \subseteq Key
      BY <2>1 DEF Keys, Key
    <2>3. paid' = paid \/ paid' = paid \cup Keys(z, p)
      BY DEF ExecuteICA, host
    <2> QED
      BY <2>1, <2>2, <2>3
  <1>8. Derived(new, old)
    <2>1. Same(ExecutedPacket(p, result), p)
      BY <1>2, ExecutedPacketSame
    <2>2. \A q : Same(q, q)
      BY DEF Same
    <2>3. \A x \in new : \E q \in old : Same(x, q)
      BY <2>1, <2>2
    <2>4. ASSUME NEW x1 \in new, NEW x2 \in new, x1 # x2
          PROVE  \E q1 \in old, q2 \in old : q1 # q2 /\ Same(x1, q1) /\ Same(x2, q2)
      <3>1. CASE x1 \in old \ {p} /\ x2 \in old \ {p}
        BY <2>2, <2>4, <3>1, Zenon
      <3>2. CASE x1 = ExecutedPacket(p, result) /\ x2 \in old \ {p}
        <4>1. Same(x1, p) /\ Same(x2, x2) /\ p # x2 /\ p \in old /\ x2 \in old
          BY <2>1, <2>2, <3>2
        <4> QED
          BY <4>1, Zenon
      <3>3. CASE x2 = ExecutedPacket(p, result) /\ x1 \in old \ {p}
        <4>1. Same(x2, p) /\ Same(x1, x1) /\ p # x1 /\ p \in old /\ x1 \in old
          BY <2>1, <2>2, <3>3
        <4> QED
          BY <4>1, Zenon
      <3> QED
        BY <2>4, <3>1, <3>2, <3>3
    <2> QED
      BY <2>3, <2>4, Zenon DEF Derived
  <1>9. ChannelsDerived
    <2>1. \A S : Derived(S, S)
      BY Zenon DEF Derived, Same
    <2>2. channel'[z][a].state = "OPEN"
      BY <1>5 DEF ExecuteICA
    <2>3. ASSUME NEW y \in Zones, NEW b \in Accounts
          PROVE  /\ Derived(channel'[y][b].pkts, channel[y][b].pkts)
                 /\ channel'[y][b].pkts # {} => channel'[y][b].state = "OPEN"
      <3>1. CASE y = z /\ b = a
        BY <1>5, <1>8, <2>2, <3>1
      <3>2. CASE ~(y = z /\ b = a)
        BY <1>1, <1>5, <2>1, <3>2 DEF PacketsWellFormed
      <3> QED
        BY <3>1, <3>2
    <2> QED
      BY <2>3, Zenon DEF ChannelsDerived
  <1>10. \A y \in Zones, b \in Accounts : IsFiniteSet(channel'[y][b].pkts)
    <2>1. IsFiniteSet(new)
      BY <1>1, FS_RemoveElement, FS_AddElement DEF StoresTypeOK
    <2> QED
      BY <1>1, <1>5, <2>1 DEF StoresTypeOK
  <1>11. StoresTypeOK'
    BY <1>1, <1>5, <1>6, <1>7, <1>10 DEF StoresTypeOK
  <1> QED
    BY <1>2, <1>5, <1>9, <1>11

LEMMA ExecuteICAStep ==
    ASSUME StoresInv, NEW z \in Zones, NEW a \in Accounts, NEW p \in channel[z][a].pkts,
           NEW result \in {"ok", "err"}, ExecuteICA(z, a, p, result)
    PROVE  StoresInv'
  <1> DEFINE q == ExecutedPacket(p, result)
  <1>1. /\ p \in Packet
        /\ StoresTypeOK' /\ ChannelsDerived
        /\ channel'[z][a].pkts = (channel[z][a].pkts \ {p}) \cup {q}
        /\ \A y \in Zones, b \in Accounts : ~(y = z /\ b = a) => channel'[y][b] = channel[y][b]
    BY ExecuteICAChannel
  <1>2. Same(q, p) /\ q.state = result
    BY <1>1, ExecutedPacketSame
  <1> HIDE DEF q
  <1>3. /\ StoresTypeOK /\ PacketsWellFormed /\ RecordsWellFormed /\ PacketsMatch
        /\ OrphansPending /\ PaidOnce /\ UsersOwed
    BY DEF StoresInv
  <1>4. UNCHANGED <<current, hzu, urr, orphans>>
    BY DEF ExecuteICA, records
  <1>5. StoresKept
    BY <1>4 DEF StoresKept
  <1>6. PacketsWellFormed' /\ RecordsWellFormed' /\ PacketsMatch' /\ OrphansPending' /\ UsersOwed'
    BY <1>1, <1>3, <1>4, <1>5, DerivedWellFormed, KeptRecords, KeptMatches, DerivedOrphans
  <1>7. ASSUME NEW k \in paid
        PROVE  /\ urr[k.eur][k.zone][k.user].pending
               /\ k \notin orphans
               /\ \A x \in channel'[k.zone]["REDEMPTION"].pkts :
                    k.eur \in x.eurs /\ k.user \in x.users => x.state = "ok"
    <2>1. /\ urr[k.eur][k.zone][k.user].pending
          /\ k \notin orphans
          /\ \A x \in channel[k.zone]["REDEMPTION"].pkts :
                    k.eur \in x.eurs /\ k.user \in x.users => x.state = "ok"
      BY <1>3 DEF PaidOnce
    <2>2. k.zone \in Zones /\ "REDEMPTION" \in Accounts
      BY <1>3 DEF StoresTypeOK, Key, Accounts
    <2>3. CASE k.zone = z /\ a = "REDEMPTION"
      <3>1. p.state = "sent"
        BY DEF ExecuteICA
      <3>2. ~(k.eur \in p.eurs /\ k.user \in p.users)
        BY <2>1, <2>3, <3>1
      <3>3. q.eurs = p.eurs /\ q.users = p.users
        BY <1>2 DEF Same
      <3> QED
        BY <1>1, <2>1, <2>3, <3>2, <3>3
    <2>4. CASE ~(k.zone = z /\ a = "REDEMPTION")
      BY <1>1, <2>1, <2>2, <2>4
    <2> QED
      BY <2>3, <2>4
  <1>8. ASSUME paid' = paid
        PROVE  PaidOnce'
    BY <1>4, <1>7, <1>8 DEF PaidOnce
  <1>9. ASSUME p.kind = "claim" /\ result = "ok" /\ paid' = paid \cup Keys(z, p)
        PROVE  PaidOnce'
    <2>1. a = "REDEMPTION"
      BY <1>3, <1>9 DEF Accounts, PacketsWellFormed, DelegationShape
    <2>2. PICK e \in Eurs, u \in Users : p.eurs = {e} /\ p.users = {u}
      BY <1>3, <2>1 DEF PacketsWellFormed, RedemptionShape
    <2>3. \A x \in channel[z]["REDEMPTION"].pkts \ {p} : ~(e \in x.eurs /\ u \in x.users)
      <3>1. RedemptionShape(channel[z]["REDEMPTION"].pkts)
        BY <1>3 DEF PacketsWellFormed
      <3> SUFFICES ASSUME NEW x \in channel[z]["REDEMPTION"].pkts \ {p}, e \in x.eurs, u \in x.users
                   PROVE  FALSE
        OBVIOUS
      <3>2. x.eurs # p.eurs \/ x.users # p.users
        BY <2>1, <3>1 DEF RedemptionShape
      <3>3. PICK f \in Eurs, v \in Users : x.eurs = {f} /\ x.users = {v}
        BY <3>1 DEF RedemptionShape
      <3> QED
        BY <2>2, <3>2, <3>3
    <2>4. ASSUME NEW k \in Keys(z, p)
          PROVE  /\ urr[k.eur][k.zone][k.user].pending
                 /\ k \notin orphans
                 /\ \A x \in channel'[k.zone]["REDEMPTION"].pkts :
                      k.eur \in x.eurs /\ k.user \in x.users => x.state = "ok"
      <3>1. k.zone = z /\ k.eur = e /\ k.user = u
        BY <2>2 DEF Keys
      <3>2. urr[e][z][u].pending
        BY <1>3, <1>9, <2>2 DEF PacketsMatch, Matches
      <3>3. k \notin orphans
        BY <1>3, <2>1, <2>2, <3>1 DEF OrphansPending
      <3>4. \A x \in channel'[z]["REDEMPTION"].pkts :
              e \in x.eurs /\ u \in x.users => x.state = "ok"
        BY <1>1, <1>2, <1>9, <2>1, <2>3
      <3> QED
        BY <3>1, <3>2, <3>3, <3>4
    <2> QED
      BY <1>4, <1>7, <1>9, <2>4 DEF PaidOnce
  <1>10. paid' = paid \/ (p.kind = "claim" /\ result = "ok" /\ paid' = paid \cup Keys(z, p))
    BY DEF ExecuteICA, host
  <1> QED
    BY <1>1, <1>6, <1>8, <1>9, <1>10 DEF StoresInv

\* A packet after a tick of the host.
Aged(p) == IF p.kind = "undelegate" /\ p.state = "ok" THEN [p EXCEPT !.left = Passed(@)] ELSE p

LEMMA AgedSame ==
    ASSUME NEW p \in Packet
    PROVE  Aged(p) \in Packet /\ Same(Aged(p), p) /\ Aged(p).state = p.state
  <1>1. \A t \in Times : Passed(t) \in Times
    BY DEF Passed
  <1> QED
    BY <1>1 DEF Aged, Packet, Same

AgedAll(S) == {Aged(p) : p \in S}

LEMMA AgedDerived ==
    ASSUME NEW S \in SUBSET Packet, IsFiniteSet(S)
    PROVE  /\ AgedAll(S) \in SUBSET Packet
           /\ IsFiniteSet(AgedAll(S))
           /\ Derived(AgedAll(S), S)
           /\ \A q \in AgedAll(S) : \E p \in S : Same(q, p) /\ q.state = p.state
  <1> DEFINE f == [p \in S |-> Aged(p)]
             new == {Aged(p) : p \in S}
  <1>1. \A p \in S : Aged(p) \in Packet /\ Same(Aged(p), p) /\ Aged(p).state = p.state
    BY AgedSame
  <1>2. IsFiniteSet(new)
    <2>1. f \in Surjection(S, new)
      BY DEF Surjection
    <2> QED
      BY <2>1, FS_Surjection
  <1>3. \A q \in new : \E p \in S : Same(q, p) /\ q.state = p.state
    BY <1>1
  <1>4. ASSUME NEW q1 \in new, NEW q2 \in new, q1 # q2
        PROVE  \E p1 \in S, p2 \in S : p1 # p2 /\ Same(q1, p1) /\ Same(q2, p2)
    <2>1. PICK p1 \in S : q1 = Aged(p1)
      OBVIOUS
    <2>2. PICK p2 \in S : q2 = Aged(p2)
      OBVIOUS
    <2>3. p1 # p2 /\ Same(q1, p1) /\ Same(q2, p2)
      BY <1>1, <1>4, <2>1, <2>2
    <2> QED
      BY <2>3
  <1>5. Derived(new, S)
    <2> HIDE DEF new
    <2> QED
      BY <1>3, <1>4 DEF Derived
  <1> QED
    BY <1>1, <1>2, <1>3, <1>5 DEF AgedAll

LEMMA TickStep ==
    ASSUME StoresInv, Tick
    PROVE  StoresInv'
  <1>1. /\ StoresTypeOK /\ PacketsWellFormed /\ RecordsWellFormed /\ PacketsMatch
        /\ OrphansPending /\ PaidOnce /\ UsersOwed
    BY DEF StoresInv
  <1>2. UNCHANGED <<current, urr, orphans, paid>>
    BY DEF Tick, ghosts
  <1>3. ASSUME NEW z \in Zones, NEW a \in Accounts
        PROVE  /\ channel'[z][a].pkts = AgedAll(channel[z][a].pkts)
               /\ channel'[z][a].state = channel[z][a].state
               /\ channel'[z][a] \in Channel
    <2>1. channel[z][a] \in Channel /\ channel[z][a].pkts \in SUBSET Packet
          /\ IsFiniteSet(channel[z][a].pkts)
      BY <1>1 DEF StoresTypeOK, Channel
    <2>2. channel'[z][a] = [channel[z][a] EXCEPT !.pkts = AgedAll(channel[z][a].pkts)]
      BY DEF Tick, Aged, AgedAll
    <2>3. AgedAll(channel[z][a].pkts) \in SUBSET Packet
      BY <2>1, AgedDerived
    <2> QED
      BY <2>1, <2>2, <2>3 DEF Channel
  <1>4. channel' \in [Zones -> [Accounts -> Channel]]
    <2>1. channel' = [z \in Zones |-> [a \in Accounts |-> channel'[z][a]]]
      BY DEF Tick
    <2> QED
      BY <1>3, <2>1
  <1>5. ASSUME NEW z \in Zones, NEW a \in Accounts
        PROVE  /\ IsFiniteSet(channel'[z][a].pkts)
               /\ Derived(channel'[z][a].pkts, channel[z][a].pkts)
               /\ \A q \in channel'[z][a].pkts :
                     \E p \in channel[z][a].pkts : Same(q, p) /\ q.state = p.state
    <2>1. channel[z][a].pkts \in SUBSET Packet /\ IsFiniteSet(channel[z][a].pkts)
      BY <1>1 DEF StoresTypeOK, Channel
    <2>2. channel'[z][a].pkts = AgedAll(channel[z][a].pkts)
      BY <1>3
    <2> QED
      BY <2>1, <2>2, AgedDerived
  <1>6. ASSUME NEW e \in Eurs, NEW z \in Zones
        PROVE  /\ hzu'[e][z] \in HostZoneUnbonding
               /\ hzu'[e][z].status = hzu[e][z].status
               /\ hzu'[e][z].native = hzu[e][z].native
               /\ hzu'[e][z].st = hzu[e][z].st
    <2>1. hzu[e][z] \in HostZoneUnbonding
      BY <1>1 DEF StoresTypeOK
    <2>2. hzu'[e][z] = hzu[e][z] \/ hzu'[e][z] = [hzu[e][z] EXCEPT !.left = Passed(hzu[e][z].left)]
      BY DEF Tick
    <2>3. Passed(hzu[e][z].left) \in Times
      BY <2>1 DEF HostZoneUnbonding, Passed
    <2> QED
      BY <2>1, <2>2, <2>3 DEF HostZoneUnbonding
  <1>7. hzu' \in [Eurs -> [Zones -> HostZoneUnbonding]]
    <2>1. hzu' = [e \in Eurs |-> [z \in Zones |-> hzu'[e][z]]]
      BY DEF Tick
    <2> QED
      BY <1>6, <2>1
  <1>8. StoresTypeOK'
    BY <1>1, <1>2, <1>4, <1>5, <1>7 DEF StoresTypeOK
  <1>9. StoresKept
    BY <1>2, <1>6 DEF StoresKept
  <1>10. ChannelsDerived
    BY <1>1, <1>3, <1>5 DEF ChannelsDerived, PacketsWellFormed, Derived
  <1>11. PacketsWellFormed' /\ RecordsWellFormed' /\ PacketsMatch' /\ OrphansPending' /\ UsersOwed'
    BY <1>1, <1>2, <1>9, <1>10, DerivedWellFormed, KeptRecords, KeptMatches, DerivedOrphans
  <1>12. PaidOnce'
    <2> SUFFICES ASSUME NEW k \in paid
                 PROVE  /\ urr[k.eur][k.zone][k.user].pending
                        /\ k \notin orphans
                        /\ \A q \in channel'[k.zone]["REDEMPTION"].pkts :
                             k.eur \in q.eurs /\ k.user \in q.users => q.state = "ok"
      BY <1>2 DEF PaidOnce
    <2>1. k.zone \in Zones /\ "REDEMPTION" \in Accounts
      BY <1>1 DEF StoresTypeOK, Key, Accounts
    <2>2. \A q \in channel'[k.zone]["REDEMPTION"].pkts :
             \E p \in channel[k.zone]["REDEMPTION"].pkts : Same(q, p) /\ q.state = p.state
      BY <1>5, <2>1
    <2> QED
      BY <1>1, <2>2 DEF PaidOnce, Same
  <1> QED
    BY <1>8, <1>11, <1>12 DEF StoresInv

-----------------------------------------------------------------------------
(* Claims *)

\* One user record is assigned.
SetUser(e, z, u, r) == urr' = [urr EXCEPT ![e][z][u] = r]

LEMMA UserSet ==
    ASSUME StoresTypeOK, NEW e \in Eurs, NEW z \in Zones, NEW u \in Users,
           NEW r \in UserRedemptionRecord, SetUser(e, z, u, r)
    PROVE  /\ urr' \in [Eurs -> [Zones -> [Users -> UserRedemptionRecord]]]
           /\ urr'[e][z][u] = r
           /\ \A f \in Eurs, y \in Zones, v \in Users :
                ~(f = e /\ y = z /\ v = u) => urr'[f][y][v] = urr[f][y][v]
  <1>1. urr \in [Eurs -> [Zones -> [Users -> UserRedemptionRecord]]]
    BY DEF StoresTypeOK
  <1> QED
    BY <1>1 DEF SetUser

\* The packet of a claim.
ClaimPacket(e, u, n, i) ==
    [kind |-> "claim", eurs |-> {e}, users |-> {u}, amount |-> n,
     seq |-> i, state |-> "sent", left |-> 0]

LEMMA ClaimEffect ==
    ASSUME StoresInv, NEW e \in Eurs, NEW z \in Zones, NEW u \in Users,
           ClaimUndelegatedTokens(e, z, u)
    PROVE  /\ hzu[e][z].status = "CLAIMABLE" /\ ~urr[e][z][u].pending /\ urr[e][z][u].amount > 0
           /\ urr' \in [Eurs -> [Zones -> [Users -> UserRedemptionRecord]]]
           /\ urr'[e][z][u].pending /\ urr'[e][z][u].amount = urr[e][z][u].amount
           /\ \A f \in Eurs, y \in Zones, v \in Users :
                ~(f = e /\ y = z /\ v = u) => urr'[f][y][v] = urr[f][y][v]
           /\ \E i \in Int : LET new == ClaimPacket(e, u, urr[e][z][u].amount, i) IN
                /\ new \in Packet
                /\ SetPackets(z, "REDEMPTION", channel[z]["REDEMPTION"].pkts \cup {new})
           /\ channel[z]["REDEMPTION"].state = "OPEN"
  <1> DEFINE old == urr[e][z][u]
             new == [old EXCEPT !.pending = TRUE]
  <1>1. StoresTypeOK /\ old \in UserRedemptionRecord
    BY DEF StoresInv, StoresTypeOK
  <1>2. new \in UserRedemptionRecord /\ new.pending /\ new.amount = old.amount
    BY <1>1 DEF UserRedemptionRecord
  <1>3. SetUser(e, z, u, new)
    <2>1. urr' = [urr EXCEPT ![e][z][u].pending = TRUE]
      BY DEF ClaimUndelegatedTokens
    <2>2. urr \in [Eurs -> [Zones -> [Users -> UserRedemptionRecord]]]
      BY <1>1 DEF StoresTypeOK
    <2> QED
      BY <2>1, <2>2 DEF SetUser
  <1>4. hzu[e][z].status = "CLAIMABLE" /\ ~old.pending /\ old # NoRedemption
    BY DEF ClaimUndelegatedTokens, Claimable
  <1>5. old.amount > 0
    <2>1. old = [amount |-> old.amount, pending |-> old.pending] /\ old.amount \in Nat
      BY <1>1 DEF UserRedemptionRecord
    <2>2. old.pending = FALSE
      BY <1>1, <1>4 DEF UserRedemptionRecord
    <2>3. old.amount # 0
      BY <1>4, <2>1, <2>2, Zenon DEF NoRedemption
    <2> HIDE DEF old
    <2> QED
      BY <2>1, <2>3
  <1>6. /\ urr' \in [Eurs -> [Zones -> [Users -> UserRedemptionRecord]]]
        /\ urr'[e][z][u] = new
        /\ \A f \in Eurs, y \in Zones, v \in Users :
             ~(f = e /\ y = z /\ v = u) => urr'[f][y][v] = urr[f][y][v]
    <2> HIDE DEF new
    <2> QED
      BY <1>1, <1>2, <1>3, UserSet
  <1> DEFINE i == Cardinality(channel[z]["REDEMPTION"].pkts) + 1
             pkt == ClaimPacket(e, u, old.amount, i)
  <1>7. i \in Int
    BY <1>1, FS_CardinalityType DEF StoresTypeOK, Accounts
  <1>8. SetPackets(z, "REDEMPTION", channel[z]["REDEMPTION"].pkts \cup {pkt})
    BY DEF ClaimUndelegatedTokens, SetPackets, ClaimPacket
  <1>9. pkt \in Packet
    <2> HIDE DEF i
    <2> QED
      BY <1>1, <1>7, TimesZero DEF ClaimPacket, Packet, Kinds, UserRedemptionRecord
  <1>10. channel[z]["REDEMPTION"].state = "OPEN"
    BY DEF ClaimUndelegatedTokens
  <1>11. urr'[e][z][u].pending /\ urr'[e][z][u].amount = old.amount
    BY <1>2, <1>6
  <1> HIDE DEF i, new
  <1> QED
    BY <1>4, <1>5, <1>6, <1>7, <1>8, <1>9, <1>10, <1>11, Zenon

LEMMA ClaimStep ==
    ASSUME StoresInv, NEW e \in Eurs, NEW z \in Zones, NEW u \in Users,
           ClaimUndelegatedTokens(e, z, u)
    PROVE  StoresInv'
  <1>1. /\ StoresTypeOK /\ PacketsWellFormed /\ RecordsWellFormed /\ PacketsMatch
        /\ OrphansPending /\ PaidOnce /\ UsersOwed
    BY DEF StoresInv
  <1>2. /\ hzu[e][z].status = "CLAIMABLE" /\ ~urr[e][z][u].pending /\ urr[e][z][u].amount > 0
        /\ urr' \in [Eurs -> [Zones -> [Users -> UserRedemptionRecord]]]
        /\ urr'[e][z][u].pending /\ urr'[e][z][u].amount = urr[e][z][u].amount
        /\ channel[z]["REDEMPTION"].state = "OPEN"
    BY ClaimEffect
  <1>3. \A f \in Eurs, y \in Zones, v \in Users :
          ~(f = e /\ y = z /\ v = u) => urr'[f][y][v] = urr[f][y][v]
    BY ClaimEffect
  <1>4. PICK i \in Int : LET new == ClaimPacket(e, u, urr[e][z][u].amount, i) IN
          /\ new \in Packet
          /\ SetPackets(z, "REDEMPTION", channel[z]["REDEMPTION"].pkts \cup {new})
    BY ClaimEffect, Zenon
  <1> DEFINE old == channel[z]["REDEMPTION"].pkts
             new == ClaimPacket(e, u, urr[e][z][u].amount, i)
  <1>5. /\ new.kind = "claim" /\ new.eurs = {e} /\ new.users = {u} /\ new.state = "sent"
        /\ new.amount = urr[e][z][u].amount
    BY DEF ClaimPacket
  <1> HIDE DEF new
  <1>6. UNCHANGED <<current, hzu, orphans, paid>>
    BY DEF ClaimUndelegatedTokens, ghosts
  <1>7. old \in SUBSET Packet /\ IsFiniteSet(old) /\ "REDEMPTION" \in Accounts /\ "DELEGATION" \in Accounts
    BY <1>1 DEF StoresTypeOK, Channel, Accounts
  <1>8. /\ channel' \in [Zones -> [Accounts -> Channel]]
        /\ channel'[z]["REDEMPTION"].pkts = old \cup {new}
        /\ channel'[z]["REDEMPTION"].state = channel[z]["REDEMPTION"].state
        /\ \A y \in Zones, b \in Accounts : ~(y = z /\ b = "REDEMPTION") => channel'[y][b] = channel[y][b]
    <2>1. old \cup {new} \in SUBSET Packet
      BY <1>4, <1>7 DEF new
    <2>2. SetPackets(z, "REDEMPTION", old \cup {new})
      BY <1>4 DEF new
    <2> QED
      BY <1>1, <1>7, <2>1, <2>2, ChannelPackets
  <1>9. \A q \in old : ~(e \in q.eurs /\ u \in q.users)
    <2>1. \A q \in old : q.kind = "claim" /\ Matches(hzu, urr, z, q)
      BY <1>1, <1>7 DEF PacketsWellFormed, RedemptionShape, PacketsMatch
    <2> QED
      BY <1>2, <2>1 DEF Matches
  <1>10. \A y \in Zones, b \in Accounts : IsFiniteSet(channel'[y][b].pkts)
    <2>1. IsFiniteSet(old \cup {new})
      BY <1>7, FS_AddElement
    <2> QED
      BY <1>1, <1>8, <2>1 DEF StoresTypeOK
  <1>11. StoresTypeOK'
    BY <1>1, <1>2, <1>6, <1>8, <1>10 DEF StoresTypeOK
  <1>12. RedemptionShape(old \cup {new})
    <2>1. RedemptionShape(old)
      BY <1>1 DEF PacketsWellFormed
    <2> QED
      BY <1>5, <1>9, <2>1 DEF RedemptionShape
  <1>13. PacketsWellFormed'
    <2> SUFFICES ASSUME NEW y \in Zones
                 PROVE  /\ \A b \in Accounts : channel'[y][b].pkts # {} => channel'[y][b].state = "OPEN"
                        /\ DelegationShape(channel'[y]["DELEGATION"].pkts)
                        /\ RedemptionShape(channel'[y]["REDEMPTION"].pkts)
      BY DEF PacketsWellFormed
    <2>1. ASSUME NEW b \in Accounts, channel'[y][b].pkts # {}
          PROVE  channel'[y][b].state = "OPEN"
      <3>1. CASE y = z /\ b = "REDEMPTION"
        BY <1>2, <1>8, <3>1
      <3>2. CASE ~(y = z /\ b = "REDEMPTION")
        BY <1>1, <1>8, <2>1, <3>2 DEF PacketsWellFormed
      <3> QED
        BY <3>1, <3>2
    <2>2. DelegationShape(channel'[y]["DELEGATION"].pkts)
      BY <1>1, <1>7, <1>8 DEF PacketsWellFormed
    <2>3. RedemptionShape(channel'[y]["REDEMPTION"].pkts)
      BY <1>1, <1>7, <1>8, <1>12 DEF PacketsWellFormed
    <2> QED
      BY <2>1, <2>2, <2>3
  <1>14. RecordsWellFormed'
    <2>1. ASSUME NEW f \in Eurs, NEW y \in Zones, NEW v \in Users, urr'[f][y][v].pending
          PROVE  hzu[f][y].status = "CLAIMABLE" /\ urr'[f][y][v].amount > 0
      <3>1. CASE f = e /\ y = z /\ v = u
        BY <1>2, <3>1
      <3>2. CASE ~(f = e /\ y = z /\ v = u)
        BY <1>1, <1>3, <2>1, <3>2 DEF RecordsWellFormed
      <3> QED
        BY <3>1, <3>2
    <2> QED
      BY <1>1, <1>6, <2>1 DEF RecordsWellFormed
  <1>15. PacketsMatch'
    <2>1. ASSUME NEW y \in Zones, NEW b \in Accounts, NEW q \in channel[y][b].pkts
          PROVE  Matches(hzu', urr', y, q)
      <3>1. Matches(hzu, urr, y, q) /\ q.eurs \subseteq Eurs /\ q.users \subseteq Users
        BY <1>1 DEF StoresTypeOK, PacketsMatch, Channel, Packet
      <3>2. \A f \in q.eurs, v \in q.users : urr'[f][y][v] = urr[f][y][v]
        <4>1. CASE b = "DELEGATION"
          BY <1>1, <4>1 DEF PacketsWellFormed, DelegationShape
        <4>2. CASE b = "REDEMPTION"
          BY <1>3, <1>9, <3>1, <4>2
        <4> QED
          BY <4>1, <4>2 DEF Accounts
      <3> QED
        BY <1>6, <3>1, <3>2, MatchesKept
    <2>2. Matches(hzu', urr', z, new)
      BY <1>2, <1>5, <1>6 DEF Matches, Awaits
    <2>3. ASSUME NEW y \in Zones, NEW b \in Accounts
          PROVE  /\ Separate(channel'[y][b].pkts)
                 /\ \A q \in channel'[y][b].pkts : Matches(hzu', urr', y, q)
      <3>1. CASE y = z /\ b = "REDEMPTION"
        <4>1. Separate(old \cup {new})
          BY <1>12 DEF RedemptionShape, Separate
        <4> QED
          BY <1>8, <2>1, <2>2, <3>1, <4>1
      <3>2. CASE ~(y = z /\ b = "REDEMPTION")
        BY <1>1, <1>8, <2>1, <3>2 DEF PacketsMatch
      <3> QED
        BY <3>1, <3>2
    <2> QED
      BY <2>3, Zenon DEF PacketsMatch
  <1>16. ASSUME NEW k \in Key, urr[k.eur][k.zone][k.user].pending
         PROVE  /\ urr'[k.eur][k.zone][k.user].pending
                /\ \A q \in channel'[k.zone]["REDEMPTION"].pkts : k.eur \in q.eurs /\ k.user \in q.users
                      => q \in channel[k.zone]["REDEMPTION"].pkts
    <2>1. k.eur \in Eurs /\ k.zone \in Zones /\ k.user \in Users
      BY DEF Key
    <2>2. ~(k.eur = e /\ k.zone = z /\ k.user = u)
      BY <1>2, <1>16
    <2>3. urr'[k.eur][k.zone][k.user].pending
      BY <1>3, <1>16, <2>1, <2>2
    <2> QED
      BY <1>5, <1>7, <1>8, <2>1, <2>2, <2>3
  <1>17. OrphansPending'
    BY <1>1, <1>6, <1>16 DEF OrphansPending, StoresTypeOK
  <1>18. PaidOnce'
    BY <1>1, <1>6, <1>16 DEF PaidOnce, StoresTypeOK
  <1>19. UsersOwed'
    <2> SUFFICES ASSUME NEW f \in Eurs, NEW y \in Zones
                 PROVE  hzu'[f][y].native = SumFunctionOnSet(UserAmounts(urr', f, y), Users)
      BY DEF UsersOwed
    <2>1. \A v \in Users : urr'[f][y][v].amount = urr[f][y][v].amount
      BY <1>2, <1>3
    <2>2. UserAmounts(urr', f, y) = UserAmounts(urr, f, y)
      BY <2>1 DEF UserAmounts
    <2> QED
      BY <1>1, <1>6, <2>2 DEF UsersOwed
  <1> QED
    BY <1>11, <1>13, <1>14, <1>15, <1>17, <1>18, <1>19 DEF StoresInv

-----------------------------------------------------------------------------
(* Acknowledgements *)

\* The packets that are left move up.
MovedUp(S) == {[q EXCEPT !.seq = @ - 1] : q \in S}

LEMMA MovedUpDerived ==
    ASSUME NEW S \in SUBSET Packet, IsFiniteSet(S)
    PROVE  /\ MovedUp(S) \in SUBSET Packet
           /\ IsFiniteSet(MovedUp(S))
           /\ Derived(MovedUp(S), S)
           /\ \A q \in MovedUp(S) : \E p \in S : Same(q, p) /\ q.state = p.state
  <1> DEFINE Up(q) == [q EXCEPT !.seq = @ - 1]
             f == [q \in S |-> Up(q)]
             new == {Up(q) : q \in S}
  <1>1. \A p \in S : Up(p) \in Packet /\ Same(Up(p), p) /\ Up(p).state = p.state
    <2> SUFFICES ASSUME NEW p \in S PROVE Up(p) \in Packet /\ Same(Up(p), p) /\ Up(p).state = p.state
      OBVIOUS
    <2>1. p \in Packet /\ p.seq - 1 \in Int
      BY DEF Packet
    <2>2. \A i \in Int : /\ [p EXCEPT !.seq = i] \in Packet
                         /\ Same([p EXCEPT !.seq = i], p)
                         /\ [p EXCEPT !.seq = i].state = p.state
      BY <2>1 DEF Packet, Same
    <2> QED
      BY <2>1, <2>2
  <1> HIDE DEF Up
  <1>2. IsFiniteSet(new)
    <2>1. f \in Surjection(S, new)
      BY DEF Surjection
    <2> QED
      BY <2>1, FS_Surjection
  <1>3. \A q \in new : \E p \in S : Same(q, p) /\ q.state = p.state
    BY <1>1
  <1>4. ASSUME NEW q1 \in new, NEW q2 \in new, q1 # q2
        PROVE  \E p1 \in S, p2 \in S : p1 # p2 /\ Same(q1, p1) /\ Same(q2, p2)
    <2>1. PICK p1 \in S : q1 = Up(p1)
      OBVIOUS
    <2>2. PICK p2 \in S : q2 = Up(p2)
      OBVIOUS
    <2>3. p1 # p2 /\ Same(q1, p1) /\ Same(q2, p2)
      BY <1>1, <1>4, <2>1, <2>2
    <2> QED
      BY <2>3
  <1>5. Derived(new, S)
    <2> HIDE DEF new
    <2> QED
      BY <1>3, <1>4 DEF Derived
  <1>6. new = MovedUp(S)
    BY DEF MovedUp, Up
  <1>7. new \in SUBSET Packet
    BY <1>1
  <1> HIDE DEF new
  <1> QED
    BY <1>2, <1>3, <1>5, <1>6, <1>7

\* What an acknowledgement does to the channels.
LEMMA AckChannel ==
    ASSUME StoresInv, NEW z \in Zones, NEW a \in Accounts, NEW p \in channel[z][a].pkts,
           AckICA(z, a, p)
    PROVE  /\ p \in Packet
           /\ channel' \in [Zones -> [Accounts -> Channel]]
           /\ \A y \in Zones, b \in Accounts : IsFiniteSet(channel'[y][b].pkts)
           /\ ChannelsDerived
           /\ channel'[z][a].pkts = MovedUp(channel[z][a].pkts \ {p})
           /\ \A q \in channel'[z][a].pkts :
                \E x \in channel[z][a].pkts \ {p} : Same(q, x) /\ q.state = x.state
           /\ \A y \in Zones, b \in Accounts : ~(y = z /\ b = a) => channel'[y][b] = channel[y][b]
  <1> DEFINE old == channel[z][a].pkts
             rest == old \ {p}
  <1>1. StoresTypeOK /\ PacketsWellFormed
    BY DEF StoresInv
  <1>2. old \in SUBSET Packet /\ p \in Packet /\ IsFiniteSet(old)
    BY <1>1 DEF StoresTypeOK, Channel
  <1>3. rest \in SUBSET Packet /\ IsFiniteSet(rest)
    BY <1>2, FS_RemoveElement
  <1>4. SetPackets(z, a, MovedUp(rest))
    BY DEF AckICA, SetPackets, MovedUp
  <1> HIDE DEF rest
  <1>5. /\ MovedUp(rest) \in SUBSET Packet /\ IsFiniteSet(MovedUp(rest))
        /\ Derived(MovedUp(rest), rest)
        /\ \A q \in MovedUp(rest) : \E x \in rest : Same(q, x) /\ q.state = x.state
    BY <1>3, MovedUpDerived
  <1>6. /\ channel' \in [Zones -> [Accounts -> Channel]]
        /\ channel'[z][a].pkts = MovedUp(rest) /\ channel'[z][a].state = channel[z][a].state
        /\ \A y \in Zones, b \in Accounts : ~(y = z /\ b = a) => channel'[y][b] = channel[y][b]
    BY <1>1, <1>4, <1>5, ChannelPackets
  <1>7. Derived(MovedUp(rest), old)
    BY <1>5 DEF Derived, rest
  <1>8. ChannelsDerived
    <2>1. \A S : Derived(S, S)
      BY Zenon DEF Derived, Same
    <2>2. channel'[z][a].state = "OPEN"
      BY <1>6 DEF AckICA
    <2>3. ASSUME NEW y \in Zones, NEW b \in Accounts
          PROVE  /\ Derived(channel'[y][b].pkts, channel[y][b].pkts)
                 /\ channel'[y][b].pkts # {} => channel'[y][b].state = "OPEN"
      <3>1. CASE y = z /\ b = a
        BY <1>6, <1>7, <2>2, <3>1
      <3>2. CASE ~(y = z /\ b = a)
        BY <1>1, <1>6, <2>1, <3>2 DEF PacketsWellFormed
      <3> QED
        BY <3>1, <3>2
    <2> QED
      BY <2>3, Zenon DEF ChannelsDerived
  <1>9. \A y \in Zones, b \in Accounts : IsFiniteSet(channel'[y][b].pkts)
    BY <1>1, <1>5, <1>6 DEF StoresTypeOK
  <1> QED
    BY <1>2, <1>5, <1>6, <1>8, <1>9 DEF rest

\* The records of a zone that were in progress get another status.
StatusesSet(z, S) ==
    /\ current' = current /\ urr' = urr
    /\ hzu' \in [Eurs -> [Zones -> HostZoneUnbonding]]
    /\ \A e \in Eurs, y \in Zones :
         /\ hzu'[e][y].native = hzu[e][y].native
         /\ hzu'[e][y].st = hzu[e][y].st
         /\ ~(e \in S /\ y = z) => hzu'[e][y].status = hzu[e][y].status
    /\ \A e \in S :
         /\ hzu[e][z].status \in {"UNBONDING_IN_PROGRESS", "EXIT_TRANSFER_IN_PROGRESS"}
         /\ hzu'[e][z].status \in {"UNBONDING_QUEUE", "EXIT_TRANSFER_QUEUE", "CLAIMABLE"}

LEMMA StatusRecords ==
    ASSUME StoresTypeOK, RecordsWellFormed, UsersOwed, NEW z \in Zones, NEW S \in SUBSET Eurs,
           StatusesSet(z, S)
    PROVE  RecordsWellFormed' /\ UsersOwed'
  <1>1. ASSUME NEW y \in Zones
        PROVE  hzu'[current'][y].status \in {"NONE", "UNBONDING_QUEUE"}
    <2>1. current \in Eurs /\ hzu[current][y].status \in {"NONE", "UNBONDING_QUEUE"}
      BY DEF StoresTypeOK, RecordsWellFormed
    <2>2. ~(current \in S /\ y = z)
      BY <2>1 DEF StatusesSet
    <2> QED
      BY <2>1, <2>2 DEF StatusesSet
  <1>2. ASSUME NEW e \in Eurs, NEW y \in Zones
        PROVE  /\ hzu'[e][y].status = "NONE" => hzu'[e][y].native = 0 /\ hzu'[e][y].st = 0
               /\ hzu'[e][y].status = "UNBONDING_QUEUE" /\ hzu'[e][y].native = 0 => hzu'[e][y].st = 0
               /\ hzu'[e][y].status \in {"UNBONDING_IN_PROGRESS", "EXIT_TRANSFER_QUEUE",
                                         "EXIT_TRANSFER_IN_PROGRESS"} => hzu'[e][y].native > 0
    <2>1. CASE e \in S /\ y = z
      <3>1. hzu[e][y].native > 0 /\ hzu'[e][y].native = hzu[e][y].native /\ hzu[e][y].native \in Nat
        BY <2>1 DEF StatusesSet, RecordsWellFormed, StoresTypeOK, HostZoneUnbonding
      <3>2. hzu'[e][y].status # "NONE"
        BY <2>1 DEF StatusesSet
      <3> QED
        BY <3>1, <3>2
    <2>2. CASE ~(e \in S /\ y = z)
      BY <2>2 DEF StatusesSet, RecordsWellFormed
    <2> QED
      BY <2>1, <2>2
  <1>3. ASSUME NEW e \in Eurs, NEW y \in Zones, NEW v \in Users, urr'[e][y][v].pending
        PROVE  hzu'[e][y].status = "CLAIMABLE" /\ urr'[e][y][v].amount > 0
    <2>1. urr[e][y][v].pending /\ hzu[e][y].status = "CLAIMABLE" /\ urr'[e][y][v].amount > 0
      BY <1>3 DEF StatusesSet, RecordsWellFormed
    <2>2. ~(e \in S /\ y = z)
      BY <2>1 DEF StatusesSet
    <2> QED
      BY <2>1, <2>2 DEF StatusesSet
  <1>4. UsersOwed'
    BY DEF UsersOwed, StatusesSet
  <1> QED
    BY <1>1, <1>2, <1>3, <1>4, Zenon DEF RecordsWellFormed

LEMMA StatusMatches ==
    ASSUME NEW z \in Zones, NEW S \in SUBSET Eurs, StatusesSet(z, S),
           NEW y \in Zones, NEW q \in Packet, Matches(hzu, urr, y, q),
           y = z => q.eurs \cap S = {}
    PROVE  Matches(hzu', urr', y, q)
  <1>1. q.eurs \subseteq Eurs
    BY DEF Packet
  <1>2. \A e \in q.eurs : hzu'[e][y].status = hzu[e][y].status
    BY <1>1 DEF StatusesSet
  <1>3. \A e \in q.eurs : hzu'[e][y].native = hzu[e][y].native
    BY <1>1 DEF StatusesSet
  <1>4. \A e \in q.eurs, u \in q.users : urr'[e][y][u] = urr[e][y][u]
    BY DEF StatusesSet
  <1> QED
    BY <1>2, <1>3, <1>4, MatchesKept

RecordStore == [Eurs -> [Zones -> HostZoneUnbonding]]

LEMMA SetStatus ==
    ASSUME NEW g \in RecordStore, NEW z \in Zones, NEW S \in SUBSET Eurs, NEW s \in Statuses
    PROVE  /\ SetHostZoneUnbondings(g, z, S, s) \in RecordStore
           /\ \A e \in Eurs, y \in Zones :
                /\ SetHostZoneUnbondings(g, z, S, s)[e][y].native = g[e][y].native
                /\ SetHostZoneUnbondings(g, z, S, s)[e][y].st = g[e][y].st
                /\ SetHostZoneUnbondings(g, z, S, s)[e][y].left = g[e][y].left
                /\ SetHostZoneUnbondings(g, z, S, s)[e][y].status =
                     IF e \in S /\ y = z THEN s ELSE g[e][y].status
  <1> DEFINE h == SetHostZoneUnbondings(g, z, S, s)
  <1>1. ASSUME NEW e \in Eurs, NEW y \in Zones
        PROVE  /\ h[e][y] \in HostZoneUnbonding
               /\ h[e][y].native = g[e][y].native /\ h[e][y].st = g[e][y].st
               /\ h[e][y].left = g[e][y].left
               /\ h[e][y].status = IF e \in S /\ y = z THEN s ELSE g[e][y].status
    <2>1. g[e][y] \in HostZoneUnbonding
      BY DEF RecordStore
    <2>2. h[e][y] = IF e \in S /\ y = z THEN [g[e][y] EXCEPT !.status = s] ELSE g[e][y]
      BY DEF SetHostZoneUnbondings
    <2> HIDE DEF h
    <2> QED
      BY <2>1, <2>2 DEF HostZoneUnbonding
  <1>2. h = [e \in Eurs |-> [y \in Zones |-> h[e][y]]]
    BY DEF SetHostZoneUnbondings
  <1> HIDE DEF h
  <1>3. h \in RecordStore
    BY <1>1, <1>2 DEF RecordStore
  <1> QED
    BY <1>1, <1>3 DEF h

StatusIs(h, g, z, S, s) ==
    /\ h \in RecordStore
    /\ \A e \in Eurs, y \in Zones :
         /\ h[e][y].native = g[e][y].native
         /\ h[e][y].st = g[e][y].st
         /\ h[e][y].left = g[e][y].left
         /\ h[e][y].status = IF e \in S /\ y = z THEN s ELSE g[e][y].status

LEMMA SetStatusIs ==
    ASSUME NEW g \in RecordStore, NEW z \in Zones, NEW S \in SUBSET Eurs, NEW s \in Statuses
    PROVE  StatusIs(SetHostZoneUnbondings(g, z, S, s), g, z, S, s)
    BY SetStatus DEF StatusIs

LEMMA AckRecordStatuses ==
    ASSUME StoresInv, NEW z \in Zones, NEW a \in Accounts, NEW p \in channel[z][a].pkts,
           AckICA(z, a, p), p.kind \in {"undelegate", "redemption"}
    PROVE  StatusesSet(z, p.eurs) /\ UNCHANGED <<orphans, paid>> /\ a = "DELEGATION"
  <1>1. StoresTypeOK /\ PacketsWellFormed /\ PacketsMatch
    BY DEF StoresInv
  <1>2. p \in Packet /\ p.eurs \in SUBSET Eurs /\ p.kind \in {"undelegate", "redemption"}
    BY <1>1 DEF StoresTypeOK, Channel, Packet, Kinds
  <1>3. a = "DELEGATION"
    BY <1>1 DEF PacketsWellFormed, RedemptionShape, Accounts
  <1>4. hzu \in RecordStore
    BY <1>1 DEF StoresTypeOK, RecordStore
  <1>5. UNCHANGED <<orphans, paid, current, urr>>
    BY <1>2 DEF AckICA
  <1>6. \A e \in p.eurs : hzu[e][z].status = Awaits(p)
    BY <1>1 DEF PacketsMatch, Matches
  <1>7. Awaits(p) \in {"UNBONDING_IN_PROGRESS", "EXIT_TRANSFER_IN_PROGRESS"}
    BY <1>2 DEF Awaits
  <1>8. \E g \in RecordStore, s \in {"UNBONDING_QUEUE", "EXIT_TRANSFER_QUEUE", "CLAIMABLE"} :
          /\ \A e \in Eurs, y \in Zones :
               /\ g[e][y].status = hzu[e][y].status
               /\ g[e][y].native = hzu[e][y].native
               /\ g[e][y].st = hzu[e][y].st
          /\ hzu' = SetHostZoneUnbondings(g, z, p.eurs, s)
    <2>1. CASE p.kind = "redemption"
      <3> DEFINE s == IF p.state = "ok" THEN "CLAIMABLE" ELSE "EXIT_TRANSFER_QUEUE"
      <3>1. hzu' = SetHostZoneUnbondings(hzu, z, p.eurs, s)
        BY <2>1 DEF AckICA, RedemptionCallback
      <3>2. s \in {"UNBONDING_QUEUE", "EXIT_TRANSFER_QUEUE", "CLAIMABLE"}
        OBVIOUS
      <3> HIDE DEF s
      <3> QED
        BY <1>4, <3>1, <3>2, Zenon
    <2>2. CASE p.kind = "undelegate" /\ p.state # "ok"
      <3>1. hzu' = SetHostZoneUnbondings(hzu, z, p.eurs, "UNBONDING_QUEUE")
        BY <2>2 DEF AckICA, UndelegateCallback
      <3> QED
        BY <1>4, <3>1, Zenon
    <2>3. CASE p.kind = "undelegate" /\ p.state = "ok"
      <3> DEFINE g == [e \in Eurs |-> [y \in Zones |->
                        IF e \in p.eurs /\ y = z THEN [hzu[e][y] EXCEPT !.left = p.left]
                        ELSE hzu[e][y]]]
      <3>1. hzu' = SetHostZoneUnbondings(g, z, p.eurs, "EXIT_TRANSFER_QUEUE")
        BY <2>3 DEF AckICA, UndelegateCallback
      <3>2. ASSUME NEW e \in Eurs, NEW y \in Zones
            PROVE  /\ g[e][y] \in HostZoneUnbonding
                   /\ g[e][y].status = hzu[e][y].status
                   /\ g[e][y].native = hzu[e][y].native
                   /\ g[e][y].st = hzu[e][y].st
        <4>1. hzu[e][y] \in HostZoneUnbonding /\ p.left \in Times
          BY <1>2, <1>4 DEF RecordStore, Packet
        <4>2. g[e][y] = hzu[e][y] \/ g[e][y] = [hzu[e][y] EXCEPT !.left = p.left]
          OBVIOUS
        <4> HIDE DEF g
        <4> QED
          BY <4>1, <4>2 DEF HostZoneUnbonding
      <3>3. g \in RecordStore
        <4>1. g = [e \in Eurs |-> [y \in Zones |-> g[e][y]]]
          OBVIOUS
        <4> HIDE DEF g
        <4> QED
          BY <3>2, <4>1 DEF RecordStore
      <3> HIDE DEF g
      <3> QED
        BY <3>1, <3>2, <3>3, Zenon
    <2> QED
      BY <1>2, <2>1, <2>2, <2>3
  <1>9. PICK g \in RecordStore, s \in {"UNBONDING_QUEUE", "EXIT_TRANSFER_QUEUE", "CLAIMABLE"} :
          /\ \A e \in Eurs, y \in Zones :
               /\ g[e][y].status = hzu[e][y].status
               /\ g[e][y].native = hzu[e][y].native
               /\ g[e][y].st = hzu[e][y].st
          /\ hzu' = SetHostZoneUnbondings(g, z, p.eurs, s)
    BY <1>8, Zenon
  <1>10. s \in Statuses
    BY DEF Statuses
  <1>11. /\ hzu' \in RecordStore
         /\ \A e \in Eurs, y \in Zones :
              /\ hzu'[e][y].native = g[e][y].native
              /\ hzu'[e][y].st = g[e][y].st
              /\ hzu'[e][y].status = IF e \in p.eurs /\ y = z THEN s ELSE g[e][y].status
    <2>1. StatusIs(SetHostZoneUnbondings(g, z, p.eurs, s), g, z, p.eurs, s)
      BY <1>2, <1>10, SetStatusIs
    <2> QED
      BY <1>9, <2>1 DEF StatusIs
  <1>12. \A e \in p.eurs :
            /\ hzu[e][z].status \in {"UNBONDING_IN_PROGRESS", "EXIT_TRANSFER_IN_PROGRESS"}
            /\ hzu'[e][z].status \in {"UNBONDING_QUEUE", "EXIT_TRANSFER_QUEUE", "CLAIMABLE"}
    BY <1>2, <1>6, <1>7, <1>11
  <1> QED
    BY <1>3, <1>5, <1>9, <1>11, <1>12 DEF StatusesSet, RecordStore

\* The acknowledgement of a delegation is for no records.
LEMMA AckStatuses ==
    ASSUME StoresInv, NEW z \in Zones, NEW a \in Accounts, NEW p \in channel[z][a].pkts,
           AckICA(z, a, p), p.kind # "claim"
    PROVE  StatusesSet(z, p.eurs) /\ UNCHANGED <<orphans, paid>> /\ a = "DELEGATION"
  <1>1. StoresTypeOK /\ PacketsWellFormed
    BY DEF StoresInv
  <1>2. p.kind \in Kinds
    BY <1>1 DEF StoresTypeOK, Channel, Packet
  <1>3. CASE p.kind \in {"undelegate", "redemption"}
    BY <1>3, AckRecordStatuses
  <1>4. CASE p.kind = "delegate"
    <2>1. a = "DELEGATION"
      BY <1>1, <1>4 DEF PacketsWellFormed, RedemptionShape, Accounts
    <2>2. p.eurs = {}
      BY <1>1, <1>4, <2>1 DEF PacketsWellFormed, DelegationShape
    <2>3. UNCHANGED <<current, hzu, urr, orphans, paid>>
      BY <1>4 DEF AckICA
    <2> QED
      BY <1>1, <2>1, <2>2, <2>3 DEF StatusesSet, StoresTypeOK
  <1> QED
    BY <1>2, <1>3, <1>4 DEF Kinds

LEMMA AckDelegationStep ==
    ASSUME StoresInv, NEW z \in Zones, NEW a \in Accounts, NEW p \in channel[z][a].pkts,
           AckICA(z, a, p), p.kind # "claim"
    PROVE  StoresInv'
  <1>1. /\ StoresTypeOK /\ PacketsWellFormed /\ RecordsWellFormed /\ PacketsMatch
        /\ OrphansPending /\ PaidOnce /\ UsersOwed
    BY DEF StoresInv
  <1>2. StatusesSet(z, p.eurs) /\ UNCHANGED <<orphans, paid>> /\ a = "DELEGATION"
    BY AckStatuses
  <1>3. /\ p \in Packet
        /\ channel' \in [Zones -> [Accounts -> Channel]]
        /\ \A y \in Zones, b \in Accounts : IsFiniteSet(channel'[y][b].pkts)
        /\ ChannelsDerived
        /\ \A q \in channel'[z][a].pkts :
             \E x \in channel[z][a].pkts \ {p} : Same(q, x) /\ q.state = x.state
    BY AckChannel
  <1>4. \A y \in Zones, b \in Accounts : ~(y = z /\ b = a) => channel'[y][b] = channel[y][b]
    BY AckChannel
  <1>5. p.eurs \in SUBSET Eurs
    BY <1>3 DEF Packet
  <1>6. urr' = urr /\ current' = current /\ hzu' \in [Eurs -> [Zones -> HostZoneUnbonding]]
    BY <1>2 DEF StatusesSet
  <1>7. StoresTypeOK'
    BY <1>1, <1>2, <1>3, <1>6 DEF StoresTypeOK
  <1>8. PacketsWellFormed' /\ \A y \in Zones, b \in Accounts : Separate(channel'[y][b].pkts)
    BY <1>1, <1>3, DerivedWellFormed
  <1>9. RecordsWellFormed' /\ UsersOwed'
    BY <1>1, <1>2, <1>5, StatusRecords
  <1>10. ASSUME NEW y \in Zones, NEW b \in Accounts, NEW q \in channel[y][b].pkts,
                ~(y = z /\ b = a /\ q = p)
         PROVE  Matches(hzu', urr', y, q)
    <2>1. q \in Packet /\ Matches(hzu, urr, y, q)
      BY <1>1 DEF StoresTypeOK, PacketsMatch, Channel
    <2>2. ASSUME y = z PROVE q.eurs \cap p.eurs = {}
      <3>1. CASE b = a
        BY <1>1, <1>10, <2>2, <3>1 DEF PacketsMatch, Separate
      <3>2. CASE b # a
        <4>1. b = "REDEMPTION"
          BY <1>2, <3>2 DEF Accounts
        <4>2. q.kind = "claim"
          BY <1>1, <4>1 DEF PacketsWellFormed, RedemptionShape
        <4>3. \A e \in q.eurs : hzu[e][z].status = "CLAIMABLE"
          BY <2>1, <2>2, <4>2 DEF Matches, Awaits
        <4>4. \A e \in p.eurs : hzu[e][z].status # "CLAIMABLE"
          BY <1>2 DEF StatusesSet
        <4> QED
          BY <4>3, <4>4
      <3> QED
        BY <3>1, <3>2
    <2> QED
      BY <1>2, <1>5, <2>1, <2>2, StatusMatches
  <1>11. PacketsMatch'
    <2>1. ASSUME NEW y \in Zones, NEW b \in Accounts, NEW q \in channel'[y][b].pkts
          PROVE  Matches(hzu', urr', y, q)
      <3>1. CASE y = z /\ b = a
        <4>1. PICK x \in channel[z][a].pkts \ {p} : Same(q, x)
          BY <1>3, <3>1
        <4>2. Matches(hzu', urr', z, x)
          BY <1>10, <4>1
        <4> QED
          BY <3>1, <4>1, <4>2, SameMatches
      <3>2. CASE ~(y = z /\ b = a)
        BY <1>4, <1>10, <3>2
      <3> QED
        BY <3>1, <3>2
    <2> QED
      BY <1>8, <2>1 DEF PacketsMatch
  <1>12. OrphansPending'
    BY <1>1, <1>2, <1>3, <1>6, DerivedOrphans
  <1>13. PaidOnce'
    <2> SUFFICES ASSUME NEW k \in paid
                 PROVE  channel'[k.zone]["REDEMPTION"] = channel[k.zone]["REDEMPTION"]
      BY <1>1, <1>2, <1>6 DEF PaidOnce
    <2>1. k.zone \in Zones /\ "REDEMPTION" \in Accounts
      BY <1>1 DEF StoresTypeOK, Key, Accounts
    <2> QED
      BY <1>2, <1>4, <2>1
  <1> QED
    BY <1>7, <1>8, <1>9, <1>11, <1>12, <1>13 DEF StoresInv

-----------------------------------------------------------------------------
(* The callback of a claim, acknowledged or timed out *)

\* What the callback does to the stores, if the claim was pending.
LEMMA ClaimCallbackEffect ==
    ASSUME StoresInv, NEW k \in Key, urr[k.eur][k.zone][k.user].pending,
           NEW state, ClaimCallback(k, state)
    PROVE  /\ urr' \in [Eurs -> [Zones -> [Users -> UserRedemptionRecord]]]
           /\ ~urr'[k.eur][k.zone][k.user].pending
           /\ \A e \in Eurs, y \in Zones, v \in Users :
                ~(e = k.eur /\ y = k.zone /\ v = k.user) => urr'[e][y][v] = urr[e][y][v]
           /\ hzu' \in RecordStore
           /\ \A e \in Eurs, y \in Zones :
                /\ hzu'[e][y].status = hzu[e][y].status
                /\ hzu'[e][y].st = hzu[e][y].st
                /\ hzu'[e][y].left = hzu[e][y].left
                /\ ~(e = k.eur /\ y = k.zone) => hzu'[e][y].native = hzu[e][y].native
           /\ hzu'[k.eur][k.zone].native = hzu[k.eur][k.zone].native
                - (IF state = "ok" THEN urr[k.eur][k.zone][k.user].amount ELSE 0)
           /\ paid' = IF state = "ok" THEN paid \ {k} ELSE paid
           /\ UsersOwed'
  <1> DEFINE e0 == k.eur
             z0 == k.zone
             u0 == k.user
             old == urr[e0][z0][u0]
             new == IF state = "ok" THEN NoRedemption ELSE [old EXCEPT !.pending = FALSE]
             sum(r, e, y) == SumFunctionOnSet(UserAmounts(r, e, y), Users)
  <1>1. StoresTypeOK /\ UsersOwed
    BY DEF StoresInv
  <1>2. e0 \in Eurs /\ z0 \in Zones /\ u0 \in Users
    BY DEF Key
  <1>3. old \in UserRedemptionRecord /\ hzu \in RecordStore
        /\ urr \in [Eurs -> [Zones -> [Users -> UserRedemptionRecord]]]
    BY <1>1, <1>2 DEF StoresTypeOK, RecordStore
  <1>4. new \in UserRedemptionRecord /\ ~new.pending
        /\ new.amount = old.amount - (IF state = "ok" THEN old.amount ELSE 0)
    <2>1. CASE state = "ok"
      BY <1>3, <2>1 DEF NoRedemption, UserRedemptionRecord
    <2>2. CASE state # "ok"
      <3>1. new = [old EXCEPT !.pending = FALSE]
        BY <2>2
      <3>2. new \in UserRedemptionRecord /\ new.pending = FALSE /\ new.amount = old.amount
            /\ old.amount \in Nat
        <4> HIDE DEF new, old
        <4> QED
          BY <1>3, <3>1 DEF UserRedemptionRecord
      <3> HIDE DEF new, old
      <3> QED
        BY <2>2, <3>2
    <2> QED
      BY <2>1, <2>2
  <1>5. SetUser(e0, z0, u0, new)
    <2>1. CASE state = "ok"
      BY <2>1 DEF ClaimCallback, SetUser
    <2>2. CASE state # "ok"
      <3>1. urr' = [urr EXCEPT ![e0][z0][u0].pending = FALSE]
        BY <2>2 DEF ClaimCallback
      <3> QED
        BY <1>3, <2>2, <3>1 DEF SetUser
    <2> QED
      BY <2>1, <2>2
  <1>6. /\ urr' \in [Eurs -> [Zones -> [Users -> UserRedemptionRecord]]]
        /\ urr'[e0][z0][u0] = new
        /\ \A e \in Eurs, y \in Zones, v \in Users :
             ~(e = e0 /\ y = z0 /\ v = u0) => urr'[e][y][v] = urr[e][y][v]
    <2> HIDE DEF new, e0, z0, u0
    <2> QED
      BY <1>1, <1>2, <1>4, <1>5, UserSet
  <1>7. paid' = IF state = "ok" THEN paid \ {k} ELSE paid
    BY DEF ClaimCallback
  <1> DEFINE left == hzu[e0][z0].native - (IF state = "ok" THEN old.amount ELSE 0)
  <1>8. ASSUME NEW e \in Eurs, NEW y \in Zones
        PROVE  /\ sum(urr', e, y) \in Nat
               /\ sum(urr', e, y) = IF e = e0 /\ y = z0 THEN left ELSE hzu[e][y].native
    <2> DEFINE f == UserAmounts(urr, e, y)
               g == UserAmounts(urr', e, y)
    <2>1. hzu[e][y].native = SumFunctionOnSet(f, Users) /\ hzu[e][y].native \in Nat
      BY <1>1, <1>3 DEF UsersOwed, RecordStore, HostZoneUnbonding
    <2>2. \A v \in Users : f[v] = urr[e][y][v].amount /\ g[v] = urr'[e][y][v].amount
      BY DEF UserAmounts
    <2>3. (\A v \in Users : f[v] \in Nat) /\ (\A v \in Users : g[v] \in Nat)
      BY <1>3, <1>6, <2>2 DEF UserRedemptionRecord
    <2>4. \A v \in Users \ {u0} : g[v] = f[v]
      BY <1>6, <2>2
    <2> HIDE DEF f, g, new
    <2>5. (\A v \in Users : f[v] \in Int) /\ (\A v \in Users : g[v] \in Int)
      BY <2>3
    <2>6. SumFunctionOnSet(g, Users) = SumFunctionOnSet(f, Users) + g[u0] - f[u0]
      BY <1>2, <2>4, <2>5, OneUserSum
    <2>7. SumFunctionOnSet(g, Users) \in Nat
      BY <2>3, SumNat, UnbondingRecordsAssumption
    <2>8. ASSUME e = e0, y = z0
          PROVE  g[u0] - f[u0] = 0 - (IF state = "ok" THEN old.amount ELSE 0)
      <3>1. g[u0] = new.amount /\ f[u0] = old.amount /\ old.amount \in Nat
        BY <1>2, <1>3, <1>6, <2>2, <2>8 DEF UserRedemptionRecord
      <3> QED
        BY <1>4, <3>1
    <2>9. ASSUME ~(e = e0 /\ y = z0)
          PROVE  g[u0] = f[u0]
      BY <1>2, <1>6, <2>2, <2>9
    <2>10. g[u0] \in Nat /\ f[u0] \in Nat /\ old.amount \in Nat
      BY <1>2, <1>3, <2>3 DEF UserRedemptionRecord
    <2>11. SumFunctionOnSet(g, Users) = IF e = e0 /\ y = z0 THEN left ELSE hzu[e][y].native
      BY <2>1, <2>6, <2>8, <2>9, <2>10
    <2> QED
      BY <2>7, <2>11 DEF g
  <1>9. left \in Nat
    <2> HIDE DEF left
    <2> QED
      BY <1>2, <1>8
  <1>10. hzu' = [hzu EXCEPT ![e0][z0].native = left]
    <2>1. CASE state = "ok"
      <3>1. hzu' = [hzu EXCEPT ![e0][z0].native = @ - old.amount]
        BY <2>1 DEF ClaimCallback, DecrementHostZoneUnbonding, UserRecord
      <3> QED
        BY <2>1, <3>1
    <2>2. CASE state # "ok"
      <3>1. hzu' = hzu
        BY <2>2 DEF ClaimCallback
      <3>2. hzu[e0][z0] \in HostZoneUnbonding
        BY <1>2, <1>3 DEF RecordStore
      <3>3. left = hzu[e0][z0].native
        BY <2>2, <3>2 DEF HostZoneUnbonding
      <3>4. [hzu[e0][z0] EXCEPT !.native = left] = hzu[e0][z0]
        BY <3>2, <3>3 DEF HostZoneUnbonding
      <3>5. [hzu EXCEPT ![e0][z0] = hzu[e0][z0]] = hzu
        BY <1>2, <1>3 DEF RecordStore
      <3>6. [hzu EXCEPT ![e0][z0].native = left] = [hzu EXCEPT ![e0][z0] = hzu[e0][z0]]
        <4> HIDE DEF left
        <4> QED
          BY <3>4
      <3> QED
        BY <3>1, <3>5, <3>6
    <2> QED
      BY <2>1, <2>2
  <1> HIDE DEF left
  <1>11. /\ hzu' \in RecordStore
         /\ \A e \in Eurs, y \in Zones : ~(e = e0 /\ y = z0) => hzu'[e][y] = hzu[e][y]
         /\ hzu'[e0][z0].status = hzu[e0][z0].status /\ hzu'[e0][z0].st = hzu[e0][z0].st
         /\ hzu'[e0][z0].left = hzu[e0][z0].left /\ hzu'[e0][z0].native = left
    <2> DEFINE rec == [hzu[e0][z0] EXCEPT !.native = left]
    <2>1. hzu[e0][z0] \in HostZoneUnbonding
      BY <1>2, <1>3 DEF RecordStore
    <2>2. /\ rec \in HostZoneUnbonding /\ rec.native = left
          /\ rec.status = hzu[e0][z0].status /\ rec.st = hzu[e0][z0].st
          /\ rec.left = hzu[e0][z0].left
      BY <1>9, <2>1 DEF HostZoneUnbonding
    <2>3. hzu' = [hzu EXCEPT ![e0][z0] = rec]
      BY <1>10
    <2> HIDE DEF rec
    <2>4. hzu' \in RecordStore
      BY <1>2, <1>3, <2>2, <2>3 DEF RecordStore
    <2>5. hzu'[e0][z0] = rec /\ \A e \in Eurs, y \in Zones : ~(e = e0 /\ y = z0) => hzu'[e][y] = hzu[e][y]
      BY <1>2, <1>3, <2>3 DEF RecordStore
    <2> QED
      BY <2>2, <2>4, <2>5
  <1>12. UsersOwed'
    <2>1. \A e \in Eurs, y \in Zones : hzu'[e][y].native = sum(urr', e, y)
      BY <1>8, <1>11
    <2> QED
      BY <2>1 DEF UsersOwed
  <1>13. ~urr'[e0][z0][u0].pending
    BY <1>4, <1>6
  <1> QED
    BY <1>6, <1>7, <1>11, <1>12, <1>13 DEF left

\* The stores after the callback: only the claim's own user record and the
\* amount of its claimable record differ.
ClaimDone(k) ==
    /\ urr' \in [Eurs -> [Zones -> [Users -> UserRedemptionRecord]]]
    /\ hzu' \in RecordStore
    /\ \A e \in Eurs, y \in Zones, v \in Users :
         ~(e = k.eur /\ y = k.zone /\ v = k.user) => urr'[e][y][v] = urr[e][y][v]
    /\ \A e \in Eurs, y \in Zones : hzu'[e][y].status = hzu[e][y].status
    /\ \A e \in Eurs, y \in Zones :
         hzu[e][y].status # "CLAIMABLE" => hzu'[e][y].native = hzu[e][y].native

LEMMA ClaimCallbackRecords ==
    ASSUME StoresInv, NEW k \in Key, urr[k.eur][k.zone][k.user].pending,
           NEW state, ClaimCallback(k, state), current' = current
    PROVE  ClaimDone(k) /\ RecordsWellFormed' /\ UsersOwed'
  <1>1. RecordsWellFormed /\ k.eur \in Eurs /\ k.zone \in Zones /\ k.user \in Users /\ StoresTypeOK
    BY DEF StoresInv, Key
  <1>2. hzu[k.eur][k.zone].status = "CLAIMABLE"
    BY <1>1 DEF RecordsWellFormed
  <1>3. /\ urr' \in [Eurs -> [Zones -> [Users -> UserRedemptionRecord]]]
        /\ ~urr'[k.eur][k.zone][k.user].pending
        /\ hzu' \in RecordStore
        /\ UsersOwed'
    BY ClaimCallbackEffect
  <1>4. \A e \in Eurs, y \in Zones, v \in Users :
           ~(e = k.eur /\ y = k.zone /\ v = k.user) => urr'[e][y][v] = urr[e][y][v]
    BY ClaimCallbackEffect
  <1>5. \A e \in Eurs, y \in Zones :
           /\ hzu'[e][y].status = hzu[e][y].status
           /\ hzu'[e][y].st = hzu[e][y].st
           /\ ~(e = k.eur /\ y = k.zone) => hzu'[e][y].native = hzu[e][y].native
    BY ClaimCallbackEffect
  <1>6. ClaimDone(k)
    BY <1>2, <1>3, <1>4, <1>5 DEF ClaimDone
  <1>7. RecordsWellFormed'
    <2>1. \A y \in Zones : hzu'[current'][y].status \in {"NONE", "UNBONDING_QUEUE"}
      <3>1. current \in Eurs
        BY <1>1 DEF StoresTypeOK
      <3> QED
        BY <1>1, <1>5, <3>1 DEF RecordsWellFormed
    <2>2. ASSUME NEW e \in Eurs, NEW y \in Zones
          PROVE  /\ hzu'[e][y].status = "NONE" => hzu'[e][y].native = 0 /\ hzu'[e][y].st = 0
                 /\ hzu'[e][y].status = "UNBONDING_QUEUE" /\ hzu'[e][y].native = 0 => hzu'[e][y].st = 0
                 /\ hzu'[e][y].status \in {"UNBONDING_IN_PROGRESS", "EXIT_TRANSFER_QUEUE",
                                           "EXIT_TRANSFER_IN_PROGRESS"} => hzu'[e][y].native > 0
      <3>1. CASE e = k.eur /\ y = k.zone
        BY <1>2, <1>5, <3>1
      <3>2. CASE ~(e = k.eur /\ y = k.zone)
        BY <1>1, <1>5, <3>2 DEF RecordsWellFormed
      <3> QED
        BY <3>1, <3>2
    <2>3. ASSUME NEW e \in Eurs, NEW y \in Zones, NEW v \in Users, urr'[e][y][v].pending
          PROVE  hzu'[e][y].status = "CLAIMABLE" /\ urr'[e][y][v].amount > 0
      <3>1. ~(e = k.eur /\ y = k.zone /\ v = k.user)
        BY <1>3, <2>3
      <3>2. urr'[e][y][v] = urr[e][y][v] /\ hzu'[e][y].status = hzu[e][y].status
        BY <1>4, <1>5, <3>1
      <3> QED
        BY <1>1, <2>3, <3>2 DEF RecordsWellFormed
    <2> QED
      BY <2>1, <2>2, <2>3, Zenon DEF RecordsWellFormed
  <1> QED
    BY <1>3, <1>6, <1>7

\* The other packets still match.
LEMMA ClaimDoneMatches ==
    ASSUME StoresInv, NEW k \in Key, ClaimDone(k),
           NEW y \in Zones, NEW b \in Accounts, NEW q \in channel[y][b].pkts,
           ~(y = k.zone /\ k.eur \in q.eurs /\ k.user \in q.users)
    PROVE  Matches(hzu', urr', y, q)
  <1>1. /\ StoresTypeOK /\ PacketsWellFormed /\ PacketsMatch
    BY DEF StoresInv
  <1>2. /\ Matches(hzu, urr, y, q) /\ q.eurs \subseteq Eurs /\ q.users \subseteq Users
        /\ q.kind \in Kinds
    BY <1>1 DEF StoresTypeOK, PacketsMatch, Channel, Packet
  <1>3. \A e \in q.eurs : hzu'[e][y].status = hzu[e][y].status
    BY <1>2 DEF ClaimDone
  <1>4. \A e \in q.eurs, v \in q.users : urr'[e][y][v] = urr[e][y][v]
    BY <1>2 DEF ClaimDone
  <1>5. CASE q.kind = "claim"
    BY <1>2, <1>3, <1>4, <1>5, ClaimMatchesKept
  <1>6. CASE q.kind # "claim"
    <2>1. \A e \in q.eurs : hzu[e][y].status # "CLAIMABLE"
      <3>1. q.eurs # {} => q.kind # "delegate"
        BY <1>1, ForRecords
      <3> QED
        BY <1>2, <1>6, <3>1 DEF Matches, Awaits, Kinds
    <2>2. \A e \in q.eurs : hzu'[e][y].native = hzu[e][y].native
      BY <1>2, <2>1 DEF ClaimDone
    <2> QED
      BY <1>2, <1>3, <1>4, <2>2, MatchesKept
  <1> QED
    BY <1>5, <1>6

\* A claim's packet names one user of one record, and no other does.
LEMMA ClaimKey ==
    ASSUME StoresInv, NEW z \in Zones, NEW a \in Accounts, NEW p \in channel[z][a].pkts,
           p.kind = "claim", NEW k \in Keys(z, p)
    PROVE  /\ a = "REDEMPTION" /\ k \in Key /\ k.zone = z
           /\ p.eurs = {k.eur} /\ p.users = {k.user}
           /\ urr[k.eur][z][k.user].pending
           /\ k \notin orphans /\ (p.state # "ok" => k \notin paid)
           /\ \A q \in channel[z]["REDEMPTION"].pkts :
                k.eur \in q.eurs /\ k.user \in q.users => q = p
           /\ \A q \in channel[z]["DELEGATION"].pkts : q.users = {}
  <1>1. /\ StoresTypeOK /\ PacketsWellFormed /\ PacketsMatch /\ OrphansPending /\ PaidOnce
    BY DEF StoresInv
  <1>2. a = "REDEMPTION"
    BY <1>1 DEF Accounts, PacketsWellFormed, DelegationShape
  <1>3. RedemptionShape(channel[z]["REDEMPTION"].pkts)
    BY <1>1 DEF PacketsWellFormed
  <1>4. PICK e \in Eurs, u \in Users : p.eurs = {e} /\ p.users = {u}
    BY <1>2, <1>3 DEF RedemptionShape
  <1>5. k = [eur |-> e, zone |-> z, user |-> u]
    BY <1>4 DEF Keys
  <1>6. k \in Key /\ k.zone = z /\ k.eur = e /\ k.user = u
    BY <1>5 DEF Key
  <1>7. urr[e][z][u].pending
    BY <1>1, <1>2, <1>4 DEF PacketsMatch, Matches
  <1>8. ASSUME NEW q \in channel[z]["REDEMPTION"].pkts, e \in q.eurs, u \in q.users
        PROVE  q = p
    <2>1. PICK f \in Eurs, v \in Users : q.eurs = {f} /\ q.users = {v}
      BY <1>3 DEF RedemptionShape
    <2>2. q.eurs = p.eurs /\ q.users = p.users
      BY <1>4, <1>8, <2>1
    <2> QED
      BY <1>2, <1>3, <2>2 DEF RedemptionShape
  <1>9. k \notin orphans /\ (p.state # "ok" => k \notin paid)
    BY <1>1, <1>2, <1>4, <1>6 DEF OrphansPending, PaidOnce
  <1>10. \A q \in channel[z]["DELEGATION"].pkts : q.users = {}
    BY <1>1 DEF PacketsWellFormed, DelegationShape
  <1> QED
    BY <1>2, <1>4, <1>6, <1>7, <1>8, <1>9, <1>10

LEMMA AckClaimStep ==
    ASSUME StoresInv, NEW z \in Zones, NEW a \in Accounts, NEW p \in channel[z][a].pkts,
           AckICA(z, a, p), p.kind = "claim"
    PROVE  StoresInv'
  <1>1. /\ StoresTypeOK /\ PacketsWellFormed /\ RecordsWellFormed /\ PacketsMatch
        /\ OrphansPending /\ PaidOnce /\ UsersOwed
    BY DEF StoresInv
  <1>2. PICK k \in Keys(z, p) : ClaimCallback(k, p.state)
    BY DEF AckICA
  <1>3. /\ a = "REDEMPTION" /\ k \in Key /\ k.zone = z
        /\ p.eurs = {k.eur} /\ p.users = {k.user}
        /\ urr[k.eur][z][k.user].pending
        /\ k \notin orphans /\ (p.state # "ok" => k \notin paid)
        /\ \A q \in channel[z]["REDEMPTION"].pkts :
             k.eur \in q.eurs /\ k.user \in q.users => q = p
        /\ \A q \in channel[z]["DELEGATION"].pkts : q.users = {}
    BY ClaimKey
  <1>4. UNCHANGED <<current, orphans>>
    BY DEF AckICA
  <1>5. urr[k.eur][k.zone][k.user].pending
    BY <1>3
  <1>6. ClaimDone(k) /\ RecordsWellFormed' /\ UsersOwed'
    BY <1>2, <1>3, <1>4, <1>5, ClaimCallbackRecords
  <1>7. paid' = IF p.state = "ok" THEN paid \ {k} ELSE paid
    BY <1>2, <1>3, <1>5, ClaimCallbackEffect
  <1>8. k \notin paid' /\ paid' \subseteq paid
    BY <1>3, <1>7
  <1>9. /\ channel' \in [Zones -> [Accounts -> Channel]]
        /\ \A y \in Zones, b \in Accounts : IsFiniteSet(channel'[y][b].pkts)
        /\ ChannelsDerived
        /\ \A q \in channel'[z][a].pkts :
             \E x \in channel[z][a].pkts \ {p} : Same(q, x) /\ q.state = x.state
    BY AckChannel
  <1>10. \A y \in Zones, b \in Accounts : ~(y = z /\ b = a) => channel'[y][b] = channel[y][b]
    BY AckChannel
  <1>11. StoresTypeOK'
    BY <1>1, <1>4, <1>6, <1>8, <1>9 DEF StoresTypeOK, ClaimDone, RecordStore
  <1>12. PacketsWellFormed' /\ \A y \in Zones, b \in Accounts : Separate(channel'[y][b].pkts)
    BY <1>1, <1>9, DerivedWellFormed
  <1>13. PacketsMatch'
    <2>1. ASSUME NEW y \in Zones, NEW b \in Accounts, NEW q \in channel'[y][b].pkts
          PROVE  Matches(hzu', urr', y, q)
      <3>1. CASE y = z /\ b = a
        <4>1. PICK x \in channel[z][a].pkts \ {p} : Same(q, x)
          BY <1>9, <3>1
        <4>2. ~(k.eur \in x.eurs /\ k.user \in x.users)
          BY <1>3, <4>1
        <4>3. Matches(hzu', urr', z, x)
          BY <1>3, <1>6, <4>1, <4>2, ClaimDoneMatches
        <4> QED
          BY <3>1, <4>1, <4>3, SameMatches
      <3>2. CASE ~(y = z /\ b = a)
        <4>1. q \in channel[y][b].pkts
          BY <1>10, <3>2
        <4>2. ~(y = k.zone /\ k.eur \in q.eurs /\ k.user \in q.users)
          BY <1>3, <3>2, <4>1 DEF Accounts
        <4> QED
          BY <1>3, <1>6, <4>1, <4>2, ClaimDoneMatches
      <3> QED
        BY <3>1, <3>2
    <2> QED
      BY <1>12, <2>1 DEF PacketsMatch
  <1>14. ASSUME NEW j \in Key, j # k, urr[j.eur][j.zone][j.user].pending
         PROVE  urr'[j.eur][j.zone][j.user].pending
    <2>1. j.eur \in Eurs /\ j.zone \in Zones /\ j.user \in Users
      BY DEF Key
    <2>2. ~(j.eur = k.eur /\ j.zone = k.zone /\ j.user = k.user)
      BY <1>3, <1>14 DEF Key
    <2> QED
      BY <1>6, <1>14, <2>1, <2>2 DEF ClaimDone
  <1>15. ASSUME NEW j \in Key
         PROVE  \A q \in channel'[j.zone]["REDEMPTION"].pkts :
                  \E x \in channel[j.zone]["REDEMPTION"].pkts : Same(q, x) /\ q.state = x.state
    <2>1. j.zone \in Zones /\ "REDEMPTION" \in Accounts
      BY DEF Key, Accounts
    <2>2. CASE j.zone = z
      BY <1>3, <1>9, <2>2
    <2>3. CASE j.zone # z
      BY <1>10, <2>1, <2>3 DEF Same
    <2> QED
      BY <2>2, <2>3
  <1>16. OrphansPending'
    <2> SUFFICES ASSUME NEW j \in orphans
                 PROVE  /\ urr'[j.eur][j.zone][j.user].pending
                        /\ \A q \in channel'[j.zone]["REDEMPTION"].pkts :
                              ~(j.eur \in q.eurs /\ j.user \in q.users)
      BY <1>4 DEF OrphansPending
    <2>1. j \in Key /\ j # k
      BY <1>1, <1>3 DEF StoresTypeOK
    <2> QED
      BY <1>1, <1>14, <1>15, <2>1 DEF OrphansPending, Same
  <1>17. PaidOnce'
    <2> SUFFICES ASSUME NEW j \in paid'
                 PROVE  /\ urr'[j.eur][j.zone][j.user].pending
                        /\ j \notin orphans
                        /\ \A q \in channel'[j.zone]["REDEMPTION"].pkts :
                              j.eur \in q.eurs /\ j.user \in q.users => q.state = "ok"
      BY <1>4 DEF PaidOnce
    <2>1. j \in Key /\ j # k /\ j \in paid
      BY <1>1, <1>8 DEF StoresTypeOK
    <2> QED
      BY <1>1, <1>14, <1>15, <2>1 DEF PaidOnce, Same
  <1> QED
    BY <1>6, <1>11, <1>12, <1>13, <1>16, <1>17 DEF StoresInv

-----------------------------------------------------------------------------
(* Timeouts and restored channels *)

LEMMA CloseChannelEffect ==
    ASSUME StoresInv, NEW z \in Zones, NEW a \in Accounts, NEW X, CloseChannel(z, a, X)
    PROVE  /\ channel' \in [Zones -> [Accounts -> Channel]]
           /\ channel'[z][a].pkts = {}
           /\ \A y \in Zones, b \in Accounts : ~(y = z /\ b = a) => channel'[y][b] = channel[y][b]
           /\ \A y \in Zones, b \in Accounts : IsFiniteSet(channel'[y][b].pkts)
           /\ ChannelsDerived
  <1> DEFINE new == [state |-> "CLOSED", pkts |-> {}]
  <1>1. StoresTypeOK /\ PacketsWellFormed
    BY DEF StoresInv
  <1>2. new \in Channel /\ new.pkts = {}
    BY DEF Channel
  <1>3. channel' = [channel EXCEPT ![z][a] = new]
    BY DEF CloseChannel
  <1> HIDE DEF new
  <1>4. /\ channel' \in [Zones -> [Accounts -> Channel]]
        /\ channel'[z][a] = new
        /\ \A y \in Zones, b \in Accounts : ~(y = z /\ b = a) => channel'[y][b] = channel[y][b]
    BY <1>1, <1>2, <1>3 DEF StoresTypeOK
  <1>5. ASSUME NEW y \in Zones, NEW b \in Accounts
        PROVE  /\ IsFiniteSet(channel'[y][b].pkts)
               /\ Derived(channel'[y][b].pkts, channel[y][b].pkts)
               /\ channel'[y][b].pkts # {} => channel'[y][b].state = "OPEN"
    <2>1. CASE y = z /\ b = a
      <3>1. \A S : Derived({}, S)
        BY DEF Derived
      <3> QED
        BY <1>2, <1>4, <2>1, <3>1, FS_EmptySet
    <2>2. CASE ~(y = z /\ b = a)
      <3>1. \A S : Derived(S, S)
        BY Zenon DEF Derived, Same
      <3> QED
        BY <1>1, <1>4, <2>2, <3>1 DEF StoresTypeOK, PacketsWellFormed
    <2> QED
      BY <2>1, <2>2
  <1> QED
    BY <1>2, <1>4, <1>5, Zenon DEF ChannelsDerived

\* A closed delegation channel: the records are left in progress.
LEMMA CloseDelegationStep ==
    ASSUME StoresInv, NEW z \in Zones, NEW X, CloseChannel(z, "DELEGATION", X),
           UNCHANGED <<hzu, urr, paid>>
    PROVE  StoresInv'
  <1>1. /\ StoresTypeOK /\ PacketsWellFormed /\ RecordsWellFormed /\ PacketsMatch
        /\ OrphansPending /\ PaidOnce /\ UsersOwed
    BY DEF StoresInv
  <1>2. "DELEGATION" \in Accounts /\ "REDEMPTION" \in Accounts
    BY DEF Accounts
  <1>3. /\ channel' \in [Zones -> [Accounts -> Channel]]
        /\ \A y \in Zones, b \in Accounts : ~(y = z /\ b = "DELEGATION") => channel'[y][b] = channel[y][b]
        /\ \A y \in Zones, b \in Accounts : IsFiniteSet(channel'[y][b].pkts)
        /\ ChannelsDerived
    BY <1>2, CloseChannelEffect
  <1>4. orphans' = orphans
    <2>1. \A q \in channel[z]["DELEGATION"].pkts : Keys(z, q) = {}
      BY <1>1 DEF PacketsWellFormed, DelegationShape, Keys
    <2> QED
      BY <2>1 DEF CloseChannel
  <1>5. current' = current
    BY DEF CloseChannel
  <1>6. StoresTypeOK'
    BY <1>1, <1>3, <1>4, <1>5 DEF StoresTypeOK
  <1>7. StoresKept
    BY <1>5 DEF StoresKept
  <1>8. PacketsWellFormed' /\ RecordsWellFormed' /\ PacketsMatch' /\ OrphansPending' /\ UsersOwed'
    BY <1>1, <1>3, <1>4, <1>7, DerivedWellFormed, KeptRecords, KeptMatches, DerivedOrphans
  <1>9. PaidOnce'
    <2> SUFFICES ASSUME NEW k \in paid
                 PROVE  channel'[k.zone]["REDEMPTION"] = channel[k.zone]["REDEMPTION"]
      BY <1>1, <1>4 DEF PaidOnce
    <2>1. k.zone \in Zones
      BY <1>1 DEF StoresTypeOK, Key
    <2> QED
      BY <1>2, <1>3, <2>1
  <1> QED
    BY <1>6, <1>8, <1>9 DEF StoresInv

\* A closed redemption channel: the claim that timed out may be made again,
\* those after it are never received.
LEMMA TimeoutClaimStep ==
    ASSUME StoresInv, NEW z \in Zones, NEW a \in Accounts, NEW p \in channel[z][a].pkts,
           TimeoutICA(z, a, p), p.kind = "claim"
    PROVE  StoresInv'
  <1>1. /\ StoresTypeOK /\ PacketsWellFormed /\ RecordsWellFormed /\ PacketsMatch
        /\ OrphansPending /\ PaidOnce /\ UsersOwed
    BY DEF StoresInv
  <1>2. PICK k \in Keys(z, p) : ClaimCallback(k, "timeout")
    BY DEF TimeoutICA
  <1>3. /\ a = "REDEMPTION" /\ k \in Key /\ k.zone = z
        /\ p.eurs = {k.eur} /\ p.users = {k.user}
        /\ urr[k.eur][k.zone][k.user].pending
        /\ k \notin orphans /\ (p.state # "ok" => k \notin paid)
        /\ \A q \in channel[z]["REDEMPTION"].pkts :
             k.eur \in q.eurs /\ k.user \in q.users => q = p
        /\ \A q \in channel[z]["DELEGATION"].pkts : q.users = {}
    BY ClaimKey
  <1>4. CloseChannel(z, a, {p}) /\ p.state = "sent" /\ current' = current
    BY DEF TimeoutICA, CloseChannel
  <1>5. ClaimDone(k) /\ RecordsWellFormed' /\ UsersOwed'
    BY <1>2, <1>3, <1>4, ClaimCallbackRecords
  <1>6. paid' = paid /\ k \notin paid
    <2>1. paid' = IF "timeout" = "ok" THEN paid \ {k} ELSE paid
      BY <1>2, <1>3, ClaimCallbackEffect
    <2> QED
      BY <1>3, <1>4, <2>1
  <1>7. /\ channel' \in [Zones -> [Accounts -> Channel]]
        /\ channel'[z][a].pkts = {}
        /\ \A y \in Zones, b \in Accounts : ~(y = z /\ b = a) => channel'[y][b] = channel[y][b]
        /\ \A y \in Zones, b \in Accounts : IsFiniteSet(channel'[y][b].pkts)
        /\ ChannelsDerived
    BY <1>4, CloseChannelEffect
  <1>8. \A j \in orphans' \ orphans : \E q \in channel[z][a].pkts \ {p} :
          j \in Keys(z, q) /\ q.state = "sent"
    BY <1>4 DEF CloseChannel
  <1>9. ASSUME NEW j \in orphans' \ orphans
        PROVE  /\ j \in Key /\ j # k /\ j.zone = z /\ j \notin paid
               /\ urr[j.eur][j.zone][j.user].pending
    <2>1. PICK q \in channel[z][a].pkts \ {p} : j \in Keys(z, q) /\ q.state = "sent"
      BY <1>8
    <2>2. q.kind = "claim"
      BY <1>1, <1>3, <2>1 DEF PacketsWellFormed, RedemptionShape
    <2>3. /\ j \in Key /\ j.zone = z /\ q.eurs = {j.eur} /\ q.users = {j.user}
          /\ urr[j.eur][z][j.user].pending /\ (q.state # "ok" => j \notin paid)
      BY <2>1, <2>2, ClaimKey
    <2>4. j # k
      BY <1>3, <2>1, <2>3
    <2> QED
      BY <2>1, <2>3, <2>4
  <1>10. orphans' \subseteq Key /\ k \notin orphans'
    BY <1>1, <1>3, <1>9 DEF StoresTypeOK
  <1>11. StoresTypeOK'
    BY <1>1, <1>4, <1>5, <1>6, <1>7, <1>10 DEF StoresTypeOK, ClaimDone, RecordStore
  <1>12. PacketsWellFormed' /\ \A y \in Zones, b \in Accounts : Separate(channel'[y][b].pkts)
    BY <1>1, <1>7, DerivedWellFormed
  <1>13. PacketsMatch'
    <2>1. ASSUME NEW y \in Zones, NEW b \in Accounts, NEW q \in channel'[y][b].pkts
          PROVE  Matches(hzu', urr', y, q)
      <3>1. ~(y = z /\ b = a) /\ q \in channel[y][b].pkts
        BY <1>7
      <3>2. ~(y = k.zone /\ k.eur \in q.eurs /\ k.user \in q.users)
        BY <1>3, <3>1 DEF Accounts
      <3> QED
        BY <1>3, <1>5, <3>1, <3>2, ClaimDoneMatches
    <2> QED
      BY <1>12, <2>1 DEF PacketsMatch
  <1>14. ASSUME NEW j \in Key, j # k, urr[j.eur][j.zone][j.user].pending
         PROVE  urr'[j.eur][j.zone][j.user].pending
    <2>1. j.eur \in Eurs /\ j.zone \in Zones /\ j.user \in Users
      BY DEF Key
    <2>2. ~(j.eur = k.eur /\ j.zone = k.zone /\ j.user = k.user)
      BY <1>3, <1>14 DEF Key
    <2> QED
      BY <1>5, <1>14, <2>1, <2>2 DEF ClaimDone
  <1>15. ASSUME NEW j \in Key
         PROVE  channel'[j.zone]["REDEMPTION"].pkts = {} \/
                (channel'[j.zone]["REDEMPTION"] = channel[j.zone]["REDEMPTION"] /\ j.zone # z)
    <2>1. j.zone \in Zones /\ "REDEMPTION" \in Accounts
      BY DEF Key, Accounts
    <2> QED
      BY <1>3, <1>7, <2>1
  <1>16. OrphansPending'
    <2> SUFFICES ASSUME NEW j \in orphans'
                 PROVE  /\ urr'[j.eur][j.zone][j.user].pending
                        /\ \A q \in channel'[j.zone]["REDEMPTION"].pkts :
                              ~(j.eur \in q.eurs /\ j.user \in q.users)
      BY DEF OrphansPending
    <2>1. j \in Key /\ j # k /\ urr[j.eur][j.zone][j.user].pending
      BY <1>1, <1>9, <1>10 DEF OrphansPending
    <2>2. j \notin orphans => j.zone = z
      BY <1>9
    <2> QED
      BY <1>1, <1>14, <1>15, <2>1, <2>2 DEF OrphansPending
  <1>17. PaidOnce'
    <2> SUFFICES ASSUME NEW j \in paid
                 PROVE  /\ urr'[j.eur][j.zone][j.user].pending
                        /\ j \notin orphans'
                        /\ \A q \in channel'[j.zone]["REDEMPTION"].pkts :
                              j.eur \in q.eurs /\ j.user \in q.users => q.state = "ok"
      BY <1>6 DEF PaidOnce
    <2>1. j \in Key /\ j # k /\ urr[j.eur][j.zone][j.user].pending /\ j \notin orphans
      BY <1>1, <1>6 DEF StoresTypeOK, PaidOnce
    <2>2. j \notin orphans'
      BY <1>9, <2>1
    <2> QED
      BY <1>1, <1>14, <1>15, <2>1, <2>2 DEF PaidOnce
  <1> QED
    BY <1>5, <1>11, <1>12, <1>13, <1>16, <1>17 DEF StoresInv

LEMMA TimeoutICAStep ==
    ASSUME StoresInv, NEW z \in Zones, NEW a \in Accounts, NEW p \in channel[z][a].pkts,
           TimeoutICA(z, a, p)
    PROVE  StoresInv'
  <1>1. CASE p.kind = "claim"
    BY <1>1, TimeoutClaimStep
  <1>2. CASE p.kind # "claim"
    <2>1. a = "DELEGATION"
      BY <1>2 DEF StoresInv, PacketsWellFormed, RedemptionShape, Accounts
    <2>2. CloseChannel(z, "DELEGATION", {p}) /\ UNCHANGED <<hzu, urr, paid>>
      BY <1>2, <2>1 DEF TimeoutICA
    <2> QED
      BY <2>2, CloseDelegationStep
  <1> QED
    BY <1>1, <1>2

LEMMA TimeoutOfAnotherStep ==
    ASSUME StoresInv, NEW z \in Zones, TimeoutOfAnother(z)
    PROVE  StoresInv'
    BY CloseDelegationStep DEF TimeoutOfAnother

LEMMA TimeoutOnCloseStep ==
    ASSUME StoresInv, NEW k \in orphans, TimeoutOnClose(k)
    PROVE  StoresInv'
  <1>1. /\ StoresTypeOK /\ PacketsWellFormed /\ RecordsWellFormed /\ PacketsMatch
        /\ OrphansPending /\ PaidOnce /\ UsersOwed
    BY DEF StoresInv
  <1>2. /\ k \in Key /\ k.zone \in Zones /\ urr[k.eur][k.zone][k.user].pending /\ k \notin paid
        /\ \A q \in channel[k.zone]["REDEMPTION"].pkts : ~(k.eur \in q.eurs /\ k.user \in q.users)
        /\ \A q \in channel[k.zone]["DELEGATION"].pkts : q.users = {}
    <2>1. k \in Key /\ k.zone \in Zones
      BY <1>1 DEF StoresTypeOK, Key
    <2> QED
      BY <1>1, <2>1 DEF OrphansPending, PaidOnce, PacketsWellFormed, DelegationShape
  <1>3. ClaimCallback(k, "timeout") /\ orphans' = orphans \ {k} /\ UNCHANGED <<current, channel>>
    BY DEF TimeoutOnClose
  <1>4. ClaimDone(k) /\ RecordsWellFormed' /\ UsersOwed'
    BY <1>2, <1>3, ClaimCallbackRecords
  <1>5. paid' = paid
    <2>1. paid' = IF "timeout" = "ok" THEN paid \ {k} ELSE paid
      BY <1>2, <1>3, ClaimCallbackEffect
    <2> QED
      BY <2>1
  <1>6. StoresTypeOK'
    BY <1>1, <1>3, <1>4, <1>5 DEF StoresTypeOK, ClaimDone, RecordStore
  <1>7. PacketsWellFormed'
    BY <1>1, <1>3 DEF PacketsWellFormed
  <1>8. PacketsMatch'
    <2>1. ASSUME NEW y \in Zones, NEW b \in Accounts, NEW q \in channel[y][b].pkts
          PROVE  Matches(hzu', urr', y, q)
      <3>1. ~(y = k.zone /\ k.eur \in q.eurs /\ k.user \in q.users)
        BY <1>2 DEF Accounts
      <3> QED
        BY <1>2, <1>4, <3>1, ClaimDoneMatches
    <2> QED
      BY <1>1, <1>3, <2>1 DEF PacketsMatch
  <1>9. ASSUME NEW j \in Key, j # k, urr[j.eur][j.zone][j.user].pending
        PROVE  urr'[j.eur][j.zone][j.user].pending
    <2>1. j.eur \in Eurs /\ j.zone \in Zones /\ j.user \in Users
      BY DEF Key
    <2>2. ~(j.eur = k.eur /\ j.zone = k.zone /\ j.user = k.user)
      BY <1>2, <1>9 DEF Key
    <2> QED
      BY <1>4, <1>9, <2>1, <2>2 DEF ClaimDone
  <1>10. OrphansPending'
    BY <1>1, <1>3, <1>9 DEF OrphansPending, StoresTypeOK
  <1>11. PaidOnce'
    BY <1>1, <1>2, <1>3, <1>5, <1>9 DEF PaidOnce, StoresTypeOK
  <1> QED
    BY <1>4, <1>6, <1>7, <1>8, <1>10, <1>11 DEF StoresInv

\* A channel changes its state and keeps its packets.
SetState(z, a, s) == channel' = [channel EXCEPT ![z][a].state = s]

LEMMA ChannelStateEffect ==
    ASSUME StoresInv, NEW z \in Zones, NEW a \in Accounts, NEW s \in {"OPEN", "INIT"},
           SetState(z, a, s), channel[z][a].state # "OPEN"
    PROVE  /\ channel' \in [Zones -> [Accounts -> Channel]]
           /\ \A y \in Zones, b \in Accounts : channel'[y][b].pkts = channel[y][b].pkts
           /\ \A y \in Zones, b \in Accounts : IsFiniteSet(channel'[y][b].pkts)
           /\ channel[z][a].pkts = {}
           /\ ChannelsDerived
  <1> DEFINE new == [channel[z][a] EXCEPT !.state = s]
  <1>1. StoresTypeOK /\ PacketsWellFormed
    BY DEF StoresInv
  <1>2. channel[z][a] \in Channel /\ channel \in [Zones -> [Accounts -> Channel]]
    BY <1>1 DEF StoresTypeOK
  <1>3. new \in Channel /\ new.pkts = channel[z][a].pkts
    BY <1>2 DEF Channel
  <1>4. channel' = [channel EXCEPT ![z][a] = new]
    BY DEF SetState
  <1> HIDE DEF new
  <1>5. /\ channel' \in [Zones -> [Accounts -> Channel]]
        /\ channel'[z][a] = new
        /\ \A y \in Zones, b \in Accounts : ~(y = z /\ b = a) => channel'[y][b] = channel[y][b]
    BY <1>2, <1>3, <1>4
  <1>6. channel[z][a].pkts = {}
    BY <1>1 DEF PacketsWellFormed
  <1>7. \A y \in Zones, b \in Accounts : channel'[y][b].pkts = channel[y][b].pkts
    BY <1>3, <1>5
  <1>8. ASSUME NEW y \in Zones, NEW b \in Accounts, channel'[y][b].pkts # {}
        PROVE  channel'[y][b].state = "OPEN"
    <2>1. ~(y = z /\ b = a) /\ channel[y][b].pkts # {}
      BY <1>6, <1>7, <1>8
    <2> QED
      BY <1>1, <1>5, <2>1 DEF PacketsWellFormed
  <1>9. ChannelsDerived
    <2>1. \A S : Derived(S, S)
      BY Zenon DEF Derived, Same
    <2> QED
      BY <1>7, <1>8, <2>1, Zenon DEF ChannelsDerived
  <1>10. \A y \in Zones, b \in Accounts : IsFiniteSet(channel'[y][b].pkts)
    BY <1>1, <1>7 DEF StoresTypeOK
  <1> QED
    BY <1>5, <1>6, <1>7, <1>9, <1>10

LEMMA RestoreStatuses ==
    ASSUME StoresInv, NEW z \in Zones, NEW a \in Accounts, RestoreInterchainAccount(z, a)
    PROVE  \E S \in SUBSET Eurs : StatusesSet(z, S) /\ (a = "REDEMPTION" => S = {})
  <1>1. StoresTypeOK /\ hzu \in RecordStore
    BY DEF StoresInv, StoresTypeOK, RecordStore
  <1>2. UNCHANGED <<current, urr>>
    BY DEF RestoreInterchainAccount
  <1>3. CASE a = "REDEMPTION"
    <2>1. hzu' = hzu
      BY <1>3 DEF RestoreInterchainAccount
    <2>2. StatusesSet(z, {})
      BY <1>1, <1>2, <2>1 DEF StatusesSet, RecordStore
    <2> QED
      BY <2>2
  <1>4. CASE a = "DELEGATION"
    <2> DEFINE A == WithStatus(hzu, z, {"UNBONDING_IN_PROGRESS"})
               B == WithStatus(hzu, z, {"EXIT_TRANSFER_IN_PROGRESS"})
               g == SetHostZoneUnbondings(hzu, z, A, "UNBONDING_QUEUE")
               h == SetHostZoneUnbondings(g, z, B, "EXIT_TRANSFER_QUEUE")
    <2>1. hzu' = h
      BY <1>4 DEF RestoreInterchainAccount, RevertedUnbondings
    <2>2. A \in SUBSET Eurs /\ B \in SUBSET Eurs
      BY DEF WithStatus
    <2>3. /\ \A e \in A : hzu[e][z].status = "UNBONDING_IN_PROGRESS"
          /\ \A e \in B : hzu[e][z].status = "EXIT_TRANSFER_IN_PROGRESS"
      BY DEF WithStatus
    <2>4. "UNBONDING_QUEUE" \in Statuses /\ "EXIT_TRANSFER_QUEUE" \in Statuses
      BY DEF Statuses
    <2> HIDE DEF A, B
    <2>5. /\ g \in RecordStore
          /\ \A e \in Eurs, y \in Zones :
               /\ g[e][y].native = hzu[e][y].native
               /\ g[e][y].st = hzu[e][y].st
               /\ g[e][y].status = IF e \in A /\ y = z THEN "UNBONDING_QUEUE" ELSE hzu[e][y].status
      BY <1>1, <2>2, <2>4, SetStatus
    <2> HIDE DEF g
    <2>g. g \in RecordStore
      BY <2>5
    <2>6. /\ h \in RecordStore
          /\ \A e \in Eurs, y \in Zones :
               /\ h[e][y].native = g[e][y].native
               /\ h[e][y].st = g[e][y].st
               /\ h[e][y].status = IF e \in B /\ y = z THEN "EXIT_TRANSFER_QUEUE" ELSE g[e][y].status
      <3>1. StatusIs(h, g, z, B, "EXIT_TRANSFER_QUEUE")
        BY <2>2, <2>4, <2>g, SetStatusIs
      <3> HIDE DEF h
      <3> QED
        BY <3>1 DEF StatusIs
    <2> HIDE DEF h
    <2>7. StatusesSet(z, A \cup B)
      <3>1. \A e \in Eurs, y \in Zones :
              /\ hzu'[e][y].native = hzu[e][y].native
              /\ hzu'[e][y].st = hzu[e][y].st
              /\ ~(e \in A \cup B /\ y = z) => hzu'[e][y].status = hzu[e][y].status
        BY <2>1, <2>5, <2>6
      <3>2. \A e \in A \cup B :
              /\ hzu[e][z].status \in {"UNBONDING_IN_PROGRESS", "EXIT_TRANSFER_IN_PROGRESS"}
              /\ hzu'[e][z].status \in {"UNBONDING_QUEUE", "EXIT_TRANSFER_QUEUE", "CLAIMABLE"}
        BY <2>1, <2>2, <2>3, <2>5, <2>6
      <3>3. hzu' \in [Eurs -> [Zones -> HostZoneUnbonding]]
        BY <2>1, <2>6 DEF RecordStore
      <3> QED
        BY <1>2, <3>1, <3>2, <3>3 DEF StatusesSet
    <2> QED
      BY <1>4, <2>2, <2>7
  <1> QED
    BY <1>3, <1>4 DEF Accounts

LEMMA RestoreStep ==
    ASSUME StoresInv, NEW z \in Zones, NEW a \in Accounts, RestoreInterchainAccount(z, a)
    PROVE  StoresInv'
  <1>1. /\ StoresTypeOK /\ PacketsWellFormed /\ RecordsWellFormed /\ PacketsMatch
        /\ OrphansPending /\ PaidOnce /\ UsersOwed
    BY DEF StoresInv
  <1>2. SetState(z, a, "INIT") /\ channel[z][a].state # "OPEN" /\ UNCHANGED <<orphans, paid>>
    BY DEF RestoreInterchainAccount, SetState, ghosts
  <1>3. /\ channel' \in [Zones -> [Accounts -> Channel]]
        /\ \A y \in Zones, b \in Accounts : channel'[y][b].pkts = channel[y][b].pkts
        /\ \A y \in Zones, b \in Accounts : IsFiniteSet(channel'[y][b].pkts)
        /\ channel[z][a].pkts = {}
        /\ ChannelsDerived
    BY <1>2, ChannelStateEffect
  <1>4. PICK S \in SUBSET Eurs : StatusesSet(z, S) /\ (a = "REDEMPTION" => S = {})
    BY RestoreStatuses
  <1>5. urr' = urr /\ current' = current /\ hzu' \in [Eurs -> [Zones -> HostZoneUnbonding]]
    BY <1>4 DEF StatusesSet
  <1>6. StoresTypeOK'
    BY <1>1, <1>2, <1>3, <1>5 DEF StoresTypeOK
  <1>7. PacketsWellFormed' /\ \A y \in Zones, b \in Accounts : Separate(channel'[y][b].pkts)
    BY <1>1, <1>3, DerivedWellFormed
  <1>8. RecordsWellFormed' /\ UsersOwed'
    BY <1>1, <1>4, StatusRecords
  <1>9. PacketsMatch'
    <2>1. ASSUME NEW y \in Zones, NEW b \in Accounts, NEW q \in channel[y][b].pkts
          PROVE  Matches(hzu', urr', y, q)
      <3>1. q \in Packet /\ Matches(hzu, urr, y, q)
        BY <1>1 DEF StoresTypeOK, PacketsMatch, Channel
      <3>2. ASSUME y = z PROVE q.eurs \cap S = {}
        <4>1. CASE a = "REDEMPTION"
          BY <1>4, <4>1
        <4>2. CASE a = "DELEGATION"
          <5>1. b = "REDEMPTION"
            BY <1>3, <3>2, <4>2 DEF Accounts
          <5>2. q.kind = "claim"
            BY <1>1, <5>1 DEF PacketsWellFormed, RedemptionShape
          <5>3. \A e \in q.eurs : hzu[e][z].status = "CLAIMABLE"
            BY <3>1, <3>2, <5>2 DEF Matches, Awaits
          <5>4. \A e \in S : hzu[e][z].status # "CLAIMABLE"
            BY <1>4 DEF StatusesSet
          <5> QED
            BY <5>3, <5>4
        <4> QED
          BY <4>1, <4>2 DEF Accounts
      <3> QED
        BY <1>4, <3>1, <3>2, StatusMatches
    <2> QED
      BY <1>3, <1>7, <2>1 DEF PacketsMatch
  <1>10. OrphansPending'
    BY <1>1, <1>2, <1>3, <1>5, DerivedOrphans
  <1>11. PaidOnce'
    <2> SUFFICES ASSUME NEW k \in paid
                 PROVE  channel'[k.zone]["REDEMPTION"].pkts = channel[k.zone]["REDEMPTION"].pkts
      BY <1>1, <1>2, <1>5 DEF PaidOnce
    <2>1. k.zone \in Zones /\ "REDEMPTION" \in Accounts
      BY <1>1 DEF StoresTypeOK, Key, Accounts
    <2> QED
      BY <1>3, <2>1
  <1> QED
    BY <1>6, <1>7, <1>8, <1>9, <1>10, <1>11 DEF StoresInv

LEMMA ChanOpenAckStep ==
    ASSUME StoresInv, NEW z \in Zones, NEW a \in Accounts, ChanOpenAck(z, a)
    PROVE  StoresInv'
  <1>1. /\ StoresTypeOK /\ PacketsWellFormed /\ RecordsWellFormed /\ PacketsMatch
        /\ OrphansPending /\ PaidOnce /\ UsersOwed
    BY DEF StoresInv
  <1>2. SetState(z, a, "OPEN") /\ channel[z][a].state # "OPEN"
        /\ UNCHANGED <<current, hzu, urr, orphans, paid>>
    BY DEF ChanOpenAck, SetState, records, ghosts
  <1>3. /\ channel' \in [Zones -> [Accounts -> Channel]]
        /\ \A y \in Zones, b \in Accounts : channel'[y][b].pkts = channel[y][b].pkts
        /\ \A y \in Zones, b \in Accounts : IsFiniteSet(channel'[y][b].pkts)
        /\ ChannelsDerived
    BY <1>2, ChannelStateEffect
  <1>4. StoresTypeOK'
    BY <1>1, <1>2, <1>3 DEF StoresTypeOK
  <1>5. StoresKept
    BY <1>2 DEF StoresKept
  <1>6. PacketsWellFormed' /\ RecordsWellFormed' /\ PacketsMatch' /\ OrphansPending' /\ UsersOwed'
    BY <1>1, <1>2, <1>3, <1>5, DerivedWellFormed, KeptRecords, KeptMatches, DerivedOrphans
  <1>7. PaidOnce'
    <2> SUFFICES ASSUME NEW k \in paid
                 PROVE  channel'[k.zone]["REDEMPTION"].pkts = channel[k.zone]["REDEMPTION"].pkts
      BY <1>1, <1>2 DEF PaidOnce
    <2>1. k.zone \in Zones /\ "REDEMPTION" \in Accounts
      BY <1>1 DEF StoresTypeOK, Key, Accounts
    <2> QED
      BY <1>3, <2>1
  <1> QED
    BY <1>4, <1>6, <1>7 DEF StoresInv

-----------------------------------------------------------------------------
(* The day epoch *)

\* A record owes each of its users' amounts.
LEMMA OwedToUser ==
    ASSUME StoresTypeOK, UsersOwed, NEW e \in Eurs, NEW z \in Zones, NEW u \in Users
    PROVE  urr[e][z][u].amount <= hzu[e][z].native
  <1> DEFINE f == UserAmounts(urr, e, z)
  <1>1. hzu[e][z].native = SumFunctionOnSet(f, Users)
    BY DEF UsersOwed
  <1>2. f[u] = urr[e][z][u].amount /\ \A v \in Users : f[v] \in Nat
    BY DEF UserAmounts, StoresTypeOK, UserRedemptionRecord
  <1> HIDE DEF f
  <1>3. IsFiniteSet(Users) /\ IsFiniteSet(Users \ {u})
    BY UnbondingRecordsAssumption, FS_RemoveElement
  <1>4. \A v \in Users : f[v] \in Int
    BY <1>2
  <1>5. SumFunctionOnSet(f, Users) = f[u] + SumFunctionOnSet(f, Users \ {u})
    BY <1>3, <1>4, SumRemove
  <1>6. SumFunctionOnSet(f, Users \ {u}) \in Nat
    <2>1. \A v \in Users \ {u} : f[v] \in Nat
      BY <1>2
    <2> QED
      BY <1>3, <2>1, SumNat
  <1> QED
    BY <1>1, <1>2, <1>5, <1>6

\* The records, once the day's undelegations and sweeps were submitted.
Submitted(d, lag) ==
    [e \in Eurs |-> [z \in Zones |->
        CASE e \in UnbondingDue(z, d) ->
               [hzu[e][z] EXCEPT !.status = "UNBONDING_IN_PROGRESS"]
          [] e \in SweepDue(z, lag) ->
               [hzu[e][z] EXCEPT !.status = "EXIT_TRANSFER_IN_PROGRESS"]
          [] OTHER -> hzu[e][z]]]

LEMMA DueRecords ==
    ASSUME NEW z \in Zones, NEW d, NEW lag
    PROVE  /\ UnbondingDue(z, d) \in SUBSET Eurs /\ SweepDue(z, lag) \in SUBSET Eurs
           /\ \A e \in UnbondingDue(z, d) :
                hzu[e][z].status = "UNBONDING_QUEUE" /\ hzu[e][z].native > 0
           /\ \A e \in SweepDue(z, lag) : hzu[e][z].status = "EXIT_TRANSFER_QUEUE"
           /\ UnbondingDue(z, d) # {} => channel[z]["DELEGATION"].state = "OPEN"
           /\ SweepDue(z, lag) # {} => channel[z]["DELEGATION"].state = "OPEN"
  <1>1. /\ UnbondingDue(z, d) \in SUBSET Eurs
        /\ \A e \in UnbondingDue(z, d) : hzu[e][z].status = "UNBONDING_QUEUE" /\ hzu[e][z].native > 0
        /\ UnbondingDue(z, d) # {} => channel[z]["DELEGATION"].state = "OPEN"
    BY DEF UnbondingDue, WithStatus
  <1>2. /\ SweepDue(z, lag) \in SUBSET Eurs
        /\ \A e \in SweepDue(z, lag) : hzu[e][z].status = "EXIT_TRANSFER_QUEUE"
        /\ SweepDue(z, lag) # {} => channel[z]["DELEGATION"].state = "OPEN"
    BY DEF SweepDue, WithStatus
  <1> QED
    BY <1>1, <1>2

LEMMA SubmittedRecords ==
    ASSUME StoresTypeOK, NEW d, NEW lag, NEW e \in Eurs, NEW z \in Zones
    PROVE  LET r == Submitted(d, lag)[e][z] IN
           /\ r \in HostZoneUnbonding
           /\ r.native = hzu[e][z].native /\ r.st = hzu[e][z].st /\ r.left = hzu[e][z].left
           /\ e \in UnbondingDue(z, d) => r.status = "UNBONDING_IN_PROGRESS"
           /\ e \in SweepDue(z, lag) => r.status = "EXIT_TRANSFER_IN_PROGRESS"
           /\ ~(e \in UnbondingDue(z, d) \/ e \in SweepDue(z, lag)) => r.status = hzu[e][z].status
  <1> DEFINE r == Submitted(d, lag)[e][z]
  <1>1. hzu[e][z] \in HostZoneUnbonding
    BY DEF StoresTypeOK
  <1>2. ~(e \in UnbondingDue(z, d) /\ e \in SweepDue(z, lag))
    BY DueRecords
  <1>3. r = CASE e \in UnbondingDue(z, d) ->
                   [hzu[e][z] EXCEPT !.status = "UNBONDING_IN_PROGRESS"]
              [] e \in SweepDue(z, lag) ->
                   [hzu[e][z] EXCEPT !.status = "EXIT_TRANSFER_IN_PROGRESS"]
              [] OTHER -> hzu[e][z]
    BY DEF Submitted
  <1> HIDE DEF r
  <1>4. CASE e \in UnbondingDue(z, d)
    <2>1. r = [hzu[e][z] EXCEPT !.status = "UNBONDING_IN_PROGRESS"]
      BY <1>2, <1>3, <1>4
    <2> QED
      BY <1>1, <1>2, <1>4, <2>1 DEF r, HostZoneUnbonding, Statuses
  <1>5. CASE e \in SweepDue(z, lag)
    <2>1. r = [hzu[e][z] EXCEPT !.status = "EXIT_TRANSFER_IN_PROGRESS"]
      BY <1>2, <1>3, <1>5
    <2> QED
      BY <1>1, <1>2, <1>5, <2>1 DEF r, HostZoneUnbonding, Statuses
  <1>6. CASE ~(e \in UnbondingDue(z, d) \/ e \in SweepDue(z, lag))
    <2>1. r = hzu[e][z]
      BY <1>3, <1>6
    <2> QED
      BY <1>1, <1>6, <2>1 DEF r, HostZoneUnbonding
  <1> QED
    BY <1>4, <1>5, <1>6

\* What the day epoch does to the records: those that owe nothing are removed,
\* and one of them becomes the record of the new day.
LEMMA DayRecords ==
    ASSUME StoresInv, NEW lag, DayEpoch(lag)
    PROVE  LET d == (day + 1) % DayCycle IN
           /\ current' \in Eurs /\ hzu' \in RecordStore
           /\ \A z \in Zones : hzu'[current'][z].status \in {"NONE", "UNBONDING_QUEUE"}
           /\ \A e \in Eurs, z \in Zones :
                /\ hzu'[e][z].native = hzu[e][z].native
                /\ \/ /\ hzu[e][z].native = 0 /\ hzu'[e][z].st = 0
                      /\ hzu'[e][z].status \in {"NONE", "UNBONDING_QUEUE"}
                   \/ /\ hzu'[e][z].st = hzu[e][z].st
                      /\ hzu'[e][z].left = hzu[e][z].left
                      /\ hzu'[e][z].status = Submitted(d, lag)[e][z].status
           /\ \A z \in Zones, b \in Accounts : channel'[z][b].state = channel[z][b].state
           /\ \A z \in Zones : channel'[z]["DELEGATION"].pkts =
                channel[z]["DELEGATION"].pkts \cup SubmittedPackets(z, d, lag)
           /\ \A z \in Zones : channel'[z]["REDEMPTION"].pkts = channel[z]["REDEMPTION"].pkts
           /\ UNCHANGED <<urr, orphans, paid>>
  <1> DEFINE d == (day + 1) % DayCycle
             recs == Submitted(d, lag)
             gone == CleanedUp(recs)
             new == CHOOSE e \in gone : TRUE
  <1>1. StoresTypeOK
    BY DEF StoresInv
  <1>2. /\ gone # {} /\ current' = new
        /\ hzu' = CreateEpochUnbondingRecord(recs, gone, new)
        /\ channel' = [z \in Zones |-> [channel[z] EXCEPT !["DELEGATION"].pkts =
              @ \cup SubmittedPackets(z, d, lag)]]
        /\ UNCHANGED <<urr, orphans, paid>>
    BY DEF DayEpoch, Submitted
  <1>3. new \in gone /\ gone \subseteq Eurs
    BY <1>2 DEF CleanedUp
  <1>4. ASSUME NEW e \in Eurs, NEW z \in Zones
        PROVE  /\ recs[e][z] \in HostZoneUnbonding
               /\ recs[e][z].native = hzu[e][z].native /\ recs[e][z].st = hzu[e][z].st
               /\ recs[e][z].left = hzu[e][z].left
    BY <1>1, SubmittedRecords
  <1> HIDE DEF d, recs
  <1>5. \A e \in gone, z \in Zones : hzu[e][z].native = 0
    BY <1>3, <1>4 DEF CleanedUp
  <1> HIDE DEF gone, new
  <1>6. ASSUME NEW e \in Eurs, NEW z \in Zones
        PROVE  \/ e \in gone /\ hzu'[e][z] \in {NewUnbonding, NoUnbonding}
               \/ e \notin gone /\ hzu'[e][z] = recs[e][z]
    <2>1. hzu'[e][z] = IF e = new /\ z \in ActiveZones THEN NewUnbonding
                       ELSE IF e \in gone \cup {new} THEN NoUnbonding ELSE recs[e][z]
      BY <1>2 DEF CreateEpochUnbondingRecord
    <2> QED
      BY <1>3, <2>1
  <1>7. \A r \in {NewUnbonding, NoUnbonding} :
          /\ r \in HostZoneUnbonding /\ r.native = 0 /\ r.st = 0
          /\ r.status \in {"NONE", "UNBONDING_QUEUE"}
    BY TimesZero DEF NewUnbonding, NoUnbonding, HostZoneUnbonding, Statuses
  <1>8. ASSUME NEW e \in Eurs, NEW z \in Zones
        PROVE  /\ hzu'[e][z] \in HostZoneUnbonding
               /\ hzu'[e][z].native = hzu[e][z].native
               /\ e \in gone => hzu'[e][z].status \in {"NONE", "UNBONDING_QUEUE"}
               /\ \/ /\ hzu[e][z].native = 0 /\ hzu'[e][z].st = 0
                     /\ hzu'[e][z].status \in {"NONE", "UNBONDING_QUEUE"}
                  \/ /\ hzu'[e][z].st = hzu[e][z].st
                     /\ hzu'[e][z].left = hzu[e][z].left
                     /\ hzu'[e][z].status = recs[e][z].status
    <2>1. CASE e \in gone
      BY <1>5, <1>6, <1>7, <2>1
    <2>2. CASE e \notin gone
      <3>1. hzu'[e][z] = recs[e][z]
        BY <1>6, <2>2
      <3> QED
        BY <1>4, <2>2, <3>1
    <2> QED
      BY <2>1, <2>2
  <1>9. hzu' \in RecordStore
    <2>1. hzu' = [e \in Eurs |-> [z \in Zones |-> hzu'[e][z]]]
      BY <1>2 DEF CreateEpochUnbondingRecord
    <2> QED
      BY <1>8, <2>1 DEF RecordStore
  <1>10. ASSUME NEW z \in Zones
         PROVE  /\ channel'[z]["DELEGATION"].pkts =
                     channel[z]["DELEGATION"].pkts \cup SubmittedPackets(z, d, lag)
                /\ channel'[z]["DELEGATION"].state = channel[z]["DELEGATION"].state
                /\ channel'[z]["REDEMPTION"] = channel[z]["REDEMPTION"]
    <2>1. channel[z] \in [Accounts -> Channel]
      BY <1>1 DEF StoresTypeOK
    <2>2. channel[z]["DELEGATION"] \in Channel
      BY <2>1 DEF Accounts
    <2>3. channel'[z] = [channel[z] EXCEPT !["DELEGATION"] = [channel[z]["DELEGATION"] EXCEPT !.pkts =
              channel[z]["DELEGATION"].pkts \cup SubmittedPackets(z, d, lag)]]
      BY <1>2
    <2> QED
      BY <2>1, <2>2, <2>3 DEF Accounts, Channel
  <1>11. \A z \in Zones : hzu'[current'][z].status \in {"NONE", "UNBONDING_QUEUE"}
    BY <1>2, <1>3, <1>8
  <1> QED
    BY <1>2, <1>3, <1>8, <1>9, <1>10, <1>11 DEF Accounts, recs, d

\* The packets of the day: one for what is undelegated, one for what is swept.
LEMMA SubmittedPacket ==
    ASSUME StoresTypeOK, NEW z \in Zones, NEW d, NEW lag
    PROVE  /\ IsFiniteSet(SubmittedPackets(z, d, lag))
           /\ \A x \in SubmittedPackets(z, d, lag) :
                /\ x \in Packet /\ x.users = {} /\ x.eurs # {} /\ x.state = "sent"
                /\ x.amount = NativeAmount(hzu, z, x.eurs)
                /\ \/ x.kind = "undelegate" /\ x.eurs = UnbondingDue(z, d)
                   \/ x.kind = "redemption" /\ x.eurs = SweepDue(z, lag)
           /\ \A x, y \in SubmittedPackets(z, d, lag) : x.kind = y.kind => x = y
           /\ UnbondingDue(z, d) # {} => \E x \in SubmittedPackets(z, d, lag) : x.kind = "undelegate"
           /\ SweepDue(z, lag) # {} => \E x \in SubmittedPackets(z, d, lag) : x.kind = "redemption"
  <1> DEFINE due == UnbondingDue(z, d)
             swp == SweepDue(z, lag)
             n == Cardinality(channel[z]["DELEGATION"].pkts)
             rec(kind, S, i) ==
               [kind |-> kind, eurs |-> S, users |-> {}, amount |-> NativeAmount(hzu, z, S),
                seq |-> i, state |-> "sent", left |-> 0]
             j == (IF due = {} THEN 1 ELSE 2) + n
             U == rec("undelegate", due, 1 + n)
             R == rec("redemption", swp, j)
  <1>1. due \in SUBSET Eurs /\ swp \in SUBSET Eurs
    BY DueRecords
  <1>2. SubmittedPackets(z, d, lag) =
           {U : T \in {due} \ {{}}} \cup {R : T \in {swp} \ {{}}}
    BY DEF SubmittedPackets
  <1>3. n \in Nat
    BY FS_CardinalityType DEF StoresTypeOK, Accounts
  <1>4. 1 + n \in Int /\ j \in Int
    <2> HIDE DEF n
    <2> QED
      BY <1>3
  <1>5. NativeAmount(hzu, z, due) \in Nat /\ NativeAmount(hzu, z, swp) \in Nat
    <2>1. hzu \in [Eurs -> [Zones -> HostZoneUnbonding]]
      BY DEF StoresTypeOK
    <2> HIDE DEF due, swp
    <2> QED
      BY <1>1, <2>1, NativeNat
  <1> HIDE DEF due, swp, n, j
  <1>6. /\ U \in Packet /\ U.users = {} /\ U.state = "sent" /\ U.kind = "undelegate"
        /\ U.amount = NativeAmount(hzu, z, due) /\ U.eurs = due
    BY <1>1, <1>4, <1>5, TimesZero DEF Packet, Kinds
  <1>7. /\ R \in Packet /\ R.users = {} /\ R.state = "sent" /\ R.kind = "redemption"
        /\ R.amount = NativeAmount(hzu, z, swp) /\ R.eurs = swp
    BY <1>1, <1>4, <1>5, TimesZero DEF Packet, Kinds
  <1> HIDE DEF U, R
  <1>8. \A x : x \in SubmittedPackets(z, d, lag) <=>
           (due # {} /\ x = U) \/ (swp # {} /\ x = R)
    BY <1>2
  <1>9. IsFiniteSet(SubmittedPackets(z, d, lag))
    <2>1. SubmittedPackets(z, d, lag) \subseteq {U, R}
      BY <1>8
    <2>2. IsFiniteSet({U, R})
      <3>1. IsFiniteSet({U} \cup {R})
        BY FS_AddElement, FS_Singleton
      <3>2. {U, R} = {U} \cup {R}
        OBVIOUS
      <3> QED
        BY <3>1, <3>2
    <2> QED
      BY <2>1, <2>2, FS_Subset
  <1>10. \A x \in SubmittedPackets(z, d, lag) :
                /\ x \in Packet /\ x.users = {} /\ x.eurs # {} /\ x.state = "sent"
                /\ x.amount = NativeAmount(hzu, z, x.eurs)
                /\ \/ x.kind = "undelegate" /\ x.eurs = due
                   \/ x.kind = "redemption" /\ x.eurs = swp
    BY <1>6, <1>7, <1>8
  <1>11. \A x, y \in SubmittedPackets(z, d, lag) : x.kind = y.kind => x = y
    BY <1>6, <1>7, <1>8
  <1>12. /\ due # {} => \E x \in SubmittedPackets(z, d, lag) : x.kind = "undelegate"
         /\ swp # {} => \E x \in SubmittedPackets(z, d, lag) : x.kind = "redemption"
    BY <1>6, <1>7, <1>8
  <1> QED
    BY <1>9, <1>10, <1>11, <1>12 DEF due, swp

\* The records that packets or claims wait for stay, as they owe something.
LEMMA AwaitedStays ==
    ASSUME StoresInv, NEW lag, DayEpoch(lag), NEW e \in Eurs, NEW z \in Zones, hzu[e][z].native > 0
    PROVE  LET d == (day + 1) % DayCycle IN
           /\ hzu'[e][z].st = hzu[e][z].st /\ hzu'[e][z].left = hzu[e][z].left
           /\ e \in UnbondingDue(z, d) => hzu'[e][z].status = "UNBONDING_IN_PROGRESS"
           /\ e \in SweepDue(z, lag) => hzu'[e][z].status = "EXIT_TRANSFER_IN_PROGRESS"
           /\ hzu[e][z].status \notin {"UNBONDING_QUEUE", "EXIT_TRANSFER_QUEUE"}
                => hzu'[e][z].status = hzu[e][z].status
  <1> DEFINE d == (day + 1) % DayCycle
  <1>1. StoresTypeOK
    BY DEF StoresInv
  <1>2. /\ hzu'[e][z].st = hzu[e][z].st
        /\ hzu'[e][z].left = hzu[e][z].left
        /\ hzu'[e][z].status = Submitted(d, lag)[e][z].status
    BY DayRecords
  <1> HIDE DEF d
  <1>3. /\ e \in UnbondingDue(z, d) => Submitted(d, lag)[e][z].status = "UNBONDING_IN_PROGRESS"
        /\ e \in SweepDue(z, lag) => Submitted(d, lag)[e][z].status = "EXIT_TRANSFER_IN_PROGRESS"
        /\ ~(e \in UnbondingDue(z, d) \/ e \in SweepDue(z, lag))
             => Submitted(d, lag)[e][z].status = hzu[e][z].status
    BY <1>1, SubmittedRecords
  <1>4. hzu[e][z].status \notin {"UNBONDING_QUEUE", "EXIT_TRANSFER_QUEUE"}
           => ~(e \in UnbondingDue(z, d) \/ e \in SweepDue(z, lag))
    BY DueRecords
  <1> QED
    BY <1>2, <1>3, <1>4 DEF d

LEMMA DayEpochStep ==
    ASSUME StoresInv, NEW lag, DayEpoch(lag)
    PROVE  StoresInv'
  <1> DEFINE d == (day + 1) % DayCycle
             old(z) == channel[z]["DELEGATION"].pkts
             sub(z) == SubmittedPackets(z, d, lag)
  <1>1. /\ StoresTypeOK /\ PacketsWellFormed /\ RecordsWellFormed /\ PacketsMatch
        /\ OrphansPending /\ PaidOnce /\ UsersOwed
    BY DEF StoresInv
  <1>2. /\ current' \in Eurs /\ hzu' \in RecordStore
        /\ \A z \in Zones : hzu'[current'][z].status \in {"NONE", "UNBONDING_QUEUE"}
        /\ UNCHANGED <<urr, orphans, paid>>
    BY DayRecords
  <1>3. \A e \in Eurs, z \in Zones :
           /\ hzu'[e][z].native = hzu[e][z].native
           /\ \/ /\ hzu[e][z].native = 0 /\ hzu'[e][z].st = 0
                 /\ hzu'[e][z].status \in {"NONE", "UNBONDING_QUEUE"}
              \/ /\ hzu'[e][z].st = hzu[e][z].st
                 /\ hzu'[e][z].status = Submitted(d, lag)[e][z].status
    BY DayRecords
  <1>4. /\ \A z \in Zones, b \in Accounts : channel'[z][b].state = channel[z][b].state
        /\ \A z \in Zones : channel'[z]["DELEGATION"].pkts = old(z) \cup sub(z)
        /\ \A z \in Zones : channel'[z]["REDEMPTION"].pkts = channel[z]["REDEMPTION"].pkts
    BY DayRecords
  <1>5. ASSUME NEW e \in Eurs, NEW z \in Zones, hzu[e][z].native > 0
        PROVE  /\ e \in UnbondingDue(z, d) => hzu'[e][z].status = "UNBONDING_IN_PROGRESS"
               /\ e \in SweepDue(z, lag) => hzu'[e][z].status = "EXIT_TRANSFER_IN_PROGRESS"
               /\ hzu[e][z].status \notin {"UNBONDING_QUEUE", "EXIT_TRANSFER_QUEUE"}
                    => hzu'[e][z].status = hzu[e][z].status
    BY <1>5, AwaitedStays
  <1>6. \A e \in Eurs, z \in Zones : hzu[e][z].native \in Nat
    BY <1>1 DEF StoresTypeOK, HostZoneUnbonding
  <1>7. ASSUME NEW e \in Eurs, NEW z \in Zones, NEW u \in Users, urr[e][z][u].pending
        PROVE  hzu[e][z].status = "CLAIMABLE" /\ hzu[e][z].native > 0
    <2>1. hzu[e][z].status = "CLAIMABLE" /\ urr[e][z][u].amount > 0
      BY <1>1, <1>7 DEF RecordsWellFormed
    <2>2. urr[e][z][u].amount <= hzu[e][z].native /\ urr[e][z][u].amount \in Nat
      BY <1>1, OwedToUser DEF StoresTypeOK, UserRedemptionRecord
    <2> QED
      BY <1>6, <2>1, <2>2
  <1> HIDE DEF d
  <1>8. ASSUME NEW z \in Zones
        PROVE  /\ IsFiniteSet(sub(z))
               /\ \A x \in sub(z) :
                    /\ x \in Packet /\ x.users = {} /\ x.eurs # {}
                    /\ x.amount = NativeAmount(hzu, z, x.eurs)
                    /\ \/ x.kind = "undelegate" /\ x.eurs = UnbondingDue(z, d)
                       \/ x.kind = "redemption" /\ x.eurs = SweepDue(z, lag)
               /\ \A x, y \in sub(z) : x.kind = y.kind => x = y
    BY <1>1, SubmittedPacket
  <1> HIDE DEF sub
  <1>9. ASSUME NEW z \in Zones
        PROVE  /\ UnbondingDue(z, d) \in SUBSET Eurs /\ SweepDue(z, lag) \in SUBSET Eurs
               /\ \A e \in UnbondingDue(z, d) :
                    hzu[e][z].status = "UNBONDING_QUEUE" /\ hzu[e][z].native > 0
               /\ \A e \in SweepDue(z, lag) :
                    hzu[e][z].status = "EXIT_TRANSFER_QUEUE" /\ hzu[e][z].native > 0
               /\ UnbondingDue(z, d) # {} => channel[z]["DELEGATION"].state = "OPEN"
               /\ SweepDue(z, lag) # {} => channel[z]["DELEGATION"].state = "OPEN"
    BY <1>1, DueRecords DEF RecordsWellFormed
  <1>10. "DELEGATION" \in Accounts /\ "REDEMPTION" \in Accounts
    BY DEF Accounts
  <1>11. StoresTypeOK'
    <2>1. ASSUME NEW z \in Zones, NEW b \in Accounts
          PROVE  channel'[z][b].pkts \in SUBSET Packet /\ IsFiniteSet(channel'[z][b].pkts)
      <3>1. channel[z][b].pkts \in SUBSET Packet /\ IsFiniteSet(channel[z][b].pkts)
        BY <1>1 DEF StoresTypeOK, Channel
      <3>2. CASE b = "DELEGATION"
        <4>1. IsFiniteSet(old(z) \cup sub(z))
          BY <1>8, <3>1, <3>2, FS_Union
        <4>2. old(z) \cup sub(z) \in SUBSET Packet
          BY <1>8, <3>1, <3>2
        <4> QED
          BY <1>4, <3>2, <4>1, <4>2
      <3>3. CASE b = "REDEMPTION"
        BY <1>4, <3>1, <3>3
      <3> QED
        BY <3>2, <3>3 DEF Accounts
    <2>2. channel' \in [Zones -> [Accounts -> Channel]]
      <3>1. channel' = [z \in Zones |-> [b \in Accounts |-> channel'[z][b]]]
        <4>1. channel' = [z \in Zones |-> [channel[z] EXCEPT !["DELEGATION"].pkts =
              @ \cup SubmittedPackets(z, d, lag)]]
          BY DEF DayEpoch, d
        <4>2. \A z \in Zones : channel[z] \in [Accounts -> Channel]
          BY <1>1 DEF StoresTypeOK
        <4>3. \A z \in Zones : channel'[z] = [channel[z] EXCEPT !["DELEGATION"] =
                [channel[z]["DELEGATION"] EXCEPT !.pkts =
                  channel[z]["DELEGATION"].pkts \cup SubmittedPackets(z, d, lag)]]
          BY <4>1
        <4>4. \A z \in Zones : channel'[z] = [b \in Accounts |-> channel'[z][b]]
          BY <4>2, <4>3
        <4> QED
          BY <4>1, <4>4
      <3>2. ASSUME NEW z \in Zones, NEW b \in Accounts
            PROVE  channel'[z][b] \in Channel
        <4>1. channel[z] \in [Accounts -> Channel] /\ channel[z]["DELEGATION"] \in Channel
          BY <1>1, <1>10 DEF StoresTypeOK
        <4>2. channel'[z] = [channel[z] EXCEPT !["DELEGATION"] =
                [channel[z]["DELEGATION"] EXCEPT !.pkts = old(z) \cup sub(z)]]
          BY DEF DayEpoch, d, sub
        <4>3. [channel[z]["DELEGATION"] EXCEPT !.pkts = old(z) \cup sub(z)] \in Channel
          <5>1. old(z) \cup sub(z) \in SUBSET Packet
            BY <1>4, <1>10, <2>1
          <5> QED
            BY <4>1, <5>1 DEF Channel
        <4> QED
          BY <4>1, <4>2, <4>3
      <3> QED
        BY <3>1, <3>2
    <2> QED
      BY <1>1, <1>2, <2>1, <2>2 DEF StoresTypeOK, RecordStore
  <1>12. ASSUME NEW z \in Zones, NEW q \in old(z)
         PROVE  /\ q.eurs \subseteq Eurs
                /\ \A e \in q.eurs : /\ hzu[e][z].status \in {"UNBONDING_IN_PROGRESS",
                                                              "EXIT_TRANSFER_IN_PROGRESS"}
                                     /\ hzu[e][z].native > 0
    <2>1. q.eurs # {} => q.kind \in {"undelegate", "redemption"}
      BY <1>1 DEF PacketsWellFormed, DelegationShape
    <2>2. Matches(hzu, urr, z, q) /\ q.eurs \subseteq Eurs
      BY <1>1, <1>10 DEF StoresTypeOK, Channel, Packet, PacketsMatch
    <2>3. \A e \in q.eurs : hzu[e][z].status \in {"UNBONDING_IN_PROGRESS",
                                                  "EXIT_TRANSFER_IN_PROGRESS"}
      BY <2>1, <2>2 DEF Matches, Awaits
    <2> QED
      BY <1>1, <2>1, <2>2, <2>3 DEF RecordsWellFormed
  <1>13. ASSUME NEW z \in Zones
         PROVE  /\ DelegationShape(old(z) \cup sub(z)) /\ Separate(old(z) \cup sub(z))
    <2>1. DelegationShape(old(z) \cup sub(z))
      <3>1. DelegationShape(old(z)) /\ DelegationShape(sub(z))
        BY <1>1, <1>8 DEF PacketsWellFormed, DelegationShape
      <3> QED
        BY <3>1 DEF DelegationShape
    <2>2. Separate(old(z))
      BY <1>1, <1>10 DEF PacketsMatch
    <2>3. \A q \in old(z), x \in sub(z) : q.eurs \cap x.eurs = {}
      BY <1>8, <1>9, <1>12
    <2>4. \A x, y \in sub(z) : x # y => x.eurs \cap y.eurs = {}
      BY <1>8, <1>9
    <2> QED
      BY <2>1, <2>2, <2>3, <2>4 DEF Separate
  <1>14. PacketsWellFormed'
    <2>1. ASSUME NEW z \in Zones, NEW b \in Accounts, channel'[z][b].pkts # {}
          PROVE  channel'[z][b].state = "OPEN"
      <3>1. CASE channel[z][b].pkts # {}
        BY <1>1, <1>4, <3>1 DEF PacketsWellFormed
      <3>2. CASE channel[z][b].pkts = {}
        <4>1. b = "DELEGATION" /\ sub(z) # {}
          BY <1>4, <2>1, <3>2 DEF Accounts
        <4>2. UnbondingDue(z, d) # {} \/ SweepDue(z, lag) # {}
          BY <1>8, <4>1
        <4> QED
          BY <1>4, <1>9, <4>1, <4>2
      <3> QED
        BY <3>1, <3>2
    <2>2. \A z \in Zones : DelegationShape(channel'[z]["DELEGATION"].pkts)
      BY <1>4, <1>13
    <2>3. \A z \in Zones : RedemptionShape(channel'[z]["REDEMPTION"].pkts)
      BY <1>1, <1>4 DEF PacketsWellFormed
    <2> QED
      BY <2>1, <2>2, <2>3 DEF PacketsWellFormed
  <1>15. RecordsWellFormed'
    <2>1. ASSUME NEW e \in Eurs, NEW z \in Zones
          PROVE  /\ hzu'[e][z].status = "NONE" => hzu'[e][z].native = 0 /\ hzu'[e][z].st = 0
                 /\ hzu'[e][z].status = "UNBONDING_QUEUE" /\ hzu'[e][z].native = 0 => hzu'[e][z].st = 0
                 /\ hzu'[e][z].status \in {"UNBONDING_IN_PROGRESS", "EXIT_TRANSFER_QUEUE",
                                           "EXIT_TRANSFER_IN_PROGRESS"} => hzu'[e][z].native > 0
      <3>1. /\ hzu[e][z].status = "NONE" => hzu[e][z].native = 0 /\ hzu[e][z].st = 0
            /\ hzu[e][z].status = "UNBONDING_QUEUE" /\ hzu[e][z].native = 0 => hzu[e][z].st = 0
            /\ hzu[e][z].status \in {"UNBONDING_IN_PROGRESS", "EXIT_TRANSFER_QUEUE",
                                     "EXIT_TRANSFER_IN_PROGRESS"} => hzu[e][z].native > 0
        BY <1>1 DEF RecordsWellFormed
      <3>2. CASE /\ hzu[e][z].native = 0 /\ hzu'[e][z].st = 0
                 /\ hzu'[e][z].status \in {"NONE", "UNBONDING_QUEUE"}
        BY <1>3, <3>2
      <3>3. CASE /\ hzu'[e][z].st = hzu[e][z].st
                 /\ hzu'[e][z].status = Submitted(d, lag)[e][z].status
        <4>1. /\ e \in UnbondingDue(z, d) => hzu'[e][z].status = "UNBONDING_IN_PROGRESS"
              /\ e \in SweepDue(z, lag) => hzu'[e][z].status = "EXIT_TRANSFER_IN_PROGRESS"
              /\ ~(e \in UnbondingDue(z, d) \/ e \in SweepDue(z, lag))
                    => hzu'[e][z].status = hzu[e][z].status
          BY <1>1, <3>3, SubmittedRecords
        <4>2. hzu'[e][z].native = hzu[e][z].native
          BY <1>3
        <4>3. CASE e \in UnbondingDue(z, d) \/ e \in SweepDue(z, lag)
          BY <1>9, <4>1, <4>2, <4>3
        <4>4. CASE ~(e \in UnbondingDue(z, d) \/ e \in SweepDue(z, lag))
          BY <3>1, <3>3, <4>1, <4>2, <4>4
        <4> QED
          BY <4>3, <4>4
      <3> QED
        BY <1>3, <3>2, <3>3
    <2>2. ASSUME NEW e \in Eurs, NEW z \in Zones, NEW u \in Users, urr'[e][z][u].pending
          PROVE  hzu'[e][z].status = "CLAIMABLE" /\ urr'[e][z][u].amount > 0
      <3>1. urr[e][z][u].pending /\ urr'[e][z][u].amount = urr[e][z][u].amount
        BY <1>2, <2>2
      <3>2. hzu[e][z].status = "CLAIMABLE" /\ hzu[e][z].native > 0
        BY <1>7, <3>1
      <3>3. hzu'[e][z].status = "CLAIMABLE"
        BY <1>5, <3>2
      <3> QED
        BY <1>1, <3>1, <3>3 DEF RecordsWellFormed
    <2> QED
      BY <1>2, <2>1, <2>2, Zenon DEF RecordsWellFormed
  <1>16. ASSUME NEW z \in Zones, NEW b \in Accounts, NEW q \in channel[z][b].pkts
         PROVE  Matches(hzu', urr', z, q)
    <2>1. Matches(hzu, urr, z, q) /\ q.eurs \subseteq Eurs /\ q.users \subseteq Users
      BY <1>1 DEF StoresTypeOK, PacketsMatch, Channel, Packet
    <2>2. \A e \in q.eurs : hzu'[e][z].native = hzu[e][z].native
      BY <1>3, <2>1
    <2>3. \A e \in q.eurs, u \in q.users : urr'[e][z][u] = urr[e][z][u]
      BY <1>2
    <2>4. \A e \in q.eurs : /\ hzu[e][z].native > 0
                            /\ hzu[e][z].status \notin {"UNBONDING_QUEUE", "EXIT_TRANSFER_QUEUE"}
      <3>1. CASE b = "DELEGATION"
        BY <1>12, <3>1
      <3>2. CASE b = "REDEMPTION"
        <4>1. /\ q.kind = "claim"
              /\ \E e \in Eurs, u \in Users : q.eurs = {e} /\ q.users = {u}
          BY <1>1, <3>2 DEF PacketsWellFormed, RedemptionShape
        <4>2. PICK e \in Eurs, u \in Users : q.eurs = {e} /\ q.users = {u}
          BY <4>1
        <4>3. urr[e][z][u].pending
          BY <2>1, <4>1, <4>2 DEF Matches
        <4> QED
          BY <1>7, <4>2, <4>3
      <3> QED
        BY <3>1, <3>2 DEF Accounts
    <2>5. \A e \in q.eurs : hzu'[e][z].status = hzu[e][z].status
      BY <1>5, <2>1, <2>4
    <2> QED
      BY <2>1, <2>2, <2>3, <2>5, MatchesKept
  <1>17. ASSUME NEW z \in Zones, NEW x \in sub(z)
         PROVE  Matches(hzu', urr', z, x)
    <2>1. /\ x.amount = NativeAmount(hzu, z, x.eurs)
          /\ \/ x.kind = "undelegate" /\ x.eurs = UnbondingDue(z, d)
             \/ x.kind = "redemption" /\ x.eurs = SweepDue(z, lag)
      BY <1>8
    <2>2. \A e \in x.eurs : e \in Eurs /\ hzu[e][z].native > 0
      BY <1>9, <2>1
    <2>3. \A e \in x.eurs : hzu'[e][z].status = Awaits(x)
      BY <1>5, <2>1, <2>2 DEF Awaits
    <2>4. \A e \in x.eurs : hzu'[e][z].native = hzu[e][z].native
      BY <1>3, <2>2
    <2>5. NativeAmount(hzu', z, x.eurs) = NativeAmount(hzu, z, x.eurs)
      BY <2>4, NativeSame
    <2> QED
      BY <2>1, <2>3, <2>5 DEF Matches
  <1>18. PacketsMatch'
    <2> SUFFICES ASSUME NEW z \in Zones, NEW b \in Accounts
                 PROVE  /\ Separate(channel'[z][b].pkts)
                        /\ \A q \in channel'[z][b].pkts : Matches(hzu', urr', z, q)
      BY DEF PacketsMatch
    <2>1. CASE b = "DELEGATION"
      BY <1>4, <1>13, <1>16, <1>17, <2>1
    <2>2. CASE b = "REDEMPTION"
      BY <1>1, <1>4, <1>16, <2>2 DEF PacketsMatch
    <2> QED
      BY <2>1, <2>2 DEF Accounts
  <1>19. ASSUME NEW k \in Key
         PROVE  channel'[k.zone]["REDEMPTION"].pkts = channel[k.zone]["REDEMPTION"].pkts
    BY <1>4 DEF Key
  <1>20. OrphansPending'
    BY <1>1, <1>2, <1>19 DEF OrphansPending, StoresTypeOK
  <1>21. PaidOnce'
    BY <1>1, <1>2, <1>19 DEF PaidOnce, StoresTypeOK
  <1>22. UsersOwed'
    BY <1>1, <1>2, <1>3 DEF UsersOwed
  <1> QED
    BY <1>11, <1>14, <1>15, <1>18, <1>20, <1>21, <1>22 DEF StoresInv

-----------------------------------------------------------------------------
(* Sums over packets *)

Amounts == [p \in Packet |-> p.amount]

\* Whatever set it is taken for, a packet counts for its amount.
LEMMA PacketSumAmounts ==
    ASSUME NEW S \in SUBSET Packet, IsFiniteSet(S)
    PROVE  PacketSum(S) = SumFunctionOnSet(Amounts, S) /\ \A p \in S : Amounts[p] \in Nat
  <1>1. \A p \in S : PacketAmounts(S)[p] = Amounts[p] /\ Amounts[p] \in Nat
    BY DEF PacketAmounts, Amounts, Packet
  <1>2. SumFunctionOnSet(PacketAmounts(S), S) = SumFunctionOnSet(Amounts, S)
    BY <1>1, SumSame
  <1> QED
    BY <1>1, <1>2 DEF PacketSum

\* A sum of amounts is a number ...
LEMMA PacketSumNat ==
    ASSUME NEW S \in SUBSET Packet, IsFiniteSet(S)
    PROVE  PacketSum(S) \in Nat
  BY PacketSumAmounts, SumNat

\* ... which one more packet increases by its amount.
LEMMA PacketSumAdd ==
    ASSUME NEW S \in SUBSET Packet, IsFiniteSet(S), NEW p \in Packet, p \notin S
    PROVE  PacketSum(S \cup {p}) = PacketSum(S) + p.amount
  <1> DEFINE T == S \cup {p}
  <1>1. T \in SUBSET Packet /\ IsFiniteSet(T)
    BY FS_AddElement
  <1>2. PacketSum(T) = SumFunctionOnSet(Amounts, T) /\ \A q \in T : Amounts[q] \in Nat
    BY <1>1, PacketSumAmounts
  <1>3. PacketSum(S) = SumFunctionOnSet(Amounts, S) /\ PacketSum(S) \in Nat
    BY PacketSumAmounts, PacketSumNat
  <1>4. SumFunctionOnSet(Amounts, T) = Amounts[p] + SumFunctionOnSet(Amounts, S)
    BY <1>2, SumAdd
  <1>5. Amounts[p] = p.amount /\ p.amount \in Nat
    BY DEF Amounts, Packet
  <1> QED
    BY <1>2, <1>3, <1>4, <1>5

\* The packets of a kind in some states are packets of the channel.
LEMMA KindFinite ==
    ASSUME NEW S \in SUBSET Packet, IsFiniteSet(S), NEW kind, NEW states
    PROVE  /\ PacketsOf(S, kind, states) \in SUBSET Packet
           /\ IsFiniteSet(PacketsOf(S, kind, states))
  <1>1. PacketsOf(S, kind, states) \subseteq S
    BY DEF PacketsOf
  <1> QED
    BY <1>1, FS_Subset

LEMMA KindSumNat ==
    ASSUME NEW S \in SUBSET Packet, IsFiniteSet(S), NEW kind, NEW states
    PROVE  KindSum(S, kind, states) \in Nat
  BY KindFinite, PacketSumNat DEF KindSum

LEMMA KindSumEmpty ==
    ASSUME NEW S, NEW kind, NEW states, \A p \in S : ~(p.kind = kind /\ p.state \in states)
    PROVE  KindSum(S, kind, states) = 0
  <1>1. PacketsOf(S, kind, states) = {}
    BY DEF PacketsOf
  <1> QED
    BY <1>1, SumEmpty DEF KindSum, PacketSum

\* Packets of another kind or in other states do not count.
LEMMA KindSumOther ==
    ASSUME NEW S, NEW T, NEW kind, NEW states, \A p \in T : ~(p.kind = kind /\ p.state \in states)
    PROVE  KindSum(S \cup T, kind, states) = KindSum(S, kind, states)
  <1>1. PacketsOf(S \cup T, kind, states) = PacketsOf(S, kind, states)
    BY DEF PacketsOf
  <1> QED
    BY <1>1 DEF KindSum

\* What a packet counts for.
Counted(p, kind, states) == IF p.kind = kind /\ p.state \in states THEN p.amount ELSE 0

LEMMA KindSumAdd ==
    ASSUME NEW S \in SUBSET Packet, IsFiniteSet(S), NEW p \in Packet, p \notin S,
           NEW kind, NEW states
    PROVE  KindSum(S \cup {p}, kind, states) = KindSum(S, kind, states) + Counted(p, kind, states)
  <1>1. PacketsOf(S, kind, states) \in SUBSET Packet /\ IsFiniteSet(PacketsOf(S, kind, states))
    BY KindFinite
  <1>2. CASE p.kind = kind /\ p.state \in states
    <2>1. /\ PacketsOf(S \cup {p}, kind, states) = PacketsOf(S, kind, states) \cup {p}
          /\ p \notin PacketsOf(S, kind, states)
      BY <1>2 DEF PacketsOf
    <2> QED
      BY <1>1, <1>2, <2>1, PacketSumAdd DEF KindSum, Counted
  <1>3. CASE ~(p.kind = kind /\ p.state \in states)
    <2>1. PacketsOf(S \cup {p}, kind, states) = PacketsOf(S, kind, states)
      BY <1>3 DEF PacketsOf
    <2>2. PacketSum(PacketsOf(S, kind, states)) \in Nat
      BY <1>1, PacketSumNat
    <2> QED
      BY <1>3, <2>1, <2>2 DEF KindSum, Counted
  <1> QED
    BY <1>2, <1>3

LEMMA KindSumRemove ==
    ASSUME NEW S \in SUBSET Packet, IsFiniteSet(S), NEW p \in S, NEW kind, NEW states
    PROVE  KindSum(S, kind, states) = KindSum(S \ {p}, kind, states) + Counted(p, kind, states)
  <1> DEFINE T == S \ {p}
  <1>1. T \in SUBSET Packet /\ IsFiniteSet(T) /\ p \in Packet /\ p \notin T /\ S = T \cup {p}
    BY FS_RemoveElement
  <1> HIDE DEF T
  <1>2. KindSum(T \cup {p}, kind, states) = KindSum(T, kind, states) + Counted(p, kind, states)
    BY <1>1, KindSumAdd
  <1> QED
    BY <1>1, <1>2 DEF T

\* Packets renamed one by one, each with its kind, state and amount.
LEMMA KindSumRenamed ==
    ASSUME NEW S \in SUBSET Packet, IsFiniteSet(S), NEW h,
           \A p \in S : h[p] \in Packet,
           \A p \in S : h[p].kind = p.kind,
           \A p \in S : h[p].state = p.state,
           \A p \in S : h[p].amount = p.amount,
           \A p, q \in S : h[p] = h[q] => p = q,
           NEW kind, NEW states
    PROVE  KindSum({h[p] : p \in S}, kind, states) = KindSum(S, kind, states)
  <1> DEFINE T == {h[p] : p \in S}
             okS == PacketsOf(S, kind, states)
             okT == PacketsOf(T, kind, states)
  <1>1. okS \in SUBSET Packet /\ IsFiniteSet(okS)
    BY KindFinite
  <1>2. okT = {h[p] : p \in okS}
    BY DEF PacketsOf
  <1>3. okT \in SUBSET Packet
    BY DEF PacketsOf
  <1>4. IsFiniteSet(okT)
    <2> DEFINE f == [p \in okS |-> h[p]]
    <2>1. f \in Surjection(okS, okT)
      BY <1>2 DEF Surjection
    <2> QED
      BY <1>1, <2>1, FS_Surjection
  <1>5. \A p, q \in okS : h[p] = h[q] => p = q
    BY DEF PacketsOf
  <1>6. \A p \in okS : p \in S
    BY DEF PacketsOf
  <1>7. \A p \in okS : Amounts[p] = Amounts[h[p]] /\ Amounts[p] \in Int
    BY <1>1, <1>6 DEF Amounts, Packet
  <1> HIDE DEF okS, okT
  <1>8. SumFunctionOnSet(Amounts, okS) = SumFunctionOnSet(Amounts, {h[p] : p \in okS})
    BY <1>1, <1>5, <1>7, SumReindex
  <1>9. PacketSum(okT) = SumFunctionOnSet(Amounts, okT)
    BY <1>3, <1>4, PacketSumAmounts
  <1>10. PacketSum(okS) = SumFunctionOnSet(Amounts, okS)
    BY <1>1, PacketSumAmounts
  <1>11. PacketSum(okT) = PacketSum(okS)
    BY <1>2, <1>8, <1>9, <1>10
  <1> QED
    BY <1>11 DEF KindSum, okS, okT

\* No two packets of a channel have the same number.
Distinct(S) == \A p, q \in S : p.seq = q.seq => p = q

\* A tick of the host moves no packet's amount.
LEMMA KindSumAged ==
    ASSUME NEW S \in SUBSET Packet, IsFiniteSet(S), Distinct(S), NEW kind, NEW states
    PROVE  KindSum(AgedAll(S), kind, states) = KindSum(S, kind, states)
  <1> DEFINE h == [p \in S |-> Aged(p)]
  <1>1. \A p \in S : h[p] = Aged(p)
    OBVIOUS
  <1>2. \A p \in S : Aged(p) \in Packet /\ Same(Aged(p), p) /\ Aged(p).state = p.state
    BY AgedSame
  <1>3. \A p \in S : Aged(p).seq = p.seq
    BY DEF Aged, Packet
  <1>4. AgedAll(S) = {h[p] : p \in S}
    BY DEF AgedAll
  <1> HIDE DEF h
  <1>5. /\ \A p \in S : h[p] \in Packet
        /\ \A p \in S : h[p].kind = p.kind
        /\ \A p \in S : h[p].state = p.state
        /\ \A p \in S : h[p].amount = p.amount
    BY <1>1, <1>2 DEF Same
  <1>6. \A p, q \in S : h[p] = h[q] => p = q
    BY <1>1, <1>3 DEF Distinct
  <1>7. KindSum({h[p] : p \in S}, kind, states) = KindSum(S, kind, states)
    BY <1>5, <1>6, KindSumRenamed
  <1> QED
    BY <1>4, <1>7

\* Nor does it matter that packets move up.
LEMMA KindSumMovedUp ==
    ASSUME NEW S \in SUBSET Packet, IsFiniteSet(S), NEW kind, NEW states
    PROVE  KindSum(MovedUp(S), kind, states) = KindSum(S, kind, states)
  <1> DEFINE Up(q) == [q EXCEPT !.seq = @ - 1]
             h == [p \in S |-> Up(p)]
  <1>1. \A p \in S : h[p] = Up(p)
    OBVIOUS
  <1>2. \A p \in S : /\ Up(p) \in Packet
                     /\ Up(p).kind = p.kind /\ Up(p).state = p.state /\ Up(p).amount = p.amount
                     /\ Up(p).eurs = p.eurs /\ Up(p).users = p.users /\ Up(p).left = p.left
                     /\ Up(p).seq = p.seq - 1
    <2> SUFFICES ASSUME NEW p \in S
                 PROVE  /\ Up(p) \in Packet
                     /\ Up(p).kind = p.kind /\ Up(p).state = p.state /\ Up(p).amount = p.amount
                     /\ Up(p).eurs = p.eurs /\ Up(p).users = p.users /\ Up(p).left = p.left
                     /\ Up(p).seq = p.seq - 1
      OBVIOUS
    <2>1. p \in Packet /\ p.seq - 1 \in Int
      BY DEF Packet
    <2>2. \A i \in Int :
            /\ [p EXCEPT !.seq = i] \in Packet
            /\ [p EXCEPT !.seq = i].kind = p.kind /\ [p EXCEPT !.seq = i].state = p.state
            /\ [p EXCEPT !.seq = i].amount = p.amount /\ [p EXCEPT !.seq = i].eurs = p.eurs
            /\ [p EXCEPT !.seq = i].users = p.users /\ [p EXCEPT !.seq = i].left = p.left
            /\ [p EXCEPT !.seq = i].seq = i
      BY <2>1 DEF Packet
    <2> QED
      BY <2>1, <2>2
  <1>3. MovedUp(S) = {h[p] : p \in S}
    BY DEF MovedUp
  <1> HIDE DEF h, Up
  <1>4. /\ \A p \in S : h[p] \in Packet
        /\ \A p \in S : h[p].kind = p.kind
        /\ \A p \in S : h[p].state = p.state
        /\ \A p \in S : h[p].amount = p.amount
    BY <1>1, <1>2
  <1>5. \A p, q \in S : h[p] = h[q] => p = q
    <2> SUFFICES ASSUME NEW p \in S, NEW q \in S, h[p] = h[q]
                 PROVE  p = q
      OBVIOUS
    <2>1. p \in Packet /\ q \in Packet
      OBVIOUS
    <2>2. p.kind = q.kind /\ p.state = q.state /\ p.amount = q.amount /\ p.eurs = q.eurs
          /\ p.users = q.users /\ p.left = q.left /\ p.seq - 1 = q.seq - 1
      BY <1>1, <1>2
    <2>3. p.seq = q.seq
      BY <2>1, <2>2 DEF Packet
    <2> QED
      BY <2>1, <2>2, <2>3 DEF Packet
  <1>6. KindSum({h[p] : p \in S}, kind, states) = KindSum(S, kind, states)
    BY <1>4, <1>5, KindSumRenamed
  <1> QED
    BY <1>3, <1>6

\* A packet that the host executes is still under way.
Executing(S, p, result, T, U) ==
    /\ S \in SUBSET Packet /\ IsFiniteSet(S) /\ Distinct(S) /\ p \in S /\ result \in {"ok", "err"}
    /\ T = S \ {p}
    /\ U = T \cup {ExecutedPacket(p, result)}

LEMMA KindSumExecuted ==
    ASSUME NEW S, NEW p, NEW result, NEW T, NEW U, Executing(S, p, result, T, U),
           NEW kind, NEW states
    PROVE  /\ KindSum(T, kind, states) \in Nat
           /\ KindSum(S, kind, states) = KindSum(T, kind, states) + Counted(p, kind, states)
           /\ KindSum(U, kind, states)
                = KindSum(T, kind, states) + Counted(ExecutedPacket(p, result), kind, states)
  <1> DEFINE new == ExecutedPacket(p, result)
  <1>1. /\ S \in SUBSET Packet /\ IsFiniteSet(S) /\ Distinct(S) /\ p \in S
        /\ result \in {"ok", "err"} /\ T = S \ {p} /\ U = T \cup {new}
    BY DEF Executing
  <1>2. T \in SUBSET Packet /\ IsFiniteSet(T)
    BY <1>1, FS_RemoveElement
  <1>3. new \in Packet /\ new.seq = p.seq
    BY <1>1, ExecutedPacketSame DEF ExecutedPacket, Packet
  <1> HIDE DEF new
  <1>4. new \notin T
    BY <1>1, <1>3 DEF Distinct
  <1>5. KindSum(U, kind, states) = KindSum(T, kind, states) + Counted(new, kind, states)
    BY <1>1, <1>2, <1>3, <1>4, KindSumAdd
  <1>6. KindSum(S, kind, states) = KindSum(T, kind, states) + Counted(p, kind, states)
    BY <1>1, KindSumRemove
  <1>7. KindSum(T, kind, states) \in Nat
    BY <1>2, KindSumNat
  <1> QED
    BY <1>5, <1>6, <1>7 DEF new

LEMMA ChannelDistinct ==
    ASSUME PacketsNumbered, NEW z \in Zones, NEW a \in Accounts
    PROVE  Distinct(channel[z][a].pkts)
  BY DEF PacketsNumbered, Numbered, Distinct

\* What the host has executed without the news, and the delegations under way.
LEMMA ExecutedSum ==
    ASSUME NEW z, NEW a, NEW kind
    PROVE  Executed(z, a, kind) = OkSum(channel[z][a].pkts, kind)
  <1> DEFINE S == PacketsOf(channel[z][a].pkts, kind, {"ok"})
  <1>1. S = {p \in channel[z][a].pkts : p.state = "ok" /\ p.kind = kind}
    BY DEF PacketsOf
  <1>2. Executed(z, a, kind) = SumFunction(PacketAmounts(S))
    BY <1>1, Zenon DEF Executed, PacketAmounts
  <1>3. DOMAIN PacketAmounts(S) = S
    BY DEF PacketAmounts
  <1> HIDE DEF S
  <1>4. SumFunction(PacketAmounts(S)) = SumFunctionOnSet(PacketAmounts(S), S)
    BY <1>3, Zenon DEF SumFunction
  <1> QED
    BY <1>2, <1>4 DEF S, PacketSum, KindSum, OkSum

LEMMA DelegatingSum ==
    ASSUME StoresTypeOK, NEW z \in Zones
    PROVE  Delegating(z) = StakingSum(channel[z]["DELEGATION"].pkts)
  <1> DEFINE S == PacketsOf(channel[z]["DELEGATION"].pkts, "delegate", {"sent", "ok", "err"})
  <1>1. S = {p \in channel[z]["DELEGATION"].pkts : p.kind = "delegate"}
    BY DEF PacketsOf, StoresTypeOK, Channel, Packet, Accounts
  <1>2. Delegating(z) = SumFunction(PacketAmounts(S))
    BY <1>1, Zenon DEF Delegating, PacketAmounts
  <1>3. DOMAIN PacketAmounts(S) = S
    BY DEF PacketAmounts
  <1> HIDE DEF S
  <1>4. SumFunction(PacketAmounts(S)) = SumFunctionOnSet(PacketAmounts(S), S)
    BY <1>3, Zenon DEF SumFunction
  <1> QED
    BY <1>2, <1>4 DEF S, PacketSum, KindSum, StakingSum

LEMMA ExecutedNat ==
    ASSUME StoresTypeOK, NEW z \in Zones, NEW a \in Accounts, NEW kind
    PROVE  Executed(z, a, kind) \in Nat
  <1>1. channel[z][a].pkts \in SUBSET Packet /\ IsFiniteSet(channel[z][a].pkts)
    BY DEF StoresTypeOK, Channel
  <1>2. OkSum(channel[z][a].pkts, kind) \in Nat
    BY <1>1, KindSumNat DEF OkSum
  <1> QED
    BY <1>2, ExecutedSum

-----------------------------------------------------------------------------
(* The accounts *)

LEMMA StNat ==
    ASSUME NEW h, h \in RecordStore, NEW z \in Zones, NEW S \in SUBSET Eurs
    PROVE  StAmount(h, z, S) \in Nat
  <1> DEFINE f == [e \in S |-> h[e][z].st]
  <1>1. IsFiniteSet(S)
    BY FS_Subset, UnbondingRecordsAssumption
  <1>2. DOMAIN f = S
    OBVIOUS
  <1>3. \A e \in S : f[e] \in Nat
    BY DEF HostZoneUnbonding, RecordStore
  <1> HIDE DEF f
  <1>4. SumFunctionOnSet(f, S) \in Nat
    BY <1>1, <1>3, SumNat
  <1>5. StAmount(h, z, S) = SumFunctionOnSet(f, DOMAIN f)
    BY Zenon DEF StAmount, SumFunction, f
  <1> QED
    BY <1>2, <1>4, <1>5

\* The deposits of a delegation under way are in progress.
LEMMA DelegationCovered ==
    ASSUME RecordsInv, NEW z \in Zones, NEW a \in Accounts, NEW p \in channel[z][a].pkts,
           p.kind = "delegate"
    PROVE  /\ a = "DELEGATION" /\ channel[z][a].state = "OPEN"
           /\ p.amount \in Nat /\ p.amount <= staking[z] /\ staking[z] <= deposits[z]
  <1>1. StoresTypeOK /\ PacketsWellFormed /\ StakingInv
    BY DEF RecordsInv, StoresInv
  <1>2. a = "DELEGATION" /\ channel[z][a].state = "OPEN"
    BY <1>1 DEF PacketsWellFormed, RedemptionShape, Accounts
  <1> DEFINE S == channel[z]["DELEGATION"].pkts
             all == {"sent", "ok", "err"}
             T == S \ {p}
  <1>3. S \in SUBSET Packet /\ IsFiniteSet(S) /\ p \in S
    BY <1>1, <1>2 DEF StoresTypeOK, Channel
  <1>4. staking[z] = KindSum(S, "delegate", all) /\ staking[z] <= deposits[z]
    BY <1>1, <1>2 DEF StakingInv, StakingSum
  <1>5. p.amount \in Nat /\ Counted(p, "delegate", all) = p.amount
    BY <1>3 DEF Packet, Counted
  <1>6. T \in SUBSET Packet /\ IsFiniteSet(T)
    BY <1>3, FS_RemoveElement
  <1> HIDE DEF S, all
  <1>7. KindSum(S, "delegate", all) = KindSum(T, "delegate", all) + Counted(p, "delegate", all)
    BY <1>3, KindSumRemove
  <1> HIDE DEF T
  <1>8. KindSum(T, "delegate", all) \in Nat
    BY <1>6, KindSumNat
  <1> QED
    BY <1>2, <1>4, <1>5, <1>7, <1>8

LEMMA AckAccounts ==
    ASSUME RecordsInv, NEW z \in Zones, NEW a \in Accounts, NEW p \in channel[z][a].pkts,
           AckICA(z, a, p)
    PROVE  AccountsTypeOK'
  <1>1. StoresTypeOK /\ AccountsTypeOK
    BY DEF RecordsInv, StoresInv
  <1>2. p \in Packet /\ p.amount \in Nat /\ p.eurs \in SUBSET Eurs
    BY <1>1 DEF StoresTypeOK, Channel, Packet
  <1>3. UnstakedAmount(p) \in Nat
    BY <1>2 DEF UnstakedAmount
  <1>4. BurnAmount(z, p) \in Nat
    <2>1. StAmount(hzu, z, p.eurs) \in Nat
      BY <1>1, <1>2, StNat DEF StoresTypeOK, RecordStore
    <2> QED
      BY <2>1 DEF BurnAmount
  <1>5. UNCHANGED <<stWallet, delegated, hostAcct, redemptionAcct, rewardsLeft, unbonding, lost>>
    BY DEF AckICA, host
  <1> DEFINE told == IF p.state = "ok" THEN p.amount ELSE 0
  <1>6. told \in Nat /\ told <= p.amount
    BY <1>2
  <1>7. \/ UNCHANGED <<deposits, staking>>
        \/ /\ p.kind = "delegate"
           /\ deposits' = [deposits EXCEPT ![z] = @ - told]
           /\ staking' = [staking EXCEPT ![z] = @ - p.amount]
    BY DEF AckICA, DelegateCallback
  <1>8. \/ UNCHANGED zone
        \/ /\ zone[z].stakedBal >= UnstakedAmount(p)
           /\ zone' = [zone EXCEPT ![z].stakedBal = @ - UnstakedAmount(p)]
        \/ zone' = [zone EXCEPT ![z].stakedBal = @ + told]
    BY DEF AckICA, DelegateCallback
  <1> HIDE DEF told
  <1>9. zone' \in [Zones -> [halted : BOOLEAN, redemptionRate : Nat, stakedBal : Nat]]
    <2>1. CASE UNCHANGED zone
      BY <1>1, <2>1 DEF AccountsTypeOK
    <2>2. CASE /\ zone[z].stakedBal >= UnstakedAmount(p)
               /\ zone' = [zone EXCEPT ![z].stakedBal = @ - UnstakedAmount(p)]
      <3>1. zone[z].stakedBal - UnstakedAmount(p) \in Nat
        BY <1>1, <1>3, <2>2 DEF AccountsTypeOK
      <3> QED
        BY <1>1, <2>2, <3>1 DEF AccountsTypeOK
    <2>3. CASE zone' = [zone EXCEPT ![z].stakedBal = @ + told]
      <3>1. zone[z].stakedBal + told \in Nat
        BY <1>1, <1>6 DEF AccountsTypeOK
      <3> QED
        BY <1>1, <2>3, <3>1 DEF AccountsTypeOK
    <2> QED
      BY <1>8, <2>1, <2>2, <2>3
  <1>10. escrow' \in [Zones -> Nat]
    <2>1. CASE UNCHANGED escrow
      BY <1>1, <2>1 DEF AccountsTypeOK
    <2>2. CASE /\ escrow[z] >= BurnAmount(z, p)
               /\ escrow' = [escrow EXCEPT ![z] = @ - BurnAmount(z, p)]
      BY <1>1, <1>4, <2>2 DEF AccountsTypeOK
    <2> QED
      BY <2>1, <2>2 DEF AckICA
  <1>11. deposits' \in [Zones -> Nat] /\ staking' \in [Zones -> Nat]
    <2>1. deposits \in [Zones -> Nat] /\ staking \in [Zones -> Nat]
      BY <1>1 DEF AccountsTypeOK
    <2>2. CASE UNCHANGED <<deposits, staking>>
      BY <2>1, <2>2
    <2>3. CASE /\ p.kind = "delegate"
               /\ deposits' = [deposits EXCEPT ![z] = @ - told]
               /\ staking' = [staking EXCEPT ![z] = @ - p.amount]
      <3>1. p.amount <= staking[z] /\ staking[z] <= deposits[z]
        BY <2>3, DelegationCovered
      <3>2. deposits[z] - told \in Nat /\ staking[z] - p.amount \in Nat
        BY <1>2, <1>6, <2>1, <3>1
      <3> QED
        BY <2>1, <2>3, <3>2
    <2> QED
      BY <1>7, <2>2, <2>3
  <1> QED
    BY <1>1, <1>5, <1>9, <1>10, <1>11 DEF AccountsTypeOK

LEMMA CloseAccounts ==
    ASSUME RecordsInv, NEW z \in Zones, NEW a \in Accounts, NEW X, CloseChannel(z, a, X)
    PROVE  AccountsTypeOK'
  <1>1. StoresTypeOK /\ AccountsTypeOK
    BY DEF RecordsInv, StoresInv
  <1>2. \A k \in Kinds : Executed(z, a, k) \in Nat
    BY <1>1, ExecutedNat
  <1>3. lost' = [lost EXCEPT ![z] = [k \in Kinds |-> @[k] + Executed(z, a, k)]]
    BY DEF CloseChannel
  <1>4. lost' \in [Zones -> [Kinds -> Nat]]
    <2> DEFINE row == [k \in Kinds |-> lost[z][k] + Executed(z, a, k)]
    <2>1. row \in [Kinds -> Nat]
      BY <1>1, <1>2 DEF AccountsTypeOK
    <2>2. lost' = [lost EXCEPT ![z] = row]
      BY <1>3
    <2> HIDE DEF row
    <2> QED
      BY <1>1, <2>1, <2>2 DEF AccountsTypeOK
  <1>5. UNCHANGED <<zone, stWallet, escrow, deposits, staking, rewardsLeft, delegated, unbonding,
                    hostAcct, redemptionAcct>>
    BY DEF CloseChannel, accounts, host
  <1> QED
    BY <1>1, <1>4, <1>5 DEF AccountsTypeOK

LEMMA ExecuteAccounts ==
    ASSUME RecordsInv, NEW z \in Zones, NEW a \in Accounts, NEW p \in channel[z][a].pkts,
           NEW result, ExecuteICA(z, a, p, result)
    PROVE  AccountsTypeOK'
  <1>1. StoresTypeOK /\ AccountsTypeOK
    BY DEF RecordsInv, StoresInv
  <1>2. p.amount \in Nat
    BY <1>1 DEF StoresTypeOK, Channel, Packet
  <1>3. UNCHANGED <<zone, stWallet, escrow, deposits, staking, rewardsLeft, lost>>
    BY DEF ExecuteICA, accounts
  <1>4. /\ delegated' \in [Zones -> Nat] /\ hostAcct' \in [Zones -> Nat]
        /\ redemptionAcct' \in [Zones -> Nat] /\ unbonding' \in [Zones -> [1..UnbondingPeriod -> Nat]]
    <2>1. CASE UNCHANGED host
      BY <1>1, <2>1 DEF AccountsTypeOK, host
    <2>2. CASE /\ delegated[z] >= p.amount
               /\ delegated' = [delegated EXCEPT ![z] = @ - p.amount]
               /\ unbonding' = [unbonding EXCEPT ![z][UnbondingPeriod] = @ + p.amount]
               /\ UNCHANGED <<hostAcct, redemptionAcct>>
      <3>1. unbonding[z][UnbondingPeriod] + p.amount \in Nat
        <4>1. UnbondingPeriod \in 1..UnbondingPeriod
          BY UnbondingRecordsAssumption
        <4>2. unbonding[z][UnbondingPeriod] \in Nat
          BY <1>1, <4>1 DEF AccountsTypeOK
        <4> QED
          BY <1>2, <4>2
      <3>2. unbonding' \in [Zones -> [1..UnbondingPeriod -> Nat]]
        BY <1>1, <2>2, <3>1 DEF AccountsTypeOK
      <3>3. delegated' \in [Zones -> Nat]
        <4>1. delegated \in [Zones -> Nat]
          BY <1>1 DEF AccountsTypeOK
        <4> QED
          BY <1>2, <2>2, <4>1
      <3> QED
        BY <1>1, <2>2, <3>2, <3>3 DEF AccountsTypeOK
    <2>3. CASE /\ hostAcct[z] >= p.amount
               /\ hostAcct' = [hostAcct EXCEPT ![z] = @ - p.amount]
               /\ redemptionAcct' = [redemptionAcct EXCEPT ![z] = @ + p.amount]
               /\ UNCHANGED <<delegated, unbonding>>
      BY <1>1, <1>2, <2>3 DEF AccountsTypeOK
    <2>4. CASE /\ redemptionAcct[z] >= p.amount
               /\ redemptionAcct' = [redemptionAcct EXCEPT ![z] = @ - p.amount]
               /\ UNCHANGED <<delegated, unbonding, hostAcct>>
      BY <1>1, <1>2, <2>4 DEF AccountsTypeOK
    <2>5. CASE /\ hostAcct[z] >= p.amount
               /\ hostAcct' = [hostAcct EXCEPT ![z] = @ - p.amount]
               /\ delegated' = [delegated EXCEPT ![z] = @ + p.amount]
               /\ UNCHANGED <<unbonding, redemptionAcct>>
      BY <1>1, <1>2, <2>5 DEF AccountsTypeOK
    <2> QED
      BY <2>1, <2>2, <2>3, <2>4, <2>5 DEF ExecuteICA
  <1> QED
    BY <1>1, <1>3, <1>4 DEF AccountsTypeOK

LEMMA RedeemStakeAccounts ==
    ASSUME RecordsInv, NEW z \in Zones, NEW u \in Users, NEW amount \in RedeemAmounts,
           RedeemStake(z, u, amount)
    PROVE  AccountsTypeOK'
  <1>1. AccountsTypeOK
    BY DEF RecordsInv
  <1>2. amount \in Nat
    BY UnbondingRecordsAssumption
  <1>3. /\ stWallet[z] >= amount
        /\ stWallet' = [stWallet EXCEPT ![z] = @ - amount]
        /\ escrow' = [escrow EXCEPT ![z] = @ + amount]
        /\ UNCHANGED <<zone, deposits, staking, rewardsLeft, delegated, unbonding, hostAcct,
                       redemptionAcct, lost>>
    BY DEF RedeemStake, host, ghosts
  <1>4. stWallet' \in [Zones -> Nat] /\ escrow' \in [Zones -> Nat]
    <2>1. stWallet \in [Zones -> Nat] /\ escrow \in [Zones -> Nat]
      BY <1>1 DEF AccountsTypeOK
    <2> QED
      BY <1>2, <1>3, <2>1
  <1> QED
    BY <1>1, <1>3, <1>4 DEF AccountsTypeOK

LEMMA TickAccounts ==
    ASSUME RecordsInv, Tick
    PROVE  AccountsTypeOK'
  <1>1. AccountsTypeOK
    BY DEF RecordsInv
  <1>2. UNCHANGED <<zone, stWallet, escrow, deposits, staking, rewardsLeft, delegated,
                    redemptionAcct, lost>>
    BY DEF Tick, accounts, ghosts
  <1>3. \A z \in Zones : \A t \in 1..UnbondingPeriod : unbonding[z][t] \in Nat
    BY <1>1 DEF AccountsTypeOK
  <1>4. UnbondingPeriod \in Nat \ {0}
    BY UnbondingRecordsAssumption
  <1>5. unbonding' \in [Zones -> [1..UnbondingPeriod -> Nat]]
    <2>1. \A t \in 1..UnbondingPeriod : t # UnbondingPeriod => t + 1 \in 1..UnbondingPeriod
      BY <1>4
    <2>2. unbonding' = [z \in Zones |-> [t \in 1..UnbondingPeriod |->
            IF t = UnbondingPeriod THEN 0 ELSE unbonding[z][t + 1]]]
      BY DEF Tick
    <2> QED
      BY <1>3, <2>1, <2>2
  <1>6. hostAcct' \in [Zones -> Nat]
    <2>1. \A z \in Zones : hostAcct[z] \in Nat /\ unbonding[z][1] \in Nat
      <3>1. 1 \in 1..UnbondingPeriod
        BY <1>4
      <3> QED
        BY <1>1, <1>3, <3>1 DEF AccountsTypeOK
    <2>2. hostAcct' = [z \in Zones |-> hostAcct[z] + unbonding[z][1]]
      BY DEF Tick
    <2> QED
      BY <2>1, <2>2
  <1> QED
    BY <1>1, <1>2, <1>5, <1>6 DEF AccountsTypeOK

\* The steps of the deposits' side, but for delegations.
DepositsSide(z) ==
    Reinvest(z) \/ UpdateRedemptionRates(z) \/ BeginBlocker(z)

LEMMA DepositsSideStep ==
    ASSUME RecordsInv, NEW z \in Zones, DepositsSide(z)
    PROVE  StoresInv' /\ AccountsTypeOK'
  <1>1. AccountsTypeOK /\ StoresInv
    BY DEF RecordsInv
  <1>2. UNCHANGED <<current, hzu, urr, channel, orphans, paid>>
    BY DEF DepositsSide, Reinvest, UpdateRedemptionRates, BeginBlocker, records, ghosts
  <1>3. StoresInv'
    BY <1>1, <1>2 DEF StoresInv, StoresTypeOK, PacketsWellFormed, RecordsWellFormed, PacketsMatch,
                      OrphansPending, PaidOnce, UsersOwed
  <1>4. /\ zone \in [Zones -> [halted : BOOLEAN, redemptionRate : Nat, stakedBal : Nat]]
        /\ deposits \in [Zones -> Nat] /\ hostAcct \in [Zones -> Nat] /\ delegated \in [Zones -> Nat]
        /\ stWallet \in [Zones -> Nat] /\ escrow \in [Zones -> Nat] /\ rewardsLeft \in Nat
    BY <1>1 DEF AccountsTypeOK
  <1>5. CASE Reinvest(z)
    <2>1. /\ rewardsLeft' \in Nat /\ deposits' \in [Zones -> Nat] /\ hostAcct' \in [Zones -> Nat]
      BY <1>4, <1>5 DEF Reinvest
    <2> QED
      BY <1>1, <1>3, <1>5, <2>1 DEF Reinvest, AccountsTypeOK, ghosts
  <1>6. CASE UpdateRedemptionRates(z)
    <2> DEFINE rate == Quo(NewDecFromInt(deposits[z] + zone[z].stakedBal),
                           NewDecFromInt(stWallet[z] + escrow[z]))
    <2>1. rate \in Nat
      <3>1. deposits[z] + zone[z].stakedBal \in Nat /\ stWallet[z] + escrow[z] \in Nat \ {0}
        BY <1>4, <1>6 DEF UpdateRedemptionRates
      <3> QED
        BY <3>1, NewDecNat, QuoNat
    <2>2. zone' = [zone EXCEPT ![z].redemptionRate = rate]
      BY <1>6 DEF UpdateRedemptionRates
    <2> HIDE DEF rate
    <2>3. zone' \in [Zones -> [halted : BOOLEAN, redemptionRate : Nat, stakedBal : Nat]]
      BY <1>4, <2>1, <2>2
    <2> QED
      BY <1>1, <1>3, <1>6, <2>3 DEF UpdateRedemptionRates, AccountsTypeOK, accounts, host, ghosts
  <1>7. CASE BeginBlocker(z)
    <2>1. zone' \in [Zones -> [halted : BOOLEAN, redemptionRate : Nat, stakedBal : Nat]]
      BY <1>4, <1>7 DEF BeginBlocker
    <2> QED
      BY <1>1, <1>3, <1>7, <2>1 DEF BeginBlocker, AccountsTypeOK, accounts, host, ghosts
  <1> QED
    BY <1>5, <1>6, <1>7 DEF DepositsSide

\* One more delegation under way.
DelegatePacket(n, i) ==
    [kind |-> "delegate", eurs |-> {}, users |-> {}, amount |-> n,
     seq |-> i, state |-> "sent", left |-> 0]

LEMMA DelegateEffect ==
    ASSUME StoresTypeOK, NEW z \in Zones, NEW amount \in Nat, DelegateOnHost(z, amount)
    PROVE  LET S == channel[z]["DELEGATION"].pkts
               new == DelegatePacket(amount, Cardinality(S) + 1)
           IN  /\ S \in SUBSET Packet /\ IsFiniteSet(S) /\ new \in Packet
               /\ channel' \in [Zones -> [Accounts -> Channel]]
               /\ channel'[z]["DELEGATION"].pkts = S \cup {new}
               /\ channel[z]["DELEGATION"].state = "OPEN"
               /\ channel'[z]["DELEGATION"].state = "OPEN"
               /\ \A y \in Zones, b \in Accounts :
                    ~(y = z /\ b = "DELEGATION") => channel'[y][b] = channel[y][b]
  <1> DEFINE S == channel[z]["DELEGATION"].pkts
             n == Cardinality(S)
             new == DelegatePacket(amount, n + 1)
             T == S \cup {new}
  <1>1. "DELEGATION" \in Accounts
    BY DEF Accounts
  <1>2. S \in SUBSET Packet /\ IsFiniteSet(S)
    BY <1>1 DEF StoresTypeOK, Channel
  <1>3. n + 1 \in Int
    <2>1. n \in Nat
      BY <1>2, FS_CardinalityType
    <2> HIDE DEF n
    <2> QED
      BY <2>1
  <1>4. channel[z]["DELEGATION"].state = "OPEN" /\ SetPackets(z, "DELEGATION", T)
    BY DEF DelegateOnHost, SetPackets, DelegatePacket
  <1> HIDE DEF n
  <1>5. new \in Packet
    BY <1>3, TimesZero DEF DelegatePacket, Packet, Kinds
  <1> HIDE DEF new
  <1>6. T \in SUBSET Packet
    BY <1>2, <1>5
  <1> HIDE DEF S, T
  <1>7. /\ channel' \in [Zones -> [Accounts -> Channel]]
        /\ channel'[z]["DELEGATION"].pkts = T
        /\ channel'[z]["DELEGATION"].state = channel[z]["DELEGATION"].state
        /\ \A y \in Zones, b \in Accounts :
             ~(y = z /\ b = "DELEGATION") => channel'[y][b] = channel[y][b]
    BY <1>1, <1>4, <1>6, ChannelPackets
  <1> QED
    BY <1>2, <1>4, <1>5, <1>7 DEF S, T, new, n

LEMMA DelegateStep ==
    ASSUME StoresInv, NEW z \in Zones, NEW amount \in Nat, DelegateOnHost(z, amount)
    PROVE  StoresInv'
  <1> DEFINE S == channel[z]["DELEGATION"].pkts
             new == DelegatePacket(amount, Cardinality(S) + 1)
  <1>1. /\ StoresTypeOK /\ PacketsWellFormed /\ RecordsWellFormed /\ PacketsMatch
        /\ OrphansPending /\ PaidOnce /\ UsersOwed
    BY DEF StoresInv
  <1>2. /\ S \in SUBSET Packet /\ IsFiniteSet(S) /\ new \in Packet
        /\ channel' \in [Zones -> [Accounts -> Channel]]
        /\ channel'[z]["DELEGATION"].pkts = S \cup {new}
        /\ channel'[z]["DELEGATION"].state = "OPEN"
        /\ \A y \in Zones, b \in Accounts :
             ~(y = z /\ b = "DELEGATION") => channel'[y][b] = channel[y][b]
    BY <1>1, DelegateEffect
  <1>3. new.kind = "delegate" /\ new.eurs = {} /\ new.users = {}
    BY DEF DelegatePacket
  <1> HIDE DEF new
  <1>4. UNCHANGED <<current, hzu, urr, orphans, paid>>
    BY DEF DelegateOnHost, records, ghosts
  <1>5. "DELEGATION" \in Accounts /\ "REDEMPTION" \in Accounts
    BY DEF Accounts
  <1>6. StoresTypeOK'
    <2>1. IsFiniteSet(S \cup {new})
      BY <1>2, FS_AddElement
    <2>2. \A y \in Zones, b \in Accounts : IsFiniteSet(channel'[y][b].pkts)
      BY <1>1, <1>2, <2>1 DEF StoresTypeOK
    <2> QED
      BY <1>1, <1>2, <1>4, <2>2 DEF StoresTypeOK
  <1>7. PacketsWellFormed'
    <2>1. DelegationShape(S \cup {new})
      BY <1>1, <1>3 DEF PacketsWellFormed, DelegationShape
    <2>2. \A y \in Zones, b \in Accounts :
            channel'[y][b].pkts # {} => channel'[y][b].state = "OPEN"
      BY <1>1, <1>2 DEF PacketsWellFormed
    <2>3. \A y \in Zones : DelegationShape(channel'[y]["DELEGATION"].pkts)
      BY <1>1, <1>2, <1>5, <2>1 DEF PacketsWellFormed
    <2>4. \A y \in Zones : RedemptionShape(channel'[y]["REDEMPTION"].pkts)
      BY <1>1, <1>2, <1>5 DEF PacketsWellFormed
    <2> QED
      BY <2>2, <2>3, <2>4 DEF PacketsWellFormed
  <1>8. RecordsWellFormed' /\ UsersOwed'
    BY <1>1, <1>4 DEF RecordsWellFormed, UsersOwed
  <1>9. PacketsMatch'
    <2>1. Matches(hzu, urr, z, new)
      BY <1>3 DEF Matches
    <2>2. Separate(S \cup {new})
      BY <1>1, <1>3, <1>5 DEF PacketsMatch, Separate
    <2>3. ASSUME NEW y \in Zones, NEW b \in Accounts
          PROVE  /\ Separate(channel'[y][b].pkts)
                 /\ \A p \in channel'[y][b].pkts : Matches(hzu, urr, y, p)
      <3>1. CASE y = z /\ b = "DELEGATION"
        BY <1>1, <1>2, <2>1, <2>2, <3>1 DEF PacketsMatch
      <3>2. CASE ~(y = z /\ b = "DELEGATION")
        BY <1>1, <1>2, <3>2 DEF PacketsMatch
      <3> QED
        BY <3>1, <3>2
    <2> QED
      BY <1>4, <2>3 DEF PacketsMatch
  <1>10. \A y \in Zones : channel'[y]["REDEMPTION"] = channel[y]["REDEMPTION"]
    BY <1>2, <1>5
  <1>11. OrphansPending'
    BY <1>1, <1>4, <1>10 DEF OrphansPending, StoresTypeOK, Key
  <1>12. PaidOnce'
    BY <1>1, <1>4, <1>10 DEF PaidOnce, StoresTypeOK, Key
  <1> QED
    BY <1>6, <1>7, <1>8, <1>9, <1>11, <1>12 DEF StoresInv

LEMMA DelegateAccounts ==
    ASSUME AccountsTypeOK, NEW z \in Zones, NEW amount \in Nat, DelegateOnHost(z, amount)
    PROVE  AccountsTypeOK'
  <1>1. staking' \in [Zones -> Nat]
    <2>1. staking \in [Zones -> Nat] /\ staking' = [staking EXCEPT ![z] = @ + amount]
      BY DEF DelegateOnHost, AccountsTypeOK
    <2> QED
      BY <2>1
  <1> QED
    BY <1>1 DEF DelegateOnHost, AccountsTypeOK, host, ghosts

LEMMA RecordsInvInit ==
    Init => RecordsInv
  <1> SUFFICES ASSUME Init PROVE RecordsInv
    OBVIOUS
  <1>1. current \in Eurs
    BY UnbondingRecordsAssumption DEF Init
  <1>2. NewUnbonding \in HostZoneUnbonding /\ NoUnbonding \in HostZoneUnbonding
    BY TimesZero DEF NewUnbonding, NoUnbonding, HostZoneUnbonding, Statuses
  <1>3. \A e \in Eurs, z \in Zones :
          /\ hzu[e][z].native = 0 /\ hzu[e][z].st = 0
          /\ hzu[e][z].status \in {"NONE", "UNBONDING_QUEUE"}
    BY DEF Init, NewUnbonding, NoUnbonding
  <1>4. hzu \in [Eurs -> [Zones -> HostZoneUnbonding]]
    BY <1>2 DEF Init
  <1>5. /\ urr \in [Eurs -> [Zones -> [Users -> UserRedemptionRecord]]]
        /\ \A e \in Eurs, z \in Zones, u \in Users : urr[e][z][u].amount = 0 /\ ~urr[e][z][u].pending
    BY DEF Init, NoRedemption, UserRedemptionRecord
  <1>6. /\ channel \in [Zones -> [Accounts -> Channel]]
        /\ \A z \in Zones, a \in Accounts : channel[z][a].pkts = {} /\ channel[z][a].state = "OPEN"
    BY DEF Init, Channel
  <1>7. orphans = {} /\ paid = {}
    BY DEF Init
  <1>8. StoresTypeOK
    BY <1>1, <1>4, <1>5, <1>6, <1>7, FS_EmptySet DEF StoresTypeOK
  <1>9. PacketsWellFormed
    BY <1>6 DEF PacketsWellFormed, DelegationShape, RedemptionShape, Accounts
  <1>10. RecordsWellFormed
    BY <1>1, <1>3, <1>5 DEF RecordsWellFormed
  <1>11. PacketsMatch
    BY <1>6 DEF PacketsMatch, Separate
  <1>12. OrphansPending /\ PaidOnce
    BY <1>7 DEF OrphansPending, PaidOnce
  <1>13. UsersOwed
    <2> SUFFICES ASSUME NEW e \in Eurs, NEW z \in Zones
                 PROVE  hzu[e][z].native = SumFunctionOnSet(UserAmounts(urr, e, z), Users)
      BY DEF UsersOwed
    <2>1. \A u \in Users : UserAmounts(urr, e, z)[u] = 0
      BY <1>5 DEF UserAmounts
    <2>2. SumFunctionOnSet(UserAmounts(urr, e, z), Users) = 0
      BY <2>1, SumZero, UnbondingRecordsAssumption
    <2> QED
      BY <1>3, <2>2
  <1>14. AccountsTypeOK
    <2>1. InitialStake \in Nat /\ InitialDeposits \in Nat /\ RewardBudget \in Nat
      BY UnbondingRecordsAssumption
    <2>2. NewDecFromInt(1) \in Nat
      BY NewDecNat
    <2> QED
      BY <2>1, <2>2 DEF Init, AccountsTypeOK
  <1>15. PacketsNumbered
    <2>1. Cardinality({}) = 0
      BY FS_EmptySet
    <2> QED
      BY <1>6, <2>1, NoneNumbered DEF PacketsNumbered
  <1>16. StakingInv
    <2>1. \A z \in Zones : staking[z] = 0 /\ deposits[z] \in Nat
      BY <1>14 DEF Init, AccountsTypeOK
    <2>2. \A z \in Zones : StakingSum(channel[z]["DELEGATION"].pkts) = 0
      BY <1>6, KindSumEmpty DEF StakingSum, Accounts
    <2> QED
      BY <2>1, <2>2 DEF StakingInv
  <1> QED
    BY <1>8, <1>9, <1>10, <1>11, <1>12, <1>13, <1>14, <1>15, <1>16 DEF RecordsInv, StoresInv

LEMMA StoresNext ==
    RecordsInv /\ [Next]_vars => StoresInv' /\ AccountsTypeOK'
  <1> SUFFICES ASSUME RecordsInv, [Next]_vars PROVE StoresInv' /\ AccountsTypeOK'
    OBVIOUS
  <1>1. StoresInv /\ AccountsTypeOK
    BY DEF RecordsInv
  <1>2. ASSUME NEW lag \in 0..MaxLag, DayEpoch(lag) PROVE StoresInv' /\ AccountsTypeOK'
    <2>1. StoresInv'
      BY <1>1, <1>2, DayEpochStep
    <2>2. UNCHANGED <<zone, accounts, host, lost>>
      BY <1>2 DEF DayEpoch
    <2> QED
      BY <1>1, <2>1, <2>2 DEF AccountsTypeOK, accounts, host
  <1>3. CASE Tick
    BY <1>1, <1>3, TickStep, TickAccounts
  <1>4. ASSUME NEW z \in Zones, NEW u \in Users, NEW amount \in RedeemAmounts, RedeemStake(z, u, amount)
        PROVE  StoresInv' /\ AccountsTypeOK'
    BY <1>4, RedeemStakeStep, RedeemStakeAccounts
  <1>5. ASSUME NEW z \in Zones, NEW e \in Eurs, NEW u \in Users, ClaimUndelegatedTokens(e, z, u)
        PROVE  StoresInv' /\ AccountsTypeOK'
    <2>1. StoresInv'
      BY <1>1, <1>5, ClaimStep
    <2>2. UNCHANGED <<zone, accounts, host, ghosts>>
      BY <1>5 DEF ClaimUndelegatedTokens
    <2> QED
      BY <1>1, <2>1, <2>2 DEF AccountsTypeOK, accounts, host, ghosts
  <1>6. ASSUME NEW z \in Zones, NEW a \in Accounts, NEW p \in channel[z][a].pkts,
               NEW result \in {"ok", "err"}, ExecuteICA(z, a, p, result)
        PROVE  StoresInv' /\ AccountsTypeOK'
    BY <1>1, <1>6, ExecuteICAStep, ExecuteAccounts
  <1>7. ASSUME NEW z \in Zones, NEW a \in Accounts, NEW p \in channel[z][a].pkts, AckICA(z, a, p)
        PROVE  StoresInv' /\ AccountsTypeOK'
    BY <1>1, <1>7, AckDelegationStep, AckClaimStep, AckAccounts
  <1>8. ASSUME NEW z \in Zones, NEW a \in Accounts, NEW p \in channel[z][a].pkts, TimeoutICA(z, a, p)
        PROVE  StoresInv' /\ AccountsTypeOK'
    <2>1. CloseChannel(z, a, {p})
      BY <1>8 DEF TimeoutICA
    <2> QED
      BY <1>1, <1>8, <2>1, TimeoutICAStep, CloseAccounts
  <1>9. ASSUME NEW z \in Zones, NEW a \in Accounts, RestoreInterchainAccount(z, a)
        PROVE  StoresInv' /\ AccountsTypeOK'
    <2>1. StoresInv'
      BY <1>1, <1>9, RestoreStep
    <2>2. /\ UNCHANGED <<zone, stWallet, escrow, deposits, rewardsLeft, host, ghosts>>
          /\ staking' = staking \/ staking' = [staking EXCEPT ![z] = 0]
      BY <1>9 DEF RestoreInterchainAccount
    <2>3. staking' \in [Zones -> Nat]
      <3>1. staking \in [Zones -> Nat]
        BY <1>1 DEF AccountsTypeOK
      <3> QED
        BY <2>2, <3>1
    <2> QED
      BY <1>1, <2>1, <2>2, <2>3 DEF AccountsTypeOK, host, ghosts
  <1>10. ASSUME NEW z \in Zones, NEW a \in Accounts, ChanOpenAck(z, a)
         PROVE  StoresInv' /\ AccountsTypeOK'
    <2>1. StoresInv'
      BY <1>1, <1>10, ChanOpenAckStep
    <2>2. UNCHANGED <<zone, accounts, host, ghosts>>
      BY <1>10 DEF ChanOpenAck
    <2> QED
      BY <1>1, <2>1, <2>2 DEF AccountsTypeOK, accounts, host, ghosts
  <1>11. ASSUME NEW z \in Zones, TimeoutOfAnother(z)
         PROVE  StoresInv' /\ AccountsTypeOK'
    <2>1. CloseChannel(z, "DELEGATION", {}) /\ "DELEGATION" \in Accounts
      BY <1>11 DEF TimeoutOfAnother, Accounts
    <2> QED
      BY <1>1, <1>11, <2>1, TimeoutOfAnotherStep, CloseAccounts
  <1>12. ASSUME NEW z \in Zones, DepositsSide(z) PROVE StoresInv' /\ AccountsTypeOK'
    BY <1>12, DepositsSideStep
  <1>13. ASSUME NEW k \in orphans, TimeoutOnClose(k) PROVE StoresInv' /\ AccountsTypeOK'
    <2>1. StoresInv'
      BY <1>1, <1>13, TimeoutOnCloseStep
    <2>2. UNCHANGED <<zone, accounts, host, lost>>
      BY <1>13 DEF TimeoutOnClose
    <2> QED
      BY <1>1, <2>1, <2>2 DEF AccountsTypeOK, accounts, host
  <1>14. CASE UNCHANGED vars
    <2>1. UNCHANGED <<current, hzu, urr, channel, orphans, paid, zone, accounts, host, lost>>
      BY <1>14 DEF vars, records, ghosts
    <2>2. StoresInv'
      BY <1>1, <2>1 DEF StoresInv, StoresTypeOK, PacketsWellFormed, RecordsWellFormed, PacketsMatch,
                        OrphansPending, PaidOnce, UsersOwed
    <2> QED
      BY <1>1, <2>1, <2>2 DEF AccountsTypeOK, accounts, host
  <1>15. ASSUME NEW z \in Zones, NEW amount \in 1..deposits[z], DelegateOnHost(z, amount)
         PROVE  StoresInv' /\ AccountsTypeOK'
    BY <1>1, <1>15, DelegateStep, DelegateAccounts
  <1> QED
    BY <1>2, <1>3, <1>4, <1>5, <1>6, <1>7, <1>8, <1>9, <1>10, <1>11, <1>12, <1>13, <1>14, <1>15
       DEF Next, DepositsSide

-----------------------------------------------------------------------------
(* The packets of a channel are numbered without gaps *)

LEMMA AgedNumbered ==
    ASSUME NEW S \in SUBSET Packet, NEW n, Numbered(S, n)
    PROVE  Numbered(AgedAll(S), n)
  <1>1. \A p \in S : Aged(p).seq = p.seq
    BY DEF Aged, Packet
  <1>2. \A i : i \in Seqs(AgedAll(S)) <=> i \in Seqs(S)
    BY <1>1 DEF Seqs, AgedAll
  <1>3. \A p, q \in AgedAll(S) : p.seq = q.seq => p = q
    BY <1>1 DEF Numbered, AgedAll
  <1> QED
    BY <1>2, <1>3 DEF Numbered

\* ... and moves up when the first one is acknowledged.
LEMMA FirstAcknowledged ==
    ASSUME NEW S \in SUBSET Packet, NEW n \in Nat, Numbered(S, n), NEW p \in S, p.seq = 1
    PROVE  n - 1 \in Nat /\ Numbered(MovedUp(S \ {p}), n - 1)
  <1> DEFINE f == [q \in S |-> [q EXCEPT !.seq = @ - 1]]
  <1>1. \A q \in S : f[q].seq = q.seq - 1
    BY DEF Packet
  <1>2. \A x : x \in MovedUp(S \ {p}) <=> \E q \in S \ {p} : x = f[q]
    BY DEF MovedUp
  <1> DEFINE T == MovedUp(S \ {p})
  <1> HIDE DEF f
  <1>3. MovesUp(T, S, p, f)
    BY <1>1, <1>2 DEF MovesUp
  <1> HIDE DEF T
  <1>4. n - 1 \in Nat /\ Numbered(T, n - 1)
    BY <1>3, MovedUpNumbered
  <1> QED
    BY <1>4 DEF T

\* The day's packets follow those under way, the undelegation first.
LEMMA SubmittedNumbered ==
    ASSUME NEW z \in Zones, NEW d, NEW lag,
           NEW S, S = channel[z]["DELEGATION"].pkts, IsFiniteSet(S),
           Numbered(S, Cardinality(S))
    PROVE  \E n \in Nat : Numbered(S \cup SubmittedPackets(z, d, lag), n)
  <1> DEFINE due == UnbondingDue(z, d)
             swp == SweepDue(z, lag)
             n == Cardinality(S)
             rec(kind, B, i) ==
               [kind |-> kind, eurs |-> B, users |-> {}, amount |-> NativeAmount(hzu, z, B),
                seq |-> i, state |-> "sent", left |-> 0]
             j == (IF due = {} THEN 1 ELSE 2) + n
             U == rec("undelegate", due, 1 + n)
             R == rec("redemption", swp, j)
  <1>1. SubmittedPackets(z, d, lag) =
           {U : T \in {due} \ {{}}} \cup {R : T \in {swp} \ {{}}}
    BY DEF SubmittedPackets
  <1>2. n \in Nat
    BY FS_CardinalityType
  <1>3. U.seq = 1 + n /\ R.seq = j
    OBVIOUS
  <1> HIDE DEF due, swp, U, R, n
  <1>4. U.seq = n + 1 /\ (due = {} => R.seq = n + 1) /\ (due # {} => R.seq = (n + 1) + 1)
    BY <1>2, <1>3
  <1>5. \A x : x \in SubmittedPackets(z, d, lag) <=>
           (due # {} /\ x = U) \/ (swp # {} /\ x = R)
    BY <1>1
  <1>6. Numbered(S, n)
    BY DEF n
  <1> DEFINE all == S \cup SubmittedPackets(z, d, lag)
             k == n + 1
             m == k + 1
  <1>7. k \in Nat /\ m \in Nat
    BY <1>2
  <1>8. ASSUME due = {}, swp = {} PROVE Numbered(all, n)
    <2>1. all = S
      BY <1>5, <1>8
    <2> QED
      BY <1>6, <2>1
  <1>9. ASSUME due = {}, swp # {} PROVE Numbered(all, k)
    <2>1. all = S \cup {R}
      BY <1>5, <1>9
    <2>2. Numbered(S \cup {R}, k)
      BY <1>2, <1>4, <1>6, <1>9, NextNumbered
    <2> QED
      BY <2>1, <2>2
  <1>10. ASSUME due # {}, swp = {} PROVE Numbered(all, k)
    <2>1. all = S \cup {U}
      BY <1>5, <1>10
    <2>2. Numbered(S \cup {U}, k)
      BY <1>2, <1>4, <1>6, NextNumbered
    <2> QED
      BY <2>1, <2>2
  <1>11. ASSUME due # {}, swp # {} PROVE Numbered(all, m)
    <2>1. all = (S \cup {U}) \cup {R}
      BY <1>5, <1>11
    <2>2. Numbered(S \cup {U}, k)
      BY <1>2, <1>4, <1>6, NextNumbered
    <2>3. R.seq = k + 1
      BY <1>4, <1>11
    <2> HIDE DEF k, all
    <2>4. Numbered((S \cup {U}) \cup {R}, m)
      BY <1>7, <2>2, <2>3, NextNumbered
    <2> QED
      BY <2>1, <2>4
  <1>12. \E x \in Nat : Numbered(all, x)
    <2> HIDE DEF all, k, m
    <2>1. Numbered(all, n) \/ Numbered(all, k) \/ Numbered(all, m)
      BY <1>8, <1>9, <1>10, <1>11
    <2> QED
      BY <1>2, <1>7, <2>1
  <1> QED
    BY <1>12

\* What is to show of a step, channel by channel.
LEMMA NumberedChannels ==
    ASSUME StoresTypeOK',
           \A z \in Zones, a \in Accounts : \E n \in Nat : Numbered(channel'[z][a].pkts, n)
    PROVE  PacketsNumbered'
  <1>1. \A z \in Zones, a \in Accounts : IsFiniteSet(channel'[z][a].pkts)
    BY DEF StoresTypeOK
  <1>2. ASSUME NEW z \in Zones, NEW a \in Accounts
        PROVE  Numbered(channel'[z][a].pkts, Cardinality(channel'[z][a].pkts))
    <2>1. PICK n \in Nat : Numbered(channel'[z][a].pkts, n)
      OBVIOUS
    <2> QED
      BY <1>1, <2>1, NumberedIs
  <1> QED
    BY <1>2 DEF PacketsNumbered

\* One channel changes.
LEMMA OneChannelNumbered ==
    ASSUME StoresTypeOK, StoresTypeOK', PacketsNumbered, NEW z \in Zones, NEW a \in Accounts,
           \E n \in Nat : Numbered(channel'[z][a].pkts, n),
           \A y \in Zones, b \in Accounts :
             ~(y = z /\ b = a) => channel'[y][b].pkts = channel[y][b].pkts
    PROVE  PacketsNumbered'
  <1>1. \A y \in Zones, b \in Accounts :
          /\ Cardinality(channel[y][b].pkts) \in Nat
          /\ Numbered(channel[y][b].pkts, Cardinality(channel[y][b].pkts))
    BY FS_CardinalityType DEF StoresTypeOK, PacketsNumbered
  <1>2. \A y \in Zones, b \in Accounts : \E n \in Nat : Numbered(channel'[y][b].pkts, n)
    BY <1>1
  <1> QED
    BY <1>2, NumberedChannels

LEMMA PacketsNumberedNext ==
    StoresInv /\ StoresInv' /\ PacketsNumbered /\ [Next]_vars => PacketsNumbered'
  <1> SUFFICES ASSUME StoresInv, StoresInv', PacketsNumbered, [Next]_vars PROVE PacketsNumbered'
    OBVIOUS
  <1>1. StoresTypeOK /\ StoresTypeOK'
    BY DEF StoresInv
  <1>2. \A z \in Zones, a \in Accounts :
          LET S == channel[z][a].pkts IN
          /\ IsFiniteSet(S) /\ S \in SUBSET Packet /\ channel[z][a] \in Channel
          /\ Cardinality(S) \in Nat /\ Numbered(S, Cardinality(S))
    BY <1>1, FS_CardinalityType DEF StoresTypeOK, PacketsNumbered, Channel
  <1>3. ASSUME \A z \in Zones, a \in Accounts : channel'[z][a].pkts = channel[z][a].pkts
        PROVE  PacketsNumbered'
    BY <1>1, <1>2, <1>3, NumberedChannels
  <1>4. ASSUME NEW z \in Zones, NEW a \in Accounts, NEW X, CloseChannel(z, a, X)
        PROVE  PacketsNumbered'
    <2>1. /\ channel'[z][a].pkts = {}
          /\ \A y \in Zones, b \in Accounts : ~(y = z /\ b = a) => channel'[y][b] = channel[y][b]
      BY <1>4, CloseChannelEffect
    <2>2. \E n \in Nat : Numbered(channel'[z][a].pkts, n)
      BY <2>1, NoneNumbered
    <2> QED
      BY <1>1, <2>1, <2>2, OneChannelNumbered
  <1>5. ASSUME NEW lag \in 0..MaxLag, DayEpoch(lag) PROVE PacketsNumbered'
    <2> DEFINE d == (day + 1) % DayCycle
    <2>1. /\ \A z \in Zones : channel'[z]["DELEGATION"].pkts =
               channel[z]["DELEGATION"].pkts \cup SubmittedPackets(z, d, lag)
          /\ \A z \in Zones : channel'[z]["REDEMPTION"].pkts = channel[z]["REDEMPTION"].pkts
      BY <1>5, DayRecords
    <2> HIDE DEF d
    <2>2. ASSUME NEW z \in Zones
          PROVE  \E n \in Nat : Numbered(channel'[z]["DELEGATION"].pkts, n)
      <3>1. \E n \in Nat : Numbered(channel[z]["DELEGATION"].pkts \cup SubmittedPackets(z, d, lag), n)
        BY <1>2, SubmittedNumbered DEF Accounts
      <3> QED
        BY <2>1, <3>1
    <2>3. \A z \in Zones : \E n \in Nat : Numbered(channel'[z]["REDEMPTION"].pkts, n)
      BY <1>2, <2>1 DEF Accounts
    <2> QED
      BY <1>1, <2>2, <2>3, NumberedChannels DEF Accounts
  <1>6. CASE Tick
    <2>1. ASSUME NEW z \in Zones, NEW a \in Accounts
          PROVE  channel'[z][a].pkts = AgedAll(channel[z][a].pkts)
      <3>1. channel'[z][a] = [channel[z][a] EXCEPT !.pkts = AgedAll(channel[z][a].pkts)]
        BY <1>6 DEF Tick, Aged, AgedAll
      <3> QED
        BY <1>2, <3>1 DEF Channel
    <2>2. \A z \in Zones, a \in Accounts : \E n \in Nat : Numbered(channel'[z][a].pkts, n)
      BY <1>2, <2>1, AgedNumbered
    <2> QED
      BY <1>1, <2>2, NumberedChannels
  <1>7. ASSUME NEW z \in Zones, NEW e \in Eurs, NEW u \in Users, ClaimUndelegatedTokens(e, z, u)
        PROVE  PacketsNumbered'
    <2> DEFINE S == channel[z]["REDEMPTION"].pkts
               n == Cardinality(S)
               new == [kind |-> "claim", eurs |-> {e}, users |-> {u},
                       amount |-> urr[e][z][u].amount, seq |-> n + 1, state |-> "sent", left |-> 0]
    <2>1. channel' = [channel EXCEPT ![z]["REDEMPTION"].pkts = S \cup {new}]
      BY <1>7 DEF ClaimUndelegatedTokens
    <2>2. new.seq = n + 1
      OBVIOUS
    <2>3. n \in Nat /\ Numbered(S, n)
      BY <1>2 DEF Accounts
    <2> HIDE DEF new, n
    <2>4. Numbered(S \cup {new}, n + 1)
      BY <2>2, <2>3, NextNumbered
    <2> HIDE DEF S
    <2>5. /\ channel'[z]["REDEMPTION"].pkts = S \cup {new}
          /\ \A y \in Zones, b \in Accounts :
               ~(y = z /\ b = "REDEMPTION") => channel'[y][b].pkts = channel[y][b].pkts
      BY <1>1, <2>1 DEF StoresTypeOK, Channel, Accounts
    <2>6. \E m \in Nat : Numbered(channel'[z]["REDEMPTION"].pkts, m)
      <3>1. n + 1 \in Nat
        BY <2>3
      <3> QED
        BY <2>4, <2>5, <3>1
    <2>7. "REDEMPTION" \in Accounts
      BY DEF Accounts
    <2> QED
      BY <1>1, <2>5, <2>6, <2>7, OneChannelNumbered
  <1>8. ASSUME NEW z \in Zones, NEW a \in Accounts, NEW p \in channel[z][a].pkts,
               NEW result \in {"ok", "err"}, ExecuteICA(z, a, p, result)
        PROVE  PacketsNumbered'
    <2>1. /\ p \in Packet
          /\ channel'[z][a].pkts = (channel[z][a].pkts \ {p}) \cup {ExecutedPacket(p, result)}
          /\ \A y \in Zones, b \in Accounts : ~(y = z /\ b = a) => channel'[y][b] = channel[y][b]
      BY <1>8, ExecuteICAChannel
    <2>2. ExecutedPacket(p, result).seq = p.seq
      BY <2>1 DEF ExecutedPacket, Packet
    <2>3. \E n \in Nat : Numbered(channel'[z][a].pkts, n)
      BY <1>2, <2>1, <2>2, ReplacedNumbered
    <2>4. \A y \in Zones, b \in Accounts :
            ~(y = z /\ b = a) => channel'[y][b].pkts = channel[y][b].pkts
      BY <2>1
    <2> QED
      BY <1>1, <2>3, <2>4, OneChannelNumbered
  <1>9. ASSUME NEW z \in Zones, NEW a \in Accounts, NEW p \in channel[z][a].pkts, AckICA(z, a, p)
        PROVE  PacketsNumbered'
    <2>1. /\ p \in Packet
          /\ channel' \in [Zones -> [Accounts -> Channel]]
          /\ \A y \in Zones, b \in Accounts : IsFiniteSet(channel'[y][b].pkts)
          /\ ChannelsDerived
          /\ channel'[z][a].pkts = MovedUp(channel[z][a].pkts \ {p})
          /\ \A q \in channel'[z][a].pkts :
               \E x \in channel[z][a].pkts \ {p} : Same(q, x) /\ q.state = x.state
          /\ \A y \in Zones, b \in Accounts : ~(y = z /\ b = a) => channel'[y][b] = channel[y][b]
      BY <1>9, AckChannel
    <2>2. p.seq = 1
      BY <1>9 DEF AckICA
    <2>3. \E n \in Nat : Numbered(channel'[z][a].pkts, n)
      <3> DEFINE S == channel[z][a].pkts
                 n == Cardinality(S)
      <3>1. S \in SUBSET Packet /\ n \in Nat /\ Numbered(S, n) /\ p \in S
        BY <1>2
      <3>2. channel'[z][a].pkts = MovedUp(S \ {p})
        BY <2>1
      <3> HIDE DEF S, n
      <3>3. n - 1 \in Nat /\ Numbered(MovedUp(S \ {p}), n - 1)
        BY <2>2, <3>1, FirstAcknowledged
      <3> QED
        BY <3>2, <3>3
    <2>4. \A y \in Zones, b \in Accounts :
            ~(y = z /\ b = a) => channel'[y][b].pkts = channel[y][b].pkts
      BY <2>1
    <2> QED
      BY <1>1, <2>3, <2>4, OneChannelNumbered
  <1>10. ASSUME NEW z \in Zones, NEW a \in Accounts, NEW p \in channel[z][a].pkts, TimeoutICA(z, a, p)
         PROVE  PacketsNumbered'
    BY <1>4, <1>10 DEF TimeoutICA
  <1>11. ASSUME NEW z \in Zones, NEW a \in Accounts,
                RestoreInterchainAccount(z, a) \/ ChanOpenAck(z, a)
         PROVE  PacketsNumbered'
    <2>1. channel[z][a].state # "OPEN" /\ \E s \in {"OPEN", "INIT"} : SetState(z, a, s)
      BY <1>11 DEF RestoreInterchainAccount, ChanOpenAck, SetState
    <2>2. \A y \in Zones, b \in Accounts : channel'[y][b].pkts = channel[y][b].pkts
      BY <2>1, ChannelStateEffect
    <2> QED
      BY <1>3, <2>2
  <1>12. ASSUME NEW z \in Zones, TimeoutOfAnother(z) PROVE PacketsNumbered'
    BY <1>4, <1>12 DEF TimeoutOfAnother, Accounts
  <1>13. CASE channel' = channel
    BY <1>3, <1>13
  <1>14. ASSUME NEW z \in Zones,
                \/ \E u \in Users, amount \in RedeemAmounts : RedeemStake(z, u, amount)
                \/ DepositsSide(z)
         PROVE  PacketsNumbered'
    <2>1. channel' = channel
      BY <1>14 DEF RedeemStake, DepositsSide, Reinvest, UpdateRedemptionRates, BeginBlocker
    <2> QED
      BY <1>13, <2>1
  <1>15. ASSUME NEW k \in orphans, TimeoutOnClose(k) PROVE PacketsNumbered'
    BY <1>13, <1>15 DEF TimeoutOnClose
  <1>16. CASE UNCHANGED vars
    BY <1>13, <1>16 DEF vars
  <1>17. ASSUME NEW z \in Zones, NEW amount \in 1..deposits[z], DelegateOnHost(z, amount)
         PROVE  PacketsNumbered'
    <2> DEFINE S == channel[z]["DELEGATION"].pkts
               n == Cardinality(S)
               new == DelegatePacket(amount, n + 1)
    <2>1. /\ channel'[z]["DELEGATION"].pkts = S \cup {new}
          /\ \A y \in Zones, b \in Accounts :
               ~(y = z /\ b = "DELEGATION") => channel'[y][b] = channel[y][b]
      BY <1>1, <1>17, DelegateEffect
    <2>2. new.seq = n + 1
      BY DEF DelegatePacket
    <2>3. n \in Nat /\ Numbered(S, n)
      BY <1>2 DEF Accounts
    <2> HIDE DEF new, n
    <2>4. Numbered(S \cup {new}, n + 1) /\ n + 1 \in Nat
      BY <2>2, <2>3, NextNumbered
    <2> HIDE DEF S
    <2>5. \E m \in Nat : Numbered(channel'[z]["DELEGATION"].pkts, m)
      BY <2>1, <2>4
    <2>6. \A y \in Zones, b \in Accounts :
            ~(y = z /\ b = "DELEGATION") => channel'[y][b].pkts = channel[y][b].pkts
      BY <2>1
    <2>7. "DELEGATION" \in Accounts
      BY DEF Accounts
    <2> QED
      BY <1>1, <2>5, <2>6, <2>7, OneChannelNumbered
  <1> QED
    BY <1>5, <1>6, <1>7, <1>8, <1>9, <1>10, <1>11, <1>12, <1>14, <1>15, <1>16, <1>17
       DEF Next, DepositsSide

-----------------------------------------------------------------------------
(* The deposits in progress are those with a delegation under way *)

\* A step that leaves the deposits and the delegations under way alone.
LEMMA StakingKept ==
    ASSUME StakingInv, UNCHANGED <<deposits, staking>>,
           \A z \in Zones :
             /\ channel'[z]["DELEGATION"].state = channel[z]["DELEGATION"].state
             /\ StakingSum(channel'[z]["DELEGATION"].pkts)
                  = StakingSum(channel[z]["DELEGATION"].pkts)
    PROVE  StakingInv'
    BY DEF StakingInv

\* The acknowledgement of a delegation takes its deposits out of progress.
LEMMA AckStaking ==
    ASSUME RecordsInv, NEW z \in Zones, NEW a \in Accounts, NEW p \in channel[z][a].pkts,
           AckICA(z, a, p)
    PROVE  StakingInv'
  <1>1. StoresInv /\ StoresTypeOK /\ PacketsWellFormed /\ AccountsTypeOK /\ StakingInv
    BY DEF RecordsInv, StoresInv
  <1>2. /\ channel'[z][a].pkts = MovedUp(channel[z][a].pkts \ {p})
        /\ \A y \in Zones, b \in Accounts : ~(y = z /\ b = a) => channel'[y][b] = channel[y][b]
    BY <1>1, AckChannel
  <1>3. channel'[z][a].state = channel[z][a].state
    BY <1>1 DEF AckICA, StoresTypeOK, Channel
  <1>4. CASE a = "REDEMPTION"
    <2>1. p.kind = "claim"
      BY <1>1, <1>4 DEF PacketsWellFormed, RedemptionShape
    <2>2. UNCHANGED <<deposits, staking>>
      BY <2>1 DEF AckICA
    <2>3. \A y \in Zones : channel'[y]["DELEGATION"] = channel[y]["DELEGATION"]
      BY <1>2, <1>4 DEF Accounts
    <2> QED
      BY <1>1, <2>2, <2>3, StakingKept
  <1>5. CASE a = "DELEGATION"
    <2> DEFINE S == channel[z]["DELEGATION"].pkts
               all == {"sent", "ok", "err"}
               T == S \ {p}
               told == IF p.state = "ok" THEN p.amount ELSE 0
    <2>1. S \in SUBSET Packet /\ IsFiniteSet(S) /\ p \in S /\ p \in Packet
      BY <1>1, <1>5 DEF StoresTypeOK, Channel
    <2>2. p.amount \in Nat /\ told \in Nat /\ told <= p.amount /\ p.state \in all
      BY <2>1 DEF Packet
    <2>3. T \in SUBSET Packet /\ IsFiniteSet(T)
      BY <2>1, FS_RemoveElement
    <2>4. channel'[z]["DELEGATION"].pkts = MovedUp(T)
      BY <1>2, <1>5
    <2>5. channel[z]["DELEGATION"].state = "OPEN"
      BY <1>5 DEF AckICA
    <2>6. \A y \in Zones : y # z => channel'[y]["DELEGATION"] = channel[y]["DELEGATION"]
      BY <1>2, <1>5 DEF Accounts
    <2> HIDE DEF S, T, all
    <2>7. KindSum(MovedUp(T), "delegate", all) = KindSum(T, "delegate", all)
      BY <2>3, KindSumMovedUp
    <2>8. KindSum(S, "delegate", all)
            = KindSum(T, "delegate", all) + Counted(p, "delegate", all)
      BY <2>1, KindSumRemove DEF T
    <2>9. KindSum(T, "delegate", all) \in Nat
      BY <2>3, KindSumNat
    <2>10. StakingSum(channel'[z]["DELEGATION"].pkts) = KindSum(T, "delegate", all)
      BY <2>4, <2>7 DEF StakingSum, all
    <2>11. StakingSum(channel[z]["DELEGATION"].pkts) = KindSum(S, "delegate", all)
      BY DEF StakingSum, S, all
    <2>12. CASE p.kind = "delegate"
      <3>1. /\ deposits' = [deposits EXCEPT ![z] = @ - told]
            /\ staking' = [staking EXCEPT ![z] = @ - p.amount]
        BY <2>12 DEF AckICA, DelegateCallback
      <3>2. deposits \in [Zones -> Nat] /\ staking \in [Zones -> Nat]
        BY <1>1 DEF AccountsTypeOK
      <3>3. staking[z] = KindSum(T, "delegate", all) + p.amount /\ staking[z] <= deposits[z]
        BY <1>1, <2>2, <2>5, <2>8, <2>11, <2>12 DEF StakingInv, Counted
      <3> HIDE DEF told
      <3>4. /\ staking'[z] = KindSum(T, "delegate", all) /\ staking'[z] <= deposits'[z]
            /\ \A y \in Zones : y # z => staking'[y] = staking[y] /\ deposits'[y] = deposits[y]
        BY <2>2, <2>9, <3>1, <3>2, <3>3
      <3>5. channel'[z]["DELEGATION"].state # "INIT"
        BY <1>3, <1>5, <2>5
      <3> QED
        BY <1>1, <2>6, <2>10, <3>4, <3>5 DEF StakingInv
    <2>13. CASE p.kind # "delegate"
      <3>1. UNCHANGED <<deposits, staking>>
        BY <2>13 DEF AckICA
      <3>2. Counted(p, "delegate", all) = 0
        BY <2>13 DEF Counted
      <3>3. StakingSum(channel'[z]["DELEGATION"].pkts) = StakingSum(channel[z]["DELEGATION"].pkts)
        BY <2>8, <2>9, <2>10, <2>11, <3>2
      <3> QED
        BY <1>1, <1>3, <1>5, <2>6, <3>1, <3>3, StakingKept
    <2> QED
      BY <2>12, <2>13
  <1> QED
    BY <1>4, <1>5 DEF Accounts

\* A packet that the host executes stays under way.
LEMMA ExecutedStays ==
    ASSUME NEW S \in SUBSET Packet, IsFiniteSet(S), Distinct(S), NEW p \in S,
           NEW result \in {"ok", "err"}
    PROVE  StakingSum((S \ {p}) \cup {ExecutedPacket(p, result)}) = StakingSum(S)
  <1> DEFINE all == {"sent", "ok", "err"}
             T == S \ {p}
             U == T \cup {ExecutedPacket(p, result)}
  <1>1. Executing(S, p, result, T, U)
    BY DEF Executing
  <1>2. Same(ExecutedPacket(p, result), p) /\ ExecutedPacket(p, result).state = result
    BY ExecutedPacketSame
  <1>3. p.state \in all
    BY DEF Packet
  <1>4. Counted(ExecutedPacket(p, result), "delegate", all) = Counted(p, "delegate", all)
    BY <1>2, <1>3 DEF Same, Counted
  <1> HIDE DEF T, U
  <1>5. KindSum(U, "delegate", all) = KindSum(S, "delegate", all)
    BY <1>1, <1>4, KindSumExecuted
  <1> QED
    BY <1>5 DEF StakingSum, T, U

LEMMA ExecuteStaking ==
    ASSUME RecordsInv, NEW z \in Zones, NEW a \in Accounts, NEW p \in channel[z][a].pkts,
           NEW result \in {"ok", "err"}, ExecuteICA(z, a, p, result)
    PROVE  StakingInv'
  <1>1. StoresInv /\ StoresTypeOK /\ PacketsNumbered /\ StakingInv
    BY DEF RecordsInv, StoresInv
  <1> DEFINE S == channel[z][a].pkts
  <1>2. /\ channel'[z][a].pkts = (S \ {p}) \cup {ExecutedPacket(p, result)}
        /\ channel'[z][a].state = channel[z][a].state
        /\ \A y \in Zones, b \in Accounts : ~(y = z /\ b = a) => channel'[y][b] = channel[y][b]
    BY <1>1, ExecuteICAChannel
  <1>3. S \in SUBSET Packet /\ IsFiniteSet(S) /\ Distinct(S) /\ p \in S
    BY <1>1, ChannelDistinct DEF StoresTypeOK, Channel
  <1>4. StakingSum((S \ {p}) \cup {ExecutedPacket(p, result)}) = StakingSum(S)
    <2> HIDE DEF S
    <2> QED
      BY <1>3, ExecutedStays
  <1>5. UNCHANGED <<deposits, staking>>
    BY DEF ExecuteICA, accounts
  <1>6. \A y \in Zones :
          /\ channel'[y]["DELEGATION"].state = channel[y]["DELEGATION"].state
          /\ StakingSum(channel'[y]["DELEGATION"].pkts) = StakingSum(channel[y]["DELEGATION"].pkts)
    BY <1>2, <1>4 DEF Accounts
  <1> QED
    BY <1>1, <1>5, <1>6, StakingKept

\* Delegations are submitted of queued deposits only.
LEMMA DelegateStaking ==
    ASSUME RecordsInv, NEW z \in Zones, NEW amount \in Nat, DelegateOnHost(z, amount)
    PROVE  StakingInv'
  <1> DEFINE S == channel[z]["DELEGATION"].pkts
             all == {"sent", "ok", "err"}
             n == Cardinality(S)
             new == DelegatePacket(amount, n + 1)
  <1>1. StoresTypeOK /\ AccountsTypeOK /\ PacketsNumbered /\ StakingInv
    BY DEF RecordsInv, StoresInv
  <1>2. /\ S \in SUBSET Packet /\ IsFiniteSet(S) /\ new \in Packet
        /\ channel'[z]["DELEGATION"].pkts = S \cup {new}
        /\ channel[z]["DELEGATION"].state = "OPEN"
        /\ channel'[z]["DELEGATION"].state = "OPEN"
        /\ \A y \in Zones, b \in Accounts :
             ~(y = z /\ b = "DELEGATION") => channel'[y][b] = channel[y][b]
    BY <1>1, DelegateEffect
  <1>3. Numbered(S, n) /\ n \in Nat
    <2>1. Numbered(S, n)
      BY <1>1 DEF PacketsNumbered, Accounts
    <2> QED
      BY <1>2, <2>1, FS_CardinalityType
  <1>4. new.seq = n + 1 /\ Counted(new, "delegate", all) = amount
    BY DEF DelegatePacket, Counted
  <1> HIDE DEF n, new
  <1>5. new \notin S
    <2>1. n + 1 \notin 1..n
      BY <1>3
    <2> QED
      BY <1>3, <1>4, <2>1 DEF Numbered, Seqs
  <1> HIDE DEF S, all
  <1>6. KindSum(S \cup {new}, "delegate", all)
          = KindSum(S, "delegate", all) + Counted(new, "delegate", all)
    BY <1>2, <1>5, KindSumAdd
  <1>7. staking[z] = KindSum(S, "delegate", all) /\ staking[z] + amount <= deposits[z]
    BY <1>1, <1>2 DEF StakingInv, StakingSum, S, all, DelegateOnHost
  <1>8. StakingSum(channel'[z]["DELEGATION"].pkts) = KindSum(S \cup {new}, "delegate", all)
    BY <1>2 DEF StakingSum, all
  <1>9. deposits' = deposits /\ staking' = [staking EXCEPT ![z] = @ + amount]
    BY DEF DelegateOnHost
  <1>10. /\ staking'[z] = staking[z] + amount
         /\ \A y \in Zones : y # z => staking'[y] = staking[y]
    BY <1>1, <1>9 DEF AccountsTypeOK
  <1>11. \A y \in Zones : y # z => channel'[y]["DELEGATION"] = channel[y]["DELEGATION"]
    BY <1>2 DEF Accounts
  <1>12. staking'[z] = StakingSum(channel'[z]["DELEGATION"].pkts) /\ staking'[z] <= deposits'[z]
    BY <1>4, <1>6, <1>7, <1>8, <1>9, <1>10
  <1>13. channel'[z]["DELEGATION"].state # "INIT"
    BY <1>2
  <1> QED
    BY <1>1, <1>9, <1>10, <1>11, <1>12, <1>13 DEF StakingInv

LEMMA StakingInvNext ==
    RecordsInv /\ [Next]_vars => StakingInv'
  <1> SUFFICES ASSUME RecordsInv, [Next]_vars PROVE StakingInv'
    OBVIOUS
  <1>1. /\ StoresInv /\ StoresTypeOK /\ PacketsWellFormed /\ AccountsTypeOK /\ PacketsNumbered
        /\ StakingInv
    BY DEF RecordsInv, StoresInv
  <1>2. \A z \in Zones :
          LET S == channel[z]["DELEGATION"].pkts IN
          /\ S \in SUBSET Packet /\ IsFiniteSet(S) /\ Distinct(S)
          /\ channel[z]["DELEGATION"] \in Channel
    BY <1>1, ChannelDistinct DEF StoresTypeOK, Channel, Accounts
  <1>3. ASSUME UNCHANGED <<deposits, staking>>,
               \A z \in Zones : channel'[z]["DELEGATION"] = channel[z]["DELEGATION"]
        PROVE  StakingInv'
    BY <1>1, <1>3, StakingKept
  <1>4. ASSUME NEW z \in Zones, NEW a \in Accounts, NEW X, CloseChannel(z, a, X)
        PROVE  StakingInv'
    <2>1. /\ channel' = [channel EXCEPT ![z][a] = [state |-> "CLOSED", pkts |-> {}]]
          /\ UNCHANGED <<deposits, staking>>
      BY <1>4 DEF CloseChannel, accounts
    <2>2. \A y \in Zones :
            \/ channel'[y]["DELEGATION"] = channel[y]["DELEGATION"]
            \/ channel'[y]["DELEGATION"].state = "CLOSED"
      BY <1>1, <2>1 DEF StoresTypeOK, Accounts
    <2> QED
      BY <1>1, <2>1, <2>2 DEF StakingInv
  <1>5. ASSUME NEW lag \in 0..MaxLag, DayEpoch(lag) PROVE StakingInv'
    <2> DEFINE d == (day + 1) % DayCycle
    <2>1. /\ \A z \in Zones : channel'[z]["DELEGATION"].pkts =
               channel[z]["DELEGATION"].pkts \cup SubmittedPackets(z, d, lag)
          /\ \A z \in Zones, b \in Accounts : channel'[z][b].state = channel[z][b].state
      BY <1>1, <1>5, DayRecords
    <2>2. UNCHANGED <<deposits, staking>>
      BY <1>5 DEF DayEpoch, accounts
    <2> HIDE DEF d
    <2>3. ASSUME NEW z \in Zones
          PROVE  StakingSum(channel'[z]["DELEGATION"].pkts) = StakingSum(channel[z]["DELEGATION"].pkts)
      <3>1. \A x \in SubmittedPackets(z, d, lag) : x.kind # "delegate"
        BY <1>1, SubmittedPacket
      <3> QED
        BY <2>1, <3>1, KindSumOther DEF StakingSum
    <2> QED
      BY <1>1, <2>1, <2>2, <2>3, StakingKept DEF Accounts
  <1>6. CASE Tick
    <2>1. UNCHANGED <<deposits, staking>>
      BY <1>6 DEF Tick, accounts
    <2>2. ASSUME NEW z \in Zones
          PROVE  /\ channel'[z]["DELEGATION"].pkts = AgedAll(channel[z]["DELEGATION"].pkts)
                 /\ channel'[z]["DELEGATION"].state = channel[z]["DELEGATION"].state
      <3>1. channel'[z]["DELEGATION"] =
              [channel[z]["DELEGATION"] EXCEPT !.pkts = AgedAll(channel[z]["DELEGATION"].pkts)]
        BY <1>6 DEF Tick, Aged, AgedAll, Accounts
      <3> QED
        BY <1>2, <3>1 DEF Channel
    <2>3. ASSUME NEW z \in Zones
          PROVE  StakingSum(channel'[z]["DELEGATION"].pkts) = StakingSum(channel[z]["DELEGATION"].pkts)
      BY <1>2, <2>2, KindSumAged DEF StakingSum
    <2> QED
      BY <1>1, <2>1, <2>2, <2>3, StakingKept
  <1>7. ASSUME NEW z \in Zones, NEW e \in Eurs, NEW u \in Users, ClaimUndelegatedTokens(e, z, u)
        PROVE  StakingInv'
    <2>1. \E S : channel' = [channel EXCEPT ![z]["REDEMPTION"].pkts = S]
      BY <1>7 DEF ClaimUndelegatedTokens
    <2>2. \A y \in Zones : channel'[y]["DELEGATION"] = channel[y]["DELEGATION"]
      BY <1>1, <2>1 DEF StoresTypeOK, Accounts
    <2>3. UNCHANGED <<deposits, staking>>
      BY <1>7 DEF ClaimUndelegatedTokens, accounts
    <2> QED
      BY <1>3, <2>2, <2>3
  <1>8. ASSUME NEW z \in Zones, NEW a \in Accounts, NEW p \in channel[z][a].pkts,
               NEW result \in {"ok", "err"}, ExecuteICA(z, a, p, result)
        PROVE  StakingInv'
    BY <1>8, ExecuteStaking
  <1>9. ASSUME NEW z \in Zones, NEW a \in Accounts, NEW p \in channel[z][a].pkts, AckICA(z, a, p)
        PROVE  StakingInv'
    BY <1>9, AckStaking
  <1>10. ASSUME NEW z \in Zones, NEW a \in Accounts, NEW p \in channel[z][a].pkts, TimeoutICA(z, a, p)
         PROVE  StakingInv'
    BY <1>4, <1>10 DEF TimeoutICA
  <1>11. ASSUME NEW z \in Zones, TimeoutOfAnother(z) PROVE StakingInv'
    BY <1>4, <1>11 DEF TimeoutOfAnother, Accounts
  <1>12. ASSUME NEW z \in Zones, NEW a \in Accounts, RestoreInterchainAccount(z, a)
         PROVE  StakingInv'
    <2>1. channel' = [channel EXCEPT ![z][a].state = "INIT"] /\ deposits' = deposits
      BY <1>12 DEF RestoreInterchainAccount
    <2>2. CASE a = "DELEGATION"
      <3>1. staking' = [staking EXCEPT ![z] = 0]
        BY <1>12, <2>2 DEF RestoreInterchainAccount
      <3>2. /\ staking'[z] = 0 /\ deposits[z] \in Nat
            /\ \A y \in Zones : y # z => staking'[y] = staking[y]
        BY <1>1, <3>1 DEF AccountsTypeOK
      <3>3. /\ channel'[z]["DELEGATION"].state = "INIT"
            /\ \A y \in Zones : y # z => channel'[y]["DELEGATION"] = channel[y]["DELEGATION"]
        BY <1>1, <2>1, <2>2 DEF StoresTypeOK, Channel
      <3> QED
        BY <1>1, <2>1, <3>2, <3>3 DEF StakingInv
    <2>3. CASE a = "REDEMPTION"
      <3>1. staking' = staking
        BY <1>12, <2>3 DEF RestoreInterchainAccount
      <3>2. \A y \in Zones : channel'[y]["DELEGATION"] = channel[y]["DELEGATION"]
        BY <1>1, <2>1, <2>3 DEF StoresTypeOK, Accounts
      <3> QED
        BY <1>3, <2>1, <3>1, <3>2
    <2> QED
      BY <2>2, <2>3 DEF Accounts
  <1>13. ASSUME NEW z \in Zones, NEW a \in Accounts, ChanOpenAck(z, a) PROVE StakingInv'
    <2>1. /\ channel' = [channel EXCEPT ![z][a].state = "OPEN"] /\ channel[z][a].state = "INIT"
          /\ UNCHANGED <<deposits, staking>>
      BY <1>13 DEF ChanOpenAck, accounts
    <2>2. CASE a = "DELEGATION"
      <3>1. channel[z]["DELEGATION"].pkts = {} /\ staking[z] = 0
        BY <1>1, <2>1, <2>2 DEF PacketsWellFormed, StakingInv
      <3>2. /\ channel'[z]["DELEGATION"].state = "OPEN" /\ channel'[z]["DELEGATION"].pkts = {}
            /\ \A y \in Zones : y # z => channel'[y]["DELEGATION"] = channel[y]["DELEGATION"]
        BY <1>1, <2>1, <2>2, <3>1 DEF StoresTypeOK, Channel
      <3>3. StakingSum({}) = 0
        BY KindSumEmpty DEF StakingSum
      <3> QED
        BY <1>1, <2>1, <3>1, <3>2, <3>3 DEF StakingInv
    <2>3. CASE a = "REDEMPTION"
      <3>1. \A y \in Zones : channel'[y]["DELEGATION"] = channel[y]["DELEGATION"]
        BY <1>1, <2>1, <2>3 DEF StoresTypeOK, Accounts
      <3> QED
        BY <1>3, <2>1, <3>1
    <2> QED
      BY <2>2, <2>3 DEF Accounts
  <1>14. ASSUME NEW z \in Zones, NEW amount \in 1..deposits[z], DelegateOnHost(z, amount)
         PROVE  StakingInv'
    BY <1>14, DelegateStaking
  <1>15. ASSUME NEW z \in Zones, DepositsSide(z) PROVE StakingInv'
    <2>1. channel' = channel /\ staking' = staking
      BY <1>15 DEF DepositsSide, Reinvest, UpdateRedemptionRates, BeginBlocker, accounts
    <2>2. deposits' = deposits \/ deposits' = [deposits EXCEPT ![z] = @ + 1]
      BY <1>15 DEF DepositsSide, Reinvest, UpdateRedemptionRates, BeginBlocker, accounts
    <2>3. deposits \in [Zones -> Nat] /\ staking \in [Zones -> Nat]
      BY <1>1 DEF AccountsTypeOK
    <2>4. \A y \in Zones : deposits'[y] = deposits[y] \/ deposits'[y] = deposits[y] + 1
      BY <2>2, <2>3
    <2>5. \A y \in Zones : staking[y] <= deposits'[y]
      <3>1. \A y \in Zones : staking[y] <= deposits[y]
        BY <1>1 DEF StakingInv
      <3> QED
        BY <2>3, <2>4, <3>1
    <2> QED
      BY <1>1, <2>1, <2>5 DEF StakingInv
  <1>16. ASSUME NEW z \in Zones, NEW u \in Users, NEW amount \in RedeemAmounts,
                RedeemStake(z, u, amount)
         PROVE  StakingInv'
    BY <1>3, <1>16 DEF RedeemStake
  <1>17. ASSUME NEW k \in orphans, TimeoutOnClose(k) PROVE StakingInv'
    BY <1>3, <1>17 DEF TimeoutOnClose, accounts
  <1>18. CASE UNCHANGED vars
    BY <1>3, <1>18 DEF vars, accounts
  <1> QED
    BY <1>5, <1>6, <1>7, <1>8, <1>9, <1>10, <1>11, <1>12, <1>13, <1>14, <1>15, <1>16, <1>17, <1>18
       DEF Next, DepositsSide

-----------------------------------------------------------------------------
(* The invariant *)

LEMMA RecordsInvNext ==
    RecordsInv /\ [Next]_vars => RecordsInv'
  <1> SUFFICES ASSUME RecordsInv, [Next]_vars PROVE RecordsInv'
    OBVIOUS
  <1>1. StoresInv /\ PacketsNumbered
    BY DEF RecordsInv
  <1>2. StoresInv' /\ AccountsTypeOK'
    BY StoresNext
  <1>3. PacketsNumbered'
    BY <1>1, <1>2, PacketsNumberedNext
  <1>4. StakingInv'
    BY StakingInvNext
  <1> QED
    BY <1>2, <1>3, <1>4 DEF RecordsInv

LEMMA RecordsInvHolds ==
    Spec => []RecordsInv
  BY RecordsInvInit, RecordsInvNext, PTL DEF Spec

\* A packet under way finds the records it is for, in the status that waits
\* for it and with the amount it carries, whatever is redeemed, restored or
\* cleaned up meanwhile.
THEOREM PacketsMatchRecordsHolds ==
    Spec => []PacketsMatchRecords
  <1>1. RecordsInv => PacketsMatchRecords
    <2> SUFFICES ASSUME RecordsInv PROVE PacketsMatchRecords
      OBVIOUS
    <2>1. StoresTypeOK /\ PacketsMatch /\ StakingInv
      BY DEF RecordsInv, StoresInv
    <2>2. \A z \in Zones : channel[z]["DELEGATION"].state = "OPEN" => staking[z] = Delegating(z)
      BY <2>1, DelegatingSum DEF StakingInv
    <2> QED
      BY <2>1, <2>2, MatchPointwise
  <1> QED
    BY <1>1, RecordsInvHolds, PTL

\* A redemption is paid at most once, whatever is lost, times out or is tried
\* again.
THEOREM PaidAtMostOnceHolds ==
    Spec => []PaidAtMostOnce
  <1>1. RecordsInv => PaidAtMostOnce
    BY PaidPointwise DEF RecordsInv, StoresInv
  <1> QED
    BY <1>1, RecordsInvHolds, PTL

\* A host zone unbonding owes exactly what its users are still to be paid.
THEOREM UsersAccountedHolds ==
    Spec => []UsersAccounted
  <1>1. RecordsInv => UsersAccounted
    BY UsersOwedSum DEF RecordsInv, StoresInv
  <1> QED
    BY <1>1, RecordsInvHolds, PTL

-----------------------------------------------------------------------------
(* The type invariant *)

DayTypeOK == day \in 0..DayCycle - 1

LEMMA DayTypeNext ==
    DayTypeOK /\ [Next]_vars => DayTypeOK'
  <1> SUFFICES ASSUME DayTypeOK, [Next]_vars PROVE DayTypeOK'
    OBVIOUS
  <1>1. DayCycle \in Nat \ {0}
    BY UnbondingRecordsAssumption
  <1>2. CASE day' = day
    BY <1>2 DEF DayTypeOK
  <1>3. CASE \E lag \in 0..MaxLag : DayEpoch(lag)
    <2>1. day' = (day + 1) % DayCycle /\ day + 1 \in Int
      BY <1>3 DEF DayEpoch, DayTypeOK
    <2> DEFINE i == day + 1
    <2>2. i % DayCycle \in 0..DayCycle - 1
      <3>1. i \in Int
        BY <2>1
      <3> HIDE DEF i
      <3> QED
        BY <1>1, <3>1
    <2> QED
      BY <2>1, <2>2 DEF DayTypeOK
  <1>4. CASE ~\E lag \in 0..MaxLag : DayEpoch(lag)
    <2>1. CASE Tick \/ UNCHANGED vars \/ \E k \in orphans : TimeoutOnClose(k)
      BY <1>2, <2>1 DEF Tick, TimeoutOnClose, vars, records
    <2>2. ASSUME NEW z \in Zones, NEW a \in Accounts, NEW p \in channel[z][a].pkts,
                 \/ \E result \in {"ok", "err"} : ExecuteICA(z, a, p, result)
                 \/ AckICA(z, a, p)
                 \/ TimeoutICA(z, a, p)
          PROVE  day' = day
      BY <2>2 DEF ExecuteICA, AckICA, TimeoutICA, CloseChannel, records
    <2>3. ASSUME NEW z \in Zones,
                 \/ \E a \in Accounts : RestoreInterchainAccount(z, a) \/ ChanOpenAck(z, a)
                 \/ TimeoutOfAnother(z)
          PROVE  day' = day
      BY <2>3 DEF RestoreInterchainAccount, ChanOpenAck, TimeoutOfAnother, CloseChannel, records
    <2>4. ASSUME NEW z \in Zones,
                 \/ \E u \in Users, amount \in RedeemAmounts : RedeemStake(z, u, amount)
                 \/ \E e \in Eurs, u \in Users : ClaimUndelegatedTokens(e, z, u)
          PROVE  day' = day
      BY <2>4 DEF RedeemStake, ClaimUndelegatedTokens
    <2>5. ASSUME NEW z \in Zones,
                 DepositsSide(z) \/ \E amount \in 1..deposits[z] : DelegateOnHost(z, amount)
          PROVE  day' = day
      BY <2>5 DEF DepositsSide, Reinvest, DelegateOnHost, UpdateRedemptionRates,
             BeginBlocker, records
    <2> QED
      BY <1>2, <1>4, <2>1, <2>2, <2>3, <2>4, <2>5 DEF Next, DepositsSide
  <1> QED
    BY <1>3, <1>4

\* For any zones, users, amounts and periods every store and account keeps its
\* type, no account is overdrawn, and the packets of a channel are numbered
\* from the next one to be acknowledged on, without gaps.
THEOREM TypeOKHolds == Spec => []TypeOK
<1>1. Init => DayTypeOK
  BY UnbondingRecordsAssumption DEF Init, DayTypeOK
<1>2. RecordsInv /\ DayTypeOK => TypeOK
  <2> SUFFICES ASSUME RecordsInv, DayTypeOK PROVE TypeOK
    OBVIOUS
  <2>1. StoresTypeOK /\ PacketsWellFormed /\ AccountsTypeOK /\ PacketsNumbered
    BY DEF RecordsInv, StoresInv
  <2>2. /\ DOMAIN channel = Zones
        /\ \A z \in Zones : DOMAIN channel[z] = Accounts
    BY <2>1 DEF StoresTypeOK
  <2>3. \A z \in Zones, a \in Accounts :
          /\ channel[z][a].state \in {"OPEN", "CLOSED", "INIT"}
          /\ \A p \in channel[z][a].pkts : p \in Packet /\ channel[z][a].state = "OPEN"
          /\ {p.seq : p \in channel[z][a].pkts} = 1..Cardinality(channel[z][a].pkts)
    BY <2>1 DEF StoresTypeOK, Channel, PacketsWellFormed, PacketsNumbered, Numbered, Seqs
  <2>4. \A f \in {stWallet, escrow, deposits, staking, delegated, hostAcct, redemptionAcct} :
          f \in [Zones -> Nat]
    BY <2>1 DEF AccountsTypeOK
  <2> QED
    BY <2>1, <2>2, <2>3, <2>4 DEF TypeOK, StoresTypeOK, AccountsTypeOK, DayTypeOK
<1>3. QED
    BY <1>1, <1>2, RecordsInvHolds, DayTypeNext, PTL DEF Spec
=============================================================================
