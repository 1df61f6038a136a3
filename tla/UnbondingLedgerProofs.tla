----------------------- MODULE UnbondingLedgerProofs -----------------------
(***************************************************************************)
(* For any zones, users, amounts and periods: the balances that redemptions *)
(* move, on stride and on the host.                                        *)
(*                                                                         *)
(* Each balance of UnbondingRecords is a sum over records, a sum over      *)
(* packets that the host has executed, or what was lost with a channel.    *)
(* Sums over records are written as sums over all Eurs of what one record  *)
(* counts for.  Under the invariant of UnbondingProofs a packet under way  *)
(* carries the amount of the records that wait for it, so what a callback  *)
(* takes from one sum it adds to another.                                  *)
(*                                                                         *)
(* The second half is about the delegation account on the host, where the  *)
(* tokens of deposits, of records and of undelegations done twice are one  *)
(* balance, and unbonding entries pay into it when their time has come.    *)
(*                                                                         *)
(* Last is the refinement: every step is one of RedemptionLifecycle.       *)
(***************************************************************************)
EXTENDS UnbondingProofs

\* What a record counts for in the escrow and in what users may claim.
EscrowPart(h, z) == [e \in Eurs |->
    IF h[e][z].status \in {"UNBONDING_QUEUE", "UNBONDING_IN_PROGRESS"} THEN h[e][z].st ELSE 0]

ClaimablePart(h, z) == [e \in Eurs |->
    IF h[e][z].status = "CLAIMABLE" THEN h[e][z].native ELSE 0]

EscrowSum(h, z) == SumFunctionOnSet(EscrowPart(h, z), Eurs)
ClaimableSum(h, z) == SumFunctionOnSet(ClaimablePart(h, z), Eurs)

\* The three balances of the properties.
EscrowInv == \A z \in Zones : escrow[z] = EscrowSum(hzu, z)

StakedInv == \A z \in Zones :
    zone[z].stakedBal + lost[z]["delegate"] + OkSum(channel[z]["DELEGATION"].pkts, "delegate")
      = delegated[z] + lost[z]["undelegate"] + OkSum(channel[z]["DELEGATION"].pkts, "undelegate")

ClaimsInv == \A z \in Zones :
    redemptionAcct[z] + lost[z]["claim"] + OkSum(channel[z]["REDEMPTION"].pkts, "claim")
      = ClaimableSum(hzu, z) + lost[z]["redemption"]
          + OkSum(channel[z]["DELEGATION"].pkts, "redemption")

LedgerInv == EscrowInv /\ StakedInv /\ ClaimsInv

-----------------------------------------------------------------------------
(* What the host has executed without the news *)

LEMMA OkSumNat ==
    ASSUME NEW S \in SUBSET Packet, IsFiniteSet(S), NEW kind
    PROVE  OkSum(S, kind) \in Nat
  BY KindSumNat DEF OkSum

LEMMA OkSumEmpty ==
    ASSUME NEW kind
    PROVE  OkSum({}, kind) = 0
  BY KindSumEmpty DEF OkSum

\* Packets of other kinds do not count ...
LEMMA OkSumOther ==
    ASSUME NEW S, NEW kind, \A p \in S : p.kind # kind
    PROVE  OkSum(S, kind) = 0
  BY KindSumEmpty DEF OkSum

\* ... nor do those that were not executed.
LEMMA OkSumSent ==
    ASSUME NEW S, NEW T, \A p \in T : p.state # "ok", NEW kind
    PROVE  OkSum(S \cup T, kind) = OkSum(S, kind)
  <1>1. PacketsOf(S \cup T, kind, {"ok"}) = PacketsOf(S, kind, {"ok"})
    BY DEF PacketsOf
  <1> QED
    BY <1>1 DEF OkSum, KindSum

\* A packet whose outcome was executed counts if it is of the kind.
Counts(p, kind) == IF p.state = "ok" /\ p.kind = kind THEN p.amount ELSE 0

LEMMA OkSumRemove ==
    ASSUME NEW S \in SUBSET Packet, IsFiniteSet(S), NEW p \in S, NEW kind
    PROVE  OkSum(S, kind) = OkSum(S \ {p}, kind) + Counts(p, kind)
  <1>1. Counts(p, kind) = Counted(p, kind, {"ok"})
    BY DEF Counts, Counted
  <1> QED
    BY <1>1, KindSumRemove DEF OkSum

\* A packet that the host executes counts from then on, if it succeeds.
LEMMA OkSumExecuted ==
    ASSUME NEW S \in SUBSET Packet, IsFiniteSet(S), Distinct(S), NEW p \in S, p.state = "sent",
           NEW result \in {"ok", "err"}, NEW kind
    PROVE  OkSum((S \ {p}) \cup {ExecutedPacket(p, result)}, kind)
             = OkSum(S, kind) + IF result = "ok" /\ p.kind = kind THEN p.amount ELSE 0
  <1> DEFINE new == ExecutedPacket(p, result)
             T == S \ {p}
             U == T \cup {new}
             rest == KindSum(T, kind, {"ok"})
  <1>0. Executing(S, p, result, T, U)
    BY DEF Executing
  <1> HIDE DEF T, U
  <1>1. /\ rest \in Nat
        /\ OkSum(S, kind) = rest + Counted(p, kind, {"ok"})
        /\ OkSum(U, kind) = rest + Counted(new, kind, {"ok"})
    BY <1>0, KindSumExecuted DEF OkSum
  <1>2. new.kind = p.kind /\ new.amount = p.amount /\ new.state = result
    BY ExecutedPacketSame DEF Same
  <1>3. Counted(p, kind, {"ok"}) = 0
    BY DEF Counted
  <1>4. Counted(new, kind, {"ok"}) = IF result = "ok" /\ p.kind = kind THEN p.amount ELSE 0
    BY <1>2 DEF Counted
  <1> HIDE DEF new, rest
  <1>5. OkSum(U, kind) = OkSum(S, kind) + IF result = "ok" /\ p.kind = kind THEN p.amount ELSE 0
    BY <1>1, <1>3, <1>4
  <1> QED
    BY <1>5 DEF new, T, U

-----------------------------------------------------------------------------
(* Sums over records *)

LEMMA PartNat ==
    ASSUME NEW h \in RecordStore, NEW z \in Zones
    PROVE  /\ \A e \in Eurs : EscrowPart(h, z)[e] \in Nat
           /\ \A e \in Eurs : ClaimablePart(h, z)[e] \in Nat
  BY DEF RecordStore, HostZoneUnbonding, EscrowPart, ClaimablePart

LEMMA PartSumNat ==
    ASSUME NEW h \in RecordStore, NEW z \in Zones
    PROVE  EscrowSum(h, z) \in Nat /\ ClaimableSum(h, z) \in Nat
  <1>1. IsFiniteSet(Eurs)
    BY UnbondingRecordsAssumption
  <1>2. \A e \in Eurs : EscrowPart(h, z)[e] \in Nat
    BY PartNat
  <1>3. \A e \in Eurs : ClaimablePart(h, z)[e] \in Nat
    BY PartNat
  <1>4. SumFunctionOnSet(EscrowPart(h, z), Eurs) \in Nat
    BY <1>1, <1>2, SumNat
  <1>5. SumFunctionOnSet(ClaimablePart(h, z), Eurs) \in Nat
    BY <1>1, <1>3, SumNat
  <1> QED
    BY <1>4, <1>5 DEF EscrowSum, ClaimableSum

\* The sums of the properties are these sums.
LEMMA EscrowIsSum ==
    ASSUME NEW h \in RecordStore, NEW z \in Zones
    PROVE  StAmount(h, z, WithStatus(h, z, {"UNBONDING_QUEUE", "UNBONDING_IN_PROGRESS"}))
             = EscrowSum(h, z)
  <1> DEFINE S == WithStatus(h, z, {"UNBONDING_QUEUE", "UNBONDING_IN_PROGRESS"})
             f == [e \in S |-> h[e][z].st]
             g == EscrowPart(h, z)
  <1>1. S \in SUBSET Eurs /\ IsFiniteSet(Eurs)
    BY UnbondingRecordsAssumption DEF WithStatus
  <1>2. \A e \in S : f[e] = g[e]
    BY DEF WithStatus, EscrowPart
  <1>3. \A e \in Eurs \ S : g[e] = 0
    BY DEF WithStatus, EscrowPart
  <1>4. \A e \in Eurs : g[e] \in Nat
    BY PartNat
  <1>5. StAmount(h, z, S) = SumFunctionOnSet(f, S)
    BY DEF StAmount, SumFunction
  <1> HIDE DEF S, f, g
  <1>6. \A e \in S : f[e] = g[e] /\ g[e] \in Int
    BY <1>1, <1>2, <1>4
  <1>7. SumFunctionOnSet(f, S) = SumFunctionOnSet(g, Eurs)
    BY <1>1, <1>3, <1>6, SumRestrict
  <1> QED
    BY <1>5, <1>7 DEF EscrowSum, g, S

LEMMA ClaimableIsSum ==
    ASSUME NEW h \in RecordStore, NEW z \in Zones
    PROVE  NativeAmount(h, z, WithStatus(h, z, {"CLAIMABLE"})) = ClaimableSum(h, z)
  <1> DEFINE S == WithStatus(h, z, {"CLAIMABLE"})
             f == [e \in S |-> h[e][z].native]
             g == ClaimablePart(h, z)
  <1>1. S \in SUBSET Eurs /\ IsFiniteSet(Eurs)
    BY UnbondingRecordsAssumption DEF WithStatus
  <1>2. \A e \in S : f[e] = g[e]
    BY DEF WithStatus, ClaimablePart
  <1>3. \A e \in Eurs \ S : g[e] = 0
    BY DEF WithStatus, ClaimablePart
  <1>4. \A e \in Eurs : g[e] \in Nat
    BY PartNat
  <1>5. NativeAmount(h, z, S) = SumFunctionOnSet(f, S)
    BY DEF NativeAmount, SumFunction
  <1> HIDE DEF S, f, g
  <1>6. \A e \in S : f[e] = g[e] /\ g[e] \in Int
    BY <1>1, <1>2, <1>4
  <1>7. SumFunctionOnSet(f, S) = SumFunctionOnSet(g, Eurs)
    BY <1>1, <1>3, <1>6, SumRestrict
  <1> QED
    BY <1>5, <1>7 DEF ClaimableSum, g, S

\* Records that count for the same.
LEMMA EscrowSame ==
    ASSUME NEW g, NEW h, NEW z, \A e \in Eurs : EscrowPart(h, z)[e] = EscrowPart(g, z)[e]
    PROVE  EscrowSum(h, z) = EscrowSum(g, z)
  BY UnbondingRecordsAssumption, SumSame DEF EscrowSum

LEMMA ClaimableSame ==
    ASSUME NEW g, NEW h, NEW z, \A e \in Eurs : ClaimablePart(h, z)[e] = ClaimablePart(g, z)[e]
    PROVE  ClaimableSum(h, z) = ClaimableSum(g, z)
  BY UnbondingRecordsAssumption, SumSame DEF ClaimableSum

-----------------------------------------------------------------------------
(* Steps that leave the balances alone *)

\* Everything the balances are made of is a natural number.
LedgerTypeOK ==
    \A z \in Zones :
        /\ escrow[z] \in Nat /\ zone[z].stakedBal \in Nat
        /\ delegated[z] \in Nat /\ redemptionAcct[z] \in Nat
        /\ \A kind \in Kinds : lost[z][kind] \in Nat
        /\ \A a \in Accounts, kind \in Kinds : OkSum(channel[z][a].pkts, kind) \in Nat
        /\ EscrowSum(hzu, z) \in Nat /\ ClaimableSum(hzu, z) \in Nat

LEMMA LedgerTypes ==
    RecordsInv => LedgerTypeOK
  <1> SUFFICES ASSUME RecordsInv, NEW z \in Zones
               PROVE  /\ escrow[z] \in Nat /\ zone[z].stakedBal \in Nat
                      /\ delegated[z] \in Nat /\ redemptionAcct[z] \in Nat
                      /\ \A kind \in Kinds : lost[z][kind] \in Nat
                      /\ \A a \in Accounts, kind \in Kinds : OkSum(channel[z][a].pkts, kind) \in Nat
                      /\ EscrowSum(hzu, z) \in Nat /\ ClaimableSum(hzu, z) \in Nat
    BY DEF LedgerTypeOK
  <1>1. StoresTypeOK /\ AccountsTypeOK
    BY DEF RecordsInv, StoresInv
  <1>2. hzu \in RecordStore
    BY <1>1 DEF StoresTypeOK, RecordStore
  <1>3. EscrowSum(hzu, z) \in Nat /\ ClaimableSum(hzu, z) \in Nat
    BY <1>2, PartSumNat
  <1>4. \A a \in Accounts, kind \in Kinds : OkSum(channel[z][a].pkts, kind) \in Nat
    <2> SUFFICES ASSUME NEW a \in Accounts, NEW kind \in Kinds
                 PROVE  OkSum(channel[z][a].pkts, kind) \in Nat
      OBVIOUS
    <2>1. channel[z][a].pkts \in SUBSET Packet /\ IsFiniteSet(channel[z][a].pkts)
      BY <1>1 DEF StoresTypeOK, Channel
    <2> QED
      BY <2>1, OkSumNat
  <1> QED
    BY <1>1, <1>3, <1>4 DEF AccountsTypeOK

LEMMA LedgerTypesNext ==
    RecordsInv' => LedgerTypeOK'
  BY LedgerTypes, PTL

SameRecordSums ==
    \A z \in Zones : /\ EscrowSum(hzu', z) = EscrowSum(hzu, z)
                     /\ ClaimableSum(hzu', z) = ClaimableSum(hzu, z)

SamePacketSums ==
    \A z \in Zones, a \in Accounts, kind \in Kinds :
        OkSum(channel'[z][a].pkts, kind) = OkSum(channel[z][a].pkts, kind)

SameAccounts ==
    \A z \in Zones : /\ escrow'[z] = escrow[z]
                     /\ zone'[z].stakedBal = zone[z].stakedBal
                     /\ delegated'[z] = delegated[z]
                     /\ redemptionAcct'[z] = redemptionAcct[z]
                     /\ lost'[z] = lost[z]

LEMMA QuietStep ==
    ASSUME LedgerInv, SameRecordSums, SamePacketSums, SameAccounts
    PROVE  LedgerInv'
  <1>1. "DELEGATION" \in Accounts /\ "REDEMPTION" \in Accounts
        /\ {"undelegate", "redemption", "claim", "delegate"} \subseteq Kinds
    BY DEF Accounts, Kinds
  <1>2. EscrowInv'
    BY DEF LedgerInv, EscrowInv, SameRecordSums, SameAccounts
  <1>3. StakedInv'
    <2> SUFFICES ASSUME NEW z \in Zones
                 PROVE  zone'[z].stakedBal + lost'[z]["delegate"]
                            + OkSum(channel'[z]["DELEGATION"].pkts, "delegate")
                          = delegated'[z] + lost'[z]["undelegate"]
                              + OkSum(channel'[z]["DELEGATION"].pkts, "undelegate")
      BY DEF StakedInv
    <2> QED
      BY <1>1 DEF LedgerInv, StakedInv, SamePacketSums, SameAccounts
  <1>4. ClaimsInv'
    <2> SUFFICES ASSUME NEW z \in Zones
                 PROVE  redemptionAcct'[z] + lost'[z]["claim"]
                            + OkSum(channel'[z]["REDEMPTION"].pkts, "claim")
                          = ClaimableSum(hzu', z) + lost'[z]["redemption"]
                              + OkSum(channel'[z]["DELEGATION"].pkts, "redemption")
      BY DEF ClaimsInv
    <2> QED
      BY <1>1 DEF LedgerInv, ClaimsInv, SamePacketSums, SameAccounts, SameRecordSums
  <1> QED
    BY <1>2, <1>3, <1>4 DEF LedgerInv

\* Records that keep status and amounts keep the sums.
LEMMA KeptSums ==
    ASSUME \A e \in Eurs, y \in Zones : /\ hzu'[e][y].status = hzu[e][y].status
                                        /\ hzu'[e][y].native = hzu[e][y].native
                                        /\ hzu'[e][y].st = hzu[e][y].st
    PROVE  SameRecordSums
  <1> SUFFICES ASSUME NEW z \in Zones
               PROVE  /\ EscrowSum(hzu', z) = EscrowSum(hzu, z)
                      /\ ClaimableSum(hzu', z) = ClaimableSum(hzu, z)
    BY DEF SameRecordSums
  <1>1. \A e \in Eurs : EscrowPart(hzu', z)[e] = EscrowPart(hzu, z)[e]
    BY DEF EscrowPart
  <1>2. \A e \in Eurs : ClaimablePart(hzu', z)[e] = ClaimablePart(hzu, z)[e]
    BY DEF ClaimablePart
  <1> QED
    BY <1>1, <1>2, EscrowSame, ClaimableSame

LEMMA SameChannel ==
    ASSUME \A z \in Zones, a \in Accounts : channel'[z][a].pkts = channel[z][a].pkts
    PROVE  SamePacketSums
  BY DEF SamePacketSums

\* Time on the host.
\* Packets that age are worth the same.
LEMMA TickSums ==
    ASSUME RecordsInv, Tick
    PROVE  SamePacketSums
  <1> SUFFICES ASSUME NEW z \in Zones, NEW a \in Accounts, NEW kind \in Kinds
               PROVE  OkSum(channel'[z][a].pkts, kind) = OkSum(channel[z][a].pkts, kind)
    BY DEF SamePacketSums
  <1>1. channel'[z][a].pkts = AgedAll(channel[z][a].pkts)
    <2>1. channel[z][a] \in Channel
      BY DEF RecordsInv, StoresInv, StoresTypeOK
    <2>2. channel'[z][a] = [channel[z][a] EXCEPT !.pkts = AgedAll(channel[z][a].pkts)]
      BY DEF Tick, AgedAll, Aged
    <2> QED
      BY <2>1, <2>2 DEF Channel
  <1>2. channel[z][a].pkts \in SUBSET Packet /\ IsFiniteSet(channel[z][a].pkts)
    BY DEF RecordsInv, StoresInv, StoresTypeOK, Channel
  <1>3. Distinct(channel[z][a].pkts)
    BY ChannelDistinct DEF RecordsInv
  <1> DEFINE S == channel[z][a].pkts
  <1>4. OkSum(AgedAll(S), kind) = OkSum(S, kind)
    BY <1>2, <1>3, KindSumAged DEF OkSum
  <1> QED
    BY <1>1, <1>4

LEMMA TickLedger ==
    ASSUME RecordsInv, LedgerInv, Tick
    PROVE  LedgerInv'
  <1>1. StoresTypeOK /\ PacketsWellFormed /\ PacketsMatch /\ AccountsTypeOK
    BY DEF RecordsInv, StoresInv
  <1>2. \A e \in Eurs, y \in Zones : /\ hzu'[e][y].status = hzu[e][y].status
                                     /\ hzu'[e][y].native = hzu[e][y].native
                                     /\ hzu'[e][y].st = hzu[e][y].st
    <2> SUFFICES ASSUME NEW e \in Eurs, NEW y \in Zones
                 PROVE  /\ hzu'[e][y].status = hzu[e][y].status
                        /\ hzu'[e][y].native = hzu[e][y].native
                        /\ hzu'[e][y].st = hzu[e][y].st
      OBVIOUS
    <2>1. hzu'[e][y] = hzu[e][y] \/ hzu'[e][y] = [hzu[e][y] EXCEPT !.left = Passed(hzu[e][y].left)]
      BY DEF Tick
    <2>2. hzu[e][y] \in HostZoneUnbonding
      BY <1>1 DEF StoresTypeOK
    <2> QED
      BY <2>1, <2>2 DEF HostZoneUnbonding
  <1>3. SamePacketSums
    BY TickSums
  <1>4. SameAccounts
    BY DEF Tick, SameAccounts, accounts, ghosts
  <1> QED
    BY <1>2, <1>3, <1>4, KeptSums, QuietStep

LEMMA ClaimLedger ==
    ASSUME RecordsInv, LedgerInv, NEW e \in Eurs, NEW z \in Zones, NEW u \in Users,
           ClaimUndelegatedTokens(e, z, u)
    PROVE  LedgerInv'
  <1>1. StoresInv /\ StoresTypeOK
    BY DEF RecordsInv, StoresInv
  <1>2. PICK i \in Int :
          /\ ClaimPacket(e, u, urr[e][z][u].amount, i) \in Packet
          /\ SetPackets(z, "REDEMPTION", channel[z]["REDEMPTION"].pkts
                                           \cup {ClaimPacket(e, u, urr[e][z][u].amount, i)})
    BY <1>1, ClaimEffect
  <1> DEFINE new == ClaimPacket(e, u, urr[e][z][u].amount, i)
             old == channel[z]["REDEMPTION"].pkts
  <1>3. new.state = "sent" /\ "REDEMPTION" \in Accounts
    BY DEF ClaimPacket, Accounts
  <1>4. old \cup {new} \in SUBSET Packet
    BY <1>1, <1>2, <1>3 DEF StoresTypeOK, Channel
  <1> HIDE DEF new
  <1>5. /\ channel'[z]["REDEMPTION"].pkts = old \cup {new}
        /\ \A y \in Zones, b \in Accounts :
             ~(y = z /\ b = "REDEMPTION") => channel'[y][b] = channel[y][b]
    BY <1>1, <1>2, <1>3, <1>4, ChannelPackets DEF new
  <1>6. SamePacketSums
    <2> SUFFICES ASSUME NEW y \in Zones, NEW b \in Accounts, NEW kind \in Kinds
                 PROVE  OkSum(channel'[y][b].pkts, kind) = OkSum(channel[y][b].pkts, kind)
      BY DEF SamePacketSums
    <2>1. CASE y = z /\ b = "REDEMPTION"
      <3>1. OkSum(old \cup {new}, kind) = OkSum(old, kind)
        BY <1>3, OkSumSent
      <3> QED
        BY <3>1, <2>1, <1>5
    <2>2. CASE ~(y = z /\ b = "REDEMPTION")
      BY <2>2, <1>5
    <2> QED
      BY <2>1, <2>2
  <1>7. UNCHANGED <<hzu, zone, accounts, host, ghosts>>
    BY DEF ClaimUndelegatedTokens
  <1>8. SameAccounts /\ SameRecordSums
    BY <1>7 DEF SameAccounts, SameRecordSums, accounts, host, ghosts
  <1> QED
    BY <1>6, <1>8, QuietStep

\* Statuses may change within the escrow and within what is not claimable.
LEMMA RestoreLedger ==
    ASSUME RecordsInv, LedgerInv, NEW z \in Zones, NEW a \in Accounts,
           RestoreInterchainAccount(z, a)
    PROVE  LedgerInv'
  <1>1. StoresInv /\ StoresTypeOK /\ hzu \in RecordStore
    BY DEF RecordsInv, StoresInv, StoresTypeOK, RecordStore
  <1>2. ASSUME NEW e \in Eurs, NEW y \in Zones
        PROVE  /\ EscrowPart(hzu', y)[e] = EscrowPart(hzu, y)[e]
               /\ ClaimablePart(hzu', y)[e] = ClaimablePart(hzu, y)[e]
    <2>1. CASE a # "DELEGATION"
      BY <2>1 DEF RestoreInterchainAccount
    <2>2. CASE a = "DELEGATION"
      <3>1. hzu' = RevertedUnbondings(z)
        BY <2>2 DEF RestoreInterchainAccount
      <3> DEFINE A == WithStatus(hzu, z, {"UNBONDING_IN_PROGRESS"})
                 B == WithStatus(hzu, z, {"EXIT_TRANSFER_IN_PROGRESS"})
                 g == SetHostZoneUnbondings(hzu, z, A, "UNBONDING_QUEUE")
      <3>2. A \in SUBSET Eurs /\ B \in SUBSET Eurs
        BY DEF WithStatus
      <3>3. /\ e \in A <=> hzu[e][z].status = "UNBONDING_IN_PROGRESS"
            /\ e \in B <=> hzu[e][z].status = "EXIT_TRANSFER_IN_PROGRESS"
        BY DEF WithStatus
      <3>4. "UNBONDING_QUEUE" \in Statuses /\ "EXIT_TRANSFER_QUEUE" \in Statuses
        BY DEF Statuses
      <3>5. hzu' = SetHostZoneUnbondings(g, z, B, "EXIT_TRANSFER_QUEUE")
        BY <3>1 DEF RevertedUnbondings
      <3> HIDE DEF A, B
      <3>6. StatusIs(g, hzu, z, A, "UNBONDING_QUEUE")
        BY <1>1, <3>2, <3>4, SetStatusIs
      <3> HIDE DEF g
      <3>7. g \in RecordStore
        BY <3>6 DEF StatusIs
      <3>8. StatusIs(hzu', g, z, B, "EXIT_TRANSFER_QUEUE")
        BY <3>2, <3>4, <3>5, <3>7, SetStatusIs
      <3>9. /\ hzu'[e][y].native = hzu[e][y].native /\ hzu'[e][y].st = hzu[e][y].st
            /\ \/ hzu'[e][y].status = hzu[e][y].status
               \/ /\ hzu[e][y].status = "UNBONDING_IN_PROGRESS"
                  /\ hzu'[e][y].status = "UNBONDING_QUEUE"
               \/ /\ hzu[e][y].status = "EXIT_TRANSFER_IN_PROGRESS"
                  /\ hzu'[e][y].status = "EXIT_TRANSFER_QUEUE"
        BY <3>3, <3>6, <3>8 DEF StatusIs
      <3> QED
        BY <3>9 DEF EscrowPart, ClaimablePart
    <2> QED
      BY <2>1, <2>2
  <1>3. SameRecordSums
    BY <1>2, EscrowSame, ClaimableSame DEF SameRecordSums
  <1>4. \A y \in Zones, b \in Accounts : channel'[y][b].pkts = channel[y][b].pkts
    <2>1. SetState(z, a, "INIT") /\ channel[z][a].state # "OPEN"
      BY DEF RestoreInterchainAccount, SetState
    <2> QED
      BY <1>1, <2>1, ChannelStateEffect
  <1>5. UNCHANGED <<zone, escrow, host, ghosts>>
    BY DEF RestoreInterchainAccount
  <1>6. SameAccounts
    BY <1>5 DEF SameAccounts, host, ghosts
  <1> QED
    BY <1>3, <1>4, <1>6, SameChannel, QuietStep

LEMMA ChanOpenAckLedger ==
    ASSUME RecordsInv, LedgerInv, NEW z \in Zones, NEW a \in Accounts, ChanOpenAck(z, a)
    PROVE  LedgerInv'
  <1>1. \A y \in Zones, b \in Accounts : channel'[y][b].pkts = channel[y][b].pkts
    <2>1. SetState(z, a, "OPEN") /\ channel[z][a].state # "OPEN"
      BY DEF ChanOpenAck, SetState
    <2>2. StoresInv
      BY DEF RecordsInv
    <2> QED
      BY <2>1, <2>2, ChannelStateEffect
  <1>2. UNCHANGED <<hzu, zone, accounts, host, ghosts>>
    BY DEF ChanOpenAck, records
  <1>3. SameAccounts /\ SameRecordSums
    BY <1>2 DEF SameAccounts, SameRecordSums, accounts, host, ghosts
  <1> QED
    BY <1>1, <1>3, SameChannel, QuietStep

\* A claim that was never received is allowed again; nothing is paid or owed.
LEMMA TimeoutOnCloseLedger ==
    ASSUME RecordsInv, LedgerInv, NEW k \in orphans, TimeoutOnClose(k)
    PROVE  LedgerInv'
  <1>1. UNCHANGED <<zone, accounts, channel, host, lost>> /\ ClaimCallback(k, "timeout")
    BY DEF TimeoutOnClose
  <1>2. hzu' = hzu
    BY <1>1 DEF ClaimCallback
  <1>3. SameAccounts /\ SameRecordSums /\ SamePacketSums
    BY <1>1, <1>2 DEF SameAccounts, SameRecordSums, SamePacketSums, accounts, host
  <1> QED
    BY <1>3, QuietStep

\* The day epoch: what it removes counts for nothing.
LEMMA DayEpochLedger ==
    ASSUME RecordsInv, LedgerInv, NEW lag \in 0..MaxLag, DayEpoch(lag)
    PROVE  LedgerInv'
  <1> DEFINE d == (day + 1) % DayCycle
  <1>1. StoresInv /\ StoresTypeOK /\ RecordsWellFormed
    BY DEF RecordsInv, StoresInv
  <1>2. /\ \A e \in Eurs, z \in Zones :
             /\ hzu'[e][z].native = hzu[e][z].native
             /\ \/ /\ hzu[e][z].native = 0 /\ hzu'[e][z].st = 0
                   /\ hzu'[e][z].status \in {"NONE", "UNBONDING_QUEUE"}
                \/ /\ hzu'[e][z].st = hzu[e][z].st
                   /\ hzu'[e][z].status = Submitted(d, lag)[e][z].status
        /\ \A z \in Zones : channel'[z]["DELEGATION"].pkts =
             channel[z]["DELEGATION"].pkts \cup SubmittedPackets(z, d, lag)
        /\ \A z \in Zones : channel'[z]["REDEMPTION"].pkts = channel[z]["REDEMPTION"].pkts
    BY <1>1, DayRecords
  <1> HIDE DEF d
  <1>3. ASSUME NEW e \in Eurs, NEW z \in Zones
        PROVE  /\ EscrowPart(hzu', z)[e] = EscrowPart(hzu, z)[e]
               /\ ClaimablePart(hzu', z)[e] = ClaimablePart(hzu, z)[e]
    <2>1. /\ hzu[e][z].status = "NONE" => hzu[e][z].native = 0 /\ hzu[e][z].st = 0
          /\ hzu[e][z].status = "UNBONDING_QUEUE" /\ hzu[e][z].native = 0 => hzu[e][z].st = 0
          /\ hzu[e][z].status \in {"UNBONDING_IN_PROGRESS", "EXIT_TRANSFER_QUEUE",
                                   "EXIT_TRANSFER_IN_PROGRESS"} => hzu[e][z].native > 0
      BY <1>1 DEF RecordsWellFormed
    <2>2. CASE /\ hzu[e][z].native = 0 /\ hzu'[e][z].st = 0
               /\ hzu'[e][z].status \in {"NONE", "UNBONDING_QUEUE"}
      <3>1. ClaimablePart(hzu', z)[e] = 0 /\ EscrowPart(hzu', z)[e] = 0
        BY <2>2 DEF ClaimablePart, EscrowPart
      <3>2. ClaimablePart(hzu, z)[e] = 0
        BY <2>2 DEF ClaimablePart
      <3>3. EscrowPart(hzu, z)[e] = 0
        BY <2>1, <2>2 DEF EscrowPart
      <3> QED
        BY <3>1, <3>2, <3>3
    <2>3. CASE /\ hzu'[e][z].st = hzu[e][z].st
               /\ hzu'[e][z].status = Submitted(d, lag)[e][z].status
      <3> DEFINE r == Submitted(d, lag)[e][z]
      <3>1. /\ e \in UnbondingDue(z, d) => r.status = "UNBONDING_IN_PROGRESS"
            /\ e \in SweepDue(z, lag) => r.status = "EXIT_TRANSFER_IN_PROGRESS"
            /\ ~(e \in UnbondingDue(z, d) \/ e \in SweepDue(z, lag)) => r.status = hzu[e][z].status
        BY <1>1, SubmittedRecords
      <3>2. /\ e \in UnbondingDue(z, d) => hzu[e][z].status = "UNBONDING_QUEUE"
            /\ e \in SweepDue(z, lag) => hzu[e][z].status = "EXIT_TRANSFER_QUEUE"
        BY DueRecords
      <3> HIDE DEF r
      <3>3. \/ hzu'[e][z].status = hzu[e][z].status
            \/ /\ hzu[e][z].status = "UNBONDING_QUEUE"
               /\ hzu'[e][z].status = "UNBONDING_IN_PROGRESS"
            \/ /\ hzu[e][z].status = "EXIT_TRANSFER_QUEUE"
               /\ hzu'[e][z].status = "EXIT_TRANSFER_IN_PROGRESS"
        BY <2>3, <3>1, <3>2 DEF r
      <3> QED
        BY <1>2, <2>3, <3>3 DEF EscrowPart, ClaimablePart
    <2> QED
      BY <1>2, <2>2, <2>3
  <1>4. SameRecordSums
    BY <1>3, EscrowSame, ClaimableSame DEF SameRecordSums
  <1>5. SamePacketSums
    <2> SUFFICES ASSUME NEW z \in Zones, NEW a \in Accounts, NEW kind \in Kinds
                 PROVE  OkSum(channel'[z][a].pkts, kind) = OkSum(channel[z][a].pkts, kind)
      BY DEF SamePacketSums
    <2>1. \A x \in SubmittedPackets(z, d, lag) : x.state = "sent"
      BY <1>1, SubmittedPacket
    <2>2. \A x \in SubmittedPackets(z, d, lag) : x.state # "ok"
      BY <2>1
    <2> DEFINE old == channel[z]["DELEGATION"].pkts
               new == SubmittedPackets(z, d, lag)
    <2>3. OkSum(old \cup new, kind) = OkSum(old, kind)
      BY <2>2, OkSumSent
    <2>4. channel'[z]["DELEGATION"].pkts = old \cup new
      BY <1>2
    <2>5. CASE a = "DELEGATION"
      BY <2>3, <2>4, <2>5
    <2>6. CASE a = "REDEMPTION"
      BY <1>2, <2>6
    <2> QED
      BY <2>5, <2>6 DEF Accounts
  <1>6. UNCHANGED <<zone, accounts, host, lost>>
    BY DEF DayEpoch
  <1>7. SameAccounts
    BY <1>6 DEF SameAccounts, accounts, host
  <1> QED
    BY <1>4, <1>5, <1>7, QuietStep

-----------------------------------------------------------------------------
(* Steps that move balances *)

\* A redemption puts its stTokens in escrow, for the record of the day.
LEMMA RedeemStakeLedger ==
    ASSUME RecordsInv, LedgerInv, NEW z \in Zones, NEW u \in Users, NEW amount \in RedeemAmounts,
           RedeemStake(z, u, amount)
    PROVE  LedgerInv'
  <1> DEFINE native == NativeTokensFor(amount, zone[z].redemptionRate)
  <1>1. /\ native \in Nat \ {0} /\ amount \in Nat \ {0}
        /\ hzu[current][z].status = "UNBONDING_QUEUE"
        /\ hzu' \in [Eurs -> [Zones -> HostZoneUnbonding]]
        /\ \A e \in Eurs, y \in Zones :
             /\ hzu'[e][y].status = hzu[e][y].status
             /\ hzu'[e][y].native = IF e = current /\ y = z THEN hzu[e][y].native + native
                                    ELSE hzu[e][y].native
             /\ hzu'[e][y].st = IF e = current /\ y = z THEN hzu[e][y].st + amount
                                ELSE hzu[e][y].st
    BY RedeemStakeRecords
  <1> HIDE DEF native
  <1>2. StoresTypeOK /\ AccountsTypeOK /\ hzu \in RecordStore /\ hzu' \in RecordStore
    BY <1>1 DEF RecordsInv, StoresInv, StoresTypeOK, RecordStore
  <1>3. current \in Eurs /\ IsFiniteSet(Eurs)
    BY <1>2, UnbondingRecordsAssumption DEF StoresTypeOK
  <1>4. ASSUME NEW y \in Zones
        PROVE  ClaimableSum(hzu', y) = ClaimableSum(hzu, y)
    <2>1. \A e \in Eurs : ClaimablePart(hzu', y)[e] = ClaimablePart(hzu, y)[e]
      <3> SUFFICES ASSUME NEW e \in Eurs
                   PROVE  ClaimablePart(hzu', y)[e] = ClaimablePart(hzu, y)[e]
        OBVIOUS
      <3>1. CASE e = current /\ y = z
        BY <1>1, <3>1 DEF ClaimablePart
      <3>2. CASE ~(e = current /\ y = z)
        BY <1>1, <3>2 DEF ClaimablePart
      <3> QED
        BY <3>1, <3>2
    <2> QED
      BY <2>1, ClaimableSame
  <1>5. ASSUME NEW y \in Zones, y # z
        PROVE  EscrowSum(hzu', y) = EscrowSum(hzu, y)
    <2>1. \A e \in Eurs : EscrowPart(hzu', y)[e] = EscrowPart(hzu, y)[e]
      BY <1>1, <1>5 DEF EscrowPart
    <2> QED
      BY <2>1, EscrowSame
  <1>6. EscrowSum(hzu', z) = EscrowSum(hzu, z) + amount
    <2> DEFINE f == EscrowPart(hzu, z)
               g == EscrowPart(hzu', z)
    <2>1. \A e \in Eurs : f[e] \in Nat
      BY <1>2, PartNat
    <2>2. \A e \in Eurs : g[e] \in Nat
      BY <1>2, PartNat
    <2>3. \A e \in Eurs \ {current} : g[e] = f[e]
      BY <1>1 DEF EscrowPart
    <2>4. g[current] = f[current] + amount
      BY <1>1, <1>3 DEF EscrowPart
    <2>5. f[current] \in Nat /\ amount \in Nat
      BY <1>1, <1>3, <2>1
    <2>6. \A e \in Eurs : f[e] \in Int /\ g[e] \in Int
      BY <2>1, <2>2
    <2> HIDE DEF f, g
    <2>7. SumFunctionOnSet(g, Eurs) = SumFunctionOnSet(f, Eurs) + g[current] - f[current]
      BY <1>3, <2>3, <2>6, SumChange
    <2>8. SumFunctionOnSet(f, Eurs) \in Int
      BY <1>3, <2>6, SumInt
    <2>9. SumFunctionOnSet(g, Eurs) = SumFunctionOnSet(f, Eurs) + amount
      BY <2>4, <2>5, <2>7, <2>8
    <2> QED
      BY <2>9 DEF f, g, EscrowSum
  <1>7. /\ escrow' = [escrow EXCEPT ![z] = @ + amount]
        /\ UNCHANGED <<zone, channel, host, ghosts>>
    BY DEF RedeemStake
  <1>8. EscrowInv'
    <2> SUFFICES ASSUME NEW y \in Zones
                 PROVE  escrow'[y] = EscrowSum(hzu', y)
      BY DEF EscrowInv
    <2>1. escrow[y] = EscrowSum(hzu, y) /\ escrow \in [Zones -> Nat]
      BY <1>2 DEF LedgerInv, EscrowInv, AccountsTypeOK
    <2>2. CASE y = z
      BY <2>1, <2>2, <1>6, <1>7
    <2>3. CASE y # z
      BY <2>1, <2>3, <1>5, <1>7
    <2> QED
      BY <2>2, <2>3
  <1>9. StakedInv'
    BY <1>7 DEF LedgerInv, StakedInv, host, ghosts
  <1>10. ClaimsInv'
    BY <1>4, <1>7 DEF LedgerInv, ClaimsInv, host, ghosts
  <1> QED
    BY <1>8, <1>9, <1>10 DEF LedgerInv

\* The packet sums after the host has executed a packet.
LEMMA ExecuteSums ==
    ASSUME RecordsInv, NEW z \in Zones, NEW a \in Accounts, NEW p \in channel[z][a].pkts,
           NEW result \in {"ok", "err"}, ExecuteICA(z, a, p, result)
    PROVE  /\ p \in Packet /\ p.amount \in Nat
           /\ p.kind = "claim" <=> a = "REDEMPTION"
           /\ \A kind \in Kinds : OkSum(channel'[z][a].pkts, kind) = OkSum(channel[z][a].pkts, kind)
                + IF result = "ok" /\ p.kind = kind THEN p.amount ELSE 0
           /\ \A y \in Zones, b \in Accounts : ~(y = z /\ b = a) =>
                \A kind \in Kinds : OkSum(channel'[y][b].pkts, kind) = OkSum(channel[y][b].pkts, kind)
  <1>1. StoresInv /\ StoresTypeOK /\ PacketsWellFormed /\ PacketsMatch
    BY DEF RecordsInv, StoresInv
  <1>2. /\ p \in Packet
        /\ channel'[z][a].pkts = (channel[z][a].pkts \ {p}) \cup {ExecutedPacket(p, result)}
        /\ \A y \in Zones, b \in Accounts : ~(y = z /\ b = a) => channel'[y][b] = channel[y][b]
    BY <1>1, ExecuteICAChannel
  <1>3. channel[z][a].pkts \in SUBSET Packet /\ IsFiniteSet(channel[z][a].pkts)
    BY <1>1 DEF StoresTypeOK, Channel
  <1>4. p.state = "sent"
    BY DEF ExecuteICA
  <1>5. Distinct(channel[z][a].pkts)
    BY ChannelDistinct DEF RecordsInv
  <1>6. /\ a = "DELEGATION" => DelegationShape(channel[z][a].pkts)
        /\ a = "REDEMPTION" => RedemptionShape(channel[z][a].pkts)
    BY <1>1 DEF PacketsWellFormed
  <1>8. \A kind \in Kinds : OkSum(channel'[z][a].pkts, kind) = OkSum(channel[z][a].pkts, kind)
                + IF result = "ok" /\ p.kind = kind THEN p.amount ELSE 0
    <2> SUFFICES ASSUME NEW kind \in Kinds
                 PROVE  OkSum(channel'[z][a].pkts, kind) = OkSum(channel[z][a].pkts, kind)
                          + IF result = "ok" /\ p.kind = kind THEN p.amount ELSE 0
      OBVIOUS
    <2> DEFINE S == channel[z][a].pkts
    <2>1. S \in SUBSET Packet /\ IsFiniteSet(S) /\ p \in S /\ Distinct(S)
      BY <1>3, <1>5
    <2>3. channel'[z][a].pkts = (S \ {p}) \cup {ExecutedPacket(p, result)}
      BY <1>2
    <2> HIDE DEF S
    <2>4. OkSum((S \ {p}) \cup {ExecutedPacket(p, result)}, kind)
            = OkSum(S, kind) + IF result = "ok" /\ p.kind = kind THEN p.amount ELSE 0
      BY <2>1, <1>4, OkSumExecuted
    <2> QED
      BY <2>3, <2>4 DEF S
  <1>9. p.kind = "claim" <=> a = "REDEMPTION"
    BY <1>6 DEF DelegationShape, RedemptionShape, Accounts
  <1>10. p.amount \in Nat
    BY <1>2 DEF Packet
  <1> QED
    BY <1>2, <1>8, <1>9, <1>10

LEMMA ExecuteICALedger ==
    ASSUME RecordsInv, RecordsInv', LedgerInv, NEW z \in Zones, NEW a \in Accounts,
           NEW p \in channel[z][a].pkts, NEW result \in {"ok", "err"}, ExecuteICA(z, a, p, result)
    PROVE  LedgerInv'
  <1> DEFINE Moved(kind) == IF result = "ok" /\ p.kind = kind THEN p.amount ELSE 0
  <1>1. p.amount \in Nat /\ (p.kind = "claim" <=> a = "REDEMPTION") /\ p \in Packet
    BY ExecuteSums
  <1>2. \A kind \in Kinds :
          OkSum(channel'[z][a].pkts, kind) = OkSum(channel[z][a].pkts, kind) + Moved(kind)
    BY ExecuteSums
  <1>3. \A y \in Zones, b \in Accounts : ~(y = z /\ b = a) =>
          \A kind \in Kinds : OkSum(channel'[y][b].pkts, kind) = OkSum(channel[y][b].pkts, kind)
    BY ExecuteSums
  <1>4. LedgerTypeOK /\ LedgerTypeOK'
    BY LedgerTypes, LedgerTypesNext
  <1>5. p.kind \in Kinds
    BY <1>1 DEF Packet
  <1>6. AccountsTypeOK
    BY DEF RecordsInv
  <1>7. /\ delegated'[z] = delegated[z] + Moved("delegate") - Moved("undelegate")
        /\ redemptionAcct'[z] = redemptionAcct[z] + Moved("redemption") - Moved("claim")
        /\ \A y \in Zones : y # z => /\ delegated'[y] = delegated[y]
                                     /\ redemptionAcct'[y] = redemptionAcct[y]
    <2>1. delegated \in [Zones -> Nat] /\ redemptionAcct \in [Zones -> Nat]
      BY <1>6 DEF AccountsTypeOK
    <2>2. delegated[z] \in Nat /\ redemptionAcct[z] \in Nat
      BY <2>1
    <2>3. CASE result = "err"
      <3>1. Moved("undelegate") = 0 /\ Moved("redemption") = 0 /\ Moved("claim") = 0
            /\ Moved("delegate") = 0
        BY <2>3
      <3>2. UNCHANGED <<delegated, redemptionAcct>>
        BY <2>3 DEF ExecuteICA, host
      <3> QED
        BY <2>2, <3>1, <3>2
    <2>4. CASE result = "ok" /\ p.kind = "undelegate"
      <3>1. Moved("undelegate") = p.amount /\ Moved("redemption") = 0 /\ Moved("claim") = 0
            /\ Moved("delegate") = 0
        BY <2>4
      <3>2. /\ delegated' = [delegated EXCEPT ![z] = @ - p.amount]
            /\ redemptionAcct' = redemptionAcct
        BY <2>4 DEF ExecuteICA, host
      <3> QED
        BY <1>1, <2>1, <2>2, <3>1, <3>2
    <2>5. CASE result = "ok" /\ p.kind = "redemption"
      <3>1. Moved("undelegate") = 0 /\ Moved("redemption") = p.amount /\ Moved("claim") = 0
            /\ Moved("delegate") = 0
        BY <2>5
      <3>2. /\ delegated' = delegated
            /\ redemptionAcct' = [redemptionAcct EXCEPT ![z] = @ + p.amount]
        BY <2>5 DEF ExecuteICA, host
      <3> QED
        BY <1>1, <2>1, <2>2, <3>1, <3>2
    <2>6. CASE result = "ok" /\ p.kind = "claim"
      <3>1. Moved("undelegate") = 0 /\ Moved("redemption") = 0 /\ Moved("claim") = p.amount
            /\ Moved("delegate") = 0
        BY <2>6
      <3>2. /\ delegated' = delegated
            /\ redemptionAcct' = [redemptionAcct EXCEPT ![z] = @ - p.amount]
        BY <2>6 DEF ExecuteICA, host
      <3> QED
        BY <1>1, <2>1, <2>2, <3>1, <3>2
    <2>7. CASE result = "ok" /\ p.kind = "delegate"
      <3>1. Moved("undelegate") = 0 /\ Moved("redemption") = 0 /\ Moved("claim") = 0
            /\ Moved("delegate") = p.amount
        BY <2>7
      <3>2. /\ delegated' = [delegated EXCEPT ![z] = @ + p.amount]
            /\ redemptionAcct' = redemptionAcct
        BY <2>7 DEF ExecuteICA, host
      <3> QED
        BY <1>1, <2>1, <2>2, <3>1, <3>2
    <2> QED
      BY <1>5, <2>3, <2>4, <2>5, <2>6, <2>7 DEF Kinds
  <1>8. \A kind \in Kinds : Moved(kind) \in Nat
    BY <1>1
  <1>9. /\ a = "REDEMPTION" => /\ Moved("undelegate") = 0 /\ Moved("redemption") = 0
                               /\ Moved("delegate") = 0
        /\ a = "DELEGATION" => Moved("claim") = 0
    BY <1>1
  <1> HIDE DEF Moved
  <1>10. UNCHANGED <<hzu, zone, escrow, lost>>
    BY DEF ExecuteICA, records, accounts
  <1>11. {"undelegate", "redemption", "claim", "delegate"} \subseteq Kinds
         /\ "DELEGATION" \in Accounts /\ "REDEMPTION" \in Accounts
    BY DEF Kinds, Accounts
  <1>12. ASSUME NEW y \in Zones, NEW b \in Accounts, NEW kind \in Kinds
         PROVE  OkSum(channel'[y][b].pkts, kind) = OkSum(channel[y][b].pkts, kind)
                  + IF y = z /\ b = a THEN Moved(kind) ELSE 0
    <2>1. OkSum(channel[y][b].pkts, kind) \in Nat
      BY <1>4 DEF LedgerTypeOK
    <2>2. CASE y = z /\ b = a
      BY <1>2, <2>2
    <2>3. CASE ~(y = z /\ b = a)
      BY <1>3, <2>1, <2>3
    <2> QED
      BY <2>2, <2>3
  <1>13. EscrowInv'
    BY <1>10 DEF LedgerInv, EscrowInv
  <1>14. StakedInv'
    <2> SUFFICES ASSUME NEW y \in Zones
                 PROVE  zone'[y].stakedBal + lost'[y]["delegate"]
                            + OkSum(channel'[y]["DELEGATION"].pkts, "delegate")
                          = delegated'[y] + lost'[y]["undelegate"]
                              + OkSum(channel'[y]["DELEGATION"].pkts, "undelegate")
      BY DEF StakedInv
    <2> DEFINE sb == zone[y].stakedBal
               dl == delegated[y]
               dlNext == delegated'[y]
               ld == lost[y]["delegate"]
               lu == lost[y]["undelegate"]
               okD == OkSum(channel[y]["DELEGATION"].pkts, "delegate")
               okDNext == OkSum(channel'[y]["DELEGATION"].pkts, "delegate")
               okU == OkSum(channel[y]["DELEGATION"].pkts, "undelegate")
               okUNext == OkSum(channel'[y]["DELEGATION"].pkts, "undelegate")
               md == Moved("delegate")
               mu == Moved("undelegate")
    <2>1. sb + ld + okD = dl + lu + okU
      BY DEF LedgerInv, StakedInv
    <2>2. /\ sb \in Nat /\ dl \in Nat /\ ld \in Nat /\ lu \in Nat
          /\ okD \in Nat /\ okU \in Nat
      BY <1>4, <1>11 DEF LedgerTypeOK
    <2>3. okUNext = okU + IF y = z /\ "DELEGATION" = a THEN mu ELSE 0
      BY <1>11, <1>12
    <2>4. okDNext = okD + IF y = z /\ "DELEGATION" = a THEN md ELSE 0
      BY <1>11, <1>12
    <2>5. md \in Nat /\ mu \in Nat
      BY <1>8, <1>11
    <2>6. a = "REDEMPTION" => md = 0 /\ mu = 0
      BY <1>9
    <2>7. dlNext = dl + IF y = z THEN md - mu ELSE 0
      <3>1. CASE y = z
        BY <1>7, <2>2, <2>5, <3>1
      <3>2. CASE y # z
        BY <1>7, <2>2, <3>2
      <3> QED
        BY <3>1, <3>2
    <2>8. zone'[y].stakedBal = sb /\ lost'[y] = lost[y]
      BY <1>10
    <2> HIDE DEF sb, dl, dlNext, ld, lu, okD, okDNext, okU, okUNext, md, mu
    <2>9. sb + ld + okDNext = dlNext + lu + okUNext
      <3>1. CASE y = z /\ a = "DELEGATION"
        BY <2>1, <2>2, <2>3, <2>4, <2>5, <2>7, <3>1
      <3>2. CASE ~(y = z /\ a = "DELEGATION")
        <4>1. dlNext = dl
          BY <2>2, <2>5, <2>6, <2>7, <3>2 DEF Accounts
        <4>2. okDNext = okD /\ okUNext = okU
          BY <2>2, <2>3, <2>4, <3>2
        <4> QED
          BY <2>1, <4>1, <4>2
      <3> QED
        BY <3>1, <3>2
    <2> QED
      BY <2>8, <2>9 DEF sb, ld, okDNext, dlNext, lu, okUNext
  <1>15. ClaimsInv'
    <2> SUFFICES ASSUME NEW y \in Zones
                 PROVE  redemptionAcct'[y] + lost'[y]["claim"]
                            + OkSum(channel'[y]["REDEMPTION"].pkts, "claim")
                          = ClaimableSum(hzu', y) + lost'[y]["redemption"]
                              + OkSum(channel'[y]["DELEGATION"].pkts, "redemption")
      BY DEF ClaimsInv
    <2> DEFINE okC == OkSum(channel[y]["REDEMPTION"].pkts, "claim")
               okCNext == OkSum(channel'[y]["REDEMPTION"].pkts, "claim")
               okR == OkSum(channel[y]["DELEGATION"].pkts, "redemption")
               okRNext == OkSum(channel'[y]["DELEGATION"].pkts, "redemption")
               sum == ClaimableSum(hzu, y)
    <2>1. redemptionAcct[y] + lost[y]["claim"] + okC = sum + lost[y]["redemption"] + okR
      BY DEF LedgerInv, ClaimsInv
    <2>2. /\ redemptionAcct[y] \in Nat /\ lost[y]["claim"] \in Nat /\ lost[y]["redemption"] \in Nat
          /\ okC \in Nat /\ okR \in Nat /\ sum \in Nat
      BY <1>4, <1>11 DEF LedgerTypeOK
    <2>3. okRNext = okR + IF y = z /\ "DELEGATION" = a THEN Moved("redemption") ELSE 0
      BY <1>11, <1>12
    <2>4. okCNext = okC + IF y = z /\ "REDEMPTION" = a THEN Moved("claim") ELSE 0
      BY <1>11, <1>12
    <2>5. Moved("redemption") \in Nat /\ Moved("claim") \in Nat
      BY <1>8, <1>11
    <2>6. ClaimableSum(hzu', y) = sum /\ lost'[y] = lost[y]
      BY <1>10
    <2> HIDE DEF okC, okCNext, okR, okRNext, sum
    <2>7. redemptionAcct'[y] + lost[y]["claim"] + okCNext = sum + lost[y]["redemption"] + okRNext
      <3>1. CASE y = z
        <4>1. okRNext = okR + Moved("redemption") /\ okCNext = okC + Moved("claim")
          BY <1>9, <2>2, <2>3, <2>4, <3>1 DEF Accounts
        <4>2. redemptionAcct'[y] = redemptionAcct[y] + Moved("redemption") - Moved("claim")
          BY <1>7, <3>1
        <4> DEFINE ra == redemptionAcct[y]
                   raNext == redemptionAcct'[y]
                   lc == lost[y]["claim"]
                   lr == lost[y]["redemption"]
                   mr == Moved("redemption")
                   mc == Moved("claim")
        <4>3. /\ ra \in Nat /\ lc \in Nat /\ lr \in Nat /\ mr \in Nat /\ mc \in Nat
              /\ okC \in Nat /\ okR \in Nat /\ sum \in Nat
          BY <2>2, <2>5
        <4>4. ra + lc + okC = sum + lr + okR
          BY <2>1
        <4>5. okRNext = okR + mr /\ okCNext = okC + mc /\ raNext = ra + mr - mc
          BY <4>1, <4>2
        <4> HIDE DEF ra, raNext, lc, lr, mr, mc
        <4>6. raNext + lc + okCNext = sum + lr + okRNext
          BY <4>3, <4>4, <4>5
        <4> QED
          BY <4>6 DEF raNext, lc, lr
      <3>2. CASE y # z
        <4>1. okRNext = okR /\ okCNext = okC
          BY <2>2, <2>3, <2>4, <3>2
        <4> QED
          BY <1>7, <2>1, <3>2, <4>1
      <3> QED
        BY <3>1, <3>2
    <2> QED
      BY <2>6, <2>7 DEF okCNext, okRNext
  <1> QED
    BY <1>13, <1>14, <1>15 DEF LedgerInv


\* All that one zone's balances are made of is as it was.
QuietAt(y) ==
    /\ escrow'[y] = escrow[y] /\ zone'[y].stakedBal = zone[y].stakedBal
    /\ delegated'[y] = delegated[y] /\ redemptionAcct'[y] = redemptionAcct[y]
    /\ lost'[y] = lost[y]
    /\ EscrowSum(hzu', y) = EscrowSum(hzu, y) /\ ClaimableSum(hzu', y) = ClaimableSum(hzu, y)
    /\ \A a \in Accounts, kind \in Kinds :
         OkSum(channel'[y][a].pkts, kind) = OkSum(channel[y][a].pkts, kind)

\* An acknowledgement takes what the host has executed from the packets: from
\* the escrow and StakedBal what was undelegated, from what can be claimed
\* what was paid; it adds to what can be claimed what was swept, and to
\* StakedBal what was delegated.
LEMMA AckMoves ==
    ASSUME LedgerInv, LedgerTypeOK, LedgerTypeOK', NEW z \in Zones,
           \A y \in Zones \ {z} : QuietAt(y),
           NEW burned \in Nat, NEW undelegated \in Nat, NEW told \in Nat, NEW swept \in Nat,
           NEW claimed \in Nat,
           delegated'[z] = delegated[z], redemptionAcct'[z] = redemptionAcct[z], lost'[z] = lost[z],
           escrow[z] = escrow'[z] + burned,
           EscrowSum(hzu, z) = EscrowSum(hzu', z) + burned,
           zone[z].stakedBal + told = zone'[z].stakedBal + undelegated,
           OkSum(channel[z]["DELEGATION"].pkts, "delegate")
             = OkSum(channel'[z]["DELEGATION"].pkts, "delegate") + told,
           OkSum(channel[z]["DELEGATION"].pkts, "undelegate")
             = OkSum(channel'[z]["DELEGATION"].pkts, "undelegate") + undelegated,
           ClaimableSum(hzu', z) + claimed = ClaimableSum(hzu, z) + swept,
           OkSum(channel[z]["DELEGATION"].pkts, "redemption")
             = OkSum(channel'[z]["DELEGATION"].pkts, "redemption") + swept,
           OkSum(channel[z]["REDEMPTION"].pkts, "claim")
             = OkSum(channel'[z]["REDEMPTION"].pkts, "claim") + claimed
    PROVE  LedgerInv'
  <1>1. {"undelegate", "redemption", "claim", "delegate"} \subseteq Kinds
        /\ "DELEGATION" \in Accounts /\ "REDEMPTION" \in Accounts
    BY DEF Kinds, Accounts
  <1>2. EscrowInv'
    <2> SUFFICES ASSUME NEW y \in Zones
                 PROVE  escrow'[y] = EscrowSum(hzu', y)
      BY DEF EscrowInv
    <2>1. escrow[y] = EscrowSum(hzu, y)
      BY DEF LedgerInv, EscrowInv
    <2>2. escrow'[y] \in Nat /\ EscrowSum(hzu', y) \in Nat
      BY DEF LedgerTypeOK
    <2>3. CASE y = z
      BY <2>1, <2>2, <2>3
    <2>4. CASE y # z
      BY <2>1, <2>4 DEF QuietAt
    <2> QED
      BY <2>3, <2>4
  <1>3. StakedInv'
    <2> SUFFICES ASSUME NEW y \in Zones
                 PROVE  zone'[y].stakedBal + lost'[y]["delegate"]
                            + OkSum(channel'[y]["DELEGATION"].pkts, "delegate")
                          = delegated'[y] + lost'[y]["undelegate"]
                              + OkSum(channel'[y]["DELEGATION"].pkts, "undelegate")
      BY DEF StakedInv
    <2> DEFINE sb == zone[y].stakedBal
               sbNext == zone'[y].stakedBal
               dl == delegated[y]
               ld == lost[y]["delegate"]
               lu == lost[y]["undelegate"]
               okD == OkSum(channel[y]["DELEGATION"].pkts, "delegate")
               okDNext == OkSum(channel'[y]["DELEGATION"].pkts, "delegate")
               okU == OkSum(channel[y]["DELEGATION"].pkts, "undelegate")
               okUNext == OkSum(channel'[y]["DELEGATION"].pkts, "undelegate")
    <2>1. sb + ld + okD = dl + lu + okU
      BY DEF LedgerInv, StakedInv
    <2>2. /\ sb \in Nat /\ dl \in Nat /\ ld \in Nat /\ lu \in Nat
          /\ okD \in Nat /\ okU \in Nat
      BY <1>1 DEF LedgerTypeOK
    <2>3. sbNext \in Nat /\ okDNext \in Nat /\ okUNext \in Nat
      BY <1>1 DEF LedgerTypeOK
    <2>4. delegated'[y] = dl /\ lost'[y]["undelegate"] = lu /\ lost'[y]["delegate"] = ld
      BY DEF QuietAt
    <2>5. \/ sb + told = sbNext + undelegated /\ okU = okUNext + undelegated /\ okD = okDNext + told
          \/ sb = sbNext /\ okU = okUNext /\ okD = okDNext
      BY <1>1 DEF QuietAt
    <2> HIDE DEF sb, sbNext, dl, ld, lu, okD, okDNext, okU, okUNext
    <2>6. sbNext + ld + okDNext = dl + lu + okUNext
      <3>1. CASE sb + told = sbNext + undelegated /\ okU = okUNext + undelegated /\ okD = okDNext + told
        BY <2>1, <2>2, <2>3, <3>1
      <3>2. CASE sb = sbNext /\ okU = okUNext /\ okD = okDNext
        BY <2>1, <3>2
      <3> QED
        BY <2>5, <3>1, <3>2
    <2> QED
      BY <2>4, <2>6 DEF sbNext, okDNext, okUNext
  <1>4. ClaimsInv'
    <2> SUFFICES ASSUME NEW y \in Zones
                 PROVE  redemptionAcct'[y] + lost'[y]["claim"]
                            + OkSum(channel'[y]["REDEMPTION"].pkts, "claim")
                          = ClaimableSum(hzu', y) + lost'[y]["redemption"]
                              + OkSum(channel'[y]["DELEGATION"].pkts, "redemption")
      BY DEF ClaimsInv
    <2> DEFINE ra == redemptionAcct[y]
               lc == lost[y]["claim"]
               lr == lost[y]["redemption"]
               okC == OkSum(channel[y]["REDEMPTION"].pkts, "claim")
               okCNext == OkSum(channel'[y]["REDEMPTION"].pkts, "claim")
               okR == OkSum(channel[y]["DELEGATION"].pkts, "redemption")
               okRNext == OkSum(channel'[y]["DELEGATION"].pkts, "redemption")
               sum == ClaimableSum(hzu, y)
               sumNext == ClaimableSum(hzu', y)
    <2>1. ra + lc + okC = sum + lr + okR
      BY DEF LedgerInv, ClaimsInv
    <2>2. ra \in Nat /\ lc \in Nat /\ lr \in Nat /\ okC \in Nat /\ okR \in Nat /\ sum \in Nat
      BY <1>1 DEF LedgerTypeOK
    <2>3. okCNext \in Nat /\ okRNext \in Nat /\ sumNext \in Nat
      BY <1>1 DEF LedgerTypeOK
    <2>4. redemptionAcct'[y] = ra /\ lost'[y]["claim"] = lc /\ lost'[y]["redemption"] = lr
      BY DEF QuietAt
    <2>5. \/ sumNext + claimed = sum + swept /\ okR = okRNext + swept /\ okC = okCNext + claimed
          \/ sumNext = sum /\ okR = okRNext /\ okC = okCNext
      BY <1>1 DEF QuietAt
    <2> HIDE DEF ra, lc, lr, okC, okCNext, okR, okRNext, sum, sumNext
    <2>6. ra + lc + okCNext = sumNext + lr + okRNext
      <3>1. CASE sumNext + claimed = sum + swept /\ okR = okRNext + swept /\ okC = okCNext + claimed
        BY <2>1, <2>2, <2>3, <3>1
      <3>2. CASE sumNext = sum /\ okR = okRNext /\ okC = okCNext
        BY <2>1, <3>2
      <3> QED
        BY <2>5, <3>1, <3>2
    <2> QED
      BY <2>4, <2>6 DEF okCNext, okRNext, sumNext
  <1> QED
    BY <1>2, <1>3, <1>4 DEF LedgerInv

\* The packet sums after an acknowledgement.
LEMMA AckPackets ==
    ASSUME RecordsInv, NEW z \in Zones, NEW a \in Accounts, NEW p \in channel[z][a].pkts,
           AckICA(z, a, p)
    PROVE  /\ p \in Packet /\ p.amount \in Nat
           /\ \A kind \in Kinds : OkSum(channel[z][a].pkts, kind)
                = OkSum(channel'[z][a].pkts, kind) + Counts(p, kind)
           /\ \A y \in Zones, b \in Accounts : ~(y = z /\ b = a) =>
                \A kind \in Kinds : OkSum(channel'[y][b].pkts, kind) = OkSum(channel[y][b].pkts, kind)
  <1>1. StoresInv /\ StoresTypeOK
    BY DEF RecordsInv, StoresInv
  <1>2. /\ p \in Packet
        /\ channel'[z][a].pkts = MovedUp(channel[z][a].pkts \ {p})
        /\ \A y \in Zones, b \in Accounts : ~(y = z /\ b = a) => channel'[y][b] = channel[y][b]
    BY <1>1, AckChannel
  <1> DEFINE S == channel[z][a].pkts
             T == S \ {p}
  <1>3. S \in SUBSET Packet /\ IsFiniteSet(S) /\ p \in S
    BY <1>1 DEF StoresTypeOK, Channel
  <1>4. T \in SUBSET Packet /\ IsFiniteSet(T)
    BY <1>3, FS_RemoveElement
  <1>5. \A kind \in Kinds : OkSum(S, kind) = OkSum(T, kind) + Counts(p, kind)
    <2> HIDE DEF S
    <2> QED
      BY <1>3, OkSumRemove
  <1>6. \A kind \in Kinds : OkSum(MovedUp(T), kind) = OkSum(T, kind)
    <2> HIDE DEF T
    <2> QED
      BY <1>4, KindSumMovedUp DEF OkSum
  <1>7. p.amount \in Nat
    BY <1>2 DEF Packet
  <1>8. channel'[z][a].pkts = MovedUp(T)
    BY <1>2
  <1>9. \A kind \in Kinds : OkSum(S, kind) = OkSum(channel'[z][a].pkts, kind) + Counts(p, kind)
    BY <1>5, <1>6, <1>8
  <1> QED
    BY <1>2, <1>7, <1>9


\* The status that the records of an undelegation or a sweep get.
AckStatus(p) ==
    IF p.kind = "undelegate"
    THEN IF p.state = "ok" THEN "EXIT_TRANSFER_QUEUE" ELSE "UNBONDING_QUEUE"
    ELSE IF p.state = "ok" THEN "CLAIMABLE" ELSE "EXIT_TRANSFER_QUEUE"

LEMMA AckOutcome ==
    ASSUME StoresInv, NEW z \in Zones, NEW a \in Accounts, NEW p \in channel[z][a].pkts,
           AckICA(z, a, p), p.kind \in {"undelegate", "redemption"}
    PROVE  /\ hzu' \in RecordStore
           /\ \A e \in Eurs, y \in Zones :
                /\ hzu'[e][y].native = hzu[e][y].native
                /\ hzu'[e][y].st = hzu[e][y].st
                /\ hzu'[e][y].status = IF e \in p.eurs /\ y = z THEN AckStatus(p)
                                       ELSE hzu[e][y].status
  <1>1. StoresTypeOK
    BY DEF StoresInv
  <1>2. p \in Packet /\ p.eurs \in SUBSET Eurs /\ p.kind \in {"undelegate", "redemption"}
    BY <1>1 DEF StoresTypeOK, Channel, Packet, Kinds
  <1>3. hzu \in RecordStore
    BY <1>1 DEF StoresTypeOK, RecordStore
  <1>4. AckStatus(p) \in Statuses
    BY DEF AckStatus, Statuses
  <1>5. CASE p.kind = "redemption" \/ p.state # "ok"
    <2>1. hzu' = SetHostZoneUnbondings(hzu, z, p.eurs, AckStatus(p))
      BY <1>2, <1>5 DEF AckICA, RedemptionCallback, UndelegateCallback, AckStatus
    <2>2. StatusIs(SetHostZoneUnbondings(hzu, z, p.eurs, AckStatus(p)), hzu, z, p.eurs, AckStatus(p))
      BY <1>2, <1>3, <1>4, SetStatusIs
    <2>3. StatusIs(hzu', hzu, z, p.eurs, AckStatus(p))
      BY <2>1, <2>2
    <2> QED
      BY <2>3 DEF StatusIs
  <1>6. CASE p.kind = "undelegate" /\ p.state = "ok"
    <2> DEFINE g == [e \in Eurs |-> [y \in Zones |->
                      IF e \in p.eurs /\ y = z THEN [hzu[e][y] EXCEPT !.left = p.left]
                      ELSE hzu[e][y]]]
    <2>1. hzu' = SetHostZoneUnbondings(g, z, p.eurs, AckStatus(p))
      BY <1>6 DEF AckICA, UndelegateCallback, AckStatus
    <2>2. ASSUME NEW e \in Eurs, NEW y \in Zones
          PROVE  /\ g[e][y] \in HostZoneUnbonding
                 /\ g[e][y].status = hzu[e][y].status
                 /\ g[e][y].native = hzu[e][y].native
                 /\ g[e][y].st = hzu[e][y].st
      <3>1. hzu[e][y] \in HostZoneUnbonding /\ p.left \in Times
        BY <1>2, <1>3 DEF RecordStore, Packet
      <3>2. g[e][y] = hzu[e][y] \/ g[e][y] = [hzu[e][y] EXCEPT !.left = p.left]
        OBVIOUS
      <3> HIDE DEF g
      <3> QED
        BY <3>1, <3>2 DEF HostZoneUnbonding
    <2>3. g \in RecordStore
      <3>1. g = [e \in Eurs |-> [y \in Zones |-> g[e][y]]]
        OBVIOUS
      <3> HIDE DEF g
      <3> QED
        BY <2>2, <3>1 DEF RecordStore
    <2> HIDE DEF g
    <2>4. /\ hzu' \in RecordStore
          /\ \A e \in Eurs, y \in Zones :
               /\ hzu'[e][y].native = g[e][y].native
               /\ hzu'[e][y].st = g[e][y].st
               /\ hzu'[e][y].status = IF e \in p.eurs /\ y = z THEN AckStatus(p)
                                      ELSE g[e][y].status
      BY <1>2, <1>4, <2>1, <2>3, SetStatus
    <2> QED
      BY <2>2, <2>4
  <1> QED
    BY <1>2, <1>5, <1>6

\* The record sums after the acknowledgement of an undelegation or a sweep.
LEMMA AckRecordSums ==
    ASSUME StoresInv, NEW z \in Zones, NEW a \in Accounts, NEW p \in channel[z][a].pkts,
           AckICA(z, a, p), p.kind \in {"undelegate", "redemption"}
    PROVE  /\ \A y \in Zones \ {z} : /\ EscrowSum(hzu', y) = EscrowSum(hzu, y)
                                     /\ ClaimableSum(hzu', y) = ClaimableSum(hzu, y)
           /\ EscrowSum(hzu, z) = EscrowSum(hzu', z)
                + IF p.kind = "undelegate" THEN BurnAmount(z, p) ELSE 0
           /\ ClaimableSum(hzu', z) = ClaimableSum(hzu, z) + Counts(p, "redemption")
           /\ BurnAmount(z, p) \in Nat
  <1>1. StoresTypeOK /\ PacketsMatch /\ IsFiniteSet(Eurs)
    BY UnbondingRecordsAssumption DEF StoresInv
  <1>2. /\ p \in Packet /\ p.eurs \in SUBSET Eurs /\ p.kind \in {"undelegate", "redemption"}
        /\ p.amount \in Nat
    BY <1>1 DEF StoresTypeOK, Channel, Packet, Kinds
  <1>3. hzu \in RecordStore /\ hzu' \in RecordStore
    BY <1>1, AckOutcome DEF StoresTypeOK, RecordStore
  <1>4. \A e \in Eurs, y \in Zones :
          /\ hzu'[e][y].native = hzu[e][y].native
          /\ hzu'[e][y].st = hzu[e][y].st
          /\ hzu'[e][y].status = IF e \in p.eurs /\ y = z THEN AckStatus(p) ELSE hzu[e][y].status
    BY AckOutcome
  <1>5. \A e \in p.eurs : hzu[e][z].status = Awaits(p)
    BY <1>1 DEF PacketsMatch, Matches
  <1>6. p.amount = NativeAmount(hzu, z, p.eurs)
    BY <1>1 DEF PacketsMatch, Matches
  <1>7. \A e \in Eurs : hzu[e][z].st \in Nat /\ hzu[e][z].native \in Nat
    BY <1>3 DEF RecordStore, HostZoneUnbonding
  <1>8. ASSUME NEW y \in Zones \ {z}
        PROVE  /\ EscrowSum(hzu', y) = EscrowSum(hzu, y)
               /\ ClaimableSum(hzu', y) = ClaimableSum(hzu, y)
    <2>1. \A e \in Eurs : EscrowPart(hzu', y)[e] = EscrowPart(hzu, y)[e]
      BY <1>4 DEF EscrowPart
    <2>2. \A e \in Eurs : ClaimablePart(hzu', y)[e] = ClaimablePart(hzu, y)[e]
      BY <1>4 DEF ClaimablePart
    <2> QED
      BY <2>1, <2>2, EscrowSame, ClaimableSame
  <1>9. EscrowSum(hzu', z) \in Nat /\ ClaimableSum(hzu, z) \in Nat
    BY <1>3, PartSumNat
  <1>10. BurnAmount(z, p) \in Nat
    BY <1>2, <1>3, StNat DEF BurnAmount
  <1>11. EscrowSum(hzu, z) = EscrowSum(hzu', z)
           + IF p.kind = "undelegate" THEN BurnAmount(z, p) ELSE 0
    <2>1. CASE p.kind = "undelegate" /\ p.state = "ok"
      <3> DEFINE f == EscrowPart(hzu, z)
                 g == EscrowPart(hzu', z)
                 k == [e \in p.eurs |-> hzu[e][z].st]
      <3>1. Awaits(p) = "UNBONDING_IN_PROGRESS" /\ AckStatus(p) = "EXIT_TRANSFER_QUEUE"
        BY <2>1 DEF Awaits, AckStatus
      <3>2. \A e \in Eurs : g[e] \in Nat
        BY <1>3, PartNat
      <3>3. ASSUME NEW e \in p.eurs
            PROVE  k[e] \in Int /\ f[e] = g[e] + k[e]
        <4>1. e \in Eurs /\ hzu[e][z].status = "UNBONDING_IN_PROGRESS"
              /\ hzu'[e][z].status = "EXIT_TRANSFER_QUEUE"
          BY <1>2, <1>4, <1>5, <3>1
        <4>2. f[e] = hzu[e][z].st /\ g[e] = 0 /\ k[e] = hzu[e][z].st
          BY <4>1 DEF EscrowPart
        <4> HIDE DEF f, g, k
        <4> QED
          BY <1>7, <4>1, <4>2
      <3>4. \A e \in Eurs \ p.eurs : f[e] = g[e]
        BY <1>4 DEF EscrowPart
      <3>5. StAmount(hzu, z, p.eurs) = SumFunctionOnSet(k, p.eurs)
        BY DEF StAmount, SumFunction
      <3>6. EscrowSum(hzu, z) = SumFunctionOnSet(f, Eurs) /\ EscrowSum(hzu', z) = SumFunctionOnSet(g, Eurs)
        BY DEF EscrowSum
      <3> HIDE DEF f, g, k
      <3>7. \A e \in Eurs : g[e] \in Int
        BY <3>2
      <3>8. SumFunctionOnSet(f, Eurs) = SumFunctionOnSet(g, Eurs) + SumFunctionOnSet(k, p.eurs)
        BY <1>1, <1>2, <3>3, <3>4, <3>7, SumMoved
      <3>9. BurnAmount(z, p) = StAmount(hzu, z, p.eurs)
        BY <2>1 DEF BurnAmount
      <3> QED
        BY <2>1, <3>5, <3>6, <3>8, <3>9
    <2>2. CASE ~(p.kind = "undelegate" /\ p.state = "ok")
      <3>1. \A e \in Eurs : EscrowPart(hzu', z)[e] = EscrowPart(hzu, z)[e]
        <4> SUFFICES ASSUME NEW e \in Eurs
                     PROVE  EscrowPart(hzu', z)[e] = EscrowPart(hzu, z)[e]
          OBVIOUS
        <4>1. CASE e \in p.eurs
          <5>1. \/ hzu[e][z].status = "UNBONDING_IN_PROGRESS"
                   /\ hzu'[e][z].status = "UNBONDING_QUEUE"
                \/ hzu[e][z].status = "EXIT_TRANSFER_IN_PROGRESS"
                   /\ hzu'[e][z].status \in {"CLAIMABLE", "EXIT_TRANSFER_QUEUE"}
            BY <1>2, <1>4, <1>5, <2>2, <4>1 DEF Awaits, AckStatus
          <5> QED
            BY <1>4, <5>1 DEF EscrowPart
        <4>2. CASE e \notin p.eurs
          BY <1>4, <4>2 DEF EscrowPart
        <4> QED
          BY <4>1, <4>2
      <3>2. EscrowSum(hzu', z) = EscrowSum(hzu, z)
        BY <3>1, EscrowSame
      <3>3. p.kind = "undelegate" => BurnAmount(z, p) = 0
        BY <2>2 DEF BurnAmount
      <3> QED
        BY <1>9, <3>2, <3>3
    <2> QED
      BY <2>1, <2>2
  <1>12. ClaimableSum(hzu', z) = ClaimableSum(hzu, z) + Counts(p, "redemption")
    <2>1. CASE p.kind = "redemption" /\ p.state = "ok"
      <3> DEFINE f == ClaimablePart(hzu', z)
                 g == ClaimablePart(hzu, z)
                 k == [e \in p.eurs |-> hzu[e][z].native]
      <3>1. Awaits(p) = "EXIT_TRANSFER_IN_PROGRESS" /\ AckStatus(p) = "CLAIMABLE"
        BY <2>1 DEF Awaits, AckStatus
      <3>2. \A e \in Eurs : g[e] \in Nat
        BY <1>3, PartNat
      <3>3. ASSUME NEW e \in p.eurs
            PROVE  k[e] \in Int /\ f[e] = g[e] + k[e]
        <4>1. e \in Eurs /\ hzu[e][z].status = "EXIT_TRANSFER_IN_PROGRESS"
              /\ hzu'[e][z].status = "CLAIMABLE" /\ hzu'[e][z].native = hzu[e][z].native
          BY <1>2, <1>4, <1>5, <3>1
        <4>2. f[e] = hzu[e][z].native /\ g[e] = 0 /\ k[e] = hzu[e][z].native
          BY <4>1 DEF ClaimablePart
        <4> HIDE DEF f, g, k
        <4> QED
          BY <1>7, <4>1, <4>2
      <3>4. \A e \in Eurs \ p.eurs : f[e] = g[e]
        BY <1>4 DEF ClaimablePart
      <3>5. NativeAmount(hzu, z, p.eurs) = SumFunctionOnSet(k, p.eurs)
        BY DEF NativeAmount, SumFunction
      <3>6. /\ ClaimableSum(hzu', z) = SumFunctionOnSet(f, Eurs)
            /\ ClaimableSum(hzu, z) = SumFunctionOnSet(g, Eurs)
        BY DEF ClaimableSum
      <3> HIDE DEF f, g, k
      <3>7. \A e \in Eurs : g[e] \in Int
        BY <3>2
      <3>8. SumFunctionOnSet(f, Eurs) = SumFunctionOnSet(g, Eurs) + SumFunctionOnSet(k, p.eurs)
        BY <1>1, <1>2, <3>3, <3>4, <3>7, SumMoved
      <3>9. Counts(p, "redemption") = p.amount
        BY <2>1 DEF Counts
      <3> QED
        BY <1>6, <3>5, <3>6, <3>8, <3>9
    <2>2. CASE ~(p.kind = "redemption" /\ p.state = "ok")
      <3>1. \A e \in Eurs : ClaimablePart(hzu', z)[e] = ClaimablePart(hzu, z)[e]
        <4> SUFFICES ASSUME NEW e \in Eurs
                     PROVE  ClaimablePart(hzu', z)[e] = ClaimablePart(hzu, z)[e]
          OBVIOUS
        <4>1. CASE e \in p.eurs
          <5>1. hzu[e][z].status # "CLAIMABLE" /\ hzu'[e][z].status # "CLAIMABLE"
            BY <1>2, <1>4, <1>5, <2>2, <4>1 DEF Awaits, AckStatus
          <5> QED
            BY <5>1 DEF ClaimablePart
        <4>2. CASE e \notin p.eurs
          BY <1>4, <4>2 DEF ClaimablePart
        <4> QED
          BY <4>1, <4>2
      <3>2. ClaimableSum(hzu', z) = ClaimableSum(hzu, z)
        BY <3>1, ClaimableSame
      <3>3. Counts(p, "redemption") = 0
        BY <2>2 DEF Counts
      <3> QED
        BY <1>9, <3>2, <3>3
    <2> QED
      BY <2>1, <2>2
  <1> QED
    BY <1>8, <1>10, <1>11, <1>12


\* The acknowledgement of an undelegation or a sweep.
LEMMA AckDelegationLedger ==
    ASSUME RecordsInv, RecordsInv', LedgerInv, NEW z \in Zones, NEW a \in Accounts,
           NEW p \in channel[z][a].pkts, AckICA(z, a, p), p.kind \in {"undelegate", "redemption"}
    PROVE  LedgerInv'
  <1>1. StoresInv /\ AccountsTypeOK /\ LedgerTypeOK /\ LedgerTypeOK'
    BY LedgerTypes, LedgerTypesNext DEF RecordsInv
  <1>2. a = "DELEGATION"
    BY <1>1, AckStatuses
  <1>3. {"undelegate", "redemption", "claim", "delegate"} \subseteq Kinds
        /\ "DELEGATION" \in Accounts /\ "REDEMPTION" \in Accounts
    BY DEF Kinds, Accounts
  <1>4. /\ p \in Packet /\ p.amount \in Nat
        /\ \A kind \in Kinds : OkSum(channel[z][a].pkts, kind)
             = OkSum(channel'[z][a].pkts, kind) + Counts(p, kind)
    BY AckPackets
  <1>5. \A y \in Zones, b \in Accounts : ~(y = z /\ b = a) =>
          \A kind \in Kinds : OkSum(channel'[y][b].pkts, kind) = OkSum(channel[y][b].pkts, kind)
    BY AckPackets
  <1>6. /\ \A y \in Zones \ {z} : /\ EscrowSum(hzu', y) = EscrowSum(hzu, y)
                                  /\ ClaimableSum(hzu', y) = ClaimableSum(hzu, y)
        /\ EscrowSum(hzu, z) = EscrowSum(hzu', z)
             + IF p.kind = "undelegate" THEN BurnAmount(z, p) ELSE 0
        /\ ClaimableSum(hzu', z) = ClaimableSum(hzu, z) + Counts(p, "redemption")
        /\ BurnAmount(z, p) \in Nat
    BY <1>1, AckRecordSums
  <1> DEFINE burned == IF p.kind = "undelegate" THEN BurnAmount(z, p) ELSE 0
             undelegated == Counts(p, "undelegate")
             swept == Counts(p, "redemption")
  <1>7. burned \in Nat /\ undelegated \in Nat /\ swept \in Nat
    BY <1>4, <1>6 DEF Counts
  <1>8. UNCHANGED <<delegated, redemptionAcct, lost>>
    BY DEF AckICA, host
  <1>9. /\ escrow[z] = escrow'[z] + burned
        /\ zone[z].stakedBal = zone'[z].stakedBal + undelegated
        /\ \A y \in Zones \ {z} : escrow'[y] = escrow[y] /\ zone'[y].stakedBal = zone[y].stakedBal
    <2>1. /\ escrow \in [Zones -> Nat]
          /\ zone \in [Zones -> [halted : BOOLEAN, redemptionRate : Nat, stakedBal : Nat]]
      BY <1>1 DEF AccountsTypeOK
    <2>2. CASE p.kind = "undelegate"
      <3>1. burned = BurnAmount(z, p) /\ undelegated = UnstakedAmount(p)
        BY <2>2 DEF Counts, UnstakedAmount
      <3>2. /\ zone' = [zone EXCEPT ![z].stakedBal = @ - UnstakedAmount(p)]
            /\ escrow' = [escrow EXCEPT ![z] = @ - BurnAmount(z, p)]
        BY <2>2 DEF AckICA
      <3> HIDE DEF burned, undelegated
      <3>3. escrow'[z] = escrow[z] - burned /\ zone'[z].stakedBal = zone[z].stakedBal - undelegated
        BY <2>1, <3>1, <3>2
      <3>4. escrow[z] \in Nat /\ zone[z].stakedBal \in Nat
        BY <2>1
      <3>5. \A y \in Zones \ {z} : escrow'[y] = escrow[y] /\ zone'[y].stakedBal = zone[y].stakedBal
        BY <2>1, <3>2
      <3> QED
        BY <1>7, <3>3, <3>4, <3>5
    <2>3. CASE p.kind # "undelegate"
      <3>1. UNCHANGED <<zone, escrow>>
        BY <2>3 DEF AckICA
      <3>2. burned = 0 /\ undelegated = 0
        BY <2>3 DEF Counts
      <3>3. escrow[z] \in Nat /\ zone[z].stakedBal \in Nat
        BY <2>1
      <3> QED
        BY <3>1, <3>2, <3>3
    <2> QED
      BY <2>2, <2>3
  <1>10. ASSUME NEW y \in Zones \ {z} PROVE QuietAt(y)
    <2>1. \A b \in Accounts, kind \in Kinds :
            OkSum(channel'[y][b].pkts, kind) = OkSum(channel[y][b].pkts, kind)
      BY <1>5
    <2> QED
      BY <1>6, <1>8, <1>9, <2>1 DEF QuietAt
  <1>11. /\ OkSum(channel[z]["DELEGATION"].pkts, "undelegate")
              = OkSum(channel'[z]["DELEGATION"].pkts, "undelegate") + undelegated
         /\ OkSum(channel[z]["DELEGATION"].pkts, "redemption")
              = OkSum(channel'[z]["DELEGATION"].pkts, "redemption") + swept
    BY <1>2, <1>3, <1>4
  <1>16. OkSum(channel[z]["DELEGATION"].pkts, "delegate")
           = OkSum(channel'[z]["DELEGATION"].pkts, "delegate") + 0
    <2>1. Counts(p, "delegate") = 0
      BY DEF Counts
    <2> QED
      BY <1>2, <1>3, <1>4, <2>1
  <1>12. OkSum(channel[z]["REDEMPTION"].pkts, "claim")
           = OkSum(channel'[z]["REDEMPTION"].pkts, "claim") + 0
    <2>1. OkSum(channel'[z]["REDEMPTION"].pkts, "claim") = OkSum(channel[z]["REDEMPTION"].pkts, "claim")
      BY <1>2, <1>3, <1>5
    <2>2. OkSum(channel[z]["REDEMPTION"].pkts, "claim") \in Nat
      BY <1>1, <1>3 DEF LedgerTypeOK
    <2> QED
      BY <2>1, <2>2
  <1>13. ClaimableSum(hzu', z) + 0 = ClaimableSum(hzu, z) + swept
    <2>1. ClaimableSum(hzu, z) \in Nat
      BY <1>1 DEF LedgerTypeOK
    <2> QED
      BY <1>6, <1>7, <2>1
  <1>14. EscrowSum(hzu, z) = EscrowSum(hzu', z) + burned
    BY <1>6
  <1>15. 0 \in Nat /\ delegated'[z] = delegated[z] /\ redemptionAcct'[z] = redemptionAcct[z]
         /\ lost'[z] = lost[z] /\ escrow[z] = escrow'[z] + burned
         /\ zone[z].stakedBal + 0 = zone'[z].stakedBal + undelegated
    <2>1. zone[z].stakedBal \in Nat
      BY <1>1 DEF LedgerTypeOK
    <2> QED
      BY <1>8, <1>9, <2>1
  <1> HIDE DEF burned, undelegated, swept
  <1> QED
    BY <1>1, <1>7, <1>10, <1>11, <1>12, <1>13, <1>14, <1>15, <1>16, AckMoves

\* The acknowledgement of a delegation: StakedBal is told.
LEMMA AckDelegateLedger ==
    ASSUME RecordsInv, RecordsInv', LedgerInv, NEW z \in Zones, NEW a \in Accounts,
           NEW p \in channel[z][a].pkts, AckICA(z, a, p), p.kind = "delegate"
    PROVE  LedgerInv'
  <1> DEFINE told == Counts(p, "delegate")
  <1>1. /\ StoresInv /\ AccountsTypeOK /\ LedgerTypeOK /\ LedgerTypeOK' /\ a = "DELEGATION"
    BY LedgerTypes, LedgerTypesNext, AckStatuses DEF RecordsInv
  <1>2. {"undelegate", "redemption", "claim", "delegate"} \subseteq Kinds
        /\ "DELEGATION" \in Accounts /\ "REDEMPTION" \in Accounts
    BY DEF Kinds, Accounts
  <1>3. /\ p \in Packet /\ p.amount \in Nat
        /\ \A kind \in Kinds : OkSum(channel[z][a].pkts, kind)
             = OkSum(channel'[z][a].pkts, kind) + Counts(p, kind)
    BY AckPackets
  <1>4. \A y \in Zones, b \in Accounts : ~(y = z /\ b = a) =>
          \A kind \in Kinds : OkSum(channel'[y][b].pkts, kind) = OkSum(channel[y][b].pkts, kind)
    BY AckPackets
  <1>5. /\ Counts(p, "undelegate") = 0 /\ Counts(p, "redemption") = 0
        /\ told = IF p.state = "ok" THEN p.amount ELSE 0
        /\ told \in Nat
    BY <1>3 DEF Counts
  <1>6. UNCHANGED <<hzu, escrow, delegated, redemptionAcct, lost>>
    BY DEF AckICA, host
  <1>7. zone' = [zone EXCEPT ![z].stakedBal = @ + told]
    BY <1>5 DEF AckICA, DelegateCallback
  <1> HIDE DEF told
  <1>8. /\ zone'[z].stakedBal = zone[z].stakedBal + told
        /\ \A y \in Zones \ {z} : zone'[y].stakedBal = zone[y].stakedBal
    BY <1>1, <1>7 DEF AccountsTypeOK
  <1>9. ASSUME NEW y \in Zones \ {z} PROVE QuietAt(y)
    <2>1. \A b \in Accounts, kind \in Kinds :
            OkSum(channel'[y][b].pkts, kind) = OkSum(channel[y][b].pkts, kind)
      BY <1>4
    <2> QED
      BY <1>6, <1>8, <2>1 DEF QuietAt
  <1>10. /\ OkSum(channel[z]["DELEGATION"].pkts, "delegate")
              = OkSum(channel'[z]["DELEGATION"].pkts, "delegate") + told
         /\ OkSum(channel[z]["DELEGATION"].pkts, "undelegate")
              = OkSum(channel'[z]["DELEGATION"].pkts, "undelegate") + 0
         /\ OkSum(channel[z]["DELEGATION"].pkts, "redemption")
              = OkSum(channel'[z]["DELEGATION"].pkts, "redemption") + 0
    BY <1>1, <1>2, <1>3, <1>5 DEF told
  <1>11. OkSum(channel[z]["REDEMPTION"].pkts, "claim")
           = OkSum(channel'[z]["REDEMPTION"].pkts, "claim") + 0
    <2>1. OkSum(channel'[z]["REDEMPTION"].pkts, "claim") = OkSum(channel[z]["REDEMPTION"].pkts, "claim")
      BY <1>1, <1>2, <1>4
    <2>2. OkSum(channel[z]["REDEMPTION"].pkts, "claim") \in Nat
      BY <1>1, <1>2 DEF LedgerTypeOK
    <2> QED
      BY <2>1, <2>2
  <1>12. /\ 0 \in Nat /\ delegated'[z] = delegated[z] /\ redemptionAcct'[z] = redemptionAcct[z]
         /\ lost'[z] = lost[z] /\ escrow[z] = escrow'[z] + 0
         /\ zone[z].stakedBal + told = zone'[z].stakedBal + 0
         /\ EscrowSum(hzu, z) = EscrowSum(hzu', z) + 0
         /\ ClaimableSum(hzu', z) + 0 = ClaimableSum(hzu, z) + 0
    <2>1. /\ escrow[z] \in Nat /\ zone[z].stakedBal \in Nat
          /\ EscrowSum(hzu, z) \in Nat /\ ClaimableSum(hzu, z) \in Nat
      BY <1>1 DEF LedgerTypeOK
    <2> QED
      BY <1>5, <1>6, <1>8, <2>1
  <1> QED
    BY <1>1, <1>5, <1>9, <1>10, <1>11, <1>12, AckMoves

\* The amount of one claimable record changes.
LEMMA ClaimableChange ==
    ASSUME NEW g \in RecordStore, NEW h \in RecordStore, NEW z \in Zones, NEW x \in Eurs,
           g[x][z].status = "CLAIMABLE", h[x][z].status = "CLAIMABLE",
           \A e \in Eurs \ {x} : h[e][z].status = g[e][z].status /\ h[e][z].native = g[e][z].native
    PROVE  ClaimableSum(h, z) = ClaimableSum(g, z) + h[x][z].native - g[x][z].native
  <1> DEFINE old == ClaimablePart(g, z)
             new == ClaimablePart(h, z)
  <1>1. \A e \in Eurs : old[e] \in Nat
    BY PartNat
  <1>2. \A e \in Eurs : new[e] \in Nat
    BY PartNat
  <1>3. \A e \in Eurs \ {x} : new[e] = old[e]
    BY DEF ClaimablePart
  <1>4. old[x] = g[x][z].native /\ new[x] = h[x][z].native
    BY DEF ClaimablePart
  <1>5. ClaimableSum(g, z) = SumFunctionOnSet(old, Eurs) /\ ClaimableSum(h, z) = SumFunctionOnSet(new, Eurs)
    BY DEF ClaimableSum
  <1> HIDE DEF old, new
  <1>6. \A e \in Eurs : old[e] \in Int /\ new[e] \in Int
    BY <1>1, <1>2
  <1>7. IsFiniteSet(Eurs)
    BY UnbondingRecordsAssumption
  <1>8. SumFunctionOnSet(new, Eurs) = SumFunctionOnSet(old, Eurs) + new[x] - old[x]
    <2> DEFINE R == Eurs \ {x}
    <2>1. IsFiniteSet(R) /\ R \subseteq Eurs
      BY <1>7, FS_RemoveElement
    <2>2. \A e \in Eurs : old[e] \in Int
      BY <1>6
    <2>3. \A e \in Eurs : new[e] \in Int
      BY <1>6
    <2>4. SumFunctionOnSet(old, Eurs) = old[x] + SumFunctionOnSet(old, R)
      BY <1>7, <2>2, SumRemove
    <2>5. SumFunctionOnSet(new, Eurs) = new[x] + SumFunctionOnSet(new, R)
      BY <1>7, <2>3, SumRemove
    <2>6. SumFunctionOnSet(new, R) = SumFunctionOnSet(old, R)
      BY <1>3, <2>1, SumSame
    <2>7. SumFunctionOnSet(old, R) \in Int
      BY <2>1, <2>2, SumInt
    <2>8. old[x] \in Int /\ new[x] \in Int
      BY <2>2, <2>3
    <2> QED
      BY <2>4, <2>5, <2>6, <2>7, <2>8
  <1> QED
    BY <1>4, <1>5, <1>8

\* The acknowledgement of a claim: what was paid is no longer owed.
LEMMA AckClaimLedger ==
    ASSUME RecordsInv, RecordsInv', LedgerInv, NEW z \in Zones, NEW a \in Accounts,
           NEW p \in channel[z][a].pkts, AckICA(z, a, p), p.kind = "claim"
    PROVE  LedgerInv'
  <1>1. /\ StoresInv /\ AccountsTypeOK /\ LedgerTypeOK /\ LedgerTypeOK' /\ IsFiniteSet(Eurs)
        /\ StoresTypeOK /\ PacketsMatch /\ RecordsWellFormed
    BY LedgerTypes, LedgerTypesNext, UnbondingRecordsAssumption DEF RecordsInv, StoresInv
  <1>2. PICK k \in Keys(z, p) : ClaimCallback(k, p.state)
    BY DEF AckICA
  <1>3. /\ a = "REDEMPTION" /\ k \in Key /\ k.zone = z
        /\ p.eurs = {k.eur} /\ p.users = {k.user}
        /\ urr[k.eur][z][k.user].pending
    BY <1>1, ClaimKey
  <1> DEFINE e0 == k.eur
             claimed == Counts(p, "claim")
  <1>4. e0 \in Eurs /\ k.user \in Users
    BY <1>3 DEF Key
  <1>5. urr[e0][z][k.user].amount = p.amount
    BY <1>1, <1>3 DEF PacketsMatch, Matches
  <1>6. hzu[e0][z].status = "CLAIMABLE"
    BY <1>1, <1>3, <1>4 DEF RecordsWellFormed
  <1>7. /\ hzu' \in RecordStore
        /\ \A e \in Eurs, y \in Zones :
             /\ hzu'[e][y].status = hzu[e][y].status
             /\ hzu'[e][y].st = hzu[e][y].st
             /\ ~(e = k.eur /\ y = k.zone) => hzu'[e][y].native = hzu[e][y].native
        /\ hzu'[k.eur][k.zone].native = hzu[k.eur][k.zone].native
             - (IF p.state = "ok" THEN urr[k.eur][k.zone][k.user].amount ELSE 0)
    BY <1>1, <1>2, <1>3, ClaimCallbackEffect
  <1>8. /\ p \in Packet /\ p.amount \in Nat
        /\ \A kind \in Kinds : OkSum(channel[z][a].pkts, kind)
             = OkSum(channel'[z][a].pkts, kind) + Counts(p, kind)
    BY AckPackets
  <1>9. \A y \in Zones, b \in Accounts : ~(y = z /\ b = a) =>
          \A kind \in Kinds : OkSum(channel'[y][b].pkts, kind) = OkSum(channel[y][b].pkts, kind)
    BY AckPackets
  <1>10. claimed \in Nat /\ claimed = IF p.state = "ok" THEN p.amount ELSE 0
    BY <1>8 DEF Counts
  <1>11. {"undelegate", "redemption", "claim", "delegate"} \subseteq Kinds
         /\ "DELEGATION" \in Accounts /\ "REDEMPTION" \in Accounts
    BY DEF Kinds, Accounts
  <1>12. hzu'[e0][z].native = hzu[e0][z].native - claimed
    BY <1>3, <1>5, <1>7, <1>10
  <1>13. UNCHANGED <<zone, escrow, delegated, redemptionAcct, lost>>
    BY DEF AckICA, host
  <1>14. hzu \in RecordStore
    BY <1>1 DEF StoresTypeOK, RecordStore
  <1>15. ASSUME NEW y \in Zones
         PROVE  EscrowSum(hzu', y) = EscrowSum(hzu, y)
    <2>1. \A e \in Eurs : EscrowPart(hzu', y)[e] = EscrowPart(hzu, y)[e]
      BY <1>7 DEF EscrowPart
    <2> QED
      BY <2>1, EscrowSame
  <1>16. ASSUME NEW y \in Zones \ {z}
         PROVE  ClaimableSum(hzu', y) = ClaimableSum(hzu, y)
    <2>1. \A e \in Eurs : ClaimablePart(hzu', y)[e] = ClaimablePart(hzu, y)[e]
      BY <1>3, <1>7 DEF ClaimablePart
    <2> QED
      BY <2>1, ClaimableSame
  <1>17. ClaimableSum(hzu', z) + claimed = ClaimableSum(hzu, z) + 0
    <2>1. hzu'[e0][z].status = "CLAIMABLE"
      BY <1>4, <1>6, <1>7
    <2>2. \A e \in Eurs \ {e0} : hzu'[e][z].status = hzu[e][z].status
                                   /\ hzu'[e][z].native = hzu[e][z].native
      BY <1>3, <1>7
    <2> HIDE DEF e0
    <2>3. ClaimableSum(hzu', z) = ClaimableSum(hzu, z) + hzu'[e0][z].native - hzu[e0][z].native
      BY <1>4, <1>6, <1>7, <1>14, <2>1, <2>2, ClaimableChange
    <2>4. ClaimableSum(hzu, z) \in Nat
      BY <1>14, PartSumNat
    <2>5. hzu[e0][z].native \in Nat
      BY <1>4, <1>14 DEF RecordStore, HostZoneUnbonding
    <2> HIDE DEF claimed
    <2> QED
      BY <1>10, <1>12, <2>3, <2>4, <2>5
  <1>18. ASSUME NEW y \in Zones \ {z} PROVE QuietAt(y)
    <2>1. \A b \in Accounts, kind \in Kinds :
            OkSum(channel'[y][b].pkts, kind) = OkSum(channel[y][b].pkts, kind)
      BY <1>9
    <2> QED
      BY <1>13, <1>15, <1>16, <2>1 DEF QuietAt
  <1>19. OkSum(channel[z]["REDEMPTION"].pkts, "claim")
           = OkSum(channel'[z]["REDEMPTION"].pkts, "claim") + claimed
    BY <1>3, <1>8, <1>11
  <1>20. /\ OkSum(channel[z]["DELEGATION"].pkts, "undelegate")
              = OkSum(channel'[z]["DELEGATION"].pkts, "undelegate") + 0
         /\ OkSum(channel[z]["DELEGATION"].pkts, "redemption")
              = OkSum(channel'[z]["DELEGATION"].pkts, "redemption") + 0
         /\ OkSum(channel[z]["DELEGATION"].pkts, "delegate")
              = OkSum(channel'[z]["DELEGATION"].pkts, "delegate") + 0
    <2>1. \A kind \in Kinds :
            OkSum(channel'[z]["DELEGATION"].pkts, kind) = OkSum(channel[z]["DELEGATION"].pkts, kind)
      BY <1>3, <1>9, <1>11
    <2>2. \A kind \in Kinds : OkSum(channel[z]["DELEGATION"].pkts, kind) \in Nat
      BY <1>1, <1>11 DEF LedgerTypeOK
    <2> QED
      BY <1>11, <2>1, <2>2
  <1>21. /\ 0 \in Nat /\ delegated'[z] = delegated[z] /\ redemptionAcct'[z] = redemptionAcct[z]
         /\ lost'[z] = lost[z] /\ escrow[z] = escrow'[z] + 0
         /\ zone[z].stakedBal + 0 = zone'[z].stakedBal + 0
         /\ EscrowSum(hzu, z) = EscrowSum(hzu', z) + 0
    <2>1. escrow[z] \in Nat /\ zone[z].stakedBal \in Nat /\ EscrowSum(hzu, z) \in Nat
      BY <1>1 DEF LedgerTypeOK
    <2> QED
      BY <1>13, <1>15, <2>1
  <1> HIDE DEF claimed
  <1> QED
    BY <1>1, <1>10, <1>17, <1>18, <1>19, <1>20, <1>21, AckMoves


-----------------------------------------------------------------------------
(* Closed channels *)

\* What the packets of the channel had moved on the host is lost with them.
LEMMA CloseLedger ==
    ASSUME RecordsInv, RecordsInv', LedgerInv, NEW z \in Zones, NEW a \in Accounts, NEW X,
           CloseChannel(z, a, X), hzu' = hzu
    PROVE  LedgerInv'
  <1>1. StoresInv /\ AccountsTypeOK /\ LedgerTypeOK /\ PacketsWellFormed
    BY LedgerTypes DEF RecordsInv, StoresInv
  <1>2. channel'[z][a].pkts = {}
    BY <1>1, CloseChannelEffect
  <1>3. \A y \in Zones, b \in Accounts : ~(y = z /\ b = a) => channel'[y][b] = channel[y][b]
    BY <1>1, CloseChannelEffect
  <1>4. UNCHANGED <<hzu, zone, escrow, delegated, redemptionAcct>>
    BY DEF CloseChannel, accounts, host
  <1>5. {"undelegate", "redemption", "claim", "delegate"} \subseteq Kinds
        /\ "DELEGATION" \in Accounts /\ "REDEMPTION" \in Accounts
    BY DEF Kinds, Accounts
  <1>6. \A kind \in Kinds : lost'[z][kind] = lost[z][kind] + OkSum(channel[z][a].pkts, kind)
    <2> SUFFICES ASSUME NEW kind \in Kinds
                 PROVE  lost'[z][kind] = lost[z][kind] + OkSum(channel[z][a].pkts, kind)
      OBVIOUS
    <2>1. lost'[z][kind] = lost[z][kind] + Executed(z, a, kind)
      BY <1>1 DEF CloseChannel, AccountsTypeOK
    <2> QED
      BY <2>1, ExecutedSum DEF OkSum
  <1>7. \A y \in Zones : y # z => lost'[y] = lost[y]
    BY <1>1 DEF CloseChannel, AccountsTypeOK
  <1>8. \A kind \in Kinds : OkSum(channel'[z][a].pkts, kind) = 0
    BY <1>2, OkSumEmpty
  <1>9. EscrowInv'
    BY <1>4 DEF LedgerInv, EscrowInv
  \* A kind of packet is on one channel only.
  <1>10. /\ a = "REDEMPTION" => /\ OkSum(channel[z][a].pkts, "undelegate") = 0
                                /\ OkSum(channel[z][a].pkts, "redemption") = 0
                                /\ OkSum(channel[z][a].pkts, "delegate") = 0
         /\ a = "DELEGATION" => OkSum(channel[z][a].pkts, "claim") = 0
    <2>1. a = "REDEMPTION" => \A p \in channel[z][a].pkts : p.kind = "claim"
      BY <1>1 DEF PacketsWellFormed, RedemptionShape
    <2>2. a = "DELEGATION" => \A p \in channel[z][a].pkts : p.kind # "claim"
      BY <1>1 DEF PacketsWellFormed, DelegationShape
    <2> QED
      BY <2>1, <2>2, OkSumOther
  \* What a kind has lost and what it has under way add up as before.
  <1>11. ASSUME NEW y \in Zones, NEW b \in Accounts, NEW kind \in Kinds,
                y = z /\ b # a => OkSum(channel[z][a].pkts, kind) = 0
         PROVE  lost'[y][kind] + OkSum(channel'[y][b].pkts, kind)
                  = lost[y][kind] + OkSum(channel[y][b].pkts, kind)
    <2>1. lost[y][kind] \in Nat /\ OkSum(channel[y][b].pkts, kind) \in Nat
      BY <1>1 DEF LedgerTypeOK
    <2>2. CASE y # z
      BY <1>3, <1>7, <2>2
    <2>3. CASE y = z /\ b = a
      BY <1>6, <1>8, <2>1, <2>3
    <2>4. CASE y = z /\ b # a
      BY <1>3, <1>6, <1>11, <2>1, <2>4
    <2> QED
      BY <2>2, <2>3, <2>4
  <1>12. ASSUME NEW y \in Zones
         PROVE  /\ lost'[y]["undelegate"] + OkSum(channel'[y]["DELEGATION"].pkts, "undelegate")
                     = lost[y]["undelegate"] + OkSum(channel[y]["DELEGATION"].pkts, "undelegate")
                /\ lost'[y]["delegate"] + OkSum(channel'[y]["DELEGATION"].pkts, "delegate")
                     = lost[y]["delegate"] + OkSum(channel[y]["DELEGATION"].pkts, "delegate")
                /\ lost'[y]["redemption"] + OkSum(channel'[y]["DELEGATION"].pkts, "redemption")
                     = lost[y]["redemption"] + OkSum(channel[y]["DELEGATION"].pkts, "redemption")
                /\ lost'[y]["claim"] + OkSum(channel'[y]["REDEMPTION"].pkts, "claim")
                     = lost[y]["claim"] + OkSum(channel[y]["REDEMPTION"].pkts, "claim")
    <2>1. /\ "DELEGATION" # a => /\ OkSum(channel[z][a].pkts, "undelegate") = 0
                                 /\ OkSum(channel[z][a].pkts, "redemption") = 0
                                 /\ OkSum(channel[z][a].pkts, "delegate") = 0
          /\ "REDEMPTION" # a => OkSum(channel[z][a].pkts, "claim") = 0
      BY <1>10 DEF Accounts
    <2> QED
      BY <1>5, <1>11, <2>1
  <1>13. LedgerTypeOK'
    BY LedgerTypesNext
  <1>14. StakedInv'
    <2> SUFFICES ASSUME NEW y \in Zones
                 PROVE  zone'[y].stakedBal + lost'[y]["delegate"]
                            + OkSum(channel'[y]["DELEGATION"].pkts, "delegate")
                          = delegated'[y] + lost'[y]["undelegate"]
                              + OkSum(channel'[y]["DELEGATION"].pkts, "undelegate")
      BY DEF StakedInv
    <2> DEFINE sb == zone[y].stakedBal
               dl == delegated[y]
               ld == lost[y]["delegate"]
               ldNext == lost'[y]["delegate"]
               lu == lost[y]["undelegate"]
               luNext == lost'[y]["undelegate"]
               okD == OkSum(channel[y]["DELEGATION"].pkts, "delegate")
               okDNext == OkSum(channel'[y]["DELEGATION"].pkts, "delegate")
               okU == OkSum(channel[y]["DELEGATION"].pkts, "undelegate")
               okUNext == OkSum(channel'[y]["DELEGATION"].pkts, "undelegate")
    <2>1. sb + ld + okD = dl + lu + okU
      BY DEF LedgerInv, StakedInv
    <2>2. /\ sb \in Nat /\ dl \in Nat /\ ld \in Nat /\ lu \in Nat
          /\ okD \in Nat /\ okU \in Nat
      BY <1>1, <1>5 DEF LedgerTypeOK
    <2>3. ldNext \in Nat /\ luNext \in Nat /\ okDNext \in Nat /\ okUNext \in Nat
      BY <1>5, <1>13 DEF LedgerTypeOK
    <2>4. luNext + okUNext = lu + okU /\ ldNext + okDNext = ld + okD
      BY <1>12
    <2>5. zone'[y].stakedBal = sb /\ delegated'[y] = dl
      BY <1>4
    <2> HIDE DEF sb, dl, ld, ldNext, lu, luNext, okD, okDNext, okU, okUNext
    <2>6. sb + ldNext + okDNext = dl + luNext + okUNext
      BY <2>1, <2>2, <2>3, <2>4
    <2> QED
      BY <2>5, <2>6 DEF ldNext, luNext, okDNext, okUNext
  <1>15. ClaimsInv'
    <2> SUFFICES ASSUME NEW y \in Zones
                 PROVE  redemptionAcct'[y] + lost'[y]["claim"]
                            + OkSum(channel'[y]["REDEMPTION"].pkts, "claim")
                          = ClaimableSum(hzu', y) + lost'[y]["redemption"]
                              + OkSum(channel'[y]["DELEGATION"].pkts, "redemption")
      BY DEF ClaimsInv
    <2> DEFINE ra == redemptionAcct[y]
               lc == lost[y]["claim"]
               lcNext == lost'[y]["claim"]
               lr == lost[y]["redemption"]
               lrNext == lost'[y]["redemption"]
               okC == OkSum(channel[y]["REDEMPTION"].pkts, "claim")
               okCNext == OkSum(channel'[y]["REDEMPTION"].pkts, "claim")
               okR == OkSum(channel[y]["DELEGATION"].pkts, "redemption")
               okRNext == OkSum(channel'[y]["DELEGATION"].pkts, "redemption")
               sum == ClaimableSum(hzu, y)
    <2>1. ra + lc + okC = sum + lr + okR
      BY DEF LedgerInv, ClaimsInv
    <2>2. ra \in Nat /\ lc \in Nat /\ lr \in Nat /\ okC \in Nat /\ okR \in Nat /\ sum \in Nat
      BY <1>1, <1>5 DEF LedgerTypeOK
    <2>3. lcNext \in Nat /\ lrNext \in Nat /\ okCNext \in Nat /\ okRNext \in Nat
      BY <1>5, <1>13 DEF LedgerTypeOK
    <2>4. lcNext + okCNext = lc + okC /\ lrNext + okRNext = lr + okR
      BY <1>12
    <2>5. redemptionAcct'[y] = ra /\ ClaimableSum(hzu', y) = sum
      BY <1>4
    <2> HIDE DEF ra, lc, lcNext, lr, lrNext, okC, okCNext, okR, okRNext, sum
    <2>6. ra + lcNext + okCNext = sum + lrNext + okRNext
      BY <2>1, <2>2, <2>3, <2>4
    <2> QED
      BY <2>5, <2>6 DEF lcNext, lrNext, okCNext, okRNext
  <1> QED
    BY <1>9, <1>14, <1>15 DEF LedgerInv

\* Rewards, rates and halts move none of these balances, nor does a delegation
\* that is sent.
LEMMA DepositsSideLedger ==
    ASSUME RecordsInv, LedgerInv, NEW z \in Zones, DepositsSide(z)
    PROVE  LedgerInv'
  <1>1. zone \in [Zones -> [halted : BOOLEAN, redemptionRate : Nat, stakedBal : Nat]]
    BY DEF RecordsInv, AccountsTypeOK
  <1>2. UNCHANGED <<hzu, channel, escrow, delegated, redemptionAcct, lost>>
    BY DEF DepositsSide, Reinvest, UpdateRedemptionRates, BeginBlocker,
           records, ghosts, accounts, host
  <1>3. \A y \in Zones : zone'[y].stakedBal = zone[y].stakedBal
    <2>1. CASE Reinvest(z)
      BY <2>1 DEF Reinvest
    <2>2. CASE UpdateRedemptionRates(z)
      BY <1>1, <2>2 DEF UpdateRedemptionRates
    <2>3. CASE BeginBlocker(z)
      BY <1>1, <2>3 DEF BeginBlocker
    <2> QED
      BY <2>1, <2>2, <2>3 DEF DepositsSide
  <1>4. SameAccounts /\ SameRecordSums /\ SamePacketSums
    BY <1>2, <1>3 DEF SameAccounts, SameRecordSums, SamePacketSums
  <1> QED
    BY <1>4, QuietStep

LEMMA DelegateOnHostLedger ==
    ASSUME RecordsInv, LedgerInv, NEW z \in Zones, NEW amount \in Nat, DelegateOnHost(z, amount)
    PROVE  LedgerInv'
  <1> DEFINE old == channel[z]["DELEGATION"].pkts
             new == DelegatePacket(amount, Cardinality(old) + 1)
  <1>1. /\ channel'[z]["DELEGATION"].pkts = old \cup {new}
        /\ \A y \in Zones, b \in Accounts :
             ~(y = z /\ b = "DELEGATION") => channel'[y][b] = channel[y][b]
    BY DelegateEffect DEF RecordsInv, StoresInv
  <1>2. new.state = "sent"
    BY DEF DelegatePacket
  <1> HIDE DEF new
  <1>3. SamePacketSums
    <2> SUFFICES ASSUME NEW y \in Zones, NEW b \in Accounts, NEW kind \in Kinds
                 PROVE  OkSum(channel'[y][b].pkts, kind) = OkSum(channel[y][b].pkts, kind)
      BY DEF SamePacketSums
    <2>1. CASE y = z /\ b = "DELEGATION"
      <3>1. OkSum(old \cup {new}, kind) = OkSum(old, kind)
        BY <1>2, OkSumSent
      <3> QED
        BY <3>1, <2>1, <1>1
    <2>2. CASE ~(y = z /\ b = "DELEGATION")
      BY <2>2, <1>1
    <2> QED
      BY <2>1, <2>2
  <1>4. UNCHANGED <<hzu, zone, escrow, host, ghosts>>
    BY DEF DelegateOnHost, records
  <1>5. SameAccounts /\ SameRecordSums
    BY <1>4 DEF SameAccounts, SameRecordSums, host, ghosts
  <1> QED
    BY <1>3, <1>5, QuietStep

-----------------------------------------------------------------------------
(* The theorems *)

LEMMA LedgerInvInit ==
    Init => LedgerInv
  <1> SUFFICES ASSUME Init PROVE LedgerInv
    OBVIOUS
  <1>1. IsFiniteSet(Eurs) /\ InitialStake \in Nat
    BY UnbondingRecordsAssumption
  <1>2. \A z \in Zones, e \in Eurs : EscrowPart(hzu, z)[e] = 0 /\ ClaimablePart(hzu, z)[e] = 0
    BY DEF Init, NewUnbonding, NoUnbonding, EscrowPart, ClaimablePart
  <1>3. \A z \in Zones : EscrowSum(hzu, z) = 0
    BY <1>1, <1>2, SumZero DEF EscrowSum
  <1>4. \A z \in Zones : ClaimableSum(hzu, z) = 0
    BY <1>1, <1>2, SumZero DEF ClaimableSum
  <1>5. \A z \in Zones, a \in Accounts, kind \in Kinds : OkSum(channel[z][a].pkts, kind) = 0
    <2>1. \A z \in Zones, a \in Accounts : channel[z][a].pkts = {}
      BY DEF Init
    <2> QED
      BY <2>1, OkSumEmpty
  <1>6. {"undelegate", "redemption", "claim", "delegate"} \subseteq Kinds
        /\ "DELEGATION" \in Accounts /\ "REDEMPTION" \in Accounts
    BY DEF Kinds, Accounts
  <1>7. \A z \in Zones : /\ escrow[z] = 0 /\ redemptionAcct[z] = 0
                         /\ zone[z].stakedBal = InitialStake /\ delegated[z] = InitialStake
                         /\ \A kind \in Kinds : lost[z][kind] = 0
    BY DEF Init
  <1> QED
    BY <1>1, <1>3, <1>4, <1>5, <1>6, <1>7 DEF LedgerInv, EscrowInv, StakedInv, ClaimsInv

LEMMA LedgerInvNext ==
    RecordsInv /\ LedgerInv /\ [Next]_vars => LedgerInv'
  <1> SUFFICES ASSUME RecordsInv, LedgerInv, [Next]_vars PROVE LedgerInv'
    OBVIOUS
  <1>1. RecordsInv'
    BY RecordsInvNext
  <1>2. ASSUME NEW lag \in 0..MaxLag, DayEpoch(lag) PROVE LedgerInv'
    BY <1>2, DayEpochLedger
  <1>3. CASE Tick
    BY <1>3, TickLedger
  <1>4. ASSUME NEW z \in Zones, NEW u \in Users, NEW amount \in RedeemAmounts, RedeemStake(z, u, amount)
        PROVE  LedgerInv'
    BY <1>4, RedeemStakeLedger
  <1>5. ASSUME NEW z \in Zones, NEW e \in Eurs, NEW u \in Users, ClaimUndelegatedTokens(e, z, u)
        PROVE  LedgerInv'
    BY <1>5, ClaimLedger
  <1>6. ASSUME NEW z \in Zones, NEW a \in Accounts, NEW p \in channel[z][a].pkts,
               NEW result \in {"ok", "err"}, ExecuteICA(z, a, p, result)
        PROVE  LedgerInv'
    BY <1>1, <1>6, ExecuteICALedger
  <1>7. ASSUME NEW z \in Zones, NEW a \in Accounts, NEW p \in channel[z][a].pkts, AckICA(z, a, p)
        PROVE  LedgerInv'
    <2>1. p.kind \in Kinds
      BY <1>7, AckPackets DEF Packet
    <2>2. CASE p.kind \in {"undelegate", "redemption"}
      BY <1>1, <1>7, <2>2, AckDelegationLedger
    <2>3. CASE p.kind = "delegate"
      BY <1>1, <1>7, <2>3, AckDelegateLedger
    <2>4. CASE p.kind = "claim"
      BY <1>1, <1>7, <2>4, AckClaimLedger
    <2> QED
      BY <2>1, <2>2, <2>3, <2>4 DEF Kinds
  <1>8. ASSUME NEW z \in Zones, NEW a \in Accounts, NEW p \in channel[z][a].pkts, TimeoutICA(z, a, p)
        PROVE  LedgerInv'
    <2>1. CloseChannel(z, a, {p})
      BY <1>8 DEF TimeoutICA
    <2>2. hzu' = hzu
      BY <1>8 DEF TimeoutICA, ClaimCallback
    <2> QED
      BY <1>1, <2>1, <2>2, CloseLedger
  <1>9. ASSUME NEW z \in Zones, NEW a \in Accounts, RestoreInterchainAccount(z, a)
        PROVE  LedgerInv'
    BY <1>9, RestoreLedger
  <1>10. ASSUME NEW z \in Zones, NEW a \in Accounts, ChanOpenAck(z, a)
         PROVE  LedgerInv'
    BY <1>10, ChanOpenAckLedger
  <1>11. ASSUME NEW z \in Zones, TimeoutOfAnother(z)
         PROVE  LedgerInv'
    <2>1. CloseChannel(z, "DELEGATION", {}) /\ "DELEGATION" \in Accounts /\ hzu' = hzu
      BY <1>11 DEF TimeoutOfAnother, Accounts
    <2> QED
      BY <1>1, <2>1, CloseLedger
  <1>12. ASSUME NEW z \in Zones, DepositsSide(z) PROVE LedgerInv'
    BY <1>12, DepositsSideLedger
  <1>13. ASSUME NEW k \in orphans, TimeoutOnClose(k) PROVE LedgerInv'
    BY <1>13, TimeoutOnCloseLedger
  <1>14. CASE UNCHANGED vars
    <2>1. UNCHANGED <<hzu, channel, zone, accounts, host, lost>>
      BY <1>14 DEF vars, records, ghosts
    <2>2. SameAccounts /\ SameRecordSums /\ SamePacketSums
      BY <2>1 DEF SameAccounts, SameRecordSums, SamePacketSums, accounts, host
    <2> QED
      BY <2>2, QuietStep
  <1>15. ASSUME NEW z \in Zones, NEW amount \in 1..deposits[z], DelegateOnHost(z, amount)
         PROVE  LedgerInv'
    <2>1. amount \in Nat
      OBVIOUS
    <2> QED
      BY <1>15, <2>1, DelegateOnHostLedger
  <1> QED
    BY <1>2, <1>3, <1>4, <1>5, <1>6, <1>7, <1>8, <1>9, <1>10, <1>11, <1>12, <1>13, <1>14, <1>15
       DEF Next, DepositsSide

LEMMA LedgerInvHolds ==
    Spec => [](RecordsInv /\ LedgerInv)
    BY RecordsInvHolds, LedgerInvInit, LedgerInvNext, PTL DEF Spec

\* The stTokens in escrow are those of the records that were not undelegated:
\* each is burned exactly once, when its undelegation is acknowledged.
THEOREM EscrowAccountedHolds ==
    Spec => []EscrowAccounted
  <1>1. RecordsInv /\ LedgerInv => EscrowAccounted
    <2> SUFFICES ASSUME RecordsInv, LedgerInv, NEW z \in Zones
                 PROVE  escrow[z] = StAmount(hzu, z,
                            WithStatus(hzu, z, {"UNBONDING_QUEUE", "UNBONDING_IN_PROGRESS"}))
      BY DEF EscrowAccounted
    <2>1. hzu \in RecordStore
      BY DEF RecordsInv, StoresInv, StoresTypeOK, RecordStore
    <2> QED
      BY <2>1, EscrowIsSum DEF LedgerInv, EscrowInv
  <1> QED
    BY <1>1, LedgerInvHolds, PTL

\* StakedBal differs from the real delegation by the delegations and the
\* undelegations that the host has executed and whose acknowledgement is under
\* way or lost.
THEOREM StakedBalAccountedHolds ==
    Spec => []StakedBalAccounted
  <1>1. RecordsInv /\ LedgerInv => StakedBalAccounted
    BY ExecutedSum DEF LedgerInv, StakedInv, OkSum, StakedBalAccounted
  <1> QED
    BY <1>1, LedgerInvHolds, PTL

\* The redemption account holds what the claimable records owe, up to sweeps
\* and claims whose acknowledgement is under way or lost.
THEOREM RedemptionAcctAccountedHolds ==
    Spec => []RedemptionAcctAccounted
  <1>1. RecordsInv /\ LedgerInv => RedemptionAcctAccounted
    <2> SUFFICES ASSUME RecordsInv, LedgerInv, NEW z \in Zones
                 PROVE  redemptionAcct[z] + lost[z]["claim"] + Executed(z, "REDEMPTION", "claim")
                          = NativeAmount(hzu, z, WithStatus(hzu, z, {"CLAIMABLE"}))
                              + lost[z]["redemption"] + Executed(z, "DELEGATION", "redemption")
      BY DEF RedemptionAcctAccounted
    <2>1. hzu \in RecordStore
      BY DEF RecordsInv, StoresInv, StoresTypeOK, RecordStore
    <2> QED
      BY <2>1, ClaimableIsSum, ExecutedSum DEF LedgerInv, ClaimsInv, OkSum
  <1> QED
    BY <1>1, LedgerInvHolds, PTL

-----------------------------------------------------------------------------
(* The delegation account on the host *)

Periods == 1..UnbondingPeriod

\* Told, for an undelegation of which t ticks are left.
ToldDue(pkts, e, t) ==
    \E p \in pkts : p.kind = "undelegate" /\ p.state = "ok" /\ e \in p.eurs /\ p.left = t

\* The record's tokens complete their unbonding in t ticks, at some time, or
\* they are in the delegation account's hands, unbonding or unbonded.
Due(h, pkts, z, e, t) ==
    \/ h[e][z].status = "EXIT_TRANSFER_QUEUE" /\ h[e][z].left = t
    \/ ToldDue(pkts, e, t)

Later(h, pkts, z, e) == \E t \in Periods : Due(h, pkts, z, e, t)

OnHost(h, pkts, z, e) ==
    \/ h[e][z].status = "EXIT_TRANSFER_QUEUE"
    \/ Told(pkts, "undelegate", e)
    \/ h[e][z].status = "EXIT_TRANSFER_IN_PROGRESS" /\ ~Told(pkts, "redemption", e)

DuePart(h, pkts, z, t) ==
    [e \in Eurs |-> IF Due(h, pkts, z, e, t) THEN h[e][z].native ELSE 0]
LaterPart(h, pkts, z) ==
    [e \in Eurs |-> IF Later(h, pkts, z, e) THEN h[e][z].native ELSE 0]
HostPart(h, pkts, z) ==
    [e \in Eurs |-> IF OnHost(h, pkts, z, e) THEN h[e][z].native ELSE 0]

DueSum(h, pkts, z, t) == SumFunctionOnSet(DuePart(h, pkts, z, t), Eurs)
LaterSum(h, pkts, z) == SumFunctionOnSet(LaterPart(h, pkts, z), Eurs)
HostSum(h, pkts, z) == SumFunctionOnSet(HostPart(h, pkts, z), Eurs)
UnbondingSum(f) == SumFunctionOnSet(f, Periods)

\* Tokens of deposits that the host has delegated without the news so far.
Unbooked(z) == lost[z]["delegate"] + OkSum(channel[z]["DELEGATION"].pkts, "delegate")

\* Every record's tokens are among those that complete when it says, what is
\* unbonding beyond that was undelegated twice, the account's tokens are those
\* of deposits and records, and what is being swept has unbonded.
BucketsInv(z) == \A t \in Periods :
    unbonding[z][t] >= DueSum(hzu, channel[z]["DELEGATION"].pkts, z, t)

UnbondingInv(z) ==
    UnbondingSum(unbonding[z])
      <= lost[z]["undelegate"] + LaterSum(hzu, channel[z]["DELEGATION"].pkts, z)

HostAcctInv(z) ==
    hostAcct[z] + UnbondingSum(unbonding[z]) + lost[z]["redemption"] + Unbooked(z)
      = deposits[z] + lost[z]["undelegate"] + HostSum(hzu, channel[z]["DELEGATION"].pkts, z)

HostAt(z) == BucketsInv(z) /\ UnbondingInv(z) /\ HostAcctInv(z)

SweptInv == \A e \in Eurs, z \in Zones :
    hzu[e][z].status = "EXIT_TRANSFER_IN_PROGRESS" => hzu[e][z].left < 0

HostInv == SweptInv /\ \A z \in Zones : HostAt(z)

\* What is due is on the host.
LEMMA DueOnHost ==
    ASSUME NEW h, NEW pkts, NEW z, NEW e, NEW t, Due(h, pkts, z, e, t)
    PROVE  OnHost(h, pkts, z, e)
  BY DEF Due, ToldDue, Told, OnHost

LEMMA HostPartsNat ==
    ASSUME NEW h \in RecordStore, NEW pkts, NEW z \in Zones
    PROVE  /\ \A t : \A e \in Eurs : DuePart(h, pkts, z, t)[e] \in Nat
           /\ \A e \in Eurs : LaterPart(h, pkts, z)[e] \in Nat
           /\ \A e \in Eurs : HostPart(h, pkts, z)[e] \in Nat
           /\ \A e \in Eurs : LaterPart(h, pkts, z)[e] <= HostPart(h, pkts, z)[e]
  <1>1. \A e \in Eurs : h[e][z].native \in Nat
    BY DEF RecordStore, HostZoneUnbonding
  <1>2. \A t : \A e \in Eurs : DuePart(h, pkts, z, t)[e] \in Nat
    BY <1>1 DEF DuePart
  <1>3. \A e \in Eurs : LaterPart(h, pkts, z)[e] \in Nat
    BY <1>1 DEF LaterPart
  <1>4. \A e \in Eurs : HostPart(h, pkts, z)[e] \in Nat
    BY <1>1 DEF HostPart
  <1>5. ASSUME NEW e \in Eurs
        PROVE  LaterPart(h, pkts, z)[e] <= HostPart(h, pkts, z)[e]
    <2>1. Later(h, pkts, z, e) => OnHost(h, pkts, z, e)
      BY DueOnHost DEF Later
    <2> QED
      BY <1>1, <2>1 DEF LaterPart, HostPart
  <1> QED
    BY <1>2, <1>3, <1>4, <1>5

LEMMA HostSumsNat ==
    ASSUME NEW h \in RecordStore, NEW pkts, NEW z \in Zones
    PROVE  /\ \A t : DueSum(h, pkts, z, t) \in Nat
           /\ LaterSum(h, pkts, z) \in Nat /\ HostSum(h, pkts, z) \in Nat
           /\ LaterSum(h, pkts, z) <= HostSum(h, pkts, z)
  <1>1. IsFiniteSet(Eurs)
    BY UnbondingRecordsAssumption
  <1>2. /\ \A t : \A e \in Eurs : DuePart(h, pkts, z, t)[e] \in Nat
        /\ \A e \in Eurs : LaterPart(h, pkts, z)[e] \in Nat
        /\ \A e \in Eurs : HostPart(h, pkts, z)[e] \in Nat
        /\ \A e \in Eurs : LaterPart(h, pkts, z)[e] <= HostPart(h, pkts, z)[e]
    BY HostPartsNat
  <1>3. \A t : SumFunctionOnSet(DuePart(h, pkts, z, t), Eurs) \in Nat
    BY <1>1, <1>2, SumNat
  <1>4. SumFunctionOnSet(LaterPart(h, pkts, z), Eurs) \in Nat
    BY <1>1, <1>2, SumNat
  <1>5. SumFunctionOnSet(HostPart(h, pkts, z), Eurs) \in Nat
    BY <1>1, <1>2, SumNat
  <1>6. \A e \in Eurs : /\ HostPart(h, pkts, z)[e] \in Int /\ LaterPart(h, pkts, z)[e] \in Int
                        /\ LaterPart(h, pkts, z)[e] <= HostPart(h, pkts, z)[e]
    BY <1>2
  <1>7. SumFunctionOnSet(LaterPart(h, pkts, z), Eurs) <= SumFunctionOnSet(HostPart(h, pkts, z), Eurs)
    BY <1>1, <1>6, SumLeq
  <1> QED
    BY <1>3, <1>4, <1>5, <1>7 DEF DueSum, LaterSum, HostSum

\* A record that keeps its amount and its place, has no amount, or is not on
\* the host before or after.
SameRecord(z, e) ==
    LET before == channel[z]["DELEGATION"].pkts
        after == channel'[z]["DELEGATION"].pkts
    IN  \/ /\ hzu'[e][z].native = hzu[e][z].native
           /\ OnHost(hzu', after, z, e) <=> OnHost(hzu, before, z, e)
           /\ \A t \in Periods : Due(hzu', after, z, e, t) <=> Due(hzu, before, z, e, t)
        \/ hzu'[e][z].native = 0 /\ hzu[e][z].native = 0
        \/ ~OnHost(hzu', after, z, e) /\ ~OnHost(hzu, before, z, e)

LEMMA SameHostSums ==
    ASSUME NEW z \in Zones, \A e \in Eurs : SameRecord(z, e),
           NEW before, before = channel[z]["DELEGATION"].pkts,
           NEW after, after = channel'[z]["DELEGATION"].pkts
    PROVE  /\ \A t \in Periods : DueSum(hzu', after, z, t) = DueSum(hzu, before, z, t)
           /\ LaterSum(hzu', after, z) = LaterSum(hzu, before, z)
           /\ HostSum(hzu', after, z) = HostSum(hzu, before, z)
  <1>1. IsFiniteSet(Eurs)
    BY UnbondingRecordsAssumption
  <1>2. ASSUME NEW e \in Eurs
        PROVE  /\ \A t \in Periods : DuePart(hzu', after, z, t)[e] = DuePart(hzu, before, z, t)[e]
               /\ LaterPart(hzu', after, z)[e] = LaterPart(hzu, before, z)[e]
               /\ HostPart(hzu', after, z)[e] = HostPart(hzu, before, z)[e]
    <2>1. \A t : Due(hzu', after, z, e, t) => OnHost(hzu', after, z, e)
      BY DueOnHost
    <2>2. \A t : Due(hzu, before, z, e, t) => OnHost(hzu, before, z, e)
      BY DueOnHost
    <2>3. CASE /\ hzu'[e][z].native = hzu[e][z].native
               /\ OnHost(hzu', after, z, e) <=> OnHost(hzu, before, z, e)
               /\ \A t \in Periods : Due(hzu', after, z, e, t) <=> Due(hzu, before, z, e, t)
      <3>1. Later(hzu', after, z, e) <=> Later(hzu, before, z, e)
        BY <2>3 DEF Later
      <3> QED
        BY <2>3, <3>1 DEF DuePart, LaterPart, HostPart
    <2>4. CASE hzu'[e][z].native = 0 /\ hzu[e][z].native = 0
      BY <2>4 DEF DuePart, LaterPart, HostPart
    <2>5. CASE ~OnHost(hzu', after, z, e) /\ ~OnHost(hzu, before, z, e)
      <3>1. ~Later(hzu', after, z, e) /\ ~Later(hzu, before, z, e)
        BY <2>1, <2>2, <2>5 DEF Later
      <3> QED
        BY <2>1, <2>2, <2>5, <3>1 DEF DuePart, LaterPart, HostPart
    <2> QED
      BY <2>3, <2>4, <2>5 DEF SameRecord
  <1>3. ASSUME NEW t \in Periods
        PROVE  DueSum(hzu', after, z, t) = DueSum(hzu, before, z, t)
    <2>1. \A e \in Eurs : DuePart(hzu', after, z, t)[e] = DuePart(hzu, before, z, t)[e]
      BY <1>2
    <2> QED
      BY <1>1, <2>1, SumSame DEF DueSum
  <1>4. LaterSum(hzu', after, z) = LaterSum(hzu, before, z)
    BY <1>1, <1>2, SumSame DEF LaterSum
  <1>5. HostSum(hzu', after, z) = HostSum(hzu, before, z)
    BY <1>1, <1>2, SumSame DEF HostSum
  <1> QED
    BY <1>3, <1>4, <1>5

\* Everything the host's balances are made of is a natural number.
HostTypeOK ==
    \A z \in Zones :
        /\ hostAcct[z] \in Nat /\ deposits[z] \in Nat
        /\ UnbondingSum(unbonding[z]) \in Nat
        /\ \A t \in Periods : unbonding[z][t] \in Nat
        /\ lost[z]["undelegate"] \in Nat /\ lost[z]["redemption"] \in Nat
        /\ Unbooked(z) \in Nat
        /\ \A t : DueSum(hzu, channel[z]["DELEGATION"].pkts, z, t) \in Nat
        /\ LaterSum(hzu, channel[z]["DELEGATION"].pkts, z) \in Nat
        /\ HostSum(hzu, channel[z]["DELEGATION"].pkts, z) \in Nat

LEMMA PeriodsFinite ==
    IsFiniteSet(Periods) /\ 1 \in Periods /\ UnbondingPeriod \in Periods
  <1>1. UnbondingPeriod \in Nat \ {0}
    BY UnbondingRecordsAssumption
  <1> QED
    BY <1>1, FS_Interval DEF Periods

\* What the host has delegated without the news.
LEMMA DelegateSumNat ==
    ASSUME RecordsInv, NEW z \in Zones
    PROVE  OkSum(channel[z]["DELEGATION"].pkts, "delegate") \in Nat
  <1>1. channel[z]["DELEGATION"].pkts \in SUBSET Packet /\ IsFiniteSet(channel[z]["DELEGATION"].pkts)
    BY DEF RecordsInv, StoresInv, StoresTypeOK, Channel, Accounts
  <1> QED
    BY <1>1, OkSumNat

LEMMA HostTypes ==
    RecordsInv => HostTypeOK
  <1> SUFFICES ASSUME RecordsInv, NEW z \in Zones
               PROVE  /\ hostAcct[z] \in Nat /\ deposits[z] \in Nat
                      /\ UnbondingSum(unbonding[z]) \in Nat
                      /\ \A t \in Periods : unbonding[z][t] \in Nat
                      /\ lost[z]["undelegate"] \in Nat /\ lost[z]["redemption"] \in Nat
                      /\ Unbooked(z) \in Nat
                      /\ \A t : DueSum(hzu, channel[z]["DELEGATION"].pkts, z, t) \in Nat
                      /\ LaterSum(hzu, channel[z]["DELEGATION"].pkts, z) \in Nat
                      /\ HostSum(hzu, channel[z]["DELEGATION"].pkts, z) \in Nat
    BY DEF HostTypeOK
  <1>1. hzu \in RecordStore /\ AccountsTypeOK
    BY DEF RecordsInv, StoresInv, StoresTypeOK, RecordStore
  <1>2. \A t \in Periods : unbonding[z][t] \in Nat
    BY <1>1 DEF AccountsTypeOK, Periods
  <1>3. UnbondingSum(unbonding[z]) \in Nat
    BY <1>2, PeriodsFinite, SumNat DEF UnbondingSum
  <1>4. hostAcct[z] \in Nat /\ deposits[z] \in Nat
    BY <1>1 DEF AccountsTypeOK
  <1>5. lost[z]["undelegate"] \in Nat /\ lost[z]["redemption"] \in Nat
    BY <1>1 DEF AccountsTypeOK, Kinds
  <1>6. Unbooked(z) \in Nat
    <2>1. lost[z]["delegate"] \in Nat
      BY <1>1 DEF AccountsTypeOK, Kinds
    <2>2. OkSum(channel[z]["DELEGATION"].pkts, "delegate") \in Nat
      BY DelegateSumNat
    <2> QED
      BY <2>1, <2>2 DEF Unbooked
  <1> QED
    BY <1>1, <1>2, <1>3, <1>4, <1>5, <1>6, HostSumsNat

LEMMA HostTypesNext ==
    RecordsInv' => HostTypeOK'
  BY HostTypes, PTL

\* A step that leaves what is unbonding and what was lost of it alone, and adds
\* to the account what it adds to the deposits that are there.
QuietHostAt(z) ==
    /\ unbonding'[z] = unbonding[z]
    /\ lost'[z]["undelegate"] = lost[z]["undelegate"]
    /\ lost'[z]["redemption"] = lost[z]["redemption"]
    /\ hostAcct'[z] + Unbooked(z)' + deposits[z] = hostAcct[z] + Unbooked(z) + deposits'[z]

QuietHost == \A z \in Zones : QuietHostAt(z)

LEMMA QuietBalance ==
    ASSUME NEW ha \in Nat, NEW haNext \in Nat, NEW ub \in Nat, NEW ubNext \in Nat,
           NEW dp \in Nat, NEW dpNext \in Nat, NEW us \in Nat, NEW lr \in Nat,
           NEW lu \in Nat, NEW hs \in Nat,
           ha + us + lr + ub = dp + lu + hs,
           haNext + ubNext + dp = ha + ub + dpNext
    PROVE  haNext + us + lr + ubNext = dpNext + lu + hs
  OBVIOUS

LEMMA QuietZone ==
    ASSUME RecordsInv, RecordsInv', NEW z \in Zones, HostAt(z), QuietHostAt(z),
           \A e \in Eurs : SameRecord(z, e)
    PROVE  HostAt(z)'
  <1>1. HostTypeOK /\ HostTypeOK'
    BY HostTypes, HostTypesNext
  <1>2. LET before == channel[z]["DELEGATION"].pkts
            after == channel'[z]["DELEGATION"].pkts
        IN  /\ \A t \in Periods : DueSum(hzu', after, z, t) = DueSum(hzu, before, z, t)
            /\ LaterSum(hzu', after, z) = LaterSum(hzu, before, z)
            /\ HostSum(hzu', after, z) = HostSum(hzu, before, z)
    BY SameHostSums
  <1>3. BucketsInv(z)'
    BY <1>2 DEF HostAt, BucketsInv, QuietHostAt
  <1>4. UnbondingInv(z)'
    BY <1>2 DEF HostAt, UnbondingInv, QuietHostAt
  <1>5. HostAcctInv(z)'
    <2> DEFINE ha == hostAcct[z]
               haNext == hostAcct'[z]
               us == UnbondingSum(unbonding[z])
               lr == lost[z]["redemption"]
               lu == lost[z]["undelegate"]
               dp == deposits[z]
               dpNext == deposits'[z]
               ub == Unbooked(z)
               ubNext == Unbooked(z)'
               hs == HostSum(hzu, channel[z]["DELEGATION"].pkts, z)
    <2>1. ha + us + lr + ub = dp + lu + hs
      BY DEF HostAt, HostAcctInv
    <2>2. /\ ha \in Nat /\ us \in Nat /\ lr \in Nat /\ lu \in Nat /\ dp \in Nat /\ hs \in Nat
          /\ ub \in Nat
      BY <1>1 DEF HostTypeOK
    <2>3. haNext \in Nat /\ dpNext \in Nat /\ ubNext \in Nat
      BY <1>1 DEF HostTypeOK
    <2>4. /\ UnbondingSum(unbonding'[z]) = us /\ lost'[z]["redemption"] = lr
          /\ lost'[z]["undelegate"] = lu /\ haNext + ubNext + dp = ha + ub + dpNext
      BY DEF QuietHostAt
    <2>5. HostSum(hzu', channel'[z]["DELEGATION"].pkts, z) = hs
      BY <1>2
    <2> HIDE DEF ha, haNext, us, lr, lu, dp, dpNext, ub, ubNext, hs
    <2>6. haNext + us + lr + ubNext = dpNext + lu + hs
      BY <2>1, <2>2, <2>3, <2>4, QuietBalance
    <2> QED
      BY <2>4, <2>5, <2>6 DEF haNext, dpNext, ubNext, HostAcctInv
  <1> QED
    BY <1>3, <1>4, <1>5 DEF HostAt

LEMMA QuietHostStep ==
    ASSUME RecordsInv, RecordsInv', HostInv, QuietHost, SweptInv',
           \A z \in Zones, e \in Eurs : SameRecord(z, e)
    PROVE  HostInv'
  <1>1. \A z \in Zones : HostAt(z)'
    BY QuietZone DEF HostInv, QuietHost
  <1> QED
    BY <1>1 DEF HostInv

-----------------------------------------------------------------------------
(* Steps after which the same is known and the same is on the host *)

\* Two sets of packets that tell the same about each record.
SameNews(S, T) ==
    \A e \in Eurs : /\ \A kind \in Kinds : Told(S, kind, e) <=> Told(T, kind, e)
                    /\ \A t : ToldDue(S, e, t) <=> ToldDue(T, e, t)

\* A packet tells of a record only what its status still waits for.
NewsAwaited ==
    \A z \in Zones, e \in Eurs :
        LET pkts == channel[z]["DELEGATION"].pkts
        IN  /\ Told(pkts, "undelegate", e) => hzu[e][z].status = "UNBONDING_IN_PROGRESS"
            /\ Told(pkts, "redemption", e) => hzu[e][z].status = "EXIT_TRANSFER_IN_PROGRESS"
            /\ \A t : ToldDue(pkts, e, t) => hzu[e][z].status = "UNBONDING_IN_PROGRESS"

LEMMA ToldStatus ==
    RecordsInv => NewsAwaited
  <1>1. RecordsInv => \A z \in Zones : \A p \in channel[z]["DELEGATION"].pkts :
                        \A x \in p.eurs : hzu[x][z].status = Awaits(p)
    BY DEF RecordsInv, StoresInv, PacketsMatch, Matches, Accounts
  <1> QED
    BY <1>1 DEF Told, ToldDue, Awaits, NewsAwaited

LEMMA ToldStatusNext ==
    RecordsInv' => NewsAwaited'
  BY ToldStatus, PTL

\* Packets that are only sent tell nothing.
LEMMA SentNews ==
    ASSUME NEW S, NEW T, \A p \in T : p.state # "ok"
    PROVE  SameNews(S \cup T, S)
  <1>1. \A p \in S \cup T : p.state = "ok" => p \in S
    OBVIOUS
  <1> QED
    BY <1>1 DEF SameNews, Told, ToldDue

LEMMA MovedUpNews ==
    ASSUME NEW S \in SUBSET Packet
    PROVE  SameNews(MovedUp(S), S)
  <1>1. ASSUME NEW q \in S
        PROVE  LET x == [q EXCEPT !.seq = @ - 1]
               IN  x \in MovedUp(S) /\ x.kind = q.kind /\ x.state = q.state /\ x.eurs = q.eurs
                   /\ x.left = q.left
    <2>1. q \in Packet
      OBVIOUS
    <2> QED
      BY <2>1 DEF MovedUp, Packet
  <1>2. \A q \in S : \E x \in MovedUp(S) :
          x.kind = q.kind /\ x.state = q.state /\ x.eurs = q.eurs /\ x.left = q.left
    BY <1>1
  <1>3. \A x \in MovedUp(S) : \E q \in S :
          x.kind = q.kind /\ x.state = q.state /\ x.eurs = q.eurs /\ x.left = q.left
    BY <1>1 DEF MovedUp
  <1>4. \A e, kind : Told(MovedUp(S), kind, e) <=> Told(S, kind, e)
    BY <1>2, <1>3 DEF Told
  <1>5. \A e, t : ToldDue(MovedUp(S), e, t) <=> ToldDue(S, e, t)
    BY <1>2, <1>3 DEF ToldDue
  <1> QED
    BY <1>4, <1>5 DEF SameNews

\* A record of which the same is known, and that is the same or not the host's.
LEMMA KeptRecord ==
    ASSUME NEW z \in Zones, NEW e \in Eurs,
           SameNews(channel'[z]["DELEGATION"].pkts, channel[z]["DELEGATION"].pkts),
           hzu'[e][z].native = hzu[e][z].native, hzu'[e][z].status = hzu[e][z].status,
           hzu'[e][z].left = hzu[e][z].left
    PROVE  SameRecord(z, e)
  <1> DEFINE before == channel[z]["DELEGATION"].pkts
             after == channel'[z]["DELEGATION"].pkts
  <1>1. /\ Told(after, "undelegate", e) <=> Told(before, "undelegate", e)
        /\ Told(after, "redemption", e) <=> Told(before, "redemption", e)
        /\ \A t : ToldDue(after, e, t) <=> ToldDue(before, e, t)
    BY DEF SameNews, Kinds
  <1> HIDE DEF before, after
  <1>2. OnHost(hzu', after, z, e) <=> OnHost(hzu, before, z, e)
    BY <1>1 DEF OnHost
  <1>3. \A t : Due(hzu', after, z, e, t) <=> Due(hzu, before, z, e, t)
    BY <1>1 DEF Due
  <1> QED
    BY <1>2, <1>3 DEF SameRecord, before, after

\* A record that is queued for its undelegation or claimable is not the host's.
LEMMA AwayRecord ==
    ASSUME RecordsInv, RecordsInv', NEW z \in Zones, NEW e \in Eurs,
           hzu[e][z].status \in {"NONE", "UNBONDING_QUEUE", "CLAIMABLE"},
           hzu'[e][z].status \in {"NONE", "UNBONDING_QUEUE", "CLAIMABLE"}
    PROVE  SameRecord(z, e)
  <1>1. ~OnHost(hzu, channel[z]["DELEGATION"].pkts, z, e)
    BY ToldStatus DEF OnHost, NewsAwaited
  <1>2. ~OnHost(hzu', channel'[z]["DELEGATION"].pkts, z, e)
    BY ToldStatusNext DEF OnHost, NewsAwaited
  <1> QED
    BY <1>1, <1>2 DEF SameRecord

\* What a step may do whose records are the same in this sense.
LEMMA QuietAccounts ==
    ASSUME UNCHANGED <<hostAcct, deposits, unbonding, lost>>, RecordsInv,
           \A z \in Zones : OkSum(channel'[z]["DELEGATION"].pkts, "delegate")
                              = OkSum(channel[z]["DELEGATION"].pkts, "delegate")
    PROVE  QuietHost
  <1>1. \A z \in Zones : Unbooked(z)' = Unbooked(z)
    BY DEF Unbooked
  <1>2. \A z \in Zones : hostAcct[z] \in Nat /\ deposits[z] \in Nat /\ Unbooked(z) \in Nat
    BY HostTypes DEF HostTypeOK
  <1> QED
    BY <1>1, <1>2 DEF QuietHost, QuietHostAt

LEMMA RedeemStakeHost ==
    ASSUME RecordsInv, RecordsInv', HostInv, NEW z \in Zones, NEW u \in Users,
           NEW amount \in RedeemAmounts, RedeemStake(z, u, amount)
    PROVE  HostInv'
  <1>1. /\ hzu[current][z].status = "UNBONDING_QUEUE"
        /\ \A e \in Eurs, y \in Zones :
             /\ hzu'[e][y].status = hzu[e][y].status
             /\ hzu'[e][y].left = hzu[e][y].left
             /\ ~(e = current /\ y = z) => hzu'[e][y].native = hzu[e][y].native
    BY RedeemStakeRecords
  <1>2. UNCHANGED <<channel, deposits, host, ghosts>>
    BY DEF RedeemStake
  <1>3. QuietHost
    BY <1>2, QuietAccounts DEF host, ghosts
  <1>4. SweptInv'
    BY <1>1 DEF HostInv, SweptInv
  <1>5. ASSUME NEW y \in Zones, NEW e \in Eurs
        PROVE  SameRecord(y, e)
    <2>1. CASE e = current /\ y = z
      BY <1>1, <2>1, AwayRecord
    <2>2. CASE ~(e = current /\ y = z)
      <3>1. SameNews(channel'[y]["DELEGATION"].pkts, channel[y]["DELEGATION"].pkts)
        BY <1>2 DEF SameNews
      <3> QED
        BY <1>1, <2>2, <3>1, KeptRecord
    <2> QED
      BY <2>1, <2>2
  <1> QED
    BY <1>3, <1>4, <1>5, QuietHostStep

LEMMA ClaimHost ==
    ASSUME RecordsInv, RecordsInv', HostInv, NEW x \in Eurs, NEW z \in Zones, NEW u \in Users,
           ClaimUndelegatedTokens(x, z, u)
    PROVE  HostInv'
  <1>1. UNCHANGED <<hzu, deposits, host, ghosts>>
    BY DEF ClaimUndelegatedTokens, accounts
  <1>2. \A y \in Zones : channel'[y]["DELEGATION"] = channel[y]["DELEGATION"]
    BY DEF ClaimUndelegatedTokens, RecordsInv, StoresInv, StoresTypeOK, Accounts
  <1>3. QuietHost
    BY <1>1, <1>2, QuietAccounts DEF host, ghosts
  <1>4. SweptInv'
    BY <1>1 DEF HostInv, SweptInv
  <1>5. ASSUME NEW y \in Zones, NEW e \in Eurs
        PROVE  SameRecord(y, e)
    <2>1. SameNews(channel'[y]["DELEGATION"].pkts, channel[y]["DELEGATION"].pkts)
      BY <1>2 DEF SameNews
    <2> QED
      BY <1>1, <2>1, KeptRecord
  <1> QED
    BY <1>3, <1>4, <1>5, QuietHostStep

LEMMA ChanOpenAckHost ==
    ASSUME RecordsInv, RecordsInv', HostInv, NEW z \in Zones, NEW a \in Accounts, ChanOpenAck(z, a)
    PROVE  HostInv'
  <1>1. UNCHANGED <<hzu, deposits, host, ghosts>>
    BY DEF ChanOpenAck, records, accounts
  <1>2. \A y \in Zones : channel'[y]["DELEGATION"].pkts = channel[y]["DELEGATION"].pkts
    <2>1. SetState(z, a, "OPEN") /\ channel[z][a].state # "OPEN"
      BY DEF ChanOpenAck, SetState
    <2>2. StoresInv
      BY DEF RecordsInv
    <2>3. \A y \in Zones, b \in Accounts : channel'[y][b].pkts = channel[y][b].pkts
      BY <2>1, <2>2, ChannelStateEffect
    <2> QED
      BY <2>3 DEF Accounts
  <1>3. QuietHost
    BY <1>1, <1>2, QuietAccounts DEF host, ghosts
  <1>4. SweptInv'
    BY <1>1 DEF HostInv, SweptInv
  <1>5. ASSUME NEW y \in Zones, NEW e \in Eurs
        PROVE  SameRecord(y, e)
    <2>1. SameNews(channel'[y]["DELEGATION"].pkts, channel[y]["DELEGATION"].pkts)
      BY <1>2 DEF SameNews
    <2> QED
      BY <1>1, <2>1, KeptRecord
  <1> QED
    BY <1>3, <1>4, <1>5, QuietHostStep

LEMMA TimeoutOnCloseHost ==
    ASSUME RecordsInv, RecordsInv', HostInv, NEW k \in orphans, TimeoutOnClose(k)
    PROVE  HostInv'
  <1>1. UNCHANGED <<accounts, channel, host, lost>> /\ ClaimCallback(k, "timeout")
    BY DEF TimeoutOnClose
  <1>2. UNCHANGED <<hzu, deposits, hostAcct, unbonding, lost>>
    BY <1>1 DEF ClaimCallback, accounts, host
  <1>3. QuietHost
    BY <1>1, <1>2, QuietAccounts
  <1>4. SweptInv'
    BY <1>2 DEF HostInv, SweptInv
  <1>5. ASSUME NEW y \in Zones, NEW e \in Eurs
        PROVE  SameRecord(y, e)
    <2>1. SameNews(channel'[y]["DELEGATION"].pkts, channel[y]["DELEGATION"].pkts)
      BY <1>1 DEF SameNews
    <2> QED
      BY <1>2, <2>1, KeptRecord
  <1> QED
    BY <1>3, <1>4, <1>5, QuietHostStep

\* The tokens of a new deposit are in the account.
LEMMA DepositsSideHost ==
    ASSUME RecordsInv, RecordsInv', HostInv, NEW z \in Zones, DepositsSide(z)
    PROVE  HostInv'
  <1>1. UNCHANGED <<hzu, channel, unbonding, lost>>
    BY DEF DepositsSide, Reinvest, UpdateRedemptionRates, BeginBlocker, records, ghosts, host
  <1>2. deposits \in [Zones -> Nat] /\ hostAcct \in [Zones -> Nat]
    BY DEF RecordsInv, AccountsTypeOK
  <1>3. ASSUME NEW y \in Zones
        PROVE  hostAcct'[y] + Unbooked(y)' + deposits[y] = hostAcct[y] + Unbooked(y) + deposits'[y]
    <2> DEFINE ha == hostAcct[y]
               dp == deposits[y]
               ub == Unbooked(y)
    <2>1. ha \in Nat /\ dp \in Nat /\ ub \in Nat
      BY <1>2, HostTypes DEF HostTypeOK
    <2>4. Unbooked(y)' = ub
      BY <1>1 DEF Unbooked
    <2>2. \/ hostAcct'[y] = ha + 1 /\ deposits'[y] = dp + 1
          \/ hostAcct'[y] = ha /\ deposits'[y] = dp
      <3>1. CASE Reinvest(z)
        BY <1>2, <3>1 DEF Reinvest
      <3>2. CASE UpdateRedemptionRates(z)
        BY <3>2 DEF UpdateRedemptionRates, host, accounts
      <3>3. CASE BeginBlocker(z)
        BY <3>3 DEF BeginBlocker, host, accounts
      <3> QED
        BY <3>1, <3>2, <3>3 DEF DepositsSide
    <2> HIDE DEF ha, dp, ub
    <2>3. hostAcct'[y] + ub + dp = ha + ub + deposits'[y]
      BY <2>1, <2>2
    <2> QED
      BY <2>3, <2>4 DEF ha, dp, ub
  <1>4. QuietHost
    BY <1>1, <1>3 DEF QuietHost, QuietHostAt
  <1>5. SweptInv'
    BY <1>1 DEF HostInv, SweptInv
  <1>6. ASSUME NEW y \in Zones, NEW e \in Eurs
        PROVE  SameRecord(y, e)
    <2>1. SameNews(channel'[y]["DELEGATION"].pkts, channel[y]["DELEGATION"].pkts)
      BY <1>1 DEF SameNews
    <2> QED
      BY <1>1, <2>1, KeptRecord
  <1> QED
    BY <1>4, <1>5, <1>6, QuietHostStep

\* A delegation that is submitted tells nothing and moves nothing yet.
LEMMA DelegatedAmount ==
    ASSUME RecordsInv, NEW z \in Zones
    PROVE  1..deposits[z] \subseteq Nat
  <1>1. deposits[z] \in Nat
    BY DEF RecordsInv, AccountsTypeOK
  <1> QED
    BY <1>1

\* A delegation that is sent tells nothing yet.
LEMMA DelegateNews ==
    ASSUME RecordsInv, NEW z \in Zones, NEW amount \in Nat, DelegateOnHost(z, amount),
           NEW y \in Zones
    PROVE  /\ SameNews(channel'[y]["DELEGATION"].pkts, channel[y]["DELEGATION"].pkts)
           /\ OkSum(channel'[y]["DELEGATION"].pkts, "delegate")
                = OkSum(channel[y]["DELEGATION"].pkts, "delegate")
           /\ channel'[y]["REDEMPTION"].pkts = channel[y]["REDEMPTION"].pkts
  <1> DEFINE old == channel[z]["DELEGATION"].pkts
             new == DelegatePacket(amount, Cardinality(old) + 1)
             sent == {new}
  <1>1. StoresTypeOK
    BY DEF RecordsInv, StoresInv
  <1>2. /\ channel'[z]["DELEGATION"].pkts = old \cup sent
        /\ \A x \in Zones, b \in Accounts :
             ~(x = z /\ b = "DELEGATION") => channel'[x][b] = channel[x][b]
    BY <1>1, DelegateEffect
  <1>3. \A q \in sent : q.state # "ok"
    BY DEF DelegatePacket
  <1>4. channel'[y]["REDEMPTION"].pkts = channel[y]["REDEMPTION"].pkts
    BY <1>2 DEF Accounts
  <1> HIDE DEF sent
  <1>5. CASE y = z
    <2> HIDE DEF old
    <2>1. SameNews(old \cup sent, old)
      BY <1>3, SentNews
    <2>2. OkSum(old \cup sent, "delegate") = OkSum(old, "delegate")
      BY <1>3, OkSumSent
    <2> QED
      BY <1>2, <1>4, <1>5, <2>1, <2>2 DEF old
  <1>6. CASE y # z
    <2>1. channel'[y]["DELEGATION"] = channel[y]["DELEGATION"]
      BY <1>2, <1>6 DEF Accounts
    <2> QED
      BY <1>4, <2>1 DEF SameNews
  <1> QED
    BY <1>5, <1>6

LEMMA DelegateOnHostHost ==
    ASSUME RecordsInv, RecordsInv', HostInv, NEW z \in Zones, NEW amount \in Nat,
           DelegateOnHost(z, amount)
    PROVE  HostInv'
  <1>1. UNCHANGED <<hzu, deposits, host, ghosts>>
    BY DEF DelegateOnHost, records
  <1>2. ASSUME NEW y \in Zones
        PROVE  /\ SameNews(channel'[y]["DELEGATION"].pkts, channel[y]["DELEGATION"].pkts)
               /\ OkSum(channel'[y]["DELEGATION"].pkts, "delegate")
                    = OkSum(channel[y]["DELEGATION"].pkts, "delegate")
    BY DelegateNews
  <1>3. QuietHost
    BY <1>1, <1>2, QuietAccounts DEF host, ghosts
  <1>4. SweptInv'
    BY <1>1 DEF HostInv, SweptInv
  <1>5. \A y \in Zones, e \in Eurs : SameRecord(y, e)
    BY <1>1, <1>2, KeptRecord
  <1> QED
    BY <1>3, <1>4, <1>5, QuietHostStep

\* What a restored account does to a record: what was in progress waits again.
LEMMA RevertedRecord ==
    ASSUME RecordsInv, NEW z \in Zones, NEW a \in Accounts, RestoreInterchainAccount(z, a),
           NEW e \in Eurs, NEW y \in Zones
    PROVE  /\ hzu'[e][y].native = hzu[e][y].native
           /\ hzu'[e][y].left = hzu[e][y].left
           /\ \/ hzu'[e][y].status = hzu[e][y].status
              \/ /\ y = z /\ a = "DELEGATION"
                 /\ hzu[e][y].status = "UNBONDING_IN_PROGRESS"
                 /\ hzu'[e][y].status = "UNBONDING_QUEUE"
              \/ /\ y = z /\ a = "DELEGATION"
                 /\ hzu[e][y].status = "EXIT_TRANSFER_IN_PROGRESS"
                 /\ hzu'[e][y].status = "EXIT_TRANSFER_QUEUE"
  <1>0. hzu \in RecordStore
    BY DEF RecordsInv, StoresInv, StoresTypeOK, RecordStore
  <1>1. CASE a # "DELEGATION"
    BY <1>1 DEF RestoreInterchainAccount
  <1>2. CASE a = "DELEGATION"
    <2>1. hzu' = RevertedUnbondings(z)
      BY <1>2 DEF RestoreInterchainAccount
    <2> DEFINE A == WithStatus(hzu, z, {"UNBONDING_IN_PROGRESS"})
               B == WithStatus(hzu, z, {"EXIT_TRANSFER_IN_PROGRESS"})
               g == SetHostZoneUnbondings(hzu, z, A, "UNBONDING_QUEUE")
    <2>2. A \in SUBSET Eurs /\ B \in SUBSET Eurs
      BY DEF WithStatus
    <2>3. /\ e \in A <=> hzu[e][z].status = "UNBONDING_IN_PROGRESS"
          /\ e \in B <=> hzu[e][z].status = "EXIT_TRANSFER_IN_PROGRESS"
      BY DEF WithStatus
    <2>4. "UNBONDING_QUEUE" \in Statuses /\ "EXIT_TRANSFER_QUEUE" \in Statuses
      BY DEF Statuses
    <2>5. hzu' = SetHostZoneUnbondings(g, z, B, "EXIT_TRANSFER_QUEUE")
      BY <2>1 DEF RevertedUnbondings
    <2> HIDE DEF A, B
    <2>6. StatusIs(g, hzu, z, A, "UNBONDING_QUEUE")
      BY <1>0, <2>2, <2>4, SetStatusIs
    <2> HIDE DEF g
    <2>7. g \in RecordStore
      BY <2>6 DEF StatusIs
    <2>8. StatusIs(hzu', g, z, B, "EXIT_TRANSFER_QUEUE")
      BY <2>2, <2>4, <2>5, <2>7, SetStatusIs
    <2> QED
      BY <1>2, <2>3, <2>6, <2>8 DEF StatusIs
  <1> QED
    BY <1>1, <1>2

\* A restored channel had no packets; what was being swept waits for its sweep
\* again, in the same account.
LEMMA RestoreHost ==
    ASSUME RecordsInv, RecordsInv', HostInv, NEW z \in Zones, NEW a \in Accounts,
           RestoreInterchainAccount(z, a)
    PROVE  HostInv'
  <1>1. StoresInv /\ StoresTypeOK /\ hzu \in RecordStore
    BY DEF RecordsInv, StoresInv, StoresTypeOK, RecordStore
  <1>2. ASSUME NEW e \in Eurs, NEW y \in Zones
        PROVE  /\ hzu'[e][y].native = hzu[e][y].native
               /\ hzu'[e][y].left = hzu[e][y].left
               /\ \/ hzu'[e][y].status = hzu[e][y].status
                  \/ /\ y = z /\ a = "DELEGATION"
                     /\ hzu[e][y].status = "UNBONDING_IN_PROGRESS"
                     /\ hzu'[e][y].status = "UNBONDING_QUEUE"
                  \/ /\ y = z /\ a = "DELEGATION"
                     /\ hzu[e][y].status = "EXIT_TRANSFER_IN_PROGRESS"
                     /\ hzu'[e][y].status = "EXIT_TRANSFER_QUEUE"
    BY RevertedRecord
  <1>3. /\ \A y \in Zones, b \in Accounts : channel'[y][b].pkts = channel[y][b].pkts
        /\ channel[z][a].pkts = {}
    <2>1. SetState(z, a, "INIT") /\ channel[z][a].state # "OPEN"
      BY DEF RestoreInterchainAccount, SetState
    <2> QED
      BY <1>1, <2>1, ChannelStateEffect
  <1>4. \A y \in Zones : channel'[y]["DELEGATION"].pkts = channel[y]["DELEGATION"].pkts
    BY <1>3 DEF Accounts
  <1>5. UNCHANGED <<deposits, host, ghosts>>
    BY DEF RestoreInterchainAccount
  <1>6. QuietHost
    BY <1>4, <1>5, QuietAccounts DEF host, ghosts
  <1>7. SweptInv'
    BY <1>2 DEF HostInv, SweptInv
  <1>8. ASSUME NEW y \in Zones, NEW e \in Eurs
        PROVE  SameRecord(y, e)
    <2>1. CASE hzu'[e][y].status = hzu[e][y].status
      <3>1. SameNews(channel'[y]["DELEGATION"].pkts, channel[y]["DELEGATION"].pkts)
        BY <1>4 DEF SameNews
      <3> QED
        BY <1>2, <2>1, <3>1, KeptRecord
    <2>2. CASE hzu'[e][y].status # hzu[e][y].status
      <3>1. y = z /\ channel[y]["DELEGATION"].pkts = {} /\ channel'[y]["DELEGATION"].pkts = {}
        BY <1>2, <1>3, <1>4, <2>2
      <3>2. \A kind : ~Told({}, kind, e)
        BY DEF Told
      <3>3. \A t : ~ToldDue({}, e, t)
        BY DEF ToldDue
      <3>4. CASE /\ hzu[e][y].status = "UNBONDING_IN_PROGRESS"
                 /\ hzu'[e][y].status = "UNBONDING_QUEUE"
        BY <3>1, <3>2, <3>4 DEF SameRecord, OnHost
      <3>5. CASE /\ hzu[e][y].status = "EXIT_TRANSFER_IN_PROGRESS"
                 /\ hzu'[e][y].status = "EXIT_TRANSFER_QUEUE"
        <4>1. OnHost(hzu, {}, y, e) /\ OnHost(hzu', {}, y, e)
          BY <3>2, <3>5 DEF OnHost
        <4>2. hzu'[e][y].left < 0
          BY <1>2, <3>5 DEF HostInv, SweptInv
        <4>3. \A t \in Periods : ~Due(hzu', {}, y, e, t) /\ ~Due(hzu, {}, y, e, t)
          BY <3>3, <3>5, <4>2 DEF Due, Periods
        <4> QED
          BY <1>2, <3>1, <4>1, <4>3 DEF SameRecord
      <3> QED
        BY <1>2, <2>2, <3>4, <3>5
    <2> QED
      BY <2>1, <2>2
  <1> QED
    BY <1>6, <1>7, <1>8, QuietHostStep

\* The day epoch sweeps only what has unbonded, and tells the host nothing yet.
LEMMA DayEpochHost ==
    ASSUME RecordsInv, RecordsInv', HostInv, NEW lag \in 0..MaxLag, DayEpoch(lag)
    PROVE  HostInv'
  <1> DEFINE d == (day + 1) % DayCycle
  <1>1. StoresInv /\ StoresTypeOK /\ hzu \in RecordStore
    BY DEF RecordsInv, StoresInv, StoresTypeOK, RecordStore
  <1>2. /\ \A e \in Eurs, z \in Zones :
             /\ hzu'[e][z].native = hzu[e][z].native
             /\ \/ /\ hzu[e][z].native = 0
                   /\ hzu'[e][z].status \in {"NONE", "UNBONDING_QUEUE"}
                \/ /\ hzu'[e][z].left = hzu[e][z].left
                   /\ hzu'[e][z].status = Submitted(d, lag)[e][z].status
        /\ \A z \in Zones : channel'[z]["DELEGATION"].pkts =
             channel[z]["DELEGATION"].pkts \cup SubmittedPackets(z, d, lag)
    BY <1>1, DayRecords
  <1> HIDE DEF d
  <1>3. ASSUME NEW z \in Zones
        PROVE  SameNews(channel'[z]["DELEGATION"].pkts, channel[z]["DELEGATION"].pkts)
    <2>1. \A x \in SubmittedPackets(z, d, lag) : x.state = "sent"
      BY <1>1, SubmittedPacket
    <2>2. \A x \in SubmittedPackets(z, d, lag) : x.state # "ok"
      BY <2>1
    <2> QED
      BY <1>2, <2>2, SentNews
  <1>4. ASSUME NEW e \in Eurs, NEW z \in Zones
        PROVE  \/ hzu[e][z].native = 0 /\ hzu'[e][z].status \in {"NONE", "UNBONDING_QUEUE"}
               \/ hzu'[e][z].left = hzu[e][z].left /\ hzu'[e][z].status = hzu[e][z].status
               \/ /\ hzu'[e][z].left = hzu[e][z].left
                  /\ hzu[e][z].status = "UNBONDING_QUEUE"
                  /\ hzu'[e][z].status = "UNBONDING_IN_PROGRESS"
               \/ /\ hzu'[e][z].left = hzu[e][z].left /\ hzu[e][z].left < 0
                  /\ hzu[e][z].status = "EXIT_TRANSFER_QUEUE"
                  /\ hzu'[e][z].status = "EXIT_TRANSFER_IN_PROGRESS"
    <2> DEFINE r == Submitted(d, lag)[e][z]
    <2>1. /\ e \in UnbondingDue(z, d) => r.status = "UNBONDING_IN_PROGRESS"
          /\ e \in SweepDue(z, lag) => r.status = "EXIT_TRANSFER_IN_PROGRESS"
          /\ ~(e \in UnbondingDue(z, d) \/ e \in SweepDue(z, lag)) => r.status = hzu[e][z].status
      BY <1>1, SubmittedRecords
    <2>2. /\ e \in UnbondingDue(z, d) => hzu[e][z].status = "UNBONDING_QUEUE"
          /\ e \in SweepDue(z, lag) => hzu[e][z].status = "EXIT_TRANSFER_QUEUE"
      BY DueRecords
    <2>3. e \in SweepDue(z, lag) => hzu[e][z].left < 0
      <3>1. e \in SweepDue(z, lag) => hzu[e][z].left + lag < 0
        BY DEF SweepDue
      <3>2. hzu[e][z].left \in Times /\ MaxLag \in Nat /\ UnbondingPeriod \in Nat
        BY <1>1, UnbondingRecordsAssumption DEF RecordStore, HostZoneUnbonding
      <3>3. hzu[e][z].left \in Int /\ lag \in Nat
        BY <3>2 DEF Times
      <3> QED
        BY <3>1, <3>3
    <2> HIDE DEF r
    <2> QED
      BY <1>2, <2>1, <2>2, <2>3 DEF r
  <1>5. UNCHANGED <<deposits, host, ghosts>>
    BY DEF DayEpoch, accounts, ghosts
  <1>6. QuietHost
    <2>1. ASSUME NEW z \in Zones
          PROVE  OkSum(channel'[z]["DELEGATION"].pkts, "delegate")
                   = OkSum(channel[z]["DELEGATION"].pkts, "delegate")
      <3> DEFINE S == channel[z]["DELEGATION"].pkts
                 new == SubmittedPackets(z, d, lag)
      <3>1. \A x \in new : x.state = "sent"
        BY <1>1, SubmittedPacket
      <3>2. \A x \in new : x.state # "ok"
        BY <3>1
      <3>3. channel'[z]["DELEGATION"].pkts = S \cup new
        BY <1>2
      <3> HIDE DEF S, new
      <3>4. OkSum(S \cup new, "delegate") = OkSum(S, "delegate")
        BY <3>2, OkSumSent
      <3> QED
        BY <3>3, <3>4 DEF S
    <2> QED
      BY <1>5, <2>1, QuietAccounts DEF host, ghosts
  <1>7. SweptInv'
    <2> SUFFICES ASSUME NEW e \in Eurs, NEW z \in Zones,
                        hzu'[e][z].status = "EXIT_TRANSFER_IN_PROGRESS"
                 PROVE  hzu'[e][z].left < 0
      BY DEF SweptInv
    <2> QED
      BY <1>4 DEF HostInv, SweptInv
  <1>8. ASSUME NEW z \in Zones, NEW e \in Eurs
        PROVE  SameRecord(z, e)
    <2> DEFINE before == channel[z]["DELEGATION"].pkts
               after == channel'[z]["DELEGATION"].pkts
    <2>1. hzu'[e][z].native = hzu[e][z].native
      BY <1>2
    <2>2. /\ Told(before, "undelegate", e) => hzu[e][z].status = "UNBONDING_IN_PROGRESS"
          /\ Told(before, "redemption", e) => hzu[e][z].status = "EXIT_TRANSFER_IN_PROGRESS"
          /\ \A t : ToldDue(before, e, t) => hzu[e][z].status = "UNBONDING_IN_PROGRESS"
      BY ToldStatus DEF NewsAwaited
    <2>3. /\ Told(after, "undelegate", e) <=> Told(before, "undelegate", e)
          /\ Told(after, "redemption", e) <=> Told(before, "redemption", e)
          /\ \A t : ToldDue(after, e, t) <=> ToldDue(before, e, t)
      BY <1>3 DEF SameNews, Kinds
    <2> HIDE DEF before, after
    <2>4. CASE hzu[e][z].native = 0
      BY <2>1, <2>4 DEF SameRecord
    <2>5. CASE hzu'[e][z].left = hzu[e][z].left /\ hzu'[e][z].status = hzu[e][z].status
      BY <1>3, <2>1, <2>5, KeptRecord
    <2>6. CASE hzu[e][z].status = "UNBONDING_QUEUE" /\ hzu'[e][z].status = "UNBONDING_IN_PROGRESS"
      <3>1. ~OnHost(hzu, before, z, e) /\ ~OnHost(hzu', after, z, e)
        BY <2>2, <2>3, <2>6 DEF OnHost
      <3> QED
        BY <3>1 DEF SameRecord, before, after
    <2>7. CASE /\ hzu'[e][z].left = hzu[e][z].left /\ hzu[e][z].left < 0
               /\ hzu[e][z].status = "EXIT_TRANSFER_QUEUE"
               /\ hzu'[e][z].status = "EXIT_TRANSFER_IN_PROGRESS"
      <3>1. OnHost(hzu, before, z, e) /\ OnHost(hzu', after, z, e)
        BY <2>2, <2>3, <2>7 DEF OnHost
      <3>2. \A t \in Periods : ~(hzu[e][z].left = t)
        BY <2>7 DEF Periods
      <3>3. \A t \in Periods : ~Due(hzu, before, z, e, t) /\ ~Due(hzu', after, z, e, t)
        BY <2>2, <2>3, <2>7, <3>2 DEF Due
      <3> QED
        BY <2>1, <3>1, <3>3 DEF SameRecord, before, after
    <2> QED
      BY <1>4, <2>4, <2>5, <2>6, <2>7
  <1> QED
    BY <1>6, <1>7, <1>8, QuietHostStep

\* The time an acknowledgement leaves in the records.
LEMMA AckLeft ==
    ASSUME StoresInv, NEW z \in Zones, NEW a \in Accounts, NEW p \in channel[z][a].pkts,
           AckICA(z, a, p), p.kind \in {"undelegate", "redemption"},
           NEW e \in Eurs, NEW y \in Zones
    PROVE  hzu'[e][y].left = IF p.kind = "undelegate" /\ p.state = "ok" /\ e \in p.eurs /\ y = z
                             THEN p.left ELSE hzu[e][y].left
  <1>1. StoresTypeOK
    BY DEF StoresInv
  <1>2. p \in Packet /\ p.eurs \in SUBSET Eurs /\ p.kind \in {"undelegate", "redemption"}
    BY <1>1 DEF StoresTypeOK, Channel, Packet, Kinds
  <1>3. hzu \in RecordStore
    BY <1>1 DEF StoresTypeOK, RecordStore
  <1>4. AckStatus(p) \in Statuses
    BY DEF AckStatus, Statuses
  <1>5. CASE p.kind = "redemption" \/ p.state # "ok"
    <2>1. hzu' = SetHostZoneUnbondings(hzu, z, p.eurs, AckStatus(p))
      BY <1>2, <1>5 DEF AckICA, RedemptionCallback, UndelegateCallback, AckStatus
    <2>2. StatusIs(SetHostZoneUnbondings(hzu, z, p.eurs, AckStatus(p)), hzu, z, p.eurs, AckStatus(p))
      BY <1>2, <1>3, <1>4, SetStatusIs
    <2>3. StatusIs(hzu', hzu, z, p.eurs, AckStatus(p))
      BY <2>1, <2>2
    <2> QED
      BY <1>5, <2>3 DEF StatusIs
  <1>6. CASE p.kind = "undelegate" /\ p.state = "ok"
    <2> DEFINE g == [f \in Eurs |-> [x \in Zones |->
                      IF f \in p.eurs /\ x = z THEN [hzu[f][x] EXCEPT !.left = p.left]
                      ELSE hzu[f][x]]]
    <2>1. hzu' = SetHostZoneUnbondings(g, z, p.eurs, AckStatus(p))
      BY <1>6 DEF AckICA, UndelegateCallback, AckStatus
    <2>2. ASSUME NEW f \in Eurs, NEW x \in Zones
          PROVE  /\ g[f][x] \in HostZoneUnbonding
                 /\ g[f][x].left = IF f \in p.eurs /\ x = z THEN p.left ELSE hzu[f][x].left
      <3>1. hzu[f][x] \in HostZoneUnbonding /\ p.left \in Times
        BY <1>2, <1>3 DEF RecordStore, Packet
      <3>2. g[f][x] = IF f \in p.eurs /\ x = z THEN [hzu[f][x] EXCEPT !.left = p.left]
                      ELSE hzu[f][x]
        OBVIOUS
      <3> HIDE DEF g
      <3> QED
        BY <3>1, <3>2 DEF HostZoneUnbonding
    <2>3. g \in RecordStore
      <3>1. g = [f \in Eurs |-> [x \in Zones |-> g[f][x]]]
        OBVIOUS
      <3> HIDE DEF g
      <3> QED
        BY <2>2, <3>1 DEF RecordStore
    <2> HIDE DEF g
    <2>4. hzu'[e][y].left = g[e][y].left
      BY <1>2, <1>4, <2>1, <2>3, SetStatus
    <2> QED
      BY <1>6, <2>2, <2>4
  <1> QED
    BY <1>2, <1>5, <1>6

\* Taking a packet of separate ones away takes the news of its records away,
\* and no other.
LEMMA NewsRemoved ==
    ASSUME NEW S, Separate(S), NEW p \in S, p.kind # "claim", NEW e
    PROVE  /\ e \in p.eurs => /\ \A kind : ~Told(S \ {p}, kind, e)
                              /\ \A t : ~ToldDue(S \ {p}, e, t)
           /\ e \notin p.eurs => /\ \A kind : Told(S \ {p}, kind, e) <=> Told(S, kind, e)
                                 /\ \A t : ToldDue(S \ {p}, e, t) <=> ToldDue(S, e, t)
  <1>1. \A q \in S \ {p} : ~(e \in p.eurs /\ e \in q.eurs)
    BY DEF Separate
  <1>2. ASSUME e \in p.eurs
        PROVE  /\ \A kind : ~Told(S \ {p}, kind, e)
               /\ \A t : ~ToldDue(S \ {p}, e, t)
    BY <1>1, <1>2 DEF Told, ToldDue
  <1>3. ASSUME e \notin p.eurs
        PROVE  /\ \A kind : Told(S \ {p}, kind, e) <=> Told(S, kind, e)
               /\ \A t : ToldDue(S \ {p}, e, t) <=> ToldDue(S, e, t)
    BY <1>3 DEF Told, ToldDue
  <1> QED
    BY <1>2, <1>3

\* What is known of a record for which there is one packet.
LEMMA NewsOf ==
    ASSUME NEW S, Separate(S), NEW p \in S, p.kind # "claim", NEW e \in p.eurs
    PROVE  /\ \A kind : Told(S, kind, e) <=> p.kind = kind /\ p.state = "ok"
           /\ \A t : ToldDue(S, e, t) <=> p.kind = "undelegate" /\ p.state = "ok" /\ p.left = t
  <1>1. \A q \in S : e \in q.eurs => q = p
    BY DEF Separate
  <1>2. \A kind : Told(S, kind, e) <=> p.kind = kind /\ p.state = "ok"
    BY <1>1 DEF Told
  <1>3. \A t : ToldDue(S, e, t) <=> p.kind = "undelegate" /\ p.state = "ok" /\ p.left = t
    BY <1>1 DEF ToldDue
  <1> QED
    BY <1>2, <1>3

\* What is known of the delegations under way after an acknowledgement.
LEMMA AckOkSum ==
    ASSUME RecordsInv, RecordsInv', NEW z \in Zones, NEW a \in Accounts,
           NEW p \in channel[z][a].pkts, AckICA(z, a, p), NEW y \in Zones
    PROVE  /\ OkSum(channel[y]["DELEGATION"].pkts, "delegate")
                = OkSum(channel'[y]["DELEGATION"].pkts, "delegate")
                    + IF y = z /\ a = "DELEGATION" THEN Counts(p, "delegate") ELSE 0
           /\ OkSum(channel'[y]["DELEGATION"].pkts, "delegate") \in Nat
  <1>1. "DELEGATION" \in Accounts /\ "delegate" \in Kinds
    BY DEF Accounts, Kinds
  <1>2. OkSum(channel'[y]["DELEGATION"].pkts, "delegate") \in Nat
    <2>1. channel'[y]["DELEGATION"].pkts \in SUBSET Packet /\ IsFiniteSet(channel'[y]["DELEGATION"].pkts)
      BY <1>1 DEF RecordsInv, StoresInv, StoresTypeOK, Channel
    <2> QED
      BY <2>1, OkSumNat
  <1>3. CASE y = z /\ a = "DELEGATION"
    BY <1>1, <1>2, <1>3, AckPackets
  <1>4. CASE ~(y = z /\ a = "DELEGATION")
    <2>1. OkSum(channel'[y]["DELEGATION"].pkts, "delegate")
            = OkSum(channel[y]["DELEGATION"].pkts, "delegate")
      BY <1>1, <1>4, AckPackets
    <2> QED
      BY <1>2, <1>4, <2>1
  <1> QED
    BY <1>2, <1>3, <1>4

LEMMA AckDelegationHost ==
    ASSUME RecordsInv, RecordsInv', HostInv, NEW z \in Zones, NEW a \in Accounts,
           NEW p \in channel[z][a].pkts, AckICA(z, a, p), p.kind # "claim", p.kind # "delegate"
    PROVE  HostInv'
  <1>1. StoresInv /\ StoresTypeOK /\ PacketsMatch
    BY DEF RecordsInv, StoresInv
  <1>6. p.kind \in {"undelegate", "redemption"}
    BY <1>1 DEF StoresTypeOK, Channel, Packet, Kinds
  <1>2. a = "DELEGATION" /\ "DELEGATION" \in Accounts
    BY <1>1, AckStatuses DEF Accounts
  <1>3. /\ p \in Packet
        /\ channel'[z][a].pkts = MovedUp(channel[z][a].pkts \ {p})
        /\ \A y \in Zones, b \in Accounts : ~(y = z /\ b = a) => channel'[y][b] = channel[y][b]
    <2>1. StoresInv
      BY DEF RecordsInv
    <2> QED
      BY <2>1, AckChannel
  <1>4. \A e \in Eurs, y \in Zones :
          /\ hzu'[e][y].native = hzu[e][y].native
          /\ hzu'[e][y].status = IF e \in p.eurs /\ y = z THEN AckStatus(p) ELSE hzu[e][y].status
    BY <1>1, <1>6, AckOutcome
  <1>5. \A e \in Eurs, y \in Zones :
          hzu'[e][y].left = IF p.kind = "undelegate" /\ p.state = "ok" /\ e \in p.eurs /\ y = z
                            THEN p.left ELSE hzu[e][y].left
    BY <1>1, <1>6, AckLeft
  <1>7. \A e \in p.eurs : hzu[e][z].status = Awaits(p)
    BY <1>1 DEF PacketsMatch, Matches
  <1>8. UNCHANGED <<hostAcct, deposits, unbonding, lost>>
    BY DEF AckICA, host
  <1>9. QuietHost
    <2>1. Counts(p, "delegate") = 0
      BY <1>6 DEF Counts
    <2>2. \A y \in Zones : OkSum(channel'[y]["DELEGATION"].pkts, "delegate")
                             = OkSum(channel[y]["DELEGATION"].pkts, "delegate")
      BY <1>2, <2>1, AckOkSum
    <2> QED
      BY <1>8, <2>2, QuietAccounts
  <1>10. SweptInv'
    <2> SUFFICES ASSUME NEW e \in Eurs, NEW y \in Zones,
                        hzu'[e][y].status = "EXIT_TRANSFER_IN_PROGRESS"
                 PROVE  hzu'[e][y].left < 0
      BY DEF SweptInv
    <2>1. ~(e \in p.eurs /\ y = z)
      BY <1>4 DEF AckStatus
    <2> QED
      BY <1>4, <1>5, <2>1 DEF HostInv, SweptInv
  <1>11. ASSUME NEW y \in Zones, NEW e \in Eurs
         PROVE  SameRecord(y, e)
    <2>1. CASE y # z
      <3>1. SameNews(channel'[y]["DELEGATION"].pkts, channel[y]["DELEGATION"].pkts)
        BY <1>2, <1>3, <2>1 DEF SameNews
      <3> QED
        BY <1>4, <1>5, <2>1, <3>1, KeptRecord
    <2>2. CASE y = z
      <3> DEFINE S == channel[z]["DELEGATION"].pkts
                 T == channel'[z]["DELEGATION"].pkts
      <3>1. Separate(S) /\ p \in S /\ S \in SUBSET Packet
        BY <1>1, <1>2 DEF PacketsMatch, StoresTypeOK, Channel
      <3>2. SameNews(T, S \ {p})
        BY <1>2, <1>3, <3>1, MovedUpNews
      <3>3. /\ Told(T, "undelegate", e) <=> Told(S \ {p}, "undelegate", e)
            /\ Told(T, "redemption", e) <=> Told(S \ {p}, "redemption", e)
            /\ \A t : ToldDue(T, e, t) <=> ToldDue(S \ {p}, e, t)
        BY <3>2 DEF SameNews, Kinds
      <3>4. CASE e \notin p.eurs
        <4>1. /\ Told(T, "undelegate", e) <=> Told(S, "undelegate", e)
              /\ Told(T, "redemption", e) <=> Told(S, "redemption", e)
              /\ \A t : ToldDue(T, e, t) <=> ToldDue(S, e, t)
          BY <1>6, <3>1, <3>3, <3>4, NewsRemoved
        <4>2. /\ hzu'[e][z].native = hzu[e][z].native /\ hzu'[e][z].status = hzu[e][z].status
              /\ hzu'[e][z].left = hzu[e][z].left
          BY <1>4, <1>5, <3>4
        <4> HIDE DEF S, T
        <4>3. OnHost(hzu', T, z, e) <=> OnHost(hzu, S, z, e)
          BY <4>1, <4>2 DEF OnHost
        <4>4. \A t : Due(hzu', T, z, e, t) <=> Due(hzu, S, z, e, t)
          BY <4>1, <4>2 DEF Due
        <4> QED
          BY <2>2, <4>2, <4>3, <4>4 DEF SameRecord, S, T
      <3>5. CASE e \in p.eurs
        <4>1. /\ ~Told(T, "undelegate", e) /\ ~Told(T, "redemption", e)
              /\ \A t : ~ToldDue(T, e, t)
          BY <1>6, <3>1, <3>3, <3>5, NewsRemoved
        <4>2. /\ \A kind : Told(S, kind, e) <=> p.kind = kind /\ p.state = "ok"
              /\ \A t : ToldDue(S, e, t) <=> p.kind = "undelegate" /\ p.state = "ok" /\ p.left = t
          BY <1>6, <3>1, <3>5, NewsOf
        <4>3. /\ hzu'[e][z].native = hzu[e][z].native /\ hzu'[e][z].status = AckStatus(p)
              /\ hzu[e][z].status = Awaits(p)
          BY <1>4, <1>7, <3>5
        <4>4. hzu'[e][z].left = IF p.kind = "undelegate" /\ p.state = "ok"
                                THEN p.left ELSE hzu[e][z].left
          BY <1>5, <3>5
        <4> HIDE DEF S, T
        <4>5. CASE p.kind = "undelegate" /\ p.state = "ok"
          <5>1. /\ hzu'[e][z].status = "EXIT_TRANSFER_QUEUE"
                /\ hzu[e][z].status = "UNBONDING_IN_PROGRESS"
            BY <4>3, <4>5 DEF AckStatus, Awaits
          <5>2. OnHost(hzu', T, z, e) /\ OnHost(hzu, S, z, e)
            BY <4>2, <4>5, <5>1 DEF OnHost
          <5>3. \A t : Due(hzu', T, z, e, t) <=> Due(hzu, S, z, e, t)
            BY <4>1, <4>2, <4>4, <4>5, <5>1 DEF Due
          <5> QED
            BY <2>2, <4>3, <5>2, <5>3 DEF SameRecord, S, T
        <4>6. CASE p.kind = "undelegate" /\ p.state # "ok"
          <5>1. /\ hzu'[e][z].status = "UNBONDING_QUEUE"
                /\ hzu[e][z].status = "UNBONDING_IN_PROGRESS"
            BY <4>3, <4>6 DEF AckStatus, Awaits
          <5>2. ~OnHost(hzu', T, z, e) /\ ~OnHost(hzu, S, z, e)
            BY <4>1, <4>2, <4>6, <5>1 DEF OnHost
          <5> QED
            BY <2>2, <5>2 DEF SameRecord, S, T
        <4>7. CASE p.kind = "redemption" /\ p.state = "ok"
          <5>1. /\ hzu'[e][z].status = "CLAIMABLE"
                /\ hzu[e][z].status = "EXIT_TRANSFER_IN_PROGRESS"
            BY <4>3, <4>7 DEF AckStatus, Awaits
          <5>2. ~OnHost(hzu', T, z, e) /\ ~OnHost(hzu, S, z, e)
            BY <4>1, <4>2, <4>7, <5>1 DEF OnHost
          <5> QED
            BY <2>2, <5>2 DEF SameRecord, S, T
        <4>8. CASE p.kind = "redemption" /\ p.state # "ok"
          <5>1. /\ hzu'[e][z].status = "EXIT_TRANSFER_QUEUE"
                /\ hzu[e][z].status = "EXIT_TRANSFER_IN_PROGRESS"
            BY <4>3, <4>8 DEF AckStatus, Awaits
          <5>2. OnHost(hzu', T, z, e) /\ OnHost(hzu, S, z, e)
            BY <4>2, <4>8, <5>1 DEF OnHost
          <5>3. hzu'[e][z].left = hzu[e][z].left /\ hzu[e][z].left < 0
            BY <4>4, <4>8, <5>1 DEF HostInv, SweptInv
          <5>4. \A t \in Periods : ~(hzu'[e][z].left = t)
            BY <5>3 DEF Periods
          <5>5. \A t \in Periods : ~Due(hzu', T, z, e, t) /\ ~Due(hzu, S, z, e, t)
            BY <4>1, <4>2, <4>8, <5>1, <5>4 DEF Due
          <5> QED
            BY <2>2, <4>3, <5>2, <5>5 DEF SameRecord, S, T
        <4> QED
          BY <1>6, <4>5, <4>6, <4>7, <4>8
      <3> QED
        BY <3>4, <3>5
    <2> QED
      BY <2>1, <2>2
  <1> QED
    BY <1>9, <1>10, <1>11, QuietHostStep

\* The acknowledgement of a delegation tells nothing of the records.
LEMMA AckDelegateNews ==
    ASSUME RecordsInv, NEW z \in Zones, NEW a \in Accounts,
           NEW p \in channel[z][a].pkts, AckICA(z, a, p), p.kind = "delegate", NEW y \in Zones
    PROVE  SameNews(channel'[y]["DELEGATION"].pkts, channel[y]["DELEGATION"].pkts)
  <1>1. StoresInv /\ StoresTypeOK /\ PacketsWellFormed
    BY DEF RecordsInv, StoresInv
  <1>2. a = "DELEGATION"
    BY DelegationCovered
  <1>3. /\ channel'[z][a].pkts = MovedUp(channel[z][a].pkts \ {p})
        /\ \A x \in Zones, b \in Accounts : ~(x = z /\ b = a) => channel'[x][b] = channel[x][b]
    BY <1>1, AckChannel
  <1>4. CASE y # z
    BY <1>2, <1>3, <1>4 DEF SameNews, Accounts
  <1>5. CASE y = z
    <2> DEFINE S == channel[z]["DELEGATION"].pkts
               T == S \ {p}
    <2>1. S \in SUBSET Packet /\ p \in S /\ p.eurs = {}
      BY <1>1, <1>2 DEF StoresTypeOK, Channel, PacketsWellFormed, DelegationShape
    <2>2. channel'[z]["DELEGATION"].pkts = MovedUp(T) /\ T \in SUBSET Packet
      BY <1>2, <1>3, <2>1
    <2>3. SameNews(T, S)
      <3>1. \A q \in S : q.eurs # {} => q \in T
        BY <2>1
      <3> QED
        BY <3>1 DEF SameNews, Told, ToldDue
    <2> HIDE DEF T
    <2>4. SameNews(MovedUp(T), T)
      BY <2>2, MovedUpNews
    <2>5. SameNews(MovedUp(T), S)
      BY <2>3, <2>4 DEF SameNews
    <2> QED
      BY <1>5, <2>2, <2>5
  <1> QED
    BY <1>4, <1>5

\* An acknowledged delegation is booked: its deposit goes, and with it what the
\* host had delegated without the news.
LEMMA AckDelegateHost ==
    ASSUME RecordsInv, RecordsInv', HostInv, NEW z \in Zones, NEW a \in Accounts,
           NEW p \in channel[z][a].pkts, AckICA(z, a, p), p.kind = "delegate"
    PROVE  HostInv'
  <1> DEFINE told == Counts(p, "delegate")
  <1>1. StoresInv /\ StoresTypeOK /\ PacketsMatch /\ PacketsWellFormed /\ AccountsTypeOK /\ HostTypeOK'
    BY HostTypesNext DEF RecordsInv, StoresInv
  <1>2. /\ a = "DELEGATION" /\ p.amount \in Nat
        /\ p.amount <= staking[z] /\ staking[z] <= deposits[z]
    BY DelegationCovered
  <1>3. /\ channel'[z][a].pkts = MovedUp(channel[z][a].pkts \ {p})
        /\ \A y \in Zones, b \in Accounts : ~(y = z /\ b = a) => channel'[y][b] = channel[y][b]
    BY <1>1, AckChannel
  <1>4. UNCHANGED <<hzu, hostAcct, unbonding, lost>>
    BY DEF AckICA, host
  <1>5. told = (IF p.state = "ok" THEN p.amount ELSE 0) /\ told \in Nat /\ told <= deposits[z]
    <2>1. told = IF p.state = "ok" THEN p.amount ELSE 0
      BY DEF Counts
    <2>2. deposits[z] \in Nat /\ staking[z] \in Nat
      BY <1>1 DEF AccountsTypeOK
    <2> QED
      BY <1>2, <2>1, <2>2
  <1>6. deposits' = [deposits EXCEPT ![z] = @ - told]
    BY <1>5 DEF AckICA, DelegateCallback
  <1> HIDE DEF told
  <1>7. ASSUME NEW y \in Zones
        PROVE  hostAcct'[y] + Unbooked(y)' + deposits[y] = hostAcct[y] + Unbooked(y) + deposits'[y]
    <2> DEFINE ha == hostAcct[y]
               dp == deposits[y]
               dpNext == deposits'[y]
               ld == lost[y]["delegate"]
               od == OkSum(channel[y]["DELEGATION"].pkts, "delegate")
               odNext == OkSum(channel'[y]["DELEGATION"].pkts, "delegate")
               n == IF y = z THEN told ELSE 0
    <2>1. od = odNext + n
      BY <1>2, AckOkSum DEF told
    <2>2. dpNext = dp - n
      BY <1>1, <1>6 DEF AccountsTypeOK
    <2>3. /\ Unbooked(y) = ld + od /\ Unbooked(y)' = ld + odNext
          /\ hostAcct'[y] = ha
      BY <1>4 DEF Unbooked
    <2>4. ha \in Nat /\ dp \in Nat /\ ld \in Nat
      BY <1>1 DEF AccountsTypeOK, Kinds
    <2>5. odNext \in Nat /\ n \in Nat
      BY <1>5, AckOkSum
    <2> HIDE DEF ha, dp, dpNext, ld, od, odNext, n
    <2>6. ha + (ld + odNext) + dp = ha + (ld + od) + dpNext
      BY <2>1, <2>2, <2>4, <2>5
    <2> QED
      BY <2>3, <2>6 DEF ha, dp, dpNext
  <1>8. QuietHost
    BY <1>4, <1>7 DEF QuietHost, QuietHostAt
  <1>9. SweptInv'
    BY <1>4 DEF HostInv, SweptInv
  <1>10. \A y \in Zones : SameNews(channel'[y]["DELEGATION"].pkts, channel[y]["DELEGATION"].pkts)
    BY AckDelegateNews
  <1>11. \A y \in Zones, e \in Eurs : SameRecord(y, e)
    BY <1>4, <1>10, KeptRecord
  <1> QED
    BY <1>8, <1>9, <1>11, QuietHostStep

LEMMA AckClaimHost ==
    ASSUME RecordsInv, RecordsInv', HostInv, NEW z \in Zones, NEW a \in Accounts,
           NEW p \in channel[z][a].pkts, AckICA(z, a, p), p.kind = "claim"
    PROVE  HostInv'
  <1>1. StoresInv /\ StoresTypeOK /\ RecordsWellFormed
    BY DEF RecordsInv, StoresInv
  <1>2. PICK k \in Keys(z, p) : ClaimCallback(k, p.state)
    BY DEF AckICA
  <1>3. /\ a = "REDEMPTION" /\ k \in Key /\ k.zone = z
        /\ p.eurs = {k.eur} /\ p.users = {k.user}
        /\ urr[k.eur][z][k.user].pending
    BY <1>1, ClaimKey
  <1>4. k.eur \in Eurs /\ k.user \in Users
    BY <1>3 DEF Key
  <1>5. hzu[k.eur][z].status = "CLAIMABLE"
    BY <1>1, <1>3, <1>4 DEF RecordsWellFormed
  <1>6. \A e \in Eurs, y \in Zones :
          /\ hzu'[e][y].status = hzu[e][y].status
          /\ hzu'[e][y].left = hzu[e][y].left
          /\ ~(e = k.eur /\ y = k.zone) => hzu'[e][y].native = hzu[e][y].native
    BY <1>1, <1>2, <1>3, ClaimCallbackEffect
  <1>7. \A y \in Zones : channel'[y]["DELEGATION"] = channel[y]["DELEGATION"]
    <2>1. \A y \in Zones, b \in Accounts : ~(y = z /\ b = a) => channel'[y][b] = channel[y][b]
      BY <1>1, AckChannel
    <2> QED
      BY <1>3, <2>1 DEF Accounts
  <1>8. UNCHANGED <<hostAcct, deposits, unbonding, lost>>
    BY DEF AckICA, host
  <1>9. QuietHost
    BY <1>7, <1>8, QuietAccounts
  <1>10. SweptInv'
    BY <1>6 DEF HostInv, SweptInv
  <1>11. ASSUME NEW y \in Zones, NEW e \in Eurs
         PROVE  SameRecord(y, e)
    <2>1. CASE e = k.eur /\ y = k.zone
      <3>1. hzu[e][y].status = "CLAIMABLE" /\ hzu'[e][y].status = "CLAIMABLE"
        BY <1>3, <1>5, <1>6, <2>1
      <3> QED
        BY <3>1, AwayRecord
    <2>2. CASE ~(e = k.eur /\ y = k.zone)
      <3>1. SameNews(channel'[y]["DELEGATION"].pkts, channel[y]["DELEGATION"].pkts)
        BY <1>7 DEF SameNews
      <3> QED
        BY <1>6, <2>2, <3>1, KeptRecord
    <2> QED
      BY <2>1, <2>2
  <1> QED
    BY <1>9, <1>10, <1>11, QuietHostStep

-----------------------------------------------------------------------------
(* Steps that move tokens on the host *)

\* The amounts of a packet's records, and their sum.
NativePart(h, z) == [e \in Eurs |-> h[e][z].native]

LEMMA NativeIsSum ==
    ASSUME NEW h \in RecordStore, NEW z \in Zones, NEW S \in SUBSET Eurs
    PROVE  /\ IsFiniteSet(S) /\ \A e \in Eurs : NativePart(h, z)[e] \in Nat
           /\ NativeAmount(h, z, S) = SumFunctionOnSet(NativePart(h, z), S)
  <1> DEFINE f == [e \in S |-> h[e][z].native]
  <1>1. IsFiniteSet(S)
    BY FS_Subset, UnbondingRecordsAssumption
  <1>2. DOMAIN f = S /\ \A e \in S : f[e] = NativePart(h, z)[e]
    BY DEF NativePart
  <1>3. NativeAmount(h, z, S) = SumFunctionOnSet(f, DOMAIN f)
    BY Zenon DEF NativeAmount, SumFunction
  <1> HIDE DEF f
  <1>4. SumFunctionOnSet(f, S) = SumFunctionOnSet(NativePart(h, z), S)
    BY <1>1, <1>2, SumSame
  <1>5. \A e \in Eurs : NativePart(h, z)[e] \in Nat
    BY DEF NativePart, RecordStore, HostZoneUnbonding
  <1> QED
    BY <1>1, <1>2, <1>3, <1>4, <1>5

\* What a packet is for and what it moves.
LEMMA PacketRecords ==
    ASSUME RecordsInv, NEW z \in Zones, NEW p \in channel[z]["DELEGATION"].pkts
    PROVE  /\ p \in Packet /\ p.eurs \in SUBSET Eurs
           /\ p.kind \in {"undelegate", "redemption", "delegate"}
           /\ p.kind = "delegate" => p.eurs = {}
           /\ p.kind # "delegate" => p.amount = NativeAmount(hzu, z, p.eurs)
           /\ \A e \in p.eurs : hzu[e][z].status = Awaits(p)
  <1>1. StoresTypeOK /\ PacketsWellFormed /\ PacketsMatch /\ "DELEGATION" \in Accounts
    BY DEF RecordsInv, StoresInv, Accounts
  <1>2. p \in Packet /\ p.eurs \in SUBSET Eurs
    BY <1>1 DEF StoresTypeOK, Channel, Packet
  <1>3. /\ p.kind \in {"undelegate", "redemption", "delegate"}
        /\ p.kind = "delegate" => p.eurs = {}
    BY <1>1 DEF PacketsWellFormed, DelegationShape
  <1>4. Matches(hzu, urr, z, p)
    BY <1>1 DEF PacketsMatch
  <1> QED
    BY <1>2, <1>3, <1>4 DEF Matches

\* What is known once a packet was executed.
LEMMA ExecutedNews ==
    ASSUME NEW S \in SUBSET Packet, Separate(S), NEW p \in S, p.state = "sent",
           p.kind # "claim", NEW e,
           NEW T, T = (S \ {p}) \cup {ExecutedPacket(p, "ok")}
    PROVE  /\ e \notin p.eurs => /\ \A kind : Told(T, kind, e) <=> Told(S, kind, e)
                                 /\ \A t : ToldDue(T, e, t) <=> ToldDue(S, e, t)
           /\ e \in p.eurs =>
                /\ \A kind : ~Told(S, kind, e) /\ (Told(T, kind, e) <=> kind = p.kind)
                /\ \A t : /\ ~ToldDue(S, e, t)
                          /\ ToldDue(T, e, t) <=> p.kind = "undelegate" /\ t = UnbondingPeriod
  <1> DEFINE x == ExecutedPacket(p, "ok")
  <1>1. x.kind = p.kind /\ x.eurs = p.eurs /\ x.state = "ok"
        /\ (p.kind = "undelegate" => x.left = UnbondingPeriod)
    BY DEF ExecutedPacket, Packet
  <1> HIDE DEF x
  <1>2. T = (S \ {p}) \cup {x}
    BY DEF x
  <1>3. ASSUME e \notin p.eurs
        PROVE  /\ \A kind : Told(T, kind, e) <=> Told(S, kind, e)
               /\ \A t : ToldDue(T, e, t) <=> ToldDue(S, e, t)
    <2>1. \A q \in T : e \in q.eurs => q \in S
      BY <1>1, <1>2, <1>3
    <2>2. \A q \in S : e \in q.eurs => q \in T
      BY <1>2, <1>3
    <2>3. \A kind : Told(T, kind, e) <=> Told(S, kind, e)
      BY <2>1, <2>2 DEF Told
    <2>4. \A t : ToldDue(T, e, t) <=> ToldDue(S, e, t)
      BY <2>1, <2>2 DEF ToldDue
    <2> QED
      BY <2>3, <2>4
  <1>4. ASSUME e \in p.eurs
        PROVE  /\ \A kind : ~Told(S, kind, e) /\ (Told(T, kind, e) <=> kind = p.kind)
               /\ \A t : /\ ~ToldDue(S, e, t)
                         /\ ToldDue(T, e, t) <=> p.kind = "undelegate" /\ t = UnbondingPeriod
    <2>1. \A q \in T : e \in q.eurs => q = x
      BY <1>2, <1>4 DEF Separate
    <2>2. x \in T /\ e \in x.eurs
      BY <1>1, <1>2, <1>4
    <2>3. \A kind : ~Told(S, kind, e)
      BY <1>4, NewsOf
    <2>4. \A t : ~ToldDue(S, e, t)
      BY <1>4, NewsOf
    <2>5. \A kind : Told(T, kind, e) <=> kind = p.kind
      BY <1>1, <2>1, <2>2 DEF Told
    <2>6. \A t : ToldDue(T, e, t) <=> p.kind = "undelegate" /\ t = UnbondingPeriod
      BY <1>1, <2>1, <2>2 DEF ToldDue
    <2> QED
      BY <2>3, <2>4, <2>5, <2>6
  <1> QED
    BY <1>3, <1>4

\* The sums of the records before and after a packet was executed.
LEMMA ExecutedHostSums ==
    ASSUME RecordsInv, NEW z \in Zones, NEW p \in channel[z]["DELEGATION"].pkts,
           p.state = "sent", p.kind # "delegate", NEW S, S = channel[z]["DELEGATION"].pkts,
           NEW T, T = (S \ {p}) \cup {ExecutedPacket(p, "ok")}
    PROVE  /\ p.kind = "undelegate" =>
                /\ \A t \in Periods : DueSum(hzu, T, z, t)
                     = DueSum(hzu, S, z, t) + IF t = UnbondingPeriod THEN p.amount ELSE 0
                /\ LaterSum(hzu, T, z) = LaterSum(hzu, S, z) + p.amount
                /\ HostSum(hzu, T, z) = HostSum(hzu, S, z) + p.amount
           /\ p.kind = "redemption" =>
                /\ \A t \in Periods : DueSum(hzu, T, z, t) = DueSum(hzu, S, z, t)
                /\ LaterSum(hzu, T, z) = LaterSum(hzu, S, z)
                /\ HostSum(hzu, S, z) = HostSum(hzu, T, z) + p.amount
  <1> DEFINE k == NativePart(hzu, z)
  <1>1. /\ p \in Packet /\ p.eurs \in SUBSET Eurs /\ p.kind \in {"undelegate", "redemption"}
        /\ p.amount = NativeAmount(hzu, z, p.eurs)
        /\ \A e \in p.eurs : hzu[e][z].status = Awaits(p)
    BY PacketRecords
  <1>2. hzu \in RecordStore /\ S \in SUBSET Packet /\ Separate(S) /\ p \in S
    BY DEF RecordsInv, StoresInv, StoresTypeOK, PacketsMatch, Channel, RecordStore, Accounts
  <1>3. p.amount = SumFunctionOnSet(k, p.eurs) /\ \A e \in Eurs : k[e] \in Nat
    BY <1>1, <1>2, NativeIsSum
  <1>4. \A e \in Eurs : k[e] = hzu[e][z].native
    BY DEF NativePart
  <1>5. IsFiniteSet(Eurs)
    BY UnbondingRecordsAssumption
  <1> HIDE DEF k
  <1>6. /\ \A t : \A e \in Eurs : DuePart(hzu, S, z, t)[e] \in Nat
        /\ \A e \in Eurs : LaterPart(hzu, S, z)[e] \in Nat
        /\ \A e \in Eurs : HostPart(hzu, S, z)[e] \in Nat
        /\ \A e \in Eurs : HostPart(hzu, T, z)[e] \in Nat
    BY <1>2, HostPartsNat
  <1>11. S \in SUBSET Packet /\ Separate(S) /\ p \in S /\ p.kind # "claim"
    BY <1>1, <1>2
  <1>7. ASSUME NEW e \in Eurs, e \notin p.eurs
        PROVE  /\ \A t : DuePart(hzu, T, z, t)[e] = DuePart(hzu, S, z, t)[e]
               /\ LaterPart(hzu, T, z)[e] = LaterPart(hzu, S, z)[e]
               /\ HostPart(hzu, T, z)[e] = HostPart(hzu, S, z)[e]
    <2>1. /\ \A kind : Told(T, kind, e) <=> Told(S, kind, e)
          /\ \A t : ToldDue(T, e, t) <=> ToldDue(S, e, t)
      <3>1. \A kind : Told(T, kind, e) <=> Told(S, kind, e)
        BY <1>11, <1>7, ExecutedNews
      <3>2. \A t : ToldDue(T, e, t) <=> ToldDue(S, e, t)
        BY <1>11, <1>7, ExecutedNews
      <3> QED
        BY <3>1, <3>2
    <2>2. \A t : Due(hzu, T, z, e, t) <=> Due(hzu, S, z, e, t)
      BY <2>1 DEF Due
    <2>3. Later(hzu, T, z, e) <=> Later(hzu, S, z, e)
      BY <2>2 DEF Later
    <2>4. OnHost(hzu, T, z, e) <=> OnHost(hzu, S, z, e)
      BY <2>1 DEF OnHost
    <2> QED
      BY <2>2, <2>3, <2>4 DEF DuePart, LaterPart, HostPart
  <1>8. ASSUME NEW e \in p.eurs
        PROVE  /\ e \in Eurs /\ \A t : ~Due(hzu, S, z, e, t)
               /\ p.kind = "undelegate" =>
                    /\ \A t : Due(hzu, T, z, e, t) <=> t = UnbondingPeriod
                    /\ ~OnHost(hzu, S, z, e) /\ OnHost(hzu, T, z, e)
               /\ p.kind = "redemption" =>
                    /\ \A t : ~Due(hzu, T, z, e, t)
                    /\ OnHost(hzu, S, z, e) /\ ~OnHost(hzu, T, z, e)
    <2>1. /\ \A kind : ~Told(S, kind, e) /\ (Told(T, kind, e) <=> kind = p.kind)
          /\ \A t : /\ ~ToldDue(S, e, t)
                    /\ ToldDue(T, e, t) <=> p.kind = "undelegate" /\ t = UnbondingPeriod
      <3>1. \A kind : Told(T, kind, e) <=> kind = p.kind
        BY <1>11, ExecutedNews
      <3>2. \A t : ~ToldDue(S, e, t)
        BY <1>11, NewsOf
      <3>4. \A kind : ~Told(S, kind, e)
        BY <1>11, NewsOf
      <3>3. \A t : ToldDue(T, e, t) <=> p.kind = "undelegate" /\ t = UnbondingPeriod
        BY <1>11, ExecutedNews
      <3> QED
        BY <3>1, <3>2, <3>3, <3>4
    <2>2. /\ p.kind = "undelegate" => hzu[e][z].status = "UNBONDING_IN_PROGRESS"
          /\ p.kind = "redemption" => hzu[e][z].status = "EXIT_TRANSFER_IN_PROGRESS"
      BY <1>1 DEF Awaits
    <2>3. \A t : ~Due(hzu, S, z, e, t)
      BY <1>1, <2>1, <2>2 DEF Due
    <2>4. ASSUME p.kind = "undelegate"
          PROVE  /\ \A t : Due(hzu, T, z, e, t) <=> t = UnbondingPeriod
                 /\ ~OnHost(hzu, S, z, e) /\ OnHost(hzu, T, z, e)
      BY <2>1, <2>2, <2>4 DEF Due, OnHost
    <2>5. ASSUME p.kind = "redemption"
          PROVE  /\ \A t : ~Due(hzu, T, z, e, t)
                 /\ OnHost(hzu, S, z, e) /\ ~OnHost(hzu, T, z, e)
      BY <2>1, <2>2, <2>5 DEF Due, OnHost
    <2> QED
      BY <1>1, <2>3, <2>4, <2>5
  <1>9. ASSUME p.kind = "undelegate"
        PROVE  /\ \A t \in Periods : DueSum(hzu, T, z, t)
                    = DueSum(hzu, S, z, t) + IF t = UnbondingPeriod THEN p.amount ELSE 0
               /\ LaterSum(hzu, T, z) = LaterSum(hzu, S, z) + p.amount
               /\ HostSum(hzu, T, z) = HostSum(hzu, S, z) + p.amount
    <2>1. ASSUME NEW t \in Periods
          PROVE  DueSum(hzu, T, z, t)
                    = DueSum(hzu, S, z, t) + IF t = UnbondingPeriod THEN p.amount ELSE 0
      <3> DEFINE f == DuePart(hzu, T, z, t)
                 g == DuePart(hzu, S, z, t)
      <3>1. \A e \in Eurs : g[e] \in Int
        BY <1>6
      <3>2. \A e \in Eurs \ p.eurs : f[e] = g[e]
        BY <1>7
      <3>3. \A e \in p.eurs : g[e] = 0 /\ f[e] = IF t = UnbondingPeriod THEN k[e] ELSE 0
        BY <1>4, <1>8, <1>9 DEF DuePart
      <3> HIDE DEF f, g
      <3>4. CASE t = UnbondingPeriod
        <4>1. \A e \in p.eurs : k[e] \in Int /\ f[e] = g[e] + k[e]
          BY <1>1, <1>3, <3>3, <3>4
        <4>2. SumFunctionOnSet(f, Eurs) = SumFunctionOnSet(g, Eurs) + SumFunctionOnSet(k, p.eurs)
          BY <1>1, <1>5, <3>1, <3>2, <4>1, SumMoved
        <4> QED
          BY <1>3, <3>4, <4>2 DEF DueSum, f, g
      <3>5. CASE t # UnbondingPeriod
        <4>1. \A e \in Eurs : f[e] = g[e]
          BY <3>2, <3>3, <3>5
        <4>2. SumFunctionOnSet(f, Eurs) = SumFunctionOnSet(g, Eurs)
          BY <1>5, <4>1, SumSame
        <4>3. SumFunctionOnSet(g, Eurs) \in Int
          BY <1>5, <3>1, SumInt
        <4> QED
          BY <3>5, <4>2, <4>3 DEF DueSum, f, g
      <3> QED
        BY <3>4, <3>5
    <2>2. LaterSum(hzu, T, z) = LaterSum(hzu, S, z) + p.amount
      <3> DEFINE f == LaterPart(hzu, T, z)
                 g == LaterPart(hzu, S, z)
      <3>1. \A e \in Eurs : g[e] \in Int
        BY <1>6
      <3>2. \A e \in Eurs \ p.eurs : f[e] = g[e]
        BY <1>7
      <3>3. ASSUME NEW e \in p.eurs
            PROVE  k[e] \in Int /\ f[e] = g[e] + k[e]
        <4>1. ~Later(hzu, S, z, e) /\ Later(hzu, T, z, e)
          BY <1>8, <1>9, PeriodsFinite DEF Later
        <4>2. e \in Eurs /\ k[e] \in Nat
          BY <1>3, <1>8
        <4>3. g[e] = 0 /\ f[e] = k[e]
          BY <1>4, <4>1, <4>2 DEF LaterPart
        <4> QED
          BY <4>2, <4>3
      <3> HIDE DEF f, g
      <3>4. SumFunctionOnSet(f, Eurs) = SumFunctionOnSet(g, Eurs) + SumFunctionOnSet(k, p.eurs)
        BY <1>1, <1>5, <3>1, <3>2, <3>3, SumMoved
      <3> QED
        BY <1>3, <3>4 DEF LaterSum, f, g
    <2>3. HostSum(hzu, T, z) = HostSum(hzu, S, z) + p.amount
      <3> DEFINE f == HostPart(hzu, T, z)
                 g == HostPart(hzu, S, z)
      <3>1. \A e \in Eurs : g[e] \in Int
        BY <1>6
      <3>2. \A e \in Eurs \ p.eurs : f[e] = g[e]
        BY <1>7
      <3>3. ASSUME NEW e \in p.eurs
            PROVE  k[e] \in Int /\ f[e] = g[e] + k[e]
        <4>1. e \in Eurs /\ k[e] \in Nat
          BY <1>3, <1>8
        <4>2. g[e] = 0 /\ f[e] = k[e]
          BY <1>4, <1>8, <1>9, <4>1 DEF HostPart
        <4> QED
          BY <4>1, <4>2
      <3> HIDE DEF f, g
      <3>4. SumFunctionOnSet(f, Eurs) = SumFunctionOnSet(g, Eurs) + SumFunctionOnSet(k, p.eurs)
        BY <1>1, <1>5, <3>1, <3>2, <3>3, SumMoved
      <3> QED
        BY <1>3, <3>4 DEF HostSum, f, g
    <2> QED
      BY <2>1, <2>2, <2>3
  <1>10. ASSUME p.kind = "redemption"
         PROVE  /\ \A t \in Periods : DueSum(hzu, T, z, t) = DueSum(hzu, S, z, t)
                /\ LaterSum(hzu, T, z) = LaterSum(hzu, S, z)
                /\ HostSum(hzu, S, z) = HostSum(hzu, T, z) + p.amount
    <2>1. ASSUME NEW t \in Periods
          PROVE  DueSum(hzu, T, z, t) = DueSum(hzu, S, z, t)
      <3>1. \A e \in p.eurs : DuePart(hzu, T, z, t)[e] = DuePart(hzu, S, z, t)[e]
        BY <1>8, <1>10 DEF DuePart
      <3>2. \A e \in Eurs : DuePart(hzu, T, z, t)[e] = DuePart(hzu, S, z, t)[e]
        BY <1>7, <3>1
      <3> QED
        BY <1>5, <3>2, SumSame DEF DueSum
    <2>2. LaterSum(hzu, T, z) = LaterSum(hzu, S, z)
      <3>1. \A e \in p.eurs : ~Later(hzu, T, z, e) /\ ~Later(hzu, S, z, e)
        BY <1>8, <1>10 DEF Later
      <3>2. \A e \in p.eurs : LaterPart(hzu, T, z)[e] = LaterPart(hzu, S, z)[e]
        BY <1>8, <3>1 DEF LaterPart
      <3>3. \A e \in Eurs : LaterPart(hzu, T, z)[e] = LaterPart(hzu, S, z)[e]
        BY <1>7, <3>2
      <3> QED
        BY <1>5, <3>3, SumSame DEF LaterSum
    <2>3. HostSum(hzu, S, z) = HostSum(hzu, T, z) + p.amount
      <3> DEFINE f == HostPart(hzu, S, z)
                 g == HostPart(hzu, T, z)
      <3>1. \A e \in Eurs : g[e] \in Int
        <4>1. \A e \in Eurs : HostPart(hzu, T, z)[e] \in Nat
          BY <1>2, HostPartsNat
        <4> QED
          BY <4>1
      <3>2. \A e \in Eurs \ p.eurs : f[e] = g[e]
        BY <1>7
      <3>3. ASSUME NEW e \in p.eurs
            PROVE  k[e] \in Int /\ f[e] = g[e] + k[e]
        <4>1. e \in Eurs /\ k[e] \in Nat
          BY <1>3, <1>8
        <4>2. g[e] = 0 /\ f[e] = k[e]
          BY <1>4, <1>8, <1>10, <4>1 DEF HostPart
        <4> QED
          BY <4>1, <4>2
      <3> HIDE DEF f, g
      <3>4. SumFunctionOnSet(f, Eurs) = SumFunctionOnSet(g, Eurs) + SumFunctionOnSet(k, p.eurs)
        BY <1>1, <1>5, <3>1, <3>2, <3>3, SumMoved
      <3> QED
        BY <1>3, <3>4 DEF HostSum, f, g
    <2> QED
      BY <2>1, <2>2, <2>3
  <1> QED
    BY <1>9, <1>10

\* What unbonds is added to the last period only.
LEMMA UnbondingAdded ==
    ASSUME NEW f, NEW g, NEW n \in Nat, \A t \in Periods : f[t] \in Nat,
           \A t \in Periods : g[t] = f[t] + IF t = UnbondingPeriod THEN n ELSE 0
    PROVE  UnbondingSum(g) = UnbondingSum(f) + n
  <1> DEFINE k == [t \in {UnbondingPeriod} |-> n]
  <1>1. IsFiniteSet(Periods) /\ {UnbondingPeriod} \in SUBSET Periods
    BY PeriodsFinite
  <1>2. \A t \in Periods : f[t] \in Int
    OBVIOUS
  <1>3. \A t \in {UnbondingPeriod} : k[t] \in Int /\ g[t] = f[t] + k[t]
    BY <1>1
  <1>4. \A t \in Periods \ {UnbondingPeriod} : g[t] = f[t]
    OBVIOUS
  <1>5. k[UnbondingPeriod] = n
    OBVIOUS
  <1> HIDE DEF k
  <1>6. SumFunctionOnSet(g, Periods) = SumFunctionOnSet(f, Periods) + SumFunctionOnSet(k, {UnbondingPeriod})
    BY <1>1, <1>2, <1>3, <1>4, SumMoved
  <1>7. SumFunctionOnSet(k, {UnbondingPeriod}) = n
    <2>1. IsFiniteSet({}) /\ UnbondingPeriod \notin {} /\ {} \cup {UnbondingPeriod} = {UnbondingPeriod}
      BY FS_EmptySet
    <2>2. SumFunctionOnSet(k, {} \cup {UnbondingPeriod}) = k[UnbondingPeriod] + SumFunctionOnSet(k, {})
      BY <1>5, <2>1, SumAdd
    <2> QED
      BY <1>5, <2>1, <2>2, SumEmpty
  <1> QED
    BY <1>6, <1>7 DEF UnbondingSum

\* A message of the delegation account that succeeds.
LEMMA ExecutedHost ==
    ASSUME RecordsInv, RecordsInv', HostInv, NEW z \in Zones,
           NEW p \in channel[z]["DELEGATION"].pkts, ExecuteICA(z, "DELEGATION", p, "ok")
    PROVE  HostAt(z)'
  <1> DEFINE S == channel[z]["DELEGATION"].pkts
             T == channel'[z]["DELEGATION"].pkts
  <1>1. StoresInv /\ AccountsTypeOK /\ HostTypeOK /\ HostTypeOK' /\ "DELEGATION" \in Accounts
    BY HostTypes, HostTypesNext DEF RecordsInv, Accounts
  <1>2. T = (S \ {p}) \cup {ExecutedPacket(p, "ok")}
    BY <1>1, ExecuteICAChannel
  <1>3. /\ p.kind \in {"undelegate", "redemption", "delegate"} /\ p.state = "sent"
        /\ p.amount \in Nat /\ p \in Packet /\ (p.kind = "delegate" => p.eurs = {})
    BY PacketRecords DEF ExecuteICA, Packet
  <1>4. UNCHANGED <<hzu, deposits, lost>>
    BY DEF ExecuteICA, records, accounts
  <1> DEFINE ha == hostAcct[z]
             us == UnbondingSum(unbonding[z])
             lr == lost[z]["redemption"]
             lu == lost[z]["undelegate"]
             dp == deposits[z]
             ub == Unbooked(z)
             hs == HostSum(hzu, S, z)
             ls == LaterSum(hzu, S, z)
             n == p.amount
  <1>5. /\ ha \in Nat /\ us \in Nat /\ lr \in Nat /\ lu \in Nat /\ dp \in Nat /\ hs \in Nat /\ ls \in Nat
        /\ ub \in Nat
    BY <1>1 DEF HostTypeOK
  <1>6. ha + us + lr + ub = dp + lu + hs
    BY DEF HostInv, HostAt, HostAcctInv
  <1>7. us <= lu + ls
    BY DEF HostInv, HostAt, UnbondingInv
  <1>8. \A t \in Periods : /\ unbonding[z][t] >= DueSum(hzu, S, z, t)
                           /\ unbonding[z][t] \in Nat /\ DueSum(hzu, S, z, t) \in Nat
    BY <1>1 DEF HostInv, HostAt, BucketsInv, HostTypeOK
  <1>9. deposits'[z] = dp /\ lost'[z]["undelegate"] = lu /\ lost'[z]["redemption"] = lr
    BY <1>4
  <1>12. Unbooked(z)' = ub + IF p.kind = "delegate" THEN p.amount ELSE 0
    <2> DEFINE ld == lost[z]["delegate"]
               od == OkSum(S, "delegate")
               m == IF p.kind = "delegate" THEN p.amount ELSE 0
    <2>1. OkSum(T, "delegate") = od + m
      BY ExecuteSums DEF Kinds, Accounts
    <2>2. ld \in Nat /\ lost'[z]["delegate"] = ld
      BY <1>1, <1>4 DEF AccountsTypeOK, Kinds
    <2>3. od \in Nat
      BY DelegateSumNat
    <2>4. Unbooked(z) = ld + od /\ Unbooked(z)' = ld + OkSum(T, "delegate") /\ m \in Nat
      BY <1>3, <2>2 DEF Unbooked
    <2> HIDE DEF ld, od, m, ub
    <2>5. ld + OkSum(T, "delegate") = (ld + od) + m
      BY <2>1, <2>2, <2>3, <2>4
    <2> QED
      BY <2>4, <2>5 DEF m, ub
  <1>10. CASE p.kind = "undelegate"
    <2>1. /\ \A t \in Periods : DueSum(hzu, T, z, t)
               = DueSum(hzu, S, z, t) + IF t = UnbondingPeriod THEN n ELSE 0
          /\ LaterSum(hzu, T, z) = ls + n
          /\ HostSum(hzu, T, z) = hs + n
      <3>1. p.kind # "delegate" /\ p.state = "sent"
        BY <1>3, <1>10
      <3>2. p.kind = "undelegate" =>
              /\ \A t \in Periods : DueSum(hzu, T, z, t)
                   = DueSum(hzu, S, z, t) + IF t = UnbondingPeriod THEN n ELSE 0
              /\ LaterSum(hzu, T, z) = ls + n
              /\ HostSum(hzu, T, z) = hs + n
        BY <1>2, <3>1, ExecutedHostSums
      <3> QED
        BY <1>10, <3>2
    <2>2. /\ unbonding' = [unbonding EXCEPT ![z][UnbondingPeriod] = @ + p.amount]
          /\ hostAcct' = hostAcct
      BY <1>10 DEF ExecuteICA
    <2>3. unbonding[z] \in [Periods -> Nat] /\ unbonding \in [Zones -> [Periods -> Nat]]
      BY <1>1 DEF AccountsTypeOK, Periods
    <2>4. \A t \in Periods : unbonding'[z][t] = unbonding[z][t] + IF t = UnbondingPeriod THEN n ELSE 0
      <3>1. unbonding'[z] = [unbonding[z] EXCEPT ![UnbondingPeriod] = @ + p.amount]
        BY <2>2, <2>3
      <3> QED
        BY <1>8, <2>3, <3>1
    <2>5. UnbondingSum(unbonding'[z]) = us + n
      BY <1>3, <1>8, <2>4, UnbondingAdded
    <2>6. hostAcct'[z] = ha
      BY <2>2
    <2> DEFINE due(t) == DueSum(hzu, S, z, t)
    <2>7. BucketsInv(z)'
      <3> SUFFICES ASSUME NEW t \in Periods
                   PROVE  unbonding'[z][t] >= DueSum(hzu', T, z, t)
        BY DEF BucketsInv
      <3> DEFINE u == unbonding[z][t]
                 v == due(t)
                 m == IF t = UnbondingPeriod THEN n ELSE 0
      <3>1. u \in Nat /\ v \in Nat /\ u >= v /\ m \in Nat
        BY <1>3, <1>8
      <3>2. unbonding'[z][t] = u + m /\ DueSum(hzu', T, z, t) = v + m
        BY <1>4, <2>1, <2>4
      <3> HIDE DEF u, v, m
      <3> QED
        BY <3>1, <3>2
    <2>8. hzu' = hzu /\ Unbooked(z)' = ub
      BY <1>4, <1>5, <1>10, <1>12
    <2> HIDE DEF ha, us, lr, lu, dp, ub, hs, ls, n
    <2>9. n \in Nat
      BY <1>3 DEF n
    <2>10. us + n <= lu + (ls + n) /\ ha + (us + n) + lr + ub = dp + lu + (hs + n)
      BY <1>5, <1>6, <1>7, <2>9
    <2>11. UnbondingInv(z)'
      BY <1>9, <2>1, <2>5, <2>8, <2>10 DEF UnbondingInv
    <2>12. HostAcctInv(z)'
      BY <1>9, <2>1, <2>5, <2>6, <2>8, <2>10 DEF HostAcctInv
    <2> QED
      BY <2>7, <2>11, <2>12 DEF HostAt
  <1>11. CASE p.kind = "redemption"
    <2>1. /\ \A t \in Periods : DueSum(hzu, T, z, t) = DueSum(hzu, S, z, t)
          /\ LaterSum(hzu, T, z) = ls
          /\ hs = HostSum(hzu, T, z) + n
      BY <1>2, <1>3, <1>11, ExecutedHostSums
    <2>2. /\ unbonding' = unbonding /\ hostAcct' = [hostAcct EXCEPT ![z] = @ - p.amount]
      BY <1>11 DEF ExecuteICA
    <2>3. hostAcct'[z] = ha - n
      BY <1>1, <2>2 DEF AccountsTypeOK
    <2>4. BucketsInv(z)'
      BY <1>4, <1>8, <2>1, <2>2 DEF BucketsInv
    <2>5. UnbondingInv(z)'
      BY <1>4, <1>7, <2>1, <2>2 DEF UnbondingInv
    <2>6. hzu' = hzu /\ UnbondingSum(unbonding'[z]) = us /\ Unbooked(z)' = ub
      BY <1>4, <1>5, <1>11, <1>12, <2>2
    <2> DEFINE hsNext == HostSum(hzu, T, z)
    <2>7. hsNext \in Nat
      BY <1>1, <2>6 DEF HostTypeOK
    <2>8. hs = hsNext + n
      BY <2>1
    <2>9. HostSum(hzu', T, z) = hsNext
      BY <2>6
    <2> HIDE DEF ha, us, lr, lu, dp, ub, hs, ls, n, hsNext
    <2>10. n \in Nat
      BY <1>3 DEF n
    <2>11. (ha - n) + us + lr + ub = dp + lu + hsNext
      BY <1>5, <1>6, <2>7, <2>8, <2>10
    <2>12. HostAcctInv(z)'
      BY <1>9, <2>3, <2>6, <2>9, <2>11 DEF HostAcctInv
    <2> QED
      BY <2>4, <2>5, <2>12 DEF HostAt
  <1>13. CASE p.kind = "delegate"
    <2>1. unbonding' = unbonding /\ hostAcct' = [hostAcct EXCEPT ![z] = @ - p.amount]
      BY <1>13 DEF ExecuteICA
    <2>2. hostAcct'[z] = ha - n /\ n \in Nat
      BY <1>1, <1>3, <2>1 DEF AccountsTypeOK
    <2>3. Unbooked(z)' = ub + n
      BY <1>12, <1>13
    <2>4. QuietHostAt(z)
      <3> HIDE DEF ha, dp, ub, n
      <3>1. (ha - n) + (ub + n) + dp = ha + ub + dp
        BY <1>5, <2>2
      <3>2. hostAcct'[z] + Unbooked(z)' + deposits[z] = hostAcct[z] + Unbooked(z) + deposits'[z]
        BY <1>9, <2>2, <2>3, <3>1 DEF ha, dp, ub
      <3> QED
        BY <1>4, <2>1, <3>2 DEF QuietHostAt
    <2>5. SameNews(T, S)
      <3> DEFINE x == ExecutedPacket(p, "ok")
      <3>1. x.eurs = {} /\ p.eurs = {}
        BY <1>3, <1>13 DEF ExecutedPacket, Packet
      <3> HIDE DEF x
      <3>2. \A q \in S : q.eurs # {} => q \in T
        BY <1>2, <3>1
      <3>3. \A q \in T : q.eurs # {} => q \in S
        BY <1>2, <3>1 DEF x
      <3> QED
        BY <3>2, <3>3 DEF SameNews, Told, ToldDue
    <2>6. \A e \in Eurs : SameRecord(z, e)
      BY <1>4, <2>5, KeptRecord
    <2> QED
      BY <2>4, <2>6, QuietZone DEF HostInv
  <1> QED
    BY <1>3, <1>10, <1>11, <1>13

LEMMA ExecuteICAHost ==
    ASSUME RecordsInv, RecordsInv', HostInv, NEW z \in Zones, NEW a \in Accounts,
           NEW p \in channel[z][a].pkts, NEW result \in {"ok", "err"}, ExecuteICA(z, a, p, result)
    PROVE  HostInv'
  <1>1. StoresInv /\ StoresTypeOK /\ AccountsTypeOK /\ PacketsWellFormed
    BY DEF RecordsInv, StoresInv
  <1>2. UNCHANGED <<hzu, deposits, lost>>
    BY DEF ExecuteICA, records, accounts
  <1>3. SweptInv'
    BY <1>2 DEF HostInv, SweptInv
  <1>4. /\ channel'[z][a].pkts = (channel[z][a].pkts \ {p}) \cup {ExecutedPacket(p, result)}
        /\ \A y \in Zones, b \in Accounts : ~(y = z /\ b = a) => channel'[y][b] = channel[y][b]
        /\ p \in Packet
    BY <1>1, ExecuteICAChannel
  <1>5. /\ a = "REDEMPTION" => p.kind = "claim"
        /\ a = "DELEGATION" => p.kind # "claim"
    BY <1>1 DEF PacketsWellFormed, RedemptionShape, DelegationShape
  <1>6. \A y \in Zones : hostAcct[y] \in Nat /\ deposits[y] \in Nat
    BY <1>1 DEF AccountsTypeOK
  <1>7. ASSUME NEW y \in Zones, y # z \/ result = "err" \/ a = "REDEMPTION"
        PROVE  HostAt(y)'
    <2>1. hostAcct'[y] = hostAcct[y] /\ unbonding'[y] = unbonding[y]
      <3>1. CASE result = "err" \/ p.kind = "claim"
        BY <3>1 DEF ExecuteICA, host
      <3>2. CASE result = "ok" /\ p.kind # "claim"
        <4>1. y # z
          BY <1>5, <1>7, <3>2
        <4>2. /\ hostAcct \in [Zones -> Nat] /\ unbonding \in [Zones -> [1..UnbondingPeriod -> Nat]]
          BY <1>1 DEF AccountsTypeOK
        <4>3. CASE p.kind = "undelegate"
          BY <3>2, <4>1, <4>2, <4>3 DEF ExecuteICA
        <4>4. CASE p.kind = "redemption"
          BY <3>2, <4>1, <4>2, <4>4 DEF ExecuteICA
        <4>5. CASE p.kind = "delegate"
          BY <3>2, <4>1, <4>2, <4>5 DEF ExecuteICA
        <4> QED
          BY <1>4, <3>2, <4>3, <4>4, <4>5 DEF Packet, Kinds
      <3> QED
        BY <3>1, <3>2
    <2>2. QuietHostAt(y)
      <3>1. OkSum(channel'[y]["DELEGATION"].pkts, "delegate")
              = OkSum(channel[y]["DELEGATION"].pkts, "delegate")
        <4>1. "delegate" \in Kinds /\ "DELEGATION" \in Accounts
          BY DEF Kinds, Accounts
        <4>2. CASE ~(y = z /\ a = "DELEGATION")
          BY <4>1, <4>2, ExecuteSums
        <4>3. CASE y = z /\ a = "DELEGATION"
          <5>1. result = "err"
            BY <1>7, <4>3
          <5>2. OkSum(channel'[z][a].pkts, "delegate") = OkSum(channel[z][a].pkts, "delegate") + 0
            BY <4>1, <5>1, ExecuteSums
          <5>3. OkSum(channel[y]["DELEGATION"].pkts, "delegate") \in Nat
            BY DelegateSumNat
          <5> QED
            BY <4>3, <5>2, <5>3
        <4> QED
          BY <4>2, <4>3
      <3>2. Unbooked(y)' = Unbooked(y)
        BY <1>2, <3>1 DEF Unbooked
      <3>3. Unbooked(y) \in Nat
        BY HostTypes DEF HostTypeOK
      <3> QED
        BY <1>2, <1>6, <2>1, <3>2, <3>3 DEF QuietHostAt
    <2>3. SameNews(channel'[y]["DELEGATION"].pkts, channel[y]["DELEGATION"].pkts)
      <3>1. CASE ~(y = z /\ a = "DELEGATION")
        <4>1. channel'[y]["DELEGATION"] = channel[y]["DELEGATION"]
          BY <1>4, <3>1 DEF Accounts
        <4> QED
          BY <4>1 DEF SameNews
      <3>2. CASE y = z /\ a = "DELEGATION"
        <4> DEFINE A == channel[z]["DELEGATION"].pkts \ {p}
                   X == {ExecutedPacket(p, result)}
                   P == {p}
        <4>1. ExecutedPacket(p, result).state # "ok" /\ p.state # "ok"
          BY <1>4, <1>7, <3>2, ExecutedPacketSame DEF ExecuteICA
        <4>2. channel[y]["DELEGATION"].pkts = A \cup P /\ channel'[y]["DELEGATION"].pkts = A \cup X
          BY <1>4, <3>2
        <4>3. \A q \in X : q.state # "ok"
          BY <4>1
        <4>4. \A q \in P : q.state # "ok"
          BY <4>1
        <4> HIDE DEF A, X, P
        <4>5. SameNews(A \cup X, A)
          BY <4>3, SentNews
        <4>6. SameNews(A \cup P, A)
          BY <4>4, SentNews
        <4>7. SameNews(A \cup X, A \cup P)
          BY <4>5, <4>6 DEF SameNews
        <4> QED
          BY <4>2, <4>7
      <3> QED
        BY <3>1, <3>2
    <2>4. \A e \in Eurs : SameRecord(y, e)
      BY <1>2, <2>3, KeptRecord
    <2> QED
      BY <2>2, <2>4, QuietZone DEF HostInv
  <1>8. CASE result = "ok" /\ a = "DELEGATION"
    <2>1. HostAt(z)'
      BY <1>8, ExecutedHost
    <2> QED
      BY <1>3, <1>7, <2>1 DEF HostInv
  <1>9. CASE ~(result = "ok" /\ a = "DELEGATION")
    <2>1. result = "err" \/ a = "REDEMPTION"
      BY <1>9 DEF Accounts
    <2> QED
      BY <1>3, <1>7, <2>1 DEF HostInv
  <1> QED
    BY <1>8, <1>9

\* Time left after a tick.
LEMMA PassedTime ==
    ASSUME NEW left \in Times, NEW t \in Periods
    PROVE  /\ Passed(left) = t <=> left = t + 1
           /\ left = t + 1 => t # UnbondingPeriod
           /\ left < 0 => Passed(left) < 0
  <1>1. UnbondingPeriod \in Nat \ {0} /\ MaxLag \in Nat
    BY UnbondingRecordsAssumption
  <1> QED
    BY <1>1 DEF Passed, Times, Periods

\* What is known after a tick.
LEMMA AgedNews ==
    ASSUME NEW S \in SUBSET Packet, NEW e
    PROVE  /\ \A kind : Told(AgedAll(S), kind, e) <=> Told(S, kind, e)
           /\ \A t \in Periods : ToldDue(AgedAll(S), e, t) <=> ToldDue(S, e, t + 1)
           /\ ~ToldDue(S, e, UnbondingPeriod + 1)
  <1>1. \A p \in S : /\ p.left \in Times
                     /\ Aged(p).kind = p.kind /\ Aged(p).state = p.state /\ Aged(p).eurs = p.eurs
    BY AgedSame DEF Same, Packet
  <1>2. \A p \in S : p.kind = "undelegate" /\ p.state = "ok" => Aged(p).left = Passed(p.left)
    BY DEF Aged, Packet
  <1>3. \A q \in AgedAll(S) : \E p \in S : q = Aged(p)
    BY DEF AgedAll
  <1>4. \A p \in S : Aged(p) \in AgedAll(S)
    BY DEF AgedAll
  <1>5. \A kind : Told(AgedAll(S), kind, e) <=> Told(S, kind, e)
    BY <1>1, <1>3, <1>4 DEF Told
  <1>6. ASSUME NEW t \in Periods
        PROVE  ToldDue(AgedAll(S), e, t) <=> ToldDue(S, e, t + 1)
    <2>1. \A p \in S : Passed(p.left) = t <=> p.left = t + 1
      BY <1>1, PassedTime
    <2>2. ASSUME ToldDue(AgedAll(S), e, t)
          PROVE  ToldDue(S, e, t + 1)
      <3>1. PICK q \in AgedAll(S) : q.kind = "undelegate" /\ q.state = "ok" /\ e \in q.eurs /\ q.left = t
        BY <2>2 DEF ToldDue
      <3>2. PICK p \in S : q = Aged(p)
        BY <1>3
      <3>3. p.kind = "undelegate" /\ p.state = "ok" /\ e \in p.eurs
        BY <1>1, <3>1, <3>2
      <3>4. p.left = t + 1
        BY <1>2, <2>1, <3>1, <3>2, <3>3
      <3> QED
        BY <3>3, <3>4 DEF ToldDue
    <2>3. ASSUME ToldDue(S, e, t + 1)
          PROVE  ToldDue(AgedAll(S), e, t)
      <3>1. PICK p \in S : p.kind = "undelegate" /\ p.state = "ok" /\ e \in p.eurs /\ p.left = t + 1
        BY <2>3 DEF ToldDue
      <3>2. Aged(p).kind = "undelegate" /\ Aged(p).state = "ok" /\ e \in Aged(p).eurs
            /\ Aged(p).left = t
        BY <1>1, <1>2, <2>1, <3>1
      <3>3. Aged(p) \in AgedAll(S)
        BY <1>4
      <3> QED
        BY <3>2, <3>3 DEF ToldDue
    <2> QED
      BY <2>2, <2>3
  <1>7. ~ToldDue(S, e, UnbondingPeriod + 1)
    <2>1. \A p \in S : p.left # UnbondingPeriod + 1
      BY <1>1, PassedTime, PeriodsFinite
    <2> QED
      BY <2>1 DEF ToldDue
  <1> QED
    BY <1>5, <1>6, <1>7

\* What unbonds after a tick: the first of the periods is over.
LEMMA UnbondingPassed ==
    ASSUME NEW f, NEW g, \A t \in Periods : f[t] \in Nat,
           \A t \in Periods : g[t] = IF t = UnbondingPeriod THEN 0 ELSE f[t + 1]
    PROVE  UnbondingSum(f) = UnbondingSum(g) + f[1]
  <1> DEFINE S == Periods \ {UnbondingPeriod}
             R == Periods \ {1}
             h == [t \in S |-> t + 1]
  <1>1. IsFiniteSet(Periods) /\ 1 \in Periods /\ UnbondingPeriod \in Periods
    BY PeriodsFinite
  <1>2. UnbondingPeriod \in Nat \ {0}
    BY UnbondingRecordsAssumption
  <1>3. IsFiniteSet(S)
    BY <1>1, FS_Subset
  <1>4. \A t \in S : h[t] = t + 1 /\ t + 1 \in Periods /\ t \in Int
    BY <1>2 DEF Periods
  <1>5. {h[t] : t \in S} = R
    <2>1. \A t \in S : h[t] \in R
      BY <1>2 DEF Periods
    <2>2. \A u \in R : u - 1 \in S /\ h[u - 1] = u
      BY <1>2 DEF Periods
    <2> HIDE DEF S, R, h
    <2> QED
      BY <2>1, <2>2
  <1>6. \A t \in S : g[t] = f[h[t]] /\ g[t] \in Int
    BY <1>4
  <1>7. \A x, y \in S : h[x] = h[y] => x = y
    BY <1>4
  <1> HIDE DEF h
  <1>8. SumFunctionOnSet(g, S) = SumFunctionOnSet(f, {h[t] : t \in S})
    <2> HIDE DEF S
    <2> QED
      BY <1>3, <1>6, <1>7, SumReindex
  <1>9. \A t \in Periods : f[t] \in Int
    OBVIOUS
  <1>10. \A t \in Periods : g[t] \in Int
    BY <1>6, <1>1
  <1>11. SumFunctionOnSet(f, Periods) = f[1] + SumFunctionOnSet(f, R)
    BY <1>1, <1>9, SumRemove
  <1>12. SumFunctionOnSet(g, Periods) = g[UnbondingPeriod] + SumFunctionOnSet(g, S)
    BY <1>1, <1>10, SumRemove
  <1>13. SumFunctionOnSet(f, R) \in Int
    <2>1. IsFiniteSet(R) /\ \A t \in R : f[t] \in Int
      BY <1>1, <1>9, FS_Subset
    <2> QED
      BY <2>1, SumInt
  <1>14. g[UnbondingPeriod] = 0 /\ f[1] \in Int
    BY <1>1, <1>9
  <1>15. SumFunctionOnSet(g, S) = SumFunctionOnSet(f, R)
    BY <1>5, <1>8
  <1> HIDE DEF S, R
  <1> QED
    BY <1>11, <1>12, <1>13, <1>14, <1>15 DEF UnbondingSum

\* A tick brings what is due one period nearer.
LEMMA TickDue ==
    ASSUME RecordsInv, Tick, NEW z \in Zones, NEW e \in Eurs,
           NEW S, S = channel[z]["DELEGATION"].pkts, NEW T, T = channel'[z]["DELEGATION"].pkts
    PROVE  /\ hzu'[e][z].native = hzu[e][z].native
           /\ OnHost(hzu', T, z, e) <=> OnHost(hzu, S, z, e)
           /\ \A t \in Periods : Due(hzu', T, z, e, t) <=> Due(hzu, S, z, e, t + 1)
           /\ ~Due(hzu, S, z, e, UnbondingPeriod + 1)
           /\ Later(hzu, S, z, e) => Later(hzu', T, z, e) \/ Due(hzu, S, z, e, 1)
           /\ /\ hzu'[e][z].status = "EXIT_TRANSFER_IN_PROGRESS" /\ hzu[e][z].left < 0
              => hzu'[e][z].left < 0
           /\ hzu'[e][z].status = hzu[e][z].status
  <1>1. StoresTypeOK
    BY DEF RecordsInv, StoresInv
  <1>2. hzu[e][z] \in HostZoneUnbonding /\ S \in SUBSET Packet
    BY <1>1 DEF StoresTypeOK, Channel, Accounts
  <1>3. T = AgedAll(S)
    <2>1. channel[z]["DELEGATION"] \in Channel
      BY <1>1 DEF StoresTypeOK, Accounts
    <2>2. channel'[z]["DELEGATION"] = [channel[z]["DELEGATION"] EXCEPT !.pkts = AgedAll(S)]
      BY DEF Tick, Aged, AgedAll, Accounts
    <2> QED
      BY <2>1, <2>2 DEF Channel
  <1>4. hzu'[e][z] = IF hzu[e][z].status \in {"EXIT_TRANSFER_QUEUE", "EXIT_TRANSFER_IN_PROGRESS"}
                     THEN [hzu[e][z] EXCEPT !.left = Passed(@)] ELSE hzu[e][z]
    BY DEF Tick
  <1>5. /\ hzu'[e][z].native = hzu[e][z].native /\ hzu'[e][z].status = hzu[e][z].status
        /\ hzu[e][z].status \in {"EXIT_TRANSFER_QUEUE", "EXIT_TRANSFER_IN_PROGRESS"}
           => hzu'[e][z].left = Passed(hzu[e][z].left)
    BY <1>2, <1>4 DEF HostZoneUnbonding
  <1>6. hzu[e][z].left \in Times
    BY <1>2 DEF HostZoneUnbonding
  <1>7. /\ \A t \in Periods : Passed(hzu[e][z].left) = t <=> hzu[e][z].left = t + 1
        /\ hzu[e][z].left # UnbondingPeriod + 1
        /\ hzu[e][z].left < 0 => Passed(hzu[e][z].left) < 0
    BY <1>6, PassedTime, PeriodsFinite
  <1>8. /\ Told(T, "undelegate", e) <=> Told(S, "undelegate", e)
        /\ Told(T, "redemption", e) <=> Told(S, "redemption", e)
    BY <1>2, <1>3, AgedNews
  <1>9. \A t \in Periods : ToldDue(T, e, t) <=> ToldDue(S, e, t + 1)
    BY <1>2, <1>3, AgedNews
  <1>10. ~ToldDue(S, e, UnbondingPeriod + 1)
    BY <1>2, AgedNews
  <1>11. OnHost(hzu', T, z, e) <=> OnHost(hzu, S, z, e)
    BY <1>5, <1>8 DEF OnHost
  <1>12. \A t \in Periods : Due(hzu', T, z, e, t) <=> Due(hzu, S, z, e, t + 1)
    BY <1>5, <1>7, <1>9 DEF Due
  <1>13. ~Due(hzu, S, z, e, UnbondingPeriod + 1)
    BY <1>7, <1>10 DEF Due
  <1>14. Later(hzu, S, z, e) => Later(hzu', T, z, e) \/ Due(hzu, S, z, e, 1)
    <2> SUFFICES ASSUME NEW t \in Periods, Due(hzu, S, z, e, t), t # 1
                 PROVE  Later(hzu', T, z, e)
      BY DEF Later
    <2>1. UnbondingPeriod \in Nat \ {0}
      BY UnbondingRecordsAssumption
    <2>2. t - 1 \in Periods /\ (t - 1) + 1 = t
      BY <2>1 DEF Periods
    <2> QED
      BY <1>12, <2>2 DEF Later
  <1> QED
    BY <1>5, <1>7, <1>11, <1>12, <1>13, <1>14

\* What has unbonded is paid out when its records say so.
LEMMA TickHost ==
    ASSUME RecordsInv, RecordsInv', HostInv, Tick
    PROVE  HostInv'
  <1>1. AccountsTypeOK /\ HostTypeOK /\ HostTypeOK' /\ hzu \in RecordStore /\ hzu' \in RecordStore
    BY HostTypes, HostTypesNext DEF RecordsInv, StoresInv, StoresTypeOK, RecordStore
  <1>2. SweptInv'
    <2> SUFFICES ASSUME NEW e \in Eurs, NEW z \in Zones,
                        hzu'[e][z].status = "EXIT_TRANSFER_IN_PROGRESS"
                 PROVE  hzu'[e][z].left < 0
      BY DEF SweptInv
    <2>1. hzu[e][z].status = "EXIT_TRANSFER_IN_PROGRESS"
      BY TickDue
    <2>2. hzu[e][z].left < 0
      BY <2>1 DEF HostInv, SweptInv
    <2> QED
      BY <2>2, TickDue
  <1>3. ASSUME NEW z \in Zones
        PROVE  HostAt(z)'
    <2> DEFINE S == channel[z]["DELEGATION"].pkts
               T == channel'[z]["DELEGATION"].pkts
               u == unbonding[z]
               v == unbonding'[z]
               ha == hostAcct[z]
               us == UnbondingSum(u)
               vs == UnbondingSum(v)
               lr == lost[z]["redemption"]
               lu == lost[z]["undelegate"]
               dp == deposits[z]
               ub == Unbooked(z)
               hs == HostSum(hzu, S, z)
               ls == LaterSum(hzu, S, z)
               lsNext == LaterSum(hzu', T, z)
               u1 == u[1]
               d1 == DueSum(hzu, S, z, 1)
    <2>1. IsFiniteSet(Eurs) /\ UnbondingPeriod \in Nat \ {0}
      BY UnbondingRecordsAssumption
    <2>2. ASSUME NEW e \in Eurs
          PROVE  /\ hzu'[e][z].native = hzu[e][z].native
                 /\ OnHost(hzu', T, z, e) <=> OnHost(hzu, S, z, e)
                 /\ \A t \in Periods : Due(hzu', T, z, e, t) <=> Due(hzu, S, z, e, t + 1)
                 /\ ~Due(hzu, S, z, e, UnbondingPeriod + 1)
                 /\ Later(hzu, S, z, e) => Later(hzu', T, z, e) \/ Due(hzu, S, z, e, 1)
      BY TickDue
    <2>3. ASSUME NEW t \in Periods
          PROVE  DueSum(hzu', T, z, t) = DueSum(hzu, S, z, t + 1)
      <3>1. \A e \in Eurs : DuePart(hzu', T, z, t)[e] = DuePart(hzu, S, z, t + 1)[e]
        BY <2>2 DEF DuePart
      <3> QED
        BY <2>1, <3>1, SumSame DEF DueSum
    <2>4. DueSum(hzu, S, z, UnbondingPeriod + 1) = 0
      <3>1. \A e \in Eurs : DuePart(hzu, S, z, UnbondingPeriod + 1)[e] = 0
        BY <2>2 DEF DuePart
      <3> QED
        BY <2>1, <3>1, SumZero DEF DueSum
    <2>5. HostSum(hzu', T, z) = hs
      <3>1. \A e \in Eurs : HostPart(hzu', T, z)[e] = HostPart(hzu, S, z)[e]
        BY <2>2 DEF HostPart
      <3> QED
        BY <2>1, <3>1, SumSame DEF HostSum
    <2>6. ls <= lsNext + d1
      <3> DEFINE f == LaterPart(hzu, S, z)
                 g == LaterPart(hzu', T, z)
                 k == DuePart(hzu, S, z, 1)
                 m == [e \in Eurs |-> g[e] + k[e]]
      <3>1. \A e \in Eurs : f[e] \in Nat
        BY <1>1, HostPartsNat
      <3>2. \A e \in Eurs : g[e] \in Nat
        BY <1>1, HostPartsNat
      <3>3. \A e \in Eurs : k[e] \in Nat
        BY <1>1, HostPartsNat
      <3>4. \A e \in Eurs : f[e] = 0 \/ f[e] = g[e] \/ f[e] = k[e]
        BY <2>2 DEF LaterPart, DuePart
      <3>5. \A e \in Eurs : m[e] = g[e] + k[e]
        OBVIOUS
      <3> HIDE DEF f, g, k, m
      <3>6. \A e \in Eurs : g[e] \in Int /\ k[e] \in Int /\ m[e] = g[e] + k[e]
        BY <3>2, <3>3, <3>5
      <3>7. \A e \in Eurs : m[e] \in Int /\ f[e] \in Int /\ f[e] <= m[e]
        BY <3>1, <3>2, <3>3, <3>4, <3>5
      <3>8. SumFunctionOnSet(m, Eurs) = SumFunctionOnSet(g, Eurs) + SumFunctionOnSet(k, Eurs)
        BY <2>1, <3>6, SumPlus
      <3>9. SumFunctionOnSet(f, Eurs) <= SumFunctionOnSet(m, Eurs)
        BY <2>1, <3>7, SumLeq
      <3> QED
        BY <3>8, <3>9 DEF LaterSum, DueSum, f, g, k
    <2>7. /\ \A t \in Periods : v[t] = IF t = UnbondingPeriod THEN 0 ELSE u[t + 1]
          /\ hostAcct'[z] = ha + u1 /\ deposits'[z] = dp /\ lost'[z] = lost[z]
      BY DEF Tick, Periods, accounts, ghosts
    <2>8. \A t \in Periods : /\ u[t] \in Nat /\ DueSum(hzu, S, z, t) \in Nat
                             /\ u[t] >= DueSum(hzu, S, z, t)
      BY <1>1 DEF HostTypeOK, HostInv, HostAt, BucketsInv
    <2>9. us = vs + u1
      BY <2>7, <2>8, UnbondingPassed
    <2>10. BucketsInv(z)'
      <3> SUFFICES ASSUME NEW t \in Periods
                   PROVE  v[t] >= DueSum(hzu', T, z, t)
        BY DEF BucketsInv
      <3>1. CASE t = UnbondingPeriod
        <4>1. v[t] = 0 /\ DueSum(hzu', T, z, t) = 0
          BY <2>3, <2>4, <2>7, <3>1
        <4> QED
          BY <4>1
      <3>2. CASE t # UnbondingPeriod
        <4>1. t + 1 \in Periods
          BY <2>1, <3>2 DEF Periods
        <4> QED
          BY <2>3, <2>7, <2>8, <3>2, <4>1
      <3> QED
        BY <3>1, <3>2
    <2>11. /\ ha \in Nat /\ us \in Nat /\ lr \in Nat /\ lu \in Nat /\ dp \in Nat /\ hs \in Nat
           /\ ls \in Nat /\ u1 \in Nat /\ d1 \in Nat /\ u1 >= d1 /\ ub \in Nat
      BY <1>1, <2>8, PeriodsFinite DEF HostTypeOK
    <2>12. vs \in Nat /\ lsNext \in Nat
      BY <1>1 DEF HostTypeOK
    <2>13. us <= lu + ls /\ ha + us + lr + ub = dp + lu + hs
      BY DEF HostInv, HostAt, UnbondingInv, HostAcctInv
    <2>17. Unbooked(z)' = ub
      <3>1. OkSum(T, "delegate") = OkSum(S, "delegate")
        BY TickSums DEF SamePacketSums, Accounts, Kinds
      <3> QED
        BY <2>7, <3>1 DEF Unbooked
    <2> HIDE DEF ha, us, vs, lr, lu, dp, ub, hs, ls, lsNext, u1, d1
    <2>14. vs <= lu + lsNext /\ (ha + u1) + vs + lr + ub = dp + lu + hs
      BY <2>6, <2>9, <2>11, <2>12, <2>13
    <2>15. UnbondingInv(z)'
      BY <2>7, <2>14 DEF UnbondingInv, vs, lu, lsNext
    <2>16. HostAcctInv(z)'
      BY <2>5, <2>7, <2>14, <2>17 DEF HostAcctInv, vs, lu, lr
    <2> QED
      BY <2>10, <2>15, <2>16 DEF HostAt
  <1> QED
    BY <1>2, <1>3 DEF HostInv

\* The amounts of the records the host has executed a message of the kind for.
ToldPart(h, pkts, z, kind) ==
    [e \in Eurs |-> IF Told(pkts, kind, e) THEN h[e][z].native ELSE 0]
ToldSum(h, pkts, z, kind) == SumFunctionOnSet(ToldPart(h, pkts, z, kind), Eurs)

\* A packet more, for records of its own.
LEMMA ToldSumAdd ==
    ASSUME NEW h \in RecordStore, NEW z \in Zones, NEW kind,
           NEW S \in SUBSET Packet, Separate(S), NEW p \in S, p.kind # "claim",
           p.kind = kind => p.amount = NativeAmount(h, z, p.eurs)
    PROVE  ToldSum(h, S, z, kind) = ToldSum(h, S \ {p}, z, kind) + Counts(p, kind)
  <1> DEFINE f == ToldPart(h, S, z, kind)
             g == ToldPart(h, S \ {p}, z, kind)
             k == NativePart(h, z)
  <1>1. IsFiniteSet(Eurs) /\ p.eurs \in SUBSET Eurs
    BY UnbondingRecordsAssumption DEF Packet
  <1>2. /\ p.kind = kind => p.amount = SumFunctionOnSet(k, p.eurs)
        /\ \A e \in Eurs : k[e] \in Nat
    BY <1>1, NativeIsSum
  <1>3. \A e \in Eurs : k[e] = h[e][z].native
    BY DEF NativePart
  <1>4. \A e \in Eurs : g[e] \in Int
    BY <1>2, <1>3 DEF ToldPart
  <1>5. \A e \in Eurs \ p.eurs : f[e] = g[e]
    BY NewsRemoved DEF ToldPart
  <1>6. \A e \in p.eurs : e \in Eurs /\ ~Told(S \ {p}, kind, e)
    BY <1>1, NewsRemoved
  <1>7. \A e \in p.eurs : Told(S, kind, e) <=> p.kind = kind /\ p.state = "ok"
    BY NewsOf
  <1>8. CASE p.state = "ok" /\ p.kind = kind
    <2>1. ASSUME NEW e \in p.eurs
          PROVE  k[e] \in Int /\ f[e] = g[e] + k[e]
      <3>1. g[e] = 0 /\ f[e] = k[e]
        BY <1>3, <1>6, <1>7, <1>8 DEF ToldPart
      <3>2. k[e] \in Nat
        BY <1>2, <1>6
      <3> QED
        BY <3>1, <3>2
    <2> HIDE DEF f, g, k
    <2>2. SumFunctionOnSet(f, Eurs) = SumFunctionOnSet(g, Eurs) + SumFunctionOnSet(k, p.eurs)
      BY <1>1, <1>4, <1>5, <2>1, SumMoved
    <2> QED
      BY <1>2, <1>8, <2>2 DEF ToldSum, Counts, f, g
  <1>9. CASE ~(p.state = "ok" /\ p.kind = kind)
    <2>1. \A e \in p.eurs : f[e] = g[e]
      BY <1>6, <1>7, <1>9 DEF ToldPart
    <2> HIDE DEF f, g
    <2>2. \A e \in Eurs : f[e] = g[e]
      BY <1>5, <2>1
    <2>3. SumFunctionOnSet(f, Eurs) = SumFunctionOnSet(g, Eurs)
      BY <1>1, <2>2, SumSame
    <2>4. SumFunctionOnSet(g, Eurs) \in Int
      BY <1>1, <1>4, SumInt
    <2> QED
      BY <1>9, <2>3, <2>4 DEF ToldSum, Counts, f, g
  <1> QED
    BY <1>8, <1>9

LEMMA ToldSumEmpty ==
    ASSUME NEW h, NEW z, NEW kind
    PROVE  ToldSum(h, {}, z, kind) = 0
  <1>1. \A e \in Eurs : ToldPart(h, {}, z, kind)[e] = 0
    BY DEF ToldPart, Told
  <1>2. IsFiniteSet(Eurs)
    BY UnbondingRecordsAssumption
  <1> QED
    BY <1>1, <1>2, SumZero DEF ToldSum

\* What separate packets have executed, counted by packet or by record.
LEMMA ToldSumIsOkSum ==
    ASSUME NEW h \in RecordStore, NEW z \in Zones, NEW kind,
           NEW S \in SUBSET Packet, IsFiniteSet(S), Separate(S),
           \A p \in S : p.kind # "claim" /\ (p.kind = kind => p.amount = NativeAmount(h, z, p.eurs))
    PROVE  OkSum(S, kind) = ToldSum(h, S, z, kind)
  <1> DEFINE B == {U \in SUBSET S : OkSum(U, kind) # ToldSum(h, U, z, kind)}
  <1> SUFFICES ASSUME B # {} PROVE FALSE
    OBVIOUS
  <1>1. PICK T \in B : \A U \in B : U \subseteq T => U = T
    <2>1. B \in SUBSET SUBSET S
      OBVIOUS
    <2> HIDE DEF B
    <2> QED
      BY <2>1, MinimalSubset
  <1>2. T \in SUBSET S /\ OkSum(T, kind) # ToldSum(h, T, z, kind)
    OBVIOUS
  <1>3. T # {}
    BY <1>2, OkSumEmpty, ToldSumEmpty
  <1>4. PICK p \in T : TRUE
    BY <1>3
  <1>5. OkSum(T \ {p}, kind) = ToldSum(h, T \ {p}, z, kind)
    BY <1>1, <1>4
  <1> HIDE DEF B
  <1>6. T \in SUBSET Packet /\ IsFiniteSet(T) /\ Separate(T)
    BY <1>2, FS_Subset DEF Separate
  <1>7. OkSum(T, kind) = OkSum(T \ {p}, kind) + Counts(p, kind)
    BY <1>4, <1>6, OkSumRemove
  <1>8. p.kind # "claim" /\ (p.kind = kind => p.amount = NativeAmount(h, z, p.eurs))
    BY <1>2, <1>4
  <1>9. ToldSum(h, T, z, kind) = ToldSum(h, T \ {p}, z, kind) + Counts(p, kind)
    BY <1>4, <1>6, <1>8, ToldSumAdd
  <1> QED
    BY <1>2, <1>5, <1>7, <1>9

\* A record once nothing is known of the packets that were for it.
LEMMA ForgottenRecord ==
    ASSUME RecordsInv, NEW z \in Zones, NEW e \in Eurs, NEW S, S = channel[z]["DELEGATION"].pkts
    PROVE  /\ \A t : DuePart(hzu, {}, z, t)[e] <= DuePart(hzu, S, z, t)[e]
           /\ LaterPart(hzu, S, z)[e] <= LaterPart(hzu, {}, z)[e] + ToldPart(hzu, S, z, "undelegate")[e]
           /\ HostPart(hzu, {}, z)[e] + ToldPart(hzu, S, z, "undelegate")[e]
                = HostPart(hzu, S, z)[e] + ToldPart(hzu, S, z, "redemption")[e]
  <1>1. hzu[e][z].native \in Nat
    BY DEF RecordsInv, StoresInv, StoresTypeOK, HostZoneUnbonding
  <1>2. /\ Told(S, "undelegate", e) => hzu[e][z].status = "UNBONDING_IN_PROGRESS"
        /\ Told(S, "redemption", e) => hzu[e][z].status = "EXIT_TRANSFER_IN_PROGRESS"
    BY ToldStatus DEF NewsAwaited
  <1>3. /\ \A kind : ~Told({}, kind, e)
        /\ \A t : ~ToldDue({}, e, t)
    BY DEF Told, ToldDue
  <1>4. \A t : Due(hzu, {}, z, e, t) => Due(hzu, S, z, e, t)
    BY <1>3 DEF Due
  <1>5. \A t : DuePart(hzu, {}, z, t)[e] <= DuePart(hzu, S, z, t)[e]
    BY <1>1, <1>4 DEF DuePart
  <1>6. Later(hzu, S, z, e) => Later(hzu, {}, z, e) \/ Told(S, "undelegate", e)
    BY DEF Later, Due, ToldDue, Told
  <1>7. LaterPart(hzu, S, z)[e] <= LaterPart(hzu, {}, z)[e] + ToldPart(hzu, S, z, "undelegate")[e]
    BY <1>1, <1>6 DEF LaterPart, ToldPart
  <1>8. HostPart(hzu, {}, z)[e] + ToldPart(hzu, S, z, "undelegate")[e]
          = HostPart(hzu, S, z)[e] + ToldPart(hzu, S, z, "redemption")[e]
    <2> DEFINE n == hzu[e][z].native
    <2>1. OnHost(hzu, {}, z, e) <=> hzu[e][z].status \in {"EXIT_TRANSFER_QUEUE", "EXIT_TRANSFER_IN_PROGRESS"}
      BY <1>3 DEF OnHost
    <2>2. OnHost(hzu, S, z, e) <=> \/ hzu[e][z].status = "EXIT_TRANSFER_QUEUE"
                                   \/ Told(S, "undelegate", e)
                                   \/ /\ hzu[e][z].status = "EXIT_TRANSFER_IN_PROGRESS"
                                      /\ ~Told(S, "redemption", e)
      BY DEF OnHost
    <2>3. /\ HostPart(hzu, {}, z)[e] = IF OnHost(hzu, {}, z, e) THEN n ELSE 0
          /\ HostPart(hzu, S, z)[e] = IF OnHost(hzu, S, z, e) THEN n ELSE 0
          /\ ToldPart(hzu, S, z, "undelegate")[e] = IF Told(S, "undelegate", e) THEN n ELSE 0
          /\ ToldPart(hzu, S, z, "redemption")[e] = IF Told(S, "redemption", e) THEN n ELSE 0
      BY DEF HostPart, ToldPart
    <2>4. n \in Nat
      BY <1>1
    <2> HIDE DEF n
    <2> QED
      BY <1>2, <2>1, <2>2, <2>3, <2>4
  <1> QED
    BY <1>5, <1>7, <1>8

\* What the host has executed for the records and stride will not be told.
LEMMA ForgottenSums ==
    ASSUME RecordsInv, NEW z \in Zones, NEW S, S = channel[z]["DELEGATION"].pkts
    PROVE  /\ \A t : DueSum(hzu, {}, z, t) <= DueSum(hzu, S, z, t)
           /\ LaterSum(hzu, S, z) <= LaterSum(hzu, {}, z) + OkSum(S, "undelegate")
           /\ HostSum(hzu, {}, z) + OkSum(S, "undelegate") = HostSum(hzu, S, z) + OkSum(S, "redemption")
  <1> DEFINE later == LaterPart(hzu, S, z)
             laterNext == LaterPart(hzu, {}, z)
             onHost == HostPart(hzu, S, z)
             onHostNext == HostPart(hzu, {}, z)
             u == ToldPart(hzu, S, z, "undelegate")
             r == ToldPart(hzu, S, z, "redemption")
             m == [e \in Eurs |-> laterNext[e] + u[e]]
             n == [e \in Eurs |-> onHostNext[e] + u[e]]
  <1>1. IsFiniteSet(Eurs)
    BY UnbondingRecordsAssumption
  <1>2. hzu \in RecordStore /\ S \in SUBSET Packet /\ IsFiniteSet(S) /\ Separate(S)
    BY DEF RecordsInv, StoresInv, StoresTypeOK, RecordStore, Channel, PacketsMatch, Accounts
  <1>3. \A p \in S : /\ p.kind # "claim"
                     /\ p.kind # "delegate" => p.amount = NativeAmount(hzu, z, p.eurs)
    BY PacketRecords
  <1>4. OkSum(S, "undelegate") = ToldSum(hzu, S, z, "undelegate")
    BY <1>2, <1>3, ToldSumIsOkSum
  <1>5. OkSum(S, "redemption") = ToldSum(hzu, S, z, "redemption")
    BY <1>2, <1>3, ToldSumIsOkSum
  <1>6. ASSUME NEW t
        PROVE  DueSum(hzu, {}, z, t) <= DueSum(hzu, S, z, t)
    <2>1. \A e \in Eurs : DuePart(hzu, {}, z, t)[e] \in Nat
      BY <1>2, HostPartsNat
    <2>2. \A e \in Eurs : DuePart(hzu, S, z, t)[e] \in Nat
      BY <1>2, HostPartsNat
    <2>3. \A e \in Eurs : DuePart(hzu, {}, z, t)[e] <= DuePart(hzu, S, z, t)[e]
      BY ForgottenRecord
    <2>4. \A e \in Eurs : /\ DuePart(hzu, S, z, t)[e] \in Int /\ DuePart(hzu, {}, z, t)[e] \in Int
                          /\ DuePart(hzu, {}, z, t)[e] <= DuePart(hzu, S, z, t)[e]
      BY <2>1, <2>2, <2>3
    <2> QED
      BY <1>1, <2>4, SumLeq DEF DueSum
  <1>7. \A e \in Eurs : hzu[e][z].native \in Nat
    BY <1>2 DEF RecordStore, HostZoneUnbonding
  <1>8. /\ \A e \in Eurs : later[e] \in Nat
        /\ \A e \in Eurs : laterNext[e] \in Nat
        /\ \A e \in Eurs : onHost[e] \in Nat
        /\ \A e \in Eurs : onHostNext[e] \in Nat
    BY <1>2, HostPartsNat
  <1>9. /\ \A e \in Eurs : u[e] \in Nat
        /\ \A e \in Eurs : r[e] \in Nat
    BY <1>7 DEF ToldPart
  <1>10. /\ \A e \in Eurs : later[e] <= laterNext[e] + u[e]
         /\ \A e \in Eurs : onHostNext[e] + u[e] = onHost[e] + r[e]
    BY ForgottenRecord
  <1>11. /\ \A e \in Eurs : m[e] = laterNext[e] + u[e]
         /\ \A e \in Eurs : n[e] = onHostNext[e] + u[e]
    OBVIOUS
  <1> HIDE DEF later, laterNext, onHost, onHostNext, u, r, m, n
  <1>12. SumFunctionOnSet(later, Eurs) <= SumFunctionOnSet(m, Eurs)
    <2>1. \A e \in Eurs : m[e] \in Int /\ later[e] \in Int /\ later[e] <= m[e]
      BY <1>8, <1>9, <1>10, <1>11
    <2> QED
      BY <1>1, <2>1, SumLeq
  <1>13. SumFunctionOnSet(m, Eurs) = SumFunctionOnSet(laterNext, Eurs) + SumFunctionOnSet(u, Eurs)
    <2>1. \A e \in Eurs : laterNext[e] \in Int /\ u[e] \in Int /\ m[e] = laterNext[e] + u[e]
      BY <1>8, <1>9, <1>11
    <2> QED
      BY <1>1, <2>1, SumPlus
  <1>14. SumFunctionOnSet(n, Eurs) = SumFunctionOnSet(onHostNext, Eurs) + SumFunctionOnSet(u, Eurs)
    <2>1. \A e \in Eurs : onHostNext[e] \in Int /\ u[e] \in Int /\ n[e] = onHostNext[e] + u[e]
      BY <1>8, <1>9, <1>11
    <2> QED
      BY <1>1, <2>1, SumPlus
  <1>15. SumFunctionOnSet(n, Eurs) = SumFunctionOnSet(onHost, Eurs) + SumFunctionOnSet(r, Eurs)
    <2>1. \A e \in Eurs : onHost[e] \in Int /\ r[e] \in Int /\ n[e] = onHost[e] + r[e]
      BY <1>8, <1>9, <1>10, <1>11
    <2> QED
      BY <1>1, <2>1, SumPlus
  <1>16. LaterSum(hzu, S, z) <= LaterSum(hzu, {}, z) + OkSum(S, "undelegate")
    BY <1>4, <1>12, <1>13 DEF LaterSum, ToldSum, later, laterNext, u
  <1>17. HostSum(hzu, {}, z) + OkSum(S, "undelegate") = HostSum(hzu, S, z) + OkSum(S, "redemption")
    BY <1>4, <1>5, <1>14, <1>15 DEF HostSum, ToldSum, onHost, onHostNext, u, r
  <1> QED
    BY <1>6, <1>16, <1>17

\* A closed delegation channel: what it had executed is lost, and the records
\* of a lost undelegation will be undelegated again.
LEMMA ForgottenHost ==
    ASSUME RecordsInv, RecordsInv', HostInv, NEW z \in Zones, NEW X,
           CloseChannel(z, "DELEGATION", X), hzu' = hzu
    PROVE  HostAt(z)'
  <1> DEFINE S == channel[z]["DELEGATION"].pkts
             ha == hostAcct[z]
             us == UnbondingSum(unbonding[z])
             lr == lost[z]["redemption"]
             lu == lost[z]["undelegate"]
             dp == deposits[z]
             hs == HostSum(hzu, S, z)
             hsNext == HostSum(hzu, {}, z)
             ls == LaterSum(hzu, S, z)
             lsNext == LaterSum(hzu, {}, z)
             okU == OkSum(S, "undelegate")
             okR == OkSum(S, "redemption")
             ub == Unbooked(z)
  <1>1. StoresInv /\ StoresTypeOK /\ AccountsTypeOK /\ HostTypeOK /\ "DELEGATION" \in Accounts
    BY HostTypes DEF RecordsInv, StoresInv, Accounts
  <1>2. channel'[z]["DELEGATION"].pkts = {}
    BY <1>1, CloseChannelEffect
  <1>3. UNCHANGED <<hostAcct, unbonding, deposits>>
    BY DEF CloseChannel, accounts, host
  <1>4. \A kind \in Kinds : lost'[z][kind] = lost[z][kind] + OkSum(S, kind)
    <2> SUFFICES ASSUME NEW kind \in Kinds
                 PROVE  lost'[z][kind] = lost[z][kind] + OkSum(S, kind)
      OBVIOUS
    <2>1. lost'[z][kind] = lost[z][kind] + Executed(z, "DELEGATION", kind)
      BY <1>1 DEF CloseChannel, AccountsTypeOK
    <2> QED
      BY <2>1, ExecutedSum DEF OkSum
  <1>5. lost'[z]["undelegate"] = lu + okU /\ lost'[z]["redemption"] = lr + okR
    BY <1>4 DEF Kinds
  <1>17. Unbooked(z)' = ub
    <2>1. lost'[z]["delegate"] = lost[z]["delegate"] + OkSum(S, "delegate")
      BY <1>4 DEF Kinds
    <2>2. OkSum({}, "delegate") = 0
      BY OkSumEmpty
    <2>3. lost[z]["delegate"] \in Nat /\ OkSum(S, "delegate") \in Nat
      BY <1>1, DelegateSumNat DEF AccountsTypeOK, Kinds
    <2> QED
      BY <1>2, <2>1, <2>2, <2>3 DEF Unbooked
  <1>6. /\ \A t : DueSum(hzu, {}, z, t) <= DueSum(hzu, S, z, t)
        /\ ls <= lsNext + okU
        /\ hsNext + okU = hs + okR
    BY ForgottenSums
  <1>7. /\ ha \in Nat /\ us \in Nat /\ lr \in Nat /\ lu \in Nat /\ dp \in Nat /\ hs \in Nat
        /\ ls \in Nat /\ ub \in Nat
    BY <1>1 DEF HostTypeOK
  <1>8. \A t : DueSum(hzu, {}, z, t) \in Nat
    BY <1>1, HostSumsNat DEF StoresTypeOK, RecordStore
  <1>9. lsNext \in Nat /\ hsNext \in Nat
    BY <1>1, HostSumsNat DEF StoresTypeOK, RecordStore
  <1>10. S \in SUBSET Packet /\ IsFiniteSet(S)
    BY <1>1 DEF StoresTypeOK, Channel
  <1>11. okU \in Nat /\ okR \in Nat
    BY <1>10, OkSumNat
  <1>12. us <= lu + ls /\ ha + us + lr + ub = dp + lu + hs
    BY DEF HostInv, HostAt, UnbondingInv, HostAcctInv
  <1>13. BucketsInv(z)'
    <2> SUFFICES ASSUME NEW t \in Periods
                 PROVE  unbonding[z][t] >= DueSum(hzu, {}, z, t)
      BY <1>2, <1>3 DEF BucketsInv
    <2> DEFINE u == unbonding[z][t]
               d == DueSum(hzu, S, z, t)
               dNext == DueSum(hzu, {}, z, t)
    <2>1. u \in Nat /\ d \in Nat /\ u >= d
      BY <1>1 DEF HostTypeOK, HostInv, HostAt, BucketsInv
    <2>2. dNext \in Nat /\ dNext <= d
      BY <1>6, <1>8
    <2> HIDE DEF u, d, dNext
    <2>3. u >= dNext
      BY <2>1, <2>2
    <2> QED
      BY <2>3 DEF u, dNext
  <1> HIDE DEF ha, us, lr, lu, dp, hs, hsNext, ls, lsNext, okU, okR, ub
  <1>14. us <= (lu + okU) + lsNext /\ ha + us + (lr + okR) + ub = dp + (lu + okU) + hsNext
    BY <1>6, <1>7, <1>9, <1>11, <1>12
  <1>15. UnbondingInv(z)'
    BY <1>2, <1>3, <1>5, <1>14 DEF UnbondingInv, us, lsNext
  <1>16. HostAcctInv(z)'
    BY <1>2, <1>3, <1>5, <1>14, <1>17 DEF HostAcctInv, us, hsNext, ha, dp
  <1> QED
    BY <1>13, <1>15, <1>16 DEF HostAt

LEMMA CloseHost ==
    ASSUME RecordsInv, RecordsInv', HostInv, NEW z \in Zones, NEW a \in Accounts, NEW X,
           CloseChannel(z, a, X), hzu' = hzu
    PROVE  HostInv'
  <1>1. StoresInv /\ AccountsTypeOK /\ PacketsWellFormed
    BY DEF RecordsInv, StoresInv
  <1>2. \A y \in Zones, b \in Accounts : ~(y = z /\ b = a) => channel'[y][b] = channel[y][b]
    BY <1>1, CloseChannelEffect
  <1>3. UNCHANGED <<hostAcct, unbonding, deposits>>
    BY DEF CloseChannel, accounts, host
  <1>4. SweptInv'
    BY DEF HostInv, SweptInv
  <1>5. ASSUME NEW y \in Zones, y # z \/ a = "REDEMPTION"
        PROVE  HostAt(y)'
    <2>1. channel'[y]["DELEGATION"] = channel[y]["DELEGATION"]
      BY <1>2, <1>5 DEF Accounts
    <2>2. /\ lost'[y]["undelegate"] = lost[y]["undelegate"]
          /\ lost'[y]["redemption"] = lost[y]["redemption"]
          /\ lost'[y]["delegate"] = lost[y]["delegate"]
      <3>1. CASE y # z
        BY <1>1, <3>1 DEF CloseChannel, AccountsTypeOK
      <3>2. CASE y = z /\ a = "REDEMPTION"
        <4>1. \A p \in channel[z][a].pkts : p.kind = "claim"
          BY <1>1, <3>2 DEF PacketsWellFormed, RedemptionShape
        <4>2. \A kind \in {"undelegate", "redemption", "delegate"} :
                OkSum(channel[z][a].pkts, kind) = 0
          BY <4>1, OkSumOther
        <4>3. \A kind \in {"undelegate", "redemption", "delegate"} : Executed(z, a, kind) = 0
          BY <4>2, ExecutedSum DEF OkSum
        <4>4. \A kind \in {"undelegate", "redemption", "delegate"} :
                lost'[z][kind] = lost[z][kind] + Executed(z, a, kind) /\ lost[z][kind] \in Nat
          BY <1>1 DEF CloseChannel, AccountsTypeOK, Kinds
        <4> QED
          BY <3>2, <4>3, <4>4
      <3> QED
        BY <1>5, <3>1, <3>2
    <2>3. hostAcct[y] \in Nat /\ deposits[y] \in Nat /\ Unbooked(y) \in Nat
      BY HostTypes DEF HostTypeOK
    <2>4. QuietHostAt(y)
      <3>1. Unbooked(y)' = Unbooked(y)
        BY <2>1, <2>2 DEF Unbooked
      <3> QED
        BY <1>3, <2>2, <2>3, <3>1 DEF QuietHostAt
    <2>5. SameNews(channel'[y]["DELEGATION"].pkts, channel[y]["DELEGATION"].pkts)
      BY <2>1 DEF SameNews
    <2>6. \A e \in Eurs : SameRecord(y, e)
      BY <2>5, KeptRecord
    <2> QED
      BY <2>4, <2>6, QuietZone DEF HostInv
  <1>6. CASE a = "DELEGATION"
    <2>1. HostAt(z)'
      BY <1>6, ForgottenHost
    <2> QED
      BY <1>4, <1>5, <2>1 DEF HostInv
  <1>7. CASE a = "REDEMPTION"
    BY <1>4, <1>5, <1>7 DEF HostInv
  <1> QED
    BY <1>6, <1>7 DEF Accounts

-----------------------------------------------------------------------------
(* The host's balances always add up *)

LEMMA HostInvInit ==
    Init => HostInv
  <1> SUFFICES ASSUME Init PROVE HostInv
    OBVIOUS
  <1>1. IsFiniteSet(Eurs) /\ InitialDeposits \in Nat
    BY UnbondingRecordsAssumption
  <1>2. SweptInv
    BY DEF Init, SweptInv, NewUnbonding, NoUnbonding
  <1>3. ASSUME NEW z \in Zones
        PROVE  HostAt(z)
    <2>1. /\ channel[z]["DELEGATION"].pkts = {}
          /\ \A e \in Eurs : hzu[e][z].native = 0
          /\ \A t \in Periods : unbonding[z][t] = 0
          /\ hostAcct[z] = InitialDeposits /\ deposits[z] = InitialDeposits
          /\ lost[z]["undelegate"] = 0 /\ lost[z]["redemption"] = 0
          /\ lost[z]["delegate"] = 0
      BY DEF Init, NewUnbonding, NoUnbonding, Periods, Kinds, Accounts
    <2>2. \A t : \A e \in Eurs : DuePart(hzu, {}, z, t)[e] = 0
      BY <2>1 DEF DuePart
    <2>3. \A e \in Eurs : LaterPart(hzu, {}, z)[e] = 0
      BY <2>1 DEF LaterPart
    <2>4. \A e \in Eurs : HostPart(hzu, {}, z)[e] = 0
      BY <2>1 DEF HostPart
    <2>5. \A t : DueSum(hzu, {}, z, t) = 0
      BY <1>1, <2>2, SumZero DEF DueSum
    <2>6. LaterSum(hzu, {}, z) = 0
      BY <1>1, <2>3, SumZero DEF LaterSum
    <2>7. HostSum(hzu, {}, z) = 0
      BY <1>1, <2>4, SumZero DEF HostSum
    <2>8. UnbondingSum(unbonding[z]) = 0
      BY <2>1, PeriodsFinite, SumZero DEF UnbondingSum
    <2>9. BucketsInv(z)
      BY <2>1, <2>5 DEF BucketsInv
    <2>10. UnbondingInv(z)
      BY <2>1, <2>6, <2>8 DEF UnbondingInv
    <2>12. Unbooked(z) = 0
      BY <2>1, OkSumEmpty DEF Unbooked
    <2>11. HostAcctInv(z)
      BY <1>1, <2>1, <2>7, <2>8, <2>12 DEF HostAcctInv
    <2> QED
      BY <2>9, <2>10, <2>11 DEF HostAt
  <1> QED
    BY <1>2, <1>3 DEF HostInv

LEMMA HostInvNext ==
    RecordsInv /\ HostInv /\ [Next]_vars => HostInv'
  <1> SUFFICES ASSUME RecordsInv, HostInv, [Next]_vars PROVE HostInv'
    OBVIOUS
  <1>1. RecordsInv'
    BY RecordsInvNext
  <1>2. ASSUME NEW lag \in 0..MaxLag, DayEpoch(lag) PROVE HostInv'
    BY <1>1, <1>2, DayEpochHost
  <1>3. CASE Tick
    BY <1>1, <1>3, TickHost
  <1>4. ASSUME NEW z \in Zones, NEW u \in Users, NEW amount \in RedeemAmounts, RedeemStake(z, u, amount)
        PROVE  HostInv'
    BY <1>1, <1>4, RedeemStakeHost
  <1>5. ASSUME NEW z \in Zones, NEW e \in Eurs, NEW u \in Users, ClaimUndelegatedTokens(e, z, u)
        PROVE  HostInv'
    BY <1>1, <1>5, ClaimHost
  <1>6. ASSUME NEW z \in Zones, NEW a \in Accounts, NEW p \in channel[z][a].pkts,
               NEW result \in {"ok", "err"}, ExecuteICA(z, a, p, result)
        PROVE  HostInv'
    BY <1>1, <1>6, ExecuteICAHost
  <1>7. ASSUME NEW z \in Zones, NEW a \in Accounts, NEW p \in channel[z][a].pkts, AckICA(z, a, p)
        PROVE  HostInv'
    <2>1. CASE p.kind = "claim"
      BY <1>1, <1>7, <2>1, AckClaimHost
    <2>2. CASE p.kind = "delegate"
      BY <1>1, <1>7, <2>2, AckDelegateHost
    <2>3. CASE p.kind # "claim" /\ p.kind # "delegate"
      BY <1>1, <1>7, <2>3, AckDelegationHost
    <2> QED
      BY <2>1, <2>2, <2>3
  <1>8. ASSUME NEW z \in Zones, NEW a \in Accounts, NEW p \in channel[z][a].pkts, TimeoutICA(z, a, p)
        PROVE  HostInv'
    <2>1. CloseChannel(z, a, {p})
      BY <1>8 DEF TimeoutICA
    <2>2. hzu' = hzu
      BY <1>8 DEF TimeoutICA, ClaimCallback
    <2> QED
      BY <1>1, <2>1, <2>2, CloseHost
  <1>9. ASSUME NEW z \in Zones, NEW a \in Accounts, RestoreInterchainAccount(z, a)
        PROVE  HostInv'
    BY <1>1, <1>9, RestoreHost
  <1>10. ASSUME NEW z \in Zones, NEW a \in Accounts, ChanOpenAck(z, a)
         PROVE  HostInv'
    BY <1>1, <1>10, ChanOpenAckHost
  <1>11. ASSUME NEW z \in Zones, TimeoutOfAnother(z)
         PROVE  HostInv'
    <2>1. CloseChannel(z, "DELEGATION", {}) /\ "DELEGATION" \in Accounts /\ hzu' = hzu
      BY <1>11 DEF TimeoutOfAnother, Accounts
    <2> QED
      BY <1>1, <2>1, CloseHost
  <1>12. ASSUME NEW z \in Zones, DepositsSide(z) PROVE HostInv'
    BY <1>1, <1>12, DepositsSideHost
  <1>13. ASSUME NEW k \in orphans, TimeoutOnClose(k) PROVE HostInv'
    BY <1>1, <1>13, TimeoutOnCloseHost
  <1>14. CASE UNCHANGED vars
    <2>1. UNCHANGED <<hzu, channel, hostAcct, deposits, unbonding, lost>>
      BY <1>14 DEF vars, records, ghosts, accounts, host
    <2>2. QuietHost /\ SweptInv'
      BY <2>1, QuietAccounts DEF HostInv, SweptInv
    <2>3. ASSUME NEW z \in Zones, NEW e \in Eurs
          PROVE  SameRecord(z, e)
      <3>1. SameNews(channel'[z]["DELEGATION"].pkts, channel[z]["DELEGATION"].pkts)
        BY <2>1 DEF SameNews
      <3> QED
        BY <2>1, <3>1, KeptRecord
    <2> QED
      BY <1>1, <2>2, <2>3, QuietHostStep
  <1>15. ASSUME NEW z \in Zones, NEW amount \in 1..deposits[z], DelegateOnHost(z, amount)
         PROVE  HostInv'
    BY <1>1, <1>15, DelegatedAmount, DelegateOnHostHost
  <1> QED
    BY <1>2, <1>3, <1>4, <1>5, <1>6, <1>7, <1>8, <1>9, <1>10, <1>11, <1>12, <1>13, <1>14, <1>15
       DEF Next, DepositsSide

LEMMA HostInvHolds ==
    Spec => [](RecordsInv /\ HostInv)
    BY RecordsInvHolds, HostInvInit, HostInvNext, PTL DEF Spec

\* The account that sweeps and delegations are paid from holds the tokens of the
\* deposits that wait in it, up to what was delegated or swept without the news:
\* whatever else is executed, lost, restored and repeated, a sweep takes
\* unbonded tokens and not those of deposits.
THEOREM DepositsNotSweptHolds ==
    Spec => []DepositsNotSwept
  <1>1. RecordsInv /\ HostInv => DepositsNotSwept
    <2> SUFFICES ASSUME RecordsInv, HostInv, NEW z \in Zones
                 PROVE  hostAcct[z] + lost[z]["delegate"] + Executed(z, "DELEGATION", "delegate")
                          + lost[z]["redemption"] >= deposits[z]
      BY DEF DepositsNotSwept
    <2> DEFINE pkts == channel[z]["DELEGATION"].pkts
               ha == hostAcct[z]
               us == UnbondingSum(unbonding[z])
               lr == lost[z]["redemption"]
               lu == lost[z]["undelegate"]
               ld == lost[z]["delegate"]
               od == OkSum(pkts, "delegate")
               dp == deposits[z]
               hs == HostSum(hzu, pkts, z)
               ls == LaterSum(hzu, pkts, z)
    <2>1. us <= lu + ls /\ ha + us + lr + (ld + od) = dp + lu + hs
      BY DEF HostInv, HostAt, UnbondingInv, HostAcctInv, Unbooked
    <2>2. /\ ha \in Nat /\ us \in Nat /\ lr \in Nat /\ lu \in Nat /\ dp \in Nat /\ hs \in Nat
          /\ ls \in Nat
      BY HostTypes DEF HostTypeOK
    <2>5. ld \in Nat /\ od \in Nat
      BY DelegateSumNat DEF RecordsInv, AccountsTypeOK, Kinds
    <2>3. ls <= hs
      <3>1. hzu \in RecordStore
        BY DEF RecordsInv, StoresInv, StoresTypeOK, RecordStore
      <3> QED
        BY <3>1, HostSumsNat
    <2>6. Executed(z, "DELEGATION", "delegate") = od
      BY ExecutedSum
    <2> HIDE DEF ha, us, lr, lu, ld, od, dp, hs, ls
    <2>4. ha + ld + od + lr >= dp
      BY <2>1, <2>2, <2>3, <2>5
    <2> QED
      BY <2>4, <2>6 DEF ha, ld, lr, dp
  <1> QED
    BY <1>1, HostInvHolds, PTL

-----------------------------------------------------------------------------
(* UnbondingRecords implements RedemptionLifecycle *)

StageNow(e, z) == StageOf(hzu, channel[z]["DELEGATION"].pkts, current, e, z)
StageNext(e, z) == StageOf(hzu', channel'[z]["DELEGATION"].pkts, current', e, z)
OwedNow(e, z, u) == RedemptionOf(urr, paid, e, z, u)
OwedNext(e, z, u) == RedemptionOf(urr', paid', e, z, u)

Simulates == Lifecycle!Next \/ UNCHANGED <<batches, redemptions>>

LEMMA StageCases ==
    ASSUME NEW h, NEW pkts, NEW cur, NEW e, NEW z
    PROVE  LET stage == StageOf(h, pkts, cur, e, z) IN
           /\ h[e][z].status = "NONE" => stage = "none"
           /\ h[e][z].status = "UNBONDING_QUEUE" =>
                stage = IF e = cur THEN "collecting" ELSE "queued"
           /\ h[e][z].status = "UNBONDING_IN_PROGRESS" =>
                stage = IF Told(pkts, "undelegate", e) THEN "undelegated" ELSE "queued"
           /\ h[e][z].status = "EXIT_TRANSFER_QUEUE" => stage = "unbonding"
           /\ h[e][z].status = "EXIT_TRANSFER_IN_PROGRESS" =>
                stage = IF Told(pkts, "redemption", e) THEN "swept" ELSE "unbonding"
           /\ h[e][z].status = "CLAIMABLE" => stage = "claimable"
    BY DEF StageOf

\* The mapping before and after a step.
LEMMA Mapping ==
    /\ \A e \in Eurs, z \in Zones : batches[e][z] = StageNow(e, z)
    /\ \A e \in Eurs, z \in Zones : batches'[e][z] = StageNext(e, z)
    /\ batches = [e \in Eurs |-> [z \in Zones |-> StageNow(e, z)]]
    /\ batches' = [e \in Eurs |-> [z \in Zones |-> StageNext(e, z)]]
    /\ \A e \in Eurs, z \in Zones, u \in Users : redemptions[e][z][u] = OwedNow(e, z, u)
    /\ \A e \in Eurs, z \in Zones, u \in Users : redemptions'[e][z][u] = OwedNext(e, z, u)
    /\ redemptions = [e \in Eurs |-> [z \in Zones |-> [u \in Users |-> OwedNow(e, z, u)]]]
    /\ redemptions' = [e \in Eurs |-> [z \in Zones |-> [u \in Users |-> OwedNext(e, z, u)]]]
    BY DEF batches, redemptions, StageNow, StageNext, OwedNow, OwedNext

\* The record of a redemption with and without one, unpaid and paid.
LEMMA OwedCases ==
    ASSUME NEW r, NEW done, NEW e, NEW z, NEW u
    PROVE  LET owed == RedemptionOf(r, done, e, z, u)
               k == [eur |-> e, zone |-> z, user |-> u]
           IN
           /\ r[e][z][u] = NoRedemption => owed = Lifecycle!None
           /\ r[e][z][u] # NoRedemption /\ k \notin done =>
                owed = Lifecycle!Redemption("owed", r[e][z][u].amount)
           /\ r[e][z][u] # NoRedemption /\ k \in done =>
                owed = Lifecycle!Redemption("paid", r[e][z][u].amount)
    BY Zenon DEF RedemptionOf, Lifecycle!None, Lifecycle!Redemption

\* The packets of a zone's delegation channel tell the same of a record.
ToldSame(e, z) ==
    \A kind \in Kinds : Told(channel'[z]["DELEGATION"].pkts, kind, e)
                          <=> Told(channel[z]["DELEGATION"].pkts, kind, e)

\* A record keeps its stage with its status, as long as the same is known.
LEMMA SameStage ==
    ASSUME RecordsInv, NEW e \in Eurs, NEW z \in Zones,
           hzu'[e][z].status = hzu[e][z].status,
           hzu[e][z].status = "UNBONDING_QUEUE" => (current' = e <=> current = e),
           ToldSame(e, z)
    PROVE  StageNext(e, z) = StageNow(e, z)
  <1> DEFINE before == channel[z]["DELEGATION"].pkts
             after == channel'[z]["DELEGATION"].pkts
  <1>1. hzu[e][z].status \in Statuses
    BY DEF RecordsInv, StoresInv, StoresTypeOK, HostZoneUnbonding
  <1>2. /\ Told(after, "undelegate", e) <=> Told(before, "undelegate", e)
        /\ Told(after, "redemption", e) <=> Told(before, "redemption", e)
    BY DEF ToldSame, Kinds
  <1> HIDE DEF before, after
  <1>3. /\ StageNow(e, z) = StageOf(hzu, before, current, e, z)
        /\ StageNext(e, z) = StageOf(hzu', after, current', e, z)
    BY DEF StageNow, StageNext, before, after
  <1> QED
    BY <1>1, <1>2, <1>3, StageCases DEF Statuses

LEMMA SameBatches ==
    ASSUME \A e \in Eurs, z \in Zones : StageNext(e, z) = StageNow(e, z)
    PROVE  batches' = batches
    BY Mapping, Zenon

LEMMA SameRedemptions ==
    ASSUME \A e \in Eurs, z \in Zones, u \in Users : OwedNext(e, z, u) = OwedNow(e, z, u)
    PROVE  redemptions' = redemptions
    BY Mapping, Zenon

LEMMA NoneOwed ==
    ASSUME UNCHANGED <<urr, paid>>
    PROVE  redemptions' = redemptions
    BY SameRedemptions DEF OwedNow, OwedNext

LEMMA SameQuiet ==
    ASSUME batches' = batches, redemptions' = redemptions
    PROVE  Simulates
    BY DEF Simulates

\* How the batches of a zone that take a step show in the mapping ...
LEMMA BatchesMove ==
    ASSUME NEW z \in Zones, NEW S \in SUBSET Eurs, NEW from, NEW to,
           \A e \in S : StageNow(e, z) = from /\ StageNext(e, z) = to,
           \A e \in Eurs, y \in Zones : ~(e \in S /\ y = z) => StageNext(e, y) = StageNow(e, y),
           redemptions' = redemptions
    PROVE  Lifecycle!Move(S, z, from, to)
  <1>1. \A e \in Eurs, y \in Zones :
          StageNext(e, y) = IF e \in S /\ y = z THEN to ELSE batches[e][y]
    BY Mapping
  <1>2. batches' = [e \in Eurs |-> [y \in Zones |->
          IF e \in S /\ y = z THEN to ELSE batches[e][y]]]
    BY <1>1, Mapping
  <1>3. \A e \in S : batches[e][z] = from
    BY Mapping
  <1> QED
    BY <1>2, <1>3 DEF Lifecycle!Move

\* ... and the redemption of one user.
LEMMA RedemptionMoves ==
    ASSUME NEW e \in Eurs, NEW z \in Zones, NEW u \in Users, NEW r,
           OwedNext(e, z, u) = r,
           \A f \in Eurs, y \in Zones, v \in Users :
             ~(f = e /\ y = z /\ v = u) => OwedNext(f, y, v) = OwedNow(f, y, v),
           batches' = batches
    PROVE  Lifecycle!Becomes(e, z, u, r)
  <1> DEFINE owed(f, y, v) == IF f = e /\ y = z /\ v = u THEN r ELSE OwedNow(f, y, v)
             users == [redemptions[e][z] EXCEPT ![u] = r]
             zones == [redemptions[e] EXCEPT ![z] = users]
             new == [redemptions EXCEPT ![e] = zones]
  <1>1. /\ redemptions[e] = [y \in Zones |-> [v \in Users |-> OwedNow(e, y, v)]]
        /\ redemptions[e][z] = [v \in Users |-> OwedNow(e, z, v)]
    BY Mapping, Zenon
  <1>2. users = [v \in Users |-> owed(e, z, v)]
    BY <1>1
  <1>3. zones = [y \in Zones |-> [v \in Users |-> owed(e, y, v)]]
    <2> HIDE DEF users
    <2>1. zones = [y \in Zones |-> IF y = z THEN users ELSE [v \in Users |-> OwedNow(e, y, v)]]
      BY <1>1
    <2>2. ASSUME NEW y \in Zones
          PROVE  (IF y = z THEN users ELSE [v \in Users |-> OwedNow(e, y, v)])
                   = [v \in Users |-> owed(e, y, v)]
      BY <1>2
    <2> HIDE DEF zones, owed
    <2> QED
      BY <2>1, <2>2, Zenon
  <1>4. new = [f \in Eurs |-> [y \in Zones |-> [v \in Users |-> owed(f, y, v)]]]
    <2> HIDE DEF zones
    <2>1. new = [f \in Eurs |-> IF f = e THEN zones
                   ELSE [y \in Zones |-> [v \in Users |-> OwedNow(f, y, v)]]]
      BY Mapping
    <2>2. ASSUME NEW f \in Eurs
          PROVE  (IF f = e THEN zones ELSE [y \in Zones |-> [v \in Users |-> OwedNow(f, y, v)]])
                   = [y \in Zones |-> [v \in Users |-> owed(f, y, v)]]
      BY <1>3
    <2> HIDE DEF new, owed
    <2> QED
      BY <2>1, <2>2, Zenon
  <1>5. \A f \in Eurs, y \in Zones, v \in Users : OwedNext(f, y, v) = owed(f, y, v)
    OBVIOUS
  <1>6. redemptions' = new
    <2> HIDE DEF new, owed
    <2>1. [f \in Eurs |-> [y \in Zones |-> [v \in Users |-> OwedNext(f, y, v)]]]
            = [f \in Eurs |-> [y \in Zones |-> [v \in Users |-> owed(f, y, v)]]]
      BY <1>5
    <2>2. redemptions' = [f \in Eurs |-> [y \in Zones |-> [v \in Users |-> OwedNext(f, y, v)]]]
      BY Mapping
    <2> QED
      BY <1>4, <2>1, <2>2, Zenon
  <1>7. redemptions' = [redemptions EXCEPT ![e][z][u] = r]
    BY <1>6
  <1> QED
    BY <1>7 DEF Lifecycle!Becomes

\* Executed claims are in the history until they are acknowledged.
ClaimsPaid ==
    \A z \in Zones : \A p \in channel[z]["REDEMPTION"].pkts :
        p.state = "ok" => Keys(z, p) \subseteq paid

LEMMA SameKeys ==
    ASSUME NEW z, NEW p, NEW q, Same(p, q)
    PROVE  Keys(z, p) = Keys(z, q)
    BY DEF Keys, Same

LEMMA ClaimsPaidKept ==
    ASSUME ClaimsPaid, paid \subseteq paid',
           \A z \in Zones : \A q \in channel'[z]["REDEMPTION"].pkts : q.state = "ok" =>
              \E p \in channel[z]["REDEMPTION"].pkts : Same(q, p) /\ q.state = p.state
    PROVE  ClaimsPaid'
  <1> SUFFICES ASSUME NEW z \in Zones, NEW q \in channel'[z]["REDEMPTION"].pkts, q.state = "ok"
               PROVE  Keys(z, q) \subseteq paid'
    BY DEF ClaimsPaid, Keys
  <1>1. PICK p \in channel[z]["REDEMPTION"].pkts : Same(q, p) /\ q.state = p.state
    OBVIOUS
  <1>2. Keys(z, q) = Keys(z, p)
    BY <1>1, SameKeys
  <1> QED
    BY <1>1, <1>2 DEF ClaimsPaid

LEMMA SameClaims ==
    ASSUME ClaimsPaid, paid \subseteq paid',
           \A z \in Zones : channel'[z]["REDEMPTION"].pkts \subseteq channel[z]["REDEMPTION"].pkts
    PROVE  ClaimsPaid'
  <1>1. \A p : Same(p, p)
    BY DEF Same
  <1> QED
    BY <1>1, ClaimsPaidKept

LEMMA ExecuteClaims ==
    ASSUME RecordsInv, ClaimsPaid, NEW z \in Zones, NEW a \in Accounts,
           NEW p \in channel[z][a].pkts, NEW result \in {"ok", "err"}, ExecuteICA(z, a, p, result)
    PROVE  ClaimsPaid'
  <1> DEFINE done == ExecutedPacket(p, result)
  <1>1. StoresInv
    BY DEF RecordsInv
  <1>2. /\ p \in Packet
        /\ channel'[z][a].pkts = (channel[z][a].pkts \ {p}) \cup {done}
        /\ \A y \in Zones, b \in Accounts : ~(y = z /\ b = a) => channel'[y][b] = channel[y][b]
    BY <1>1, ExecuteICAChannel
  <1>3. Same(done, p) /\ done.state = result
    BY <1>2, ExecutedPacketSame
  <1> HIDE DEF done
  <1>4. paid \subseteq paid' /\ (p.kind = "claim" /\ result = "ok" => Keys(z, p) \subseteq paid')
    BY DEF ExecuteICA
  <1>5. a = "REDEMPTION" => p.kind = "claim"
    BY <1>1 DEF StoresInv, PacketsWellFormed, RedemptionShape
  <1> SUFFICES ASSUME NEW y \in Zones, NEW q \in channel'[y]["REDEMPTION"].pkts, q.state = "ok"
               PROVE  Keys(y, q) \subseteq paid'
    BY DEF ClaimsPaid, Keys
  <1>6. CASE q \in channel[y]["REDEMPTION"].pkts
    BY <1>4, <1>6 DEF ClaimsPaid
  <1>7. CASE q \notin channel[y]["REDEMPTION"].pkts
    <2>1. y = z /\ a = "REDEMPTION" /\ q = done
      BY <1>2, <1>7 DEF Accounts
    <2>2. Keys(y, q) = Keys(z, p)
      BY <1>3, <2>1, SameKeys
    <2> QED
      BY <1>3, <1>4, <1>5, <2>1, <2>2
  <1> QED
    BY <1>6, <1>7

LEMMA AckClaims ==
    ASSUME RecordsInv, ClaimsPaid, NEW z \in Zones, NEW a \in Accounts,
           NEW p \in channel[z][a].pkts, AckICA(z, a, p)
    PROVE  ClaimsPaid'
  <1>1. StoresInv
    BY DEF RecordsInv
  <1>2. /\ p \in Packet
        /\ channel' \in [Zones -> [Accounts -> Channel]]
        /\ \A y \in Zones, b \in Accounts : IsFiniteSet(channel'[y][b].pkts)
        /\ ChannelsDerived
        /\ channel'[z][a].pkts = MovedUp(channel[z][a].pkts \ {p})
        /\ \A q \in channel'[z][a].pkts :
             \E x \in channel[z][a].pkts \ {p} : Same(q, x) /\ q.state = x.state
        /\ \A y \in Zones, b \in Accounts : ~(y = z /\ b = a) => channel'[y][b] = channel[y][b]
    BY <1>1, AckChannel
  <1>3. \A q : Same(q, q)
    BY DEF Same
  <1>4. ASSUME NEW y \in Zones, NEW q \in channel'[y]["REDEMPTION"].pkts
        PROVE  \E x \in channel[y]["REDEMPTION"].pkts :
                 Same(q, x) /\ q.state = x.state /\ (y = z /\ a = "REDEMPTION" => x # p)
    BY <1>2, <1>3 DEF Accounts
  <1>5. CASE p.kind # "claim"
    <2>1. paid' = paid
      BY <1>5 DEF AckICA
    <2> QED
      BY <1>4, <2>1, ClaimsPaidKept
  <1>6. CASE p.kind = "claim"
    <2>1. PICK k \in Keys(z, p) : ClaimCallback(k, p.state)
      BY <1>6 DEF AckICA
    <2>2. /\ a = "REDEMPTION" /\ k \in Key /\ k.zone = z
          /\ \A q \in channel[z]["REDEMPTION"].pkts :
               k.eur \in q.eurs /\ k.user \in q.users => q = p
      BY <1>1, <1>6, ClaimKey
    <2>3. paid \ {k} \subseteq paid'
      BY <2>1 DEF ClaimCallback
    <2> SUFFICES ASSUME NEW y \in Zones, NEW q \in channel'[y]["REDEMPTION"].pkts, q.state = "ok"
                 PROVE  Keys(y, q) \subseteq paid'
      BY DEF ClaimsPaid, Keys
    <2>4. PICK x \in channel[y]["REDEMPTION"].pkts :
             Same(q, x) /\ q.state = x.state /\ (y = z => x # p)
      BY <1>4, <2>2
    <2>5. Keys(y, q) = Keys(y, x) /\ Keys(y, x) \subseteq paid
      BY <2>4, SameKeys DEF ClaimsPaid
    <2>6. k \notin Keys(y, x)
      BY <2>2, <2>4, KeysMember
    <2> QED
      BY <2>3, <2>5, <2>6
  <1> QED
    BY <1>5, <1>6

LEMMA CloseClaims ==
    ASSUME RecordsInv, ClaimsPaid, NEW z \in Zones, NEW a \in Accounts, NEW X,
           CloseChannel(z, a, X), paid \subseteq paid'
    PROVE  ClaimsPaid'
  <1>1. /\ channel'[z][a].pkts = {}
        /\ \A y \in Zones, b \in Accounts : ~(y = z /\ b = a) => channel'[y][b] = channel[y][b]
    BY CloseChannelEffect DEF RecordsInv
  <1>2. \A y \in Zones : channel'[y]["REDEMPTION"].pkts \subseteq channel[y]["REDEMPTION"].pkts
    BY <1>1 DEF Accounts
  <1> QED
    BY <1>2, SameClaims

LEMMA ClaimsPaidNext ==
    RecordsInv /\ ClaimsPaid /\ [Next]_vars => ClaimsPaid'
  <1> SUFFICES ASSUME RecordsInv, ClaimsPaid, [Next]_vars PROVE ClaimsPaid'
    OBVIOUS
  <1>1. StoresInv /\ StoresTypeOK
    BY DEF RecordsInv, StoresInv
  <1>2. ASSUME NEW lag \in 0..MaxLag, DayEpoch(lag) PROVE ClaimsPaid'
    <2>1. paid' = paid
      BY <1>1, <1>2, DayRecords
    <2>2. \A z \in Zones : channel'[z]["REDEMPTION"].pkts = channel[z]["REDEMPTION"].pkts
      BY <1>1, <1>2, DayRecords
    <2> QED
      BY <2>1, <2>2, SameClaims
  <1>3. CASE Tick
    <2>1. paid' = paid
      BY <1>3 DEF Tick, ghosts
    <2>2. ASSUME NEW z \in Zones
          PROVE  channel'[z]["REDEMPTION"].pkts = AgedAll(channel[z]["REDEMPTION"].pkts)
      <3>1. channel[z]["REDEMPTION"] \in Channel /\ "REDEMPTION" \in Accounts
        BY <1>1 DEF StoresTypeOK, Accounts
      <3>2. channel'[z]["REDEMPTION"] = [channel[z]["REDEMPTION"] EXCEPT
                !.pkts = AgedAll(channel[z]["REDEMPTION"].pkts)]
        BY <1>3, <3>1 DEF Tick, Aged, AgedAll
      <3> QED
        BY <3>1, <3>2 DEF Channel
    <2>3. ASSUME NEW z \in Zones, NEW q \in channel'[z]["REDEMPTION"].pkts
          PROVE  \E p \in channel[z]["REDEMPTION"].pkts : Same(q, p) /\ q.state = p.state
      <3>1. /\ channel[z]["REDEMPTION"].pkts \in SUBSET Packet
            /\ IsFiniteSet(channel[z]["REDEMPTION"].pkts)
        BY <1>1 DEF StoresTypeOK, Channel, Accounts
      <3> QED
        BY <2>2, <2>3, <3>1, AgedDerived
    <2> QED
      BY <2>1, <2>3, ClaimsPaidKept
  <1>4. ASSUME NEW z \in Zones, NEW u \in Users, NEW amount \in RedeemAmounts, RedeemStake(z, u, amount)
        PROVE  ClaimsPaid'
    BY <1>4, SameClaims DEF RedeemStake, ghosts
  <1>5. ASSUME NEW z \in Zones, NEW e \in Eurs, NEW u \in Users, ClaimUndelegatedTokens(e, z, u)
        PROVE  ClaimsPaid'
    <2>1. PICK i \in Int : LET new == ClaimPacket(e, u, urr[e][z][u].amount, i) IN
             /\ new \in Packet
             /\ SetPackets(z, "REDEMPTION", channel[z]["REDEMPTION"].pkts \cup {new})
      BY <1>1, <1>5, ClaimEffect
    <2> DEFINE new == ClaimPacket(e, u, urr[e][z][u].amount, i)
    <2>5. new.state = "sent"
      BY DEF ClaimPacket
    <2> HIDE DEF new
    <2>6. channel' = [channel EXCEPT ![z]["REDEMPTION"].pkts =
                        channel[z]["REDEMPTION"].pkts \cup {new}]
      BY <2>1 DEF SetPackets, new
    <2>2. paid' = paid
      BY <1>5 DEF ClaimUndelegatedTokens, ghosts
    <2>3. \A y \in Zones : \A q \in channel'[y]["REDEMPTION"].pkts :
            q.state = "ok" => q \in channel[y]["REDEMPTION"].pkts
      BY <1>1, <2>5, <2>6 DEF StoresTypeOK, Channel, Accounts
    <2>4. \A q : Same(q, q)
      BY DEF Same
    <2> QED
      BY <2>2, <2>3, <2>4, ClaimsPaidKept
  <1>6. ASSUME NEW z \in Zones, NEW a \in Accounts, NEW p \in channel[z][a].pkts,
               NEW result \in {"ok", "err"}, ExecuteICA(z, a, p, result)
        PROVE  ClaimsPaid'
    BY <1>6, ExecuteClaims
  <1>7. ASSUME NEW z \in Zones, NEW a \in Accounts, NEW p \in channel[z][a].pkts, AckICA(z, a, p)
        PROVE  ClaimsPaid'
    BY <1>7, AckClaims
  <1>8. ASSUME NEW z \in Zones, NEW a \in Accounts, NEW p \in channel[z][a].pkts, TimeoutICA(z, a, p)
        PROVE  ClaimsPaid'
    BY <1>8, CloseClaims DEF TimeoutICA, ClaimCallback
  <1>9. ASSUME NEW z \in Zones, NEW a \in Accounts,
               RestoreInterchainAccount(z, a) \/ ChanOpenAck(z, a)
        PROVE  ClaimsPaid'
    <2>1. paid' = paid /\ channel[z][a].state # "OPEN"
           /\ \E s \in {"OPEN", "INIT"} : SetState(z, a, s)
      BY <1>9 DEF RestoreInterchainAccount, ChanOpenAck, ghosts, SetState
    <2>2. \A y \in Zones, b \in Accounts : channel'[y][b].pkts = channel[y][b].pkts
      BY <1>1, <2>1, ChannelStateEffect
    <2> QED
      BY <2>1, <2>2, SameClaims DEF Accounts
  <1>10. ASSUME NEW z \in Zones, TimeoutOfAnother(z) PROVE ClaimsPaid'
    BY <1>10, CloseClaims DEF TimeoutOfAnother, Accounts
  <1>11. ASSUME NEW z \in Zones, DepositsSide(z) PROVE ClaimsPaid'
    BY <1>11, SameClaims DEF DepositsSide, Reinvest, UpdateRedemptionRates, BeginBlocker, ghosts
  <1>12. ASSUME NEW k \in orphans, TimeoutOnClose(k) PROVE ClaimsPaid'
    BY <1>12, SameClaims DEF TimeoutOnClose, ClaimCallback
  <1>13. CASE UNCHANGED vars
    BY <1>13, SameClaims DEF vars, ghosts
  <1>14. ASSUME NEW z \in Zones, NEW amount \in 1..deposits[z], DelegateOnHost(z, amount)
         PROVE  ClaimsPaid'
    <2>1. paid' = paid
      BY <1>14 DEF DelegateOnHost, ghosts
    <2>2. \A y \in Zones : channel'[y]["REDEMPTION"].pkts = channel[y]["REDEMPTION"].pkts
      BY <1>14, DelegatedAmount, DelegateNews
    <2> QED
      BY <2>1, <2>2, SameClaims
  <1> QED
    BY <1>2, <1>3, <1>4, <1>5, <1>6, <1>7, <1>8, <1>9, <1>10, <1>11, <1>12, <1>13, <1>14
       DEF Next, DepositsSide

LEMMA ClaimsPaidHolds ==
    Spec => [](RecordsInv /\ ClaimsPaid)
  <1>1. Init => ClaimsPaid
    <2> SUFFICES ASSUME Init, NEW z \in Zones PROVE channel[z]["REDEMPTION"].pkts = {}
      BY DEF ClaimsPaid
    <2> QED
      BY DEF Init, Accounts
  <1> QED
    BY <1>1, ClaimsPaidNext, RecordsInvHolds, PTL DEF Spec

-----------------------------------------------------------------------------
(* Steps of stride *)

\* Steps that leave stages and redemptions alone.
LEMMA UnchangedSimulates ==
    ASSUME RecordsInv, UNCHANGED <<hzu, current, urr, paid>>,
           \A e \in Eurs, z \in Zones : ToldSame(e, z)
    PROVE  Simulates
  <1>1. batches' = batches
    BY SameStage, SameBatches
  <1> QED
    BY <1>1, NoneOwed, SameQuiet

LEMMA SameChannelNews ==
    ASSUME \A z \in Zones : channel'[z]["DELEGATION"].pkts = channel[z]["DELEGATION"].pkts
    PROVE  \A e \in Eurs, z \in Zones : ToldSame(e, z)
    BY DEF ToldSame

LEMMA RedeemStakeSimulates ==
    ASSUME RecordsInv, NEW z \in Zones, NEW u \in Users, NEW amount \in RedeemAmounts,
           RedeemStake(z, u, amount)
    PROVE  Simulates
  <1> DEFINE native == NativeTokensFor(amount, zone[z].redemptionRate)
             k == [eur |-> current, zone |-> z, user |-> u]
  <1>1. /\ native \in Nat \ {0}
        /\ hzu[current][z].status = "UNBONDING_QUEUE"
        /\ ~urr[current][z][u].pending
        /\ \A e \in Eurs, y \in Zones : hzu'[e][y].status = hzu[e][y].status
        /\ urr'[current][z][u].amount = native
        /\ \A e \in Eurs, y \in Zones, v \in Users :
             ~(e = current /\ y = z /\ v = u) => urr'[e][y][v] = urr[e][y][v]
    BY RedeemStakeRecords
  <1>2. /\ UNCHANGED <<current, channel, paid>>
        /\ urr[current][z][u] = NoRedemption
    BY DEF RedeemStake, ghosts
  <1>3. current \in Eurs /\ k \notin paid
    BY <1>1 DEF RecordsInv, StoresInv, StoresTypeOK, PaidOnce
  <1> HIDE DEF native
  <1>4. batches' = batches
    BY <1>1, <1>2, SameChannelNews, SameStage, SameBatches
  <1>5. \A e \in Eurs, y \in Zones, v \in Users :
          ~(e = current /\ y = z /\ v = u) => OwedNext(e, y, v) = OwedNow(e, y, v)
    BY <1>1, <1>2 DEF OwedNext, OwedNow, RedemptionOf
  <1>6. urr'[current][z][u] # NoRedemption
    BY <1>1 DEF NoRedemption
  <1>7. OwedNext(current, z, u) = Lifecycle!Redemption("owed", native)
    BY <1>1, <1>2, <1>3, <1>6, OwedCases DEF OwedNext
  <1>8. redemptions'[current][z][u] = Lifecycle!Redemption("owed", native)
    BY <1>3, <1>7, Mapping
  <1>9. redemptions[current][z][u] = Lifecycle!None
    BY <1>2, <1>3, OwedCases, Mapping DEF OwedNow
  <1>10. batches[current][z] = "collecting"
    BY <1>1, <1>3, StageCases, Mapping DEF StageNow
  <1>11. redemptions'[current][z][u].amount = native /\ native > 0
    BY <1>1, <1>8 DEF Lifecycle!Redemption
  <1>12. Lifecycle!Becomes(current, z, u, Lifecycle!Redemption("owed", native))
    BY <1>3, <1>4, <1>5, <1>7, RedemptionMoves
  <1>13. Lifecycle!Redeem(current, z, u)
    BY <1>9, <1>10, <1>11, <1>12 DEF Lifecycle!Redeem
  <1> QED
    BY <1>3, <1>13 DEF Simulates, Lifecycle!Next

\* A redemption that is claimed, or whose claim failed, is owed as before.
LEMMA PendingSimulates ==
    ASSUME RecordsInv, NEW e \in Eurs, NEW z \in Zones, NEW u \in Users,
           urr'[e][z][u].amount = urr[e][z][u].amount, urr[e][z][u].amount > 0,
           \A f \in Eurs, y \in Zones, v \in Users :
             ~(f = e /\ y = z /\ v = u) => urr'[f][y][v] = urr[f][y][v],
           paid' = paid
    PROVE  redemptions' = redemptions
  <1>1. urr[e][z][u] # NoRedemption /\ urr'[e][z][u] # NoRedemption
    BY DEF NoRedemption
  <1>2. OwedNext(e, z, u) = OwedNow(e, z, u)
    BY <1>1 DEF OwedNext, OwedNow, RedemptionOf
  <1>3. \A f \in Eurs, y \in Zones, v \in Users :
          ~(f = e /\ y = z /\ v = u) => OwedNext(f, y, v) = OwedNow(f, y, v)
    BY DEF OwedNext, OwedNow, RedemptionOf
  <1> QED
    BY <1>2, <1>3, SameRedemptions

LEMMA ClaimSimulates ==
    ASSUME RecordsInv, NEW e \in Eurs, NEW z \in Zones, NEW u \in Users,
           ClaimUndelegatedTokens(e, z, u)
    PROVE  Simulates
  <1>1. UNCHANGED <<hzu, current, paid>>
    BY DEF ClaimUndelegatedTokens, ghosts
  <1>2. \A y \in Zones : channel'[y]["DELEGATION"] = channel[y]["DELEGATION"]
    BY DEF ClaimUndelegatedTokens, RecordsInv, StoresInv, StoresTypeOK, Accounts
  <1>3. batches' = batches
    BY <1>1, <1>2, SameChannelNews, SameStage, SameBatches
  <1>4. /\ urr[e][z][u].amount > 0 /\ urr'[e][z][u].amount = urr[e][z][u].amount
        /\ \A f \in Eurs, y \in Zones, v \in Users :
             ~(f = e /\ y = z /\ v = u) => urr'[f][y][v] = urr[f][y][v]
    BY ClaimEffect DEF RecordsInv
  <1> QED
    BY <1>1, <1>3, <1>4, PendingSimulates, SameQuiet

\* A claim's callback when it was not paid.
LEMMA UnpaidSimulates ==
    ASSUME RecordsInv, NEW k \in Key, urr[k.eur][k.zone][k.user].pending,
           NEW state, state # "ok", ClaimCallback(k, state)
    PROVE  redemptions' = redemptions /\ hzu' = hzu
  <1>1. k.eur \in Eurs /\ k.zone \in Zones /\ k.user \in Users
    BY DEF Key
  <1>2. /\ urr' = [urr EXCEPT ![k.eur][k.zone][k.user].pending = FALSE]
        /\ UNCHANGED <<hzu, paid>>
    BY DEF ClaimCallback
  <1>3. /\ urr'[k.eur][k.zone][k.user].amount = urr[k.eur][k.zone][k.user].amount
        /\ \A f \in Eurs, y \in Zones, v \in Users :
             ~(f = k.eur /\ y = k.zone /\ v = k.user) => urr'[f][y][v] = urr[f][y][v]
    <2> DEFINE r == [urr[k.eur][k.zone][k.user] EXCEPT !.pending = FALSE]
    <2>1. StoresTypeOK /\ urr[k.eur][k.zone][k.user] \in UserRedemptionRecord
      BY <1>1 DEF RecordsInv, StoresInv, StoresTypeOK
    <2>2. r \in UserRedemptionRecord /\ r.amount = urr[k.eur][k.zone][k.user].amount
      BY <2>1 DEF UserRedemptionRecord
    <2>3. SetUser(k.eur, k.zone, k.user, r)
      BY <1>1, <1>2, <2>1 DEF SetUser, StoresTypeOK
    <2> HIDE DEF r
    <2>4. /\ urr'[k.eur][k.zone][k.user] = r
          /\ \A f \in Eurs, y \in Zones, v \in Users :
               ~(f = k.eur /\ y = k.zone /\ v = k.user) => urr'[f][y][v] = urr[f][y][v]
      BY <1>1, <2>1, <2>2, <2>3, UserSet
    <2> QED
      BY <2>2, <2>4
  <1>4. urr[k.eur][k.zone][k.user].amount > 0
    BY <1>1 DEF RecordsInv, StoresInv, RecordsWellFormed
  <1> QED
    BY <1>1, <1>2, <1>3, <1>4, PendingSimulates

LEMMA TimeoutOnCloseSimulates ==
    ASSUME RecordsInv, NEW k \in orphans, TimeoutOnClose(k)
    PROVE  Simulates
  <1>1. k \in Key /\ urr[k.eur][k.zone][k.user].pending
    BY DEF RecordsInv, StoresInv, StoresTypeOK, OrphansPending
  <1>2. UNCHANGED <<current, channel>> /\ ClaimCallback(k, "timeout")
    BY DEF TimeoutOnClose
  <1>3. redemptions' = redemptions /\ hzu' = hzu
    BY <1>1, <1>2, UnpaidSimulates
  <1>4. batches' = batches
    BY <1>2, <1>3, SameChannelNews, SameStage, SameBatches
  <1> QED
    BY <1>3, <1>4, SameQuiet

LEMMA DepositsSideSimulates ==
    ASSUME RecordsInv, NEW z \in Zones, DepositsSide(z)
    PROVE  Simulates
  <1>1. UNCHANGED <<hzu, current, urr, paid, channel>>
    BY DEF DepositsSide, Reinvest, UpdateRedemptionRates, BeginBlocker, records, ghosts
  <1> QED
    BY <1>1, SameChannelNews, UnchangedSimulates

LEMMA DelegateOnHostSimulates ==
    ASSUME RecordsInv, NEW z \in Zones, NEW amount \in 1..deposits[z], DelegateOnHost(z, amount)
    PROVE  Simulates
  <1>1. UNCHANGED <<hzu, current, urr, paid>>
    BY DEF DelegateOnHost, records, ghosts
  <1>2. \A e \in Eurs, y \in Zones : ToldSame(e, y)
    BY DelegatedAmount, DelegateNews DEF SameNews, ToldSame
  <1> QED
    BY <1>1, <1>2, UnchangedSimulates

-----------------------------------------------------------------------------
(* Steps of the host and of the channels *)

LEMMA TickSimulates ==
    ASSUME RecordsInv, Tick
    PROVE  Simulates
  <1>1. UNCHANGED <<current, urr, paid>>
    BY DEF Tick, ghosts
  <1>2. \A e \in Eurs, z \in Zones : hzu'[e][z].status = hzu[e][z].status
    <2> SUFFICES ASSUME NEW e \in Eurs, NEW z \in Zones PROVE hzu'[e][z].status = hzu[e][z].status
      OBVIOUS
    <2>1. hzu[e][z] \in HostZoneUnbonding
      BY DEF RecordsInv, StoresInv, StoresTypeOK
    <2>2. hzu'[e][z] = hzu[e][z] \/ \E t : hzu'[e][z] = [hzu[e][z] EXCEPT !.left = t]
      BY DEF Tick
    <2> QED
      BY <2>1, <2>2 DEF HostZoneUnbonding
  <1>3. ASSUME NEW z \in Zones, NEW e \in Eurs PROVE ToldSame(e, z)
    <2>1. /\ channel[z]["DELEGATION"] \in Channel /\ "DELEGATION" \in Accounts
          /\ channel[z]["DELEGATION"].pkts \in SUBSET Packet
      BY DEF RecordsInv, StoresInv, StoresTypeOK, Accounts, Channel
    <2>2. channel'[z]["DELEGATION"] = [channel[z]["DELEGATION"] EXCEPT
              !.pkts = AgedAll(channel[z]["DELEGATION"].pkts)]
      BY <2>1 DEF Tick, Aged, AgedAll
    <2>3. channel'[z]["DELEGATION"].pkts = AgedAll(channel[z]["DELEGATION"].pkts)
      BY <2>1, <2>2 DEF Channel
    <2> QED
      BY <2>1, <2>3, AgedNews DEF ToldSame
  <1>4. batches' = batches
    BY <1>1, <1>2, <1>3, SameStage, SameBatches
  <1> QED
    BY <1>1, <1>4, NoneOwed, SameQuiet

\* The host executes the message of a batch, or it fails there.
LEMMA ExecuteBatchSimulates ==
    ASSUME RecordsInv, NEW z \in Zones, NEW a \in Accounts, NEW p \in channel[z][a].pkts,
           NEW result \in {"ok", "err"}, ExecuteICA(z, a, p, result), p.kind # "claim",
           p.kind # "delegate"
    PROVE  Simulates
  <1>1. StoresInv /\ StoresTypeOK /\ PacketsMatch
    BY DEF RecordsInv, StoresInv
  <1>2. a = "DELEGATION" /\ p.kind \in {"undelegate", "redemption"}
    BY <1>1 DEF StoresInv, PacketsWellFormed, DelegationShape, RedemptionShape, Accounts
  <1> DEFINE S == channel[z]["DELEGATION"].pkts
             T == channel'[z]["DELEGATION"].pkts
             done == ExecutedPacket(p, result)
             from == IF p.kind = "undelegate" THEN "queued" ELSE "unbonding"
             to == IF p.kind = "undelegate" THEN "undelegated" ELSE "swept"
  <1>3. /\ p \in Packet /\ p \in S /\ S \in SUBSET Packet
        /\ T = (S \ {p}) \cup {done}
        /\ \A y \in Zones \ {z} : channel'[y]["DELEGATION"] = channel[y]["DELEGATION"]
    <2>1. /\ p \in Packet
          /\ channel'[z][a].pkts = (channel[z][a].pkts \ {p}) \cup {done}
          /\ \A y \in Zones, b \in Accounts : ~(y = z /\ b = a) => channel'[y][b] = channel[y][b]
      BY <1>1, ExecuteICAChannel
    <2> QED
      BY <1>1, <1>2, <2>1 DEF StoresTypeOK, Channel
  <1>4. /\ UNCHANGED <<hzu, current, urr>> /\ p.state = "sent"
        /\ paid' = paid
    BY <1>2 DEF ExecuteICA, records
  <1>5. Separate(S) /\ p.eurs \in SUBSET Eurs
        /\ \A e \in p.eurs : hzu[e][z].status = Awaits(p)
    BY <1>1, <1>2, <1>3 DEF PacketsMatch, Matches, Packet
  <1>6. Same(done, p) /\ done.state = result
    BY <1>3, ExecutedPacketSame
  <1>7. \A e \in Eurs, y \in Zones \ {z} : StageNext(e, y) = StageNow(e, y)
    BY <1>3, <1>4, SameStage DEF ToldSame
  <1> HIDE DEF S, T
  <1>8. CASE result = "ok"
    <2>a. /\ T = (S \ {p}) \cup {ExecutedPacket(p, "ok")}
          /\ S \in SUBSET Packet /\ Separate(S) /\ p \in S /\ p.state = "sent"
          /\ p.kind \in {"undelegate", "redemption"}
      BY <1>2, <1>3, <1>4, <1>5, <1>8
    <2> HIDE DEF done
    <2>b. ASSUME NEW e, e \notin p.eurs
          PROVE  \A kind : Told(T, kind, e) <=> Told(S, kind, e)
      BY <2>a, <2>b, ExecutedNews
    <2>c. ASSUME NEW e, e \in p.eurs
          PROVE  \A kind : ~Told(S, kind, e) /\ (Told(T, kind, e) <=> kind = p.kind)
      <3>1. \A kind : Told(T, kind, e) <=> kind = p.kind
        <4>1. Separate(S) /\ p \in S /\ p.kind # "claim"
          BY <2>a
        <4>2. \A kind : ~Told(S \ {p}, kind, e)
          BY <2>c, <4>1, NewsRemoved
        <4>3. T = (S \ {p}) \cup {done} /\ done.state = "ok" /\ done.kind = p.kind /\ e \in done.eurs
          BY <1>3, <1>6, <1>8, <2>c DEF Same
        <4> QED
          BY <4>2, <4>3 DEF Told
      <3>2. \A kind : ~Told(S, kind, e)
        BY <2>a, <2>c, NewsOf
      <3> QED
        BY <3>1, <3>2
    <2>1. \A e : /\ e \notin p.eurs => \A kind : Told(T, kind, e) <=> Told(S, kind, e)
                 /\ e \in p.eurs => \A kind : ~Told(S, kind, e) /\ (Told(T, kind, e) <=> kind = p.kind)
      BY <2>b, <2>c
    <2>2. \A e \in Eurs \ p.eurs : StageNext(e, z) = StageNow(e, z)
      BY <1>4, <2>1, SameStage DEF ToldSame, S, T
    <2>3. ASSUME NEW e \in p.eurs
          PROVE  StageNow(e, z) = from /\ StageNext(e, z) = to
      <3>1. /\ StageNow(e, z) = StageOf(hzu, S, current, e, z)
            /\ StageNext(e, z) = StageOf(hzu, T, current, e, z)
        BY <1>4 DEF StageNow, StageNext, S, T
      <3> QED
        BY <1>2, <1>5, <2>1, <3>1, StageCases DEF Awaits
    <2> HIDE DEF from, to
    <2>4. Lifecycle!Move(p.eurs, z, from, to)
      BY <1>4, <1>5, <1>7, <2>2, <2>3, NoneOwed, BatchesMove
    <2>5. \/ Lifecycle!Move(p.eurs, z, "queued", "undelegated")
          \/ Lifecycle!Move(p.eurs, z, "unbonding", "swept")
      BY <2>4, Zenon DEF from, to
    <2> QED
      BY <1>5, <2>5 DEF Simulates, Lifecycle!Next
  <1>9. CASE result = "err"
    <2>1. \A e, kind : Told(T, kind, e) <=> Told(S, kind, e)
      BY <1>3, <1>4, <1>6, <1>9 DEF Told
    <2>2. \A e \in Eurs : StageNext(e, z) = StageNow(e, z)
      BY <1>4, <2>1, SameStage DEF ToldSame, S, T
    <2> QED
      BY <1>4, <1>7, <2>2, SameBatches, NoneOwed, SameQuiet
  <1> QED
    BY <1>8, <1>9

\* Delegations are for no record.
LEMMA ExecuteDelegateSimulates ==
    ASSUME RecordsInv, NEW z \in Zones, NEW a \in Accounts, NEW p \in channel[z][a].pkts,
           NEW result \in {"ok", "err"}, ExecuteICA(z, a, p, result), p.kind = "delegate"
    PROVE  Simulates
  <1> DEFINE S == channel[z]["DELEGATION"].pkts
             T == channel'[z]["DELEGATION"].pkts
             done == ExecutedPacket(p, result)
  <1>1. StoresInv /\ StoresTypeOK
    BY DEF RecordsInv, StoresInv
  <1>2. a = "DELEGATION" /\ p.eurs = {}
    BY <1>1 DEF StoresInv, PacketsWellFormed, DelegationShape, RedemptionShape, Accounts
  <1>3. /\ p \in Packet
        /\ channel'[z][a].pkts = (channel[z][a].pkts \ {p}) \cup {done}
        /\ \A y \in Zones, b \in Accounts : ~(y = z /\ b = a) => channel'[y][b] = channel[y][b]
    BY <1>1, ExecuteICAChannel
  <1>4. done.eurs = {}
    BY <1>2, <1>3 DEF ExecutedPacket, Packet
  <1>5. UNCHANGED <<hzu, current, urr, paid>>
    BY DEF ExecuteICA, records
  <1> HIDE DEF done
  <1>6. ASSUME NEW e \in Eurs, NEW y \in Zones
        PROVE  ToldSame(e, y)
    <2>1. CASE y # z
      BY <1>2, <1>3, <2>1 DEF ToldSame, Accounts
    <2>2. CASE y = z
      <3>1. T = (S \ {p}) \cup {done}
        BY <1>2, <1>3
      <3> HIDE DEF S, T
      <3>2. \A q : e \in q.eurs => (q \in S <=> q \in T)
        BY <1>2, <1>4, <3>1
      <3>3. \A kind : Told(T, kind, e) <=> Told(S, kind, e)
        BY <3>2 DEF Told
      <3> QED
        BY <2>2, <3>3 DEF ToldSame, S, T
    <2> QED
      BY <2>1, <2>2
  <1> QED
    BY <1>5, <1>6, UnchangedSimulates

\* The host pays a claim, or it fails there.
LEMMA ExecuteClaimSimulates ==
    ASSUME RecordsInv, NEW z \in Zones, NEW a \in Accounts, NEW p \in channel[z][a].pkts,
           NEW result \in {"ok", "err"}, ExecuteICA(z, a, p, result), p.kind = "claim"
    PROVE  Simulates
  <1>1. StoresInv /\ StoresTypeOK
    BY DEF RecordsInv, StoresInv
  <1>2. PICK e \in Eurs, u \in Users : a = "REDEMPTION" /\ p.eurs = {e} /\ p.users = {u}
    BY <1>1 DEF StoresInv, PacketsWellFormed, DelegationShape, RedemptionShape, Accounts
  <1> DEFINE k == [eur |-> e, zone |-> z, user |-> u]
  <1>3. /\ Keys(z, p) = {k}
        /\ k.eur = e /\ k.user = u
    BY <1>2 DEF Keys
  <1>4. /\ UNCHANGED <<hzu, current, urr>> /\ p.state = "sent"
        /\ paid' = IF result = "ok" THEN paid \cup {k} ELSE paid
    BY <1>3 DEF ExecuteICA, records
  <1>5. urr[e][z][u].pending /\ (p.state # "ok" => k \notin paid)
    <2>1. k \in Keys(z, p)
      BY <1>3
    <2> HIDE DEF k
    <2>2. urr[k.eur][z][k.user].pending /\ (p.state # "ok" => k \notin paid)
      BY <1>1, <2>1, ClaimKey
    <2> QED
      BY <1>3, <2>2
  <1>6. hzu[e][z].status = "CLAIMABLE" /\ urr[e][z][u].amount > 0
    BY <1>1, <1>5 DEF StoresInv, RecordsWellFormed
  <1>7. \A y \in Zones : channel'[y]["DELEGATION"] = channel[y]["DELEGATION"]
    <2>1. \A y \in Zones, b \in Accounts : ~(y = z /\ b = a) => channel'[y][b] = channel[y][b]
      BY <1>1, ExecuteICAChannel
    <2> QED
      BY <1>2, <2>1 DEF Accounts
  <1>8. batches' = batches
    BY <1>4, <1>7, SameChannelNews, SameStage, SameBatches
  <1>9. CASE result = "ok"
    <2> DEFINE owed == Lifecycle!Redemption("paid", urr[e][z][u].amount)
    <2>1. urr[e][z][u] # NoRedemption
      BY <1>6 DEF NoRedemption
    <2>2. OwedNow(e, z, u) = Lifecycle!Redemption("owed", urr[e][z][u].amount)
      BY <1>4, <1>5, <2>1, OwedCases DEF OwedNow
    <2>3. OwedNext(e, z, u) = owed
      <3>1. urr' = urr /\ k \in paid'
        BY <1>4, <1>9
      <3>2. OwedNext(e, z, u) = RedemptionOf(urr, paid', e, z, u)
        BY <3>1 DEF OwedNext
      <3>3. RedemptionOf(urr, paid', e, z, u)
              = Lifecycle!Redemption("paid", urr[e][z][u].amount)
        BY <2>1, <3>1, OwedCases
      <3> QED
        BY <3>2, <3>3
    <2>4. \A f \in Eurs, y \in Zones, v \in Users :
            ~(f = e /\ y = z /\ v = u) => OwedNext(f, y, v) = OwedNow(f, y, v)
      <3> SUFFICES ASSUME NEW f \in Eurs, NEW y \in Zones, NEW v \in Users,
                          ~(f = e /\ y = z /\ v = u)
                   PROVE  OwedNext(f, y, v) = OwedNow(f, y, v)
        OBVIOUS
      <3>1. [eur |-> f, zone |-> y, user |-> v] \in paid'
              <=> [eur |-> f, zone |-> y, user |-> v] \in paid
        BY <1>4
      <3> QED
        BY <1>4, <3>1 DEF OwedNext, OwedNow, RedemptionOf
    <2>5. batches[e][z] = "claimable" /\ redemptions[e][z][u] = OwedNow(e, z, u)
      BY <1>6, StageCases, Mapping DEF StageNow
    <2>6. /\ redemptions[e][z][u].stage = "owed"
          /\ redemptions[e][z][u].amount = urr[e][z][u].amount
      BY <2>2, <2>5 DEF Lifecycle!Redemption
    <2> HIDE DEF owed
    <2>7. Lifecycle!Becomes(e, z, u, owed)
      BY <1>8, <2>3, <2>4, RedemptionMoves
    <2>8. Lifecycle!Pay(e, z, u)
      BY <2>5, <2>6, <2>7 DEF Lifecycle!Pay, owed
    <2> QED
      BY <2>8 DEF Simulates, Lifecycle!Next
  <1>10. CASE result = "err"
    BY <1>4, <1>8, <1>10, NoneOwed, SameQuiet
  <1> QED
    BY <1>9, <1>10

\* The outcome of a batch is acknowledged.
LEMMA AckBatchSimulates ==
    ASSUME RecordsInv, NEW z \in Zones, NEW a \in Accounts, NEW p \in channel[z][a].pkts,
           AckICA(z, a, p), p.kind # "claim", p.kind # "delegate"
    PROVE  Simulates
  <1>1. StoresInv /\ StoresTypeOK /\ PacketsMatch
    BY DEF RecordsInv, StoresInv
  <1>2. a = "DELEGATION" /\ p.kind \in {"undelegate", "redemption"}
    BY <1>1 DEF StoresInv, PacketsWellFormed, DelegationShape, RedemptionShape, Accounts
  <1> DEFINE S == channel[z]["DELEGATION"].pkts
             T == channel'[z]["DELEGATION"].pkts
             from == IF p.kind = "undelegate" THEN "undelegated" ELSE "swept"
             to == IF p.kind = "undelegate" THEN "unbonding" ELSE "claimable"
  <1>3. /\ p \in Packet /\ p \in S /\ S \in SUBSET Packet /\ T = MovedUp(S \ {p})
        /\ \A y \in Zones \ {z} : channel'[y]["DELEGATION"] = channel[y]["DELEGATION"]
    <2>1. /\ p \in Packet
          /\ channel' \in [Zones -> [Accounts -> Channel]]
          /\ \A y \in Zones, b \in Accounts : IsFiniteSet(channel'[y][b].pkts)
          /\ ChannelsDerived
          /\ channel'[z][a].pkts = MovedUp(channel[z][a].pkts \ {p})
          /\ \A q \in channel'[z][a].pkts :
               \E x \in channel[z][a].pkts \ {p} : Same(q, x) /\ q.state = x.state
          /\ \A y \in Zones, b \in Accounts : ~(y = z /\ b = a) => channel'[y][b] = channel[y][b]
      BY <1>1, AckChannel
    <2> QED
      BY <1>1, <1>2, <2>1 DEF StoresTypeOK, Channel
  <1>4. UNCHANGED <<current, urr, paid>> /\ p.state \in {"ok", "err"}
    BY <1>2, <1>3 DEF AckICA, Packet
  <1>5. \A e \in Eurs, y \in Zones :
          hzu'[e][y].status = IF e \in p.eurs /\ y = z THEN AckStatus(p) ELSE hzu[e][y].status
    BY <1>1, <1>2, AckOutcome
  <1>6. Separate(S) /\ p.eurs \in SUBSET Eurs
        /\ \A e \in p.eurs : hzu[e][z].status = Awaits(p)
    BY <1>1, <1>2, <1>3 DEF PacketsMatch, Matches, Packet
  <1>7. \A e \in Eurs, y \in Zones \ {z} : StageNext(e, y) = StageNow(e, y)
    BY <1>3, <1>4, <1>5, SameStage DEF ToldSame
  <1> HIDE DEF S, T
  <1>8. \A e \in Eurs, kind \in Kinds : Told(T, kind, e) <=> Told(S \ {p}, kind, e)
    BY <1>3, MovedUpNews DEF SameNews
  <1>9. p \in S /\ Separate(S) /\ p.kind # "claim"
    BY <1>2, <1>3, <1>6
  <1>10. ASSUME NEW e \in Eurs \ p.eurs PROVE StageNext(e, z) = StageNow(e, z)
    <2>1. \A kind : Told(S \ {p}, kind, e) <=> Told(S, kind, e)
      BY <1>9, NewsRemoved
    <2> QED
      BY <1>4, <1>5, <1>8, <2>1, SameStage DEF ToldSame, S, T
  <1>11. ASSUME NEW e \in p.eurs
         PROVE  /\ e \in Eurs
                /\ \A kind \in Kinds : ~Told(T, kind, e)
                /\ \A kind : Told(S, kind, e) <=> p.kind = kind /\ p.state = "ok"
                /\ StageNow(e, z) = StageOf(hzu, S, current, e, z)
                /\ StageNext(e, z) = StageOf(hzu', T, current, e, z)
    <2>1. \A kind : ~Told(S \ {p}, kind, e)
      BY <1>9, NewsRemoved
    <2>2. \A kind : Told(S, kind, e) <=> p.kind = kind /\ p.state = "ok"
      BY <1>9, NewsOf
    <2> QED
      BY <1>4, <1>6, <1>8, <2>1, <2>2 DEF StageNow, StageNext, S, T
  <1>12. CASE p.state = "ok"
    <2>1. ASSUME NEW e \in p.eurs PROVE StageNow(e, z) = from /\ StageNext(e, z) = to
      <3>1. hzu'[e][z].status = AckStatus(p) /\ hzu[e][z].status = Awaits(p)
        BY <1>5, <1>6
      <3> QED
        BY <1>2, <1>11, <1>12, <3>1, StageCases DEF Awaits, AckStatus
    <2> HIDE DEF from, to
    <2>2. Lifecycle!Move(p.eurs, z, from, to)
      BY <1>4, <1>6, <1>7, <1>10, <2>1, NoneOwed, BatchesMove
    <2>3. \/ Lifecycle!Move(p.eurs, z, "undelegated", "unbonding")
          \/ Lifecycle!Move(p.eurs, z, "swept", "claimable")
      BY <2>2, Zenon DEF from, to
    <2> QED
      BY <1>6, <2>3 DEF Simulates, Lifecycle!Next
  <1>13. CASE p.state = "err"
    <2>1. ASSUME NEW e \in p.eurs PROVE StageNext(e, z) = StageNow(e, z)
      <3>1. hzu'[e][z].status = AckStatus(p) /\ hzu[e][z].status = Awaits(p)
        BY <1>5, <1>6
      <3>2. e # current
        BY <1>1, <1>2, <3>1 DEF StoresInv, RecordsWellFormed, Awaits
      <3>3. \A kind : ~Told(S, kind, e)
        BY <1>11, <1>13
      <3>4. CASE p.kind = "undelegate"
        <4>1. /\ StageOf(hzu, S, current, e, z) = "queued"
              /\ StageOf(hzu', T, current, e, z) = "queued"
          BY <1>13, <3>1, <3>2, <3>3, <3>4, StageCases DEF Awaits, AckStatus
        <4> QED
          BY <1>11, <4>1
      <3>5. CASE p.kind = "redemption"
        <4>1. /\ StageOf(hzu, S, current, e, z) = "unbonding"
              /\ StageOf(hzu', T, current, e, z) = "unbonding"
          BY <1>13, <3>1, <3>3, <3>5, StageCases DEF Awaits, AckStatus
        <4> QED
          BY <1>11, <4>1
      <3> QED
        BY <1>2, <3>4, <3>5
    <2> QED
      BY <1>4, <1>7, <1>10, <2>1, SameBatches, NoneOwed, SameQuiet
  <1> QED
    BY <1>4, <1>12, <1>13

LEMMA AckDelegateSimulates ==
    ASSUME RecordsInv, NEW z \in Zones, NEW a \in Accounts, NEW p \in channel[z][a].pkts,
           AckICA(z, a, p), p.kind = "delegate"
    PROVE  Simulates
  <1>1. UNCHANGED <<hzu, current, urr, paid>>
    BY DEF AckICA
  <1>2. \A e \in Eurs, y \in Zones : ToldSame(e, y)
    BY AckDelegateNews DEF SameNews, ToldSame
  <1> QED
    BY <1>1, <1>2, UnchangedSimulates

\* The outcome of a claim is acknowledged.
LEMMA AckClaimSimulates ==
    ASSUME RecordsInv, ClaimsPaid, NEW z \in Zones, NEW a \in Accounts,
           NEW p \in channel[z][a].pkts, AckICA(z, a, p), p.kind = "claim"
    PROVE  Simulates
  <1>1. StoresInv /\ StoresTypeOK
    BY DEF RecordsInv, StoresInv
  <1>2. PICK k \in Keys(z, p) : ClaimCallback(k, p.state)
    BY DEF AckICA
  <1>3. /\ a = "REDEMPTION" /\ k \in Key /\ k.zone = z
        /\ urr[k.eur][z][k.user].pending
    BY <1>1, ClaimKey
  <1>4. k.eur \in Eurs /\ k.user \in Users /\ k = [eur |-> k.eur, zone |-> z, user |-> k.user]
    BY <1>3 DEF Key
  <1> DEFINE e == k.eur
             u == k.user
  <1>5. /\ \A f \in Eurs, y \in Zones, v \in Users :
             ~(f = e /\ y = z /\ v = u) => urr'[f][y][v] = urr[f][y][v]
        /\ \A f \in Eurs, y \in Zones : hzu'[f][y].status = hzu[f][y].status
        /\ paid' = IF p.state = "ok" THEN paid \ {k} ELSE paid
    BY <1>1, <1>2, <1>3, ClaimCallbackEffect
  <1>6. \A y \in Zones : channel'[y]["DELEGATION"] = channel[y]["DELEGATION"]
    <2>1. channel' = [channel EXCEPT ![z][a].pkts = MovedUp(@ \ {p})]
      BY DEF AckICA, MovedUp
    <2> QED
      BY <1>1, <1>3, <2>1 DEF StoresTypeOK, Accounts
  <1>7. batches' = batches
    <2>1. current' = current
      BY DEF AckICA
    <2> QED
      BY <1>5, <1>6, <2>1, SameChannelNews, SameStage, SameBatches
  <1>8. CASE p.state = "ok"
    <2>1. k \in paid
      BY <1>3, <1>8 DEF ClaimsPaid
    <2>2. urr'[e][z][u] = NoRedemption
      BY <1>1, <1>2, <1>3, <1>4, <1>8 DEF ClaimCallback, StoresTypeOK
    <2>3. urr[e][z][u] # NoRedemption
      BY <1>3 DEF NoRedemption
    <2>4. OwedNow(e, z, u) = Lifecycle!Redemption("paid", urr[e][z][u].amount)
      BY <1>4, <2>1, <2>3, OwedCases DEF OwedNow
    <2>5. OwedNext(e, z, u) = Lifecycle!None
      BY <2>2, OwedCases DEF OwedNext
    <2>6. \A f \in Eurs, y \in Zones, v \in Users :
            ~(f = e /\ y = z /\ v = u) => OwedNext(f, y, v) = OwedNow(f, y, v)
      <3> SUFFICES ASSUME NEW f \in Eurs, NEW y \in Zones, NEW v \in Users,
                          ~(f = e /\ y = z /\ v = u)
                   PROVE  OwedNext(f, y, v) = OwedNow(f, y, v)
        OBVIOUS
      <3>1. k # [eur |-> f, zone |-> y, user |-> v]
        BY <1>3
      <3>2. [eur |-> f, zone |-> y, user |-> v] \in paid'
              <=> [eur |-> f, zone |-> y, user |-> v] \in paid
        BY <1>5, <1>8, <3>1
      <3> QED
        BY <1>5, <3>2 DEF OwedNext, OwedNow, RedemptionOf
    <2>7. redemptions[e][z][u].stage = "paid"
      BY <1>4, <2>4, Mapping DEF Lifecycle!Redemption
    <2>8. Lifecycle!Becomes(e, z, u, Lifecycle!None)
      BY <1>4, <1>7, <2>5, <2>6, RedemptionMoves
    <2>9. Lifecycle!Settle(e, z, u)
      BY <2>7, <2>8 DEF Lifecycle!Settle
    <2> QED
      BY <1>4, <2>9 DEF Simulates, Lifecycle!Next
  <1>9. CASE p.state # "ok"
    <2>1. redemptions' = redemptions
      BY <1>2, <1>3, <1>9, UnpaidSimulates
    <2> QED
      BY <1>7, <2>1, SameQuiet
  <1> QED
    BY <1>8, <1>9

\* A channel closes: what the host has done and stride does not know is news
\* lost, if it is the delegation channel.
LEMMA CloseSimulates ==
    ASSUME RecordsInv, NEW z \in Zones, NEW a \in Accounts, NEW X, CloseChannel(z, a, X),
           hzu' = hzu, redemptions' = redemptions
    PROVE  Simulates
  <1>1. StoresInv /\ current' = current
    BY DEF RecordsInv, CloseChannel
  <1>2. /\ channel'[z][a].pkts = {}
        /\ \A y \in Zones, b \in Accounts : ~(y = z /\ b = a) => channel'[y][b] = channel[y][b]
    BY <1>1, CloseChannelEffect
  <1> DEFINE S == channel[z]["DELEGATION"].pkts
             forgotten == {e \in Eurs : Told(S, "undelegate", e) \/ Told(S, "redemption", e)}
  <1>3. CASE a = "REDEMPTION"
    <2>1. \A y \in Zones : channel'[y]["DELEGATION"] = channel[y]["DELEGATION"]
      BY <1>2, <1>3 DEF Accounts
    <2>2. batches' = batches
      BY <1>1, <2>1, SameChannelNews, SameStage, SameBatches
    <2> QED
      BY <2>2, SameQuiet
  <1>4. CASE a = "DELEGATION"
    <2>1. /\ channel'[z]["DELEGATION"].pkts = {}
          /\ \A y \in Zones \ {z} : channel'[y]["DELEGATION"] = channel[y]["DELEGATION"]
      BY <1>2, <1>4
    <2>2. \A e, kind : ~Told({}, kind, e)
      BY DEF Told
    <2>3. \A e : ~Told(S, "claim", e) /\ ~Told(S, "delegate", e)
      BY <1>1 DEF StoresInv, PacketsWellFormed, DelegationShape, Told
    <2>4. ASSUME NEW e \in Eurs, NEW y \in Zones, ~(e \in forgotten /\ y = z)
          PROVE  StageNext(e, y) = StageNow(e, y)
      <3>1. CASE y # z
        BY <1>1, <2>1, <3>1, SameStage DEF ToldSame
      <3>2. CASE y = z /\ e \notin forgotten
        <4>1. ToldSame(e, y)
          BY <2>1, <2>2, <2>3, <3>2 DEF ToldSame, Kinds
        <4> QED
          BY <1>1, <4>1, SameStage
      <3> QED
        BY <2>4, <3>1, <3>2
    <2>5. ASSUME NEW e \in forgotten
          PROVE  /\ StageNow(e, z) \in {"undelegated", "swept"}
                 /\ StageNext(e, z) = IF StageNow(e, z) = "swept" THEN "unbonding" ELSE "queued"
      <3>1. /\ Told(S, "undelegate", e) => hzu[e][z].status = "UNBONDING_IN_PROGRESS"
            /\ Told(S, "redemption", e) => hzu[e][z].status = "EXIT_TRANSFER_IN_PROGRESS"
        BY ToldStatus DEF NewsAwaited
      <3>2. /\ StageNow(e, z) = StageOf(hzu, S, current, e, z)
            /\ StageNext(e, z) = StageOf(hzu, {}, current, e, z)
        BY <1>1, <2>1 DEF StageNow, StageNext
      <3> HIDE DEF S
      <3>3. CASE Told(S, "undelegate", e)
        BY <2>2, <3>1, <3>2, <3>3, StageCases
      <3>4. CASE Told(S, "redemption", e)
        BY <2>2, <3>1, <3>2, <3>4, StageCases
      <3> QED
        BY <3>3, <3>4
    <2>6. forgotten \in SUBSET Eurs
      OBVIOUS
    <2> HIDE DEF forgotten
    <2>7. \A e \in Eurs, y \in Zones : StageNext(e, y) =
            IF e \in forgotten /\ y = z
            THEN IF batches[e][y] = "swept" THEN "unbonding" ELSE "queued"
            ELSE batches[e][y]
      BY <2>4, <2>5, Mapping
    <2>8. batches' = [e \in Eurs |-> [y \in Zones |->
            IF e \in forgotten /\ y = z
            THEN IF batches[e][y] = "swept" THEN "unbonding" ELSE "queued"
            ELSE batches[e][y]]]
      BY <2>7, Mapping
    <2>9. \A e \in forgotten : batches[e][z] \in {"undelegated", "swept"}
      BY <2>5, <2>6, Mapping
    <2>10. Lifecycle!LoseNews(forgotten, z)
      BY <2>8, <2>9 DEF Lifecycle!LoseNews
    <2> QED
      BY <2>6, <2>10 DEF Simulates, Lifecycle!Next
  <1> QED
    BY <1>3, <1>4 DEF Accounts

LEMMA TimeoutICASimulates ==
    ASSUME RecordsInv, NEW z \in Zones, NEW a \in Accounts, NEW p \in channel[z][a].pkts,
           TimeoutICA(z, a, p)
    PROVE  Simulates
  <1>1. CloseChannel(z, a, {p}) /\ StoresInv
    BY DEF TimeoutICA, RecordsInv
  <1>2. CASE p.kind = "claim"
    <2>1. PICK k \in Keys(z, p) : ClaimCallback(k, "timeout")
      BY <1>2 DEF TimeoutICA
    <2>2. k \in Key /\ k.zone = z /\ urr[k.eur][z][k.user].pending
      BY <1>1, <1>2, ClaimKey
    <2>3. redemptions' = redemptions /\ hzu' = hzu
      BY <2>1, <2>2, UnpaidSimulates
    <2> QED
      BY <1>1, <2>3, CloseSimulates
  <1>3. CASE p.kind # "claim"
    <2>1. UNCHANGED <<hzu, urr, paid>>
      BY <1>3 DEF TimeoutICA
    <2> QED
      BY <1>1, <2>1, NoneOwed, CloseSimulates
  <1> QED
    BY <1>2, <1>3

LEMMA TimeoutOfAnotherSimulates ==
    ASSUME RecordsInv, NEW z \in Zones, TimeoutOfAnother(z)
    PROVE  Simulates
  <1>1. CloseChannel(z, "DELEGATION", {}) /\ UNCHANGED <<hzu, urr, paid>> /\ "DELEGATION" \in Accounts
    BY DEF TimeoutOfAnother, Accounts
  <1> QED
    BY <1>1, NoneOwed, CloseSimulates

\* Reverted records were waiting for news that is lost already.
LEMMA RestoreSimulates ==
    ASSUME RecordsInv, NEW z \in Zones, NEW a \in Accounts, RestoreInterchainAccount(z, a)
    PROVE  Simulates
  <1>1. /\ StoresInv /\ StoresTypeOK
        /\ UNCHANGED <<current, urr, paid>> /\ channel[z][a].state # "OPEN"
        /\ SetState(z, a, "INIT")
    BY DEF RestoreInterchainAccount, RecordsInv, StoresInv, ghosts, SetState
  <1>2. /\ \A y \in Zones, b \in Accounts : channel'[y][b].pkts = channel[y][b].pkts
        /\ channel[z][a].pkts = {}
    BY <1>1, ChannelStateEffect
  <1>3. ASSUME NEW e \in Eurs, NEW y \in Zones
        PROVE  StageNext(e, y) = StageNow(e, y)
    <2> DEFINE S == channel[y]["DELEGATION"].pkts
    <2>1. channel'[y]["DELEGATION"].pkts = S
      BY <1>2 DEF Accounts
    <2>2. \/ hzu'[e][y].status = hzu[e][y].status
          \/ /\ y = z /\ a = "DELEGATION"
             /\ hzu[e][y].status = "UNBONDING_IN_PROGRESS"
             /\ hzu'[e][y].status = "UNBONDING_QUEUE"
          \/ /\ y = z /\ a = "DELEGATION"
             /\ hzu[e][y].status = "EXIT_TRANSFER_IN_PROGRESS"
             /\ hzu'[e][y].status = "EXIT_TRANSFER_QUEUE"
      BY RevertedRecord
    <2>3. /\ StageNow(e, y) = StageOf(hzu, S, current, e, y)
          /\ StageNext(e, y) = StageOf(hzu', S, current, e, y)
      BY <1>1, <2>1 DEF StageNow, StageNext
    <2>4. \A kind : y = z /\ a = "DELEGATION" => ~Told(S, kind, e)
      BY <1>2 DEF Told
    <2>5. e = current => hzu[e][y].status # "UNBONDING_IN_PROGRESS"
      BY <1>1 DEF StoresInv, RecordsWellFormed
    <2>6. CASE hzu'[e][y].status = hzu[e][y].status
      <3>1. ToldSame(e, y)
        BY <2>1 DEF ToldSame
      <3> QED
        BY <1>1, <2>6, <3>1, SameStage
    <2> HIDE DEF S
    <2>7. CASE /\ y = z /\ a = "DELEGATION"
               /\ hzu[e][y].status = "UNBONDING_IN_PROGRESS"
               /\ hzu'[e][y].status = "UNBONDING_QUEUE"
      BY <2>3, <2>4, <2>5, <2>7, StageCases
    <2>8. CASE /\ y = z /\ a = "DELEGATION"
               /\ hzu[e][y].status = "EXIT_TRANSFER_IN_PROGRESS"
               /\ hzu'[e][y].status = "EXIT_TRANSFER_QUEUE"
      BY <2>3, <2>4, <2>8, StageCases
    <2> QED
      BY <2>2, <2>6, <2>7, <2>8
  <1>4. batches' = batches
    BY <1>3, SameBatches
  <1> QED
    BY <1>1, <1>4, NoneOwed, SameQuiet

LEMMA ChanOpenAckSimulates ==
    ASSUME RecordsInv, NEW z \in Zones, NEW a \in Accounts, ChanOpenAck(z, a)
    PROVE  Simulates
  <1>1. /\ StoresInv /\ UNCHANGED <<hzu, current, urr, paid>> /\ channel[z][a].state # "OPEN"
        /\ SetState(z, a, "OPEN")
    BY DEF ChanOpenAck, RecordsInv, records, ghosts, SetState
  <1>2. \A y \in Zones, b \in Accounts : channel'[y][b].pkts = channel[y][b].pkts
    BY <1>1, ChannelStateEffect
  <1> QED
    BY <1>1, <1>2, SameChannelNews, UnchangedSimulates DEF Accounts

\* What a day epoch makes of a record: it is removed, it is the new day's, or
\* it is submitted or left alone.
LEMMA DayRecord ==
    ASSUME RecordsInv, NEW lag, DayEpoch(lag)
    PROVE  LET d == (day + 1) % DayCycle
               gone == CleanedUp(Submitted(d, lag))
           IN
           /\ gone \in SUBSET Eurs /\ current' \in gone
           /\ \A e \in gone, z \in Zones : hzu[e][z].native = 0
           /\ \A e \in Eurs, z \in Zones :
                /\ e = current' /\ z \in ActiveZones => hzu'[e][z].status = "UNBONDING_QUEUE"
                /\ e \in gone /\ ~(e = current' /\ z \in ActiveZones) => hzu'[e][z].status = "NONE"
                /\ e \notin gone => hzu'[e][z].status = Submitted(d, lag)[e][z].status
  <1> DEFINE d == (day + 1) % DayCycle
             recs == Submitted(d, lag)
             gone == CleanedUp(recs)
             new == CHOOSE e \in gone : TRUE
  <1>1. /\ gone # {} /\ current' = new
        /\ hzu' = CreateEpochUnbondingRecord(recs, gone, new)
    BY DEF DayEpoch, Submitted
  <1>2. gone \in SUBSET Eurs /\ new \in gone
    BY <1>1 DEF CleanedUp
  <1>3. \A e \in gone, z \in Zones : hzu[e][z].native = 0
    <2>1. \A e \in gone, z \in Zones : recs[e][z].native = 0
      BY DEF CleanedUp
    <2>2. \A e \in Eurs, z \in Zones : recs[e][z].native = hzu[e][z].native
      BY SubmittedRecords DEF RecordsInv, StoresInv
    <2> QED
      BY <1>2, <2>1, <2>2
  <1> HIDE DEF d, recs, gone, new
  <1>4. ASSUME NEW e \in Eurs, NEW z \in Zones
        PROVE  hzu'[e][z] = IF e = new /\ z \in ActiveZones THEN NewUnbonding
                            ELSE IF e \in gone \cup {new} THEN NoUnbonding ELSE recs[e][z]
    BY <1>1 DEF CreateEpochUnbondingRecord
  <1>5. NewUnbonding.status = "UNBONDING_QUEUE" /\ NoUnbonding.status = "NONE"
    BY DEF NewUnbonding, NoUnbonding
  <1>6. \A e \in Eurs, z \in Zones :
          /\ e = current' /\ z \in ActiveZones => hzu'[e][z].status = "UNBONDING_QUEUE"
          /\ e \in gone /\ ~(e = current' /\ z \in ActiveZones) => hzu'[e][z].status = "NONE"
          /\ e \notin gone => hzu'[e][z].status = recs[e][z].status
    BY <1>1, <1>2, <1>4, <1>5
  <1> QED
    BY <1>1, <1>2, <1>3, <1>6 DEF d, recs, gone

LEMMA DayEpochSimulates ==
    ASSUME RecordsInv, NEW lag \in 0..MaxLag, DayEpoch(lag)
    PROVE  Simulates
  <1> DEFINE d == (day + 1) % DayCycle
             gone == CleanedUp(Submitted(d, lag))
  <1>1. StoresInv /\ StoresTypeOK
    BY DEF RecordsInv, StoresInv
  <1>2. /\ gone \in SUBSET Eurs /\ current' \in gone
        /\ \A e \in gone, z \in Zones : hzu[e][z].native = 0
        /\ \A e \in Eurs, z \in Zones :
             /\ e = current' /\ z \in ActiveZones => hzu'[e][z].status = "UNBONDING_QUEUE"
             /\ e \in gone /\ ~(e = current' /\ z \in ActiveZones) => hzu'[e][z].status = "NONE"
             /\ e \notin gone => hzu'[e][z].status = Submitted(d, lag)[e][z].status
    BY DayRecord
  <1>3. UNCHANGED <<urr, paid>>
    BY DEF DayEpoch
  <1>4. \A z \in Zones : channel'[z]["DELEGATION"].pkts =
          channel[z]["DELEGATION"].pkts \cup SubmittedPackets(z, d, lag)
    BY <1>1, DayRecords
  <1> HIDE DEF d, gone
  <1>5. ASSUME NEW e \in Eurs, NEW z \in Zones
        PROVE  ToldSame(e, z)
    <2>1. \A x \in SubmittedPackets(z, d, lag) : x.state = "sent"
      BY <1>1, SubmittedPacket
    <2>2. \A x \in SubmittedPackets(z, d, lag) : x.state # "ok"
      BY <2>1
    <2> QED
      BY <1>4, <2>2, SentNews DEF SameNews, ToldSame
  <1>6. ASSUME NEW e \in gone, NEW z \in Zones, NEW u \in Users
        PROVE  redemptions[e][z][u] = Lifecycle!None
    <2>1. urr[e][z][u].amount <= hzu[e][z].native
      BY <1>1, <1>2, OwedToUser DEF StoresInv
    <2>2. urr[e][z][u] \in UserRedemptionRecord /\ e \in Eurs
      BY <1>1, <1>2 DEF StoresTypeOK
    <2>3. urr[e][z][u].pending => urr[e][z][u].amount > 0
      BY <1>1, <2>2 DEF StoresInv, RecordsWellFormed
    <2>4. urr[e][z][u].amount = 0 /\ urr[e][z][u].pending = FALSE
      BY <1>2, <2>1, <2>2, <2>3 DEF UserRedemptionRecord
    <2>5. urr[e][z][u] = NoRedemption
      BY <2>2, <2>4 DEF UserRedemptionRecord, NoRedemption
    <2>6. RedemptionOf(urr, paid, e, z, u) = Lifecycle!None
      BY <2>5, OwedCases
    <2>7. redemptions[e][z][u] = RedemptionOf(urr, paid, e, z, u)
      BY <2>2 DEF redemptions
    <2> QED
      BY <2>6, <2>7
  <1>7. ASSUME NEW e \in Eurs, NEW z \in Zones
        PROVE  StageNext(e, z) = IF e = current' /\ z \in ActiveZones THEN "collecting"
                                 ELSE IF e \in gone THEN "none"
                                 ELSE IF batches[e][z] = "collecting" THEN "queued"
                                 ELSE batches[e][z]
    <2> DEFINE before == channel[z]["DELEGATION"].pkts
               after == channel'[z]["DELEGATION"].pkts
               status == Submitted(d, lag)[e][z].status
    <2>1. /\ batches[e][z] = StageOf(hzu, before, current, e, z)
          /\ StageNext(e, z) = StageOf(hzu', after, current', e, z)
      BY Mapping DEF StageNow, StageNext
    <2>2. /\ Told(before, "undelegate", e) => hzu[e][z].status = "UNBONDING_IN_PROGRESS"
          /\ Told(before, "redemption", e) => hzu[e][z].status = "EXIT_TRANSFER_IN_PROGRESS"
      BY ToldStatus DEF NewsAwaited
    <2>3. /\ Told(after, "undelegate", e) <=> Told(before, "undelegate", e)
          /\ Told(after, "redemption", e) <=> Told(before, "redemption", e)
      BY <1>5 DEF ToldSame, Kinds
    <2>4. /\ e \in UnbondingDue(z, d) => hzu[e][z].status = "UNBONDING_QUEUE"
          /\ e \in SweepDue(z, lag) => hzu[e][z].status = "EXIT_TRANSFER_QUEUE"
      BY DueRecords
    <2>5. /\ e \in UnbondingDue(z, d) => status = "UNBONDING_IN_PROGRESS"
          /\ e \in SweepDue(z, lag) => status = "EXIT_TRANSFER_IN_PROGRESS"
          /\ ~(e \in UnbondingDue(z, d) \/ e \in SweepDue(z, lag)) => status = hzu[e][z].status
      BY <1>1, SubmittedRecords
    <2>6. hzu[e][z].status \in Statuses
      BY <1>1 DEF StoresTypeOK, HostZoneUnbonding
    <2>7. e \notin gone => hzu'[e][z].status = status
      BY <1>2
    <2> HIDE DEF before, after, status
    <2>8. CASE e = current' /\ z \in ActiveZones
      BY <1>2, <2>1, <2>8, StageCases
    <2>9. CASE e \in gone /\ ~(e = current' /\ z \in ActiveZones)
      BY <1>2, <2>1, <2>9, StageCases
    <2>10. CASE e \notin gone
      <3>1. e # current' /\ hzu'[e][z].status = status
        BY <1>2, <2>7, <2>10
      <3>2. CASE e \in UnbondingDue(z, d)
        <4>1. StageNext(e, z) = "queued"
          BY <2>1, <2>2, <2>3, <2>4, <2>5, <3>1, <3>2, StageCases
        <4>2. batches[e][z] \in {"collecting", "queued"}
          BY <2>1, <2>4, <3>2, StageCases
        <4> QED
          BY <2>10, <3>1, <4>1, <4>2
      <3>3. CASE e \in SweepDue(z, lag)
        <4>1. StageNext(e, z) = "unbonding"
          BY <2>1, <2>2, <2>3, <2>4, <2>5, <3>1, <3>3, StageCases
        <4>2. batches[e][z] = "unbonding"
          BY <2>1, <2>4, <3>3, StageCases
        <4> QED
          BY <2>10, <3>1, <4>1, <4>2
      <3>4. CASE ~(e \in UnbondingDue(z, d) \/ e \in SweepDue(z, lag))
        <4>1. hzu'[e][z].status = hzu[e][z].status
          BY <2>5, <3>1, <3>4
        <4>2. StageNext(e, z) = IF batches[e][z] = "collecting" THEN "queued" ELSE batches[e][z]
          BY <2>1, <2>3, <2>6, <3>1, <4>1, StageCases DEF Statuses
        <4> QED
          BY <2>10, <3>1, <4>2
      <3> QED
        BY <3>2, <3>3, <3>4
    <2> QED
      BY <2>8, <2>9, <2>10
  <1>8. batches' = [e \in Eurs |-> [z \in Zones |->
          IF e = current' /\ z \in ActiveZones THEN "collecting"
          ELSE IF e \in gone THEN "none"
          ELSE IF batches[e][z] = "collecting" THEN "queued" ELSE batches[e][z]]]
    BY <1>7, Mapping
  <1>9. Lifecycle!NewDay(gone, current', ActiveZones)
    BY <1>2, <1>3, <1>6, <1>8, NoneOwed DEF Lifecycle!NewDay
  <1>10. current' \in Eurs /\ gone \in SUBSET Eurs /\ ActiveZones \in SUBSET Zones
    BY <1>2 DEF ActiveZones
  <1> QED
    BY <1>9, <1>10 DEF Simulates, Lifecycle!Next

-----------------------------------------------------------------------------
(* The refinement *)

LEMMA InitSimulates ==
    Init => Lifecycle!Init
  <1> SUFFICES ASSUME Init PROVE Lifecycle!Init
    OBVIOUS
  <1>1. ASSUME NEW e \in Eurs, NEW z \in Zones
        PROVE  StageNow(e, z) \in {"none", "collecting"}
    <2>1. hzu[e][z] = IF e = current THEN NewUnbonding ELSE NoUnbonding
      BY DEF Init
    <2>2. NewUnbonding.status = "UNBONDING_QUEUE" /\ NoUnbonding.status = "NONE"
      BY DEF NewUnbonding, NoUnbonding
    <2> QED
      BY <2>1, <2>2, StageCases DEF StageNow
  <1>2. ASSUME NEW e \in Eurs, NEW z \in Zones, NEW u \in Users
        PROVE  OwedNow(e, z, u) = Lifecycle!None
    <2>1. urr[e][z][u] = NoRedemption
      BY DEF Init
    <2>2. RedemptionOf(urr, paid, e, z, u) = Lifecycle!None
      BY <2>1, OwedCases
    <2> QED
      BY <2>2 DEF OwedNow
  <1>3. batches \in [Eurs -> [Zones -> {"none", "collecting"}]]
    BY <1>1, Mapping
  <1>4. redemptions = [e \in Eurs |-> [z \in Zones |-> [u \in Users |-> Lifecycle!None]]]
    BY <1>2, Mapping
  <1> QED
    BY <1>3, <1>4 DEF Lifecycle!Init

LEMMA NextSimulates ==
    ASSUME RecordsInv, ClaimsPaid, [Next]_vars
    PROVE  Simulates
  <1>1. ASSUME NEW lag \in 0..MaxLag, DayEpoch(lag) PROVE Simulates
    BY <1>1, DayEpochSimulates
  <1>2. ASSUME NEW z \in Zones, NEW u \in Users, NEW amount \in RedeemAmounts, RedeemStake(z, u, amount)
        PROVE  Simulates
    BY <1>2, RedeemStakeSimulates
  <1>3. ASSUME NEW z \in Zones, NEW e \in Eurs, NEW u \in Users, ClaimUndelegatedTokens(e, z, u)
        PROVE  Simulates
    BY <1>3, ClaimSimulates
  <1>4. ASSUME NEW z \in Zones, NEW a \in Accounts, NEW p \in channel[z][a].pkts,
               NEW result \in {"ok", "err"}, ExecuteICA(z, a, p, result)
        PROVE  Simulates
    <2>1. CASE p.kind = "claim"
      BY <1>4, <2>1, ExecuteClaimSimulates
    <2>2. CASE p.kind = "delegate"
      BY <1>4, <2>2, ExecuteDelegateSimulates
    <2>3. CASE p.kind # "claim" /\ p.kind # "delegate"
      BY <1>4, <2>3, ExecuteBatchSimulates
    <2> QED
      BY <2>1, <2>2, <2>3
  <1>5. ASSUME NEW z \in Zones, NEW a \in Accounts, NEW p \in channel[z][a].pkts, AckICA(z, a, p)
        PROVE  Simulates
    <2>1. CASE p.kind = "claim"
      BY <1>5, <2>1, AckClaimSimulates
    <2>2. CASE p.kind = "delegate"
      BY <1>5, <2>2, AckDelegateSimulates
    <2>3. CASE p.kind # "claim" /\ p.kind # "delegate"
      BY <1>5, <2>3, AckBatchSimulates
    <2> QED
      BY <2>1, <2>2, <2>3
  <1>6. ASSUME NEW z \in Zones, NEW a \in Accounts, NEW p \in channel[z][a].pkts, TimeoutICA(z, a, p)
        PROVE  Simulates
    BY <1>6, TimeoutICASimulates
  <1>7. ASSUME NEW z \in Zones, NEW a \in Accounts,
               RestoreInterchainAccount(z, a) \/ ChanOpenAck(z, a)
        PROVE  Simulates
    BY <1>7, RestoreSimulates, ChanOpenAckSimulates
  <1>8. ASSUME NEW z \in Zones, TimeoutOfAnother(z) PROVE Simulates
    BY <1>8, TimeoutOfAnotherSimulates
  <1>9. ASSUME NEW z \in Zones, DepositsSide(z) PROVE Simulates
    BY <1>9, DepositsSideSimulates
  <1>10. ASSUME NEW k \in orphans, TimeoutOnClose(k) PROVE Simulates
    BY <1>10, TimeoutOnCloseSimulates
  <1>11. CASE Tick
    BY <1>11, TickSimulates
  <1>12. CASE UNCHANGED vars
    BY <1>12, SameChannelNews, UnchangedSimulates DEF vars, records, ghosts
  <1>13. ASSUME NEW z \in Zones, NEW amount \in 1..deposits[z], DelegateOnHost(z, amount)
         PROVE  Simulates
    BY <1>13, DelegateOnHostSimulates
  <1> QED
    BY <1>1, <1>2, <1>3, <1>4, <1>5, <1>6, <1>7, <1>8, <1>9, <1>10, <1>11, <1>12, <1>13
       DEF Next, DepositsSide

\* For any zones, users, amounts, periods and lags, and whatever the channels
\* do, redemptions are carried to the host in batches and paid from them once.
THEOREM RedemptionLifecycleImplemented == Spec => ImplementsLifecycle
<1>1. RecordsInv /\ ClaimsPaid /\ [Next]_vars => [Lifecycle!Next]_<<batches, redemptions>>
    BY NextSimulates DEF Simulates
<1>2. QED
    BY <1>1, InitSimulates, ClaimsPaidHolds, PTL DEF Spec, ImplementsLifecycle, Lifecycle!Spec
=============================================================================
