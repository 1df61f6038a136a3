------------------------ MODULE DepositRecordsProofs ------------------------
(***************************************************************************)
(* For any zones, amounts, intervals and limits: packets and records match,*)
(* a deposit is delegated at most once unless an acknowledgement was lost  *)
(* with the channel, every step is one of DepositLifecycle, the balances   *)
(* of a zone add up, the redemption rate never falls, no account is        *)
(* overdrawn, and every list of records and packets has each of them once. *)
(***************************************************************************)
EXTENDS DepositRecords, LedgerTheorems

\* Neither part is inductive without the other, nor without knowing that a
\* channel that is not open has no packets: RestoreInterchainAccount would
\* take the record away from a packet that could still be acknowledged.
ClosedChannelsEmpty ==
    \A z \in Zones : channel[z].state # "OPEN" => channel[z].pkts = {}

IndInv ==
    /\ RecordsTypeOK
    /\ PacketsMatchRecords
    /\ ClosedChannelsEmpty
    /\ DelegatedOnceUnlessAckLost

-----------------------------------------------------------------------------
(* Facts about the helpers *)

\* The image of a finite set is finite.
LEMMA FiniteImage ==
    ASSUME NEW f, IsFiniteSet(DOMAIN f), f \in [DOMAIN f -> {f[x] : x \in DOMAIN f}]
    PROVE  IsFiniteSet({f[x] : x \in DOMAIN f})
<1>1. f \in Surjection(DOMAIN f, {f[x] : x \in DOMAIN f})
    BY DEF Surjection
<1>2. QED
    BY <1>1, FS_Surjection

\* A cardinality is an integer when the set is finite.
LEMMA CardinalityInt ==
    ASSUME NEW S, IsFiniteSet(S)
    PROVE  Cardinality(S) \in Int
    BY FS_CardinalityType

LEMMA NoRecordType == NoRecord \in Record
<1>1. (CHOOSE z \in Zones : TRUE) \in Zones
    BY DepositRecordsAssumption
<1>2. QED
    BY <1>1 DEF NoRecord, Record, Statuses

\* What SetStatus and Delete do to one record.
LEMMA SetStatusRecord ==
    ASSUME NEW recs \in [Ids -> Record], NEW S, NEW status \in Statuses
    PROVE  /\ SetStatus(recs, S, status) \in [Ids -> Record]
           /\ \A i \in Ids :
                /\ SetStatus(recs, S, status)[i].zone = recs[i].zone
                /\ SetStatus(recs, S, status)[i].amount = recs[i].amount
                /\ SetStatus(recs, S, status)[i].status
                     = IF i \in S THEN status ELSE recs[i].status
    BY DEF SetStatus, Record

LEMMA DeleteRecord ==
    ASSUME NEW recs \in [Ids -> Record], NEW S
    PROVE  /\ Delete(recs, S) \in [Ids -> Record]
           /\ \A i \in Ids : i \notin S => Delete(recs, S)[i] = recs[i]
    BY NoRecordType DEF Delete

\* New records only take names that are free.
LEMMA NewRecordsType ==
    ASSUME NEW old \in [Ids -> Record], NEW S \in SUBSET Zones, NEW free \in SUBSET Ids,
           NEW slot \in Slots(S, free)
    PROVE  /\ WithNewRecords(old, slot) \in [Ids -> Record]
           /\ \A i \in Ids : i \notin free => WithNewRecords(old, slot)[i] = old[i]
           /\ \A i \in Ids : WithNewRecords(old, slot)[i] = old[i]
                  \/ WithNewRecords(old, slot)[i].status = "TRANSFER_QUEUE"
<1>1. slot \in [S -> free] /\ DOMAIN slot = S
    BY DEF Slots
<1>2. ASSUME NEW z \in Zones
      PROVE  /\ NewRecord(z, "TRANSFER_QUEUE", 0) \in Record
             /\ NewRecord(z, "TRANSFER_QUEUE", 0).status = "TRANSFER_QUEUE"
    BY DEF NewRecord, Record, Statuses
<1>3. ASSUME NEW i \in Ids, \E z \in DOMAIN slot : slot[z] = i
      PROVE  (CHOOSE z \in DOMAIN slot : slot[z] = i) \in Zones
    BY <1>1, <1>3
<1>4. ASSUME NEW i \in Ids
      PROVE  /\ WithNewRecords(old, slot)[i] \in Record
             /\ i \notin free => WithNewRecords(old, slot)[i] = old[i]
             /\ \/ WithNewRecords(old, slot)[i] = old[i]
                \/ WithNewRecords(old, slot)[i].status = "TRANSFER_QUEUE"
    <2>1. CASE \E z \in DOMAIN slot : slot[z] = i
        <3>1. i \in free
            BY <1>1, <2>1
        <3>2. WithNewRecords(old, slot)[i]
                = NewRecord(CHOOSE z \in DOMAIN slot : slot[z] = i, "TRANSFER_QUEUE", 0)
            BY <2>1 DEF WithNewRecords
        <3>3. QED
            BY <1>2, <1>3, <2>1, <3>1, <3>2
    <2>2. CASE ~ \E z \in DOMAIN slot : slot[z] = i
        BY <2>2 DEF WithNewRecords
    <2>3. QED
        BY <2>1, <2>2
<1>5. WithNewRecords(old, slot) = [i \in Ids |-> WithNewRecords(old, slot)[i]]
    BY DEF WithNewRecords
<1>6. QED
    BY <1>4, <1>5

-----------------------------------------------------------------------------
(* Initial states *)

LEMMA InitIndInv == Init => IndInv
<1> SUFFICES ASSUME Init PROVE IndInv
    OBVIOUS
<1> DEFINE slot == CHOOSE s \in Slots(Zones, Ids) : TRUE
<1>1. slot \in Slots(Zones, Ids)
    BY DEF Init
<1>2. [i \in Ids |-> NoRecord] \in [Ids -> Record]
    BY NoRecordType
<1>3. records \in [Ids -> Record]
    BY <1>1, <1>2, NewRecordsType DEF Init
<1>4. RecordsTypeOK
    BY <1>3, FS_EmptySet DEF Init, RecordsTypeOK
<1>5. PacketsMatchRecords /\ ClosedChannelsEmpty /\ DelegatedOnceUnlessAckLost
    BY DEF Init, PacketsMatchRecords, ClosedChannelsEmpty, DelegatedOnceUnlessAckLost
<1>6. QED
    BY <1>4, <1>5 DEF IndInv

-----------------------------------------------------------------------------
(* Steps that leave the packets alone *)

LEMMA LiquidStakeStep ==
    ASSUME IndInv, NEW z \in Zones, NEW amount \in StakeAmounts, LiquidStake(z, amount)
    PROVE  IndInv'
<1>1. PICK i \in CurrentTransferRecord(z) :
        records' = [records EXCEPT ![i].amount = @ + amount]
    BY DEF LiquidStake
<1>2. i \in Ids /\ records[i].status = "TRANSFER_QUEUE"
    BY DEF CurrentTransferRecord, WithStatus
<1>3. UNCHANGED <<transfers, channel, delegations, lostAcks>>
    BY DEF LiquidStake, ghosts
<1>4. /\ records' \in [Ids -> Record]
      /\ \A j \in Ids : j # i => records'[j] = records[j]
    <2>1. amount \in Nat
        BY DepositRecordsAssumption
    <2>2. QED
        BY <1>1, <1>2, <2>1 DEF IndInv, RecordsTypeOK, Record
<1>5. RecordsTypeOK'
    BY <1>3, <1>4 DEF IndInv, RecordsTypeOK
<1>6. PacketsMatchRecords'
    BY <1>2, <1>3, <1>4 DEF IndInv, PacketsMatchRecords, RecordsTypeOK, TransferPacket
<1>7. ClosedChannelsEmpty' /\ DelegatedOnceUnlessAckLost'
    BY <1>3 DEF IndInv, ClosedChannelsEmpty, DelegatedOnceUnlessAckLost
<1>8. QED
    BY <1>5, <1>6, <1>7 DEF IndInv

LEMMA ReinvestCallbackStep ==
    ASSUME IndInv, NEW z \in Zones, NEW amount \in RewardAmounts,
           ReinvestCallback(z, amount)
    PROVE  IndInv'
<1> DEFINE i == CHOOSE j \in FreeIds : TRUE
<1>1. /\ i \in FreeIds
      /\ records' = [records EXCEPT ![i] = NewRecord(z, "DELEGATION_QUEUE", amount)]
    BY DEF ReinvestCallback
<1>2. i \in Ids /\ records[i].status = "NONE"
    BY <1>1 DEF FreeIds, Present
<1>3. UNCHANGED <<transfers, channel, delegations, lostAcks>>
    BY DEF ReinvestCallback, ghosts
<1> HIDE DEF i
<1>4. /\ records' \in [Ids -> Record]
      /\ \A j \in Ids : j # i => records'[j] = records[j]
    <2>1. NewRecord(z, "DELEGATION_QUEUE", amount) \in Record
        BY DepositRecordsAssumption DEF NewRecord, Record, Statuses
    <2>2. QED
        BY <1>1, <1>2, <2>1 DEF IndInv, RecordsTypeOK
<1>5. RecordsTypeOK'
    BY <1>3, <1>4 DEF IndInv, RecordsTypeOK
<1>6. PacketsMatchRecords'
    BY <1>2, <1>3, <1>4 DEF IndInv, PacketsMatchRecords, RecordsTypeOK, TransferPacket
<1>7. ClosedChannelsEmpty' /\ DelegatedOnceUnlessAckLost'
    BY <1>3 DEF IndInv, ClosedChannelsEmpty, DelegatedOnceUnlessAckLost
<1>8. QED
    BY <1>5, <1>6, <1>7 DEF IndInv

LEMMA UnchangedStep ==
    ASSUME IndInv, UNCHANGED <<records, transfers, channel, delegations, lostAcks>>
    PROVE  IndInv'
    BY DEF IndInv, RecordsTypeOK, PacketsMatchRecords, ClosedChannelsEmpty,
           DelegatedOnceUnlessAckLost

-----------------------------------------------------------------------------
(* The transfer channel *)

LEMMA TransferRecvStep ==
    ASSUME IndInv, NEW t \in transfers, NEW result \in {"ok", "err"},
           TransferRecv(t, result)
    PROVE  IndInv'
<1> DEFINE done == [t EXCEPT !.state = result]
<1>1. /\ transfers' = (transfers \ {t}) \cup {done}
      /\ UNCHANGED <<records, channel, delegations, lostAcks>>
    BY DEF TransferRecv, ghosts
<1>2. /\ done \in TransferPacket
      /\ done.id = t.id
      /\ done.amount = t.amount
    BY DEF IndInv, RecordsTypeOK, TransferPacket, PacketStates
<1> HIDE DEF done
<1>3. RecordsTypeOK'
    BY <1>1, <1>2 DEF IndInv, RecordsTypeOK
<1>4. PacketsMatchRecords'
    <2>1. \A u \in transfers' : \E v \in transfers : v.id = u.id /\ v.amount = u.amount
        BY <1>1, <1>2
    <2>2. \A u, v \in transfers' : u.id = v.id => u = v
        BY <1>1, <1>2 DEF IndInv, PacketsMatchRecords
    <2>3. QED
        BY <1>1, <2>1, <2>2 DEF IndInv, PacketsMatchRecords
<1>5. ClosedChannelsEmpty' /\ DelegatedOnceUnlessAckLost'
    BY <1>1 DEF IndInv, ClosedChannelsEmpty, DelegatedOnceUnlessAckLost
<1>6. QED
    BY <1>3, <1>4, <1>5 DEF IndInv

LEMMA TransferDoneStep ==
    ASSUME IndInv, NEW t \in transfers, NEW result, TransferDone(t, result)
    PROVE  IndInv'
<1>1. /\ transfers' = transfers \ {t}
      /\ records' = TransferCallback(t.id, result)
      /\ UNCHANGED <<channel, delegations, lostAcks>>
    BY DEF TransferDone, ghosts
<1>2. t.id \in Ids /\ records[t.id].status = "TRANSFER_IN_PROGRESS"
    BY DEF IndInv, RecordsTypeOK, PacketsMatchRecords, TransferPacket
<1>3. /\ records' \in [Ids -> Record]
      /\ \A j \in Ids : /\ records'[j].zone = records[j].zone
                        /\ records'[j].amount = records[j].amount
                        /\ j # t.id => records'[j].status = records[j].status
    BY <1>1, SetStatusRecord DEF TransferCallback, Statuses, IndInv, RecordsTypeOK
<1>4. RecordsTypeOK'
    BY <1>1, <1>3 DEF IndInv, RecordsTypeOK
<1>5. PacketsMatchRecords'
    BY <1>1, <1>2, <1>3 DEF IndInv, PacketsMatchRecords, RecordsTypeOK, TransferPacket
<1>6. ClosedChannelsEmpty' /\ DelegatedOnceUnlessAckLost'
    BY <1>1 DEF IndInv, ClosedChannelsEmpty, DelegatedOnceUnlessAckLost
<1>7. QED
    BY <1>4, <1>5, <1>6 DEF IndInv

-----------------------------------------------------------------------------
(* The DELEGATION channel *)

LEMMA ExecuteICAStep ==
    ASSUME IndInv, NEW z \in Zones, NEW p \in channel[z].pkts,
           NEW result \in {"ok", "err"}, ExecuteICA(z, p, result)
    PROVE  IndInv'
<1> DEFINE done == [p EXCEPT !.state = result]
           pkts(y) == channel[y].pkts
<1>1. /\ channel' = [channel EXCEPT ![z].pkts = (@ \ {p}) \cup {done}]
      /\ UNCHANGED <<records, transfers, lostAcks>>
      /\ p.state = "sent"
      /\ channel[z].state = "OPEN"
    BY DEF ExecuteICA
<1>2. /\ p \in ICAPacket
      /\ done \in ICAPacket
      /\ done.msg = p.msg /\ done.amount = p.amount /\ done.state = result
    BY DEF IndInv, RecordsTypeOK, ICAPacket, PacketStates
<1> HIDE DEF done
<1>3. /\ channel' \in [Zones -> [state : {"OPEN", "CLOSED", "INIT"}, pkts : SUBSET ICAPacket]]
      /\ \A y \in Zones : channel'[y].state = channel[y].state
      /\ \A y \in Zones : y # z => channel'[y].pkts = pkts(y)
      /\ channel'[z].pkts = (pkts(z) \ {p}) \cup {done}
    BY <1>1, <1>2 DEF IndInv, RecordsTypeOK
<1>4. IsFiniteSet((pkts(z) \ {p}) \cup {done})
    BY FS_RemoveElement, FS_AddElement DEF IndInv, RecordsTypeOK
<1>5. /\ delegations' \in [Ids -> Nat]
      /\ \A i \in Ids : delegations'[i] = IF i = p.msg /\ result = "ok"
                                         THEN delegations[i] + 1 ELSE delegations[i]
    BY DEF ExecuteICA, IndInv, RecordsTypeOK
<1>6. RecordsTypeOK'
    BY <1>1, <1>3, <1>4, <1>5 DEF IndInv, RecordsTypeOK
<1>7. PacketsMatchRecords'
    BY <1>1, <1>2, <1>3 DEF IndInv, PacketsMatchRecords
<1>8. ClosedChannelsEmpty'
    BY <1>1, <1>3 DEF IndInv, ClosedChannelsEmpty
<1>9. DelegatedOnceUnlessAckLost'
    <2> SUFFICES ASSUME NEW i \in Ids, i \notin lostAcks
                 PROVE  delegations'[i] =
                          IF \E y \in Zones : \E q \in channel'[y].pkts :
                               q.msg = i /\ q.state = "ok"
                          THEN 1 ELSE 0
        BY <1>1 DEF DelegatedOnceUnlessAckLost
    <2>1. delegations[i] = IF \E y \in Zones : \E q \in pkts(y) :
                                q.msg = i /\ q.state = "ok"
                           THEN 1 ELSE 0
        BY DEF IndInv, DelegatedOnceUnlessAckLost
    <2>2. CASE i # p.msg
        <3>1. (\E y \in Zones : \E q \in channel'[y].pkts : q.msg = i /\ q.state = "ok")
                <=> (\E y \in Zones : \E q \in pkts(y) : q.msg = i /\ q.state = "ok")
            BY <1>2, <1>3, <2>2
        <3>2. QED
            BY <1>5, <2>1, <2>2, <3>1
    <2>3. CASE i = p.msg
        <3>1. \A y \in Zones : \A q \in pkts(y) : q.msg = i => y = z /\ q = p
            BY <2>3 DEF IndInv, PacketsMatchRecords
        <3>2. delegations[i] = 0
            BY <1>1, <2>1, <3>1
        <3>3. (\E y \in Zones : \E q \in channel'[y].pkts : q.msg = i /\ q.state = "ok")
                <=> result = "ok"
            BY <1>2, <1>3, <2>3, <3>1
        <3>4. QED
            BY <1>5, <2>3, <3>2, <3>3
    <2>4. QED
        BY <2>2, <2>3
<1>10. QED
    BY <1>6, <1>7, <1>8, <1>9 DEF IndInv

LEMMA AckICAStep ==
    ASSUME IndInv, NEW z \in Zones, NEW p \in channel[z].pkts, AckICA(z, p)
    PROVE  IndInv'
<1> DEFINE pkts(y) == channel[y].pkts
           next(q) == [q EXCEPT !.seq = @ - 1]
<1>1. /\ channel' = [channel EXCEPT ![z].pkts = {next(q) : q \in @ \ {p}}]
      /\ UNCHANGED transfers
      /\ channel[z].state = "OPEN"
    BY DEF AckICA
<1>2. \A q \in pkts(z) : /\ q \in ICAPacket /\ next(q) \in ICAPacket
                         /\ next(q).msg = q.msg /\ next(q).amount = q.amount
                         /\ next(q).state = q.state
    BY DEF IndInv, RecordsTypeOK, ICAPacket
<1>3. IsFiniteSet({next(q) : q \in pkts(z) \ {p}})
    <2> DEFINE f == [q \in pkts(z) \ {p} |-> next(q)]
    <2>1. DOMAIN f = pkts(z) \ {p} /\ IsFiniteSet(pkts(z) \ {p})
        BY FS_RemoveElement DEF IndInv, RecordsTypeOK
    <2>2. {f[q] : q \in DOMAIN f} = {next(q) : q \in pkts(z) \ {p}}
        OBVIOUS
    <2>3. f \in [DOMAIN f -> {f[q] : q \in DOMAIN f}]
        OBVIOUS
    <2> HIDE DEF f
    <2>4. QED
        BY <2>1, <2>2, <2>3, FiniteImage
<1>4. /\ channel' \in [Zones -> [state : {"OPEN", "CLOSED", "INIT"}, pkts : SUBSET ICAPacket]]
      /\ \A y \in Zones : channel'[y].state = channel[y].state
      /\ \A y \in Zones : y # z => channel'[y].pkts = pkts(y)
      /\ channel'[z].pkts = {next(q) : q \in pkts(z) \ {p}}
    BY <1>1, <1>2 DEF IndInv, RecordsTypeOK
<1> HIDE DEF next
<1>5. ClosedChannelsEmpty'
    BY <1>1, <1>4 DEF IndInv, ClosedChannelsEmpty
<1>6. \A q \in pkts(z) \ {p} : q.msg \in Ids => q.msg # p.msg
    BY <1>2 DEF IndInv, PacketsMatchRecords, ICAPacket
<1>7. \A i \in Ids : i # p.msg =>
        ((\E y \in Zones : \E q \in channel'[y].pkts : q.msg = i /\ q.state = "ok")
           <=> (\E y \in Zones : \E q \in pkts(y) : q.msg = i /\ q.state = "ok"))
    <2> SUFFICES ASSUME NEW i \in Ids, i # p.msg
                 PROVE  (\E q \in channel'[z].pkts : q.msg = i /\ q.state = "ok")
                          <=> (\E q \in pkts(z) : q.msg = i /\ q.state = "ok")
        BY <1>4
    <2>1. ASSUME NEW q \in pkts(z), q.msg = i /\ q.state = "ok"
          PROVE  \E r \in channel'[z].pkts : r.msg = i /\ r.state = "ok"
        <3>1. next(q) \in channel'[z].pkts
            BY <1>4, <2>1
        <3>2. QED
            BY <1>2, <2>1, <3>1
    <2>2. ASSUME NEW r \in channel'[z].pkts, r.msg = i /\ r.state = "ok"
          PROVE  \E q \in pkts(z) : q.msg = i /\ q.state = "ok"
        BY <1>2, <1>4, <2>2
    <2>3. QED
        BY <2>1, <2>2
<1>8. CASE p.msg = SetWithdrawAddress
    <2>1. UNCHANGED <<records, delegations, lostAcks>>
        BY <1>8 DEF AckICA
    <2>2. RecordsTypeOK'
        BY <1>3, <1>4, <2>1, <1>1 DEF IndInv, RecordsTypeOK
    <2>3. PacketsMatchRecords'
        BY <1>1, <1>2, <1>4, <2>1 DEF IndInv, PacketsMatchRecords
    <2>4. \A i \in Ids : i # p.msg
        BY <1>8, DepositRecordsAssumption
    <2>5. DelegatedOnceUnlessAckLost'
        BY <1>7, <2>1, <2>4 DEF IndInv, DelegatedOnceUnlessAckLost
    <2>6. QED
        BY <1>5, <2>2, <2>3, <2>5 DEF IndInv
<1>9. CASE p.msg # SetWithdrawAddress
    <2>1. p.msg \in Ids
        BY <1>2, <1>9 DEF ICAPacket
    <2>2. /\ records' = DelegateCallback(p)
          /\ delegations' = [delegations EXCEPT ![p.msg] = IF p.state = "ok" THEN 0 ELSE @]
          /\ lostAcks' = IF p.state = "ok" THEN lostAcks \ {p.msg} ELSE lostAcks
        <3>1. /\ records' = DelegateCallback(p)
              /\ delegations' = [delegations EXCEPT ![p.msg] =
                    IF records'[p.msg].status = "NONE" THEN 0 ELSE @]
              /\ lostAcks' = IF p.state = "ok" THEN lostAcks \ {p.msg} ELSE lostAcks
              /\ p.state # "sent"
            BY <1>9 DEF AckICA
        <3>2. p.state \in {"ok", "err"}
            BY <1>2, <3>1 DEF ICAPacket, PacketStates
        <3>3. records'[p.msg].status = "NONE" <=> p.state = "ok"
            BY <2>1, <3>1, <3>2
               DEF DelegateCallback, SetStatus, Delete, NoRecord, IndInv, RecordsTypeOK, Record
        <3>4. QED
            BY <3>1, <3>3
    <2>3. /\ records' \in [Ids -> Record]
          /\ \A j \in Ids \ {p.msg} : /\ records'[j].zone = records[j].zone
                                      /\ records'[j].amount = records[j].amount
                                      /\ records'[j].status = records[j].status
        <3>1. /\ SetStatus(records, {p.msg}, "DELEGATION_QUEUE") \in [Ids -> Record]
              /\ \A j \in Ids \ {p.msg} :
                   LET r == SetStatus(records, {p.msg}, "DELEGATION_QUEUE")[j] IN
                   r.zone = records[j].zone /\ r.amount = records[j].amount
                     /\ r.status = records[j].status
            BY SetStatusRecord DEF Statuses, IndInv, RecordsTypeOK
        <3>2. /\ Delete(records, {p.msg}) \in [Ids -> Record]
              /\ \A j \in Ids \ {p.msg} : Delete(records, {p.msg})[j] = records[j]
            BY DeleteRecord DEF IndInv, RecordsTypeOK
        <3>3. QED
            BY <2>2, <3>1, <3>2 DEF DelegateCallback
    <2>4. RecordsTypeOK'
        BY <1>1, <1>3, <1>4, <2>1, <2>2, <2>3 DEF IndInv, RecordsTypeOK
    <2>5. PacketsMatchRecords'
        <3>1. \A t \in transfers : t.id \in Ids /\ t.id # p.msg
            BY <2>1 DEF IndInv, RecordsTypeOK, PacketsMatchRecords, TransferPacket
        <3>2. \A y \in Zones : \A q \in pkts(y) : y # z /\ q.msg \in Ids => q.msg # p.msg
            BY <2>1 DEF IndInv, PacketsMatchRecords
        <3>3. \A y \in Zones : \A q \in channel'[y].pkts : q.msg \in Ids =>
                 /\ q.msg # p.msg
                 /\ \E r \in pkts(y) : r.msg = q.msg /\ r.amount = q.amount
            BY <1>2, <1>4, <1>6, <3>2
        <3>4. \A y \in Zones : \A q, r \in channel'[y].pkts :
                 q.msg \in Ids /\ q.msg = r.msg => q = r
            BY <1>2, <1>4 DEF IndInv, PacketsMatchRecords
        <3>5. QED
            BY <1>1, <2>3, <3>1, <3>3, <3>4 DEF IndInv, PacketsMatchRecords
    <2>6. DelegatedOnceUnlessAckLost'
        <3> SUFFICES ASSUME NEW i \in Ids, i \notin lostAcks'
                     PROVE  delegations'[i] =
                              IF \E y \in Zones : \E q \in channel'[y].pkts :
                                   q.msg = i /\ q.state = "ok"
                              THEN 1 ELSE 0
            BY DEF DelegatedOnceUnlessAckLost
        <3>1. CASE i # p.msg
            <4>1. i \notin lostAcks /\ delegations'[i] = delegations[i]
                BY <2>1, <2>2, <3>1 DEF IndInv, RecordsTypeOK
            <4>2. QED
                BY <1>7, <3>1, <4>1 DEF IndInv, DelegatedOnceUnlessAckLost
        <3>2. CASE i = p.msg
            <4>1. \A y \in Zones : \A q \in channel'[y].pkts : q.msg # i
                BY <1>2, <1>4, <1>6, <2>1, <3>2 DEF IndInv, PacketsMatchRecords
            <4>2. delegations'[i] = 0
                <5>1. CASE p.state = "ok"
                    BY <2>1, <2>2, <3>2, <5>1 DEF IndInv, RecordsTypeOK
                <5>2. CASE p.state # "ok"
                    <6>1. i \notin lostAcks /\ delegations'[i] = delegations[i]
                        BY <2>1, <2>2, <3>2, <5>2 DEF IndInv, RecordsTypeOK
                    <6>2. \A y \in Zones : \A q \in pkts(y) : q.msg = i => q = p
                        BY <2>1, <3>2 DEF IndInv, PacketsMatchRecords
                    <6>3. QED
                        BY <5>2, <6>1, <6>2 DEF IndInv, DelegatedOnceUnlessAckLost
                <5>3. QED
                    BY <5>1, <5>2
            <4>3. QED
                BY <4>1, <4>2
        <3>3. QED
            BY <3>1, <3>2
    <2>7. QED
        BY <1>5, <2>4, <2>5, <2>6 DEF IndInv
<1>10. QED
    BY <1>8, <1>9

LEMMA TimeoutICAStep ==
    ASSUME IndInv, NEW z \in Zones, TimeoutICA(z)
    PROVE  IndInv'
<1> DEFINE pkts(y) == channel[y].pkts
<1>1. /\ channel' = [channel EXCEPT ![z] = [state |-> "CLOSED", pkts |-> {}]]
      /\ lostAcks' = lostAcks \cup
            {p.msg : p \in {q \in pkts(z) : q.state = "ok" /\ q.msg \in Ids}}
      /\ UNCHANGED <<records, transfers, delegations>>
    BY DEF TimeoutICA
<1>2. /\ channel' \in [Zones -> [state : {"OPEN", "CLOSED", "INIT"}, pkts : SUBSET ICAPacket]]
      /\ \A y \in Zones : y # z => channel'[y] = channel[y]
      /\ channel'[z].pkts = {}
    BY <1>1 DEF IndInv, RecordsTypeOK
<1>3. RecordsTypeOK'
    BY <1>1, <1>2, FS_EmptySet DEF IndInv, RecordsTypeOK
<1>4. PacketsMatchRecords'
    BY <1>1, <1>2 DEF IndInv, PacketsMatchRecords
<1>5. ClosedChannelsEmpty'
    BY <1>2 DEF IndInv, ClosedChannelsEmpty
<1>6. DelegatedOnceUnlessAckLost'
    <2> SUFFICES ASSUME NEW i \in Ids, i \notin lostAcks'
                 PROVE  (\E y \in Zones : \E q \in channel'[y].pkts :
                             q.msg = i /\ q.state = "ok")
                          <=> (\E y \in Zones : \E q \in pkts(y) :
                                   q.msg = i /\ q.state = "ok")
        BY <1>1 DEF IndInv, DelegatedOnceUnlessAckLost
    <2>1. \A q \in pkts(z) : ~(q.msg = i /\ q.state = "ok")
        BY <1>1
    <2>2. QED
        BY <1>2, <2>1
<1>7. QED
    BY <1>3, <1>4, <1>5, <1>6 DEF IndInv

LEMMA RestoreStep ==
    ASSUME IndInv, NEW z \in Zones, RestoreInterchainAccount(z)
    PROVE  IndInv'
<1>1. /\ channel' = [channel EXCEPT ![z].state = "INIT"]
      /\ records' = SetStatus(records, RevertedRecords(z), "DELEGATION_QUEUE")
      /\ UNCHANGED <<transfers, delegations, lostAcks>>
      /\ channel[z].state # "OPEN"
    BY DEF RestoreInterchainAccount, ghosts
<1>2. channel[z].pkts = {}
    BY <1>1 DEF IndInv, ClosedChannelsEmpty
<1>3. /\ channel' \in [Zones -> [state : {"OPEN", "CLOSED", "INIT"}, pkts : SUBSET ICAPacket]]
      /\ \A y \in Zones : channel'[y].pkts = channel[y].pkts
      /\ \A y \in Zones : y # z => channel'[y] = channel[y]
    BY <1>1 DEF IndInv, RecordsTypeOK
<1>4. /\ records' \in [Ids -> Record]
      /\ \A j \in Ids : /\ records'[j].zone = records[j].zone
                        /\ records'[j].amount = records[j].amount
                        /\ records'[j].status = IF j \in RevertedRecords(z)
                             THEN "DELEGATION_QUEUE" ELSE records[j].status
    BY <1>1, SetStatusRecord DEF Statuses, IndInv, RecordsTypeOK
<1>5. RecordsTypeOK'
    BY <1>1, <1>3, <1>4 DEF IndInv, RecordsTypeOK
<1>6. PacketsMatchRecords'
    BY <1>1, <1>2, <1>3, <1>4
       DEF IndInv, PacketsMatchRecords, RecordsTypeOK, TransferPacket, RevertedRecords
<1>7. ClosedChannelsEmpty'
    BY <1>2, <1>3 DEF IndInv, ClosedChannelsEmpty
<1>8. DelegatedOnceUnlessAckLost'
    BY <1>1, <1>3 DEF IndInv, DelegatedOnceUnlessAckLost
<1>9. QED
    BY <1>5, <1>6, <1>7, <1>8 DEF IndInv

LEMMA ChanOpenAckStep ==
    ASSUME IndInv, NEW z \in Zones, ChanOpenAck(z)
    PROVE  IndInv'
<1>1. /\ channel' = [channel EXCEPT ![z].state = "OPEN"]
      /\ UNCHANGED <<records, transfers, delegations, lostAcks>>
    BY DEF ChanOpenAck, ghosts
<1>2. /\ channel' \in [Zones -> [state : {"OPEN", "CLOSED", "INIT"}, pkts : SUBSET ICAPacket]]
      /\ \A y \in Zones : channel'[y].pkts = channel[y].pkts
      /\ \A y \in Zones : channel'[y].state \in {channel[y].state, "OPEN"}
    BY <1>1 DEF IndInv, RecordsTypeOK
<1>3. QED
    BY <1>1, <1>2 DEF IndInv, RecordsTypeOK, PacketsMatchRecords, ClosedChannelsEmpty,
                      DelegatedOnceUnlessAckLost

-----------------------------------------------------------------------------
(* The epoch hook *)

\* The packets of the new epoch are packets, finitely many, one per record.
LEMMA SubmittedPacketsType ==
    ASSUME IndInv, NEW recs \in [Ids -> Record], NEW ord, NEW staked \in SUBSET Ids,
           NEW z \in Zones
    PROVE  /\ SubmittedPackets(recs, ord, staked, z) \subseteq ICAPacket
           /\ IsFiniteSet(SubmittedPackets(recs, ord, staked, z))
           /\ \A p \in SubmittedPackets(recs, ord, staked, z) :
                /\ p.state = "sent"
                /\ p.msg \in Ids => /\ p.msg \in staked /\ recs[p.msg].zone = z
                                    /\ p.amount = recs[p.msg].amount
                /\ \A q \in SubmittedPackets(recs, ord, staked, z) : q.msg = p.msg => q = p
           /\ SubmittedPackets(recs, ord, staked, z) # {} =>
                channel[z].state = "OPEN" \/ \E i \in staked : recs[i].zone = z
<1> DEFINE mine == {i \in staked : recs[i].zone = z}
           first == Cardinality(channel[z].pkts) + 1
           number(i) == first + 1 + Cardinality({j \in mine : Precedes(ord, j, i)})
           pkt(i) == [msg |-> i, amount |-> recs[i].amount,
                      state |-> "sent", seq |-> number(i)]
           withdraw == [msg |-> SetWithdrawAddress, amount |-> 0,
                        state |-> "sent", seq |-> first]
           delegates == {pkt(i) : i \in mine}
           withdraws == {withdraw : y \in {z} \cap {y \in ActiveZones : channel[y].state = "OPEN"}}
<1>1. SubmittedPackets(recs, ord, staked, z) = delegates \cup withdraws
    BY DEF SubmittedPackets
<1>2. first \in Int
    BY CardinalityInt DEF IndInv, RecordsTypeOK
<1>3. \A i \in mine : number(i) \in Int
    <2> SUFFICES ASSUME NEW i \in mine PROVE number(i) \in Int
        OBVIOUS
    <2>1. IsFiniteSet({j \in mine : Precedes(ord, j, i)})
        BY FS_Subset, DepositRecordsAssumption
    <2>2. Cardinality({j \in mine : Precedes(ord, j, i)}) \in Int
        BY <2>1, CardinalityInt
    <2>3. QED
        BY <1>2, <2>2
<1>4. IsFiniteSet(delegates)
    <2> DEFINE f == [i \in mine |-> pkt(i)]
    <2>1. DOMAIN f = mine /\ IsFiniteSet(mine)
        BY FS_Subset, DepositRecordsAssumption
    <2>2. {f[i] : i \in DOMAIN f} = delegates
        OBVIOUS
    <2>3. f \in [DOMAIN f -> {f[i] : i \in DOMAIN f}]
        OBVIOUS
    <2> HIDE DEF f, delegates, mine
    <2>4. QED
        BY <2>1, <2>2, <2>3, FiniteImage
<1>5. withdraws \subseteq {withdraw} /\ IsFiniteSet({withdraw})
    BY FS_Singleton
<1>6. IsFiniteSet(delegates \cup withdraws)
    <2>1. IsFiniteSet(withdraws)
        BY <1>5, FS_Subset
    <2>2. QED
        BY <1>4, <2>1, FS_Union
<1> HIDE DEF number, first
<1>7. delegates \subseteq ICAPacket /\ withdraws \subseteq ICAPacket
    <2>1. ASSUME NEW i \in mine PROVE pkt(i) \in ICAPacket
        <3>1. i \in Ids /\ recs[i].amount \in Nat /\ number(i) \in Int
            BY <1>3 DEF Record
        <3>2. QED
            BY <3>1 DEF ICAPacket, PacketStates
    <2>2. withdraw \in ICAPacket
        BY <1>2 DEF ICAPacket, PacketStates
    <2>3. QED
        BY <1>5, <2>1, <2>2
<1>8. \A p \in delegates : /\ p.state = "sent" /\ p.msg \in mine
                           /\ p.amount = recs[p.msg].amount /\ p = pkt(p.msg)
    OBVIOUS
<1>9. \A p \in withdraws : p = withdraw /\ p.state = "sent" /\ p.msg \notin Ids
    BY DepositRecordsAssumption
<1>10. withdraws # {} => channel[z].state = "OPEN"
    OBVIOUS
<1>11. delegates # {} => \E i \in staked : recs[i].zone = z
    OBVIOUS
<1> HIDE DEF delegates, withdraws, pkt, withdraw
<1>12. \A p, q \in delegates \cup withdraws : p.msg = q.msg => p = q
    BY <1>8, <1>9
<1>13. QED
    BY <1>1, <1>6, <1>7, <1>8, <1>9, <1>10, <1>11, <1>12

LEMMA StrideEpochStep ==
    ASSUME IndInv, NEW failed \in FailureSets, StrideEpoch(failed)
    PROVE  IndInv'
<1> DEFINE slot == CHOOSE s \in Slots(ActiveZones, FreeIds) : TRUE
           e == (epoch + 1) % EpochCycle
           aged == [i \in Ids |-> [records[i] EXCEPT !.fresh = FALSE]]
           recs == CreateDepositRecordsForEpoch(slot)
           ord == order \o NewOrder(slot)
           empty == EmptyRecords(recs, e)
           paid == PaidTransfers(recs, ord, e)
           staked == StakeSubmitted(recs, ord, e)
           sent == paid \ failed
           new(z) == SubmittedPackets(recs, ord, staked, z)
           inFlight(z) == channel[z].pkts
<1>1. /\ Slots(ActiveZones, FreeIds) # {}
      /\ records' = Delete(SetStatus(SetStatus(recs, sent, "TRANSFER_IN_PROGRESS"),
                                     staked, "DELEGATION_IN_PROGRESS"),
                           empty)
      /\ transfers' = transfers \cup
            {[id |-> i, amount |-> recs[i].amount, state |-> "sent"] : i \in sent}
      /\ channel' = [z \in Zones |-> [channel[z] EXCEPT !.pkts = inFlight(z) \cup new(z)]]
      /\ UNCHANGED <<delegations, lostAcks>>
    <2>1. /\ Slots(ActiveZones, FreeIds) # {}
          /\ ProcessDeposits(failed, e, recs, ord, empty, paid, staked)
        BY DEF StrideEpoch
    <2>2. QED
        BY <2>1 DEF ProcessDeposits
<1>2. slot \in Slots(ActiveZones, FreeIds)
    BY <1>1
<1>3. /\ aged \in [Ids -> Record]
      /\ \A i \in Ids : /\ aged[i].status = records[i].status
                        /\ aged[i].zone = records[i].zone
                        /\ aged[i].amount = records[i].amount
    BY DEF IndInv, RecordsTypeOK, Record
<1>4. /\ recs \in [Ids -> Record]
      /\ \A i \in Ids : i \notin FreeIds => recs[i] = aged[i]
    <2>1. ActiveZones \in SUBSET Zones /\ FreeIds \in SUBSET Ids
        BY DEF ActiveZones, FreeIds
    <2>2. recs = WithNewRecords(aged, slot)
        BY DEF CreateDepositRecordsForEpoch
    <2>3. ASSUME NEW old \in [Ids -> Record], NEW s \in Slots(ActiveZones, FreeIds)
          PROVE  /\ WithNewRecords(old, s) \in [Ids -> Record]
                 /\ \A i \in Ids : i \notin FreeIds => WithNewRecords(old, s)[i] = old[i]
        BY <2>1, NewRecordsType
    <2>4. aged \in [Ids -> Record]
        BY <1>3
    <2> HIDE DEF slot, aged, recs
    <2>5. QED
        BY <1>2, <2>2, <2>3, <2>4
<1>5. \A i \in Ids : records[i].status # "NONE" =>
        /\ recs[i].status = records[i].status
        /\ recs[i].zone = records[i].zone
        /\ recs[i].amount = records[i].amount
    BY <1>3, <1>4 DEF FreeIds, Present
<1> HIDE DEF slot, aged, recs, e, ord
<1>6. /\ empty \subseteq {i \in Ids : recs[i].status = "TRANSFER_QUEUE"}
      /\ paid \subseteq {i \in Ids : recs[i].status = "TRANSFER_QUEUE"}
      /\ empty \cap paid = {}
    BY DEF EmptyRecords, PaidTransfers, TransferDue
<1>7. staked \subseteq {i \in Ids : /\ recs[i].status = "DELEGATION_QUEUE"
                                    /\ channel[recs[i].zone].state = "OPEN"}
    BY DEF StakeSubmitted, StakeDue
<1> HIDE DEF empty, paid, staked
<1>8. /\ records' \in [Ids -> Record]
      /\ \A i \in Ids : i \notin empty =>
           /\ records'[i].zone = recs[i].zone
           /\ records'[i].amount = recs[i].amount
           /\ records'[i].status = IF i \in staked THEN "DELEGATION_IN_PROGRESS"
                ELSE IF i \in sent THEN "TRANSFER_IN_PROGRESS" ELSE recs[i].status
    <2> DEFINE r1 == SetStatus(recs, sent, "TRANSFER_IN_PROGRESS")
               r2 == SetStatus(r1, staked, "DELEGATION_IN_PROGRESS")
    <2>1. /\ r1 \in [Ids -> Record]
          /\ \A i \in Ids : /\ r1[i].zone = recs[i].zone /\ r1[i].amount = recs[i].amount
                            /\ r1[i].status = IF i \in sent THEN "TRANSFER_IN_PROGRESS"
                                              ELSE recs[i].status
        BY <1>4, SetStatusRecord DEF Statuses
    <2> HIDE DEF r1
    <2>2. /\ r2 \in [Ids -> Record]
          /\ \A i \in Ids : /\ r2[i].zone = r1[i].zone /\ r2[i].amount = r1[i].amount
                            /\ r2[i].status = IF i \in staked THEN "DELEGATION_IN_PROGRESS"
                                              ELSE r1[i].status
        BY <2>1, SetStatusRecord DEF Statuses
    <2>3. records' = Delete(r2, empty)
        BY <1>1 DEF r1
    <2> HIDE DEF r2, sent
    <2>4. QED
        BY <2>1, <2>2, <2>3, DeleteRecord
<1>9. \A z \in Zones : inFlight(z) \subseteq ICAPacket /\ IsFiniteSet(inFlight(z))
    BY DEF IndInv, RecordsTypeOK
<1>10. \A z \in Zones :
        /\ new(z) \subseteq ICAPacket
        /\ IsFiniteSet(new(z))
        /\ \A p \in new(z) :
             /\ p.state = "sent"
             /\ p.msg \in Ids => /\ p.msg \in staked /\ recs[p.msg].zone = z
                                 /\ p.amount = recs[p.msg].amount
             /\ \A q \in new(z) : q.msg = p.msg => q = p
        /\ new(z) # {} => channel[z].state = "OPEN" \/ \E i \in staked : recs[i].zone = z
    <2>1. staked \in SUBSET Ids
        BY <1>7
    <2>2. QED
        BY <1>4, <2>1, SubmittedPacketsType
<1> HIDE DEF new
<1>11. /\ channel' \in [Zones -> [state : {"OPEN", "CLOSED", "INIT"}, pkts : SUBSET ICAPacket]]
       /\ \A z \in Zones : /\ channel'[z].state = channel[z].state
                           /\ channel'[z].pkts = inFlight(z) \cup new(z)
    BY <1>1, <1>9, <1>10 DEF IndInv, RecordsTypeOK
<1>12. \A z \in Zones : IsFiniteSet(channel'[z].pkts)
    <2> SUFFICES ASSUME NEW z \in Zones PROVE IsFiniteSet(inFlight(z) \cup new(z))
        BY <1>11
    <2>1. IsFiniteSet(inFlight(z)) /\ IsFiniteSet(new(z))
        BY <1>9, <1>10
    <2>2. QED
        BY <2>1, FS_Union
<1>13. RecordsTypeOK'
    <2>1. \A i \in Ids : recs[i].amount \in Nat
        BY <1>4 DEF Record
    <2>2. sent \subseteq Ids
        BY <1>6
    <2>3. transfers' \subseteq TransferPacket
        BY <1>1, <2>1, <2>2 DEF IndInv, RecordsTypeOK, TransferPacket, PacketStates
    <2>4. QED
        BY <1>1, <1>8, <1>11, <1>12, <2>3 DEF IndInv, RecordsTypeOK
<1>14. \A i \in Ids : records[i].status \in {"TRANSFER_IN_PROGRESS", "DELEGATION_IN_PROGRESS"} =>
        /\ i \notin empty /\ i \notin staked /\ i \notin sent
        /\ records'[i].zone = records[i].zone
        /\ records'[i].amount = records[i].amount
        /\ records'[i].status = records[i].status
    BY <1>5, <1>6, <1>7, <1>8
<1>15. PacketsMatchRecords'
    <2>1. \A t \in transfers' : /\ records'[t.id].status = "TRANSFER_IN_PROGRESS"
                                /\ records'[t.id].amount = t.amount
        <3> SUFFICES ASSUME NEW t \in transfers'
                     PROVE  /\ records'[t.id].status = "TRANSFER_IN_PROGRESS"
                            /\ records'[t.id].amount = t.amount
            OBVIOUS
        <3>1. CASE t \in transfers
            BY <3>1, <1>14 DEF IndInv, PacketsMatchRecords, RecordsTypeOK, TransferPacket
        <3>2. CASE t \notin transfers
            <4>1. PICK i \in sent :
                    t = [id |-> i, amount |-> recs[i].amount, state |-> "sent"]
                BY <1>1, <3>2
            <4>2. i \in Ids /\ i \notin empty /\ i \notin staked
                BY <1>6, <1>7
            <4>3. QED
                BY <1>8, <4>1, <4>2
        <3>3. QED
            BY <3>1, <3>2
    <2>2. \A t, u \in transfers' : t.id = u.id => t = u
        <3>1. \A t \in transfers : t.id \notin sent
            BY <1>14 DEF IndInv, PacketsMatchRecords, RecordsTypeOK, TransferPacket
        <3>2. ASSUME NEW t \in transfers'
              PROVE  \/ t \in transfers
                     \/ /\ t.id \in sent
                        /\ t = [id |-> t.id, amount |-> recs[t.id].amount, state |-> "sent"]
            <4>1. CASE t \in transfers
                BY <4>1
            <4>2. CASE t \notin transfers
                <5>1. PICK i \in sent :
                        t = [id |-> i, amount |-> recs[i].amount, state |-> "sent"]
                    BY <1>1, <4>2
                <5>2. t.id = i
                    BY <5>1
                <5>3. QED
                    BY <5>1, <5>2
            <4>3. QED
                BY <4>1, <4>2
        <3>3. QED
            BY <3>1, <3>2 DEF IndInv, PacketsMatchRecords
    <2>3. \A z \in Zones : \A p \in {q \in channel'[z].pkts : q.msg \in Ids} :
             /\ records'[p.msg].status = "DELEGATION_IN_PROGRESS"
             /\ records'[p.msg].zone = z
             /\ records'[p.msg].amount = p.amount
             /\ \A q \in channel'[z].pkts : q.msg = p.msg => q = p
        <3> SUFFICES ASSUME NEW z \in Zones, NEW p \in channel'[z].pkts, p.msg \in Ids
                     PROVE  /\ records'[p.msg].status = "DELEGATION_IN_PROGRESS"
                            /\ records'[p.msg].zone = z
                            /\ records'[p.msg].amount = p.amount
                            /\ \A q \in channel'[z].pkts : q.msg = p.msg => q = p
            OBVIOUS
        <3>1. \A q \in inFlight(z) : q.msg \in Ids =>
                /\ records[q.msg].status = "DELEGATION_IN_PROGRESS"
                /\ records[q.msg].zone = z
                /\ records[q.msg].amount = q.amount
                /\ q.msg \notin staked
            <4> SUFFICES ASSUME NEW q \in inFlight(z), q.msg \in Ids
                         PROVE  /\ records[q.msg].status = "DELEGATION_IN_PROGRESS"
                                /\ records[q.msg].zone = z
                                /\ records[q.msg].amount = q.amount
                                /\ q.msg \notin staked
                OBVIOUS
            <4>1. QED
                BY <1>14 DEF IndInv, PacketsMatchRecords
        <3>2. CASE p \in inFlight(z)
            <4>1. \A q \in inFlight(z) : q.msg = p.msg => q = p
                BY <3>2 DEF IndInv, PacketsMatchRecords
            <4>2. \A q \in new(z) : q.msg # p.msg
                BY <1>10, <3>1, <3>2
            <4>3. QED
                BY <1>11, <1>14, <3>1, <3>2, <4>1, <4>2
        <3>3. CASE p \in new(z)
            <4>1. p.msg \in staked /\ recs[p.msg].zone = z /\ p.amount = recs[p.msg].amount
                BY <1>10, <3>3
            <4>2. p.msg \notin empty
                BY <1>6, <1>7, <4>1
            <4>3. \A q \in inFlight(z) : q.msg # p.msg
                BY <3>1, <4>1
            <4>4. QED
                BY <1>8, <1>10, <1>11, <3>3, <4>1, <4>2, <4>3
        <3>4. QED
            BY <1>11, <3>2, <3>3
    <2>4. QED
        BY <2>1, <2>2, <2>3 DEF PacketsMatchRecords
<1>16. ClosedChannelsEmpty'
    <2> SUFFICES ASSUME NEW z \in Zones, channel[z].state # "OPEN"
                 PROVE  channel'[z].pkts = {}
        BY <1>11 DEF ClosedChannelsEmpty
    <2>1. inFlight(z) = {}
        BY <1>9 DEF IndInv, ClosedChannelsEmpty
    <2>2. new(z) = {}
        BY <1>7, <1>10
    <2>3. QED
        BY <1>11, <2>1, <2>2
<1>17. DelegatedOnceUnlessAckLost'
    <2>1. ASSUME NEW i \in Ids
          PROVE  (\E z \in Zones : \E p \in channel'[z].pkts : p.msg = i /\ p.state = "ok")
                   <=> (\E z \in Zones : \E p \in channel[z].pkts : p.msg = i /\ p.state = "ok")
        <3>1. ASSUME NEW z \in Zones, NEW p \in channel'[z].pkts, p.msg = i, p.state = "ok"
              PROVE  \E q \in channel[z].pkts : q.msg = i /\ q.state = "ok"
            <4>1. p \in inFlight(z)
                BY <1>10, <1>11, <3>1
            <4>2. QED
                BY <3>1, <4>1
        <3>2. ASSUME NEW z \in Zones, NEW q \in channel[z].pkts, q.msg = i, q.state = "ok"
              PROVE  \E p \in channel'[z].pkts : p.msg = i /\ p.state = "ok"
            BY <1>11, <3>2
        <3>3. QED
            BY <3>1, <3>2
    <2>2. QED
        BY <1>1, <2>1 DEF IndInv, DelegatedOnceUnlessAckLost
<1>18. QED
    BY <1>13, <1>15, <1>16, <1>17 DEF IndInv

-----------------------------------------------------------------------------
(* The theorems *)

\* The invariant is inductive: one case per handler of the two chains.
LEMMA NextIndInv == IndInv /\ [Next]_vars => IndInv'
<1> SUFFICES ASSUME IndInv, [Next]_vars PROVE IndInv'
    OBVIOUS
<1>1. ASSUME NEW failed \in FailureSets, StrideEpoch(failed) PROVE IndInv'
    BY <1>1, StrideEpochStep
<1>2. ASSUME NEW t \in transfers, NEW result \in {"ok", "err"}, TransferRecv(t, result)
      PROVE  IndInv'
    BY <1>2, TransferRecvStep
<1>3. ASSUME NEW t \in transfers, TransferAck(t) \/ TransferTimeout(t) PROVE IndInv'
    BY <1>3, TransferDoneStep DEF TransferAck, TransferTimeout
<1>4. ASSUME NEW z \in Zones, NEW amount \in StakeAmounts, LiquidStake(z, amount)
      PROVE  IndInv'
    BY <1>4, LiquidStakeStep
<1>5. ASSUME NEW z \in Zones, NEW amount \in RewardAmounts, ReinvestCallback(z, amount)
      PROVE  IndInv'
    BY <1>5, ReinvestCallbackStep
<1>6. ASSUME NEW z \in Zones, NEW p \in channel[z].pkts, NEW result \in {"ok", "err"},
             ExecuteICA(z, p, result)
      PROVE  IndInv'
    BY <1>6, ExecuteICAStep
<1>7. ASSUME NEW z \in Zones, NEW p \in channel[z].pkts, AckICA(z, p) PROVE IndInv'
    BY <1>7, AckICAStep
<1>8. ASSUME NEW z \in Zones,
             TimeoutICA(z) \/ RestoreInterchainAccount(z) \/ ChanOpenAck(z)
      PROVE  IndInv'
    BY <1>8, TimeoutICAStep, RestoreStep, ChanOpenAckStep
<1>9. ASSUME NEW z \in Zones, BeginBlocker(z) PROVE IndInv'
    BY <1>9, UnchangedStep DEF BeginBlocker, ghosts
<1>10. CASE UNCHANGED vars
    BY <1>10, UnchangedStep DEF vars, ghosts
<1>11. QED
    BY <1>1, <1>2, <1>3, <1>4, <1>5, <1>6, <1>7, <1>8, <1>9, <1>10 DEF Next

LEMMA IndInvHolds == Spec => []IndInv
    BY InitIndInv, NextIndInv, PTL DEF Spec

\* The store, the channels and the history variables keep their types,
\* whatever the hook, the callbacks and the channels do.
THEOREM RecordsTypeCorrect == Spec => []RecordsTypeOK
<1>1. IndInv => RecordsTypeOK
    BY DEF IndInv
<1>2. QED
    BY <1>1, IndInvHolds, PTL

\* Whatever is under way belongs to a record that waits for it: DelegateCallback
\* and TransferCallback always find theirs, with the amount that was sent.
THEOREM PacketsMatchRecordsHolds == Spec => []PacketsMatchRecords
<1>1. IndInv => PacketsMatchRecords
    BY DEF IndInv
<1>2. QED
    BY <1>1, IndInvHolds, PTL

\* Retries, timeouts and restored channels do not delegate a deposit twice,
\* but for those whose acknowledgement was lost with the channel.
THEOREM DelegatedOnceHolds == Spec => []DelegatedOnceUnlessAckLost
<1>1. IndInv => DelegatedOnceUnlessAckLost
    BY DEF IndInv
<1>2. QED
    BY <1>1, IndInvHolds, PTL

-----------------------------------------------------------------------------
(* DepositRecords implements DepositLifecycle.  Under the invariant every    *)
(* step of the hook, the callbacks and the channels moves the deposits as    *)
(* the lifecycle allows, or not at all: what a packet's outcome does to the  *)
(* record it belongs to depends on there being one packet per record, which  *)
(* PacketsMatchRecords says.                                                 *)

\* Either no deposit is touched or the lifecycle takes a step.
Simulates == [Lifecycle!Next]_deposits

Stage(i) == StageOf(records, transfers, channel, i)
StageAfter(i) == StageOf(records', transfers', channel', i)

\* The stages, read off the status.
LEMMA StageCases ==
    ASSUME NEW recs, NEW trs, NEW chan, NEW i
    PROVE  LET stage == StageOf(recs, trs, chan, i) IN
           /\ recs[i].status = "NONE" => stage = "none"
           /\ recs[i].status = "TRANSFER_QUEUE" => stage = "collecting"
           /\ recs[i].status = "TRANSFER_IN_PROGRESS" =>
                stage = IF Landed(trs, i) THEN "onHost" ELSE "transit"
           /\ recs[i].status = "DELEGATION_QUEUE" => stage = "onHost"
           /\ recs[i].status = "DELEGATION_IN_PROGRESS" =>
                stage = IF Executed(chan[recs[i].zone].pkts, i) THEN "staked" ELSE "onHost"
    BY DEF StageOf

\* The mapping before and after a step.
LEMMA Mapping ==
    /\ \A i \in Ids : deposits[i] = Lifecycle!Deposit(Stage(i), records[i].amount)
    /\ \A i \in Ids : deposits'[i] = Lifecycle!Deposit(StageAfter(i), records'[i].amount)
    /\ DOMAIN deposits = Ids /\ DOMAIN deposits' = Ids
    /\ deposits = [i \in Ids |-> deposits[i]] /\ deposits' = [i \in Ids |-> deposits'[i]]
    BY DEF deposits, Stage, StageAfter, Lifecycle!Deposit

\* A record whose status and packets keep their meaning keeps its stage.
LEMMA SameStage ==
    ASSUME IndInv, NEW i \in Ids,
           records'[i].status = records[i].status,
           records[i].status = "TRANSFER_IN_PROGRESS" =>
               (Landed(transfers', i) <=> Landed(transfers, i)),
           records[i].status = "DELEGATION_IN_PROGRESS" =>
               (Executed(channel'[records'[i].zone].pkts, i)
                  <=> Executed(channel[records[i].zone].pkts, i))
    PROVE  StageAfter(i) = Stage(i)
<1>1. records[i].status \in Statuses
    BY DEF IndInv, RecordsTypeOK, Record
<1>2. QED
    BY <1>1 DEF Statuses, Stage, StageAfter, StageOf

\* How a change of one deposit, or of none, shows in the mapping.
LEMMA OneMoves ==
    ASSUME NEW i \in Ids, NEW d, deposits'[i] = d,
           \A j \in Ids \ {i} : StageAfter(j) = Stage(j) /\ records'[j].amount = records[j].amount
    PROVE  Lifecycle!Becomes(i, d)
<1>1. \A j \in Ids \ {i} : deposits'[j] = deposits[j]
    BY Mapping
<1>2. deposits' = [deposits EXCEPT ![i] = d]
    BY <1>1, Mapping
<1>3. QED
    BY <1>2 DEF Lifecycle!Becomes

LEMMA NoneMoves ==
    ASSUME \A j \in Ids : StageAfter(j) = Stage(j) /\ records'[j].amount = records[j].amount
    PROVE  Simulates
<1>1. \A j \in Ids : deposits'[j] = deposits[j]
    BY Mapping
<1>2. deposits' = deposits
    BY <1>1, Mapping
<1>3. QED
    BY <1>2 DEF Simulates

LEMMA InitSimulates == Init => Lifecycle!Init
<1> SUFFICES ASSUME Init PROVE Lifecycle!Init
    OBVIOUS
<1> DEFINE slot == CHOOSE s \in Slots(Zones, Ids) : TRUE
<1>1. records = WithNewRecords([i \in Ids |-> NoRecord], slot)
    BY DEF Init
<1>2. \A i \in Ids : \/ records[i].status = "NONE" /\ records[i].amount = 0
                     \/ records[i].status = "TRANSFER_QUEUE" /\ records[i].amount = 0
    BY <1>1 DEF WithNewRecords, NewRecord, NoRecord
<1>3. ASSUME NEW i \in Ids
      PROVE  deposits[i] \in {Lifecycle!None, Lifecycle!Deposit("collecting", 0)}
    BY <1>2, StageCases, Mapping DEF Stage, Lifecycle!None
<1>4. QED
    BY <1>3, Mapping DEF Lifecycle!Init

-----------------------------------------------------------------------------
(* Steps that leave packets alone *)

LEMMA UnchangedSimulates ==
    ASSUME UNCHANGED <<records, transfers, channel>>
    PROVE  Simulates
    BY NoneMoves DEF Stage, StageAfter

LEMMA LiquidStakeSimulates ==
    ASSUME IndInv, NEW z \in Zones, NEW amount \in StakeAmounts, LiquidStake(z, amount)
    PROVE  Simulates
<1>1. PICK i \in CurrentTransferRecord(z) :
        records' = [records EXCEPT ![i].amount = @ + amount]
    BY DEF LiquidStake
<1>2. i \in Ids /\ records[i].status = "TRANSFER_QUEUE" /\ records[i].amount \in Nat
    BY DEF CurrentTransferRecord, WithStatus, IndInv, RecordsTypeOK, Record
<1>3. amount \in Nat /\ amount > 0
    BY DepositRecordsAssumption
<1>4. \A j \in Ids : /\ records'[j].status = records[j].status
                     /\ records'[j].zone = records[j].zone
                     /\ j # i => records'[j].amount = records[j].amount
    BY <1>1, <1>2 DEF IndInv, RecordsTypeOK, Record
<1>5. records'[i].amount = records[i].amount + amount
    BY <1>1, <1>2 DEF IndInv, RecordsTypeOK, Record
<1>6. UNCHANGED <<transfers, channel>>
    BY DEF LiquidStake
<1>7. \A j \in Ids : StageAfter(j) = Stage(j)
    BY <1>4, <1>6, SameStage
<1>8. Stage(i) = "collecting"
    BY <1>2, StageCases DEF Stage
<1>9. /\ deposits[i] = Lifecycle!Deposit("collecting", records[i].amount)
      /\ deposits'[i] = Lifecycle!Deposit("collecting", records'[i].amount)
    BY <1>2, <1>7, <1>8, Mapping
<1>10. Lifecycle!Becomes(i, deposits'[i])
    BY <1>2, <1>4, <1>7, OneMoves
<1>11. Lifecycle!Add(i)
    BY <1>2, <1>3, <1>5, <1>9, <1>10 DEF Lifecycle!Add, Lifecycle!Deposit
<1>12. QED
    BY <1>2, <1>11 DEF Simulates, Lifecycle!Next

LEMMA ReinvestSimulates ==
    ASSUME IndInv, NEW z \in Zones, NEW amount \in RewardAmounts,
           ReinvestCallback(z, amount)
    PROVE  Simulates
<1> DEFINE i == CHOOSE j \in FreeIds : TRUE
<1>1. /\ i \in FreeIds
      /\ records' = [records EXCEPT ![i] = NewRecord(z, "DELEGATION_QUEUE", amount)]
      /\ UNCHANGED <<transfers, channel>>
    BY DEF ReinvestCallback
<1> HIDE DEF i
<1>2. i \in Ids /\ records[i].status = "NONE"
    BY <1>1 DEF FreeIds, Present
<1>3. amount \in Nat /\ amount > 0
    BY DepositRecordsAssumption
<1>4. /\ records'[i].status = "DELEGATION_QUEUE" /\ records'[i].amount = amount
      /\ \A j \in Ids \ {i} : records'[j] = records[j]
    BY <1>1, <1>2 DEF IndInv, RecordsTypeOK, NewRecord
<1>5. \A j \in Ids \ {i} : StageAfter(j) = Stage(j)
    BY <1>1, <1>4, SameStage
<1>6. deposits[i] = Lifecycle!Deposit("none", records[i].amount)
    BY <1>2, StageCases, Mapping DEF Stage
<1>7. deposits'[i] = Lifecycle!Deposit("onHost", amount)
    BY <1>2, <1>4, StageCases, Mapping DEF StageAfter
<1>8. Lifecycle!Becomes(i, deposits'[i])
    BY <1>2, <1>4, <1>5, OneMoves
<1>9. Lifecycle!Reinvest(i)
    BY <1>3, <1>6, <1>7, <1>8 DEF Lifecycle!Reinvest, Lifecycle!Deposit
<1>10. QED
    BY <1>2, <1>9 DEF Simulates, Lifecycle!Next

-----------------------------------------------------------------------------
(* The ICS-20 channel *)

LEMMA TransferRecvSimulates ==
    ASSUME IndInv, NEW t \in transfers, NEW result \in {"ok", "err"},
           TransferRecv(t, result)
    PROVE  Simulates
<1> DEFINE done == [t EXCEPT !.state = result]
           i == t.id
<1>1. /\ transfers' = (transfers \ {t}) \cup {done}
      /\ UNCHANGED <<records, channel>>
      /\ t.state = "sent"
    BY DEF TransferRecv
<1>2. /\ t \in TransferPacket /\ i \in Ids
      /\ done.id = i /\ done.state = result
      /\ records[i].status = "TRANSFER_IN_PROGRESS"
    BY DEF IndInv, RecordsTypeOK, PacketsMatchRecords, TransferPacket
<1>3. \A u \in transfers : u.id = i => u = t
    BY DEF IndInv, PacketsMatchRecords
<1> HIDE DEF done, i
<1>4. ~Landed(transfers, i)
    BY <1>1, <1>3 DEF Landed
<1>5. Landed(transfers', i) <=> result = "ok"
    BY <1>1, <1>2, <1>3 DEF Landed
<1>6. \A j \in Ids \ {i} : Landed(transfers', j) <=> Landed(transfers, j)
    BY <1>1, <1>2 DEF Landed, i
<1>7. \A j \in Ids \ {i} : StageAfter(j) = Stage(j)
    BY <1>1, <1>6, SameStage
<1>8. CASE result = "ok"
    <2>1. StageAfter(i) = "onHost" /\ Stage(i) = "transit"
        BY <1>1, <1>2, <1>4, <1>5, <1>8, StageCases DEF Stage, StageAfter
    <2>2. /\ deposits[i] = Lifecycle!Deposit("transit", records[i].amount)
          /\ deposits'[i] = Lifecycle!Deposit("onHost", records[i].amount)
        BY <1>1, <1>2, <2>1, Mapping
    <2>3. Lifecycle!Becomes(i, deposits'[i])
        BY <1>1, <1>2, <1>7, OneMoves
    <2>4. Lifecycle!Move(i, "transit", "onHost")
        BY <2>2, <2>3 DEF Lifecycle!Move, Lifecycle!Deposit
    <2>5. QED
        BY <1>2, <2>4 DEF Simulates, Lifecycle!Next
<1>9. CASE result # "ok"
    <2>1. StageAfter(i) = Stage(i)
        BY <1>1, <1>2, <1>4, <1>5, <1>9, SameStage
    <2>2. QED
        BY <1>1, <1>7, <2>1, NoneMoves
<1>10. QED
    BY <1>8, <1>9

\* On success the tokens were on the host before the callback knew.
LEMMA TransferDoneSimulates ==
    ASSUME IndInv, NEW t \in transfers, NEW result, TransferDone(t, result),
           result = "ok" <=> t.state = "ok"
    PROVE  Simulates
<1> DEFINE i == t.id
           status == IF result = "ok" THEN "DELEGATION_QUEUE" ELSE "TRANSFER_QUEUE"
<1>1. /\ transfers' = transfers \ {t}
      /\ records' = TransferCallback(i, result)
      /\ UNCHANGED channel
    BY DEF TransferDone
<1>2. i \in Ids /\ records[i].status = "TRANSFER_IN_PROGRESS"
    BY DEF IndInv, RecordsTypeOK, PacketsMatchRecords, TransferPacket
<1>3. \A u \in transfers : u.id = i => u = t
    BY DEF IndInv, PacketsMatchRecords
<1>4. /\ \A j \in Ids : /\ records'[j].zone = records[j].zone
                        /\ records'[j].amount = records[j].amount
                        /\ j # i => records'[j].status = records[j].status
      /\ records'[i].status = status
    BY <1>1, <1>2, SetStatusRecord DEF TransferCallback, Statuses, IndInv, RecordsTypeOK
<1>5. Landed(transfers, i) <=> result = "ok"
    BY <1>3 DEF Landed
<1>6. \A j \in Ids \ {i} : Landed(transfers', j) <=> Landed(transfers, j)
    BY <1>1 DEF Landed
<1> HIDE DEF i
<1>7. \A j \in Ids \ {i} : StageAfter(j) = Stage(j)
    BY <1>1, <1>4, <1>6, SameStage
<1>8. CASE result = "ok"
    <2>1. StageAfter(i) = "onHost" /\ Stage(i) = "onHost"
        BY <1>2, <1>4, <1>5, <1>8, StageCases DEF Stage, StageAfter
    <2>2. QED
        BY <1>4, <1>7, <2>1, NoneMoves
<1>9. CASE result # "ok"
    <2>1. StageAfter(i) = "collecting" /\ Stage(i) = "transit"
        BY <1>2, <1>4, <1>5, <1>9, StageCases DEF Stage, StageAfter
    <2>2. /\ deposits[i] = Lifecycle!Deposit("transit", records[i].amount)
          /\ deposits'[i] = Lifecycle!Deposit("collecting", records[i].amount)
        BY <1>2, <1>4, <2>1, Mapping
    <2>3. Lifecycle!Becomes(i, deposits'[i])
        BY <1>2, <1>4, <1>7, OneMoves
    <2>4. Lifecycle!Move(i, "transit", "collecting")
        BY <2>2, <2>3 DEF Lifecycle!Move, Lifecycle!Deposit
    <2>5. QED
        BY <1>2, <2>4 DEF Simulates, Lifecycle!Next
<1>10. QED
    BY <1>8, <1>9

-----------------------------------------------------------------------------
(* The interchain-account channel *)

LEMMA RestoreSimulates ==
    ASSUME IndInv, NEW z \in Zones, RestoreInterchainAccount(z)
    PROVE  Simulates
<1>1. /\ channel' = [channel EXCEPT ![z].state = "INIT"]
      /\ records' = SetStatus(records, RevertedRecords(z), "DELEGATION_QUEUE")
      /\ UNCHANGED transfers
      /\ channel[z].state # "OPEN"
    BY DEF RestoreInterchainAccount
<1>2. \A j \in Ids : /\ records'[j].zone = records[j].zone
                     /\ records'[j].amount = records[j].amount
                     /\ records'[j].status = IF j \in RevertedRecords(z)
                          THEN "DELEGATION_QUEUE" ELSE records[j].status
    BY <1>1, SetStatusRecord DEF Statuses, IndInv, RecordsTypeOK
<1>3. channel[z].pkts = {}
    BY <1>1 DEF IndInv, ClosedChannelsEmpty
<1>4. \A y \in Zones : channel'[y].pkts = channel[y].pkts
    BY <1>1 DEF IndInv, RecordsTypeOK
<1>5. ASSUME NEW j \in Ids PROVE StageAfter(j) = Stage(j)
    <2>1. CASE j \in RevertedRecords(z)
        <3>1. /\ records[j].zone = z /\ records[j].status = "DELEGATION_IN_PROGRESS"
              /\ records'[j].status = "DELEGATION_QUEUE"
            BY <1>2, <2>1 DEF RevertedRecords
        <3>2. ~Executed(channel[z].pkts, j)
            BY <1>3 DEF Executed
        <3>3. QED
            BY <3>1, <3>2, StageCases DEF Stage, StageAfter
    <2>2. CASE j \notin RevertedRecords(z)
        <3>1. records[j].zone \in Zones
            BY DEF IndInv, RecordsTypeOK, Record
        <3>2. QED
            BY <1>1, <1>2, <1>4, <2>2, <3>1, SameStage
    <2>3. QED
        BY <2>1, <2>2
<1>6. QED
    BY <1>2, <1>5, NoneMoves

LEMMA ChanOpenAckSimulates ==
    ASSUME IndInv, NEW z \in Zones, ChanOpenAck(z)
    PROVE  Simulates
<1>1. /\ channel' = [channel EXCEPT ![z].state = "OPEN"]
      /\ UNCHANGED <<records, transfers>>
    BY DEF ChanOpenAck
<1>2. \A y \in Zones : channel'[y].pkts = channel[y].pkts
    BY <1>1 DEF IndInv, RecordsTypeOK
<1>3. \A j \in Ids : records[j].zone \in Zones
    BY DEF IndInv, RecordsTypeOK, Record
<1>4. \A j \in Ids : StageAfter(j) = Stage(j)
    BY <1>1, <1>2, <1>3, SameStage
<1>5. QED
    BY <1>1, <1>4, NoneMoves

\* Only the packet's own record can change its stage, and it does so when a
\* delegation is executed.
LEMMA ExecuteICASimulates ==
    ASSUME IndInv, NEW z \in Zones, NEW p \in channel[z].pkts,
           NEW result \in {"ok", "err"}, ExecuteICA(z, p, result)
    PROVE  Simulates
<1> DEFINE done == [p EXCEPT !.state = result]
           i == p.msg
<1>1. /\ channel' = [channel EXCEPT ![z].pkts = (@ \ {p}) \cup {done}]
      /\ UNCHANGED <<records, transfers>>
      /\ p.state = "sent"
    BY DEF ExecuteICA
<1>2. p \in ICAPacket /\ done.msg = i /\ done.state = result
    BY DEF IndInv, RecordsTypeOK, ICAPacket
<1>3. /\ channel'[z].pkts = (channel[z].pkts \ {p}) \cup {done}
      /\ \A y \in Zones \ {z} : channel'[y].pkts = channel[y].pkts
    BY <1>1 DEF IndInv, RecordsTypeOK
<1>4. \A j \in Ids : records[j].zone \in Zones
    BY DEF IndInv, RecordsTypeOK, Record
<1> HIDE DEF done
<1>5. \A j \in Ids \ {i} : \A y \in Zones :
        Executed(channel'[y].pkts, j) <=> Executed(channel[y].pkts, j)
    BY <1>2, <1>3 DEF Executed
<1>6. \A j \in Ids \ {i} : StageAfter(j) = Stage(j)
    BY <1>1, <1>4, <1>5, SameStage
<1>7. CASE i \notin Ids
    BY <1>1, <1>6, <1>7, NoneMoves
<1>8. CASE i \in Ids
    <2>1. records[i].status = "DELEGATION_IN_PROGRESS" /\ records[i].zone = z
        BY <1>8 DEF IndInv, PacketsMatchRecords
    <2>2. \A q \in channel[z].pkts : q.msg = i => q = p
        BY <1>8 DEF IndInv, PacketsMatchRecords
    <2>3. ~Executed(channel[z].pkts, i)
        BY <1>1, <2>2 DEF Executed
    <2>4. Executed(channel'[z].pkts, i) <=> result = "ok"
        BY <1>2, <1>3, <2>2 DEF Executed
    <2> HIDE DEF i
    <2>5. CASE result = "ok"
        <3>1. StageAfter(i) = "staked" /\ Stage(i) = "onHost"
            BY <1>1, <2>1, <2>3, <2>4, <2>5, StageCases DEF Stage, StageAfter
        <3>2. /\ deposits[i] = Lifecycle!Deposit("onHost", records[i].amount)
              /\ deposits'[i] = Lifecycle!Deposit("staked", records[i].amount)
            BY <1>1, <1>8, <3>1, Mapping
        <3>3. Lifecycle!Becomes(i, deposits'[i])
            BY <1>1, <1>6, <1>8, OneMoves
        <3>4. Lifecycle!Move(i, "onHost", "staked")
            BY <3>2, <3>3 DEF Lifecycle!Move, Lifecycle!Deposit
        <3>5. QED
            BY <1>8, <3>4 DEF Simulates, Lifecycle!Next
    <2>6. CASE result # "ok"
        <3>1. StageAfter(i) = Stage(i)
            BY <1>1, <1>8, <2>1, <2>3, <2>4, <2>6, SameStage
        <3>2. QED
            BY <1>1, <1>6, <3>1, NoneMoves
    <2>7. QED
        BY <2>5, <2>6
<1>9. QED
    BY <1>7, <1>8

\* A deposit is retired by the acknowledgement of its delegation.
LEMMA AckICASimulates ==
    ASSUME IndInv, NEW z \in Zones, NEW p \in channel[z].pkts, AckICA(z, p)
    PROVE  Simulates
<1> DEFINE i == p.msg
           next(q) == [q EXCEPT !.seq = @ - 1]
<1>1. /\ channel' = [channel EXCEPT ![z].pkts = {next(q) : q \in @ \ {p}}]
      /\ UNCHANGED transfers
      /\ p.state # "sent"
    BY DEF AckICA
<1>2. \A q \in channel[z].pkts : next(q).msg = q.msg /\ next(q).state = q.state
    BY DEF IndInv, RecordsTypeOK, ICAPacket
<1>3. /\ channel'[z].pkts = {next(q) : q \in channel[z].pkts \ {p}}
      /\ \A y \in Zones \ {z} : channel'[y].pkts = channel[y].pkts
    BY <1>1 DEF IndInv, RecordsTypeOK
<1>4. \A j \in Ids : records[j].zone \in Zones
    BY DEF IndInv, RecordsTypeOK, Record
<1>5. p \in ICAPacket /\ p.state \in {"ok", "err"}
    BY <1>1 DEF IndInv, RecordsTypeOK, ICAPacket, PacketStates
<1> HIDE DEF next
<1>6. \A j \in Ids \ {i} : \A y \in Zones :
        Executed(channel'[y].pkts, j) <=> Executed(channel[y].pkts, j)
    <2> SUFFICES ASSUME NEW j \in Ids \ {i}
                 PROVE  Executed(channel'[z].pkts, j) <=> Executed(channel[z].pkts, j)
        BY <1>3
    <2>1. ASSUME NEW q \in channel[z].pkts, q.msg = j, q.state = "ok"
          PROVE  Executed(channel'[z].pkts, j)
        <3>1. next(q) \in channel'[z].pkts
            BY <1>3, <2>1
        <3>2. QED
            BY <1>2, <2>1, <3>1 DEF Executed
    <2>2. ASSUME NEW r \in channel'[z].pkts, r.msg = j, r.state = "ok"
          PROVE  Executed(channel[z].pkts, j)
        BY <1>2, <1>3, <2>2 DEF Executed
    <2>3. QED
        BY <2>1, <2>2 DEF Executed
<1>7. CASE i = SetWithdrawAddress
    <2>1. UNCHANGED records /\ \A j \in Ids : j # i
        BY <1>7, DepositRecordsAssumption DEF AckICA
    <2>2. \A j \in Ids : StageAfter(j) = Stage(j)
        BY <1>1, <1>4, <1>6, <2>1, SameStage
    <2>3. QED
        BY <2>1, <2>2, NoneMoves
<1>8. CASE i # SetWithdrawAddress
    <2>1. i \in Ids /\ records' = DelegateCallback(p)
        BY <1>5, <1>8 DEF ICAPacket, AckICA
    <2>2. records[i].status = "DELEGATION_IN_PROGRESS" /\ records[i].zone = z
        BY <2>1 DEF IndInv, PacketsMatchRecords
    <2>3. \A j \in Ids \ {i} : /\ records'[j].zone = records[j].zone
                               /\ records'[j].amount = records[j].amount
                               /\ records'[j].status = records[j].status
        BY <2>1 DEF DelegateCallback, SetStatus, Delete, IndInv, RecordsTypeOK, Record
    <2>4. \A j \in Ids \ {i} : StageAfter(j) = Stage(j)
        BY <1>1, <1>4, <1>6, <2>3, SameStage
    <2>5. \A q \in channel[z].pkts : q.msg = i => q = p
        BY <2>1 DEF IndInv, PacketsMatchRecords
    <2>6. Executed(channel[z].pkts, i) <=> p.state = "ok"
        BY <2>5 DEF Executed
    <2>7. CASE p.state = "ok"
        <3>1. records'[i] = NoRecord
            BY <2>1, <2>7 DEF DelegateCallback, Delete
        <3>2. StageAfter(i) = "none" /\ Stage(i) = "staked" /\ records'[i].amount = 0
            BY <2>2, <2>6, <2>7, <3>1, StageCases DEF Stage, StageAfter, NoRecord
        <3>3. deposits'[i] = Lifecycle!None /\ deposits[i].stage = "staked"
            BY <2>1, <3>2, Mapping DEF Lifecycle!None, Lifecycle!Deposit
        <3>4. Lifecycle!Becomes(i, deposits'[i])
            BY <2>1, <2>3, <2>4, OneMoves
        <3>5. Lifecycle!Retire(i)
            BY <3>3, <3>4 DEF Lifecycle!Retire
        <3>6. QED
            BY <2>1, <3>5 DEF Simulates, Lifecycle!Next
    <2>8. CASE p.state = "err"
        <3>1. /\ records'[i].status = "DELEGATION_QUEUE"
              /\ records'[i].amount = records[i].amount
            BY <2>1, <2>8 DEF DelegateCallback, SetStatus, IndInv, RecordsTypeOK, Record
        <3>2. StageAfter(i) = "onHost" /\ Stage(i) = "onHost"
            BY <2>2, <2>6, <2>8, <3>1, StageCases DEF Stage, StageAfter
        <3>3. QED
            BY <2>3, <2>4, <3>1, <3>2, NoneMoves
    <2>9. QED
        BY <1>5, <2>7, <2>8
<1>9. QED
    BY <1>7, <1>8

\* The only way back: the host has staked, and nobody will hear of it.
LEMMA TimeoutICASimulates ==
    ASSUME IndInv, NEW z \in Zones, TimeoutICA(z)
    PROVE  Simulates
<1>1. /\ channel' = [channel EXCEPT ![z] = [state |-> "CLOSED", pkts |-> {}]]
      /\ UNCHANGED <<records, transfers>>
    BY DEF TimeoutICA
<1>2. /\ channel'[z].pkts = {}
      /\ \A y \in Zones \ {z} : channel'[y].pkts = channel[y].pkts
    BY <1>1 DEF IndInv, RecordsTypeOK
<1>3. ASSUME NEW i \in Ids
      PROVE  deposits'[i] = deposits[i] \/ Lifecycle!LoseNews(deposits[i], deposits'[i])
    <2>1. records[i].zone \in Zones
        BY DEF IndInv, RecordsTypeOK, Record
    <2>2. CASE /\ records[i].status = "DELEGATION_IN_PROGRESS" /\ records[i].zone = z
               /\ Executed(channel[z].pkts, i)
        <3>1. ~Executed(channel'[z].pkts, i)
            BY <1>2 DEF Executed
        <3>2. StageAfter(i) = "onHost" /\ Stage(i) = "staked"
            BY <1>1, <2>2, <3>1, StageCases DEF Stage, StageAfter
        <3>3. QED
            BY <1>1, <3>2, Mapping DEF Lifecycle!LoseNews, Lifecycle!Deposit
    <2>3. CASE ~(/\ records[i].status = "DELEGATION_IN_PROGRESS" /\ records[i].zone = z
                 /\ Executed(channel[z].pkts, i))
        <3>1. records[i].status = "DELEGATION_IN_PROGRESS" =>
                (Executed(channel'[records[i].zone].pkts, i)
                   <=> Executed(channel[records[i].zone].pkts, i))
            BY <1>2, <2>1, <2>3 DEF Executed
        <3>2. StageAfter(i) = Stage(i)
            BY <1>1, <3>1, SameStage
        <3>3. QED
            BY <1>1, <3>2, Mapping
    <2>4. QED
        BY <2>2, <2>3
<1>4. QED
    BY <1>3, Mapping DEF Simulates, Lifecycle!Next, Lifecycle!Together

-----------------------------------------------------------------------------
(* The stride-epoch hook *)

\* What the hook does to each record, whatever the slots it picks.
LEMMA StrideEpochRecords ==
    ASSUME IndInv, NEW failed \in FailureSets, StrideEpoch(failed)
    PROVE  /\ \A i \in Ids :
                LET r == records[i]
                    s == records'[i] IN
                \/ s.status = r.status /\ s.zone = r.zone /\ s.amount = r.amount
                \/ r.status = "NONE" /\ s.status = "TRANSFER_QUEUE" /\ s.amount = 0
                \/ /\ r.status = "TRANSFER_QUEUE" /\ r.amount = 0
                   /\ s.status = "NONE" /\ s.amount = 0
                \/ /\ r.status = "TRANSFER_QUEUE" /\ r.amount > 0
                   /\ s.status = "TRANSFER_IN_PROGRESS" /\ s.amount = r.amount
                \/ /\ r.status = "DELEGATION_QUEUE"
                   /\ s.status = "DELEGATION_IN_PROGRESS"
                   /\ s.zone = r.zone /\ s.amount = r.amount
           /\ \A t \in transfers' : t \in transfers \/ t.state = "sent"
           /\ transfers \subseteq transfers'
           /\ \A z \in Zones : /\ channel[z].pkts \subseteq channel'[z].pkts
                               /\ \A p \in channel'[z].pkts :
                                    p \in channel[z].pkts \/ p.state = "sent"
<1> DEFINE slot == CHOOSE s \in Slots(ActiveZones, FreeIds) : TRUE
           e == (epoch + 1) % EpochCycle
           aged == [i \in Ids |-> [records[i] EXCEPT !.fresh = FALSE]]
           recs == CreateDepositRecordsForEpoch(slot)
           ord == order \o NewOrder(slot)
           empty == EmptyRecords(recs, e)
           paid == PaidTransfers(recs, ord, e)
           staked == StakeSubmitted(recs, ord, e)
           sent == paid \ failed
           new(z) == SubmittedPackets(recs, ord, staked, z)
<1>1. /\ Slots(ActiveZones, FreeIds) # {}
      /\ ProcessDeposits(failed, e, recs, ord, empty, paid, staked)
    BY DEF StrideEpoch
<1>2. slot \in Slots(ActiveZones, FreeIds)
    BY <1>1
<1>3. /\ aged \in [Ids -> Record]
      /\ \A i \in Ids : /\ aged[i].status = records[i].status
                        /\ aged[i].zone = records[i].zone
                        /\ aged[i].amount = records[i].amount
    BY DEF IndInv, RecordsTypeOK, Record
<1>4. recs = WithNewRecords(aged, slot)
    BY DEF CreateDepositRecordsForEpoch
<1> HIDE DEF slot, aged, recs, e, ord
<1>5. ASSUME NEW i \in Ids
      PROVE  \/ recs[i] = aged[i]
             \/ /\ i \in FreeIds /\ recs[i].status = "TRANSFER_QUEUE"
                /\ recs[i].amount = 0 /\ recs[i].fresh
    <2>1. recs[i] = IF \E z \in DOMAIN slot : slot[z] = i
                    THEN NewRecord(CHOOSE z \in DOMAIN slot : slot[z] = i, "TRANSFER_QUEUE", 0)
                    ELSE aged[i]
        BY <1>4 DEF WithNewRecords
    <2>2. DOMAIN slot = ActiveZones /\ slot \in [ActiveZones -> FreeIds]
        BY <1>2 DEF Slots
    <2>3. QED
        BY <2>1, <2>2 DEF NewRecord
<1>6. recs \in [Ids -> Record]
    <2>1. ActiveZones \in SUBSET Zones /\ FreeIds \in SUBSET Ids
        BY DEF ActiveZones, FreeIds
    <2>2. QED
        BY <1>2, <1>3, <1>4, <2>1, NewRecordsType
<1>7. /\ empty \subseteq {i \in Ids : /\ recs[i].status = "TRANSFER_QUEUE" /\ ~recs[i].fresh
                                      /\ recs[i].amount = 0}
      /\ paid \subseteq {i \in Ids : /\ recs[i].status = "TRANSFER_QUEUE" /\ ~recs[i].fresh
                                     /\ recs[i].amount # 0}
    BY DEF EmptyRecords, PaidTransfers, TransferDue
<1>8. staked \subseteq {i \in Ids : recs[i].status = "DELEGATION_QUEUE"}
    BY DEF StakeSubmitted, StakeDue
<1> HIDE DEF empty, paid, staked
<1>9. /\ records' = Delete(SetStatus(SetStatus(recs, sent, "TRANSFER_IN_PROGRESS"),
                                     staked, "DELEGATION_IN_PROGRESS"), empty)
      /\ transfers' = transfers \cup
            {[id |-> i, amount |-> recs[i].amount, state |-> "sent"] : i \in sent}
      /\ channel' = [z \in Zones |-> [channel[z] EXCEPT !.pkts = @ \cup new(z)]]
    BY <1>1 DEF ProcessDeposits
<1>10. ASSUME NEW i \in Ids
       PROVE  /\ i \in empty => records'[i] = NoRecord
              /\ i \notin empty =>
                   /\ records'[i].zone = recs[i].zone
                   /\ records'[i].amount = recs[i].amount
                   /\ records'[i].status = IF i \in staked THEN "DELEGATION_IN_PROGRESS"
                        ELSE IF i \in sent THEN "TRANSFER_IN_PROGRESS" ELSE recs[i].status
    <2> DEFINE r1 == SetStatus(recs, sent, "TRANSFER_IN_PROGRESS")
               r2 == SetStatus(r1, staked, "DELEGATION_IN_PROGRESS")
    <2>1. /\ r1 \in [Ids -> Record]
          /\ r1[i].zone = recs[i].zone /\ r1[i].amount = recs[i].amount
          /\ r1[i].status = IF i \in sent THEN "TRANSFER_IN_PROGRESS" ELSE recs[i].status
        BY <1>6, SetStatusRecord DEF Statuses
    <2> HIDE DEF r1
    <2>2. /\ r2 \in [Ids -> Record]
          /\ r2[i].zone = r1[i].zone /\ r2[i].amount = r1[i].amount
          /\ r2[i].status = IF i \in staked THEN "DELEGATION_IN_PROGRESS" ELSE r1[i].status
        BY <2>1, SetStatusRecord DEF Statuses
    <2>3. records' = Delete(r2, empty)
        BY <1>9 DEF r1
    <2> HIDE DEF r2, sent
    <2>4. QED
        BY <2>1, <2>2, <2>3 DEF Delete
<1>11. ASSUME NEW i \in Ids
       PROVE  LET r == records[i]
                  s == records'[i] IN
              \/ s.status = r.status /\ s.zone = r.zone /\ s.amount = r.amount
              \/ r.status = "NONE" /\ s.status = "TRANSFER_QUEUE" /\ s.amount = 0
              \/ /\ r.status = "TRANSFER_QUEUE" /\ r.amount = 0
                 /\ s.status = "NONE" /\ s.amount = 0
              \/ /\ r.status = "TRANSFER_QUEUE" /\ r.amount > 0
                 /\ s.status = "TRANSFER_IN_PROGRESS" /\ s.amount = r.amount
              \/ /\ r.status = "DELEGATION_QUEUE"
                 /\ s.status = "DELEGATION_IN_PROGRESS"
                 /\ s.zone = r.zone /\ s.amount = r.amount
    <2>1. CASE recs[i] = aged[i]
        <3>1. /\ recs[i].status = records[i].status /\ recs[i].zone = records[i].zone
              /\ recs[i].amount = records[i].amount /\ records[i].amount \in Nat
            BY <1>3, <2>1 DEF IndInv, RecordsTypeOK, Record
        <3>2. CASE i \in empty
            <4>1. recs[i].status = "TRANSFER_QUEUE" /\ recs[i].amount = 0
                BY <1>7, <3>2
            <4>2. records'[i].status = "NONE" /\ records'[i].amount = 0
                <5>1. records'[i] = NoRecord
                    BY <1>10, <3>2
                <5>2. NoRecord.status = "NONE" /\ NoRecord.amount = 0
                    BY DEF NoRecord
                <5>3. QED
                    BY <5>1, <5>2
            <4>3. QED
                BY <3>1, <4>1, <4>2
        <3>3. CASE i \in staked
            <4>1. i \notin empty /\ recs[i].status = "DELEGATION_QUEUE"
                BY <1>7, <1>8, <3>3
            <4>2. QED
                BY <1>10, <3>1, <3>3, <4>1
        <3>4. CASE i \in sent
            <4>1. i \notin empty /\ i \notin staked /\ recs[i].amount # 0
                  /\ recs[i].status = "TRANSFER_QUEUE"
                BY <1>7, <1>8, <3>4
            <4>2. QED
                BY <1>10, <3>1, <3>4, <4>1
        <3>5. CASE i \notin empty /\ i \notin staked /\ i \notin sent
            BY <1>10, <3>1, <3>5
        <3>6. QED
            BY <3>2, <3>3, <3>4, <3>5
    <2>2. CASE recs[i] # aged[i]
        <3>1. /\ i \in FreeIds /\ recs[i].status = "TRANSFER_QUEUE"
              /\ recs[i].amount = 0 /\ recs[i].fresh
            BY <1>5, <2>2
        <3>2. i \notin empty /\ i \notin staked /\ i \notin sent
            BY <1>7, <1>8, <3>1
        <3>3. records[i].status = "NONE"
            BY <3>1 DEF FreeIds, Present
        <3>4. QED
            BY <1>10, <3>1, <3>2, <3>3
    <2>3. QED
        BY <2>1, <2>2
<1>12. \A t \in transfers' : t \in transfers \/ t.state = "sent"
    BY <1>9
<1>13. ASSUME NEW z \in Zones
       PROVE  /\ channel[z].pkts \subseteq channel'[z].pkts
              /\ \A p \in channel'[z].pkts : p \in channel[z].pkts \/ p.state = "sent"
    <2>1. channel'[z].pkts = channel[z].pkts \cup new(z)
        BY <1>9 DEF IndInv, RecordsTypeOK
    <2>2. \A p \in new(z) : p.state = "sent"
        BY <1>6, <1>8, SubmittedPacketsType
    <2> HIDE DEF new
    <2>3. QED
        BY <2>1, <2>2
<1>14. QED
    BY <1>9, <1>11, <1>12, <1>13

LEMMA StrideEpochSimulates ==
    ASSUME IndInv, NEW failed \in FailureSets, StrideEpoch(failed)
    PROVE  Simulates
<1>1. \A i \in Ids : Landed(transfers', i) <=> Landed(transfers, i)
    BY StrideEpochRecords DEF Landed
<1>2. \A i \in Ids : \A z \in Zones :
        Executed(channel'[z].pkts, i) <=> Executed(channel[z].pkts, i)
    BY StrideEpochRecords DEF Executed
<1>3. ASSUME NEW i \in Ids
      PROVE  deposits'[i] = deposits[i] \/ Lifecycle!EpochStep(deposits[i], deposits'[i])
    <2> DEFINE r == records[i]
               s == records'[i]
    <2>1. r.zone \in Zones
        BY DEF IndInv, RecordsTypeOK, Record
    <2>2. CASE s.status = r.status /\ s.zone = r.zone /\ s.amount = r.amount
        <3>1. StageAfter(i) = Stage(i)
            BY <1>1, <1>2, <2>1, <2>2, SameStage
        <3>2. QED
            BY <2>2, <3>1, Mapping
    <2>3. CASE r.status = "NONE" /\ s.status = "TRANSFER_QUEUE" /\ s.amount = 0
        <3>1. Stage(i) = "none" /\ StageAfter(i) = "collecting"
            BY <2>3, StageCases DEF Stage, StageAfter
        <3>2. QED
            BY <2>3, <3>1, Mapping DEF Lifecycle!EpochStep, Lifecycle!Deposit
    <2>4. CASE /\ r.status = "TRANSFER_QUEUE" /\ r.amount = 0
               /\ s.status = "NONE" /\ s.amount = 0
        <3>1. Stage(i) = "collecting" /\ StageAfter(i) = "none"
            BY <2>4, StageCases DEF Stage, StageAfter
        <3>2. QED
            BY <2>4, <3>1, Mapping DEF Lifecycle!EpochStep, Lifecycle!None, Lifecycle!Deposit
    <2>5. CASE /\ r.status = "TRANSFER_QUEUE" /\ r.amount > 0
               /\ s.status = "TRANSFER_IN_PROGRESS" /\ s.amount = r.amount
        <3>1. ~Landed(transfers, i)
            BY <2>5 DEF Landed, IndInv, PacketsMatchRecords
        <3>2. Stage(i) = "collecting" /\ StageAfter(i) = "transit"
            BY <1>1, <2>5, <3>1, StageCases DEF Stage, StageAfter
        <3>3. /\ deposits[i] = Lifecycle!Deposit("collecting", r.amount)
              /\ deposits'[i] = Lifecycle!Deposit("transit", r.amount)
            BY <2>5, <3>2, Mapping
        <3>4. QED
            BY <2>5, <3>3 DEF Lifecycle!EpochStep, Lifecycle!Deposit
    <2>6. CASE /\ r.status = "DELEGATION_QUEUE" /\ s.status = "DELEGATION_IN_PROGRESS"
               /\ s.zone = r.zone /\ s.amount = r.amount
        <3>1. ~Executed(channel[r.zone].pkts, i)
            BY <2>1, <2>6 DEF Executed, IndInv, PacketsMatchRecords
        <3>2. Stage(i) = "onHost" /\ StageAfter(i) = "onHost"
            BY <1>2, <2>1, <2>6, <3>1, StageCases DEF Stage, StageAfter
        <3>3. QED
            BY <2>6, <3>2, Mapping
    <2>7. QED
        BY <2>2, <2>3, <2>4, <2>5, <2>6, StrideEpochRecords
<1>4. QED
    BY <1>3, Mapping DEF Simulates, Lifecycle!Next, Lifecycle!Together

-----------------------------------------------------------------------------
(* The theorem *)

LEMMA NextSimulates == IndInv /\ [Next]_vars => Simulates
<1> SUFFICES ASSUME IndInv, [Next]_vars PROVE Simulates
    OBVIOUS
<1>1. ASSUME NEW failed \in FailureSets, StrideEpoch(failed) PROVE Simulates
    BY <1>1, StrideEpochSimulates
<1>2. ASSUME NEW t \in transfers, NEW result \in {"ok", "err"}, TransferRecv(t, result)
      PROVE  Simulates
    BY <1>2, TransferRecvSimulates
<1>3. ASSUME NEW t \in transfers, TransferAck(t) \/ TransferTimeout(t) PROVE Simulates
    BY <1>3, TransferDoneSimulates DEF TransferAck, TransferTimeout
<1>4. ASSUME NEW z \in Zones, NEW amount \in StakeAmounts, LiquidStake(z, amount)
      PROVE  Simulates
    BY <1>4, LiquidStakeSimulates
<1>5. ASSUME NEW z \in Zones, NEW amount \in RewardAmounts, ReinvestCallback(z, amount)
      PROVE  Simulates
    BY <1>5, ReinvestSimulates
<1>6. ASSUME NEW z \in Zones, NEW p \in channel[z].pkts, NEW result \in {"ok", "err"},
             ExecuteICA(z, p, result)
      PROVE  Simulates
    BY <1>6, ExecuteICASimulates
<1>7. ASSUME NEW z \in Zones, NEW p \in channel[z].pkts, AckICA(z, p) PROVE Simulates
    BY <1>7, AckICASimulates
<1>8. ASSUME NEW z \in Zones,
             TimeoutICA(z) \/ RestoreInterchainAccount(z) \/ ChanOpenAck(z)
      PROVE  Simulates
    BY <1>8, TimeoutICASimulates, RestoreSimulates, ChanOpenAckSimulates
<1>9. ASSUME NEW z \in Zones, BeginBlocker(z) PROVE Simulates
    BY <1>9, UnchangedSimulates DEF BeginBlocker
<1>10. CASE UNCHANGED vars
    BY <1>10, UnchangedSimulates DEF vars
<1>11. QED
    BY <1>1, <1>2, <1>3, <1>4, <1>5, <1>6, <1>7, <1>8, <1>9, <1>10 DEF Next

\* For any zones, amounts, intervals and limits, and whatever the channels
\* do, the stride-epoch hook and the callbacks carry a deposit to the host and
\* stake it there, and remove it from the books only then.
THEOREM LifecycleImplemented == Spec => ImplementsLifecycle
<1>1. IndInv /\ [Next]_vars => [Lifecycle!Next]_deposits
    BY NextSimulates DEF Simulates
<1>2. QED
    BY <1>1, InitSimulates, IndInvHolds, PTL DEF Spec, ImplementsLifecycle, Lifecycle!Spec

-----------------------------------------------------------------------------
(* The balances of a zone.  Every balance that the properties compare is a *)
(* sum over a set of records or of packets.  Here each is written as a sum *)
(* over all Ids of what one record counts for, so that a step that changes *)
(* one record changes each sum by what that record changes.  Packets and   *)
(* records match, so sums over packets are sums over records too.          *)

\* What record i counts for in the transfer queue of zone z, in what the host
\* has received and stride has not booked, and in what it has staked and not
\* acknowledged.  The sums of the properties are sums of these over all Ids.
QueuedPart(recs, z) == [i \in Ids |->
    IF recs[i].zone = z /\ recs[i].status = "TRANSFER_QUEUE" THEN recs[i].amount ELSE 0]

Received(recs, trs, i) ==
    \/ recs[i].status \in {"DELEGATION_QUEUE", "DELEGATION_IN_PROGRESS"}
    \/ recs[i].status = "TRANSFER_IN_PROGRESS" /\ Landed(trs, i)

ReceivedPart(recs, trs, z) == [i \in Ids |->
    IF recs[i].zone = z /\ Received(recs, trs, i) THEN recs[i].amount ELSE 0]

ExecutedPart(recs, pkts) == [i \in Ids |->
    IF Executed(pkts, i) THEN recs[i].amount ELSE 0]

\* The accounts' types.  The module account may be overdrawn here: that it is
\* not is no concern of the balances, and is proved from them below (PurseOK).
AccountsTypeOK ==
    /\ zone \in [Zones -> [halted : BOOLEAN, redemptionRate : Nat, stakedBal : Nat]]
    /\ supply \in [Zones -> Nat]
    /\ hostAcct \in [Zones -> Nat]
    /\ delegated \in [Zones -> Nat]
    /\ burned \in [Zones -> Nat]
    /\ unrecorded \in [Zones -> Nat]
    /\ moduleAcct \in [Zones -> Int]

\* The three balances of a zone.
Balanced(z) ==
    /\ moduleAcct[z] + burned[z] = SumFunctionOnSet(QueuedPart(records, z), Ids)
    /\ hostAcct[z] + delegated[z]
         = zone[z].stakedBal + SumFunctionOnSet(ReceivedPart(records, transfers, z), Ids)
    /\ delegated[z]
         = zone[z].stakedBal + unrecorded[z]
             + SumFunctionOnSet(ExecutedPart(records, channel[z].pkts), Ids)

\* A record in transfer has its packet: without it the tokens would be nowhere.
TransfersUnderWay ==
    \A i \in Ids : records[i].status = "TRANSFER_IN_PROGRESS" => \E t \in transfers : t.id = i

LedgerInv ==
    /\ IndInv
    /\ AccountsTypeOK
    /\ TransfersUnderWay
    /\ \A z \in Zones : Balanced(z)

\* The parts are natural numbers, and so are their sums.
LEMMA PartsType ==
    ASSUME NEW recs \in [Ids -> Record], NEW trs, NEW pkts, NEW z
    PROVE  /\ \A i \in Ids : /\ QueuedPart(recs, z)[i] \in Nat
                             /\ ReceivedPart(recs, trs, z)[i] \in Nat
                             /\ ExecutedPart(recs, pkts)[i] \in Nat
           /\ SumFunctionOnSet(QueuedPart(recs, z), Ids) \in Nat
           /\ SumFunctionOnSet(ReceivedPart(recs, trs, z), Ids) \in Nat
           /\ SumFunctionOnSet(ExecutedPart(recs, pkts), Ids) \in Nat
  <1>1. \A i \in Ids : recs[i].amount \in Nat
    BY DEF Record
  <1>2. \A i \in Ids : /\ QueuedPart(recs, z)[i] \in Nat
                       /\ ReceivedPart(recs, trs, z)[i] \in Nat
                       /\ ExecutedPart(recs, pkts)[i] \in Nat
    BY <1>1 DEF QueuedPart, ReceivedPart, ExecutedPart
  <1>3. IsFiniteSet(Ids)
    BY DepositRecordsAssumption
  <1> QED
    BY <1>2, <1>3, SumNat

\* The total of a set of records, as a sum over all Ids.
LEMMA TotalAmountSum ==
    ASSUME NEW recs \in [Ids -> Record], NEW S \in SUBSET Ids, NEW g,
           \A i \in Ids : g[i] = IF i \in S THEN recs[i].amount ELSE 0
    PROVE  TotalAmount(recs, S) = SumFunctionOnSet(g, Ids)
  <1> DEFINE f == [i \in S |-> recs[i].amount]
  <1>1. TotalAmount(recs, S) = SumFunctionOnSet(f, S)
    <2>1. DOMAIN f = S
      OBVIOUS
    <2> QED
      BY <2>1, Zenon DEF TotalAmount, SumFunction
  <1>2. \A i \in S : f[i] = g[i] /\ g[i] \in Int
    BY DEF Record
  <1>3. \A i \in Ids \ S : g[i] = 0
    OBVIOUS
  <1>4. IsFiniteSet(Ids)
    BY DepositRecordsAssumption
  <1> HIDE DEF f
  <1> QED
    BY <1>1, <1>2, <1>3, <1>4, SumRestrict

\* It is a natural number.
LEMMA TotalAmountNat ==
    ASSUME NEW recs \in [Ids -> Record], NEW S \in SUBSET Ids
    PROVE  TotalAmount(recs, S) \in Nat
  <1> DEFINE g == [i \in Ids |-> IF i \in S THEN recs[i].amount ELSE 0]
  <1>1. \A i \in Ids : g[i] = IF i \in S THEN recs[i].amount ELSE 0
    OBVIOUS
  <1>2. \A i \in Ids : g[i] \in Nat
    BY DEF Record
  <1>3. IsFiniteSet(Ids)
    BY DepositRecordsAssumption
  <1> HIDE DEF g
  <1> QED
    BY <1>1, <1>2, <1>3, TotalAmountSum, SumNat

\* There is one packet per record, so what a channel has executed is the sum
\* over the records.
LEMMA ExecutedAmountSum ==
    ASSUME IndInv, NEW z \in Zones
    PROVE  ExecutedAmount(z) = SumFunctionOnSet(ExecutedPart(records, channel[z].pkts), Ids)
  <1> DEFINE ok == {p \in channel[z].pkts : p.state = "ok" /\ p.msg \in Ids}
             f == [p \in ok |-> p.amount]
             h == [p \in ok |-> p.msg]
             g == ExecutedPart(records, channel[z].pkts)
             im == {h[p] : p \in ok}
  <1>1. ExecutedAmount(z) = SumFunctionOnSet(f, ok)
    <2>1. DOMAIN f = ok
      OBVIOUS
    <2> QED
      BY <2>1, Zenon DEF ExecutedAmount, SumFunction
  <1>2. IsFiniteSet(ok)
    BY FS_Subset DEF IndInv, RecordsTypeOK
  <1>3. \A p, q \in ok : h[p] = h[q] => p = q
    BY DEF IndInv, PacketsMatchRecords
  <1>4. im \in SUBSET Ids /\ \A i \in Ids : i \in im <=> Executed(channel[z].pkts, i)
    BY DEF Executed
  <1>5. \A p \in ok : f[p] = g[h[p]] /\ f[p] \in Int
    <2> SUFFICES ASSUME NEW p \in ok PROVE f[p] = g[h[p]] /\ f[p] \in Int
      OBVIOUS
    <2>1. p.amount = records[p.msg].amount /\ p.msg \in Ids
      BY DEF IndInv, PacketsMatchRecords
    <2>2. Executed(channel[z].pkts, p.msg)
      BY DEF Executed
    <2>3. records[p.msg].amount \in Int
      BY <2>1 DEF IndInv, RecordsTypeOK, Record
    <2> QED
      BY <2>1, <2>2, <2>3 DEF ExecutedPart
  <1>6. \A i \in im : g[i] = g[i] /\ g[i] \in Int
    <2>1. records \in [Ids -> Record]
      BY DEF IndInv, RecordsTypeOK
    <2>2. \A i \in Ids : g[i] \in Nat
      BY <2>1, PartsType
    <2> HIDE DEF g, im
    <2> QED
      BY <1>4, <2>2
  <1>7. \A i \in Ids \ im : g[i] = 0
    BY <1>4 DEF ExecutedPart
  <1>8. IsFiniteSet(Ids)
    BY DepositRecordsAssumption
  <1>9. SumFunctionOnSet(f, ok) = SumFunctionOnSet(g, im)
    <2> HIDE DEF f, g, h, ok
    <2> QED
      BY <1>2, <1>3, <1>5, SumReindex
  <1>10. SumFunctionOnSet(g, im) = SumFunctionOnSet(g, Ids)
    <2> HIDE DEF g, im
    <2> QED
      BY <1>4, <1>6, <1>7, <1>8, SumRestrict
  <1> QED
    BY <1>1, <1>9, <1>10

\* What a record counts for while its tokens are between the chains.
TransitPart(z) == [i \in Ids |->
    IF records[i].zone = z /\ records[i].status = "TRANSFER_IN_PROGRESS" /\ ~Landed(transfers, i)
    THEN records[i].amount ELSE 0]

\* There is one transfer per record, so what is in transit is the sum over
\* the records.
LEMMA InTransitSum ==
    ASSUME IndInv, TransfersUnderWay, NEW z \in Zones
    PROVE  InTransit(z) = SumFunctionOnSet(TransitPart(z), Ids)
  <1> DEFINE away == {t \in transfers : records[t.id].zone = z /\ t.state # "ok"}
             f == [t \in away |-> t.amount]
             h == [t \in away |-> t.id]
             g == TransitPart(z)
             im == {h[t] : t \in away}
  <1>1. InTransit(z) = SumFunctionOnSet(f, away)
    <2>1. DOMAIN f = away
      OBVIOUS
    <2> QED
      BY <2>1, Zenon DEF InTransit, SumFunction
  <1>2. /\ records \in [Ids -> Record]
        /\ \A t \in transfers : /\ t.id \in Ids /\ t.amount = records[t.id].amount
                                /\ records[t.id].status = "TRANSFER_IN_PROGRESS"
        /\ \A t, u \in transfers : t.id = u.id => t = u
    BY DEF IndInv, PacketsMatchRecords, RecordsTypeOK, TransferPacket
  <1>3. \A t, u \in away : h[t] = h[u] => t = u
    BY <1>2
  <1>4. IsFiniteSet(away)
    <2>1. h \in Injection(away, Ids)
      BY <1>2, <1>3 DEF Injection, IsInjective
    <2> HIDE DEF h, away
    <2> QED
      BY <2>1, FS_Injection, DepositRecordsAssumption
  <1>5. /\ im \in SUBSET Ids
        /\ \A i \in Ids : i \in im <=> /\ records[i].zone = z
                                      /\ records[i].status = "TRANSFER_IN_PROGRESS"
                                      /\ ~Landed(transfers, i)
    <2>1. im \in SUBSET Ids
      BY <1>2
    <2>2. ASSUME NEW i \in im
          PROVE  /\ records[i].zone = z
                 /\ records[i].status = "TRANSFER_IN_PROGRESS"
                 /\ ~Landed(transfers, i)
      BY <1>2 DEF Landed
    <2>3. ASSUME NEW i \in Ids, records[i].zone = z,
                 records[i].status = "TRANSFER_IN_PROGRESS", ~Landed(transfers, i)
          PROVE  i \in im
      <3>1. PICK t \in transfers : t.id = i
        BY <2>3 DEF TransfersUnderWay
      <3>2. t \in away
        BY <2>3, <3>1 DEF Landed
      <3> QED
        BY <3>1, <3>2
    <2> QED
      BY <2>1, <2>2, <2>3
  <1>6. \A i \in Ids : g[i] = IF i \in im THEN records[i].amount ELSE 0
    BY <1>5 DEF TransitPart
  <1>7. \A i \in Ids : records[i].amount \in Int
    BY <1>2 DEF Record
  <1>8. \A t \in away : f[t] = g[h[t]] /\ f[t] \in Int
    <2> SUFFICES ASSUME NEW t \in away PROVE f[t] = g[h[t]] /\ f[t] \in Int
      OBVIOUS
    <2>1. h[t] \in im /\ h[t] = t.id /\ t.id \in Ids
      BY <1>2
    <2> QED
      BY <1>2, <1>6, <1>7, <2>1
  <1>9. \A i \in im : g[i] = g[i] /\ g[i] \in Int
    BY <1>5, <1>6, <1>7
  <1>10. \A i \in Ids \ im : g[i] = 0
    BY <1>6
  <1>11. IsFiniteSet(Ids)
    BY DepositRecordsAssumption
  <1>12. SumFunctionOnSet(f, away) = SumFunctionOnSet(g, im)
    <2> HIDE DEF f, g, h, away
    <2> QED
      BY <1>4, <1>3, <1>8, SumReindex
  <1>13. SumFunctionOnSet(g, im) = SumFunctionOnSet(g, Ids)
    <2> HIDE DEF g, im
    <2> QED
      BY <1>5, <1>9, <1>10, <1>11, SumRestrict
  <1> QED
    BY <1>1, <1>12, <1>13

\* The invariant is what the properties say.
LEMMA LedgerConsequences ==
    ASSUME LedgerInv
    PROVE  QueueAccounted /\ StakedBalAccounted /\ ValueConserved
  <1> USE DEF LedgerInv
  <1>1. records \in [Ids -> Record]
    BY DEF IndInv, RecordsTypeOK
  <1>2. IsFiniteSet(Ids)
    BY DepositRecordsAssumption
  <1>3. ASSUME NEW z \in Zones
        PROVE  moduleAcct[z] + burned[z]
                 = TotalAmount(records, WithStatus(records, z, {"TRANSFER_QUEUE"}))
    <2> DEFINE S == WithStatus(records, z, {"TRANSFER_QUEUE"})
               g == QueuedPart(records, z)
    <2>1. S \in SUBSET Ids /\ \A i \in Ids : g[i] = IF i \in S THEN records[i].amount ELSE 0
      BY DEF WithStatus, QueuedPart
    <2>2. moduleAcct[z] + burned[z] = SumFunctionOnSet(g, Ids)
      BY DEF Balanced
    <2> HIDE DEF S, g
    <2>3. TotalAmount(records, S) = SumFunctionOnSet(g, Ids)
      BY <1>1, <2>1, TotalAmountSum
    <2> QED
      BY <2>2, <2>3 DEF S
  <1>4. ASSUME NEW z \in Zones
        PROVE  moduleAcct[z] + burned[z] + InTransit(z) + hostAcct[z] + delegated[z]
                 = zone[z].stakedBal
                     + TotalAmount(records, {i \in Present(records) : records[i].zone = z})
    <2> DEFINE S == {i \in Present(records) : records[i].zone = z}
               q == QueuedPart(records, z)
               r == ReceivedPart(records, transfers, z)
               t == TransitPart(z)
               qr == [i \in Ids |-> q[i] + r[i]]
               g == [i \in Ids |-> qr[i] + t[i]]
               sum(f) == SumFunctionOnSet(f, Ids)
    <2>1. \A i \in Ids : q[i] \in Int /\ r[i] \in Int /\ t[i] \in Int
      BY <1>1 DEF QueuedPart, ReceivedPart, TransitPart, Record
    <2>2. S \in SUBSET Ids
      BY DEF Present
    <2>3. \A i \in Ids : g[i] = IF i \in S THEN records[i].amount ELSE 0
      <3> SUFFICES ASSUME NEW i \in Ids
                   PROVE  q[i] + r[i] + t[i] = IF i \in S THEN records[i].amount ELSE 0
        OBVIOUS
      <3>1. records[i].amount \in Int /\ records[i].status \in Statuses
        BY <1>1 DEF Record
      <3>2. /\ q[i] = IF i \in S /\ records[i].status = "TRANSFER_QUEUE"
                      THEN records[i].amount ELSE 0
            /\ r[i] = IF i \in S /\ Received(records, transfers, i) THEN records[i].amount ELSE 0
            /\ t[i] = IF i \in S /\ records[i].status = "TRANSFER_IN_PROGRESS"
                           /\ ~Landed(transfers, i) THEN records[i].amount ELSE 0
            /\ i \in S => records[i].status # "NONE"
        BY DEF QueuedPart, ReceivedPart, TransitPart, Received, Present
      <3> HIDE DEF q, r, t, S
      <3> QED
        BY <3>1, <3>2 DEF Received, Statuses
    <2> HIDE DEF q, r, t, S
    <2>4. sum(qr) = sum(q) + sum(r)
      BY <1>2, <2>1, SumPlus
    <2>5. \A i \in Ids : qr[i] \in Int /\ g[i] = qr[i] + t[i]
      BY <2>1
    <2> HIDE DEF qr, g
    <2>6. sum(g) = sum(qr) + sum(t)
      BY <1>2, <2>1, <2>5, SumPlus
    <2>7. TotalAmount(records, S) = sum(g)
      BY <1>1, <2>2, <2>3, TotalAmountSum
    <2>8. InTransit(z) = sum(t)
      BY InTransitSum DEF t
    <2>9. sum(q) \in Int /\ sum(r) \in Int /\ sum(t) \in Int
      BY <1>2, <2>1, SumInt
    <2>10. /\ moduleAcct[z] + burned[z] = sum(q)
           /\ hostAcct[z] + delegated[z] = zone[z].stakedBal + sum(r)
      BY DEF Balanced, q, r
    <2>11. {moduleAcct[z], burned[z], hostAcct[z], delegated[z], zone[z].stakedBal} \subseteq Int
      BY DEF AccountsTypeOK
    <2> HIDE DEF sum
    <2>12. moduleAcct[z] + burned[z] + InTransit(z) + hostAcct[z] + delegated[z]
             = zone[z].stakedBal + TotalAmount(records, S)
      BY <2>4, <2>6, <2>7, <2>8, <2>9, <2>10, <2>11
    <2> QED
      BY <2>12 DEF S
  <1>5. StakedBalAccounted
    BY ExecutedAmountSum DEF Balanced, StakedBalAccounted
  <1> QED
    BY <1>3, <1>4, <1>5 DEF QueueAccounted, ValueConserved

-----------------------------------------------------------------------------
(* Steps *)

\* Record j counts for as much as before in the sums of zone y.
SameParts(y, j) ==
    /\ QueuedPart(records', y)[j] = QueuedPart(records, y)[j]
    /\ ReceivedPart(records', transfers', y)[j] = ReceivedPart(records, transfers, y)[j]
    /\ ExecutedPart(records', channel'[y].pkts)[j] = ExecutedPart(records, channel[y].pkts)[j]

\* A sum over the records changes by what one record changes.
LEMMA OneRecordSum ==
    ASSUME NEW i \in Ids, NEW f, NEW g,
           \A j \in Ids : f[j] \in Int, \A j \in Ids : g[j] \in Int,
           \A j \in Ids \ {i} : g[j] = f[j]
    PROVE  SumFunctionOnSet(g, Ids) = SumFunctionOnSet(f, Ids) + g[i] - f[i]
    BY SumChange, DepositRecordsAssumption

\* The books stay balanced when the accounts change by what the step's record
\* counts for more or less, ...
LEMMA OneRecordBooked ==
    ASSUME LedgerInv, NEW y \in Zones, NEW i \in Ids, records' \in [Ids -> Record], AccountsTypeOK',
           \A j \in Ids \ {i} : SameParts(y, j),
           moduleAcct'[y] + burned'[y] - (moduleAcct[y] + burned[y])
             = QueuedPart(records', y)[i] - QueuedPart(records, y)[i],
           hostAcct'[y] + delegated'[y] - zone'[y].stakedBal
             - (hostAcct[y] + delegated[y] - zone[y].stakedBal)
             = ReceivedPart(records', transfers', y)[i] - ReceivedPart(records, transfers, y)[i],
           delegated'[y] - zone'[y].stakedBal - unrecorded'[y]
             - (delegated[y] - zone[y].stakedBal - unrecorded[y])
             = ExecutedPart(records', channel'[y].pkts)[i] - ExecutedPart(records, channel[y].pkts)[i]
    PROVE  Balanced(y)'
  <1> DEFINE q == QueuedPart(records, y)
             r == ReceivedPart(records, transfers, y)
             x == ExecutedPart(records, channel[y].pkts)
             qn == QueuedPart(records', y)
             rn == ReceivedPart(records', transfers', y)
             xn == ExecutedPart(records', channel'[y].pkts)
             sum(f) == SumFunctionOnSet(f, Ids)
  <1>1. records \in [Ids -> Record] /\ IsFiniteSet(Ids)
    BY DepositRecordsAssumption DEF LedgerInv, IndInv, RecordsTypeOK
  <1>2. /\ \A j \in Ids : q[j] \in Nat /\ r[j] \in Nat /\ x[j] \in Nat
        /\ sum(q) \in Nat /\ sum(r) \in Nat /\ sum(x) \in Nat
    BY <1>1, PartsType
  <1>3. \A j \in Ids : qn[j] \in Nat /\ rn[j] \in Nat /\ xn[j] \in Nat
    BY PartsType
  <1>4. \A j \in Ids \ {i} : qn[j] = q[j] /\ rn[j] = r[j] /\ xn[j] = x[j]
    BY DEF SameParts
  <1>5. /\ moduleAcct'[y] + burned'[y] - (moduleAcct[y] + burned[y]) = qn[i] - q[i]
        /\ hostAcct'[y] + delegated'[y] - zone'[y].stakedBal
             - (hostAcct[y] + delegated[y] - zone[y].stakedBal) = rn[i] - r[i]
        /\ delegated'[y] - zone'[y].stakedBal - unrecorded'[y]
             - (delegated[y] - zone[y].stakedBal - unrecorded[y]) = xn[i] - x[i]
    OBVIOUS
  <1>6. /\ moduleAcct[y] + burned[y] = sum(q)
        /\ hostAcct[y] + delegated[y] = zone[y].stakedBal + sum(r)
        /\ delegated[y] = zone[y].stakedBal + unrecorded[y] + sum(x)
    BY DEF LedgerInv, Balanced
  <1>7. /\ {moduleAcct[y], burned[y], hostAcct[y], delegated[y], zone[y].stakedBal,
            unrecorded[y]} \subseteq Int
        /\ {moduleAcct'[y], burned'[y], hostAcct'[y], delegated'[y], zone'[y].stakedBal,
            unrecorded'[y]} \subseteq Int
    BY DEF LedgerInv, AccountsTypeOK
  <1>8. Balanced(y)' <=>
        /\ moduleAcct'[y] + burned'[y] = sum(qn)
        /\ hostAcct'[y] + delegated'[y] = zone'[y].stakedBal + sum(rn)
        /\ delegated'[y] = zone'[y].stakedBal + unrecorded'[y] + sum(xn)
    BY DEF Balanced
  <1> HIDE DEF q, r, x, qn, rn, xn
  <1>9. /\ sum(qn) = sum(q) + qn[i] - q[i]
        /\ sum(rn) = sum(r) + rn[i] - r[i]
        /\ sum(xn) = sum(x) + xn[i] - x[i]
    <2>1. sum(qn) = sum(q) + qn[i] - q[i]
      <3>1. (\A j \in Ids : q[j] \in Int) /\ (\A j \in Ids : qn[j] \in Int)
        BY <1>2, <1>3
      <3>2. \A j \in Ids \ {i} : qn[j] = q[j]
        BY <1>4
      <3> QED
        BY <3>1, <3>2, OneRecordSum
    <2>2. sum(rn) = sum(r) + rn[i] - r[i]
      <3>1. (\A j \in Ids : r[j] \in Int) /\ (\A j \in Ids : rn[j] \in Int)
        BY <1>2, <1>3
      <3>2. \A j \in Ids \ {i} : rn[j] = r[j]
        BY <1>4
      <3> QED
        BY <3>1, <3>2, OneRecordSum
    <2>3. sum(xn) = sum(x) + xn[i] - x[i]
      <3>1. (\A j \in Ids : x[j] \in Int) /\ (\A j \in Ids : xn[j] \in Int)
        BY <1>2, <1>3
      <3>2. \A j \in Ids \ {i} : xn[j] = x[j]
        BY <1>4
      <3> QED
        BY <3>1, <3>2, OneRecordSum
    <2> QED
      BY <2>1, <2>2, <2>3
  <1>10. /\ q[i] \in Int /\ r[i] \in Int /\ x[i] \in Int
         /\ qn[i] \in Int /\ rn[i] \in Int /\ xn[i] \in Int
    BY <1>2, <1>3
  <1> HIDE DEF sum
  <1> QED
    BY <1>2, <1>5, <1>6, <1>7, <1>8, <1>9, <1>10

\* ... and when neither changes.
LEMMA NothingBooked ==
    ASSUME LedgerInv, NEW y \in Zones, \A j \in Ids : SameParts(y, j),
           moduleAcct'[y] + burned'[y] = moduleAcct[y] + burned[y],
           hostAcct'[y] = hostAcct[y], delegated'[y] = delegated[y],
           zone'[y].stakedBal = zone[y].stakedBal, unrecorded'[y] = unrecorded[y]
    PROVE  Balanced(y)'
  <1> DEFINE sum(f) == SumFunctionOnSet(f, Ids)
  <1>1. IsFiniteSet(Ids)
    BY DepositRecordsAssumption
  <1>2. sum(QueuedPart(records', y)) = sum(QueuedPart(records, y))
    BY <1>1, SumSame DEF SameParts
  <1>3. sum(ReceivedPart(records', transfers', y)) = sum(ReceivedPart(records, transfers, y))
    BY <1>1, SumSame DEF SameParts
  <1>4. sum(ExecutedPart(records', channel'[y].pkts)) = sum(ExecutedPart(records, channel[y].pkts))
    BY <1>1, SumSame DEF SameParts
  <1> QED
    BY <1>2, <1>3, <1>4 DEF LedgerInv, Balanced

\* A record that keeps its fields and whose packets keep their meaning.
LEMMA SameRecordSameParts ==
    ASSUME NEW y, NEW j \in Ids,
           /\ records'[j].zone = records[j].zone
           /\ records'[j].status = records[j].status
           /\ records'[j].amount = records[j].amount,
           Landed(transfers', j) <=> Landed(transfers, j),
           Executed(channel'[y].pkts, j) <=> Executed(channel[y].pkts, j)
    PROVE  SameParts(y, j)
    BY DEF SameParts, QueuedPart, ReceivedPart, ExecutedPart, Received

\* A user pays the module account, and the deposit of the epoch grows.
LEMMA LiquidStakeLedger ==
    ASSUME LedgerInv, NEW z \in Zones, NEW amount \in StakeAmounts, LiquidStake(z, amount)
    PROVE  LedgerInv'
  <1>1. IndInv'
    BY LiquidStakeStep DEF LedgerInv
  <1>2. PICK i \in CurrentTransferRecord(z) :
          records' = [records EXCEPT ![i].amount = @ + amount]
    BY DEF LiquidStake
  <1>3. i \in Ids /\ records[i].status = "TRANSFER_QUEUE" /\ records[i].zone = z
    BY DEF CurrentTransferRecord, WithStatus
  <1>4. records \in [Ids -> Record] /\ records' \in [Ids -> Record] /\ amount \in Nat
    BY <1>1, DepositRecordsAssumption DEF LedgerInv, IndInv, RecordsTypeOK
  <1>5. /\ UNCHANGED <<zone, transfers, channel, hostAcct, delegated, burned, unrecorded>>
        /\ moduleAcct' = [moduleAcct EXCEPT ![z] = @ + amount]
    BY DEF LiquidStake, host, ghosts
  <1>6. /\ records'[i].status = records[i].status /\ records'[i].zone = records[i].zone
        /\ records'[i].amount = records[i].amount + amount
        /\ \A j \in Ids : j # i => records'[j] = records[j]
    BY <1>2, <1>3, <1>4 DEF Record
  <1>7. AccountsTypeOK'
    <2> DEFINE stAmount == StTokensFor(amount, zone[z].redemptionRate)
    <2>1. zone[z].redemptionRate \in Nat \ {0}
      BY DepositRecordsAssumption
         DEF LiquidStake, IsRedemptionRateWithinSafetyBounds, LedgerInv, AccountsTypeOK
    <2>2. stAmount \in Nat
      BY <1>4, <2>1, NewDecNat, QuoNat, TruncateNat DEF StTokensFor
    <2>3. supply' = [supply EXCEPT ![z] = @ + stAmount]
      BY DEF LiquidStake
    <2> HIDE DEF stAmount
    <2> QED
      BY <1>4, <1>5, <2>2, <2>3 DEF LedgerInv, AccountsTypeOK
  <1>8. TransfersUnderWay'
    BY <1>3, <1>5, <1>6 DEF LedgerInv, TransfersUnderWay
  <1>9. ASSUME NEW y \in Zones PROVE Balanced(y)'
    <2>1. \A j \in Ids \ {i} : SameParts(y, j)
      BY <1>5, <1>6, SameRecordSameParts
    <2>2. moduleAcct'[y] + burned'[y] - (moduleAcct[y] + burned[y])
            = QueuedPart(records', y)[i] - QueuedPart(records, y)[i]
      <3>1. /\ QueuedPart(records, y)[i] = IF y = z THEN records[i].amount ELSE 0
            /\ QueuedPart(records', y)[i] = IF y = z THEN records[i].amount + amount ELSE 0
        BY <1>3, <1>6 DEF QueuedPart
      <3>2. moduleAcct'[y] = IF y = z THEN moduleAcct[y] + amount ELSE moduleAcct[y]
        BY <1>5 DEF LedgerInv, AccountsTypeOK
      <3>3. moduleAcct[y] \in Int /\ burned[y] \in Int /\ records[i].amount \in Int
        BY <1>3, <1>4 DEF LedgerInv, AccountsTypeOK, Record
      <3> QED
        BY <1>4, <1>5, <3>1, <3>2, <3>3
    <2>3. /\ ReceivedPart(records', transfers', y)[i] = 0
          /\ ReceivedPart(records, transfers, y)[i] = 0
          /\ ExecutedPart(records', channel'[y].pkts)[i] = 0
          /\ ExecutedPart(records, channel[y].pkts)[i] = 0
      BY <1>1, <1>3, <1>5, <1>6
         DEF ReceivedPart, ExecutedPart, Received, Executed, LedgerInv, IndInv, PacketsMatchRecords
    <2>4. {hostAcct[y], delegated[y], zone[y].stakedBal, unrecorded[y]} \subseteq Int
      BY DEF LedgerInv, AccountsTypeOK
    <2> QED
      BY <1>3, <1>4, <1>5, <1>7, <2>1, <2>2, <2>3, <2>4, OneRecordBooked
  <1> QED
    BY <1>1, <1>7, <1>8, <1>9 DEF LedgerInv

\* A reward reaches the delegation account, with a deposit that is queued there.
LEMMA ReinvestLedger ==
    ASSUME LedgerInv, NEW z \in Zones, NEW amount \in RewardAmounts,
           ReinvestCallback(z, amount)
    PROVE  LedgerInv'
  <1> DEFINE i == CHOOSE j \in FreeIds : TRUE
  <1>1. IndInv'
    BY ReinvestCallbackStep DEF LedgerInv
  <1>2. /\ i \in FreeIds
        /\ records' = [records EXCEPT ![i] = NewRecord(z, "DELEGATION_QUEUE", amount)]
    BY DEF ReinvestCallback
  <1>3. i \in Ids /\ records[i].status = "NONE"
    BY <1>2 DEF FreeIds, Present
  <1> HIDE DEF i
  <1>4. records \in [Ids -> Record] /\ records' \in [Ids -> Record] /\ amount \in Nat
    BY <1>1, DepositRecordsAssumption DEF LedgerInv, IndInv, RecordsTypeOK
  <1>5. /\ UNCHANGED <<zone, supply, moduleAcct, transfers, channel, delegated, burned, unrecorded>>
        /\ hostAcct' = [hostAcct EXCEPT ![z] = @ + amount]
    BY DEF ReinvestCallback, ghosts
  <1>6. /\ records'[i].status = "DELEGATION_QUEUE" /\ records'[i].zone = z
        /\ records'[i].amount = amount
        /\ \A j \in Ids : j # i => records'[j] = records[j]
    BY <1>2, <1>3, <1>4 DEF NewRecord
  <1>7. AccountsTypeOK'
    BY <1>4, <1>5 DEF LedgerInv, AccountsTypeOK
  <1>8. TransfersUnderWay'
    BY <1>3, <1>5, <1>6 DEF LedgerInv, TransfersUnderWay
  <1>9. ASSUME NEW y \in Zones PROVE Balanced(y)'
    <2>1. \A j \in Ids \ {i} : SameParts(y, j)
      BY <1>5, <1>6, SameRecordSameParts
    <2>2. /\ ReceivedPart(records, transfers, y)[i] = 0
          /\ ReceivedPart(records', transfers', y)[i] = IF y = z THEN amount ELSE 0
      BY <1>3, <1>6 DEF ReceivedPart, Received
    <2>3. /\ QueuedPart(records, y)[i] = 0
          /\ QueuedPart(records', y)[i] = 0
          /\ ExecutedPart(records, channel[y].pkts)[i] = 0
          /\ ExecutedPart(records', channel'[y].pkts)[i] = 0
      BY <1>1, <1>3, <1>5, <1>6
         DEF QueuedPart, ExecutedPart, Executed, LedgerInv, IndInv, PacketsMatchRecords
    <2>4. hostAcct'[y] = IF y = z THEN hostAcct[y] + amount ELSE hostAcct[y]
      BY <1>5 DEF LedgerInv, AccountsTypeOK
    <2>5. {moduleAcct[y], burned[y], hostAcct[y], delegated[y], zone[y].stakedBal,
           unrecorded[y]} \subseteq Int
      BY DEF LedgerInv, AccountsTypeOK
    <2>6. hostAcct'[y] + delegated'[y] - zone'[y].stakedBal
            - (hostAcct[y] + delegated[y] - zone[y].stakedBal)
            = IF y = z THEN amount ELSE 0
      BY <1>4, <1>5, <2>4, <2>5
    <2> QED
      BY <1>3, <1>4, <1>5, <1>7, <2>1, <2>2, <2>3, <2>5, <2>6, OneRecordBooked
  <1> QED
    BY <1>1, <1>7, <1>8, <1>9 DEF LedgerInv

\* The host receives a transfer, or refuses it.
LEMMA TransferRecvLedger ==
    ASSUME LedgerInv, NEW t \in transfers, NEW result \in {"ok", "err"},
           TransferRecv(t, result)
    PROVE  LedgerInv'
  <1> DEFINE done == [t EXCEPT !.state = result]
             i == t.id
             w == records[i].zone
  <1>1. IndInv'
    BY TransferRecvStep DEF LedgerInv
  <1>2. /\ transfers' = (transfers \ {t}) \cup {done}
        /\ UNCHANGED <<zone, supply, moduleAcct, records, channel, delegated, burned, unrecorded>>
        /\ hostAcct' = [hostAcct EXCEPT ![w] = IF result = "ok" THEN @ + t.amount ELSE @]
        /\ t.state = "sent"
    BY DEF TransferRecv, ghosts, stride
  <1>3. done.id = i /\ done.state = result /\ i \in Ids /\ t.amount \in Nat
    BY DEF LedgerInv, IndInv, RecordsTypeOK, TransferPacket
  <1>4. /\ records \in [Ids -> Record] /\ records' \in [Ids -> Record]
        /\ records[i].status = "TRANSFER_IN_PROGRESS" /\ records[i].amount = t.amount
        /\ w \in Zones
        /\ \A u \in transfers : u.id = i => u = t
    BY <1>1, <1>3 DEF LedgerInv, IndInv, RecordsTypeOK, PacketsMatchRecords, Record
  <1> HIDE DEF done
  <1>5. /\ ~Landed(transfers, i)
        /\ Landed(transfers', i) <=> result = "ok"
        /\ \A j \in Ids \ {i} : Landed(transfers', j) <=> Landed(transfers, j)
    BY <1>2, <1>3, <1>4 DEF Landed
  <1>6. AccountsTypeOK'
    BY <1>2, <1>3, <1>4 DEF LedgerInv, AccountsTypeOK
  <1>7. TransfersUnderWay'
    BY <1>2, <1>3 DEF LedgerInv, TransfersUnderWay
  <1>8. ASSUME NEW y \in Zones PROVE Balanced(y)'
    <2>1. \A j \in Ids \ {i} : SameParts(y, j)
      BY <1>2, <1>5, SameRecordSameParts
    <2>2. /\ ReceivedPart(records, transfers, y)[i] = 0
          /\ ReceivedPart(records', transfers', y)[i]
               = IF y = w /\ result = "ok" THEN t.amount ELSE 0
      BY <1>2, <1>3, <1>4, <1>5 DEF ReceivedPart, Received
    <2>3. /\ QueuedPart(records', y)[i] = QueuedPart(records, y)[i]
          /\ ExecutedPart(records', channel'[y].pkts)[i] = ExecutedPart(records, channel[y].pkts)[i]
          /\ QueuedPart(records, y)[i] \in Nat
          /\ ExecutedPart(records, channel[y].pkts)[i] \in Nat
      BY <1>2, <1>3, <1>4, PartsType
    <2>4. hostAcct'[y] = IF y = w /\ result = "ok" THEN hostAcct[y] + t.amount ELSE hostAcct[y]
      BY <1>2 DEF LedgerInv, AccountsTypeOK
    <2>5. {moduleAcct[y], burned[y], hostAcct[y], delegated[y], zone[y].stakedBal,
           unrecorded[y]} \subseteq Int
      BY DEF LedgerInv, AccountsTypeOK
    <2>6. hostAcct'[y] + delegated'[y] - zone'[y].stakedBal
            - (hostAcct[y] + delegated[y] - zone[y].stakedBal)
            = ReceivedPart(records', transfers', y)[i] - ReceivedPart(records, transfers, y)[i]
      BY <1>2, <1>3, <2>2, <2>4, <2>5
    <2>7. /\ moduleAcct'[y] + burned'[y] - (moduleAcct[y] + burned[y])
               = QueuedPart(records', y)[i] - QueuedPart(records, y)[i]
          /\ delegated'[y] - zone'[y].stakedBal - unrecorded'[y]
               - (delegated[y] - zone[y].stakedBal - unrecorded[y])
               = ExecutedPart(records', channel'[y].pkts)[i]
                   - ExecutedPart(records, channel[y].pkts)[i]
      BY <1>2, <2>3, <2>5
    <2> QED
      BY <1>3, <1>4, <1>6, <2>1, <2>6, <2>7, OneRecordBooked
  <1> QED
    BY <1>1, <1>6, <1>7, <1>8 DEF LedgerInv

\* A transfer is acknowledged, or refunded to the queue it came from.
LEMMA TransferDoneLedger ==
    ASSUME LedgerInv, NEW t \in transfers, NEW result, TransferDone(t, result),
           result = "ok" <=> t.state = "ok"
    PROVE  LedgerInv'
  <1> DEFINE i == t.id
             w == records[i].zone
  <1>1. IndInv'
    BY TransferDoneStep DEF LedgerInv
  <1>2. /\ transfers' = transfers \ {t}
        /\ records' = TransferCallback(i, result)
        /\ UNCHANGED <<zone, supply, channel, hostAcct, delegated, burned, unrecorded>>
        /\ moduleAcct' = [moduleAcct EXCEPT ![w] = IF result = "ok" THEN @ ELSE @ + t.amount]
    BY DEF TransferDone, ghosts, host
  <1>3. i \in Ids /\ t.amount \in Nat
    BY DEF LedgerInv, IndInv, RecordsTypeOK, TransferPacket
  <1>4. /\ records \in [Ids -> Record] /\ records' \in [Ids -> Record]
        /\ records[i].status = "TRANSFER_IN_PROGRESS" /\ records[i].amount = t.amount
        /\ w \in Zones
        /\ \A u \in transfers : u.id = i => u = t
    BY <1>1, <1>3 DEF LedgerInv, IndInv, RecordsTypeOK, PacketsMatchRecords, Record
  <1>5. /\ \A j \in Ids : /\ records'[j].zone = records[j].zone
                          /\ records'[j].amount = records[j].amount
                          /\ j # i => records'[j].status = records[j].status
        /\ records'[i].status = IF result = "ok" THEN "DELEGATION_QUEUE" ELSE "TRANSFER_QUEUE"
    BY <1>2, <1>3, <1>4, SetStatusRecord DEF TransferCallback, Statuses
  <1>6. /\ Landed(transfers, i) <=> result = "ok"
        /\ \A j \in Ids \ {i} : Landed(transfers', j) <=> Landed(transfers, j)
    BY <1>2, <1>3, <1>4 DEF Landed
  <1>7. AccountsTypeOK'
    BY <1>2, <1>3, <1>4 DEF LedgerInv, AccountsTypeOK
  <1>8. TransfersUnderWay'
    BY <1>2, <1>3, <1>5 DEF LedgerInv, TransfersUnderWay
  <1>9. ASSUME NEW y \in Zones PROVE Balanced(y)'
    <2>1. \A j \in Ids \ {i} : SameParts(y, j)
      BY <1>2, <1>5, <1>6, SameRecordSameParts
    <2>2. /\ ReceivedPart(records', transfers', y)[i] = ReceivedPart(records, transfers, y)[i]
          /\ ExecutedPart(records', channel'[y].pkts)[i] = ExecutedPart(records, channel[y].pkts)[i]
      BY <1>2, <1>3, <1>4, <1>5, <1>6 DEF ReceivedPart, Received, ExecutedPart
    <2>3. /\ ReceivedPart(records, transfers, y)[i] \in Nat
          /\ ExecutedPart(records, channel[y].pkts)[i] \in Nat
      BY <1>3, <1>4, PartsType
    <2>4. /\ QueuedPart(records, y)[i] = 0
          /\ QueuedPart(records', y)[i] = IF y = w /\ result # "ok" THEN t.amount ELSE 0
      BY <1>3, <1>4, <1>5 DEF QueuedPart
    <2>5. moduleAcct'[y]
            = IF y = w /\ result # "ok" THEN moduleAcct[y] + t.amount ELSE moduleAcct[y]
      BY <1>2 DEF LedgerInv, AccountsTypeOK
    <2>6. {moduleAcct[y], burned[y], hostAcct[y], delegated[y], zone[y].stakedBal,
           unrecorded[y]} \subseteq Int
      BY DEF LedgerInv, AccountsTypeOK
    <2>7. /\ moduleAcct'[y] + burned'[y] - (moduleAcct[y] + burned[y])
               = QueuedPart(records', y)[i] - QueuedPart(records, y)[i]
          /\ hostAcct'[y] + delegated'[y] - zone'[y].stakedBal
               - (hostAcct[y] + delegated[y] - zone[y].stakedBal)
               = ReceivedPart(records', transfers', y)[i] - ReceivedPart(records, transfers, y)[i]
          /\ delegated'[y] - zone'[y].stakedBal - unrecorded'[y]
               - (delegated[y] - zone[y].stakedBal - unrecorded[y])
               = ExecutedPart(records', channel'[y].pkts)[i]
                   - ExecutedPart(records, channel[y].pkts)[i]
      BY <1>2, <1>3, <2>2, <2>3, <2>4, <2>5, <2>6
    <2> QED
      BY <1>3, <1>4, <1>7, <2>1, <2>7, OneRecordBooked
  <1> QED
    BY <1>1, <1>7, <1>8, <1>9 DEF LedgerInv

\* A step that only re-labels records and packets moves no tokens.
LEMMA NoTokensMoved ==
    ASSUME LedgerInv, IndInv', TransfersUnderWay',
           UNCHANGED <<supply, moduleAcct, hostAcct, delegated, burned, unrecorded>>,
           zone' \in [Zones -> [halted : BOOLEAN, redemptionRate : Nat, stakedBal : Nat]],
           \A y \in Zones : zone'[y].stakedBal = zone[y].stakedBal,
           \A y \in Zones : \A j \in Ids : SameParts(y, j)
    PROVE  LedgerInv'
  <1>1. AccountsTypeOK'
    BY DEF LedgerInv, AccountsTypeOK
  <1>2. \A y \in Zones : Balanced(y)'
    BY NothingBooked
  <1> QED
    BY <1>1, <1>2 DEF LedgerInv

\* The host executes a packet: a delegation moves tokens from the delegation
\* account to the validators.
LEMMA ExecuteICALedger ==
    ASSUME LedgerInv, NEW z \in Zones, NEW p \in channel[z].pkts,
           NEW result \in {"ok", "err"}, ExecuteICA(z, p, result)
    PROVE  LedgerInv'
  <1> DEFINE done == [p EXCEPT !.state = result]
             i == p.msg
  <1>1. IndInv'
    BY ExecuteICAStep DEF LedgerInv
  <1>2. /\ channel' = [channel EXCEPT ![z].pkts = (@ \ {p}) \cup {done}]
        /\ UNCHANGED <<zone, supply, moduleAcct, records, transfers, burned, unrecorded>>
        /\ p.state = "sent"
    BY DEF ExecuteICA, stride
  <1>3. /\ p.msg \in Ids \cup {SetWithdrawAddress} /\ p.amount \in Nat
        /\ done.msg = p.msg /\ done.state = result
    BY DEF LedgerInv, IndInv, RecordsTypeOK, ICAPacket
  <1> HIDE DEF done
  <1>4. /\ \A y \in Zones : y # z => channel'[y].pkts = channel[y].pkts
        /\ channel'[z].pkts = (channel[z].pkts \ {p}) \cup {done}
    BY <1>2 DEF LedgerInv, IndInv, RecordsTypeOK
  <1>5. \A j \in Ids : j # i =>
          \A y \in Zones : Executed(channel'[y].pkts, j) <=> Executed(channel[y].pkts, j)
    BY <1>2, <1>3, <1>4 DEF Executed
  <1>6. TransfersUnderWay'
    BY <1>2 DEF LedgerInv, TransfersUnderWay
  <1>7. CASE i \notin Ids
    <2>1. UNCHANGED <<hostAcct, delegated>>
      BY <1>7 DEF ExecuteICA
    <2>2. \A y \in Zones : \A j \in Ids : SameParts(y, j)
      BY <1>2, <1>5, <1>7, SameRecordSameParts
    <2>3. zone' \in [Zones -> [halted : BOOLEAN, redemptionRate : Nat, stakedBal : Nat]]
      BY <1>2 DEF LedgerInv, AccountsTypeOK
    <2> QED
      BY <1>1, <1>2, <1>6, <2>1, <2>2, <2>3, NoTokensMoved
  <1>8. CASE i \in Ids
    <2>1. /\ records \in [Ids -> Record] /\ records' \in [Ids -> Record]
          /\ records[i].status = "DELEGATION_IN_PROGRESS" /\ records[i].amount = p.amount
          /\ records[i].zone = z
          /\ \A y \in Zones : \A q \in channel[y].pkts : q.msg = i => q = p
      BY <1>1, <1>8 DEF LedgerInv, IndInv, RecordsTypeOK, PacketsMatchRecords
    <2>2. /\ \A y \in Zones : ~Executed(channel[y].pkts, i)
          /\ Executed(channel'[z].pkts, i) <=> result = "ok"
          /\ \A y \in Zones : y # z => ~Executed(channel'[y].pkts, i)
      BY <1>2, <1>3, <1>4, <2>1 DEF Executed
    <2>3. \A y \in Zones :
            /\ hostAcct'[y] = IF y = z /\ result = "ok" THEN hostAcct[y] - p.amount ELSE hostAcct[y]
            /\ delegated'[y] = IF y = z /\ result = "ok" THEN delegated[y] + p.amount
                               ELSE delegated[y]
      BY <1>8 DEF ExecuteICA, LedgerInv, AccountsTypeOK
    <2>4. AccountsTypeOK'
      <3>1. i # SetWithdrawAddress
        BY <1>8, DepositRecordsAssumption
      <3>2. CASE result = "ok"
        <4>1. /\ hostAcct[z] >= p.amount
              /\ hostAcct' = [hostAcct EXCEPT ![z] = @ - p.amount]
              /\ delegated' = [delegated EXCEPT ![z] = @ + p.amount]
          BY <1>8, <3>1, <3>2 DEF ExecuteICA
        <4>2. hostAcct[z] - p.amount \in Nat
          BY <1>3, <4>1 DEF LedgerInv, AccountsTypeOK
        <4> QED
          BY <1>2, <1>3, <4>1, <4>2 DEF LedgerInv, AccountsTypeOK
      <3>3. CASE result # "ok"
        <4>1. UNCHANGED <<hostAcct, delegated>>
          BY <3>3 DEF ExecuteICA
        <4> QED
          BY <1>2, <4>1 DEF LedgerInv, AccountsTypeOK
      <3> QED
        BY <3>2, <3>3
    <2>5. ASSUME NEW y \in Zones PROVE Balanced(y)'
      <3>1. \A j \in Ids \ {i} : SameParts(y, j)
        BY <1>2, <1>5, SameRecordSameParts
      <3>2. /\ QueuedPart(records', y)[i] = QueuedPart(records, y)[i]
            /\ ReceivedPart(records', transfers', y)[i] = ReceivedPart(records, transfers, y)[i]
            /\ QueuedPart(records, y)[i] \in Nat
            /\ ReceivedPart(records, transfers, y)[i] \in Nat
        BY <1>2, <1>8, <2>1, PartsType
      <3>3. /\ ExecutedPart(records, channel[y].pkts)[i] = 0
            /\ ExecutedPart(records', channel'[y].pkts)[i]
                 = IF y = z /\ result = "ok" THEN p.amount ELSE 0
        BY <1>2, <1>8, <2>1, <2>2 DEF ExecutedPart
      <3>4. {moduleAcct[y], burned[y], hostAcct[y], delegated[y], zone[y].stakedBal,
             unrecorded[y]} \subseteq Int
        BY DEF LedgerInv, AccountsTypeOK
      <3>5. /\ moduleAcct'[y] + burned'[y] - (moduleAcct[y] + burned[y])
                 = QueuedPart(records', y)[i] - QueuedPart(records, y)[i]
            /\ hostAcct'[y] + delegated'[y] - zone'[y].stakedBal
                 - (hostAcct[y] + delegated[y] - zone[y].stakedBal)
                 = ReceivedPart(records', transfers', y)[i]
                     - ReceivedPart(records, transfers, y)[i]
            /\ delegated'[y] - zone'[y].stakedBal - unrecorded'[y]
                 - (delegated[y] - zone[y].stakedBal - unrecorded[y])
                 = ExecutedPart(records', channel'[y].pkts)[i]
                     - ExecutedPart(records, channel[y].pkts)[i]
        BY <1>2, <1>3, <2>3, <3>2, <3>3, <3>4
      <3> QED
        BY <1>8, <2>1, <2>4, <3>1, <3>5, OneRecordBooked
    <2> QED
      BY <1>1, <1>6, <2>4, <2>5 DEF LedgerInv
  <1> QED
    BY <1>7, <1>8

\* The acknowledgement of a delegation books it, or queues it again.
LEMMA AckICALedger ==
    ASSUME LedgerInv, NEW z \in Zones, NEW p \in channel[z].pkts, AckICA(z, p)
    PROVE  LedgerInv'
  <1> DEFINE next(q) == [q EXCEPT !.seq = @ - 1]
             i == p.msg
  <1>1. IndInv'
    BY AckICAStep DEF LedgerInv
  <1>2. /\ channel' = [channel EXCEPT ![z].pkts = {next(q) : q \in @ \ {p}}]
        /\ UNCHANGED <<supply, moduleAcct, transfers, hostAcct, delegated, burned, unrecorded>>
        /\ p.state # "sent"
    BY DEF AckICA, host
  <1>3. /\ p.msg \in Ids \cup {SetWithdrawAddress} /\ p.amount \in Nat
        /\ p.state \in PacketStates
        /\ \A q \in channel[z].pkts : next(q).msg = q.msg /\ next(q).state = q.state
    BY DEF LedgerInv, IndInv, RecordsTypeOK, ICAPacket
  <1>4. /\ \A y \in Zones : y # z => channel'[y].pkts = channel[y].pkts
        /\ channel'[z].pkts = {next(q) : q \in channel[z].pkts \ {p}}
    BY <1>2 DEF LedgerInv, IndInv, RecordsTypeOK
  <1> HIDE DEF next
  <1>5. \A j \in Ids : j # i =>
          \A y \in Zones : Executed(channel'[y].pkts, j) <=> Executed(channel[y].pkts, j)
    <2> SUFFICES ASSUME NEW j \in Ids, j # i
                 PROVE  Executed(channel'[z].pkts, j) <=> Executed(channel[z].pkts, j)
      BY <1>4
    <2>1. ASSUME NEW q \in channel[z].pkts, q.msg = j, q.state = "ok"
          PROVE  Executed(channel'[z].pkts, j)
      <3>1. next(q) \in channel'[z].pkts
        BY <1>4, <2>1
      <3> QED
        BY <1>3, <2>1, <3>1 DEF Executed
    <2>2. ASSUME NEW q \in channel'[z].pkts, q.msg = j, q.state = "ok"
          PROVE  Executed(channel[z].pkts, j)
      <3>1. PICK r \in channel[z].pkts : q = next(r)
        BY <1>4
      <3> QED
        BY <1>3, <2>2, <3>1 DEF Executed
    <2> QED
      BY <2>1, <2>2 DEF Executed
  <1>6. CASE i \notin Ids
    <2>1. UNCHANGED <<records, zone>>
      BY <1>3, <1>6 DEF AckICA
    <2>2. \A y \in Zones : \A j \in Ids : SameParts(y, j)
      BY <1>2, <1>5, <1>6, <2>1, SameRecordSameParts
    <2>3. zone' \in [Zones -> [halted : BOOLEAN, redemptionRate : Nat, stakedBal : Nat]]
      BY <2>1 DEF LedgerInv, AccountsTypeOK
    <2>4. TransfersUnderWay'
      BY <1>2, <2>1 DEF LedgerInv, TransfersUnderWay
    <2> QED
      BY <1>1, <1>2, <2>1, <2>2, <2>3, <2>4, NoTokensMoved
  <1>7. CASE i \in Ids
    <2>1. /\ records \in [Ids -> Record] /\ records' \in [Ids -> Record]
          /\ records[i].status = "DELEGATION_IN_PROGRESS" /\ records[i].amount = p.amount
          /\ records[i].zone = z
          /\ \A y \in Zones : \A q \in channel[y].pkts : q.msg = i => q = p /\ y = z
      BY <1>1, <1>7 DEF LedgerInv, IndInv, RecordsTypeOK, PacketsMatchRecords
    <2>2. /\ records' = DelegateCallback(p)
          /\ zone' = [zone EXCEPT ![z].stakedBal = StakedBalAfter(z, p)]
      BY <1>7, DepositRecordsAssumption DEF AckICA
    <2>3. /\ \A j \in Ids \ {i} : /\ records'[j].zone = records[j].zone
                                  /\ records'[j].amount = records[j].amount
                                  /\ records'[j].status = records[j].status
          /\ p.state = "ok" => records'[i].status = "NONE"
          /\ p.state # "ok" => /\ records'[i].status = "DELEGATION_QUEUE"
                               /\ records'[i].zone = z /\ records'[i].amount = p.amount
      <3>1. CASE p.state = "ok"
        BY <1>7, <2>1, <2>2, <3>1 DEF DelegateCallback, Delete, NoRecord
      <3>2. CASE p.state = "err"
        BY <1>7, <2>1, <2>2, <3>2, SetStatusRecord DEF DelegateCallback, Statuses
      <3> QED
        BY <1>2, <1>3, <3>1, <3>2 DEF PacketStates
    <2>4. \A y \in Zones :
            zone'[y] = [zone[y] EXCEPT !.stakedBal =
                          IF y = z /\ p.state = "ok" THEN zone[y].stakedBal + p.amount
                          ELSE zone[y].stakedBal]
      BY <2>2 DEF StakedBalAfter, LedgerInv, AccountsTypeOK
    <2>5. AccountsTypeOK'
      <3>1. StakedBalAfter(z, p) \in Nat
        BY <1>3 DEF StakedBalAfter, LedgerInv, AccountsTypeOK
      <3> QED
        BY <1>2, <2>2, <3>1 DEF LedgerInv, AccountsTypeOK
    <2>6. TransfersUnderWay'
      BY <1>2, <1>7, <2>3 DEF LedgerInv, TransfersUnderWay
    <2>7. /\ \A y \in Zones : Executed(channel[y].pkts, i) <=> y = z /\ p.state = "ok"
          /\ \A y \in Zones : ~Executed(channel'[y].pkts, i)
      <3>1. \A q \in channel'[z].pkts : q.msg # i
        BY <1>3, <1>4, <2>1
      <3> QED
        BY <1>4, <2>1, <3>1 DEF Executed
    <2>8. ASSUME NEW y \in Zones PROVE Balanced(y)'
      <3>1. \A j \in Ids \ {i} : SameParts(y, j)
        BY <1>2, <1>5, <2>3, SameRecordSameParts
      <3>2. /\ QueuedPart(records', y)[i] = 0
            /\ QueuedPart(records, y)[i] = 0
            /\ ReceivedPart(records, transfers, y)[i] = IF y = z THEN p.amount ELSE 0
            /\ ReceivedPart(records', transfers', y)[i]
                 = IF y = z /\ p.state # "ok" THEN p.amount ELSE 0
        BY <1>7, <2>1, <2>3 DEF QueuedPart, ReceivedPart, Received
      <3>3. /\ ExecutedPart(records, channel[y].pkts)[i]
                 = IF y = z /\ p.state = "ok" THEN p.amount ELSE 0
            /\ ExecutedPart(records', channel'[y].pkts)[i] = 0
        BY <1>7, <2>1, <2>7 DEF ExecutedPart
      <3>4. {moduleAcct[y], burned[y], hostAcct[y], delegated[y], zone[y].stakedBal,
             unrecorded[y]} \subseteq Int
        BY DEF LedgerInv, AccountsTypeOK
      <3>5. zone'[y].stakedBal = IF y = z /\ p.state = "ok" THEN zone[y].stakedBal + p.amount
                                 ELSE zone[y].stakedBal
        BY <2>4 DEF LedgerInv, AccountsTypeOK
      <3>6. /\ moduleAcct'[y] + burned'[y] - (moduleAcct[y] + burned[y])
                 = QueuedPart(records', y)[i] - QueuedPart(records, y)[i]
            /\ hostAcct'[y] + delegated'[y] - zone'[y].stakedBal
                 - (hostAcct[y] + delegated[y] - zone[y].stakedBal)
                 = ReceivedPart(records', transfers', y)[i]
                     - ReceivedPart(records, transfers, y)[i]
            /\ delegated'[y] - zone'[y].stakedBal - unrecorded'[y]
                 - (delegated[y] - zone[y].stakedBal - unrecorded[y])
                 = ExecutedPart(records', channel'[y].pkts)[i]
                     - ExecutedPart(records, channel[y].pkts)[i]
        BY <1>2, <1>3, <3>2, <3>3, <3>4, <3>5
      <3> QED
        BY <1>7, <2>1, <2>5, <3>1, <3>6, OneRecordBooked
    <2> QED
      BY <1>1, <2>5, <2>6, <2>8 DEF LedgerInv
  <1> QED
    BY <1>6, <1>7

\* The channel is closed, and what it had executed will never be booked.
LEMMA TimeoutICALedger ==
    ASSUME LedgerInv, NEW z \in Zones, TimeoutICA(z)
    PROVE  LedgerInv'
  <1>1. IndInv'
    BY TimeoutICAStep DEF LedgerInv
  <1>2. /\ channel' = [channel EXCEPT ![z] = [state |-> "CLOSED", pkts |-> {}]]
        /\ UNCHANGED <<zone, supply, moduleAcct, records, transfers, hostAcct, delegated, burned>>
        /\ unrecorded' = [unrecorded EXCEPT ![z] = @ + ExecutedAmount(z)]
    BY DEF TimeoutICA, host, stride
  <1> DEFINE lost == SumFunctionOnSet(ExecutedPart(records, channel[z].pkts), Ids)
  <1>3. records \in [Ids -> Record] /\ IsFiniteSet(Ids)
    BY DepositRecordsAssumption DEF LedgerInv, IndInv, RecordsTypeOK
  <1>4. ExecutedAmount(z) = lost
    BY ExecutedAmountSum DEF LedgerInv
  <1>5. lost \in Nat
    BY <1>3, PartsType
  <1>6. /\ \A y \in Zones : y # z => channel'[y].pkts = channel[y].pkts
        /\ channel'[z].pkts = {}
    BY <1>2 DEF LedgerInv, IndInv, RecordsTypeOK
  <1>7. AccountsTypeOK'
    BY <1>2, <1>4, <1>5 DEF LedgerInv, AccountsTypeOK
  <1>8. TransfersUnderWay'
    BY <1>2 DEF LedgerInv, TransfersUnderWay
  <1>9. ASSUME NEW y \in Zones PROVE Balanced(y)'
    <2>1. CASE y # z
      <3>1. \A j \in Ids : SameParts(y, j)
        BY <1>2, <1>6, <2>1, SameRecordSameParts
      <3>2. unrecorded'[y] = unrecorded[y]
        BY <1>2, <2>1 DEF LedgerInv, AccountsTypeOK
      <3> QED
        BY <1>2, <3>1, <3>2, NothingBooked
    <2>2. CASE y = z
      <3>1. SumFunctionOnSet(ExecutedPart(records', channel'[z].pkts), Ids) = 0
        <4>1. \A i \in Ids : ExecutedPart(records', channel'[z].pkts)[i] = 0
          BY <1>6 DEF ExecutedPart, Executed
        <4> QED
          BY <1>3, <4>1, SumZero
      <3>2. /\ QueuedPart(records', z) = QueuedPart(records, z)
            /\ ReceivedPart(records', transfers', z) = ReceivedPart(records, transfers, z)
        BY <1>2
      <3>3. unrecorded'[z] = unrecorded[z] + lost
        BY <1>2, <1>4 DEF LedgerInv, AccountsTypeOK
      <3>4. Balanced(z)
        BY DEF LedgerInv
      <3>5. /\ moduleAcct'[z] + burned'[z] = SumFunctionOnSet(QueuedPart(records', z), Ids)
            /\ hostAcct'[z] + delegated'[z]
                 = zone'[z].stakedBal + SumFunctionOnSet(ReceivedPart(records', transfers', z), Ids)
        BY <1>2, <3>2, <3>4 DEF Balanced
      <3>6. delegated[z] = zone[z].stakedBal + unrecorded[z] + lost
        BY <3>4 DEF Balanced
      <3> HIDE DEF lost
      <3>7. {delegated[z], zone[z].stakedBal, unrecorded[z]} \subseteq Int
        BY DEF LedgerInv, AccountsTypeOK
      <3>8. delegated'[z] = zone'[z].stakedBal + unrecorded'[z] + 0
        BY <1>2, <1>5, <3>3, <3>6, <3>7
      <3> QED
        BY <2>2, <3>1, <3>5, <3>8 DEF Balanced
    <2> QED
      BY <2>1, <2>2
  <1> QED
    BY <1>1, <1>7, <1>8, <1>9 DEF LedgerInv

\* The records in progress are queued again: their tokens stay where they were.
LEMMA RestoreLedger ==
    ASSUME LedgerInv, NEW z \in Zones, RestoreInterchainAccount(z)
    PROVE  LedgerInv'
  <1>1. IndInv'
    BY RestoreStep DEF LedgerInv
  <1>2. /\ channel' = [channel EXCEPT ![z].state = "INIT"]
        /\ records' = SetStatus(records, RevertedRecords(z), "DELEGATION_QUEUE")
        /\ UNCHANGED <<zone, supply, moduleAcct, transfers, hostAcct, delegated, burned, unrecorded>>
    BY DEF RestoreInterchainAccount, host, stride, ghosts
  <1>3. \A y \in Zones : channel'[y].pkts = channel[y].pkts
    BY <1>2 DEF LedgerInv, IndInv, RecordsTypeOK
  <1>4. records \in [Ids -> Record]
    BY DEF LedgerInv, IndInv, RecordsTypeOK
  <1>5. \A j \in Ids : /\ records'[j].zone = records[j].zone
                       /\ records'[j].amount = records[j].amount
                       /\ \/ records'[j].status = records[j].status
                          \/ /\ records[j].status = "DELEGATION_IN_PROGRESS"
                             /\ records'[j].status = "DELEGATION_QUEUE"
    BY <1>2, <1>4, SetStatusRecord DEF Statuses, RevertedRecords
  <1>6. \A y \in Zones : \A j \in Ids : SameParts(y, j)
    <2> SUFFICES ASSUME NEW y \in Zones, NEW j \in Ids PROVE SameParts(y, j)
      OBVIOUS
    <2>1. Received(records', transfers', j) <=> Received(records, transfers, j)
      BY <1>2, <1>5 DEF Received
    <2>2. /\ records'[j].zone = records[j].zone /\ records'[j].amount = records[j].amount
          /\ records'[j].status = "TRANSFER_QUEUE" <=> records[j].status = "TRANSFER_QUEUE"
      BY <1>5
    <2> QED
      BY <1>3, <2>1, <2>2 DEF SameParts, QueuedPart, ReceivedPart, ExecutedPart
  <1>7. TransfersUnderWay'
    BY <1>2, <1>5 DEF LedgerInv, TransfersUnderWay
  <1>8. zone' \in [Zones -> [halted : BOOLEAN, redemptionRate : Nat, stakedBal : Nat]]
    BY <1>2 DEF LedgerInv, AccountsTypeOK
  <1> QED
    BY <1>1, <1>2, <1>6, <1>7, <1>8, NoTokensMoved

\* Steps that change neither records nor packets: the channel is opened, the
\* zone is halted, or nothing of this happens.
LEMMA QuietLedger ==
    ASSUME LedgerInv, IndInv',
           UNCHANGED <<supply, moduleAcct, records, transfers, hostAcct, delegated, burned,
                       unrecorded>>,
           \A y \in Zones : channel'[y].pkts = channel[y].pkts,
           zone' \in [Zones -> [halted : BOOLEAN, redemptionRate : Nat, stakedBal : Nat]],
           \A y \in Zones : zone'[y].stakedBal = zone[y].stakedBal
    PROVE  LedgerInv'
  <1>1. \A y \in Zones : \A j \in Ids : SameParts(y, j)
    BY SameRecordSameParts
  <1>2. TransfersUnderWay'
    BY DEF LedgerInv, TransfersUnderWay
  <1> QED
    BY <1>1, <1>2, NoTokensMoved

\* The new channel is opened.
LEMMA ChanOpenAckLedger ==
    ASSUME LedgerInv, NEW z \in Zones, ChanOpenAck(z)
    PROVE  LedgerInv'
  <1>1. IndInv'
    BY ChanOpenAckStep DEF LedgerInv
  <1>2. \A y \in Zones : channel'[y].pkts = channel[y].pkts
    BY DEF ChanOpenAck, LedgerInv, IndInv, RecordsTypeOK
  <1>3. UNCHANGED <<zone, supply, moduleAcct, records, transfers, hostAcct, delegated, burned,
                    unrecorded>>
    BY DEF ChanOpenAck, stride, host, ghosts
  <1>4. zone' \in [Zones -> [halted : BOOLEAN, redemptionRate : Nat, stakedBal : Nat]]
    BY <1>3 DEF LedgerInv, AccountsTypeOK
  <1> QED
    BY <1>1, <1>2, <1>3, <1>4, QuietLedger

\* A zone is halted.
LEMMA BeginBlockerLedger ==
    ASSUME LedgerInv, NEW z \in Zones, BeginBlocker(z)
    PROVE  LedgerInv'
  <1>1. UNCHANGED <<supply, moduleAcct, records, transfers, channel, hostAcct, delegated, burned,
                    unrecorded, delegations, lostAcks>>
    BY DEF BeginBlocker, host, ghosts
  <1>2. IndInv'
    BY <1>1, UnchangedStep DEF LedgerInv
  <1>3. /\ zone' \in [Zones -> [halted : BOOLEAN, redemptionRate : Nat, stakedBal : Nat]]
        /\ \A y \in Zones : zone'[y].stakedBal = zone[y].stakedBal
    BY DEF BeginBlocker, LedgerInv, AccountsTypeOK
  <1> QED
    BY <1>1, <1>2, <1>3, QuietLedger

\* At first there is nothing to account for.
LEMMA InitLedger == Init => LedgerInv
  <1> SUFFICES ASSUME Init PROVE LedgerInv
    OBVIOUS
  <1>1. IndInv
    BY InitIndInv
  <1>2. AccountsTypeOK
    BY NewDecNat DEF Init, AccountsTypeOK
  <1> DEFINE slot == CHOOSE s \in Slots(Zones, Ids) : TRUE
  <1>3. records = WithNewRecords([i \in Ids |-> NoRecord], slot)
    BY DEF Init
  <1> HIDE DEF slot
  <1>4. \A i \in Ids : records[i].amount = 0 /\ records[i].status \in {"NONE", "TRANSFER_QUEUE"}
    BY <1>3 DEF WithNewRecords, NewRecord, NoRecord
  <1>5. TransfersUnderWay
    BY <1>4 DEF TransfersUnderWay
  <1>6. ASSUME NEW z \in Zones PROVE Balanced(z)
    <2>1. IsFiniteSet(Ids)
      BY DepositRecordsAssumption
    <2>2. SumFunctionOnSet(QueuedPart(records, z), Ids) = 0
      BY <1>4, <2>1, SumZero DEF QueuedPart
    <2>3. SumFunctionOnSet(ReceivedPart(records, transfers, z), Ids) = 0
      BY <1>4, <2>1, SumZero DEF ReceivedPart
    <2>4. SumFunctionOnSet(ExecutedPart(records, channel[z].pkts), Ids) = 0
      BY <1>4, <2>1, SumZero DEF ExecutedPart
    <2> QED
      BY <2>2, <2>3, <2>4 DEF Balanced, Init
  <1> QED
    BY <1>1, <1>2, <1>5, <1>6 DEF LedgerInv

-----------------------------------------------------------------------------
(* The epoch hook, and the theorems *)

\* What the hook does to the store: recs is the store with the epoch's new
\* records, and paid, empty and staked are the records it handles.
HookBooks(failed, e, recs, paid, staked, empty) ==
    /\ {paid, staked, empty} \subseteq SUBSET Ids
    /\ failed \subseteq paid
    /\ \A i \in Ids :
         \/ /\ recs[i].status = records[i].status /\ recs[i].zone = records[i].zone
            /\ recs[i].amount = records[i].amount
         \/ /\ records[i].status = "NONE"
            /\ recs[i].status = "TRANSFER_QUEUE" /\ recs[i].amount = 0
    /\ \A i \in empty : recs[i].status = "TRANSFER_QUEUE" /\ recs[i].amount = 0
    /\ \A i \in paid : recs[i].status = "TRANSFER_QUEUE" /\ recs[i].amount # 0
    /\ \A i \in staked : recs[i].status = "DELEGATION_QUEUE"
    /\ \A i \in Ids :
         IF i \in empty THEN records'[i] = NoRecord
         ELSE /\ records'[i].zone = recs[i].zone
              /\ records'[i].amount = recs[i].amount
              /\ records'[i].status =
                   IF i \in staked THEN "DELEGATION_IN_PROGRESS"
                   ELSE IF i \in paid \ failed THEN "TRANSFER_IN_PROGRESS"
                   ELSE recs[i].status
    /\ transfers' = transfers \cup
         {[id |-> i, amount |-> recs[i].amount, state |-> "sent"] : i \in paid \ failed}
    /\ zone' = [z \in Zones |->
         IF ~zone[z].halted /\ supply[z] # 0 /\ e % RedemptionRateInterval = 0
         THEN [zone[z] EXCEPT !.redemptionRate = UpdateRedemptionRate(recs, z)]
         ELSE zone[z]]
    /\ moduleAcct' = [z \in Zones |-> moduleAcct[z]
         - TotalAmount(recs, {i \in paid : recs[i].zone = z})]
    /\ burned' = [z \in Zones |-> burned[z]
         + TotalAmount(recs, {i \in failed : recs[i].zone = z})]
    /\ \A z \in Zones : \A i \in Ids :
         Executed(channel'[z].pkts, i) <=> Executed(channel[z].pkts, i)
    /\ UNCHANGED <<supply, hostAcct, delegated, unrecorded>>

\* The hook does that.
LEMMA StrideEpochBooks ==
    ASSUME IndInv, NEW failed \in FailureSets, StrideEpoch(failed)
    PROVE  \E e, paid, staked, empty : \E recs \in [Ids -> Record] :
             HookBooks(failed, e, recs, paid, staked, empty)
  <1> DEFINE slot == CHOOSE s \in Slots(ActiveZones, FreeIds) : TRUE
             e == (epoch + 1) % EpochCycle
             aged == [i \in Ids |-> [records[i] EXCEPT !.fresh = FALSE]]
             recs == CreateDepositRecordsForEpoch(slot)
             ord == order \o NewOrder(slot)
             empty == EmptyRecords(recs, e)
             paid == PaidTransfers(recs, ord, e)
             staked == StakeSubmitted(recs, ord, e)
             sent == paid \ failed
             new(z) == SubmittedPackets(recs, ord, staked, z)
  <1>1. /\ Slots(ActiveZones, FreeIds) # {}
        /\ ProcessDeposits(failed, e, recs, ord, empty, paid, staked)
    BY DEF StrideEpoch
  <1>2. slot \in Slots(ActiveZones, FreeIds)
    BY <1>1
  <1>3. /\ aged \in [Ids -> Record]
        /\ \A i \in Ids : /\ aged[i].status = records[i].status
                          /\ aged[i].zone = records[i].zone
                          /\ aged[i].amount = records[i].amount
    BY DEF IndInv, RecordsTypeOK, Record
  <1>4. recs = WithNewRecords(aged, slot)
    BY DEF CreateDepositRecordsForEpoch
  <1> HIDE DEF slot, aged, recs, e, ord
  <1>5. ASSUME NEW i \in Ids
        PROVE  \/ recs[i] = aged[i]
               \/ /\ records[i].status = "NONE"
                  /\ recs[i].status = "TRANSFER_QUEUE" /\ recs[i].amount = 0
    <2>1. recs[i] = IF \E z \in DOMAIN slot : slot[z] = i
                    THEN NewRecord(CHOOSE z \in DOMAIN slot : slot[z] = i, "TRANSFER_QUEUE", 0)
                    ELSE aged[i]
      BY <1>4 DEF WithNewRecords
    <2>2. DOMAIN slot = ActiveZones /\ slot \in [ActiveZones -> FreeIds]
      BY <1>2 DEF Slots
    <2> QED
      BY <2>1, <2>2 DEF NewRecord, FreeIds, Present
  <1>6. recs \in [Ids -> Record]
    <2>1. ActiveZones \in SUBSET Zones /\ FreeIds \in SUBSET Ids
      BY DEF ActiveZones, FreeIds
    <2> QED
      BY <1>2, <1>3, <1>4, <2>1, NewRecordsType
  <1>8. /\ empty \in SUBSET Ids /\ paid \in SUBSET Ids /\ staked \in SUBSET Ids
        /\ \A i \in empty : recs[i].status = "TRANSFER_QUEUE" /\ recs[i].amount = 0
        /\ \A i \in paid : recs[i].status = "TRANSFER_QUEUE" /\ recs[i].amount # 0
        /\ \A i \in staked : recs[i].status = "DELEGATION_QUEUE"
    BY DEF EmptyRecords, PaidTransfers, TransferDue, StakeSubmitted, StakeDue
  <1> HIDE DEF empty, paid, staked
  <1>9. /\ failed \subseteq paid
        /\ records' = Delete(SetStatus(SetStatus(recs, sent, "TRANSFER_IN_PROGRESS"),
                                       staked, "DELEGATION_IN_PROGRESS"), empty)
        /\ transfers' = transfers \cup
              {[id |-> i, amount |-> recs[i].amount, state |-> "sent"] : i \in sent}
        /\ zone' = [z \in Zones |->
              IF ~zone[z].halted /\ supply[z] # 0 /\ e % RedemptionRateInterval = 0
              THEN [zone[z] EXCEPT !.redemptionRate = UpdateRedemptionRate(recs, z)]
              ELSE zone[z]]
        /\ moduleAcct' = [z \in Zones |-> moduleAcct[z]
              - TotalAmount(recs, {i \in paid : recs[i].zone = z})]
        /\ burned' = [z \in Zones |-> burned[z]
              + TotalAmount(recs, {i \in failed : recs[i].zone = z})]
        /\ UNCHANGED <<supply, hostAcct, delegated, unrecorded>>
    BY <1>1 DEF ProcessDeposits, host
  <1>7. channel' = [z \in Zones |-> [channel[z] EXCEPT !.pkts = @ \cup new(z)]]
    BY <1>1 DEF ProcessDeposits
  <1>10. ASSUME NEW i \in Ids
         PROVE  IF i \in empty THEN records'[i] = NoRecord
                ELSE /\ records'[i].zone = recs[i].zone
                     /\ records'[i].amount = recs[i].amount
                     /\ records'[i].status = IF i \in staked THEN "DELEGATION_IN_PROGRESS"
                          ELSE IF i \in sent THEN "TRANSFER_IN_PROGRESS" ELSE recs[i].status
    <2> DEFINE r1 == SetStatus(recs, sent, "TRANSFER_IN_PROGRESS")
               r2 == SetStatus(r1, staked, "DELEGATION_IN_PROGRESS")
    <2>1. /\ r1 \in [Ids -> Record]
          /\ r1[i].zone = recs[i].zone /\ r1[i].amount = recs[i].amount
          /\ r1[i].status = IF i \in sent THEN "TRANSFER_IN_PROGRESS" ELSE recs[i].status
      BY <1>6, SetStatusRecord DEF Statuses
    <2> HIDE DEF r1
    <2>2. /\ r2 \in [Ids -> Record]
          /\ r2[i].zone = r1[i].zone /\ r2[i].amount = r1[i].amount
          /\ r2[i].status = IF i \in staked THEN "DELEGATION_IN_PROGRESS" ELSE r1[i].status
      BY <2>1, SetStatusRecord DEF Statuses
    <2>3. records' = Delete(r2, empty)
      BY <1>9 DEF r1
    <2> HIDE DEF r2, sent
    <2> QED
      BY <2>1, <2>2, <2>3 DEF Delete
  <1>11. ASSUME NEW z \in Zones, NEW i \in Ids
         PROVE  Executed(channel'[z].pkts, i) <=> Executed(channel[z].pkts, i)
    <2>1. \A p \in new(z) : p.state = "sent"
      BY <1>6, <1>8, SubmittedPacketsType
    <2> HIDE DEF new
    <2>2. channel'[z].pkts = channel[z].pkts \cup new(z)
      BY <1>7 DEF IndInv, RecordsTypeOK
    <2> QED
      BY <2>1, <2>2 DEF Executed
  <1>12. \A i \in Ids :
           \/ /\ recs[i].status = records[i].status /\ recs[i].zone = records[i].zone
              /\ recs[i].amount = records[i].amount
           \/ /\ records[i].status = "NONE"
              /\ recs[i].status = "TRANSFER_QUEUE" /\ recs[i].amount = 0
    BY <1>3, <1>5
  <1>13. HookBooks(failed, e, recs, paid, staked, empty)
    BY <1>8, <1>9, <1>10, <1>11, <1>12 DEF HookBooks
  <1> QED
    BY <1>6, <1>13, Zenon

\* The hook sends what the queue holds, burns what it could not send, and
\* leaves everything else where it was.
LEMMA StrideEpochLedger ==
    ASSUME LedgerInv, NEW failed \in FailureSets, StrideEpoch(failed)
    PROVE  LedgerInv'
  <1>1. IndInv /\ IndInv'
    BY StrideEpochStep DEF LedgerInv
  <1>2. PICK e, paid, staked, empty : \E recs \in [Ids -> Record] :
          HookBooks(failed, e, recs, paid, staked, empty)
    BY <1>1, StrideEpochBooks
  <1>3. PICK recs \in [Ids -> Record] : HookBooks(failed, e, recs, paid, staked, empty)
    BY <1>2
  <1> DEFINE sent == paid \ failed
  <1>4. /\ records \in [Ids -> Record] /\ records' \in [Ids -> Record] /\ IsFiniteSet(Ids)
        /\ paid \in SUBSET Ids /\ staked \in SUBSET Ids /\ empty \in SUBSET Ids
        /\ failed \in SUBSET paid
    BY <1>1, <1>3, DepositRecordsAssumption DEF HookBooks, IndInv, RecordsTypeOK
  <1>5. AccountsTypeOK'
    <2>1. ASSUME NEW z \in Zones, supply[z] # 0 PROVE UpdateRedemptionRate(recs, z) \in Nat
      <3>1. /\ GetUndelegatedBalance(recs, z) \in Nat
            /\ GetModuleAccountBalance(recs, z) \in Nat
        BY TotalAmountNat DEF GetUndelegatedBalance, GetModuleAccountBalance, WithStatus
      <3>2. supply[z] \in Nat \ {0} /\ zone[z].stakedBal \in Nat
        BY <2>1 DEF LedgerInv, AccountsTypeOK
      <3>3. /\ GetUndelegatedBalance(recs, z) + zone[z].stakedBal
                 + GetModuleAccountBalance(recs, z) \in Nat
            /\ NewDecFromInt(supply[z]) \in Nat \ {0}
        BY <3>1, <3>2, NewDecNat
      <3> QED
        BY <3>3, NewDecNat, QuoNat DEF UpdateRedemptionRate
    <2>2. zone' \in [Zones -> [halted : BOOLEAN, redemptionRate : Nat, stakedBal : Nat]]
      BY <1>3, <2>1 DEF HookBooks, LedgerInv, AccountsTypeOK
    <2>3. ASSUME NEW z \in Zones
          PROVE  /\ TotalAmount(recs, {i \in paid : recs[i].zone = z}) \in Nat
                 /\ TotalAmount(recs, {i \in failed : recs[i].zone = z}) \in Nat
      BY <1>4, TotalAmountNat
    <2>4. moduleAcct' \in [Zones -> Int] /\ burned' \in [Zones -> Nat]
      <3>1. /\ moduleAcct' = [z \in Zones |-> moduleAcct[z]
                 - TotalAmount(recs, {i \in paid : recs[i].zone = z})]
            /\ burned' = [z \in Zones |-> burned[z]
                 + TotalAmount(recs, {i \in failed : recs[i].zone = z})]
        BY <1>3 DEF HookBooks
      <3>2. ASSUME NEW z \in Zones PROVE moduleAcct'[z] \in Int /\ burned'[z] \in Nat
        <4>1. moduleAcct[z] \in Int /\ burned[z] \in Nat
          BY DEF LedgerInv, AccountsTypeOK
        <4> QED
          BY <2>3, <3>1, <4>1
      <3>3. /\ moduleAcct' = [z \in Zones |-> moduleAcct'[z]]
            /\ burned' = [z \in Zones |-> burned'[z]]
        BY <3>1
      <3> QED
        BY <3>2, <3>3
    <2> QED
      BY <1>3, <2>2, <2>4 DEF HookBooks, LedgerInv, AccountsTypeOK
  <1>6. /\ \A i \in Ids : Landed(transfers', i) <=> Landed(transfers, i)
        /\ \A i \in sent : \E t \in transfers' : t.id = i
        /\ transfers \subseteq transfers'
    <2>1. transfers' = transfers \cup
            {[id |-> i, amount |-> recs[i].amount, state |-> "sent"] : i \in sent}
      BY <1>3 DEF HookBooks
    <2>2. \A i \in sent : \E t \in transfers' : t.id = i
      <3> SUFFICES ASSUME NEW i \in sent PROVE \E t \in transfers' : t.id = i
        OBVIOUS
      <3>1. [id |-> i, amount |-> recs[i].amount, state |-> "sent"] \in transfers'
        BY <2>1
      <3> QED
        BY <3>1
    <2>3. \A t \in transfers' : t \in transfers \/ t.state = "sent"
      BY <2>1
    <2> QED
      BY <2>1, <2>2, <2>3 DEF Landed
  <1>7. \A i \in Ids :
          \/ /\ recs[i].status = records[i].status /\ recs[i].zone = records[i].zone
             /\ recs[i].amount = records[i].amount
          \/ /\ records[i].status = "NONE"
             /\ recs[i].status = "TRANSFER_QUEUE" /\ recs[i].amount = 0
    BY <1>3 DEF HookBooks
  <1>8. /\ \A i \in empty : recs[i].status = "TRANSFER_QUEUE" /\ recs[i].amount = 0
        /\ \A i \in paid : recs[i].status = "TRANSFER_QUEUE" /\ recs[i].amount # 0
        /\ \A i \in staked : recs[i].status = "DELEGATION_QUEUE"
    BY <1>3 DEF HookBooks
  <1>9. /\ \A i \in empty : records'[i].status = "NONE" /\ records'[i].amount = 0
        /\ \A i \in Ids \ empty :
             /\ records'[i].zone = recs[i].zone
             /\ records'[i].amount = recs[i].amount
             /\ records'[i].status = IF i \in staked THEN "DELEGATION_IN_PROGRESS"
                  ELSE IF i \in sent THEN "TRANSFER_IN_PROGRESS" ELSE recs[i].status
    BY <1>3, <1>4 DEF HookBooks, NoRecord
  <1>10. \A i \in Ids : Landed(transfers, i) => records[i].status = "TRANSFER_IN_PROGRESS"
    BY <1>1 DEF Landed, IndInv, PacketsMatchRecords
  <1>11. \A i \in Ids : \A z \in Zones :
           Executed(channel[z].pkts, i) => records[i].status = "DELEGATION_IN_PROGRESS"
    BY <1>1 DEF Executed, IndInv, PacketsMatchRecords
  <1>12. TransfersUnderWay'
    BY <1>4, <1>6, <1>7, <1>8, <1>9 DEF LedgerInv, TransfersUnderWay
  <1>13. ASSUME NEW z \in Zones PROVE Balanced(z)'
    <2> DEFINE sum(f) == SumFunctionOnSet(f, Ids)
               part(S) == [i \in Ids |-> IF i \in {j \in S : recs[j].zone = z}
                                         THEN recs[i].amount ELSE 0]
               sp == part(sent)
               fp == part(failed)
               pp == part(paid)
               q == QueuedPart(records, z)
               qn == QueuedPart(records', z)
    <2>1. \A i \in Ids : q[i] = qn[i] + sp[i]
      <3> SUFFICES ASSUME NEW i \in Ids PROVE q[i] = qn[i] + sp[i]
        OBVIOUS
      <3>1. recs[i].amount \in Nat /\ records[i].amount \in Nat
        BY <1>4 DEF Record
      <3>2. q[i] = IF recs[i].zone = z /\ recs[i].status = "TRANSFER_QUEUE"
                   THEN recs[i].amount ELSE 0
        BY <1>7 DEF QueuedPart
      <3>3. sp[i] = IF i \in sent /\ recs[i].zone = z THEN recs[i].amount ELSE 0
        OBVIOUS
      <3>4. CASE i \in empty
        <4>1. qn[i] = 0
          BY <1>9, <3>4 DEF QueuedPart
        <4> HIDE DEF q, qn, sp
        <4> QED
          BY <1>8, <3>1, <3>2, <3>3, <3>4, <4>1
      <3>5. CASE i \notin empty
        <4>1. qn[i] = IF recs[i].zone = z /\ recs[i].status = "TRANSFER_QUEUE" /\ i \notin sent
                      THEN recs[i].amount ELSE 0
          BY <1>8, <1>9, <3>5 DEF QueuedPart
        <4> HIDE DEF q, qn, sp
        <4> QED
          BY <1>8, <3>1, <3>2, <3>3, <4>1
      <3> QED
        BY <3>4, <3>5
    <2>2. \A i \in Ids : /\ sp[i] \in Int /\ fp[i] \in Int
                         /\ pp[i] = sp[i] + fp[i]
      BY <1>4 DEF Record
    <2>3. \A i \in Ids : qn[i] \in Nat
      BY <1>4, PartsType
    <2>4. \A i \in Ids : /\ qn[i] \in Int /\ sp[i] \in Int
                         /\ q[i] = qn[i] + sp[i]
      BY <2>1, <2>2, <2>3
    <2>5. /\ TotalAmount(recs, {i \in paid : recs[i].zone = z}) = sum(pp)
          /\ TotalAmount(recs, {i \in failed : recs[i].zone = z}) = sum(fp)
      BY <1>4, TotalAmountSum
    <2>6. moduleAcct'[z] = moduleAcct[z] - sum(pp)
          /\ burned'[z] = burned[z] + sum(fp)
      BY <1>3, <2>5 DEF HookBooks
    <2> HIDE DEF sp, fp, pp, q, qn
    <2>7. sum(pp) = sum(sp) + sum(fp)
      BY <1>4, <2>2, SumPlus
    <2>8. sum(q) = sum(qn) + sum(sp)
      BY <1>4, <2>4, SumPlus
    <2>9. sum(qn) \in Int /\ sum(sp) \in Int /\ sum(fp) \in Int
      BY <1>4, <2>2, <2>4, SumInt
    <2>10. moduleAcct[z] + burned[z] = sum(q) /\ moduleAcct[z] \in Int /\ burned[z] \in Int
      BY DEF LedgerInv, Balanced, AccountsTypeOK, q
    <2>11. moduleAcct'[z] + burned'[z] = sum(qn)
      <3> HIDE DEF sum
      <3> QED
        BY <2>6, <2>7, <2>8, <2>9, <2>10
    <2>12. \A i \in Ids : ReceivedPart(records', transfers', z)[i]
                            = ReceivedPart(records, transfers, z)[i]
      <3> SUFFICES ASSUME NEW i \in Ids
                   PROVE  ReceivedPart(records', transfers', z)[i]
                            = ReceivedPart(records, transfers, z)[i]
        OBVIOUS
      <3>1. Received(records, transfers, i)
              => /\ records'[i].zone = records[i].zone /\ records'[i].amount = records[i].amount
                 /\ Received(records', transfers', i)
        BY <1>6, <1>7, <1>8, <1>9 DEF Received
      <3>2. Received(records', transfers', i) => Received(records, transfers, i)
        BY <1>6, <1>7, <1>8, <1>9, <1>10 DEF Received
      <3> QED
        BY <3>1, <3>2 DEF ReceivedPart
    <2>13. \A i \in Ids : ExecutedPart(records', channel'[z].pkts)[i]
                            = ExecutedPart(records, channel[z].pkts)[i]
      <3>1. \A i \in Ids : Executed(channel'[z].pkts, i) <=> Executed(channel[z].pkts, i)
        BY <1>3 DEF HookBooks
      <3>2. \A i \in Ids : Executed(channel[z].pkts, i) => records'[i].amount = records[i].amount
        BY <1>7, <1>8, <1>9, <1>11
      <3> QED
        BY <3>1, <3>2 DEF ExecutedPart
    <2>14. /\ hostAcct'[z] = hostAcct[z] /\ delegated'[z] = delegated[z]
           /\ unrecorded'[z] = unrecorded[z] /\ zone'[z].stakedBal = zone[z].stakedBal
      BY <1>3 DEF HookBooks, LedgerInv, AccountsTypeOK
    <2>15. sum(ReceivedPart(records', transfers', z)) = sum(ReceivedPart(records, transfers, z))
      BY <1>4, <2>12, SumSame
    <2>16. sum(ExecutedPart(records', channel'[z].pkts))
             = sum(ExecutedPart(records, channel[z].pkts))
      BY <1>4, <2>13, SumSame
    <2> QED
      BY <2>11, <2>14, <2>15, <2>16 DEF Balanced, LedgerInv, qn
  <1> QED
    BY <1>1, <1>5, <1>12, <1>13 DEF LedgerInv

\* One case per handler.
LEMMA NextLedger == LedgerInv /\ [Next]_vars => LedgerInv'
  <1> SUFFICES ASSUME LedgerInv, [Next]_vars PROVE LedgerInv'
    OBVIOUS
  <1>1. ASSUME NEW failed \in FailureSets, StrideEpoch(failed) PROVE LedgerInv'
    BY <1>1, StrideEpochLedger
  <1>2. ASSUME NEW t \in transfers, NEW result \in {"ok", "err"}, TransferRecv(t, result)
        PROVE  LedgerInv'
    BY <1>2, TransferRecvLedger
  <1>3. ASSUME NEW t \in transfers, TransferAck(t) \/ TransferTimeout(t) PROVE LedgerInv'
    <2>1. CASE TransferAck(t)
      BY <2>1, TransferDoneLedger DEF TransferAck
    <2>2. CASE TransferTimeout(t)
      BY <2>2, TransferDoneLedger DEF TransferTimeout
    <2> QED
      BY <1>3, <2>1, <2>2
  <1>4. ASSUME NEW z \in Zones, NEW amount \in StakeAmounts, LiquidStake(z, amount)
        PROVE  LedgerInv'
    BY <1>4, LiquidStakeLedger
  <1>5. ASSUME NEW z \in Zones, NEW amount \in RewardAmounts, ReinvestCallback(z, amount)
        PROVE  LedgerInv'
    BY <1>5, ReinvestLedger
  <1>6. ASSUME NEW z \in Zones, NEW p \in channel[z].pkts, NEW result \in {"ok", "err"},
               ExecuteICA(z, p, result)
        PROVE  LedgerInv'
    BY <1>6, ExecuteICALedger
  <1>7. ASSUME NEW z \in Zones, NEW p \in channel[z].pkts, AckICA(z, p) PROVE LedgerInv'
    BY <1>7, AckICALedger
  <1>8. ASSUME NEW z \in Zones, TimeoutICA(z) PROVE LedgerInv'
    BY <1>8, TimeoutICALedger
  <1>9. ASSUME NEW z \in Zones, RestoreInterchainAccount(z) PROVE LedgerInv'
    BY <1>9, RestoreLedger
  <1>10. ASSUME NEW z \in Zones, ChanOpenAck(z) PROVE LedgerInv'
    BY <1>10, ChanOpenAckLedger
  <1>11. ASSUME NEW z \in Zones, BeginBlocker(z) PROVE LedgerInv'
    BY <1>11, BeginBlockerLedger
  <1>12. CASE UNCHANGED vars
    <2>1. UNCHANGED <<zone, supply, moduleAcct, records, transfers, channel, hostAcct, delegated,
                      burned, unrecorded, delegations, lostAcks>>
      BY <1>12 DEF vars, stride, host, ghosts
    <2>2. IndInv'
      BY <2>1, UnchangedStep DEF LedgerInv
    <2>3. zone' \in [Zones -> [halted : BOOLEAN, redemptionRate : Nat, stakedBal : Nat]]
      BY <2>1 DEF LedgerInv, AccountsTypeOK
    <2> QED
      BY <2>1, <2>2, <2>3, QuietLedger
  <1> QED
    BY <1>1, <1>2, <1>3, <1>4, <1>5, <1>6, <1>7, <1>8, <1>9, <1>10, <1>11, <1>12 DEF Next

\* So the books are balanced in every reachable state.
LEMMA LedgerInvHolds == Spec => []LedgerInv
    BY InitLedger, NextLedger, PTL DEF Spec

\* Whatever is queued for transfer is in the zone's module account, or was
\* burned by TransferKeeper.Transfer for a packet that SendPacket refused.
THEOREM QueueAccountedHolds == Spec => []QueueAccounted
  <1>1. LedgerInv => QueueAccounted
    BY LedgerConsequences
  <1> QED
    BY <1>1, LedgerInvHolds, PTL

\* The tokens UpdateRedemptionRate counts are the tokens there are: no retry,
\* revert, refund or lost acknowledgement creates value or loses it.
THEOREM ValueConservedHolds == Spec => []ValueConserved
  <1>1. LedgerInv => ValueConserved
    BY LedgerConsequences
  <1> QED
    BY <1>1, LedgerInvHolds, PTL

\* StakedBal falls short of the real delegation by exactly what is not yet
\* acknowledged and what a closed channel lost.
THEOREM StakedBalAccountedHolds == Spec => []StakedBalAccounted
  <1>1. LedgerInv => StakedBalAccounted
    BY LedgerConsequences
  <1> QED
    BY <1>1, LedgerInvHolds, PTL

-----------------------------------------------------------------------------
(* The redemption rate.  UpdateRedemptionRate rounds, and so does the mint  *)
(* of stTokens, so that comparing the rate with the exact quotient proves   *)
(* nothing.  What every step keeps is that the tokens counted for a zone    *)
(* are at least what the decimal rounded to the present rate stands for.    *)

\* What record i counts for in the redemption rate of zone z, and all that
\* counts.
CountedPart(recs, z) == [i \in Ids |->
    IF recs[i].zone = z /\ recs[i].status # "NONE" THEN recs[i].amount ELSE 0]

CountedValue(z) == zone[z].stakedBal + SumFunctionOnSet(CountedPart(records, z), Ids)

\* The rate, computed now, would not be lower than it is.
Covered(z) ==
    LeastRoundedTo(zone[z].redemptionRate) * supply[z]
      <= CountedValue(z) * Precision * Precision

RateInv ==
    /\ LedgerInv
    /\ \A z \in Zones : Covered(z)

\* What a step does to the rates.
RateKept == \A z \in Zones : zone'[z].redemptionRate >= zone[z].redemptionRate

LEMMA CountedNat ==
    ASSUME NEW recs \in [Ids -> Record], NEW z
    PROVE  /\ \A i \in Ids : CountedPart(recs, z)[i] \in Nat
           /\ SumFunctionOnSet(CountedPart(recs, z), Ids) \in Nat
  <1>1. \A i \in Ids : CountedPart(recs, z)[i] \in Nat
    BY DEF CountedPart, Record
  <1>2. IsFiniteSet(Ids)
    BY DepositRecordsAssumption
  <1> QED
    BY <1>1, <1>2, SumNat

\* What the invariant says of one zone.
LEMMA ZoneType ==
    ASSUME LedgerInv, NEW z \in Zones
    PROVE  /\ zone[z].redemptionRate \in Nat /\ zone[z].stakedBal \in Nat /\ supply[z] \in Nat
           /\ records \in [Ids -> Record]
           /\ CountedValue(z) \in Nat
  <1>1. zone[z].redemptionRate \in Nat /\ zone[z].stakedBal \in Nat /\ supply[z] \in Nat
    BY DEF LedgerInv, AccountsTypeOK
  <1>2. records \in [Ids -> Record]
    BY DEF LedgerInv, IndInv, RecordsTypeOK
  <1>3. SumFunctionOnSet(CountedPart(records, z), Ids) \in Nat
    BY <1>2, CountedNat
  <1> QED
    BY <1>1, <1>2, <1>3 DEF CountedValue

\* A zone stays covered when the rate is left alone, tokens are added to what
\* one record or StakedBal counts, and no more stTokens are minted for them
\* than the rate allows, ...
LEMMA OneRecordCovered ==
    ASSUME RateInv, LedgerInv', NEW y \in Zones, NEW i \in Ids,
           NEW added \in Nat, NEW minted \in Nat,
           zone'[y].redemptionRate = zone[y].redemptionRate,
           supply'[y] = supply[y] + minted,
           minted * zone[y].redemptionRate <= added * Precision,
           \A j \in Ids \ {i} : CountedPart(records', y)[j] = CountedPart(records, y)[j],
           zone'[y].stakedBal + CountedPart(records', y)[i]
             = zone[y].stakedBal + CountedPart(records, y)[i] + added
    PROVE  Covered(y)'
  <1> DEFINE f == CountedPart(records, y)
             g == CountedPart(records', y)
             sum(h) == SumFunctionOnSet(h, Ids)
  <1>1. /\ zone[y].redemptionRate \in Nat /\ zone[y].stakedBal \in Nat /\ supply[y] \in Nat
        /\ records \in [Ids -> Record] /\ records' \in [Ids -> Record]
        /\ zone'[y].stakedBal \in Nat /\ CountedValue(y) \in Nat
    BY ZoneType DEF RateInv, LedgerInv, IndInv, RecordsTypeOK, AccountsTypeOK
  <1>2. /\ \A j \in Ids : f[j] \in Nat
        /\ \A j \in Ids : g[j] \in Nat
        /\ sum(f) \in Nat
    BY <1>1, CountedNat
  <1>3. CountedValue(y) = zone[y].stakedBal + sum(f)
        /\ CountedValue(y)' = zone'[y].stakedBal + sum(g)
    BY DEF CountedValue
  <1>4. zone'[y].stakedBal + g[i] = zone[y].stakedBal + f[i] + added
    OBVIOUS
  <1>5. \A j \in Ids \ {i} : g[j] = f[j]
    OBVIOUS
  <1> HIDE DEF f, g
  <1>6. sum(g) = sum(f) + g[i] - f[i]
    <2>1. (\A j \in Ids : f[j] \in Int) /\ (\A j \in Ids : g[j] \in Int)
      BY <1>2
    <2> QED
      BY <1>5, <2>1, OneRecordSum
  <1>7. f[i] \in Int /\ g[i] \in Int
    BY <1>2
  <1>8. CountedValue(y)' = CountedValue(y) + added
    <2> DEFINE sg == sum(g)
               sf == sum(f)
               b == zone[y].stakedBal
               bn == zone'[y].stakedBal
    <2>1. /\ CountedValue(y)' = bn + sg /\ CountedValue(y) = b + sf
          /\ sg = sf + g[i] - f[i] /\ bn + g[i] = b + f[i] + added
          /\ {sf, b, bn, f[i], g[i]} \subseteq Int
      BY <1>1, <1>2, <1>3, <1>4, <1>6, <1>7
    <2> HIDE DEF sum, sg, sf, b, bn
    <2>2. bn + sg = (b + sf) + added
      BY <2>1
    <2> QED
      BY <2>1, <2>2
  <1>9. LeastRoundedTo(zone[y].redemptionRate) * supply[y]
          <= CountedValue(y) * Precision * Precision
    BY DEF RateInv, Covered
  <1>10. LeastRoundedTo(zone[y].redemptionRate) * (supply[y] + minted)
           <= (CountedValue(y) + added) * Precision * Precision
    BY <1>1, <1>9, RateCoversMint
  <1> QED
    BY <1>8, <1>10 DEF Covered

\* ... and when nothing changes that counts.
LEMMA SameTokensCovered ==
    ASSUME RateInv, LedgerInv', UNCHANGED supply,
           \A y \in Zones : /\ zone'[y].redemptionRate = zone[y].redemptionRate
                            /\ zone'[y].stakedBal = zone[y].stakedBal,
           \A j \in Ids : /\ records'[j].zone = records[j].zone
                          /\ records'[j].amount = records[j].amount
                          /\ records'[j].status = "NONE" <=> records[j].status = "NONE"
    PROVE  RateInv' /\ RateKept
  <1>1. ASSUME NEW y \in Zones PROVE Covered(y)' /\ zone'[y].redemptionRate >= zone[y].redemptionRate
    <2>1. \A j \in Ids : CountedPart(records', y)[j] = CountedPart(records, y)[j]
      BY DEF CountedPart
    <2>2. IsFiniteSet(Ids)
      BY DepositRecordsAssumption
    <2>3. SumFunctionOnSet(CountedPart(records', y), Ids)
            = SumFunctionOnSet(CountedPart(records, y), Ids)
      BY <2>1, <2>2, SumSame
    <2>4. CountedValue(y)' = CountedValue(y)
      BY <2>3 DEF CountedValue
    <2>5. Covered(y) /\ zone[y].redemptionRate \in Nat
      BY ZoneType DEF RateInv
    <2> QED
      BY <2>4, <2>5 DEF Covered
  <1> QED
    BY <1>1 DEF RateInv, RateKept

\* A user stakes at a rate the safety bounds allow.
LEMMA LiquidStakeRate ==
    ASSUME MaxRedemptionRate < NewDecFromInt(2),
           RateInv, NEW z \in Zones, NEW amount \in StakeAmounts, LiquidStake(z, amount)
    PROVE  RateInv' /\ RateKept
  <1> DEFINE r == zone[z].redemptionRate
             minted == StTokensFor(amount, r)
  <1>1. LedgerInv'
    BY LiquidStakeLedger DEF RateInv
  <1>2. PICK i \in CurrentTransferRecord(z) :
          records' = [records EXCEPT ![i].amount = @ + amount]
    BY DEF LiquidStake
  <1>3. i \in Ids /\ records[i].status = "TRANSFER_QUEUE" /\ records[i].zone = z
    BY DEF CurrentTransferRecord, WithStatus
  <1>4. records \in [Ids -> Record] /\ amount \in Nat
    BY ZoneType, DepositRecordsAssumption DEF RateInv
  <1>5. /\ records'[i].status = records[i].status /\ records'[i].zone = records[i].zone
        /\ records'[i].amount = records[i].amount + amount /\ records[i].amount \in Nat
        /\ \A j \in Ids : j # i => records'[j] = records[j]
    BY <1>2, <1>3, <1>4 DEF Record
  <1>6. UNCHANGED zone /\ supply' = [supply EXCEPT ![z] = @ + minted]
    BY DEF LiquidStake
  <1>7. r \in Nat \ {0} /\ r < NewDecFromInt(2)
    <2>1. /\ r \in Nat /\ r >= MinRedemptionRate /\ r <= MaxRedemptionRate
      BY ZoneType DEF RateInv, LiquidStake, IsRedemptionRateWithinSafetyBounds
    <2>2. MinRedemptionRate \in Nat \ {0} /\ MaxRedemptionRate \in Nat /\ NewDecFromInt(2) \in Nat
      BY DepositRecordsAssumption, NewDecNat
    <2> HIDE DEF r
    <2> QED
      BY <2>1, <2>2
  <1>8. minted \in Nat /\ minted * r <= amount * Precision
    <2>1. minted * r <= amount * Precision
      BY <1>4, <1>7, MintedAtMost DEF StTokensFor
    <2>2. minted \in Nat
      BY <1>4, <1>7, NewDecNat, QuoNat, TruncateNat DEF StTokensFor
    <2> QED
      BY <2>1, <2>2
  <1> HIDE DEF minted
  <1>9. ASSUME NEW y \in Zones PROVE Covered(y)'
    <2>1. \A j \in Ids \ {i} : CountedPart(records', y)[j] = CountedPart(records, y)[j]
      BY <1>5 DEF CountedPart
    <2>2. CASE y = z
      <3>1. CountedPart(records', y)[i] = CountedPart(records, y)[i] + amount
        BY <1>3, <1>5, <2>2 DEF CountedPart
      <3>2. supply'[y] = supply[y] + minted
        BY <1>6, <2>2 DEF RateInv, LedgerInv, AccountsTypeOK
      <3>3. CountedPart(records, y)[i] \in Nat /\ zone[y].stakedBal \in Nat
        BY <1>3, <1>4, CountedNat, ZoneType DEF RateInv
      <3>4. zone'[y].stakedBal + CountedPart(records', y)[i]
              = zone[y].stakedBal + CountedPart(records, y)[i] + amount
        BY <1>4, <1>6, <3>1, <3>3
      <3> QED
        BY <1>1, <1>3, <1>4, <1>6, <1>8, <2>1, <2>2, <3>2, <3>4, OneRecordCovered
    <2>3. CASE y # z
      <3>1. CountedPart(records', y)[i] = CountedPart(records, y)[i]
        BY <1>3, <1>5, <2>3 DEF CountedPart
      <3>2. supply'[y] = supply[y] /\ supply[y] \in Nat /\ zone[y].redemptionRate \in Nat
        BY <1>6, <2>3, ZoneType DEF RateInv, LedgerInv, AccountsTypeOK
      <3>3. CountedPart(records, y)[i] \in Nat /\ zone[y].stakedBal \in Nat
        BY <1>3, <1>4, CountedNat, ZoneType DEF RateInv
      <3>4. /\ supply'[y] = supply[y] + 0
            /\ 0 * zone[y].redemptionRate <= 0 * Precision
            /\ zone'[y].stakedBal + CountedPart(records', y)[i]
                 = zone[y].stakedBal + CountedPart(records, y)[i] + 0
        BY <1>6, <3>1, <3>2, <3>3, PrecisionAssumption
      <3> QED
        BY <1>1, <1>3, <1>6, <2>1, <3>4, OneRecordCovered
    <2> QED
      BY <2>2, <2>3
  <1>10. RateKept
    BY <1>6, ZoneType DEF RateKept, RateInv
  <1> QED
    BY <1>1, <1>9, <1>10 DEF RateInv

\* A reward adds to what is counted.
LEMMA ReinvestRate ==
    ASSUME RateInv, NEW z \in Zones, NEW amount \in RewardAmounts, ReinvestCallback(z, amount)
    PROVE  RateInv' /\ RateKept
  <1> DEFINE i == CHOOSE j \in FreeIds : TRUE
  <1>1. LedgerInv'
    BY ReinvestLedger DEF RateInv
  <1>2. /\ i \in FreeIds
        /\ records' = [records EXCEPT ![i] = NewRecord(z, "DELEGATION_QUEUE", amount)]
    BY DEF ReinvestCallback
  <1>3. i \in Ids /\ records[i].status = "NONE"
    BY <1>2 DEF FreeIds, Present
  <1> HIDE DEF i
  <1>4. records \in [Ids -> Record] /\ amount \in Nat
    BY ZoneType, DepositRecordsAssumption DEF RateInv
  <1>5. /\ records'[i].status = "DELEGATION_QUEUE" /\ records'[i].zone = z
        /\ records'[i].amount = amount
        /\ \A j \in Ids : j # i => records'[j] = records[j]
    BY <1>2, <1>3, <1>4 DEF NewRecord
  <1>6. UNCHANGED <<zone, supply>>
    BY DEF ReinvestCallback
  <1>7. ASSUME NEW y \in Zones PROVE Covered(y)'
    <2> DEFINE added == IF y = z THEN amount ELSE 0
    <2>1. \A j \in Ids \ {i} : CountedPart(records', y)[j] = CountedPart(records, y)[j]
      BY <1>5 DEF CountedPart
    <2>2. CountedPart(records', y)[i] = added /\ CountedPart(records, y)[i] = 0
      BY <1>3, <1>5 DEF CountedPart
    <2>3. added \in Nat
      BY <1>4
    <2> HIDE DEF added
    <2>4. /\ supply[y] \in Nat /\ zone[y].redemptionRate \in Nat /\ zone[y].stakedBal \in Nat
      BY ZoneType DEF RateInv
    <2>5. added * Precision \in Nat
      BY <2>3, PrecisionAssumption
    <2>6. /\ supply'[y] = supply[y] + 0
          /\ 0 * zone[y].redemptionRate <= added * Precision
          /\ zone'[y].stakedBal + CountedPart(records', y)[i]
               = zone[y].stakedBal + CountedPart(records, y)[i] + added
      BY <1>6, <2>2, <2>3, <2>4, <2>5
    <2> QED
      BY <1>1, <1>3, <1>6, <2>1, <2>3, <2>6, OneRecordCovered
  <1>8. RateKept
    BY <1>6, ZoneType DEF RateKept, RateInv
  <1> QED
    BY <1>1, <1>7, <1>8 DEF RateInv

\* A delegation that is acknowledged moves its amount from the record to
\* StakedBal.
LEMMA AckICARate ==
    ASSUME RateInv, NEW z \in Zones, NEW p \in channel[z].pkts, AckICA(z, p)
    PROVE  RateInv' /\ RateKept
  <1> DEFINE i == p.msg
  <1>1. LedgerInv' /\ UNCHANGED supply
    BY AckICALedger DEF RateInv, AckICA
  <1>2. /\ i \in Ids \cup {SetWithdrawAddress} /\ p.amount \in Nat
        /\ p.state \in {"ok", "err"}
    BY DEF RateInv, LedgerInv, IndInv, RecordsTypeOK, ICAPacket, PacketStates, AckICA
  <1>3. CASE i \notin Ids
    <2>1. UNCHANGED <<records, zone>>
      BY <1>2, <1>3 DEF AckICA
    <2> QED
      BY <1>1, <2>1, SameTokensCovered
  <1>4. CASE i \in Ids
    <2>1. /\ records \in [Ids -> Record]
          /\ records[i].status = "DELEGATION_IN_PROGRESS" /\ records[i].amount = p.amount
          /\ records[i].zone = z
      BY <1>4 DEF RateInv, LedgerInv, IndInv, RecordsTypeOK, PacketsMatchRecords
    <2>2. /\ records' = DelegateCallback(p)
          /\ zone' = [zone EXCEPT ![z].stakedBal = StakedBalAfter(z, p)]
      BY <1>4, DepositRecordsAssumption DEF AckICA
    <2>3. ASSUME NEW y \in Zones
          PROVE  /\ zone'[y].redemptionRate = zone[y].redemptionRate
                 /\ zone'[y].stakedBal = IF y = z THEN StakedBalAfter(z, p) ELSE zone[y].stakedBal
      BY <2>2 DEF RateInv, LedgerInv, AccountsTypeOK
    <2>4. CASE p.state = "err"
      <3>1. \A j \in Ids : /\ records'[j].zone = records[j].zone
                           /\ records'[j].amount = records[j].amount
                           /\ records'[j].status = "NONE" <=> records[j].status = "NONE"
        BY <2>1, <2>2, <2>4, SetStatusRecord DEF DelegateCallback, Statuses
      <3>2. \A y \in Zones : zone'[y].stakedBal = zone[y].stakedBal
        BY <2>3, <2>4 DEF StakedBalAfter
      <3> QED
        BY <1>1, <2>3, <3>1, <3>2, SameTokensCovered
    <2>5. CASE p.state = "ok"
      <3>1. /\ records'[i].status = "NONE"
            /\ \A j \in Ids \ {i} : records'[j] = records[j]
        BY <1>4, <2>1, <2>2, <2>5 DEF DelegateCallback, Delete, NoRecord
      <3>2. ASSUME NEW y \in Zones PROVE Covered(y)'
        <4>1. \A j \in Ids \ {i} : CountedPart(records', y)[j] = CountedPart(records, y)[j]
          BY <3>1 DEF CountedPart
        <4>2. /\ CountedPart(records', y)[i] = 0
              /\ CountedPart(records, y)[i] = IF y = z THEN p.amount ELSE 0
          BY <1>4, <2>1, <3>1 DEF CountedPart
        <4>3. zone'[y].stakedBal = IF y = z THEN zone[y].stakedBal + p.amount ELSE zone[y].stakedBal
          BY <2>3, <2>5 DEF StakedBalAfter
        <4>4. supply[y] \in Nat /\ zone[y].redemptionRate \in Nat /\ zone[y].stakedBal \in Nat
          BY ZoneType DEF RateInv
        <4>5. /\ supply'[y] = supply[y] + 0
              /\ 0 * zone[y].redemptionRate <= 0 * Precision
              /\ zone'[y].stakedBal + CountedPart(records', y)[i]
                   = zone[y].stakedBal + CountedPart(records, y)[i] + 0
          BY <1>1, <1>2, <4>2, <4>3, <4>4, PrecisionAssumption
        <4> QED
          BY <1>1, <1>4, <2>3, <4>1, <4>5, OneRecordCovered
      <3>3. RateKept
        BY <2>3, ZoneType DEF RateKept, RateInv
      <3> QED
        BY <1>1, <3>2, <3>3 DEF RateInv
    <2> QED
      BY <1>2, <2>4, <2>5
  <1> QED
    BY <1>3, <1>4

\* What UpdateRedemptionRate divides is all that counts.
LEMMA UpdatedRate ==
    ASSUME LedgerInv, NEW z \in Zones, NEW recs \in [Ids -> Record],
           \A i \in Ids : CountedPart(recs, z)[i] = CountedPart(records, z)[i]
    PROVE  UpdateRedemptionRate(recs, z)
             = Quo(NewDecFromInt(CountedValue(z)), NewDecFromInt(supply[z]))
  <1> DEFINE U == WithStatus(recs, z, {"DELEGATION_QUEUE", "DELEGATION_IN_PROGRESS"})
             M == WithStatus(recs, z, {"TRANSFER_QUEUE", "TRANSFER_IN_PROGRESS"})
             u == [i \in Ids |-> IF i \in U THEN recs[i].amount ELSE 0]
             m == [i \in Ids |-> IF i \in M THEN recs[i].amount ELSE 0]
             c == CountedPart(recs, z)
             sum(f) == SumFunctionOnSet(f, Ids)
  <1>1. IsFiniteSet(Ids)
    BY DepositRecordsAssumption
  <1>2. U \in SUBSET Ids /\ M \in SUBSET Ids
    BY DEF WithStatus
  <1>3. \A i \in Ids : u[i] \in Int /\ m[i] \in Int /\ c[i] = u[i] + m[i]
    <2> SUFFICES ASSUME NEW i \in Ids
                 PROVE  u[i] \in Int /\ m[i] \in Int /\ c[i] = u[i] + m[i]
      OBVIOUS
    <2>1. recs[i].amount \in Int /\ recs[i].status \in Statuses
      BY DEF Record
    <2>2. /\ u[i] = IF recs[i].zone = z
                         /\ recs[i].status \in {"DELEGATION_QUEUE", "DELEGATION_IN_PROGRESS"}
                    THEN recs[i].amount ELSE 0
          /\ m[i] = IF recs[i].zone = z
                         /\ recs[i].status \in {"TRANSFER_QUEUE", "TRANSFER_IN_PROGRESS"}
                    THEN recs[i].amount ELSE 0
          /\ c[i] = IF recs[i].zone = z /\ recs[i].status # "NONE" THEN recs[i].amount ELSE 0
      BY DEF WithStatus, CountedPart
    <2> HIDE DEF u, m, c
    <2> QED
      BY <2>1, <2>2 DEF Statuses
  <1>4. /\ \A i \in Ids : u[i] = IF i \in U THEN recs[i].amount ELSE 0
        /\ \A i \in Ids : m[i] = IF i \in M THEN recs[i].amount ELSE 0
    OBVIOUS
  <1>5. /\ GetUndelegatedBalance(recs, z) = TotalAmount(recs, U)
        /\ GetModuleAccountBalance(recs, z) = TotalAmount(recs, M)
    BY DEF GetUndelegatedBalance, GetModuleAccountBalance
  <1>6. sum(c) = sum(CountedPart(records, z))
    BY <1>1, SumSame
  <1> HIDE DEF U, M, u, m, c
  <1>7. TotalAmount(recs, U) = sum(u) /\ TotalAmount(recs, M) = sum(m)
    BY <1>2, <1>4, TotalAmountSum
  <1>8. sum(c) = sum(u) + sum(m)
    BY <1>1, <1>3, SumPlus
  <1>9. sum(u) \in Int /\ sum(m) \in Int
    BY <1>1, <1>3, SumInt
  <1>10. zone[z].stakedBal \in Int
    BY ZoneType
  <1>11. CountedValue(z) = zone[z].stakedBal + sum(c)
    BY <1>6 DEF CountedValue
  <1> HIDE DEF sum
  <1>12. GetUndelegatedBalance(recs, z) + zone[z].stakedBal + GetModuleAccountBalance(recs, z)
           = CountedValue(z)
    BY <1>5, <1>7, <1>8, <1>9, <1>10, <1>11
  <1> QED
    BY <1>12 DEF UpdateRedemptionRate

\* The hook moves records from queue to queue and computes the rate anew:
\* since the zone is covered, the new rate is not lower.
LEMMA StrideEpochRate ==
    ASSUME RateInv, NEW failed \in FailureSets, StrideEpoch(failed)
    PROVE  RateInv' /\ RateKept
  <1>1. LedgerInv' /\ LedgerInv /\ IndInv
    BY StrideEpochLedger DEF RateInv, LedgerInv
  <1>2. PICK e, paid, staked, empty : \E recs \in [Ids -> Record] :
          HookBooks(failed, e, recs, paid, staked, empty)
    BY <1>1, StrideEpochBooks
  <1>3. PICK recs \in [Ids -> Record] : HookBooks(failed, e, recs, paid, staked, empty)
    BY <1>2
  <1>4. ASSUME NEW z \in Zones, NEW i \in Ids
        PROVE  /\ CountedPart(recs, z)[i] = CountedPart(records, z)[i]
               /\ CountedPart(records', z)[i] = CountedPart(records, z)[i]
    <2>1. \/ /\ recs[i].status = records[i].status /\ recs[i].zone = records[i].zone
             /\ recs[i].amount = records[i].amount
          \/ /\ records[i].status = "NONE"
             /\ recs[i].status = "TRANSFER_QUEUE" /\ recs[i].amount = 0
      BY <1>3 DEF HookBooks
    <2>2. CountedPart(recs, z)[i] = CountedPart(records, z)[i]
      BY <2>1 DEF CountedPart
    <2>3. CountedPart(records', z)[i] = CountedPart(recs, z)[i]
      <3>1. CASE i \in empty
        <4>1. recs[i].amount = 0 /\ records'[i] = NoRecord
          BY <1>3, <3>1 DEF HookBooks
        <4> QED
          BY <4>1 DEF CountedPart, NoRecord
      <3>2. CASE i \notin empty
        <4>1. /\ records'[i].zone = recs[i].zone /\ records'[i].amount = recs[i].amount
              /\ records'[i].status = IF i \in staked THEN "DELEGATION_IN_PROGRESS"
                   ELSE IF i \in paid \ failed THEN "TRANSFER_IN_PROGRESS"
                   ELSE recs[i].status
          BY <1>3, <3>2 DEF HookBooks
        <4>2. (i \in staked \/ i \in paid) => recs[i].status # "NONE"
          BY <1>3 DEF HookBooks
        <4> QED
          BY <4>1, <4>2 DEF CountedPart
      <3> QED
        BY <3>1, <3>2
    <2> QED
      BY <2>2, <2>3
  <1>5. ASSUME NEW z \in Zones
        PROVE  Covered(z)' /\ zone'[z].redemptionRate >= zone[z].redemptionRate
    <2> DEFINE v == CountedValue(z)
               r == zone[z].redemptionRate
    <2>1. r \in Nat /\ zone[z].stakedBal \in Nat /\ supply[z] \in Nat /\ v \in Nat
      BY <1>1, ZoneType
    <2>2. /\ supply'[z] = supply[z] /\ zone'[z].stakedBal = zone[z].stakedBal
          /\ \/ zone'[z].redemptionRate = r
             \/ supply[z] # 0 /\ zone'[z].redemptionRate = UpdateRedemptionRate(recs, z)
      BY <1>1, <1>3 DEF HookBooks, AccountsTypeOK, LedgerInv
    <2>3. CountedValue(z)' = v
      <3>1. IsFiniteSet(Ids)
        BY DepositRecordsAssumption
      <3>2. SumFunctionOnSet(CountedPart(records', z), Ids)
              = SumFunctionOnSet(CountedPart(records, z), Ids)
        BY <1>4, <3>1, SumSame
      <3> QED
        BY <2>2, <3>2 DEF CountedValue
    <2>4. LeastRoundedTo(r) * supply[z] <= v * Precision * Precision
      BY DEF RateInv, Covered
    <2>5. CASE zone'[z].redemptionRate = r
      BY <2>1, <2>2, <2>3, <2>4, <2>5 DEF Covered
    <2>6. CASE supply[z] # 0 /\ zone'[z].redemptionRate = UpdateRedemptionRate(recs, z)
      <3> DEFINE rate == Quo(NewDecFromInt(v), NewDecFromInt(supply[z]))
      <3>1. zone'[z].redemptionRate = rate
        BY <1>1, <1>4, <2>6, UpdatedRate
      <3>2. supply[z] \in Nat \ {0}
        BY <2>1, <2>6
      <3>3. rate \in Nat
        BY <2>1, <3>2, NewDecNat, QuoNat
      <3>4. /\ LeastRoundedTo(rate) * supply[z] <= v * Precision * Precision
            /\ r <= rate
        BY <2>1, <2>4, <3>2, RateAtLeast
      <3> HIDE DEF rate, r, v
      <3>5. rate >= r
        BY <2>1, <3>3, <3>4
      <3> QED
        BY <2>2, <2>3, <3>1, <3>4, <3>5 DEF Covered, r
    <2> QED
      BY <2>2, <2>5, <2>6
  <1> QED
    BY <1>1, <1>5 DEF RateInv, RateKept

\* The other steps leave alone what is counted.
LEMMA QuietRate ==
    ASSUME RateInv, LedgerInv',
           UNCHANGED <<supply, records>>,
           \A y \in Zones : /\ zone'[y].redemptionRate = zone[y].redemptionRate
                            /\ zone'[y].stakedBal = zone[y].stakedBal
    PROVE  RateInv' /\ RateKept
    BY SameTokensCovered

LEMMA InitRate == Init => RateInv
  <1> SUFFICES ASSUME Init PROVE RateInv
    OBVIOUS
  <1>1. LedgerInv
    BY InitLedger
  <1>2. ASSUME NEW z \in Zones PROVE Covered(z)
    <2> DEFINE l == LeastRoundedTo(zone[z].redemptionRate)
               v == CountedValue(z)
    <2>1. zone[z].redemptionRate \in Nat /\ v \in Nat
      BY <1>1, ZoneType
    <2>2. l \in Int
      BY <2>1, PrecisionAssumption DEF LeastRoundedTo
    <2>3. supply[z] = 0
      BY DEF Init
    <2> HIDE DEF l, v
    <2>4. l * 0 = 0 /\ v * Precision * Precision \in Nat
      BY <2>1, <2>2, PrecisionAssumption
    <2>5. l * supply[z] <= v * Precision * Precision
      BY <2>3, <2>4
    <2> QED
      BY <2>5 DEF Covered, l, v
  <1> QED
    BY <1>1, <1>2 DEF RateInv

\* One case per handler.
LEMMA NextRate ==
    ASSUME MaxRedemptionRate < NewDecFromInt(2)
    PROVE  RateInv /\ [Next]_vars => RateInv' /\ RateKept
  <1> SUFFICES ASSUME RateInv, [Next]_vars PROVE RateInv' /\ RateKept
    OBVIOUS
  <1>0. LedgerInv' /\ records \in [Ids -> Record]
    BY NextLedger DEF RateInv, LedgerInv, IndInv, RecordsTypeOK
  <1>1. ASSUME NEW failed \in FailureSets, StrideEpoch(failed) PROVE RateInv' /\ RateKept
    BY <1>1, StrideEpochRate
  <1>2. ASSUME NEW t \in transfers, NEW result \in {"ok", "err"}, TransferRecv(t, result)
        PROVE  RateInv' /\ RateKept
    BY <1>0, <1>2, QuietRate DEF TransferRecv, stride
  <1>3. ASSUME NEW t \in transfers, TransferAck(t) \/ TransferTimeout(t)
        PROVE  RateInv' /\ RateKept
    <2>1. PICK result : TransferDone(t, result)
      BY <1>3 DEF TransferAck, TransferTimeout
    <2>2. /\ records' = TransferCallback(t.id, result) /\ records[t.id].status # "NONE"
          /\ UNCHANGED <<zone, supply>>
      BY <2>1 DEF TransferDone
    <2>3. \A j \in Ids : /\ records'[j].zone = records[j].zone
                         /\ records'[j].amount = records[j].amount
                         /\ records'[j].status = "NONE" <=> records[j].status = "NONE"
      BY <1>0, <2>2, SetStatusRecord DEF TransferCallback, Statuses
    <2> QED
      BY <1>0, <2>2, <2>3, SameTokensCovered
  <1>4. ASSUME NEW z \in Zones, NEW amount \in StakeAmounts, LiquidStake(z, amount)
        PROVE  RateInv' /\ RateKept
    BY <1>4, LiquidStakeRate
  <1>5. ASSUME NEW z \in Zones, NEW amount \in RewardAmounts, ReinvestCallback(z, amount)
        PROVE  RateInv' /\ RateKept
    BY <1>5, ReinvestRate
  <1>6. ASSUME NEW z \in Zones, NEW p \in channel[z].pkts, NEW result \in {"ok", "err"},
               ExecuteICA(z, p, result)
        PROVE  RateInv' /\ RateKept
    BY <1>0, <1>6, QuietRate DEF ExecuteICA, stride
  <1>7. ASSUME NEW z \in Zones, NEW p \in channel[z].pkts, AckICA(z, p)
        PROVE  RateInv' /\ RateKept
    BY <1>7, AckICARate
  <1>8. ASSUME NEW z \in Zones, TimeoutICA(z) PROVE RateInv' /\ RateKept
    BY <1>0, <1>8, QuietRate DEF TimeoutICA, stride
  <1>9. ASSUME NEW z \in Zones, RestoreInterchainAccount(z) PROVE RateInv' /\ RateKept
    <2>1. /\ records' = SetStatus(records, RevertedRecords(z), "DELEGATION_QUEUE")
          /\ UNCHANGED <<zone, supply>>
      BY <1>9 DEF RestoreInterchainAccount, stride
    <2>2. \A j \in Ids : /\ records'[j].zone = records[j].zone
                         /\ records'[j].amount = records[j].amount
                         /\ records'[j].status = "NONE" <=> records[j].status = "NONE"
      BY <1>0, <2>1, SetStatusRecord DEF RevertedRecords, Statuses
    <2> QED
      BY <1>0, <2>1, <2>2, SameTokensCovered
  <1>10. ASSUME NEW z \in Zones, ChanOpenAck(z) PROVE RateInv' /\ RateKept
    BY <1>0, <1>10, QuietRate DEF ChanOpenAck, stride
  <1>11. ASSUME NEW z \in Zones, BeginBlocker(z) PROVE RateInv' /\ RateKept
    <2>1. /\ zone' = [zone EXCEPT ![z].halted = TRUE]
          /\ UNCHANGED <<supply, records>>
      BY <1>11 DEF BeginBlocker
    <2>2. \A y \in Zones : /\ zone'[y].redemptionRate = zone[y].redemptionRate
                           /\ zone'[y].stakedBal = zone[y].stakedBal
      BY <2>1 DEF RateInv, LedgerInv, AccountsTypeOK
    <2> QED
      BY <1>0, <2>1, <2>2, QuietRate
  <1>12. CASE UNCHANGED vars
    BY <1>0, <1>12, QuietRate DEF vars, stride
  <1> QED
    BY <1>1, <1>2, <1>3, <1>4, <1>5, <1>6, <1>7, <1>8, <1>9, <1>10, <1>11, <1>12 DEF Next

\* No step lowers the rate, as long as LiquidStake is refused at a rate of two,
\* as it is with the default safety bound of 1.5 (types/params.go:25).  Above
\* two the property is false: with decimals of one digit, 33 tokens for 16
\* stTokens are a rate of 2.1, at which a stake of 2 mints one stToken (2 / 2.1
\* is rounded up to 1.0), and 35 / 17 is a rate of 2.0.
THEOREM RedemptionRateNeverFallsHolds ==
    ASSUME MaxRedemptionRate < NewDecFromInt(2)
    PROVE  Spec => RedemptionRateNeverFalls
  <1>1. Init => RateInv
    BY InitRate
  <1>2. RateInv /\ [Next]_vars => RateInv'
    BY NextRate
  <1>3. RateInv /\ [Next]_vars
          => [\A z \in Zones : zone'[z].redemptionRate >= zone[z].redemptionRate]_vars
    BY NextRate DEF RateKept
  <1> QED
    BY <1>1, <1>2, <1>3, PTL DEF Spec, RedemptionRateNeverFalls

-----------------------------------------------------------------------------
(* Lists that meet every element of a set once *)

\* Of finitely many elements with different values, as many are below each as
\* its place tells, and there is one at every place.
Place(f, S, i) == Cardinality({j \in S : f[j] < f[i]})

LEMMA Places ==
    ASSUME NEW S, IsFiniteSet(S), NEW f \in [S -> Int], \A i, j \in S : f[i] = f[j] => i = j
    PROVE  /\ \A i \in S : Place(f, S, i) \in 0..Cardinality(S) - 1
           /\ \A i, j \in S : f[i] < f[j] => Place(f, S, i) < Place(f, S, j)
           /\ \A r \in 0..Cardinality(S) - 1 : \E i \in S : Place(f, S, i) = r
  <1> DEFINE n == Cardinality(S)
             below(i) == {j \in S : f[j] < f[i]}
             g == [i \in S |-> Place(f, S, i)]
  <1>1. n \in Nat
    BY FS_CardinalityType
  <1>2. ASSUME NEW i \in S
        PROVE  IsFiniteSet(below(i)) /\ Place(f, S, i) \in Nat /\ Place(f, S, i) < n
    <2>1. IsFiniteSet(below(i)) /\ Cardinality(below(i)) <= n /\ Cardinality(below(i)) # n
      <3>1. below(i) \in SUBSET S /\ below(i) # S
        BY i \notin below(i)
      <3> HIDE DEF below
      <3> QED
        BY <3>1, FS_Subset
    <2>2. Cardinality(below(i)) \in Nat
      BY <2>1, FS_CardinalityType
    <2>3. Place(f, S, i) = Cardinality(below(i))
      BY DEF Place
    <2> HIDE DEF below, n
    <2> QED
      BY <1>1, <2>1, <2>2, <2>3
  <1>3. ASSUME NEW i \in S, NEW j \in S, f[i] < f[j]
        PROVE  Place(f, S, i) < Place(f, S, j)
    <2>1. below(i) \in SUBSET below(j) /\ i \in below(j) /\ i \notin below(i)
      BY <1>3
    <2>2. IsFiniteSet(below(j)) /\ IsFiniteSet(below(i))
      BY <1>2
    <2>3. Place(f, S, i) = Cardinality(below(i)) /\ Place(f, S, j) = Cardinality(below(j))
      BY DEF Place
    <2> HIDE DEF below
    <2>4. Cardinality(below(i)) <= Cardinality(below(j)) /\ Cardinality(below(i)) # Cardinality(below(j))
      BY <2>1, <2>2, FS_Subset
    <2>5. Cardinality(below(i)) \in Nat /\ Cardinality(below(j)) \in Nat
      BY <2>2, FS_CardinalityType
    <2> QED
      BY <2>3, <2>4, <2>5
  <1>4. \A i \in S : Place(f, S, i) \in 0..n - 1
    <2>1. \A i \in S : Place(f, S, i) \in Nat /\ Place(f, S, i) < n
      BY <1>2
    <2> HIDE DEF n
    <2> QED
      BY <1>1, <2>1
  <1>5. g \in Injection(S, 0..n - 1)
    <2>1. g \in [S -> 0..n - 1]
      BY <1>4
    <2>2. ASSUME NEW i \in S, NEW j \in S, g[i] = g[j] PROVE i = j
      <3>1. Place(f, S, i) = Place(f, S, j) /\ Place(f, S, i) \in Nat
        BY <1>2, <2>2
      <3>2. f[i] \in Int /\ f[j] \in Int
        OBVIOUS
      <3>3. ~(f[i] < f[j]) /\ ~(f[j] < f[i])
        <4>1. ~(Place(f, S, i) < Place(f, S, j)) /\ ~(Place(f, S, j) < Place(f, S, i))
          BY <3>1
        <4> QED
          BY <1>3, <4>1
      <3> QED
        BY <3>2, <3>3
    <2> HIDE DEF g
    <2> QED
      BY <2>1, <2>2 DEF Injection, IsInjective
  <1>6. IsFiniteSet(0..n - 1) /\ Cardinality(0..n - 1) = n
    <2> HIDE DEF n
    <2>1. 0 \in Int /\ n - 1 \in Int
      BY <1>1
    <2>2. IsFiniteSet(0..n - 1) /\ Cardinality(0..n - 1) = IF 0 > n - 1 THEN 0 ELSE n - 1 - 0 + 1
      BY <2>1, FS_Interval
    <2> QED
      BY <1>1, <2>2
  <1>7. g \in Surjection(S, 0..n - 1)
    <2> HIDE DEF g
    <2>1. Cardinality(S) = Cardinality(0..n - 1)
      BY <1>6
    <2> QED
      BY <1>5, <1>6, <2>1, FS_Injection
  <1>8. \A r \in 0..n - 1 : \E i \in S : g[i] = r
    <2> HIDE DEF g
    <2> QED
      BY <1>7 DEF Surjection
  <1> QED
    BY <1>3, <1>4, <1>8

-----------------------------------------------------------------------------
(* The iteration order *)

\* s lists the elements of S, each once.
Lists(s, S) ==
    /\ s \in Seq(S)
    /\ \A x \in S : \E k \in 1..Len(s) : s[k] = x
    /\ \A k, l \in 1..Len(s) : s[k] = s[l] => k = l

\* A function on 1..n that meets every element once.
LEMMA ListsBy ==
    ASSUME NEW S, NEW n \in Nat, NEW s \in [1..n -> S],
           \A x \in S : \E k \in 1..n : s[k] = x,
           \A k, l \in 1..n : s[k] = s[l] => k = l
    PROVE  Lists(s, S) /\ Len(s) = n
  <1>1. s \in Seq(S) /\ Len(s) = n
    OBVIOUS
  <1> QED
    BY <1>1 DEF Lists

\* A list is as long as the set is big.
LEMMA ListLength ==
    ASSUME NEW s, NEW S, Lists(s, S)
    PROVE  /\ IsFiniteSet(S) /\ Len(s) = Cardinality(S)
           /\ Len(s) \in Nat /\ DOMAIN s = 1..Len(s)
           /\ \A k \in 1..Len(s) : s[k] \in S
           /\ ToSet(s) = S
  <1>1. s \in Seq(S)
    BY DEF Lists
  <1>2. Len(s) \in Nat /\ DOMAIN s = 1..Len(s) /\ \A k \in 1..Len(s) : s[k] \in S
    BY <1>1
  <1> DEFINE n == Len(s)
             f == [k \in 1..n |-> s[k]]
  <1>3. f \in Bijection(1..n, S)
    <2>1. f \in [1..n -> S] /\ \A k, l \in 1..n : f[k] = f[l] => k = l
      BY <1>2 DEF Lists
    <2>2. \A x \in S : \E k \in 1..n : f[k] = x
      BY DEF Lists
    <2> HIDE DEF f, n
    <2> QED
      BY <2>1, <2>2 DEF Bijection, Injection, Surjection, IsInjective
  <1>4. IsFiniteSet(1..n) /\ Cardinality(1..n) = n
    <2>1. n \in Int /\ 1 \in Int
      BY <1>2
    <2> HIDE DEF n
    <2>2. IsFiniteSet(1..n) /\ Cardinality(1..n) = IF 1 > n THEN 0 ELSE n - 1 + 1
      BY <2>1, FS_Interval
    <2>3. n \in Nat
      BY <1>2 DEF n
    <2> QED
      BY <2>2, <2>3
  <1>5. ExistsBijection(1..n, S)
    BY <1>3 DEF ExistsBijection
  <1>6. IsFiniteSet(S) /\ Cardinality(S) = n
    BY <1>4, <1>5, FS_Bijection
  <1>7. ToSet(s) = S
    BY <1>2 DEF ToSet, Lists
  <1> QED
    BY <1>2, <1>6, <1>7

\* The numbers of a set in increasing order are a list of it.
LEMMA AscendingLists ==
    ASSUME NEW S \in SUBSET Int, IsFiniteSet(S)
    PROVE  Lists(Ascending(S), S)
  <1> DEFINE n == Cardinality(S)
             id == [x \in S |-> x]
             place(x) == Cardinality({y \in S : y < x})
             a == Ascending(S)
  <1>1. n \in Nat
    BY FS_CardinalityType
  <1>2. \A x \in S : Place(id, S, x) = place(x)
    <2> SUFFICES ASSUME NEW x \in S PROVE Place(id, S, x) = place(x)
      OBVIOUS
    <2>1. {y \in S : id[y] < id[x]} = {y \in S : y < x}
      OBVIOUS
    <2> QED
      BY <2>1 DEF Place
  <1>3. id \in [S -> Int] /\ \A x, y \in S : id[x] = id[y] => x = y
    OBVIOUS
  <1>4. /\ \A x \in S : Place(id, S, x) \in 0..n - 1
        /\ \A x, y \in S : id[x] < id[y] => Place(id, S, x) < Place(id, S, y)
        /\ \A r \in 0..n - 1 : \E x \in S : Place(id, S, x) = r
    <2> HIDE DEF id
    <2> QED
      BY <1>3, Places
  <1> HIDE DEF n
  <1>5. \A x \in S : place(x) \in 0..n - 1
    <2> HIDE DEF place, id
    <2> QED
      BY <1>2, <1>4
  <1>6. \A x, y \in S : x < y => place(x) < place(y)
    <2>1. \A x, y \in S : x < y => id[x] < id[y]
      OBVIOUS
    <2> HIDE DEF place, id
    <2> QED
      BY <1>2, <1>4, <2>1
  <1>7. \A r \in 0..n - 1 : \E x \in S : place(x) = r
    <2> HIDE DEF place, id
    <2> QED
      BY <1>2, <1>4
  <1>8. a = [k \in 1..n |-> CHOOSE x \in S : place(x) = k - 1]
    BY DEF Ascending, n
  <1> HIDE DEF a, place, id
  <1>9. \A x, y \in S : place(x) = place(y) => x = y
    <2> SUFFICES ASSUME NEW x \in S, NEW y \in S, place(x) = place(y) PROVE x = y
      OBVIOUS
    <2>1. place(x) \in Int /\ x \in Int /\ y \in Int
      BY <1>5
    <2>2. ~(x < y) /\ ~(y < x)
      <3>1. ~(place(x) < place(y)) /\ ~(place(y) < place(x))
        BY <2>1
      <3> QED
        BY <1>6, <3>1
    <2> QED
      BY <2>1, <2>2
  <1>10. ASSUME NEW k \in 1..n PROVE a[k] \in S /\ place(a[k]) = k - 1
    <2>1. k - 1 \in 0..n - 1
      BY <1>1
    <2>2. \E x \in S : place(x) = k - 1
      BY <1>7, <2>1
    <2>3. a[k] = CHOOSE x \in S : place(x) = k - 1
      BY <1>8
    <2> QED
      BY <2>2, <2>3
  <1>11. a \in [1..n -> S]
    BY <1>8, <1>10
  <1>12. \A x \in S : \E k \in 1..n : a[k] = x
    <2> SUFFICES ASSUME NEW x \in S PROVE \E k \in 1..n : a[k] = x
      OBVIOUS
    <2>1. place(x) + 1 \in 1..n /\ place(x) + 1 - 1 = place(x)
      BY <1>1, <1>5
    <2>2. a[place(x) + 1] \in S /\ place(a[place(x) + 1]) = place(x)
      <3> DEFINE k == place(x) + 1
      <3>1. k \in 1..n /\ k - 1 = place(x)
        <4>1. place(x) \in 0..n - 1
          BY <1>5
        <4> QED
          BY <1>1, <4>1
      <3> HIDE DEF k
      <3>2. a[k] \in S /\ place(a[k]) = k - 1
        BY <1>10, <3>1
      <3> QED
        BY <3>1, <3>2 DEF k
    <2>3. a[place(x) + 1] = x
      BY <1>9, <2>2
    <2> QED
      BY <2>1, <2>3
  <1>13. \A k, l \in 1..n : a[k] = a[l] => k = l
    <2> SUFFICES ASSUME NEW k \in 1..n, NEW l \in 1..n, a[k] = a[l] PROVE k = l
      OBVIOUS
    <2>1. k - 1 = l - 1
      BY <1>10
    <2> QED
      BY <2>1
  <1>14. Lists(a, S)
    BY <1>1, <1>11, <1>12, <1>13, ListsBy
  <1> QED
    BY <1>14 DEF a

\* A list of indices gives a list of what is there.
LEMMA ListsImage ==
    ASSUME NEW s, NEW S, Lists(s, S), NEW g, \A x, y \in S : g[x] = g[y] => x = y
    PROVE  Lists([k \in DOMAIN s |-> g[s[k]]], {g[x] : x \in S})
  <1> DEFINE n == Len(s)
             t == [k \in 1..n |-> g[s[k]]]
             T == {g[x] : x \in S}
  <1>1. n \in Nat /\ DOMAIN s = 1..n /\ \A k \in 1..n : s[k] \in S
    BY ListLength
  <1>2. t \in [1..n -> T]
    BY <1>1
  <1>3. \A y \in T : \E k \in 1..n : t[k] = y
    <2> SUFFICES ASSUME NEW x \in S PROVE \E k \in 1..n : t[k] = g[x]
      OBVIOUS
    <2>1. PICK k \in 1..n : s[k] = x
      BY DEF Lists
    <2> QED
      BY <2>1
  <1>4. \A k, l \in 1..n : t[k] = t[l] => k = l
    BY <1>1 DEF Lists
  <1> HIDE DEF t, T, n
  <1>5. Lists(t, T)
    BY <1>1, <1>2, <1>3, <1>4, ListsBy
  <1> QED
    BY <1>1, <1>5 DEF t, T

LEMMA AppendLists ==
    ASSUME NEW s, NEW S, Lists(s, S), NEW x, x \notin S
    PROVE  Lists(Append(s, x), S \cup {x})
  <1> DEFINE n == Len(s)
             t == Append(s, x)
  <1>1. s \in Seq(S) /\ n \in Nat /\ \A k \in 1..n : s[k] \in S
    BY ListLength DEF Lists
  <1>2. t \in Seq(S \cup {x}) /\ Len(t) = n + 1
    <2>1. s \in Seq(S \cup {x})
      BY <1>1
    <2> QED
      BY <2>1
  <1>3. (\A k \in 1..n : t[k] = s[k]) /\ t[n + 1] = x
    BY <1>1
  <1> HIDE DEF t, n
  <1>4. \A k \in 1..n + 1 : k \in 1..n \/ k = n + 1
    BY <1>1
  <1>5. \A y \in S \cup {x} : \E k \in 1..n + 1 : t[k] = y
    <2>1. n + 1 \in 1..n + 1 /\ \A k \in 1..n : k \in 1..n + 1
      BY <1>1
    <2>2. \A y \in S : \E k \in 1..n : s[k] = y
      BY DEF Lists, n
    <2> QED
      BY <1>3, <2>1, <2>2
  <1>6. \A k, l \in 1..n + 1 : t[k] = t[l] => k = l
    <2>1. \A k, l \in 1..n : s[k] = s[l] => k = l
      BY DEF Lists, n
    <2> QED
      BY <1>1, <1>3, <1>4, <2>1
  <1> QED
    BY <1>2, <1>5, <1>6 DEF Lists, t

LEMMA ConcatLists ==
    ASSUME NEW s, NEW S, Lists(s, S), NEW t, NEW T, Lists(t, T), S \cap T = {}
    PROVE  Lists(s \o t, S \cup T)
  <1> DEFINE n == Len(s)
             m == Len(t)
             u == s \o t
  <1>1. s \in Seq(S) /\ n \in Nat /\ \A k \in 1..n : s[k] \in S
    BY ListLength DEF Lists
  <1>2. t \in Seq(T) /\ m \in Nat /\ \A k \in 1..m : t[k] \in T
    BY ListLength DEF Lists
  <1>3. u \in Seq(S \cup T) /\ Len(u) = n + m
    <2>1. s \in Seq(S \cup T) /\ t \in Seq(S \cup T)
      BY <1>1, <1>2
    <2> QED
      BY <2>1
  <1>4. (\A k \in 1..n : u[k] = s[k]) /\ \A k \in 1..m : u[n + k] = t[k]
    BY <1>1, <1>2
  <1>5. (\A x \in S : \E k \in 1..n : s[k] = x) /\ \A k, l \in 1..n : s[k] = s[l] => k = l
    BY DEF Lists
  <1>6. (\A x \in T : \E k \in 1..m : t[k] = x) /\ \A k, l \in 1..m : t[k] = t[l] => k = l
    BY DEF Lists
  <1> HIDE DEF u, n, m
  <1>7. \A k \in 1..n + m : k \in 1..n \/ (k - n \in 1..m /\ k = n + (k - n))
    BY <1>1, <1>2
  <1>8. \A x \in S \cup T : \E k \in 1..n + m : u[k] = x
    <2>1. ASSUME NEW x \in S PROVE \E k \in 1..n + m : u[k] = x
      <3>1. PICK k \in 1..n : s[k] = x
        BY <1>5
      <3>2. k \in 1..n + m /\ u[k] = x
        BY <1>1, <1>2, <1>4, <3>1
      <3> QED
        BY <3>2
    <2>2. ASSUME NEW x \in T PROVE \E k \in 1..n + m : u[k] = x
      <3>1. PICK k \in 1..m : t[k] = x
        BY <1>6
      <3>2. n + k \in 1..n + m /\ u[n + k] = x
        BY <1>1, <1>2, <1>4, <3>1
      <3> QED
        BY <3>2
    <2> QED
      BY <2>1, <2>2
  <1>9. ASSUME NEW k \in 1..n + m, NEW l \in 1..n + m, u[k] = u[l] PROVE k = l
    <2>1. CASE k \in 1..n /\ l \in 1..n
      BY <1>4, <1>5, <1>9, <2>1
    <2>2. CASE k \in 1..n /\ l \notin 1..n
      <3>1. u[k] \in S
        BY <1>1, <1>4, <2>2
      <3>2. u[l] \in T
        BY <1>2, <1>4, <1>7, <2>2
      <3> QED
        BY <1>9, <3>1, <3>2
    <2>3. CASE k \notin 1..n /\ l \in 1..n
      <3>1. u[l] \in S
        BY <1>1, <1>4, <2>3
      <3>2. u[k] \in T
        BY <1>2, <1>4, <1>7, <2>3
      <3> QED
        BY <1>9, <3>1, <3>2
    <2>4. CASE k \notin 1..n /\ l \notin 1..n
      <3>1. k - n \in 1..m /\ l - n \in 1..m /\ k = n + (k - n) /\ l = n + (l - n)
        BY <1>7, <2>4
      <3>2. u[k] = t[k - n] /\ u[l] = t[l - n]
        BY <1>4, <3>1
      <3>3. k - n = l - n
        BY <1>6, <1>9, <3>1, <3>2
      <3> QED
        BY <1>1, <1>2, <3>3
    <2> QED
      BY <2>1, <2>2, <2>3, <2>4
  <1> QED
    BY <1>3, <1>8, <1>9 DEF Lists, u

LEMMA WithoutLists ==
    ASSUME NEW s, NEW S, Lists(s, S), NEW E
    PROVE  Lists(Without(s, E), S \ E)
  <1> DEFINE n == Len(s)
             K == {k \in 1..n : s[k] \notin E}
             a == Ascending(K)
  <1>1. n \in Nat /\ DOMAIN s = 1..n /\ \A k \in 1..n : s[k] \in S
    BY ListLength
  <1>2. IsFiniteSet(K) /\ K \in SUBSET Int
    <2>1. IsFiniteSet(1..n)
      <3>1. 1 \in Int /\ n \in Int
        BY <1>1
      <3> HIDE DEF n
      <3> QED
        BY <3>1, FS_Interval
    <2>2. K \in SUBSET (1..n)
      OBVIOUS
    <2>3. K \in SUBSET Int
      BY <1>1
    <2> HIDE DEF K, n
    <2> QED
      BY <2>1, <2>2, <2>3, FS_Subset
  <1>3. Lists(a, K)
    <2> HIDE DEF K
    <2> QED
      BY <1>2, AscendingLists
  <1>4. \A k, l \in K : s[k] = s[l] => k = l
    BY DEF Lists
  <1>5. {s[k] : k \in K} = S \ E
    <2>1. \A x \in S : \E k \in 1..n : s[k] = x
      BY DEF Lists
    <2> QED
      BY <1>1, <2>1
  <1>6. Without(s, E) = [k \in DOMAIN a |-> s[a[k]]]
    BY <1>1 DEF Without
  <1> HIDE DEF a, K
  <1>7. Lists([k \in DOMAIN a |-> s[a[k]]], {s[k] : k \in K})
    BY <1>3, <1>4, ListsImage
  <1> QED
    BY <1>5, <1>6, <1>7

\* The names of the new records, in the order of their zones.
LEMMA NewOrderLists ==
    ASSUME NEW S \in SUBSET Zones, NEW free \in SUBSET Ids, NEW slot \in Slots(S, free)
    PROVE  Lists(NewOrder(slot), {slot[z] : z \in S})
  <1>1. /\ slot \in [S -> free] /\ DOMAIN slot = S
        /\ \A y, z \in S : slot[y] = slot[z] => y = z
    BY DEF Slots
  <1>2. IsFiniteSet(S)
    <2>1. slot \in Injection(S, Ids)
      BY <1>1 DEF Injection, IsInjective
    <2> QED
      BY <2>1, FS_Injection, DepositRecordsAssumption
  <1>3. S \in SUBSET Int
    BY DepositRecordsAssumption
  <1>4. Lists(Ascending(S), S)
    BY <1>2, <1>3, AscendingLists
  <1>5. Lists([k \in DOMAIN Ascending(S) |-> slot[Ascending(S)[k]]], {slot[z] : z \in S})
    BY <1>1, <1>4, ListsImage
  <1> QED
    BY <1>1, <1>5 DEF NewOrder

-----------------------------------------------------------------------------
(* What the hook's transfers take from the module accounts *)

LEMMA TotalAmountAdd ==
    ASSUME NEW recs \in [Ids -> Record], NEW S \in SUBSET Ids, NEW i \in Ids \ S
    PROVE  TotalAmount(recs, S \cup {i}) = TotalAmount(recs, S) + recs[i].amount
  <1> DEFINE f == [j \in Ids |-> recs[j].amount]
             g == [j \in Ids |-> IF j \in S THEN f[j] ELSE 0]
             h == [j \in Ids |-> IF j \in S \cup {i} THEN f[j] ELSE 0]
  <1>1. \A j \in Ids : f[j] \in Nat /\ f[j] = recs[j].amount
    BY DEF Record
  <1>2. IsFiniteSet(Ids)
    BY DepositRecordsAssumption
  <1>3. /\ \A j \in Ids : g[j] \in Int /\ g[j] = IF j \in S THEN recs[j].amount ELSE 0
        /\ \A j \in Ids : h[j] \in Int /\ h[j] = IF j \in S \cup {i} THEN recs[j].amount ELSE 0
        /\ \A j \in Ids \ {i} : h[j] = g[j]
        /\ h[i] = recs[i].amount /\ g[i] = 0
    BY <1>1
  <1> HIDE DEF f, g, h
  <1>4. TotalAmount(recs, S) = SumFunctionOnSet(g, Ids)
    BY <1>3, TotalAmountSum
  <1>5. S \cup {i} \in SUBSET Ids
    OBVIOUS
  <1>6. TotalAmount(recs, S \cup {i}) = SumFunctionOnSet(h, Ids)
    BY <1>3, <1>5, TotalAmountSum
  <1>7. SumFunctionOnSet(h, Ids) = SumFunctionOnSet(g, Ids) + h[i] - g[i]
    BY <1>2, <1>3, SumChange
  <1>8. SumFunctionOnSet(g, Ids) \in Int /\ recs[i].amount \in Int
    BY <1>1, <1>2, <1>3, SumInt
  <1> QED
    BY <1>3, <1>4, <1>6, <1>7, <1>8

\* The recursive function of BalancesBefore: the balances before the transfer
\* of the k-th record in the order.
Due(recs, e) == TransferDue(recs, e) \ EmptyRecords(recs, e)

Pays(recs, e, i, before) ==
    /\ i \in Due(recs, e)
    /\ recs[i].zone \in ActiveZones
    /\ before[recs[i].zone] >= recs[i].amount

NextBalance(recs, e, i, before) ==
    IF Pays(recs, e, i, before)
    THEN [before EXCEPT ![recs[i].zone] = @ - recs[i].amount] ELSE before

Balance(bal, recs, ord, e, k) ==
    IF k = 1 THEN moduleAcct ELSE NextBalance(recs, e, ord[k - 1], bal[k - 1])

Balances(bal, recs, ord, e, n) == bal = [k \in 1..n |-> Balance(bal, recs, ord, e, k)]

LEMMA BalancesBeforeDef ==
    ASSUME NEW recs, NEW ord, NEW e
    PROVE  BalancesBefore(recs, ord, e)
             = CHOOSE bal : Balances(bal, recs, ord, e, Len(ord) + 1)
    BY DEF BalancesBefore, Balances, Balance, NextBalance, Pays, Due

\* There is such a function, which is shown for its beginnings.
LEMMA BalancesExist ==
    ASSUME NEW recs, NEW ord, NEW e, NEW num \in Nat
    PROVE  \E bal : Balances(bal, recs, ord, e, num)
  <1> DEFINE N == {n \in Nat : ~\E bal : Balances(bal, recs, ord, e, n)}
  <1> SUFFICES ASSUME N # {} PROVE FALSE
    OBVIOUS
  <1>1. PICK n \in N : \A m \in N : n <= m
    <2>1. N \in SUBSET Nat
      OBVIOUS
    <2> HIDE DEF N
    <2> QED
      BY <2>1, LeastNumber
  <1>2. CASE n = 0
    <2> DEFINE f == [k \in 1..0 |-> moduleAcct]
    <2>1. \A g : [k \in 1..0 |-> moduleAcct] = [k \in 1..0 |-> Balance(g, recs, ord, e, k)]
      OBVIOUS
    <2>2. Balances(f, recs, ord, e, 0)
      BY <2>1 DEF Balances
    <2> QED
      BY <1>1, <1>2, <2>2
  <1>3. CASE n # 0
    <2>1. n \in Nat /\ n - 1 \in Nat /\ n - 1 \notin N
      BY <1>1, <1>3
    <2>2. PICK f : Balances(f, recs, ord, e, n - 1)
      BY <2>1
    <2> DEFINE g == [k \in 1..n |-> IF k = n THEN Balance(f, recs, ord, e, n) ELSE f[k]]
    <2>3. \A k \in 1..n - 1 : g[k] = f[k]
      BY <2>1
    <2>4. ASSUME NEW k \in 1..n PROVE g[k] = Balance(g, recs, ord, e, k)
      <3>1. k = 1 \/ k - 1 \in 1..n - 1
        BY <2>1
      <3>2. k = 1 \/ g[k - 1] = f[k - 1]
        BY <2>3, <3>1
      <3>3. Balance(g, recs, ord, e, k) = Balance(f, recs, ord, e, k)
        <4>1. CASE k = 1
          BY <4>1 DEF Balance
        <4>2. CASE k # 1
          <5>1. g[k - 1] = f[k - 1]
            BY <3>2, <4>2
          <5> HIDE DEF g
          <5> QED
            BY <4>2, <5>1 DEF Balance
        <4> QED
          BY <4>1, <4>2
      <3>4. CASE k = n
        BY <3>3, <3>4
      <3>5. CASE k # n
        <4>1. k \in 1..n - 1
          BY <2>1, <3>5
        <4>2. f[k] = Balance(f, recs, ord, e, k)
          BY <2>2, <4>1 DEF Balances
        <4> HIDE DEF g
        <4> QED
          BY <2>3, <3>3, <4>1, <4>2
      <3> QED
        BY <3>4, <3>5
    <2>5. g = [k \in 1..n |-> g[k]]
      OBVIOUS
    <2> HIDE DEF g
    <2>6. Balances(g, recs, ord, e, n)
      BY <2>4, <2>5 DEF Balances
    <2> QED
      BY <1>1, <2>6
  <1> QED
    BY <1>2, <1>3

LEMMA BalancesAre ==
    ASSUME NEW recs, NEW ord, NEW e, Len(ord) \in Nat
    PROVE  /\ BalancesBefore(recs, ord, e)[1] = moduleAcct
           /\ \A k \in 1..Len(ord) :
                BalancesBefore(recs, ord, e)[k + 1]
                  = NextBalance(recs, e, ord[k], BalancesBefore(recs, ord, e)[k])
  <1> DEFINE bal == BalancesBefore(recs, ord, e)
             n == Len(ord) + 1
  <1>1. \E b : Balances(b, recs, ord, e, n)
    <2>1. n \in Nat
      OBVIOUS
    <2> HIDE DEF n
    <2> QED
      BY <2>1, BalancesExist
  <1>2. Balances(bal, recs, ord, e, n)
    BY <1>1, BalancesBeforeDef, Zenon
  <1> HIDE DEF bal
  <1>3. \A k \in 1..n : bal[k] = Balance(bal, recs, ord, e, k)
    <2> HIDE DEF n
    <2> QED
      BY <1>2 DEF Balances
  <1>4. 1 \in 1..n /\ \A k \in 1..Len(ord) : k + 1 \in 1..n /\ k + 1 # 1 /\ k + 1 - 1 = k
    OBVIOUS
  <1>5. bal[1] = moduleAcct
    BY <1>3, <1>4 DEF Balance
  <1>6. ASSUME NEW k \in 1..Len(ord)
        PROVE  bal[k + 1] = NextBalance(recs, e, ord[k], bal[k])
    <2>1. bal[k + 1] = Balance(bal, recs, ord, e, k + 1)
      BY <1>3, <1>4
    <2>2. k + 1 # 1 /\ k + 1 - 1 = k
      BY <1>4
    <2> QED
      BY <2>1, <2>2 DEF Balance
  <1> QED
    BY <1>5, <1>6 DEF bal

\* The transfers that are paid for do not take more than there is.
LEMMA PaidCovered ==
    ASSUME NEW recs \in [Ids -> Record], NEW ord, NEW e, NEW S \in SUBSET Ids, Lists(ord, S),
           moduleAcct \in [Zones -> Nat]
    PROVE  \A z \in Zones :
             moduleAcct[z] - TotalAmount(recs, {i \in PaidTransfers(recs, ord, e) : recs[i].zone = z})
               \in Nat
  <1> DEFINE bal == BalancesBefore(recs, ord, e)
             paid == PaidTransfers(recs, ord, e)
             n == Len(ord)
             before(k, z) == {i \in paid : recs[i].zone = z /\ \E l \in 1..k - 1 : ord[l] = i}
             total(k, z) == TotalAmount(recs, before(k, z))
             Right(k) == /\ bal[k] \in [Zones -> Nat]
                         /\ \A z \in Zones : bal[k][z] = moduleAcct[z] - total(k, z)
             N == {k \in 1..n + 1 : ~Right(k)}
  <1>1. /\ n \in Nat /\ \A k \in 1..n : ord[k] \in S
        /\ \A k, l \in 1..n : ord[k] = ord[l] => k = l
    BY ListLength DEF Lists
  <1>2. /\ bal[1] = moduleAcct
        /\ \A k \in 1..n : bal[k + 1] = NextBalance(recs, e, ord[k], bal[k])
    BY <1>1, BalancesAre
  <1>3. \A i : i \in paid <=>
          /\ i \in Due(recs, e) /\ recs[i].zone \in ActiveZones
          /\ \E k \in 1..n : ord[k] = i /\ bal[k][recs[i].zone] >= recs[i].amount
    BY DEF PaidTransfers, Due
  <1>4. paid \in SUBSET Ids
    BY DEF PaidTransfers, TransferDue
  <1>5. ASSUME NEW k \in 1..n PROVE ord[k] \in paid <=> Pays(recs, e, ord[k], bal[k])
    <2> HIDE DEF bal, paid
    <2> QED
      BY <1>1, <1>3 DEF Pays
  <1>6. \A i \in Ids : recs[i].amount \in Nat /\ recs[i].zone \in Zones
    BY DEF Record
  <1> HIDE DEF bal, paid, n
  <1>7. \A k, z : before(k, z) \in SUBSET Ids
    BY <1>4
  <1>8. Right(1)
    <2>1. \A z \in Zones : before(1, z) = {}
      OBVIOUS
    <2>2. TotalAmount(recs, {}) = 0
      <3> DEFINE f == [i \in {} |-> recs[i].amount]
      <3>1. TotalAmount(recs, {}) = SumFunctionOnSet(f, {})
        BY Zenon, DOMAIN f = {} DEF TotalAmount, SumFunction
      <3> QED
        BY <3>1, SumEmpty
    <2>3. \A z \in Zones : total(1, z) = 0
      BY <2>1, <2>2
    <2> HIDE DEF total
    <2> QED
      BY <1>2, <2>3
  <1>9. ASSUME NEW k \in 1..n, Right(k) PROVE Right(k + 1)
    <2> DEFINE i == ord[k]
    <2>1. i \in Ids /\ k \in Nat
      BY <1>1
    <2>2. bal[k + 1] = NextBalance(recs, e, i, bal[k])
      BY <1>2
    <2>3. \A l \in 1..k - 1 : l \in 1..n /\ l # k
      BY <1>1
    <2>4. \A l \in 1..k - 1 : ord[l] # i
      BY <1>1, <2>3
    <2>5. \A l : l \in 1..(k + 1) - 1 <=> l \in 1..k - 1 \/ l = k
      BY <2>1
    <2>6. CASE i \in paid
      <3>1. Pays(recs, e, i, bal[k])
        BY <1>5, <2>6
      <3> DEFINE y == recs[i].zone
                 a == recs[i].amount
      <3>2. y \in Zones /\ a \in Nat /\ bal[k][y] >= a
        BY <1>6, <2>1, <3>1 DEF Pays
      <3>3. bal[k + 1] = [bal[k] EXCEPT ![y] = @ - a]
        BY <2>2, <3>1 DEF NextBalance
      <3>4. before(k + 1, y) = before(k, y) \cup {i} /\ i \in Ids \ before(k, y)
        BY <2>1, <2>4, <2>5, <2>6
      <3>5. total(k + 1, y) = total(k, y) + a
        <4> HIDE DEF before
        <4> QED
          BY <1>7, <3>4, TotalAmountAdd
      <3>6. ASSUME NEW z \in Zones, z # y PROVE total(k + 1, z) = total(k, z)
        <4>1. before(k + 1, z) = before(k, z)
          BY <2>5, <3>6
        <4> QED
          BY <4>1
      <3>7. \A z \in Zones : total(k, z) \in Nat
        <4> HIDE DEF before
        <4> QED
          BY <1>7, TotalAmountNat
      <3> HIDE DEF total, y, a, i
      <3>8. bal[k][y] \in Nat /\ bal[k][y] - a \in Nat
        BY <1>9, <3>2
      <3>9. bal[k + 1] \in [Zones -> Nat]
        BY <1>9, <3>3, <3>8
      <3>10. ASSUME NEW z \in Zones PROVE bal[k + 1][z] = moduleAcct[z] - total(k + 1, z)
        <4>1. CASE z = y
          <5>1. bal[k + 1][y] = bal[k][y] - a
            BY <1>9, <3>2, <3>3
          <5>2. bal[k][y] = moduleAcct[y] - total(k, y)
            BY <1>9, <3>2
          <5>3. moduleAcct[y] \in Int /\ total(k, y) \in Int /\ a \in Int
            BY <3>2, <3>7
          <5> QED
            BY <3>5, <4>1, <5>1, <5>2, <5>3
        <4>2. CASE z # y
          BY <1>9, <3>3, <3>6, <4>2
        <4> QED
          BY <4>1, <4>2
      <3> QED
        BY <3>9, <3>10
    <2>7. CASE i \notin paid
      <3>1. bal[k + 1] = bal[k]
        BY <1>5, <2>2, <2>7 DEF NextBalance
      <3>2. \A z \in Zones : before(k + 1, z) = before(k, z)
        BY <2>5, <2>7
      <3>3. \A z \in Zones : total(k + 1, z) = total(k, z)
        <4> HIDE DEF before
        <4> QED
          BY <3>2
      <3> HIDE DEF total
      <3> QED
        BY <1>9, <3>1, <3>3
    <2> QED
      BY <2>6, <2>7
  <1>10. Right(n + 1)
    <2> HIDE DEF Right
    <2> SUFFICES ASSUME N # {} PROVE FALSE
      BY <1>1
    <2>1. PICK k \in N : \A m \in N : k <= m
      <3>1. N \in SUBSET Nat
        OBVIOUS
      <3> HIDE DEF N
      <3> QED
        BY <3>1, LeastNumber
    <2>2. k # 1 /\ k \in 1..n + 1
      BY <1>8
    <2>3. k - 1 \in 1..n /\ k - 1 \notin N /\ k - 1 + 1 = k /\ k - 1 \in 1..n + 1
      BY <1>1, <2>1, <2>2
    <2>4. Right(k - 1)
      BY <2>3
    <2>5. Right(k - 1 + 1)
      BY <1>9, <2>3, <2>4
    <2> QED
      BY <2>1, <2>3, <2>5
  <1>11. ASSUME NEW z \in Zones
         PROVE  moduleAcct[z] - TotalAmount(recs, {i \in paid : recs[i].zone = z}) \in Nat
    <2>1. (n + 1) - 1 = n
      BY <1>1
    <2>2. before(n + 1, z) = {i \in paid : recs[i].zone = z}
      BY <1>3, <2>1
    <2>3. total(n + 1, z) = TotalAmount(recs, {i \in paid : recs[i].zone = z})
      BY <2>2
    <2> HIDE DEF total
    <2>4. bal[n + 1][z] = moduleAcct[z] - total(n + 1, z) /\ bal[n + 1][z] \in Nat
      BY <1>10
    <2> QED
      BY <2>3, <2>4
  <1> QED
    BY <1>11 DEF paid

-----------------------------------------------------------------------------
(* The numbers of the packets *)

PacketsNumbered == \A z \in Zones : Numbered(channel[z].pkts, Cardinality(channel[z].pkts))

\* The packets of T, one for each of M, follow number n in some order.
Follow(T, n, M, m, r, g) ==
    /\ \A p : p \in T <=> \E i \in M : p = g[i]
    /\ \A i \in M : r[i] \in 0..m - 1 /\ g[i].seq = n + 1 + r[i]
    /\ \A i, j \in M : r[i] = r[j] => i = j
    /\ \A k \in 0..m - 1 : \E i \in M : r[i] = k

LEMMA MoreNumbered ==
    ASSUME NEW S, NEW n \in Nat, Numbered(S, n), NEW m \in Nat,
           NEW T, NEW M, NEW r, NEW g, Follow(T, n, M, m, r, g)
    PROVE  n + m \in Nat /\ Numbered(S \cup T, n + m)
  <1> USE DEF Follow
  <1>1. \A p \in S : p.seq \in 1..n
    BY DEF Numbered, Seqs
  <1>2. ASSUME NEW k PROVE k \in Seqs(S \cup T) <=> k \in 1..n + m
    <2>1. ASSUME k \in Seqs(S \cup T) PROVE k \in 1..n + m
      <3>1. PICK p \in S \cup T : k = p.seq
        BY <2>1 DEF Seqs
      <3>2. CASE p \in S
        BY <1>1, <3>1, <3>2
      <3>3. CASE p \in T
        <4>1. PICK i \in M : p = g[i]
          BY <3>3
        <4>2. r[i] \in 0..m - 1 /\ k = n + 1 + r[i]
          BY <3>1, <4>1
        <4> QED
          BY <4>2
      <3> QED
        BY <3>2, <3>3
    <2>2. ASSUME k \in 1..n + m PROVE k \in Seqs(S \cup T)
      <3>1. CASE k \in 1..n
        <4>1. k \in Seqs(S)
          BY <3>1 DEF Numbered
        <4> QED
          BY <4>1 DEF Seqs
      <3>2. CASE k \notin 1..n
        <4>1. k - (n + 1) \in 0..m - 1 /\ n + 1 + (k - (n + 1)) = k
          BY <2>2, <3>2
        <4>2. PICK i \in M : r[i] = k - (n + 1)
          BY <4>1
        <4>3. g[i].seq = k /\ g[i] \in T
          BY <4>1, <4>2
        <4> QED
          BY <4>3 DEF Seqs
      <3> QED
        BY <3>1, <3>2
    <2> QED
      BY <2>1, <2>2
  <1>3. ASSUME NEW p \in S \cup T, NEW q \in S \cup T, p.seq = q.seq PROVE p = q
    <2>1. CASE p \in S /\ q \in S
      BY <1>3, <2>1 DEF Numbered
    <2>2. CASE p \in S /\ q \in T
      <3>1. PICK i \in M : q = g[i]
        BY <2>2
      <3>2. p.seq \in 1..n /\ r[i] \in 0..m - 1 /\ q.seq = n + 1 + r[i]
        BY <1>1, <2>2, <3>1
      <3> QED
        BY <1>3, <3>2
    <2>3. CASE p \in T /\ q \in S
      <3>1. PICK i \in M : p = g[i]
        BY <2>3
      <3>2. q.seq \in 1..n /\ r[i] \in 0..m - 1 /\ p.seq = n + 1 + r[i]
        BY <1>1, <2>3, <3>1
      <3> QED
        BY <1>3, <3>2
    <2>4. CASE p \in T /\ q \in T
      <3>1. PICK i \in M : p = g[i]
        BY <2>4
      <3>2. PICK j \in M : q = g[j]
        BY <2>4
      <3>3. /\ r[i] \in 0..m - 1 /\ p.seq = n + 1 + r[i]
            /\ r[j] \in 0..m - 1 /\ q.seq = n + 1 + r[j]
        BY <3>1, <3>2
      <3>4. r[i] = r[j]
        <4>1. n + 1 + r[i] = n + 1 + r[j]
          BY <1>3, <3>3
        <4>2. r[i] \in Int /\ r[j] \in Int
          BY <3>3
        <4> QED
          BY <4>1, <4>2
      <3> QED
        BY <3>1, <3>2, <3>4
    <2> QED
      BY <2>1, <2>2, <2>3, <2>4
  <1>4. Seqs(S \cup T) = 1..n + m
    BY <1>2
  <1> QED
    BY <1>3, <1>4 DEF Numbered

\* The packets that the hook submits: first the withdraw address, then the
\* delegations in the order of their records.
LEMMA SubmittedNumbered ==
    ASSUME IndInv, NEW z \in Zones, NEW recs \in [Ids -> Record],
           NEW ord, NEW S \in SUBSET Ids, Lists(ord, S), NEW staked \in SUBSET S,
           \A i \in staked : recs[i].zone \in ActiveZones /\ channel[recs[i].zone].state = "OPEN",
           Numbered(channel[z].pkts, Cardinality(channel[z].pkts))
    PROVE  LET all == channel[z].pkts \cup SubmittedPackets(recs, ord, staked, z)
           IN  Numbered(all, Cardinality(all))
  <1> DEFINE pkts == channel[z].pkts
             n == Cardinality(pkts)
             mine == {i \in staked : recs[i].zone = z}
             new == SubmittedPackets(recs, ord, staked, z)
             before(i) == Cardinality({j \in mine : Precedes(ord, j, i)})
             withdraw == [msg |-> SetWithdrawAddress, amount |-> 0, state |-> "sent", seq |-> n + 1]
             g == [i \in mine |-> [msg |-> i, amount |-> recs[i].amount, state |-> "sent",
                                   seq |-> n + 1 + 1 + before(i)]]
             open == z \in ActiveZones /\ channel[z].state = "OPEN"
  <1>1. IsFiniteSet(pkts) /\ n \in Nat /\ IsFiniteSet(new)
    <2>1. IsFiniteSet(pkts)
      BY DEF IndInv, RecordsTypeOK
    <2>2. staked \in SUBSET Ids
      OBVIOUS
    <2>3. IsFiniteSet(new)
      BY <2>2, SubmittedPacketsType
    <2> HIDE DEF pkts, new
    <2> QED
      BY <2>1, <2>3, FS_CardinalityType
  <1>2. new = {g[i] : i \in mine} \cup {withdraw : y \in {z} \cap {y \in ActiveZones : channel[y].state = "OPEN"}}
    BY DEF SubmittedPackets
  <1>3. withdraw.seq = n + 1
    OBVIOUS
  <1>4. \A i \in mine : g[i].seq = n + 1 + 1 + before(i)
    OBVIOUS
  <1>5. Numbered(pkts, n)
    OBVIOUS
  <1>6. mine # {} => open
    OBVIOUS
  <1>7. IsFiniteSet(mine)
    BY FS_Subset, DepositRecordsAssumption
  <1> DEFINE pos == [i \in mine |-> CHOOSE k \in 1..Len(ord) : ord[k] = i]
  <1>8. \A i \in mine : pos[i] \in 1..Len(ord) /\ ord[pos[i]] = i
    BY DEF Lists
  <1>9. /\ Len(ord) \in Nat /\ DOMAIN ord = 1..Len(ord)
        /\ \A k, l \in 1..Len(ord) : ord[k] = ord[l] => k = l
    BY ListLength DEF Lists
  <1>10. DOMAIN pos = mine /\ pos = [i \in mine |-> pos[i]]
    OBVIOUS
  <1> HIDE DEF pos
  <1>11. pos \in [mine -> Int] /\ \A i, j \in mine : pos[i] = pos[j] => i = j
    <2>1. \A i \in mine : pos[i] \in Int
      BY <1>8
    <2>2. \A i, j \in mine : pos[i] = pos[j] => i = j
      BY <1>8
    <2> HIDE DEF mine
    <2> QED
      BY <1>10, <2>1, <2>2
  <1>12. \A i, j \in mine : Precedes(ord, j, i) <=> pos[j] < pos[i]
    BY <1>8, <1>9 DEF Precedes
  <1>13. \A i \in mine : before(i) = Place(pos, mine, i)
    <2> SUFFICES ASSUME NEW i \in mine PROVE before(i) = Place(pos, mine, i)
      OBVIOUS
    <2>1. {j \in mine : Precedes(ord, j, i)} = {j \in mine : pos[j] < pos[i]}
      BY <1>12
    <2> QED
      BY <2>1 DEF Place
  <1> DEFINE m == Cardinality(mine)
             r == [i \in mine |-> before(i)]
  <1>14. m \in Nat
    BY <1>7, FS_CardinalityType
  <1>15. /\ \A i \in mine : Place(pos, mine, i) \in 0..m - 1
         /\ \A i, j \in mine : pos[i] < pos[j] => Place(pos, mine, i) < Place(pos, mine, j)
         /\ \A k \in 0..m - 1 : \E i \in mine : Place(pos, mine, i) = k
    <2> HIDE DEF mine
    <2> QED
      BY <1>7, <1>11, Places
  <1> HIDE DEF m
  <1>16. /\ \A i \in mine : r[i] \in 0..m - 1 /\ r[i] = Place(pos, mine, i)
         /\ \A k \in 0..m - 1 : \E i \in mine : r[i] = k
    <2> HIDE DEF before, mine
    <2> QED
      BY <1>13, <1>15
  <1>17. \A i, j \in mine : r[i] = r[j] => i = j
    <2> SUFFICES ASSUME NEW i \in mine, NEW j \in mine, r[i] = r[j] PROVE i = j
      OBVIOUS
    <2> HIDE DEF r, before, mine
    <2>1. /\ Place(pos, mine, i) = Place(pos, mine, j)
          /\ Place(pos, mine, i) \in Int /\ Place(pos, mine, j) \in Int
      BY <1>16
    <2>2. pos[i] \in Int /\ pos[j] \in Int
      BY <1>11
    <2>3. ~(pos[i] < pos[j]) /\ ~(pos[j] < pos[i])
      <3>1. /\ ~(Place(pos, mine, i) < Place(pos, mine, j))
            /\ ~(Place(pos, mine, j) < Place(pos, mine, i))
        BY <2>1
      <3> QED
        BY <1>15, <3>1
    <2> QED
      BY <1>11, <2>2, <2>3
  <1>18. \A i \in mine : g[i].seq = (n + 1) + 1 + r[i]
    BY <1>4
  <1> HIDE DEF g, r, withdraw, n, before
  <1>19. CASE ~open
    <2>1. pkts \cup new = pkts
      BY <1>2, <1>6, <1>19
    <2> QED
      BY <1>5, <2>1 DEF n
  <1>20. CASE open
    <2> DEFINE S1 == pkts \cup {withdraw}
    <2>1. pkts \cup new = S1 \cup {g[i] : i \in mine}
      BY <1>2, <1>20
    <2>2. n + 1 \in Nat /\ Numbered(S1, n + 1)
      BY <1>1, <1>3, <1>5, NextNumbered
    <2> HIDE DEF S1, mine, new, pkts
    <2> DEFINE first == n + 1
    <2>6. first \in Nat /\ Numbered(S1, first)
      BY <2>2
    <2>7. \A i \in mine : r[i] \in 0..m - 1 /\ g[i].seq = first + 1 + r[i]
      BY <1>16, <1>18
    <2>8. \A k \in 0..m - 1 : \E i \in mine : r[i] = k
      BY <1>16
    <2> DEFINE T == {g[i] : i \in mine}
    <2>9. \A p : p \in T <=> \E i \in mine : p = g[i]
      OBVIOUS
    <2> HIDE DEF first, T
    <2>3. first + m \in Nat /\ Numbered(S1 \cup T, first + m)
      <3>1. Follow(T, first, mine, m, r, g)
        BY <1>17, <2>7, <2>8, <2>9 DEF Follow
      <3> QED
        BY <1>14, <2>6, <3>1, MoreNumbered
    <2>4. IsFiniteSet(pkts \cup new)
      BY <1>1, FS_Union
    <2>5. Numbered(pkts \cup new, Cardinality(pkts \cup new))
      <3>1. pkts \cup new = S1 \cup T
        BY <2>1 DEF T
      <3> QED
        BY <2>3, <2>4, <3>1, NumberedIs
    <2> QED
      BY <2>5 DEF pkts, new
  <1> QED
    BY <1>19, <1>20

-----------------------------------------------------------------------------
(* The rest of the type invariant *)

\* The store's iteration meets every record once.
OrderOK == Lists(order, Present(records))

PurseOK ==
    /\ epoch \in 0..EpochCycle - 1
    /\ wallet \in Nat
    /\ rewardsLeft \in Nat
    /\ moduleAcct \in [Zones -> Nat]

\* That no module account is overdrawn needs the order: the hook attempts its
\* transfers in it, each with what those before have left, and a record met
\* twice would be attempted twice.
TypeInv == LedgerInv /\ PacketsNumbered /\ OrderOK /\ PurseOK

LEMMA TypeInvImplies == TypeInv => TypeOK
  <1> SUFFICES ASSUME TypeInv PROVE TypeOK
    OBVIOUS
  <1>1. ToSet(order) = Present(records) /\ Len(order) = Cardinality(Present(records))
    BY ListLength DEF TypeInv, OrderOK
  <1>2. \A z \in Zones : {p.seq : p \in channel[z].pkts} = 1..Cardinality(channel[z].pkts)
    BY DEF TypeInv, PacketsNumbered, Numbered, Seqs
  <1> QED
    BY <1>1, <1>2 DEF TypeInv, LedgerInv, IndInv, AccountsTypeOK, PurseOK, TypeOK

LEMMA InitTypeInv == Init => TypeInv
  <1> SUFFICES ASSUME Init PROVE TypeInv
    OBVIOUS
  <1> DEFINE slot == CHOOSE s \in Slots(Zones, Ids) : TRUE
             T == {slot[z] : z \in Zones}
  <1>1. slot \in Slots(Zones, Ids)
    BY DEF Init
  <1>2. /\ order = NewOrder(slot)
        /\ records = WithNewRecords([i \in Ids |-> NoRecord], slot)
    BY DEF Init
  <1>3. slot \in [Zones -> Ids] /\ DOMAIN slot = Zones
    BY <1>1 DEF Slots
  <1> HIDE DEF slot
  <1>4. Lists(order, T)
    BY <1>1, <1>2, NewOrderLists
  <1>5. Present(records) = T
    <2>1. ASSUME NEW i \in Ids PROVE records[i].status # "NONE" <=> i \in T
      BY <1>2, <1>3 DEF WithNewRecords, NewRecord, NoRecord
    <2> QED
      BY <1>3, <2>1 DEF Present
  <1>6. OrderOK
    BY <1>4, <1>5 DEF OrderOK
  <1>7. PacketsNumbered
    BY NoneNumbered, FS_EmptySet DEF Init, PacketsNumbered
  <1>8. PurseOK
    BY DepositRecordsAssumption DEF Init, PurseOK
  <1> QED
    BY <1>6, <1>7, <1>8, InitLedger DEF TypeInv

-----------------------------------------------------------------------------
(* Every step *)

Rest == PacketsNumbered /\ OrderOK /\ PurseOK

\* What the other lemmas take from the invariant.
LEMMA TypeInvGives ==
    ASSUME TypeInv
    PROVE  /\ IndInv /\ Rest
           /\ records \in [Ids -> Record] /\ Present(records) \in SUBSET Ids
           /\ channel \in [Zones -> [state : {"OPEN", "CLOSED", "INIT"}, pkts : SUBSET ICAPacket]]
           /\ \A z \in Zones : /\ IsFiniteSet(channel[z].pkts)
                               /\ Cardinality(channel[z].pkts) \in Nat
                               /\ Numbered(channel[z].pkts, Cardinality(channel[z].pkts))
  <1>1. IndInv /\ Rest
    BY DEF TypeInv, LedgerInv, Rest
  <1>2. /\ records \in [Ids -> Record]
        /\ channel \in [Zones -> [state : {"OPEN", "CLOSED", "INIT"}, pkts : SUBSET ICAPacket]]
        /\ \A z \in Zones : IsFiniteSet(channel[z].pkts)
    BY <1>1 DEF IndInv, RecordsTypeOK
  <1>3. Present(records) \in SUBSET Ids
    BY DEF Present
  <1>4. \A z \in Zones : Numbered(channel[z].pkts, Cardinality(channel[z].pkts))
    BY <1>1 DEF Rest, PacketsNumbered
  <1> QED
    BY <1>1, <1>2, <1>3, <1>4, FS_CardinalityType

LEMMA SameOrder ==
    ASSUME OrderOK, order' = order, Present(records') = Present(records)
    PROVE  OrderOK'
    BY DEF OrderOK

LEMMA SamePackets ==
    ASSUME PacketsNumbered, \A z \in Zones : channel'[z].pkts = channel[z].pkts
    PROVE  PacketsNumbered'
    BY DEF PacketsNumbered

\* A record whose status changes stays in the order.
LEMMA SetStatusPresent ==
    ASSUME NEW recs \in [Ids -> Record], NEW S, NEW status \in Statuses \ {"NONE"},
           \A i \in S : i \in Ids => recs[i].status # "NONE"
    PROVE  Present(SetStatus(recs, S, status)) = Present(recs)
  <1>1. \A i \in Ids : SetStatus(recs, S, status)[i].status
                         = IF i \in S THEN status ELSE recs[i].status
    BY SetStatusRecord
  <1> QED
    BY <1>1 DEF Present

LEMMA DeletePresent ==
    ASSUME NEW recs, NEW S
    PROVE  Present(Delete(recs, S)) = Present(recs) \ S
    BY DEF Present, Delete, NoRecord

LEMMA QuietRest ==
    ASSUME TypeInv, UNCHANGED <<epoch, wallet, rewardsLeft, moduleAcct, records, order, channel>>
    PROVE  Rest'
  <1>1. Rest
    BY TypeInvGives
  <1>2. PacketsNumbered'
    BY <1>1, SamePackets DEF Rest
  <1>3. OrderOK'
    BY <1>1, SameOrder DEF Rest
  <1> QED
    BY <1>1, <1>2, <1>3 DEF Rest, PurseOK

LEMMA LiquidStakeRest ==
    ASSUME TypeInv, NEW z \in Zones, NEW amount \in StakeAmounts, LiquidStake(z, amount)
    PROVE  Rest'
  <1>1. /\ IndInv /\ Rest /\ records \in [Ids -> Record]
    BY TypeInvGives
  <1>2. PICK i \in CurrentTransferRecord(z) : records' = [records EXCEPT ![i].amount = @ + amount]
    BY DEF LiquidStake
  <1>3. \A j \in Ids : records'[j].status = records[j].status
    BY <1>1, <1>2 DEF Record
  <1>4. Present(records') = Present(records)
    BY <1>3 DEF Present
  <1>5. /\ UNCHANGED <<epoch, rewardsLeft, order, channel>>
        /\ wallet >= amount /\ wallet' = wallet - amount
        /\ moduleAcct' = [moduleAcct EXCEPT ![z] = @ + amount]
    BY DEF LiquidStake
  <1>6. OrderOK'
    BY <1>1, <1>4, <1>5, SameOrder DEF Rest
  <1>7. PacketsNumbered'
    BY <1>1, <1>5, SamePackets DEF Rest
  <1>8. amount \in Nat
    BY DepositRecordsAssumption
  <1>9. PurseOK'
    BY <1>1, <1>5, <1>8 DEF Rest, PurseOK
  <1> QED
    BY <1>6, <1>7, <1>9 DEF Rest

LEMMA ReinvestRest ==
    ASSUME TypeInv, NEW z \in Zones, NEW amount \in RewardAmounts, ReinvestCallback(z, amount)
    PROVE  Rest'
  <1> DEFINE i == CHOOSE j \in FreeIds : TRUE
  <1>1. /\ IndInv /\ Rest /\ records \in [Ids -> Record]
    BY TypeInvGives
  <1>2. i \in FreeIds
    BY DEF ReinvestCallback
  <1>3. /\ UNCHANGED <<epoch, wallet, moduleAcct, channel>>
        /\ amount <= rewardsLeft /\ rewardsLeft' = rewardsLeft - amount
        /\ order' = Append(order, i)
        /\ records' = [records EXCEPT ![i] = NewRecord(z, "DELEGATION_QUEUE", amount)]
    BY DEF ReinvestCallback
  <1> HIDE DEF i
  <1>4. i \in Ids /\ i \notin Present(records)
    BY <1>2 DEF FreeIds
  <1>5. Present(records') = Present(records) \cup {i}
    <2>1. \A j \in Ids : records'[j] = IF j = i THEN NewRecord(z, "DELEGATION_QUEUE", amount)
                                       ELSE records[j]
      BY <1>1, <1>3, <1>4
    <2>2. NewRecord(z, "DELEGATION_QUEUE", amount).status = "DELEGATION_QUEUE"
      BY DEF NewRecord
    <2>3. \A j \in Ids : records'[j].status # "NONE" <=> j \in Present(records) \/ j = i
      BY <2>1, <2>2 DEF Present
    <2> QED
      BY <1>4, <2>3 DEF Present
  <1>6. OrderOK'
    <2>1. Lists(order, Present(records))
      BY <1>1 DEF Rest, OrderOK
    <2>2. Lists(Append(order, i), Present(records) \cup {i})
      BY <1>4, <2>1, AppendLists
    <2> QED
      BY <1>3, <1>5, <2>2 DEF OrderOK
  <1>7. PacketsNumbered'
    BY <1>1, <1>3, SamePackets DEF Rest
  <1>8. amount \in Nat
    BY DepositRecordsAssumption
  <1>9. PurseOK'
    BY <1>1, <1>3, <1>8 DEF Rest, PurseOK
  <1> QED
    BY <1>6, <1>7, <1>9 DEF Rest

LEMMA TransferDoneRest ==
    ASSUME TypeInv, NEW t \in transfers, NEW result, TransferDone(t, result)
    PROVE  Rest'
  <1>1. /\ IndInv /\ Rest /\ records \in [Ids -> Record]
    BY TypeInvGives
  <1>2. /\ UNCHANGED <<epoch, wallet, rewardsLeft, order, channel>>
        /\ records' = SetStatus(records, {t.id},
                                IF result = "ok" THEN "DELEGATION_QUEUE" ELSE "TRANSFER_QUEUE")
        /\ records[t.id].status # "NONE"
        /\ moduleAcct' = [moduleAcct EXCEPT ![records[t.id].zone] =
                            IF result = "ok" THEN @ ELSE @ + t.amount]
    BY DEF TransferDone, TransferCallback
  <1>3. Present(records') = Present(records)
    <2> DEFINE s == IF result = "ok" THEN "DELEGATION_QUEUE" ELSE "TRANSFER_QUEUE"
    <2>1. s \in Statuses \ {"NONE"}
      BY DEF Statuses
    <2>2. \A i \in {t.id} : i \in Ids => records[i].status # "NONE"
      BY <1>2
    <2>3. records' = SetStatus(records, {t.id}, s)
      BY <1>2
    <2> HIDE DEF s
    <2> QED
      BY <1>1, <2>1, <2>2, <2>3, SetStatusPresent
  <1>4. OrderOK'
    BY <1>1, <1>2, <1>3, SameOrder DEF Rest
  <1>5. PacketsNumbered'
    BY <1>1, <1>2, SamePackets DEF Rest
  <1>6. t.amount \in Nat
    BY <1>1 DEF IndInv, RecordsTypeOK, PacketsMatchRecords, TransferPacket, Record
  <1>7. moduleAcct' \in [Zones -> Nat]
    <2> DEFINE y == records[t.id].zone
    <2>1. moduleAcct \in [Zones -> Nat]
      BY <1>1 DEF Rest, PurseOK
    <2>2. CASE result = "ok"
      <3>1. moduleAcct' = [moduleAcct EXCEPT ![y] = @]
        BY <1>2, <2>2
      <3> HIDE DEF y
      <3> QED
        BY <2>1, <3>1
    <2>3. CASE result # "ok"
      <3>1. moduleAcct' = [moduleAcct EXCEPT ![y] = @ + t.amount]
        BY <1>2, <2>3
      <3>2. \A x \in Zones : moduleAcct[x] \in Nat /\ moduleAcct[x] + t.amount \in Nat
        BY <1>6, <2>1
      <3> HIDE DEF y
      <3> QED
        BY <2>1, <3>1, <3>2
    <2> QED
      BY <2>2, <2>3
  <1>8. PurseOK'
    BY <1>1, <1>2, <1>7 DEF Rest, PurseOK
  <1> QED
    BY <1>4, <1>5, <1>8 DEF Rest

LEMMA ExecuteICARest ==
    ASSUME TypeInv, NEW z \in Zones, NEW p \in channel[z].pkts, NEW result \in {"ok", "err"},
           ExecuteICA(z, p, result)
    PROVE  Rest'
  <1>1. /\ IndInv /\ Rest
        /\ channel \in [Zones -> [state : {"OPEN", "CLOSED", "INIT"}, pkts : SUBSET ICAPacket]]
        /\ \A y \in Zones : /\ IsFiniteSet(channel[y].pkts)
                            /\ Cardinality(channel[y].pkts) \in Nat
                            /\ Numbered(channel[y].pkts, Cardinality(channel[y].pkts))
    BY TypeInvGives
  <1> DEFINE q == [p EXCEPT !.state = result]
             S == (channel[z].pkts \ {p}) \cup {q}
  <1>2. /\ UNCHANGED <<epoch, wallet, rewardsLeft, moduleAcct, records, order>>
        /\ channel' = [channel EXCEPT ![z].pkts = S]
    BY DEF ExecuteICA, stride
  <1>3. p \in ICAPacket
    BY <1>1
  <1>4. q.seq = p.seq
    BY <1>3 DEF ICAPacket
  <1> HIDE DEF q
  <1>5. Numbered(S, Cardinality(channel[z].pkts))
    BY <1>1, <1>4, ReplacedNumbered
  <1>6. IsFiniteSet(S)
    BY <1>1, FS_RemoveElement, FS_AddElement
  <1> HIDE DEF S
  <1>7. Numbered(S, Cardinality(S))
    BY <1>1, <1>5, <1>6, NumberedIs
  <1>8. PacketsNumbered'
    <2>1. \A y \in Zones : channel'[y].pkts = IF y = z THEN S ELSE channel[y].pkts
      BY <1>1, <1>2
    <2> QED
      BY <1>1, <1>7, <2>1 DEF PacketsNumbered
  <1>9. OrderOK'
    BY <1>1, <1>2, SameOrder DEF Rest
  <1> QED
    BY <1>1, <1>2, <1>8, <1>9 DEF Rest, PurseOK

LEMMA AckICARest ==
    ASSUME TypeInv, NEW z \in Zones, NEW p \in channel[z].pkts, AckICA(z, p)
    PROVE  Rest'
  <1>1. /\ IndInv /\ Rest /\ records \in [Ids -> Record]
        /\ channel \in [Zones -> [state : {"OPEN", "CLOSED", "INIT"}, pkts : SUBSET ICAPacket]]
        /\ \A y \in Zones : /\ IsFiniteSet(channel[y].pkts)
                            /\ Cardinality(channel[y].pkts) \in Nat
                            /\ Numbered(channel[y].pkts, Cardinality(channel[y].pkts))
    BY TypeInvGives
  <1> DEFINE pkts == channel[z].pkts
             f == [q \in pkts |-> [q EXCEPT !.seq = @ - 1]]
             S == {[q EXCEPT !.seq = @ - 1] : q \in pkts \ {p}}
             n == Cardinality(pkts)
  <1>2. /\ UNCHANGED <<epoch, wallet, rewardsLeft, moduleAcct>>
        /\ channel' = [channel EXCEPT ![z].pkts = S] /\ p.seq = 1 /\ p.state # "sent"
    BY DEF AckICA
  <1>3. \A q \in pkts : f[q].seq = q.seq - 1
    <2>1. \A q \in pkts : q \in ICAPacket
      BY <1>1
    <2> QED
      BY <2>1 DEF ICAPacket
  <1>4. \A x : x \in S <=> \E q \in pkts \ {p} : x = f[q]
    OBVIOUS
  <1>5. IsFiniteSet(S)
    <2> DEFINE g == [q \in pkts \ {p} |-> [q EXCEPT !.seq = @ - 1]]
    <2>1. DOMAIN g = pkts \ {p} /\ IsFiniteSet(pkts \ {p})
      BY <1>1, FS_RemoveElement
    <2>2. {g[q] : q \in DOMAIN g} = S
      OBVIOUS
    <2>3. g \in [DOMAIN g -> {g[q] : q \in DOMAIN g}]
      OBVIOUS
    <2> HIDE DEF g, S, pkts
    <2> QED
      BY <2>1, <2>2, <2>3, FiniteImage
  <1> HIDE DEF f, S
  <1>6. n - 1 \in Nat /\ Numbered(S, n - 1)
    <2>1. n \in Nat /\ Numbered(pkts, n)
      BY <1>1
    <2>2. MovesUp(S, pkts, p, f)
      BY <1>3, <1>4 DEF MovesUp
    <2> HIDE DEF n, pkts
    <2>3. p \in pkts
      BY DEF pkts
    <2> QED
      BY <1>2, <2>1, <2>2, <2>3, MovedUpNumbered
  <1>7. Numbered(S, Cardinality(S))
    BY <1>5, <1>6, NumberedIs
  <1>8. PacketsNumbered'
    <2>1. \A y \in Zones : channel'[y].pkts = IF y = z THEN S ELSE channel[y].pkts
      BY <1>1, <1>2
    <2> QED
      BY <1>1, <1>7, <2>1 DEF PacketsNumbered
  <1>9. PurseOK'
    BY <1>1, <1>2 DEF Rest, PurseOK
  <1>10. OrderOK'
    <2>1. Lists(order, Present(records))
      BY <1>1 DEF Rest, OrderOK
    <2>2. CASE p.msg = SetWithdrawAddress
      <3>1. UNCHANGED <<records, order>>
        BY <2>2 DEF AckICA
      <3> QED
        BY <1>1, <3>1, SameOrder DEF Rest
    <2>3. CASE p.msg # SetWithdrawAddress
      <3>1. /\ records[p.msg].status # "NONE"
            /\ records' = DelegateCallback(p)
            /\ order' = IF p.state = "ok" THEN Without(order, {p.msg}) ELSE order
        BY <2>3 DEF AckICA
      <3>2. CASE p.state = "ok"
        <4>1. Present(records') = Present(records) \ {p.msg}
          BY <3>1, <3>2, DeletePresent DEF DelegateCallback
        <4>2. Lists(Without(order, {p.msg}), Present(records) \ {p.msg})
          BY <2>1, WithoutLists
        <4> QED
          BY <3>1, <3>2, <4>1, <4>2 DEF OrderOK
      <3>3. CASE p.state # "ok"
        <4>1. p.state = "err"
          BY <1>1, <1>2, <3>3 DEF ICAPacket, PacketStates
        <4>2. records' = SetStatus(records, {p.msg}, "DELEGATION_QUEUE")
          BY <3>1, <4>1 DEF DelegateCallback
        <4>3. "DELEGATION_QUEUE" \in Statuses \ {"NONE"}
          BY DEF Statuses
        <4>4. \A i \in {p.msg} : i \in Ids => records[i].status # "NONE"
          BY <3>1
        <4>5. Present(records') = Present(records)
          BY <1>1, <4>2, <4>3, <4>4, SetStatusPresent
        <4> QED
          BY <1>1, <3>1, <3>3, <4>5, SameOrder DEF Rest
      <3> QED
        BY <3>2, <3>3
    <2> QED
      BY <2>2, <2>3
  <1> QED
    BY <1>8, <1>9, <1>10 DEF Rest

LEMMA TimeoutICARest ==
    ASSUME TypeInv, NEW z \in Zones, TimeoutICA(z)
    PROVE  Rest'
  <1>1. /\ IndInv /\ Rest
        /\ channel \in [Zones -> [state : {"OPEN", "CLOSED", "INIT"}, pkts : SUBSET ICAPacket]]
    BY TypeInvGives
  <1>2. /\ UNCHANGED <<epoch, wallet, rewardsLeft, moduleAcct, records, order>>
        /\ channel' = [channel EXCEPT ![z] = [state |-> "CLOSED", pkts |-> {}]]
    BY DEF TimeoutICA, stride
  <1>3. \A y \in Zones : channel'[y].pkts = IF y = z THEN {} ELSE channel[y].pkts
    BY <1>1, <1>2
  <1>4. Numbered({}, Cardinality({}))
    BY NoneNumbered, FS_EmptySet
  <1>5. PacketsNumbered'
    BY <1>1, <1>3, <1>4 DEF Rest, PacketsNumbered
  <1>6. OrderOK'
    BY <1>1, <1>2, SameOrder DEF Rest
  <1> QED
    BY <1>1, <1>2, <1>5, <1>6 DEF Rest, PurseOK

LEMMA RestoreRest ==
    ASSUME TypeInv, NEW z \in Zones, RestoreInterchainAccount(z) \/ ChanOpenAck(z)
    PROVE  Rest'
  <1>1. /\ IndInv /\ Rest /\ records \in [Ids -> Record]
        /\ channel \in [Zones -> [state : {"OPEN", "CLOSED", "INIT"}, pkts : SUBSET ICAPacket]]
    BY TypeInvGives
  <1>2. UNCHANGED <<epoch, wallet, rewardsLeft, moduleAcct, order>>
    BY DEF RestoreInterchainAccount, ChanOpenAck, stride
  <1>3. \A y \in Zones : channel'[y].pkts = channel[y].pkts
    BY <1>1 DEF RestoreInterchainAccount, ChanOpenAck
  <1>4. Present(records') = Present(records)
    <2>1. CASE ChanOpenAck(z)
      BY <2>1 DEF ChanOpenAck
    <2>2. CASE RestoreInterchainAccount(z)
      <3>1. records' = SetStatus(records, RevertedRecords(z), "DELEGATION_QUEUE")
        BY <2>2 DEF RestoreInterchainAccount
      <3>2. \A i \in RevertedRecords(z) : i \in Ids => records[i].status # "NONE"
        BY DEF RevertedRecords
      <3>3. "DELEGATION_QUEUE" \in Statuses \ {"NONE"}
        BY DEF Statuses
      <3> QED
        BY <1>1, <3>1, <3>2, <3>3, SetStatusPresent
    <2> QED
      BY <2>1, <2>2
  <1>5. OrderOK'
    BY <1>1, <1>2, <1>4, SameOrder DEF Rest
  <1>6. PacketsNumbered'
    BY <1>1, <1>3, SamePackets DEF Rest
  <1> QED
    BY <1>1, <1>2, <1>5, <1>6 DEF Rest, PurseOK

LEMMA StrideEpochRest ==
    ASSUME TypeInv, NEW failed \in FailureSets, StrideEpoch(failed)
    PROVE  Rest'
  <1> DEFINE slot == CHOOSE s \in Slots(ActiveZones, FreeIds) : TRUE
             e == (epoch + 1) % EpochCycle
             aged == [i \in Ids |-> [records[i] EXCEPT !.fresh = FALSE]]
             recs == CreateDepositRecordsForEpoch(slot)
             ord == order \o NewOrder(slot)
             empty == EmptyRecords(recs, e)
             paid == PaidTransfers(recs, ord, e)
             staked == StakeSubmitted(recs, ord, e)
             sent == paid \ failed
             names == {slot[z] : z \in ActiveZones}
             new(z) == SubmittedPackets(recs, ord, staked, z)
  <1>1. /\ IndInv /\ Rest /\ records \in [Ids -> Record] /\ Present(records) \in SUBSET Ids
        /\ channel \in [Zones -> [state : {"OPEN", "CLOSED", "INIT"}, pkts : SUBSET ICAPacket]]
        /\ \A y \in Zones : /\ IsFiniteSet(channel[y].pkts)
                            /\ Cardinality(channel[y].pkts) \in Nat
                            /\ Numbered(channel[y].pkts, Cardinality(channel[y].pkts))
    BY TypeInvGives
  <1>2. /\ Slots(ActiveZones, FreeIds) # {}
        /\ ProcessDeposits(failed, e, recs, ord, empty, paid, staked)
    BY DEF StrideEpoch
  <1>3. slot \in Slots(ActiveZones, FreeIds)
    BY <1>2
  <1>4. /\ aged \in [Ids -> Record]
        /\ \A i \in Ids : aged[i].status = records[i].status
    BY <1>1 DEF Record
  <1>5. recs = WithNewRecords(aged, slot)
    BY DEF CreateDepositRecordsForEpoch
  <1>6. e \in 0..EpochCycle - 1
    <2>1. epoch \in Nat /\ EpochCycle \in Nat \ {0}
      BY <1>1, DepositRecordsAssumption DEF Rest, PurseOK
    <2> QED
      BY <2>1
  <1> HIDE DEF slot, aged, recs, e
  <1>7. ActiveZones \in SUBSET Zones /\ FreeIds \in SUBSET Ids
    BY DEF ActiveZones, FreeIds
  <1>8. recs \in [Ids -> Record]
    BY <1>3, <1>4, <1>5, <1>7, NewRecordsType
  <1>9. slot \in [ActiveZones -> FreeIds] /\ DOMAIN slot = ActiveZones
    BY <1>3 DEF Slots
  <1>10. Present(recs) = Present(records) \cup names
    <2>1. ASSUME NEW i \in Ids
          PROVE  recs[i].status # "NONE" <=> i \in names \/ records[i].status # "NONE"
      <3>1. recs[i] = IF \E z \in DOMAIN slot : slot[z] = i
                      THEN NewRecord(CHOOSE z \in DOMAIN slot : slot[z] = i, "TRANSFER_QUEUE", 0)
                      ELSE aged[i]
        BY <1>5 DEF WithNewRecords
      <3> QED
        BY <1>4, <1>9, <3>1 DEF NewRecord
    <2>2. names \in SUBSET Ids
      BY <1>7, <1>9
    <2> HIDE DEF names
    <2> QED
      BY <2>1, <2>2 DEF Present
  <1>11. Lists(ord, Present(recs))
    <2>1. Lists(order, Present(records))
      BY <1>1 DEF Rest, OrderOK
    <2>2. Lists(NewOrder(slot), names)
      BY <1>3, <1>7, NewOrderLists
    <2>3. Present(records) \cap names = {}
      BY <1>9 DEF FreeIds
    <2> HIDE DEF names
    <2> QED
      BY <1>10, <2>1, <2>2, <2>3, ConcatLists
  <1>12. Present(recs) \in SUBSET Ids
    BY DEF Present
  <1> HIDE DEF ord, names
  <1>13. /\ empty \subseteq Ids /\ paid \subseteq Ids
         /\ \A i \in paid : recs[i].status = "TRANSFER_QUEUE"
    BY DEF EmptyRecords, PaidTransfers, TransferDue
  <1>14. /\ staked \in SUBSET Present(recs)
         /\ \A i \in staked : recs[i].zone \in ActiveZones /\ channel[recs[i].zone].state = "OPEN"
    BY DEF StakeSubmitted, StakeDue, Present
  <1>15. /\ epoch' = e /\ UNCHANGED <<wallet, rewardsLeft>>
         /\ records' = Delete(SetStatus(SetStatus(recs, sent, "TRANSFER_IN_PROGRESS"),
                                        staked, "DELEGATION_IN_PROGRESS"), empty)
         /\ order' = Without(ord, empty)
         /\ moduleAcct' = [z \in Zones |-> moduleAcct[z]
                - TotalAmount(recs, {i \in paid : recs[i].zone = z})]
         /\ channel' = [z \in Zones |-> [channel[z] EXCEPT !.pkts = @ \cup new(z)]]
    BY <1>2 DEF ProcessDeposits
  <1>16. \A z \in Zones :
           moduleAcct[z] - TotalAmount(recs, {i \in paid : recs[i].zone = z}) \in Nat
    <2>1. moduleAcct \in [Zones -> Nat]
      BY <1>1 DEF Rest, PurseOK
    <2> QED
      BY <1>8, <1>11, <1>12, <2>1, PaidCovered
  <1>17. PurseOK'
    BY <1>1, <1>6, <1>15, <1>16 DEF Rest, PurseOK
  <1> HIDE DEF empty, paid, staked
  <1>18. Present(records') = Present(recs) \ empty
    <2> DEFINE r1 == SetStatus(recs, sent, "TRANSFER_IN_PROGRESS")
               r2 == SetStatus(r1, staked, "DELEGATION_IN_PROGRESS")
    <2>1. {"TRANSFER_IN_PROGRESS", "DELEGATION_IN_PROGRESS"} \subseteq Statuses \ {"NONE"}
      BY DEF Statuses
    <2>2. Present(r1) = Present(recs) /\ r1 \in [Ids -> Record]
      <3>1. \A i \in sent : i \in Ids => recs[i].status # "NONE"
        BY <1>13
      <3>2. "TRANSFER_IN_PROGRESS" \in Statuses
        BY <2>1
      <3> HIDE DEF sent
      <3>3. r1 \in [Ids -> Record]
        BY <1>8, <3>2, SetStatusRecord
      <3>4. Present(r1) = Present(recs)
        BY <1>8, <2>1, <3>1, SetStatusPresent
      <3> QED
        BY <3>3, <3>4
    <2>3. records' = Delete(r2, empty)
      BY <1>15
    <2> HIDE DEF r1
    <2>4. Present(r2) = Present(r1)
      <3>1. \A i \in staked : i \in Ids => r1[i].status # "NONE"
        BY <1>14, <2>2 DEF Present
      <3> QED
        BY <2>1, <2>2, <3>1, SetStatusPresent
    <2> HIDE DEF r2
    <2> QED
      BY <2>2, <2>3, <2>4, DeletePresent
  <1>19. OrderOK'
    <2>1. Lists(Without(ord, empty), Present(recs) \ empty)
      BY <1>11, WithoutLists
    <2> QED
      BY <1>15, <1>18, <2>1 DEF OrderOK
  <1>20. ASSUME NEW z \in Zones
         PROVE  Numbered(channel'[z].pkts, Cardinality(channel'[z].pkts))
    <2>1. channel'[z].pkts = channel[z].pkts \cup new(z)
      BY <1>1, <1>15
    <2>2. LET all == channel[z].pkts \cup new(z) IN Numbered(all, Cardinality(all))
      BY <1>1, <1>8, <1>11, <1>12, <1>14, SubmittedNumbered
    <2> QED
      BY <2>1, <2>2
  <1>21. PacketsNumbered'
    BY <1>20 DEF PacketsNumbered
  <1> QED
    BY <1>17, <1>19, <1>21 DEF Rest

LEMMA NextTypeInv == TypeInv /\ [Next]_vars => TypeInv'
  <1> SUFFICES ASSUME TypeInv, [Next]_vars PROVE TypeInv'
    OBVIOUS
  <1>0. LedgerInv'
    BY NextLedger DEF TypeInv
  <1>1. ASSUME NEW failed \in FailureSets, StrideEpoch(failed) PROVE Rest'
    BY <1>1, StrideEpochRest
  <1>2. ASSUME NEW t \in transfers, NEW result \in {"ok", "err"}, TransferRecv(t, result)
        PROVE  Rest'
    BY <1>2, QuietRest DEF TransferRecv, stride
  <1>3. ASSUME NEW t \in transfers, TransferAck(t) \/ TransferTimeout(t) PROVE Rest'
    BY <1>3, TransferDoneRest DEF TransferAck, TransferTimeout
  <1>4. ASSUME NEW z \in Zones, NEW amount \in StakeAmounts, LiquidStake(z, amount)
        PROVE  Rest'
    BY <1>4, LiquidStakeRest
  <1>5. ASSUME NEW z \in Zones, NEW amount \in RewardAmounts, ReinvestCallback(z, amount)
        PROVE  Rest'
    BY <1>5, ReinvestRest
  <1>6. ASSUME NEW z \in Zones, NEW p \in channel[z].pkts, NEW result \in {"ok", "err"},
               ExecuteICA(z, p, result)
        PROVE  Rest'
    BY <1>6, ExecuteICARest
  <1>7. ASSUME NEW z \in Zones, NEW p \in channel[z].pkts, AckICA(z, p) PROVE Rest'
    BY <1>7, AckICARest
  <1>8. ASSUME NEW z \in Zones, TimeoutICA(z) PROVE Rest'
    BY <1>8, TimeoutICARest
  <1>9. ASSUME NEW z \in Zones, RestoreInterchainAccount(z) \/ ChanOpenAck(z) PROVE Rest'
    BY <1>9, RestoreRest
  <1>10. ASSUME NEW z \in Zones, BeginBlocker(z) PROVE Rest'
    BY <1>10, QuietRest DEF BeginBlocker
  <1>11. ASSUME UNCHANGED vars PROVE Rest'
    BY <1>11, QuietRest DEF vars, stride
  <1>12. Rest'
    BY <1>1, <1>2, <1>3, <1>4, <1>5, <1>6, <1>7, <1>8, <1>9, <1>10, <1>11 DEF Next
  <1> QED
    BY <1>0, <1>12 DEF TypeInv, Rest

\* For any zones, amounts, intervals and limits: no account of either chain is
\* overdrawn, the hook's transfers included; the store's iteration meets every
\* record once; and the packets of a channel are numbered without gaps.
THEOREM TypeOKHolds == Spec => []TypeOK
  <1>1. TypeInv /\ [Next]_vars => TypeInv'
    BY NextTypeInv
  <1> QED
    BY <1>1, InitTypeInv, TypeInvImplies, PTL DEF Spec
=============================================================================
