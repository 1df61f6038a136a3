---------------------------- MODULE ClaimProofs ----------------------------
(***************************************************************************)
(* For any airdrops, prefixes among their identifiers, weights of either   *)
(* sign, balances and durations: the shares, claims and pools of Claim.    *)
(*                                                                         *)
(* The properties hold together or not at all.  A claim is paid once       *)
(* because a paid action is among the completed ones (RecordOK); what it   *)
(* pays is a natural number because the claim is aborted otherwise         *)
(* (Aborts); and being a number it cancels out of the pool.  Where no      *)
(* weight was negative, the weights of the records are positive and add up *)
(* to the total at most (WeightsOK), so that no claim is aborted.          *)
(***************************************************************************)
EXTENDS Claim, LedgerTheorems

\* What the record of a user counts for in the weight of an airdrop.
WeightPart(recs, a) ==
    [u \in Users |-> IF recs[a][u] = NoRecord THEN 0 ELSE recs[a][u].weight]

\* An action paid for in this round is completed, unless another airdrop's epoch opened
\* the record again.
RecordOK(rec) ==
    rec # NoRecord =>
        /\ rec \in Record
        /\ rec.early \/ \A c \in Actions : rec.paid[c] = 0 \/ (rec.paid[c] = 1 /\ c \in rec.completed)

RecordsOK(recs) == \A a \in Identifiers, u \in Users : RecordOK(recs[a][u])

Positive(recs, a) == \A u \in Users : recs[a][u] # NoRecord => recs[a][u].weight > 0

WeightsOK ==
    \A a \in Identifiers \ negative :
        /\ Positive(record, a)
        /\ SumFunctionOnSet(WeightPart(record, a), Users) <= totalWeight[a]

ClaimInv == TypeOK /\ RecordsOK(record) /\ WeightsOK /\ PoolOfRound /\ GrantsArePaid

Airdrop == [live : BOOLEAN, start : 0..MaxTime + 1, epochs : 0..MaxTime, claimedSoFar : Nat]

-----------------------------------------------------------------------------
(* Weights *)

\* The weights of the allocated users are the weights of all users, absent ones
\* counting for nothing.
LEMMA AllocatedIsSum ==
    TypeOK => \A a \in Identifiers :
                AllocatedWeight(a) = SumFunctionOnSet(WeightPart(record, a), Users)
  <1> SUFFICES ASSUME TypeOK, NEW a \in Identifiers
               PROVE  AllocatedWeight(a) = SumFunctionOnSet(WeightPart(record, a), Users)
    OBVIOUS
  <1> DEFINE allocated == {u \in Users : record[a][u] # NoRecord}
             f == [u \in allocated |-> record[a][u].weight]
             g == WeightPart(record, a)
  <1>1. AllocatedWeight(a) = SumFunctionOnSet(f, allocated)
    BY DEF AllocatedWeight, SumFunction
  <1>2. \A u \in Users : record[a][u] \in Record \cup {NoRecord}
    BY DEF TypeOK
  <1>3. \A u \in allocated : f[u] = g[u] /\ g[u] \in Int
    BY <1>2 DEF WeightPart, Record
  <1>4. \A u \in Users \ allocated : g[u] = 0
    BY DEF WeightPart
  <1>5. allocated \in SUBSET Users /\ IsFiniteSet(Users)
    BY ClaimAssumption
  <1> HIDE DEF f, g, allocated
  <1>6. SumFunctionOnSet(f, allocated) = SumFunctionOnSet(g, Users)
    BY <1>3, <1>4, <1>5, SumRestrict
  <1> QED
    BY <1>1, <1>6 DEF g

\* The weights of records are integers, and natural numbers where they are positive.
LEMMA WeightInt ==
    ASSUME NEW recs, RecordsOK(recs), NEW a \in Identifiers
    PROVE  \A u \in Users : WeightPart(recs, a)[u] \in Int
  <1> SUFFICES ASSUME NEW u \in Users
               PROVE  WeightPart(recs, a)[u] \in Int
    OBVIOUS
  <1>1. RecordOK(recs[a][u])
    BY DEF RecordsOK
  <1> QED
    BY <1>1 DEF WeightPart, RecordOK, Record

LEMMA WeightNat ==
    ASSUME NEW recs, RecordsOK(recs), NEW a \in Identifiers, Positive(recs, a)
    PROVE  \A u \in Users : WeightPart(recs, a)[u] \in Nat
  <1> SUFFICES ASSUME NEW u \in Users
               PROVE  WeightPart(recs, a)[u] \in Nat
    OBVIOUS
  <1>1. WeightPart(recs, a)[u] \in Int
    BY WeightInt
  <1>2. WeightPart(recs, a)[u] >= 0
    BY <1>1 DEF WeightPart, Positive
  <1> QED
    BY <1>1, <1>2

\* Their sum is an integer.
LEMMA WeightSumInt ==
    ASSUME NEW recs, RecordsOK(recs), NEW a \in Identifiers
    PROVE  SumFunctionOnSet(WeightPart(recs, a), Users) \in Int
  <1>1. \A u \in Users : WeightPart(recs, a)[u] \in Int
    BY WeightInt
  <1> QED
    BY <1>1, SumInt, ClaimAssumption

\* Positive weights add up to no more than before when each has stayed or gone ...
LEMMA WeightsFall ==
    ASSUME NEW recs, NEW news, NEW a \in Identifiers,
           RecordsOK(recs), RecordsOK(news), Positive(recs, a),
           \A u \in Users : news[a][u] = NoRecord \/
                            (/\ recs[a][u] # NoRecord
                             /\ news[a][u].weight = recs[a][u].weight)
    PROVE  /\ Positive(news, a)
           /\ SumFunctionOnSet(WeightPart(news, a), Users)
                <= SumFunctionOnSet(WeightPart(recs, a), Users)
  <1>0. Positive(news, a)
    BY DEF Positive
  <1> DEFINE f == WeightPart(recs, a)
             g == WeightPart(news, a)
  <1>1. \A u \in Users : f[u] \in Nat /\ g[u] \in Nat
    BY <1>0, WeightNat
  <1>2. \A u \in Users : g[u] <= f[u]
    <2> SUFFICES ASSUME NEW u \in Users
                 PROVE  g[u] <= f[u]
      OBVIOUS
    <2>1. CASE news[a][u] = NoRecord
      <3>1. g[u] = 0
        BY <2>1 DEF WeightPart
      <3> QED
        BY <3>1, <1>1
    <2>2. CASE news[a][u] # NoRecord
      <3>1. g[u] = f[u]
        BY <2>2 DEF WeightPart
      <3> QED
        BY <3>1, <1>1
    <2> QED
      BY <2>1, <2>2
  <1>3. \A u \in Users : f[u] \in Int /\ g[u] \in Int /\ g[u] <= f[u]
    BY <1>1, <1>2
  <1>4. IsFiniteSet(Users)
    BY ClaimAssumption
  <1> HIDE DEF f, g
  <1>5. SumFunctionOnSet(g, Users) <= SumFunctionOnSet(f, Users)
    BY <1>3, <1>4, SumLeq
  <1> QED
    BY <1>0, <1>5 DEF f, g

\* ... and a record is at most a part of its airdrop's weight.
LEMMA WeightOfOne ==
    ASSUME RecordsOK(record), WeightsOK, TypeOK, NEW a \in Identifiers \ negative,
           NEW u \in Users, record[a][u] # NoRecord
    PROVE  totalWeight[a] \in Nat \ {0} /\ record[a][u].weight \in Nat \ {0}
  <1> DEFINE f == WeightPart(record, a)
  <1>0. Positive(record, a)
    BY DEF WeightsOK
  <1>1. \A v \in Users : f[v] \in Nat
    BY <1>0, WeightNat
  <1>2. f[u] > 0 /\ f[u] = record[a][u].weight
    BY <1>0 DEF Positive, WeightPart
  <1>3. IsFiniteSet(Users) /\ IsFiniteSet(Users \ {u})
    BY ClaimAssumption, FS_Subset
  <1>4. SumFunctionOnSet(f, Users) <= totalWeight[a]
    BY DEF WeightsOK
  <1> HIDE DEF f
  <1>5. SumFunctionOnSet(f, Users) = f[u] + SumFunctionOnSet(f, Users \ {u})
    BY <1>1, <1>3, SumRemove
  <1>6. SumFunctionOnSet(f, Users \ {u}) \in Nat
    BY <1>1, <1>3, SumNat
  <1>7. totalWeight[a] \in Int
    BY DEF TypeOK
  <1> QED
    BY <1>1, <1>2, <1>4, <1>5, <1>6, <1>7

-----------------------------------------------------------------------------
(* The amount of a claim *)

LEMMA AbsNat ==
    ASSUME NEW n \in Int
    PROVE  Abs(n) \in Nat /\ (n # 0 => Abs(n) \in Nat \ {0})
  BY DEF Abs

\* A share of a pool is an integer, if there is a total weight to divide by, and not
\* negative, if the weights have one sign.
LEMMA ShareInt ==
    ASSUME NEW total \in Nat, NEW action, NEW weight \in Int, NEW weights \in Int \ {0}
    PROVE  /\ Share(total, action, weight, weights) \in Int
           /\ (weight < 0 <=> weights < 0) => Share(total, action, weight, weights) \in Nat
  <1> DEFINE part == Mul(NewDecFromInt(total), PercentageFor(action))
             wpart == Mul(part, NewDecFromInt(Abs(weight)))
             quo == Quo(wpart, NewDecFromInt(Abs(weights)))
  <1>1. PercentageFor(action) \in Nat
    <2> DEFINE tenths == IF action = "ACTION_LIQUID_STAKE" THEN 6 ELSE 2
    <2>1. tenths \in Nat
      OBVIOUS
    <2> HIDE DEF tenths
    <2>2. tenths * Precision \in Nat
      BY <2>1, PrecisionAssumption
    <2>3. (tenths * Precision) \div 10 \in Nat
      BY <2>2
    <2> QED
      BY <2>3 DEF PercentageFor, tenths
  <1>2. NewDecFromInt(total) \in Nat
    BY NewDecNat
  <1>3. NewDecFromInt(Abs(weight)) \in Nat
    BY AbsNat, NewDecNat
  <1>4. NewDecFromInt(Abs(weights)) \in Nat \ {0}
    BY AbsNat, NewDecNat
  <1>5. part \in Nat
    BY <1>1, <1>2, MulNat
  <1> HIDE DEF part
  <1>6. wpart \in Nat
    BY <1>3, <1>5, MulNat
  <1> HIDE DEF wpart
  <1>7. quo \in Nat
    BY <1>4, <1>6, QuoNat
  <1> HIDE DEF quo
  <1>8. RoundInt(quo) \in Nat
    BY <1>7, ChopNat DEF RoundInt
  <1>9. Share(total, action, weight, weights)
          = IF weight < 0 <=> weights < 0 THEN RoundInt(quo) ELSE -RoundInt(quo)
    BY DEF Share, quo, wpart, part
  <1> QED
    BY <1>8, <1>9

LEMMA ShareForInt ==
    ASSUME ClaimInv, NEW a \in Identifiers, NEW u \in Users, NEW action,
           record[a][u] # NoRecord, totalWeight[a] # 0
    PROVE  /\ ShareFor(a, u, action) \in Int
           /\ (record[a][u].weight < 0 <=> totalWeight[a] < 0) => ShareFor(a, u, action) \in Nat
  <1> DEFINE total == balance[a] + airdrop[a].claimedSoFar
  <1>1. totalWeight[a] \in Int \ {0}
    BY DEF ClaimInv, TypeOK
  <1>2. record[a][u].weight \in Int
    <2>1. RecordOK(record[a][u])
      BY DEF ClaimInv, RecordsOK
    <2> QED
      BY <2>1 DEF RecordOK, Record
  <1>3. total \in Nat
    BY DEF ClaimInv, TypeOK
  <1>4. ShareFor(a, u, action) = Share(total, action, record[a][u].weight, totalWeight[a])
    BY DEF ShareFor
  <1> HIDE DEF total
  <1> QED
    BY <1>1, <1>2, <1>3, <1>4, ShareInt

LEMMA ElapsedInt ==
    ASSUME ClaimInv, NEW a \in Identifiers
    PROVE  Elapsed(a) \in Int
  <1>1. time \in Int
    BY ClaimAssumption DEF ClaimInv, TypeOK
  <1>2. airdrop[a].start \in 0..MaxTime + 1
    BY DEF ClaimInv, TypeOK
  <1> QED
    BY <1>1, <1>2 DEF Elapsed

\* What GetClaimableAmountForAction returns, when it does, is a natural number, and
\* zero for a completed action.
LEMMA AmountNat ==
    ASSUME ClaimInv, NEW u \in Users, NEW action, ~Aborts(u, action),
           NEW a \in GetAirdropIdentifiersForUser(u)
    PROVE  /\ GetClaimableAmountForAction(a, u, action) \in Nat
           /\ action \in record[a][u].completed => GetClaimableAmountForAction(a, u, action) = 0
  <1>1. a \in Identifiers /\ record[a][u] # NoRecord
    BY DEF GetAirdropIdentifiersForUser
  <1>2. CASE \/ action \in record[a][u].completed
             \/ Elapsed(a) < 0
             \/ Elapsed(a) > AirdropDuration
    BY <1>2 DEF GetClaimableAmountForAction
  <1>3. CASE /\ action \notin record[a][u].completed
             /\ ~(Elapsed(a) < 0)
             /\ ~(Elapsed(a) > AirdropDuration)
    <2>1. Elapsed(a) >= 0
      BY <1>1, <1>3, ElapsedInt
    <2>2. totalWeight[a] # 0 /\ ~(ShareFor(a, u, action) < 0)
      BY <1>3, <2>1 DEF Aborts, Panics
    <2>3. ShareFor(a, u, action) \in Int
      BY <1>1, <2>2, ShareForInt
    <2>4. GetClaimableAmountForAction(a, u, action) = ShareFor(a, u, action)
      BY <1>3 DEF GetClaimableAmountForAction
    <2> QED
      BY <1>3, <2>2, <2>3, <2>4
  <1> QED
    BY <1>2, <1>3

-----------------------------------------------------------------------------
(* The initial state *)

LEMMA NewRecordOK ==
    ASSUME NEW w \in Int
    PROVE  RecordOK(NewRecord(w)) /\ NewRecord(w) \in Record
  BY DEF RecordOK, NewRecord, Record

LEMMA ClaimInvInit ==
    ASSUME Init
    PROVE  ClaimInv
  <1> USE ClaimAssumption
  <1>1. RecordsOK(record)
    <2> SUFFICES ASSUME NEW a \in Identifiers, NEW u \in Users
                 PROVE  RecordOK(record[a][u])
      BY DEF RecordsOK
    <2>1. GenesisWeight[a][u] \in Int
      OBVIOUS
    <2>2. record[a][u] = NoRecord \/ record[a][u] = NewRecord(GenesisWeight[a][u])
      BY DEF Init
    <2> QED
      BY <2>1, <2>2, NewRecordOK DEF RecordOK
  <1>2. \A a \in Identifiers :
          /\ \A u \in Users : [v \in Users |-> GenesisWeight[a][v]][u] \in Int
          /\ totalWeight[a] = SumFunctionOnSet([u \in Users |-> GenesisWeight[a][u]], Users)
    BY DEF Init, SumFunction
  <1>3. WeightsOK
    <2> SUFFICES ASSUME NEW a \in Identifiers \ negative
                 PROVE  /\ Positive(record, a)
                        /\ SumFunctionOnSet(WeightPart(record, a), Users) <= totalWeight[a]
      BY DEF WeightsOK
    <2> DEFINE f == [u \in Users |-> GenesisWeight[a][u]]
               g == WeightPart(record, a)
    <2>1. \A u \in Users : f[u] \in Nat
      <3> SUFFICES ASSUME NEW u \in Users
                   PROVE  GenesisWeight[a][u] \in Nat
        OBVIOUS
      <3>1. GenesisWeight[a][u] \in Int
        OBVIOUS
      <3>2. ~(GenesisWeight[a][u] < 0)
        BY DEF Init
      <3> QED
        BY <3>1, <3>2
    <2>2. \A u \in Users : record[a][u] # NoRecord =>
            f[u] # 0 /\ record[a][u].weight = f[u]
      <3> SUFFICES ASSUME NEW u \in Users, record[a][u] # NoRecord
                   PROVE  f[u] # 0 /\ record[a][u].weight = f[u]
        OBVIOUS
      <3>1. record[a][u] = NewRecord(GenesisWeight[a][u]) /\ GenesisWeight[a][u] # 0
        BY DEF Init
      <3> QED
        BY <3>1 DEF NewRecord
    <2>3. \A u \in Users : g[u] = f[u] \/ g[u] = 0
      BY <2>2 DEF WeightPart
    <2>4. Positive(record, a)
      BY <2>1, <2>2 DEF Positive
    <2>5. IsFiniteSet(Users) /\ totalWeight[a] = SumFunctionOnSet(f, Users)
      BY <1>2
    <2> HIDE DEF f, g
    <2>6. \A u \in Users : f[u] \in Int /\ g[u] \in Int /\ g[u] <= f[u]
      BY <2>1, <2>3
    <2> QED
      BY <2>4, <2>5, <2>6, SumLeq DEF g
  <1>4. record \in [Identifiers -> [Users -> Record \cup {NoRecord}]]
    <2>1. \A a \in Identifiers, u \in Users : record[a][u] \in Record \cup {NoRecord}
      BY <1>1 DEF RecordsOK, RecordOK
    <2> HIDE ClaimAssumption
    <2>2. \A a \in Identifiers : record[a] \in [Users -> Record \cup {NoRecord}]
      <3> SUFFICES ASSUME NEW a \in Identifiers
                   PROVE  record[a] \in [Users -> Record \cup {NoRecord}]
        OBVIOUS
      <3>1. record[a] = [u \in Users |-> record[a][u]]
        BY DEF Init
      <3> QED
        BY <3>1, <2>1
    <2>3. record = [a \in Identifiers |-> record[a]]
      BY DEF Init
    <2> QED
      BY <2>2, <2>3
  <1>5. airdrop \in [Identifiers -> Airdrop]
    <2>1. NewAirdrop(0) \in Airdrop
      BY DEF NewAirdrop, Airdrop
    <2> QED
      BY <2>1 DEF Init
  <1>6. totalWeight \in [Identifiers -> Int]
    <2>1. totalWeight = [a \in Identifiers |-> totalWeight[a]]
      BY DEF Init
    <2>2. \A a \in Identifiers : totalWeight[a] \in Int
      <3> SUFFICES ASSUME NEW a \in Identifiers
                   PROVE  totalWeight[a] \in Int
        OBVIOUS
      <3> DEFINE f == [u \in Users |-> GenesisWeight[a][u]]
      <3>1. IsFiniteSet(Users) /\ (\A u \in Users : f[u] \in Int)
            /\ totalWeight[a] = SumFunctionOnSet(f, Users)
        BY <1>2
      <3> HIDE DEF f
      <3> QED
        BY <3>1, SumInt
    <2> QED
      BY <2>1, <2>2
  <1>7. TypeOK
    BY <1>4, <1>5, <1>6 DEF Init, TypeOK, Airdrop
  <1>8. PoolOfRound /\ GrantsArePaid
    BY DEF Init, PoolOfRound, GrantsArePaid, NewAirdrop
  <1> QED
    BY <1>1, <1>3, <1>7, <1>8 DEF ClaimInv

-----------------------------------------------------------------------------
(* Claims *)

\* A table of records that are all in order is well-typed.
LEMMA RecordType ==
    ASSUME NEW recs, recs = [a \in Identifiers |-> recs[a]],
           \A a \in Identifiers : recs[a] = [u \in Users |-> recs[a][u]],
           RecordsOK(recs)
    PROVE  recs \in [Identifiers -> [Users -> Record \cup {NoRecord}]]
  <1>1. \A a \in Identifiers, u \in Users : recs[a][u] \in Record \cup {NoRecord}
    BY DEF RecordsOK, RecordOK
  <1>2. \A a \in Identifiers : recs[a] \in [Users -> Record \cup {NoRecord}]
    <2> SUFFICES ASSUME NEW a \in Identifiers
                 PROVE  recs[a] \in [Users -> Record \cup {NoRecord}]
      OBVIOUS
    <2> QED
      BY <1>1
  <1> QED
    BY <1>2

\* Completing an action that was open keeps a record in order.
LEMMA ActionCompletedOK ==
    ASSUME NEW rec, rec # NoRecord, RecordOK(rec),
           NEW action \in Actions, action \notin rec.completed
    PROVE  /\ RecordOK(ActionCompleted(rec, action))
           /\ ActionCompleted(rec, action).weight = rec.weight
  <1> DEFINE new == ActionCompleted(rec, action)
             n == IF rec.paid[action] < 2 THEN rec.paid[action] + 1 ELSE rec.paid[action]
  <1>1. rec \in Record
    BY DEF RecordOK
  <1>2. rec.paid \in [Actions -> 0..2] /\ rec.completed \in SUBSET Actions
    BY <1>1 DEF Record
  <1>3. /\ new.weight = rec.weight
        /\ new.early = rec.early
        /\ new.completed = rec.completed \cup {action}
        /\ new.paid = [rec.paid EXCEPT ![action] = n]
    BY <1>1 DEF ActionCompleted, Record
  <1>4. n \in 0..2
    BY <1>2
  <1>5. [rec.paid EXCEPT ![action] = n] \in [Actions -> 0..2]
    BY <1>2, <1>4
  <1>6. new \in Record
    BY <1>1, <1>2, <1>3, <1>5 DEF ActionCompleted, Record
  <1>7. ~rec.early =>
          \A c \in Actions : new.paid[c] = 0 \/ (new.paid[c] = 1 /\ c \in new.completed)
    <2> SUFFICES ASSUME ~rec.early, NEW c \in Actions
                 PROVE  new.paid[c] = 0 \/ (new.paid[c] = 1 /\ c \in new.completed)
      OBVIOUS
    <2>1. \A d \in Actions : rec.paid[d] = 0 \/ (rec.paid[d] = 1 /\ d \in rec.completed)
      BY DEF RecordOK
    <2>2. rec.paid[action] = 0
      BY <2>1
    <2>3. n = 1
      BY <2>2
    <2>4. CASE c = action
      BY <2>3, <2>4, <1>2, <1>3
    <2>5. CASE c # action
      BY <2>1, <2>5, <1>2, <1>3
    <2> QED
      BY <2>4, <2>5
  <1> HIDE DEF new
  <1> QED
    BY <1>3, <1>6, <1>7 DEF RecordOK, new

\* What a claim of the airdrops sent does, once none of them fails.
ClaimSent(u, action, sent) ==
    /\ unpaid' = [unpaid EXCEPT ![u] = @ + SumFunction([a \in {} |-> 0])]
    /\ balance' = [a \in Identifiers |->
         IF a \in sent THEN balance[a] - GetClaimableAmountForAction(a, u, action) ELSE balance[a]]
    /\ record' = [a \in Identifiers |->
         IF a \in sent THEN [record[a] EXCEPT ![u] = ActionCompleted(@, action)] ELSE record[a]]
    /\ airdrop' = [a \in Identifiers |->
         IF a \in sent
         THEN [airdrop[a] EXCEPT !.claimedSoFar = @ + GetClaimableAmountForAction(a, u, action)]
         ELSE airdrop[a]]
    /\ UNCHANGED <<time, changes, totalWeight, pool, negative>>

\* An airdrop that pays has the amount, for an action that was open.
LEMMA SentPays ==
    ASSUME ClaimInv, NEW u \in Users, NEW action, ~Aborts(u, action),
           NEW a \in Claimable(u, action) \ Unpayable(u, action)
    PROVE  /\ a \in Identifiers
           /\ record[a][u] # NoRecord
           /\ action \notin record[a][u].completed
           /\ GetClaimableAmountForAction(a, u, action) \in Nat
           /\ GetClaimableAmountForAction(a, u, action) <= balance[a]
  <1>1. /\ a \in Identifiers /\ record[a][u] # NoRecord
        /\ a \in GetAirdropIdentifiersForUser(u)
    BY DEF Claimable, GetAirdropIdentifiersForUser
  <1>2. /\ GetClaimableAmountForAction(a, u, action) > 0
        /\ ~(GetClaimableAmountForAction(a, u, action) > balance[a])
    BY DEF Claimable, Unpayable
  <1>3. /\ GetClaimableAmountForAction(a, u, action) \in Nat
        /\ action \in record[a][u].completed => GetClaimableAmountForAction(a, u, action) = 0
    BY <1>1, AmountNat
  <1>4. balance[a] \in Nat
    BY <1>1 DEF ClaimInv, TypeOK
  <1> HIDE DEF GetClaimableAmountForAction
  <1> QED
    BY <1>1, <1>2, <1>3, <1>4

LEMMA ClaimSentStep ==
    ASSUME ClaimInv, NEW u \in Users, NEW action \in Actions, ~Aborts(u, action),
           NEW sent \in SUBSET (Claimable(u, action) \ Unpayable(u, action)),
           ClaimSent(u, action, sent)
    PROVE  ClaimInv'
  <1> DEFINE Amount(a) == GetClaimableAmountForAction(a, u, action)
  <1>1. \A a \in sent : /\ record[a][u] # NoRecord
                        /\ action \notin record[a][u].completed
                        /\ Amount(a) \in Nat
                        /\ Amount(a) <= balance[a]
    BY SentPays
  <1>2. /\ balance' = [a \in Identifiers |->
             IF a \in sent THEN balance[a] - Amount(a) ELSE balance[a]]
        /\ airdrop' = [a \in Identifiers |->
             IF a \in sent THEN [airdrop[a] EXCEPT !.claimedSoFar = @ + Amount(a)] ELSE airdrop[a]]
    BY DEF ClaimSent
  <1> HIDE DEF Amount
  <1>3. /\ time \in 0..MaxTime /\ changes \in 0..MaxChanges
        /\ airdrop \in [Identifiers -> Airdrop]
        /\ record \in [Identifiers -> [Users -> Record \cup {NoRecord}]]
        /\ totalWeight \in [Identifiers -> Int]
        /\ balance \in [Identifiers -> Nat]
        /\ unpaid \in [Users -> Nat]
        /\ pool \in [Identifiers -> Int]
        /\ negative \subseteq Identifiers
    BY DEF ClaimInv, TypeOK, Airdrop
  <1>4. unpaid' = unpaid
    <2>1. SumFunction([a \in {} |-> 0]) = 0
      BY SumEmpty DEF SumFunction
    <2>2. unpaid' = [unpaid EXCEPT ![u] = unpaid[u] + 0]
      BY <2>1 DEF ClaimSent
    <2> QED
      BY <2>2, <1>3
  <1>5. balance' \in [Identifiers -> Nat]
    BY <1>1, <1>2, <1>3
  <1>6. \A a \in Identifiers : /\ airdrop'[a] \in Airdrop
                               /\ airdrop'[a].live = airdrop[a].live
                               /\ airdrop'[a].claimedSoFar = airdrop[a].claimedSoFar
                                    + (IF a \in sent THEN Amount(a) ELSE 0)
    <2> SUFFICES ASSUME NEW a \in Identifiers
                 PROVE  /\ airdrop'[a] \in Airdrop
                        /\ airdrop'[a].live = airdrop[a].live
                        /\ airdrop'[a].claimedSoFar = airdrop[a].claimedSoFar
                                    + (IF a \in sent THEN Amount(a) ELSE 0)
      OBVIOUS
    <2>1. airdrop[a] \in Airdrop /\ airdrop[a].claimedSoFar \in Nat
      BY <1>3 DEF Airdrop
    <2>2. CASE a \notin sent
      <3>1. airdrop'[a] = airdrop[a]
        BY <1>2, <2>2
      <3> QED
        BY <3>1, <2>1, <2>2
    <2>3. CASE a \in sent
      <3>1. airdrop'[a] = [airdrop[a] EXCEPT !.claimedSoFar = airdrop[a].claimedSoFar + Amount(a)]
        BY <1>2, <2>3
      <3>2. airdrop[a].claimedSoFar + Amount(a) \in Nat
        BY <1>1, <2>1, <2>3
      <3> QED
        BY <3>1, <3>2, <2>1, <2>3 DEF Airdrop
    <2> QED
      BY <2>2, <2>3
  <1>7. airdrop' \in [Identifiers -> Airdrop]
    BY <1>2, <1>6
  <1>8. \A a \in Identifiers, v \in Users :
          record'[a][v] = IF a \in sent /\ v = u THEN ActionCompleted(record[a][u], action)
                          ELSE record[a][v]
    BY <1>3 DEF ClaimSent
  <1>9. RecordsOK(record')
    <2> SUFFICES ASSUME NEW a \in Identifiers, NEW v \in Users
                 PROVE  RecordOK(record'[a][v])
      BY DEF RecordsOK
    <2>1. RecordOK(record[a][v])
      BY DEF ClaimInv, RecordsOK
    <2> QED
      BY <2>1, <1>1, <1>8, ActionCompletedOK
  <1>10. record' \in [Identifiers -> [Users -> Record \cup {NoRecord}]]
    <2>1. record' = [a \in Identifiers |-> record'[a]]
      BY DEF ClaimSent
    <2>2. \A a \in Identifiers : record'[a] = [v \in Users |-> record'[a][v]]
      BY <1>3 DEF ClaimSent
    <2> QED
      BY <2>1, <2>2, <1>9, RecordType
  <1>11. WeightsOK'
    <2> SUFFICES ASSUME NEW a \in Identifiers \ negative
                 PROVE  /\ Positive(record', a)
                        /\ SumFunctionOnSet(WeightPart(record', a), Users) <= totalWeight'[a]
      BY DEF WeightsOK, ClaimSent
    <2>1. \A v \in Users : record'[a][v] = NoRecord \/
                           (/\ record[a][v] # NoRecord
                            /\ record'[a][v].weight = record[a][v].weight)
      <3> SUFFICES ASSUME NEW v \in Users
                   PROVE  record'[a][v] = NoRecord \/
                           (/\ record[a][v] # NoRecord
                            /\ record'[a][v].weight = record[a][v].weight)
        OBVIOUS
      <3>1. RecordOK(record[a][v])
        BY DEF ClaimInv, RecordsOK
      <3> QED
        BY <3>1, <1>1, <1>8, ActionCompletedOK
    <2>2. RecordsOK(record) /\ Positive(record, a)
      BY DEF ClaimInv, WeightsOK
    <2>3. /\ Positive(record', a)
          /\ SumFunctionOnSet(WeightPart(record', a), Users)
               <= SumFunctionOnSet(WeightPart(record, a), Users)
      BY <2>1, <2>2, <1>9, WeightsFall
    <2>4. SumFunctionOnSet(WeightPart(record, a), Users) <= totalWeight[a]
      BY DEF ClaimInv, WeightsOK
    <2>5. totalWeight'[a] = totalWeight[a] /\ totalWeight[a] \in Int
      BY <1>3 DEF ClaimSent
    <2>6. /\ SumFunctionOnSet(WeightPart(record, a), Users) \in Int
          /\ SumFunctionOnSet(WeightPart(record', a), Users) \in Int
      BY <2>2, <1>9, WeightSumInt
    <2> QED
      BY <2>3, <2>4, <2>5, <2>6
  <1>12. PoolOfRound'
    <2> SUFFICES ASSUME NEW a \in Identifiers, airdrop'[a].live
                 PROVE  balance'[a] + airdrop'[a].claimedSoFar = pool'[a]
      BY DEF PoolOfRound
    <2>1. balance[a] + airdrop[a].claimedSoFar = pool[a]
      BY <1>6 DEF ClaimInv, PoolOfRound
    <2>2. balance[a] \in Nat /\ airdrop[a].claimedSoFar \in Nat
      BY <1>3 DEF Airdrop
    <2>3. pool'[a] = pool[a]
      BY DEF ClaimSent
    <2>4. balance'[a] = balance[a] - (IF a \in sent THEN Amount(a) ELSE 0)
      BY <1>2, <2>2
    <2>5. CASE a \in sent
      BY <2>1, <2>2, <2>3, <2>4, <2>5, <1>1, <1>6
    <2>6. CASE a \notin sent
      BY <2>1, <2>2, <2>3, <2>4, <2>6, <1>6
    <2> QED
      BY <2>5, <2>6
  <1>13. GrantsArePaid'
    BY <1>4 DEF ClaimInv, GrantsArePaid
  <1>14. TypeOK'
    BY <1>3, <1>4, <1>5, <1>7, <1>10 DEF TypeOK, ClaimSent, Airdrop
  <1> QED
    BY <1>9, <1>11, <1>12, <1>13, <1>14 DEF ClaimInv

\* No claim whose writes are kept fails: the message fails as a whole, and a hook
\* drops the writes of a failed claim.
LEMMA ClaimCoinsStep ==
    ASSUME ClaimInv, NEW u \in Users, NEW action \in Actions, NEW kept, ~Aborts(u, action),
           Claimable(u, action) \cap kept \cap Unpayable(u, action) = {},
           ClaimCoinsForAction(u, action, Claimable(u, action), kept)
    PROVE  ClaimInv'
  <1> DEFINE sent == Claimable(u, action) \cap kept
             grants == {a \in sent : ~IsInitialPeriodPassed(a)}
             f == [a \in grants \ sent |-> GetClaimableAmountForAction(a, u, action)]
  <1>1. sent \in SUBSET (Claimable(u, action) \ Unpayable(u, action))
    OBVIOUS
  <1>2. sent \ Unpayable(u, action) = sent
    OBVIOUS
  <1>3. grants \ sent = {}
    OBVIOUS
  <1>4. SumFunction(f) = SumFunction([a \in {} |-> 0])
    <2>1. SumFunction(f) = SumFunctionOnSet(f, {})
      BY <1>3 DEF SumFunction
    <2>2. SumFunction([a \in {} |-> 0]) = SumFunctionOnSet([a \in {} |-> 0], {})
      BY DEF SumFunction
    <2> HIDE DEF f
    <2> QED
      BY <2>1, <2>2, SumEmpty
  <1>5. ClaimSent(u, action, sent)
    BY <1>2, <1>4, Zenon DEF ClaimCoinsForAction, ClaimSent
  <1> HIDE DEF sent
  <1> QED
    BY <1>1, <1>5, ClaimSentStep

-----------------------------------------------------------------------------
(* Rounds *)

\* Resetting a record keeps it in order, and keeps its weight.
LEMMA ResetRecordOK ==
    ASSUME NEW rec, RecordOK(rec), NEW own \in BOOLEAN
    PROVE  /\ RecordOK(ResetRecord(rec, own))
           /\ rec = NoRecord => ResetRecord(rec, own) = NoRecord
           /\ rec # NoRecord => ResetRecord(rec, own).weight = rec.weight
  <1>1. CASE rec = NoRecord
    BY <1>1 DEF ResetRecord
  <1>2. CASE rec # NoRecord
    <2>1. rec \in Record /\ rec.weight \in Int
      BY <1>2 DEF RecordOK, Record
    <2>2. CASE own
      <3>1. ResetRecord(rec, own) = NewRecord(rec.weight)
        BY <1>2, <2>2 DEF ResetRecord
      <3>2. RecordOK(NewRecord(rec.weight)) /\ NewRecord(rec.weight).weight = rec.weight
        BY <2>1, NewRecordOK DEF NewRecord
      <3> QED
        BY <3>1, <3>2, <1>2
    <2>3. CASE ~own
      <3> DEFINE new == [rec EXCEPT !.completed = {}, !.early = TRUE]
      <3>1. ResetRecord(rec, own) = new
        BY <1>2, <2>3 DEF ResetRecord
      <3>2. new \in Record /\ new.weight = rec.weight /\ new.early
        BY <2>1 DEF Record
      <3> HIDE DEF new
      <3>3. RecordOK(new)
        BY <3>2, <2>1 DEF RecordOK
      <3> QED
        BY <3>1, <3>2, <3>3, <1>2
    <2> QED
      BY <2>2, <2>3
  <1> QED
    BY <1>1, <1>2

\* Records that are reset, deleted or left alone, with total weights that stay or are
\* dropped with all the records of their airdrop; only then are its weights taken to be
\* positive again.
LEMMA RecordsChange ==
    ASSUME ClaimInv,
           record' = [a \in Identifiers |-> record'[a]],
           \A a \in Identifiers : record'[a] = [u \in Users |-> record'[a][u]],
           \A a \in Identifiers, u \in Users :
             \/ record'[a][u] = NoRecord
             \/ record'[a][u] = record[a][u]
             \/ \E own \in BOOLEAN : record'[a][u] = ResetRecord(record[a][u], own),
           totalWeight' \in [Identifiers -> Int],
           \A a \in Identifiers \ negative' :
             \/ a \notin negative /\ totalWeight'[a] >= totalWeight[a]
             \/ totalWeight'[a] >= 0 /\ \A u \in Users : record'[a][u] = NoRecord
    PROVE  /\ RecordsOK(record')
           /\ record' \in [Identifiers -> [Users -> Record \cup {NoRecord}]]
           /\ WeightsOK'
  <1>1. \A a \in Identifiers, u \in Users :
          /\ RecordOK(record'[a][u])
          /\ record'[a][u] = NoRecord \/ (/\ record[a][u] # NoRecord
                                          /\ record'[a][u].weight = record[a][u].weight)
    <2> SUFFICES ASSUME NEW a \in Identifiers, NEW u \in Users
                 PROVE  /\ RecordOK(record'[a][u])
                        /\ record'[a][u] = NoRecord \/ (/\ record[a][u] # NoRecord
                                          /\ record'[a][u].weight = record[a][u].weight)
      OBVIOUS
    <2>1. RecordOK(record[a][u])
      BY DEF ClaimInv, RecordsOK
    <2>2. CASE record'[a][u] = NoRecord
      BY <2>2 DEF RecordOK
    <2>3. CASE record'[a][u] = record[a][u]
      BY <2>1, <2>3
    <2>4. CASE \E own \in BOOLEAN : record'[a][u] = ResetRecord(record[a][u], own)
      BY <2>1, <2>4, ResetRecordOK
    <2> QED
      BY <2>2, <2>3, <2>4
  <1>2. RecordsOK(record')
    BY <1>1 DEF RecordsOK
  <1>3. record' \in [Identifiers -> [Users -> Record \cup {NoRecord}]]
    BY <1>2, RecordType
  <1>4. WeightsOK'
    <2> SUFFICES ASSUME NEW a \in Identifiers \ negative'
                 PROVE  /\ Positive(record', a)
                        /\ SumFunctionOnSet(WeightPart(record', a), Users) <= totalWeight'[a]
      BY DEF WeightsOK
    <2>1. RecordsOK(record)
      BY DEF ClaimInv
    <2>2. totalWeight'[a] \in Int /\ totalWeight[a] \in Int
      BY DEF ClaimInv, TypeOK
    <2>3. ASSUME a \notin negative, totalWeight'[a] >= totalWeight[a]
          PROVE  /\ Positive(record', a)
                 /\ SumFunctionOnSet(WeightPart(record', a), Users) <= totalWeight'[a]
      <3>1. /\ Positive(record, a)
            /\ SumFunctionOnSet(WeightPart(record, a), Users) <= totalWeight[a]
        BY <2>3 DEF ClaimInv, WeightsOK
      <3>2. /\ Positive(record', a)
            /\ SumFunctionOnSet(WeightPart(record', a), Users)
                 <= SumFunctionOnSet(WeightPart(record, a), Users)
        BY <1>1, <1>2, <2>1, <3>1, WeightsFall
      <3>3. /\ SumFunctionOnSet(WeightPart(record, a), Users) \in Int
            /\ SumFunctionOnSet(WeightPart(record', a), Users) \in Int
        BY <2>1, <1>2, WeightSumInt
      <3> QED
        BY <3>1, <3>2, <3>3, <2>2, <2>3
    <2>4. ASSUME totalWeight'[a] >= 0, \A u \in Users : record'[a][u] = NoRecord
          PROVE  /\ Positive(record', a)
                 /\ SumFunctionOnSet(WeightPart(record', a), Users) <= totalWeight'[a]
      <3> DEFINE g == WeightPart(record', a)
      <3>1. \A u \in Users : g[u] = 0
        BY <2>4 DEF WeightPart
      <3>2. IsFiniteSet(Users)
        BY ClaimAssumption
      <3>3. Positive(record', a)
        BY <2>4 DEF Positive
      <3> HIDE DEF g
      <3>4. SumFunctionOnSet(g, Users) = 0
        BY <3>1, <3>2, SumZero
      <3> QED
        BY <3>3, <3>4, <2>2, <2>4 DEF g
    <2> QED
      BY <2>3, <2>4
  <1> QED
    BY <1>2, <1>3, <1>4

LEMMA AfterEpochEndStep ==
    ASSUME ClaimInv, NEW a \in Identifiers, AfterEpochEnd(a)
    PROVE  ClaimInv'
  <1> DEFINE n == airdrop[a].epochs + 1
  <1>1. /\ time \in 0..MaxTime /\ changes \in 0..MaxChanges
        /\ airdrop \in [Identifiers -> Airdrop]
        /\ record \in [Identifiers -> [Users -> Record \cup {NoRecord}]]
        /\ totalWeight \in [Identifiers -> Int]
        /\ balance \in [Identifiers -> Nat]
        /\ unpaid \in [Users -> Nat]
        /\ pool \in [Identifiers -> Int]
        /\ negative \subseteq Identifiers
        /\ MaxTime \in Nat
    BY ClaimAssumption DEF ClaimInv, TypeOK, Airdrop
  <1>2. n \in 0..MaxTime
    <2>1. airdrop[a].start \in 0..MaxTime + 1 /\ airdrop[a].epochs \in 0..MaxTime
      BY <1>1 DEF Airdrop
    <2>2. time - airdrop[a].start > airdrop[a].epochs
      BY DEF AfterEpochEnd, Elapsed
    <2> QED
      BY <1>1, <2>1, <2>2
  <1> HIDE DEF n
  <1>3. UNCHANGED <<time, changes, totalWeight, balance, unpaid, negative>>
    BY DEF AfterEpochEnd
  <1>4. CASE IsInitialPeriodPassed(a)
    <2>1. ResetClaimStatus(a)
      BY <1>4 DEF AfterEpochEnd
    <2>2. airdrop' = [airdrop EXCEPT ![a] =
                        [airdrop[a] EXCEPT !.claimedSoFar = 0, !.epochs = n]]
      BY <2>1, <1>1 DEF ResetClaimStatus, n, Airdrop
    <2>3. pool' = [pool EXCEPT ![a] = balance[a]]
      BY <2>1 DEF ResetClaimStatus
    <2>4. /\ record' = [b \in Identifiers |-> record'[b]]
          /\ \A b \in Identifiers : record'[b] = [u \in Users |-> record'[b][u]]
      BY <2>1 DEF ResetClaimStatus
    <2>5. \A b \in Identifiers, u \in Users :
             \/ record'[b][u] = NoRecord
             \/ record'[b][u] = record[b][u]
             \/ \E own \in BOOLEAN : record'[b][u] = ResetRecord(record[b][u], own)
      <3> SUFFICES ASSUME NEW b \in Identifiers, NEW u \in Users
                   PROVE  \/ record'[b][u] = record[b][u]
                          \/ \E own \in BOOLEAN : record'[b][u] = ResetRecord(record[b][u], own)
        OBVIOUS
      <3>1. \/ record'[b][u] = record[b][u]
            \/ record'[b][u] = ResetRecord(record[b][u], b = a)
        BY <2>1 DEF ResetClaimStatus
      <3>2. (b = a) \in BOOLEAN
        OBVIOUS
      <3> QED
        BY <3>1, <3>2
    <2>6. \A b \in Identifiers \ negative' :
            b \notin negative /\ totalWeight'[b] >= totalWeight[b]
      BY <1>1, <1>3
    <2>7. totalWeight' \in [Identifiers -> Int]
      BY <1>1, <1>3
    <2>8. /\ RecordsOK(record')
          /\ record' \in [Identifiers -> [Users -> Record \cup {NoRecord}]]
          /\ WeightsOK'
      BY <2>4, <2>5, <2>6, <2>7, RecordsChange
    <2>9. [airdrop[a] EXCEPT !.claimedSoFar = 0, !.epochs = n] \in Airdrop
      BY <1>1, <1>2 DEF Airdrop
    <2>10. airdrop' \in [Identifiers -> Airdrop] /\ pool' \in [Identifiers -> Int]
      BY <1>1, <2>2, <2>3, <2>9
    <2>11. PoolOfRound'
      <3> SUFFICES ASSUME NEW b \in Identifiers, airdrop'[b].live
                   PROVE  balance'[b] + airdrop'[b].claimedSoFar = pool'[b]
        BY DEF PoolOfRound
      <3>1. CASE b = a
        <4>1. airdrop'[b].claimedSoFar = 0
          BY <1>1, <2>2, <3>1 DEF Airdrop
        <4>2. pool'[b] = balance[b] /\ balance[b] \in Nat
          BY <1>1, <2>3, <3>1
        <4> QED
          BY <4>1, <4>2, <1>3
      <3>2. CASE b # a
        <4>1. airdrop'[b] = airdrop[b] /\ pool'[b] = pool[b]
          BY <1>1, <2>2, <2>3, <3>2
        <4> QED
          BY <4>1, <1>3 DEF ClaimInv, PoolOfRound
      <3> QED
        BY <3>1, <3>2
    <2>12. TypeOK'
      BY <1>1, <1>3, <2>8, <2>10 DEF TypeOK, Airdrop
    <2>13. GrantsArePaid'
      BY <1>3 DEF ClaimInv, GrantsArePaid
    <2> QED
      BY <2>8, <2>11, <2>12, <2>13 DEF ClaimInv
  <1>5. CASE ~IsInitialPeriodPassed(a)
    <2>1. /\ airdrop' = [airdrop EXCEPT ![a] = [airdrop[a] EXCEPT !.epochs = n]]
          /\ UNCHANGED <<record, pool>>
      BY <1>1, <1>5 DEF AfterEpochEnd, n, Airdrop
    <2>2. [airdrop[a] EXCEPT !.epochs = n] \in Airdrop
      BY <1>1, <1>2 DEF Airdrop
    <2>3. airdrop' \in [Identifiers -> Airdrop]
      BY <1>1, <2>1, <2>2
    <2>4. \A b \in Identifiers : /\ airdrop'[b].live = airdrop[b].live
                                 /\ airdrop'[b].claimedSoFar = airdrop[b].claimedSoFar
      BY <1>1, <2>1 DEF Airdrop
    <2>5. TypeOK'
      BY <1>1, <1>3, <2>1, <2>3 DEF TypeOK, Airdrop
    <2>6. PoolOfRound' /\ GrantsArePaid'
      BY <1>3, <2>1, <2>4 DEF ClaimInv, PoolOfRound, GrantsArePaid
    <2>7. RecordsOK(record') /\ WeightsOK'
      BY <1>3, <2>1 DEF ClaimInv, WeightsOK
    <2> QED
      BY <2>5, <2>6, <2>7 DEF ClaimInv
  <1> QED
    BY <1>4, <1>5

\* An airdrop that was deleted.
LEMMA DeletedAirdrop ==
    /\ [NewAirdrop(0) EXCEPT !.live = FALSE] \in Airdrop
    /\ ~[NewAirdrop(0) EXCEPT !.live = FALSE].live
  <1>1. MaxTime \in Nat
    BY ClaimAssumption
  <1>2. NewAirdrop(0) \in Airdrop
    BY <1>1 DEF NewAirdrop, Airdrop
  <1> QED
    BY <1>2 DEF Airdrop

LEMMA EndBlockerStep ==
    ASSUME ClaimInv, EndBlocker
    PROVE  ClaimInv'
  <1> DEFINE over == {a \in Identifiers : airdrop[a].live /\ Elapsed(a) > AirdropDuration}
  <1>1. /\ time \in 0..MaxTime /\ changes \in 0..MaxChanges
        /\ airdrop \in [Identifiers -> Airdrop]
        /\ totalWeight \in [Identifiers -> Int]
        /\ balance \in [Identifiers -> Nat]
        /\ unpaid \in [Users -> Nat]
        /\ pool \in [Identifiers -> Int]
        /\ negative \subseteq Identifiers
    BY DEF ClaimInv, TypeOK, Airdrop
  <1>2. /\ record' = [a \in Identifiers |-> [u \in Users |->
                        IF a \in Prefixed(over) THEN NoRecord ELSE record[a][u]]]
        /\ totalWeight' = [a \in Identifiers |-> IF a \in over THEN 0 ELSE totalWeight[a]]
        /\ airdrop' = [a \in Identifiers |->
                         IF a \in over THEN [NewAirdrop(0) EXCEPT !.live = FALSE] ELSE airdrop[a]]
        /\ UNCHANGED <<time, changes, balance, unpaid, pool>>
        /\ negative' = negative \ over
    BY DEF EndBlocker
  <1>3. \A a \in over : a \in Prefixed(over)
    BY ClaimAssumption DEF Prefixed
  <1> HIDE DEF over
  <1>4. /\ record' = [a \in Identifiers |-> record'[a]]
        /\ \A a \in Identifiers : record'[a] = [u \in Users |-> record'[a][u]]
    BY <1>2
  <1>5. \A a \in Identifiers, u \in Users :
           \/ record'[a][u] = NoRecord
           \/ record'[a][u] = record[a][u]
    BY <1>2
  <1>6. totalWeight' \in [Identifiers -> Int]
    BY <1>1, <1>2
  <1>7. \A a \in Identifiers \ negative' :
           \/ a \notin negative /\ totalWeight'[a] >= totalWeight[a]
           \/ totalWeight'[a] >= 0 /\ \A u \in Users : record'[a][u] = NoRecord
    BY <1>1, <1>2, <1>3
  <1>8. /\ RecordsOK(record')
        /\ record' \in [Identifiers -> [Users -> Record \cup {NoRecord}]]
        /\ WeightsOK'
    BY <1>4, <1>5, <1>6, <1>7, RecordsChange
  <1>9. /\ [NewAirdrop(0) EXCEPT !.live = FALSE] \in Airdrop
        /\ ~[NewAirdrop(0) EXCEPT !.live = FALSE].live
    BY DeletedAirdrop
  <1>10. airdrop' \in [Identifiers -> Airdrop]
    BY <1>1, <1>2, <1>9
  <1>11. \A a \in Identifiers : airdrop'[a].live => airdrop'[a] = airdrop[a]
    BY <1>2, <1>9
  <1>12. PoolOfRound' /\ GrantsArePaid'
    BY <1>2, <1>11 DEF ClaimInv, PoolOfRound, GrantsArePaid
  <1>13. TypeOK'
    BY <1>1, <1>2, <1>6, <1>8, <1>10 DEF TypeOK, Airdrop
  <1> QED
    BY <1>8, <1>12, <1>13 DEF ClaimInv

-----------------------------------------------------------------------------
(* Administration *)

\* An administrative step is counted within its bound.
LEMMA ChangeCounted ==
    ASSUME ClaimInv, Change
    PROVE  changes' \in 0..MaxChanges
  BY ClaimAssumption DEF ClaimInv, TypeOK, Change

LEMMA CreateAirdropStep ==
    ASSUME ClaimInv, NEW a \in Identifiers, NEW delay \in StartDelays,
           CreateAirdrop(a, time + delay)
    PROVE  ClaimInv'
  <1>1. /\ time \in 0..MaxTime
        /\ airdrop \in [Identifiers -> Airdrop]
        /\ balance \in [Identifiers -> Nat]
        /\ pool \in [Identifiers -> Int]
    BY DEF ClaimInv, TypeOK, Airdrop
  <1>2. changes' \in 0..MaxChanges
    BY ChangeCounted DEF CreateAirdrop
  <1>3. /\ airdrop' = [airdrop EXCEPT ![a] = NewAirdrop(time + delay)]
        /\ pool' = [pool EXCEPT ![a] = balance[a]]
        /\ UNCHANGED <<time, record, totalWeight, balance, unpaid, negative>>
    BY DEF CreateAirdrop
  <1>4. time + delay \in 0..MaxTime + 1
    BY <1>1, ClaimAssumption
  <1>5. NewAirdrop(time + delay) \in Airdrop /\ NewAirdrop(time + delay).claimedSoFar = 0
    BY <1>4, ClaimAssumption DEF NewAirdrop, Airdrop
  <1>6. airdrop' \in [Identifiers -> Airdrop] /\ pool' \in [Identifiers -> Int]
    BY <1>1, <1>3, <1>5
  <1>7. TypeOK'
    BY <1>2, <1>3, <1>6 DEF ClaimInv, TypeOK, Airdrop
  <1>8. PoolOfRound'
    <2> SUFFICES ASSUME NEW b \in Identifiers, airdrop'[b].live
                 PROVE  balance'[b] + airdrop'[b].claimedSoFar = pool'[b]
      BY DEF PoolOfRound
    <2>1. CASE b = a
      BY <2>1, <1>1, <1>3, <1>5
    <2>2. CASE b # a
      BY <2>2, <1>1, <1>3 DEF ClaimInv, PoolOfRound
    <2> QED
      BY <2>1, <2>2
  <1>9. GrantsArePaid' /\ RecordsOK(record') /\ WeightsOK'
    BY <1>3 DEF ClaimInv, GrantsArePaid, WeightsOK
  <1> QED
    BY <1>7, <1>8, <1>9 DEF ClaimInv

LEMMA DeleteAirdropStep ==
    ASSUME ClaimInv, NEW a \in Identifiers, DeleteAirdrop(a)
    PROVE  ClaimInv'
  <1>1. airdrop \in [Identifiers -> Airdrop]
    BY DEF ClaimInv, TypeOK, Airdrop
  <1>2. changes' \in 0..MaxChanges
    BY ChangeCounted DEF DeleteAirdrop
  <1>3. /\ airdrop' = [airdrop EXCEPT ![a] = [NewAirdrop(0) EXCEPT !.live = FALSE]]
        /\ UNCHANGED <<time, record, totalWeight, balance, unpaid, pool, negative>>
    BY DEF DeleteAirdrop
  <1>4. /\ [NewAirdrop(0) EXCEPT !.live = FALSE] \in Airdrop
        /\ ~[NewAirdrop(0) EXCEPT !.live = FALSE].live
    BY DeletedAirdrop
  <1>5. airdrop' \in [Identifiers -> Airdrop]
    BY <1>1, <1>3, <1>4
  <1>6. \A b \in Identifiers : airdrop'[b].live => airdrop'[b] = airdrop[b]
    BY <1>1, <1>3, <1>4
  <1>7. TypeOK'
    BY <1>2, <1>3, <1>5 DEF ClaimInv, TypeOK, Airdrop
  <1>8. PoolOfRound' /\ GrantsArePaid'
    BY <1>3, <1>6 DEF ClaimInv, PoolOfRound, GrantsArePaid
  <1>9. RecordsOK(record') /\ WeightsOK'
    BY <1>3 DEF ClaimInv, WeightsOK
  <1> QED
    BY <1>7, <1>8, <1>9 DEF ClaimInv

\* Each occurrence adds its weight to the total, and the last one, at least, is the
\* record's.
LEMMA SetAirdropAllocationsStep ==
    ASSUME ClaimInv, NEW a \in Identifiers, NEW u \in Users,
           NEW earlier \in Weights \cup {0}, NEW w \in Weights,
           SetAirdropAllocations(a, u, earlier, w)
    PROVE  ClaimInv'
  <1> DEFINE added == earlier + w
  <1>1. w \in Int /\ earlier \in Int /\ added \in Int
    BY ClaimAssumption
  <1>2. /\ record' = [record EXCEPT ![a][u] = NewRecord(w)]
        /\ totalWeight' = [totalWeight EXCEPT ![a] = totalWeight[a] + earlier + w]
        /\ negative' = negative \cup {b \in {a} : earlier < 0 \/ w < 0}
        /\ UNCHANGED <<time, airdrop, balance, unpaid, pool>>
        /\ record[a][u] = NoRecord
    BY DEF SetAirdropAllocations
  <1> HIDE DEF added
  <1>3. changes' \in 0..MaxChanges
    BY ChangeCounted DEF SetAirdropAllocations
  <1>4. /\ record \in [Identifiers -> [Users -> Record \cup {NoRecord}]]
        /\ totalWeight \in [Identifiers -> Int]
    BY DEF ClaimInv, TypeOK
  <1>5. \A b \in Identifiers, v \in Users :
          record'[b][v] = IF b = a /\ v = u THEN NewRecord(w) ELSE record[b][v]
    BY <1>2, <1>4
  <1>6. RecordsOK(record')
    <2> SUFFICES ASSUME NEW b \in Identifiers, NEW v \in Users
                 PROVE  RecordOK(record'[b][v])
      BY DEF RecordsOK
    <2>1. RecordOK(record[b][v])
      BY DEF ClaimInv, RecordsOK
    <2> QED
      BY <2>1, <1>1, <1>5, NewRecordOK
  <1>7. record' \in [Identifiers -> [Users -> Record \cup {NoRecord}]]
    <2>1. record' = [b \in Identifiers |-> record'[b]]
      BY <1>2, <1>4
    <2>2. \A b \in Identifiers : record'[b] = [v \in Users |-> record'[b][v]]
      BY <1>2, <1>4
    <2> QED
      BY <2>1, <2>2, <1>6, RecordType
  <1>8. totalWeight' \in [Identifiers -> Int]
    BY <1>1, <1>2, <1>4
  <1>9. WeightsOK'
    <2> SUFFICES ASSUME NEW b \in Identifiers \ negative'
                 PROVE  /\ Positive(record', b)
                        /\ SumFunctionOnSet(WeightPart(record', b), Users) <= totalWeight'[b]
      BY DEF WeightsOK
    <2> DEFINE f == WeightPart(record, b)
               g == WeightPart(record', b)
    <2>0. b \notin negative /\ (b = a => earlier >= 0 /\ w > 0 /\ w <= added)
      <3>1. b \notin negative /\ (b = a => ~(earlier < 0) /\ ~(w < 0))
        BY <1>2
      <3>2. w # 0
        BY ClaimAssumption
      <3> QED
        BY <3>1, <3>2, <1>1 DEF added
    <2>1. SumFunctionOnSet(f, Users) <= totalWeight[b] /\ Positive(record, b)
      BY <2>0 DEF ClaimInv, WeightsOK
    <2>2. RecordsOK(record)
      BY DEF ClaimInv
    <2>3. \A v \in Users : f[v] \in Int /\ g[v] \in Int
      BY <2>2, <1>6, WeightInt
    <2>p. Positive(record', b)
      <3> SUFFICES ASSUME NEW v \in Users, record'[b][v] # NoRecord
                   PROVE  record'[b][v].weight > 0
        BY DEF Positive
      <3>1. CASE b = a /\ v = u
        <4>1. record'[b][v].weight = w
          BY <3>1, <1>5 DEF NewRecord
        <4> QED
          BY <4>1, <3>1, <2>0
      <3>2. CASE ~(b = a /\ v = u)
        BY <3>2, <1>5, <2>1 DEF Positive
      <3> QED
        BY <3>1, <3>2
    <2>4. CASE b # a
      <3>1. f = g
        BY <2>4, <1>5 DEF WeightPart
      <3> QED
        BY <3>1, <2>1, <2>4, <2>p, <1>2, <1>4
    <2>5. CASE b = a
      <3>1. \A v \in Users \ {u} : g[v] = f[v]
        BY <2>5, <1>5 DEF WeightPart
      <3>2. f[u] = 0
        BY <2>5, <1>2 DEF WeightPart
      <3>3. g[u] \in Int /\ g[u] <= w
        <4>1. record'[b][u] = NewRecord(w) /\ NewRecord(w).weight = w
          BY <2>5, <1>5 DEF NewRecord
        <4> QED
          BY <4>1, <1>1, <2>0, <2>5 DEF WeightPart
      <3>4. IsFiniteSet(Users)
        BY ClaimAssumption
      <3>5. totalWeight'[b] = totalWeight[b] + added /\ totalWeight[b] \in Int
        BY <2>5, <1>1, <1>2, <1>4 DEF added
      <3> HIDE DEF f, g
      <3>6. SumFunctionOnSet(g, Users) = SumFunctionOnSet(f, Users) + g[u] - f[u]
        BY <2>3, <3>1, <3>4, SumChange
      <3>7. SumFunctionOnSet(f, Users) \in Int
        BY <2>3, <3>4, SumInt
      <3>8. SumFunctionOnSet(g, Users) <= totalWeight'[b]
        BY <3>2, <3>3, <3>5, <3>6, <3>7, <2>0, <2>1, <2>5, <1>1
      <3> QED
        BY <3>8, <2>p DEF g
    <2> QED
      BY <2>4, <2>5
  <1>10. TypeOK'
    BY <1>2, <1>3, <1>7, <1>8 DEF ClaimInv, TypeOK
  <1>11. PoolOfRound' /\ GrantsArePaid'
    BY <1>2 DEF ClaimInv, PoolOfRound, GrantsArePaid
  <1> QED
    BY <1>6, <1>9, <1>10, <1>11 DEF ClaimInv

\* The weight moves, over one that may be there, or goes.
LEMMA UpdateAirdropAddressStep ==
    ASSUME ClaimInv, NEW a \in Identifiers, NEW existing \in Users, NEW new \in Users,
           UpdateAirdropAddress(a, existing, new)
    PROVE  ClaimInv'
  <1>1. /\ record' = [record EXCEPT ![a][new] = record[a][existing], ![a][existing] = NoRecord]
        /\ UNCHANGED <<time, airdrop, totalWeight, balance, unpaid, pool, negative>>
        /\ record[a][existing] # NoRecord
    BY DEF UpdateAirdropAddress
  <1>2. changes' \in 0..MaxChanges
    BY ChangeCounted DEF UpdateAirdropAddress
  <1>3. record \in [Identifiers -> [Users -> Record \cup {NoRecord}]]
    BY DEF ClaimInv, TypeOK
  <1>4. \A b \in Identifiers, v \in Users :
          record'[b][v] = IF b = a /\ v = existing THEN NoRecord
                          ELSE IF b = a /\ v = new THEN record[a][existing] ELSE record[b][v]
    BY <1>1, <1>3
  <1>5. RecordsOK(record')
    <2> SUFFICES ASSUME NEW b \in Identifiers, NEW v \in Users
                 PROVE  RecordOK(record'[b][v])
      BY DEF RecordsOK
    <2>1. RecordOK(record[b][v]) /\ RecordOK(record[a][existing])
      BY DEF ClaimInv, RecordsOK
    <2>2. RecordOK(NoRecord)
      BY DEF RecordOK
    <2> QED
      BY <2>1, <2>2, <1>4
  <1>6. record' \in [Identifiers -> [Users -> Record \cup {NoRecord}]]
    <2>1. record' = [b \in Identifiers |-> record'[b]]
      BY <1>1, <1>3
    <2>2. \A b \in Identifiers : record'[b] = [v \in Users |-> record'[b][v]]
      BY <1>1, <1>3
    <2> QED
      BY <2>1, <2>2, <1>5, RecordType
  <1>7. WeightsOK'
    <2> SUFFICES ASSUME NEW b \in Identifiers \ negative
                 PROVE  /\ Positive(record', b)
                        /\ SumFunctionOnSet(WeightPart(record', b), Users) <= totalWeight'[b]
      BY <1>1 DEF WeightsOK
    <2> DEFINE f == WeightPart(record, b)
               g == WeightPart(record', b)
               h == [v \in Users |-> IF v = existing THEN 0 ELSE f[v]]
    <2>1. /\ SumFunctionOnSet(f, Users) <= totalWeight[b] /\ Positive(record, b)
          /\ totalWeight'[b] = totalWeight[b]
      BY <1>1 DEF ClaimInv, WeightsOK
    <2>2. RecordsOK(record) /\ totalWeight[b] \in Int
      BY DEF ClaimInv, TypeOK
    <2>p. Positive(record', b)
      <3> SUFFICES ASSUME NEW v \in Users, record'[b][v] # NoRecord
                   PROVE  record'[b][v].weight > 0
        BY DEF Positive
      <3>1. CASE b = a /\ v = new
        <4>1. record'[b][v] = record[b][existing]
          BY <3>1, <1>4
        <4> QED
          BY <4>1, <2>1 DEF Positive
      <3>2. CASE ~(b = a /\ v = new)
        BY <3>2, <1>4, <2>1 DEF Positive
      <3> QED
        BY <3>1, <3>2
    <2>3. \A v \in Users : f[v] \in Nat /\ g[v] \in Nat
      BY <2>1, <2>2, <2>p, <1>5, WeightNat
    <2>4. IsFiniteSet(Users)
      BY ClaimAssumption
    <2>5. CASE b # a
      <3>1. f = g
        BY <2>5, <1>4 DEF WeightPart
      <3> QED
        BY <3>1, <2>1, <2>p
    <2>6. CASE b = a
      <3>1. \A v \in Users : h[v] \in Int /\ f[v] \in Int /\ g[v] \in Int
        BY <2>3
      <3>2. h[existing] = 0 /\ \A v \in Users \ {existing} : h[v] = f[v]
        OBVIOUS
      <3>3. g[existing] = 0
        BY <2>6, <1>4 DEF WeightPart
      <3>4. \A v \in Users \ {new} : g[v] = h[v]
        <4> SUFFICES ASSUME NEW v \in Users \ {new}
                     PROVE  g[v] = h[v]
          OBVIOUS
        <4>1. CASE v = existing
          BY <4>1, <3>2, <3>3
        <4>2. CASE v # existing
          <5>1. record'[b][v] = record[b][v]
            BY <4>2, <2>6, <1>4
          <5> QED
            BY <5>1, <4>2 DEF WeightPart
        <4> QED
          BY <4>1, <4>2
      <3>5. g[new] <= f[existing] /\ h[new] >= 0
        <4>1. CASE new = existing
          BY <4>1, <3>2, <3>3, <2>3
        <4>2. CASE new # existing
          <5>1. record'[b][new] = record[b][existing]
            BY <4>2, <2>6, <1>4
          <5>2. g[new] = f[existing] /\ h[new] = f[new]
            BY <5>1, <4>2 DEF WeightPart
          <5> QED
            BY <5>2, <2>3
        <4> QED
          BY <4>1, <4>2
      <3> HIDE DEF f, g, h
      <3>6. SumFunctionOnSet(h, Users) = SumFunctionOnSet(f, Users) + h[existing] - f[existing]
        BY <3>1, <3>2, <2>4, SumChange
      <3>7. SumFunctionOnSet(g, Users) = SumFunctionOnSet(h, Users) + g[new] - h[new]
        <4>1. \A v \in Users : h[v] \in Int /\ g[v] \in Int
          BY <3>1
        <4> QED
          BY <4>1, <3>4, <2>4, SumChange
      <3>8. SumFunctionOnSet(f, Users) \in Int /\ SumFunctionOnSet(h, Users) \in Int
        BY <3>1, <2>4, SumInt
      <3>9. /\ h[existing] \in Int /\ h[new] \in Int /\ f[existing] \in Int /\ g[new] \in Int
        BY <3>1
      <3>10. SumFunctionOnSet(g, Users) <= totalWeight'[b]
        BY <3>2, <3>5, <3>6, <3>7, <3>8, <3>9, <2>1, <2>2
      <3> QED
        BY <3>10, <2>p DEF g
    <2> QED
      BY <2>5, <2>6
  <1>8. TypeOK'
    BY <1>1, <1>2, <1>6 DEF ClaimInv, TypeOK
  <1>9. PoolOfRound' /\ GrantsArePaid'
    BY <1>1 DEF ClaimInv, PoolOfRound, GrantsArePaid
  <1> QED
    BY <1>5, <1>7, <1>8, <1>9 DEF ClaimInv

\* What a distributor is sent, or spends (d < 0), its pool gains and loses with it.
LEMMA DistributorStep ==
    ASSUME ClaimInv, NEW a \in Identifiers, NEW d \in Int, balance[a] + d >= 0, Change,
           balance' = [balance EXCEPT ![a] = balance[a] + d],
           pool' = [pool EXCEPT ![a] = pool[a] + d],
           UNCHANGED <<time, airdrop, record, totalWeight, unpaid, negative>>
    PROVE  ClaimInv'
  <1>1. /\ balance \in [Identifiers -> Nat]
        /\ pool \in [Identifiers -> Int]
        /\ airdrop \in [Identifiers -> Airdrop]
    BY DEF ClaimInv, TypeOK, Airdrop
  <1>2. changes' \in 0..MaxChanges
    BY ChangeCounted
  <1>3. balance[a] + d \in Nat /\ pool[a] + d \in Int
    BY <1>1
  <1>4. balance' \in [Identifiers -> Nat] /\ pool' \in [Identifiers -> Int]
    BY <1>1, <1>3
  <1>5. TypeOK'
    BY <1>2, <1>4 DEF ClaimInv, TypeOK
  <1>6. PoolOfRound'
    <2> SUFFICES ASSUME NEW b \in Identifiers, airdrop'[b].live
                 PROVE  balance'[b] + airdrop'[b].claimedSoFar = pool'[b]
      BY DEF PoolOfRound
    <2>1. balance[b] + airdrop[b].claimedSoFar = pool[b]
      BY DEF ClaimInv, PoolOfRound
    <2>2. airdrop[b].claimedSoFar \in Nat /\ balance[b] \in Nat /\ pool[b] \in Int
      BY <1>1 DEF Airdrop
    <2>3. CASE b = a
      BY <2>1, <2>2, <2>3, <1>1
    <2>4. CASE b # a
      BY <2>1, <2>4, <1>1
    <2> QED
      BY <2>3, <2>4
  <1>7. GrantsArePaid' /\ RecordsOK(record') /\ WeightsOK'
    BY DEF ClaimInv, GrantsArePaid, WeightsOK
  <1> QED
    BY <1>5, <1>6, <1>7 DEF ClaimInv

LEMMA FundDistributorStep ==
    ASSUME ClaimInv, NEW a \in Identifiers, NEW amount \in Deposits, FundDistributor(a, amount)
    PROVE  ClaimInv'
  <1>1. amount \in Int /\ balance[a] + amount >= 0
    BY ClaimAssumption DEF ClaimInv, TypeOK
  <1>2. /\ balance' = [balance EXCEPT ![a] = balance[a] + amount]
        /\ pool' = [pool EXCEPT ![a] = pool[a] + amount]
        /\ Change
        /\ UNCHANGED <<time, airdrop, record, totalWeight, unpaid, negative>>
    BY DEF FundDistributor
  <1> QED
    BY <1>1, <1>2, DistributorStep

LEMMA SpendDistributorStep ==
    ASSUME ClaimInv, NEW a \in Identifiers, NEW amount \in Deposits, SpendDistributor(a, amount)
    PROVE  ClaimInv'
  <1> DEFINE d == -amount
  <1>1. amount \in Nat /\ balance[a] \in Nat /\ pool[a] \in Int
    BY ClaimAssumption DEF ClaimInv, TypeOK
  <1>2. /\ d \in Int /\ balance[a] + d >= 0
        /\ balance[a] - amount = balance[a] + d
        /\ pool[a] - amount = pool[a] + d
    BY <1>1 DEF SpendDistributor
  <1>3. /\ balance' = [balance EXCEPT ![a] = balance[a] + d]
        /\ pool' = [pool EXCEPT ![a] = pool[a] + d]
        /\ Change
        /\ UNCHANGED <<time, airdrop, record, totalWeight, unpaid, negative>>
    BY <1>2 DEF SpendDistributor
  <1> HIDE DEF d
  <1> QED
    BY <1>2, <1>3, DistributorStep

-----------------------------------------------------------------------------
(* The theorems *)

LEMMA ClaimInvNext ==
    ASSUME ClaimInv, [Next]_vars
    PROVE  ClaimInv'
  <1>1. CASE UNCHANGED vars
    BY <1>1 DEF vars, ClaimInv, TypeOK, WeightsOK, PoolOfRound, GrantsArePaid
  <1>2. CASE Tick
    <2>1. time' \in 0..MaxTime
      BY <1>2, ClaimAssumption DEF ClaimInv, TypeOK, Tick
    <2>2. TypeOK'
      BY <1>2, <2>1 DEF ClaimInv, TypeOK, Tick
    <2> QED
      BY <1>2, <2>2 DEF Tick, ClaimInv, WeightsOK, PoolOfRound, GrantsArePaid
  <1>3. CASE EndBlocker
    BY <1>3, EndBlockerStep
  <1>4. ASSUME NEW u \in Users, ClaimFreeAmount(u) \/ AfterDelegationModified(u)
        PROVE  ClaimInv'
    <2>1. PICK action \in Actions : ClaimAllCoinsForAction(u, action)
      BY <1>4 DEF ClaimFreeAmount, AfterDelegationModified, Actions
    <2> QED
      BY <2>1, ClaimCoinsStep DEF ClaimAllCoinsForAction
  <1>5. ASSUME NEW u \in Users, AfterLiquidStake(u)
        PROVE  ClaimInv'
    <2> DEFINE action == "ACTION_LIQUID_STAKE"
               kept == Identifiers \ Unpayable(u, action)
    <2>1. action \in Actions
      BY DEF Actions
    <2>2. ~Aborts(u, action) /\ ClaimCoinsForAction(u, action, Claimable(u, action), kept)
      BY <1>5 DEF AfterLiquidStake
    <2>3. Claimable(u, action) \cap kept \cap Unpayable(u, action) = {}
      OBVIOUS
    <2> HIDE DEF action, kept
    <2> QED
      BY <2>1, <2>2, <2>3, ClaimCoinsStep
  <1>6. ASSUME NEW a \in Identifiers,
               \/ AfterEpochEnd(a)
               \/ \E delay \in StartDelays : CreateAirdrop(a, time + delay)
               \/ DeleteAirdrop(a)
               \/ \E u \in Users, earlier \in Weights \cup {0}, w \in Weights :
                    SetAirdropAllocations(a, u, earlier, w)
               \/ \E existing, new \in Users : UpdateAirdropAddress(a, existing, new)
               \/ \E amount \in Deposits : FundDistributor(a, amount) \/ SpendDistributor(a, amount)
        PROVE  ClaimInv'
    BY <1>6, AfterEpochEndStep, CreateAirdropStep, DeleteAirdropStep,
       SetAirdropAllocationsStep, UpdateAirdropAddressStep, FundDistributorStep,
       SpendDistributorStep
  <1> QED
    BY <1>1, <1>2, <1>3, <1>4, <1>5, <1>6 DEF Next

LEMMA ClaimInvHolds == Spec => []ClaimInv
  <1>1. Init => ClaimInv
    BY ClaimInvInit
  <1>2. ClaimInv /\ [Next]_vars => ClaimInv'
    BY ClaimInvNext
  <1> QED
    BY <1>1, <1>2, PTL DEF Spec

\* The airdrops, records, weights and balances are well-typed, for weights of either
\* sign: no epoch is counted beyond the time, and no distributor is overdrawn by a share
\* that was rounded up, or paid a negative one.
THEOREM ClaimTypeCorrect == Spec => []TypeOK
  <1>1. ClaimInv => TypeOK
    BY DEF ClaimInv
  <1> QED
    BY <1>1, ClaimInvHolds, PTL

\* For any prefixes, weights and histories of administration, a user named twice in one
\* message among them, the weights of an airdrop's records never exceed the total that
\* GetClaimableAmountForAction divides by, unless the airdrop was allocated a negative
\* weight (which ValidateBasic lets pass).
THEOREM SharesAtMostWholeHolds == Spec => []SharesAtMostWhole
  <1>1. ClaimInv => SharesAtMostWhole
    BY AllocatedIsSum DEF ClaimInv, WeightsOK, SharesAtMostWhole
  <1> QED
    BY <1>1, ClaimInvHolds, PTL

\* What negative weights cost: while none of a user's airdrops was allocated one, none of
\* the user's claims is aborted by the division by the total weight, nor by a negative
\* amount in NewCoin, in whatever message it happens.
ClaimsSucceed ==
    \A u \in Users, action \in Actions :
        GetAirdropIdentifiersForUser(u) \cap negative = {} => ~Aborts(u, action)

THEOREM ClaimsSucceedHolds == Spec => []ClaimsSucceed
  <1>1. ClaimInv => ClaimsSucceed
    <2> SUFFICES ASSUME ClaimInv, NEW u \in Users, NEW action \in Actions,
                        GetAirdropIdentifiersForUser(u) \cap negative = {},
                        NEW a \in GetAirdropIdentifiersForUser(u)
                 PROVE  ~Panics(a, u, action)
      BY DEF ClaimsSucceed, Aborts
    <2>1. a \in Identifiers \ negative /\ record[a][u] # NoRecord
      BY DEF GetAirdropIdentifiersForUser
    <2>2. totalWeight[a] \in Nat \ {0} /\ record[a][u].weight \in Nat \ {0}
      BY <2>1, WeightOfOne DEF ClaimInv
    <2>3. ShareFor(a, u, action) \in Nat
      BY <2>1, <2>2, ShareForInt
    <2> QED
      BY <2>2, <2>3 DEF Panics
  <1> QED
    BY <1>1, ClaimInvHolds, PTL

\* A recipient is paid at most once per action in a round of its airdrop, through
\* whatever addresses its record moves (ClaimCoinsForAction, ResetClaimStatus and
\* UpdateAirdropAddress), unless the epoch of a prefix opened the record again.
THEOREM ClaimedOncePerRoundHolds == Spec => []ClaimedOncePerRound
  <1>1. ClaimInv => ClaimedOncePerRound
    <2> SUFFICES ASSUME ClaimInv, NEW a \in Identifiers, NEW u \in Users,
                        record[a][u] # NoRecord, ~record[a][u].early, NEW c \in Actions
                 PROVE  record[a][u].paid[c] <= 1
      BY DEF ClaimedOncePerRound
    <2>1. RecordOK(record[a][u])
      BY DEF ClaimInv, RecordsOK
    <2> QED
      BY <2>1 DEF RecordOK
  <1> QED
    BY <1>1, ClaimInvHolds, PTL

\* Every claim of a round is a share of the same pool, for any order of claims, top-ups,
\* spending and epochs (AfterClaim, ResetClaimStatus, CreateAirdropAndEpoch).
THEOREM PoolOfRoundHolds == Spec => []PoolOfRound
  <1>1. ClaimInv => PoolOfRound
    BY DEF ClaimInv
  <1> QED
    BY <1>1, ClaimInvHolds, PTL

\* No vesting grant is left behind by a claim that could not be paid: messages fail as
\* a whole and AfterLiquidStake drops the writes of the airdrop that failed.
THEOREM GrantsArePaidHolds == Spec => []GrantsArePaid
  <1>1. ClaimInv => GrantsArePaid
    BY DEF ClaimInv
  <1> QED
    BY <1>1, ClaimInvHolds, PTL
=============================================================================
