-------------------------- MODULE ValidatorsProofs --------------------------
(***************************************************************************)
(* Theorems about Validators, for any validators, weights and amounts.     *)
(***************************************************************************)
EXTENDS Validators, LedgerTheorems

-----------------------------------------------------------------------------
(* Queries and their callbacks *)

\* At most one query of each id is stored, and its callback has not run since
\* it was made.
Answers == [Kinds -> [Addresses -> Nat]]
AreResponses(S) == \A r \in S : \E v :
    r \in [kind : Kinds, addr : Addresses, value : {v}, raced : BOOLEAN]

QueriesInv ==
    /\ queries \subseteq Query /\ AreResponses(responses)
    /\ answers \in Answers
    /\ \A q, r \in queries : SameId(q, r) => q = r
    /\ \A q \in queries : answers[q.kind][q.addr] = 0
    /\ CallbackAtMostOnce

\* What happens to the stored queries, if anything.
LEMMA SameQueries ==
    ASSUME QueriesInv, UNCHANGED icq
    PROVE  QueriesInv'
  <1>1. queries' = queries /\ responses' = responses /\ answers' = answers
    BY DEF icq
  <1> QED
    BY <1>1, Zenon DEF QueriesInv, CallbackAtMostOnce, AreResponses, Answers

\* A request that replaces the one of its id, and starts a new count.
LEMMA Requested ==
    ASSUME QueriesInv, NEW qs \in SUBSET queries, NEW k \in Kinds, NEW a \in Addresses,
           NEW f \in Answers, \A j \in Kinds, b \in Addresses :
             f[j][b] <= 1 /\ (f[j][b] # 0 => f[j][b] = answers[j][b] \/ \A q \in qs : ~(q.kind = j /\ q.addr = b)),
           f[k][a] = 0
    PROVE  LET new == MakeRequest(qs, k, a) IN
           /\ new \subseteq Query
           /\ \A q, r \in new : SameId(q, r) => q = r
           /\ \A q \in new : f[q.kind][q.addr] = 0
  <1> DEFINE n == NewQuery(k, a)
             new == MakeRequest(qs, k, a)
  <1>1. n.kind = k /\ n.addr = a /\ n \in Query
    BY DEF NewQuery, Query
  <1>2. \A q \in new : q = n \/ (q \in qs /\ ~SameId(q, n))
    BY DEF MakeRequest
  <1> HIDE DEF n, new
  <1>3. new \subseteq Query
    BY <1>1, <1>2 DEF QueriesInv
  <1>4. \A q, r \in new : SameId(q, r) => q = r
    BY <1>1, <1>2 DEF QueriesInv, SameId
  <1>5. ASSUME NEW q \in new PROVE f[q.kind][q.addr] = 0
    <2>1. CASE q = n
      BY <1>1, <2>1
    <2>2. CASE q \in qs
      <3>1. q.kind \in Kinds /\ q.addr \in Addresses /\ answers[q.kind][q.addr] = 0
        BY <2>2 DEF QueriesInv, AreResponses, Query
      <3> QED
        BY <2>2, <3>1
    <2> QED
      BY <1>2, <2>1, <2>2
  <1> QED
    BY <1>3, <1>4, <1>5 DEF new

LEMMA RequestQueries ==
    ASSUME QueriesInv, NEW a \in Addresses, QueryValidatorExchangeRate(a)
    PROVE  QueriesInv'
  <1> DEFINE f == Asked("validator", a)
  <1>0. "validator" \in Kinds
    BY DEF Kinds
  <1>1. f \in Answers /\ f["validator"][a] = 0
    BY <1>0 DEF QueriesInv, Answers, Asked
  <1>2. \A j \in Kinds, b \in Addresses : f[j][b] = answers[j][b] \/ f[j][b] = 0
    BY DEF QueriesInv, Answers, Asked
  <1>3. \A j \in Kinds, b \in Addresses : f[j][b] <= 1
    BY <1>2 DEF QueriesInv, CallbackAtMostOnce
  <1>4. queries' = MakeRequest(queries, "validator", a) /\ answers' = f /\ responses' = responses
    BY DEF QueryValidatorExchangeRate
  <1> HIDE DEF f
  <1>5. /\ queries' \subseteq Query
        /\ \A q, r \in queries' : SameId(q, r) => q = r
        /\ \A q \in queries' : f[q.kind][q.addr] = 0
    BY <1>0, <1>1, <1>2, <1>3, <1>4, Requested
  <1> QED
    BY <1>1, <1>3, <1>4, <1>5 DEF QueriesInv, CallbackAtMostOnce

\* Marking queries as sent or expired keeps their ids.
LEMMA MarkedQueries ==
    ASSUME QueriesInv, UNCHANGED <<answers, responses>>,
           NEW m, queries' = {m[q] : q \in queries}, \A q \in queries : m[q] \in Query /\ SameId(m[q], q)
    PROVE  QueriesInv'
  <1>1. \A r \in queries' : \E q \in queries : r = m[q] /\ SameId(r, q)
    OBVIOUS
  <1>2. queries' \subseteq Query /\ AreResponses(responses')
    BY DEF QueriesInv, AreResponses
  <1>3. \A q, r \in queries' : SameId(q, r) => q = r
    BY <1>1 DEF QueriesInv, SameId
  <1>4. \A q \in queries' : answers'[q.kind][q.addr] = 0
    BY <1>1 DEF QueriesInv, SameId
  <1> QED
    BY <1>2, <1>3, <1>4 DEF QueriesInv, CallbackAtMostOnce, Answers


LEMMA EndBlockerQueries ==
    ASSUME QueriesInv, EndBlocker
    PROVE  QueriesInv'
  <1> DEFINE m == [q \in queries |-> [q EXCEPT !.sent = TRUE]]
  <1>1. queries' = {m[q] : q \in queries} /\ UNCHANGED <<answers, responses>>
    BY DEF EndBlocker
  <1>2. \A q \in queries : m[q] \in Query /\ SameId(m[q], q)
    BY DEF SameId, QueriesInv, Query
  <1> HIDE DEF m
  <1> QED
    BY <1>1, <1>2, MarkedQueries

LEMMA BeginEpochQueries ==
    ASSUME QueriesInv, NEW d, NEW u, BeginEpoch(d, u)
    PROVE  QueriesInv'
  <1> DEFINE m == [q \in queries |-> [q EXCEPT !.expired = TRUE]]
  <1>1. queries' = {m[q] : q \in queries} /\ UNCHANGED <<answers, responses>>
    BY DEF BeginEpoch
  <1>2. \A q \in queries : m[q] \in Query /\ SameId(m[q], q)
    BY DEF SameId, QueriesInv, Query
  <1> HIDE DEF m
  <1> QED
    BY <1>1, <1>2, MarkedQueries

\* Responses come and go; only that they belong to some query matters.
LEMMA OtherResponses ==
    ASSUME QueriesInv, UNCHANGED <<queries, answers>>, AreResponses(responses')
    PROVE  QueriesInv'
    BY DEF QueriesInv, CallbackAtMostOnce, AreResponses, Answers

LEMMA RaceResponses ==
    ASSUME QueriesInv, NEW p
    PROVE  AreResponses(Race(p))
  <1> SUFFICES ASSUME NEW s \in responses
               PROVE  \E v : [s EXCEPT !.raced = TRUE]
                         \in [kind : Kinds, addr : Addresses, value : {v}, raced : BOOLEAN]
    BY DEF Race, QueriesInv, AreResponses
  <1>1. PICK v : s \in [kind : Kinds, addr : Addresses, value : {v}, raced : BOOLEAN]
    BY DEF QueriesInv, AreResponses
  <1> QED
    BY <1>1

LEMMA ReadHostQueries ==
    ASSUME QueriesInv, NEW q \in queries, ReadHost(q)
    PROVE  QueriesInv'
  <1>1. UNCHANGED <<queries, answers>>
    BY DEF ReadHost
  <1> DEFINE value == IF q.kind = "validator" THEN hostRate[q.addr] ELSE shares[q.addr]
             raced == \E p \in Range(channel.pkts) : p.status = "ok" /\ q.addr \in Touched(p)
             new == [kind |-> q.kind, addr |-> q.addr, value |-> value, raced |-> raced]
  <1>2. responses' = responses \cup {new}
    BY DEF ReadHost
  <1>3. q.kind \in Kinds /\ q.addr \in Addresses /\ raced \in BOOLEAN
    BY DEF QueriesInv, Query
  <1> HIDE DEF value, raced
  <1>4. new \in [kind : Kinds, addr : Addresses, value : {value}, raced : BOOLEAN]
    BY <1>3
  <1> HIDE DEF new
  <1>5. AreResponses(responses')
    BY <1>2, <1>4 DEF QueriesInv, AreResponses
  <1> QED
    BY <1>1, <1>5, OtherResponses

\* What a callback makes of the stored queries: they are what they were, or
\* without the one that was answered, or have the next request.
LEMMA CallbackResults ==
    ASSUME NEW r, NEW qs
    PROVE  /\ LET res == ValidatorExchangeRateCallback(r, qs) IN
              \/ res.err /\ res.queries = queries
              \/ ~res.err /\ res.queries = MakeRequest(qs, "delegation", r.addr)
           /\ LET res == DelegatorSharesCallback(r, qs) IN
              \/ res.err /\ res.queries = queries
              \/ ~res.err /\ res.queries = qs
  <1>1. ~Unchanged(qs).err /\ Unchanged(qs).queries = qs
    BY DEF Unchanged
  <1>2. Error.err /\ Error.queries = queries
    BY DEF Error, Unchanged
  <1>3. LET res == ValidatorExchangeRateCallback(r, qs) IN
              \/ res.err /\ res.queries = queries
              \/ ~res.err /\ res.queries = MakeRequest(qs, "delegation", r.addr)
    BY <1>2 DEF ValidatorExchangeRateCallback, Unchanged
  <1>4. ASSUME NEW v, NEW tokens
        PROVE  ~Slashed(v, tokens, qs).err /\ Slashed(v, tokens, qs).queries = qs
    BY DEF Slashed, Unchanged
  <1>5. ASSUME NEW vs, NEW bal
        PROVE  LET res == [Unchanged(qs) EXCEPT !.vals = vs, !.stakedBal = bal] IN
               ~res.err /\ res.queries = qs
    BY DEF Unchanged
  <1>6. LET res == DelegatorSharesCallback(r, qs) IN
              \/ res.err /\ res.queries = queries
              \/ ~res.err /\ res.queries = qs
    BY <1>1, <1>2, <1>4, <1>5 DEF DelegatorSharesCallback
  <1> QED
    BY <1>3, <1>6


LEMMA SubmitQueries ==
    ASSUME QueriesInv, NEW r \in responses, NEW again \in BOOLEAN, SubmitQueryResponse(r, again)
    PROVE  QueriesInv'
  <1>1. AreResponses(responses')
    BY DEF SubmitQueryResponse, QueriesInv, AreResponses
  <1>2. r.kind \in Kinds /\ r.addr \in Addresses
    BY DEF QueriesInv, AreResponses
  <1>3. CASE UNCHANGED <<queries, answers>>
    BY <1>1, <1>3, OtherResponses
  <1>4. ASSUME NEW q \in queries, SameId(q, r),
               LET qs == DeleteQuery(q)
                   res == IF q.expired \/ r.value = 0 THEN Unchanged(qs)
                          ELSE IF r.kind = "validator"
                          THEN ValidatorExchangeRateCallback(r, qs)
                          ELSE DelegatorSharesCallback(r, qs)
                   called == ~res.err /\ ~q.expired /\ r.value # 0
               IN  /\ queries' = res.queries
                   /\ answers' = [k \in Kinds |-> [a \in Addresses |->
                        IF called /\ k = r.kind /\ a = r.addr THEN answers[k][a] + 1
                        ELSE IF called /\ k = "delegation" /\ r.kind = "validator" /\ a = r.addr
                        THEN 0 ELSE answers[k][a]]]
        PROVE  QueriesInv'
    <2> DEFINE qs == DeleteQuery(q)
               res == IF q.expired \/ r.value = 0 THEN Unchanged(qs)
                      ELSE IF r.kind = "validator"
                      THEN ValidatorExchangeRateCallback(r, qs)
                      ELSE DelegatorSharesCallback(r, qs)
               called == ~res.err /\ ~q.expired /\ r.value # 0
    <2>1. queries' = res.queries
      BY <1>4
    <2>2. answers' = [k \in Kinds |-> [a \in Addresses |->
                        IF called /\ k = r.kind /\ a = r.addr THEN answers[k][a] + 1
                        ELSE IF called /\ k = "delegation" /\ r.kind = "validator" /\ a = r.addr
                        THEN 0 ELSE answers[k][a]]]
      BY <1>4
    <2>3. qs = queries \ {q}
      BY DEF DeleteQuery
    <2>4. answers[r.kind][r.addr] = 0
      BY <1>4 DEF QueriesInv, SameId
    <2>5. \A s \in qs : ~(s.kind = r.kind /\ s.addr = r.addr)
      BY <1>4, <2>3 DEF QueriesInv, SameId
    <2>6. ~Unchanged(qs).err /\ Unchanged(qs).queries = qs
      BY DEF Unchanged
    <2>7. \/ ~called /\ queries' = queries
          \/ ~called /\ queries' = qs
          \/ called /\ r.kind = "validator" /\ queries' = MakeRequest(qs, "delegation", r.addr)
          \/ called /\ r.kind # "validator" /\ queries' = qs
      BY <2>1, <2>6, CallbackResults
    <2> HIDE DEF qs, res, called
    <2>8. ASSUME ~called PROVE answers' = answers
      BY <2>2, <2>8 DEF QueriesInv, Answers
    <2>9. ASSUME ~called PROVE QueriesInv'
      <3>1. queries' \subseteq queries
        BY <2>3, <2>7, <2>9
      <3> QED
        BY <1>1, <2>8, <2>9, <3>1 DEF QueriesInv, CallbackAtMostOnce
    <2>10. \A k \in Kinds, a \in Addresses : answers[k][a] \in Nat /\ answers[k][a] <= 1
      BY DEF QueriesInv, Answers, CallbackAtMostOnce
    <2>11. \A k \in Kinds, a \in Addresses :
             \/ answers'[k][a] = answers[k][a]
             \/ answers'[k][a] = 0
             \/ k = r.kind /\ a = r.addr /\ answers'[k][a] = 1
      BY <2>2, <2>4
    <2>12. answers' \in Answers
      <3>1. \A k \in Kinds, a \in Addresses : answers'[k][a] \in Nat
        BY <2>10, <2>11
      <3> QED
        BY <2>2, <3>1 DEF Answers
    <2>13. CallbackAtMostOnce'
      BY <2>10, <2>11 DEF CallbackAtMostOnce
    <2>14. ASSUME queries' = qs PROVE \A s \in qs : answers'[s.kind][s.addr] = 0
      BY <2>3, <2>5, <2>11 DEF QueriesInv, Query
    <2>15. CASE called /\ r.kind # "validator" /\ queries' = qs
      BY <1>1, <2>3, <2>12, <2>13, <2>14, <2>15 DEF QueriesInv
    <2>16. CASE called /\ r.kind = "validator" /\ queries' = MakeRequest(qs, "delegation", r.addr)
      <3>1. "delegation" \in Kinds /\ qs \in SUBSET queries
        BY <2>3 DEF Kinds
      <3>2. answers'["delegation"][r.addr] = 0
        BY <1>2, <2>2, <2>16, <3>1
      <3>3. \A j \in Kinds, b \in Addresses :
              /\ answers'[j][b] <= 1
              /\ answers'[j][b] # 0 => \/ answers'[j][b] = answers[j][b]
                                       \/ \A s \in qs : ~(s.kind = j /\ s.addr = b)
        BY <2>5, <2>11, <2>13 DEF CallbackAtMostOnce
      <3> DEFINE f == answers'
      <3>4. /\ f \in Answers /\ f["delegation"][r.addr] = 0
            /\ \A j \in Kinds, b \in Addresses :
                 /\ f[j][b] <= 1
                 /\ f[j][b] # 0 => f[j][b] = answers[j][b] \/ \A s \in qs : ~(s.kind = j /\ s.addr = b)
        BY <2>12, <3>2, <3>3
      <3> HIDE DEF f
      <3>5. LET new == MakeRequest(qs, "delegation", r.addr) IN
            /\ new \subseteq Query
            /\ \A s, t \in new : SameId(s, t) => s = t
            /\ \A s \in new : f[s.kind][s.addr] = 0
        BY <1>2, <3>1, <3>4, Requested
      <3> QED
        BY <1>1, <2>12, <2>13, <2>16, <3>5 DEF QueriesInv, f
    <2> QED
      BY <2>7, <2>9, <2>15, <2>16
  <1> QED
    BY <1>3, <1>4 DEF SubmitQueryResponse

LEMMA QueriesInvHolds ==
    Spec => []QueriesInv
  <1>1. Init => QueriesInv
    BY DEF Init, QueriesInv, Answers, AreResponses, CallbackAtMostOnce
  <1>2. ASSUME QueriesInv, [Next]_vars PROVE QueriesInv'
    <2>1. ASSUME NEW a \in Addresses, AddValidators(a) \/ AddValidatorsProposal(a)
          PROVE  UNCHANGED icq
      BY <2>1 DEF AddValidators, AddValidatorsProposal, AddValidatorToHostZone
    <2>2. ASSUME NEW a \in Addresses, NEW w \in Weights, ChangeValidatorWeight(a, w)
          PROVE  UNCHANGED icq
      BY <2>2 DEF ChangeValidatorWeight
    <2>3. ASSUME NEW a \in Addresses, RemoveValidatorFromHostZone(a)
          PROVE  UNCHANGED icq
      BY <2>3 DEF RemoveValidatorFromHostZone
    <2>4. ASSUME NEW d, NEW u, BeginEpoch(d, u) PROVE QueriesInv'
      BY <1>2, <2>4, BeginEpochQueries
    <2>5. CASE EnterBufferWindow
      BY <1>2, <2>5, SameQueries DEF EnterBufferWindow
    <2>6. ASSUME NEW n \in NumRebalance, RebalanceValidators(n) PROVE UNCHANGED icq
      BY <2>6 DEF RebalanceValidators
    <2>7. ASSUME NEW ok \in BOOLEAN, ExecuteICA(ok) PROVE QueriesInv'
      <3>1. UNCHANGED <<queries, answers>> /\ (responses' = responses \/ \E p : responses' = Race(p))
        BY <2>7 DEF ExecuteICA
      <3> QED
        BY <1>2, <3>1, RaceResponses, OtherResponses DEF QueriesInv
    <2>8. ASSUME NEW a \in Addresses, NEW f \in SlashFactors, Slash(a, f) PROVE UNCHANGED icq
      BY <2>8 DEF Slash
    <2>9. CASE AcknowledgeICA
      <3>1. UNCHANGED <<queries, answers>> /\ (responses' = responses \/ \E p : responses' = Race(p))
        BY <2>9 DEF AcknowledgeICA
      <3> QED
        BY <1>2, <3>1, RaceResponses, OtherResponses DEF QueriesInv
    <2>10. CASE TimeoutICA
      BY <1>2, <2>10, SameQueries DEF TimeoutICA
    <2>11. CASE RestoreInterchainAccount
      BY <1>2, <2>11, SameQueries DEF RestoreInterchainAccount
    <2>12. ASSUME NEW a \in Addresses, QueryValidatorExchangeRate(a) PROVE QueriesInv'
      BY <1>2, <2>12, RequestQueries
    <2>13. CASE EndBlocker
      BY <1>2, <2>13, EndBlockerQueries
    <2>14. ASSUME NEW q \in queries, ReadHost(q) PROVE QueriesInv'
      BY <1>2, <2>14, ReadHostQueries
    <2>15. ASSUME NEW r \in responses, NEW again \in BOOLEAN, SubmitQueryResponse(r, again)
           PROVE  QueriesInv'
      BY <1>2, <2>15, SubmitQueries
    <2>16. CASE UNCHANGED vars
      BY <1>2, <2>16, SameQueries DEF vars
    <2> QED
      BY <1>2, <2>1, <2>2, <2>3, <2>4, <2>5, <2>6, <2>7, <2>8, <2>9, <2>10, <2>11, <2>12,
         <2>13, <2>14, <2>15, <2>16, SameQueries DEF Next
  <1> QED
    BY <1>1, <1>2, PTL DEF Spec

\* A request runs its callback at most once, however often its response is
\* submitted and whichever of its responses comes first: a query is deleted
\* before its callback runs, and only a new request restores it.
THEOREM CallbackAtMostOnceHolds ==
    Spec => []CallbackAtMostOnce
  <1>1. QueriesInv => CallbackAtMostOnce
    BY DEF QueriesInv
  <1> QED
    BY <1>1, QueriesInvHolds, PTL


-----------------------------------------------------------------------------
(* What moves change *)

Delta(moves, x) == [i \in DOMAIN moves |-> (IF moves[i].dst = x THEN moves[i].amt ELSE 0)
                                              - (IF moves[i].src = x THEN moves[i].amt ELSE 0)]
NetOf(moves, D, x) == SumFunctionOnSet(Delta(moves, x), D)

LEMMA NetIsSum ==
    ASSUME NEW moves, NEW x
    PROVE  Net(moves, x) = NetOf(moves, DOMAIN moves, x)
  <1>1. Net(moves, x) = SumFunctionOnSet(Delta(moves, x), DOMAIN Delta(moves, x))
    BY DEF Net, Delta, SumFunction
  <1>2. DOMAIN Delta(moves, x) = DOMAIN moves
    BY DEF Delta
  <1> QED
    BY <1>1, <1>2 DEF NetOf

\* Finitely many moves of whole tokens.
MovesOK(moves) ==
    IsFiniteSet(DOMAIN moves) /\ \A i \in DOMAIN moves : moves[i].amt \in Int

LEMMA DeltaInt ==
    ASSUME NEW moves, MovesOK(moves), NEW x
    PROVE  \A i \in DOMAIN moves : Delta(moves, x)[i] \in Int
    BY DEF MovesOK, Delta

LEMMA NetInt ==
    ASSUME NEW moves, MovesOK(moves), NEW x
    PROVE  Net(moves, x) \in Int /\ \A D \in SUBSET DOMAIN moves : NetOf(moves, D, x) \in Int
  <1>1. \A D \in SUBSET DOMAIN moves : NetOf(moves, D, x) \in Int
    <2> TAKE D \in SUBSET DOMAIN moves
    <2>1. IsFiniteSet(D) /\ \A i \in D : Delta(moves, x)[i] \in Int
      BY FS_Subset, DeltaInt DEF MovesOK
    <2> QED
      BY <2>1, SumInt DEF NetOf
  <1> QED
    BY <1>1, NetIsSum

\* What one move takes from one place it gives to another.
LEMMA OneMoveCancels ==
    ASSUME NEW S, IsFiniteSet(S), NEW moves, NEW i \in DOMAIN moves, moves[i].amt \in Int,
           moves[i].src \in S, moves[i].dst \in S
    PROVE  SumFunctionOnSet([x \in S |-> Delta(moves, x)[i]], S) = 0
  <1> DEFINE amt == moves[i].amt
             src == moves[i].src
             dst == moves[i].dst
             to == [x \in S |-> IF dst = x THEN amt ELSE 0]
             from == [x \in S |-> IF src = x THEN -amt ELSE 0]
             both == [x \in S |-> Delta(moves, x)[i]]
  <1>1. /\ to[dst] = amt /\ from[src] = -amt
        /\ \A x \in S \ {dst} : to[x] = 0
        /\ \A x \in S \ {src} : from[x] = 0
    OBVIOUS
  <1>2. \A x \in S : to[x] \in Int /\ from[x] \in Int /\ both[x] = to[x] + from[x]
    BY DEF Delta
  <1>3. amt \in Int /\ -amt \in Int /\ src \in S /\ dst \in S
    OBVIOUS
  <1> HIDE DEF amt, src, dst, to, from, both
  <1>4. SumFunctionOnSet(to, S) = amt
    BY <1>1, <1>3, SumOne
  <1>5. SumFunctionOnSet(from, S) = -amt
    BY <1>1, <1>3, SumOne
  <1>6. SumFunctionOnSet(both, S) = SumFunctionOnSet(to, S) + SumFunctionOnSet(from, S)
    BY <1>2, SumPlus
  <1>7. SumFunctionOnSet(both, S) = 0
    BY <1>3, <1>4, <1>5, <1>6
  <1> QED
    BY <1>7 DEF both

LEMMA MovesCancel ==
    ASSUME NEW S, IsFiniteSet(S), NEW moves, MovesOK(moves),
           \A i \in DOMAIN moves : moves[i].src \in S /\ moves[i].dst \in S
    PROVE  SumFunctionOnSet([x \in S |-> Net(moves, x)], S) = 0
  <1> DEFINE net(D) == [x \in S |-> NetOf(moves, D, x)]
             B == {D \in SUBSET DOMAIN moves : SumFunctionOnSet(net(D), S) # 0}
             M == DOMAIN moves
  <1>1. SumFunctionOnSet(net(M), S) = 0
    <2> SUFFICES ASSUME B # {} PROVE FALSE
      OBVIOUS
    <2>1. B \in SUBSET SUBSET M /\ IsFiniteSet(M)
      BY DEF MovesOK
    <2>2. PICK T \in B : \A U \in B : U \subseteq T => U = T
      <3> HIDE DEF B, M
      <3> QED
        BY <2>1, MinimalSubset
    <2>3. T \in SUBSET M /\ IsFiniteSet(T)
      BY <2>1, <2>2, FS_Subset
    <2>4. T # {}
      <3>1. \A x \in S : net({})[x] = 0
        BY SumEmpty DEF NetOf
      <3>2. SumFunctionOnSet(net({}), S) = 0
        <4> HIDE DEF net
        <4> QED
          BY <3>1, SumZero
      <3> QED
        BY <2>2, <3>2
    <2>5. PICK i \in T : TRUE
      BY <2>4
    <2> DEFINE U == T \ {i}
               d == [x \in S |-> Delta(moves, x)[i]]
    <2>6. U \in SUBSET M /\ U \subseteq T /\ U # T
      BY <2>3, <2>5
    <2>7. SumFunctionOnSet(net(U), S) = 0
      BY <2>2, <2>6
    <2>8. SumFunctionOnSet(d, S) = 0
      BY <2>3, OneMoveCancels DEF MovesOK
    <2>9. \A x \in S : net(T)[x] = d[x] + net(U)[x] /\ d[x] \in Int /\ net(U)[x] \in Int
      <3> TAKE x \in S
      <3>1. \A y \in T : Delta(moves, x)[y] \in Int
        BY <2>3, DeltaInt
      <3>2. NetOf(moves, T, x) = Delta(moves, x)[i] + NetOf(moves, U, x)
        BY <2>3, <3>1, SumRemove DEF NetOf
      <3>3. NetOf(moves, U, x) \in Int
        BY <2>6, NetInt
      <3> QED
        BY <3>1, <3>2, <3>3
    <2> DEFINE nT == net(T)
               nU == net(U)
    <2>10. \A x \in S : d[x] \in Int /\ nU[x] \in Int /\ nT[x] = d[x] + nU[x]
      BY <2>9
    <2>11. SumFunctionOnSet(nT, S) = SumFunctionOnSet(d, S) + SumFunctionOnSet(nU, S)
      <3> HIDE DEF nT, nU, d
      <3> QED
        BY <2>10, SumPlus
    <2> QED
      BY <2>2, <2>7, <2>8, <2>11
  <1>2. \A x \in S : net(M)[x] = Net(moves, x)
    BY NetIsSum
  <1>3. [x \in S |-> Net(moves, x)] = net(M)
    BY <1>2
  <1> QED
    BY <1>1, <1>3


-----------------------------------------------------------------------------
(* The list of validators and its total *)

Entry == [addr : Addresses, weight : Nat, amt : Int, rate : Nat, fresh : BOOLEAN]
Distinct(vs) == \A i, j \in DOMAIN vs : vs[i].addr = vs[j].addr => i = j
ValidatorList == {vs \in Seq(Entry) : Distinct(vs)}

Amts(vs) == [i \in DOMAIN vs |-> vs[i].amt]
Total(vs) == SumFunctionOnSet(Amts(vs), DOMAIN vs)

LEMMA TotalIsSum ==
    ASSUME NEW vs
    PROVE  GetTotalValidatorDelegations(vs) = Total(vs)
  <1>1. DOMAIN Amts(vs) = DOMAIN vs
    BY DEF Amts
  <1> QED
    BY <1>1 DEF GetTotalValidatorDelegations, Total, Amts, SumFunction

LEMMA ListFacts ==
    ASSUME NEW vs \in Seq(Entry)
    PROVE  /\ DOMAIN vs = 1..Len(vs) /\ Len(vs) \in Nat /\ IsFiniteSet(DOMAIN vs)
           /\ \A i \in DOMAIN vs : vs[i] \in Entry /\ Amts(vs)[i] = vs[i].amt /\ Amts(vs)[i] \in Int
           /\ Registered(vs) \subseteq Addresses /\ IsFiniteSet(Registered(vs))
           /\ Account \notin Registered(vs)
           /\ Total(vs) \in Int
  <1>1. DOMAIN vs = 1..Len(vs) /\ Len(vs) \in Nat
    OBVIOUS
  <1>2. IsFiniteSet(DOMAIN vs)
    BY <1>1, FS_Interval
  <1>3. \A i \in DOMAIN vs : vs[i] \in Entry /\ Amts(vs)[i] = vs[i].amt /\ Amts(vs)[i] \in Int
    <2>1. \A i \in DOMAIN vs : vs[i] \in Entry
      OBVIOUS
    <2> QED
      BY <2>1 DEF Amts, Entry
  <1>4. Registered(vs) \subseteq Addresses
    BY <1>3 DEF Registered, Entry
  <1>5. IsFiniteSet(Registered(vs))
    BY <1>4, ValidatorsAssumption, FS_Subset
  <1>6. Account \notin Registered(vs)
    BY <1>4, ValidatorsAssumption DEF Account
  <1>7. Total(vs) \in Int
    BY <1>2, <1>3, SumInt DEF Total
  <1> QED
    BY <1>1, <1>2, <1>3, <1>4, <1>5, <1>6, <1>7

\* The validator with an address.
LEMMA IndexOf ==
    ASSUME NEW vs \in ValidatorList
    PROVE  /\ \A a \in Registered(vs) : /\ Index(vs, a) \in DOMAIN vs
                                        /\ vs[Index(vs, a)].addr = a
                                        /\ Val(vs, a) = vs[Index(vs, a)] /\ Val(vs, a) \in Entry
           /\ \A i \in DOMAIN vs : vs[i].addr \in Registered(vs) /\ Index(vs, vs[i].addr) = i
  <1>1. \A a \in Registered(vs) : \E i \in DOMAIN vs : vs[i].addr = a
    BY DEF Registered
  <1>2. \A a \in Registered(vs) : Index(vs, a) \in DOMAIN vs /\ vs[Index(vs, a)].addr = a
    BY <1>1 DEF Index
  <1>3. \A i \in DOMAIN vs : vs[i].addr \in Registered(vs)
    BY DEF Registered
  <1>4. \A i \in DOMAIN vs : Index(vs, vs[i].addr) = i
    BY <1>2, <1>3 DEF ValidatorList, Distinct
  <1>5. \A i \in DOMAIN vs : vs[i] \in Entry
    BY DEF ValidatorList
  <1> QED
    BY <1>2, <1>3, <1>4, <1>5 DEF Val

\* A list of the same length whose validators keep their addresses.
LEMMA SameShape ==
    ASSUME NEW vs \in ValidatorList, NEW f, f = [i \in DOMAIN vs |-> f[i]],
           \A i \in DOMAIN vs : f[i] \in Entry /\ f[i].addr = vs[i].addr
    PROVE  f \in ValidatorList /\ DOMAIN f = DOMAIN vs
  <1>1. vs \in Seq(Entry) /\ Distinct(vs)
    BY DEF ValidatorList
  <1>2. DOMAIN vs = 1..Len(vs) /\ Len(vs) \in Nat
    BY <1>1
  <1>3. DOMAIN f = DOMAIN vs
    OBVIOUS
  <1>4. f \in [1..Len(vs) -> Entry]
    BY <1>2
  <1>5. f \in Seq(Entry)
    BY <1>2, <1>4
  <1>6. Distinct(f)
    BY <1>1, <1>3 DEF Distinct
  <1> QED
    BY <1>3, <1>5, <1>6 DEF ValidatorList

LEMMA AppendTotal ==
    ASSUME NEW vs \in ValidatorList, NEW v \in Entry, v.addr \notin Registered(vs)
    PROVE  Append(vs, v) \in ValidatorList /\ Total(Append(vs, v)) = Total(vs) + v.amt
  <1> DEFINE ws == Append(vs, v)
             n == Len(vs)
  <1>1. vs \in Seq(Entry) /\ Distinct(vs)
    BY DEF ValidatorList
  <1>2. /\ n \in Nat /\ DOMAIN vs = 1..n /\ DOMAIN ws = 1..n + 1 /\ ws \in Seq(Entry)
        /\ ws[n + 1] = v /\ \A i \in 1..n : ws[i] = vs[i]
    BY <1>1
  <1>3. Distinct(ws)
    BY <1>1, <1>2 DEF Distinct, Registered
  <1> HIDE DEF ws, n
  <1> DEFINE D == 1..n
             x == n + 1
             f == Amts(ws)
             g == Amts(vs)
  <1>4. /\ IsFiniteSet(D) /\ x \notin D /\ DOMAIN ws = D \cup {x}
        /\ \A i \in D : f[i] = g[i] /\ f[i] \in Int
        /\ f[x] = v.amt /\ f[x] \in Int
    <2>1. IsFiniteSet(D) /\ x \notin D /\ DOMAIN ws = D \cup {x}
      <3>1. IsFiniteSet(D)
        BY <1>2, FS_Interval
      <3>2. x \notin D /\ DOMAIN ws = D \cup {x}
        BY <1>2
      <3> QED
        BY <3>1, <3>2
    <2>2. \A i \in D : f[i] = g[i] /\ f[i] \in Int
      BY <1>1, <1>2, <2>1, ListFacts DEF Amts
    <2>3. f[x] = v.amt
      BY <1>2, <2>1 DEF Amts
    <2>4. f[x] \in Int
      BY <2>3 DEF Entry
    <2> QED
      BY <2>1, <2>2, <2>3, <2>4
  <1> HIDE DEF D, x, f, g
  <1>5. SumFunctionOnSet(f, D \cup {x}) = f[x] + SumFunctionOnSet(f, D)
    BY <1>4, SumAdd
  <1>6. SumFunctionOnSet(f, D) = SumFunctionOnSet(g, D)
    BY <1>4, SumSame
  <1>7. Total(ws) = SumFunctionOnSet(f, D \cup {x}) /\ Total(vs) = SumFunctionOnSet(g, D)
    BY <1>2, <1>4 DEF Total, f, g, D
  <1>8. Total(vs) \in Int
    BY <1>1, ListFacts
  <1>9. Total(ws) = Total(vs) + v.amt
    BY <1>4, <1>5, <1>6, <1>7, <1>8
  <1> QED
    BY <1>2, <1>3, <1>9 DEF ws, ValidatorList


\* The list without entry k.
LEMMA RemoveAtEntries ==
    ASSUME NEW vs \in Seq(Entry), NEW k \in DOMAIN vs
    PROVE  /\ RemoveAt(vs, k) \in Seq(Entry) /\ DOMAIN RemoveAt(vs, k) = 1..Len(vs) - 1
           /\ \A i \in 1..Len(vs) - 1 : RemoveAt(vs, k)[i] = IF i < k THEN vs[i] ELSE vs[i + 1]
  <1> DEFINE n == Len(vs)
             s == SubSeq(vs, 1, k - 1)
             t == SubSeq(vs, k + 1, n)
  <1>1. n \in Nat /\ DOMAIN vs = 1..n /\ k \in 1..n
    OBVIOUS
  <1>2. s \in Seq(Entry) /\ Len(s) = k - 1 /\ \A i \in 1..k - 1 : s[i] = vs[i]
    BY <1>1
  <1>3. t \in Seq(Entry) /\ Len(t) = n - k /\ \A i \in 1..n - k : t[i] = vs[k + i]
    BY <1>1
  <1> HIDE DEF n, s, t
  <1>4. /\ s \o t \in Seq(Entry) /\ Len(s \o t) = n - 1
        /\ \A i \in 1..n - 1 : (s \o t)[i] = IF i < k THEN s[i] ELSE t[i - (k - 1)]
    <2>0. s \in Seq(Entry) /\ t \in Seq(Entry)
      BY <1>2, <1>3
    <2>1. s \o t \in Seq(Entry) /\ Len(s \o t) = Len(s) + Len(t)
      <3>1. s \o t \in Seq(Entry)
        BY ONLY <2>0
      <3>2. Len(s \o t) = Len(s) + Len(t)
        BY ONLY <2>0
      <3> QED
        BY <3>1, <3>2
    <2>2. \A i \in 1..Len(s) + Len(t) :
            (s \o t)[i] = IF i <= Len(s) THEN s[i] ELSE t[i - Len(s)]
      BY <1>2, <1>3
    <2>3. Len(s) + Len(t) = n - 1 /\ \A i \in 1..n - 1 : i < k <=> i <= Len(s)
      BY <1>1, <1>2, <1>3
    <2> QED
      BY <1>2, <2>1, <2>2, <2>3
  <1>5. \A i \in 1..n - 1 : (s \o t)[i] = IF i < k THEN vs[i] ELSE vs[i + 1]
    <2> TAKE i \in 1..n - 1
    <2>1. CASE i < k
      BY <1>1, <1>2, <1>4, <2>1
    <2>2. CASE ~(i < k)
      <3>1. i - (k - 1) \in 1..n - k /\ k + (i - (k - 1)) = i + 1
        BY <1>1, <2>2
      <3> QED
        BY <1>3, <1>4, <2>2, <3>1
    <2> QED
      BY <2>1, <2>2
  <1>6. RemoveAt(vs, k) = s \o t
    BY DEF RemoveAt, n, s, t
  <1>7. DOMAIN (s \o t) = 1..n - 1
    BY <1>4
  <1> QED
    BY <1>4, <1>5, <1>6, <1>7 DEF n

LEMMA RemoveTotal ==
    ASSUME NEW vs \in ValidatorList, NEW k \in DOMAIN vs
    PROVE  /\ RemoveAt(vs, k) \in ValidatorList
           /\ Total(RemoveAt(vs, k)) = Total(vs) - vs[k].amt
           /\ Registered(RemoveAt(vs, k)) = Registered(vs) \ {vs[k].addr}
           /\ \A i \in DOMAIN RemoveAt(vs, k) : \E j \in DOMAIN vs \ {k} : RemoveAt(vs, k)[i] = vs[j]
  <1> DEFINE ws == RemoveAt(vs, k)
             n == Len(vs)
             h == [i \in 1..n - 1 |-> IF i < k THEN i ELSE i + 1]
             D == 1..n - 1
             E == 1..n
             f == Amts(ws)
             g == Amts(vs)
  <1>1. vs \in Seq(Entry) /\ Distinct(vs)
    BY DEF ValidatorList
  <1>2. n \in Nat /\ DOMAIN vs = E /\ k \in 1..n /\ IsFiniteSet(E)
    BY <1>1, ListFacts
  <1>3. /\ ws \in Seq(Entry) /\ DOMAIN ws = D
        /\ \A i \in D : ws[i] = vs[h[i]]
    BY <1>1, <1>2, RemoveAtEntries
  <1>4. /\ \A i \in D : h[i] \in E \ {k}
        /\ \A i, j \in D : h[i] = h[j] => i = j
    BY <1>2
  <1>5. \A j \in E \ {k} : \E i \in D : h[i] = j
    <2> TAKE j \in E \ {k}
    <2>1. CASE j < k
      <3>1. j \in D /\ h[j] = j
        BY <1>2, <2>1
      <3> QED
        BY <3>1
    <2>2. CASE ~(j < k)
      <3>1. j - 1 \in D /\ h[j - 1] = j
        BY <1>2, <2>2
      <3> QED
        BY <3>1
    <2> QED
      BY <2>1, <2>2
  <1>6. {h[i] : i \in D} = E \ {k}
    BY <1>4, <1>5
  <1>7. Distinct(ws)
    <2> SUFFICES ASSUME NEW i \in D, NEW j \in D, ws[i].addr = ws[j].addr PROVE i = j
      BY <1>3 DEF Distinct
    <2>1. h[i] \in DOMAIN vs /\ h[j] \in DOMAIN vs /\ vs[h[i]].addr = vs[h[j]].addr
      BY <1>2, <1>3, <1>4
    <2>2. h[i] = h[j]
      BY <1>1, <2>1 DEF Distinct
    <2> QED
      BY <1>4, <2>2
  <1>8. IsFiniteSet(D)
    BY <1>2, FS_Interval
  <1> HIDE DEF ws, n, h, D, E
  <1>9. \A i \in D : f[i] = g[h[i]] /\ f[i] \in Int
    BY <1>1, <1>2, <1>3, <1>4, ListFacts DEF Amts
  <1>10. \A i \in E : g[i] \in Int
    BY <1>1, <1>2, ListFacts
  <1> HIDE DEF f, g
  <1>11. SumFunctionOnSet(f, D) = SumFunctionOnSet(g, {h[i] : i \in D})
    BY <1>4, <1>8, <1>9, SumReindex
  <1>12. SumFunctionOnSet(g, E) = g[k] + SumFunctionOnSet(g, E \ {k})
    BY <1>2, <1>10, SumRemove
  <1>13. g[k] = vs[k].amt /\ g[k] \in Int
    BY <1>2, <1>10 DEF g, Amts
  <1>14. Total(ws) \in Int /\ Total(vs) \in Int
    BY <1>1, <1>3, ListFacts
  <1>15. Total(ws) = SumFunctionOnSet(f, D) /\ Total(vs) = SumFunctionOnSet(g, E)
    BY <1>2, <1>3 DEF Total, f, g
  <1>16. Total(ws) = Total(vs) - vs[k].amt
    <2> DEFINE a == SumFunctionOnSet(f, D)
               b == SumFunctionOnSet(g, E)
    <2>1. b = g[k] + a
      BY <1>6, <1>11, <1>12
    <2>2. a \in Int /\ b \in Int
      BY <1>14, <1>15
    <2> HIDE DEF a, b
    <2>3. a = b - g[k]
      BY <1>13, <2>1, <2>2
    <2> QED
      BY <1>13, <1>15, <2>3 DEF a, b
  <1>17. Registered(ws) = Registered(vs) \ {vs[k].addr}
    <2>1. \A i \in D : ws[i].addr \in Registered(vs) /\ ws[i].addr # vs[k].addr
      BY <1>1, <1>2, <1>3, <1>4 DEF Registered, Distinct
    <2>2. \A j \in E : j # k => \E i \in D : ws[i].addr = vs[j].addr
      BY <1>2, <1>3, <1>5
    <2> QED
      BY <1>2, <1>3, <2>1, <2>2 DEF Registered
  <1>18. \A i \in D : \E j \in DOMAIN vs \ {k} : ws[i] = vs[j]
    BY <1>2, <1>3, <1>4
  <1> QED
    BY <1>3, <1>7, <1>16, <1>17, <1>18 DEF ws, ValidatorList


\* Booking moves among registered validators and the delegation account.
Booked(vs, moves) == AddAmounts(vs, [a \in Registered(vs) |-> Net(moves, a)])

LEMMA BookedEntries ==
    ASSUME NEW vs \in ValidatorList, NEW moves, MovesOK(moves)
    PROVE  LET ws == Booked(vs, moves) IN
           /\ ws \in ValidatorList /\ DOMAIN ws = DOMAIN vs /\ Registered(ws) = Registered(vs)
           /\ \A i \in DOMAIN vs : ws[i] = [vs[i] EXCEPT !.amt = @ + Net(moves, vs[i].addr)]
           /\ \A a \in Registered(vs) : Val(ws, a).amt = Val(vs, a).amt + Net(moves, a)
  <1> DEFINE ws == Booked(vs, moves)
             change == [a \in Registered(vs) |-> Net(moves, a)]
  <1>1. \A i \in DOMAIN vs : vs[i] \in Entry /\ vs[i].addr \in Registered(vs)
    <2>1. vs \in Seq(Entry)
      BY DEF ValidatorList
    <2>2. \A i \in DOMAIN vs : vs[i] \in Entry
      BY <2>1
    <2> QED
      BY <2>2, IndexOf
  <1>2. ws = [i \in DOMAIN vs |-> [vs[i] EXCEPT !.amt = @ + change[vs[i].addr]]]
    BY DEF Booked, AddAmounts
  <1>3. \A i \in DOMAIN vs : ws[i] = [vs[i] EXCEPT !.amt = @ + Net(moves, vs[i].addr)]
    BY <1>1, <1>2
  <1>4. ws = [i \in DOMAIN vs |-> ws[i]]
    BY <1>2
  <1> HIDE DEF ws, change
  <1>5. \A i \in DOMAIN vs : ws[i] \in Entry /\ ws[i].addr = vs[i].addr
    <2> TAKE i \in DOMAIN vs
    <2> DEFINE v == vs[i]
               n == Net(moves, vs[i].addr)
    <2>1. n \in Int /\ v \in Entry /\ ws[i] = [v EXCEPT !.amt = @ + n]
      BY <1>1, <1>3, NetInt
    <2> HIDE DEF v, n
    <2>2. ws[i] \in Entry /\ ws[i].addr = v.addr
      BY <2>1 DEF Entry
    <2> QED
      BY <2>2 DEF v
  <1>6. ws \in ValidatorList /\ DOMAIN ws = DOMAIN vs
    BY <1>4, <1>5, SameShape
  <1>7. Registered(ws) = Registered(vs)
    BY <1>5, <1>6 DEF Registered
  <1>8. ASSUME NEW a \in Registered(vs)
        PROVE  Val(ws, a).amt = Val(vs, a).amt + Net(moves, a)
    <2> DEFINE i == Index(vs, a)
    <2>1. i \in DOMAIN vs /\ vs[i].addr = a /\ Val(vs, a) = vs[i]
      BY IndexOf
    <2>2. Index(ws, ws[i].addr) = i
      BY <1>6, <2>1, IndexOf
    <2>3. Val(ws, a) = ws[i]
      BY <1>5, <2>1, <2>2 DEF Val
    <2> QED
      BY <1>1, <1>3, <2>1, <2>3 DEF Entry
  <1> QED
    BY <1>3, <1>6, <1>7, <1>8 DEF ws

LEMMA BookedTotal ==
    ASSUME NEW vs \in ValidatorList, NEW moves, MovesOK(moves),
           \A i \in DOMAIN moves : /\ moves[i].src \in Registered(vs) \cup {Account}
                                   /\ moves[i].dst \in Registered(vs) \cup {Account}
    PROVE  Total(Booked(vs, moves)) = Total(vs) - Net(moves, Account)
  <1> DEFINE ws == Booked(vs, moves)
             R == Registered(vs)
             S == R \cup {Account}
             D == DOMAIN vs
             net == [x \in S |-> Net(moves, x)]
             h == [i \in D |-> vs[i].addr]
             c == [i \in D |-> Net(moves, vs[i].addr)]
  <1>1. vs \in Seq(Entry) /\ Distinct(vs)
    BY DEF ValidatorList
  <1>2. IsFiniteSet(R) /\ Account \notin R /\ IsFiniteSet(D) /\ Total(vs) \in Int
    BY <1>1, ListFacts
  <1>3. IsFiniteSet(S)
    BY <1>2, FS_AddElement
  <1>4. SumFunctionOnSet(net, S) = 0
    BY <1>3, MovesCancel
  <1>5. \A x \in S : net[x] = Net(moves, x) /\ net[x] \in Int
    BY NetInt
  <1>6. /\ ws \in ValidatorList /\ DOMAIN ws = D
        /\ \A i \in D : ws[i] = [vs[i] EXCEPT !.amt = @ + Net(moves, vs[i].addr)]
    BY BookedEntries
  <1>7. \A i \in D : h[i] \in R /\ c[i] = net[h[i]] /\ c[i] \in Int
    BY NetInt, IndexOf
  <1>8. {h[i] : i \in D} = R
    BY DEF Registered
  <1>9. \A i, j \in D : h[i] = h[j] => i = j
    BY <1>1 DEF Distinct
  <1> HIDE DEF net, h, c, ws, R, D
  <1>10. SumFunctionOnSet(net, S) = net[Account] + SumFunctionOnSet(net, R)
    BY <1>2, <1>5, SumAdd
  <1>11. SumFunctionOnSet(c, D) = SumFunctionOnSet(net, R)
    <2>1. SumFunctionOnSet(c, D) = SumFunctionOnSet(net, {h[i] : i \in D})
      BY <1>2, <1>7, <1>9, SumReindex
    <2> QED
      BY <1>8, <2>1
  <1>12. \A i \in D : /\ Amts(vs)[i] \in Int /\ c[i] \in Int
                      /\ Amts(ws)[i] = Amts(vs)[i] + c[i]
    <2> TAKE i \in D
    <2>1. vs[i] \in Entry /\ Amts(vs)[i] = vs[i].amt /\ Amts(vs)[i] \in Int
      BY <1>1, ListFacts DEF D
    <2>2. ws[i].amt = vs[i].amt + c[i]
      BY <1>6, <2>1 DEF Entry, c
    <2>3. Amts(ws)[i] = ws[i].amt
      BY <1>6 DEF Amts
    <2> QED
      BY <1>7, <2>1, <2>2, <2>3
  <1> DEFINE f == Amts(vs)
             g == Amts(ws)
  <1>13. SumFunctionOnSet(g, D) = SumFunctionOnSet(f, D) + SumFunctionOnSet(c, D)
    <2> HIDE DEF f, g
    <2> QED
      BY <1>2, <1>12, SumPlus DEF f, g
  <1>14. Total(vs) = SumFunctionOnSet(f, D) /\ Total(ws) = SumFunctionOnSet(g, D)
    BY <1>6 DEF Total, D
  <1>15. net[Account] = Net(moves, Account) /\ net[Account] \in Int
    BY <1>5
  <1>16. SumFunctionOnSet(net, R) \in Int
    BY <1>2, <1>5, SumInt
  <1>17. SumFunctionOnSet(net, R) = -Net(moves, Account)
    BY <1>4, <1>10, <1>15, <1>16
  <1>18. Total(ws) = Total(vs) - Net(moves, Account)
    BY <1>2, <1>11, <1>13, <1>14, <1>15, <1>17
  <1> QED
    BY <1>18 DEF ws

\* Replacing the entry of one validator.
Replaced(vs, v) == [i \in DOMAIN vs |-> IF vs[i].addr = v.addr THEN v ELSE vs[i]]

LEMMA ReplacedTotal ==
    ASSUME NEW vs \in ValidatorList, NEW v \in Entry, v.addr \in Registered(vs)
    PROVE  /\ Replaced(vs, v) \in ValidatorList
           /\ DOMAIN Replaced(vs, v) = DOMAIN vs
           /\ Registered(Replaced(vs, v)) = Registered(vs)
           /\ Total(Replaced(vs, v)) = Total(vs) + v.amt - Val(vs, v.addr).amt
           /\ Val(Replaced(vs, v), v.addr) = v
           /\ \A a \in Registered(vs) \ {v.addr} : Val(Replaced(vs, v), a) = Val(vs, a)
  <1> DEFINE ws == Replaced(vs, v)
             k == Index(vs, v.addr)
             D == DOMAIN vs
             f == Amts(vs)
             g == Amts(ws)
  <1>1. vs \in Seq(Entry) /\ Distinct(vs)
    BY DEF ValidatorList
  <1>2. k \in D /\ vs[k].addr = v.addr /\ Val(vs, v.addr) = vs[k] /\ vs[k] \in Entry
    BY IndexOf
  <1>3. \A i \in D : vs[i] \in Entry /\ ws[i] \in Entry /\ ws[i].addr = vs[i].addr
    BY <1>1, ListFacts DEF Replaced
  <1>4. ws = [i \in D |-> ws[i]]
    BY DEF Replaced
  <1>5. ws[k] = v /\ \A i \in D \ {k} : ws[i] = vs[i]
    BY <1>1, <1>2 DEF Replaced, Distinct
  <1> HIDE DEF ws
  <1>6. ws \in ValidatorList /\ DOMAIN ws = D
    BY <1>3, <1>4, SameShape
  <1>7. Registered(ws) = Registered(vs)
    BY <1>3, <1>6 DEF Registered
  <1>8. \A i \in D : f[i] \in Int /\ g[i] \in Int
    BY <1>3, <1>6 DEF Amts, Entry
  <1>9. g[k] = v.amt /\ f[k] = vs[k].amt /\ \A i \in D \ {k} : g[i] = f[i]
    BY <1>2, <1>5, <1>6 DEF Amts
  <1>10. IsFiniteSet(D)
    BY <1>1, ListFacts
  <1> HIDE DEF f, g, k, D
  <1>11. SumFunctionOnSet(g, D) = SumFunctionOnSet(f, D) + g[k] - f[k]
    BY <1>2, <1>8, <1>9, <1>10, SumChange
  <1>12. Total(ws) = Total(vs) + v.amt - Val(vs, v.addr).amt
    BY <1>2, <1>6, <1>9, <1>11 DEF Total, f, g, D
  <1>13. Val(ws, v.addr) = v
    <2>1. Index(ws, ws[k].addr) = k
      BY <1>2, <1>6, IndexOf
    <2> QED
      BY <1>5, <2>1 DEF Val
  <1>14. ASSUME NEW a \in Registered(vs) \ {v.addr} PROVE Val(ws, a) = Val(vs, a)
    <2> DEFINE j == Index(vs, a)
    <2>1. j \in D /\ vs[j].addr = a
      BY IndexOf DEF D
    <2>2. j # k
      BY <1>2, <2>1
    <2>3. ws[j].addr = a /\ ws[j] = vs[j]
      BY <1>3, <1>5, <2>1, <2>2
    <2>4. Index(ws, ws[j].addr) = j
      BY <1>6, <2>1, IndexOf
    <2> QED
      BY <2>3, <2>4 DEF Val
  <1> QED
    BY <1>6, <1>7, <1>12, <1>13, <1>14 DEF ws, D


-----------------------------------------------------------------------------
(* Splitting an amount *)

WeightFcn(vs) == [i \in DOMAIN vs |-> vs[i].weight]

LEMMA WeightNat ==
    ASSUME NEW vs \in ValidatorList
    PROVE  /\ WeightSum(vs) = SumFunctionOnSet(WeightFcn(vs), DOMAIN vs)
           /\ \A i \in DOMAIN vs : WeightFcn(vs)[i] = vs[i].weight /\ WeightFcn(vs)[i] \in Nat
           /\ WeightSum(vs) \in Nat /\ GetTotalValidatorWeight(vs) \in Nat
           /\ WeightSum(vs) < Uint64 => GetTotalValidatorWeight(vs) = WeightSum(vs)
  <1>1. vs \in Seq(Entry)
    BY DEF ValidatorList
  <1>2. IsFiniteSet(DOMAIN vs) /\ \A i \in DOMAIN vs : vs[i] \in Entry
    BY <1>1, ListFacts
  <1>3. \A i \in DOMAIN vs : WeightFcn(vs)[i] = vs[i].weight /\ WeightFcn(vs)[i] \in Nat
    BY <1>2 DEF WeightFcn, Entry
  <1>4. DOMAIN WeightFcn(vs) = DOMAIN vs
    BY DEF WeightFcn
  <1>5. WeightSum(vs) = SumFunctionOnSet(WeightFcn(vs), DOMAIN vs)
    BY <1>4 DEF WeightSum, WeightFcn, SumFunction
  <1>6. WeightSum(vs) \in Nat
    BY <1>2, <1>3, <1>5, SumNat
  <1>7. Uint64 \in Nat /\ Uint64 > 0
    BY ValidatorsAssumption
  <1>8. /\ GetTotalValidatorWeight(vs) \in Nat
        /\ WeightSum(vs) < Uint64 => GetTotalValidatorWeight(vs) = WeightSum(vs)
    <2> DEFINE w == WeightSum(vs)
    <2>1. w \in Nat
      BY <1>6
    <2> HIDE DEF w
    <2>2. w % Uint64 \in Nat /\ (w < Uint64 => w % Uint64 = w)
      BY <1>7, <2>1
    <2> QED
      BY <2>2 DEF w, GetTotalValidatorWeight
  <1> QED
    BY <1>3, <1>5, <1>6, <1>8

\* One validator is the last by weight.
LEMMA LastExists ==
    ASSUME NEW vs \in ValidatorList, DOMAIN vs # {}
    PROVE  LastByWeight(vs) \in DOMAIN vs
  <1> DEFINE D == DOMAIN vs
             R == {ij \in D \X D : Before(vs, ij[1], ij[2])}
  <1>1. vs \in Seq(Entry)
    BY DEF ValidatorList
  <1>2. IsFiniteSet(D) /\ D = 1..Len(vs) /\ Len(vs) \in Nat /\ \A i \in D : vs[i] \in Entry
    BY <1>1, ListFacts
  <1>3. \A i \in D : vs[i].weight \in Nat /\ i \in Nat
    BY <1>2 DEF Entry
  <1>4. \A i, j \in D : <<i, j>> \in R <=> Before(vs, i, j)
    OBVIOUS
  <1>5. \A i, j \in D : i # j => Before(vs, i, j) \/ Before(vs, j, i)
    BY <1>3 DEF Before
  <1>6. \A i, j, k \in D : Before(vs, i, j) /\ Before(vs, j, k) => Before(vs, i, k)
    BY <1>3 DEF Before
  <1> HIDE DEF R, D
  <1>7. \E i \in D : \A j \in D \ {i} : <<j, i>> \in R
    <2>1. \A i, j \in D : i # j => <<i, j>> \in R \/ <<j, i>> \in R
      BY <1>4, <1>5
    <2>2. \A i, j, k \in D : <<i, j>> \in R /\ <<j, k>> \in R => <<i, k>> \in R
      BY <1>4, <1>6
    <2>3. D # {}
      BY DEF D
    <2>4. IsFiniteSet(D)
      BY <1>2
    <2> QED
      BY ONLY <2>1, <2>2, <2>3, <2>4, LastOfFinite
  <1>8. \E i \in D : \A j \in D \ {i} : Before(vs, j, i)
    BY <1>4, <1>7
  <1> QED
    BY <1>8 DEF LastByWeight, D

\* Whatever the weights, the parts of an amount add up to it: the last
\* validator gets the remainder.
LEMMA TargetsAddUp ==
    ASSUME NEW vs \in ValidatorList, NEW final \in Int, CanSplit(vs, final)
    PROVE  /\ DOMAIN vs # {}
           /\ Share(vs, final) \in [DOMAIN vs -> Int]
           /\ GetTargetValAmtsForHostZone(vs, final) \in [Registered(vs) -> Int]
           /\ SumFunctionOnSet(GetTargetValAmtsForHostZone(vs, final), Registered(vs)) = final
  <1> DEFINE D == DOMAIN vs
             R == Registered(vs)
             W == GetTotalValidatorWeight(vs)
             share == Share(vs, final)
             last == LastByWeight(vs)
             L == D \ {last}
             rest == final - SumFunctionOnSet(share, L)
             t == GetTargetValAmtsForHostZone(vs, final)
  <1>1. vs \in Seq(Entry) /\ Distinct(vs)
    BY DEF ValidatorList
  <1>2. IsFiniteSet(D) /\ \A i \in D : vs[i] \in Entry
    BY <1>1, ListFacts
  <1>3. W \in Nat /\ W # 0
    BY WeightNat DEF CanSplit
  <1>4. D # {}
    <2> SUFFICES ASSUME D = {} PROVE FALSE
      OBVIOUS
    <2>1. WeightSum(vs) = 0
      BY WeightNat, SumEmpty
    <2>2. WeightSum(vs) < Uint64
      BY <2>1, ValidatorsAssumption
    <2> QED
      BY <1>3, <2>1, <2>2, WeightNat
  <1>5. last \in D
    BY <1>4, LastExists
  <1>6. \A i \in D : share[i] \in Int
    <2> TAKE i \in D
    <2>1. vs[i].weight \in Nat
      BY <1>2 DEF Entry
    <2> DEFINE x == vs[i].weight * final
    <2>2. x \in Int
      BY <2>1
    <2>3. share[i] = x \div W
      BY DEF Share
    <2> HIDE DEF x, W, share
    <2> QED
      BY <1>3, <2>2, <2>3
  <1>7. IsFiniteSet(L) /\ SumFunctionOnSet(share, L) \in Int
    <2>1. IsFiniteSet(L) /\ \A i \in L : share[i] \in Int
      BY <1>2, <1>6, FS_Subset
    <2> HIDE DEF L, share
    <2> QED
      BY <2>1, SumInt
  <1>8. rest \in Int
    BY <1>7
  <1>9. t = [a \in R |-> IF Index(vs, a) = last THEN rest ELSE share[Index(vs, a)]]
    BY DEF GetTargetValAmtsForHostZone
  <1>10. \A a \in R : Index(vs, a) \in D
    BY IndexOf
  <1>11. t \in [R -> Int]
    <2> HIDE DEF t, rest, share, last, D, R
    <2> QED
      BY <1>6, <1>8, <1>9, <1>10
  <1> DEFINE f == [i \in D |-> IF i = last THEN rest ELSE share[i]]
             h == [i \in D |-> vs[i].addr]
  <1>12. \A i \in D : h[i] \in R /\ f[i] = t[h[i]]
    BY <1>9, IndexOf
  <1>13. {h[i] : i \in D} = R
    BY DEF Registered
  <1>14. \A i, j \in D : h[i] = h[j] => i = j
    BY <1>1 DEF Distinct
  <1>15. \A i \in D : f[i] \in Int
    BY <1>6, <1>8
  <1>16. f[last] = rest /\ \A i \in L : f[i] = share[i]
    BY <1>5
  <1>17. share \in [D -> Int]
    <2>1. share = [i \in D |-> share[i]]
      BY DEF Share
    <2> QED
      BY <1>6, <2>1
  <1> HIDE DEF f, h, t, last, D, R, share
  <1>18. SumFunctionOnSet(f, D) = SumFunctionOnSet(t, {h[i] : i \in D})
    BY <1>2, <1>12, <1>14, <1>15, SumReindex
  <1>19. SumFunctionOnSet(f, D) = f[last] + SumFunctionOnSet(f, L)
    BY <1>2, <1>5, <1>15, SumRemove
  <1>20. SumFunctionOnSet(f, L) = SumFunctionOnSet(share, L)
    <2> HIDE DEF L
    <2> QED
      BY <1>7, <1>16, SumSame
  <1>21. SumFunctionOnSet(t, R) = final
    <2> DEFINE s == SumFunctionOnSet(share, L)
    <2>1. SumFunctionOnSet(t, R) = (final - s) + s
      BY <1>13, <1>16, <1>18, <1>19, <1>20
    <2>2. s \in Int
      BY <1>7
    <2> HIDE DEF s
    <2> QED
      BY <2>1, <2>2
  <1> QED
    BY <1>4, <1>11, <1>17, <1>21 DEF D, R, t, share


LEMMA UnbondingSplitInt ==
    ASSUME NEW vs \in ValidatorList, NEW total \in Int, CanSplit(vs, total)
    PROVE  UnbondingSplit(vs, total) \in [Registered(vs) -> Int]
  <1> DEFINE D == DOMAIN vs
             R == Registered(vs)
             target == GetTargetValAmtsForHostZone(vs, total)
             capped == CappedUnbondings(vs, target)
             room == [i \in D |-> vs[i].amt - capped[vs[i].addr]]
             overflow == total - SumFunction(capped)
             before(i) == SumFunctionOnSet(room, {j \in D : Before(vs, j, i)})
             rest(i) == overflow - before(i)
             taken(i) == IF rest(i) <= 0 THEN 0
                         ELSE IF rest(i) > room[i] THEN room[i] ELSE rest(i)
  <1>1. vs \in Seq(Entry)
    BY DEF ValidatorList
  <1>2. IsFiniteSet(D) /\ IsFiniteSet(R) /\ \A i \in D : vs[i] \in Entry
    BY <1>1, ListFacts
  <1>3. target \in [R -> Int]
    BY TargetsAddUp
  <1>4. \A a \in R : Val(vs, a).amt \in Int
    BY IndexOf DEF Entry
  <1>5. DOMAIN capped = R /\ \A a \in R : capped[a] \in Int
    BY <1>3, <1>4 DEF CappedUnbondings
  <1>6. \A i \in D : room[i] \in Int
    <2> TAKE i \in D
    <2>1. vs[i].amt \in Int /\ vs[i].addr \in R
      BY <1>2, IndexOf DEF Entry
    <2> QED
      BY <1>5, <2>1
  <1>7. overflow \in Int
    <2> HIDE DEF capped, R
    <2>1. SumFunctionOnSet(capped, R) \in Int
      BY <1>2, <1>5, SumInt
    <2> QED
      BY <1>5, <2>1 DEF SumFunction
  <1>8. \A i : before(i) \in Int
    <2> TAKE i
    <2> DEFINE B == {j \in D : Before(vs, j, i)}
    <2>1. IsFiniteSet(B) /\ \A j \in B : room[j] \in Int
      BY <1>2, <1>6, FS_Subset
    <2> HIDE DEF B, room
    <2>2. SumFunctionOnSet(room, B) \in Int
      BY <2>1, SumInt
    <2> QED
      BY <2>2 DEF B
  <1>9. UnbondingSplit(vs, total) = [a \in R |-> capped[a] + taken(Index(vs, a))]
    BY DEF UnbondingSplit
  <1> HIDE DEF target, capped, room, overflow, before
  <1>10. \A i \in D : taken(i) \in Int
    <2> TAKE i \in D
    <2> DEFINE r == rest(i)
    <2>1. r \in Int /\ room[i] \in Int
      BY <1>6, <1>7, <1>8
    <2>2. taken(i) = IF r <= 0 THEN 0 ELSE IF r > room[i] THEN room[i] ELSE r
      OBVIOUS
    <2> HIDE DEF r, taken
    <2> QED
      BY <2>1, <2>2
  <1>11. \A a \in R : capped[a] + taken(Index(vs, a)) \in Int
    <2> HIDE DEF taken
    <2> QED
      BY <1>5, <1>10, IndexOf
  <1> HIDE DEF taken
  <1> QED
    BY <1>9, <1>11

-----------------------------------------------------------------------------
(* Packets *)

Places == Addresses \cup {Account}
MoveSet == [src : Places, dst : Places, amt : Nat]
MoveFcn == UNION {[D -> MoveSet] : D \in {E \in SUBSET Nat : IsFiniteSet(E)}}
Pkt == [kind : {"delegate", "undelegate", "rebalance"}, moves : MoveFcn,
        status : {"sent", "ok", "failed"}]

\* Who gives and who takes, and how much in all.
Shaped(p) ==
    /\ \A i \in DOMAIN p.moves :
         /\ p.kind = "delegate" => p.moves[i].src = Account /\ p.moves[i].dst \in Addresses
         /\ p.kind = "undelegate" => /\ p.moves[i].src \in Addresses /\ p.moves[i].src = i
                                     /\ p.moves[i].dst = Account
         /\ p.kind = "rebalance" => p.moves[i].src \in Addresses /\ p.moves[i].dst \in Addresses
    /\ p.kind = "delegate" => -Net(p.moves, Account) \in DepositAmounts
    /\ p.kind = "undelegate" => Net(p.moves, Account) \in UnbondAmounts

Packets(s) == s \in Seq(Pkt) /\ \A i \in DOMAIN s : Shaped(s[i])

\* Packets the host has not received.
NewPackets(s) == Packets(s) /\ \A i \in DOMAIN s : s[i].status = "sent"

LEMMA MoveFcnFacts ==
    ASSUME NEW moves \in MoveFcn
    PROVE  /\ MovesOK(moves) /\ DOMAIN moves \subseteq Nat
           /\ \A i \in DOMAIN moves : moves[i] \in MoveSet
  <1>1. PICK D \in SUBSET Nat : IsFiniteSet(D) /\ moves \in [D -> MoveSet]
    BY DEF MoveFcn
  <1>2. \A i \in DOMAIN moves : moves[i] \in MoveSet
    BY <1>1
  <1> QED
    BY <1>1, <1>2 DEF MovesOK, MoveSet

LEMMA MoveFcnIntro ==
    ASSUME NEW D \in SUBSET Nat, IsFiniteSet(D), NEW moves \in [D -> MoveSet]
    PROVE  moves \in MoveFcn
    BY DEF MoveFcn

\* The packet that delegates the parts of an amount.
LEMMA DelegationPacket ==
    ASSUME NEW R \in SUBSET Addresses, NEW split \in [R -> Nat], NEW d \in DepositAmounts,
           SumFunctionOnSet(split, R) = d
    PROVE  LET p == Packet("delegate", DelegationMoves(split)) IN
           p \in Pkt /\ Shaped(p) /\ p.status = "sent"
  <1> DEFINE moves == DelegationMoves(split)
             p == Packet("delegate", moves)
             f == Delta(moves, Account)
  <1>1. IsFiniteSet(R) /\ R \in SUBSET Nat /\ Account \notin R
    BY ValidatorsAssumption, FS_Subset DEF Account
  <1>2. DOMAIN moves = R /\ \A a \in R : moves[a] = [src |-> Account, dst |-> a, amt |-> split[a]]
    BY DEF DelegationMoves, Move
  <1>3. moves \in [R -> MoveSet]
    <2>1. \A a \in R : moves[a] \in MoveSet
      BY <1>2 DEF MoveSet, Places
    <2>2. moves = [a \in R |-> moves[a]]
      BY DEF DelegationMoves
    <2> HIDE DEF moves
    <2> QED
      BY <2>1, <2>2
  <1>4. moves \in MoveFcn
    BY <1>1, <1>3, MoveFcnIntro
  <1>5. p.kind = "delegate" /\ p.moves = moves /\ p.status = "sent" /\ p \in Pkt
    BY <1>4 DEF Packet, Pkt
  <1> DEFINE c == -1
  <1>6. c \in Int /\ \A a \in R : split[a] \in Int /\ f[a] = c * split[a]
    BY <1>1, <1>2 DEF Delta
  <1>7. SumFunctionOnSet(f, R) = c * SumFunctionOnSet(split, R)
    <2> HIDE DEF f, c
    <2> QED
      BY <1>1, <1>6, SumTimes
  <1>8. Net(moves, Account) = SumFunctionOnSet(f, R)
    BY <1>2, NetIsSum DEF NetOf
  <1>9. d \in Nat
    BY ValidatorsAssumption
  <1>10. -Net(moves, Account) = d
    BY <1>7, <1>8, <1>9
  <1>11. \A a \in DOMAIN moves : moves[a].src = Account /\ moves[a].dst \in Addresses
    BY <1>2
  <1> HIDE DEF moves, p
  <1> QED
    BY <1>5, <1>10, <1>11 DEF Shaped, p, moves

LEMMA UndelegationPacket ==
    ASSUME NEW R \in SUBSET Addresses, NEW split \in [R -> Int], NEW u \in UnbondAmounts,
           SumFunctionOnSet(split, R) = u, \A a \in R : split[a] # 0 => split[a] \in Nat
    PROVE  LET p == Packet("undelegate", UndelegationMoves(split)) IN
           p \in Pkt /\ Shaped(p) /\ p.status = "sent"
  <1> DEFINE moves == UndelegationMoves(split)
             p == Packet("undelegate", moves)
             f == Delta(moves, Account)
             S == {b \in R : split[b] # 0}
  <1>1. IsFiniteSet(R) /\ IsFiniteSet(S) /\ S \in SUBSET Nat /\ Account \notin S
    BY ValidatorsAssumption, FS_Subset DEF Account
  <1>2. /\ DOMAIN moves = S
        /\ \A a \in S : moves[a] = [src |-> a, dst |-> Account, amt |-> split[a]]
    BY DEF UndelegationMoves, Move
  <1>3. moves \in [S -> MoveSet]
    <2>1. \A a \in S : moves[a] \in MoveSet
      BY <1>2 DEF MoveSet, Places
    <2>2. moves = [a \in S |-> moves[a]]
      BY DEF UndelegationMoves
    <2> HIDE DEF moves
    <2> QED
      BY <2>1, <2>2
  <1>4. moves \in MoveFcn
    BY <1>1, <1>3, MoveFcnIntro
  <1>5. p.kind = "undelegate" /\ p.moves = moves /\ p.status = "sent" /\ p \in Pkt
    BY <1>4 DEF Packet, Pkt
  <1>6. \A a \in S : f[a] = split[a] /\ split[a] \in Int
    BY <1>1, <1>2 DEF Delta
  <1>7. SumFunctionOnSet(f, S) = SumFunctionOnSet(split, R)
    <2>1. \A a \in R \ S : split[a] = 0
      OBVIOUS
    <2>2. S \in SUBSET R
      OBVIOUS
    <2>3. IsFiniteSet(R)
      BY <1>1
    <2> HIDE DEF f, S
    <2> QED
      BY ONLY <1>6, <2>1, <2>2, <2>3, SumRestrict
  <1>8. Net(moves, Account) = SumFunctionOnSet(f, S)
    BY <1>2, NetIsSum DEF NetOf
  <1>9. Net(moves, Account) = u
    BY <1>7, <1>8
  <1>10. \A a \in DOMAIN moves : moves[a].src \in Addresses /\ moves[a].src = a /\ moves[a].dst = Account
    BY <1>2
  <1> HIDE DEF moves, p
  <1> QED
    BY <1>5, <1>9, <1>10 DEF Shaped, p, moves


LEMMA ConcatEntries ==
    ASSUME NEW A, NEW s \in Seq(A), NEW t \in Seq(A)
    PROVE  /\ s \o t \in Seq(A) /\ Len(s \o t) = Len(s) + Len(t)
           /\ \A i \in DOMAIN s : i \in DOMAIN (s \o t) /\ (s \o t)[i] = s[i]
           /\ \A i \in DOMAIN t : Len(s) + i \in DOMAIN (s \o t) /\ (s \o t)[Len(s) + i] = t[i]
           /\ \A i \in DOMAIN (s \o t) : \/ i \in DOMAIN s
                                         \/ \E j \in DOMAIN t : i = Len(s) + j
  <1>1. s \o t \in Seq(A) /\ Len(s \o t) = Len(s) + Len(t)
    <2>1. s \o t \in Seq(A)
      OBVIOUS
    <2>2. Len(s \o t) = Len(s) + Len(t)
      OBVIOUS
    <2> QED
      BY <2>1, <2>2
  <1>2. \A i \in 1..Len(s) + Len(t) : (s \o t)[i] = IF i <= Len(s) THEN s[i] ELSE t[i - Len(s)]
    OBVIOUS
  <1>3. /\ DOMAIN s = 1..Len(s) /\ DOMAIN t = 1..Len(t) /\ DOMAIN (s \o t) = 1..Len(s \o t)
        /\ Len(s) \in Nat /\ Len(t) \in Nat
    BY <1>1
  <1>4. \A i \in DOMAIN s : i \in DOMAIN (s \o t) /\ (s \o t)[i] = s[i]
    BY <1>1, <1>2, <1>3
  <1>5. \A i \in DOMAIN t : Len(s) + i \in DOMAIN (s \o t) /\ (s \o t)[Len(s) + i] = t[i]
    BY <1>1, <1>2, <1>3
  <1>6. \A i \in DOMAIN (s \o t) : i \in DOMAIN s \/ \E j \in DOMAIN t : i = Len(s) + j
    <2> TAKE i \in DOMAIN (s \o t)
    <2>1. CASE i <= Len(s)
      BY <1>1, <1>3, <2>1
    <2>2. CASE ~(i <= Len(s))
      <3>1. i - Len(s) \in DOMAIN t /\ i = Len(s) + (i - Len(s))
        BY <1>1, <1>3, <2>2
      <3> QED
        BY <3>1
    <2> QED
      BY <2>1, <2>2
  <1> QED
    BY <1>1, <1>4, <1>5, <1>6

LEMMA PacketsConcat ==
    ASSUME NEW s, NEW t, Packets(s), Packets(t)
    PROVE  Packets(s \o t) /\ (NewPackets(s) /\ NewPackets(t) => NewPackets(s \o t))
  <1>1. s \in Seq(Pkt) /\ t \in Seq(Pkt)
    BY DEF Packets
  <1>2. /\ s \o t \in Seq(Pkt)
        /\ \A i \in DOMAIN s : (s \o t)[i] = s[i]
        /\ \A i \in DOMAIN t : (s \o t)[Len(s) + i] = t[i]
        /\ \A i \in DOMAIN (s \o t) : i \in DOMAIN s \/ \E j \in DOMAIN t : i = Len(s) + j
    BY <1>1, ConcatEntries
  <1>3. ASSUME NEW i \in DOMAIN (s \o t)
        PROVE  /\ Shaped((s \o t)[i])
               /\ NewPackets(s) /\ NewPackets(t) => (s \o t)[i].status = "sent"
    <2>1. (\E j \in DOMAIN s : (s \o t)[i] = s[j]) \/ \E j \in DOMAIN t : (s \o t)[i] = t[j]
      BY <1>2
    <2> QED
      BY <2>1 DEF Packets, NewPackets
  <1> QED
    BY <1>2, <1>3 DEF Packets, NewPackets

LEMMA OnePacket ==
    ASSUME NEW p
    PROVE  /\ <<p>> \in Seq({p}) /\ DOMAIN <<p>> = {1} /\ <<p>>[1] = p
           /\ p \in Pkt /\ Shaped(p) => Packets(<<p>>) /\ (p.status = "sent" => NewPackets(<<p>>))
           /\ NewPackets(<<>>)
  <1>1. <<p>> \in Seq({p}) /\ DOMAIN <<p>> = {1} /\ <<p>>[1] = p
    OBVIOUS
  <1>2. p \in Pkt => <<p>> \in Seq(Pkt)
    OBVIOUS
  <1>3. <<>> \in Seq(Pkt) /\ DOMAIN <<>> = {}
    OBVIOUS
  <1> QED
    BY <1>1, <1>2, <1>3 DEF Packets, NewPackets

\* Without a negative coin, what is sent is well formed.
LEMMA DelegationsOK ==
    ASSUME vals \in ValidatorList, NEW d \in DepositAmounts \cup {0}
    PROVE  /\ \E A : Delegations(d) \in Seq(A)
           /\ ~Panics(Delegations(d)) => NewPackets(Delegations(d))
  <1>1. CASE d = 0 \/ ~CanSplit(vals, d)
    <2>1. Delegations(d) = <<>>
      BY <1>1 DEF Delegations
    <2>2. <<>> \in Seq({})
      OBVIOUS
    <2> QED
      BY <2>1, <2>2, OnePacket
  <1>2. CASE d # 0 /\ CanSplit(vals, d)
    <2> DEFINE R == Registered(vals)
               split == GetTargetValAmtsForHostZone(vals, d)
               moves == DelegationMoves(split)
               p == Packet("delegate", moves)
    <2>1. Delegations(d) = <<p>>
      BY <1>2 DEF Delegations
    <2>2. d \in Int /\ d \in DepositAmounts
      BY <1>2, ValidatorsAssumption
    <2>3. split \in [R -> Int] /\ SumFunctionOnSet(split, R) = d
      BY <1>2, <2>2, TargetsAddUp
    <2>4. R \in SUBSET Addresses
      BY ListFacts DEF ValidatorList
    <2>5. p.moves = moves /\ DOMAIN moves = R /\ \A a \in R : moves[a].amt = split[a]
      <3>1. DOMAIN split = R
        BY <2>3
      <3> HIDE DEF split, R
      <3> QED
        BY <3>1 DEF Packet, DelegationMoves, Move
    <2> HIDE DEF split, R, moves, p
    <2>6. ASSUME ~Panics(<<p>>) PROVE NewPackets(<<p>>)
      <3>1. \A a \in R : ~(split[a] < 0)
        <4>1. \A j \in DOMAIN p.moves : ~(p.moves[j].amt < 0)
          BY <2>6, OnePacket DEF Panics
        <4> QED
          BY <2>5, <4>1
      <3>2. split \in [R -> Nat]
        BY <2>3, <3>1
      <3>3. p \in Pkt /\ Shaped(p) /\ p.status = "sent"
        BY <2>2, <2>3, <2>4, <3>2, DelegationPacket DEF p, moves
      <3> QED
        BY <3>3, OnePacket
    <2>7. Delegations(d) \in Seq({p})
      BY <2>1, OnePacket
    <2>8. \E A : Delegations(d) \in Seq(A)
      BY <2>7
    <2> QED
      BY <2>1, <2>6, <2>8
  <1> QED
    BY <1>1, <1>2

LEMMA UndelegationsOK ==
    ASSUME vals \in ValidatorList, NEW u \in UnbondAmounts \cup {0}
    PROVE  /\ \E A : Undelegations(u) \in Seq(A)
           /\ ~Panics(Undelegations(u)) => NewPackets(Undelegations(u))
  <1> DEFINE R == Registered(vals)
             split == UnbondingSplit(vals, u)
             moves == UndelegationMoves(split)
             p == Packet("undelegate", moves)
  <1>1. CASE Undelegations(u) = <<>>
    <2>1. <<>> \in Seq({})
      OBVIOUS
    <2> QED
      BY <1>1, <2>1, OnePacket
  <1>2. CASE u # 0 /\ CanSplit(vals, u) /\ SumFunction(split) = u /\ Undelegations(u) = <<p>>
    <2>1. u \in Int /\ u \in UnbondAmounts
      BY <1>2, ValidatorsAssumption
    <2>2. split \in [R -> Int]
      BY <1>2, <2>1, UnbondingSplitInt
    <2>3. R \in SUBSET Addresses
      BY ListFacts DEF ValidatorList
    <2>4. /\ p.moves = moves /\ DOMAIN moves = {b \in R : split[b] # 0}
          /\ \A a \in DOMAIN moves : moves[a].amt = split[a]
      <3>1. DOMAIN split = R
        BY <2>2
      <3> HIDE DEF split, R
      <3> QED
        BY <3>1 DEF Packet, UndelegationMoves, Move
    <2>5. SumFunctionOnSet(split, R) = u
      <3>1. DOMAIN split = R
        BY <2>2
      <3> QED
        BY <1>2, <3>1 DEF SumFunction
    <2> HIDE DEF split, R, moves, p
    <2>6. ASSUME ~Panics(<<p>>) PROVE NewPackets(<<p>>)
      <3>1. \A a \in R : split[a] # 0 => ~(split[a] < 0)
        <4>1. \A j \in DOMAIN p.moves : ~(p.moves[j].amt < 0)
          BY <2>6, OnePacket DEF Panics
        <4> QED
          BY <2>4, <4>1
      <3>2. \A a \in R : split[a] # 0 => split[a] \in Nat
        BY <2>2, <3>1
      <3>3. p \in Pkt /\ Shaped(p) /\ p.status = "sent"
        BY <2>1, <2>2, <2>3, <2>5, <3>2, UndelegationPacket DEF p, moves
      <3> QED
        BY <3>3, OnePacket
    <2>7. Undelegations(u) \in Seq({p})
      BY <1>2, OnePacket
    <2>8. \E A : Undelegations(u) \in Seq(A)
      BY <2>7
    <2> QED
      BY <1>2, <2>6, <2>8
  <1> QED
    BY <1>1, <1>2 DEF Undelegations

LEMMA NewPacketsOK ==
    ASSUME vals \in ValidatorList, NEW d \in DepositAmounts \cup {0}, NEW u \in UnbondAmounts \cup {0},
           ~Panics(Undelegations(u) \o Delegations(d))
    PROVE  NewPackets(Undelegations(u) \o Delegations(d))
  <1> DEFINE s == Undelegations(u)
             t == Delegations(d)
  <1>1. PICK A : s \in Seq(A)
    BY UndelegationsOK
  <1>2. PICK B : t \in Seq(B)
    BY DelegationsOK
  <1> HIDE DEF s, t
  <1> DEFINE C == A \cup B
  <1>3. s \in Seq(C) /\ t \in Seq(C)
    <2>1. s \in Seq(C)
      BY <1>1
    <2>2. t \in Seq(C)
      BY <1>2
    <2> QED
      BY <2>1, <2>2
  <1> HIDE DEF C
  <1>4. /\ \A i \in DOMAIN s : i \in DOMAIN (s \o t) /\ (s \o t)[i] = s[i]
        /\ \A i \in DOMAIN t : Len(s) + i \in DOMAIN (s \o t) /\ (s \o t)[Len(s) + i] = t[i]
    BY <1>3, ConcatEntries
  <1>5. ~Panics(s \o t)
    BY DEF s, t
  <1>6. ~Panics(s) /\ ~Panics(t)
    BY <1>4, <1>5 DEF Panics
  <1>7. NewPackets(s) /\ NewPackets(t)
    BY <1>6, UndelegationsOK, DelegationsOK DEF s, t
  <1> QED
    BY <1>7, PacketsConcat DEF s, t, NewPackets


-----------------------------------------------------------------------------
(* Rebalancing *)

\* The differences can be sorted, and the list is one of validators.
LEMMA SortedValidators ==
    ASSUME NEW R \in SUBSET Addresses, NEW delta \in [R -> Int]
    PROVE  SortedByDelta(delta) \in Seq(R)
  <1> DEFINE less(a, b) == delta[a] < delta[b] \/ (delta[a] = delta[b] /\ a < b)
             T == {ab \in R \X R : less(ab[1], ab[2])}
             n == Cardinality(R)
             good(s) == \A i, j \in DOMAIN s : i < j => less(s[i], s[j])
  <1>1. IsFiniteSet(R) /\ R \in SUBSET Nat
    BY ValidatorsAssumption, FS_Subset
  <1>2. \A a, b \in R : <<a, b>> \in T <=> less(a, b)
    OBVIOUS
  <1>3. \A a \in R : delta[a] \in Int /\ a \in Nat
    BY <1>1
  <1>4. \A a \in R : <<a, a>> \notin T
    BY <1>2, <1>3
  <1>5. \A a, b \in R : a # b => <<a, b>> \in T \/ <<b, a>> \in T
    BY <1>2, <1>3
  <1>6. \A a, b, c \in R : <<a, b>> \in T /\ <<b, c>> \in T => <<a, c>> \in T
    <2>1. \A a, b, c \in R : less(a, b) /\ less(b, c) => less(a, c)
      BY <1>3
    <2> QED
      BY <1>2, <2>1
  <1>7. IsFiniteSet(R)
    BY <1>1
  <1> HIDE DEF T
  <1>8. \E s \in [1..n -> R] : \A i, j \in 1..n : i < j => <<s[i], s[j]>> \in T
    BY ONLY <1>4, <1>5, <1>6, <1>7, SortedList
  <1>9. PICK s \in [1..n -> R] : \A i, j \in 1..n : i < j => <<s[i], s[j]>> \in T
    BY <1>8
  <1>10. n \in Nat
    BY <1>7, FS_CardinalityType
  <1> HIDE DEF n
  <1>11. \A i, j \in 1..n : i # j => s[i] # s[j]
    <2> SUFFICES ASSUME NEW i \in 1..n, NEW j \in 1..n, i # j, s[i] = s[j] PROVE FALSE
      OBVIOUS
    <2>1. i < j \/ j < i
      BY <1>10
    <2>2. s[i] \in R
      BY <1>9
    <2> QED
      BY <1>4, <1>9, <2>1, <2>2
  <1>12. DOMAIN delta = R
    OBVIOUS
  <1>13. s \in SetToSeqs(DOMAIN delta)
    BY <1>11, <1>12 DEF SetToSeqs, n
  <1>14. good(s)
    BY <1>2, <1>9
  <1>15. SortedByDelta(delta) = CHOOSE q \in SetToSeqs(DOMAIN delta) : good(q)
    BY DEF SortedByDelta
  <1> HIDE DEF good
  <1>16. SortedByDelta(delta) \in SetToSeqs(DOMAIN delta)
    BY <1>13, <1>14, <1>15
  <1>17. SortedByDelta(delta) \in [1..n -> R]
    BY <1>12, <1>16 DEF SetToSeqs, n
  <1> QED
    BY <1>10, <1>17

\* The state of the loop: moves of whole tokens between validators.
RMove(R) == [src : R, dst : R, amt : Nat]
LoopState(R, n) == [under : {i \in Int : i <= n}, over : {i \in Int : i >= 1},
                    moves : Seq(RMove(R)), done : BOOLEAN, panic : BOOLEAN]

LEMMA RoundOK ==
    ASSUME NEW R \in SUBSET Addresses, NEW delta \in [R -> Int], NEW list \in Seq(R),
           NEW s \in LoopState(R, Len(list))
    PROVE  Round(s, list, delta) \in LoopState(R, Len(list))
  <1> DEFINE n == Len(list)
             L == LoopState(R, n)
  <1>1. n \in Nat /\ DOMAIN list = 1..n
    OBVIOUS
  <1>2. CASE s.done \/ s.panic
    <2>1. Round(s, list, delta) = s
      BY <1>2, Zenon DEF Round
    <2> QED
      BY <2>1
  <1>3. CASE ~(s.done \/ s.panic) /\ (s.under < 1 \/ s.over > n)
    <2>1. Round(s, list, delta) = [s EXCEPT !.panic = TRUE]
      BY <1>3 DEF Round
    <2> QED
      BY <2>1 DEF LoopState
  <1>4. CASE ~(s.done \/ s.panic) /\ ~(s.under < 1 \/ s.over > n)
    <2> DEFINE a == list[s.under]
               b == list[s.over]
               need == delta[a]
               surplus == -delta[b]
               move(amt) == [s EXCEPT !.moves = Append(@, [src |-> b, dst |-> a, amt |-> amt])]
    <2>1. s.under \in Int /\ s.under <= n /\ s.over \in Int /\ s.over >= 1
      BY DEF LoopState
    <2>2. a \in R /\ b \in R
      BY <1>1, <1>4, <2>1
    <2>3. need \in Int /\ surplus \in Int
      BY <2>2
    <2>4. Round(s, list, delta) =
            IF need < 0 \/ surplus < 0 THEN [s EXCEPT !.done = TRUE]
            ELSE IF need > surplus THEN [move(surplus) EXCEPT !.over = @ + 1]
            ELSE IF need < surplus THEN [move(need) EXCEPT !.under = @ - 1]
            ELSE [move(need) EXCEPT !.over = @ + 1, !.under = @ - 1]
      BY <1>4 DEF Round
    <2> HIDE DEF a, b, need, surplus
    <2>5. ASSUME NEW amt \in Nat PROVE move(amt) \in L /\ move(amt).under = s.under /\ move(amt).over = s.over
      <3> DEFINE m == [src |-> b, dst |-> a, amt |-> amt]
      <3>1. m \in RMove(R)
        BY <2>2 DEF RMove
      <3>2. s.moves \in Seq(RMove(R))
        BY DEF LoopState
      <3> HIDE DEF m
      <3>3. Append(s.moves, m) \in Seq(RMove(R))
        BY <3>1, <3>2
      <3> DEFINE ms == Append(s.moves, m)
      <3>4. move(amt) = [s EXCEPT !.moves = ms]
        BY DEF m
      <3> HIDE DEF ms
      <3> QED
        BY <3>3, <3>4 DEF LoopState, ms
    <2>6. ASSUME NEW t \in L, t.under = s.under, t.over = s.over
          PROVE  /\ [t EXCEPT !.over = @ + 1] \in L /\ [t EXCEPT !.under = @ - 1] \in L
                 /\ [t EXCEPT !.over = @ + 1, !.under = @ - 1] \in L
      <3> DEFINE o == t.over + 1
                 d == t.under - 1
      <3>1. o \in {i \in Int : i >= 1} /\ d \in {i \in Int : i <= n}
        BY <1>1, <2>1, <2>6
      <3>2. t \in LoopState(R, n)
        OBVIOUS
      <3> HIDE DEF o, d, n
      <3>3. /\ [t EXCEPT !.over = o] \in LoopState(R, n)
            /\ [t EXCEPT !.under = d] \in LoopState(R, n)
            /\ [t EXCEPT !.over = o, !.under = d] \in LoopState(R, n)
        BY <3>1, <3>2 DEF LoopState
      <3> QED
        BY <3>3 DEF o, d
    <2>7. [s EXCEPT !.done = TRUE] \in L
      BY DEF LoopState
    <2>8. CASE need < 0 \/ surplus < 0
      <3>1. Round(s, list, delta) = [s EXCEPT !.done = TRUE]
        BY <2>4, <2>8
      <3> QED
        BY <2>7, <3>1
    <2>9. CASE ~(need < 0 \/ surplus < 0)
      <3>1. need \in Nat /\ surplus \in Nat
        BY <2>3, <2>9
      <3>2. /\ [move(surplus) EXCEPT !.over = @ + 1] \in L
            /\ [move(need) EXCEPT !.under = @ - 1] \in L
            /\ [move(need) EXCEPT !.over = @ + 1, !.under = @ - 1] \in L
        <4> DEFINE t1 == move(surplus)
                   t2 == move(need)
        <4>1. t1 \in L /\ t1.under = s.under /\ t1.over = s.over
          BY <2>5, <3>1
        <4>2. t2 \in L /\ t2.under = s.under /\ t2.over = s.over
          BY <2>5, <3>1
        <4> HIDE DEF t1, t2, L
        <4>3. [t1 EXCEPT !.over = @ + 1] \in L
          BY <2>6, <4>1
        <4>4. [t2 EXCEPT !.under = @ - 1] \in L /\ [t2 EXCEPT !.over = @ + 1, !.under = @ - 1] \in L
          BY <2>6, <4>2
        <4> QED
          BY <4>3, <4>4 DEF t1, t2
      <3> HIDE DEF move, L
      <3> QED
        BY <2>4, <2>9, <3>2 DEF L
    <2> QED
      BY <2>8, <2>9
  <1> QED
    BY <1>2, <1>3, <1>4

IsLoop(f, list, delta, num) ==
    f = [n \in 0..num |->
           IF n = 0 THEN [under |-> Len(list), over |-> 1, moves |-> <<>>,
                          done |-> FALSE, panic |-> FALSE]
           ELSE Round(f[n - 1], list, delta)]

LEMMA LoopExists ==
    ASSUME NEW list, NEW delta, NEW num \in Nat
    PROVE  \E f : IsLoop(f, list, delta, num)
  <1> DEFINE N == {n \in Nat : ~\E f : IsLoop(f, list, delta, n)}
  <1> SUFFICES ASSUME N # {} PROVE FALSE
    OBVIOUS
  <1>1. PICK n \in N : \A m \in N : n <= m
    <2>1. N \in SUBSET Nat
      OBVIOUS
    <2> HIDE DEF N
    <2> QED
      BY <2>1, LeastNumber
  <1>2. CASE n = 0
    <2> DEFINE s == [under |-> Len(list), over |-> 1, moves |-> <<>>, done |-> FALSE, panic |-> FALSE]
               f == [i \in 0..0 |-> s]
    <2>1. IsLoop(f, list, delta, 0)
      BY DEF IsLoop
    <2> QED
      BY <1>1, <1>2, <2>1
  <1>3. CASE n # 0
    <2>1. n \in Nat /\ n - 1 \in Nat /\ n - 1 \notin N
      BY <1>1, <1>3
    <2>2. PICK f : IsLoop(f, list, delta, n - 1)
      BY <2>1
    <2> DEFINE g == [i \in 0..n |-> IF i = n THEN Round(f[n - 1], list, delta) ELSE f[i]]
    <2>3. \A i \in 0..n : g[i] = IF i = 0 THEN [under |-> Len(list), over |-> 1, moves |-> <<>>,
                                               done |-> FALSE, panic |-> FALSE]
                                 ELSE Round(g[i - 1], list, delta)
      <3> TAKE i \in 0..n
      <3>1. \A j \in 0..n - 1 : g[j] = f[j]
        BY <2>1
      <3>2. CASE i = n
        <4>1. g[i] = Round(f[n - 1], list, delta) /\ g[n - 1] = f[n - 1]
          BY <2>1, <3>1, <3>2
        <4> HIDE DEF g
        <4> QED
          BY <1>3, <3>2, <4>1
      <3>3. CASE i # n
        <4>1. i \in 0..n - 1 /\ (i # 0 => i - 1 \in 0..n - 1)
          BY <2>1, <3>3
        <4>2. f[i] = IF i = 0 THEN [under |-> Len(list), over |-> 1, moves |-> <<>>,
                                    done |-> FALSE, panic |-> FALSE]
                     ELSE Round(f[i - 1], list, delta)
          BY <2>2, <4>1 DEF IsLoop
        <4> HIDE DEF g
        <4> QED
          BY <3>1, <4>1, <4>2
      <3> QED
        BY <3>2, <3>3
    <2>4. g = [i \in 0..n |-> g[i]]
      OBVIOUS
    <2> HIDE DEF g
    <2>5. IsLoop(g, list, delta, n)
      BY <2>3, <2>4 DEF IsLoop
    <2> QED
      BY <1>1, <2>5
  <1> QED
    BY <1>2, <1>3

LEMMA RoundsOK ==
    ASSUME NEW R \in SUBSET Addresses, NEW delta \in [R -> Int], NEW list \in Seq(R), NEW num \in Nat
    PROVE  Rounds(list, delta, num) \in LoopState(R, Len(list))
  <1> DEFINE f == CHOOSE f : IsLoop(f, list, delta, num)
             L == LoopState(R, Len(list))
             N == {n \in 0..num : f[n] \notin L}
  <1>1. Rounds(list, delta, num) = f[num]
    BY DEF Rounds, IsLoop
  <1>2. IsLoop(f, list, delta, num)
    BY LoopExists
  <1> HIDE DEF f
  <1> SUFFICES ASSUME N # {} PROVE FALSE
    BY <1>1
  <1>3. PICK n \in N : \A m \in N : n <= m
    <2>1. N \in SUBSET Nat
      OBVIOUS
    <2> HIDE DEF N
    <2> QED
      BY <2>1, LeastNumber
  <1>4. CASE n = 0
    <2>1. f[0] = [under |-> Len(list), over |-> 1, moves |-> <<>>, done |-> FALSE, panic |-> FALSE]
      BY <1>2 DEF IsLoop
    <2>2. Len(list) \in Nat /\ <<>> \in Seq(RMove(R))
      OBVIOUS
    <2>3. f[0] \in L
      BY <2>1, <2>2 DEF LoopState
    <2> QED
      BY <1>3, <1>4, <2>3
  <1>5. CASE n # 0
    <2>1. n \in 0..num /\ n - 1 \in 0..num /\ n - 1 \notin N
      BY <1>3, <1>5
    <2>2. f[n - 1] \in L
      BY <2>1
    <2>3. f[n] = Round(f[n - 1], list, delta)
      BY <1>2, <1>5, <2>1 DEF IsLoop
    <2>4. f[n] \in L
      BY <2>2, <2>3, RoundOK
    <2> QED
      BY <1>3, <2>4
  <1> QED
    BY <1>4, <1>5

\* The packet of a rebalancing that did not panic.
LEMMA RedelegationPacket ==
    ASSUME NEW vs \in ValidatorList, CanSplit(vs, GetTotalValidatorDelegations(vs)), NEW num \in Nat
    PROVE  LET p == Packet("rebalance", Redelegations(vs, num).moves) IN
           p \in Pkt /\ Shaped(p) /\ p.status = "sent"
  <1> DEFINE R == Registered(vs)
             delta == GetValidatorDelegationAmtDifferences(vs)
             target == GetTargetValAmtsForHostZone(vs, GetTotalValidatorDelegations(vs))
             moves == Redelegations(vs, num).moves
             p == Packet("rebalance", moves)
  <1>1. R \in SUBSET Addresses /\ GetTotalValidatorDelegations(vs) \in Int
    BY ListFacts, TotalIsSum DEF ValidatorList
  <1>2. target \in [R -> Int]
    BY <1>1, TargetsAddUp
  <1>3. delta \in [R -> Int]
    <2>1. \A a \in R : target[a] - Val(vs, a).amt \in Int
      BY <1>2, IndexOf DEF Entry
    <2>2. delta = [a \in R |-> target[a] - Val(vs, a).amt]
      BY DEF GetValidatorDelegationAmtDifferences
    <2> HIDE DEF target, delta
    <2> QED
      BY <2>1, <2>2
  <1> HIDE DEF target, delta
  <1>4. SortedByDelta(delta) \in Seq(R)
    BY <1>1, <1>3, SortedValidators
  <1>5. Redelegations(vs, num) = Rounds(SortedByDelta(delta), delta, num)
    BY DEF Redelegations, delta
  <1>6. moves \in Seq(RMove(R))
    BY <1>1, <1>3, <1>4, <1>5, RoundsOK DEF LoopState
  <1> HIDE DEF moves, R
  <1>7. /\ DOMAIN moves = 1..Len(moves) /\ Len(moves) \in Nat
        /\ \A i \in DOMAIN moves : moves[i] \in RMove(R)
        /\ moves = [i \in DOMAIN moves |-> moves[i]]
    BY <1>6
  <1>8. DOMAIN moves \in SUBSET Nat /\ IsFiniteSet(DOMAIN moves)
    <2>1. IsFiniteSet(1..Len(moves))
      BY <1>7, FS_Interval
    <2>2. 1..Len(moves) \in SUBSET Nat
      OBVIOUS
    <2> QED
      BY <1>7, <2>1, <2>2
  <1>9. \A i \in DOMAIN moves : /\ moves[i] \in MoveSet
                                /\ moves[i].src \in Addresses /\ moves[i].dst \in Addresses
    BY <1>1, <1>7 DEF RMove, MoveSet, Places
  <1>10. moves \in [DOMAIN moves -> MoveSet]
    BY <1>7, <1>9
  <1>11. moves \in MoveFcn
    BY <1>8, <1>10, MoveFcnIntro
  <1>12. p.kind = "rebalance" /\ p.moves = moves /\ p.status = "sent" /\ p \in Pkt
    BY <1>11 DEF Packet, Pkt
  <1> HIDE DEF p
  <1> QED
    BY <1>9, <1>12 DEF Shaped, p, moves

-----------------------------------------------------------------------------
(* The books: the recorded delegations, the staked balance and the packets *)

HostInv ==
    /\ shares \in [Addresses -> Nat]
    /\ hostRate \in [Addresses -> Nat \ {0}]
    /\ \A r \in responses : r.value \in Nat

Books ==
    /\ vals \in ValidatorList
    /\ stakedBal = Total(vals)
    /\ channel \in [open : BOOLEAN, pkts : Seq(Pkt)]
    /\ Packets(channel.pkts)

LEMMA InitialBooks ==
    ASSUME Init
    PROVE  Books /\ HostInv
  <1> DEFINE IV == InitialValidators
             D == DOMAIN IV
  <1>1. /\ IV \in Seq([addr : Addresses, weight : 0..Uint64 - 1, amt : Nat])
        /\ \A i, j \in D : IV[i].addr = IV[j].addr => i = j
        /\ Uint64 \in Nat
    BY ValidatorsAssumption
  <1> DEFINE V == [addr : Addresses, weight : 0..Uint64 - 1, amt : Nat]
  <1>2. D = 1..Len(IV) /\ Len(IV) \in Nat /\ \A i \in D : IV[i] \in V
    <2> HIDE DEF V
    <2>1. IV \in Seq(V)
      BY <1>1 DEF V
    <2> QED
      BY <2>1
  <1>3. vals = [i \in D |-> NewValidator(IV[i].addr, IV[i].weight, IV[i].amt)]
    BY DEF Init
  <1>4. \A i \in D : vals[i] \in Entry /\ vals[i].addr = IV[i].addr /\ vals[i].amt = IV[i].amt
    BY <1>1, <1>2, <1>3 DEF NewValidator, Entry
  <1>5. vals \in [1..Len(IV) -> Entry]
    <2>1. \A i \in D : vals[i] \in Entry
      BY <1>4
    <2>2. vals = [i \in D |-> vals[i]]
      BY <1>3
    <2> QED
      BY <1>2, <2>1, <2>2
  <1>6. vals \in Seq(Entry) /\ DOMAIN vals = D
    BY <1>2, <1>5
  <1>7. vals \in ValidatorList
    BY <1>1, <1>4, <1>6 DEF ValidatorList, Distinct
  <1>8. stakedBal = Total(vals)
    <2> DEFINE f == [i \in D |-> IV[i].amt]
    <2>1. stakedBal = SumFunctionOnSet(f, D)
      BY DEF Init, SumFunction
    <2>2. f = Amts(vals)
      BY <1>4, <1>6 DEF Amts
    <2> QED
      BY <1>6, <2>1, <2>2 DEF Total
  <1>9. channel \in [open : BOOLEAN, pkts : Seq(Pkt)] /\ Packets(channel.pkts)
    <2>1. channel = [open |-> TRUE, pkts |-> <<>>]
      BY DEF Init
    <2>2. <<>> \in Seq(Pkt)
      OBVIOUS
    <2> QED
      BY <2>1, <2>2, OnePacket DEF NewPackets
  <1>10. HostInv
    <2>1. \A n \in Nat : NewDecFromInt(n) \in Nat /\ (n # 0 => NewDecFromInt(n) # 0)
      BY NewDecNat
    <2>2. ASSUME NEW a \in Addresses, a \in Registered(IV) PROVE Val(IV, a).amt \in Nat
      <3>1. \E i \in D : IV[i].addr = a
        BY <2>2 DEF Registered
      <3>2. Index(IV, a) \in D
        BY <3>1 DEF Index
      <3> QED
        BY <1>2, <3>2 DEF Val
    <2>3. shares \in [Addresses -> Nat]
      <3> DEFINE s(a) == IF a \in Registered(IV) THEN NewDecFromInt(Val(IV, a).amt) ELSE 0
      <3>1. shares = [a \in Addresses |-> s(a)]
        BY DEF Init
      <3>2. \A a \in Addresses : s(a) \in Nat
        BY <2>1, <2>2
      <3> HIDE DEF s
      <3> QED
        BY <3>1, <3>2
    <2>4. hostRate \in [Addresses -> Nat \ {0}]
      <3>1. hostRate = [a \in Addresses |-> NewDecFromInt(1)]
        BY DEF Init
      <3>2. NewDecFromInt(1) \in Nat \ {0}
        BY <2>1
      <3> QED
        BY <3>1, <3>2
    <2>5. responses = {}
      BY DEF Init
    <2> QED
      BY <2>3, <2>4, <2>5 DEF HostInv
  <1> QED
    BY <1>7, <1>8, <1>9, <1>10 DEF Books

LEMMA SameBooks ==
    ASSUME Books, UNCHANGED <<vals, stakedBal, channel>>
    PROVE  Books'
    BY Zenon DEF Books, Packets

LEMMA SameHost ==
    ASSUME HostInv, UNCHANGED <<host, responses>>
    PROVE  HostInv'
  <1>1. shares' = shares /\ hostRate' = hostRate /\ responses' = responses
    BY DEF host
  <1> QED
    BY <1>1, Zenon DEF HostInv

LEMMA MinWeightNat ==
    ASSUME NEW vs \in ValidatorList
    PROVE  MinWeight(vs) \in Nat
  <1> DEFINE N == {vs[i].weight : i \in DOMAIN vs} \ {0}
  <1>1. \A i \in DOMAIN vs : vs[i].weight \in Nat
    BY ListFacts DEF ValidatorList, Entry
  <1>2. CASE N = {}
    BY <1>2, ValidatorsAssumption DEF MinWeight
  <1>3. CASE N # {}
    <2>1. N \in SUBSET Nat
      BY <1>1
    <2>2. MinWeight(vs) = CHOOSE n \in N : \A m \in N : n <= m
      BY <1>3 DEF MinWeight, Min
    <2> HIDE DEF N
    <2>3. \E n \in N : \A m \in N : n <= m
      BY <1>3, <2>1, LeastNumber
    <2>4. MinWeight(vs) \in N
      BY <2>2, <2>3
    <2> QED
      BY <2>1, <2>4
  <1> QED
    BY <1>2, <1>3

LEMMA AddBooks ==
    ASSUME Books, NEW a \in Addresses, NEW w \in Nat, AddValidatorToHostZone(a, w)
    PROVE  Books' /\ UNCHANGED <<phase, icq, host, tainted>>
  <1> DEFINE v == NewValidator(a, w, 0)
  <1>1. /\ vals' = Append(vals, v) /\ a \notin Registered(vals)
        /\ UNCHANGED <<stakedBal, channel, phase, icq, host, tainted>>
    BY DEF AddValidatorToHostZone
  <1>2. v \in Entry /\ v.addr = a /\ v.amt = 0
    BY DEF NewValidator, Entry
  <1> HIDE DEF v
  <1>3. vals' \in ValidatorList /\ Total(vals') = Total(vals) + 0
    BY <1>1, <1>2, AppendTotal DEF Books
  <1>4. Total(vals) \in Int
    BY ListFacts DEF Books, ValidatorList
  <1>5. stakedBal' = Total(vals')
    BY <1>1, <1>3, <1>4 DEF Books
  <1> QED
    BY <1>1, <1>3, <1>5 DEF Books, Packets

\* The whole list, with the same amounts.
LEMMA SameAmounts ==
    ASSUME NEW vs \in ValidatorList, NEW ws, ws = [i \in DOMAIN vs |-> ws[i]],
           \A i \in DOMAIN vs : ws[i] \in Entry /\ ws[i].addr = vs[i].addr /\ ws[i].amt = vs[i].amt
    PROVE  /\ ws \in ValidatorList /\ Total(ws) = Total(vs)
           /\ DOMAIN ws = DOMAIN vs /\ Registered(ws) = Registered(vs)
           /\ \A a \in Registered(vs) : Val(ws, a).amt = Val(vs, a).amt
  <1>1. ws \in ValidatorList /\ DOMAIN ws = DOMAIN vs
    BY SameShape
  <1>2. Registered(ws) = Registered(vs)
    BY <1>1 DEF Registered
  <1>3. Total(ws) = Total(vs)
    <2>1. IsFiniteSet(DOMAIN vs)
      BY ListFacts DEF ValidatorList
    <2>2. \A i \in DOMAIN vs : Amts(ws)[i] = Amts(vs)[i]
      BY <1>1 DEF Amts
    <2>3. SumFunctionOnSet(Amts(ws), DOMAIN vs) = SumFunctionOnSet(Amts(vs), DOMAIN vs)
      BY <2>1, <2>2, SumSame
    <2> QED
      BY <1>1, <2>3 DEF Total
  <1>4. ASSUME NEW a \in Registered(vs) PROVE Val(ws, a).amt = Val(vs, a).amt
    <2> DEFINE i == Index(vs, a)
    <2>1. i \in DOMAIN vs /\ vs[i].addr = a /\ Val(vs, a) = vs[i]
      BY IndexOf
    <2> HIDE DEF i
    <2>2. Index(ws, a) = i /\ Val(ws, a) = ws[Index(ws, a)]
      BY <1>1, <1>2, <2>1, IndexOf
    <2> QED
      BY <2>1, <2>2
  <1> QED
    BY <1>1, <1>2, <1>3, <1>4

LEMMA WeightBooks ==
    ASSUME Books, NEW a \in Addresses, NEW w \in Nat, ChangeValidatorWeight(a, w)
    PROVE  /\ Books' /\ UNCHANGED <<phase, icq, host, tainted, channel>>
           /\ Registered(vals') = Registered(vals)
           /\ \A b \in Registered(vals) : Val(vals', b).amt = Val(vals, b).amt
           /\ \A i \in DOMAIN vals' : i \in DOMAIN vals /\ vals'[i].addr = vals[i].addr
                /\ vals'[i].rate = vals[i].rate /\ vals'[i].fresh = vals[i].fresh
  <1> DEFINE f(i) == IF vals[i].addr = a THEN [vals[i] EXCEPT !.weight = w] ELSE vals[i]
  <1>1. /\ vals' = [i \in DOMAIN vals |-> f(i)]
        /\ UNCHANGED <<stakedBal, channel, phase, icq, host, tainted>>
    BY DEF ChangeValidatorWeight
  <1>2. vals \in ValidatorList /\ \A i \in DOMAIN vals : vals[i] \in Entry
    BY ListFacts DEF Books, ValidatorList
  <1>3. \A i \in DOMAIN vals : /\ f(i) \in Entry /\ f(i).addr = vals[i].addr /\ f(i).amt = vals[i].amt
                               /\ f(i).rate = vals[i].rate /\ f(i).fresh = vals[i].fresh
    BY <1>2 DEF Entry
  <1> HIDE DEF f
  <1>4. /\ vals' \in ValidatorList /\ Total(vals') = Total(vals)
        /\ DOMAIN vals' = DOMAIN vals /\ Registered(vals') = Registered(vals)
        /\ \A b \in Registered(vals) : Val(vals', b).amt = Val(vals, b).amt
    <2>1. vals' = [i \in DOMAIN vals |-> vals'[i]] /\ \A i \in DOMAIN vals : vals'[i] = f(i)
      BY <1>1
    <2>2. \A i \in DOMAIN vals : vals'[i] \in Entry /\ vals'[i].addr = vals[i].addr /\ vals'[i].amt = vals[i].amt
      BY <1>3, <2>1
    <2> QED
      BY <1>2, <2>1, <2>2, SameAmounts
  <1> QED
    BY <1>1, <1>3, <1>4 DEF Books, Packets

LEMMA RemoveBooks ==
    ASSUME Books, NEW a \in Addresses, RemoveValidatorFromHostZone(a)
    PROVE  Books' /\ UNCHANGED <<phase, icq, host, tainted, channel>>
  <1> DEFINE k == Index(vals, a)
  <1>1. /\ a \in Registered(vals) /\ Val(vals, a).amt = 0 /\ vals' = RemoveAt(vals, k)
        /\ UNCHANGED <<stakedBal, channel, phase, icq, host, tainted>>
    BY DEF RemoveValidatorFromHostZone
  <1>2. vals \in ValidatorList /\ k \in DOMAIN vals /\ vals[k].amt = 0
    BY <1>1, IndexOf DEF Books
  <1> HIDE DEF k
  <1>3. vals' \in ValidatorList /\ Total(vals') = Total(vals) - 0
    BY <1>1, <1>2, RemoveTotal
  <1>4. Total(vals) \in Int
    BY <1>2, ListFacts DEF ValidatorList
  <1>5. stakedBal' = Total(vals')
    BY <1>1, <1>3, <1>4 DEF Books
  <1> QED
    BY <1>1, <1>3, <1>5 DEF Books, Packets

LEMMA BeginEpochBooks ==
    ASSUME Books, NEW d \in DepositAmounts \cup {0}, NEW u \in UnbondAmounts \cup {0}, BeginEpoch(d, u)
    PROVE  /\ Books' /\ UNCHANGED <<stakedBal, responses, answers, host, tainted>>
           /\ Registered(vals') = Registered(vals)
           /\ \A b \in Registered(vals) : Val(vals', b).amt = Val(vals, b).amt
           /\ \A i \in DOMAIN vals' : ~vals'[i].fresh
           /\ \E new : NewPackets(new) /\ channel'.pkts = channel.pkts \o new
  <1> DEFINE new == Undelegations(u) \o Delegations(d)
             f(i) == [vals[i] EXCEPT !.fresh = FALSE]
  <1>1. /\ vals' = [i \in DOMAIN vals |-> f(i)]
        /\ channel' = IF channel.open /\ ~Panics(new) THEN [channel EXCEPT !.pkts = @ \o new] ELSE channel
        /\ UNCHANGED <<stakedBal, responses, answers, host, tainted>>
    BY DEF BeginEpoch
  <1>2. vals \in ValidatorList /\ \A i \in DOMAIN vals : vals[i] \in Entry
    BY ListFacts DEF Books, ValidatorList
  <1>3. \A i \in DOMAIN vals : /\ f(i) \in Entry /\ f(i).addr = vals[i].addr /\ f(i).amt = vals[i].amt
                               /\ ~f(i).fresh
    BY <1>2 DEF Entry
  <1> HIDE DEF f
  <1>4. vals' = [i \in DOMAIN vals |-> vals'[i]] /\ \A i \in DOMAIN vals : vals'[i] = f(i)
    BY <1>1
  <1>5. /\ vals' \in ValidatorList /\ Total(vals') = Total(vals)
        /\ DOMAIN vals' = DOMAIN vals /\ Registered(vals') = Registered(vals)
        /\ \A b \in Registered(vals) : Val(vals', b).amt = Val(vals, b).amt
    <2>1. \A i \in DOMAIN vals : vals'[i] \in Entry /\ vals'[i].addr = vals[i].addr /\ vals'[i].amt = vals[i].amt
      BY <1>3, <1>4
    <2> QED
      BY <1>2, <1>4, <2>1, SameAmounts
  <1>6. ~Panics(new) => NewPackets(new)
    BY <1>2, NewPacketsOK
  <1> HIDE DEF new
  <1>7. /\ channel' \in [open : BOOLEAN, pkts : Seq(Pkt)] /\ Packets(channel'.pkts)
        /\ \E s : NewPackets(s) /\ channel'.pkts = channel.pkts \o s
    <2>1. CASE channel.open /\ ~Panics(new)
      <3>1. channel' = [channel EXCEPT !.pkts = channel.pkts \o new]
        BY <1>1, <2>1
      <3>2. Packets(channel.pkts \o new)
        BY <1>6, <2>1, PacketsConcat DEF Books, NewPackets
      <3> DEFINE s == channel.pkts \o new
      <3>3. s \in Seq(Pkt) /\ channel' = [channel EXCEPT !.pkts = s]
        BY <3>1, <3>2 DEF Packets
      <3> HIDE DEF s
      <3>4. channel' \in [open : BOOLEAN, pkts : Seq(Pkt)] /\ channel'.pkts = s
        BY <3>3 DEF Books
      <3> QED
        BY <1>6, <2>1, <3>2, <3>4 DEF s
    <2>2. CASE ~(channel.open /\ ~Panics(new))
      <3>1. channel' = channel
        BY <1>1, <2>2
      <3>2. NewPackets(<<>>)
        BY OnePacket
      <3>3. channel.pkts \o <<>> = channel.pkts
        <4>1. channel.pkts \in Seq(Pkt)
          BY DEF Books
        <4> QED
          BY <4>1
      <3> QED
        BY <3>1, <3>2, <3>3 DEF Books
    <2> QED
      BY <2>1, <2>2
  <1>8. stakedBal' = Total(vals')
    BY <1>1, <1>5 DEF Books
  <1>9. \A i \in DOMAIN vals' : ~vals'[i].fresh
    BY <1>3, <1>4, <1>5
  <1> QED
    BY <1>1, <1>5, <1>7, <1>8, <1>9 DEF Books, Packets

LEMMA RebalanceBooks ==
    ASSUME Books, NEW n \in Nat, RebalanceValidators(n)
    PROVE  /\ Books' /\ UNCHANGED <<vals, stakedBal, phase, icq, host, tainted>>
           /\ \E new : NewPackets(new) /\ channel'.pkts = channel.pkts \o new
  <1> DEFINE p == Packet("rebalance", Redelegations(vals, n).moves)
             s == channel.pkts \o <<p>>
  <1>1. /\ CanSplit(vals, GetTotalValidatorDelegations(vals))
        /\ channel' = [channel EXCEPT !.pkts = Append(@, p)]
        /\ UNCHANGED <<vals, stakedBal, phase, icq, host, tainted>>
    BY DEF RebalanceValidators
  <1>2. p \in Pkt /\ Shaped(p) /\ p.status = "sent"
    BY <1>1, RedelegationPacket DEF Books
  <1> HIDE DEF p
  <1>3. NewPackets(<<p>>) /\ Packets(s)
    BY <1>2, OnePacket, PacketsConcat DEF Books, NewPackets
  <1>4. channel.pkts \in Seq(Pkt)
    BY DEF Books
  <1>5. Append(channel.pkts, p) = s
    BY <1>2, <1>4
  <1>6. channel' = [channel EXCEPT !.pkts = s] /\ s \in Seq(Pkt)
    BY <1>1, <1>3, <1>5 DEF Packets
  <1> HIDE DEF s
  <1>7. channel' \in [open : BOOLEAN, pkts : Seq(Pkt)] /\ channel'.pkts = s
    BY <1>6 DEF Books
  <1> QED
    BY <1>1, <1>3, <1>7 DEF Books, Packets, s

\* Of the packets, one changes its status.
LEMMA StatusPackets ==
    ASSUME Books, NEW n \in DOMAIN channel.pkts, NEW st \in {"sent", "ok", "failed"},
           channel' = [channel EXCEPT !.pkts[n].status = st]
    PROVE  /\ channel' \in [open : BOOLEAN, pkts : Seq(Pkt)] /\ Packets(channel'.pkts)
           /\ Len(channel'.pkts) = Len(channel.pkts) /\ DOMAIN channel'.pkts = DOMAIN channel.pkts
           /\ channel'.pkts[n] = [channel.pkts[n] EXCEPT !.status = st]
           /\ \A i \in DOMAIN channel.pkts \ {n} : channel'.pkts[i] = channel.pkts[i]
           /\ channel'.open = channel.open
  <1> DEFINE P == channel.pkts
             p == [P[n] EXCEPT !.status = st]
             s == [P EXCEPT ![n] = p]
  <1>1. P \in Seq(Pkt) /\ channel \in [open : BOOLEAN, pkts : Seq(Pkt)]
    BY DEF Books
  <1>2. DOMAIN P = 1..Len(P) /\ Len(P) \in Nat /\ \A i \in DOMAIN P : P[i] \in Pkt
    BY <1>1
  <1>3. /\ p \in Pkt /\ p.kind = P[n].kind /\ p.moves = P[n].moves
        /\ p.status = st
    BY <1>2 DEF Pkt
  <1>4. Shaped(p)
    <2>1. Shaped(P[n])
      BY DEF Books, Packets
    <2> HIDE DEF p
    <2> QED
      BY <1>3, <2>1 DEF Shaped
  <1>5. channel' = [channel EXCEPT !.pkts = s]
    OBVIOUS
  <1> HIDE DEF p
  <1>6. /\ s \in Seq(Pkt) /\ DOMAIN s = DOMAIN P /\ Len(s) = Len(P) /\ s[n] = p
        /\ \A i \in DOMAIN P \ {n} : s[i] = P[i]
    <2>1. \A i \in 1..Len(P) : s[i] \in Pkt
      BY <1>2, <1>3
    <2>2. DOMAIN s = 1..Len(P)
      BY <1>2
    <2>3. s \in [1..Len(P) -> Pkt]
      BY <2>1, <2>2
    <2>4. s \in Seq(Pkt)
      BY <1>2, <2>3
    <2>5. Len(s) = Len(P)
      BY <1>2, <2>2, <2>4
    <2> QED
      BY <1>2, <2>2, <2>4, <2>5
  <1> HIDE DEF s
  <1>7. channel'.pkts = s /\ channel' \in [open : BOOLEAN, pkts : Seq(Pkt)] /\ channel'.open = channel.open
    BY <1>1, <1>5, <1>6
  <1>8. \A i \in DOMAIN s : Shaped(s[i])
    BY <1>4, <1>6 DEF Books, Packets
  <1> QED
    BY <1>6, <1>7, <1>8 DEF Packets, p

LEMMA NextSentOK ==
    ASSUME Books, SomeSent
    PROVE  /\ NextSent \in DOMAIN channel.pkts /\ channel.pkts[NextSent].status = "sent"
           /\ \A j \in 1..NextSent - 1 : channel.pkts[j].status # "sent"
  <1> DEFINE N == {i \in DOMAIN channel.pkts : channel.pkts[i].status = "sent"}
             good(i) == /\ channel.pkts[i].status = "sent"
                        /\ \A j \in 1..i - 1 : channel.pkts[j].status # "sent"
  <1>1. channel.pkts \in Seq(Pkt)
    BY DEF Books
  <1>2. DOMAIN channel.pkts = 1..Len(channel.pkts) /\ Len(channel.pkts) \in Nat
    BY <1>1
  <1>3. N # {} /\ N \in SUBSET Nat
    BY <1>2 DEF SomeSent
  <1>4. PICK n \in N : \A m \in N : n <= m
    <2> HIDE DEF N
    <2> QED
      BY <1>3, LeastNumber
  <1>5. good(n)
    <2>1. ASSUME NEW j \in 1..n - 1 PROVE channel.pkts[j].status # "sent"
      <3>1. j \in DOMAIN channel.pkts /\ ~(n <= j)
        BY <1>2, <1>4
      <3> QED
        BY <1>4, <3>1
    <2> QED
      BY <1>4, <2>1
  <1>6. NextSent = CHOOSE i \in DOMAIN channel.pkts : good(i)
    BY DEF NextSent
  <1>7. n \in DOMAIN channel.pkts
    BY <1>4
  <1> HIDE DEF good, N
  <1>8. NextSent \in DOMAIN channel.pkts /\ good(NextSent)
    BY <1>5, <1>6, <1>7
  <1> QED
    BY <1>8 DEF good

\* The shares of an account never become negative.
LEMMA ExchangedNat ==
    ASSUME HostInv, NEW a \in Addresses, NEW net \in Int
    PROVE  Exchanged(a, net) \in Nat
  <1> DEFINE q == Quo(NewDecFromInt(Abs(net)), hostRate[a])
  <1>1. shares[a] \in Nat /\ hostRate[a] \in Nat \ {0}
    BY DEF HostInv
  <1>2. Sign(net) \in Int /\ Abs(net) \in Nat
    BY DEF Sign, Abs
  <1>3. q \in Nat
    BY <1>1, <1>2, NewDecNat, QuoNat
  <1> DEFINE x == Sign(net) * q
  <1>4. x \in Int
    BY <1>2, <1>3
  <1>5. Exchanged(a, net) = IF shares[a] + x < 0 THEN 0 ELSE shares[a] + x
    BY DEF Exchanged
  <1> HIDE DEF x
  <1> QED
    BY <1>1, <1>4, <1>5

\* Which responses there are after a packet was executed or acknowledged.
LEMMA RaceHost ==
    ASSUME NEW S, QueriesInv, \A r \in responses : r.value \in S, NEW p
    PROVE  \A r \in Race(p) : r.value \in S
  <1> SUFFICES ASSUME NEW s \in responses PROVE [s EXCEPT !.raced = TRUE].value \in S
    BY DEF Race
  <1>1. PICK v : s \in [kind : Kinds, addr : Addresses, value : {v}, raced : BOOLEAN]
    BY DEF QueriesInv, AreResponses
  <1> QED
    BY <1>1

LEMMA ExecuteBooks ==
    ASSUME QueriesInv, Books, HostInv, NEW ok \in BOOLEAN, ExecuteICA(ok)
    PROVE  /\ Books' /\ HostInv' /\ UNCHANGED <<vals, stakedBal, phase, hostRate, tainted>>
           /\ channel' = [channel EXCEPT !.pkts[NextSent].status = IF ok THEN "ok" ELSE "failed"]
           /\ ok => Feasible(channel.pkts[NextSent])
           /\ ~ok => shares' = shares /\ responses' = responses
           /\ ok => /\ responses' = Race(channel.pkts[NextSent])
                    /\ \A a \in Addresses :
                         shares'[a] = Exchanged(a, Net(channel.pkts[NextSent].moves, a))
  <1> DEFINE n == NextSent
             p == channel.pkts[n]
             st == IF ok THEN "ok" ELSE "failed"
  <1>1. n \in DOMAIN channel.pkts
    BY NextSentOK DEF ExecuteICA
  <1>2. /\ channel' = [channel EXCEPT !.pkts[n].status = st] /\ UNCHANGED <<vals, stakedBal, phase, hostRate, tainted>>
        /\ shares' = IF ok THEN [a \in Addresses |-> Exchanged(a, Net(p.moves, a))] ELSE shares
        /\ responses' = IF ok THEN Race(p) ELSE responses
        /\ ok => Feasible(p)
    BY DEF ExecuteICA
  <1>3. st \in {"sent", "ok", "failed"}
    OBVIOUS
  <1> HIDE DEF n, st
  <1>4. Books'
    <2>1. channel' \in [open : BOOLEAN, pkts : Seq(Pkt)] /\ Packets(channel'.pkts)
      BY <1>1, <1>2, <1>3, StatusPackets
    <2> QED
      BY <1>2, <2>1 DEF Books, Packets
  <1>5. p \in Pkt
    <2>1. channel.pkts \in Seq(Pkt)
      BY DEF Books
    <2> QED
      BY <1>1, <2>1
  <1>6. \A a \in Addresses : Exchanged(a, Net(p.moves, a)) \in Nat
    <2>1. MovesOK(p.moves)
      BY <1>5, MoveFcnFacts DEF Pkt
    <2>2. \A a : Net(p.moves, a) \in Int
      BY <2>1, NetInt
    <2> QED
      BY <2>2, ExchangedNat
  <1>7. HostInv'
    <2>1. shares' \in [Addresses -> Nat]
      <3> DEFINE e(a) == Exchanged(a, Net(p.moves, a))
      <3>1. shares' = IF ok THEN [a \in Addresses |-> e(a)] ELSE shares
        BY <1>2
      <3>2. \A a \in Addresses : e(a) \in Nat
        BY <1>6
      <3> HIDE DEF e
      <3> QED
        BY <3>1, <3>2 DEF HostInv
    <2>2. \A r \in responses' : r.value \in Nat
      <3>1. \A r \in responses : r.value \in Nat
        BY DEF HostInv
      <3>2. \A r \in Race(p) : r.value \in Nat
        BY <3>1, RaceHost
      <3> QED
        BY <1>2, <3>1, <3>2
    <2> QED
      BY <1>2, <2>1, <2>2 DEF HostInv
  <1>8. ok => \A a \in Addresses : shares'[a] = Exchanged(a, Net(p.moves, a))
    BY <1>2
  <1> QED
    BY <1>2, <1>4, <1>7, <1>8 DEF n, st

LEMMA SlashHost ==
    ASSUME HostInv, NEW a \in Addresses, NEW f \in SlashFactors, Slash(a, f)
    PROVE  HostInv' /\ UNCHANGED <<vals, stakedBal, phase, channel, icq, shares>>
           /\ tainted' = tainted \cup {a} /\ \A b \in Addresses \ {a} : hostRate'[b] = hostRate[b]
  <1> DEFINE m == Mul(hostRate[a], f)
  <1>1. /\ m > 0 /\ hostRate' = [hostRate EXCEPT ![a] = m] /\ tainted' = tainted \cup {a}
        /\ UNCHANGED <<vals, stakedBal, phase, channel, icq, shares>>
    BY DEF Slash
  <1>2. hostRate[a] \in Nat /\ f \in Nat
    BY ValidatorsAssumption DEF HostInv
  <1>3. m \in Nat
    BY <1>2, MulNat
  <1> HIDE DEF m
  <1>4. hostRate' \in [Addresses -> Nat \ {0}] /\ \A b \in Addresses \ {a} : hostRate'[b] = hostRate[b]
    BY <1>1, <1>3 DEF HostInv
  <1>5. responses' = responses
    BY <1>1 DEF icq
  <1> QED
    BY <1>1, <1>4, <1>5 DEF HostInv

\* What is booked is moved between registered validators and the account.
LEMMA EffectsRegistered ==
    ASSUME NEW p \in Pkt, Shaped(p), p.status = "ok" => CallbackSucceeds(p)
    PROVE  /\ Effects(p) = (IF p.status = "ok" THEN p.moves ELSE <<>>) /\ MovesOK(Effects(p))
           /\ \A i \in DOMAIN Effects(p) :
                /\ Effects(p)[i].src \in Registered(vals) \cup {Account}
                /\ Effects(p)[i].dst \in Registered(vals) \cup {Account}
  <1>1. MovesOK(p.moves)
    BY MoveFcnFacts DEF Pkt
  <1>2. CASE p.status # "ok"
    <2>1. Effects(p) = <<>> /\ DOMAIN <<>> = {}
      BY <1>2 DEF Effects
    <2> QED
      BY <1>2, <2>1, FS_EmptySet DEF MovesOK
  <1>3. CASE p.status = "ok"
    <2>1. Effects(p) = p.moves /\ CallbackSucceeds(p)
      BY <1>3 DEF Effects
    <2>2. \A i \in DOMAIN p.moves : p.moves[i] \in Range(p.moves)
      BY DEF Range
    <2>3. p.kind \in {"delegate", "undelegate", "rebalance"}
      BY DEF Pkt
    <2>4. CASE p.kind = "delegate"
      BY <1>1, <1>3, <2>1, <2>2, <2>4 DEF CallbackSucceeds, DelegateCallback, Shaped
    <2>5. CASE p.kind = "undelegate"
      BY <1>1, <1>3, <2>1, <2>2, <2>5 DEF CallbackSucceeds, UndelegateCallback, Shaped
    <2>6. CASE p.kind = "rebalance"
      <3>1. Touched(p) \subseteq Registered(vals)
        BY <2>1, <2>6 DEF CallbackSucceeds, RebalanceCallback
      <3>2. \A i \in DOMAIN p.moves : p.moves[i].src \in Registered(vals) /\ p.moves[i].dst \in Registered(vals)
        BY <3>1 DEF Touched
      <3> QED
        BY <1>1, <1>3, <2>1, <3>2
    <2> QED
      BY <2>3, <2>4, <2>5, <2>6
  <1> QED
    BY <1>2, <1>3

\* The packets without the first.
LEMMA TailPackets ==
    ASSUME Books, channel.pkts # <<>>, channel' = [channel EXCEPT !.pkts = Tail(@)]
    PROVE  /\ channel' \in [open : BOOLEAN, pkts : Seq(Pkt)] /\ Packets(channel'.pkts)
           /\ 1 \in DOMAIN channel.pkts /\ Head(channel.pkts) = channel.pkts[1]
           /\ Head(channel.pkts) \in Pkt /\ Shaped(Head(channel.pkts))
           /\ Len(channel'.pkts) = Len(channel.pkts) - 1
           /\ DOMAIN channel.pkts = 1..Len(channel.pkts) /\ Len(channel.pkts) \in Nat
           /\ DOMAIN channel'.pkts = 1..Len(channel.pkts) - 1
           /\ \A i \in DOMAIN channel'.pkts : channel'.pkts[i] = channel.pkts[i + 1]
           /\ channel'.open = channel.open
  <1> DEFINE P == channel.pkts
             s == Tail(P)
  <1>1. P \in Seq(Pkt) /\ channel \in [open : BOOLEAN, pkts : Seq(Pkt)]
    BY DEF Books
  <1>2. /\ DOMAIN P = 1..Len(P) /\ Len(P) \in Nat /\ \A i \in DOMAIN P : P[i] \in Pkt
        /\ Len(P) # 0 /\ 1 \in DOMAIN P /\ Head(P) = P[1]
    BY <1>1
  <1>3. s \in Seq(Pkt) /\ Len(s) = Len(P) - 1 /\ DOMAIN s = 1..Len(P) - 1
    <2>1. s \in Seq(Pkt)
      BY <1>1
    <2>2. Len(s) = Len(P) - 1
      BY <1>1
    <2> QED
      BY <2>1, <2>2
  <1>4. \A i \in DOMAIN s : s[i] = P[i + 1] /\ i + 1 \in DOMAIN P
    BY <1>1, <1>2, <1>3
  <1>5. channel' = [channel EXCEPT !.pkts = s]
    OBVIOUS
  <1>6. \A i \in DOMAIN P : Shaped(P[i])
    BY DEF Books, Packets
  <1> HIDE DEF s
  <1>7. channel'.pkts = s /\ channel' \in [open : BOOLEAN, pkts : Seq(Pkt)] /\ channel'.open = channel.open
    BY <1>1, <1>3, <1>5
  <1>8. \A i \in DOMAIN s : Shaped(s[i])
    BY <1>4, <1>6
  <1> QED
    BY <1>2, <1>3, <1>4, <1>6, <1>7, <1>8 DEF Packets

LEMMA AcknowledgeBooks ==
    ASSUME QueriesInv, Books, HostInv, AcknowledgeICA
    PROVE  /\ Books' /\ HostInv' /\ UNCHANGED <<phase, queries, answers, host, tainted>>
           /\ channel.pkts # <<>> /\ channel' = [channel EXCEPT !.pkts = Tail(@)]
           /\ LET p == Head(channel.pkts) IN
              /\ vals' = Booked(vals, Effects(p))
              /\ p.status # "sent" /\ (p.status = "ok" => CallbackSucceeds(p))
              /\ responses' = IF p.status = "ok" THEN Race(p) ELSE responses
  <1> DEFINE p == Head(channel.pkts)
  <1>1. /\ channel.pkts # <<>> /\ channel' = [channel EXCEPT !.pkts = Tail(@)]
        /\ p.status # "sent" /\ (p.status = "ok" => CallbackSucceeds(p))
        /\ vals' = Booked(vals, Effects(p)) /\ stakedBal' = stakedBal - Net(Effects(p), Account)
        /\ responses' = IF p.status = "ok" THEN Race(p) ELSE responses
        /\ UNCHANGED <<phase, queries, answers, host, tainted>>
    BY DEF AcknowledgeICA, Booked
  <1>2. /\ p \in Pkt /\ Shaped(p)
        /\ channel' \in [open : BOOLEAN, pkts : Seq(Pkt)] /\ Packets(channel'.pkts)
    BY <1>1, TailPackets
  <1> HIDE DEF p
  <1>3. /\ MovesOK(Effects(p))
        /\ \A i \in DOMAIN Effects(p) :
             /\ Effects(p)[i].src \in Registered(vals) \cup {Account}
             /\ Effects(p)[i].dst \in Registered(vals) \cup {Account}
    BY <1>1, <1>2, EffectsRegistered
  <1>4. vals \in ValidatorList /\ stakedBal = Total(vals)
    BY DEF Books
  <1>5. vals' \in ValidatorList /\ Total(vals') = Total(vals) - Net(Effects(p), Account)
    BY <1>1, <1>3, <1>4, BookedEntries, BookedTotal
  <1>6. Books'
    BY <1>1, <1>2, <1>4, <1>5 DEF Books, Packets
  <1>7. HostInv'
    <2>1. \A r \in responses : r.value \in Nat
      BY DEF HostInv
    <2>2. \A r \in Race(p) : r.value \in Nat
      BY <2>1, RaceHost
    <2>3. shares' = shares /\ hostRate' = hostRate
      BY <1>1 DEF host
    <2> QED
      BY <1>1, <2>1, <2>2, <2>3 DEF HostInv
  <1> QED
    BY <1>1, <1>6, <1>7 DEF p

LEMMA ChannelBooks ==
    ASSUME Books, TimeoutICA \/ RestoreInterchainAccount
    PROVE  /\ Books' /\ UNCHANGED <<vals, stakedBal, phase, icq, host>>
  <1>1. UNCHANGED <<vals, stakedBal, phase, icq, host>>
    BY DEF TimeoutICA, RestoreInterchainAccount
  <1>2. channel' \in [open : BOOLEAN, pkts : Seq(Pkt)] /\ Packets(channel'.pkts)
    <2>1. CASE TimeoutICA
      <3>1. channel' = [open |-> FALSE, pkts |-> <<>>]
        BY <2>1 DEF TimeoutICA
      <3>2. <<>> \in Seq(Pkt)
        OBVIOUS
      <3> QED
        BY <3>1, <3>2, OnePacket DEF NewPackets
    <2>2. CASE RestoreInterchainAccount
      <3>1. channel' = [channel EXCEPT !.open = TRUE]
        BY <2>2 DEF RestoreInterchainAccount
      <3>2. channel' \in [open : BOOLEAN, pkts : Seq(Pkt)] /\ channel'.pkts = channel.pkts
        BY <3>1 DEF Books
      <3> QED
        BY <3>2 DEF Books
    <2> QED
      BY <2>1, <2>2
  <1> QED
    BY <1>1, <1>2 DEF Books, Packets

LEMMA ReadBooks ==
    ASSUME QueriesInv, HostInv, NEW q \in queries, ReadHost(q)
    PROVE  /\ HostInv' /\ UNCHANGED <<vals, stakedBal, phase, channel, queries, answers, host, tainted>>
  <1> DEFINE value == IF q.kind = "validator" THEN hostRate[q.addr] ELSE shares[q.addr]
             raced == \E p \in Range(channel.pkts) : p.status = "ok" /\ q.addr \in Touched(p)
             new == [kind |-> q.kind, addr |-> q.addr, value |-> value, raced |-> raced]
  <1>1. /\ responses' = responses \cup {new}
        /\ UNCHANGED <<vals, stakedBal, phase, channel, queries, answers, host, tainted>>
    BY DEF ReadHost
  <1>2. q.addr \in Addresses
    BY DEF QueriesInv, Query
  <1>3. value \in Nat
    BY <1>2 DEF HostInv
  <1>4. new.value = value
    OBVIOUS
  <1> HIDE DEF value, new
  <1>5. shares' = shares /\ hostRate' = hostRate
    BY <1>1 DEF host
  <1> QED
    BY <1>1, <1>3, <1>4, <1>5 DEF HostInv

\* What a callback makes of the validators: nothing, or a new entry for the one
\* that was asked about, with the staked balance changed by as much.
Answered(r, vs, bal) ==
    \/ vs = vals /\ bal = stakedBal
    \/ /\ r.addr \in Registered(vals)
       /\ \E v \in Entry :
            /\ v.addr = r.addr /\ vs = Replaced(vals, v)
            /\ bal = stakedBal + v.amt - Val(vals, r.addr).amt
            /\ \/ v.rate = r.value /\ v.amt = Val(vals, r.addr).amt /\ r.kind = "validator"
               \/ /\ r.kind # "validator"
                  /\ v.rate = Val(vals, r.addr).rate /\ v.fresh = Val(vals, r.addr).fresh
                  /\ v.fresh /\ v.amt = TruncateInt(Mul(r.value, v.rate))

LEMMA RateAnswered ==
    ASSUME Books, NEW r, r.value \in Nat, r.kind = "validator", NEW qs
    PROVE  LET res == ValidatorExchangeRateCallback(r, qs) IN Answered(r, res.vals, res.stakedBal)
  <1> DEFINE res == ValidatorExchangeRateCallback(r, qs)
             w == Val(vals, r.addr)
             v == [w EXCEPT !.rate = r.value, !.fresh = TRUE]
  <1>1. CASE phase # "window" \/ r.addr \notin Registered(vals)
    <2>1. res = Error
      BY <1>1 DEF ValidatorExchangeRateCallback
    <2> QED
      BY <2>1 DEF Error, Unchanged, Answered
  <1>2. CASE ~(phase # "window" \/ r.addr \notin Registered(vals))
    <2>1. w \in Entry /\ w.addr = r.addr
      BY <1>2, IndexOf DEF Books
    <2>2. v \in Entry /\ v.addr = r.addr /\ v.amt = w.amt /\ v.rate = r.value
      BY <2>1 DEF Entry
    <2>3. res = [Unchanged(qs) EXCEPT !.vals = SetVal(v), !.queries = MakeRequest(qs, "delegation", r.addr)]
      BY <1>2 DEF ValidatorExchangeRateCallback
    <2> HIDE DEF v
    <2>4. res.vals = Replaced(vals, v) /\ res.stakedBal = stakedBal
      BY <2>3 DEF Unchanged, SetVal, Replaced
    <2>5. stakedBal \in Int /\ w.amt \in Int
      BY <2>1, ListFacts DEF Books, ValidatorList, Entry
    <2>6. stakedBal = stakedBal + v.amt - w.amt
      BY <2>2, <2>5
    <2> HIDE DEF res
    <2> QED
      BY <1>2, <2>2, <2>4, <2>6 DEF Answered, res
  <1> QED
    BY <1>1, <1>2

LEMMA ChangedEntry ==
    ASSUME NEW w \in Entry, NEW t \in Int, NEW n \in Nat
    PROVE  /\ LET v == [w EXCEPT !.amt = t] IN
              v \in Entry /\ v.addr = w.addr /\ v.amt = t /\ v.rate = w.rate /\ v.fresh = w.fresh
           /\ LET v == [w EXCEPT !.amt = t, !.weight = n] IN
              v \in Entry /\ v.addr = w.addr /\ v.amt = t /\ v.rate = w.rate /\ v.fresh = w.fresh
    BY DEF Entry

LEMMA SharesAnswered ==
    ASSUME Books, NEW r, r.value \in Nat, r.kind # "validator", NEW qs
    PROVE  LET res == DelegatorSharesCallback(r, qs) IN Answered(r, res.vals, res.stakedBal)
  <1> DEFINE res == DelegatorSharesCallback(r, qs)
             w == Val(vals, r.addr)
             tokens == TruncateInt(Mul(r.value, w.rate))
             weight == TruncateInt(Mul(NewDecFromInt(w.weight), Quo(tokens, w.amt)))
             v1 == [w EXCEPT !.amt = tokens]
             v2 == [w EXCEPT !.amt = tokens, !.weight = weight]
             same == res.vals = vals /\ res.stakedBal = stakedBal
             more == /\ res.vals = Replaced(vals, v1)
                     /\ res.stakedBal = stakedBal + (tokens - w.amt)
             less == /\ tokens < w.amt /\ res.vals = Replaced(vals, v2)
                     /\ res.stakedBal = stakedBal - (w.amt - tokens)
             bad == phase # "window" \/ r.addr \notin Registered(vals) \/ ~w.fresh
  <1>1. CASE bad
    <2>1. res = Error
      BY <1>1 DEF DelegatorSharesCallback
    <2> QED
      BY <2>1 DEF Error, Unchanged, Answered
  <1>2. CASE ~bad
    <2>1. r.addr \in Registered(vals) /\ w \in Entry /\ w.addr = r.addr /\ w.fresh
      BY <1>2, IndexOf DEF Books
    <2>2. tokens \in Nat
      BY <2>1, MulNat, TruncateNat DEF Entry
    <2>3. stakedBal \in Int /\ w.amt \in Int /\ w.weight \in Nat /\ w.rate \in Nat
      BY <2>1, ListFacts DEF Books, ValidatorList, Entry
    <2>4. Error.vals = vals /\ Error.stakedBal = stakedBal /\ Unchanged(qs).vals = vals /\ Unchanged(qs).stakedBal = stakedBal
      BY DEF Error, Unchanged
    <2>5. ASSUME NEW vs, NEW bal
          PROVE  LET x == [Unchanged(qs) EXCEPT !.vals = vs, !.stakedBal = bal] IN
                 x.vals = vs /\ x.stakedBal = bal
      BY DEF Unchanged
    <2>6. SetVal(v1) = Replaced(vals, v1) /\ SetVal(v2) = Replaced(vals, v2)
      BY DEF SetVal, Replaced
    <2>7. /\ Slashed(w, tokens, qs).vals = SetVal(v2)
          /\ Slashed(w, tokens, qs).stakedBal = stakedBal - (w.amt - tokens)
      BY DEF Slashed, Unchanged
    <2>8. LET x == [Unchanged(qs) EXCEPT !.vals = SetVal(v1), !.stakedBal = @ + (tokens - w.amt)] IN
          x.vals = SetVal(v1) /\ x.stakedBal = stakedBal + (tokens - w.amt)
      BY DEF Unchanged
    <2>9. tokens = w.amt \/ tokens > w.amt \/ tokens < w.amt
      BY <2>2, <2>3
    <2>10. same \/ more \/ less
      <3>1. CASE tokens = w.amt
        <4>1. res = Unchanged(qs)
          BY <1>2, <3>1 DEF DelegatorSharesCallback
        <4> QED
          BY <2>4, <4>1
      <3>2. CASE tokens > w.amt
        <4>1. tokens # w.amt
          BY <2>2, <2>3, <3>2
        <4>2. \/ res = Error
              \/ res = [Unchanged(qs) EXCEPT !.vals = SetVal(v1), !.stakedBal = @ + (tokens - w.amt)]
          BY <1>2, <3>2, <4>1 DEF DelegatorSharesCallback
        <4> HIDE DEF res
        <4> QED
          BY <2>4, <2>6, <2>8, <4>2
      <3>3. CASE tokens < w.amt
        <4>1. tokens # w.amt /\ ~(tokens > w.amt)
          BY <2>2, <2>3, <3>3
        <4>2. res = Error \/ res = Slashed(w, tokens, qs)
          BY <1>2, <4>1 DEF DelegatorSharesCallback
        <4> HIDE DEF res
        <4> QED
          BY <2>4, <2>6, <2>7, <3>3, <4>2
      <3> QED
        BY <2>9, <3>1, <3>2, <3>3
    <2> HIDE DEF res
    <2>11. CASE same
      BY <2>11 DEF Answered, res
    <2>12. CASE more
      <3>1. v1 \in Entry /\ v1.addr = r.addr /\ v1.amt = tokens /\ v1.rate = w.rate /\ v1.fresh = w.fresh
        <4> HIDE DEF tokens, w
        <4>1. w \in Entry /\ tokens \in Int /\ w.addr = r.addr /\ 0 \in Nat
          BY <2>1, <2>2
        <4> QED
          BY <4>1, ChangedEntry, Zenon
      <3>2. stakedBal + (tokens - w.amt) = stakedBal + tokens - w.amt
        BY <2>2, <2>3
      <3> HIDE DEF v1, tokens
      <3>3. tokens = TruncateInt(Mul(r.value, v1.rate))
        BY <3>1 DEF tokens
      <3> QED
        BY <2>1, <2>12, <3>1, <3>2, <3>3 DEF Answered, res
    <2>13. CASE less
      <3>1. weight \in Nat
        <4>1. w.amt \in Nat \ {0}
          BY <2>2, <2>3, <2>13
        <4>2. Quo(tokens, w.amt) \in Nat /\ NewDecFromInt(w.weight) \in Nat
          BY <2>2, <2>3, <4>1, QuoNat, NewDecNat
        <4> QED
          BY <4>2, MulNat, TruncateNat
      <3> HIDE DEF weight
      <3>2. v2 \in Entry /\ v2.addr = r.addr /\ v2.amt = tokens /\ v2.rate = w.rate /\ v2.fresh = w.fresh
        <4> HIDE DEF tokens, w
        <4>1. w \in Entry /\ tokens \in Int /\ w.addr = r.addr
          BY <2>1, <2>2
        <4> QED
          BY ONLY <3>1, <4>1, ChangedEntry, ZenonT(60)
      <3>3. stakedBal - (w.amt - tokens) = stakedBal + tokens - w.amt
        BY <2>2, <2>3
      <3> HIDE DEF v2, tokens
      <3>4. tokens = TruncateInt(Mul(r.value, v2.rate))
        BY <3>2 DEF tokens
      <3> QED
        BY <2>1, <2>13, <3>2, <3>3, <3>4 DEF Answered, res
    <2> QED
      BY <2>10, <2>11, <2>12, <2>13
  <1> QED
    BY <1>1, <1>2

LEMMA SubmitBooks ==
    ASSUME QueriesInv, Books, HostInv, NEW r \in responses, NEW again \in BOOLEAN,
           SubmitQueryResponse(r, again)
    PROVE  /\ Books' /\ HostInv' /\ UNCHANGED <<phase, channel, host>>
           /\ responses' \subseteq responses
           /\ Answered(r, vals', stakedBal')
           /\ tainted' = (IF stakedBal' # stakedBal THEN tainted \cup {r.addr} ELSE tainted)
  <1>1. UNCHANGED <<phase, channel, host>> /\ responses' \subseteq responses
    BY DEF SubmitQueryResponse
  <1>2. r.value \in Nat /\ r.kind \in Kinds
    BY DEF HostInv, QueriesInv, AreResponses
  <1>3. /\ Answered(r, vals', stakedBal')
        /\ tainted' = (IF stakedBal' # stakedBal THEN tainted \cup {r.addr} ELSE tainted)
    <2>1. CASE /\ ~\E q \in queries : SameId(q, r)
               /\ UNCHANGED <<vals, stakedBal, queries, answers, tainted>>
      BY <2>1 DEF Answered
    <2>2. CASE \E q \in queries :
          /\ SameId(q, r)
          /\ LET qs == DeleteQuery(q)
                 res == IF q.expired \/ r.value = 0 THEN Unchanged(qs)
                        ELSE IF r.kind = "validator"
                        THEN ValidatorExchangeRateCallback(r, qs)
                        ELSE DelegatorSharesCallback(r, qs)
             IN  vals' = res.vals /\ stakedBal' = res.stakedBal
                  /\ tainted' = IF res.stakedBal # stakedBal
                               THEN tainted \cup {r.addr} ELSE tainted
      <3>1. PICK q \in queries :
          LET qs == DeleteQuery(q)
                 res == IF q.expired \/ r.value = 0 THEN Unchanged(qs)
                        ELSE IF r.kind = "validator"
                        THEN ValidatorExchangeRateCallback(r, qs)
                        ELSE DelegatorSharesCallback(r, qs)
             IN  vals' = res.vals /\ stakedBal' = res.stakedBal
                  /\ tainted' = IF res.stakedBal # stakedBal
                               THEN tainted \cup {r.addr} ELSE tainted
        BY <2>2
      <3> DEFINE qs == DeleteQuery(q)
      <3>2. Answered(r, Unchanged(qs).vals, Unchanged(qs).stakedBal)
        BY DEF Answered, Unchanged
      <3>3. r.kind = "validator" => LET res == ValidatorExchangeRateCallback(r, qs) IN Answered(r, res.vals, res.stakedBal)
        BY <1>2, RateAnswered
      <3>4. r.kind # "validator" => LET res == DelegatorSharesCallback(r, qs) IN Answered(r, res.vals, res.stakedBal)
        BY <1>2, SharesAnswered
      <3> HIDE DEF qs
      <3>5. CASE q.expired \/ r.value = 0
        BY <3>1, <3>2, <3>5 DEF qs
      <3>6. CASE ~(q.expired \/ r.value = 0) /\ r.kind = "validator"
        BY <3>1, <3>3, <3>6 DEF qs
      <3>7. CASE ~(q.expired \/ r.value = 0) /\ r.kind # "validator"
        BY <3>1, <3>4, <3>7 DEF qs
      <3> QED
        BY <3>5, <3>6, <3>7
    <2> QED
      BY <2>1, <2>2, Zenon DEF SubmitQueryResponse
  <1>4. vals' \in ValidatorList /\ stakedBal' = Total(vals')
    <2>1. CASE vals' = vals /\ stakedBal' = stakedBal
      BY <2>1 DEF Books
    <2>2. CASE /\ r.addr \in Registered(vals)
               /\ \E v \in Entry : v.addr = r.addr /\ vals' = Replaced(vals, v)
                                  /\ stakedBal' = stakedBal + v.amt - Val(vals, r.addr).amt
      <3>1. PICK v \in Entry : v.addr = r.addr /\ vals' = Replaced(vals, v)
                                  /\ stakedBal' = stakedBal + v.amt - Val(vals, r.addr).amt
        BY <2>2
      <3>2. Replaced(vals, v) \in ValidatorList /\ Total(Replaced(vals, v)) = Total(vals) + v.amt - Val(vals, v.addr).amt
        BY <2>2, <3>1, ReplacedTotal DEF Books
      <3> QED
        BY <3>1, <3>2 DEF Books
    <2> QED
      BY <1>3, <2>1, <2>2 DEF Answered
  <1>5. Books'
    BY <1>1, <1>4 DEF Books, Packets
  <1>6. HostInv'
    <2>1. shares' = shares /\ hostRate' = hostRate
      BY <1>1 DEF host
    <2> QED
      BY <1>1, <2>1 DEF HostInv
  <1> QED
    BY <1>1, <1>3, <1>5, <1>6

BooksInv == Books /\ HostInv

LEMMA BooksStep ==
    ASSUME QueriesInv, BooksInv, [Next]_vars
    PROVE  BooksInv'
  <1> USE DEF BooksInv
  <1>0. \A w \in Weights : w \in Nat
    BY ValidatorsAssumption
  <1>1. CASE UNCHANGED vars
    <2>1. UNCHANGED <<vals, stakedBal, channel, icq, host>>
      BY <1>1 DEF vars
    <2>2. responses' = responses
      BY <2>1 DEF icq
    <2> QED
      BY <2>1, <2>2, SameBooks, SameHost
  <1>2. ASSUME NEW a \in Addresses, NEW w \in Nat, AddValidatorToHostZone(a, w)
        PROVE  BooksInv'
    <2>1. Books' /\ UNCHANGED <<icq, host>>
      BY <1>2, AddBooks
    <2>2. responses' = responses
      BY <2>1 DEF icq
    <2> QED
      BY <2>1, <2>2, SameHost
  <1>3. CASE \E a \in Addresses : AddValidators(a) \/ AddValidatorsProposal(a)
    <2>1. MinWeight(vals) \in Nat
      BY MinWeightNat DEF Books
    <2> QED
      BY <1>0, <1>2, <1>3, <2>1 DEF AddValidators, AddValidatorsProposal
  <1>4. CASE \E a \in Addresses, w \in Weights : ChangeValidatorWeight(a, w)
    <2>1. PICK a \in Addresses, w \in Weights : ChangeValidatorWeight(a, w)
      BY <1>4
    <2>2. Books' /\ UNCHANGED <<icq, host>>
      BY <1>0, <2>1, WeightBooks
    <2>3. responses' = responses
      BY <2>2 DEF icq
    <2> QED
      BY <2>2, <2>3, SameHost
  <1>5. CASE \E a \in Addresses : RemoveValidatorFromHostZone(a)
    <2>1. Books' /\ UNCHANGED <<icq, host>>
      BY <1>5, RemoveBooks
    <2>2. responses' = responses
      BY <2>1 DEF icq
    <2> QED
      BY <2>1, <2>2, SameHost
  <1>6. CASE \E d \in DepositAmounts \cup {0}, u \in UnbondAmounts \cup {0} : BeginEpoch(d, u)
    BY <1>6, BeginEpochBooks, SameHost
  <1>7. CASE EnterBufferWindow
    <2>1. UNCHANGED <<vals, stakedBal, channel, icq, host>>
      BY <1>7 DEF EnterBufferWindow
    <2>2. responses' = responses
      BY <2>1 DEF icq
    <2> QED
      BY <2>1, <2>2, SameBooks, SameHost
  <1>8. CASE \E n \in NumRebalance : RebalanceValidators(n)
    <2>1. PICK n \in NumRebalance : RebalanceValidators(n)
      BY <1>8
    <2>2. n \in Nat
      BY ValidatorsAssumption
    <2>3. Books' /\ UNCHANGED <<icq, host>>
      BY <2>1, <2>2, RebalanceBooks
    <2>4. responses' = responses
      BY <2>3 DEF icq
    <2> QED
      BY <2>3, <2>4, SameHost
  <1>9. CASE \E ok \in BOOLEAN : ExecuteICA(ok)
    BY <1>9, ExecuteBooks
  <1>10. CASE \E a \in Addresses, f \in SlashFactors : Slash(a, f)
    BY <1>10, SlashHost, SameBooks
  <1>11. CASE AcknowledgeICA
    BY <1>11, AcknowledgeBooks
  <1>12. CASE TimeoutICA \/ RestoreInterchainAccount
    <2>1. Books' /\ UNCHANGED <<icq, host>>
      BY <1>12, ChannelBooks
    <2>2. responses' = responses
      BY <2>1 DEF icq
    <2> QED
      BY <2>1, <2>2, SameHost
  <1>13. CASE (\E a \in Addresses : QueryValidatorExchangeRate(a)) \/ EndBlocker
    <2>1. UNCHANGED <<vals, stakedBal, channel, responses, host>>
      BY <1>13 DEF QueryValidatorExchangeRate, EndBlocker
    <2> QED
      BY <2>1, SameBooks, SameHost
  <1>14. CASE \E q \in queries : ReadHost(q)
    BY <1>14, ReadBooks, SameBooks
  <1>15. CASE \E r \in responses, again \in BOOLEAN : SubmitQueryResponse(r, again)
    BY <1>15, SubmitBooks
  <1> QED
    BY <1>1, <1>3, <1>4, <1>5, <1>6, <1>7, <1>8, <1>9, <1>10, <1>11, <1>12, <1>13, <1>14, <1>15
       DEF Next

LEMMA BooksInvHolds == Spec => []BooksInv
  <1>1. Init => BooksInv
    BY InitialBooks DEF BooksInv
  <1>2. QueriesInv /\ BooksInv /\ [Next]_vars => BooksInv'
    BY BooksStep
  <1> QED
    BY <1>1, <1>2, QueriesInvHolds, PTL DEF Spec

\* The staked balance is the sum of the delegations the validators have on the
\* books, after any number of additions, removals, slashes and callbacks.
THEOREM StakedBalIsSumHolds == Spec => []StakedBalIsSum
  <1>1. BooksInv => StakedBalIsSum
    BY TotalIsSum DEF BooksInv, Books, StakedBalIsSum
  <1> QED
    BY <1>1, BooksInvHolds, PTL

\* Whatever the weights, and whatever was slashed and rounded before, the parts
\* of a delegation or an undelegation add up to the amount that was asked for.
THEOREM SplitsAddUpHolds == Spec => []SplitsAddUp
  <1>1. BooksInv => SplitsAddUp
    <2> SUFFICES ASSUME BooksInv, NEW i \in DOMAIN channel.pkts
                 PROVE  LET p == channel.pkts[i] IN
                        /\ \A m \in Range(p.moves) : m.amt >= 0
                        /\ p.kind = "delegate" => -Net(p.moves, Account) \in DepositAmounts
                        /\ p.kind = "undelegate" => Net(p.moves, Account) \in UnbondAmounts
      BY DEF SplitsAddUp, Range
    <2> DEFINE p == channel.pkts[i]
    <2>1. p \in Pkt /\ Shaped(p)
      <3>1. channel.pkts \in Seq(Pkt)
        BY DEF BooksInv, Books
      <3>2. \A j \in DOMAIN channel.pkts : Shaped(channel.pkts[j])
        BY DEF BooksInv, Books, Packets
      <3> QED
        BY <3>1, <3>2
    <2> HIDE DEF p
    <2>2. \A m \in Range(p.moves) : m.amt >= 0
      <3>1. \A j \in DOMAIN p.moves : p.moves[j] \in MoveSet
        BY <2>1, MoveFcnFacts DEF Pkt
      <3> QED
        BY <3>1 DEF Range, MoveSet
    <2> QED
      BY <2>1, <2>2 DEF Shaped, p
  <1> QED
    BY <1>1, BooksInvHolds, PTL

-----------------------------------------------------------------------------
(* Parts of an amount are not negative *)

LEMMA TargetsNat ==
    ASSUME NEW vs \in ValidatorList, NEW final \in Nat, CanSplit(vs, final), WeightSum(vs) < Uint64
    PROVE  \A a \in Registered(vs) : GetTargetValAmtsForHostZone(vs, final)[a] >= 0
  <1> DEFINE D == DOMAIN vs
             W == GetTotalValidatorWeight(vs)
             share == Share(vs, final)
             last == LastByWeight(vs)
             L == D \ {last}
             S == SumFunctionOnSet(share, L)
             w == WeightFcn(vs)
  <1>1. IsFiniteSet(D) /\ IsFiniteSet(L)
    BY ListFacts, FS_Subset DEF ValidatorList
  <1>2. W \in Nat \ {0} /\ W = SumFunctionOnSet(w, D) /\ \A i \in D : w[i] \in Nat /\ w[i] = vs[i].weight
    BY WeightNat DEF CanSplit
  <1>3. \A i \in D : share[i] \in Nat /\ W * share[i] <= final * w[i]
    <2> TAKE i \in D
    <2>1. share[i] = (vs[i].weight * final) \div W
      BY DEF Share
    <2> DEFINE x == w[i] * final
    <2>2. x \in Nat /\ share[i] = x \div W /\ x = final * w[i]
      BY <1>2, <2>1
    <2> HIDE DEF x, W, share, w
    <2> QED
      BY <1>2, <2>2, FloorLeq
  <1> DEFINE f == [i \in D |-> W * share[i]]
             g == [i \in D |-> final * w[i]]
  <1>4. \A i \in L : /\ share[i] \in Int /\ f[i] = W * share[i] /\ f[i] \in Int
                     /\ w[i] \in Int /\ g[i] = final * w[i] /\ g[i] \in Int /\ f[i] <= g[i]
    <2> TAKE i \in L
    <2>1. share[i] \in Int /\ w[i] \in Int /\ f[i] = W * share[i] /\ g[i] = final * w[i]
      BY <1>2, <1>3
    <2> HIDE DEF W, share, w, f, g
    <2>2. f[i] \in Int /\ g[i] \in Int
      BY <1>2, <2>1
    <2> QED
      BY <1>3, <2>1, <2>2
  <1> HIDE DEF f, g, W, share, w, L, D
  <1>5. SumFunctionOnSet(f, L) = W * S
    <2>1. W \in Int /\ \A i \in L : share[i] \in Int /\ f[i] = W * share[i]
      BY <1>2, <1>4
    <2> QED
      BY <1>1, <2>1, SumTimes
  <1>6. SumFunctionOnSet(g, L) = final * SumFunctionOnSet(w, L)
    <2>1. final \in Int /\ \A i \in L : w[i] \in Int /\ g[i] = final * w[i]
      BY <1>4
    <2> QED
      BY <1>1, <2>1, SumTimes
  <1>7. SumFunctionOnSet(f, L) <= SumFunctionOnSet(g, L)
    BY <1>1, <1>4, SumLeq
  <1>8. SumFunctionOnSet(w, L) <= W /\ SumFunctionOnSet(w, L) \in Nat
    <2>1. L \in SUBSET D
      BY DEF L
    <2>2. SumFunctionOnSet(w, L) <= SumFunctionOnSet(w, D)
      BY <1>1, <1>2, <2>1, SumSubset
    <2>3. \A i \in L : w[i] \in Nat
      BY <1>2, <2>1
    <2>4. SumFunctionOnSet(w, L) \in Nat
      BY <1>1, <2>3, SumNat
    <2> QED
      BY <1>2, <2>2, <2>4
  <1>9. S \in Int
    BY <1>1, <1>4, SumInt
  <1> DEFINE wl == SumFunctionOnSet(w, L)
  <1>10. final * wl <= final * W
    <2> HIDE DEF wl
    <2>1. wl \in Nat /\ wl <= W
      BY <1>8 DEF wl
    <2> QED
      BY <1>2, <2>1
  <1> HIDE DEF S, wl
  <1>11. S <= final
    <2>1. W * S <= final * wl
      BY <1>5, <1>6, <1>7 DEF S, wl
    <2>2. W * S \in Int /\ final * wl \in Int /\ final * W \in Int /\ final * W = W * final
      BY <1>2, <1>8, <1>9 DEF wl
    <2>3. W * S <= W * final
      BY <1>10, <2>1, <2>2
    <2> QED
      BY <1>2, <1>9, <2>3, TimesLeq
  <1> SUFFICES ASSUME NEW a \in Registered(vs)
               PROVE  GetTargetValAmtsForHostZone(vs, final)[a] >= 0
    OBVIOUS
  <1>12. GetTargetValAmtsForHostZone(vs, final)[a] = IF Index(vs, a) = last THEN final - S ELSE share[Index(vs, a)]
    BY DEF GetTargetValAmtsForHostZone, S, L, D, share
  <1>13. Index(vs, a) \in D
    BY IndexOf DEF D
  <1> QED
    BY <1>3, <1>9, <1>11, <1>12, <1>13

LEMMA UnbondingSplitNat ==
    ASSUME NEW vs \in ValidatorList, NEW total \in Nat, CanSplit(vs, total), WeightSum(vs) < Uint64,
           \A i \in DOMAIN vs : vs[i].amt >= 0
    PROVE  \A a \in Registered(vs) : UnbondingSplit(vs, total)[a] >= 0
  <1> DEFINE D == DOMAIN vs
             R == Registered(vs)
             target == GetTargetValAmtsForHostZone(vs, total)
             capped == CappedUnbondings(vs, target)
             room == [i \in D |-> vs[i].amt - capped[vs[i].addr]]
             overflow == total - SumFunction(capped)
             rest(i) == overflow - SumFunctionOnSet(room, {j \in D : Before(vs, j, i)})
             taken(i) == IF rest(i) <= 0 THEN 0
                         ELSE IF rest(i) > room[i] THEN room[i] ELSE rest(i)
  <1>1. \A a \in R : target[a] \in Nat
    <2>1. target \in [R -> Int]
      BY TargetsAddUp
    <2> QED
      BY <2>1, TargetsNat
  <1>2. \A a \in R : Val(vs, a).amt \in Nat
    BY IndexOf DEF Entry
  <1>3. \A a \in R : capped[a] \in Nat /\ capped[a] <= Val(vs, a).amt
    BY <1>1, <1>2 DEF CappedUnbondings
  <1>4. \A i \in D : vs[i].addr \in R /\ Val(vs, vs[i].addr) = vs[i]
    BY IndexOf
  <1>5. \A i \in D : room[i] \in Nat
    BY <1>2, <1>3, <1>4
  <1>6. UnbondingSplit(vs, total) = [a \in R |-> capped[a] + taken(Index(vs, a))]
    BY DEF UnbondingSplit
  <1>7. \A i \in D : taken(i) \in Nat
    <2> TAKE i \in D
    <2> DEFINE r == rest(i)
    <2>1. r \in Int
      <3> DEFINE B == {j \in D : Before(vs, j, i)}
                 b == SumFunctionOnSet(room, B)
      <3>1. IsFiniteSet(D) /\ IsFiniteSet(R) /\ IsFiniteSet(B)
        BY ListFacts, FS_Subset DEF ValidatorList
      <3>2. \A j \in B : room[j] \in Int
        BY <1>5
      <3>3. b \in Int
        <4> HIDE DEF B, room
        <4> QED
          BY <3>1, <3>2, SumInt
      <3>4. overflow \in Int
        <4>1. DOMAIN capped = R /\ \A a \in R : capped[a] \in Int
          BY <1>3 DEF CappedUnbondings
        <4> HIDE DEF capped, R
        <4>2. SumFunctionOnSet(capped, R) \in Int
          BY <3>1, <4>1, SumInt
        <4> QED
          BY <4>1, <4>2 DEF SumFunction
      <3>5. r = overflow - b
        OBVIOUS
      <3> HIDE DEF overflow, b, r
      <3> QED
        BY <3>3, <3>4, <3>5
    <2>2. taken(i) = IF r <= 0 THEN 0 ELSE IF r > room[i] THEN room[i] ELSE r
      OBVIOUS
    <2> HIDE DEF r, room, taken
    <2> QED
      BY <1>5, <2>1, <2>2
  <1> HIDE DEF capped, taken
  <1>8. ASSUME NEW a \in R PROVE capped[a] + taken(Index(vs, a)) >= 0
    <2>1. capped[a] \in Nat /\ taken(Index(vs, a)) \in Nat
      BY <1>3, <1>7, IndexOf
    <2> QED
      BY <2>1
  <1> QED
    BY <1>6, <1>8

\* A list that can be split without a negative part.
Sound(vs) == WeightSum(vs) < Uint64 /\ \A i \in DOMAIN vs : vs[i].amt >= 0

LEMMA SoundDelegations ==
    ASSUME vals \in ValidatorList, Sound(vals), NEW d \in DepositAmounts \cup {0}
    PROVE  ~Panics(Delegations(d))
  <1>1. CASE d = 0 \/ ~CanSplit(vals, d)
    <2>1. Delegations(d) = <<>> /\ DOMAIN <<>> = {}
      BY <1>1 DEF Delegations
    <2> QED
      BY <2>1 DEF Panics
  <1>2. CASE d # 0 /\ CanSplit(vals, d)
    <2> DEFINE R == Registered(vals)
               split == GetTargetValAmtsForHostZone(vals, d)
               p == Packet("delegate", DelegationMoves(split))
    <2>1. Delegations(d) = <<p>>
      BY <1>2 DEF Delegations
    <2>2. d \in Nat
      BY ValidatorsAssumption
    <2>3. split \in [R -> Int] /\ \A a \in R : split[a] >= 0
      BY <1>2, <2>2, TargetsAddUp, TargetsNat DEF Sound
    <2>4. p.moves = DelegationMoves(split)
      BY DEF Packet
    <2> HIDE DEF split, R
    <2>5. DOMAIN p.moves = R /\ \A a \in R : p.moves[a].amt = split[a]
      BY <2>3, <2>4 DEF DelegationMoves, Move
    <2> HIDE DEF p
    <2>6. \A j \in DOMAIN p.moves : ~(p.moves[j].amt < 0)
      BY <2>3, <2>5
    <2> QED
      BY <2>1, <2>6, OnePacket DEF Panics
  <1> QED
    BY <1>1, <1>2

LEMMA SoundUndelegations ==
    ASSUME vals \in ValidatorList, Sound(vals), NEW u \in UnbondAmounts \cup {0}
    PROVE  ~Panics(Undelegations(u))
  <1> DEFINE R == Registered(vals)
             split == UnbondingSplit(vals, u)
             p == Packet("undelegate", UndelegationMoves(split))
  <1>1. CASE Undelegations(u) = <<>>
    <2>1. DOMAIN <<>> = {}
      OBVIOUS
    <2> QED
      BY <1>1, <2>1 DEF Panics
  <1>2. CASE u # 0 /\ CanSplit(vals, u) /\ Undelegations(u) = <<p>>
    <2>1. u \in Nat
      BY ValidatorsAssumption
    <2>2. split \in [R -> Int] /\ \A a \in R : split[a] >= 0
      BY <1>2, <2>1, UnbondingSplitInt, UnbondingSplitNat DEF Sound
    <2>3. p.moves = UndelegationMoves(split)
      BY DEF Packet
    <2> HIDE DEF split, R
    <2>4. DOMAIN p.moves \subseteq R /\ \A a \in DOMAIN p.moves : p.moves[a].amt = split[a]
      BY <2>2, <2>3 DEF UndelegationMoves, Move
    <2> HIDE DEF p
    <2>5. \A j \in DOMAIN p.moves : ~(p.moves[j].amt < 0)
      BY <2>2, <2>4
    <2> QED
      BY <1>2, <2>5, OnePacket DEF Panics
  <1> QED
    BY <1>1, <1>2 DEF Undelegations

LEMMA SoundPackets ==
    ASSUME vals \in ValidatorList, Sound(vals),
           NEW d \in DepositAmounts \cup {0}, NEW u \in UnbondAmounts \cup {0}
    PROVE  ~Panics(Undelegations(u) \o Delegations(d))
  <1> DEFINE s == Undelegations(u)
             t == Delegations(d)
  <1>1. ~Panics(s) /\ ~Panics(t)
    BY SoundDelegations, SoundUndelegations
  <1>2. NewPackets(s) /\ NewPackets(t)
    BY <1>1, DelegationsOK, UndelegationsOK
  <1> HIDE DEF s, t
  <1>3. \A i \in DOMAIN (s \o t) : \/ i \in DOMAIN s /\ (s \o t)[i] = s[i]
                                   \/ \E j \in DOMAIN t : (s \o t)[i] = t[j]
    <2>1. s \in Seq(Pkt) /\ t \in Seq(Pkt)
      BY <1>2 DEF NewPackets, Packets
    <2> QED
      BY <2>1, ConcatEntries
  <1>4. ~Panics(s \o t)
    BY <1>1, <1>3 DEF Panics
  <1> QED
    BY <1>4 DEF s, t

LEMMA NotSound ==
    ASSUME NEW vs \in ValidatorList, ~Sound(vs)
    PROVE  WeightSum(vs) >= Uint64 \/ \E i \in DOMAIN vs : vs[i].amt < 0
  <1>1. WeightSum(vs) \in Nat
    BY WeightNat
  <1>2. \A i \in DOMAIN vs : vs[i].amt \in Int
    BY ListFacts DEF ValidatorList, Entry
  <1> QED
    BY <1>1, <1>2, ValidatorsAssumption DEF Sound

\* Only the epoch hooks halt the chain, and then nothing happens to the books.
LEMMA HaltSteps ==
    ASSUME [Next]_vars, phase' = "halted"
    PROVE  \/ phase = "halted" /\ vals' = vals
           \/ phase # "halted" /\ \E d \in DepositAmounts \cup {0}, u \in UnbondAmounts \cup {0} : BeginEpoch(d, u)
  <1>1. ASSUME NEW a, NEW w, AddValidatorToHostZone(a, w) PROVE FALSE
    BY <1>1 DEF AddValidatorToHostZone, Administer
  <1>2. ASSUME NEW a, AddValidators(a) \/ AddValidatorsProposal(a) PROVE FALSE
    BY <1>1, <1>2 DEF AddValidators, AddValidatorsProposal
  <1>3. ASSUME NEW a, NEW w, ChangeValidatorWeight(a, w) PROVE FALSE
    BY <1>3 DEF ChangeValidatorWeight, Administer
  <1>4. ASSUME NEW a, RemoveValidatorFromHostZone(a) PROVE FALSE
    BY <1>4 DEF RemoveValidatorFromHostZone, Administer
  <1>5. ASSUME NEW n, RebalanceValidators(n) PROVE FALSE
    BY <1>5 DEF RebalanceValidators, Administer
  <1>6. ASSUME NEW r, NEW again, SubmitQueryResponse(r, again) PROVE FALSE
    BY <1>6 DEF SubmitQueryResponse
  <1>7. ASSUME EnterBufferWindow \/ AcknowledgeICA \/ TimeoutICA \/ RestoreInterchainAccount \/ EndBlocker
        PROVE  FALSE
    BY <1>7 DEF EnterBufferWindow, AcknowledgeICA, TimeoutICA, RestoreInterchainAccount, EndBlocker
  <1>8. ASSUME NEW a, QueryValidatorExchangeRate(a) PROVE FALSE
    BY <1>8 DEF QueryValidatorExchangeRate
  <1>9. ASSUME NEW ok, ExecuteICA(ok) PROVE phase = "halted" /\ vals' = vals
    BY <1>9 DEF ExecuteICA
  <1>10. ASSUME NEW a, NEW f, Slash(a, f) PROVE phase = "halted" /\ vals' = vals
    BY <1>10 DEF Slash
  <1>11. ASSUME NEW q, ReadHost(q) PROVE phase = "halted" /\ vals' = vals
    BY <1>11 DEF ReadHost
  <1>12. ASSUME UNCHANGED vars PROVE phase = "halted" /\ vals' = vals
    BY <1>12 DEF vars
  <1>13. ASSUME NEW d, NEW u, BeginEpoch(d, u) PROVE phase # "halted"
    BY <1>13 DEF BeginEpoch
  <1> QED
    BY <1>2, <1>3, <1>4, <1>5, <1>6, <1>7, <1>8, <1>9, <1>10, <1>11, <1>12, <1>13 DEF Next

\* The epoch hooks stop the chain only when the weights overflow 64 bits or a
\* validator has a negative delegation on the books: rounding down leaves the
\* last validator at least its share, and what is taken from each validator is
\* at most what it has.
THEOREM HaltsOnlyOnOverflowHolds == Spec => []HaltsOnlyOnOverflow
  <1>1. Init => HaltsOnlyOnOverflow
    BY DEF Init, HaltsOnlyOnOverflow
  <1>2. BooksInv /\ BooksInv' /\ HaltsOnlyOnOverflow /\ [Next]_vars => HaltsOnlyOnOverflow'
    <2> SUFFICES ASSUME BooksInv, BooksInv', HaltsOnlyOnOverflow, [Next]_vars, phase' = "halted"
                 PROVE  WeightSum(vals') >= Uint64 \/ \E i \in DOMAIN vals' : vals'[i].amt < 0
      BY DEF HaltsOnlyOnOverflow
    <2>1. CASE phase = "halted" /\ vals' = vals
      BY <2>1 DEF HaltsOnlyOnOverflow
    <2>2. ASSUME NEW d \in DepositAmounts \cup {0}, NEW u \in UnbondAmounts \cup {0}, BeginEpoch(d, u)
          PROVE  WeightSum(vals') >= Uint64 \/ \E i \in DOMAIN vals' : vals'[i].amt < 0
      <3>1. vals \in ValidatorList /\ vals' \in ValidatorList
        BY DEF BooksInv, Books
      <3>2. Panics(Undelegations(u) \o Delegations(d))
        BY <2>2 DEF BeginEpoch
      <3>3. ~Sound(vals)
        BY <3>1, <3>2, SoundPackets
      <3>4. vals' = [i \in DOMAIN vals |-> [vals[i] EXCEPT !.fresh = FALSE]]
        BY <2>2 DEF BeginEpoch
      <3>5. \A i \in DOMAIN vals : vals[i] \in Entry
        BY <3>1, ListFacts DEF ValidatorList
      <3>6. /\ DOMAIN vals' = DOMAIN vals
            /\ \A i \in DOMAIN vals : vals'[i].weight = vals[i].weight /\ vals'[i].amt = vals[i].amt
        BY <3>4, <3>5 DEF Entry
      <3>7. WeightSum(vals') = WeightSum(vals)
        BY <3>6, Zenon DEF WeightSum
      <3>8. ~Sound(vals')
        BY <3>3, <3>6, <3>7 DEF Sound
      <3> QED
        BY <3>1, <3>8, NotSound
    <2> QED
      BY <2>1, <2>2, HaltSteps
  <1> QED
    BY <1>1, <1>2, BooksInvHolds, PTL DEF Spec

-----------------------------------------------------------------------------
(* What is exact: whole tokens at the rate of one to one *)

LEMMA TokensExact ==
    ASSUME NEW a, NEW n \in Int, shares[a] = NewDecFromInt(n), hostRate[a] = NewDecFromInt(1)
    PROVE  Tokens(a) = n
    BY MulExact, TruncateExact DEF Tokens

LEMMA NewDecSums ==
    ASSUME NEW m \in Int, NEW n \in Int
    PROVE  /\ NewDecFromInt(m) + NewDecFromInt(n) = NewDecFromInt(m + n)
           /\ -NewDecFromInt(n) = NewDecFromInt(-n)
           /\ NewDecFromInt(n) \in Int
           /\ n >= 0 <=> NewDecFromInt(n) >= 0
  <1>1. Precision \in Int /\ Precision > 0
    BY PrecisionAssumption
  <1>2. m * Precision + n * Precision = (m + n) * Precision
    BY <1>1
  <1>3. -(n * Precision) = (-n) * Precision
    BY <1>1
  <1>4. n * Precision \in Int
    BY <1>1
  <1>5. n >= 0 => n * Precision >= 0
    BY <1>1
  <1>6. n < 0 => n * Precision < 0
    BY <1>1
  <1> QED
    BY <1>2, <1>3, <1>4, <1>5, <1>6 DEF NewDecFromInt

\* The host exchanges whole tokens for as many shares.
LEMMA ExchangedExact ==
    ASSUME NEW a, NEW n \in Int, NEW net \in Int, n + net >= 0,
           shares[a] = NewDecFromInt(n), hostRate[a] = NewDecFromInt(1)
    PROVE  Exchanged(a, net) = NewDecFromInt(n + net)
  <1> DEFINE q == Quo(NewDecFromInt(Abs(net)), hostRate[a])
             c == -1
             x == Sign(net) * q
  <1>1. x = NewDecFromInt(net)
    <2>1. CASE net < 0
      <3>1. Sign(net) = c /\ Abs(net) = -net
        BY <2>1 DEF Sign, Abs
      <3>2. q = NewDecFromInt(-net) /\ q \in Int
        BY <3>1, QuoExact, NewDecSums
      <3>3. x = -q
        <4> HIDE DEF q
        <4> QED
          BY <3>1, <3>2
      <3>4. -NewDecFromInt(-net) = NewDecFromInt(net)
        <4> DEFINE k == -net
        <4>1. k \in Int /\ -k = net
          OBVIOUS
        <4> HIDE DEF k
        <4>2. -NewDecFromInt(k) = NewDecFromInt(-k)
          BY <4>1, NewDecSums
        <4> QED
          BY <4>1, <4>2 DEF k
      <3> HIDE DEF x, q
      <3> QED
        BY <3>2, <3>3, <3>4
    <2>2. CASE net >= 0
      <3>1. Sign(net) = 1 /\ Abs(net) = net
        BY <2>2 DEF Sign, Abs
      <3>2. q = NewDecFromInt(net) /\ q \in Int
        BY <3>1, QuoExact, NewDecSums
      <3> HIDE DEF q
      <3> QED
        BY <3>1, <3>2
    <2> QED
      BY <2>1, <2>2
  <1>2. Exchanged(a, net) = IF shares[a] + x < 0 THEN 0 ELSE shares[a] + x
    BY DEF Exchanged
  <1>3. shares[a] + x = NewDecFromInt(n + net) /\ NewDecFromInt(n + net) >= 0 /\ NewDecFromInt(n + net) \in Int
    <2> DEFINE k == n + net
    <2>1. k \in Int /\ k >= 0
      OBVIOUS
    <2> HIDE DEF x, k
    <2>2. NewDecFromInt(k) >= 0 /\ NewDecFromInt(k) \in Int
      BY <2>1, NewDecSums
    <2>3. NewDecFromInt(n) + NewDecFromInt(net) = NewDecFromInt(k)
      BY NewDecSums DEF k
    <2> QED
      BY <1>1, <2>2, <2>3 DEF k
  <1> HIDE DEF x
  <1> QED
    BY <1>2, <1>3

-----------------------------------------------------------------------------
(* The books and what the host has executed *)

\* The delegation of an address on the books.
Amount(vs, a) == IF a \in Registered(vs) THEN Val(vs, a).amt ELSE 0

LEMMA AmountInt ==
    ASSUME NEW vs \in ValidatorList, NEW a
    PROVE  Amount(vs, a) \in Int /\ \A i \in DOMAIN vs : Amount(vs, vs[i].addr) = vs[i].amt
  <1>1. a \in Registered(vs) => Val(vs, a).amt \in Int
    BY IndexOf DEF Entry
  <1>2. ASSUME NEW i \in DOMAIN vs PROVE Amount(vs, vs[i].addr) = vs[i].amt
    <2>1. vs[i].addr \in Registered(vs) /\ Val(vs, vs[i].addr) = vs[Index(vs, vs[i].addr)]
          /\ Index(vs, vs[i].addr) = i
      BY IndexOf
    <2> QED
      BY <2>1 DEF Amount
  <1> QED
    BY <1>1, <1>2 DEF Amount

\* Entries that come or go with a delegation of nothing.
LEMMA SameAmount ==
    ASSUME NEW vs \in ValidatorList, NEW ws \in ValidatorList, NEW a,
           \A i \in DOMAIN vs : vs[i].addr = a =>
              vs[i].amt = 0 \/ \E j \in DOMAIN ws : ws[j].addr = a /\ ws[j].amt = vs[i].amt,
           \A j \in DOMAIN ws : ws[j].addr = a =>
              ws[j].amt = 0 \/ \E i \in DOMAIN vs : vs[i].addr = a /\ vs[i].amt = ws[j].amt
    PROVE  Amount(ws, a) = Amount(vs, a)
  <1>1. \A i \in DOMAIN vs : Amount(vs, vs[i].addr) = vs[i].amt
    BY AmountInt
  <1>2. \A j \in DOMAIN ws : Amount(ws, ws[j].addr) = ws[j].amt
    BY AmountInt
  <1>3. CASE a \in Registered(vs)
    <2>1. PICK i \in DOMAIN vs : vs[i].addr = a
      BY <1>3 DEF Registered
    <2>2. CASE a \in Registered(ws)
      <3>1. PICK j \in DOMAIN ws : ws[j].addr = a
        BY <2>2 DEF Registered
      <3>2. \/ vs[i].amt = 0 \/ \E k \in DOMAIN ws : ws[k].addr = a /\ ws[k].amt = vs[i].amt
        BY <2>1
      <3>3. \/ ws[j].amt = 0 \/ \E k \in DOMAIN vs : vs[k].addr = a /\ vs[k].amt = ws[j].amt
        BY <3>1
      <3> QED
        BY <1>1, <1>2, <2>1, <3>1, <3>2, <3>3
    <2>3. CASE a \notin Registered(ws)
      <3>1. \A k \in DOMAIN ws : ws[k].addr # a
        BY <2>3 DEF Registered
      <3>2. vs[i].amt = 0
        BY <2>1, <3>1
      <3> QED
        BY <1>1, <2>1, <2>3, <3>2 DEF Amount
    <2> QED
      BY <2>2, <2>3
  <1>4. CASE a \notin Registered(vs)
    <2>1. \A k \in DOMAIN vs : vs[k].addr # a
      BY <1>4 DEF Registered
    <2>2. CASE a \in Registered(ws)
      <3>1. PICK j \in DOMAIN ws : ws[j].addr = a
        BY <2>2 DEF Registered
      <3>2. ws[j].amt = 0
        BY <2>1, <3>1
      <3> QED
        BY <1>2, <1>4, <3>1, <3>2 DEF Amount
    <2> QED
      BY <1>4, <2>2 DEF Amount
  <1> QED
    BY <1>3, <1>4

\* The administrator changes no delegation.
LEMMA AdministeredAmounts ==
    ASSUME Books, NEW b,
           \/ \E a \in Addresses, w \in Nat : AddValidatorToHostZone(a, w)
           \/ \E a \in Addresses, w \in Nat : ChangeValidatorWeight(a, w)
           \/ \E a \in Addresses : RemoveValidatorFromHostZone(a)
    PROVE  Amount(vals', b) = Amount(vals, b)
  <1>1. vals \in ValidatorList /\ vals \in Seq(Entry)
    BY DEF Books, ValidatorList
  <1>2. ASSUME NEW a \in Addresses, NEW w \in Nat, AddValidatorToHostZone(a, w)
        PROVE  Amount(vals', b) = Amount(vals, b)
    <2> DEFINE v == NewValidator(a, w, 0)
    <2>1. vals' = Append(vals, v)
      BY <1>2 DEF AddValidatorToHostZone
    <2>2. v \in Entry /\ v.addr = a /\ v.amt = 0
      BY DEF NewValidator, Entry
    <2> HIDE DEF v
    <2>3. vals' \in ValidatorList
      BY <1>2, AddBooks DEF Books
    <2>4. /\ DOMAIN vals = 1..Len(vals) /\ Len(vals) \in Nat /\ DOMAIN vals' = 1..Len(vals) + 1
          /\ \A i \in DOMAIN vals : vals'[i] = vals[i]
          /\ vals'[Len(vals) + 1] = v
      <3>1. Len(Append(vals, v)) = Len(vals) + 1
        BY <1>1, <2>2
      <3>2. Append(vals, v) \in Seq(Entry)
        BY <1>1, <2>2
      <3>3. DOMAIN Append(vals, v) = 1..Len(vals) + 1
        BY <3>1, <3>2
      <3>4. DOMAIN vals = 1..Len(vals) /\ Len(vals) \in Nat
        BY <1>1
      <3>5. \A i \in 1..Len(vals) + 1 : Append(vals, v)[i] = IF i <= Len(vals) THEN vals[i] ELSE v
        BY <1>1, <2>2
      <3>6. ~(Len(vals) + 1 <= Len(vals)) /\ Len(vals) + 1 \in 1..Len(vals) + 1
        BY <3>4
      <3> QED
        BY <2>1, <3>3, <3>4, <3>5, <3>6
    <2>5. \A i \in DOMAIN vals : i \in DOMAIN vals'
      BY <2>4
    <2>6. \A j \in DOMAIN vals' : j \in DOMAIN vals \/ j = Len(vals) + 1
      BY <2>4
    <2>7. \A i \in DOMAIN vals : vals[i].addr = b =>
              vals[i].amt = 0 \/ \E j \in DOMAIN vals' : vals'[j].addr = b /\ vals'[j].amt = vals[i].amt
      BY <2>4, <2>5
    <2>8. \A j \in DOMAIN vals' : vals'[j].addr = b =>
              vals'[j].amt = 0 \/ \E i \in DOMAIN vals : vals[i].addr = b /\ vals[i].amt = vals'[j].amt
      BY <2>2, <2>4, <2>6
    <2> QED
      BY <1>1, <2>3, <2>7, <2>8, SameAmount
  <1>3. ASSUME NEW a \in Addresses, NEW w \in Nat, ChangeValidatorWeight(a, w)
        PROVE  Amount(vals', b) = Amount(vals, b)
    BY <1>3, WeightBooks DEF Amount
  <1>4. ASSUME NEW a \in Addresses, RemoveValidatorFromHostZone(a)
        PROVE  Amount(vals', b) = Amount(vals, b)
    <2> DEFINE k == Index(vals, a)
    <2>1. a \in Registered(vals) /\ Val(vals, a).amt = 0 /\ vals' = RemoveAt(vals, k)
      BY <1>4 DEF RemoveValidatorFromHostZone
    <2>2. k \in DOMAIN vals /\ vals[k].amt = 0
      BY <1>1, <2>1, IndexOf
    <2> HIDE DEF k
    <2>3. vals' \in ValidatorList
      BY <1>4, RemoveBooks DEF Books
    <2>4. /\ DOMAIN vals = 1..Len(vals) /\ Len(vals) \in Nat /\ DOMAIN vals' = 1..Len(vals) - 1
          /\ \A i \in 1..Len(vals) - 1 : vals'[i] = IF i < k THEN vals[i] ELSE vals[i + 1]
      BY <1>1, <2>1, <2>2, RemoveAtEntries
    <2>5. \A j \in DOMAIN vals' : \E i \in DOMAIN vals : vals'[j] = vals[i]
      <3> TAKE j \in DOMAIN vals'
      <3>1. j \in DOMAIN vals /\ j + 1 \in DOMAIN vals
        BY <2>4
      <3> QED
        BY <2>4, <3>1
    <2>6. \A i \in DOMAIN vals \ {k} : \E j \in DOMAIN vals' : vals'[j] = vals[i]
      <3> TAKE i \in DOMAIN vals \ {k}
      <3>1. CASE i < k
        <4>1. i \in DOMAIN vals'
          BY <2>2, <2>4, <3>1
        <4> QED
          BY <2>4, <3>1, <4>1
      <3>2. CASE i > k
        <4>1. i - 1 \in DOMAIN vals' /\ ~(i - 1 < k) /\ i - 1 + 1 = i
          BY <2>2, <2>4, <3>2
        <4>2. vals'[i - 1] = vals[i - 1 + 1]
          BY <2>4, <4>1
        <4> QED
          BY <4>1, <4>2
      <3> QED
        BY <2>2, <2>4, <3>1, <3>2
    <2>7. \A i \in DOMAIN vals : vals[i].addr = b =>
              vals[i].amt = 0 \/ \E j \in DOMAIN vals' : vals'[j].addr = b /\ vals'[j].amt = vals[i].amt
      BY <2>2, <2>6
    <2>8. \A j \in DOMAIN vals' : vals'[j].addr = b =>
              vals'[j].amt = 0 \/ \E i \in DOMAIN vals : vals[i].addr = b /\ vals[i].amt = vals'[j].amt
      BY <2>5
    <2> QED
      BY <1>1, <2>3, <2>7, <2>8, SameAmount
  <1> QED
    BY <1>2, <1>3, <1>4

\* What the acknowledgement of each packet will add to the delegation of a, and
\* that of the first k packets together.
Owed(s, a) == [i \in DOMAIN s |-> IF s[i].status = "ok" THEN Net(s[i].moves, a) ELSE 0]
After(s, k, a) == SumFunctionOnSet(Owed(s, a), 1..k)

LEMMA PacketFacts ==
    ASSUME NEW s, Packets(s)
    PROVE  /\ DOMAIN s = 1..Len(s) /\ Len(s) \in Nat
           /\ \A i \in DOMAIN s : s[i] \in Pkt /\ Shaped(s[i]) /\ MovesOK(s[i].moves)
           /\ \A i \in DOMAIN s : \A x : Net(s[i].moves, x) \in Int
  <1>1. s \in Seq(Pkt)
    BY DEF Packets
  <1>2. DOMAIN s = 1..Len(s) /\ Len(s) \in Nat /\ \A i \in DOMAIN s : s[i] \in Pkt
    BY <1>1
  <1>3. \A i \in DOMAIN s : Shaped(s[i]) /\ MovesOK(s[i].moves)
    BY <1>2, MoveFcnFacts DEF Packets, Pkt
  <1>4. \A i \in DOMAIN s : \A x : Net(s[i].moves, x) \in Int
    BY <1>3, NetInt
  <1> QED
    BY <1>2, <1>3, <1>4

LEMMA OwedInt ==
    ASSUME NEW s, Packets(s), NEW a
    PROVE  /\ \A i \in DOMAIN s : /\ Owed(s, a)[i] \in Int
                                  /\ Owed(s, a)[i] = IF s[i].status = "ok" THEN Net(s[i].moves, a) ELSE 0
           /\ \A k \in 0..Len(s) : 1..k \subseteq DOMAIN s /\ IsFiniteSet(1..k) /\ After(s, k, a) \in Int
           /\ After(s, 0, a) = 0
           /\ \A k \in 1..Len(s) : After(s, k, a) = After(s, k - 1, a) + Owed(s, a)[k]
  <1> DEFINE f == Owed(s, a)
  <1>1. DOMAIN s = 1..Len(s) /\ Len(s) \in Nat
    BY PacketFacts
  <1>2. \A i \in DOMAIN s : f[i] \in Int /\ f[i] = IF s[i].status = "ok" THEN Net(s[i].moves, a) ELSE 0
    BY PacketFacts DEF Owed
  <1> HIDE DEF f
  <1>3. ASSUME NEW k \in 0..Len(s)
        PROVE  1..k \subseteq DOMAIN s /\ IsFiniteSet(1..k) /\ SumFunctionOnSet(f, 1..k) \in Int
    <2>1. 1..k \subseteq DOMAIN s
      BY <1>1
    <2>2. IsFiniteSet(1..k)
      BY <1>1, FS_Interval
    <2>3. \A i \in 1..k : f[i] \in Int
      BY <1>2, <2>1
    <2> QED
      BY <2>1, <2>2, <2>3, SumInt
  <1>4. SumFunctionOnSet(f, 1..0) = 0
    <2>1. 1..0 = {}
      OBVIOUS
    <2> QED
      BY <2>1, SumEmpty
  <1>5. ASSUME NEW k \in 1..Len(s)
        PROVE  SumFunctionOnSet(f, 1..k) = SumFunctionOnSet(f, 1..k - 1) + f[k]
    <2> DEFINE S == 1..k - 1
    <2>1. S \cup {k} = 1..k /\ k \notin S /\ k \in DOMAIN s
      BY <1>1
    <2>2. k - 1 \in 0..Len(s)
      BY <1>1
    <2>3. IsFiniteSet(S) /\ (\A i \in S : f[i] \in Int) /\ f[k] \in Int
      BY <1>2, <1>3, <2>1, <2>2
    <2>4. SumFunctionOnSet(f, S) \in Int
      BY <1>3, <2>2
    <2> HIDE DEF S
    <2>5. SumFunctionOnSet(f, S \cup {k}) = f[k] + SumFunctionOnSet(f, S)
      BY <2>1, <2>3, SumAdd
    <2>6. SumFunctionOnSet(f, S \cup {k}) = SumFunctionOnSet(f, S) + f[k]
      BY <2>3, <2>4, <2>5
    <2> QED
      BY <2>1, <2>6 DEF S
  <1> QED
    BY <1>2, <1>3, <1>4, <1>5 DEF After, f

\* Packets that add the same.
LEMMA AfterSame ==
    ASSUME NEW s, NEW t, Packets(s), Packets(t), NEW a, NEW k \in Nat, k <= Len(s), k <= Len(t),
           \A i \in 1..k : Owed(s, a)[i] = Owed(t, a)[i]
    PROVE  After(s, k, a) = After(t, k, a)
  <1>1. IsFiniteSet(1..k)
    BY FS_Interval
  <1> QED
    BY <1>1, SumSame DEF After

\* Packets that have not been executed add nothing.
LEMMA AfterPending ==
    ASSUME NEW s, Packets(s), NEW a, NEW n \in 0..Len(s), NEW k \in n..Len(s),
           \A i \in n + 1..k : s[i].status # "ok"
    PROVE  After(s, k, a) = After(s, n, a)
  <1> DEFINE f == Owed(s, a)
             S == 1..k
             T == 1..n
  <1>1. Len(s) \in Nat /\ DOMAIN s = 1..Len(s)
    BY PacketFacts
  <1>2. k \in 0..Len(s)
    BY <1>1
  <1>3. IsFiniteSet(S) /\ T \in SUBSET S
    BY <1>1, <1>2, OwedInt
  <1>4. \A i \in S : f[i] \in Int /\ f[i] = IF s[i].status = "ok" THEN Net(s[i].moves, a) ELSE 0
    BY <1>1, OwedInt
  <1>5. \A i \in S \ T : i \in n + 1..k
    BY <1>1
  <1>6. \A i \in S \ T : f[i] = 0
    BY <1>4, <1>5
  <1>7. \A i \in T : f[i] = f[i] /\ f[i] \in Int
    BY <1>3, <1>4
  <1> HIDE DEF f, S, T
  <1>8. SumFunctionOnSet(f, T) = SumFunctionOnSet(f, S)
    BY ONLY <1>3, <1>6, <1>7, SumRestrict
  <1> QED
    BY <1>8 DEF After, f, S, T

\* The packets without the first add as much less.
LEMMA AfterTail ==
    ASSUME NEW s, NEW t, Packets(s), Packets(t), Len(s) # 0, Len(t) = Len(s) - 1,
           \A i \in DOMAIN t : t[i] = s[i + 1],
           NEW a, NEW k \in 0..Len(t)
    PROVE  After(s, k + 1, a) = Owed(s, a)[1] + After(t, k, a)
  <1> DEFINE f == Owed(t, a)
             g == Owed(s, a)
             h == [i \in 1..k |-> i + 1]
             S == 1..k
             T == {h[i] : i \in S}
  <1>1. Len(s) \in Nat /\ DOMAIN s = 1..Len(s) /\ DOMAIN t = 1..Len(s) - 1
    BY PacketFacts
  <1>2. k \in Nat /\ k + 1 \in 0..Len(s) /\ IsFiniteSet(S)
    BY <1>1, FS_Interval
  <1>3. \A i \in S : h[i] = i + 1 /\ i \in DOMAIN t /\ i + 1 \in DOMAIN s
    BY <1>1
  <1>4. \A i \in S : f[i] = g[h[i]] /\ f[i] \in Int
    <2> TAKE i \in S
    <2>1. f[i] \in Int /\ f[i] = IF t[i].status = "ok" THEN Net(t[i].moves, a) ELSE 0
      BY <1>3, OwedInt
    <2>2. g[i + 1] = IF s[i + 1].status = "ok" THEN Net(s[i + 1].moves, a) ELSE 0
      <3> DEFINE j == i + 1
      <3>1. j \in DOMAIN s
        BY <1>3
      <3> HIDE DEF j
      <3>2. g[j] = IF s[j].status = "ok" THEN Net(s[j].moves, a) ELSE 0
        BY <3>1, OwedInt
      <3> QED
        BY <3>2 DEF j
    <2>3. t[i] = s[i + 1] /\ h[i] = i + 1
      BY <1>3
    <2> HIDE DEF f, g, h
    <2> QED
      BY <2>1, <2>2, <2>3
  <1>5. \A i, j \in S : h[i] = h[j] => i = j
    BY <1>3
  <1>6. T = 1..k + 1 \ {1}
    <2>1. \A j \in T : j \in 1..k + 1 \ {1}
      BY <1>2, <1>3
    <2>2. \A j \in 1..k + 1 \ {1} : j - 1 \in S /\ h[j - 1] = j
      BY <1>2
    <2> HIDE DEF h, S
    <2> QED
      BY <2>1, <2>2
  <1>7. IsFiniteSet(1..k + 1) /\ (\A j \in 1..k + 1 : g[j] \in Int) /\ 1 \in 1..k + 1
    <2>1. 1..k + 1 \subseteq DOMAIN s /\ IsFiniteSet(1..k + 1)
      BY <1>2, OwedInt
    <2>2. \A j \in 1..k + 1 : g[j] \in Int
      BY <2>1, OwedInt
    <2>3. 1 \in 1..k + 1
      BY <1>2
    <2> QED
      BY <2>1, <2>2, <2>3
  <1> HIDE DEF f, g, h, S
  <1>8. SumFunctionOnSet(f, S) = SumFunctionOnSet(g, T)
    BY <1>2, <1>4, <1>5, SumReindex
  <1>9. SumFunctionOnSet(g, 1..k + 1) = g[1] + SumFunctionOnSet(g, 1..k + 1 \ {1})
    BY <1>7, SumRemove
  <1> QED
    BY <1>6, <1>8, <1>9 DEF After, f, g, S

\* A packet that does not touch a validator moves none of its stake.
LEMMA UntouchedNet ==
    ASSUME NEW p \in Pkt, NEW a, a \notin Touched(p)
    PROVE  Net(p.moves, a) = 0
  <1>1. MovesOK(p.moves)
    BY MoveFcnFacts DEF Pkt
  <1>2. \A i \in DOMAIN p.moves : p.moves[i].src # a /\ p.moves[i].dst # a
    BY DEF Touched
  <1>3. \A i \in DOMAIN p.moves : Delta(p.moves, a)[i] = 0
    BY <1>2 DEF Delta
  <1> QED
    BY <1>1, <1>3, NetIsSum, SumZero DEF NetOf, MovesOK

\* The host never moves stake that is not there: after every move, and so after
\* all of them, a validator has at least nothing.
LEMMA FeasibleStays ==
    ASSUME NEW p \in Pkt, Feasible(p), NEW a \in Addresses, Tokens(a) \in Nat
    PROVE  Tokens(a) + Net(p.moves, a) >= 0
  <1> DEFINE moves == p.moves
             D == DOMAIN moves
             S == {i \in D : moves[i].src = a}
             f == Delta(moves, a)
             R == {ij \in D \X D : ij[1] < ij[2]}
  <1>1. MovesOK(moves) /\ D \subseteq Nat /\ \A i \in D : moves[i] \in MoveSet
    BY MoveFcnFacts DEF Pkt
  <1>2. IsFiniteSet(D) /\ IsFiniteSet(S)
    BY <1>1, FS_Subset DEF MovesOK
  <1>3. \A i \in D : f[i] \in Int /\ (i \notin S => f[i] \in Nat) /\ f[i] >= -moves[i].amt /\ moves[i].amt \in Nat
    <2> TAKE i \in D
    <2>1. moves[i].amt \in Nat
      BY <1>1 DEF MoveSet
    <2>2. f[i] = (IF moves[i].dst = a THEN moves[i].amt ELSE 0) - (IF moves[i].src = a THEN moves[i].amt ELSE 0)
      BY DEF Delta
    <2> HIDE DEF f
    <2> QED
      BY <2>1, <2>2
  <1>4. Net(moves, a) = SumFunctionOnSet(f, D)
    BY NetIsSum DEF NetOf
  <1>5. CASE S = {}
    <2>1. \A i \in D : f[i] \in Nat
      BY <1>3, <1>5
    <2> HIDE DEF f, D
    <2>2. SumFunctionOnSet(f, D) \in Nat
      BY <1>2, <2>1, SumNat
    <2> QED
      BY <1>4, <2>2
  <1>6. CASE S # {}
    <2>1. PICK i \in S : \A j \in S \ {i} : j < i
      <3>1. \A x, y \in S : x # y => <<x, y>> \in R \/ <<y, x>> \in R
        BY <1>1
      <3>2. \A x, y, z \in S : <<x, y>> \in R /\ <<y, z>> \in R => <<x, z>> \in R
        BY <1>1
      <3>3. S # {}
        BY <1>6
      <3>4. IsFiniteSet(S)
        BY <1>2
      <3>5. \E x \in S : \A y \in S \ {x} : <<y, x>> \in R
        <4> HIDE DEF S, R
        <4> QED
          BY ONLY <3>1, <3>2, <3>3, <3>4, LastOfFinite
      <3> QED
        BY <3>5
    <2> DEFINE B == {j \in D : j < i}
               C == {j \in D : j > i}
               b == SumFunctionOnSet(f, B)
               c == SumFunctionOnSet(f, C)
    <2>2. i \in D /\ moves[i].src = a /\ i \in Nat
      BY <1>1, <2>1
    <2>3. IsFiniteSet(B) /\ IsFiniteSet(C) /\ IsFiniteSet(B \cup {i}) /\ B \cap C = {}
          /\ (B \cup {i}) \cap C = {} /\ i \notin B /\ D = (B \cup {i}) \cup C
      <3>1. IsFiniteSet(B) /\ IsFiniteSet(C) /\ IsFiniteSet(B \cup {i})
        BY <1>2, FS_Subset, FS_AddElement
      <3>2. B \cap C = {} /\ (B \cup {i}) \cap C = {} /\ i \notin B
        BY <1>1, <2>2
      <3>3. \A j \in D : j < i \/ j = i \/ j > i
        BY <1>1, <2>2
      <3>4. D = (B \cup {i}) \cup C
        BY <2>2, <3>3
      <3> QED
        BY <3>1, <3>2, <3>4
    <2>4. \A j \in C : j \notin S
      BY <1>1, <2>1, <2>2
    <2>5. moves[i].amt <= Tokens(a) + b
      <3> DEFINE P == {j \in DOMAIN p.moves : j < i}
                 g == Restrict(p.moves, P)
      <3>1. a # Account
        BY ValidatorsAssumption DEF Account
      <3>2. moves[i].amt <= Tokens(moves[i].src) + Net(g, moves[i].src)
        BY <2>2, <3>1 DEF Feasible
      <3>3. DOMAIN g = B /\ \A j \in B : g[j] = moves[j]
        BY DEF Restrict
      <3> HIDE DEF g
      <3>4. Net(g, a) = SumFunctionOnSet(Delta(g, a), B)
        BY <3>3, NetIsSum DEF NetOf
      <3>5. \A j \in B : Delta(g, a)[j] = f[j]
        BY <3>3 DEF Delta
      <3>6. SumFunctionOnSet(Delta(g, a), B) = b
        <4> HIDE DEF B, f
        <4> QED
          BY <2>3, <3>5, SumSame
      <3> QED
        BY <2>2, <3>2, <3>4, <3>6
    <2>6. \A j \in B : f[j] \in Int
      BY <1>3
    <2>7. \A j \in C : f[j] \in Nat
      BY <1>3, <2>4
    <2>8. f[i] \in Int /\ f[i] >= -moves[i].amt /\ moves[i].amt \in Nat
      BY <1>3, <2>2
    <2> HIDE DEF f, B, C, D, S, moves
    <2>9. b \in Int /\ c \in Nat
      BY <2>3, <2>6, <2>7, SumInt, SumNat
    <2>10. SumFunctionOnSet(f, B \cup {i}) = f[i] + b
      BY <2>3, <2>6, <2>8, SumAdd
    <2>11. SumFunctionOnSet(f, (B \cup {i}) \cup C) = SumFunctionOnSet(f, B \cup {i}) + c
      <3> DEFINE A == B \cup {i}
      <3>1. IsFiniteSet(A) /\ IsFiniteSet(C) /\ A \cap C = {}
        BY <2>3
      <3>2. \A j \in A \cup C : f[j] \in Int
        BY <2>6, <2>7, <2>8
      <3> HIDE DEF A
      <3> QED
        BY <3>1, <3>2, SumUnion DEF A
    <2>12. Net(moves, a) = f[i] + b + c
      BY <1>4, <2>3, <2>10, <2>11
    <2> HIDE DEF b, c
    <2>13. Tokens(a) + Net(moves, a) >= 0
      BY <2>5, <2>8, <2>9, <2>12
    <2> QED
      BY <2>13 DEF moves
  <1> QED
    BY <1>5, <1>6

-----------------------------------------------------------------------------
(* The ledger: an address that is not tainted has on the host, one to one,   *)
(* what the books say once all that was executed is acknowledged, and none   *)
(* of the acknowledgements takes it below nothing.                           *)

LedgerOf(a) ==
    /\ hostRate[a] = NewDecFromInt(1)
    /\ shares[a] = NewDecFromInt(Amount(vals, a) + After(channel.pkts, Len(channel.pkts), a))
    /\ \A k \in 0..Len(channel.pkts) : Amount(vals, a) + After(channel.pkts, k, a) >= 0

\* The host executes the packets in the order they were sent in.
InOrder ==
    \A i, j \in DOMAIN channel.pkts :
      i < j /\ channel.pkts[i].status = "sent" => channel.pkts[j].status = "sent"

LedgerInv == InOrder /\ \A a \in Addresses \ tainted : LedgerOf(a)

LEMMA SameLedger ==
    ASSUME NEW a, LedgerOf(a), hostRate'[a] = hostRate[a], shares'[a] = shares[a],
           channel'.pkts = channel.pkts, Amount(vals', a) = Amount(vals, a)
    PROVE  LedgerOf(a)'
    BY DEF LedgerOf

LEMMA GrowLedger ==
    ASSUME Books, Books', NEW a, LedgerOf(a), hostRate'[a] = hostRate[a], shares'[a] = shares[a],
           Amount(vals', a) = Amount(vals, a),
           NEW new, NewPackets(new), channel'.pkts = channel.pkts \o new
    PROVE  LedgerOf(a)'
  <1> DEFINE s == channel.pkts
             t == channel'.pkts
             A == Amount(vals, a)
  <1>1. Packets(s) /\ Packets(t)
    BY DEF Books
  <1>2. /\ DOMAIN s = 1..Len(s) /\ Len(s) \in Nat /\ DOMAIN t = 1..Len(t) /\ Len(t) \in Nat
        /\ DOMAIN new = 1..Len(new) /\ Len(new) \in Nat
    BY <1>1, PacketFacts DEF NewPackets
  <1>3. /\ Len(t) = Len(s) + Len(new) /\ \A i \in DOMAIN s : t[i] = s[i]
        /\ \A i \in DOMAIN new : t[Len(s) + i] = new[i]
    BY <1>1, ConcatEntries DEF NewPackets, Packets
  <1>4. \A i \in Len(s) + 1..Len(t) : t[i].status # "ok"
    <2> TAKE i \in Len(s) + 1..Len(t)
    <2>1. i - Len(s) \in DOMAIN new /\ Len(s) + (i - Len(s)) = i
      BY <1>2, <1>3
    <2>2. t[i] = new[i - Len(s)]
      BY <1>3, <2>1
    <2> QED
      BY <2>1, <2>2 DEF NewPackets
  <1> HIDE DEF s, t
  <1>5. \A i \in DOMAIN s : Owed(s, a)[i] = Owed(t, a)[i]
    <2> TAKE i \in DOMAIN s
    <2>1. i \in DOMAIN t /\ t[i] = s[i]
      BY <1>2, <1>3
    <2> QED
      BY <2>1 DEF Owed
  <1>6. \A k \in 0..Len(s) : After(t, k, a) = After(s, k, a)
    <2> TAKE k \in 0..Len(s)
    <2>1. k \in Nat /\ k <= Len(s) /\ k <= Len(t) /\ \A i \in 1..k : i \in DOMAIN s
      BY <1>2, <1>3
    <2> QED
      BY <1>1, <1>5, <2>1, AfterSame
  <1>7. \A k \in Len(s)..Len(t) : After(t, k, a) = After(t, Len(s), a)
    <2> TAKE k \in Len(s)..Len(t)
    <2> DEFINE n == Len(s)
    <2>1. n \in 0..Len(t) /\ k \in n..Len(t) /\ \A i \in n + 1..k : i \in n + 1..Len(t)
      BY <1>2, <1>3
    <2>2. \A i \in n + 1..k : t[i].status # "ok"
      BY <1>4, <2>1
    <2> HIDE DEF n
    <2> QED
      BY <1>1, <2>1, <2>2, AfterPending DEF n
  <1>8. After(t, Len(t), a) = After(s, Len(s), a)
    BY <1>2, <1>3, <1>6, <1>7
  <1>9. \A k \in 0..Len(t) : A + After(t, k, a) >= 0
    <2> TAKE k \in 0..Len(t)
    <2>1. \A j \in 0..Len(s) : A + After(s, j, a) >= 0
      BY DEF LedgerOf, s
    <2>2. CASE k <= Len(s)
      BY <1>2, <1>6, <2>1, <2>2
    <2>3. CASE k >= Len(s)
      <3>1. After(t, k, a) = After(s, Len(s), a)
        BY <1>2, <1>6, <1>7, <2>3
      <3>2. Len(s) \in 0..Len(s)
        BY <1>2
      <3> QED
        BY <2>1, <3>1, <3>2
    <2> QED
      BY <1>2, <2>2, <2>3
  <1>10. shares'[a] = NewDecFromInt(A + After(t, Len(t), a))
    BY <1>8 DEF LedgerOf, s
  <1>11. hostRate'[a] = NewDecFromInt(1)
    BY DEF LedgerOf
  <1> QED
    BY <1>9, <1>10, <1>11 DEF LedgerOf, s, t

LEMMA GrowInOrder ==
    ASSUME Books, InOrder, NEW new, NewPackets(new), channel'.pkts = channel.pkts \o new
    PROVE  InOrder'
  <1> DEFINE s == channel.pkts
             t == channel'.pkts
  <1>1. s \in Seq(Pkt) /\ new \in Seq(Pkt) /\ \A i \in DOMAIN new : new[i].status = "sent"
    BY DEF Books, NewPackets, Packets
  <1>2. /\ \A i \in DOMAIN s : t[i] = s[i]
        /\ \A i \in DOMAIN new : t[Len(s) + i] = new[i]
        /\ \A i \in DOMAIN t : i \in DOMAIN s \/ \E j \in DOMAIN new : i = Len(s) + j
    BY <1>1, ConcatEntries
  <1>3. DOMAIN s = 1..Len(s) /\ Len(s) \in Nat /\ DOMAIN new = 1..Len(new) /\ Len(new) \in Nat
    BY <1>1
  <1> SUFFICES ASSUME NEW i \in DOMAIN t, NEW j \in DOMAIN t, i < j, t[i].status = "sent"
               PROVE  t[j].status = "sent"
    BY DEF InOrder
  <1>4. CASE j \in DOMAIN s
    <2>1. i \in DOMAIN s
      BY <1>2, <1>3, <1>4
    <2> QED
      BY <1>2, <1>4, <2>1 DEF InOrder
  <1>5. CASE j \notin DOMAIN s
    BY <1>1, <1>2, <1>5
  <1> QED
    BY <1>4, <1>5

\* The order of execution is kept: what is executed next comes before all that
\* has not been executed.
LEMMA ExecuteInOrder ==
    ASSUME QueriesInv, Books, HostInv, InOrder, NEW ok \in BOOLEAN, ExecuteICA(ok)
    PROVE  /\ InOrder'
           /\ \A i \in DOMAIN channel.pkts : i > NextSent => channel.pkts[i].status = "sent"
  <1> DEFINE s == channel.pkts
             t == channel'.pkts
             n == NextSent
             st == IF ok THEN "ok" ELSE "failed"
  <1>1. /\ n \in DOMAIN s /\ s[n].status = "sent" /\ \A j \in 1..n - 1 : s[j].status # "sent"
    BY NextSentOK DEF ExecuteICA
  <1>2. channel' = [channel EXCEPT !.pkts[NextSent].status = st]
    BY ExecuteBooks
  <1>3. st \in {"sent", "ok", "failed"} /\ st # "sent"
    OBVIOUS
  <1>4. DOMAIN s = 1..Len(s) /\ Len(s) \in Nat
    BY PacketFacts DEF Books
  <1> HIDE DEF st, n
  <1>5. \A i \in DOMAIN s : i > n => s[i].status = "sent"
    BY <1>1 DEF InOrder
  <1>6. /\ DOMAIN t = DOMAIN s /\ t[n] = [s[n] EXCEPT !.status = st]
        /\ \A i \in DOMAIN s \ {n} : t[i] = s[i]
    <2>1. channel' = [channel EXCEPT !.pkts[n].status = st]
      BY <1>2 DEF n
    <2> QED
      BY <1>1, <1>3, <2>1, StatusPackets
  <1>7. t[n].status = st
    <2>1. s[n] \in Pkt
      BY <1>1, PacketFacts DEF Books
    <2> QED
      BY <1>6, <2>1 DEF Pkt
  <1> HIDE DEF s, t
  <1>8. ASSUME NEW i \in DOMAIN t, NEW j \in DOMAIN t, i < j, t[i].status = "sent"
        PROVE  t[j].status = "sent"
    <2>1. i # n /\ s[i].status = "sent" /\ i \in DOMAIN s /\ j \in DOMAIN s
      BY <1>3, <1>6, <1>7, <1>8
    <2>2. ~(i < n)
      <3>1. i < n => i \in 1..n - 1
        BY <1>1, <1>4, <2>1
      <3> QED
        BY <1>1, <2>1, <3>1
    <2>3. j > n
      BY <1>1, <1>4, <1>8, <2>1, <2>2
    <2>4. s[j].status = "sent" /\ j # n
      BY <1>1, <1>4, <1>5, <2>1, <2>3
    <2> QED
      BY <1>6, <2>1, <2>4
  <1> QED
    BY <1>5, <1>8 DEF InOrder, s, t, n

LEMMA ExecuteLedger ==
    ASSUME QueriesInv, Books, HostInv, InOrder, NEW ok \in BOOLEAN, ExecuteICA(ok),
           NEW a \in Addresses, LedgerOf(a)
    PROVE  LedgerOf(a)'
  <1> DEFINE s == channel.pkts
             t == channel'.pkts
             n == NextSent
             p == s[n]
             A == Amount(vals, a)
             net == Net(p.moves, a)
             st == IF ok THEN "ok" ELSE "failed"
  <1>1. n \in DOMAIN s /\ s[n].status = "sent"
    BY NextSentOK DEF ExecuteICA
  <1>2. /\ channel' = [channel EXCEPT !.pkts[n].status = st]
        /\ vals' = vals /\ hostRate' = hostRate /\ Books'
        /\ ok => Feasible(p) /\ shares'[a] = Exchanged(a, net)
        /\ ~ok => shares' = shares
    BY ExecuteBooks
  <1>3. st \in {"sent", "ok", "failed"} /\ (ok => st = "ok") /\ (~ok => st = "failed")
    OBVIOUS
  <1>4. /\ DOMAIN s = 1..Len(s) /\ Len(s) \in Nat /\ p \in Pkt
        /\ net \in Int /\ Packets(s)
    BY <1>1, PacketFacts DEF Books
  <1>5. \A i \in DOMAIN s : i > n => s[i].status = "sent"
    BY ExecuteInOrder
  <1> HIDE DEF st, n
  <1>6. /\ DOMAIN t = DOMAIN s /\ Len(t) = Len(s) /\ t[n] = [p EXCEPT !.status = st]
        /\ \A i \in DOMAIN s \ {n} : t[i] = s[i]
    BY <1>1, <1>2, <1>3, StatusPackets
  <1>7. t[n].status = st /\ t[n].moves = p.moves
    BY <1>4, <1>6 DEF Pkt
  <1>8. Packets(t)
    BY <1>2 DEF Books
  <1>9. A \in Int /\ hostRate[a] = NewDecFromInt(1) /\ shares[a] = NewDecFromInt(A + After(s, Len(s), a))
        /\ \A k \in 0..Len(s) : A + After(s, k, a) >= 0
    BY AmountInt DEF LedgerOf, Books
  <1> HIDE DEF s, t, p, A, net
  <1>10. \A i \in DOMAIN s \ {n} : Owed(t, a)[i] = Owed(s, a)[i]
    BY <1>6 DEF Owed
  <1>11. Owed(s, a)[n] = 0 /\ Owed(t, a)[n] = IF ok THEN net ELSE 0
    BY <1>1, <1>3, <1>6, <1>7 DEF Owed, net, p
  <1>12. CASE ~ok
    <2>1. \A i \in DOMAIN s : Owed(s, a)[i] = Owed(t, a)[i]
      BY <1>10, <1>11, <1>12
    <2>2. \A k \in 0..Len(s) : After(s, k, a) = After(t, k, a)
      <3> TAKE k \in 0..Len(s)
      <3>1. k \in Nat /\ k <= Len(s) /\ k <= Len(t) /\ \A i \in 1..k : i \in DOMAIN s
        BY <1>4, <1>6
      <3> QED
        BY <1>4, <1>8, <2>1, <3>1, AfterSame
    <2>3. Len(s) \in 0..Len(s)
      BY <1>4
    <2>4. shares'[a] = NewDecFromInt(A + After(t, Len(t), a))
      BY <1>2, <1>6, <1>9, <1>12, <2>2, <2>3
    <2>5. \A k \in 0..Len(t) : A + After(t, k, a) >= 0
      BY <1>6, <1>9, <2>2
    <2> QED
      BY <1>2, <1>9, <2>4, <2>5 DEF LedgerOf, t, A
  <1>13. CASE ok
    <2> DEFINE m == n - 1
               T == After(s, Len(s), a)
    <2>1. m \in 0..Len(s) /\ m \in Nat /\ n \in 1..Len(s) /\ m + 1 = n /\ n \in 0..Len(s) /\ n \in Nat
      BY <1>1, <1>4
    <2>2. \A k \in 0..m : After(s, k, a) = After(t, k, a)
      <3> TAKE k \in 0..m
      <3>1. k \in Nat /\ k <= Len(s) /\ k <= Len(t) /\ \A i \in 1..k : i \in DOMAIN s \ {n}
        BY <1>4, <1>6, <2>1
      <3>2. \A i \in 1..k : Owed(s, a)[i] = Owed(t, a)[i]
        BY <1>10, <3>1
      <3> HIDE DEF m
      <3> QED
        BY <1>4, <1>8, <3>1, <3>2, AfterSame
    <2>3. T = After(s, m, a)
      <3>1. Len(s) \in m..Len(s)
        BY <1>4, <2>1
      <3>2. \A i \in m + 1..Len(s) : s[i].status # "ok"
        <4> TAKE i \in m + 1..Len(s)
        <4>1. i \in DOMAIN s /\ (i = n \/ i > n)
          BY <1>4, <2>1
        <4> QED
          BY <1>1, <1>5, <4>1 DEF s
      <3> HIDE DEF m
      <3> QED
        BY <1>4, <2>1, <3>1, <3>2, AfterPending
    <2>4. After(t, n, a) = After(t, m, a) + net
      <3>1. n \in 1..Len(t)
        BY <1>6, <2>1
      <3>2. After(t, n, a) = After(t, n - 1, a) + Owed(t, a)[n]
        BY <1>8, <3>1, OwedInt
      <3> QED
        BY <1>11, <1>13, <3>2
    <2>5. m \in 0..m
      BY <2>1
    <2>6. After(t, n, a) = T + net
      BY <2>2, <2>3, <2>4, <2>5
    <2>7. \A k \in n..Len(t) : After(t, k, a) = T + net
      <3> TAKE k \in n..Len(t)
      <3>1. n \in 0..Len(t)
        BY <1>6, <2>1
      <3>2. \A i \in n + 1..k : t[i].status # "ok"
        <4> TAKE i \in n + 1..k
        <4>1. i \in DOMAIN s /\ i > n /\ i # n
          BY <1>4, <1>6, <2>1
        <4> QED
          BY <1>5, <1>6, <4>1
      <3>3. After(t, k, a) = After(t, n, a)
        BY <1>8, <3>1, <3>2, AfterPending
      <3> QED
        BY <2>6, <3>3
    <2>8. T \in Int /\ A + T >= 0
      <3>1. Len(s) \in 0..Len(s)
        BY <1>4
      <3> QED
        BY <1>4, <1>9, <3>1, OwedInt
    <2> HIDE DEF m, T
    <2>9. Tokens(a) = A + T
      <3> DEFINE x == A + T
      <3>1. x \in Int /\ shares[a] = NewDecFromInt(x)
        BY <1>9, <2>8 DEF T
      <3> HIDE DEF x
      <3>2. Tokens(a) = x
        BY <1>9, <3>1, TokensExact
      <3> QED
        BY <3>2 DEF x
    <2>10. A + T + net >= 0
      <3>1. Tokens(a) \in Nat
        BY <1>9, <2>8, <2>9
      <3>2. Tokens(a) + net >= 0
        BY <1>2, <1>4, <1>13, <3>1, FeasibleStays DEF net
      <3> QED
        BY <2>9, <3>2
    <2>11. shares'[a] = NewDecFromInt(A + (T + net))
      <3> DEFINE x == A + T
      <3>1. x \in Int /\ shares[a] = NewDecFromInt(x) /\ x + net >= 0 /\ x + net = A + (T + net)
        BY <1>4, <1>9, <2>8, <2>10 DEF T
      <3> HIDE DEF x
      <3>2. Exchanged(a, net) = NewDecFromInt(x + net)
        BY <1>4, <1>9, <3>1, ExchangedExact
      <3> QED
        BY <1>2, <1>13, <3>1, <3>2
    <2>12. Len(t) \in n..Len(t)
      BY <1>6, <2>1
    <2>13. shares'[a] = NewDecFromInt(A + After(t, Len(t), a))
      BY <2>7, <2>11, <2>12
    <2>14. \A k \in 0..Len(t) : A + After(t, k, a) >= 0
      <3> TAKE k \in 0..Len(t)
      <3>1. CASE k < n
        <4>1. k \in 0..m /\ k \in 0..Len(s)
          BY <1>6, <2>1, <3>1
        <4> QED
          BY <1>9, <2>2, <4>1
      <3>2. CASE k >= n
        <4>1. After(t, k, a) = T + net
          BY <2>1, <2>7, <3>2
        <4> QED
          BY <1>4, <1>9, <2>8, <2>10, <4>1
      <3> QED
        BY <2>1, <3>1, <3>2
    <2> QED
      BY <1>2, <1>9, <2>13, <2>14 DEF LedgerOf, t, A
  <1> QED
    BY <1>12, <1>13

\* What an acknowledgement books for an address is what it was owed for it.
LEMMA BookedAmount ==
    ASSUME Books, NEW p \in Pkt, Shaped(p), p.status = "ok" => CallbackSucceeds(p),
           NEW a \in Addresses
    PROVE  Amount(Booked(vals, Effects(p)), a)
             = Amount(vals, a) + (IF p.status = "ok" THEN Net(p.moves, a) ELSE 0)
  <1> DEFINE e == Effects(p)
             ws == Booked(vals, e)
  <1>1. /\ e = (IF p.status = "ok" THEN p.moves ELSE <<>>) /\ MovesOK(e)
        /\ \A i \in DOMAIN e : /\ e[i].src \in Registered(vals) \cup {Account}
                               /\ e[i].dst \in Registered(vals) \cup {Account}
    BY EffectsRegistered
  <1>2. vals \in ValidatorList
    BY DEF Books
  <1>3. Net(e, a) = IF p.status = "ok" THEN Net(p.moves, a) ELSE 0
    <2>1. CASE p.status = "ok"
      BY <1>1, <2>1
    <2>2. CASE p.status # "ok"
      <3>1. e = <<>> /\ DOMAIN <<>> = {}
        BY <1>1, <2>2
      <3>2. Net(<<>>, a) = 0
        <4>1. DOMAIN <<>> = {}
          OBVIOUS
        <4> QED
          BY <4>1, NetIsSum, SumEmpty DEF NetOf
      <3> QED
        BY <2>2, <3>1, <3>2
    <2> QED
      BY <2>1, <2>2
  <1> HIDE DEF e
  <1>4. /\ Registered(ws) = Registered(vals)
        /\ \A x \in Registered(vals) : Val(ws, x).amt = Val(vals, x).amt + Net(e, x)
    BY <1>1, <1>2, BookedEntries
  <1> HIDE DEF ws
  <1>5. CASE a \in Registered(vals)
    BY <1>3, <1>4, <1>5 DEF Amount, ws, e
  <1>6. CASE a \notin Registered(vals)
    <2>1. a # Account
      BY ValidatorsAssumption DEF Account
    <2>2. \A i \in DOMAIN e : e[i].src # a /\ e[i].dst # a
      BY <1>1, <1>6, <2>1
    <2>3. \A i \in DOMAIN e : Delta(e, a)[i] = 0
      BY <2>2 DEF Delta
    <2>4. Net(e, a) = 0
      BY <1>1, <2>3, NetIsSum, SumZero DEF NetOf, MovesOK
    <2> DEFINE x == IF p.status = "ok" THEN Net(p.moves, a) ELSE 0
    <2>5. x = 0 /\ Amount(ws, a) = 0 /\ Amount(vals, a) = 0
      BY <1>3, <1>4, <1>6, <2>4 DEF Amount
    <2> HIDE DEF x
    <2>6. Amount(ws, a) = Amount(vals, a) + x
      BY <2>5
    <2> QED
      BY <2>6 DEF x, ws, e
  <1> QED
    BY <1>5, <1>6

LEMMA AcknowledgeLedger ==
    ASSUME QueriesInv, Books, HostInv, AcknowledgeICA, NEW a \in Addresses, LedgerOf(a)
    PROVE  LedgerOf(a)'
  <1> DEFINE s == channel.pkts
             t == channel'.pkts
             A == Amount(vals, a)
             o == Owed(s, a)[1]
             p == Head(s)
  <1>1. /\ Books' /\ UNCHANGED host /\ s # <<>> /\ channel' = [channel EXCEPT !.pkts = Tail(@)]
        /\ vals' = Booked(vals, Effects(p)) /\ (p.status = "ok" => CallbackSucceeds(p))
    BY AcknowledgeBooks
  <1>2. /\ p = s[1] /\ p \in Pkt /\ Shaped(p) /\ 1 \in DOMAIN s
        /\ Len(t) = Len(s) - 1 /\ DOMAIN s = 1..Len(s) /\ Len(s) \in Nat
        /\ \A i \in DOMAIN t : t[i] = s[i + 1]
    BY <1>1, TailPackets
  <1>3. Packets(s) /\ Packets(t)
    BY <1>1 DEF Books
  <1>4. Len(s) # 0
    BY <1>2
  <1> HIDE DEF s, t, p
  <1>5. o = (IF p.status = "ok" THEN Net(p.moves, a) ELSE 0) /\ o \in Int
    BY <1>2, <1>3, OwedInt
  <1>6. Amount(vals', a) = A + o
    BY <1>1, <1>2, <1>5, BookedAmount
  <1>7. A \in Int
    BY AmountInt DEF Books
  <1>8. \A k \in 0..Len(t) : /\ Amount(vals', a) + After(t, k, a) = A + After(s, k + 1, a)
                             /\ k + 1 \in 0..Len(s)
    <2> TAKE k \in 0..Len(t)
    <2>1. After(s, k + 1, a) = o + After(t, k, a)
      BY <1>2, <1>3, <1>4, AfterTail
    <2>2. After(t, k, a) \in Int
      BY <1>3, OwedInt
    <2>3. k + 1 \in 0..Len(s)
      BY <1>2
    <2> HIDE DEF o, A
    <2> QED
      BY <1>5, <1>6, <1>7, <2>1, <2>2, <2>3
  <1>9. Len(t) \in 0..Len(t) /\ Len(t) + 1 = Len(s)
    BY <1>2, <1>4
  <1>10. hostRate'[a] = NewDecFromInt(1) /\ shares'[a] = NewDecFromInt(A + After(s, Len(s), a))
    BY <1>1 DEF LedgerOf, host, s
  <1>11. shares'[a] = NewDecFromInt(Amount(vals', a) + After(t, Len(t), a))
    BY <1>8, <1>9, <1>10
  <1>12. \A k \in 0..Len(t) : Amount(vals', a) + After(t, k, a) >= 0
    <2>1. \A k \in 0..Len(s) : A + After(s, k, a) >= 0
      BY DEF LedgerOf, s
    <2> QED
      BY <1>8, <2>1
  <1> QED
    BY <1>10, <1>11, <1>12 DEF LedgerOf, t

LEMMA AcknowledgeInOrder ==
    ASSUME QueriesInv, Books, HostInv, AcknowledgeICA, InOrder
    PROVE  InOrder'
  <1> DEFINE s == channel.pkts
             t == channel'.pkts
  <1>1. s # <<>> /\ channel' = [channel EXCEPT !.pkts = Tail(@)]
    BY AcknowledgeBooks
  <1>2. /\ DOMAIN s = 1..Len(s) /\ Len(s) \in Nat /\ DOMAIN t = 1..Len(s) - 1
        /\ \A i \in DOMAIN t : t[i] = s[i + 1]
    BY <1>1, TailPackets
  <1> HIDE DEF s, t
  <1>3. ASSUME NEW i \in DOMAIN t, NEW j \in DOMAIN t, i < j, t[i].status = "sent"
        PROVE  t[j].status = "sent"
    <2>1. i + 1 \in DOMAIN s /\ j + 1 \in DOMAIN s /\ i + 1 < j + 1
      BY <1>2, <1>3
    <2>2. s[i + 1].status = "sent"
      BY <1>2, <1>3
    <2>3. s[j + 1].status = "sent"
      BY <2>1, <2>2 DEF InOrder, s
    <2> QED
      BY <1>2, <2>3
  <1> QED
    BY <1>3 DEF InOrder, t

\* When the channel closes, what was executed is lost; an address that is not
\* tainted had nothing in it.
LEMMA TimeoutLedger ==
    ASSUME Books, TimeoutICA, NEW a \in Addresses \ tainted', LedgerOf(a)
    PROVE  LedgerOf(a)'
  <1> DEFINE s == channel.pkts
             t == channel'.pkts
             A == Amount(vals, a)
             executed == {p \in Range(channel.pkts) : p.status = "ok"}
  <1>1. /\ channel' = [open |-> FALSE, pkts |-> <<>>] /\ vals' = vals /\ UNCHANGED host
        /\ tainted' = tainted \cup ((UNION {Touched(p) : p \in executed}) \ {Account})
    BY DEF TimeoutICA
  <1>2. a # Account
    BY ValidatorsAssumption DEF Account
  <1>3. \A i \in DOMAIN s : s[i].status = "ok" => a \notin Touched(s[i])
    <2> SUFFICES ASSUME NEW i \in DOMAIN s, s[i].status = "ok", a \in Touched(s[i]) PROVE FALSE
      OBVIOUS
    <2>1. s[i] \in executed
      BY DEF Range
    <2>2. a \in (UNION {Touched(p) : p \in executed}) \ {Account}
      BY <1>2, <2>1
    <2> QED
      BY <1>1, <2>2
  <1>4. Packets(s) /\ DOMAIN s = 1..Len(s) /\ Len(s) \in Nat /\ \A i \in DOMAIN s : s[i] \in Pkt
    BY PacketFacts DEF Books
  <1>5. t = <<>> /\ Len(<<>>) = 0 /\ Packets(<<>>)
    BY <1>1, OnePacket DEF NewPackets
  <1> HIDE DEF s, t
  <1>6. \A i \in DOMAIN s : Owed(s, a)[i] = 0
    BY <1>3, <1>4, UntouchedNet DEF Owed
  <1>7. After(s, Len(s), a) = 0
    <2>1. Len(s) \in 0..Len(s)
      BY <1>4
    <2>2. IsFiniteSet(1..Len(s))
      BY <1>4, <2>1, OwedInt
    <2> QED
      BY <1>4, <1>6, <2>2, SumZero DEF After
  <1>8. After(t, 0, a) = 0
    BY <1>5, OwedInt
  <1>9. shares[a] = NewDecFromInt(A + After(s, Len(s), a)) /\ hostRate[a] = NewDecFromInt(1)
        /\ \A k \in 0..Len(s) : A + After(s, k, a) >= 0
    BY DEF LedgerOf, s
  <1>10. A + 0 >= 0
    <2>1. Len(s) \in 0..Len(s)
      BY <1>4
    <2> QED
      BY <1>7, <1>9, <2>1
  <1>11. \A k \in 0..Len(t) : A + After(t, k, a) >= 0
    <2> TAKE k \in 0..Len(t)
    <2>1. k = 0
      BY <1>5
    <2> QED
      BY <1>8, <1>10, <2>1
  <1>12. shares'[a] = NewDecFromInt(A + After(t, Len(t), a)) /\ hostRate'[a] = NewDecFromInt(1)
    BY <1>1, <1>5, <1>7, <1>8, <1>9 DEF host
  <1> QED
    BY <1>1, <1>11, <1>12 DEF LedgerOf, t

\* The answer to a query changes the delegation of no address that is not tainted.
LEMMA AnsweredAmounts ==
    ASSUME Books, NEW r, Answered(r, vals', stakedBal'),
           tainted' = (IF stakedBal' # stakedBal THEN tainted \cup {r.addr} ELSE tainted),
           NEW a, a \notin tainted'
    PROVE  Amount(vals', a) = Amount(vals, a)
  <1>1. CASE vals' = vals
    BY <1>1
  <1>2. ASSUME r.addr \in Registered(vals), NEW v \in Entry, v.addr = r.addr,
               vals' = Replaced(vals, v), stakedBal' = stakedBal + v.amt - Val(vals, r.addr).amt
        PROVE  Amount(vals', a) = Amount(vals, a)
    <2>1. /\ Registered(vals') = Registered(vals) /\ Val(vals', r.addr) = v
          /\ \A b \in Registered(vals) \ {r.addr} : Val(vals', b) = Val(vals, b)
      BY <1>2, ReplacedTotal DEF Books
    <2>2. stakedBal \in Int /\ v.amt \in Int /\ Val(vals, r.addr).amt \in Int
      BY <1>2, IndexOf, ListFacts DEF Books, ValidatorList, Entry
    <2>3. CASE a = r.addr
      <3>1. stakedBal' = stakedBal
        BY <2>3
      <3>2. v.amt = Val(vals, r.addr).amt
        BY <1>2, <2>2, <3>1
      <3> QED
        BY <1>2, <2>1, <2>3, <3>2 DEF Amount
    <2>4. CASE a # r.addr
      BY <2>1, <2>4 DEF Amount
    <2> QED
      BY <2>3, <2>4
  <1> QED
    BY <1>1, <1>2 DEF Answered

LEMMA InitialLedger ==
    ASSUME Init
    PROVE  LedgerInv
  <1> DEFINE IV == InitialValidators
             D == DOMAIN IV
  <1>1. Books /\ vals \in ValidatorList
    BY InitialBooks DEF Books
  <1>2. channel.pkts = <<>> /\ Len(<<>>) = 0 /\ DOMAIN <<>> = {} /\ Packets(<<>>)
    <2>1. channel.pkts = <<>>
      BY DEF Init
    <2>2. Len(<<>>) = 0 /\ DOMAIN <<>> = {}
      OBVIOUS
    <2>3. Packets(<<>>)
      BY OnePacket DEF NewPackets
    <2> QED
      BY <2>1, <2>2, <2>3
  <1>3. vals = [i \in D |-> NewValidator(IV[i].addr, IV[i].weight, IV[i].amt)]
    BY DEF Init
  <1>4. \A i \in D : vals[i].addr = IV[i].addr /\ vals[i].amt = IV[i].amt
    BY <1>3 DEF NewValidator
  <1>5. IV \in Seq([addr : Addresses, weight : 0..Uint64 - 1, amt : Nat])
    BY ValidatorsAssumption
  <1>6. \A i \in D : IV[i].amt \in Nat
    <2> DEFINE V == [addr : Addresses, weight : 0..Uint64 - 1, amt : Nat]
    <2>1. \A i \in D : IV[i] \in V
      <3> HIDE DEF V
      <3>1. IV \in Seq(V)
        BY <1>5 DEF V
      <3> QED
        BY <3>1
    <2> QED
      BY <2>1
  <1>7. ASSUME NEW a \in Addresses PROVE LedgerOf(a)
    <2>1. hostRate[a] = NewDecFromInt(1)
      BY DEF Init
    <2>2. Registered(IV) = Registered(vals) /\ Index(IV, a) = Index(vals, a)
      <3>1. DOMAIN vals = D
        BY <1>3
      <3> QED
        BY <1>4, <3>1, Zenon DEF Registered, Index
    <2>3. shares[a] = NewDecFromInt(Amount(vals, a)) /\ Amount(vals, a) >= 0
      <3>1. CASE a \in Registered(vals)
        <4>1. Index(vals, a) \in D
          BY <1>1, <1>3, <3>1, IndexOf
        <4>2. Amount(vals, a) = IV[Index(vals, a)].amt
          BY <1>4, <3>1, <4>1 DEF Amount, Val
        <4>3. shares[a] = NewDecFromInt(Val(IV, a).amt)
          BY <2>2, <3>1 DEF Init
        <4> QED
          BY <1>6, <2>2, <4>1, <4>2, <4>3 DEF Val
      <3>2. CASE a \notin Registered(vals)
        <4>1. shares[a] = 0 /\ Amount(vals, a) = 0
          BY <2>2, <3>2 DEF Init, Amount
        <4>2. NewDecFromInt(0) = 0
          BY PrecisionAssumption DEF NewDecFromInt
        <4> QED
          BY <4>1, <4>2
      <3> QED
        BY <3>1, <3>2
    <2>4. After(<<>>, 0, a) = 0
      BY <1>2, OwedInt
    <2>5. Amount(vals, a) \in Int
      BY <1>1, AmountInt
    <2> DEFINE A == Amount(vals, a)
    <2>6. A + 0 = A
      BY <2>5
    <2> HIDE DEF A
    <2>7. \A k \in 0..0 : A + After(<<>>, k, a) >= 0
      BY <2>3, <2>4, <2>6 DEF A
    <2>8. shares[a] = NewDecFromInt(A + After(<<>>, 0, a))
      BY <2>3, <2>4, <2>6 DEF A
    <2> QED
      BY <1>2, <2>1, <2>7, <2>8 DEF LedgerOf, A
  <1>8. InOrder
    BY <1>2 DEF InOrder
  <1> QED
    BY <1>7, <1>8 DEF LedgerInv

LEMMA LedgerStep ==
    ASSUME QueriesInv, BooksInv, BooksInv', LedgerInv, [Next]_vars
    PROVE  LedgerInv'
  <1>0. Books /\ Books' /\ HostInv /\ InOrder /\ (\A w \in Weights : w \in Nat)
    BY ValidatorsAssumption DEF BooksInv, LedgerInv
  <1>1. ASSUME channel'.pkts = channel.pkts, UNCHANGED host, tainted \subseteq tainted',
               \A a \in Addresses \ tainted' : Amount(vals', a) = Amount(vals, a)
        PROVE  LedgerInv'
    <2>1. InOrder'
      BY <1>0, <1>1 DEF InOrder
    <2>2. \A a \in Addresses \ tainted' : LedgerOf(a)'
      BY <1>1, SameLedger DEF LedgerInv, host
    <2> QED
      BY <2>1, <2>2 DEF LedgerInv
  <1>2. ASSUME NEW new, NewPackets(new), channel'.pkts = channel.pkts \o new, UNCHANGED <<host, tainted>>,
               \A a \in Addresses : Amount(vals', a) = Amount(vals, a)
        PROVE  LedgerInv'
    <2>1. InOrder'
      BY <1>0, <1>2, GrowInOrder
    <2>2. ASSUME NEW a \in Addresses, a \notin tainted PROVE LedgerOf(a)'
      <3>1. LedgerOf(a) /\ shares' = shares /\ hostRate' = hostRate
        BY <1>2, <2>2 DEF LedgerInv, host
      <3> QED
        BY <1>0, <1>2, <3>1, GrowLedger
    <2> QED
      BY <1>2, <2>1, <2>2 DEF LedgerInv
  <1>3. CASE UNCHANGED vars \/ EnterBufferWindow \/ RestoreInterchainAccount \/ EndBlocker
             \/ (\E a \in Addresses : QueryValidatorExchangeRate(a)) \/ \E q \in queries : ReadHost(q)
    <2>1. /\ vals' = vals /\ UNCHANGED <<host, tainted>>
          /\ channel' = channel \/ channel' = [channel EXCEPT !.open = TRUE]
      BY <1>3 DEF vars, EnterBufferWindow, RestoreInterchainAccount, EndBlocker,
                  QueryValidatorExchangeRate, ReadHost
    <2>2. channel'.pkts = channel.pkts
      BY <1>0, <2>1 DEF Books
    <2> QED
      BY <1>1, <2>1, <2>2
  <1>4. CASE \E a \in Addresses : AddValidators(a) \/ AddValidatorsProposal(a)
    <2>1. MinWeight(vals) \in Nat
      BY <1>0, MinWeightNat DEF Books
    <2>2. PICK a \in Addresses, w \in Nat : AddValidatorToHostZone(a, w)
      BY <1>0, <1>4, <2>1 DEF AddValidators, AddValidatorsProposal
    <2>3. UNCHANGED <<channel, host, tainted>>
      BY <2>2 DEF AddValidatorToHostZone
    <2>4. \A b : Amount(vals', b) = Amount(vals, b)
      BY <1>0, <2>2, AdministeredAmounts
    <2> QED
      BY <1>1, <2>3, <2>4
  <1>5. CASE \E a \in Addresses, w \in Weights : ChangeValidatorWeight(a, w)
    <2>1. PICK a \in Addresses, w \in Weights : ChangeValidatorWeight(a, w)
      BY <1>5
    <2>2. UNCHANGED <<channel, host, tainted>>
      BY <2>1 DEF ChangeValidatorWeight
    <2>3. \A b : Amount(vals', b) = Amount(vals, b)
      BY <1>0, <2>1, AdministeredAmounts
    <2> QED
      BY <1>1, <2>2, <2>3
  <1>6. CASE \E a \in Addresses : RemoveValidatorFromHostZone(a)
    <2>1. UNCHANGED <<channel, host, tainted>>
      BY <1>6 DEF RemoveValidatorFromHostZone
    <2>2. \A b : Amount(vals', b) = Amount(vals, b)
      BY <1>0, <1>6, AdministeredAmounts
    <2> QED
      BY <1>1, <2>1, <2>2
  <1>7. CASE \E d \in DepositAmounts \cup {0}, u \in UnbondAmounts \cup {0} : BeginEpoch(d, u)
    <2>1. PICK new : NewPackets(new) /\ channel'.pkts = channel.pkts \o new
      BY <1>0, <1>7, BeginEpochBooks
    <2>2. /\ UNCHANGED <<host, tainted>> /\ Registered(vals') = Registered(vals)
          /\ \A b \in Registered(vals) : Val(vals', b).amt = Val(vals, b).amt
      BY <1>0, <1>7, BeginEpochBooks
    <2>3. \A a \in Addresses : Amount(vals', a) = Amount(vals, a)
      BY <2>2 DEF Amount
    <2> QED
      BY <1>2, <2>1, <2>2, <2>3
  <1>8. CASE \E n \in NumRebalance : RebalanceValidators(n)
    <2>1. PICK n \in NumRebalance : RebalanceValidators(n)
      BY <1>8
    <2>2. n \in Nat
      BY ValidatorsAssumption
    <2>3. PICK new : NewPackets(new) /\ channel'.pkts = channel.pkts \o new
      BY <1>0, <2>1, <2>2, RebalanceBooks
    <2>4. UNCHANGED <<host, tainted>> /\ vals' = vals
      BY <2>1 DEF RebalanceValidators
    <2> QED
      BY <1>2, <2>3, <2>4
  <1>9. CASE \E ok \in BOOLEAN : ExecuteICA(ok)
    <2>1. tainted' = tainted
      BY <1>9 DEF ExecuteICA
    <2> QED
      BY <1>0, <1>9, <2>1, ExecuteInOrder, ExecuteLedger DEF LedgerInv
  <1>10. CASE \E a \in Addresses, f \in SlashFactors : Slash(a, f)
    <2>1. PICK a \in Addresses, f \in SlashFactors : Slash(a, f)
      BY <1>10
    <2>2. /\ UNCHANGED <<vals, channel, shares>> /\ tainted' = tainted \cup {a}
          /\ \A b \in Addresses \ {a} : hostRate'[b] = hostRate[b]
      BY <1>0, <2>1, SlashHost
    <2>3. InOrder'
      BY <1>0, <2>2 DEF InOrder
    <2>4. \A b \in Addresses \ tainted' : LedgerOf(b)'
      BY <2>2, SameLedger DEF LedgerInv
    <2> QED
      BY <2>3, <2>4 DEF LedgerInv
  <1>11. CASE AcknowledgeICA
    <2>1. tainted' = tainted
      BY <1>11 DEF AcknowledgeICA
    <2> QED
      BY <1>0, <1>11, <2>1, AcknowledgeInOrder, AcknowledgeLedger DEF LedgerInv
  <1>12. CASE TimeoutICA
    <2>1. channel'.pkts = <<>> /\ DOMAIN <<>> = {} /\ tainted \subseteq tainted'
      BY <1>12 DEF TimeoutICA
    <2>2. InOrder'
      BY <2>1 DEF InOrder
    <2>3. \A a \in Addresses \ tainted' : LedgerOf(a)'
      BY <1>0, <1>12, <2>1, TimeoutLedger DEF LedgerInv
    <2> QED
      BY <2>2, <2>3 DEF LedgerInv
  <1>13. CASE \E r \in responses, again \in BOOLEAN : SubmitQueryResponse(r, again)
    <2>1. PICK r \in responses, again \in BOOLEAN : SubmitQueryResponse(r, again)
      BY <1>13
    <2>2. /\ UNCHANGED <<channel, host>> /\ Answered(r, vals', stakedBal')
          /\ tainted' = (IF stakedBal' # stakedBal THEN tainted \cup {r.addr} ELSE tainted)
      BY <1>0, <2>1, SubmitBooks
    <2>3. \A a \in Addresses \ tainted' : Amount(vals', a) = Amount(vals, a)
      BY <1>0, <2>2, AnsweredAmounts
    <2> QED
      BY <1>1, <2>2, <2>3
  <1> QED
    BY <1>3, <1>4, <1>5, <1>6, <1>7, <1>8, <1>9, <1>10, <1>11, <1>12, <1>13 DEF Next

LEMMA LedgerInvHolds == Spec => []LedgerInv
  <1>1. Init => LedgerInv
    BY InitialLedger
  <1>2. QueriesInv /\ BooksInv /\ BooksInv' /\ LedgerInv /\ [Next]_vars => LedgerInv'
    BY LedgerStep
  <1> QED
    BY <1>1, <1>2, QueriesInvHolds, BooksInvHolds, PTL DEF Spec

\* The recorded delegation of every validator is its delegation on the host but
\* for the acknowledgements under way, unless it was slashed, an acknowledgement
\* was lost or a query has corrected it: a callback books what its packet moved,
\* once and the right way round, and only when the packet succeeded.
THEOREM BooksMatchHostHolds == Spec => []BooksMatchHost
  <1>1. BooksInv /\ LedgerInv => BooksMatchHost
    <2> SUFFICES ASSUME BooksInv, LedgerInv, NEW a \in Addresses \ tainted
                 PROVE  Tokens(a) = Unbooked(a) + (IF a \in Registered(vals) THEN Val(vals, a).amt ELSE 0)
      BY DEF BooksMatchHost
    <2> DEFINE s == channel.pkts
               A == Amount(vals, a)
               T == After(s, Len(s), a)
               f == Owed(s, a)
               D == DOMAIN s
               executed == {i \in D : s[i].status = "ok"}
               g == [i \in executed |-> Net(s[i].moves, a)]
    <2>1. Packets(s) /\ A \in Int
      BY AmountInt DEF BooksInv, Books
    <2>2. D = 1..Len(s) /\ Len(s) \in Nat /\ Len(s) \in 0..Len(s)
      BY <2>1, PacketFacts
    <2>3. T \in Int /\ IsFiniteSet(D)
      BY <2>1, <2>2, OwedInt
    <2>4. Unbooked(a) = T
      <3>1. Unbooked(a) = SumFunction(g)
        BY DEF Unbooked
      <3>2. DOMAIN g = executed
        OBVIOUS
      <3>3. \A i \in D : f[i] \in Int /\ f[i] = IF s[i].status = "ok" THEN Net(s[i].moves, a) ELSE 0
        BY <2>1, OwedInt
      <3>4. \A i \in executed : g[i] = f[i] /\ f[i] \in Int
        BY <3>3
      <3>5. \A i \in D \ executed : f[i] = 0
        BY <3>3
      <3>6. executed \in SUBSET D
        OBVIOUS
      <3> HIDE DEF f, g, D, executed
      <3>7. SumFunctionOnSet(g, executed) = SumFunctionOnSet(f, D)
        BY ONLY <2>3, <3>4, <3>5, <3>6, SumRestrict
      <3> QED
        BY <2>2, <3>1, <3>2, <3>7 DEF SumFunction, After, f
    <2>5. LedgerOf(a)
      BY DEF LedgerInv
    <2> DEFINE x == A + T
    <2>6. x \in Int /\ shares[a] = NewDecFromInt(x) /\ hostRate[a] = NewDecFromInt(1)
      BY <2>1, <2>3, <2>5 DEF LedgerOf
    <2> HIDE DEF x, T, s
    <2>7. Tokens(a) = x
      BY <2>6, TokensExact
    <2>8. x = T + A
      BY <2>1, <2>3 DEF x
    <2> QED
      BY <2>4, <2>7, <2>8 DEF Amount
  <1> QED
    BY <1>1, BooksInvHolds, LedgerInvHolds, PTL

\* No validator gets a negative delegation on the books, although the amounts of
\* a packet were computed from books that may have changed since, and the
\* subtraction is not checked: the host refuses to move what is not there.
THEOREM DelegationNeverNegativeHolds == Spec => []DelegationNeverNegative
  <1>1. BooksInv /\ LedgerInv => DelegationNeverNegative
    <2> SUFFICES ASSUME BooksInv, LedgerInv, NEW i \in DOMAIN vals, vals[i].addr \notin tainted
                 PROVE  vals[i].amt >= 0
      BY DEF DelegationNeverNegative
    <2> DEFINE a == vals[i].addr
               A == Amount(vals, a)
    <2>1. vals \in ValidatorList /\ Packets(channel.pkts)
      BY DEF BooksInv, Books
    <2>2. a \in Addresses /\ A = vals[i].amt /\ A \in Int
      BY <2>1, ListFacts, AmountInt DEF ValidatorList, Entry
    <2>3. After(channel.pkts, 0, a) = 0 /\ 0 \in 0..Len(channel.pkts)
      BY <2>1, PacketFacts, OwedInt
    <2>4. LedgerOf(a)
      BY <2>2 DEF LedgerInv
    <2>5. A + 0 >= 0
      BY <2>3, <2>4 DEF LedgerOf
    <2> QED
      BY <2>2, <2>5
  <1> QED
    BY <1>1, BooksInvHolds, LedgerInvHolds, PTL

\* The total is that of the registered addresses.
LEMMA TotalByAddress ==
    ASSUME NEW vs \in ValidatorList
    PROVE  Total(vs) = SumFunctionOnSet([a \in Registered(vs) |-> Amount(vs, a)], Registered(vs))
  <1> DEFINE D == DOMAIN vs
             R == Registered(vs)
             f == Amts(vs)
             g == [a \in R |-> Amount(vs, a)]
             h == [i \in D |-> vs[i].addr]
             T == {h[i] : i \in D}
  <1>1. IsFiniteSet(D) /\ \A i \in D : f[i] = vs[i].amt /\ f[i] \in Int
    BY ListFacts DEF ValidatorList
  <1>2. \A i \in D : h[i] \in R /\ g[h[i]] = vs[i].amt
    BY IndexOf, AmountInt
  <1>3. \A i, j \in D : h[i] = h[j] => i = j
    BY DEF ValidatorList, Distinct
  <1>4. T = R
    BY DEF Registered
  <1>5. \A i \in D : f[i] = g[h[i]] /\ f[i] \in Int
    BY <1>1, <1>2
  <1> HIDE DEF D, R, f, g, h
  <1>6. SumFunctionOnSet(f, D) = SumFunctionOnSet(g, T)
    BY <1>1, <1>3, <1>5, SumReindex
  <1> QED
    BY <1>4, <1>6 DEF Total, D, R, f, g

-----------------------------------------------------------------------------
(* The acknowledgement at the head of the channel *)

\* A move of an undelegation takes no more than is on the books.
LEMMA UndelegationFits ==
    ASSUME BooksInv, LedgerInv, channel.pkts # <<>>, NEW p, p = Head(channel.pkts),
           p.status = "ok", p.kind = "undelegate", NEW i \in DOMAIN p.moves,
           p.moves[i].src \notin tainted
    PROVE  /\ p.moves[i].src = i /\ p.moves[i].amt \in Nat
           /\ Delta(p.moves, Account)[i] = p.moves[i].amt
           /\ p.moves[i].amt <= Amount(vals, i)
  <1> DEFINE s == channel.pkts
             moves == p.moves
             A == Amount(vals, i)
             n == moves[i].amt
             f == Delta(moves, i)
             D == DOMAIN moves
  <1>1. vals \in ValidatorList /\ Packets(s)
    BY DEF BooksInv, Books
  <1>2. DOMAIN s = 1..Len(s) /\ Len(s) \in Nat
    BY <1>1, PacketFacts
  <1>3. Len(s) # 0
    BY <1>1 DEF Packets
  <1>4. 1 \in DOMAIN s /\ 1 \in 0..Len(s) /\ 1 \in 1..Len(s) /\ s[1] = p
    BY <1>1, <1>2, <1>3 DEF Packets
  <1>5. p \in Pkt /\ Shaped(p) /\ MovesOK(moves)
    BY <1>1, <1>4, PacketFacts
  <1>6. \A j \in D : moves[j] \in MoveSet /\ moves[j].src = j /\ moves[j].src \in Addresses
                     /\ moves[j].dst = Account
    BY <1>5, MoveFcnFacts DEF Shaped, Pkt
  <1>7. i \in Addresses /\ i \notin tainted /\ i # Account /\ n \in Nat /\ A \in Int
    BY <1>1, <1>6, AmountInt, ValidatorsAssumption DEF MoveSet, Account
  <1>8. f[i] = 0 - n
    BY <1>6, <1>7 DEF Delta
  <1>9. \A j \in D \ {i} : f[j] = 0
    BY <1>6, <1>7 DEF Delta
  <1>10. f[i] \in Int /\ IsFiniteSet(D)
    BY <1>5, <1>7, <1>8 DEF MovesOK
  <1>11. Net(moves, i) = f[i]
    <2>1. Net(moves, i) = SumFunctionOnSet(f, D)
      BY NetIsSum DEF NetOf
    <2> HIDE DEF f, D
    <2>2. i \in D
      BY DEF D
    <2>3. SumFunctionOnSet(f, D) = f[i]
      BY <1>9, <1>10, <2>2, SumOne
    <2> QED
      BY <2>1, <2>3
  <1>12. After(s, 1, i) = After(s, 1 - 1, i) + Owed(s, i)[1] /\ After(s, 0, i) = 0
         /\ Owed(s, i)[1] = IF s[1].status = "ok" THEN Net(s[1].moves, i) ELSE 0
    BY <1>1, <1>4, OwedInt
  <1>13. After(s, 1, i) = 0 - n
    BY <1>4, <1>7, <1>8, <1>11, <1>12
  <1>14. A + After(s, 1, i) >= 0
    BY <1>4, <1>7 DEF LedgerInv, LedgerOf
  <1>15. n <= A
    <2> HIDE DEF n, A
    <2> QED
      BY <1>7, <1>13, <1>14
  <1>16. Delta(moves, Account)[i] = n
    <2>1. moves[i].src # Account /\ moves[i].dst = Account /\ i \in DOMAIN moves
      BY <1>6, <1>7
    <2> QED
      BY <1>7, <2>1 DEF Delta
  <1> QED
    BY <1>6, <1>7, <1>15, <1>16

\* All of them together take no more than the staked balance.
LEMMA UndelegationBacked ==
    ASSUME BooksInv, LedgerInv, channel.pkts # <<>>, NEW p, p = Head(channel.pkts),
           p.status = "ok", p.kind = "undelegate",
           \A i \in DOMAIN p.moves : p.moves[i].src \notin tainted /\ p.moves[i].src \in Registered(vals),
           \A i \in DOMAIN vals : vals[i].amt >= 0
    PROVE  Net(p.moves, Account) <= stakedBal
  <1> DEFINE D == DOMAIN p.moves
             R == Registered(vals)
             d == Delta(p.moves, Account)
             g == [a \in R |-> Amount(vals, a)]
  <1>1. vals \in ValidatorList /\ stakedBal = Total(vals) /\ Packets(channel.pkts)
    BY DEF BooksInv, Books
  <1>2. p \in Pkt
    BY <1>1, PacketFacts DEF Packets
  <1>3. IsFiniteSet(D)
    BY <1>2, MoveFcnFacts DEF Pkt, MovesOK
  <1>4. \A i \in D : i \in R /\ d[i] \in Int /\ g[i] \in Int /\ d[i] <= g[i]
    <2> SUFFICES ASSUME NEW i \in D
                 PROVE  i \in R /\ d[i] \in Int /\ g[i] \in Int /\ d[i] <= g[i]
      OBVIOUS
    <2>1. p.moves[i].src = i /\ d[i] = p.moves[i].amt /\ d[i] \in Nat /\ d[i] <= Amount(vals, i)
      BY UndelegationFits
    <2>2. i \in R
      BY <2>1
    <2>3. Amount(vals, i) \in Int
      BY <1>1, AmountInt
    <2> QED
      BY <2>1, <2>2, <2>3
  <1>5. \A a \in R : g[a] \in Nat
    <2> SUFFICES ASSUME NEW a \in R PROVE Amount(vals, a) \in Nat
      OBVIOUS
    <2>1. PICK i \in DOMAIN vals : vals[i].addr = a
      BY DEF Registered
    <2>2. Amount(vals, a) = vals[i].amt /\ Amount(vals, a) \in Int
      BY <1>1, <2>1, AmountInt
    <2> QED
      BY <2>2
  <1>6. IsFiniteSet(R)
    <2>1. R \in SUBSET Addresses
      BY <1>1, ListFacts DEF ValidatorList, Entry, Registered
    <2> QED
      BY <2>1, FS_Subset, ValidatorsAssumption
  <1>7. Net(p.moves, Account) = SumFunctionOnSet(d, D)
    BY NetIsSum DEF NetOf
  <1>8. stakedBal = SumFunctionOnSet(g, R)
    BY <1>1, TotalByAddress
  <1> HIDE DEF D, R, d, g
  <1>9. SumFunctionOnSet(d, D) <= SumFunctionOnSet(g, D)
    BY <1>3, <1>4, SumLeq
  <1>10. D \in SUBSET R
    BY <1>4
  <1>11. SumFunctionOnSet(g, D) <= SumFunctionOnSet(g, R)
    BY <1>5, <1>6, <1>10, SumSubset
  <1>12. SumFunctionOnSet(d, D) \in Int /\ SumFunctionOnSet(g, D) \in Int /\ SumFunctionOnSet(g, R) \in Int
    <2>1. \A i \in R : g[i] \in Int
      BY <1>5
    <2>2. \A i \in D : g[i] \in Int /\ d[i] \in Int
      BY <1>4
    <2> QED
      BY <1>3, <1>6, <2>1, <2>2, SumInt
  <1> QED
    BY <1>7, <1>8, <1>9, <1>11, <1>12

\* The acknowledgement of an executed packet is accepted, so that the ordered
\* channel moves on: the checks of the callbacks against the recorded delegations
\* and the staked balance, which may have changed since the packet was built,
\* cannot fail but for a validator removed, slashed or corrected in between.
THEOREM AckNotStuckHolds == Spec => []AckNotStuck
  <1>1. BooksInv /\ LedgerInv => AckNotStuck
    <2> SUFFICES ASSUME BooksInv, LedgerInv PROVE AckNotStuck
      OBVIOUS
    <2> SUFFICES ASSUME NEW p, p = Head(channel.pkts), channel.pkts # <<>>,
                        p.status = "ok", Touched(p) \ {Account} \subseteq Registered(vals),
                        Touched(p) \cap tainted = {}, \A i \in DOMAIN vals : vals[i].amt >= 0
                 PROVE  CallbackSucceeds(p)
      <3>1. vals \in ValidatorList
        BY DEF BooksInv, Books
      <3>2. \A i \in DOMAIN vals : vals[i].amt \in Int /\ (~(vals[i].amt < 0) => vals[i].amt >= 0)
        BY <3>1, ListFacts DEF ValidatorList
      <3> QED
        BY <3>2 DEF AckNotStuck
    <2>1. Packets(channel.pkts)
      BY DEF BooksInv, Books
    <2>2. p \in Pkt /\ Shaped(p)
      <3>1. DOMAIN channel.pkts = 1..Len(channel.pkts) /\ Len(channel.pkts) \in Nat
        BY <2>1, PacketFacts
      <3>2. Len(channel.pkts) # 0 /\ p = channel.pkts[1]
        BY <2>1 DEF Packets
      <3> QED
        BY <2>1, <3>1, <3>2, PacketFacts
    <2>3. Account \notin Addresses
      BY ValidatorsAssumption DEF Account
    <2>4. \A i \in DOMAIN p.moves : p.moves[i].src \in Touched(p) /\ p.moves[i].dst \in Touched(p)
      BY DEF Touched
    <2>5. CASE p.kind = "delegate"
      <3>1. DelegateCallback(p)
        BY <2>2, <2>3, <2>4, <2>5 DEF Shaped, DelegateCallback, Range
      <3> QED
        BY <2>5, <3>1 DEF CallbackSucceeds
    <2>6. CASE p.kind = "rebalance"
      <3>1. Touched(p) \subseteq Registered(vals)
        BY <2>2, <2>3, <2>6 DEF Shaped, Touched
      <3> QED
        BY <2>6, <3>1 DEF CallbackSucceeds, RebalanceCallback
    <2>7. CASE p.kind = "undelegate"
      <3>1. \A i \in DOMAIN p.moves : p.moves[i].src \in Registered(vals) /\ p.moves[i].src \notin tainted
        BY <2>2, <2>3, <2>4, <2>7 DEF Shaped
      <3>2. Net(p.moves, Account) <= stakedBal
        BY <2>7, <3>1, UndelegationBacked
      <3>3. \A i \in DOMAIN p.moves : p.moves[i].amt <= Val(vals, p.moves[i].src).amt
        BY <2>7, <3>1, UndelegationFits DEF Amount
      <3>4. UndelegateCallback(p)
        BY <3>1, <3>2, <3>3 DEF UndelegateCallback, Range
      <3> QED
        BY <2>7, <3>4 DEF CallbackSucceeds
    <2> QED
      BY <2>2, <2>5, <2>6, <2>7 DEF Pkt
  <1> QED
    BY <1>1, BooksInvHolds, LedgerInvHolds, PTL

-----------------------------------------------------------------------------
(* What the answers to the queries show of an address that is not tainted:  *)
(* a rate of one, and its delegation as it is on the books, unless packets  *)
(* of it were under way.                                                    *)

RatesAre(vs, bad) ==
    \A i \in DOMAIN vs : vs[i].fresh /\ vs[i].addr \notin bad => vs[i].rate = NewDecFromInt(1)
Shows(r, vs) ==
    IF r.kind = "validator" THEN r.value = NewDecFromInt(1)
    ELSE r.raced \/ r.value = NewDecFromInt(Amount(vs, r.addr))

RatesInv ==
    /\ RatesAre(vals, tainted)
    /\ \A r \in responses : r.addr \notin tainted => Shows(r, vals)

\* A validator whose rate, if it is this epoch's, was so before.
KeptRate(v) ==
    v.fresh => \E j \in DOMAIN vals : vals[j].fresh /\ vals[j].addr = v.addr /\ vals[j].rate = v.rate

LEMMA KeptRates ==
    ASSUME RatesInv, tainted \subseteq tainted', \A i \in DOMAIN vals' : KeptRate(vals'[i])
    PROVE  RatesAre(vals', tainted')
    BY DEF RatesInv, RatesAre, KeptRate

LEMMA KeptAnswers ==
    ASSUME QueriesInv, RatesInv, tainted \subseteq tainted', responses' \subseteq responses,
           \A a \in Addresses \ tainted' : Amount(vals', a) = Amount(vals, a)
    PROVE  \A r \in responses' : r.addr \notin tainted' => Shows(r, vals')
    BY DEF RatesInv, Shows, QueriesInv, AreResponses

\* A packet whose execution or acknowledgement changes the delegation races the
\* answers that are under way.
LEMMA RacedAnswers ==
    ASSUME QueriesInv, RatesInv, tainted' = tainted, NEW p, responses' = Race(p),
           \A a \in Addresses \ Touched(p) : Amount(vals', a) = Amount(vals, a)
    PROVE  \A r \in responses' : r.addr \notin tainted' => Shows(r, vals')
  <1> SUFFICES ASSUME NEW r \in responses, r.addr \notin tainted
               PROVE  /\ r.addr \in Touched(p) => Shows([r EXCEPT !.raced = TRUE], vals')
                                                  /\ [r EXCEPT !.raced = TRUE].addr = r.addr
                      /\ r.addr \notin Touched(p) => Shows(r, vals')
    <2>1. \A r \in responses : \E v : r \in [kind : Kinds, addr : Addresses, value : {v}, raced : BOOLEAN]
      BY DEF QueriesInv, AreResponses
    <2>2. \A r \in responses : [r EXCEPT !.raced = TRUE].addr = r.addr
      BY <2>1
    <2> QED
      BY <2>2 DEF Race
  <1>1. PICK v : r \in [kind : Kinds, addr : Addresses, value : {v}, raced : BOOLEAN]
    BY DEF QueriesInv, AreResponses
  <1>2. Shows(r, vals)
    BY DEF RatesInv
  <1> DEFINE q == [r EXCEPT !.raced = TRUE]
  <1>3. q.kind = r.kind /\ q.addr = r.addr /\ q.value = r.value /\ q.raced = TRUE
    BY <1>1
  <1> HIDE DEF q
  <1>4. Shows(q, vals')
    BY <1>2, <1>3 DEF Shows
  <1>5. r.addr \notin Touched(p) => Shows(r, vals')
    BY <1>1, <1>2 DEF Shows
  <1> QED
    BY <1>3, <1>4, <1>5 DEF q

\* With no executed packet of a under way, the books are what the host has.
LEMMA NothingOwed ==
    ASSUME NEW s, Packets(s), NEW a, \A i \in DOMAIN s : s[i].status = "ok" => a \notin Touched(s[i])
    PROVE  After(s, Len(s), a) = 0
  <1> DEFINE f == Owed(s, a)
             n == Len(s)
  <1>1. DOMAIN s = 1..n /\ n \in Nat /\ \A i \in DOMAIN s : s[i] \in Pkt
    BY PacketFacts
  <1>2. \A i \in DOMAIN s : f[i] = 0
    BY <1>1, UntouchedNet DEF Owed
  <1>3. IsFiniteSet(1..n)
    BY <1>1, FS_Interval
  <1>4. \A i \in 1..n : f[i] = 0
    BY <1>1, <1>2
  <1> HIDE DEF f
  <1>5. SumFunctionOnSet(f, 1..n) = 0
    BY <1>3, <1>4, SumZero
  <1> QED
    BY <1>5 DEF After, f

LEMMA ReadRates ==
    ASSUME QueriesInv, BooksInv, LedgerInv, RatesInv, NEW q \in queries, ReadHost(q)
    PROVE  RatesInv'
  <1> DEFINE value == IF q.kind = "validator" THEN hostRate[q.addr] ELSE shares[q.addr]
             raced == \E p \in Range(channel.pkts) : p.status = "ok" /\ q.addr \in Touched(p)
             new == [kind |-> q.kind, addr |-> q.addr, value |-> value, raced |-> raced]
             s == channel.pkts
             a == q.addr
             A == Amount(vals, a)
  <1>1. responses' = responses \cup {new} /\ vals' = vals /\ tainted' = tainted
    BY DEF ReadHost
  <1>2. a \in Addresses
    BY DEF QueriesInv, Query
  <1>3. /\ new.kind = q.kind /\ new.addr = a /\ new.raced = raced
        /\ new.value = IF q.kind = "validator" THEN hostRate[a] ELSE shares[a]
    OBVIOUS
  <1>4. Packets(s) /\ A \in Int
    BY AmountInt DEF BooksInv, Books
  <1>5. ASSUME a \notin tainted PROVE Shows(new, vals)
    <2>1. hostRate[a] = NewDecFromInt(1) /\ shares[a] = NewDecFromInt(A + After(s, Len(s), a))
      BY <1>2, <1>5 DEF LedgerInv, LedgerOf
    <2>2. ASSUME ~raced PROVE shares[a] = NewDecFromInt(A)
      <3>1. \A i \in DOMAIN s : s[i].status = "ok" => a \notin Touched(s[i])
        BY <2>2 DEF Range
      <3>2. After(s, Len(s), a) = 0
        BY <1>4, <3>1, NothingOwed
      <3>3. A + After(s, Len(s), a) = A
        BY <1>4, <3>2
      <3> QED
        BY <2>1, <3>3
    <2> HIDE DEF new, raced
    <2> QED
      BY <1>3, <2>1, <2>2 DEF Shows
  <1> HIDE DEF new
  <1> QED
    BY <1>1, <1>3, <1>5 DEF RatesInv

\* An answer changes the rate of the validator it is about, to what it shows,
\* and its delegation only in tainting it.
LEMMA SubmitRates ==
    ASSUME QueriesInv, BooksInv, RatesInv, NEW r \in responses, NEW again \in BOOLEAN,
           SubmitQueryResponse(r, again)
    PROVE  RatesInv'
  <1>1. /\ responses' \subseteq responses /\ Answered(r, vals', stakedBal')
        /\ tainted' = (IF stakedBal' # stakedBal THEN tainted \cup {r.addr} ELSE tainted)
        /\ tainted \subseteq tainted'
    BY SubmitBooks DEF BooksInv
  <1>2. Books /\ vals \in ValidatorList
    BY DEF BooksInv, Books
  <1>3. \A a \in Addresses \ tainted' : Amount(vals', a) = Amount(vals, a)
    BY <1>1, <1>2, AnsweredAmounts
  <1>4. \A s \in responses' : s.addr \notin tainted' => Shows(s, vals')
    BY <1>1, <1>3, KeptAnswers
  <1>5. \A a \in Registered(vals) : \E j \in DOMAIN vals : vals[j].addr = a /\ Val(vals, a) = vals[j]
    BY <1>2, IndexOf
  <1>6. RatesAre(vals', tainted')
    <2>1. CASE vals' = vals
      BY <1>1, <2>1 DEF RatesInv, RatesAre
    <2>2. ASSUME r.addr \in Registered(vals), NEW v \in Entry, v.addr = r.addr, vals' = Replaced(vals, v),
                 \/ v.rate = r.value /\ r.kind = "validator"
                 \/ v.rate = Val(vals, r.addr).rate /\ v.fresh = Val(vals, r.addr).fresh
          PROVE  RatesAre(vals', tainted')
      <3>1. v.fresh /\ v.addr \notin tainted' => v.rate = NewDecFromInt(1)
        <4>1. CASE v.rate = r.value /\ r.kind = "validator"
          BY <1>1, <2>2, <4>1 DEF RatesInv, Shows
        <4>2. CASE v.rate = Val(vals, r.addr).rate /\ v.fresh = Val(vals, r.addr).fresh
          <5> SUFFICES ASSUME v.fresh, v.addr \notin tainted' PROVE v.rate = NewDecFromInt(1)
            OBVIOUS
          <5>1. PICK j \in DOMAIN vals : vals[j].addr = r.addr /\ Val(vals, r.addr) = vals[j]
            BY <1>5, <2>2
          <5>2. vals[j].fresh /\ vals[j].addr \notin tainted
            BY <1>1, <2>2, <4>2, <5>1
          <5>3. vals[j].rate = NewDecFromInt(1)
            BY <5>2 DEF RatesInv, RatesAre
          <5> QED
            BY <4>2, <5>1, <5>3
        <4> QED
          BY <2>2, <4>1, <4>2
      <3>2. \A i \in DOMAIN vals' : i \in DOMAIN vals /\ (vals'[i] = v \/ vals'[i] = vals[i])
        BY <2>2 DEF Replaced
      <3> QED
        BY <1>1, <3>1, <3>2 DEF RatesInv, RatesAre
    <2> QED
      BY <1>1, <2>1, <2>2 DEF Answered
  <1> QED
    BY <1>4, <1>6 DEF RatesInv

LEMMA AdministeredRates ==
    ASSUME Books,
           \/ \E a \in Addresses, w \in Nat : AddValidatorToHostZone(a, w)
           \/ \E a \in Addresses, w \in Nat : ChangeValidatorWeight(a, w)
           \/ \E a \in Addresses : RemoveValidatorFromHostZone(a)
    PROVE  \A i \in DOMAIN vals' : KeptRate(vals'[i])
  <1>1. vals \in ValidatorList /\ vals \in Seq(Entry)
    BY DEF Books, ValidatorList
  <1>2. DOMAIN vals = 1..Len(vals) /\ Len(vals) \in Nat
    BY <1>1
  <1>3. \A i \in DOMAIN vals : KeptRate(vals[i])
    BY DEF KeptRate
  <1>4. ASSUME NEW a \in Addresses, NEW w \in Nat, AddValidatorToHostZone(a, w)
        PROVE  \A i \in DOMAIN vals' : KeptRate(vals'[i])
    <2> DEFINE v == NewValidator(a, w, 0)
    <2>1. vals' = Append(vals, v)
      BY <1>4 DEF AddValidatorToHostZone
    <2>2. v \in Entry /\ v.fresh = FALSE
      BY DEF NewValidator, Entry
    <2> HIDE DEF v
    <2>3. DOMAIN Append(vals, v) = 1..Len(vals) + 1
      <3>1. Len(Append(vals, v)) = Len(vals) + 1 /\ Append(vals, v) \in Seq(Entry)
        BY <1>1, <2>2
      <3> QED
        BY <3>1
    <2>4. \A i \in 1..Len(vals) + 1 : Append(vals, v)[i] = IF i <= Len(vals) THEN vals[i] ELSE v
      BY <1>1, <2>2
    <2>5. KeptRate(v)
      BY <2>2 DEF KeptRate
    <2>6. ASSUME NEW i \in DOMAIN vals' PROVE vals'[i] = v \/ (i \in DOMAIN vals /\ vals'[i] = vals[i])
      <3>1. i \in 1..Len(vals) + 1
        BY <2>1, <2>3
      <3>2. i <= Len(vals) => i \in DOMAIN vals
        BY <1>2, <3>1
      <3> QED
        BY <2>1, <2>4, <3>1, <3>2
    <2> QED
      BY <1>3, <2>5, <2>6
  <1>5. ASSUME NEW a \in Addresses, NEW w \in Nat, ChangeValidatorWeight(a, w)
        PROVE  \A i \in DOMAIN vals' : KeptRate(vals'[i])
    BY <1>5, WeightBooks DEF KeptRate
  <1>6. ASSUME NEW a \in Addresses, RemoveValidatorFromHostZone(a)
        PROVE  \A i \in DOMAIN vals' : KeptRate(vals'[i])
    <2> DEFINE k == Index(vals, a)
    <2>1. k \in DOMAIN vals /\ vals' = RemoveAt(vals, k)
      BY <1>1, <1>6, IndexOf DEF RemoveValidatorFromHostZone
    <2> HIDE DEF k
    <2>2. /\ DOMAIN vals' = 1..Len(vals) - 1
          /\ \A i \in 1..Len(vals) - 1 : vals'[i] = IF i < k THEN vals[i] ELSE vals[i + 1]
      BY <1>1, <2>1, RemoveAtEntries
    <2>3. \A i \in DOMAIN vals' : i \in DOMAIN vals /\ i + 1 \in DOMAIN vals
      BY <1>2, <2>2
    <2>4. \A i \in DOMAIN vals' : KeptRate(vals[i]) /\ KeptRate(vals[i + 1])
      BY <1>3, <2>3
    <2> QED
      BY <2>2, <2>4
  <1> QED
    BY <1>4, <1>5, <1>6

LEMMA AcknowledgeRates ==
    ASSUME QueriesInv, Books, HostInv, RatesInv, AcknowledgeICA
    PROVE  RatesInv'
  <1> DEFINE p == Head(channel.pkts)
             e == Effects(p)
  <1>1. /\ vals' = Booked(vals, e) /\ tainted' = tainted
        /\ p.status = "ok" => CallbackSucceeds(p)
        /\ responses' = IF p.status = "ok" THEN Race(p) ELSE responses
    BY AcknowledgeBooks
  <1>2. p \in Pkt /\ Shaped(p)
    BY TailPackets DEF AcknowledgeICA
  <1>3. vals \in ValidatorList /\ \A i \in DOMAIN vals : vals[i] \in Entry
    BY ListFacts DEF Books, ValidatorList
  <1>4. MovesOK(e)
    BY <1>1, <1>2, EffectsRegistered
  <1>5. \A i \in DOMAIN vals' : KeptRate(vals'[i])
    <2>1. /\ DOMAIN vals' = DOMAIN vals
          /\ \A i \in DOMAIN vals : vals'[i] = [vals[i] EXCEPT !.amt = @ + Net(e, vals[i].addr)]
      BY <1>1, <1>3, <1>4, BookedEntries
    <2> HIDE DEF e
    <2> SUFFICES ASSUME NEW i \in DOMAIN vals PROVE KeptRate(vals'[i])
      BY <2>1
    <2> DEFINE n == vals[i].amt + Net(e, vals[i].addr)
    <2>2. vals'[i] = [vals[i] EXCEPT !.amt = n]
      BY <2>1
    <2> HIDE DEF n
    <2>3. vals'[i].fresh = vals[i].fresh /\ vals'[i].addr = vals[i].addr /\ vals'[i].rate = vals[i].rate
      BY <1>3, <2>2 DEF Entry
    <2> QED
      BY <2>3 DEF KeptRate
  <1>6. \A a \in Addresses : Amount(vals', a) = Amount(vals, a) + (IF p.status = "ok" THEN Net(p.moves, a) ELSE 0)
    BY <1>1, <1>2, BookedAmount
  <1>7. \A a : Amount(vals, a) \in Int
    BY <1>3, AmountInt
  <1> HIDE DEF p, e
  <1>8. RatesAre(vals', tainted')
    BY <1>1, <1>5, KeptRates
  <1>9. \A r \in responses' : r.addr \notin tainted' => Shows(r, vals')
    <2>1. CASE p.status = "ok"
      <3>1. ASSUME NEW a \in Addresses \ Touched(p) PROVE Amount(vals', a) = Amount(vals, a)
        <4>1. Net(p.moves, a) = 0
          BY <1>2, <3>1, UntouchedNet
        <4>2. Amount(vals', a) = Amount(vals, a) + 0
          BY <1>6, <2>1, <4>1
        <4> QED
          BY <1>7, <4>2
      <3>2. responses' = Race(p)
        BY <1>1, <2>1
      <3> QED
        BY <1>1, <3>1, <3>2, RacedAnswers
    <2>2. CASE p.status # "ok"
      <3>1. ASSUME NEW a \in Addresses PROVE Amount(vals', a) = Amount(vals, a)
        <4>1. Amount(vals', a) = Amount(vals, a) + 0
          BY <1>6, <2>2
        <4> QED
          BY <1>7, <4>1
      <3> QED
        BY <1>1, <2>2, <3>1, KeptAnswers
    <2> QED
      BY <2>1, <2>2
  <1> QED
    BY <1>8, <1>9 DEF RatesInv

LEMMA RatesStep ==
    ASSUME QueriesInv, BooksInv, LedgerInv, RatesInv, [Next]_vars
    PROVE  RatesInv'
  <1>0. Books /\ HostInv /\ (\A w \in Weights : w \in Nat)
    BY ValidatorsAssumption DEF BooksInv
  <1>1. ASSUME tainted \subseteq tainted', responses' = responses,
               \A i \in DOMAIN vals' : KeptRate(vals'[i]),
               \A a \in Addresses : Amount(vals', a) = Amount(vals, a)
        PROVE  RatesInv'
    <2>1. RatesAre(vals', tainted')
      BY <1>1, KeptRates
    <2>2. \A r \in responses' : r.addr \notin tainted' => Shows(r, vals')
      BY <1>1, KeptAnswers
    <2> QED
      BY <2>1, <2>2 DEF RatesInv
  <1>2. CASE \/ UNCHANGED vars \/ EnterBufferWindow \/ TimeoutICA \/ RestoreInterchainAccount \/ EndBlocker
             \/ \E n \in NumRebalance : RebalanceValidators(n)
             \/ \E a \in Addresses, f \in SlashFactors : Slash(a, f)
             \/ \E a \in Addresses : QueryValidatorExchangeRate(a)
    <2>1. vals' = vals /\ responses' = responses /\ tainted \subseteq tainted'
      BY <1>2 DEF vars, icq, EnterBufferWindow, TimeoutICA, RestoreInterchainAccount, EndBlocker,
                  RebalanceValidators, Slash, QueryValidatorExchangeRate
    <2>2. \A i \in DOMAIN vals' : KeptRate(vals'[i])
      BY <2>1 DEF KeptRate
    <2> QED
      BY <1>1, <2>1, <2>2
  <1>3. ASSUME \/ \E a \in Addresses, w \in Nat : AddValidatorToHostZone(a, w)
               \/ \E a \in Addresses, w \in Nat : ChangeValidatorWeight(a, w)
               \/ \E a \in Addresses : RemoveValidatorFromHostZone(a)
        PROVE  RatesInv'
    <2>1. \A i \in DOMAIN vals' : KeptRate(vals'[i])
      BY <1>0, <1>3, AdministeredRates
    <2>2. \A a : Amount(vals', a) = Amount(vals, a)
      BY <1>0, <1>3, AdministeredAmounts
    <2>3. responses' = responses /\ tainted' = tainted
      BY <1>3 DEF AddValidatorToHostZone, ChangeValidatorWeight, RemoveValidatorFromHostZone, icq
    <2> QED
      BY <1>1, <2>1, <2>2, <2>3
  <1>4. CASE \E a \in Addresses : AddValidators(a) \/ AddValidatorsProposal(a)
    <2>1. MinWeight(vals) \in Nat
      BY <1>0, MinWeightNat DEF Books
    <2> QED
      BY <1>0, <1>3, <1>4, <2>1 DEF AddValidators, AddValidatorsProposal
  <1>5. CASE \E a \in Addresses, w \in Weights : ChangeValidatorWeight(a, w)
    BY <1>0, <1>3, <1>5
  <1>6. CASE \E a \in Addresses : RemoveValidatorFromHostZone(a)
    BY <1>3, <1>6
  <1>7. CASE \E d \in DepositAmounts \cup {0}, u \in UnbondAmounts \cup {0} : BeginEpoch(d, u)
    <2>1. /\ UNCHANGED <<responses, tainted>> /\ Registered(vals') = Registered(vals)
          /\ \A b \in Registered(vals) : Val(vals', b).amt = Val(vals, b).amt
          /\ \A i \in DOMAIN vals' : ~vals'[i].fresh
      BY <1>0, <1>7, BeginEpochBooks
    <2>2. \A a \in Addresses : Amount(vals', a) = Amount(vals, a)
      BY <2>1 DEF Amount
    <2>3. \A i \in DOMAIN vals' : KeptRate(vals'[i])
      BY <2>1 DEF KeptRate
    <2> QED
      BY <1>1, <2>1, <2>2, <2>3
  <1>8. CASE \E ok \in BOOLEAN : ExecuteICA(ok)
    <2>1. PICK ok \in BOOLEAN : ExecuteICA(ok)
      BY <1>8
    <2> DEFINE p == channel.pkts[NextSent]
    <2>2. /\ vals' = vals /\ tainted' = tainted
          /\ ~ok => responses' = responses
          /\ ok => responses' = Race(p)
      BY <1>0, <2>1, ExecuteBooks
    <2> HIDE DEF p
    <2>3. \A i \in DOMAIN vals' : KeptRate(vals'[i])
      BY <2>2 DEF KeptRate
    <2>4. CASE ok
      <3>1. responses' = Race(p)
        BY <2>2, <2>4
      <3>2. \A r \in responses' : r.addr \notin tainted' => Shows(r, vals')
        BY <2>2, <3>1, RacedAnswers
      <3>3. RatesAre(vals', tainted')
        BY <2>2, <2>3, KeptRates
      <3> QED
        BY <3>2, <3>3 DEF RatesInv
    <2>5. CASE ~ok
      BY <1>1, <2>2, <2>3, <2>5
    <2> QED
      BY <2>4, <2>5
  <1>9. CASE AcknowledgeICA
    BY <1>0, <1>9, AcknowledgeRates
  <1>10. CASE \E q \in queries : ReadHost(q)
    BY <1>10, ReadRates
  <1>11. CASE \E r \in responses, again \in BOOLEAN : SubmitQueryResponse(r, again)
    BY <1>11, SubmitRates
  <1> QED
    BY <1>2, <1>4, <1>5, <1>6, <1>7, <1>8, <1>9, <1>10, <1>11 DEF Next

LEMMA RatesInvHolds == Spec => []RatesInv
  <1>1. Init => RatesInv
    <2> SUFFICES ASSUME Init PROVE RatesInv
      OBVIOUS
    <2>1. \A i \in DOMAIN vals : ~vals[i].fresh
      BY DEF Init, NewValidator
    <2>2. responses = {}
      BY DEF Init
    <2> QED
      BY <2>1, <2>2 DEF RatesInv, RatesAre
  <1>2. QueriesInv /\ BooksInv /\ LedgerInv /\ RatesInv /\ [Next]_vars => RatesInv'
    BY RatesStep
  <1> QED
    BY <1>1, <1>2, QueriesInvHolds, BooksInvHolds, LedgerInvHolds, PTL DEF Spec

\* A query changes the books of a validator only when the host has slashed it,
\* or the books were cut off from the host, or stake of it was moved around the
\* time the answer was read: a rate and shares that were read at different times
\* do not look like a slash by themselves.
THEOREM SlashesAreRealHolds == Spec => SlashesAreReal
  <1>1. QueriesInv /\ BooksInv /\ RatesInv /\ [Next]_vars =>
          [\A r \in responses :
             (\E again \in BOOLEAN : SubmitQueryResponse(r, again)) /\ stakedBal' # stakedBal
               => r.addr \in tainted \/ r.raced]_vars
    <2> SUFFICES ASSUME QueriesInv, BooksInv, RatesInv, NEW r \in responses, NEW again \in BOOLEAN,
                        SubmitQueryResponse(r, again), r.addr \notin tainted, ~r.raced
                 PROVE  stakedBal' = stakedBal
      OBVIOUS
    <2> DEFINE a == r.addr
               w == Val(vals, a)
    <2>1. Answered(r, vals', stakedBal')
      BY SubmitBooks DEF BooksInv
    <2>2. vals \in ValidatorList /\ stakedBal \in Int
      BY ListFacts DEF BooksInv, Books, ValidatorList
    <2>3. CASE stakedBal' = stakedBal
      BY <2>3
    <2>4. ASSUME a \in Registered(vals), NEW v \in Entry, stakedBal' = stakedBal + v.amt - w.amt,
                 v.amt = w.amt
          PROVE  stakedBal' = stakedBal
      BY <2>2, <2>4 DEF Entry
    <2>5. ASSUME a \in Registered(vals), NEW v \in Entry, stakedBal' = stakedBal + v.amt - w.amt,
                 r.kind # "validator", v.rate = w.rate, v.fresh = w.fresh, v.fresh,
                 v.amt = TruncateInt(Mul(r.value, v.rate))
          PROVE  stakedBal' = stakedBal
      <3>1. w.amt = Amount(vals, a) /\ Amount(vals, a) \in Int
        BY <2>2, <2>5, AmountInt DEF Amount
      <3>2. r.value = NewDecFromInt(Amount(vals, a))
        BY <2>5 DEF RatesInv, Shows
      <3>3. v.rate = NewDecFromInt(1)
        BY <2>2, <2>5, IndexOf DEF RatesInv, RatesAre
      <3> DEFINE A == Amount(vals, a)
      <3> HIDE DEF A
      <3>4. v.amt = A
        <4>1. A \in Int /\ v.amt = TruncateInt(Mul(NewDecFromInt(A), NewDecFromInt(1)))
          BY <2>5, <3>1, <3>2, <3>3 DEF A
        <4> QED
          BY <4>1, MulExact, TruncateExact
      <3> QED
        BY <2>4, <2>5, <3>1, <3>4 DEF A
    <2> QED
      BY <2>1, <2>3, <2>4, <2>5 DEF Answered
  <1> QED
    BY <1>1, QueriesInvHolds, BooksInvHolds, RatesInvHolds, PTL DEF Spec, SlashesAreReal
=============================================================================
