----------------------------- MODULE Validators -----------------------------
(***************************************************************************)
(* The validators of one host zone: their weights, the delegation x/stakeibc*)
(* records for each of them, the splitting of delegations and              *)
(* undelegations by weight, rebalancing, and the interchain queries that   *)
(* find out about slashes.  Three things run side by side: the DELEGATION  *)
(* channel (ordered, closed by a timeout), the queries of                  *)
(* x/interchainquery with their responses, and the host chain, which       *)
(* executes, slashes and is read at times of its own.                      *)
(*                                                                         *)
(* Time is the part of the stride epoch that has passed: before its buffer *)
(* window or in it.  Packets may be executed in either, see Epochs for     *)
(* their deadlines.  Which deposits and redemptions there are is the       *)
(* business of DepositRecords and UnbondingRecords; here they are amounts. *)
(***************************************************************************)
EXTENDS Dec, FiniteSets, Sequences, SequencesExt

CONSTANTS
    Addresses,               \* validator addresses, as numbers in string order
    Weights,                 \* weights an administrator may choose
    Uint64,                  \* weights are added modulo this number
    InitialValidators,       \* the set at first, with delegations already made
    DepositAmounts,          \* amounts of deposits to be delegated
    UnbondAmounts,           \* amounts of redemptions to be undelegated
    SafetyNumValidators,     \* stakeibc parameters of the same names
    SafetyMaxSlashPercent,
    PrecisionErrorThreshold, \* DelegatorSharesCallback's, 25 in the code
    NumRebalance,            \* numbers of redelegations that may be asked for
    SlashFactors,            \* decimals: what a slash leaves of the tokens
    Changes,                 \* bound on the administrator's messages
    Slashes,                 \* bound on the slashes
    Requests,                \* bound on the messages that start a slash query
    Epochs,                  \* bound on the stride epochs
    MaxPackets,              \* bound on the outstanding packets
    MaxResponses             \* bound on the responses under way

ASSUME ValidatorsAssumption ==
    /\ Addresses \subseteq Nat \ {0}
    /\ IsFiniteSet(Addresses)
    /\ Weights \subseteq 0..Uint64 - 1
    /\ Uint64 \in Nat \ {0, 1}
    /\ InitialValidators \in Seq([addr : Addresses, weight : 0..Uint64 - 1, amt : Nat])
    /\ \A i, j \in DOMAIN InitialValidators :
         InitialValidators[i].addr = InitialValidators[j].addr => i = j
    /\ DepositAmounts \cup UnbondAmounts \subseteq Nat \ {0}
    /\ {SafetyNumValidators, SafetyMaxSlashPercent, PrecisionErrorThreshold,
        Changes, Slashes, Requests, Epochs, MaxPackets, MaxResponses} \subseteq Nat
    /\ NumRebalance \subseteq Nat
    /\ SlashFactors \subseteq 1..Precision - 1

VARIABLES
    vals,       \* HostZone.Validators
    stakedBal,  \* HostZone.StakedBal
    phase,      \* part of the stride epoch
    channel,    \* DELEGATION channel: open or not, and outstanding packets
    queries,    \* Query store of x/interchainquery
    responses,  \* responses relayers have read on the host
    shares,     \* host: shares of the delegation account, decimals
    hostRate,   \* host: tokens per share of each validator, decimals
    left,       \* what is left of the bounds
    tainted,    \* history: validators slashed by the host, or with a lost
                \* acknowledgement, or changed by the answer to a query
    answers     \* history: callbacks since the last request of each query

icq == <<queries, responses, answers>>
host == <<shares, hostRate>>
vars == <<vals, stakedBal, phase, channel, icq, host, left, tainted>>

Kinds == {"validator", "delegation"}
Query == [kind : Kinds, addr : Addresses, sent : BOOLEAN, expired : BOOLEAN]
Validator == [addr : Addresses, weight : 0..Uint64 - 1, amt : Int,
              rate : Nat, fresh : BOOLEAN]  \* fresh: the rate is this epoch's
NewValidator(addr, weight, amt) ==
    [addr |-> addr, weight |-> weight, amt |-> amt, rate |-> 0, fresh |-> FALSE]

Registered(vs) == {vs[i].addr : i \in DOMAIN vs}
Index(vs, a) == CHOOSE i \in DOMAIN vs : vs[i].addr = a
Val(vs, a) == vs[Index(vs, a)]
AddAmounts(vs, change) ==
    [i \in DOMAIN vs |-> [vs[i] EXCEPT !.amt = @ + change[vs[i].addr]]]
Sign(n) == IF n < 0 THEN -1 ELSE 1
Abs(n) == Sign(n) * n

Init ==
    /\ vals = [i \in DOMAIN InitialValidators |->
                 NewValidator(InitialValidators[i].addr, InitialValidators[i].weight,
                              InitialValidators[i].amt)]
    /\ stakedBal = SumFunction([i \in DOMAIN InitialValidators |-> InitialValidators[i].amt])
    /\ phase = "open"
    /\ channel = [open |-> TRUE, pkts |-> <<>>]
    /\ queries = {}
    /\ responses = {}
    /\ shares = [a \in Addresses |-> IF a \in Registered(InitialValidators)
                                     THEN NewDecFromInt(Val(InitialValidators, a).amt) ELSE 0]
    /\ hostRate = [a \in Addresses |-> NewDecFromInt(1)]
    /\ left = [changes |-> Changes, slashes |-> Slashes,
               requests |-> Requests, epochs |-> Epochs]
    /\ tainted = {}
    /\ answers = [k \in Kinds |-> [a \in Addresses |-> 0]]

-----------------------------------------------------------------------------
(* Splitting an amount by weight *)

GetTotalValidatorDelegations(vs) == SumFunction([i \in DOMAIN vs |-> vs[i].amt])
WeightSum(vs) == SumFunction([i \in DOMAIN vs |-> vs[i].weight])
GetTotalValidatorWeight(vs) == WeightSum(vs) % Uint64

\* The order of the list once it is reversed, then stably sorted by weight.
Before(vs, i, j) ==
    vs[i].weight < vs[j].weight \/ (vs[i].weight = vs[j].weight /\ i > j)

Share(vs, final) ==
    [i \in DOMAIN vs |-> (vs[i].weight * final) \div GetTotalValidatorWeight(vs)]
LastByWeight(vs) == CHOOSE i \in DOMAIN vs : \A j \in DOMAIN vs \ {i} : Before(vs, j, i)

\* Mutated: the last validator gets its share and not the remainder.
GetTargetValAmtsForHostZone_noRemainder(vs, final) ==
    [a \in Registered(vs) |-> Share(vs, final)[Index(vs, a)]]

\* Mutated: the shares are rounded up.
GetTargetValAmtsForHostZone_roundsUp(vs, final) ==
    LET share == [i \in DOMAIN vs |-> -((-vs[i].weight * final) \div GetTotalValidatorWeight(vs))]
        last == LastByWeight(vs)
        rest == final - SumFunctionOnSet(share, DOMAIN vs \ {last})
    IN  [a \in Registered(vs) |-> IF Index(vs, a) = last THEN rest ELSE share[Index(vs, a)]]

GetTargetValAmtsForHostZone(vs, final) ==
    LET share == Share(vs, final)
        last == LastByWeight(vs)
        rest == final - SumFunctionOnSet(share, DOMAIN vs \ {last})
    IN  [a \in Registered(vs) |-> IF Index(vs, a) = last THEN rest ELSE share[Index(vs, a)]]

CanSplit(vs, final) == final # 0 /\ GetTotalValidatorWeight(vs) # 0

\* GetHostZoneUnbondingMsgs: no validator gives more than it has; what is
\* missing is taken from the others, in the order of the sorted list.
CappedUnbondings(vs, target) ==
    [a \in Registered(vs) |-> IF target[a] > Val(vs, a).amt THEN Val(vs, a).amt ELSE target[a]]

\* The loop over the sorted list takes from validator i what those before it
\* have left of the overflow, and at most what it has room for.
UnbondingSplit(vs, total) ==
    LET capped == CappedUnbondings(vs, GetTargetValAmtsForHostZone(vs, total))
        room == [i \in DOMAIN vs |-> vs[i].amt - capped[vs[i].addr]]
        overflow == total - SumFunction(capped)
        rest(i) == overflow - SumFunctionOnSet(room, {j \in DOMAIN vs : Before(vs, j, i)})
        taken(i) == IF rest(i) <= 0 THEN 0
                    ELSE IF rest(i) > room[i] THEN room[i] ELSE rest(i)
    IN  [a \in Registered(vs) |-> capped[a] + taken(Index(vs, a))]

-----------------------------------------------------------------------------
(* Rebalancing *)

GetValidatorDelegationAmtDifferences(vs) ==
    LET target == GetTargetValAmtsForHostZone(vs, GetTotalValidatorDelegations(vs))
    IN  [a \in Registered(vs) |-> target[a] - Val(vs, a).amt]

SortedByDelta(delta) ==
    CHOOSE s \in SetToSeqs(DOMAIN delta) : \A i, j \in DOMAIN s : i < j =>
        delta[s[i]] < delta[s[j]] \/ (delta[s[i]] = delta[s[j]] /\ s[i] < s[j])

\* One round of the loop of RebalanceValidators.  The elements it takes from
\* the list are copies: the amounts it deducts are gone in the next round.
Round(s, list, delta) ==
    LET move(a, b, amt) == [s EXCEPT !.moves = Append(@, [src |-> b, dst |-> a, amt |-> amt])]
        step(a, b, need, surplus) ==
            IF need < 0 \/ surplus < 0 THEN [s EXCEPT !.done = TRUE]
            ELSE IF need > surplus THEN [move(a, b, surplus) EXCEPT !.over = @ + 1]
            ELSE IF need < surplus THEN [move(a, b, need) EXCEPT !.under = @ - 1]
            ELSE [move(a, b, need) EXCEPT !.over = @ + 1, !.under = @ - 1]
    IN  IF s.done \/ s.panic THEN s
        ELSE IF s.under < 1 \/ s.over > Len(list) THEN [s EXCEPT !.panic = TRUE]
        ELSE step(list[s.under], list[s.over], delta[list[s.under]], -delta[list[s.over]])

Rounds(list, delta, num) ==
    LET loop[n \in 0..num] ==
          IF n = 0 THEN [under |-> Len(list), over |-> 1, moves |-> <<>>,
                         done |-> FALSE, panic |-> FALSE]
          ELSE Round(loop[n - 1], list, delta)
    IN  loop[num]

Redelegations(vs, num) ==
    LET delta == GetValidatorDelegationAmtDifferences(vs)
    IN  Rounds(SortedByDelta(delta), delta, num)

-----------------------------------------------------------------------------
(* The administrator's and governance's messages *)

ConfirmValSetHasSpace(vs) ==
    Cardinality({i \in DOMAIN vs : vs[i].weight > 0}) < SafetyNumValidators

Administer ==
    /\ phase # "halted"
    /\ left.changes > 0
    /\ left' = [left EXCEPT !.changes = @ - 1]

AddValidatorToHostZone(addr, weight) ==
    /\ Administer
    /\ ConfirmValSetHasSpace(vals)
    /\ addr \notin Registered(vals)
    /\ vals' = Append(vals, NewValidator(addr, weight, 0))
    /\ UNCHANGED <<stakedBal, phase, channel, icq, host, tainted>>

\* MaxUint64 when no validator has a weight.
MinWeight(vs) ==
    LET nonzero == {vs[i].weight : i \in DOMAIN vs} \ {0}
    IN  IF nonzero = {} THEN Uint64 - 1 ELSE Min(nonzero)

AddValidators(addr) == \E w \in Weights : AddValidatorToHostZone(addr, w)
AddValidatorsProposal(addr) == AddValidatorToHostZone(addr, MinWeight(vals))

ChangeValidatorWeight(addr, weight) ==
    /\ Administer
    /\ addr \in Registered(vals)
    /\ Val(vals, addr).weight = 0 /\ weight > 0 => ConfirmValSetHasSpace(vals)
    /\ vals' = [i \in DOMAIN vals |->
                  IF vals[i].addr = addr THEN [vals[i] EXCEPT !.weight = weight]
                                         ELSE vals[i]]
    /\ UNCHANGED <<stakedBal, phase, channel, icq, host, tainted>>

RemoveValidatorFromHostZone(addr) ==
    /\ Administer
    /\ addr \in Registered(vals)
    /\ Val(vals, addr).amt = 0 /\ Val(vals, addr).weight = 0
    /\ vals' = RemoveAt(vals, Index(vals, addr))
    /\ UNCHANGED <<stakedBal, phase, channel, icq, host, tainted>>

-----------------------------------------------------------------------------
(* The DELEGATION channel.  A packet moves stake between validators, or     *)
(* between one and the delegation account.                                 *)

Account == 0  \* no address of a validator
Move(src, dst, amt) == [src |-> src, dst |-> dst, amt |-> amt]
Packet(kind, moves) == [kind |-> kind, moves |-> moves, status |-> "sent"]
Touched(p) == {p.moves[i].src : i \in DOMAIN p.moves}
                \cup {p.moves[i].dst : i \in DOMAIN p.moves}

\* What the moves change for validator a.
Net(moves, a) ==
    SumFunction([i \in DOMAIN moves |-> (IF moves[i].dst = a THEN moves[i].amt ELSE 0)
                                        - (IF moves[i].src = a THEN moves[i].amt ELSE 0)])

\* The messages of a split, numbered by the validator's address.
DelegationMoves(split) == [a \in DOMAIN split |-> Move(Account, a, split[a])]
UndelegationMoves(split) ==
    [a \in {b \in DOMAIN split : split[b] # 0} |-> Move(a, Account, split[a])]

\* DelegateOnHost and GetHostZoneUnbondingMsgs put every part in a coin, which
\* panics when it is negative.
Delegations(d) ==
    IF d = 0 \/ ~CanSplit(vals, d) THEN <<>>
    ELSE <<Packet("delegate", DelegationMoves(GetTargetValAmtsForHostZone(vals, d)))>>
Undelegations(u) ==
    IF u = 0 \/ ~CanSplit(vals, u) THEN <<>>
    ELSE LET split == UnbondingSplit(vals, u)
         IN  IF SumFunction(split) = u
             THEN <<Packet("undelegate", UndelegationMoves(split))>> ELSE <<>>
Panics(pkts) == \E i \in DOMAIN pkts : \E j \in DOMAIN pkts[i].moves :
                   pkts[i].moves[j].amt < 0

\* The epoch hooks, in the BeginBlocker: a panic stops the chain.  Exchange
\* rates are now those of an earlier epoch, and queries are past their TTL.
BeginEpoch(d, u) ==
    /\ phase = "window"
    /\ left.epochs > 0
    /\ left' = [left EXCEPT !.epochs = @ - 1]
    /\ vals' = [i \in DOMAIN vals |-> [vals[i] EXCEPT !.fresh = FALSE]]
    /\ queries' = {[q EXCEPT !.expired = TRUE] : q \in queries}
    /\ LET new == Undelegations(u) \o Delegations(d) IN
       /\ Len(channel.pkts \o new) <= MaxPackets
       /\ phase' = IF Panics(new) THEN "halted" ELSE "open"
       /\ channel' = IF channel.open /\ ~Panics(new)
                     THEN [channel EXCEPT !.pkts = @ \o new] ELSE channel
    /\ UNCHANGED <<stakedBal, responses, answers, host, tainted>>

EnterBufferWindow ==
    /\ phase = "open"
    /\ phase' = "window"
    /\ UNCHANGED <<vals, stakedBal, channel, icq, host, left, tainted>>

\* A transaction: errors, panics included, change nothing.  A packet without
\* messages is refused by the controller.
RebalanceValidators(num) ==
    /\ Administer
    /\ GetTotalValidatorDelegations(vals) # 0
    /\ CanSplit(vals, GetTotalValidatorDelegations(vals))
    /\ channel.open /\ Len(channel.pkts) < MaxPackets
    /\ LET r == Redelegations(vals, num) IN
       /\ ~r.panic /\ r.moves # <<>>
       /\ channel' = [channel EXCEPT !.pkts = Append(@, Packet("rebalance", r.moves))]
    /\ UNCHANGED <<vals, stakedBal, phase, icq, host, tainted>>

(* The host chain.  It executes packets in order, all messages of one or    *)
(* none; a redelegation or an undelegation needs the stake it moves.       *)

Tokens(a) == TruncateInt(Mul(shares[a], hostRate[a]))

Feasible(p) ==
    \A i \in DOMAIN p.moves :
        LET m == p.moves[i] IN
        /\ p.kind = "rebalance" => m.amt > 0
        /\ m.src # Account =>
             m.amt <= Tokens(m.src) + Net(Restrict(p.moves, {j \in DOMAIN p.moves : j < i}), m.src)

NextSent == CHOOSE i \in DOMAIN channel.pkts :
              /\ channel.pkts[i].status = "sent"
              /\ \A j \in 1..i - 1 : channel.pkts[j].status # "sent"
SomeSent == \E i \in DOMAIN channel.pkts : channel.pkts[i].status = "sent"

\* Responses that concern a validator of packet p no longer show the present.
Race(p) == {IF r.addr \in Touched(p) THEN [r EXCEPT !.raced = TRUE] ELSE r : r \in responses}

\* The shares of validator a after a change of its tokens.  The host does not
\* take more shares than there are, which rounding may ask for.
Exchanged(a, net) ==
    LET new == shares[a] + Sign(net) * Quo(NewDecFromInt(Abs(net)), hostRate[a])
    IN  IF new < 0 THEN 0 ELSE new

ExecuteICA(ok) ==
    /\ SomeSent
    /\ LET p == channel.pkts[NextSent] IN
       /\ ok => Feasible(p)
       /\ channel' = [channel EXCEPT !.pkts[NextSent].status = IF ok THEN "ok" ELSE "failed"]
       /\ shares' = IF ok
                    THEN [a \in Addresses |-> Exchanged(a, Net(p.moves, a))] ELSE shares
       /\ responses' = IF ok THEN Race(p) ELSE responses
    /\ UNCHANGED <<vals, stakedBal, phase, queries, answers, hostRate, left, tainted>>

\* A slash leaves something: a validator whose shares are worth nothing takes
\* no delegations any more.
Slash(a, factor) ==
    /\ left.slashes > 0
    /\ shares[a] > 0 /\ Mul(hostRate[a], factor) > 0
    /\ hostRate' = [hostRate EXCEPT ![a] = Mul(@, factor)]
    /\ left' = [left EXCEPT !.slashes = @ - 1]
    /\ tainted' = tainted \cup {a}
    /\ UNCHANGED <<vals, stakedBal, phase, channel, icq, shares>>

-----------------------------------------------------------------------------
(* Acknowledgements and timeouts *)

\* Whether the callback of an executed packet returns without an error, and
\* what it adds to the staked balance.
DelegateCallback(p) == \A m \in Range(p.moves) : m.dst \in Registered(vals)
\* Mutated: the last of a delegation cannot be undelegated.
UndelegateCallback_strict(p) ==
    /\ \A m \in Range(p.moves) : m.src \in Registered(vals) /\ m.amt < Val(vals, m.src).amt
    /\ Net(p.moves, Account) <= stakedBal

UndelegateCallback(p) ==
    /\ \A m \in Range(p.moves) : m.src \in Registered(vals) /\ m.amt <= Val(vals, m.src).amt
    /\ Net(p.moves, Account) <= stakedBal
RebalanceCallback(p) == Touched(p) \subseteq Registered(vals)
CallbackSucceeds(p) ==
    CASE p.kind = "delegate" -> DelegateCallback(p)
      [] p.kind = "undelegate" -> UndelegateCallback(p)
      [] p.kind = "rebalance" -> RebalanceCallback(p)

\* Mutated: the callback does not look at the status of the acknowledgement.
Effects_always(p) == p.moves

\* Mutated: the callback books a redelegation the wrong way round.
Effects_swapped(p) ==
    IF p.status # "ok" THEN <<>>
    ELSE IF p.kind = "rebalance"
    THEN [i \in DOMAIN p.moves |-> Move(p.moves[i].dst, p.moves[i].src, p.moves[i].amt)]
    ELSE p.moves

\* The moves an acknowledged packet is booked with.
Effects(p) == IF p.status = "ok" THEN p.moves ELSE <<>>

\* Acknowledgements come in order; one whose callback fails is not received.
AcknowledgeICA ==
    /\ phase # "halted"
    /\ channel.open /\ channel.pkts # <<>>
    /\ LET p == Head(channel.pkts) IN
       /\ p.status # "sent"
       /\ p.status = "ok" => CallbackSucceeds(p)
       /\ vals' = AddAmounts(vals, [a \in Registered(vals) |-> Net(Effects(p), a)])
       /\ stakedBal' = stakedBal - Net(Effects(p), Account)
       /\ responses' = IF p.status = "ok" THEN Race(p) ELSE responses
    /\ channel' = [channel EXCEPT !.pkts = Tail(@)]
    /\ UNCHANGED <<phase, queries, answers, host, left, tainted>>

\* A packet the host has not received times out: the channel closes.  What
\* was executed and not yet acknowledged is never acknowledged.
TimeoutICA ==
    /\ phase # "halted"
    /\ channel.open /\ SomeSent
    /\ channel' = [open |-> FALSE, pkts |-> <<>>]
    /\ LET executed == {p \in Range(channel.pkts) : p.status = "ok"} IN
       tainted' = tainted \cup ((UNION {Touched(p) : p \in executed}) \ {Account})
    /\ UNCHANGED <<vals, stakedBal, phase, icq, host, left>>

RestoreInterchainAccount ==
    /\ phase # "halted"
    /\ ~channel.open
    /\ channel' = [channel EXCEPT !.open = TRUE]
    /\ UNCHANGED <<vals, stakedBal, phase, icq, host, left, tainted>>

-----------------------------------------------------------------------------
(* x/interchainquery, and the two queries that detect a slash *)

NewQuery(kind, a) == [kind |-> kind, addr |-> a, sent |-> FALSE, expired |-> FALSE]
SameId(q, r) == q.kind = r.kind /\ q.addr = r.addr

\* A request replaces the one with the same id.
MakeRequest(qs, kind, a) ==
    {q \in qs : ~SameId(q, NewQuery(kind, a))} \cup {NewQuery(kind, a)}
Asked(kind, a) == [answers EXCEPT ![kind][a] = 0]

\* UpdateValidatorSharesExchRate; anybody may send it, for any address.
QueryValidatorExchangeRate(a) ==
    /\ phase = "window"
    /\ left.requests > 0
    /\ left' = [left EXCEPT !.requests = @ - 1]
    /\ queries' = MakeRequest(queries, "validator", a)
    /\ answers' = Asked("validator", a)
    /\ UNCHANGED <<vals, stakedBal, phase, channel, responses, host, tainted>>

\* EndBlocker: events for relayers.
EndBlocker ==
    /\ phase # "halted"
    /\ \E q \in queries : ~q.sent
    /\ queries' = {[q EXCEPT !.sent = TRUE] : q \in queries}
    /\ UNCHANGED <<vals, stakedBal, phase, channel, responses, answers, host, left, tainted>>

\* A relayer sees the event and reads the host's store: the rate or the
\* shares, 0 when there is no delegation.  raced: packets of this validator
\* have been executed and not acknowledged.
ReadHost(q) ==
    /\ q \in queries /\ q.sent
    /\ Cardinality(responses) < MaxResponses
    /\ responses' = responses \cup
         {[kind |-> q.kind, addr |-> q.addr,
           value |-> IF q.kind = "validator" THEN hostRate[q.addr] ELSE shares[q.addr],
           raced |-> \E p \in Range(channel.pkts) : p.status = "ok" /\ q.addr \in Touched(p)]}
    /\ UNCHANGED <<vals, stakedBal, phase, channel, queries, answers, host, left, tainted>>

\* The callbacks: what they make of the validators, the staked balance and
\* the queries, or Error.
Unchanged(qs) == [err |-> FALSE, vals |-> vals, stakedBal |-> stakedBal, queries |-> qs]
Error == [Unchanged(queries) EXCEPT !.err = TRUE]

SetVal(v) == [i \in DOMAIN vals |-> IF vals[i].addr = v.addr THEN v ELSE vals[i]]

ValidatorExchangeRateCallback(r, qs) ==
    IF phase # "window" \/ r.addr \notin Registered(vals) THEN Error
    ELSE [Unchanged(qs) EXCEPT
            !.vals = SetVal([Val(vals, r.addr) EXCEPT !.rate = r.value, !.fresh = TRUE]),
            !.queries = MakeRequest(qs, "delegation", r.addr)]

SlashPct(tokens, amt) == Quo(NewDecFromInt(amt - tokens), NewDecFromInt(amt))

\* Mutated: the staked balance is left as it was.
Slashed_stakedBal(v, tokens, qs) ==
    [Unchanged(qs) EXCEPT
       !.vals = SetVal([v EXCEPT !.amt = tokens,
                  !.weight = TruncateInt(Mul(NewDecFromInt(@), Quo(tokens, v.amt)))])]

Slashed(v, tokens, qs) ==
    [Unchanged(qs) EXCEPT
       !.vals = SetVal([v EXCEPT !.amt = tokens,
                  !.weight = TruncateInt(Mul(NewDecFromInt(@), Quo(tokens, v.amt)))]),
       !.stakedBal = @ - (v.amt - tokens)]

DelegatorSharesCallback(r, qs) ==
    LET v == Val(vals, r.addr)
        tokens == TruncateInt(Mul(r.value, v.rate))
        maxSlash == Quo(NewDecFromInt(SafetyMaxSlashPercent), NewDecFromInt(100))
    IN  IF phase # "window" \/ r.addr \notin Registered(vals) \/ ~v.fresh THEN Error
        ELSE IF tokens = v.amt THEN Unchanged(qs)
        ELSE IF tokens > v.amt
        THEN IF tokens - v.amt > PrecisionErrorThreshold THEN Error
             ELSE [Unchanged(qs) EXCEPT !.vals = SetVal([v EXCEPT !.amt = tokens]),
                                        !.stakedBal = @ + (tokens - v.amt)]
        ELSE IF SlashPct(tokens, v.amt) > maxSlash
                  \/ 2 * v.weight >= Uint64  \* no int64
        THEN Error ELSE Slashed(v, tokens, qs)

\* Mutated: the query stays in the store.
DeleteQuery_not(q) == queries

DeleteQuery(q) == queries \ {q}

\* An error rolls the transaction back.  A response to no query, to an expired
\* one or without content only removes the query.  A relayer may submit a
\* response again.
SubmitQueryResponse(r, again) ==
    /\ phase # "halted"
    /\ responses' = IF again THEN responses ELSE responses \ {r}
    /\ \/ /\ ~\E q \in queries : SameId(q, r)
          /\ UNCHANGED <<vals, stakedBal, queries, answers, tainted>>
       \/ \E q \in queries :
          /\ SameId(q, r)
          /\ LET qs == DeleteQuery(q)
                 res == IF q.expired \/ r.value = 0 THEN Unchanged(qs)
                        ELSE IF r.kind = "validator"
                        THEN ValidatorExchangeRateCallback(r, qs)
                        ELSE DelegatorSharesCallback(r, qs)
                 called == ~res.err /\ ~q.expired /\ r.value # 0
             IN  /\ vals' = res.vals
                 /\ stakedBal' = res.stakedBal
                 /\ queries' = res.queries
                 /\ answers' = [k \in Kinds |-> [a \in Addresses |->
                      IF called /\ k = r.kind /\ a = r.addr THEN answers[k][a] + 1
                      ELSE IF called /\ k = "delegation" /\ r.kind = "validator" /\ a = r.addr
                      THEN 0 ELSE answers[k][a]]]
                 /\ tainted' = IF res.stakedBal # stakedBal
                               THEN tainted \cup {r.addr} ELSE tainted
    /\ UNCHANGED <<phase, channel, host, left>>

-----------------------------------------------------------------------------
Next ==
    \/ \E a \in Addresses : AddValidators(a)
    \/ \E a \in Addresses : AddValidatorsProposal(a)
    \/ \E a \in Addresses, w \in Weights : ChangeValidatorWeight(a, w)
    \/ \E a \in Addresses : RemoveValidatorFromHostZone(a)
    \/ \E d \in DepositAmounts \cup {0}, u \in UnbondAmounts \cup {0} : BeginEpoch(d, u)
    \/ EnterBufferWindow
    \/ \E n \in NumRebalance : RebalanceValidators(n)
    \/ \E ok \in BOOLEAN : ExecuteICA(ok)
    \/ \E a \in Addresses, f \in SlashFactors : Slash(a, f)
    \/ AcknowledgeICA
    \/ TimeoutICA
    \/ RestoreInterchainAccount
    \/ \E a \in Addresses : QueryValidatorExchangeRate(a)
    \/ EndBlocker
    \/ \E q \in queries : ReadHost(q)
    \/ \E r \in responses, again \in BOOLEAN : SubmitQueryResponse(r, again)

Spec == Init /\ [][Next]_vars

-----------------------------------------------------------------------------
(* Properties *)

\* The staked balance of the host zone, which the redemption rate is computed
\* from, is the sum of what is recorded for the validators, whatever the order
\* in which callbacks of packets, answers to slash queries, changes of weights,
\* additions and removals come.
StakedBalIsSum == stakedBal = GetTotalValidatorDelegations(vals)

\* No validator gets a negative delegation on the books, which would stop the
\* chain at the next undelegation: the subtraction in RebalanceCallback is not
\* checked, and the amounts were computed when the message came, possibly
\* before an undelegation or a slash was booked.  Only the host's refusal to
\* move what is not there protects them.
DelegationNeverNegative ==
    \A i \in DOMAIN vals : vals[i].addr \notin tainted => vals[i].amt >= 0

\* A delegation or undelegation packet distributes amounts that no truncation
\* or redistribution among the validators has made more or less of: the parts
\* add up to an amount that was asked for, and none is negative.
SplitsAddUp ==
    \A p \in Range(channel.pkts) :
        /\ \A m \in Range(p.moves) : m.amt >= 0
        /\ p.kind = "delegate" => -Net(p.moves, Account) \in DepositAmounts
        /\ p.kind = "undelegate" => Net(p.moves, Account) \in UnbondAmounts

\* The epoch hooks do not stop the chain (a coin of a negative amount panics
\* in the BeginBlocker) unless the weights have overflowed 64 bits, which they
\* do when governance fills an empty set.
HaltsOnlyOnOverflow ==
    phase = "halted" => \/ WeightSum(vals) >= Uint64
                        \/ \E i \in DOMAIN vals : vals[i].amt < 0

\* A request runs its callback at most once, however often its response is
\* submitted and whichever of its responses comes first.
CallbackAtMostOnce == \A k \in Kinds, a \in Addresses : answers[k][a] <= 1

\* What the host will have done to validator a when it has acknowledged all it
\* has executed.
Unbooked(a) ==
    LET ok == {i \in DOMAIN channel.pkts : channel.pkts[i].status = "ok"}
    IN  SumFunction([i \in ok |-> Net(channel.pkts[i].moves, a)])

\* The recorded delegation of every validator is its delegation on the host
\* but for the acknowledgements under way, unless it was slashed, an
\* acknowledgement was lost or a query has corrected it; and a validator that
\* is not in the set has no delegation but one under way.
BooksMatchHost ==
    \A a \in Addresses \ tainted :
        Tokens(a) = Unbooked(a)
                      + (IF a \in Registered(vals) THEN Val(vals, a).amt ELSE 0)

\* The acknowledgement of an executed packet is accepted, so that the ordered
\* channel moves on, unless a validator it moves stake of has been removed
\* from the set, or slashed, or corrected in the meantime, or a correction has
\* left the books of some validator, and so the staked balance, too low.
AckNotStuck ==
    channel.pkts # <<>> /\ Head(channel.pkts).status = "ok"
      => \/ CallbackSucceeds(Head(channel.pkts))
         \/ ~(Touched(Head(channel.pkts)) \ {Account} \subseteq Registered(vals))
         \/ Touched(Head(channel.pkts)) \cap tainted # {}
         \/ \E i \in DOMAIN vals : vals[i].amt < 0

\* DelegatorSharesCallback takes any decrease for a slash.  It changes the
\* books of a validator only when that one has been slashed (or corrected, or
\* lost an acknowledgement) before, or a packet that moves its stake was
\* executed or acknowledged around the time the answer was read: in particular
\* never because of a rate and shares that do not belong together.
SlashesAreReal ==
    [][\A r \in responses :
         (\E again \in BOOLEAN : SubmitQueryResponse(r, again)) /\ stakedBal' # stakedBal
           => r.addr \in tainted \/ r.raced]_vars

\* "positive implies extra tokens need to be given, negative impleis tokens
\* need to be taken away" (validator_selection.go): a rebalancing that is
\* submitted gives a validator at most what it needs, and takes at most what
\* it has too much.
RebalanceMovesTowardTarget ==
    [][\A n \in NumRebalance : RebalanceValidators(n) =>
         LET delta == GetValidatorDelegationAmtDifferences(vals)
             moves == Last(channel'.pkts).moves
         IN  \A a \in Registered(vals) :
               Sign(delta[a]) * Net(moves, a) \in 0..Abs(delta[a])]_vars
=============================================================================
