---------------------------- MODULE EpochsProofs ----------------------------
(* Proofs about the epoch clock, for all identifiers, start times,         *)
(* durations, buffer sizes and block gaps, and about the mint that runs on *)
(* it, for all schedules, reduction factors, provisions and proportions.   *)
EXTENDS Mint, LedgerTheorems

\* Before counting starts the epoch number is 0 and no tracker exists.
NotStarted ==
    \A id \in Ids : ~info[id].started => info[id].currentEpoch = 0

EpochsInv == TypeOK /\ EpochGrid /\ TrackerInStep /\ NotStarted

\* The buffer is at most one epoch long, and is the integer part of
\* duration / BufferSize.
LEMMA BufferBounds ==
    ASSUME NEW d \in Nat \ {0}
    PROVE  /\ d \div BufferSize \in Nat
           /\ d \div BufferSize <= d
           /\ BufferSize * (d \div BufferSize) <= d
           /\ d < BufferSize * (d \div BufferSize) + BufferSize
  BY EpochsAssumption, Z3

\* The share of the epoch that has elapsed exceeds 1 - 1/BufferSize only once
\* the rounded-down buffer has begun.
LEMMA WindowBoundary ==
    ASSUME NEW d \in Nat \ {0}, NEW e \in Nat,
           e * BufferSize > d * (BufferSize - 1)
    PROVE  e >= d - d \div BufferSize
  <1> DEFINE q == d \div BufferSize
  <1>1. q \in Nat /\ d < BufferSize * q + BufferSize
    BY BufferBounds
  <1>2. BufferSize \in Nat \ {0}
    BY EpochsAssumption
  <1> HIDE DEF q
  <1>3. SUFFICES ASSUME e + 1 <= d - q PROVE FALSE
    BY <1>1 DEF q
  <1>4. (e + 1) * BufferSize <= (d - q) * BufferSize
    BY <1>1, <1>2, <1>3, Z3
  <1>5. e * BufferSize + BufferSize <= d * BufferSize - q * BufferSize
    BY <1>1, <1>2, <1>4, Z3
  <1>6. d * (BufferSize - 1) = d * BufferSize - d
    BY <1>2, Z3
  <1> QED
    BY <1>1, <1>2, <1>5, <1>6, Z3

\* What a block does to one identifier: it starts its first epoch, ...
FirstEpoch(id) ==
    /\ ~info[id].started
    /\ info'[id] = [started |-> TRUE, currentEpoch |-> 1,
                    startTime |-> StartTime[id]]
    /\ hooks'[id] = [afterEnd |-> 0, beforeStart |-> 1]
    /\ tracker'[id] = [epochNumber |-> 1,
                       nextEpochStartTime |-> StartTime[id] + Duration[id]]
    /\ StartTime[id] <= now'

\* ... ends an epoch and starts the next, ...
NextEpoch(id) ==
    /\ info[id].started
    /\ info'[id] = [started |-> TRUE,
                    currentEpoch |-> info[id].currentEpoch + 1,
                    startTime |-> info[id].startTime + Duration[id]]
    /\ hooks'[id] = [afterEnd |-> info[id].currentEpoch + 1,
                     beforeStart |-> info[id].currentEpoch + 1]
    /\ tracker'[id] = [epochNumber |-> info[id].currentEpoch + 1,
                       nextEpochStartTime |->
                          info[id].startTime + Duration[id] + Duration[id]]
    /\ info[id].startTime + Duration[id] < now'

\* ... or leaves it alone.
SameEpoch(id) ==
    /\ info'[id] = info[id]
    /\ tracker'[id] = tracker[id]
    /\ hooks'[id] = [afterEnd |-> 0, beforeStart |-> 0]

LEMMA BlockStep ==
    ASSUME EpochsInv, NEW gap \in BlockGaps, BeginBlocker(gap), NEW id \in Ids
    PROVE  FirstEpoch(id) \/ NextEpoch(id) \/ SameEpoch(id)
  <1> DEFINE t == now + gap
  <1>1. /\ info'[id] = NextInfo(id, t)
        /\ hooks'[id] = HooksCalled(id, t)
        /\ tracker'[id] = IF HooksCalled(id, t).beforeStart # 0
                          THEN UpdateEpochTracker(id, NextInfo(id, t))
                          ELSE tracker[id]
        /\ now' = t
    BY DEF BeginBlocker
  <1>2. /\ info[id] \in EpochInfo
        /\ StartTime[id] \in Nat
        /\ Duration[id] \in Nat \ {0}
        /\ t \in Nat
    BY EpochsAssumption DEF EpochsInv, TypeOK
  <1> HIDE DEF t
  <1>3. CASE ShouldInitialEpochStart(id, t)
    BY <1>1, <1>2, <1>3
    DEF NextInfo, HooksCalled, UpdateEpochTracker, startInitialEpoch,
        ShouldInitialEpochStart, ShouldEpochStart, EpochInfo, FirstEpoch
  <1>4. CASE ShouldEpochStart(id, t)
    <2>1. info[id].started /\ ~ShouldInitialEpochStart(id, t)
      BY <1>4 DEF ShouldEpochStart, ShouldInitialEpochStart
    <2>2. NextInfo(id, t) = [started |-> TRUE,
                             currentEpoch |-> info[id].currentEpoch + 1,
                             startTime |-> info[id].startTime + Duration[id]]
      BY <1>2, <1>4, <2>1 DEF NextInfo, endEpoch, EpochInfo
    <2>3. endEpoch(id) = NextInfo(id, t)
      BY <1>4, <2>1 DEF NextInfo
    <2>4. HooksCalled(id, t) = [afterEnd |-> info[id].currentEpoch + 1,
                                beforeStart |-> info[id].currentEpoch + 1]
      BY <1>4, <2>2, <2>3 DEF HooksCalled
    <2> QED
      BY <1>1, <1>2, <1>4, <2>1, <2>2, <2>4
      DEF UpdateEpochTracker, ShouldEpochStart, EpochInfo, NextEpoch
  <1>5. CASE ~ShouldInitialEpochStart(id, t) /\ ~ShouldEpochStart(id, t)
    BY <1>1, <1>5 DEF NextInfo, HooksCalled, SameEpoch
  <1> QED
    BY <1>3, <1>4, <1>5

\* A block keeps the invariant.
LEMMA BlockKeepsInv ==
    ASSUME EpochsInv, NEW gap \in BlockGaps, BeginBlocker(gap)
    PROVE  EpochsInv'
  <1>1. /\ now' = now + gap
        /\ now' \in Nat
        /\ now <= now'
        /\ deadline' = deadline
    BY EpochsAssumption DEF EpochsInv, TypeOK, BeginBlocker
  <1>2. /\ info' = [id \in Ids |-> info'[id]]
        /\ hooks' = [id \in Ids |-> hooks'[id]]
        /\ tracker' = [id \in Ids |-> tracker'[id]]
    BY DEF BeginBlocker
  <1>3. ASSUME NEW id \in Ids
        PROVE  /\ info'[id] \in EpochInfo
               /\ tracker'[id] \in EpochTracker
               /\ hooks'[id] \in HookCalls
               /\ info[id] \in EpochInfo
               /\ tracker[id] \in EpochTracker
               /\ Duration[id] \in Nat \ {0}
               /\ StartTime[id] \in Nat
    <2>1. /\ info[id] \in EpochInfo
          /\ tracker[id] \in EpochTracker
          /\ Duration[id] \in Nat \ {0}
          /\ StartTime[id] \in Nat
      BY EpochsAssumption DEF EpochsInv, TypeOK
    <2>2. CASE FirstEpoch(id)
      BY <2>1, <2>2 DEF FirstEpoch, EpochInfo, EpochTracker, HookCalls
    <2>3. CASE NextEpoch(id)
      BY <2>1, <2>3 DEF NextEpoch, EpochInfo, EpochTracker, HookCalls
    <2>4. CASE SameEpoch(id)
      BY <2>1, <2>4 DEF SameEpoch, HookCalls
    <2> QED
      BY <2>2, <2>3, <2>4, BlockStep
  <1>4. TypeOK'
    BY <1>1, <1>2, <1>3 DEF EpochsInv, TypeOK
  <1>5. ASSUME NEW id \in Ids
        PROVE  /\ info'[id].started =>
                    /\ info'[id].currentEpoch >= 1
                    /\ info'[id].startTime
                         = StartTime[id] + (info'[id].currentEpoch - 1) * Duration[id]
                    /\ info'[id].startTime <= now'
               /\ tracker'[id].epochNumber = info'[id].currentEpoch
               /\ info'[id].started =>
                    tracker'[id].nextEpochStartTime = info'[id].startTime + Duration[id]
               /\ ~info'[id].started => info'[id].currentEpoch = 0
    <2>1. /\ info[id].started =>
               /\ info[id].currentEpoch >= 1
               /\ info[id].startTime
                    = StartTime[id] + (info[id].currentEpoch - 1) * Duration[id]
               /\ info[id].startTime <= now
          /\ tracker[id].epochNumber = info[id].currentEpoch
          /\ info[id].started =>
               tracker[id].nextEpochStartTime = info[id].startTime + Duration[id]
          /\ ~info[id].started => info[id].currentEpoch = 0
      BY DEF EpochsInv, EpochGrid, TrackerInStep, NotStarted
    <2>2. \A n \in Nat, d \in Nat : (n - 1) * d + d = (n + 1 - 1) * d
      BY Z3
    <2>3. \A d \in Nat : (1 - 1) * d = 0
      BY Z3
    <2>4. now \in Nat
      BY DEF EpochsInv, TypeOK
    <2>5. CASE FirstEpoch(id)
      BY <1>3, <2>3, <2>5 DEF FirstEpoch, EpochInfo, EpochTracker
    <2>6. CASE NextEpoch(id)
      <3>1. (info[id].currentEpoch - 1) * Duration[id] + Duration[id]
              = (info[id].currentEpoch + 1 - 1) * Duration[id]
        BY <1>3, <2>2 DEF EpochInfo
      <3>2. (info[id].currentEpoch - 1) * Duration[id] \in Int
        BY <1>3 DEF EpochInfo
      <3>3. info'[id].startTime
              = StartTime[id] + (info'[id].currentEpoch - 1) * Duration[id]
        BY <1>3, <2>1, <2>6, <3>1, <3>2 DEF NextEpoch, EpochInfo
      <3> QED
        BY <1>1, <1>3, <2>1, <2>6, <3>3 DEF NextEpoch, EpochInfo, EpochTracker
    <2>7. CASE SameEpoch(id)
      BY <1>1, <1>3, <2>1, <2>4, <2>7 DEF SameEpoch, EpochInfo
    <2> QED
      BY <2>5, <2>6, <2>7, BlockStep
  <1>6. EpochGrid' /\ TrackerInStep' /\ NotStarted'
    BY <1>5 DEF EpochGrid, TrackerInStep, NotStarted
  <1> QED
    BY <1>4, <1>6 DEF EpochsInv

\* Submitting a transaction keeps the invariant.
LEMMA SubmitKeepsInv ==
    ASSUME EpochsInv, NEW id \in Ids, SubmitTxsEpoch(id)
    PROVE  EpochsInv'
  <1>1. /\ UNCHANGED <<now, info, tracker, hooks>>
        /\ tracker[id].epochNumber # 0
        /\ deadline \in [Ids -> Nat]
        /\ StrideId \in Ids
    BY EpochsAssumption DEF EpochsInv, TypeOK, SubmitTxsEpoch
  <1>2. info[id].started
    BY <1>1 DEF EpochsInv, NotStarted, TrackerInStep
  <1>3. GetICATimeoutNanos(id) \in Nat
    <2>1. tracker[id].nextEpochStartTime = info[id].startTime + Duration[id]
      BY <1>2 DEF EpochsInv, TrackerInStep
    <2>2. Duration[id] \in Nat \ {0} /\ info[id].startTime \in Nat
      BY EpochsAssumption DEF EpochsInv, TypeOK, EpochInfo
    <2> QED
      BY <2>1, <2>2, BufferBounds DEF GetICATimeoutNanos
  <1>4. absoluteTimeout(GetICATimeoutNanos(id)) \in Nat
    BY <1>3 DEF EpochsInv, TypeOK, absoluteTimeout
  <1>5. deadline' \in [Ids -> Nat]
    BY <1>1, <1>4 DEF SubmitTxsEpoch
  <1> QED
    BY <1>1, <1>5 DEF EpochsInv, TypeOK, EpochGrid, TrackerInStep, NotStarted

LEMMA EpochsInvariance == Spec => []EpochsInv
  <1>1. Init => EpochsInv
    BY EpochsAssumption
    DEF Init, EpochsInv, TypeOK, EpochInfo, EpochTracker, HookCalls, EpochGrid,
        TrackerInStep, NotStarted
  <1>2. EpochsInv /\ [Next]_vars => EpochsInv'
    <2> SUFFICES ASSUME EpochsInv, [Next]_vars PROVE EpochsInv'
      OBVIOUS
    <2>1. ASSUME NEW gap \in BlockGaps, BeginBlocker(gap) PROVE EpochsInv'
      BY <2>1, BlockKeepsInv
    <2>2. ASSUME NEW id \in Ids, SubmitTxsEpoch(id) PROVE EpochsInv'
      BY <2>2, SubmitKeepsInv
    <2>3. CASE UNCHANGED vars
      BY <2>3 DEF vars, EpochsInv, TypeOK, EpochGrid, TrackerInStep, NotStarted
    <2> QED
      BY <2>1, <2>2, <2>3 DEF Next
  <1> QED
    BY <1>1, <1>2, PTL DEF Spec

\* The type invariant of the epoch clock.
THEOREM EpochsTypeCorrect == Spec => []TypeOK
  BY EpochsInvariance, PTL DEF EpochsInv

\* Epochs do not drift: x/epochs' endEpoch keeps epoch n exactly n - 1
\* durations after the first start, whatever halts the chain went through.
THEOREM EpochGridHolds == Spec => []EpochGrid
  BY EpochsInvariance, PTL DEF EpochsInv

\* stakeibc's tracker store always agrees with the epochs store.
THEOREM TrackerInStepHolds == Spec => []TrackerInStep
  BY EpochsInvariance, PTL DEF EpochsInv

\* Inside the buffer window of IsWithinBufferWindow the timeout computed by
\* GetICATimeoutNanos has passed, however the two roundings fall.
THEOREM BufferWindowHolds == Spec => []TimeoutBeforeBufferWindow
  <1>1. EpochsInv => TimeoutBeforeBufferWindow
    <2> SUFFICES ASSUME EpochsInv, IsWithinBufferWindow
                 PROVE  GetICATimeoutNanos(StrideId) <= now
      BY DEF TimeoutBeforeBufferWindow
    <2> DEFINE d == Duration[StrideId]
               n == tracker[StrideId].nextEpochStartTime
    <2>1. /\ d \in Nat \ {0}
          /\ n \in Nat
          /\ now \in Nat
          /\ d \div BufferSize \in Nat
      BY EpochsAssumption, BufferBounds DEF EpochsInv, TypeOK, EpochTracker
    <2>2. /\ now - (n - d) \in Nat
          /\ (now - (n - d)) * BufferSize > d * (BufferSize - 1)
      BY <2>1 DEF IsWithinBufferWindow, InsideTrackedEpoch, ElapsedTime
    <2>3. now - (n - d) >= d - d \div BufferSize
      BY <2>1, <2>2, WindowBoundary
    <2> QED
      BY <2>1, <2>3 DEF GetICATimeoutNanos
  <1> QED
    BY <1>1, EpochsInvariance, PTL

\* No epoch is skipped or repeated, and the hook of every epoch runs.
THEOREM EveryEpochStartsHolds == Spec => EveryEpochStarts
  <1>1. EpochsInv /\ [Next]_vars =>
          [\A id \in Ids :
             /\ info'[id].currentEpoch \in {info[id].currentEpoch,
                                            info[id].currentEpoch + 1}
             /\ info'[id].currentEpoch # info[id].currentEpoch
                  => hooks'[id].beforeStart = info[id].currentEpoch + 1]_vars
    <2> SUFFICES ASSUME EpochsInv, Next, NEW id \in Ids
                 PROVE  /\ info'[id].currentEpoch \in {info[id].currentEpoch,
                                                       info[id].currentEpoch + 1}
                        /\ info'[id].currentEpoch # info[id].currentEpoch
                             => hooks'[id].beforeStart = info[id].currentEpoch + 1
      BY DEF vars
    <2>1. ASSUME NEW gap \in BlockGaps, BeginBlocker(gap)
          PROVE  /\ info'[id].currentEpoch \in {info[id].currentEpoch,
                                                info[id].currentEpoch + 1}
                 /\ info'[id].currentEpoch # info[id].currentEpoch
                      => hooks'[id].beforeStart = info[id].currentEpoch + 1
      <3>1. FirstEpoch(id) \/ NextEpoch(id) \/ SameEpoch(id)
        BY <2>1, BlockStep
      <3>2. ~info[id].started => info[id].currentEpoch = 0
        BY DEF EpochsInv, NotStarted
      <3> QED
        BY <3>1, <3>2 DEF FirstEpoch, NextEpoch, SameEpoch
    <2>2. ASSUME NEW i \in Ids, SubmitTxsEpoch(i)
          PROVE  info' = info
      BY <2>2 DEF SubmitTxsEpoch
    <2> QED
      BY <2>1, <2>2 DEF Next
  <1> QED
    BY <1>1, EpochsInvariance, PTL DEF Spec, EveryEpochStarts

-----------------------------------------------------------------------------
(* x/mint runs in a hook of the clock and does not disturb it. *)

\* The hook of x/mint neither delays nor repeats an epoch: what is proved of the
\* clock holds with it, until a panic in the hook stops both.
THEOREM MintKeepsTheClock == MintSpec => Spec
  <1>1. MintInit => Init
    BY DEF MintInit
  <1>2. [MintNext]_<<vars, mintVars>> => [Next]_vars
    BY DEF MintNext, MintBeginBlocker, Next
  <1> QED
    BY <1>1, <1>2, PTL DEF MintSpec, Spec

-----------------------------------------------------------------------------
(* The parts of the minted coin *)

\* A product with an integer is exact, so that a part is the integer part of the
\* coin's share.
LEMMA PartIsFloor ==
    ASSUME NEW coin \in Nat, NEW ratio \in Nat
    PROVE  GetProportions(coin, ratio) = (coin * ratio) \div Precision
  <1> DEFINE x == coin * ratio
  <1>1. x \in Int
    OBVIOUS
  <1>2. NewDecFromInt(coin) * ratio = x * Precision
    <2>1. (coin * Precision) * ratio = (coin * ratio) * Precision
      BY PrecisionAssumption
    <2> QED
      BY <2>1 DEF NewDecFromInt
  <1> HIDE DEF x
  <1>3. chopPrecisionAndRound(x * Precision) = x
    BY <1>1, ChopExact
  <1> QED
    BY <1>2, <1>3 DEF GetProportions, Mul, TruncateInt, x


-----------------------------------------------------------------------------
(* The provisions after so many reductions are defined by a recursive function; *)
(* that there is one is shown for its beginnings first.                         *)

Reduced(f, k) == IF k = 0 THEN GenesisEpochProvisions ELSE Mul(f[k - 1], ReductionFactor)

ReducedUpTo(f, n) == f = [k \in 0..n |-> Reduced(f, k)]

LEMMA BeginningExists ==
    ASSUME NEW num \in Nat
    PROVE  \E f : ReducedUpTo(f, num)
  <1> DEFINE N == {n \in Nat : ~\E f : ReducedUpTo(f, n)}
  <1> SUFFICES ASSUME N # {} PROVE FALSE
    OBVIOUS
  <1>1. PICK n \in N : \A m \in N : n <= m
    <2>1. N \in SUBSET Nat
      OBVIOUS
    <2> HIDE DEF N
    <2> QED
      BY <2>1, LeastNumber
  <1>2. CASE n = 0
    <2> DEFINE f == [k \in 0..0 |-> GenesisEpochProvisions]
    <2>1. ReducedUpTo(f, 0)
      BY DEF ReducedUpTo, Reduced
    <2> QED
      BY <1>1, <1>2, <2>1
  <1>3. CASE n # 0
    <2>1. n \in Nat /\ n - 1 \in Nat /\ n - 1 \notin N
      BY <1>1, <1>3
    <2>2. PICK f : ReducedUpTo(f, n - 1)
      BY <2>1
    <2> DEFINE g == [k \in 0..n |-> IF k = n THEN Mul(f[n - 1], ReductionFactor) ELSE f[k]]
    <2>3. \A k \in 0..n : g[k] = Reduced(g, k)
      <3> TAKE k \in 0..n
      <3>1. \A j \in 0..n - 1 : g[j] = f[j]
        BY <2>1
      <3>2. CASE k = n
        <4>1. g[k] = Mul(f[n - 1], ReductionFactor) /\ g[n - 1] = f[n - 1]
          BY <2>1, <3>1, <3>2
        <4> HIDE DEF g
        <4> QED
          BY <1>3, <3>2, <4>1 DEF Reduced
      <3>3. CASE k # n
        <4>1. k \in 0..n - 1 /\ (k # 0 => k - 1 \in 0..n - 1)
          BY <2>1, <3>3
        <4>2. f[k] = Reduced(f, k)
          BY <2>2, <4>1 DEF ReducedUpTo
        <4> HIDE DEF g
        <4> QED
          BY <3>1, <4>1, <4>2 DEF Reduced
      <3> QED
        BY <3>2, <3>3
    <2>4. g = [k \in 0..n |-> g[k]]
      OBVIOUS
    <2> HIDE DEF g
    <2>5. ReducedUpTo(g, n)
      BY <2>3, <2>4 DEF ReducedUpTo
    <2> QED
      BY <1>1, <2>5
  <1> QED
    BY <1>2, <1>3

LEMMA BeginningsAgree ==
    ASSUME NEW n \in Nat, NEW m \in Nat, NEW f, NEW g, ReducedUpTo(f, n), ReducedUpTo(g, m),
           NEW k \in 0..n, k \in 0..m
    PROVE  f[k] = g[k]
  <1> DEFINE N == {i \in 0..k : f[i] # g[i]}
  <1> SUFFICES ASSUME N # {} PROVE FALSE
    OBVIOUS
  <1>1. PICK i \in N : \A j \in N : i <= j
    <2>1. N \in SUBSET Nat
      OBVIOUS
    <2> HIDE DEF N
    <2> QED
      BY <2>1, LeastNumber
  <1>2. i \in 0..n /\ i \in 0..m
    OBVIOUS
  <1>3. f[i] = Reduced(f, i) /\ g[i] = Reduced(g, i)
    BY <1>2 DEF ReducedUpTo
  <1>4. i # 0 => f[i - 1] = g[i - 1]
    <2> SUFFICES ASSUME i # 0 PROVE f[i - 1] = g[i - 1]
      OBVIOUS
    <2>1. i - 1 \in 0..k /\ i - 1 \notin N
      BY <1>1
    <2> QED
      BY <2>1
  <1>5. f[i] = g[i]
    BY <1>3, <1>4 DEF Reduced
  <1> QED
    BY <1>5

LEMMA ProvisionsReduced ==
    \A k \in Nat : ReducedProvisions[k] = Reduced(ReducedProvisions, k)
  <1> DEFINE F(n) == CHOOSE f : ReducedUpTo(f, n)
             h == [k \in Nat |-> F(k)[k]]
             G == CHOOSE f : f = [k \in Nat |-> Reduced(f, k)]
  <1>1. \A n \in Nat : ReducedUpTo(F(n), n)
    BY BeginningExists
  <1> HIDE DEF F
  <1>2. \A k \in Nat : h[k] = Reduced(h, k)
    <2> TAKE k \in Nat
    <2>1. F(k)[k] = Reduced(F(k), k)
      BY <1>1 DEF ReducedUpTo
    <2>2. k # 0 => F(k)[k - 1] = F(k - 1)[k - 1]
      <3> SUFFICES ASSUME k # 0 PROVE F(k)[k - 1] = F(k - 1)[k - 1]
        OBVIOUS
      <3>1. k - 1 \in Nat /\ k - 1 \in 0..k /\ k - 1 \in 0..k - 1
        OBVIOUS
      <3>2. ReducedUpTo(F(k), k) /\ ReducedUpTo(F(k - 1), k - 1)
        BY <1>1, <3>1
      <3> QED
        BY <3>1, <3>2, BeginningsAgree
    <2>3. k # 0 => h[k - 1] = F(k - 1)[k - 1]
      OBVIOUS
    <2>4. h[k] = F(k)[k]
      OBVIOUS
    <2> HIDE DEF h
    <2> QED
      BY <2>1, <2>2, <2>3, <2>4 DEF Reduced
  <1>3. h = [k \in Nat |-> h[k]]
    OBVIOUS
  <1> HIDE DEF h
  <1>4. h = [k \in Nat |-> Reduced(h, k)]
    BY <1>2, <1>3
  <1>5. G = [k \in Nat |-> Reduced(G, k)]
    BY <1>4, Zenon
  <1>6. ReducedProvisions = G
    BY DEF ReducedProvisions, Reduced
  <1> HIDE DEF G
  <1> QED
    BY <1>5, <1>6

\* Provisions are decimals and never negative.
LEMMA ProvisionsNat ==
    \A k \in Nat : ReducedProvisions[k] \in Nat
  <1> DEFINE N == {n \in Nat : ReducedProvisions[n] \notin Nat}
  <1> SUFFICES ASSUME N # {} PROVE FALSE
    OBVIOUS
  <1>1. PICK n \in N : \A m \in N : n <= m
    <2>1. N \in SUBSET Nat
      OBVIOUS
    <2> HIDE DEF N
    <2> QED
      BY <2>1, LeastNumber
  <1>2. n \in Nat /\ ReducedProvisions[n] = Reduced(ReducedProvisions, n)
    BY ProvisionsReduced
  <1>3. CASE n = 0
    BY <1>2, <1>3, MintAssumption DEF Reduced
  <1>4. CASE n # 0
    <2>1. ReducedProvisions[n - 1] \in Nat
      BY <1>1, <1>4
    <2>2. ReductionFactor \in Nat
      BY MintAssumption, PrecisionAssumption
    <2>3. Mul(ReducedProvisions[n - 1], ReductionFactor) \in Nat
      BY <2>1, <2>2, MulNat
    <2> QED
      BY <1>2, <1>4, <2>3 DEF Reduced
  <1> QED
    BY <1>3, <1>4


-----------------------------------------------------------------------------
(* The schedule *)

\* One more epoch either completes a reduction period or does not.
LEMMA NextPeriod ==
    ASSUME NEW x \in Nat, NEW r \in Nat \ {0}
    PROVE  LET k == x \div r IN
           IF r + k * r <= x + 1 THEN (x + 1) \div r = k + 1 /\ x + 1 = r + k * r
                                 ELSE (x + 1) \div r = k
  <1> DEFINE k == x \div r
             t == k * r
  <1>1. k \in Nat /\ t \in Nat /\ t <= x /\ x < t + r /\ (k + 1) * r = r + t
    <2>1. k \in Nat /\ r * k <= x /\ x < r * k + r
      OBVIOUS
    <2> HIDE DEF k
    <2> QED
      BY <2>1
  <1> HIDE DEF k, t
  <1>2. CASE r + t <= x + 1
    <2>1. x + 1 \in Nat /\ (k + 1) * r <= x + 1 /\ x + 1 < (k + 1) * r + r
      BY <1>1, <1>2
    <2>2. (x + 1) \div r = k + 1
      BY <1>1, <2>1, QuotientIs
    <2> QED
      BY <1>1, <1>2, <2>2 DEF k, t
  <1>3. CASE ~(r + t <= x + 1)
    <2>1. x + 1 \in Nat /\ t <= x + 1 /\ x + 1 < t + r
      BY <1>1, <1>3
    <2>2. (x + 1) \div r = k
      BY <1>1, <2>1, QuotientIs DEF t
    <2> QED
      BY <1>3, <2>2 DEF k, t
  <1> QED
    BY <1>2, <1>3

\* The first epoch whose end is minted for, and how often the provisions have been
\* reduced by the end of epoch n.
FirstMint == IF MintStartEpoch >= 2 THEN MintStartEpoch ELSE 2
Reductions(n) == (n - FirstReductionEpoch) \div ReductionPeriodInEpochs

\* The last reduction is where the period puts it.
ReductionInStep ==
    LET n == info[MintId].currentEpoch IN
    IF n < FirstMint
    THEN mints = 0 /\ lastReduction = 0 /\ provisions = GenesisEpochProvisions
    ELSE /\ mints = n - FirstMint + 1
         /\ lastReduction = FirstReductionEpoch + Reductions(n) * ReductionPeriodInEpochs
         /\ provisions = ReducedProvisions[Reductions(n)]

MintTypeOK ==
    /\ provisions \in Nat
    /\ lastReduction \in Nat
    /\ mints \in Nat
    /\ supply \in Nat
    /\ halted \in BOOLEAN
    /\ pools \in [DOMAIN Proportions -> Nat]

MintInv == MintTypeOK /\ ReductionInStep /\ MintedIsDistributed

LEMMA ScheduleNumbers ==
    /\ FirstMint \in Nat \ {0, 1}
    /\ FirstReductionEpoch \in Nat
    /\ FirstReductionEpoch <= FirstMint
    /\ ReductionPeriodInEpochs \in Nat \ {0}
  BY MintAssumption DEF FirstMint, FirstReductionEpoch

\* The number stored and the provisions minted at the end of the first epoch that
\* is minted for ...
LEMMA FirstReduction ==
    ASSUME lastReduction = 0, provisions = GenesisEpochProvisions
    PROVE  /\ Reductions(FirstMint) \in Nat
           /\ LastReductionEpochNum(FirstMint)
                = FirstReductionEpoch + Reductions(FirstMint) * ReductionPeriodInEpochs
           /\ NextEpochProvisions(FirstMint) = ReducedProvisions[Reductions(FirstMint)]
  <1> DEFINE r == ReductionPeriodInEpochs
  <1>1. r \in Nat \ {0} /\ MintStartEpoch \in Nat
    BY MintAssumption
  <1>2. ReducedProvisions[0] = GenesisEpochProvisions
    BY ProvisionsReduced DEF Reduced
  <1>3. ReducedProvisions[1] = Mul(GenesisEpochProvisions, ReductionFactor)
    <2>1. ReducedProvisions[1] = Mul(ReducedProvisions[1 - 1], ReductionFactor)
      BY ProvisionsReduced DEF Reduced
    <2>2. 1 - 1 = 0
      OBVIOUS
    <2> QED
      BY <1>2, <2>1, <2>2
  <1>4. CASE MintStartEpoch >= 2
    <2>1. FirstMint = MintStartEpoch /\ FirstReductionEpoch = MintStartEpoch
      BY <1>4 DEF FirstMint, FirstReductionEpoch
    <2>2. Reductions(FirstMint) = 0
      <3>1. MintStartEpoch - MintStartEpoch = 0 /\ 0 \div r = 0
        BY <1>1
      <3> QED
        BY <2>1, <3>1 DEF Reductions
    <2>3. ~(MintStartEpoch >= r + MintStartEpoch)
      BY <1>1
    <2>4. LastReductionEpochNum(FirstMint) = MintStartEpoch
      BY <2>1, <2>3 DEF LastReductionEpochNum
    <2>5. NextEpochProvisions(FirstMint) = provisions
      BY <2>1, <2>3 DEF NextEpochProvisions
    <2>6. MintStartEpoch + 0 * r = MintStartEpoch
      BY <1>1
    <2> QED
      BY <1>2, <2>1, <2>2, <2>4, <2>5, <2>6
  <1>5. CASE ~(MintStartEpoch >= 2)
    <2>1. FirstMint = 2 /\ FirstMint # MintStartEpoch
      BY <1>1, <1>5 DEF FirstMint
    <2>2. /\ LastReductionEpochNum(2) = IF 2 >= r THEN 2 ELSE 0
          /\ NextEpochProvisions(2) = IF 2 >= r THEN Mul(provisions, ReductionFactor)
                                                ELSE provisions
      BY <1>1, <2>1 DEF LastReductionEpochNum, NextEpochProvisions
    <2>3. CASE r = 1
      <3>1. FirstReductionEpoch = 1
        BY <1>5, <2>3 DEF FirstReductionEpoch
      <3>2. Reductions(2) = 1
        <4>1. (2 - 1) \div 1 = 1
          OBVIOUS
        <4> QED
          BY <2>3, <3>1, <4>1 DEF Reductions
      <3> QED
        BY <1>3, <2>1, <2>2, <2>3, <3>1, <3>2
    <2>4. CASE r = 2
      <3>1. FirstReductionEpoch = 0
        BY <1>5, <2>4 DEF FirstReductionEpoch
      <3>2. Reductions(2) = 1
        <4>1. (2 - 0) \div 2 = 1
          OBVIOUS
        <4> QED
          BY <2>4, <3>1, <4>1 DEF Reductions
      <3> QED
        BY <1>3, <2>1, <2>2, <2>4, <3>1, <3>2
    <2>5. CASE r > 2
      <3>1. FirstReductionEpoch = 0
        BY <1>5, <2>5 DEF FirstReductionEpoch
      <3>2. Reductions(2) = 0
        <4>1. 2 \in Nat /\ 0 * r <= 2 /\ 2 < 0 * r + r
          BY <1>1, <2>5
        <4>2. 2 \div r = 0
          BY <1>1, <4>1, QuotientIs
        <4>3. 2 - 0 = 2
          OBVIOUS
        <4> QED
          BY <3>1, <4>2, <4>3 DEF Reductions
      <3>3. 0 + 0 * r = 0 /\ ~(2 >= r)
        BY <1>1, <2>5
      <3> QED
        BY <1>2, <2>1, <2>2, <3>1, <3>2, <3>3
    <2> QED
      BY <1>1, <2>3, <2>4, <2>5
  <1> QED
    BY <1>4, <1>5

\* ... and of a later one.
LEMMA LaterReduction ==
    ASSUME NEW n \in Nat, n >= FirstMint,
           lastReduction = FirstReductionEpoch + Reductions(n) * ReductionPeriodInEpochs,
           provisions = ReducedProvisions[Reductions(n)]
    PROVE  /\ Reductions(n + 1) \in Nat
           /\ LastReductionEpochNum(n + 1)
                = FirstReductionEpoch + Reductions(n + 1) * ReductionPeriodInEpochs
           /\ NextEpochProvisions(n + 1) = ReducedProvisions[Reductions(n + 1)]
  <1> DEFINE r == ReductionPeriodInEpochs
             f == FirstReductionEpoch
             x == n - f
             k == Reductions(n)
             k1 == Reductions(n + 1)
  <1>1. r \in Nat \ {0} /\ f \in Nat /\ x \in Nat /\ k \in Nat
    <2>1. r \in Nat \ {0} /\ f \in Nat /\ x \in Nat
      BY ScheduleNumbers
    <2> HIDE DEF x
    <2>2. x \div r \in Nat
      BY <2>1
    <2> QED
      BY <2>1, <2>2 DEF Reductions, x
  <1>2. n + 1 # MintStartEpoch
    BY MintAssumption DEF FirstMint
  <1>3. k = x \div r /\ k1 = (x + 1) \div r
    <2>1. (n + 1) - f = x + 1
      BY <1>1
    <2> QED
      BY <2>1 DEF Reductions
  <1>4. IF r + k * r <= x + 1 THEN k1 = k + 1 /\ x + 1 = r + k * r ELSE k1 = k
    BY <1>1, <1>3, NextPeriod
  <1> DEFINE t == k * r
  <1>5. t \in Nat /\ (k + 1) * r = r + t
    BY <1>1
  <1>6. r + lastReduction <= n + 1 <=> r + t <= x + 1
    <2>1. lastReduction = f + t /\ n = f + x
      BY <1>1
    <2> HIDE DEF t, x, f, r
    <2> QED
      BY <1>1, <1>5, <2>1
  <1>7. /\ LastReductionEpochNum(n + 1) = IF r + t <= x + 1 THEN n + 1 ELSE lastReduction
        /\ NextEpochProvisions(n + 1)
             = IF r + t <= x + 1 THEN Mul(provisions, ReductionFactor) ELSE provisions
    <2>1. lastReduction \in Nat
      <3> HIDE DEF t, f
      <3> QED
        BY <1>1, <1>5 DEF t, f
    <2>2. n + 1 >= r + lastReduction <=> r + t <= x + 1
      BY <1>1, <1>6, <2>1
    <2> HIDE DEF t, x
    <2> QED
      BY <1>2, <2>2 DEF LastReductionEpochNum, NextEpochProvisions
  <1>8. CASE r + t <= x + 1
    <2>1. k1 = k + 1 /\ x + 1 = r + t
      BY <1>4, <1>8
    <2>2. n + 1 = f + k1 * r
      <3>1. n + 1 = f + (x + 1)
        BY <1>1
      <3> QED
        BY <1>5, <2>1, <3>1
    <2>3. ReducedProvisions[k + 1] = Mul(ReducedProvisions[k], ReductionFactor)
      <3> HIDE DEF k
      <3>1. k + 1 \in Nat /\ k + 1 # 0 /\ (k + 1) - 1 = k
        BY <1>1
      <3> QED
        BY <3>1, ProvisionsReduced DEF Reduced
    <2> QED
      BY <1>1, <1>7, <1>8, <2>1, <2>2, <2>3
  <1>9. CASE ~(r + t <= x + 1)
    <2>1. k1 = k
      BY <1>4, <1>9
    <2> QED
      BY <1>1, <1>7, <1>9, <2>1
  <1> QED
    BY <1>8, <1>9


-----------------------------------------------------------------------------
(* The distribution *)

\* There are four receivers.
LEMMA FourReceivers ==
    /\ DOMAIN Proportions = 1..4
    /\ \A i \in 1..4 : Proportions[i] \in Nat
    /\ SumFunctionOnSet(Proportions, 1..4) = Precision
    /\ SumFunction(Proportions) = Precision
  <1>1. Proportions \in Seq(0..Precision) /\ Len(Proportions) = 4
    BY MintAssumption
  <1>2. DOMAIN Proportions = 1..4
    BY <1>1
  <1>3. \A i \in 1..4 : Proportions[i] \in 0..Precision
    <2> DEFINE R == 0..Precision
    <2>1. Proportions \in Seq(R)
      BY <1>1
    <2> HIDE DEF R
    <2>2. \A i \in 1..Len(Proportions) : Proportions[i] \in R
      BY <2>1
    <2> QED
      BY <1>1, <2>2 DEF R
  <1> QED
    BY <1>2, <1>3, MintAssumption, PrecisionAssumption DEF SumFunction

\* What four amounts add up to.
LEMMA SumOfFour ==
    ASSUME NEW f, \A i \in 1..4 : f[i] \in Int
    PROVE  SumFunctionOnSet(f, 1..4) = f[1] + f[2] + f[3] + f[4]
  <1>1. IsFiniteSet({}) /\ IsFiniteSet({1}) /\ IsFiniteSet({1, 2}) /\ IsFiniteSet({1, 2, 3})
    <2>1. IsFiniteSet(1..3)
      <3>1. 1 \in Int /\ 3 \in Int
        OBVIOUS
      <3> QED
        BY <3>1, FS_Interval, Zenon
    <2>2. {} \subseteq 1..3 /\ {1} \subseteq 1..3 /\ {1, 2} \subseteq 1..3 /\ {1, 2, 3} \subseteq 1..3
      OBVIOUS
    <2> QED
      BY <2>1, <2>2, FS_Subset
  <1>2. f[1] \in Int /\ f[2] \in Int /\ f[3] \in Int /\ f[4] \in Int
    OBVIOUS
  <1>3. SumFunctionOnSet(f, {1}) = f[1]
    <2>1. SumFunctionOnSet(f, {} \cup {1}) = f[1] + SumFunctionOnSet(f, {})
      BY <1>1, <1>2, SumAdd
    <2>2. {} \cup {1} = {1}
      OBVIOUS
    <2> QED
      BY <1>2, <2>1, <2>2, SumEmpty
  <1>4. SumFunctionOnSet(f, {1, 2}) = f[2] + f[1]
    <2>1. SumFunctionOnSet(f, {1} \cup {2}) = f[2] + SumFunctionOnSet(f, {1})
      BY <1>1, <1>2, SumAdd
    <2>2. {1} \cup {2} = {1, 2}
      OBVIOUS
    <2> QED
      BY <1>3, <2>1, <2>2
  <1>5. SumFunctionOnSet(f, {1, 2, 3}) = f[3] + (f[2] + f[1])
    <2>1. SumFunctionOnSet(f, {1, 2} \cup {3}) = f[3] + SumFunctionOnSet(f, {1, 2})
      <3> DEFINE S == {1, 2}
      <3>1. (\A i \in S : f[i] \in Int) /\ 3 \notin S
        BY <1>2
      <3> HIDE DEF S
      <3>2. SumFunctionOnSet(f, S \cup {3}) = f[3] + SumFunctionOnSet(f, S)
        BY <1>1, <1>2, <3>1, SumAdd DEF S
      <3> QED
        BY <3>2 DEF S
    <2>2. {1, 2} \cup {3} = {1, 2, 3}
      OBVIOUS
    <2> QED
      BY <1>4, <2>1, <2>2
  <1>6. SumFunctionOnSet(f, {1, 2, 3, 4}) = f[4] + (f[3] + (f[2] + f[1]))
    <2>1. SumFunctionOnSet(f, {1, 2, 3} \cup {4}) = f[4] + SumFunctionOnSet(f, {1, 2, 3})
      <3> DEFINE S == {1, 2, 3}
      <3>1. (\A i \in S : f[i] \in Int) /\ 4 \notin S
        BY <1>2
      <3> HIDE DEF S
      <3>2. SumFunctionOnSet(f, S \cup {4}) = f[4] + SumFunctionOnSet(f, S)
        BY <1>1, <1>2, <3>1, SumAdd DEF S
      <3> QED
        BY <3>2 DEF S
    <2>2. {1, 2, 3} \cup {4} = {1, 2, 3, 4}
      OBVIOUS
    <2> QED
      BY <1>5, <2>1, <2>2
  <1>7. 1..4 = {1, 2, 3, 4}
    OBVIOUS
  <1> QED
    BY <1>2, <1>6, <1>7

\* Each part loses less than a token, so that less than four tokens remain.
LEMMA PartsAddUp ==
    ASSUME NEW coin \in Nat
    PROVE  /\ \A i \in 1..4 : Parts(coin)[i] \in Nat
           /\ Remaining(coin) \in 0..3
           /\ Remaining(coin)
                = coin - (Parts(coin)[1] + Parts(coin)[2] + Parts(coin)[3] + Parts(coin)[4])
  <1> DEFINE p == Parts(coin)
             P == Precision
             w(i) == coin * Proportions[i]
  <1>1. P \in Nat \ {0} /\ DOMAIN p = 1..4
    BY PrecisionAssumption, FourReceivers DEF Parts
  <1>2. ASSUME NEW i \in 1..4
        PROVE  p[i] \in Nat /\ P * p[i] <= w(i) /\ w(i) < P * p[i] + P /\ w(i) \in Nat
    <2>1. Proportions[i] \in Nat
      BY FourReceivers
    <2>2. w(i) \in Nat
      BY <2>1
    <2>3. p[i] = w(i) \div P
      BY <2>1, FourReceivers, PartIsFloor DEF Parts
    <2> DEFINE v == w(i)
    <2> HIDE DEF w, P
    <2>4. v \in Nat /\ p[i] = v \div P
      BY <2>2, <2>3
    <2> HIDE DEF v, p
    <2>5. v \div P \in Nat /\ P * (v \div P) <= v /\ v < P * (v \div P) + P
      BY <1>1, <2>4
    <2> QED
      BY <2>4, <2>5 DEF v
  <1> DEFINE s == p[1] + p[2] + p[3] + p[4]
  <1>3. Remaining(coin) = coin - s
    <2>1. SumFunctionOnSet(p, 1..4) = s
      <3>1. \A i \in 1..4 : p[i] \in Int
        BY <1>2
      <3> HIDE DEF p
      <3> QED
        BY <3>1, SumOfFour
    <2>2. SumFunction(p) = SumFunctionOnSet(p, 1..4)
      BY <1>1 DEF SumFunction
    <2> QED
      BY <2>1, <2>2 DEF Remaining
  <1>4. coin * P = w(1) + w(2) + w(3) + w(4)
    <2> DEFINE a == Proportions[1]
               b == Proportions[2]
               c == Proportions[3]
               d == Proportions[4]
    <2>1. a \in Nat /\ b \in Nat /\ c \in Nat /\ d \in Nat
      BY FourReceivers
    <2>2. P = a + b + c + d
      <3>1. \A i \in 1..4 : Proportions[i] \in Int
        BY FourReceivers
      <3> QED
        BY <3>1, FourReceivers, SumOfFour
    <2> HIDE DEF a, b, c, d, P
    <2>3. coin * (a + b + c + d) = coin * a + coin * b + coin * c + coin * d
      BY <2>1
    <2> QED
      BY <2>2, <2>3 DEF a, b, c, d
  <1>5. s \in Nat /\ P * s = P * p[1] + P * p[2] + P * p[3] + P * p[4]
    <2> DEFINE a == p[1]
               b == p[2]
               c == p[3]
               d == p[4]
    <2>1. a \in Nat /\ b \in Nat /\ c \in Nat /\ d \in Nat
      BY <1>2
    <2> HIDE DEF a, b, c, d, P
    <2>2. P * (a + b + c + d) = P * a + P * b + P * c + P * d /\ a + b + c + d \in Nat
      BY <1>1, <2>1
    <2> QED
      BY <2>2 DEF a, b, c, d
  <1>6. P * s <= P * coin /\ P * coin + 1 <= P * (s + 4)
    <2> DEFINE a == P * p[1]
               b == P * p[2]
               c == P * p[3]
               d == P * p[4]
               e == P * s
               f == P * coin
               g == P * (s + 4)
    <2>1. a \in Int /\ b \in Int /\ c \in Int /\ d \in Int
      BY <1>1, <1>2
    <2>2. e = a + b + c + d /\ e \in Int
      BY <1>1, <1>5
    <2>3. g = e + 4 * P
      <3> HIDE DEF P, s
      <3> QED
        BY <1>1, <1>5
    <2>4. f = w(1) + w(2) + w(3) + w(4)
      <3>1. f = coin * P
        <4> HIDE DEF P
        <4> QED
          BY <1>1
      <3> HIDE DEF w, P, f
      <3> QED
        BY <1>4, <3>1
    <2>5. /\ a <= w(1) /\ w(1) < a + P /\ w(1) \in Nat
          /\ b <= w(2) /\ w(2) < b + P /\ w(2) \in Nat
          /\ c <= w(3) /\ w(3) < c + P /\ w(3) \in Nat
          /\ d <= w(4) /\ w(4) < d + P /\ w(4) \in Nat
      BY <1>2
    <2>6. e <= f /\ f + 1 <= g
      <3> HIDE DEF a, b, c, d, e, f, g, w, P
      <3> QED
        BY <1>1, <2>1, <2>2, <2>3, <2>4, <2>5
    <2> QED
      BY <2>6
  <1>7. s <= coin /\ coin < s + 4
    <2> HIDE DEF s, P
    <2>1. s <= coin
      BY <1>1, <1>5, <1>6, TimesLeq
    <2>2. ~(s + 4 <= coin)
      <3> SUFFICES ASSUME s + 4 <= coin PROVE FALSE
        OBVIOUS
      <3>1. P * (s + 4) <= P * coin
        BY <1>1, <1>5
      <3>2. P * (s + 4) \in Int /\ P * coin \in Int
        BY <1>1, <1>5
      <3> QED
        BY <1>6, <3>1, <3>2
    <2> QED
      BY <1>5, <2>1, <2>2
  <1>8. Remaining(coin) \in 0..3
    <2> HIDE DEF s
    <2> QED
      BY <1>3, <1>5, <1>7
  <1> QED
    BY <1>2, <1>3, <1>8


\* What remains is at most 5% of a coin of twenty tokens per part, so that the
\* hook stops the chain for a smaller coin only.
LEMMA NoPanic ==
    ASSUME NEW coin \in Nat, coin >= 20 * Len(Proportions)
    PROVE  ~DistributionPanics(coin)
  <1> DEFINE P == Precision
             R == Remaining(coin)
             T == P * P * P
  <1>1. P \in Nat \ {0} /\ coin >= 80 /\ coin # 0 /\ R \in 0..3
    BY PrecisionAssumption, MintAssumption, PartsAddUp
  <1>2. T \in Nat
    BY <1>1
  <1>3. R * T \in Nat /\ 5 * T \in Nat /\ coin * P \in Nat \ {0} /\ 100 * P \in Nat \ {0}
    <2> HIDE DEF P, R, T
    <2>1. coin * P # 0
      <3>1. coin * P >= coin
        BY <1>1
      <3>2. coin * P \in Nat
        BY <1>1
      <3> QED
        BY <1>1, <3>1, <3>2
    <2> QED
      BY <1>1, <1>2, <2>1
  <1>4. (R * T) * (100 * P) <= (5 * T) * (coin * P)
    <2> HIDE DEF P, R, T
    <2> DEFINE w == T * P
    <2>1. w \in Nat
      BY <1>1, <1>2
    <2>2. (R * T) * (100 * P) = (100 * R) * w /\ (5 * T) * (coin * P) = (5 * coin) * w
      BY <1>1, <1>2
    <2>3. 100 * R <= 5 * coin
      BY <1>1
    <2> HIDE DEF w
    <2> DEFINE a == 100 * R
               b == 5 * coin
    <2>4. a \in Nat /\ b \in Nat /\ a <= b
      BY <1>1, <2>3
    <2> HIDE DEF a, b
    <2>5. a * w <= b * w
      BY <2>1, <2>4
    <2> QED
      BY <2>2, <2>5 DEF a, b
  <1> DEFINE x == (R * T) \div (coin * P)
             y == (5 * T) \div (100 * P)
  <1>5. x \in Nat /\ y \in Nat
    <2> DEFINE a == R * T
               b == coin * P
               c == 5 * T
               d == 100 * P
    <2>1. a \in Nat /\ b \in Nat \ {0} /\ c \in Nat /\ d \in Nat \ {0}
      BY <1>3
    <2> HIDE DEF a, b, c, d
    <2>2. a \div b \in Nat /\ c \div d \in Nat
      BY <2>1
    <2> QED
      BY <2>2 DEF a, b, c, d
  <1>6. x <= y
    <2> DEFINE a == R * T
               b == coin * P
               c == 5 * T
               d == 100 * P
    <2>1. a \in Nat /\ b \in Nat \ {0} /\ c \in Nat /\ d \in Nat \ {0} /\ a * d <= c * b
      BY <1>3, <1>4
    <2> HIDE DEF a, b, c, d
    <2>2. a \div b <= c \div d
      BY <2>1, QuotientLeq
    <2> QED
      BY <2>2 DEF a, b, c, d
  <1>7. Quo(NewDecFromInt(R), NewDecFromInt(coin)) = chopPrecisionAndRound(x)
    <2>1. ((R * P) * P) * P = R * T
      <3> HIDE DEF R
      <3> QED
        BY <1>1
    <2> QED
      BY <2>1 DEF Quo, NewDecFromInt
  <1>8. Quo(NewDecFromInt(5), NewDecFromInt(100)) = chopPrecisionAndRound(y)
    <2>1. ((5 * P) * P) * P = 5 * T
      BY <1>1
    <2> QED
      BY <2>1 DEF Quo, NewDecFromInt
  <1>9. chopPrecisionAndRound(x) <= chopPrecisionAndRound(y)
    <2> HIDE DEF x, y
    <2> QED
      BY <1>5, <1>6, ChopLeq
  <1>10. chopPrecisionAndRound(x) \in Nat /\ chopPrecisionAndRound(y) \in Nat
    <2> HIDE DEF x, y
    <2> QED
      BY <1>5, ChopNat
  <1>11. ~(Quo(NewDecFromInt(R), NewDecFromInt(coin)) > Quo(NewDecFromInt(5), NewDecFromInt(100)))
    <2> DEFINE u == chopPrecisionAndRound(x)
               v == chopPrecisionAndRound(y)
    <2>1. u \in Nat /\ v \in Nat /\ u <= v
      BY <1>9, <1>10
    <2> HIDE DEF u, v
    <2>2. ~(u > v)
      BY <2>1
    <2> QED
      BY <1>7, <1>8, <2>2 DEF u, v
  <1> QED
    BY <1>1, <1>11 DEF DistributionPanics

\* What is distributed is the coin.
LEMMA DistributedIsCoin ==
    ASSUME NEW coin \in Nat, pools \in [DOMAIN Proportions -> Nat]
    PROVE  /\ DistributeMintedCoin(coin) \in [DOMAIN Proportions -> Nat]
           /\ SumFunction(DistributeMintedCoin(coin)) = SumFunction(pools) + coin
  <1> DEFINE d == DistributeMintedCoin(coin)
             p == Parts(coin)
             r == Remaining(coin)
  <1>1. DOMAIN pools = 1..4 /\ DOMAIN d = 1..4 /\ DOMAIN Proportions = 1..4
    BY FourReceivers DEF DistributeMintedCoin
  <1>2. \A i \in 1..4 : d[i] = pools[i] + p[i] + (IF i = 2 THEN r ELSE 0)
    BY <1>1 DEF DistributeMintedCoin
  <1>3. d = [i \in 1..4 |-> d[i]]
    BY <1>1 DEF DistributeMintedCoin
  <1>4. /\ \A i \in 1..4 : p[i] \in Nat /\ pools[i] \in Nat
        /\ r \in Nat /\ r = coin - (p[1] + p[2] + p[3] + p[4])
    BY <1>1, PartsAddUp
  <1> HIDE DEF d, p, r
  <1>5. \A i \in 1..4 : d[i] \in Nat
    BY <1>2, <1>4
  <1>6. d \in [1..4 -> Nat]
    BY <1>3, <1>5
  <1>7. SumFunctionOnSet(d, 1..4) = d[1] + d[2] + d[3] + d[4]
    BY <1>5, SumOfFour
  <1>8. SumFunctionOnSet(pools, 1..4) = pools[1] + pools[2] + pools[3] + pools[4]
    BY <1>4, SumOfFour
  <1>9. SumFunctionOnSet(d, 1..4) = SumFunctionOnSet(pools, 1..4) + coin
    <2>1. /\ d[1] = pools[1] + p[1] /\ d[2] = pools[2] + p[2] + r
          /\ d[3] = pools[3] + p[3] /\ d[4] = pools[4] + p[4]
      BY <1>2, <1>4
    <2>2. /\ p[1] \in Nat /\ p[2] \in Nat /\ p[3] \in Nat /\ p[4] \in Nat
          /\ pools[1] \in Nat /\ pools[2] \in Nat /\ pools[3] \in Nat /\ pools[4] \in Nat
      BY <1>4
    <2> QED
      BY <1>4, <1>7, <1>8, <2>1, <2>2
  <1>10. SumFunction(d) = SumFunctionOnSet(d, 1..4) /\ SumFunction(pools) = SumFunctionOnSet(pools, 1..4)
    BY <1>1 DEF SumFunction
  <1> QED
    BY <1>1, <1>6, <1>9, <1>10 DEF d


-----------------------------------------------------------------------------
(* The invariant *)

\* What the hook does at the end of an epoch that is minted for.
LEMMA EpochMinted ==
    ASSUME MintTypeOK, MintedIsDistributed, ~halted, NEW m \in Nat \ {0}, m >= MintStartEpoch,
           AfterEpochEnd(m), LastReductionEpochNum(m) \in Nat, NEW k \in Nat,
           NextEpochProvisions(m) = ReducedProvisions[k]
    PROVE  /\ MintTypeOK' /\ MintedIsDistributed'
           /\ provisions' = NextEpochProvisions(m)
           /\ lastReduction' = LastReductionEpochNum(m)
           /\ mints' = mints + 1
  <1> DEFINE coin == TruncateInt(NextEpochProvisions(m))
  <1>1. NextEpochProvisions(m) \in Nat /\ coin \in Nat
    BY ProvisionsNat, TruncateNat
  <1>2. ~(m = 0 \/ m < MintStartEpoch)
    BY MintAssumption
  <1>3. /\ provisions' = NextEpochProvisions(m)
        /\ lastReduction' = LastReductionEpochNum(m)
        /\ halted' = DistributionPanics(coin)
        /\ supply' = supply + coin
        /\ pools' = IF halted' THEN pools ELSE DistributeMintedCoin(coin)
        /\ mints' = mints + 1
    BY <1>2 DEF AfterEpochEnd
  <1>4. halted' \in BOOLEAN
    BY <1>3 DEF DistributionPanics
  <1> HIDE DEF coin
  <1>5. /\ mints \in Nat /\ supply \in Nat /\ pools \in [DOMAIN Proportions -> Nat]
        /\ supply = SumFunction(pools)
    BY DEF MintTypeOK, MintedIsDistributed
  <1>6. /\ DistributeMintedCoin(coin) \in [DOMAIN Proportions -> Nat]
        /\ SumFunction(DistributeMintedCoin(coin)) = SumFunction(pools) + coin
    BY <1>1, <1>5, DistributedIsCoin
  <1>7. MintTypeOK'
    BY <1>1, <1>3, <1>4, <1>5, <1>6 DEF MintTypeOK
  <1>8. MintedIsDistributed'
    <2>1. CASE halted'
      <3>1. ~(coin >= 20 * Len(Proportions))
        BY <1>1, <1>3, <2>1, NoPanic
      <3>2. coin < 20 * Len(Proportions)
        BY <1>1, <3>1, MintAssumption
      <3>3. TruncateInt(provisions') = coin
        BY <1>3 DEF coin
      <3> QED
        BY <2>1, <3>2, <3>3 DEF MintedIsDistributed
    <2>2. CASE ~halted'
      BY <1>3, <1>5, <1>6, <2>2 DEF MintedIsDistributed
    <2> QED
      BY <2>1, <2>2
  <1> QED
    BY <1>3, <1>7, <1>8

\* A block without a mint keeps the invariant if it does not pass the first epoch
\* that is minted for.
LEMMA NothingMinted ==
    ASSUME MintInv, UNCHANGED mintVars,
           \/ info'[MintId].currentEpoch = info[MintId].currentEpoch
           \/ info[MintId].currentEpoch < FirstMint /\ info'[MintId].currentEpoch < FirstMint
    PROVE  MintInv'
  <1>1. MintTypeOK' /\ MintedIsDistributed'
    BY DEF MintInv, MintTypeOK, MintedIsDistributed, mintVars
  <1>2. ReductionInStep'
    BY DEF MintInv, ReductionInStep, mintVars
  <1> QED
    BY <1>1, <1>2 DEF MintInv

LEMMA BlockKeepsMintInv ==
    ASSUME EpochsInv, MintInv, NEW gap \in BlockGaps, MintBeginBlocker(gap)
    PROVE  MintInv'
  <1> DEFINE n == info[MintId].currentEpoch
             h == hooks'[MintId].afterEnd
  <1>1. ~halted /\ BeginBlocker(gap) /\ AfterEpochEnd(h)
    BY DEF MintBeginBlocker
  <1>2. MintId \in Ids /\ MintStartEpoch \in Nat
    BY MintAssumption
  <1>3. FirstEpoch(MintId) \/ NextEpoch(MintId) \/ SameEpoch(MintId)
    BY <1>1, <1>2, BlockStep
  <1>4. info[MintId] \in EpochInfo /\ n \in Nat
    BY <1>2 DEF EpochsInv, TypeOK, EpochInfo
  <1>5. FirstMint \in Nat \ {0, 1}
    BY ScheduleNumbers
  <1>6. CASE FirstEpoch(MintId)
    <2>1. h = 0 /\ info'[MintId].currentEpoch = 1 /\ n = 0
      BY <1>2, <1>6 DEF FirstEpoch, EpochsInv, NotStarted
    <2>2. UNCHANGED mintVars
      BY <1>1, <2>1 DEF AfterEpochEnd
    <2>3. n < FirstMint /\ 1 < FirstMint
      BY <1>5, <2>1
    <2> QED
      BY <2>1, <2>2, <2>3, NothingMinted
  <1>7. CASE SameEpoch(MintId)
    <2>1. h = 0 /\ info'[MintId].currentEpoch = n
      BY <1>7 DEF SameEpoch
    <2>2. UNCHANGED mintVars
      BY <1>1, <2>1 DEF AfterEpochEnd
    <2> QED
      BY <2>1, <2>2, NothingMinted
  <1>8. CASE NextEpoch(MintId)
    <2>1. h = n + 1 /\ info'[MintId].currentEpoch = n + 1 /\ n >= 1
      BY <1>2, <1>8 DEF NextEpoch, EpochsInv, EpochGrid
    <2>2. CASE n + 1 < MintStartEpoch
      <3>1. UNCHANGED mintVars
        BY <1>1, <2>1, <2>2 DEF AfterEpochEnd
      <3>2. n < FirstMint /\ n + 1 < FirstMint
        BY <1>2, <1>4, <2>1, <2>2 DEF FirstMint
      <3> QED
        BY <2>1, <3>1, <3>2, NothingMinted
    <2>3. CASE ~(n + 1 < MintStartEpoch)
      <3> DEFINE m == n + 1
      <3>1. m \in Nat \ {0} /\ m >= MintStartEpoch /\ m >= FirstMint
        BY <1>2, <1>4, <2>1, <2>3 DEF FirstMint
      <3>2. /\ Reductions(m) \in Nat
            /\ LastReductionEpochNum(m)
                 = FirstReductionEpoch + Reductions(m) * ReductionPeriodInEpochs
            /\ NextEpochProvisions(m) = ReducedProvisions[Reductions(m)]
            /\ mints + 1 = m - FirstMint + 1
        <4>1. CASE n < FirstMint
          <5>1. m = FirstMint
            BY <1>4, <1>5, <3>1, <4>1
          <5>2. mints = 0 /\ lastReduction = 0 /\ provisions = GenesisEpochProvisions
            BY <4>1 DEF MintInv, ReductionInStep
          <5>3. mints + 1 = m - FirstMint + 1
            BY <1>5, <5>1, <5>2
          <5> HIDE DEF m
          <5> QED
            BY <5>1, <5>2, <5>3, FirstReduction
        <4>2. CASE ~(n < FirstMint)
          <5>1. n >= FirstMint
            BY <1>4, <1>5, <4>2
          <5>2. /\ mints = n - FirstMint + 1
                /\ lastReduction = FirstReductionEpoch + Reductions(n) * ReductionPeriodInEpochs
                /\ provisions = ReducedProvisions[Reductions(n)]
            BY <4>2 DEF MintInv, ReductionInStep
          <5>3. mints + 1 = m - FirstMint + 1
            BY <1>4, <1>5, <5>2
          <5>4. /\ Reductions(n + 1) \in Nat
                /\ LastReductionEpochNum(n + 1)
                     = FirstReductionEpoch + Reductions(n + 1) * ReductionPeriodInEpochs
                /\ NextEpochProvisions(n + 1) = ReducedProvisions[Reductions(n + 1)]
            BY <1>4, <5>1, <5>2, LaterReduction
          <5> QED
            BY <5>3, <5>4
        <4> QED
          BY <4>1, <4>2
      <3> HIDE DEF m
      <3>3. FirstReductionEpoch + Reductions(m) * ReductionPeriodInEpochs \in Nat
        BY <3>2, ScheduleNumbers
      <3>4. AfterEpochEnd(m)
        BY <1>1, <2>1 DEF m
      <3>5. MintTypeOK /\ MintedIsDistributed /\ LastReductionEpochNum(m) \in Nat
        BY <3>2, <3>3 DEF MintInv
      <3>6. /\ MintTypeOK' /\ MintedIsDistributed'
            /\ provisions' = NextEpochProvisions(m)
            /\ lastReduction' = LastReductionEpochNum(m)
            /\ mints' = mints + 1
        BY <1>1, <3>1, <3>2, <3>4, <3>5, EpochMinted
      <3>7. info'[MintId].currentEpoch = m /\ ~(m < FirstMint)
        BY <1>5, <2>1, <3>1 DEF m
      <3>8. ReductionInStep'
        BY <3>2, <3>6, <3>7 DEF ReductionInStep, FirstMint, Reductions, FirstReductionEpoch
      <3> QED
        BY <3>6, <3>8 DEF MintInv
    <2> QED
      BY <2>2, <2>3
  <1> QED
    BY <1>3, <1>6, <1>7, <1>8

LEMMA MintInvariance == MintSpec => [](EpochsInv /\ MintInv)
  <1>1. MintInit => MintInv
    <2> SUFFICES ASSUME MintInit PROVE MintInv
      OBVIOUS
    <2>1. /\ provisions = GenesisEpochProvisions /\ lastReduction = 0 /\ supply = 0 /\ mints = 0
          /\ halted = FALSE /\ pools = [i \in DOMAIN Proportions |-> 0]
          /\ info[MintId].currentEpoch = 0
      BY MintAssumption DEF MintInit, Init
    <2>2. MintTypeOK
      BY <2>1, MintAssumption DEF MintTypeOK
    <2>3. ReductionInStep
      BY <2>1, ScheduleNumbers DEF ReductionInStep
    <2>4. SumFunction(pools) = 0
      <3>1. DOMAIN pools = 1..4 /\ \A i \in 1..4 : pools[i] = 0
        BY <2>1, FourReceivers
      <3>2. SumFunctionOnSet(pools, 1..4) = pools[1] + pools[2] + pools[3] + pools[4]
        BY <3>1, SumOfFour
      <3> QED
        BY <3>1, <3>2 DEF SumFunction
    <2> QED
      BY <2>1, <2>2, <2>3, <2>4 DEF MintInv, MintedIsDistributed
  <1>2. EpochsInv /\ MintInv /\ [MintNext]_<<vars, mintVars>> => MintInv'
    <2> SUFFICES ASSUME EpochsInv, MintInv, [MintNext]_<<vars, mintVars>> PROVE MintInv'
      OBVIOUS
    <2>1. ASSUME NEW gap \in BlockGaps, MintBeginBlocker(gap) PROVE MintInv'
      BY <2>1, BlockKeepsMintInv
    <2>2. ASSUME NEW id \in Ids, SubmitTxsEpoch(id), UNCHANGED mintVars PROVE MintInv'
      <3>1. info' = info
        BY <2>2 DEF SubmitTxsEpoch
      <3> QED
        BY <2>2, <3>1, NothingMinted
    <2>3. CASE UNCHANGED <<vars, mintVars>>
      <3>1. info' = info /\ UNCHANGED mintVars
        BY <2>3 DEF vars
      <3> QED
        BY <3>1, NothingMinted
    <2> QED
      BY <2>1, <2>2, <2>3 DEF MintNext
  <1>3. MintSpec => []EpochsInv
    BY MintKeepsTheClock, EpochsInvariance, PTL
  <1> QED
    BY <1>1, <1>2, <1>3, PTL DEF MintSpec

\* Each epoch that ends is minted for once, and the provisions are reduced once per
\* period: DistributeMintedCoin and the reduction in x/mint's AfterEpochEnd keep in
\* step with the clock through halts of any length.
THEOREM MintScheduleHolds == MintSpec => []MintSchedule
  <1>1. EpochsInv /\ MintInv => MintSchedule
    <2> SUFFICES ASSUME EpochsInv, MintInv PROVE MintSchedule
      OBVIOUS
    <2> DEFINE n == info[MintId].currentEpoch
    <2>1. n \in Nat /\ FirstMint \in Nat
      BY MintAssumption, ScheduleNumbers DEF EpochsInv, TypeOK, EpochInfo
    <2>2. /\ mints = IF n < FirstMint THEN 0 ELSE n - FirstMint + 1
          /\ ~(n < FirstMint) => provisions = ReducedProvisions[Reductions(n)]
      BY DEF MintInv, ReductionInStep
    <2>3. n >= FirstMint => ~(n < FirstMint)
      BY <2>1
    <2> HIDE DEF n
    <2> QED
      BY <2>2, <2>3 DEF MintSchedule, FirstMint, Reductions, n
  <1> QED
    BY <1>1, MintInvariance, PTL

\* Whatever the proportions, the four receivers get exactly what is minted, and only
\* provisions below twenty tokens per receiver can stop the chain.
THEOREM MintedIsDistributedHolds == MintSpec => []MintedIsDistributed
  BY MintInvariance, PTL DEF MintInv
=============================================================================
