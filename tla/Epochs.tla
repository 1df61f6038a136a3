------------------------------- MODULE Epochs -------------------------------
(***************************************************************************)
(* The epoch clock of x/epochs and the two things x/stakeibc derives from  *)
(* it: the epoch tracker (x/stakeibc/keeper/hooks.go) and the deadlines of *)
(* the interchain-account transactions and of the slash queries            *)
(* (x/stakeibc/keeper/keeper.go).                                          *)
(*                                                                         *)
(* A step is one block.  Its time is the previous block's plus a gap of    *)
(* BlockGaps: a gap larger than a duration is a chain halt, after which    *)
(* BeginBlocker catches up by one epoch per block.  Heights, events and    *)
(* logs are left out.  0 stands for "no epoch yet" and "no deadline yet",  *)
(* as in genesis.                                                          *)
(***************************************************************************)
EXTENDS Integers

CONSTANTS
    Ids,         \* the epoch identifiers
    StrideId,    \* STRIDE_EPOCH, the identifier slash queries look at
    StartTime,   \* EpochInfo.StartTime, as genesis left it
    Duration,    \* EpochInfo.Duration
    BufferSize,  \* the stakeibc parameter of the same name
    BlockGaps,   \* the times that may pass between two blocks
    MaxTime      \* bound on block time

ASSUME EpochsAssumption ==
    /\ StrideId \in Ids
    /\ StartTime \in [Ids -> Nat]
    /\ Duration \in [Ids -> Nat \ {0}]
    /\ BufferSize \in Nat \ {0}
    /\ BlockGaps \subseteq Nat \ {0}
    /\ MaxTime \in Nat

VARIABLES
    now,      \* time of the last block
    info,     \* the EpochInfo store: started, number and start time
    tracker,  \* the EpochTracker store of stakeibc
    hooks,    \* the numbers the last block's hooks were called with
    deadline  \* latest timeout of an ICA submitted against each epoch

vars == <<now, info, tracker, hooks, deadline>>

EpochInfo == [started : BOOLEAN, currentEpoch : Nat, startTime : Nat]
EpochTracker == [epochNumber : Nat, nextEpochStartTime : Nat]
HookCalls == [afterEnd : Nat, beforeStart : Nat]

TypeOK ==
    /\ now \in Nat
    /\ info \in [Ids -> EpochInfo]
    /\ tracker \in [Ids -> EpochTracker]
    /\ hooks \in [Ids -> HookCalls]
    /\ deadline \in [Ids -> Nat]

Init ==
    /\ now = 0
    /\ info = [id \in Ids |-> [started |-> FALSE, currentEpoch |-> 0,
                               startTime |-> 0]]
    /\ tracker = [id \in Ids |-> [epochNumber |-> 0, nextEpochStartTime |-> 0]]
    /\ hooks = [id \in Ids |-> [afterEnd |-> 0, beforeStart |-> 0]]
    /\ deadline = [id \in Ids |-> 0]

-----------------------------------------------------------------------------
(* x/epochs: BeginBlocker *)

ShouldInitialEpochStart(id, t) == ~info[id].started /\ StartTime[id] <= t

ShouldEpochStart(id, t) ==
    /\ t > info[id].startTime + Duration[id]
    /\ ~ShouldInitialEpochStart(id, t)
    /\ StartTime[id] <= t

startInitialEpoch(id) ==
    [started |-> TRUE, currentEpoch |-> 1, startTime |-> StartTime[id]]

\* Mutated: the next epoch starts with the block that ended the last one.
endEpoch_drifts(id) ==
    [info[id] EXCEPT !.currentEpoch = @ + 1, !.startTime = now]

\* Mutated: all the epochs a halt covered are ended at once.
endEpoch_skips(id) ==
    [info[id] EXCEPT !.currentEpoch = @ + 2, !.startTime = @ + 2 * Duration[id]]

endEpoch(id) ==
    [info[id] EXCEPT !.currentEpoch = @ + 1, !.startTime = @ + Duration[id]]

NextInfo(id, t) ==
    IF ShouldInitialEpochStart(id, t) THEN startInitialEpoch(id)
    ELSE IF ShouldEpochStart(id, t) THEN endEpoch(id)
    ELSE info[id]

\* The hooks get the EpochInfo that startInitialEpoch or endEpoch returned.
HooksCalled(id, t) ==
    [afterEnd |-> IF ShouldEpochStart(id, t) THEN endEpoch(id).currentEpoch ELSE 0,
     beforeStart |-> IF ShouldInitialEpochStart(id, t) \/ ShouldEpochStart(id, t)
                     THEN NextInfo(id, t).currentEpoch ELSE 0]

(* x/stakeibc: what BeforeEpochStart writes to the tracker store *)
\* Mutated: the tracker keeps the start of the epoch instead of its end.
UpdateEpochTracker_start(id, epochInfo) ==
    [epochNumber |-> epochInfo.currentEpoch,
     nextEpochStartTime |-> epochInfo.startTime]

UpdateEpochTracker(id, epochInfo) ==
    [epochNumber |-> epochInfo.currentEpoch,
     nextEpochStartTime |-> epochInfo.startTime + Duration[id]]

BeginBlocker(gap) ==
    LET t == now + gap IN
    /\ t <= MaxTime
    /\ now' = t
    /\ info' = [id \in Ids |-> NextInfo(id, t)]
    /\ hooks' = [id \in Ids |-> HooksCalled(id, t)]
    /\ tracker' = [id \in Ids |->
            IF HooksCalled(id, t).beforeStart # 0
            THEN UpdateEpochTracker(id, NextInfo(id, t))
            ELSE tracker[id]]
    /\ UNCHANGED deadline

-----------------------------------------------------------------------------
(* x/stakeibc: timeouts of interchain-account transactions, and the window *)
(* at the end of the stride epoch in which slash queries are answered      *)

\* Mutated: no buffer, the timeout is the end of the epoch.
GetICATimeoutNanos_nobuffer(id) == tracker[id].nextEpochStartTime

GetICATimeoutNanos(id) ==
    tracker[id].nextEpochStartTime - Duration[id] \div BufferSize

\* SendTx of ibc-go's interchain-account controller takes the timeout it is
\* given to be relative to the block time.
absoluteTimeout(relative) == now + relative

\* SubmitTxsDayEpoch / SubmitTxsStrideEpoch: the tracker must exist.
SubmitTxsEpoch(id) ==
    LET timeout == absoluteTimeout(GetICATimeoutNanos(id)) IN
    /\ tracker[id].epochNumber # 0
    /\ deadline' = [deadline EXCEPT ![id] = IF timeout > @ THEN timeout ELSE @]
    /\ UNCHANGED <<now, info, tracker, hooks>>

\* GetStrideEpochElapsedShare fails unless the block time is inside the epoch
\* the tracker describes; the share it returns is elapsed / duration.  Decimals
\* are compared as exact fractions: durations are nanosecond counts far below
\* the 10^18 of a decimal, so rounding never decides the comparison.
InsideTrackedEpoch ==
    /\ tracker[StrideId].epochNumber # 0
    /\ now >= tracker[StrideId].nextEpochStartTime - Duration[StrideId]
    /\ now <= tracker[StrideId].nextEpochStartTime

ElapsedTime ==
    now - (tracker[StrideId].nextEpochStartTime - Duration[StrideId])

IsWithinBufferWindow ==
    /\ InsideTrackedEpoch
    /\ ElapsedTime * BufferSize > Duration[StrideId] * (BufferSize - 1)

Next ==
    \/ \E gap \in BlockGaps : BeginBlocker(gap)
    \/ \E id \in Ids : SubmitTxsEpoch(id)

Spec == Init /\ [][Next]_vars

-----------------------------------------------------------------------------
(* Properties *)

\* Epoch n of an identifier starts exactly n - 1 durations after its first
\* start time, however late the block was that started it: endEpoch advances
\* the start time by the duration and not to the block time, so halts do not
\* make the epochs drift.  An epoch never starts before its time.
EpochGrid ==
    \A id \in Ids : info[id].started =>
        /\ info[id].currentEpoch >= 1
        /\ info[id].startTime
             = StartTime[id] + (info[id].currentEpoch - 1) * Duration[id]
        /\ info[id].startTime <= now

\* What stakeibc believes about an epoch (its tracker store, read by every
\* handler that picks "the current" deposit or unbonding record) is what the
\* epochs module stores, after every block, catch-up blocks included.
TrackerInStep ==
    \A id \in Ids :
        /\ tracker[id].epochNumber = info[id].currentEpoch
        /\ info[id].started =>
             tracker[id].nextEpochStartTime = info[id].startTime + Duration[id]

\* No epoch number is skipped, repeated or revisited, a halt of several
\* epochs included: the record of every epoch gets created by its own hook.
EveryEpochStarts ==
    [][\A id \in Ids :
         /\ info'[id].currentEpoch \in {info[id].currentEpoch,
                                        info[id].currentEpoch + 1}
         /\ info'[id].currentEpoch # info[id].currentEpoch
              => hooks'[id].beforeStart = info[id].currentEpoch + 1]_vars

\* The two boundaries of the buffer agree: inside the window in which slash
\* queries are answered, the timeout GetICATimeoutNanos computes for the
\* transactions of the same epoch has passed.  (The one rounds the buffer down,
\* the other compares a share of the epoch with 1 - 1/BufferSize.)
TimeoutBeforeBufferWindow ==
    IsWithinBufferWindow => GetICATimeoutNanos(StrideId) <= now

\* "BUFFER by 5% of the epoch length" (keeper.go): slash queries are only
\* answered when no transaction submitted against the stride epoch can be
\* executed on the host any more.
BufferWindowAfterDeadlines ==
    IsWithinBufferWindow => deadline[StrideId] <= now
=============================================================================
