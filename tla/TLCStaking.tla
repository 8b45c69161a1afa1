----------------------------- MODULE TLCStaking -----------------------------
(***************************************************************************)
(* Trade credits: the hook of a trade (TLCHook, FTCHook) mints credits for  *)
(* its trader and stakes them in TLCStaking, for the epoch it is; after the *)
(* end of an epoch an EpochFeedableRewarder is fed the reward of it, to be  *)
(* harvested by the parts of the stakes.  The credits move with the stakes, *)
(* in the same call; their balances by epoch are left out.                  *)
(*                                                                         *)
(* An epoch goes by the time it starts at.  Rewarders share no state: one   *)
(* stands for each of them, on or off the list of TLCStaking.               *)
(***************************************************************************)
EXTENDS Integers, FiniteSets, Functions

CONSTANTS
    Traders,
    EpochLength,        \* 1 weeks
    TradeSizes, Weights, CreditUnit,    \* of a trade, of its market (not 0), and 1e16
    CreditAmounts, EpochFeeds,          \* what is withdrawn, and fed
    SharePrecision,                     \* ACC_REWARD_PRECISION
    MaxClock, MaxCredits                \* bounds

ASSUME CreditAssumption ==
    /\ IsFiniteSet(Traders)
    /\ {EpochLength, CreditUnit, SharePrecision} \subseteq Nat \ {0}
    /\ TradeSizes \cup Weights \cup CreditAmounts \cup EpochFeeds \subseteq Nat
    /\ {MaxClock, MaxCredits} \subseteq Nat

VARIABLES
    clock,
    userCredits, totalCredits,  \* userTokenAmount, totalTokenAmount of TLCStaking
    listed,                     \* isRewarder
    epochRewards,               \* rewardBalanceMapByEpochTimestamp
    rewardPerShare,             \* accRewardPerShareByEpochTimestamp
    claimed,                    \* isClaimed, by epoch
    rewardHeld,                 \* the rewarder's balance of reward tokens
    paid                        \* history: what was harvested, by epoch and trader
creditVars == <<clock, userCredits, totalCredits, listed, epochRewards, rewardPerShare,
                claimed, rewardHeld, paid>>

StartOf(t) == (t \div EpochLength) * EpochLength
Epochs == {StartOf(t) : t \in 0 .. MaxClock}
ThisEpoch == StartOf(clock)
Ended(epoch) == epoch + EpochLength <= clock

CreditsInit ==
    /\ clock = 0
    /\ userCredits = [e \in Epochs |-> [u \in Traders |-> 0]]
    /\ totalCredits = [e \in Epochs |-> 0]
    /\ listed = FALSE
    /\ epochRewards = [e \in Epochs |-> 0] /\ rewardPerShare = [e \in Epochs |-> 0]
    /\ claimed = [e \in Epochs |-> {}]
    /\ rewardHeld = 0
    /\ paid = [e \in Epochs |-> [u \in Traders |-> 0]]

\* _updateRewardCalculationParams, with the stakes total and the reward of an epoch
PerShare(epoch, total, reward) ==
    IF total > 0 THEN (reward * SharePrecision) \div total ELSE rewardPerShare[epoch]

-----------------------------------------------------------------------------
\* TLCHook.onIncreasePosition: mints credits to the hook, that TLCStaking takes.
\* A decrease does nothing.
MintTLC(u, sizeDelta, weight) ==
    LET amount == (sizeDelta * weight) \div CreditUnit
        e == ThisEpoch
    IN  /\ totalCredits[e] + amount <= MaxCredits
        /\ userCredits' = [userCredits EXCEPT ![e][u] = @ + amount]
        /\ totalCredits' = [totalCredits EXCEPT ![e] = @ + amount]
        /\ rewardPerShare' = IF ~listed THEN rewardPerShare
             ELSE [rewardPerShare EXCEPT ![e] = PerShare(e, totalCredits[e] + amount, epochRewards[e])]
        /\ UNCHANGED <<clock, listed, epochRewards, claimed, rewardHeld, paid>>

\* TLCStaking.withdraw, by its whitelisted caller.  A rewarder refuses it: the
\* current epoch never lies after its own end, as onWithdraw demands.
WithdrawCredits(u, amount) ==
    LET e == ThisEpoch
    IN  /\ ~listed
        /\ amount <= userCredits[e][u]
        /\ userCredits' = [userCredits EXCEPT ![e][u] = @ - amount]
        /\ totalCredits' = [totalCredits EXCEPT ![e] = @ - amount]
        /\ UNCHANGED <<clock, listed, epochRewards, rewardPerShare, claimed, rewardHeld, paid>>

\* The owner's addRewarder and removeRewarder.
ListRewarder(isRewarder) ==
    /\ listed # isRewarder
    /\ listed' = isRewarder
    /\ UNCHANGED <<clock, userCredits, totalCredits, epochRewards, rewardPerShare, claimed,
                   rewardHeld, paid>>

\* EpochFeedableRewarder.feed, at any time of an epoch that has ended.
FeedEpoch(time, amount) ==
    LET e == StartOf(time)
    IN  /\ Ended(e)
        /\ epochRewards[e] = 0
        /\ epochRewards' = [epochRewards EXCEPT ![e] = @ + amount]
        /\ rewardPerShare' = [rewardPerShare EXCEPT ![e] =
                                PerShare(e, totalCredits[e], epochRewards'[e])]
        /\ rewardHeld' = rewardHeld + amount
        /\ UNCHANGED <<clock, userCredits, totalCredits, listed, claimed, paid>>

\* What onHarvest finds for u in an epoch, and whether that settles it.
Reward(epoch, u) ==
    (userCredits[epoch][u] * PerShare(epoch, totalCredits[epoch], epochRewards[epoch])) \div SharePrecision
\* Mutant: who asks too early has asked.
SettledByAsking(epoch, u) == TRUE
SettlesClaim(epoch, u) == Reward(epoch, u) # 0

\* TLCStaking.harvest and harvestToCompounder: a row of epochs from a time on,
\* up to the first that has not ended.
HarvestEpochs(u, time, noOfEpochs) ==
    LET row == {e \in Epochs : /\ e >= StartOf(time) /\ e < StartOf(time) + noOfEpochs * EpochLength
                               /\ Ended(e)}
        due == {e \in row : u \notin claimed[e]}
    IN  /\ listed \/ row = {}
        /\ rewardHeld >= SumFunction([e \in due |-> Reward(e, u)])
        /\ claimed' = [e \in Epochs |-> IF e \in due /\ SettlesClaim(e, u) THEN claimed[e] \cup {u} ELSE claimed[e]]
        /\ paid' = [e \in Epochs |-> IF e \in due THEN [paid[e] EXCEPT ![u] = @ + Reward(e, u)] ELSE paid[e]]
        /\ rewardHeld' = rewardHeld - SumFunction([e \in due |-> Reward(e, u)])
        /\ rewardPerShare' = [e \in Epochs |->
             IF e \in due THEN PerShare(e, totalCredits[e], epochRewards[e]) ELSE rewardPerShare[e]]
        /\ UNCHANGED <<clock, userCredits, totalCredits, listed, epochRewards>>

ClockTicks ==
    /\ clock < MaxClock
    /\ clock' = clock + 1
    /\ UNCHANGED <<userCredits, totalCredits, listed, epochRewards, rewardPerShare, claimed,
                   rewardHeld, paid>>

CreditsNext ==
    \/ \E u \in Traders :
        \/ \E size \in TradeSizes, weight \in Weights : MintTLC(u, size, weight)
        \/ \E n \in CreditAmounts : WithdrawCredits(u, n)
        \/ \E t \in 0 .. clock : \E n \in 1 .. Cardinality(Epochs) : HarvestEpochs(u, t, n)
    \/ \E isRewarder \in BOOLEAN : ListRewarder(isRewarder)
    \/ \E t \in 0 .. clock, amount \in EpochFeeds : FeedEpoch(t, amount)
    \/ ClockTicks
CreditsSpec == CreditsInit /\ [][CreditsNext]_creditVars

-----------------------------------------------------------------------------
\* For an epoch a trader gets its part of what was fed, by the stakes at the end
\* of it, once and to the unit of rounding, however often and early it harvests;
\* and the rewarder holds what the others are still to get.
EpochsSettled ==
    /\ \A e \in Epochs, u \in Traders :
        LET part == userCredits[e][u] * epochRewards[e]     \* times the total
        IN  /\ paid[e][u] * totalCredits[e] <= part
            /\ u \in claimed[e] => SharePrecision * (part - paid[e][u] * totalCredits[e])
                                     < totalCredits[e] * (userCredits[e][u] + SharePrecision)
    /\ rewardHeld >= SumFunction([e \in Epochs |->
         SumFunction([u \in Traders \ claimed[e] |-> Reward(e, u)])])
=============================================================================
