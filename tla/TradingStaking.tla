--------------------------- MODULE TradingStaking ---------------------------
(***************************************************************************)
(* TradingStaking, its hook and one FeedableRewarder: the size an account  *)
(* opens in a market is staked for it, and a rewarder streams what it is   *)
(* fed to the stakes of its markets, in proportion. Rewarders do not share *)
(* state, so one stands for each of them.                                  *)
(*                                                                         *)
(* Nothing happens as time passes: the reward per share is brought up to   *)
(* date by the next call, and what an account has is the difference to its *)
(* debt. The history variables follow the stream tick by tick instead.     *)
(* Positions may be older than their market's pool, so a decrease may be   *)
(* of any size. The widths of lastRewardTime and accRewardPerShare are     *)
(* left out: SafeCast reverts beyond them.                                 *)
(***************************************************************************)
EXTENDS Integers, FiniteSetsExt, Functions

CONSTANTS
    Users,
    Markets,
    SizeDeltas,              \* of the trades, in units of E30
    SizeUnit,                \* 1e12, of which the hook stakes the whole ones
    Precision,               \* ACC_REWARD_PRECISION
    MinPeriod, MaxPeriod,    \* MINIMUM_PERIOD, MAXIMUM_PERIOD
    FeedAmounts,
    MaxTime, MaxFeeds, MaxChanges, MaxShares, MaxDeposits, MaxWithdrawals  \* bounds

ASSUME StakingAssumption ==
    /\ IsFiniteSet(Users) /\ IsFiniteSet(Markets)
    /\ SizeDeltas \subseteq Nat \ {0} /\ FeedAmounts \subseteq Nat
    /\ {SizeUnit, Precision, MinPeriod, MaxPeriod} \subseteq Nat \ {0}
    /\ {MaxTime, MaxFeeds, MaxChanges, MaxShares, MaxDeposits, MaxWithdrawals} \subseteq Nat

VARIABLES
    time,
    marketIndices,     \* that were ever given a rewarder: isMarketIndex
    rewarderMarkets,   \* of the rewarder: rewarderMarketIndex, marketIndexRewarders
    userTokenAmount, totalShares,
    rewarder,
    earned, received,  \* history, by user: Precision * the stream's share, what was harvested
    idle,              \* history: Precision * what was streamed to no one
    deposits, withdrawals, \* history: calls of the rewarder for a user
    feeds, changes,    \* history: feeds, and changes of the rewarder's markets
    undisturbed        \* history: no market with stakes was given to or taken from the rewarder
stakes == <<marketIndices, rewarderMarkets, userTokenAmount, totalShares>>
history == <<earned, received, idle, deposits, withdrawals, feeds, changes, undisturbed>>
vars == <<time, stakes, rewarder, history>>

Init ==
    /\ time = 0
    /\ marketIndices = {} /\ rewarderMarkets = {}
    /\ userTokenAmount = [m \in Markets |-> [u \in Users |-> 0]]
    /\ totalShares = [m \in Markets |-> 0]
    /\ rewarder = [lastRewardTime |-> 0, accRewardPerShare |-> 0, rewardRate |-> 0,
                   rewardRateExpiredAt |-> 0, userRewardDebts |-> [u \in Users |-> 0], balance |-> 0]
    /\ earned = [u \in Users |-> 0] /\ received = [u \in Users |-> 0]
    /\ deposits = [u \in Users |-> 0] /\ withdrawals = [u \in Users |-> 0]
    /\ idle = 0 /\ feeds = 0 /\ changes = 0 /\ undisturbed = TRUE

UserShare(u) == SumFunction([m \in rewarderMarkets |-> userTokenAmount[m][u]])
TotalShare == SumFunction([m \in rewarderMarkets |-> totalShares[m]])
IsRewarder == rewarderMarkets # {}

-----------------------------------------------------------------------------
\* The rewarder r, at this time.

TimePast(r) ==
    IF time < r.rewardRateExpiredAt
    THEN time - r.lastRewardTime
    ELSE Max({r.rewardRateExpiredAt - r.lastRewardTime, 0})

RewardPerShare(r) ==
    IF TotalShare > 0 THEN (TimePast(r) * r.rewardRate * Precision) \div TotalShare ELSE 0

ForceUpdate(r) ==
    [r EXCEPT !.accRewardPerShare = @ + RewardPerShare(r), !.lastRewardTime = time]

Update(r) == IF time > r.lastRewardTime /\ TotalShare > 0 THEN ForceUpdate(r) ELSE r

Rewards(r, amount) == (amount * r.accRewardPerShare) \div Precision

\* Mutant: a deposit is taken to have been there since the last update.
OnDepositStale(r, u, amount) ==
    [Update(r) EXCEPT !.userRewardDebts[u] = @ + Rewards(r, amount)]

OnDeposit(r, u, amount) ==
    [Update(r) EXCEPT !.userRewardDebts[u] = @ + Rewards(Update(r), amount)]

OnWithdraw(r, u, amount) ==
    [Update(r) EXCEPT !.userRewardDebts[u] = @ - Rewards(Update(r), amount)]

Pending(r, u) == Rewards(r, UserShare(u)) - r.userRewardDebts[u]

\* A reward that is negative, by the rounding of debts, reverts.
CanHarvest(r, u) == Pending(r, u) >= 0 /\ Pending(r, u) <= r.balance

OnHarvest(r, u) ==
    [r EXCEPT !.userRewardDebts[u] = Rewards(r, UserShare(u)), !.balance = @ - Pending(r, u)]

\* Mutant: a second feed takes over all of the first.
LeftOverWhole(r) == (r.rewardRateExpiredAt - r.lastRewardTime) * r.rewardRate

LeftOver(r) == Max({r.rewardRateExpiredAt - time, 0}) * r.rewardRate

Feed(r, amount, duration) ==
    [ForceUpdate(r) EXCEPT
        !.balance = @ + amount,
        !.rewardRate = (LeftOver(r) + amount) \div duration,
        !.rewardRateExpiredAt = time + duration]

-----------------------------------------------------------------------------
\* The operations. The hook calls TradingStaking for every trade.

Shares == SumFunction([u \in Users |-> UserShare(u)])

Deposit(u, m, amount) ==
    /\ m \in marketIndices
    /\ userTokenAmount' = [userTokenAmount EXCEPT ![m][u] = @ + amount]
    /\ totalShares' = [totalShares EXCEPT ![m] = @ + amount]
    /\ IF m \in rewarderMarkets
       THEN /\ rewarder' = OnDeposit(rewarder, u, amount)
            /\ deposits' = [deposits EXCEPT ![u] = @ + 1]
       ELSE UNCHANGED <<rewarder, deposits>>
    /\ IF m \in rewarderMarkets /\ Shares = 0 /\ amount > 0
       THEN earned' = [earned EXCEPT ![u] = @ + idle] /\ idle' = 0
       ELSE UNCHANGED <<earned, idle>>
    /\ UNCHANGED <<time, marketIndices, rewarderMarkets, received, withdrawals, feeds, changes, undisturbed>>

OnIncreasePosition(u, m, sizeDelta) ==
    /\ SumFunction(totalShares) + sizeDelta \div SizeUnit <= MaxShares
    /\ SumFunction(deposits) < MaxDeposits
    /\ Deposit(u, m, sizeDelta \div SizeUnit)

Withdraw(u, m, amount) ==
    /\ m \in marketIndices
    /\ userTokenAmount[m][u] >= amount
    /\ userTokenAmount' = [userTokenAmount EXCEPT ![m][u] = @ - amount]
    /\ totalShares' = [totalShares EXCEPT ![m] = @ - amount]
    /\ IF m \in rewarderMarkets
       THEN /\ rewarder' = OnWithdraw(rewarder, u, amount)
            /\ withdrawals' = [withdrawals EXCEPT ![u] = @ + 1]
       ELSE UNCHANGED <<rewarder, withdrawals>>
    /\ UNCHANGED <<time, marketIndices, rewarderMarkets, earned, received, idle, deposits, feeds, changes, undisturbed>>

\* A stake smaller than the decrease is withdrawn whole; without any, the hook does nothing.
OnDecreasePosition(u, m, sizeDelta) ==
    LET amount == Min({sizeDelta \div SizeUnit, userTokenAmount[m][u]})
    IN  /\ amount > 0 \/ sizeDelta < SizeUnit
        /\ SumFunction(withdrawals) < MaxWithdrawals
        /\ Withdraw(u, m, amount)

Harvest(u) ==
    /\ IsRewarder
    /\ CanHarvest(Update(rewarder), u)
    /\ rewarder' = OnHarvest(Update(rewarder), u)
    /\ received' = [received EXCEPT ![u] = @ + Pending(Update(rewarder), u)]
    /\ UNCHANGED <<time, stakes, earned, idle, deposits, withdrawals, feeds, changes, undisturbed>>

\* What was streamed to no one before is not credited any more.
FeedRewarder(amount, duration) ==
    /\ duration \in MinPeriod..MaxPeriod
    /\ feeds < MaxFeeds
    /\ rewarder' = Feed(rewarder, amount, duration)
    /\ feeds' = feeds + 1
    /\ idle' = 0
    /\ UNCHANGED <<time, stakes, earned, received, deposits, withdrawals, changes, undisturbed>>

\* The owner's addPool and addRewarder, and its removal.
AddRewarder(m) ==
    /\ changes < MaxChanges
    /\ changes' = changes + 1
    /\ marketIndices' = marketIndices \union {m}
    /\ rewarderMarkets' = rewarderMarkets \union {m}
    /\ undisturbed' = (undisturbed /\ (m \in rewarderMarkets \/ totalShares[m] = 0))
    /\ UNCHANGED <<time, userTokenAmount, totalShares, rewarder, earned, received, idle,
                   deposits, withdrawals, feeds>>

RemoveRewarder(m) ==
    /\ m \in rewarderMarkets
    /\ changes < MaxChanges
    /\ changes' = changes + 1
    /\ rewarderMarkets' = rewarderMarkets \ {m}
    /\ undisturbed' = (undisturbed /\ totalShares[m] = 0)
    /\ UNCHANGED <<time, marketIndices, userTokenAmount, totalShares, rewarder, earned, received,
                   idle, deposits, withdrawals, feeds>>

\* What is streamed in a tick goes to those who have shares during it, and
\* to no one when there are none: the next to have any will get that too.
Tick ==
    LET streamed == IF time < rewarder.rewardRateExpiredAt THEN rewarder.rewardRate * Precision ELSE 0
    IN  /\ time < MaxTime
        /\ time' = time + 1
        /\ earned' = [u \in Users |->
                        IF Shares = 0 THEN earned[u] ELSE earned[u] + (streamed * UserShare(u)) \div Shares]
        /\ idle' = IF Shares = 0 THEN idle + streamed ELSE idle
        /\ UNCHANGED <<stakes, rewarder, received, deposits, withdrawals, feeds, changes, undisturbed>>

Next ==
    \/ \E u \in Users, m \in Markets, d \in SizeDeltas :
            OnIncreasePosition(u, m, d) \/ OnDecreasePosition(u, m, d)
    \/ \E u \in Users : Harvest(u)
    \/ \E amount \in FeedAmounts, duration \in MinPeriod..MaxPeriod : FeedRewarder(amount, duration)
    \/ \E m \in Markets : AddRewarder(m) \/ RemoveRewarder(m)
    \/ Tick

Spec == Init /\ [][Next]_vars

-----------------------------------------------------------------------------
\* The rewards brought up to date, as pendingReward shows them.
PendingReward(u) == Pending(Update(rewarder), u)

\* The reward per share is rounded in every update, and the history in every
\* tick, unless Precision is a multiple of the shares there may be.
Rounded == IF \A n \in 1 .. MaxShares : (Precision \div n) * n = Precision THEN 0 ELSE 1

\* What an account has harvested and may harvest is its part of the stream,
\* tick by tick, over the time its stakes were there: the debts by which
\* deposits and withdrawals between two updates are told apart amount to
\* that, but for the rounding of each (FeedableRewarder.onDeposit, onWithdraw,
\* onHarvest). This is while the owner leaves markets with stakes alone.
EarnedExactly ==
    undisturbed =>
        \A u \in Users :
            LET due == Precision * (received[u] + PendingReward(u))
            IN  /\ due <= earned[u] + Precision * deposits[u] + Rounded * time
                /\ due > earned[u] - Precision * (withdrawals[u] + 1) - Rounded * (MaxShares * time)

\* The rewarder holds what it owes and what it has yet to stream, but for
\* the rounding of deposits: neither a second feed that takes over what is
\* left of the first, nor the end of the stream, nor a time without stakes
\* promises a reward twice (FeedableRewarder._feed, _timePast).
Funded ==
    undisturbed =>
        LET r == Update(rewarder)
            yetToStream == (TimePast(r) + Max({r.rewardRateExpiredAt - time, 0})) * r.rewardRate
        IN  SumFunction([u \in Users |-> PendingReward(u)]) + yetToStream
                <= r.balance + SumFunction(deposits)
=============================================================================
