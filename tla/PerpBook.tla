------------------------------ MODULE PerpBook ------------------------------
(***************************************************************************)
(* The position book of the exchange: PerpStorage, as TradeService and     *)
(* LiquidationService (through TradeHelper's rate and fee bookkeeping)     *)
(* write it. Opening, resizing and closing a position updates the position *)
(* and, redundantly, the counters of its market, of its asset class and of *)
(* the whole exchange; the pool's AUM, the fees and the price impact are   *)
(* computed from the counters alone, so the module is about their          *)
(* agreement with the positions.                                           *)
(*                                                                         *)
(* A position id is the hash of <<sub-account, market>>: it is that pair   *)
(* here, and the fields of struct Position are functions over the pairs.   *)
(* Prices come from the oracle and the pool's value from the vault: both   *)
(* are inputs. Whether an account is healthy is an input too, so the three *)
(* margin checks are not guards here.                                      *)
(***************************************************************************)
EXTENDS Integers, Sequences, FiniteSets, Functions

CONSTANTS
    Accounts,        \* sub-accounts
    Markets,         \* market indices
    AssetClasses,    \* asset class indices
    ClassOf,         \* MarketConfig.assetClass
    SizeDeltas,      \* sizes of increase orders, in USD
    Prices,          \* entry prices the oracle may lead to
    PoolValues,      \* values of the pool (getHLPValueE30) the vault may report
    MaxMarketSize,   \* maxLongPositionSize = maxShortPositionSize
    MinPositionSize, \* minimumPositionSize
    MaxPosition,     \* TradingConfig.maxPosition
    ReserveNum, ReserveDen, \* initialMarginFraction * maxProfitRate, as a ratio
    UtilNum, UtilDen,       \* maxHLPUtilizationBPS / BPS
    BaseBorrowingRate, \* AssetClassConfig.baseBorrowingRate
    MaxFundingRate,    \* FundingRate.maxFundingRate
    MaxSkewScale,      \* FundingRate.maxSkewScaleUSD
    RatePrecision,     \* RATE_PRECISION
    SEScale,           \* the 1e30 of SUM(positionSize / entryPrice)
    FundingInterval,   \* TradingConfig.fundingInterval
    MaxTime,           \* bound: last block timestamp
    MaxVolume          \* bound: traded volume per market

ASSUME SetsAssumption ==
    /\ IsFiniteSet(Accounts) /\ IsFiniteSet(Markets) /\ IsFiniteSet(AssetClasses)
    /\ ClassOf \in [Markets -> AssetClasses]
    /\ SizeDeltas \subseteq Nat \ {0}
    /\ Prices \subseteq Nat \ {0}
    /\ PoolValues \subseteq Nat

ASSUME NumbersAssumption ==
    /\ MaxMarketSize \in Nat /\ MinPositionSize \in Nat /\ MaxPosition \in Nat
    /\ ReserveNum \in Nat /\ ReserveDen \in Nat \ {0}
    /\ UtilNum \in Nat /\ UtilDen \in Nat \ {0}
    /\ BaseBorrowingRate \in Nat
    /\ MaxFundingRate \in Nat /\ MaxSkewScale \in Nat
    /\ RatePrecision \in Nat \ {0} /\ SEScale \in Nat \ {0}
    /\ FundingInterval \in Nat \ {0}
    /\ MaxTime \in Nat /\ MaxVolume \in Nat

VARIABLES
    now,             \* block.timestamp
    \* struct Position, by position id
    size, avgPrice, reserve, entryRate, lastAccrued,
    \* PerpStorage's indexes of the open positions
    positionIds,       \* subAccountPositionIds, as the markets of the positions
    activePositionIds, \* EnumerableSet
    activeSubAccounts, \* EnumerableSet
    \* struct Market, by market
    longSize, shortSize, longSE, shortSE, longS2E, shortS2E,
    fundingRate, fundingAccrued, lastFundingTime, accumLong, accumShort,
    buyVolume, sellVolume,  \* epochVolumeBuy / epochVolumeSell over all epochs
    \* struct AssetClass, by class, and GlobalState
    classReserve, sumRate, lastBorrowTime, sumFee, sumSettled,
    globalReserve

positionVars == <<size, avgPrice, reserve, entryRate, lastAccrued>>
indexVars    == <<positionIds, activePositionIds, activeSubAccounts>>
marketVars   == <<longSize, shortSize, longSE, shortSE, longS2E, shortS2E,
                  fundingRate, fundingAccrued, lastFundingTime, accumLong, accumShort,
                  buyVolume, sellVolume>>
classVars    == <<classReserve, sumRate, lastBorrowTime, sumFee, sumSettled, globalReserve>>
vars == <<now, positionVars, indexVars, marketVars, classVars>>

PositionIds == Accounts \X Markets

-----------------------------------------------------------------------------
\* Arithmetic.

Abs(x)     == IF x < 0 THEN -x ELSE x
LongPart(x)  == IF x > 0 THEN x ELSE 0
ShortPart(x) == IF x < 0 THEN -x ELSE 0
\* Solidity's signed division truncates towards zero.
TDiv(x, y) == IF x >= 0 THEN x \div y ELSE -((-x) \div y)
Clamp(x, bound) == IF x > bound THEN bound ELSE IF x < -bound THEN -bound ELSE x

\* The profit cap a position of size s reserves in the pool.
ReserveOf(s) == (s * ReserveNum) \div ReserveDen
\* A position's terms of SUM(size / entryPrice) and SUM(size^2 / entryPrice).
SE(s, p)  == IF s = 0 THEN 0 ELSE (s * SEScale) \div p
S2E(s, p) == IF s = 0 THEN 0 ELSE (s * s) \div p

-----------------------------------------------------------------------------
\* Rate updates. Both are no-ops until a funding interval has gone by, and
\* both only set the clock the first time (time 0 means "never").

Rounded(t) == (t \div FundingInterval) * FundingInterval

BorrowDue(c) == lastBorrowTime[c] # 0 /\ lastBorrowTime[c] + FundingInterval <= now
\* The rate updateBorrowingRate adds: proportional to the utilisation of the
\* pool and to the intervals gone by.
NextBorrowRate(c, tvl) ==
    IF ~BorrowDue(c) \/ tvl = 0 THEN 0
    ELSE (BaseBorrowingRate * classReserve[c]
            * ((now - lastBorrowTime[c]) \div FundingInterval)) \div tvl
BorrowRateAt(c, tvl) == sumRate[c] + NextBorrowRate(c, tvl)
BorrowFeeAt(c, tvl)  == sumFee[c] + (classReserve[c] * NextBorrowRate(c, tvl)) \div RatePrecision
BorrowTimeAt(c) == IF lastBorrowTime[c] = 0 \/ BorrowDue(c) THEN Rounded(now) ELSE lastBorrowTime[c]

FundingDue(m) == lastFundingTime[m] # 0 /\ lastFundingTime[m] + FundingInterval <= now
Velocity(m) ==
    IF MaxFundingRate = 0 \/ MaxSkewScale = 0 THEN 0
    ELSE Clamp(TDiv((longSize[m] - shortSize[m]) * MaxFundingRate, MaxSkewScale), MaxFundingRate)
Elapsed(m) == IF FundingDue(m) THEN now - lastFundingTime[m] ELSE 0
FundingRateAt(m) == fundingRate[m] + Velocity(m) * Elapsed(m)
AccruedAt(m) == fundingAccrued[m] + TDiv((fundingRate[m] + FundingRateAt(m)) * Elapsed(m), 2)
FundingTimeAt(m) == IF lastFundingTime[m] = 0 \/ FundingDue(m) THEN Rounded(now) ELSE lastFundingTime[m]
\* What a position of signed size s owes (negative: is owed) between two
\* values of the accrued funding.
FundingFee(s, accrued, last) == TDiv(s * (accrued - last), RatePrecision)
AccumLongAt(m)  == accumLong[m] + FundingFee(longSize[m], AccruedAt(m), fundingAccrued[m])
AccumShortAt(m) == accumShort[m] + FundingFee(-shortSize[m], AccruedAt(m), fundingAccrued[m])

\* Mutant: the funding rate is updated after the fees, so they miss it.
FundingFeeOfStale(id) == FundingFee(size[id], fundingAccrued[id[2]], lastAccrued[id])
\* The fees updateFeeStates settles for position id, after both rate updates.
BorrowingFeeOf(id, tvl) ==
    (reserve[id] * (BorrowRateAt(ClassOf[id[2]], tvl) - entryRate[id])) \div RatePrecision
FundingFeeOf(id) == FundingFee(size[id], AccruedAt(id[2]), lastAccrued[id])

\* Both rate updates for a set of markets within one transaction. A second
\* update of the same class or market in the same block is a no-op.
UpdateRates(ms, tvl) ==
    LET cs == {ClassOf[m] : m \in ms} IN
    /\ sumRate' = [c \in AssetClasses |-> IF c \in cs THEN BorrowRateAt(c, tvl) ELSE sumRate[c]]
    /\ sumFee'  = [c \in AssetClasses |-> IF c \in cs THEN BorrowFeeAt(c, tvl) ELSE sumFee[c]]
    /\ lastBorrowTime' = [c \in AssetClasses |-> IF c \in cs THEN BorrowTimeAt(c) ELSE lastBorrowTime[c]]
    /\ fundingRate' = [m \in Markets |-> IF m \in ms THEN FundingRateAt(m) ELSE fundingRate[m]]
    /\ fundingAccrued' = [m \in Markets |-> IF m \in ms THEN AccruedAt(m) ELSE fundingAccrued[m]]
    /\ lastFundingTime' = [m \in Markets |-> IF m \in ms THEN FundingTimeAt(m) ELSE lastFundingTime[m]]

\* updateFeeStates for one position: the fees become settled globally.
SettleFees(id, tvl) ==
    LET m == id[2] IN
    /\ sumSettled' = [sumSettled EXCEPT ![ClassOf[m]] = @ + BorrowingFeeOf(id, tvl)]
    /\ accumLong'  = [accumLong EXCEPT ![m] =
            AccumLongAt(m) - IF size[id] > 0 THEN FundingFeeOf(id) ELSE 0]
    /\ accumShort' = [accumShort EXCEPT ![m] =
            AccumShortAt(m) - IF size[id] > 0 THEN 0 ELSE FundingFeeOf(id)]

\* Mutant: only the exposure of the exchange is updated.
AddReserveGlobalOnly(c, dr) ==
    /\ globalReserve' = globalReserve + dr
    /\ UNCHANGED classReserve

\* The exposure of class c and of the exchange changes by dr.
AddReserve(c, dr) ==
    /\ classReserve'  = [classReserve EXCEPT ![c] = @ + dr]
    /\ globalReserve' = globalReserve + dr

\* increaseEpochVolume(true / false, m, amount).
AddVolume(m, isBuy, amount) ==
    /\ buyVolume'  = [buyVolume EXCEPT ![m] = @ + IF isBuy THEN amount ELSE 0]
    /\ sellVolume' = [sellVolume EXCEPT ![m] = @ + IF isBuy THEN 0 ELSE amount]

\* updateGlobalLongMarketById and updateGlobalShortMarketById, the new totals
\* given as differences.
UpdateLong(m, dSize, dSE, dS2E) ==
    /\ longSize' = [longSize EXCEPT ![m] = @ + dSize]
    /\ longSE'   = [longSE EXCEPT ![m] = @ + dSE]
    /\ longS2E'  = [longS2E EXCEPT ![m] = @ + dS2E]
    /\ UNCHANGED <<shortSize, shortSE, shortS2E>>
UpdateShort(m, dSize, dSE, dS2E) ==
    /\ shortSize' = [shortSize EXCEPT ![m] = @ + dSize]
    /\ shortSE'   = [shortSE EXCEPT ![m] = @ + dSE]
    /\ shortS2E'  = [shortS2E EXCEPT ![m] = @ + dS2E]
    /\ UNCHANGED <<longSize, longSE, longS2E>>

\* Mutants: the other side is updated; a reduction adds.
UpdateSideSwapped(m, isLong, dSize, dSE, dS2E) ==
    IF isLong THEN UpdateShort(m, dSize, dSE, dS2E) ELSE UpdateLong(m, dSize, dSE, dS2E)
UpdateSideNeverReduces(m, isLong, dSize, dSE, dS2E) ==
    IF isLong THEN UpdateLong(m, Abs(dSize), dSE, dS2E) ELSE UpdateShort(m, Abs(dSize), dSE, dS2E)

UpdateSide(m, isLong, dSize, dSE, dS2E) ==
    IF isLong THEN UpdateLong(m, dSize, dSE, dS2E) ELSE UpdateShort(m, dSize, dSE, dS2E)

\* savePosition registers the id when the stored size is still zero.
Register(id) ==
    LET isNew == size[id] = 0 IN
    /\ positionIds' = [positionIds EXCEPT ![id[1]] = IF isNew THEN Append(@, id[2]) ELSE @]
    /\ activePositionIds' = IF isNew THEN activePositionIds \cup {id} ELSE activePositionIds
    /\ activeSubAccounts' = IF isNew THEN activeSubAccounts \cup {id[1]} ELSE activeSubAccounts
StorePosition(id, s, p, r, rate, accrued) ==
    /\ size' = [size EXCEPT ![id] = s]
    /\ avgPrice' = [avgPrice EXCEPT ![id] = p]
    /\ reserve' = [reserve EXCEPT ![id] = r]
    /\ entryRate' = [entryRate EXCEPT ![id] = rate]
    /\ lastAccrued' = [lastAccrued EXCEPT ![id] = accrued]

\* Mutants: an open position keeps its entry borrowing rate, so the next
\* settlement charges it again; it keeps its average price.
SavePositionOldRate(id, s, p, r, rate, accrued) ==
    /\ Register(id)
    /\ StorePosition(id, s, p, r, IF size[id] = 0 THEN rate ELSE entryRate[id], accrued)
SavePositionOldPrice(id, s, p, r, rate, accrued) ==
    /\ Register(id)
    /\ StorePosition(id, s, IF size[id] = 0 THEN p ELSE avgPrice[id], r, rate, accrued)

SavePosition(id, s, p, r, rate, accrued) ==
    /\ Register(id)
    /\ StorePosition(id, s, p, r, rate, accrued)

\* Mutant: the last id is popped without taking the place of the removed one.
PopOnly(list, m) == [j \in 1..(Len(list) - 1) |-> list[j]]

\* The list without m: its last element takes m's place and is popped.
SwapAndPop(list, m) ==
    LET i == CHOOSE j \in 1..Len(list) : list[j] = m
    IN  [j \in 1..(Len(list) - 1) |-> IF j = i THEN list[Len(list)] ELSE list[j]]

\* removePositionFromSubAccount.
RemovePosition(id) ==
    LET a == id[1] IN
    /\ positionIds' = [positionIds EXCEPT ![a] = SwapAndPop(@, id[2])]
    /\ activePositionIds' = activePositionIds \ {id}
    /\ activeSubAccounts' =
            IF Len(positionIds[a]) = 1 THEN activeSubAccounts \ {a} ELSE activeSubAccounts
    /\ StorePosition(id, 0, 0, 0, 0, 0)

-----------------------------------------------------------------------------
Init ==
    /\ now = FundingInterval
    /\ size = [id \in PositionIds |-> 0]
    /\ avgPrice = [id \in PositionIds |-> 0]
    /\ reserve = [id \in PositionIds |-> 0]
    /\ entryRate = [id \in PositionIds |-> 0]
    /\ lastAccrued = [id \in PositionIds |-> 0]
    /\ positionIds = [a \in Accounts |-> <<>>]
    /\ activePositionIds = {}
    /\ activeSubAccounts = {}
    /\ longSize = [m \in Markets |-> 0] /\ shortSize = [m \in Markets |-> 0]
    /\ longSE = [m \in Markets |-> 0] /\ shortSE = [m \in Markets |-> 0]
    /\ longS2E = [m \in Markets |-> 0] /\ shortS2E = [m \in Markets |-> 0]
    /\ fundingRate = [m \in Markets |-> 0]
    /\ fundingAccrued = [m \in Markets |-> 0]
    /\ lastFundingTime = [m \in Markets |-> 0]
    /\ accumLong = [m \in Markets |-> 0] /\ accumShort = [m \in Markets |-> 0]
    /\ buyVolume = [m \in Markets |-> 0] /\ sellVolume = [m \in Markets |-> 0]
    /\ classReserve = [c \in AssetClasses |-> 0]
    /\ sumRate = [c \in AssetClasses |-> 0]
    /\ lastBorrowTime = [c \in AssetClasses |-> 0]
    /\ sumFee = [c \in AssetClasses |-> 0]
    /\ sumSettled = [c \in AssetClasses |-> 0]
    /\ globalReserve = 0

\* Blocks are mined.
Tick ==
    /\ now < MaxTime
    /\ now' = now + 1
    /\ UNCHANGED <<positionVars, indexVars, marketVars, classVars>>

\* TradeService.increasePosition of <<a, m>> by the signed size d. p is the
\* average entry price it leads to, tvl and tvlMax the pool's value at the
\* oracle's minimum and maximum prices.
IncreasePosition(a, m, d, p, tvl, tvlMax) ==
    LET id  == <<a, m>>
        c   == ClassOf[m]
        new == size[id] + d
        r   == ReserveOf(Abs(d)) IN
    /\ buyVolume[m] + sellVolume[m] + Abs(d) <= MaxVolume
    /\ IF d > 0 THEN longSize[m] + d <= MaxMarketSize ELSE shortSize[m] - d <= MaxMarketSize
    /\ size[id] = 0 => Len(positionIds[a]) + 1 <= MaxPosition
    /\ size[id] # 0 => (size[id] > 0 <=> d > 0)
    /\ Abs(new) >= MinPositionSize
    /\ tvlMax * UtilNum >= (globalReserve + r) * UtilDen
    /\ UpdateRates({m}, tvl)
    /\ SettleFees(id, tvl)
    /\ AddReserve(c, r)
    /\ UpdateSide(m, d > 0, Abs(d),
            SE(Abs(new), p) - SE(Abs(size[id]), avgPrice[id]),
            S2E(Abs(new), p) - S2E(Abs(size[id]), avgPrice[id]))
    /\ AddVolume(m, d > 0, Abs(d))
    /\ SavePosition(id, new, p, reserve[id] + r, BorrowRateAt(c, tvl), AccruedAt(m))
    /\ UNCHANGED now

\* TradeService._decreasePosition of <<a, m>> by q, for decreasePosition and
\* (with the whole size) forceClosePosition. p is the new average price.
DecreasePosition(a, m, q, p, tvl) ==
    LET id  == <<a, m>>
        c   == ClassOf[m]
        isLong == size[id] > 0
        new == Abs(size[id]) - q
        r   == ReserveOf(new) IN
    /\ size[id] # 0
    /\ q <= Abs(size[id])
    /\ new > 0 => new >= MinPositionSize
    /\ UpdateRates({m}, tvl)
    /\ SettleFees(id, tvl)
    /\ AddReserve(c, r - reserve[id])
    /\ IF new # 0
       THEN SavePosition(id, IF isLong THEN new ELSE -new, p, r, BorrowRateAt(c, tvl), AccruedAt(m))
       ELSE RemovePosition(id)
    /\ UpdateSide(m, isLong, -q,
            SE(new, p) - SE(Abs(size[id]), avgPrice[id]),
            S2E(new, p) - S2E(Abs(size[id]), avgPrice[id]))
    /\ AddVolume(m, ~isLong, q)
    /\ UNCHANGED now

\* The long and short sizes of the positions, which side they are on told by
\* their sign, and their accumulator terms.
Longs     == [id \in PositionIds |-> LongPart(size[id])]
Shorts    == [id \in PositionIds |-> ShortPart(size[id])]
LongSEs   == [id \in PositionIds |-> SE(Longs[id], avgPrice[id])]
ShortSEs  == [id \in PositionIds |-> SE(Shorts[id], avgPrice[id])]
LongS2Es  == [id \in PositionIds |-> S2E(Longs[id], avgPrice[id])]
ShortS2Es == [id \in PositionIds |-> S2E(Shorts[id], avgPrice[id])]

\* What account a has at its markets ms is cleared (taken out of the counters
\* n of the markets), and its sum over the markets of class c.
Cleared(f, a, ms) == [id \in PositionIds |-> IF id[1] = a /\ id[2] \in ms THEN 0 ELSE f[id]]
Less(n, f, a, ms) == [m \in Markets |-> n[m] - IF m \in ms THEN f[<<a, m>>] ELSE 0]
SumInClass(f, a, ms, c) ==
    SumFunction([m \in Markets |-> IF m \in ms /\ ClassOf[m] = c THEN f[<<a, m>>] ELSE 0])

\* LiquidationService._liquidatePosition: every position the list of the
\* account names is closed. An account has one position per market, so the
\* loop touches a market once; the classes add up its positions.
Liquidate(a, tvl) ==
    LET ms == {positionIds[a][i] : i \in 1..Len(positionIds[a])}
        fee == [id \in PositionIds |-> BorrowingFeeOf(id, tvl)] IN
    /\ UpdateRates(ms, tvl)
    /\ sumSettled' = [c \in AssetClasses |-> sumSettled[c] + SumInClass(fee, a, ms, c)]
    /\ accumLong' = [m \in Markets |-> IF m \notin ms THEN accumLong[m]
            ELSE AccumLongAt(m) - IF size[<<a, m>>] > 0 THEN FundingFeeOf(<<a, m>>) ELSE 0]
    /\ accumShort' = [m \in Markets |-> IF m \notin ms THEN accumShort[m]
            ELSE AccumShortAt(m) - IF size[<<a, m>>] > 0 THEN 0 ELSE FundingFeeOf(<<a, m>>)]
    /\ classReserve' = [c \in AssetClasses |-> classReserve[c] - SumInClass(reserve, a, ms, c)]
    /\ globalReserve' = globalReserve
            - SumFunction([m \in Markets |-> IF m \in ms THEN reserve[<<a, m>>] ELSE 0])
    /\ longSize'  = Less(longSize, Longs, a, ms) /\ shortSize' = Less(shortSize, Shorts, a, ms)
    /\ longSE'    = Less(longSE, LongSEs, a, ms) /\ shortSE' = Less(shortSE, ShortSEs, a, ms)
    /\ longS2E' = Less(longS2E, LongS2Es, a, ms) /\ shortS2E' = Less(shortS2E, ShortS2Es, a, ms)
    /\ buyVolume'  = [m \in Markets |-> buyVolume[m] + IF m \in ms THEN Shorts[<<a, m>>] ELSE 0]
    /\ sellVolume' = [m \in Markets |-> sellVolume[m] + IF m \in ms THEN Longs[<<a, m>>] ELSE 0]
    /\ positionIds' = [positionIds EXCEPT ![a] = <<>>]
    /\ activePositionIds' = activePositionIds \ ({a} \X ms)
    /\ activeSubAccounts' = activeSubAccounts \ {a}
    /\ size' = Cleared(size, a, ms) /\ avgPrice' = Cleared(avgPrice, a, ms)
    /\ reserve' = Cleared(reserve, a, ms) /\ entryRate' = Cleared(entryRate, a, ms)
    /\ lastAccrued' = Cleared(lastAccrued, a, ms)
    /\ UNCHANGED now

Next ==
    \/ Tick
    \/ \E a \in Accounts, m \in Markets, p \in Prices, tvl \in PoolValues :
          \/ \E s \in SizeDeltas, tvlMax \in PoolValues :
                \/ IncreasePosition(a, m, s, p, tvl, tvlMax)
                \/ IncreasePosition(a, m, -s, p, tvl, tvlMax)
          \/ \E q \in 0..MaxMarketSize : DecreasePosition(a, m, q, p, tvl)
    \/ \E a \in Accounts, tvl \in PoolValues : Liquidate(a, tvl)

Spec == Init /\ [][Next]_vars

-----------------------------------------------------------------------------
\* Type invariant. The counters of sizes, reserves and volumes are uint256 in
\* the code, where going below zero reverts: an exchange whose counters fell
\* behind its positions could not close them any more.
TypeOK ==
    /\ now \in Nat
    /\ size \in [PositionIds -> Int] /\ avgPrice \in [PositionIds -> Nat]
    /\ reserve \in [PositionIds -> Nat] /\ entryRate \in [PositionIds -> Nat]
    /\ lastAccrued \in [PositionIds -> Int]
    /\ positionIds \in [Accounts -> Seq(Markets)]
    /\ activePositionIds \subseteq PositionIds /\ activeSubAccounts \subseteq Accounts
    /\ longSize \in [Markets -> Nat] /\ shortSize \in [Markets -> Nat]
    /\ longSE \in [Markets -> Nat] /\ shortSE \in [Markets -> Nat]
    /\ longS2E \in [Markets -> Nat] /\ shortS2E \in [Markets -> Nat]
    /\ fundingRate \in [Markets -> Int] /\ fundingAccrued \in [Markets -> Int]
    /\ lastFundingTime \in [Markets -> Nat]
    /\ accumLong \in [Markets -> Int] /\ accumShort \in [Markets -> Int]
    /\ buyVolume \in [Markets -> Nat] /\ sellVolume \in [Markets -> Nat]
    /\ classReserve \in [AssetClasses -> Nat] /\ sumRate \in [AssetClasses -> Nat]
    /\ lastBorrowTime \in [AssetClasses -> Nat]
    /\ sumFee \in [AssetClasses -> Nat] /\ sumSettled \in [AssetClasses -> Nat]
    /\ globalReserve \in Nat

\* f at the positions of market m (of class c), 0 elsewhere.
OfMarket(f, m) == [id \in PositionIds |-> IF id[2] = m THEN f[id] ELSE 0]
OfClass(f, c)  == [id \in PositionIds |-> IF ClassOf[id[2]] = c THEN f[id] ELSE 0]

\* The open interest of a market, which decides the adaptive price, the
\* funding velocity and the position limits, is that of its positions.
MarketSizesMatch ==
    \A m \in Markets :
        /\ longSize[m] = SumFunction(OfMarket(Longs, m))
        /\ shortSize[m] = SumFunction(OfMarket(Shorts, m))

\* SUM(size/price) and SUM(size^2/price), from which getAUME30 computes the
\* traders' profit, are exactly the sums over the positions: what closing
\* takes out is what opening put in, rounding included.
AccumMatch ==
    \A m \in Markets :
        /\ longSE[m] = SumFunction(OfMarket(LongSEs, m))
        /\ shortSE[m] = SumFunction(OfMarket(ShortSEs, m))
        /\ longS2E[m] = SumFunction(OfMarket(LongS2Es, m))
        /\ shortS2E[m] = SumFunction(OfMarket(ShortS2Es, m))

\* The exposure of a class and of the exchange is what the open positions
\* reserve: nothing stays reserved by a closed or liquidated position, and
\* no close underflows.
ReserveMatch ==
    /\ globalReserve = SumFunction(reserve)
    /\ \A c \in AssetClasses : classReserve[c] = SumFunction(OfClass(reserve, c))

\* The three indexes name exactly the open positions: liquidation, the margin
\* requirements and the equity of an account loop over positionIds, so a
\* missing id is an uncollateralised position and a stale one a revert.
IdsMatch ==
    /\ activePositionIds = {id \in PositionIds : size[id] # 0}
    /\ activeSubAccounts = {a \in Accounts : \E m \in Markets : size[<<a, m>>] # 0}
    /\ \A a \in Accounts :
          /\ {positionIds[a][i] : i \in 1..Len(positionIds[a])}
                = {m \in Markets : size[<<a, m>>] # 0}
          /\ \A i, j \in 1..Len(positionIds[a]) :
                positionIds[a][i] = positionIds[a][j] => i = j

\* What open positions of class c owe in borrowing fees, times RatePrecision.
BorrowingOwed(c) ==
    SumFunction(OfClass([id \in PositionIds |-> reserve[id] * (sumRate[c] - entryRate[id])], c))

\* No borrowing fee is settled that was not accumulated: settled and still
\* owed fees stay within the accumulated ones but for the rounding of at most
\* one update per unit of time. getAUME30 reverts with InvalidBorrowingFee,
\* which stops every mint and burn of the pool's token, when the settled fees
\* run ahead.
BorrowingNotOverSettled ==
    \A c \in AssetClasses :
        /\ \A id \in PositionIds : ClassOf[id[2]] = c => entryRate[id] <= sumRate[c]
        /\ RatePrecision * sumSettled[c] + BorrowingOwed(c)
              <= RatePrecision * sumFee[c] + (RatePrecision - 1) * now

\* Without rounding, the accumulated borrowing fees are exactly the settled
\* ones and those the open positions owe: the pending fee of getAUME30 is
\* what the pool will be paid.
BorrowingFeesBalance ==
    RatePrecision = 1 =>
        \A c \in AssetClasses : sumFee[c] = sumSettled[c] + BorrowingOwed(c)

\* Without rounding, accumFundingLong (Short) is the funding the long (short)
\* positions of the market owe since each was last touched: the book value
\* withdrawFundingFeeSurplus keeps in reserve for the traders.
FundingMatch ==
    RatePrecision = 1 =>
        \A m \in Markets :
            LET Owed(s) == [id \in PositionIds |->
                                FundingFee(s[id], fundingAccrued[m], lastAccrued[id])] IN
            /\ accumLong[m] = SumFunction(OfMarket(Owed(Longs), m))
            /\ accumShort[m] = -SumFunction(OfMarket(Owed(Shorts), m))

\* Every change of the open interest is counted as a buy or a sell, on the
\* right side: the adaptive fee weighs the two volumes against each other.
NetVolume ==
    \A m \in Markets : buyVolume[m] - sellVolume[m] = longSize[m] - shortSize[m]
=============================================================================
