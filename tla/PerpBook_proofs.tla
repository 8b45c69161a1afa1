--------------------------- MODULE PerpBook_proofs ---------------------------
(***************************************************************************)
(* The counters of PerpStorage agree with the positions, for every set of  *)
(* accounts, markets and classes, every configuration and every sequence   *)
(* of trades and liquidations. Every counter is a sum over the positions,  *)
(* so the argument is about what changing one position (a trade) or one    *)
(* row of positions (a liquidation) does to the sums of module Sums.       *)
(* The fees are such sums too: what a class of assets (a side of a market) *)
(* is still owed rises with the rate by the reserve (the open interest) of *)
(* its positions, and falls when a position is touched by what it settles. *)
(***************************************************************************)
EXTENDS PerpBook, Sums

-----------------------------------------------------------------------------
\* Arithmetic.

LEMMA PositionIdsFinite == IsFiniteSet(PositionIds)
BY SetsAssumption, FS_Product DEF PositionIds

LEMMA DivNat ==
    ASSUME NEW x \in Nat, NEW y \in Nat, y # 0
    PROVE  x \div y \in Nat
OBVIOUS

LEMMA ProductNat ==
    ASSUME NEW x \in Nat, NEW y \in Nat
    PROVE  x * y \in Nat
OBVIOUS

LEMMA TDivInt ==
    ASSUME NEW x \in Int, NEW y \in Nat, y # 0
    PROVE  TDiv(x, y) \in Int
BY DEF TDiv

LEMMA SENat ==
    ASSUME NEW s \in Nat, NEW p \in Nat, s # 0 => p # 0
    PROVE  SE(s, p) \in Nat /\ S2E(s, p) \in Nat
<1>1. s * SEScale \in Nat /\ s * s \in Nat  BY NumbersAssumption, ProductNat
<1> QED BY <1>1, DivNat DEF SE, S2E

LEMMA ReserveNat ==
    ASSUME NEW s \in Nat
    PROVE  ReserveOf(s) \in Nat
<1>1. s * ReserveNum \in Nat  BY NumbersAssumption, ProductNat
<1> QED BY <1>1, DivNat, NumbersAssumption DEF ReserveOf

-----------------------------------------------------------------------------
\* Counters of markets and of classes, as functions.

LEMMA OfMarketType ==
    ASSUME NEW f \in [PositionIds -> Int], NEW m \in Markets
    PROVE  OfMarket(f, m) \in [PositionIds -> Int]
BY DEF OfMarket

LEMMA OfClassType ==
    ASSUME NEW f \in [PositionIds -> Int], NEW c \in AssetClasses
    PROVE  OfClass(f, c) \in [PositionIds -> Int]
BY DEF OfClass

\* n counts f, by market (by class).
CountsMarkets(n, f) == \A m \in Markets : n[m] = SumFunction(OfMarket(f, m))
CountsClasses(n, f) == \A c \in AssetClasses : n[c] = SumFunction(OfClass(f, c))

\* A counter of naturals is a natural.
LEMMA MarketCounterNat ==
    ASSUME NEW f \in [PositionIds -> Nat], NEW n \in [Markets -> Int], CountsMarkets(n, f)
    PROVE  n \in [Markets -> Nat]
<1>1. ASSUME NEW m \in Markets PROVE n[m] \in Nat
  <2>1. OfMarket(f, m) \in [PositionIds -> Nat]  BY DEF OfMarket
  <2>2. SumFunction(OfMarket(f, m)) \in Nat  BY <2>1, PositionIdsFinite, SumFunctionNat
  <2> QED BY <2>2 DEF CountsMarkets
<1> QED BY <1>1

LEMMA ClassCounterNat ==
    ASSUME NEW f \in [PositionIds -> Nat], NEW n \in [AssetClasses -> Int], CountsClasses(n, f)
    PROVE  n \in [AssetClasses -> Nat]
<1>1. ASSUME NEW c \in AssetClasses PROVE n[c] \in Nat
  <2>1. OfClass(f, c) \in [PositionIds -> Nat]  BY DEF OfClass
  <2>2. SumFunction(OfClass(f, c)) \in Nat  BY <2>1, PositionIdsFinite, SumFunctionNat
  <2> QED BY <2>2 DEF CountsClasses
<1> QED BY <1>1

\* A trade: the entry of one position changes, and the counter of its market
\* changes by the difference.
LEMMA MarketCounterUpdate ==
    ASSUME NEW f \in [PositionIds -> Int], NEW n \in [Markets -> Int], CountsMarkets(n, f),
           NEW id \in PositionIds, NEW v \in Int
    PROVE  CountsMarkets([n EXCEPT ![id[2]] = @ + (v - f[id])], [f EXCEPT ![id] = v])
<1> DEFINE g == [f EXCEPT ![id] = v]
           k == [n EXCEPT ![id[2]] = @ + (v - f[id])]
<1>1. id[2] \in Markets /\ f[id] \in Int  BY DEF PositionIds
<1>2. ASSUME NEW m \in Markets PROVE k[m] = SumFunction(OfMarket(g, m))
  <2>1. CASE m = id[2]
    <3>1. OfMarket(g, m) = [OfMarket(f, m) EXCEPT ![id] = v] /\ OfMarket(f, m)[id] = f[id]
      BY <2>1 DEF OfMarket
    <3>2. SumFunction(OfMarket(g, m)) = SumFunction(OfMarket(f, m)) + v - f[id]
      BY <3>1, OfMarketType, PositionIdsFinite, SumFunctionUpdate
    <3>3. k[m] = n[m] + (v - f[id]) /\ n[m] \in Int  BY <1>1, <2>1
    <3> HIDE DEF g, k
    <3> QED BY <1>1, <3>2, <3>3 DEF CountsMarkets
  <2>2. CASE m # id[2]
    <3>1. OfMarket(g, m) = OfMarket(f, m)  BY <2>2 DEF OfMarket
    <3>2. k[m] = n[m]  BY <2>2
    <3> HIDE DEF g, k
    <3> QED BY <3>1, <3>2 DEF CountsMarkets
  <2> QED BY <2>1, <2>2
<1> QED BY <1>2 DEF CountsMarkets

LEMMA ClassCounterUpdate ==
    ASSUME NEW f \in [PositionIds -> Int], NEW n \in [AssetClasses -> Int], CountsClasses(n, f),
           NEW id \in PositionIds, NEW v \in Int
    PROVE  CountsClasses([n EXCEPT ![ClassOf[id[2]]] = @ + (v - f[id])], [f EXCEPT ![id] = v])
<1> DEFINE g == [f EXCEPT ![id] = v]
           k == [n EXCEPT ![ClassOf[id[2]]] = @ + (v - f[id])]
<1>1. id[2] \in Markets /\ ClassOf[id[2]] \in AssetClasses /\ f[id] \in Int
  BY SetsAssumption DEF PositionIds
<1>2. ASSUME NEW c \in AssetClasses PROVE k[c] = SumFunction(OfClass(g, c))
  <2>1. CASE c = ClassOf[id[2]]
    <3>1. OfClass(g, c) = [OfClass(f, c) EXCEPT ![id] = v] /\ OfClass(f, c)[id] = f[id]
      BY <2>1 DEF OfClass
    <3>2. SumFunction(OfClass(g, c)) = SumFunction(OfClass(f, c)) + v - f[id]
      BY <3>1, OfClassType, PositionIdsFinite, SumFunctionUpdate
    <3>3. k[c] = n[c] + (v - f[id]) /\ n[c] \in Int  BY <1>1, <2>1
    <3> HIDE DEF g, k
    <3> QED BY <1>1, <3>2, <3>3 DEF CountsClasses
  <2>2. CASE c # ClassOf[id[2]]
    <3>1. OfClass(g, c) = OfClass(f, c)  BY <2>2 DEF OfClass
    <3>2. k[c] = n[c]  BY <2>2
    <3> HIDE DEF g, k
    <3> QED BY <3>1, <3>2 DEF CountsClasses
  <2> QED BY <2>1, <2>2
<1> QED BY <1>2 DEF CountsClasses

-----------------------------------------------------------------------------
\* A liquidation: the row of an account is cleared.

LEMMA ClearedType ==
    ASSUME NEW f \in [PositionIds -> Int], NEW a \in Accounts, NEW ms \in SUBSET Markets
    PROVE  Cleared(f, a, ms) \in [PositionIds -> Int]
BY DEF Cleared

LEMMA MarketCounterClear ==
    ASSUME NEW f \in [PositionIds -> Int], NEW n \in [Markets -> Int], CountsMarkets(n, f),
           NEW a \in Accounts, NEW ms \in SUBSET Markets
    PROVE  CountsMarkets(Less(n, f, a, ms), Cleared(f, a, ms))
<1> DEFINE g == Cleared(f, a, ms)
           k == Less(n, f, a, ms)
<1>1. ASSUME NEW m \in Markets PROVE k[m] = SumFunction(OfMarket(g, m))
  <2> DEFINE id == <<a, m>>
  <2>1. id \in PositionIds /\ id[1] = a /\ id[2] = m /\ f[id] \in Int  BY DEF PositionIds
  <2>2. CASE m \in ms
    <3>1. OfMarket(g, m) = [OfMarket(f, m) EXCEPT ![id] = 0] /\ OfMarket(f, m)[id] = f[id]
      <4>1. ASSUME NEW z \in PositionIds PROVE (z[1] = a /\ z[2] = m) <=> z = id
        BY DEF PositionIds
      <4>2. OfMarket(g, m)
              = [z \in PositionIds |-> IF z[2] = m
                    THEN IF z[1] = a /\ z[2] \in ms THEN 0 ELSE f[z] ELSE 0]
        BY DEF OfMarket, Cleared
      <4>3. [OfMarket(f, m) EXCEPT ![id] = 0]
              = [z \in PositionIds |-> IF z = id THEN 0 ELSE IF z[2] = m THEN f[z] ELSE 0]
        BY DEF OfMarket
      <4>4. OfMarket(f, m)[id] = f[id]  BY <2>1 DEF OfMarket
      <4> HIDE DEF id, g
      <4> QED BY <2>2, <4>1, <4>2, <4>3, <4>4
    <3> HIDE DEF id, g
    <3>2. SumFunction(OfMarket(g, m)) = SumFunction(OfMarket(f, m)) + 0 - f[id]
      <4> DEFINE h == OfMarket(f, m)
      <4>1. h \in [PositionIds -> Int] /\ 0 \in Int  BY OfMarketType
      <4> HIDE DEF h
      <4>2. SumFunction([h EXCEPT ![id] = 0]) = SumFunction(h) + 0 - h[id]
        BY <2>1, <4>1, PositionIdsFinite, SumFunctionUpdate
      <4> QED BY <3>1, <4>2 DEF h
    <3>3. k[m] = n[m] - f[id] /\ n[m] \in Int  BY <2>2 DEF id, Less
    <3> HIDE DEF k
    <3> QED BY <2>1, <3>2, <3>3 DEF CountsMarkets
  <2>3. CASE m \notin ms
    <3>1. OfMarket(g, m) = OfMarket(f, m)  BY <2>3 DEF OfMarket, Cleared
    <3>2. k[m] = n[m]  BY <2>3 DEF Less
    <3> HIDE DEF g, k
    <3> QED BY <3>1, <3>2 DEF CountsMarkets
  <2> QED BY <2>2, <2>3
<1> QED BY <1>1 DEF CountsMarkets

LEMMA ClassCounterClear ==
    ASSUME NEW f \in [PositionIds -> Int], NEW n \in [AssetClasses -> Int], CountsClasses(n, f),
           NEW a \in Accounts, NEW ms \in SUBSET Markets
    PROVE  CountsClasses([c \in AssetClasses |-> n[c] - SumInClass(f, a, ms, c)], Cleared(f, a, ms))
<1> DEFINE g == Cleared(f, a, ms)
<1>1. ASSUME NEW c \in AssetClasses
      PROVE  n[c] - SumInClass(f, a, ms, c) = SumFunction(OfClass(g, c))
  <2> DEFINE h == OfClass(f, c)
             r == [m \in Markets |-> IF m \in ms /\ ClassOf[m] = c THEN f[<<a, m>>] ELSE 0]
             k == OfClass(g, c)
  <2>1. h \in [PositionIds -> Int] /\ k \in [PositionIds -> Int]
    BY OfClassType, ClearedType
  <2>2. r \in [Markets -> Int]  BY DEF PositionIds
  <2>3. IsRow(r, h, Markets, a, ms)
    BY DEF OfClass, PositionIds, IsRow
  <2>4. IsCleared(k, h, PositionIds, a, ms)
    BY DEF OfClass, Cleared, PositionIds, IsCleared
  <2>5. SumInClass(f, a, ms, c) = SumFunction(r)  BY DEF SumInClass
  <2>6. n[c] = SumFunction(h)  BY DEF CountsClasses
  <2>0. PositionIds = Accounts \X Markets  BY DEF PositionIds
  <2> HIDE DEF h, r, k
  <2>7. SumFunction(k) = SumFunction(h) - SumFunction(r)
    BY <2>0, <2>1, <2>2, <2>3, <2>4, SetsAssumption, SumFunctionClearRow
  <2> QED BY <2>5, <2>6, <2>7 DEF k
<1> HIDE DEF g
<1> QED BY <1>1 DEF CountsClasses, g

LEMMA TotalClear ==
    ASSUME NEW f \in [PositionIds -> Int], NEW a \in Accounts, NEW ms \in SUBSET Markets
    PROVE  SumFunction(Cleared(f, a, ms))
             = SumFunction(f) - SumFunction([m \in Markets |-> IF m \in ms THEN f[<<a, m>>] ELSE 0])
<1> DEFINE g == Cleared(f, a, ms)
           r == [m \in Markets |-> IF m \in ms THEN f[<<a, m>>] ELSE 0]
<1>1. g \in [PositionIds -> Int] /\ PositionIds = Accounts \X Markets
  BY ClearedType DEF PositionIds
<1>2. r \in [Markets -> Int]  BY DEF PositionIds
<1>3. IsRow(r, f, Markets, a, ms)  BY DEF IsRow
<1>4. IsCleared(g, f, PositionIds, a, ms)  BY DEF Cleared, PositionIds, IsCleared
<1> HIDE DEF g, r
<1>5. SumFunction(g) = SumFunction(f) - SumFunction(r)
  BY <1>1, <1>2, <1>3, <1>4, SetsAssumption, SumFunctionClearRow
<1> QED BY <1>5 DEF g, r

-----------------------------------------------------------------------------
(***************************************************************************)
(* The inductive invariant. TypeOK alone is not inductive: that a counter  *)
(* stays a natural when a position is closed follows from its being a sum  *)
(* of naturals over the positions; that a term of SUM(size / price) is a   *)
(* number needs the average price of an open position to be positive; that *)
(* a borrowing fee is a natural needs the entry rate of a position not to  *)
(* be ahead of its class.                                                  *)
(***************************************************************************)
PositionsOK ==
    \A id \in PositionIds :
        /\ size[id] # 0 => avgPrice[id] # 0
        /\ entryRate[id] <= sumRate[ClassOf[id[2]]]

IndInv ==
    /\ TypeOK
    /\ MarketSizesMatch
    /\ AccumMatch
    /\ ReserveMatch
    /\ NetVolume
    /\ PositionsOK

LEMMA BorrowRateFacts ==
    ASSUME TypeOK, NEW c \in AssetClasses, NEW tvl \in Nat
    PROVE  /\ BorrowRateAt(c, tvl) \in Nat /\ sumRate[c] <= BorrowRateAt(c, tvl)
           /\ BorrowFeeAt(c, tvl) \in Nat
           /\ BorrowTimeAt(c) \in Nat
<1>0. /\ now \in Nat /\ lastBorrowTime[c] \in Nat /\ sumRate[c] \in Nat
      /\ classReserve[c] \in Nat /\ sumFee[c] \in Nat
  BY DEF TypeOK
<1>1. Rounded(now) \in Nat
  <2>1. now \div FundingInterval \in Nat  BY <1>0, NumbersAssumption, DivNat
  <2> QED BY <2>1, NumbersAssumption, ProductNat DEF Rounded
<1>2. NextBorrowRate(c, tvl) \in Nat
  <2>1. CASE ~BorrowDue(c) \/ tvl = 0  BY <2>1 DEF NextBorrowRate
  <2>2. CASE BorrowDue(c) /\ tvl # 0
    <3>1. now - lastBorrowTime[c] \in Nat  BY <1>0, <2>2, NumbersAssumption DEF BorrowDue
    <3>2. (now - lastBorrowTime[c]) \div FundingInterval \in Nat
      BY <3>1, NumbersAssumption, DivNat
    <3>3. BaseBorrowingRate * classReserve[c] \in Nat  BY <1>0, NumbersAssumption, ProductNat
    <3>4. BaseBorrowingRate * classReserve[c] * ((now - lastBorrowTime[c]) \div FundingInterval) \in Nat
      BY <3>2, <3>3, ProductNat
    <3> QED BY <2>2, <3>4, DivNat DEF NextBorrowRate
  <2> QED BY <2>1, <2>2
<1>3. (classReserve[c] * NextBorrowRate(c, tvl)) \div RatePrecision \in Nat
  BY <1>0, <1>2, NumbersAssumption, ProductNat, DivNat
<1> QED BY <1>0, <1>1, <1>2, <1>3 DEF BorrowRateAt, BorrowFeeAt, BorrowTimeAt

LEMMA FundingFeeInt ==
    ASSUME NEW s \in Int, NEW x \in Int, NEW y \in Int
    PROVE  FundingFee(s, x, y) \in Int
<1>1. s * (x - y) \in Int  OBVIOUS
<1> QED BY <1>1, NumbersAssumption, TDivInt DEF FundingFee

LEMMA FundingFacts ==
    ASSUME TypeOK, NEW m \in Markets
    PROVE  /\ FundingRateAt(m) \in Int /\ AccruedAt(m) \in Int /\ FundingTimeAt(m) \in Nat
           /\ AccumLongAt(m) \in Int /\ AccumShortAt(m) \in Int
<1>0. /\ now \in Nat /\ lastFundingTime[m] \in Nat /\ fundingRate[m] \in Int
      /\ fundingAccrued[m] \in Int /\ longSize[m] \in Nat /\ shortSize[m] \in Nat
      /\ accumLong[m] \in Int /\ accumShort[m] \in Int
  BY DEF TypeOK
<1>1. Rounded(now) \in Nat
  <2>1. now \div FundingInterval \in Nat  BY <1>0, NumbersAssumption, DivNat
  <2> QED BY <2>1, NumbersAssumption, ProductNat DEF Rounded
<1>2. Velocity(m) \in Int
  <2>1. CASE MaxFundingRate = 0 \/ MaxSkewScale = 0  BY <2>1 DEF Velocity
  <2>2. CASE MaxSkewScale # 0 /\ MaxFundingRate # 0
    <3>1. (longSize[m] - shortSize[m]) * MaxFundingRate \in Int  BY <1>0, NumbersAssumption
    <3>2. TDiv((longSize[m] - shortSize[m]) * MaxFundingRate, MaxSkewScale) \in Int
      BY <2>2, <3>1, NumbersAssumption, TDivInt
    <3> QED BY <2>2, <3>2, NumbersAssumption DEF Velocity, Clamp
  <2> QED BY <2>1, <2>2
<1>3. Elapsed(m) \in Int  BY <1>0 DEF Elapsed
<1>4. FundingRateAt(m) \in Int  BY <1>0, <1>2, <1>3 DEF FundingRateAt
<1>5. AccruedAt(m) \in Int
  <2>1. (fundingRate[m] + FundingRateAt(m)) * Elapsed(m) \in Int  BY <1>0, <1>3, <1>4
  <2>2. TDiv((fundingRate[m] + FundingRateAt(m)) * Elapsed(m), 2) \in Int  BY <2>1, TDivInt
  <2> QED BY <1>0, <2>2 DEF AccruedAt
<1>6. AccumLongAt(m) \in Int /\ AccumShortAt(m) \in Int
  <2> DEFINE l == longSize[m]
             s == -shortSize[m]
             x == AccruedAt(m)
             y == fundingAccrued[m]
  <2>0. l \in Int /\ s \in Int /\ x \in Int /\ y \in Int  BY <1>0, <1>5
  <2> HIDE DEF l, s, x, y
  <2>1. FundingFee(l, x, y) \in Int  BY <2>0, FundingFeeInt
  <2>2. FundingFee(s, x, y) \in Int  BY <2>0, FundingFeeInt
  <2> QED BY <1>0, <2>1, <2>2 DEF AccumLongAt, AccumShortAt, l, s, x, y
<1> QED BY <1>0, <1>1, <1>4, <1>5, <1>6 DEF FundingTimeAt

LEMMA FeeFacts ==
    ASSUME TypeOK, PositionsOK, NEW id \in PositionIds, NEW tvl \in Nat
    PROVE  BorrowingFeeOf(id, tvl) \in Nat /\ FundingFeeOf(id) \in Int
<1> DEFINE c == ClassOf[id[2]]
<1>1. id[2] \in Markets /\ c \in AssetClasses  BY SetsAssumption DEF PositionIds
<1>2. reserve[id] \in Nat /\ entryRate[id] \in Nat /\ sumRate[c] \in Nat
  BY <1>1 DEF TypeOK
<1>3. entryRate[id] <= sumRate[c]  BY DEF PositionsOK
<1>4. BorrowRateAt(c, tvl) \in Nat /\ sumRate[c] <= BorrowRateAt(c, tvl)
  BY <1>1, BorrowRateFacts
<1>5. BorrowRateAt(c, tvl) - entryRate[id] \in Nat  BY <1>2, <1>3, <1>4
<1>6. BorrowingFeeOf(id, tvl) \in Nat
  <2>1. reserve[id] * (BorrowRateAt(c, tvl) - entryRate[id]) \in Nat  BY <1>2, <1>5, ProductNat
  <2> QED BY <2>1, NumbersAssumption, DivNat DEF BorrowingFeeOf
<1>7. FundingFeeOf(id) \in Int
  <2>1. size[id] \in Int /\ lastAccrued[id] \in Int /\ AccruedAt(id[2]) \in Int
    BY <1>1, FundingFacts DEF TypeOK
  <2> QED BY <2>1, FundingFeeInt DEF FundingFeeOf
<1> QED BY <1>6, <1>7

\* What UpdateRates leaves behind.
LEMMA RatesStep ==
    ASSUME TypeOK, NEW ms \in SUBSET Markets, NEW tvl \in Nat, UpdateRates(ms, tvl)
    PROVE  /\ sumRate' \in [AssetClasses -> Nat] /\ sumFee' \in [AssetClasses -> Nat]
           /\ lastBorrowTime' \in [AssetClasses -> Nat]
           /\ \A c \in AssetClasses : sumRate[c] <= sumRate'[c]
           /\ fundingRate' \in [Markets -> Int] /\ fundingAccrued' \in [Markets -> Int]
           /\ lastFundingTime' \in [Markets -> Nat]
<1>1. \A c \in AssetClasses :
        /\ sumRate'[c] \in Nat /\ sumRate[c] <= sumRate'[c]
        /\ sumFee'[c] \in Nat /\ lastBorrowTime'[c] \in Nat
  <2> TAKE c \in AssetClasses
  <2>1. BorrowRateAt(c, tvl) \in Nat /\ sumRate[c] <= BorrowRateAt(c, tvl)
        /\ BorrowFeeAt(c, tvl) \in Nat /\ BorrowTimeAt(c) \in Nat
    BY BorrowRateFacts
  <2>2. sumRate[c] \in Nat /\ sumFee[c] \in Nat /\ lastBorrowTime[c] \in Nat  BY DEF TypeOK
  <2> QED BY <2>1, <2>2 DEF UpdateRates
<1>2. \A m \in Markets :
        fundingRate'[m] \in Int /\ fundingAccrued'[m] \in Int /\ lastFundingTime'[m] \in Nat
  <2> TAKE m \in Markets
  <2>1. FundingRateAt(m) \in Int /\ AccruedAt(m) \in Int /\ FundingTimeAt(m) \in Nat
    BY FundingFacts
  <2>2. fundingRate[m] \in Int /\ fundingAccrued[m] \in Int /\ lastFundingTime[m] \in Nat
    BY DEF TypeOK
  <2> QED BY <2>1, <2>2 DEF UpdateRates
<1>3. /\ sumRate' = [c \in AssetClasses |-> sumRate'[c]]
      /\ sumFee' = [c \in AssetClasses |-> sumFee'[c]]
      /\ lastBorrowTime' = [c \in AssetClasses |-> lastBorrowTime'[c]]
      /\ fundingRate' = [m \in Markets |-> fundingRate'[m]]
      /\ fundingAccrued' = [m \in Markets |-> fundingAccrued'[m]]
      /\ lastFundingTime' = [m \in Markets |-> lastFundingTime'[m]]
  BY DEF UpdateRates
<1> QED BY <1>1, <1>2, <1>3

LEMMA SettleStep ==
    ASSUME TypeOK, PositionsOK, NEW id \in PositionIds, NEW tvl \in Nat, SettleFees(id, tvl)
    PROVE  /\ sumSettled' \in [AssetClasses -> Nat]
           /\ accumLong' \in [Markets -> Int] /\ accumShort' \in [Markets -> Int]
<1>1. id[2] \in Markets /\ ClassOf[id[2]] \in AssetClasses  BY SetsAssumption DEF PositionIds
<1>2. BorrowingFeeOf(id, tvl) \in Nat /\ FundingFeeOf(id) \in Int  BY FeeFacts
<1>3. AccumLongAt(id[2]) \in Int /\ AccumShortAt(id[2]) \in Int  BY <1>1, FundingFacts
<1> DEFINE c == ClassOf[id[2]]
           m == id[2]
           s == sumSettled[c] + BorrowingFeeOf(id, tvl)
           l == AccumLongAt(m) - IF size[id] > 0 THEN FundingFeeOf(id) ELSE 0
           h == AccumShortAt(m) - IF size[id] > 0 THEN 0 ELSE FundingFeeOf(id)
<1>4. /\ sumSettled' = [sumSettled EXCEPT ![c] = s]
      /\ accumLong' = [accumLong EXCEPT ![m] = l] /\ accumShort' = [accumShort EXCEPT ![m] = h]
  BY DEF SettleFees
<1>5. sumSettled[c] \in Nat  BY <1>1 DEF TypeOK
<1>6. s \in Nat  BY <1>2, <1>5
<1>7. l \in Int /\ h \in Int  BY <1>2, <1>3
<1>8. /\ sumSettled \in [AssetClasses -> Nat]
      /\ accumLong \in [Markets -> Int] /\ accumShort \in [Markets -> Int]
  BY DEF TypeOK
<1> HIDE DEF s, l, h
<1> QED BY <1>4, <1>6, <1>7, <1>8

-----------------------------------------------------------------------------
\* A trade: sizes, prices and the counters of the market's side.

LEMMA ViewTypes ==
    ASSUME TypeOK, PositionsOK
    PROVE  /\ Longs \in [PositionIds -> Nat] /\ Shorts \in [PositionIds -> Nat]
           /\ LongSEs \in [PositionIds -> Nat] /\ ShortSEs \in [PositionIds -> Nat]
           /\ LongS2Es \in [PositionIds -> Nat] /\ ShortS2Es \in [PositionIds -> Nat]
<1>1. \A id \in PositionIds :
        /\ Longs[id] \in Nat /\ (Longs[id] # 0 => avgPrice[id] # 0)
        /\ Shorts[id] \in Nat /\ (Shorts[id] # 0 => avgPrice[id] # 0)
  <2> TAKE id \in PositionIds
  <2>1. size[id] \in Int /\ (size[id] # 0 => avgPrice[id] # 0)  BY DEF TypeOK, PositionsOK
  <2>2. Longs[id] = LongPart(size[id]) /\ Shorts[id] = ShortPart(size[id])  BY DEF Longs, Shorts
  <2> QED BY <2>1, <2>2 DEF LongPart, ShortPart
<1>2. \A id \in PositionIds :
        /\ SE(Longs[id], avgPrice[id]) \in Nat /\ S2E(Longs[id], avgPrice[id]) \in Nat
        /\ SE(Shorts[id], avgPrice[id]) \in Nat /\ S2E(Shorts[id], avgPrice[id]) \in Nat
  <2> TAKE id \in PositionIds
  <2>1. avgPrice[id] \in Nat  BY DEF TypeOK
  <2> QED BY <1>1, <2>1, SENat
<1>3. Longs \in [PositionIds -> Nat] /\ Shorts \in [PositionIds -> Nat]
  BY <1>1 DEF Longs, Shorts
<1>4. LongSEs \in [PositionIds -> Nat] /\ ShortSEs \in [PositionIds -> Nat]
  BY <1>2 DEF LongSEs, ShortSEs
<1>5. LongS2Es \in [PositionIds -> Nat] /\ ShortS2Es \in [PositionIds -> Nat]
  BY <1>2 DEF LongS2Es, ShortS2Es
<1> QED BY <1>3, <1>4, <1>5

LEMMA CounterStep ==
    ASSUME NEW f \in [PositionIds -> Nat], NEW n \in [Markets -> Nat], CountsMarkets(n, f),
           NEW id \in PositionIds, NEW v \in Nat, NEW d, d = v - f[id],
           NEW g, g = [f EXCEPT ![id] = v], NEW k, k = [n EXCEPT ![id[2]] = @ + d]
    PROVE  CountsMarkets(k, g) /\ k \in [Markets -> Nat]
<1>1. f \in [PositionIds -> Int] /\ n \in [Markets -> Int] /\ v \in Int /\ f[id] \in Int
  OBVIOUS
<1>2. id[2] \in Markets  BY DEF PositionIds
<1>3. CountsMarkets(k, g)  BY <1>1, MarketCounterUpdate
<1>4. k \in [Markets -> Int]
  <2>1. n[id[2]] + d \in Int  BY <1>1, <1>2
  <2> QED BY <1>1, <2>1
<1>5. g \in [PositionIds -> Nat]  OBVIOUS
<1> QED BY <1>3, <1>4, <1>5, MarketCounterNat

\* The counters of one side follow the position (UpdateLong, UpdateShort).
LEMMA SizesStep ==
    ASSUME TypeOK, PositionsOK, MarketSizesMatch, AccumMatch,
           NEW id \in PositionIds, NEW s \in Int, NEW p \in Nat, s # 0 => p # 0,
           NEW isLong \in BOOLEAN,
           isLong => s >= 0 /\ size[id] >= 0,
           ~isLong => s <= 0 /\ size[id] <= 0,
           size' = [size EXCEPT ![id] = s], avgPrice' = [avgPrice EXCEPT ![id] = p],
           UpdateSide(id[2], isLong, Abs(s) - Abs(size[id]),
                      SE(Abs(s), p) - SE(Abs(size[id]), avgPrice[id]),
                      S2E(Abs(s), p) - S2E(Abs(size[id]), avgPrice[id]))
    PROVE  /\ MarketSizesMatch' /\ AccumMatch'
           /\ longSize' \in [Markets -> Nat] /\ shortSize' \in [Markets -> Nat]
           /\ longSE' \in [Markets -> Nat] /\ shortSE' \in [Markets -> Nat]
           /\ longS2E' \in [Markets -> Nat] /\ shortS2E' \in [Markets -> Nat]
<1>0. /\ size \in [PositionIds -> Int] /\ avgPrice \in [PositionIds -> Nat]
      /\ longSize \in [Markets -> Nat] /\ shortSize \in [Markets -> Nat]
      /\ longSE \in [Markets -> Nat] /\ shortSE \in [Markets -> Nat]
      /\ longS2E \in [Markets -> Nat] /\ shortS2E \in [Markets -> Nat]
  BY DEF TypeOK
<1> DEFINE q == avgPrice[id]
           old == Abs(size[id])
           new == Abs(s)
           m == id[2]
<1>1. /\ Longs' = [Longs EXCEPT ![id] = LongPart(s)]
      /\ Shorts' = [Shorts EXCEPT ![id] = ShortPart(s)]
  BY <1>0 DEF Longs, Shorts
<1>2. /\ Longs[id] = LongPart(size[id]) /\ Shorts[id] = ShortPart(size[id])
      /\ LongSEs[id] = SE(Longs[id], q) /\ ShortSEs[id] = SE(Shorts[id], q)
      /\ LongS2Es[id] = S2E(Longs[id], q) /\ ShortS2Es[id] = S2E(Shorts[id], q)
  BY DEF Longs, Shorts, LongSEs, ShortSEs, LongS2Es, ShortS2Es
<1>3. /\ LongSEs' = [LongSEs EXCEPT ![id] = SE(LongPart(s), p)]
      /\ ShortSEs' = [ShortSEs EXCEPT ![id] = SE(ShortPart(s), p)]
      /\ LongS2Es' = [LongS2Es EXCEPT ![id] = S2E(LongPart(s), p)]
      /\ ShortS2Es' = [ShortS2Es EXCEPT ![id] = S2E(ShortPart(s), p)]
  <2>1. \A z \in PositionIds :
          /\ Longs'[z] = IF z = id THEN LongPart(s) ELSE Longs[z]
          /\ Shorts'[z] = IF z = id THEN ShortPart(s) ELSE Shorts[z]
          /\ avgPrice'[z] = IF z = id THEN p ELSE avgPrice[z]
    BY <1>0, <1>1 DEF Longs, Shorts
  <2>2. /\ LongSEs' = [z \in PositionIds |-> SE(Longs'[z], avgPrice'[z])]
        /\ ShortSEs' = [z \in PositionIds |-> SE(Shorts'[z], avgPrice'[z])]
        /\ LongS2Es' = [z \in PositionIds |-> S2E(Longs'[z], avgPrice'[z])]
        /\ ShortS2Es' = [z \in PositionIds |-> S2E(Shorts'[z], avgPrice'[z])]
    BY DEF LongSEs, ShortSEs, LongS2Es, ShortS2Es, SE, S2E, PositionIds
  <2>3. /\ LongSEs = [z \in PositionIds |-> SE(Longs[z], avgPrice[z])]
        /\ ShortSEs = [z \in PositionIds |-> SE(Shorts[z], avgPrice[z])]
        /\ LongS2Es = [z \in PositionIds |-> S2E(Longs[z], avgPrice[z])]
        /\ ShortS2Es = [z \in PositionIds |-> S2E(Shorts[z], avgPrice[z])]
    BY DEF LongSEs, ShortSEs, LongS2Es, ShortS2Es
  <2>4. LongSEs' = [LongSEs EXCEPT ![id] = SE(LongPart(s), p)]  BY <2>1, <2>2, <2>3
  <2>5. ShortSEs' = [ShortSEs EXCEPT ![id] = SE(ShortPart(s), p)]  BY <2>1, <2>2, <2>3
  <2>6. LongS2Es' = [LongS2Es EXCEPT ![id] = S2E(LongPart(s), p)]  BY <2>1, <2>2, <2>3
  <2>7. ShortS2Es' = [ShortS2Es EXCEPT ![id] = S2E(ShortPart(s), p)]  BY <2>1, <2>2, <2>3
  <2> QED BY <2>4, <2>5, <2>6, <2>7
<1>4. /\ CountsMarkets(longSize, Longs) /\ CountsMarkets(shortSize, Shorts)
      /\ CountsMarkets(longSE, LongSEs) /\ CountsMarkets(shortSE, ShortSEs)
      /\ CountsMarkets(longS2E, LongS2Es) /\ CountsMarkets(shortS2E, ShortS2Es)
  BY DEF CountsMarkets, MarketSizesMatch, AccumMatch
<1>5. SE(0, p) = 0 /\ S2E(0, p) = 0 /\ SE(0, q) = 0 /\ S2E(0, q) = 0  BY DEF SE, S2E
<1>6. size[id] \in Int /\ new \in Nat /\ old \in Nat /\ (new # 0 => p # 0) /\ q \in Nat
  BY <1>0 DEF Abs
<1>7. SE(new, p) \in Nat /\ S2E(new, p) \in Nat  BY <1>6, SENat
<1>8. /\ Longs \in [PositionIds -> Nat] /\ Shorts \in [PositionIds -> Nat]
      /\ LongSEs \in [PositionIds -> Nat] /\ ShortSEs \in [PositionIds -> Nat]
      /\ LongS2Es \in [PositionIds -> Nat] /\ ShortS2Es \in [PositionIds -> Nat]
  BY ViewTypes
<1> SUFFICES /\ CountsMarkets(longSize', Longs') /\ longSize' \in [Markets -> Nat]
             /\ CountsMarkets(shortSize', Shorts') /\ shortSize' \in [Markets -> Nat]
             /\ CountsMarkets(longSE', LongSEs') /\ longSE' \in [Markets -> Nat]
             /\ CountsMarkets(shortSE', ShortSEs') /\ shortSE' \in [Markets -> Nat]
             /\ CountsMarkets(longS2E', LongS2Es') /\ longS2E' \in [Markets -> Nat]
             /\ CountsMarkets(shortS2E', ShortS2Es') /\ shortS2E' \in [Markets -> Nat]
  BY DEF CountsMarkets, MarketSizesMatch, AccumMatch
<1>9. CASE isLong
  <2>1. LongPart(s) = new /\ Longs[id] = old /\ ShortPart(s) = 0 /\ Shorts[id] = 0
    BY <1>2, <1>6, <1>9 DEF LongPart, ShortPart, Abs
  <2>2. /\ longSize' = [longSize EXCEPT ![m] = @ + (new - old)]
        /\ longSE' = [longSE EXCEPT ![m] = @ + (SE(new, p) - SE(old, q))]
        /\ longS2E' = [longS2E EXCEPT ![m] = @ + (S2E(new, p) - S2E(old, q))]
        /\ shortSize' = shortSize /\ shortSE' = shortSE /\ shortS2E' = shortS2E
    BY <1>9 DEF UpdateSide, UpdateLong
  <2> HIDE DEF q, old, new, m
  <2>3. Shorts' = Shorts /\ ShortSEs' = ShortSEs /\ ShortS2Es' = ShortS2Es
    BY <1>1, <1>2, <1>3, <1>5, <1>8, <2>1
  <2>4. CountsMarkets(longSize', Longs') /\ longSize' \in [Markets -> Nat]
    BY <1>0, <1>1, <1>4, <1>6, <1>8, <2>1, <2>2, CounterStep DEF m
  <2>5. CountsMarkets(longSE', LongSEs') /\ longSE' \in [Markets -> Nat]
    BY <1>0, <1>2, <1>3, <1>4, <1>7, <1>8, <2>1, <2>2, CounterStep DEF m
  <2>6. CountsMarkets(longS2E', LongS2Es') /\ longS2E' \in [Markets -> Nat]
    BY <1>0, <1>2, <1>3, <1>4, <1>7, <1>8, <2>1, <2>2, CounterStep DEF m
  <2> QED BY <1>0, <1>4, <2>2, <2>3, <2>4, <2>5, <2>6
<1>10. CASE ~isLong
  <2>1. ShortPart(s) = new /\ Shorts[id] = old /\ LongPart(s) = 0 /\ Longs[id] = 0
    BY <1>2, <1>6, <1>10 DEF LongPart, ShortPart, Abs
  <2>2. /\ shortSize' = [shortSize EXCEPT ![m] = @ + (new - old)]
        /\ shortSE' = [shortSE EXCEPT ![m] = @ + (SE(new, p) - SE(old, q))]
        /\ shortS2E' = [shortS2E EXCEPT ![m] = @ + (S2E(new, p) - S2E(old, q))]
        /\ longSize' = longSize /\ longSE' = longSE /\ longS2E' = longS2E
    BY <1>10 DEF UpdateSide, UpdateShort
  <2> HIDE DEF q, old, new, m
  <2>3. Longs' = Longs /\ LongSEs' = LongSEs /\ LongS2Es' = LongS2Es
    BY <1>1, <1>2, <1>3, <1>5, <1>8, <2>1
  <2>4. CountsMarkets(shortSize', Shorts') /\ shortSize' \in [Markets -> Nat]
    BY <1>0, <1>1, <1>4, <1>6, <1>8, <2>1, <2>2, CounterStep DEF m
  <2>5. CountsMarkets(shortSE', ShortSEs') /\ shortSE' \in [Markets -> Nat]
    BY <1>0, <1>2, <1>3, <1>4, <1>7, <1>8, <2>1, <2>2, CounterStep DEF m
  <2>6. CountsMarkets(shortS2E', ShortS2Es') /\ shortS2E' \in [Markets -> Nat]
    BY <1>0, <1>2, <1>3, <1>4, <1>7, <1>8, <2>1, <2>2, CounterStep DEF m
  <2> QED BY <1>0, <1>4, <2>2, <2>3, <2>4, <2>5, <2>6
<1> QED BY <1>9, <1>10

\* A trade: the reserve of the position, of its class and of the exchange.
LEMMA ReserveStep ==
    ASSUME TypeOK, ReserveMatch, NEW id \in PositionIds, NEW v \in Nat,
           reserve' = [reserve EXCEPT ![id] = v],
           AddReserve(ClassOf[id[2]], v - reserve[id])
    PROVE  /\ ReserveMatch' /\ reserve' \in [PositionIds -> Nat]
           /\ classReserve' \in [AssetClasses -> Nat] /\ globalReserve' \in Nat
<1> DEFINE c == ClassOf[id[2]]
<1>1. /\ reserve \in [PositionIds -> Nat] /\ classReserve \in [AssetClasses -> Nat]
      /\ globalReserve \in Nat
  BY DEF TypeOK
<1>2. c \in AssetClasses  BY SetsAssumption DEF PositionIds
<1>3. /\ classReserve' = [classReserve EXCEPT ![c] = @ + (v - reserve[id])]
      /\ globalReserve' = globalReserve + (v - reserve[id])
  BY DEF AddReserve
<1>4. reserve' \in [PositionIds -> Nat]  BY <1>1
<1>5. reserve \in [PositionIds -> Int] /\ classReserve \in [AssetClasses -> Int]
      /\ v \in Int /\ reserve[id] \in Int
  BY <1>1
<1>6. CountsClasses(classReserve', reserve')
  <2>1. CountsClasses(classReserve, reserve)  BY DEF CountsClasses, ReserveMatch
  <2> QED BY <1>3, <1>5, <2>1, ClassCounterUpdate
<1>7. classReserve' \in [AssetClasses -> Nat]
  <2>1. classReserve[c] + (v - reserve[id]) \in Int  BY <1>1, <1>2, <1>5
  <2>2. classReserve' \in [AssetClasses -> Int]  BY <1>3, <1>5, <2>1
  <2> QED BY <1>4, <1>6, <2>2, ClassCounterNat
<1>8. globalReserve' = SumFunction(reserve')
  <2>1. SumFunction([reserve EXCEPT ![id] = v]) = SumFunction(reserve) + v - reserve[id]
    BY <1>5, PositionIdsFinite, SumFunctionUpdate
  <2> QED BY <1>1, <1>3, <1>5, <2>1 DEF ReserveMatch
<1>9. globalReserve' \in Nat  BY <1>4, <1>8, PositionIdsFinite, SumFunctionNat
<1> QED BY <1>4, <1>6, <1>7, <1>8, <1>9 DEF CountsClasses, ReserveMatch

\* A trade: the volumes move with the open interest, an increase of a long
\* and a decrease of a short being buys.
LEMMA VolumeStep ==
    ASSUME TypeOK, NetVolume, NEW m \in Markets, NEW amount \in Nat, NEW d, NEW x, NEW y,
           \/ UpdateLong(m, d, x, y) /\ d = amount /\ AddVolume(m, TRUE, amount)
           \/ UpdateLong(m, d, x, y) /\ d = -amount /\ AddVolume(m, FALSE, amount)
           \/ UpdateShort(m, d, x, y) /\ d = amount /\ AddVolume(m, FALSE, amount)
           \/ UpdateShort(m, d, x, y) /\ d = -amount /\ AddVolume(m, TRUE, amount)
    PROVE  /\ NetVolume'
           /\ buyVolume' \in [Markets -> Nat] /\ sellVolume' \in [Markets -> Nat]
<1>1. /\ longSize \in [Markets -> Nat] /\ shortSize \in [Markets -> Nat]
      /\ buyVolume \in [Markets -> Nat] /\ sellVolume \in [Markets -> Nat]
  BY DEF TypeOK
<1>2. \A k \in Markets : buyVolume[k] - sellVolume[k] = longSize[k] - shortSize[k]
  BY DEF NetVolume
<1>3. buyVolume' \in [Markets -> Nat] /\ sellVolume' \in [Markets -> Nat]
  BY <1>1 DEF AddVolume
<1>4. ASSUME NEW k \in Markets
      PROVE  buyVolume'[k] - sellVolume'[k] = longSize'[k] - shortSize'[k]
  <2>1. /\ buyVolume[k] \in Int /\ sellVolume[k] \in Int /\ longSize[k] \in Int
        /\ shortSize[k] \in Int /\ amount \in Int
    BY <1>1
  <2>2. CASE k # m  BY <1>1, <1>2, <2>1, <2>2 DEF AddVolume, UpdateLong, UpdateShort
  <2>3. CASE k = m
    <3>1. CASE UpdateLong(m, d, x, y) /\ d = amount /\ AddVolume(m, TRUE, amount)
      BY <1>1, <1>2, <2>1, <2>3, <3>1 DEF AddVolume, UpdateLong
    <3>2. CASE UpdateLong(m, d, x, y) /\ d = -amount /\ AddVolume(m, FALSE, amount)
      BY <1>1, <1>2, <2>1, <2>3, <3>2 DEF AddVolume, UpdateLong
    <3>3. CASE UpdateShort(m, d, x, y) /\ d = amount /\ AddVolume(m, FALSE, amount)
      BY <1>1, <1>2, <2>1, <2>3, <3>3 DEF AddVolume, UpdateShort
    <3>4. CASE UpdateShort(m, d, x, y) /\ d = -amount /\ AddVolume(m, TRUE, amount)
      BY <1>1, <1>2, <2>1, <2>3, <3>4 DEF AddVolume, UpdateShort
    <3> QED BY <3>1, <3>2, <3>3, <3>4
  <2> QED BY <2>2, <2>3
<1> QED BY <1>3, <1>4 DEF NetVolume

-----------------------------------------------------------------------------
\* The fields of a position and the indexes.

LEMMA StoreStep ==
    ASSUME TypeOK, NEW id \in PositionIds, NEW s \in Int, NEW p \in Nat, NEW r \in Nat,
           NEW rate \in Nat, NEW accrued \in Int,
           StorePosition(id, s, p, r, rate, accrued)
    PROVE  /\ size' \in [PositionIds -> Int] /\ avgPrice' \in [PositionIds -> Nat]
           /\ reserve' \in [PositionIds -> Nat] /\ entryRate' \in [PositionIds -> Nat]
           /\ lastAccrued' \in [PositionIds -> Int]
BY DEF TypeOK, StorePosition

IndexTypes ==
    /\ positionIds \in [Accounts -> Seq(Markets)]
    /\ activePositionIds \subseteq PositionIds /\ activeSubAccounts \subseteq Accounts

LEMMA RegisterStep ==
    ASSUME IndexTypes, NEW id \in PositionIds, Register(id)
    PROVE  IndexTypes'
<1>1. id[1] \in Accounts /\ id[2] \in Markets  BY DEF PositionIds
<1>2. Append(positionIds[id[1]], id[2]) \in Seq(Markets) /\ positionIds[id[1]] \in Seq(Markets)
  BY <1>1 DEF IndexTypes
<1> QED BY <1>1, <1>2 DEF IndexTypes, Register, PositionIds

LEMMA SwapAndPopType ==
    ASSUME NEW list \in Seq(Markets), NEW m
    PROVE  SwapAndPop(list, m) \in Seq(Markets)
<1> DEFINE n == Len(list)
           k == IF n = 0 THEN 0 ELSE n - 1
           i == CHOOSE j \in 1..n : list[j] = m
           f == [j \in 1..(n - 1) |-> IF j = i THEN list[n] ELSE list[j]]
<1>1. n \in Nat /\ k \in Nat /\ 1..(n - 1) = 1..k  OBVIOUS
<1>2. \A j \in 1..k : f[j] \in Markets
  <2> TAKE j \in 1..k
  <2>1. j \in 1..n /\ n \in 1..n  BY <1>1
  <2>2. list[j] \in Markets /\ list[n] \in Markets  BY <2>1
  <2> HIDE DEF i, n, k
  <2> QED BY <1>1, <2>2
<1>3. f = [j \in 1..k |-> f[j]]
  <2> HIDE DEF i, n, k
  <2> QED BY <1>1
<1>4. f \in Seq(Markets)
  <2> HIDE DEF f, k
  <2> QED BY <1>1, <1>2, <1>3
<1> QED BY <1>4 DEF SwapAndPop

LEMMA RemoveStep ==
    ASSUME IndexTypes, NEW id \in PositionIds, RemovePosition(id)
    PROVE  IndexTypes'
<1>1. id[1] \in Accounts  BY DEF PositionIds
<1>2. positionIds[id[1]] \in Seq(Markets)  BY <1>1 DEF IndexTypes
<1>3. SwapAndPop(positionIds[id[1]], id[2]) \in Seq(Markets)  BY <1>2, SwapAndPopType
<1> QED BY <1>1, <1>3 DEF IndexTypes, RemovePosition, PositionIds

-----------------------------------------------------------------------------
(***************************************************************************)
(* The steps. A trade, whichever way it goes, leaves position id with size *)
(* s, average price p, reserve r and entry rate rate; the counters move by *)
(* the differences.                                                        *)
(***************************************************************************)
LEMMA PositionsStep ==
    ASSUME TypeOK, PositionsOK, NEW id \in PositionIds, NEW s \in Int, NEW p \in Nat,
           s # 0 => p # 0, NEW r, NEW rate \in Nat, NEW accrued, NEW tvl \in Nat,
           UpdateRates({id[2]}, tvl), rate <= BorrowRateAt(ClassOf[id[2]], tvl),
           StorePosition(id, s, p, r, rate, accrued)
    PROVE  PositionsOK'
<1> DEFINE c == ClassOf[id[2]]
<1>1. id[2] \in Markets /\ c \in AssetClasses  BY SetsAssumption DEF PositionIds
<1>2. sumRate'[c] = BorrowRateAt(c, tvl)
  <2>1. c \in {ClassOf[m] : m \in {id[2]}}  OBVIOUS
  <2> QED BY <1>1, <2>1 DEF UpdateRates
<1>3. \A k \in AssetClasses : sumRate[k] <= sumRate'[k]  BY <1>1, RatesStep
<1>4. sumRate' \in [AssetClasses -> Nat]  BY <1>1, RatesStep
<1>5. ASSUME NEW z \in PositionIds
      PROVE  /\ size'[z] # 0 => avgPrice'[z] # 0
             /\ entryRate'[z] <= sumRate'[ClassOf[z[2]]]
  <2>1. z[2] \in Markets /\ ClassOf[z[2]] \in AssetClasses  BY SetsAssumption DEF PositionIds
  <2>2. /\ size' = [size EXCEPT ![id] = s] /\ avgPrice' = [avgPrice EXCEPT ![id] = p]
        /\ entryRate' = [entryRate EXCEPT ![id] = rate]
    BY DEF StorePosition
  <2>3. /\ size \in [PositionIds -> Int] /\ avgPrice \in [PositionIds -> Nat]
        /\ entryRate \in [PositionIds -> Nat] /\ sumRate \in [AssetClasses -> Nat]
    BY DEF TypeOK
  <2>4. CASE z = id  BY <1>2, <2>2, <2>3, <2>4
  <2>5. CASE z # id
    <3>1. size'[z] = size[z] /\ avgPrice'[z] = avgPrice[z] /\ entryRate'[z] = entryRate[z]
      BY <2>2, <2>3, <2>5
    <3>2. (size[z] # 0 => avgPrice[z] # 0) /\ entryRate[z] <= sumRate[ClassOf[z[2]]]
      BY DEF PositionsOK
    <3>3. /\ sumRate[ClassOf[z[2]]] <= sumRate'[ClassOf[z[2]]]
          /\ sumRate[ClassOf[z[2]]] \in Nat /\ sumRate'[ClassOf[z[2]]] \in Nat
          /\ entryRate[z] \in Nat
      BY <1>3, <1>4, <2>1, <2>3
    <3> QED BY <3>1, <3>2, <3>3
  <2> QED BY <2>4, <2>5
<1> QED BY <1>5 DEF PositionsOK

LEMMA TradeStep ==
    ASSUME IndInv, NEW id \in PositionIds, NEW s \in Int, NEW p \in Nat, s # 0 => p # 0,
           NEW r \in Nat, NEW rate \in Nat, NEW accrued \in Int, NEW tvl \in Nat,
           NEW isLong \in BOOLEAN, NEW amount \in Nat, NEW isBuy \in BOOLEAN,
           isLong => s >= 0 /\ size[id] >= 0,
           ~isLong => s <= 0 /\ size[id] <= 0,
           Abs(s) - Abs(size[id]) = IF isBuy = isLong THEN amount ELSE -amount,
           rate <= BorrowRateAt(ClassOf[id[2]], tvl),
           UpdateRates({id[2]}, tvl), SettleFees(id, tvl),
           AddReserve(ClassOf[id[2]], r - reserve[id]),
           UpdateSide(id[2], isLong, Abs(s) - Abs(size[id]),
                      SE(Abs(s), p) - SE(Abs(size[id]), avgPrice[id]),
                      S2E(Abs(s), p) - S2E(Abs(size[id]), avgPrice[id])),
           AddVolume(id[2], isBuy, amount),
           StorePosition(id, s, p, r, rate, accrued),
           IndexTypes', now' = now
    PROVE  IndInv'
<1>1. TypeOK /\ PositionsOK /\ MarketSizesMatch /\ AccumMatch /\ ReserveMatch /\ NetVolume
  BY DEF IndInv
<1>2. id[2] \in Markets  BY DEF PositionIds
<1>3. /\ size' = [size EXCEPT ![id] = s] /\ avgPrice' = [avgPrice EXCEPT ![id] = p]
      /\ reserve' = [reserve EXCEPT ![id] = r]
  BY DEF StorePosition
<1>4. /\ sumRate' \in [AssetClasses -> Nat] /\ sumFee' \in [AssetClasses -> Nat]
      /\ lastBorrowTime' \in [AssetClasses -> Nat]
      /\ fundingRate' \in [Markets -> Int] /\ fundingAccrued' \in [Markets -> Int]
      /\ lastFundingTime' \in [Markets -> Nat]
  BY <1>1, <1>2, RatesStep
<1>5. /\ sumSettled' \in [AssetClasses -> Nat]
      /\ accumLong' \in [Markets -> Int] /\ accumShort' \in [Markets -> Int]
  BY <1>1, SettleStep
<1>6. /\ MarketSizesMatch' /\ AccumMatch'
      /\ longSize' \in [Markets -> Nat] /\ shortSize' \in [Markets -> Nat]
      /\ longSE' \in [Markets -> Nat] /\ shortSE' \in [Markets -> Nat]
      /\ longS2E' \in [Markets -> Nat] /\ shortS2E' \in [Markets -> Nat]
  BY <1>1, <1>3, SizesStep
<1>7. /\ ReserveMatch' /\ classReserve' \in [AssetClasses -> Nat] /\ globalReserve' \in Nat
  BY <1>1, <1>3, ReserveStep
<1>8. NetVolume' /\ buyVolume' \in [Markets -> Nat] /\ sellVolume' \in [Markets -> Nat]
  <2> DEFINE d == Abs(s) - Abs(size[id])
             x == SE(Abs(s), p) - SE(Abs(size[id]), avgPrice[id])
             y == S2E(Abs(s), p) - S2E(Abs(size[id]), avgPrice[id])
  <2>1. IF isLong THEN UpdateLong(id[2], d, x, y) ELSE UpdateShort(id[2], d, x, y)
    BY DEF UpdateSide
  <2>2. d = IF isBuy = isLong THEN amount ELSE -amount  OBVIOUS
  <2> HIDE DEF d, x, y
  <2>3. \/ UpdateLong(id[2], d, x, y) /\ d = amount /\ AddVolume(id[2], TRUE, amount)
        \/ UpdateLong(id[2], d, x, y) /\ d = -amount /\ AddVolume(id[2], FALSE, amount)
        \/ UpdateShort(id[2], d, x, y) /\ d = amount /\ AddVolume(id[2], FALSE, amount)
        \/ UpdateShort(id[2], d, x, y) /\ d = -amount /\ AddVolume(id[2], TRUE, amount)
    <3>1. CASE isLong /\ isBuy  BY <2>1, <2>2, <3>1
    <3>2. CASE isLong /\ ~isBuy  BY <2>1, <2>2, <3>2
    <3>3. CASE ~isLong /\ ~isBuy  BY <2>1, <2>2, <3>3
    <3>4. CASE ~isLong /\ isBuy  BY <2>1, <2>2, <3>4
    <3> QED BY <3>1, <3>2, <3>3, <3>4
  <2> QED BY <1>1, <1>2, <2>3, VolumeStep
<1>9. /\ size' \in [PositionIds -> Int] /\ avgPrice' \in [PositionIds -> Nat]
      /\ reserve' \in [PositionIds -> Nat] /\ entryRate' \in [PositionIds -> Nat]
      /\ lastAccrued' \in [PositionIds -> Int]
  BY <1>1, StoreStep
<1>10. PositionsOK'  BY <1>1, PositionsStep
<1>11. now' \in Nat  BY <1>1 DEF TypeOK
<1>12. TypeOK'
  BY <1>4, <1>5, <1>6, <1>7, <1>8, <1>9, <1>11 DEF TypeOK, IndexTypes
<1> QED BY <1>6, <1>7, <1>8, <1>10, <1>12 DEF IndInv

LEMMA IncreaseStep ==
    ASSUME IndInv, NEW a \in Accounts, NEW m \in Markets, NEW d \in Int, d # 0,
           NEW p \in Prices, NEW tvl \in PoolValues, NEW tvlMax,
           IncreasePosition(a, m, d, p, tvl, tvlMax)
    PROVE  IndInv'
<1> DEFINE id == <<a, m>>
           c == ClassOf[m]
           s == size[id] + d
           q == ReserveOf(Abs(d))
           r == reserve[id] + q
           rate == BorrowRateAt(c, tvl)
           accrued == AccruedAt(m)
<1>1. TypeOK /\ PositionsOK  BY DEF IndInv
<1>2. id \in PositionIds /\ id[1] = a /\ id[2] = m  BY DEF PositionIds
<1>3. size[id] \in Int /\ reserve[id] \in Nat  BY <1>1, <1>2 DEF TypeOK
<1>4. s \in Int /\ p \in Nat /\ p # 0 /\ tvl \in Nat  BY <1>3, SetsAssumption
<1>5. Abs(d) \in Nat  BY DEF Abs
<1>6. q \in Nat /\ r \in Nat /\ r - reserve[id] = q  BY <1>3, <1>5, ReserveNat
<1>7. c \in AssetClasses  BY SetsAssumption
<1>8. rate \in Nat  BY <1>1, <1>4, <1>7, BorrowRateFacts
<1>9. accrued \in Int  BY <1>1, FundingFacts
<1>10. size[id] # 0 => (size[id] > 0 <=> d > 0)  BY DEF IncreasePosition
<1>11. Abs(s) - Abs(size[id]) = Abs(d)  BY <1>3, <1>10 DEF Abs
<1>12. (d > 0) \in BOOLEAN  OBVIOUS
<1>13. /\ d > 0 => s >= 0 /\ size[id] >= 0
       /\ ~(d > 0) => s <= 0 /\ size[id] <= 0
  BY <1>3, <1>10
<1>14. /\ UpdateRates({id[2]}, tvl) /\ SettleFees(id, tvl) /\ now' = now
       /\ AddReserve(ClassOf[id[2]], r - reserve[id])
       /\ AddVolume(id[2], d > 0, Abs(d))
  BY <1>6 DEF IncreasePosition
<1>15. UpdateSide(id[2], d > 0, Abs(s) - Abs(size[id]),
                  SE(Abs(s), p) - SE(Abs(size[id]), avgPrice[id]),
                  S2E(Abs(s), p) - S2E(Abs(size[id]), avgPrice[id]))
  BY <1>11 DEF IncreasePosition
<1>16. Register(id) /\ StorePosition(id, s, p, r, rate, accrued)
  BY DEF IncreasePosition, SavePosition
<1>17. IndexTypes'
  <2>1. IndexTypes  BY <1>1 DEF TypeOK, IndexTypes
  <2> QED BY <1>2, <1>16, <2>1, RegisterStep
<1>18. rate <= BorrowRateAt(ClassOf[id[2]], tvl)  BY <1>8
<1> DEFINE up == d > 0
           amount == Abs(d)
<1>19. /\ up \in BOOLEAN /\ amount \in Nat
       /\ up => s >= 0 /\ size[id] >= 0
       /\ ~up => s <= 0 /\ size[id] <= 0
       /\ Abs(s) - Abs(size[id]) = IF up = up THEN amount ELSE -amount
       /\ s # 0 => p # 0
  BY <1>4, <1>5, <1>11, <1>12, <1>13
<1>20. /\ AddVolume(id[2], up, amount)
       /\ UpdateSide(id[2], up, Abs(s) - Abs(size[id]),
                     SE(Abs(s), p) - SE(Abs(size[id]), avgPrice[id]),
                     S2E(Abs(s), p) - S2E(Abs(size[id]), avgPrice[id]))
  BY <1>14, <1>15
<1> HIDE DEF id, s, q, r, rate, accrued, up, amount
<1> QED BY <1>2, <1>4, <1>6, <1>8, <1>9, <1>14, <1>16, <1>17, <1>18, <1>19, <1>20, TradeStep, SMTT(60)

LEMMA DecreaseStep ==
    ASSUME IndInv, NEW a \in Accounts, NEW m \in Markets, NEW q \in Nat,
           NEW p \in Prices, NEW tvl \in PoolValues,
           DecreasePosition(a, m, q, p, tvl)
    PROVE  IndInv'
<1> DEFINE id == <<a, m>>
           c == ClassOf[m]
           isLong == size[id] > 0
           new == Abs(size[id]) - q
<1>1. TypeOK /\ PositionsOK  BY DEF IndInv
<1>2. id \in PositionIds /\ id[1] = a /\ id[2] = m  BY DEF PositionIds
<1>3. size[id] \in Int /\ reserve[id] \in Nat /\ size[id] # 0 /\ q <= Abs(size[id])
  BY <1>1, <1>2 DEF TypeOK, DecreasePosition
<1>4. new \in Nat /\ p \in Nat /\ p # 0 /\ tvl \in Nat  BY <1>3, SetsAssumption DEF Abs
<1>5. c \in AssetClasses  BY SetsAssumption
<1>6. BorrowRateAt(c, tvl) \in Nat  BY <1>1, <1>4, <1>5, BorrowRateFacts
<1>7. /\ UpdateRates({id[2]}, tvl) /\ SettleFees(id, tvl) /\ now' = now
      /\ AddReserve(ClassOf[id[2]], ReserveOf(new) - reserve[id])
      /\ AddVolume(id[2], ~isLong, q)
      /\ UpdateSide(id[2], isLong, -q,
                    SE(new, p) - SE(Abs(size[id]), avgPrice[id]),
                    S2E(new, p) - S2E(Abs(size[id]), avgPrice[id]))
  BY DEF DecreasePosition
<1>8. IndexTypes  BY <1>1 DEF TypeOK, IndexTypes
<1>9. isLong \in BOOLEAN /\ (~isLong) \in BOOLEAN /\ q \in Nat  OBVIOUS
<1>10. CASE new # 0
  <2> DEFINE s == IF isLong THEN new ELSE -new
             r == ReserveOf(new)
             rate == BorrowRateAt(c, tvl)
             accrued == AccruedAt(m)
  <2>1. Register(id) /\ StorePosition(id, s, p, r, rate, accrued)
    BY <1>10 DEF DecreasePosition, SavePosition
  <2>2. IndexTypes'  BY <1>2, <1>8, <2>1, RegisterStep
  <2>3. s \in Int /\ Abs(s) = new  BY <1>4 DEF Abs
  <2>4. r \in Nat /\ rate \in Nat /\ accrued \in Int
    BY <1>1, <1>4, <1>6, ReserveNat, FundingFacts
  <2>5. /\ isLong => s >= 0 /\ size[id] >= 0
        /\ ~isLong => s <= 0 /\ size[id] <= 0
    BY <1>3, <1>4
  <2>6. Abs(s) - Abs(size[id]) = -q  BY <1>3, <2>3 DEF Abs
  <2>7. UpdateSide(id[2], isLong, Abs(s) - Abs(size[id]),
                   SE(Abs(s), p) - SE(Abs(size[id]), avgPrice[id]),
                   S2E(Abs(s), p) - S2E(Abs(size[id]), avgPrice[id]))
    BY <1>7, <2>3, <2>6
  <2>8. rate <= BorrowRateAt(ClassOf[id[2]], tvl)  BY <1>6
  <2>9. AddReserve(ClassOf[id[2]], r - reserve[id])  BY <1>7
  <2>10. Abs(s) - Abs(size[id]) = IF (~isLong) = isLong THEN q ELSE -q  BY <2>6
  <2> HIDE DEF id, isLong, s, r, rate, accrued, new
  <2> QED BY <1>2, <1>4, <1>7, <1>9, <2>1, <2>2, <2>3, <2>4, <2>5, <2>7, <2>8, <2>9, <2>10,
             TradeStep
<1>11. CASE new = 0
  <2> DEFINE z == 0
  <2>1. RemovePosition(id)  BY <1>11 DEF DecreasePosition
  <2>2. IndexTypes'  BY <1>2, <1>8, <2>1, RemoveStep
  <2>3. StorePosition(id, z, z, z, z, z)  BY <2>1 DEF RemovePosition
  <2>4. Abs(z) = 0 /\ Abs(z) - Abs(size[id]) = -q  BY <1>3, <1>11 DEF Abs
  <2>5. ReserveOf(0) = 0  BY NumbersAssumption DEF ReserveOf
  <2>6. AddReserve(ClassOf[id[2]], z - reserve[id])  BY <1>7, <1>11, <2>5
  <2>7. SE(0, p) = SE(Abs(z), z) /\ S2E(0, p) = S2E(Abs(z), z)  BY <2>4 DEF SE, S2E
  <2>8. UpdateSide(id[2], isLong, Abs(z) - Abs(size[id]),
                   SE(Abs(z), z) - SE(Abs(size[id]), avgPrice[id]),
                   S2E(Abs(z), z) - S2E(Abs(size[id]), avgPrice[id]))
    BY <1>7, <1>11, <2>4, <2>7
  <2>9. /\ isLong => z >= 0 /\ size[id] >= 0
        /\ ~isLong => z <= 0 /\ size[id] <= 0
    BY <1>3
  <2>10. z <= BorrowRateAt(ClassOf[id[2]], tvl)  BY <1>6
  <2>11. Abs(z) - Abs(size[id]) = IF (~isLong) = isLong THEN q ELSE -q  BY <2>4
  <2>12. z \in Int /\ z \in Nat /\ (z # 0 => z # 0)  OBVIOUS
  <2> HIDE DEF id, isLong, new, z
  <2> QED BY <1>2, <1>4, <1>7, <1>9, <2>2, <2>3, <2>6, <2>8, <2>9, <2>10, <2>11, <2>12, TradeStep
<1> QED BY <1>10, <1>11

LEMMA LiquidatedMarkets ==
    ASSUME TypeOK, NEW a \in Accounts
    PROVE  {positionIds[a][i] : i \in 1..Len(positionIds[a])} \in SUBSET Markets
<1>1. positionIds[a] \in Seq(Markets)  BY DEF TypeOK
<1> QED BY <1>1

LEMMA RowSumNat ==
    ASSUME NEW f \in [PositionIds -> Nat], NEW a \in Accounts, NEW ms \in SUBSET Markets,
           NEW c \in AssetClasses
    PROVE  SumInClass(f, a, ms, c) \in Nat
<1> DEFINE r == [m \in Markets |-> IF m \in ms /\ ClassOf[m] = c THEN f[<<a, m>>] ELSE 0]
<1>1. r \in [Markets -> Nat]  BY DEF PositionIds
<1> HIDE DEF r
<1>2. SumFunction(r) \in Nat  BY <1>1, SetsAssumption, SumFunctionNat
<1> QED BY <1>2 DEF SumInClass, r

\* A counter of naturals whose row is cleared.
LEMMA ClearStep ==
    ASSUME NEW f \in [PositionIds -> Nat], NEW n \in [Markets -> Nat], CountsMarkets(n, f),
           NEW a \in Accounts, NEW ms \in SUBSET Markets,
           NEW k, k = Less(n, f, a, ms), NEW g, g = Cleared(f, a, ms)
    PROVE  CountsMarkets(k, g) /\ k \in [Markets -> Nat]
<1>1. f \in [PositionIds -> Int] /\ n \in [Markets -> Int]  OBVIOUS
<1>2. CountsMarkets(k, g)  BY <1>1, MarketCounterClear
<1>3. \A m \in Markets : f[<<a, m>>] \in Nat  BY DEF PositionIds
<1>4. k \in [Markets -> Int]  BY <1>1, <1>3 DEF Less
<1>5. g \in [PositionIds -> Nat]  BY DEF Cleared
<1> QED BY <1>2, <1>4, <1>5, MarketCounterNat

LEMMA LiquidateStep ==
    ASSUME IndInv, NEW a \in Accounts, NEW tvl \in PoolValues, Liquidate(a, tvl)
    PROVE  IndInv'
<1> DEFINE ms == {positionIds[a][i] : i \in 1..Len(positionIds[a])}
           fee == [id \in PositionIds |-> BorrowingFeeOf(id, tvl)]
<1>1. TypeOK /\ PositionsOK /\ MarketSizesMatch /\ AccumMatch /\ ReserveMatch /\ NetVolume
  BY DEF IndInv
<1>2. ms \in SUBSET Markets /\ tvl \in Nat  BY <1>1, LiquidatedMarkets, SetsAssumption
<1>3. /\ UpdateRates(ms, tvl) /\ now' = now
      /\ sumSettled' = [c \in AssetClasses |-> sumSettled[c] + SumInClass(fee, a, ms, c)]
      /\ accumLong' = [m \in Markets |-> IF m \notin ms THEN accumLong[m]
            ELSE AccumLongAt(m) - IF size[<<a, m>>] > 0 THEN FundingFeeOf(<<a, m>>) ELSE 0]
      /\ accumShort' = [m \in Markets |-> IF m \notin ms THEN accumShort[m]
            ELSE AccumShortAt(m) - IF size[<<a, m>>] > 0 THEN 0 ELSE FundingFeeOf(<<a, m>>)]
  BY DEF Liquidate
<1>4. /\ classReserve' = [c \in AssetClasses |-> classReserve[c] - SumInClass(reserve, a, ms, c)]
      /\ globalReserve' = globalReserve
            - SumFunction([m \in Markets |-> IF m \in ms THEN reserve[<<a, m>>] ELSE 0])
  BY DEF Liquidate
<1>5. /\ longSize' = Less(longSize, Longs, a, ms) /\ shortSize' = Less(shortSize, Shorts, a, ms)
      /\ longSE' = Less(longSE, LongSEs, a, ms) /\ shortSE' = Less(shortSE, ShortSEs, a, ms)
      /\ longS2E' = Less(longS2E, LongS2Es, a, ms) /\ shortS2E' = Less(shortS2E, ShortS2Es, a, ms)
  BY DEF Liquidate
<1>6. /\ buyVolume' = [m \in Markets |-> buyVolume[m] + IF m \in ms THEN Shorts[<<a, m>>] ELSE 0]
      /\ sellVolume' = [m \in Markets |-> sellVolume[m] + IF m \in ms THEN Longs[<<a, m>>] ELSE 0]
  BY DEF Liquidate
<1>7. /\ positionIds' = [positionIds EXCEPT ![a] = <<>>]
      /\ activePositionIds' = activePositionIds \ ({a} \X ms)
      /\ activeSubAccounts' = activeSubAccounts \ {a}
  BY DEF Liquidate
<1>8. /\ size' = Cleared(size, a, ms) /\ avgPrice' = Cleared(avgPrice, a, ms)
      /\ reserve' = Cleared(reserve, a, ms) /\ entryRate' = Cleared(entryRate, a, ms)
      /\ lastAccrued' = Cleared(lastAccrued, a, ms)
  BY DEF Liquidate
<1> HIDE DEF ms
<1>9. /\ Longs \in [PositionIds -> Nat] /\ Shorts \in [PositionIds -> Nat]
      /\ LongSEs \in [PositionIds -> Nat] /\ ShortSEs \in [PositionIds -> Nat]
      /\ LongS2Es \in [PositionIds -> Nat] /\ ShortS2Es \in [PositionIds -> Nat]
  BY <1>1, ViewTypes
<1>10. /\ sumRate' \in [AssetClasses -> Nat] /\ sumFee' \in [AssetClasses -> Nat]
       /\ lastBorrowTime' \in [AssetClasses -> Nat]
       /\ fundingRate' \in [Markets -> Int] /\ fundingAccrued' \in [Markets -> Int]
       /\ lastFundingTime' \in [Markets -> Nat]
       /\ \A c \in AssetClasses : sumRate[c] <= sumRate'[c]
  BY <1>1, <1>2, <1>3, RatesStep
<1>11. \A id \in PositionIds : BorrowingFeeOf(id, tvl) \in Nat /\ FundingFeeOf(id) \in Int
  BY <1>1, <1>2, FeeFacts
<1>12. sumSettled' \in [AssetClasses -> Nat]
  <2>1. fee \in [PositionIds -> Nat]  BY <1>11
  <2> HIDE DEF fee
  <2>2. \A c \in AssetClasses : sumSettled[c] + SumInClass(fee, a, ms, c) \in Nat
    <3> TAKE c \in AssetClasses
    <3>1. sumSettled[c] \in Nat  BY <1>1 DEF TypeOK
    <3>2. SumInClass(fee, a, ms, c) \in Nat  BY <1>2, <2>1, RowSumNat
    <3> QED BY <3>1, <3>2
  <2> QED BY <1>3, <2>2
<1>13. accumLong' \in [Markets -> Int] /\ accumShort' \in [Markets -> Int]
  <2>1. \A m \in Markets : accumLong'[m] \in Int /\ accumShort'[m] \in Int
    <3> TAKE m \in Markets
    <3>1. /\ accumLong[m] \in Int /\ accumShort[m] \in Int
          /\ AccumLongAt(m) \in Int /\ AccumShortAt(m) \in Int
      BY <1>1, FundingFacts DEF TypeOK
    <3>2. FundingFeeOf(<<a, m>>) \in Int  BY <1>11 DEF PositionIds
    <3>3. CASE m \in ms  BY <1>3, <3>1, <3>2, <3>3
    <3>4. CASE m \notin ms  BY <1>3, <3>1, <3>4
    <3> QED BY <3>3, <3>4
  <2>2. accumLong' = [m \in Markets |-> accumLong'[m]] /\ accumShort' = [m \in Markets |-> accumShort'[m]]
    BY <1>3
  <2> QED BY <2>1, <2>2
<1>14. /\ size' \in [PositionIds -> Int] /\ avgPrice' \in [PositionIds -> Nat]
       /\ reserve' \in [PositionIds -> Nat] /\ entryRate' \in [PositionIds -> Nat]
       /\ lastAccrued' \in [PositionIds -> Int]
  BY <1>1, <1>8 DEF TypeOK, Cleared
<1>15. /\ positionIds' \in [Accounts -> Seq(Markets)]
       /\ activePositionIds' \subseteq PositionIds /\ activeSubAccounts' \subseteq Accounts
  BY <1>1, <1>7 DEF TypeOK
<1>16. /\ Longs' = Cleared(Longs, a, ms) /\ Shorts' = Cleared(Shorts, a, ms)
       /\ LongSEs' = Cleared(LongSEs, a, ms) /\ ShortSEs' = Cleared(ShortSEs, a, ms)
       /\ LongS2Es' = Cleared(LongS2Es, a, ms) /\ ShortS2Es' = Cleared(ShortS2Es, a, ms)
  <2> DEFINE In(z) == z[1] = a /\ z[2] \in ms
  <2>1. \A z \in PositionIds :
          /\ size'[z] = IF In(z) THEN 0 ELSE size[z]
          /\ avgPrice'[z] = IF In(z) THEN 0 ELSE avgPrice[z]
    BY <1>8 DEF Cleared
  <2>2. /\ Longs' = [z \in PositionIds |-> LongPart(size'[z])]
        /\ Shorts' = [z \in PositionIds |-> ShortPart(size'[z])]
    BY DEF Longs, Shorts, LongPart, ShortPart, PositionIds
  <2>3. \A z \in PositionIds : /\ Longs[z] = LongPart(size[z]) /\ Shorts[z] = ShortPart(size[z])
    BY DEF Longs, Shorts
  <2>4. LongPart(0) = 0 /\ ShortPart(0) = 0  BY DEF LongPart, ShortPart
  <2>5. \A z \in PositionIds :
          /\ Longs'[z] = IF In(z) THEN 0 ELSE Longs[z]
          /\ Shorts'[z] = IF In(z) THEN 0 ELSE Shorts[z]
    BY <2>1, <2>2, <2>3, <2>4
  <2>6. Longs' = Cleared(Longs, a, ms) /\ Shorts' = Cleared(Shorts, a, ms)
    BY <2>2, <2>5 DEF Cleared
  <2>7. SE(0, 0) = 0 /\ S2E(0, 0) = 0  BY DEF SE, S2E
  <2>8. /\ LongSEs' = [z \in PositionIds |-> SE(Longs'[z], avgPrice'[z])]
        /\ ShortSEs' = [z \in PositionIds |-> SE(Shorts'[z], avgPrice'[z])]
        /\ LongS2Es' = [z \in PositionIds |-> S2E(Longs'[z], avgPrice'[z])]
        /\ ShortS2Es' = [z \in PositionIds |-> S2E(Shorts'[z], avgPrice'[z])]
    BY DEF LongSEs, ShortSEs, LongS2Es, ShortS2Es, SE, S2E, PositionIds
  <2>9. \A z \in PositionIds :
          /\ LongSEs[z] = SE(Longs[z], avgPrice[z]) /\ ShortSEs[z] = SE(Shorts[z], avgPrice[z])
          /\ LongS2Es[z] = S2E(Longs[z], avgPrice[z]) /\ ShortS2Es[z] = S2E(Shorts[z], avgPrice[z])
    BY DEF LongSEs, ShortSEs, LongS2Es, ShortS2Es
  <2>10. \A z \in PositionIds :
          /\ LongSEs'[z] = IF In(z) THEN 0 ELSE LongSEs[z]
          /\ ShortSEs'[z] = IF In(z) THEN 0 ELSE ShortSEs[z]
          /\ LongS2Es'[z] = IF In(z) THEN 0 ELSE LongS2Es[z]
          /\ ShortS2Es'[z] = IF In(z) THEN 0 ELSE ShortS2Es[z]
    <3> TAKE z \in PositionIds
    <3>1. CASE In(z)  BY <2>1, <2>5, <2>7, <2>8, <3>1
    <3>2. CASE ~In(z)  BY <2>1, <2>5, <2>8, <2>9, <3>2
    <3> QED BY <3>1, <3>2
  <2>11. /\ LongSEs' = Cleared(LongSEs, a, ms) /\ ShortSEs' = Cleared(ShortSEs, a, ms)
    BY <2>8, <2>10 DEF Cleared
  <2>12. LongS2Es' = Cleared(LongS2Es, a, ms) /\ ShortS2Es' = Cleared(ShortS2Es, a, ms)
    BY <2>8, <2>10 DEF Cleared
  <2> QED BY <2>6, <2>11, <2>12
<1>17. /\ MarketSizesMatch' /\ AccumMatch'
       /\ longSize' \in [Markets -> Nat] /\ shortSize' \in [Markets -> Nat]
       /\ longSE' \in [Markets -> Nat] /\ shortSE' \in [Markets -> Nat]
       /\ longS2E' \in [Markets -> Nat] /\ shortS2E' \in [Markets -> Nat]
  <2>1. /\ CountsMarkets(longSize, Longs) /\ CountsMarkets(shortSize, Shorts)
        /\ CountsMarkets(longSE, LongSEs) /\ CountsMarkets(shortSE, ShortSEs)
        /\ CountsMarkets(longS2E, LongS2Es) /\ CountsMarkets(shortS2E, ShortS2Es)
    BY <1>1 DEF CountsMarkets, MarketSizesMatch, AccumMatch
  <2>2. /\ longSize \in [Markets -> Nat] /\ shortSize \in [Markets -> Nat]
        /\ longSE \in [Markets -> Nat] /\ shortSE \in [Markets -> Nat]
        /\ longS2E \in [Markets -> Nat] /\ shortS2E \in [Markets -> Nat]
    BY <1>1 DEF TypeOK
  <2>3. CountsMarkets(longSize', Longs') /\ longSize' \in [Markets -> Nat]
    BY <1>2, <1>5, <1>9, <1>16, <2>1, <2>2, ClearStep
  <2>4. CountsMarkets(shortSize', Shorts') /\ shortSize' \in [Markets -> Nat]
    BY <1>2, <1>5, <1>9, <1>16, <2>1, <2>2, ClearStep
  <2>5. CountsMarkets(longSE', LongSEs') /\ longSE' \in [Markets -> Nat]
    BY <1>2, <1>5, <1>9, <1>16, <2>1, <2>2, ClearStep
  <2>6. CountsMarkets(shortSE', ShortSEs') /\ shortSE' \in [Markets -> Nat]
    BY <1>2, <1>5, <1>9, <1>16, <2>1, <2>2, ClearStep
  <2>7. CountsMarkets(longS2E', LongS2Es') /\ longS2E' \in [Markets -> Nat]
    BY <1>2, <1>5, <1>9, <1>16, <2>1, <2>2, ClearStep
  <2>8. CountsMarkets(shortS2E', ShortS2Es') /\ shortS2E' \in [Markets -> Nat]
    BY <1>2, <1>5, <1>9, <1>16, <2>1, <2>2, ClearStep
  <2> QED BY <2>3, <2>4, <2>5, <2>6, <2>7, <2>8 DEF CountsMarkets, MarketSizesMatch, AccumMatch
<1>18. ReserveMatch' /\ classReserve' \in [AssetClasses -> Nat] /\ globalReserve' \in Nat
  <2>1. /\ reserve \in [PositionIds -> Nat] /\ classReserve \in [AssetClasses -> Nat]
        /\ globalReserve \in Nat
    BY <1>1 DEF TypeOK
  <2>2. reserve \in [PositionIds -> Int] /\ classReserve \in [AssetClasses -> Int]  BY <2>1
  <2>3. CountsClasses(classReserve, reserve)  BY <1>1 DEF CountsClasses, ReserveMatch
  <2>4. CountsClasses(classReserve', reserve')
    BY <1>2, <1>4, <1>8, <2>2, <2>3, ClassCounterClear
  <2>5. classReserve' \in [AssetClasses -> Int]
    <3>1. \A c \in AssetClasses : classReserve[c] - SumInClass(reserve, a, ms, c) \in Int
      BY <1>2, <2>1, RowSumNat
    <3> QED BY <1>4, <3>1
  <2>6. classReserve' \in [AssetClasses -> Nat]  BY <1>14, <2>4, <2>5, ClassCounterNat
  <2>7. globalReserve' = SumFunction(reserve')
    BY <1>1, <1>2, <1>4, <1>8, <2>2, TotalClear DEF ReserveMatch
  <2>8. globalReserve' \in Nat  BY <1>14, <2>7, PositionIdsFinite, SumFunctionNat
  <2> QED BY <2>4, <2>6, <2>7, <2>8 DEF CountsClasses, ReserveMatch
<1>19. NetVolume' /\ buyVolume' \in [Markets -> Nat] /\ sellVolume' \in [Markets -> Nat]
  <2>1. \A m \in Markets :
          /\ buyVolume[m] \in Nat /\ sellVolume[m] \in Nat
          /\ longSize[m] \in Nat /\ shortSize[m] \in Nat
          /\ Longs[<<a, m>>] \in Nat /\ Shorts[<<a, m>>] \in Nat
          /\ buyVolume[m] - sellVolume[m] = longSize[m] - shortSize[m]
    BY <1>1, <1>9 DEF TypeOK, NetVolume, PositionIds
  <2>2. \A m \in Markets :
          /\ buyVolume'[m] = buyVolume[m] + IF m \in ms THEN Shorts[<<a, m>>] ELSE 0
          /\ sellVolume'[m] = sellVolume[m] + IF m \in ms THEN Longs[<<a, m>>] ELSE 0
          /\ longSize'[m] = longSize[m] - IF m \in ms THEN Longs[<<a, m>>] ELSE 0
          /\ shortSize'[m] = shortSize[m] - IF m \in ms THEN Shorts[<<a, m>>] ELSE 0
    BY <1>5, <1>6 DEF Less
  <2>3. \A m \in Markets :
          /\ buyVolume'[m] \in Nat /\ sellVolume'[m] \in Nat
          /\ buyVolume'[m] - sellVolume'[m] = longSize'[m] - shortSize'[m]
    <3> TAKE m \in Markets
    <3> DEFINE b == buyVolume[m]
               s == sellVolume[m]
               l == longSize[m]
               h == shortSize[m]
               x == IF m \in ms THEN Longs[<<a, m>>] ELSE 0
               y == IF m \in ms THEN Shorts[<<a, m>>] ELSE 0
    <3>1. b \in Nat /\ s \in Nat /\ l \in Nat /\ h \in Nat /\ x \in Nat /\ y \in Nat
          /\ b - s = l - h
      BY <2>1
    <3>2. buyVolume'[m] = b + y /\ sellVolume'[m] = s + x
          /\ longSize'[m] = l - x /\ shortSize'[m] = h - y
      BY <2>2
    <3> HIDE DEF b, s, l, h, x, y
    <3> QED BY <3>1, <3>2
  <2>4. buyVolume' = [m \in Markets |-> buyVolume'[m]] /\ sellVolume' = [m \in Markets |-> sellVolume'[m]]
    BY <1>6
  <2> QED BY <2>3, <2>4 DEF NetVolume
<1>20. PositionsOK'
  <2>1. ASSUME NEW z \in PositionIds
        PROVE  /\ size'[z] # 0 => avgPrice'[z] # 0
               /\ entryRate'[z] <= sumRate'[ClassOf[z[2]]]
    <3>1. ClassOf[z[2]] \in AssetClasses  BY SetsAssumption DEF PositionIds
    <3>2. /\ (size[z] # 0 => avgPrice[z] # 0) /\ entryRate[z] <= sumRate[ClassOf[z[2]]]
          /\ entryRate[z] \in Nat /\ sumRate[ClassOf[z[2]]] \in Nat
      BY <1>1, <3>1 DEF PositionsOK, TypeOK
    <3>3. sumRate'[ClassOf[z[2]]] \in Nat /\ sumRate[ClassOf[z[2]]] <= sumRate'[ClassOf[z[2]]]
      BY <1>10, <3>1
    <3>4. /\ size'[z] = IF z[1] = a /\ z[2] \in ms THEN 0 ELSE size[z]
          /\ avgPrice'[z] = IF z[1] = a /\ z[2] \in ms THEN 0 ELSE avgPrice[z]
          /\ entryRate'[z] = IF z[1] = a /\ z[2] \in ms THEN 0 ELSE entryRate[z]
      BY <1>8 DEF Cleared
    <3>5. CASE z[1] = a /\ z[2] \in ms  BY <3>3, <3>4, <3>5
    <3>6. CASE ~(z[1] = a /\ z[2] \in ms)  BY <3>2, <3>3, <3>4, <3>6
    <3> QED BY <3>5, <3>6
  <2> QED BY <2>1 DEF PositionsOK
<1>21. now' \in Nat  BY <1>1, <1>3 DEF TypeOK
<1>22. TypeOK'
  BY <1>10, <1>12, <1>13, <1>14, <1>15, <1>17, <1>18, <1>19, <1>21 DEF TypeOK
<1> QED BY <1>17, <1>18, <1>19, <1>20, <1>22 DEF IndInv

LEMMA InitStep == Init => IndInv
<1> SUFFICES ASSUME Init PROVE IndInv
  OBVIOUS
<1> DEFINE zero == [id \in PositionIds |-> 0]
<1>1. zero \in [PositionIds -> Int]  OBVIOUS
<1>2. /\ Longs = zero /\ Shorts = zero /\ LongSEs = zero /\ ShortSEs = zero
      /\ LongS2Es = zero /\ ShortS2Es = zero /\ reserve = zero
  BY DEF Init, Longs, Shorts, LongSEs, ShortSEs, LongS2Es, ShortS2Es,
         LongPart, ShortPart, SE, S2E
<1>3. SumFunction(zero) = 0
  <2>1. \A id \in PositionIds : zero[id] = 0  OBVIOUS
  <2> HIDE DEF zero
  <2> QED BY <1>1, <2>1, PositionIdsFinite, SumFunctionZero
<1>4. \A m \in Markets : OfMarket(zero, m) = zero  BY DEF OfMarket
<1>5. \A c \in AssetClasses : OfClass(zero, c) = zero  BY DEF OfClass
<1>6. TypeOK  BY NumbersAssumption DEF Init, TypeOK
<1> HIDE DEF zero
<1>7. MarketSizesMatch  BY <1>2, <1>3, <1>4 DEF MarketSizesMatch, Init
<1>8. AccumMatch  BY <1>2, <1>3, <1>4 DEF AccumMatch, Init
<1>9. ReserveMatch  BY <1>2, <1>3, <1>5 DEF ReserveMatch, Init
<1>10. NetVolume  BY DEF NetVolume, Init
<1>11. PositionsOK  BY SetsAssumption DEF PositionsOK, Init, PositionIds
<1> QED BY <1>6, <1>7, <1>8, <1>9, <1>10, <1>11 DEF IndInv

LEMMA StutterStep ==
    ASSUME IndInv, UNCHANGED <<positionVars, indexVars, marketVars, classVars>>, now' \in Nat
    PROVE  IndInv'
<1>1. /\ Longs' = Longs /\ Shorts' = Shorts /\ LongSEs' = LongSEs /\ ShortSEs' = ShortSEs
      /\ LongS2Es' = LongS2Es /\ ShortS2Es' = ShortS2Es
  BY DEF positionVars, Longs, Shorts, LongSEs, ShortSEs, LongS2Es, ShortS2Es, PositionIds,
         SE, S2E, LongPart, ShortPart
<1>2. TypeOK'  BY DEF IndInv, TypeOK, positionVars, indexVars, marketVars, classVars
<1>3. MarketSizesMatch' /\ AccumMatch'
  BY <1>1 DEF IndInv, MarketSizesMatch, AccumMatch, marketVars
<1>4. ReserveMatch' /\ NetVolume' /\ PositionsOK'
  BY DEF IndInv, ReserveMatch, NetVolume, PositionsOK, positionVars, marketVars, classVars
<1> QED BY <1>2, <1>3, <1>4 DEF IndInv

\* Every action preserves the inductive invariant.
LEMMA NextStep == IndInv /\ [Next]_vars => IndInv'
<1> SUFFICES ASSUME IndInv, [Next]_vars PROVE IndInv'
  OBVIOUS
<1>1. now \in Nat  BY DEF IndInv, TypeOK
<1>2. CASE Tick  BY <1>1, <1>2, StutterStep DEF Tick
<1>3. ASSUME NEW a \in Accounts, NEW m \in Markets, NEW p \in Prices, NEW tvl \in PoolValues,
             NEW s \in SizeDeltas, NEW tvlMax \in PoolValues,
             IncreasePosition(a, m, s, p, tvl, tvlMax) \/ IncreasePosition(a, m, -s, p, tvl, tvlMax)
      PROVE  IndInv'
  <2>1. s \in Int /\ s # 0 /\ -s \in Int /\ -s # 0  BY SetsAssumption
  <2>2. CASE IncreasePosition(a, m, s, p, tvl, tvlMax)  BY <2>1, <2>2, IncreaseStep
  <2>3. CASE IncreasePosition(a, m, -s, p, tvl, tvlMax)
    <3> DEFINE d == -s
    <3>1. d \in Int /\ d # 0 /\ IncreasePosition(a, m, d, p, tvl, tvlMax)  BY <2>1, <2>3
    <3> HIDE DEF d
    <3> QED BY <3>1, IncreaseStep
  <2> QED BY <1>3, <2>2, <2>3
<1>4. ASSUME NEW a \in Accounts, NEW m \in Markets, NEW p \in Prices, NEW tvl \in PoolValues,
             NEW q \in 0..MaxMarketSize, DecreasePosition(a, m, q, p, tvl)
      PROVE  IndInv'
  <2>1. q \in Nat  BY NumbersAssumption
  <2> QED BY <1>4, <2>1, DecreaseStep
<1>5. ASSUME NEW a \in Accounts, NEW tvl \in PoolValues, Liquidate(a, tvl)
      PROVE  IndInv'
  BY <1>5, LiquidateStep
<1>6. CASE UNCHANGED vars  BY <1>1, <1>6, StutterStep DEF vars
<1> QED BY <1>2, <1>3, <1>4, <1>5, <1>6 DEF Next

\* The counters of PerpStorage stay within their unsigned types: no trade and
\* no liquidation reverts because a counter fell behind the positions.
THEOREM PerpBookTypes == Spec => []TypeOK
<1>1. IndInv => TypeOK  BY DEF IndInv
<1> QED BY <1>1, InitStep, NextStep, PTL DEF Spec

\* The open interest of every market is that of its positions.
THEOREM OpenInterest == Spec => []MarketSizesMatch
<1>1. IndInv => MarketSizesMatch  BY DEF IndInv
<1> QED BY <1>1, InitStep, NextStep, PTL DEF Spec

\* The sums getAUME30 computes the traders' profit from are exactly those of
\* the positions.
THEOREM ProfitAccumulators == Spec => []AccumMatch
<1>1. IndInv => AccumMatch  BY DEF IndInv
<1> QED BY <1>1, InitStep, NextStep, PTL DEF Spec

\* The exposure of every class and of the exchange is what the positions
\* reserve.
THEOREM Exposure == Spec => []ReserveMatch
<1>1. IndInv => ReserveMatch  BY DEF IndInv
<1> QED BY <1>1, InitStep, NextStep, PTL DEF Spec

\* The net volume of a market is its skew.
THEOREM VolumeIsSkew == Spec => []NetVolume
<1>1. IndInv => NetVolume  BY DEF IndInv
<1> QED BY <1>1, InitStep, NextStep, PTL DEF Spec

-----------------------------------------------------------------------------
(***************************************************************************)
(* Fees. What a set D of positions owes in fees is, position by position,  *)
(* a weight times how far a rate r has gone since the position was last    *)
(* touched, at e. A rise of the rate makes all of them owe in proportion to*)
(* their weights; touching a position takes out what it owes.              *)
(***************************************************************************)
ClassIds(c)  == {id \in PositionIds : ClassOf[id[2]] = c}
MarketIds(m) == {id \in PositionIds : id[2] = m}
On(w, D) == [id \in PositionIds |-> IF id \in D THEN w[id] ELSE 0]
Owed(w, e, r, D) == [id \in PositionIds |-> IF id \in D THEN w[id] * (r - e[id]) ELSE 0]

LEMMA OwedType ==
    ASSUME NEW w \in [PositionIds -> Int], NEW e \in [PositionIds -> Int], NEW r \in Int, NEW D
    PROVE  /\ Owed(w, e, r, D) \in [PositionIds -> Int]
           /\ SumFunction(Owed(w, e, r, D)) \in Int
<1>1. Owed(w, e, r, D) \in [PositionIds -> Int]  BY DEF Owed
<1> QED BY <1>1, PositionIdsFinite, SumFunctionInt

\* One function is the other plus k times the third; so are their sums.
Combined(h, f, k, g) == \A x \in PositionIds : h[x] = f[x] + k * g[x]
LEMMA CombinedSum ==
    ASSUME NEW f \in [PositionIds -> Int], NEW g \in [PositionIds -> Int], NEW k \in Int,
           NEW h \in [PositionIds -> Int], Combined(h, f, k, g)
    PROVE  SumFunction(h) = SumFunction(f) + k * SumFunction(g)
BY PositionIdsFinite, SumFunctionLinear DEF Combined

LEMMA OwedRise ==
    ASSUME NEW w \in [PositionIds -> Int], NEW e \in [PositionIds -> Int],
           NEW r \in Int, NEW r2 \in Int, NEW D
    PROVE  SumFunction(Owed(w, e, r2, D))
             = SumFunction(Owed(w, e, r, D)) + (r2 - r) * SumFunction(On(w, D))
<1> DEFINE f == Owed(w, e, r, D)
           g == On(w, D)
           h == Owed(w, e, r2, D)
           k == r2 - r
<1>1. f \in [PositionIds -> Int] /\ h \in [PositionIds -> Int]  BY OwedType
<1>2. g \in [PositionIds -> Int] /\ k \in Int  BY DEF On
<1>3. ASSUME NEW x \in PositionIds PROVE h[x] = f[x] + k * g[x]
  <2>1. w[x] \in Int /\ e[x] \in Int  OBVIOUS
  <2>2. CASE x \in D
    <3>1. h[x] = w[x] * (r2 - e[x]) /\ f[x] = w[x] * (r - e[x]) /\ g[x] = w[x]
      BY <2>2 DEF Owed, On
    <3> QED BY <2>1, <3>1
  <2>3. CASE x \notin D
    <3>1. h[x] = 0 /\ f[x] = 0 /\ g[x] = 0  BY <2>3 DEF Owed, On
    <3> QED BY <3>1
  <2> QED BY <2>2, <2>3
<1> HIDE DEF f, g, h, k
<1>4. SumFunction(h) = SumFunction(f) + k * SumFunction(g)
  <2>1. Combined(h, f, k, g)  BY <1>3 DEF Combined
  <2> QED BY <1>1, <1>2, <2>1, CombinedSum
<1> QED BY <1>4 DEF f, g, h, k

\* A position is touched: it owes nothing at the rate r any more.
LEMMA OwedTouch ==
    ASSUME NEW w \in [PositionIds -> Int], NEW e \in [PositionIds -> Int], NEW r \in Int, NEW D,
           NEW w2 \in [PositionIds -> Int], NEW e2 \in [PositionIds -> Int], NEW id \in PositionIds,
           \A z \in PositionIds : z # id => w2[z] = w[z] /\ e2[z] = e[z],
           w2[id] # 0 => e2[id] = r
    PROVE  SumFunction(Owed(w2, e2, r, D)) = SumFunction(Owed(w, e, r, D)) - Owed(w, e, r, D)[id]
<1> DEFINE f == Owed(w, e, r, D)
           g == Owed(w2, e2, r, D)
<1>2. f \in [PositionIds -> Int] /\ g \in [PositionIds -> Int]  BY OwedType
<1>3. \A y \in PositionIds : y # id => g[y] = f[y]  BY DEF Owed
<1>4. g[id] = 0
  <2>1. w2[id] * (r - e2[id]) = 0
    <3>1. w2[id] \in Int /\ e2[id] \in Int  OBVIOUS
    <3>2. CASE w2[id] = 0  BY <3>1, <3>2
    <3>3. CASE w2[id] # 0  BY <3>1, <3>3
    <3> QED BY <3>2, <3>3
  <2> QED BY <2>1 DEF Owed
<1>6. SumFunction(f) \in Int /\ f[id] \in Int  BY <1>2, OwedType
<1> HIDE DEF f, g
<1>7. SumFunction(g) = SumFunction(f) + g[id] - f[id]
  BY <1>2, <1>3, PositionIdsFinite, SumFunctionChange
<1>8. SumFunction(g) = SumFunction(f) - f[id]  BY <1>4, <1>6, <1>7
<1> QED BY <1>8 DEF f, g

\* A row of positions is cleared.
LEMMA OwedClear ==
    ASSUME NEW w \in [PositionIds -> Int], NEW e \in [PositionIds -> Int], NEW r \in Int, NEW D,
           NEW a \in Accounts, NEW ms \in SUBSET Markets
    PROVE  SumFunction(Owed(Cleared(w, a, ms), Cleared(e, a, ms), r, D))
             = SumFunction(Owed(w, e, r, D))
                 - SumFunction([m \in Markets |-> IF m \in ms THEN Owed(w, e, r, D)[<<a, m>>] ELSE 0])
<1> DEFINE f == Owed(w, e, r, D)
<1>1. f \in [PositionIds -> Int]  BY OwedType
<1>2. Owed(Cleared(w, a, ms), Cleared(e, a, ms), r, D) = Cleared(f, a, ms)
  <2>1. ASSUME NEW z \in PositionIds
        PROVE  Owed(Cleared(w, a, ms), Cleared(e, a, ms), r, D)[z] = Cleared(f, a, ms)[z]
    <3>1. CASE z[1] = a /\ z[2] \in ms
      <4>1. Cleared(w, a, ms)[z] = 0 /\ Cleared(e, a, ms)[z] = 0 /\ Cleared(f, a, ms)[z] = 0
        BY <3>1 DEF Cleared
      <4>2. 0 * (r - 0) = 0  OBVIOUS
      <4> QED BY <4>1, <4>2 DEF Owed
    <3>2. CASE ~(z[1] = a /\ z[2] \in ms)
      <4>1. /\ Cleared(w, a, ms)[z] = w[z] /\ Cleared(e, a, ms)[z] = e[z]
            /\ Cleared(f, a, ms)[z] = f[z]
        BY <3>2 DEF Cleared
      <4> QED BY <4>1 DEF Owed
    <3> QED BY <3>1, <3>2
  <2> QED BY <2>1 DEF Owed, Cleared
<1> HIDE DEF f
<1> QED BY <1>1, <1>2, TotalClear DEF f

-----------------------------------------------------------------------------
(***************************************************************************)
(* What every trade has in common: the rates of the market are updated,    *)
(* position id pays its fees and is stored with size s, average price p,   *)
(* reserve r, entry rate and accrued funding. A position that stays open   *)
(* is registered and holds the current rates; one that does not is removed.*)
(***************************************************************************)
Traded(id, s, p, r, rate, accrued, tvl) ==
    /\ UpdateRates({id[2]}, tvl)
    /\ SettleFees(id, tvl)
    /\ StorePosition(id, s, p, r, rate, accrued)
    /\ s # 0 => /\ Register(id)
                /\ rate = BorrowRateAt(ClassOf[id[2]], tvl) /\ accrued = AccruedAt(id[2])
                /\ size[id] > 0 => s > 0
                /\ size[id] < 0 => s < 0
    /\ s = 0 => size[id] # 0 /\ RemovePosition(id) /\ r = 0
    /\ now' = now

LEMMA IncreaseIsTrade ==
    ASSUME TypeOK, NEW a \in Accounts, NEW m \in Markets, NEW d \in Int, d # 0,
           NEW p \in Prices, NEW tvl \in PoolValues, NEW tvlMax,
           IncreasePosition(a, m, d, p, tvl, tvlMax)
    PROVE  \E s \in Int, r \in Nat, rate \in Nat, accrued \in Int :
               Traded(<<a, m>>, s, p, r, rate, accrued, tvl)
<1> DEFINE id == <<a, m>>
           s == size[id] + d
           q == ReserveOf(Abs(d))
           r == reserve[id] + q
           rate == BorrowRateAt(ClassOf[m], tvl)
           accrued == AccruedAt(m)
<1>1. id \in PositionIds /\ id[1] = a /\ id[2] = m /\ ClassOf[m] \in AssetClasses
  BY SetsAssumption DEF PositionIds
<1>2. size[id] \in Int /\ reserve[id] \in Nat  BY <1>1 DEF TypeOK
<1>3. tvl \in Nat  BY SetsAssumption
<1>4. Abs(d) \in Nat  BY DEF Abs
<1>5. q \in Nat  BY <1>4, ReserveNat
<1>6. s \in Int /\ r \in Nat  BY <1>2, <1>5
<1>7. rate \in Nat /\ accrued \in Int  BY <1>1, <1>3, BorrowRateFacts, FundingFacts
<1>8. size[id] # 0 => (size[id] > 0 <=> d > 0)  BY DEF IncreasePosition
<1>9. s # 0 /\ (size[id] > 0 => s > 0) /\ (size[id] < 0 => s < 0)  BY <1>2, <1>8
<1>10. /\ UpdateRates({id[2]}, tvl) /\ SettleFees(id, tvl) /\ now' = now
       /\ Register(id) /\ StorePosition(id, s, p, r, rate, accrued)
  BY DEF IncreasePosition, SavePosition
<1> HIDE DEF id, s, q, r, rate, accrued
<1>11. Traded(id, s, p, r, rate, accrued, tvl)
  BY <1>1, <1>9, <1>10 DEF Traded, rate, accrued
<1> QED BY <1>6, <1>7, <1>11 DEF id

LEMMA DecreaseIsTrade ==
    ASSUME TypeOK, NEW a \in Accounts, NEW m \in Markets, NEW q \in Nat,
           NEW p \in Prices, NEW tvl \in PoolValues,
           DecreasePosition(a, m, q, p, tvl)
    PROVE  \E s \in Int, x \in Nat, r \in Nat, rate \in Nat, accrued \in Int :
               Traded(<<a, m>>, s, x, r, rate, accrued, tvl)
<1> DEFINE id == <<a, m>>
           isLong == size[id] > 0
           new == Abs(size[id]) - q
<1>1. id \in PositionIds /\ id[1] = a /\ id[2] = m /\ ClassOf[m] \in AssetClasses
  BY SetsAssumption DEF PositionIds
<1>2. size[id] \in Int /\ size[id] # 0 /\ q <= Abs(size[id])  BY <1>1 DEF TypeOK, DecreasePosition
<1>3. tvl \in Nat /\ p \in Nat /\ new \in Nat  BY <1>2, SetsAssumption DEF Abs
<1>4. UpdateRates({id[2]}, tvl) /\ SettleFees(id, tvl) /\ now' = now  BY DEF DecreasePosition
<1>5. CASE new # 0
  <2> DEFINE s == IF isLong THEN new ELSE -new
             r == ReserveOf(new)
             rate == BorrowRateAt(ClassOf[m], tvl)
             accrued == AccruedAt(m)
  <2>1. Register(id) /\ StorePosition(id, s, p, r, rate, accrued)
    BY <1>5 DEF DecreasePosition, SavePosition
  <2>2. s \in Int /\ r \in Nat  BY <1>3, ReserveNat
  <2>3. rate \in Nat /\ accrued \in Int  BY <1>1, <1>3, BorrowRateFacts, FundingFacts
  <2>4. s # 0 /\ (size[id] > 0 => s > 0) /\ (size[id] < 0 => s < 0)
    <3> HIDE DEF new
    <3> QED BY <1>2, <1>3, <1>5
  <2> HIDE DEF id, s, r, rate, accrued, isLong, new
  <2>5. Traded(id, s, p, r, rate, accrued, tvl)
    BY <1>1, <1>4, <2>1, <2>4 DEF Traded, rate, accrued
  <2> QED BY <1>3, <2>2, <2>3, <2>5 DEF id
<1>6. CASE new = 0
  <2>1. RemovePosition(id)  BY <1>6 DEF DecreasePosition
  <2>2. StorePosition(id, 0, 0, 0, 0, 0)  BY <2>1 DEF RemovePosition
  <2> HIDE DEF id, isLong, new
  <2>3. Traded(id, 0, 0, 0, 0, 0, tvl)
    BY <1>2, <1>4, <2>1, <2>2 DEF Traded
  <2>4. 0 \in Int /\ 0 \in Nat  OBVIOUS
  <2> HIDE DEF id
  <2> QED BY <2>3, <2>4 DEF id
<1> QED BY <1>5, <1>6

LEMMA IncreaseIsTradeEither ==
    ASSUME TypeOK, NEW a \in Accounts, NEW m \in Markets, NEW s \in SizeDeltas,
           NEW p \in Prices, NEW tvl \in PoolValues, NEW tvlMax,
           IncreasePosition(a, m, s, p, tvl, tvlMax) \/ IncreasePosition(a, m, -s, p, tvl, tvlMax)
    PROVE  \E z \in Int, x \in Nat, r \in Nat, rate \in Nat, accrued \in Int :
               Traded(<<a, m>>, z, x, r, rate, accrued, tvl)
<1>1. PICK d \in Int : d # 0 /\ IncreasePosition(a, m, d, p, tvl, tvlMax)
  <2>1. s \in Int /\ s # 0 /\ -s \in Int /\ -s # 0  BY SetsAssumption
  <2> QED BY <2>1
<1>2. \E z \in Int, r \in Nat, rate \in Nat, accrued \in Int :
          Traded(<<a, m>>, z, p, r, rate, accrued, tvl)
  BY <1>1, IncreaseIsTrade
<1>3. p \in Nat  BY SetsAssumption
<1> QED BY <1>2, <1>3

-----------------------------------------------------------------------------
(***************************************************************************)
(* Borrowing fees. The bound of BorrowingNotOverSettled is not inductive:  *)
(* two updates of a class may fall on the same "now" as far as it knows.   *)
(* Each update that loses to rounding moves the clock of its class,        *)
(* lastBorrowTime, forward, and that never runs ahead of now.              *)
(***************************************************************************)
BorrowingInv ==
    \A c \in AssetClasses :
        /\ lastBorrowTime[c] <= now
        /\ RatePrecision * sumSettled[c] + BorrowingOwed(c)
              <= RatePrecision * sumFee[c] + (RatePrecision - 1) * lastBorrowTime[c]
        /\ RatePrecision = 1 => sumFee[c] = sumSettled[c] + BorrowingOwed(c)

LEMMA DivBounds ==
    ASSUME NEW x \in Nat, NEW y \in Nat, y # 0
    PROVE  /\ x \div y \in Nat
           /\ y * (x \div y) <= x /\ x < y * (x \div y) + y
           /\ y = 1 => x \div y = x
OBVIOUS

\* What a class owes, and its next value.
LEMMA BorrowingOwedIs ==
    ASSUME NEW c \in AssetClasses
    PROVE  BorrowingOwed(c) = SumFunction(Owed(reserve, entryRate, sumRate[c], ClassIds(c)))
<1>1. OfClass([id \in PositionIds |-> reserve[id] * (sumRate[c] - entryRate[id])], c)
        = Owed(reserve, entryRate, sumRate[c], ClassIds(c))
  BY DEF OfClass, Owed, ClassIds
<1> QED BY <1>1 DEF BorrowingOwed

LEMMA BorrowingOwedNext ==
    ASSUME NEW c \in AssetClasses
    PROVE  BorrowingOwed(c)' = SumFunction(Owed(reserve', entryRate', sumRate'[c], ClassIds(c)))
<1>1. OfClass([id \in PositionIds |-> reserve'[id] * (sumRate'[c] - entryRate'[id])], c)
        = Owed(reserve', entryRate', sumRate'[c], ClassIds(c))
  BY DEF OfClass, Owed, ClassIds
<1>2. BorrowingOwed(c)'
        = SumFunction(OfClass([id \in PositionIds |-> reserve'[id] * (sumRate'[c] - entryRate'[id])], c))
  BY DEF BorrowingOwed, OfClass, PositionIds
<1> QED BY <1>1, <1>2

\* The reserve of a class weighs what it owes.
LEMMA ClassWeight ==
    ASSUME ReserveMatch, NEW c \in AssetClasses
    PROVE  SumFunction(On(reserve, ClassIds(c))) = classReserve[c]
<1>1. OfClass(reserve, c) = On(reserve, ClassIds(c))  BY DEF OfClass, On, ClassIds
<1> QED BY <1>1 DEF ReserveMatch

\* An update of the rate of a class: the fee it adds is what all positions of
\* the class come to owe, but for less than one unit that rounding loses, and
\* only when the clock moves.
LEMMA BorrowRise ==
    ASSUME TypeOK, BorrowingInv, NEW ms \in SUBSET Markets, NEW tvl \in Nat, UpdateRates(ms, tvl),
           NEW c \in AssetClasses
    PROVE  /\ sumRate'[c] - sumRate[c] \in Nat
           /\ sumFee'[c] \in Nat /\ lastBorrowTime'[c] \in Nat /\ lastBorrowTime'[c] <= now
           /\ RatePrecision * sumFee[c] + (RatePrecision - 1) * lastBorrowTime[c]
                + (sumRate'[c] - sumRate[c]) * classReserve[c]
                  <= RatePrecision * sumFee'[c] + (RatePrecision - 1) * lastBorrowTime'[c]
           /\ RatePrecision = 1 =>
                sumFee'[c] = sumFee[c] + (sumRate'[c] - sumRate[c]) * classReserve[c]
<1> DEFINE cs == {ClassOf[m] : m \in ms}
           n == NextBorrowRate(c, tvl)
           x == classReserve[c]
           f == sumFee[c]
           l == lastBorrowTime[c]
           y == (x * n) \div RatePrecision
<1>1. /\ now \in Nat /\ l \in Nat /\ sumRate[c] \in Nat /\ x \in Nat /\ f \in Nat /\ l <= now
  BY DEF TypeOK, BorrowingInv
<1>2. RatePrecision \in Nat /\ RatePrecision # 0 /\ FundingInterval \in Nat /\ FundingInterval # 0
  BY NumbersAssumption
<1>3. /\ sumRate'[c] = IF c \in cs THEN BorrowRateAt(c, tvl) ELSE sumRate[c]
      /\ sumFee'[c] = IF c \in cs THEN BorrowFeeAt(c, tvl) ELSE sumFee[c]
      /\ lastBorrowTime'[c] = IF c \in cs THEN BorrowTimeAt(c) ELSE lastBorrowTime[c]
  BY DEF UpdateRates
<1>4. CASE c \notin cs
  <2>1. sumRate'[c] = sumRate[c] /\ sumFee'[c] = f /\ lastBorrowTime'[c] = l  BY <1>3, <1>4
  <2>2. (sumRate'[c] - sumRate[c]) * x = 0 /\ sumRate'[c] - sumRate[c] = 0  BY <1>1, <2>1
  <2> HIDE DEF x, f, l
  <2> QED BY <1>1, <1>2, <2>1, <2>2 DEF x, f, l
<1>5. CASE c \in cs
  <2>1. sumRate'[c] = sumRate[c] + n /\ sumFee'[c] = f + y /\ lastBorrowTime'[c] = BorrowTimeAt(c)
    BY <1>3, <1>5 DEF BorrowRateAt, BorrowFeeAt
  <2>2. n \in Nat
    <3>1. BorrowRateAt(c, tvl) \in Nat /\ sumRate[c] <= BorrowRateAt(c, tvl)  BY BorrowRateFacts
    <3>2. BorrowRateAt(c, tvl) = sumRate[c] + n  BY DEF BorrowRateAt
    <3>3. n \in Int
      <4>1. CASE ~BorrowDue(c) \/ tvl = 0  BY <4>1 DEF NextBorrowRate
      <4>2. CASE BorrowDue(c) /\ tvl # 0
        <5> DEFINE u == BaseBorrowingRate * classReserve[c]
                          * ((now - lastBorrowTime[c]) \div FundingInterval)
        <5>1. now - lastBorrowTime[c] \in Nat  BY <1>1
        <5>2. (now - lastBorrowTime[c]) \div FundingInterval \in Nat  BY <1>2, <5>1, DivNat
        <5>3. BaseBorrowingRate * classReserve[c] \in Nat  BY <1>1, NumbersAssumption, ProductNat
        <5>4. u \in Nat  BY <5>2, <5>3, ProductNat
        <5>5. n = u \div tvl  BY <4>2 DEF NextBorrowRate
        <5> HIDE DEF u, n
        <5> QED BY <4>2, <5>4, <5>5, DivNat
      <4> QED BY <4>1, <4>2
    <3> HIDE DEF n
    <3> QED BY <1>1, <3>1, <3>2, <3>3
  <2>3. /\ BorrowTimeAt(c) \in Nat /\ l <= BorrowTimeAt(c) /\ BorrowTimeAt(c) <= now
        /\ n # 0 => l + 1 <= BorrowTimeAt(c)
    <3>1. /\ Rounded(now) \in Nat /\ Rounded(now) <= now /\ now < Rounded(now) + FundingInterval
      <4>1. /\ now \div FundingInterval \in Nat
            /\ FundingInterval * (now \div FundingInterval) <= now
            /\ now < FundingInterval * (now \div FundingInterval) + FundingInterval
        BY <1>1, <1>2, DivBounds
      <4>2. (now \div FundingInterval) * FundingInterval
              = FundingInterval * (now \div FundingInterval)
            /\ (now \div FundingInterval) * FundingInterval \in Nat
        BY <1>2, <4>1, ProductNat
      <4> QED BY <4>1, <4>2 DEF Rounded
    <3>2. CASE BorrowDue(c)
      <4>1. l + FundingInterval <= now /\ BorrowTimeAt(c) = Rounded(now)
        BY <3>2 DEF BorrowDue, BorrowTimeAt
      <4> HIDE DEF l, n
      <4> QED BY <1>1, <1>2, <3>1, <4>1
    <3>3. CASE ~BorrowDue(c)
      <4>1. n = 0  BY <3>3 DEF NextBorrowRate
      <4>2. CASE l = 0
        <5>1. BorrowTimeAt(c) = Rounded(now)  BY <4>2 DEF BorrowTimeAt
        <5> QED BY <3>1, <4>1, <4>2, <5>1
      <4>3. CASE l # 0
        <5>1. BorrowTimeAt(c) = l  BY <3>3, <4>3 DEF BorrowTimeAt
        <5> QED BY <1>1, <4>1, <5>1
      <4> QED BY <4>2, <4>3
    <3> QED BY <3>2, <3>3
  <2> DEFINE b == BorrowTimeAt(c)
             p == x * n
             q == RatePrecision
  <2>4. p \in Nat  BY <1>1, <2>2, ProductNat
  <2>5. /\ y \in Nat /\ q * y <= p /\ p < q * y + q /\ (q = 1 => y = p)
    <3> HIDE DEF p, q
    <3>1. y = p \div q  BY DEF p, q
    <3> HIDE DEF y
    <3> QED BY <1>2, <2>4, <3>1, DivBounds DEF q
  <2>6. n = 0 => p = 0 /\ y = 0
    <3>1. ASSUME n = 0 PROVE p = 0  BY <1>1, <3>1
    <3> HIDE DEF p, y, q
    <3> QED BY <1>2, <2>5, <3>1 DEF q
  <2>7. (sumRate'[c] - sumRate[c]) * x = p /\ sumRate'[c] - sumRate[c] = n
    BY <1>1, <2>1, <2>2
  <2>8. q * f + (q - 1) * l + p <= q * (f + y) + (q - 1) * b
    <3>1. q \in Nat /\ q >= 1 /\ f \in Nat /\ l \in Nat /\ b \in Nat  BY <1>1, <1>2, <2>3
    <3>2. q * (f + y) = q * f + q * y  BY <2>5, <3>1
    <3>3. CASE n = 0
      <4>1. l <= b /\ p = 0 /\ y = 0  BY <2>3, <2>6, <3>3
      <4> HIDE DEF q, l, b, p, y, f
      <4>2. (q - 1) * l <= (q - 1) * b
        <5>1. (q - 1) * b = (q - 1) * l + (q - 1) * (b - l)  BY <3>1
        <5>2. (q - 1) * (b - l) \in Nat  BY <3>1, <4>1, ProductNat
        <5> QED BY <3>1, <5>1, <5>2
      <4>3. q * y = 0  BY <3>1, <4>1
      <4> QED BY <3>1, <3>2, <4>1, <4>2, <4>3
    <3>4. CASE n # 0
      <4>1. l + 1 <= b  BY <2>3, <3>4
      <4> HIDE DEF q, l, b, p, y, f
      <4>2. (q - 1) * (l + 1) <= (q - 1) * b
        <5>1. (q - 1) * b = (q - 1) * (l + 1) + (q - 1) * (b - (l + 1))  BY <3>1
        <5>2. (q - 1) * (b - (l + 1)) \in Nat  BY <3>1, <4>1, ProductNat
        <5> QED BY <3>1, <5>1, <5>2
      <4>3. (q - 1) * (l + 1) = (q - 1) * l + (q - 1)  BY <3>1
      <4> DEFINE u == (q - 1) * l
                 v == (q - 1) * b
                 w == q * y
                 t == q * f
      <4>4. u \in Int /\ v \in Int /\ w \in Int /\ t \in Int /\ p \in Int
        BY <2>4, <2>5, <3>1
      <4>5. p < w + q /\ u + (q - 1) <= v  BY <2>5, <4>2, <4>3
      <4>6. q * (f + y) = t + w  BY <3>2
      <4>7. t + u + p <= t + w + v
        <5> HIDE DEF u, v, w, t
        <5> QED BY <3>1, <4>4, <4>5
      <4> QED BY <4>6, <4>7
    <3> QED BY <3>3, <3>4
  <2>9. f + y \in Nat  BY <1>1, <2>5
  <2> HIDE DEF x, f, l, y, n, p, b
  <2> QED BY <1>1, <1>2, <2>1, <2>2, <2>3, <2>5, <2>7, <2>8, <2>9 DEF x, f, l, b
<1> QED BY <1>4, <1>5

\* One class, over any step that updates its rate and settles what some of
\* its positions owe, o, for which it books paid.
LEMMA BorrowingClassStep ==
    ASSUME IndInv, BorrowingInv, NEW ms \in SUBSET Markets, NEW tvl \in Nat, UpdateRates(ms, tvl),
           now' = now, NEW c \in AssetClasses, NEW o \in Int, NEW paid \in Nat,
           RatePrecision * paid <= o, RatePrecision = 1 => paid = o,
           sumSettled'[c] = sumSettled[c] + paid,
           BorrowingOwed(c)'
             = (BorrowingOwed(c) + (sumRate'[c] - sumRate[c]) * classReserve[c]) - o
    PROVE  /\ lastBorrowTime'[c] <= now'
           /\ RatePrecision * sumSettled'[c] + BorrowingOwed(c)'
                <= RatePrecision * sumFee'[c] + (RatePrecision - 1) * lastBorrowTime'[c]
           /\ RatePrecision = 1 => sumFee'[c] = sumSettled'[c] + BorrowingOwed(c)'
<1> DEFINE q == RatePrecision
           w == BorrowingOwed(c)
           x == (sumRate'[c] - sumRate[c]) * classReserve[c]
           s == sumSettled[c]
           f == sumFee[c]
           f2 == sumFee'[c]
           l == lastBorrowTime[c]
           l2 == lastBorrowTime'[c]
<1>1. TypeOK  BY DEF IndInv
<1>2. /\ sumRate'[c] - sumRate[c] \in Nat /\ f2 \in Nat /\ l2 \in Nat /\ l2 <= now
      /\ q * f + (q - 1) * l + x <= q * f2 + (q - 1) * l2
      /\ q = 1 => f2 = f + x
  BY <1>1, BorrowRise
<1>3. q \in Nat /\ q # 0  BY NumbersAssumption
<1>4. /\ s \in Nat /\ f \in Nat /\ l \in Nat /\ classReserve[c] \in Nat
      /\ sumRate[c] \in Nat /\ reserve \in [PositionIds -> Int] /\ entryRate \in [PositionIds -> Int]
  BY <1>1 DEF TypeOK
<1>5. x \in Int  BY <1>2, <1>4
<1>6. w \in Int
  <2>1. sumRate[c] \in Int  BY <1>4
  <2> QED BY <1>4, <2>1, BorrowingOwedIs, OwedType
<1>7. q * s + w <= q * f + (q - 1) * l /\ (q = 1 => f = s + w)  BY DEF BorrowingInv
<1>8. sumSettled'[c] = s + paid /\ BorrowingOwed(c)' = (w + x) - o  OBVIOUS
<1> DEFINE A == q * s
           B == q * paid
           C == q * f
           E == (q - 1) * l
           F == q * f2
           G == (q - 1) * l2
<1>9. A \in Int /\ B \in Int /\ C \in Int /\ E \in Int /\ F \in Int /\ G \in Int
  BY <1>2, <1>3, <1>4
<1>10. q * (s + paid) = A + B  BY <1>3, <1>4
<1> HIDE DEF q, w, x, s, f, f2, l, l2
<1>11. A + B + ((w + x) - o) <= F + G
  <2>1. C + E + x <= F + G /\ A + w <= C + E /\ B <= o  BY <1>2, <1>7 DEF q
  <2> HIDE DEF A, B, C, E, F, G
  <2> QED BY <1>5, <1>6, <1>9, <2>1
<1>12. q = 1 => f2 = s + paid + ((w + x) - o)
  BY <1>2, <1>4, <1>5, <1>6, <1>7 DEF q
<1> QED BY <1>2, <1>8, <1>10, <1>11, <1>12 DEF q, l2, f2

LEMMA BorrowingTradeStep ==
    ASSUME IndInv, BorrowingInv, NEW id \in PositionIds, NEW s, NEW p, NEW r \in Nat,
           NEW rate \in Nat, NEW accrued, NEW tvl \in Nat,
           Traded(id, s, p, r, rate, accrued, tvl)
    PROVE  BorrowingInv'
<1> DEFINE k == ClassOf[id[2]]
           v == BorrowRateAt(k, tvl)
           due == reserve[id] * (v - entryRate[id])
<1>1. TypeOK /\ ReserveMatch /\ PositionsOK  BY DEF IndInv
<1>2. id[2] \in Markets /\ k \in AssetClasses /\ {id[2]} \in SUBSET Markets
  BY SetsAssumption DEF PositionIds
<1>3. /\ UpdateRates({id[2]}, tvl) /\ now' = now
      /\ sumSettled' = [sumSettled EXCEPT ![k] = @ + BorrowingFeeOf(id, tvl)]
      /\ reserve' = [reserve EXCEPT ![id] = r] /\ entryRate' = [entryRate EXCEPT ![id] = rate]
      /\ r # 0 => rate = v
  BY DEF Traded, SettleFees, StorePosition
<1>4. /\ reserve \in [PositionIds -> Int] /\ entryRate \in [PositionIds -> Int]
      /\ \A c \in AssetClasses : sumRate[c] \in Int /\ sumSettled[c] \in Nat
      /\ sumSettled \in [AssetClasses -> Nat]
  BY <1>1 DEF TypeOK
<1>5. sumRate' \in [AssetClasses -> Nat]  BY <1>1, <1>2, <1>3, RatesStep
<1>6. sumRate'[k] = v
  <2>1. k \in {ClassOf[m] : m \in {id[2]}}  OBVIOUS
  <2> QED BY <1>2, <1>3, <2>1 DEF UpdateRates
<1>7. due \in Nat /\ BorrowingFeeOf(id, tvl) = due \div RatePrecision
  <2>1. reserve[id] \in Nat /\ entryRate[id] \in Nat /\ sumRate[k] \in Nat /\ entryRate[id] <= sumRate[k]
    BY <1>1, <1>2 DEF TypeOK, PositionsOK
  <2>2. v \in Nat /\ sumRate[k] <= v  BY <1>1, <1>2, BorrowRateFacts
  <2>3. v - entryRate[id] \in Nat  BY <2>1, <2>2
  <2> QED BY <2>1, <2>3, ProductNat DEF BorrowingFeeOf
<1> HIDE DEF due
<1>8. /\ BorrowingFeeOf(id, tvl) \in Nat /\ RatePrecision * BorrowingFeeOf(id, tvl) <= due
      /\ RatePrecision = 1 => BorrowingFeeOf(id, tvl) = due
  BY <1>7, NumbersAssumption, DivBounds
<1>9. ASSUME NEW c \in AssetClasses
      PROVE  /\ lastBorrowTime'[c] <= now'
             /\ RatePrecision * sumSettled'[c] + BorrowingOwed(c)'
                  <= RatePrecision * sumFee'[c] + (RatePrecision - 1) * lastBorrowTime'[c]
             /\ RatePrecision = 1 => sumFee'[c] = sumSettled'[c] + BorrowingOwed(c)'
  <2> DEFINE o == IF c = k THEN due ELSE 0
             paid == IF c = k THEN BorrowingFeeOf(id, tvl) ELSE 0
             D == ClassIds(c)
             g == sumRate'[c]
  <2>1. o \in Int /\ paid \in Nat  BY <1>7, <1>8
  <2>2. RatePrecision * paid <= o /\ (RatePrecision = 1 => paid = o)
    BY <1>8, NumbersAssumption
  <2>3. sumSettled'[c] = sumSettled[c] + paid  BY <1>3, <1>4
  <2>4. BorrowingOwed(c)' = (BorrowingOwed(c) + (sumRate'[c] - sumRate[c]) * classReserve[c]) - o
    <3>1. g \in Int /\ sumRate[c] \in Int  BY <1>4, <1>5
    <3>2. id \in D <=> c = k  BY DEF ClassIds
    <3> DEFINE T == Owed(reserve, entryRate, g, D)
               T0 == Owed(reserve, entryRate, sumRate[c], D)
               T2 == Owed(reserve', entryRate', g, D)
    <3>3. SumFunction(T) \in Int /\ SumFunction(T0) \in Int
      <4> HIDE DEF g, D
      <4> QED BY <1>4, <3>1, OwedType
    <3>4. SumFunction(T2) = SumFunction(T) - o
      <4>1. CASE c = k
        <5>1. /\ \A z \in PositionIds : z # id => reserve'[z] = reserve[z] /\ entryRate'[z] = entryRate[z]
              /\ reserve'[id] # 0 => entryRate'[id] = g
              /\ reserve' \in [PositionIds -> Int] /\ entryRate' \in [PositionIds -> Int]
          BY <1>3, <1>4, <1>6, <4>1
        <5>2. T[id] = o  BY <1>6, <3>2, <4>1 DEF Owed, due
        <5> HIDE DEF g, D, o
        <5>3. SumFunction(T2) = SumFunction(T) - T[id]
          BY <1>4, <3>1, <5>1, OwedTouch
        <5> QED BY <5>2, <5>3
      <4>2. CASE c # k
        <5>1. id \notin D  BY <3>2, <4>2
        <5>2. T2 = T  BY <1>3, <1>4, <5>1 DEF Owed
        <5>3. o = 0  BY <4>2
        <5> HIDE DEF T, T2, o
        <5> QED BY <3>3, <5>2, <5>3
      <4> QED BY <4>1, <4>2
    <3>5. SumFunction(Owed(reserve, entryRate, g, D))
            = SumFunction(Owed(reserve, entryRate, sumRate[c], D))
                + (g - sumRate[c]) * SumFunction(On(reserve, D))
      <4> HIDE DEF g, D
      <4> QED BY <1>4, <3>1, OwedRise
    <3>6. SumFunction(On(reserve, D)) = classReserve[c]  BY <1>1, ClassWeight
    <3>7. BorrowingOwed(c)' = SumFunction(T2)  BY BorrowingOwedNext
    <3>8. BorrowingOwed(c) = SumFunction(T0)  BY BorrowingOwedIs
    <3>9. SumFunction(T) = SumFunction(T0) + (sumRate'[c] - sumRate[c]) * classReserve[c]
      BY <3>5, <3>6
    <3> HIDE DEF T, T0, T2, o
    <3> QED BY <3>4, <3>7, <3>8, <3>9
  <2> HIDE DEF o, paid
  <2> QED BY <1>2, <1>3, <2>1, <2>2, <2>3, <2>4, BorrowingClassStep
<1> QED BY <1>9 DEF BorrowingInv

\* A sum of quotients, times the divisor, is at most the sum of what was
\* divided.
LEMMA SumOfQuotients ==
    ASSUME NEW S, IsFiniteSet(S), NEW f \in [S -> Nat], NEW g \in [S -> Nat], NEW q \in Nat,
           \A x \in S : q * f[x] <= g[x]
    PROVE  q * SumFunction(f) <= SumFunction(g)
<1> DEFINE e == [x \in S |-> g[x] - q * f[x]]
           k == -q
<1>1. f \in [S -> Int] /\ g \in [S -> Int] /\ k \in Int  OBVIOUS
<1>2. ASSUME NEW x \in S PROVE g[x] - q * f[x] \in Nat /\ g[x] - q * f[x] = g[x] + k * f[x]
  <2>1. f[x] \in Nat /\ g[x] \in Nat /\ q * f[x] <= g[x]  OBVIOUS
  <2>2. q * f[x] \in Nat /\ k * f[x] = -(q * f[x])  BY <2>1, ProductNat
  <2> HIDE DEF k
  <2> QED BY <2>1, <2>2
<1>3. e \in [S -> Nat] /\ e \in [S -> Int]  BY <1>2
<1>4. \A x \in S : e[x] = g[x] + k * f[x]  BY <1>2
<1> HIDE DEF e
<1>5. SumFunction(e) = SumFunction(g) + k * SumFunction(f)
  BY <1>1, <1>3, <1>4, SumFunctionLinear
<1>6. SumFunction(e) \in Nat  BY <1>3, SumFunctionNat
<1>7. SumFunction(f) \in Int /\ SumFunction(g) \in Int  BY <1>1, SumFunctionInt
<1>8. k * SumFunction(f) = -(q * SumFunction(f)) /\ q * SumFunction(f) \in Int  BY <1>7
<1> HIDE DEF k
<1> QED BY <1>5, <1>6, <1>7, <1>8

LEMMA BorrowingLiquidateStep ==
    ASSUME IndInv, BorrowingInv, NEW a \in Accounts, NEW tvl \in PoolValues, Liquidate(a, tvl)
    PROVE  BorrowingInv'
<1> DEFINE ms == {positionIds[a][i] : i \in 1..Len(positionIds[a])}
           fee == [id \in PositionIds |-> BorrowingFeeOf(id, tvl)]
           due(id) == reserve[id] * (BorrowRateAt(ClassOf[id[2]], tvl) - entryRate[id])
<1>1. TypeOK /\ ReserveMatch /\ PositionsOK  BY DEF IndInv
<1>2. ms \in SUBSET Markets /\ tvl \in Nat  BY <1>1, LiquidatedMarkets, SetsAssumption
<1>3. /\ UpdateRates(ms, tvl) /\ now' = now
      /\ sumSettled' = [c \in AssetClasses |-> sumSettled[c] + SumInClass(fee, a, ms, c)]
      /\ reserve' = Cleared(reserve, a, ms) /\ entryRate' = Cleared(entryRate, a, ms)
  BY DEF Liquidate
<1> HIDE DEF ms
<1>4. /\ reserve \in [PositionIds -> Int] /\ entryRate \in [PositionIds -> Int]
      /\ \A c \in AssetClasses : sumRate[c] \in Int
  BY <1>1 DEF TypeOK
<1>5. sumRate' \in [AssetClasses -> Nat]  BY <1>1, <1>2, <1>3, RatesStep
<1>6. ASSUME NEW id \in PositionIds
      PROVE  /\ due(id) \in Nat /\ fee[id] \in Nat /\ RatePrecision * fee[id] <= due(id)
             /\ RatePrecision = 1 => fee[id] = due(id)
  <2> DEFINE k == ClassOf[id[2]]
             v == BorrowRateAt(k, tvl)
             d == due(id)
  <2>1. id[2] \in Markets /\ k \in AssetClasses  BY SetsAssumption DEF PositionIds
  <2>2. reserve[id] \in Nat /\ entryRate[id] \in Nat /\ sumRate[k] \in Nat /\ entryRate[id] <= sumRate[k]
    BY <1>1, <2>1 DEF TypeOK, PositionsOK
  <2>3. v \in Nat /\ sumRate[k] <= v  BY <1>1, <1>2, <2>1, BorrowRateFacts
  <2>4. v - entryRate[id] \in Nat  BY <2>2, <2>3
  <2>5. d \in Nat  BY <2>2, <2>4, ProductNat
  <2>6. fee[id] = d \div RatePrecision  BY DEF BorrowingFeeOf
  <2> HIDE DEF d, fee
  <2>7. /\ d \in Nat /\ fee[id] \in Nat /\ RatePrecision * fee[id] <= d
        /\ RatePrecision = 1 => fee[id] = d
    BY <2>5, <2>6, NumbersAssumption, DivBounds
  <2> QED BY <2>7 DEF d
<1> HIDE DEF fee, due
<1>7. ASSUME NEW c \in AssetClasses
      PROVE  /\ lastBorrowTime'[c] <= now'
             /\ RatePrecision * sumSettled'[c] + BorrowingOwed(c)'
                  <= RatePrecision * sumFee'[c] + (RatePrecision - 1) * lastBorrowTime'[c]
             /\ RatePrecision = 1 => sumFee'[c] = sumSettled'[c] + BorrowingOwed(c)'
  <2> DEFINE D == ClassIds(c)
             g == sumRate'[c]
             T == Owed(reserve, entryRate, g, D)
             T0 == Owed(reserve, entryRate, sumRate[c], D)
             T2 == Owed(reserve', entryRate', g, D)
             F == [m \in Markets |-> IF m \in ms /\ ClassOf[m] = c THEN fee[<<a, m>>] ELSE 0]
             G == [m \in Markets |-> IF m \in ms THEN T[<<a, m>>] ELSE 0]
             o == SumFunction(G)
             paid == SumFunction(F)
  <2>1. g \in Int /\ sumRate[c] \in Int  BY <1>4, <1>5
  <2>2. ASSUME NEW m \in Markets
        PROVE  /\ F[m] \in Nat /\ G[m] \in Nat /\ RatePrecision * F[m] <= G[m]
               /\ RatePrecision = 1 => F[m] = G[m]
    <3>1. <<a, m>> \in PositionIds /\ <<a, m>>[2] = m  BY DEF PositionIds
    <3>2. CASE m \in ms /\ ClassOf[m] = c
      <4>1. g = BorrowRateAt(c, tvl)
        <5>1. c \in {ClassOf[x] : x \in ms}  BY <3>2
        <5> QED BY <1>3, <5>1 DEF UpdateRates
      <4>2. <<a, m>> \in D  BY <3>1, <3>2 DEF ClassIds
      <4>3. T[<<a, m>>] = due(<<a, m>>)  BY <3>1, <3>2, <4>1, <4>2 DEF Owed, due
      <4>4. F[m] = fee[<<a, m>>] /\ G[m] = due(<<a, m>>)  BY <3>2, <4>3
      <4> HIDE DEF F, G
      <4> QED BY <1>6, <3>1, <4>4
    <3>3. CASE ~(m \in ms /\ ClassOf[m] = c)
      <4>1. F[m] = 0  BY <3>3
      <4>2. G[m] = 0
        <5>1. CASE m \in ms
          <6>1. <<a, m>> \notin D  BY <3>1, <3>3, <5>1 DEF ClassIds
          <6> QED BY <3>1, <5>1, <6>1 DEF Owed
        <5>2. CASE m \notin ms  BY <5>2
        <5> QED BY <5>1, <5>2
      <4> HIDE DEF F, G
      <4> QED BY <4>1, <4>2, NumbersAssumption
    <3> QED BY <3>2, <3>3
  <2>3. F \in [Markets -> Nat] /\ G \in [Markets -> Nat] /\ G \in [Markets -> Int]
    <3>1. F = [m \in Markets |-> F[m]] /\ G = [m \in Markets |-> G[m]]  OBVIOUS
    <3> HIDE DEF F, G
    <3> QED BY <2>2, <3>1
  <2>4. o \in Int /\ paid \in Nat /\ RatePrecision * paid <= o
    <3> HIDE DEF F, G
    <3>1. SumFunction(F) \in Nat /\ SumFunction(G) \in Int
      BY <2>3, SetsAssumption, SumFunctionNat, SumFunctionInt
    <3>2. RatePrecision \in Nat  BY NumbersAssumption
    <3>3. RatePrecision * SumFunction(F) <= SumFunction(G)
      BY <2>2, <2>3, <3>2, SetsAssumption, SumOfQuotients
    <3> QED BY <3>1, <3>3
  <2>5. RatePrecision = 1 => paid = o
    <3>1. ASSUME RatePrecision = 1 PROVE F = G
      <4>1. \A m \in Markets : F[m] = G[m]  BY <2>2, <3>1
      <4> HIDE DEF F, G
      <4> QED BY <2>3, <4>1
    <3> HIDE DEF F, G
    <3> QED BY <3>1
  <2>6. sumSettled'[c] = sumSettled[c] + paid  BY <1>3 DEF SumInClass
  <2>7. BorrowingOwed(c)' = (BorrowingOwed(c) + (sumRate'[c] - sumRate[c]) * classReserve[c]) - o
    <3>1. SumFunction(T2) = SumFunction(T) - o
      <4> HIDE DEF g, D
      <4>1. SumFunction(Owed(Cleared(reserve, a, ms), Cleared(entryRate, a, ms), g, D))
              = SumFunction(T) - o
        BY <1>2, <1>4, <2>1, OwedClear
      <4> QED BY <1>3, <4>1
    <3>2. SumFunction(T) = SumFunction(T0) + (g - sumRate[c]) * SumFunction(On(reserve, D))
      <4> HIDE DEF g, D
      <4> QED BY <1>4, <2>1, OwedRise
    <3>3. SumFunction(On(reserve, D)) = classReserve[c]  BY <1>1, ClassWeight
    <3>4. BorrowingOwed(c)' = SumFunction(T2)  BY BorrowingOwedNext
    <3>5. BorrowingOwed(c) = SumFunction(T0)  BY BorrowingOwedIs
    <3>6. SumFunction(T) = SumFunction(T0) + (sumRate'[c] - sumRate[c]) * classReserve[c]
      BY <3>2, <3>3
    <3> HIDE DEF T, T0, T2, o
    <3> QED BY <3>1, <3>4, <3>5, <3>6
  <2> HIDE DEF o, paid
  <2> QED BY <1>2, <1>3, <2>4, <2>5, <2>6, <2>7, BorrowingClassStep
<1> QED BY <1>7 DEF BorrowingInv

LEMMA BorrowingInit == Init => BorrowingInv
<1> SUFFICES ASSUME Init, NEW c \in AssetClasses
             PROVE  /\ lastBorrowTime[c] <= now
                    /\ RatePrecision * sumSettled[c] + BorrowingOwed(c)
                         <= RatePrecision * sumFee[c] + (RatePrecision - 1) * lastBorrowTime[c]
                    /\ RatePrecision = 1 => sumFee[c] = sumSettled[c] + BorrowingOwed(c)
  BY DEF BorrowingInv
<1> DEFINE T == Owed(reserve, entryRate, sumRate[c], ClassIds(c))
<1>1. /\ lastBorrowTime[c] = 0 /\ sumSettled[c] = 0 /\ sumFee[c] = 0 /\ sumRate[c] = 0
      /\ now = FundingInterval
  BY DEF Init
<1>2. \A id \in PositionIds : reserve[id] = 0 /\ entryRate[id] = 0  BY DEF Init
<1>3. T \in [PositionIds -> Int] /\ \A id \in PositionIds : T[id] = 0
  <2>1. 0 * (0 - 0) = 0  OBVIOUS
  <2>2. \A id \in PositionIds : T[id] = 0  BY <1>1, <1>2, <2>1 DEF Owed
  <2> QED BY <2>2 DEF Owed
<1>4. SumFunction(T) = 0
  <2> HIDE DEF T
  <2> QED BY <1>3, PositionIdsFinite, SumFunctionZero
<1>5. BorrowingOwed(c) = 0  BY <1>4, BorrowingOwedIs
<1> QED BY <1>1, <1>5, NumbersAssumption

LEMMA BorrowingStutter ==
    ASSUME TypeOK, BorrowingInv, UNCHANGED <<positionVars, classVars>>, now' = now \/ now' = now + 1
    PROVE  BorrowingInv'
<1> SUFFICES ASSUME NEW c \in AssetClasses
             PROVE  /\ lastBorrowTime'[c] <= now'
                    /\ RatePrecision * sumSettled'[c] + BorrowingOwed(c)'
                         <= RatePrecision * sumFee'[c] + (RatePrecision - 1) * lastBorrowTime'[c]
                    /\ RatePrecision = 1 => sumFee'[c] = sumSettled'[c] + BorrowingOwed(c)'
  BY DEF BorrowingInv
<1>1. BorrowingOwed(c)' = BorrowingOwed(c)
  <2>1. reserve' = reserve /\ entryRate' = entryRate /\ sumRate' = sumRate
    BY DEF positionVars, classVars
  <2> QED BY <2>1, BorrowingOwedIs, BorrowingOwedNext
<1>2. now \in Nat /\ lastBorrowTime[c] \in Nat  BY DEF TypeOK
<1>3. lastBorrowTime' = lastBorrowTime /\ sumSettled' = sumSettled /\ sumFee' = sumFee
  BY DEF classVars
<1> QED BY <1>1, <1>2, <1>3 DEF BorrowingInv

LEMMA BorrowingNext == IndInv /\ BorrowingInv /\ [Next]_vars => BorrowingInv'
<1> SUFFICES ASSUME IndInv, BorrowingInv, [Next]_vars PROVE BorrowingInv'
  OBVIOUS
<1>1. TypeOK  BY DEF IndInv
<1>2. CASE Tick  BY <1>1, <1>2, BorrowingStutter DEF Tick
<1>3. ASSUME NEW a \in Accounts, NEW m \in Markets, NEW tvl \in PoolValues,
             \E s \in Int, x \in Nat, r \in Nat, rate \in Nat, accrued \in Int :
                 Traded(<<a, m>>, s, x, r, rate, accrued, tvl)
      PROVE  BorrowingInv'
  <2> DEFINE id == <<a, m>>
  <2>1. id \in PositionIds /\ tvl \in Nat  BY SetsAssumption DEF PositionIds
  <2> HIDE DEF id
  <2>2. PICK s \in Int, x \in Nat, r \in Nat, rate \in Nat, accrued \in Int :
            Traded(id, s, x, r, rate, accrued, tvl)
    BY <1>3 DEF id
  <2> QED BY <2>1, <2>2, BorrowingTradeStep
<1>4. ASSUME NEW a \in Accounts, NEW m \in Markets, NEW p \in Prices, NEW tvl \in PoolValues,
             NEW s \in SizeDeltas, NEW tvlMax \in PoolValues,
             IncreasePosition(a, m, s, p, tvl, tvlMax) \/ IncreasePosition(a, m, -s, p, tvl, tvlMax)
      PROVE  BorrowingInv'
  BY <1>1, <1>3, <1>4, IncreaseIsTradeEither
<1>5. ASSUME NEW a \in Accounts, NEW m \in Markets, NEW p \in Prices, NEW tvl \in PoolValues,
             NEW q \in 0..MaxMarketSize, DecreasePosition(a, m, q, p, tvl)
      PROVE  BorrowingInv'
  <2>1. q \in Nat  BY NumbersAssumption
  <2> QED BY <1>1, <1>3, <1>5, <2>1, DecreaseIsTrade
<1>6. ASSUME NEW a \in Accounts, NEW tvl \in PoolValues, Liquidate(a, tvl)
      PROVE  BorrowingInv'
  BY <1>6, BorrowingLiquidateStep
<1>7. CASE UNCHANGED vars  BY <1>1, <1>7, BorrowingStutter DEF vars
<1> QED BY <1>2, <1>4, <1>5, <1>6, <1>7 DEF Next

\* The fees settled and still owed of a class never run ahead of those it
\* accumulated by more than one unit of rounding per unit of time.
THEOREM NeverOverSettled == Spec => []BorrowingNotOverSettled
<1>1. IndInv /\ BorrowingInv => BorrowingNotOverSettled
  <2> SUFFICES ASSUME IndInv, BorrowingInv, NEW c \in AssetClasses
               PROVE  /\ \A id \in PositionIds : ClassOf[id[2]] = c => entryRate[id] <= sumRate[c]
                      /\ RatePrecision * sumSettled[c] + BorrowingOwed(c)
                            <= RatePrecision * sumFee[c] + (RatePrecision - 1) * now
    BY DEF BorrowingNotOverSettled
  <2>1. \A id \in PositionIds : ClassOf[id[2]] = c => entryRate[id] <= sumRate[c]
    BY DEF IndInv, PositionsOK
  <2> DEFINE q == RatePrecision
             A == q * sumSettled[c] + BorrowingOwed(c)
             B == q * sumFee[c]
             l == lastBorrowTime[c]
  <2>2. q \in Nat /\ q >= 1  BY NumbersAssumption
  <2>3. /\ now \in Nat /\ l \in Nat /\ sumFee[c] \in Nat /\ sumSettled[c] \in Nat
        /\ sumRate[c] \in Int /\ reserve \in [PositionIds -> Int]
        /\ entryRate \in [PositionIds -> Int]
    BY DEF IndInv, TypeOK
  <2>4. BorrowingOwed(c) \in Int  BY <2>3, BorrowingOwedIs, OwedType
  <2>5. l <= now /\ A <= B + (q - 1) * l  BY DEF BorrowingInv
  <2>6. A \in Int /\ B \in Int  BY <2>2, <2>3, <2>4
  <2> HIDE DEF q, A, B, l
  <2>7. (q - 1) * now = (q - 1) * l + (q - 1) * (now - l) /\ (q - 1) * (now - l) \in Nat
    <3>1. q - 1 \in Nat /\ now - l \in Nat  BY <2>2, <2>3, <2>5
    <3> QED BY <2>2, <2>3, <3>1, ProductNat
  <2>8. (q - 1) * l \in Int /\ (q - 1) * now \in Int  BY <2>2, <2>3
  <2>9. A <= B + (q - 1) * now  BY <2>5, <2>6, <2>7, <2>8
  <2> QED BY <2>1, <2>9 DEF A, B, q
<1> QED BY <1>1, InitStep, NextStep, BorrowingInit, BorrowingNext, PTL DEF Spec

\* Without rounding nothing is lost either: what a class accumulated is
\* settled or still owed.
THEOREM FeesBalance == Spec => []BorrowingFeesBalance
<1>1. BorrowingInv => BorrowingFeesBalance  BY DEF BorrowingInv, BorrowingFeesBalance
<1> QED BY <1>1, InitStep, NextStep, BorrowingInit, BorrowingNext, PTL DEF Spec

-----------------------------------------------------------------------------
(***************************************************************************)
(* Funding. What the long (short) positions of a market owe at its accrued *)
(* funding is what accumFundingLong (minus accumFundingShort) holds.       *)
(***************************************************************************)
FundingInv ==
    RatePrecision = 1 =>
        \A m \in Markets :
            /\ accumLong[m] = SumFunction(Owed(Longs, lastAccrued, fundingAccrued[m], MarketIds(m)))
            /\ accumShort[m] = -SumFunction(Owed(Shorts, lastAccrued, fundingAccrued[m], MarketIds(m)))

LEMMA ExactFundingFee ==
    ASSUME RatePrecision = 1, NEW s \in Int, NEW x \in Int, NEW y \in Int
    PROVE  FundingFee(s, x, y) = s * (x - y)
<1> DEFINE z == s * (x - y)
<1>1. z \in Int  OBVIOUS
<1>2. TDiv(z, 1) = z
  <2> HIDE DEF z
  <2> QED BY <1>1 DEF TDiv
<1> QED BY <1>2 DEF FundingFee

LEMMA FundingInvMatch ==
    ASSUME TypeOK, PositionsOK, FundingInv
    PROVE  FundingMatch
<1> SUFFICES ASSUME RatePrecision = 1, NEW m \in Markets
             PROVE  LET Due(s) == [id \in PositionIds |->
                                     FundingFee(s[id], fundingAccrued[m], lastAccrued[id])] IN
                    /\ accumLong[m] = SumFunction(OfMarket(Due(Longs), m))
                    /\ accumShort[m] = -SumFunction(OfMarket(Due(Shorts), m))
  BY DEF FundingMatch
<1> DEFINE Due(s) == [id \in PositionIds |-> FundingFee(s[id], fundingAccrued[m], lastAccrued[id])]
<1>1. fundingAccrued[m] \in Int /\ lastAccrued \in [PositionIds -> Int]  BY DEF TypeOK
<1>2. Longs \in [PositionIds -> Int] /\ Shorts \in [PositionIds -> Int]  BY ViewTypes
<1>3. ASSUME NEW s \in [PositionIds -> Int]
      PROVE  OfMarket(Due(s), m) = Owed(s, lastAccrued, fundingAccrued[m], MarketIds(m))
  <2>1. \A id \in PositionIds :
          FundingFee(s[id], fundingAccrued[m], lastAccrued[id]) = s[id] * (fundingAccrued[m] - lastAccrued[id])
    BY <1>1, ExactFundingFee
  <2> QED BY <2>1 DEF OfMarket, Owed, MarketIds
<1> HIDE DEF Due
<1>4. /\ accumLong[m] = SumFunction(OfMarket(Due(Longs), m))
      /\ accumShort[m] = -SumFunction(OfMarket(Due(Shorts), m))
  BY <1>2, <1>3 DEF FundingInv
<1> QED BY <1>4 DEF Due

\* The open interest of a side weighs what it owes.
LEMMA MarketWeights ==
    ASSUME MarketSizesMatch, NEW m \in Markets
    PROVE  /\ SumFunction(On(Longs, MarketIds(m))) = longSize[m]
           /\ SumFunction(On(Shorts, MarketIds(m))) = shortSize[m]
<1>1. OfMarket(Longs, m) = On(Longs, MarketIds(m)) /\ OfMarket(Shorts, m) = On(Shorts, MarketIds(m))
  BY DEF OfMarket, On, MarketIds
<1> QED BY <1>1 DEF MarketSizesMatch

\* One side of a market whose accrued funding goes to g while the position
\* id of that market is touched.
LEMMA SideStep ==
    ASSUME NEW w \in [PositionIds -> Int], NEW e \in [PositionIds -> Int],
           NEW w2 \in [PositionIds -> Int], NEW e2 \in [PositionIds -> Int],
           NEW g0 \in Int, NEW g \in Int, NEW m \in Markets, NEW id \in MarketIds(m),
           \A z \in MarketIds(m) : z # id => w2[z] = w[z] /\ e2[z] = e[z],
           w2[id] # 0 => e2[id] = g
    PROVE  SumFunction(Owed(w2, e2, g, MarketIds(m)))
             = SumFunction(Owed(w, e, g0, MarketIds(m)))
                 + ((g - g0) * SumFunction(On(w, MarketIds(m))) - w[id] * (g - e[id]))
<1> DEFINE D == MarketIds(m)
           w3 == [z \in PositionIds |-> IF z \in D THEN w2[z] ELSE w[z]]
           e3 == [z \in PositionIds |-> IF z \in D THEN e2[z] ELSE e[z]]
           T == Owed(w, e, g, D)
           T0 == Owed(w, e, g0, D)
           T2 == Owed(w2, e2, g, D)
           T3 == Owed(w3, e3, g, D)
<1>1. id \in PositionIds /\ id \in D  BY DEF MarketIds
<1>2. w3 \in [PositionIds -> Int] /\ e3 \in [PositionIds -> Int]  OBVIOUS
<1>3. /\ \A z \in PositionIds : z # id => w3[z] = w[z] /\ e3[z] = e[z]
      /\ w3[id] # 0 => e3[id] = g
  BY <1>1
<1>4. T2 = T3  BY DEF Owed
<1>5. T[id] = w[id] * (g - e[id])  BY <1>1 DEF Owed
<1> HIDE DEF D, w3, e3
<1>6. SumFunction(T3) = SumFunction(T) - T[id]  BY <1>1, <1>2, <1>3, OwedTouch
<1>7. SumFunction(T) = SumFunction(T0) + (g - g0) * SumFunction(On(w, D))  BY OwedRise
<1>8. /\ SumFunction(T) \in Int /\ SumFunction(T0) \in Int  BY OwedType
<1> DEFINE x == (g - g0) * SumFunction(On(w, D))
           y == w[id] * (g - e[id])
           S == SumFunction(T)
           S0 == SumFunction(T0)
           S2 == SumFunction(T2)
<1>9. x \in Int /\ y \in Int
  <2>1. On(w, D) \in [PositionIds -> Int]  BY DEF On
  <2>2. SumFunction(On(w, D)) \in Int  BY <2>1, PositionIdsFinite, SumFunctionInt
  <2>3. w[id] \in Int /\ e[id] \in Int  BY <1>1
  <2> QED BY <2>2, <2>3
<1>10. S2 = S - y /\ S = S0 + x /\ S \in Int /\ S0 \in Int  BY <1>4, <1>5, <1>6, <1>7, <1>8
<1> HIDE DEF x, y, S, S0, S2
<1>11. S2 = S0 + (x - y)  BY <1>9, <1>10
<1> QED BY <1>11 DEF x, y, S, S0, S2, T0, T2, D

\* A market none of whose positions changes.
LEMMA SideSame ==
    ASSUME NEW w, NEW e, NEW w2, NEW e2, NEW g, NEW m \in Markets,
           \A z \in MarketIds(m) : w2[z] = w[z] /\ e2[z] = e[z]
    PROVE  Owed(w2, e2, g, MarketIds(m)) = Owed(w, e, g, MarketIds(m))
BY DEF Owed

LEMMA LongsNext ==
    /\ Longs' = [z \in PositionIds |-> LongPart(size'[z])]
    /\ Shorts' = [z \in PositionIds |-> ShortPart(size'[z])]
BY DEF Longs, Shorts, LongPart, ShortPart, PositionIds

\* One market, when its position id is touched: shared by a trade and by
\* each turn of a liquidation.
LEMMA FundingMarketStep ==
    ASSUME TypeOK, PositionsOK, MarketSizesMatch, FundingInv, RatePrecision = 1,
           NEW m \in Markets, NEW id \in MarketIds(m),
           size' \in [PositionIds -> Int], lastAccrued' \in [PositionIds -> Int],
           fundingAccrued'[m] = AccruedAt(m),
           \A z \in MarketIds(m) : z # id => size'[z] = size[z] /\ lastAccrued'[z] = lastAccrued[z],
           size'[id] # 0 => lastAccrued'[id] = AccruedAt(m),
           accumLong'[m] = AccumLongAt(m) - IF size[id] > 0 THEN FundingFeeOf(id) ELSE 0,
           accumShort'[m] = AccumShortAt(m) - IF size[id] > 0 THEN 0 ELSE FundingFeeOf(id)
    PROVE  /\ accumLong'[m] = SumFunction(Owed(Longs', lastAccrued', fundingAccrued'[m], MarketIds(m)))
           /\ accumShort'[m] = -SumFunction(Owed(Shorts', lastAccrued', fundingAccrued'[m], MarketIds(m)))
<1> DEFINE g0 == fundingAccrued[m]
           g == AccruedAt(m)
           D == MarketIds(m)
           L == SumFunction(Owed(Longs, lastAccrued, g0, D))
           H == SumFunction(Owed(Shorts, lastAccrued, g0, D))
           e == lastAccrued[id]
<1>1. id \in PositionIds /\ id[2] = m  BY DEF MarketIds
<1>2. g0 \in Int /\ g \in Int /\ longSize[m] \in Int /\ shortSize[m] \in Int
  <2>1. g \in Int  BY FundingFacts
  <2>2. fundingAccrued[m] \in Int /\ longSize[m] \in Int /\ shortSize[m] \in Int  BY DEF TypeOK
  <2> QED BY <2>1, <2>2
<1>3. /\ lastAccrued \in [PositionIds -> Int] /\ size \in [PositionIds -> Int]
      /\ e \in Int /\ size[id] \in Int
  BY <1>1 DEF TypeOK
<1>4. Longs \in [PositionIds -> Int] /\ Shorts \in [PositionIds -> Int]  BY ViewTypes
<1>5. /\ \A z \in PositionIds : Longs[z] = LongPart(size[z]) /\ Shorts[z] = ShortPart(size[z])
      /\ \A z \in PositionIds : Longs'[z] = LongPart(size'[z]) /\ Shorts'[z] = ShortPart(size'[z])
  BY LongsNext DEF Longs, Shorts
<1>6. Longs' \in [PositionIds -> Int] /\ Shorts' \in [PositionIds -> Int]
  BY LongsNext DEF LongPart, ShortPart
<1>7. /\ \A z \in D : z # id => /\ Longs'[z] = Longs[z] /\ Shorts'[z] = Shorts[z]
                                /\ lastAccrued'[z] = lastAccrued[z]
      /\ Longs'[id] # 0 => lastAccrued'[id] = g
      /\ Shorts'[id] # 0 => lastAccrued'[id] = g
  <2>1. \A z \in D : z \in PositionIds  BY DEF MarketIds
  <2>2. LongPart(0) = 0 /\ ShortPart(0) = 0  BY DEF LongPart, ShortPart
  <2> QED BY <1>1, <1>5, <2>1, <2>2
<1>8. /\ L \in Int /\ H \in Int /\ accumLong[m] = L /\ accumShort[m] = -H
  BY <1>2, <1>3, <1>4, OwedType DEF FundingInv
<1>9. /\ SumFunction(Owed(Longs', lastAccrued', g, D))
           = L + ((g - g0) * longSize[m] - Longs[id] * (g - e))
      /\ SumFunction(Owed(Shorts', lastAccrued', g, D))
           = H + ((g - g0) * shortSize[m] - Shorts[id] * (g - e))
  <2>1. /\ SumFunction(On(Longs, D)) = longSize[m] /\ SumFunction(On(Shorts, D)) = shortSize[m]
    BY MarketWeights
  <2> HIDE DEF g, g0
  <2>4. ASSUME NEW w \in [PositionIds -> Int], NEW w2 \in [PositionIds -> Int],
               \A z \in D : z # id => w2[z] = w[z], w2[id] # 0 => lastAccrued'[id] = g
        PROVE  SumFunction(Owed(w2, lastAccrued', g, D))
                 = SumFunction(Owed(w, lastAccrued, g0, D))
                     + ((g - g0) * SumFunction(On(w, D)) - w[id] * (g - lastAccrued[id]))
    <3> DEFINE e1 == lastAccrued
               e2 == lastAccrued'
    <3>1. e1 \in [PositionIds -> Int] /\ e2 \in [PositionIds -> Int]  BY <1>3
    <3>2. \A z \in MarketIds(m) : z # id => w2[z] = w[z] /\ e2[z] = e1[z]
      BY <1>7, <2>4
    <3>3. w2[id] # 0 => e2[id] = g  BY <2>4
    <3> HIDE DEF e1, e2
    <3>4. SumFunction(Owed(w2, e2, g, MarketIds(m)))
            = SumFunction(Owed(w, e1, g0, MarketIds(m)))
                + ((g - g0) * SumFunction(On(w, MarketIds(m))) - w[id] * (g - e1[id]))
      BY <1>2, <2>4, <3>1, <3>2, <3>3, SideStep
    <3> QED BY <3>4 DEF e1, e2
  <2> HIDE DEF D
  <2>2. SumFunction(Owed(Longs', lastAccrued', g, MarketIds(m)))
          = SumFunction(Owed(Longs, lastAccrued, g0, MarketIds(m)))
              + ((g - g0) * SumFunction(On(Longs, MarketIds(m))) - Longs[id] * (g - lastAccrued[id]))
    BY <1>4, <1>6, <1>7, <2>4 DEF D
  <2>3. SumFunction(Owed(Shorts', lastAccrued', g, MarketIds(m)))
          = SumFunction(Owed(Shorts, lastAccrued, g0, MarketIds(m)))
              + ((g - g0) * SumFunction(On(Shorts, MarketIds(m))) - Shorts[id] * (g - lastAccrued[id]))
    BY <1>4, <1>6, <1>7, <2>4 DEF D
  <2> QED BY <2>1, <2>2, <2>3 DEF D
<1>10. /\ AccumLongAt(m) = L + longSize[m] * (g - g0)
       /\ AccumShortAt(m) = -H + (-shortSize[m]) * (g - g0)
       /\ FundingFeeOf(id) = size[id] * (g - e)
  <2> DEFINE h == -shortSize[m]
  <2>1. FundingFee(longSize[m], g, g0) = longSize[m] * (g - g0)  BY <1>2, ExactFundingFee
  <2>2. FundingFee(h, g, g0) = h * (g - g0)
    <3>1. h \in Int  BY <1>2
    <3> HIDE DEF h, g, g0
    <3> QED BY <1>2, <3>1, ExactFundingFee
  <2>3. FundingFee(size[id], g, e) = size[id] * (g - e)  BY <1>2, <1>3, ExactFundingFee
  <2> QED BY <1>1, <1>8, <2>1, <2>2, <2>3 DEF AccumLongAt, AccumShortAt, FundingFeeOf
<1> DEFINE d == g - g0
           f == g - e
           z == size[id]
           ls == longSize[m]
           hs == shortSize[m]
           X == SumFunction(Owed(Longs', lastAccrued', g, D))
           Y == SumFunction(Owed(Shorts', lastAccrued', g, D))
<1>11. /\ d \in Int /\ f \in Int /\ z \in Int /\ ls \in Int /\ hs \in Int /\ L \in Int /\ H \in Int
  BY <1>2, <1>3, <1>8
<1>12. Longs[id] = LongPart(z) /\ Shorts[id] = ShortPart(z)  BY <1>1, <1>5
<1>13. /\ X = L + (d * ls - LongPart(z) * f) /\ Y = H + (d * hs - ShortPart(z) * f)
       /\ accumLong'[m] = (L + ls * d) - IF z > 0 THEN z * f ELSE 0
       /\ accumShort'[m] = (-H + (-hs) * d) - IF z > 0 THEN 0 ELSE z * f
  BY <1>9, <1>10, <1>12
<1> HIDE DEF d, f, z, ls, hs, X, Y, L, H
<1>14. accumLong'[m] = X /\ accumShort'[m] = -Y
  <2>1. d * ls = ls * d /\ (-hs) * d = -(d * hs) /\ d * ls \in Int /\ d * hs \in Int /\ z * f \in Int
    BY <1>11
  <2>2. CASE z > 0
    <3>1. LongPart(z) = z /\ ShortPart(z) = 0 /\ 0 * f = 0
      BY <1>11, <2>2 DEF LongPart, ShortPart
    <3>2. /\ X = L + (d * ls - z * f) /\ Y = H + (d * hs - 0)
          /\ accumLong'[m] = (L + d * ls) - z * f
          /\ accumShort'[m] = (-H + -(d * hs)) - 0
      BY <1>13, <2>1, <2>2, <3>1
    <3> DEFINE u == d * ls
               v == d * hs
               t == z * f
    <3>3. u \in Int /\ v \in Int /\ t \in Int  BY <2>1
    <3>4. X = L + (u - t) /\ Y = H + (v - 0) /\ accumLong'[m] = (L + u) - t
          /\ accumShort'[m] = (-H + -v) - 0
      BY <3>2
    <3> HIDE DEF u, v, t
    <3> QED BY <1>11, <3>3, <3>4
  <2>3. CASE ~(z > 0)
    <3>1. LongPart(z) = 0 /\ ShortPart(z) * f = -(z * f) /\ 0 * f = 0
      BY <1>11, <2>3 DEF LongPart, ShortPart
    <3> DEFINE u == d * ls
               v == d * hs
               t == z * f
    <3>2. u \in Int /\ v \in Int /\ t \in Int  BY <2>1
    <3>3. X = L + (u - 0) /\ Y = H + (v - (-t)) /\ accumLong'[m] = (L + u) - 0
          /\ accumShort'[m] = (-H + -v) - t
      BY <1>13, <2>1, <2>3, <3>1
    <3> HIDE DEF u, v, t
    <3> QED BY <1>11, <3>2, <3>3
  <2> QED BY <2>2, <2>3
<1> QED BY <1>14 DEF X, Y

\* A market nothing happens to.
LEMMA FundingMarketSame ==
    ASSUME FundingInv, RatePrecision = 1, NEW m \in Markets,
           fundingAccrued'[m] = fundingAccrued[m],
           accumLong'[m] = accumLong[m], accumShort'[m] = accumShort[m],
           \A z \in MarketIds(m) : size'[z] = size[z] /\ lastAccrued'[z] = lastAccrued[z]
    PROVE  /\ accumLong'[m] = SumFunction(Owed(Longs', lastAccrued', fundingAccrued'[m], MarketIds(m)))
           /\ accumShort'[m] = -SumFunction(Owed(Shorts', lastAccrued', fundingAccrued'[m], MarketIds(m)))
<1> DEFINE g == fundingAccrued[m]
           e2 == lastAccrued'
           l2 == Longs'
           s2 == Shorts'
<1>1. \A z \in MarketIds(m) : z \in PositionIds  BY DEF MarketIds
<1>2. \A z \in MarketIds(m) : l2[z] = Longs[z] /\ s2[z] = Shorts[z] /\ e2[z] = lastAccrued[z]
  BY <1>1, LongsNext DEF Longs, Shorts
<1> HIDE DEF e2, l2, s2, g
<1>3. Owed(l2, e2, g, MarketIds(m)) = Owed(Longs, lastAccrued, g, MarketIds(m))
  BY <1>2, SideSame
<1>4. Owed(s2, e2, g, MarketIds(m)) = Owed(Shorts, lastAccrued, g, MarketIds(m))
  BY <1>2, SideSame
<1> QED BY <1>3, <1>4 DEF FundingInv, e2, l2, s2, g

LEMMA FundingTradeStep ==
    ASSUME IndInv, FundingInv, NEW id \in PositionIds, NEW s \in Int, NEW p, NEW r,
           NEW rate, NEW accrued \in Int, NEW tvl,
           Traded(id, s, p, r, rate, accrued, tvl)
    PROVE  FundingInv'
<1> SUFFICES ASSUME RatePrecision = 1, NEW m \in Markets
             PROVE  /\ accumLong'[m]
                         = SumFunction(Owed(Longs', lastAccrued', fundingAccrued'[m], MarketIds(m)))
                    /\ accumShort'[m]
                         = -SumFunction(Owed(Shorts', lastAccrued', fundingAccrued'[m], MarketIds(m)))
  BY DEF FundingInv, MarketIds
<1>1. TypeOK /\ PositionsOK /\ MarketSizesMatch  BY DEF IndInv
<1>2. id[2] \in Markets  BY DEF PositionIds
<1>3. UpdateRates({id[2]}, tvl) /\ SettleFees(id, tvl)  BY DEF Traded
<1>4. /\ size \in [PositionIds -> Int] /\ lastAccrued \in [PositionIds -> Int]
      /\ accumLong \in [Markets -> Int] /\ accumShort \in [Markets -> Int]
  BY <1>1 DEF TypeOK
<1>5. size' = [size EXCEPT ![id] = s] /\ lastAccrued' = [lastAccrued EXCEPT ![id] = accrued]
  BY DEF Traded, StorePosition
<1>6. size' \in [PositionIds -> Int] /\ lastAccrued' \in [PositionIds -> Int]  BY <1>4, <1>5
<1>7. CASE m = id[2]
  <2>1. id \in MarketIds(m)  BY <1>7 DEF MarketIds
  <2>2. fundingAccrued'[m] = AccruedAt(m)  BY <1>3, <1>7 DEF UpdateRates
  <2>3. \A z \in MarketIds(m) : z # id => size'[z] = size[z] /\ lastAccrued'[z] = lastAccrued[z]
    BY <1>4, <1>5 DEF MarketIds
  <2>4. size'[id] # 0 => lastAccrued'[id] = AccruedAt(m)
    <3>1. size'[id] = s /\ lastAccrued'[id] = accrued  BY <1>4, <1>5
    <3>2. s # 0 => accrued = AccruedAt(m)  BY <1>7 DEF Traded
    <3> QED BY <3>1, <3>2
  <2>5. /\ accumLong'[m] = AccumLongAt(m) - IF size[id] > 0 THEN FundingFeeOf(id) ELSE 0
        /\ accumShort'[m] = AccumShortAt(m) - IF size[id] > 0 THEN 0 ELSE FundingFeeOf(id)
    BY <1>3, <1>4, <1>7 DEF SettleFees
  <2> QED BY <1>1, <1>6, <2>1, <2>2, <2>3, <2>4, <2>5, FundingMarketStep
<1>8. CASE m # id[2]
  <2>1. fundingAccrued'[m] = fundingAccrued[m]  BY <1>3, <1>8 DEF UpdateRates
  <2>2. accumLong'[m] = accumLong[m] /\ accumShort'[m] = accumShort[m]
    BY <1>3, <1>4, <1>8 DEF SettleFees
  <2>3. \A z \in MarketIds(m) : size'[z] = size[z] /\ lastAccrued'[z] = lastAccrued[z]
    BY <1>4, <1>5, <1>8 DEF MarketIds
  <2> QED BY <2>1, <2>2, <2>3, FundingMarketSame
<1> QED BY <1>7, <1>8

LEMMA FundingLiquidateStep ==
    ASSUME IndInv, FundingInv, NEW a \in Accounts, NEW tvl \in PoolValues, Liquidate(a, tvl)
    PROVE  FundingInv'
<1> SUFFICES ASSUME RatePrecision = 1, NEW m \in Markets
             PROVE  /\ accumLong'[m]
                         = SumFunction(Owed(Longs', lastAccrued', fundingAccrued'[m], MarketIds(m)))
                    /\ accumShort'[m]
                         = -SumFunction(Owed(Shorts', lastAccrued', fundingAccrued'[m], MarketIds(m)))
  BY DEF FundingInv, MarketIds
<1> DEFINE ms == {positionIds[a][i] : i \in 1..Len(positionIds[a])}
           id == <<a, m>>
<1>1. TypeOK /\ PositionsOK /\ MarketSizesMatch  BY DEF IndInv
<1>2. /\ UpdateRates(ms, tvl)
      /\ size' = Cleared(size, a, ms) /\ lastAccrued' = Cleared(lastAccrued, a, ms)
  BY DEF Liquidate
<1>3. /\ accumLong'[m] = IF m \notin ms THEN accumLong[m]
            ELSE AccumLongAt(m) - IF size[id] > 0 THEN FundingFeeOf(id) ELSE 0
      /\ accumShort'[m] = IF m \notin ms THEN accumShort[m]
            ELSE AccumShortAt(m) - IF size[id] > 0 THEN 0 ELSE FundingFeeOf(id)
  BY DEF Liquidate
<1>4. ms \in SUBSET Markets  BY <1>1, LiquidatedMarkets
<1>5. size \in [PositionIds -> Int] /\ lastAccrued \in [PositionIds -> Int]  BY <1>1 DEF TypeOK
<1> HIDE DEF ms
<1>6. size' \in [PositionIds -> Int] /\ lastAccrued' \in [PositionIds -> Int]
  BY <1>2, <1>4, <1>5, ClearedType
<1>7. CASE m \in ms
  <2>1. id \in PositionIds /\ id[1] = a /\ id[2] = m /\ id \in MarketIds(m)
    BY DEF PositionIds, MarketIds
  <2>2. fundingAccrued'[m] = AccruedAt(m)  BY <1>2, <1>7 DEF UpdateRates
  <2>3. \A z \in MarketIds(m) : z # id => size'[z] = size[z] /\ lastAccrued'[z] = lastAccrued[z]
    <3>1. \A z \in MarketIds(m) : z \in PositionIds /\ z[2] = m /\ (z # id => z[1] # a)
      BY DEF MarketIds, PositionIds
    <3> HIDE DEF id
    <3> QED BY <1>2, <3>1 DEF Cleared
  <2>4. size'[id] = 0  BY <1>2, <1>7, <2>1 DEF Cleared
  <2>5. /\ accumLong'[m] = AccumLongAt(m) - IF size[id] > 0 THEN FundingFeeOf(id) ELSE 0
        /\ accumShort'[m] = AccumShortAt(m) - IF size[id] > 0 THEN 0 ELSE FundingFeeOf(id)
    BY <1>3, <1>7
  <2> HIDE DEF id
  <2> QED BY <1>1, <1>6, <2>1, <2>2, <2>3, <2>4, <2>5, FundingMarketStep
<1>8. CASE m \notin ms
  <2>1. fundingAccrued'[m] = fundingAccrued[m]  BY <1>2, <1>8 DEF UpdateRates
  <2>2. accumLong'[m] = accumLong[m] /\ accumShort'[m] = accumShort[m]  BY <1>3, <1>8
  <2>3. \A z \in MarketIds(m) : size'[z] = size[z] /\ lastAccrued'[z] = lastAccrued[z]
    BY <1>2, <1>8 DEF MarketIds, Cleared
  <2> QED BY <2>1, <2>2, <2>3, FundingMarketSame
<1> QED BY <1>7, <1>8

LEMMA FundingInit == Init => FundingInv
<1> SUFFICES ASSUME Init, NEW m \in Markets
             PROVE  /\ accumLong[m]
                         = SumFunction(Owed(Longs, lastAccrued, fundingAccrued[m], MarketIds(m)))
                    /\ accumShort[m]
                         = -SumFunction(Owed(Shorts, lastAccrued, fundingAccrued[m], MarketIds(m)))
  BY DEF FundingInv
<1>1. accumLong[m] = 0 /\ accumShort[m] = 0 /\ fundingAccrued[m] = 0  BY DEF Init
<1>2. ASSUME NEW w, \A id \in PositionIds : w[id] = 0
      PROVE  SumFunction(Owed(w, lastAccrued, fundingAccrued[m], MarketIds(m))) = 0
  <2> DEFINE T == Owed(w, lastAccrued, fundingAccrued[m], MarketIds(m))
  <2>1. 0 * (0 - 0) = 0  OBVIOUS
  <2>2. \A id \in PositionIds : lastAccrued[id] = 0  BY DEF Init
  <2>3. \A id \in PositionIds : T[id] = 0  BY <1>1, <1>2, <2>1, <2>2 DEF Owed
  <2>4. T \in [PositionIds -> Int]  BY <2>3 DEF Owed
  <2> HIDE DEF T
  <2>5. SumFunction(T) = 0  BY <2>3, <2>4, PositionIdsFinite, SumFunctionZero
  <2> QED BY <2>5 DEF T
<1>3. \A id \in PositionIds : Longs[id] = 0 /\ Shorts[id] = 0
  BY DEF Init, Longs, Shorts, LongPart, ShortPart
<1>4. /\ SumFunction(Owed(Longs, lastAccrued, fundingAccrued[m], MarketIds(m))) = 0
      /\ SumFunction(Owed(Shorts, lastAccrued, fundingAccrued[m], MarketIds(m))) = 0
  BY <1>2, <1>3
<1> QED BY <1>1, <1>4

LEMMA FundingStutter ==
    ASSUME FundingInv, UNCHANGED <<positionVars, marketVars>>
    PROVE  FundingInv'
<1>1. /\ size' = size /\ lastAccrued' = lastAccrued /\ fundingAccrued' = fundingAccrued
      /\ accumLong' = accumLong /\ accumShort' = accumShort
  BY DEF positionVars, marketVars
<1> SUFFICES ASSUME RatePrecision = 1, NEW m \in Markets
             PROVE  /\ accumLong'[m]
                         = SumFunction(Owed(Longs', lastAccrued', fundingAccrued'[m], MarketIds(m)))
                    /\ accumShort'[m]
                         = -SumFunction(Owed(Shorts', lastAccrued', fundingAccrued'[m], MarketIds(m)))
  BY DEF FundingInv, MarketIds
<1> QED BY <1>1, FundingMarketSame

LEMMA FundingNext == IndInv /\ FundingInv /\ [Next]_vars => FundingInv'
<1> SUFFICES ASSUME IndInv, FundingInv, [Next]_vars PROVE FundingInv'
  OBVIOUS
<1>1. TypeOK  BY DEF IndInv
<1>2. CASE Tick  BY <1>2, FundingStutter DEF Tick
<1>3. ASSUME NEW a \in Accounts, NEW m \in Markets, NEW tvl \in PoolValues,
             \E s \in Int, x \in Nat, r \in Nat, rate \in Nat, accrued \in Int :
                 Traded(<<a, m>>, s, x, r, rate, accrued, tvl)
      PROVE  FundingInv'
  <2> DEFINE id == <<a, m>>
  <2>1. id \in PositionIds  BY DEF PositionIds
  <2> HIDE DEF id
  <2>2. PICK s \in Int, x \in Nat, r \in Nat, rate \in Nat, accrued \in Int :
            Traded(id, s, x, r, rate, accrued, tvl)
    BY <1>3 DEF id
  <2> QED BY <2>1, <2>2, FundingTradeStep
<1>4. ASSUME NEW a \in Accounts, NEW m \in Markets, NEW p \in Prices, NEW tvl \in PoolValues,
             NEW s \in SizeDeltas, NEW tvlMax \in PoolValues,
             IncreasePosition(a, m, s, p, tvl, tvlMax) \/ IncreasePosition(a, m, -s, p, tvl, tvlMax)
      PROVE  FundingInv'
  BY <1>1, <1>3, <1>4, IncreaseIsTradeEither
<1>5. ASSUME NEW a \in Accounts, NEW m \in Markets, NEW p \in Prices, NEW tvl \in PoolValues,
             NEW q \in 0..MaxMarketSize, DecreasePosition(a, m, q, p, tvl)
      PROVE  FundingInv'
  <2>1. q \in Nat  BY NumbersAssumption
  <2> QED BY <1>1, <1>3, <1>5, <2>1, DecreaseIsTrade
<1>6. ASSUME NEW a \in Accounts, NEW tvl \in PoolValues, Liquidate(a, tvl)
      PROVE  FundingInv'
  BY <1>6, FundingLiquidateStep
<1>7. CASE UNCHANGED vars  BY <1>7, FundingStutter DEF vars
<1> QED BY <1>2, <1>4, <1>5, <1>6, <1>7 DEF Next

\* Without rounding, the accumulated funding of each side of a market is what
\* its positions owe since each was last touched.
THEOREM FundingBalance == Spec => []FundingMatch
<1>1. IndInv /\ FundingInv => FundingMatch  BY FundingInvMatch DEF IndInv
<1> QED BY <1>1, InitStep, NextStep, FundingInit, FundingNext, PTL DEF Spec

-----------------------------------------------------------------------------
(***************************************************************************)
(* The indexes. The list of an account names its open positions, each      *)
(* once; the sets of open positions and of their accounts follow it.       *)
(***************************************************************************)
OpenOf(w, a) == {m \in Markets : w[<<a, m>>] # 0}

LEMMA IdsMatchIs ==
    IdsMatch <=>
        /\ activePositionIds = {id \in PositionIds : size[id] # 0}
        /\ activeSubAccounts = {a \in Accounts : OpenOf(size, a) # {}}
        /\ \A a \in Accounts :
              Elems(positionIds[a]) = OpenOf(size, a) /\ Distinct(positionIds[a])
BY ZenonT(40) DEF IdsMatch, OpenOf, Elems, Distinct

LEMMA IdsMatchNext ==
    IdsMatch' <=>
        /\ activePositionIds' = {id \in PositionIds : size'[id] # 0}
        /\ activeSubAccounts' = {a \in Accounts : OpenOf(size', a) # {}}
        /\ \A a \in Accounts :
              Elems(positionIds'[a]) = OpenOf(size', a) /\ Distinct(positionIds'[a])
BY ZenonT(40) DEF IdsMatch, OpenOf, Elems, Distinct, PositionIds

LEMMA SwapAndPopIsRemove ==
    ASSUME NEW list \in Seq(Markets), Distinct(list), NEW m \in Elems(list)
    PROVE  /\ Elems(SwapAndPop(list, m)) = Elems(list) \ {m}
           /\ Distinct(SwapAndPop(list, m))
<1> DEFINE i == CHOOSE j \in 1..Len(list) : list[j] = m
<1>1. i \in 1..Len(list) /\ list[i] = m  BY DEF Elems
<1>2. SwapAndPop(list, m) = Popped(list, i)  BY DEF SwapAndPop, Popped
<1> HIDE DEF i
<1> QED BY <1>1, <1>2, ListRemove

LEMMA OpenNext ==
    ASSUME size \in [PositionIds -> Int], NEW b \in Accounts, NEW m \in Markets, NEW s \in Int,
           size' = [size EXCEPT ![<<b, m>>] = s]
    PROVE  /\ s # 0 => OpenOf(size', b) = OpenOf(size, b) \cup {m}
           /\ s = 0 => OpenOf(size', b) = OpenOf(size, b) \ {m}
           /\ \A a \in Accounts : a # b => OpenOf(size', a) = OpenOf(size, a)
           /\ {z \in PositionIds : size'[z] # 0}
                = IF s # 0 THEN {z \in PositionIds : size[z] # 0} \cup {<<b, m>>}
                           ELSE {z \in PositionIds : size[z] # 0} \ {<<b, m>>}
<1>1. <<b, m>> \in PositionIds  BY DEF PositionIds
<1>2. size'[<<b, m>>] = s /\ \A z \in PositionIds : z # <<b, m>> => size'[z] = size[z]
  BY <1>1
<1>3. \A a \in Accounts, k \in Markets : <<a, k>> \in PositionIds /\ (<<a, k>> = <<b, m>> => a = b /\ k = m)
  BY DEF PositionIds
<1>4. /\ s # 0 => OpenOf(size', b) = OpenOf(size, b) \cup {m}
      /\ s = 0 => OpenOf(size', b) = OpenOf(size, b) \ {m}
  BY <1>2, <1>3 DEF OpenOf
<1>5. \A a \in Accounts : a # b => OpenOf(size', a) = OpenOf(size, a)
  BY <1>2, <1>3 DEF OpenOf
<1>6. {z \in PositionIds : size'[z] # 0}
        = IF s # 0 THEN {z \in PositionIds : size[z] # 0} \cup {<<b, m>>}
                   ELSE {z \in PositionIds : size[z] # 0} \ {<<b, m>>}
  BY <1>1, <1>2
<1> QED BY <1>4, <1>5, <1>6

LEMMA IdsTradeStep ==
    ASSUME TypeOK, IdsMatch, NEW b \in Accounts, NEW m \in Markets, NEW s \in Int, NEW p, NEW r,
           NEW rate, NEW accrued, NEW tvl, Traded(<<b, m>>, s, p, r, rate, accrued, tvl)
    PROVE  IdsMatch'
<1> DEFINE id == <<b, m>>
           list == positionIds[b]
<1>1. id \in PositionIds /\ id[1] = b /\ id[2] = m  BY DEF PositionIds
<1>2. /\ size \in [PositionIds -> Int] /\ positionIds \in [Accounts -> Seq(Markets)]
      /\ activePositionIds \subseteq PositionIds /\ activeSubAccounts \subseteq Accounts
  BY DEF TypeOK
<1>3. size' = [size EXCEPT ![id] = s]  BY DEF Traded, StorePosition
<1>4. /\ list \in Seq(Markets) /\ Elems(list) = OpenOf(size, b) /\ Distinct(list)
      /\ activePositionIds = {z \in PositionIds : size[z] # 0}
      /\ activeSubAccounts = {a \in Accounts : OpenOf(size, a) # {}}
  BY <1>2, IdsMatchIs
<1>5. /\ s # 0 => OpenOf(size', b) = OpenOf(size, b) \cup {m}
      /\ s = 0 => OpenOf(size', b) = OpenOf(size, b) \ {m}
      /\ \A a \in Accounts : a # b => OpenOf(size', a) = OpenOf(size, a)
      /\ {z \in PositionIds : size'[z] # 0}
            = IF s # 0 THEN activePositionIds \cup {id} ELSE activePositionIds \ {id}
  BY <1>2, <1>3, <1>4, OpenNext, ZenonT(40)
<1>6. m \in OpenOf(size, b) <=> size[id] # 0  BY DEF OpenOf
<1> HIDE DEF id
\* What is left to show about the account of the position.
<1>7. ASSUME \A a \in Accounts : a # b => positionIds'[a] = positionIds[a],
             Elems(positionIds'[b]) = OpenOf(size', b), Distinct(positionIds'[b]),
             activePositionIds' = IF s # 0 THEN activePositionIds \cup {id} ELSE activePositionIds \ {id},
             activeSubAccounts' = IF OpenOf(size', b) # {} THEN activeSubAccounts \cup {b}
                                                            ELSE activeSubAccounts \ {b}
      PROVE  IdsMatch'
  <2>1. activePositionIds' = {z \in PositionIds : size'[z] # 0}  BY <1>5, <1>7
  <2>2. activeSubAccounts' = {a \in Accounts : OpenOf(size', a) # {}}  BY <1>4, <1>5, <1>7
  <2>3. \A a \in Accounts : Elems(positionIds'[a]) = OpenOf(size', a) /\ Distinct(positionIds'[a])
    <3> TAKE a \in Accounts
    <3>1. CASE a = b  BY <1>7, <3>1
    <3>2. CASE a # b
      <4>1. positionIds'[a] = positionIds[a] /\ OpenOf(size', a) = OpenOf(size, a)
        BY <1>5, <1>7, <3>2
      <4> QED BY <4>1, IdsMatchIs
    <3> QED BY <3>1, <3>2
  <2> QED BY <2>1, <2>2, <2>3, IdsMatchNext
<1>8. CASE s # 0
  <2>1. Register(id)  BY <1>8 DEF Traded, id
  <2>2. CASE size[id] = 0
    <3>1. /\ positionIds' = [positionIds EXCEPT ![b] = Append(list, m)]
          /\ activePositionIds' = activePositionIds \cup {id}
          /\ activeSubAccounts' = activeSubAccounts \cup {b}
      BY <1>1, <1>2, <2>1, <2>2 DEF Register
    <3>2. Elems(Append(list, m)) = Elems(list) \cup {m} /\ Distinct(Append(list, m))
      BY <1>4, <1>6, <2>2, ListAppend
    <3>3. positionIds'[b] = Append(list, m) /\ \A a \in Accounts : a # b => positionIds'[a] = positionIds[a]
      BY <1>2, <3>1
    <3> HIDE DEF list
    <3> QED BY <1>4, <1>5, <1>7, <1>8, <3>1, <3>2, <3>3
  <2>3. CASE size[id] # 0
    <3>1. /\ \A a \in Accounts : positionIds'[a] = positionIds[a]
          /\ activePositionIds' = activePositionIds /\ activeSubAccounts' = activeSubAccounts
      BY <1>1, <1>2, <2>1, <2>3 DEF Register
    <3>2. m \in OpenOf(size, b) /\ id \in activePositionIds /\ b \in activeSubAccounts
      BY <1>1, <1>4, <1>6, <2>3
    <3>3. OpenOf(size', b) = OpenOf(size, b)  BY <1>5, <1>8, <3>2
    <3>4. Elems(positionIds'[b]) = OpenOf(size', b) /\ Distinct(positionIds'[b])
      BY <1>4, <3>1, <3>3
    <3> HIDE DEF list
    <3> QED BY <1>7, <1>8, <3>1, <3>2, <3>3, <3>4
  <2> QED BY <2>2, <2>3
<1>9. CASE s = 0
  <2>1. RemovePosition(id) /\ size[id] # 0  BY <1>9 DEF Traded, id
  <2>2. m \in Elems(list)  BY <1>4, <1>6, <2>1
  <2>3. /\ positionIds' = [positionIds EXCEPT ![b] = SwapAndPop(list, m)]
        /\ activePositionIds' = activePositionIds \ {id}
        /\ activeSubAccounts' = IF Len(list) = 1 THEN activeSubAccounts \ {b} ELSE activeSubAccounts
    BY <1>1, <1>2, <2>1 DEF RemovePosition
  <2>4. Elems(SwapAndPop(list, m)) = Elems(list) \ {m} /\ Distinct(SwapAndPop(list, m))
    BY <1>4, <2>2, SwapAndPopIsRemove
  <2>5. positionIds'[b] = SwapAndPop(list, m) /\ \A a \in Accounts : a # b => positionIds'[a] = positionIds[a]
    BY <1>2, <2>3
  <2>6. Len(list) = 1 <=> OpenOf(size', b) = {}
    <3>1. Len(list) = 1 <=> Elems(list) = {m}  BY <1>4, <2>2, ListSingle
    <3> HIDE DEF list
    <3> QED BY <1>4, <1>5, <1>9, <2>2, <3>1
  <2>7. b \in activeSubAccounts  BY <1>4, <2>2
  <2> HIDE DEF list
  <2> QED BY <1>4, <1>5, <1>7, <1>9, <2>3, <2>4, <2>5, <2>6, <2>7
<1> QED BY <1>8, <1>9

LEMMA IdsLiquidateStep ==
    ASSUME TypeOK, IdsMatch, NEW b \in Accounts, NEW tvl, Liquidate(b, tvl)
    PROVE  IdsMatch'
<1> DEFINE ms == {positionIds[b][i] : i \in 1..Len(positionIds[b])}
<1>1. ms = OpenOf(size, b)  BY DEF IdsMatch, OpenOf
<1>2. /\ size' = Cleared(size, b, ms)
      /\ positionIds' = [positionIds EXCEPT ![b] = <<>>]
      /\ activePositionIds' = activePositionIds \ ({b} \X ms)
      /\ activeSubAccounts' = activeSubAccounts \ {b}
  BY DEF Liquidate
<1> HIDE DEF ms
<1>3. positionIds \in [Accounts -> Seq(Markets)]  BY DEF TypeOK
<1>4. \A a \in Accounts, m \in Markets : size'[<<a, m>>] = IF a = b THEN 0 ELSE size[<<a, m>>]
  <2> TAKE a \in Accounts, m \in Markets
  <2>1. <<a, m>> \in PositionIds /\ <<a, m>>[1] = a /\ <<a, m>>[2] = m  BY DEF PositionIds
  <2>2. size'[<<a, m>>] = IF a = b /\ m \in ms THEN 0 ELSE size[<<a, m>>]
    BY <1>2, <2>1 DEF Cleared
  <2>3. a = b /\ m \notin ms => size[<<a, m>>] = 0  BY <1>1 DEF OpenOf
  <2> QED BY <2>2, <2>3
<1>5. OpenOf(size', b) = {} /\ \A a \in Accounts : a # b => OpenOf(size', a) = OpenOf(size, a)
  BY <1>4 DEF OpenOf
<1>6. activePositionIds' = {z \in PositionIds : size'[z] # 0}
  <2>1. activePositionIds = {z \in PositionIds : size[z] # 0}  BY IdsMatchIs
  <2>2. \A z \in PositionIds : /\ z = <<z[1], z[2]>> /\ z[1] \in Accounts /\ z[2] \in Markets
                               /\ z \in {b} \X ms <=> z[1] = b /\ z[2] \in ms
    BY DEF PositionIds
  <2>3. \A z \in PositionIds : size'[z] = IF z[1] = b THEN 0 ELSE size[z]  BY <1>4, <2>2
  <2>4. \A z \in PositionIds : z[1] = b => (size[z] # 0 <=> z[2] \in ms)
    BY <1>1, <2>2 DEF OpenOf
  <2>5. \A z \in PositionIds : z \in activePositionIds' <=> size'[z] # 0
    BY <1>2, <2>1, <2>2, <2>3, <2>4
  <2> QED BY <1>2, <2>1, <2>5
<1>7. activeSubAccounts' = {a \in Accounts : OpenOf(size', a) # {}}
  BY <1>2, <1>5, IdsMatchIs
<1>8. \A a \in Accounts : Elems(positionIds'[a]) = OpenOf(size', a) /\ Distinct(positionIds'[a])
  <2> TAKE a \in Accounts
  <2>1. CASE a = b
    <3>1. positionIds'[a] = <<>>  BY <1>2, <1>3, <2>1
    <3>2. Elems(<<>>) = {} /\ Distinct(<<>>)  BY DEF Elems, Distinct
    <3> QED BY <1>5, <2>1, <3>1, <3>2
  <2>2. CASE a # b
    <3>1. positionIds'[a] = positionIds[a]  BY <1>2, <1>3, <2>2
    <3> QED BY <1>5, <2>2, <3>1, IdsMatchIs
  <2> QED BY <2>1, <2>2
<1> QED BY <1>6, <1>7, <1>8, IdsMatchNext

LEMMA IdsInit == Init => IdsMatch
<1> SUFFICES ASSUME Init PROVE IdsMatch
  OBVIOUS
<1>1. \A a \in Accounts, m \in Markets : size[<<a, m>>] = 0  BY DEF Init, PositionIds
<1>2. \A a \in Accounts : OpenOf(size, a) = {}  BY <1>1 DEF OpenOf
<1>3. \A a \in Accounts : Elems(positionIds[a]) = {} /\ Distinct(positionIds[a])
  BY DEF Init, Elems, Distinct
<1>4. /\ activePositionIds = {id \in PositionIds : size[id] # 0}
      /\ activeSubAccounts = {a \in Accounts : OpenOf(size, a) # {}}
  BY <1>2 DEF Init
<1> QED BY <1>2, <1>3, <1>4, IdsMatchIs

LEMMA IdsNext == TypeOK /\ IdsMatch /\ [Next]_vars => IdsMatch'
<1> SUFFICES ASSUME TypeOK, IdsMatch, [Next]_vars PROVE IdsMatch'
  OBVIOUS
<1>1. ASSUME UNCHANGED <<positionVars, indexVars>> PROVE IdsMatch'
  BY <1>1 DEF IdsMatch, positionVars, indexVars
<1>2. CASE Tick  BY <1>1, <1>2 DEF Tick
<1>3. ASSUME NEW a \in Accounts, NEW m \in Markets, NEW tvl \in PoolValues,
             \E s \in Int, x \in Nat, r \in Nat, rate \in Nat, accrued \in Int :
                 Traded(<<a, m>>, s, x, r, rate, accrued, tvl)
      PROVE  IdsMatch'
  <2>1. PICK s \in Int, x \in Nat, r \in Nat, rate \in Nat, accrued \in Int :
            Traded(<<a, m>>, s, x, r, rate, accrued, tvl)
    BY <1>3
  <2> QED BY <2>1, IdsTradeStep
<1>4. ASSUME NEW a \in Accounts, NEW m \in Markets, NEW p \in Prices, NEW tvl \in PoolValues,
             NEW s \in SizeDeltas, NEW tvlMax \in PoolValues,
             IncreasePosition(a, m, s, p, tvl, tvlMax) \/ IncreasePosition(a, m, -s, p, tvl, tvlMax)
      PROVE  IdsMatch'
  BY <1>3, <1>4, IncreaseIsTradeEither
<1>5. ASSUME NEW a \in Accounts, NEW m \in Markets, NEW p \in Prices, NEW tvl \in PoolValues,
             NEW q \in 0..MaxMarketSize, DecreasePosition(a, m, q, p, tvl)
      PROVE  IdsMatch'
  <2>1. q \in Nat  BY NumbersAssumption
  <2> QED BY <1>3, <1>5, <2>1, DecreaseIsTrade
<1>6. ASSUME NEW a \in Accounts, NEW tvl \in PoolValues, Liquidate(a, tvl)
      PROVE  IdsMatch'
  BY <1>6, IdsLiquidateStep
<1>7. CASE UNCHANGED vars  BY <1>1, <1>7 DEF vars
<1> QED BY <1>2, <1>4, <1>5, <1>6, <1>7 DEF Next

\* The indexes name exactly the open positions.
THEOREM Indexes == Spec => []IdsMatch
<1>1. IndInv => TypeOK  BY DEF IndInv
<1> QED BY <1>1, InitStep, NextStep, IdsInit, IdsNext, PTL DEF Spec
=============================================================================
