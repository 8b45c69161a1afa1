------------------------- MODULE TradeOrders_proofs -------------------------
(***************************************************************************)
(* LimitTradeHandler keeps its books: the pointers list the orders, the    *)
(* handler holds their fees, and no order moves a position beyond what it  *)
(* says or the market allows, for any number of accounts and orders and    *)
(* for batches of any length. IntentHandler, whose orders reach a position *)
(* by the same calls, trades a signed order once, as it was signed.        *)
(***************************************************************************)
EXTENDS LimitOrders, Intents, Sums, TLAPS

-----------------------------------------------------------------------------
(***************************************************************************)
(* What the calls of an order do to a position.                            *)
(***************************************************************************)
\* A smaller position of the same side, or none.
Shrunk(q, p) == Size(q) <= Size(p) /\ (q = 0 \/ SameSide(q, p))

LEMMA ShrunkRefl == \A p \in Int : Shrunk(p, p)
BY DEF Shrunk, Size, SameSide

LEMMA ShrunkTrans ==
    ASSUME NEW p \in Int, NEW q \in Int, NEW r \in Int, Shrunk(q, p), Shrunk(r, q)
    PROVE  Shrunk(r, p)
BY DEF Shrunk, Size, SameSide

LEMMA OneCall ==
    ASSUME NEW p \in Int, NEW d \in Int
    PROVE  /\ Call(p, <<"increase", d>>) = IF p = 0 \/ SameSide(p, d) THEN {p + d} ELSE {}
           /\ Call(p, <<"decrease", d>>)
              = IF p = 0 \/ d > Size(p) THEN {} ELSE {IF p > 0 THEN p - d ELSE p + d}
BY DEF Call

\* The positions that an order leaves, of either kind.
Netted(p, d) == Filled(p, d, FALSE)
Reduced(p, d) == Filled(p, d, TRUE)

LEMMA NettedBy ==
    ASSUME NEW p, NEW d, NEW calls, calls = NettingCalls(p, d)
    PROVE  /\ Len(calls) = 0 => Netted(p, d) = {p}
           /\ Len(calls) = 1 => Netted(p, d) = Call(p, calls[1])
           /\ Len(calls) = 2
              => Netted(p, d) = UNION {Call(x, calls[2]) : x \in Call(p, calls[1])}
<1>1. Netted(p, d)
      = CASE Len(calls) = 0 -> {p}
          [] Len(calls) = 1 -> Call(p, calls[1])
          [] Len(calls) = 2 -> UNION {Call(x, calls[2]) : x \in Call(p, calls[1])}
  BY DEF Netted, Filled, Calls
<1>2. CASE Len(calls) = 0
  <2>1. Len(calls) # 1 /\ Len(calls) # 2  BY <1>2
  <2> QED BY <1>1, <1>2, <2>1
<1>3. CASE Len(calls) = 1
  <2>1. Len(calls) # 0 /\ Len(calls) # 2  BY <1>3
  <2> QED BY <1>1, <1>3, <2>1
<1>4. CASE Len(calls) = 2
  <2>1. Len(calls) # 0 /\ Len(calls) # 1  BY <1>4
  <2> QED BY <1>1, <1>4, <2>1
<1> QED BY <1>2, <1>3, <1>4

LEMMA ReducedBy ==
    ASSUME NEW p, NEW d, NEW calls, calls = ReducingCalls(p, d)
    PROVE  /\ Len(calls) = 0 => Reduced(p, d) = {p}
           /\ Len(calls) = 1 => Reduced(p, d) = Call(p, calls[1])
           /\ Len(calls) = 2
              => Reduced(p, d) = UNION {Call(x, calls[2]) : x \in Call(p, calls[1])}
<1>1. Reduced(p, d)
      = CASE Len(calls) = 0 -> {p}
          [] Len(calls) = 1 -> Call(p, calls[1])
          [] Len(calls) = 2 -> UNION {Call(x, calls[2]) : x \in Call(p, calls[1])}
  BY DEF Reduced, Filled, Calls
<1>2. CASE Len(calls) = 0
  <2>1. Len(calls) # 1 /\ Len(calls) # 2  BY <1>2
  <2> QED BY <1>1, <1>2, <2>1
<1>3. CASE Len(calls) = 1
  <2>1. Len(calls) # 0 /\ Len(calls) # 2  BY <1>3
  <2> QED BY <1>1, <1>3, <2>1
<1>4. CASE Len(calls) = 2
  <2>1. Len(calls) # 0 /\ Len(calls) # 1  BY <1>4
  <2> QED BY <1>1, <1>4, <2>1
<1> QED BY <1>2, <1>3, <1>4

\* An order that nets moves the position by its size.
LEMMA NettingMoves ==
    ASSUME NEW p \in Int, NEW d \in Int, NEW q \in Netted(p, d)
    PROVE  q = p + d
<1> DEFINE calls == NettingCalls(p, d)
<1>1. /\ Len(calls) = 0 => Netted(p, d) = {p}
      /\ Len(calls) = 1 => Netted(p, d) = Call(p, calls[1])
      /\ Len(calls) = 2
         => Netted(p, d) = UNION {Call(x, calls[2]) : x \in Call(p, calls[1])}
  <2>1. calls = NettingCalls(p, d)  OBVIOUS
  <2> HIDE DEF calls
  <2> QED BY <2>1, NettedBy, SMTT(30)
<1>2. CASE d = 0
  <2>1. calls = << >>  BY <1>2 DEF NettingCalls
  <2>2. Len(calls) = 0  BY <2>1
  <2> HIDE DEF calls
  <2> QED BY <1>1, <1>2, <2>2
<1>3. CASE d # 0 /\ (p = 0 \/ SameSide(p, d))
  <2>1. calls = << <<"increase", d>> >>  BY <1>3 DEF NettingCalls
  <2>2. Len(calls) = 1 /\ calls[1] = <<"increase", d>>  BY <2>1
  <2> HIDE DEF calls
  <2>3. q \in Call(p, <<"increase", d>>)  BY <1>1, <2>2
  <2> QED BY <1>3, <2>3, OneCall
<1>4. CASE d # 0 /\ ~(p = 0 \/ SameSide(p, d)) /\ Size(d) > Size(p)
  <2> DEFINE n == Size(p)
             e == d + p
             z == 0
  <2>1. calls = << <<"decrease", n>>, <<"increase", e>> >>
    BY <1>4 DEF NettingCalls
  <2>2. Len(calls) = 2 /\ calls[1] = <<"decrease", n>> /\ calls[2] = <<"increase", e>>
    BY <2>1
  <2>3. n \in Int /\ e \in Int /\ z \in Int  BY DEF Size
  <2> HIDE DEF calls, n, e
  <2>4. PICK x \in Call(p, <<"decrease", n>>) : q \in Call(x, <<"increase", e>>)
    <3>1. q \in UNION {Call(x, calls[2]) : x \in Call(p, calls[1])}  BY <1>1, <2>2
    <3> QED BY <2>2, <3>1
  <2>5. x = z
    <3>1. x \in {IF p > 0 THEN p - n ELSE p + n}  BY <1>4, <2>3, <2>4, OneCall
    <3> QED BY <3>1 DEF n, Size
  <2> HIDE DEF z
  <2>6. q \in IF z = 0 \/ SameSide(z, e) THEN {z + e} ELSE {}  BY <2>3, <2>4, <2>5, OneCall
  <2> QED BY <2>6 DEF e, z
<1>5. CASE d # 0 /\ ~(p = 0 \/ SameSide(p, d)) /\ ~(Size(d) > Size(p))
  <2> DEFINE n == Size(d)
  <2>1. calls = << <<"decrease", n>> >>  BY <1>5 DEF NettingCalls
  <2>2. Len(calls) = 1 /\ calls[1] = <<"decrease", n>>  BY <2>1
  <2>3. n \in Int  BY DEF Size
  <2> HIDE DEF calls, n
  <2>4. q \in Call(p, <<"decrease", n>>)  BY <1>1, <2>2
  <2>5. q \in {IF p > 0 THEN p - n ELSE p + n}  BY <1>5, <2>3, <2>4, OneCall
  <2> QED BY <1>5, <2>5 DEF n, Size, SameSide
<1> QED BY <1>2, <1>3, <1>4, <1>5

\* A reduce-only order never makes a position larger, nor turns it.
LEMMA ReducingShrinks ==
    ASSUME NEW p \in Int, NEW d \in Int, NEW q \in Reduced(p, d)
    PROVE  q \in Int /\ Shrunk(q, p)
<1> DEFINE calls == ReducingCalls(p, d)
           n == Smaller(Size(d), Size(p))
<1>1. /\ Len(calls) = 0 => Reduced(p, d) = {p}
      /\ Len(calls) = 1 => Reduced(p, d) = Call(p, calls[1])
  <2>1. calls = ReducingCalls(p, d)  OBVIOUS
  <2> HIDE DEF calls
  <2> QED BY <2>1, ReducedBy
<1>2. CASE ~(p # 0 /\ d # 0 /\ ~SameSide(p, d))
  <2>1. calls = << >>  BY <1>2 DEF ReducingCalls
  <2>2. Len(calls) = 0  BY <2>1
  <2> HIDE DEF calls
  <2> QED BY <1>1, <1>2, <2>2, ShrunkRefl
<1>3. CASE p # 0 /\ d # 0 /\ ~SameSide(p, d)
  <2>1. calls = << <<"decrease", n>> >>  BY <1>3 DEF ReducingCalls
  <2>2. Len(calls) = 1 /\ calls[1] = <<"decrease", n>>  BY <2>1
  <2>3. n \in Int /\ n >= 0 /\ n <= Size(p)  BY DEF Size, Smaller
  <2> HIDE DEF calls, n
  <2>4. q \in Call(p, <<"decrease", n>>)  BY <1>1, <2>2
  <2>5. q \in {IF p > 0 THEN p - n ELSE p + n}  BY <1>3, <2>3, <2>4, OneCall
  <2> QED BY <1>3, <2>3, <2>5 DEF Size, SameSide, Shrunk
<1> QED BY <1>2, <1>3

\* An order as it is kept: with the price 0 it is triggered above it.
Order == [sizeDelta : Int, triggerPrice : Nat, triggerAboveThreshold : BOOLEAN,
          reduceOnly : BOOLEAN, executionFee : Nat, createdTimestamp : Nat]
Kept(o) == o \in Order /\ (o.triggerPrice = 0 => o.triggerAboveThreshold)

\* The market limits the size of its positions; 0 would mean that it does not.
HasLimit == PositionSizeLimit \in 1..MaxDelta

\* What an order may make of a position.
MovedBy(q, p, o) ==
    /\ o.reduceOnly => Shrunk(q, p)
    /\ ~o.reduceOnly => q - p = SizeDelta(p, o)
WithinLimit(p) == HasLimit => Size(p) <= PositionSizeLimit

LEMMA SizeDeltaInt == \A p \in Int, o \in Order : SizeDelta(p, o) \in Int
BY DEF SizeDelta, Size, Order

\* executeLimitOrder: the limit is checked with the size of the order, before
\* the extreme sizes are replaced by the size of the position.
LEMMA NettedWithin ==
    ASSUME NEW p \in Int, NEW o \in Order, ~o.reduceOnly, Executable(p, o), WithinLimit(p)
    PROVE  WithinLimit(p + SizeDelta(p, o))
<1> DEFINE d == o.sizeDelta
           e == SizeDelta(p, o)
<1> SUFFICES ASSUME HasLimit PROVE Size(p + e) <= PositionSizeLimit  BY DEF WithinLimit
<1>1. /\ PositionSizeLimit \in Nat /\ PositionSizeLimit > 0 /\ PositionSizeLimit <= MaxDelta
      /\ MaxDelta \in Nat /\ d \in Int /\ Size(p) <= PositionSizeLimit
  BY TradeOrderAssumption DEF HasLimit, WithinLimit, Order
<1>2. Size(p + d) <= PositionSizeLimit
  BY <1>1 DEF Executable, WithinLimits
<1>3. e = IF Size(d) = MaxDelta THEN IF d > 0 THEN Size(p) ELSE -Size(p) ELSE d
  BY DEF SizeDelta
<1> HIDE DEF d, e
<1>4. CASE Size(d) = MaxDelta  BY <1>1, <1>2, <1>3, <1>4 DEF Size
<1>5. CASE Size(d) # MaxDelta  BY <1>2, <1>3, <1>5
<1> QED BY <1>4, <1>5

LEMMA ExecutedMoves ==
    ASSUME NEW p \in Int, NEW o \in Order, NEW price, NEW q \in Executed(p, o, price),
           WithinLimit(p)
    PROVE  q \in Int /\ MovedBy(q, p, o) /\ WithinLimit(q)
<1> DEFINE d == SizeDelta(p, o)
<1>1. Executable(p, o) /\ q \in Filled(p, d, o.reduceOnly)  BY DEF Executed
<1>2. d \in Int  BY SizeDeltaInt
<1>3. CASE o.reduceOnly = TRUE
  <2>1. q \in Reduced(p, d)  BY <1>1, <1>3 DEF Reduced
  <2> HIDE DEF d
  <2>2. q \in Int /\ Shrunk(q, p)  BY <1>2, <2>1, ReducingShrinks
  <2>3. WithinLimit(q)
    BY <2>2, TradeOrderAssumption DEF WithinLimit, Shrunk, Size
  <2> QED BY <1>3, <2>2, <2>3 DEF MovedBy
<1>4. CASE o.reduceOnly = FALSE
  <2>1. q \in Netted(p, d)  BY <1>1, <1>4 DEF Netted
  <2>2. WithinLimit(p + d)  BY <1>1, <1>4, NettedWithin
  <2> HIDE DEF d
  <2>3. q = p + d  BY <1>2, <2>1, NettingMoves
  <2>4. q \in Int /\ q - p = d  BY <1>2, <2>3
  <2> QED BY <1>4, <2>2, <2>3, <2>4 DEF MovedBy, d
<1> QED BY <1>3, <1>4 DEF Order

-----------------------------------------------------------------------------
(***************************************************************************)
(* The books as a batch works on them.                                     *)
(***************************************************************************)
Books(s) ==
    /\ s = [positions |-> s.positions, orders |-> s.orders, active |-> s.active,
            market |-> s.market, limit |-> s.limit, held |-> s.held]
    /\ s.positions \in [Accounts -> Int]
    /\ DOMAIN s.orders \in SUBSET Ids
    /\ s.orders = [id \in DOMAIN s.orders |-> s.orders[id]]
    /\ \A id \in DOMAIN s.orders : Kept(s.orders[id])
    /\ s.held \in Nat

\* The pointers list the orders by their kind.
Listed(s) ==
    /\ s.active = DOMAIN s.orders
    /\ s.market = {id \in DOMAIN s.orders : s.orders[id].triggerPrice = 0}
    /\ s.limit = {id \in DOMAIN s.orders : s.orders[id].triggerPrice # 0}

\* The fees of the orders.
FeesOf(orders) == [id \in Ids |-> IF id \in DOMAIN orders THEN orders[id].executionFee ELSE 0]
Paid(s) == s.held = SumFunction(FeesOf(s.orders))

Limited(s) == \A a \in Accounts : WithinLimit(s.positions[a])

Sound(s) == Books(s) /\ Listed(s) /\ Paid(s) /\ Limited(s)

LEMMA IdsFinite == IsFiniteSet(Ids)
<1>1. IsFiniteSet(Accounts) /\ IsFiniteSet(0..(MaxOrders - 1))
  BY LimitOrderAssumption, FS_Interval
<1> QED BY <1>1, FS_Product DEF Ids

LEMMA FeesNat ==
    ASSUME NEW s, Books(s)
    PROVE  FeesOf(s.orders) \in [Ids -> Nat] /\ FeesOf(s.orders) \in [Ids -> Int]
<1>1. \A id \in DOMAIN s.orders : s.orders[id].executionFee \in Nat  BY DEF Books, Kept, Order
<1> QED BY <1>1 DEF FeesOf

LEMMA RecordUpdate ==
    ASSUME NEW p, NEW o1, NEW a1, NEW m1, NEW l1, NEW h1, NEW o, NEW a, NEW m, NEW l, NEW h, NEW s,
           s = [positions |-> p, orders |-> o1, active |-> a1, market |-> m1, limit |-> l1, held |-> h1],
           NEW r, r = [s EXCEPT !.orders = o, !.active = a, !.market = m, !.limit = l],
           NEW t, t = [r EXCEPT !.held = h]
    PROVE  t = [positions |-> p, orders |-> o, active |-> a, market |-> m, limit |-> l, held |-> h]
<1> DEFINE s1 == [s EXCEPT !.orders = o]
           s2 == [s1 EXCEPT !.active = a]
           s3 == [s2 EXCEPT !.market = m]
           s4 == [s3 EXCEPT !.limit = l]
           s5 == [s4 EXCEPT !.held = h]
<1>1. t = s5
  OBVIOUS
<1>2. s1 = [positions |-> p, orders |-> o, active |-> a1, market |-> m1, limit |-> l1, held |-> h1]
  OBVIOUS
<1> HIDE DEF s1
<1>3. s2 = [positions |-> p, orders |-> o, active |-> a, market |-> m1, limit |-> l1, held |-> h1]
  BY <1>2
<1> HIDE DEF s2
<1>4. s3 = [positions |-> p, orders |-> o, active |-> a, market |-> m, limit |-> l1, held |-> h1]
  BY <1>3
<1> HIDE DEF s3
<1>5. s4 = [positions |-> p, orders |-> o, active |-> a, market |-> m, limit |-> l, held |-> h1]
  BY <1>4
<1> HIDE DEF s4
<1>6. s5 = [positions |-> p, orders |-> o, active |-> a, market |-> m, limit |-> l, held |-> h]
  BY <1>5
<1> HIDE DEF s5
<1> QED BY <1>1, <1>6

\* _removeOrder.
LEMMA RemoveFields ==
    ASSUME NEW s, Books(s), Listed(s), NEW id \in DOMAIN s.orders, NEW h
    PROVE  LET t == [Remove(s, id) EXCEPT !.held = h] IN
           /\ t = [positions |-> t.positions, orders |-> t.orders, active |-> t.active,
                   market |-> t.market, limit |-> t.limit, held |-> t.held]
           /\ t.positions = s.positions /\ t.held = h
           /\ t.orders = [x \in DOMAIN s.orders \ {id} |-> s.orders[x]]
           /\ t.active = s.active \ {id}
           /\ t.market = s.market \ {id} /\ t.limit = s.limit \ {id}
<1> DEFINE m == IF s.orders[id].triggerPrice = 0 THEN s.market \ {id} ELSE s.market
           l == IF s.orders[id].triggerPrice # 0 THEN s.limit \ {id} ELSE s.limit
           o == [x \in DOMAIN s.orders \ {id} |-> s.orders[x]]
           a == s.active \ {id}
           r == Remove(s, id)
           t == [r EXCEPT !.held = h]
<1>1. m = s.market \ {id} /\ l = s.limit \ {id}  BY DEF Listed
<1>2. r = [s EXCEPT !.orders = o, !.active = a, !.market = m, !.limit = l]
  BY DEF Remove
<1>3. s = [positions |-> s.positions, orders |-> s.orders, active |-> s.active,
           market |-> s.market, limit |-> s.limit, held |-> s.held]  BY DEF Books
<1>4. t = [r EXCEPT !.held = h]  OBVIOUS
<1> HIDE DEF m, l, o, a, r, t
<1>5. t = [positions |-> s.positions, orders |-> o, active |-> a,
           market |-> m, limit |-> l, held |-> h]
  BY <1>2, <1>3, <1>4, RecordUpdate, Zenon
<1> QED BY <1>1, <1>5 DEF o, a, t, r

\* The order id leaves the books s for the books t, and its fee is paid.
Leaves(t, s, id) ==
    /\ t.orders = [x \in DOMAIN s.orders \ {id} |-> s.orders[x]]
    /\ DOMAIN t.orders = DOMAIN s.orders \ {id}

\* _removeOrder and _transferOutETH.
LEMMA SettledSound ==
    ASSUME NEW s, Sound(s), NEW id \in DOMAIN s.orders, NEW t \in Settled(s, id)
    PROVE  Sound(t) /\ Leaves(t, s, id) /\ t.positions = s.positions
<1> DEFINE fee == s.orders[id].executionFee
           h == s.held - fee
           f == FeesOf(s.orders)
           g == FeesOf(t.orders)
<1>1. Books(s) /\ Listed(s) /\ Paid(s) /\ Limited(s)  BY DEF Sound
<1>2. fee <= s.held /\ t = [Remove(s, id) EXCEPT !.held = h]
  BY DEF Settled
<1>3. s.held \in Nat /\ fee \in Nat /\ h \in Nat /\ id \in Ids
  <2>1. s.held \in Nat /\ fee \in Nat /\ id \in Ids  BY <1>1 DEF Books, Kept, Order
  <2> HIDE DEF fee
  <2> QED BY <1>2, <2>1
<1> HIDE DEF h
<1>4. /\ t = [positions |-> t.positions, orders |-> t.orders, active |-> t.active,
              market |-> t.market, limit |-> t.limit, held |-> t.held]
      /\ t.positions = s.positions /\ t.held = h
      /\ t.orders = [x \in DOMAIN s.orders \ {id} |-> s.orders[x]]
      /\ t.active = s.active \ {id}
      /\ t.market = s.market \ {id} /\ t.limit = s.limit \ {id}
  BY <1>1, <1>2, RemoveFields, SMTT(30)
<1>5. DOMAIN t.orders = DOMAIN s.orders \ {id}
      /\ \A x \in DOMAIN t.orders : t.orders[x] = s.orders[x]
  BY <1>4
<1>6. Books(t)
  <2>1. t.positions \in [Accounts -> Int]  BY <1>1, <1>4 DEF Books
  <2>2. DOMAIN t.orders \in SUBSET Ids  BY <1>1, <1>5 DEF Books
  <2>3. t.orders = [x \in DOMAIN t.orders |-> t.orders[x]]  BY <1>4
  <2>4. \A x \in DOMAIN t.orders : Kept(t.orders[x])  BY <1>1, <1>5 DEF Books
  <2> QED BY <1>3, <1>4, <2>1, <2>2, <2>3, <2>4 DEF Books
<1>7. Listed(t)
  <2>1. t.active = DOMAIN t.orders  BY <1>1, <1>4, <1>5 DEF Listed
  <2>2. t.market = {x \in DOMAIN t.orders : t.orders[x].triggerPrice = 0}
    BY <1>1, <1>4, <1>5 DEF Listed
  <2>3. t.limit = {x \in DOMAIN t.orders : t.orders[x].triggerPrice # 0}
    BY <1>1, <1>4, <1>5 DEF Listed
  <2> QED BY <2>1, <2>2, <2>3 DEF Listed
<1>8. Paid(t)
  <2>1. f \in [Ids -> Int] /\ g \in [Ids -> Int]  BY <1>1, <1>6, FeesNat
  <2>2. \A x \in Ids : x # id => g[x] = f[x]  BY <1>5 DEF FeesOf
  <2>3. f[id] = fee /\ g[id] = 0  BY <1>3, <1>5 DEF FeesOf
  <2>4. SumFunction(f) \in Int  BY <2>1, IdsFinite, SumFunctionInt
  <2> HIDE DEF f, g, fee
  <2>5. SumFunction(g) = SumFunction(f) + g[id] - f[id]
    BY <1>3, <2>1, <2>2, IdsFinite, SumFunctionChange
  <2>6. s.held = SumFunction(f)  BY <1>1 DEF Paid, f
  <2>7. t.held = SumFunction(g)  BY <1>3, <1>4, <2>3, <2>4, <2>5, <2>6 DEF h
  <2> QED BY <2>7 DEF Paid, g
<1>9. Limited(t)  BY <1>1, <1>4 DEF Limited
<1> QED BY <1>4, <1>5, <1>6, <1>7, <1>8, <1>9 DEF Sound, Leaves

\* The position of account a becomes p.
Refilled(t, s, a, p) ==
    /\ t.orders = s.orders
    /\ t.positions[a] = p /\ \A b \in Accounts : b # a => t.positions[b] = s.positions[b]

LEMMA FilledSound ==
    ASSUME NEW s, Sound(s), NEW a \in Accounts, NEW p \in Int, WithinLimit(p), NEW t,
           t = [s EXCEPT !.positions[a] = p]
    PROVE  Sound(t) /\ Refilled(t, s, a, p)
<1>1. Books(s) /\ Listed(s) /\ Paid(s) /\ Limited(s)  BY DEF Sound
<1>2. s = [positions |-> s.positions, orders |-> s.orders, active |-> s.active,
           market |-> s.market, limit |-> s.limit, held |-> s.held]  BY <1>1 DEF Books
<1>3. t = [positions |-> [s.positions EXCEPT ![a] = p], orders |-> s.orders, active |-> s.active,
           market |-> s.market, limit |-> s.limit, held |-> s.held]
  BY <1>2
<1>4. /\ t.positions = [s.positions EXCEPT ![a] = p] /\ t.orders = s.orders /\ t.active = s.active
      /\ t.market = s.market /\ t.limit = s.limit /\ t.held = s.held
  BY <1>3
<1>5. s.positions \in [Accounts -> Int]  BY <1>1 DEF Books
<1>6. t.positions \in [Accounts -> Int] /\ t.positions[a] = p
      /\ \A b \in Accounts : b # a => t.positions[b] = s.positions[b]
  BY <1>4, <1>5
<1>7. Books(t)  BY <1>1, <1>3, <1>4, <1>6 DEF Books
<1>8. Listed(t) /\ Paid(t)  BY <1>1, <1>4 DEF Listed, Paid
<1>9. Limited(t)
  <2> SUFFICES ASSUME NEW b \in Accounts PROVE WithinLimit(t.positions[b])  BY DEF Limited
  <2> QED BY <1>1, <1>6 DEF Limited
<1> QED BY <1>4, <1>6, <1>7, <1>8, <1>9 DEF Sound, Refilled

\* What executing order id of the books s does: nothing, or it leaves, and its
\* position stays or is what the order makes of it.
Outcome(t, s, id) ==
    /\ id \in DOMAIN s.orders /\ Sound(t)
    /\ \/ t.orders = s.orders /\ t.positions = s.positions
       \/ /\ Leaves(t, s, id)
          /\ \A b \in Accounts : b # id[1] => t.positions[b] = s.positions[b]
          /\ \/ t.positions[id[1]] = s.positions[id[1]]
             \/ MovedBy(t.positions[id[1]], s.positions[id[1]], s.orders[id])

\* _executeOrder.
LEMMA ExecuteOneSound ==
    ASSUME NEW s, Sound(s), NEW id \in Ids, NEW price, NEW accepted, NEW isRevert,
           NEW t \in ExecuteOne(s, id, price, accepted, isRevert)
    PROVE  Outcome(t, s, id)
<1> DEFINE o == s.orders[id]
           a == id[1]
           reached == IF id \in accepted THEN Executed(s.positions[a], o, price) ELSE {}
           both == {[u EXCEPT !.positions[a] = p] : p \in reached, u \in Settled(s, id)}
<1>1. t \in (IF id \notin DOMAIN s.orders THEN {}
             ELSE IF Stale(o) THEN Settled(s, id)
             ELSE IF reached # {} /\ Settled(s, id) # {} THEN both
             ELSE IF DropsWhenRefused(o) THEN Settled(s, id)
             ELSE IF isRevert THEN {} ELSE {s})
  BY DEF ExecuteOne
<1>2. a \in Accounts  BY DEF Ids
<1> HIDE DEF both, reached, o, a
<1>3. id \in DOMAIN s.orders  BY <1>1
<1>4. t \in Settled(s, id) \/ t \in both \/ t = s  BY <1>1
<1>5. CASE t \in Settled(s, id)
  <2>1. Sound(t) /\ Leaves(t, s, id) /\ t.positions = s.positions  BY <1>3, <1>5, SettledSound
  <2> QED BY <1>3, <2>1 DEF Outcome
<1>6. CASE t \in both
  <2>1. PICK p \in reached, u \in Settled(s, id) : t = [u EXCEPT !.positions[a] = p]
    BY <1>6 DEF both
  <2>2. Sound(u) /\ Leaves(u, s, id) /\ u.positions = s.positions  BY <1>3, <2>1, SettledSound
  <2>3. s.positions \in [Accounts -> Int] /\ o \in Order /\ WithinLimit(s.positions[a])
    BY <1>2, <1>3 DEF Sound, Books, Kept, Limited, o
  <2>4. p \in Executed(s.positions[a], o, price)  BY <2>1 DEF reached
  <2>5. p \in Int /\ MovedBy(p, s.positions[a], o) /\ WithinLimit(p)
    <3> DEFINE x == s.positions[a]
    <3>1. x \in Int  BY <1>2, <2>3
    <3> HIDE DEF x
    <3>2. x = s.positions[a]  BY DEF x
    <3>3. p \in Int /\ MovedBy(p, x, o) /\ WithinLimit(p)
      BY <2>3, <2>4, <3>1, <3>2, ExecutedMoves
    <3> QED BY <3>2, <3>3
  <2>6. Sound(t) /\ Refilled(t, u, a, p)  BY <1>2, <2>1, <2>2, <2>5, FilledSound, Zenon
  <2>7. Leaves(t, s, id)  BY <2>2, <2>6 DEF Leaves, Refilled
  <2> QED BY <1>3, <2>2, <2>5, <2>6, <2>7 DEF Outcome, Refilled, a, o
<1>7. CASE t = s  BY <1>3, <1>7 DEF Outcome
<1> QED BY <1>4, <1>5, <1>6, <1>7

-----------------------------------------------------------------------------
(***************************************************************************)
(* What a batch has done since it began, from the books r to the books s.  *)
(***************************************************************************)
Gone(s, r, a) == {id \in DOMAIN r.orders : id[1] = a} \ DOMAIN s.orders

\* The orders that are left are what they were.
Fewer(s, r) ==
    /\ DOMAIN s.orders \in SUBSET DOMAIN r.orders
    /\ \A id \in DOMAIN s.orders : s.orders[id] = r.orders[id]

\* The position of account a moved as the orders that are gone say.
MovedSince(s, r, a) ==
    /\ Gone(s, r, a) = {} => s.positions[a] = r.positions[a]
    /\ (\A id \in Gone(s, r, a) : r.orders[id].reduceOnly) => Shrunk(s.positions[a], r.positions[a])
    /\ \A id \in Ids : Gone(s, r, a) = {id} /\ ~r.orders[id].reduceOnly
         => s.positions[a] - r.positions[a] \in {0, SizeDelta(r.positions[a], r.orders[id])}

Since(s, r) == Sound(s) /\ Fewer(s, r) /\ \A a \in Accounts : MovedSince(s, r, a)

LEMMA SinceRefl ==
    ASSUME NEW s, Sound(s)
    PROVE  Since(s, s)
<1>1. Fewer(s, s)  BY DEF Fewer
<1>2. ASSUME NEW a \in Accounts PROVE MovedSince(s, s, a)
  <2>1. Gone(s, s, a) = {}  BY DEF Gone
  <2>2. s.positions[a] \in Int  BY DEF Sound, Books
  <2>3. Shrunk(s.positions[a], s.positions[a])  BY <2>2, ShrunkRefl
  <2> QED BY <2>1, <2>3 DEF MovedSince
<1> QED BY <1>1, <1>2 DEF Since

LEMMA GoneStep ==
    ASSUME NEW r, NEW s, NEW t, NEW id \in DOMAIN s.orders, Fewer(s, r), Leaves(t, s, id)
    PROVE  /\ Fewer(t, r) /\ r.orders[id] = s.orders[id] /\ id \in DOMAIN r.orders
           /\ id \notin Gone(s, r, id[1]) /\ Gone(t, r, id[1]) = Gone(s, r, id[1]) \cup {id}
           /\ \A b : b # id[1] => Gone(t, r, b) = Gone(s, r, b)
BY DEF Fewer, Leaves, Gone

LEMMA SinceStep ==
    ASSUME NEW r, Sound(r), NEW s, Since(s, r), NEW id, NEW t, Outcome(t, s, id)
    PROVE  Since(t, r)
<1>1. Sound(s) /\ Fewer(s, r) /\ \A a \in Accounts : MovedSince(s, r, a)  BY DEF Since
<1>2. Sound(t) /\ id \in DOMAIN s.orders  BY DEF Outcome
<1>3. CASE t.orders = s.orders /\ t.positions = s.positions
  <2>1. \A a : Gone(t, r, a) = Gone(s, r, a)  BY <1>3 DEF Gone
  <2>2. Fewer(t, r)  BY <1>1, <1>3 DEF Fewer
  <2>3. \A a \in Accounts : MovedSince(t, r, a)  BY <1>1, <1>3, <2>1 DEF MovedSince
  <2> QED BY <1>2, <2>2, <2>3 DEF Since
<1>4. CASE /\ Leaves(t, s, id)
           /\ \A b \in Accounts : b # id[1] => t.positions[b] = s.positions[b]
           /\ \/ t.positions[id[1]] = s.positions[id[1]]
              \/ MovedBy(t.positions[id[1]], s.positions[id[1]], s.orders[id])
  <2> DEFINE a == id[1]
             o == s.orders[id]
             p0 == r.positions[a]
             p == s.positions[a]
             q == t.positions[a]
  <2>1. id \in Ids /\ a \in Accounts /\ o \in Order
    BY <1>1, <1>2 DEF Sound, Books, Kept, Ids
  <2>2. p0 \in Int /\ p \in Int /\ q \in Int  BY <1>1, <1>2, <2>1 DEF Sound, Books
  <2>3. /\ Fewer(t, r) /\ r.orders[id] = o
        /\ id \notin Gone(s, r, a) /\ Gone(t, r, a) = Gone(s, r, a) \cup {id}
        /\ \A b : b # a => Gone(t, r, b) = Gone(s, r, b)
    BY <1>1, <1>2, <1>4, GoneStep
  <2>4. q = p \/ MovedBy(q, p, o)  BY <1>4
  <2>5. MovedSince(s, r, a)  BY <1>1, <2>1
  <2>6. MovedSince(t, r, a)
    <3>1. Gone(t, r, a) # {}  BY <2>3
    <3>2. ASSUME \A x \in Gone(t, r, a) : r.orders[x].reduceOnly PROVE Shrunk(q, p0)
      <4>1. o.reduceOnly  BY <2>3, <3>2
      <4>2. Shrunk(p, p0)  BY <2>3, <2>5, <3>2 DEF MovedSince
      <4>3. q = p \/ Shrunk(q, p)  BY <2>4, <4>1 DEF MovedBy
      <4> HIDE DEF p0, p, q
      <4> QED BY <2>2, <4>2, <4>3, ShrunkTrans
    <3>3. ASSUME NEW x \in Ids, Gone(t, r, a) = {x}, ~r.orders[x].reduceOnly
          PROVE  q - p0 \in {0, SizeDelta(p0, r.orders[x])}
      <4>1. x = id /\ Gone(s, r, a) = {}  BY <2>3, <3>3
      <4>2. p = p0  BY <2>5, <4>1 DEF MovedSince
      <4>3. ~o.reduceOnly /\ r.orders[x] = o  BY <2>3, <3>3, <4>1
      <4>4. q = p \/ q - p = SizeDelta(p, o)  BY <2>4, <4>3 DEF MovedBy
      <4> HIDE DEF p0, p, q, o
      <4> QED BY <2>2, <4>2, <4>3, <4>4
    <3> QED BY <3>1, <3>2, <3>3 DEF MovedSince
  <2>7. ASSUME NEW b \in Accounts, b # a PROVE MovedSince(t, r, b)
    <3>1. t.positions[b] = s.positions[b] /\ Gone(t, r, b) = Gone(s, r, b)  BY <1>4, <2>3, <2>7
    <3> QED BY <1>1, <3>1 DEF MovedSince
  <2> QED BY <1>2, <2>3, <2>6, <2>7 DEF Since
<1> QED BY <1>3, <1>4 DEF Outcome

\* The states that a batch may pass through.
Passed ==
    {s \in [positions : [Accounts -> Int], orders : UNION {[D -> Order] : D \in SUBSET Ids},
            active : SUBSET Ids, market : SUBSET Ids, limit : SUBSET Ids, held : Nat] :
        Since(s, State)}

LEMMA SinceIsPassed ==
    ASSUME NEW s, Since(s, State)
    PROVE  s \in Passed
<1>1. Books(s) /\ Listed(s)  BY DEF Since, Sound
<1>2. s.positions \in [Accounts -> Int] /\ s.held \in Nat  BY <1>1 DEF Books
<1>3. s.orders \in [DOMAIN s.orders -> Order] /\ DOMAIN s.orders \in SUBSET Ids
  BY <1>1 DEF Books, Kept
<1>4. s.active \in SUBSET Ids /\ s.market \in SUBSET Ids /\ s.limit \in SUBSET Ids
  BY <1>1, <1>3 DEF Listed
<1>5. s = [positions |-> s.positions, orders |-> s.orders, active |-> s.active,
           market |-> s.market, limit |-> s.limit, held |-> s.held]  BY <1>1 DEF Books
<1>6. s.orders \in UNION {[D -> Order] : D \in SUBSET Ids}  BY <1>3
<1> QED BY <1>2, <1>4, <1>5, <1>6 DEF Passed

\* executeOrders: the states that a batch leaves, turn by turn.
LEMMA ExecutionsSince ==
    ASSUME Sound(State), NEW batch, batch \in Seq(Ids), NEW price, NEW accepted, NEW isRevert,
           NEW s \in Executions(batch, price, accepted, isRevert)
    PROVE  Since(s, State)
<1> DEFINE n == Len(batch)
           U == SUBSET Passed
           start == {State}
           Turn(i, X) == UNION {ExecuteOne(x, batch[i], price, accepted, isRevert) : x \in X}
           Eqn(f) == f = [i \in 0..n |-> IF i = 0 THEN start ELSE Turn(i, f[i - 1])]
           step == [i \in 1..n |-> [X \in U |-> Turn(i, X)]]
<1>1. n \in Nat /\ \A i \in 1..n : batch[i] \in Ids  OBVIOUS
<1>2. start \in U
  <2>1. Since(State, State)  BY SinceRefl
  <2>2. State \in Passed  BY <2>1, SinceIsPassed
  <2> QED BY <2>2
<1>3. ASSUME NEW i \in 1..n, NEW X \in U PROVE Turn(i, X) \in U
  <2> SUFFICES ASSUME NEW x \in X, NEW t \in ExecuteOne(x, batch[i], price, accepted, isRevert)
               PROVE  t \in Passed
    OBVIOUS
  <2>1. Since(x, State)  BY DEF Passed
  <2>2. Sound(x)  BY <2>1 DEF Since
  <2>3. batch[i] \in Ids  BY <1>1
  <2> DEFINE id == batch[i]
  <2> HIDE DEF id
  <2>4. id \in Ids /\ t \in ExecuteOne(x, id, price, accepted, isRevert)  BY <2>3 DEF id
  <2>5. Outcome(t, x, id)  BY <2>2, <2>4, ExecuteOneSound
  <2>6. Since(t, State)  BY <2>1, <2>5, SinceStep
  <2> QED BY <2>6, SinceIsPassed
<1>4. step \in [1..n -> [U -> U]]  BY <1>3
<1>5. PICK g \in [0..n -> U] : IsLoop(g, start, step, n)
  <2> HIDE DEF step, n, U, start
  <2> QED BY <1>1, <1>2, <1>4, LoopIn
<1>6. Eqn(g)
  <2>1. \A i \in 1..n : step[i][g[i - 1]] = Turn(i, g[i - 1])
    <3> TAKE i \in 1..n
    <3>1. i - 1 \in 0..n  BY <1>1
    <3>2. g[i - 1] \in U  BY <3>1
    <3> HIDE DEF Turn, U
    <3> QED BY <3>2
  <2>2. g = [i \in 0..n |-> IF i = 0 THEN start ELSE step[i][g[i - 1]]]  BY <1>5 DEF IsLoop
  <2>3. \A i \in 0..n : i # 0 => i \in 1..n  BY <1>1
  <2> HIDE DEF step, n, Turn, start
  <2> QED BY <2>1, <2>2, <2>3
<1> DEFINE f == CHOOSE h : Eqn(h)
<1>7. Eqn(f)
  <2> HIDE DEF Eqn
  <2> QED BY <1>6
<1>8. Executions(batch, price, accepted, isRevert) = f[n]  BY DEF Executions
<1>9. \A i \in 0..n : f[i] = IF i = 0 THEN start ELSE Turn(i, f[i - 1])
  <2> HIDE DEF f, Turn, start
  <2> QED BY <1>7
<1> DEFINE T == {i \in 0..n : f[i] \in U}
<1> HIDE DEF f, start, U, Turn
<1>10. 0 \in T  BY <1>1, <1>2, <1>9
<1>11. ASSUME NEW i \in 1..n, i - 1 \in T PROVE i \in T
  <2>1. i \in 0..n /\ i # 0 /\ f[i - 1] \in U  BY <1>1, <1>11
  <2>2. f[i] = Turn(i, f[i - 1])  BY <1>9, <2>1
  <2>3. Turn(i, f[i - 1]) \in U  BY <1>3, <2>1
  <2> QED BY <2>1, <2>2, <2>3
<1>12. \A i \in 0..n : i \in T
  <2> HIDE DEF T, n
  <2> QED BY <1>1, <1>10, <1>11, TurnInduction
<1>13. f[n] \in U  BY <1>1, <1>12
<1>14. s \in f[n]  BY <1>8
<1> QED BY <1>13, <1>14 DEF U, Passed
-----------------------------------------------------------------------------
(***************************************************************************)
(* The inductive invariant: the books are sound, and every order is older  *)
(* than the next one of its account.                                       *)
(***************************************************************************)
Indexed ==
    /\ limitOrdersIndex \in [Accounts -> 0..MaxOrders]
    /\ \A id \in DOMAIN limitOrders : id[2] < limitOrdersIndex[id[1]]
IndInv == Sound(State) /\ time \in Nat /\ Indexed

\* The books are sound, in terms of the variables.
BooksAreSound ==
    /\ positions \in [Accounts -> Int]
    /\ DOMAIN limitOrders \in SUBSET Ids
    /\ limitOrders = [id \in DOMAIN limitOrders |-> limitOrders[id]]
    /\ \A id \in DOMAIN limitOrders : Kept(limitOrders[id])
    /\ held \in Nat
    /\ activeOrderPointers = DOMAIN limitOrders
    /\ activeMarketOrderPointers = {id \in DOMAIN limitOrders : limitOrders[id].triggerPrice = 0}
    /\ activeLimitOrderPointers = {id \in DOMAIN limitOrders : limitOrders[id].triggerPrice # 0}
    /\ held = SumFunction(FeesOf(limitOrders))
    /\ \A a \in Accounts : WithinLimit(positions[a])

LEMMA SoundState == Sound(State) <=> BooksAreSound
BY DEF Sound, Books, Listed, Paid, Limited, State, BooksAreSound

LEMMA SoundStateNext == Sound(State)' <=> BooksAreSound'
BY DEF Sound, Books, Listed, Paid, Limited, State, BooksAreSound

LEMMA InitInv == Init => IndInv
<1> SUFFICES ASSUME Init PROVE IndInv  OBVIOUS
<1> DEFINE f == FeesOf(limitOrders)
<1>1. DOMAIN limitOrders = {} /\ limitOrders = [id \in DOMAIN limitOrders |-> limitOrders[id]]
  BY DEF Init
<1>2. SumFunction(f) = 0
  <2>1. f \in [Ids -> Int] /\ \A id \in Ids : f[id] = 0  BY <1>1 DEF FeesOf
  <2> HIDE DEF f
  <2> QED BY <2>1, IdsFinite, SumFunctionZero
<1>3. \A a \in Accounts : WithinLimit(positions[a])
  BY TradeOrderAssumption DEF Init, WithinLimit, Size
<1>4. BooksAreSound
  <2>1. held = SumFunction(FeesOf(limitOrders)) /\ held \in Nat  BY <1>2 DEF Init
  <2>2. positions \in [Accounts -> Int]  BY DEF Init
  <2> QED BY <1>1, <1>3, <2>1, <2>2 DEF BooksAreSound, Init
<1>5. Indexed  BY <1>1, LimitOrderAssumption DEF Init, Indexed
<1> QED BY <1>4, <1>5, SoundState DEF IndInv, Init

LEMMA TermsTypes ==
    ASSUME NEW terms \in Terms
    PROVE  /\ terms.sizeDelta \in Int /\ terms.triggerPrice \in Nat
           /\ terms.reduceOnly \in BOOLEAN /\ terms.triggerAboveThreshold \in BOOLEAN
<1>1. Deltas \subseteq Int
  <2>1. (-MaxDelta)..MaxDelta \subseteq Int  BY TradeOrderAssumption
  <2> QED BY <2>1, LimitOrderAssumption
<1>2. Prices \cup {0} \subseteq Nat  BY TradeOrderAssumption
<1> QED BY <1>1, <1>2 DEF Terms

\* createOrder, _createOrder, _addOrder.
LEMMA CreateInv ==
    ASSUME IndInv, NEW a \in Accounts, NEW terms \in Terms, NEW fee \in Fees,
           CreateOrder(a, terms, fee)
    PROVE  IndInv'
<1> DEFINE n == limitOrdersIndex[a]
           id == <<a, n>>
           above == terms.triggerPrice = 0 \/ terms.triggerAboveThreshold
           order == [sizeDelta |-> terms.sizeDelta, triggerPrice |-> terms.triggerPrice,
                     triggerAboveThreshold |-> above,
                     reduceOnly |-> terms.reduceOnly, executionFee |-> fee,
                     createdTimestamp |-> time]
           f == FeesOf(limitOrders)
           g == FeesOf(limitOrders')
<1>1. BooksAreSound /\ time \in Nat /\ Indexed  BY SoundState DEF IndInv
<1>2. /\ n < MaxOrders
      /\ limitOrdersIndex' = [limitOrdersIndex EXCEPT ![a] = @ + 1]
      /\ limitOrders' = [x \in DOMAIN limitOrders \cup {id} |-> IF x = id THEN order ELSE limitOrders[x]]
      /\ activeOrderPointers' = activeOrderPointers \cup {id}
      /\ activeMarketOrderPointers' = Pointed(activeMarketOrderPointers, id, terms.triggerPrice = 0)
      /\ activeLimitOrderPointers' = Pointed(activeLimitOrderPointers, id, terms.triggerPrice # 0)
      /\ held' = held + fee /\ positions' = positions /\ time' = time
  BY DEF CreateOrder
<1>3. n \in Nat /\ n \in 0..MaxOrders /\ n + 1 \in 0..MaxOrders /\ MaxOrders \in Nat /\ fee \in Nat /\ id \in Ids
  <2>1. n \in 0..MaxOrders /\ MaxOrders \in Nat /\ fee \in Nat
    BY <1>1, LimitOrderAssumption DEF Indexed
  <2>2. n \in 0..(MaxOrders - 1)  BY <1>2, <2>1
  <2> HIDE DEF n
  <2> QED BY <1>2, <2>1, <2>2 DEF Ids
<1>4. id \notin DOMAIN limitOrders  BY <1>1, <1>3 DEF Indexed
<1>5. Kept(order)
  <2>1. /\ terms.sizeDelta \in Int /\ terms.triggerPrice \in Nat
        /\ terms.reduceOnly \in BOOLEAN /\ terms.triggerAboveThreshold \in BOOLEAN
    BY TermsTypes
  <2>2. above \in BOOLEAN /\ (terms.triggerPrice = 0 => above)  OBVIOUS
  <2> HIDE DEF above
  <2> QED BY <1>1, <1>3, <2>1, <2>2 DEF Kept, Order
<1>6. order.triggerPrice = terms.triggerPrice /\ order.executionFee = fee  OBVIOUS
<1> HIDE DEF order, id
<1>7. /\ DOMAIN limitOrders' = DOMAIN limitOrders \cup {id} /\ limitOrders'[id] = order
      /\ \A x \in DOMAIN limitOrders : limitOrders'[x] = limitOrders[x]
  BY <1>2, <1>4
<1>8. limitOrders' = [x \in DOMAIN limitOrders' |-> limitOrders'[x]]  BY <1>2
<1>9. /\ activeOrderPointers' = DOMAIN limitOrders'
      /\ activeMarketOrderPointers' = {x \in DOMAIN limitOrders' : limitOrders'[x].triggerPrice = 0}
      /\ activeLimitOrderPointers' = {x \in DOMAIN limitOrders' : limitOrders'[x].triggerPrice # 0}
  <2>1. activeOrderPointers' = DOMAIN limitOrders'  BY <1>1, <1>2, <1>7 DEF BooksAreSound
  <2>2. CASE terms.triggerPrice = 0
    <3>1. activeMarketOrderPointers' = activeMarketOrderPointers \cup {id}
          /\ activeLimitOrderPointers' = activeLimitOrderPointers
      BY <1>2, <2>2 DEF Pointed
    <3> QED BY <1>1, <1>6, <1>7, <2>1, <2>2, <3>1 DEF BooksAreSound
  <2>3. CASE terms.triggerPrice # 0
    <3>1. activeLimitOrderPointers' = activeLimitOrderPointers \cup {id}
          /\ activeMarketOrderPointers' = activeMarketOrderPointers
      BY <1>2, <2>3 DEF Pointed
    <3> QED BY <1>1, <1>6, <1>7, <2>1, <2>3, <3>1 DEF BooksAreSound
  <2> QED BY <2>2, <2>3
<1>10. \A x \in DOMAIN limitOrders' : Kept(limitOrders'[x])
  BY <1>1, <1>5, <1>7 DEF BooksAreSound
<1>11. held' = SumFunction(g)
  <2>1. \A x \in DOMAIN limitOrders : limitOrders[x].executionFee \in Nat
    BY <1>1 DEF BooksAreSound, Kept, Order
  <2>2. f \in [Ids -> Int]  BY <2>1 DEF FeesOf
  <2>3. \A x \in DOMAIN limitOrders' : limitOrders'[x].executionFee \in Nat
    BY <1>10 DEF Kept, Order
  <2>4. g \in [Ids -> Int]  BY <2>3 DEF FeesOf
  <2>5. \A x \in Ids : x # id => g[x] = f[x]  BY <1>7 DEF FeesOf
  <2>6. f[id] = 0 /\ g[id] = fee  BY <1>3, <1>4, <1>6, <1>7 DEF FeesOf
  <2>7. held = SumFunction(f)  BY <1>1 DEF BooksAreSound
  <2> HIDE DEF f, g
  <2>8. SumFunction(g) = SumFunction(f) + g[id] - f[id]
    BY <1>3, <2>2, <2>4, <2>5, IdsFinite, SumFunctionChange
  <2>9. SumFunction(f) \in Int  BY <2>2, IdsFinite, SumFunctionInt
  <2> QED BY <1>2, <1>3, <2>6, <2>7, <2>8, <2>9
<1>12. BooksAreSound'
  <2>1. DOMAIN limitOrders' \in SUBSET Ids  BY <1>1, <1>3, <1>7 DEF BooksAreSound
  <2>2. held' \in Nat  BY <1>1, <1>2, <1>3 DEF BooksAreSound
  <2>3. positions' \in [Accounts -> Int] /\ \A b \in Accounts : WithinLimit(positions'[b])
    BY <1>1, <1>2 DEF BooksAreSound
  <2> QED BY <1>8, <1>9, <1>10, <1>11, <2>1, <2>2, <2>3 DEF BooksAreSound
<1>13. Indexed'
  <2>1. limitOrdersIndex' \in [Accounts -> 0..MaxOrders] /\ limitOrdersIndex'[a] = n + 1
        /\ \A b \in Accounts : b # a => limitOrdersIndex'[b] = limitOrdersIndex[b]
    BY <1>1, <1>2, <1>3 DEF Indexed
  <2>2. ASSUME NEW x \in DOMAIN limitOrders' PROVE x[2] < limitOrdersIndex'[x[1]]
    <3>1. CASE x = id
      <4>1. x[1] = a /\ x[2] = n  BY <3>1 DEF id
      <4> HIDE DEF n
      <4> QED BY <1>3, <2>1, <4>1
    <3>2. CASE x \in DOMAIN limitOrders
      <4>1. x[1] \in Accounts /\ x[2] \in Int /\ x[2] < limitOrdersIndex[x[1]]
        BY <1>1, <3>2 DEF BooksAreSound, Indexed, Ids
      <4>2. CASE x[1] = a
        <5>1. x[2] < n  BY <4>1, <4>2
        <5> HIDE DEF n
        <5> QED BY <1>3, <2>1, <4>1, <4>2, <5>1
      <4>3. CASE x[1] # a  BY <2>1, <4>1, <4>3
      <4> QED BY <4>2, <4>3
    <3> QED BY <1>7, <3>1, <3>2
  <2> QED BY <2>1, <2>2 DEF Indexed
<1> QED BY <1>1, <1>2, <1>12, <1>13, SoundStateNext DEF IndInv
\* updateOrder, _updateOrder: the order keeps its kind and its fee.
LEMMA UpdateInv ==
    ASSUME IndInv, NEW id \in Ids, NEW terms \in Terms, UpdateOrder(id, terms)
    PROVE  IndInv' /\ DOMAIN limitOrders' = DOMAIN limitOrders
           /\ FeesOf(limitOrders') = FeesOf(limitOrders)
<1> DEFINE o == limitOrders[id]
           u == [o EXCEPT !.sizeDelta = terms.sizeDelta, !.triggerPrice = terms.triggerPrice,
                          !.triggerAboveThreshold = terms.triggerAboveThreshold,
                          !.reduceOnly = terms.reduceOnly]
<1>1. BooksAreSound /\ time \in Nat /\ Indexed  BY SoundState DEF IndInv
<1>2. /\ id \in DOMAIN limitOrders /\ o.triggerPrice # 0 /\ terms.triggerPrice # 0
      /\ limitOrders' = [limitOrders EXCEPT ![id] = u]
  BY DEF UpdateOrder, MayUpdate
<1>3. /\ positions' = positions /\ limitOrdersIndex' = limitOrdersIndex
      /\ activeOrderPointers' = activeOrderPointers
      /\ activeMarketOrderPointers' = activeMarketOrderPointers
      /\ activeLimitOrderPointers' = activeLimitOrderPointers /\ held' = held /\ time' = time
  BY DEF UpdateOrder
<1>4. o \in Order  BY <1>1, <1>2 DEF BooksAreSound, Kept
<1>5. /\ terms.sizeDelta \in Int /\ terms.triggerPrice \in Nat
      /\ terms.reduceOnly \in BOOLEAN /\ terms.triggerAboveThreshold \in BOOLEAN
  BY TermsTypes
<1>6. u \in Order /\ u.triggerPrice = terms.triggerPrice /\ u.executionFee = o.executionFee
  BY <1>4, <1>5 DEF Order
<1> HIDE DEF u, o
<1>7. /\ DOMAIN limitOrders' = DOMAIN limitOrders /\ limitOrders'[id] = u
      /\ \A x \in DOMAIN limitOrders : x # id => limitOrders'[x] = limitOrders[x]
  BY <1>2
<1>8. limitOrders' = [x \in DOMAIN limitOrders' |-> limitOrders'[x]]
  BY <1>1, <1>2 DEF BooksAreSound
<1>9. \A x \in DOMAIN limitOrders' : Kept(limitOrders'[x])
  BY <1>1, <1>2, <1>6, <1>7 DEF BooksAreSound, Kept
<1>10. \A x \in DOMAIN limitOrders :
         /\ limitOrders'[x].triggerPrice = 0 <=> limitOrders[x].triggerPrice = 0
         /\ limitOrders'[x].executionFee = limitOrders[x].executionFee
  BY <1>2, <1>6, <1>7 DEF o
<1>11. FeesOf(limitOrders') = FeesOf(limitOrders)  BY <1>7, <1>10 DEF FeesOf
<1>12. BooksAreSound'
  <2>1. {x \in DOMAIN limitOrders' : limitOrders'[x].triggerPrice = 0}
        = {x \in DOMAIN limitOrders : limitOrders[x].triggerPrice = 0}  BY <1>7, <1>10
  <2>2. {x \in DOMAIN limitOrders' : limitOrders'[x].triggerPrice # 0}
        = {x \in DOMAIN limitOrders : limitOrders[x].triggerPrice # 0}  BY <1>7, <1>10
  <2> QED BY <1>1, <1>3, <1>7, <1>8, <1>9, <1>11, <2>1, <2>2 DEF BooksAreSound
<1>13. Indexed'  BY <1>1, <1>3, <1>7 DEF Indexed
<1> QED BY <1>1, <1>3, <1>7, <1>11, <1>12, <1>13, SoundStateNext DEF IndInv

\* The books become those that a batch or a cancellation leaves.
LEMMA BecomesInv ==
    ASSUME IndInv, NEW s, Since(s, State), Becomes(s),
           UNCHANGED <<limitOrdersIndex, time>>
    PROVE  IndInv' /\ Since(State', State)
<1>1. Sound(s) /\ Books(s) /\ Fewer(s, State)  BY DEF Since, Sound
<1>2. State' = [positions |-> s.positions, orders |-> s.orders, active |-> s.active,
                market |-> s.market, limit |-> s.limit, held |-> s.held]
  BY DEF State, Becomes
<1>3. State' = s  BY <1>1, <1>2 DEF Books
<1>4. Sound(State)'
  <2>1. Sound(State')  BY <1>1, <1>3
  <2> QED BY <2>1
<1>5. Indexed'
  <2>1. DOMAIN limitOrders' \in SUBSET DOMAIN limitOrders
    BY <1>1 DEF Fewer, State, Becomes
  <2> QED BY <2>1 DEF IndInv, Indexed
<1> QED BY <1>3, <1>4, <1>5 DEF IndInv

\* cancelOrder, _cancelOrder.
LEMMA CancelInv ==
    ASSUME IndInv, NEW id \in Ids, CancelOrder(id)
    PROVE  IndInv' /\ Since(State', State)
<1>1. Sound(State)  BY DEF IndInv
<1>2. id \in DOMAIN State.orders  BY DEF CancelOrder, State
<1>3. PICK s \in Settled(State, id) : Becomes(s)  BY DEF CancelOrder
<1> DEFINE r == State
<1>4. r = State  OBVIOUS
<1> HIDE DEF r
<1>5. Sound(s) /\ Leaves(s, r, id) /\ s.positions = r.positions
  BY <1>1, <1>2, <1>3, <1>4, SettledSound
<1>6. Outcome(s, r, id)  BY <1>2, <1>4, <1>5 DEF Outcome
<1>7. Since(s, r)  BY <1>1, <1>4, <1>6, SinceRefl, SinceStep
<1> QED BY <1>3, <1>4, <1>7, BecomesInv DEF CancelOrder

\* executeOrders.
LEMMA ExecuteInv ==
    ASSUME IndInv, NEW batch \in Batches, NEW price, NEW accepted, NEW isRevert,
           ExecuteOrders(batch, price, accepted, isRevert)
    PROVE  IndInv' /\ Since(State', State)
<1>1. Sound(State) /\ BooksAreSound  BY SoundState DEF IndInv
<1>2. batch \in Seq(Ids)
  <2>1. activeOrderPointers \subseteq Ids  BY <1>1 DEF BooksAreSound
  <2>2. PICK n \in 1..MaxBatch : batch \in [1..n -> activeOrderPointers]  BY DEF Batches
  <2>3. n \in Nat  BY TradeOrderAssumption
  <2> QED BY <2>1, <2>2, <2>3
<1>3. PICK s \in Executions(batch, price, accepted, isRevert) : Becomes(s)
  BY DEF ExecuteOrders
<1>4. Since(s, State)  BY <1>1, <1>2, <1>3, ExecutionsSince
<1> QED BY <1>3, <1>4, BecomesInv DEF ExecuteOrders

LEMMA OtherInv ==
    ASSUME IndInv, NEW a \in Accounts, NEW p \in (-PositionSizeLimit)..PositionSizeLimit,
           OtherTrade(a, p)
    PROVE  IndInv'
<1>1. BooksAreSound /\ time \in Nat /\ Indexed  BY SoundState DEF IndInv
<1>2. p \in Int /\ WithinLimit(p)
  BY TradeOrderAssumption DEF WithinLimit, HasLimit, Size
<1>3. positions' = [positions EXCEPT ![a] = p] /\ UNCHANGED <<book, limitOrdersIndex, time>>
  BY DEF OtherTrade
<1>4. positions' \in [Accounts -> Int] /\ \A b \in Accounts : WithinLimit(positions'[b])
  BY <1>1, <1>2, <1>3 DEF BooksAreSound
<1>5. BooksAreSound'  BY <1>1, <1>3, <1>4 DEF BooksAreSound, book
<1> QED BY <1>1, <1>3, <1>5, SoundStateNext DEF IndInv, Indexed, book
\* Steps in which no order leaves.
Stays == DOMAIN limitOrders \subseteq DOMAIN limitOrders'

\* Every step either lets no order leave, or is what a batch may do.
LEMMA StepInv ==
    ASSUME IndInv, [Next]_vars
    PROVE  IndInv' /\ (Stays \/ Since(State', State))
<1>1. ASSUME NEW a \in Accounts, NEW terms \in Terms, NEW fee \in Fees, CreateOrder(a, terms, fee)
      PROVE  IndInv' /\ Stays
  <2>1. IndInv'  BY <1>1, CreateInv
  <2>2. Stays  BY <1>1 DEF CreateOrder, Stays
  <2> QED BY <2>1, <2>2
<1>2. ASSUME NEW id \in Ids, NEW terms \in Terms, UpdateOrder(id, terms)
      PROVE  IndInv' /\ Stays
  <2>1. IndInv' /\ DOMAIN limitOrders' = DOMAIN limitOrders  BY <1>2, UpdateInv
  <2> QED BY <2>1 DEF Stays
<1>3. ASSUME NEW id \in Ids, CancelOrder(id)
      PROVE  IndInv' /\ Since(State', State)
  BY <1>3, CancelInv
<1>4. ASSUME NEW batch \in Batches, NEW price \in Prices, NEW accepted \in SUBSET Ids,
             NEW isRevert \in BOOLEAN, ExecuteOrders(batch, price, accepted, isRevert)
      PROVE  IndInv' /\ Since(State', State)
  BY <1>4, ExecuteInv
<1>5. ASSUME NEW a \in Accounts, NEW p \in (-PositionSizeLimit)..PositionSizeLimit, OtherTrade(a, p)
      PROVE  IndInv' /\ Stays
  <2>1. IndInv'  BY <1>5, OtherInv
  <2>2. Stays  BY <1>5 DEF OtherTrade, book, Stays
  <2> QED BY <2>1, <2>2
<1>6. CASE Tick
  <2>1. BooksAreSound /\ time \in Nat /\ Indexed  BY SoundState DEF IndInv
  <2>2. BooksAreSound' /\ Indexed' /\ time' \in Nat
    BY <1>6, <2>1 DEF Tick, book, BooksAreSound, Indexed
  <2>3. Stays  BY <1>6 DEF Tick, book, Stays
  <2> QED BY <2>2, <2>3, SoundStateNext DEF IndInv
<1>7. CASE UNCHANGED vars
  <2>1. BooksAreSound /\ time \in Nat /\ Indexed  BY SoundState DEF IndInv
  <2>2. BooksAreSound' /\ Indexed' /\ time' \in Nat
    BY <1>7, <2>1 DEF vars, BooksAreSound, Indexed
  <2>3. Stays  BY <1>7 DEF vars, Stays
  <2> QED BY <2>2, <2>3, SoundStateNext DEF IndInv
<1> QED BY <1>1, <1>2, <1>3, <1>4, <1>5, <1>6, <1>7 DEF Next

LEMMA InvNext == IndInv /\ [Next]_vars => IndInv'
BY StepInv

\* The three lists of pointers list exactly the orders, each of its kind,
\* after updates and after batches that name an order more than once
\* (LimitTradeHandler._addOrder, _removeOrder).
THEOREM PointersAreRight == Spec => []PointersMatch
<1>1. ASSUME IndInv PROVE PointersMatch
  <2>1. BooksAreSound  BY <1>1, SoundState DEF IndInv
  <2>2. \A id \in DOMAIN limitOrders :
          IsMarketOrder(limitOrders[id]) <=> limitOrders[id].triggerPrice = 0
    BY <2>1 DEF BooksAreSound, Kept, IsMarketOrder
  <2>3. activeMarketOrderPointers = {id \in DOMAIN limitOrders : IsMarketOrder(limitOrders[id])}
    BY <2>1, <2>2 DEF BooksAreSound
  <2>4. activeLimitOrderPointers = activeOrderPointers \ activeMarketOrderPointers
    BY <2>1 DEF BooksAreSound
  <2> QED BY <2>1, <2>3, <2>4 DEF PointersMatch, BooksAreSound
<1> QED BY <1>1, InitInv, InvNext, PTL DEF Spec

\* The handler holds the fees of the pending orders, to the last unit
\* (LimitTradeHandler.createOrder, executeOrders, cancelOrder).
THEOREM FeesAreHeld == Spec => []FeesHeld
<1>1. IndInv => FeesHeld  BY SoundState DEF IndInv, BooksAreSound, FeesOf, FeesHeld
<1> QED BY <1>1, InitInv, InvNext, PTL DEF Spec

\* In a market with a limit, no order brings a position over it, although the
\* limit is checked against the position there is when the order is made, and
\* again with a size that is not yet the one that is traded
\* (LimitTradeHelper.validate, executeLimitOrder).
THEOREM SizesAreLimited ==
    ASSUME HasLimit
    PROVE  Spec => []SizeLimited
<1>1. IndInv => SizeLimited
  BY SoundState DEF IndInv, BooksAreSound, WithinLimit, SizeLimited
<1> QED BY <1>1, InitInv, InvNext, PTL DEF Spec

\* What FilledExactly says of a step.
FilledByStep ==
    \A a \in Accounts :
        /\ Leaving(a) # {} /\ (\A id \in Leaving(a) : limitOrders[id].reduceOnly)
             => /\ Size(positions'[a]) <= Size(positions[a])
                /\ positions'[a] = 0 \/ SameSide(positions'[a], positions[a])
        /\ \A id \in Ids :
             Leaving(a) = {id} /\ ~limitOrders[id].reduceOnly
             => positions'[a] - positions[a] \in {0, SizeDelta(positions[a], limitOrders[id])}

LEMMA StepFills == IndInv /\ [Next]_vars => FilledByStep
<1> SUFFICES ASSUME IndInv, [Next]_vars PROVE FilledByStep  OBVIOUS
<1>1. Stays \/ Since(State', State)  BY StepInv
<1>2. CASE Stays
  <2>1. \A a \in Accounts : Leaving(a) = {}  BY <1>2 DEF Stays, Leaving
  <2> QED BY <2>1 DEF FilledByStep
<1>3. CASE Since(State', State)
  <2> SUFFICES ASSUME NEW a \in Accounts PROVE
        /\ (\A id \in Leaving(a) : limitOrders[id].reduceOnly)
             => Shrunk(positions'[a], positions[a])
        /\ \A id \in Ids :
             Leaving(a) = {id} /\ ~limitOrders[id].reduceOnly
             => positions'[a] - positions[a] \in {0, SizeDelta(positions[a], limitOrders[id])}
    BY DEF FilledByStep, Shrunk
  <2>1. MovedSince(State', State, a)  BY <1>3 DEF Since
  <2>2. Gone(State', State, a) = Leaving(a)  BY DEF Gone, Leaving, State
  <2>3. /\ State.positions = positions /\ State'.positions = positions'
        /\ State.orders = limitOrders
    BY DEF State
  <2> QED BY <2>1, <2>2, <2>3 DEF MovedSince
<1> QED BY <1>1, <1>2, <1>3

\* What the orders do that leave the book in a step, a batch of any length
\* included: reduce-only ones never make a position larger or turn it, another
\* one moves it by its size and no more, or not at all
\* (LimitTradeHandler.executeLimitOrder).
THEOREM OrdersFillExactly == Spec => FilledExactly
<1>1. IndInv /\ [Next]_vars => [FilledByStep]_vars  BY StepFills
<1> QED BY <1>1, InitInv, InvNext, PTL DEF Spec, FilledExactly, FilledByStep
-----------------------------------------------------------------------------
(***************************************************************************)
(* The refinement: the states of the abstract handler.                     *)
(***************************************************************************)
Fates == [id \in Ids |-> Fate(id)]
Puts == [id \in Ids |-> Put(id)]
Holds == [t \in Weth |-> held]

\* The two modules mean the same by the sum of a function.
LEMMA SameSum == \A f : Handler!SumFunction(f) = SumFunction(f)
BY DEF Handler!SumFunction, Handler!SumFunctionOnSet, Handler!FoldFunctionOnSet, Handler!MapThenFoldSet,
       SumFunction, SumFunctionOnSet, FoldFunctionOnSet, MapThenFoldSet

LEMMA InitEscrow == Init => Handler!Init
<1> SUFFICES ASSUME Init PROVE Handler!Init  OBVIOUS
<1>1. \A id \in Ids : Fate(id) = "unused"
  <2> SUFFICES ASSUME NEW id \in Ids PROVE Fate(id) = "unused"  OBVIOUS
  <2>1. id[1] \in Accounts /\ id[2] \in Nat  BY LimitOrderAssumption DEF Ids
  <2> QED BY <2>1 DEF Init, Fate
<1>2. \A id \in Ids : Put(id) = Handler!Nothing  BY DEF Init, Put, Handler!Nothing
<1>3. [t \in Weth |-> held] = Handler!Nothing  BY DEF Init, Handler!Nothing
<1> QED BY <1>1, <1>2, <1>3 DEF Handler!Init

\* The fees that orders hold are what the abstract handler holds for them.
LEMMA FeeNat ==
    ASSUME BooksAreSound
    PROVE  /\ \A id \in DOMAIN limitOrders : limitOrders[id].executionFee \in Nat
           /\ FeesOf(limitOrders) \in [Ids -> Nat] /\ FeesOf(limitOrders) \in [Ids -> Int]
           /\ \A id \in Ids, t \in Weth : Put(id) \in [Weth -> Nat] /\ Put(id)[t] = FeesOf(limitOrders)[id]
<1>1. \A id \in DOMAIN limitOrders : limitOrders[id].executionFee \in Nat
  BY DEF BooksAreSound, Kept, Order
<1> QED BY <1>1 DEF FeesOf, Put

LEMMA FeeNatNext ==
    ASSUME BooksAreSound'
    PROVE  /\ FeesOf(limitOrders') \in [Ids -> Int]
           /\ \A id \in Ids, t \in Weth : Put(id)' \in [Weth -> Nat] /\ Put(id)'[t] = FeesOf(limitOrders')[id]
<1>1. \A id \in DOMAIN limitOrders' : limitOrders'[id].executionFee \in Nat
  BY DEF BooksAreSound, Kept, Order
<1> QED BY <1>1 DEF FeesOf, Put

\* createOrder.
LEMMA CreateEscrow ==
    ASSUME IndInv, NEW a \in Accounts, NEW terms \in Terms, NEW fee \in Fees,
           CreateOrder(a, terms, fee)
    PROVE  Handler!Next
<1>0. PICK n, id : n = limitOrdersIndex[a] /\ id = <<a, n>>  OBVIOUS
<1>1. BooksAreSound /\ BooksAreSound' /\ Indexed
  BY CreateInv, SoundState, SoundStateNext DEF IndInv
<1>2. /\ n < MaxOrders /\ n \in Nat /\ id \in Ids
      /\ limitOrdersIndex' = [limitOrdersIndex EXCEPT ![a] = n + 1]
      /\ held' = held + fee
  <2>1. n \in 0..MaxOrders /\ MaxOrders \in Nat /\ n < MaxOrders
    BY <1>0, <1>1, LimitOrderAssumption DEF Indexed, CreateOrder
  <2>2. n \in 0..(MaxOrders - 1) /\ n \in Nat  BY <2>1
  <2> QED BY <1>0, <2>1, <2>2 DEF Ids, CreateOrder
<1>3. id \notin DOMAIN limitOrders  BY <1>0, <1>1, <1>2 DEF Indexed
<1>4. /\ DOMAIN limitOrders' = DOMAIN limitOrders \cup {id}
      /\ limitOrders'[id].executionFee = fee
      /\ \A x \in DOMAIN limitOrders : limitOrders'[x] = limitOrders[x]
  BY <1>0, <1>3 DEF CreateOrder
<1>5. Fates[id] = "unused"  BY <1>0, <1>2 DEF Fates, Fate
<1>6. Fates' = [Fates EXCEPT ![id] = "pending"]
  <2>1. Fate(id)' = "pending"
    <3>1. limitOrdersIndex'[a] = n + 1  BY <1>1, <1>2 DEF Indexed
    <3>2. id[1] = a /\ id[2] = n  BY <1>0
    <3>3. id \in DOMAIN limitOrders'  BY <1>4
    <3>4. ~(n >= n + 1)  BY <1>2
    <3> QED BY <3>1, <3>2, <3>3, <3>4 DEF Fate
  <2>2. ASSUME NEW x \in Ids, x # id PROVE Fate(x)' = Fate(x)
    <3>1. x[1] \in Accounts /\ x[2] \in Nat /\ x = <<x[1], x[2]>>
      BY LimitOrderAssumption DEF Ids
    <3>2. x \in DOMAIN limitOrders' <=> x \in DOMAIN limitOrders  BY <1>4, <2>2
    <3>3. x[2] >= limitOrdersIndex'[x[1]] <=> x[2] >= limitOrdersIndex[x[1]]
      <4>1. CASE x[1] = a
        <5>1. x[2] # n  BY <1>0, <2>2, <3>1, <4>1
        <5>2. limitOrdersIndex'[x[1]] = n + 1 /\ limitOrdersIndex[x[1]] = n
          BY <1>0, <1>1, <1>2, <4>1 DEF Indexed
        <5> QED BY <1>2, <3>1, <5>1, <5>2
      <4>2. CASE x[1] # a  BY <1>1, <1>2, <3>1, <4>2 DEF Indexed
      <4> QED BY <4>1, <4>2
    <3> QED BY <3>2, <3>3 DEF Fate
  <2> QED BY <1>2, <2>1, <2>2 DEF Fates
<1>7. Puts' \in [Ids -> [Weth -> Nat]]  BY <1>1, FeeNatNext DEF Puts, Weth
<1>8. \A x \in Ids \ {id} : Puts'[x] = Puts[x]  BY <1>4 DEF Puts, Put
<1>9. Holds' = [t \in Weth |-> Holds[t] + Puts'[id][t]]
  <2>1. \A t \in Weth : Puts'[id][t] = fee  BY <1>2, <1>4 DEF Puts, Put
  <2> QED BY <1>2, <2>1 DEF Holds
<1>10. Handler!Create(id)
  BY <1>5, <1>6, <1>7, <1>8, <1>9 DEF Handler!Create, Fates, Puts, Holds
<1> QED BY <1>2, <1>10 DEF Handler!Next

\* Orders leave the book: the abstract handler settles them, and what it pays
\* is what they put in, as the fees of the other ones are still held.
LEMMA LeaveEscrow ==
    ASSUME IndInv, IndInv', Since(State', State), UNCHANGED limitOrdersIndex
    PROVE  Handler!Next
<1> DEFINE S == DOMAIN limitOrders \ DOMAIN limitOrders'
           t == "weth"
           f == FeesOf(limitOrders)
           g == FeesOf(limitOrders')
           h == [id \in Ids |-> IF id \in S THEN Puts[id][t] ELSE 0]
<1>1. BooksAreSound /\ BooksAreSound' /\ Indexed
  BY SoundState, SoundStateNext DEF IndInv
<1>2. DOMAIN limitOrders' \subseteq DOMAIN limitOrders
      /\ \A id \in DOMAIN limitOrders' : limitOrders'[id] = limitOrders[id]
  BY DEF Since, Fewer, State
<1>3. S \in SUBSET Ids  BY <1>1 DEF BooksAreSound
<1>4. \A id \in DOMAIN limitOrders : ~(id[2] >= limitOrdersIndex[id[1]])
  <2> SUFFICES ASSUME NEW id \in DOMAIN limitOrders PROVE ~(id[2] >= limitOrdersIndex[id[1]])
    OBVIOUS
  <2>1. id \in Ids /\ id[2] < limitOrdersIndex[id[1]]  BY <1>1 DEF BooksAreSound, Indexed
  <2>2. id[2] \in Int /\ id[1] \in Accounts  BY <2>1 DEF Ids
  <2>3. limitOrdersIndex[id[1]] \in Int  BY <1>1, <2>2 DEF Indexed
  <2> QED BY <2>1, <2>2, <2>3
<1>5. \A id \in S : Fates[id] = "pending"  BY <1>3, <1>4 DEF Fates, Fate
<1>6. Fates' = [id \in Ids |-> IF id \in S THEN "settled" ELSE Fates[id]]
  <2>1. ASSUME NEW id \in Ids PROVE Fate(id)' = IF id \in S THEN "settled" ELSE Fate(id)
    BY <1>2, <1>4 DEF Fate
  <2> QED BY <2>1 DEF Fates
<1>7. Puts' = [id \in Ids |-> IF id \in S THEN Handler!Nothing ELSE Puts[id]]
  <2>1. ASSUME NEW id \in Ids PROVE Put(id)' = IF id \in S THEN Handler!Nothing ELSE Put(id)
    BY <1>2 DEF Put, Handler!Nothing
  <2> QED BY <2>1 DEF Puts
<1>8. Holds' \in [Weth -> Nat]  BY <1>1 DEF BooksAreSound, Holds
<1>9. held <= held' + SumFunction(h)
  <2>1. f \in [Ids -> Int] /\ g \in [Ids -> Int]  BY <1>1, FeeNat, FeeNatNext
  <2>2. \A id \in Ids : Puts[id][t] = f[id] /\ f[id] \in Nat
    BY <1>1, FeeNat DEF Weth, Puts
  <2>3. h \in [Ids -> Int]  BY <2>2
  <2> DEFINE k == -1
  <2>4. \A id \in Ids : g[id] = f[id] + k * h[id]
    <3> SUFFICES ASSUME NEW id \in Ids PROVE g[id] = f[id] + k * h[id]  OBVIOUS
    <3>1. CASE id \in S
      <4>1. g[id] = 0 /\ h[id] = f[id]  BY <2>2, <3>1 DEF FeesOf
      <4> HIDE DEF f, g, h
      <4> QED BY <2>2, <4>1
    <3>2. CASE id \notin S
      <4>1. g[id] = f[id] /\ h[id] = 0  BY <1>2, <3>2 DEF FeesOf
      <4> HIDE DEF f, g, h
      <4> QED BY <2>2, <4>1
    <3> QED BY <3>1, <3>2
  <2>5. k \in Int  OBVIOUS
  <2>6. held = SumFunction(f) /\ held' = SumFunction(g)  BY <1>1 DEF BooksAreSound
  <2> HIDE DEF f, g, h, k
  <2>7. SumFunction(g) = SumFunction(f) + k * SumFunction(h)
    BY <2>1, <2>3, <2>4, <2>5, IdsFinite, SumFunctionLinear
  <2>8. SumFunction(f) \in Int /\ SumFunction(h) \in Int
    BY <2>1, <2>3, IdsFinite, SumFunctionInt
  <2> QED BY <2>6, <2>7, <2>8 DEF k
<1>10. ASSUME NEW x \in Weth PROVE Holds[x] <= Holds'[x] + Handler!Taken(S, x)
  <2>1. x = t /\ Holds[x] = held /\ Holds'[x] = held'  BY DEF Weth, Holds
  <2>2. Handler!Taken(S, x) = SumFunction(h)
    BY <2>1, SameSum DEF Handler!Taken, Puts
  <2> HIDE DEF h
  <2> QED BY <1>9, <2>1, <2>2
<1> HIDE DEF S
<1>11. Handler!Settle(S)
  BY <1>5, <1>6, <1>7, <1>8, <1>10 DEF Handler!Settle, Fates, Puts, Holds
<1> QED BY <1>3, <1>11 DEF Handler!Next

\* Updates, other trades and time change nothing the abstract handler sees.
LEMMA StutterEscrow ==
    ASSUME BooksAreSound, UNCHANGED <<limitOrdersIndex, held>>,
           DOMAIN limitOrders' = DOMAIN limitOrders, FeesOf(limitOrders') = FeesOf(limitOrders)
    PROVE  UNCHANGED Handler!vars
<1>1. \A id \in Ids : Fate(id)' = Fate(id)  BY DEF Fate
<1>2. \A id \in DOMAIN limitOrders : limitOrders'[id].executionFee = limitOrders[id].executionFee
  <2> SUFFICES ASSUME NEW id \in DOMAIN limitOrders
               PROVE  limitOrders'[id].executionFee = limitOrders[id].executionFee
    OBVIOUS
  <2>1. id \in Ids  BY DEF BooksAreSound
  <2>2. FeesOf(limitOrders')[id] = FeesOf(limitOrders)[id]  OBVIOUS
  <2> QED BY <2>1, <2>2 DEF FeesOf
<1>3. \A id \in Ids : Put(id)' = Put(id)  BY <1>2 DEF Put
<1> QED BY <1>1, <1>3 DEF Handler!vars

LEMMA StepEscrow == IndInv /\ [Next]_vars => [Handler!Next]_(Handler!vars)
<1> SUFFICES ASSUME IndInv, [Next]_vars PROVE [Handler!Next]_(Handler!vars)
  OBVIOUS
<1>0. BooksAreSound  BY SoundState DEF IndInv
<1>1. ASSUME NEW a \in Accounts, NEW terms \in Terms, NEW fee \in Fees, CreateOrder(a, terms, fee)
      PROVE  Handler!Next
  BY <1>1, CreateEscrow
<1>2. ASSUME NEW id \in Ids, NEW terms \in Terms, UpdateOrder(id, terms)
      PROVE  UNCHANGED Handler!vars
  <2>1. DOMAIN limitOrders' = DOMAIN limitOrders /\ FeesOf(limitOrders') = FeesOf(limitOrders)
    BY <1>2, UpdateInv
  <2>2. UNCHANGED <<limitOrdersIndex, held>>  BY <1>2 DEF UpdateOrder
  <2> QED BY <1>0, <2>1, <2>2, StutterEscrow
<1>3. ASSUME NEW id \in Ids, CancelOrder(id)
      PROVE  Handler!Next
  <2>1. IndInv' /\ Since(State', State)  BY <1>3, CancelInv
  <2>2. UNCHANGED limitOrdersIndex  BY <1>3 DEF CancelOrder
  <2> QED BY <2>1, <2>2, LeaveEscrow
<1>4. ASSUME NEW batch \in Batches, NEW price \in Prices, NEW accepted \in SUBSET Ids,
             NEW isRevert \in BOOLEAN, ExecuteOrders(batch, price, accepted, isRevert)
      PROVE  Handler!Next
  <2>1. IndInv' /\ Since(State', State)  BY <1>4, ExecuteInv
  <2>2. UNCHANGED limitOrdersIndex  BY <1>4 DEF ExecuteOrders
  <2> QED BY <2>1, <2>2, LeaveEscrow
<1>5. ASSUME UNCHANGED <<limitOrders, limitOrdersIndex, held>>
      PROVE  UNCHANGED Handler!vars
  BY <1>0, <1>5, StutterEscrow
<1>6. ASSUME NEW a \in Accounts, NEW p \in (-PositionSizeLimit)..PositionSizeLimit, OtherTrade(a, p)
      PROVE  UNCHANGED Handler!vars
  BY <1>5, <1>6 DEF OtherTrade, book
<1>7. CASE Tick  BY <1>5, <1>7 DEF Tick, book
<1>8. CASE UNCHANGED vars  BY <1>5, <1>8 DEF vars
<1> QED BY <1>1, <1>2, <1>3, <1>4, <1>6, <1>7, <1>8 DEF Next

\* The handler implements the abstract one: an order is settled at most once
\* (executed, refused, refunded or cancelled), its fee is paid then, and no
\* more is paid than the orders of the step put in, however often a batch
\* names an order (LimitTradeHandler).
THEOREM LimitOrdersImplementEscrow == Spec => ImplementsEscrow
BY InitInv, InvNext, InitEscrow, StepEscrow, PTL DEF Spec, ImplementsEscrow, Handler!Spec

-----------------------------------------------------------------------------
(***************************************************************************)
(* IntentHandler: orders that are signed, for the same positions.          *)
(***************************************************************************)
\* The records of words, as a batch works on them.
Records(s) ==
    /\ s = [positions |-> s.positions, executed |-> s.executed,
            charged |-> s.charged, filled |-> s.filled]
    /\ s.positions \in [Accounts -> Int]
    /\ s.charged \in [Words -> Nat]
    /\ s.filled \in [Words -> Nat]

\* Words that are not done with have not traded; those of a market order have not
\* been charged for either.
OpenIsFresh(s) ==
    \A k \in Words \ s.executed :
        s.filled[k] = 0 /\ (k.order.triggerPrice = 0 => s.charged[k] = 0)
Counted(s) ==
    \A k \in Words :
        /\ s.filled[k] <= 1 /\ s.filled[k] <= s.charged[k]
        /\ k.order.triggerPrice = 0 => s.charged[k] <= 1
SoundRecords(s) == Records(s) /\ OpenIsFresh(s) /\ Counted(s)

\* What traded since the batch began was signed for, and is in time.
Warranted(i) == time <= i.expiryTimestamp /\ \E w \in Wallets : ValidSignature(w, i)
FilledSince(s) == \A k \in Words : s.filled[k] # filled[k] => Warranted(k.order)

\* What an intent makes of a position is a position.
LEMMA SignedFills ==
    ASSUME NEW p \in Int, NEW d \in Int, NEW r \in BOOLEAN, NEW q \in Filled(p, d, r)
    PROVE  q \in Int
<1>1. CASE r = TRUE
  <2>1. q \in Reduced(p, d)  BY <1>1 DEF Reduced
  <2> QED BY <2>1, ReducingShrinks
<1>2. CASE r = FALSE
  <2>1. q \in Netted(p, d)  BY <1>2 DEF Netted
  <2>2. q = p + d  BY <2>1, NettingMoves
  <2> QED BY <2>2
<1> QED BY <1>1, <1>2

LEMMA SignedExecutes ==
    ASSUME NEW p \in Int, NEW i \in Intents, NEW price,
           NEW q \in IntentExecuted(p, i, price)
    PROVE  q \in Int
<1> DEFINE d == RevisedDelta(p, i)
<1>1. i.sizeDelta \in Int /\ i.reduceOnly \in BOOLEAN  BY IntentAssumption
<1>2. d \in Int  BY <1>1 DEF RevisedDelta
<1>3. q \in Filled(p, d, i.reduceOnly)  BY DEF IntentExecuted
<1> HIDE DEF d
<1> QED BY <1>1, <1>2, <1>3, SignedFills

\* Charged for: before the intent is looked at further.
LEMMA ChargeFields ==
    ASSUME NEW s, Records(s), NEW k \in Words
    PROVE  LET c == [s EXCEPT !.charged[k] = s.charged[k] + 1] IN
           c = [positions |-> s.positions, executed |-> s.executed,
                charged |-> [s.charged EXCEPT ![k] = s.charged[k] + 1], filled |-> s.filled]
<1> DEFINE g == [s.charged EXCEPT ![k] = s.charged[k] + 1]
           p == s.positions
           x == s.executed
           h == s.charged
           f == s.filled
<1>1. s = [positions |-> p, executed |-> x, charged |-> h, filled |-> f]  BY DEF Records
<1>2. [s EXCEPT !.charged[k] = s.charged[k] + 1] = [s EXCEPT !.charged = g]  OBVIOUS
<1> HIDE DEF g, p, x, h, f
<1>3. [s EXCEPT !.charged = g] = [positions |-> p, executed |-> x, charged |-> g, filled |-> f]
  BY <1>1
<1> QED BY <1>2, <1>3 DEF g, p, x, f

\* What one turn of the loop may make of the records.
Turned(t, s, k) ==
    /\ Records(t) /\ t.executed \subseteq s.executed \cup {k}
    /\ \A j \in Words \ {k} : /\ t.charged[j] = s.charged[j] /\ t.filled[j] = s.filled[j]
                              /\ j \in t.executed <=> j \in s.executed
    /\ \/ t.charged[k] = s.charged[k] /\ t.filled[k] = s.filled[k]
          /\ (k \in t.executed <=> k \in s.executed)
       \/ /\ k \notin s.executed /\ t.charged[k] = s.charged[k] + 1
          /\ k.order.triggerPrice = 0 => k \in t.executed
          /\ \/ t.filled[k] = s.filled[k]
             \/ t.filled[k] = s.filled[k] + 1 /\ k \in t.executed /\ Warranted(k.order)

LEMMA TurnedBy ==
    ASSUME NEW s, Records(s), NEW k \in Words, NEW w \in Wallets, NEW price, NEW paid, NEW accepted,
           NEW t \in ExecuteIntent(s, k, w, price, paid, accepted)
    PROVE  Turned(t, s, k)
<1> DEFINE a == k.order.account
           n == s.charged[k] + 1
           g == [s.charged EXCEPT ![k] = n]
           c == [s EXCEPT !.charged[k] = s.charged[k] + 1]
           reached == IF k \in accepted THEN IntentExecuted(s.positions[a], k.order, price) ELSE {}
           Record(r, isSuccess) ==
               IF Done(s, k.order, isSuccess) THEN [r EXCEPT !.executed = s.executed \cup {k}] ELSE r
<1>1. c = [positions |-> s.positions, executed |-> s.executed, charged |-> g, filled |-> s.filled]
  BY ChargeFields
<1>2. g \in [Words -> Nat] /\ g[k] = s.charged[k] + 1 /\ \A j \in Words \ {k} : g[j] = s.charged[j]
  BY DEF Records
<1>3. CASE k \in s.executed \/ ~ValidSignature(w, k.order) \/ k \notin paid
  <2>1. t = s  BY <1>3, Zenon DEF ExecuteIntent
  <2> QED BY <2>1 DEF Turned
<1>4. CASE ~(k \in s.executed \/ ~ValidSignature(w, k.order) \/ k \notin paid) /\ ~PreValidate(s.positions[a], k.order)
  <2>1. t = [c EXCEPT !.executed = s.executed \cup {k}]  BY <1>4 DEF ExecuteIntent
  <2> HIDE DEF g, c
  <2>2. t = [positions |-> s.positions, executed |-> s.executed \cup {k}, charged |-> g, filled |-> s.filled]
    BY <1>1, <2>1
  <2> QED BY <1>2, <1>4, <2>2 DEF Turned, Records
<1>5. CASE /\ ~(k \in s.executed \/ ~ValidSignature(w, k.order) \/ k \notin paid)
           /\ PreValidate(s.positions[a], k.order) /\ reached = {}
  <2>1. t = Record(c, FALSE)  BY <1>5 DEF ExecuteIntent
  <2> HIDE DEF g, c
  <2>2. CASE k.order.triggerPrice = 0
    <3>1. t = [c EXCEPT !.executed = s.executed \cup {k}]  BY <2>1, <2>2 DEF Done
    <3>2. t = [positions |-> s.positions, executed |-> s.executed \cup {k}, charged |-> g, filled |-> s.filled]
      BY <1>1, <3>1
    <3> QED BY <1>2, <1>5, <3>2 DEF Turned, Records
  <2>3. CASE k.order.triggerPrice # 0
    <3>1. t = c  BY <2>1, <2>3 DEF Done
    <3> QED BY <1>1, <1>2, <1>5, <2>3, <3>1 DEF Turned, Records
  <2> QED BY <2>2, <2>3
<1>6. CASE /\ ~(k \in s.executed \/ ~ValidSignature(w, k.order) \/ k \notin paid)
           /\ PreValidate(s.positions[a], k.order) /\ reached # {}
  <2> DEFINE m == s.filled[k] + 1
             f == [s.filled EXCEPT ![k] = m]
  <2>1. PICK p \in reached :
          t = Record([c EXCEPT !.positions[a] = p, !.filled[k] = s.filled[k] + 1], TRUE)
    BY <1>6, Zenon DEF ExecuteIntent
  <2> DEFINE q == [s.positions EXCEPT ![a] = p]
             r == [c EXCEPT !.positions[a] = p, !.filled[k] = s.filled[k] + 1]
             e == s.executed \cup {k}
  <2>2. t = [r EXCEPT !.executed = e]  BY <2>1 DEF Done
  <2>3. c.positions = s.positions /\ c.filled = s.filled  BY <1>1
  <2>4. r = [c EXCEPT !.positions = q, !.filled = f]
    <3> HIDE DEF c
    <3> QED BY <2>3
  <2>5. f \in [Words -> Nat] /\ f[k] = s.filled[k] + 1 /\ \A j \in Words \ {k} : f[j] = s.filled[j]
    BY DEF Records
  <2>6. r = [positions |-> q, executed |-> s.executed, charged |-> g, filled |-> f]
    <3> HIDE DEF g, c, q, f, r
    <3> QED BY <1>1, <2>4
  <2>7. t = [positions |-> q, executed |-> e, charged |-> g, filled |-> f]
    <3> HIDE DEF g, q, f, r, e
    <3> QED BY <2>2, <2>6
  <2>8. q \in [Accounts -> Int]
    <3>1. a \in Accounts /\ k.order \in Intents  BY IntentAssumption DEF Words
    <3>2. s.positions \in [Accounts -> Int]  BY DEF Records
    <3>3. p \in IntentExecuted(s.positions[a], k.order, price)  BY <1>6
    <3>4. p \in Int  BY <3>1, <3>2, <3>3, SignedExecutes
    <3> HIDE DEF a
    <3> QED BY <3>1, <3>2, <3>4
  <2>9. Warranted(k.order)  BY <1>6 DEF Warranted, PreValidate
  <2> HIDE DEF g, q, f
  <2> QED BY <1>2, <1>6, <2>5, <2>7, <2>8, <2>9 DEF Turned, Records, e
<1> QED BY <1>3, <1>4, <1>5, <1>6

LEMMA TurnSound ==
    ASSUME NEW s, SoundRecords(s), FilledSince(s), NEW k \in Words, NEW t, Turned(t, s, k)
    PROVE  SoundRecords(t) /\ FilledSince(t)
<1>1. Records(s) /\ Records(t)  BY DEF SoundRecords, Turned
<1>2. s.charged[k] \in Nat /\ s.filled[k] \in Nat  BY <1>1 DEF Records
<1>3. OpenIsFresh(t)
  BY <1>1, <1>2 DEF SoundRecords, Turned, OpenIsFresh
<1>4. Counted(t)
  <2> SUFFICES ASSUME NEW j \in Words
               PROVE  /\ t.filled[j] <= 1 /\ t.filled[j] <= t.charged[j]
                      /\ j.order.triggerPrice = 0 => t.charged[j] <= 1
    BY DEF Counted
  <2>1. CASE j # k  BY <2>1 DEF SoundRecords, Turned, Counted
  <2>2. CASE j = k  BY <1>2, <2>2 DEF SoundRecords, Turned, Counted, OpenIsFresh
  <2> QED BY <2>1, <2>2
<1>5. FilledSince(t)
  BY DEF Turned, FilledSince
<1> QED BY <1>1, <1>3, <1>4, <1>5 DEF SoundRecords


\* The states that a batch may pass through.
Reachable ==
    {s \in [positions : [Accounts -> Int], executed : SUBSET Words,
            charged : [Words -> Nat], filled : [Words -> Nat]] :
        SoundRecords(s) /\ FilledSince(s)}

LEMMA TurnReaches ==
    ASSUME NEW s \in Reachable, NEW k \in Words, NEW w \in Wallets,
           NEW price, NEW paid, NEW accepted, NEW t \in ExecuteIntent(s, k, w, price, paid, accepted)
    PROVE  t \in Reachable
<1>1. SoundRecords(s) /\ FilledSince(s) /\ s.executed \in SUBSET Words  BY DEF Reachable
<1>2. Turned(t, s, k)  BY <1>1, TurnedBy DEF SoundRecords
<1>3. SoundRecords(t) /\ FilledSince(t)  BY <1>1, <1>2, TurnSound
<1>4. t.executed \in SUBSET Words  BY <1>1, <1>2 DEF Turned
<1>5. /\ t = [positions |-> t.positions, executed |-> t.executed, charged |-> t.charged, filled |-> t.filled]
      /\ t.positions \in [Accounts -> Int] /\ t.charged \in [Words -> Nat] /\ t.filled \in [Words -> Nat]
  BY <1>3 DEF SoundRecords, Records
<1>6. t \in [positions : [Accounts -> Int], executed : SUBSET Words,
             charged : [Words -> Nat], filled : [Words -> Nat]]
  BY <1>4, <1>5
<1> QED BY <1>3, <1>6 DEF Reachable

\* The records become those of s.
Recorded(s) ==
    /\ positions' = s.positions /\ executedIntents' = s.executed
    /\ charged' = s.charged /\ filled' = s.filled

\* execute: the states that a batch leaves, turn by turn.
LEMMA BatchReaches ==
    ASSUME IntentRecords \in Reachable,
           NEW batch \in Seq(Wallets \X Words), NEW price, NEW paid, NEW accepted,
           Execute(batch, price, paid, accepted)
    PROVE  \E s \in Reachable : Recorded(s)
<1> DEFINE n == Len(batch)
           U == SUBSET Reachable
           start == {IntentRecords}
           Turn(i, X) == UNION {ExecuteIntent(x, batch[i][2], batch[i][1], price, paid, accepted) : x \in X}
           Eqn(f) == f = [i \in 0..n |-> IF i = 0 THEN start ELSE Turn(i, f[i - 1])]
           step == [i \in 1..n |-> [X \in U |-> Turn(i, X)]]
<1>1. n \in Nat /\ \A i \in 1..n : batch[i][1] \in Wallets /\ batch[i][2] \in Words  OBVIOUS
<1>2. start \in U  OBVIOUS
<1>3. ASSUME NEW i \in 1..n, NEW X \in U PROVE Turn(i, X) \in U
  <2> SUFFICES ASSUME NEW x \in X,
                      NEW t \in ExecuteIntent(x, batch[i][2], batch[i][1], price, paid, accepted)
               PROVE  t \in Reachable
    OBVIOUS
  <2> DEFINE w == batch[i][1]
             k == batch[i][2]
  <2>1. w \in Wallets /\ k \in Words /\ x \in Reachable  BY <1>1
  <2>2. t \in ExecuteIntent(x, k, w, price, paid, accepted)  OBVIOUS
  <2> HIDE DEF w, k
  <2> QED BY <2>1, <2>2, TurnReaches
<1>4. step \in [1..n -> [U -> U]]  BY <1>3
<1>5. PICK g \in [0..n -> U] : IsLoop(g, start, step, n)
  <2> HIDE DEF step, n, U, start
  <2> QED BY <1>1, <1>2, <1>4, LoopIn
<1>6. Eqn(g)
  <2>1. \A i \in 1..n : step[i][g[i - 1]] = Turn(i, g[i - 1])
    <3> TAKE i \in 1..n
    <3>1. i - 1 \in 0..n  BY <1>1
    <3>2. g[i - 1] \in U  BY <3>1
    <3> HIDE DEF Turn, U
    <3> QED BY <3>2
  <2>2. g = [i \in 0..n |-> IF i = 0 THEN start ELSE step[i][g[i - 1]]]  BY <1>5 DEF IsLoop
  <2>3. \A i \in 0..n : i # 0 => i \in 1..n  BY <1>1
  <2> HIDE DEF step, n, Turn, start
  <2> QED BY <2>1, <2>2, <2>3
<1> DEFINE f == CHOOSE h : Eqn(h)
<1>7. Eqn(f)
  <2> HIDE DEF Eqn
  <2> QED BY <1>6
<1>8. \E s \in f[n] : Recorded(s)  BY DEF Execute, Recorded
<1>9. \A i \in 0..n : f[i] = IF i = 0 THEN start ELSE Turn(i, f[i - 1])
  <2> HIDE DEF f, Turn, start
  <2> QED BY <1>7
<1> DEFINE T == {i \in 0..n : f[i] \in U}
<1> HIDE DEF f, start, U, Turn
<1>10. 0 \in T  BY <1>1, <1>2, <1>9
<1>11. ASSUME NEW i \in 1..n, i - 1 \in T PROVE i \in T
  <2>1. i \in 0..n /\ i # 0 /\ f[i - 1] \in U  BY <1>1, <1>11
  <2>2. f[i] = Turn(i, f[i - 1])  BY <1>9, <2>1
  <2>3. Turn(i, f[i - 1]) \in U  BY <1>3, <2>1
  <2> QED BY <2>1, <2>2, <2>3
<1>12. \A i \in 0..n : i \in T
  <2> HIDE DEF T, n
  <2> QED BY <1>1, <1>10, <1>11, TurnInduction
<1>13. f[n] \in U  BY <1>1, <1>12
<1> QED BY <1>8, <1>13 DEF U

\* The inductive invariant of the signed orders.
IntentInv ==
    /\ positions \in [Accounts -> Int]
    /\ executedIntents \in SUBSET Words
    /\ charged \in [Words -> Nat] /\ filled \in [Words -> Nat]
    /\ OpenIsFresh(IntentRecords) /\ Counted(IntentRecords)

LEMMA IntentState ==
    /\ OpenIsFresh(IntentRecords)
       <=> \A k \in Words \ executedIntents : filled[k] = 0 /\ (k.order.triggerPrice = 0 => charged[k] = 0)
    /\ Counted(IntentRecords)
       <=> \A k \in Words : /\ filled[k] <= 1 /\ filled[k] <= charged[k]
                            /\ k.order.triggerPrice = 0 => charged[k] <= 1
BY DEF OpenIsFresh, Counted, IntentRecords
LEMMA IntentStateNext ==
    /\ OpenIsFresh(IntentRecords)'
       <=> \A k \in Words \ executedIntents' : filled'[k] = 0 /\ (k.order.triggerPrice = 0 => charged'[k] = 0)
    /\ Counted(IntentRecords)'
       <=> \A k \in Words : /\ filled'[k] <= 1 /\ filled'[k] <= charged'[k]
                            /\ k.order.triggerPrice = 0 => charged'[k] <= 1
BY DEF OpenIsFresh, Counted, IntentRecords

LEMMA IntentInit == IntentsInit => IntentInv
<1> SUFFICES ASSUME IntentsInit PROVE IntentInv  OBVIOUS
<1>1. \A k \in Words : filled[k] = 0 /\ charged[k] = 0  BY DEF IntentsInit
<1>2. OpenIsFresh(IntentRecords) /\ Counted(IntentRecords)  BY <1>1, IntentState
<1> QED BY <1>2 DEF IntentsInit, IntentInv

\* What trades in a step was signed for, and is in time.
FilledWarranted == \A k \in Words : filled'[k] # filled[k] => Warranted(k.order)

LEMMA BatchInv ==
    ASSUME IntentInv, NEW batch \in IntentBatches, NEW price, NEW paid,
           NEW accepted, Execute(batch, price, paid, accepted)
    PROVE  IntentInv' /\ FilledWarranted
<1>1. batch \in Seq(Wallets \X Words)
  <2>1. PICK n \in 1..MaxBatch : batch \in [1..n -> Brought]  BY DEF IntentBatches
  <2>2. n \in Nat  BY TradeOrderAssumption
  <2>3. batch \in [1..n -> Wallets \X Words]  BY <2>1 DEF Brought
  <2> QED BY <2>2, <2>3
<1>2. IntentRecords \in Reachable
  BY DEF IntentInv, Reachable, SoundRecords, Records, FilledSince, IntentRecords
<1>3. PICK s \in Reachable : Recorded(s)  BY <1>1, <1>2, BatchReaches
<1>4. SoundRecords(s) /\ FilledSince(s) /\ s.executed \in SUBSET Words  BY DEF Reachable
<1>5. OpenIsFresh(IntentRecords)' /\ Counted(IntentRecords)'
  BY <1>3, <1>4, IntentStateNext DEF SoundRecords, OpenIsFresh, Counted, Recorded
<1>6. UNCHANGED signatures  BY DEF Execute
<1>7. IntentInv'
  BY <1>3, <1>4, <1>5, <1>6 DEF IntentInv, SoundRecords, Records, Recorded
<1>8. FilledWarranted  BY <1>3, <1>4 DEF FilledWarranted, FilledSince, Recorded
<1> QED BY <1>7, <1>8

LEMMA IntentStep ==
    ASSUME IntentInv, [IntentsNext]_intentVars
    PROVE  IntentInv' /\ FilledWarranted
<1>1. ASSUME UNCHANGED <<executedIntents, charged, filled>>
      PROVE  OpenIsFresh(IntentRecords)' /\ Counted(IntentRecords)' /\ FilledWarranted
  BY <1>1, IntentState, IntentStateNext DEF IntentInv, FilledWarranted
<1>2. ASSUME NEW w \in Wallets, NEW i \in Intents, Sign(w, i)
      PROVE  IntentInv' /\ FilledWarranted
  BY <1>1, <1>2 DEF Sign, IntentInv
<1>3. ASSUME NEW a \in Accounts, NEW w \in Wallets \cup {NoWallet}, SetDelegate(a, w)
      PROVE  IntentInv' /\ FilledWarranted
  BY <1>1, <1>3 DEF SetDelegate, IntentInv
<1>4. ASSUME NEW batch \in IntentBatches, NEW price, NEW paid, NEW accepted,
             Execute(batch, price, paid, accepted)
      PROVE  IntentInv' /\ FilledWarranted
  BY <1>4, BatchInv
<1>5. ASSUME NEW a \in Accounts, NEW p \in (-PositionSizeLimit)..PositionSizeLimit, TradeElsewhere(a, p)
      PROVE  IntentInv' /\ FilledWarranted
  <2>1. p \in Int  BY TradeOrderAssumption
  <2> QED BY <1>1, <1>5, <2>1 DEF TradeElsewhere, IntentInv
<1>6. CASE TimePasses  BY <1>1, <1>6 DEF TimePasses, IntentInv
<1>7. CASE UNCHANGED intentVars  BY <1>1, <1>7 DEF intentVars, IntentInv
<1> QED BY <1>2, <1>3, <1>4, <1>5, <1>6, <1>7 DEF IntentsNext

\* The same words of an order trade at most once, and never without having been
\* charged for, whatever batches name them, how often and in whose name; a market
\* order is charged for at most once in the same words (IntentHandler.execute,
\* TradeOrderHelper.execute).
THEOREM IntentsFillOnce == IntentsSpec => []FilledOnce
<1>1. IntentsInit => IntentInv  BY IntentInit
<1>2. IntentInv /\ [IntentsNext]_intentVars => IntentInv'  BY IntentStep
<1>3. IntentInv => FilledOnce
  <2> SUFFICES ASSUME IntentInv, NEW k \in Words
               PROVE  /\ filled[k] <= 1 /\ filled[k] <= charged[k]
                      /\ filled[k] = 1 => k \in executedIntents
                      /\ k.order.triggerPrice = 0 => charged[k] <= 1
    BY DEF FilledOnce
  <2> QED BY IntentState DEF IntentInv
<1> QED BY <1>1, <1>2, <1>3, PTL DEF IntentsSpec

\* Whatever words an order comes in, it trades only in its time, and on the word
\* of its account or of the wallet that the account delegates to
\* (IntentHandler._validateSignature, TradeOrderHelper.preValidate).
THEOREM IntentsFillAsSigned == IntentsSpec => FilledAsSigned
<1>1. IntentsInit => IntentInv  BY IntentInit
<1>2. IntentInv /\ [IntentsNext]_intentVars => IntentInv'  BY IntentStep
<1>3. IntentInv /\ [IntentsNext]_intentVars
      => [\A k \in Words : filled'[k] # filled[k]
             => time <= k.order.expiryTimestamp /\ \E w \in Wallets : ValidSignature(w, k.order)]_intentVars
  BY IntentStep DEF FilledWarranted, Warranted
<1> QED BY <1>1, <1>2, <1>3, PTL DEF IntentsSpec, FilledAsSigned
=============================================================================
