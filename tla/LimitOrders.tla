----------------------------- MODULE LimitOrders -----------------------------
(***************************************************************************)
(* LimitTradeHandler: market and limit orders, created, updated and        *)
(* cancelled by traders, executed in batches by executors at the prices    *)
(* that the batch brings. An order holds its execution fee in the handler. *)
(*                                                                         *)
(* Orders are of one market. The rest of the exchange is an input: whether *)
(* TradeService accepts an order (margins, slippage, market hours), and    *)
(* what else happens to a position (liquidations, deleverage, intents).    *)
(* The pointers by sub-account always change together with the global ones *)
(* and are left out.                                                       *)
(***************************************************************************)
EXTENDS TradeOrder, FiniteSets, Functions

CONSTANTS
    Deltas,                \* sizes of orders
    Fees,                  \* execution fees, at least minExecutionFee
    MinExecutionTimestamp, \* seconds in which a market order may be executed
    MaxOrders              \* bound: orders of an account

ASSUME LimitOrderAssumption ==
    /\ IsFiniteSet(Accounts)
    /\ Deltas \subseteq (-MaxDelta)..MaxDelta
    /\ Fees \subseteq Nat
    /\ {MinExecutionTimestamp, MaxOrders} \subseteq Nat

VARIABLES
    limitOrders,        \* id -> order; deleted ones are out of its domain
    limitOrdersIndex,   \* account -> index of its next order
    activeOrderPointers, activeMarketOrderPointers, activeLimitOrderPointers,
    held                \* WETH of the handler
book == <<limitOrders, activeOrderPointers, activeMarketOrderPointers, activeLimitOrderPointers, held>>
vars == <<positions, limitOrders, limitOrdersIndex, activeOrderPointers,
          activeMarketOrderPointers, activeLimitOrderPointers, held, time>>

Ids == Accounts \X (0..(MaxOrders - 1))
Terms == [sizeDelta : Deltas, triggerPrice : Prices \cup {0},
          triggerAboveThreshold : BOOLEAN, reduceOnly : BOOLEAN]
IsMarketOrder(o) == o.triggerAboveThreshold /\ o.triggerPrice = 0

Init ==
    /\ positions = [a \in Accounts |-> 0]
    /\ limitOrders = [id \in {} |-> 0]
    /\ limitOrdersIndex = [a \in Accounts |-> 0]
    /\ activeOrderPointers = {}
    /\ activeMarketOrderPointers = {}
    /\ activeLimitOrderPointers = {}
    /\ held = 0
    /\ time = 0

Pointed(pointers, id, isOfKind) == IF isOfKind THEN pointers \cup {id} ELSE pointers

\* createOrder, _createOrder, _addOrder.
CreateOrder(a, terms, fee) ==
    LET id == <<a, limitOrdersIndex[a]>>
        order == [sizeDelta |-> terms.sizeDelta, triggerPrice |-> terms.triggerPrice,
                  triggerAboveThreshold |-> terms.triggerPrice = 0 \/ terms.triggerAboveThreshold,
                  reduceOnly |-> terms.reduceOnly, executionFee |-> fee, createdTimestamp |-> time]
    IN
    /\ limitOrdersIndex[a] < MaxOrders
    /\ WithinLimits(positions[a], terms.sizeDelta, terms.reduceOnly)
    /\ limitOrdersIndex' = [limitOrdersIndex EXCEPT ![a] = @ + 1]
    /\ limitOrders' = [x \in DOMAIN limitOrders \cup {id} |-> IF x = id THEN order ELSE limitOrders[x]]
    /\ activeOrderPointers' = activeOrderPointers \cup {id}
    /\ activeMarketOrderPointers' = Pointed(activeMarketOrderPointers, id, terms.triggerPrice = 0)
    /\ activeLimitOrderPointers' = Pointed(activeLimitOrderPointers, id, terms.triggerPrice # 0)
    /\ held' = held + fee
    /\ UNCHANGED <<positions, time>>

\* Mutant: an order may become a market order, or cease to be one.
MayUpdateAny(o, terms) == terms.sizeDelta # 0
MayUpdate(o, terms) == terms.sizeDelta # 0 /\ o.triggerPrice # 0 /\ terms.triggerPrice # 0

\* updateOrder, _updateOrder: the sizes are not checked again here.
UpdateOrder(id, terms) ==
    /\ id \in DOMAIN limitOrders
    /\ MayUpdate(limitOrders[id], terms)
    /\ limitOrders' = [limitOrders EXCEPT ![id] =
            [@ EXCEPT !.sizeDelta = terms.sizeDelta, !.triggerPrice = terms.triggerPrice,
                      !.triggerAboveThreshold = terms.triggerAboveThreshold,
                      !.reduceOnly = terms.reduceOnly]]
    /\ UNCHANGED <<positions, limitOrdersIndex, activeOrderPointers, activeMarketOrderPointers,
                   activeLimitOrderPointers, held, time>>

\* What a batch works on. A step of it that reverts leaves the empty set.
State == [positions |-> positions, orders |-> limitOrders, active |-> activeOrderPointers,
          market |-> activeMarketOrderPointers, limit |-> activeLimitOrderPointers, held |-> held]

\* Mutants: the pointers are removed and the order stays; the pointer of an
\* order is looked up among the limit orders only.
RemovePointers(s, id) == [s EXCEPT
    !.active = s.active \ {id}, !.market = s.market \ {id}, !.limit = s.limit \ {id}]
RemoveLimit(s, id) == [s EXCEPT
    !.orders = [x \in DOMAIN s.orders \ {id} |-> s.orders[x]],
    !.active = s.active \ {id}, !.limit = s.limit \ {id}]
\* _removeOrder.
Remove(s, id) == [s EXCEPT
    !.orders = [x \in DOMAIN s.orders \ {id} |-> s.orders[x]],
    !.active = s.active \ {id},
    !.market = IF s.orders[id].triggerPrice = 0 THEN s.market \ {id} ELSE s.market,
    !.limit = IF s.orders[id].triggerPrice # 0 THEN s.limit \ {id} ELSE s.limit]

\* Mutant: the fee is paid to the executor and to the trader.
SettledTwice(s, id) == {[Remove(s, id) EXCEPT !.held = s.held - 2 * s.orders[id].executionFee]}
\* _removeOrder and _transferOutETH.
Settled(s, id) ==
    IF s.orders[id].executionFee <= s.held
    THEN {[Remove(s, id) EXCEPT !.held = s.held - s.orders[id].executionFee]}
    ELSE {}

\* Mutant: sizes are checked when the order is created only.
ExecutableAtCreation(position, o) == TRUE
Executable(position, o) == WithinLimits(position, o.sizeDelta, o.reduceOnly)

\* The extreme sizes mean the whole of the position.
SizeDelta(position, o) ==
    IF Size(o.sizeDelta) = MaxDelta
    THEN IF o.sizeDelta > 0 THEN Size(position) ELSE -Size(position)
    ELSE o.sizeDelta

Triggered(o, price) ==
    IF o.triggerAboveThreshold THEN price > o.triggerPrice ELSE price < o.triggerPrice

\* executeLimitOrder: the positions that the order leaves.
Executed(position, o, price) ==
    LET delta == SizeDelta(position, o) IN
    IF Executable(position, o) /\ delta # 0 /\ Triggered(o, price)
    THEN Filled(position, delta, o.reduceOnly) ELSE {}

Stale(o) == IsMarketOrder(o) /\ time > o.createdTimestamp + MinExecutionTimestamp

\* Mutant: a market order that is refused stays.
DropsNone(o) == FALSE
\* Whether a refused order leaves the book, for the fee of its execution.
DropsWhenRefused(o) == IsMarketOrder(o)

\* _executeOrder of one order, with accepted the orders that TradeService takes.
ExecuteOne(s, id, price, accepted, isRevert) ==
    LET o == s.orders[id]
        filled == IF id \in accepted THEN Executed(s.positions[id[1]], o, price) ELSE {}
    IN
    IF id \notin DOMAIN s.orders THEN {}
    ELSE IF Stale(o) THEN Settled(s, id)
    ELSE IF filled # {} /\ Settled(s, id) # {}
    THEN {[t EXCEPT !.positions[id[1]] = p] : p \in filled, t \in Settled(s, id)}
    ELSE IF DropsWhenRefused(o) THEN Settled(s, id)
    ELSE IF isRevert THEN {} ELSE {s}

\* The states a batch leaves, order after order.
Executions(batch, price, accepted, isRevert) ==
    LET after[i \in 0..Len(batch)] ==
            IF i = 0 THEN {State}
            ELSE UNION {ExecuteOne(s, batch[i], price, accepted, isRevert) : s \in after[i - 1]}
    IN after[Len(batch)]

Becomes(s) ==
    /\ positions' = s.positions
    /\ limitOrders' = s.orders
    /\ activeOrderPointers' = s.active
    /\ activeMarketOrderPointers' = s.market
    /\ activeLimitOrderPointers' = s.limit
    /\ held' = s.held

\* executeOrders; updatePriceFeeds sets the price.
ExecuteOrders(batch, price, accepted, isRevert) ==
    /\ \E s \in Executions(batch, price, accepted, isRevert) : Becomes(s)
    /\ UNCHANGED <<limitOrdersIndex, time>>

\* cancelOrder, _cancelOrder, by the trader or its delegate.
CancelOrder(id) ==
    /\ id \in DOMAIN limitOrders
    /\ \E s \in Settled(State, id) : Becomes(s)
    /\ UNCHANGED <<limitOrdersIndex, time>>

\* A position is liquidated, deleveraged, or traded through another handler.
OtherTrade(a, position) ==
    /\ positions' = [positions EXCEPT ![a] = position]
    /\ UNCHANGED <<book, limitOrdersIndex, time>>

Tick ==
    /\ time < MaxTime
    /\ time' = time + 1
    /\ UNCHANGED <<positions, book, limitOrdersIndex>>

Batches == UNION {[1..n -> activeOrderPointers] : n \in 1..MaxBatch}
Next ==
    \/ \E a \in Accounts, terms \in Terms, fee \in Fees : CreateOrder(a, terms, fee)
    \/ \E id \in Ids, terms \in Terms : UpdateOrder(id, terms)
    \/ \E id \in Ids : CancelOrder(id)
    \/ \E batch \in Batches, price \in Prices, accepted \in SUBSET Ids, isRevert \in BOOLEAN :
            ExecuteOrders(batch, price, accepted, isRevert)
    \/ \E a \in Accounts, p \in (-PositionSizeLimit)..PositionSizeLimit : OtherTrade(a, p)
    \/ Tick
Spec == Init /\ [][Next]_vars

\* The executors, bots of the protocol, execute every market order they find.
ExecuteMarketOrder(id) ==
    /\ id \in activeMarketOrderPointers
    /\ \E price \in Prices, accepted \in SUBSET {id} : ExecuteOrders(<<id>>, price, accepted, FALSE)
FairSpec == Spec /\ \A id \in Ids : WF_vars(ExecuteMarketOrder(id))

-----------------------------------------------------------------------------
\* The three lists of pointers list exactly the orders, each of its kind: what
\* an executor asks for is what there is, even after updates.
PointersMatch ==
    /\ activeOrderPointers = DOMAIN limitOrders
    /\ activeMarketOrderPointers = {id \in DOMAIN limitOrders : IsMarketOrder(limitOrders[id])}
    /\ activeLimitOrderPointers = activeOrderPointers \ activeMarketOrderPointers

\* The handler holds the fees of the pending orders, to the last unit: none is
\* paid twice, or left behind by an order that is gone.
FeesHeld ==
    held = SumFunction([id \in Ids |-> IF id \in DOMAIN limitOrders THEN limitOrders[id].executionFee ELSE 0])

\* No order brings a position over the limit of its market, although sizes are
\* checked against the position there is when the order is made, orders are
\* updated unchecked, and several of them meet one position.
SizeLimited == \A a \in Accounts : Size(positions[a]) <= PositionSizeLimit

\* The orders of account a that leave the book in a step.
Leaving(a) == {id \in DOMAIN limitOrders : id[1] = a} \ DOMAIN limitOrders'

\* What the orders do that leave the book, whatever became of the position since
\* they were made. Reduce-only ones never make it larger or turn it. Another one
\* moves it by its size and no more, also when this takes two calls, to close it
\* and to open the other side; or not at all.
FilledExactly ==
    [][\A a \in Accounts :
        /\ Leaving(a) # {} /\ (\A id \in Leaving(a) : limitOrders[id].reduceOnly)
             => /\ Size(positions'[a]) <= Size(positions[a])
                /\ positions'[a] = 0 \/ SameSide(positions'[a], positions[a])
        /\ \A id \in Ids :
             Leaving(a) = {id} /\ ~limitOrders[id].reduceOnly
             => positions'[a] - positions[a] \in {0, SizeDelta(positions[a], limitOrders[id])}]_vars

\* Refinement of the abstract handler, for the execution fees.
Weth == {"weth"}
Fate(id) ==
    IF id[2] >= limitOrdersIndex[id[1]] THEN "unused"
    ELSE IF id \in DOMAIN limitOrders THEN "pending" ELSE "settled"
Put(id) == [t \in Weth |-> IF id \in DOMAIN limitOrders THEN limitOrders[id].executionFee ELSE 0]
Handler == INSTANCE OrderEscrow WITH
    Tokens <- Weth, fate <- [id \in Ids |-> Fate(id)], put <- [id \in Ids |-> Put(id)],
    holds <- [t \in Weth |-> held]

\* An order is settled at most once (executed, refused or cancelled) and its
\* fee is paid then.
ImplementsEscrow == Handler!Spec

\* A market order does not stay: it is executed, refused or refunded.
MarketOrdersLeave == \A id \in Ids : id \in activeMarketOrderPointers ~> id \notin DOMAIN limitOrders
=============================================================================
