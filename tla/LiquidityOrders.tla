--------------------------- MODULE LiquidityOrders ---------------------------
(***************************************************************************)
(* LiquidityHandler02: liquidity orders by sub-account, executed in        *)
(* batches of the executors' choice, in any order. CrossMarginHandler02    *)
(* keeps orders to withdraw collateral in the same way (withdrawOrders),   *)
(* and Ext01Handler orders to switch or transfer it (genericOrders).       *)
(*                                                                         *)
(* An order that fails is refunded and deleted; one that succeeds stays in *)
(* liquidityOrders with its status changed, and only the pointers to it    *)
(* move. Nothing looks at the status, or at the pointers: an order that    *)
(* was executed can be executed again, or cancelled by its owner, and is   *)
(* paid for again. Ext01Handler pays for a failing order but deletes the   *)
(* one that has its index at the sub-account that its data names, whatever *)
(* sub-account the order is filed under.                                   *)
(*                                                                         *)
(* overpaid is a history variable: what was paid in these two ways, over   *)
(* and above what orders put in. The pointers by sub-account always change *)
(* together with the global ones and are left out.                         *)
(***************************************************************************)
EXTENDS LiquidityOrder, Sequences

CONSTANTS
    MainOf,      \* the user that each sub-account is of
    Executors,   \* the users that are order executors
    Served,      \* the designs of handlers to look at
    MaxOrders,   \* bound: orders of a sub-account
    MaxCreated,  \* bound: orders altogether
    MaxBatch     \* bound: orders of a batch

ASSUME BookAssumption ==
    /\ DOMAIN MainOf = Accounts
    /\ Served \subseteq Handlers
    /\ {MaxOrders, MaxCreated, MaxBatch} \subseteq Nat

VARIABLES
    serves,                  \* the kinds of orders of this handler
    liquidityOrders,         \* id -> order; deleted ones are out of its domain
    status,                  \* its status field
    liquidityOrdersIndex,    \* sub-account -> index of its next order
    activeOrderPointers, executedOrderPointers,
    held,                    \* balances of the handler
    overpaid                 \* history
vars == <<serves, liquidityOrders, status, liquidityOrdersIndex,
          activeOrderPointers, executedOrderPointers, held, overpaid>>

Ids == Accounts \X (0..(MaxOrders - 1))
Existing == DOMAIN liquidityOrders
\* What the orders of S put in of token t.
Due(S, t) == SumFunction([id \in Ids |-> IF id \in S THEN Escrow(liquidityOrders[id])[t] ELSE 0])
Without(f, id) == [x \in DOMAIN f \ {id} |-> f[x]]

Init ==
    /\ serves \in Served
    /\ liquidityOrders = [id \in {} |-> 0]
    /\ status = [id \in {} |-> 0]
    /\ liquidityOrdersIndex = [a \in Accounts |-> 0]
    /\ activeOrderPointers = {}
    /\ executedOrderPointers = {}
    /\ held = [t \in Tokens |-> 0]
    /\ overpaid = [t \in Tokens |-> 0]

\* createAddLiquidityOrder, createRemoveLiquidityOrder,
\* createWithdrawCollateralOrder, createExtOrder, _addOrder
CreateOrder(o) ==
    LET new == <<o.account, liquidityOrdersIndex[o.account]>> IN
    /\ o.kind \in serves /\ new \in Ids /\ SumFunction(liquidityOrdersIndex) < MaxCreated
    /\ o.kind \in DataKinds => MainOf[o.from] = MainOf[o.account]
    /\ liquidityOrdersIndex' = [liquidityOrdersIndex EXCEPT ![o.account] = @ + 1]
    /\ liquidityOrders' = [id \in Existing \cup {new} |-> IF id = new THEN o ELSE liquidityOrders[id]]
    /\ status' = [id \in Existing \cup {new} |-> IF id = new THEN "PENDING" ELSE status[id]]
    /\ activeOrderPointers' = activeOrderPointers \cup {new}
    /\ held' = [t \in Tokens |-> held[t] + Escrow(o)[t]]
    /\ UNCHANGED <<serves, executedOrderPointers, overpaid>>

\* What a batch works on. An order that reverts it leaves the empty set.
State == [orders |-> liquidityOrders, status |-> status, active |-> activeOrderPointers,
          executed |-> executedOrderPointers, held |-> held, overpaid |-> overpaid]

\* The tokens of payment leave the handler for the order.
Paid(s, id, payment, stays) == [s EXCEPT
    !.held = [t \in Tokens |-> s.held[t] - payment[t]],
    !.overpaid = IF stays \/ s.status[id] # "PENDING"
                 THEN [t \in Tokens |-> s.overpaid[t] + payment[t]] ELSE s.overpaid]

\* Mutant: the pointer to the order is forgotten.
CancelledButPointer(s, id) == [s EXCEPT !.orders = Without(s.orders, id), !.status = Without(s.status, id)]
\* _removeOrder, and the deletion in _cancelOrder.
Cancelled(s, id) == [s EXCEPT
    !.orders = Without(s.orders, id), !.status = Without(s.status, id), !.active = s.active \ {id}]

\* _handleOrderSuccess.
Succeeded(s, id) == [s EXCEPT
    !.status = [s.status EXCEPT ![id] = "SUCCESS"],
    !.active = s.active \ {id}, !.executed = s.executed \cup {id}]

\* The order that is cancelled when order id fails (_handleOrderFail,
\* _handleFailedError).
FailsFor(o, id) == IF o.kind \in DataKinds THEN <<o.from, id[2]>> ELSE id

\* Mutant: a refused order is refunded but not deleted.
RefusedKept(s, id) == {Paid(s, id, Escrow(s.orders[id]), FALSE)}
\* A refused order: its fee goes to the executor, its deposit back to the owner.
\* Ext01Handler has nothing to do for a type it does not know, so that such an
\* order cannot fail.
Refused(s, id) ==
    LET o == s.orders[id]
        target == FailsFor(o, id)
    IN IF o.kind # "other" /\ target \in DOMAIN s.orders
       THEN {Cancelled(Paid(s, id, Escrow(o), target # id), target)} ELSE {}

\* _executeOrder of one order; refused says whether the service refuses it.
ExecuteOne(s, id, refused) ==
    IF id \notin DOMAIN s.orders \/ \E t \in Tokens : Escrow(s.orders[id])[t] > s.held[t] THEN {}
    ELSE IF refused THEN Refused(s, id)
    ELSE {Succeeded(Paid(s, id, Escrow(s.orders[id]), FALSE), id)}

\* The states a batch leaves, order after order.
Executions(batch) ==
    LET after[n \in 0..Len(batch)] ==
            IF n = 0 THEN {State}
            ELSE UNION {ExecuteOne(s, batch[n][1], batch[n][2]) : s \in after[n - 1]}
    IN after[Len(batch)]

Becomes(s) ==
    /\ liquidityOrders' = s.orders
    /\ status' = s.status
    /\ activeOrderPointers' = s.active
    /\ executedOrderPointers' = s.executed
    /\ held' = s.held
    /\ overpaid' = s.overpaid

\* executeOrders with isRevert unset. With isRevert set, a refusal reverts the
\* batch.
ExecuteOrders(batch) ==
    /\ \E s \in Executions(batch) : Becomes(s)
    /\ UNCHANGED <<serves, liquidityOrdersIndex>>

\* Mutant: the fee of a cancelled order is paid twice.
RefundFeeTwice(id) == LET o == liquidityOrders[id] IN [t \in Tokens |-> Escrow(o)[t] + ExecutionFee(o)[t]]
\* What a cancellation gives back: the fee of an executor's own order stays.
Refund(id) ==
    IF MainOf[id[1]] \in Executors THEN Deposit(liquidityOrders[id]) ELSE Escrow(liquidityOrders[id])

\* An order of a type that Ext01Handler does not know has no owner who could
\* cancel it.
MayCancel(id) == liquidityOrders[id].kind = "other" => MainOf[id[1]] \in Executors

\* cancelLiquidityOrder, cancelWithdrawOrder, cancelOrder, by the order's owner
\* or its delegate.
CancelLiquidityOrder(id) ==
    /\ id \in Existing /\ MayCancel(id)
    /\ \A t \in Tokens : Refund(id)[t] <= held[t]
    /\ Becomes(Cancelled(Paid(State, id, Refund(id), FALSE), id))
    /\ UNCHANGED <<serves, liquidityOrdersIndex>>

Batches == UNION {[1..n -> Existing \X BOOLEAN] : n \in 1..MaxBatch}
Next ==
    \/ \E o \in Orders : CreateOrder(o)
    \/ \E id \in Ids : CancelLiquidityOrder(id)
    \/ \E batch \in Batches : ExecuteOrders(batch)
Spec == Init /\ [][Next]_vars

-----------------------------------------------------------------------------
Pending == {id \in Existing : status[id] = "PENDING"}

\* The list of active orders that executors work from is exactly that of the
\* pending ones, and every order that was executed and is still there is in the
\* list of those: whatever is executed, cancelled or deleted, in whichever state
\* it is, and also when it is deleted in the place of another order.
PointersMatch ==
    /\ activeOrderPointers = Pending
    /\ Existing \ Pending \subseteq executedOrderPointers
    /\ executedOrderPointers \cap activeOrderPointers = {}

\* Refinement of the abstract handler. To it, what was overpaid is still held.
Fate(id) ==
    IF id[2] >= liquidityOrdersIndex[id[1]] THEN "unused"
    ELSE IF id \in Pending THEN "pending" ELSE "settled"
Put(id) == IF Fate(id) = "pending" THEN Escrow(liquidityOrders[id]) ELSE [t \in Tokens |-> 0]
Handler == INSTANCE OrderEscrow WITH
    fate <- [id \in Ids |-> Fate(id)], put <- [id \in Ids |-> Put(id)],
    holds <- [t \in Tokens |-> held[t] + overpaid[t]]

\* The order book implements the abstract handler: an order is settled at most
\* once, no settled one comes back, and a step takes no more than the orders that
\* it settles put in, except for what it pays again for orders that were executed,
\* and for failing ones that stay because another one is deleted.
ImplementsEscrow == Handler!Spec

\* What the handler lacks of what its pending orders put in was overpaid: there is
\* no third way to lose it.
ShortByOverpaid == Handler!Covered

\* The handler holds what its pending orders put in. LiquidityHandler02.sol:583
\* says that an "order with amount 0. means order has been executed or
\* canceled", so that neither is refunded.
Covered == \A t \in Tokens : Due(Pending, t) <= held[t]
=============================================================================
