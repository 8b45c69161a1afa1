--------------------------- MODULE LiquidityQueue ---------------------------
(***************************************************************************)
(* LiquidityHandler: liquidity orders in one array, executed in the order  *)
(* of their creation, in chunks. An order that LiquidityService refuses is *)
(* refunded and the queue moves on. CrossMarginHandler is the same queue   *)
(* of orders to withdraw collateral (withdrawOrders), with chunks that are *)
(* larger by one; an order that CrossMarginService refuses loses its fee.  *)
(*                                                                         *)
(* A deleted order is out of the domain of liquidityOrders. A batch whose  *)
(* payments the handler cannot cover reverts, whether its orders succeed   *)
(* or fail, since either outcome takes an order's deposit.                 *)
(***************************************************************************)
EXTENDS LiquidityOrder

CONSTANTS
    MaxExecutionChunk,
    MaxOrders           \* bound: length of the array

ASSUME QueueAssumption == MaxExecutionChunk \in Nat \ {0} /\ MaxOrders \in Nat

VARIABLES
    serves,                   \* the kinds of orders of this handler
    liquidityOrders,          \* index -> order
    length,                   \* liquidityOrders.length
    nextExecutionOrderIndex,
    executed,                 \* accountExecutedLiquidityOrders: index and status
    held                      \* balances of the handler
vars == <<serves, liquidityOrders, length, nextExecutionOrderIndex, executed, held>>

Ids == 0..(MaxOrders - 1)
Statuses == {"SUCCESS", "FAIL"}
\* What the orders of S put in of token t.
Due(S, t) == SumFunction([id \in Ids |-> IF id \in S THEN Escrow(liquidityOrders[id])[t] ELSE 0])
Without(S) == [id \in DOMAIN liquidityOrders \ S |-> liquidityOrders[id]]

Init ==
    /\ serves \in {LiquidityKinds, WithdrawKinds}
    /\ liquidityOrders = [id \in {} |-> 0]
    /\ length = 0
    /\ nextExecutionOrderIndex = 0
    /\ executed = {}
    /\ held = [t \in Tokens |-> 0]

\* createAddLiquidityOrder, createRemoveLiquidityOrder,
\* createWithdrawCollateralOrder
CreateOrder(o) ==
    /\ o.kind \in serves
    /\ length < MaxOrders
    /\ liquidityOrders' = [id \in DOMAIN liquidityOrders \cup {length} |->
            IF id = length THEN o ELSE liquidityOrders[id]]
    /\ length' = length + 1
    /\ held' = [t \in Tokens |-> held[t] + Escrow(o)[t]]
    /\ UNCHANGED <<serves, nextExecutionOrderIndex, executed>>

\* How many orders a batch may have: maxExecutionChuck, of which
\* CrossMarginHandler takes one more than LiquidityHandler.
Chunk == IF serves = WithdrawKinds THEN MaxExecutionChunk + 1 ELSE MaxExecutionChunk

\* Mutant: the end of the array is not looked at.
EndIndexUncapped(endIndex) ==
    IF endIndex - nextExecutionOrderIndex > Chunk - 1
    THEN nextExecutionOrderIndex + Chunk - 1
    ELSE endIndex
\* The last index of a batch: within the array, and within a chunk.
EndIndex(endIndex) ==
    LET latest == IF endIndex > length - 1 THEN length - 1 ELSE endIndex IN
    IF latest - nextExecutionOrderIndex > Chunk - 1
    THEN nextExecutionOrderIndex + Chunk - 1
    ELSE latest

Batch(endIndex) == {id \in DOMAIN liquidityOrders : nextExecutionOrderIndex <= id /\ id <= endIndex}
\* Mutant: the index moves past the orders that did not fit in the chunk.
NextIndexUnchunked(endIndex) == (IF endIndex > length - 1 THEN length - 1 ELSE endIndex) + 1
NextIndex(endIndex) == EndIndex(endIndex) + 1

\* executeOrder; failed is the set of orders that the service refuses.
ExecuteOrder(endIndex, failed) ==
    LET batch == Batch(EndIndex(endIndex)) IN
    /\ nextExecutionOrderIndex # length
    /\ nextExecutionOrderIndex <= endIndex
    /\ failed \subseteq batch
    /\ \A t \in Tokens : Due(batch, t) <= held[t]
    /\ held' = [t \in Tokens |-> held[t] - Due(batch, t)]
    /\ executed' = executed \cup {<<id, IF id \in failed THEN "FAIL" ELSE "SUCCESS">> : id \in batch}
    /\ liquidityOrders' = Without(batch)
    /\ nextExecutionOrderIndex' = NextIndex(endIndex)
    /\ UNCHANGED <<serves, length>>

\* Mutants: the fee of a cancelled order is paid twice; the order stays.
RefundFeeTwice(o) == [t \in Tokens |-> Escrow(o)[t] + ExecutionFee(o)[t]]
\* _refund, and the execution fee.
Refund(o) == Escrow(o)
RemainingAll(id) == liquidityOrders
Remaining(id) == Without({id})

\* cancelLiquidityOrder, cancelWithdrawOrder, by the order's owner.
CancelLiquidityOrder(id) ==
    /\ id < length /\ id >= nextExecutionOrderIndex
    /\ id \in DOMAIN liquidityOrders
    /\ \A t \in Tokens : Refund(liquidityOrders[id])[t] <= held[t]
    /\ held' = [t \in Tokens |-> held[t] - Refund(liquidityOrders[id])[t]]
    /\ liquidityOrders' = Remaining(id)
    /\ UNCHANGED <<serves, length, nextExecutionOrderIndex, executed>>

\* An executor may ask for more than there is.
Execution == \E endIndex \in 0..MaxOrders : \E failed \in SUBSET Ids : ExecuteOrder(endIndex, failed)
Next ==
    \/ \E o \in Orders : CreateOrder(o)
    \/ \E id \in Ids : CancelLiquidityOrder(id)
    \/ Execution
Spec == Init /\ [][Next]_vars

\* The executors, bots of the protocol, execute as long as there are orders.
FairSpec == Spec /\ WF_vars(Execution)

-----------------------------------------------------------------------------
\* Type invariant.
TypeOK ==
    /\ DOMAIN liquidityOrders \subseteq Ids
    /\ \A id \in DOMAIN liquidityOrders : liquidityOrders[id] \in Orders
    /\ length \in 0..MaxOrders
    /\ nextExecutionOrderIndex \in 0..MaxOrders
    /\ executed \subseteq Ids \X Statuses
    /\ held \in [Tokens -> Nat]

\* No order is left behind the index: it could neither be executed nor
\* cancelled any more, and what it put in would be lost.
NothingSkipped ==
    /\ nextExecutionOrderIndex <= length
    /\ \A id \in DOMAIN liquidityOrders : nextExecutionOrderIndex <= id /\ id < length

\* Refinement of the abstract handler.
Fate(id) ==
    IF id >= length THEN "unused"
    ELSE IF id \in DOMAIN liquidityOrders THEN "pending" ELSE "settled"
Put(id) == IF id \in DOMAIN liquidityOrders THEN Escrow(liquidityOrders[id]) ELSE [t \in Tokens |-> 0]
Handler == INSTANCE OrderEscrow WITH
    fate <- [id \in Ids |-> Fate(id)], put <- [id \in Ids |-> Put(id)], holds <- held

\* The queue implements the abstract handler: an order is settled at most once
\* and its settlement takes no more than it put in.
ImplementsEscrow == Handler!Spec

\* The handler holds what its pending orders put in.
Covered == Handler!Covered

\* Every order is settled if the executors keep executing, whatever orders are
\* refused, cancelled or created meanwhile.
EventuallySettled == \A id \in Ids : Fate(id) = "pending" ~> Fate(id) = "settled"
=============================================================================
