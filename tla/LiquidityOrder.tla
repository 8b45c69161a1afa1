--------------------------- MODULE LiquidityOrder ---------------------------
(***************************************************************************)
(* The orders of the liquidity and collateral handlers and what a handler  *)
(* holds for them: the tokens of an order that adds liquidity, the HLP of  *)
(* one that removes it, and the execution fee in WETH. Orders to withdraw, *)
(* switch or transfer collateral put in the fee alone: what they move is   *)
(* in the vault. Native tokens are wrapped on their way in and unwrapped   *)
(* on their way out, so they count as WETH.                                *)
(***************************************************************************)
EXTENDS Integers, FiniteSets, Functions

CONSTANTS
    Accounts,   \* users, by sub-account
    Tokens,     \* tokens, WETH and HLP included
    Weth, Hlp,
    LiquidityTokens,  \* accepted by onlyAcceptedToken
    Amounts,          \* amounts of the orders; zero is refused on creation
    Fees              \* execution fees, at least minExecutionOrderFee

ASSUME OrderAssumption ==
    /\ IsFiniteSet(Accounts) /\ IsFiniteSet(Tokens)
    /\ Weth \in Tokens /\ Hlp \in Tokens /\ Weth # Hlp
    /\ LiquidityTokens \subseteq Tokens \ {Hlp}
    /\ Amounts \subseteq Nat \ {0} /\ Fees \subseteq Nat

LiquidityKinds == {"add", "remove"}
WithdrawKinds == {"withdraw"}
\* Types 1 and 2 of Ext01Handler, whose data names a sub-account of the user's, and
\* any other one but 0.
DataKinds == {"switch", "transfer"}
ExtKinds == DataKinds \cup {"other"}
\* What the handlers of each design take orders for. A contract has its own.
Handlers == {LiquidityKinds, WithdrawKinds, ExtKinds}

Orders == [account : Accounts, kind : LiquidityKinds, token : LiquidityTokens,
           amount : Amounts, fee : Fees]
    \cup [account : Accounts, kind : WithdrawKinds \cup {"other"}, fee : Fees]
    \cup [account : Accounts, kind : DataKinds, from : Accounts, fee : Fees]

\* What the order took from its owner, besides the fee: createAddLiquidityOrder
\* and createRemoveLiquidityOrder. The execution of the order, or its refund, takes
\* as much from the handler.
Deposit(o) == [t \in Tokens |->
    IF (o.kind = "add" /\ t = o.token) \/ (o.kind = "remove" /\ t = Hlp) THEN o.amount ELSE 0]
ExecutionFee(o) == [t \in Tokens |-> IF t = Weth THEN o.fee ELSE 0]
Escrow(o) == [t \in Tokens |-> Deposit(o)[t] + ExecutionFee(o)[t]]
=============================================================================
