-------------------------- MODULE MCLiquidityOrders --------------------------
\* Instances of LiquidityOrders for TLC: a user with two sub-accounts, and an
\* executor.
EXTENDS LiquidityOrders
CONSTANTS u0, u1, x0, user, executor, weth, usd, hlp
Mains == [a \in Accounts |-> IF a = x0 THEN executor ELSE user]
AllDesigns == Handlers
LiquidityOnly == {LiquidityKinds}
=============================================================================
