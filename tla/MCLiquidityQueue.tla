-------------------------- MODULE MCLiquidityQueue --------------------------
\* Instances of LiquidityQueue for TLC.
EXTENDS LiquidityQueue
CONSTANTS u1, u2, weth, usd, hlp
=============================================================================
