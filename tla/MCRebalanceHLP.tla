--------------------------- MODULE MCRebalanceHLP ---------------------------
\* Instances of RebalanceHLP for TLC.
EXTENDS RebalanceHLP, TLC
CONSTANTS a1, k, usd, eth, gm, k1, k2

TwoEth == [t \in Tokens |-> IF t = eth THEN 2 ELSE 1]
PoolTokens == <<usd, eth, gm>>
KeySymmetry == Permutations(Keys)
=============================================================================
