----------------------------- MODULE MCPerpBook -----------------------------
\* Instances of PerpBook for TLC.
EXTENDS PerpBook, TLC
CONSTANTS a1, a2, btc, eth, eur, crypto, forex

OneClass == [m \in Markets |-> crypto]
TwoClasses == [m \in Markets |-> IF m = eur THEN forex ELSE crypto]
AccountSymmetry == Permutations(Accounts)
=============================================================================
