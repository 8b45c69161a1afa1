------------------------------ MODULE MCStaking ------------------------------
\* Instances of TradingStaking and TLCStaking for TLC. The two share nothing but
\* the trades they are told of, so a behaviour is about one or the other.
EXTENDS TradingStaking, TLCStaking, TLC
CONSTANTS u1, u2, m1, m2
VARIABLE part
Symmetry == Permutations(Users) \union Permutations(Markets)
MCInit == part \in {"trading", "credits"} /\ Init /\ CreditsInit
MCNext ==
    \/ part = "trading" /\ Next /\ UNCHANGED <<creditVars, part>>
    \/ part = "credits" /\ CreditsNext /\ UNCHANGED <<vars, part>>
MCSpec == MCInit /\ [][MCNext]_<<vars, creditVars, part>>
=============================================================================
