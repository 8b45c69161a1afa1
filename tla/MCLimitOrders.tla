---------------------------- MODULE MCLimitOrders ----------------------------
\* Instances of LimitOrders for TLC.
EXTENDS LimitOrders
CONSTANTS u1, u2
\* No size, reductions and increases, and the two that close a position.
SomeDeltas == {-MaxDelta, -2, 0, 1, MaxDelta}
=============================================================================
