------------------------------ MODULE MCIntents ------------------------------
\* Instances of Intents for TLC.
EXTENDS Intents, TLC
CONSTANTS u1, w1, none, b0, b1
Order(delta, trigger, reduceOnly, expiry) ==
    [account |-> u1, sizeDelta |-> delta, triggerPrice |-> trigger, triggerAboveThreshold |-> TRUE,
     reduceOnly |-> reduceOnly, expiryTimestamp |-> expiry]
\* A market order, a limit order, and an order that takes profit.
SomeIntents == {Order(1, 0, FALSE, 1), Order(-1, 1, FALSE, 0), Order(-2, 1, TRUE, 1)}
\* No order is tied to the bits that decoding passes over.
SpareBits == Permutations({b0, b1})
=============================================================================
