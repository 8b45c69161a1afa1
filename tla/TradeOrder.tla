----------------------------- MODULE TradeOrder -----------------------------
(***************************************************************************)
(* How LimitTradeHandler and TradeOrderHelper turn an order into calls to  *)
(* TradeService. Both net an order against the position it meets: it       *)
(* increases a position of its own side, and decreases or flips one of the *)
(* other side. A call is <<"increase", signed size>> or                    *)
(* <<"decrease", size>>; a position is its signed size, 0 when closed.     *)
(* Both handlers trade with the same positions, at the same time.          *)
(***************************************************************************)
EXTENDS Integers, Sequences

CONSTANTS
    MaxDelta,        \* type(int256).max; type(int256).min is -MaxDelta
    TradeSizeLimit, PositionSizeLimit,  \* of the market; 0 means none
    Accounts,        \* sub-accounts
    Prices,          \* trigger prices and oracle prices; a trigger price of 0 is a market order
    MaxTime,         \* bound: time
    MaxBatch         \* bound: orders of a batch

ASSUME TradeOrderAssumption ==
    /\ MaxDelta \in Nat \ {0}
    /\ TradeSizeLimit \in Nat /\ PositionSizeLimit \in Nat
    /\ Prices \subseteq Nat \ {0}
    /\ {MaxTime, MaxBatch} \subseteq Nat

VARIABLES
    positions,       \* of each account: positionSizeE30
    time

Size(x) == IF x < 0 THEN -x ELSE x
Smaller(x, y) == IF x < y THEN x ELSE y
SameSide(x, y) == (x > 0) <=> (y > 0)

\* The positions a call of TradeService leaves: one, or none if it reverts.
Call(position, call) ==
    IF call[1] = "increase"
    THEN IF position = 0 \/ SameSide(position, call[2]) THEN {position + call[2]} ELSE {}
    ELSE IF position = 0 \/ call[2] > Size(position) THEN {}
    ELSE {IF position > 0 THEN position - call[2] ELSE position + call[2]}

\* Mutant: the side of the position is not looked at.
ReducingCallsAnySide(position, delta) ==
    IF position # 0 /\ SameSide(position, delta) THEN << <<"increase", delta>> >>
    ELSE << <<"decrease", Smaller(Size(delta), Size(position))>> >>
\* The calls of a reduce-only order: it does nothing unless it closes.
ReducingCalls(position, delta) ==
    IF position # 0 /\ delta # 0 /\ ~SameSide(position, delta)
    THEN << <<"decrease", Smaller(Size(delta), Size(position))>> >>
    ELSE << >>

\* The calls of any other order.
NettingCalls(position, delta) ==
    IF delta = 0 THEN << >>
    ELSE IF position = 0 \/ SameSide(position, delta) THEN << <<"increase", delta>> >>
    ELSE IF Size(delta) > Size(position)
    THEN << <<"decrease", Size(position)>>, <<"increase", delta + position>> >>
    ELSE << <<"decrease", Size(delta)>> >>

Calls(position, delta, reduceOnly) ==
    IF reduceOnly THEN ReducingCalls(position, delta) ELSE NettingCalls(position, delta)

\* The positions that all of them leave, one after the other.
Filled(position, delta, reduceOnly) ==
    LET calls == Calls(position, delta, reduceOnly) IN
    CASE Len(calls) = 0 -> {position}
      [] Len(calls) = 1 -> Call(position, calls[1])
      [] Len(calls) = 2 -> UNION {Call(p, calls[2]) : p \in Call(position, calls[1])}

\* LimitTradeHelper.validate, TradeOrderHelper.preValidate.
WithinLimits(position, delta, reduceOnly) ==
    \/ reduceOnly
    \/ /\ TradeSizeLimit > 0 => Size(delta) <= TradeSizeLimit
       /\ PositionSizeLimit > 0 => Size(position + delta) <= PositionSizeLimit
=============================================================================
