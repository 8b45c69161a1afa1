----------------------------- MODULE OrderEscrow -----------------------------
(***************************************************************************)
(* What every order handler promises its users: an order puts tokens into  *)
(* the handler once, is settled (executed, refunded or cancelled) at most  *)
(* once, and settling orders takes no more than those orders put in.       *)
(***************************************************************************)
EXTENDS Integers, FiniteSets, Functions

CONSTANTS Ids, Tokens

VARIABLES
    fate,   \* of each order
    put,    \* what each pending order put in
    holds   \* tokens of the handler
vars == <<fate, put, holds>>

Nothing == [t \in Tokens |-> 0]
\* What the orders of S put in of token t.
Taken(S, t) == SumFunction([id \in Ids |-> IF id \in S THEN put[id][t] ELSE 0])

Init ==
    /\ fate = [id \in Ids |-> "unused"]
    /\ put = [id \in Ids |-> Nothing]
    /\ holds = Nothing

Create(id) ==
    /\ fate[id] = "unused"
    /\ fate' = [fate EXCEPT ![id] = "pending"]
    /\ put' \in [Ids -> [Tokens -> Nat]]
    /\ \A x \in Ids \ {id} : put'[x] = put[x]
    /\ holds' = [t \in Tokens |-> holds[t] + put'[id][t]]

Settle(S) ==
    /\ \A id \in S : fate[id] = "pending"
    /\ fate' = [id \in Ids |-> IF id \in S THEN "settled" ELSE fate[id]]
    /\ put' = [id \in Ids |-> IF id \in S THEN Nothing ELSE put[id]]
    /\ holds' \in [Tokens -> Nat]
    /\ \A t \in Tokens : holds[t] <= holds'[t] + Taken(S, t)

Next == (\E id \in Ids : Create(id)) \/ (\E S \in SUBSET Ids : Settle(S))
Spec == Init /\ [][Next]_vars

-----------------------------------------------------------------------------
TypeOK ==
    /\ fate \in [Ids -> {"unused", "pending", "settled"}]
    /\ put \in [Ids -> [Tokens -> Nat]]
    /\ holds \in [Tokens -> Nat]

\* The handler can give every pending order back what it put in, all at once:
\* no refund ever fails, or is paid with the tokens of another order.
Covered == \A t \in Tokens : Taken(Ids, t) <= holds[t]
=============================================================================
