---------------------------- MODULE RebalanceHLP ----------------------------
(***************************************************************************)
(* RebalanceHLPv2Service: the pool's tokens are deployed to a GMX v2       *)
(* market through orders that GMX executes or cancels later, and answers   *)
(* by a callback. Meanwhile they are on hold: out of the pool's liquidity, *)
(* out of the vault, but still part of its total amount. The vault is      *)
(* shared with all the operations of ExchangeLedger, which interleave.     *)
(*                                                                         *)
(* GMX is external: an order it was given is answered at most once, GMX    *)
(* sends the tokens to the service first, and a callback may fail (it runs *)
(* under a gas limit, callbackGasLimit), in which case the tokens stay     *)
(* with the service and its order stays pending.                           *)
(***************************************************************************)
EXTENDS ExchangeLedger

CONSTANTS
    LongToken, ShortToken, Market,  \* of the GMX market; Market is its GM token
    Keys,                           \* bound: order keys
    LongAmounts, ShortAmounts,      \* of the deposit orders
    GmAmounts                       \* GMs a deposit yields or a withdrawal takes

ASSUME RebalanceAssumption ==
    /\ {LongToken, ShortToken, Market} \subseteq Tokens
    /\ Market \notin {LongToken, ShortToken}
    /\ IsFiniteSet(Keys)
    /\ LongAmounts \subseteq Nat /\ ShortAmounts \subseteq Nat /\ GmAmounts \subseteq Nat \ {0}

VARIABLES
    held,               \* tokens the service itself holds
    pendingDeposit,     \* key -> amounts, for the pending keys
    pendingWithdrawal,  \* key -> GMs, for the pending keys
    gmx                 \* key -> what GMX has of it
orderVars == <<held, pendingDeposit, pendingWithdrawal, gmx>>
rebalanceVars == <<vars, orderVars>>

RebalanceInit ==
    /\ Init
    /\ held = [t \in Tokens |-> 0]
    /\ pendingDeposit = <<>>
    /\ pendingWithdrawal = <<>>
    /\ gmx = [key \in Keys |-> "unused"]

Answered(key) == gmx' = [gmx EXCEPT ![key] = "answered"]
Added(pending, key, order) ==
    [x \in DOMAIN pending \cup {key} |-> IF x = key THEN order ELSE pending[x]]
Deleted(pending, key) == [x \in DOMAIN pending \ {key} |-> pending[x]]

-----------------------------------------------------------------------------
\* An order is created. x holds the vault, its balances and the service's.

Deployed(x, t, n) ==
    IF n = 0 THEN x
    ELSE LET b == In(x.balance, t, -n) IN
         [x EXCEPT !.vault = Sync(HoldLiquidity(@, t, n), b, t), !.balance = b]

CreateDeposit(key, long, short) ==
    LET x == Deployed(Deployed([vault |-> vault, balance |-> balance], LongToken, long),
                      ShortToken, short) IN
    /\ gmx[key] = "unused"
    /\ \A t \in Tokens : x.vault.bucket[<<"hlpLiquidity", t>>] >= 0
    /\ vault' = x.vault /\ balance' = x.balance
    /\ pendingDeposit' = Added(pendingDeposit, key, [long |-> long, short |-> short])
    /\ gmx' = [gmx EXCEPT ![key] = "deposit"]
    /\ UNCHANGED <<held, pendingWithdrawal>>

CreateWithdrawal(key, n) ==
    LET x == Deployed([vault |-> vault, balance |-> balance], Market, n) IN
    /\ gmx[key] = "unused"
    /\ x.vault.bucket[<<"hlpLiquidity", Market>>] >= 0
    /\ vault' = x.vault /\ balance' = x.balance
    /\ pendingWithdrawal' = Added(pendingWithdrawal, key, n)
    /\ gmx' = [gmx EXCEPT ![key] = "withdrawal"]
    /\ UNCHANGED <<held, pendingDeposit>>

-----------------------------------------------------------------------------
\* The callbacks' parts. n tokens t the service received join the pool.
Received(x, t, n) ==
    IF n = 0 THEN x
    ELSE LET b == In(x.balance, t, n) IN
         [x EXCEPT !.vault = Credit(Sync(@, b, t), "hlpLiquidity", t, n),
                   !.balance = b, !.held[t] = @ - n]

\* Mutants: what came back is not added to the pool; the hold is not cleared.
ReturnedUncredited(x, t, from, n) ==
    IF n = 0 THEN x
    ELSE LET b == In(x.balance, from, n) IN
         [x EXCEPT !.vault = Sync(ClearOnHold(@, t, n), b, t), !.balance = b, !.held[from] = @ - n]
ReturnedStillHeld(x, t, from, n) ==
    IF n = 0 THEN x
    ELSE LET b == In(x.balance, from, n) IN
         [x EXCEPT !.vault = Credit(Sync(@, b, t), "hlpLiquidity", t, Pulled(@, b, t)),
                   !.balance = b, !.held[from] = @ - n]
\* n tokens t are no longer on hold; as many tokens "from" go from the service
\* to the vault, and what the vault finds of t joins the pool.
Returned(x, t, from, n) ==
    IF n = 0 THEN x
    ELSE LET v == ClearOnHold(x.vault, t, n)
             b == In(x.balance, from, n) IN
         [x EXCEPT !.vault = Credit(Sync(v, b, t), "hlpLiquidity", t, Pulled(v, b, t)),
                   !.balance = b, !.held[from] = @ - n]

\* The state once GMX has sent the service what it answers with.
With(amount) == [vault |-> vault, balance |-> balance,
                 held |-> [t \in Tokens |-> held[t] + amount[t]]]
Sent(t, n, u, m) == [w \in Tokens |-> (IF w = t THEN n ELSE 0) + (IF w = u THEN m ELSE 0)]

AfterDepositExecution(x, d, gms) ==
    LET y == Received(x, Market, gms) IN
    [y EXCEPT !.vault = ClearOnHold(ClearOnHold(@, LongToken, d.long), ShortToken, d.short)]
\* The short tokens are cleared, but it is long tokens that are transferred.
AfterDepositCancellation(x, d) ==
    Returned(Returned(x, LongToken, LongToken, d.long), ShortToken, LongToken, d.short)
AfterWithdrawalExecution(x, n, long, short) ==
    LET y == Received(Received(x, LongToken, long), ShortToken, short) IN
    [y EXCEPT !.vault = ClearOnHold(@, Market, n)]
AfterWithdrawalCancellation(x, n) == Returned(x, Market, Market, n)

\* Bound: tokens in circulation, those at GMX included.
WithinSupply(v, b, h) == \A t \in Tokens : b[t] + v.onHold[t] + h[t] <= Supply[t]

\* A callback reverts when the service does not have what it transfers.
Covered(x) == \A t \in Tokens : x.held[t] >= 0
Becomes(x) ==
    /\ Covered(x)
    /\ vault' = x.vault /\ balance' = x.balance /\ held' = x.held

-----------------------------------------------------------------------------
ExecuteDeposit(key, gms) ==
    /\ gmx[key] = "deposit" /\ Answered(key)
    /\ Becomes(AfterDepositExecution(With(Sent(Market, gms, Market, 0)), pendingDeposit[key], gms))
    /\ WithinSupply(vault', balance', held')
    /\ pendingDeposit' = Deleted(pendingDeposit, key)
    /\ UNCHANGED pendingWithdrawal
CancelDeposit(key) ==
    LET d == pendingDeposit[key] IN
    /\ gmx[key] = "deposit" /\ Answered(key)
    /\ Becomes(AfterDepositCancellation(With(Sent(LongToken, d.long, ShortToken, d.short)), d))
    /\ pendingDeposit' = Deleted(pendingDeposit, key)
    /\ UNCHANGED pendingWithdrawal
ExecuteWithdrawal(key, long, short) ==
    /\ gmx[key] = "withdrawal" /\ Answered(key)
    /\ Becomes(AfterWithdrawalExecution(With(Sent(LongToken, long, ShortToken, short)),
                                        pendingWithdrawal[key], long, short))
    /\ WithinSupply(vault', balance', held')
    /\ pendingWithdrawal' = Deleted(pendingWithdrawal, key)
    /\ UNCHANGED pendingDeposit
CancelWithdrawal(key) ==
    LET n == pendingWithdrawal[key] IN
    /\ gmx[key] = "withdrawal" /\ Answered(key)
    /\ Becomes(AfterWithdrawalCancellation(With(Sent(Market, n, Market, 0)), n))
    /\ pendingWithdrawal' = Deleted(pendingWithdrawal, key)
    /\ UNCHANGED pendingDeposit

\* GMX answers, with the tokens of a cancellation or of an execution, but the
\* callback fails.
CallbackFails(key, gms, long, short) ==
    /\ gmx[key] \in {"deposit", "withdrawal"} /\ Answered(key)
    /\ held' = With(CASE gmx[key] = "deposit" /\ gms = 0 ->
                            Sent(LongToken, pendingDeposit[key].long, ShortToken, pendingDeposit[key].short)
                      [] gmx[key] = "deposit" /\ gms # 0    -> Sent(Market, gms, Market, 0)
                      [] gmx[key] = "withdrawal" /\ gms = 0 -> Sent(Market, pendingWithdrawal[key], Market, 0)
                      [] gmx[key] = "withdrawal" /\ gms # 0 -> Sent(LongToken, long, ShortToken, short)).held
    /\ UNCHANGED <<vars, pendingDeposit, pendingWithdrawal>>

RebalanceNext ==
    \/ Next /\ WithinSupply(vault', balance', held) /\ UNCHANGED orderVars
    \/ \E key \in Keys :
          \/ CancelDeposit(key)
          \/ CancelWithdrawal(key)
          \/ \E gms \in GmAmounts : CreateWithdrawal(key, gms) \/ ExecuteDeposit(key, gms)
          \/ \E long \in LongAmounts, short \in ShortAmounts :
                \/ CreateDeposit(key, long, short)
                \/ ExecuteWithdrawal(key, long, short)
                \/ \E gms \in GmAmounts \cup {0} : CallbackFails(key, gms, long, short)
RebalanceSpec == RebalanceInit /\ [][RebalanceNext]_rebalanceVars

-----------------------------------------------------------------------------
\* What is on hold is exactly what the pending orders took: no answer clears
\* another order's tokens, and none is cleared twice.
OnHoldMatch ==
    \A t \in Tokens : vault.onHold[t] =
        SumFunction([key \in DOMAIN pendingDeposit |->
            (IF t = LongToken THEN pendingDeposit[key].long ELSE 0)
            + (IF t = ShortToken THEN pendingDeposit[key].short ELSE 0)])
        + SumFunction([key \in DOMAIN pendingWithdrawal |->
            IF t = Market THEN pendingWithdrawal[key] ELSE 0])

\* Were GMX to cancel the deposit d, the callback would complete, and the pool
\* would have back at least what was deployed.
Returns(d) ==
    LET x == AfterDepositCancellation(With(Sent(LongToken, d.long, ShortToken, d.short)), d)
        Back(t) == x.vault.bucket[<<"hlpLiquidity", t>>] - vault.bucket[<<"hlpLiquidity", t>>] IN
    /\ Covered(x)
    /\ Back(LongToken) >= d.long
    /\ Back(ShortToken) >= d.short

\* RebalanceHLPv2Service.sol:260-261: "Clear on hold tokens and add them back to
\* HLP liquidity as the deposit was cancelled and deployed tokens are returned".
CancellationReturns == \A key \in DOMAIN pendingDeposit : gmx[key] = "deposit" => Returns(pendingDeposit[key])

\* So it is for the deposits of long tokens only, whatever has happened to the
\* vault's books meanwhile.
LongReturns ==
    \A key \in DOMAIN pendingDeposit :
        gmx[key] = "deposit" /\ pendingDeposit[key].short = 0 => Returns(pendingDeposit[key])
=============================================================================
