---------------------------- MODULE VaultStorage ----------------------------
(***************************************************************************)
(* VaultStorage: the books of every token the exchange holds. The contract *)
(* is a record here, and its functions are operators from a record to the  *)
(* next one, named after them; the services that call them are the actions *)
(* of ExchangeLedger and RebalanceHLP.                                     *)
(*                                                                         *)
(* The token balances of the contract itself belong to the token contracts *)
(* (IERC20.balanceOf) and are an argument, b, of the two operations that   *)
(* read them.                                                              *)
(***************************************************************************)
EXTENDS Integers, Sequences, FiniteSets, Functions

CONSTANTS
    Accounts,   \* sub-accounts, those of the keepers included
    Tokens      \* tokens the vault keeps books of

\* Where the exchange's own tokens are booked: the pool's liquidity, the fees
\* of the protocol and of the developers, and the collected funding fees.
Buckets == {"hlpLiquidity", "protocolFees", "devFees", "fundingFeeReserve"}
\* What a trader may owe.
Debts == {"tradingFee", "borrowingFee", "fundingFee", "loss"}

Vaults == [
    totalAmount    : [Tokens -> Nat],
    onHold         : [Tokens -> Nat],
    bucket         : [Buckets \X Tokens -> Nat],
    traderBalances : [Accounts \X Tokens -> Nat],
    traderTokens   : [Accounts -> Seq(Tokens)],
    debt           : [Debts \X Accounts -> Nat],
    globalDebt     : [Debts -> Nat],
    hlpDebt        : Nat]  \* hlpLiquidityDebtUSDE30

EmptyVault == [
    totalAmount    |-> [t \in Tokens |-> 0],
    onHold         |-> [t \in Tokens |-> 0],
    bucket         |-> [bt \in Buckets \X Tokens |-> 0],
    traderBalances |-> [at \in Accounts \X Tokens |-> 0],
    traderTokens   |-> [a \in Accounts |-> <<>>],
    debt           |-> [ka \in Debts \X Accounts |-> 0],
    globalDebt     |-> [k \in Debts |-> 0],
    hlpDebt        |-> 0]

-----------------------------------------------------------------------------
\* The token contracts.

\* What pullToken returns: what came in since the books were last synchronised.
Pulled(v, b, t) == b[t] + v.onHold[t] - v.totalAmount[t]
\* pullToken, and the end of pushToken once the tokens have left.
Sync(v, b, t) == [v EXCEPT !.totalAmount[t] = b[t] + v.onHold[t]]

\* The books without the n tokens that are not coming back.
ClearOnHold(v, t, n) == [v EXCEPT !.totalAmount[t] = @ - n, !.onHold[t] = @ - n]

-----------------------------------------------------------------------------
\* Balances and debts. A negative n takes from the bucket (the debt).

Credit(v, k, t, n) == [v EXCEPT !.bucket[<<k, t>>] = @ + n]
AddDebt(v, k, a, n) == [v EXCEPT !.debt[<<k, a>>] = @ + n, !.globalDebt[k] = @ + n]
AddHlpDebt(v, n) == [v EXCEPT !.hlpDebt = @ + n]

\* The list without t: its last element takes t's place and is popped.
WithoutToken(list, t) ==
    LET i == CHOOSE j \in 1..Len(list) : list[j] = t
    IN  [j \in 1..(Len(list) - 1) |-> IF j = i THEN list[Len(list)] ELSE list[j]]

IncreaseTrader(v, a, t, n) ==
    IF n = 0 THEN v
    ELSE [v EXCEPT !.traderBalances[<<a, t>>] = @ + n,
                   !.traderTokens[a] = IF v.traderBalances[<<a, t>>] = 0 THEN Append(@, t) ELSE @]
DeductTrader(v, a, t, n) ==
    IF n = 0 THEN v
    ELSE [v EXCEPT !.traderBalances[<<a, t>>] = @ - n,
                   !.traderTokens[a] = IF v.traderBalances[<<a, t>>] = n THEN WithoutToken(@, t) ELSE @]
Transfer(v, t, a, b, n) == IncreaseTrader(DeductTrader(v, a, t, n), b, t, n)

-----------------------------------------------------------------------------
\* Settlement payments.

PayHlp(v, a, t, n) == DeductTrader(Credit(v, "hlpLiquidity", t, n), a, t, n)
PayTradingFee(v, a, t, dev, fee) ==
    Credit(Credit(DeductTrader(v, a, t, dev + fee), "devFees", t, dev), "protocolFees", t, fee)
\* Mutant: the pool is paid the developers' share as well.
PayBorrowingFeeTwice(v, a, t, dev, fee) ==
    Credit(Credit(DeductTrader(v, a, t, dev + fee), "devFees", t, dev), "hlpLiquidity", t, dev + fee)
PayBorrowingFee(v, a, t, dev, fee) ==
    Credit(Credit(DeductTrader(v, a, t, dev + fee), "devFees", t, dev), "hlpLiquidity", t, fee)
\* Mutant: the pool is not debited.
PayTraderProfitFree(v, a, t, n) == IncreaseTrader(v, a, t, n)
PayTraderProfit(v, a, t, n) == IncreaseTrader(Credit(v, "hlpLiquidity", t, -n), a, t, n)

FundingFeeToReserve(v, a, t, n) == Credit(DeductTrader(v, a, t, n), "fundingFeeReserve", t, n)
FundingFeeFromReserve(v, a, t, n) == IncreaseTrader(Credit(v, "fundingFeeReserve", t, -n), a, t, n)
\* The pool lends (is repaid) n tokens of a given value for funding fees.
BorrowFundingFeeFromHlp(v, a, t, n, value) ==
    AddHlpDebt(IncreaseTrader(Credit(v, "hlpLiquidity", t, -n), a, t, n), value)
RepayFundingFeeToHlp(v, a, t, n, value) ==
    AddHlpDebt(Credit(DeductTrader(v, a, t, n), "hlpLiquidity", t, n), -value)

ReserveToHlp(v, t, n) == Credit(Credit(v, "fundingFeeReserve", t, -n), "hlpLiquidity", t, n)
HoldLiquidity(v, t, n) == Credit([v EXCEPT !.onHold[t] = @ + n], "hlpLiquidity", t, -n)

-----------------------------------------------------------------------------
\* What the vault owes in token t: to the traders, to the pool and to the
\* fee collectors.
OfToken(f, t) == [xt \in DOMAIN f |-> IF xt[2] = t THEN f[xt] ELSE 0]
Claims(v, t) == SumFunction(OfToken(v.bucket, t)) + SumFunction(OfToken(v.traderBalances, t))
=============================================================================
