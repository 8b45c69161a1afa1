----------------------------- MODULE Settlement -----------------------------
(***************************************************************************)
(* How TradeHelper and GasService settle what a trader earns and owes: a   *)
(* waterfall over the tokens of the pool, in the order of the configured   *)
(* list, and within a token over the kinds of debt. Values are in USD and  *)
(* amounts in tokens; price[t] USD buy Unit of token t, and every          *)
(* conversion rounds down.                                                 *)
(***************************************************************************)
EXTENDS VaultStorage

CONSTANTS
    HlpTokens,   \* ConfigStorage.hlpAssetIds, as a sequence of tokens
    Unit,        \* 10^decimals
    DevNum, DevDen  \* TradingConfig.devFeeRateBPS / BPS

ASSUME SettlementAssumption ==
    /\ HlpTokens \in Seq(Tokens)
    /\ Unit \in Nat \ {0}
    /\ DevNum \in Nat /\ DevDen \in Nat \ {0} /\ DevNum <= DevDen

DevShare(n) == (n * DevNum) \div DevDen

\* What a payer with that balance pays of a value at price p, and the value
\* that counts as paid. Without a balance or a value both are zero, so the
\* callers' tests for either are left out.
RepayAmount(payer, value, p) ==
    IF payer > (value * Unit) \div p
    THEN [amount |-> (value * Unit) \div p, value |-> value]
    ELSE [amount |-> payer, value |-> (payer * p) \div Unit]

\* What is left to settle for account a: the vault, the profit and the
\* funding fee to be received, the liquidation (execution) fee to be paid.
\* What a owes is in the vault.
Settlements == [v : Vaults, profit : Nat, funding : Nat, fee : Nat]

-----------------------------------------------------------------------------
\* What the trader receives, one token at a time.

\* Mutant: the profit paid in the chosen token is not deducted from what is due.
ProfitFromHlpAgain(s, a, t, price) ==
    LET r == RepayAmount(s.v.bucket[<<"hlpLiquidity", t>>], s.profit, price[t]) IN
    [s EXCEPT !.v = PayTraderProfit(@, a, t, r.amount)]
ProfitFromHlp(s, a, t, price) ==
    LET r == RepayAmount(s.v.bucket[<<"hlpLiquidity", t>>], s.profit, price[t]) IN
    [s EXCEPT !.v = PayTraderProfit(@, a, t, r.amount), !.profit = @ - r.value]
FundingFromReserve(s, a, t, price) ==
    LET r == RepayAmount(s.v.bucket[<<"fundingFeeReserve", t>>], s.funding, price[t]) IN
    [s EXCEPT !.v = FundingFeeFromReserve(@, a, t, r.amount), !.funding = @ - r.value]
FundingFromHlp(s, a, t, price) ==
    LET r == RepayAmount(s.v.bucket[<<"hlpLiquidity", t>>], s.funding, price[t]) IN
    [s EXCEPT !.v = BorrowFundingFeeFromHlp(@, a, t, r.amount, r.value), !.funding = @ - r.value]

\* Mutant: the pool lends before the reserve is used up.
ReceiveFromReserveHlpFirst(s, a, t, price) == FundingFromHlp(s, a, t, price)
ReceiveFromReserve(s, a, t, price) == FundingFromReserve(s, a, t, price)
ReceiveFromHlp(s, a, t, price) == FundingFromHlp(ProfitFromHlp(s, a, t, price), a, t, price)

-----------------------------------------------------------------------------
\* What the trader pays, one token at a time. What it still owes of each kind
\* is what the vault says at that point: adding a debt and taking its balance
\* is how _decreaseCollateral starts, and every payment is subtracted at once.

Payable(v, a, t, value, price) == RepayAmount(v.traderBalances[<<a, t>>], value, price[t])

PayFeeTo(s, a, t, to, price) ==
    LET r == Payable(s.v, a, t, s.fee, price) IN
    [s EXCEPT !.v = Transfer(@, t, a, to, r.amount), !.fee = @ - r.value]

BorrowingFeeToHlp(v, a, t, price) ==
    LET r == Payable(v, a, t, v.debt[<<"borrowingFee", a>>], price)
        dev == DevShare(r.amount) IN
    AddDebt(PayBorrowingFee(v, a, t, dev, r.amount - dev), "borrowingFee", a, -r.value)
TradingFeeToProtocol(v, a, t, price) ==
    LET r == Payable(v, a, t, v.debt[<<"tradingFee", a>>], price)
        dev == DevShare(r.amount) IN
    AddDebt(PayTradingFee(v, a, t, dev, r.amount - dev), "tradingFee", a, -r.value)
\* Mutant: what the pool lent does not bound what it is repaid.
FundingFeeToHlpUncapped(v, a, t, price) ==
    LET r == Payable(v, a, t, v.debt[<<"fundingFee", a>>], price) IN
    AddDebt(RepayFundingFeeToHlp(v, a, t, r.amount, r.value), "fundingFee", a, -r.value)
\* The pool is repaid what it lent before anything goes to the reserve.
FundingFeeToHlp(v, a, t, price) ==
    LET owed == v.debt[<<"fundingFee", a>>]
        r == Payable(v, a, t, IF owed > v.hlpDebt THEN v.hlpDebt ELSE owed, price) IN
    AddDebt(RepayFundingFeeToHlp(v, a, t, r.amount, r.value), "fundingFee", a, -r.value)
FundingFeeToFeeReserve(v, a, t, price) ==
    LET r == Payable(v, a, t, v.debt[<<"fundingFee", a>>], price) IN
    AddDebt(FundingFeeToReserve(v, a, t, r.amount), "fundingFee", a, -r.value)
LossToHlp(v, a, t, price) ==
    LET r == Payable(v, a, t, v.debt[<<"loss", a>>], price) IN
    AddDebt(PayHlp(v, a, t, r.amount), "loss", a, -r.value)

\* Mutant: a kind of debt is forgotten.
PayDebtsNotLoss(v, a, t, price) ==
    LET v1 == TradingFeeToProtocol(BorrowingFeeToHlp(v, a, t, price), a, t, price)
    IN  FundingFeeToFeeReserve(FundingFeeToHlp(v1, a, t, price), a, t, price)

PayDebts(v, a, t, price) ==
    LET v1 == TradingFeeToProtocol(BorrowingFeeToHlp(v, a, t, price), a, t, price)
        v2 == FundingFeeToFeeReserve(FundingFeeToHlp(v1, a, t, price), a, t, price)
    IN  LossToHlp(v2, a, t, price)

PayAll(s, a, t, to, price) ==
    LET s1 == PayFeeTo(s, a, t, to, price)
    IN  [s1 EXCEPT !.v = PayDebts(@, a, t, price)]

-----------------------------------------------------------------------------
\* The loops over the tokens: s after the first i of them.

FromReserves(s, a, price) ==
    LET f[i \in 0..Len(HlpTokens)] ==
            IF i = 0 THEN s ELSE ReceiveFromReserve(f[i - 1], a, HlpTokens[i], price)
    IN  f[Len(HlpTokens)]
FromHlp(s, a, price) ==
    LET f[i \in 0..Len(HlpTokens)] ==
            IF i = 0 THEN s ELSE ReceiveFromHlp(f[i - 1], a, HlpTokens[i], price)
    IN  f[Len(HlpTokens)]
PaidFrom(s, a, to, price) ==
    LET f[i \in 0..Len(HlpTokens)] ==
            IF i = 0 THEN s ELSE PayAll(f[i - 1], a, HlpTokens[i], to, price)
    IN  f[Len(HlpTokens)]

\* _increaseCollateral: the profit from the take-profit tokens the trader chose
\* (a set of at most one), the funding fee from the collected ones, then what
\* is left of both from the pool.
IncreaseCollateral(v, a, pnl, funding, tp, price) ==
    LET s0 == [v |-> v, profit |-> IF pnl > 0 THEN pnl ELSE 0,
               funding |-> IF funding < 0 THEN -funding ELSE 0, fee |-> 0]
        s1 == IF tp = {} THEN s0 ELSE ProfitFromHlp(s0, a, CHOOSE t \in tp : TRUE, price)
    IN  FromHlp(FromReserves(s1, a, price), a, price).v

\* _decreaseCollateral: the new debts, then the payment of all debts.
Indebted(v, a, pnl, funding, borrowing, trading) ==
    LET v1 == AddDebt(v, "loss", a, IF pnl < 0 THEN -pnl ELSE 0)
        v2 == AddDebt(AddDebt(v1, "tradingFee", a, trading), "borrowingFee", a, borrowing)
    IN  AddDebt(v2, "fundingFee", a, IF funding > 0 THEN funding ELSE 0)
DecreaseCollateral(v, a, pnl, funding, borrowing, trading, fee, to, price) ==
    PaidFrom([v |-> Indebted(v, a, pnl, funding, borrowing, trading),
              profit |-> 0, funding |-> 0, fee |-> fee], a, to, price).v

\* GasService.collectExecutionFeeFromCollateral: the fee is paid out of the
\* tokens the trader has, in the order of its list, and what they do not cover
\* becomes a trading fee debt.
CollectExecutionFee(v, a, fee, treasury, price) ==
    LET list == v.traderTokens[a]
        f[i \in 0..Len(list)] ==
            IF i = 0 THEN [v |-> v, profit |-> 0, funding |-> 0, fee |-> fee]
            ELSE PayFeeTo(f[i - 1], a, list[i], treasury, price)
        s == f[Len(list)]
    IN  AddDebt(s.v, "tradingFee", a, s.fee)
=============================================================================
