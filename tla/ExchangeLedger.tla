--------------------------- MODULE ExchangeLedger ---------------------------
(***************************************************************************)
(* The services that move money, over the books of VaultStorage: collateral*)
(* (CrossMarginService), the pool's liquidity (LiquidityService), the      *)
(* settlement of trades and liquidations (TradeService and                 *)
(* LiquidationService through TradeHelper), execution fees (GasService),   *)
(* the keepers' funding fee operations (BotHandler) and fee withdrawals.   *)
(*                                                                         *)
(* What a trade earns and owes, the oracle's prices, the fee rates and     *)
(* whether an account or the pool is healthy enough come from other parts  *)
(* of the exchange: they are inputs here.                                  *)
(***************************************************************************)
EXTENDS Settlement

CONSTANTS
    Traders,     \* sub-accounts that trade
    Keeper,      \* liquidator and executionFeeTreasury, a sub-account too
    Supply,      \* bound: tokens in circulation, by token
    Amounts,     \* token amounts of the operations
    PriceMaps,   \* oracle prices, as functions from tokens
    Pnls, Fundings, Borrowings, Tradings,  \* what a trade may realise, in USD
    LiquidationFee, ExecutionFee,          \* in USD
    BufferLiquidity,                       \* HLPTokenConfig.bufferLiquidity
    MaxDebt      \* bound: what an account may owe of a kind, and hlpDebt

ASSUME LedgerAssumption ==
    /\ IsFiniteSet(Accounts) /\ IsFiniteSet(Tokens)
    /\ Traders \subseteq Accounts /\ Keeper \in Accounts \ Traders
    /\ Supply \in [Tokens -> Nat]
    /\ Amounts \subseteq Nat \ {0}
    /\ PriceMaps \subseteq [Tokens -> Nat \ {0}]
    /\ Pnls \subseteq Int /\ Fundings \subseteq Int
    /\ Borrowings \subseteq Nat /\ Tradings \subseteq Nat
    /\ LiquidationFee \in Nat /\ ExecutionFee \in Nat
    /\ BufferLiquidity \in Nat /\ MaxDebt \in Nat

VARIABLES
    vault,    \* the state of VaultStorage
    balance   \* IERC20(t).balanceOf(vaultStorage)
vars == <<vault, balance>>

Init ==
    /\ vault = EmptyVault
    /\ balance = [t \in Tokens |-> 0]

\* The vault's balances after n tokens t came in (left).
In(b, t, n) == [b EXCEPT ![t] = @ + n]
Circulating(b) == \A t \in Tokens : b[t] <= Supply[t]
WithinMaxDebt(v) ==
    /\ v.hlpDebt <= MaxDebt
    /\ \A k \in Debts, a \in Accounts : v.debt[<<k, a>>] <= MaxDebt

-----------------------------------------------------------------------------
\* Anyone may send tokens to the vault without telling it.
Donate(t, n) ==
    /\ balance' = In(balance, t, n)
    /\ Circulating(balance')
    /\ UNCHANGED vault

\* CrossMarginService. The caller (CrossMarginHandler) has sent the tokens.
DepositCollateral(a, t, n) ==
    /\ balance' = In(balance, t, n)
    /\ Circulating(balance')
    /\ Pulled(vault, balance', t) = n
    /\ vault' = Sync(IncreaseTrader(vault, a, t, n), balance', t)

WithdrawCollateral(a, t, n) ==
    /\ n <= vault.traderBalances[<<a, t>>]
    /\ balance' = In(balance, t, -n)
    /\ vault' = Sync(DeductTrader(vault, a, t, n), balance', t)

TransferCollateral(a, b, t, n) ==
    /\ n <= vault.traderBalances[<<a, t>>]
    /\ vault' = Transfer(vault, t, a, b, n)
    /\ UNCHANGED balance

\* n tokens t are swapped, outside, for m tokens u.
SwitchCollateral(a, t, u, n, m) ==
    LET b == In(balance, t, -n)
        v == Sync(DeductTrader(vault, a, t, n), b, t) IN
    /\ n <= vault.traderBalances[<<a, t>>]
    /\ balance' = In(b, u, m)
    /\ Circulating(balance')
    /\ Pulled(v, balance', u) = m
    /\ vault' = IncreaseTrader(Sync(v, balance', u), a, u, m)

-----------------------------------------------------------------------------
\* LiquidityService, with the fee the pool's composition calls for.
CollectFee(v, t, fee) ==
    Credit(Credit(v, "devFees", t, DevShare(fee)), "protocolFees", t, fee - DevShare(fee))

AddLiquidity(t, n, fee) ==
    /\ balance' = In(balance, t, n)
    /\ Circulating(balance')
    /\ Pulled(vault, balance', t) >= n
    /\ vault' = Credit(CollectFee(Sync(vault, balance', t), t, fee), "hlpLiquidity", t, n - fee)

RemoveLiquidity(t, n, fee) ==
    /\ n + BufferLiquidity <= vault.bucket[<<"hlpLiquidity", t>>]
    /\ balance' = In(balance, t, fee - n)
    /\ vault' = Sync(CollectFee(Credit(vault, "hlpLiquidity", t, -n), t, fee), balance', t)

-----------------------------------------------------------------------------
\* The settlement of a trade that realises pnl and owes the fees (a negative
\* funding fee is received): settleAllFees of an increase, with no pnl, and
\* the end of _decreasePosition.
Settled(v, a, pnl, funding, borrowing, trading, tp, price, fee) ==
    DecreaseCollateral(IncreaseCollateral(v, a, pnl, funding, tp, price),
                       a, pnl, funding, borrowing, trading, fee, Keeper, price)

Trade(a, pnl, funding, borrowing, trading, tp, price) ==
    /\ vault' = Settled(vault, a, pnl, funding, borrowing, trading, tp, price, 0)
    /\ WithinMaxDebt(vault')
    /\ UNCHANGED balance

\* LiquidationService.liquidate: what the account still owes is written off.
\* Mutant: the global debts are not reduced.
ForgiveAccountOnly(v, k, a) == [v EXCEPT !.debt[<<k, a>>] = 0]
Forgive(v, k, a) == AddDebt(v, k, a, -v.debt[<<k, a>>])
WriteOff(v, a) ==
    Forgive(Forgive(Forgive(Forgive(v, "loss", a), "tradingFee", a), "borrowingFee", a), "fundingFee", a)
Liquidate(a, pnl, funding, borrowing, trading, price) ==
    LET v == Settled(vault, a, pnl, funding, borrowing, trading, {}, price, LiquidationFee) IN
    /\ WithinMaxDebt(v)
    /\ vault' = WriteOff(v, a)
    /\ UNCHANGED balance

PayExecutionFee(a, price) ==
    /\ vault' = CollectExecutionFee(vault, a, ExecutionFee, Keeper, price)
    /\ WithinMaxDebt(vault')
    /\ UNCHANGED balance

-----------------------------------------------------------------------------
\* BotHandler. The injected tokens come from the owner.
Inject(bucket, t, n) ==
    /\ balance' = In(balance, t, n)
    /\ Circulating(balance')
    /\ vault' = Sync(Credit(vault, bucket, t, n), balance', t)

\* convertFundingFeeReserve: the reserve is turned into the stable token u, out
\* of the pool, token by token.
ConvertReserve(u, price) ==
    LET Reserve(t) == vault.bucket[<<"fundingFeeReserve", t>>]
        converted == [t \in Tokens |-> IF t = u THEN 0 ELSE (Reserve(t) * price[t]) \div price[u]]
        got == SumFunction(converted) IN
    /\ got <= vault.bucket[<<"hlpLiquidity", u>>]
    /\ vault' = [vault EXCEPT !.bucket = [bt \in Buckets \X Tokens |->
            CASE bt = <<"fundingFeeReserve", u>> -> @[bt] + got
              [] bt = <<"hlpLiquidity", u>>      -> @[bt] - got
              [] bt[1] = "fundingFeeReserve" /\ bt[2] # u -> 0
              [] bt[1] = "hlpLiquidity" /\ bt[2] # u      -> @[bt] + Reserve(bt[2])
              [] OTHER -> @[bt]]]
    /\ UNCHANGED balance

\* CrossMarginService.withdrawFundingFeeSurplus: what the reserve holds of u
\* beyond the book value of the funding owed to traders goes to the pool.
WithdrawFundingFeeSurplus(u, book, price) ==
    LET reserve == vault.bucket[<<"fundingFeeReserve", u>>]
        value == (reserve * price[u]) \div Unit IN
    /\ value # 0 /\ book <= value
    /\ vault' = ReserveToHlp(vault, u, RepayAmount(reserve, value - book, price[u]).amount)
    /\ UNCHANGED balance

\* withdrawFee and withdrawDevFee.
WithdrawFee(bucket, t, n) ==
    /\ n <= vault.bucket[<<bucket, t>>]
    /\ balance' = In(balance, t, -n)
    /\ vault' = Sync(Credit(vault, bucket, t, -n), balance', t)

-----------------------------------------------------------------------------
\* At most one take-profit token, out of those of the pool.
TpTokens == {tp \in SUBSET {HlpTokens[i] : i \in 1..Len(HlpTokens)} : Cardinality(tp) <= 1}

Collateral ==
    \E a \in Traders, t \in Tokens, n \in Amounts :
        \/ DepositCollateral(a, t, n)
        \/ WithdrawCollateral(a, t, n)
        \/ \E b \in Accounts : TransferCollateral(a, b, t, n)
        \/ \E u \in Tokens, m \in Amounts : SwitchCollateral(a, t, u, n, m)
Liquidity ==
    \E t \in Tokens, n \in Amounts : \E fee \in 0..n :
        \/ AddLiquidity(t, n, fee)
        \/ RemoveLiquidity(t, n, fee)
Trading ==
    \E a \in Traders, price \in PriceMaps :
        \/ \E pnl \in Pnls, funding \in Fundings, borrowing \in Borrowings, trading \in Tradings :
              \/ \E tp \in TpTokens : Trade(a, pnl, funding, borrowing, trading, tp, price)
              \/ Liquidate(a, pnl, funding, borrowing, trading, price)
        \/ PayExecutionFee(a, price)
Keepers ==
    \E t \in Tokens :
        \/ \E price \in PriceMaps :
              \/ ConvertReserve(t, price)
              \/ \E book \in Borrowings : WithdrawFundingFeeSurplus(t, book, price)
        \/ \E n \in Amounts :
              \/ Donate(t, n)
              \/ \E bucket \in {"hlpLiquidity", "fundingFeeReserve"} : Inject(bucket, t, n)
              \/ \E bucket \in {"protocolFees", "devFees"} : WithdrawFee(bucket, t, n)

Next == Collateral \/ Liquidity \/ Trading \/ Keepers
Spec == Init /\ [][Next]_vars

-----------------------------------------------------------------------------
\* Type invariant. Every amount and debt is a uint256 in the code: a payment
\* of more than a bucket, a balance or a debt holds would revert, and the
\* settlement of every later trade of that account with it.
TypeOK ==
    /\ vault \in Vaults
    /\ balance \in [Tokens -> Nat]

\* The vault can pay whatever it owes: the books of the traders, of the pool
\* and of the fees add up to no more than the recorded amount, and that to no
\* more than the tokens there are.
Backed ==
    \A t \in Tokens :
        /\ Claims(vault, t) + vault.onHold[t] <= vault.totalAmount[t]
        /\ vault.totalAmount[t] <= balance[t] + vault.onHold[t]

\* What the vault keeps twice agrees. The global debts, part of what the pool
\* is worth, are the sums of what the accounts owe, whatever was paid, forgiven
\* or written off; and the list of an account's tokens, over which its equity is
\* computed, names each token it has a balance of exactly once, and no other.
CopiesAgree ==
    /\ \A k \in Debts : vault.globalDebt[k] =
          SumFunction([ka \in Debts \X Accounts |-> IF ka[1] = k THEN vault.debt[ka] ELSE 0])
    /\ \A a \in Accounts :
          LET list == vault.traderTokens[a] IN
          /\ {list[i] : i \in 1..Len(list)} = {t \in Tokens : vault.traderBalances[<<a, t>>] > 0}
          /\ \A i, j \in 1..Len(list) : list[i] = list[j] => i = j

\* No operation makes or loses money: what the vault owes changes as its
\* tokens do. Tokens sent without telling the vault are the only exception.
Conserved ==
    [][vault' # vault =>
        \A t \in Tokens :
            (Claims(vault, t) + vault.onHold[t])' - (Claims(vault, t) + vault.onHold[t])
                = (balance[t] + vault.onHold[t])' - (balance[t] + vault.onHold[t])]_vars

Reserves(v) == [t \in Tokens |-> v.bucket[<<"fundingFeeReserve", t>>]]

\* The pool lends for funding fees last, only once the collected ones are used
\* up in every token of the pool, and is repaid first: a trader's funding fees go
\* to the reserve only once the pool has got back all it lent.
LendsLastRepaidFirst ==
    [][/\ vault'.hlpDebt > vault.hlpDebt =>
            \A i \in 1..Len(HlpTokens) : Reserves(vault)'[HlpTokens[i]] = 0
       /\ (/\ \E t \in Tokens : Reserves(vault)'[t] > Reserves(vault)[t]
           /\ \E at \in Accounts \X Tokens : vault'.traderBalances[at] < vault.traderBalances[at])
            => vault'.hlpDebt = 0]_vars

\* An account comes to owe more only when nothing of its collateral in the
\* pool's tokens is left to pay with.
OwesOnlyWhenEmpty ==
    [][\A ka \in Debts \X Accounts : vault'.debt[ka] > vault.debt[ka] =>
        \A i \in 1..Len(HlpTokens) : vault'.traderBalances[<<ka[2], HlpTokens[i]>>] = 0]_vars

\* What account a has less what it owes, in USD at price (times Unit).
Worth(v, a, price) ==
    SumFunction([t \in Tokens |-> v.traderBalances[<<a, t>>] * price[t]])
        - Unit * SumFunction([k \in Debts |-> v.debt[<<k, a>>]])

\* When prices make every conversion exact, the settlement of any trade changes
\* what the trader is worth by exactly what is due to it: nothing is paid twice
\* across the loops, tokens and kinds of debt, or lost. It gets less only when
\* the pool has nothing left to pay with.
PaidWhatIsDue ==
    LET price == [t \in Tokens |-> Unit] IN
    \A a \in Traders, pnl \in Pnls, funding \in Fundings, borrowing \in Borrowings,
       trading \in Tradings, tp \in TpTokens :
        LET paid == IncreaseCollateral(vault, a, pnl, funding, tp, price)
            done == Settled(vault, a, pnl, funding, borrowing, trading, tp, price, 0)
            due == Unit * (pnl - funding - borrowing - trading)
            gain == Worth(done, a, price) - Worth(vault, a, price) IN
        /\ gain <= due
        /\ gain < due => \A i \in 1..Len(HlpTokens) : paid.bucket[<<"hlpLiquidity", HlpTokens[i]>>] = 0
=============================================================================
