# Flex Perpetuals in TLA+

TLA+ models of Flex Perpetuals (a fork of HMX v2): a perpetual exchange whose traders post
collateral in several tokens and trade against one shared pool of liquidity. The contracts under
`src/src` follow a handler / service / storage pattern; the models follow the same split. The
scripts under `src/script/ts`, by which the contracts are deployed, configured and operated, are
modelled too, as they run beside each other over one configuration file.
Configurations for TLC check small instances, and TLAPS proofs establish the central invariants for
every number of accounts, markets and tokens and for every amount.

Contents: [inventory](#inventory) · [modules](#modules) · [runs](#runs-bounds-and-what-they-show) ·
[proofs](#proofs) · [findings](#disagreements-between-code-and-comments) ·
[not modelled](#what-is-not-modelled) · [plan](#plan)

## Inventory

A transaction runs alone: the EVM gives every external call a serial, all-or-nothing execution, so
the interleavings that matter are of whole transactions. Their difficulty is in long sequences of
legal calls over shared books, in orders that are created by one transaction and executed or
cancelled by a later one, in the partial failure of one order of a batch, and in the answers of
external protocols. The scripts are ordinary programs of many steps: they overlap, stop halfway, and
act on what they read before.

| Component | State | Operations | What makes it correct |
|---|---|---|---|
| `PerpStorage` + `TradeService`, `LiquidationService` | positions, market counters (size, Σ size/price, Σ size²/price per side), class and global reserves, borrowing and funding rates and sums, three position indexes, traded volume | increase, decrease, force close, liquidate, rate updates | counters are the sums over the open positions; indexes list exactly the open positions; fees accrued are fees settled plus fees pending |
| `VaultStorage` | per token: total amount, on hold, pool liquidity, protocol, developer and funding fees; per account: balances, token list, four debts; global debts, the pool's loans | push / pull, payments, debts | books never exceed tokens; every operation conserves value; global debts are sums |
| `TradeHelper` | (stateless) | settlement of profit, fees, losses and debts over all the pool's tokens | payments in order, complete unless the payer is empty, never negative |
| `CrossMarginService`, `LiquidityService`, `GasService`, `BotHandler` | (stateless) | collateral, liquidity, execution fees, injections, conversion of the reserve | same books |
| `RebalanceHLPv2Service` | pending deposits and withdrawals at GMX | create orders, four callbacks | on hold = pending; a cancelled order gives back what it took |
| `LiquidityHandler02`, `CrossMarginHandler02`, `LimitTradeHandler`, `Ext01Handler`, older FIFO handlers | orders, escrowed tokens and execution fees, active/executed pointers | create, update, execute in batches, cancel | an order is settled once, for what it put in; the escrow covers the pending orders |
| `IntentHandler` | executed intents, by their packed words | execute signed orders | the same words trade at most once, and only as signed |
| `TradingStaking`, `FeedableRewarder`, `TradingStakingHook` | stakes, the stream of rewards, debts | stake and unstake by trade, feed, harvest | an account gets its part of the stream over time, the rewarder can pay it |
| `TLCStaking`, `EpochFeedableRewarder`, trade credits | shares and rewards by epoch | mint, stake, feed, harvest | an epoch pays out what it was fed, once |
| `Timelock` | admin, delay, queued calls | queue, cancel, execute, set delay and admin | no call is made before its delay, or twice |
| Scripts (`script/ts`: deploys, upgrades, configs, commands) | the configuration file, the snapshot each run has of it | deploy and record, send, propose, queue, upgrade, feed prices | records are not lost, contracts get the contracts they expect |
| Script library (`OwnerWrapper`, `ProxyAdminWrapper`, `SafeWrapper`, `TimelockWrapper`, `utils/config`, `utils/price`) | nonces and proposals of the Safes | decide who sends a call, read a nonce, propose, queue; read and write the file; fetch prices | proposals do not replace each other |
| Oracles, `Calculator`, `AdaptiveFeeCalculator` | prices | views | arithmetic, inputs here |
| `ConfigStorage` | parameters | owner setters | constants here |

Interactions: handlers call services; `TradeService` and `LiquidationService` call `TradeHelper`,
which updates the rates in `PerpStorage` and moves money in `VaultStorage`; `GasService`,
`CrossMarginService`, `LiquidityService`, `BotHandler` and the rebalance services share the same
`VaultStorage`; GMX calls the rebalance service back; hooks call the staking contracts. Owners call the contracts
through scripts: as the deployer, as a proposal to a Safe, or, for upgrades, through the `Timelock`.

The hazards, each with its line in the source and the properties that would catch it, are listed in
`PROJECT.json`.

## Modules

| Module | Models | Kind |
|---|---|---|
| `PerpBook` | positions, counters, rates: `PerpStorage`, `TradeService`, `LiquidationService`, rates and fee states of `TradeHelper` | state machine |
| `VaultStorage` | the vault's books as a record, one operator per function | operators |
| `Settlement` | the waterfalls of `TradeHelper`, the execution fee of `GasService` | operators over `VaultStorage` |
| `ExchangeLedger` | every operation that moves money, over the vault and the token balances | state machine, composes the two above |
| `RebalanceHLP` | `RebalanceHLPv2Service` and GMX, interleaved with `ExchangeLedger` | composition |
| `OrderEscrow` | what any order handler promises: an order is settled at most once, for no more than it put in | abstract specification |
| `LiquidityOrder` | the orders of the liquidity and collateral handlers, and what each puts into escrow | operators |
| `LiquidityQueue` | `LiquidityHandler`, `CrossMarginHandler`: a FIFO queue executed in chunks | state machine, implements `OrderEscrow` |
| `LiquidityOrders` | `LiquidityHandler02`, `CrossMarginHandler02`, `Ext01Handler`: orders by account, executed in any order | state machine, implements `OrderEscrow` |
| `TradeOrder` | positions and time, how an order is netted against the position it meets, and the size limits | operators |
| `LimitOrders` | `LimitTradeHandler`, `LimitTradeHelper` | state machine over `TradeOrder`, implements `OrderEscrow` |
| `Intents` | `IntentHandler`, `TradeOrderHelper` | state machine over `TradeOrder` |
| `TradingStaking` | `TradingStaking`, `TradingStakingHook`, one `FeedableRewarder` | state machine |
| `TLCStaking` | `TLCStaking`, one `EpochFeedableRewarder`, the hooks of trade credits | state machine |
| `Timelock` | `Timelock` | state machine |
| `Scripts` | the vocabulary of steps in which scripts are written down | operators |
| `DeployScripts`, `UpgradeScripts`, `ConfigScripts`, `CommandScripts` | each script as the sequence of its steps | definitions |
| `Contracts` | what constructors and setters of the contracts expect | definitions |
| `Operations` | runs of scripts over the file, the chain, the Safes and the `Timelock` | composition |
| `Sums` | lemmas about `SumFunction`, about lists without duplicates and about loops | proofs |
| `PerpBook_proofs`, `LiquidityQueue_proofs`, `LiquidityOrders_proofs` | theorems about the module of that name | proofs |
| `Operations_proofs` | theorems about `Operations` and about `Timelock`, which it extends | proofs |
| `ExchangeLedger_proofs` | theorems about `ExchangeLedger` and about `RebalanceHLP`, which extends it | proofs |
| `Staking_proofs` | theorems about `TradingStaking` and `TLCStaking` | proofs |
| `TradeOrders_proofs` | theorems about `LimitOrders` and about `Intents` | proofs |
| `MC*` | instances for TLC | |

### PerpBook

State, in the fields of the code's structs: of a position `size` (signed, 0 when there is none),
`avgPrice`, `reserve`, `entryRate`, `lastAccrued`; the three indexes `positionIds`,
`activePositionIds`, `activeSubAccounts`; of a market its sizes, the sums of size/price and
size²/price by side, the funding rate with its accrual and clock, and the traded volume; of an asset
class its reserve, the sum of borrowing rates with its clock, and the fees accrued and settled; the
global reserve. Actions: `Tick`; `IncreasePosition`; `DecreasePosition` (partly or wholly, which
also stands for forced closes, deleverage and take-max-profit: they share `_decreasePosition`);
`Liquidate` of all the positions of an account. Each updates the borrowing rate of the class and the
funding rate of the market first, settles the fees of the position, then updates the counters, in
the order of the code.

Prices, realised profit and health are inputs: an action may happen at any price of a given set. The
id of a position is assumed unique (it is a hash in the code).

### VaultStorage, Settlement, ExchangeLedger

`vault` is the contract's state, `balance` what the token contracts say it holds. Each action of
`ExchangeLedger` is one external call into a service, with the arrival of its tokens: e.g.
`DepositCollateral` includes the transfer its handler makes first, and the exact-amount check of
`pullToken`. A settlement converts between USD values and token amounts as the code does, rounding
down (`RepayAmount`), over the tokens in the order of `hlpAssetIds`. Debts are four per account,
with global sums; `hlpDebt` is what the pool has lent to pay funding fees.

Inputs: what a trade earns and owes, the prices, the fee of a liquidity operation, whether an
account or the pool is healthy. The keeper stands for the liquidator and for the treasury that is
paid execution fees. `Donate` is a transfer of tokens to the vault by anyone.

Left out: tests such as `payerBalance > 0 && owed > 0` before a payment, which change nothing
because the payment is zero otherwise; `cook`; the counter of subsidised execution fees.

### RebalanceHLP

Adds the service's own tokens, its pending orders and the fate of each order at GMX, to the state
of `ExchangeLedger`, all of whose operations interleave. GMX is external: it answers an order at
most once, with the tokens first, and its callback may fail as a whole; in this case the tokens
stay with the service and the order stays pending for ever, since the service has no operation to
recover it.

### Orders: OrderEscrow, LiquidityOrder, LiquidityQueue, LiquidityOrders

`OrderEscrow` is the contract between an order handler and its users: orders put tokens in, are
settled at most once, and settling some of them takes no more than these put in. It says nothing of
queues, batches or pointers. The handlers implement it by a refinement mapping: the `fate` of an
order is read off the index and the presence of the order, `put` off its amount and fee.

`LiquidityQueue` has one action per entry point. The array and `nextExecutionOrderIndex` are the
code's; deleted orders are out of the domain of `liquidityOrders`. `ExecuteOrder` is the whole loop
over a chunk, with the set of orders that the service refuses as its input: both outcomes
take the order's deposit out of the handler, into the vault or back to the user.

Both modules stand for several contracts of one design, told apart by `serves`, the kinds of orders
that a contract takes, which never changes. `CrossMarginHandler` is the queue of orders to withdraw
collateral: they put in the execution fee alone, which goes to the executor whether
`CrossMarginService` refuses them or not, and its chunks are larger by one order than those of
`LiquidityHandler` with the same limit (`CrossMarginHandler.sol:327`). `CrossMarginHandler02` is the
order book of withdrawals, `Ext01Handler` that of switches and transfers of collateral, and of
orders of any other type: these execute without effect and cannot be cancelled by their owners.

`LiquidityOrders` has the code's pointers, those of active and of executed orders. An executed order
stays stored, with its status changed, and nothing looks at the status: `CancelLiquidityOrder` takes
any stored order, and so does `ExecuteOrders`, a fold of `ExecuteOne` over the batch in its order, since
one turn changes what the next finds. An executed order that is named again is paid for again, and its
pointer stays in `executedOrderPointers` after a cancellation. In `Ext01Handler` an order is filed
under one sub-account (`account`) and its data names one that may be another of the same user
(`from`); when it fails, its fee is paid and the order that has its index at the other sub-account is
deleted (`FailsFor`), or the batch reverts if there is none. The history variable `overpaid` counts
what is paid in these two ways, so that the refinement can say that there is no third:
`ImplementsEscrow` maps what the abstract handler holds to `held` plus `overpaid`, and
`ShortByOverpaid` bounds what pending orders may lack by it. That the code does overpay is a finding
(below).

### Trades: TradeOrder, LimitOrders, Intents

`TradeOrder` gives, for a position and an order, the calls to `TradeService` that both
`LimitTradeHandler` and `TradeOrderHelper` make: nothing, one increase or decrease, or the two calls
of a flip; and what each call leaves of the position, or that it reverts. It also has what the two
handlers share: the positions and the time.

`LimitOrders` has the orders, their three lists of pointers, the execution fees held, and a position
per account that other parts of the exchange move (`OtherTrade`). `ExecuteOrders` is a whole batch at
the price that the batch brings: each order is executed, refused, or cancelled as stale, on the
state its predecessors left, with the set of orders `TradeService` accepts as an input. A failed
execution undoes its own removal of the order (the `try this.executeLimitOrder`); a batch with
`isRevert` or with a missing order leaves no successor state.

`Intents` stores what the handler stores: executed intents and delegates. What an executor brings is
packed words (`Words`): the order they decode to and what decoding passes over (`spare`: bits 246 to
255 of the command, 168 to 255 of the account). Signatures are over the first, the keys of
`executedIntents` over both, so that one signed order has as many keys as there are values of `spare`,
and may trade once in each; `FilledOnce` is about words for this reason, `FilledAsSigned` about orders
in any words. Which signatures exist is the environment's state. Every turn of the loop of `execute` is modelled, in its order: replay,
signature, charge, validation, execution, and which failures are final. `charged` and `filled` are
history variables.

### TradingStaking

The record `rewarder` has the fields of `FeedableRewarder` and its token balance; the stakes are
those of `TradingStaking`. The actions are the trades as the hook sees them (`OnIncreasePosition`,
`OnDecreasePosition`), `Harvest`, `FeedRewarder`, the owner's `AddRewarder` and `RemoveRewarder`, and
`Tick`. The code brings `accRewardPerShare` up to date lazily, by the elapsed time, when it is
called; the history variables `earned` and `idle` are computed the other way, by adding at every
tick what is streamed during it. `EarnedExactly` compares the two. What is streamed while nobody has
a stake goes to the next to have one, as in the code, unless a feed comes first: then it is credited
to no one and stays in the rewarder.

Debts are rounded down one by one, so that an account may get up to one unit too much for each
deposit and one too little for each withdrawal; the bounds of both properties count these calls. A
debt may therefore exceed the rewards: `CanHarvest` is false until they have grown, as the code's
`toUint256` reverts. When the owner gives the rewarder a market that already has stakes, or takes one
away, rewards of the past change hands; `undisturbed` tells the behaviours without this.

### TLCStaking

An epoch goes by the time it starts at. `MintTLC` is the hook's mint and the stake it makes in the
current epoch; `FeedEpoch` and `HarvestEpochs` are calls at any time with any time as argument, which
the code rounds down to an epoch. The reward per share is kept as in the code and recomputed in the
same places. The credits themselves are minted, moved and staked in one call, so their balances are
left out. `WithdrawCredits` succeeds only while no rewarder is listed: `onWithdraw` refuses unless
`getCurrentEpochTimestamp() + epochLength <= epochTimestamp`
(`src/src/staking/EpochFeedableRewarder.sol:85`), which no current epoch satisfies, although the
comment above it speaks only of epochs that have ended.

### Timelock

One flag for each pair of call and eta is a set of pairs, with the time each was queued at as
history. Calls of the Timelock to itself (`setDelay`, `setPendingAdmin`) take effect as they are
executed; calls to other contracts are taken to succeed.

### Scripts and Operations

A script is written down as the sequence of the points at which it waits: a deployment, a
transaction, a request, a write of the file. 202 scripts are in the four catalogues: all that deploy,
upgrade, configure, or operate the exchange. A parameter that is a contract appears by the key of the
configuration file it is read from; numbers and literals do not appear, and loops are two rounds.
Where a script passes the wrong parameters to `SafeWrapper` or none for a required address, the step
is written as it is (`"misproposed"`, an empty key) and cannot be taken.

`Operations` takes a plan, the scripts run and the order they start in. A run reads the whole file
when it starts (`getConfig` gives the one object that was loaded), changes its copy, and writes the
whole copy back (`writeConfigFile`); it may stop between any two steps, which stands for a failed
call, an answer of "n" and a crash. An address is a kind of contract and a number. `setup` says who
owns the contracts and the `ProxyAdmin`, who is the admin of the `Timelock`, and which keys the file
lacks. `Sender` is what the wrappers decide; `Perform` is the transaction on chain, refused as the
contracts would (not the owner, already done, already spent). A proposal to a Safe is two steps, the
nonce being read in the first; any proposal at the Safe's nonce may be executed, and if the call it
makes is refused, so is the execution, and the nonce stays. `Contracts` is read off the constructors,
initializers and setters under `src/src`, independently of the scripts, and is what `KindsFit`
compares their calls with.

Some behaviours of the scripts are in the model although no property can hold of them: withdrawals of
developer fees proposed twice, of which the second holds up the Safe; a Safe that takes longer than
15 minutes to queue an upgrade, which then is refused (`ProxyAdminWrapper` leaves 900 seconds more
than the minimum delay, whatever the delay is); upgrades of one proxy executed in another order than
they were queued in.

Fetching prices is a step that a run waits at, without the values it gets: prices are inputs of all
modules, and `EcoPyth2` takes whatever is published to it, older prices too.

## Runs, bounds and what they show

| Run | Configuration | Shows |
|---|---|---|
| `book_exact` | 1 market, 2 accounts, exact rates | `TypeOK`, `MarketSizesMatch`, `AccumMatch`, `BorrowingFeesBalance`, `FundingMatch` |
| `book_markets` | 3 markets, 2 classes, rounding rates | `ReserveMatch`, `IdsMatch`, `BorrowingNotOverSettled` |
| `ledger` | 1 trader, keeper, 2 tokens, rounding prices | `TypeOK`, `Backed`, `CopiesAgree`, `PaidWhatIsDue`, `Conserved`, `LendsLastRepaidFirst`, `OwesOnlyWhenEmpty` |
| `rebalance` | 2 orders, 3 tokens, all ledger operations without trading | `OnHoldMatch`, `LongReturns` |
| `rebalance_short` | the same | `CancellationReturns` is violated |
| `liquidity_queue` | 4 orders of one user, of liquidity in chunks of 2 or withdrawals in chunks of 3, 3 tokens | `TypeOK`, `NothingSkipped`, `ImplementsEscrow`, `EventuallySettled` |
| `liquidity_orders` | each of the three order books, 3 orders of a user with 2 sub-accounts and an executor, batches of 2 of any stored orders | `PointersMatch`, `ImplementsEscrow`, `ShortByOverpaid` |
| `liquidity_orders_any` | a liquidity handler, the user alone | `Covered` is violated |
| `limit_orders` | 2 orders of one account, 5 sizes, 2 prices, batches of 2, fair executors | `PointersMatch`, `SizeLimited`, `FeesHeld`, `FilledExactly`, `ImplementsEscrow`, `MarketOrdersLeave` |
| `staking` | 2 accounts, 2 markets, 2 feeds of 2 or 3 ticks; or 3 epochs of credits | `EarnedExactly`, `Funded`, `EpochsSettled` |
| `intents` | a market, a limit and a reduce-only order, each in 2 forms of words, 2 wallets, 2 signatures, batches of 2 | `FilledOnce`, `FilledAsSigned` |
| `operations` | every script alone, 57 pairs and 3 triples of scripts, 6 setups of owners; the Timelock by hand | `RecordsKept`, `NothingDropped`, `KindsFit`, `DelayHonoured`, `ExecutedOnce` |

Bounds, all named constants. *Book*: the number of changes to positions and of time steps. Two
accounts are enough for a counter to hold two contributions and lose one; three markets in two
classes tell a market's counter from its class's and from the global one, and give lists in which a
removal from the middle, the end and of the only element differ. *Ledger*: `Supply`, the tokens in
circulation, and `MaxDebt`. A trader with two tokens of different prices, gains and losses of two
units and payers of zero, one or two units reach every branch of each payment: nothing to pay with,
part of it, exactly it, more than it; with prices 2 and 3 per unit 2, an amount is rounded down in
one token and not in the other. `PaidWhatIsDue` is about settlements at prices without rounding, of
any trade that might come next, in the states of the books that the rounding prices lead to.
*Rebalance*: two orders suffice for one's answer to disturb the other's.

*Queue*: four orders with chunks of two give a batch cut by the chunk, one cut by the array, and
cancelled orders at the front, in the middle and at the end of a chunk. *Order books*: two orders
suffice for one to be paid with the other's tokens, two sub-accounts for one to be deleted in the
other's place, and a third order for what is left to lack something; batches of two name an order
twice, or one after the order that was deleted for it. *Limit orders*: positions of up to
two in either direction and orders of up to the limit reach every branch of the netting (open,
increase, partly and fully close, flip), the extreme sizes that mean "all of it", and two orders of
one batch meeting the same position; one second tells a fresh market order from a stale one.
*Intents*: batches of two can repeat the words of an intent, bring it in other words, or name two of
one account; two charges tell once from more than once, and two forms of words are enough for one not
to be recognised (they are symmetric: nothing looks at what is passed over).
*Staking*: two feeds in three ticks overlap, touch or leave a gap; three deposits and a withdrawal of
two accounts put a stake before, during and after each; sizes of one to five half units reach the
hook's rounding and its partial withdrawals. `Precision` is a multiple of every sum of stakes, so that
`earned` is exact and only debts and payments are rounded. The two staking systems share nothing but
the trades they are told of, so a behaviour of the run is about one or the other. For credits, two
accounts with up to three credits in an epoch, fed 5 at a precision of 4, reach every rounding; of the
three epochs two can end and be fed, in either order, the second while the third has begun.
*Operations*: the pairs and triples are of scripts that share something, the file and a key, the
queue of a Safe, the oracle they feed, a proxy, in both orders; a script alone meets every setup. What two
scripts that share nothing do is what each does alone. The setups are the combinations of owners the
wrappers distinguish, with an admin of the Timelock that `TimelockWrapper` does not know (it then
sends nothing and the script goes on), and, for missing keys, those of the files of Arbitrum and of
Base Sepolia. A minimum delay of 2, one more of slack and a grace period of 1 in 5 ticks let a call be queued, the
delay be changed, and the call be made, come too late or be queued again.

Fairness. The exchange's operations are transactions that somebody chooses to send, and most
specifications state none. Two liveness properties are about the protocol's own bots, the only
callers that `onlyOrderExecutor` lets in, whose job is to send executions: `LiquidityQueue!FairSpec`
has weak fairness of executing some chunk, `LimitOrders!FairSpec` weak fairness of a batch with each
pending market order. Both properties are conditional on that: they say that no order, however it
fails, makes the bots' work impossible or endless. Nothing is assumed of users, who may cancel or
create meanwhile, or of `TradeService` and `LiquidityService`, which may refuse everything.

Deadlock is not checked, because all bounded quantities can be exhausted.

## Proofs

`tlapm` proves, for every value of the constants allowed by the named assumptions:

| Theorem (`PerpBook_proofs`) | Statement |
|---|---|
| `PerpBookTypes` | `Spec => []TypeOK`: no counter ever underflows |
| `OpenInterest` | `Spec => []MarketSizesMatch` |
| `ProfitAccumulators` | `Spec => []AccumMatch` |
| `Exposure` | `Spec => []ReserveMatch` |
| `VolumeIsSkew` | `Spec => []NetVolume` |
| `NeverOverSettled` | `Spec => []BorrowingNotOverSettled`, for every rate precision |
| `FeesBalance` | `Spec => []BorrowingFeesBalance` |
| `FundingBalance` | `Spec => []FundingMatch` |
| `Indexes` | `Spec => []IdsMatch` |

The argument: types are not inductive alone, since a counter stays a natural number only because it
is at least the contribution of the position that leaves it. The inductive invariant `IndInv` is
therefore the conjunction of `TypeOK`, the three equalities between counters and sums,
`NetVolume`, and `PositionsOK` (what an empty position looks like, and which side a position's sums
are on). Each action changes one position or, in a liquidation, one row of them; the lemmas of
`Sums` say how a sum over all positions then changes (`SumFunctionUpdate`, `SumFunctionLinear`,
`SumFunctionClearRow`).

The other three invariants are preserved given `IndInv`. `BorrowingNotOverSettled` bounds what
rounding may give away by the time that has passed, which is not inductive: two updates of a class may
fall on the same `now`. `BorrowingInv` bounds it by `lastBorrowTime` instead, which every update that
rounds moves forward and which never passes `now`; without rounding it is an equality, and that is
`BorrowingFeesBalance`. `FundingInv` says that the accumulated funding of a side is the sum of what its
positions owe at the funding accrued when each was last touched; an update of the rate adds the same
amount for every position, a trade replaces one term. Both follow the code's order, rates first and
fees second: with the order swapped the terms do not cancel. For `IdsMatch` a list is treated as the
set of its elements, without duplicates: appending a new id and replacing a removed one by the last
keep that, wherever the removed one is (`Popped`).

| Theorem (`Sums`) | Statement |
|---|---|
| `SumFunctionUpdate`, `SumFunctionChange` | changing one value changes the sum by the difference |
| `SumFunctionLinear` | the sum of a linear combination |
| `SumFunctionClearRow` | clearing the row of an account takes that row's sum out |
| `SumFunctionExtend` | adding an element to the domain adds its value |
| `SumFunctionSwap` | the sums of the rows and of the columns have the same sum |

The lemmas of `Sums` about loops (`LoopIn`, `TurnInduction`) say that what each turn of a fold over a
sequence keeps, the whole fold keeps; those about lists, that swap-and-pop removes one element and keeps
the others.

| Theorem (`ExchangeLedger_proofs`) | Statement |
|---|---|
| `TypeCorrect` | `Spec => []TypeOK`: no entry of the books goes below zero, so no payment of a settlement can revert |
| `VaultBacked` | `Spec => []Backed` |
| `VaultCopies` | `Spec => []CopiesAgree` |
| `MoneyConserved` | `Spec => Conserved`, an action property |
| `PoolLendsLast` | `Spec => LendsLastRepaidFirst`, an action property |
| `DebtIsLast` | `Spec => OwesOnlyWhenEmpty`, an action property |
| `SettlesExactly` | `Spec => []PaidWhatIsDue` |
| `HoldsMatch` | `RebalanceSpec => []OnHoldMatch` |
| `LongDepositsReturn` | `RebalanceSpec => []LongReturns` |
| `RebalancingKeepsBooks` | `RebalanceSpec => [](TypeOK /\ Backed /\ CopiesAgree)` |

They hold for any accounts and tokens, any list of the pool's tokens, any prices and amounts. The
inductive invariant is the conjunction `TypeOK /\ Backed /\ CopiesAgree`; none of the three is
inductive alone, since a balance stays a natural number because the payment taken from it is bounded by
it, and the vault can send tokens because they back the entry that is reduced. The proof follows the
code's layers. Each function of `VaultStorage` is a relation between the books before and after: they
owe n more of one token (`Shift`), or the same (`Moves`). A payment of the waterfall composes a few of
them (`Paying`: the account pays; `Receiving`: it is paid), and says by how much the account's worth
and what remains due change. These relations are transitive, so a waterfall over all the tokens of the
pool is in the same relation, by the lemmas about loops; and so is a settlement. What the relations
keep is enough for all seven theorems: `StepOutcome` says of any step that it conserves money, and
that only a settlement changes debts or what the pool has lent, for one account; the action properties
are read off what a settlement is (`Settling`). `SettlesExactly` adds to each relation the exact value
moved, at prices without rounding.

For rebalancing the invariant is that the books are sound, that an order GMX has not answered is
pending and an unused key is not, and that what is on hold is the sum of what the pending orders took;
that the hold of an order can be cleared at all follows from the last part. `LongDepositsReturn` needs
the soundness of the books: what the vault finds when tokens come back (`pullToken`) is at least what
was sent because the recorded amount never exceeds what the vault has. It may be more, since it
includes tokens sent to the vault unannounced; therefore `Conserved` is a theorem of the ledger and not
of `RebalanceSpec`.

| Theorem (`TradeOrders_proofs`) | Statement |
|---|---|
| `PointersAreRight` | `Spec => []PointersMatch` |
| `FeesAreHeld` | `Spec => []FeesHeld` |
| `SizesAreLimited`, assuming `HasLimit` | `Spec => []SizeLimited` |
| `OrdersFillExactly` | `Spec => FilledExactly`, an action property |
| `LimitOrdersImplementEscrow` | `Spec => ImplementsEscrow`, the refinement |
| `IntentsFillOnce` | `IntentsSpec => []FilledOnce` |
| `IntentsFillAsSigned` | `IntentsSpec => FilledAsSigned`, an action property |

A batch has any length and may name an order more than once, and each order ends in one of several
ways. A batch is therefore a loop over sets of states: the relation `Since` between a state of the
batch and its first one (the books are sound, no order was added, the fees paid are those of the orders
that are gone, and each position moved as these orders say) holds after each turn, hence at the end.
The refinement maps a batch to `Settle` of the set of orders that are gone, and needs no more than
the fees held before and after. `SizesAreLimited` shows that it does no harm that the code compares the
size of an order with the limit before it replaces the extreme sizes by the size of the position.
`HasLimit` says that the market has a limit, and that the limit is no larger than the extreme size:
in the code a limit of 0 means that there is none, and `type(int256).max` is the extreme size.

`FilledOnce` is not inductive: it does not say why an order that has not traded cannot have been
charged for as a market order, or traded unrecorded. `IntentInv` adds `OpenIsFresh`: an intent that is
not in `executedIntents` has not traded, and a market order that is not in it was not charged for. A
batch is again a loop over sets of states, each of which is reachable (`Reachable`): its records are
sound, and whatever has traded since the batch began was in its time and validly signed. Charges and
trades are counted by words, an intent in other words being another one to the handler. Both facts
hold for signatures and delegates that come and go between batches; within a batch neither changes.

| Theorem (`Operations_proofs`) | Statement |
|---|---|
| `TimelockInvariant` | `TimelockSpec => [](TimelockTypeOK /\ TimelockInv)` |
| `DelayIsHonoured` | `TimelockSpec => []DelayHonoured`, whatever the delay is changed to |
| `PairsAreExecutedOnce` | `TimelockSpec => []ExecutedOnce` |
| `OpsInvariant` | `Spec => [](OpsTyped /\ TimelockInv /\ FileInv)` of `Operations` |
| `OperationsHonourDelay` | `Spec => [](DelayHonoured /\ ExecutedOnce)` |
| `RecordsAreKept` | `Spec => []RecordsKept` |
| `NothingIsDropped` | `Spec => []NothingDropped` |
| `KindsDoFit` | `Spec => []KindsFit` |

`ExecutedOnce` is not inductive: that an executed pair cannot be queued again follows from its eta
having passed while any new eta lies ahead, since the delay is at least the minimum delay and that is
positive. `TimelockInv` adds these facts about the queue and the executed pairs.

The theorems about `Operations` hold for any scripts in any number, any owners, nonces and delays,
where `PlanAssumption` holds: each script by itself is in order. That is a fact about the text of a
script (a new address is recorded after a deployment of its kind, an upgrade comes after its
implementation, and whatever contract the scripts of the plan may ever put under a
key fits where the key is used), and TLC evaluates it for every script of the catalogues when it
checks the run. What the theorems add is all that happens between the steps: runs overlapping,
stopping anywhere, going by old copies of the file, and Safes and the Timelock executing later. A
script that passes the wrong contract fails the assumption; it is not what `KindsFit` could find.

- `RecordsKept` is about the file; `FileInv` is about the copies too. A run's copy has what the run
  wrote itself (`HasItsOwn`), and what any run wrote that it does not overlap with, unless someone
  has taken that back or replaced it (`HasReadTheOthers`). When a run writes, what others recorded is
  in its copy, or they overlap with it. That overlaps are known to both sides, and that the runs begin
  in their order, is `KnowEachOther` and `InOrderOfStart`.
- `NothingDropped` is about proposals; `NonceInv` is about the runs that have read a nonce and not
  used it. Such a nonce is after all the service knows of, but for what overlapping runs have proposed
  since, and has not passed, unless there is such a run (`Fresh`). The Safe it was read for is the one
  it is proposed to, since ownership goes to the Safe and never back, and the Timelock keeps its admin
  while scripts run (`SenderStays`).
- `KindInv`: the file and all copies have under a key contracts of the kinds the plan may put there,
  what a run made last is what its script says, and all that waits in the Safes and in the Timelock
  fits already.

| Theorem (`LiquidityQueue_proofs`) | Statement |
|---|---|
| `QueueTypes` | `Spec => []TypeOK` |
| `NoOrderLeftBehind` | `Spec => []NothingSkipped` |
| `QueueImplementsEscrow` | `Spec => Handler!Spec`, the refinement |
| `EscrowCovered` | `Handler!Spec => []Handler!Covered`: the abstract handler can give all its pending orders back what they put in |
| `QueueCovered` | `Spec => []Covered` |

For the queue, the first two theorems share one invariant: the index never passes the length, and
the orders left lie between them. The refinement then maps every creation to `Create` of the next
identifier, and executions and cancellations to `Settle` of the set of orders they delete; what a
step takes is the sum over that set, in both modules. `QueueCovered` needs no argument of its own:
`EscrowCovered` is about the steps of the abstract handler only, and carried over by the refinement;
what it needs to know of sums is in `Sums` (`PutInCreate`, `PutInSettle`), for both handlers.

| Theorem (`LiquidityOrders_proofs`) | Statement |
|---|---|
| `PointersRight` | `Spec => []PointersMatch` |
| `BookImplementsEscrow` | `Spec => Handler!Spec`, the refinement |
| `BookCovered` | `Spec => []ShortByOverpaid` |

They hold for any users and sub-accounts, any of the designs, and batches of any length that name
whichever stored orders. The invariant is `PointersMatch` with the types and that the index of an
account is past all its orders, so that a new order meets no other. Under it an order is pending in the
abstract handler exactly while the active pointers name it. A batch is a loop over sets of states:
`Turned` says what one order of it does to the books, `Since` what the batch has done so far (no order
came back, those left are as they were, and `held` plus `overpaid` has gone down by no more than the
orders that are no longer pending put in), and each turn keeps it. A turn that pays for an executed
order, or deletes another order than the one that failed, adds all it pays to `overpaid`. `BookCovered`
is again `EscrowCovered`, carried over by the refinement. `Covered` itself is not a theorem:
`liquidity_orders_any` violates it.

| Theorem (`Staking_proofs`) | Statement |
|---|---|
| `RewardsAreFunded` | `Spec => []Funded` of `TradingStaking` |
| `RewardsAreEarned` | `Spec => []EarnedExactly` of `TradingStaking` |
| `EpochsAreSettled` | `CreditsSpec => []EpochsSettled` of `TLCStaking` |

They hold for any accounts, markets, amounts, epochs and precisions. For the stream, neither property
is inductive, since both are about the rewarder as its next update would leave it. `StakingInv` is
about the last update instead. Its first part, `Solvent`, says that what the shares were promised then
and all that was ahead of the stream are covered; an update moves a part of the second to the first
and rounds down, and a feed replaces what is ahead by at most what is left of it and the new amount.
Its second part, `Accounted`, says what an account has, and its part of what was streamed since. That
part is a fraction, and a division in the invariant would lose in every tick what the code loses only
in an update; it is therefore about the total of the shares times what the account has, and dividing
once, in the update, gives the code's rounding (`BetweenUpdated`, `BetweenTick`). With no shares the
stream is credited to no one, which `IdleStreamed` accounts for: the first to have shares again gets
all of it (`BetweenFirst`). That shares of accounts and of markets have the same sum is
`SumFunctionSwap`. Unlike in the run, `Precision` need not be a multiple of the shares: `Rounded` is
then 1, and `EarnedExactly` allows one more unit in a tick.

For credits, `CreditInv` adds to the types that the stakes of an epoch sum to its total, that an
epoch is not fed before it has ended, that who has claimed was paid exactly its reward, and that the
rewarder holds the rewards of the others; the last is kept by a feed because the parts of all stakes,
each rounded down, sum to at most what is fed (`PartsAtMost`), and stakes do not change once an epoch
has ended.

`SumFunction` is defined by a fold, hence recursively; `Sums` first derives that the fold has the
expected partial sums from the existence of a function over the numbers 0..n, with induction on
numbers.

Every safety and action property of a passing run is a theorem. Only model-checked: the two liveness
properties, `EventuallySettled` and `MarketOrdersLeave`, which are beyond the prover. `VolumeIsSkew`
and `RebalancingKeepsBooks` are only proved, not checked by a run.

## Disagreements between code and comments

`rebalance_short`: when GMX cancels a deposit with short tokens, `afterDepositCancellation`
(`src/src/services/RebalanceHLPv2Service.sol:277`) transfers long tokens in the place of short
ones, so the pool does not get back what its comment (lines 260-261) says is returned: the callback
reverts for lack of long tokens, or leaves the short tokens with the service.

`liquidity_orders_any`: `LiquidityHandler02` keeps an executed order with its amount
(`src/src/handlers/LiquidityHandler02.sol:511`) and looks at its status nowhere, while the comment
at line 583 says of an order to be refunded "if found order with amount 0. means order has been
executed or canceled". An executed order that an executor names again is executed again, and one that
its owner cancels is refunded, with the tokens of other orders. `CrossMarginHandler02` and
`Ext01Handler` have the same design. The run is of a liquidity handler; its trace cancels or executes
an order of a user that was executed before.

## What is not modelled

Prices and their staleness, the equity and margin formulas, the adaptive fee (powers and roots),
owner setters, signatures, access control lists, views; the external exchanges behind the dexters
and strategies. Of the TypeScript: the bindings under `src/wagmi`, generated from the ABIs (11,700
lines of declarations); tables of constants and addresses; scripts that only read or print, that are
empty, or whose effect is to put back what they find; the fork mode of `TimelockWrapper`, the 1inch
quotes and the subgraph. `PROJECT.json` lists each component with the reason.

## Plan

1. Position book and its proofs (done).
2. Vault, settlement, ledger, with proofs (done).
3. GMX rebalancing, with proofs (done).
4. Order books against `OrderEscrow`: `LiquidityHandler`, `CrossMarginHandler`,
   `LiquidityHandler02`, `CrossMarginHandler02`, `Ext01Handler`, `LimitTradeHandler` and
   `IntentHandler`, with proofs (done), including executed orders named again, orders of `Ext01Handler`
   filed under another sub-account than their data names, and the packed words of intents.
5. Position book and ledger composed: the funding fees owed to traders against the reserve and the
   pool's debt, and the surplus withdrawal.
6. Staking by trade, epochs of trade credits, with proofs (done).
7. Time within funding intervals.
8. Timelock, scripts and their library, with proofs for every set of scripts (done).
