--------------------------- MODULE CommandScripts ---------------------------
(***************************************************************************)
(* script/ts/commands: scripts that operate the exchange. Approvals and     *)
(* transfers of tokens are calls like any other. The ones that only read,   *)
(* or do nothing, are left out.                                             *)
(***************************************************************************)
EXTENDS Scripts

CloseDelistedMarketPositions ==
    FedOnce("handlers.bot", "closeDelistedMarketPositions 1") \o FedOnce("handlers.bot",
        "closeDelistedMarketPositions 2")
InjectLiquidity ==
    Unless("tokens.usdc", "approve bot") \o Send("safe", "tokens.usdc", "approve bot",
        <<"handlers.bot">>, {}) \o Owned("handlers.bot", "injectTokenToHlpLiquidity",
        <<"tokens.usdc">>)
MultisigLeggo ==
    Unless("usdc", "approve bulkSend") \o Send("treasury", "usdc", "approve bulkSend", <<>>,
        {}) \o Unless("usdt", "approve bulkSend") \o Send("treasury", "usdt",
        "approve bulkSend", <<>>, {}) \o Send("treasury", "bulkSend", "leggo", <<>>, {})
DepositCollateral ==
    Sent("tokens.usdc", "approve crossMargin", <<"handlers.crossMargin">>)
        \o Sent("handlers.crossMargin", "depositCollateral", <<"tokens.usdc">>)
DistributeSTIPARB == Send("safe", "strategies.distributeSTIPARB", "execute", <<>>, {})
FeedPriceEcoPyth == Fed("oracles.ecoPyth2", "updatePriceFeeds", <<>>)
MultisigMassTransfer ==
    Send("treasury", "usdc", "transfer", <<>>, {}) \o Send("treasury", "usdt", "transfer",
        <<>>, {})
CreateExtOrder ==
    Sent("handlers.ext01", "createExtOrder", <<"tokens.usdc", "tokens.weth", "tokens.sglp">>)
ExecuteExtOrder == Fed("handlers.ext01", "executeOrders", <<>>)
ExecuteIntent ==
    Look("helpers.intentBuilder", "buildTradeOrder") \o Fed("handlers.intent", "execute",
        <<"tokens.usdc">>)
BatchLimitOrders == Sent("handlers.limitTrade", "batch", <<"tokens.usdc">>)
CreateLimitOrder == Sent("handlers.limitTrade", "createOrder", <<"tokens.usdc">>)
ExecuteLimitOrder == Fed("handlers.limitTrade", "executeOrders", <<>>)
CreateAddLiquidityOrder ==
    Sent("tokens.usdc", "approve liquidity", <<"handlers.liquidity">>)
        \o Sent("handlers.liquidity", "createAddLiquidityOrder", <<"tokens.usdc">>)
ExecuteLiquidityOrder == Fed("handlers.liquidity", "executeOrder", <<>>)
MintMockErc20 == Sent("tokens.wbtc", "mint", <<>>)
AddGlp ==
    Fetch \o Send("safe", "handlers.rebalanceHLP", "addGlp", <<"tokens.dai", "tokens.weth",
        "tokens.usdt", "tokens.usdc", "tokens.wbtc", "tokens.arb">>, {})
WithdrawGlp == Fed("handlers.rebalanceHLP", "withdrawGlp", <<"tokens.weth">>)
SwapOneInch ==
    Fed("handlers.rebalanceHLP", "oneInchSwap", <<"tokens.wbtc", "tokens.usdc",
        "services.rebalanceHLP">>)
Swap ==
    Fetch \o Twice(Send("anyone", "handlers.rebalanceHLP", "swap", <<"tokens.sglp",
        "tokens.weth">>, {}))
CreateDepositOrders ==
    Sent("handlers.rebalanceHLPv2", "createDepositOrders", <<"tokens.gmETHUSD",
        "tokens.weth", "tokens.usdcNative">>)
CreateWithdrawalOrders ==
    Sent("handlers.rebalanceHLPv2", "createWithdrawalOrders", <<"tokens.gmBTCUSD">>)
Reinvest == Sent("strategies.stakedGlpStrategy", "execute", <<>>)
WithdrawDevFee ==
    Look("storages.vault", "withdrawDevFee") \o Twice(Send("safe", "storages.vault",
        "withdrawDevFee", <<>>, {"owned", "spend"}))
WithdrawDevFeeAtNonce ==
    Look("storages.vault", "withdrawDevFee") \o Twice(Send("safeAtNonce", "storages.vault",
        "withdrawDevFee", <<>>, {"owned", "spend"}))

AllCommands == {
    CloseDelistedMarketPositions, InjectLiquidity, MultisigLeggo, DepositCollateral,
    DistributeSTIPARB, FeedPriceEcoPyth, MultisigMassTransfer, CreateExtOrder,
    ExecuteExtOrder, ExecuteIntent, BatchLimitOrders, CreateLimitOrder,
    ExecuteLimitOrder, CreateAddLiquidityOrder, ExecuteLiquidityOrder, MintMockErc20,
    AddGlp, WithdrawGlp, SwapOneInch, Swap, CreateDepositOrders, CreateWithdrawalOrders,
    Reinvest, WithdrawDevFee, WithdrawDevFeeAtNonce}
=============================================================================
