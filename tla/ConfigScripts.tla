--------------------------- MODULE ConfigScripts ----------------------------
(***************************************************************************)
(* script/ts/configs: a script calls setters of the deployed contracts,     *)
(* each by the way its author chose: directly, through OwnerWrapper, or as  *)
(* a proposal to the Safe. A loop over markets, assets or tokens of which   *)
(* each round sends a call of its own is two rounds here; a list in one     *)
(* call is that one call.                                                   *)
(***************************************************************************)
EXTENDS Scripts

AerodromeDexterSetRoute ==
    Twice(Direct("extension.dexter.aerodrome", "setRouteOf", <<"tokens.usdc",
        "tokens.wstEth", "tokens.weth", "vendors.aerodrome.factory">>))
BotHandlerSetPositionManager == Owned("handlers.bot", "setPositionManagers", <<>>)
CIXPriceAdapterSetConfig == Owned("oracles.priceAdapters.dix", "setConfig", <<>>)
CalcPriceLensSetPriceAdapters ==
    OwnedBySafe("oracles.calcPriceLens", "setPriceAdapters", <<"oracles.priceAdapters.dix">>)
CalculatorSetTradeHelper == OwnedBySafe("calculator", "setTradeHelper", <<"helpers.trade">>)
ConfigStorageAddAssetClass == Direct("storages.config", "addAssetClassConfig", <<>>)
ConfigStorageAddMarketConfig == Twice(Owned("storages.config", "addMarketConfig", <<>>))
ConfigStorageAddOrUpdateAcceptedToken ==
    Owned("storages.config", "addOrUpdateAcceptedToken", <<"tokens.usdc", "tokens.weth",
        "tokens.wbtc">>)
ConfigStorageAddStepMinProfitDuration ==
    Owned("storages.config", "addStepMinProfitDuration", <<>>)
ConfigStorageRemoveLastStepMinProfitDuration ==
    Owned("storages.config", "removeLastStepMinProfitDuration", <<>>)
ConfigStorageSetAssetClassConfigByIndex ==
    Twice(Direct("storages.config", "setAssetClassConfigByIndex", <<>>))
ConfigStorageSetAssetConfigs ==
    Owned("storages.config", "setAssetConfigs", <<"tokens.usdc", "tokens.weth",
        "tokens.wbtc">>)
ConfigStorageSetCalculator == Direct("storages.config", "setCalculator", <<"calculator">>)
ConfigStorageSetCollateralConfigs ==
    Owned("storages.config", "setCollateralTokenConfigs", <<>>)
ConfigStorageSetConfigExecutor ==
    Direct("storages.config", "setConfigExecutor", <<"handlers.bot">>)
ConfigStorageSetHlp == Direct("storages.config", "setHLP", <<"tokens.hlp">>)
ConfigStorageSetIsStepMinProfitEnabledByMarketIndex ==
    Owned("storages.config", "setIsStepMinProfitEnabledByMarketIndex", <<>>)
ConfigStorageSetLiquidationConfig == Direct("storages.config", "setLiquidationConfig", <<>>)
ConfigStorageSetLiquidityConfig == Owned("storages.config", "setLiquidityConfig", <<>>)
ConfigStorageSetMarketConfig == Twice(Owned("storages.config", "setMarketConfig", <<>>))
ConfigStorageSetMinProfitDurations ==
    OwnedBySafe("storages.config", "setMinProfitDurations", <<>>)
ConfigStorageSetMinimumPositionSize ==
    Direct("storages.config", "setMinimumPositionSize", <<>>)
ConfigStorageSetOracle == Direct("storages.config", "setOracle", <<"oracles.middleware">>)
ConfigStorageSetPnlFactor == Direct("storages.config", "setPnlFactor", <<>>)
ConfigStorageSetServiceExecutors ==
    Owned("storages.config", "setServiceExecutors", <<"services.crossMargin",
        "handlers.crossMargin", "services.liquidity", "handlers.liquidity",
        "services.liquidation", "handlers.bot", "services.trade", "handlers.bot",
        "helpers.trade", "services.trade", "helpers.trade", "services.liquidation",
        "services.gas", "handlers.intent", "services.trade", "helpers.tradeOrder",
        "services.trade", "helpers.tradeOrder", "services.trade", "handlers.limitTrade",
        "services.crossMargin", "handlers.ext01", "services.gas", "rewardDistributor">>)
ConfigStorageSetStepMinProfitDuration ==
    Owned("storages.config", "setStepMinProfitDuration", <<>>)
ConfigStorageSetSwitchCollateralRouter ==
    OwnedBySafe("storages.config", "setSwitchCollateralRouter",
        <<"extension.switchCollateralRouter">>)
ConfigStorageSetTradeServiceHooks ==
    Owned("storages.config", "setTradeServiceHooks", <<"hooks.tlc", "hooks.tradingStaking">>)
ConfigStorageSetTradingConfig == Owned("storages.config", "setTradingConfig", <<>>)
ConfigStorageSetWeth == Direct("storages.config", "setWeth", <<"tokens.weth">>)
CrossMarginHandlerSetBanlist == Owned("handlers.crossMargin", "setBanlist", <<>>)
CrossMarginHandlerSetOrderExecutor ==
    Twice(Direct("handlers.crossMargin", "setOrderExecutor", <<>>))
CurveDexterSetPoolConfigs ==
    Twice(Direct("extension.dexter.curve", "setPoolConfigOf", <<"tokens.usdc", "tokens.usdt",
        "vendors.curve.usdcUsdtPool">>))
DistributeSTIPARBStrategySetWhitelistedExecutor ==
    OwnedBySafe("strategies.distributeSTIPARB", "setWhitelistedExecutor", <<>>)
ERC20ApproveStrategySetWhitelistedExecutor ==
    OwnedBySafe("strategies.erc20Approve", "setWhitelistedExecutor",
        <<"strategies.distributeSTIPARB">>)
EcoPythInsertAssetIds ==
    Send("owner", "oracles.ecoPyth2", "insertAssetIds", <<>>, {"once", "owned"})
EcoPythSetUpdaters ==
    Owned("oracles.ecoPyth2", "setUpdaters", <<"handlers.bot", "handlers.crossMargin",
        "handlers.liquidity", "handlers.intent", "handlers.limitTrade", "handlers.ext01">>)
Ext01HandlerSetMinExecutionFee == Twice(Owned("handlers.ext01", "setMinExecutionFee", <<>>))
Ext01HandlerSetOrderExecutor == Twice(OwnedBySafe("handlers.ext01", "setOrderExecutor", <<>>))
FLPSetMinter == Direct("tokens.hlp", "setMinter", <<"services.liquidity">>)
FTCHookSetMarketWeight == Twice(Owned("hooks.tlc", "setMarketWeight", <<>>))
FTCHookSetWhitelistedCallers ==
    OwnedBySafe("hooks.tlc", "setWhitelistedCallers", <<"services.trade",
        "services.liquidation">>)
FlexTradeCreditsSetMinter ==
    Direct("tokens.traderLoyaltyCredit", "setMinter", <<"hooks.tlc">>)
GasServiceSetParams == Owned("services.gas", "setParams", <<>>)
GasServiceSetWaviedExecutionFeeMinTradeSize ==
    Owned("services.gas", "setWaviedExecutionFeeMinTradeSize", <<>>)
HandlersSetMinExecutionFee ==
    Owned("handlers.crossMargin", "setMinExecutionFee", <<>>) \o Owned("handlers.limitTrade",
        "setMinExecutionFee", <<>>) \o Owned("handlers.liquidity", "setMinExecutionFee", <<>>)
HLPSetMinter == Direct("tokens.hlp", "setMinter", <<"services.liquidity">>)
IntentHandlerSetIntentExecutor == Owned("handlers.intent", "setIntentExecutor", <<>>)
LimitTradeHandlerSetLimitTradeHelper ==
    Direct("handlers.limitTrade", "setLimitTradeHelper", <<"helpers.limitTrade">>)
LimitTradeHandlerSetMinExecutionFee ==
    Direct("handlers.limitTrade", "setMinExecutionFee", <<>>)
LimitTradeHandlerSetMinExecutionTimestamp ==
    Send("misproposed", "handlers.limitTrade", "setMinExecutionTimestamp", <<>>, {"owned"})
LimitTradeHandlerSetOrderExecutor == Direct("handlers.limitTrade", "setOrderExecutor", <<>>)
LimitTradeHandlerSetPositionSizeLimit ==
    Direct("handlers.limitTrade", "setPositionSizeLimit", <<>>)
LimitTradeHelperSetLimit == Owned("helpers.limitTrade", "setLimit", <<>>)
LiquidityHandlerSetHlpStaking ==
    Direct("handlers.liquidity", "setHlpStaking", <<"staking.hlp">>)
LiquidityHandlerSetOrderExecutor == Direct("handlers.liquidity", "setOrderExecutor", <<>>)
MultiSetPyth ==
    Direct("oracles.pythAdapter", "setPyth", <<"oracles.ecoPyth2">>)
        \o Direct("handlers.bot", "setPyth", <<"oracles.ecoPyth2">>)
        \o Direct("handlers.crossMargin", "setPyth", <<"oracles.ecoPyth2">>)
        \o Direct("handlers.limitTrade", "setPyth", <<"oracles.ecoPyth2">>)
        \o Direct("handlers.liquidity", "setPyth", <<"oracles.ecoPyth2">>)
OnChainPriceLensSetPriceAdapters ==
    OwnedBySafe("oracles.onChainPriceLens", "setPriceAdapters",
        <<"oracles.priceAdapters.glp", "oracles.priceAdapters.wstEth">>)
OracleMiddlewareSetAssetPriceConfigs ==
    Owned("oracles.middleware", "setAssetPriceConfigs", <<"oracles.pythAdapter">>)
OracleMiddlewareSetMultipleMarketStatus ==
    Direct("oracles.middleware", "setMultipleMarketStatus", <<>>)
OracleMiddlewareSetUpdater == Direct("oracles.middleware", "setUpdater", <<>>)
OrderbookOracleInsertMarketIndexes ==
    Send("owner", "oracles.orderbook", "insertMarketIndexes", <<>>, {"once", "owned"})
OrderbookOracleSetMarketIndexes == OwnedBySafe("oracles.orderbook", "setMarketIndexes", <<>>)
OrderbookOracleSetUpdater == Owned("oracles.orderbook", "setUpdaters", <<>>)
TransferOwnership ==
    Direct("services.gas", "transferOwnership", <<"safe">>) \o Direct("handlers.intent",
        "transferOwnership", <<"safe">>) \o Direct("helpers.tradeOrder", "transferOwnership",
        <<"safe">>)
PerpStorageSetMovingWindowConfig == Owned("storages.perp", "setMovingWindowConfig", <<>>)
PerpStorageSetServiceExecutorBatch ==
    Direct("storages.perp", "setServiceExecutorBatch", <<"services.crossMargin",
        "services.trade", "helpers.trade", "services.liquidation">>)
PythAdapterSetConfigs == Owned("oracles.pythAdapter", "setConfigs", <<>>)
PythAdapterSetPyth == Direct("oracles.pythAdapter", "setPyth", <<"">>)
RebalanceHLPHandlerSetWhitelistExecutor ==
    Proposed("handlers.rebalanceHLP", "setWhitelistExecutor", <<>>)
RebalanceHLPServiceSetOneInchRouter ==
    Send("safeAtNonce", "services.rebalanceHLP", "setOneInchRouter",
        <<"vendors.oneInch.router">>, {"owned"})
RebalanceHLPToGMXV2HandlerSetWhitelistExecutor ==
    Proposed("handlers.rebalanceHLPv2", "setWhitelistExecutor", <<>>)
RebalanceHLPv2HandlerSetWhitelistExecutor ==
    OwnedBySafe("handlers.rebalanceHLPv2", "setWhitelistExecutor", <<>>)
SwitchCollateralRouterInspectDexters ==
    Unless("extension.switchCollateralRouter", "setDexterOf weth")
        \o Direct("extension.switchCollateralRouter", "setDexterOf weth", <<"tokens.weth",
        "tokens.usdc", "extension.dexter.uniswapV3">>)
        \o Unless("extension.switchCollateralRouter", "setDexterOf wbtc")
        \o Direct("extension.switchCollateralRouter", "setDexterOf wbtc", <<"tokens.wbtc",
        "tokens.usdc", "extension.dexter.uniswapV3">>)
SwitchCollateralRouterSetDexter ==
    Twice(Direct("extension.switchCollateralRouter", "setDexterOf", <<"tokens.sglp",
        "tokens.usdcNative", "extension.dexter.glp">>))
TLCHookSetMarketWeight == Twice(Proposed("hooks.tlc", "setMarketWeight", <<>>))
TLCHookSetWhitelistedCallers ==
    Send("ownerIsSafeMisproposed", "hooks.tlc", "setWhitelistedCallers", <<"services.trade",
        "services.liquidation">>, {"owned"})
TradeHelperSetAdaptiveFeeCalculator ==
    Owned("helpers.trade", "setAdaptiveFeeCalculator", <<"adaptiveFeeCalculator">>)
TradeHelperSetMaxAdaptiveFeeBps == Owned("helpers.trade", "setMaxAdaptiveFeeBps", <<>>)
TradeHelperSetOrderbookOracle ==
    Owned("helpers.trade", "setOrderbookOracle", <<"oracles.orderbook">>)
TradeOrderHelperSetLimit == Owned("helpers.tradeOrder", "setLimit", <<>>)
TradeOrderHelperSetWhitelistedCallers ==
    Owned("helpers.tradeOrder", "setWhitelistedCaller", <<"handlers.intent">>)
TradingStakingHookSetWhitelistedCallers ==
    OwnedBySafe("hooks.tradingStaking", "setWhitelistedCallers", <<"services.trade",
        "services.liquidation">>)
UniswapDexterSetPath ==
    Twice(Direct("extension.dexter.uniswapV3", "setPathOf", <<"tokens.usdc", "tokens.weth",
        "tokens.wbtc">>))
VaultStorageSetServiceExecutorBatch ==
    Owned("storages.vault", "setServiceExecutorBatch", <<"services.liquidity",
        "services.crossMargin", "services.trade", "helpers.trade", "services.liquidation",
        "rewardDistributor", "handlers.bot", "services.gas">>)
VaultStorageSetStrategyAllowance ==
    Owned("storages.vault", "setStrategyAllowance", <<"tokens.arb",
        "strategies.distributeSTIPARB">>)
VaultStorageSetStrategyFunctionSigAllowance ==
    Owned("storages.vault", "setStrategyFunctionSigAllowance", <<"tokens.arb",
        "strategies.distributeSTIPARB">>)

AllSettings == {
    AerodromeDexterSetRoute, BotHandlerSetPositionManager, CIXPriceAdapterSetConfig,
    CalcPriceLensSetPriceAdapters, CalculatorSetTradeHelper, ConfigStorageAddAssetClass,
    ConfigStorageAddMarketConfig, ConfigStorageAddOrUpdateAcceptedToken,
    ConfigStorageAddStepMinProfitDuration, ConfigStorageRemoveLastStepMinProfitDuration,
    ConfigStorageSetAssetClassConfigByIndex, ConfigStorageSetAssetConfigs,
    ConfigStorageSetCalculator, ConfigStorageSetCollateralConfigs,
    ConfigStorageSetConfigExecutor, ConfigStorageSetHlp,
    ConfigStorageSetIsStepMinProfitEnabledByMarketIndex,
    ConfigStorageSetLiquidationConfig, ConfigStorageSetLiquidityConfig,
    ConfigStorageSetMarketConfig, ConfigStorageSetMinProfitDurations,
    ConfigStorageSetMinimumPositionSize, ConfigStorageSetOracle,
    ConfigStorageSetPnlFactor, ConfigStorageSetServiceExecutors,
    ConfigStorageSetStepMinProfitDuration, ConfigStorageSetSwitchCollateralRouter,
    ConfigStorageSetTradeServiceHooks, ConfigStorageSetTradingConfig,
    ConfigStorageSetWeth, CrossMarginHandlerSetBanlist,
    CrossMarginHandlerSetOrderExecutor, CurveDexterSetPoolConfigs,
    DistributeSTIPARBStrategySetWhitelistedExecutor,
    ERC20ApproveStrategySetWhitelistedExecutor, EcoPythInsertAssetIds,
    EcoPythSetUpdaters, Ext01HandlerSetMinExecutionFee, Ext01HandlerSetOrderExecutor,
    FLPSetMinter, FTCHookSetMarketWeight, FTCHookSetWhitelistedCallers,
    FlexTradeCreditsSetMinter, GasServiceSetParams,
    GasServiceSetWaviedExecutionFeeMinTradeSize, HandlersSetMinExecutionFee,
    HLPSetMinter, IntentHandlerSetIntentExecutor, LimitTradeHandlerSetLimitTradeHelper,
    LimitTradeHandlerSetMinExecutionFee, LimitTradeHandlerSetMinExecutionTimestamp,
    LimitTradeHandlerSetOrderExecutor, LimitTradeHandlerSetPositionSizeLimit,
    LimitTradeHelperSetLimit, LiquidityHandlerSetHlpStaking,
    LiquidityHandlerSetOrderExecutor, MultiSetPyth, OnChainPriceLensSetPriceAdapters,
    OracleMiddlewareSetAssetPriceConfigs, OracleMiddlewareSetMultipleMarketStatus,
    OracleMiddlewareSetUpdater, OrderbookOracleInsertMarketIndexes,
    OrderbookOracleSetMarketIndexes, OrderbookOracleSetUpdater, TransferOwnership,
    PerpStorageSetMovingWindowConfig, PerpStorageSetServiceExecutorBatch,
    PythAdapterSetConfigs, PythAdapterSetPyth, RebalanceHLPHandlerSetWhitelistExecutor,
    RebalanceHLPServiceSetOneInchRouter, RebalanceHLPToGMXV2HandlerSetWhitelistExecutor,
    RebalanceHLPv2HandlerSetWhitelistExecutor, SwitchCollateralRouterInspectDexters,
    SwitchCollateralRouterSetDexter, TLCHookSetMarketWeight,
    TLCHookSetWhitelistedCallers, TradeHelperSetAdaptiveFeeCalculator,
    TradeHelperSetMaxAdaptiveFeeBps, TradeHelperSetOrderbookOracle,
    TradeOrderHelperSetLimit, TradeOrderHelperSetWhitelistedCallers,
    TradingStakingHookSetWhitelistedCallers, UniswapDexterSetPath,
    VaultStorageSetServiceExecutorBatch, VaultStorageSetStrategyAllowance,
    VaultStorageSetStrategyFunctionSigAllowance}
=============================================================================
