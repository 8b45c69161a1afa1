--------------------------- MODULE UpgradeScripts ---------------------------
(***************************************************************************)
(* script/ts/upgrades: a script deploys a new implementation and has the    *)
(* ProxyAdmin make a proxy run it.                                          *)
(***************************************************************************)
EXTENDS Scripts

UpgradeBotHandler == Upgrade("BotHandler", "handlers.bot")
UpgradeCalculator == Upgrade("Calculator", "calculator")
UpgradeConfigStorage == Upgrade("ConfigStorage", "storages.config")
UpgradeCrossMarginHandler == Upgrade("CrossMarginHandler", "handlers.crossMargin")
UpgradeCrossMarginService == Upgrade("CrossMarginService", "services.crossMargin")
UpgradeEcoPyth == UpgradeProxy("EcoPyth", "oracles.ecoPyth")
UpgradeGasService == Upgrade("GasService", "services.gas")
UpgradeIntentHandler == Upgrade("IntentHandler", "handlers.intent")
UpgradeLimitTradeHandler == Upgrade("LimitTradeHandler", "handlers.limitTrade")
UpgradeLiquidationService == Upgrade("LiquidationService", "services.liquidation")
UpgradeLiquidityHandler == Upgrade("LiquidityHandler", "handlers.liquidity")
UpgradeLiquidityService == Upgrade("LiquidityService", "services.liquidity")
UpgradeOracleMiddleware == UpgradeProxy("OracleMiddleware", "oracles.middleware")
UpgradePerpStorage == Upgrade("PerpStorage", "storages.perp")
UpgradePythAdapter == UpgradeProxy("PythAdapter", "oracles.pythAdapter")
UpgradeRebalanceHLPHandler == Upgrade("RebalanceHLPHandler", "handlers.rebalanceHLP")
UpgradeRebalanceHLPService == Upgrade("RebalanceHLPService", "services.rebalanceHLP")
UpgradeTLCHook == Upgrade("TLCHook", "hooks.tlc")
UpgradeTradeHelper == Upgrade("TradeHelper", "helpers.trade")
UpgradeTradeService == Upgrade("TradeService", "services.trade")
UpgradeTradingStakingHook == Upgrade("TradingStakingHook", "hooks.tradingStaking")
UpgradeVaultStorage == Upgrade("VaultStorage", "storages.vault")

AllUpgrades == {
    UpgradeBotHandler, UpgradeCalculator, UpgradeConfigStorage,
    UpgradeCrossMarginHandler, UpgradeCrossMarginService, UpgradeEcoPyth,
    UpgradeGasService, UpgradeIntentHandler, UpgradeLimitTradeHandler,
    UpgradeLiquidationService, UpgradeLiquidityHandler, UpgradeLiquidityService,
    UpgradeOracleMiddleware, UpgradePerpStorage, UpgradePythAdapter,
    UpgradeRebalanceHLPHandler, UpgradeRebalanceHLPService, UpgradeTLCHook,
    UpgradeTradeHelper, UpgradeTradeService, UpgradeTradingStakingHook,
    UpgradeVaultStorage}
=============================================================================
