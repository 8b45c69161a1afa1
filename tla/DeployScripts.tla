--------------------------- MODULE DeployScripts ----------------------------
(***************************************************************************)
(* script/ts/deploys: a script deploys one contract and writes its address  *)
(* to the configuration file. What it passes to the constructor, or to the  *)
(* initializer of a proxy, is named by the keys it reads.                   *)
(***************************************************************************)
EXTENDS Scripts

DeployAdaptiveFeeCalculator == Deploy("AdaptiveFeeCalculator", "adaptiveFeeCalculator", <<>>)
DeployAerodromeDexter ==
    Deploy("AerodromeDexter", "extension.dexter.aerodrome", <<"vendors.aerodrome.router">>)
DeployBotHandler ==
    Deploy("BotHandler", "handlers.bot", <<"services.trade", "services.liquidation",
        "services.crossMargin", "oracles.ecoPyth2">>)
DeployBulkSendErc20 == Create("BulkSendErc20", <<>>)
DeployCIXPriceAdapter == Deploy("CIXPriceAdapter", "oracles.priceAdapters.dix", <<>>)
DeployCalcPriceLens == Deploy("CalcPriceLens", "oracles.calcPriceLens", <<>>)
DeployCalculator ==
    Deploy("Calculator", "calculator", <<"oracles.middleware", "storages.vault",
        "storages.perp", "storages.config">>)
DeployCollateralReader ==
    Deploy("CollateralReader", "reader.collateral", <<"storages.vault", "storages.config">>)
DeployConfigStorage == Deploy("ConfigStorage", "storages.config", <<>>)
DeployConvertedGlpStrategy ==
    Deploy("ConvertedGlpStrategy", "strategies.convertedGlpStrategy", <<"tokens.sglp",
        "yieldSources.gmx.rewardRouterV2", "storages.vault">>)
DeployCrossMarginHandler ==
    Deploy("CrossMarginHandler", "handlers.crossMargin", <<"services.crossMargin",
        "oracles.ecoPyth2">>)
DeployCrossMarginService ==
    Deploy("CrossMarginService", "services.crossMargin", <<"storages.config",
        "storages.vault", "storages.perp", "calculator">>)
DeployCurveDexter == Deploy("CurveDexter", "extension.dexter.curve", <<"tokens.weth">>)
DeployDistributeSTIPARBStrategy ==
    Deploy("DistributeSTIPARBStrategy", "strategies.distributeSTIPARB", <<"storages.vault",
        "tokens.arb", "strategies.erc20Approve">>)
DeployERC20ApproveStrategy ==
    Deploy("ERC20ApproveStrategy", "strategies.erc20Approve", <<"storages.vault">>)
DeployEcoPyth == Deploy("EcoPyth", "oracles.ecoPyth", <<>>)
DeployEcoPyth2 == Deploy("EcoPyth2", "oracles.ecoPyth2", <<>>)
DeployEcoPythCalldataBuilder ==
    Deploy("EcoPythCalldataBuilder", "oracles.ecoPythCalldataBuilder", <<"oracles.ecoPyth2",
        "vendors.gmx.glpManager", "tokens.sglp">>)
DeployEcoPythCalldataBuilder2 ==
    Deploy("EcoPythCalldataBuilder2", "oracles.ecoPythCalldataBuilder2",
        <<"oracles.ecoPyth2", "oracles.onChainPriceLens">>)
DeployEcoPythCalldataBuilder3 ==
    Deploy("EcoPythCalldataBuilder3", "oracles.ecoPythCalldataBuilder3",
        <<"oracles.ecoPyth2", "oracles.onChainPriceLens", "oracles.calcPriceLens">>)
DeployExt01Handler ==
    Deploy("Ext01Handler", "handlers.ext01", <<"services.crossMargin",
        "services.liquidation", "services.liquidity", "services.trade", "oracles.ecoPyth2">>)
DeployFLP == Deploy("FLP", "tokens.flp", <<>>)
DeployFTCHook ==
    Deploy("FTCHook", "hooks.tlc", <<"services.trade", "tokens.traderLoyaltyCredit",
        "staking.tlc">>)
DeployFlexTradeCredits ==
    DeployTo("FlexTradeCredits", {"tokens.flexTradeCredits", "tokens.traderLoyaltyCredit"},
        <<>>)
DeployGasService ==
    Deploy("GasService", "services.gas", <<"storages.vault", "storages.config">>)
DeployGlpDexter ==
    Deploy("GlpDexter", "extension.dexter.glp", <<"tokens.weth", "tokens.sglp",
        "vendors.gmx.glpManager", "vendors.gmx.gmxVault", "vendors.gmx.rewardRouterV2">>)
DeployGlpPriceAdapter ==
    Deploy("GlpPriceAdapter", "oracles.priceAdapters.glp", <<"tokens.sglp",
        "vendors.gmx.glpManager">>)
DeployGmPriceAdapterBtc ==
    Deploy("GmPriceAdapter", "oracles.priceAdapters.gmBTCUSD", <<"vendors.gmxV2.reader",
        "vendors.gmxV2.dataStore", "tokens.gmBTCUSD", "btc", "tokens.wbtc",
        "tokens.usdcNative">>)
DeployGmPriceAdapterEth ==
    Deploy("GmPriceAdapter", "oracles.priceAdapters.gmETHUSD", <<"vendors.gmxV2.reader",
        "vendors.gmxV2.dataStore", "tokens.gmETHUSD", "tokens.weth", "tokens.weth",
        "tokens.usdcNative">>)
DeployHLP == Deploy("HLP", "tokens.hlp", <<>>)
DeployHlpPriceAdapter ==
    Deploy("HlpPriceAdapter", "oracles.priceAdapters.hlp", <<"tokens.hlp", "calculator">>)
DeployHmxAccountFactory ==
    Deploy("HmxAccountFactory", "accountAbstraction.factory",
        <<"accountAbstraction.entryPoint">>)
DeployIntentBuilder == Deploy("IntentBuilder", "helpers.intentBuilder", <<"storages.config">>)
DeployIntentHandler ==
    Deploy("IntentHandler", "handlers.intent", <<"oracles.ecoPyth2", "storages.config",
        "helpers.tradeOrder", "services.gas">>)
DeployLimitTradeHandler ==
    Deploy("LimitTradeHandler", "handlers.limitTrade", <<"tokens.weth", "services.trade",
        "oracles.ecoPyth2">>)
DeployLimitTradeHelper ==
    Deploy("LimitTradeHelper", "helpers.limitTrade", <<"storages.config", "storages.perp">>)
DeployLiquidationReader ==
    Deploy("LiquidationReader", "reader.liquidation", <<"storages.perp", "calculator">>)
DeployLiquidationService ==
    Deploy("LiquidationService", "services.liquidation", <<"storages.perp", "storages.vault",
        "storages.config", "helpers.trade">>)
DeployLiquidityHandler ==
    Deploy("LiquidityHandler", "handlers.liquidity", <<"services.liquidity",
        "oracles.ecoPyth2">>)
DeployLiquidityService ==
    Deploy("LiquidityService", "services.liquidity", <<"storages.perp", "storages.vault",
        "storages.config">>)
DeployMockErc20 == Deploy("MockErc20", "tokens.dai", <<>>)
DeployMockWNative == Deploy("MockWNative", "tokens.weth", <<>>)
DeployOnChainPriceLens == Deploy("OnChainPriceLens", "oracles.onChainPriceLens", <<>>)
DeployOracleMiddleware == Deploy("OracleMiddleware", "oracles.middleware", <<>>)
DeployOrderReader ==
    Deploy("OrderReader", "reader.order", <<"storages.config", "storages.perp",
        "oracles.middleware", "handlers.limitTrade">>)
DeployOrderbookOracle == Deploy("OrderbookOracle", "oracles.orderbook", <<>>)
DeployPerpStorage == Deploy("PerpStorage", "storages.perp", <<>>)
DeployPositionReader ==
    Deploy("PositionReader", "reader.position", <<"storages.config", "storages.perp",
        "oracles.middleware", "calculator">>)
DeployPythAdapter == Deploy("PythAdapter", "oracles.pythAdapter", <<"oracles.ecoPyth2">>)
DeployRebalanceHLPHandler ==
    Deploy("RebalanceHLPHandler", "handlers.rebalanceHLP", <<"services.rebalanceHLP",
        "oracles.ecoPyth2">>)
DeployRebalanceHLPService ==
    Deploy("RebalanceHLPService", "services.rebalanceHLP", <<"tokens.sglp",
        "vendors.gmx.rewardRouterV2", "vendors.gmx.glpManager", "storages.vault",
        "storages.config", "calculator", "extension.switchCollateralRouter">>)
DeployRebalanceHLPv2Handler ==
    Deploy("RebalanceHLPv2Handler", "handlers.rebalanceHLPv2", <<"services.rebalanceHLPv2",
        "tokens.weth">>)
DeployRebalanceHLPv2Service ==
    Deploy("RebalanceHLPv2Service", "services.rebalanceHLPv2", <<"tokens.weth",
        "storages.vault", "storages.config", "vendors.gmxV2.exchangeRouter",
        "vendors.gmxV2.depositVault", "vendors.gmxV2.depositHandler",
        "vendors.gmxV2.withdrawalVault", "vendors.gmxV2.withdrawalHandler">>)
DeployStakedGlpOracleAdapter ==
    Deploy("StakedGlpOracleAdapter", "oracles.sglpStakedAdapter", <<"tokens.sglp",
        "yieldSources.gmx.glpManager">>)
DeployStakedGlpStrategy ==
    Deploy("StakedGlpStrategy", "strategies.stakedGlpStrategy", <<"tokens.sglp",
        "vendors.gmx.rewardRouterV2", "vendors.gmx.rewardTracker", "vendors.gmx.glpManager",
        "oracles.middleware", "storages.vault">>)
DeploySwitchCollateralRouter ==
    Deploy("SwitchCollateralRouter", "extension.switchCollateralRouter", <<>>)
DeployTLCHook ==
    Deploy("TLCHook", "hooks.tlc", <<"services.trade", "tokens.traderLoyaltyCredit",
        "staking.tlc">>)
DeployTimelock == Deploy("Timelock", "timelock", <<>>)
DeployTradeHelper ==
    Deploy("TradeHelper", "helpers.trade", <<"storages.perp", "storages.vault",
        "storages.config">>)
DeployTradeOrderHelper ==
    Deploy("TradeOrderHelper", "helpers.tradeOrder", <<"storages.config", "storages.perp",
        "oracles.middleware", "services.trade">>)
DeployTradeService ==
    Deploy("TradeService", "services.trade", <<"storages.perp", "storages.vault",
        "storages.config", "helpers.trade">>)
DeployTradingStakingHook ==
    Deploy("TradingStakingHook", "hooks.tradingStaking", <<"staking.trading",
        "services.trade">>)
DeployUniswapDexter ==
    Deploy("UniswapDexter", "extension.dexter.uniswapV3", <<"vendors.uniswap.permit2",
        "vendors.uniswap.universalRouter">>)
DeployUnsafeEcoPythCalldataBuilder ==
    Deploy("UnsafeEcoPythCalldataBuilder", "oracles.unsafeEcoPythCalldataBuilder",
        <<"oracles.ecoPyth2", "vendors.gmx.glpManager", "tokens.sglp">>)
DeployUnsafeEcoPythCalldataBuilder2 ==
    Deploy("UnsafeEcoPythCalldataBuilder2", "oracles.unsafeEcoPythCalldataBuilder2",
        <<"oracles.ecoPyth2", "oracles.onChainPriceLens">>)
DeployUnsafeEcoPythCalldataBuilder3 ==
    Deploy("UnsafeEcoPythCalldataBuilder3", "oracles.unsafeEcoPythCalldataBuilder3",
        <<"oracles.ecoPyth2", "oracles.onChainPriceLens", "oracles.calcPriceLens">>)
DeployVaultStorage == Deploy("VaultStorage", "storages.vault", <<>>)
DeployWstEthUsdPriceAdapter ==
    Deploy("WstEthUsdPriceAdapter", "oracles.priceAdapters.wstEth",
        <<"vendors.chainlink.wstEthEthPriceFeed", "vendors.chainlink.ethUsdPriceFeed">>)

AllDeployments == {
    DeployAdaptiveFeeCalculator, DeployAerodromeDexter, DeployBotHandler,
    DeployBulkSendErc20, DeployCIXPriceAdapter, DeployCalcPriceLens, DeployCalculator,
    DeployCollateralReader, DeployConfigStorage, DeployConvertedGlpStrategy,
    DeployCrossMarginHandler, DeployCrossMarginService, DeployCurveDexter,
    DeployDistributeSTIPARBStrategy, DeployERC20ApproveStrategy, DeployEcoPyth,
    DeployEcoPyth2, DeployEcoPythCalldataBuilder, DeployEcoPythCalldataBuilder2,
    DeployEcoPythCalldataBuilder3, DeployExt01Handler, DeployFLP, DeployFTCHook,
    DeployFlexTradeCredits, DeployGasService, DeployGlpDexter, DeployGlpPriceAdapter,
    DeployGmPriceAdapterBtc, DeployGmPriceAdapterEth, DeployHLP, DeployHlpPriceAdapter,
    DeployHmxAccountFactory, DeployIntentBuilder, DeployIntentHandler,
    DeployLimitTradeHandler, DeployLimitTradeHelper, DeployLiquidationReader,
    DeployLiquidationService, DeployLiquidityHandler, DeployLiquidityService,
    DeployMockErc20, DeployMockWNative, DeployOnChainPriceLens, DeployOracleMiddleware,
    DeployOrderReader, DeployOrderbookOracle, DeployPerpStorage, DeployPositionReader,
    DeployPythAdapter, DeployRebalanceHLPHandler, DeployRebalanceHLPService,
    DeployRebalanceHLPv2Handler, DeployRebalanceHLPv2Service,
    DeployStakedGlpOracleAdapter, DeployStakedGlpStrategy, DeploySwitchCollateralRouter,
    DeployTLCHook, DeployTimelock, DeployTradeHelper, DeployTradeOrderHelper,
    DeployTradeService, DeployTradingStakingHook, DeployUniswapDexter,
    DeployUnsafeEcoPythCalldataBuilder, DeployUnsafeEcoPythCalldataBuilder2,
    DeployUnsafeEcoPythCalldataBuilder3, DeployVaultStorage, DeployWstEthUsdPriceAdapter}
=============================================================================
