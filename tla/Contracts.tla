------------------------------ MODULE Contracts ------------------------------
(***************************************************************************)
(* What the contracts under src/ take: for each kind, the kinds of contract *)
(* its constructor, or initializer, names in its parameters, in their order; *)
(* and the same for the setters.  A contract no script deploys goes by the  *)
(* key its address has in the configuration file.                           *)
(***************************************************************************)
EXTENDS Integers, Sequences

\* Parameters of an interface that contracts of several kinds offer.
Price == {"EcoPyth", "EcoPyth2"}                    \* IEcoPyth, IPyth
Credits == {"TraderLoyaltyCredit", "FlexTradeCredits"}
CreditHook == {"TLCHook", "FTCHook"}
LPToken == {"HLP", "FLP"}
WNative == {"MockWNative", "tokens.weth"}
GlpManager == {"vendors.gmx.glpManager", "yieldSources.gmx.glpManager"}
RewardRouter == {"vendors.gmx.rewardRouterV2", "yieldSources.gmx.rewardRouterV2"}
PriceAdapter == {"GlpPriceAdapter", "WstEthUsdPriceAdapter", "GmPriceAdapter", "HlpPriceAdapter"}
CalcPriceAdapter == {"CIXPriceAdapter"}
Dexter == {"AerodromeDexter", "CurveDexter", "GlpDexter", "UniswapDexter"}
Token == WNative \cup Credits \cup LPToken
    \cup {"MockErc20", "tokens.usdc", "tokens.usdcNative", "tokens.usdt", "tokens.wbtc", "tokens.arb",
          "tokens.sglp", "tokens.wstEth", "tokens.gmBTCUSD", "tokens.gmETHUSD"}
Interfaces == {Price, Credits, CreditHook, LPToken, WNative, GlpManager, RewardRouter}

Storages == <<{"PerpStorage"}, {"VaultStorage"}, {"ConfigStorage"}>>
Readers == <<{"ConfigStorage"}, {"PerpStorage"}, {"OracleMiddleware"}>>
GlpBuilder == <<Price, GlpManager, {"tokens.sglp"}>>
LensBuilder == <<Price, {"OnChainPriceLens"}>>
Hook == <<{"TradeService"}, Credits, {"staking.tlc"}>>

Constructor == [
    AerodromeDexter |-> <<{"vendors.aerodrome.router"}>>,
    BotHandler |-> <<{"TradeService"}, {"LiquidationService"}, {"CrossMarginService"}, Price>>,
    Calculator |-> <<{"OracleMiddleware"}, {"VaultStorage"}, {"PerpStorage"}, {"ConfigStorage"}>>,
    CollateralReader |-> <<{"VaultStorage"}, {"ConfigStorage"}>>,
    ConvertedGlpStrategy |-> <<{"tokens.sglp"}, RewardRouter, {"VaultStorage"}>>,
    CrossMarginHandler |-> <<{"CrossMarginService"}, Price>>,
    CrossMarginService |-> <<{"ConfigStorage"}, {"VaultStorage"}, {"PerpStorage"}, {"Calculator"}>>,
    CurveDexter |-> <<WNative>>,
    DistributeSTIPARBStrategy |-> <<{"VaultStorage"}, {"tokens.arb"}, {"ERC20ApproveStrategy"}>>,
    ERC20ApproveStrategy |-> <<{"VaultStorage"}>>,
    EcoPythCalldataBuilder |-> GlpBuilder,
    EcoPythCalldataBuilder2 |-> LensBuilder,
    EcoPythCalldataBuilder3 |-> Append(LensBuilder, {"CalcPriceLens"}),
    Ext01Handler |-> <<{"CrossMarginService"}, {"LiquidationService"}, {"LiquidityService"},
                       {"TradeService"}, Price>>,
    FTCHook |-> Hook,
    GasService |-> <<{"VaultStorage"}, {"ConfigStorage"}>>,
    GlpDexter |-> <<WNative, {"tokens.sglp"}, GlpManager, {"vendors.gmx.gmxVault"}, RewardRouter>>,
    GlpPriceAdapter |-> <<{"tokens.sglp"}, GlpManager>>,
    GmPriceAdapter |-> <<{"vendors.gmxV2.reader"}, {"vendors.gmxV2.dataStore"},
                         {"tokens.gmBTCUSD", "tokens.gmETHUSD"}, Token \cup {"btc"}, Token, {"tokens.usdcNative"}>>,
    HlpPriceAdapter |-> <<LPToken, {"Calculator"}>>,
    HmxAccountFactory |-> <<{"accountAbstraction.entryPoint"}>>,
    IntentBuilder |-> <<{"ConfigStorage"}>>,
    IntentHandler |-> <<Price, {"ConfigStorage"}, {"TradeOrderHelper"}, {"GasService"}>>,
    LimitTradeHandler |-> <<WNative, {"TradeService"}, Price>>,
    LimitTradeHelper |-> <<{"ConfigStorage"}, {"PerpStorage"}>>,
    LiquidationReader |-> <<{"PerpStorage"}, {"Calculator"}>>,
    LiquidationService |-> Append(Storages, {"TradeHelper"}),
    LiquidityHandler |-> <<{"LiquidityService"}, Price>>,
    LiquidityService |-> Storages,
    OrderReader |-> Append(Readers, {"LimitTradeHandler"}),
    PositionReader |-> Append(Readers, {"Calculator"}),
    PythAdapter |-> <<Price>>,
    RebalanceHLPHandler |-> <<{"RebalanceHLPService"}, Price>>,
    RebalanceHLPService |-> <<{"tokens.sglp"}, RewardRouter, GlpManager, {"VaultStorage"},
                              {"ConfigStorage"}, {"Calculator"}, {"SwitchCollateralRouter"}>>,
    RebalanceHLPv2Handler |-> <<{"RebalanceHLPv2Service"}, WNative>>,
    RebalanceHLPv2Service |-> <<WNative, {"VaultStorage"}, {"ConfigStorage"},
        {"vendors.gmxV2.exchangeRouter"}, {"vendors.gmxV2.depositVault"}, {"vendors.gmxV2.depositHandler"},
        {"vendors.gmxV2.withdrawalVault"}, {"vendors.gmxV2.withdrawalHandler"}>>,
    StakedGlpOracleAdapter |-> <<{"tokens.sglp"}, GlpManager>>,
    StakedGlpStrategy |-> <<{"tokens.sglp"}, RewardRouter, {"vendors.gmx.rewardTracker"}, GlpManager,
                            {"OracleMiddleware"}, {"VaultStorage"}>>,
    TLCHook |-> Hook,
    TradeHelper |-> Storages,
    TradeOrderHelper |-> Append(Readers, {"TradeService"}),
    TradeService |-> Append(Storages, {"TradeHelper"}),
    TradingStakingHook |-> <<{"staking.trading"}, {"TradeService"}>>,
    UniswapDexter |-> <<{"vendors.uniswap.permit2"}, {"vendors.uniswap.universalRouter"}>>,
    UnsafeEcoPythCalldataBuilder |-> GlpBuilder,
    UnsafeEcoPythCalldataBuilder2 |-> LensBuilder,
    UnsafeEcoPythCalldataBuilder3 |-> Append(LensBuilder, {"CalcPriceLens"}),
    WstEthUsdPriceAdapter |-> <<{"vendors.chainlink.wstEthEthPriceFeed"},
                                {"vendors.chainlink.ethUsdPriceFeed"}>>]

\* Setters, by name; where contracts share a name they share the parameters.
Setter == [
    setPriceAdapters |-> <<PriceAdapter \cup CalcPriceAdapter>>,
    setTradeHelper |-> <<{"TradeHelper"}>>,
    setCalculator |-> <<{"Calculator"}>>,
    setConfigExecutor |-> <<{"BotHandler"}>>,
    setHLP |-> <<LPToken>>,
    setOracle |-> <<{"OracleMiddleware"}>>,
    setSwitchCollateralRouter |-> <<{"SwitchCollateralRouter"}>>,
    setTradeServiceHooks |-> <<CreditHook \cup {"TradingStakingHook"}>>,
    setWeth |-> <<WNative>>,
    setLimitTradeHelper |-> <<{"LimitTradeHelper"}>>,
    setHlpStaking |-> <<{"staking.hlp"}>>,
    setPyth |-> <<Price>>,
    setAssetPriceConfigs |-> <<{"PythAdapter"}>>,
    setMinter |-> <<CreditHook \cup {"LiquidityService"}>>,
    setOneInchRouter |-> <<{"vendors.oneInch.router"}>>,
    setAdaptiveFeeCalculator |-> <<{"AdaptiveFeeCalculator"}>>,
    setOrderbookOracle |-> <<{"OrderbookOracle"}>>,
    setDexterOf |-> <<Token, Token, Dexter>>,
    setStrategyAllowance |-> <<Token, {"DistributeSTIPARBStrategy"}>>,
    setStrategyFunctionSigAllowance |-> <<Token, {"DistributeSTIPARBStrategy"}>>]

\* Setters that give contracts the right to call the one they are called on.
Grants == {"setUpdaters", "setWhitelistedCaller"}
\* The same for pairs of a contract and the one that may call it.
PairGrants == {"setServiceExecutors"}
\* A contract of this kind was built to call one of that kind.  Of a contract no
\* script deploys it is not known what it calls.
BuiltToCall(kind, callee) == kind \in DOMAIN Constructor =>
    \E i \in 1 .. Len(Constructor[kind]) : callee \in Constructor[kind][i]

\* Arguments fit parameters: in order, or, for a setter of one parameter that
\* takes a list, each of them.
Fit(kinds, params) ==
    \/ Len(kinds) = Len(params) /\ \A i \in 1 .. Len(kinds) : kinds[i] \in params[i]
    \/ Len(params) = 1 /\ \A i \in 1 .. Len(kinds) : kinds[i] \in params[1]
\* A proxy may come to run an implementation of its own kind, or one of its interface.
MayRun(proxy, impl) == proxy = impl \/ \E i \in Interfaces : {proxy, impl} \subseteq i
=============================================================================
