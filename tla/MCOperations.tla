----------------------------- MODULE MCOperations -----------------------------
EXTENDS Operations

\* What the configuration files of two networks have no address for yet.
OnArbitrum == {"", "accountAbstraction.factory", "extension.dexter.aerodrome", "helpers.intentBuilder",
               "tokens.flexTradeCredits", "tokens.flp", "reader.collateral",
               "yieldSources.gmx.glpManager", "yieldSources.gmx.rewardRouterV2"}
OnBaseSepolia == {"", "safe", "timelock", "accountAbstraction.entryPoint", "extension.dexter.glp",
                  "handlers.rebalanceHLP", "services.rebalanceHLP", "oracles.priceAdapters.glp",
                  "staking.tlc", "tokens.arb", "tokens.sglp", "tokens.usdcNative", "tokens.usdt",
                  "vendors.oneInch.router"}

SetupOf(owner, proxyAdmin, admin_, delay_, absent) ==
    [owner |-> owner, proxyAdmin |-> proxyAdmin, admin |-> admin_, delay |-> delay_, absent |-> absent]
MCSetups == {SetupOf("deployer", "deployer", "deployer", 2, OnBaseSepolia),
             SetupOf("safe", "safe", "safe", 2, OnArbitrum),
             SetupOf("safe", "timelock", "deployer", 2, OnArbitrum),
             SetupOf("safe", "timelock", "safe", 2, OnArbitrum),
             SetupOf("deployer", "timelock", "deployer", 4, OnArbitrum),
             SetupOf("safe", "timelock", "another", 2, OnArbitrum)}

\* Every script by itself, and pairs of scripts that share something: the file
\* and a key, the queue of a Safe, the oracle they feed, a proxy.
Together == {
    {DeployTLCHook, DeployFTCHook}, {DeployPythAdapter, DeployTradeHelper},
    {DeployEcoPyth2, FeedPriceEcoPyth}, {DeployTimelock, UpgradeTradeHelper},
    {WithdrawDevFee, AddGlp}, {WithdrawDevFeeAtNonce, DistributeSTIPARB},
    {FeedPriceEcoPyth, ExecuteLimitOrder}, {CloseDelistedMarketPositions, Swap},
    {TransferOwnership, IntentHandlerSetIntentExecutor},
    {UpgradeTradeHelper, ExecuteQueued}, {DeployTradeHelper, UpgradeTradeHelper},
    {DeployIntentBuilder, ExecuteIntent}, {DeployLimitTradeHelper, LimitTradeHandlerSetLimitTradeHelper},
    {MultisigLeggo, MultisigMassTransfer}, {InjectLiquidity, TransferOwnership}}
\* Three runs: two upgrades and their execution; two deployments and a reader; a
\* proposal between two calls.
Three == {<<UpgradeTradeHelper, UpgradeTradeHelper, ExecuteQueued>>,
          <<DeployTradeHelper, DeployTradeService, ConfigStorageSetServiceExecutors>>,
          <<FeedPriceEcoPyth, AddGlp, FeedPriceEcoPyth>>}
Alone == {CloseDelistedMarketPositions, WithdrawDevFee, EcoPythInsertAssetIds, UpgradeTradeHelper,
          SwitchCollateralRouterInspectDexters}
MCPlans == {<<>>} \cup {<<s>> : s \in Catalog} \cup {<<s, s>> : s \in Alone}
    \cup UNION {{<<s, t>> : s \in pair, t \in pair} : pair \in Together} \cup Three

Upgraded == {KindOf[UpgradeKey] : UpgradeKey \in {s[2].args[1] : s \in AllUpgrades}}
UpgradedAddresses == [kind : Upgraded \cup {"FTCHook", "TLCHook"}, n : 0 .. 3]
MCOutsideCalls == [fn : {"upgrade"}, proxy : UpgradedAddresses, impl : UpgradedAddresses]
MCEtas == 0 .. 6
===============================================================================
