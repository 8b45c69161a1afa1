-------------------------- MODULE MCExchangeLedger --------------------------
\* Instances of ExchangeLedger for TLC.
EXTENDS ExchangeLedger
CONSTANTS a1, k, usd, eth

UsdEth == <<usd, eth>>
\* A usd is worth 1 (2 / Unit), an eth 1.5 (3 / Unit).
EthDearer == {[t \in Tokens |-> IF t = eth THEN 3 ELSE 2]}
TwoUsdOneEth == [t \in Tokens |-> IF t = eth THEN 1 ELSE 2]
GainOrLossOf2 == {-2, 2}
=============================================================================
