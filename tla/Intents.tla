------------------------------- MODULE Intents -------------------------------
(***************************************************************************)
(* IntentHandler and TradeOrderHelper: trades that are signed off chain,   *)
(* by the account or by the wallet it delegates to, and executed by        *)
(* executors in batches. Nothing is stored of an order but that it is done *)
(* with.                                                                   *)
(*                                                                         *)
(* An order comes packed in two words. A signature is over what they       *)
(* decode to, but executedIntents is by the hash of the words themselves,  *)
(* which have bits that decoding passes over (the bits from 246 on of the  *)
(* command, from 168 on of the account). The executor chooses these, and   *)
(* the same signed order in other words is another order to the replay     *)
(* protection. The rest of the exchange is an input, as in LimitOrders.    *)
(* What GasService takes for an order is a count of charges here;          *)
(* ExchangeLedger has the payment.                                         *)
(***************************************************************************)
EXTENDS TradeOrder, FiniteSets

CONSTANTS
    Wallets,          \* that can sign, the accounts' own included
    NoWallet,         \* the delegate of an account that has none
    Intents,          \* the orders that may be signed
    Spare,            \* values of the bits that decoding passes over
    MaxCharges,       \* bound: charges for an order in the same words
    MaxSignatures     \* bound: signatures

ASSUME IntentAssumption ==
    /\ Accounts \subseteq Wallets /\ NoWallet \notin Wallets
    /\ \A i \in Intents :
            /\ i.account \in Accounts /\ i.sizeDelta \in Int /\ i.triggerPrice \in Nat
            /\ i.triggerAboveThreshold \in BOOLEAN /\ i.reduceOnly \in BOOLEAN
            /\ i.expiryTimestamp \in Nat
    /\ {MaxCharges, MaxSignatures} \subseteq Nat

VARIABLES
    executedIntents,  \* words
    delegations,
    signatures,       \* that exist: <<wallet, intent>>
    charged, filled   \* history: how often words were charged for, and traded
intentVars == <<positions, executedIntents, delegations, signatures, time, charged, filled>>

\* The packed words of an order, for which executedIntents has a key.
Words == [order : Intents, spare : Spare]

IntentsInit ==
    /\ positions = [a \in Accounts |-> 0]
    /\ executedIntents = {}
    /\ delegations = [a \in Accounts |-> NoWallet]
    /\ signatures = {}
    /\ time = 0
    /\ charged = [k \in Words |-> 0]
    /\ filled = [k \in Words |-> 0]

Sign(w, i) ==
    /\ Cardinality(signatures) < MaxSignatures
    /\ signatures' = signatures \cup {<<w, i>>}
    /\ UNCHANGED <<positions, executedIntents, delegations, time, charged, filled>>

SetDelegate(a, w) ==
    /\ delegations' = [delegations EXCEPT ![a] = w]
    /\ UNCHANGED <<positions, executedIntents, signatures, time, charged, filled>>

\* _validateSignature, of the signature that the executor brings.
ValidSignature(w, i) ==
    /\ <<w, i>> \in signatures
    /\ w = i.account \/ delegations[i.account] = w

\* Mutant: the deadline of the order is not looked at.
PreValidateLate(position, i) == WithinLimits(position, i.sizeDelta, i.reduceOnly)
\* TradeOrderHelper.preValidate.
PreValidate(position, i) ==
    /\ i.expiryTimestamp >= time
    /\ WithinLimits(position, i.sizeDelta, i.reduceOnly)

\* A reduce-only order is for the size of the position at most.
RevisedDelta(position, i) ==
    IF /\ i.reduceOnly /\ position # 0 /\ i.sizeDelta # 0
       /\ ~SameSide(position, i.sizeDelta) /\ Size(i.sizeDelta) > Size(position)
    THEN -position ELSE i.sizeDelta

\* TradeOrderHelper.execute: the positions that the order leaves.
IntentExecuted(position, i, price) ==
    IF IF i.triggerAboveThreshold THEN price > i.triggerPrice ELSE price < i.triggerPrice
    THEN Filled(position, RevisedDelta(position, i), i.reduceOnly) ELSE {}

IntentRecords == [positions |-> positions, executed |-> executedIntents, charged |-> charged, filled |-> filled]

\* Mutant: an order that succeeded is not recorded.
DoneMarket(s, i, isSuccess) == ~isSuccess /\ i.triggerPrice = 0
\* Whether an attempt at the order was the last one.
Done(s, i, isSuccess) == isSuccess \/ i.triggerPrice = 0

\* One turn of the loop of execute, for the words k. The executor brings the
\* signature of w; paid are the words whose fee GasService can collect, accepted
\* those that TradeService takes.
ExecuteIntent(s, k, w, price, paid, accepted) ==
    LET i == k.order
        a == i.account
        c == [s EXCEPT !.charged[k] = s.charged[k] + 1]
        reached == IF k \in accepted THEN IntentExecuted(s.positions[a], i, price) ELSE {}
        Record(t, isSuccess) ==
            IF Done(s, i, isSuccess) THEN [t EXCEPT !.executed = s.executed \cup {k}] ELSE t
    IN
    IF k \in s.executed \/ ~ValidSignature(w, i) \/ k \notin paid THEN {s}
    ELSE IF ~PreValidate(s.positions[a], i) THEN {[c EXCEPT !.executed = s.executed \cup {k}]}
    ELSE IF reached = {} THEN {Record(c, FALSE)}
    ELSE {Record([c EXCEPT !.positions[a] = p, !.filled[k] = s.filled[k] + 1], TRUE) : p \in reached}

\* execute; updatePriceFeeds sets the price.
Execute(batch, price, paid, accepted) ==
    LET after[n \in 0..Len(batch)] ==
            IF n = 0 THEN {IntentRecords}
            ELSE UNION {ExecuteIntent(s, batch[n][2], batch[n][1], price, paid, accepted) : s \in after[n - 1]}
    IN
    /\ \E s \in after[Len(batch)] :
            /\ \A k \in Words : s.charged[k] <= MaxCharges
            /\ positions' = s.positions
            /\ executedIntents' = s.executed
            /\ charged' = s.charged
            /\ filled' = s.filled
    /\ UNCHANGED <<delegations, signatures, time>>

\* A position is liquidated, deleveraged, or traded through another handler.
TradeElsewhere(a, position) ==
    /\ positions' = [positions EXCEPT ![a] = position]
    /\ UNCHANGED <<executedIntents, delegations, signatures, time, charged, filled>>

TimePasses ==
    /\ time < MaxTime
    /\ time' = time + 1
    /\ UNCHANGED <<positions, executedIntents, delegations, signatures, charged, filled>>

\* Orders brought with signatures that do not exist are skipped, and left out.
Brought == {b \in Wallets \X Words : <<b[1], b[2].order>> \in signatures}
IntentBatches == UNION {[1..n -> Brought] : n \in 1..MaxBatch}
Named(batch) == {batch[n][2] : n \in DOMAIN batch}
IntentsNext ==
    \/ \E w \in Wallets, i \in Intents : Sign(w, i)
    \/ \E a \in Accounts, w \in Wallets \cup {NoWallet} : SetDelegate(a, w)
    \/ \E batch \in IntentBatches, price \in Prices :
            \E paid \in SUBSET Named(batch) : \E accepted \in SUBSET paid :
                Execute(batch, price, paid, accepted)
    \/ \E a \in Accounts, p \in (-PositionSizeLimit)..PositionSizeLimit : TradeElsewhere(a, p)
    \/ TimePasses
IntentsSpec == IntentsInit /\ [][IntentsNext]_intentVars

-----------------------------------------------------------------------------
\* The same words trade at most once, whatever batches name them, how often, and in
\* whose name; and never without having been charged for. A market order is
\* charged for at most once in the same words, traded or not: only a limit order
\* that keeps failing is charged for again. An order in other words is not
\* recognised: it trades and is charged for as often as it has words.
FilledOnce ==
    \A k \in Words :
        /\ filled[k] <= 1 /\ filled[k] <= charged[k]
        /\ filled[k] = 1 => k \in executedIntents
        /\ k.order.triggerPrice = 0 => charged[k] <= 1

\* Whatever its words, an order trades only in its time, and on the word of its
\* account or of the wallet that the account delegates to then.
FilledAsSigned ==
    [][\A k \in Words : filled'[k] # filled[k]
        => time <= k.order.expiryTimestamp /\ \E w \in Wallets : ValidSignature(w, k.order)]_intentVars
=============================================================================
