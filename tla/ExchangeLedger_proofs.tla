----------------------- MODULE ExchangeLedger_proofs -----------------------
(***************************************************************************)
(* The vault's books are sound, for every set of accounts and tokens, every*)
(* list of the pool's tokens, every price and every amount: they cover what*)
(* is owed (Backed), what they keep twice agrees (CopiesAgree), no entry   *)
(* goes below zero (TypeOK), no operation makes or loses money, and the    *)
(* waterfalls of a settlement pay what is due in the order they promise.   *)
(*                                                                         *)
(* The argument is compositional. Each function of VaultStorage is a       *)
(* relation between the record before and the one after (Shift: the vault  *)
(* owes n more of one token; Moves: it owes the same); each payment is a   *)
(* chain of them (Paying: the account pays; Receiving: it is paid); each   *)
(* relation is transitive, so a loop over tokens keeps it (TurnInduction of*)
(* Sums); and an operation composes a few loops.                           *)
(*                                                                         *)
(* The second part is about RebalanceHLP: the books stay sound while tokens*)
(* are at GMX, and what is on hold is what the pending orders took.        *)
(***************************************************************************)
EXTENDS RebalanceHLP, Sums

-----------------------------------------------------------------------------
(***************************************************************************)
(* The vault's invariant, as a predicate on records: its types, and that   *)
(* what it keeps twice agrees.                                             *)
(***************************************************************************)
DebtsOf(f, k) == [ka \in Debts \X Accounts |-> IF ka[1] = k THEN f[ka] ELSE 0]
Held(v, a) == {t \in Tokens : v.traderBalances[<<a, t>>] > 0}
Copies(v) ==
    /\ \A k \in Debts : v.globalDebt[k] = SumFunction(DebtsOf(v.debt, k))
    /\ \A a \in Accounts : Elems(v.traderTokens[a]) = Held(v, a) /\ Distinct(v.traderTokens[a])
Kept(v) == v \in Vaults /\ Copies(v)

\* The invariant of the component, of the vault as it is and as it will be.
LEMMA CopiesAgreeIs == CopiesAgree <=> Copies(vault)
BY DEF CopiesAgree, Copies, DebtsOf, Held, Elems, Distinct

LEMMA CopiesAgreeNext == CopiesAgree' <=> Copies(vault')
BY DEF CopiesAgree, Copies, DebtsOf, Held, Elems, Distinct

\* A pair is finite,
LEMMA PairFinite == ASSUME NEW x, NEW y PROVE IsFiniteSet({x, y})
<1>1. IsFiniteSet({x}) /\ IsFiniteSet({y})  BY FS_Singleton
<1>2. IsFiniteSet({x} \cup {y})  BY <1>1, FS_Union
<1>3. {x, y} = {x} \cup {y}  OBVIOUS
<1> QED BY <1>2, <1>3

\* and so are the four debts and the four buckets.
LEMMA DebtsFinite == IsFiniteSet(Debts)
<1>1. Debts = {"tradingFee", "borrowingFee"} \cup {"fundingFee", "loss"}  BY DEF Debts
<1> HIDE DEF Debts
<1> QED BY <1>1, PairFinite, FS_Union

LEMMA BucketsFinite == IsFiniteSet(Buckets)
<1>1. Buckets = {"hlpLiquidity", "protocolFees"} \cup {"devFees", "fundingFeeReserve"}
  BY DEF Buckets
<1> HIDE DEF Buckets
<1> QED BY <1>1, PairFinite, FS_Union

\* The books are finite, so they have sums.
LEMMA KeysFinite ==
    /\ IsFiniteSet(Buckets \X Tokens) /\ IsFiniteSet(Accounts \X Tokens)
    /\ IsFiniteSet(Debts \X Accounts)
BY DebtsFinite, BucketsFinite, LedgerAssumption, FS_Product

\* Book g is f with n more at y.
Bumped(g, f, y, n) ==
    /\ DOMAIN g = DOMAIN f
    /\ g[y] = f[y] + n
    /\ \A z \in DOMAIN f : z # y => g[z] = f[z]

\* An amount of token t, as the amount of each token z.
Only(z, t, n) == IF z = t THEN n ELSE 0

\* Integer y is n more than x.
More(y, x, n) == x \in Int /\ y = x + n

\* The sum of a book's entries of token t, when one entry changes.
LEMMA TokenSum ==
    ASSUME NEW X, IsFiniteSet(X \X Tokens), NEW f \in [X \X Tokens -> Int],
           NEW x \in X, NEW t \in Tokens, NEW n \in Int,
           NEW g \in [X \X Tokens -> Int], Bumped(g, f, <<x, t>>, n), NEW z \in Tokens
    PROVE  More(SumFunction(OfToken(g, z)), SumFunction(OfToken(f, z)), Only(z, t, n))
<1> DEFINE D == X \X Tokens
           F == OfToken(f, z)
           G == OfToken(g, z)
           y == <<x, t>>
<1>1. y \in D /\ y[2] = t /\ g \in [D -> Int] /\ g[y] = f[y] + n /\ f[y] \in Int
  BY DEF Bumped
<1>2. \A w \in D : w # y => g[w] = f[w]  BY DEF Bumped
<1>3. /\ F = [w \in D |-> IF w[2] = z THEN f[w] ELSE 0]
      /\ G = [w \in D |-> IF w[2] = z THEN g[w] ELSE 0]
  BY <1>1 DEF OfToken
<1> HIDE DEF D, F, G, y
<1>4. F \in [D -> Int] /\ G \in [D -> Int]  BY <1>1, <1>3 DEF D
<1>5. \A w \in D : w # y => G[w] = F[w]  BY <1>2, <1>3
<1>6. SumFunction(F) \in Int  BY <1>4, SumFunctionInt DEF D
<1>7. SumFunction(G) = SumFunction(F) + G[y] - F[y]
  BY <1>1, <1>4, <1>5, SumFunctionChange DEF D
<1>8. G[y] - F[y] = Only(z, t, n)  BY <1>1, <1>3 DEF Only
<1>9. G[y] \in Int /\ F[y] \in Int  BY <1>1, <1>4
<1> QED BY <1>6, <1>7, <1>8, <1>9 DEF F, G, More

\* What the vault owes of a token is at least each of its entries.
LEMMA ClaimsNat ==
    ASSUME NEW v \in Vaults, NEW t \in Tokens
    PROVE  /\ Claims(v, t) \in Nat
           /\ \A k \in Buckets : v.bucket[<<k, t>>] <= Claims(v, t)
           /\ \A a \in Accounts : v.traderBalances[<<a, t>>] <= Claims(v, t)
<1> DEFINE F == OfToken(v.bucket, t)
           G == OfToken(v.traderBalances, t)
<1>1. v.bucket \in [Buckets \X Tokens -> Nat] /\ v.traderBalances \in [Accounts \X Tokens -> Nat]
  BY DEF Vaults
<1>2. /\ F \in [Buckets \X Tokens -> Nat] /\ \A k \in Buckets : F[<<k, t>>] = v.bucket[<<k, t>>]
      /\ G \in [Accounts \X Tokens -> Nat]
      /\ \A a \in Accounts : G[<<a, t>>] = v.traderBalances[<<a, t>>]
  BY <1>1 DEF OfToken
<1> HIDE DEF F, G
<1>3. SumFunction(F) \in Nat /\ \A x \in Buckets \X Tokens : F[x] <= SumFunction(F)
  BY <1>2, KeysFinite, SumFunctionNat
<1>4. SumFunction(G) \in Nat /\ \A x \in Accounts \X Tokens : G[x] <= SumFunction(G)
  BY <1>2, KeysFinite, SumFunctionNat
<1>5. Claims(v, t) = SumFunction(F) + SumFunction(G)  BY DEF Claims, F, G
<1>6. ASSUME NEW k \in Buckets PROVE v.bucket[<<k, t>>] <= SumFunction(F) /\ v.bucket[<<k, t>>] \in Nat
  BY <1>1, <1>2, <1>3
<1>7. ASSUME NEW a \in Accounts PROVE v.traderBalances[<<a, t>>] <= SumFunction(G) /\ v.traderBalances[<<a, t>>] \in Nat
  BY <1>1, <1>2, <1>4
<1> QED BY <1>3, <1>4, <1>5, <1>6, <1>7

-----------------------------------------------------------------------------
(***************************************************************************)
(* What one operation on the books does. Shift(v, w, t, n): w is a vault   *)
(* too, and owes n more than v in token t and as much as v in the others.  *)
(***************************************************************************)
Shift(v, w, t, n) ==
    /\ Kept(w)
    /\ w.totalAmount = v.totalAmount /\ w.onHold = v.onHold
    /\ \A z \in Tokens : Claims(w, z) = Claims(v, z) + Only(z, t, n)

\* Two operations on a token add up.
LEMMA ShiftShift ==
    ASSUME NEW v, Kept(v), NEW t \in Tokens, NEW n \in Int, NEW m \in Int,
           NEW w, Shift(v, w, t, n), NEW x, Shift(w, x, t, m)
    PROVE  Shift(v, x, t, n + m)
<1>1. ASSUME NEW z \in Tokens
      PROVE  Claims(x, z) = Claims(v, z) + Only(z, t, n + m)
  <2>1. Claims(v, z) \in Int  BY ClaimsNat DEF Kept
  <2>2. /\ Claims(w, z) = Claims(v, z) + Only(z, t, n)
        /\ Claims(x, z) = Claims(w, z) + Only(z, t, m)
    BY DEF Shift
  <2>3. CASE z = t
    <3>1. Claims(w, z) = Claims(v, z) + n /\ Claims(x, z) = Claims(w, z) + m  BY <2>2, <2>3 DEF Only
    <3> QED BY <2>1, <2>3, <3>1 DEF Only
  <2>4. CASE z # t
    <3>1. Claims(w, z) = Claims(v, z) + 0 /\ Claims(x, z) = Claims(w, z) + 0  BY <2>2, <2>4 DEF Only
    <3> QED BY <2>1, <2>4, <3>1 DEF Only
  <2> QED BY <2>3, <2>4
<1> QED BY <1>1 DEF Shift

\* Money that stays with the vault.
Moves(v, w) ==
    /\ Kept(w)
    /\ w.totalAmount = v.totalAmount /\ w.onHold = v.onHold
    /\ \A z \in Tokens : Claims(w, z) = Claims(v, z)

\* What is taken and put back.
LEMMA ShiftZero ==
    ASSUME NEW v, Kept(v), NEW w, NEW t \in Tokens, Shift(v, w, t, 0)
    PROVE  Moves(v, w)
<1>1. \A z \in Tokens : Claims(v, z) \in Int  BY ClaimsNat DEF Kept
<1> QED BY <1>1 DEF Shift, Moves, Only

\* Relation Moves is transitive,
LEMMA MovesMoves ==
    ASSUME NEW v, NEW w, NEW x, Moves(v, w), Moves(w, x)
    PROVE  Moves(v, x)
BY DEF Moves

\* and reflexive.
LEMMA MovesSame == ASSUME NEW v, Kept(v) PROVE Moves(v, v)
BY DEF Moves

\* A bucket.
Credited(v, w, k, t, n) ==
    /\ Shift(v, w, t, n)
    /\ w.bucket = [v.bucket EXCEPT ![<<k, t>>] = @ + n]
    /\ w.traderBalances = v.traderBalances
    /\ w.debt = v.debt /\ w.hlpDebt = v.hlpDebt

\* The buckets: addHLPLiquidity, addFee, addFundingFee and their opposites.
LEMMA CreditFacts ==
    ASSUME NEW v, Kept(v), NEW k \in Buckets, NEW t \in Tokens, NEW n \in Int,
           v.bucket[<<k, t>>] + n >= 0, NEW w, w = Credit(v, k, t, n)
    PROVE  Credited(v, w, k, t, n)
<1>1. v \in Vaults /\ v.bucket \in [Buckets \X Tokens -> Int] /\ v.bucket[<<k, t>>] + n \in Nat
  BY DEF Kept, Vaults
<1>2. /\ w \in Vaults
      /\ w.bucket = [v.bucket EXCEPT ![<<k, t>>] = @ + n]
      /\ w.traderBalances = v.traderBalances /\ w.traderTokens = v.traderTokens
      /\ w.debt = v.debt /\ w.globalDebt = v.globalDebt /\ w.hlpDebt = v.hlpDebt
      /\ w.totalAmount = v.totalAmount /\ w.onHold = v.onHold
  BY <1>1 DEF Credit, Vaults
<1>3. Copies(w)  BY <1>2 DEF Kept, Copies, Held
<1>4. ASSUME NEW z \in Tokens PROVE Claims(w, z) = Claims(v, z) + Only(z, t, n)
  <2> DEFINE F == OfToken(v.bucket, z)
             G == OfToken(w.bucket, z)
             H == OfToken(v.traderBalances, z)
  <2>1. /\ SumFunction(F) \in Int
        /\ SumFunction(G) = SumFunction(F) + Only(z, t, n)
    <3> DEFINE f == v.bucket
               g == w.bucket
               S == Buckets
    <3>1. g \in [S \X Tokens -> Int] /\ Bumped(g, f, <<k, t>>, n)
      BY <1>1, <1>2 DEF Bumped
    <3>2. IsFiniteSet(S \X Tokens) /\ f \in [S \X Tokens -> Int] /\ k \in S
      BY <1>1, KeysFinite
    <3> HIDE DEF f, g, S
    <3>3. More(SumFunction(OfToken(g, z)), SumFunction(OfToken(f, z)), Only(z, t, n))
      BY <3>1, <3>2, TokenSum, Zenon
    <3> QED BY <3>3 DEF f, g, More
  <2>2. SumFunction(H) \in Int
    <3>1. v.traderBalances \in [Accounts \X Tokens -> Int]  BY <1>1 DEF Vaults
    <3>2. H \in [Accounts \X Tokens -> Int]  BY <3>1 DEF OfToken
    <3> HIDE DEF H
    <3> QED BY <3>2, KeysFinite, SumFunctionInt
  <2>3. /\ Claims(v, z) = SumFunction(F) + SumFunction(H)
        /\ Claims(w, z) = SumFunction(G) + SumFunction(H)
    BY <1>2 DEF Claims
  <2> HIDE DEF F, G, H
  <2> QED BY <2>1, <2>2, <2>3 DEF Only
<1> QED BY <1>2, <1>3, <1>4 DEF Shift, Kept, Credited

\* A trader's balance, when the list of its tokens follows.
LEMMA BalanceFacts ==
    ASSUME NEW v, Kept(v), NEW a \in Accounts, NEW t \in Tokens, NEW n \in Int, NEW w \in Vaults,
           Bumped(w.traderBalances, v.traderBalances, <<a, t>>, n),
           \A b \in Accounts : b # a => w.traderTokens[b] = v.traderTokens[b],
           Elems(w.traderTokens[a]) = Held(w, a), Distinct(w.traderTokens[a]),
           w.bucket = v.bucket, w.debt = v.debt, w.globalDebt = v.globalDebt,
           w.totalAmount = v.totalAmount, w.onHold = v.onHold
    PROVE  Shift(v, w, t, n)
<1>1. v \in Vaults /\ v.traderBalances \in [Accounts \X Tokens -> Int]
  BY DEF Kept, Vaults
<1>2. Copies(w)
  <2>1. \A k \in Debts : w.globalDebt[k] = SumFunction(DebtsOf(w.debt, k))  BY DEF Kept, Copies
  <2>2. ASSUME NEW b \in Accounts
        PROVE  Elems(w.traderTokens[b]) = Held(w, b) /\ Distinct(w.traderTokens[b])
    <3>1. CASE b = a  BY <3>1
    <3>2. CASE b # a
      <4>1. Held(w, b) = Held(v, b)
        <5>1. \A z \in Tokens : w.traderBalances[<<b, z>>] = v.traderBalances[<<b, z>>]
          BY <1>1, <3>2 DEF Bumped
        <5> QED BY <5>1 DEF Held
      <4> QED BY <3>2, <4>1 DEF Kept, Copies
    <3> QED BY <3>1, <3>2
  <2> QED BY <2>1, <2>2 DEF Copies
<1>3. ASSUME NEW z \in Tokens PROVE Claims(w, z) = Claims(v, z) + Only(z, t, n)
  <2> DEFINE F == OfToken(v.traderBalances, z)
             G == OfToken(w.traderBalances, z)
             H == OfToken(v.bucket, z)
  <2>1. /\ SumFunction(F) \in Int
        /\ SumFunction(G) = SumFunction(F) + Only(z, t, n)
    <3> DEFINE f == v.traderBalances
               g == w.traderBalances
    <3>1. g \in [Accounts \X Tokens -> Int] /\ Bumped(g, f, <<a, t>>, n)
      BY DEF Vaults
    <3>2. IsFiniteSet(Accounts \X Tokens) /\ f \in [Accounts \X Tokens -> Int]
      BY <1>1, KeysFinite
    <3> HIDE DEF f, g
    <3>3. More(SumFunction(OfToken(g, z)), SumFunction(OfToken(f, z)), Only(z, t, n))
      BY <3>1, <3>2, TokenSum, Zenon
    <3> QED BY <3>3 DEF f, g, More
  <2>2. SumFunction(H) \in Int
    <3>1. v.bucket \in [Buckets \X Tokens -> Int]  BY <1>1 DEF Vaults
    <3>2. H \in [Buckets \X Tokens -> Int]  BY <3>1 DEF OfToken
    <3> HIDE DEF H
    <3> QED BY <3>2, KeysFinite, SumFunctionInt
  <2>3. /\ Claims(v, z) = SumFunction(H) + SumFunction(F)
        /\ Claims(w, z) = SumFunction(H) + SumFunction(G)
    BY DEF Claims
  <2> HIDE DEF F, G, H
  <2>4. CASE z = t  BY <2>1, <2>2, <2>3, <2>4 DEF Only
  <2>5. CASE z # t  BY <2>1, <2>2, <2>3, <2>5 DEF Only
  <2> QED BY <2>4, <2>5
<1> QED BY <1>2, <1>3 DEF Shift, Kept

\* The two books an operation on a balance writes.
Written(v, a, t, n, list) ==
    [v EXCEPT !.traderBalances[<<a, t>>] = n, !.traderTokens[a] = list]

Wrote(v, w, a, t, n, list) ==
    /\ w \in Vaults
    /\ w.traderBalances = [v.traderBalances EXCEPT ![<<a, t>>] = n]
    /\ w.traderTokens = [v.traderTokens EXCEPT ![a] = list]
    /\ w.bucket = v.bucket /\ w.debt = v.debt /\ w.hlpDebt = v.hlpDebt
    /\ w.globalDebt = v.globalDebt /\ w.totalAmount = v.totalAmount /\ w.onHold = v.onHold

\* Writing both books.
LEMMA WriteBalance ==
    ASSUME NEW v \in Vaults, NEW a \in Accounts, NEW t \in Tokens, NEW n \in Nat,
           NEW list \in Seq(Tokens), NEW w, w = Written(v, a, t, n, list)
    PROVE  Wrote(v, w, a, t, n, list)
<1> DEFINE tb == [v.traderBalances EXCEPT ![<<a, t>>] = n]
           tt == [v.traderTokens EXCEPT ![a] = list]
<1>1. tb \in [Accounts \X Tokens -> Nat] /\ tt \in [Accounts -> Seq(Tokens)]  BY DEF Vaults
<1>2. w = [v EXCEPT !.traderBalances = tb, !.traderTokens = tt]  BY DEF Written
<1> HIDE DEF tb, tt
<1>3. /\ w \in Vaults /\ w.traderBalances = tb /\ w.traderTokens = tt
      /\ w.bucket = v.bucket /\ w.debt = v.debt /\ w.hlpDebt = v.hlpDebt
      /\ w.globalDebt = v.globalDebt /\ w.totalAmount = v.totalAmount /\ w.onHold = v.onHold
  BY <1>1, <1>2 DEF Vaults
<1> QED BY <1>3 DEF tb, tt, Wrote

Increased(v, w, a, t, n) ==
    /\ Shift(v, w, t, n)
    /\ w.traderBalances = [v.traderBalances EXCEPT ![<<a, t>>] = @ + n]
    /\ w.bucket = v.bucket /\ w.debt = v.debt /\ w.hlpDebt = v.hlpDebt

\* increaseTraderBalance: a token joins the list with its first balance,
LEMMA IncreaseFacts ==
    ASSUME NEW v, Kept(v), NEW a \in Accounts, NEW t \in Tokens, NEW n \in Nat,
           NEW w, w = IncreaseTrader(v, a, t, n)
    PROVE  Increased(v, w, a, t, n)
<1> DEFINE list == v.traderTokens[a]
           old == v.traderBalances[<<a, t>>]
           new == IF old = 0 THEN Append(list, t) ELSE list
<1>1. /\ v \in Vaults /\ v.traderBalances \in [Accounts \X Tokens -> Nat]
      /\ v.traderTokens \in [Accounts -> Seq(Tokens)] /\ list \in Seq(Tokens) /\ old \in Nat
  BY DEF Kept, Vaults
<1>2. Elems(list) = Held(v, a) /\ Distinct(list)  BY DEF Kept, Copies
<1>3. CASE n = 0
  <2>1. w = v  BY <1>3 DEF IncreaseTrader
  <2>2. v.traderBalances = [v.traderBalances EXCEPT ![<<a, t>>] = @ + n]
    <3>1. old + n = old  BY <1>1, <1>3
    <3> QED BY <1>1, <3>1
  <2>3. \A z \in Tokens : Claims(v, z) \in Int  BY <1>1, ClaimsNat
  <2>4. Shift(v, v, t, n)  BY <1>3, <2>3 DEF Shift, Only
  <2> QED BY <2>1, <2>2, <2>4 DEF Increased
<1>4. CASE n # 0
  <2>1. t \in Elems(list) <=> old # 0  BY <1>1, <1>2 DEF Held
  <2>2. new \in Seq(Tokens) /\ Distinct(new) /\ Elems(new) = Elems(list) \cup {t}
    <3>1. CASE old = 0
      <4>1. /\ Append(list, t) \in Seq(Tokens) /\ Distinct(Append(list, t))
            /\ Elems(Append(list, t)) = Elems(list) \cup {t}
        BY <1>1, <1>2, <2>1, <3>1, ListAppend
      <4> QED BY <3>1, <4>1
    <3>2. CASE old # 0  BY <1>1, <1>2, <2>1, <3>2
    <3> QED BY <3>1, <3>2
  <2>3. w = Written(v, a, t, old + n, new)  BY <1>4 DEF IncreaseTrader, Written
  <2> DEFINE m == old + n
  <2>10. m \in Nat /\ w = Written(v, a, t, m, new)  BY <1>1, <2>3
  <2> HIDE DEF new, list, m
  <2>11. Wrote(v, w, a, t, m, new)  BY <1>1, <2>2, <2>10, WriteBalance, Zenon
  <2>4. /\ w \in Vaults
        /\ w.traderBalances = [v.traderBalances EXCEPT ![<<a, t>>] = @ + n]
        /\ w.traderTokens = [v.traderTokens EXCEPT ![a] = new]
        /\ w.bucket = v.bucket /\ w.debt = v.debt /\ w.hlpDebt = v.hlpDebt
        /\ w.globalDebt = v.globalDebt /\ w.totalAmount = v.totalAmount /\ w.onHold = v.onHold
    BY <2>11 DEF m, Wrote
  <2>5. w.traderTokens[a] = new /\ \A b \in Accounts : b # a => w.traderTokens[b] = v.traderTokens[b]
    BY <1>1, <2>4
  <2>6. Held(w, a) = Held(v, a) \cup {t}
    <3>1. w.traderBalances[<<a, t>>] > 0  BY <1>1, <1>4, <2>4
    <3>2. \A z \in Tokens : z # t => w.traderBalances[<<a, z>>] = v.traderBalances[<<a, z>>]
      BY <1>1, <2>4
    <3> QED BY <3>1, <3>2 DEF Held
  <2>8. Bumped(w.traderBalances, v.traderBalances, <<a, t>>, n)  BY <1>1, <2>4 DEF Bumped
  <2>9. Elems(w.traderTokens[a]) = Held(w, a) /\ Distinct(w.traderTokens[a])
    BY <1>2, <2>2, <2>5, <2>6 DEF list
  <2>7. Shift(v, w, t, n)
    <3> DEFINE d == n
    <3>1. d \in Int /\ Bumped(w.traderBalances, v.traderBalances, <<a, t>>, d)  BY <2>8
    <3> HIDE DEF d
    <3>2. Shift(v, w, t, d)  BY <2>4, <2>5, <2>9, <3>1, BalanceFacts
    <3> QED BY <3>2 DEF d
  <2> QED BY <2>4, <2>7 DEF Increased
<1> QED BY <1>3, <1>4

Deducted(v, w, a, t, n) ==
    /\ Shift(v, w, t, -n)
    /\ w.traderBalances = [v.traderBalances EXCEPT ![<<a, t>>] = @ - n]
    /\ w.bucket = v.bucket /\ w.debt = v.debt /\ w.hlpDebt = v.hlpDebt

\* decreaseTraderBalance: and leaves it with its last.
LEMMA DeductFacts ==
    ASSUME NEW v, Kept(v), NEW a \in Accounts, NEW t \in Tokens, NEW n \in Nat,
           n <= v.traderBalances[<<a, t>>], NEW w, w = DeductTrader(v, a, t, n)
    PROVE  Deducted(v, w, a, t, n)
<1> DEFINE list == v.traderTokens[a]
           old == v.traderBalances[<<a, t>>]
           new == IF old = n THEN WithoutToken(list, t) ELSE list
<1>1. /\ v \in Vaults /\ v.traderBalances \in [Accounts \X Tokens -> Nat]
      /\ v.traderTokens \in [Accounts -> Seq(Tokens)] /\ list \in Seq(Tokens) /\ old \in Nat
  BY DEF Kept, Vaults
<1>2. Elems(list) = Held(v, a) /\ Distinct(list)  BY DEF Kept, Copies
<1>3. CASE n = 0
  <2>1. w = v  BY <1>3 DEF DeductTrader
  <2>2. v.traderBalances = [v.traderBalances EXCEPT ![<<a, t>>] = @ - n]
    <3>1. old - n = old  BY <1>1, <1>3
    <3> QED BY <1>1, <3>1
  <2>3. \A z \in Tokens : Claims(v, z) \in Int  BY <1>1, ClaimsNat
  <2>4. Shift(v, v, t, -n)  BY <1>3, <2>3 DEF Shift, Only
  <2> QED BY <2>1, <2>2, <2>4 DEF Deducted
<1>4. CASE n # 0
  <2>1. t \in Elems(list)  BY <1>1, <1>2, <1>4 DEF Held
  <2>2. /\ new \in Seq(Tokens) /\ Distinct(new)
        /\ Elems(new) = IF old = n THEN Elems(list) \ {t} ELSE Elems(list)
    <3>1. CASE old = n
      <4> DEFINE i == CHOOSE j \in 1..Len(list) : list[j] = t
      <4>1. i \in 1..Len(list) /\ list[i] = t  BY <2>1 DEF Elems
      <4>2. WithoutToken(list, t) = Popped(list, i)  BY DEF WithoutToken, Popped
      <4> HIDE DEF i, list
      <4>3. /\ Popped(list, i) \in Seq(Tokens) /\ Distinct(Popped(list, i))
            /\ Elems(Popped(list, i)) = Elems(list) \ {t}
        BY <1>1, <1>2, <4>1, ListRemove
      <4> QED BY <3>1, <4>2, <4>3
    <3>2. CASE old # n  BY <1>1, <1>2, <3>2
    <3> QED BY <3>1, <3>2
  <2>3. w = Written(v, a, t, old - n, new)  BY <1>4 DEF DeductTrader, Written
  <2> DEFINE m == old - n
  <2>10. m \in Nat /\ w = Written(v, a, t, m, new)  BY <1>1, <2>3
  <2> HIDE DEF new, list, m
  <2>11. Wrote(v, w, a, t, m, new)  BY <1>1, <2>2, <2>10, WriteBalance, Zenon
  <2>4. /\ w \in Vaults
        /\ w.traderBalances = [v.traderBalances EXCEPT ![<<a, t>>] = @ - n]
        /\ w.traderTokens = [v.traderTokens EXCEPT ![a] = new]
        /\ w.bucket = v.bucket /\ w.debt = v.debt /\ w.hlpDebt = v.hlpDebt
        /\ w.globalDebt = v.globalDebt /\ w.totalAmount = v.totalAmount /\ w.onHold = v.onHold
    BY <2>11 DEF m, Wrote
  <2>5. w.traderTokens[a] = new /\ \A b \in Accounts : b # a => w.traderTokens[b] = v.traderTokens[b]
    BY <1>1, <2>4
  <2>6. Held(w, a) = IF old = n THEN Held(v, a) \ {t} ELSE Held(v, a)
    <3>1. w.traderBalances[<<a, t>>] = old - n  BY <1>1, <2>4
    <3>2. \A z \in Tokens : z # t => w.traderBalances[<<a, z>>] = v.traderBalances[<<a, z>>]
      BY <1>1, <2>4
    <3>3. t \in Held(v, a)  BY <1>1, <1>4 DEF Held
    <3>4. t \in Held(w, a) <=> old # n  BY <1>1, <3>1 DEF Held
    <3>5. \A z \in Tokens : z # t => (z \in Held(w, a) <=> z \in Held(v, a))
      BY <3>2 DEF Held
    <3> QED BY <3>3, <3>4, <3>5 DEF Held
  <2>7. Bumped(w.traderBalances, v.traderBalances, <<a, t>>, -n)  BY <1>1, <2>4 DEF Bumped
  <2>9. Elems(w.traderTokens[a]) = Held(w, a) /\ Distinct(w.traderTokens[a])
    BY <1>2, <2>2, <2>5, <2>6 DEF list
  <2>8. Shift(v, w, t, -n)
    <3> DEFINE d == -n
    <3>1. d \in Int /\ Bumped(w.traderBalances, v.traderBalances, <<a, t>>, d)  BY <2>7
    <3> HIDE DEF d
    <3>2. Shift(v, w, t, d)  BY <2>4, <2>5, <2>9, <3>1, BalanceFacts
    <3> QED BY <3>2 DEF d
  <2> QED BY <2>4, <2>8 DEF Deducted
<1> QED BY <1>3, <1>4

\* Account a owes n more of kind k.
Owing(v, w, k, a, n) ==
    /\ Moves(v, w)
    /\ w.debt = [v.debt EXCEPT ![<<k, a>>] = @ + n]
    /\ w.bucket = v.bucket /\ w.traderBalances = v.traderBalances /\ w.hlpDebt = v.hlpDebt

\* A debt is added to both books of it.
LEMMA AddDebtFacts ==
    ASSUME NEW v, Kept(v), NEW k \in Debts, NEW a \in Accounts, NEW n \in Int,
           v.debt[<<k, a>>] + n >= 0, NEW w, w = AddDebt(v, k, a, n)
    PROVE  Owing(v, w, k, a, n)
<1> DEFINE d == v.debt
           y == <<k, a>>
           e == [d EXCEPT ![y] = d[y] + n]
           g == v.globalDebt
           h == [g EXCEPT ![k] = g[k] + n]
<1>1. /\ v \in Vaults /\ d \in [Debts \X Accounts -> Nat] /\ g \in [Debts -> Nat]
      /\ y \in Debts \X Accounts /\ d[y] \in Nat /\ d[y] + n \in Nat
  BY DEF Kept, Vaults
<1>2. \A j \in Debts : g[j] = SumFunction(DebtsOf(d, j))  BY DEF Kept, Copies
<1>3. w = [v EXCEPT !.debt = e, !.globalDebt = h]  BY DEF AddDebt
<1>4. e \in [Debts \X Accounts -> Nat] /\ e[y] = d[y] + n /\ \A x \in Debts \X Accounts : x # y => e[x] = d[x]
  BY <1>1
<1>5. \A j \in Debts : h[j] = IF j = k THEN g[j] + n ELSE g[j]  BY <1>1
<1> HIDE DEF d, e, g, h, y
<1>6. ASSUME NEW j \in Debts
      PROVE  SumFunction(DebtsOf(e, j)) = SumFunction(DebtsOf(d, j)) + IF j = k THEN n ELSE 0
  <2> DEFINE F == DebtsOf(d, j)
             G == DebtsOf(e, j)
             D == Debts \X Accounts
  <2>1. /\ F = [x \in D |-> IF x[1] = j THEN d[x] ELSE 0]
        /\ G = [x \in D |-> IF x[1] = j THEN e[x] ELSE 0]
    BY DEF DebtsOf
  <2>2. y[1] = k /\ y \in D /\ IsFiniteSet(D)  BY <1>1, KeysFinite DEF y
  <2> HIDE DEF F, G, D
  <2>3. F \in [D -> Int] /\ G \in [D -> Int]  BY <1>1, <1>4, <2>1 DEF D
  <2>4. \A x \in D : x # y => G[x] = F[x]  BY <1>4, <2>1 DEF D
  <2>5. SumFunction(G) = SumFunction(F) + G[y] - F[y]
    BY <2>2, <2>3, <2>4, SumFunctionChange
  <2>6. SumFunction(F) \in Int  BY <2>2, <2>3, SumFunctionInt
  <2>7. G[y] - F[y] = (IF j = k THEN n ELSE 0) /\ G[y] \in Int /\ F[y] \in Int
    BY <1>1, <1>4, <2>1, <2>2, <2>3
  <2> QED BY <2>5, <2>6, <2>7 DEF F, G
<1>7. ASSUME NEW j \in Debts PROVE h[j] = SumFunction(DebtsOf(e, j)) /\ h[j] \in Nat
  <2>1. g[j] \in Nat /\ g[j] = SumFunction(DebtsOf(d, j))  BY <1>1, <1>2
  <2>2. h[j] = SumFunction(DebtsOf(e, j))  BY <1>5, <1>6, <2>1
  <2>3. SumFunction(DebtsOf(e, j)) \in Nat
    <3> DEFINE G == DebtsOf(e, j)
    <3>1. G \in [Debts \X Accounts -> Nat]  BY <1>4 DEF DebtsOf
    <3> HIDE DEF G
    <3>2. SumFunction(G) \in Nat  BY <3>1, KeysFinite, SumFunctionNat
    <3> QED BY <3>2 DEF G
  <2> QED BY <2>2, <2>3
<1>8. h \in [Debts -> Nat]
  <2>1. h = [j \in Debts |-> h[j]]  BY <1>1 DEF h
  <2> QED BY <1>7, <2>1
<1>9. /\ w \in Vaults /\ w.debt = e /\ w.globalDebt = h
      /\ w.bucket = v.bucket /\ w.traderBalances = v.traderBalances /\ w.hlpDebt = v.hlpDebt
      /\ w.traderTokens = v.traderTokens /\ w.totalAmount = v.totalAmount /\ w.onHold = v.onHold
  BY <1>1, <1>3, <1>4, <1>8 DEF Vaults
<1>10. Copies(w)
  <2>1. \A j \in Debts : w.globalDebt[j] = SumFunction(DebtsOf(w.debt, j))  BY <1>7, <1>9
  <2> QED BY <1>9, <2>1 DEF Kept, Copies, Held
<1>11. \A z \in Tokens : Claims(w, z) = Claims(v, z)  BY <1>9 DEF Claims
<1>12. Moves(v, w)  BY <1>9, <1>10, <1>11 DEF Moves, Kept
<1> QED BY <1>9, <1>12 DEF Owing, d, e, y

Lending(v, w, n) ==
    /\ Moves(v, w)
    /\ w.hlpDebt = v.hlpDebt + n
    /\ w.bucket = v.bucket /\ w.traderBalances = v.traderBalances /\ w.debt = v.debt

\* What the pool lent.
LEMMA AddHlpDebtFacts ==
    ASSUME NEW v, Kept(v), NEW n \in Int, v.hlpDebt + n >= 0, NEW w, w = AddHlpDebt(v, n)
    PROVE  Lending(v, w, n)
<1>1. v \in Vaults /\ v.hlpDebt + n \in Nat  BY DEF Kept, Vaults
<1>2. /\ w \in Vaults /\ w.hlpDebt = v.hlpDebt + n
      /\ w.debt = v.debt /\ w.globalDebt = v.globalDebt
      /\ w.bucket = v.bucket /\ w.traderBalances = v.traderBalances
      /\ w.traderTokens = v.traderTokens /\ w.totalAmount = v.totalAmount /\ w.onHold = v.onHold
  BY <1>1 DEF AddHlpDebt, Vaults
<1>3. Copies(w)  BY <1>2 DEF Kept, Copies, Held
<1>4. \A z \in Tokens : Claims(w, z) = Claims(v, z)  BY <1>2 DEF Claims
<1> QED BY <1>2, <1>3, <1>4 DEF Lending, Moves, Kept

-----------------------------------------------------------------------------
\* What RepayAmount returns.
IsRepay(r, payer, value) ==
    /\ r.amount \in Nat /\ r.amount <= payer
    /\ r.value \in Nat /\ r.value <= value
    /\ r.amount = payer \/ r.value = value
    /\ value = 0 => r.amount = 0
    /\ payer = 0 => r.value = 0

\* A conversion rounds down:
LEMMA DivBound ==
    ASSUME NEW x \in Nat, NEW y \in Nat \ {0}
    PROVE  /\ x \div y \in Nat
           /\ (x \div y) * y <= x /\ x < (x \div y) * y + y
OBVIOUS

\* a price times the quotient is at most the dividend.
LEMMA DivAtMost ==
    ASSUME NEW x \in Nat, NEW y \in Nat \ {0}, NEW z \in Nat, x <= z * y
    PROVE  x \div y <= z
<1> DEFINE q == x \div y
<1>1. q \in Nat /\ q * y <= x  BY DivBound
<1> HIDE DEF q
<1>2. CASE q <= z  BY <1>2 DEF q
<1>3. CASE q >= z + 1
  <2>1. q * y >= (z + 1) * y  BY <1>1, <1>3
  <2>2. (z + 1) * y = z * y + y /\ z * y \in Int /\ q * y \in Int  BY <1>1
  <2>3. FALSE  BY <1>1, <2>1, <2>2
  <2> QED BY <2>3
<1> QED BY <1>1, <1>2, <1>3

\* getRepayAmount: never more than the payer has or the value to be paid.
LEMMA RepayFacts ==
    ASSUME NEW payer \in Nat, NEW value \in Nat, NEW p \in Nat \ {0},
           NEW r, r = RepayAmount(payer, value, p)
    PROVE  IsRepay(r, payer, value)
<1> DEFINE q == (value * Unit) \div p
           u == (payer * p) \div Unit
<1>1. Unit \in Nat \ {0}  BY SettlementAssumption
<1>2. value * Unit \in Nat /\ payer * p \in Nat  BY <1>1
<1>3. q \in Nat /\ q * p <= value * Unit
  <2> DEFINE x == value * Unit
  <2>1. x \in Nat  BY <1>2
  <2> HIDE DEF x
  <2>2. x \div p \in Nat /\ (x \div p) * p <= x  BY <2>1, DivBound
  <2> QED BY <2>2 DEF x
<1>4. u \in Nat
  <2> DEFINE x == payer * p
  <2>1. x \in Nat  BY <1>2
  <2> HIDE DEF x
  <2>2. x \div Unit \in Nat  BY <1>1, <2>1, DivBound
  <2> QED BY <2>2 DEF x
<1>5. value = 0 => q = 0
  <2>1. 0 \div p = 0  BY DivAtMost, DivBound
  <2>2. value = 0 => value * Unit = 0  BY <1>1
  <2> QED BY <2>1, <2>2
<1>6. payer = 0 => u = 0
  <2>1. 0 \div Unit = 0  BY <1>1, DivAtMost, DivBound
  <2>2. payer = 0 => payer * p = 0  OBVIOUS
  <2> QED BY <2>1, <2>2
<1>7. ASSUME payer <= q PROVE u <= value
  <2>1. payer * p <= q * p
    <3> HIDE DEF q
    <3> QED BY <1>3, <1>7
  <2>2. payer * p <= value * Unit
    <3>1. q * p \in Int  BY <1>3
    <3> HIDE DEF q
    <3> QED BY <1>2, <1>3, <2>1, <3>1
  <2> DEFINE x == payer * p
  <2>3. x \in Nat /\ x <= value * Unit  BY <1>2, <2>2
  <2> HIDE DEF x
  <2>4. x \div Unit <= value  BY <1>1, <2>3, DivAtMost
  <2> QED BY <2>4 DEF x
<1>8. r = IF payer > q THEN [amount |-> q, value |-> value] ELSE [amount |-> payer, value |-> u]
  BY DEF RepayAmount
<1> HIDE DEF q, u
<1>9. CASE payer > q  BY <1>3, <1>5, <1>8, <1>9 DEF IsRepay
<1>10. CASE payer <= q  BY <1>3, <1>4, <1>5, <1>6, <1>7, <1>8, <1>10 DEF IsRepay
<1> QED BY <1>3, <1>9, <1>10

\* At prices that make every conversion exact.
LEMMA RepayExact ==
    ASSUME NEW payer \in Nat, NEW value \in Nat, NEW r, r = RepayAmount(payer, value, Unit)
    PROVE  r.amount = r.value
<1>1. Unit \in Nat \ {0}  BY SettlementAssumption
<1>2. ASSUME NEW x \in Nat PROVE (x * Unit) \div Unit = x
  <2> DEFINE z == x * Unit
  <2>1. z \in Nat /\ z <= x * Unit  BY <1>1
  <2> HIDE DEF z
  <2>2. z \div Unit <= x /\ z \div Unit \in Nat /\ z < (z \div Unit) * Unit + Unit
    BY <1>1, <2>1, DivAtMost, DivBound
  <2> DEFINE q == z \div Unit
  <2>3. q \in Nat /\ q <= x /\ z < q * Unit + Unit  BY <2>2
  <2> HIDE DEF q
  <2>4. z < (q + 1) * Unit
    <3>1. (q + 1) * Unit = q * Unit + Unit  BY <1>1, <2>3
    <3> QED BY <2>3, <3>1
  <2>5. ASSUME q + 1 <= x PROVE FALSE
    <3>1. (q + 1) * Unit <= x * Unit  BY <1>1, <2>3, <2>5
    <3> QED BY <1>1, <2>3, <2>4, <3>1 DEF z
  <2>6. q = x  BY <2>3, <2>5
  <2> QED BY <2>6 DEF q, z
<1>3. (value * Unit) \div Unit = value /\ (payer * Unit) \div Unit = payer  BY <1>2
<1> QED BY <1>3 DEF RepayAmount

\* The developers' share is part of the fee.
LEMMA DevShareFacts ==
    ASSUME NEW n \in Nat
    PROVE  DevShare(n) \in Nat /\ DevShare(n) <= n
<1>1. DevNum \in Nat /\ DevDen \in Nat \ {0} /\ DevNum <= DevDen  BY SettlementAssumption
<1> DEFINE x == n * DevNum
<1>2. x \in Nat /\ x <= n * DevDen  BY <1>1
<1> HIDE DEF x
<1>3. x \div DevDen \in Nat /\ x \div DevDen <= n  BY <1>1, <1>2, DivBound, DivAtMost
<1> QED BY <1>3 DEF DevShare, x

-----------------------------------------------------------------------------
(***************************************************************************)
(* Account a pays. The reserve of funding fees grows only when the pool is *)
(* owed nothing any more.                                                  *)
(***************************************************************************)
ReserveGrows(v, w, t) == w.bucket[<<"fundingFeeReserve", t>>] > v.bucket[<<"fundingFeeReserve", t>>]
Paying(v, w, a) ==
    /\ Moves(v, w)
    /\ \A t \in Tokens : w.traderBalances[<<a, t>>] <= v.traderBalances[<<a, t>>]
    /\ \A k \in Debts, b \in Accounts : w.debt[<<k, b>>] <= v.debt[<<k, b>>]
    /\ w.hlpDebt <= v.hlpDebt
    /\ \A t \in Tokens : w.bucket[<<"fundingFeeReserve", t>>] >= v.bucket[<<"fundingFeeReserve", t>>]
    /\ \A t \in Tokens : ReserveGrows(v, w, t) => w.hlpDebt = 0
\* It has nothing left of t, or owes nothing of kind k.
Clear(w, k, a, t) == w.debt[<<k, a>>] = 0 \/ w.traderBalances[<<a, t>>] = 0

\* The entries of a vault are naturals.
LEMMA Entries ==
    ASSUME NEW v, Kept(v)
    PROVE  /\ \A k \in Buckets, t \in Tokens : v.bucket[<<k, t>>] \in Nat
           /\ \A a \in Accounts, t \in Tokens : v.traderBalances[<<a, t>>] \in Nat
           /\ \A k \in Debts, a \in Accounts : v.debt[<<k, a>>] \in Nat
           /\ v.hlpDebt \in Nat
           /\ \A t \in Tokens : v.totalAmount[t] \in Nat /\ v.onHold[t] \in Nat
           /\ \A t \in Tokens : v.bucket[<<"fundingFeeReserve", t>>] \in Nat
           /\ \A t \in Tokens : v.bucket[<<"hlpLiquidity", t>>] \in Nat
<1>1. v \in Vaults  BY DEF Kept
<1> QED BY <1>1 DEF Vaults, Buckets

\* Relation Paying is transitive,
LEMMA PayingPaying ==
    ASSUME NEW v, Kept(v), NEW a \in Accounts, NEW w, Paying(v, w, a), NEW x, Paying(w, x, a)
    PROVE  Paying(v, x, a)
<1>1. Kept(w) /\ Kept(x)  BY DEF Paying, Moves
<1>2. Moves(v, x)  BY MovesMoves DEF Paying
<1>3. ASSUME NEW t \in Tokens
      PROVE  /\ x.traderBalances[<<a, t>>] <= v.traderBalances[<<a, t>>]
             /\ x.bucket[<<"fundingFeeReserve", t>>] >= v.bucket[<<"fundingFeeReserve", t>>]
             /\ ReserveGrows(v, x, t) => x.hlpDebt = 0
  <2> DEFINE b == v.bucket[<<"fundingFeeReserve", t>>]
             c == w.bucket[<<"fundingFeeReserve", t>>]
             d == x.bucket[<<"fundingFeeReserve", t>>]
  <2>1. /\ b \in Nat /\ c \in Nat /\ d \in Nat /\ v.hlpDebt \in Nat /\ w.hlpDebt \in Nat /\ x.hlpDebt \in Nat
        /\ v.traderBalances[<<a, t>>] \in Nat /\ w.traderBalances[<<a, t>>] \in Nat
        /\ x.traderBalances[<<a, t>>] \in Nat
    BY <1>1, Entries
  <2>2. /\ c >= b /\ d >= c /\ x.hlpDebt <= w.hlpDebt
        /\ c > b => w.hlpDebt = 0
        /\ d > c => x.hlpDebt = 0
    BY DEF Paying, ReserveGrows
  <2>3. x.traderBalances[<<a, t>>] <= v.traderBalances[<<a, t>>]  BY <2>1 DEF Paying
  <2>4. ReserveGrows(v, x, t) <=> d > b  BY DEF ReserveGrows
  <2> HIDE DEF b, c, d
  <2>5. d >= b /\ (d > b => x.hlpDebt = 0)  BY <2>1, <2>2
  <2> QED BY <2>3, <2>4, <2>5 DEF b, d
<1>4. ASSUME NEW k \in Debts, NEW b \in Accounts PROVE x.debt[<<k, b>>] <= v.debt[<<k, b>>]
  <2>1. x.debt[<<k, b>>] \in Nat /\ w.debt[<<k, b>>] \in Nat /\ v.debt[<<k, b>>] \in Nat
    BY <1>1, Entries
  <2> QED BY <2>1 DEF Paying
<1>5. x.hlpDebt <= v.hlpDebt
  <2>1. x.hlpDebt \in Nat /\ w.hlpDebt \in Nat /\ v.hlpDebt \in Nat
    BY <1>1, Entries
  <2> QED BY <2>1 DEF Paying
<1> QED BY <1>2, <1>3, <1>4, <1>5 DEF Paying

\* keeps what is cleared,
LEMMA PayingClear ==
    ASSUME NEW v, Kept(v), NEW a \in Accounts, NEW w, Paying(v, w, a),
           NEW k \in Debts, NEW t \in Tokens, Clear(v, k, a, t)
    PROVE  Clear(w, k, a, t)
<1>1. Kept(w)  BY DEF Paying, Moves
<1>2. /\ v.debt[<<k, a>>] \in Nat /\ v.traderBalances[<<a, t>>] \in Nat
      /\ w.debt[<<k, a>>] \in Nat /\ w.traderBalances[<<a, t>>] \in Nat
  BY <1>1, Entries
<1>3. w.debt[<<k, a>>] <= v.debt[<<k, a>>] /\ w.traderBalances[<<a, t>>] <= v.traderBalances[<<a, t>>]
  BY DEF Paying
<1> QED BY <1>2, <1>3 DEF Clear

\* and is reflexive.
LEMMA PayingSame ==
    ASSUME NEW v, Kept(v), NEW a \in Accounts
    PROVE  Paying(v, v, a)
<1>1. Moves(v, v)  BY MovesSame
<1>2. /\ \A k \in Debts, b \in Accounts : v.debt[<<k, b>>] \in Nat
      /\ \A t \in Tokens : v.traderBalances[<<a, t>>] \in Nat
      /\ v.hlpDebt \in Nat /\ \A t \in Tokens : v.bucket[<<"fundingFeeReserve", t>>] \in Nat
  BY Entries
<1> QED BY <1>1, <1>2 DEF Paying, ReserveGrows

-----------------------------------------------------------------------------
(***************************************************************************)
(* The payments. Gave(v, w, a, t, n): a gave n of its tokens t to someone. *)
(***************************************************************************)
SameReserves(v, w) ==
    \A t \in Tokens : w.bucket[<<"fundingFeeReserve", t>>] = v.bucket[<<"fundingFeeReserve", t>>]
Gave(v, w, a, t, n) ==
    /\ Moves(v, w)
    /\ w.traderBalances = [v.traderBalances EXCEPT ![<<a, t>>] = @ - n]
    /\ w.debt = v.debt /\ w.hlpDebt = v.hlpDebt

\* To one bucket.
LEMMA GiveOne ==
    ASSUME NEW v, Kept(v), NEW a \in Accounts, NEW t \in Tokens, NEW k \in Buckets, NEW n \in Nat,
           n <= v.traderBalances[<<a, t>>],
           NEW u, u = DeductTrader(v, a, t, n), NEW w, w = Credit(u, k, t, n)
    PROVE  /\ Gave(v, w, a, t, n)
           /\ w.bucket = [v.bucket EXCEPT ![<<k, t>>] = @ + n]
<1>1. Deducted(v, u, a, t, n)  BY DeductFacts
<1>2. Kept(u) /\ u.bucket = v.bucket  BY <1>1 DEF Deducted, Shift
<1>3. n \in Int /\ u.bucket[<<k, t>>] + n >= 0
  <2>1. u.bucket[<<k, t>>] \in Nat  BY <1>2, Entries
  <2> QED BY <2>1
<1>4. Credited(u, w, k, t, n)  BY <1>2, <1>3, CreditFacts
<1>5. Moves(v, w)
  <2> DEFINE m == -n
             z == m + n
  <2>1. m \in Int /\ n \in Int /\ z = 0  OBVIOUS
  <2>2. Shift(v, u, t, m) /\ Shift(u, w, t, n)  BY <1>1, <1>4 DEF Deducted, Credited
  <2> HIDE DEF m
  <2>3. Shift(v, w, t, m + n)  BY <2>1, <2>2, ShiftShift, Zenon
  <2>4. Shift(v, w, t, 0)  BY <2>1, <2>3
  <2> QED BY <2>4, ShiftZero
<1> QED BY <1>1, <1>4, <1>5 DEF Gave, Deducted, Credited

\* To the developers and to another bucket.
LEMMA GiveTwo ==
    ASSUME NEW v, Kept(v), NEW a \in Accounts, NEW t \in Tokens, NEW k \in Buckets,
           NEW n \in Nat, NEW dev \in Nat, dev <= n,
           n <= v.traderBalances[<<a, t>>],
           NEW u, u = DeductTrader(v, a, t, n), NEW x, x = Credit(u, "devFees", t, dev),
           NEW w, w = Credit(x, k, t, n - dev)
    PROVE  /\ Gave(v, w, a, t, n)
           /\ k # "fundingFeeReserve" => SameReserves(v, w)
<1>1. Deducted(v, u, a, t, n)  BY DeductFacts
<1>2. Kept(u) /\ u.bucket = v.bucket  BY <1>1 DEF Deducted, Shift
<1>3. "devFees" \in Buckets /\ dev \in Int /\ u.bucket[<<"devFees", t>>] + dev >= 0
  <2>1. "devFees" \in Buckets  BY DEF Buckets
  <2>2. u.bucket[<<"devFees", t>>] \in Nat  BY <1>2, <2>1, Entries
  <2> QED BY <2>1, <2>2
<1>4. Credited(u, x, "devFees", t, dev)  BY <1>2, <1>3, CreditFacts
<1>5. Kept(x)  BY <1>4 DEF Credited, Shift
<1> DEFINE e == n - dev
<1>6. e \in Int /\ x.bucket[<<k, t>>] + e >= 0 /\ w = Credit(x, k, t, e)
  <2>1. x.bucket[<<k, t>>] \in Nat  BY <1>5, Entries
  <2> QED BY <2>1
<1> HIDE DEF e
<1>7. Credited(x, w, k, t, e)  BY <1>5, <1>6, CreditFacts
<1>8. Moves(v, w)
  <2> DEFINE m == -n
             p == m + dev
             z == p + e
  <2>1. m \in Int /\ dev \in Int /\ p \in Int /\ z = 0  BY DEF e
  <2>2. Shift(v, u, t, m) /\ Shift(u, x, t, dev) /\ Shift(x, w, t, e)
    BY <1>1, <1>4, <1>7 DEF Deducted, Credited
  <2> HIDE DEF m
  <2>3. Shift(v, x, t, p)  BY <2>1, <2>2, ShiftShift, Zenon
  <2> HIDE DEF p
  <2>4. Shift(v, w, t, z)  BY <1>6, <2>1, <2>2, <2>3, ShiftShift, Zenon
  <2>5. Shift(v, w, t, 0)  BY <2>1, <2>4
  <2> QED BY <2>5, ShiftZero
<1>9. k # "fundingFeeReserve" => SameReserves(v, w)
  <2> SUFFICES ASSUME k # "fundingFeeReserve", NEW z \in Tokens
               PROVE  w.bucket[<<"fundingFeeReserve", z>>] = v.bucket[<<"fundingFeeReserve", z>>]
    BY DEF SameReserves
  <2>1. <<"fundingFeeReserve", z>> \in Buckets \X Tokens  BY DEF Buckets
  <2>2. x.bucket = [u.bucket EXCEPT ![<<"devFees", t>>] = @ + dev]
        /\ w.bucket = [x.bucket EXCEPT ![<<k, t>>] = @ + e]
    BY <1>4, <1>7 DEF Credited
  <2>3. u.bucket \in [Buckets \X Tokens -> Nat]  BY <1>2 DEF Kept, Vaults
  <2> QED BY <1>2, <2>1, <2>2, <2>3
<1> QED BY <1>1, <1>4, <1>7, <1>8, <1>9 DEF Gave, Deducted, Credited

\* To another account.
LEMMA GiveAccount ==
    ASSUME NEW v, Kept(v), NEW a \in Accounts, NEW b \in Accounts, a # b, NEW t \in Tokens,
           NEW n \in Nat, n <= v.traderBalances[<<a, t>>],
           NEW w, w = Transfer(v, t, a, b, n)
    PROVE  /\ Moves(v, w)
           /\ \A z \in Tokens : w.traderBalances[<<a, z>>]
                  = IF z = t THEN v.traderBalances[<<a, t>>] - n ELSE v.traderBalances[<<a, z>>]
           /\ w.debt = v.debt /\ w.hlpDebt = v.hlpDebt /\ w.bucket = v.bucket
           /\ n = 0 => w = v
<1> DEFINE u == DeductTrader(v, a, t, n)
<1>1. Deducted(v, u, a, t, n)  BY DeductFacts
<1>2. w = IncreaseTrader(u, b, t, n) /\ (n = 0 => w = v)  BY DEF Transfer, DeductTrader, IncreaseTrader
<1> HIDE DEF u
<1>3. Kept(u)  BY <1>1 DEF Deducted, Shift
<1>4. Increased(u, w, b, t, n)  BY <1>2, <1>3, IncreaseFacts
<1>5. Moves(v, w)
  <2> DEFINE m == -n
  <2>1. m \in Int /\ n \in Int /\ m + n = 0  OBVIOUS
  <2>2. Shift(v, u, t, m) /\ Shift(u, w, t, n)  BY <1>1, <1>4 DEF Deducted, Increased
  <2> HIDE DEF m
  <2>3. Shift(v, w, t, m + n)  BY <2>1, <2>2, ShiftShift, Zenon
  <2>4. Shift(v, w, t, 0)  BY <2>1, <2>3
  <2> QED BY <2>4, ShiftZero
<1>6. ASSUME NEW z \in Tokens
      PROVE  w.traderBalances[<<a, z>>]
                 = IF z = t THEN v.traderBalances[<<a, t>>] - n ELSE v.traderBalances[<<a, z>>]
  <2>1. v.traderBalances \in [Accounts \X Tokens -> Nat]  BY DEF Kept, Vaults
  <2>2. u.traderBalances = [v.traderBalances EXCEPT ![<<a, t>>] = @ - n]
        /\ w.traderBalances = [u.traderBalances EXCEPT ![<<b, t>>] = @ + n]
    BY <1>1, <1>4 DEF Deducted, Increased
  <2> QED BY <2>1, <2>2
<1> QED BY <1>1, <1>2, <1>4, <1>5, <1>6 DEF Deducted, Increased

-----------------------------------------------------------------------------
(***************************************************************************)
(* One kind of debt is paid in one token.                                  *)
(***************************************************************************)
PaysOff(v, w, a, t, k, n, m) ==
    /\ Paying(v, w, a)
    /\ w.traderBalances = [v.traderBalances EXCEPT ![<<a, t>>] = @ - n]
    /\ w.debt = [v.debt EXCEPT ![<<k, a>>] = @ - m]
PayStep(v, w, a, t, k, price) ==
    \E n, m \in Nat : PaysOff(v, w, a, t, k, n, m) /\ (price[t] = Unit => n = m)

\* Tokens are given, and the pool may be repaid.
Giving(v, w, a, t, n) ==
    /\ Moves(v, w)
    /\ w.traderBalances = [v.traderBalances EXCEPT ![<<a, t>>] = @ - n]
    /\ w.debt = v.debt /\ w.hlpDebt <= v.hlpDebt
    /\ \A z \in Tokens :
          /\ w.bucket[<<"fundingFeeReserve", z>>] >= v.bucket[<<"fundingFeeReserve", z>>]
          /\ ReserveGrows(v, w, z) => w.hlpDebt = 0
\* Then the debt is reduced.
Ends(v, w, x, a, t, k, n, m) ==
    /\ PaysOff(v, x, a, t, k, n, m)
    /\ x.hlpDebt = w.hlpDebt
    /\ x.debt[<<k, a>>] = v.debt[<<k, a>>] - m
    /\ x.traderBalances[<<a, t>>] = v.traderBalances[<<a, t>>] - n

\* A payment and the debt it pays.
LEMMA PaidOff ==
    ASSUME NEW v, Kept(v), NEW a \in Accounts, NEW t \in Tokens, NEW k \in Debts,
           NEW n \in Nat, n <= v.traderBalances[<<a, t>>], NEW m \in Nat, m <= v.debt[<<k, a>>],
           NEW w, Giving(v, w, a, t, n), NEW x, x = AddDebt(w, k, a, -m)
    PROVE  Ends(v, w, x, a, t, k, n, m)
<1> DEFINE e == -m
<1>0. /\ Moves(v, w) /\ w.debt = v.debt /\ w.hlpDebt <= v.hlpDebt
      /\ w.traderBalances = [v.traderBalances EXCEPT ![<<a, t>>] = @ - n]
      /\ \A z \in Tokens :
            /\ w.bucket[<<"fundingFeeReserve", z>>] >= v.bucket[<<"fundingFeeReserve", z>>]
            /\ ReserveGrows(v, w, z) => w.hlpDebt = 0
  BY DEF Giving
<1>1. Kept(w)  BY <1>0 DEF Moves
<1>2. e \in Int /\ w.debt[<<k, a>>] + e >= 0 /\ x = AddDebt(w, k, a, e)
  <2>1. w.debt[<<k, a>>] \in Nat  BY <1>1, Entries
  <2> QED BY <1>0, <2>1
<1> HIDE DEF e
<1>3. Owing(w, x, k, a, e)  BY <1>1, <1>2, AddDebtFacts, Zenon
<1>4. /\ x.traderBalances = w.traderBalances /\ x.bucket = w.bucket /\ x.hlpDebt = w.hlpDebt
      /\ x.debt = [w.debt EXCEPT ![<<k, a>>] = @ + e] /\ Moves(w, x)
  BY <1>3 DEF Owing
<1>5. Moves(v, x)  BY <1>0, <1>4, MovesMoves
<1>6. /\ v.debt \in [Debts \X Accounts -> Nat]
      /\ v.traderBalances \in [Accounts \X Tokens -> Nat]
  BY DEF Kept, Vaults
<1>7. x.debt = [v.debt EXCEPT ![<<k, a>>] = @ - m]
  <2>1. v.debt[<<k, a>>] + e = v.debt[<<k, a>>] - m  BY <1>6 DEF e
  <2> QED BY <1>0, <1>4, <1>6, <2>1
<1>8. ASSUME NEW j \in Debts, NEW b \in Accounts PROVE x.debt[<<j, b>>] <= v.debt[<<j, b>>]
  BY <1>6, <1>7
<1>9. ASSUME NEW z \in Tokens PROVE x.traderBalances[<<a, z>>] <= v.traderBalances[<<a, z>>]
  BY <1>0, <1>4, <1>6
<1>10. Paying(v, x, a)  BY <1>0, <1>4, <1>5, <1>8, <1>9 DEF Paying, ReserveGrows
<1> QED BY <1>0, <1>4, <1>6, <1>7, <1>10 DEF PaysOff, Ends

\* A fee or loss that leaves the reserves alone.
LEMMA PayPlain ==
    ASSUME NEW v, Kept(v), NEW a \in Accounts, NEW t \in Tokens, NEW k \in Debts, NEW price,
           NEW r, IsRepay(r, v.traderBalances[<<a, t>>], v.debt[<<k, a>>]),
           price[t] = Unit => r.amount = r.value,
           NEW w, Gave(v, w, a, t, r.amount), SameReserves(v, w),
           NEW x, x = AddDebt(w, k, a, -r.value)
    PROVE  PayStep(v, x, a, t, k, price) /\ Clear(x, k, a, t)
<1> DEFINE n == r.amount
           m == r.value
<1>1. /\ n \in Nat /\ n <= v.traderBalances[<<a, t>>] /\ m \in Nat /\ m <= v.debt[<<k, a>>]
      /\ n = v.traderBalances[<<a, t>>] \/ m = v.debt[<<k, a>>]
  BY DEF IsRepay
<1>2. /\ Moves(v, w) /\ w.traderBalances = [v.traderBalances EXCEPT ![<<a, t>>] = @ - n]
      /\ w.debt = v.debt /\ w.hlpDebt = v.hlpDebt
      /\ x = AddDebt(w, k, a, -m)
  BY DEF Gave
<1>3. ASSUME NEW z \in Tokens
      PROVE  /\ w.bucket[<<"fundingFeeReserve", z>>] >= v.bucket[<<"fundingFeeReserve", z>>]
             /\ ReserveGrows(v, w, z) => w.hlpDebt = 0
  <2>1. v.bucket[<<"fundingFeeReserve", z>>] \in Nat  BY Entries
  <2> QED BY <2>1 DEF SameReserves, ReserveGrows
<1>4. price[t] = Unit => n = m  OBVIOUS
<1>5. w.hlpDebt <= v.hlpDebt
  <2>1. v.hlpDebt \in Nat  BY Entries
  <2> QED BY <1>2, <2>1
<1>9. Giving(v, w, a, t, n)  BY <1>2, <1>3, <1>5 DEF Giving
<1> HIDE DEF n, m
<1>10. Ends(v, w, x, a, t, k, n, m)  BY <1>1, <1>2, <1>9, PaidOff, Zenon
<1>6. /\ PaysOff(v, x, a, t, k, n, m)
      /\ x.debt[<<k, a>>] = v.debt[<<k, a>>] - m
      /\ x.traderBalances[<<a, t>>] = v.traderBalances[<<a, t>>] - n
  BY <1>10 DEF Ends
<1>7. PayStep(v, x, a, t, k, price)  BY <1>1, <1>4, <1>6 DEF PayStep
<1>8. v.debt[<<k, a>>] \in Nat /\ v.traderBalances[<<a, t>>] \in Nat  BY Entries
<1> QED BY <1>1, <1>6, <1>7, <1>8 DEF Clear

IsPrice(price) == price \in [Tokens -> Nat \ {0}]

\* What an account can pay of a value in one token.
LEMMA PayableFacts ==
    ASSUME NEW v, Kept(v), NEW a \in Accounts, NEW t \in Tokens, NEW value \in Nat,
           NEW price, IsPrice(price), NEW r, r = Payable(v, a, t, value, price)
    PROVE  /\ IsRepay(r, v.traderBalances[<<a, t>>], value)
           /\ price[t] = Unit => r.amount = r.value
<1> DEFINE payer == v.traderBalances[<<a, t>>]
           p == price[t]
<1>1. payer \in Nat /\ p \in Nat \ {0}  BY Entries DEF IsPrice
<1>2. r = RepayAmount(payer, value, p)  BY DEF Payable
<1> HIDE DEF payer, p
<1>3. IsRepay(r, payer, value)  BY <1>1, <1>2, RepayFacts
<1>4. p = Unit => r.amount = r.value  BY <1>1, <1>2, RepayExact
<1> QED BY <1>3, <1>4 DEF payer, p

\* The names of debts and buckets.
LEMMA DebtKinds ==
    /\ "tradingFee" \in Debts /\ "borrowingFee" \in Debts /\ "fundingFee" \in Debts /\ "loss" \in Debts
    /\ "hlpLiquidity" \in Buckets /\ "protocolFees" \in Buckets
    /\ "devFees" \in Buckets /\ "fundingFeeReserve" \in Buckets
    /\ \A k \in Debts : k \in {"tradingFee", "borrowingFee", "fundingFee", "loss"}
BY DEF Debts, Buckets

\* The borrowing fee goes to the pool.
LEMMA PayBorrowing ==
    ASSUME NEW v, Kept(v), NEW a \in Accounts, NEW t \in Tokens, NEW price, IsPrice(price),
           NEW x, x = BorrowingFeeToHlp(v, a, t, price)
    PROVE  PayStep(v, x, a, t, "borrowingFee", price) /\ Clear(x, "borrowingFee", a, t)
<1> DEFINE r == Payable(v, a, t, v.debt[<<"borrowingFee", a>>], price)
           n == r.amount
           dev == DevShare(n)
           w == PayBorrowingFee(v, a, t, dev, n - dev)
<1>1. v.debt[<<"borrowingFee", a>>] \in Nat  BY DebtKinds, Entries
<1>2. x = AddDebt(w, "borrowingFee", a, -r.value)  BY DEF BorrowingFeeToHlp
<1> HIDE DEF r
<1>3. /\ IsRepay(r, v.traderBalances[<<a, t>>], v.debt[<<"borrowingFee", a>>])
      /\ price[t] = Unit => r.amount = r.value
  BY <1>1, PayableFacts DEF r
<1>4. n \in Nat /\ n <= v.traderBalances[<<a, t>>]  BY <1>3 DEF IsRepay
<1>5. dev \in Nat /\ dev <= n  BY <1>4, DevShareFacts
<1>6. Gave(v, w, a, t, n) /\ SameReserves(v, w)
  <2> HIDE DEF n, dev
  <2> DEFINE u == DeductTrader(v, a, t, n)
             y == Credit(u, "devFees", t, dev)
             z == Credit(y, "hlpLiquidity", t, n - dev)
  <2>1. dev + (n - dev) = n  BY <1>4, <1>5
  <2>2. w = z  BY <2>1 DEF PayBorrowingFee
  <2> HIDE DEF u, y, z, w
  <2>3. u = DeductTrader(v, a, t, n) /\ y = Credit(u, "devFees", t, dev) /\ z = Credit(y, "hlpLiquidity", t, n - dev)
    BY DEF u, y, z
  <2>4. Gave(v, z, a, t, n) /\ ("hlpLiquidity" # "fundingFeeReserve" => SameReserves(v, z))
    BY <1>4, <1>5, <2>3, DebtKinds, GiveTwo
  <2> QED BY <2>2, <2>4
<1> HIDE DEF w
<1>7. Gave(v, w, a, t, r.amount)  BY <1>6 DEF n
<1> QED BY <1>2, <1>3, <1>6, <1>7, DebtKinds, PayPlain

\* The trading fee goes to the protocol.
LEMMA PayTrading ==
    ASSUME NEW v, Kept(v), NEW a \in Accounts, NEW t \in Tokens, NEW price, IsPrice(price),
           NEW x, x = TradingFeeToProtocol(v, a, t, price)
    PROVE  PayStep(v, x, a, t, "tradingFee", price) /\ Clear(x, "tradingFee", a, t)
<1> DEFINE r == Payable(v, a, t, v.debt[<<"tradingFee", a>>], price)
           n == r.amount
           dev == DevShare(n)
           w == PayTradingFee(v, a, t, dev, n - dev)
<1>1. v.debt[<<"tradingFee", a>>] \in Nat  BY DebtKinds, Entries
<1>2. x = AddDebt(w, "tradingFee", a, -r.value)  BY DEF TradingFeeToProtocol
<1> HIDE DEF r
<1>3. /\ IsRepay(r, v.traderBalances[<<a, t>>], v.debt[<<"tradingFee", a>>])
      /\ price[t] = Unit => r.amount = r.value
  BY <1>1, PayableFacts DEF r
<1>4. n \in Nat /\ n <= v.traderBalances[<<a, t>>]  BY <1>3 DEF IsRepay
<1>5. dev \in Nat /\ dev <= n  BY <1>4, DevShareFacts
<1>6. Gave(v, w, a, t, n) /\ SameReserves(v, w)
  <2> HIDE DEF n, dev
  <2> DEFINE u == DeductTrader(v, a, t, n)
             y == Credit(u, "devFees", t, dev)
             z == Credit(y, "protocolFees", t, n - dev)
  <2>1. dev + (n - dev) = n  BY <1>4, <1>5
  <2>2. w = z  BY <2>1 DEF PayTradingFee
  <2> HIDE DEF u, y, z, w
  <2>3. u = DeductTrader(v, a, t, n) /\ y = Credit(u, "devFees", t, dev) /\ z = Credit(y, "protocolFees", t, n - dev)
    BY DEF u, y, z
  <2>4. Gave(v, z, a, t, n) /\ ("protocolFees" # "fundingFeeReserve" => SameReserves(v, z))
    BY <1>4, <1>5, <2>3, DebtKinds, GiveTwo
  <2> QED BY <2>2, <2>4
<1> HIDE DEF w
<1>7. Gave(v, w, a, t, r.amount)  BY <1>6 DEF n
<1> QED BY <1>2, <1>3, <1>6, <1>7, DebtKinds, PayPlain

\* A loss goes to the pool.
LEMMA PayLoss ==
    ASSUME NEW v, Kept(v), NEW a \in Accounts, NEW t \in Tokens, NEW price, IsPrice(price),
           NEW x, x = LossToHlp(v, a, t, price)
    PROVE  PayStep(v, x, a, t, "loss", price) /\ Clear(x, "loss", a, t)
<1> DEFINE r == Payable(v, a, t, v.debt[<<"loss", a>>], price)
           n == r.amount
           w == PayHlp(v, a, t, n)
<1>1. v.debt[<<"loss", a>>] \in Nat  BY DebtKinds, Entries
<1>2. x = AddDebt(w, "loss", a, -r.value)  BY DEF LossToHlp
<1> HIDE DEF r
<1>3. /\ IsRepay(r, v.traderBalances[<<a, t>>], v.debt[<<"loss", a>>])
      /\ price[t] = Unit => r.amount = r.value
  BY <1>1, PayableFacts DEF r
<1>4. n \in Nat /\ n <= v.traderBalances[<<a, t>>]  BY <1>3 DEF IsRepay
<1>5. Gave(v, w, a, t, n) /\ w.bucket = [v.bucket EXCEPT ![<<"hlpLiquidity", t>>] = @ + n]
  <2> HIDE DEF n
  <2> DEFINE u == DeductTrader(v, a, t, n)
             z == Credit(u, "hlpLiquidity", t, n)
  <2>1. w = z
    <3> DEFINE B == [v.bucket EXCEPT ![<<"hlpLiquidity", t>>] = @ + n]
               T == [v.traderBalances EXCEPT ![<<a, t>>] = @ - n]
               L == [v.traderTokens EXCEPT ![a] = IF v.traderBalances[<<a, t>>] = n THEN WithoutToken(@, t) ELSE @]
               c == Credit(v, "hlpLiquidity", t, n)
    <3>1. c = [v EXCEPT !.bucket = B] /\ w = DeductTrader(c, a, t, n)
      BY DEF Credit, PayHlp
    <3>2. v \in Vaults  BY DEF Kept
    <3>3. /\ c.traderBalances = v.traderBalances /\ c.traderTokens = v.traderTokens
          /\ u.bucket = v.bucket
      BY <3>1, <3>2 DEF Vaults, DeductTrader
    <3>4. CASE n = 0
      <4>1. w = c /\ u = v  BY <3>1, <3>4 DEF DeductTrader
      <4> QED BY <4>1
    <3>5. CASE n # 0
      <4>1. w = [c EXCEPT !.traderBalances = T, !.traderTokens = L]
        BY <3>1, <3>3, <3>5 DEF DeductTrader
      <4>2. u = [v EXCEPT !.traderBalances = T, !.traderTokens = L]
        BY <3>5 DEF DeductTrader
      <4>3. z = [u EXCEPT !.bucket = B]  BY <3>3 DEF Credit
      <4> HIDE DEF B, T, L, u, z, w, c
      <4> QED BY <3>1, <3>2, <4>1, <4>2, <4>3 DEF Vaults
    <3> QED BY <3>4, <3>5
  <2> HIDE DEF u, z, w
  <2>2. u = DeductTrader(v, a, t, n) /\ z = Credit(u, "hlpLiquidity", t, n)  BY DEF u, z
  <2>3. Gave(v, z, a, t, n) /\ z.bucket = [v.bucket EXCEPT ![<<"hlpLiquidity", t>>] = @ + n]
    BY <1>4, <2>2, DebtKinds, GiveOne
  <2> QED BY <2>1, <2>3
<1>6. SameReserves(v, w)
  <2>1. v.bucket \in [Buckets \X Tokens -> Nat]  BY DEF Kept, Vaults
  <2> HIDE DEF w
  <2>2. \A z \in Tokens : <<"fundingFeeReserve", z>> # <<"hlpLiquidity", t>>
    OBVIOUS
  <2> QED BY <1>5, <2>1, <2>2, DebtKinds DEF SameReserves
<1> HIDE DEF w
<1>7. Gave(v, w, a, t, r.amount)  BY <1>5 DEF n
<1> QED BY <1>2, <1>3, <1>6, <1>7, DebtKinds, PayPlain

\* The funding fee: what the pool lent comes first.
LEMMA PayFundingToHlp ==
    ASSUME NEW v, Kept(v), NEW a \in Accounts, NEW t \in Tokens, NEW price, IsPrice(price),
           NEW x, x = FundingFeeToHlp(v, a, t, price)
    PROVE  /\ PayStep(v, x, a, t, "fundingFee", price)
           /\ Clear(x, "fundingFee", a, t) \/ x.hlpDebt = 0
<1> DEFINE owed == v.debt[<<"fundingFee", a>>]
           value == IF owed > v.hlpDebt THEN v.hlpDebt ELSE owed
           r == Payable(v, a, t, value, price)
           n == r.amount
           m == r.value
           w == RepayFundingFeeToHlp(v, a, t, n, m)
<1>1. /\ owed \in Nat /\ v.hlpDebt \in Nat /\ value \in Nat /\ value <= owed /\ value <= v.hlpDebt
      /\ value = owed \/ value = v.hlpDebt
  BY DebtKinds, Entries
<1>2. x = AddDebt(w, "fundingFee", a, -m)  BY DEF FundingFeeToHlp
<1> HIDE DEF value
<1>3. /\ IsRepay(r, v.traderBalances[<<a, t>>], value)
      /\ price[t] = Unit => r.amount = r.value
  BY <1>1, PayableFacts
<1> HIDE DEF r
<1>4. /\ n \in Nat /\ n <= v.traderBalances[<<a, t>>] /\ m \in Nat /\ m <= value
      /\ n = v.traderBalances[<<a, t>>] \/ m = value
  BY <1>3 DEF IsRepay
<1>5. m <= owed /\ m <= v.hlpDebt  BY <1>1, <1>4
<1> DEFINE u == DeductTrader(v, a, t, n)
           z == Credit(u, "hlpLiquidity", t, n)
<1>6. w = AddHlpDebt(z, -m)  BY DEF RepayFundingFeeToHlp
<1> HIDE DEF n, m
<1>7. Gave(v, z, a, t, n) /\ z.bucket = [v.bucket EXCEPT ![<<"hlpLiquidity", t>>] = @ + n]
  <2>1. u = DeductTrader(v, a, t, n) /\ z = Credit(u, "hlpLiquidity", t, n)  OBVIOUS
  <2> HIDE DEF u, z
  <2> QED BY <1>4, <2>1, DebtKinds, GiveOne
<1> HIDE DEF u, z, w
<1>8. Kept(z) /\ z.hlpDebt = v.hlpDebt  BY <1>7 DEF Gave, Moves
<1>9. Lending(z, w, -m)
  <2> DEFINE e == -m
  <2>1. e \in Int /\ z.hlpDebt + e >= 0 /\ w = AddHlpDebt(z, e)  BY <1>1, <1>4, <1>5, <1>6, <1>8
  <2> HIDE DEF e
  <2>2. Lending(z, w, e)  BY <1>8, <2>1, AddHlpDebtFacts
  <2> QED BY <2>2 DEF e
<1>10. /\ Moves(v, w) /\ w.hlpDebt = v.hlpDebt - m /\ w.debt = v.debt /\ w.bucket = z.bucket
       /\ w.traderBalances = [v.traderBalances EXCEPT ![<<a, t>>] = @ - n]
  <2>1. Moves(v, w)  BY <1>7, <1>9, MovesMoves DEF Gave, Lending
  <2> QED BY <1>1, <1>4, <1>7, <1>9, <2>1 DEF Gave, Lending
<1>11. ASSUME NEW y \in Tokens
       PROVE  w.bucket[<<"fundingFeeReserve", y>>] = v.bucket[<<"fundingFeeReserve", y>>]
  <2>1. v.bucket \in [Buckets \X Tokens -> Nat]  BY DEF Kept, Vaults
  <2>2. <<"fundingFeeReserve", y>> # <<"hlpLiquidity", t>>  OBVIOUS
  <2> QED BY <1>7, <1>10, <2>1, <2>2, DebtKinds
<1>12. Giving(v, w, a, t, n)
  <2>1. \A y \in Tokens : v.bucket[<<"fundingFeeReserve", y>>] \in Nat  BY Entries
  <2> QED BY <1>1, <1>4, <1>10, <1>11, <2>1 DEF Giving, ReserveGrows
<1>13. Ends(v, w, x, a, t, "fundingFee", n, m)
  BY <1>2, <1>4, <1>5, <1>12, DebtKinds, PaidOff, Zenon
<1>14. price[t] = Unit => n = m  BY <1>3 DEF n, m
<1>15. PayStep(v, x, a, t, "fundingFee", price)  BY <1>4, <1>13, <1>14 DEF PayStep, Ends
<1>16. /\ x.debt[<<"fundingFee", a>>] = owed - m /\ x.hlpDebt = v.hlpDebt - m
       /\ x.traderBalances[<<a, t>>] = v.traderBalances[<<a, t>>] - n
  BY <1>10, <1>13 DEF Ends
<1>17. v.traderBalances[<<a, t>>] \in Nat  BY Entries
<1> QED BY <1>1, <1>4, <1>15, <1>16, <1>17 DEF Clear

\* Then the reserve.
LEMMA PayFundingToReserve ==
    ASSUME NEW v, Kept(v), NEW a \in Accounts, NEW t \in Tokens, NEW price, IsPrice(price),
           Clear(v, "fundingFee", a, t) \/ v.hlpDebt = 0,
           NEW x, x = FundingFeeToFeeReserve(v, a, t, price)
    PROVE  PayStep(v, x, a, t, "fundingFee", price) /\ Clear(x, "fundingFee", a, t)
<1> DEFINE owed == v.debt[<<"fundingFee", a>>]
           r == Payable(v, a, t, owed, price)
           n == r.amount
           m == r.value
           w == FundingFeeToReserve(v, a, t, n)
<1>1. owed \in Nat /\ v.hlpDebt \in Nat /\ v.traderBalances[<<a, t>>] \in Nat  BY DebtKinds, Entries
<1>2. x = AddDebt(w, "fundingFee", a, -m)  BY DEF FundingFeeToFeeReserve
<1>3. /\ IsRepay(r, v.traderBalances[<<a, t>>], owed)
      /\ price[t] = Unit => r.amount = r.value
  BY <1>1, PayableFacts
<1> HIDE DEF r
<1>4. /\ n \in Nat /\ n <= v.traderBalances[<<a, t>>] /\ m \in Nat /\ m <= owed
      /\ n = v.traderBalances[<<a, t>>] \/ m = owed
      /\ owed = 0 => n = 0
  BY <1>3 DEF IsRepay
<1> DEFINE u == DeductTrader(v, a, t, n)
           z == Credit(u, "fundingFeeReserve", t, n)
<1>6. w = z  BY DEF FundingFeeToReserve
<1> HIDE DEF n, m, w
<1>7. Gave(v, w, a, t, n) /\ w.bucket = [v.bucket EXCEPT ![<<"fundingFeeReserve", t>>] = @ + n]
  <2>1. u = DeductTrader(v, a, t, n) /\ z = Credit(u, "fundingFeeReserve", t, n)  OBVIOUS
  <2> HIDE DEF u, z
  <2>2. Gave(v, z, a, t, n) /\ z.bucket = [v.bucket EXCEPT ![<<"fundingFeeReserve", t>>] = @ + n]
    BY <1>4, <2>1, DebtKinds, GiveOne
  <2> QED BY <1>6, <2>2
<1> HIDE DEF u, z
<1>8. n = 0 \/ v.hlpDebt = 0  BY <1>1, <1>4 DEF Clear
<1>9. ASSUME NEW y \in Tokens
      PROVE  /\ w.bucket[<<"fundingFeeReserve", y>>] >= v.bucket[<<"fundingFeeReserve", y>>]
             /\ ReserveGrows(v, w, y) => v.hlpDebt = 0
  <2>1. v.bucket \in [Buckets \X Tokens -> Nat]  BY DEF Kept, Vaults
  <2>2. v.bucket[<<"fundingFeeReserve", y>>] \in Nat /\ <<"fundingFeeReserve", y>> \in Buckets \X Tokens
    BY Entries, DebtKinds
  <2>3. w.bucket[<<"fundingFeeReserve", y>>] = v.bucket[<<"fundingFeeReserve", y>>] + (IF y = t THEN n ELSE 0)
    BY <1>7, <2>1, <2>2
  <2> QED BY <1>4, <1>8, <2>2, <2>3 DEF ReserveGrows
<1>10. Giving(v, w, a, t, n)  BY <1>1, <1>7, <1>9 DEF Giving, Gave
<1>11. Ends(v, w, x, a, t, "fundingFee", n, m)
  BY <1>2, <1>4, <1>10, DebtKinds, PaidOff, Zenon
<1>12. price[t] = Unit => n = m  BY <1>3 DEF n, m
<1>13. PayStep(v, x, a, t, "fundingFee", price)  BY <1>4, <1>11, <1>12 DEF PayStep, Ends
<1>14. /\ x.debt[<<"fundingFee", a>>] = owed - m
       /\ x.traderBalances[<<a, t>>] = v.traderBalances[<<a, t>>] - n
  BY <1>11 DEF Ends
<1> QED BY <1>1, <1>4, <1>13, <1>14 DEF Clear

-----------------------------------------------------------------------------
(***************************************************************************)
(* What an account is worth at the prices that make conversions exact.     *)
(***************************************************************************)
UnitPrice == [t \in Tokens |-> Unit]
BalanceWorth(f, a) == SumFunction([t \in Tokens |-> f[<<a, t>>] * UnitPrice[t]])
OwedWorth(d, a) == SumFunction([k \in Debts |-> d[<<k, a>>]])

\* Worth, by its two parts:
LEMMA WorthIs ==
    ASSUME NEW v, NEW a
    PROVE  Worth(v, a, UnitPrice) = BalanceWorth(v.traderBalances, a) - Unit * OwedWorth(v.debt, a)
BY DEF Worth, BalanceWorth, OwedWorth

\* the collateral,
LEMMA BalanceChange ==
    ASSUME NEW f \in [Accounts \X Tokens -> Nat], NEW g \in [Accounts \X Tokens -> Nat],
           NEW a \in Accounts, NEW t \in Tokens, NEW n \in Int, Bumped(g, f, <<a, t>>, n)
    PROVE  More(BalanceWorth(g, a), BalanceWorth(f, a), Unit * n)
<1> DEFINE F == [z \in Tokens |-> f[<<a, z>>] * UnitPrice[z]]
           G == [z \in Tokens |-> g[<<a, z>>] * UnitPrice[z]]
<1>1. Unit \in Nat /\ \A z \in Tokens : UnitPrice[z] = Unit
  BY SettlementAssumption DEF UnitPrice
<1>2. \A z \in Tokens : f[<<a, z>>] \in Nat /\ g[<<a, z>>] \in Nat  OBVIOUS
<1>3. \A z \in Tokens : z # t => g[<<a, z>>] = f[<<a, z>>]  BY DEF Bumped
<1>4. g[<<a, t>>] = f[<<a, t>>] + n  BY DEF Bumped
<1>5. \A z \in Tokens : F[z] = f[<<a, z>>] * Unit /\ G[z] = g[<<a, z>>] * Unit  BY <1>1
<1>6. F \in [Tokens -> Int] /\ G \in [Tokens -> Int]
  <2>1. \A z \in Tokens : f[<<a, z>>] * UnitPrice[z] \in Int /\ g[<<a, z>>] * UnitPrice[z] \in Int
    BY <1>1, <1>2
  <2> QED BY <2>1
<1> HIDE DEF F, G
<1>7. \A z \in Tokens : z # t => G[z] = F[z]  BY <1>3, <1>5
<1>8. IsFiniteSet(Tokens)  BY LedgerAssumption
<1>9. SumFunction(G) = SumFunction(F) + G[t] - F[t]  BY <1>6, <1>7, <1>8, SumFunctionChange
<1>10. SumFunction(F) \in Int  BY <1>6, <1>8, SumFunctionInt
<1>11. G[t] = F[t] + Unit * n
  <2> DEFINE x == f[<<a, t>>]
  <2>1. x \in Nat /\ F[t] = x * Unit /\ G[t] = (x + n) * Unit  BY <1>2, <1>4, <1>5
  <2> HIDE DEF x
  <2> QED BY <1>1, <2>1
<1>12. F[t] \in Int /\ G[t] \in Int /\ Unit * n \in Int  BY <1>1, <1>6
<1>13. SumFunction(G) = SumFunction(F) + Unit * n
  <2> DEFINE u == Unit * n
  <2>1. u \in Int /\ G[t] = F[t] + u  BY <1>11, <1>12
  <2> HIDE DEF u
  <2>2. SumFunction(G) = SumFunction(F) + u  BY <1>9, <1>10, <1>12, <2>1
  <2> QED BY <2>2 DEF u
<1> QED BY <1>10, <1>13 DEF More, BalanceWorth, F, G

\* and the debts.
LEMMA OwedChange ==
    ASSUME NEW d \in [Debts \X Accounts -> Nat], NEW e \in [Debts \X Accounts -> Nat],
           NEW a \in Accounts, NEW k \in Debts, NEW n \in Int, Bumped(e, d, <<k, a>>, n)
    PROVE  More(OwedWorth(e, a), OwedWorth(d, a), n)
<1> DEFINE F == [j \in Debts |-> d[<<j, a>>]]
           G == [j \in Debts |-> e[<<j, a>>]]
<1>1. \A j \in Debts : j # k => e[<<j, a>>] = d[<<j, a>>]  BY DEF Bumped
<1>2. e[<<k, a>>] = d[<<k, a>>] + n /\ d[<<k, a>>] \in Nat  BY DEF Bumped
<1>3. F \in [Debts -> Int] /\ G \in [Debts -> Int]  OBVIOUS
<1>4. \A j \in Debts : F[j] = d[<<j, a>>] /\ G[j] = e[<<j, a>>]  OBVIOUS
<1> HIDE DEF F, G
<1>5. \A j \in Debts : j # k => G[j] = F[j]  BY <1>1, <1>4
<1>6. SumFunction(G) = SumFunction(F) + G[k] - F[k]  BY <1>3, <1>5, DebtsFinite, SumFunctionChange
<1>7. SumFunction(F) \in Int  BY <1>3, DebtsFinite, SumFunctionInt
<1>8. G[k] = F[k] + n /\ F[k] \in Int  BY <1>2, <1>3, <1>4
<1> QED BY <1>6, <1>7, <1>8 DEF More, OwedWorth, F, G

\* Account a is worth n * Unit more.
Richer(v, w, a, n) == More(Worth(w, a, UnitPrice), Worth(v, a, UnitPrice), Unit * n)
Even(v, w, a) == Worth(v, a, UnitPrice) \in Int /\ Worth(w, a, UnitPrice) = Worth(v, a, UnitPrice)

\* They are integers.
LEMMA WorthInt ==
    ASSUME NEW v, Kept(v), NEW a \in Accounts
    PROVE  /\ Worth(v, a, UnitPrice) \in Int
           /\ BalanceWorth(v.traderBalances, a) \in Int /\ OwedWorth(v.debt, a) \in Int
<1> DEFINE F == [z \in Tokens |-> v.traderBalances[<<a, z>>] * UnitPrice[z]]
           G == [j \in Debts |-> v.debt[<<j, a>>]]
<1>1. Unit \in Nat /\ \A z \in Tokens : UnitPrice[z] = Unit
  BY SettlementAssumption DEF UnitPrice
<1>2. /\ \A z \in Tokens : v.traderBalances[<<a, z>>] * UnitPrice[z] \in Int
      /\ \A j \in Debts : v.debt[<<j, a>>] \in Int
  <2>1. \A z \in Tokens : v.traderBalances[<<a, z>>] \in Int  BY Entries
  <2> QED BY <1>1, <2>1, Entries
<1>3. F \in [Tokens -> Int] /\ G \in [Debts -> Int]  BY <1>2
<1>4. IsFiniteSet(Tokens)  BY LedgerAssumption
<1> HIDE DEF F, G
<1>5. SumFunction(F) \in Int /\ SumFunction(G) \in Int  BY <1>3, <1>4, DebtsFinite, SumFunctionInt
<1>6. BalanceWorth(v.traderBalances, a) \in Int /\ OwedWorth(v.debt, a) \in Int
  BY <1>5 DEF BalanceWorth, OwedWorth, F, G
<1> QED BY <1>1, <1>6, WorthIs

\* A balance and a debt change.
LEMMA WorthChange ==
    ASSUME NEW v, Kept(v), NEW w, Kept(w), NEW a \in Accounts,
           NEW t \in Tokens, NEW k \in Debts, NEW n \in Int, NEW m \in Int,
           Bumped(w.traderBalances, v.traderBalances, <<a, t>>, n),
           Bumped(w.debt, v.debt, <<k, a>>, m)
    PROVE  Richer(v, w, a, n - m)
<1> DEFINE f == v.traderBalances
           g == w.traderBalances
           d == v.debt
           e == w.debt
           bv == BalanceWorth(f, a)
           bw == BalanceWorth(g, a)
           ov == OwedWorth(d, a)
           ow == OwedWorth(e, a)
<1>1. /\ f \in [Accounts \X Tokens -> Nat] /\ g \in [Accounts \X Tokens -> Nat]
      /\ d \in [Debts \X Accounts -> Nat] /\ e \in [Debts \X Accounts -> Nat]
  BY DEF Kept, Vaults
<1>2. Worth(v, a, UnitPrice) = bv - Unit * ov /\ Worth(w, a, UnitPrice) = bw - Unit * ow
  BY WorthIs
<1>3. Bumped(g, f, <<a, t>>, n) /\ Bumped(e, d, <<k, a>>, m)  OBVIOUS
<1>4. Unit \in Int  BY SettlementAssumption
<1> HIDE DEF f, g, d, e
<1>5. More(bw, bv, Unit * n)  BY <1>1, <1>3, BalanceChange, Zenon
<1>6. More(ow, ov, m)  BY <1>1, <1>3, OwedChange, Zenon
<1> HIDE DEF bv, bw, ov, ow
<1>7. bv \in Int /\ bw = bv + Unit * n /\ ov \in Int /\ ow = ov + m
  BY <1>5, <1>6 DEF More
<1>8. bw - Unit * ow = (bv - Unit * ov) + Unit * (n - m) /\ bv - Unit * ov \in Int
  <2>1. Unit * (ov + m) = Unit * ov + Unit * m  BY <1>4, <1>7
  <2>2. Unit * (n - m) = Unit * n - Unit * m  BY <1>4
  <2>3. Unit * n \in Int /\ Unit * m \in Int /\ Unit * ov \in Int  BY <1>4, <1>7
  <2> QED BY <1>7, <2>1, <2>2, <2>3
<1> QED BY <1>2, <1>8 DEF Richer, More

\* An exact payment leaves the account worth what it was.
LEMMA PayStepFacts ==
    ASSUME NEW v, Kept(v), NEW a \in Accounts, NEW t \in Tokens, NEW k \in Debts, NEW price,
           NEW w, PayStep(v, w, a, t, k, price)
    PROVE  /\ Paying(v, w, a)
           /\ price[t] = Unit => Even(v, w, a)
<1>1. PICK n \in Nat, m \in Nat :
         /\ Paying(v, w, a)
         /\ w.traderBalances = [v.traderBalances EXCEPT ![<<a, t>>] = @ - n]
         /\ w.debt = [v.debt EXCEPT ![<<k, a>>] = @ - m]
         /\ price[t] = Unit => n = m
  BY DEF PayStep, PaysOff
<1>2. Kept(w)  BY <1>1 DEF Paying, Moves
<1>3. ASSUME price[t] = Unit PROVE Even(v, w, a)
  <2> DEFINE x == -n
             y == -m
             z == x - y
  <2>1. v.traderBalances \in [Accounts \X Tokens -> Nat] /\ v.debt \in [Debts \X Accounts -> Nat]
    BY DEF Kept, Vaults
  <2>2. Bumped(w.traderBalances, v.traderBalances, <<a, t>>, x) /\ Bumped(w.debt, v.debt, <<k, a>>, y)
    BY <1>1, <2>1 DEF Bumped
  <2>3. x \in Int /\ y \in Int /\ z = 0  BY <1>1, <1>3
  <2> HIDE DEF x, y
  <2>4. Richer(v, w, a, z)  BY <1>2, <2>2, <2>3, WorthChange, Zenon
  <2>5. Unit * 0 = 0  BY SettlementAssumption
  <2> QED BY <2>3, <2>4, <2>5 DEF Richer, More, Even
<1> QED BY <1>1, <1>3

\* And so do two.
LEMMA EvenEven ==
    ASSUME NEW v, NEW w, NEW x, NEW a, Even(v, w, a), Even(w, x, a)
    PROVE  Even(v, x, a)
BY DEF Even

\* One token pays all kinds of debt, in the order of the code.
LEMMA PayDebtsFacts ==
    ASSUME NEW v, Kept(v), NEW a \in Accounts, NEW t \in Tokens, NEW price, IsPrice(price),
           NEW w, w = PayDebts(v, a, t, price)
    PROVE  /\ Paying(v, w, a)
           /\ \A k \in Debts : Clear(w, k, a, t)
           /\ price[t] = Unit => Even(v, w, a)
<1> DEFINE v1 == BorrowingFeeToHlp(v, a, t, price)
           v2 == TradingFeeToProtocol(v1, a, t, price)
           v3 == FundingFeeToHlp(v2, a, t, price)
           v4 == FundingFeeToFeeReserve(v3, a, t, price)
           v5 == LossToHlp(v4, a, t, price)
<1>0. w = v5  BY DEF PayDebts
<1>1. PayStep(v, v1, a, t, "borrowingFee", price) /\ Clear(v1, "borrowingFee", a, t)
  BY PayBorrowing
<1> HIDE DEF v1
<1>2. /\ Paying(v, v1, a) /\ Kept(v1)
      /\ price[t] = Unit => Even(v, v1, a)
  BY <1>1, DebtKinds, PayStepFacts DEF Paying, Moves
<1>3. PayStep(v1, v2, a, t, "tradingFee", price) /\ Clear(v2, "tradingFee", a, t)
  BY <1>2, PayTrading
<1> HIDE DEF v2
<1>4. /\ Paying(v1, v2, a) /\ Kept(v2)
      /\ price[t] = Unit => Even(v1, v2, a)
  BY <1>2, <1>3, DebtKinds, PayStepFacts DEF Paying, Moves
<1>5. /\ PayStep(v2, v3, a, t, "fundingFee", price)
      /\ Clear(v3, "fundingFee", a, t) \/ v3.hlpDebt = 0
  BY <1>4, PayFundingToHlp
<1> HIDE DEF v3
<1>6. /\ Paying(v2, v3, a) /\ Kept(v3)
      /\ price[t] = Unit => Even(v2, v3, a)
  BY <1>4, <1>5, DebtKinds, PayStepFacts DEF Paying, Moves
<1>7. PayStep(v3, v4, a, t, "fundingFee", price) /\ Clear(v4, "fundingFee", a, t)
  BY <1>5, <1>6, PayFundingToReserve
<1> HIDE DEF v4
<1>8. /\ Paying(v3, v4, a) /\ Kept(v4)
      /\ price[t] = Unit => Even(v3, v4, a)
  BY <1>6, <1>7, DebtKinds, PayStepFacts DEF Paying, Moves
<1>9. PayStep(v4, v5, a, t, "loss", price) /\ Clear(v5, "loss", a, t)
  BY <1>8, PayLoss
<1> HIDE DEF v5
<1>10. /\ Paying(v4, v5, a) /\ Kept(v5)
       /\ price[t] = Unit => Even(v4, v5, a)
  BY <1>8, <1>9, DebtKinds, PayStepFacts DEF Paying, Moves
<1>11. Paying(v3, v5, a)  BY <1>6, <1>8, <1>10, PayingPaying
<1>12. Paying(v2, v5, a)  BY <1>4, <1>6, <1>11, PayingPaying
<1>13. Paying(v1, v5, a)  BY <1>2, <1>4, <1>12, PayingPaying
<1>14. Paying(v, v5, a)  BY <1>2, <1>13, PayingPaying
<1>15. price[t] = Unit => Even(v, v5, a)  BY <1>2, <1>4, <1>6, <1>8, <1>10, EvenEven
<1>16. /\ Clear(v5, "borrowingFee", a, t) /\ Clear(v5, "tradingFee", a, t)
       /\ Clear(v5, "fundingFee", a, t) /\ Clear(v5, "loss", a, t)
  BY <1>1, <1>2, <1>3, <1>4, <1>7, <1>8, <1>9, <1>10, <1>12, <1>13, DebtKinds, PayingClear
<1>17. \A k \in Debts : Clear(v5, k, a, t)  BY <1>16, DebtKinds
<1> QED BY <1>0, <1>14, <1>15, <1>17

-----------------------------------------------------------------------------
(***************************************************************************)
(* The loops over the tokens of the pool.                                  *)
(***************************************************************************)
States == {s \in Settlements : Kept(s.v)}

\* The pool's tokens.
LEMMA HlpTokensFacts ==
    Len(HlpTokens) \in Nat /\ \A i \in 1..Len(HlpTokens) : HlpTokens[i] \in Tokens
BY SettlementAssumption

\* The fee is paid.
FeePaid(s, x, a, t) ==
    /\ x \in States
    /\ Paying(s.v, x.v, a)
    /\ x.fee = 0 \/ x.v.traderBalances[<<a, t>>] = 0
    /\ x.fee <= s.fee
    /\ s.fee = 0 => x.v = s.v /\ x.fee = 0
    /\ x.v.bucket = s.v.bucket /\ x.v.debt = s.v.debt /\ x.v.hlpDebt = s.v.hlpDebt

\* The liquidation or execution fee, in one token.
LEMMA PayFeeFacts ==
    ASSUME NEW s \in States, NEW a \in Accounts, NEW to \in Accounts, a # to, NEW t \in Tokens,
           NEW price, IsPrice(price), NEW x, x = PayFeeTo(s, a, t, to, price)
    PROVE  FeePaid(s, x, a, t)
<1> DEFINE v == s.v
           r == Payable(v, a, t, s.fee, price)
           n == r.amount
           w == Transfer(v, t, a, to, n)
<1>1. Kept(v) /\ s \in Settlements /\ s.fee \in Nat /\ v \in Vaults  BY DEF States, Settlements
<1>2. x = [s EXCEPT !.v = w, !.fee = s.fee - r.value]  BY DEF PayFeeTo
<1> HIDE DEF v, r
<1>3. IsRepay(r, v.traderBalances[<<a, t>>], s.fee)  BY <1>1, PayableFacts DEF r
<1>4. /\ n \in Nat /\ n <= v.traderBalances[<<a, t>>] /\ r.value \in Nat /\ r.value <= s.fee
      /\ n = v.traderBalances[<<a, t>>] \/ r.value = s.fee
      /\ s.fee = 0 => n = 0
  BY <1>3 DEF IsRepay
<1> HIDE DEF n
<1>5. /\ Moves(v, w)
      /\ \A z \in Tokens : w.traderBalances[<<a, z>>]
             = IF z = t THEN v.traderBalances[<<a, t>>] - n ELSE v.traderBalances[<<a, z>>]
      /\ w.debt = v.debt /\ w.hlpDebt = v.hlpDebt /\ w.bucket = v.bucket
      /\ n = 0 => w = v
  <2>1. w = Transfer(v, t, a, to, n)  OBVIOUS
  <2> HIDE DEF w
  <2> QED BY <1>1, <1>4, <2>1, GiveAccount
<1> HIDE DEF w
<1>6. Kept(w) /\ w \in Vaults  BY <1>5 DEF Moves, Kept
<1>7. x \in States /\ x.v = w /\ x.fee = s.fee - r.value
  <2>1. s.fee - r.value \in Nat  BY <1>1, <1>4
  <2> QED BY <1>1, <1>2, <1>6, <2>1 DEF States, Settlements
<1>8. Paying(v, w, a)
  <2>1. /\ \A z \in Tokens : v.traderBalances[<<a, z>>] \in Nat
        /\ \A k \in Debts, b \in Accounts : v.debt[<<k, b>>] \in Nat
        /\ v.hlpDebt \in Nat /\ \A z \in Tokens : v.bucket[<<"fundingFeeReserve", z>>] \in Nat
    BY <1>1, Entries
  <2>2. ASSUME NEW z \in Tokens PROVE w.traderBalances[<<a, z>>] <= v.traderBalances[<<a, z>>]
    BY <1>4, <1>5, <2>1
  <2> QED BY <1>5, <2>1, <2>2 DEF Paying, ReserveGrows
<1>9. x.fee = 0 \/ x.v.traderBalances[<<a, t>>] = 0
  <2>1. v.traderBalances[<<a, t>>] \in Nat  BY <1>1, Entries
  <2> QED BY <1>1, <1>4, <1>5, <1>7, <2>1
<1>10. x.fee <= s.fee /\ (s.fee = 0 => x.fee = 0 /\ x.v = v)  BY <1>1, <1>4, <1>5, <1>7
<1> QED BY <1>5, <1>7, <1>8, <1>9, <1>10 DEF FeePaid, v

\* The fee and the debts are paid.
AllPaid(s, x, a, t, price) ==
    /\ x \in States
    /\ Paying(s.v, x.v, a)
    /\ \A k \in Debts : Clear(x.v, k, a, t)
    /\ s.fee = 0 /\ price[t] = Unit => x.fee = 0 /\ Even(s.v, x.v, a)

\* One turn of the loop of _decreaseCollateral.
LEMMA PayAllFacts ==
    ASSUME NEW s \in States, NEW a \in Accounts, NEW to \in Accounts, a # to, NEW t \in Tokens,
           NEW price, IsPrice(price), NEW x, x = PayAll(s, a, t, to, price)
    PROVE  AllPaid(s, x, a, t, price)
<1> DEFINE y == PayFeeTo(s, a, t, to, price)
           w == PayDebts(y.v, a, t, price)
<1>1. x = [y EXCEPT !.v = w]  BY DEF PayAll
<1>2. FeePaid(s, y, a, t)  BY PayFeeFacts
<1> HIDE DEF y
<1>3. y \in Settlements /\ Kept(y.v) /\ Kept(s.v)  BY <1>2 DEF FeePaid, States
<1>4. /\ Paying(y.v, w, a)
      /\ \A k \in Debts : Clear(w, k, a, t)
      /\ price[t] = Unit => Even(y.v, w, a)
  BY <1>3, PayDebtsFacts
<1> HIDE DEF w
<1>5. Kept(w) /\ w \in Vaults  BY <1>4 DEF Paying, Moves, Kept
<1>6. x \in States /\ x.v = w /\ x.fee = y.fee  BY <1>1, <1>3, <1>5 DEF States, Settlements
<1>7. Paying(s.v, w, a)
  <2>1. Paying(s.v, y.v, a)  BY <1>2 DEF FeePaid
  <2> DEFINE v1 == s.v
             v2 == y.v
  <2>2. Kept(v1) /\ Paying(v1, v2, a) /\ Paying(v2, w, a)  BY <1>3, <1>4, <2>1
  <2> HIDE DEF v1, v2
  <2>3. Paying(v1, w, a)  BY <2>2, PayingPaying
  <2> QED BY <2>3 DEF v1
<1>8. s.fee = 0 => y.v = s.v /\ y.fee = 0  BY <1>2 DEF FeePaid
<1> QED BY <1>4, <1>6, <1>7, <1>8 DEF AllPaid

\* PaidFrom, as a sequence of states.
Turns(f, s, a, to, price) ==
    /\ f[0] = s
    /\ \A i \in 1..Len(HlpTokens) : f[i] = PayAll(f[i - 1], a, HlpTokens[i], to, price)

\* The loop is what the equation of its function says.
LEMMA PaidFromTurns ==
    ASSUME NEW s \in States, NEW a \in Accounts, NEW to \in Accounts, a # to,
           NEW price, IsPrice(price)
    PROVE  \E f : Turns(f, s, a, to, price) /\ PaidFrom(s, a, to, price) = f[Len(HlpTokens)]
<1> DEFINE n == Len(HlpTokens)
           Eqn(f) == f = [i \in 0..n |-> IF i = 0 THEN s ELSE PayAll(f[i - 1], a, HlpTokens[i], to, price)]
           step == [i \in 1..n |-> [x \in States |-> PayAll(x, a, HlpTokens[i], to, price)]]
<1>1. n \in Nat  BY HlpTokensFacts
<1>2. step \in [1..n -> [States -> States]]
  <2>1. ASSUME NEW i \in 1..n, NEW x \in States
        PROVE  PayAll(x, a, HlpTokens[i], to, price) \in States
    <3>1. HlpTokens[i] \in Tokens  BY HlpTokensFacts
    <3>2. AllPaid(x, PayAll(x, a, HlpTokens[i], to, price), a, HlpTokens[i], price)
      BY <3>1, PayAllFacts
    <3> QED BY <3>2 DEF AllPaid
  <2> QED BY <2>1
<1>3. PICK g \in [0..n -> States] : IsLoop(g, s, step, n)
  <2> HIDE DEF step, n
  <2> QED BY <1>1, <1>2, LoopIn
<1>4. Eqn(g)
  <2>1. \A i \in 1..n : step[i][g[i - 1]] = PayAll(g[i - 1], a, HlpTokens[i], to, price)
    <3> TAKE i \in 1..n
    <3>1. i - 1 \in 0..n  BY <1>1
    <3>2. g[i - 1] \in States  BY <3>1
    <3> QED BY <3>2
  <2>2. g = [i \in 0..n |-> IF i = 0 THEN s ELSE step[i][g[i - 1]]]  BY <1>3 DEF IsLoop
  <2>3. \A i \in 0..n : i # 0 => i \in 1..n  BY <1>1
  <2> HIDE DEF step, n
  <2> QED BY <2>1, <2>2, <2>3
<1> DEFINE f == CHOOSE h : Eqn(h)
<1>5. Eqn(f)
  <2> HIDE DEF Eqn
  <2> QED BY <1>4
<1>6. PaidFrom(s, a, to, price) = f[n]  BY DEF PaidFrom
<1> HIDE DEF f
<1>7. Turns(f, s, a, to, price)
  <2>1. \A i \in 0..n : f[i] = IF i = 0 THEN s ELSE PayAll(f[i - 1], a, HlpTokens[i], to, price)
    BY <1>5
  <2>2. 0 \in 0..n /\ \A i \in 1..n : i \in 0..n /\ i # 0  BY <1>1
  <2> QED BY <2>1, <2>2 DEF Turns
<1> QED BY <1>6, <1>7

\* What the loop leaves.
LEMMA PaidFromFacts ==
    ASSUME NEW s \in States, NEW a \in Accounts, NEW to \in Accounts, a # to,
           NEW price, IsPrice(price), NEW x, x = PaidFrom(s, a, to, price)
    PROVE  /\ Paying(s.v, x.v, a)
           /\ \A i \in 1..Len(HlpTokens), k \in Debts : Clear(x.v, k, a, HlpTokens[i])
           /\ s.fee = 0 /\ price = UnitPrice => Even(s.v, x.v, a)
<1> DEFINE n == Len(HlpTokens)
<1>1. n \in Nat /\ \A i \in 1..n : HlpTokens[i] \in Tokens  BY HlpTokensFacts
<1>2. PICK f : Turns(f, s, a, to, price) /\ x = f[n]  BY PaidFromTurns
<1>3. f[0] = s /\ \A i \in 1..n : f[i] = PayAll(f[i - 1], a, HlpTokens[i], to, price)
  BY <1>2 DEF Turns
<1> DEFINE exact == s.fee = 0 /\ price = UnitPrice
           Good(i) == /\ f[i] \in States
                      /\ Paying(s.v, f[i].v, a)
                      /\ \A j \in 1..i, k \in Debts : Clear(f[i].v, k, a, HlpTokens[j])
                      /\ exact => f[i].fee = 0 /\ Even(s.v, f[i].v, a)
           T == {i \in 0..n : Good(i)}
<1>4. Kept(s.v)  BY DEF States
<1>5. 0 \in T
  <2> DEFINE v == s.v
  <2>0. Kept(v)  BY <1>4
  <2> HIDE DEF v
  <2>1. Paying(v, v, a)  BY <2>0, PayingSame
  <2>2. Even(v, v, a)  BY <2>0, WorthInt DEF Even
  <2> USE DEF v
  <2>3. Good(0)  BY <1>3, <2>1, <2>2
  <2> QED BY <1>1, <2>3
<1>6. ASSUME NEW i \in 1..n, i - 1 \in T PROVE i \in T
  <2> DEFINE y == f[i - 1]
             z == f[i]
             t == HlpTokens[i]
             v == s.v
  <2>1. Good(i - 1) /\ t \in Tokens /\ i \in 0..n  BY <1>1, <1>6
  <2>2. z = PayAll(y, a, t, to, price) /\ y \in States  BY <1>3, <2>1
  <2>3. AllPaid(y, z, a, t, price)
    <3> HIDE DEF y, z, t
    <3> QED BY <2>1, <2>2, PayAllFacts
  <2>4. /\ z \in States /\ Paying(y.v, z.v, a) /\ \A k \in Debts : Clear(z.v, k, a, t)
        /\ y.fee = 0 /\ price[t] = Unit => z.fee = 0 /\ Even(y.v, z.v, a)
    BY <2>3 DEF AllPaid
  <2>5. Kept(y.v) /\ Kept(z.v) /\ Paying(v, y.v, a)  BY <2>1, <2>2, <2>4 DEF States
  <2>6. Paying(v, z.v, a)
    <3> DEFINE v1 == y.v
               v2 == z.v
    <3>1. Kept(v) /\ Paying(v, v1, a) /\ Paying(v1, v2, a)  BY <1>4, <2>4, <2>5
    <3> HIDE DEF v, v1, v2
    <3>2. Paying(v, v2, a)  BY <3>1, PayingPaying
    <3> QED BY <3>2 DEF v2
  <2>7. ASSUME NEW j \in 1..i, NEW k \in Debts PROVE Clear(z.v, k, a, HlpTokens[j])
    <3>1. CASE j = i  BY <2>4, <3>1
    <3>2. CASE j # i
      <4>1. j \in 1..(i - 1) /\ j \in 1..n  BY <3>2, <1>1
      <4> DEFINE v1 == y.v
                 v2 == z.v
                 u == HlpTokens[j]
      <4>2. Clear(v1, k, a, u) /\ u \in Tokens /\ Kept(v1) /\ Paying(v1, v2, a)
        BY <1>1, <2>1, <2>4, <2>5, <4>1
      <4> HIDE DEF v1, v2, u
      <4>3. Clear(v2, k, a, u)  BY <4>2, PayingClear
      <4> QED BY <4>3 DEF v2, u
    <3> QED BY <3>1, <3>2
  <2>8. ASSUME exact PROVE z.fee = 0 /\ Even(v, z.v, a)
    <3>1. y.fee = 0 /\ Even(v, y.v, a) /\ price[t] = Unit  BY <2>1, <2>8 DEF UnitPrice
    <3> HIDE DEF y, z, v, t
    <3>2. Even(y.v, z.v, a) /\ z.fee = 0  BY <2>4, <3>1
    <3> QED BY <3>1, <3>2, EvenEven
  <2>9. Good(i)  BY <2>4, <2>6, <2>7, <2>8
  <2> QED BY <2>1, <2>9
<1>7. \A i \in 0..n : i \in T
  <2> HIDE DEF T, n
  <2> QED BY <1>1, <1>5, <1>6, TurnInduction
<1>8. Good(n)
  <2>1. n \in 0..n  BY <1>1
  <2> QED BY <1>7, <2>1
<1> QED BY <1>2, <1>8

\* The loop of the execution fee, as a sequence of states.
FeeTurns(f, s, a, list, to, price) ==
    /\ f[0] = s
    /\ \A i \in 1..Len(list) : f[i] = PayFeeTo(f[i - 1], a, list[i], to, price)
FeeState(v, fee) == [v |-> v, profit |-> 0, funding |-> 0, fee |-> fee]

\* The same, over the list of the account's tokens.
LEMMA ExecutionFeeTurns ==
    ASSUME NEW v, Kept(v), NEW a \in Accounts, NEW to \in Accounts, a # to, NEW fee \in Nat,
           NEW price, IsPrice(price)
    PROVE  \E f : /\ FeeTurns(f, FeeState(v, fee), a, v.traderTokens[a], to, price)
                  /\ CollectExecutionFee(v, a, fee, to, price)
                       = AddDebt(f[Len(v.traderTokens[a])].v, "tradingFee", a, f[Len(v.traderTokens[a])].fee)
<1> DEFINE list == v.traderTokens[a]
           n == Len(list)
           s == FeeState(v, fee)
           Eqn(f) == f = [i \in 0..n |-> IF i = 0 THEN s ELSE PayFeeTo(f[i - 1], a, list[i], to, price)]
           step == [i \in 1..n |-> [x \in States |-> PayFeeTo(x, a, list[i], to, price)]]
<1>1. list \in Seq(Tokens)  BY DEF Kept, Vaults
<1>0. n \in Nat /\ \A i \in 1..n : list[i] \in Tokens  BY <1>1
<1>8. s \in States
  <2>1. v \in Vaults  BY DEF Kept
  <2> QED BY <2>1 DEF States, Settlements, FeeState
<1> HIDE DEF list
<1>2. step \in [1..n -> [States -> States]]
  <2>1. ASSUME NEW i \in 1..n, NEW x \in States
        PROVE  PayFeeTo(x, a, list[i], to, price) \in States
    <3>1. list[i] \in Tokens  BY <1>0
    <3>2. FeePaid(x, PayFeeTo(x, a, list[i], to, price), a, list[i])
      BY <3>1, PayFeeFacts
    <3> QED BY <3>2 DEF FeePaid
  <2> QED BY <2>1
<1>3. PICK g \in [0..n -> States] : IsLoop(g, s, step, n)
  <2> HIDE DEF step, n, s
  <2> QED BY <1>0, <1>2, <1>8, LoopIn
<1>4. Eqn(g)
  <2>1. \A i \in 1..n : step[i][g[i - 1]] = PayFeeTo(g[i - 1], a, list[i], to, price)
    <3> TAKE i \in 1..n
    <3>1. i - 1 \in 0..n  BY <1>0
    <3>2. g[i - 1] \in States  BY <3>1
    <3> QED BY <3>2
  <2>2. g = [i \in 0..n |-> IF i = 0 THEN s ELSE step[i][g[i - 1]]]  BY <1>3 DEF IsLoop
  <2>3. \A i \in 0..n : i # 0 => i \in 1..n  BY <1>0
  <2> HIDE DEF step, n, s
  <2> QED BY <2>1, <2>2, <2>3
<1> DEFINE f == CHOOSE h : Eqn(h)
<1>5. Eqn(f)
  <2> HIDE DEF Eqn
  <2> QED BY <1>4
<1>6. CollectExecutionFee(v, a, fee, to, price) = AddDebt(f[n].v, "tradingFee", a, f[n].fee)
  BY DEF CollectExecutionFee, FeeState, list
<1> HIDE DEF f
<1>7. FeeTurns(f, s, a, list, to, price)
  <2>1. \A i \in 0..n : f[i] = IF i = 0 THEN s ELSE PayFeeTo(f[i - 1], a, list[i], to, price)
    BY <1>5
  <2>2. 0 \in 0..n /\ \A i \in 1..n : i \in 0..n /\ i # 0  BY <1>0
  <2> QED BY <2>1, <2>2 DEF FeeTurns
<1> QED BY <1>6, <1>7 DEF list

\* The execution fee: the account comes to owe only if it has nothing left.
LEMMA ExecutionFeeFacts ==
    ASSUME NEW v, Kept(v), NEW a \in Accounts, NEW to \in Accounts, a # to, NEW fee \in Nat,
           NEW price, IsPrice(price), NEW x, x = CollectExecutionFee(v, a, fee, to, price)
    PROVE  /\ Moves(v, x)
           /\ x.hlpDebt = v.hlpDebt /\ x.bucket = v.bucket
           /\ \A k \in Debts, b \in Accounts : x.debt[<<k, b>>] > v.debt[<<k, b>>] =>
                 b = a /\ \A t \in Tokens : x.traderBalances[<<a, t>>] = 0
<1> DEFINE list == v.traderTokens[a]
           n == Len(list)
           s == FeeState(v, fee)
<1>1. list \in Seq(Tokens)  BY DEF Kept, Vaults
<1>2. n \in Nat /\ \A i \in 1..n : list[i] \in Tokens  BY <1>1
<1>3. PICK f : FeeTurns(f, s, a, list, to, price) /\ x = AddDebt(f[n].v, "tradingFee", a, f[n].fee)
  BY ExecutionFeeTurns
<1>4. Elems(list) = Held(v, a)  BY DEF Kept, Copies
<1>5. s \in States /\ s.v = v /\ s.fee = fee
  <2>1. v \in Vaults  BY DEF Kept
  <2> QED BY <2>1 DEF States, Settlements, FeeState
<1> HIDE DEF list, s
<1>6. f[0] = s /\ \A i \in 1..n : f[i] = PayFeeTo(f[i - 1], a, list[i], to, price)
  BY <1>3 DEF FeeTurns
<1> DEFINE Good(i) == /\ f[i] \in States
                      /\ Paying(v, f[i].v, a)
                      /\ f[i].v.bucket = v.bucket /\ f[i].v.debt = v.debt /\ f[i].v.hlpDebt = v.hlpDebt
                      /\ f[i].fee = 0 \/ \A j \in 1..i : f[i].v.traderBalances[<<a, list[j]>>] = 0
           T == {i \in 0..n : Good(i)}
<1>7. 0 \in T
  <2>1. Paying(v, v, a)  BY PayingSame
  <2>2. Good(0)  BY <1>5, <1>6, <2>1
  <2> QED BY <1>2, <2>2
<1>8. ASSUME NEW i \in 1..n, i - 1 \in T PROVE i \in T
  <2> DEFINE y == f[i - 1]
             z == f[i]
             t == list[i]
  <2>1. Good(i - 1) /\ t \in Tokens /\ i \in 0..n  BY <1>2, <1>8
  <2>2. z = PayFeeTo(y, a, t, to, price) /\ y \in States  BY <1>6, <2>1
  <2>3. FeePaid(y, z, a, t)
    <3> HIDE DEF y, z, t
    <3> QED BY <2>1, <2>2, PayFeeFacts
  <2>4. /\ z \in States /\ Paying(y.v, z.v, a)
        /\ z.fee = 0 \/ z.v.traderBalances[<<a, t>>] = 0
        /\ z.fee <= y.fee
        /\ z.v.bucket = y.v.bucket /\ z.v.debt = y.v.debt /\ z.v.hlpDebt = y.v.hlpDebt
    BY <2>3 DEF FeePaid
  <2>5. Kept(y.v) /\ Kept(z.v) /\ Paying(v, y.v, a) /\ y.fee \in Nat /\ z.fee \in Nat
    BY <2>1, <2>2, <2>4 DEF States, Settlements
  <2>6. Paying(v, z.v, a)
    <3> DEFINE v1 == y.v
               v2 == z.v
    <3>1. Paying(v, v1, a) /\ Paying(v1, v2, a)  BY <2>4, <2>5
    <3> HIDE DEF v1, v2
    <3>2. Paying(v, v2, a)  BY <3>1, PayingPaying
    <3> QED BY <3>2 DEF v2
  <2>7. ASSUME z.fee # 0, NEW j \in 1..i PROVE z.v.traderBalances[<<a, list[j]>>] = 0
    <3>1. CASE j = i  BY <2>4, <2>7, <3>1
    <3>2. CASE j # i
      <4>1. j \in 1..(i - 1) /\ j \in 1..n  BY <3>2, <1>2
      <4>2. y.fee # 0  BY <2>4, <2>5, <2>7
      <4>3. y.v.traderBalances[<<a, list[j]>>] = 0 /\ list[j] \in Tokens  BY <1>2, <2>1, <4>1, <4>2
      <4>4. z.v.traderBalances[<<a, list[j]>>] <= y.v.traderBalances[<<a, list[j]>>]
        BY <2>4, <4>3 DEF Paying
      <4>5. z.v.traderBalances[<<a, list[j]>>] \in Nat  BY <2>5, <4>3, Entries
      <4> QED BY <4>3, <4>4, <4>5
    <3> QED BY <3>1, <3>2
  <2>8. /\ z.v.bucket = v.bucket /\ z.v.debt = v.debt /\ z.v.hlpDebt = v.hlpDebt
    BY <2>1, <2>4
  <2>9. Good(i)  BY <2>4, <2>6, <2>7, <2>8
  <2> QED BY <2>1, <2>9
<1>9. \A i \in 0..n : i \in T
  <2> HIDE DEF T, n
  <2> QED BY <1>2, <1>7, <1>8, TurnInduction
<1>10. Good(n)
  <2>1. n \in 0..n  BY <1>2
  <2> QED BY <1>9, <2>1
<1> DEFINE y == f[n]
           w == y.v
           owed == y.fee
<1>11. /\ x = AddDebt(w, "tradingFee", a, owed) /\ Kept(w) /\ owed \in Nat /\ Paying(v, w, a)
       /\ w.bucket = v.bucket /\ w.debt = v.debt /\ w.hlpDebt = v.hlpDebt
       /\ owed = 0 \/ \A j \in 1..n : w.traderBalances[<<a, list[j]>>] = 0
  BY <1>3, <1>10 DEF States, Settlements
<1> HIDE DEF y, w, owed, Good
<1>12. owed \in Int /\ w.debt[<<"tradingFee", a>>] + owed >= 0
  <2>1. w.debt[<<"tradingFee", a>>] \in Nat  BY <1>11, DebtKinds, Entries
  <2> QED BY <1>11, <2>1
<1>13. Owing(w, x, "tradingFee", a, owed)  BY <1>11, <1>12, DebtKinds, AddDebtFacts, Zenon
<1>14. /\ Moves(w, x) /\ x.bucket = w.bucket /\ x.hlpDebt = w.hlpDebt /\ x.traderBalances = w.traderBalances
       /\ x.debt = [w.debt EXCEPT ![<<"tradingFee", a>>] = @ + owed]
  BY <1>13 DEF Owing
<1>15. Moves(v, x)  BY <1>11, <1>14, MovesMoves DEF Paying
<1>16. ASSUME NEW k \in Debts, NEW b \in Accounts, x.debt[<<k, b>>] > v.debt[<<k, b>>]
       PROVE  b = a /\ \A t \in Tokens : x.traderBalances[<<a, t>>] = 0
  <2>1. v.debt \in [Debts \X Accounts -> Nat]  BY DEF Kept, Vaults
  <2>2. x.debt[<<k, b>>] = IF k = "tradingFee" /\ b = a THEN v.debt[<<k, b>>] + owed ELSE v.debt[<<k, b>>]
    BY <1>11, <1>14, <2>1
  <2>3. v.debt[<<k, b>>] \in Nat  BY <2>1
  <2>4. b = a /\ owed # 0  BY <1>11, <1>16, <2>2, <2>3
  <2>5. ASSUME NEW t \in Tokens PROVE x.traderBalances[<<a, t>>] = 0
    <3>1. CASE t \in Held(v, a)
      <4>1. PICK j \in 1..n : list[j] = t  BY <1>4, <3>1 DEF Elems
      <4> QED BY <1>11, <1>14, <2>4, <4>1
    <3>2. CASE t \notin Held(v, a)
      <4>1. v.traderBalances[<<a, t>>] \in Nat /\ w.traderBalances[<<a, t>>] \in Nat
        BY <1>11, Entries
      <4>2. v.traderBalances[<<a, t>>] = 0  BY <3>2, <4>1 DEF Held
      <4>3. w.traderBalances[<<a, t>>] <= v.traderBalances[<<a, t>>]  BY <1>11 DEF Paying
      <4> QED BY <1>14, <4>1, <4>2, <4>3
    <3> QED BY <3>1, <3>2
  <2> QED BY <2>4, <2>5
<1> QED BY <1>11, <1>14, <1>15, <1>16

-----------------------------------------------------------------------------
(***************************************************************************)
(* Account a receives, from the pool or from the collected funding fees.   *)
(***************************************************************************)
Taken(v, w, a, k, t, n) ==
    /\ Moves(v, w)
    /\ w.bucket = [v.bucket EXCEPT ![<<k, t>>] = @ - n]
    /\ w.traderBalances = [v.traderBalances EXCEPT ![<<a, t>>] = @ + n]
    /\ w.debt = v.debt

\* From a bucket to the account.
LEMMA TakeOne ==
    ASSUME NEW v, Kept(v), NEW a \in Accounts, NEW t \in Tokens, NEW k \in Buckets, NEW n \in Nat,
           n <= v.bucket[<<k, t>>],
           NEW u, u = Credit(v, k, t, -n), NEW w, w = IncreaseTrader(u, a, t, n)
    PROVE  Taken(v, w, a, k, t, n) /\ w.hlpDebt = v.hlpDebt
<1> DEFINE m == -n
<1>1. m \in Int /\ v.bucket[<<k, t>>] + m >= 0 /\ u = Credit(v, k, t, m) /\ m + n = 0
  <2>1. v.bucket[<<k, t>>] \in Nat  BY Entries
  <2> QED BY <2>1
<1>0. v.bucket \in [Buckets \X Tokens -> Nat]  BY DEF Kept, Vaults
<1>7. v.bucket[<<k, t>>] + m = v.bucket[<<k, t>>] - n  BY <1>0
<1> HIDE DEF m
<1>2. Credited(v, u, k, t, m)  BY <1>1, CreditFacts
<1>3. Kept(u)  BY <1>2 DEF Credited, Shift
<1>4. Increased(u, w, a, t, n)  BY <1>3, IncreaseFacts
<1>5. Moves(v, w)
  <2>1. Shift(v, u, t, m) /\ Shift(u, w, t, n)  BY <1>2, <1>4 DEF Credited, Increased
  <2>4. n \in Int  OBVIOUS
  <2>2. Shift(v, w, t, m + n)  BY <1>1, <2>1, <2>4, ShiftShift, Zenon
  <2>3. Shift(v, w, t, 0)  BY <1>1, <2>2
  <2> QED BY <2>3, ShiftZero
<1>6. /\ w.bucket = [v.bucket EXCEPT ![<<k, t>>] = @ + m]
      /\ w.traderBalances = [v.traderBalances EXCEPT ![<<a, t>>] = @ + n]
      /\ w.debt = v.debt /\ w.hlpDebt = v.hlpDebt
  BY <1>2, <1>4 DEF Credited, Increased
<1>8. w.bucket = [v.bucket EXCEPT ![<<k, t>>] = @ - n]  BY <1>0, <1>6, <1>7
<1> QED BY <1>5, <1>6, <1>8 DEF Taken

\* What a gets and what it is still to get add up.
Due(s) == s.profit + s.funding
Fair(s, x, a) ==
    Worth(x.v, a, UnitPrice) + Unit * Due(x) = Worth(s.v, a, UnitPrice) + Unit * Due(s)
Receiving(v, w) ==
    /\ Moves(v, w)
    /\ w.debt = v.debt
    /\ \A t \in Tokens : w.bucket[<<"fundingFeeReserve", t>>] <= v.bucket[<<"fundingFeeReserve", t>>]
    /\ \A t \in Tokens : w.bucket[<<"hlpLiquidity", t>>] <= v.bucket[<<"hlpLiquidity", t>>]
Got(s, x, a, price) ==
    /\ x \in States
    /\ Receiving(s.v, x.v)
    /\ x.profit <= s.profit /\ x.funding <= s.funding
    /\ s.funding = 0 => x.v.hlpDebt = s.v.hlpDebt
    /\ price = UnitPrice => Fair(s, x, a)

\* Which makes it richer.
LEMMA TakenReceiving ==
    ASSUME NEW v, Kept(v), NEW a \in Accounts, NEW t \in Tokens, NEW k \in Buckets, NEW n \in Nat,
           NEW w, Taken(v, w, a, k, t, n)
    PROVE  /\ Receiving(v, w)
           /\ w.bucket[<<k, t>>] = v.bucket[<<k, t>>] - n
           /\ k = "hlpLiquidity" => SameReserves(v, w)
           /\ Richer(v, w, a, n)
<1>1. v.bucket \in [Buckets \X Tokens -> Nat] /\ v.traderBalances \in [Accounts \X Tokens -> Nat]
      /\ v.debt \in [Debts \X Accounts -> Nat]
  BY DEF Kept, Vaults
<1>2. /\ Moves(v, w) /\ w.debt = v.debt
      /\ w.bucket = [v.bucket EXCEPT ![<<k, t>>] = @ - n]
      /\ w.traderBalances = [v.traderBalances EXCEPT ![<<a, t>>] = @ + n]
  BY DEF Taken
<1>3. ASSUME NEW j \in Buckets, NEW z \in Tokens
      PROVE  /\ w.bucket[<<j, z>>] <= v.bucket[<<j, z>>]
             /\ j # k => w.bucket[<<j, z>>] = v.bucket[<<j, z>>]
  BY <1>1, <1>2
<1>4. k = "hlpLiquidity" => SameReserves(v, w)
  <2>1. "fundingFeeReserve" # "hlpLiquidity"  OBVIOUS
  <2> QED BY <1>3, <2>1, DebtKinds DEF SameReserves
<1>5. Receiving(v, w)  BY <1>2, <1>3, DebtKinds DEF Receiving
<1>6. Kept(w)  BY <1>2 DEF Moves
<1>7. Richer(v, w, a, n)
  <2>1. Bumped(w.traderBalances, v.traderBalances, <<a, t>>, n)  BY <1>1, <1>2 DEF Bumped
  <2>2. Bumped(w.debt, v.debt, <<"loss", a>>, 0)
    <3>1. "loss" \in Debts  BY DebtKinds
    <3>2. v.debt[<<"loss", a>>] \in Nat  BY <1>1, <3>1
    <3> QED BY <1>2, <3>2 DEF Bumped
  <2> DEFINE z == 0
             y == n - z
  <2>3. y = n /\ z \in Int /\ n \in Int /\ "loss" \in Debts  BY DebtKinds
  <2>4. Bumped(w.debt, v.debt, <<"loss", a>>, z)  BY <2>2
  <2> HIDE DEF z
  <2>5. Richer(v, w, a, n - z)  BY <1>6, <2>1, <2>3, <2>4, WorthChange, Zenon
  <2> QED BY <2>3, <2>5
<1> QED BY <1>1, <1>2, <1>4, <1>5, <1>7

\* One payment of a state: n tokens, worth m of what is due.
LEMMA GotOne ==
    ASSUME NEW s \in States, NEW a \in Accounts, NEW t \in Tokens, NEW k \in Buckets, NEW n \in Nat,
           NEW m \in Nat, NEW price, IsPrice(price), price[t] = Unit => n = m,
           NEW w, Taken(s.v, w, a, k, t, n), s.funding = 0 => w.hlpDebt = s.v.hlpDebt,
           NEW x \in Settlements, x.v = w, x.profit <= s.profit, x.funding <= s.funding,
           Due(x) = Due(s) - m
    PROVE  /\ Got(s, x, a, price)
           /\ x.v.bucket[<<k, t>>] = s.v.bucket[<<k, t>>] - n
           /\ k = "hlpLiquidity" => SameReserves(s.v, x.v)
<1> DEFINE v == s.v
<1>1. Kept(v) /\ Taken(v, w, a, k, t, n) /\ s \in Settlements  BY DEF States
<1> HIDE DEF v
<1>2. /\ Receiving(v, w)
      /\ w.bucket[<<k, t>>] = v.bucket[<<k, t>>] - n
      /\ k = "hlpLiquidity" => SameReserves(v, w)
      /\ Richer(v, w, a, n)
  BY <1>1, TakenReceiving
<1>3. Kept(w)  BY <1>2 DEF Receiving, Moves
<1>4. x \in States  BY <1>3 DEF States
<1>5. ASSUME price = UnitPrice PROVE Fair(s, x, a)
  <2> DEFINE ws == Worth(v, a, UnitPrice)
             wx == Worth(w, a, UnitPrice)
             ds == Due(s)
  <2>1. n = m  BY <1>5 DEF UnitPrice
  <2>2. ws \in Int /\ wx = ws + Unit * n  BY <1>2 DEF Richer, More
  <2>3. ds \in Int /\ Due(x) = ds - n  BY <1>1, <2>1 DEF Due, Settlements
  <2>4. Unit \in Int  BY SettlementAssumption
  <2> HIDE DEF ws, wx, ds
  <2>5. wx + Unit * (ds - n) = ws + Unit * ds
    <3>1. Unit * (ds - n) = Unit * ds - Unit * n  BY <2>3, <2>4
    <3>2. Unit * ds \in Int /\ Unit * n \in Int  BY <2>3, <2>4
    <3> QED BY <2>2, <3>1, <3>2
  <2>6. wx + Unit * Due(x) = ws + Unit * ds  BY <2>3, <2>5
  <2> QED BY <2>6 DEF Fair, wx, ws, ds, v
<1> QED BY <1>2, <1>4, <1>5 DEF Got, v

\* Relation Got is transitive,
LEMMA GotGot ==
    ASSUME NEW s \in States, NEW a \in Accounts, NEW price, NEW x, Got(s, x, a, price),
           NEW y, Got(x, y, a, price)
    PROVE  Got(s, y, a, price)
<1> DEFINE v1 == s.v
           v2 == x.v
           v3 == y.v
<1>1. /\ s \in Settlements /\ x \in Settlements /\ y \in Settlements /\ y \in States
      /\ Kept(v1) /\ Kept(v2) /\ Kept(v3)
  BY DEF Got, States
<1>2. Receiving(v1, v2) /\ Receiving(v2, v3)  BY DEF Got
<1>3. Receiving(v1, v3)
  <2> HIDE DEF v1, v2, v3
  <2>1. Moves(v1, v3)  BY <1>2, MovesMoves DEF Receiving
  <2>2. ASSUME NEW t \in Tokens
        PROVE  /\ v3.bucket[<<"fundingFeeReserve", t>>] <= v1.bucket[<<"fundingFeeReserve", t>>]
               /\ v3.bucket[<<"hlpLiquidity", t>>] <= v1.bucket[<<"hlpLiquidity", t>>]
    <3>1. /\ v1.bucket[<<"fundingFeeReserve", t>>] \in Nat /\ v2.bucket[<<"fundingFeeReserve", t>>] \in Nat
          /\ v3.bucket[<<"fundingFeeReserve", t>>] \in Nat
          /\ v1.bucket[<<"hlpLiquidity", t>>] \in Nat /\ v2.bucket[<<"hlpLiquidity", t>>] \in Nat
          /\ v3.bucket[<<"hlpLiquidity", t>>] \in Nat
      BY <1>1, Entries
    <3> QED BY <1>2, <3>1 DEF Receiving
  <2> QED BY <1>2, <2>1, <2>2 DEF Receiving
<1>4. /\ s.profit \in Nat /\ s.funding \in Nat /\ x.profit \in Nat /\ x.funding \in Nat
      /\ y.profit \in Nat /\ y.funding \in Nat
  BY <1>1 DEF Settlements
<1>5. /\ y.profit <= s.profit /\ y.funding <= s.funding
      /\ s.funding = 0 => v3.hlpDebt = v1.hlpDebt
  BY <1>4 DEF Got
<1>6. price = UnitPrice => Fair(s, y, a)  BY DEF Got, Fair
<1> QED BY <1>1, <1>3, <1>5, <1>6 DEF Got

\* and reflexive.
LEMMA GotSame ==
    ASSUME NEW s \in States, NEW a \in Accounts, NEW price
    PROVE  Got(s, s, a, price)
<1> DEFINE v == s.v
<1>1. s \in Settlements /\ Kept(v) /\ s.profit \in Nat /\ s.funding \in Nat  BY DEF States, Settlements
<1>2. Receiving(v, v)
  <2> HIDE DEF v
  <2>1. /\ \A t \in Tokens : v.bucket[<<"fundingFeeReserve", t>>] \in Nat
        /\ \A t \in Tokens : v.bucket[<<"hlpLiquidity", t>>] \in Nat
    BY <1>1, Entries
  <2> QED BY <1>1, <2>1, MovesSame DEF Receiving
<1> QED BY <1>1, <1>2 DEF Got, Fair

\* What is due is at most paid in full by each of the three payments.
LEMMA TakeFacts ==
    ASSUME NEW v, Kept(v), NEW k \in Buckets, NEW t \in Tokens, NEW value \in Nat,
           NEW price, IsPrice(price), NEW r, r = RepayAmount(v.bucket[<<k, t>>], value, price[t])
    PROVE  /\ IsRepay(r, v.bucket[<<k, t>>], value)
           /\ price[t] = Unit => r.amount = r.value
<1> DEFINE payer == v.bucket[<<k, t>>]
           p == price[t]
<1>1. payer \in Nat /\ p \in Nat \ {0}  BY Entries DEF IsPrice
<1>2. r = RepayAmount(payer, value, p)  OBVIOUS
<1> HIDE DEF payer, p
<1>3. IsRepay(r, payer, value)  BY <1>1, <1>2, RepayFacts
<1>4. p = Unit => r.amount = r.value  BY <1>1, <1>2, RepayExact
<1> QED BY <1>3, <1>4 DEF payer, p

\* What the pool lent is as before.
SameLoan(v, w) == w.hlpDebt = v.hlpDebt

\* The profit, in one token of the pool.
LEMMA ProfitFacts ==
    ASSUME NEW s \in States, NEW a \in Accounts, NEW t \in Tokens, NEW price, IsPrice(price),
           NEW x, x = ProfitFromHlp(s, a, t, price)
    PROVE  /\ Got(s, x, a, price)
           /\ x.profit = 0 \/ x.v.bucket[<<"hlpLiquidity", t>>] = 0
           /\ SameReserves(s.v, x.v) /\ SameLoan(s.v, x.v) /\ x.funding = s.funding
<1> DEFINE v == s.v
           r == RepayAmount(v.bucket[<<"hlpLiquidity", t>>], s.profit, price[t])
           n == r.amount
           m == r.value
           u == Credit(v, "hlpLiquidity", t, -n)
           w == IncreaseTrader(u, a, t, n)
<1>1. Kept(v) /\ s \in Settlements /\ s.profit \in Nat /\ s.funding \in Nat  BY DEF States, Settlements
<1>2. x = [s EXCEPT !.v = w, !.profit = s.profit - m]  BY DEF ProfitFromHlp, PayTraderProfit
<1> HIDE DEF v, r
<1>3. /\ IsRepay(r, v.bucket[<<"hlpLiquidity", t>>], s.profit)
      /\ price[t] = Unit => n = m
  BY <1>1, DebtKinds, TakeFacts DEF r
<1>4. /\ n \in Nat /\ n <= v.bucket[<<"hlpLiquidity", t>>] /\ m \in Nat /\ m <= s.profit
      /\ n = v.bucket[<<"hlpLiquidity", t>>] \/ m = s.profit
  BY <1>3 DEF IsRepay
<1> HIDE DEF n, m
<1>5. Taken(v, w, a, "hlpLiquidity", t, n) /\ w.hlpDebt = v.hlpDebt
  <2>1. u = Credit(v, "hlpLiquidity", t, -n) /\ w = IncreaseTrader(u, a, t, n)  OBVIOUS
  <2> HIDE DEF u, w
  <2> QED BY <1>1, <1>4, <2>1, DebtKinds, TakeOne
<1> HIDE DEF w, u
<1>6. Kept(w) /\ w \in Vaults  BY <1>5 DEF Taken, Moves, Kept
<1>7. /\ x \in Settlements /\ x.v = w /\ x.profit = s.profit - m /\ x.funding = s.funding
  <2>1. s.profit - m \in Nat  BY <1>1, <1>4
  <2> QED BY <1>1, <1>2, <1>6, <2>1 DEF Settlements
<1>8. x.profit <= s.profit /\ x.funding <= s.funding /\ Due(x) = Due(s) - m
  BY <1>1, <1>4, <1>7 DEF Due
<1>9. /\ Got(s, x, a, price)
      /\ x.v.bucket[<<"hlpLiquidity", t>>] = v.bucket[<<"hlpLiquidity", t>>] - n
      /\ SameReserves(v, x.v)
  <2> DEFINE k == "hlpLiquidity"
  <2>1. /\ k \in Buckets /\ Taken(s.v, w, a, k, t, n) /\ (s.funding = 0 => w.hlpDebt = s.v.hlpDebt)
    BY <1>5, DebtKinds DEF v
  <2>2. k = "hlpLiquidity"  OBVIOUS
  <2> HIDE DEF k
  <2>3. /\ Got(s, x, a, price)
        /\ x.v.bucket[<<k, t>>] = s.v.bucket[<<k, t>>] - n
        /\ k = "hlpLiquidity" => SameReserves(s.v, x.v)
    BY <1>3, <1>4, <1>7, <1>8, <2>1, GotOne
  <2> QED BY <2>2, <2>3 DEF v
<1>10. v.bucket[<<"hlpLiquidity", t>>] \in Nat  BY <1>1, Entries
<1> QED BY <1>1, <1>4, <1>5, <1>7, <1>9, <1>10 DEF v, SameLoan

\* The funding fee, out of the collected ones.
LEMMA ReserveFacts ==
    ASSUME NEW s \in States, NEW a \in Accounts, NEW t \in Tokens, NEW price, IsPrice(price),
           NEW x, x = ReceiveFromReserve(s, a, t, price)
    PROVE  /\ Got(s, x, a, price)
           /\ x.funding = 0 \/ x.v.bucket[<<"fundingFeeReserve", t>>] = 0
           /\ x.v.hlpDebt = s.v.hlpDebt
<1> DEFINE v == s.v
           r == RepayAmount(v.bucket[<<"fundingFeeReserve", t>>], s.funding, price[t])
           n == r.amount
           m == r.value
           u == Credit(v, "fundingFeeReserve", t, -n)
           w == IncreaseTrader(u, a, t, n)
<1>1. Kept(v) /\ s \in Settlements /\ s.profit \in Nat /\ s.funding \in Nat  BY DEF States, Settlements
<1>2. x = [s EXCEPT !.v = w, !.funding = s.funding - m]
  BY DEF ReceiveFromReserve, FundingFromReserve, FundingFeeFromReserve
<1> HIDE DEF v, r
<1>3. /\ IsRepay(r, v.bucket[<<"fundingFeeReserve", t>>], s.funding)
      /\ price[t] = Unit => n = m
  BY <1>1, DebtKinds, TakeFacts DEF r
<1>4. /\ n \in Nat /\ n <= v.bucket[<<"fundingFeeReserve", t>>] /\ m \in Nat /\ m <= s.funding
      /\ n = v.bucket[<<"fundingFeeReserve", t>>] \/ m = s.funding
  BY <1>3 DEF IsRepay
<1> HIDE DEF n, m
<1>5. Taken(v, w, a, "fundingFeeReserve", t, n) /\ w.hlpDebt = v.hlpDebt
  <2>1. u = Credit(v, "fundingFeeReserve", t, -n) /\ w = IncreaseTrader(u, a, t, n)  OBVIOUS
  <2> HIDE DEF u, w
  <2> QED BY <1>1, <1>4, <2>1, DebtKinds, TakeOne
<1> HIDE DEF w, u
<1>6. Kept(w) /\ w \in Vaults  BY <1>5 DEF Taken, Moves, Kept
<1>7. /\ x \in Settlements /\ x.v = w /\ x.profit = s.profit /\ x.funding = s.funding - m
  <2>1. s.funding - m \in Nat  BY <1>1, <1>4
  <2> QED BY <1>1, <1>2, <1>6, <2>1 DEF Settlements
<1>8. x.profit <= s.profit /\ x.funding <= s.funding /\ Due(x) = Due(s) - m
  BY <1>1, <1>4, <1>7 DEF Due
<1>9. /\ Got(s, x, a, price)
      /\ x.v.bucket[<<"fundingFeeReserve", t>>] = v.bucket[<<"fundingFeeReserve", t>>] - n
  <2> DEFINE k == "fundingFeeReserve"
  <2>1. /\ k \in Buckets /\ Taken(s.v, w, a, k, t, n) /\ (s.funding = 0 => w.hlpDebt = s.v.hlpDebt)
    BY <1>5, DebtKinds DEF v
  <2> HIDE DEF k
  <2>3. /\ Got(s, x, a, price)
        /\ x.v.bucket[<<k, t>>] = s.v.bucket[<<k, t>>] - n
    BY <1>3, <1>4, <1>7, <1>8, <2>1, GotOne
  <2> QED BY <2>3 DEF v, k
<1>10. v.bucket[<<"fundingFeeReserve", t>>] \in Nat  BY <1>1, Entries
<1> QED BY <1>1, <1>4, <1>5, <1>7, <1>9, <1>10 DEF v

\* The funding fee, lent by the pool.
LEMMA LoanFacts ==
    ASSUME NEW s \in States, NEW a \in Accounts, NEW t \in Tokens, NEW price, IsPrice(price),
           NEW x, x = FundingFromHlp(s, a, t, price)
    PROVE  /\ Got(s, x, a, price)
           /\ x.funding = 0 \/ x.v.bucket[<<"hlpLiquidity", t>>] = 0
           /\ SameReserves(s.v, x.v) /\ x.profit = s.profit
<1> DEFINE v == s.v
           r == RepayAmount(v.bucket[<<"hlpLiquidity", t>>], s.funding, price[t])
           n == r.amount
           m == r.value
           u == Credit(v, "hlpLiquidity", t, -n)
           z == IncreaseTrader(u, a, t, n)
           w == AddHlpDebt(z, m)
<1>1. Kept(v) /\ s \in Settlements /\ s.profit \in Nat /\ s.funding \in Nat  BY DEF States, Settlements
<1>2. x = [s EXCEPT !.v = w, !.funding = s.funding - m]  BY DEF FundingFromHlp, BorrowFundingFeeFromHlp
<1> HIDE DEF v, r
<1>3. /\ IsRepay(r, v.bucket[<<"hlpLiquidity", t>>], s.funding)
      /\ price[t] = Unit => n = m
  BY <1>1, DebtKinds, TakeFacts DEF r
<1>4. /\ n \in Nat /\ n <= v.bucket[<<"hlpLiquidity", t>>] /\ m \in Nat /\ m <= s.funding
      /\ n = v.bucket[<<"hlpLiquidity", t>>] \/ m = s.funding
  BY <1>3 DEF IsRepay
<1> HIDE DEF n, m
<1>5. Taken(v, z, a, "hlpLiquidity", t, n) /\ z.hlpDebt = v.hlpDebt
  <2>1. u = Credit(v, "hlpLiquidity", t, -n) /\ z = IncreaseTrader(u, a, t, n)  OBVIOUS
  <2> HIDE DEF u, z
  <2> QED BY <1>1, <1>4, <2>1, DebtKinds, TakeOne
<1> HIDE DEF z, u
<1>6. Kept(z) /\ z.hlpDebt \in Nat
  <2>1. Kept(z)  BY <1>5 DEF Taken, Moves
  <2> QED BY <2>1, Entries
<1>11. Lending(z, w, m)
  <2>1. m \in Int /\ z.hlpDebt + m >= 0 /\ w = AddHlpDebt(z, m)  BY <1>4, <1>6
  <2> HIDE DEF w
  <2> QED BY <1>6, <2>1, AddHlpDebtFacts
<1> HIDE DEF w
<1>12. Taken(v, w, a, "hlpLiquidity", t, n) /\ w.hlpDebt = v.hlpDebt + m
  <2>1. Moves(v, w)  BY <1>5, <1>11, MovesMoves DEF Taken, Lending
  <2> QED BY <1>5, <1>11, <2>1 DEF Taken, Lending
<1>13. Kept(w) /\ w \in Vaults  BY <1>12 DEF Taken, Moves, Kept
<1>7. /\ x \in Settlements /\ x.v = w /\ x.profit = s.profit /\ x.funding = s.funding - m
  <2>1. s.funding - m \in Nat  BY <1>1, <1>4
  <2> QED BY <1>1, <1>2, <1>13, <2>1 DEF Settlements
<1>8. x.profit <= s.profit /\ x.funding <= s.funding /\ Due(x) = Due(s) - m
  BY <1>1, <1>4, <1>7 DEF Due
<1>14. s.funding = 0 => w.hlpDebt = v.hlpDebt
  <2>1. v.hlpDebt \in Nat  BY <1>1, Entries
  <2> QED BY <1>4, <1>12, <2>1
<1>9. /\ Got(s, x, a, price)
      /\ x.v.bucket[<<"hlpLiquidity", t>>] = v.bucket[<<"hlpLiquidity", t>>] - n
      /\ SameReserves(v, x.v)
  <2> DEFINE k == "hlpLiquidity"
  <2>1. /\ k \in Buckets /\ Taken(s.v, w, a, k, t, n) /\ (s.funding = 0 => w.hlpDebt = s.v.hlpDebt)
    BY <1>12, <1>14, DebtKinds DEF v
  <2>2. k = "hlpLiquidity"  OBVIOUS
  <2> HIDE DEF k
  <2>3. /\ Got(s, x, a, price)
        /\ x.v.bucket[<<k, t>>] = s.v.bucket[<<k, t>>] - n
        /\ k = "hlpLiquidity" => SameReserves(s.v, x.v)
    BY <1>3, <1>4, <1>7, <1>8, <2>1, GotOne
  <2> QED BY <2>2, <2>3 DEF v
<1>10. v.bucket[<<"hlpLiquidity", t>>] \in Nat  BY <1>1, Entries
<1> QED BY <1>1, <1>4, <1>7, <1>9, <1>10 DEF v

\* One token of the pool pays both.
PoolPays(s, x, a, t, price) ==
    /\ Got(s, x, a, price)
    /\ Due(x) = 0 \/ x.v.bucket[<<"hlpLiquidity", t>>] = 0
    /\ SameReserves(s.v, x.v)

\* One turn of the loop over the pool.
LEMMA PoolFacts ==
    ASSUME NEW s \in States, NEW a \in Accounts, NEW t \in Tokens, NEW price, IsPrice(price),
           NEW x, x = ReceiveFromHlp(s, a, t, price)
    PROVE  PoolPays(s, x, a, t, price)
<1> DEFINE y == ProfitFromHlp(s, a, t, price)
<1>1. x = FundingFromHlp(y, a, t, price)  BY DEF ReceiveFromHlp
<1>2. /\ Got(s, y, a, price)
      /\ y.profit = 0 \/ y.v.bucket[<<"hlpLiquidity", t>>] = 0
      /\ SameReserves(s.v, y.v)
  BY ProfitFacts
<1> HIDE DEF y
<1>3. y \in States  BY <1>2 DEF Got
<1>4. /\ Got(y, x, a, price)
      /\ x.funding = 0 \/ x.v.bucket[<<"hlpLiquidity", t>>] = 0
      /\ SameReserves(y.v, x.v) /\ x.profit = y.profit
  BY <1>1, <1>3, LoanFacts
<1>5. Got(s, x, a, price)  BY <1>2, <1>4, GotGot
<1>6. /\ x.v.bucket[<<"hlpLiquidity", t>>] \in Nat /\ y.v.bucket[<<"hlpLiquidity", t>>] \in Nat
      /\ x.profit \in Nat /\ x.funding \in Nat
  <2> DEFINE v1 == x.v
             v2 == y.v
  <2>1. Kept(v1) /\ Kept(v2) /\ x \in Settlements  BY <1>3, <1>4 DEF Got, States
  <2> HIDE DEF v1, v2
  <2>2. v1.bucket[<<"hlpLiquidity", t>>] \in Nat /\ v2.bucket[<<"hlpLiquidity", t>>] \in Nat
    BY <2>1, Entries
  <2> QED BY <2>1, <2>2 DEF v1, v2, Settlements
<1>7. x.v.bucket[<<"hlpLiquidity", t>>] <= y.v.bucket[<<"hlpLiquidity", t>>]
  BY <1>4 DEF Got, Receiving
<1>8. Due(x) = 0 \/ x.v.bucket[<<"hlpLiquidity", t>>] = 0
  BY <1>2, <1>4, <1>6, <1>7 DEF Due
<1>9. SameReserves(s.v, x.v)  BY <1>2, <1>4 DEF SameReserves
<1> QED BY <1>5, <1>8, <1>9 DEF PoolPays

ReserveTurns(f, s, a, price) ==
    /\ f[0] = s
    /\ \A i \in 1..Len(HlpTokens) : f[i] = ReceiveFromReserve(f[i - 1], a, HlpTokens[i], price)
PoolTurns(f, s, a, price) ==
    /\ f[0] = s
    /\ \A i \in 1..Len(HlpTokens) : f[i] = ReceiveFromHlp(f[i - 1], a, HlpTokens[i], price)

\* The loop over the reserves is what its equation says,
LEMMA FromReservesTurns ==
    ASSUME NEW s \in States, NEW a \in Accounts, NEW price, IsPrice(price)
    PROVE  \E f : ReserveTurns(f, s, a, price) /\ FromReserves(s, a, price) = f[Len(HlpTokens)]
<1> DEFINE n == Len(HlpTokens)
           Eqn(f) == f = [i \in 0..n |-> IF i = 0 THEN s ELSE ReceiveFromReserve(f[i - 1], a, HlpTokens[i], price)]
           step == [i \in 1..n |-> [x \in States |-> ReceiveFromReserve(x, a, HlpTokens[i], price)]]
<1>1. n \in Nat  BY HlpTokensFacts
<1>2. step \in [1..n -> [States -> States]]
  <2>1. ASSUME NEW i \in 1..n, NEW x \in States
        PROVE  ReceiveFromReserve(x, a, HlpTokens[i], price) \in States
    <3>1. HlpTokens[i] \in Tokens  BY HlpTokensFacts
    <3>2. Got(x, ReceiveFromReserve(x, a, HlpTokens[i], price), a, price)
      BY <3>1, ReserveFacts
    <3> QED BY <3>2 DEF Got
  <2> QED BY <2>1
<1>3. PICK g \in [0..n -> States] : IsLoop(g, s, step, n)
  <2> HIDE DEF step, n
  <2> QED BY <1>1, <1>2, LoopIn
<1>4. Eqn(g)
  <2>1. \A i \in 1..n : step[i][g[i - 1]] = ReceiveFromReserve(g[i - 1], a, HlpTokens[i], price)
    <3> TAKE i \in 1..n
    <3>1. i - 1 \in 0..n  BY <1>1
    <3>2. g[i - 1] \in States  BY <3>1
    <3> QED BY <3>2
  <2>2. g = [i \in 0..n |-> IF i = 0 THEN s ELSE step[i][g[i - 1]]]  BY <1>3 DEF IsLoop
  <2>3. \A i \in 0..n : i # 0 => i \in 1..n  BY <1>1
  <2> HIDE DEF step, n
  <2> QED BY <2>1, <2>2, <2>3
<1> DEFINE f == CHOOSE h : Eqn(h)
<1>5. Eqn(f)
  <2> HIDE DEF Eqn
  <2> QED BY <1>4
<1>6. FromReserves(s, a, price) = f[n]  BY DEF FromReserves
<1> HIDE DEF f
<1>7. ReserveTurns(f, s, a, price)
  <2>1. \A i \in 0..n : f[i] = IF i = 0 THEN s ELSE ReceiveFromReserve(f[i - 1], a, HlpTokens[i], price)
    BY <1>5
  <2>2. 0 \in 0..n /\ \A i \in 1..n : i \in 0..n /\ i # 0  BY <1>1
  <2> QED BY <2>1, <2>2 DEF ReserveTurns
<1> QED BY <1>6, <1>7

\* and the loop over the pool.
LEMMA FromHlpTurns ==
    ASSUME NEW s \in States, NEW a \in Accounts, NEW price, IsPrice(price)
    PROVE  \E f : PoolTurns(f, s, a, price) /\ FromHlp(s, a, price) = f[Len(HlpTokens)]
<1> DEFINE n == Len(HlpTokens)
           Eqn(f) == f = [i \in 0..n |-> IF i = 0 THEN s ELSE ReceiveFromHlp(f[i - 1], a, HlpTokens[i], price)]
           step == [i \in 1..n |-> [x \in States |-> ReceiveFromHlp(x, a, HlpTokens[i], price)]]
<1>1. n \in Nat  BY HlpTokensFacts
<1>2. step \in [1..n -> [States -> States]]
  <2>1. ASSUME NEW i \in 1..n, NEW x \in States
        PROVE  ReceiveFromHlp(x, a, HlpTokens[i], price) \in States
    <3>1. HlpTokens[i] \in Tokens  BY HlpTokensFacts
    <3>2. PoolPays(x, ReceiveFromHlp(x, a, HlpTokens[i], price), a, HlpTokens[i], price)
      BY <3>1, PoolFacts
    <3> QED BY <3>2 DEF Got, PoolPays
  <2> QED BY <2>1
<1>3. PICK g \in [0..n -> States] : IsLoop(g, s, step, n)
  <2> HIDE DEF step, n
  <2> QED BY <1>1, <1>2, LoopIn
<1>4. Eqn(g)
  <2>1. \A i \in 1..n : step[i][g[i - 1]] = ReceiveFromHlp(g[i - 1], a, HlpTokens[i], price)
    <3> TAKE i \in 1..n
    <3>1. i - 1 \in 0..n  BY <1>1
    <3>2. g[i - 1] \in States  BY <3>1
    <3> QED BY <3>2
  <2>2. g = [i \in 0..n |-> IF i = 0 THEN s ELSE step[i][g[i - 1]]]  BY <1>3 DEF IsLoop
  <2>3. \A i \in 0..n : i # 0 => i \in 1..n  BY <1>1
  <2> HIDE DEF step, n
  <2> QED BY <2>1, <2>2, <2>3
<1> DEFINE f == CHOOSE h : Eqn(h)
<1>5. Eqn(f)
  <2> HIDE DEF Eqn
  <2> QED BY <1>4
<1>6. FromHlp(s, a, price) = f[n]  BY DEF FromHlp
<1> HIDE DEF f
<1>7. PoolTurns(f, s, a, price)
  <2>1. \A i \in 0..n : f[i] = IF i = 0 THEN s ELSE ReceiveFromHlp(f[i - 1], a, HlpTokens[i], price)
    BY <1>5
  <2>2. 0 \in 0..n /\ \A i \in 1..n : i \in 0..n /\ i # 0  BY <1>1
  <2> QED BY <2>1, <2>2 DEF PoolTurns
<1> QED BY <1>6, <1>7

\* The collected fees are used up, or no funding fee is left to be received.
LEMMA FromReservesFacts ==
    ASSUME NEW s \in States, NEW a \in Accounts, NEW price, IsPrice(price),
           NEW x, x = FromReserves(s, a, price)
    PROVE  /\ Got(s, x, a, price)
           /\ x.v.hlpDebt = s.v.hlpDebt
           /\ x.funding = 0 \/ \A i \in 1..Len(HlpTokens) : x.v.bucket[<<"fundingFeeReserve", HlpTokens[i]>>] = 0
<1> DEFINE n == Len(HlpTokens)
<1>1. n \in Nat /\ \A i \in 1..n : HlpTokens[i] \in Tokens  BY HlpTokensFacts
<1>2. PICK f : ReserveTurns(f, s, a, price) /\ x = f[n]  BY FromReservesTurns
<1>3. f[0] = s /\ \A i \in 1..n : f[i] = ReceiveFromReserve(f[i - 1], a, HlpTokens[i], price)
  BY <1>2 DEF ReserveTurns
<1> DEFINE Good(i) == /\ Got(s, f[i], a, price)
                      /\ f[i].v.hlpDebt = s.v.hlpDebt
                      /\ f[i].funding = 0
                           \/ \A j \in 1..i : f[i].v.bucket[<<"fundingFeeReserve", HlpTokens[j]>>] = 0
           T == {i \in 0..n : Good(i)}
<1>5. 0 \in T
  <2>1. Good(0)  BY <1>3, GotSame
  <2> QED BY <1>1, <2>1
<1>6. ASSUME NEW i \in 1..n, i - 1 \in T PROVE i \in T
  <2> DEFINE y == f[i - 1]
             z == f[i]
             t == HlpTokens[i]
  <2>1. Good(i - 1) /\ t \in Tokens /\ i \in 0..n  BY <1>1, <1>6
  <2>2. z = ReceiveFromReserve(y, a, t, price) /\ y \in States  BY <1>3, <2>1 DEF Got
  <2>3. /\ Got(y, z, a, price)
        /\ z.funding = 0 \/ z.v.bucket[<<"fundingFeeReserve", t>>] = 0
        /\ z.v.hlpDebt = y.v.hlpDebt
    <3> HIDE DEF y, z, t
    <3> QED BY <2>1, <2>2, ReserveFacts
  <2>4. Got(s, z, a, price)
    <3>1. Got(s, y, a, price)  BY <2>1
    <3> HIDE DEF y, z
    <3> QED BY <2>3, <3>1, GotGot
  <2>5. ASSUME z.funding # 0, NEW j \in 1..i
        PROVE  z.v.bucket[<<"fundingFeeReserve", HlpTokens[j]>>] = 0
    <3>1. CASE j = i  BY <2>3, <2>5, <3>1
    <3>2. CASE j # i
      <4> DEFINE v1 == y.v
                 v2 == z.v
                 u == HlpTokens[j]
      <4>1. j \in 1..(i - 1) /\ j \in 1..n /\ u \in Tokens  BY <3>2, <1>1
      <4>2. Kept(v2) /\ y \in Settlements /\ z \in Settlements  BY <2>2, <2>3 DEF Got, States
      <4>3. y.funding # 0
        <5>1. z.funding <= y.funding /\ z.funding \in Nat  BY <2>3, <4>2 DEF Got, Settlements
        <5> QED BY <2>5, <5>1
      <4>4. v1.bucket[<<"fundingFeeReserve", u>>] = 0  BY <2>1, <4>1, <4>3
      <4>5. v2.bucket[<<"fundingFeeReserve", u>>] <= v1.bucket[<<"fundingFeeReserve", u>>]
        BY <2>3, <4>1 DEF Got, Receiving
      <4>6. v2.bucket[<<"fundingFeeReserve", u>>] \in Nat
        <5> HIDE DEF v2, u
        <5> QED BY <4>1, <4>2, Entries
      <4> QED BY <4>4, <4>5, <4>6
    <3> QED BY <3>1, <3>2
  <2>6. Good(i)  BY <2>1, <2>3, <2>4, <2>5
  <2> QED BY <2>1, <2>6
<1>7. \A i \in 0..n : i \in T
  <2> HIDE DEF T, n
  <2> QED BY <1>1, <1>5, <1>6, TurnInduction
<1>8. Good(n)
  <2>1. n \in 0..n  BY <1>1
  <2> QED BY <1>7, <2>1
<1> QED BY <1>2, <1>8

\* Everything due is paid, or nothing is left in the pool.
LEMMA FromHlpFacts ==
    ASSUME NEW s \in States, NEW a \in Accounts, NEW price, IsPrice(price),
           NEW x, x = FromHlp(s, a, price)
    PROVE  /\ Got(s, x, a, price)
           /\ SameReserves(s.v, x.v)
           /\ Due(x) = 0 \/ \A i \in 1..Len(HlpTokens) : x.v.bucket[<<"hlpLiquidity", HlpTokens[i]>>] = 0
<1> DEFINE n == Len(HlpTokens)
<1>1. n \in Nat /\ \A i \in 1..n : HlpTokens[i] \in Tokens  BY HlpTokensFacts
<1>2. PICK f : PoolTurns(f, s, a, price) /\ x = f[n]  BY FromHlpTurns
<1>3. f[0] = s /\ \A i \in 1..n : f[i] = ReceiveFromHlp(f[i - 1], a, HlpTokens[i], price)
  BY <1>2 DEF PoolTurns
<1> DEFINE Good(i) == /\ Got(s, f[i], a, price)
                      /\ SameReserves(s.v, f[i].v)
                      /\ Due(f[i]) = 0
                           \/ \A j \in 1..i : f[i].v.bucket[<<"hlpLiquidity", HlpTokens[j]>>] = 0
           T == {i \in 0..n : Good(i)}
<1>5. 0 \in T
  <2>1. Good(0)  BY <1>3, GotSame DEF SameReserves
  <2> QED BY <1>1, <2>1
<1>6. ASSUME NEW i \in 1..n, i - 1 \in T PROVE i \in T
  <2> DEFINE y == f[i - 1]
             z == f[i]
             t == HlpTokens[i]
  <2>1. Good(i - 1) /\ t \in Tokens /\ i \in 0..n  BY <1>1, <1>6
  <2>2. z = ReceiveFromHlp(y, a, t, price) /\ y \in States  BY <1>3, <2>1 DEF Got
  <2>7. PoolPays(y, z, a, t, price)
    <3> HIDE DEF y, z, t
    <3> QED BY <2>1, <2>2, PoolFacts
  <2>3. /\ Got(y, z, a, price)
        /\ Due(z) = 0 \/ z.v.bucket[<<"hlpLiquidity", t>>] = 0
        /\ SameReserves(y.v, z.v)
    BY <2>7 DEF PoolPays
  <2>4. Got(s, z, a, price)
    <3>1. Got(s, y, a, price)  BY <2>1
    <3> HIDE DEF y, z
    <3> QED BY <2>3, <3>1, GotGot
  <2>5. ASSUME Due(z) # 0, NEW j \in 1..i
        PROVE  z.v.bucket[<<"hlpLiquidity", HlpTokens[j]>>] = 0
    <3>1. CASE j = i  BY <2>3, <2>5, <3>1
    <3>2. CASE j # i
      <4> DEFINE v1 == y.v
                 v2 == z.v
                 u == HlpTokens[j]
      <4>1. j \in 1..(i - 1) /\ j \in 1..n /\ u \in Tokens  BY <3>2, <1>1
      <4>2. Kept(v2) /\ y \in Settlements /\ z \in Settlements  BY <2>2, <2>3 DEF Got, States
      <4>3. Due(y) # 0
        <5>1. /\ z.funding <= y.funding /\ z.funding \in Nat /\ y.funding \in Nat
              /\ z.profit <= y.profit /\ z.profit \in Nat /\ y.profit \in Nat
          BY <2>3, <4>2 DEF Got, Settlements
        <5>2. z.profit + z.funding # 0  BY <2>5 DEF Due
        <5>3. y.profit + y.funding # 0
          <6> HIDE DEF y, z
          <6> QED BY <5>1, <5>2
        <5> QED BY <5>3 DEF Due
      <4>4. v1.bucket[<<"hlpLiquidity", u>>] = 0  BY <2>1, <4>1, <4>3
      <4>5. v2.bucket[<<"hlpLiquidity", u>>] <= v1.bucket[<<"hlpLiquidity", u>>]
        BY <2>3, <4>1 DEF Got, Receiving
      <4>6. v2.bucket[<<"hlpLiquidity", u>>] \in Nat
        <5> HIDE DEF v2, u
        <5> QED BY <4>1, <4>2, Entries
      <4> QED BY <4>4, <4>5, <4>6
    <3> QED BY <3>1, <3>2
  <2>8. SameReserves(s.v, z.v)  BY <2>1, <2>3 DEF SameReserves
  <2>6. Good(i)  BY <2>4, <2>5, <2>8
  <2> QED BY <2>1, <2>6
<1>7. \A i \in 0..n : i \in T
  <2> HIDE DEF T, n
  <2> QED BY <1>1, <1>5, <1>6, TurnInduction
<1>8. Good(n)
  <2>1. n \in 0..n  BY <1>1
  <2> QED BY <1>7, <2>1
<1> QED BY <1>2, <1>8

-----------------------------------------------------------------------------
(***************************************************************************)
(* A settlement as a whole.                                                *)
(***************************************************************************)
Plus(n) == IF n > 0 THEN n ELSE 0
Emptied(v, k) == \A i \in 1..Len(HlpTokens) : v.bucket[<<k, HlpTokens[i]>>] = 0
\* What a received, of what it was due; left is still due.
PaidIn(v, w, a, due, left, price) ==
    /\ Receiving(v, w)
    /\ w.hlpDebt > v.hlpDebt => Emptied(w, "fundingFeeReserve")
    /\ left = 0 \/ Emptied(w, "hlpLiquidity")
    /\ price = UnitPrice =>
          Worth(w, a, UnitPrice) + Unit * left = Worth(v, a, UnitPrice) + Unit * due

\* The profit in any token.
LEMMA ProfitEach ==
    ASSUME NEW s \in States, NEW a \in Accounts, NEW price, IsPrice(price)
    PROVE  \A t \in Tokens : Got(s, ProfitFromHlp(s, a, t, price), a, price)
                             /\ ProfitFromHlp(s, a, t, price).v.hlpDebt = s.v.hlpDebt
<1>1. ASSUME NEW t \in Tokens, NEW x, x = ProfitFromHlp(s, a, t, price)
      PROVE  Got(s, x, a, price) /\ x.v.hlpDebt = s.v.hlpDebt
  <2>1. Got(s, x, a, price)  BY <1>1, ProfitFacts
  <2>2. SameLoan(s.v, x.v)  BY <1>1, ProfitFacts
  <2> QED BY <2>1, <2>2 DEF SameLoan
<1> QED BY <1>1

\* The profit in the token the trader chose, if any.
LEMMA TpFacts ==
    ASSUME NEW s \in States, NEW a \in Accounts, NEW tp \in SUBSET Tokens,
           NEW price, IsPrice(price),
           NEW x, x = IF tp = {} THEN s ELSE ProfitFromHlp(s, a, CHOOSE t \in tp : TRUE, price)
    PROVE  Got(s, x, a, price) /\ x.v.hlpDebt = s.v.hlpDebt
<1>0. \A t \in Tokens : Got(s, ProfitFromHlp(s, a, t, price), a, price)
                         /\ ProfitFromHlp(s, a, t, price).v.hlpDebt = s.v.hlpDebt
  BY ProfitEach, Zenon
<1>1. CASE tp = {}
  <2>1. x = s  BY <1>1
  <2> QED BY <2>1, GotSame
<1>2. CASE tp # {}
  <2> DEFINE t == CHOOSE t \in tp : TRUE
  <2>1. t \in Tokens /\ x = ProfitFromHlp(s, a, t, price)  BY <1>2
  <2> HIDE DEF t
  <2> QED BY <1>0, <2>1, Zenon
<1> QED BY <1>1, <1>2

\* _increaseCollateral.
LEMMA IncreaseCollateralFacts ==
    ASSUME NEW v, Kept(v), NEW a \in Accounts, NEW pnl \in Int, NEW funding \in Int,
           NEW tp \in SUBSET Tokens, NEW price, IsPrice(price),
           NEW w, w = IncreaseCollateral(v, a, pnl, funding, tp, price)
    PROVE  \E left \in Nat : PaidIn(v, w, a, Plus(pnl) + Plus(-funding), left, price)
<1> DEFINE s0 == [v |-> v, profit |-> IF pnl > 0 THEN pnl ELSE 0,
                  funding |-> IF funding < 0 THEN -funding ELSE 0, fee |-> 0]
           s1 == IF tp = {} THEN s0 ELSE ProfitFromHlp(s0, a, CHOOSE t \in tp : TRUE, price)
           s2 == FromReserves(s1, a, price)
           s3 == FromHlp(s2, a, price)
<1>1. w = s3.v  BY DEF IncreaseCollateral
<1>2. s0 \in States /\ s0.v = v /\ Due(s0) = Plus(pnl) + Plus(-funding)
  <2>1. v \in Vaults  BY DEF Kept
  <2> QED BY <2>1 DEF States, Settlements, Due, Plus
<1> HIDE DEF s0
<1>3. Got(s0, s1, a, price) /\ s1.v.hlpDebt = s0.v.hlpDebt
  <2>1. s1 = IF tp = {} THEN s0 ELSE ProfitFromHlp(s0, a, CHOOSE t \in tp : TRUE, price)
    OBVIOUS
  <2> HIDE DEF s1
  <2> QED BY <1>2, <2>1, TpFacts
<1> HIDE DEF s1
<1>4. s1 \in States  BY <1>3 DEF Got
<1>5. /\ Got(s1, s2, a, price) /\ s2.v.hlpDebt = s1.v.hlpDebt
      /\ s2.funding = 0 \/ \A i \in 1..Len(HlpTokens) : s2.v.bucket[<<"fundingFeeReserve", HlpTokens[i]>>] = 0
  BY <1>4, FromReservesFacts
<1> HIDE DEF s2
<1>6. s2 \in States  BY <1>5 DEF Got
<1>7. /\ Got(s2, s3, a, price)
      /\ SameReserves(s2.v, s3.v)
      /\ Due(s3) = 0 \/ \A i \in 1..Len(HlpTokens) : s3.v.bucket[<<"hlpLiquidity", HlpTokens[i]>>] = 0
  BY <1>6, FromHlpFacts
<1> HIDE DEF s3
<1>8. Got(s0, s3, a, price)
  <2>1. Got(s0, s2, a, price)  BY <1>2, <1>3, <1>5, GotGot
  <2> QED BY <1>2, <1>7, <2>1, GotGot
<1>9. Due(s3) \in Nat
  <2>1. s3 \in Settlements  BY <1>8 DEF Got, States
  <2> QED BY <2>1 DEF Due, Settlements
<1>10. w.hlpDebt > v.hlpDebt => Emptied(w, "fundingFeeReserve")
  <2> SUFFICES ASSUME w.hlpDebt > v.hlpDebt PROVE Emptied(w, "fundingFeeReserve")
    OBVIOUS
  <2>1. s2.funding # 0
    <3>1. s2.v.hlpDebt = v.hlpDebt  BY <1>2, <1>3, <1>5
    <3>2. w.hlpDebt # v.hlpDebt
      <4>1. v.hlpDebt \in Nat  BY Entries
      <4> QED BY <4>1
    <3> QED BY <1>1, <1>7, <3>1, <3>2 DEF Got
  <2> QED BY <1>1, <1>5, <1>7, <2>1, HlpTokensFacts DEF SameReserves, Emptied
<1>11. PaidIn(v, w, a, Due(s0), Due(s3), price)
  BY <1>1, <1>2, <1>7, <1>8, <1>10 DEF PaidIn, Got, Emptied, Fair
<1> QED BY <1>2, <1>9, <1>11

\* What a debt takes from an account's worth.
LEMMA OwingPoorer ==
    ASSUME NEW v, Kept(v), NEW a \in Accounts, NEW k \in Debts, NEW n \in Int,
           NEW w, Owing(v, w, k, a, n)
    PROVE  Worth(w, a, UnitPrice) = Worth(v, a, UnitPrice) - Unit * n
<1> DEFINE f == v.traderBalances
           d == v.debt
           e == w.debt
           bv == BalanceWorth(f, a)
           ov == OwedWorth(d, a)
           ow == OwedWorth(e, a)
<1>1. Kept(w) /\ w.traderBalances = f /\ e = [d EXCEPT ![<<k, a>>] = @ + n]
  BY DEF Owing, Moves
<1>2. d \in [Debts \X Accounts -> Nat] /\ e \in [Debts \X Accounts -> Nat]
  BY <1>1 DEF Kept, Vaults
<1>3. Bumped(e, d, <<k, a>>, n)  BY <1>1, <1>2 DEF Bumped
<1>4. Worth(v, a, UnitPrice) = bv - Unit * ov /\ Worth(w, a, UnitPrice) = bv - Unit * ow
  BY <1>1, WorthIs
<1>5. bv \in Int /\ Unit \in Int  BY WorthInt, SettlementAssumption
<1> HIDE DEF d, e, f
<1>6. More(ow, ov, n)  BY <1>2, <1>3, OwedChange, Zenon
<1> HIDE DEF bv, ov, ow
<1>7. ov \in Int /\ ow = ov + n  BY <1>6 DEF More
<1>8. Unit * (ov + n) = Unit * ov + Unit * n /\ Unit * ov \in Int /\ Unit * n \in Int
  BY <1>5, <1>7
<1> QED BY <1>4, <1>5, <1>7, <1>8

\* New debts.
Owes(v, w, a, n) ==
    /\ Moves(v, w)
    /\ w.bucket = v.bucket /\ w.traderBalances = v.traderBalances /\ w.hlpDebt = v.hlpDebt
    /\ \A k \in Debts, b \in Accounts : b # a => w.debt[<<k, b>>] = v.debt[<<k, b>>]
    /\ Worth(w, a, UnitPrice) = Worth(v, a, UnitPrice) - Unit * n

\* One debt,
LEMMA OweOne ==
    ASSUME NEW v, Kept(v), NEW a \in Accounts, NEW k \in Debts, NEW n \in Nat,
           NEW w, w = AddDebt(v, k, a, n)
    PROVE  Owes(v, w, a, n)
<1>1. n \in Int /\ v.debt[<<k, a>>] + n >= 0 /\ v.debt \in [Debts \X Accounts -> Nat]
  <2>1. v.debt[<<k, a>>] \in Nat  BY Entries
  <2> QED BY <2>1 DEF Kept, Vaults
<1>2. Owing(v, w, k, a, n)  BY <1>1, AddDebtFacts, Zenon
<1>3. Worth(w, a, UnitPrice) = Worth(v, a, UnitPrice) - Unit * n  BY <1>1, <1>2, OwingPoorer
<1>4. \A j \in Debts, b \in Accounts : b # a => w.debt[<<j, b>>] = v.debt[<<j, b>>]
  BY <1>1, <1>2 DEF Owing
<1> QED BY <1>2, <1>3, <1>4 DEF Owes, Owing

\* and another.
LEMMA OweMore ==
    ASSUME NEW v, Kept(v), NEW a \in Accounts, NEW n \in Nat, NEW m \in Nat,
           NEW w, Owes(v, w, a, n), NEW x, Owes(w, x, a, m)
    PROVE  Owes(v, x, a, n + m)
<1>1. Moves(v, x)  BY MovesMoves DEF Owes
<1>2. Worth(x, a, UnitPrice) = Worth(v, a, UnitPrice) - Unit * (n + m)
  <2> DEFINE i == Worth(v, a, UnitPrice)
             j == Worth(w, a, UnitPrice)
             k == Worth(x, a, UnitPrice)
  <2>1. i \in Int /\ Unit \in Int  BY WorthInt, SettlementAssumption
  <2>2. j = i - Unit * n /\ k = j - Unit * m  BY DEF Owes
  <2> HIDE DEF i, j, k
  <2>3. Unit * (n + m) = Unit * n + Unit * m /\ Unit * n \in Int /\ Unit * m \in Int  BY <2>1
  <2>4. k = i - Unit * (n + m)  BY <2>1, <2>2, <2>3
  <2> QED BY <2>4 DEF i, k
<1> QED BY <1>1, <1>2 DEF Owes

\* The four debts of a settlement.
LEMMA IndebtedFacts ==
    ASSUME NEW v, Kept(v), NEW a \in Accounts, NEW pnl \in Int, NEW funding \in Int,
           NEW borrowing \in Nat, NEW trading \in Nat,
           NEW w, w = Indebted(v, a, pnl, funding, borrowing, trading)
    PROVE  Owes(v, w, a, ((Plus(-pnl) + trading) + borrowing) + Plus(funding))
<1> DEFINE loss == IF pnl < 0 THEN -pnl ELSE 0
           fund == IF funding > 0 THEN funding ELSE 0
           v1 == AddDebt(v, "loss", a, loss)
           v2 == AddDebt(v1, "tradingFee", a, trading)
           v3 == AddDebt(v2, "borrowingFee", a, borrowing)
           v4 == AddDebt(v3, "fundingFee", a, fund)
<1>1. w = v4  BY DEF Indebted
<1>2. loss \in Nat /\ fund \in Nat /\ loss = Plus(-pnl) /\ fund = Plus(funding)  BY DEF Plus
<1> HIDE DEF loss, fund
<1>3. Owes(v, v1, a, loss)  BY <1>2, DebtKinds, OweOne
<1> HIDE DEF v1
<1>4. Kept(v1)  BY <1>3 DEF Owes, Moves
<1>5. Owes(v1, v2, a, trading)  BY <1>4, DebtKinds, OweOne
<1> HIDE DEF v2
<1>6. Kept(v2)  BY <1>5 DEF Owes, Moves
<1>7. Owes(v2, v3, a, borrowing)  BY <1>6, DebtKinds, OweOne
<1> HIDE DEF v3
<1>8. Kept(v3)  BY <1>7 DEF Owes, Moves
<1>9. Owes(v3, v4, a, fund)  BY <1>2, <1>8, DebtKinds, OweOne
<1> HIDE DEF v4
<1> DEFINE n2 == loss + trading
           n3 == n2 + borrowing
           n4 == n3 + fund
<1>10. Owes(v, v2, a, n2) /\ n2 \in Nat
  <2>1. Owes(v, v2, a, loss + trading)  BY <1>2, <1>3, <1>5, OweMore, Zenon
  <2> QED BY <1>2, <2>1
<1> HIDE DEF n2
<1>11. Owes(v, v3, a, n3) /\ n3 \in Nat
  <2>1. Owes(v, v3, a, n2 + borrowing)  BY <1>7, <1>10, OweMore, Zenon
  <2> QED BY <1>10, <2>1
<1> HIDE DEF n3
<1>12. Owes(v, v4, a, n3 + fund)  BY <1>2, <1>9, <1>11, OweMore, Zenon
<1> QED BY <1>1, <1>2, <1>12 DEF n3, n2

\* A settlement leaves the reserves empty if it leaves the pool with more lent,
\* the pool repaid if it adds to the reserves, and no collateral in the pool's
\* tokens to an account that owes more than before.
Settling(v, w, a) ==
    /\ Moves(v, w)
    /\ w.hlpDebt > v.hlpDebt => Emptied(w, "fundingFeeReserve")
    /\ \A t \in Tokens : ReserveGrows(v, w, t) => w.hlpDebt = 0
    /\ \A k \in Debts, b \in Accounts : w.debt[<<k, b>>] > v.debt[<<k, b>>] =>
          b = a /\ \A i \in 1..Len(HlpTokens) : w.traderBalances[<<a, HlpTokens[i]>>] = 0

\* Every settlement.
LEMMA SettledFacts ==
    ASSUME NEW v, Kept(v), NEW a \in Traders, NEW pnl \in Int, NEW funding \in Int,
           NEW borrowing \in Nat, NEW trading \in Nat, NEW tp \in SUBSET Tokens,
           NEW price, IsPrice(price), NEW fee \in Nat,
           NEW w, w = Settled(v, a, pnl, funding, borrowing, trading, tp, price, fee)
    PROVE  Settling(v, w, a)
<1> DEFINE p == IncreaseCollateral(v, a, pnl, funding, tp, price)
           q == Indebted(p, a, pnl, funding, borrowing, trading)
           s == FeeState(q, fee)
           x == PaidFrom(s, a, Keeper, price)
<1>0. a \in Accounts /\ Keeper \in Accounts /\ a # Keeper  BY LedgerAssumption
<1>1. w = x.v  BY DEF Settled, DecreaseCollateral, FeeState
<1>2. PICK left \in Nat : PaidIn(v, p, a, Plus(pnl) + Plus(-funding), left, price)
  BY <1>0, IncreaseCollateralFacts
<1> HIDE DEF p
<1>3. Receiving(v, p) /\ (p.hlpDebt > v.hlpDebt => Emptied(p, "fundingFeeReserve"))
  BY <1>2 DEF PaidIn
<1>4. Kept(p)  BY <1>3 DEF Receiving, Moves
<1>5. Owes(p, q, a, ((Plus(-pnl) + trading) + borrowing) + Plus(funding))
  BY <1>0, <1>4, IndebtedFacts
<1> HIDE DEF q
<1>6. Kept(q) /\ q.bucket = p.bucket /\ q.hlpDebt = p.hlpDebt
  BY <1>5 DEF Owes, Moves
<1>7. s \in States /\ s.v = q
  <2>1. q \in Vaults  BY <1>6 DEF Kept
  <2> QED BY <1>6, <2>1 DEF States, Settlements, FeeState
<1> HIDE DEF s
<1>8. /\ Paying(s.v, x.v, a)
      /\ \A i \in 1..Len(HlpTokens), k \in Debts : Clear(x.v, k, a, HlpTokens[i])
  BY <1>0, <1>7, PaidFromFacts
<1>9. /\ Paying(q, w, a)
      /\ \A i \in 1..Len(HlpTokens), k \in Debts : Clear(w, k, a, HlpTokens[i])
  BY <1>1, <1>7, <1>8
<1> HIDE DEF x
<1>10. Moves(v, w) /\ Kept(w)
  <2>1. Moves(v, p) /\ Moves(p, q) /\ Moves(q, w)  BY <1>3, <1>5, <1>9 DEF Receiving, Owes, Paying
  <2>2. Moves(v, q)  BY <2>1, MovesMoves
  <2>3. Moves(v, w)  BY <2>1, <2>2, MovesMoves
  <2> QED BY <2>3 DEF Moves
<1>11. v.hlpDebt \in Nat /\ p.hlpDebt \in Nat /\ w.hlpDebt \in Nat
  BY <1>4, <1>10, Entries
<1>12. ASSUME NEW t \in Tokens
       PROVE  /\ v.bucket[<<"fundingFeeReserve", t>>] \in Nat
              /\ p.bucket[<<"fundingFeeReserve", t>>] \in Nat
              /\ w.bucket[<<"fundingFeeReserve", t>>] \in Nat
              /\ p.bucket[<<"fundingFeeReserve", t>>] <= v.bucket[<<"fundingFeeReserve", t>>]
              /\ w.bucket[<<"fundingFeeReserve", t>>] >= p.bucket[<<"fundingFeeReserve", t>>]
              /\ w.bucket[<<"fundingFeeReserve", t>>] > p.bucket[<<"fundingFeeReserve", t>>] => w.hlpDebt = 0
  <2>1. /\ v.bucket[<<"fundingFeeReserve", t>>] \in Nat
        /\ p.bucket[<<"fundingFeeReserve", t>>] \in Nat
        /\ w.bucket[<<"fundingFeeReserve", t>>] \in Nat
    BY <1>4, <1>10, Entries
  <2>2. p.bucket[<<"fundingFeeReserve", t>>] <= v.bucket[<<"fundingFeeReserve", t>>]
    BY <1>3 DEF Receiving
  <2>3. /\ w.bucket[<<"fundingFeeReserve", t>>] >= q.bucket[<<"fundingFeeReserve", t>>]
        /\ w.bucket[<<"fundingFeeReserve", t>>] > q.bucket[<<"fundingFeeReserve", t>>] => w.hlpDebt = 0
    BY <1>9 DEF Paying, ReserveGrows
  <2> QED BY <1>6, <2>1, <2>2, <2>3
<1>13. ASSUME w.hlpDebt > v.hlpDebt PROVE Emptied(w, "fundingFeeReserve")
  <2>1. w.hlpDebt <= p.hlpDebt  BY <1>6, <1>9 DEF Paying
  <2>2. Emptied(p, "fundingFeeReserve") /\ w.hlpDebt # 0  BY <1>3, <1>11, <1>13, <2>1
  <2>3. ASSUME NEW i \in 1..Len(HlpTokens) PROVE w.bucket[<<"fundingFeeReserve", HlpTokens[i]>>] = 0
    <3>1. HlpTokens[i] \in Tokens /\ p.bucket[<<"fundingFeeReserve", HlpTokens[i]>>] = 0
      BY <2>2, HlpTokensFacts DEF Emptied
    <3> QED BY <1>12, <2>2, <3>1
  <2> QED BY <2>3 DEF Emptied
<1>14. ASSUME NEW t \in Tokens, ReserveGrows(v, w, t) PROVE w.hlpDebt = 0
  BY <1>12, <1>14 DEF ReserveGrows
<1>15. ASSUME NEW k \in Debts, NEW b \in Accounts, w.debt[<<k, b>>] > v.debt[<<k, b>>]
       PROVE  b = a /\ \A i \in 1..Len(HlpTokens) : w.traderBalances[<<a, HlpTokens[i]>>] = 0
  <2>1. /\ v.debt[<<k, b>>] \in Nat /\ q.debt[<<k, b>>] \in Nat /\ w.debt[<<k, b>>] \in Nat
    BY <1>6, <1>10, Entries
  <2>2. w.debt[<<k, b>>] <= q.debt[<<k, b>>]  BY <1>9 DEF Paying
  <2>3. b # a => q.debt[<<k, b>>] = v.debt[<<k, b>>]  BY <1>3, <1>5 DEF Owes, Receiving
  <2>4. b = a /\ w.debt[<<k, a>>] # 0  BY <1>15, <2>1, <2>2, <2>3
  <2> QED BY <1>9, <2>4 DEF Clear
<1> QED BY <1>10, <1>13, <1>14, <1>15 DEF Settling

\* Account a has become richer by what was due, unless the pool (p) ran out.
Exactly(v, p, w, a, due) ==
    \E left \in Nat :
        /\ left = 0 \/ Emptied(p, "hlpLiquidity")
        /\ Worth(w, a, UnitPrice) - Worth(v, a, UnitPrice) = Unit * due - Unit * left

\* At prices that make conversions exact, a settlement without a fee makes the
\* account richer by what is due to it, less what the pool could not pay.
LEMMA SettledExactly ==
    ASSUME NEW v, Kept(v), NEW a \in Traders, NEW pnl \in Int, NEW funding \in Int,
           NEW borrowing \in Nat, NEW trading \in Nat, NEW tp \in SUBSET Tokens,
           NEW p, p = IncreaseCollateral(v, a, pnl, funding, tp, UnitPrice),
           NEW w, w = Settled(v, a, pnl, funding, borrowing, trading, tp, UnitPrice, 0)
    PROVE  Exactly(v, p, w, a, pnl - funding - borrowing - trading)
<1> DEFINE q == Indebted(p, a, pnl, funding, borrowing, trading)
           s == FeeState(q, 0)
           x == PaidFrom(s, a, Keeper, UnitPrice)
           due == Plus(pnl) + Plus(-funding)
           owed == ((Plus(-pnl) + trading) + borrowing) + Plus(funding)
<1>0. a \in Accounts /\ Keeper \in Accounts /\ a # Keeper  BY LedgerAssumption
<1>a. IsPrice(UnitPrice)  BY SettlementAssumption DEF IsPrice, UnitPrice
<1>1. w = x.v  BY DEF Settled, DecreaseCollateral, FeeState
<1>2. PICK left \in Nat : PaidIn(v, p, a, due, left, UnitPrice)
  BY <1>0, <1>a, IncreaseCollateralFacts
<1>3. /\ Kept(p) /\ (left = 0 \/ Emptied(p, "hlpLiquidity"))
      /\ Worth(p, a, UnitPrice) + Unit * left = Worth(v, a, UnitPrice) + Unit * due
  BY <1>2 DEF PaidIn, Receiving, Moves
<1>5. Owes(p, q, a, owed)  BY <1>0, <1>3, IndebtedFacts
<1> HIDE DEF q
<1>6. Kept(q) /\ Worth(q, a, UnitPrice) = Worth(p, a, UnitPrice) - Unit * owed
  BY <1>5 DEF Owes, Moves
<1>7. s \in States /\ s.v = q /\ s.fee = 0
  <2>1. q \in Vaults  BY <1>6 DEF Kept
  <2> QED BY <1>6, <2>1 DEF States, Settlements, FeeState
<1> HIDE DEF s
<1>8. Even(s.v, x.v, a)
  <2>1. s.fee = 0 /\ UnitPrice = UnitPrice => Even(s.v, x.v, a)  BY <1>0, <1>a, <1>7, PaidFromFacts
  <2> QED BY <1>7, <2>1
<1>9. Worth(w, a, UnitPrice) = Worth(q, a, UnitPrice)  BY <1>1, <1>7, <1>8 DEF Even
<1> HIDE DEF x
<1>10. due \in Int /\ owed \in Int /\ due - owed = pnl - funding - borrowing - trading
  BY DEF Plus
<1> DEFINE i == Worth(v, a, UnitPrice)
           j == Worth(p, a, UnitPrice)
           l == Worth(w, a, UnitPrice)
           net == pnl - funding - borrowing - trading
<1>11. i \in Int /\ j \in Int /\ Unit \in Int  BY <1>0, <1>3, WorthInt, SettlementAssumption
<1>12. j + Unit * left = i + Unit * due /\ l = j - Unit * owed /\ due - owed = net
  BY <1>3, <1>6, <1>9, <1>10
<1> HIDE DEF i, j, l, due, owed, net
<1>13. Unit * net = Unit * due - Unit * owed /\ Unit * due \in Int /\ Unit * owed \in Int /\ Unit * left \in Int
  <2>1. Unit * (due - owed) = Unit * due - Unit * owed  BY <1>10, <1>11
  <2> QED BY <1>10, <1>11, <1>12, <2>1
<1>14. l - i = Unit * net - Unit * left  BY <1>11, <1>12, <1>13
<1>15. Exactly(v, p, w, a, net)  BY <1>3, <1>14 DEF l, i, Exactly
<1> QED BY <1>15 DEF net

\* Debts are forgiven.
Forgives(v, w) ==
    /\ Moves(v, w)
    /\ w.bucket = v.bucket /\ w.traderBalances = v.traderBalances /\ w.hlpDebt = v.hlpDebt
    /\ \A k \in Debts, b \in Accounts : w.debt[<<k, b>>] <= v.debt[<<k, b>>]

\* One debt is written off.
LEMMA ForgiveFacts ==
    ASSUME NEW v, Kept(v), NEW k \in Debts, NEW a \in Accounts, NEW w, w = Forgive(v, k, a)
    PROVE  Forgives(v, w)
<1> DEFINE n == -v.debt[<<k, a>>]
<1>1. v.debt \in [Debts \X Accounts -> Nat]  BY DEF Kept, Vaults
<1>2. n \in Int /\ n <= 0 /\ v.debt[<<k, a>>] + n >= 0 /\ w = AddDebt(v, k, a, n)
  BY <1>1 DEF Forgive
<1> HIDE DEF n
<1>3. Owing(v, w, k, a, n)  BY <1>2, AddDebtFacts, Zenon
<1>4. ASSUME NEW j \in Debts, NEW b \in Accounts PROVE w.debt[<<j, b>>] <= v.debt[<<j, b>>]
  BY <1>1, <1>2, <1>3 DEF Owing
<1> QED BY <1>3, <1>4 DEF Forgives, Owing

\* Relation Forgives is transitive.
LEMMA ForgivesForgives ==
    ASSUME NEW v, Kept(v), NEW w, Forgives(v, w), NEW x, Forgives(w, x)
    PROVE  Forgives(v, x)
<1>1. Kept(w) /\ Kept(x) /\ Moves(v, x)  BY MovesMoves DEF Forgives, Moves
<1>2. ASSUME NEW k \in Debts, NEW b \in Accounts PROVE x.debt[<<k, b>>] <= v.debt[<<k, b>>]
  <2>1. v.debt[<<k, b>>] \in Nat /\ w.debt[<<k, b>>] \in Nat /\ x.debt[<<k, b>>] \in Nat
    BY <1>1, Entries
  <2> QED BY <2>1 DEF Forgives
<1> QED BY <1>1, <1>2 DEF Forgives

\* All debts are written off.
LEMMA WriteOffFacts ==
    ASSUME NEW v, Kept(v), NEW a \in Accounts, NEW w, w = WriteOff(v, a)
    PROVE  Forgives(v, w)
<1> DEFINE v1 == Forgive(v, "loss", a)
           v2 == Forgive(v1, "tradingFee", a)
           v3 == Forgive(v2, "borrowingFee", a)
           v4 == Forgive(v3, "fundingFee", a)
<1>0. w = v4  BY DEF WriteOff
<1>1. Forgives(v, v1)  BY DebtKinds, ForgiveFacts
<1> HIDE DEF v1
<1>2. Kept(v1)  BY <1>1 DEF Forgives, Moves
<1>3. Forgives(v1, v2)  BY <1>2, DebtKinds, ForgiveFacts
<1> HIDE DEF v2
<1>4. Kept(v2) /\ Forgives(v, v2)  BY <1>1, <1>3, ForgivesForgives DEF Forgives, Moves
<1>5. Forgives(v2, v3)  BY <1>4, DebtKinds, ForgiveFacts
<1> HIDE DEF v3
<1>6. Kept(v3) /\ Forgives(v, v3)  BY <1>4, <1>5, ForgivesForgives DEF Forgives, Moves
<1>7. Forgives(v3, v4)  BY <1>6, DebtKinds, ForgiveFacts
<1> HIDE DEF v4
<1> QED BY <1>0, <1>6, <1>7, ForgivesForgives

\* What is forgiven after a settlement.
LEMMA SettlingForgives ==
    ASSUME NEW v, Kept(v), NEW a \in Accounts, NEW w, Settling(v, w, a), NEW x, Forgives(w, x)
    PROVE  Settling(v, x, a)
<1>1. Moves(v, x) /\ Kept(x) /\ Kept(w)  BY MovesMoves DEF Settling, Forgives, Moves
<1>2. ASSUME NEW k \in Debts, NEW b \in Accounts, x.debt[<<k, b>>] > v.debt[<<k, b>>]
      PROVE  w.debt[<<k, b>>] > v.debt[<<k, b>>]
  <2>1. v.debt[<<k, b>>] \in Nat /\ w.debt[<<k, b>>] \in Nat /\ x.debt[<<k, b>>] \in Nat
    BY <1>1, Entries
  <2> QED BY <1>2, <2>1 DEF Forgives
<1>3. x.bucket = w.bucket /\ x.traderBalances = w.traderBalances /\ x.hlpDebt = w.hlpDebt
  BY DEF Forgives
<1>4. \A k \in Debts, b \in Accounts : x.debt[<<k, b>>] > v.debt[<<k, b>>] =>
          b = a /\ \A i \in 1..Len(HlpTokens) : x.traderBalances[<<a, HlpTokens[i]>>] = 0
  BY <1>2, <1>3 DEF Settling
<1> QED BY <1>1, <1>3, <1>4 DEF Settling, Emptied, ReserveGrows

-----------------------------------------------------------------------------
(***************************************************************************)
(* The books and the tokens: an operation keeps the vault able to pay, and *)
(* what the vault owes changes as its tokens do.                           *)
(***************************************************************************)
Backs(v, b) ==
    \A t \in Tokens :
        /\ Claims(v, t) + v.onHold[t] <= v.totalAmount[t]
        /\ v.totalAmount[t] <= b[t] + v.onHold[t]
Solvent(v, b) == Kept(v) /\ b \in [Tokens -> Nat] /\ Backs(v, b)
Conserves(v, b, w, c) ==
    \A t \in Tokens :
        (Claims(w, t) + w.onHold[t]) - (Claims(v, t) + v.onHold[t])
            = (c[t] + w.onHold[t]) - (b[t] + v.onHold[t])
Sound(v, b, w, c) == Solvent(w, c) /\ Conserves(v, b, w, c) /\ w.onHold = v.onHold

\* What the vault owes of a token, it has.
LEMMA SolventFacts ==
    ASSUME NEW v, NEW b, Solvent(v, b), NEW t \in Tokens
    PROVE  /\ Claims(v, t) \in Nat /\ v.onHold[t] \in Nat /\ v.totalAmount[t] \in Nat /\ b[t] \in Nat
           /\ Claims(v, t) + v.onHold[t] <= v.totalAmount[t]
           /\ v.totalAmount[t] <= b[t] + v.onHold[t]
           /\ Claims(v, t) <= b[t]
<1>1. Claims(v, t) \in Nat  BY ClaimsNat DEF Solvent, Kept
<1>2. v.onHold[t] \in Nat /\ v.totalAmount[t] \in Nat  BY Entries DEF Solvent
<1>3. /\ b[t] \in Nat
      /\ Claims(v, t) + v.onHold[t] <= v.totalAmount[t]
      /\ v.totalAmount[t] <= b[t] + v.onHold[t]
  BY DEF Solvent, Backs
<1> QED BY <1>1, <1>2, <1>3

\* Moving money inside the vault.
LEMMA MovesSound ==
    ASSUME NEW v, NEW b, Solvent(v, b), NEW w, Moves(v, w)
    PROVE  Sound(v, b, w, b)
<1>1. ASSUME NEW t \in Tokens
      PROVE  /\ Claims(w, t) + w.onHold[t] <= w.totalAmount[t]
             /\ w.totalAmount[t] <= b[t] + w.onHold[t]
             /\ (Claims(w, t) + w.onHold[t]) - (Claims(v, t) + v.onHold[t])
                  = (b[t] + w.onHold[t]) - (b[t] + v.onHold[t])
  <2>1. /\ Claims(v, t) \in Nat /\ v.onHold[t] \in Nat /\ v.totalAmount[t] \in Nat /\ b[t] \in Nat
        /\ Claims(v, t) + v.onHold[t] <= v.totalAmount[t]
        /\ v.totalAmount[t] <= b[t] + v.onHold[t]
    BY SolventFacts
  <2>2. Claims(w, t) = Claims(v, t) /\ w.onHold[t] = v.onHold[t] /\ w.totalAmount[t] = v.totalAmount[t]
    BY DEF Moves
  <2> QED BY <2>1, <2>2
<1> QED BY <1>1 DEF Sound, Solvent, Backs, Conserves, Moves

\* The books learn of the vault's balance of a token.
Synced(v, w, t, n) ==
    /\ Kept(w)
    /\ w.totalAmount = [v.totalAmount EXCEPT ![t] = n] /\ w.onHold = v.onHold
    /\ w.bucket = v.bucket /\ w.traderBalances = v.traderBalances
    /\ w.debt = v.debt /\ w.hlpDebt = v.hlpDebt
    /\ \A z \in Tokens : Claims(w, z) = Claims(v, z)

\* pullToken and the end of pushToken.
LEMMA SyncFacts ==
    ASSUME NEW v, Kept(v), NEW b, NEW t \in Tokens, b[t] \in Nat, NEW w, w = Sync(v, b, t)
    PROVE  Synced(v, w, t, b[t] + v.onHold[t])
<1> DEFINE n == b[t] + v.onHold[t]
           total == [v.totalAmount EXCEPT ![t] = n]
<1>1. v \in Vaults /\ n \in Nat  BY Entries DEF Kept
<1>2. total \in [Tokens -> Nat]  BY <1>1 DEF Vaults
<1>3. w = [v EXCEPT !.totalAmount = total]  BY DEF Sync
<1> HIDE DEF total
<1>4. /\ w \in Vaults /\ w.totalAmount = total /\ w.onHold = v.onHold
      /\ w.bucket = v.bucket /\ w.traderBalances = v.traderBalances
      /\ w.traderTokens = v.traderTokens /\ w.globalDebt = v.globalDebt
      /\ w.debt = v.debt /\ w.hlpDebt = v.hlpDebt
  BY <1>1, <1>2, <1>3 DEF Vaults
<1>5. Copies(w)  BY <1>4 DEF Kept, Copies, Held
<1>6. \A z \in Tokens : Claims(w, z) = Claims(v, z)  BY <1>4 DEF Claims
<1> QED BY <1>4, <1>5, <1>6 DEF Synced, Kept, total

\* The entries, then the tokens: pushToken, and deposits.
LEMMA BookedSync ==
    ASSUME NEW v, NEW b, Solvent(v, b), NEW t \in Tokens, NEW n \in Int,
           NEW u, Shift(v, u, t, n), NEW c, c = In(b, t, n), NEW w, w = Sync(u, c, t)
    PROVE  /\ Sound(v, b, w, c)
           /\ w.bucket = u.bucket /\ w.traderBalances = u.traderBalances
           /\ w.debt = u.debt /\ w.hlpDebt = u.hlpDebt
<1>1. Kept(u) /\ u.totalAmount = v.totalAmount /\ u.onHold = v.onHold
      /\ \A z \in Tokens : Claims(u, z) = Claims(v, z) + Only(z, t, n)
  BY DEF Shift
<1>2. b \in [Tokens -> Nat]  BY DEF Solvent
<1>3. c[t] = b[t] + n /\ \A z \in Tokens : z # t => c[z] = b[z]  BY <1>2 DEF In
<1>4. c[t] \in Nat
  <2>1. Claims(u, t) \in Nat  BY <1>1, ClaimsNat DEF Kept
  <2>2. Claims(v, t) \in Nat /\ b[t] \in Nat /\ Claims(v, t) <= b[t]  BY SolventFacts
  <2>3. Claims(u, t) = Claims(v, t) + n  BY <1>1 DEF Only
  <2> QED BY <1>3, <2>1, <2>2, <2>3
<1>5. c \in [Tokens -> Nat]
  <2>1. c = [z \in Tokens |-> c[z]]  BY <1>2 DEF In
  <2>2. \A z \in Tokens : c[z] \in Nat  BY <1>2, <1>3, <1>4
  <2> QED BY <2>1, <2>2
<1>6. Synced(u, w, t, c[t] + u.onHold[t])  BY <1>1, <1>4, SyncFacts
<1>7. ASSUME NEW z \in Tokens
      PROVE  /\ Claims(w, z) + w.onHold[z] <= w.totalAmount[z]
             /\ w.totalAmount[z] <= c[z] + w.onHold[z]
             /\ (Claims(w, z) + w.onHold[z]) - (Claims(v, z) + v.onHold[z])
                  = (c[z] + w.onHold[z]) - (b[z] + v.onHold[z])
  <2>1. /\ Claims(v, z) \in Nat /\ v.onHold[z] \in Nat /\ v.totalAmount[z] \in Nat /\ b[z] \in Nat
        /\ Claims(v, z) + v.onHold[z] <= v.totalAmount[z]
        /\ v.totalAmount[z] <= b[z] + v.onHold[z]
        /\ Claims(v, z) <= b[z]
    BY SolventFacts
  <2>2. Claims(w, z) = Claims(v, z) + Only(z, t, n) /\ w.onHold[z] = v.onHold[z]
    BY <1>1, <1>6 DEF Synced
  <2>3. w.totalAmount[z] = IF z = t THEN c[t] + v.onHold[t] ELSE v.totalAmount[z]
    <3>1. v.totalAmount \in [Tokens -> Nat]  BY DEF Solvent, Kept, Vaults
    <3> QED BY <1>1, <1>6, <3>1 DEF Synced
  <2>4. CASE z = t  BY <1>3, <2>1, <2>2, <2>3, <2>4 DEF Only
  <2>5. CASE z # t
    <3>1. Claims(w, z) = Claims(v, z) /\ c[z] = b[z]  BY <1>3, <2>1, <2>2, <2>5 DEF Only
    <3> QED BY <2>1, <2>2, <2>3, <2>5, <3>1
  <2> QED BY <2>4, <2>5
<1>8. w.onHold = v.onHold  BY <1>1, <1>6 DEF Synced
<1> QED BY <1>5, <1>6, <1>7, <1>8 DEF Sound, Solvent, Backs, Conserves, Synced

\* The tokens, then the entries: pullToken.
LEMMA SyncBooked ==
    ASSUME NEW v, NEW b, Solvent(v, b), NEW t \in Tokens, NEW n \in Nat,
           NEW c, c = In(b, t, n), NEW u, u = Sync(v, c, t), NEW w, Shift(u, w, t, n)
    PROVE  Sound(v, b, w, c)
<1>2. b \in [Tokens -> Nat]  BY DEF Solvent
<1>3. c[t] = b[t] + n /\ (\A z \in Tokens : z # t => c[z] = b[z]) /\ c \in [Tokens -> Nat]
  BY <1>2 DEF In
<1>4. c[t] \in Nat /\ Kept(v)  BY <1>3 DEF Solvent
<1>5. Synced(v, u, t, c[t] + v.onHold[t])  BY <1>4, SyncFacts
<1>6. ASSUME NEW z \in Tokens
      PROVE  /\ Claims(w, z) + w.onHold[z] <= w.totalAmount[z]
             /\ w.totalAmount[z] <= c[z] + w.onHold[z]
             /\ (Claims(w, z) + w.onHold[z]) - (Claims(v, z) + v.onHold[z])
                  = (c[z] + w.onHold[z]) - (b[z] + v.onHold[z])
  <2>1. /\ Claims(v, z) \in Nat /\ v.onHold[z] \in Nat /\ v.totalAmount[z] \in Nat /\ b[z] \in Nat
        /\ Claims(v, z) + v.onHold[z] <= v.totalAmount[z]
        /\ v.totalAmount[z] <= b[z] + v.onHold[z]
        /\ Claims(v, z) <= b[z]
    BY SolventFacts
  <2>2. Claims(w, z) = Claims(v, z) + Only(z, t, n) /\ w.onHold[z] = v.onHold[z]
    BY <1>5 DEF Synced, Shift
  <2>3. w.totalAmount[z] = IF z = t THEN c[t] + v.onHold[t] ELSE v.totalAmount[z]
    <3>1. v.totalAmount \in [Tokens -> Nat]  BY DEF Solvent, Kept, Vaults
    <3>2. w.totalAmount = u.totalAmount /\ u.totalAmount = [v.totalAmount EXCEPT ![t] = c[t] + v.onHold[t]]
      BY <1>5 DEF Synced, Shift
    <3> QED BY <3>1, <3>2
  <2>4. CASE z = t  BY <1>3, <2>1, <2>2, <2>3, <2>4 DEF Only
  <2>5. CASE z # t
    <3>1. Claims(w, z) = Claims(v, z) /\ c[z] = b[z]  BY <1>3, <2>1, <2>2, <2>5 DEF Only
    <3> QED BY <2>1, <2>2, <2>3, <2>5, <3>1
  <2> QED BY <2>4, <2>5
<1>7. Kept(w)  BY DEF Shift
<1>8. w.onHold = v.onHold  BY <1>5 DEF Synced, Shift
<1> QED BY <1>3, <1>6, <1>7, <1>8 DEF Sound, Solvent, Backs, Conserves

\* Two sound operations in a row are sound.
LEMMA SoundSound ==
    ASSUME NEW v, NEW b, Solvent(v, b), NEW w, NEW c, Sound(v, b, w, c),
           NEW x, NEW d, Sound(w, c, x, d)
    PROVE  Sound(v, b, x, d)
<1>1. ASSUME NEW t \in Tokens
      PROVE  (Claims(x, t) + x.onHold[t]) - (Claims(v, t) + v.onHold[t])
                = (d[t] + x.onHold[t]) - (b[t] + v.onHold[t])
  <2>1. /\ Claims(v, t) \in Nat /\ v.onHold[t] \in Nat /\ b[t] \in Nat  BY SolventFacts
  <2>2. /\ Claims(w, t) \in Nat /\ w.onHold[t] \in Nat /\ c[t] \in Nat  BY SolventFacts DEF Sound
  <2>3. /\ Claims(x, t) \in Nat /\ x.onHold[t] \in Nat /\ d[t] \in Nat  BY SolventFacts DEF Sound
  <2>4. /\ (Claims(w, t) + w.onHold[t]) - (Claims(v, t) + v.onHold[t])
              = (c[t] + w.onHold[t]) - (b[t] + v.onHold[t])
        /\ (Claims(x, t) + x.onHold[t]) - (Claims(w, t) + w.onHold[t])
              = (d[t] + x.onHold[t]) - (c[t] + w.onHold[t])
    BY DEF Sound, Conserves
  <2> QED BY <2>1, <2>2, <2>3, <2>4
<1> QED BY <1>1 DEF Sound, Conserves

-----------------------------------------------------------------------------
(***************************************************************************)
(* The operations, one by one. All but settlements leave the debts alone,  *)
(* and change the buckets or the traders' balances, never both.            *)
(***************************************************************************)
Quiet(v, w) ==
    /\ w.debt = v.debt /\ w.hlpDebt = v.hlpDebt
    /\ w.traderBalances = v.traderBalances \/ w.bucket = v.bucket
Outcome(v, b, w, c) ==
    /\ Sound(v, b, w, c)
    /\ Quiet(v, w) \/ \E a \in Traders : Settling(v, w, a)

\* What the operations are given.
LEMMA AmountsNat ==
    /\ \A n \in Amounts : n \in Nat /\ n \in Int
    /\ \A a \in Traders : a \in Accounts
    /\ \A price \in PriceMaps : IsPrice(price)
BY LedgerAssumption DEF IsPrice

\* depositCollateral.
LEMMA DepositOutcome ==
    ASSUME Solvent(vault, balance), NEW a \in Traders, NEW t \in Tokens, NEW n \in Amounts,
           DepositCollateral(a, t, n)
    PROVE  Outcome(vault, balance, vault', balance')
<1> DEFINE v == vault
           b == balance
           c == balance'
           u == IncreaseTrader(v, a, t, n)
           w == vault'
<1>1. /\ Solvent(v, b) /\ Kept(v) /\ a \in Accounts /\ n \in Nat /\ n \in Int
      /\ c = In(b, t, n) /\ w = Sync(u, c, t)
  BY AmountsNat DEF DepositCollateral, Solvent
<1>2. Increased(v, u, a, t, n)
  <2>1. u = IncreaseTrader(v, a, t, n)  OBVIOUS
  <2> HIDE DEF u, v
  <2> QED BY <1>1, <2>1, IncreaseFacts
<1> HIDE DEF u, v, b, c, w
<1>3. Shift(v, u, t, n)  BY <1>2 DEF Increased
<1>4. /\ Sound(v, b, w, c)
      /\ w.bucket = u.bucket /\ w.traderBalances = u.traderBalances
      /\ w.debt = u.debt /\ w.hlpDebt = u.hlpDebt
  BY <1>1, <1>3, BookedSync
<1>5. Quiet(v, w)  BY <1>2, <1>4 DEF Quiet, Increased
<1> QED BY <1>4, <1>5 DEF Outcome, v, b, c, w

\* withdrawCollateral: the vault has the tokens, as it owes them.
LEMMA WithdrawOutcome ==
    ASSUME Solvent(vault, balance), NEW a \in Traders, NEW t \in Tokens, NEW n \in Amounts,
           WithdrawCollateral(a, t, n)
    PROVE  Outcome(vault, balance, vault', balance')
<1> DEFINE v == vault
           b == balance
           c == balance'
           u == DeductTrader(v, a, t, n)
           w == vault'
           m == -n
<1>1. /\ Solvent(v, b) /\ Kept(v) /\ a \in Accounts /\ n \in Nat /\ m \in Int
      /\ n <= v.traderBalances[<<a, t>>]
      /\ c = In(b, t, m) /\ w = Sync(u, c, t)
  BY AmountsNat DEF WithdrawCollateral, Solvent
<1>2. Deducted(v, u, a, t, n)
  <2>1. u = DeductTrader(v, a, t, n)  OBVIOUS
  <2> HIDE DEF u, v
  <2> QED BY <1>1, <2>1, DeductFacts
<1>3. Shift(v, u, t, m)  BY <1>2 DEF Deducted
<1> HIDE DEF u, v, b, c, w, m
<1>4. /\ Sound(v, b, w, c)
      /\ w.bucket = u.bucket /\ w.traderBalances = u.traderBalances
      /\ w.debt = u.debt /\ w.hlpDebt = u.hlpDebt
  BY <1>1, <1>3, BookedSync
<1>5. Quiet(v, w)  BY <1>2, <1>4 DEF Quiet, Deducted
<1> QED BY <1>4, <1>5 DEF Outcome, v, b, c, w

\* Transfers, to the account itself included.
LEMMA TransferOutcome ==
    ASSUME Solvent(vault, balance), NEW a \in Traders, NEW d \in Accounts, NEW t \in Tokens,
           NEW n \in Amounts, TransferCollateral(a, d, t, n)
    PROVE  Outcome(vault, balance, vault', balance')
<1> DEFINE v == vault
           b == balance
           c == balance'
           u == DeductTrader(v, a, t, n)
           w == vault'
           m == -n
<1>1. /\ Solvent(v, b) /\ Kept(v) /\ a \in Accounts /\ n \in Nat /\ m \in Int /\ n \in Int /\ m + n = 0
      /\ n <= v.traderBalances[<<a, t>>]
      /\ c = b /\ w = IncreaseTrader(u, d, t, n)
  BY AmountsNat DEF TransferCollateral, Transfer, Solvent
<1>2. Deducted(v, u, a, t, n)
  <2>1. u = DeductTrader(v, a, t, n)  OBVIOUS
  <2> HIDE DEF u, v
  <2> QED BY <1>1, <2>1, DeductFacts
<1>3. Shift(v, u, t, m) /\ Kept(u)  BY <1>2 DEF Deducted, Shift
<1> HIDE DEF u, v, b, c, w, m
<1>4. Increased(u, w, d, t, n)  BY <1>1, <1>3, IncreaseFacts
<1>5. Moves(v, w)
  <2>1. Shift(u, w, t, n)  BY <1>4 DEF Increased
  <2>2. Shift(v, w, t, m + n)  BY <1>1, <1>3, <2>1, ShiftShift, Zenon
  <2>3. Shift(v, w, t, 0)  BY <1>1, <2>2
  <2> QED BY <1>1, <2>3, ShiftZero
<1>6. Sound(v, b, w, b)  BY <1>1, <1>5, MovesSound
<1>7. Quiet(v, w)  BY <1>2, <1>4 DEF Quiet, Deducted, Increased
<1> QED BY <1>1, <1>6, <1>7 DEF Outcome, v, b, c, w

\* switchCollateral, to the same token included.
LEMMA SwitchOutcome ==
    ASSUME Solvent(vault, balance), NEW a \in Traders, NEW t \in Tokens, NEW y \in Tokens,
           NEW n \in Amounts, NEW k \in Amounts, SwitchCollateral(a, t, y, n, k)
    PROVE  Outcome(vault, balance, vault', balance')
<1> DEFINE v == vault
           b == balance
           m == -n
           u == DeductTrader(v, a, t, n)
           d == In(b, t, m)
           s == Sync(u, d, t)
           c == balance'
           x == Sync(s, c, y)
           w == vault'
<1>1. /\ Solvent(v, b) /\ Kept(v) /\ a \in Accounts /\ n \in Nat /\ m \in Int /\ k \in Nat /\ k \in Int
      /\ n <= v.traderBalances[<<a, t>>]
      /\ c = In(d, y, k) /\ w = IncreaseTrader(x, a, y, k)
  BY AmountsNat DEF SwitchCollateral, Solvent
<1>2. Deducted(v, u, a, t, n)
  <2>1. u = DeductTrader(v, a, t, n)  OBVIOUS
  <2> HIDE DEF u, v
  <2> QED BY <1>1, <2>1, DeductFacts
<1>3. Shift(v, u, t, m)  BY <1>2 DEF Deducted
<1>4. d = In(b, t, m) /\ s = Sync(u, d, t) /\ x = Sync(s, c, y)  OBVIOUS
<1> HIDE DEF u, v, b, c, w, m, d, s, x
<1>5. /\ Sound(v, b, s, d)
      /\ s.bucket = u.bucket /\ s.traderBalances = u.traderBalances
      /\ s.debt = u.debt /\ s.hlpDebt = u.hlpDebt
  BY <1>1, <1>3, <1>4, BookedSync
<1>6. Solvent(s, d) /\ Kept(s)  BY <1>5 DEF Sound, Solvent
<1>7. c[y] \in Nat
  <2>1. d \in [Tokens -> Nat]  BY <1>6 DEF Solvent
  <2> QED BY <1>1, <2>1 DEF In
<1>8. Synced(s, x, y, c[y] + s.onHold[y])  BY <1>4, <1>6, <1>7, SyncFacts
<1>9. Kept(x)  BY <1>8 DEF Synced
<1>10. Increased(x, w, a, y, k)  BY <1>1, <1>9, IncreaseFacts
<1>11. Sound(s, d, w, c)
  <2>1. Shift(x, w, y, k)  BY <1>10 DEF Increased
  <2> QED BY <1>1, <1>4, <1>6, <2>1, SyncBooked
<1>12. Sound(v, b, w, c)  BY <1>1, <1>5, <1>11, SoundSound
<1>13. Quiet(v, w)  BY <1>2, <1>5, <1>8, <1>10 DEF Quiet, Deducted, Synced, Increased
<1> QED BY <1>12, <1>13 DEF Outcome, v, b, c, w

\* Buckets only.
Refilled(v, w, t, n) ==
    /\ Shift(v, w, t, n)
    /\ w.traderBalances = v.traderBalances /\ w.debt = v.debt /\ w.hlpDebt = v.hlpDebt

\* One bucket,
LEMMA RefillOne ==
    ASSUME NEW v, Kept(v), NEW k \in Buckets, NEW t \in Tokens, NEW n \in Int,
           v.bucket[<<k, t>>] + n >= 0, NEW w, w = Credit(v, k, t, n)
    PROVE  Refilled(v, w, t, n)
<1>1. Credited(v, w, k, t, n)  BY CreditFacts
<1> QED BY <1>1 DEF Credited, Refilled

\* and another of the same token.
LEMMA RefillMore ==
    ASSUME NEW v, Kept(v), NEW t \in Tokens, NEW n \in Int, NEW m \in Int,
           NEW w, Refilled(v, w, t, n), NEW x, Refilled(w, x, t, m)
    PROVE  Refilled(v, x, t, n + m)
<1>1. Shift(v, w, t, n) /\ Shift(w, x, t, m)  BY DEF Refilled
<1>2. Shift(v, x, t, n + m)  BY <1>1, ShiftShift, Zenon
<1> QED BY <1>2 DEF Refilled

\* The pool's fee is split between developers and protocol.
LEMMA CollectFeeFacts ==
    ASSUME NEW v, Kept(v), NEW t \in Tokens, NEW fee \in Nat, NEW w, w = CollectFee(v, t, fee)
    PROVE  Refilled(v, w, t, fee)
<1> DEFINE dev == DevShare(fee)
           rest == fee - dev
           sum == dev + rest
           u == Credit(v, "devFees", t, dev)
<1>1. dev \in Nat /\ dev <= fee  BY DevShareFacts
<1> HIDE DEF dev
<1>2. dev \in Int /\ rest \in Nat /\ rest \in Int /\ sum = fee  BY <1>1
<1>3. w = Credit(u, "protocolFees", t, rest)  BY DEF CollectFee, dev
<1> HIDE DEF rest
<1>4. Refilled(v, u, t, dev)
  <2>1. u = Credit(v, "devFees", t, dev)  OBVIOUS
  <2>2. v.bucket[<<"devFees", t>>] + dev >= 0
    <3>1. v.bucket[<<"devFees", t>>] \in Nat  BY DebtKinds, Entries
    <3> QED BY <1>1, <3>1
  <2> HIDE DEF u
  <2> QED BY <1>2, <2>1, <2>2, DebtKinds, RefillOne
<1> HIDE DEF u
<1>5. Kept(u)  BY <1>4 DEF Refilled, Shift
<1>6. u.bucket[<<"protocolFees", t>>] + rest >= 0
  <2>1. u.bucket[<<"protocolFees", t>>] \in Nat  BY <1>5, DebtKinds, Entries
  <2> QED BY <1>2, <2>1
<1>7. Refilled(u, w, t, rest)  BY <1>2, <1>3, <1>5, <1>6, DebtKinds, RefillOne
<1>8. Refilled(v, w, t, dev + rest)  BY <1>2, <1>4, <1>7, RefillMore, Zenon
<1> QED BY <1>2, <1>8

\* addLiquidity.
LEMMA AddOutcome ==
    ASSUME Solvent(vault, balance), NEW t \in Tokens, NEW n \in Amounts, NEW fee \in 0..n,
           AddLiquidity(t, n, fee)
    PROVE  Outcome(vault, balance, vault', balance')
<1> DEFINE v == vault
           b == balance
           c == balance'
           u == Sync(v, c, t)
           x == CollectFee(u, t, fee)
           w == vault'
           rest == n - fee
           sum == fee + rest
<1>0. n \in Nat  BY AmountsNat
<1>1. /\ Solvent(v, b) /\ Kept(v) /\ n \in Int /\ fee \in Nat /\ fee \in Int
      /\ rest \in Nat /\ rest \in Int /\ sum = n
      /\ c = In(b, t, n) /\ w = Credit(x, "hlpLiquidity", t, rest)
  BY <1>0 DEF AddLiquidity, Solvent
<1>2. u = Sync(v, c, t) /\ x = CollectFee(u, t, fee)  OBVIOUS
<1> HIDE DEF v, b, c, u, x, w, rest
<1>3. c[t] \in Nat
  <2>1. b \in [Tokens -> Nat]  BY <1>1 DEF Solvent
  <2> QED BY <1>0, <1>1, <2>1 DEF In
<1>4. Synced(v, u, t, c[t] + v.onHold[t])  BY <1>1, <1>2, <1>3, SyncFacts
<1>5. Kept(u)  BY <1>4 DEF Synced
<1>6. Refilled(u, x, t, fee)  BY <1>1, <1>2, <1>5, CollectFeeFacts
<1>7. Kept(x)  BY <1>6 DEF Refilled, Shift
<1>8. x.bucket[<<"hlpLiquidity", t>>] + rest >= 0
  <2>1. x.bucket[<<"hlpLiquidity", t>>] \in Nat  BY <1>7, Entries
  <2> QED BY <1>1, <2>1
<1>9. Refilled(x, w, t, rest)  BY <1>1, <1>7, <1>8, DebtKinds, RefillOne
<1>10. Refilled(u, w, t, fee + rest)  BY <1>1, <1>5, <1>6, <1>9, RefillMore, Zenon
<1>11. Shift(u, w, t, n)  BY <1>1, <1>10 DEF Refilled
<1>12. Sound(v, b, w, c)  BY <1>0, <1>1, <1>2, <1>11, SyncBooked
<1>13. Quiet(v, w)  BY <1>4, <1>10 DEF Quiet, Synced, Refilled
<1> QED BY <1>12, <1>13 DEF Outcome, v, b, c, w

\* removeLiquidity: the fee stays in the vault.
LEMMA RemoveOutcome ==
    ASSUME Solvent(vault, balance), NEW t \in Tokens, NEW n \in Amounts, NEW fee \in 0..n,
           RemoveLiquidity(t, n, fee)
    PROVE  Outcome(vault, balance, vault', balance')
<1> DEFINE v == vault
           b == balance
           c == balance'
           m == -n
           u == Credit(v, "hlpLiquidity", t, m)
           x == CollectFee(u, t, fee)
           w == vault'
           sum == m + fee
<1>0. n \in Nat /\ fee \in Nat  BY AmountsNat
<1>1. /\ Solvent(v, b) /\ Kept(v) /\ m \in Int /\ fee \in Int /\ sum \in Int
      /\ n <= v.bucket[<<"hlpLiquidity", t>>]
      /\ c = In(b, t, sum) /\ w = Sync(x, c, t)
  <2>1. fee - n = sum  BY <1>0
  <2>2. n + BufferLiquidity <= v.bucket[<<"hlpLiquidity", t>>]  BY DEF RemoveLiquidity
  <2>3. Kept(v)  BY DEF Solvent
  <2>4. v.bucket[<<"hlpLiquidity", t>>] \in Nat
    <3> HIDE DEF v
    <3> QED BY <2>3, Entries
  <2>5. n <= v.bucket[<<"hlpLiquidity", t>>]  BY <1>0, <2>2, <2>4, LedgerAssumption
  <2> QED BY <1>0, <2>1, <2>3, <2>5 DEF RemoveLiquidity
<1>2. v.bucket[<<"hlpLiquidity", t>>] + m >= 0
  <2> DEFINE k == v.bucket[<<"hlpLiquidity", t>>]
  <2>1. k \in Nat
    <3> HIDE DEF v
    <3> QED BY <1>1, Entries
  <2>2. n <= k  BY <1>1
  <2> HIDE DEF k
  <2>3. k + m >= 0  BY <1>0, <2>1, <2>2
  <2> QED BY <2>3 DEF k
<1>3. u = Credit(v, "hlpLiquidity", t, m) /\ x = CollectFee(u, t, fee)  OBVIOUS
<1> HIDE DEF v, b, c, u, x, w, m
<1>4. Refilled(v, u, t, m)  BY <1>1, <1>2, <1>3, DebtKinds, RefillOne
<1>5. Kept(u)  BY <1>4 DEF Refilled, Shift
<1>6. Refilled(u, x, t, fee)  BY <1>0, <1>3, <1>5, CollectFeeFacts
<1>7. Refilled(v, x, t, sum)  BY <1>1, <1>4, <1>6, RefillMore, Zenon
<1> HIDE DEF sum
<1>8. Shift(v, x, t, sum)  BY <1>7 DEF Refilled
<1>9. /\ Sound(v, b, w, c)
      /\ w.bucket = x.bucket /\ w.traderBalances = x.traderBalances
      /\ w.debt = x.debt /\ w.hlpDebt = x.hlpDebt
  BY <1>1, <1>8, BookedSync
<1>10. Quiet(v, w)  BY <1>7, <1>9 DEF Quiet, Refilled
<1> QED BY <1>9, <1>10 DEF Outcome, v, b, c, w

\* The injections of tokens into the pool and the reserve.
LEMMA InjectOutcome ==
    ASSUME Solvent(vault, balance), NEW t \in Tokens, NEW n \in Amounts,
           NEW bucket \in {"hlpLiquidity", "fundingFeeReserve"}, Inject(bucket, t, n)
    PROVE  Outcome(vault, balance, vault', balance')
<1> DEFINE v == vault
           b == balance
           c == balance'
           u == Credit(v, bucket, t, n)
           w == vault'
<1>1. /\ Solvent(v, b) /\ Kept(v) /\ bucket \in Buckets /\ n \in Nat /\ n \in Int
      /\ c = In(b, t, n) /\ w = Sync(u, c, t)
  BY AmountsNat, DebtKinds DEF Inject, Solvent
<1>2. v.bucket[<<bucket, t>>] + n >= 0
  <2> HIDE DEF v
  <2>1. v.bucket[<<bucket, t>>] \in Nat  BY <1>1, Entries
  <2> QED BY <1>1, <2>1
<1>3. u = Credit(v, bucket, t, n)  OBVIOUS
<1> HIDE DEF v, b, c, u, w
<1>4. Refilled(v, u, t, n)  BY <1>1, <1>2, <1>3, RefillOne
<1>5. Shift(v, u, t, n)  BY <1>4 DEF Refilled
<1>6. /\ Sound(v, b, w, c)
      /\ w.bucket = u.bucket /\ w.traderBalances = u.traderBalances
      /\ w.debt = u.debt /\ w.hlpDebt = u.hlpDebt
  BY <1>1, <1>5, BookedSync
<1>7. Quiet(v, w)  BY <1>4, <1>6 DEF Quiet, Refilled
<1> QED BY <1>6, <1>7 DEF Outcome, v, b, c, w

\* withdrawFee and withdrawDevFee.
LEMMA WithdrawFeeOutcome ==
    ASSUME Solvent(vault, balance), NEW t \in Tokens, NEW n \in Amounts,
           NEW bucket \in {"protocolFees", "devFees"}, WithdrawFee(bucket, t, n)
    PROVE  Outcome(vault, balance, vault', balance')
<1> DEFINE v == vault
           b == balance
           c == balance'
           m == -n
           u == Credit(v, bucket, t, m)
           w == vault'
<1>1. /\ Solvent(v, b) /\ Kept(v) /\ bucket \in Buckets /\ n \in Nat /\ m \in Int
      /\ n <= v.bucket[<<bucket, t>>]
      /\ c = In(b, t, m) /\ w = Sync(u, c, t)
  BY AmountsNat, DebtKinds DEF WithdrawFee, Solvent
<1>2. v.bucket[<<bucket, t>>] + m >= 0
  <2> DEFINE k == v.bucket[<<bucket, t>>]
  <2>1. k \in Nat
    <3> HIDE DEF v
    <3> QED BY <1>1, Entries
  <2>2. n <= k  BY <1>1
  <2> HIDE DEF k
  <2>3. k + m >= 0  BY <1>1, <2>1, <2>2
  <2> QED BY <2>3 DEF k
<1>3. u = Credit(v, bucket, t, m)  OBVIOUS
<1> HIDE DEF v, b, c, u, w, m
<1>4. Refilled(v, u, t, m)  BY <1>1, <1>2, <1>3, RefillOne
<1>5. Shift(v, u, t, m)  BY <1>4 DEF Refilled
<1>6. /\ Sound(v, b, w, c)
      /\ w.bucket = u.bucket /\ w.traderBalances = u.traderBalances
      /\ w.debt = u.debt /\ w.hlpDebt = u.hlpDebt
  BY <1>1, <1>5, BookedSync
<1>7. Quiet(v, w)  BY <1>4, <1>6 DEF Quiet, Refilled
<1> QED BY <1>6, <1>7 DEF Outcome, v, b, c, w

\* Two entries of the same token change, and their sum does not.
LEMMA TwoEntries ==
    ASSUME NEW S, IsFiniteSet(S), NEW f \in [S -> Int], NEW g \in [S -> Int],
           NEW x \in S, NEW y \in S, x # y, g[x] + g[y] = f[x] + f[y],
           \A z \in S : z # x /\ z # y => g[z] = f[z]
    PROVE  SumFunction(g) = SumFunction(f)
<1> DEFINE h == [f EXCEPT ![x] = g[x]]
<1>1. h \in [S -> Int] /\ h[x] = g[x] /\ h[y] = f[y] /\ \A z \in S : z # x => h[z] = f[z]
  OBVIOUS
<1>2. \A z \in S : z # y => g[z] = h[z]  OBVIOUS
<1> HIDE DEF h
<1>3. SumFunction(h) = SumFunction(f) + h[x] - f[x]  BY <1>1, SumFunctionChange
<1>4. SumFunction(g) = SumFunction(h) + g[y] - h[y]  BY <1>1, <1>2, SumFunctionChange
<1>5. SumFunction(f) \in Int  BY SumFunctionInt
<1> QED BY <1>1, <1>3, <1>4, <1>5

\* convertFundingFeeReserve: of each token the two buckets change by opposite amounts.
LEMMA ConvertOutcome ==
    ASSUME Solvent(vault, balance), NEW u \in Tokens, NEW price \in PriceMaps,
           ConvertReserve(u, price)
    PROVE  Outcome(vault, balance, vault', balance')
<1> DEFINE Reserve(t) == vault.bucket[<<"fundingFeeReserve", t>>]
           converted == [t \in Tokens |-> IF t = u THEN 0 ELSE (Reserve(t) * price[t]) \div price[u]]
           got == SumFunction(converted)
           D == Buckets \X Tokens
           f == vault.bucket
           g == [bt \in D |->
            CASE bt = <<"fundingFeeReserve", u>> -> f[bt] + got
              [] bt = <<"hlpLiquidity", u>>      -> f[bt] - got
              [] bt[1] = "fundingFeeReserve" /\ bt[2] # u -> 0
              [] bt[1] = "hlpLiquidity" /\ bt[2] # u      -> f[bt] + Reserve(bt[2])
              [] OTHER -> f[bt]]
           w == [vault EXCEPT !.bucket = g]
<1>0. Kept(vault) /\ vault \in Vaults /\ f \in [D -> Nat] /\ IsPrice(price)
  BY AmountsNat DEF Solvent, Kept, Vaults
<1>1. vault' = w /\ balance' = balance /\ got <= f[<<"hlpLiquidity", u>>]
  BY DEF ConvertReserve
<1>2. got \in Nat
  <2>1. \A t \in Tokens : Reserve(t) \in Nat /\ price[t] \in Nat \ {0}
    BY <1>0, DebtKinds DEF IsPrice
  <2>2. \A t \in Tokens : (Reserve(t) * price[t]) \div price[u] \in Nat
    <3> SUFFICES ASSUME NEW t \in Tokens PROVE (Reserve(t) * price[t]) \div price[u] \in Nat
      OBVIOUS
    <3> DEFINE n == Reserve(t)
               p == price[t]
               q == price[u]
    <3>1. n \in Nat /\ p \in Nat /\ q \in Nat \ {0}  BY <2>1
    <3> HIDE DEF n, p, q
    <3>2. n * p \in Nat  BY <3>1
    <3>3. (n * p) \div q \in Nat  BY <3>1, <3>2, DivBound
    <3> QED BY <3>3 DEF n, p, q
  <2>3. converted \in [Tokens -> Nat]  BY <2>2
  <2>4. IsFiniteSet(Tokens)  BY LedgerAssumption
  <2> HIDE DEF converted
  <2> QED BY <2>3, <2>4, SumFunctionNat
<1> HIDE DEF converted, got
<1>3. \A t \in Tokens : <<"fundingFeeReserve", t>> \in D /\ <<"hlpLiquidity", t>> \in D
  BY DebtKinds
<1>4. /\ g[<<"fundingFeeReserve", u>>] = f[<<"fundingFeeReserve", u>>] + got
      /\ g[<<"hlpLiquidity", u>>] = f[<<"hlpLiquidity", u>>] - got
  BY <1>3
<1>5. ASSUME NEW t \in Tokens, t # u
      PROVE  /\ g[<<"fundingFeeReserve", t>>] = 0
             /\ g[<<"hlpLiquidity", t>>] = f[<<"hlpLiquidity", t>>] + f[<<"fundingFeeReserve", t>>]
  BY <1>3, <1>5
<1>6. ASSUME NEW k \in Buckets, NEW t \in Tokens, k # "fundingFeeReserve", k # "hlpLiquidity"
      PROVE  g[<<k, t>>] = f[<<k, t>>]
  BY <1>6
<1>7. ASSUME NEW k \in Buckets, NEW t \in Tokens PROVE g[<<k, t>>] \in Nat
  <2>1. f[<<"fundingFeeReserve", t>>] \in Nat /\ f[<<"hlpLiquidity", t>>] \in Nat
    BY <1>0, <1>3
  <2>2. CASE k = "fundingFeeReserve" /\ t = u  BY <1>2, <1>4, <2>1, <2>2
  <2>3. CASE k = "hlpLiquidity" /\ t = u  BY <1>1, <1>2, <1>4, <2>1, <2>3
  <2>4. CASE k = "fundingFeeReserve" /\ t # u  BY <1>5, <2>4
  <2>5. CASE k = "hlpLiquidity" /\ t # u  BY <1>5, <2>1, <2>5
  <2>6. CASE k # "fundingFeeReserve" /\ k # "hlpLiquidity"  BY <1>0, <1>6, <2>6
  <2> QED BY <2>2, <2>3, <2>4, <2>5, <2>6
<1>8. g \in [D -> Nat]
  <2>1. DOMAIN g = D /\ g = [bt \in DOMAIN g |-> g[bt]]  OBVIOUS
  <2> HIDE DEF g
  <2>2. \A bt \in D : g[bt] \in Nat  BY <1>7
  <2> QED BY <2>1, <2>2
<1> HIDE DEF g, f, D
<1>9. /\ w \in Vaults /\ w.bucket = g /\ w.traderBalances = vault.traderBalances
      /\ w.traderTokens = vault.traderTokens /\ w.globalDebt = vault.globalDebt
      /\ w.debt = vault.debt /\ w.hlpDebt = vault.hlpDebt
      /\ w.totalAmount = vault.totalAmount /\ w.onHold = vault.onHold
  BY <1>0, <1>8 DEF Vaults, D
<1>10. ASSUME NEW t \in Tokens PROVE SumFunction(OfToken(g, t)) = SumFunction(OfToken(f, t))
  <2> DEFINE x == <<"fundingFeeReserve", t>>
             y == <<"hlpLiquidity", t>>
             F == OfToken(f, t)
             G == OfToken(g, t)
  <2>1. x \in D /\ y \in D /\ x # y /\ x[2] = t /\ y[2] = t /\ f[x] \in Nat /\ f[y] \in Nat
        /\ g[x] \in Nat /\ g[y] \in Nat
    BY <1>0, <1>3, <1>8
  <2>2. g[x] + g[y] = f[x] + f[y]
    <3>1. CASE t = u  BY <1>2, <1>4, <2>1, <3>1
    <3>2. CASE t # u  BY <1>5, <2>1, <3>2
    <3> QED BY <3>1, <3>2
  <2>3. \A z \in D : z # x /\ z # y /\ z[2] = t => g[z] = f[z]
    <3> SUFFICES ASSUME NEW z \in D, z # x, z # y, z[2] = t PROVE g[z] = f[z]
      OBVIOUS
    <3>1. PICK k \in Buckets, s \in Tokens : z = <<k, s>>  BY DEF D
    <3>2. s = t /\ k # "fundingFeeReserve" /\ k # "hlpLiquidity"  BY <3>1
    <3> QED BY <1>6, <3>1, <3>2
  <2> HIDE DEF x, y
  <2>4. /\ F = [z \in D |-> IF z[2] = t THEN f[z] ELSE 0]
        /\ G = [z \in D |-> IF z[2] = t THEN g[z] ELSE 0]
    BY <1>0, <1>8 DEF OfToken
  <2> HIDE DEF F, G
  <2>5. F \in [D -> Int] /\ G \in [D -> Int]  BY <1>0, <1>8, <2>4
  <2>6. G[x] + G[y] = F[x] + F[y]  BY <2>1, <2>2, <2>4
  <2>7. \A z \in D : z # x /\ z # y => G[z] = F[z]  BY <2>3, <2>4
  <2>8. IsFiniteSet(D)  BY KeysFinite DEF D
  <2>9. SumFunction(G) = SumFunction(F)  BY <2>1, <2>5, <2>6, <2>7, <2>8, TwoEntries
  <2> QED BY <2>9 DEF F, G
<1>11. \A t \in Tokens : Claims(w, t) = Claims(vault, t)  BY <1>9, <1>10 DEF Claims, f
<1>12. Copies(w)  BY <1>0, <1>9 DEF Kept, Copies, Held
<1>13. Moves(vault, w)  BY <1>9, <1>11, <1>12 DEF Moves, Kept
<1>14. Sound(vault, balance, w, balance)
  <2> HIDE DEF w
  <2> QED BY <1>13, MovesSound
<1>15. Quiet(vault, w)  BY <1>9 DEF Quiet
<1> QED BY <1>1, <1>14, <1>15 DEF Outcome

\* withdrawFundingFeeSurplus: at most the reserve is moved.
LEMMA SurplusOutcome ==
    ASSUME Solvent(vault, balance), NEW u \in Tokens, NEW book \in Borrowings,
           NEW price \in PriceMaps, WithdrawFundingFeeSurplus(u, book, price)
    PROVE  Outcome(vault, balance, vault', balance')
<1> DEFINE v == vault
           b == balance
           w == vault'
           reserve == v.bucket[<<"fundingFeeReserve", u>>]
           p == price[u]
           value == (reserve * p) \div Unit
           r == RepayAmount(reserve, value - book, p)
           n == r.amount
           m == -n
           z == m + n
           x == Credit(v, "fundingFeeReserve", u, m)
<1>0. /\ Solvent(v, b) /\ Kept(v) /\ book <= value /\ balance' = b
      /\ w = Credit(x, "hlpLiquidity", u, n)
  BY DEF WithdrawFundingFeeSurplus, ReserveToHlp, Solvent
<1>1. reserve \in Nat
  <2> HIDE DEF v
  <2> QED BY <1>0, Entries
<1>2. p \in Nat \ {0} /\ book \in Nat /\ Unit \in Nat \ {0}
  BY AmountsNat, LedgerAssumption, SettlementAssumption DEF IsPrice
<1>3. value - book \in Nat
  <2> HIDE DEF reserve, p
  <2>1. reserve * p \in Nat  BY <1>1, <1>2
  <2>2. value \in Nat  BY <1>2, <2>1, DivBound
  <2> HIDE DEF value
  <2> QED BY <1>0, <1>2, <2>2
<1>4. n \in Nat /\ n <= reserve
  <2> DEFINE k == value - book
  <2>1. r = RepayAmount(reserve, k, p) /\ k \in Nat  BY <1>3
  <2> HIDE DEF reserve, p, k, r
  <2>2. IsRepay(r, reserve, k)  BY <1>1, <1>2, <2>1, RepayFacts
  <2> QED BY <2>2 DEF IsRepay
<1> HIDE DEF n
<1>5. /\ m \in Int /\ n \in Int /\ z = 0 /\ reserve + m >= 0
      /\ x = Credit(v, "fundingFeeReserve", u, m)
  <2> HIDE DEF reserve
  <2> QED BY <1>1, <1>4
<1>6. v.bucket[<<"fundingFeeReserve", u>>] + m >= 0  BY <1>5
<1> HIDE DEF v, b, w, m, x
<1>7. Refilled(v, x, u, m)  BY <1>0, <1>5, <1>6, DebtKinds, RefillOne
<1>8. Kept(x)  BY <1>7 DEF Refilled, Shift
<1>9. x.bucket[<<"hlpLiquidity", u>>] + n >= 0
  <2>1. x.bucket[<<"hlpLiquidity", u>>] \in Nat  BY <1>8, Entries
  <2> QED BY <1>4, <2>1
<1>10. Refilled(x, w, u, n)  BY <1>0, <1>5, <1>8, <1>9, DebtKinds, RefillOne
<1>11. Refilled(v, w, u, m + n)  BY <1>0, <1>5, <1>7, <1>10, RefillMore, Zenon
<1>12. Moves(v, w)
  <2>1. Shift(v, w, u, 0)  BY <1>5, <1>11 DEF Refilled
  <2> QED BY <1>0, <2>1, ShiftZero
<1>13. Sound(v, b, w, b)  BY <1>0, <1>12, MovesSound
<1>14. Quiet(v, w)  BY <1>11 DEF Quiet, Refilled
<1> QED BY <1>0, <1>13, <1>14 DEF Outcome, v, b, w

\* Tokens nobody told the vault of are covered as well.
LEMMA DonateSolvent ==
    ASSUME Solvent(vault, balance), NEW t \in Tokens, NEW n \in Amounts, Donate(t, n)
    PROVE  Solvent(vault', balance') /\ vault' = vault
<1>1. n \in Nat /\ balance \in [Tokens -> Nat] /\ balance' = In(balance, t, n) /\ vault' = vault
  BY AmountsNat DEF Donate, Solvent
<1>2. balance' \in [Tokens -> Nat] /\ \A z \in Tokens : balance'[z] >= balance[z]
  BY <1>1 DEF In
<1>3. ASSUME NEW z \in Tokens
      PROVE  /\ Claims(vault, z) + vault.onHold[z] <= vault.totalAmount[z]
             /\ vault.totalAmount[z] <= balance'[z] + vault.onHold[z]
  <2> DEFINE v == vault
             b == balance
             k == balance'[z]
  <2>1. k \in Nat /\ k >= b[z] /\ Solvent(v, b)  BY <1>2
  <2> HIDE DEF v, b, k
  <2>2. /\ v.onHold[z] \in Nat /\ v.totalAmount[z] \in Nat /\ b[z] \in Nat
        /\ Claims(v, z) + v.onHold[z] <= v.totalAmount[z]
        /\ v.totalAmount[z] <= b[z] + v.onHold[z]
    BY <2>1, SolventFacts
  <2>3. v.totalAmount[z] <= k + v.onHold[z]  BY <2>1, <2>2
  <2> QED BY <2>2, <2>3 DEF v, k
<1> QED BY <1>1, <1>2, <1>3 DEF Solvent, Backs

\* Take-profit tokens are tokens.
LEMMA TpTokensFacts == \A tp \in TpTokens : tp \in SUBSET Tokens
BY HlpTokensFacts DEF TpTokens

\* A trade.
LEMMA TradeOutcome ==
    ASSUME Solvent(vault, balance), NEW a \in Traders, NEW price \in PriceMaps, NEW pnl \in Pnls,
           NEW funding \in Fundings, NEW borrowing \in Borrowings, NEW trading \in Tradings,
           NEW tp \in TpTokens, Trade(a, pnl, funding, borrowing, trading, tp, price)
    PROVE  Outcome(vault, balance, vault', balance')
<1> DEFINE v == vault
           b == balance
           w == vault'
           fee == 0
<1>1. /\ Solvent(v, b) /\ Kept(v) /\ balance' = b /\ fee \in Nat
      /\ pnl \in Int /\ funding \in Int /\ borrowing \in Nat /\ trading \in Nat
      /\ IsPrice(price) /\ tp \in SUBSET Tokens
      /\ w = Settled(v, a, pnl, funding, borrowing, trading, tp, price, fee)
  BY AmountsNat, LedgerAssumption, TpTokensFacts DEF Trade, Solvent
<1> HIDE DEF v, b, w, fee
<1>2. Settling(v, w, a)  BY <1>1, SettledFacts
<1>3. Sound(v, b, w, b)  BY <1>1, <1>2, MovesSound DEF Settling
<1> QED BY <1>1, <1>2, <1>3 DEF Outcome, v, b, w

\* A liquidation.
LEMMA LiquidateOutcome ==
    ASSUME Solvent(vault, balance), NEW a \in Traders, NEW price \in PriceMaps, NEW pnl \in Pnls,
           NEW funding \in Fundings, NEW borrowing \in Borrowings, NEW trading \in Tradings,
           Liquidate(a, pnl, funding, borrowing, trading, price)
    PROVE  Outcome(vault, balance, vault', balance')
<1> DEFINE v == vault
           b == balance
           w == vault'
           tp == {}
           s == Settled(v, a, pnl, funding, borrowing, trading, tp, price, LiquidationFee)
<1>1. /\ Solvent(v, b) /\ Kept(v) /\ balance' = b /\ LiquidationFee \in Nat
      /\ pnl \in Int /\ funding \in Int /\ borrowing \in Nat /\ trading \in Nat
      /\ IsPrice(price) /\ tp \in SUBSET Tokens /\ a \in Accounts
      /\ w = WriteOff(s, a)
  BY AmountsNat, LedgerAssumption DEF Liquidate, Solvent
<1>2. s = Settled(v, a, pnl, funding, borrowing, trading, tp, price, LiquidationFee)  OBVIOUS
<1> HIDE DEF v, b, w, tp, s
<1>3. Settling(v, s, a)  BY <1>1, <1>2, SettledFacts
<1>4. Kept(s)  BY <1>3 DEF Settling, Moves
<1>5. Forgives(s, w)  BY <1>1, <1>4, WriteOffFacts
<1>6. Settling(v, w, a)  BY <1>1, <1>3, <1>5, SettlingForgives
<1>7. Sound(v, b, w, b)  BY <1>1, <1>6, MovesSound DEF Settling
<1> QED BY <1>1, <1>6, <1>7 DEF Outcome, v, b, w

\* collectExecutionFeeFromCollateral.
LEMMA ExecutionFeeOutcome ==
    ASSUME Solvent(vault, balance), NEW a \in Traders, NEW price \in PriceMaps,
           PayExecutionFee(a, price)
    PROVE  Outcome(vault, balance, vault', balance')
<1> DEFINE v == vault
           b == balance
           w == vault'
<1>1. /\ Solvent(v, b) /\ Kept(v) /\ balance' = b /\ ExecutionFee \in Nat
      /\ IsPrice(price) /\ a \in Accounts /\ Keeper \in Accounts /\ a # Keeper
      /\ w = CollectExecutionFee(v, a, ExecutionFee, Keeper, price)
  BY AmountsNat, LedgerAssumption DEF PayExecutionFee, Solvent
<1> HIDE DEF v, b, w
<1>2. /\ Moves(v, w)
      /\ w.hlpDebt = v.hlpDebt /\ w.bucket = v.bucket
      /\ \A k \in Debts, d \in Accounts : w.debt[<<k, d>>] > v.debt[<<k, d>>] =>
            d = a /\ \A t \in Tokens : w.traderBalances[<<a, t>>] = 0
  BY <1>1, ExecutionFeeFacts
<1>3. Settling(v, w, a)
  <2>1. v.hlpDebt \in Nat /\ \A t \in Tokens : v.bucket[<<"fundingFeeReserve", t>>] \in Nat
    BY <1>1, Entries
  <2> QED BY <1>2, <2>1, HlpTokensFacts DEF Settling, ReserveGrows
<1>4. Sound(v, b, w, b)  BY <1>1, <1>2, MovesSound
<1> QED BY <1>1, <1>3, <1>4 DEF Outcome, v, b, w

-----------------------------------------------------------------------------
(***************************************************************************)
(* The theorems. IndInv is inductive: what the vault owes bounds every     *)
(* payment from above, which keeps the books natural, and the copies are   *)
(* what makes the execution fee's loop reach every token of the account.   *)
(***************************************************************************)
IndInv == TypeOK /\ Backed /\ CopiesAgree

\* The inductive invariant says that the vault is solvent,
LEMMA IndInvSolvent == IndInv <=> Solvent(vault, balance)
BY CopiesAgreeIs DEF IndInv, TypeOK, Backed, Solvent, Kept, Backs

\* and so it does of the next state.
LEMMA SolventNext == Solvent(vault', balance') => TypeOK' /\ Backed' /\ CopiesAgree'
BY CopiesAgreeNext DEF TypeOK, Backed, Solvent, Kept, Backs

\* The empty vault is.
LEMMA InitSolvent == Init => Solvent(vault, balance)
<1> SUFFICES ASSUME Init PROVE Solvent(vault, balance)
  OBVIOUS
<1> DEFINE v == EmptyVault
<1>1. vault = v /\ balance = [t \in Tokens |-> 0]  BY DEF Init
<1>2. v \in Vaults
  <2>1. <<>> \in Seq(Tokens)  OBVIOUS
  <2> QED BY <2>1 DEF EmptyVault, Vaults
<1>3. \A k \in Debts : v.globalDebt[k] = SumFunction(DebtsOf(v.debt, k))
  <2> SUFFICES ASSUME NEW k \in Debts PROVE v.globalDebt[k] = SumFunction(DebtsOf(v.debt, k))
    OBVIOUS
  <2> DEFINE f == DebtsOf(v.debt, k)
  <2>1. f \in [Debts \X Accounts -> Int] /\ \A x \in Debts \X Accounts : f[x] = 0
    BY DEF DebtsOf, EmptyVault
  <2>2. v.globalDebt[k] = 0  BY DEF EmptyVault
  <2> HIDE DEF f
  <2>3. SumFunction(f) = 0  BY <2>1, KeysFinite, SumFunctionZero
  <2> QED BY <2>2, <2>3 DEF f
<1>4. \A a \in Accounts : Elems(v.traderTokens[a]) = Held(v, a) /\ Distinct(v.traderTokens[a])
  <2> SUFFICES ASSUME NEW a \in Accounts
               PROVE  Elems(v.traderTokens[a]) = Held(v, a) /\ Distinct(v.traderTokens[a])
    OBVIOUS
  <2>1. v.traderTokens[a] = <<>> /\ \A t \in Tokens : v.traderBalances[<<a, t>>] = 0
    BY DEF EmptyVault
  <2>2. Held(v, a) = {}  BY <2>1 DEF Held
  <2>3. Elems(<<>>) = {} /\ Distinct(<<>>)  BY DEF Elems, Distinct
  <2> QED BY <2>1, <2>2, <2>3
<1>5. Kept(v)  BY <1>2, <1>3, <1>4 DEF Kept, Copies
<1>6. ASSUME NEW t \in Tokens PROVE Claims(v, t) = 0
  <2> DEFINE F == OfToken(v.bucket, t)
             G == OfToken(v.traderBalances, t)
  <2>1. F \in [Buckets \X Tokens -> Int] /\ \A x \in Buckets \X Tokens : F[x] = 0
    BY DEF OfToken, EmptyVault
  <2>2. G \in [Accounts \X Tokens -> Int] /\ \A x \in Accounts \X Tokens : G[x] = 0
    BY DEF OfToken, EmptyVault
  <2> HIDE DEF F, G
  <2>3. SumFunction(F) = 0  BY <2>1, KeysFinite, SumFunctionZero
  <2>4. SumFunction(G) = 0  BY <2>2, KeysFinite, SumFunctionZero
  <2> QED BY <2>3, <2>4 DEF Claims, F, G
<1>7. \A t \in Tokens : v.onHold[t] = 0 /\ v.totalAmount[t] = 0  BY DEF EmptyVault
<1> HIDE DEF v
<1>8. Backs(v, balance)  BY <1>1, <1>6, <1>7 DEF Backs
<1> QED BY <1>1, <1>5, <1>8 DEF Solvent

\* Every step has one of these outcomes.
LEMMA StepOutcome ==
    ASSUME Solvent(vault, balance), [Next]_vars
    PROVE  \/ Outcome(vault, balance, vault', balance')
           \/ vault' = vault /\ Solvent(vault', balance')
<1>1. CASE Collateral
  <2>1. PICK a \in Traders, t \in Tokens, n \in Amounts :
           \/ DepositCollateral(a, t, n)
           \/ WithdrawCollateral(a, t, n)
           \/ \E b \in Accounts : TransferCollateral(a, b, t, n)
           \/ \E u \in Tokens, m \in Amounts : SwitchCollateral(a, t, u, n, m)
    BY <1>1 DEF Collateral
  <2> QED BY <2>1, DepositOutcome, WithdrawOutcome, TransferOutcome, SwitchOutcome
<1>2. CASE Liquidity
  <2>1. PICK t \in Tokens, n \in Amounts : \E fee \in 0..n :
           AddLiquidity(t, n, fee) \/ RemoveLiquidity(t, n, fee)
    BY <1>2 DEF Liquidity
  <2> QED BY <2>1, AddOutcome, RemoveOutcome
<1>3. CASE Trading
  <2>1. PICK a \in Traders, price \in PriceMaps :
           \/ \E pnl \in Pnls, funding \in Fundings, borrowing \in Borrowings, trading \in Tradings :
                 \/ \E tp \in TpTokens : Trade(a, pnl, funding, borrowing, trading, tp, price)
                 \/ Liquidate(a, pnl, funding, borrowing, trading, price)
           \/ PayExecutionFee(a, price)
    BY <1>3 DEF Trading
  <2> QED BY <2>1, TradeOutcome, LiquidateOutcome, ExecutionFeeOutcome
<1>4. CASE Keepers
  <2>1. PICK t \in Tokens :
           \/ \E price \in PriceMaps :
                 \/ ConvertReserve(t, price)
                 \/ \E book \in Borrowings : WithdrawFundingFeeSurplus(t, book, price)
           \/ \E n \in Amounts :
                 \/ Donate(t, n)
                 \/ \E bucket \in {"hlpLiquidity", "fundingFeeReserve"} : Inject(bucket, t, n)
                 \/ \E bucket \in {"protocolFees", "devFees"} : WithdrawFee(bucket, t, n)
    BY <1>4 DEF Keepers
  <2> QED BY <2>1, ConvertOutcome, SurplusOutcome, DonateSolvent, InjectOutcome, WithdrawFeeOutcome
<1>5. CASE UNCHANGED vars  BY <1>5 DEF vars
<1> QED BY <1>1, <1>2, <1>3, <1>4, <1>5 DEF Next

\* Every step keeps it so.
LEMMA IndInvNext == IndInv /\ [Next]_vars => IndInv'
<1> SUFFICES ASSUME Solvent(vault, balance), [Next]_vars PROVE IndInv'
  BY IndInvSolvent
<1>1. Solvent(vault', balance')  BY StepOutcome DEF Outcome, Sound
<1> QED BY <1>1, SolventNext DEF IndInv

\* So it always is.
LEMMA IndInvAlways == Spec => []IndInv
<1>1. Init => IndInv  BY InitSolvent, IndInvSolvent
<1> QED BY <1>1, IndInvNext, PTL DEF Spec

\* No bucket, balance or debt ever goes below zero, so no payment of a
\* settlement ever asks for more than is there: TradeHelper's waterfall, the
\* execution fee and the keepers' conversions never revert on the books.
THEOREM TypeCorrect == Spec => []TypeOK
BY IndInvAlways, PTL DEF IndInv

\* The vault can pay whatever it owes, in every token.
THEOREM VaultBacked == Spec => []Backed
BY IndInvAlways, PTL DEF IndInv

\* The global debts are the sums of the accounts', and an account's list of
\* tokens names those it has a balance of, once each.
THEOREM VaultCopies == Spec => []CopiesAgree
BY IndInvAlways, PTL DEF IndInv

\* What the vault owes changes as its tokens do.
THEOREM MoneyConserved == Spec => Conserved
<1>1. IndInv /\ [Next]_vars =>
        [vault' # vault =>
            \A t \in Tokens :
                (Claims(vault, t) + vault.onHold[t])' - (Claims(vault, t) + vault.onHold[t])
                    = (balance[t] + vault.onHold[t])' - (balance[t] + vault.onHold[t])]_vars
  <2> SUFFICES ASSUME Solvent(vault, balance), [Next]_vars, vault' # vault, NEW t \in Tokens
               PROVE  (Claims(vault, t) + vault.onHold[t])' - (Claims(vault, t) + vault.onHold[t])
                         = (balance[t] + vault.onHold[t])' - (balance[t] + vault.onHold[t])
    BY IndInvSolvent
  <2>1. Conserves(vault, balance, vault', balance')  BY StepOutcome DEF Outcome, Sound
  <2> QED BY <2>1 DEF Conserves
<1> QED BY <1>1, IndInvAlways, PTL DEF Spec, Conserved

\* The pool lends for funding fees last and is repaid first.
THEOREM PoolLendsLast == Spec => LendsLastRepaidFirst
<1>1. IndInv /\ [Next]_vars =>
        [/\ vault'.hlpDebt > vault.hlpDebt =>
              \A i \in 1..Len(HlpTokens) : Reserves(vault)'[HlpTokens[i]] = 0
         /\ (/\ \E t \in Tokens : Reserves(vault)'[t] > Reserves(vault)[t]
             /\ \E at \in Accounts \X Tokens : vault'.traderBalances[at] < vault.traderBalances[at])
              => vault'.hlpDebt = 0]_vars
  <2> SUFFICES ASSUME Solvent(vault, balance), [Next]_vars
               PROVE  /\ vault'.hlpDebt > vault.hlpDebt =>
                           \A i \in 1..Len(HlpTokens) : Reserves(vault)'[HlpTokens[i]] = 0
                      /\ (/\ \E t \in Tokens : Reserves(vault)'[t] > Reserves(vault)[t]
                          /\ \E at \in Accounts \X Tokens : vault'.traderBalances[at] < vault.traderBalances[at])
                           => vault'.hlpDebt = 0
    BY IndInvSolvent
  <2>1. /\ Kept(vault)
        /\ vault.hlpDebt \in Nat
        /\ \A t \in Tokens : vault.bucket[<<"fundingFeeReserve", t>>] \in Nat
        /\ \A a \in Accounts, t \in Tokens : vault.traderBalances[<<a, t>>] \in Nat
    BY Entries DEF Solvent
  <2>2. /\ \A t \in Tokens : Reserves(vault)[t] = vault.bucket[<<"fundingFeeReserve", t>>]
        /\ \A t \in Tokens : Reserves(vault)'[t] = vault'.bucket[<<"fundingFeeReserve", t>>]
    BY DEF Reserves
  <2>3. CASE \E a \in Traders : Settling(vault, vault', a)
    BY <2>2, <2>3, HlpTokensFacts DEF Settling, Emptied, ReserveGrows
  <2>4. CASE Quiet(vault, vault') \/ vault' = vault
    <3>1. vault'.hlpDebt = vault.hlpDebt /\ (vault'.traderBalances = vault.traderBalances \/ vault'.bucket = vault.bucket)
      BY <2>4 DEF Quiet
    <3>2. ~ (vault'.hlpDebt > vault.hlpDebt)  BY <2>1, <3>1
    <3>3. CASE vault'.traderBalances = vault.traderBalances
      <4>1. \A at \in Accounts \X Tokens : ~ (vault'.traderBalances[at] < vault.traderBalances[at])
        BY <2>1, <3>3
      <4> QED BY <3>2, <4>1
    <3>4. CASE vault'.bucket = vault.bucket
      <4>1. ASSUME NEW t \in Tokens PROVE ~ (Reserves(vault)'[t] > Reserves(vault)[t])
        <5> DEFINE m == vault.bucket[<<"fundingFeeReserve", t>>]
        <5>1. Reserves(vault)'[t] = m /\ Reserves(vault)[t] = m /\ m \in Nat
          BY <2>1, <2>2, <3>4
        <5> HIDE DEF m
        <5> QED BY <5>1
      <4> QED BY <3>2, <4>1
    <3> QED BY <3>1, <3>3, <3>4
  <2> QED BY <2>3, <2>4, StepOutcome DEF Outcome
<1> QED BY <1>1, IndInvAlways, PTL DEF Spec, LendsLastRepaidFirst

\* An account comes to owe more only when its collateral in the pool's tokens
\* is used up.
THEOREM DebtIsLast == Spec => OwesOnlyWhenEmpty
<1>1. IndInv /\ [Next]_vars =>
        [\A ka \in Debts \X Accounts : vault'.debt[ka] > vault.debt[ka] =>
            \A i \in 1..Len(HlpTokens) : vault'.traderBalances[<<ka[2], HlpTokens[i]>>] = 0]_vars
  <2> SUFFICES ASSUME Solvent(vault, balance), [Next]_vars, NEW ka \in Debts \X Accounts,
                      vault'.debt[ka] > vault.debt[ka], NEW i \in 1..Len(HlpTokens)
               PROVE  vault'.traderBalances[<<ka[2], HlpTokens[i]>>] = 0
    BY IndInvSolvent
  <2>1. PICK k \in Debts, b \in Accounts : ka = <<k, b>>  OBVIOUS
  <2>2. vault.debt[<<k, b>>] \in Nat  BY Entries DEF Solvent
  <2>3. vault'.debt # vault.debt  BY <2>1, <2>2
  <2>4. PICK a \in Traders : Settling(vault, vault', a)  BY <2>3, StepOutcome DEF Outcome, Quiet
  <2>5. b = a /\ vault'.traderBalances[<<a, HlpTokens[i]>>] = 0  BY <2>1, <2>4 DEF Settling
  <2> QED BY <2>1, <2>5
<1> QED BY <1>1, IndInvAlways, PTL DEF Spec, OwesOnlyWhenEmpty

\* At prices that make conversions exact, a settlement changes what the trader
\* is worth by exactly what is due, or by less if the pool is out of tokens.
THEOREM SettlesExactly == Spec => []PaidWhatIsDue
<1>1. IndInv => PaidWhatIsDue
  <2> SUFFICES ASSUME Solvent(vault, balance),
                      NEW a \in Traders, NEW pnl \in Pnls, NEW funding \in Fundings,
                      NEW borrowing \in Borrowings, NEW trading \in Tradings, NEW tp \in TpTokens
               PROVE  LET paid == IncreaseCollateral(vault, a, pnl, funding, tp, UnitPrice)
                          done == Settled(vault, a, pnl, funding, borrowing, trading, tp, UnitPrice, 0)
                          due == Unit * (pnl - funding - borrowing - trading)
                          gain == Worth(done, a, UnitPrice) - Worth(vault, a, UnitPrice) IN
                      /\ gain <= due
                      /\ gain < due => \A i \in 1..Len(HlpTokens) : paid.bucket[<<"hlpLiquidity", HlpTokens[i]>>] = 0
    BY IndInvSolvent DEF PaidWhatIsDue, UnitPrice
  <2> DEFINE v == vault
             paid == IncreaseCollateral(v, a, pnl, funding, tp, UnitPrice)
             done == Settled(v, a, pnl, funding, borrowing, trading, tp, UnitPrice, 0)
             due == Unit * (pnl - funding - borrowing - trading)
             gain == Worth(done, a, UnitPrice) - Worth(v, a, UnitPrice)
  <2>1. /\ Kept(v) /\ pnl \in Int /\ funding \in Int /\ borrowing \in Nat /\ trading \in Nat
        /\ tp \in SUBSET Tokens /\ Unit \in Nat \ {0}
    BY LedgerAssumption, TpTokensFacts, SettlementAssumption DEF Solvent
  <2>2. PICK left \in Nat : (left = 0 \/ Emptied(paid, "hlpLiquidity")) /\ gain = due - Unit * left
    <3>1. paid = IncreaseCollateral(v, a, pnl, funding, tp, UnitPrice)  OBVIOUS
    <3>2. done = Settled(v, a, pnl, funding, borrowing, trading, tp, UnitPrice, 0)  OBVIOUS
    <3> HIDE DEF v, paid, done
    <3>3. Exactly(v, paid, done, a, pnl - funding - borrowing - trading)
      BY <2>1, <3>1, <3>2, SettledExactly
    <3> QED BY <3>3 DEF Exactly
  <2>3. due \in Int
    <3> DEFINE net == pnl - funding - borrowing - trading
    <3>1. net \in Int  BY <2>1
    <3> HIDE DEF net
    <3>2. Unit * net \in Int  BY <2>1, <3>1
    <3> QED BY <3>2 DEF net
  <2>4. Unit * left \in Nat /\ (left = 0 => Unit * left = 0)  BY <2>1
  <2> HIDE DEF due, gain, paid, done, v
  <2>5. gain <= due /\ (gain < due => left # 0)
    <3> DEFINE x == Unit * left
    <3>1. x \in Nat /\ (left = 0 => x = 0) /\ gain = due - x  BY <2>2, <2>4
    <3> HIDE DEF x
    <3> QED BY <2>3, <3>1
  <2>6. gain < due => \A i \in 1..Len(HlpTokens) : paid.bucket[<<"hlpLiquidity", HlpTokens[i]>>] = 0
    BY <2>2, <2>5 DEF Emptied
  <2> QED BY <2>5, <2>6 DEF gain, due, paid, done, v
<1> QED BY <1>1, IndInvAlways, PTL

-----------------------------------------------------------------------------
(***************************************************************************)
(* Rebalancing (RebalanceHLP). While tokens are at GMX the books stay      *)
(* sound; each function of the service moves tokens between the vault, the *)
(* service and the hold, and what is on hold changes as the pending orders *)
(* do. A cancellation also credits what was sent to the vault unannounced, *)
(* so money is not conserved step by step, as it is by the ledger.         *)
(***************************************************************************)
\* A vault's hold of token t, and its recorded amount, change; nothing else.
Reheld(v, w, t, n, m) ==
    /\ Kept(w)
    /\ w.onHold = [v.onHold EXCEPT ![t] = @ + n]
    /\ w.totalAmount = [v.totalAmount EXCEPT ![t] = @ + m]
    /\ w.bucket = v.bucket
    /\ \A z \in Tokens : Claims(w, z) = Claims(v, z)

LEMMA ReheldFacts ==
    ASSUME NEW v, Kept(v), NEW t \in Tokens, NEW n \in Int, NEW m \in Int,
           v.onHold[t] + n >= 0, v.totalAmount[t] + m >= 0,
           NEW h, h = [v.onHold EXCEPT ![t] = @ + n],
           NEW s, s = [v.totalAmount EXCEPT ![t] = @ + m],
           NEW w, w = [[v EXCEPT !.totalAmount = s] EXCEPT !.onHold = h]
    PROVE  Reheld(v, w, t, n, m)
<1>1. v \in Vaults  BY DEF Kept
<1>2. h \in [Tokens -> Nat] /\ s \in [Tokens -> Nat]
  <2>1. v.onHold \in [Tokens -> Nat] /\ v.totalAmount \in [Tokens -> Nat]  BY <1>1 DEF Vaults
  <2>2. v.onHold[t] + n \in Nat /\ v.totalAmount[t] + m \in Nat  BY <2>1
  <2> QED BY <2>1, <2>2
<1>3. /\ w \in Vaults /\ w.onHold = h /\ w.totalAmount = s
      /\ w.bucket = v.bucket /\ w.traderBalances = v.traderBalances
      /\ w.traderTokens = v.traderTokens /\ w.globalDebt = v.globalDebt
      /\ w.debt = v.debt /\ w.hlpDebt = v.hlpDebt
  BY <1>1, <1>2 DEF Vaults
<1>4. Copies(w)  BY <1>3 DEF Kept, Copies, Held
<1>5. \A z \in Tokens : Claims(w, z) = Claims(v, z)  BY <1>3 DEF Claims
<1> QED BY <1>3, <1>4, <1>5 DEF Reheld, Kept

\* clearOnHold: what is on hold leaves the books.
Cleared(v, w, t, n) ==
    /\ w.onHold = [v.onHold EXCEPT ![t] = @ - n]
    /\ w.totalAmount = [v.totalAmount EXCEPT ![t] = @ - n]
    /\ w.bucket = v.bucket

LEMMA ClearFacts ==
    ASSUME NEW v, NEW b, Solvent(v, b), NEW t \in Tokens, NEW n \in Nat, n <= v.onHold[t],
           NEW w, w = ClearOnHold(v, t, n)
    PROVE  Solvent(w, b) /\ Cleared(v, w, t, n)
<1> DEFINE m == -n
           h == [v.onHold EXCEPT ![t] = @ + m]
           s == [v.totalAmount EXCEPT ![t] = @ + m]
<1>1. Kept(v) /\ v \in Vaults /\ b \in [Tokens -> Nat]  BY DEF Solvent, Kept
<1>2. /\ v.onHold \in [Tokens -> Nat] /\ v.totalAmount \in [Tokens -> Nat]
      /\ v.onHold[t] \in Nat /\ v.totalAmount[t] \in Nat
  BY <1>1 DEF Vaults
<1>3. /\ h = [v.onHold EXCEPT ![t] = @ - n] /\ s = [v.totalAmount EXCEPT ![t] = @ - n]
      /\ m \in Int
  BY <1>2
<1>4. v.onHold[t] + m >= 0 /\ v.totalAmount[t] + m >= 0
  <2>1. Claims(v, t) \in Nat /\ Claims(v, t) + v.onHold[t] <= v.totalAmount[t]  BY SolventFacts
  <2> QED BY <1>2, <2>1
<1>5. w = [[v EXCEPT !.totalAmount = s] EXCEPT !.onHold = h]
  BY <1>1, <1>3 DEF ClearOnHold, Vaults
<1>6. h = [v.onHold EXCEPT ![t] = @ + m] /\ s = [v.totalAmount EXCEPT ![t] = @ + m]  OBVIOUS
<1> HIDE DEF h, s, m
<1>7. Reheld(v, w, t, m, m)  BY <1>1, <1>3, <1>4, <1>5, <1>6, ReheldFacts
<1>8. Cleared(v, w, t, n)  BY <1>3, <1>6, <1>7 DEF Reheld, Cleared
<1>9. ASSUME NEW z \in Tokens
      PROVE  Claims(w, z) + w.onHold[z] <= w.totalAmount[z] /\ w.totalAmount[z] <= b[z] + w.onHold[z]
  <2>1. /\ Claims(v, z) \in Nat /\ v.onHold[z] \in Nat /\ v.totalAmount[z] \in Nat /\ b[z] \in Nat
        /\ Claims(v, z) + v.onHold[z] <= v.totalAmount[z]
        /\ v.totalAmount[z] <= b[z] + v.onHold[z]
    BY SolventFacts
  <2>2. /\ Claims(w, z) = Claims(v, z)
        /\ w.onHold[z] = v.onHold[z] - Only(z, t, n)
        /\ w.totalAmount[z] = v.totalAmount[z] - Only(z, t, n)
    BY <1>2, <1>7, <1>8, <2>1 DEF Reheld, Cleared, Only
  <2>3. Only(z, t, n) \in Nat  BY DEF Only
  <2> QED BY <2>1, <2>2, <2>3
<1> QED BY <1>1, <1>7, <1>8, <1>9 DEF Solvent, Backs, Reheld

\* pushToken to the service, with the hold: the tokens leave the pool's
\* liquidity but not the recorded amount.
Holding(v, w, c, t, n) ==
    /\ Solvent(w, c)
    /\ w.onHold = [v.onHold EXCEPT ![t] = @ + n]
    /\ w.bucket = [v.bucket EXCEPT ![<<"hlpLiquidity", t>>] = @ - n]

LEMMA HoldFacts ==
    ASSUME NEW v, NEW b, Solvent(v, b), NEW t \in Tokens, NEW n \in Nat,
           n <= v.bucket[<<"hlpLiquidity", t>>],
           NEW c, c = In(b, t, -n), NEW w, w = Sync(HoldLiquidity(v, t, n), c, t)
    PROVE  Holding(v, w, c, t, n)
<1> DEFINE m == -n
           none == 0
           h == [v.onHold EXCEPT ![t] = @ + n]
           s == [v.totalAmount EXCEPT ![t] = @ + none]
           o == [v EXCEPT !.onHold[t] = @ + n]
           u == Credit(o, "hlpLiquidity", t, m)
<1>1. Kept(v) /\ v \in Vaults /\ b \in [Tokens -> Nat] /\ m \in Int /\ n \in Int
  BY DEF Solvent, Kept
<1>2. /\ v.onHold \in [Tokens -> Nat] /\ v.totalAmount \in [Tokens -> Nat]
      /\ v.onHold[t] \in Nat /\ v.totalAmount[t] \in Nat
      /\ v.bucket \in [Buckets \X Tokens -> Nat]
  BY <1>1 DEF Vaults
<1>3. s = v.totalAmount  BY <1>2
<1>4. o = [[v EXCEPT !.totalAmount = s] EXCEPT !.onHold = h]
  BY <1>1, <1>3 DEF Vaults
<1>5. w = Sync(u, c, t)  BY DEF HoldLiquidity
<1>6. u = Credit(o, "hlpLiquidity", t, m)  OBVIOUS
<1>7. h = [v.onHold EXCEPT ![t] = @ + n] /\ s = [v.totalAmount EXCEPT ![t] = @ + none]  OBVIOUS
<1> HIDE DEF h, s, o, u, none
<1>8. v.onHold[t] + n >= 0 /\ v.totalAmount[t] + none >= 0 /\ none \in Int  BY <1>2 DEF none
<1>9. Reheld(v, o, t, n, none)  BY <1>1, <1>4, <1>7, <1>8, ReheldFacts
<1>10. Kept(o) /\ o.bucket = v.bucket  BY <1>9 DEF Reheld
<1>11. o.bucket[<<"hlpLiquidity", t>>] + m >= 0
  <2> DEFINE k == v.bucket[<<"hlpLiquidity", t>>]
  <2>1. k \in Nat /\ n <= k  BY <1>1, Entries
  <2>2. o.bucket[<<"hlpLiquidity", t>>] = k  BY <1>10
  <2> HIDE DEF k
  <2> QED BY <2>1, <2>2
<1>12. Credited(o, u, "hlpLiquidity", t, m)
  <2> HIDE DEF m
  <2> QED BY <1>1, <1>6, <1>10, <1>11, DebtKinds, CreditFacts
<1>13. Kept(u) /\ u.onHold = h /\ u.totalAmount = v.totalAmount
       /\ \A z \in Tokens : Claims(u, z) = Claims(v, z) + Only(z, t, m)
  BY <1>3, <1>7, <1>9, <1>12 DEF Credited, Shift, Reheld
<1>14. c[t] = b[t] - n /\ \A z \in Tokens : z # t => c[z] = b[z]  BY <1>1 DEF In
<1>15. n <= b[t] /\ b[t] \in Nat
  <2> DEFINE k == v.bucket[<<"hlpLiquidity", t>>]
  <2>1. Claims(v, t) <= b[t] /\ b[t] \in Nat /\ Claims(v, t) \in Nat  BY SolventFacts
  <2>2. k <= Claims(v, t)  BY <1>1, DebtKinds, ClaimsNat
  <2>3. k \in Nat /\ n <= k  BY <1>1, Entries
  <2> HIDE DEF k
  <2> QED BY <2>1, <2>2, <2>3
<1>16. c \in [Tokens -> Nat] /\ c[t] \in Nat
  <2>1. c = [z \in Tokens |-> c[z]]  BY <1>1 DEF In
  <2>2. \A z \in Tokens : c[z] \in Nat  BY <1>1, <1>14, <1>15
  <2> QED BY <2>1, <2>2
<1>17. Synced(u, w, t, c[t] + u.onHold[t])  BY <1>5, <1>13, <1>16, SyncFacts
<1>18. ASSUME NEW z \in Tokens
       PROVE  Claims(w, z) + w.onHold[z] <= w.totalAmount[z] /\ w.totalAmount[z] <= c[z] + w.onHold[z]
  <2>1. /\ Claims(v, z) \in Nat /\ v.onHold[z] \in Nat /\ v.totalAmount[z] \in Nat /\ b[z] \in Nat
        /\ Claims(v, z) + v.onHold[z] <= v.totalAmount[z]
        /\ v.totalAmount[z] <= b[z] + v.onHold[z]
    BY SolventFacts
  <2>2. Claims(w, z) = Claims(v, z) + Only(z, t, m) /\ w.onHold[z] = h[z]
    BY <1>13, <1>17 DEF Synced
  <2>3. CASE z = t
    <3>1. h[z] = v.onHold[z] + n  BY <1>2, <1>7, <2>3
    <3>2. w.totalAmount[z] = c[z] + h[z]  BY <1>2, <1>13, <1>17, <2>3 DEF Synced
    <3>3. Claims(w, z) = Claims(v, z) - n  BY <2>1, <2>2, <2>3 DEF Only
    <3>4. c[z] = b[z] - n  BY <1>14, <2>3
    <3> QED BY <2>1, <2>2, <3>1, <3>2, <3>3, <3>4
  <2>4. CASE z # t
    <3>1. h[z] = v.onHold[z] /\ w.totalAmount[z] = v.totalAmount[z]
      BY <1>2, <1>7, <1>13, <1>17, <2>4 DEF Synced
    <3>2. Claims(w, z) = Claims(v, z) /\ c[z] = b[z]  BY <1>14, <2>1, <2>2, <2>4 DEF Only
    <3> QED BY <2>1, <2>2, <3>1, <3>2
  <2> QED BY <2>3, <2>4
<1>19. w.bucket = [v.bucket EXCEPT ![<<"hlpLiquidity", t>>] = @ - n] /\ w.onHold = h
  <2>1. w.bucket = [v.bucket EXCEPT ![<<"hlpLiquidity", t>>] = @ + m] /\ w.onHold = h
    BY <1>10, <1>12, <1>13, <1>17 DEF Synced, Credited
  <2>2. <<"hlpLiquidity", t>> \in Buckets \X Tokens  BY DebtKinds
  <2>3. v.bucket[<<"hlpLiquidity", t>>] + m = v.bucket[<<"hlpLiquidity", t>>] - n  BY <1>2, <2>2
  <2> QED BY <1>2, <2>1, <2>3
<1>20. Kept(w)  BY <1>17 DEF Synced
<1> QED BY <1>7, <1>16, <1>18, <1>19, <1>20 DEF Holding, Solvent, Backs

\* What the service's functions work on: the vault, its tokens, and their own.
Boxed(v, b, h) == [vault |-> v, balance |-> b, held |-> h]
IsBox(x) ==
    /\ x = Boxed(x.vault, x.balance, x.held)
    /\ Solvent(x.vault, x.balance)
    /\ x.held \in [Tokens -> Int]
\* The hold of token t changes by n, and the service's tokens u by m.
Handled(x, y, t, n, u, m) ==
    /\ IsBox(y)
    /\ y.vault.onHold = [x.vault.onHold EXCEPT ![t] = @ + n]
    /\ y.held = [x.held EXCEPT ![u] = @ + m]

LEMMA BoxFields ==
    ASSUME NEW v, NEW b, NEW h, NEW x, x = Boxed(v, b, h)
    PROVE  /\ x.vault = v /\ x.balance = b /\ x.held = h
           /\ x = Boxed(x.vault, x.balance, x.held)
           /\ DOMAIN x = {"vault", "balance", "held"}
BY DEF Boxed

Replaced(x, w, c, t, n) == [x EXCEPT !.vault = w, !.balance = c, !.held[t] = @ - n]
LEMMA BoxUpdate ==
    ASSUME NEW x, x = Boxed(x.vault, x.balance, x.held), NEW w, NEW c, NEW t, NEW n,
           NEW g, g = [x.held EXCEPT ![t] = @ - n],
           NEW y, y = Replaced(x, w, c, t, n)
    PROVE  y = Boxed(w, c, g)
<1>1. DOMAIN x = {"vault", "balance", "held"}  BY BoxFields
<1> USE DEF Replaced
<1>2. DOMAIN y = {"vault", "balance", "held"}  BY <1>1
<1>3. y.vault = w /\ y.balance = c /\ y.held = g  BY <1>1
<1>4. y = [k \in {"vault", "balance", "held"} |-> y[k]]  BY <1>1
<1> QED BY <1>2, <1>3, <1>4 DEF Boxed

\* Nothing is handled.
LEMMA HandledNothing ==
    ASSUME NEW x, IsBox(x), NEW t \in Tokens, NEW n, n = 0, NEW u \in Tokens, NEW m, m = 0
    PROVE  Handled(x, x, t, n, u, m)
<1>1. x.vault.onHold \in [Tokens -> Nat] /\ x.held \in [Tokens -> Int]
  BY DEF IsBox, Solvent, Kept, Vaults
<1>2. x.vault.onHold[t] + n = x.vault.onHold[t] /\ x.held[u] + m = x.held[u]  BY <1>1
<1> DEFINE h == x.vault.onHold
           g == x.held
<1>3. h = [h EXCEPT ![t] = h[t]] /\ g = [g EXCEPT ![u] = g[u]]  BY <1>1
<1> QED BY <1>2, <1>3 DEF Handled

\* Tokens the service received join the pool.
LEMMA ReceivedFacts ==
    ASSUME NEW x, IsBox(x), NEW t \in Tokens, NEW n \in Nat, NEW m, m = 0 - n,
           NEW none, none = 0, NEW y, y = Received(x, t, n)
    PROVE  Handled(x, y, t, none, t, m)
<1>1. CASE n = 0
  <2>1. y = x /\ m = 0
    <3>1. y = x  BY <1>1, Zenon DEF Received
    <3>2. m = 0  BY <1>1
    <3> QED BY <3>1, <3>2
  <2> QED BY <2>1, HandledNothing
<1>2. CASE n # 0
  <2> DEFINE v == x.vault
             b == x.balance
             c == In(b, t, n)
             u == Sync(v, c, t)
             w == Credit(u, "hlpLiquidity", t, n)
             g == [x.held EXCEPT ![t] = @ - n]
  <2>1. y = Replaced(x, w, c, t, n)
    BY <1>2 DEF Received, Replaced
  <2>2. x = Boxed(x.vault, x.balance, x.held) /\ Solvent(v, b) /\ Kept(v)
        /\ x.held \in [Tokens -> Int]
    BY DEF IsBox, Solvent
  <2>3. g = [x.held EXCEPT ![t] = @ - n] /\ u = Sync(v, c, t) /\ c = In(b, t, n)
        /\ w = Credit(u, "hlpLiquidity", t, n)
    OBVIOUS
  <2> HIDE DEF v, b, c, u, w, g
  <2>4. y = Boxed(w, c, g)  BY <2>1, <2>2, <2>3, BoxUpdate
  <2>5. c[t] \in Nat
    <3>1. b \in [Tokens -> Nat]  BY <2>2 DEF Solvent
    <3> QED BY <2>3, <3>1 DEF In
  <2>6. Synced(v, u, t, c[t] + v.onHold[t])  BY <2>2, <2>3, <2>5, SyncFacts
  <2>7. Kept(u)  BY <2>6 DEF Synced
  <2>8. u.bucket[<<"hlpLiquidity", t>>] + n >= 0 /\ n \in Int
    <3>1. u.bucket[<<"hlpLiquidity", t>>] \in Nat  BY <2>7, Entries
    <3> QED BY <3>1
  <2>9. Credited(u, w, "hlpLiquidity", t, n)  BY <2>3, <2>7, <2>8, DebtKinds, CreditFacts
  <2>10. Shift(u, w, t, n)  BY <2>9 DEF Credited
  <2>11. Sound(v, b, w, c)  BY <2>2, <2>3, <2>10, SyncBooked
  <2>12. y.vault = w /\ y.balance = c /\ y.held = g /\ y = Boxed(y.vault, y.balance, y.held)
    BY <2>4, BoxFields
  <2>13. m \in Int /\ \A k \in Int : k - n = k + m  OBVIOUS
  <2>14. g = [x.held EXCEPT ![t] = @ + m] /\ g \in [Tokens -> Int]
    BY <2>2, <2>3, <2>13
  <2>15. w.onHold = [v.onHold EXCEPT ![t] = @ + none]
    <3>1. w.onHold = v.onHold  BY <2>11 DEF Sound
    <3>2. v.onHold \in [Tokens -> Nat]  BY <2>2 DEF Kept, Vaults
    <3>3. v.onHold[t] + none = v.onHold[t]  BY <3>2
    <3>4. v.onHold = [v.onHold EXCEPT ![t] = v.onHold[t]]  BY <3>2
    <3> QED BY <3>1, <3>3, <3>4
  <2>16. IsBox(y)  BY <2>11, <2>12, <2>14 DEF IsBox, Sound
  <2> QED BY <2>12, <2>14, <2>15, <2>16 DEF Handled, v
<1> QED BY <1>1, <1>2

\* The hold of t is cleared: n more tokens u go to the vault, which credits to
\* the pool what it finds of t. If these are tokens t, it finds them.
GivesBack(x, y, t, n, u) ==
    /\ \A k \in Buckets, z \in Tokens : y.vault.bucket[<<k, z>>] >= x.vault.bucket[<<k, z>>]
    /\ t = u => y.vault.bucket[<<"hlpLiquidity", t>>] >= x.vault.bucket[<<"hlpLiquidity", t>>] + n

LEMMA ReturnedFacts ==
    ASSUME NEW x, IsBox(x), NEW t \in Tokens, NEW u \in Tokens, NEW n \in Nat, NEW m, m = 0 - n,
           n <= x.vault.onHold[t], NEW y, y = Returned(x, t, u, n)
    PROVE  Handled(x, y, t, m, u, m) /\ GivesBack(x, y, t, n, u)
<1>0. Kept(x.vault)  BY DEF IsBox, Solvent
<1>1. CASE n = 0
  <2>1. y = x /\ m = 0
    <3>1. y = x  BY <1>1, Zenon DEF Returned
    <3>2. m = 0  BY <1>1
    <3> QED BY <3>1, <3>2
  <2>2. \A k \in Buckets, z \in Tokens : x.vault.bucket[<<k, z>>] \in Nat  BY <1>0, Entries
  <2>3. x.vault.bucket[<<"hlpLiquidity", t>>] \in Nat  BY <1>0, Entries
  <2>4. GivesBack(x, y, t, n, u)  BY <1>1, <2>1, <2>2, <2>3 DEF GivesBack
  <2> QED BY <2>1, <2>4, HandledNothing
<1>2. CASE n # 0
  <2> DEFINE o == x.vault
             b == x.balance
             v == ClearOnHold(o, t, n)
             c == In(b, u, n)
             s == Sync(v, c, t)
             p == Pulled(v, c, t)
             w == Credit(s, "hlpLiquidity", t, p)
             g == [x.held EXCEPT ![u] = @ - n]
  <2>1. y = Replaced(x, w, c, u, n)
    BY <1>2 DEF Returned, Replaced
  <2>2. x = Boxed(x.vault, x.balance, x.held) /\ Solvent(o, b) /\ Kept(o) /\ n <= o.onHold[t]
        /\ x.held \in [Tokens -> Int]
    BY DEF IsBox, Solvent
  <2>3. /\ g = [x.held EXCEPT ![u] = @ - n] /\ v = ClearOnHold(o, t, n) /\ c = In(b, u, n)
        /\ s = Sync(v, c, t) /\ w = Credit(s, "hlpLiquidity", t, p)
        /\ p = c[t] + v.onHold[t] - v.totalAmount[t]
    BY DEF Pulled
  <2> HIDE DEF o, b, v, c, s, p, w, g
  <2>4. y = Boxed(w, c, g)  BY <2>1, <2>2, <2>3, BoxUpdate
  <2>5. Solvent(v, b) /\ Cleared(o, v, t, n)  BY <2>2, <2>3, ClearFacts
  <2>6. /\ Kept(v) /\ b \in [Tokens -> Nat]
        /\ c \in [Tokens -> Nat] /\ \A z \in Tokens : c[z] = b[z] + Only(z, u, n)
    <3>1. Kept(v) /\ b \in [Tokens -> Nat]  BY <2>5 DEF Solvent
    <3>2. \A z \in Tokens : b[z] + 0 = b[z]  BY <3>1
    <3> QED BY <2>3, <3>1, <3>2 DEF In, Only
  <2>7. \A z \in Tokens :
           /\ Claims(v, z) \in Nat /\ v.onHold[z] \in Nat /\ v.totalAmount[z] \in Nat /\ b[z] \in Nat
           /\ Claims(v, z) + v.onHold[z] <= v.totalAmount[z]
           /\ v.totalAmount[z] <= b[z] + v.onHold[z]
    BY <2>5, SolventFacts
  <2>8. p \in Nat /\ (t = u => p >= n)
    <3>1. c[t] = b[t] + Only(t, u, n) /\ Only(t, u, n) \in Nat /\ (t = u => Only(t, u, n) = n)
      BY <2>6 DEF Only
    <3>2. b[t] \in Nat /\ v.totalAmount[t] \in Nat /\ v.onHold[t] \in Nat
          /\ v.totalAmount[t] <= b[t] + v.onHold[t]
      BY <2>7
    <3> QED BY <2>3, <3>1, <3>2
  <2>9. Synced(v, s, t, c[t] + v.onHold[t])
    <3>1. c[t] \in Nat  BY <2>6
    <3> QED BY <2>3, <2>6, <3>1, SyncFacts
  <2>10. Kept(s) /\ s.bucket = v.bucket /\ v.bucket = o.bucket  BY <2>5, <2>9 DEF Synced, Cleared
  <2>11. s.bucket[<<"hlpLiquidity", t>>] + p >= 0 /\ p \in Int
    <3>1. s.bucket[<<"hlpLiquidity", t>>] \in Nat  BY <2>10, Entries
    <3> QED BY <2>8, <3>1
  <2>12. Credited(s, w, "hlpLiquidity", t, p)  BY <2>3, <2>10, <2>11, DebtKinds, CreditFacts
  <2>13. Shift(s, w, t, p) /\ w.bucket = [o.bucket EXCEPT ![<<"hlpLiquidity", t>>] = @ + p]
    BY <2>10, <2>12 DEF Credited
  <2>14. ASSUME NEW z \in Tokens
         PROVE  Claims(w, z) + w.onHold[z] <= w.totalAmount[z] /\ w.totalAmount[z] <= c[z] + w.onHold[z]
    <3>1. Claims(w, z) = Claims(v, z) + Only(z, t, p) /\ w.onHold[z] = v.onHold[z]
      BY <2>9, <2>13 DEF Synced, Shift
    <3>2. w.totalAmount[z] = IF z = t THEN c[t] + v.onHold[t] ELSE v.totalAmount[z]
      <4>1. v.totalAmount \in [Tokens -> Nat]  BY <2>6 DEF Kept, Vaults
      <4> QED BY <2>9, <2>13, <4>1 DEF Synced, Shift
    <3>3. c[z] \in Nat /\ c[z] >= b[z]
      <4>1. c[z] = b[z] + Only(z, u, n) /\ Only(z, u, n) \in Nat  BY <2>6 DEF Only
      <4> QED BY <2>6, <4>1
    <3>4. CASE z = t
      <4>1. Claims(w, z) = Claims(v, z) + p  BY <3>1, <3>4 DEF Only
      <4>2. w.totalAmount[z] = c[z] + v.onHold[z] /\ p = c[z] + v.onHold[z] - v.totalAmount[z]
        BY <2>3, <3>2, <3>4
      <4> QED BY <2>7, <3>1, <3>3, <4>1, <4>2
    <3>5. CASE z # t
      <4>1. Claims(w, z) = Claims(v, z) + 0 /\ w.totalAmount[z] = v.totalAmount[z]
        BY <3>1, <3>2, <3>5 DEF Only
      <4> QED BY <2>7, <3>1, <3>3, <4>1
    <3> QED BY <3>4, <3>5
  <2>15. Solvent(w, c)  BY <2>6, <2>13, <2>14 DEF Solvent, Backs, Shift
  <2>16. y.vault = w /\ y.balance = c /\ y.held = g /\ y = Boxed(y.vault, y.balance, y.held)
    BY <2>4, BoxFields
  <2>17. m \in Int /\ \A k \in Int : k - n = k + m  OBVIOUS
  <2>18. g = [x.held EXCEPT ![u] = @ + m] /\ g \in [Tokens -> Int]
    BY <2>2, <2>3, <2>17
  <2>19. w.onHold = [o.onHold EXCEPT ![t] = @ + m]
    <3>1. w.onHold = [o.onHold EXCEPT ![t] = @ - n]  BY <2>5, <2>9, <2>13 DEF Cleared, Synced, Shift
    <3>2. o.onHold \in [Tokens -> Nat]  BY <2>2 DEF Kept, Vaults
    <3> QED BY <2>17, <3>1, <3>2
  <2>20. IsBox(y)  BY <2>15, <2>16, <2>18 DEF IsBox
  <2>21. GivesBack(x, y, t, n, u)
    <3>1. o.bucket \in [Buckets \X Tokens -> Nat]  BY <2>2 DEF Kept, Vaults
    <3>2. ASSUME NEW k \in Buckets, NEW z \in Tokens PROVE w.bucket[<<k, z>>] >= o.bucket[<<k, z>>]
      BY <2>8, <2>13, <3>1
    <3>3. ASSUME t = u PROVE w.bucket[<<"hlpLiquidity", t>>] >= o.bucket[<<"hlpLiquidity", t>>] + n
      <4>1. <<"hlpLiquidity", t>> \in Buckets \X Tokens  BY DebtKinds
      <4> QED BY <2>8, <2>13, <3>1, <3>3, <4>1
    <3> QED BY <2>16, <3>2, <3>3 DEF GivesBack, o
  <2> QED BY <2>16, <2>18, <2>19, <2>20, <2>21 DEF Handled, o
<1> QED BY <1>1, <1>2

-----------------------------------------------------------------------------
\* The tokens an order was given.
Paired(v, b) == [vault |-> v, balance |-> b]
Swapped(x, w, c) == [x EXCEPT !.vault = w, !.balance = c]
BucketFields == {"bucket", "onHold", "totalAmount"}
\* The pool's liquidity is less by n in token t.
Drawn(f, g, t, n) ==
    /\ g \in [Buckets \X Tokens -> Int]
    /\ \A z \in Tokens : g[<<"hlpLiquidity", z>>] = f[<<"hlpLiquidity", z>>] - Only(z, t, n)

Draws(f, y, t, n) ==
    /\ y = Paired(y.vault, y.balance)
    /\ BucketFields \subseteq DOMAIN y.vault
    /\ Drawn(f, y.vault.bucket, t, n)

LEMMA PairFields ==
    ASSUME NEW v, NEW b, NEW x, x = Paired(v, b)
    PROVE  /\ x.vault = v /\ x.balance = b /\ x = Paired(x.vault, x.balance)
           /\ DOMAIN x = {"vault", "balance"}
BY DEF Paired

LEMMA DeployedIs ==
    ASSUME NEW v, NEW b, NEW x, x = Paired(v, b), NEW t, NEW n, n # 0,
           NEW c, c = In(b, t, -n), NEW w, w = Sync(HoldLiquidity(v, t, n), c, t)
    PROVE  Deployed(x, t, n) = Paired(w, c)
<1>1. x.vault = v /\ x.balance = b /\ DOMAIN x = {"vault", "balance"}  BY PairFields
<1> DEFINE y == Swapped(x, w, c)
<1>2. DOMAIN y = {"vault", "balance"} /\ y.vault = w /\ y.balance = c
  BY <1>1 DEF Swapped
<1>3. y = [k \in {"vault", "balance"} |-> y[k]]  BY <1>1 DEF Swapped
<1>4. y = Paired(w, c)
  <2> HIDE DEF y
  <2> QED BY <1>2, <1>3 DEF Paired
<1>5. Deployed(x, t, n) = y  BY <1>1 DEF Deployed, Swapped
<1> QED BY <1>4, <1>5

\* What the pool has left, even if that is negative.
LEMMA DeployedBucket ==
    ASSUME NEW v, NEW b, NEW x, x = Paired(v, b), NEW t \in Tokens, NEW n \in Nat,
           BucketFields \subseteq DOMAIN v, v.bucket \in [Buckets \X Tokens -> Int],
           NEW f, f = v.bucket, NEW y, y = Deployed(x, t, n)
    PROVE  Draws(f, y, t, n)
<1> USE DEF Draws
<1>1. CASE n = 0
  <2>1. y = x  BY <1>1, Zenon DEF Deployed
  <2>2. y.vault = v /\ y = Paired(y.vault, y.balance)  BY <2>1, PairFields
  <2>3. Drawn(f, f, t, n)
    <3>1. \A z \in Tokens : f[<<"hlpLiquidity", z>>] \in Int /\ Only(z, t, n) = 0
      BY <1>1, DebtKinds DEF Only
    <3>2. \A k \in Int : k - 0 = k  OBVIOUS
    <3> QED BY <3>1, <3>2 DEF Drawn
  <2> QED BY <2>2, <2>3
<1>2. CASE n # 0
  <2> DEFINE c == In(b, t, -n)
             m == -n
             o == [v EXCEPT !.onHold[t] = @ + n]
             u == Credit(o, "hlpLiquidity", t, m)
             w == Sync(u, c, t)
  <2>1. u = HoldLiquidity(v, t, n)  BY DEF HoldLiquidity
  <2>2. w = Sync(HoldLiquidity(v, t, n), c, t) /\ c = In(b, t, -n)  BY <2>1
  <2> HIDE DEF w, u, c
  <2>3. y = Paired(w, c)  BY <1>2, <2>2, DeployedIs
  <2>4. y.vault = w /\ y = Paired(y.vault, y.balance)  BY <2>3, PairFields
  <2>5. DOMAIN o = DOMAIN v /\ o.bucket = f  BY DEF BucketFields
  <2>6. DOMAIN u = DOMAIN o /\ u.bucket = [f EXCEPT ![<<"hlpLiquidity", t>>] = @ + m]
    <3>1. "bucket" \in DOMAIN o  BY <2>5 DEF BucketFields
    <3> HIDE DEF o
    <3> QED BY <2>5, <3>1 DEF u, Credit
  <2>7. DOMAIN w = DOMAIN u /\ w.bucket = u.bucket  BY DEF w, Sync
  <2>8. Drawn(f, w.bucket, t, n)
    <3>1. \A k \in Int : k + m = k - n /\ k - 0 = k /\ k + m \in Int  OBVIOUS
    <3> HIDE DEF m
    <3>2. /\ w.bucket = [f EXCEPT ![<<"hlpLiquidity", t>>] = @ + m]
          /\ f \in [Buckets \X Tokens -> Int]
          /\ \A z \in Tokens : <<"hlpLiquidity", z>> \in Buckets \X Tokens
      BY <2>6, <2>7, DebtKinds
    <3>3. w.bucket \in [Buckets \X Tokens -> Int]  BY <3>1, <3>2
    <3>4. ASSUME NEW z \in Tokens
          PROVE  w.bucket[<<"hlpLiquidity", z>>] = f[<<"hlpLiquidity", z>>] - Only(z, t, n)
      BY <3>1, <3>2 DEF Only
    <3> QED BY <3>3, <3>4 DEF Drawn
  <2>9. BucketFields \subseteq DOMAIN w  BY <2>5, <2>6, <2>7
  <2> HIDE DEF o
  <2> QED BY <2>4, <2>8, <2>9
<1> QED BY <1>1, <1>2

\* It is taken only if it is there.
LEMMA DeployedFacts ==
    ASSUME NEW v, NEW b, NEW x, x = Paired(v, b), Solvent(v, b), NEW t \in Tokens, NEW n \in Nat,
           n <= v.bucket[<<"hlpLiquidity", t>>], NEW y, y = Deployed(x, t, n)
    PROVE  /\ Solvent(y.vault, y.balance)
           /\ y.vault.onHold = [v.onHold EXCEPT ![t] = @ + n]
<1>1. CASE n = 0
  <2>1. y = x  BY <1>1, Zenon DEF Deployed
  <2>2. y.vault = v /\ y.balance = b  BY <2>1, PairFields
  <2> DEFINE h == v.onHold
  <2>3. h \in [Tokens -> Nat]  BY DEF Solvent, Kept, Vaults
  <2>4. h[t] + n = h[t]  BY <1>1, <2>3
  <2> HIDE DEF h
  <2>5. h = [h EXCEPT ![t] = h[t] + n]  BY <2>3, <2>4
  <2> QED BY <2>2, <2>5 DEF h
<1>2. CASE n # 0
  <2> DEFINE c == In(b, t, -n)
             w == Sync(HoldLiquidity(v, t, n), c, t)
  <2>1. c = In(b, t, -n) /\ w = Sync(HoldLiquidity(v, t, n), c, t)  OBVIOUS
  <2> HIDE DEF c, w
  <2>2. y = Paired(w, c)  BY <1>2, <2>1, DeployedIs
  <2>3. y.vault = w /\ y.balance = c  BY <2>2, PairFields
  <2>4. Holding(v, w, c, t, n)  BY <2>1, HoldFacts
  <2> QED BY <2>3, <2>4 DEF Holding
<1> QED BY <1>1, <1>2

\* A deposit order takes two tokens, which may be the same.
DepositOf(d, t) == Only(t, LongToken, d.long) + Only(t, ShortToken, d.short)
Deposits == [long : Nat, short : Nat]

LEMMA DepositOfNat ==
    ASSUME NEW d \in Deposits, NEW t \in Tokens
    PROVE  DepositOf(d, t) \in Nat
BY DEF DepositOf, Deposits, Only

LEMMA DepositDeployed ==
    ASSUME Solvent(vault, balance), NEW d \in Deposits,
           NEW y, y = Deployed(Deployed(Paired(vault, balance), LongToken, d.long), ShortToken, d.short),
           \A t \in Tokens : y.vault.bucket[<<"hlpLiquidity", t>>] >= 0
    PROVE  /\ Solvent(y.vault, y.balance)
           /\ \A t \in Tokens : y.vault.onHold[t] = vault.onHold[t] + DepositOf(d, t)
<1> DEFINE v == vault
           x == Paired(v, balance)
           n == d.long
           m == d.short
           z == Deployed(x, LongToken, n)
           f == v.bucket
           g == z.vault.bucket
           h == y.vault.bucket
<1>1. LongToken \in Tokens /\ ShortToken \in Tokens /\ n \in Nat /\ m \in Nat
  BY RebalanceAssumption DEF Deposits
<1>2. BucketFields \subseteq DOMAIN v /\ f \in [Buckets \X Tokens -> Int]
  BY DEF Solvent, Kept, Vaults, BucketFields
<1>3. x = Paired(v, balance) /\ z = Deployed(x, LongToken, n) /\ y = Deployed(z, ShortToken, m)
  OBVIOUS
<1> HIDE DEF x, z, n, m, v
<1>4. /\ z = Paired(z.vault, z.balance)
      /\ BucketFields \subseteq DOMAIN z.vault
      /\ Drawn(f, g, LongToken, n)
  <2>1. Draws(f, z, LongToken, n)  BY <1>1, <1>2, <1>3, DeployedBucket
  <2> QED BY <2>1 DEF Draws
<1>5. Drawn(g, h, ShortToken, m)
  <2>1. g \in [Buckets \X Tokens -> Int] /\ g = z.vault.bucket  BY <1>4 DEF Drawn
  <2> HIDE DEF g
  <2>2. Draws(g, y, ShortToken, m)  BY <1>1, <1>3, <1>4, <2>1, DeployedBucket
  <2> QED BY <2>2 DEF Draws
<1> HIDE DEF f, g, h
<1>6. n <= f[<<"hlpLiquidity", LongToken>>] /\ m <= g[<<"hlpLiquidity", ShortToken>>]
  <2> DEFINE fl == f[<<"hlpLiquidity", LongToken>>]
             gl == g[<<"hlpLiquidity", LongToken>>]
             hl == h[<<"hlpLiquidity", LongToken>>]
             gs == g[<<"hlpLiquidity", ShortToken>>]
             hs == h[<<"hlpLiquidity", ShortToken>>]
  <2>1. fl \in Int /\ gl \in Int /\ hl \in Int /\ gs \in Int /\ hs \in Int
    BY <1>1, <1>2, <1>4, <1>5, DebtKinds DEF Drawn
  <2>2. gl = fl - n  BY <1>1, <1>4 DEF Drawn, Only
  <2>3. hs = gs - m  BY <1>1, <1>5 DEF Drawn, Only
  <2>4. hl = gl - Only(LongToken, ShortToken, m)  BY <1>1, <1>5 DEF Drawn
  <2>5. Only(LongToken, ShortToken, m) \in Nat  BY <1>1 DEF Only
  <2>6. hl >= 0 /\ hs >= 0  BY <1>1 DEF h
  <2> HIDE DEF fl, gl, hl, gs, hs
  <2>7. n <= fl /\ m <= gs  BY <1>1, <2>1, <2>2, <2>3, <2>4, <2>5, <2>6
  <2> QED BY <2>7 DEF fl, gs
<1>7. Solvent(v, balance)  BY DEF v
<1>8. Solvent(z.vault, z.balance) /\ z.vault.onHold = [v.onHold EXCEPT ![LongToken] = @ + n]
  BY <1>1, <1>3, <1>6, <1>7, DeployedFacts DEF f
<1>9. Solvent(y.vault, y.balance) /\ y.vault.onHold = [z.vault.onHold EXCEPT ![ShortToken] = @ + m]
  BY <1>1, <1>3, <1>4, <1>6, <1>8, DeployedFacts DEF g
<1>10. ASSUME NEW t \in Tokens PROVE y.vault.onHold[t] = v.onHold[t] + DepositOf(d, t)
  <2>1. v.onHold \in [Tokens -> Nat]  BY <1>7 DEF Solvent, Kept, Vaults
  <2>2. z.vault.onHold[t] = v.onHold[t] + Only(t, LongToken, n) /\ z.vault.onHold \in [Tokens -> Nat]
    BY <1>1, <1>8, <2>1 DEF Only
  <2>3. y.vault.onHold[t] = z.vault.onHold[t] + Only(t, ShortToken, m)
    BY <1>1, <1>9, <2>2 DEF Only
  <2>4. Only(t, LongToken, n) \in Nat /\ Only(t, ShortToken, m) \in Nat  BY <1>1 DEF Only
  <2>5. DepositOf(d, t) = Only(t, LongToken, n) + Only(t, ShortToken, m)  BY DEF DepositOf, n, m
  <2> HIDE DEF Only
  <2> QED BY <2>1, <2>2, <2>3, <2>4, <2>5
<1> QED BY <1>9, <1>10 DEF v

-----------------------------------------------------------------------------
\* The pending orders, as functions from their keys to natural numbers.
IsPending(p, T) == DOMAIN p \subseteq Keys /\ p \in [DOMAIN p -> T]
DepositsOf(p, t) == [key \in DOMAIN p |-> DepositOf(p[key], t)]
WithdrawalsOf(p, t) == [key \in DOMAIN p |-> Only(t, Market, p[key])]
DepositSum(p, t) == SumFunction(DepositsOf(p, t))
WithdrawalSum(p, t) == SumFunction(WithdrawalsOf(p, t))

\* Their sum, when an order is added or deleted.
LEMMA AddedSum ==
    ASSUME NEW f, IsPending(f, Nat), NEW key \in Keys, key \notin DOMAIN f, NEW n \in Nat,
           NEW g, g = Added(f, key, n)
    PROVE  SumFunction(f) \in Nat /\ SumFunction(g) = SumFunction(f) + n
<1> DEFINE S == DOMAIN f
           D == S \cup {key}
<1>1. IsFiniteSet(S) /\ f \in [S -> Nat]
  BY RebalanceAssumption, FS_Subset DEF IsPending
<1>2. g \in [D -> Nat] /\ g[key] = n /\ \A y \in S : g[y] = f[y]
  BY <1>1 DEF Added
<1>3. SumFunction(f) \in Nat  BY <1>1, SumFunctionNat
<1>4. key \notin S /\ D = S \cup {key} /\ g \in [D -> Int] /\ f \in [S -> Int]  BY <1>1, <1>2
<1> HIDE DEF S, D
<1>5. SumFunction(g) = SumFunction(f) + g[key]
  BY <1>1, <1>2, <1>4, SumFunctionExtend
<1> QED BY <1>2, <1>3, <1>5

LEMMA DeletedSum ==
    ASSUME NEW f, IsPending(f, Nat), NEW key \in DOMAIN f, NEW g, g = Deleted(f, key)
    PROVE  SumFunction(g) \in Nat /\ SumFunction(f) = SumFunction(g) + f[key] /\ f[key] \in Nat
<1> DEFINE D == DOMAIN f
           S == D \ {key}
<1>1. IsFiniteSet(D) /\ IsFiniteSet(S) /\ f \in [D -> Nat]
  BY RebalanceAssumption, FS_Subset DEF IsPending
<1>2. g \in [S -> Nat] /\ \A y \in S : f[y] = g[y]
  BY <1>1 DEF Deleted
<1>3. SumFunction(g) \in Nat  BY <1>1, <1>2, SumFunctionNat
<1>4. key \notin S /\ D = S \cup {key} /\ f \in [D -> Int] /\ g \in [S -> Int] /\ f[key] \in Nat
  BY <1>1, <1>2
<1> HIDE DEF S, D
<1>5. SumFunction(f) = SumFunction(g) + f[key]
  BY <1>1, <1>2, <1>4, SumFunctionExtend
<1> QED BY <1>3, <1>4, <1>5

LEMMA DepositAdded ==
    ASSUME NEW p, IsPending(p, Deposits), NEW key \in Keys, key \notin DOMAIN p,
           NEW d \in Deposits, NEW q, q = Added(p, key, d), NEW t \in Tokens
    PROVE  /\ IsPending(q, Deposits)
           /\ DepositSum(p, t) \in Nat /\ DepositSum(q, t) = DepositSum(p, t) + DepositOf(d, t)
<1> DEFINE f == DepositsOf(p, t)
           g == DepositsOf(q, t)
           n == DepositOf(d, t)
<1>1. IsPending(q, Deposits)  BY DEF IsPending, Added
<1>2. DOMAIN f = DOMAIN p /\ IsPending(f, Nat)  BY DepositOfNat DEF IsPending, DepositsOf
<1>3. n \in Nat  BY DepositOfNat
<1>4. g = Added(f, key, n)  BY DEF DepositsOf, Added
<1> HIDE DEF f, g, n
<1>5. SumFunction(f) \in Nat /\ SumFunction(g) = SumFunction(f) + n
  BY <1>2, <1>3, <1>4, AddedSum
<1> QED BY <1>1, <1>5 DEF f, g, n, DepositSum

LEMMA DepositDeleted ==
    ASSUME NEW p, IsPending(p, Deposits), NEW key \in DOMAIN p, NEW q, q = Deleted(p, key),
           NEW t \in Tokens
    PROVE  /\ IsPending(q, Deposits) /\ DepositOf(p[key], t) \in Nat
           /\ DepositSum(q, t) \in Nat /\ DepositSum(p, t) = DepositSum(q, t) + DepositOf(p[key], t)
<1> DEFINE f == DepositsOf(p, t)
           g == DepositsOf(q, t)
<1>1. IsPending(q, Deposits)  BY DEF IsPending, Deleted
<1>2. DOMAIN f = DOMAIN p /\ IsPending(f, Nat)  BY DepositOfNat DEF IsPending, DepositsOf
<1>3. g = Deleted(f, key) /\ f[key] = DepositOf(p[key], t)  BY DEF DepositsOf, Deleted
<1> HIDE DEF f, g
<1>4. SumFunction(g) \in Nat /\ SumFunction(f) = SumFunction(g) + f[key] /\ f[key] \in Nat
  BY <1>2, <1>3, DeletedSum
<1> QED BY <1>1, <1>3, <1>4 DEF f, g, DepositSum

LEMMA WithdrawalAdded ==
    ASSUME NEW p, IsPending(p, Nat), NEW key \in Keys, key \notin DOMAIN p,
           NEW n \in Nat, NEW q, q = Added(p, key, n), NEW t \in Tokens
    PROVE  /\ IsPending(q, Nat)
           /\ WithdrawalSum(p, t) \in Nat
           /\ WithdrawalSum(q, t) = WithdrawalSum(p, t) + Only(t, Market, n)
<1> DEFINE f == WithdrawalsOf(p, t)
           g == WithdrawalsOf(q, t)
           m == Only(t, Market, n)
<1>1. IsPending(q, Nat)  BY DEF IsPending, Added
<1>2. DOMAIN f = DOMAIN p /\ IsPending(f, Nat)  BY DEF IsPending, WithdrawalsOf, Only
<1>3. m \in Nat  BY DEF Only
<1>4. g = Added(f, key, m)  BY DEF WithdrawalsOf, Added
<1> HIDE DEF f, g, m
<1>5. SumFunction(f) \in Nat /\ SumFunction(g) = SumFunction(f) + m
  BY <1>2, <1>3, <1>4, AddedSum
<1> QED BY <1>1, <1>5 DEF f, g, m, WithdrawalSum

LEMMA WithdrawalDeleted ==
    ASSUME NEW p, IsPending(p, Nat), NEW key \in DOMAIN p, NEW q, q = Deleted(p, key),
           NEW t \in Tokens
    PROVE  /\ IsPending(q, Nat) /\ Only(t, Market, p[key]) \in Nat
           /\ WithdrawalSum(q, t) \in Nat
           /\ WithdrawalSum(p, t) = WithdrawalSum(q, t) + Only(t, Market, p[key])
<1> DEFINE f == WithdrawalsOf(p, t)
           g == WithdrawalsOf(q, t)
<1>1. IsPending(q, Nat)  BY DEF IsPending, Deleted
<1>2. DOMAIN f = DOMAIN p /\ IsPending(f, Nat)  BY DEF IsPending, WithdrawalsOf, Only
<1>3. g = Deleted(f, key) /\ f[key] = Only(t, Market, p[key])  BY DEF WithdrawalsOf, Deleted
<1> HIDE DEF f, g
<1>4. SumFunction(g) \in Nat /\ SumFunction(f) = SumFunction(g) + f[key] /\ f[key] \in Nat
  BY <1>2, <1>3, DeletedSum
<1> QED BY <1>1, <1>3, <1>4 DEF f, g, WithdrawalSum

\* Sums are natural numbers.
LEMMA SumsNat ==
    ASSUME NEW p, IsPending(p, Deposits), NEW q, IsPending(q, Nat), NEW t \in Tokens
    PROVE  DepositSum(p, t) \in Nat /\ WithdrawalSum(q, t) \in Nat
<1> DEFINE f == DepositsOf(p, t)
           g == WithdrawalsOf(q, t)
           S == DOMAIN p
           U == DOMAIN q
<1>1. IsFiniteSet(S) /\ IsFiniteSet(U)  BY RebalanceAssumption, FS_Subset DEF IsPending
<1>2. f \in [S -> Nat] /\ g \in [U -> Nat]
  BY DepositOfNat DEF IsPending, DepositsOf, WithdrawalsOf, Only
<1> HIDE DEF f, g, S, U
<1>3. SumFunction(f) \in Nat /\ SumFunction(g) \in Nat  BY <1>1, <1>2, SumFunctionNat
<1> QED BY <1>3 DEF DepositSum, WithdrawalSum, f, g

-----------------------------------------------------------------------------
(***************************************************************************)
(* The invariant: the books are sound, the service's tokens are natural    *)
(* numbers, an order GMX has not answered is pending and an unused key is  *)
(* not, and what is on hold is what the pending orders took.               *)
(***************************************************************************)
Fates == {"unused", "deposit", "withdrawal", "answered"}
Orders(pd, pw, g) ==
    /\ IsPending(pd, Deposits) /\ IsPending(pw, Nat)
    /\ g \in [Keys -> Fates]
    /\ \A key \in Keys :
          /\ g[key] = "unused" => key \notin DOMAIN pd /\ key \notin DOMAIN pw
          /\ g[key] = "deposit" => key \in DOMAIN pd
          /\ g[key] = "withdrawal" => key \in DOMAIN pw
Committed(h, pd, pw) == \A t \in Tokens : h[t] = DepositSum(pd, t) + WithdrawalSum(pw, t)
Rebalanced(v, b, h, pd, pw, g) ==
    /\ Solvent(v, b)
    /\ h \in [Tokens -> Nat]
    /\ Orders(pd, pw, g)
    /\ Committed(v.onHold, pd, pw)
RebalanceInv == Rebalanced(vault, balance, held, pendingDeposit, pendingWithdrawal, gmx)

\* It says what it should.
LEMMA CommittedIs == OnHoldMatch <=> Committed(vault.onHold, pendingDeposit, pendingWithdrawal)
BY DEF OnHoldMatch, Committed, DepositSum, WithdrawalSum, DepositsOf, WithdrawalsOf, DepositOf, Only

\* The empty books.
LEMMA RebalanceInitInv == RebalanceInit => RebalanceInv
<1> SUFFICES ASSUME RebalanceInit PROVE RebalanceInv  OBVIOUS
<1>1. Solvent(vault, balance) /\ vault.onHold = [t \in Tokens |-> 0]
  BY InitSolvent DEF RebalanceInit, Init, EmptyVault
<1>2. held \in [Tokens -> Nat]  BY DEF RebalanceInit
<1>3. /\ pendingDeposit = <<>> /\ pendingWithdrawal = <<>>
      /\ gmx = [key \in Keys |-> "unused"]
  BY DEF RebalanceInit
<1>4. DOMAIN <<>> = {}  OBVIOUS
<1>5. Orders(pendingDeposit, pendingWithdrawal, gmx)
  BY <1>3, <1>4 DEF Orders, IsPending, Fates
<1>6. ASSUME NEW t \in Tokens
      PROVE  DepositSum(pendingDeposit, t) = 0 /\ WithdrawalSum(pendingWithdrawal, t) = 0
  <2> DEFINE f == DepositsOf(pendingDeposit, t)
             g == WithdrawalsOf(pendingWithdrawal, t)
  <2>1. f \in [{} -> Int] /\ g \in [{} -> Int]  BY <1>3, <1>4 DEF DepositsOf, WithdrawalsOf
  <2>2. IsFiniteSet({}) /\ (\A x \in {} : f[x] = 0) /\ \A x \in {} : g[x] = 0  BY FS_EmptySet
  <2> HIDE DEF f, g
  <2>3. SumFunction(f) = 0 /\ SumFunction(g) = 0  BY <2>1, <2>2, SumFunctionZero
  <2> QED BY <2>3 DEF DepositSum, WithdrawalSum, f, g
<1>7. Committed(vault.onHold, pendingDeposit, pendingWithdrawal)
  BY <1>1, <1>6 DEF Committed
<1> QED BY <1>1, <1>2, <1>5, <1>7 DEF RebalanceInv, Rebalanced

-----------------------------------------------------------------------------
\* The facts about an order that GMX answers: it is pending, and what it took is
\* on hold.
LEMMA PendingDepositFacts ==
    ASSUME RebalanceInv, NEW key \in Keys, gmx[key] = "deposit", NEW d, d = pendingDeposit[key]
    PROVE  /\ key \in DOMAIN pendingDeposit /\ d \in Deposits
           /\ \A t \in Tokens : /\ vault.onHold[t] \in Nat /\ DepositOf(d, t) \in Nat
                                /\ DepositOf(d, t) <= vault.onHold[t]
<1>1. /\ IsPending(pendingDeposit, Deposits) /\ IsPending(pendingWithdrawal, Nat)
      /\ key \in DOMAIN pendingDeposit
      /\ Committed(vault.onHold, pendingDeposit, pendingWithdrawal)
  BY DEF RebalanceInv, Rebalanced, Orders
<1>2. d \in Deposits  BY <1>1 DEF IsPending
<1>3. ASSUME NEW t \in Tokens
      PROVE  vault.onHold[t] \in Nat /\ DepositOf(d, t) \in Nat /\ DepositOf(d, t) <= vault.onHold[t]
  <2> DEFINE q == Deleted(pendingDeposit, key)
             p == pendingDeposit
             e == DepositOf(d, t)
             h == vault.onHold[t]
  <2>1. /\ e \in Nat /\ DepositSum(q, t) \in Nat
        /\ DepositSum(p, t) = DepositSum(q, t) + e
    BY <1>1, DepositDeleted
  <2>2. WithdrawalSum(pendingWithdrawal, t) \in Nat  BY <1>1, SumsNat
  <2>3. h = DepositSum(p, t) + WithdrawalSum(pendingWithdrawal, t)  BY <1>1 DEF Committed
  <2> HIDE DEF q, p, e, h
  <2>4. h \in Nat /\ e <= h  BY <2>1, <2>2, <2>3
  <2> QED BY <2>1, <2>4 DEF h, e
<1> QED BY <1>1, <1>2, <1>3

LEMMA PendingWithdrawalFacts ==
    ASSUME RebalanceInv, NEW key \in Keys, gmx[key] = "withdrawal",
           NEW n, n = pendingWithdrawal[key]
    PROVE  key \in DOMAIN pendingWithdrawal /\ n \in Nat /\ n <= vault.onHold[Market]
<1>1. /\ IsPending(pendingDeposit, Deposits) /\ IsPending(pendingWithdrawal, Nat)
      /\ key \in DOMAIN pendingWithdrawal
      /\ Committed(vault.onHold, pendingDeposit, pendingWithdrawal)
  BY DEF RebalanceInv, Rebalanced, Orders
<1>2. n \in Nat /\ Market \in Tokens  BY <1>1, RebalanceAssumption DEF IsPending
<1> DEFINE q == Deleted(pendingWithdrawal, key)
           p == pendingWithdrawal
           h == vault.onHold[Market]
<1>3. WithdrawalSum(q, Market) \in Nat /\ WithdrawalSum(p, Market) = WithdrawalSum(q, Market) + n
  <2>1. Only(Market, Market, n) = n  BY DEF Only
  <2> QED BY <1>1, <1>2, <2>1, WithdrawalDeleted
<1>4. DepositSum(pendingDeposit, Market) \in Nat  BY <1>1, <1>2, SumsNat
<1>5. h = DepositSum(pendingDeposit, Market) + WithdrawalSum(p, Market)
  BY <1>1, <1>2 DEF Committed
<1> HIDE DEF q, p, h
<1>6. n <= h  BY <1>2, <1>3, <1>4, <1>5
<1> QED BY <1>1, <1>2, <1>6 DEF h

\* An answered order is deleted, and its tokens are no longer on hold.
LEMMA DepositAnswered ==
    ASSUME RebalanceInv, NEW key \in Keys, gmx[key] = "deposit", Answered(key),
           pendingDeposit' = Deleted(pendingDeposit, key), pendingWithdrawal' = pendingWithdrawal,
           Solvent(vault', balance'), held' \in [Tokens -> Nat],
           \A t \in Tokens :
               vault'.onHold[t] = vault.onHold[t] - DepositOf(pendingDeposit[key], t)
    PROVE  RebalanceInv'
<1>1. /\ IsPending(pendingDeposit, Deposits) /\ IsPending(pendingWithdrawal, Nat)
      /\ key \in DOMAIN pendingDeposit /\ gmx \in [Keys -> Fates]
      /\ Committed(vault.onHold, pendingDeposit, pendingWithdrawal)
      /\ \A k \in Keys :
            /\ gmx[k] = "unused" => k \notin DOMAIN pendingDeposit /\ k \notin DOMAIN pendingWithdrawal
            /\ gmx[k] = "deposit" => k \in DOMAIN pendingDeposit
            /\ gmx[k] = "withdrawal" => k \in DOMAIN pendingWithdrawal
  BY DEF RebalanceInv, Rebalanced, Orders
<1> DEFINE p == pendingDeposit
           q == pendingDeposit'
           r == pendingWithdrawal
<1>2. gmx' \in [Keys -> Fates] /\ gmx'[key] = "answered" /\ \A k \in Keys : k # key => gmx'[k] = gmx[k]
  BY <1>1 DEF Answered, Fates
<1>3. DOMAIN q = DOMAIN p \ {key}  BY DEF Deleted
<1>4. IsPending(q, Deposits)  BY <1>1 DEF IsPending, Deleted
<1>5. Orders(q, r, gmx')  BY <1>1, <1>2, <1>3, <1>4 DEF Orders
<1>6. ASSUME NEW t \in Tokens PROVE vault'.onHold[t] = DepositSum(q, t) + WithdrawalSum(r, t)
  <2> DEFINE e == DepositOf(p[key], t)
             h == vault.onHold[t]
             g == vault'.onHold[t]
  <2>1. e \in Nat /\ DepositSum(q, t) \in Nat /\ DepositSum(p, t) = DepositSum(q, t) + e
    BY <1>1, DepositDeleted
  <2>2. WithdrawalSum(r, t) \in Nat  BY <1>1, SumsNat
  <2>3. h = DepositSum(p, t) + WithdrawalSum(r, t) /\ g = h - e  BY <1>1 DEF Committed
  <2> HIDE DEF p, q, r, e, h, g
  <2>4. g = DepositSum(q, t) + WithdrawalSum(r, t)  BY <2>1, <2>2, <2>3
  <2> QED BY <2>4 DEF g
<1> QED BY <1>5, <1>6 DEF RebalanceInv, Rebalanced, Committed

LEMMA WithdrawalAnswered ==
    ASSUME RebalanceInv, NEW key \in Keys, gmx[key] = "withdrawal", Answered(key),
           pendingWithdrawal' = Deleted(pendingWithdrawal, key), pendingDeposit' = pendingDeposit,
           Solvent(vault', balance'), held' \in [Tokens -> Nat],
           \A t \in Tokens :
               vault'.onHold[t] = vault.onHold[t] - Only(t, Market, pendingWithdrawal[key])
    PROVE  RebalanceInv'
<1>1. /\ IsPending(pendingDeposit, Deposits) /\ IsPending(pendingWithdrawal, Nat)
      /\ key \in DOMAIN pendingWithdrawal /\ gmx \in [Keys -> Fates]
      /\ Committed(vault.onHold, pendingDeposit, pendingWithdrawal)
      /\ \A k \in Keys :
            /\ gmx[k] = "unused" => k \notin DOMAIN pendingDeposit /\ k \notin DOMAIN pendingWithdrawal
            /\ gmx[k] = "deposit" => k \in DOMAIN pendingDeposit
            /\ gmx[k] = "withdrawal" => k \in DOMAIN pendingWithdrawal
  BY DEF RebalanceInv, Rebalanced, Orders
<1> DEFINE p == pendingWithdrawal
           q == pendingWithdrawal'
           r == pendingDeposit
<1>2. gmx' \in [Keys -> Fates] /\ gmx'[key] = "answered" /\ \A k \in Keys : k # key => gmx'[k] = gmx[k]
  BY <1>1 DEF Answered, Fates
<1>3. DOMAIN q = DOMAIN p \ {key}  BY DEF Deleted
<1>4. IsPending(q, Nat)  BY <1>1 DEF IsPending, Deleted
<1>5. Orders(r, q, gmx')  BY <1>1, <1>2, <1>3, <1>4 DEF Orders
<1>6. ASSUME NEW t \in Tokens PROVE vault'.onHold[t] = DepositSum(r, t) + WithdrawalSum(q, t)
  <2> DEFINE e == Only(t, Market, p[key])
             h == vault.onHold[t]
             g == vault'.onHold[t]
  <2>1. e \in Nat /\ WithdrawalSum(q, t) \in Nat /\ WithdrawalSum(p, t) = WithdrawalSum(q, t) + e
    BY <1>1, WithdrawalDeleted
  <2>2. DepositSum(r, t) \in Nat  BY <1>1, SumsNat
  <2>3. h = DepositSum(r, t) + WithdrawalSum(p, t) /\ g = h - e  BY <1>1 DEF Committed
  <2> HIDE DEF p, q, r, e, h, g
  <2>4. g = DepositSum(r, t) + WithdrawalSum(q, t)  BY <2>1, <2>2, <2>3
  <2> QED BY <2>4 DEF g
<1> QED BY <1>5, <1>6 DEF RebalanceInv, Rebalanced, Committed

\* The state in which a callback runs: GMX has sent n tokens t and m tokens u.
Started(x, t, n, u, m) ==
    /\ IsBox(x) /\ x.vault = vault /\ x.balance = balance
    /\ x.held \in [Tokens -> Nat]
    /\ \A z \in Tokens : x.held[z] = held[z] + (Only(z, t, n) + Only(z, u, m))

LEMMA WithFacts ==
    ASSUME RebalanceInv, NEW t, NEW u, NEW n \in Nat, NEW m \in Nat,
           NEW x, x = With(Sent(t, n, u, m))
    PROVE  Started(x, t, n, u, m)
<1> DEFINE h == [z \in Tokens |-> held[z] + Sent(t, n, u, m)[z]]
<1>1. held \in [Tokens -> Nat] /\ Solvent(vault, balance)  BY DEF RebalanceInv, Rebalanced
<1>2. \A z \in Tokens : /\ Sent(t, n, u, m)[z] = Only(z, t, n) + Only(z, u, m)
                        /\ Sent(t, n, u, m)[z] \in Nat
  BY DEF Sent, Only
<1>3. h \in [Tokens -> Nat] /\ \A z \in Tokens : h[z] = held[z] + (Only(z, t, n) + Only(z, u, m))
  BY <1>1, <1>2
<1>4. x = Boxed(vault, balance, h)  BY DEF With, Boxed
<1> HIDE DEF h
<1>5. /\ x.vault = vault /\ x.balance = balance /\ x.held = h
      /\ x = Boxed(x.vault, x.balance, x.held)
  BY <1>4, BoxFields
<1>6. h \in [Tokens -> Int]  BY <1>3
<1> QED BY <1>1, <1>3, <1>5, <1>6 DEF IsBox, Started

\* The state in which it ends.
LEMMA BecomesFacts ==
    ASSUME NEW x, Solvent(x.vault, x.balance), x.held \in [Tokens -> Int], Becomes(x)
    PROVE  Solvent(vault', balance') /\ held' \in [Tokens -> Nat] /\ vault' = x.vault
<1>1. \A t \in Tokens : x.held[t] \in Int /\ x.held[t] >= 0  BY DEF Becomes, Covered
<1>2. x.held \in [Tokens -> Nat]  BY <1>1
<1> QED BY <1>2 DEF Becomes

\* The whole hold of a deposit is cleared.
LEMMA DepositCleared ==
    ASSUME NEW v, NEW b, Solvent(v, b), NEW d \in Deposits,
           \A t \in Tokens : DepositOf(d, t) <= v.onHold[t],
           NEW w, w = ClearOnHold(ClearOnHold(v, LongToken, d.long), ShortToken, d.short)
    PROVE  /\ Solvent(w, b)
           /\ \A t \in Tokens : w.onHold[t] = v.onHold[t] - DepositOf(d, t)
<1> DEFINE n == d.long
           m == d.short
           u == ClearOnHold(v, LongToken, n)
<1>1. /\ LongToken \in Tokens /\ ShortToken \in Tokens /\ n \in Nat /\ m \in Nat
      /\ v.onHold \in [Tokens -> Nat]
      /\ u = ClearOnHold(v, LongToken, n) /\ w = ClearOnHold(u, ShortToken, m)
  BY RebalanceAssumption DEF Deposits, Solvent, Kept, Vaults
<1>2. \A t \in Tokens : /\ DepositOf(d, t) = Only(t, LongToken, n) + Only(t, ShortToken, m)
                        /\ Only(t, LongToken, n) \in Nat /\ Only(t, ShortToken, m) \in Nat
                        /\ v.onHold[t] \in Nat
  BY <1>1 DEF DepositOf, Only
<1>3. Only(LongToken, LongToken, n) = n /\ Only(ShortToken, ShortToken, m) = m  BY DEF Only
<1> HIDE DEF n, m, u
<1>4. n <= v.onHold[LongToken]  BY <1>1, <1>2, <1>3
<1>5. Solvent(u, b) /\ Cleared(v, u, LongToken, n)  BY <1>1, <1>4, ClearFacts
<1>6. \A t \in Tokens : u.onHold[t] = v.onHold[t] - Only(t, LongToken, n)
  BY <1>1, <1>5 DEF Cleared, Only
<1>7. m <= u.onHold[ShortToken]  BY <1>1, <1>2, <1>3, <1>6
<1>8. Solvent(w, b) /\ Cleared(u, w, ShortToken, m)  BY <1>1, <1>5, <1>7, ClearFacts
<1>9. ASSUME NEW t \in Tokens PROVE w.onHold[t] = v.onHold[t] - DepositOf(d, t)
  <2>1. u.onHold \in [Tokens -> Nat]  BY <1>5 DEF Solvent, Kept, Vaults
  <2>2. w.onHold[t] = u.onHold[t] - Only(t, ShortToken, m)
    BY <1>1, <1>8, <2>1 DEF Cleared, Only
  <2>3. u.onHold[t] = v.onHold[t] - Only(t, LongToken, n)  BY <1>6
  <2> HIDE DEF Only
  <2> QED BY <1>2, <2>2, <2>3
<1> QED BY <1>8, <1>9

\* Only the vault of a box changes.
LEMMA Rebox ==
    ASSUME NEW y, IsBox(y), NEW w, Solvent(w, y.balance), NEW z, z = [y EXCEPT !.vault = w]
    PROVE  IsBox(z) /\ z.vault = w /\ z.balance = y.balance /\ z.held = y.held
<1>1. y = Boxed(y.vault, y.balance, y.held) /\ y.held \in [Tokens -> Int]  BY DEF IsBox
<1>2. DOMAIN y = {"vault", "balance", "held"}  BY <1>1, BoxFields
<1>3. /\ z = [k \in {"vault", "balance", "held"} |-> z[k]]
      /\ z.vault = w /\ z.balance = y.balance /\ z.held = y.held
  BY <1>2
<1>4. z = Boxed(z.vault, z.balance, z.held)  BY <1>3 DEF Boxed
<1> QED BY <1>1, <1>3, <1>4 DEF IsBox

\* What happens to the hold and to the service's tokens, token by token.
LEMMA HandledFacts ==
    ASSUME NEW x, IsBox(x), NEW y, NEW t \in Tokens, NEW n \in Int, NEW u \in Tokens, NEW m \in Int,
           Handled(x, y, t, n, u, m)
    PROVE  /\ IsBox(y) /\ Solvent(y.vault, y.balance) /\ y.held \in [Tokens -> Int]
           /\ \A z \in Tokens : /\ x.vault.onHold[z] \in Nat /\ x.held[z] \in Int
                                /\ y.vault.onHold[z] = x.vault.onHold[z] + Only(z, t, n)
                                /\ y.held[z] = x.held[z] + Only(z, u, m)
<1>1. /\ IsBox(y)
      /\ y.vault.onHold = [x.vault.onHold EXCEPT ![t] = @ + n]
      /\ y.held = [x.held EXCEPT ![u] = @ + m]
  BY DEF Handled
<1>2. x.held \in [Tokens -> Int] /\ x.vault.onHold \in [Tokens -> Nat]
  BY DEF IsBox, Solvent, Kept, Vaults
<1> DEFINE h == x.vault.onHold
           g == x.held
<1>3. ASSUME NEW z \in Tokens
      PROVE  /\ y.vault.onHold[z] = h[z] + Only(z, t, n)
             /\ y.held[z] = g[z] + Only(z, u, m)
  BY <1>1, <1>2 DEF Only
<1> QED BY <1>1, <1>2, <1>3 DEF IsBox

\* createDepositOrders: the pool's tokens leave for GMX.
LEMMA CreateDepositInv ==
    ASSUME RebalanceInv, NEW key \in Keys, NEW long \in LongAmounts, NEW short \in ShortAmounts,
           CreateDeposit(key, long, short)
    PROVE  RebalanceInv'
<1> DEFINE d == [long |-> long, short |-> short]
           y == Deployed(Deployed(Paired(vault, balance), LongToken, d.long), ShortToken, d.short)
           p == pendingDeposit
           q == pendingDeposit'
           r == pendingWithdrawal
<1>1. d \in Deposits  BY RebalanceAssumption DEF Deposits
<1>2. /\ gmx[key] = "unused"
      /\ \A t \in Tokens : y.vault.bucket[<<"hlpLiquidity", t>>] >= 0
      /\ vault' = y.vault /\ balance' = y.balance
      /\ q = Added(p, key, d)
      /\ gmx' = [gmx EXCEPT ![key] = "deposit"]
      /\ held' = held /\ pendingWithdrawal' = r
  BY DEF CreateDeposit, Paired
<1>3. /\ Solvent(vault, balance) /\ held \in [Tokens -> Nat]
      /\ IsPending(p, Deposits) /\ IsPending(r, Nat)
      /\ gmx \in [Keys -> Fates]
      /\ Committed(vault.onHold, p, r)
      /\ \A k \in Keys :
            /\ gmx[k] = "unused" => k \notin DOMAIN p /\ k \notin DOMAIN r
            /\ gmx[k] = "deposit" => k \in DOMAIN p
            /\ gmx[k] = "withdrawal" => k \in DOMAIN r
  BY DEF RebalanceInv, Rebalanced, Orders
<1>4. key \notin DOMAIN p  BY <1>2, <1>3
<1>5. y = Deployed(Deployed(Paired(vault, balance), LongToken, d.long), ShortToken, d.short)  OBVIOUS
<1> HIDE DEF d, y
<1>6. /\ Solvent(y.vault, y.balance)
      /\ \A t \in Tokens : y.vault.onHold[t] = vault.onHold[t] + DepositOf(d, t)
  BY <1>1, <1>2, <1>3, <1>5, DepositDeployed
<1>7. Solvent(vault', balance')  BY <1>2, <1>6
<1>8. ASSUME NEW t \in Tokens
      PROVE  vault'.onHold[t] = DepositSum(q, t) + WithdrawalSum(r, t)
  <2> DEFINE e == DepositOf(d, t)
             h == vault.onHold[t]
             g == vault'.onHold[t]
  <2>1. DepositSum(p, t) \in Nat /\ DepositSum(q, t) = DepositSum(p, t) + e
    BY <1>1, <1>2, <1>3, <1>4, DepositAdded
  <2>2. WithdrawalSum(r, t) \in Nat /\ e \in Nat  BY <1>1, <1>3, SumsNat, DepositOfNat
  <2>3. h = DepositSum(p, t) + WithdrawalSum(r, t) /\ g = h + e  BY <1>2, <1>3, <1>6 DEF Committed
  <2> HIDE DEF p, q, r, e, h, g
  <2>4. g = DepositSum(q, t) + WithdrawalSum(r, t)  BY <2>1, <2>2, <2>3
  <2> QED BY <2>4 DEF g
<1>9. Orders(q, r, gmx')
  <2>1. IsPending(q, Deposits) /\ DOMAIN q = DOMAIN p \cup {key}
    BY <1>1, <1>2, <1>3 DEF IsPending, Added
  <2>2. gmx' \in [Keys -> Fates] /\ gmx'[key] = "deposit" /\ \A k \in Keys : k # key => gmx'[k] = gmx[k]
    BY <1>2, <1>3 DEF Fates
  <2> QED BY <1>3, <2>1, <2>2 DEF Orders
<1> QED BY <1>2, <1>3, <1>7, <1>8, <1>9 DEF RebalanceInv, Rebalanced, Committed

\* createWithdrawalOrders: so do its GMs.
LEMMA CreateWithdrawalInv ==
    ASSUME RebalanceInv, NEW key \in Keys, NEW n \in GmAmounts, CreateWithdrawal(key, n)
    PROVE  RebalanceInv'
<1> DEFINE x == Paired(vault, balance)
           y == Deployed(x, Market, n)
           p == pendingDeposit
           q == pendingWithdrawal'
           r == pendingWithdrawal
           f == vault.bucket
<1>1. n \in Nat /\ Market \in Tokens  BY RebalanceAssumption
<1>2. /\ gmx[key] = "unused"
      /\ y.vault.bucket[<<"hlpLiquidity", Market>>] >= 0
      /\ vault' = y.vault /\ balance' = y.balance
      /\ q = Added(r, key, n)
      /\ gmx' = [gmx EXCEPT ![key] = "withdrawal"]
      /\ held' = held /\ pendingDeposit' = p
  BY DEF CreateWithdrawal, Paired
<1>3. /\ Solvent(vault, balance) /\ held \in [Tokens -> Nat]
      /\ IsPending(p, Deposits) /\ IsPending(r, Nat)
      /\ gmx \in [Keys -> Fates]
      /\ Committed(vault.onHold, p, r)
      /\ \A k \in Keys :
            /\ gmx[k] = "unused" => k \notin DOMAIN p /\ k \notin DOMAIN r
            /\ gmx[k] = "deposit" => k \in DOMAIN p
            /\ gmx[k] = "withdrawal" => k \in DOMAIN r
  BY DEF RebalanceInv, Rebalanced, Orders
<1>4. key \notin DOMAIN r  BY <1>2, <1>3
<1>5. y = Deployed(x, Market, n) /\ x = Paired(vault, balance) /\ f = vault.bucket  OBVIOUS
<1>6. BucketFields \subseteq DOMAIN vault /\ f \in [Buckets \X Tokens -> Int]
  BY <1>3 DEF Solvent, Kept, Vaults, BucketFields
<1> HIDE DEF x, y, f
<1>7. n <= f[<<"hlpLiquidity", Market>>]
  <2> DEFINE g == y.vault.bucket
             fm == f[<<"hlpLiquidity", Market>>]
             gm == g[<<"hlpLiquidity", Market>>]
  <2>1. Draws(f, y, Market, n)  BY <1>1, <1>5, <1>6, DeployedBucket
  <2>2. gm = fm - n /\ fm \in Int  BY <1>1, <1>6, <2>1, DebtKinds DEF Draws, Drawn, Only
  <2>3. gm >= 0  BY <1>2
  <2> HIDE DEF g, fm, gm
  <2>4. n <= fm  BY <1>1, <2>2, <2>3
  <2> QED BY <2>4 DEF fm
<1>8. Solvent(y.vault, y.balance) /\ y.vault.onHold = [vault.onHold EXCEPT ![Market] = @ + n]
  BY <1>1, <1>3, <1>5, <1>7, DeployedFacts
<1>9. ASSUME NEW t \in Tokens
      PROVE  vault'.onHold[t] = DepositSum(p, t) + WithdrawalSum(q, t)
  <2> DEFINE e == Only(t, Market, n)
             h == vault.onHold[t]
             g == vault'.onHold[t]
  <2>1. WithdrawalSum(r, t) \in Nat /\ WithdrawalSum(q, t) = WithdrawalSum(r, t) + e
    BY <1>1, <1>2, <1>3, <1>4, WithdrawalAdded
  <2>2. DepositSum(p, t) \in Nat /\ e \in Nat  BY <1>1, <1>3, SumsNat DEF Only
  <2>3. vault.onHold \in [Tokens -> Nat]  BY <1>3 DEF Solvent, Kept, Vaults
  <2>4. g = h + e  BY <1>1, <1>2, <1>8, <2>3 DEF Only
  <2>5. h = DepositSum(p, t) + WithdrawalSum(r, t)  BY <1>3 DEF Committed
  <2> HIDE DEF p, q, r, e, h, g
  <2>6. g = DepositSum(p, t) + WithdrawalSum(q, t)  BY <2>1, <2>2, <2>4, <2>5
  <2> QED BY <2>6 DEF g
<1>10. Orders(p, q, gmx')
  <2>1. IsPending(q, Nat) /\ DOMAIN q = DOMAIN r \cup {key}
    BY <1>1, <1>2, <1>3 DEF IsPending, Added
  <2>2. gmx' \in [Keys -> Fates] /\ gmx'[key] = "withdrawal" /\ \A k \in Keys : k # key => gmx'[k] = gmx[k]
    BY <1>2, <1>3 DEF Fates
  <2> QED BY <1>3, <2>1, <2>2 DEF Orders
<1> QED BY <1>2, <1>3, <1>8, <1>9, <1>10 DEF RebalanceInv, Rebalanced, Committed

\* afterDepositExecution: the GMs join the pool, the deposit's hold is cleared.
LEMMA ExecuteDepositInv ==
    ASSUME RebalanceInv, NEW key \in Keys, NEW gms \in GmAmounts, ExecuteDeposit(key, gms)
    PROVE  RebalanceInv'
<1> DEFINE d == pendingDeposit[key]
           none == 0
           x == With(Sent(Market, gms, Market, none))
           y == Received(x, Market, gms)
           m == 0 - gms
           w == ClearOnHold(ClearOnHold(y.vault, LongToken, d.long), ShortToken, d.short)
           z == [y EXCEPT !.vault = w]
<1>1. /\ gmx[key] = "deposit" /\ Answered(key) /\ Becomes(z)
      /\ pendingDeposit' = Deleted(pendingDeposit, key) /\ pendingWithdrawal' = pendingWithdrawal
  BY DEF ExecuteDeposit, AfterDepositExecution
<1>2. gms \in Nat /\ none \in Nat /\ none \in Int /\ Market \in Tokens /\ m = 0 - gms /\ m \in Int
      /\ none = 0
  BY RebalanceAssumption
<1>3. /\ x = With(Sent(Market, gms, Market, none)) /\ y = Received(x, Market, gms)
      /\ w = ClearOnHold(ClearOnHold(y.vault, LongToken, d.long), ShortToken, d.short)
      /\ z = [y EXCEPT !.vault = w] /\ d = pendingDeposit[key]
  OBVIOUS
<1> HIDE DEF d, none, x, y, m, w, z
<1>4. IsBox(x) /\ x.vault = vault
  <2>1. Started(x, Market, gms, Market, none)  BY <1>2, <1>3, WithFacts
  <2> QED BY <2>1 DEF Started
<1>5. Handled(x, y, Market, none, Market, m)  BY <1>2, <1>3, <1>4, ReceivedFacts
<1>6. /\ IsBox(y) /\ Solvent(y.vault, y.balance) /\ y.held \in [Tokens -> Int]
      /\ \A t \in Tokens : y.vault.onHold[t] = vault.onHold[t]
  <2>1. \A t \in Tokens : /\ x.vault.onHold[t] \in Nat
                          /\ y.vault.onHold[t] = x.vault.onHold[t] + Only(t, Market, none)
    BY <1>2, <1>4, <1>5, HandledFacts
  <2>2. \A t \in Tokens : Only(t, Market, none) = 0  BY <1>2 DEF Only
  <2>3. \A t \in Tokens : y.vault.onHold[t] = x.vault.onHold[t]  BY <2>1, <2>2
  <2> QED BY <1>2, <1>4, <1>5, <2>3, HandledFacts
<1>7. d \in Deposits /\ \A t \in Tokens : DepositOf(d, t) <= vault.onHold[t]
  BY <1>1, <1>3, PendingDepositFacts
<1>8. /\ Solvent(w, y.balance)
      /\ \A t \in Tokens : w.onHold[t] = y.vault.onHold[t] - DepositOf(d, t)
  BY <1>3, <1>6, <1>7, DepositCleared
<1>9. IsBox(z) /\ z.vault = w /\ z.balance = y.balance /\ z.held = y.held
  BY <1>3, <1>6, <1>8, Rebox
<1>10. Solvent(vault', balance') /\ held' \in [Tokens -> Nat] /\ vault' = w
  BY <1>1, <1>6, <1>8, <1>9, BecomesFacts
<1>11. \A t \in Tokens : vault'.onHold[t] = vault.onHold[t] - DepositOf(pendingDeposit[key], t)
  BY <1>3, <1>6, <1>8, <1>10
<1> QED BY <1>1, <1>10, <1>11, DepositAnswered

\* afterDepositCancellation: the hold is cleared for both tokens.
LEMMA CancelDepositInv ==
    ASSUME RebalanceInv, NEW key \in Keys, CancelDeposit(key)
    PROVE  RebalanceInv'
<1> DEFINE d == pendingDeposit[key]
           n == d.long
           m == d.short
           k == 0 - n
           l == 0 - m
           x == With(Sent(LongToken, n, ShortToken, m))
           y == Returned(x, LongToken, LongToken, n)
           z == Returned(y, ShortToken, LongToken, m)
<1>1. /\ gmx[key] = "deposit" /\ Answered(key) /\ Becomes(z)
      /\ pendingDeposit' = Deleted(pendingDeposit, key) /\ pendingWithdrawal' = pendingWithdrawal
  BY DEF CancelDeposit, AfterDepositCancellation
<1>2. /\ d \in Deposits /\ d = pendingDeposit[key]
      /\ \A t \in Tokens : /\ vault.onHold[t] \in Nat /\ DepositOf(d, t) \in Nat
                           /\ DepositOf(d, t) <= vault.onHold[t]
  BY <1>1, PendingDepositFacts
<1>3. /\ LongToken \in Tokens /\ ShortToken \in Tokens /\ n \in Nat /\ m \in Nat
      /\ k = 0 - n /\ l = 0 - m /\ k \in Int /\ l \in Int
  BY <1>2, RebalanceAssumption DEF Deposits
<1>4. /\ x = With(Sent(LongToken, n, ShortToken, m)) /\ y = Returned(x, LongToken, LongToken, n)
      /\ z = Returned(y, ShortToken, LongToken, m)
      /\ \A t \in Tokens : /\ DepositOf(d, t) = Only(t, LongToken, n) + Only(t, ShortToken, m)
                           /\ Only(t, LongToken, n) \in Nat /\ Only(t, ShortToken, m) \in Nat
                           /\ Only(t, LongToken, k) = 0 - Only(t, LongToken, n)
                           /\ Only(t, ShortToken, l) = 0 - Only(t, ShortToken, m)
  BY <1>3 DEF DepositOf, Only
<1>5. Only(LongToken, LongToken, n) = n /\ Only(ShortToken, ShortToken, m) = m  BY DEF Only
<1> HIDE DEF d, n, m, k, l, x, y, z
<1>6. IsBox(x) /\ x.vault = vault
  <2>1. Started(x, LongToken, n, ShortToken, m)  BY <1>3, <1>4, WithFacts
  <2> QED BY <2>1 DEF Started
<1>7. n <= x.vault.onHold[LongToken]  BY <1>2, <1>3, <1>4, <1>5, <1>6
<1>8. Handled(x, y, LongToken, k, LongToken, k)  BY <1>3, <1>4, <1>6, <1>7, ReturnedFacts
<1>9. /\ IsBox(y)
      /\ \A t \in Tokens : y.vault.onHold[t] = vault.onHold[t] - Only(t, LongToken, n)
  <2>1. /\ IsBox(y)
        /\ \A t \in Tokens : y.vault.onHold[t] = x.vault.onHold[t] + Only(t, LongToken, k)
    BY <1>3, <1>6, <1>8, HandledFacts
  <2> QED BY <1>2, <1>4, <1>6, <2>1
<1>10. m <= y.vault.onHold[ShortToken]  BY <1>2, <1>3, <1>4, <1>5, <1>9
<1>11. Handled(y, z, ShortToken, l, LongToken, l)  BY <1>3, <1>4, <1>9, <1>10, ReturnedFacts
<1>12. /\ Solvent(z.vault, z.balance) /\ z.held \in [Tokens -> Int]
       /\ \A t \in Tokens : z.vault.onHold[t] = vault.onHold[t] - DepositOf(d, t)
  <2>1. /\ Solvent(z.vault, z.balance) /\ z.held \in [Tokens -> Int]
        /\ \A t \in Tokens : z.vault.onHold[t] = y.vault.onHold[t] + Only(t, ShortToken, l)
    BY <1>3, <1>9, <1>11, HandledFacts
  <2> QED BY <1>2, <1>4, <1>9, <2>1
<1>13. Solvent(vault', balance') /\ held' \in [Tokens -> Nat] /\ vault' = z.vault
  BY <1>1, <1>12, BecomesFacts
<1>14. \A t \in Tokens : vault'.onHold[t] = vault.onHold[t] - DepositOf(pendingDeposit[key], t)
  BY <1>2, <1>12, <1>13
<1> QED BY <1>1, <1>13, <1>14, DepositAnswered

\* afterWithdrawalExecution: both tokens join the pool, the GMs' hold is cleared.
LEMMA ExecuteWithdrawalInv ==
    ASSUME RebalanceInv, NEW key \in Keys, NEW long \in LongAmounts, NEW short \in ShortAmounts,
           ExecuteWithdrawal(key, long, short)
    PROVE  RebalanceInv'
<1> DEFINE n == pendingWithdrawal[key]
           none == 0
           k == 0 - long
           l == 0 - short
           x == With(Sent(LongToken, long, ShortToken, short))
           y == Received(x, LongToken, long)
           s == Received(y, ShortToken, short)
           w == ClearOnHold(s.vault, Market, n)
           z == [s EXCEPT !.vault = w]
<1>1. /\ gmx[key] = "withdrawal" /\ Answered(key) /\ Becomes(z)
      /\ pendingWithdrawal' = Deleted(pendingWithdrawal, key) /\ pendingDeposit' = pendingDeposit
  BY DEF ExecuteWithdrawal, AfterWithdrawalExecution
<1>2. /\ LongToken \in Tokens /\ ShortToken \in Tokens /\ Market \in Tokens
      /\ long \in Nat /\ short \in Nat /\ none = 0 /\ none \in Int
      /\ k = 0 - long /\ l = 0 - short /\ k \in Int /\ l \in Int
      /\ n = pendingWithdrawal[key]
  BY RebalanceAssumption
<1>3. /\ x = With(Sent(LongToken, long, ShortToken, short)) /\ y = Received(x, LongToken, long)
      /\ s = Received(y, ShortToken, short)
      /\ w = ClearOnHold(s.vault, Market, n) /\ z = [s EXCEPT !.vault = w]
  OBVIOUS
<1>4. \A t, u \in Tokens : Only(t, u, none) = 0  BY DEF Only
<1> HIDE DEF n, none, k, l, x, y, s, w, z
<1>5. IsBox(x) /\ x.vault = vault
  <2>1. Started(x, LongToken, long, ShortToken, short)  BY <1>2, <1>3, WithFacts
  <2> QED BY <2>1 DEF Started
<1>6. Handled(x, y, LongToken, none, LongToken, k)  BY <1>2, <1>3, <1>5, ReceivedFacts
<1>7. IsBox(y) /\ \A t \in Tokens : y.vault.onHold[t] = vault.onHold[t]
  <2>1. /\ IsBox(y)
        /\ \A t \in Tokens : /\ x.vault.onHold[t] \in Nat
                             /\ y.vault.onHold[t] = x.vault.onHold[t] + Only(t, LongToken, none)
    BY <1>2, <1>5, <1>6, HandledFacts
  <2> QED BY <1>2, <1>4, <1>5, <2>1
<1>8. Handled(y, s, ShortToken, none, ShortToken, l)  BY <1>2, <1>3, <1>7, ReceivedFacts
<1>9. /\ IsBox(s) /\ Solvent(s.vault, s.balance) /\ s.held \in [Tokens -> Int]
      /\ \A t \in Tokens : s.vault.onHold[t] = vault.onHold[t]
  <2>1. /\ IsBox(s) /\ Solvent(s.vault, s.balance) /\ s.held \in [Tokens -> Int]
        /\ \A t \in Tokens : /\ y.vault.onHold[t] \in Nat
                             /\ s.vault.onHold[t] = y.vault.onHold[t] + Only(t, ShortToken, none)
    BY <1>2, <1>7, <1>8, HandledFacts
  <2> QED BY <1>2, <1>4, <1>7, <2>1
<1>10. n \in Nat /\ n <= vault.onHold[Market]  BY <1>1, <1>2, PendingWithdrawalFacts
<1>11. Solvent(w, s.balance) /\ Cleared(s.vault, w, Market, n)
  BY <1>2, <1>3, <1>9, <1>10, ClearFacts
<1>12. IsBox(z) /\ z.vault = w /\ z.balance = s.balance /\ z.held = s.held
  BY <1>3, <1>9, <1>11, Rebox
<1>13. Solvent(vault', balance') /\ held' \in [Tokens -> Nat] /\ vault' = w
  BY <1>1, <1>9, <1>11, <1>12, BecomesFacts
<1>14. \A t \in Tokens : vault'.onHold[t] = vault.onHold[t] - Only(t, Market, pendingWithdrawal[key])
  <2>1. s.vault.onHold \in [Tokens -> Nat]  BY <1>9 DEF Solvent, Kept, Vaults
  <2>2. \A t \in Tokens : w.onHold[t] = s.vault.onHold[t] - Only(t, Market, n)
    BY <1>2, <1>10, <1>11, <2>1 DEF Cleared, Only
  <2> QED BY <1>2, <1>9, <1>13, <2>2
<1> QED BY <1>1, <1>13, <1>14, WithdrawalAnswered

\* afterWithdrawalCancellation: the GMs come back.
LEMMA CancelWithdrawalInv ==
    ASSUME RebalanceInv, NEW key \in Keys, CancelWithdrawal(key)
    PROVE  RebalanceInv'
<1> DEFINE n == pendingWithdrawal[key]
           none == 0
           m == 0 - n
           x == With(Sent(Market, n, Market, none))
           y == Returned(x, Market, Market, n)
<1>1. /\ gmx[key] = "withdrawal" /\ Answered(key) /\ Becomes(y)
      /\ pendingWithdrawal' = Deleted(pendingWithdrawal, key) /\ pendingDeposit' = pendingDeposit
  BY DEF CancelWithdrawal, AfterWithdrawalCancellation
<1>2. n \in Nat /\ n <= vault.onHold[Market] /\ Market \in Tokens /\ m = 0 - n
      /\ n = pendingWithdrawal[key] /\ none \in Nat
  BY <1>1, PendingWithdrawalFacts, RebalanceAssumption
<1>3. x = With(Sent(Market, n, Market, none)) /\ y = Returned(x, Market, Market, n)  OBVIOUS
<1> HIDE DEF n, none, m, x, y
<1>4. /\ m \in Int
      /\ \A t \in Tokens : Only(t, Market, m) = 0 - Only(t, Market, n) /\ Only(t, Market, n) \in Nat
  BY <1>2 DEF Only
<1>5. IsBox(x) /\ x.vault = vault
  <2>1. Started(x, Market, n, Market, none)  BY <1>2, <1>3, WithFacts
  <2> QED BY <2>1 DEF Started
<1>6. n <= x.vault.onHold[Market]  BY <1>2, <1>5
<1>7. Handled(x, y, Market, m, Market, m)  BY <1>2, <1>3, <1>5, <1>6, ReturnedFacts
<1>8. /\ Solvent(y.vault, y.balance) /\ y.held \in [Tokens -> Int]
      /\ \A t \in Tokens : /\ x.vault.onHold[t] \in Nat
                           /\ y.vault.onHold[t] = x.vault.onHold[t] + Only(t, Market, m)
  <2>1. m \in Int /\ Market \in Tokens  BY <1>2, <1>4
  <2> QED BY <1>5, <1>7, <2>1, HandledFacts
<1>9. Solvent(vault', balance') /\ held' \in [Tokens -> Nat] /\ vault' = y.vault
  BY <1>1, <1>8, BecomesFacts
<1>10. \A t \in Tokens : vault'.onHold[t] = vault.onHold[t] - Only(t, Market, pendingWithdrawal[key])
  BY <1>2, <1>4, <1>5, <1>8, <1>9
<1> QED BY <1>1, <1>9, <1>10, WithdrawalAnswered

\* A callback that fails leaves its order pending, and the tokens with the
\* service.
LEMMA CallbackFailsInv ==
    ASSUME RebalanceInv, NEW key \in Keys, NEW gms \in GmAmounts \cup {0},
           NEW long \in LongAmounts, NEW short \in ShortAmounts,
           CallbackFails(key, gms, long, short)
    PROVE  RebalanceInv'
<1>1. /\ Solvent(vault, balance)
      /\ Orders(pendingDeposit, pendingWithdrawal, gmx)
      /\ Committed(vault.onHold, pendingDeposit, pendingWithdrawal)
      /\ gmx[key] \in {"deposit", "withdrawal"} /\ Answered(key)
      /\ UNCHANGED <<vault, balance, pendingDeposit, pendingWithdrawal>>
  BY DEF RebalanceInv, Rebalanced, CallbackFails, vars
<1>2. Orders(pendingDeposit, pendingWithdrawal, gmx')
  BY <1>1 DEF Orders, Answered, Fates
<1>3. PICK t \in Tokens, u \in Tokens, n \in Nat, m \in Nat : held' = With(Sent(t, n, u, m)).held
  <2>1. /\ LongToken \in Tokens /\ ShortToken \in Tokens /\ Market \in Tokens
        /\ long \in Nat /\ short \in Nat /\ gms \in Nat /\ 0 \in Nat
    BY RebalanceAssumption
  <2>2. CASE gmx[key] = "deposit" /\ gms = 0
    <3> DEFINE d == pendingDeposit[key]
    <3>1. d.long \in Nat /\ d.short \in Nat  BY <2>2, PendingDepositFacts DEF Deposits
    <3>2. held' = With(Sent(LongToken, d.long, ShortToken, d.short)).held
      BY <2>2 DEF CallbackFails
    <3> HIDE DEF d
    <3> QED BY <2>1, <3>1, <3>2
  <2>3. CASE gmx[key] = "deposit" /\ gms # 0
    <3>1. held' = With(Sent(Market, gms, Market, 0)).held  BY <2>3 DEF CallbackFails
    <3> QED BY <2>1, <3>1
  <2>4. CASE gmx[key] = "withdrawal" /\ gms = 0
    <3> DEFINE n == pendingWithdrawal[key]
    <3>1. n \in Nat  BY <2>4, PendingWithdrawalFacts
    <3>2. held' = With(Sent(Market, n, Market, 0)).held  BY <2>4 DEF CallbackFails
    <3> HIDE DEF n
    <3> QED BY <2>1, <3>1, <3>2
  <2>5. CASE gmx[key] = "withdrawal" /\ gms # 0
    <3>1. held' = With(Sent(LongToken, long, ShortToken, short)).held  BY <2>5 DEF CallbackFails
    <3> QED BY <2>1, <3>1
  <2> QED BY <1>1, <2>2, <2>3, <2>4, <2>5
<1>4. held' \in [Tokens -> Nat]
  <2> DEFINE x == With(Sent(t, n, u, m))
  <2>1. x = With(Sent(t, n, u, m))  OBVIOUS
  <2> HIDE DEF x
  <2>2. Started(x, t, n, u, m)  BY <2>1, WithFacts
  <2> QED BY <1>3, <2>2 DEF x, Started
<1>5. /\ vault' = vault /\ balance' = balance
      /\ pendingDeposit' = pendingDeposit /\ pendingWithdrawal' = pendingWithdrawal
  BY <1>1
<1> QED BY <1>1, <1>2, <1>4, <1>5 DEF RebalanceInv, Rebalanced, Orders, Committed

\* An operation of the ledger leaves the hold alone.
LEMMA LedgerInv ==
    ASSUME RebalanceInv, [Next]_vars, UNCHANGED orderVars
    PROVE  RebalanceInv'
<1>1. /\ Solvent(vault, balance) /\ held \in [Tokens -> Nat]
      /\ Orders(pendingDeposit, pendingWithdrawal, gmx)
      /\ Committed(vault.onHold, pendingDeposit, pendingWithdrawal)
  BY DEF RebalanceInv, Rebalanced
<1>2. /\ held' = held /\ pendingDeposit' = pendingDeposit
      /\ pendingWithdrawal' = pendingWithdrawal /\ gmx' = gmx
  BY DEF orderVars
<1>3. Solvent(vault', balance') /\ vault'.onHold = vault.onHold
  BY <1>1, StepOutcome DEF Outcome, Sound
<1> QED BY <1>1, <1>2, <1>3 DEF RebalanceInv, Rebalanced, Orders, Committed

\* Every step preserves the invariant.
LEMMA RebalanceInvNext == RebalanceInv /\ [RebalanceNext]_rebalanceVars => RebalanceInv'
<1> SUFFICES ASSUME RebalanceInv, [RebalanceNext]_rebalanceVars PROVE RebalanceInv'
  OBVIOUS
<1>1. CASE Next /\ UNCHANGED orderVars  BY <1>1, LedgerInv
<1>2. ASSUME NEW key \in Keys, CancelDeposit(key) PROVE RebalanceInv'  BY <1>2, CancelDepositInv
<1>3. ASSUME NEW key \in Keys, CancelWithdrawal(key) PROVE RebalanceInv'
  BY <1>3, CancelWithdrawalInv
<1>4. ASSUME NEW key \in Keys, NEW gms \in GmAmounts,
             CreateWithdrawal(key, gms) \/ ExecuteDeposit(key, gms)
      PROVE  RebalanceInv'
  BY <1>4, CreateWithdrawalInv, ExecuteDepositInv
<1>5. ASSUME NEW key \in Keys, NEW long \in LongAmounts, NEW short \in ShortAmounts,
             CreateDeposit(key, long, short) \/ ExecuteWithdrawal(key, long, short)
      PROVE  RebalanceInv'
  BY <1>5, CreateDepositInv, ExecuteWithdrawalInv
<1>6. ASSUME NEW key \in Keys, NEW long \in LongAmounts, NEW short \in ShortAmounts,
             NEW gms \in GmAmounts \cup {0}, CallbackFails(key, gms, long, short)
      PROVE  RebalanceInv'
  BY <1>6, CallbackFailsInv
<1>7. CASE UNCHANGED rebalanceVars
  <2>1. UNCHANGED vars /\ UNCHANGED orderVars  BY <1>7 DEF rebalanceVars
  <2> QED BY <2>1, LedgerInv
<1> QED BY <1>1, <1>2, <1>3, <1>4, <1>5, <1>6, <1>7 DEF RebalanceNext

LEMMA RebalanceInvAlways == RebalanceSpec => []RebalanceInv
BY RebalanceInitInv, RebalanceInvNext, PTL DEF RebalanceSpec

\* What is on hold is what the pending orders of RebalanceHLPv2Service took: a
\* callback clears the tokens of its own order, once, whatever the order in which
\* GMX answers, and a callback that fails clears none.
THEOREM HoldsMatch == RebalanceSpec => []OnHoldMatch
<1>1. RebalanceInv => OnHoldMatch  BY CommittedIs DEF RebalanceInv, Rebalanced
<1> QED BY <1>1, RebalanceInvAlways, PTL

\* The vault can pay whatever it owes, and its copies agree, also while its
\* tokens are at GMX and whichever callbacks fail.
THEOREM RebalancingKeepsBooks == RebalanceSpec => [](TypeOK /\ Backed /\ CopiesAgree)
<1>1. RebalanceInv => TypeOK /\ Backed /\ CopiesAgree
  BY IndInvSolvent DEF RebalanceInv, Rebalanced, IndInv
<1> QED BY <1>1, RebalanceInvAlways, PTL

\* A deposit order of long tokens alone can always be cancelled: the service has
\* what afterDepositCancellation transfers, and the pool's liquidity rises by at
\* least what was deployed.
THEOREM LongDepositsReturn == RebalanceSpec => []LongReturns
<1>1. ASSUME RebalanceInv, NEW key \in DOMAIN pendingDeposit, gmx[key] = "deposit",
             pendingDeposit[key].short = 0
      PROVE  Returns(pendingDeposit[key])
  <2> DEFINE d == pendingDeposit[key]
             n == d.long
             m == d.short
             k == 0 - n
             x == With(Sent(LongToken, n, ShortToken, m))
             y == Returned(x, LongToken, LongToken, n)
             z == Returned(y, ShortToken, LongToken, m)
  <2>1. key \in Keys /\ d = pendingDeposit[key]
    BY <1>1 DEF RebalanceInv, Rebalanced, Orders, IsPending
  <2>2. /\ d \in Deposits
        /\ \A t \in Tokens : DepositOf(d, t) <= vault.onHold[t] /\ vault.onHold[t] \in Nat
    BY <1>1, <2>1, PendingDepositFacts
  <2>3. /\ LongToken \in Tokens /\ ShortToken \in Tokens /\ n \in Nat /\ m = 0 /\ m \in Nat
        /\ k = 0 - n /\ k \in Int
    BY <1>1, <2>2, RebalanceAssumption DEF Deposits
  <2>4. /\ x = With(Sent(LongToken, n, ShortToken, m)) /\ y = Returned(x, LongToken, LongToken, n)
        /\ z = AfterDepositCancellation(x, d)
    BY DEF AfterDepositCancellation
  <2>5. z = y  BY <2>3, Zenon DEF Returned
  <2>6. \A t \in Tokens : Only(t, ShortToken, m) = 0  BY <2>3 DEF Only
  <2>7. DepositOf(d, LongToken) = n  BY <2>3 DEF DepositOf, Only
  <2> HIDE DEF d, n, m, k, x, y, z
  <2>8. Started(x, LongToken, n, ShortToken, m)  BY <1>1, <2>3, <2>4, WithFacts
  <2>9. IsBox(x) /\ x.vault = vault  BY <2>8 DEF Started
  <2>10. n <= x.vault.onHold[LongToken]  BY <2>2, <2>3, <2>7, <2>9
  <2>11. Handled(x, y, LongToken, k, LongToken, k) /\ GivesBack(x, y, LongToken, n, LongToken)
    BY <2>3, <2>4, <2>9, <2>10, ReturnedFacts
  <2>12. Covered(y)
    <3>1. ASSUME NEW t \in Tokens PROVE y.held[t] >= 0
      <4>1. x.held[t] \in Int /\ y.held[t] = x.held[t] + Only(t, LongToken, k)
        BY <2>3, <2>9, <2>11, HandledFacts
      <4>2. x.held[t] = held[t] + (Only(t, LongToken, n) + Only(t, ShortToken, m))
        BY <2>8 DEF Started
      <4>3. held[t] \in Nat  BY <1>1 DEF RebalanceInv, Rebalanced
      <4>4. Only(t, ShortToken, m) = 0 /\ Only(t, LongToken, n) \in Nat
            /\ Only(t, LongToken, k) = 0 - Only(t, LongToken, n)
        BY <2>3, <2>6 DEF Only
      <4> QED BY <4>1, <4>2, <4>3, <4>4
    <3> QED BY <3>1 DEF Covered
  <2> DEFINE f == vault.bucket
             g == y.vault.bucket
  <2>13. /\ g[<<"hlpLiquidity", LongToken>>] >= f[<<"hlpLiquidity", LongToken>>] + n
         /\ g[<<"hlpLiquidity", ShortToken>>] >= f[<<"hlpLiquidity", ShortToken>>]
    BY <2>3, <2>9, <2>11, DebtKinds DEF GivesBack
  <2>14. /\ f[<<"hlpLiquidity", LongToken>>] \in Nat /\ f[<<"hlpLiquidity", ShortToken>>] \in Nat
         /\ g[<<"hlpLiquidity", LongToken>>] \in Nat /\ g[<<"hlpLiquidity", ShortToken>>] \in Nat
    <3>1. Kept(x.vault) /\ Kept(y.vault)  BY <2>9, <2>11 DEF Handled, IsBox, Solvent
    <3> QED BY <2>3, <2>9, <3>1, Entries
  <2> HIDE DEF f, g
  <2>15. /\ g[<<"hlpLiquidity", LongToken>>] - f[<<"hlpLiquidity", LongToken>>] >= n
         /\ g[<<"hlpLiquidity", ShortToken>>] - f[<<"hlpLiquidity", ShortToken>>] >= m
    BY <2>3, <2>13, <2>14
  <2>16. Returns(d)
    BY <2>4, <2>5, <2>12, <2>15 DEF Returns, f, g, n, m
  <2> QED BY <2>16 DEF d
<1>2. RebalanceInv => LongReturns  BY <1>1 DEF LongReturns
<1> QED BY <1>2, RebalanceInvAlways, PTL

=============================================================================
