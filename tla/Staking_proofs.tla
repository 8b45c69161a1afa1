--------------------------- MODULE Staking_proofs ---------------------------
(***************************************************************************)
(* Rewards for trading, for every number of accounts, markets and epochs.  *)
(*                                                                         *)
(* TLCStaking: every trader gets its part of what an epoch was fed, once   *)
(* and to the unit of rounding, and the rewarder holds what the others are *)
(* still to get.                                                           *)
(*                                                                         *)
(* TradingStaking: the rewarder holds what it owes and has yet to stream,  *)
(* and an account gets its part of the stream over the time its stakes     *)
(* were there, whenever the rewarder is called.                            *)
(***************************************************************************)
EXTENDS TradingStaking, TLCStaking, Sums, TLAPS

\* Integer division.
LEMMA Divide ==
    ASSUME NEW x \in Int, NEW y \in Nat \ {0}
    PROVE  /\ x \div y \in Int /\ (x \in Nat => x \div y \in Nat)
           /\ y * (x \div y) <= x /\ x < y * (x \div y) + y
OBVIOUS

LEMMA MultiplyLeq ==
    ASSUME NEW a \in Int, NEW b \in Int, NEW n \in Nat, a <= b
    PROVE  n * a <= n * b /\ a * n <= b * n /\ n * a \in Int /\ n * b \in Int
OBVIOUS

LEMMA MultiplyLeqConverse ==
    ASSUME NEW a \in Int, NEW b \in Int, NEW n \in Nat \ {0}, n * a <= n * b
    PROVE  a <= b
OBVIOUS

LEMMA MultiplyAssoc ==
    ASSUME NEW a \in Int, NEW b \in Int, NEW c \in Int
    PROVE  (a * b) * c = a * (b * c) /\ a * b = b * a /\ a * b \in Int
OBVIOUS

LEMMA MultiplyOver ==
    ASSUME NEW a \in Int, NEW b \in Int, NEW c \in Int
    PROVE  a * (b + c) = a * b + a * c /\ a * (b - c) = a * b - a * c
OBVIOUS

LEMMA MultiplyNat ==
    ASSUME NEW a \in Nat, NEW b \in Nat
    PROVE  a * b \in Nat
OBVIOUS

\* The part of a reward r for c of t stakes, by the reward for each of them.
LEMMA PartOfReward ==
    ASSUME NEW c \in Nat, NEW r \in Nat, NEW t \in Nat \ {0}, NEW s \in Nat \ {0},
           NEW p, p = (r * s) \div t, NEW w, w = (c * p) \div s
    PROVE  /\ p \in Nat /\ w \in Nat
           /\ s * w <= c * p /\ t * p <= r * s
           /\ w * t <= c * r
           /\ s * (c * r - w * t) < t * (c + s)
<1>1. r * s \in Nat  BY MultiplyNat
<1>2. p \in Nat /\ t * p <= r * s /\ r * s < t * p + t  BY <1>1, Divide
<1>3. c * p \in Nat  BY <1>2, MultiplyNat
<1>4. w \in Nat /\ s * w <= c * p /\ c * p < s * w + s
  <2> DEFINE x == c * p
  <2> HIDE DEF x
  <2>1. x \in Nat /\ w = x \div s  BY <1>3 DEF x
  <2>2. /\ x \div s \in Nat /\ s * (x \div s) <= x /\ x < s * (x \div s) + s
    BY <2>1, Divide
  <2>3. w \in Nat /\ s * w <= x /\ x < s * w + s  BY <2>1, <2>2
  <2> QED BY <2>3 DEF x
\* The products, as numbers.
<1> DEFINE tp == t * p  rs == r * s  cp == c * p  sw == s * w  cr == c * r  wt == w * t
<1>5. tp \in Int /\ rs \in Int /\ cp \in Int /\ sw \in Int /\ cr \in Int /\ wt \in Int
  BY <1>2, <1>4
<1>6. t * sw <= t * cp /\ c * tp <= c * rs /\ t * sw \in Int /\ c * rs \in Int
  BY <1>2, <1>4, <1>5, MultiplyLeq
<1>7. t * cp = c * tp
  <2>1. t * (c * p) = (t * c) * p /\ t * c = c * t /\ (c * t) * p = c * (t * p)
    BY <1>2, MultiplyAssoc
  <2> QED BY <2>1
<1>8. t * sw = s * wt
  <2>1. t * (s * w) = (t * s) * w /\ t * s = s * t /\ (s * t) * w = s * (t * w) /\ t * w = w * t
    BY <1>4, MultiplyAssoc
  <2> QED BY <2>1
<1>9. c * rs = s * cr
  <2>1. c * (r * s) = (c * r) * s /\ (c * r) * s = s * (c * r)
    BY <1>5, MultiplyAssoc
  <2> QED BY <2>1
<1> HIDE DEF tp, rs, cp, sw, cr, wt
<1>10. wt <= cr
  <2>1. s * wt <= s * cr  BY <1>5, <1>6, <1>7, <1>8, <1>9
  <2> QED BY <1>5, <2>1, MultiplyLeqConverse
<1>11. s * (cr - wt) < t * (c + s)
  <2>1. rs <= tp + (t - 1) /\ cp <= sw + (s - 1)
    BY <1>2, <1>4, <1>5 DEF tp, rs, cp, sw
  <2>2. c * rs <= c * tp + c * (t - 1)
    <3>1. c * rs <= c * (tp + (t - 1))  BY <1>5, <2>1, MultiplyLeq
    <3>2. c * (tp + (t - 1)) = c * tp + c * (t - 1)  BY <1>5, MultiplyOver
    <3> QED BY <3>1, <3>2
  <2>3. t * cp <= t * sw + t * (s - 1)
    <3>1. t * cp <= t * (sw + (s - 1))  BY <1>5, <2>1, MultiplyLeq
    <3>2. t * (sw + (s - 1)) = t * sw + t * (s - 1)  BY <1>5, MultiplyOver
    <3> QED BY <3>1, <3>2
  <2>4. c * (t - 1) = c * t - c /\ t * (s - 1) = t * s - t /\ t * (c + s) = t * c + t * s
    OBVIOUS
  <2>5. c * t = t * c  BY MultiplyAssoc
  <2>6. s * (cr - wt) = s * cr - s * wt  BY <1>5, MultiplyOver
  <2>7. /\ s * cr \in Int /\ s * wt \in Int /\ c * tp \in Int /\ t * cp \in Int
        /\ t * sw \in Int /\ t * c \in Int /\ t * s \in Int /\ c * rs \in Int
    BY <1>5
  <2> QED BY <1>7, <1>8, <1>9, <2>2, <2>3, <2>4, <2>5, <2>6, <2>7
<1> QED BY <1>2, <1>4, <1>10, <1>11 DEF tp, rs, cp, sw, cr, wt

-----------------------------------------------------------------------------
(***************************************************************************)
(* Epochs. Part is Reward as a function of the state it reads.             *)
(***************************************************************************)
Part(c, t, r, a) == (c * (IF t > 0 THEN (r * SharePrecision) \div t ELSE a)) \div SharePrecision

CreditTypes ==
    /\ clock \in 0 .. MaxClock
    /\ userCredits \in [Epochs -> [Traders -> Nat]] /\ totalCredits \in [Epochs -> Nat]
    /\ listed \in BOOLEAN
    /\ epochRewards \in [Epochs -> Nat] /\ rewardPerShare \in [Epochs -> Nat]
    /\ claimed \in [Epochs -> SUBSET Traders]
    /\ rewardHeld \in Int
    /\ paid \in [Epochs -> [Traders -> Nat]]

\* What an epoch still owes, by trader, and in all.
Owing(e) == [u \in Traders |-> IF u \in claimed[e] THEN 0 ELSE Reward(e, u)]
AllOwing == [e \in Epochs |-> SumFunction(Owing(e))]

\* A claim is settled with what the reward is, and stays what it was when it
\* was settled: stakes only change in the epoch it is, which has not ended.
StakesAddUp == \A e \in Epochs : totalCredits[e] = SumFunction(userCredits[e])
FedWhenEnded == \A e \in Epochs : ~ Ended(e) => epochRewards[e] = 0
ClaimsSettled ==
    \A e \in Epochs, u \in Traders :
        /\ u \in claimed[e] => Reward(e, u) # 0 /\ paid[e][u] = Reward(e, u)
        /\ u \notin claimed[e] => paid[e][u] = 0
HoldsOwing == rewardHeld >= SumFunction(AllOwing)
CreditInv == CreditTypes /\ StakesAddUp /\ FedWhenEnded /\ ClaimsSettled /\ HoldsOwing

\* The epochs there are, and the one it is.
LEMMA EpochFacts ==
    /\ IsFiniteSet(Epochs) /\ Epochs \in SUBSET Nat
    /\ \A t \in 0 .. MaxClock : StartOf(t) \in Epochs
    /\ clock \in 0 .. MaxClock => ThisEpoch \in Epochs /\ ~ Ended(ThisEpoch)
<1>0. EpochLength \in Nat \ {0} /\ MaxClock \in Nat  BY CreditAssumption
<1>1. ASSUME NEW t \in Nat
      PROVE  StartOf(t) \in Nat /\ StartOf(t) <= t /\ t < StartOf(t) + EpochLength
  <2> DEFINE q == t \div EpochLength
  <2>1. q \in Nat /\ EpochLength * q <= t /\ t < EpochLength * q + EpochLength
    BY <1>0, Divide
  <2>2. q * EpochLength = EpochLength * q /\ q * EpochLength \in Nat
    BY <1>0, <2>1, MultiplyAssoc, MultiplyNat
  <2>3. StartOf(t) = q * EpochLength  BY DEF StartOf
  <2> HIDE DEF q
  <2> QED BY <1>0, <2>1, <2>2, <2>3
<1>2. \A t \in 0 .. MaxClock : StartOf(t) \in 0 .. MaxClock
  BY <1>0, <1>1
<1>3. Epochs \in SUBSET (0 .. MaxClock)  BY <1>2 DEF Epochs
<1>4. IsFiniteSet(0 .. MaxClock)  BY <1>0, FS_Interval
<1>5. IsFiniteSet(Epochs)  BY <1>3, <1>4, FS_Subset
<1>6. \A t \in 0 .. MaxClock : StartOf(t) \in Epochs  BY DEF Epochs
<1>7. ASSUME clock \in 0 .. MaxClock PROVE ThisEpoch \in Epochs /\ ~ Ended(ThisEpoch)
  <2>1. clock \in Nat  BY <1>0, <1>7
  <2>2. StartOf(clock) \in Nat /\ clock < StartOf(clock) + EpochLength  BY <1>1, <2>1
  <2> QED BY <1>0, <1>6, <1>7, <2>1, <2>2 DEF ThisEpoch, Ended
<1> QED BY <1>3, <1>5, <1>6, <1>7

LEMMA PartNat ==
    ASSUME NEW c \in Nat, NEW t \in Nat, NEW r \in Nat, NEW a \in Nat
    PROVE  /\ Part(c, t, r, a) \in Nat
           /\ c = 0 \/ (t > 0 /\ r = 0) => Part(c, t, r, a) = 0
<1>0. SharePrecision \in Nat \ {0}  BY CreditAssumption
<1> DEFINE x == r * SharePrecision
           p == IF t > 0 THEN x \div t ELSE a
           y == c * p
<1>1. x \in Nat /\ (r = 0 => x = 0)  BY <1>0, MultiplyNat
<1>2. p \in Nat /\ (t > 0 /\ r = 0 => p = 0)
  <2>1. CASE t > 0
    <3> HIDE DEF x
    <3>1. x \div t \in Nat /\ t * (x \div t) <= x  BY <1>1, <2>1, Divide
    <3>2. ASSUME r = 0 PROVE x \div t = 0
      <4> DEFINE q == x \div t
      <4>1. q \in Nat /\ t * q <= t * 0 /\ t \in Nat \ {0}  BY <1>1, <2>1, <3>1, <3>2
      <4> HIDE DEF q
      <4>2. q <= 0  BY <4>1, MultiplyLeqConverse
      <4> QED BY <4>1, <4>2 DEF q
    <3> QED BY <2>1, <3>1, <3>2
  <2>2. CASE ~ (t > 0)  BY <2>2
  <2> QED BY <2>1, <2>2
<1> HIDE DEF p
<1>3. y \in Nat /\ (c = 0 \/ p = 0 => y = 0)  BY <1>2, MultiplyNat
<1> HIDE DEF y
<1>4. /\ y \div SharePrecision \in Nat
      /\ SharePrecision * (y \div SharePrecision) <= y
  BY <1>0, <1>3, Divide
<1>5. ASSUME y = 0 PROVE y \div SharePrecision = 0
  <2> DEFINE q == y \div SharePrecision
  <2>1. q \in Nat /\ SharePrecision * q <= SharePrecision * 0  BY <1>0, <1>4, <1>5
  <2> HIDE DEF q
  <2>2. q <= 0  BY <1>0, <2>1, MultiplyLeqConverse
  <2> QED BY <2>1, <2>2 DEF q
<1>6. Part(c, t, r, a) = y \div SharePrecision  BY DEF Part, y, p
<1> QED BY <1>2, <1>3, <1>4, <1>5, <1>6

\* The parts of a reward are no more than the reward, if the stakes add up.
LEMMA PartsAtMost ==
    ASSUME NEW stakesOf \in [Traders -> Nat], NEW t, t = SumFunction(stakesOf),
           NEW r \in Nat, NEW a \in Nat,
           NEW f \in [Traders -> Int], \A u \in Traders : f[u] = Part(stakesOf[u], t, r, a)
    PROVE  /\ t \in Nat /\ f \in [Traders -> Nat] /\ SumFunction(f) \in Nat
           /\ SumFunction(f) <= r
           /\ r = 0 \/ t = 0 => \A u \in Traders : f[u] = 0
<1>0. SharePrecision \in Nat \ {0} /\ IsFiniteSet(Traders)  BY CreditAssumption
<1>1. t \in Nat /\ \A u \in Traders : stakesOf[u] <= t  BY <1>0, SumFunctionNat
<1>2. \A u \in Traders : f[u] = Part(stakesOf[u], t, r, a) /\ f[u] \in Nat  BY <1>1, PartNat
<1>3. f \in [Traders -> Nat]  BY <1>2
<1>4. SumFunction(f) \in Nat  BY <1>0, <1>3, SumFunctionNat
<1>5. ASSUME r = 0 \/ t = 0 PROVE \A u \in Traders : f[u] = 0
  <2> TAKE u \in Traders
  <2>1. stakesOf[u] \in Nat /\ stakesOf[u] <= t  BY <1>1
  <2>2. stakesOf[u] = 0 \/ (t > 0 /\ r = 0)  BY <1>1, <1>5, <2>1
  <2> DEFINE c == stakesOf[u]
  <2>3. c \in Nat /\ (c = 0 \/ (t > 0 /\ r = 0)) /\ f[u] = Part(c, t, r, a)
    BY <1>2, <2>1, <2>2
  <2> HIDE DEF c
  <2>4. Part(c, t, r, a) = 0  BY <1>1, <2>3, PartNat
  <2> QED BY <2>3, <2>4
<1>6. SumFunction(f) <= r
  <2>1. CASE t = 0
    <3>1. SumFunction(f) = 0  BY <1>0, <1>3, <1>5, <2>1, SumFunctionZero
    <3> QED BY <3>1
  <2>2. CASE t # 0
    <3> DEFINE p == (r * SharePrecision) \div t
               z == [u \in Traders |-> 0]
               lhs == [u \in Traders |-> 0 + SharePrecision * f[u]]
               rhs == [u \in Traders |-> 0 + p * stakesOf[u]]
    <3>1. t \in Nat \ {0}  BY <1>1, <2>2
    <3>2. p \in Nat /\ t * p <= r * SharePrecision
      <4> DEFINE n == 0
      <4>1. n \in Nat  OBVIOUS
      <4> HIDE DEF n
      <4> QED BY <1>0, <3>1, <4>1, PartOfReward
    <3>3. \A u \in Traders :
            /\ SharePrecision * f[u] <= stakesOf[u] * p
            /\ stakesOf[u] * p = p * stakesOf[u]
            /\ SharePrecision * f[u] \in Int /\ p * stakesOf[u] \in Int
      <4> TAKE u \in Traders
      <4>1. stakesOf[u] \in Nat  OBVIOUS
      <4>2. f[u] = (stakesOf[u] * p) \div SharePrecision  BY <1>2, <3>1 DEF Part
      <4>3. SharePrecision * f[u] <= stakesOf[u] * p
        <5> HIDE DEF p
        <5> QED BY <1>0, <3>1, <4>1, <4>2, PartOfReward DEF p
      <4> HIDE DEF p
      <4> QED BY <1>0, <1>2, <3>2, <4>1, <4>3, MultiplyAssoc
    <3> HIDE DEF p
    <3>4. /\ lhs \in [Traders -> Int] /\ rhs \in [Traders -> Int]
          /\ z \in [Traders -> Int] /\ f \in [Traders -> Int] /\ stakesOf \in [Traders -> Int]
      BY <1>3, <3>3
    <3>5. \A u \in Traders : lhs[u] <= rhs[u]  BY <3>3
    <3>6. SumFunction(z) = 0  BY <1>0, <3>4, SumFunctionZero
    <3>7. /\ \A u \in Traders : lhs[u] = z[u] + SharePrecision * f[u]
          /\ \A u \in Traders : rhs[u] = z[u] + p * stakesOf[u]
      OBVIOUS
    <3> HIDE DEF z, lhs, rhs
    <3>8. SumFunction(lhs) <= SumFunction(rhs)  BY <1>0, <3>4, <3>5, SumFunctionLeq
    <3>9. SumFunction(lhs) = SumFunction(z) + SharePrecision * SumFunction(f)
      <4>1. SharePrecision \in Int  BY <1>0
      <4> QED BY <1>0, <3>4, <3>7, <4>1, SumFunctionLinear
    <3>10. SumFunction(rhs) = SumFunction(z) + p * t
      <4>1. p \in Int  BY <3>2
      <4> QED BY <1>0, <3>4, <3>7, <4>1, SumFunctionLinear
    <3>11. SharePrecision * SumFunction(f) <= SharePrecision * r
      <4> DEFINE s == SumFunction(f)
      <4>1. s \in Nat  BY <1>4
      <4> HIDE DEF s
      <4>2. /\ p * t = t * p /\ p * t \in Int /\ r * SharePrecision = SharePrecision * r
            /\ SharePrecision * s \in Int /\ SharePrecision * r \in Int
        BY <1>0, <1>1, <3>2, <4>1, MultiplyAssoc
      <4>3. SharePrecision * s = 0 + SharePrecision * s /\ p * t = 0 + p * t  BY <4>2
      <4>4. SharePrecision * s <= p * t  BY <3>6, <3>8, <3>9, <3>10, <4>2, <4>3 DEF s
      <4> QED BY <3>2, <4>2, <4>4 DEF s
    <3> QED BY <1>0, <1>4, <3>11, MultiplyLeqConverse
  <2> QED BY <2>1, <2>2
<1> QED BY <1>1, <1>3, <1>4, <1>5, <1>6

LEMMA NoReward ==
    ASSUME NEW c \in [Traders -> Nat], NEW t, t = SumFunction(c), NEW a \in Nat, NEW u \in Traders
    PROVE  Part(c[u], t, 0, a) = 0
<1>1. IsFiniteSet(Traders)  BY CreditAssumption
<1>2. t \in Nat /\ c[u] \in Nat /\ c[u] <= t  BY <1>1, SumFunctionNat
<1> DEFINE n == c[u]
           r == 0
<1>3. n \in Nat /\ (n = 0 \/ (t > 0 /\ r = 0)) /\ r \in Nat  BY <1>2
<1> HIDE DEF n, r
<1>4. Part(n, t, r, a) = 0  BY <1>2, <1>3, PartNat
<1> QED BY <1>4 DEF n, r

LEMMA RewardIsPart ==
    ASSUME NEW e, NEW u
    PROVE  /\ Reward(e, u) = Part(userCredits[e][u], totalCredits[e], epochRewards[e], rewardPerShare[e])
           /\ Reward(e, u)' = Part(userCredits'[e][u], totalCredits'[e], epochRewards'[e], rewardPerShare'[e])
BY DEF Reward, PerShare, Part

LEMMA RewardFacts ==
    ASSUME CreditTypes, StakesAddUp, NEW e \in Epochs
    PROVE  /\ \A u \in Traders : Reward(e, u) \in Nat
           /\ epochRewards[e] = 0 => \A u \in Traders : Reward(e, u) = 0
           /\ Owing(e) \in [Traders -> Nat] /\ Owing(e) \in [Traders -> Int]
           /\ SumFunction(Owing(e)) \in Nat
<1>0. IsFiniteSet(Traders)  BY CreditAssumption
<1> DEFINE c == userCredits[e]  t == totalCredits[e]  r == epochRewards[e]  a == rewardPerShare[e]
           f == [u \in Traders |-> Part(c[u], t, r, a)]
<1>1. c \in [Traders -> Nat] /\ t = SumFunction(c) /\ t \in Nat /\ r \in Nat /\ a \in Nat
  BY DEF CreditTypes, StakesAddUp
<1>3. \A u \in Traders : Reward(e, u) = f[u]  BY RewardIsPart
<1> HIDE DEF c, t, r, a
<1>2. f \in [Traders -> Nat] /\ (r = 0 => \A u \in Traders : f[u] = 0)
  <2>1. \A u \in Traders : f[u] = Part(c[u], t, r, a) /\ f[u] \in Nat  BY <1>1, PartNat
  <2>2. f \in [Traders -> Int]  BY <2>1
  <2> HIDE DEF f
  <2> QED BY <1>1, <2>1, <2>2, PartsAtMost
<1> HIDE DEF f
<1>4. \A u \in Traders : Reward(e, u) \in Nat  BY <1>2, <1>3
<1>5. Owing(e) \in [Traders -> Nat]  BY <1>4 DEF Owing
<1>6. Owing(e) \in [Traders -> Int]  BY <1>5
<1>7. SumFunction(Owing(e)) \in Nat  BY <1>0, <1>5, SumFunctionNat
<1> QED BY <1>2, <1>3, <1>4, <1>5, <1>6, <1>7 DEF r

\* Where no reward changes, and nothing is claimed or paid, nothing else does.
LEMMA SameRewards ==
    ASSUME ClaimsSettled, HoldsOwing, UNCHANGED <<claimed, paid, rewardHeld>>,
           \A e \in Epochs, u \in Traders : Reward(e, u)' = Reward(e, u)
    PROVE  ClaimsSettled' /\ HoldsOwing'
<1>1. ClaimsSettled'  BY DEF ClaimsSettled
<1>2. \A e \in Epochs : Owing(e)' = Owing(e)  BY DEF Owing
<1>3. AllOwing' = AllOwing  BY <1>2 DEF AllOwing
<1>4. HoldsOwing'  BY <1>3 DEF HoldsOwing
<1> QED BY <1>1, <1>4

LEMMA CreditInitInv == CreditsInit => CreditInv
<1> SUFFICES ASSUME CreditsInit PROVE CreditInv  OBVIOUS
<1> USE DEF CreditsInit
<1>0. IsFiniteSet(Traders)  BY CreditAssumption
<1>1. CreditTypes
  <2>1. clock \in 0 .. MaxClock  BY CreditAssumption
  <2>2. userCredits \in [Epochs -> [Traders -> Nat]] /\ paid \in [Epochs -> [Traders -> Nat]]
    OBVIOUS
  <2>3. /\ totalCredits \in [Epochs -> Nat] /\ epochRewards \in [Epochs -> Nat]
        /\ rewardPerShare \in [Epochs -> Nat]
    OBVIOUS
  <2>4. claimed \in [Epochs -> SUBSET Traders]  OBVIOUS
  <2>5. rewardHeld \in Int  OBVIOUS
  <2>6. listed \in BOOLEAN  BY Zenon
  <2> QED BY <2>1, <2>2, <2>3, <2>4, <2>5, <2>6 DEF CreditTypes
<1>2. StakesAddUp
  <2> DEFINE none == [u \in Traders |-> 0]
  <2>1. none \in [Traders -> Int] /\ \A u \in Traders : none[u] = 0  OBVIOUS
  <2>2. \A e \in Epochs : userCredits[e] = none /\ totalCredits[e] = 0  OBVIOUS
  <2> HIDE DEF none
  <2>3. SumFunction(none) = 0  BY <1>0, <2>1, SumFunctionZero
  <2> QED BY <2>2, <2>3 DEF StakesAddUp
<1>3. FedWhenEnded  BY DEF FedWhenEnded
<1>4. ClaimsSettled  BY DEF ClaimsSettled
<1>5. HoldsOwing
  <2>1. ASSUME NEW e \in Epochs PROVE SumFunction(Owing(e)) = 0
    <3>1. epochRewards[e] = 0  OBVIOUS
    <3>2. Owing(e) \in [Traders -> Int] /\ \A u \in Traders : Owing(e)[u] = 0
      BY <1>1, <1>2, <3>1, RewardFacts DEF Owing
    <3> QED BY <1>0, <3>2, SumFunctionZero
  <2>2. AllOwing \in [Epochs -> Int] /\ \A e \in Epochs : AllOwing[e] = 0
    BY <2>1 DEF AllOwing
  <2>3. SumFunction(AllOwing) = 0  BY <2>2, EpochFacts, SumFunctionZero
  <2> QED BY <2>3 DEF HoldsOwing
<1> QED BY <1>1, <1>2, <1>3, <1>4, <1>5 DEF CreditInv

\* A change of one trader's stake in an epoch without a reward.
LEMMA ChangeStake ==
    ASSUME CreditInv, NEW e \in Epochs, epochRewards[e] = 0, NEW u \in Traders, NEW n \in Nat,
           userCredits' = [userCredits EXCEPT ![e][u] = n],
           totalCredits' = [totalCredits EXCEPT ![e] = @ + n - userCredits[e][u]],
           NEW a \in Nat, rewardPerShare' = [rewardPerShare EXCEPT ![e] = a],
           UNCHANGED <<clock, epochRewards, claimed, rewardHeld, paid>>, listed' \in BOOLEAN
    PROVE  CreditInv'
<1>0. IsFiniteSet(Traders)  BY CreditAssumption
<1>1. CreditTypes /\ StakesAddUp /\ FedWhenEnded /\ ClaimsSettled /\ HoldsOwing
  BY DEF CreditInv
<1>2. /\ userCredits[e] \in [Traders -> Nat] /\ totalCredits[e] = SumFunction(userCredits[e])
      /\ totalCredits[e] \in Nat /\ userCredits[e][u] \in Nat
      /\ userCredits \in [Epochs -> [Traders -> Nat]] /\ totalCredits \in [Epochs -> Nat]
      /\ rewardPerShare \in [Epochs -> Nat]
  BY <1>1 DEF CreditTypes, StakesAddUp
<1> DEFINE row == [userCredits[e] EXCEPT ![u] = n]
           total == totalCredits[e] + n - userCredits[e][u]
<1>3. /\ \A x \in Epochs : userCredits'[x] = IF x = e THEN row ELSE userCredits[x]
      /\ \A x \in Epochs : totalCredits'[x] = IF x = e THEN total ELSE totalCredits[x]
      /\ \A x \in Epochs : rewardPerShare'[x] = IF x = e THEN a ELSE rewardPerShare[x]
      /\ row \in [Traders -> Nat]
  BY <1>2
<1>4. total = SumFunction(row) /\ total \in Nat
  <2>1. userCredits[e] \in [Traders -> Int] /\ n \in Int  BY <1>2
  <2>2. SumFunction(row) = SumFunction(userCredits[e]) + n - userCredits[e][u]
    BY <1>0, <2>1, SumFunctionUpdate
  <2>3. SumFunction(row) \in Nat  BY <1>0, <1>3, SumFunctionNat
  <2> QED BY <1>2, <2>2, <2>3
<1> HIDE DEF row, total
<1>5. CreditTypes'
  <2>1. userCredits' \in [Epochs -> [Traders -> Nat]]
    <3>1. userCredits' = [x \in Epochs |-> userCredits'[x]]  BY <1>2
    <3> QED BY <1>2, <1>3, <3>1
  <2>2. totalCredits' \in [Epochs -> Nat]
    <3>1. totalCredits' = [x \in Epochs |-> totalCredits'[x]]  BY <1>2
    <3> QED BY <1>2, <1>3, <1>4, <3>1
  <2>3. rewardPerShare' \in [Epochs -> Nat]  BY <1>2
  <2> QED BY <1>1, <2>1, <2>2, <2>3 DEF CreditTypes
<1>6. StakesAddUp'
  <2> SUFFICES ASSUME NEW x \in Epochs PROVE totalCredits'[x] = SumFunction(userCredits'[x])
    BY DEF StakesAddUp
  <2>1. CASE x = e  BY <1>3, <1>4, <2>1
  <2>2. CASE x # e  BY <1>1, <1>3, <2>2 DEF StakesAddUp
  <2> QED BY <2>1, <2>2
<1>7. FedWhenEnded'  BY <1>1 DEF FedWhenEnded, Ended
<1>8. ASSUME NEW x \in Epochs, NEW v \in Traders PROVE Reward(x, v)' = Reward(x, v)
  <2>1. CASE x = e
    <3>1. Part(row[v], total, 0, a) = 0  BY <1>3, <1>4, NoReward
    <3>2. Reward(x, v)' = Part(row[v], total, 0, a)  BY <1>3, <2>1, RewardIsPart
    <3>3. Reward(x, v) = 0  BY <1>1, <2>1, RewardFacts
    <3> QED BY <3>1, <3>2, <3>3
  <2>2. CASE x # e  BY <1>3, <2>2, RewardIsPart
  <2> QED BY <2>1, <2>2
<1>9. ClaimsSettled' /\ HoldsOwing'  BY <1>1, <1>8, SameRewards
<1> QED BY <1>5, <1>6, <1>7, <1>9 DEF CreditInv
LEMMA PerShareNat ==
    ASSUME CreditTypes, NEW e \in Epochs, NEW total \in Nat, NEW reward \in Nat
    PROVE  PerShare(e, total, reward) \in Nat
<1>1. SharePrecision \in Nat \ {0} /\ rewardPerShare[e] \in Nat  BY CreditAssumption DEF CreditTypes
<1> DEFINE x == reward * SharePrecision
<1>2. x \in Nat  BY <1>1, MultiplyNat
<1> HIDE DEF x
<1>3. total > 0 => x \div total \in Nat  BY <1>2, Divide
<1> QED BY <1>1, <1>3 DEF PerShare, x

LEMMA MintInv ==
    ASSUME CreditInv, NEW u \in Traders, NEW sizeDelta \in TradeSizes, NEW weight \in Weights,
           MintTLC(u, sizeDelta, weight)
    PROVE  CreditInv'
<1> DEFINE e == ThisEpoch
           amount == (sizeDelta * weight) \div CreditUnit
           n == userCredits[e][u] + amount
<1>1. CreditTypes /\ FedWhenEnded /\ e \in Epochs /\ ~ Ended(e)
  BY EpochFacts DEF CreditInv, CreditTypes
<1>2. amount \in Nat
  <2>1. sizeDelta \in Nat /\ weight \in Nat /\ CreditUnit \in Nat \ {0}  BY CreditAssumption
  <2> DEFINE x == sizeDelta * weight
  <2>2. x \in Nat  BY <2>1, MultiplyNat
  <2> HIDE DEF x
  <2>3. x \div CreditUnit \in Nat  BY <2>1, <2>2, Divide
  <2> QED BY <2>3 DEF x
<1>3. /\ userCredits' = [userCredits EXCEPT ![e][u] = @ + amount]
      /\ totalCredits' = [totalCredits EXCEPT ![e] = @ + amount]
      /\ rewardPerShare' = IF ~listed THEN rewardPerShare
             ELSE [rewardPerShare EXCEPT ![e] = PerShare(e, totalCredits[e] + amount, epochRewards[e])]
      /\ UNCHANGED <<clock, listed, epochRewards, claimed, rewardHeld, paid>>
  BY DEF MintTLC
<1> HIDE DEF e, amount
<1>4. /\ userCredits[e][u] \in Nat /\ totalCredits[e] \in Nat /\ epochRewards[e] = 0
      /\ rewardPerShare \in [Epochs -> Nat]
  BY <1>1 DEF CreditTypes, FedWhenEnded
<1>5. n \in Nat  BY <1>2, <1>4
<1>6. \E a \in Nat : rewardPerShare' = [rewardPerShare EXCEPT ![e] = a]
  <2>1. CASE ~ listed
    <3>1. rewardPerShare' = [rewardPerShare EXCEPT ![e] = rewardPerShare[e]] /\ rewardPerShare[e] \in Nat
      BY <1>1, <1>3, <1>4, <2>1
    <3> QED BY <3>1
  <2>2. CASE listed
    <3>1. totalCredits[e] + amount \in Nat /\ epochRewards[e] \in Nat  BY <1>2, <1>4
    <3>2. PerShare(e, totalCredits[e] + amount, epochRewards[e]) \in Nat
      BY <1>1, <3>1, PerShareNat
    <3> QED BY <1>3, <2>2, <3>2
  <2> QED BY <2>1, <2>2
<1>7. PICK a \in Nat : rewardPerShare' = [rewardPerShare EXCEPT ![e] = a]  BY <1>6
<1>8. userCredits' = [userCredits EXCEPT ![e][u] = n]  BY <1>3
<1>9. totalCredits' = [totalCredits EXCEPT ![e] = @ + n - userCredits[e][u]]
  <2>1. totalCredits[e] + n - userCredits[e][u] = totalCredits[e] + amount  BY <1>2, <1>4
  <2> QED BY <1>3, <2>1
<1>10. listed' \in BOOLEAN  BY <1>1, <1>3 DEF CreditTypes
<1> HIDE DEF n
<1>11. UNCHANGED <<clock, epochRewards, claimed, rewardHeld, paid>>  BY <1>3
<1> QED BY <1>1, <1>4, <1>5, <1>7, <1>8, <1>9, <1>10, <1>11, ChangeStake, Zenon

LEMMA WithdrawCreditsInv ==
    ASSUME CreditInv, NEW u \in Traders, NEW amount \in CreditAmounts, WithdrawCredits(u, amount)
    PROVE  CreditInv'
<1> DEFINE e == ThisEpoch
           n == userCredits[e][u] - amount
           a == rewardPerShare[e]
<1>1. CreditTypes /\ FedWhenEnded /\ e \in Epochs /\ ~ Ended(e)
  BY EpochFacts DEF CreditInv, CreditTypes
<1>2. amount \in Nat  BY CreditAssumption
<1>3. /\ amount <= userCredits[e][u]
      /\ userCredits' = [userCredits EXCEPT ![e][u] = @ - amount]
      /\ totalCredits' = [totalCredits EXCEPT ![e] = @ - amount]
      /\ UNCHANGED <<clock, listed, epochRewards, rewardPerShare, claimed, rewardHeld, paid>>
  BY DEF WithdrawCredits
<1> HIDE DEF e
<1>4. /\ userCredits[e][u] \in Nat /\ totalCredits[e] \in Nat /\ epochRewards[e] = 0
      /\ rewardPerShare \in [Epochs -> Nat]
  BY <1>1 DEF CreditTypes, FedWhenEnded
<1>5. n \in Nat /\ a \in Nat  BY <1>1, <1>2, <1>3, <1>4
<1>6. rewardPerShare' = [rewardPerShare EXCEPT ![e] = a]  BY <1>1, <1>3, <1>4
<1>7. userCredits' = [userCredits EXCEPT ![e][u] = n]  BY <1>3
<1>8. totalCredits' = [totalCredits EXCEPT ![e] = @ + n - userCredits[e][u]]
  <2>1. totalCredits[e] + n - userCredits[e][u] = totalCredits[e] - amount  BY <1>2, <1>4
  <2> QED BY <1>3, <2>1
<1>9. listed' \in BOOLEAN  BY <1>1, <1>3 DEF CreditTypes
<1> HIDE DEF n, a
<1>10. UNCHANGED <<clock, epochRewards, claimed, rewardHeld, paid>>  BY <1>3
<1> QED BY <1>1, <1>4, <1>5, <1>6, <1>7, <1>8, <1>9, <1>10, ChangeStake, Zenon

LEMMA ListInv ==
    ASSUME CreditInv, NEW isRewarder \in BOOLEAN, ListRewarder(isRewarder)
    PROVE  CreditInv'
<1>1. CreditTypes /\ StakesAddUp /\ FedWhenEnded /\ ClaimsSettled /\ HoldsOwing  BY DEF CreditInv
<1>2. /\ UNCHANGED <<clock, userCredits, totalCredits, epochRewards, rewardPerShare, claimed, rewardHeld, paid>>
      /\ listed' \in BOOLEAN
  BY DEF ListRewarder
<1>3. CreditTypes' /\ StakesAddUp' /\ FedWhenEnded'
  BY <1>1, <1>2 DEF CreditTypes, StakesAddUp, FedWhenEnded, Ended
<1>4. \A e \in Epochs, u \in Traders : Reward(e, u)' = Reward(e, u)  BY <1>2, RewardIsPart
<1>5. ClaimsSettled' /\ HoldsOwing'  BY <1>1, <1>2, <1>4, SameRewards
<1> QED BY <1>3, <1>5 DEF CreditInv

LEMMA ClockInv ==
    ASSUME CreditInv, ClockTicks
    PROVE  CreditInv'
<1>1. CreditTypes /\ StakesAddUp /\ FedWhenEnded /\ ClaimsSettled /\ HoldsOwing  BY DEF CreditInv
<1>2. /\ UNCHANGED <<userCredits, totalCredits, listed, epochRewards, rewardPerShare, claimed, rewardHeld, paid>>
      /\ clock < MaxClock /\ clock' = clock + 1
  BY DEF ClockTicks
<1>3. clock \in Nat /\ MaxClock \in Nat /\ EpochLength \in Nat /\ clock' \in 0 .. MaxClock
  BY <1>1, <1>2, CreditAssumption DEF CreditTypes
<1>4. CreditTypes' /\ StakesAddUp'  BY <1>1, <1>2, <1>3 DEF CreditTypes, StakesAddUp
<1>5. FedWhenEnded'
  <2> SUFFICES ASSUME NEW e \in Epochs, ~ Ended(e)' PROVE epochRewards'[e] = 0
    BY DEF FedWhenEnded
  <2>1. e \in Nat  BY EpochFacts
  <2>2. ~ Ended(e)  BY <1>2, <1>3, <2>1 DEF Ended
  <2> QED BY <1>1, <1>2, <2>2 DEF FedWhenEnded
<1>6. \A e \in Epochs, u \in Traders : Reward(e, u)' = Reward(e, u)  BY <1>2, RewardIsPart
<1>7. ClaimsSettled' /\ HoldsOwing'  BY <1>1, <1>2, <1>6, SameRewards
<1> QED BY <1>4, <1>5, <1>7 DEF CreditInv
LEMMA FeedEpochInv ==
    ASSUME CreditInv, NEW t \in 0 .. clock, NEW amount \in EpochFeeds, FeedEpoch(t, amount)
    PROVE  CreditInv'
<1> DEFINE e == StartOf(t)
<1>0. IsFiniteSet(Traders) /\ IsFiniteSet(Epochs) /\ amount \in Nat  BY CreditAssumption, EpochFacts
<1>1. CreditTypes /\ StakesAddUp /\ FedWhenEnded /\ ClaimsSettled /\ HoldsOwing  BY DEF CreditInv
<1>2. e \in Epochs
  <2>1. t \in 0 .. MaxClock  BY <1>1, CreditAssumption DEF CreditTypes
  <2> QED BY <2>1, EpochFacts
<1>3. /\ Ended(e) /\ epochRewards[e] = 0
      /\ epochRewards' = [epochRewards EXCEPT ![e] = @ + amount]
      /\ rewardPerShare' = [rewardPerShare EXCEPT ![e] = PerShare(e, totalCredits[e], epochRewards'[e])]
      /\ rewardHeld' = rewardHeld + amount
      /\ UNCHANGED <<clock, userCredits, totalCredits, listed, claimed, paid>>
  BY DEF FeedEpoch
<1> HIDE DEF e
<1>4. /\ epochRewards \in [Epochs -> Nat] /\ rewardPerShare \in [Epochs -> Nat] /\ rewardHeld \in Int
      /\ userCredits[e] \in [Traders -> Nat] /\ totalCredits[e] \in Nat
      /\ totalCredits[e] = SumFunction(userCredits[e])
  BY <1>1, <1>2 DEF CreditTypes, StakesAddUp
<1>5. epochRewards' \in [Epochs -> Nat] /\ epochRewards'[e] = amount
  BY <1>0, <1>2, <1>3, <1>4
<1>6. rewardPerShare' \in [Epochs -> Nat]
  <2>1. PerShare(e, totalCredits[e], epochRewards'[e]) \in Nat
    BY <1>0, <1>1, <1>2, <1>4, <1>5, PerShareNat
  <2> QED BY <1>3, <1>4, <2>1
<1>7. CreditTypes'
  <2>1. rewardHeld' \in Int  BY <1>0, <1>3, <1>4
  <2> QED BY <1>1, <1>3, <1>5, <1>6, <2>1 DEF CreditTypes
<1>8. StakesAddUp' /\ FedWhenEnded'
  <2>1. StakesAddUp'  BY <1>1, <1>3 DEF StakesAddUp
  <2>2. FedWhenEnded'  BY <1>1, <1>3, <1>4 DEF FedWhenEnded, Ended
  <2> QED BY <2>1, <2>2
<1>9. \A x \in Epochs, u \in Traders : x # e => Reward(x, u)' = Reward(x, u)
  <2> SUFFICES ASSUME NEW x \in Epochs, NEW u \in Traders, x # e PROVE Reward(x, u)' = Reward(x, u)
    OBVIOUS
  <2>1. epochRewards'[x] = epochRewards[x] /\ rewardPerShare'[x] = rewardPerShare[x]
    BY <1>3, <1>4
  <2> QED BY <1>3, <2>1, RewardIsPart
\* No one has claimed anything of an epoch without a reward.
<1>10. claimed[e] = {}
  <2>1. \A u \in Traders : Reward(e, u) = 0  BY <1>1, <1>2, <1>3, RewardFacts
  <2>2. claimed[e] \in SUBSET Traders  BY <1>1, <1>2 DEF CreditTypes
  <2> QED BY <1>1, <1>2, <2>1, <2>2 DEF ClaimsSettled
<1>11. ClaimsSettled'
  <2> SUFFICES ASSUME NEW x \in Epochs, NEW u \in Traders
               PROVE  /\ u \in claimed'[x] => Reward(x, u)' # 0 /\ paid'[x][u] = Reward(x, u)'
                      /\ u \notin claimed'[x] => paid'[x][u] = 0
    BY DEF ClaimsSettled
  <2>1. CASE x = e  BY <1>1, <1>3, <1>10, <2>1 DEF ClaimsSettled
  <2>2. CASE x # e  BY <1>1, <1>3, <1>9, <2>2 DEF ClaimsSettled
  <2> QED BY <2>1, <2>2
<1>12. SumFunction(Owing(e))' <= amount
  <2> DEFINE c == userCredits[e]  total == totalCredits[e]  a == rewardPerShare'[e]
             f == [u \in Traders |-> Part(c[u], total, amount, a)]
  <2>1. c \in [Traders -> Nat] /\ total \in Nat /\ total = SumFunction(c) /\ a \in Nat
    BY <1>2, <1>4, <1>6
  <2>2. Owing(e)' = f
    <3>1. \A u \in Traders : Reward(e, u)' = Part(c[u], total, amount, a)
      BY <1>3, <1>5, RewardIsPart
    <3>2. claimed'[e] = {}  BY <1>3, <1>10
    <3> HIDE DEF c, total, a
    <3> QED BY <3>1, <3>2 DEF Owing
  <2> HIDE DEF c, total, a
  <2>3. \A u \in Traders : f[u] = Part(c[u], total, amount, a) /\ f[u] \in Nat
    BY <1>0, <2>1, PartNat
  <2>4. f \in [Traders -> Int]  BY <2>3
  <2> HIDE DEF f
  <2>5. SumFunction(f) <= amount  BY <1>0, <2>1, <2>3, <2>4, PartsAtMost
  <2> QED BY <2>2, <2>5
<1>13. HoldsOwing'
  <2> DEFINE next == AllOwing'
  <2>1. AllOwing \in [Epochs -> Int] /\ SumFunction(Owing(e)) \in Nat /\ AllOwing[e] = SumFunction(Owing(e))
    BY <1>1, <1>2, RewardFacts DEF AllOwing
  <2>2. CreditTypes' /\ StakesAddUp'  BY <1>7, <1>8
  <2>3. \A x \in Epochs : x # e => next[x] = AllOwing[x]
    <3> SUFFICES ASSUME NEW x \in Epochs, x # e PROVE next[x] = AllOwing[x]  OBVIOUS
    <3>1. Owing(x)' = Owing(x)  BY <1>3, <1>9 DEF Owing
    <3> QED BY <3>1 DEF AllOwing
  <2>4. next[e] = SumFunction(Owing(e))' /\ next[e] \in Int
    <3>1. next[e] = SumFunction(Owing(e))'  BY <1>2 DEF AllOwing
    <3> DEFINE f == Owing(e)'
    <3>2. f \in [Traders -> Int]
      <4>1. \A u \in Traders : Reward(e, u)' \in Nat
        <5> TAKE u \in Traders
        <5>1. userCredits[e][u] \in Nat /\ rewardPerShare'[e] \in Nat  BY <1>2, <1>4, <1>6
        <5>2. Part(userCredits[e][u], totalCredits[e], amount, rewardPerShare'[e]) \in Nat
          BY <1>0, <1>4, <5>1, PartNat
        <5> QED BY <1>3, <1>5, <5>2, RewardIsPart
      <4> QED BY <4>1 DEF Owing
    <3> HIDE DEF f
    <3>3. SumFunction(f) \in Int  BY <1>0, <3>2, SumFunctionInt
    <3> QED BY <3>1, <3>3 DEF f
  <2>5. next \in [Epochs -> Int]
    <3>1. next = [x \in Epochs |-> next[x]]  BY DEF AllOwing
    <3> HIDE DEF next
    <3>2. \A x \in Epochs : next[x] \in Int  BY <2>1, <2>3, <2>4
    <3> QED BY <3>1, <3>2
  <2> HIDE DEF next
  <2>6. SumFunction(AllOwing) \in Int /\ SumFunction(next) \in Int  BY <1>0, <2>1, <2>5, SumFunctionInt
  <2>7. SumFunction(next) = SumFunction(AllOwing) + next[e] - AllOwing[e]
    BY <1>0, <1>2, <2>1, <2>3, <2>5, <2>6, SumFunctionChange
  <2>8. rewardHeld >= SumFunction(AllOwing)  BY <1>1 DEF HoldsOwing
  <2>9. AllOwing[e] >= 0 /\ AllOwing[e] \in Int /\ next[e] <= amount  BY <1>12, <2>1, <2>4
  <2>10. rewardHeld + amount >= SumFunction(next)
    BY <1>0, <1>4, <2>4, <2>6, <2>7, <2>8, <2>9
  <2> QED BY <1>3, <2>10 DEF HoldsOwing, next
<1> QED BY <1>7, <1>8, <1>11, <1>13 DEF CreditInv

LEMMA HarvestEpochsInv ==
    ASSUME CreditInv, NEW u \in Traders, NEW t \in 0 .. clock, NEW n \in Nat, HarvestEpochs(u, t, n)
    PROVE  CreditInv'
<1> DEFINE row == {e \in Epochs : /\ e >= StartOf(t) /\ e < StartOf(t) + n * EpochLength
                                  /\ Ended(e)}
           due == {e \in row : u \notin claimed[e]}
           pays == [e \in due |-> Reward(e, u)]
           allPays == [e \in Epochs |-> IF e \in due THEN Reward(e, u) ELSE 0]
<1>0. IsFiniteSet(Traders) /\ IsFiniteSet(Epochs)  BY CreditAssumption, EpochFacts
<1>1. CreditTypes /\ StakesAddUp /\ FedWhenEnded /\ ClaimsSettled /\ HoldsOwing  BY DEF CreditInv
<1>2. /\ rewardHeld >= SumFunction(pays)
      /\ claimed' = [e \in Epochs |-> IF e \in due /\ SettlesClaim(e, u) THEN claimed[e] \cup {u} ELSE claimed[e]]
      /\ paid' = [e \in Epochs |-> IF e \in due THEN [paid[e] EXCEPT ![u] = @ + Reward(e, u)] ELSE paid[e]]
      /\ rewardHeld' = rewardHeld - SumFunction(pays)
      /\ rewardPerShare' = [e \in Epochs |->
             IF e \in due THEN PerShare(e, totalCredits[e], epochRewards[e]) ELSE rewardPerShare[e]]
      /\ UNCHANGED <<clock, userCredits, totalCredits, listed, epochRewards>>
  BY DEF HarvestEpochs
<1>3. due \in SUBSET Epochs /\ \A e \in due : u \notin claimed[e]  OBVIOUS
<1> HIDE DEF row, due
<1>4. \A e \in Epochs, v \in Traders : Reward(e, v) \in Nat  BY <1>1, RewardFacts
<1>5. pays \in [due -> Int] /\ allPays \in [Epochs -> Int]  BY <1>3, <1>4
<1>6. SumFunction(pays) = SumFunction(allPays) /\ SumFunction(allPays) \in Int
  <2>1. \A e \in Epochs : allPays[e] = IF e \in due THEN pays[e] ELSE 0  OBVIOUS
  <2> HIDE DEF pays, allPays
  <2>2. SumFunction(pays) = SumFunction(allPays)  BY <1>0, <1>3, <1>5, <2>1, SumFunctionPart
  <2> QED BY <1>0, <1>5, <2>2, SumFunctionInt
<1>7. CreditTypes'
  <2>1. claimed' \in [Epochs -> SUBSET Traders]
    <3>1. \A e \in Epochs : claimed[e] \in SUBSET Traders  BY <1>1 DEF CreditTypes
    <3>2. \A e \in Epochs : (IF e \in due /\ SettlesClaim(e, u) THEN claimed[e] \cup {u} ELSE claimed[e])
                              \in SUBSET Traders
      BY <3>1
    <3> QED BY <1>2, <3>2
  <2>2. paid' \in [Epochs -> [Traders -> Nat]]
    <3>1. \A e \in Epochs : paid[e] \in [Traders -> Nat]  BY <1>1 DEF CreditTypes
    <3>2. \A e \in Epochs : [paid[e] EXCEPT ![u] = @ + Reward(e, u)] \in [Traders -> Nat]
      BY <1>4, <3>1
    <3> QED BY <1>2, <3>1, <3>2
  <2>3. rewardPerShare' \in [Epochs -> Nat]
    <3>1. \A e \in Epochs : /\ rewardPerShare[e] \in Nat /\ totalCredits[e] \in Nat
                            /\ epochRewards[e] \in Nat
      BY <1>1 DEF CreditTypes
    <3>2. \A e \in Epochs : PerShare(e, totalCredits[e], epochRewards[e]) \in Nat
      BY <1>1, <3>1, PerShareNat
    <3> QED BY <1>2, <3>1, <3>2
  <2>4. rewardHeld' \in Int
    <3>1. rewardHeld \in Int  BY <1>1 DEF CreditTypes
    <3> HIDE DEF pays, allPays
    <3> QED BY <1>2, <1>6, <3>1
  <2>5. /\ clock' \in 0 .. MaxClock /\ listed' \in BOOLEAN
        /\ userCredits' \in [Epochs -> [Traders -> Nat]] /\ totalCredits' \in [Epochs -> Nat]
        /\ epochRewards' \in [Epochs -> Nat]
    BY <1>1, <1>2 DEF CreditTypes
  <2> QED BY <2>1, <2>2, <2>3, <2>4, <2>5 DEF CreditTypes
<1>8. StakesAddUp' /\ FedWhenEnded'  BY <1>1, <1>2 DEF StakesAddUp, FedWhenEnded, Ended
<1>9. \A e \in Epochs, v \in Traders : Reward(e, v)' = Reward(e, v)
  <2> TAKE e \in Epochs, v \in Traders
  <2> DEFINE a == rewardPerShare[e]  b == rewardPerShare'[e]
  <2>1. b = a \/ b = PerShare(e, totalCredits[e], epochRewards[e])  BY <1>2
  <2>2. PerShare(e, totalCredits[e], epochRewards[e])
          = IF totalCredits[e] > 0 THEN (epochRewards[e] * SharePrecision) \div totalCredits[e] ELSE a
    BY DEF PerShare
  <2>3. Reward(e, v) = Part(userCredits[e][v], totalCredits[e], epochRewards[e], a)
    BY RewardIsPart
  <2>4. Reward(e, v)' = Part(userCredits[e][v], totalCredits[e], epochRewards[e], b)
    BY <1>2, RewardIsPart
  <2> HIDE DEF a, b
  <2> QED BY <2>1, <2>2, <2>3, <2>4 DEF Part
<1>10. ClaimsSettled'
  <2> SUFFICES ASSUME NEW e \in Epochs, NEW v \in Traders
               PROVE  /\ v \in claimed'[e] => Reward(e, v) # 0 /\ paid'[e][v] = Reward(e, v)
                      /\ v \notin claimed'[e] => paid'[e][v] = 0
    BY <1>9 DEF ClaimsSettled
  <2>1. /\ v \in claimed[e] => Reward(e, v) # 0 /\ paid[e][v] = Reward(e, v)
        /\ v \notin claimed[e] => paid[e][v] = 0
    BY <1>1 DEF ClaimsSettled
  <2>2. Reward(e, v) \in Nat /\ paid[e] \in [Traders -> Nat]  BY <1>1, <1>4 DEF CreditTypes
  <2>3. CASE e \in due /\ v = u
    <3>1. u \notin claimed[e] /\ paid[e][u] = 0  BY <1>3, <2>1, <2>3
    <3>2. paid'[e][u] = 0 + Reward(e, u)  BY <1>2, <2>2, <2>3, <3>1
    <3>3. u \in claimed'[e] <=> Reward(e, u) # 0  BY <1>2, <2>3, <3>1 DEF SettlesClaim
    <3> QED BY <2>2, <2>3, <3>2, <3>3
  <2>4. CASE e \in due /\ v # u
    <3>1. (v \in claimed'[e] <=> v \in claimed[e]) /\ paid'[e][v] = paid[e][v]
      BY <1>2, <2>2, <2>4
    <3> QED BY <2>1, <3>1
  <2>5. CASE e \notin due
    <3>1. claimed'[e] = claimed[e] /\ paid'[e] = paid[e]  BY <1>2, <2>5
    <3> QED BY <2>1, <3>1
  <2> QED BY <2>3, <2>4, <2>5
<1>11. HoldsOwing'
  <2> DEFINE next == AllOwing'
  <2>1. \A e \in Epochs : /\ Owing(e) \in [Traders -> Int] /\ AllOwing[e] = SumFunction(Owing(e))
                          /\ AllOwing[e] \in Nat
    BY <1>1, RewardFacts DEF AllOwing
  <2>2. AllOwing \in [Epochs -> Int]  BY <2>1 DEF AllOwing
  <2>3. ASSUME NEW e \in Epochs PROVE next[e] = AllOwing[e] - allPays[e] /\ next[e] \in Int
    <3> DEFINE f == Owing(e)
               g == Owing(e)'
    <3>1. \A v \in Traders : /\ f[v] = IF v \in claimed[e] THEN 0 ELSE Reward(e, v)
                             /\ g[v] = IF v \in claimed'[e] THEN 0 ELSE Reward(e, v)
      BY <1>9 DEF Owing
    <3>2. f \in [Traders -> Int] /\ g \in [Traders -> Int]
      <4>1. g = [v \in Traders |-> g[v]]  BY DEF Owing
      <4>2. \A v \in Traders : g[v] \in Int  BY <1>4, <3>1
      <4> HIDE DEF g
      <4>3. g \in [Traders -> Int]  BY <4>1, <4>2
      <4> QED BY <2>1, <4>3
    <3>3. next[e] = SumFunction(g) /\ AllOwing[e] = SumFunction(f)  BY DEF AllOwing
    <3> HIDE DEF f, g, next
    <3>4. SumFunction(f) \in Int /\ SumFunction(g) \in Int  BY <1>0, <3>2, SumFunctionInt
    <3>5. CASE e \in due
      <4>1. f[u] = Reward(e, u) /\ g[u] = 0
        <5>1. u \notin claimed[e]  BY <1>3, <3>5
        <5>2. u \in claimed'[e] \/ Reward(e, u) = 0  BY <1>2, <3>5 DEF SettlesClaim
        <5> QED BY <3>1, <5>1, <5>2
      <4>2. \A v \in Traders : v # u => g[v] = f[v]
        <5> SUFFICES ASSUME NEW v \in Traders, v # u PROVE g[v] = f[v]  OBVIOUS
        <5>1. v \in claimed'[e] <=> v \in claimed[e]  BY <1>2
        <5> QED BY <3>1, <5>1
      <4>3. SumFunction(g) = SumFunction(f) + g[u] - f[u]
        BY <1>0, <3>2, <3>4, <4>2, SumFunctionChange
      <4>4. allPays[e] = Reward(e, u) /\ Reward(e, u) \in Int  BY <1>4, <3>5
      <4> HIDE DEF allPays
      <4> QED BY <3>3, <3>4, <4>1, <4>3, <4>4
    <3>6. CASE e \notin due
      <4>1. claimed'[e] = claimed[e]  BY <1>2, <3>6
      <4>2. \A v \in Traders : g[v] = f[v]  BY <3>1, <4>1
      <4>3. g = f  BY <3>2, <4>2
      <4>4. allPays[e] = 0  BY <3>6
      <4> HIDE DEF allPays
      <4> QED BY <3>3, <3>4, <4>3, <4>4
    <3> QED BY <3>5, <3>6
  <2>4. next \in [Epochs -> Int]
    <3>1. next = [e \in Epochs |-> next[e]]  BY DEF AllOwing
    <3> HIDE DEF next
    <3> QED BY <2>3, <3>1
  <2> HIDE DEF next, pays, allPays
  <2>5. SumFunction(AllOwing) \in Int /\ SumFunction(next) \in Int
    BY <1>0, <2>2, <2>4, SumFunctionInt
  <2>6. SumFunction(next) = SumFunction(AllOwing) - SumFunction(allPays)
    <3>1. \A e \in Epochs : next[e] = AllOwing[e] - allPays[e]  BY <2>3
    <3> DEFINE A == AllOwing
    <3>2. A \in [Epochs -> Int] /\ \A e \in Epochs : next[e] = A[e] - allPays[e]  BY <2>2, <3>1
    <3>3. SumFunction(A) \in Int  BY <2>5
    <3> HIDE DEF A
    <3>4. SumFunction(next) = SumFunction(A) - SumFunction(allPays)
      BY <1>0, <1>5, <1>6, <2>4, <2>5, <3>2, <3>3, SumFunctionMinus
    <3> QED BY <3>4 DEF A
  <2>7. rewardHeld >= SumFunction(AllOwing) /\ rewardHeld \in Int
    BY <1>1 DEF HoldsOwing, CreditTypes
  <2>8. rewardHeld' >= SumFunction(next)  BY <1>2, <1>6, <2>5, <2>6, <2>7
  <2> QED BY <2>8 DEF HoldsOwing, next
<1> QED BY <1>7, <1>8, <1>10, <1>11 DEF CreditInv

LEMMA CreditNextInv == CreditInv /\ [CreditsNext]_creditVars => CreditInv'
<1> SUFFICES ASSUME CreditInv, [CreditsNext]_creditVars PROVE CreditInv'  OBVIOUS
<1>1. CASE \E u \in Traders, size \in TradeSizes, weight \in Weights : MintTLC(u, size, weight)
  BY <1>1, MintInv
<1>2. CASE \E u \in Traders, n \in CreditAmounts : WithdrawCredits(u, n)
  BY <1>2, WithdrawCreditsInv
<1>3. CASE \E u \in Traders, t \in 0 .. clock : \E n \in 1 .. Cardinality(Epochs) : HarvestEpochs(u, t, n)
  <2>1. PICK u \in Traders, t \in 0 .. clock : \E n \in 1 .. Cardinality(Epochs) : HarvestEpochs(u, t, n)
    BY <1>3
  <2>2. PICK n \in 1 .. Cardinality(Epochs) : HarvestEpochs(u, t, n)  BY <2>1
  <2>3. Cardinality(Epochs) \in Nat  BY EpochFacts, FS_CardinalityType
  <2>4. n \in Nat  BY <2>3
  <2> QED BY <2>2, <2>4, HarvestEpochsInv
<1>4. CASE \E isRewarder \in BOOLEAN : ListRewarder(isRewarder)  BY <1>4, ListInv
<1>5. CASE \E t \in 0 .. clock, amount \in EpochFeeds : FeedEpoch(t, amount)
  BY <1>5, FeedEpochInv
<1>6. CASE ClockTicks  BY <1>6, ClockInv
<1>7. CASE UNCHANGED creditVars
  <2>1. CreditTypes /\ StakesAddUp /\ FedWhenEnded /\ ClaimsSettled /\ HoldsOwing  BY DEF CreditInv
  <2>2. UNCHANGED <<clock, userCredits, totalCredits, listed, epochRewards, rewardPerShare,
                    claimed, rewardHeld, paid>>
    BY <1>7 DEF creditVars
  <2>3. CreditTypes' /\ StakesAddUp' /\ FedWhenEnded'
    BY <2>1, <2>2 DEF CreditTypes, StakesAddUp, FedWhenEnded, Ended
  <2>4. \A e \in Epochs, u \in Traders : Reward(e, u)' = Reward(e, u)  BY <2>2, RewardIsPart
  <2>5. ClaimsSettled' /\ HoldsOwing'  BY <2>1, <2>2, <2>4, SameRewards
  <2> QED BY <2>3, <2>5 DEF CreditInv
<1> QED BY <1>1, <1>2, <1>3, <1>4, <1>5, <1>6, <1>7 DEF CreditsNext

\* What the property says of an epoch and a trader.
LEMMA CreditsSettled == CreditInv => EpochsSettled
<1> SUFFICES ASSUME CreditInv PROVE EpochsSettled  OBVIOUS
<1>0. IsFiniteSet(Traders) /\ IsFiniteSet(Epochs) /\ SharePrecision \in Nat \ {0}
  BY CreditAssumption, EpochFacts
<1>1. CreditTypes /\ StakesAddUp /\ FedWhenEnded /\ ClaimsSettled /\ HoldsOwing  BY DEF CreditInv
<1>2. ASSUME NEW e \in Epochs, NEW u \in Traders
      PROVE  LET part == userCredits[e][u] * epochRewards[e]
             IN  /\ paid[e][u] * totalCredits[e] <= part
                 /\ u \in claimed[e] => SharePrecision * (part - paid[e][u] * totalCredits[e])
                                          < totalCredits[e] * (userCredits[e][u] + SharePrecision)
  <2> DEFINE c == userCredits[e][u]  r == epochRewards[e]  t == totalCredits[e]
             w == paid[e][u]  a == rewardPerShare[e]
  <2>1. c \in Nat /\ r \in Nat /\ t \in Nat /\ w \in Nat /\ a \in Nat
    BY <1>1 DEF CreditTypes
  <2>2. CASE u \in claimed[e]
    <3>1. Part(c, t, r, a) # 0 /\ w = Part(c, t, r, a)  BY <1>1, <2>2, RewardIsPart DEF ClaimsSettled
    <3>2. c <= t
      <4>1. userCredits[e] \in [Traders -> Nat] /\ t = SumFunction(userCredits[e])
        BY <1>1 DEF CreditTypes, StakesAddUp
      <4> QED BY <1>0, <4>1, SumFunctionNat
    <3> HIDE DEF c, r, t, w, a
    <3>3. t \in Nat \ {0}
      <4>1. c # 0  BY <2>1, <3>1, PartNat
      <4> QED BY <2>1, <3>2, <4>1
    <3> DEFINE p == (r * SharePrecision) \div t
    <3>4. w = (c * p) \div SharePrecision  BY <3>1, <3>3 DEF Part
    <3>5. w * t <= c * r /\ SharePrecision * (c * r - w * t) < t * (c + SharePrecision)
      <4>1. p = (r * SharePrecision) \div t  OBVIOUS
      <4> HIDE DEF p
      <4> QED BY <1>0, <2>1, <3>3, <3>4, <4>1, PartOfReward
    <3> QED BY <3>5 DEF c, r, t, w
  <2>3. CASE u \notin claimed[e]
    <3>1. w = 0  BY <1>1, <2>3 DEF ClaimsSettled
    <3> HIDE DEF c, r, t, w
    <3>2. w * t = 0 /\ c * r \in Nat  BY <2>1, <3>1, MultiplyNat
    <3>3. w * t <= c * r  BY <3>2
    <3> QED BY <2>3, <3>3 DEF c, r, t, w
  <2> QED BY <2>2, <2>3
<1>3. rewardHeld >= SumFunction([e \in Epochs |->
                        SumFunction([u \in Traders \ claimed[e] |-> Reward(e, u)])])
  <2>1. ASSUME NEW e \in Epochs
        PROVE  SumFunction([u \in Traders \ claimed[e] |-> Reward(e, u)]) = AllOwing[e]
    <3> DEFINE T == Traders \ claimed[e]
               f == [u \in T |-> Reward(e, u)]
               g == Owing(e)
    <3>1. T \in SUBSET Traders /\ \A u \in Traders : Reward(e, u) \in Nat /\ g \in [Traders -> Int]
      BY <1>1, RewardFacts
    <3>2. f \in [T -> Int]  BY <3>1
    <3>3. \A u \in Traders : g[u] = IF u \in T THEN f[u] ELSE 0  BY DEF Owing
    <3>4. g \in [Traders -> Int]  BY <1>1, RewardFacts
    <3>5. SumFunction(f) = SumFunction(g)
      <4> HIDE DEF f, g, T
      <4> QED BY <1>0, <3>1, <3>2, <3>3, <3>4, SumFunctionPart
    <3> QED BY <3>5 DEF AllOwing
  <2>2. [e \in Epochs |-> SumFunction([u \in Traders \ claimed[e] |-> Reward(e, u)])] = AllOwing
    BY <2>1 DEF AllOwing
  <2> QED BY <1>1, <2>2 DEF HoldsOwing
<1> QED BY <1>2, <1>3 DEF EpochsSettled

\* For an epoch every trader gets its part of what was fed, once and to the unit
\* of rounding, however often and early it harvests, and the rewarder holds what
\* the others are still to get (TLCStaking._harvestFor, EpochFeedableRewarder).
THEOREM EpochsAreSettled == CreditsSpec => []EpochsSettled
BY CreditInitInv, CreditNextInv, CreditsSettled, PTL DEF CreditsSpec

-----------------------------------------------------------------------------
(***************************************************************************)
(* The stream of a rewarder, which brings itself up to date at its next    *)
(* call only. In between, what an account has is what it was given at the  *)
(* last update and its part of what was streamed since, and the latter is  *)
(* a fraction: the invariant is about TotalShare times what an account has.*)
(***************************************************************************)
Rewarders(t) ==
    [lastRewardTime : 0 .. t, accRewardPerShare : Nat, rewardRate : Nat,
     rewardRateExpiredAt : Nat, userRewardDebts : [Users -> Int], balance : Nat]

StakingTypes ==
    /\ time \in Nat
    /\ marketIndices \in SUBSET Markets /\ rewarderMarkets \in SUBSET Markets
    /\ userTokenAmount \in [Markets -> [Users -> Nat]] /\ totalShares \in [Markets -> Nat]
    /\ rewarder \in Rewarders(time)
    /\ earned \in [Users -> Nat] /\ received \in [Users -> Nat] /\ idle \in Nat
    /\ deposits \in [Users -> Nat] /\ withdrawals \in [Users -> Nat]
    /\ feeds \in Nat /\ changes \in Nat /\ undisturbed \in BOOLEAN

SharesAddUp ==
    /\ \A m \in Markets : totalShares[m] = SumFunction(userTokenAmount[m])
    /\ SumFunction(totalShares) <= MaxShares

\* What is streamed after the last update of the rewarder r, and by now.
Ahead(r) == Max({r.rewardRateExpiredAt - r.lastRewardTime, 0})
Streamed(r) == TimePast(r) * r.rewardRate * Precision

\* At the last update, before the rounding of what accounts may harvest.
SolventAs(r, share, given) ==
    share * r.accRewardPerShare + Precision * (r.rewardRate * Ahead(r))
        <= Precision * (r.balance + given + SumFunction(r.userRewardDebts))
Solvent == SolventAs(rewarder, TotalShare, SumFunction(deposits))

Has(r, u) == Precision * received[u] + UserShare(u) * r.accRewardPerShare - Precision * r.userRewardDebts[u]
Least(r, u) == earned[u] - Precision * withdrawals[u] - Rounded * (MaxShares * r.lastRewardTime)
Most(u) == earned[u] + Precision * deposits[u] + Rounded * time

\* A share of the total, with a claim on streamed, is between least and most.
Between(total, share, has, streamed, least, most) ==
    IF total = 0 THEN least <= has /\ has <= most
    ELSE /\ total * least <= total * has + share * streamed
         /\ total * has + share * streamed <= total * most

Accounted ==
    \A u \in Users :
        Between(TotalShare, UserShare(u), Has(rewarder, u), Streamed(rewarder), Least(rewarder, u), Most(u))

IdleStreamed == idle = IF TotalShare = 0 THEN Streamed(rewarder) ELSE 0

StakingInv ==
    /\ StakingTypes /\ SharesAddUp
    /\ undisturbed => Solvent /\ Accounted /\ IdleStreamed

-----------------------------------------------------------------------------
\* The arithmetic of a share of the stream.

LEMMA MaxZero == ASSUME NEW a \in Int PROVE Max({a, 0}) = IF a > 0 THEN a ELSE 0
<1> DEFINE m == IF a > 0 THEN a ELSE 0
<1>1. m \in {a, 0} /\ \A y \in {a, 0} : m >= y  OBVIOUS
<1>2. \A x \in {a, 0} : (\A y \in {a, 0} : x >= y) => x = m  OBVIOUS
<1> HIDE DEF m
<1>3. Max({a, 0}) = m  BY <1>1, <1>2 DEF Max
<1> QED BY <1>3 DEF m

\* What Precision is a multiple of divides every multiple of it.
LEMMA RoundedFacts ==
    /\ Rounded \in {0, 1} /\ Precision \in Nat \ {0} /\ MaxShares \in Nat
    /\ \A n \in 1 .. MaxShares, k \in Nat :
          Rounded = 0 => n * ((k * Precision) \div n) = k * Precision
<1>1. Rounded \in {0, 1} /\ Precision \in Nat \ {0} /\ MaxShares \in Nat
  BY StakingAssumption DEF Rounded
<1>2. ASSUME NEW n \in 1 .. MaxShares, NEW k \in Nat, Rounded = 0
      PROVE  n * ((k * Precision) \div n) = k * Precision
  <2> DEFINE p == Precision \div n
             y == k * Precision
  <2>1. n \in Nat \ {0} /\ Precision \in Nat  BY <1>1
  <2>2. p * n = Precision /\ p \in Nat
    <3>1. (Precision \div n) * n = Precision  BY <1>2 DEF Rounded
    <3>2. p \in Nat  BY <2>1, Divide
    <3> QED BY <3>1, <3>2
  <2>3. y = n * (k * p) /\ k * p \in Nat
    <3> HIDE DEF p
    <3>1. k * (p * n) = (k * p) * n /\ (k * p) * n = n * (k * p) /\ k * p \in Nat
      BY <2>1, <2>2, MultiplyAssoc, MultiplyNat
    <3> QED BY <2>2, <3>1
  <2> DEFINE z == k * p
             q == y \div n
  <2>4. n * q <= y /\ y < n * q + n /\ q \in Int
    <3>1. y \in Int  BY <2>1
    <3> HIDE DEF y
    <3> QED BY <2>1, <3>1, Divide
  <2> HIDE DEF p, y, z, q
  <2>5. y = n * z /\ z \in Int  BY <2>3 DEF z
  <2>6. n * q <= n * z /\ n * z < n * q + n  BY <2>4, <2>5
  <2>7. q <= z  BY <2>1, <2>4, <2>5, <2>6, MultiplyLeqConverse
  <2>8. z <= q
    <3>1. SUFFICES ASSUME q + 1 <= z PROVE FALSE  BY <2>4, <2>5
    <3>2. n * (q + 1) <= n * z  BY <2>1, <2>4, <2>5, <3>1, MultiplyLeq
    <3>3. n * (q + 1) = n * q + n  BY <2>1, <2>4
    <3>4. n * q \in Int /\ n * z \in Int  BY <2>1, <2>4, <2>5
    <3> QED BY <2>1, <2>6, <3>2, <3>3, <3>4
  <2>9. q = z  BY <2>4, <2>5, <2>7, <2>8
  <2>10. n * q = y  BY <2>5, <2>9
  <2> QED BY <2>10 DEF q, y
<1> QED BY <1>1, <1>2

\* An update gives each share its part, rounded down.
LEMMA BetweenUpdated ==
    ASSUME NEW t \in Nat \ {0}, NEW s \in Nat, NEW has \in Int, NEW x \in Nat,
           NEW least \in Int, NEW most \in Int, Between(t, s, has, x, least, most),
           NEW q \in Nat, t * q <= x, x < t * q + t, NEW d \in {0, 1}, d = 0 => t * q = x
    PROVE  least - d * s <= has + s * q /\ has + s * q <= most
<1> DEFINE tq == t * q  sx == s * x  sq == s * q  th == t * has
<1>1. t * least <= th + sx /\ th + sx <= t * most  BY DEF Between
<1>2. tq \in Int /\ sx \in Int /\ sq \in Int /\ th \in Int /\ t * least \in Int /\ t * most \in Int
      /\ t * s \in Int /\ t * sq \in Int
  OBVIOUS
<1>3. t * sq = s * tq
  <2>1. t * (s * q) = (t * s) * q /\ t * s = s * t /\ (s * t) * q = s * (t * q)  BY MultiplyAssoc
  <2> QED BY <2>1
<1>4. t * (has + sq) = th + t * sq  BY <1>2, MultiplyOver
<1>5. s * tq <= sx  BY <1>2, MultiplyLeq
<1>6. sx <= s * (tq + d * (t - 1)) /\ d * (t - 1) \in Int
  <2>1. x <= tq + d * (t - 1) /\ d * (t - 1) \in Int
    <3>1. CASE d = 0  BY <1>2, <3>1
    <3>2. CASE d = 1
      <4>1. d * (t - 1) = t - 1  BY <3>2
      <4> QED BY <1>2, <4>1
    <3> QED BY <3>1, <3>2
  <2>2. tq + d * (t - 1) \in Int  BY <1>2, <2>1
  <2> QED BY <1>2, <2>1, <2>2, MultiplyLeq
<1>7. s * (tq + d * (t - 1)) <= s * tq + t * (d * s) /\ t * (d * s) \in Int
  <2>1. s * (tq + d * (t - 1)) = s * tq + s * (d * (t - 1))  BY <1>2, <1>6, MultiplyOver
  <2>2. s * tq \in Int /\ t * (d * s) \in Int /\ s * (d * (t - 1)) \in Int  BY <1>2, <1>6
  <2>3. s * (d * (t - 1)) <= t * (d * s)
    <3>1. CASE d = 0  BY <3>1
    <3>2. CASE d = 1
      <4>1. s * (d * (t - 1)) = s * t - s /\ t * (d * s) = t * s /\ s * t = t * s  BY <3>2
      <4> QED BY <1>2, <4>1
    <3> QED BY <3>1, <3>2
  <2> QED BY <2>1, <2>2, <2>3
<1> HIDE DEF tq, sx, sq, th
<1>8. t * (has + sq) <= t * most  BY <1>1, <1>2, <1>3, <1>4, <1>5
<1>9. t * (least - d * s) <= t * (has + sq)
  <2>1. d * s \in Int  OBVIOUS
  <2>2. t * (least - d * s) = t * least - t * (d * s)  BY <2>1, MultiplyOver
  <2>3. s * (tq + d * (t - 1)) \in Int  BY <1>2, <1>6
  <2> QED BY <1>1, <1>2, <1>3, <1>4, <1>6, <1>7, <2>2, <2>3
<1>10. least - d * s \in Int /\ has + sq \in Int  BY <1>2
<1>11. least - d * s <= has + sq  BY <1>9, <1>10, MultiplyLeqConverse
<1>12. has + sq <= most  BY <1>8, <1>10, MultiplyLeqConverse
<1> QED BY <1>11, <1>12 DEF sq

\* Nothing was streamed since the last update.
LEMMA BetweenSettled ==
    ASSUME NEW t \in Nat, NEW s \in Nat, NEW has \in Int, NEW x \in Nat,
           NEW least \in Int, NEW most \in Int, least <= has, has <= most, t = 0 \/ x = 0
    PROVE  Between(t, s, has, x, least, most)
<1>1. CASE t = 0  BY <1>1 DEF Between
<1>2. CASE t # 0
  <2>1. x = 0 /\ s * x = 0  BY <1>2
  <2>2. t * least <= t * has /\ t * has <= t * most /\ t * has \in Int  BY MultiplyLeq
  <2> QED BY <1>2, <2>1, <2>2 DEF Between
<1> QED BY <1>1, <1>2

\* The first to have shares has the whole of what was streamed to no one.
LEMMA BetweenFirst ==
    ASSUME NEW t \in Nat \ {0}, NEW has \in Int, NEW x \in Nat,
           NEW least \in Int, NEW most \in Int, least <= has, has <= most
    PROVE  /\ Between(t, t, has, x, least + x, most + x)
           /\ Between(t, 0, has, x, least, most)
<1>1. t * least <= t * has /\ t * has <= t * most /\ t * has \in Int /\ t * least \in Int
      /\ t * most \in Int /\ t * x \in Int
  BY MultiplyLeq
<1>2. t * (least + x) = t * least + t * x /\ t * (most + x) = t * most + t * x  BY MultiplyOver
<1>3. 0 * x = 0  OBVIOUS
<1> QED BY <1>1, <1>2, <1>3 DEF Between

\* A tick streams y, of which the history gives each share its part.
LEMMA BetweenTick ==
    ASSUME NEW t \in Nat, NEW s \in Nat, NEW has \in Int, NEW x \in Nat, NEW y \in Nat,
           NEW least \in Int, NEW most \in Int, Between(t, s, has, x, least, most),
           NEW e \in Nat, NEW d \in {0, 1}, NEW z \in Nat, z = x + y,
           IF t = 0 THEN e = 0 ELSE t * e <= y * s /\ y * s < t * e + t /\ (d = 0 => t * e = y * s)
    PROVE  Between(t, s, has, z, least + e, most + e + d)
<1>1. CASE t = 0  BY <1>1 DEF Between
<1>2. CASE t # 0
  <2>1. /\ t * least <= t * has + s * x /\ t * has + s * x <= t * most
        /\ t * e <= y * s /\ y * s < t * e + t /\ (d = 0 => t * e = y * s)
    BY <1>2 DEF Between
  <2>2. s * z = s * x + y * s  BY MultiplyOver, MultiplyAssoc
  <2>3. t * (least + e) = t * least + t * e  BY MultiplyOver
  <2>4. t * (most + e + d) = t * most + t * e + t * d
    <3>1. most + e \in Int /\ d \in Int  OBVIOUS
    <3>2. t * ((most + e) + d) = t * (most + e) + t * d  BY <3>1, MultiplyOver
    <3>3. t * (most + e) = t * most + t * e  BY MultiplyOver
    <3> QED BY <3>2, <3>3
  <2>5. /\ t * least \in Int /\ t * has \in Int /\ s * x \in Int /\ t * most \in Int
        /\ t * e \in Int /\ y * s \in Int /\ t * d \in Int
    OBVIOUS
  <2> DEFINE tl == t * least  th == t * has  sx == s * x  tm == t * most  te == t * e  ys == y * s
             td == t * d
  <2>6. ys <= te + td
    <3>1. CASE d = 0  BY <2>1, <2>5, <3>1
    <3>2. CASE d = 1
      <4>1. td = t  BY <3>2
      <4> HIDE DEF td, te, ys
      <4> QED BY <2>1, <2>5, <4>1 DEF te, ys
    <3> QED BY <3>1, <3>2
  <2> HIDE DEF tl, th, sx, tm, te, ys, td
  <2>7. tl + te <= th + (sx + ys) /\ th + (sx + ys) <= tm + te + td
    BY <2>1, <2>5, <2>6 DEF tl, th, sx, tm, te, ys, td
  <2> QED BY <1>2, <2>2, <2>3, <2>4, <2>7 DEF Between, tl, th, sx, tm, te, ys, td
<1> QED BY <1>1, <1>2

-----------------------------------------------------------------------------
\* The shares.

LEMMA ShareFacts ==
    ASSUME StakingTypes, SharesAddUp
    PROVE  /\ IsFiniteSet(Users) /\ IsFiniteSet(Markets) /\ IsFiniteSet(rewarderMarkets)
           /\ TotalShare \in Nat /\ TotalShare <= MaxShares
           /\ \A u \in Users : UserShare(u) \in Nat /\ UserShare(u) <= TotalShare
           /\ \A u \in Users, m \in rewarderMarkets : userTokenAmount[m][u] <= UserShare(u)
           /\ [u \in Users |-> UserShare(u)] \in [Users -> Nat]
           /\ Shares = TotalShare
<1> DEFINE R == rewarderMarkets
           total == [m \in R |-> totalShares[m]]
           row(u) == [m \in R |-> userTokenAmount[m][u]]
           column(m) == [u \in Users |-> userTokenAmount[m][u]]
<1>1. IsFiniteSet(Users) /\ IsFiniteSet(Markets) /\ R \in SUBSET Markets /\ MaxShares \in Nat
  BY StakingAssumption DEF StakingTypes
<1>2. IsFiniteSet(R)  BY <1>1, FS_Subset
<1>3. /\ totalShares \in [Markets -> Nat] /\ userTokenAmount \in [Markets -> [Users -> Nat]]
      /\ \A m \in Markets : totalShares[m] = SumFunction(userTokenAmount[m])
      /\ SumFunction(totalShares) <= MaxShares
  BY DEF StakingTypes, SharesAddUp
<1>4. total \in [R -> Nat] /\ \A u \in Users : row(u) \in [R -> Nat]
  BY <1>1, <1>3
<1>5. TotalShare = SumFunction(total) /\ \A u \in Users : UserShare(u) = SumFunction(row(u))
  BY DEF TotalShare, UserShare
<1>6. TotalShare \in Nat
  <2> HIDE DEF total
  <2> QED BY <1>2, <1>4, <1>5, SumFunctionNat
<1>7. TotalShare <= MaxShares
  <2> DEFINE g == [m \in Markets |-> IF m \in R THEN total[m] ELSE 0]
  <2>1. \A m \in Markets : g[m] <= totalShares[m]
    <3> TAKE m \in Markets
    <3>1. totalShares[m] \in Nat  BY <1>3
    <3> QED BY <1>1, <1>3, <3>1
  <2>2. g \in [Markets -> Int] /\ total \in [R -> Int] /\ totalShares \in [Markets -> Int]
        /\ \A m \in Markets : g[m] = IF m \in R THEN total[m] ELSE 0
    BY <1>1, <1>3
  <2> HIDE DEF g, total, R
  <2>3. SumFunction(total) = SumFunction(g)  BY <1>1, <2>2, SumFunctionPart
  <2>4. SumFunction(g) \in Int /\ SumFunction(totalShares) \in Int  BY <1>1, <2>2, SumFunctionInt
  <2>5. SumFunction(g) <= SumFunction(totalShares)  BY <1>1, <2>1, <2>2, <2>4, SumFunctionLeq
  <2> QED BY <1>1, <1>3, <1>5, <2>3, <2>4, <2>5
<1>8. ASSUME NEW u \in Users
      PROVE  /\ UserShare(u) \in Nat /\ UserShare(u) <= TotalShare
             /\ \A m \in R : userTokenAmount[m][u] <= UserShare(u)
  <2> DEFINE f == row(u)
  <2>1. f \in [R -> Nat] /\ f \in [R -> Int] /\ total \in [R -> Int]  BY <1>1, <1>3
  <2>2. \A m \in R : f[m] <= total[m]
    <3> TAKE m \in R
    <3>1. userTokenAmount[m] \in [Users -> Nat] /\ m \in Markets  BY <1>1, <1>3
    <3>2. userTokenAmount[m][u] <= SumFunction(userTokenAmount[m])  BY <1>1, <3>1, SumFunctionNat
    <3> QED BY <1>3, <3>1, <3>2
  <2>3. UserShare(u) = SumFunction(f) /\ \A m \in R : f[m] = userTokenAmount[m][u]  BY <1>5
  <2> HIDE DEF f, total
  <2>4. SumFunction(f) \in Nat /\ SumFunction(total) \in Int /\ \A m \in R : f[m] <= SumFunction(f)
    BY <1>2, <2>1, SumFunctionNat, SumFunctionInt
  <2>5. SumFunction(f) <= SumFunction(total)  BY <1>2, <2>1, <2>2, <2>4, SumFunctionLeq
  <2> QED BY <1>5, <2>3, <2>4, <2>5
<1>9. [u \in Users |-> UserShare(u)] \in [Users -> Nat]  BY <1>8
<1>10. Shares = TotalShare
  <2> DEFINE f == [m \in R |-> userTokenAmount[m]]
             b == [u \in Users |-> UserShare(u)]
  <2>1. f \in [R -> [Users -> Int]] /\ total \in [R -> Int]  BY <1>1, <1>3
  <2>2. \A m \in R : total[m] = SumFunction(f[m])  BY <1>1, <1>3
  <2>3. b \in [Users -> Int]  BY <1>9
  <2>4. \A u \in Users : b[u] = SumFunction([m \in R |-> f[m][u]])
    <3> TAKE u \in Users
    <3>1. row(u) = [m \in R |-> f[m][u]]  OBVIOUS
    <3>2. b[u] = SumFunction(row(u))  BY <1>5
    <3> HIDE DEF row
    <3> QED BY <3>1, <3>2
  <2> HIDE DEF f, total, b
  <2>5. SumFunction(total) = SumFunction(b)
    BY <1>1, <1>2, <2>1, <2>2, <2>3, <2>4, SumFunctionSwap
  <2> QED BY <1>5, <2>5 DEF Shares, b
<1> QED BY <1>1, <1>2, <1>6, <1>7, <1>8, <1>9, <1>10

\* A stake of u in m becomes amount instead of what it was.
LEMMA StakeChanged ==
    ASSUME StakingTypes, SharesAddUp, NEW u \in Users, NEW m \in Markets, NEW change \in Int,
           userTokenAmount[m][u] + change \in Nat,
           userTokenAmount' = [userTokenAmount EXCEPT ![m][u] = @ + change],
           totalShares' = [totalShares EXCEPT ![m] = @ + change],
           rewarderMarkets' = rewarderMarkets,
           SumFunction(totalShares) + change <= MaxShares
    PROVE  /\ userTokenAmount' \in [Markets -> [Users -> Nat]] /\ totalShares' \in [Markets -> Nat]
           /\ SharesAddUp'
           /\ IF m \in rewarderMarkets
              THEN /\ TotalShare' = TotalShare + change
                   /\ \A v \in Users : UserShare(v)' = UserShare(v) + (IF v = u THEN change ELSE 0)
              ELSE /\ TotalShare' = TotalShare
                   /\ \A v \in Users : UserShare(v)' = UserShare(v)
<1>0. /\ IsFiniteSet(Users) /\ IsFiniteSet(Markets) /\ rewarderMarkets \in SUBSET Markets
      /\ IsFiniteSet(rewarderMarkets) /\ MaxShares \in Nat
  BY ShareFacts, StakingAssumption DEF StakingTypes
<1>1. /\ totalShares \in [Markets -> Nat] /\ userTokenAmount \in [Markets -> [Users -> Nat]]
      /\ \A x \in Markets : totalShares[x] = SumFunction(userTokenAmount[x])
      /\ SumFunction(totalShares) <= MaxShares
  BY DEF StakingTypes, SharesAddUp
<1>2. userTokenAmount' \in [Markets -> [Users -> Nat]]  BY <1>1
<1>3. /\ \A x \in Markets : x # m => userTokenAmount'[x] = userTokenAmount[x]
      /\ userTokenAmount'[m][u] = userTokenAmount[m][u] + change
      /\ \A v \in Users : v # u => userTokenAmount'[m][v] = userTokenAmount[m][v]
      /\ totalShares'[m] = totalShares[m] + change
      /\ \A x \in Markets : x # m => totalShares'[x] = totalShares[x]
      /\ totalShares' \in [Markets -> Int]
  BY <1>1
<1>4. totalShares'[m] = SumFunction(userTokenAmount'[m]) /\ totalShares'[m] \in Nat
  <2> DEFINE f == userTokenAmount[m]  g == userTokenAmount'[m]
  <2>1. f \in [Users -> Int] /\ g \in [Users -> Int] /\ g \in [Users -> Nat]  BY <1>1, <1>2
  <2>2. g[u] = f[u] + change /\ f[u] \in Int /\ \A v \in Users : v # u => g[v] = f[v]
    BY <1>1, <1>3
  <2>3. totalShares[m] = SumFunction(f)  BY <1>1
  <2> HIDE DEF f, g
  <2>4. SumFunction(f) \in Int /\ SumFunction(g) \in Nat
    BY <1>0, <2>1, SumFunctionInt, SumFunctionNat
  <2>5. SumFunction(g) = SumFunction(f) + g[u] - f[u]
    BY <1>0, <2>1, <2>2, <2>4, SumFunctionChange
  <2>6. totalShares'[m] = SumFunction(g)  BY <1>3, <2>2, <2>3, <2>4, <2>5
  <2> QED BY <2>4, <2>6 DEF g
<1>5. totalShares' \in [Markets -> Nat]
  <2>1. \A x \in Markets : totalShares'[x] \in Nat  BY <1>1, <1>3, <1>4
  <2> QED BY <1>3, <2>1
<1>6. SharesAddUp'
  <2>1. SumFunction(totalShares') = SumFunction(totalShares) + change
    <3> DEFINE f == totalShares  g == totalShares'
    <3>1. f \in [Markets -> Int] /\ g \in [Markets -> Int] /\ f[m] \in Int
          /\ g[m] = f[m] + change /\ \A x \in Markets : x # m => g[x] = f[x]
      BY <1>1, <1>3
    <3> HIDE DEF f, g
    <3>2. SumFunction(f) \in Int  BY <1>0, <3>1, SumFunctionInt
    <3>3. SumFunction(g) = SumFunction(f) + g[m] - f[m]
      BY <1>0, <3>1, <3>2, SumFunctionChange
    <3>4. SumFunction(g) = SumFunction(f) + change  BY <3>1, <3>2, <3>3
    <3> QED BY <3>4 DEF f, g
  <2>2. \A x \in Markets : totalShares'[x] = SumFunction(userTokenAmount'[x])
    BY <1>1, <1>3, <1>4
  <2> QED BY <2>1, <2>2 DEF SharesAddUp
<1> DEFINE R == rewarderMarkets
           t == [x \in R |-> totalShares[x]]
           t1 == [x \in R |-> totalShares'[x]]
           row(v) == [x \in R |-> userTokenAmount[x][v]]
           row1(v) == [x \in R |-> userTokenAmount'[x][v]]
<1>7. /\ TotalShare = SumFunction(t) /\ TotalShare' = SumFunction(t1)
      /\ \A v \in Users : UserShare(v) = SumFunction(row(v)) /\ UserShare(v)' = SumFunction(row1(v))
  BY DEF TotalShare, UserShare
<1>8. /\ t \in [R -> Int] /\ t1 \in [R -> Int]
      /\ \A v \in Users : row(v) \in [R -> Int] /\ row1(v) \in [R -> Int]
  BY <1>0, <1>1, <1>2, <1>5
<1>9. CASE m \in R
  <2>1. /\ t1[m] = t[m] + change /\ t[m] \in Int
        /\ \A x \in R : x # m => t1[x] = t[x]
    BY <1>0, <1>1, <1>3, <1>9
  <2>2. TotalShare' = TotalShare + change
    <3> HIDE DEF t, t1, R
    <3>1. SumFunction(t) \in Int  BY <1>0, <1>8, SumFunctionInt DEF R
    <3>2. SumFunction(t1) = SumFunction(t) + t1[m] - t[m]
      BY <1>0, <1>8, <1>9, <2>1, <3>1, SumFunctionChange DEF R
    <3> QED BY <1>7, <2>1, <3>1, <3>2
  <2>3. ASSUME NEW v \in Users
        PROVE  UserShare(v)' = UserShare(v) + (IF v = u THEN change ELSE 0)
    <3> DEFINE f == row(v)  g == row1(v)
    <3>1. /\ f[m] \in Int /\ g[m] = f[m] + (IF v = u THEN change ELSE 0)
          /\ \A x \in R : x # m => g[x] = f[x]
      BY <1>0, <1>1, <1>3, <1>9
    <3>2. f \in [R -> Int] /\ g \in [R -> Int]  BY <1>8
    <3>3. UserShare(v) = SumFunction(f) /\ UserShare(v)' = SumFunction(g)  BY <1>7
    <3> HIDE DEF f, g, R
    <3>4. SumFunction(f) \in Int  BY <1>0, <3>2, SumFunctionInt DEF R
    <3>5. SumFunction(g) = SumFunction(f) + g[m] - f[m]
      BY <1>0, <1>9, <3>1, <3>2, <3>4, SumFunctionChange DEF R
    <3> QED BY <3>1, <3>3, <3>4, <3>5
  <2> QED BY <1>2, <1>5, <1>6, <1>9, <2>2, <2>3
<1>10. CASE m \notin R
  <2>1. t1 = t  BY <1>0, <1>3, <1>10
  <2>2. \A v \in Users : row1(v) = row(v)  BY <1>0, <1>3, <1>10
  <2> HIDE DEF t, t1, row, row1
  <2> QED BY <1>2, <1>5, <1>6, <1>7, <1>10, <2>1, <2>2
<1> QED BY <1>9, <1>10

LEMMA ExtendByZero ==
    ASSUME NEW S, IsFiniteSet(S), NEW x, x \notin S, NEW D, D = S \cup {x},
           NEW f \in [D -> Int], NEW g \in [S -> Int], \A y \in S : f[y] = g[y], f[x] = 0
    PROVE  SumFunction(f) = SumFunction(g)
<1>1. SumFunction(g) \in Int  BY SumFunctionInt
<1>2. SumFunction(f) = SumFunction(g) + f[x]  BY SumFunctionExtend
<1> QED BY <1>1, <1>2

\* Giving the rewarder a market without stakes, or taking it away, changes no share.
LEMMA MarketChanged ==
    ASSUME StakingTypes, SharesAddUp, NEW m \in Markets, totalShares[m] = 0,
           UNCHANGED <<userTokenAmount, totalShares>>,
           \/ rewarderMarkets' = rewarderMarkets \union {m}
           \/ rewarderMarkets' = rewarderMarkets \ {m}
    PROVE  TotalShare' = TotalShare /\ \A u \in Users : UserShare(u)' = UserShare(u)
<1> DEFINE R == rewarderMarkets \ {m}  D == R \cup {m}
<1>0. IsFiniteSet(R) /\ m \notin R /\ R \in SUBSET Markets /\ D \in SUBSET Markets
      /\ IsFiniteSet(Users)
  BY ShareFacts, FS_Subset DEF StakingTypes
<1>1. rewarderMarkets \in {R, D} /\ rewarderMarkets' \in {R, D}  OBVIOUS
<1>2. /\ totalShares \in [Markets -> Nat] /\ userTokenAmount \in [Markets -> [Users -> Nat]]
      /\ totalShares[m] = SumFunction(userTokenAmount[m])
  BY DEF StakingTypes, SharesAddUp
<1> HIDE DEF R
<1>3. ASSUME NEW f \in [D -> Int], NEW g \in [R -> Int], \A x \in R : f[x] = g[x], f[m] = 0
      PROVE  SumFunction(f) = SumFunction(g)
  <2>1. D = R \cup {m}  OBVIOUS
  <2> HIDE DEF D
  <2> QED BY <1>0, <1>3, <2>1, ExtendByZero
<1>4. \A u \in Users : userTokenAmount[m][u] = 0
  <2> TAKE u \in Users
  <2>1. userTokenAmount[m] \in [Users -> Nat]  BY <1>2
  <2>2. userTokenAmount[m][u] <= 0 /\ userTokenAmount[m][u] \in Nat
    BY <1>0, <1>2, <2>1, SumFunctionNat
  <2> QED BY <2>2
<1>5. SumFunction([x \in D |-> totalShares[x]]) = SumFunction([x \in R |-> totalShares[x]])
  <2> DEFINE f == [x \in D |-> totalShares[x]]  g == [x \in R |-> totalShares[x]]
  <2>1. f \in [D -> Int] /\ g \in [R -> Int] /\ (\A x \in R : f[x] = g[x]) /\ f[m] = 0
    BY <1>0, <1>2
  <2> HIDE DEF f, g, D
  <2>2. SumFunction(f) = SumFunction(g)  BY <1>3, <2>1
  <2> QED BY <2>2 DEF f, g
<1>6. ASSUME NEW u \in Users
      PROVE  SumFunction([x \in D |-> userTokenAmount[x][u]]) = SumFunction([x \in R |-> userTokenAmount[x][u]])
  <2> DEFINE f == [x \in D |-> userTokenAmount[x][u]]  g == [x \in R |-> userTokenAmount[x][u]]
  <2>1. f \in [D -> Int] /\ g \in [R -> Int] /\ (\A x \in R : f[x] = g[x]) /\ f[m] = 0
    BY <1>0, <1>2, <1>4
  <2> HIDE DEF f, g, D
  <2>2. SumFunction(f) = SumFunction(g)  BY <1>3, <2>1
  <2> QED BY <2>2 DEF f, g
<1> HIDE DEF D
<1>7. \A Q \in {R, D} : SumFunction([x \in Q |-> totalShares[x]]) = SumFunction([x \in R |-> totalShares[x]])
  BY <1>5
<1>8. \A u \in Users, Q \in {R, D} :
         SumFunction([x \in Q |-> userTokenAmount[x][u]]) = SumFunction([x \in R |-> userTokenAmount[x][u]])
  BY <1>6
<1> DEFINE Q == rewarderMarkets  Q1 == rewarderMarkets'
<1>9. Q \in {R, D} /\ Q1 \in {R, D}  BY <1>1
<1>10. TotalShare' = SumFunction([x \in Q1 |-> totalShares[x]])
       /\ TotalShare = SumFunction([x \in Q |-> totalShares[x]])
  BY DEF TotalShare
<1>11. \A u \in Users : /\ UserShare(u)' = SumFunction([x \in Q1 |-> userTokenAmount[x][u]])
                        /\ UserShare(u) = SumFunction([x \in Q |-> userTokenAmount[x][u]])
  BY DEF UserShare
<1> HIDE DEF Q, Q1
<1> QED BY <1>7, <1>8, <1>9, <1>10, <1>11

-----------------------------------------------------------------------------
\* The rewarder brought up to date.

\* What is streamed by now and what is yet to come is what was ahead.
LEMMA TimeFacts ==
    ASSUME time \in Nat, NEW r \in Rewarders(time)
    PROVE  /\ TimePast(r) \in Nat /\ Ahead(r) \in Nat /\ Streamed(r) \in Nat
           /\ Max({r.rewardRateExpiredAt - time, 0}) = Ahead(r) - TimePast(r)
           /\ Max({r.rewardRateExpiredAt - time, 0}) \in Nat
           /\ Ahead(r) = IF r.rewardRateExpiredAt > r.lastRewardTime
                         THEN r.rewardRateExpiredAt - r.lastRewardTime ELSE 0
           /\ r.lastRewardTime = time => TimePast(r) = 0
           /\ Streamed(r) = Precision * (r.rewardRate * TimePast(r))
           /\ Streamed(r) = (TimePast(r) * r.rewardRate) * Precision
<1> DEFINE x == r.rewardRateExpiredAt  l == r.lastRewardTime
<1>1. x \in Nat /\ l \in Nat /\ l <= time /\ r.rewardRate \in Nat  BY DEF Rewarders
<1>2. Max({x - l, 0}) = (IF x - l > 0 THEN x - l ELSE 0)  BY <1>1, MaxZero
<1>3. Max({x - time, 0}) = (IF x - time > 0 THEN x - time ELSE 0)  BY <1>1, MaxZero
<1>4. Ahead(r) = Max({x - l, 0}) /\ TimePast(r) = IF time < x THEN time - l ELSE Max({x - l, 0})
  BY DEF Ahead, TimePast
<1> HIDE DEF x, l
<1>5. /\ TimePast(r) \in Nat /\ Ahead(r) \in Nat
      /\ Max({x - time, 0}) = Ahead(r) - TimePast(r) /\ Max({x - time, 0}) \in Nat
      /\ Ahead(r) = (IF x > l THEN x - l ELSE 0)
      /\ l = time => TimePast(r) = 0
  BY <1>1, <1>2, <1>3, <1>4
<1>6. Precision \in Nat  BY RoundedFacts
<1>7. /\ Streamed(r) \in Nat /\ Streamed(r) = Precision * (r.rewardRate * TimePast(r))
      /\ Streamed(r) = (TimePast(r) * r.rewardRate) * Precision
  <2> DEFINE a == TimePast(r)  b == r.rewardRate
  <2>1. a \in Nat /\ b \in Nat /\ Streamed(r) = (a * b) * Precision  BY <1>1, <1>5 DEF Streamed
  <2> HIDE DEF a, b
  <2>2. a * b \in Nat /\ a * b = b * a  BY <2>1, MultiplyNat, MultiplyAssoc
  <2>3. (a * b) * Precision = Precision * (a * b) /\ (a * b) * Precision \in Nat
    BY <1>6, <2>2, MultiplyNat, MultiplyAssoc
  <2>4. Streamed(r) = Precision * (b * a)  BY <2>1, <2>2, <2>3
  <2> QED BY <2>1, <2>3, <2>4 DEF a, b
<1> QED BY <1>5, <1>7 DEF x, l

LEMMA AfterForceUpdate ==
    ASSUME time \in Nat, rewarder \in Rewarders(time), RewardPerShare(rewarder) \in Nat
    PROVE  /\ ForceUpdate(rewarder) \in Rewarders(time)
           /\ ForceUpdate(rewarder).lastRewardTime = time
           /\ ForceUpdate(rewarder).accRewardPerShare
                = rewarder.accRewardPerShare + RewardPerShare(rewarder)
           /\ ForceUpdate(rewarder).rewardRate = rewarder.rewardRate
           /\ ForceUpdate(rewarder).rewardRateExpiredAt = rewarder.rewardRateExpiredAt
           /\ ForceUpdate(rewarder).userRewardDebts = rewarder.userRewardDebts
           /\ ForceUpdate(rewarder).balance = rewarder.balance
           /\ rewarder.lastRewardTime = time /\ RewardPerShare(rewarder) = 0
                => ForceUpdate(rewarder) = rewarder
<1> DEFINE r == rewarder  q == RewardPerShare(rewarder)  f == ForceUpdate(rewarder)
           a == r.accRewardPerShare  b == r.rewardRate  c == r.rewardRateExpiredAt
           d == r.userRewardDebts  e == r.balance  l == r.lastRewardTime
<1>1. a \in Nat /\ b \in Nat /\ c \in Nat /\ d \in [Users -> Int] /\ e \in Nat /\ l \in 0 .. time
  BY DEF Rewarders
<1>2. r = [lastRewardTime |-> l, accRewardPerShare |-> a, rewardRate |-> b,
           rewardRateExpiredAt |-> c, userRewardDebts |-> d, balance |-> e]
  BY DEF Rewarders
<1>3. f = [r EXCEPT !.accRewardPerShare = a + q, !.lastRewardTime = time]
  <2> HIDE DEF q
  <2> QED BY <1>2 DEF ForceUpdate, q
<1>4. q \in Nat  OBVIOUS
<1> HIDE DEF a, b, c, d, e, l, q, r, f
<1>5. f = [lastRewardTime |-> time, accRewardPerShare |-> a + q, rewardRate |-> b,
           rewardRateExpiredAt |-> c, userRewardDebts |-> d, balance |-> e]
  BY <1>2, <1>3
<1>6. a + q \in Nat /\ time \in 0 .. time  BY <1>1, <1>4
<1>7. f \in Rewarders(time)  BY <1>1, <1>5, <1>6 DEF Rewarders
<1>8. ASSUME l = time, q = 0 PROVE f = r
  <2>1. a + q = a  BY <1>1, <1>8
  <2> QED BY <1>2, <1>5, <1>8, <2>1
<1>9. /\ f.lastRewardTime = time /\ f.accRewardPerShare = a + q /\ f.rewardRate = b
      /\ f.rewardRateExpiredAt = c /\ f.userRewardDebts = d /\ f.balance = e
  BY <1>5
<1> QED BY <1>7, <1>8, <1>9 DEF a, b, c, d, e, l, q, r, f

LEMMA UpdateFacts ==
    ASSUME StakingTypes, SharesAddUp
    PROVE  /\ RewardPerShare(rewarder) \in Nat
           /\ IF TotalShare = 0 THEN RewardPerShare(rewarder) = 0
              ELSE /\ TotalShare * RewardPerShare(rewarder) <= Streamed(rewarder)
                   /\ Streamed(rewarder) < TotalShare * RewardPerShare(rewarder) + TotalShare
                   /\ Rounded = 0 => TotalShare * RewardPerShare(rewarder) = Streamed(rewarder)
           /\ ForceUpdate(rewarder) \in Rewarders(time)
           /\ ForceUpdate(rewarder).lastRewardTime = time
           /\ ForceUpdate(rewarder).accRewardPerShare
                = rewarder.accRewardPerShare + RewardPerShare(rewarder)
           /\ ForceUpdate(rewarder).rewardRate = rewarder.rewardRate
           /\ ForceUpdate(rewarder).rewardRateExpiredAt = rewarder.rewardRateExpiredAt
           /\ ForceUpdate(rewarder).userRewardDebts = rewarder.userRewardDebts
           /\ ForceUpdate(rewarder).balance = rewarder.balance
           /\ Update(rewarder) = IF TotalShare = 0 THEN rewarder ELSE ForceUpdate(rewarder)
           /\ Update(rewarder) \in Rewarders(time)
           /\ Update(rewarder).userRewardDebts = rewarder.userRewardDebts
           /\ Update(rewarder).balance = rewarder.balance
           /\ Update(rewarder).rewardRate = rewarder.rewardRate
           /\ TotalShare # 0 => Streamed(Update(rewarder)) = 0
<1> DEFINE x == Streamed(rewarder)  t == TotalShare  q == RewardPerShare(rewarder)
<1>1. time \in Nat /\ rewarder \in Rewarders(time)  BY DEF StakingTypes
<1>2. t \in Nat /\ t <= MaxShares  BY ShareFacts
<1>3. x \in Nat /\ TimePast(rewarder) \in Nat /\ rewarder.rewardRate \in Nat
  BY <1>1, TimeFacts DEF Rewarders
<1>4. q = IF t > 0 THEN x \div t ELSE 0  BY DEF RewardPerShare, Streamed
<1>5. /\ q \in Nat
      /\ IF t = 0 THEN q = 0
         ELSE t * q <= x /\ x < t * q + t /\ (Rounded = 0 => t * q = x)
  <2>1. CASE t = 0  BY <1>4, <2>1
  <2>2. CASE t # 0
    <3>1. t \in Nat \ {0} /\ q = x \div t  BY <1>2, <1>4, <2>2
    <3>2. Rounded = 0 => t * q = x
      <4> DEFINE k == TimePast(rewarder) * rewarder.rewardRate
      <4>1. k \in Nat /\ x = k * Precision
        BY <1>3, MultiplyNat DEF Streamed
      <4>2. t \in 1 .. MaxShares  BY <1>2, <3>1, RoundedFacts
      <4> HIDE DEF k, x, q, t
      <4> QED BY <3>1, <4>1, <4>2, RoundedFacts
    <3> HIDE DEF t, x, q
    <3>3. x \div t \in Nat /\ t * (x \div t) <= x /\ x < t * (x \div t) + t
      BY <1>3, <3>1, Divide
    <3> QED BY <2>2, <3>1, <3>2, <3>3
  <2> QED BY <2>1, <2>2
<1> DEFINE F == ForceUpdate(rewarder)  U == Update(rewarder)
<1>6. /\ F \in Rewarders(time) /\ F.lastRewardTime = time
      /\ F.accRewardPerShare = rewarder.accRewardPerShare + q
      /\ F.rewardRate = rewarder.rewardRate
      /\ F.rewardRateExpiredAt = rewarder.rewardRateExpiredAt
      /\ F.userRewardDebts = rewarder.userRewardDebts /\ F.balance = rewarder.balance
  BY <1>1, <1>5, AfterForceUpdate
<1>7. U = IF t = 0 THEN rewarder ELSE F
  <2>1. U = IF time > rewarder.lastRewardTime /\ t > 0 THEN F ELSE rewarder  BY DEF Update
  <2>2. rewarder.lastRewardTime \in Nat /\ rewarder.lastRewardTime <= time
    BY <1>1 DEF Rewarders
  <2>3. ASSUME rewarder.lastRewardTime = time, t # 0 PROVE F = rewarder
    <3>1. TimePast(rewarder) = 0  BY <1>1, <2>3, TimeFacts
    <3>2. x = 0
      <4>1. x = Precision * (rewarder.rewardRate * TimePast(rewarder)) /\ Precision \in Nat
        BY <1>1, TimeFacts, RoundedFacts
      <4> HIDE DEF x
      <4> QED BY <1>3, <3>1, <4>1
    <3>3. q = 0
      <4>1. t * q <= 0  BY <1>5, <2>3, <3>2
      <4>2. t * 0 = 0 /\ t \in Nat \ {0}  BY <1>2, <2>3
      <4> HIDE DEF t, q
      <4>3. q <= 0  BY <1>5, <4>1, <4>2, MultiplyLeqConverse
      <4> QED BY <1>5, <4>3
    <3> QED BY <1>1, <1>5, <2>3, <3>3, AfterForceUpdate
  <2> HIDE DEF F, U, t
  <2> QED BY <1>1, <1>2, <2>1, <2>2, <2>3
<1>8. t # 0 => Streamed(U) = 0
  <2> SUFFICES ASSUME t # 0 PROVE Streamed(U) = 0  OBVIOUS
  <2>1. U = F  BY <1>7
  <2>2. TimePast(F) = 0 /\ Streamed(F) = Precision * (F.rewardRate * TimePast(F))
    BY <1>1, <1>6, TimeFacts
  <2>3. F.rewardRate \in Nat /\ Precision \in Nat  BY <1>3, <1>6, RoundedFacts
  <2> HIDE DEF F, U
  <2> QED BY <2>1, <2>2, <2>3
<1>9. /\ U \in Rewarders(time) /\ U.userRewardDebts = rewarder.userRewardDebts
      /\ U.balance = rewarder.balance /\ U.rewardRate = rewarder.rewardRate
  <2>1. U = rewarder \/ U = F  BY <1>7
  <2> HIDE DEF U, F
  <2> QED BY <1>1, <1>6, <2>1
<1> HIDE DEF x, t, q, F, U
<1> QED BY <1>5, <1>6, <1>7, <1>8, <1>9 DEF x, t, q, F, U

\* An update promises no more than what was ahead.
LEMMA UpdateSolvent ==
    ASSUME StakingTypes, SharesAddUp, NEW given \in Int,
           SolventAs(rewarder, TotalShare, given)
    PROVE  /\ SolventAs(ForceUpdate(rewarder), TotalShare, given)
           /\ SolventAs(Update(rewarder), TotalShare, given)
<1> DEFINE F == ForceUpdate(rewarder)
           t == TotalShare  q == RewardPerShare(rewarder)
           a == rewarder.accRewardPerShare  n == rewarder.rewardRate
           b == Ahead(rewarder)  p == TimePast(rewarder)
           sum == rewarder.balance + given + SumFunction(rewarder.userRewardDebts)
<1>1. time \in Nat /\ rewarder \in Rewarders(time)  BY DEF StakingTypes
<1>2. /\ t \in Nat /\ q \in Nat /\ F \in Rewarders(time) /\ F.lastRewardTime = time
      /\ F.accRewardPerShare = a + q /\ F.rewardRate = n
      /\ F.rewardRateExpiredAt = rewarder.rewardRateExpiredAt
      /\ F.userRewardDebts = rewarder.userRewardDebts /\ F.balance = rewarder.balance
  BY ShareFacts, UpdateFacts
<1>3. a \in Nat /\ n \in Nat /\ b \in Nat /\ p \in Nat /\ Precision \in Nat
  BY <1>1, TimeFacts, RoundedFacts DEF Rewarders
<1>4. Ahead(F) = b - p /\ b - p \in Nat
  <2>1. Ahead(F) = Max({rewarder.rewardRateExpiredAt - time, 0})  BY <1>2 DEF Ahead
  <2> QED BY <1>1, <2>1, TimeFacts
<1>5. t * q <= Precision * (n * p)
  <2>1. CASE t = 0  BY <1>2, <1>3, <2>1, MultiplyNat
  <2>2. CASE t # 0
    <3>1. t * q <= Streamed(rewarder)  BY <2>2, UpdateFacts
    <3>2. Streamed(rewarder) = Precision * (n * p)  BY <1>1, TimeFacts
    <3> QED BY <3>1, <3>2
  <2> QED BY <2>1, <2>2
<1>6. t * a + Precision * (n * b) <= Precision * sum  BY DEF SolventAs
<1>7. SolventAs(F, t, given) <=> t * (a + q) + Precision * (n * (b - p)) <= Precision * sum
  BY <1>2, <1>4 DEF SolventAs
<1>8. t * (a + q) + Precision * (n * (b - p)) <= Precision * sum
  <2>0. sum \in Int
    <3>1. rewarder.userRewardDebts \in [Users -> Int] /\ IsFiniteSet(Users) /\ rewarder.balance \in Nat
      BY <1>1, StakingAssumption DEF Rewarders
    <3>2. SumFunction(rewarder.userRewardDebts) \in Int  BY <3>1, SumFunctionInt
    <3> QED BY <3>1, <3>2
  <2> HIDE DEF t, q, a, n, b, p, sum
  <2>1. t * (a + q) = t * a + t * q  BY <1>2, <1>3, MultiplyOver
  <2>2. n * (b - p) = n * b - n * p /\ n * b \in Int /\ n * p \in Int  BY <1>3, MultiplyOver
  <2> DEFINE nb == n * b  np == n * p
  <2> HIDE DEF nb, np
  <2>3. Precision * (nb - np) = Precision * nb - Precision * np
    BY <1>3, <2>2, MultiplyOver DEF nb, np
  <2>4. /\ t * a \in Int /\ t * q \in Int /\ Precision * nb \in Int /\ Precision * np \in Int
        /\ Precision * sum \in Int
    BY <1>2, <1>3, <2>0, <2>2 DEF nb, np
  <2>5. t * a + Precision * nb <= Precision * sum /\ t * q <= Precision * np
    BY <1>5, <1>6 DEF nb, np
  <2>6. t * a + t * q + (Precision * nb - Precision * np) <= Precision * sum  BY <2>4, <2>5
  <2> QED BY <2>1, <2>2, <2>3, <2>6 DEF nb, np
<1>9. SolventAs(F, TotalShare, given)  BY <1>7, <1>8
<1>10. Update(rewarder) = rewarder \/ Update(rewarder) = F  BY UpdateFacts
<1> QED BY <1>9, <1>10

\* An update gives every account its part of what was streamed.
LEMMA UpdateAccounted ==
    ASSUME StakingTypes, SharesAddUp, Accounted, NEW u \in Users
    PROVE  /\ Least(rewarder, u) \in Int /\ Most(u) \in Int
           /\ \A r \in {ForceUpdate(rewarder), Update(rewarder)} :
                 /\ Has(r, u) \in Int /\ Least(r, u) \in Int
                 /\ Least(r, u) <= Has(r, u) /\ Has(r, u) <= Most(u)
<1> DEFINE F == ForceUpdate(rewarder)
           t == TotalShare  s == UserShare(u)  q == RewardPerShare(rewarder)
           a == rewarder.accRewardPerShare  l == rewarder.lastRewardTime
           x == Streamed(rewarder)
           has == Has(rewarder, u)  least == Least(rewarder, u)  most == Most(u)
<1>1. time \in Nat /\ rewarder \in Rewarders(time)  BY DEF StakingTypes
<1>2. /\ t \in Nat /\ q \in Nat /\ s \in Nat /\ s <= MaxShares /\ s <= t
      /\ MaxShares \in Nat /\ Rounded \in {0, 1} /\ Precision \in Nat /\ x \in Nat
      /\ a \in Nat /\ l \in Nat /\ l <= time
      /\ F.lastRewardTime = time /\ F.accRewardPerShare = a + q
      /\ F.userRewardDebts = rewarder.userRewardDebts
  <2>1. t \in Nat /\ s \in Nat /\ t <= MaxShares /\ s <= t  BY ShareFacts
  <2>2. /\ q \in Nat /\ F.lastRewardTime = time /\ F.accRewardPerShare = a + q
        /\ F.userRewardDebts = rewarder.userRewardDebts
    BY UpdateFacts
  <2>3. MaxShares \in Nat /\ Rounded \in {0, 1} /\ Precision \in Nat  BY RoundedFacts
  <2>4. x \in Nat  BY <1>1, TimeFacts
  <2>5. a \in Nat /\ l \in Nat /\ l <= time  BY <1>1 DEF Rewarders
  <2> HIDE DEF F, t, s, q, a, l, x
  <2> QED BY <2>1, <2>2, <2>3, <2>4, <2>5
<1> DEFINE d == rewarder.userRewardDebts[u]
           base == Precision * received[u] - Precision * d
           low == earned[u] - Precision * withdrawals[u]
<1>3. d \in Int /\ received[u] \in Nat /\ earned[u] \in Nat /\ withdrawals[u] \in Nat
      /\ deposits[u] \in Nat
  BY <1>1 DEF StakingTypes, Rewarders
<1>4. base \in Int /\ low \in Int
  <2> HIDE DEF d
  <2> QED BY <1>2, <1>3
<1>5. s * a \in Int /\ s * q \in Int /\ s * (a + q) = s * a + s * q  BY <1>2, MultiplyOver
<1>6. has = base + s * a /\ Has(F, u) = base + s * (a + q) /\ has \in Int
  <2> DEFINE i == Precision * received[u]  j == Precision * d
  <2>1. i \in Int /\ j \in Int  BY <1>2, <1>3
  <2>2. has = i + s * a - j /\ Has(F, u) = i + s * (a + q) - j  BY <1>2 DEF Has
  <2>3. base = i - j  OBVIOUS
  <2> HIDE DEF i, j, base, has, F, s, a, q
  <2> QED BY <1>5, <2>1, <2>2, <2>3
<1>7. least = low - Rounded * (MaxShares * l) /\ Least(F, u) = low - Rounded * (MaxShares * time)
  BY <1>2 DEF Least
<1>8. Rounded * (MaxShares * l) \in Int /\ Rounded * (MaxShares * time) \in Int
      /\ MaxShares * l \in Nat /\ MaxShares * time \in Nat
  BY <1>1, <1>2
<1>9. most \in Int
  <2>1. Precision * deposits[u] \in Int /\ Rounded * time \in Int  BY <1>1, <1>2, <1>3
  <2> QED BY <1>3, <2>1 DEF Most
<1>10. least \in Int /\ Least(F, u) \in Int  BY <1>4, <1>7, <1>8
<1>11. Between(t, s, has, x, least, most)  BY DEF Accounted
<1>12. Least(F, u) <= least
  <2>1. MaxShares * l <= MaxShares * time  BY <1>1, <1>2, MultiplyLeq
  <2>2. Rounded * (MaxShares * l) <= Rounded * (MaxShares * time)  BY <1>2, <1>8, <2>1, MultiplyLeq
  <2> QED BY <1>4, <1>7, <1>8, <2>2
<1>13. CASE t = 0
  <2>1. least <= has /\ has <= most  BY <1>11, <1>13 DEF Between
  <2>2. Update(rewarder) = rewarder /\ q = 0  BY <1>13, UpdateFacts
  <2>3. Has(F, u) = has  BY <1>2, <1>6, <2>2
  <2>4. Has(F, u) \in Int /\ Least(F, u) <= Has(F, u) /\ Has(F, u) <= most
    <3> HIDE DEF F, has, least, most
    <3> QED BY <1>6, <1>9, <1>10, <1>12, <2>1, <2>3
  <2> HIDE DEF F
  <2> QED BY <1>6, <1>9, <1>10, <2>1, <2>2, <2>4 DEF F
<1>14. CASE t # 0
  <2>1. Update(rewarder) = F  BY <1>14, UpdateFacts
  <2>2. t * q <= x /\ x < t * q + t /\ (Rounded = 0 => t * q = x) /\ t \in Nat \ {0}
    BY <1>2, <1>14, UpdateFacts
  <2>3. least - Rounded * s <= has + s * q /\ has + s * q <= most
    <3> HIDE DEF t, s, has, x, least, most, q
    <3> QED BY <1>2, <1>6, <1>9, <1>10, <1>11, <2>2, BetweenUpdated
  <2>4. Has(F, u) = has + s * q /\ Has(F, u) \in Int  BY <1>4, <1>5, <1>6
  <2>5. ASSUME l < time PROVE Least(F, u) <= least - Rounded * s
    <3>1. MaxShares * (l + 1) <= MaxShares * time /\ MaxShares * (l + 1) = MaxShares * l + MaxShares
      BY <1>1, <1>2, <2>5, MultiplyLeq
    <3>2. MaxShares * l + s <= MaxShares * time
      <4> HIDE DEF s, l
      <4> QED BY <1>2, <1>8, <3>1
    <3> DEFINE i == MaxShares * l  j == MaxShares * time
    <3>3. i \in Nat /\ j \in Nat /\ i + s <= j /\ i + s \in Int  BY <1>2, <1>8, <3>2
    <3> HIDE DEF i, j
    <3>4. Rounded * (i + s) <= Rounded * j  BY <1>2, <3>3, MultiplyLeq
    <3>5. Rounded * (i + s) = Rounded * i + Rounded * s  BY <1>2, <3>3, MultiplyOver
    <3>6. Rounded * i \in Int /\ Rounded * s \in Int /\ Rounded * j \in Int  BY <1>2, <3>3
    <3>7. Rounded * i + Rounded * s <= Rounded * j  BY <3>4, <3>5
    <3>8. least = low - Rounded * i /\ Least(F, u) = low - Rounded * j  BY <1>7 DEF i, j
    <3> HIDE DEF least, low, F, s
    <3> QED BY <1>4, <3>6, <3>7, <3>8
  <2>6. Least(F, u) <= Has(F, u)
    <3>1. CASE l < time
      <4>1. Rounded * s \in Int  BY <1>2
      <4> HIDE DEF F, has, least, s
      <4> QED BY <1>10, <2>3, <2>4, <2>5, <3>1, <4>1
    <3>2. CASE l = time
      <4>1. TimePast(rewarder) = 0 /\ x = Precision * (rewarder.rewardRate * TimePast(rewarder))
            /\ rewarder.rewardRate \in Nat
        BY <1>1, <3>2, TimeFacts DEF Rewarders
      <4>2. x = 0
        <5> HIDE DEF x
        <5> QED BY <1>2, <4>1
      <4>3. t * least <= t * has
        <5>1. t * least <= t * has + s * x /\ s * x = 0 /\ t * has \in Int
          BY <1>2, <1>6, <1>11, <1>14, <4>2 DEF Between
        <5> QED BY <5>1
      <4>4. least <= has
        <5> HIDE DEF least, has, t
        <5> QED BY <1>6, <1>10, <2>2, <4>3, MultiplyLeqConverse
      <4>5. s * q \in Nat  BY <1>2, MultiplyNat
      <4> HIDE DEF F, has, least, s, q
      <4> QED BY <1>6, <1>10, <1>12, <2>4, <4>4, <4>5
    <3> QED BY <1>1, <1>2, <3>1, <3>2
  <2> HIDE DEF F
  <2> QED BY <1>9, <1>10, <2>1, <2>3, <2>4, <2>6 DEF F
<1> QED BY <1>13, <1>14

-----------------------------------------------------------------------------
\* The steps of the rewarder.

LEMMA StakingInitInv == Init => StakingInv
<1> SUFFICES ASSUME Init PROVE StakingInv  OBVIOUS
<1>0. /\ IsFiniteSet(Users) /\ IsFiniteSet(Markets) /\ MaxShares \in Nat /\ Precision \in Nat
      /\ Rounded \in {0, 1}
  BY StakingAssumption, RoundedFacts
<1>1. StakingTypes
  <2>1. rewarder \in Rewarders(time)  BY DEF Init, Rewarders
  <2> QED BY <2>1 DEF Init, StakingTypes
<1>2. SharesAddUp
  <2>1. ASSUME NEW m \in Markets PROVE totalShares[m] = SumFunction(userTokenAmount[m])
    <3> DEFINE f == userTokenAmount[m]
    <3>1. f \in [Users -> Int] /\ \A u \in Users : f[u] = 0  BY DEF Init
    <3> HIDE DEF f
    <3>2. SumFunction(f) = 0  BY <1>0, <3>1, SumFunctionZero
    <3> QED BY <3>2 DEF f, Init
  <2>2. totalShares \in [Markets -> Int] /\ \A m \in Markets : totalShares[m] = 0  BY DEF Init
  <2>3. SumFunction(totalShares) = 0  BY <1>0, <2>2, SumFunctionZero
  <2> QED BY <1>0, <2>1, <2>3 DEF SharesAddUp
<1>3. TotalShare = 0
  <2> DEFINE f == [m \in rewarderMarkets |-> totalShares[m]]
  <2>1. f \in [{} -> Int] /\ \A m \in {} : f[m] = 0  BY DEF Init
  <2>2. IsFiniteSet({})  BY FS_EmptySet
  <2> HIDE DEF f
  <2>3. SumFunction(f) = 0  BY <2>1, <2>2, SumFunctionZero
  <2> QED BY <2>3 DEF f, TotalShare
<1>4. /\ rewarder.accRewardPerShare = 0 /\ rewarder.rewardRate = 0 /\ rewarder.balance = 0
      /\ rewarder.lastRewardTime = 0 /\ rewarder.rewardRateExpiredAt = 0
      /\ rewarder.userRewardDebts = [u \in Users |-> 0] /\ time = 0 /\ idle = 0
      /\ deposits = [u \in Users |-> 0]
  BY DEF Init
<1>5. SumFunction(deposits) = 0 /\ SumFunction(rewarder.userRewardDebts) = 0
  <2> DEFINE f == [u \in Users |-> 0]
  <2>1. f \in [Users -> Int] /\ \A u \in Users : f[u] = 0  OBVIOUS
  <2> HIDE DEF f
  <2>2. SumFunction(f) = 0  BY <1>0, <2>1, SumFunctionZero
  <2> QED BY <1>4, <2>2 DEF f
<1>6. Ahead(rewarder) = 0
  <2>1. Max({0, 0}) = 0  BY MaxZero
  <2> QED BY <1>4, <2>1 DEF Ahead
<1>7. Solvent  BY <1>0, <1>3, <1>4, <1>5, <1>6 DEF Solvent, SolventAs
<1>8. Streamed(rewarder) = 0
  <2>1. TimePast(rewarder) = 0  BY <1>1, <1>4, TimeFacts DEF StakingTypes
  <2> QED BY <1>0, <1>4, <2>1 DEF Streamed
<1>9. Accounted
  <2> SUFFICES ASSUME NEW u \in Users
               PROVE  Least(rewarder, u) <= Has(rewarder, u) /\ Has(rewarder, u) <= Most(u)
    BY <1>3 DEF Accounted, Between
  <2>1. /\ received[u] = 0 /\ earned[u] = 0 /\ withdrawals[u] = 0 /\ deposits[u] = 0
        /\ rewarder.userRewardDebts[u] = 0 /\ UserShare(u) \in Nat
    BY <1>1, <1>2, ShareFacts DEF Init
  <2>2. Has(rewarder, u) = 0  BY <1>0, <1>4, <2>1 DEF Has
  <2>3. Least(rewarder, u) = 0 /\ Most(u) = 0  BY <1>0, <1>4, <2>1 DEF Least, Most
  <2> QED BY <2>2, <2>3
<1>10. IdleStreamed  BY <1>4, <1>8 DEF IdleStreamed
<1> QED BY <1>1, <1>2, <1>7, <1>9, <1>10 DEF StakingInv

\* Nothing changes that the accounts depend on.
LEMMA SameAccounts ==
    ASSUME StakingInv, StakingTypes', SharesAddUp', undisturbed' => undisturbed,
           UNCHANGED <<time, rewarder, earned, received, idle, deposits, withdrawals>>,
           TotalShare' = TotalShare, \A u \in Users : UserShare(u)' = UserShare(u)
    PROVE  StakingInv'
<1> SUFFICES ASSUME undisturbed' PROVE Solvent' /\ Accounted' /\ IdleStreamed'
  BY DEF StakingInv
<1>1. Solvent /\ Accounted /\ IdleStreamed  BY DEF StakingInv
<1>2. Solvent'  BY <1>1 DEF Solvent, SolventAs, Ahead
<1>3. Streamed(rewarder)' = Streamed(rewarder)  BY DEF Streamed, TimePast
<1>4. Accounted'
  <2> SUFFICES ASSUME NEW u \in Users
               PROVE  Between(TotalShare, UserShare(u), Has(rewarder, u), Streamed(rewarder),
                              Least(rewarder, u), Most(u))'
    BY DEF Accounted
  <2>1. UserShare(u)' = UserShare(u)  OBVIOUS
  <2>2. /\ Has(rewarder, u)' = Has(rewarder, u) /\ Least(rewarder, u)' = Least(rewarder, u)
        /\ Most(u)' = Most(u)
    BY <2>1 DEF Has, Least, Most
  <2> QED BY <1>1, <1>3, <2>1, <2>2 DEF Accounted, Between
<1>5. IdleStreamed'  BY <1>1, <1>3 DEF IdleStreamed
<1> QED BY <1>2, <1>4, <1>5

\* The rewarder r with another debt of u and another balance.
WithDebt(r, u, debt, held) ==
    [lastRewardTime |-> r.lastRewardTime, accRewardPerShare |-> r.accRewardPerShare,
     rewardRate |-> r.rewardRate, rewardRateExpiredAt |-> r.rewardRateExpiredAt,
     userRewardDebts |-> [r.userRewardDebts EXCEPT ![u] = debt], balance |-> held]

LEMMA WithDebtFacts ==
    ASSUME NEW t \in Nat, NEW r \in Rewarders(t), NEW u \in Users, NEW debt \in Int, NEW held \in Nat,
           NEW f, f = WithDebt(r, u, debt, held)
    PROVE  /\ f \in Rewarders(t) /\ f.lastRewardTime = r.lastRewardTime
           /\ f.accRewardPerShare = r.accRewardPerShare /\ f.rewardRate = r.rewardRate
           /\ f.rewardRateExpiredAt = r.rewardRateExpiredAt /\ f.balance = held
           /\ f.userRewardDebts[u] = debt
           /\ \A v \in Users : v # u => f.userRewardDebts[v] = r.userRewardDebts[v]
           /\ SumFunction(f.userRewardDebts)
                = SumFunction(r.userRewardDebts) + debt - r.userRewardDebts[u]
<1> DEFINE d == r.userRewardDebts  e == f.userRewardDebts
<1>1. /\ r.accRewardPerShare \in Nat /\ r.rewardRate \in Nat /\ r.rewardRateExpiredAt \in Nat
      /\ d \in [Users -> Int] /\ r.lastRewardTime \in 0 .. t
  BY DEF Rewarders
<1>2. e = [d EXCEPT ![u] = debt]  BY DEF WithDebt
<1>3. /\ f.lastRewardTime = r.lastRewardTime
      /\ f.accRewardPerShare = r.accRewardPerShare /\ f.rewardRate = r.rewardRate
      /\ f.rewardRateExpiredAt = r.rewardRateExpiredAt /\ f.balance = held
  BY DEF WithDebt
<1>4. e \in [Users -> Int] /\ e[u] = debt /\ \A v \in Users : v # u => e[v] = d[v]
  <2> HIDE DEF d, e
  <2> QED BY <1>1, <1>2
<1>5. f \in Rewarders(t)
  <2>1. f = [lastRewardTime |-> r.lastRewardTime, accRewardPerShare |-> r.accRewardPerShare,
             rewardRate |-> r.rewardRate, rewardRateExpiredAt |-> r.rewardRateExpiredAt,
             userRewardDebts |-> e, balance |-> held]
    BY <1>2 DEF WithDebt
  <2> HIDE DEF d, e
  <2> QED BY <1>1, <1>4, <2>1 DEF Rewarders
<1>6. SumFunction(e) = SumFunction(d) + debt - d[u]
  <2>1. IsFiniteSet(Users)  BY StakingAssumption
  <2> HIDE DEF d, e
  <2>2. SumFunction(d) \in Int  BY <1>1, <2>1, SumFunctionInt
  <2>3. SumFunction(e) = SumFunction(d) + e[u] - d[u]
    BY <1>1, <1>4, <2>1, <2>2, SumFunctionChange
  <2> QED BY <1>4, <2>3
<1> QED BY <1>3, <1>4, <1>5, <1>6

\* The rewarder brought up to date, with another debt of u and another balance.
LEMMA DebtFields ==
    ASSUME StakingTypes, SharesAddUp, NEW u \in Users, NEW more \in Int, NEW held \in Nat,
           rewarder' = WithDebt(Update(rewarder), u, rewarder.userRewardDebts[u] + more, held)
    PROVE  LET r == Update(rewarder)
               d == rewarder.userRewardDebts
               next == rewarder'
           IN  /\ time \in Nat /\ r \in Rewarders(time) /\ r.userRewardDebts = d
               /\ r.balance = rewarder.balance
               /\ d \in [Users -> Int] /\ rewarder.balance \in Nat
               /\ r.accRewardPerShare \in Nat /\ r.rewardRate \in Nat
               /\ next \in Rewarders(time) /\ next.lastRewardTime = r.lastRewardTime
               /\ next.accRewardPerShare = r.accRewardPerShare /\ next.rewardRate = r.rewardRate
               /\ next.rewardRateExpiredAt = r.rewardRateExpiredAt /\ next.balance = held
               /\ next.userRewardDebts[u] = d[u] + more
               /\ \A v \in Users : v # u => next.userRewardDebts[v] = d[v]
               /\ SumFunction(next.userRewardDebts) = SumFunction(d) + (d[u] + more) - d[u]
               /\ Ahead(next) = Ahead(r) /\ Ahead(r) \in Nat /\ Streamed(r) \in Nat
<1> DEFINE r == Update(rewarder)
           d == rewarder.userRewardDebts  a == r.accRewardPerShare  next == rewarder'
<1>1. /\ time \in Nat /\ r \in Rewarders(time) /\ r.userRewardDebts = d /\ r.balance = rewarder.balance
      /\ (TotalShare # 0 => Streamed(r) = 0) /\ (TotalShare = 0 => r = rewarder)
  BY UpdateFacts DEF StakingTypes
<1>2. d \in [Users -> Int] /\ a \in Nat /\ d[u] + more \in Int /\ rewarder.balance \in Nat
      /\ r.rewardRate \in Nat
  <2>1. rewarder \in Rewarders(time)  BY DEF StakingTypes
  <2>2. d \in [Users -> Int] /\ rewarder.balance \in Nat  BY <2>1 DEF Rewarders
  <2> HIDE DEF d
  <2> QED BY <1>1, <2>2 DEF Rewarders
<1>3. /\ next \in Rewarders(time) /\ next.lastRewardTime = r.lastRewardTime
      /\ next.accRewardPerShare = a /\ next.rewardRate = r.rewardRate
      /\ next.rewardRateExpiredAt = r.rewardRateExpiredAt /\ next.balance = held
      /\ next.userRewardDebts[u] = d[u] + more
      /\ \A v \in Users : v # u => next.userRewardDebts[v] = d[v]
      /\ SumFunction(next.userRewardDebts) = SumFunction(d) + (d[u] + more) - d[u]
  <2> DEFINE debt == d[u] + more
  <2>1. debt \in Int /\ next = WithDebt(r, u, debt, held)  BY <1>2
  <2> HIDE DEF debt, next, a
  <2>2. /\ next \in Rewarders(time) /\ next.lastRewardTime = r.lastRewardTime
        /\ next.accRewardPerShare = r.accRewardPerShare /\ next.rewardRate = r.rewardRate
        /\ next.rewardRateExpiredAt = r.rewardRateExpiredAt /\ next.balance = held
        /\ next.userRewardDebts[u] = debt
        /\ \A v \in Users : v # u => next.userRewardDebts[v] = r.userRewardDebts[v]
        /\ SumFunction(next.userRewardDebts)
             = SumFunction(r.userRewardDebts) + debt - r.userRewardDebts[u]
    BY <1>1, <2>1, WithDebtFacts
  <2> QED BY <1>1, <2>2 DEF debt, a
<1>4. Ahead(next) = Ahead(r) /\ Streamed(r) \in Nat /\ Ahead(r) \in Nat
  <2>1. Ahead(next) = Ahead(r)  BY <1>3 DEF Ahead
  <2> QED BY <1>1, <2>1, TimeFacts
<1> HIDE DEF next
<1> QED BY <1>1, <1>2, <1>3, <1>4 DEF next

\* What an account has when its shares and debt change.
LEMMA DebtChanged ==
    ASSUME StakingTypes, SharesAddUp, NEW u \in Users,
           NEW change \in Int, NEW more \in Int, NEW got \in Int, NEW held \in Nat,
           time' = time,
           rewarder' = WithDebt(Update(rewarder), u, rewarder.userRewardDebts[u] + more, held),
           \A v \in Users : received'[v] = received[v] + (IF v = u THEN got ELSE 0),
           \A v \in Users : UserShare(v)' = UserShare(v) + (IF v = u THEN change ELSE 0)
    PROVE  /\ Streamed(rewarder)' = Streamed(Update(rewarder))
           /\ \A v \in Users :
                 Has(rewarder, v)' = Has(Update(rewarder), v)
                    + (IF v = u
                       THEN change * Update(rewarder).accRewardPerShare + Precision * got - Precision * more
                       ELSE 0)
<1> DEFINE r == Update(rewarder)
           d == rewarder.userRewardDebts  a == r.accRewardPerShare  next == rewarder'
<1>1. /\ r.userRewardDebts = d /\ d \in [Users -> Int] /\ a \in Nat
      /\ next.accRewardPerShare = a /\ next.userRewardDebts[u] = d[u] + more
      /\ \A v \in Users : v # u => next.userRewardDebts[v] = d[v]
      /\ next.lastRewardTime = r.lastRewardTime /\ next.rewardRate = r.rewardRate
      /\ next.rewardRateExpiredAt = r.rewardRateExpiredAt
  BY DebtFields
<1>2. Streamed(rewarder)' = Streamed(r)  BY <1>1 DEF Streamed, TimePast
<1>3. ASSUME NEW v \in Users
      PROVE  Has(rewarder, v)' = Has(r, v) + (IF v = u THEN change * a + Precision * got - Precision * more ELSE 0)
  <2> DEFINE s == UserShare(v)  w == received[v]
  <2>1. s \in Nat /\ w \in Nat /\ Precision \in Nat /\ d[v] \in Int /\ d[u] \in Int
    BY <1>1, ShareFacts, RoundedFacts DEF StakingTypes
  <2>2. Has(rewarder, v)' = Precision * received'[v] + UserShare(v)' * a - Precision * next.userRewardDebts[v]
    BY <1>1 DEF Has
  <2>3. Has(r, v) = Precision * w + s * a - Precision * d[v]  BY <1>1 DEF Has
  <2>4. Precision * w \in Int /\ s * a \in Int /\ Precision * d[v] \in Int  BY <1>1, <2>1
  <2>5. CASE v # u
    <3>1. received'[v] = w /\ UserShare(v)' = s /\ next.userRewardDebts[v] = d[v]
      BY <1>1, <2>1, <2>5
    <3>2. Has(rewarder, v)' = Precision * w + s * a - Precision * d[v]  BY <2>2, <3>1
    <3> HIDE DEF s, w, a, d, next
    <3> QED BY <2>3, <2>4, <2>5, <3>2
  <2>6. CASE v = u
    <3>1. received'[v] = w + got /\ UserShare(v)' = s + change /\ next.userRewardDebts[v] = d[v] + more
      BY <1>1, <2>6
    <3>2. Has(rewarder, v)' = Precision * (w + got) + (s + change) * a - Precision * (d[v] + more)
      BY <2>2, <3>1
    <3> DEFINE e == d[v]
    <3> HIDE DEF s, w, a, d, next, e
    <3>3. e \in Int  BY <2>1 DEF e
    <3>4. /\ Precision * (w + got) = Precision * w + Precision * got
          /\ (s + change) * a = s * a + change * a
          /\ Precision * (e + more) = Precision * e + Precision * more
          /\ Precision * w \in Int /\ Precision * got \in Int /\ s * a \in Int /\ change * a \in Int
          /\ Precision * e \in Int /\ Precision * more \in Int
      <4>1. a \in Int /\ Precision \in Int  BY <1>1, <2>1
      <4> QED BY <2>1, <3>3, <4>1
    <3>5. /\ Has(rewarder, v)' = Precision * (w + got) + (s + change) * a - Precision * (e + more)
          /\ Has(r, v) = Precision * w + s * a - Precision * e
      BY <2>3, <3>2 DEF e
    <3>6. Has(rewarder, v)' = Has(r, v) + (change * a + Precision * got - Precision * more)
      BY <3>4, <3>5
    <3> QED BY <2>6, <3>6
  <2> QED BY <2>5, <2>6
<1> HIDE DEF next
<1> QED BY <1>2, <1>3

\* What the rewarder owes when shares and a debt change.
LEMMA DebtSolvent ==
    ASSUME StakingTypes, SharesAddUp, NEW u \in Users,
           NEW change \in Int, NEW more \in Int, NEW held \in Nat,
           rewarder' = WithDebt(Update(rewarder), u, rewarder.userRewardDebts[u] + more, held),
           TotalShare' = TotalShare + change, NEW given \in Int, NEW given1 \in Int,
           SolventAs(rewarder, TotalShare, given),
           change * Update(rewarder).accRewardPerShare
                <= Precision * (held - rewarder.balance + given1 - given + more)
    PROVE  SolventAs(rewarder', TotalShare', given1)
<1> DEFINE r == Update(rewarder)
           d == rewarder.userRewardDebts  a == r.accRewardPerShare  next == rewarder'
<1>1. /\ r.userRewardDebts = d /\ r.balance = rewarder.balance /\ d \in [Users -> Int]
      /\ rewarder.balance \in Nat /\ a \in Nat /\ r.rewardRate \in Nat
      /\ next.accRewardPerShare = a /\ next.rewardRate = r.rewardRate /\ next.balance = held
      /\ SumFunction(next.userRewardDebts) = SumFunction(d) + (d[u] + more) - d[u]
      /\ Ahead(next) = Ahead(r) /\ Ahead(r) \in Nat
  BY DebtFields
<1> DEFINE t == TotalShare  b == rewarder.balance  sum == SumFunction(d)
           flow == Precision * (r.rewardRate * Ahead(r))
<1>2. t \in Nat /\ Precision \in Nat /\ IsFiniteSet(Users)  BY ShareFacts, RoundedFacts
<1>3. sum \in Int
  <2> HIDE DEF d
  <2> QED BY <1>1, <1>2, SumFunctionInt
<1>4. SolventAs(r, t, given)  BY UpdateSolvent
<1>5. t * a + flow <= Precision * (b + given + sum)
  BY <1>1, <1>4 DEF SolventAs
<1>6. flow \in Int  BY <1>1, <1>2, MultiplyNat
<1>7. SolventAs(next, TotalShare', given1)
        <=> (t + change) * a + flow <= Precision * (held + given1 + SumFunction(next.userRewardDebts))
  BY <1>1 DEF SolventAs
<1>8. SumFunction(next.userRewardDebts) = sum + more
  <2>1. d[u] \in Int  BY <1>1
  <2> HIDE DEF sum, d, next
  <2> QED BY <1>1, <1>3, <2>1 DEF sum
<1> HIDE DEF t, b, sum, flow, a, next
<1> DEFINE j == b + given + sum  k == held - b + given1 - given + more
<1>9. j \in Int /\ k \in Int /\ b \in Int /\ held + given1 + (sum + more) = j + k
  BY <1>1, <1>3 DEF b
<1>10. change * a <= Precision * k /\ t * a + flow <= Precision * j  BY <1>5 DEF b, a
<1> HIDE DEF j, k
<1>11. a \in Int  BY <1>1 DEF a
<1>12. (t + change) * a = t * a + change * a /\ Precision * (j + k) = Precision * j + Precision * k
  BY <1>2, <1>9, <1>11
<1>13. t * a \in Int /\ change * a \in Int /\ Precision * j \in Int /\ Precision * k \in Int
  BY <1>2, <1>9, <1>11
<1>14. (t + change) * a + flow <= Precision * (j + k)  BY <1>6, <1>10, <1>12, <1>13
<1>15. SolventAs(next, TotalShare', given1)  BY <1>7, <1>8, <1>9, <1>14
<1> QED BY <1>15 DEF next

\* The debts of the operations.
LEMMA DebtsAre ==
    ASSUME NEW t \in Nat, NEW r \in Rewarders(t), NEW u \in Users, NEW k \in Int
    PROVE  /\ [r EXCEPT !.userRewardDebts[u] = @ + k]
                = WithDebt(r, u, r.userRewardDebts[u] + k, r.balance)
           /\ [r EXCEPT !.userRewardDebts[u] = @ - k]
                = WithDebt(r, u, r.userRewardDebts[u] - k, r.balance)
<1> DEFINE a == r.accRewardPerShare  n == r.rewardRate  c == r.rewardRateExpiredAt
           d == r.userRewardDebts  e == r.balance  l == r.lastRewardTime
<1>1. d \in [Users -> Int]  BY DEF Rewarders
<1>2. r = [lastRewardTime |-> l, accRewardPerShare |-> a, rewardRate |-> n,
           rewardRateExpiredAt |-> c, userRewardDebts |-> d, balance |-> e]
  BY DEF Rewarders
<1>3. \A debt, held : WithDebt(r, u, debt, held)
         = [lastRewardTime |-> l, accRewardPerShare |-> a, rewardRate |-> n,
            rewardRateExpiredAt |-> c, userRewardDebts |-> [d EXCEPT ![u] = debt], balance |-> held]
  BY DEF WithDebt
<1> HIDE DEF a, n, c, d, e, l
<1>4. [r EXCEPT !.userRewardDebts[u] = @ + k] = WithDebt(r, u, d[u] + k, e)
  BY <1>1, <1>2, <1>3
<1>5. [r EXCEPT !.userRewardDebts[u] = @ - k] = WithDebt(r, u, d[u] - k, e)
  BY <1>1, <1>2, <1>3
<1> QED BY <1>4, <1>5 DEF d, e

\* The reward of some shares, rounded down.
LEMMA RewardsFacts ==
    ASSUME NEW t \in Nat, NEW r \in Rewarders(t), NEW n \in Nat
    PROVE  /\ Rewards(r, n) \in Nat /\ n * r.accRewardPerShare \in Nat
           /\ Precision * Rewards(r, n) <= n * r.accRewardPerShare
           /\ n * r.accRewardPerShare < Precision * Rewards(r, n) + Precision
<1> DEFINE x == n * r.accRewardPerShare
<1>1. x \in Nat /\ Precision \in Nat \ {0}
  <2>1. r.accRewardPerShare \in Nat  BY DEF Rewarders
  <2> QED BY <2>1, RoundedFacts, MultiplyNat
<1>2. Rewards(r, n) = x \div Precision  BY DEF Rewards
<1> HIDE DEF x
<1>3. x \div Precision \in Nat /\ Precision * (x \div Precision) <= x
      /\ x < Precision * (x \div Precision) + Precision
  BY <1>1, Divide
<1>4. Rewards(r, n) \in Nat /\ Precision * Rewards(r, n) <= x /\ x < Precision * Rewards(r, n) + Precision
  BY <1>2, <1>3
<1> QED BY <1>1, <1>4 DEF x

LEMMA CountedUp ==
    ASSUME NEW f \in [Users -> Nat], NEW u \in Users, NEW g \in [Users -> Nat],
           \A v \in Users : g[v] = f[v] + (IF v = u THEN 1 ELSE 0)
    PROVE  SumFunction(f) \in Nat /\ SumFunction(g) = SumFunction(f) + 1
<1>1. IsFiniteSet(Users) /\ f \in [Users -> Int] /\ g \in [Users -> Int]  BY StakingAssumption
<1>2. SumFunction(f) \in Nat  BY <1>1, SumFunctionNat
<1>3. g[u] = f[u] + 1 /\ f[u] \in Int /\ \A v \in Users : v # u => g[v] = f[v]
  <2> SUFFICES ASSUME NEW v \in Users
               PROVE  f[v] \in Int /\ (v = u => g[v] = f[v] + 1) /\ (v # u => g[v] = f[v])
    OBVIOUS
  <2>1. f[v] \in Int  OBVIOUS
  <2> QED BY <2>1
<1>4. SumFunction(g) = SumFunction(f) + g[u] - f[u]
  BY <1>1, <1>2, <1>3, SumFunctionChange
<1> QED BY <1>2, <1>3, <1>4

LEMMA DepositInv ==
    ASSUME StakingInv, NEW u \in Users, NEW m \in Markets, NEW amount \in Nat,
           SumFunction(totalShares) + amount <= MaxShares, Deposit(u, m, amount)
    PROVE  StakingInv'
<1>1. StakingTypes /\ SharesAddUp  BY DEF StakingInv
<1>2. /\ userTokenAmount' = [userTokenAmount EXCEPT ![m][u] = @ + amount]
      /\ totalShares' = [totalShares EXCEPT ![m] = @ + amount]
      /\ UNCHANGED <<time, marketIndices, rewarderMarkets, received, withdrawals, feeds, changes, undisturbed>>
  BY DEF Deposit
<1>3. userTokenAmount[m][u] + amount \in Nat
  <2>1. userTokenAmount[m][u] \in Nat  BY <1>1 DEF StakingTypes
  <2> QED BY <2>1
<1>4. /\ userTokenAmount' \in [Markets -> [Users -> Nat]] /\ totalShares' \in [Markets -> Nat]
      /\ SharesAddUp'
      /\ IF m \in rewarderMarkets
         THEN /\ TotalShare' = TotalShare + amount
              /\ \A v \in Users : UserShare(v)' = UserShare(v) + (IF v = u THEN amount ELSE 0)
         ELSE /\ TotalShare' = TotalShare
              /\ \A v \in Users : UserShare(v)' = UserShare(v)
  <2>1. amount \in Int /\ rewarderMarkets' = rewarderMarkets  BY <1>2
  <2> QED BY <1>1, <1>2, <1>3, <2>1, StakeChanged, Zenon
<1>5. CASE m \notin rewarderMarkets
  <2>1. UNCHANGED <<rewarder, deposits, earned, idle>>  BY <1>5 DEF Deposit
  <2>2. StakingTypes'  BY <1>1, <1>2, <1>4, <2>1 DEF StakingTypes
  <2> QED BY <1>2, <1>4, <1>5, <2>1, <2>2, SameAccounts
<1>6. CASE m \in rewarderMarkets
  <2> DEFINE r == Update(rewarder)  a == r.accRewardPerShare  k == Rewards(r, amount)
             d == rewarder.userRewardDebts  held == rewarder.balance
             first == TotalShare = 0 /\ amount > 0
             given == SumFunction(deposits)
  <2>1. /\ rewarder' = OnDeposit(rewarder, u, amount) /\ deposits' = [deposits EXCEPT ![u] = @ + 1]
        /\ IF Shares = 0 /\ amount > 0
           THEN earned' = [earned EXCEPT ![u] = @ + idle] /\ idle' = 0
           ELSE UNCHANGED <<earned, idle>>
    BY <1>6 DEF Deposit
  <2>2. /\ time \in Nat /\ r \in Rewarders(time) /\ r.userRewardDebts = d /\ r.balance = held
        /\ held \in Nat /\ idle \in Nat /\ earned \in [Users -> Nat] /\ deposits \in [Users -> Nat]
        /\ received \in [Users -> Nat]
    <3>1. time \in Nat /\ rewarder \in Rewarders(time) /\ idle \in Nat /\ earned \in [Users -> Nat]
          /\ deposits \in [Users -> Nat] /\ received \in [Users -> Nat]
      BY <1>1 DEF StakingTypes
    <3>2. held \in Nat  BY <3>1 DEF Rewarders
    <3> QED BY <1>1, <3>1, <3>2, UpdateFacts
  <2>3. /\ k \in Nat /\ amount * a \in Nat /\ Precision * k <= amount * a
        /\ amount * a < Precision * k + Precision /\ Precision \in Nat
    BY <2>2, RewardsFacts, RoundedFacts
  <2>4. rewarder' = WithDebt(r, u, d[u] + k, held)
    <3>1. rewarder' = [r EXCEPT !.userRewardDebts[u] = @ + k]  BY <2>1 DEF OnDeposit
    <3>2. k \in Int  BY <2>3
    <3> HIDE DEF r, k
    <3>3. rewarder' = WithDebt(r, u, r.userRewardDebts[u] + k, r.balance)
      BY <2>2, <3>1, <3>2, DebtsAre
    <3> QED BY <2>2, <3>3
  <2>5. /\ rewarder' \in Rewarders(time') /\ rewarder'.lastRewardTime = r.lastRewardTime
        /\ Streamed(rewarder)' = Streamed(r) /\ Streamed(r) \in Nat
        /\ TotalShare # 0 => Streamed(r) = 0
        /\ TotalShare = 0 => r = rewarder
        /\ a \in Nat
        /\ \A v \in Users :
              Has(rewarder, v)' = Has(r, v)
                 + (IF v = u THEN amount * a + Precision * 0 - Precision * k ELSE 0)
    <3>1. \A v \in Users : received'[v] = received[v] + (IF v = u THEN 0 ELSE 0)
      BY <1>2, <2>2
    <3>2. \A v \in Users : UserShare(v)' = UserShare(v) + (IF v = u THEN amount ELSE 0)
      BY <1>4, <1>6
    <3>3. amount \in Int /\ k \in Int /\ 0 \in Int /\ held \in Nat /\ time' = time
      BY <1>2, <2>2, <2>3
    <3>4. TotalShare # 0 => Streamed(r) = 0  BY <1>1, UpdateFacts
    <3>5. TotalShare = 0 => r = rewarder  BY <1>1, UpdateFacts
    <3> HIDE DEF k, held
    <3>6. /\ rewarder' \in Rewarders(time) /\ rewarder'.lastRewardTime = r.lastRewardTime
          /\ a \in Nat /\ Streamed(r) \in Nat
      BY <1>1, <2>4, <3>3, DebtFields
    <3>7. /\ Streamed(rewarder)' = Streamed(r)
          /\ \A v \in Users :
                Has(rewarder, v)' = Has(r, v)
                   + (IF v = u THEN amount * a + Precision * 0 - Precision * k ELSE 0)
      BY <1>1, <2>4, <3>1, <3>2, <3>3, DebtChanged, Zenon
    <3> HIDE DEF r, a
    <3> QED BY <3>3, <3>4, <3>5, <3>6, <3>7
  <2>6. /\ deposits' \in [Users -> Nat] /\ given \in Nat /\ SumFunction(deposits') = given + 1
        /\ \A v \in Users : deposits'[v] = deposits[v] + (IF v = u THEN 1 ELSE 0)
    <3>1. \A v \in Users : deposits'[v] = deposits[v] + (IF v = u THEN 1 ELSE 0)
      <4> TAKE v \in Users
      <4>1. deposits[v] \in Nat  BY <2>2
      <4> QED BY <2>1, <2>2, <4>1
    <3>2. deposits' \in [Users -> Nat]  BY <2>1, <2>2
    <3> QED BY <2>2, <3>1, <3>2, CountedUp
  <2>7. /\ earned' \in [Users -> Nat] /\ idle' = (IF first THEN 0 ELSE idle)
        /\ \A v \in Users : earned'[v] = earned[v] + (IF first /\ v = u THEN idle ELSE 0)
    <3>1. Shares = TotalShare  BY <1>1, ShareFacts
    <3>2. CASE first
      <4>1. earned' = [earned EXCEPT ![u] = @ + idle] /\ idle' = 0  BY <2>1, <3>1, <3>2
      <4> QED BY <2>2, <3>2, <4>1
    <3>3. CASE ~ first
      <4>1. earned' = earned /\ idle' = idle  BY <2>1, <3>1, <3>3
      <4> QED BY <2>2, <3>3, <4>1
    <3> QED BY <3>2, <3>3
  <2>8. StakingTypes'
    <3>1. idle' \in Nat  BY <2>2, <2>7
    <3> HIDE DEF first
    <3> QED BY <1>1, <1>2, <1>4, <2>5, <2>6, <2>7, <3>1 DEF StakingTypes
  <2>9. ASSUME undisturbed' PROVE Solvent' /\ Accounted' /\ IdleStreamed'
    <3>1. Solvent /\ Accounted /\ IdleStreamed  BY <1>2, <2>9 DEF StakingInv
    <3>2. Solvent'
      <4>1. amount * a <= Precision * (held - rewarder.balance + (given + 1) - given + k)
        <5>1. held - rewarder.balance + (given + 1) - given + k = k + 1  BY <2>2, <2>3, <2>6
        <5>2. Precision * (k + 1) = Precision * k + Precision
          <6> HIDE DEF k
          <6> QED BY <2>3
        <5> DEFINE x == amount * a  y == Precision * k
        <5>3. x \in Nat /\ y \in Int /\ x < y + Precision
          <6> HIDE DEF k, a
          <6> QED BY <2>3 DEF x, y
        <5> HIDE DEF x, y
        <5>4. x <= y + Precision  BY <2>3, <5>3
        <5> QED BY <5>1, <5>2, <5>4 DEF x, y
      <4>2. SolventAs(rewarder, TotalShare, given)  BY <3>1 DEF Solvent
      <4>3. given \in Int /\ given + 1 \in Int  BY <2>6
      <4> DEFINE given1 == given + 1
      <4>4. /\ TotalShare' = TotalShare + amount /\ amount \in Int /\ k \in Int /\ held \in Nat
            /\ given \in Int /\ given1 \in Int
            /\ amount * a <= Precision * (held - rewarder.balance + given1 - given + k)
        BY <1>4, <1>6, <2>2, <2>3, <4>1, <4>3
      <4> HIDE DEF given, k, held, given1
      <4>5. SolventAs(rewarder', TotalShare', given1)
        BY <1>1, <2>4, <4>2, <4>4, DebtSolvent, Zenon
      <4> QED BY <2>6, <4>5 DEF Solvent, SolventAs, Ahead, given1
    <3>3. TotalShare \in Nat /\ TotalShare' = TotalShare + amount  BY <1>1, <1>4, <1>6, ShareFacts
    <3>4. Accounted'
      <4> SUFFICES ASSUME NEW v \in Users
                   PROVE  Between(TotalShare', UserShare(v)', Has(rewarder, v)', Streamed(rewarder)',
                                  Least(rewarder, v)', Most(v)')
        BY DEF Accounted, Between
      <4> DEFINE has == Has(rewarder, v)'  least == Least(r, v)
                 most == Most(v) + (IF v = u THEN Precision ELSE 0)
                 plus == IF first /\ v = u THEN idle ELSE 0
                 x == Streamed(r)  s == UserShare(v)'  t == TotalShare'
      <4>1. Has(r, v) \in Int /\ least \in Int /\ Most(v) \in Int /\ least <= Has(r, v) /\ Has(r, v) <= Most(v)
        BY <1>1, <3>1, UpdateAccounted
      <4>2. has = Has(r, v) + (IF v = u THEN amount * a - Precision * k ELSE 0)
        <5>1. Precision * k \in Int /\ Precision * 0 = 0 /\ amount * a \in Int
          <6> HIDE DEF k, a
          <6> QED BY <2>3
        <5> DEFINE y == Precision * k  z == amount * a
        <5>2. has = Has(r, v) + (IF v = u THEN z + Precision * 0 - y ELSE 0)  BY <2>5
        <5> HIDE DEF y, z, has
        <5>3. z + Precision * 0 - y = z - y  BY <5>1 DEF y, z
        <5>4. has = Has(r, v) + (IF v = u THEN z - y ELSE 0)  BY <5>2, <5>3
        <5> QED BY <5>4 DEF y, z
      <4>3. has \in Int /\ least <= has /\ has <= most /\ most \in Int
        <5> DEFINE y == Precision * k  z == amount * a  h == Has(r, v)  j == Most(v)
        <5>1. y \in Int /\ z \in Int /\ y <= z /\ z < y + Precision
          <6> HIDE DEF k, a
          <6> QED BY <2>3
        <5>2. has = h + (IF v = u THEN z - y ELSE 0) /\ h \in Int /\ j \in Int /\ least <= h /\ h <= j
          BY <4>1, <4>2
        <5>3. most = j + (IF v = u THEN Precision ELSE 0) /\ least \in Int  BY <4>1
        <5> HIDE DEF y, z, h, j, has, least, most
        <5> QED BY <2>3, <5>1, <5>2, <5>3
      <4>4. Least(rewarder, v)' = least + plus /\ Most(v)' = most + plus /\ plus \in Nat
        <5>1. /\ earned'[v] = earned[v] + plus /\ plus \in Nat
              /\ deposits'[v] = deposits[v] + (IF v = u THEN 1 ELSE 0)
              /\ deposits[v] \in Nat /\ earned[v] \in Nat /\ withdrawals[v] \in Nat
              /\ withdrawals'[v] = withdrawals[v] /\ rewarder'.lastRewardTime = r.lastRewardTime
              /\ r.lastRewardTime \in Nat
          BY <1>1, <1>2, <2>2, <2>5, <2>6, <2>7 DEF StakingTypes, Rewarders
        <5>2. MaxShares \in Nat /\ Rounded \in {0, 1}  BY RoundedFacts
        <5> DEFINE e == earned[v]  w == Precision * withdrawals[v]
                   l == Rounded * (MaxShares * r.lastRewardTime)  o == Rounded * time
                   p == deposits[v]
        <5>3. w \in Int /\ l \in Int /\ o \in Int /\ e \in Int /\ p \in Int /\ Precision * p \in Int
          <6>1. MaxShares * r.lastRewardTime \in Nat /\ Rounded \in Nat  BY <5>1, <5>2, MultiplyNat
          <6>2. e \in Nat /\ p \in Nat /\ withdrawals[v] \in Nat  BY <5>1
          <6> HIDE DEF e, p, r
          <6>3. w \in Nat /\ Precision * p \in Nat  BY <2>3, <6>2, MultiplyNat
          <6>4. l \in Nat /\ o \in Nat  BY <2>2, <6>1, MultiplyNat
          <6> QED BY <6>2, <6>3, <6>4
        <5>4. /\ Least(rewarder, v)' = (e + plus) - w - l /\ least = e - w - l
              /\ Most(v)' = (e + plus) + Precision * (p + (IF v = u THEN 1 ELSE 0)) + o
              /\ Most(v) = e + Precision * p + o
          BY <1>2, <5>1 DEF Least, Most
        <5>5. Precision * (p + 1) = Precision * p + Precision /\ Precision * (p + 0) = Precision * p
          <6> HIDE DEF p
          <6> QED BY <2>3, <5>3
        <5>6. Precision * (p + (IF v = u THEN 1 ELSE 0)) = Precision * p + (IF v = u THEN Precision ELSE 0)
          <6> HIDE DEF p
          <6>1. CASE v = u  BY <5>5, <6>1
          <6>2. CASE v # u  BY <5>5, <6>2, <5>3
          <6> QED BY <6>1, <6>2
        <5> DEFINE pp == Precision * p
        <5>7. /\ Least(rewarder, v)' = (e + plus) - w - l /\ least = e - w - l
              /\ Most(v)' = (e + plus) + (pp + (IF v = u THEN Precision ELSE 0)) + o
              /\ most = (e + pp + o) + (IF v = u THEN Precision ELSE 0)
          BY <5>4, <5>6
        <5>8. plus \in Nat /\ pp \in Int  BY <5>1, <5>3
        <5> HIDE DEF e, w, l, o, p, pp, least, most, plus
        <5> QED BY <2>3, <5>3, <5>7, <5>8
      <4>5. /\ x \in Nat /\ s \in Nat /\ t \in Nat /\ t = TotalShare + amount
            /\ UserShare(v) \in Nat /\ UserShare(v) <= TotalShare
            /\ s = UserShare(v) + (IF v = u THEN amount ELSE 0)
        <5>1. UserShare(v) \in Nat /\ UserShare(v) <= TotalShare  BY <1>1, ShareFacts
        <5>2. s = UserShare(v) + (IF v = u THEN amount ELSE 0)  BY <1>4, <1>6
        <5> HIDE DEF x, s, r
        <5> QED BY <2>5, <3>3, <5>1, <5>2 DEF x
      <4>6. CASE ~ first
        <5>1. t = 0 \/ x = 0
          <6>1. CASE TotalShare = 0
            <7>1. amount = 0  BY <4>6, <6>1
            <7> QED BY <4>5, <6>1, <7>1
          <6>2. CASE TotalShare # 0  BY <2>5, <6>2
          <6> QED BY <6>1, <6>2
        <5>2. plus = 0  BY <4>6
        <5>3. Least(rewarder, v)' = least /\ Most(v)' = most
          <6> HIDE DEF least, most, plus
          <6> QED BY <4>3, <4>4, <5>2, <4>1 DEF least
        <5>4. least \in Int  BY <4>1
        <5> HIDE DEF t, s, has, x, least, most
        <5>5. Between(t, s, has, x, least, most)
          BY <4>3, <4>5, <5>1, <5>4, BetweenSettled
        <5> QED BY <2>5, <5>3, <5>5 DEF t, s, has, x
      <4>7. CASE first
        <5>1. t \in Nat \ {0} /\ x = idle
          <6>1. x = Streamed(rewarder)  BY <2>5, <4>7
          <6>2. idle = Streamed(rewarder)  BY <3>1, <4>7 DEF IdleStreamed
          <6>3. TotalShare = 0 /\ amount > 0  BY <4>7
          <6> HIDE DEF t, x
          <6> QED BY <4>5, <6>1, <6>2, <6>3
        <5>2. UserShare(v) = 0  BY <4>5, <4>7
        <5>3. least \in Int  BY <4>1
        <5>4. Between(t, t, has, x, least + x, most + x) /\ Between(t, 0, has, x, least, most)
          <6> HIDE DEF t, s, has, x, least, most
          <6> QED BY <4>3, <4>5, <5>1, <5>3, BetweenFirst
        <5>5. CASE v = u
          <6>1. s = t /\ plus = x  BY <4>5, <4>7, <5>1, <5>2, <5>5
          <6> HIDE DEF has, least, most, plus, x, s, t
          <6> QED BY <2>5, <4>4, <5>4, <6>1 DEF has, x, s, t
        <5>6. CASE v # u
          <6>1. s = 0 /\ plus = 0  BY <4>5, <5>2, <5>6
          <6>2. Least(rewarder, v)' = least /\ Most(v)' = most
            <7> HIDE DEF least, most, plus
            <7> QED BY <4>3, <4>4, <5>3, <6>1
          <6> HIDE DEF has, least, most, plus, x, s, t
          <6> QED BY <2>5, <5>4, <6>1, <6>2 DEF has, x, s, t
        <5> QED BY <5>5, <5>6
      <4> QED BY <4>6, <4>7
    <3>5. IdleStreamed'
      <4>1. idle = IF TotalShare = 0 THEN Streamed(rewarder) ELSE 0  BY <3>1 DEF IdleStreamed
      <4>2. TotalShare' = 0 <=> TotalShare = 0 /\ amount = 0  BY <3>3
      <4>3. idle' = IF TotalShare' = 0 THEN Streamed(rewarder)' ELSE 0
        BY <2>5, <2>7, <3>3, <4>1, <4>2
      <4> QED BY <4>3 DEF IdleStreamed
    <3> QED BY <3>2, <3>4, <3>5
  <2> QED BY <1>4, <2>8, <2>9 DEF StakingInv
<1> QED BY <1>5, <1>6

LEMMA AccountedSettled ==
    ASSUME TotalShare' \in Nat, Streamed(rewarder)' \in Nat,
           TotalShare' = 0 \/ Streamed(rewarder)' = 0,
           \A v \in Users :
              /\ UserShare(v)' \in Nat /\ Has(rewarder, v)' \in Int
              /\ Least(rewarder, v)' \in Int /\ Most(v)' \in Int
              /\ Least(rewarder, v)' <= Has(rewarder, v)' /\ Has(rewarder, v)' <= Most(v)'
    PROVE  Accounted'
<1> SUFFICES ASSUME NEW v \in Users
             PROVE  Between(TotalShare', UserShare(v)', Has(rewarder, v)', Streamed(rewarder)',
                            Least(rewarder, v)', Most(v)')
  BY DEF Accounted, Between
<1> DEFINE t == TotalShare'  s == UserShare(v)'  has == Has(rewarder, v)'  x == Streamed(rewarder)'
           least == Least(rewarder, v)'  most == Most(v)'
<1>1. /\ t \in Nat /\ s \in Nat /\ has \in Int /\ x \in Nat /\ least \in Int /\ most \in Int
      /\ least <= has /\ has <= most /\ (t = 0 \/ x = 0)
  OBVIOUS
<1> HIDE DEF t, s, has, x, least, most
<1>2. Between(t, s, has, x, least, most)  BY <1>1, BetweenSettled
<1> QED BY <1>2 DEF t, s, has, x, least, most

\* The bounds after a step that counts w withdrawals of an account.
LEMMA BoundsChanged ==
    ASSUME StakingTypes, NEW l \in 0 .. time, rewarder'.lastRewardTime = l, time' = time,
           NEW v \in Users, NEW w \in {0, 1}, earned'[v] = earned[v], deposits'[v] = deposits[v],
           withdrawals'[v] = withdrawals[v] + w
    PROVE  /\ Most(v)' = Most(v)
           /\ Least(rewarder, v)' = earned[v] - Precision * withdrawals[v]
                                      - Rounded * (MaxShares * l) - (IF w = 1 THEN Precision ELSE 0)
<1>1. Most(v)' = Most(v)  BY DEF Most
<1>2. /\ time \in Nat /\ earned[v] \in Nat /\ withdrawals[v] \in Nat /\ l \in Nat
      /\ Precision \in Nat /\ MaxShares \in Nat /\ Rounded \in Nat
  BY RoundedFacts DEF StakingTypes
<1> DEFINE e == earned[v]  n == withdrawals[v]  y == Rounded * (MaxShares * l)  p == Precision * n
<1>3. y \in Nat /\ p \in Nat
  <2>1. MaxShares * l \in Nat  BY <1>2, MultiplyNat
  <2> QED BY <1>2, <2>1, MultiplyNat
<1>4. Least(rewarder, v)' = e - Precision * (n + w) - y  BY DEF Least
<1>5. Precision * (n + w) = p + (IF w = 1 THEN Precision ELSE 0)
  <2> HIDE DEF n
  <2>1. n \in Nat  BY <1>2 DEF n
  <2>2. CASE w = 0
    <3>1. n + w = n  BY <2>1, <2>2
    <3> QED BY <1>3, <2>2, <3>1
  <2>3. CASE w = 1
    <3>1. Precision * (n + 1) = Precision * n + Precision  BY <1>2, <2>1
    <3> QED BY <2>3, <3>1
  <2> QED BY <2>2, <2>3
<1>6. Least(rewarder, v)' = e - p - y - (IF w = 1 THEN Precision ELSE 0)
  <2>1. e \in Nat  BY <1>2
  <2> DEFINE q == Precision * (n + w)
  <2>2. Least(rewarder, v)' = e - q - y /\ q = p + (IF w = 1 THEN Precision ELSE 0)
    BY <1>4, <1>5
  <2> HIDE DEF e, n, y, p, q
  <2> QED BY <1>2, <1>3, <2>1, <2>2
<1> QED BY <1>1, <1>6

LEMMA WithdrawInv ==
    ASSUME StakingInv, NEW u \in Users, NEW m \in Markets, NEW amount \in Nat, Withdraw(u, m, amount)
    PROVE  StakingInv'
<1> DEFINE change == -amount
<1>1. StakingTypes /\ SharesAddUp  BY DEF StakingInv
<1>2. /\ userTokenAmount' = [userTokenAmount EXCEPT ![m][u] = @ - amount]
      /\ totalShares' = [totalShares EXCEPT ![m] = @ - amount]
      /\ userTokenAmount[m][u] >= amount
      /\ UNCHANGED <<time, marketIndices, rewarderMarkets, earned, received, idle, deposits, feeds,
                     changes, undisturbed>>
  BY DEF Withdraw
<1>3. /\ userTokenAmount[m][u] + change \in Nat /\ change \in Int
      /\ userTokenAmount' = [userTokenAmount EXCEPT ![m][u] = @ + change]
      /\ totalShares' = [totalShares EXCEPT ![m] = @ + change]
      /\ SumFunction(totalShares) + change <= MaxShares
      /\ rewarderMarkets' = rewarderMarkets
  <2>1. /\ userTokenAmount[m][u] \in Nat /\ totalShares[m] \in Nat
        /\ totalShares \in [Markets -> Int] /\ IsFiniteSet(Markets) /\ MaxShares \in Nat
    BY <1>1, ShareFacts, RoundedFacts DEF StakingTypes
  <2>2. SumFunction(totalShares) \in Int  BY <2>1, SumFunctionInt
  <2>3. SumFunction(totalShares) <= MaxShares  BY <1>1 DEF SharesAddUp
  <2>4. /\ userTokenAmount[m][u] - amount = userTokenAmount[m][u] + change
        /\ totalShares[m] - amount = totalShares[m] + change
    BY <2>1
  <2>5. SumFunction(totalShares) + change <= MaxShares
    <3> DEFINE sum == SumFunction(totalShares)
    <3>1. sum \in Int /\ sum <= MaxShares  BY <2>2, <2>3
    <3> HIDE DEF sum
    <3>2. sum + change <= MaxShares  BY <2>1, <3>1
    <3> QED BY <3>2 DEF sum
  <2>6. change \in Int /\ userTokenAmount[m][u] + change \in Nat  BY <1>2, <2>1
  <2> HIDE DEF change
  <2>7. /\ userTokenAmount' = [userTokenAmount EXCEPT ![m][u] = @ + change]
        /\ totalShares' = [totalShares EXCEPT ![m] = @ + change]
        /\ rewarderMarkets' = rewarderMarkets
    BY <1>2, <2>4
  <2> QED BY <2>5, <2>6, <2>7
<1>4. /\ userTokenAmount' \in [Markets -> [Users -> Nat]] /\ totalShares' \in [Markets -> Nat]
      /\ SharesAddUp'
      /\ IF m \in rewarderMarkets
         THEN /\ TotalShare' = TotalShare + change
              /\ \A v \in Users : UserShare(v)' = UserShare(v) + (IF v = u THEN change ELSE 0)
         ELSE /\ TotalShare' = TotalShare
              /\ \A v \in Users : UserShare(v)' = UserShare(v)
  <2> HIDE DEF change
  <2> QED BY <1>1, <1>3, StakeChanged, Zenon
<1>5. CASE m \notin rewarderMarkets
  <2>1. UNCHANGED <<rewarder, withdrawals>>  BY <1>5 DEF Withdraw
  <2>2. StakingTypes'  BY <1>1, <1>2, <1>4, <2>1 DEF StakingTypes
  <2> HIDE DEF change
  <2> QED BY <1>2, <1>4, <1>5, <2>1, <2>2, SameAccounts
<1>6. CASE m \in rewarderMarkets
  <2> DEFINE r == Update(rewarder)  a == r.accRewardPerShare  k == Rewards(r, amount)  more == -k
             d == rewarder.userRewardDebts  held == rewarder.balance
             given == SumFunction(deposits)
  <2>1. rewarder' = OnWithdraw(rewarder, u, amount) /\ withdrawals' = [withdrawals EXCEPT ![u] = @ + 1]
    BY <1>6 DEF Withdraw
  <2>2. /\ time \in Nat /\ r \in Rewarders(time) /\ r.userRewardDebts = d /\ r.balance = held
        /\ held \in Nat /\ withdrawals \in [Users -> Nat] /\ received \in [Users -> Nat]
        /\ d \in [Users -> Int] /\ deposits \in [Users -> Nat]
    <3>1. time \in Nat /\ rewarder \in Rewarders(time) /\ withdrawals \in [Users -> Nat]
          /\ received \in [Users -> Nat] /\ deposits \in [Users -> Nat]
      BY <1>1 DEF StakingTypes
    <3>2. held \in Nat /\ d \in [Users -> Int]  BY <3>1 DEF Rewarders
    <3> QED BY <1>1, <3>1, <3>2, UpdateFacts
  <2>3. /\ k \in Nat /\ amount * a \in Nat /\ Precision * k <= amount * a
        /\ amount * a < Precision * k + Precision /\ Precision \in Nat
    BY <2>2, RewardsFacts, RoundedFacts
  <2>4. rewarder' = WithDebt(r, u, d[u] + more, held)
    <3>1. rewarder' = [r EXCEPT !.userRewardDebts[u] = @ - k]  BY <2>1 DEF OnWithdraw
    <3>2. k \in Int  BY <2>3
    <3>3. rewarder' = WithDebt(r, u, r.userRewardDebts[u] - k, r.balance)
      <4> HIDE DEF r, k
      <4> QED BY <2>2, <3>1, <3>2, DebtsAre
    <3>4. d[u] - k = d[u] + more
      <4>1. d[u] \in Int  BY <2>2
      <4> HIDE DEF k, d
      <4> QED BY <3>2, <4>1
    <3> HIDE DEF r, k, more
    <3> QED BY <2>2, <3>3, <3>4
  <2>5. /\ rewarder' \in Rewarders(time') /\ rewarder'.lastRewardTime = r.lastRewardTime
        /\ Streamed(rewarder)' = Streamed(r) /\ Streamed(r) \in Nat
        /\ TotalShare # 0 => Streamed(r) = 0
        /\ TotalShare = 0 => r = rewarder
        /\ a \in Nat /\ r.lastRewardTime \in 0 .. time
        /\ \A v \in Users :
              Has(rewarder, v)' = Has(r, v)
                 + (IF v = u THEN change * a + Precision * 0 - Precision * more ELSE 0)
    <3>1. \A v \in Users : received'[v] = received[v] + (IF v = u THEN 0 ELSE 0)
      BY <1>2, <2>2
    <3>2. \A v \in Users : UserShare(v)' = UserShare(v) + (IF v = u THEN change ELSE 0)
      BY <1>4, <1>6
    <3>3. change \in Int /\ more \in Int /\ 0 \in Int /\ held \in Nat /\ time' = time
      BY <1>2, <1>3, <2>2, <2>3
    <3>4. TotalShare # 0 => Streamed(r) = 0  BY <1>1, UpdateFacts
    <3>5. TotalShare = 0 => r = rewarder  BY <1>1, UpdateFacts
    <3>6. r.lastRewardTime \in 0 .. time  BY <2>2 DEF Rewarders
    <3> HIDE DEF k, held, change, more
    <3>7. /\ rewarder' \in Rewarders(time) /\ rewarder'.lastRewardTime = r.lastRewardTime
          /\ a \in Nat /\ Streamed(r) \in Nat
      BY <1>1, <2>4, <3>3, DebtFields
    <3>8. /\ Streamed(rewarder)' = Streamed(r)
          /\ \A v \in Users :
                Has(rewarder, v)' = Has(r, v)
                   + (IF v = u THEN change * a + Precision * 0 - Precision * more ELSE 0)
      BY <1>1, <2>4, <3>1, <3>2, <3>3, DebtChanged, Zenon
    <3> HIDE DEF r, a
    <3> QED BY <3>3, <3>4, <3>5, <3>6, <3>7, <3>8
  <2>6. withdrawals' \in [Users -> Nat]
        /\ \A v \in Users : withdrawals'[v] = withdrawals[v] + (IF v = u THEN 1 ELSE 0)
    <3>1. \A v \in Users : withdrawals'[v] = withdrawals[v] + (IF v = u THEN 1 ELSE 0)
      <4> TAKE v \in Users
      <4>1. withdrawals[v] \in Nat  BY <2>2
      <4> QED BY <2>1, <2>2, <4>1
    <3>2. withdrawals' \in [Users -> Nat]  BY <2>1, <2>2
    <3> QED BY <3>1, <3>2
  <2>7. /\ TotalShare' = TotalShare + change /\ TotalShare' \in Nat /\ TotalShare \in Nat
        /\ TotalShare = 0 => amount = 0
        /\ \A v \in Users : UserShare(v)' \in Nat
    <3>1. userTokenAmount[m][u] <= UserShare(u)  BY <1>1, <1>6, ShareFacts
    <3>2. userTokenAmount[m][u] \in Nat  BY <1>1 DEF StakingTypes
    <3>3. TotalShare \in Nat /\ \A v \in Users : UserShare(v) \in Nat /\ UserShare(v) <= TotalShare
      BY <1>1, ShareFacts
    <3>4. amount <= UserShare(u)  BY <1>2, <3>1, <3>2, <3>3
    <3>5. \A v \in Users : UserShare(v)' = UserShare(v) + (IF v = u THEN change ELSE 0)
      BY <1>4, <1>6
    <3>6. ASSUME NEW v \in Users PROVE UserShare(v)' \in Nat
      <4>1. UserShare(v) \in Nat  BY <3>3
      <4> QED BY <3>4, <3>5, <4>1
    <3>7. TotalShare' = TotalShare + change  BY <1>4, <1>6
    <3>8. UserShare(u) \in Nat /\ UserShare(u) <= TotalShare  BY <3>3
    <3> QED BY <3>3, <3>4, <3>6, <3>7, <3>8
  <2>8. StakingTypes'
    <3> HIDE DEF change
    <3> QED BY <1>1, <1>2, <1>4, <2>5, <2>6 DEF StakingTypes
  <2> DEFINE x == amount * a  y == Precision * k
  <2>9. /\ change * a = -x /\ Precision * more = -y /\ x \in Nat /\ y \in Int /\ y <= x /\ x < y + Precision
        /\ Precision * 0 = 0
    <3> HIDE DEF r, k
    <3>1. a \in Nat  BY <2>5
    <3> HIDE DEF a
    <3> QED BY <2>3, <3>1
  <2>10. ASSUME undisturbed' PROVE Solvent' /\ Accounted' /\ IdleStreamed'
    <3>1. Solvent /\ Accounted /\ IdleStreamed  BY <1>2, <2>10 DEF StakingInv
    <3>2. Solvent'
      <4>1. given \in Int
        <5>1. IsFiniteSet(Users) /\ deposits \in [Users -> Int]  BY <1>1, <2>2, ShareFacts
        <5> QED BY <5>1, SumFunctionInt
      <4>2. change * a <= Precision * (held - rewarder.balance + given - given + more)
        <5>1. more \in Int  BY <2>3
        <5> HIDE DEF more, given, change, a, x, y
        <5>2. held - rewarder.balance + given - given + more = more  BY <2>2, <4>1, <5>1
        <5>3. -x <= -y  BY <2>9
        <5> QED BY <2>9, <5>2, <5>3
      <4>3. SolventAs(rewarder, TotalShare, given)  BY <3>1 DEF Solvent
      <4>4. /\ TotalShare' = TotalShare + change /\ change \in Int /\ more \in Int /\ held \in Nat
        BY <1>3, <2>2, <2>3, <2>7
      <4> HIDE DEF given, k, held, change, more
      <4>5. SolventAs(rewarder', TotalShare', given)
        BY <1>1, <2>4, <4>1, <4>2, <4>3, <4>4, DebtSolvent, Zenon
      <4> QED BY <1>2, <4>5 DEF Solvent, SolventAs, Ahead, given
    <3>3. Accounted'
      <4>1. ASSUME NEW v \in Users
            PROVE  /\ Has(rewarder, v)' \in Int
                   /\ Least(rewarder, v)' \in Int /\ Most(v)' \in Int
                   /\ Least(rewarder, v)' <= Has(rewarder, v)' /\ Has(rewarder, v)' <= Most(v)'
        <5> DEFINE least == Least(r, v)  has == Has(r, v)  most == Most(v)
                   w == IF v = u THEN 1 ELSE 0
        <5>1. has \in Int /\ least \in Int /\ most \in Int /\ least <= has /\ has <= most
          BY <1>1, <3>1, UpdateAccounted
        <5>2. Has(rewarder, v)' = has + (IF v = u THEN y - x ELSE 0)
          <6>1. Has(rewarder, v)' = has + (IF v = u THEN change * a + Precision * 0 - Precision * more ELSE 0)
            BY <2>5
          <6>2. change * a + Precision * 0 - Precision * more = y - x
            <7> DEFINE i == change * a  j == Precision * more  o == Precision * 0
            <7>1. i = -x /\ j = -y /\ o = 0  BY <2>9
            <7> HIDE DEF i, j, o, x, y
            <7>2. i + o - j = y - x  BY <2>9, <7>1
            <7> QED BY <7>2 DEF i, o, j
          <6> HIDE DEF x, y, has
          <6> QED BY <6>1, <6>2
        <5>3. /\ Most(v)' = most
              /\ Least(rewarder, v)' = least - (IF w = 1 THEN Precision ELSE 0)
          <6> DEFINE l == r.lastRewardTime
          <6>1. earned'[v] = earned[v] /\ deposits'[v] = deposits[v] /\ withdrawals'[v] = withdrawals[v] + w
                /\ l \in 0 .. time /\ rewarder'.lastRewardTime = l /\ time' = time
            BY <1>2, <2>5, <2>6
          <6>2. least = earned[v] - Precision * withdrawals[v] - Rounded * (MaxShares * l)  BY DEF Least
          <6>3. w \in {0, 1}  OBVIOUS
          <6> HIDE DEF least, most, l, w
          <6>4. /\ Most(v)' = Most(v)
                /\ Least(rewarder, v)' = earned[v] - Precision * withdrawals[v]
                                           - Rounded * (MaxShares * l) - (IF w = 1 THEN Precision ELSE 0)
            BY <1>1, <6>1, <6>3, BoundsChanged
          <6> QED BY <6>2, <6>4 DEF most
        <5> HIDE DEF least, has, most, x, y
        <5> QED BY <2>3, <2>9, <5>1, <5>2, <5>3
      <4>2. /\ Streamed(rewarder)' \in Nat
            /\ TotalShare' = 0 \/ Streamed(rewarder)' = 0
        <5>1. TotalShare = 0 => TotalShare' = 0
          <6> SUFFICES ASSUME TotalShare = 0 PROVE TotalShare' = 0  OBVIOUS
          <6>1. TotalShare' = 0 - 0
            <7>1. amount = 0  BY <2>7
            <7>2. TotalShare' = TotalShare - amount  BY <2>7
            <7> QED BY <7>1, <7>2
          <6> QED BY <6>1
        <5> HIDE DEF r
        <5> QED BY <2>5, <5>1
      <4> QED BY <2>7, <4>1, <4>2, AccountedSettled
    <3>4. IdleStreamed'
      <4>1. idle = IF TotalShare = 0 THEN Streamed(rewarder) ELSE 0  BY <3>1 DEF IdleStreamed
      <4>2. idle' = IF TotalShare' = 0 THEN Streamed(rewarder)' ELSE 0
        <5>1. CASE TotalShare = 0  BY <1>2, <2>5, <2>7, <4>1, <5>1
        <5>2. CASE TotalShare # 0  BY <1>2, <2>5, <4>1, <5>2
        <5> QED BY <5>1, <5>2
      <4> QED BY <4>2 DEF IdleStreamed
    <3> QED BY <3>2, <3>3, <3>4
  <2> QED BY <1>4, <2>8, <2>10 DEF StakingInv
<1> QED BY <1>5, <1>6

LEMMA HarvestInv ==
    ASSUME StakingInv, NEW u \in Users, Harvest(u)
    PROVE  StakingInv'
<1> DEFINE r == Update(rewarder)  a == r.accRewardPerShare  d == rewarder.userRewardDebts
           pend == Pending(r, u)  held == rewarder.balance - pend  given == SumFunction(deposits)
<1>1. StakingTypes /\ SharesAddUp  BY DEF StakingInv
<1>2. /\ pend >= 0 /\ pend <= r.balance
      /\ rewarder' = OnHarvest(r, u)
      /\ received' = [received EXCEPT ![u] = @ + pend]
      /\ UNCHANGED <<time, stakes, earned, idle, deposits, withdrawals, feeds, changes, undisturbed>>
  BY DEF Harvest, CanHarvest
<1>3. UNCHANGED <<marketIndices, rewarderMarkets, userTokenAmount, totalShares>>  BY <1>2 DEF stakes
<1>4. /\ time \in Nat /\ r \in Rewarders(time) /\ r.userRewardDebts = d
      /\ r.balance = rewarder.balance /\ rewarder.balance \in Nat
      /\ withdrawals \in [Users -> Nat] /\ received \in [Users -> Nat]
      /\ d \in [Users -> Int] /\ deposits \in [Users -> Nat]
  <2>1. time \in Nat /\ rewarder \in Rewarders(time) /\ withdrawals \in [Users -> Nat]
        /\ received \in [Users -> Nat] /\ deposits \in [Users -> Nat]
    BY <1>1 DEF StakingTypes
  <2>2. rewarder.balance \in Nat /\ d \in [Users -> Int]  BY <2>1 DEF Rewarders
  <2> QED BY <1>1, <2>1, <2>2, UpdateFacts
<1>5. /\ TotalShare' = TotalShare /\ TotalShare \in Nat
      /\ \A v \in Users : UserShare(v)' = UserShare(v) /\ UserShare(v) \in Nat
  BY <1>1, <1>3, ShareFacts DEF TotalShare, UserShare
<1>6. pend \in Nat /\ held \in Nat /\ Rewards(r, UserShare(u)) = d[u] + pend
  <2> DEFINE k == Rewards(r, UserShare(u))
  <2>1. k \in Nat  BY <1>4, <1>5, RewardsFacts
  <2>2. d[u] \in Int /\ pend = k - d[u]  BY <1>4 DEF Pending
  <2> DEFINE e == d[u]  b == rewarder.balance
  <2>3. b \in Nat /\ pend <= b /\ pend >= 0 /\ held = b - pend  BY <1>2, <1>4
  <2> HIDE DEF k, e, pend, b, held
  <2>4. pend \in Nat /\ held \in Nat /\ k = e + pend  BY <2>1, <2>2, <2>3 DEF e
  <2> QED BY <2>4 DEF k, e
<1>7. rewarder' = WithDebt(r, u, d[u] + pend, held)
  <2> DEFINE k == Rewards(r, UserShare(u))
  <2>1. rewarder' = [r EXCEPT !.userRewardDebts[u] = k, !.balance = @ - pend]
    BY <1>2 DEF OnHarvest
  <2>2. k \in Int /\ pend \in Int /\ k = d[u] + pend
    <3>1. k \in Nat  BY <1>4, <1>5, RewardsFacts
    <3> QED BY <1>6, <3>1
  <2> HIDE DEF r, k, pend, d
  <2>3. rewarder' = [r EXCEPT !.userRewardDebts = [r.userRewardDebts EXCEPT ![u] = k],
                              !.balance = r.balance - pend]
    BY <1>4, <2>1 DEF Rewarders
  <2>4. rewarder' = WithDebt(r, u, k, r.balance - pend)
    BY <1>4, <2>3 DEF Rewarders, WithDebt
  <2> QED BY <1>4, <2>2, <2>4
<1>8. /\ received' \in [Users -> Nat]
      /\ \A v \in Users : received'[v] = received[v] + (IF v = u THEN pend ELSE 0)
  <2> HIDE DEF pend
  <2>1. \A v \in Users : received'[v] = received[v] + (IF v = u THEN pend ELSE 0)
    <3> TAKE v \in Users
    <3>1. received[v] \in Nat  BY <1>4
    <3> QED BY <1>2, <1>4, <3>1
  <2>2. received' \in [Users -> Nat]  BY <1>2, <1>4, <1>6
  <2> QED BY <2>1, <2>2
<1>9. /\ rewarder' \in Rewarders(time') /\ rewarder'.lastRewardTime = r.lastRewardTime
      /\ Streamed(rewarder)' = Streamed(r) /\ Streamed(r) \in Nat
      /\ TotalShare # 0 => Streamed(r) = 0
      /\ TotalShare = 0 => r = rewarder
      /\ a \in Nat /\ r.lastRewardTime \in 0 .. time
      /\ \A v \in Users :
            Has(rewarder, v)' = Has(r, v)
               + (IF v = u THEN 0 * a + Precision * pend - Precision * pend ELSE 0)
  <2>1. 0 \in Int /\ pend \in Int /\ held \in Nat /\ time' = time  BY <1>2, <1>6
  <2>2. \A v \in Users : UserShare(v)' = UserShare(v) + (IF v = u THEN 0 ELSE 0)
    <3> TAKE v \in Users
    <3>1. UserShare(v)' = UserShare(v) /\ UserShare(v) \in Nat  BY <1>5
    <3> QED BY <3>1
  <2>3. TotalShare # 0 => Streamed(r) = 0  BY <1>1, UpdateFacts
  <2>4. TotalShare = 0 => r = rewarder  BY <1>1, UpdateFacts
  <2>5. r.lastRewardTime \in 0 .. time  BY <1>4 DEF Rewarders
  <2> HIDE DEF pend, held
  <2>6. /\ rewarder' \in Rewarders(time) /\ rewarder'.lastRewardTime = r.lastRewardTime
        /\ a \in Nat /\ Streamed(r) \in Nat
    BY <1>1, <1>7, <2>1, DebtFields
  <2>7. /\ Streamed(rewarder)' = Streamed(r)
        /\ \A v \in Users :
              Has(rewarder, v)' = Has(r, v)
                 + (IF v = u THEN 0 * a + Precision * pend - Precision * pend ELSE 0)
    BY <1>1, <1>7, <1>8, <2>1, <2>2, DebtChanged, Zenon
  <2> HIDE DEF r, a
  <2> QED BY <2>1, <2>3, <2>4, <2>5, <2>6, <2>7
<1>10. StakingTypes'  BY <1>1, <1>2, <1>3, <1>8, <1>9 DEF StakingTypes
<1>11. SharesAddUp'  BY <1>1, <1>3 DEF SharesAddUp
<1>12. ASSUME undisturbed' PROVE Solvent' /\ Accounted' /\ IdleStreamed'
  <2>1. Solvent /\ Accounted /\ IdleStreamed  BY <1>2, <1>12 DEF StakingInv
  <2>2. Solvent'
    <3>1. given \in Int
      <4>1. IsFiniteSet(Users) /\ deposits \in [Users -> Int]  BY <1>1, <1>4, ShareFacts
      <4> QED BY <4>1, SumFunctionInt
    <3>2. 0 * a <= Precision * (held - rewarder.balance + given - given + pend)
      <4> DEFINE b == rewarder.balance
      <4>1. held = b - pend /\ b \in Int /\ pend \in Int /\ a \in Nat /\ Precision \in Nat
        BY <1>4, <1>6, <1>9, RoundedFacts
      <4> HIDE DEF b, held, pend, a, given
      <4>2. held - b + given - given + pend = 0  BY <3>1, <4>1
      <4>3. 0 * a = 0 /\ Precision * 0 = 0  BY <4>1
      <4>4. 0 * a <= Precision * (held - b + given - given + pend)  BY <4>2, <4>3
      <4> QED BY <4>4 DEF b
    <3>3. SolventAs(rewarder, TotalShare, given)  BY <2>1 DEF Solvent
    <3>4. TotalShare' = TotalShare + 0 /\ 0 \in Int /\ pend \in Int /\ held \in Nat
      BY <1>5, <1>6
    <3> HIDE DEF given, held, pend
    <3>5. SolventAs(rewarder', TotalShare', given)
      BY <1>1, <1>7, <3>1, <3>2, <3>3, <3>4, DebtSolvent, Zenon
    <3> QED BY <1>2, <3>5 DEF Solvent, SolventAs, Ahead, given
  <2>3. Accounted'
    <3>1. ASSUME NEW v \in Users
          PROVE  /\ Has(rewarder, v)' \in Int
                 /\ Least(rewarder, v)' \in Int /\ Most(v)' \in Int
                 /\ Least(rewarder, v)' <= Has(rewarder, v)' /\ Has(rewarder, v)' <= Most(v)'
      <4> DEFINE least == Least(r, v)  has == Has(r, v)  most == Most(v)  l == r.lastRewardTime
      <4>1. has \in Int /\ least \in Int /\ most \in Int /\ least <= has /\ has <= most
        BY <1>1, <2>1, UpdateAccounted
      <4>2. Has(rewarder, v)' = has
        <5>1. Has(rewarder, v)' = has + (IF v = u THEN 0 * a + Precision * pend - Precision * pend ELSE 0)
          BY <1>9
        <5>2. 0 * a = 0 /\ Precision * pend \in Int
          <6>1. a \in Nat /\ Precision \in Nat  BY <1>9, RoundedFacts
          <6> HIDE DEF a, pend
          <6> QED BY <1>6, <6>1
        <5> DEFINE y == Precision * pend  o == 0 * a
        <5>3. Has(rewarder, v)' = has + (IF v = u THEN o + y - y ELSE 0) /\ o = 0 /\ y \in Int
          BY <5>1, <5>2
        <5> HIDE DEF y, o, has
        <5> QED BY <4>1, <5>3
      <4>3. Most(v)' = most /\ Least(rewarder, v)' = least
        <5>1. withdrawals[v] \in Nat  BY <1>4
        <5>2. earned'[v] = earned[v] /\ deposits'[v] = deposits[v] /\ withdrawals'[v] = withdrawals[v] + 0
              /\ l \in 0 .. time /\ rewarder'.lastRewardTime = l /\ time' = time
          BY <1>2, <1>9, <5>1
        <5>3. least = earned[v] - Precision * withdrawals[v] - Rounded * (MaxShares * l)  BY DEF Least
        <5>4. 0 \in {0, 1}  OBVIOUS
        <5> HIDE DEF least, most, l
        <5>5. /\ Most(v)' = Most(v)
              /\ Least(rewarder, v)' = earned[v] - Precision * withdrawals[v]
                                         - Rounded * (MaxShares * l) - (IF 0 = 1 THEN Precision ELSE 0)
          BY <1>1, <5>2, <5>4, BoundsChanged
        <5>6. Least(rewarder, v)' = least - 0  BY <5>3, <5>5
        <5> QED BY <4>1, <5>5, <5>6 DEF most
      <4> HIDE DEF least, has, most
      <4> QED BY <4>1, <4>2, <4>3
    <3>2. /\ Streamed(rewarder)' \in Nat
          /\ TotalShare' = 0 \/ Streamed(rewarder)' = 0
      <4> HIDE DEF r
      <4> QED BY <1>5, <1>9
    <3>3. TotalShare' \in Nat /\ \A v \in Users : UserShare(v)' \in Nat  BY <1>5
    <3> QED BY <3>1, <3>2, <3>3, AccountedSettled
  <2>4. IdleStreamed'
    <3>1. idle = IF TotalShare = 0 THEN Streamed(rewarder) ELSE 0  BY <2>1 DEF IdleStreamed
    <3>2. TotalShare = 0 => Streamed(rewarder)' = Streamed(rewarder)  BY <1>9
    <3>3. idle' = IF TotalShare' = 0 THEN Streamed(rewarder)' ELSE 0
      <4> HIDE DEF r
      <4> QED BY <1>2, <1>5, <3>1, <3>2
    <3> QED BY <3>3 DEF IdleStreamed
  <2> QED BY <2>2, <2>3, <2>4
<1> QED BY <1>10, <1>11, <1>12 DEF StakingInv

LEMMA FeedRewarderInv ==
    ASSUME StakingInv, NEW amount \in FeedAmounts, NEW duration \in MinPeriod .. MaxPeriod,
           FeedRewarder(amount, duration)
    PROVE  StakingInv'
<1> DEFINE F == ForceUpdate(rewarder)  a == F.accRewardPerShare  next == rewarder'
           left == LeftOver(rewarder)  rate == (left + amount) \div duration
           given == SumFunction(deposits)
<1>1. StakingTypes /\ SharesAddUp  BY DEF StakingInv
<1>2. /\ next = Feed(rewarder, amount, duration)
      /\ feeds' = feeds + 1 /\ idle' = 0
      /\ UNCHANGED <<time, stakes, earned, received, deposits, withdrawals, changes, undisturbed>>
  BY DEF FeedRewarder
<1>3. UNCHANGED <<marketIndices, rewarderMarkets, userTokenAmount, totalShares>>  BY <1>2 DEF stakes
<1>4. amount \in Nat /\ duration \in Nat \ {0} /\ Precision \in Nat /\ IsFiniteSet(Users)
  BY StakingAssumption
<1>5. /\ time \in Nat /\ rewarder \in Rewarders(time) /\ feeds \in Nat
      /\ deposits \in [Users -> Nat]
  BY <1>1 DEF StakingTypes
<1>6. /\ F \in Rewarders(time) /\ F.lastRewardTime = time
      /\ F.rewardRate = rewarder.rewardRate
      /\ F.rewardRateExpiredAt = rewarder.rewardRateExpiredAt
      /\ F.userRewardDebts = rewarder.userRewardDebts
      /\ F.balance = rewarder.balance
  BY <1>1, UpdateFacts
<1>7. /\ a \in Nat /\ rewarder.rewardRate \in Nat /\ rewarder.balance \in Nat
      /\ rewarder.userRewardDebts \in [Users -> Int]
  BY <1>5, <1>6 DEF Rewarders
<1>8. Ahead(F) \in Nat /\ left = Ahead(F) * F.rewardRate /\ left \in Nat
  <2>1. Ahead(F) \in Nat  BY <1>5, <1>6, TimeFacts
  <2>2. left = Ahead(F) * F.rewardRate  BY <1>6 DEF LeftOver, Ahead
  <2>3. left \in Nat
    <3> HIDE DEF F, left
    <3> QED BY <1>6, <1>7, <2>1, <2>2, MultiplyNat
  <2> QED BY <2>1, <2>2, <2>3
<1>9. rate \in Nat /\ duration * rate <= left + amount
  <2> DEFINE x == left + amount
  <2>1. x \in Nat  BY <1>4, <1>8
  <2> HIDE DEF x
  <2>2. x \div duration \in Nat /\ duration * (x \div duration) <= x  BY <1>4, <2>1, Divide
  <2> QED BY <2>2 DEF x
<1>10. /\ next \in Rewarders(time) /\ next.lastRewardTime = time /\ next.accRewardPerShare = a
       /\ next.rewardRate = rate /\ next.rewardRateExpiredAt = time + duration
       /\ next.userRewardDebts = rewarder.userRewardDebts
       /\ next.balance = rewarder.balance + amount
  <2>1. next = [F EXCEPT !.balance = @ + amount, !.rewardRate = rate,
                         !.rewardRateExpiredAt = time + duration]
    BY <1>2 DEF Feed
  <2> DEFINE b == F.balance  e == F.userRewardDebts  l == F.lastRewardTime
             n == F.rewardRate  c == F.rewardRateExpiredAt
  <2>2. /\ F = [lastRewardTime |-> l, accRewardPerShare |-> a, rewardRate |-> n,
                rewardRateExpiredAt |-> c, userRewardDebts |-> e, balance |-> b]
        /\ l \in 0 .. time /\ e \in [Users -> Int] /\ b \in Nat
    <3> HIDE DEF F
    <3> QED BY <1>6 DEF Rewarders
  <2> HIDE DEF F, a, b, e, l, n, c, next, rate
  <2>3. next = [lastRewardTime |-> l, accRewardPerShare |-> a, rewardRate |-> rate,
                rewardRateExpiredAt |-> time + duration, userRewardDebts |-> e, balance |-> b + amount]
    BY <2>1, <2>2
  <2>4. b + amount \in Nat /\ time + duration \in Nat  BY <1>4, <1>5, <2>2
  <2>5. next \in Rewarders(time)  BY <1>7, <1>9, <2>2, <2>3, <2>4 DEF Rewarders
  <2>6. l = time /\ e = rewarder.userRewardDebts /\ b = rewarder.balance  BY <1>6 DEF l, e, b
  <2> QED BY <2>3, <2>5, <2>6
<1>11. /\ TotalShare' = TotalShare /\ TotalShare \in Nat
       /\ \A v \in Users : UserShare(v)' = UserShare(v) /\ UserShare(v) \in Nat
  BY <1>1, <1>3, ShareFacts DEF TotalShare, UserShare
<1>12. Streamed(rewarder)' = 0
  <2>1. TimePast(rewarder)' = time - time
    <3>1. time < time + duration  BY <1>4, <1>5
    <3>2. TimePast(rewarder)' = IF time' < next.rewardRateExpiredAt THEN time' - next.lastRewardTime
                                ELSE Max({next.rewardRateExpiredAt - next.lastRewardTime, 0})
      BY DEF TimePast
    <3> HIDE DEF next
    <3> QED BY <1>2, <1>10, <3>1, <3>2
  <2>2. Streamed(rewarder)' = TimePast(rewarder)' * next.rewardRate * Precision  BY DEF Streamed
  <2>3. TimePast(rewarder)' = 0  BY <1>5, <2>1
  <2>4. Streamed(rewarder)' = 0 * rate * Precision  BY <1>10, <2>2, <2>3
  <2> HIDE DEF rate
  <2> QED BY <1>4, <1>9, <2>4
<1>13. StakingTypes'
  <2>1. feeds' \in Nat /\ idle' \in Nat  BY <1>2, <1>5
  <2> QED BY <1>1, <1>2, <1>3, <1>10, <2>1 DEF StakingTypes
<1>14. SharesAddUp'  BY <1>1, <1>3 DEF SharesAddUp
<1>15. ASSUME undisturbed' PROVE Solvent' /\ Accounted' /\ IdleStreamed'
  <2>1. Solvent /\ Accounted  BY <1>2, <1>15 DEF StakingInv
  <2>2. Solvent'
    <3> DEFINE t == TotalShare  b == rewarder.balance  sum == SumFunction(rewarder.userRewardDebts)
               f == Ahead(F)  n == F.rewardRate
    <3>1. given \in Int /\ sum \in Int
      <4>1. deposits \in [Users -> Int]  BY <1>5
      <4> QED BY <1>4, <1>7, <4>1, SumFunctionInt
    <3>2. t * a + Precision * (n * f) <= Precision * (b + given + sum)
      <4>1. SolventAs(F, TotalShare, given)  BY <1>1, <2>1, <3>1, UpdateSolvent DEF Solvent
      <4> QED BY <1>6, <4>1 DEF SolventAs
    <3>3. Ahead(next) = duration
      <4>1. Ahead(next) = Max({(time + duration) - time, 0})  BY <1>10 DEF Ahead
      <4>2. (time + duration) - time = duration  BY <1>4, <1>5
      <4>3. Max({duration, 0}) = duration
        <5>1. duration \in Int /\ duration > 0  BY <1>4
        <5> QED BY <5>1, MaxZero
      <4> QED BY <4>1, <4>2, <4>3
    <3>4. Solvent' <=> t * a + Precision * (rate * duration) <= Precision * ((b + amount) + given + sum)
      BY <1>2, <1>10, <1>11, <3>3 DEF Solvent, SolventAs
    <3>5. n * f = left /\ rate * duration = duration * rate /\ n \in Nat /\ f \in Nat
      <4>1. n \in Nat /\ f \in Nat  BY <1>6, <1>7, <1>8
      <4>2. f * n = left  BY <1>8
      <4> HIDE DEF n, f, rate, left
      <4> QED BY <1>4, <1>9, <4>1, <4>2, MultiplyAssoc
    <3> DEFINE y == rate * duration  j == b + given + sum  k == (b + amount) + given + sum
    <3>6. y \in Int /\ y <= left + amount /\ j \in Int /\ k = j + amount
      <4>1. y \in Int
        <5> HIDE DEF rate
        <5> QED BY <1>4, <1>9
      <4>2. b \in Int  BY <1>7
      <4> HIDE DEF b, given, sum, rate, left
      <4>3. y <= left + amount  BY <1>9, <3>5
      <4> QED BY <1>4, <3>1, <4>1, <4>2, <4>3
    <3>7. t * a \in Int  BY <1>7, <1>11
    <3>8. t * a + Precision * y <= Precision * k
      <4> HIDE DEF y, j, k, t, a, left, n, f
      <4>1. Precision * y <= Precision * (left + amount)  BY <1>4, <1>8, <3>6, MultiplyLeq
      <4>2. Precision * (left + amount) = Precision * left + Precision * amount
            /\ Precision * (j + amount) = Precision * j + Precision * amount
            /\ Precision * left \in Int /\ Precision * amount \in Int /\ Precision * j \in Int
            /\ Precision * y \in Int
        BY <1>4, <1>8, <3>6
      <4>3. t * a + Precision * left <= Precision * j  BY <3>2, <3>5 DEF j
      <4>4. Precision * k = Precision * (j + amount)  BY <3>6
      <4> QED BY <3>7, <4>1, <4>2, <4>3, <4>4
    <3> QED BY <3>4, <3>8
  <2>3. Accounted'
    <3>1. ASSUME NEW v \in Users
          PROVE  /\ Has(rewarder, v)' \in Int
                 /\ Least(rewarder, v)' \in Int /\ Most(v)' \in Int
                 /\ Least(rewarder, v)' <= Has(rewarder, v)' /\ Has(rewarder, v)' <= Most(v)'
      <4>1. /\ Has(F, v) \in Int /\ Least(F, v) \in Int /\ Most(v) \in Int
            /\ Least(F, v) <= Has(F, v) /\ Has(F, v) <= Most(v)
        BY <1>1, <2>1, UpdateAccounted
      <4>2. Has(rewarder, v)' = Has(F, v)
        <5>1. /\ next.accRewardPerShare = a /\ next.userRewardDebts = F.userRewardDebts
              /\ UserShare(v)' = UserShare(v) /\ received' = received
          BY <1>2, <1>6, <1>10, <1>11
        <5> QED BY <5>1 DEF Has
      <4>3. Least(rewarder, v)' = Least(F, v) /\ Most(v)' = Most(v)
        <5>1. next.lastRewardTime = F.lastRewardTime  BY <1>6, <1>10
        <5> QED BY <1>2, <5>1 DEF Least, Most
      <4> QED BY <4>1, <4>2, <4>3
    <3>2. Streamed(rewarder)' \in Nat /\ (TotalShare' = 0 \/ Streamed(rewarder)' = 0)  BY <1>12
    <3>3. TotalShare' \in Nat /\ \A v \in Users : UserShare(v)' \in Nat  BY <1>11
    <3> QED BY <3>1, <3>2, <3>3, AccountedSettled
  <2>4. IdleStreamed'  BY <1>2, <1>12 DEF IdleStreamed
  <2> QED BY <2>2, <2>3, <2>4
<1> QED BY <1>13, <1>14, <1>15 DEF StakingInv
LEMMA MarketsInv ==
    ASSUME StakingInv, NEW m \in Markets, AddRewarder(m) \/ RemoveRewarder(m)
    PROVE  StakingInv'
<1>1. StakingTypes /\ SharesAddUp  BY DEF StakingInv
<1>2. /\ UNCHANGED <<time, userTokenAmount, totalShares, rewarder, earned, received, idle,
                     deposits, withdrawals, feeds>>
      /\ changes' = changes + 1
      /\ rewarderMarkets' \in {rewarderMarkets \union {m}, rewarderMarkets \ {m}}
      /\ marketIndices' \in {marketIndices \union {m}, marketIndices}
      /\ undisturbed' \in BOOLEAN
      /\ undisturbed' => undisturbed /\ (rewarderMarkets' = rewarderMarkets \/ totalShares[m] = 0)
  <2>1. CASE AddRewarder(m)  BY <2>1 DEF AddRewarder
  <2>2. CASE RemoveRewarder(m)  BY <2>2 DEF RemoveRewarder
  <2> QED BY <2>1, <2>2
<1>3. StakingTypes'
  <2>1. changes' \in Nat /\ rewarderMarkets' \in SUBSET Markets /\ marketIndices' \in SUBSET Markets
    BY <1>1, <1>2 DEF StakingTypes
  <2> QED BY <1>1, <1>2, <2>1 DEF StakingTypes
<1>4. SharesAddUp'  BY <1>1, <1>2 DEF SharesAddUp
<1>5. CASE ~ undisturbed'  BY <1>3, <1>4, <1>5 DEF StakingInv
<1>6. CASE undisturbed'
  <2>1. TotalShare' = TotalShare /\ \A u \in Users : UserShare(u)' = UserShare(u)
    <3>1. CASE rewarderMarkets' = rewarderMarkets
      BY <1>2, <3>1 DEF TotalShare, UserShare
    <3>2. CASE totalShares[m] = 0
      <4>1. \/ rewarderMarkets' = rewarderMarkets \union {m}
            \/ rewarderMarkets' = rewarderMarkets \ {m}
        BY <1>2
      <4>2. UNCHANGED <<userTokenAmount, totalShares>>  BY <1>2
      <4> QED BY <1>1, <3>2, <4>1, <4>2, MarketChanged
    <3> QED BY <1>2, <1>6, <3>1, <3>2
  <2>2. undisturbed' => undisturbed  BY <1>2
  <2>3. UNCHANGED <<time, rewarder, earned, received, idle, deposits, withdrawals>>  BY <1>2
  <2> QED BY <1>3, <1>4, <2>1, <2>2, <2>3, SameAccounts
<1> QED BY <1>5, <1>6

\* The stream goes on for another tick, unless it has ended.
LEMMA TickStreams ==
    ASSUME StakingTypes, time' = time + 1, UNCHANGED rewarder, NEW y \in Nat,
           y = IF time < rewarder.rewardRateExpiredAt THEN rewarder.rewardRate * Precision ELSE 0
    PROVE  Streamed(rewarder)' = Streamed(rewarder) + y
<1> DEFINE x == rewarder.rewardRateExpiredAt  l == rewarder.lastRewardTime  n == rewarder.rewardRate
           p == TimePast(rewarder)  w == IF time < x THEN 1 ELSE 0
<1>1. time \in Nat /\ rewarder \in Rewarders(time) /\ Precision \in Nat
  BY RoundedFacts DEF StakingTypes
<1>2. x \in Nat /\ l \in Nat /\ l <= time /\ n \in Nat  BY <1>1 DEF Rewarders
<1>3. p \in Nat  BY <1>1, TimeFacts
<1>4. TimePast(rewarder)' = p + w
  <2>1. TimePast(rewarder)' = IF time + 1 < x THEN (time + 1) - l ELSE Max({x - l, 0})  BY DEF TimePast
  <2>2. p = IF time < x THEN time - l ELSE Max({x - l, 0})  BY DEF TimePast
  <2>3. Max({x - l, 0}) = IF x - l > 0 THEN x - l ELSE 0  BY <1>2, MaxZero
  <2> HIDE DEF x, l, p
  <2> QED BY <1>1, <1>2, <2>1, <2>2, <2>3
<1>5. Streamed(rewarder)' = (p + w) * n * Precision /\ Streamed(rewarder) = p * n * Precision
  BY <1>4 DEF Streamed
<1>6. y = w * n * Precision
  <2> HIDE DEF n
  <2>1. 0 * n * Precision = 0 /\ 1 * n * Precision = n * Precision  BY <1>1, <1>2
  <2> QED BY <2>1 DEF n
<1>7. (p + w) * n * Precision = p * n * Precision + w * n * Precision
  <2> DEFINE i == p * n  j == w * n
  <2>1. w \in Nat  OBVIOUS
  <2> HIDE DEF n, p, w
  <2>2. (p + w) * n = i + j /\ i \in Nat /\ j \in Nat  BY <1>2, <1>3, <2>1
  <2> HIDE DEF i, j
  <2>3. (i + j) * Precision = i * Precision + j * Precision  BY <1>1, <2>2
  <2> QED BY <2>2, <2>3 DEF i, j
<1> QED BY <1>5, <1>6, <1>7

LEMMA TickInv ==
    ASSUME StakingInv, Tick
    PROVE  StakingInv'
<1> DEFINE n == rewarder.rewardRate  x == Streamed(rewarder)  t == TotalShare
           y == IF time < rewarder.rewardRateExpiredAt THEN n * Precision ELSE 0
           e(v) == IF t = 0 THEN 0 ELSE (y * UserShare(v)) \div t
<1>1. StakingTypes /\ SharesAddUp  BY DEF StakingInv
<1>2. /\ time' = time + 1
      /\ earned' = [v \in Users |-> IF Shares = 0 THEN earned[v]
                                    ELSE earned[v] + (y * UserShare(v)) \div Shares]
      /\ idle' = IF Shares = 0 THEN idle + y ELSE idle
      /\ UNCHANGED <<stakes, rewarder, received, deposits, withdrawals, feeds, changes, undisturbed>>
  BY DEF Tick
<1>3. UNCHANGED <<marketIndices, rewarderMarkets, userTokenAmount, totalShares>>  BY <1>2 DEF stakes
<1>4. /\ time \in Nat /\ rewarder \in Rewarders(time) /\ earned \in [Users -> Nat] /\ idle \in Nat
      /\ Precision \in Nat /\ n \in Nat /\ Rounded \in {0, 1} /\ MaxShares \in Nat
  <2>1. rewarder \in Rewarders(time)  BY <1>1 DEF StakingTypes
  <2> QED BY <1>1, <2>1, RoundedFacts DEF StakingTypes, Rewarders
<1>5. /\ TotalShare' = t /\ t \in Nat /\ t <= MaxShares /\ Shares = t
      /\ \A v \in Users : UserShare(v)' = UserShare(v) /\ UserShare(v) \in Nat
  BY <1>1, <1>3, ShareFacts DEF TotalShare, UserShare
<1>6. y \in Nat  BY <1>4, MultiplyNat
<1>7. Streamed(rewarder)' = x + y /\ x \in Nat
  <2> HIDE DEF y
  <2>1. y = IF time < rewarder.rewardRateExpiredAt THEN rewarder.rewardRate * Precision ELSE 0  BY DEF y
  <2> QED BY <1>1, <1>2, <1>4, <1>6, <2>1, TickStreams, TimeFacts
<1>8. ASSUME NEW v \in Users
      PROVE  /\ e(v) \in Nat /\ earned'[v] = earned[v] + e(v)
             /\ IF t = 0 THEN e(v) = 0
                ELSE /\ t * e(v) <= y * UserShare(v) /\ y * UserShare(v) < t * e(v) + t
                     /\ Rounded = 0 => t * e(v) = y * UserShare(v)
  <2> DEFINE s == UserShare(v)  z == y * s
  <2>1. s \in Nat  BY <1>5
  <2>2. z \in Nat
    <3> HIDE DEF y, s
    <3> QED BY <1>6, <2>1, MultiplyNat
  <2>3. CASE t = 0
    <3>1. earned'[v] = earned[v] /\ earned[v] \in Nat  BY <1>2, <1>4, <1>5, <2>3
    <3> HIDE DEF t
    <3> QED BY <2>3, <3>1
  <2>4. CASE t # 0
    <3>1. t \in Nat \ {0} /\ t \in 1 .. MaxShares  BY <1>4, <1>5, <2>4
    <3>2. e(v) = z \div t /\ earned'[v] = earned[v] + e(v)  BY <1>2, <1>5, <2>4
    <3>3. Rounded = 0 => t * (z \div t) = z
      <4> DEFINE k == IF time < rewarder.rewardRateExpiredAt THEN n * s ELSE 0
      <4>1. k \in Nat
        <5> HIDE DEF n, s
        <5> QED BY <1>4, <2>1, MultiplyNat
      <4>2. z = k * Precision
        <5>1. (n * Precision) * s = (n * s) * Precision
          <6> HIDE DEF n, s
          <6>1. (n * Precision) * s = n * (Precision * s) /\ Precision * s = s * Precision
                /\ (n * s) * Precision = n * (s * Precision)
            BY <1>4, <2>1, MultiplyAssoc
          <6> QED BY <6>1
        <5>2. 0 * s = 0 /\ 0 * Precision = 0  BY <1>4, <2>1
        <5> HIDE DEF s, n
        <5> QED BY <5>1, <5>2
      <4> HIDE DEF k, z, t
      <4> QED BY <3>1, <4>1, <4>2, RoundedFacts
    <3> HIDE DEF z, t
    <3>4. z \div t \in Nat /\ t * (z \div t) <= z /\ z < t * (z \div t) + t  BY <2>2, <3>1, Divide
    <3> HIDE DEF e
    <3> QED BY <2>4, <3>2, <3>3, <3>4 DEF z
  <2> QED BY <2>3, <2>4
<1> HIDE DEF e
<1>9. StakingTypes'
  <2>1. earned' \in [Users -> Nat]
    <3>1. \A v \in Users : earned'[v] \in Nat
      <4> TAKE v \in Users
      <4>1. earned[v] \in Nat  BY <1>4
      <4> QED BY <1>8, <4>1
    <3> DEFINE E == earned'
    <3>2. E = [v \in Users |-> E[v]]  BY <1>2
    <3> HIDE DEF E
    <3> QED BY <3>1, <3>2 DEF E
  <2>2. rewarder \in Rewarders(time + 1)  BY <1>4 DEF Rewarders
  <2>3. idle' \in Nat /\ time' \in Nat
    <3> HIDE DEF y
    <3> QED BY <1>2, <1>4, <1>6
  <2> QED BY <1>1, <1>2, <1>3, <2>1, <2>2, <2>3 DEF StakingTypes
<1>10. SharesAddUp'  BY <1>1, <1>3 DEF SharesAddUp
<1>11. ASSUME undisturbed' PROVE Solvent' /\ Accounted' /\ IdleStreamed'
  <2>1. Solvent /\ Accounted /\ IdleStreamed  BY <1>2, <1>11 DEF StakingInv
  <2>2. Solvent'  BY <1>2, <1>5, <2>1 DEF Solvent, SolventAs, Ahead
  <2>3. Accounted'
    <3> SUFFICES ASSUME NEW v \in Users
                 PROVE  Between(TotalShare', UserShare(v)', Has(rewarder, v)', Streamed(rewarder)',
                                Least(rewarder, v)', Most(v)')
      BY DEF Accounted, Between
    <3> DEFINE s == UserShare(v)  has == Has(rewarder, v)  least == Least(rewarder, v)  most == Most(v)
               d == e(v)  z == x + y
    <3>1. Between(t, s, has, x, least, most)  BY <2>1 DEF Accounted
    <3>2. has \in Int /\ least \in Int /\ most \in Int
      <4> DEFINE i == rewarder.userRewardDebts[v]  a == rewarder.accRewardPerShare
                 l == rewarder.lastRewardTime
      <4>1. /\ i \in Int /\ a \in Nat /\ l \in Nat /\ received[v] \in Nat /\ earned[v] \in Nat
            /\ withdrawals[v] \in Nat /\ deposits[v] \in Nat /\ s \in Nat
        BY <1>1, <1>4, <1>5 DEF StakingTypes, Rewarders
      <4> HIDE DEF i, a, l, s
      <4>2. Precision * received[v] \in Int /\ s * a \in Int /\ Precision * i \in Int  BY <1>4, <4>1
      <4>3. MaxShares * l \in Nat  BY <1>4, <4>1, MultiplyNat
      <4>4. Precision * withdrawals[v] \in Int /\ Rounded * (MaxShares * l) \in Int
            /\ Precision * deposits[v] \in Int /\ Rounded * time \in Int
        BY <1>4, <4>1, <4>3
      <4>5. has \in Int
        <5>1. has = Precision * received[v] + s * a - Precision * i  BY DEF Has, s, a, i
        <5> HIDE DEF has
        <5> QED BY <4>2, <5>1
      <4>6. least \in Int
        <5>1. least = earned[v] - Precision * withdrawals[v] - Rounded * (MaxShares * l)  BY DEF Least, l
        <5> HIDE DEF least
        <5> QED BY <4>1, <4>4, <5>1
      <4>7. most \in Int
        <5>1. most = earned[v] + Precision * deposits[v] + Rounded * time  BY DEF Most
        <5> HIDE DEF most
        <5> QED BY <4>1, <4>4, <5>1
      <4> QED BY <4>5, <4>6, <4>7
    <3>3. Has(rewarder, v)' = has
      <4>1. UserShare(v)' = UserShare(v)  BY <1>5
      <4> QED BY <1>2, <4>1 DEF Has
    <3>4. Least(rewarder, v)' = least + d /\ Most(v)' = most + d + Rounded
      <4> DEFINE i == Precision * withdrawals[v]  j == Rounded * (MaxShares * rewarder.lastRewardTime)
                 k == Precision * deposits[v]  h == earned[v]
      <4>1. h \in Nat /\ withdrawals[v] \in Nat /\ deposits[v] \in Nat /\ rewarder.lastRewardTime \in Nat
        BY <1>1, <1>4 DEF StakingTypes, Rewarders
      <4>2. MaxShares * rewarder.lastRewardTime \in Nat  BY <1>4, <4>1, MultiplyNat
      <4>3. i \in Int /\ j \in Int /\ k \in Int  BY <1>4, <4>1, <4>2
      <4>4. least = h - i - j /\ Least(rewarder, v)' = (h + d) - i - j
        BY <1>2, <1>8 DEF Least
      <4>5. most = h + k + Rounded * time /\ Most(v)' = (h + d) + k + Rounded * (time + 1)
        BY <1>2, <1>8 DEF Most
      <4>6. Rounded * (time + 1) = Rounded * time + Rounded /\ Rounded * time \in Int /\ d \in Nat
        BY <1>4, <1>8
      <4> HIDE DEF h, i, j, k, d, least, most
      <4> QED BY <1>4, <4>1, <4>3, <4>4, <4>5, <4>6
    <3>5. /\ d \in Nat /\ s \in Nat /\ z \in Nat /\ z = x + y
          /\ IF t = 0 THEN d = 0 ELSE t * d <= y * s /\ y * s < t * d + t /\ (Rounded = 0 => t * d = y * s)
      <4> HIDE DEF t, y, x
      <4> QED BY <1>5, <1>6, <1>7, <1>8
    <3>6. UserShare(v)' = s /\ TotalShare' = t /\ Streamed(rewarder)' = z  BY <1>5, <1>7
    <3> HIDE DEF s, has, least, most, d, x, t, y, z
    <3>7. Between(t, s, has, z, least + d, most + d + Rounded)
      BY <1>4, <1>5, <1>6, <1>7, <3>1, <3>2, <3>5, BetweenTick
    <3> QED BY <3>3, <3>4, <3>6, <3>7
  <2>4. IdleStreamed'
    <3>1. idle = IF t = 0 THEN x ELSE 0  BY <2>1 DEF IdleStreamed
    <3>2. idle' = IF TotalShare' = 0 THEN Streamed(rewarder)' ELSE 0
      <4> HIDE DEF x, y, t
      <4> QED BY <1>2, <1>5, <1>7, <3>1
    <3> QED BY <3>2 DEF IdleStreamed
  <2> QED BY <2>2, <2>3, <2>4
<1> QED BY <1>9, <1>10, <1>11 DEF StakingInv
LEMMA OnIncreaseInv ==
    ASSUME StakingInv, NEW u \in Users, NEW m \in Markets, NEW sizeDelta \in SizeDeltas,
           OnIncreasePosition(u, m, sizeDelta)
    PROVE  StakingInv'
<1>1. sizeDelta \div SizeUnit \in Nat
  <2>1. sizeDelta \in Nat /\ SizeUnit \in Nat \ {0}  BY StakingAssumption
  <2> QED BY <2>1, Divide
<1>2. /\ SumFunction(totalShares) + sizeDelta \div SizeUnit <= MaxShares
      /\ Deposit(u, m, sizeDelta \div SizeUnit)
  BY DEF OnIncreasePosition
<1> QED BY <1>1, <1>2, DepositInv

LEMMA OnDecreaseInv ==
    ASSUME StakingInv, NEW u \in Users, NEW m \in Markets, NEW sizeDelta \in SizeDeltas,
           OnDecreasePosition(u, m, sizeDelta)
    PROVE  StakingInv'
<1> DEFINE a == sizeDelta \div SizeUnit  b == userTokenAmount[m][u]  amount == Min({a, b})
<1>1. a \in Nat
  <2>1. sizeDelta \in Nat /\ SizeUnit \in Nat \ {0}  BY StakingAssumption
  <2> QED BY <2>1, Divide
<1>2. b \in Nat  BY DEF StakingInv, StakingTypes
<1>3. Withdraw(u, m, amount)  BY DEF OnDecreasePosition
<1>4. amount \in Nat
  <2> HIDE DEF a, b
  <2>1. \E x \in {a, b} : \A y \in {a, b} : x <= y
    <3>1. CASE a <= b  BY <1>1, <3>1
    <3>2. CASE b <= a  BY <1>2, <3>2
    <3> QED BY <1>1, <1>2, <3>1, <3>2
  <2>2. amount \in {a, b}  BY <2>1 DEF Min
  <2> QED BY <1>1, <1>2, <2>2
<1> HIDE DEF amount
<1> QED BY <1>3, <1>4, WithdrawInv

LEMMA StakingNextInv == StakingInv /\ [Next]_vars => StakingInv'
<1> SUFFICES ASSUME StakingInv, [Next]_vars PROVE StakingInv'  OBVIOUS
<1>1. ASSUME NEW u \in Users, NEW m \in Markets, NEW d \in SizeDeltas, OnIncreasePosition(u, m, d)
      PROVE  StakingInv'
  BY <1>1, OnIncreaseInv
<1>2. ASSUME NEW u \in Users, NEW m \in Markets, NEW d \in SizeDeltas, OnDecreasePosition(u, m, d)
      PROVE  StakingInv'
  BY <1>2, OnDecreaseInv
<1>3. ASSUME NEW u \in Users, Harvest(u) PROVE StakingInv'  BY <1>3, HarvestInv
<1>4. ASSUME NEW amount \in FeedAmounts, NEW duration \in MinPeriod .. MaxPeriod,
             FeedRewarder(amount, duration)
      PROVE  StakingInv'
  BY <1>4, FeedRewarderInv
<1>5. ASSUME NEW m \in Markets, AddRewarder(m) \/ RemoveRewarder(m) PROVE StakingInv'
  BY <1>5, MarketsInv
<1>6. CASE Tick  BY <1>6, TickInv
<1>7. CASE UNCHANGED vars
  <2>1. /\ UNCHANGED <<time, marketIndices, rewarderMarkets, userTokenAmount, totalShares, rewarder,
                       earned, received, idle, deposits, withdrawals, feeds, changes, undisturbed>>
    BY <1>7 DEF vars, stakes, history
  <2>2. StakingTypes' /\ SharesAddUp'  BY <2>1 DEF StakingInv, StakingTypes, SharesAddUp
  <2>3. TotalShare' = TotalShare /\ \A u \in Users : UserShare(u)' = UserShare(u)
    BY <2>1 DEF TotalShare, UserShare
  <2> QED BY <2>1, <2>2, <2>3, SameAccounts
<1> QED BY <1>1, <1>2, <1>3, <1>4, <1>5, <1>6, <1>7 DEF Next

-----------------------------------------------------------------------------
\* What the accounts may harvest now.

\* All that may be harvested is at most what the shares are promised.
LEMMA PendingAtMost ==
    ASSUME StakingTypes, SharesAddUp
    PROVE  LET r == Update(rewarder)
               all == SumFunction([u \in Users |-> PendingReward(u)])
           IN  /\ all \in Int
               /\ Precision * (all + SumFunction(r.userRewardDebts)) <= TotalShare * r.accRewardPerShare
<1> DEFINE r == Update(rewarder)  a == r.accRewardPerShare  d == r.userRewardDebts
           share == [u \in Users |-> UserShare(u)]
           due == [u \in Users |-> Rewards(r, UserShare(u))]
           pending == [u \in Users |-> PendingReward(u)]
           none == [u \in Users |-> 0]
           low == [u \in Users |-> 0 + Precision * due[u]]
           high == [u \in Users |-> 0 + a * share[u]]
<1>1. /\ IsFiniteSet(Users) /\ share \in [Users -> Nat] /\ SumFunction(share) = TotalShare
      /\ TotalShare \in Nat /\ \A u \in Users : UserShare(u) \in Nat
  BY ShareFacts DEF Shares
<1>2. time \in Nat /\ r \in Rewarders(time) /\ Precision \in Nat
  BY UpdateFacts, RoundedFacts DEF StakingTypes
<1>3. a \in Nat /\ d \in [Users -> Int]  BY <1>2 DEF Rewarders
<1>4. ASSUME NEW u \in Users
      PROVE  /\ due[u] \in Nat /\ low[u] \in Int /\ high[u] \in Int /\ low[u] <= high[u]
             /\ pending[u] = due[u] - d[u] /\ pending[u] \in Int
  <2> DEFINE s == UserShare(u)  k == Rewards(r, s)
  <2>1. s \in Nat  BY <1>1
  <2>2. k \in Nat /\ Precision * k <= s * a
    <3> HIDE DEF s
    <3> QED BY <1>2, <2>1, RewardsFacts
  <2>3. d[u] \in Int /\ pending[u] = k - d[u] /\ due[u] = k
        /\ high[u] = 0 + a * s /\ low[u] = 0 + Precision * k
    BY <1>3 DEF PendingReward, Pending
  <2> HIDE DEF s, k, a, d, pending, due, high, low, r
  <2>4. a * s = s * a /\ a * s \in Int /\ Precision * k \in Int  BY <1>2, <1>3, <2>1, <2>2
  <2> QED BY <2>2, <2>3, <2>4
<1>5. due \in [Users -> Int] /\ pending \in [Users -> Int] /\ low \in [Users -> Int]
      /\ high \in [Users -> Int] /\ share \in [Users -> Int]
  <2>1. due \in [Users -> Int]  BY <1>4
  <2>2. pending \in [Users -> Int]  BY <1>4
  <2>3. low \in [Users -> Int]  BY <1>4
  <2>4. high \in [Users -> Int]  BY <1>4
  <2> QED BY <1>1, <2>1, <2>2, <2>3, <2>4
<1>6. /\ none \in [Users -> Int] /\ \A u \in Users : none[u] = 0
      /\ \A u \in Users : low[u] = none[u] + Precision * due[u]
      /\ \A u \in Users : high[u] = none[u] + a * share[u]
  OBVIOUS
<1> HIDE DEF share, due, pending, none, low, high, d, a
<1>7. SumFunction(low) = Precision * SumFunction(due)
  <2>1. Precision \in Int  BY <1>2
  <2>2. SumFunction(low) = SumFunction(none) + Precision * SumFunction(due)
    BY <1>1, <1>5, <1>6, <2>1, SumFunctionLinear
  <2>3. SumFunction(none) = 0 /\ SumFunction(due) \in Int
    BY <1>1, <1>5, <1>6, SumFunctionZero, SumFunctionInt
  <2>4. Precision * SumFunction(due) \in Int  BY <2>1, <2>3
  <2> QED BY <2>2, <2>3, <2>4
<1>8. SumFunction(high) = a * TotalShare
  <2>1. a \in Int /\ IsFiniteSet(Users)  BY <1>1, <1>3
  <2>2. SumFunction(high) = SumFunction(none) + a * SumFunction(share)
    BY <1>5, <1>6, <2>1, SumFunctionLinear
  <2>3. SumFunction(none) = 0  BY <1>1, <1>6, SumFunctionZero
  <2>4. a * TotalShare \in Int  BY <1>1, <2>1
  <2> QED BY <1>1, <2>2, <2>3, <2>4
<1>9. SumFunction(low) <= SumFunction(high)  BY <1>1, <1>4, <1>5, SumFunctionLeq
<1>10. SumFunction(pending) = SumFunction(due) - SumFunction(d)
       /\ SumFunction(due) \in Int /\ SumFunction(d) \in Int
  BY <1>1, <1>3, <1>4, <1>5, SumFunctionMinus, SumFunctionInt
<1>11. SumFunction(pending) + SumFunction(d) = SumFunction(due) /\ SumFunction(pending) \in Int
  BY <1>10
<1>12. a * TotalShare = TotalShare * a  BY <1>1, <1>3
<1>13. Precision * (SumFunction(pending) + SumFunction(d)) <= TotalShare * a
  BY <1>7, <1>8, <1>9, <1>11, <1>12
<1> QED BY <1>11, <1>13 DEF pending, d, a

LEMMA FundedHolds == StakingInv => Funded
<1> SUFFICES ASSUME StakingInv, undisturbed
             PROVE  LET r == Update(rewarder)
                    IN  SumFunction([u \in Users |-> PendingReward(u)])
                          + (TimePast(r) + Max({r.rewardRateExpiredAt - time, 0})) * r.rewardRate
                            <= r.balance + SumFunction(deposits)
  BY DEF Funded
<1> DEFINE r == Update(rewarder)  all == SumFunction([u \in Users |-> PendingReward(u)])
           given == SumFunction(deposits)  d == SumFunction(r.userRewardDebts)
           p == TimePast(r)  left == Max({r.rewardRateExpiredAt - time, 0})
           n == r.rewardRate  b == r.balance  share == TotalShare * r.accRewardPerShare
           flow == n * Ahead(r)
<1>1. StakingTypes /\ SharesAddUp /\ Solvent  BY DEF StakingInv
<1>2. /\ time \in Nat /\ r \in Rewarders(time) /\ Precision \in Nat \ {0} /\ IsFiniteSet(Users)
      /\ TotalShare \in Nat /\ deposits \in [Users -> Nat]
  BY <1>1, UpdateFacts, ShareFacts, RoundedFacts DEF StakingTypes
<1>3. /\ n \in Nat /\ b \in Nat /\ r.accRewardPerShare \in Nat
      /\ r.userRewardDebts \in [Users -> Int]
  BY <1>2 DEF Rewarders
<1>4. given \in Int /\ d \in Int
  <2>1. deposits \in [Users -> Int]  BY <1>2
  <2> HIDE DEF r
  <2> QED BY <1>2, <1>3, <2>1, SumFunctionInt
<1>5. all \in Int /\ Precision * (all + d) <= share  BY <1>1, PendingAtMost
<1>6. share + Precision * flow <= Precision * (b + given + d)
  <2>1. SolventAs(rewarder, TotalShare, given)  BY <1>1 DEF Solvent
  <2> HIDE DEF given
  <2>2. SolventAs(r, TotalShare, given)  BY <1>1, <1>4, <2>1, UpdateSolvent
  <2> QED BY <2>2 DEF SolventAs
<1>7. (p + left) * n = flow /\ flow \in Nat
  <2> DEFINE ahead == Ahead(r)
  <2>1. p \in Nat /\ ahead \in Nat /\ left = ahead - p  BY <1>2, TimeFacts
  <2> HIDE DEF p, left, n, r, ahead
  <2>2. p + left = ahead  BY <2>1
  <2>3. ahead * n = n * ahead /\ n * ahead \in Nat  BY <1>3, <2>1, MultiplyAssoc, MultiplyNat
  <2> QED BY <2>2, <2>3 DEF ahead
<1>8. share \in Int  BY <1>2, <1>3
<1>9. all + flow <= b + given
  <2> HIDE DEF all, d, share, flow, b, given
  <2>1. Precision * (all + d + flow) <= Precision * (b + given + d)
    <3>1. all + d \in Int /\ flow \in Int /\ b + given + d \in Int  BY <1>3, <1>4, <1>5, <1>7 DEF b
    <3> DEFINE i == all + d  j == b + given + d
    <3> HIDE DEF i, j
    <3>2. Precision * (i + flow) = Precision * i + Precision * flow  BY <1>2, <3>1 DEF i
    <3>3. Precision * i \in Int /\ Precision * flow \in Int /\ Precision * j \in Int
      BY <1>2, <3>1 DEF i, j
    <3>4. Precision * i <= share /\ share + Precision * flow <= Precision * j
      BY <1>5, <1>6 DEF i, j
    <3>5. Precision * (i + flow) <= Precision * j  BY <1>8, <3>2, <3>3, <3>4
    <3> QED BY <3>5 DEF i, j
  <2>2. b \in Int  BY <1>3 DEF b
  <2>3. all + d + flow \in Int /\ b + given + d \in Int  BY <1>4, <1>5, <1>7, <2>2
  <2>4. all + d + flow <= b + given + d  BY <1>2, <2>1, <2>3, MultiplyLeqConverse
  <2> QED BY <1>4, <1>5, <1>7, <2>2, <2>4
<1> QED BY <1>7, <1>9

LEMMA EarnedHolds == StakingInv => EarnedExactly
<1> SUFFICES ASSUME StakingInv, undisturbed, NEW u \in Users
             PROVE  LET due == Precision * (received[u] + PendingReward(u))
                    IN  /\ due <= earned[u] + Precision * deposits[u] + Rounded * time
                        /\ due > earned[u] - Precision * (withdrawals[u] + 1)
                                   - Rounded * (MaxShares * time)
  BY DEF EarnedExactly
<1> DEFINE r == Update(rewarder)  s == UserShare(u)  a == r.accRewardPerShare
           k == Rewards(r, s)  d == r.userRewardDebts[u]  l == r.lastRewardTime
           due == Precision * (received[u] + PendingReward(u))
           has == Has(r, u)  most == Most(u)  least == Least(r, u)
<1>1. StakingTypes /\ SharesAddUp /\ Accounted  BY DEF StakingInv
<1>2. /\ time \in Nat /\ r \in Rewarders(time) /\ Precision \in Nat /\ Rounded \in {0, 1}
      /\ MaxShares \in Nat /\ s \in Nat
      /\ received[u] \in Nat /\ earned[u] \in Nat /\ deposits[u] \in Nat /\ withdrawals[u] \in Nat
  BY <1>1, UpdateFacts, ShareFacts, RoundedFacts DEF StakingTypes
<1>3. a \in Nat /\ d \in Int /\ l \in Nat /\ l <= time  BY <1>2 DEF Rewarders
<1>4. has \in Int /\ least \in Int /\ most \in Int /\ least <= has /\ has <= most
  BY <1>1, UpdateAccounted
<1>5. k \in Nat /\ s * a \in Nat /\ Precision * k <= s * a /\ s * a < Precision * k + Precision
  <2> HIDE DEF s
  <2> QED BY <1>2, RewardsFacts
<1>6. due <= has /\ due > has - Precision /\ due \in Int
  <2> DEFINE g == received[u]  i == Precision * g  j == Precision * k  h == Precision * d  x == s * a
  <2>1. has = i + x - h  BY DEF Has
  <2>2. due = Precision * (g + (k - d))  BY DEF PendingReward, Pending
  <2> HIDE DEF has, due, k, d, s, a, g
  <2>3. i \in Int /\ j \in Int /\ h \in Int  BY <1>2, <1>3, <1>5 DEF g
  <2>4. Precision * (g + (k - d)) = i + j - h
    <3>1. Precision * (g + (k - d)) = Precision * g + Precision * (k - d)
          /\ Precision * (k - d) = Precision * k - Precision * d
      BY <1>2, <1>3, <1>5, MultiplyOver DEF g
    <3> HIDE DEF i, j, h
    <3> QED BY <2>3, <3>1 DEF i, j, h
  <2>5. j <= x /\ x < j + Precision /\ x \in Int  BY <1>5
  <2> HIDE DEF i, j, h, x
  <2> QED BY <1>2, <2>1, <2>2, <2>3, <2>4, <2>5
<1>7. most = earned[u] + Precision * deposits[u] + Rounded * time  BY DEF Most
<1>8. earned[u] - Precision * (withdrawals[u] + 1) - Rounded * (MaxShares * time) <= least - Precision
  <2> DEFINE e == earned[u]  w == withdrawals[u]  i == Precision * w
             x == MaxShares * l  y == MaxShares * time
  <2>1. least = e - i - Rounded * x  BY DEF Least
  <2>2. x \in Nat /\ y \in Nat /\ x <= y
    <3> HIDE DEF l
    <3> QED BY <1>2, <1>3, MultiplyLeq, MultiplyNat
  <2>3. Precision * (w + 1) = i + Precision /\ i \in Int  BY <1>2
  <2> HIDE DEF x, y, least, e, w, i
  <2>4. Rounded * x <= Rounded * y /\ Rounded * x \in Int /\ Rounded * y \in Int
    <3>1. Rounded \in Nat /\ x \in Int /\ y \in Int  BY <1>2, <2>2
    <3> QED BY <2>2, <3>1, MultiplyLeq
  <2>5. e \in Int  BY <1>2 DEF e
  <2>6. e - (i + Precision) - Rounded * y <= least - Precision  BY <1>2, <2>1, <2>3, <2>4, <2>5
  <2> QED BY <2>3, <2>6 DEF e, w, y
<1>9. earned[u] - Precision * (withdrawals[u] + 1) - Rounded * (MaxShares * time) \in Int
  <2>1. MaxShares * time \in Nat  BY <1>2, MultiplyNat
  <2>2. Rounded * (MaxShares * time) \in Int /\ Precision * (withdrawals[u] + 1) \in Int
    BY <1>2, <2>1
  <2> QED BY <1>2, <2>2
<1> DEFINE low == earned[u] - Precision * (withdrawals[u] + 1) - Rounded * (MaxShares * time)
<1> HIDE DEF due, has, most, least, low
<1>10. due <= most /\ due > low
  <2>1. low <= least - Precision /\ low \in Int  BY <1>8, <1>9 DEF low
  <2> QED BY <1>2, <1>4, <1>6, <2>1
<1> QED BY <1>7, <1>10 DEF due, low

\* However feeds, deposits and withdrawals come, the rewarder holds what every
\* account may harvest and what it has yet to stream, but for one unit for each
\* deposit (FeedableRewarder._feed and _timePast, onDeposit, onWithdraw, onHarvest).
THEOREM RewardsAreFunded == Spec => []Funded
<1>1. Init => StakingInv  BY StakingInitInv
<1>2. StakingInv /\ [Next]_vars => StakingInv'  BY StakingNextInv
<1>3. StakingInv => Funded  BY FundedHolds
<1> QED BY <1>1, <1>2, <1>3, PTL DEF Spec

\* What an account has harvested and may harvest is its part of the stream, tick
\* by tick, while its stakes were there, though the rewarder looks at the time
\* only when it is called (FeedableRewarder._updateRewardCalculationParams, the
\* debts of onDeposit, onWithdraw and onHarvest).
THEOREM RewardsAreEarned == Spec => []EarnedExactly
<1>1. Init => StakingInv  BY StakingInitInv
<1>2. StakingInv /\ [Next]_vars => StakingInv'  BY StakingNextInv
<1>3. StakingInv => EarnedExactly  BY EarnedHolds
<1> QED BY <1>1, <1>2, <1>3, PTL DEF Spec
=============================================================================
