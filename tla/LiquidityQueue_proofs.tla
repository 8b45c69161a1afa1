------------------------ MODULE LiquidityQueue_proofs ------------------------
(***************************************************************************)
(* The order queue, of either handler, for every number of users, tokens   *)
(* and orders and every chunk: its types, that no order is left behind the *)
(* execution index, that it implements the abstract handler and can refund *)
(* what it holds.                                                          *)
(***************************************************************************)
EXTENDS LiquidityQueue, Sums, TLAPS, FiniteSetTheorems

\* Numbers in the order of the array.
LEMMA IdsFacts == IsFiniteSet(Ids) /\ Ids \in SUBSET Nat
<1>1. MaxOrders \in Nat  BY QueueAssumption
<1>2. IsFiniteSet(0..(MaxOrders - 1))  BY <1>1, FS_Interval
<1> QED BY <1>1, <1>2 DEF Ids

\* An order's escrow is a function to the naturals.
LEMMA EscrowNat == \A o \in Orders : Escrow(o) \in [Tokens -> Nat] /\ Refund(o) = Escrow(o)
<1> SUFFICES ASSUME NEW o \in Orders PROVE Escrow(o) \in [Tokens -> Nat] /\ Refund(o) = Escrow(o)
  OBVIOUS
<1>1. o.fee \in Nat /\ (o.kind \in LiquidityKinds => o.amount \in Nat)
  BY OrderAssumption DEF Orders, LiquidityKinds, WithdrawKinds, ExtKinds, DataKinds
<1>2. Deposit(o) \in [Tokens -> Nat]  BY <1>1 DEF Deposit, LiquidityKinds
<1>3. ExecutionFee(o) \in [Tokens -> Nat]  BY <1>1 DEF ExecutionFee
<1> QED BY <1>2, <1>3 DEF Escrow, Refund

\* What a set of pending orders put in is a natural number.
LEMMA DueNat ==
    ASSUME TypeOK, NEW S \in SUBSET DOMAIN liquidityOrders, NEW t \in Tokens
    PROVE  Due(S, t) \in Nat
<1> DEFINE f == [id \in Ids |-> IF id \in S THEN Escrow(liquidityOrders[id])[t] ELSE 0]
<1>1. \A id \in S : Escrow(liquidityOrders[id])[t] \in Nat
  BY EscrowNat DEF TypeOK
<1>2. f \in [Ids -> Nat]  BY <1>1
<1> HIDE DEF f
<1>3. SumFunction(f) \in Nat  BY <1>2, IdsFacts, SumFunctionNat
<1> QED BY <1>3 DEF Due, f

-----------------------------------------------------------------------------
\* The inductive invariant.
IndInv == TypeOK /\ NothingSkipped

LEMMA InitInv == Init => IndInv
BY QueueAssumption DEF Init, IndInv, TypeOK, NothingSkipped, Ids

LEMMA CreateInv ==
    ASSUME IndInv, NEW o \in Orders, CreateOrder(o)
    PROVE  IndInv'
<1>1. TypeOK /\ NothingSkipped  BY DEF IndInv
<1>2. length \in Nat /\ length < MaxOrders /\ length \in Ids /\ length' = length + 1
  BY <1>1, QueueAssumption DEF TypeOK, CreateOrder, Ids
<1>3. DOMAIN liquidityOrders' = DOMAIN liquidityOrders \cup {length}  BY DEF CreateOrder
<1>4. \A id \in DOMAIN liquidityOrders' : liquidityOrders'[id] \in Orders
  BY <1>1 DEF CreateOrder, TypeOK
<1>5. held' \in [Tokens -> Nat]
  <2>1. Escrow(o) \in [Tokens -> Nat]  BY EscrowNat
  <2>2. held \in [Tokens -> Nat]  BY <1>1 DEF TypeOK
  <2> QED BY <2>1, <2>2 DEF CreateOrder
<1>6. TypeOK'
  <2>1. UNCHANGED <<nextExecutionOrderIndex, executed>>  BY DEF CreateOrder
  <2> QED BY <1>1, <1>2, <1>3, <1>4, <1>5, <2>1, QueueAssumption DEF TypeOK
<1>7. NothingSkipped'
  <2>1. nextExecutionOrderIndex' = nextExecutionOrderIndex  BY DEF CreateOrder
  <2>2. nextExecutionOrderIndex \in Nat  BY <1>1, QueueAssumption DEF TypeOK
  <2>3. \A id \in DOMAIN liquidityOrders : id \in Nat  BY <1>1, IdsFacts DEF TypeOK
  <2> QED BY <1>1, <1>2, <1>3, <2>1, <2>2, <2>3 DEF NothingSkipped
<1> QED BY <1>6, <1>7 DEF IndInv

\* Where a batch ends.
LEMMA EndIndexFacts ==
    ASSUME IndInv, NEW endIndex \in 0..MaxOrders,
           nextExecutionOrderIndex # length, nextExecutionOrderIndex <= endIndex
    PROVE  /\ EndIndex(endIndex) \in Nat
           /\ nextExecutionOrderIndex <= EndIndex(endIndex) /\ EndIndex(endIndex) < length
<1>1. /\ nextExecutionOrderIndex \in Nat /\ length \in Nat /\ endIndex \in Nat
      /\ nextExecutionOrderIndex < length
      /\ Chunk \in Nat /\ Chunk > 0
  BY QueueAssumption DEF IndInv, TypeOK, NothingSkipped, Chunk
<1> QED BY <1>1 DEF EndIndex

LEMMA ExecuteInv ==
    ASSUME IndInv, NEW endIndex \in 0..MaxOrders, NEW failed, ExecuteOrder(endIndex, failed)
    PROVE  IndInv'
<1> DEFINE last == EndIndex(endIndex)
           batch == Batch(last)
<1>1. TypeOK /\ NothingSkipped  BY DEF IndInv
<1>2. last \in Nat /\ nextExecutionOrderIndex <= last /\ last < length
  BY EndIndexFacts DEF ExecuteOrder
<1>3. batch \in SUBSET DOMAIN liquidityOrders  BY DEF Batch
<1>4. /\ liquidityOrders' = Without(batch) /\ nextExecutionOrderIndex' = last + 1
      /\ length' = length
  BY DEF ExecuteOrder, NextIndex
<1>5. held' \in [Tokens -> Nat]
  <2>1. /\ held' = [t \in Tokens |-> held[t] - Due(batch, t)]
        /\ \A t \in Tokens : Due(batch, t) <= held[t]
    BY DEF ExecuteOrder
  <2>2. held \in [Tokens -> Nat]  BY <1>1 DEF TypeOK
  <2>3. \A t \in Tokens : Due(batch, t) \in Nat  BY <1>1, <1>3, DueNat
  <2> HIDE DEF batch
  <2> QED BY <2>1, <2>2, <2>3
<1>6. executed' \in SUBSET (Ids \X Statuses)
  <2>1. executed' = executed \cup
          {<<id, IF id \in failed THEN "FAIL" ELSE "SUCCESS">> : id \in batch}
    BY DEF ExecuteOrder
  <2>2. batch \in SUBSET Ids  BY <1>1, <1>3 DEF TypeOK
  <2> HIDE DEF batch
  <2> QED BY <1>1, <2>1, <2>2 DEF TypeOK, Statuses
<1>7. TypeOK'
  <2>1. DOMAIN liquidityOrders' = DOMAIN liquidityOrders \ batch
        /\ \A id \in DOMAIN liquidityOrders' : liquidityOrders'[id] = liquidityOrders[id]
    BY <1>4 DEF Without
  <2>2. nextExecutionOrderIndex' \in 0..MaxOrders
    <3>1. length \in 0..MaxOrders /\ nextExecutionOrderIndex \in 0..MaxOrders  BY <1>1 DEF TypeOK
    <3> HIDE DEF last
    <3> QED BY <1>2, <1>4, <3>1, QueueAssumption
  <2> HIDE DEF batch, last
  <2> QED BY <1>1, <1>4, <1>5, <1>6, <2>1, <2>2 DEF TypeOK
<1>8. NothingSkipped'
  <2>1. length \in Nat /\ nextExecutionOrderIndex \in Nat
    BY <1>1, QueueAssumption DEF TypeOK
  <2>2. ASSUME NEW id \in DOMAIN liquidityOrders' PROVE last + 1 <= id /\ id < length
    <3>1. id \in DOMAIN liquidityOrders /\ id \notin batch  BY <1>4 DEF Without
    <3>2. id \in Nat  BY <1>1, <3>1, IdsFacts DEF TypeOK
    <3>3. ~(nextExecutionOrderIndex <= id /\ id <= last)  BY <3>1 DEF Batch
    <3>4. nextExecutionOrderIndex <= id /\ id < length  BY <1>1, <3>1 DEF NothingSkipped
    <3> HIDE DEF last, batch
    <3> QED BY <1>2, <2>1, <3>2, <3>3, <3>4
  <2> HIDE DEF last, batch
  <2> QED BY <1>2, <1>4, <2>1, <2>2 DEF NothingSkipped
<1> QED BY <1>7, <1>8 DEF IndInv

LEMMA CancelInv ==
    ASSUME IndInv, NEW id \in Ids, CancelLiquidityOrder(id)
    PROVE  IndInv'
<1>1. TypeOK /\ NothingSkipped  BY DEF IndInv
<1>2. /\ DOMAIN liquidityOrders' = DOMAIN liquidityOrders \ {id}
      /\ \A x \in DOMAIN liquidityOrders' : liquidityOrders'[x] = liquidityOrders[x]
      /\ UNCHANGED <<length, nextExecutionOrderIndex, executed>>
  BY DEF CancelLiquidityOrder, Remaining, Without
<1>3. held' \in [Tokens -> Nat]
  <2>1. id \in DOMAIN liquidityOrders /\ liquidityOrders[id] \in Orders
    BY <1>1 DEF TypeOK, CancelLiquidityOrder
  <2>2. Refund(liquidityOrders[id]) \in [Tokens -> Nat]  BY <2>1, EscrowNat
  <2>3. held \in [Tokens -> Nat]  BY <1>1 DEF TypeOK
  <2> QED BY <2>2, <2>3 DEF CancelLiquidityOrder
<1>4. TypeOK'  BY <1>1, <1>2, <1>3 DEF TypeOK
<1>5. NothingSkipped'  BY <1>1, <1>2 DEF NothingSkipped
<1> QED BY <1>4, <1>5 DEF IndInv

LEMMA NextInv == IndInv /\ [Next]_vars => IndInv'
<1> SUFFICES ASSUME IndInv, [Next]_vars PROVE IndInv'
  OBVIOUS
<1>1. ASSUME NEW o \in Orders, CreateOrder(o) PROVE IndInv'  BY <1>1, CreateInv
<1>2. ASSUME NEW id \in Ids, CancelLiquidityOrder(id) PROVE IndInv'  BY <1>2, CancelInv
<1>3. CASE Execution  BY <1>3, ExecuteInv DEF Execution
<1>4. CASE UNCHANGED vars
  BY <1>4 DEF vars, IndInv, TypeOK, NothingSkipped
<1> QED BY <1>1, <1>2, <1>3, <1>4 DEF Next

\* Every counter and balance of the queue stays in its type.
THEOREM QueueTypes == Spec => []TypeOK
<1>1. IndInv => TypeOK  BY DEF IndInv
<1> QED BY <1>1, InitInv, NextInv, PTL DEF Spec

\* No order is left behind the execution index, where it could be neither
\* executed nor cancelled (LiquidityHandler.executeOrder).
THEOREM NoOrderLeftBehind == Spec => []NothingSkipped
<1>1. IndInv => NothingSkipped  BY DEF IndInv
<1> QED BY <1>1, InitInv, NextInv, PTL DEF Spec

-----------------------------------------------------------------------------
\* The states of the abstract handler, for a state of the queue.
Fates == [id \in Ids |-> Fate(id)]
Puts == [id \in Ids |-> Put(id)]

\* The two modules mean the same by the sum of a function.
LEMMA SameSum == \A f : Handler!SumFunction(f) = SumFunction(f)
BY DEF Handler!SumFunction, Handler!SumFunctionOnSet, Handler!FoldFunctionOnSet, Handler!MapThenFoldSet,
       SumFunction, SumFunctionOnSet, FoldFunctionOnSet, MapThenFoldSet

\* What an abstract settlement takes is what the queue pays for it.
LEMMA TakenIsDue ==
    ASSUME TypeOK, NEW S \in SUBSET DOMAIN liquidityOrders, NEW t \in Tokens
    PROVE  Handler!Taken(S, t) = Due(S, t)
<1>1. \A id \in Ids : id \in S => Put(id)[t] = Escrow(liquidityOrders[id])[t]
  BY DEF Put
<1>2. [id \in Ids |-> IF id \in S THEN [x \in Ids |-> Put(x)][id][t] ELSE 0]
      = [id \in Ids |-> IF id \in S THEN Escrow(liquidityOrders[id])[t] ELSE 0]
  BY <1>1
<1> DEFINE f == [id \in Ids |-> IF id \in S THEN [x \in Ids |-> Put(x)][id][t] ELSE 0]
           g == [id \in Ids |-> IF id \in S THEN Escrow(liquidityOrders[id])[t] ELSE 0]
<1>3. Handler!Taken(S, t) = SumFunction(f)  BY SameSum DEF Handler!Taken
<1>4. Due(S, t) = SumFunction(g)  BY DEF Due
<1>5. f = g  BY <1>2
<1> HIDE DEF f, g
<1> QED BY <1>3, <1>4, <1>5

\* The orders that a step leaves alone keep their fate and what they put in.
LEMMA PutsNat == TypeOK => Puts \in [Ids -> [Tokens -> Nat]]
<1> SUFFICES ASSUME TypeOK, NEW id \in Ids PROVE Put(id) \in [Tokens -> Nat]
  BY DEF Puts
<1> QED BY EscrowNat DEF Put, TypeOK

LEMMA InitEscrow == Init => Handler!Init
<1> SUFFICES ASSUME Init PROVE Handler!Init  OBVIOUS
<1>1. \A id \in Ids : id \in Nat  BY IdsFacts
<1>2. \A id \in Ids : Fate(id) = "unused"  BY <1>1 DEF Init, Fate
<1>3. \A id \in Ids : Put(id) = Handler!Nothing  BY DEF Init, Put, Handler!Nothing
<1> QED BY <1>2, <1>3 DEF Handler!Init, Init, Handler!Nothing

\* createAddLiquidityOrder, createRemoveLiquidityOrder.
LEMMA CreateEscrow ==
    ASSUME IndInv, NEW o \in Orders, CreateOrder(o)
    PROVE  Handler!Next
<1>1. TypeOK /\ NothingSkipped /\ TypeOK'  BY CreateInv DEF IndInv
<1>2. PICK n \in Ids : n = length /\ n \in Nat
  BY <1>1, QueueAssumption DEF TypeOK, CreateOrder, Ids
<1>3. /\ length = n /\ length' = n + 1
      /\ DOMAIN liquidityOrders' = DOMAIN liquidityOrders \cup {n} /\ liquidityOrders'[n] = o
      /\ \A id \in DOMAIN liquidityOrders : id # n => liquidityOrders'[id] = liquidityOrders[id]
  BY <1>2 DEF CreateOrder
<1>4. Fates[n] = "unused"  BY <1>2 DEF Fates, Fate
<1>5. Fates' = [Fates EXCEPT ![n] = "pending"]
  <2>1. Fate(n)' = "pending"  BY <1>2, <1>3 DEF Fate
  <2>2. ASSUME NEW id \in Ids, id # n PROVE Fate(id)' = Fate(id)
    <3>1. id \in Nat /\ (id >= n + 1 <=> id >= n)  BY <1>2, <2>2, IdsFacts
    <3>2. id \in DOMAIN liquidityOrders' <=> id \in DOMAIN liquidityOrders  BY <1>3, <2>2
    <3> QED BY <1>3, <3>1, <3>2 DEF Fate
  <2> QED BY <1>2, <2>1, <2>2 DEF Fates
<1>6. Puts' \in [Ids -> [Tokens -> Nat]]
  <2>1. ASSUME NEW id \in Ids PROVE Put(id)' \in [Tokens -> Nat]
    BY <1>1, EscrowNat DEF Put, TypeOK
  <2> QED BY <2>1 DEF Puts
<1>7. \A x \in Ids \ {n} : Puts'[x] = Puts[x]
  BY <1>3 DEF Puts, Put
<1>8. held' = [t \in Tokens |-> held[t] + Puts'[n][t]]
  <2>1. Puts'[n] = Escrow(o)  BY <1>2, <1>3 DEF Puts, Put
  <2> QED BY <2>1 DEF CreateOrder
<1>9. Handler!Create(n)
  BY <1>4, <1>5, <1>6, <1>7, <1>8 DEF Handler!Create, Fates, Puts
<1> QED BY <1>2, <1>9 DEF Handler!Next

\* Settling a set of pending orders: they leave the array, the others stay,
\* and no more is paid than they put in.
LEMMA SettleEscrow ==
    ASSUME IndInv, TypeOK', NEW S \in SUBSET DOMAIN liquidityOrders,
           liquidityOrders' = Without(S), length' = length,
           \A t \in Tokens : held'[t] = held[t] - Due(S, t)
    PROVE  Handler!Next
<1>1. TypeOK /\ NothingSkipped  BY DEF IndInv
<1>2. S \in SUBSET Ids  BY <1>1 DEF TypeOK
<1>3. \A id \in DOMAIN liquidityOrders : id \in Nat /\ ~(id >= length)
  <2>1. length \in Nat  BY <1>1, QueueAssumption DEF TypeOK
  <2>2. \A id \in DOMAIN liquidityOrders : id \in Nat  BY <1>1, IdsFacts DEF TypeOK
  <2> QED BY <1>1, <2>1, <2>2 DEF NothingSkipped
<1>4. DOMAIN liquidityOrders' = DOMAIN liquidityOrders \ S
      /\ \A id \in DOMAIN liquidityOrders' : liquidityOrders'[id] = liquidityOrders[id]
  BY DEF Without
<1>5. \A id \in S : Fates[id] = "pending"  BY <1>2, <1>3 DEF Fates, Fate
<1>6. Fates' = [id \in Ids |-> IF id \in S THEN "settled" ELSE Fates[id]]
  <2>1. ASSUME NEW id \in Ids PROVE Fate(id)' = IF id \in S THEN "settled" ELSE Fate(id)
    BY <1>3, <1>4 DEF Fate
  <2> QED BY <2>1 DEF Fates
<1>7. Puts' = [id \in Ids |-> IF id \in S THEN Handler!Nothing ELSE Puts[id]]
  <2>1. ASSUME NEW id \in Ids PROVE Put(id)' = IF id \in S THEN Handler!Nothing ELSE Put(id)
    BY <1>4 DEF Put, Handler!Nothing
  <2> QED BY <2>1 DEF Puts
<1>8. held' \in [Tokens -> Nat]  BY DEF TypeOK
<1>9. ASSUME NEW t \in Tokens PROVE held[t] <= held'[t] + Handler!Taken(S, t)
  <2>1. Handler!Taken(S, t) = Due(S, t) /\ Due(S, t) \in Nat  BY <1>1, TakenIsDue, DueNat
  <2>2. held[t] \in Nat /\ held'[t] = held[t] - Due(S, t)  BY <1>1 DEF TypeOK
  <2> QED BY <2>1, <2>2
<1>10. Handler!Settle(S)
  BY <1>5, <1>6, <1>7, <1>8, <1>9 DEF Handler!Settle, Fates, Puts
<1> QED BY <1>2, <1>10 DEF Handler!Next

\* executeOrder settles its batch.
LEMMA ExecuteEscrow ==
    ASSUME IndInv, NEW endIndex \in 0..MaxOrders, NEW failed, ExecuteOrder(endIndex, failed)
    PROVE  Handler!Next
<1> DEFINE batch == Batch(EndIndex(endIndex))
<1>1. TypeOK'  BY ExecuteInv DEF IndInv
<1>2. PICK S : S = batch  OBVIOUS
<1>3. S \in SUBSET DOMAIN liquidityOrders  BY <1>2 DEF Batch
<1>4. liquidityOrders' = Without(S) /\ length' = length
      /\ \A t \in Tokens : held'[t] = held[t] - Due(S, t)
  BY <1>2 DEF ExecuteOrder
<1> QED BY <1>1, <1>3, <1>4, SettleEscrow

\* cancelLiquidityOrder settles one order, whose refund is what it put in.
LEMMA CancelEscrow ==
    ASSUME IndInv, NEW id \in Ids, CancelLiquidityOrder(id)
    PROVE  Handler!Next
<1>1. TypeOK /\ TypeOK'  BY CancelInv DEF IndInv
<1>2. id \in DOMAIN liquidityOrders /\ liquidityOrders[id] \in Orders
  BY <1>1 DEF CancelLiquidityOrder, TypeOK
<1>3. liquidityOrders' = Without({id}) /\ length' = length
  BY DEF CancelLiquidityOrder, Remaining
<1>4. ASSUME NEW t \in Tokens PROVE Due({id}, t) = Escrow(liquidityOrders[id])[t]
  <2> DEFINE z == 0
             f == [x \in Ids |-> z]
             e == Escrow(liquidityOrders[id])[t]
             g == [x \in Ids |-> IF x \in {id} THEN Escrow(liquidityOrders[x])[t] ELSE 0]
  <2>1. e \in Nat /\ e \in Int  BY <1>2, EscrowNat
  <2>2. g = [f EXCEPT ![id] = e]  OBVIOUS
  <2>3. f \in [Ids -> Int] /\ \A x \in Ids : f[x] = 0  OBVIOUS
  <2> HIDE DEF f, e
  <2>4. SumFunction(f) = 0  BY <2>3, IdsFacts, SumFunctionZero
  <2>5. SumFunction([f EXCEPT ![id] = e]) = SumFunction(f) + e - f[id]
    BY <2>1, <2>3, IdsFacts, SumFunctionUpdate
  <2>6. SumFunction(g) = e
    <3> HIDE DEF g
    <3> QED BY <2>1, <2>2, <2>3, <2>4, <2>5
  <2>7. Due({id}, t) = SumFunction(g)  BY DEF Due
  <2> QED BY <2>6, <2>7 DEF e
<1>5. \A t \in Tokens : held'[t] = held[t] - Due({id}, t)
  BY <1>2, <1>4, EscrowNat DEF CancelLiquidityOrder
<1> QED BY <1>1, <1>2, <1>3, <1>5, SettleEscrow

LEMMA StepEscrow == IndInv /\ [Next]_vars => [Handler!Next]_(Handler!vars)
<1> SUFFICES ASSUME IndInv, [Next]_vars PROVE [Handler!Next]_(Handler!vars)
  OBVIOUS
<1>1. ASSUME NEW o \in Orders, CreateOrder(o) PROVE Handler!Next  BY <1>1, CreateEscrow
<1>2. ASSUME NEW id \in Ids, CancelLiquidityOrder(id) PROVE Handler!Next
  BY <1>2, CancelEscrow
<1>3. CASE Execution
  <2>1. PICK endIndex \in 0..MaxOrders, failed \in SUBSET Ids : ExecuteOrder(endIndex, failed)
    BY <1>3 DEF Execution
  <2> QED BY <2>1, ExecuteEscrow
<1>4. CASE UNCHANGED vars
  BY <1>4 DEF vars, Handler!vars, Fate, Put
<1> QED BY <1>1, <1>2, <1>3, <1>4 DEF Next

\* The queue implements the abstract handler: an order is settled at most once
\* (executed, refunded or cancelled), for no more than it put in.
THEOREM QueueImplementsEscrow == Spec => ImplementsEscrow
BY InitInv, NextInv, InitEscrow, StepEscrow, PTL DEF Spec, ImplementsEscrow, Handler!Spec

-----------------------------------------------------------------------------
(***************************************************************************)
(* What the abstract handler promises, for the states of this one: it      *)
(* follows from the abstract steps alone.                                  *)
(***************************************************************************)
\* The sums of the abstract handler are those the facts of Sums are about.
LEMMA SameTaken ==
    ASSUME NEW S
    PROVE  /\ \A t : Handler!Taken(S, t) = PutIn(Puts, Ids, S, t)
           /\ \A t : Handler!Taken(S, t)' = PutIn(Puts', Ids, S, t)
BY SameSum DEF Handler!Taken, PutIn, Puts

\* A new order adds to what is held what it adds to what is owed.
LEMMA AbstractCreate ==
    ASSUME Handler!TypeOK, Handler!TypeOK', Handler!Covered, NEW id \in Ids, Handler!Create(id)
    PROVE  Handler!Covered'
<1> SUFFICES ASSUME NEW t \in Tokens PROVE Handler!Taken(Ids, t)' <= held'[t]
  BY DEF Handler!Covered
<1>1. Puts \in [Ids -> [Tokens -> Nat]] /\ Puts' \in [Ids -> [Tokens -> Nat]]
  BY DEF Handler!TypeOK, Puts
<1>2. /\ \A x \in Ids \ {id} : Puts'[x] = Puts[x]
      /\ held'[t] = held[t] + Puts'[id][t] /\ Puts'[id][t] \in Nat /\ held[t] \in Nat
  BY <1>1 DEF Handler!Create, Handler!TypeOK, Puts
<1>3. PutIn(Puts', Ids, Ids, t) <= PutIn(Puts, Ids, Ids, t) + Puts'[id][t]
  BY <1>1, <1>2, IdsFacts, PutInCreate
<1>4. PutIn(Puts, Ids, Ids, t) \in Nat /\ PutIn(Puts', Ids, Ids, t) \in Nat
  BY <1>1, IdsFacts, PutInFacts
<1>5. PutIn(Puts, Ids, Ids, t) <= held[t]  BY SameTaken DEF Handler!Covered
<1>6. Handler!Taken(Ids, t)' = PutIn(Puts', Ids, Ids, t)  BY SameTaken
<1> QED BY <1>2, <1>3, <1>4, <1>5, <1>6

\* Settling orders takes what they put in, or less.
LEMMA AbstractSettle ==
    ASSUME Handler!TypeOK, Handler!TypeOK', Handler!Covered, NEW S \in SUBSET Ids,
           Handler!Settle(S)
    PROVE  Handler!Covered'
<1> SUFFICES ASSUME NEW t \in Tokens PROVE Handler!Taken(Ids, t)' <= held'[t]
  BY DEF Handler!Covered
<1>1. Puts \in [Ids -> [Tokens -> Nat]] /\ Puts' \in [Ids -> [Tokens -> Nat]]
  BY DEF Handler!TypeOK, Puts
<1>2. held[t] \in Nat /\ held'[t] \in Nat  BY DEF Handler!TypeOK
<1>3. \A x \in Ids : Puts'[x][t] = IF x \in S THEN 0 ELSE Puts[x][t]
  BY DEF Handler!Settle, Handler!Nothing, Puts
<1>4. PutIn(Puts', Ids, Ids, t) = PutIn(Puts, Ids, Ids, t) - PutIn(Puts, Ids, S, t)
  <2> DEFINE next == Puts'
  <2>1. /\ next \in [Ids -> [Tokens -> Nat]] 
        /\ \A x \in Ids : next[x][t] = IF x \in S THEN 0 ELSE Puts[x][t]
    BY <1>1, <1>3
  <2> HIDE DEF next
  <2>2. PutIn(next, Ids, Ids, t) = PutIn(Puts, Ids, Ids, t) - PutIn(Puts, Ids, S, t)
    <3>1. /\ PutIn(next, Ids, Ids, t) \in Nat /\ PutIn(Puts, Ids, Ids, t) \in Nat
          /\ PutIn(Puts, Ids, S, t) \in Nat
      BY <1>1, <2>1, IdsFacts, PutInFacts
    <3>2. IsFiniteSet(Ids)  BY IdsFacts
    <3> QED BY <1>1, <2>1, <3>1, <3>2, PutInSettle
  <2> QED BY <2>2 DEF next
<1>5. PutIn(Puts, Ids, Ids, t) \in Nat /\ PutIn(Puts, Ids, S, t) \in Nat
  BY <1>1, IdsFacts, PutInFacts
<1>6. held[t] <= held'[t] + PutIn(Puts, Ids, S, t)  BY SameTaken DEF Handler!Settle
<1>7. PutIn(Puts, Ids, Ids, t) <= held[t]  BY SameTaken DEF Handler!Covered
<1>8. Handler!Taken(Ids, t)' = PutIn(Puts', Ids, Ids, t)  BY SameTaken
<1> QED BY <1>2, <1>4, <1>5, <1>6, <1>7, <1>8

LEMMA AbstractInit == Handler!Init => Handler!TypeOK /\ Handler!Covered
<1> SUFFICES ASSUME Handler!Init PROVE Handler!TypeOK /\ Handler!Covered  OBVIOUS
<1>1. Handler!TypeOK  BY DEF Handler!Init, Handler!TypeOK, Handler!Nothing
<1>2. ASSUME NEW t \in Tokens PROVE Handler!Taken(Ids, t) <= held[t]
  <2> DEFINE f == [id \in Ids |-> IF id \in Ids THEN Puts[id][t] ELSE 0]
  <2>1. f \in [Ids -> Int] /\ \A x \in Ids : f[x] = 0
    BY DEF Handler!Init, Handler!Nothing, Puts
  <2>2. PutIn(Puts, Ids, Ids, t) = SumFunction(f)  BY DEF PutIn
  <2>3. SumFunction(f) = 0
    <3> HIDE DEF f
    <3> QED BY <2>1, IdsFacts, SumFunctionZero
  <2>4. held[t] = 0  BY DEF Handler!Init, Handler!Nothing
  <2> QED BY <2>2, <2>3, <2>4, SameTaken
<1> QED BY <1>1, <1>2 DEF Handler!Covered

LEMMA AbstractNext ==
    ASSUME Handler!TypeOK /\ Handler!Covered, [Handler!Next]_(Handler!vars)
    PROVE  Handler!TypeOK' /\ Handler!Covered'
<1>1. Handler!TypeOK'
  <2> DEFINE fates == [id \in Ids |-> Fate(id)]
  <2>1. /\ fates \in [Ids -> {"unused", "pending", "settled"}]
        /\ Puts \in [Ids -> [Tokens -> Nat]] /\ held \in [Tokens -> Nat]
    BY DEF Handler!TypeOK, Puts
  <2>2. SUFFICES /\ fates' \in [Ids -> {"unused", "pending", "settled"}]
                 /\ Puts' \in [Ids -> [Tokens -> Nat]] /\ held' \in [Tokens -> Nat]
    BY DEF Handler!TypeOK, Puts
  <2>3. ASSUME NEW id \in Ids, Handler!Create(id)
        PROVE  /\ fates' \in [Ids -> {"unused", "pending", "settled"}]
               /\ Puts' \in [Ids -> [Tokens -> Nat]] /\ held' \in [Tokens -> Nat]
    <3>1. /\ fates' = [fates EXCEPT ![id] = "pending"] /\ Puts' \in [Ids -> [Tokens -> Nat]]
          /\ held' = [t \in Tokens |-> held[t] + Puts'[id][t]]
      BY <2>3 DEF Handler!Create, Puts
    <3> HIDE DEF fates
    <3> QED BY <2>1, <3>1
  <2>4. ASSUME NEW S \in SUBSET Ids, Handler!Settle(S)
        PROVE  /\ fates' \in [Ids -> {"unused", "pending", "settled"}]
               /\ Puts' \in [Ids -> [Tokens -> Nat]] /\ held' \in [Tokens -> Nat]
    <3>1. /\ fates' = [id \in Ids |-> IF id \in S THEN "settled" ELSE fates[id]]
          /\ Puts' = [id \in Ids |-> IF id \in S THEN [t \in Tokens |-> 0] ELSE Puts[id]]
          /\ held' \in [Tokens -> Nat]
      BY <2>4 DEF Handler!Settle, Handler!Nothing, Puts
    <3> HIDE DEF fates
    <3> QED BY <2>1, <3>1
  <2>5. ASSUME UNCHANGED Handler!vars
        PROVE  fates' = fates /\ Puts' = Puts /\ held' = held
    BY <2>5 DEF Handler!vars, Puts
  <2> QED BY <2>1, <2>3, <2>4, <2>5 DEF Handler!Next
<1>2. ASSUME NEW id \in Ids, Handler!Create(id) PROVE Handler!Covered'
  BY <1>1, <1>2, AbstractCreate
<1>3. ASSUME NEW S \in SUBSET Ids, Handler!Settle(S) PROVE Handler!Covered'
  BY <1>1, <1>3, AbstractSettle
<1>4. CASE UNCHANGED Handler!vars
  <2>1. Puts' = Puts /\ held' = held  BY <1>4 DEF Handler!vars, Puts
  <2> SUFFICES ASSUME NEW t \in Tokens PROVE Handler!Taken(Ids, t)' <= held'[t]
    BY <1>1 DEF Handler!Covered
  <2>2. Handler!Taken(Ids, t)' = Handler!Taken(Ids, t)  BY <2>1, SameTaken
  <2>3. Handler!Taken(Ids, t) <= held[t]  BY DEF Handler!Covered
  <2> QED BY <2>1, <2>2, <2>3
<1> QED BY <1>1, <1>2, <1>3, <1>4 DEF Handler!Next

\* The abstract handler can give every pending order back what it put in.
THEOREM EscrowCovered == Handler!Spec => [](Handler!TypeOK /\ Handler!Covered)
BY AbstractInit, AbstractNext, PTL DEF Handler!Spec

\* The handler holds what its pending orders put in, so that no refund fails
\* for want of tokens (LiquidityHandler.cancelLiquidityOrder, executeOrder): a
\* consequence of the refinement, and of what the abstract handler promises.
THEOREM QueueCovered == Spec => []Covered
<1>1. Spec => Handler!Spec  BY QueueImplementsEscrow DEF ImplementsEscrow
<1>2. Handler!Covered => Covered  BY DEF Covered
<1> QED BY <1>1, <1>2, EscrowCovered, PTL
=============================================================================
