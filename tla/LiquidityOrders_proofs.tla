----------------------- MODULE LiquidityOrders_proofs -----------------------
(***************************************************************************)
(* The order book of LiquidityHandler02, CrossMarginHandler02 and          *)
(* Ext01Handler, for every number of users, tokens and orders and for      *)
(* batches of any length that name any orders: the pointers list the       *)
(* pending and the executed orders, and the book implements the abstract   *)
(* handler, to which what was overpaid is still held.                      *)
(*                                                                         *)
(* A batch is a loop. Turned is what one order of it does to the books,    *)
(* Since what the batch has done so far; each turn keeps it.               *)
(***************************************************************************)
EXTENDS LiquidityOrders, Sums, TLAPS, FiniteSetTheorems

LEMMA IdsFinite == IsFiniteSet(Ids)
<1>1. IsFiniteSet(0..(MaxOrders - 1))  BY BookAssumption, FS_Interval
<1> QED BY <1>1, OrderAssumption, FS_Product DEF Ids

\* What an order puts in, and what a cancellation may give back of it.
LEMMA EscrowFacts ==
    \A o \in Orders : /\ Escrow(o) \in [Tokens -> Nat] /\ Deposit(o) \in [Tokens -> Nat]
                      /\ \A t \in Tokens : Deposit(o)[t] <= Escrow(o)[t]
<1> SUFFICES ASSUME NEW o \in Orders
             PROVE  /\ Escrow(o) \in [Tokens -> Nat] /\ Deposit(o) \in [Tokens -> Nat]
                    /\ \A t \in Tokens : Deposit(o)[t] <= Escrow(o)[t]
  OBVIOUS
<1>1. o.fee \in Nat /\ (o.kind \in LiquidityKinds => o.amount \in Nat)
  BY OrderAssumption DEF Orders, LiquidityKinds, WithdrawKinds, DataKinds
<1>2. Deposit(o) \in [Tokens -> Nat]  BY <1>1 DEF Deposit, LiquidityKinds
<1>3. ExecutionFee(o) \in [Tokens -> Nat]  BY <1>1 DEF ExecutionFee
<1> QED BY <1>2, <1>3 DEF Escrow

-----------------------------------------------------------------------------
(***************************************************************************)
(* The books that a batch works on.                                        *)
(***************************************************************************)
Books == [orders : UNION {[D -> Orders] : D \in SUBSET Ids},
          status : UNION {[D -> {"PENDING", "SUCCESS"}] : D \in SUBSET Ids},
          active : SUBSET Ids, executed : SUBSET Ids,
          held : [Tokens -> Nat], overpaid : [Tokens -> Nat]]

\* The active pointers are those of the pending orders, the other orders are
\* executed ones, and there has not been an order past the index.
Matched(s) ==
    /\ DOMAIN s.status = DOMAIN s.orders
    /\ s.active = {id \in DOMAIN s.orders : s.status[id] = "PENDING"}
    /\ DOMAIN s.orders \ s.active \subseteq s.executed
    /\ s.executed \cap s.active = {}
    /\ \A id \in DOMAIN s.orders \cup s.executed : id[2] < liquidityOrdersIndex[id[1]]

\* What the abstract handler takes to be held.
Holding(s, t) == s.held[t] + s.overpaid[t]

LEMMA BooksFields ==
    ASSUME NEW s \in Books
    PROVE  /\ s.orders \in [DOMAIN s.orders -> Orders] /\ DOMAIN s.orders \in SUBSET Ids
           /\ s.status \in [DOMAIN s.status -> {"PENDING", "SUCCESS"}] /\ DOMAIN s.status \in SUBSET Ids
           /\ s.active \in SUBSET Ids /\ s.executed \in SUBSET Ids
           /\ s.held \in [Tokens -> Nat] /\ s.overpaid \in [Tokens -> Nat]
           /\ s = [orders |-> s.orders, status |-> s.status, active |-> s.active,
                   executed |-> s.executed, held |-> s.held, overpaid |-> s.overpaid]
<1>1. PICK D \in SUBSET Ids : s.orders \in [D -> Orders]  BY DEF Books
<1>2. PICK E \in SUBSET Ids : s.status \in [E -> {"PENDING", "SUCCESS"}]  BY DEF Books
<1>3. /\ s.active \in SUBSET Ids /\ s.executed \in SUBSET Ids
      /\ s.held \in [Tokens -> Nat] /\ s.overpaid \in [Tokens -> Nat]
  BY DEF Books
<1>4. s = [orders |-> s.orders, status |-> s.status, active |-> s.active,
           executed |-> s.executed, held |-> s.held, overpaid |-> s.overpaid]
  BY DEF Books
<1> QED BY <1>1, <1>2, <1>3, <1>4

LEMMA BooksBy ==
    ASSUME NEW D \in SUBSET Ids, NEW orders \in [D -> Orders],
           NEW E \in SUBSET Ids, NEW st \in [E -> {"PENDING", "SUCCESS"}],
           NEW active \in SUBSET Ids, NEW executed \in SUBSET Ids,
           NEW h \in [Tokens -> Nat], NEW over \in [Tokens -> Nat]
    PROVE  [orders |-> orders, status |-> st, active |-> active, executed |-> executed,
            held |-> h, overpaid |-> over] \in Books
<1>1. /\ orders \in UNION {[F -> Orders] : F \in SUBSET Ids}
      /\ st \in UNION {[F -> {"PENDING", "SUCCESS"}] : F \in SUBSET Ids}
  OBVIOUS
<1> QED BY <1>1 DEF Books

\* A payment for an order that is pending and leaves is what the handler holds
\* less; any other is overpaid.
LEMMA PaidFacts ==
    ASSUME NEW s \in Books, NEW id, NEW payment \in [Tokens -> Nat], NEW stays \in BOOLEAN,
           \A t \in Tokens : payment[t] <= s.held[t]
    PROVE  LET p == Paid(s, id, payment, stays) IN
           /\ p \in Books
           /\ p.orders = s.orders /\ p.status = s.status
           /\ p.active = s.active /\ p.executed = s.executed
           /\ \A t \in Tokens :
                Holding(p, t) = IF stays \/ s.status[id] # "PENDING" THEN Holding(s, t)
                                ELSE Holding(s, t) - payment[t]
<1> DEFINE p == Paid(s, id, payment, stays)
           h == [t \in Tokens |-> s.held[t] - payment[t]]
           over == IF stays \/ s.status[id] # "PENDING"
                   THEN [t \in Tokens |-> s.overpaid[t] + payment[t]] ELSE s.overpaid
<1>1. s = [orders |-> s.orders, status |-> s.status, active |-> s.active,
           executed |-> s.executed, held |-> s.held, overpaid |-> s.overpaid]
  BY BooksFields
<1>2. p = [s EXCEPT !.held = h, !.overpaid = over]  BY DEF Paid
<1>3. s.held \in [Tokens -> Nat] /\ s.overpaid \in [Tokens -> Nat]  BY BooksFields
<1>4. h \in [Tokens -> Nat] /\ over \in [Tokens -> Nat]  BY <1>3
<1>5. p = [orders |-> s.orders, status |-> s.status, active |-> s.active,
           executed |-> s.executed, held |-> h, overpaid |-> over]
  <2> HIDE DEF p, h, over
  <2> QED BY <1>1, <1>2
<1>6. ASSUME NEW t \in Tokens
      PROVE  h[t] + over[t] = IF stays \/ s.status[id] # "PENDING" THEN Holding(s, t)
                              ELSE Holding(s, t) - payment[t]
  <2>1. s.held[t] \in Nat /\ s.overpaid[t] \in Nat /\ payment[t] \in Nat  BY <1>3
  <2> QED BY <2>1 DEF Holding
<1>7. p \in Books
  <2> HIDE DEF p, h, over
  <2> QED BY <1>4, <1>5, BooksFields, BooksBy
<1> HIDE DEF p, h, over
<1>8. p.held = h /\ p.overpaid = over  BY <1>5
<1>9. \A t \in Tokens : Holding(p, t) = h[t] + over[t]  BY <1>8 DEF Holding
<1> QED BY <1>5, <1>6, <1>7, <1>9 DEF p

\* _removeOrder and the deletion, of an order in whichever state.
LEMMA CancelledFacts ==
    ASSUME NEW s \in Books, Matched(s), NEW id
    PROVE  LET c == Cancelled(s, id) IN
           /\ c \in Books /\ Matched(c) /\ c.active = s.active \ {id}
           /\ \A x \in c.active : c.orders[x] = s.orders[x]
           /\ \A t \in Tokens : Holding(c, t) = Holding(s, t)
<1> DEFINE c == Cancelled(s, id)
           orders == Without(s.orders, id)
           st == Without(s.status, id)
           active == s.active \ {id}
           D == DOMAIN s.orders \ {id}
<1>1. /\ s = [orders |-> s.orders, status |-> s.status, active |-> s.active,
              executed |-> s.executed, held |-> s.held, overpaid |-> s.overpaid]
      /\ s.orders \in [DOMAIN s.orders -> Orders] /\ DOMAIN s.orders \in SUBSET Ids
      /\ s.status \in [DOMAIN s.orders -> {"PENDING", "SUCCESS"}]
      /\ s.active \in SUBSET Ids /\ s.executed \in SUBSET Ids
      /\ s.held \in [Tokens -> Nat] /\ s.overpaid \in [Tokens -> Nat]
  BY BooksFields DEF Matched
<1>2. c = [s EXCEPT !.orders = orders, !.status = st, !.active = active]  BY DEF Cancelled
<1>3. /\ D \in SUBSET Ids /\ orders \in [D -> Orders] /\ st \in [D -> {"PENDING", "SUCCESS"}]
      /\ \A x \in D : orders[x] = s.orders[x] /\ st[x] = s.status[x]
  BY <1>1 DEF Without
<1>4. c = [orders |-> orders, status |-> st, active |-> active,
           executed |-> s.executed, held |-> s.held, overpaid |-> s.overpaid]
  <2> HIDE DEF c, orders, st, active, D
  <2> QED BY <1>1, <1>2
<1>5. active \in SUBSET Ids  BY <1>1
<1> HIDE DEF c, orders, st
<1>6. c \in Books
  <2> HIDE DEF active, D
  <2> QED BY <1>1, <1>3, <1>4, <1>5, BooksBy
<1>7. /\ c.orders = orders /\ c.status = st /\ c.active = active /\ c.executed = s.executed
      /\ c.held = s.held /\ c.overpaid = s.overpaid
  BY <1>4
<1>8. DOMAIN c.orders = D /\ DOMAIN c.status = D  BY <1>3, <1>7
<1>9. Matched(c)
  <2>1. active = {x \in D : st[x] = "PENDING"}  BY <1>3 DEF Matched
  <2>2. D \ active \subseteq s.executed /\ s.executed \cap active = {}  BY DEF Matched
  <2>3. \A x \in D \cup s.executed : x[2] < liquidityOrdersIndex[x[1]]  BY DEF Matched
  <2> HIDE DEF active, D
  <2> QED BY <1>7, <1>8, <2>1, <2>2, <2>3 DEF Matched
<1>10. active \subseteq D  BY DEF Matched
<1> QED BY <1>3, <1>6, <1>7, <1>9, <1>10 DEF Holding, c

\* _handleOrderSuccess.
LEMMA SucceededFacts ==
    ASSUME NEW s \in Books, Matched(s), NEW id \in DOMAIN s.orders
    PROVE  LET c == Succeeded(s, id) IN
           /\ c \in Books /\ Matched(c) /\ c.active = s.active \ {id}
           /\ \A x \in c.active : c.orders[x] = s.orders[x]
           /\ \A t \in Tokens : Holding(c, t) = Holding(s, t)
<1> DEFINE c == Succeeded(s, id)
           D == DOMAIN s.orders
           st == [s.status EXCEPT ![id] = "SUCCESS"]
           active == s.active \ {id}
           executed == s.executed \cup {id}
<1>1. /\ s = [orders |-> s.orders, status |-> s.status, active |-> s.active,
              executed |-> s.executed, held |-> s.held, overpaid |-> s.overpaid]
      /\ s.orders \in [D -> Orders] /\ D \in SUBSET Ids
      /\ s.status \in [D -> {"PENDING", "SUCCESS"}]
      /\ s.active \in SUBSET Ids /\ s.executed \in SUBSET Ids
      /\ s.held \in [Tokens -> Nat] /\ s.overpaid \in [Tokens -> Nat]
  BY BooksFields DEF Matched
<1>2. c = [s EXCEPT !.status = st, !.active = active, !.executed = executed]  BY DEF Succeeded
<1>3. /\ st \in [D -> {"PENDING", "SUCCESS"}] /\ st[id] = "SUCCESS"
      /\ \A x \in D \ {id} : st[x] = s.status[x]
  BY <1>1
<1>4. c = [orders |-> s.orders, status |-> st, active |-> active,
           executed |-> executed, held |-> s.held, overpaid |-> s.overpaid]
  <2> HIDE DEF c, st, active, executed, D
  <2> QED BY <1>1, <1>2
<1>5. active \in SUBSET Ids /\ executed \in SUBSET Ids  BY <1>1
<1> HIDE DEF c, st
<1>6. c \in Books
  <2> HIDE DEF active, executed, D
  <2> QED BY <1>1, <1>3, <1>4, <1>5, BooksBy
<1>7. /\ c.orders = s.orders /\ c.status = st /\ c.active = active /\ c.executed = executed
      /\ c.held = s.held /\ c.overpaid = s.overpaid
  BY <1>4
<1>8. DOMAIN c.orders = D /\ DOMAIN c.status = D  BY <1>3, <1>7
<1>9. Matched(c)
  <2>1. active = {x \in D : st[x] = "PENDING"}  BY <1>3 DEF Matched
  <2>2. D \ active \subseteq executed /\ executed \cap active = {}  BY DEF Matched
  <2>3. \A x \in D \cup executed : x[2] < liquidityOrdersIndex[x[1]]  BY DEF Matched
  <2> HIDE DEF active, executed, D
  <2> QED BY <1>7, <1>8, <2>1, <2>2, <2>3 DEF Matched
<1> QED BY <1>6, <1>7, <1>9 DEF Holding, c

-----------------------------------------------------------------------------
\* What one order of a batch, or a cancellation, does: at most one order x stops
\* being pending, and no more is taken than it put in.
Turned(t, s, x) ==
    /\ t \in Books /\ Matched(t) /\ t.active = s.active \ {x}
    /\ \A id \in t.active : t.orders[id] = s.orders[id]
    /\ \A k \in Tokens : Holding(s, k) <= Holding(t, k) + IF x \in s.active THEN Escrow(s.orders[x])[k] ELSE 0

\* A payment of what an order put in, or less, and the end of the order.
LEMMA PayTurns ==
    ASSUME NEW s \in Books, Matched(s), NEW id \in DOMAIN s.orders, NEW payment \in [Tokens -> Nat],
           \A k \in Tokens : payment[k] <= s.held[k] /\ payment[k] <= Escrow(s.orders[id])[k]
    PROVE  /\ Turned(Cancelled(Paid(s, id, payment, FALSE), id), s, id)
           /\ Turned(Succeeded(Paid(s, id, payment, FALSE), id), s, id)
           /\ \A x : Turned(Cancelled(Paid(s, id, payment, TRUE), x), s, x)
<1> DEFINE p == Paid(s, id, payment, FALSE)
           q == Paid(s, id, payment, TRUE)
<1>1. s.orders[id] \in Orders /\ Escrow(s.orders[id]) \in [Tokens -> Nat]
  BY BooksFields, EscrowFacts
<1>2. id \in s.active <=> s.status[id] = "PENDING"  BY DEF Matched
<1>3. /\ p \in Books /\ p.orders = s.orders /\ p.status = s.status
      /\ p.active = s.active /\ p.executed = s.executed
      /\ \A t \in Tokens : Holding(p, t) = IF id \in s.active THEN Holding(s, t) - payment[t]
                                           ELSE Holding(s, t)
  <2>1. /\ p \in Books /\ p.orders = s.orders /\ p.status = s.status
        /\ p.active = s.active /\ p.executed = s.executed
        /\ \A t \in Tokens : Holding(p, t) = IF FALSE \/ s.status[id] # "PENDING" THEN Holding(s, t)
                                             ELSE Holding(s, t) - payment[t]
    BY PaidFacts
  <2> HIDE DEF p
  <2> QED BY <1>2, <2>1
<1>4. /\ q \in Books /\ q.orders = s.orders /\ q.status = s.status
      /\ q.active = s.active /\ q.executed = s.executed
      /\ \A t \in Tokens : Holding(q, t) = Holding(s, t)
  BY PaidFacts
<1> HIDE DEF p, q
<1>5. Matched(p) /\ Matched(q)  BY <1>3, <1>4 DEF Matched
<1>6. \A k \in Tokens : Holding(s, k) \in Nat
  <2>1. s.held \in [Tokens -> Nat] /\ s.overpaid \in [Tokens -> Nat]  BY BooksFields
  <2> QED BY <2>1 DEF Holding
<1>7. \A k \in Tokens : Holding(s, k) <= Holding(p, k) + IF id \in s.active THEN Escrow(s.orders[id])[k] ELSE 0
  BY <1>1, <1>3, <1>6
<1>8. Turned(Cancelled(p, id), s, id)
  <2> DEFINE c == Cancelled(p, id)
  <2>1. /\ c \in Books /\ Matched(c) /\ c.active = p.active \ {id}
        /\ \A x \in c.active : c.orders[x] = p.orders[x]
        /\ \A t \in Tokens : Holding(c, t) = Holding(p, t)
    BY <1>3, <1>5, CancelledFacts
  <2> HIDE DEF c
  <2>2. Turned(c, s, id)  BY <1>3, <1>7, <2>1 DEF Turned
  <2> QED BY <2>2 DEF c
<1>9. Turned(Succeeded(p, id), s, id)
  <2> DEFINE c == Succeeded(p, id)
  <2>1. /\ c \in Books /\ Matched(c) /\ c.active = p.active \ {id}
        /\ \A x \in c.active : c.orders[x] = p.orders[x]
        /\ \A t \in Tokens : Holding(c, t) = Holding(p, t)
    BY <1>3, <1>5, SucceededFacts
  <2> HIDE DEF c
  <2>2. Turned(c, s, id)  BY <1>3, <1>7, <2>1 DEF Turned
  <2> QED BY <2>2 DEF c
<1>10. ASSUME NEW x PROVE Turned(Cancelled(q, x), s, x)
  <2> DEFINE c == Cancelled(q, x)
  <2>1. /\ c \in Books /\ Matched(c) /\ c.active = q.active \ {x}
        /\ \A y \in c.active : c.orders[y] = q.orders[y]
        /\ \A t \in Tokens : Holding(c, t) = Holding(q, t)
    BY <1>4, <1>5, CancelledFacts
  <2> HIDE DEF c
  <2>2. \A k \in Tokens : Holding(s, k) <= Holding(c, k) + IF x \in s.active THEN Escrow(s.orders[x])[k] ELSE 0
    <3>1. \A k \in Tokens : x \in s.active => Escrow(s.orders[x])[k] \in Nat
      BY BooksFields, EscrowFacts DEF Matched
    <3> QED BY <1>4, <1>6, <2>1, <3>1
  <2>3. Turned(c, s, x)  BY <1>4, <2>1, <2>2 DEF Turned
  <2> QED BY <2>3 DEF c
<1> QED BY <1>8, <1>9, <1>10 DEF p, q

\* _executeOrder of one order.
LEMMA ExecuteTurns ==
    ASSUME NEW s \in Books, Matched(s), NEW id, NEW refused \in BOOLEAN,
           NEW t \in ExecuteOne(s, id, refused)
    PROVE  \E x : Turned(t, s, x)
<1> DEFINE o == s.orders[id]
<1>1. id \in DOMAIN s.orders /\ \A k \in Tokens : ~(Escrow(o)[k] > s.held[k])  BY DEF ExecuteOne
<1>2. o \in Orders /\ Escrow(o) \in [Tokens -> Nat] /\ s.held \in [Tokens -> Nat]
  BY <1>1, BooksFields, EscrowFacts
<1>3. \A k \in Tokens : Escrow(o)[k] <= s.held[k] /\ Escrow(o)[k] <= Escrow(o)[k]
  BY <1>1, <1>2
<1>4. /\ Turned(Cancelled(Paid(s, id, Escrow(o), FALSE), id), s, id)
      /\ Turned(Succeeded(Paid(s, id, Escrow(o), FALSE), id), s, id)
      /\ \A x : Turned(Cancelled(Paid(s, id, Escrow(o), TRUE), x), s, x)
  BY <1>1, <1>2, <1>3, PayTurns
<1>5. CASE ~refused
  <2>1. t = Succeeded(Paid(s, id, Escrow(o), FALSE), id)  BY <1>1, <1>5 DEF ExecuteOne
  <2> QED BY <1>4, <2>1
<1>6. CASE refused
  <2> DEFINE target == FailsFor(o, id)
  <2>1. t = Cancelled(Paid(s, id, Escrow(o), target # id), target)
    BY <1>1, <1>6 DEF ExecuteOne, Refused
  <2>2. CASE target = id
    <3>1. (target # id) = FALSE  BY <2>2
    <3>2. t = Cancelled(Paid(s, id, Escrow(o), FALSE), id)  BY <2>1, <2>2, <3>1
    <3> QED BY <1>4, <3>2
  <2>3. CASE target # id
    <3>1. (target # id) = TRUE  BY <2>3
    <3>2. t = Cancelled(Paid(s, id, Escrow(o), TRUE), target)  BY <2>1, <3>1
    <3> QED BY <1>4, <3>2
  <2> QED BY <2>2, <2>3
<1> QED BY <1>5, <1>6

-----------------------------------------------------------------------------
(***************************************************************************)
(* What a batch has done since it began.                                   *)
(***************************************************************************)
\* The types of the book; the index of an account is past all its orders.
Types ==
    /\ Existing \subseteq Ids /\ DOMAIN status = Existing
    /\ liquidityOrders \in [Existing -> Orders] /\ status \in [Existing -> {"PENDING", "SUCCESS"}]
    /\ executedOrderPointers \subseteq Ids
    /\ \A id \in Existing \cup executedOrderPointers : id[2] < liquidityOrdersIndex[id[1]]
    /\ liquidityOrdersIndex \in [Accounts -> Nat]
    /\ held \in [Tokens -> Nat] /\ overpaid \in [Tokens -> Nat]

\* The inductive invariant.
IndInv == Types /\ PointersMatch

LEMMA IndState == IndInv => State \in Books /\ Matched(State) /\ liquidityOrdersIndex \in [Accounts -> Nat]
<1> SUFFICES ASSUME IndInv PROVE State \in Books /\ Matched(State)  BY DEF IndInv, Types
<1>1. activeOrderPointers \in SUBSET Ids  BY DEF IndInv, Types, PointersMatch, Pending
<1>2. State \in Books  BY <1>1, BooksBy DEF IndInv, Types, State
<1>3. Matched(State)  BY DEF IndInv, Types, PointersMatch, Pending, Existing, Matched, State
<1> QED BY <1>2, <1>3

\* What the orders of S put in of token k.
OwedBy(S, k) == [id \in Ids |-> IF id \in S THEN Escrow(liquidityOrders[id])[k] ELSE 0]

Since(s) ==
    /\ s \in Books /\ Matched(s)
    /\ s.active \subseteq activeOrderPointers
    /\ \A id \in s.active : s.orders[id] = liquidityOrders[id]
    /\ \A k \in Tokens : held[k] + overpaid[k] <= Holding(s, k) + Due(activeOrderPointers \ s.active, k)

LEMMA DueFacts ==
    ASSUME Types, NEW S \in SUBSET Existing, NEW t \in Tokens
    PROVE  /\ Due(S, t) \in Nat /\ OwedBy(S, t) \in [Ids -> Nat]
           /\ S = {} => Due(S, t) = 0
           /\ \A id \in Existing \ S :
                Due(S \cup {id}, t) = Due(S, t) + Escrow(liquidityOrders[id])[t]
<1>1. \A x \in Existing : Escrow(liquidityOrders[x])[t] \in Nat  BY EscrowFacts DEF Types
<1>2. OwedBy(S, t) \in [Ids -> Nat]  BY <1>1 DEF OwedBy
<1>3. Due(S, t) = SumFunction(OwedBy(S, t))  BY DEF Due, OwedBy
<1>4. SumFunction(OwedBy(S, t)) \in Nat  BY <1>2, IdsFinite, SumFunctionNat
<1>5. ASSUME S = {} PROVE SumFunction(OwedBy(S, t)) = 0
  <2>1. OwedBy(S, t) \in [Ids -> Int] /\ \A x \in Ids : OwedBy(S, t)[x] = 0  BY <1>5 DEF OwedBy
  <2> QED BY <2>1, IdsFinite, SumFunctionZero
<1>6. ASSUME NEW id \in Existing \ S
      PROVE  Due(S \cup {id}, t) = Due(S, t) + Escrow(liquidityOrders[id])[t]
  <2> DEFINE f == OwedBy(S, t)
             g == OwedBy(S \cup {id}, t)
             e == Escrow(liquidityOrders[id])[t]
  <2>1. e \in Nat /\ id \in Ids  BY <1>1 DEF Types
  <2>2. f \in [Ids -> Int] /\ g \in [Ids -> Int]  BY <1>1, <1>2 DEF OwedBy
  <2>3. /\ g[id] = e /\ f[id] = 0
        /\ \A y \in Ids : y # id => g[y] = f[y]
    BY <2>1 DEF OwedBy
  <2>4. Due(S \cup {id}, t) = SumFunction(g)  BY DEF Due, OwedBy
  <2> HIDE DEF f, g, e
  <2>5. SumFunction(g) = SumFunction(f) + g[id] - f[id]
    BY <2>1, <2>2, <2>3, IdsFinite, SumFunctionChange
  <2> QED BY <1>3, <1>4, <2>1, <2>3, <2>4, <2>5 DEF f, e
<1> QED BY <1>2, <1>3, <1>4, <1>5, <1>6

LEMMA SinceStart == IndInv => Since(State)
<1> SUFFICES ASSUME IndInv PROVE Since(State)  OBVIOUS
<1>1. State \in Books /\ Matched(State)  BY IndState
<1>2. State.active = activeOrderPointers /\ State.orders = liquidityOrders
      /\ State.held = held /\ State.overpaid = overpaid
  BY DEF State
<1>3. ASSUME NEW k \in Tokens PROVE held[k] + overpaid[k] <= Holding(State, k) + Due({}, k)
  <2>1. Due({}, k) = 0 /\ held[k] \in Nat /\ overpaid[k] \in Nat
    BY DueFacts DEF IndInv, Types
  <2> QED BY <1>2, <2>1 DEF Holding
<1>4. activeOrderPointers \ State.active = {}  BY <1>2
<1> QED BY <1>1, <1>2, <1>3, <1>4 DEF Since

LEMMA SinceStep ==
    ASSUME IndInv, NEW s, Since(s), NEW x, NEW t, Turned(t, s, x)
    PROVE  Since(t)
<1> DEFINE S == activeOrderPointers \ s.active
           T == activeOrderPointers \ t.active
<1>1. /\ t \in Books /\ Matched(t) /\ t.active = s.active \ {x}
      /\ \A id \in t.active : t.orders[id] = liquidityOrders[id]
      /\ t.active \subseteq activeOrderPointers
  BY DEF Turned, Since
<1>2. activeOrderPointers \subseteq Existing /\ Types
  BY DEF IndInv, PointersMatch, Pending
<1>3. ASSUME NEW k \in Tokens PROVE held[k] + overpaid[k] <= Holding(t, k) + Due(T, k)
  <2>1. /\ s.held[k] \in Nat /\ s.overpaid[k] \in Nat /\ t.held[k] \in Nat /\ t.overpaid[k] \in Nat
        /\ held[k] \in Nat /\ overpaid[k] \in Nat
    BY <1>1, <1>2, BooksFields DEF Since, Types
  <2>2. Holding(s, k) \in Nat /\ Holding(t, k) \in Nat  BY <2>1 DEF Holding
  <2>3. held[k] + overpaid[k] <= Holding(s, k) + Due(S, k)  BY DEF Since
  <2>4. Due(S, k) \in Nat  BY <1>2, DueFacts
  <2>5. CASE x \in s.active
    <3>1. /\ x \in Existing \ S /\ T = S \cup {x} /\ s.orders[x] = liquidityOrders[x]
          /\ S \in SUBSET Existing
      BY <1>1, <1>2, <2>5 DEF Since
    <3>2. Due(T, k) = Due(S, k) + Escrow(liquidityOrders[x])[k]
      <4> HIDE DEF S, T
      <4> QED BY <1>2, <3>1, DueFacts
    <3>3. Holding(s, k) <= Holding(t, k) + Escrow(liquidityOrders[x])[k]
      BY <2>5, <3>1 DEF Turned
    <3>4. Escrow(liquidityOrders[x])[k] \in Nat  BY <1>2, <3>1, EscrowFacts DEF Types
    <3> HIDE DEF S, T
    <3> QED BY <2>1, <2>2, <2>3, <2>4, <3>2, <3>3, <3>4
  <2>6. CASE x \notin s.active
    <3>1. T = S  BY <1>1, <2>6
    <3>2. Holding(s, k) <= Holding(t, k)  BY <2>2, <2>6 DEF Turned
    <3> HIDE DEF S, T
    <3> QED BY <2>1, <2>2, <2>3, <2>4, <3>1, <3>2
  <2> QED BY <2>5, <2>6
<1> QED BY <1>1, <1>3 DEF Since

\* The states that a batch may pass through.
Passed == {s \in Books : Since(s)}

\* executeOrders: the states that a batch leaves, order after order.
LEMMA BatchPasses ==
    ASSUME IndInv, NEW batch \in Seq(Ids \X BOOLEAN), ExecuteOrders(batch)
    PROVE  \E s \in Passed : Becomes(s)
<1> DEFINE n == Len(batch)
           U == SUBSET Passed
           start == {State}
           Turn(i, X) == UNION {ExecuteOne(s, batch[i][1], batch[i][2]) : s \in X}
           Eqn(f) == f = [i \in 0..n |-> IF i = 0 THEN start ELSE Turn(i, f[i - 1])]
           step == [i \in 1..n |-> [X \in U |-> Turn(i, X)]]
<1>1. n \in Nat /\ \A i \in 1..n : batch[i][2] \in BOOLEAN  OBVIOUS
<1>2. start \in U  BY SinceStart DEF Passed, Since
<1>3. ASSUME NEW i \in 1..n, NEW X \in U PROVE Turn(i, X) \in U
  <2> SUFFICES ASSUME NEW s \in X, NEW t \in ExecuteOne(s, batch[i][1], batch[i][2])
               PROVE  t \in Passed
    OBVIOUS
  <2> DEFINE id == batch[i][1]
             refused == batch[i][2]
  <2>1. refused \in BOOLEAN /\ Since(s) /\ s \in Books /\ Matched(s)  BY <1>1 DEF Passed, Since
  <2>2. t \in ExecuteOne(s, id, refused)  OBVIOUS
  <2> HIDE DEF id, refused
  <2>3. PICK x : Turned(t, s, x)  BY <2>1, <2>2, ExecuteTurns
  <2>4. Since(t)  BY <2>1, <2>3, SinceStep
  <2> QED BY <2>4 DEF Passed, Since
<1>4. step \in [1..n -> [U -> U]]  BY <1>3
<1>5. PICK g \in [0..n -> U] : IsLoop(g, start, step, n)
  <2> HIDE DEF step, n, U, start
  <2> QED BY <1>1, <1>2, <1>4, LoopIn
<1>6. Eqn(g)
  <2>1. \A i \in 1..n : step[i][g[i - 1]] = Turn(i, g[i - 1])
    <3> TAKE i \in 1..n
    <3>1. i - 1 \in 0..n  BY <1>1
    <3>2. g[i - 1] \in U  BY <3>1
    <3> HIDE DEF Turn, U
    <3> QED BY <3>2
  <2>2. g = [i \in 0..n |-> IF i = 0 THEN start ELSE step[i][g[i - 1]]]  BY <1>5 DEF IsLoop
  <2>3. \A i \in 0..n : i # 0 => i \in 1..n  BY <1>1
  <2> HIDE DEF step, n, Turn, start
  <2> QED BY <2>1, <2>2, <2>3
<1> DEFINE f == CHOOSE h : Eqn(h)
<1>7. Eqn(f)
  <2> HIDE DEF Eqn
  <2> QED BY <1>6
<1>8. \E s \in f[n] : Becomes(s)  BY DEF ExecuteOrders, Executions
<1>9. \A i \in 0..n : f[i] = IF i = 0 THEN start ELSE Turn(i, f[i - 1])
  <2> HIDE DEF f, Turn, start
  <2> QED BY <1>7
<1> DEFINE T == {i \in 0..n : f[i] \in U}
<1> HIDE DEF f, start, U, Turn
<1>10. 0 \in T  BY <1>1, <1>2, <1>9
<1>11. ASSUME NEW i \in 1..n, i - 1 \in T PROVE i \in T
  <2>1. i \in 0..n /\ i # 0 /\ f[i - 1] \in U  BY <1>1, <1>11
  <2>2. f[i] = Turn(i, f[i - 1])  BY <1>9, <2>1
  <2>3. Turn(i, f[i - 1]) \in U  BY <1>3, <2>1
  <2> QED BY <2>1, <2>2, <2>3
<1>12. \A i \in 0..n : i \in T
  <2> HIDE DEF T, n
  <2> QED BY <1>1, <1>10, <1>11, TurnInduction
<1>13. f[n] \in U  BY <1>1, <1>12
<1> QED BY <1>8, <1>13 DEF U

-----------------------------------------------------------------------------
LEMMA InitInv == Init => IndInv
BY DEF Init, IndInv, Types, PointersMatch, Existing, Pending

\* createAddLiquidityOrder, createWithdrawCollateralOrder, createExtOrder
LEMMA CreateInv ==
    ASSUME IndInv, NEW o \in Orders, CreateOrder(o)
    PROVE  IndInv'
<1>1. Types /\ PointersMatch  BY DEF IndInv
<1>2. PICK n \in Ids : n = <<o.account, liquidityOrdersIndex[o.account]>>
  BY DEF CreateOrder
<1>3. /\ o.account \in Accounts /\ n[1] = o.account /\ n[2] = liquidityOrdersIndex[o.account]
      /\ n[2] \in Nat
  BY <1>1, <1>2 DEF Types, Orders
<1>4. n \notin Existing /\ n \notin executedOrderPointers  BY <1>1, <1>3 DEF Types
<1>5. /\ Existing' = Existing \cup {n} /\ DOMAIN status' = Existing \cup {n}
      /\ liquidityOrders'[n] = o /\ status'[n] = "PENDING"
      /\ \A id \in Existing : liquidityOrders'[id] = liquidityOrders[id] /\ status'[id] = status[id]
      /\ activeOrderPointers' = activeOrderPointers \cup {n}
      /\ executedOrderPointers' = executedOrderPointers /\ overpaid' = overpaid
      /\ liquidityOrdersIndex' = [liquidityOrdersIndex EXCEPT ![o.account] = @ + 1]
  BY <1>2, <1>4 DEF CreateOrder, Existing
<1>6. \A id \in Existing \cup {n} \cup executedOrderPointers : id[2] < liquidityOrdersIndex'[id[1]]
  <2>1. \A id \in Existing \cup executedOrderPointers : id[1] \in Accounts /\ id[2] \in Nat
    BY <1>1, BookAssumption DEF Types, Ids
  <2> QED BY <1>1, <1>3, <1>5, <2>1 DEF Types
<1>7. held' \in [Tokens -> Nat]
  BY <1>1, EscrowFacts DEF Types, CreateOrder
<1>8. liquidityOrders' \in [Existing' -> Orders] /\ status' \in [Existing' -> {"PENDING", "SUCCESS"}]
  <2>1. liquidityOrders' = [id \in Existing \cup {n} |-> IF id = n THEN o ELSE liquidityOrders[id]]
        /\ status' = [id \in Existing \cup {n} |-> IF id = n THEN "PENDING" ELSE status[id]]
    BY <1>2 DEF CreateOrder
  <2> QED BY <1>1, <1>5, <2>1 DEF Types
<1>9. Types'  BY <1>1, <1>3, <1>5, <1>6, <1>7, <1>8 DEF Types
<1>10. PointersMatch'
  <2>1. Pending' = Pending \cup {n}  BY <1>4, <1>5 DEF Pending
  <2> QED BY <1>1, <1>4, <1>5, <2>1 DEF PointersMatch
<1> QED BY <1>9, <1>10 DEF IndInv

\* What a step promises that becomes what a batch may leave.
LEMMA BecomesInv ==
    ASSUME IndInv, NEW s, Since(s), Becomes(s), liquidityOrdersIndex' = liquidityOrdersIndex
    PROVE  /\ IndInv' /\ activeOrderPointers' \subseteq activeOrderPointers
           /\ \A id \in activeOrderPointers' : liquidityOrders'[id] = liquidityOrders[id]
           /\ \A t \in Tokens : held[t] + overpaid[t]
                <= held'[t] + overpaid'[t] + Due(activeOrderPointers \ activeOrderPointers', t)
<1>1. /\ liquidityOrders' = s.orders /\ status' = s.status /\ activeOrderPointers' = s.active
      /\ executedOrderPointers' = s.executed /\ held' = s.held /\ overpaid' = s.overpaid
  BY DEF Becomes
<1>2. s \in Books /\ Matched(s)  BY DEF Since
<1>3. /\ s.orders \in [DOMAIN s.orders -> Orders] /\ DOMAIN s.orders \in SUBSET Ids
      /\ s.status \in [DOMAIN s.orders -> {"PENDING", "SUCCESS"}] /\ s.executed \in SUBSET Ids
      /\ s.held \in [Tokens -> Nat] /\ s.overpaid \in [Tokens -> Nat]
  BY <1>2, BooksFields DEF Matched
<1>4. Existing' = DOMAIN s.orders  BY <1>1 DEF Existing
<1>5. Types'
  <2>1. \A id \in DOMAIN s.orders \cup s.executed : id[2] < liquidityOrdersIndex[id[1]]
    BY <1>2 DEF Matched
  <2>2. DOMAIN status' = Existing' /\ liquidityOrdersIndex' \in [Accounts -> Nat]
    BY <1>1, <1>2, <1>4 DEF Matched, IndInv, Types
  <2> QED BY <1>1, <1>3, <1>4, <2>1, <2>2 DEF Types
<1>6. PointersMatch'
  <2>1. Pending' = s.active  BY <1>1, <1>2, <1>4 DEF Pending, Matched
  <2> QED BY <1>1, <1>2, <1>4, <2>1 DEF PointersMatch, Matched
<1>7. /\ activeOrderPointers' \subseteq activeOrderPointers
      /\ \A id \in activeOrderPointers' : liquidityOrders'[id] = liquidityOrders[id]
      /\ \A t \in Tokens : held[t] + overpaid[t]
           <= held'[t] + overpaid'[t] + Due(activeOrderPointers \ activeOrderPointers', t)
  BY <1>1 DEF Since, Holding
<1> QED BY <1>5, <1>6, <1>7 DEF IndInv

\* executeOrders
LEMMA ExecuteBecomes ==
    ASSUME IndInv, NEW batch \in Batches, ExecuteOrders(batch)
    PROVE  (\E s : Since(s) /\ Becomes(s)) /\ liquidityOrdersIndex' = liquidityOrdersIndex
<1>1. batch \in Seq(Ids \X BOOLEAN)
  <2>1. PICK n \in 1..MaxBatch : batch \in [1..n -> Existing \X BOOLEAN]  BY DEF Batches
  <2>2. n \in Nat /\ Existing \subseteq Ids  BY BookAssumption DEF IndInv, Types
  <2> QED BY <2>1, <2>2
<1>2. \E s \in Passed : Becomes(s)  BY <1>1, BatchPasses
<1> QED BY <1>2 DEF Passed, ExecuteOrders

\* cancelLiquidityOrder, cancelWithdrawOrder, cancelOrder
LEMMA CancelBecomes ==
    ASSUME IndInv, NEW id \in Ids, CancelLiquidityOrder(id)
    PROVE  (\E s : Since(s) /\ Becomes(s)) /\ liquidityOrdersIndex' = liquidityOrdersIndex
<1> DEFINE c == Cancelled(Paid(State, id, Refund(id), FALSE), id)
<1>1. State \in Books /\ Matched(State) /\ Since(State)  BY IndState, SinceStart
<1>2. State.orders = liquidityOrders /\ State.held = held  BY DEF State
<1>3. id \in DOMAIN State.orders /\ liquidityOrders[id] \in Orders
  BY <1>2 DEF CancelLiquidityOrder, IndInv, Types, Existing
<1>4. /\ Refund(id) \in [Tokens -> Nat]
      /\ \A k \in Tokens : Refund(id)[k] <= State.held[k] /\ Refund(id)[k] <= Escrow(State.orders[id])[k]
  <2>1. /\ Escrow(liquidityOrders[id]) \in [Tokens -> Nat] /\ Deposit(liquidityOrders[id]) \in [Tokens -> Nat]
        /\ \A t \in Tokens : Deposit(liquidityOrders[id])[t] <= Escrow(liquidityOrders[id])[t]
    BY <1>3, EscrowFacts
  <2>2. \A k \in Tokens : Refund(id)[k] <= held[k]  BY DEF CancelLiquidityOrder
  <2>3. Refund(id) = Deposit(liquidityOrders[id]) \/ Refund(id) = Escrow(liquidityOrders[id])
    BY DEF Refund
  <2>4. \A k \in Tokens : Escrow(liquidityOrders[id])[k] <= Escrow(liquidityOrders[id])[k]
    BY <2>1
  <2> QED BY <1>2, <2>1, <2>2, <2>3, <2>4
<1>5. Turned(c, State, id)  BY <1>1, <1>3, <1>4, PayTurns
<1>6. Becomes(c) /\ liquidityOrdersIndex' = liquidityOrdersIndex  BY DEF CancelLiquidityOrder
<1> HIDE DEF c
<1>7. Since(c)  BY <1>1, <1>5, SinceStep
<1> QED BY <1>6, <1>7

LEMMA NextInv == IndInv /\ [Next]_vars => IndInv'
<1> SUFFICES ASSUME IndInv, [Next]_vars PROVE IndInv'
  OBVIOUS
<1>1. ASSUME NEW o \in Orders, CreateOrder(o) PROVE IndInv'  BY <1>1, CreateInv
<1>2. ASSUME NEW id \in Ids, CancelLiquidityOrder(id) PROVE IndInv'
  BY <1>2, CancelBecomes, BecomesInv
<1>3. ASSUME NEW batch \in Batches, ExecuteOrders(batch) PROVE IndInv'
  BY <1>3, ExecuteBecomes, BecomesInv
<1>4. CASE UNCHANGED vars
  BY <1>4 DEF vars, IndInv, Types, PointersMatch, Existing, Pending
<1> QED BY <1>1, <1>2, <1>3, <1>4 DEF Next

\* The active pointers list exactly the pending orders, and the executed ones every
\* other order that is there (_addOrder, _removeOrder, _handleOrderSuccess),
\* whichever orders executors and users name.
THEOREM PointersRight == Spec => []PointersMatch
<1>1. IndInv => PointersMatch  BY DEF IndInv
<1>2. IndInv /\ [Next]_vars => IndInv'  BY NextInv
<1> QED BY <1>1, <1>2, InitInv, PTL DEF Spec

-----------------------------------------------------------------------------
\* The states of the abstract handler, for a state of the book.
Fates == [id \in Ids |-> Fate(id)]
Puts == [id \in Ids |-> Put(id)]
Holds == [t \in Tokens |-> held[t] + overpaid[t]]
Index(id) == liquidityOrdersIndex[id[1]]

\* The two modules mean the same by the sum of a function.
LEMMA SameSum == \A f : Handler!SumFunction(f) = SumFunction(f)
BY DEF Handler!SumFunction, Handler!SumFunctionOnSet, Handler!FoldFunctionOnSet, Handler!MapThenFoldSet,
       SumFunction, SumFunctionOnSet, FoldFunctionOnSet, MapThenFoldSet

\* An order is pending exactly while the active pointers name it.
LEMMA FateFacts ==
    IndInv => \A id \in Ids :
        /\ id \in activeOrderPointers => id \in Existing /\ ~(id[2] >= Index(id))
        /\ Fate(id) = IF id \in activeOrderPointers THEN "pending"
                      ELSE IF id[2] >= Index(id) THEN "unused" ELSE "settled"
<1> SUFFICES ASSUME IndInv, NEW id \in Ids
             PROVE  /\ id \in activeOrderPointers => id \in Existing /\ ~(id[2] >= Index(id))
                    /\ Fate(id) = IF id \in activeOrderPointers THEN "pending"
                                  ELSE IF id[2] >= Index(id) THEN "unused" ELSE "settled"
  OBVIOUS
<1>1. id[1] \in Accounts /\ id[2] \in Nat  BY BookAssumption DEF Ids
<1>2. Index(id) \in Nat  BY <1>1 DEF IndInv, Types, Index
<1>3. id \in Existing => ~(id[2] >= Index(id))  BY <1>1, <1>2 DEF IndInv, Types, Index
<1>4. id \in activeOrderPointers <=> id \in Existing /\ status[id] = "PENDING"
  BY DEF IndInv, PointersMatch, Pending
<1> QED BY <1>3, <1>4 DEF Fate, Index, Pending

LEMMA FateFactsNext ==
    IndInv' => \A id \in Ids :
        /\ id \in activeOrderPointers' => id \in Existing' /\ ~(id[2] >= Index(id)')
        /\ Fate(id)' = IF id \in activeOrderPointers' THEN "pending"
                       ELSE IF id[2] >= Index(id)' THEN "unused" ELSE "settled"
<1> SUFFICES ASSUME IndInv', NEW id \in Ids
             PROVE  /\ id \in activeOrderPointers' => id \in Existing' /\ ~(id[2] >= Index(id)')
                    /\ Fate(id)' = IF id \in activeOrderPointers' THEN "pending"
                                   ELSE IF id[2] >= Index(id)' THEN "unused" ELSE "settled"
  OBVIOUS
<1>1. id[1] \in Accounts /\ id[2] \in Nat  BY BookAssumption DEF Ids
<1>2. Index(id)' \in Nat  BY <1>1 DEF IndInv, Types, Index
<1>3. id \in Existing' => ~(id[2] >= Index(id)')  BY <1>1, <1>2 DEF IndInv, Types, Index
<1>4. id \in activeOrderPointers' <=> id \in Existing' /\ status'[id] = "PENDING"
  BY DEF IndInv, PointersMatch, Pending
<1> QED BY <1>3, <1>4 DEF Fate, Index, Pending

LEMMA PutFacts ==
    IndInv => \A id \in Ids :
        /\ Put(id) = IF id \in activeOrderPointers THEN Escrow(liquidityOrders[id]) ELSE Handler!Nothing
        /\ Put(id) \in [Tokens -> Nat]
<1> SUFFICES ASSUME IndInv, NEW id \in Ids
             PROVE  /\ Put(id) = IF id \in activeOrderPointers THEN Escrow(liquidityOrders[id])
                                 ELSE Handler!Nothing
                    /\ Put(id) \in [Tokens -> Nat]
  OBVIOUS
<1>1. Fate(id) = "pending" <=> id \in activeOrderPointers  BY FateFacts
<1>2. id \in activeOrderPointers => liquidityOrders[id] \in Orders
  BY FateFacts DEF IndInv, Types
<1> QED BY <1>1, <1>2, EscrowFacts DEF Put, Handler!Nothing

LEMMA PutFactsNext ==
    IndInv' => \A id \in Ids :
        /\ Put(id)' = IF id \in activeOrderPointers' THEN Escrow(liquidityOrders'[id]) ELSE Handler!Nothing
        /\ Put(id)' \in [Tokens -> Nat]
<1> SUFFICES ASSUME IndInv', NEW id \in Ids
             PROVE  /\ Put(id)' = IF id \in activeOrderPointers' THEN Escrow(liquidityOrders'[id])
                                  ELSE Handler!Nothing
                    /\ Put(id)' \in [Tokens -> Nat]
  OBVIOUS
<1>1. Fate(id)' = "pending" <=> id \in activeOrderPointers'  BY FateFactsNext
<1>2. id \in activeOrderPointers' => liquidityOrders'[id] \in Orders
  BY FateFactsNext DEF IndInv, Types
<1>3. Put(id)' = IF Fate(id)' = "pending" THEN Escrow(liquidityOrders'[id]) ELSE Handler!Nothing
  BY DEF Put, Handler!Nothing, Escrow, Deposit, ExecutionFee
<1>4. Handler!Nothing \in [Tokens -> Nat]  BY DEF Handler!Nothing
<1> QED BY <1>1, <1>2, <1>3, <1>4, EscrowFacts

LEMMA InitEscrow == Init => Handler!Init
<1> SUFFICES ASSUME Init PROVE Handler!Init  OBVIOUS
<1>1. \A id \in Ids : id[1] \in Accounts /\ id[2] \in Nat  BY BookAssumption DEF Ids
<1>2. \A id \in Ids : Fate(id) = "unused"  BY <1>1 DEF Init, Fate
<1>3. \A id \in Ids : Put(id) = Handler!Nothing  BY <1>2 DEF Put, Handler!Nothing
<1>4. Holds = Handler!Nothing  BY DEF Init, Holds, Handler!Nothing
<1> QED BY <1>2, <1>3, <1>4 DEF Handler!Init, Handler!Nothing, Holds

\* A new order takes the next index of its account.
LEMMA CreateEscrow ==
    ASSUME IndInv, NEW o \in Orders, CreateOrder(o)
    PROVE  Handler!Next
<1>1. IndInv'  BY CreateInv
<1>2. PICK n \in Ids : n = <<o.account, liquidityOrdersIndex[o.account]>>
  BY DEF CreateOrder
<1>3. /\ activeOrderPointers' = activeOrderPointers \cup {n} /\ liquidityOrders'[n] = o
      /\ \A id \in Existing : id # n => liquidityOrders'[id] = liquidityOrders[id]
      /\ liquidityOrdersIndex' = [liquidityOrdersIndex EXCEPT ![o.account] = @ + 1]
  BY <1>2 DEF CreateOrder, Existing
<1>4. ASSUME NEW id \in Ids, id # n PROVE id[2] >= Index(id)' <=> id[2] >= Index(id)
  <2>1. liquidityOrdersIndex \in [Accounts -> Nat] /\ o.account \in Accounts
    BY DEF IndInv, Types, Orders
  <2>2. id[1] \in Accounts /\ id[2] \in Nat /\ id = <<id[1], id[2]>>  BY BookAssumption DEF Ids
  <2>3. CASE id[1] = o.account
    <3>1. id[2] # liquidityOrdersIndex[o.account]  BY <1>2, <1>4, <2>2, <2>3
    <3> QED BY <1>3, <2>1, <2>2, <2>3, <3>1 DEF Index
  <2>4. CASE id[1] # o.account  BY <1>3, <2>1, <2>2, <2>4 DEF Index
  <2> QED BY <2>3, <2>4
<1>5. Fates[n] = "unused"
  <2>1. n[2] = Index(n) /\ Index(n) \in Nat  BY <1>2 DEF IndInv, Types, Index, Orders
  <2>2. Fate(n) = "unused"  BY <2>1, FateFacts
  <2> QED BY <2>2 DEF Fates
<1>6. Fates' = [Fates EXCEPT ![n] = "pending"]
  <2>1. Fate(n)' = "pending"  BY <1>1, <1>3, FateFactsNext
  <2>2. \A id \in Ids : id # n => Fate(id)' = Fate(id)
    BY <1>1, <1>3, <1>4, FateFacts, FateFactsNext
  <2> QED BY <2>1, <2>2 DEF Fates
<1>7. Puts' \in [Ids -> [Tokens -> Nat]]  BY <1>1, PutFactsNext DEF Puts
<1>8. \A x \in Ids \ {n} : Puts'[x] = Puts[x]
  BY <1>1, <1>3, FateFacts, PutFacts, PutFactsNext DEF Puts
<1>9. Holds' = [t \in Tokens |-> Holds[t] + Puts'[n][t]]
  <2>1. Puts'[n] = Escrow(o) /\ Escrow(o) \in [Tokens -> Nat]
    BY <1>1, <1>3, PutFactsNext, EscrowFacts DEF Puts
  <2>2. held \in [Tokens -> Nat] /\ overpaid \in [Tokens -> Nat] /\ overpaid' = overpaid
    BY DEF IndInv, Types, CreateOrder
  <2>3. \A t \in Tokens : held'[t] = held[t] + Escrow(o)[t]  BY DEF CreateOrder
  <2>4. \A t \in Tokens : held'[t] + overpaid'[t] = (held[t] + overpaid[t]) + Escrow(o)[t]
    BY <2>1, <2>2, <2>3
  <2> QED BY <2>1, <2>4 DEF Holds
<1>10. Handler!Create(n)
  BY <1>5, <1>6, <1>7, <1>8, <1>9 DEF Handler!Create, Fates, Puts, Holds
<1> QED BY <1>10 DEF Handler!Next

\* What an abstract settlement takes is what the book may pay for it.
LEMMA TakenIsDue ==
    ASSUME IndInv, NEW S \in SUBSET activeOrderPointers, NEW t \in Tokens
    PROVE  Handler!Taken(S, t) = Due(S, t)
<1>1. activeOrderPointers \subseteq Ids  BY DEF IndInv, Types, PointersMatch, Pending
<1>2. \A id \in Ids : id \in S => Put(id)[t] = Escrow(liquidityOrders[id])[t]
  BY PutFacts
<1> DEFINE f == [id \in Ids |-> IF id \in S THEN [x \in Ids |-> Put(x)][id][t] ELSE 0]
           g == [id \in Ids |-> IF id \in S THEN Escrow(liquidityOrders[id])[t] ELSE 0]
<1>3. Handler!Taken(S, t) = SumFunction(f)  BY SameSum DEF Handler!Taken
<1>4. Due(S, t) = SumFunction(g)  BY DEF Due
<1>5. f = g  BY <1>2
<1> HIDE DEF f, g
<1> QED BY <1>3, <1>4, <1>5

\* A step that leaves fewer active orders settles those that it takes away, for
\* no more than they put in.
LEMMA BecomesEscrow ==
    ASSUME IndInv, NEW s, Since(s), Becomes(s), liquidityOrdersIndex' = liquidityOrdersIndex
    PROVE  Handler!Next
<1>1. PICK S \in SUBSET Ids : S = activeOrderPointers \ activeOrderPointers'
  BY DEF IndInv, Types, PointersMatch, Pending
<1>0. /\ IndInv' /\ activeOrderPointers' \subseteq activeOrderPointers
      /\ \A id \in activeOrderPointers' : liquidityOrders'[id] = liquidityOrders[id]
      /\ \A t \in Tokens : held[t] + overpaid[t] <= held'[t] + overpaid'[t] + Due(S, t)
  BY <1>1, BecomesInv
<1>2. \A id \in S : Fates[id] = "pending"  BY <1>1, FateFacts DEF Fates
<1>3. \A id \in Ids : Index(id)' = Index(id)  BY DEF Index
<1>4. Fates' = [id \in Ids |-> IF id \in S THEN "settled" ELSE Fates[id]]
  <2>1. \A id \in Ids : Fate(id)' = IF id \in S THEN "settled" ELSE Fate(id)
    BY <1>0, <1>1, <1>3, FateFacts, FateFactsNext
  <2> QED BY <2>1 DEF Fates
<1>5. Puts' = [id \in Ids |-> IF id \in S THEN Handler!Nothing ELSE Puts[id]]
  <2>1. \A id \in Ids : Put(id)' = IF id \in S THEN Handler!Nothing ELSE Put(id)
    BY <1>0, <1>1, PutFacts, PutFactsNext
  <2> QED BY <2>1 DEF Puts
<1>6. Holds' \in [Tokens -> Nat]
  BY <1>0 DEF IndInv, Types, Holds
<1>7. \A t \in Tokens : Holds[t] <= Holds'[t] + Handler!Taken(S, t)
  <2>1. S \in SUBSET activeOrderPointers  BY <1>1
  <2>2. \A t \in Tokens : Handler!Taken(S, t) = Due(S, t)  BY <2>1, TakenIsDue
  <2>3. \A t \in Tokens : Holds[t] = held[t] + overpaid[t] /\ Holds'[t] = held'[t] + overpaid'[t]
    BY DEF Holds
  <2> QED BY <1>0, <2>2, <2>3
<1>8. Handler!Settle(S)
  BY <1>2, <1>4, <1>5, <1>6, <1>7 DEF Handler!Settle, Fates, Puts, Holds
<1> QED BY <1>1, <1>8 DEF Handler!Next

LEMMA StepEscrow == IndInv /\ [Next]_vars => [Handler!Next]_(Handler!vars)
<1> SUFFICES ASSUME IndInv, [Next]_vars PROVE [Handler!Next]_(Handler!vars)
  OBVIOUS
<1>1. ASSUME NEW o \in Orders, CreateOrder(o) PROVE Handler!Next  BY <1>1, CreateEscrow
<1>2. ASSUME NEW id \in Ids, CancelLiquidityOrder(id) PROVE Handler!Next
  BY <1>2, CancelBecomes, BecomesEscrow
<1>3. ASSUME NEW batch \in Batches, ExecuteOrders(batch) PROVE Handler!Next
  BY <1>3, ExecuteBecomes, BecomesEscrow
<1>4. CASE UNCHANGED vars
  BY <1>4 DEF vars, Handler!vars, Fate, Put, Existing, Pending
<1> QED BY <1>1, <1>2, <1>3, <1>4 DEF Next

\* The book implements the abstract handler, whichever orders batches name, how
\* often and whatever becomes of them: an order is settled at most once, for no
\* more than it put in, and whatever else leaves the handler is overpaid
\* (executeOrders, _cancelOrder, _handleFailedError).
THEOREM BookImplementsEscrow == Spec => ImplementsEscrow
<1>1. IndInv /\ [Next]_vars => IndInv'  BY NextInv
<1>2. IndInv /\ [Next]_vars => [Handler!Next]_(Handler!vars)  BY StepEscrow
<1> QED BY <1>1, <1>2, InitInv, InitEscrow, PTL DEF Spec, ImplementsEscrow, Handler!Spec

-----------------------------------------------------------------------------
(***************************************************************************)
(* What the abstract handler promises, for the states of this one: it      *)
(* follows from the abstract steps alone.                                  *)
(***************************************************************************)
\* The sums of the abstract handler are those the facts of Sums are about.
LEMMA SameTaken ==
    ASSUME NEW S
    PROVE  /\ \A t : Handler!Taken(S, t) = PutIn(Puts, Ids, S, t)
           /\ \A t : Handler!Taken(S, t)' = PutIn(Puts', Ids, S, t)
BY SameSum DEF Handler!Taken, PutIn, Puts

\* A new order adds to what is held what it adds to what is owed.
LEMMA AbstractCreate ==
    ASSUME Handler!TypeOK, Handler!TypeOK', Handler!Covered, NEW id \in Ids, Handler!Create(id)
    PROVE  Handler!Covered'
<1> SUFFICES ASSUME NEW t \in Tokens PROVE Handler!Taken(Ids, t)' <= Holds'[t]
  BY DEF Handler!Covered, Holds
<1>1. Puts \in [Ids -> [Tokens -> Nat]] /\ Puts' \in [Ids -> [Tokens -> Nat]]
  BY DEF Handler!TypeOK, Puts
<1>2. /\ \A x \in Ids \ {id} : Puts'[x] = Puts[x]
      /\ Holds'[t] = Holds[t] + Puts'[id][t] /\ Puts'[id][t] \in Nat /\ Holds[t] \in Nat
  BY <1>1 DEF Handler!Create, Handler!TypeOK, Puts, Holds
<1>3. PutIn(Puts', Ids, Ids, t) <= PutIn(Puts, Ids, Ids, t) + Puts'[id][t]
  BY <1>1, <1>2, IdsFinite, PutInCreate
<1>4. PutIn(Puts, Ids, Ids, t) \in Nat /\ PutIn(Puts', Ids, Ids, t) \in Nat
  BY <1>1, IdsFinite, PutInFacts
<1>5. PutIn(Puts, Ids, Ids, t) <= Holds[t]  BY SameTaken DEF Handler!Covered, Holds
<1>6. Handler!Taken(Ids, t)' = PutIn(Puts', Ids, Ids, t)  BY SameTaken
<1> QED BY <1>2, <1>3, <1>4, <1>5, <1>6

\* Settling orders takes what they put in, or less.
LEMMA AbstractSettle ==
    ASSUME Handler!TypeOK, Handler!TypeOK', Handler!Covered, NEW S \in SUBSET Ids,
           Handler!Settle(S)
    PROVE  Handler!Covered'
<1> SUFFICES ASSUME NEW t \in Tokens PROVE Handler!Taken(Ids, t)' <= Holds'[t]
  BY DEF Handler!Covered, Holds
<1>1. Puts \in [Ids -> [Tokens -> Nat]] /\ Puts' \in [Ids -> [Tokens -> Nat]]
  BY DEF Handler!TypeOK, Puts
<1>2. Holds[t] \in Nat /\ Holds'[t] \in Nat  BY DEF Handler!TypeOK, Holds
<1>3. \A x \in Ids : Puts'[x][t] = IF x \in S THEN 0 ELSE Puts[x][t]
  BY DEF Handler!Settle, Handler!Nothing, Puts
<1>4. PutIn(Puts', Ids, Ids, t) = PutIn(Puts, Ids, Ids, t) - PutIn(Puts, Ids, S, t)
  <2> DEFINE next == Puts'
  <2>1. /\ next \in [Ids -> [Tokens -> Nat]] 
        /\ \A x \in Ids : next[x][t] = IF x \in S THEN 0 ELSE Puts[x][t]
    BY <1>1, <1>3
  <2> HIDE DEF next
  <2>2. PutIn(next, Ids, Ids, t) = PutIn(Puts, Ids, Ids, t) - PutIn(Puts, Ids, S, t)
    <3>1. /\ PutIn(next, Ids, Ids, t) \in Nat /\ PutIn(Puts, Ids, Ids, t) \in Nat
          /\ PutIn(Puts, Ids, S, t) \in Nat
      BY <1>1, <2>1, IdsFinite, PutInFacts
    <3> QED BY <1>1, <2>1, <3>1, IdsFinite, PutInSettle
  <2> QED BY <2>2 DEF next
<1>5. PutIn(Puts, Ids, Ids, t) \in Nat /\ PutIn(Puts, Ids, S, t) \in Nat
  BY <1>1, IdsFinite, PutInFacts
<1>6. Holds[t] <= Holds'[t] + PutIn(Puts, Ids, S, t)  BY SameTaken DEF Handler!Settle, Holds
<1>7. PutIn(Puts, Ids, Ids, t) <= Holds[t]  BY SameTaken DEF Handler!Covered, Holds
<1>8. Handler!Taken(Ids, t)' = PutIn(Puts', Ids, Ids, t)  BY SameTaken
<1> QED BY <1>2, <1>4, <1>5, <1>6, <1>7, <1>8

LEMMA AbstractInit == Handler!Init => Handler!TypeOK /\ Handler!Covered
<1> SUFFICES ASSUME Handler!Init PROVE Handler!TypeOK /\ Handler!Covered  OBVIOUS
<1>1. Handler!TypeOK  BY DEF Handler!Init, Handler!TypeOK, Handler!Nothing
<1>2. ASSUME NEW t \in Tokens PROVE Handler!Taken(Ids, t) <= Holds[t]
  <2> DEFINE f == [id \in Ids |-> IF id \in Ids THEN Puts[id][t] ELSE 0]
  <2>1. f \in [Ids -> Int] /\ \A x \in Ids : f[x] = 0
    BY DEF Handler!Init, Handler!Nothing, Puts
  <2>2. PutIn(Puts, Ids, Ids, t) = SumFunction(f)  BY DEF PutIn
  <2>3. SumFunction(f) = 0
    <3> HIDE DEF f
    <3> QED BY <2>1, IdsFinite, SumFunctionZero
  <2>4. Holds[t] = 0  BY DEF Handler!Init, Handler!Nothing, Holds
  <2> QED BY <2>2, <2>3, <2>4, SameTaken
<1> QED BY <1>1, <1>2 DEF Handler!Covered, Holds

LEMMA AbstractNext ==
    ASSUME Handler!TypeOK /\ Handler!Covered, [Handler!Next]_(Handler!vars)
    PROVE  Handler!TypeOK' /\ Handler!Covered'
<1>1. Handler!TypeOK'
  <2> DEFINE fates == [id \in Ids |-> Fate(id)]
  <2>1. /\ fates \in [Ids -> {"unused", "pending", "settled"}]
        /\ Puts \in [Ids -> [Tokens -> Nat]] /\ Holds \in [Tokens -> Nat]
    BY DEF Handler!TypeOK, Puts, Holds
  <2>2. SUFFICES /\ fates' \in [Ids -> {"unused", "pending", "settled"}]
                 /\ Puts' \in [Ids -> [Tokens -> Nat]] /\ Holds' \in [Tokens -> Nat]
    BY DEF Handler!TypeOK, Puts, Holds
  <2>3. ASSUME NEW id \in Ids, Handler!Create(id)
        PROVE  /\ fates' \in [Ids -> {"unused", "pending", "settled"}]
               /\ Puts' \in [Ids -> [Tokens -> Nat]] /\ Holds' \in [Tokens -> Nat]
    <3>1. /\ fates' = [fates EXCEPT ![id] = "pending"] /\ Puts' \in [Ids -> [Tokens -> Nat]]
          /\ Holds' = [t \in Tokens |-> Holds[t] + Puts'[id][t]]
      BY <2>3 DEF Handler!Create, Puts, Holds
    <3> HIDE DEF fates
    <3> QED BY <2>1, <3>1
  <2>4. ASSUME NEW S \in SUBSET Ids, Handler!Settle(S)
        PROVE  /\ fates' \in [Ids -> {"unused", "pending", "settled"}]
               /\ Puts' \in [Ids -> [Tokens -> Nat]] /\ Holds' \in [Tokens -> Nat]
    <3>1. /\ fates' = [id \in Ids |-> IF id \in S THEN "settled" ELSE fates[id]]
          /\ Puts' = [id \in Ids |-> IF id \in S THEN [t \in Tokens |-> 0] ELSE Puts[id]]
          /\ Holds' \in [Tokens -> Nat]
      BY <2>4 DEF Handler!Settle, Handler!Nothing, Puts, Holds
    <3> HIDE DEF fates
    <3> QED BY <2>1, <3>1
  <2>5. ASSUME UNCHANGED Handler!vars
        PROVE  fates' = fates /\ Puts' = Puts /\ Holds' = Holds
    BY <2>5 DEF Handler!vars, Puts, Holds
  <2> QED BY <2>1, <2>3, <2>4, <2>5 DEF Handler!Next
<1>2. ASSUME NEW id \in Ids, Handler!Create(id) PROVE Handler!Covered'
  BY <1>1, <1>2, AbstractCreate
<1>3. ASSUME NEW S \in SUBSET Ids, Handler!Settle(S) PROVE Handler!Covered'
  BY <1>1, <1>3, AbstractSettle
<1>4. CASE UNCHANGED Handler!vars
  <2>1. Puts' = Puts /\ Holds' = Holds  BY <1>4 DEF Handler!vars, Puts, Holds
  <2> SUFFICES ASSUME NEW t \in Tokens PROVE Handler!Taken(Ids, t)' <= Holds'[t]
    BY <1>1 DEF Handler!Covered, Holds
  <2>2. Handler!Taken(Ids, t)' = Handler!Taken(Ids, t)  BY <2>1, SameTaken
  <2>3. Handler!Taken(Ids, t) <= Holds[t]  BY DEF Handler!Covered, Holds
  <2> QED BY <2>1, <2>2, <2>3
<1> QED BY <1>1, <1>2, <1>3, <1>4 DEF Handler!Next

\* The abstract handler can give every pending order back what it put in.
THEOREM EscrowCovered == Handler!Spec => [](Handler!TypeOK /\ Handler!Covered)
BY AbstractInit, AbstractNext, PTL DEF Handler!Spec

\* What the handler lacks of what its pending orders put in was overpaid, and
\* nothing else: as long as no executed order is named and no order fails for
\* another, an execution or a refund never fails for want of tokens (executeOrders,
\* _cancelOrder).
THEOREM BookCovered == Spec => []ShortByOverpaid
<1>1. Spec => Handler!Spec  BY BookImplementsEscrow DEF ImplementsEscrow
<1>2. Handler!Covered => ShortByOverpaid  BY DEF ShortByOverpaid
<1> QED BY <1>1, <1>2, EscrowCovered, PTL
=============================================================================
