-------------------------- MODULE Operations_proofs --------------------------
(* What holds of the scripts, the Safes and the Timelock, whatever is planned. *)
EXTENDS Operations, Sums, TLAPS

(***************************************************************************)
(* The Timelock, by itself and as part of Operations: what it promises for  *)
(* every delay, admin and call.                                             *)
(***************************************************************************)

\* Every pair in the queue was given an eta at least a minimum delay ahead, and
\* every executed pair was executed at its eta or later, but not in the future.
Times ==
    /\ delay \in MinimumDelay .. MaximumDelay /\ now \in Nat
    /\ \A q \in queued : q.eta \in Int /\ q.since \in Nat
    /\ \A e \in executed : e.eta \in Int /\ e.since \in Nat /\ e.at \in Nat
Ahead == \A q \in queued : q.eta >= q.since + MinimumDelay
Passed == \A e \in executed : e.eta <= e.at /\ e.at <= now
TimelockInv == Times /\ Ahead /\ Passed /\ DelayHonoured /\ ExecutedOnce

\* The constructor checks the delay; nothing is queued.
LEMMA TimelockInitEstablishes ==
    ASSUME NEW a, NEW d \in Int, TimelockInit(a, d)
    PROVE  TimelockInv
BY DelayAssumption DEF TimelockInit, TimelockInv, Times, Ahead, Passed, DelayHonoured,
    ExecutedOnce, IsQueued

\* queueTransaction: the eta is a delay ahead, so it is no eta of an executed pair.
LEMMA QueuePreserves ==
    ASSUME TimelockInv, NEW s, NEW c, NEW e \in Int, QueueTransaction(s, c, e)
    PROVE  TimelockInv'
<1> USE DelayAssumption
<1> DEFINE q0 == [call |-> c, eta |-> e, since |-> now]
<1>1. /\ executed' = executed /\ now' = now /\ delay' = delay
      /\ e >= now + delay /\ now \in Nat /\ delay \in Int /\ delay >= MinimumDelay
      /\ MinimumDelay \in Nat \ {0}
    BY DEF QueueTransaction, FarEnough, TimelockInv, Times
<1>2. queued' \subseteq queued \cup {q0}
    BY DEF QueueTransaction
<1>3. q0.eta = e /\ q0.since = now /\ q0.call = c
    OBVIOUS
<1> HIDE DEF q0
<1>4. Times'
    BY <1>1, <1>2, <1>3 DEF TimelockInv, Times
<1>5. Ahead'
    <2>1. e >= now + MinimumDelay  BY <1>1
    <2>2. QED  BY <1>2, <1>3, <2>1 DEF TimelockInv, Ahead
<1>6. Passed' /\ DelayHonoured'
    BY <1>1 DEF TimelockInv, Passed, DelayHonoured
<1>7. ExecutedOnce'
    <2>1. SUFFICES ASSUME NEW x \in executed, NEW q \in queued', IsPair(q, x.call, x.eta)
                   PROVE  FALSE
        BY <1>1 DEF ExecutedOnce, IsQueued
    <2>2. q \notin queued
        BY <2>1 DEF TimelockInv, ExecutedOnce, IsQueued
    <2>3. x.eta = e
        BY <1>2, <1>3, <2>1, <2>2 DEF IsPair
    <2>4. e <= now
        BY <1>1, <2>3, <2>1 DEF TimelockInv, Passed, Times
    <2>5. QED  BY <1>1, <2>4
<1>8. QED  BY <1>4, <1>5, <1>6, <1>7 DEF TimelockInv

\* cancelTransaction: the queue loses pairs, nothing else changes.
LEMMA CancelPreserves ==
    ASSUME TimelockInv, NEW s, NEW c, NEW e, CancelTransaction(s, c, e)
    PROVE  TimelockInv'
<1>1. queued' \subseteq queued
    BY DEF CancelTransaction, Without
<1>2. QED
    BY <1>1 DEF CancelTransaction, TimelockInv, Times, Ahead, Passed, DelayHonoured,
        ExecutedOnce, IsQueued

\* executeTransaction before its call: the pair moves from the queue to the history.
LEMMA TakePreserves ==
    ASSUME TimelockInv, NEW s, NEW c, NEW e, TakeFromQueue(s, c, e),
           delay' \in MinimumDelay .. MaximumDelay
    PROVE  TimelockInv'
<1> USE DelayAssumption
<1>1. PICK q \in queued : /\ IsPair(q, c, e)
                          /\ executed' = executed \cup
                                {[call |-> c, eta |-> e, since |-> q.since, at |-> now]}
    BY DEF TakeFromQueue
<1> DEFINE x0 == [call |-> c, eta |-> e, since |-> q.since, at |-> now]
<1>2. /\ q.since \in Nat /\ q.eta \in Int /\ q.eta >= q.since + MinimumDelay
      /\ c = q.call /\ e = q.eta /\ now \in Nat /\ now' = now
      /\ now >= e /\ now <= e + GracePeriod
      /\ queued' = {r \in queued : ~IsPair(r, c, e)}
    BY <1>1 DEF TimelockInv, Times, Ahead, TakeFromQueue, Without, IsPair
<1>3. x0.eta = e /\ x0.since = q.since /\ x0.at = now /\ x0.call = c
    OBVIOUS
<1> HIDE DEF x0
<1>4. executed' = executed \cup {x0}
    BY <1>1 DEF x0
<1>5. Times'
    BY <1>2, <1>3, <1>4 DEF TimelockInv, Times
<1>6. Ahead' /\ Passed'
    BY <1>2, <1>3, <1>4 DEF TimelockInv, Ahead, Passed
<1>7. DelayHonoured'
    <2>1. x0.at >= x0.since + MinimumDelay /\ x0.at <= x0.eta + GracePeriod
        BY <1>2, <1>3
    <2>2. QED  BY <1>4, <2>1 DEF TimelockInv, DelayHonoured
<1>8. ExecutedOnce'
    BY <1>2, <1>3, <1>4 DEF TimelockInv, ExecutedOnce, IsQueued, IsPair
<1>9. QED  BY <1>5, <1>6, <1>7, <1>8 DEF TimelockInv

\* executeTransaction with its call, which may set the delay, within its bounds.
LEMMA ExecutePreserves ==
    ASSUME TimelockInv, NEW s, NEW c, NEW e, ExecuteTransaction(s, c, e)
    PROVE  TimelockInv'
<1>1. TakeFromQueue(s, c, e)
    BY DEF ExecuteTransaction
<1>2. delay' \in MinimumDelay .. MaximumDelay
    <2>1. CASE c \in SetDelayCalls /\ SetDelay(Self, c.arg)
        <3>1. c.arg \in Int
            BY <2>1, DelayAssumption DEF SetDelayCalls
        <3>2. QED  BY <2>1, <3>1, DelayAssumption DEF SetDelay
    <2>2. CASE c \in SetAdminCalls /\ SetPendingAdmin(Self, c.arg)
        BY <2>2 DEF SetPendingAdmin, TimelockInv, Times
    <2>3. CASE c \in OutsideCalls /\ UNCHANGED <<admin, pendingAdmin, delay>>
        BY <2>3 DEF TimelockInv, Times
    <2>4. QED  BY <2>1, <2>2, <2>3 DEF ExecuteTransaction
<1>3. QED  BY <1>1, <1>2, TakePreserves

\* Time passes, or the pending admin takes over.
LEMMA TickPreserves ==
    ASSUME TimelockInv, Tick \/ (\E s : AcceptAdmin(s)) \/ UNCHANGED timelockVars
    PROVE  TimelockInv'
BY DEF TimelockInv, Times, Ahead, Passed, DelayHonoured, ExecutedOnce, IsQueued, Tick,
    AcceptAdmin, timelockVars

LEMMA TimelockNextPreserves ==
    ASSUME TimelockInv, [TimelockNext]_timelockVars
    PROVE  TimelockInv'
<1>1. CASE Tick \/ (\E s : AcceptAdmin(s)) \/ UNCHANGED timelockVars
    BY <1>1, TickPreserves
<1>2. ASSUME NEW s \in Accounts, NEW c \in Calls, NEW e \in Etas,
             \/ QueueTransaction(s, c, e) \/ CancelTransaction(s, c, e) \/ ExecuteTransaction(s, c, e)
      PROVE  TimelockInv'
    <2>1. e \in Int
        BY DelayAssumption
    <2>2. QED
        BY ONLY TimelockInv, <1>2, <2>1, QueuePreserves, CancelPreserves, ExecutePreserves
<1>3. QED  BY <1>1, <1>2 DEF TimelockNext

LEMMA TimelockTypePreserves ==
    ASSUME TimelockTypeOK, TimelockInv, TimelockInv', [TimelockNext]_timelockVars
    PROVE  TimelockTypeOK'
<1> USE DelayAssumption DEF TimelockTypeOK
<1>1. ASSUME NEW s, NEW c \in Calls, NEW e \in Etas, QueueTransaction(s, c, e)
      PROVE  TimelockTypeOK'
    <2>1. [call |-> c, eta |-> e, since |-> now] \in [call : Calls, eta : Int, since : Nat]
        OBVIOUS
    <2>2. QED  BY <1>1, <2>1 DEF QueueTransaction
<1>2. ASSUME NEW s, NEW c \in Calls, NEW e \in Etas, TakeFromQueue(s, c, e)
      PROVE  /\ queued' \subseteq [call : Calls, eta : Int, since : Nat]
             /\ executed' \subseteq [call : Calls, eta : Int, since : Nat, at : Nat]
             /\ now' \in Nat
    BY <1>2 DEF TakeFromQueue, Without, Calls
<1>3. ASSUME NEW s, NEW c \in Calls, NEW e \in Etas, ExecuteTransaction(s, c, e)
      PROVE  TimelockTypeOK'
    <2>1. TakeFromQueue(s, c, e)
        BY <1>3 DEF ExecuteTransaction
    <2>2. delay' \in MinimumDelay .. MaximumDelay
        BY DEF TimelockInv, Times
    <2>3. admin' \in Accounts /\ pendingAdmin' \in Accounts \cup {NoAdmin}
        <3>1. CASE c \in SetAdminCalls /\ SetPendingAdmin(Self, c.arg)
            BY <3>1 DEF SetAdminCalls, SetPendingAdmin
        <3>2. CASE c \notin SetAdminCalls \/ ~SetPendingAdmin(Self, c.arg)
            BY <1>3, <3>2 DEF ExecuteTransaction, SetDelay
        <3>3. QED  BY <3>1, <3>2
    <2>4. QED  BY <1>2, <2>1, <2>2, <2>3
<1>4. ASSUME NEW s, NEW c, NEW e, CancelTransaction(s, c, e)
      PROVE  TimelockTypeOK'
    BY <1>4 DEF CancelTransaction, Without
<1>5. ASSUME NEW s \in Accounts, AcceptAdmin(s)  PROVE TimelockTypeOK'
    BY <1>5 DEF AcceptAdmin
<1>6. CASE Tick \/ UNCHANGED timelockVars
    BY <1>6 DEF Tick, timelockVars
<1>7. QED  BY <1>1, <1>3, <1>4, <1>5, <1>6 DEF TimelockNext

\* The invariant holds always, and with it what the Timelock is trusted for.
THEOREM TimelockInvariant == TimelockSpec => [](TimelockTypeOK /\ TimelockInv)
<1>1. (\E a \in Accounts, d \in Delays : TimelockInit(a, d)) => TimelockTypeOK /\ TimelockInv
    <2> SUFFICES ASSUME NEW a \in Accounts, NEW d \in Delays, TimelockInit(a, d)
                 PROVE  TimelockTypeOK /\ TimelockInv
        OBVIOUS
    <2>1. d \in Int
        BY DelayAssumption
    <2>2. TimelockInv
        BY <2>1, TimelockInitEstablishes
    <2>3. TimelockTypeOK
        BY <2>1, DelayAssumption DEF TimelockInit, TimelockTypeOK
    <2>4. QED  BY <2>2, <2>3
<1>2. TimelockTypeOK /\ TimelockInv /\ [TimelockNext]_timelockVars
        => (TimelockTypeOK /\ TimelockInv)'
    BY TimelockNextPreserves, TimelockTypePreserves
<1>3. QED  BY <1>1, <1>2, PTL DEF TimelockSpec

\* A call is made a minimum delay or more after it was queued, also when the delay
\* itself is changed by such a call (executeTransaction, queueTransaction, setDelay).
THEOREM DelayIsHonoured == TimelockSpec => []DelayHonoured
<1>1. TimelockInv => DelayHonoured
    BY DEF TimelockInv
<1>2. QED  BY <1>1, TimelockInvariant, PTL

\* A pair of call and eta is executed once, although queueTransaction never asks
\* whether it was executed before (queueTransaction, executeTransaction).
THEOREM PairsAreExecutedOnce == TimelockSpec => []ExecutedOnce
<1>1. TimelockInv => ExecutedOnce
    BY DEF TimelockInv
<1>2. QED  BY <1>1, TimelockInvariant, PTL

-----------------------------------------------------------------------------
(***************************************************************************)
(* Types, and what each action does to the runs.                            *)
(***************************************************************************)

IsRun(x) ==
    x = [status |-> x.status, at |-> x.at, snap |-> x.snap, last |-> x.last,
         saw |-> x.saw, nonce |-> x.nonce, option |-> x.option, chosen |-> x.chosen,
         with |-> x.with, wrote |-> x.wrote]
Runs == 1 .. Len(plan)
RunsTyped ==
    /\ run = [r \in Runs |-> run[r]]
    /\ \A r \in Runs :
        /\ IsRun(run[r])
        /\ run[r].status \in {"waiting", "running", "stopped"} /\ run[r].at \in Nat \ {0}
        /\ run[r].nonce \in Nat \cup {NoNonce} /\ run[r].option \in Nat \cup {NoNonce} /\ run[r].chosen \in BOOLEAN
        /\ run[r].with \subseteq Runs
ProposalsTyped ==
    /\ IsFiniteSet(proposals)
    /\ \A p \in proposals :
        /\ p.safe \in Safes /\ p.nonce \in Int /\ p.chosen \in BOOLEAN
        /\ p.tx.from \in Runs /\ p.tx.eta \in Int
OpsTyped ==
    /\ plan \in Plans /\ setup \in Setups
    /\ RunsTyped /\ ProposalsTyped
    /\ made \in Nat
    /\ nonces = [safe \in Safes |-> nonces[safe]] /\ \A safe \in Safes : nonces[safe] \in Nat

\* A plan is a sequence of sequences of steps, each script in order and fitting.
LEMMA PlanFacts ==
    ASSUME OpsTyped
    PROVE  /\ Len(plan) \in Nat
           /\ \A r \in Runs :
                /\ Len(plan[r]) \in Nat /\ InOrder(plan[r]) /\ Fitting(setup, plan, plan[r])
                /\ \A i \in 1 .. Len(plan[r]) : plan[r][i] \in Steps
<1>1. plan \in Seq(Seq(Steps))
    BY PlanAssumption DEF OpsTyped
<1>2. Len(plan) \in Nat /\ \A r \in Runs : plan[r] \in Seq(Steps)
    BY <1>1 DEF Runs
<1>3. \A r \in Runs : Len(plan[r]) \in Nat /\ \A i \in 1 .. Len(plan[r]) : plan[r][i] \in Steps
    BY <1>2
<1>4. QED  BY <1>2, <1>3, PlanAssumption DEF OpsTyped, Runs

\* A run with some of its fields changed.
LEMMA RunWithFile ==
    ASSUME NEW x, IsRun(x), NEW f, NEW w
    PROVE  [x EXCEPT !.snap = f, !.wrote = w] =
             [status |-> x.status, at |-> x.at, snap |-> f, last |-> x.last,
              saw |-> x.saw, nonce |-> x.nonce, option |-> x.option, chosen |-> x.chosen,
              with |-> x.with, wrote |-> w]
<1> DEFINE y == [x EXCEPT !.snap = f]
<1>1. y = [status |-> x.status, at |-> x.at, snap |-> f, last |-> x.last,
           saw |-> x.saw, nonce |-> x.nonce, option |-> x.option, chosen |-> x.chosen,
           with |-> x.with, wrote |-> x.wrote]
    BY DEF IsRun
<1>2. [x EXCEPT !.snap = f, !.wrote = w] = [y EXCEPT !.wrote = w]
    OBVIOUS
<1> HIDE DEF y
<1>3. [y EXCEPT !.wrote = w] =
        [status |-> x.status, at |-> x.at, snap |-> f, last |-> x.last,
         saw |-> x.saw, nonce |-> x.nonce, option |-> x.option, chosen |-> x.chosen,
         with |-> x.with, wrote |-> w]
    BY <1>1
<1>4. QED  BY <1>2, <1>3

\* A step of r that takes it on by so many steps of its script.
Moves(r, steps) ==
    /\ run' = [q \in Runs |-> run'[q]]
    /\ \A q \in Runs : q # r => run'[q] = run[q]
    /\ IsRun(run'[r])
    /\ run'[r].at = run[r].at + steps
    /\ run'[r].status = run[r].status
    /\ run'[r].with = run[r].with
KeepsFile(r) == run'[r].snap = run[r].snap /\ run'[r].wrote = run[r].wrote
KeepsLast(r) == run'[r].last = run[r].last
KeepsNonce(r) == /\ run'[r].nonce = run[r].nonce
                 /\ run'[r].option = run[r].option /\ run'[r].chosen = run[r].chosen

LEMMA WentMoves ==
    ASSUME RunsTyped, NEW r \in Runs, NEW steps \in Nat, NEW c, IsRun(c), c.at = run[r].at,
           c.status = run[r].status, c.with = run[r].with,
           Went(r, steps, c)
    PROVE  /\ Moves(r, steps)
           /\ run'[r].snap = c.snap /\ run'[r].wrote = c.wrote /\ run'[r].last = c.last
           /\ run'[r].nonce = c.nonce
           /\ run'[r].option = c.option /\ run'[r].chosen = c.chosen /\ run'[r].saw = c.saw
<1> DEFINE d == [c EXCEPT !.at = @ + steps]
<1>1. run' = [run EXCEPT ![r] = d] /\ run = [q \in Runs |-> run[q]]
    BY DEF Went, RunsTyped
<1>2. /\ IsRun(d) /\ d.at = c.at + steps /\ d.status = c.status /\ d.with = c.with
      /\ d.snap = c.snap /\ d.wrote = c.wrote /\ d.last = c.last
      /\ d.nonce = c.nonce /\ d.option = c.option
      /\ d.chosen = c.chosen /\ d.saw = c.saw
    BY DEF IsRun
<1> HIDE DEF d
<1>3. run'[r] = d /\ run' = [q \in Runs |-> run'[q]] /\ \A q \in Runs : q # r => run'[q] = run[q]
    BY <1>1
<1>4. QED  BY <1>2, <1>3 DEF Moves

LEMMA MakeMoves ==
    ASSUME RunsTyped, NEW r \in Runs, DeployContract(r) \/ PrepareUpgrade(r)
    PROVE  /\ Moves(r, 1) /\ KeepsFile(r) /\ KeepsNonce(r)
           /\ run'[r].last = NewAddress(Todo(r).kind)
<1> DEFINE c == [run[r] EXCEPT !.last = NewAddress(Todo(r).kind)]
<1>1. IsRun(run[r])
    BY DEF RunsTyped
<1>2. /\ IsRun(c) /\ c.at = run[r].at /\ c.status = run[r].status /\ c.with = run[r].with
      /\ c.snap = run[r].snap /\ c.wrote = run[r].wrote
      /\ c.last = NewAddress(Todo(r).kind)
      /\ c.nonce = run[r].nonce /\ c.option = run[r].option /\ c.chosen = run[r].chosen
    BY <1>1 DEF IsRun
<1>3. Went(r, 1, c)
    BY DEF DeployContract, PrepareUpgrade
<1> HIDE DEF c
<1>4. QED  BY <1>2, <1>3, WentMoves DEF KeepsFile, KeepsNonce

LEMMA WriteMoves ==
    ASSUME RunsTyped, NEW r \in Runs, WriteConfigFile(r)
    PROVE  LET update == [key \in Todo(r).keys |-> run[r].last]
           IN  /\ Moves(r, 1) /\ KeepsLast(r) /\ KeepsNonce(r)
               /\ file' = Over(update, run[r].snap)
               /\ run'[r].snap = Over(update, run[r].snap)
               /\ run'[r].wrote = Over(update, run[r].wrote)
<1> DEFINE update == [key \in Todo(r).keys |-> run[r].last]
           wrote == Over(update, run[r].wrote)
           c == [run[r] EXCEPT !.snap = file', !.wrote = wrote]
<1>1. IsRun(run[r])
    BY DEF RunsTyped
<1> HIDE DEF wrote
<1>2. /\ IsRun(c) /\ c.at = run[r].at /\ c.status = run[r].status /\ c.with = run[r].with
      /\ c.snap = file' /\ c.wrote = wrote
      /\ c.last = run[r].last
      /\ c.nonce = run[r].nonce /\ c.option = run[r].option /\ c.chosen = run[r].chosen
    <2> HIDE DEF c
    <2>1. c = [status |-> run[r].status, at |-> run[r].at, snap |-> file', last |-> run[r].last, saw |-> run[r].saw, nonce |-> run[r].nonce,
               option |-> run[r].option, chosen |-> run[r].chosen,
               with |-> run[r].with, wrote |-> wrote]
        BY <1>1, RunWithFile DEF c
    <2>2. QED  BY <2>1 DEF IsRun
<1>3. Went(r, 1, c) /\ file' = Over(update, run[r].snap)
    BY DEF WriteConfigFile, WholeFile, wrote
<1> HIDE DEF c
<1>4. QED  BY <1>2, <1>3, WentMoves DEF KeepsLast, KeepsNonce, wrote

\* A run keeps all but what it has looked at.
LEMMA SawMoves ==
    ASSUME RunsTyped, NEW r \in Runs, NEW steps \in Nat, NEW y,
           Went(r, steps, [run[r] EXCEPT !.saw = y])
    PROVE  Moves(r, steps) /\ KeepsFile(r) /\ KeepsLast(r) /\ KeepsNonce(r)
<1> DEFINE c == [run[r] EXCEPT !.saw = y]
<1>1. IsRun(run[r])
    BY DEF RunsTyped
<1>2. /\ IsRun(c) /\ c.at = run[r].at /\ c.status = run[r].status /\ c.with = run[r].with
      /\ c.snap = run[r].snap /\ c.wrote = run[r].wrote
      /\ c.last = run[r].last
      /\ c.nonce = run[r].nonce /\ c.option = run[r].option /\ c.chosen = run[r].chosen
    BY <1>1 DEF IsRun
<1>3. Went(r, steps, c)
    OBVIOUS
<1> HIDE DEF c
<1>4. QED  BY <1>2, <1>3, WentMoves DEF KeepsFile, KeepsLast, KeepsNonce

LEMMA PassMoves ==
    ASSUME RunsTyped, NEW r \in Runs,
           \/ GetUpdatePriceData(r) \/ LookUp(r) \/ SkipUnless(r)
           \/ SendAtOnce(r) \/ PassExecution(r)
    PROVE  /\ Moves(r, 1) \/ (Does(r, "unless") /\ Moves(r, 2))
           /\ KeepsFile(r) /\ KeepsLast(r) /\ KeepsNonce(r)
<1>1. run[r] = [run[r] EXCEPT !.saw = run[r].saw]
    BY DEF RunsTyped, IsRun
<1>2. CASE LookUp(r)
    <2> DEFINE seen == CallsOf(Lookup(run[r].snap, Todo(r).to), Todo(r).fn)
               y == {c.from : c \in seen}
    <2>1. Went(r, 1, [run[r] EXCEPT !.saw = y])
        BY <1>2 DEF LookUp
    <2> HIDE DEF y
    <2>2. QED  BY <2>1, SawMoves
<1>3. CASE SkipUnless(r)
    <2>1. PICK steps \in {1, 2} : Went(r, steps, run[r])
        BY <1>3 DEF SkipUnless
    <2>2. Went(r, steps, [run[r] EXCEPT !.saw = run[r].saw])
        BY <1>1, <2>1 DEF Went
    <2>3. steps \in Nat /\ Does(r, "unless")
        BY <1>3 DEF SkipUnless
    <2>4. Moves(r, steps) /\ KeepsFile(r) /\ KeepsLast(r) /\ KeepsNonce(r)
        BY <2>2, <2>3, SawMoves
    <2>5. QED  BY <2>1, <2>3, <2>4
<1>4. CASE GetUpdatePriceData(r) \/ SendAtOnce(r) \/ PassExecution(r)
    <2>1. Went(r, 1, [run[r] EXCEPT !.saw = run[r].saw])
        BY <1>1, <1>4 DEF GetUpdatePriceData, SendAtOnce, PassExecution
    <2>2. QED  BY <2>1, SawMoves
<1>5. QED  BY <1>2, <1>3, <1>4

\* A run gets a nonce.
LEMMA NonceMoves ==
    ASSUME RunsTyped, NEW r \in Runs, NEW n, NEW b, NEW o,
           Went(r, 0, [run[r] EXCEPT !.nonce = n, !.chosen = b, !.option = o])
    PROVE  /\ Moves(r, 0) /\ KeepsFile(r) /\ KeepsLast(r)
           /\ run'[r].nonce = n /\ run'[r].option = o /\ run'[r].chosen = b
<1> DEFINE c == [run[r] EXCEPT !.nonce = n, !.chosen = b, !.option = o]
<1>1. IsRun(run[r])
    BY DEF RunsTyped
<1>2. c = [status |-> run[r].status, at |-> run[r].at, snap |-> run[r].snap, last |-> run[r].last, saw |-> run[r].saw, nonce |-> n, option |-> o,
           chosen |-> b, with |-> run[r].with, wrote |-> run[r].wrote]
    <2> DEFINE y == [run[r] EXCEPT !.nonce = n]
               z == [y EXCEPT !.chosen = b]
    <2>1. y = [status |-> run[r].status, at |-> run[r].at, snap |-> run[r].snap, last |-> run[r].last, saw |-> run[r].saw, nonce |-> n,
               option |-> run[r].option, chosen |-> run[r].chosen, with |-> run[r].with,
               wrote |-> run[r].wrote]
        BY <1>1 DEF IsRun
    <2>2. c = [z EXCEPT !.option = o]
        OBVIOUS
    <2> HIDE DEF y, c
    <2>3. z = [status |-> run[r].status, at |-> run[r].at, snap |-> run[r].snap, last |-> run[r].last, saw |-> run[r].saw, nonce |-> n,
               option |-> run[r].option, chosen |-> b, with |-> run[r].with,
               wrote |-> run[r].wrote]
        BY <2>1
    <2> HIDE DEF z
    <2>4. QED  BY <2>2, <2>3
<1>3. Went(r, 0, c)
    OBVIOUS
<1> HIDE DEF c
<1>4. /\ IsRun(c) /\ c.at = run[r].at /\ c.status = run[r].status /\ c.with = run[r].with
      /\ c.snap = run[r].snap /\ c.wrote = run[r].wrote
      /\ c.last = run[r].last
      /\ c.nonce = n /\ c.option = o /\ c.chosen = b
    BY <1>2 DEF IsRun
<1>5. QED  BY <1>3, <1>4, WentMoves DEF KeepsFile, KeepsLast

\* A nonce the operator asks for is taken, unless it is 0; else it is the next there is.
LEMMA ReadMoves ==
    ASSUME RunsTyped, NEW r \in Runs, ReadNonce(r)
    PROVE  /\ Moves(r, 0) /\ KeepsFile(r) /\ KeepsLast(r)
           /\ run[r].nonce = NoNonce /\ run'[r].option \in Nat \cup {NoNonce}
           /\ Asked(r) => Asked(r)'
           /\ \E safe \in Safes :
                /\ Sends(r, safe)
                /\ \/ run'[r].nonce = GetNextNonce(safe) /\ run'[r].chosen = FALSE
                   \/ run'[r].nonce \in Nat /\ run'[r].chosen = TRUE /\ Asked(r)'
<1>1. IsRun(run[r]) /\ run[r].option \in Nat \cup {NoNonce}
    BY DEF RunsTyped
<1>2. PICK safe \in Safes : /\ Sends(r, safe) /\ run[r].nonce = NoNonce
        /\ \E option \in IF Todo(r).by # "safeAtNonce" THEN {0}
                         ELSE IF run[r].option = NoNonce THEN Options ELSE {run[r].option + 1} :
             Went(r, 0, [run[r] EXCEPT
                !.nonce = IF option # 0 THEN option ELSE GetNextNonce(safe),
                !.chosen = option # 0,
                !.option = IF Todo(r).by = "safeAtNonce" THEN option ELSE run[r].option])
    BY DEF ReadNonce
<1>3. PICK option \in IF Todo(r).by # "safeAtNonce" THEN {0}
                      ELSE IF run[r].option = NoNonce THEN Options ELSE {run[r].option + 1} :
             Went(r, 0, [run[r] EXCEPT
                !.nonce = IF option # 0 THEN option ELSE GetNextNonce(safe),
                !.chosen = option # 0,
                !.option = IF Todo(r).by = "safeAtNonce" THEN option ELSE run[r].option])
    BY <1>2
<1>4. /\ option \in Nat
      /\ option # 0 => Todo(r).by = "safeAtNonce"
      /\ option = 0 => Todo(r).by # "safeAtNonce" \/ run[r].option = NoNonce
    <2>1. Options \subseteq Nat
        BY PlanAssumption
    <2>2. CASE Todo(r).by # "safeAtNonce"
        BY <2>2
    <2>3. CASE Todo(r).by = "safeAtNonce" /\ run[r].option = NoNonce
        BY <2>1, <2>3
    <2>4. CASE Todo(r).by = "safeAtNonce" /\ run[r].option # NoNonce
        BY <1>1, <2>4
    <2>5. QED  BY <2>2, <2>3, <2>4
<1> DEFINE n == IF option # 0 THEN option ELSE GetNextNonce(safe)
           o == IF Todo(r).by = "safeAtNonce" THEN option ELSE run[r].option
<1>0. PICK b \in BOOLEAN : b = (option # 0)
    OBVIOUS
<1>5. /\ o \in Nat \cup {NoNonce} /\ (run[r].option > 0 => o > 0)
      /\ \/ n = GetNextNonce(safe) /\ b = FALSE
         \/ n \in Nat /\ b = TRUE /\ o > 0
    <2>1. o = IF Todo(r).by = "safeAtNonce" THEN option ELSE run[r].option
        OBVIOUS
    <2>2. n = IF option # 0 THEN option ELSE GetNextNonce(safe)
        OBVIOUS
    <2> HIDE DEF n, o
    <2>3. CASE option = 0
        <3>1. n = GetNextNonce(safe) /\ b = FALSE
            BY <1>0, <2>2, <2>3
        <3>2. o \in Nat \cup {NoNonce} /\ (run[r].option > 0 => o > 0)
            BY <1>1, <1>4, <2>1, <2>3 DEF NoNonce
        <3>3. QED  BY <3>1, <3>2
    <2>4. CASE option # 0
        <3>1. n \in Nat /\ b = TRUE
            BY <1>0, <1>4, <2>2, <2>4
        <3>2. o \in Nat /\ o > 0
            BY <1>4, <2>1, <2>4
        <3>3. QED  BY <3>1, <3>2
    <2>5. QED  BY <2>3, <2>4
<1>8. /\ Moves(r, 0) /\ KeepsFile(r) /\ KeepsLast(r)
      /\ run'[r].nonce = n /\ run'[r].option = o /\ run'[r].chosen = b
    <2>1. Went(r, 0, [run[r] EXCEPT !.nonce = n, !.chosen = option # 0, !.option = o])
        BY <1>3
    <2> HIDE DEF n, o
    <2>2. run'[r].chosen = (option # 0)
        BY ONLY RunsTyped, r \in Runs, <2>1, NonceMoves, Zenon
    <2>3. /\ Moves(r, 0) /\ KeepsFile(r) /\ KeepsLast(r)
          /\ run'[r].nonce = n /\ run'[r].option = o
        BY ONLY RunsTyped, r \in Runs, <2>1, NonceMoves, Zenon
    <2>4. QED  BY <1>0, <2>2, <2>3
<1> HIDE DEF n, o
<1>9. /\ run[r].nonce = NoNonce /\ run'[r].option \in Nat \cup {NoNonce}
      /\ Asked(r) => Asked(r)'
      /\ \/ run'[r].nonce = GetNextNonce(safe) /\ run'[r].chosen = FALSE
         \/ run'[r].nonce \in Nat /\ run'[r].chosen = TRUE /\ Asked(r)'
    <2>1. (run[r].option > 0 => o > 0) /\ (Asked(r)' <=> o > 0)
        BY <1>5, <1>8 DEF Asked
    <2>2. QED  BY <1>2, <1>5, <1>8, <2>1 DEF Asked
<1>10. QED  BY <1>2, <1>8, <1>9

LEMMA ProposeMoves ==
    ASSUME RunsTyped, NEW r \in Runs, ProposeTransaction(r)
    PROVE  /\ Moves(r, 1) /\ KeepsFile(r) /\ KeepsLast(r)
           /\ run[r].nonce # NoNonce /\ run'[r].nonce = NoNonce
           /\ run'[r].option = run[r].option /\ run'[r].chosen = run[r].chosen
<1> DEFINE c == [run[r] EXCEPT !.nonce = NoNonce]
<1>1. IsRun(run[r])
    BY DEF RunsTyped
<1>2. /\ IsRun(c) /\ c.at = run[r].at /\ c.status = run[r].status /\ c.with = run[r].with
      /\ c.snap = run[r].snap /\ c.wrote = run[r].wrote
      /\ c.last = run[r].last
      /\ c.nonce = NoNonce /\ c.option = run[r].option /\ c.chosen = run[r].chosen
    BY <1>1 DEF IsRun
<1>3. Went(r, 1, c) /\ run[r].nonce # NoNonce
    BY DEF ProposeTransaction
<1> HIDE DEF c
<1>4. QED  BY <1>2, <1>3, WentMoves DEF KeepsFile, KeepsLast

\* A run begins, and overlaps with those that are running; or a run stops.
LEMMA StartMoves ==
    ASSUME RunsTyped, NEW r \in Runs, Start(r)
    PROVE  /\ run' = [q \in Runs |-> run'[q]]
           /\ \A q \in Runs :
                /\ IsRun(run'[q])
                /\ run'[q].wrote = run[q].wrote /\ run'[q].at = run[q].at
                /\ KeepsLast(q) /\ KeepsNonce(q)
                /\ q # r => /\ KeepsFile(q) /\ run'[q].status = run[q].status
                           
                            /\ run'[q].with = IF Running(q) THEN run[q].with \cup {r} ELSE run[q].with
           /\ run[r].status = "waiting" /\ run'[r].status = "running"
           /\ run'[r].snap = file
           /\ run'[r].with = {q \in Runs : Running(q)}
           /\ \A q \in 1 .. r - 1 : run[q].status # "waiting"
<1> DEFINE others == {q \in Runs : Running(q)}
           started == [status |-> "running", at |-> run[r].at, snap |-> file, last |-> run[r].last, saw |-> run[r].saw, nonce |-> run[r].nonce,
                       option |-> run[r].option, chosen |-> run[r].chosen,
                       with |-> others, wrote |-> run[r].wrote]
           joined(q) == [run[q] EXCEPT !.with = @ \cup {r}]
<1>1. /\ DOMAIN run = Runs /\ \A q \in Runs : IsRun(run[q])
    BY DEF RunsTyped
<1>2. run[r].status = "waiting" /\ \A q \in 1 .. r - 1 : run[q].status # "waiting"
    BY DEF Start
<1>3. [run[r] EXCEPT !.status = "running", !.snap = file, !.with = others] = started
    <2> DEFINE x == [run[r] EXCEPT !.status = "running"]
               y == [x EXCEPT !.snap = file]
    <2>1. x = [status |-> "running", at |-> run[r].at, snap |-> run[r].snap, last |-> run[r].last,
               saw |-> run[r].saw, nonce |-> run[r].nonce,
               option |-> run[r].option, chosen |-> run[r].chosen,
               with |-> run[r].with, wrote |-> run[r].wrote]
        BY <1>1 DEF IsRun
    <2>2. [run[r] EXCEPT !.status = "running", !.snap = file, !.with = others]
            = [y EXCEPT !.with = others]
        OBVIOUS
    <2> HIDE DEF x, others
    <2>3. y = [status |-> "running", at |-> run[r].at, snap |-> file, last |-> run[r].last,
               saw |-> run[r].saw, nonce |-> run[r].nonce,
               option |-> run[r].option, chosen |-> run[r].chosen,
               with |-> run[r].with, wrote |-> run[r].wrote]
        BY <2>1
    <2> HIDE DEF y
    <2>4. [y EXCEPT !.with = others] = started
        BY <2>3
    <2>5. QED  BY <2>2, <2>4
<1>4. \A q \in Runs : run'[q] = IF q = r THEN started ELSE IF q \in others THEN joined(q) ELSE run[q]
    BY <1>1, <1>3 DEF Start
<1>5. run' = [q \in Runs |-> run'[q]]
    BY <1>1 DEF Start
<1>6. /\ IsRun(started) /\ started.status = "running" /\ started.snap = file
      /\ started.with = others /\ started.at = run[r].at
      /\ started.wrote = run[r].wrote /\ started.last = run[r].last
      /\ started.nonce = run[r].nonce
      /\ started.option = run[r].option /\ started.chosen = run[r].chosen
    BY DEF IsRun
<1>7. ASSUME NEW q \in Runs
      PROVE  /\ IsRun(joined(q)) /\ joined(q).with = run[q].with \cup {r}
             /\ joined(q).status = run[q].status /\ joined(q).snap = run[q].snap
             /\ joined(q).at = run[q].at
             /\ joined(q).wrote = run[q].wrote /\ joined(q).last = run[q].last
             /\ joined(q).nonce = run[q].nonce
             /\ joined(q).option = run[q].option /\ joined(q).chosen = run[q].chosen
    <2>1. IsRun(run[q]) /\ joined(q) = [run[q] EXCEPT !.with = run[q].with \cup {r}]
        BY <1>1
    <2> DEFINE w == run[q].with \cup {r}
    <2> HIDE DEF w, joined
    <2>2. joined(q) = [status |-> run[q].status, at |-> run[q].at, snap |-> run[q].snap,
               last |-> run[q].last, saw |-> run[q].saw,
               nonce |-> run[q].nonce, option |-> run[q].option, chosen |-> run[q].chosen,
               with |-> w, wrote |-> run[q].wrote]
        BY <2>1 DEF IsRun, w
    <2>3. QED  BY <2>2 DEF IsRun, w
<1>8. \A q \in Runs : q \in others <=> Running(q)
    OBVIOUS
<1> HIDE DEF started, joined, others
<1>9. run'[r] = started
    BY <1>4
<1>10. ASSUME NEW q \in Runs, q # r
       PROVE  /\ IsRun(run'[q])
              /\ run'[q].wrote = run[q].wrote /\ run'[q].at = run[q].at
              /\ KeepsLast(q) /\ KeepsNonce(q)
              /\ KeepsFile(q) /\ run'[q].status = run[q].status
             
              /\ run'[q].with = IF Running(q) THEN run[q].with \cup {r} ELSE run[q].with
    <2>1. CASE q \in others
        BY <1>4, <1>7, <1>8, <1>10, <2>1 DEF KeepsFile, KeepsLast, KeepsNonce
    <2>2. CASE q \notin others
        BY <1>1, <1>4, <1>8, <1>10, <2>2 DEF KeepsFile, KeepsLast, KeepsNonce
    <2>3. QED  BY <2>1, <2>2
<1>11. /\ IsRun(run'[r]) /\ run'[r].wrote = run[r].wrote /\ run'[r].at = run[r].at
       /\ KeepsLast(r) /\ KeepsNonce(r)
       /\ run'[r].status = "running" /\ run'[r].snap = file
       /\ run'[r].with = others
    BY <1>6, <1>9 DEF KeepsLast, KeepsNonce
<1>12. QED  BY <1>2, <1>5, <1>10, <1>11 DEF others

LEMMA StopMoves ==
    ASSUME RunsTyped, NEW r \in Runs, Stop(r)
    PROVE  /\ run' = [q \in Runs |-> run'[q]]
           /\ \A q \in Runs : q # r => run'[q] = run[q]
           /\ IsRun(run'[r]) /\ run[r].status = "running" /\ run'[r].status = "stopped"
           /\ run'[r].at = run[r].at
           /\ run'[r].with = run[r].with
           /\ KeepsFile(r) /\ KeepsLast(r) /\ KeepsNonce(r)
<1> DEFINE c == [run[r] EXCEPT !.status = "stopped"]
<1>1. IsRun(run[r]) /\ run = [q \in Runs |-> run[q]]
    BY DEF RunsTyped
<1>2. /\ IsRun(c) /\ c.at = run[r].at /\ c.status = "stopped" /\ c.with = run[r].with
      /\ c.snap = run[r].snap /\ c.wrote = run[r].wrote
      /\ c.last = run[r].last
      /\ c.nonce = run[r].nonce /\ c.option = run[r].option /\ c.chosen = run[r].chosen
    BY <1>1 DEF IsRun
<1>3. run' = [run EXCEPT ![r] = c] /\ run[r].status = "running"
    BY DEF Stop, Running
<1> HIDE DEF c
<1>4. run'[r] = c /\ run' = [q \in Runs |-> run'[q]] /\ \A q \in Runs : q # r => run'[q] = run[q]
    BY <1>1, <1>3
<1>5. QED  BY <1>2, <1>3, <1>4 DEF KeepsFile, KeepsLast, KeepsNonce

-----------------------------------------------------------------------------
\* A finite set has a member of the highest value.
LEMMA HighestExists ==
    ASSUME NEW S, IsFiniteSet(S), S # {}, NEW f \in [S -> Int]
    PROVE  \E x \in S : \A y \in S : f[y] <= f[x]
<1> DEFINE B == {T \in SUBSET S : T = {} \/ \E x \in T : \A y \in T : f[y] <= f[x]}
<1>1. B \in SUBSET (SUBSET S) /\ {} \in B
    OBVIOUS
<1>2. ASSUME NEW T \in SUBSET S, T # {}, T \ {Pick(T)} \in B
      PROVE  T \in B
    <2> DEFINE a == Pick(T)
    <2>1. a \in T
        BY <1>2 DEF Pick
    <2> HIDE DEF a
    <2>2. \A y \in T : f[y] \in Int
        OBVIOUS
    <2>3. CASE T \ {a} = {}
        BY <2>1, <2>2, <2>3
    <2>4. CASE T \ {a} # {}
        <3>1. PICK x \in T \ {a} : \A y \in T \ {a} : f[y] <= f[x]
            BY <1>2, <2>4 DEF a
        <3>2. CASE f[a] <= f[x]
            BY <3>1, <3>2
        <3>3. CASE ~(f[a] <= f[x])
            BY <2>1, <2>2, <3>1, <3>3
        <3>4. QED  BY <3>2, <3>3
    <2>5. QED  BY <2>3, <2>4
<1> HIDE DEF B
<1>3. B = SUBSET S
    BY <1>1, <1>2, SubsetInduction
<1>4. QED  BY <1>3 DEF B

\* The service answers with a nonce after all it knows of, and none that has passed.
LEMMA NextNonce ==
    ASSUME OpsTyped, NEW safe \in Safes
    PROVE  /\ GetNextNonce(safe) \in Nat /\ GetNextNonce(safe) >= nonces[safe]
           /\ \A p \in proposals : p.safe = safe => p.nonce < GetNextNonce(safe)
<1> DEFINE S == {p \in proposals : p.safe = safe}
<1>1. nonces[safe] \in Nat /\ \A p \in proposals : p.nonce \in Int
    BY DEF OpsTyped, ProposalsTyped
<1>2. CASE \E p \in proposals : p.safe = safe /\ p.nonce >= nonces[safe]
    <2>1. IsFiniteSet(S)
        BY FS_Subset DEF OpsTyped, ProposalsTyped
    <2>2. PICK p \in S : \A q \in S : q.nonce <= p.nonce
        <3> DEFINE f == [q \in S |-> q.nonce]
        <3>1. f \in [S -> Int] /\ S # {}
            BY <1>1, <1>2
        <3>2. \E x \in S : \A y \in S : f[y] <= f[x]
            <4> HIDE DEF f, S
            <4>1. QED  BY <2>1, <3>1, HighestExists
        <3>3. QED  BY <3>2
    <2>3. \E n \in {q.nonce : q \in {x \in proposals : x.safe = safe}} :
            \A q \in proposals : q.safe = safe => q.nonce <= n
        BY <2>2
    <2>4. /\ HighestNonce(safe) \in {q.nonce : q \in {x \in proposals : x.safe = safe}}
          /\ \A q \in proposals : q.safe = safe => q.nonce <= HighestNonce(safe)
        BY <2>3 DEF HighestNonce
    <2>5. HighestNonce(safe) \in Int
        BY <1>1, <2>4
    <2>6. GetNextNonce(safe) = HighestNonce(safe) + 1
        BY <1>2 DEF GetNextNonce
    <2> HIDE DEF S
    <2>7. QED  BY <1>1, <1>2, <2>4, <2>5, <2>6
<1>3. CASE ~\E p \in proposals : p.safe = safe /\ p.nonce >= nonces[safe]
    <2>1. GetNextNonce(safe) = nonces[safe]
        BY <1>3 DEF GetNextNonce
    <2>2. QED  BY <1>1, <1>3, <2>1
<1>4. QED  BY <1>2, <1>3

-----------------------------------------------------------------------------
(* The types are kept, and the Timelock's invariant with them. *)

LEMMA TxFields ==
    ASSUME NEW r, NEW to, NEW fn, NEW args, NEW eta
    PROVE  LET tx == Tx(r, to, fn, args, eta)
           IN  /\ tx.to = to /\ tx.fn = fn /\ tx.args = args /\ tx.eta = eta
               /\ tx.form = Todo(r).form /\ tx.from = r
BY DEF Tx

LEMMA TransactionTyped ==
    ASSUME OpsTyped, TimelockInv, NEW r \in Runs, NEW tx \in Transactions(r)
    PROVE  /\ tx.from = r /\ tx.form = Todo(r).form
           /\ tx.eta \in Int
<1>1. PICK to, fn, args, eta : tx = Tx(r, to, fn, args, eta) /\ eta \in Int
    <2>1. now + MinimumDelay + Slack \in Int
        BY DelayAssumption, PlanAssumption DEF TimelockInv, Times
    <2>2. \A q \in queued : q.eta \in Int
        BY DEF TimelockInv, Times
    <2>3. CASE Todo(r).does = "execute"
        <3>1. tx \in {Tx(r, Original("timelock"), "executeTransaction", <<q.call.proxy, q.call.impl>>, q.eta) :
                        q \in {p \in queued : p.call.fn = "upgrade"}}
            BY <2>3 DEF Transactions
        <3>2. PICK q \in queued : tx = Tx(r, Original("timelock"), "executeTransaction",
                                          <<q.call.proxy, q.call.impl>>, q.eta)
            BY <3>1
        <3>3. QED  BY <2>2, <3>2
    <2>4. CASE Todo(r).does # "execute" /\ Todo(r).fn # "upgrade"
        <3>1. tx = Tx(r, Lookup(run[r].snap, Todo(r).to), Todo(r).fn, Resolve(r, Todo(r).args), 0)
            BY <2>4 DEF Transactions
        <3>2. QED  BY <3>1
    <2>5. CASE Todo(r).does # "execute" /\ Todo(r).fn = "upgrade"
        <3> DEFINE args == Append(Resolve(r, Todo(r).args), run[r].last)
        <3>1. \/ tx = Tx(r, Original("timelock"), "queueTransaction", args, now + MinimumDelay + Slack)
              \/ tx = Tx(r, Original("proxyAdmin"), "upgrade", args, 0)
            BY <2>5 DEF Transactions
        <3>2. QED  BY <2>1, <3>1
    <2>6. QED  BY <2>3, <2>4, <2>5
<1>2. QED  BY <1>1, TxFields

LEMMA PerformTyped ==
    ASSUME TimelockInv, NEW sender, NEW tx, tx.eta \in Int, Perform(sender, tx)
    PROVE  TimelockInv'
<1>1. CASE QueueTransaction(sender, UpgradeCall(tx.args), tx.eta) /\ UNCHANGED chainVars
    BY <1>1, QueuePreserves DEF chainVars
<1>2. CASE /\ ExecuteTransaction(sender, UpgradeCall(tx.args), tx.eta)
           /\ UNCHANGED <<calls, handed>>
    BY <1>2, ExecutePreserves
<1>3. CASE UNCHANGED timelockVars
    BY <1>3, TickPreserves
<1>4. QED  BY <1>1, <1>2, <1>3 DEF Perform

LEMMA MovedTyped ==
    ASSUME RunsTyped, plan' = plan, NEW r \in Runs, NEW steps \in Nat, Moves(r, steps),
           run'[r].nonce \in Nat \cup {NoNonce},
           run'[r].option \in Nat \cup {NoNonce}, run'[r].chosen \in BOOLEAN
    PROVE  RunsTyped'
<1>1. Runs' = Runs
    BY DEF Runs
<1>2. ASSUME NEW q \in Runs
      PROVE  /\ IsRun(run'[q])
             /\ run'[q].status \in {"waiting", "running", "stopped"} /\ run'[q].at \in Nat \ {0}
             /\ run'[q].nonce \in Nat \cup {NoNonce} /\ run'[q].option \in Nat \cup {NoNonce}
             /\ run'[q].chosen \in BOOLEAN
             /\ run'[q].with \subseteq Runs
    <2>1. CASE q = r
        BY <2>1 DEF Moves, RunsTyped
    <2>2. CASE q # r
        BY <2>2 DEF Moves, RunsTyped
    <2>3. QED  BY <2>1, <2>2
<1>3. run' = [q \in Runs |-> run'[q]]
    BY DEF Moves
<1>4. QED  BY <1>1, <1>2, <1>3 DEF RunsTyped, IsRun

\* What all steps of a run have in common.
LEMMA RunNextTyped ==
    ASSUME OpsTyped, TimelockInv, NEW r \in Runs,
           \/ Start(r) \/ Stop(r)
           \/ DeployContract(r) \/ PrepareUpgrade(r) \/ WriteConfigFile(r)
           \/ GetUpdatePriceData(r) \/ LookUp(r) \/ PassExecution(r) \/ SkipUnless(r)
           \/ SendAtOnce(r) \/ ReadNonce(r) \/ ProposeTransaction(r)
    PROVE  OpsTyped' /\ TimelockInv'
<1>1. RunsTyped /\ ProposalsTyped
    BY DEF OpsTyped
<1>2. run[r].nonce \in Nat \cup {NoNonce}
      /\ run[r].option \in Nat \cup {NoNonce} /\ run[r].chosen \in BOOLEAN
    BY <1>1 DEF RunsTyped
<1>3. plan' = plan /\ setup' = setup
    BY DEF Start, Stop, DeployContract, PrepareUpgrade, WriteConfigFile, GetUpdatePriceData,
        LookUp, PassExecution, SkipUnless, SendAtOnce, ReadNonce, ProposeTransaction
<1>4. ASSUME UNCHANGED <<made, nonces, proposals, timelockVars>>, RunsTyped'
      PROVE  OpsTyped' /\ TimelockInv'
    <2>1. TimelockInv'
        BY <1>4, TickPreserves
    <2>2. ProposalsTyped'
        BY <1>1, <1>3, <1>4 DEF ProposalsTyped, Runs
    <2>3. QED  BY <1>3, <1>4, <2>1, <2>2 DEF OpsTyped
<1>5. CASE Start(r)
    <2>1. UNCHANGED <<made, nonces, proposals, timelockVars>>
        BY <1>5 DEF Start, chainVars
    <2>2. Runs' = Runs
        BY <1>3 DEF Runs, OpsTyped
    <2>3. ASSUME NEW q \in Runs
          PROVE  /\ IsRun(run'[q])
                 /\ run'[q].status \in {"waiting", "running", "stopped"} /\ run'[q].at \in Nat \ {0}
                 /\ run'[q].nonce \in Nat \cup {NoNonce} /\ run'[q].option \in Nat \cup {NoNonce}
                 /\ run'[q].chosen \in BOOLEAN
                 /\ run'[q].with \subseteq Runs
        <3>1. CASE q = r
            BY <1>1, <1>5, <2>2, <3>1, StartMoves DEF RunsTyped, KeepsNonce
        <3>2. CASE q # r
            <4>1. /\ IsRun(run'[q]) /\ run'[q].at = run[q].at /\ KeepsNonce(q)
                  /\ run'[q].status = run[q].status
                  /\ run'[q].with \subseteq run[q].with \cup {r}
                BY <1>1, <1>5, <3>2, StartMoves
            <4>2. QED  BY <1>1, <4>1 DEF RunsTyped, KeepsNonce
        <3>3. QED  BY <3>1, <3>2
    <2>4. run' = [q \in Runs |-> run'[q]]
        BY <1>1, <1>5, StartMoves
    <2>5. RunsTyped'
        BY <2>2, <2>3, <2>4 DEF RunsTyped, IsRun
    <2>6. QED  BY <1>4, <2>1, <2>5
<1>6. CASE Stop(r)
    <2>1. UNCHANGED <<made, nonces, proposals, timelockVars>>
        BY <1>6 DEF Stop, chainVars
    <2>2. Runs' = Runs
        BY <1>3 DEF Runs
    <2>3. ASSUME NEW q \in Runs
          PROVE  /\ IsRun(run'[q])
                 /\ run'[q].status \in {"waiting", "running", "stopped"} /\ run'[q].at \in Nat \ {0}
                 /\ run'[q].nonce \in Nat \cup {NoNonce} /\ run'[q].option \in Nat \cup {NoNonce}
                 /\ run'[q].chosen \in BOOLEAN
                 /\ run'[q].with \subseteq Runs
        <3>1. CASE q = r
            BY <1>1, <1>6, <3>1, StopMoves DEF RunsTyped, KeepsNonce
        <3>2. CASE q # r
            BY <1>1, <1>6, <3>2, StopMoves DEF RunsTyped
        <3>3. QED  BY <3>1, <3>2
    <2>4. run' = [q \in Runs |-> run'[q]]
        BY <1>1, <1>6, StopMoves
    <2>5. RunsTyped'
        BY <2>2, <2>3, <2>4 DEF RunsTyped, IsRun
    <2>6. QED  BY <1>4, <2>1, <2>5
<1>7. CASE DeployContract(r) \/ PrepareUpgrade(r)
    <2>1. RunsTyped'
        BY <1>1, <1>2, <1>3, <1>7, MakeMoves, MovedTyped DEF KeepsNonce
    <2>2. UNCHANGED <<nonces, proposals, timelockVars>> /\ made' = made + 1
        BY <1>7 DEF DeployContract, PrepareUpgrade, chainVars
    <2>3. TimelockInv'
        BY <2>2, TickPreserves
    <2>4. ProposalsTyped'
        BY <1>1, <1>3, <2>2 DEF ProposalsTyped, Runs
    <2>5. QED  BY <1>3, <2>1, <2>2, <2>3, <2>4 DEF OpsTyped
<1>8. CASE WriteConfigFile(r)
    <2>1. RunsTyped'
        BY <1>1, <1>2, <1>3, <1>8, WriteMoves, MovedTyped DEF KeepsNonce
    <2>2. UNCHANGED <<made, nonces, proposals, timelockVars>>
        BY <1>8 DEF WriteConfigFile, chainVars
    <2>3. QED  BY <1>4, <2>1, <2>2
<1>9. CASE \/ GetUpdatePriceData(r) \/ LookUp(r) \/ SkipUnless(r)
           \/ SendAtOnce(r) \/ PassExecution(r)
    <2>1. RunsTyped'
        <3>1. \E steps \in {1, 2} : Moves(r, steps)
            BY <1>1, <1>9, PassMoves
        <3>2. KeepsNonce(r)
            BY <1>1, <1>9, PassMoves
        <3>3. QED  BY <1>1, <1>2, <1>3, <3>1, <3>2, MovedTyped DEF KeepsNonce
    <2>2. CASE GetUpdatePriceData(r) \/ LookUp(r) \/ SkipUnless(r) \/ PassExecution(r)
        <3>1. UNCHANGED <<made, nonces, proposals, timelockVars>>
            BY <2>2 DEF GetUpdatePriceData, LookUp, SkipUnless, PassExecution, chainVars
        <3>2. QED  BY <1>4, <2>1, <3>1
    <2>3. CASE SendAtOnce(r)
        <3>1. PICK tx \in Transactions(r) : Perform("deployer", tx)
            BY <2>3 DEF SendAtOnce
        <3>2. TimelockInv'
            BY <1>2, <3>1, TransactionTyped, PerformTyped DEF OpsTyped
        <3>3. UNCHANGED <<made, nonces, proposals>>
            BY <2>3 DEF SendAtOnce
        <3>4. ProposalsTyped'
            BY <1>1, <1>3, <3>3 DEF ProposalsTyped, Runs
        <3>5. QED  BY <1>3, <2>1, <3>2, <3>3, <3>4 DEF OpsTyped
    <2>4. QED  BY <1>9, <2>2, <2>3
<1>10. CASE ReadNonce(r)
    <2>1. run'[r].nonce \in Nat \cup {NoNonce} /\ run'[r].chosen \in BOOLEAN
        BY <1>1, <1>10, ReadMoves, NextNonce
    <2>2. RunsTyped'
        BY <1>1, <1>2, <1>3, <1>10, <2>1, ReadMoves, MovedTyped
    <2>3. UNCHANGED <<made, nonces, proposals, timelockVars>>
        BY <1>10 DEF ReadNonce, chainVars
    <2>4. QED  BY <1>4, <2>2, <2>3
<1>11. CASE ProposeTransaction(r)
    <2>1. RunsTyped'
        BY <1>1, <1>2, <1>3, <1>11, ProposeMoves, MovedTyped
    <2>2. UNCHANGED <<made, nonces, timelockVars>>
        BY <1>11 DEF ProposeTransaction, chainVars
    <2>3. PICK safe \in Safes, tx \in Transactions(r) :
            proposals' = proposals \cup {[safe |-> safe, nonce |-> run[r].nonce, tx |-> tx,
                                          at |-> run[r].at, chosen |-> run[r].chosen]}
        BY <1>11 DEF ProposeTransaction
    <2> DEFINE p0 == [safe |-> safe, nonce |-> run[r].nonce, tx |-> tx,
                      at |-> run[r].at, chosen |-> run[r].chosen]
    <2>4. p0.safe = safe /\ p0.nonce = run[r].nonce /\ p0.tx = tx /\ p0.chosen = run[r].chosen
        OBVIOUS
    <2> HIDE DEF p0
    <2>5. tx.from \in Runs /\ tx.eta \in Int /\ run[r].nonce \in Int
        BY <1>2, TransactionTyped DEF NoNonce
    <2>6. proposals' = proposals \cup {p0}
        BY <2>3 DEF p0
    <2>7. IsFiniteSet(proposals')
        BY <1>1, <2>6, FS_AddElement DEF ProposalsTyped
    <2>8. ProposalsTyped'
        <3>1. Runs' = Runs
            BY <1>3 DEF Runs
        <3>2. \A p \in proposals' : p \in proposals \/ p = p0
            BY <2>6
        <3>3. QED  BY <1>1, <1>2, <2>4, <2>5, <2>7, <3>1, <3>2 DEF ProposalsTyped
    <2>9. TimelockInv'
        BY <2>2, TickPreserves
    <2>10. QED  BY <1>3, <2>1, <2>2, <2>8, <2>9 DEF OpsTyped
<1>12. QED  BY <1>5, <1>6, <1>7, <1>8, <1>9, <1>10, <1>11

\* The other steps leave the runs alone.
LEMMA OtherNextTyped ==
    ASSUME OpsTyped, TimelockInv,
           \/ \E safe \in Safes : ExecuteTransactionOf(safe)
           \/ ByHand \/ TimePasses \/ UNCHANGED vars
    PROVE  /\ OpsTyped' /\ TimelockInv'
           /\ UNCHANGED <<setup, plan, file, run, made>>
<1>1. ASSUME UNCHANGED opsVars, UNCHANGED chainVars
      PROVE  OpsTyped' /\ UNCHANGED <<setup, plan, file, run, made>>
    <2>1. RunsTyped' /\ ProposalsTyped'
        BY <1>1 DEF opsVars, OpsTyped, RunsTyped, ProposalsTyped, Runs, IsRun
    <2>2. QED  BY <1>1, <2>1 DEF opsVars, chainVars, OpsTyped
<1>2. CASE \E safe \in Safes : ExecuteTransactionOf(safe)
    <2>1. PICK safe \in Safes, p \in proposals :
            /\ Perform(safe, p.tx)
            /\ nonces' = [nonces EXCEPT ![safe] = @ + 1]
            /\ proposals' = proposals \ {p}
            /\ UNCHANGED <<setup, plan, file, run, made>>
        BY <1>2 DEF ExecuteTransactionOf
    <2>2. p.tx.eta \in Int
        BY DEF OpsTyped, ProposalsTyped
    <2>3. TimelockInv'
        BY <2>1, <2>2, PerformTyped DEF OpsTyped
    <2>4. RunsTyped'
        BY <2>1 DEF OpsTyped, RunsTyped, Runs, IsRun
    <2>5. ProposalsTyped'
        <3>1. IsFiniteSet(proposals')
            BY <2>1, FS_RemoveElement DEF OpsTyped, ProposalsTyped
        <3>2. QED  BY <2>1, <3>1 DEF OpsTyped, ProposalsTyped, Runs
    <2>6. /\ nonces' = [s \in Safes |-> nonces'[s]]
          /\ \A s \in Safes : nonces'[s] \in Nat
        BY <2>1 DEF OpsTyped
    <2>7. QED  BY <2>1, <2>3, <2>4, <2>5, <2>6 DEF OpsTyped
<1>3. CASE ByHand
    <2>1. PICK sender \in Accounts :
            \/ AcceptAdmin(sender)
            \/ \E call \in SetDelayCalls \cup SetAdminCalls :
                 \/ \E eta \in Etas : QueueTransaction(sender, call, eta)
                 \/ \E q \in queued : CancelTransaction(sender, q.call, q.eta)
                 \/ \E q \in queued : ExecuteTransaction(sender, q.call, q.eta)
        BY <1>3 DEF ByHand
    <2>2. TimelockInv'
        <3>1. Etas \subseteq Int
            BY DelayAssumption
        <3>2. CASE AcceptAdmin(sender)
            BY <3>2, TickPreserves
        <3>3. CASE ~AcceptAdmin(sender)
            BY <2>1, <3>1, <3>3, QueuePreserves, CancelPreserves, ExecutePreserves
        <3>4. QED  BY <3>2, <3>3
    <2>3. QED  BY <1>1, <1>3, <2>2 DEF ByHand
<1>4. CASE TimePasses
    BY <1>1, <1>4, TickPreserves DEF TimePasses
<1>5. CASE UNCHANGED vars
    BY <1>1, <1>5, TickPreserves DEF vars
<1>6. QED  BY <1>2, <1>3, <1>4, <1>5

LEMMA OpsInit ==
    ASSUME Init
    PROVE  /\ OpsTyped /\ TimelockInv
           /\ \A r \in Runs : run[r] = NotStarted
<1>1. setup.delay \in Int /\ TimelockInit(setup.admin, setup.delay)
    BY SetupAssumption DEF Init
<1>2. TimelockInv
    BY <1>1, TimelockInitEstablishes
<1>3. run = [r \in Runs |-> NotStarted]
    BY DEF Init, Runs
<1>4. RunsTyped
    <2> DEFINE x == NotStarted
    <2>1. /\ IsRun(x) /\ x.status = "waiting" /\ x.at = 1
          /\ x.nonce = NoNonce /\ x.option = NoNonce /\ x.chosen = FALSE /\ x.with = {}
        BY DEF IsRun, NotStarted
    <2> HIDE DEF x
    <2>2. \A r \in Runs : run[r] = x
        BY <1>3 DEF x
    <2>3. run = [r \in Runs |-> run[r]]
        BY <1>3
    <2>4. \A r \in Runs :
            /\ IsRun(run[r])
            /\ run[r].status \in {"waiting", "running", "stopped"} /\ run[r].at \in Nat \ {0}
            /\ run[r].nonce \in Nat \cup {NoNonce} /\ run[r].option \in Nat \cup {NoNonce}
            /\ run[r].chosen \in BOOLEAN
            /\ run[r].with \subseteq Runs
        <3> TAKE r \in Runs
        <3>1. run[r] = x
            BY <2>2
        <3>2. IsRun(run[r])
            BY <2>1, <3>1
        <3>3. run[r].chosen \in BOOLEAN
            BY <2>1, <3>1
        <3>4. run[r].with \subseteq Runs
            BY <2>1, <3>1
        <3>5. run[r].nonce \in Nat \cup {NoNonce} /\ run[r].option \in Nat \cup {NoNonce}
            BY <2>1, <3>1
        <3>6. /\ run[r].status \in {"waiting", "running", "stopped"} /\ run[r].at \in Nat \ {0}
            BY <2>1, <3>1
        <3>7. QED  BY <3>2, <3>3, <3>4, <3>5, <3>6
    <2>5. QED  BY <2>3, <2>4 DEF RunsTyped
<1>5. ProposalsTyped
    BY FS_EmptySet DEF Init, ProposalsTyped
<1>6. QED  BY <1>2, <1>3, <1>4, <1>5 DEF Init, OpsTyped

-----------------------------------------------------------------------------
(***************************************************************************)
(* The configuration file.                                                  *)
(***************************************************************************)

\* All steps but the start of a run and the writing of the file.
Quiet ==
    /\ run' = [r \in Runs |-> run'[r]] /\ UNCHANGED <<plan, file>>
    /\ \A r \in Runs :
        /\ KeepsFile(r) /\ run'[r].with = run[r].with
        /\ run'[r].at >= run[r].at
        /\ \/ run'[r].status = run[r].status
           \/ run[r].status = "running" /\ run'[r].status = "stopped"

LEMMA QuietStep ==
    ASSUME run' = [r \in Runs |-> run'[r]], plan' = plan, file' = file,
           \A r \in Runs :
                /\ KeepsFile(r) /\ run'[r].with = run[r].with
                /\ run'[r].at >= run[r].at
                /\ \/ run'[r].status = run[r].status
                   \/ run[r].status = "running" /\ run'[r].status = "stopped"
    PROVE  Quiet
BY DEF Quiet

LEMMA RunsNext ==
    ASSUME OpsTyped, TimelockInv, [Next]_vars
    PROVE  (\E r \in Runs : Start(r) \/ WriteConfigFile(r)) \/ Quiet
<1>1. RunsTyped /\ DOMAIN run = Runs
    BY DEF OpsTyped, RunsTyped
<1>2. ASSUME NEW r \in Runs, NEW steps \in Nat, Moves(r, steps), KeepsFile(r),
             UNCHANGED <<plan, file>>
      PROVE  Quiet
    <2>1. ASSUME NEW q \in Runs
          PROVE  /\ KeepsFile(q) /\ run'[q].with = run[q].with
                 /\ run'[q].at >= run[q].at /\ run'[q].status = run[q].status
        <3>1. run[q].at \in Nat
            BY <1>1 DEF RunsTyped
        <3>2. CASE q = r
            BY <1>2, <3>1, <3>2 DEF Moves
        <3>3. CASE q # r
            BY <1>2, <3>1, <3>3 DEF Moves, KeepsFile
        <3>4. QED  BY <3>2, <3>3
    <2>2. run' = [q \in Runs |-> run'[q]]
        BY <1>2 DEF Moves
    <2>3. QED  BY <1>2, <2>1, <2>2, QuietStep
<1>3. ASSUME NEW r \in Runs, Stop(r)
      PROVE  Quiet
    <2>1. UNCHANGED <<plan, file>>
        BY <1>3 DEF Stop
    <2>2. /\ run' = [q \in Runs |-> run'[q]] /\ \A q \in Runs : q # r => run'[q] = run[q]
          /\ run[r].status = "running" /\ run'[r].status = "stopped" /\ run'[r].at = run[r].at
          /\ run'[r].with = run[r].with /\ KeepsFile(r)
        BY <1>1, <1>3, StopMoves
    <2>3. ASSUME NEW q \in Runs, q # r
          PROVE  /\ KeepsFile(q) /\ run'[q].with = run[q].with
                 /\ run'[q].at >= run[q].at /\ run'[q].status = run[q].status
        BY <1>1, <2>2, <2>3 DEF RunsTyped, KeepsFile
    <2>4. run[r].at \in Nat
        BY <1>1 DEF RunsTyped
    <2>5. QED  BY <2>1, <2>2, <2>3, <2>4, QuietStep
<1>4. ASSUME NEW r \in Runs,
             \/ DeployContract(r) \/ PrepareUpgrade(r) \/ GetUpdatePriceData(r)
             \/ LookUp(r) \/ PassExecution(r) \/ SkipUnless(r)
             \/ SendAtOnce(r) \/ ReadNonce(r) \/ ProposeTransaction(r)
      PROVE  Quiet
    <2>1. UNCHANGED <<plan, file>>
        BY <1>4 DEF DeployContract, PrepareUpgrade, GetUpdatePriceData, LookUp,
            PassExecution, SkipUnless, SendAtOnce, ReadNonce, ProposeTransaction
    <2>2. (\E steps \in {0, 1, 2} : Moves(r, steps)) /\ KeepsFile(r)
        <3>1. CASE DeployContract(r) \/ PrepareUpgrade(r)
            BY <1>1, <3>1, MakeMoves
        <3>2. CASE \/ GetUpdatePriceData(r) \/ LookUp(r) \/ SkipUnless(r)
                   \/ SendAtOnce(r) \/ PassExecution(r)
            BY <1>1, <3>2, PassMoves
        <3>3. CASE ReadNonce(r)
            BY <1>1, <3>3, ReadMoves
        <3>4. CASE ProposeTransaction(r)
            BY <1>1, <3>4, ProposeMoves
        <3>5. QED  BY <1>4, <3>1, <3>2, <3>3, <3>4
    <2>3. QED  BY <1>2, <2>1, <2>2
<1>5. ASSUME \/ \E safe \in Safes : ExecuteTransactionOf(safe)
             \/ ByHand \/ TimePasses \/ UNCHANGED vars
      PROVE  Quiet
    <2>1. UNCHANGED <<plan, file, run>>
        BY <1>5, OtherNextTyped
    <2>2. \A r \in Runs : run[r].at >= run[r].at
        BY <1>1 DEF RunsTyped
    <2>3. run = [r \in Runs |-> run[r]]
        BY <1>1 DEF RunsTyped
    <2>4. \A r \in Runs : KeepsFile(r) /\ run'[r].at >= run[r].at
        BY <2>1, <2>2 DEF KeepsFile
    <2>5. run' = [r \in Runs |-> run'[r]] /\ run' = run
        BY <2>1, <2>3
    <2>6. QED  BY <2>1, <2>4, <2>5, QuietStep
<1>6. QED  BY <1>1, <1>3, <1>4, <1>5 DEF Next

\* Everything typed stays so.
LEMMA NextTyped ==
    ASSUME OpsTyped, TimelockInv, [Next]_vars
    PROVE  OpsTyped' /\ TimelockInv' /\ plan' = plan /\ setup' = setup
<1>1. DOMAIN run = Runs
    BY DEF OpsTyped, RunsTyped
<1>2. OpsTyped' /\ TimelockInv'
    BY <1>1, RunNextTyped, OtherNextTyped DEF Next
<1>3. plan' = plan /\ setup' = setup
    <2>1. CASE \E safe \in Safes : ExecuteTransactionOf(safe) \/ ByHand \/ TimePasses \/ UNCHANGED vars
        BY <2>1, OtherNextTyped
    <2>2. CASE \E r \in DOMAIN run :
                \/ Start(r) \/ Stop(r) \/ DeployContract(r) \/ PrepareUpgrade(r)
                \/ WriteConfigFile(r) \/ GetUpdatePriceData(r) \/ LookUp(r)
                \/ PassExecution(r) \/ SkipUnless(r)
                \/ SendAtOnce(r) \/ ReadNonce(r) \/ ProposeTransaction(r)
        BY <2>2 DEF Start, Stop, DeployContract, PrepareUpgrade, WriteConfigFile,
            GetUpdatePriceData, LookUp,
            PassExecution, SkipUnless, SendAtOnce, ReadNonce, ProposeTransaction
    <2>3. QED  BY <2>1, <2>2, OtherNextTyped DEF Next
<1>4. QED  BY <1>2, <1>3

\* What a run has written is in the file, or was taken back by one that ran at the
\* same time, or written again by a later one.
Held(runs, r, key, f) ==
    \/ Lookup(f, key) = runs[r].wrote[key]
    \/ \E q \in DOMAIN runs : \/ q \in runs[r].with /\ DOMAIN runs[q].wrote # {}
                              \/ q > r /\ key \in DOMAIN runs[q].wrote
\* The runs start in their order; two that run at a time know of each other, and
\* one still running is known to all that started after it.
InOrderOfStart ==
    \A q, r \in Runs : q < r /\ run[r].status # "waiting" => run[q].status # "waiting"
KnowEachOther ==
    /\ \A q, r \in Runs : Overlap(q, r) => Overlap(r, q) /\ run[q].status # "waiting"
    /\ \A q, r \in Runs : /\ q # r /\ Running(q) /\ run[r].status # "waiting"
                          /\ Running(r) \/ q < r
                          => Overlap(q, r)
\* A run has in its copy of the file what it wrote itself, and all that was
\* written by runs that it does not overlap with.
HasItsOwn == \A r \in Runs :
    /\ run[r].status = "waiting" => DOMAIN run[r].wrote = {}
    /\ \A key \in DOMAIN run[r].wrote :
         key \in DOMAIN run[r].snap /\ run[r].snap[key] = run[r].wrote[key]
HasReadTheOthers == \A w, r \in Runs :
    Running(w) /\ r # w /\ ~Overlap(r, w) =>
      \A key \in DOMAIN run[r].wrote : Held(run, r, key, run[w].snap)
FileHolds == \A r \in Runs : \A key \in DOMAIN run[r].wrote : Held(run, r, key, file)
FileInv == InOrderOfStart /\ KnowEachOther /\ HasItsOwn /\ HasReadTheOthers /\ FileHolds

LEMMA FileInit ==
    ASSUME Init
    PROVE  FileInv
<1>1. \A r \in Runs : run[r] = NotStarted
    BY OpsInit
<1>2. \A r \in Runs : run[r].status = "waiting" /\ DOMAIN run[r].wrote = {} /\ run[r].with = {}
    BY <1>1 DEF NotStarted
<1>3. QED  BY <1>2 DEF FileInv, InOrderOfStart, KnowEachOther, HasItsOwn, HasReadTheOthers,
    FileHolds, Overlap, Running

\* Over leaves all keys but the first function's.
LEMMA OverDomain ==
    ASSUME NEW f, NEW g
    PROVE  DOMAIN Over(f, g) = DOMAIN f \cup DOMAIN g
BY DEF Over

LEMMA OverFirst ==
    ASSUME NEW f, NEW g, NEW key, key \in DOMAIN f
    PROVE  Over(f, g)[key] = f[key]
BY DEF Over

LEMMA OverSecond ==
    ASSUME NEW f, NEW g, NEW key, key \notin DOMAIN f
    PROVE  /\ Lookup(Over(f, g), key) = Lookup(g, key)
           /\ key \in DOMAIN g => Over(f, g)[key] = g[key]
BY DEF Over, Lookup

\* A key held stays so where it is looked up with the same result: overlaps only
\* grow, and so does what is written.
LEMMA HeldStays ==
    ASSUME NEW a, NEW b, NEW r \in DOMAIN a, NEW key, NEW f, NEW g,
           Held(a, r, key, f), Lookup(g, key) = Lookup(f, key), DOMAIN b = DOMAIN a,
           b[r].wrote[key] = a[r].wrote[key], a[r].with \subseteq b[r].with,
           \A q \in DOMAIN a : DOMAIN a[q].wrote \subseteq DOMAIN b[q].wrote
    PROVE  Held(b, r, key, g)
BY DEF Held

LEMMA FileQuiet ==
    ASSUME OpsTyped, OpsTyped', FileInv, Quiet
    PROVE  FileInv'
<1>1. Runs' = Runs /\ file' = file /\ plan' = plan
    BY DEF Quiet, Runs
<1>2. \A r \in Runs :
        /\ run'[r].snap = run[r].snap /\ run'[r].wrote = run[r].wrote /\ run'[r].with = run[r].with
        /\ run'[r].status = "waiting" <=> run[r].status = "waiting"
    BY DEF Quiet, KeepsFile
<1>3. \A r \in Runs : Running(r)' => Running(r)
    <2>1. \A r \in Runs : Len(plan[r]) \in Nat /\ run[r].at \in Nat /\ run'[r].at \in Nat
        BY <1>1, PlanFacts DEF OpsTyped, RunsTyped
    <2>2. TAKE r \in Runs
    <2>3. run'[r].status = "running" => run[r].status = "running"
        BY DEF Quiet
    <2>4. run'[r].at >= run[r].at
        BY DEF Quiet
    <2>5. SUFFICES ASSUME Running(r)'
                   PROVE  Running(r)
        OBVIOUS
    <2>6. run'[r].status = "running" /\ run'[r].at <= Len(plan[r])
        BY <1>1, <2>5 DEF Running
    <2>7. QED  BY <2>1, <2>3, <2>4, <2>6 DEF Running
<1>4. \A q, r \in Runs : Overlap(q, r)' <=> Overlap(q, r)
    BY <1>2 DEF Overlap
<1>5. ASSUME NEW r \in Runs, NEW key, NEW f, Held(run, r, key, f)
      PROVE  Held(run', r, key, f)
    <2>1. DOMAIN run = Runs /\ DOMAIN run' = Runs
        BY DEF OpsTyped, RunsTyped, Quiet
    <2>2. /\ run'[r].wrote[key] = run[r].wrote[key] /\ run[r].with \subseteq run'[r].with
          /\ \A q \in DOMAIN run : DOMAIN run[q].wrote \subseteq DOMAIN run'[q].wrote
        BY <1>2, <2>1
    <2>3. QED  BY <1>5, <2>1, <2>2, HeldStays
<1>6. InOrderOfStart'
    BY <1>1, <1>2 DEF FileInv, InOrderOfStart
<1>7. KnowEachOther'
    BY <1>1, <1>2, <1>3, <1>4 DEF FileInv, KnowEachOther
<1>8. HasItsOwn'
    BY <1>1, <1>2 DEF FileInv, HasItsOwn
<1>9. HasReadTheOthers'
    <2> SUFFICES ASSUME NEW w \in Runs, NEW r \in Runs, Running(w)', r # w, ~Overlap(r, w)',
                        NEW key \in DOMAIN run'[r].wrote
                 PROVE  Held(run, r, key, run[w].snap)'
        BY <1>1 DEF HasReadTheOthers
    <2>1. Held(run, r, key, run[w].snap)
        BY <1>2, <1>3, <1>4 DEF FileInv, HasReadTheOthers
    <2>2. run'[w].snap = run[w].snap
        BY <1>2
    <2>3. QED  BY <1>5, <2>1, <2>2
<1>10. FileHolds'
    <2> SUFFICES ASSUME NEW r \in Runs, NEW key \in DOMAIN run'[r].wrote
                 PROVE  Held(run, r, key, file)'
        BY <1>1 DEF FileHolds
    <2>1. Held(run, r, key, file)
        BY <1>2 DEF FileInv, FileHolds
    <2>2. QED  BY <1>1, <1>5, <2>1
<1>11. QED  BY <1>6, <1>7, <1>8, <1>9, <1>10 DEF FileInv

\* A run writes the file: what it did not read before it takes back, and it
\* overlaps with the runs it takes something back from.
LEMMA FileWrite ==
    ASSUME OpsTyped, OpsTyped', FileInv, NEW w \in Runs, WriteConfigFile(w)
    PROVE  FileInv'
<1> DEFINE update == [key \in Todo(w).keys |-> run[w].last]
<1>0. InOrderOfStart /\ KnowEachOther /\ HasItsOwn /\ HasReadTheOthers /\ FileHolds
    BY DEF FileInv
<1>1. RunsTyped
    BY DEF OpsTyped
<1>2. /\ Moves(w, 1) /\ file' = Over(update, run[w].snap)
      /\ run'[w].snap = Over(update, run[w].snap) /\ run'[w].wrote = Over(update, run[w].wrote)
    BY <1>1, WriteMoves
<1>3. plan' = plan /\ Does(w, "record")
    BY DEF WriteConfigFile
<1>4. DOMAIN update = Todo(w).keys /\ Todo(w).keys # {}
    <2>1. Running(w) /\ run[w].at \in Nat \ {0} /\ Len(plan[w]) \in Nat /\ InOrder(plan[w])
        BY <1>1, <1>3, PlanFacts DEF Does, RunsTyped
    <2>2. run[w].at \in 1 .. Len(plan[w])
        BY <2>1 DEF Running
    <2>3. QED  BY <1>3, <2>1, <2>2 DEF InOrder, Does, Todo
<1> HIDE DEF update
<1>5. Runs' = Runs /\ DOMAIN run = Runs /\ DOMAIN run' = Runs
    BY <1>1, <1>2, <1>3 DEF Runs, RunsTyped, Moves
<1>6. \A r \in Runs : /\ run'[r].status = run[r].status /\ run'[r].with = run[r].with
                      /\ r # w => run'[r].snap = run[r].snap /\ run'[r].wrote = run[r].wrote
    BY <1>2 DEF Moves
<1>7. Running(w) /\ \A r \in Runs : Running(r)' => Running(r)
    <2>1. Running(w)
        BY <1>3 DEF Does
    <2>2. ASSUME NEW r \in Runs, r # w  PROVE Running(r)' => Running(r)
        BY <1>2, <1>3, <2>2 DEF Moves, Running
    <2>3. QED  BY <2>1, <2>2
<1>8. \A q, r \in Runs : Overlap(q, r)' <=> Overlap(q, r)
    BY <1>6 DEF Overlap
<1>9. DOMAIN run'[w].wrote = DOMAIN update \cup DOMAIN run[w].wrote /\ DOMAIN run'[w].wrote # {}
    <2>1. DOMAIN run'[w].wrote = DOMAIN update \cup DOMAIN run[w].wrote
        BY <1>2, OverDomain
    <2>2. QED  BY <1>4, <2>1
<1>10. InOrderOfStart'
    BY <1>0, <1>5, <1>6 DEF InOrderOfStart
<1>11. KnowEachOther'
    BY <1>0, <1>5, <1>6, <1>7, <1>8 DEF KnowEachOther
<1>12. HasItsOwn'
    <2>1. ASSUME NEW r \in Runs, NEW key \in DOMAIN run'[r].wrote
          PROVE  key \in DOMAIN run'[r].snap /\ run'[r].snap[key] = run'[r].wrote[key]
        <3>1. CASE r # w
            <4>1. run'[r].snap = run[r].snap /\ run'[r].wrote = run[r].wrote
                BY <1>6, <3>1
            <4>2. QED  BY <1>0, <2>1, <4>1 DEF HasItsOwn
        <3>2. CASE r = w /\ key \in DOMAIN update
            <4>1. run'[w].snap[key] = update[key] /\ run'[w].wrote[key] = update[key]
                BY <1>2, <3>2, OverFirst
            <4>2. key \in DOMAIN run'[w].snap
                <5>1. DOMAIN run'[w].snap = DOMAIN update \cup DOMAIN run[w].snap
                    BY <1>2, OverDomain
                <5>2. QED  BY <3>2, <5>1
            <4>3. QED  BY <3>2, <4>1, <4>2
        <3>3. CASE r = w /\ key \notin DOMAIN update
            <4>1. key \in DOMAIN run[w].wrote
                BY <1>9, <2>1, <3>3
            <4>2. key \in DOMAIN run[w].snap /\ run[w].snap[key] = run[w].wrote[key]
                BY <1>0, <4>1 DEF HasItsOwn
            <4>3. run'[w].snap[key] = run[w].snap[key] /\ run'[w].wrote[key] = run[w].wrote[key]
                BY <1>2, <3>3, <4>1, <4>2, OverSecond
            <4>4. key \in DOMAIN run'[w].snap
                <5>1. DOMAIN run'[w].snap = DOMAIN update \cup DOMAIN run[w].snap
                    BY <1>2, OverDomain
                <5>2. QED  BY <4>2, <5>1
            <4>5. QED  BY <3>3, <4>2, <4>3, <4>4
        <3>4. QED  BY <3>1, <3>2, <3>3
    <2>2. ASSUME NEW r \in Runs, run'[r].status = "waiting"
          PROVE  DOMAIN run'[r].wrote = {}
        BY <1>0, <1>6, <1>7, <2>2 DEF HasItsOwn, Running
    <2>3. QED  BY <1>0, <1>5, <2>1, <2>2 DEF HasItsOwn
\* What others wrote is kept in the copy of w, but for what w writes now, and
\* then it is taken back by w.
<1>13. ASSUME NEW r \in Runs, r # w, NEW key \in DOMAIN run[r].wrote
       PROVE  Held(run', r, key, run'[w].snap)
    <2>1. run'[r].wrote = run[r].wrote /\ key \in DOMAIN run'[r].wrote
        BY <1>6, <1>13
    <2>2. CASE Overlap(w, r)
        <3>1. w \in run'[r].with /\ DOMAIN run'[w].wrote # {} /\ w \in DOMAIN run'
            BY <1>5, <1>6, <1>9, <2>2 DEF Overlap
        <3>2. QED  BY <3>1 DEF Held
    <2>3. CASE ~Overlap(w, r)
        <3>1. ~Overlap(r, w)
            BY <1>0, <2>3 DEF KnowEachOther
        <3>2. Held(run, r, key, run[w].snap)
            BY <1>0, <1>7, <1>13, <3>1 DEF HasReadTheOthers
        <3>3. \A q \in Runs : DOMAIN run[q].wrote \subseteq DOMAIN run'[q].wrote
            BY <1>6, <1>9
        <3>4. CASE key \in DOMAIN update
            <4>1. run[r].status # "waiting"
                BY <1>0, <1>13 DEF HasItsOwn
            <4>2. ~(w < r)
                BY <1>0, <1>7, <1>13, <2>3, <4>1 DEF KnowEachOther
            <4>3. w > r
                BY <1>13, <4>2 DEF Runs
            <4>4. key \in DOMAIN run'[w].wrote
                BY <1>9, <3>4
            <4>5. QED  BY <1>5, <4>3, <4>4 DEF Held
        <3>5. CASE key \notin DOMAIN update
            <4>1. Lookup(run'[w].snap, key) = Lookup(run[w].snap, key)
                BY <1>2, <3>5, OverSecond
            <4>2. run[r].with \subseteq run'[r].with /\ run'[r].wrote[key] = run[r].wrote[key]
                BY <1>6, <2>1
            <4>3. QED  BY <1>5, <3>2, <3>3, <4>1, <4>2, HeldStays
        <3>6. QED  BY <3>4, <3>5
    <2>4. QED  BY <2>2, <2>3
<1>14. HasReadTheOthers'
    <2> SUFFICES ASSUME NEW v \in Runs, NEW r \in Runs, Running(v)', r # v, ~Overlap(r, v)',
                        NEW key \in DOMAIN run'[r].wrote
                 PROVE  Held(run, r, key, run[v].snap)'
        BY <1>0, <1>5 DEF HasReadTheOthers
    <2>1. Running(v) /\ ~Overlap(r, v)
        BY <1>7, <1>8
    <2>2. CASE v = w
        <3>1. key \in DOMAIN run[r].wrote
            BY <1>6, <2>2
        <3>2. Held(run', r, key, run'[w].snap)
            BY <1>13, <2>2, <3>1
        <3>3. QED  BY <2>2, <3>2 DEF Held
    <2>3. CASE v # w /\ r = w
        <3>1. run[w].status # "waiting"
            BY <1>7 DEF Running
        <3>2. Overlap(w, v)
            BY <1>0, <1>7, <2>1, <2>3, <3>1 DEF KnowEachOther, Running
        <3>3. QED  BY <2>1, <2>3, <3>2
    <2>4. CASE v # w /\ r # w
        <3>1. Held(run, r, key, run[v].snap) /\ run'[v].snap = run[v].snap
            <4>1. key \in DOMAIN run[r].wrote /\ run'[v].snap = run[v].snap
                BY <1>6, <2>4
            <4>2. QED  BY <1>0, <2>1, <4>1 DEF HasReadTheOthers
        <3>2. \A q \in Runs : DOMAIN run[q].wrote \subseteq DOMAIN run'[q].wrote
            BY <1>6, <1>9
        <3>3. run[r].with \subseteq run'[r].with /\ run'[r].wrote[key] = run[r].wrote[key]
            BY <1>6, <2>4
        <3>4. Lookup(run'[v].snap, key) = Lookup(run[v].snap, key)
            BY <3>1
        <3>5. QED  BY <1>5, <3>1, <3>2, <3>3, <3>4, HeldStays
    <2>5. QED  BY <2>2, <2>3, <2>4
<1>15. FileHolds'
    <2> SUFFICES ASSUME NEW r \in Runs, NEW key \in DOMAIN run'[r].wrote
                 PROVE  Held(run, r, key, file)'
        BY <1>0, <1>5 DEF FileHolds
    <2>1. run'[w].snap = file'
        BY <1>2
    <2>2. CASE r = w
        <3>1. key \in DOMAIN run'[w].snap /\ run'[w].snap[key] = run'[w].wrote[key]
            BY <1>0, <1>5, <1>12, <2>2 DEF HasItsOwn
        <3>2. QED  BY <2>1, <2>2, <3>1 DEF Held, Lookup
    <2>3. CASE r # w
        <3>1. key \in DOMAIN run[r].wrote
            BY <1>6, <2>3
        <3>2. Held(run', r, key, run'[w].snap)
            BY <1>13, <2>3, <3>1
        <3>3. QED  BY <2>1, <3>2 DEF Held
    <2>4. QED  BY <2>2, <2>3
<1>16. QED  BY <1>10, <1>11, <1>12, <1>14, <1>15 DEF FileInv

\* A run starts: it reads what the file holds, and knows all that are running.
LEMMA FileStart ==
    ASSUME OpsTyped, OpsTyped', FileInv, NEW s \in Runs, Start(s)
    PROVE  FileInv'
<1>0. InOrderOfStart /\ KnowEachOther /\ HasItsOwn /\ HasReadTheOthers /\ FileHolds
    BY DEF FileInv
<1>1. RunsTyped
    BY DEF OpsTyped
<1>2. plan' = plan /\ file' = file
    BY DEF Start
<1>3. Runs' = Runs
    BY <1>2 DEF Runs
<1>4. /\ run[s].status = "waiting" /\ run'[s].status = "running" /\ run'[s].snap = file
      /\ run'[s].with = {q \in Runs : Running(q)}
      /\ \A q \in 1 .. s - 1 : run[q].status # "waiting"
      /\ \A r \in Runs : run'[r].wrote = run[r].wrote /\ run'[r].at = run[r].at
      /\ \A r \in Runs : r # s =>
           /\ run'[r].snap = run[r].snap /\ run'[r].status = run[r].status
           /\ run'[r].with = IF Running(r) THEN run[r].with \cup {s} ELSE run[r].with
    BY <1>1, StartMoves DEF KeepsFile
<1>5. \A r \in Runs : r # s => (Running(r)' <=> Running(r))
    BY <1>2, <1>4 DEF Running
<1>6. \A r \in Runs : s < r => run[r].status = "waiting"
    BY <1>0, <1>4 DEF InOrderOfStart
<1>7. \A r \in Runs : r < s => run[r].status # "waiting"
    BY <1>4 DEF Runs
<1>8. ~Running(s) /\ DOMAIN run[s].wrote = {}
    BY <1>0, <1>4 DEF Running, HasItsOwn
<1>9. /\ \A q, r \in Runs : q # s /\ r # s => (Overlap(q, r)' <=> Overlap(q, r))
      /\ \A q \in Runs : Overlap(q, s)' <=> Running(q)
      /\ \A r \in Runs : r # s /\ Running(r) => Overlap(s, r)'
      /\ \A r \in Runs : r # s /\ ~Running(r) => (Overlap(s, r)' <=> Overlap(s, r))
    BY <1>4 DEF Overlap
<1>10. \A r \in Runs : ~Overlap(s, r) /\ ~Overlap(r, s)
    BY <1>0, <1>4 DEF KnowEachOther
<1>11. InOrderOfStart'
    <2>1. ASSUME NEW q \in Runs, NEW r \in Runs, q < r, run'[r].status # "waiting"
          PROVE  run'[q].status # "waiting"
        <3>1. CASE q = s
            BY <1>4, <3>1
        <3>2. CASE q # s /\ r = s
            BY <1>4, <1>7, <2>1, <3>2
        <3>3. CASE q # s /\ r # s
            BY <1>0, <1>4, <2>1, <3>3 DEF InOrderOfStart
        <3>4. QED  BY <3>1, <3>2, <3>3
    <2>2. QED  BY <1>3, <2>1 DEF InOrderOfStart
<1>12. KnowEachOther'
    <2>1. ASSUME NEW q \in Runs, NEW r \in Runs, Overlap(q, r)'
          PROVE  Overlap(r, q)' /\ run'[q].status # "waiting"
        <3>1. CASE q # s /\ r # s
            BY <1>0, <1>4, <1>9, <2>1, <3>1 DEF KnowEachOther
        <3>2. CASE r = s
            <4>1. Running(q)
                BY <1>9, <2>1, <3>2
            <4>2. q # s
                BY <1>8, <4>1
            <4>3. QED  BY <1>4, <1>9, <3>2, <4>1, <4>2 DEF Running
        <3>3. CASE q = s /\ r # s
            <4>1. Running(r)
                BY <1>9, <1>10, <2>1, <3>3
            <4>2. QED  BY <1>4, <1>9, <3>3, <4>1
        <3>4. QED  BY <3>1, <3>2, <3>3
    <2>2. ASSUME NEW q \in Runs, NEW r \in Runs, q # r, Running(q)', run'[r].status # "waiting",
                 Running(r)' \/ q < r
          PROVE  Overlap(q, r)'
        <3>1. CASE q # s /\ r # s
            BY <1>0, <1>4, <1>5, <1>9, <2>2, <3>1 DEF KnowEachOther
        <3>2. CASE r = s
            BY <1>5, <1>9, <2>2, <3>2
        <3>3. CASE q = s
            <4>1. ~(s < r)
                BY <1>4, <1>6, <2>2, <3>3
            <4>2. Running(r)
                BY <1>5, <2>2, <3>3, <4>1
            <4>3. QED  BY <1>9, <2>2, <3>3, <4>2
        <3>4. QED  BY <3>1, <3>2, <3>3
    <2>3. QED  BY <1>3, <2>1, <2>2 DEF KnowEachOther
<1>13. HasItsOwn'
    <2>1. ASSUME NEW r \in Runs
          PROVE  /\ run'[r].status = "waiting" => DOMAIN run'[r].wrote = {}
                 /\ \A key \in DOMAIN run'[r].wrote :
                      key \in DOMAIN run'[r].snap /\ run'[r].snap[key] = run'[r].wrote[key]
        <3>1. CASE r = s
            BY <1>4, <1>8, <3>1
        <3>2. CASE r # s
            <4>1. /\ run'[r].snap = run[r].snap /\ run'[r].wrote = run[r].wrote
                  /\ run'[r].status = run[r].status
                BY <1>4, <3>2
            <4>2. QED  BY <1>0, <4>1 DEF HasItsOwn
        <3>3. QED  BY <3>1, <3>2
    <2>2. QED  BY <1>3, <2>1 DEF HasItsOwn
<1>14. ASSUME NEW r \in Runs, NEW key \in DOMAIN run[r].wrote, NEW f, Held(run, r, key, f)
       PROVE  Held(run', r, key, f)
    <2>1. r # s
        BY <1>8, <1>14
    <2>2. DOMAIN run = Runs /\ DOMAIN run' = Runs
        BY <1>1, <1>3, StartMoves DEF RunsTyped
    <2>3. /\ run'[r].wrote[key] = run[r].wrote[key] /\ run[r].with \subseteq run'[r].with
          /\ \A q \in Runs : DOMAIN run[q].wrote \subseteq DOMAIN run'[q].wrote
        BY <1>4, <2>1
    <2>4. QED  BY <1>14, <2>2, <2>3, HeldStays
<1>15. \A r \in Runs : run'[r].wrote = run[r].wrote
    BY <1>4
<1>16. HasReadTheOthers'
    <2> SUFFICES ASSUME NEW w \in Runs, NEW r \in Runs, Running(w)', r # w, ~Overlap(r, w)',
                        NEW key \in DOMAIN run'[r].wrote
                 PROVE  Held(run, r, key, run[w].snap)'
        BY <1>3 DEF HasReadTheOthers
    <2>1. key \in DOMAIN run[r].wrote
        BY <1>15
    <2>2. CASE w = s
        <3>1. Held(run, r, key, file)
            BY <1>0, <2>1 DEF FileHolds
        <3>2. run'[w].snap = file
            BY <1>4, <2>2
        <3>3. QED  BY <1>14, <2>1, <3>1, <3>2
    <2>3. CASE w # s
        <3>1. r # s
            BY <1>8, <2>1
        <3>2. Running(w) /\ ~Overlap(r, w)
            BY <1>5, <1>9, <2>3, <3>1
        <3>3. Held(run, r, key, run[w].snap)
            BY <1>0, <2>1, <3>2 DEF HasReadTheOthers
        <3>4. run'[w].snap = run[w].snap
            BY <1>4, <2>3
        <3>5. QED  BY <1>14, <2>1, <3>3, <3>4
    <2>4. QED  BY <2>2, <2>3
<1>17. FileHolds'
    <2> SUFFICES ASSUME NEW r \in Runs, NEW key \in DOMAIN run'[r].wrote
                 PROVE  Held(run, r, key, file)'
        BY <1>3 DEF FileHolds
    <2>1. Held(run, r, key, file) /\ key \in DOMAIN run[r].wrote
        BY <1>0, <1>15 DEF FileHolds
    <2>2. QED  BY <1>2, <1>14, <2>1
<1>18. QED  BY <1>11, <1>12, <1>13, <1>16, <1>17 DEF FileInv

LEMMA FileNext ==
    ASSUME OpsTyped, TimelockInv, FileInv, [Next]_vars
    PROVE  FileInv'
<1>1. OpsTyped'
    BY NextTyped
<1>2. QED  BY <1>1, RunsNext, FileQuiet, FileWrite, FileStart

\* The invariants of the runs, together with the Timelock's.
THEOREM OpsInvariant == Spec => [](OpsTyped /\ TimelockInv /\ FileInv)
<1>1. Init => OpsTyped /\ TimelockInv /\ FileInv
    BY OpsInit, FileInit
<1>2. OpsTyped /\ TimelockInv /\ FileInv /\ [Next]_vars => (OpsTyped /\ TimelockInv /\ FileInv)'
    BY NextTyped, FileNext
<1>3. QED  BY <1>1, <1>2, PTL DEF Spec

\* What a script has written to the file stays there, until a later one writes the
\* same key, or one that ran at the same time the whole file (getConfig,
\* writeConfigFile): for all scripts and all overlaps.
THEOREM RecordsAreKept == Spec => []RecordsKept
<1>1. OpsTyped /\ FileInv => RecordsKept
    BY DEF OpsTyped, RunsTyped, FileInv, FileHolds, Held, RecordsKept, Overlap
<1>2. QED  BY <1>1, OpsInvariant, PTL

\* Part of the whole: the calls that come from the scripts, the Safes and the admin
\* by hand keep to the delay, and are made once (ProxyAdminWrapper, TimelockWrapper).
THEOREM OperationsHonourDelay == Spec => [](DelayHonoured /\ ExecutedOnce)
<1>1. TimelockInv => DelayHonoured /\ ExecutedOnce
    BY DEF TimelockInv
<1>2. QED  BY <1>1, OpsInvariant, PTL

-----------------------------------------------------------------------------
(***************************************************************************)
(* Nonces.                                                                  *)
(***************************************************************************)

Excused(r) == (\E q \in Runs : Overlap(r, q)) \/ \E q \in Runs : Asked(q)
Pending(r) == Running(r) /\ run[r].nonce # NoNonce
\* A nonce read and not asked for is after all that are proposed, and not passed,
\* but for what overlapping runs have proposed since.
Fresh(r) ==
    /\ \A p \in proposals : p.safe = Sender(r) => p.nonce < run[r].nonce \/ Overlap(p.tx.from, r)
    /\ run[r].nonce < nonces[Sender(r)] => Excused(r)
Proposing(r) ==
    /\ Does(r, "send") \/ Does(r, "execute")
    /\ Sender(r) \in Safes
    /\ run[r].chosen = TRUE => Asked(r)
    /\ run[r].chosen = FALSE => Fresh(r)
ProposalAsked == \A p \in proposals : p.chosen = TRUE => Asked(p.tx.from)
ProposedOnce == \A p, q \in proposals :
    p.safe = q.safe /\ p.nonce = q.nonce /\ p # q
      => p.chosen = TRUE \/ q.chosen = TRUE \/ Overlap(p.tx.from, q.tx.from)
InTime == \A p \in proposals :
    p.nonce < nonces[p.safe] => p.chosen = TRUE \/ Excused(p.tx.from)
RunNonces == \A r \in Runs : /\ run[r].status = "waiting" => run[r].nonce = NoNonce
                             /\ Pending(r) => Proposing(r)
NonceInv == RunNonces /\ ProposalAsked /\ ProposedOnce /\ InTime

LEMMA NonceInit ==
    ASSUME Init
    PROVE  NonceInv
<1>1. \A r \in Runs : run[r] = NotStarted
    BY OpsInit
<1>2. \A r \in Runs : run[r].status = "waiting" /\ run[r].nonce = NoNonce
    BY <1>1 DEF NotStarted
<1>3. RunNonces
    BY <1>2 DEF RunNonces, Pending
<1>4. proposals = {}
    BY DEF Init
<1>5. QED  BY <1>3, <1>4 DEF NonceInv, ProposalAsked, ProposedOnce, InTime

\* What is handed to the Safe stays with it, and while there are runs the
\* Timelock keeps its admin.
LEMMA PerformHands ==
    ASSUME NEW sender, NEW tx, Perform(sender, tx)
    PROVE  handed \subseteq handed' /\ admin' = admin
<1>1. CASE QueueTransaction(sender, UpgradeCall(tx.args), tx.eta) /\ UNCHANGED chainVars
    BY <1>1 DEF QueueTransaction, chainVars
<1>2. CASE ExecuteTransaction(sender, UpgradeCall(tx.args), tx.eta) /\ UNCHANGED handed
    BY <1>2 DEF ExecuteTransaction, SetDelay, SetPendingAdmin
<1>3. CASE UNCHANGED timelockVars /\ handed \subseteq handed'
    BY <1>3 DEF timelockVars
<1>4. QED  BY <1>1, <1>2, <1>3 DEF Perform

LEMMA NextHands ==
    ASSUME OpsTyped, [Next]_vars, NEW r \in Runs
    PROVE  handed \subseteq handed' /\ admin' = admin
<1>1. DOMAIN run = Runs
    BY DEF OpsTyped, RunsTyped
<1>2. plan # <<>>
    BY DEF Runs
<1>3. ASSUME NEW q \in Runs, SendAtOnce(q)
      PROVE  handed \subseteq handed' /\ admin' = admin
    BY <1>3, PerformHands DEF SendAtOnce
<1>4. ASSUME NEW q \in Runs,
             \/ Start(q) \/ Stop(q) \/ DeployContract(q) \/ PrepareUpgrade(q)
             \/ WriteConfigFile(q) \/ GetUpdatePriceData(q) \/ LookUp(q)
             \/ PassExecution(q) \/ SkipUnless(q)
             \/ ReadNonce(q) \/ ProposeTransaction(q)
      PROVE  handed \subseteq handed' /\ admin' = admin
    BY <1>4 DEF Start, Stop, DeployContract, PrepareUpgrade, WriteConfigFile,
        GetUpdatePriceData, LookUp, PassExecution, SkipUnless, ReadNonce, ProposeTransaction,
        chainVars, timelockVars
<1>5. CASE \E safe \in Safes : ExecuteTransactionOf(safe)
    BY <1>5, PerformHands DEF ExecuteTransactionOf
<1>6. CASE ByHand \/ TimePasses \/ UNCHANGED vars
    BY <1>2, <1>6 DEF ByHand, TimePasses, Tick, vars, chainVars, timelockVars
<1>7. QED  BY <1>1, <1>3, <1>4, <1>5, <1>6 DEF Next

\* So who sends a call, if it is a Safe, stays the same while the run waits.
LEMMA SenderStays ==
    ASSUME OpsTyped, NEW r \in Runs, Does(r, "send") \/ Does(r, "execute"),
           Sender(r) \in Safes, plan' = plan, setup' = setup, admin' = admin,
           handed \subseteq handed', run'[r].at = run[r].at, run'[r].snap = run[r].snap
    PROVE  Sender(r)' = Sender(r)
<1>1. /\ run[r].at \in 1 .. Len(plan[r]) /\ Todo(r) = plan[r][run[r].at]
      /\ Todo(r).does \in {"send", "execute"}
    BY PlanFacts DEF Does, Running, Todo, OpsTyped, RunsTyped
<1>2. Todo(r).by \in Ways
    BY <1>1, PlanFacts DEF InOrder
<1>3. Todo(r)' = Todo(r)
    BY DEF Todo
<1> DEFINE to == Lookup(run[r].snap, Todo(r).to)
           by == Todo(r).by
<1>4. to' = to /\ by' = by
    BY <1>3 DEF Lookup, Original, KindOf, Written, Records, Deployed
<1>5. Owner(to) = "safe" => Owner(to)' = "safe"
    <2> HIDE DEF to
    <2>1. Original("proxyAdmin")' = Original("proxyAdmin")
        BY DEF Original
    <2>2. QED  BY <1>4, <2>1 DEF Owner
<1>6. UpgradeIn(r)' = UpgradeIn(r) /\ ByAdmin' = ByAdmin
    BY DEF UpgradeIn, ByAdmin, IsTimelock, HasAddress, Lookup, Original
<1> HIDE DEF to, by
<1>7. CASE by \in {"deployer", "anyone", "ownerIsSafeMisproposed", "misproposed"}
    <2>1. Sender(r) \in {"deployer", "nobody"}
        BY <1>7 DEF Sender, by, to
    <2>2. QED  BY <2>1 DEF Safes
<1>8. CASE by \in {"safe", "safeAtNonce", "treasury"}
    BY <1>3, <1>8 DEF Sender, by, to
<1>9. CASE by \in {"proxyAdmin", "timelock"}
    BY <1>3, <1>6, <1>9 DEF Sender, by, to
<1>10. CASE by = "owner"
    <2>1. Sender(r) = AuthExec(Owner(to)) /\ Sender(r)' = AuthExec(Owner(to)')
        BY <1>3, <1>4, <1>10 DEF Sender, by, to, AuthExec
    <2>2. Owner(to) = "safe"
        BY <2>1 DEF AuthExec, Safes
    <2>3. QED  BY <1>5, <2>1, <2>2
<1>11. CASE by = "ownerIsSafe"
    <2>1. /\ Sender(r) = IF Owner(to) = "safe" THEN "safe" ELSE "deployer"
          /\ Sender(r)' = IF Owner(to)' = "safe" THEN "safe" ELSE "deployer"
        BY <1>3, <1>4, <1>11 DEF Sender, by, to
    <2>2. Owner(to) = "safe"
        BY <2>1 DEF Safes
    <2>3. QED  BY <1>5, <2>1, <2>2
<1>12. QED  BY <1>2, <1>7, <1>8, <1>9, <1>10, <1>11 DEF Ways, by

\* A step leaves a run's nonce, script and place in it alone, or is a step of its own.
Unmoved(r) == /\ run'[r].status = run[r].status /\ run'[r].at = run[r].at /\ run'[r].snap = run[r].snap
              /\ run'[r].nonce = run[r].nonce /\ run'[r].option = run[r].option
              /\ run'[r].chosen = run[r].chosen

LEMMA OthersUnmoved ==
    ASSUME OpsTyped, TimelockInv, [Next]_vars, NEW r \in Runs
    PROVE  \/ Unmoved(r)
           \/ Start(r) \/ Stop(r) \/ DeployContract(r) \/ PrepareUpgrade(r)
           \/ WriteConfigFile(r) \/ GetUpdatePriceData(r) \/ LookUp(r)
           \/ PassExecution(r) \/ SkipUnless(r)
           \/ SendAtOnce(r) \/ ReadNonce(r) \/ ProposeTransaction(r)
<1>1. RunsTyped /\ DOMAIN run = Runs
    BY DEF OpsTyped, RunsTyped
<1>2. ASSUME NEW q \in Runs, q # r, Start(q)
      PROVE  Unmoved(r)
    <2>1. run'[r].at = run[r].at /\ KeepsNonce(r)
        BY <1>1, <1>2, StartMoves
    <2>2. KeepsFile(r) /\ run'[r].status = run[r].status
        BY <1>1, <1>2, StartMoves
    <2>3. QED  BY <2>1, <2>2 DEF Unmoved, KeepsFile, KeepsNonce
<1>3. ASSUME NEW q \in Runs, q # r,
             \/ Stop(q) \/ DeployContract(q) \/ PrepareUpgrade(q)
             \/ WriteConfigFile(q) \/ GetUpdatePriceData(q) \/ LookUp(q)
             \/ PassExecution(q) \/ SkipUnless(q)
             \/ SendAtOnce(q) \/ ReadNonce(q) \/ ProposeTransaction(q)
      PROVE  Unmoved(r)
    <2>1. run'[r] = run[r]
        <3>1. CASE Stop(q)
            BY <1>1, <1>3, <3>1, StopMoves
        <3>2. CASE DeployContract(q) \/ PrepareUpgrade(q)
            BY <1>1, <1>3, <3>2, MakeMoves DEF Moves
        <3>3. CASE WriteConfigFile(q)
            BY <1>1, <1>3, <3>3, WriteMoves DEF Moves
        <3>4. CASE \/ GetUpdatePriceData(q) \/ LookUp(q) \/ SkipUnless(q)
                   \/ SendAtOnce(q) \/ PassExecution(q)
            BY <1>1, <1>3, <3>4, PassMoves DEF Moves
        <3>5. CASE ReadNonce(q)
            BY <1>1, <1>3, <3>5, ReadMoves DEF Moves
        <3>6. CASE ProposeTransaction(q)
            BY <1>1, <1>3, <3>6, ProposeMoves DEF Moves
        <3>7. QED  BY <1>3, <3>1, <3>2, <3>3, <3>4, <3>5, <3>6
    <2>2. QED  BY <2>1 DEF Unmoved
<1>4. ASSUME \/ \E safe \in Safes : ExecuteTransactionOf(safe)
             \/ ByHand \/ TimePasses \/ UNCHANGED vars
      PROVE  Unmoved(r)
    BY <1>4, OtherNextTyped DEF Unmoved
<1>5. QED  BY <1>1, <1>2, <1>3, <1>4 DEF Next

\* Overlaps and nonces asked for are not forgotten.
LEMMA ExcusesStay ==
    ASSUME OpsTyped, TimelockInv, KnowEachOther, [Next]_vars
    PROVE  /\ Runs' = Runs
           /\ \A q, r \in Runs : Overlap(q, r) => Overlap(q, r)'
           /\ \A r \in Runs : Asked(r) => Asked(r)'
           /\ \A r \in Runs : Excused(r) => Excused(r)'
<1>1. RunsTyped
    BY DEF OpsTyped
<1>2. Runs' = Runs
    BY NextTyped DEF Runs
<1>3. \A r \in Runs : run[r].with \subseteq run'[r].with
    <2>1. CASE Quiet
        BY <2>1 DEF Quiet
    <2>2. ASSUME NEW s \in Runs, WriteConfigFile(s)
          PROVE  \A r \in Runs : run[r].with \subseteq run'[r].with
        BY <1>1, <2>2, WriteMoves DEF Moves
    <2>3. ASSUME NEW s \in Runs, Start(s)
          PROVE  \A r \in Runs : run[r].with \subseteq run'[r].with
        <3> TAKE r \in Runs
        <3>1. CASE r # s
            <4>1. run'[r].with = IF Running(r) THEN run[r].with \cup {s} ELSE run[r].with
                BY <1>1, <2>3, <3>1, StartMoves
            <4>2. QED  BY <4>1
        <3>2. CASE r = s
            <4>1. run[s].status = "waiting" /\ run[s].with \subseteq Runs
                BY <1>1, <2>3 DEF Start, RunsTyped
            <4>2. run[s].with = {}
                BY <4>1 DEF KnowEachOther, Overlap
            <4>3. QED  BY <3>2, <4>2
        <3>3. QED  BY <3>1, <3>2
    <2>4. QED  BY <2>1, <2>2, <2>3, RunsNext
<1>4. \A r \in Runs : Asked(r) => Asked(r)'
    <2> TAKE r \in Runs
    <2>1. CASE Unmoved(r)
        BY <2>1 DEF Unmoved, Asked
    <2>2. CASE \/ Start(r) \/ Stop(r) \/ DeployContract(r) \/ PrepareUpgrade(r)
               \/ WriteConfigFile(r) \/ GetUpdatePriceData(r) \/ LookUp(r)
               \/ PassExecution(r) \/ SkipUnless(r)
               \/ SendAtOnce(r) \/ ProposeTransaction(r)
        <3>1. run'[r].option = run[r].option
            <4>1. CASE Start(r) \/ Stop(r)
                BY <1>1, <4>1, StartMoves, StopMoves DEF KeepsNonce
            <4>2. CASE DeployContract(r) \/ PrepareUpgrade(r) \/ WriteConfigFile(r)
                BY <1>1, <4>2, MakeMoves, WriteMoves DEF KeepsNonce
            <4>3. CASE \/ GetUpdatePriceData(r) \/ LookUp(r)
                       \/ PassExecution(r) \/ SkipUnless(r) \/ SendAtOnce(r)
                BY <1>1, <4>3, PassMoves DEF KeepsNonce
            <4>4. CASE ProposeTransaction(r)
                BY <1>1, <4>4, ProposeMoves
            <4>5. QED  BY <2>2, <4>1, <4>2, <4>3, <4>4
        <3>2. QED  BY <3>1 DEF Asked
    <2>3. CASE ReadNonce(r)
        BY <1>1, <2>3, ReadMoves
    <2>4. QED  BY <2>1, <2>2, <2>3, OthersUnmoved
<1>5. \A q, r \in Runs : Overlap(q, r) => Overlap(q, r)'
    BY <1>3 DEF Overlap
<1>6. QED  BY <1>2, <1>4, <1>5 DEF Excused

\* A run that waits with a nonce has waited before, or has just read it.
LEMMA PendingStays ==
    ASSUME OpsTyped, TimelockInv, RunNonces, [Next]_vars, NEW r \in Runs, Pending(r)'
    PROVE  ReadNonce(r) \/ (Pending(r) /\ Unmoved(r))
<1>1. RunsTyped /\ Runs' = Runs /\ plan' = plan
    BY NextTyped DEF OpsTyped, Runs
<1>2. CASE Unmoved(r)
    BY <1>1, <1>2 DEF Pending, Running, Unmoved
<1>3. CASE Start(r)
    <2>1. run[r].nonce = NoNonce
        BY <1>3 DEF Start, RunNonces
    <2>2. QED  BY <1>1, <1>3, <2>1, StartMoves DEF KeepsNonce, Pending
<1>4. CASE Stop(r)
    BY <1>1, <1>4, StopMoves DEF Pending, Running
<1>5. CASE ProposeTransaction(r)
    BY <1>1, <1>5, ProposeMoves DEF Pending
<1>6. CASE \/ DeployContract(r) \/ PrepareUpgrade(r) \/ WriteConfigFile(r)
           \/ GetUpdatePriceData(r) \/ LookUp(r)
           \/ PassExecution(r) \/ SkipUnless(r) \/ SendAtOnce(r)
    <2>1. run'[r].nonce = run[r].nonce
        <3>1. CASE DeployContract(r) \/ PrepareUpgrade(r) \/ WriteConfigFile(r)
            BY <1>1, <3>1, MakeMoves, WriteMoves DEF KeepsNonce
        <3>2. CASE \/ GetUpdatePriceData(r) \/ LookUp(r)
                   \/ PassExecution(r) \/ SkipUnless(r) \/ SendAtOnce(r)
            BY <1>1, <3>2, PassMoves DEF KeepsNonce
        <3>3. QED  BY <1>6, <3>1, <3>2
    <2>2. Running(r)
        BY <1>6 DEF DeployContract, PrepareUpgrade, WriteConfigFile, GetUpdatePriceData, LookUp,
            PassExecution, SkipUnless, SendAtOnce, Sends, Does
    <2>3. Proposing(r)
        BY <2>1, <2>2 DEF Pending, RunNonces
    <2>4. CASE SendAtOnce(r)
        BY <2>3, <2>4 DEF SendAtOnce, Sends, Proposing, Safes
    <2>5. CASE PassExecution(r)
        BY <2>3, <2>5 DEF PassExecution, Sends, Proposing, Safes
    <2>6. CASE ~SendAtOnce(r) /\ ~PassExecution(r)
        BY <1>6, <2>3, <2>6 DEF DeployContract, PrepareUpgrade, WriteConfigFile, GetUpdatePriceData,
            LookUp, SkipUnless, Proposing, Does
    <2>7. QED  BY <2>4, <2>5, <2>6
<1>7. QED  BY <1>2, <1>3, <1>4, <1>5, <1>6, OthersUnmoved

LEMMA WaitingStays ==
    ASSUME OpsTyped, TimelockInv, RunNonces, [Next]_vars, NEW r \in Runs, run'[r].status = "waiting"
    PROVE  run'[r].nonce = NoNonce
<1>1. RunsTyped
    BY DEF OpsTyped
<1>2. CASE Unmoved(r)
    BY <1>2 DEF Unmoved, RunNonces
<1>3. CASE Start(r) \/ Stop(r)
    BY <1>1, <1>3, StartMoves, StopMoves
<1>4. CASE \/ DeployContract(r) \/ PrepareUpgrade(r) \/ WriteConfigFile(r)
           \/ GetUpdatePriceData(r) \/ LookUp(r) \/ PassExecution(r) \/ SkipUnless(r)
           \/ SendAtOnce(r) \/ ReadNonce(r) \/ ProposeTransaction(r)
    <2>1. run[r].status = "running"
        BY <1>4 DEF DeployContract, PrepareUpgrade, WriteConfigFile, GetUpdatePriceData, LookUp,
            PassExecution, SkipUnless, SendAtOnce, ReadNonce, ProposeTransaction, Sends, Does, Running
    <2>2. run'[r].status = run[r].status
        <3>1. CASE DeployContract(r) \/ PrepareUpgrade(r) \/ WriteConfigFile(r)
            BY <1>1, <3>1, MakeMoves, WriteMoves DEF Moves
        <3>2. CASE \/ GetUpdatePriceData(r) \/ LookUp(r)
                   \/ PassExecution(r) \/ SkipUnless(r) \/ SendAtOnce(r)
            BY <1>1, <3>2, PassMoves DEF Moves
        <3>3. CASE ReadNonce(r) \/ ProposeTransaction(r)
            BY <1>1, <3>3, ReadMoves, ProposeMoves DEF Moves
        <3>4. QED  BY <1>4, <3>1, <3>2, <3>3
    <2>3. QED  BY <2>1, <2>2
<1>5. QED  BY <1>2, <1>3, <1>4, OthersUnmoved

\* A run goes on waiting with its nonce, whatever is proposed or executed by others.
LEMMA ProposingStays ==
    ASSUME OpsTyped, OpsTyped', TimelockInv, KnowEachOther, [Next]_vars, NEW r \in Runs,
           Unmoved(r), Proposing(r),
           run[r].chosen = FALSE =>
             /\ \A p \in proposals' :
                  p.safe = Sender(r) => p \in proposals \/ Overlap(p.tx.from, r)'
             /\ run[r].nonce < nonces'[Sender(r)] =>
                  run[r].nonce < nonces[Sender(r)] \/ Excused(r)'
    PROVE  Proposing(r)'
<1>1. plan' = plan /\ setup' = setup
    BY NextTyped
<1>2. handed \subseteq handed' /\ admin' = admin
    BY NextHands
<1>3. /\ run'[r].status = run[r].status /\ run'[r].at = run[r].at /\ run'[r].snap = run[r].snap
      /\ run'[r].nonce = run[r].nonce /\ run'[r].chosen = run[r].chosen
    BY DEF Unmoved
<1>4. Sender(r) \in Safes /\ (Does(r, "send") \/ Does(r, "execute"))
    BY DEF Proposing
<1>5. Sender(r)' = Sender(r)
    BY <1>1, <1>2, <1>3, <1>4, SenderStays
<1>6. Does(r, "send")' \/ Does(r, "execute")'
    BY <1>1, <1>3, <1>4 DEF Does, Running, Todo
<1>7. /\ \A q \in Runs : Overlap(q, r) => Overlap(q, r)'
      /\ Asked(r) => Asked(r)'
      /\ Excused(r) => Excused(r)'
    BY ExcusesStay
<1>8. ASSUME run[r].chosen = FALSE
      PROVE  Fresh(r)'
    <2>1. Fresh(r)
        BY <1>8 DEF Proposing
    <2>2. \A p \in proposals : p.tx.from \in Runs
        BY DEF OpsTyped, ProposalsTyped
    <2>3. ASSUME NEW p \in proposals', p.safe = Sender(r)
          PROVE  p.nonce < run[r].nonce \/ Overlap(p.tx.from, r)'
        <3>1. CASE p \in proposals
            BY <1>7, <2>1, <2>2, <2>3, <3>1 DEF Fresh
        <3>2. CASE p \notin proposals
            BY <1>8, <2>3, <3>2
        <3>3. QED  BY <3>1, <3>2
    <2>4. run[r].nonce < nonces'[Sender(r)] => Excused(r)'
        BY <1>7, <1>8, <2>1 DEF Fresh
    <2>5. QED  BY <1>3, <1>5, <2>3, <2>4 DEF Fresh
<1>9. QED  BY <1>3, <1>4, <1>5, <1>6, <1>7, <1>8 DEF Proposing

\* The nonce just read is the operator's, or after all the service knows of.
LEMMA ReadIsFresh ==
    ASSUME OpsTyped, OpsTyped', TimelockInv, [Next]_vars, NEW r \in Runs, ReadNonce(r)
    PROVE  Proposing(r)'
<1>1. plan' = plan /\ setup' = setup /\ RunsTyped /\ run[r].at \in Nat
    BY NextTyped DEF OpsTyped, RunsTyped
<1>2. /\ Moves(r, 0) /\ KeepsFile(r)
      /\ \E safe \in Safes :
           /\ Sends(r, safe)
           /\ \/ run'[r].nonce = GetNextNonce(safe) /\ run'[r].chosen = FALSE
              \/ run'[r].nonce \in Nat /\ run'[r].chosen = TRUE /\ Asked(r)'
    BY <1>1, ReadMoves
<1>3. PICK safe \in Safes :
           /\ Sends(r, safe)
           /\ \/ run'[r].nonce = GetNextNonce(safe) /\ run'[r].chosen = FALSE
              \/ run'[r].nonce \in Nat /\ run'[r].chosen = TRUE /\ Asked(r)'
    BY <1>2
<1>4. /\ run'[r].at = run[r].at /\ run'[r].snap = run[r].snap /\ run'[r].status = run[r].status
    BY <1>1, <1>2 DEF Moves, KeepsFile
<1>5. UNCHANGED <<proposals, nonces>>
    BY DEF ReadNonce
<1>6. handed \subseteq handed' /\ admin' = admin
    BY NextHands
<1>7. Sender(r) = safe /\ (Does(r, "send") \/ Does(r, "execute"))
    BY <1>3 DEF Sends
<1>8. Sender(r)' = safe
    BY <1>1, <1>4, <1>6, <1>7, SenderStays
<1>9. Does(r, "send")' \/ Does(r, "execute")'
    BY <1>1, <1>4, <1>7 DEF Does, Running, Todo
<1>10. CASE run'[r].nonce = GetNextNonce(safe) /\ run'[r].chosen = FALSE
    <2>1. /\ GetNextNonce(safe) \in Nat /\ nonces[safe] \in Nat
          /\ GetNextNonce(safe) >= nonces[safe]
          /\ \A p \in proposals : p.safe = safe => p.nonce < GetNextNonce(safe)
        BY NextNonce DEF OpsTyped
    <2>2. Fresh(r)'
        BY <1>5, <1>8, <1>10, <2>1 DEF Fresh
    <2>3. QED  BY <1>8, <1>9, <1>10, <2>2 DEF Proposing
<1>11. CASE run'[r].chosen = TRUE /\ Asked(r)'
    BY <1>8, <1>9, <1>11 DEF Proposing
<1>12. QED  BY <1>3, <1>10, <1>11

\* Where nothing is proposed or executed.
LEMMA NonceQuiet ==
    ASSUME OpsTyped, OpsTyped', TimelockInv, KnowEachOther, NonceInv, [Next]_vars,
           UNCHANGED <<proposals, nonces>>
    PROVE  NonceInv'
<1>1. RunNonces /\ ProposalAsked /\ ProposedOnce /\ InTime
    BY DEF NonceInv
<1>2. /\ Runs' = Runs
      /\ \A q, r \in Runs : Overlap(q, r) => Overlap(q, r)'
      /\ \A r \in Runs : Asked(r) => Asked(r)'
      /\ \A r \in Runs : Excused(r) => Excused(r)'
    BY ExcusesStay
<1>3. \A p \in proposals : p.tx.from \in Runs
    BY DEF OpsTyped, ProposalsTyped
<1>4. ASSUME NEW r \in Runs, Pending(r)'
      PROVE  Proposing(r)'
    <2>1. CASE ReadNonce(r)
        BY <2>1, ReadIsFresh
    <2>2. CASE Pending(r) /\ Unmoved(r)
        <3>1. Proposing(r)
            BY <1>1, <2>2 DEF RunNonces
        <3>2. QED  BY <2>2, <3>1, ProposingStays
    <2>3. QED  BY <1>1, <1>4, <2>1, <2>2, PendingStays
<1>5. RunNonces'
    BY <1>1, <1>2, <1>4, WaitingStays DEF RunNonces
<1>6. ProposalAsked' /\ ProposedOnce' /\ InTime'
    BY <1>1, <1>2, <1>3 DEF ProposalAsked, ProposedOnce, InTime
<1>7. QED  BY <1>5, <1>6 DEF NonceInv

\* A run proposes: to the others that wait it is one they overlap with.
LEMMA NoncePropose ==
    ASSUME OpsTyped, OpsTyped', TimelockInv, KnowEachOther, NonceInv, [Next]_vars,
           NEW s \in Runs, ProposeTransaction(s)
    PROVE  NonceInv'
<1>1. RunNonces /\ ProposalAsked /\ ProposedOnce /\ InTime
    BY DEF NonceInv
<1>2. /\ Runs' = Runs
      /\ \A q, r \in Runs : Overlap(q, r) => Overlap(q, r)'
      /\ \A r \in Runs : Asked(r) => Asked(r)'
      /\ \A r \in Runs : Excused(r) => Excused(r)'
    BY ExcusesStay
<1>3. PICK safe \in Safes, tx \in Transactions(s) :
        /\ Sends(s, safe)
        /\ proposals' = proposals \cup {[safe |-> safe, nonce |-> run[s].nonce, tx |-> tx,
                                         at |-> run[s].at, chosen |-> run[s].chosen]}
    BY DEF ProposeTransaction
<1>4. PICK p0 : /\ p0.safe = safe /\ p0.nonce = run[s].nonce /\ p0.tx = tx
                /\ p0.chosen = run[s].chosen /\ proposals' = proposals \cup {p0}
    BY <1>3
<1>5. proposals' = proposals \cup {p0}
    BY <1>4
<1>6. tx.from = s
    BY TransactionTyped
<1>7. /\ run[s].nonce \in Nat /\ run[s].nonce # NoNonce /\ nonces' = nonces
      /\ run[s].chosen \in BOOLEAN
    BY DEF ProposeTransaction, OpsTyped, RunsTyped
<1>8. \A p \in proposals : p.tx.from \in Runs /\ p.nonce \in Int /\ p.safe \in Safes
    BY DEF OpsTyped, ProposalsTyped
<1>9. Running(s) /\ Sender(s) = safe
    BY <1>3 DEF Sends, Does
<1>10. Proposing(s)
    BY <1>1, <1>7, <1>9 DEF RunNonces, Pending
<1>11. \A p \in proposals' : p \in proposals \/ p = p0
    BY <1>5
<1>12. ASSUME NEW r \in Runs, Pending(r)'
       PROVE  Proposing(r)'
    <2>1. RunsTyped
        BY DEF OpsTyped
    <2>2. r # s
        BY <1>12, <2>1, ProposeMoves DEF Pending
    <2>3. CASE ReadNonce(r)
        BY <2>3, ReadIsFresh
    <2>4. CASE Pending(r) /\ Unmoved(r)
        <3>1. Proposing(r)
            BY <1>1, <2>4 DEF RunNonces
        <3>2. Overlap(s, r)
            BY <1>9, <2>2, <2>4 DEF KnowEachOther, Pending, Running
        <3>3. \A p \in proposals' : p \in proposals \/ Overlap(p.tx.from, r)'
            BY <1>2, <1>4, <1>6, <1>11, <3>2
        <3>4. QED  BY <1>7, <2>4, <3>1, <3>3, ProposingStays
    <2>5. QED  BY <1>1, <1>12, <2>3, <2>4, PendingStays
<1>13. RunNonces'
    BY <1>1, <1>2, <1>12, WaitingStays DEF RunNonces
<1>14. ProposalAsked'
    <2>1. p0.chosen = TRUE => Asked(p0.tx.from)
        BY <1>4, <1>6, <1>10 DEF Proposing
    <2>2. p0.tx.from \in Runs
        BY <1>4, <1>6
    <2>3. QED  BY <1>1, <1>2, <1>8, <1>11, <2>1, <2>2 DEF ProposalAsked
<1>15. ASSUME NEW p \in proposals, p.safe = safe, p.nonce = run[s].nonce, p0.chosen = FALSE
       PROVE  Overlap(p.tx.from, s)' /\ Overlap(s, p.tx.from)'
    <2>1. Fresh(s)
        BY <1>4, <1>10, <1>15 DEF Proposing
    <2>2. Overlap(p.tx.from, s)
        BY <1>7, <1>8, <1>9, <1>15, <2>1 DEF Fresh
    <2>3. Overlap(s, p.tx.from)
        BY <1>8, <2>2 DEF KnowEachOther
    <2>4. QED  BY <1>2, <1>8, <2>2, <2>3
<1>16. ProposedOnce'
    <2>1. ASSUME NEW p \in proposals', NEW q \in proposals',
                 p.safe = q.safe, p.nonce = q.nonce, p # q
          PROVE  p.chosen = TRUE \/ q.chosen = TRUE \/ Overlap(p.tx.from, q.tx.from)'
        <3>1. p0.chosen = TRUE \/ p0.chosen = FALSE
            BY <1>4, <1>7
        <3>2. CASE p \in proposals /\ q \in proposals
            BY <1>1, <1>2, <1>8, <2>1, <3>2 DEF ProposedOnce
        <3>3. CASE p \in proposals /\ q = p0
            BY <1>4, <1>6, <1>15, <2>1, <3>1, <3>3
        <3>4. CASE p = p0 /\ q \in proposals
            BY <1>4, <1>6, <1>15, <2>1, <3>1, <3>4
        <3>5. QED  BY <1>11, <2>1, <3>2, <3>3, <3>4
    <2>2. QED  BY <2>1 DEF ProposedOnce
<1>17. InTime'
    <2>1. ASSUME p0.nonce < nonces'[p0.safe], p0.chosen = FALSE
          PROVE  Excused(p0.tx.from)'
        <3>1. Fresh(s)
            BY <1>4, <1>10, <2>1 DEF Proposing
        <3>2. Excused(s)
            BY <1>4, <1>7, <1>9, <2>1, <3>1 DEF Fresh
        <3>3. Excused(s)'
            BY <1>2, <3>2
        <3>4. p0.tx.from = s
            BY <1>4, <1>6
        <3>5. QED  BY <3>3, <3>4 DEF Excused
    <2>2. p0.chosen = TRUE \/ p0.chosen = FALSE
        BY <1>4, <1>7
    <2>3. ASSUME NEW p \in proposals, p.nonce < nonces'[p.safe]
          PROVE  p.chosen = TRUE \/ Excused(p.tx.from)'
        BY <1>1, <1>2, <1>7, <1>8, <2>3 DEF InTime
    <2>4. ASSUME NEW p \in proposals', p.nonce < nonces'[p.safe]
          PROVE  p.chosen = TRUE \/ Excused(p.tx.from)'
        <3>1. CASE p \in proposals
            BY <2>3, <2>4, <3>1
        <3>2. CASE p = p0
            <4>1. p0.chosen = TRUE \/ Excused(p0.tx.from)'
                BY <2>1, <2>2, <2>4, <3>2
            <4>2. QED  BY <3>2, <4>1 DEF Excused
        <3>3. QED  BY <1>11, <2>4, <3>1, <3>2
    <2>5. QED  BY <2>4 DEF InTime
<1>18. QED  BY <1>13, <1>14, <1>16, <1>17 DEF NonceInv

\* A Safe executes the transaction whose turn it is: who else has its nonce has
\* taken it from, or lost it to, one that was asked for or overlapped.
LEMMA NonceExecute ==
    ASSUME OpsTyped, OpsTyped', TimelockInv, KnowEachOther, NonceInv, [Next]_vars,
           NEW safe \in Safes, ExecuteTransactionOf(safe)
    PROVE  NonceInv'
<1>1. RunNonces /\ ProposalAsked /\ ProposedOnce /\ InTime
    BY DEF NonceInv
<1>2. /\ Runs' = Runs
      /\ \A q, r \in Runs : Overlap(q, r) => Overlap(q, r)'
      /\ \A r \in Runs : Asked(r) => Asked(r)'
      /\ \A r \in Runs : Excused(r) => Excused(r)'
    BY ExcusesStay
<1>3. PICK p0 \in proposals :
        /\ p0.safe = safe /\ p0.nonce = nonces[safe]
        /\ nonces' = [nonces EXCEPT ![safe] = @ + 1] /\ proposals' = proposals \ {p0}
    BY DEF ExecuteTransactionOf
<1>4. /\ nonces[safe] \in Nat /\ nonces'[safe] = nonces[safe] + 1
      /\ \A x \in Safes : x # safe => nonces'[x] = nonces[x]
    BY <1>3 DEF OpsTyped
<1>5. \A p \in proposals : p.tx.from \in Runs /\ p.nonce \in Int /\ p.safe \in Safes
    BY DEF OpsTyped, ProposalsTyped
<1>6. proposals' \subseteq proposals /\ p0 \notin proposals'
    BY <1>3
<1>7. ASSUME NEW r \in Runs, Pending(r)'
      PROVE  Proposing(r)'
    <2>1. CASE ReadNonce(r)
        BY <2>1, ReadIsFresh
    <2>2. CASE Pending(r) /\ Unmoved(r)
        <3>1. Proposing(r)
            BY <1>1, <2>2 DEF RunNonces
        <3>2. run[r].nonce \in Nat /\ Sender(r) \in Safes
            BY <2>2, <3>1 DEF Pending, Proposing, OpsTyped, RunsTyped
        <3>3. ASSUME run[r].chosen = FALSE, run[r].nonce < nonces'[Sender(r)],
                     ~(run[r].nonce < nonces[Sender(r)])
              PROVE  Excused(r)'
            <4>1. Sender(r) = safe /\ run[r].nonce = nonces[safe]
                BY <1>4, <3>2, <3>3
            <4>2. Fresh(r)
                BY <3>1, <3>3 DEF Proposing
            <4>3. Overlap(p0.tx.from, r)
                BY <1>3, <1>4, <4>1, <4>2 DEF Fresh
            <4>4. Overlap(r, p0.tx.from)
                BY <1>5, <4>3 DEF KnowEachOther
            <4>5. Excused(r)
                BY <1>5, <4>4 DEF Excused
            <4>6. QED  BY <1>2, <4>5
        <3>4. QED  BY <1>6, <2>2, <3>1, <3>3, ProposingStays
    <2>3. QED  BY <1>1, <1>7, <2>1, <2>2, PendingStays
<1>8. RunNonces'
    BY <1>1, <1>2, <1>7, WaitingStays DEF RunNonces
<1>9. ProposalAsked' /\ ProposedOnce'
    BY <1>1, <1>2, <1>5, <1>6 DEF ProposalAsked, ProposedOnce
<1>10. InTime'
    <2>1. ASSUME NEW p \in proposals', p.nonce < nonces'[p.safe]
          PROVE  p.chosen = TRUE \/ Excused(p.tx.from)'
        <3>1. CASE p.nonce < nonces[p.safe]
            BY <1>1, <1>2, <1>5, <1>6, <3>1 DEF InTime
        <3>2. CASE ~(p.nonce < nonces[p.safe])
            <4>1. p.safe = p0.safe /\ p.nonce = p0.nonce /\ p # p0
                BY <1>3, <1>4, <1>5, <1>6, <2>1, <3>2
            <4>2. CASE p0.chosen = TRUE
                <5>1. Asked(p0.tx.from)
                    BY <1>1, <4>2 DEF ProposalAsked
                <5>2. Excused(p.tx.from)
                    BY <1>5, <5>1 DEF Excused
                <5>3. QED  BY <1>2, <1>5, <1>6, <5>2
            <4>3. CASE Overlap(p.tx.from, p0.tx.from)
                <5>1. Excused(p.tx.from)
                    BY <1>5, <4>3 DEF Excused
                <5>2. QED  BY <1>2, <1>5, <1>6, <5>1
            <4>4. QED  BY <1>1, <1>6, <4>1, <4>2, <4>3 DEF ProposedOnce
        <3>3. QED  BY <3>1, <3>2
    <2>2. QED  BY <2>1 DEF InTime
<1>11. QED  BY <1>8, <1>9, <1>10 DEF NonceInv

LEMMA NonceNext ==
    ASSUME OpsTyped, OpsTyped', TimelockInv, KnowEachOther, NonceInv, [Next]_vars
    PROVE  NonceInv'
<1>1. DOMAIN run = Runs
    BY DEF OpsTyped, RunsTyped
<1>2. CASE UNCHANGED <<proposals, nonces>>
    BY <1>2, NonceQuiet
<1>3. CASE \E r \in Runs : ProposeTransaction(r)
    BY <1>3, NoncePropose
<1>4. CASE \E safe \in Safes : ExecuteTransactionOf(safe)
    BY <1>4, NonceExecute
<1>5. UNCHANGED <<proposals, nonces>> \/ (\E r \in Runs : ProposeTransaction(r))
        \/ (\E safe \in Safes : ExecuteTransactionOf(safe))
    BY <1>1 DEF Next, Start, Stop, DeployContract, PrepareUpgrade, WriteConfigFile,
        GetUpdatePriceData, LookUp, PassExecution, SkipUnless, SendAtOnce, ReadNonce, ByHand, TimePasses,
        vars, opsVars
<1>6. QED  BY <1>2, <1>3, <1>4, <1>5

\* Proposals reach the owners of a Safe in turn and none in the place of another,
\* unless an operator asks for a nonce or two runs overlap (SafeWrapper): for all
\* plans, and whatever the Safes execute in between.
THEOREM NothingIsDropped == Spec => []NothingDropped
<1>1. Init => NonceInv
    BY NonceInit
<1>2. OpsTyped /\ TimelockInv /\ FileInv /\ NonceInv /\ [Next]_vars
        /\ (OpsTyped /\ TimelockInv /\ FileInv)' => NonceInv'
    BY NonceNext DEF FileInv
<1>3. OpsTyped /\ NonceInv => NothingDropped
    <2> SUFFICES ASSUME OpsTyped, NonceInv  PROVE NothingDropped
        OBVIOUS
    <2>1. /\ DOMAIN run = Runs /\ ProposedOnce /\ InTime
          /\ \A p \in proposals : p.chosen = TRUE => p.chosen
        BY DEF OpsTyped, RunsTyped, NonceInv
    <2>2. \A p \in proposals : p.nonce < nonces[p.safe] =>
            p.chosen \/ \E r \in DOMAIN run : Overlap(p.tx.from, r) \/ Asked(r)
        BY <2>1 DEF InTime, Excused
    <2>3. \A p, q \in proposals : p.safe = q.safe /\ p.nonce = q.nonce /\ p # q =>
            p.chosen \/ q.chosen \/ Overlap(p.tx.from, q.tx.from)
        BY <2>1 DEF ProposedOnce
    <2>4. QED  BY <2>2, <2>3 DEF NothingDropped
<1>4. QED  BY <1>1, <1>2, <1>3, OpsInvariant, PTL DEF Spec
-----------------------------------------------------------------------------
(***************************************************************************)
(* Kinds.                                                                   *)
(***************************************************************************)

\* The file, and each run's copy, has under a key contracts of the kinds that the
\* scripts planned put there; what a run has made last is what its script says.
Kinded(f) == \A key \in DOMAIN f :
    f[key].kind \in KindsOf(plan, key) /\ MayHave(setup, plan, key)
NewIsKnown(r) == \A what \in {"deploy", "implement"} :
    Follows(plan[r], run[r].at, what) => run[r].last.kind = plan[r][run[r].at - 1].kind
\* What KindsFit says of a call, and of a transaction that may come to make it.
CallFits(to, fn, args) ==
    LET kinds == [i \in 1 .. Len(args) |-> args[i].kind]
    IN  /\ fn = "constructor" /\ to.kind \in DOMAIN Constructor
             => Fit(kinds, Constructor[to.kind])
        /\ fn \in DOMAIN Setter => Fit(kinds, Setter[fn])
        /\ fn \in Grants => \A i \in 1 .. Len(kinds) : BuiltToCall(kinds[i], to.kind)
        /\ fn \in PairGrants => \A i \in 1 .. Len(kinds) \div 2 :
             BuiltToCall(kinds[2 * i], kinds[2 * i - 1])
Upgrading(fn) == fn \in {"upgrade", "queueTransaction", "executeTransaction"}
TxFits(tx) == /\ Upgrading(tx.fn) => MayRun(tx.args[1].kind, tx.args[2].kind)
              /\ ~Upgrading(tx.fn) => CallFits(tx.to, tx.fn, tx.args)
FilesKinded == Kinded(file) /\ \A r \in Runs : Kinded(run[r].snap) /\ NewIsKnown(r)
CallsFit == \A c \in calls : CallFits(c.to, c.fn, c.args)
ImplsFit == \A proxy \in DOMAIN impl : MayRun(proxy.kind, impl[proxy].kind)
ProposalsFit == \A p \in proposals : TxFits(p.tx)
QueueFits == \A q \in queued :
    q.call.fn = "upgrade" => MayRun(q.call.proxy.kind, q.call.impl.kind)
KindInv == FilesKinded /\ CallsFit /\ ImplsFit /\ ProposalsFit /\ QueueFits

LEMMA KindInit ==
    ASSUME Init
    PROVE  KindInv
<1>1. \A r \in Runs : run[r] = NotStarted
    BY OpsInit
<1>2. \A r \in Runs : run[r].at = 1 /\ run[r].snap = <<>>
    BY <1>1 DEF NotStarted
<1>3. file = <<>> /\ calls = {} /\ impl = <<>> /\ proposals = {} /\ queued = {}
    BY DEF Init, TimelockInit
<1>4. FilesKinded
    BY <1>2, <1>3 DEF FilesKinded, Kinded, NewIsKnown, Follows
<1>5. QED  BY <1>3, <1>4 DEF KindInv, CallsFit, ImplsFit, ProposalsFit, QueueFits

LEMMA LookupKinded ==
    ASSUME NEW f, Kinded(f), NEW key
    PROVE  /\ Lookup(f, key).kind \in KindsOf(plan, key)
           /\ HasAddress(f, key) => MayHave(setup, plan, key)
<1>1. Original(key).kind \in KindsOf(plan, key)
    BY DEF KindsOf
<1>2. CASE key \in DOMAIN f
    BY <1>2 DEF Kinded, Lookup
<1>3. CASE key \notin DOMAIN f
    BY <1>1, <1>3 DEF Lookup, HasAddress, MayHave
<1>4. QED  BY <1>2, <1>3

LEMMA RecordKinded ==
    ASSUME OpsTyped, NEW r \in Runs, NEW i \in 1 .. Len(plan[r]), plan[r][i].does = "record",
           NEW key \in plan[r][i].keys
    PROVE  plan[r][i].kind \in KindsOf(plan, key) /\ MayHave(setup, plan, key)
<1>1. plan[r][i] \in Deployed(plan[r])
    BY DEF Deployed
<1>2. plan[r][i].kind \in {s.kind : s \in {t \in Deployed(plan[r]) : key \in t.keys}}
    BY <1>1
<1>3. r \in 1 .. Len(plan)
    BY DEF Runs
<1>4. QED  BY <1>1, <1>2, <1>3 DEF KindsOf, MayHave

\* A function of a sequence's indices is as long.
LEMMA MappedSeq ==
    ASSUME NEW n \in Nat, NEW f, f = [i \in 1 .. n |-> f[i]]
    PROVE  Len(f) = n
OBVIOUS

\* Arguments of kinds that always fit do fit.
LEMMA AlwaysFits ==
    ASSUME NEW n \in Nat, NEW kinds, NEW sets, NEW params,
           kinds = [i \in 1 .. n |-> kinds[i]], sets = [i \in 1 .. n |-> sets[i]],
           \A i \in 1 .. n : kinds[i] \in sets[i], AlwaysFit(sets, params)
    PROVE  Fit(kinds, params)
<1>1. Len(kinds) = n /\ Len(sets) = n
    BY MappedSeq
<1>2. QED  BY <1>1 DEF AlwaysFit, Fit

\* The arguments a run resolves, by the keys its script names.
LEMMA ResolvedKinds ==
    ASSUME OpsTyped, FilesKinded, NEW r \in Runs, NEW step \in Steps
    PROVE  LET args == Resolve(r, step.args)
               kinds == [i \in 1 .. Len(args) |-> args[i].kind]
               sets == [n \in 1 .. Len(step.args) |-> KindsOf(plan, step.args[n])]
           IN  /\ Len(step.args) \in Nat /\ Len(args) = Len(step.args)
               /\ Len(kinds) = Len(step.args) /\ Len(sets) = Len(step.args)
               /\ \A i \in 1 .. Len(step.args) :
                    args[i].kind \in KindsOf(plan, step.args[i])
               /\ \A i \in 1 .. Len(step.args) : kinds[i] = args[i].kind
               /\ \A i \in 1 .. Len(step.args) : sets[i] = KindsOf(plan, step.args[i])
<1> DEFINE args == Resolve(r, step.args)
           n == Len(step.args)
           kinds == [i \in 1 .. Len(args) |-> args[i].kind]
           sets == [i \in 1 .. n |-> KindsOf(plan, step.args[i])]
<1>1. n \in Nat
    BY DEF Steps
<1>2. Kinded(run[r].snap)
    BY DEF FilesKinded
<1> HIDE DEF n
<1>3. args = [i \in 1 .. n |-> Lookup(run[r].snap, step.args[i])]
    BY DEF Resolve, n
<1> HIDE DEF args
<1>4. Len(args) = n /\ \A i \in 1 .. n : args[i] = Lookup(run[r].snap, step.args[i])
    BY <1>1, <1>3
<1>5. \A i \in 1 .. n : args[i].kind \in KindsOf(plan, step.args[i])
    BY <1>2, <1>4, LookupKinded
<1>6. Len(kinds) = n /\ \A i \in 1 .. n : kinds[i] = args[i].kind
    BY <1>1, <1>4
<1>7. Len(sets) = n /\ \A i \in 1 .. n : sets[i] = KindsOf(plan, step.args[i])
    BY <1>1
<1>8. QED  BY <1>1, <1>4, <1>5, <1>6, <1>7 DEF n, args

\* The constructor of a new contract gets what it expects.
LEMMA ConstructorFits ==
    ASSUME OpsTyped, FilesKinded, NEW r \in Runs, Does(r, "deploy"), Known(r, Todo(r).args)
    PROVE  CallFits(NewAddress(Todo(r).kind), "constructor", Resolve(r, Todo(r).args))
<1> DEFINE step == Todo(r)
           args == Resolve(r, step.args)
           n == Len(step.args)
           kinds == [i \in 1 .. Len(args) |-> args[i].kind]
           sets == [i \in 1 .. n |-> KindsOf(plan, step.args[i])]
<1>1. /\ run[r].at \in 1 .. Len(plan[r]) /\ step = plan[r][run[r].at] /\ step.does = "deploy"
    BY PlanFacts DEF Does, Running, Todo, OpsTyped, RunsTyped
<1>2. step \in Steps /\ Fitting(setup, plan, plan[r])
    BY <1>1, PlanFacts
<1>3. /\ n \in Nat /\ Len(args) = n /\ Len(kinds) = n /\ Len(sets) = n
      /\ \A i \in 1 .. n : args[i].kind \in KindsOf(plan, step.args[i])
      /\ \A i \in 1 .. n : kinds[i] = args[i].kind
      /\ \A i \in 1 .. n : sets[i] = KindsOf(plan, step.args[i])
    BY <1>2, ResolvedKinds
<1>4. step.kind \in DOMAIN Constructor => AlwaysFit(sets, Constructor[step.kind])
    BY <1>1, <1>2 DEF Fitting
<1>5. /\ "constructor" \notin DOMAIN Setter /\ "constructor" \notin Grants
      /\ "constructor" \notin PairGrants
    BY DEF Setter, Grants, PairGrants
<1>6. NewAddress(step.kind).kind = step.kind
    BY DEF NewAddress
<1>7. kinds = [i \in 1 .. n |-> kinds[i]] /\ sets = [i \in 1 .. n |-> sets[i]]
    BY <1>3
<1>8. \A i \in 1 .. n : kinds[i] \in sets[i]
    BY <1>3
<1> HIDE DEF sets, n
<1>9. step.kind \in DOMAIN Constructor => Fit(kinds, Constructor[step.kind])
    <2> HIDE DEF kinds
    <2>1. QED  BY <1>3, <1>4, <1>7, <1>8, AlwaysFits
<1>10. QED  BY <1>5, <1>6, <1>9 DEF CallFits

\* So does what a step calls, at once or by way of a Safe.
LEMMA SendCallFits ==
    ASSUME OpsTyped, FilesKinded, NEW r \in Runs, Does(r, "send"), Known(r, Todo(r).args)
    PROVE  /\ Todo(r).fn \notin {"queueTransaction", "executeTransaction"}
           /\ CallFits(Lookup(run[r].snap, Todo(r).to), Todo(r).fn, Resolve(r, Todo(r).args))
<1> DEFINE step == Todo(r)
           args == Resolve(r, step.args)
           n == Len(step.args)
           kinds == [i \in 1 .. Len(args) |-> args[i].kind]
           sets == [i \in 1 .. n |-> KindsOf(plan, step.args[i])]
           to == Lookup(run[r].snap, step.to)
<1>1. /\ run[r].at \in 1 .. Len(plan[r]) /\ step = plan[r][run[r].at] /\ step.does = "send"
    BY PlanFacts DEF Does, Running, Todo, OpsTyped, RunsTyped
<1>2. step \in Steps /\ Fitting(setup, plan, plan[r])
    BY <1>1, PlanFacts
<1>3. /\ n \in Nat /\ Len(args) = n /\ Len(kinds) = n /\ Len(sets) = n
      /\ \A i \in 1 .. n : args[i].kind \in KindsOf(plan, step.args[i])
      /\ \A i \in 1 .. n : kinds[i] = args[i].kind
      /\ \A i \in 1 .. n : sets[i] = KindsOf(plan, step.args[i])
    BY <1>2, ResolvedKinds
<1>4. SendFits(setup, plan, step)
    BY <1>1, <1>2 DEF Fitting
<1>5. \A i \in 1 .. n : MayHave(setup, plan, step.args[i])
    BY LookupKinded DEF Known, FilesKinded
<1>6. to.kind \in KindsOf(plan, step.to)
    BY LookupKinded DEF FilesKinded
<1>7. /\ step.fn \notin {"constructor", "queueTransaction", "executeTransaction"}
      /\ step.fn \in DOMAIN Setter => AlwaysFit(sets, Setter[step.fn])
      /\ step.fn \in Grants =>
           \A i \in 1 .. Len(sets) : AlwaysBuiltToCall(sets[i], KindsOf(plan, step.to))
      /\ step.fn \in PairGrants =>
           \A i \in 1 .. Len(sets) \div 2 : AlwaysBuiltToCall(sets[2 * i], sets[2 * i - 1])
    <2> HIDE DEF step
    <2>1. QED  BY <1>4, <1>5 DEF SendFits
<1>8. kinds = [i \in 1 .. n |-> kinds[i]] /\ sets = [i \in 1 .. n |-> sets[i]]
    BY <1>3
<1>9. \A i \in 1 .. n : kinds[i] \in sets[i]
    BY <1>3
<1> HIDE DEF sets, n, to, kinds, args, step
<1>10. step.fn \in DOMAIN Setter => Fit(kinds, Setter[step.fn])
    BY <1>3, <1>7, <1>8, <1>9, AlwaysFits
<1>11. step.fn \in Grants => \A i \in 1 .. Len(kinds) : BuiltToCall(kinds[i], to.kind)
    BY <1>3, <1>6, <1>7, <1>9 DEF AlwaysBuiltToCall
<1>12. step.fn \in PairGrants => \A i \in 1 .. Len(kinds) \div 2 :
         BuiltToCall(kinds[2 * i], kinds[2 * i - 1])
    <2> SUFFICES ASSUME step.fn \in PairGrants, NEW i \in 1 .. Len(kinds) \div 2
                 PROVE  BuiltToCall(kinds[2 * i], kinds[2 * i - 1])
        OBVIOUS
    <2>1. i \in 1 .. n \div 2 /\ 2 * i \in 1 .. n /\ 2 * i - 1 \in 1 .. n
        BY <1>3
    <2>2. AlwaysBuiltToCall(sets[2 * i], sets[2 * i - 1])
        BY <1>3, <1>7, <2>1
    <2>3. kinds[2 * i] \in sets[2 * i] /\ kinds[2 * i - 1] \in sets[2 * i - 1]
        BY <1>9, <2>1
    <2>4. QED  BY <2>2, <2>3 DEF AlwaysBuiltToCall
<1>13. CallFits(to, step.fn, args)
    BY <1>7, <1>10, <1>11, <1>12 DEF CallFits, kinds
<1>14. QED  BY <1>7, <1>13 DEF to, step, args

\* An upgrade takes what was made for it; the Timelock's queue holds such.
LEMMA TransactionFits ==
    ASSUME OpsTyped, KindInv, NEW r \in Runs, NEW sender, Sends(r, sender),
           NEW tx \in Transactions(r)
    PROVE  TxFits(tx)
<1> DEFINE step == Todo(r)
<1>1. FilesKinded /\ QueueFits
    BY DEF KindInv
<1>2. /\ run[r].at \in 1 .. Len(plan[r]) /\ step = plan[r][run[r].at]
      /\ Does(r, "send") \/ Does(r, "execute")
      /\ Known(r, step.args)
    BY PlanFacts DEF Sends, Does, Running, Todo, OpsTyped, RunsTyped
<1>3. step \in Steps /\ Fitting(setup, plan, plan[r])
    BY <1>2, PlanFacts
<1>4. CASE step.does = "execute"
    <2>1. PICK q \in {p \in queued : p.call.fn = "upgrade"} :
            tx = Tx(r, Original("timelock"), "executeTransaction", <<q.call.proxy, q.call.impl>>, q.eta)
        BY <1>4 DEF Transactions
    <2>2. tx.fn = "executeTransaction" /\ tx.args = <<q.call.proxy, q.call.impl>>
        BY <2>1, TxFields
    <2>3. MayRun(q.call.proxy.kind, q.call.impl.kind)
        BY <1>1 DEF QueueFits
    <2>4. QED  BY <2>2, <2>3 DEF TxFits, Upgrading
<1>5. CASE step.does # "execute" /\ step.fn # "upgrade"
    <2>1. tx = Tx(r, Lookup(run[r].snap, step.to), step.fn, Resolve(r, step.args), 0)
        BY <1>5 DEF Transactions
    <2>2. /\ tx.fn = step.fn /\ tx.args = Resolve(r, step.args)
          /\ tx.to = Lookup(run[r].snap, step.to)
        BY <2>1, TxFields
    <2>3. Does(r, "send")
        BY <1>2, <1>5 DEF Does
    <2>4. /\ step.fn \notin {"queueTransaction", "executeTransaction"}
          /\ CallFits(Lookup(run[r].snap, step.to), step.fn, Resolve(r, step.args))
        BY <1>1, <1>2, <2>3, SendCallFits
    <2>5. QED  BY <1>5, <2>2, <2>4 DEF TxFits, Upgrading
<1>6. CASE step.does # "execute" /\ step.fn = "upgrade"
    <2> DEFINE args == Append(Resolve(r, step.args), run[r].last)
               sets == [i \in 1 .. Len(step.args) |-> KindsOf(plan, step.args[i])]
    <2>1. step.does = "send"
        BY <1>2, <1>6 DEF Does
    <2>2. /\ Follows(plan[r], run[r].at, "implement") /\ Len(sets) = 1
          /\ \A kind \in sets[1] : MayRun(kind, plan[r][run[r].at - 1].kind)
        <3> HIDE DEF step
        <3>1. QED  BY <1>2, <1>3, <1>6, <2>1 DEF Fitting
    <2>3. run[r].last.kind = plan[r][run[r].at - 1].kind
        BY <1>1, <2>2 DEF FilesKinded, NewIsKnown
    <2>4. /\ Len(step.args) = 1 /\ Len(Resolve(r, step.args)) = 1
          /\ Resolve(r, step.args)[1].kind \in KindsOf(plan, step.args[1])
          /\ sets[1] = KindsOf(plan, step.args[1])
        BY <1>1, <1>3, <2>2, ResolvedKinds
    <2>5. args[1] = Resolve(r, step.args)[1] /\ args[2] = run[r].last
        <3>1. Resolve(r, step.args) = [i \in 1 .. 1 |-> Lookup(run[r].snap, step.args[i])]
            BY <2>4 DEF Resolve
        <3>2. PICK x : Resolve(r, step.args) = <<x>>
            <4>1. [i \in 1 .. 1 |-> Lookup(run[r].snap, step.args[i])]
                    = <<Lookup(run[r].snap, step.args[1])>>
                OBVIOUS
            <4>2. QED  BY <3>1, <4>1
        <3>3. args = Append(<<x>>, run[r].last)
            BY <3>2
        <3>4. QED  BY <3>2, <3>3
    <2>6. MayRun(args[1].kind, args[2].kind)
        BY <2>2, <2>3, <2>4, <2>5
    <2> HIDE DEF args
    <2>7. \/ tx = Tx(r, Original("timelock"), "queueTransaction", args, now + MinimumDelay + Slack)
          \/ tx = Tx(r, Original("proxyAdmin"), "upgrade", args, 0)
        BY <1>6 DEF Transactions, args
    <2>8. tx.fn \in {"upgrade", "queueTransaction"} /\ tx.args = args
        BY <2>7, TxFields
    <2>9. QED  BY <2>6, <2>8 DEF TxFits, Upgrading
<1>7. QED  BY <1>4, <1>5, <1>6

\* What a transaction does when it is performed is what fits.
LEMMA OverFits ==
    ASSUME ImplsFit, NEW a, NEW b, MayRun(a.kind, b.kind),
           impl' = Over([proxy \in {a} |-> b], impl)
    PROVE  ImplsFit'
<1> DEFINE f == [proxy \in {a} |-> b]
<1>1. DOMAIN impl' = {a} \cup DOMAIN impl
    BY OverDomain
<1>2. impl'[a] = b
    BY OverFirst
<1>3. ASSUME NEW proxy \in DOMAIN impl, proxy # a
      PROVE  impl'[proxy] = impl[proxy]
    <2>1. proxy \notin DOMAIN f
        BY <1>3
    <2> HIDE DEF f
    <2>2. Over(f, impl)[proxy] = impl[proxy]
        BY <1>3, <2>1, OverSecond
    <2>3. QED  BY <2>2 DEF f
<1>4. QED  BY <1>1, <1>2, <1>3 DEF ImplsFit

LEMMA PerformFits ==
    ASSUME CallsFit, ImplsFit, QueueFits, NEW sender, NEW tx, TxFits(tx), Perform(sender, tx)
    PROVE  CallsFit' /\ ImplsFit' /\ QueueFits'
<1>1. CASE /\ tx.fn = "queueTransaction"
           /\ QueueTransaction(sender, UpgradeCall(tx.args), tx.eta)
           /\ UNCHANGED chainVars
    <2> DEFINE q0 == [call |-> UpgradeCall(tx.args), eta |-> tx.eta, since |-> now]
    <2>1. /\ q0.call = UpgradeCall(tx.args)
          /\ UpgradeCall(tx.args).proxy = tx.args[1] /\ UpgradeCall(tx.args).impl = tx.args[2]
        BY DEF UpgradeCall
    <2>2. queued' \subseteq queued \cup {q0}
        BY <1>1 DEF QueueTransaction
    <2>3. MayRun(q0.call.proxy.kind, q0.call.impl.kind)
        BY <1>1, <2>1 DEF TxFits, Upgrading
    <2> HIDE DEF q0
    <2>4. QueueFits'
        BY <2>2, <2>3 DEF QueueFits
    <2>5. QED  BY <1>1, <2>4 DEF chainVars, CallsFit, ImplsFit
<1>2. CASE /\ tx.fn = "executeTransaction"
           /\ ExecuteTransaction(sender, UpgradeCall(tx.args), tx.eta)
           /\ impl' = Over([proxy \in {tx.args[1]} |-> tx.args[2]], impl)
           /\ UNCHANGED <<calls, handed>>
    <2>1. queued' \subseteq queued
        BY <1>2 DEF ExecuteTransaction, TakeFromQueue, Without
    <2>2. ImplsFit'
        BY <1>2, OverFits DEF TxFits, Upgrading
    <2>3. QED  BY <1>2, <2>1, <2>2 DEF CallsFit, QueueFits
<1>3. CASE /\ tx.fn = "upgrade"
           /\ impl' = Over([proxy \in {tx.args[1]} |-> tx.args[2]], impl)
           /\ UNCHANGED <<calls, handed, timelockVars>>
    <2>1. ImplsFit'
        BY <1>3, OverFits DEF TxFits, Upgrading
    <2>2. QED  BY <1>3, <2>1 DEF CallsFit, QueueFits, timelockVars
<1>4. CASE /\ ~Upgrading(tx.fn)
           /\ calls' = calls \cup {Call(tx.to, tx.fn, tx.args, tx.from)}
           /\ UNCHANGED <<impl, timelockVars>>
    <2> DEFINE c0 == Call(tx.to, tx.fn, tx.args, tx.from)
    <2>1. c0.to = tx.to /\ c0.fn = tx.fn /\ c0.args = tx.args
        BY DEF Call
    <2>2. CallFits(c0.to, c0.fn, c0.args)
        BY <1>4, <2>1 DEF TxFits
    <2> HIDE DEF c0
    <2>3. CallsFit'
        BY <1>4, <2>2 DEF CallsFit, c0
    <2>4. QED  BY <1>4, <2>3 DEF ImplsFit, QueueFits, timelockVars
<1>5. QED  BY <1>1, <1>2, <1>3, <1>4 DEF Perform, Upgrading

\* Files and places in the scripts: a step that makes nothing.
LEMMA KindMoves ==
    ASSUME OpsTyped, OpsTyped', FilesKinded, UNCHANGED <<setup, plan>>, Kinded(file'), NEW r \in Runs,
           NEW steps \in {0, 1, 2}, Moves(r, steps), Kinded(run'[r].snap), KeepsLast(r),
           steps > 0 => Running(r) /\ Todo(r).does \notin {"deploy", "implement"},
           steps = 2 => Todo(r).does = "unless"
    PROVE  FilesKinded'
<1>1. /\ Runs' = Runs /\ run[r].at \in Nat \ {0} /\ run'[r].at = run[r].at + steps
      /\ run'[r].last = run[r].last
    BY DEF Runs, OpsTyped, RunsTyped, Moves, KeepsLast
<1>2. \A f : Kinded(f) => \A key \in DOMAIN f :
        f[key].kind \in KindsOf(plan', key) /\ MayHave(setup', plan', key)
    BY DEF Kinded
<1>3. Kinded(file)'
    BY <1>2 DEF Kinded
<1>4. ASSUME NEW q \in Runs, q # r
      PROVE  Kinded(run[q].snap)' /\ NewIsKnown(q)'
    <2>1. run'[q] = run[q] /\ Kinded(run[q].snap) /\ NewIsKnown(q)
        BY <1>4 DEF Moves, FilesKinded
    <2>2. QED  BY <1>2, <2>1 DEF Kinded, NewIsKnown
<1>5. Kinded(run[r].snap)'
    BY <1>2 DEF Kinded
<1>6. NewIsKnown(r)'
    <2> SUFFICES ASSUME NEW what \in {"deploy", "implement"}, Follows(plan[r], run'[r].at, what)
                 PROVE  run'[r].last.kind = plan[r][run'[r].at - 1].kind
        BY DEF NewIsKnown
    <2>1. CASE steps = 0
        <3>1. run'[r].at = run[r].at
            BY <1>1, <2>1
        <3>2. QED  BY <1>1, <3>1 DEF FilesKinded, NewIsKnown
    <2>2. CASE steps = 1
        <3>1. run'[r].at - 1 = run[r].at
            BY <1>1, <2>2
        <3>2. Todo(r).does = what
            BY <3>1 DEF Follows, Todo
        <3>3. QED  BY <2>2, <3>2
    <2>3. CASE steps = 2
        <3>1. run'[r].at - 2 = run[r].at /\ run'[r].at > 2
            BY <1>1, <2>3
        <3>2. Todo(r).does # "unless"
            BY <3>1 DEF Follows, Todo
        <3>3. QED  BY <2>3, <3>2
    <2>4. QED  BY <2>1, <2>2, <2>3
<1>7. QED  BY <1>1, <1>3, <1>4, <1>5, <1>6 DEF FilesKinded

\* Where the file and the places stay.
LEMMA KindStill ==
    ASSUME FilesKinded, UNCHANGED <<setup, plan, file>>,
           \A r \in Runs : /\ run'[r].snap = run[r].snap \/ run'[r].snap = file
                           /\ run'[r].at = run[r].at /\ run'[r].last = run[r].last
    PROVE  FilesKinded'
<1>1. Runs' = Runs /\ (Kinded(file)' <=> Kinded(file))
    BY DEF Runs, Kinded
<1>2. ASSUME NEW r \in Runs
      PROVE  Kinded(run[r].snap)' /\ NewIsKnown(r)'
    <2>1. Kinded(file) /\ Kinded(run[r].snap) /\ NewIsKnown(r)
        BY DEF FilesKinded
    <2>2. QED  BY <2>1 DEF Kinded, NewIsKnown
<1>3. QED  BY <1>1, <1>2 DEF FilesKinded

\* A new contract, or implementation, is of the kind the script says.
LEMMA KindMake ==
    ASSUME OpsTyped, OpsTyped', FilesKinded, UNCHANGED <<setup, plan, file>>,
           NEW r \in Runs, DeployContract(r) \/ PrepareUpgrade(r)
    PROVE  FilesKinded'
<1>1. RunsTyped
    BY DEF OpsTyped
<1>2. /\ Moves(r, 1) /\ KeepsFile(r) /\ run'[r].last = NewAddress(Todo(r).kind)
    BY <1>1, MakeMoves
<1>3. Runs' = Runs /\ (Kinded(file)' <=> Kinded(file))
    BY DEF Runs, Kinded
<1>4. ASSUME NEW q \in Runs, q # r
      PROVE  Kinded(run[q].snap)' /\ NewIsKnown(q)'
    <2>1. run'[q] = run[q] /\ Kinded(run[q].snap) /\ NewIsKnown(q)
        BY <1>2, <1>4 DEF Moves, FilesKinded
    <2>2. QED  BY <2>1 DEF Kinded, NewIsKnown
<1>5. Kinded(run[r].snap)'
    BY <1>2 DEF Kinded, FilesKinded, KeepsFile
<1>6. NewIsKnown(r)'
    <2>1. run[r].at \in Nat /\ run'[r].at = run[r].at + 1
        BY <1>1, <1>2 DEF RunsTyped, Moves
    <2>2. run'[r].last.kind = Todo(r).kind
        BY <1>2 DEF NewAddress
    <2>3. run'[r].at - 1 = run[r].at
        BY <2>1
    <2>4. QED  BY <2>2, <2>3 DEF NewIsKnown, Todo
<1>7. QED  BY <1>3, <1>4, <1>5, <1>6 DEF FilesKinded

\* What is recorded is what the step before has deployed.
LEMMA KindWrite ==
    ASSUME OpsTyped, OpsTyped', FilesKinded, UNCHANGED <<setup, plan>>,
           NEW r \in Runs, WriteConfigFile(r)
    PROVE  FilesKinded'
<1> DEFINE update == [key \in Todo(r).keys |-> run[r].last]
<1>1. RunsTyped
    BY DEF OpsTyped
<1>2. /\ Moves(r, 1) /\ KeepsLast(r) /\ file' = Over(update, run[r].snap)
      /\ run'[r].snap = Over(update, run[r].snap)
    BY <1>1, WriteMoves
<1>3. /\ run[r].at \in 1 .. Len(plan[r]) /\ Todo(r) = plan[r][run[r].at]
      /\ Todo(r).does = "record" /\ Running(r)
    BY PlanFacts DEF WriteConfigFile, Does, Running, Todo, OpsTyped, RunsTyped
<1>4. Fitting(setup, plan, plan[r])
    BY PlanFacts
<1>5. /\ Follows(plan[r], run[r].at, "deploy")
      /\ plan[r][run[r].at - 1].kind = Todo(r).kind
    BY <1>3, <1>4 DEF Fitting
<1>6. run[r].last.kind = Todo(r).kind
    BY <1>5 DEF FilesKinded, NewIsKnown
<1>7. Kinded(Over(update, run[r].snap))
    <2>1. DOMAIN update = Todo(r).keys /\ \A key \in Todo(r).keys : update[key] = run[r].last
        OBVIOUS
    <2>2. \A key \in Todo(r).keys :
            Todo(r).kind \in KindsOf(plan, key) /\ MayHave(setup, plan, key)
        BY <1>3, RecordKinded
    <2> HIDE DEF update
    <2>3. ASSUME NEW key \in DOMAIN Over(update, run[r].snap)
          PROVE  /\ Over(update, run[r].snap)[key].kind \in KindsOf(plan, key)
                 /\ MayHave(setup, plan, key)
        <3>1. CASE key \in Todo(r).keys
            BY <1>6, <2>1, <2>2, <3>1, OverFirst
        <3>2. CASE key \notin Todo(r).keys
            <4>1. key \in DOMAIN run[r].snap
                <5>1. DOMAIN Over(update, run[r].snap) = DOMAIN update \cup DOMAIN run[r].snap
                    BY OverDomain
                <5>2. QED  BY <2>1, <2>3, <3>2, <5>1
            <4>2. Over(update, run[r].snap)[key] = run[r].snap[key]
                BY <2>1, <3>2, <4>1, OverSecond
            <4>3. QED  BY <4>1, <4>2 DEF FilesKinded, Kinded
        <3>3. QED  BY <3>1, <3>2
    <2>4. QED  BY <2>3 DEF Kinded
<1> HIDE DEF update
<1>8. QED  BY <1>2, <1>3, <1>7, KindMoves

\* The steps of a run.
LEMMA KindRunNext ==
    ASSUME OpsTyped, OpsTyped', KindInv, UNCHANGED <<setup, plan>>, NEW r \in Runs,
           \/ Start(r) \/ Stop(r) \/ DeployContract(r) \/ PrepareUpgrade(r)
           \/ WriteConfigFile(r) \/ GetUpdatePriceData(r) \/ LookUp(r)
           \/ PassExecution(r) \/ SkipUnless(r)
           \/ SendAtOnce(r) \/ ReadNonce(r) \/ ProposeTransaction(r)
    PROVE  KindInv'
<1>1. FilesKinded /\ CallsFit /\ ImplsFit /\ ProposalsFit /\ QueueFits
    BY DEF KindInv
<1>2. RunsTyped
    BY DEF OpsTyped
<1>3. /\ UNCHANGED <<calls, impl, queued>> => CallsFit' /\ ImplsFit' /\ QueueFits'
      /\ UNCHANGED proposals => ProposalsFit'
    BY <1>1 DEF CallsFit, ImplsFit, QueueFits, ProposalsFit
<1>4. ASSUME FilesKinded', UNCHANGED <<proposals, calls, impl, queued>>
      PROVE  KindInv'
    BY <1>3, <1>4 DEF KindInv
<1>5. Kinded(file) /\ \A q \in Runs : Kinded(run[q].snap)
    BY <1>1 DEF FilesKinded
<1>6. CASE Start(r) \/ Stop(r)
    <2>1. UNCHANGED <<file, proposals, calls, impl, queued>>
        BY <1>6 DEF Start, Stop, chainVars, timelockVars
    <2>2. \A q \in Runs : /\ run'[q].snap = run[q].snap \/ run'[q].snap = file
                          /\ run'[q].at = run[q].at /\ run'[q].last = run[q].last
        <3>1. CASE Start(r)
            BY <1>2, <3>1, StartMoves DEF KeepsFile, KeepsLast
        <3>2. CASE Stop(r)
            BY <1>2, <3>2, StopMoves DEF KeepsFile, KeepsLast
        <3>3. QED  BY <1>6, <3>1, <3>2
    <2>3. FilesKinded'
        BY <1>1, <2>1, <2>2, KindStill
    <2>4. QED  BY <1>4, <2>1, <2>3
<1>7. CASE PrepareUpgrade(r)
    <2>1. UNCHANGED <<file, proposals, calls, impl, queued>>
        BY <1>7 DEF PrepareUpgrade, chainVars, timelockVars
    <2>2. QED  BY <1>1, <1>4, <1>7, <2>1, KindMake
<1>8. CASE DeployContract(r)
    <2>1. UNCHANGED <<file, proposals, impl, queued>>
        BY <1>8 DEF DeployContract, timelockVars
    <2>2. FilesKinded'
        BY <1>1, <1>8, <2>1, KindMake
    <2> DEFINE c0 == Call(NewAddress(Todo(r).kind), "constructor", Resolve(r, Todo(r).args), r)
    <2>3. calls' = calls \cup {c0}
        BY <1>8 DEF DeployContract
    <2>4. CallFits(c0.to, c0.fn, c0.args)
        <3>1. /\ c0.to = NewAddress(Todo(r).kind) /\ c0.fn = "constructor"
              /\ c0.args = Resolve(r, Todo(r).args)
            BY DEF Call
        <3> HIDE DEF c0
        <3>2. Does(r, "deploy") /\ Known(r, Todo(r).args)
            BY <1>8 DEF DeployContract
        <3>3. QED  BY <1>1, <3>1, <3>2, ConstructorFits
    <2> HIDE DEF c0
    <2>5. CallsFit'
        BY <1>1, <2>3, <2>4 DEF CallsFit
    <2>6. ImplsFit' /\ ProposalsFit' /\ QueueFits'
        BY <1>1, <2>1 DEF ImplsFit, QueueFits, ProposalsFit
    <2>7. QED  BY <2>2, <2>5, <2>6 DEF KindInv
<1>9. CASE WriteConfigFile(r)
    <2>1. UNCHANGED <<proposals, calls, impl, queued>>
        BY <1>9 DEF WriteConfigFile, chainVars, timelockVars
    <2>2. QED  BY <1>1, <1>4, <1>9, <2>1, KindWrite
<1>10. CASE \/ GetUpdatePriceData(r) \/ LookUp(r) \/ PassExecution(r) \/ SkipUnless(r) \/ SendAtOnce(r)
            \/ ReadNonce(r) \/ ProposeTransaction(r)
    <2>1. file' = file
        BY <1>10 DEF GetUpdatePriceData, LookUp,
            PassExecution, SkipUnless, SendAtOnce, ReadNonce, ProposeTransaction
    <2>2. Running(r) /\ Todo(r).does \notin {"deploy", "implement"}
        BY <1>10 DEF GetUpdatePriceData, LookUp, PassExecution, SkipUnless, SendAtOnce, ReadNonce,
            ProposeTransaction, Sends, Does
    <2>3. /\ KeepsFile(r) /\ KeepsLast(r)
          /\ Moves(r, 0) \/ Moves(r, 1) \/ (Moves(r, 2) /\ Todo(r).does = "unless")
        <3>1. CASE \/ GetUpdatePriceData(r) \/ LookUp(r) \/ SkipUnless(r)
                   \/ SendAtOnce(r) \/ PassExecution(r)
            <4>1. /\ Moves(r, 1) \/ (Does(r, "unless") /\ Moves(r, 2))
                  /\ KeepsFile(r) /\ KeepsLast(r)
                BY <1>2, <3>1, PassMoves
            <4>2. QED  BY <4>1 DEF Does
        <3>2. CASE ReadNonce(r)
            BY <1>2, <3>2, ReadMoves
        <3>3. CASE ProposeTransaction(r)
            BY <1>2, <3>3, ProposeMoves
        <3>4. QED  BY <1>10, <3>1, <3>2, <3>3
    <2>4. Kinded(file') /\ Kinded(run'[r].snap)
        BY <1>5, <2>1, <2>3 DEF KeepsFile
    <2>5. FilesKinded'
        BY <1>1, <2>2, <2>3, <2>4, KindMoves
    <2>6. CASE \/ GetUpdatePriceData(r) \/ LookUp(r)
               \/ PassExecution(r) \/ SkipUnless(r) \/ ReadNonce(r)
        <3>1. UNCHANGED <<proposals, calls, impl, queued>>
            BY <2>6 DEF GetUpdatePriceData, LookUp,
            PassExecution, SkipUnless, ReadNonce, chainVars, timelockVars
        <3>2. QED  BY <1>4, <2>5, <3>1
    <2>7. CASE SendAtOnce(r)
        <3>1. PICK tx \in Transactions(r) : Perform("deployer", tx)
            BY <2>7 DEF SendAtOnce
        <3>2. Sends(r, "deployer") /\ UNCHANGED proposals
            BY <2>7 DEF SendAtOnce
        <3>3. TxFits(tx)
            BY <3>2, TransactionFits
        <3>4. CallsFit' /\ ImplsFit' /\ QueueFits'
            BY <1>1, <3>1, <3>3, PerformFits
        <3>5. QED  BY <1>3, <2>5, <3>2, <3>4 DEF KindInv
    <2>8. CASE ProposeTransaction(r)
        <3>1. PICK safe \in Safes, tx \in Transactions(r) :
                /\ Sends(r, safe)
                /\ proposals' = proposals \cup {[safe |-> safe, nonce |-> run[r].nonce, tx |-> tx,
                                                 at |-> run[r].at, chosen |-> run[r].chosen]}
            BY <2>8 DEF ProposeTransaction
        <3>2. TxFits(tx)
            BY <3>1, TransactionFits
        <3>3. ProposalsFit'
            BY <1>1, <3>1, <3>2 DEF ProposalsFit
        <3>4. UNCHANGED <<calls, impl, queued>>
            BY <2>8 DEF ProposeTransaction, chainVars, timelockVars
        <3>5. QED  BY <1>3, <2>5, <3>3, <3>4 DEF KindInv
    <2>9. QED  BY <1>10, <2>6, <2>7, <2>8
<1>11. QED  BY <1>6, <1>7, <1>8, <1>9, <1>10

LEMMA KindNext ==
    ASSUME OpsTyped, OpsTyped', TimelockInv, KindInv, [Next]_vars
    PROVE  KindInv'
<1>1. FilesKinded /\ CallsFit /\ ImplsFit /\ ProposalsFit /\ QueueFits
    BY DEF KindInv
<1>2. UNCHANGED <<setup, plan>> /\ DOMAIN run = Runs
    BY NextTyped DEF OpsTyped, RunsTyped
<1>3. ASSUME UNCHANGED <<file, run>>
      PROVE  FilesKinded'
    BY <1>1, <1>2, <1>3, KindStill
<1>4. CASE \E safe \in Safes : ExecuteTransactionOf(safe)
    <2>1. PICK safe \in Safes, p \in proposals :
            Perform(safe, p.tx) /\ proposals' \subseteq proposals /\ UNCHANGED <<file, run>>
        BY <1>4 DEF ExecuteTransactionOf
    <2>2. CallsFit' /\ ImplsFit' /\ QueueFits'
        BY <1>1, <2>1, PerformFits DEF ProposalsFit
    <2>3. ProposalsFit'
        BY <1>1, <2>1 DEF ProposalsFit
    <2>4. QED  BY <1>3, <2>1, <2>2, <2>3 DEF KindInv
<1>5. CASE ByHand
    <2>1. UNCHANGED <<file, run, proposals, calls, impl>>
        BY <1>5 DEF ByHand, opsVars, chainVars
    <2>2. ASSUME NEW q \in queued', q \notin queued
          PROVE  q.call.fn # "upgrade"
        <3>1. PICK sender \in Accounts :
                \/ AcceptAdmin(sender)
                \/ \E call \in SetDelayCalls \cup SetAdminCalls :
                     \/ \E eta \in Etas : QueueTransaction(sender, call, eta)
                     \/ \E x \in queued : CancelTransaction(sender, x.call, x.eta)
                     \/ \E x \in queued : ExecuteTransaction(sender, x.call, x.eta)
            BY <1>5 DEF ByHand
        <3>2. CASE AcceptAdmin(sender)
            BY <2>2, <3>2 DEF AcceptAdmin
        <3>3. ASSUME NEW c, NEW e, CancelTransaction(sender, c, e) \/ ExecuteTransaction(sender, c, e)
              PROVE  queued' \subseteq queued
            BY <3>3 DEF CancelTransaction, ExecuteTransaction, TakeFromQueue, Without
        <3>4. ASSUME NEW c \in SetDelayCalls \cup SetAdminCalls, NEW eta,
                     QueueTransaction(sender, c, eta)
              PROVE  q.call.fn # "upgrade"
            <4>1. q = [call |-> c, eta |-> eta, since |-> now]
                BY <2>2, <3>4 DEF QueueTransaction
            <4>2. c.fn \in {"setDelay", "setPendingAdmin"}
                BY DEF SetDelayCalls, SetAdminCalls
            <4>3. QED  BY <4>1, <4>2
        <3>5. QED  BY <2>2, <3>1, <3>2, <3>3, <3>4
    <2>3. QueueFits'
        BY <1>1, <2>2 DEF QueueFits
    <2>4. CallsFit' /\ ImplsFit' /\ ProposalsFit'
        BY <1>1, <2>1 DEF CallsFit, ImplsFit, ProposalsFit
    <2>5. QED  BY <1>3, <2>1, <2>3, <2>4 DEF KindInv
<1>6. CASE TimePasses \/ UNCHANGED vars
    <2>1. UNCHANGED <<file, run, proposals, calls, impl, queued>>
        BY <1>6 DEF TimePasses, Tick, vars, opsVars, chainVars, timelockVars
    <2>2. CallsFit' /\ ImplsFit' /\ ProposalsFit' /\ QueueFits'
        BY <1>1, <2>1 DEF CallsFit, ImplsFit, ProposalsFit, QueueFits
    <2>3. QED  BY <1>3, <2>1, <2>2 DEF KindInv
<1>7. QED  BY <1>2, <1>4, <1>5, <1>6, KindRunNext DEF Next

\* Contracts are built and set up with what they expect, and proxies run what has
\* their interface, however the runs of the scripts interleave, stop or fail in
\* between: from scripts that are in order each by itself (script/ts).
THEOREM KindsDoFit == Spec => []KindsFit
<1>1. Init => KindInv
    BY KindInit
<1>2. OpsTyped /\ TimelockInv /\ FileInv /\ KindInv /\ [Next]_vars
        /\ (OpsTyped /\ TimelockInv /\ FileInv)' => KindInv'
    BY KindNext
<1>3. KindInv => KindsFit
    <2> SUFFICES ASSUME KindInv  PROVE KindsFit
        OBVIOUS
    <2>1. \A c \in calls : CallFits(c.to, c.fn, c.args)
        BY DEF KindInv, CallsFit
    <2>2. \A proxy \in DOMAIN impl : MayRun(proxy.kind, impl[proxy].kind)
        BY DEF KindInv, ImplsFit
    <2>3. QED  BY <2>1, <2>2 DEF KindsFit, CallFits
<1>4. QED  BY <1>1, <1>2, <1>3, OpsInvariant, PTL DEF Spec
=============================================================================
