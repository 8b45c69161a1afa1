------------------------------ MODULE Timelock ------------------------------
(***************************************************************************)
(* src/contracts/Timelock.sol: the contract that may own the ProxyAdmin.    *)
(* Its admin queues a call with the time (eta) it may be made from, and     *)
(* makes it once that time has come and a grace period is not over.  The    *)
(* Timelock is its own owner: its delay and its admin change only by calls  *)
(* that were queued themselves.                                             *)
(*                                                                          *)
(* The contract keeps one flag per hash of call and eta; `queued' holds the *)
(* pairs whose flag is set.  `since' of a pair and `executed' are history:  *)
(* when the pair was queued, and what has been executed when.               *)
(***************************************************************************)
EXTENDS Integers

CONSTANTS
    MinimumDelay, MaximumDelay, GracePeriod,
    Accounts,       \* who may call
    OutsideCalls,   \* calls to other contracts
    Delays,         \* the delays setDelay is called with
    Etas,           \* the etas a call is queued with
    MaxTime         \* bound: time does not pass it

Self == "timelock"
SetDelayCalls == [fn : {"setDelay"}, arg : Delays]
SetAdminCalls == [fn : {"setPendingAdmin"}, arg : Accounts]
Calls == OutsideCalls \cup SetDelayCalls \cup SetAdminCalls

ASSUME DelayAssumption ==
    /\ MinimumDelay \in Nat \ {0} /\ MaximumDelay \in Nat /\ GracePeriod \in Nat
    /\ Delays \subseteq Int /\ Etas \subseteq Int /\ MaxTime \in Nat
ASSUME CallAssumption ==
    \A c \in OutsideCalls : c \notin SetDelayCalls /\ c \notin SetAdminCalls

VARIABLES
    admin, pendingAdmin, delay,
    queued,     \* the pairs of call and eta whose flag is set, and since when
    executed,   \* history: the pairs executed, and when
    now
timelockVars == <<admin, pendingAdmin, delay, queued, executed, now>>

NoAdmin == "none"
IsPair(q, call, eta) == q.call = call /\ q.eta = eta
IsQueued(call, eta) == \E q \in queued : IsPair(q, call, eta)

\* constructor
TimelockInit(admin_, delay_) ==
    /\ delay_ >= MinimumDelay /\ delay_ <= MaximumDelay
    /\ admin = admin_ /\ delay = delay_
    /\ pendingAdmin = NoAdmin
    /\ queued = {} /\ executed = {}
    /\ now = 0

\* Mutant: the eta only has to lie ahead.
AnyEtaAhead(eta) == eta >= now
FarEnough(eta) == eta >= now + delay
QueueTransaction(sender, call, eta) ==
    /\ sender = admin
    /\ FarEnough(eta)
    /\ queued' = IF IsQueued(call, eta) THEN queued
                 ELSE queued \cup {[call |-> call, eta |-> eta, since |-> now]}
    /\ UNCHANGED <<admin, pendingAdmin, delay, executed, now>>

\* Mutant: the flag is not reset.
StillWith(call, eta) == queued
Without(call, eta) == {q \in queued : ~IsPair(q, call, eta)}
CancelTransaction(sender, call, eta) ==
    /\ sender = admin
    /\ queued' = Without(call, eta)
    /\ UNCHANGED <<admin, pendingAdmin, delay, executed, now>>

\* executeTransaction up to the call it makes
TakeFromQueue(sender, call, eta) ==
    /\ sender = admin
    /\ now >= eta /\ now <= eta + GracePeriod
    /\ \E q \in queued :
        /\ IsPair(q, call, eta)
        /\ executed' = executed \cup {[call |-> call, eta |-> eta, since |-> q.since, at |-> now]}
    /\ queued' = Without(call, eta)
    /\ UNCHANGED now

SetDelay(sender, delay_) ==
    /\ sender = Self
    /\ delay_ >= MinimumDelay /\ delay_ <= MaximumDelay
    /\ delay' = delay_
    /\ UNCHANGED <<admin, pendingAdmin>>

SetPendingAdmin(sender, admin_) ==
    /\ sender = Self
    /\ pendingAdmin' = admin_
    /\ UNCHANGED <<admin, delay>>

AcceptAdmin(sender) ==
    /\ sender = pendingAdmin
    /\ admin' = sender
    /\ pendingAdmin' = NoAdmin
    /\ UNCHANGED <<delay, queued, executed, now>>

\* The call executeTransaction makes: to the Timelock itself, or to another contract.
ExecuteTransaction(sender, call, eta) ==
    /\ TakeFromQueue(sender, call, eta)
    /\ \/ call \in SetDelayCalls /\ SetDelay(Self, call.arg)
       \/ call \in SetAdminCalls /\ SetPendingAdmin(Self, call.arg)
       \/ call \in OutsideCalls /\ UNCHANGED <<admin, pendingAdmin, delay>>

Tick == /\ now < MaxTime
        /\ now' = now + 1
        /\ UNCHANGED <<admin, pendingAdmin, delay, queued, executed>>

TimelockNext ==
    \/ Tick
    \/ \E sender \in Accounts :
        \/ AcceptAdmin(sender)
        \/ \E call \in Calls, eta \in Etas :
            \/ QueueTransaction(sender, call, eta)
            \/ CancelTransaction(sender, call, eta)
            \/ ExecuteTransaction(sender, call, eta)

TimelockSpec == (\E a \in Accounts, d \in Delays : TimelockInit(a, d))
                /\ [][TimelockNext]_timelockVars

-----------------------------------------------------------------------------
TimelockTypeOK ==
    /\ admin \in Accounts /\ pendingAdmin \in Accounts \cup {NoAdmin}
    /\ delay \in MinimumDelay .. MaximumDelay
    /\ queued \subseteq [call : Calls, eta : Int, since : Nat]
    /\ executed \subseteq [call : Calls, eta : Int, since : Nat, at : Nat]
    /\ now \in Nat

\* What is executed was public for the minimum delay at least, whatever the
\* delay was set to in between, and is not older than the grace period.
DelayHonoured == \A e \in executed : /\ e.at >= e.since + MinimumDelay
                                     /\ e.at <= e.eta + GracePeriod

\* A pair that has been executed is never queued again, so it is executed once:
\* its eta has passed, and a new one must lie a delay ahead.
ExecutedOnce == \A e \in executed : ~IsQueued(e.call, e.eta)
=============================================================================
