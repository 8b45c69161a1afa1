------------------------------ MODULE Operations ------------------------------
(***************************************************************************)
(* The scripts of script/ts at work: several runs of scripts, by the people *)
(* who keep the deployer's key, over one configuration file, one chain and  *)
(* the queues of the Safes; with the wrappers that decide how a call is     *)
(* made, and the Timelock that may own the ProxyAdmin.  A run may overlap   *)
(* with others and may stop between any two of its steps.                   *)
(*                                                                          *)
(* An address is a record of the kind of contract and a number: 0 for what  *)
(* the file names in the beginning, then counting what is deployed.         *)
(***************************************************************************)
EXTENDS DeployScripts, UpgradeScripts, ConfigScripts, CommandScripts, Contracts,
        Timelock, FiniteSets

CONSTANTS
    Plans,      \* sequences of scripts: the runs that take place, by their start
    Setups,     \* who owns what, and the keys the file has no address for
    Slack,      \* what ProxyAdminWrapper adds to the minimum delay
    Options,    \* the nonces an operator may ask for
    MaxQueued   \* bound: what the admin of the Timelock queues by hand

Safes == {"safe", "treasury"}
NoNonce == -1
NoAddress == [kind |-> "", n |-> 0]
Literals == {"btc", "usdc", "usdt", "bulkSend"}

VARIABLES
    setup, plan,
    file,       \* what the configuration file says other than in the beginning
    run,        \* the runs: see NotStarted
    made,       \* number of contracts deployed
    impl,       \* the implementations of the proxies upgraded
    calls,      \* history: the calls made
    handed,     \* the contracts whose ownership was transferred to the Safe
    nonces,     \* the nonces of the Safes on chain
    proposals   \* what waits to be executed by a Safe
chainVars == <<impl, calls, handed>>
opsVars == <<setup, plan, file, run, made, nonces, proposals>>
vars == <<opsVars, chainVars, timelockVars>>

NotStarted == [
    status |-> "waiting", at |-> 1,     \* the next step of the script
    snap |-> <<>>,                      \* the file, as read at the start
    last |-> NoAddress,                 \* what it has deployed last
    saw |-> {},                         \* what it has looked at
    nonce |-> NoNonce, option |-> NoNonce, chosen |-> FALSE,
    \* history: the runs it overlaps with, and what it wrote
    with |-> {}, wrote |-> <<>>]

-----------------------------------------------------------------------------
(* The configuration file.                                                 *)

Catalog == AllDeployments \cup AllUpgrades \cup AllSettings \cup AllCommands
Deployed(script) == {script[i] : i \in {j \in 1 .. Len(script) : script[j].does = "record"}}
Records == UNION {Deployed(script) : script \in AllDeployments}
Written == UNION {s.keys : s \in Records}
KindOf == [key \in Written |-> (CHOOSE s \in Records : key \in s.keys).kind]
Original(key) == [kind |-> IF key \in Written THEN KindOf[key] ELSE key, n |-> 0]
Lookup(f, key) == IF key \in DOMAIN f THEN f[key] ELSE Original(key)
HasAddress(f, key) == key \in DOMAIN f \/ key \in Literals \/ key \notin setup.absent

-----------------------------------------------------------------------------
(* What is assumed of the runs: each script by itself is in order.          *)

\* The step before does this, and is not left out.
Follows(script, i, what) ==
    i > 1 /\ script[i - 1].does = what /\ (i > 2 => script[i - 2].does # "unless")
InOrder(script) == \A i \in 1 .. Len(script) :
    /\ script[i].does = "record" => script[i].keys # {}
    /\ script[i].does \in {"send", "execute"} => script[i].by \in Ways

\* The kinds of contract a key may stand for while the scripts of p run, and
\* whether there can be an address for it.
KindsOf(p, key) == {Original(key).kind} \cup
    UNION {{s.kind : s \in {t \in Deployed(p[r]) : key \in t.keys}} : r \in 1 .. Len(p)}
MayHave(s, p, key) == \/ key \in Literals \/ key \notin s.absent
                      \/ \E r \in 1 .. Len(p) : \E t \in Deployed(p[r]) : key \in t.keys

\* Whichever of those contracts a step comes upon, it passes, allows and
\* upgrades to what fits.
AlwaysFit(kinds, params) ==
    \/ Len(kinds) = Len(params) /\ \A i \in 1 .. Len(kinds) : kinds[i] \subseteq params[i]
    \/ Len(params) = 1 /\ \A i \in 1 .. Len(kinds) : kinds[i] \subseteq params[1]
AlwaysBuiltToCall(kinds, callees) == \A kind \in kinds, callee \in callees : BuiltToCall(kind, callee)
SendFits(s, p, step) ==
    LET kinds == [n \in 1 .. Len(step.args) |-> KindsOf(p, step.args[n])]
    IN  /\ step.fn \notin {"constructor", "queueTransaction", "executeTransaction"}
        /\ (\A n \in 1 .. Len(step.args) : MayHave(s, p, step.args[n])) =>
            /\ step.fn \in DOMAIN Setter => AlwaysFit(kinds, Setter[step.fn])
            /\ step.fn \in Grants =>
                 \A n \in 1 .. Len(kinds) : AlwaysBuiltToCall(kinds[n], KindsOf(p, step.to))
            /\ step.fn \in PairGrants =>
                 \A n \in 1 .. Len(kinds) \div 2 : AlwaysBuiltToCall(kinds[2 * n], kinds[2 * n - 1])
Fitting(s, p, script) == \A i \in 1 .. Len(script) :
    LET step == script[i]
        kinds == [n \in 1 .. Len(step.args) |-> KindsOf(p, step.args[n])]
    IN  /\ step.does = "deploy" /\ step.kind \in DOMAIN Constructor =>
             AlwaysFit(kinds, Constructor[step.kind])
        /\ step.does = "record" => /\ Follows(script, i, "deploy")
                                   /\ script[i - 1].kind = step.kind
        /\ step.does = "send" => SendFits(s, p, step)
        /\ step.does = "send" /\ step.fn = "upgrade" =>
             /\ Follows(script, i, "implement") /\ Len(kinds) = 1
             /\ \A kind \in kinds[1] : MayRun(kind, script[i - 1].kind)

ASSUME PlanAssumption ==
    /\ Plans \subseteq Seq(Seq(Steps)) /\ Options \subseteq Nat /\ Slack \in Nat
    /\ \A p \in Plans : \A r \in 1 .. Len(p) :
         InOrder(p[r]) /\ \A s \in Setups : Fitting(s, p, p[r])
ASSUME SetupAssumption == \A s \in Setups : s.delay \in Int

-----------------------------------------------------------------------------
(* The runs.                                                               *)

Running(r) == run[r].status = "running" /\ run[r].at <= Len(plan[r])
Todo(r) == plan[r][run[r].at]
Does(r, what) == Running(r) /\ Todo(r).does = what
Known(r, keys) == \A i \in 1 .. Len(keys) : HasAddress(run[r].snap, keys[i])
Resolve(r, keys) == [i \in 1 .. Len(keys) |-> Lookup(run[r].snap, keys[i])]
Went(r, steps, changed) ==
    run' = [run EXCEPT ![r] = [changed EXCEPT !.at = @ + steps]]

\* main() starts: the file is read when the module is loaded.
Start(r) ==
    LET others == {q \in DOMAIN run : Running(q)}
    IN  /\ run[r].status = "waiting"
        /\ \A q \in 1 .. r - 1 : run[q].status # "waiting"
        /\ run' = [q \in DOMAIN run |->
             IF q = r THEN [run[q] EXCEPT !.status = "running", !.snap = file, !.with = others]
             ELSE IF q \in others THEN [run[q] EXCEPT !.with = @ \cup {r}] ELSE run[q]]
        /\ UNCHANGED <<setup, plan, file, made, nonces, proposals, chainVars, timelockVars>>

\* Whatever ends a run early: a call that fails, an answer of "n", a crash.
Stop(r) ==
    /\ Running(r)
    /\ run' = [run EXCEPT ![r].status = "stopped"]
    /\ UNCHANGED <<setup, plan, file, made, nonces, proposals, chainVars, timelockVars>>

NewAddress(kind) == [kind |-> kind, n |-> made + 1]
Call(to, fn, args, r) == [to |-> to, fn |-> fn, args |-> args, from |-> r]
DeployContract(r) ==
    /\ Does(r, "deploy") /\ Known(r, Todo(r).args)
    /\ LET address == NewAddress(Todo(r).kind)
       IN  /\ Went(r, 1, [run[r] EXCEPT !.last = address])
           /\ calls' = calls \cup {Call(address, "constructor", Resolve(r, Todo(r).args), r)}
    /\ made' = made + 1
    /\ UNCHANGED <<setup, plan, file, nonces, proposals, impl, handed, timelockVars>>

\* Mutant: the address of the new implementation is not taken.
ForgetUpgrade(r) ==
    /\ Does(r, "implement")
    /\ Went(r, 1, run[r])
    /\ made' = made + 1
    /\ UNCHANGED <<setup, plan, file, nonces, proposals, chainVars, timelockVars>>
PrepareUpgrade(r) ==
    /\ Does(r, "implement")
    /\ Went(r, 1, [run[r] EXCEPT !.last = NewAddress(Todo(r).kind)])
    /\ made' = made + 1
    /\ UNCHANGED <<setup, plan, file, nonces, proposals, chainVars, timelockVars>>

\* writeConfigFile: the whole file, as this run read it and has changed it.
\* Mutant: only what has changed.
Over(f, g) == [x \in DOMAIN f \cup DOMAIN g |-> IF x \in DOMAIN f THEN f[x] ELSE g[x]]
OnlyUpdate(snap, update) == update
WholeFile(snap, update) == Over(update, snap)
WriteConfigFile(r) ==
    /\ Does(r, "record")
    /\ LET update == [key \in Todo(r).keys |-> run[r].last]
       IN  /\ file' = WholeFile(run[r].snap, update)
           /\ Went(r, 1, [run[r] EXCEPT !.snap = file', !.wrote = Over(update, run[r].wrote)])
    /\ UNCHANGED <<setup, plan, made, nonces, proposals, chainVars, timelockVars>>

-----------------------------------------------------------------------------
(* What a run reads before it acts.                                        *)

\* The prices of the moment, as a contract of the file puts them together.
GetUpdatePriceData(r) ==
    /\ Does(r, "fetch") /\ HasAddress(run[r].snap, Todo(r).to)
    /\ Went(r, 1, run[r])
    /\ UNCHANGED <<setup, plan, file, made, nonces, proposals, chainVars, timelockVars>>

CallsOf(to, fn) == {c \in calls : c.to = to /\ c.fn = fn}
LookUp(r) ==
    /\ Does(r, "look") /\ HasAddress(run[r].snap, Todo(r).to)
    /\ LET seen == CallsOf(Lookup(run[r].snap, Todo(r).to), Todo(r).fn)
       IN  Went(r, 1, [run[r] EXCEPT !.saw = {c.from : c \in seen}])
    /\ UNCHANGED <<setup, plan, file, made, nonces, proposals, chainVars, timelockVars>>

SkipUnless(r) ==
    /\ Does(r, "unless") /\ HasAddress(run[r].snap, Todo(r).to)
    /\ LET made_ == CallsOf(Lookup(run[r].snap, Todo(r).to), Todo(r).fn)
       IN  Went(r, IF made_ = {} THEN 1 ELSE 2, run[r])
    /\ UNCHANGED <<setup, plan, file, made, nonces, proposals, chainVars, timelockVars>>

-----------------------------------------------------------------------------
(* Calls, and what they do on chain.                                       *)

Owner(address) ==
    IF address = Original("proxyAdmin") THEN setup.proxyAdmin
    ELSE IF address \in handed THEN "safe"
    ELSE IF address.n > 0 THEN "deployer" ELSE setup.owner

UpgradeCall(args) == [fn |-> "upgrade", proxy |-> args[1], impl |-> args[2]]

\* The transaction a step has made, and what a contract refuses it for.
Tx(r, to, fn, args, eta) ==
    [to |-> to, fn |-> fn, args |-> args, form |-> Todo(r).form, eta |-> eta,
     from |-> r, saw |-> run[r].saw]
Refused(sender, tx) ==
    \/ "owned" \in tx.form /\ sender # Owner(tx.to)
    \/ "once" \in tx.form /\ CallsOf(tx.to, tx.fn) # {}
    \/ "spend" \in tx.form /\ \E c \in CallsOf(tx.to, tx.fn) : c.from \notin tx.saw \cup {tx.from}

Perform(sender, tx) ==
    \/ /\ tx.fn = "queueTransaction"
       /\ QueueTransaction(sender, UpgradeCall(tx.args), tx.eta)
       /\ UNCHANGED chainVars
    \/ /\ tx.fn = "executeTransaction"
       /\ ExecuteTransaction(sender, UpgradeCall(tx.args), tx.eta)
       /\ impl' = Over([proxy \in {tx.args[1]} |-> tx.args[2]], impl)
       /\ UNCHANGED <<calls, handed>>
    \/ /\ tx.fn = "upgrade" /\ sender = setup.proxyAdmin
       /\ impl' = Over([proxy \in {tx.args[1]} |-> tx.args[2]], impl)
       /\ UNCHANGED <<calls, handed, timelockVars>>
    \/ /\ tx.fn \notin {"queueTransaction", "executeTransaction", "upgrade"}
       /\ ~Refused(sender, tx)
       /\ calls' = calls \cup {Call(tx.to, tx.fn, tx.args, tx.from)}
       /\ handed' = IF tx.fn = "transferOwnership" THEN handed \cup {tx.to} ELSE handed
       /\ UNCHANGED <<impl, timelockVars>>

\* OwnerWrapper.authExec
AuthExec(owner) == IF owner \in {"deployer", "safe"} THEN owner ELSE "nobody"

\* TimelockWrapper: the call goes by way of the admin, if that is one it knows.
ByAdmin == IF admin \in {"deployer", "safe"} THEN admin ELSE "nobody"

\* ProxyAdminWrapper.upgrade; the Timelock is the one the file names.
IsTimelock(r) == HasAddress(run[r].snap, "timelock")
                 /\ Lookup(run[r].snap, "timelock") = Original("timelock")
UpgradeIn(r) ==
    CASE setup.proxyAdmin \in {"safe", "deployer"} -> setup.proxyAdmin
      [] setup.proxyAdmin = "timelock" /\ IsTimelock(r) -> ByAdmin
      [] OTHER -> "nobody"

\* Who sends the call a step makes: the deployer at once, a Safe as a proposal.
Sender(r) ==
    LET by == Todo(r).by
        owner == Owner(Lookup(run[r].snap, Todo(r).to))
    IN  CASE by \in {"deployer", "anyone"} -> "deployer"
          [] by \in {"safe", "safeAtNonce"} -> "safe"
          [] by = "treasury" -> "treasury"
          [] by = "owner" -> AuthExec(owner)
          [] by = "ownerIsSafe" -> IF owner = "safe" THEN "safe" ELSE "deployer"
          [] by = "ownerIsSafeMisproposed" -> IF owner = "safe" THEN "nobody" ELSE "deployer"
          [] by = "misproposed" -> "nobody"
          [] by = "proxyAdmin" -> UpgradeIn(r)
          [] by = "timelock" -> ByAdmin

\* The transactions the step of a run may make.
Transactions(r) ==
    LET step == Todo(r)
        timelock == Original("timelock")
    IN  IF step.does = "execute"
        THEN {Tx(r, timelock, "executeTransaction", <<q.call.proxy, q.call.impl>>, q.eta) :
                q \in {p \in queued : p.call.fn = "upgrade"}}
        ELSE IF step.fn # "upgrade"
        THEN {Tx(r, Lookup(run[r].snap, step.to), step.fn, Resolve(r, step.args), 0)}
        ELSE LET args == Append(Resolve(r, step.args), run[r].last)
             IN  IF step.by = "proxyAdmin" /\ setup.proxyAdmin = "timelock"
                 THEN {Tx(r, timelock, "queueTransaction", args, now + MinimumDelay + Slack)}
                 ELSE {Tx(r, Original("proxyAdmin"), "upgrade", args, 0)}

Sends(r, sender) ==
    /\ Does(r, "send") \/ Does(r, "execute")
    /\ Known(r, Todo(r).args)
    /\ HasAddress(run[r].snap, Todo(r).to)
    /\ Sender(r) = sender

SendAtOnce(r) ==
    /\ Sends(r, "deployer")
    /\ \E tx \in Transactions(r) : Perform("deployer", tx)
    /\ Went(r, 1, run[r])
    /\ UNCHANGED <<setup, plan, file, made, nonces, proposals>>

\* TimelockWrapper.executeTransaction, where the admin is one it does not know:
\* nothing is sent, and the script goes on. A call to be queued stops it then.
PassExecution(r) ==
    /\ Does(r, "execute") /\ Sends(r, "nobody")
    /\ Went(r, 1, run[r])
    /\ UNCHANGED <<setup, plan, file, made, nonces, proposals, chainVars, timelockVars>>

-----------------------------------------------------------------------------
(* The Safes.                                                              *)

HighestNonce(safe) == CHOOSE n \in {p.nonce : p \in {q \in proposals : q.safe = safe}} :
                        \A p \in proposals : p.safe = safe => p.nonce <= n
\* The Safe service: the nonce after all it knows of.
\* Mutant: the nonce of the Safe on chain.
NonceOnChain(safe) == nonces[safe]
GetNextNonce(safe) ==
    IF \E p \in proposals : p.safe = safe /\ p.nonce >= nonces[safe]
    THEN HighestNonce(safe) + 1 ELSE nonces[safe]

\* SafeWrapper.proposeTransaction, up to the answer of the service: a nonce of
\* the operator's is taken, and counted on for the next proposal, unless it is 0.
ReadNonce(r) == \E safe \in Safes :
    /\ Sends(r, safe) /\ run[r].nonce = NoNonce
    /\ HasAddress(run[r].snap, "safe") \/ safe = "treasury"
    /\ \E option \in IF Todo(r).by # "safeAtNonce" THEN {0}
                     ELSE IF run[r].option = NoNonce THEN Options ELSE {run[r].option + 1} :
         Went(r, 0, [run[r] EXCEPT !.nonce = IF option # 0 THEN option ELSE GetNextNonce(safe),
                                   !.chosen = option # 0,
                                   !.option = IF Todo(r).by = "safeAtNonce" THEN option
                                              ELSE run[r].option])
    /\ UNCHANGED <<setup, plan, file, made, nonces, proposals, chainVars, timelockVars>>

ProposeTransaction(r) == \E safe \in Safes :
    /\ Sends(r, safe) /\ run[r].nonce # NoNonce
    /\ \E tx \in Transactions(r) :
         proposals' = proposals \cup {[safe |-> safe, nonce |-> run[r].nonce, tx |-> tx,
                                       at |-> run[r].at, chosen |-> run[r].chosen]}
    /\ Went(r, 1, [run[r] EXCEPT !.nonce = NoNonce])
    /\ UNCHANGED <<setup, plan, file, made, nonces, chainVars, timelockVars>>

\* The owners of a Safe have it execute the transaction whose turn it is.  If
\* the call fails so does the execution, and the nonce stays.
ExecuteTransactionOf(safe) == \E p \in proposals :
    /\ p.safe = safe /\ p.nonce = nonces[safe]
    /\ Perform(safe, p.tx)
    /\ nonces' = [nonces EXCEPT ![safe] = @ + 1]
    /\ proposals' = proposals \ {p}
    /\ UNCHANGED <<setup, plan, file, run, made>>

-----------------------------------------------------------------------------
\* Where nothing is planned, the admin of the Timelock works by hand.
ByHand == \E sender \in Accounts :
    /\ plan = <<>>
    /\ \/ AcceptAdmin(sender)
       \/ \E call \in SetDelayCalls \cup SetAdminCalls :
            \/ /\ Cardinality(queued) < MaxQueued
               /\ \E eta \in Etas : QueueTransaction(sender, call, eta)
            \/ \E q \in queued : CancelTransaction(sender, q.call, q.eta)
            \/ \E q \in queued : ExecuteTransaction(sender, q.call, q.eta)
    /\ UNCHANGED <<opsVars, chainVars>>

\* Time matters to the Timelock alone.
TimePasses ==
    /\ queued # {} \/ plan = <<>> \/ \E p \in proposals : p.tx.eta > 0
    /\ Tick
    /\ UNCHANGED <<opsVars, chainVars>>

\* TimelockWrapper.executeTransaction, run for what is queued.
ExecuteQueued == <<Step("execute", "", {}, <<>>, "timelock", "timelock", "executeTransaction", {})>>

Init ==
    /\ setup \in Setups /\ plan \in Plans
    /\ TimelockInit(setup.admin, setup.delay)
    /\ file = <<>> /\ run = [r \in 1 .. Len(plan) |-> NotStarted]
    /\ made = 0 /\ impl = <<>> /\ calls = {} /\ handed = {}
    /\ nonces = [safe \in Safes |-> 0] /\ proposals = {}

Next ==
    \/ \E r \in DOMAIN run :
        \/ Start(r) \/ Stop(r)
        \/ DeployContract(r) \/ PrepareUpgrade(r) \/ WriteConfigFile(r)
        \/ GetUpdatePriceData(r) \/ LookUp(r) \/ SkipUnless(r)
        \/ SendAtOnce(r) \/ PassExecution(r) \/ ReadNonce(r) \/ ProposeTransaction(r)
    \/ \E safe \in Safes : ExecuteTransactionOf(safe)
    \/ ByHand \/ TimePasses

Spec == Init /\ [][Next]_vars

-----------------------------------------------------------------------------
Overlap(q, r) == q \in run[r].with
Asked(r) == run[r].option > 0           \* for a nonce

\* What a script has written stays in the file until a later one writes the same
\* key, or one that ran at the same time writes the whole file as it had read it.
RecordsKept == \A r \in DOMAIN run : \A key \in DOMAIN run[r].wrote :
    \/ Lookup(file, key) = run[r].wrote[key]
    \/ \E q \in DOMAIN run : \/ Overlap(q, r) /\ DOMAIN run[q].wrote # {}
                             \/ q > r /\ key \in DOMAIN run[q].wrote

\* No proposal takes the place of another in the queue of a Safe, or comes too
\* late for its own, unless its nonce was asked for or two runs overlapped.
NothingDropped ==
    /\ \A p, q \in proposals : p.safe = q.safe /\ p.nonce = q.nonce /\ p # q =>
         p.chosen \/ q.chosen \/ Overlap(p.tx.from, q.tx.from)
    /\ \A p \in proposals : p.nonce < nonces[p.safe] =>
         p.chosen \/ \E r \in DOMAIN run : Overlap(p.tx.from, r) \/ Asked(r)

\* Whatever addresses the file has come to hold, contracts get as arguments
\* contracts of the kinds they expect, contracts are given rights only on what
\* they were built to call, and a proxy runs what has its interface.
KindsFit ==
    /\ \A c \in calls :
        LET kinds == [i \in 1 .. Len(c.args) |-> c.args[i].kind]
        IN  /\ c.fn = "constructor" /\ c.to.kind \in DOMAIN Constructor
                 => Fit(kinds, Constructor[c.to.kind])
            /\ c.fn \in DOMAIN Setter => Fit(kinds, Setter[c.fn])
            /\ c.fn \in Grants => \A i \in 1 .. Len(kinds) : BuiltToCall(kinds[i], c.to.kind)
            /\ c.fn \in PairGrants => \A i \in 1 .. Len(kinds) \div 2 :
                 BuiltToCall(kinds[2 * i], kinds[2 * i - 1])
    /\ \A proxy \in DOMAIN impl : MayRun(proxy.kind, impl[proxy].kind)
=============================================================================
