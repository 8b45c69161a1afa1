------------------------------- MODULE Scripts -------------------------------
(***************************************************************************)
(* The vocabulary in which the scripts of script/ts are written down.  A    *)
(* script is the sequence of its steps: what it does between two points at  *)
(* which it waits, for the chain, for a service or for its user.  Addresses *)
(* are named by the key of the configuration file they are read from.       *)
(* Numbers and literals a script passes are left out, and so is what it     *)
(* prints or has verified.                                                  *)
(*                                                                          *)
(* A step has all the fields; each kind uses some of them.                  *)
(*   deploy     a new contract of a kind, constructed with args             *)
(*   record     write its address to keys of the file                       *)
(*   implement  a new implementation of a kind, for upgrading a proxy       *)
(*   fetch      read the prices of the moment from Pyth                     *)
(*   look       read on chain who has called fn of the contract at `to'     *)
(*   unless     leave out the next step if fn of `to' has been called       *)
(*   send       have fn of the contract at `to' called, by way of `by'      *)
(*   execute    have an upgrade the Timelock has queued executed            *)
(* `form' tells of a call what the model needs to know of it: only the      *)
(* owner may make it ("owned"), it reverts when it was made before ("once") *)
(* or was made by another script after this one looked ("spend").           *)
(***************************************************************************)
EXTENDS Sequences

Step(does, kind, keys, args, by, to, fn, form) ==
    [does |-> does, kind |-> kind, keys |-> keys, args |-> args,
     by |-> by, to |-> to, fn |-> fn, form |-> form]

Steps == [does : STRING, kind : STRING, keys : SUBSET STRING, args : Seq(STRING),
          by : STRING, to : STRING, fn : STRING, form : SUBSET STRING]

\* getUpdatePriceData: the price update is put together by a contract of the file.
Fetch == <<Step("fetch", "", {}, <<>>, "", "oracles.unsafeEcoPythCalldataBuilder3", "", {})>>
Look(to, fn) == <<Step("look", "", {}, <<>>, "", to, fn, {})>>
Unless(to, fn) == <<Step("unless", "", {}, <<>>, "", to, fn, {})>>

Create(kind, args) == <<Step("deploy", kind, {}, args, "", "", "", {})>>
DeployTo(kind, keys, args) == Create(kind, args) \o <<Step("record", kind, keys, <<>>, "", "", "", {})>>
Deploy(kind, key, args) == DeployTo(kind, {key}, args)

Send(by, to, fn, args, form) == <<Step("send", "", {}, args, by, to, fn, form)>>

\* The ways a call is sent: see Sender.
Ways == {"deployer", "anyone", "safe", "safeAtNonce", "treasury", "owner", "ownerIsSafe",
         "ownerIsSafeMisproposed", "misproposed", "proxyAdmin", "timelock"}

\* A setter only the owner may call,
Direct(to, fn, args) == Send("deployer", to, fn, args, {"owned"})       \* sent by the deployer
Owned(to, fn, args) == Send("owner", to, fn, args, {"owned"})           \* by OwnerWrapper.authExec
OwnedBySafe(to, fn, args) == Send("ownerIsSafe", to, fn, args, {"owned"}) \* proposed if the Safe owns it
Proposed(to, fn, args) == Send("safe", to, fn, args, {"owned"})         \* always proposed
Twice(steps) == steps \o steps          \* a loop: two rounds stand for any number

\* A call that is not for owners alone, sent by the deployer's key; it may
\* bring prices fetched before, or be one that cannot be repeated.
Sent(to, fn, args) == Send("anyone", to, fn, args, {})
Fed(to, fn, args) == Fetch \o Send("anyone", to, fn, args, {})
FedOnce(to, fn) == Fetch \o Send("anyone", to, fn, <<>>, {"once"})

\* Upgrades: by ProxyAdminWrapper, or by the upgrades plugin as the deployer.
Implement(kind) == <<Step("implement", kind, {}, <<>>, "", "", "", {})>>
Upgrade(kind, key) == Implement(kind) \o Send("proxyAdmin", "proxyAdmin", "upgrade", <<key>>, {})
UpgradeProxy(kind, key) == Implement(kind) \o Send("deployer", "proxyAdmin", "upgrade", <<key>>, {})
=============================================================================
