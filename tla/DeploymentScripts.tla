-------------------------- MODULE DeploymentScripts --------------------------
(***************************************************************************)
(* Two scripts that deploy contracts transaction by transaction, while     *)
(* everybody watches: deployL1TokenBridgeCreator deploys the creator, its  *)
(* retryable sender and the templates; deployUsdcBridge deploys bridged    *)
(* USDC and its two gateways, registers them in the routers and makes the  *)
(* gateway a minter.  Nearly every contract has an initializer that the    *)
(* first to call it may use, a script may die between two transactions,    *)
(* and the operator may run it again, which deploys everything anew.       *)
(*                                                                         *)
(* A script is a sequence of steps, and a run of it is numbered; the       *)
(* contracts of a run are named by the run and by what they are.           *)
(* Libraries and logic contracts whose constructor disables the            *)
(* initializer, and the submission of source code to explorers, are left   *)
(* out.  The logic contracts of the two USDC gateways have an initializer  *)
(* that the script never calls: it is open to everybody for good.          *)
(*                                                                         *)
(* History: overtaken says whether a registration ticket of an earlier run *)
(* was redeemed after one of a later run.                                  *)
(***************************************************************************)
EXTENDS Naturals, Sequences

CONSTANTS
  Scripts,   \* the scripts an operator runs: "creator", "usdc"
  MaxRuns    \* bound on the number of runs

Runs == 1 .. MaxRuns
NoRun == 0

ASSUME ScriptsAssumption ==
  /\ Scripts \subseteq {"creator", "usdc"}
  /\ MaxRuns \in Nat \ {0}

VARIABLES
  chain,        \* what the script finds: its kind and the chain's configuration
  run,          \* the last run
  status,       \* and how it stands
  at,           \* the number of its next step
  deployed,     \* per run, the contracts that exist
  initialized,  \* per run and contract, the initializers its script has called
  taken,        \* per run, the contracts with an initializer called by another
  adminMoved,   \* per run, whether the admin of the USDC proxy is the ProxyAdmin
  executorFee,  \* fees the upgrade executor holds
  allowance,    \* and whether the router may take one
  prepared,     \* runs whose registration transactions are in the file
  l1Route,      \* whose gateway the L1 router has for USDC
  l2Route,      \* whose gateway the L2 router has
  tickets,      \* per run, its setGateway ticket
  controller,   \* runs whose deployer controls their L2 gateway as a minter
  minter,       \* runs whose L2 gateway may mint their USDC
  templatesSet, \* the runs whose creator has its templates
  deposits,     \* per run, a deposit through its L1 gateway
  overtaken

runVars == <<run, status, at>>
contractVars == <<deployed, initialized, taken, adminMoved>>
routeVars == <<executorFee, allowance, prepared, l1Route, l2Route, tickets, overtaken>>
minterVars == <<controller, minter>>
scriptsVars == <<chain, runVars, contractVars, routeVars, minterVars, templatesSet, deposits>>

-----------------------------------------------------------------------------
(* The scripts *)

step(op, cs) == [op |-> op, contracts |-> cs]
deploy(c) == step("deploy", {c})
initialize(cs) == step("initialize", cs)

usdcContracts == {"usdcLogic", "usdcProxy"}

proxyAdmins == {"l1ProxyAdmin", "l2ProxyAdmin"}

\* Initializers of a contract: FiatToken has initialize, initializeV2,
\* initializeV2_1 and initializeV2_2, to be called in this order.
initializers(c) == IF c \in usdcContracts THEN 4
                   ELSE IF c \in proxyAdmins \cup {"masterMinter"} THEN 0 ELSE 1

\* A template is deployed and at once initialized with dummy values.
template(c) == <<deploy(c), initialize({c})>>

l1Templates ==
  template("routerTemplate") \o template("standardGatewayTemplate")
    \o template("customGatewayTemplate") \o template("wethGatewayTemplate")
    \o template("feeTokenBasedRouterTemplate")
    \o template("feeTokenBasedStandardGatewayTemplate")
    \o template("feeTokenBasedCustomGatewayTemplate")

l2Templates ==
  template("l2GatewayRouterOnL1") \o template("l2StandardGatewayAddressOnL1")
    \o template("l2CustomGatewayAddressOnL1") \o template("l2WethGatewayAddressOnL1")

\* The creator's initialize calls that of the retryable sender.
creatorSteps ==
  <<deploy("creatorProxy"), deploy("senderLogic"), deploy("senderProxy"),
    initialize({"senderLogic"}), initialize({"creatorProxy", "senderProxy"})>>

deployL1TokenBridgeCreator ==
  creatorSteps \o l1Templates \o l2Templates \o <<step("setTemplates", {})>>

initializeFiatToken(c) ==
  <<initialize({c}), initialize({c}), initialize({c}), initialize({c}), step("check", {c})>>

_deployProxyAdmin(c) == <<deploy(c)>>

_deployUsdcProxy == <<deploy("usdcProxy"), step("changeAdmin", {"usdcProxy"})>>

_deployBridgedUsdc ==
  <<deploy("usdcLogic")>> \o _deployUsdcProxy \o <<deploy("masterMinter")>>
    \o initializeFiatToken("usdcProxy") \o initializeFiatToken("usdcLogic")

\* A gateway is a proxy, deployed with its logic.
_deployL1UsdcGateway == <<deploy("l1GatewayLogic"), deploy("l1Gateway")>>
_deployL2UsdcGateway == <<deploy("l2GatewayLogic"), deploy("l2Gateway")>>

_initializeGateways ==
  <<initialize({"l1Gateway"}), initialize({"l2Gateway"}),
    step("check", {"l1Gateway", "l2Gateway"})>>

\* With the rollup owner's key the script registers the gateway and waits for
\* the L2 router; without it the transactions are written to a file.
_registerGateway(feeToken, ownerKey) ==
  <<step("checkRouterOwner", {})>>
    \o (IF ~ ownerKey THEN <<step("prepare", {})>>
        ELSE (IF feeToken THEN <<step("transferFee", {}), step("approveFee", {})>> ELSE << >>)
               \o <<step("setGateways", {}), step("waitOnL2Msg", {})>>)

_addMinterRoleToL2Gateway == <<step("configureController", {}), step("configureMinter", {})>>

deployUsdcBridge(feeToken, ownerKey) ==
  _deployProxyAdmin("l1ProxyAdmin") \o _deployProxyAdmin("l2ProxyAdmin")
    \o _deployBridgedUsdc \o _deployL1UsdcGateway \o _deployL2UsdcGateway
    \o _initializeGateways \o _registerGateway(feeToken, ownerKey)
    \o _addMinterRoleToL2Gateway

Program == IF chain.script = "creator" THEN deployL1TokenBridgeCreator
           ELSE deployUsdcBridge(chain.feeToken, chain.ownerKey)

\* Contracts that only lend their code: nobody is told their address, and what their
\* own storage says reaches no proxy.
gatewayLogics == {"l1GatewayLogic", "l2GatewayLogic"}

ContractsOf(script) ==
  IF script = "creator"
  THEN {"creatorProxy", "senderLogic", "senderProxy",
        "routerTemplate", "standardGatewayTemplate", "customGatewayTemplate",
        "wethGatewayTemplate", "feeTokenBasedRouterTemplate",
        "feeTokenBasedStandardGatewayTemplate", "feeTokenBasedCustomGatewayTemplate",
        "l2GatewayRouterOnL1", "l2StandardGatewayAddressOnL1",
        "l2CustomGatewayAddressOnL1", "l2WethGatewayAddressOnL1"}
  ELSE proxyAdmins \cup usdcContracts \cup {"masterMinter", "l1Gateway", "l2Gateway"}
         \cup gatewayLogics

Contracts == ContractsOf("creator") \cup ContractsOf("usdc")

Chains ==
  [script : Scripts, feeToken : BOOLEAN, ownerKey : BOOLEAN, executorOwned : BOOLEAN]

\* The creator's script does not look at the rollup.
ScriptsInit ==
  /\ chain \in {c \in Chains : c.script = "creator" =>
                                 c.feeToken /\ c.ownerKey /\ c.executorOwned}
  /\ run = NoRun /\ status = "failed" /\ at = 1
  /\ deployed = [r \in Runs |-> {}]
  /\ initialized = [r \in Runs |-> [c \in Contracts |-> 0]]
  /\ taken = [r \in Runs |-> {}]
  /\ adminMoved = [r \in Runs |-> FALSE]
  /\ executorFee = 0 /\ allowance = FALSE
  /\ prepared = {}
  /\ l1Route = NoRun /\ l2Route = NoRun
  /\ tickets = [r \in Runs |-> "none"]
  /\ controller = {} /\ minter = {} /\ templatesSet = {}
  /\ deposits = [r \in Runs |-> "none"]
  /\ overtaken = FALSE

-----------------------------------------------------------------------------
(* Steps of a run *)

\* Where an environment variable is missing the script throws before it sends
\* a transaction.
_checkEnvVars == {"running", "failed"}

\* The operator starts the script, or starts it again after it failed.
start ==
  /\ status = "failed" /\ run < MaxRuns
  /\ run' = run + 1 /\ status' \in _checkEnvVars /\ at' = 1
  /\ UNCHANGED <<chain, contractVars, routeVars, minterVars, templatesSet, deposits>>

\* The next step is this one; after the last the script is done.
does(op) ==
  /\ status = "running" /\ Program[at].op = op
  /\ at' = at + 1
  /\ status' = IF at = Len(Program) THEN "done" ELSE "running"
  /\ UNCHANGED <<chain, run>>

operands == Program[at].contracts

deployStep ==
  /\ does("deploy")
  /\ deployed' = [deployed EXCEPT ![run] = @ \cup operands]
  /\ UNCHANGED <<initialized, taken, adminMoved, routeVars, minterVars, templatesSet, deposits>>

\* Circle's proxy is deployed with the deployer as its admin.
changeAdmin ==
  /\ does("changeAdmin")
  /\ adminMoved' = [adminMoved EXCEPT ![run] = TRUE]
  /\ UNCHANGED <<deployed, initialized, taken, routeVars, minterVars, templatesSet, deposits>>

\* The mistake of not waiting for the outcome.
anyOutcome(c) == TRUE

\* An initializer reverts when it has been called before, and Circle's proxy
\* does not forward calls of its admin.
initializable(c) ==
  /\ c \notin taken[run]
  /\ c = "usdcProxy" => adminMoved[run]

initializeStep ==
  /\ does("initialize")
  /\ \A c \in operands : initializable(c)
  /\ initialized' = [initialized EXCEPT ![run] =
                       [c \in Contracts |-> IF c \in operands THEN @[c] + 1 ELSE @[c]]]
  /\ UNCHANGED <<deployed, taken, adminMoved, routeVars, minterVars, templatesSet, deposits>>

\* What was set is read back and compared.
checkStep ==
  /\ does("check")
  /\ operands \cap taken[run] = {}
  /\ UNCHANGED <<contractVars, routeVars, minterVars, templatesSet, deposits>>

setTemplatesStep ==
  /\ does("setTemplates")
  /\ "creatorProxy" \notin taken[run]                   \* onlyOwner
  /\ templatesSet' = templatesSet \cup {run}
  /\ UNCHANGED <<contractVars, routeVars, minterVars, deposits>>

\* _isUpgradeExecutor of the owner of the L1 router.
checkRouterOwner ==
  /\ does("checkRouterOwner")
  /\ chain.executorOwned
  /\ UNCHANGED <<contractVars, routeVars, minterVars, templatesSet, deposits>>

transferFee ==
  /\ does("transferFee")
  /\ executorFee' = executorFee + 1
  /\ UNCHANGED <<contractVars, allowance, prepared, l1Route, l2Route, tickets, overtaken,
                 minterVars, templatesSet, deposits>>

\* The executor is told to call approve of the fee token.
approveFee ==
  /\ does("approveFee")
  /\ allowance' = TRUE
  /\ UNCHANGED <<contractVars, executorFee, prepared, l1Route, l2Route, tickets, overtaken,
                 minterVars, templatesSet, deposits>>

\* setGateways of the L1 router, called by the executor: it takes the fee, asks
\* the gateway for its L2 token, and sends a ticket to the L2 router.
register(r) ==
  /\ initialized[r]["l1Gateway"] = 1
  /\ \/ /\ chain.feeToken
        /\ allowance /\ executorFee > 0
        /\ executorFee' = executorFee - 1 /\ allowance' = FALSE
     \/ /\ ~ chain.feeToken
        /\ UNCHANGED <<executorFee, allowance>>
  /\ l1Route' = r
  /\ tickets' = [tickets EXCEPT ![r] = "created"]

setGateways ==
  /\ does("setGateways")
  /\ register(run)
  /\ UNCHANGED <<contractVars, prepared, l2Route, overtaken, minterVars, templatesSet, deposits>>

\* The mistake of not looking at the status.
anyStatus == tickets[run] # "created"

\* The ticket's status is known and is REDEEMED.
isRedeemed == tickets[run] = "redeemed"

_waitOnL2Msg ==
  /\ does("waitOnL2Msg")
  /\ isRedeemed
  /\ UNCHANGED <<contractVars, routeVars, minterVars, templatesSet, deposits>>

notRedeemed ==
  /\ status = "running" /\ Program[at].op = "waitOnL2Msg"
  /\ tickets[run] \in {"held", "expired"}
  /\ status' = "failed"
  /\ UNCHANGED <<chain, run, at, contractVars, routeVars, minterVars, templatesSet, deposits>>

\* The transactions are written to REGISTRATION_TX_FILE, over those of an
\* earlier run.
prepare ==
  /\ does("prepare")
  /\ prepared' = {run}
  /\ UNCHANGED <<contractVars, executorFee, allowance, l1Route, l2Route, tickets, overtaken,
                 minterVars, templatesSet, deposits>>

configureController ==
  /\ does("configureController")
  /\ controller' = controller \cup {run}
  /\ UNCHANGED <<contractVars, routeVars, minter, templatesSet, deposits>>

\* The mistake of configuring no minter.
noMinter == minter

\* The L2 gateways that may mint after configureMinter, which has the master
\* minter, if it is that of the token, grant the role.
minters == IF "usdcProxy" \notin taken[run] /\ run \in controller
           THEN minter \cup {run} ELSE minter

configureMinter ==
  /\ does("configureMinter")
  /\ minter' = minters
  /\ UNCHANGED <<contractVars, routeVars, controller, templatesSet, deposits>>

\* A transaction reverts, a check fails, or the script dies.
stop ==
  /\ status = "running"
  /\ status' = "failed"
  /\ UNCHANGED <<chain, run, at, contractVars, routeVars, minterVars, templatesSet, deposits>>

-----------------------------------------------------------------------------
(* The others *)

\* Somebody calls the next initializer of a contract.
takeOver(r, c) ==
  /\ c \in deployed[r] \ taken[r]
  /\ initialized[r][c] < initializers(c)
  /\ taken' = [taken EXCEPT ![r] = @ \cup {c}]
  /\ UNCHANGED <<chain, runVars, deployed, initialized, adminMoved, routeVars, minterVars,
                 templatesSet, deposits>>

\* What the prepared approval achieves: it is addressed to the executor, which
\* has no such function, and not to the fee token by way of the executor.
preparedApproval == FALSE

\* The multisig executes the transactions of the file.
executePrepared(r) ==
  /\ r \in prepared
  /\ chain.feeToken => preparedApproval
  /\ register(r)
  /\ prepared' = prepared \ {r}
  /\ UNCHANGED <<chain, runVars, contractVars, l2Route, overtaken, minterVars, templatesSet,
                 deposits>>

\* The ticket is redeemed, by the chain or later by somebody.
redeemTicket(r) ==
  /\ tickets[r] \in {"created", "held"}
  /\ tickets' = [tickets EXCEPT ![r] = "redeemed"]
  /\ l2Route' = r
  /\ overtaken' = (overtaken \/ \E q \in Runs : q > r /\ tickets[q] = "redeemed")
  /\ UNCHANGED <<chain, runVars, contractVars, executorFee, allowance, prepared, l1Route,
                 minterVars, templatesSet, deposits>>

\* The chain does not redeem it.
holdTicket(r) ==
  /\ tickets[r] = "created"
  /\ tickets' = [tickets EXCEPT ![r] = "held"]
  /\ UNCHANGED <<chain, runVars, contractVars, executorFee, allowance, prepared, l1Route,
                 l2Route, overtaken, minterVars, templatesSet, deposits>>

expireTicket(r) ==
  /\ tickets[r] = "held"
  /\ tickets' = [tickets EXCEPT ![r] = "expired"]
  /\ UNCHANGED <<chain, runVars, contractVars, executorFee, allowance, prepared, l1Route,
                 l2Route, overtaken, minterVars, templatesSet, deposits>>

\* A user deposits USDC by way of the L1 router.
deposit(r) ==
  /\ l1Route = r /\ deposits[r] = "none"
  /\ deposits' = [deposits EXCEPT ![r] = "pending"]
  /\ UNCHANGED <<chain, runVars, contractVars, routeVars, minterVars, templatesSet>>

\* The deposit's ticket mints, and can be tried until it does.
finalizeDeposit(r) ==
  /\ deposits[r] = "pending" /\ r \in minter
  /\ deposits' = [deposits EXCEPT ![r] = "minted"]
  /\ UNCHANGED <<chain, runVars, contractVars, routeVars, minterVars, templatesSet>>

scriptStep ==
  \/ deployStep \/ changeAdmin \/ initializeStep \/ checkStep \/ setTemplatesStep
  \/ checkRouterOwner \/ transferFee \/ approveFee \/ setGateways \/ _waitOnL2Msg
  \/ notRedeemed \/ prepare \/ configureController \/ configureMinter

ScriptsNext ==
  \/ start \/ scriptStep \/ stop
  \/ \E r \in Runs, c \in Contracts : takeOver(r, c)
  \/ \E r \in Runs : \/ executePrepared(r)
                     \/ redeemTicket(r) \/ holdTicket(r) \/ expireTicket(r)
                     \/ deposit(r) \/ finalizeDeposit(r)

\* A running script goes on, every ticket is redeemed or known not to be, and
\* somebody redeems the deposits.
ScriptsFairness ==
  /\ WF_scriptsVars(scriptStep)
  /\ \A r \in Runs : WF_scriptsVars(redeemTicket(r) \/ holdTicket(r))
  /\ \A r \in Runs : WF_scriptsVars(finalizeDeposit(r))

ScriptsSpec == ScriptsInit /\ [][ScriptsNext]_scriptsVars /\ ScriptsFairness

-----------------------------------------------------------------------------
\* The contracts of a script that others call.
Called(script) == ContractsOf(script) \ gatewayLogics

\* Every initializer of every contract of a run that others call was called by its
\* script.
Owned(r) ==
  \A c \in Called(chain.script) : /\ c \notin taken[r]
                                  /\ initialized[r][c] = initializers(c)

\* Nothing that was taken over on the way is ever called: of a run that ends, and
\* of one whose gateways a router leads to or whose templates the creator has,
\* all but the logic contracts of the USDC gateways was initialized by the script
\* alone, though anybody may call initializers between its transactions and it
\* may be stopped and started again.  Those two the script leaves to anybody.
NothingTakenOver ==
  \A r \in Runs :
    (status = "done" /\ run = r) \/ r \in {l1Route, l2Route} \cup templatesSet => Owned(r)

\* A script that says that the gateway is registered has it registered on both
\* chains, whatever earlier runs left in flight, unless a ticket of theirs is
\* redeemed late.
RegisteredOnBothSides ==
  chain.script = "usdc" /\ chain.ownerKey /\ status = "done" /\ ~ overtaken =>
    l1Route = run /\ l2Route = run

\* The route goes live before the gateway may mint.  A deposit made in between
\* is minted all the same, unless the script fails in between.
EarlyDepositsMinted ==
  \A r \in Runs :
    deposits[r] = "pending" ~>
      deposits[r] = "minted" \/ run # r \/ status = "failed"
=============================================================================
