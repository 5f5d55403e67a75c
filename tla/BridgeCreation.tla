--------------------------- MODULE BridgeCreation ---------------------------
(***************************************************************************)
(* The scripts that create a token bridge.  One deploys the creator.  The  *)
(* one for a target chain is given a creator, the one for a local          *)
(* environment deploys its own.  Both call the creator, wait for the two   *)
(* tickets and pick up the recorded addresses; the local one then          *)
(* registers the WETH gateway in the routers, if there is one; both report *)
(* the addresses.  They run beside everything TokenBridgeDeployment        *)
(* allows: others who call the creator or the factory, tickets in any      *)
(* order, new templates and the rollup's owner.                            *)
(*                                                                         *)
(* History: script.hollow says whether the script's own call of            *)
(* deployL2Contracts was executed where no factory was.                    *)
(***************************************************************************)
EXTENDS TokenBridgeDeployment

CONSTANTS
  NoTicket,   \* no ticket of the script's is waited for
  Redeemed    \* status REDEEMED of a ticket of the script's

ASSUME CreationAssumption ==
  /\ NoTicket \notin Ids
  /\ Redeemed \notin Ids \cup {NoTicket}

VARIABLES
  script,     \* the running script
  wethRoute   \* the L1 contracts whose router has a route for WETH

creationVars == <<vars, script, wethRoute>>

idle == [stage |-> "idle", kind |-> "target", factory |-> NoTicket, contracts |-> NoTicket,
         l1 |-> NoVersion, hollow |-> FALSE]

CreationInit ==
  /\ Init
  /\ script = idle
  /\ wethRoute = NoVersion

-----------------------------------------------------------------------------
(* The scripts begin *)

\* The gas limit estimated for the ticket that creates the factory suffices.
getEstimateForDeployingFactory(new) == new.gas

\* The creator is deployed and given its first templates, with the gas limit of
\* the environment, which may be any, or else the estimated one.
deployTokenBridgeCreator(new, gasLimitGiven) ==
  /\ templates.l1 = NoVersion
  /\ gasLimitGiven \/ getEstimateForDeployingFactory(new)
  /\ setTemplates(new)
  /\ UNCHANGED <<script, wethRoute>>

\* The script calls the creator and waits for the two tickets of its own.
callCreator(rollupOwner, kind) ==
  /\ createTokenBridge(rollupOwner)
  /\ script' = [idle EXCEPT
       !.stage = "waiting",
       !.kind = kind,
       !.factory = newId(factoryTickets),
       !.contracts = newId(contractsTickets)]
  /\ UNCHANGED wethRoute

\* On a target chain the script is given the creator.
createTokenBridgeOnTargetChain(rollupOwner) ==
  /\ script.stage = "idle"
  /\ callCreator(rollupOwner, "target")

\* In a local environment the script deploys the creator, with the estimate.  A
\* chain that pays its fees in a token has no WETH gateway.
LocalKinds == {"local", "localFeeToken"}

setupTokenBridgeInLocalEnv(new, kind) ==
  /\ script.stage = "idle"
  /\ templates.l1 = NoVersion
  /\ getEstimateForDeployingFactory(new)
  /\ setTemplates(new)
  /\ script' = [idle EXCEPT !.stage = "ready", !.kind = kind]
  /\ UNCHANGED wethRoute

createTokenBridgeInLocalEnv(rollupOwner) ==
  /\ script.stage = "ready"
  /\ callCreator(rollupOwner, script.kind)

-----------------------------------------------------------------------------
(* atomicTokenBridgeDeployer.ts *)

\* A ticket with this identity is executed or gone.
factoryTicketIs(id, status) ==
  script' = IF script.factory = id THEN [script EXCEPT !.factory = status] ELSE script

contractsTicketIs(id, status) ==
  script' = IF script.contracts = id
            THEN [script EXCEPT !.contracts = status,
                                !.hollow = (status = Redeemed /\ ~ factory)]
            ELSE script

\* The mistake of looking at the first ticket only.
firstRedeemed == script.factory = Redeemed

bothRedeemed == script.factory = Redeemed /\ script.contracts = Redeemed

\* Both tickets are redeemed: the recorded addresses are read.
pickUp ==
  /\ script.stage = "waiting" /\ bothRedeemed
  /\ script' = [script EXCEPT !.stage = "picked", !.l1 = inboxToL1Deployment,
                              !.factory = NoTicket, !.contracts = NoTicket]
  /\ UNCHANGED <<vars, wethRoute>>

\* A ticket is not redeemed, a check fails, a call reverts, or the script dies.
exit ==
  /\ script.stage \in {"ready", "waiting", "picked", "routed"}
  /\ script' = idle
  /\ UNCHANGED <<vars, wethRoute>>

\* The mistake of not asking the L2 router.
anyRouter == TRUE

\* There is code at the L2 router's address, and the L1 router it was
\* initialized with is the one to be changed.
routersMeet == Canonical # NoVersion /\ Canonical.l1 = script.l1

\* Whether the local script has a WETH gateway to register.
hasWethGateway == script.kind = "local" /\ script.l1 # NoVersion

\* registerGateway for WETH; if its ticket is not redeemed the script exits.
registerGateway ==
  /\ script.stage = "picked"
  /\ hasWethGateway
  /\ routersMeet
  /\ wethRoute' = script.l1
  /\ script' = [script EXCEPT !.stage = "routed"]
  /\ UNCHANGED vars

-----------------------------------------------------------------------------
(* The scripts end *)

\* The addresses are written to network.json as they were picked up, and the
\* script is over.
report ==
  /\ script' = [idle EXCEPT !.stage = "reported", !.l1 = script.l1, !.hollow = script.hollow]
  /\ UNCHANGED <<vars, wethRoute>>

reportOnTargetChain ==
  /\ script.kind = "target" /\ script.stage = "picked"
  /\ report

\* Not before WETH is routed.
reportInLocalEnv ==
  /\ script.kind \in LocalKinds
  /\ script.stage = IF hasWethGateway THEN "routed" ELSE "picked"
  /\ report

-----------------------------------------------------------------------------
\* A step of TokenBridgeDeployment, and what it means to the script.
ticketStep ==
  \/ \E m \in factoryTickets : createFactory(m) /\ factoryTicketIs(m.id, Redeemed)
  \/ \E m \in factoryTickets : dropFactory(m) /\ factoryTicketIs(m.id, NoTicket)
  \/ \E m \in contractsTickets : redeemContracts(m) /\ contractsTicketIs(m.id, Redeemed)
  \/ \E m \in contractsTickets : dropContracts(m) /\ contractsTicketIs(m.id, NoTicket)

\* The owner of a creator that has its templates may set them again.
otherStep ==
  \/ \E new \in TemplateSets : templates.l1 # NoVersion /\ setTemplates(new)
  \/ \E rollupOwner \in Accounts : createTokenBridge(rollupOwner)
  \/ \E d \in Overrides : setDeployment(d[1], d[2])
  \/ \E m \in factoryTickets : createFactoryFails(m)
  \/ \E sender \in Outsiders, args \in OutsiderArgs : deployByOutsider(sender, args)

CreationNext ==
  \/ otherStep /\ UNCHANGED <<script, wethRoute>>
  \/ ticketStep /\ UNCHANGED wethRoute
  \/ \E new \in TemplateSets, gasLimitGiven \in BOOLEAN :
       deployTokenBridgeCreator(new, gasLimitGiven)
  \/ \E new \in TemplateSets, kind \in LocalKinds : setupTokenBridgeInLocalEnv(new, kind)
  \/ \E rollupOwner \in Accounts :
       \/ createTokenBridgeOnTargetChain(rollupOwner)
       \/ createTokenBridgeInLocalEnv(rollupOwner)
  \/ pickUp \/ exit \/ registerGateway \/ reportOnTargetChain \/ reportInLocalEnv

\* Whoever repeats the call, the script or others: see Fairness.
CreationSpec == CreationInit /\ [][CreationNext]_creationVars /\ Fairness

-----------------------------------------------------------------------------
\* What is reported is deployed, or a further call of createTokenBridge deploys
\* just that.  The script has looked at both tickets, so there are contracts at
\* the canonical L2 addresses, unless the second ticket was executed before
\* there was a factory, which succeeds without an effect; then the factory is
\* there by now, unless its creation ran out of gas.  And unless the rollup's
\* owner intervenes, the reported L1 contracts stay the recorded ones, which
\* tickets sent again will name, and no L2 contracts but their counterparts are
\* deployed, however long after the report.
ReportedIsDeployed ==
  script.stage = "reported" =>
    /\ script.hollow \/ Canonical # NoVersion
    /\ nonceBurnt \/ factory
    /\ ~ overridden =>
         /\ script.l1 # NoVersion /\ script.l1 = inboxToL1Deployment
         /\ Canonical # NoVersion => Canonical.l1 = script.l1

\* WETH is only routed on a pair of routers that know each other, whatever the
\* tickets' statuses said and whatever the rollup's owner recorded.
WethRouteOnWiredPair ==
  wethRoute # NoVersion => Canonical # NoVersion /\ Canonical.l1 = wethRoute
=============================================================================
