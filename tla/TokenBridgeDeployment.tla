----------------------- MODULE TokenBridgeDeployment -----------------------
(***************************************************************************)
(* The deployment of a token bridge on both chains by                      *)
(* L1AtomicTokenBridgeCreator: one L1 transaction deploys and initializes  *)
(* the L1 contracts and sends two retryable tickets, the first of which    *)
(* creates L2AtomicTokenBridgeFactory on L2 and the second, sent by        *)
(* L1TokenBridgeRetryableSender, has the factory deploy everything else.   *)
(* The tickets may be redeemed in either order or expire, and the call may *)
(* be repeated, by anybody, to send them again.  BridgeCreation has the    *)
(* next-state relation, which adds the scripts that call the creator.      *)
(*                                                                         *)
(* One inbox is modelled: deployments for different inboxes share nothing  *)
(* but the templates.  A version stands for a choice of every template of  *)
(* a kind (L1 logic, L2 code) and for the contracts deployed from it: the  *)
(* CREATE2 addresses of the L1 proxies and of the L2 multicall depend on   *)
(* the template's address or code, those of the L2 proxies do not.         *)
(*                                                                         *)
(* History: overridden says whether the rollup's owner has ever replaced   *)
(* the recorded deployment, nonceBurnt whether the creation of the factory *)
(* has ever run out of gas.                                                *)
(***************************************************************************)
EXTENDS Naturals, FiniteSets

CONSTANTS
  Versions,         \* template versions
  NoVersion,        \* nothing set, nothing deployed
  Executors,        \* accounts with EXECUTOR_ROLE on the rollup's upgrade executor
  OtherAccounts,    \* accounts without it
  ContractOwners,   \* accounts that are contracts on L1
  Alias,            \* applyL1ToL2Alias of each account
  Creator,          \* L1AtomicTokenBridgeCreator
  RetryableSender,  \* L1TokenBridgeRetryableSender
  Outsiders,        \* L2 accounts that call the factory themselves
  OutsiderArgs,     \* and with what arguments
  TemplateSets,     \* what setTemplates is given: L1 logic, L2 code, and
                    \* whether gasLimitForL2FactoryDeployment suffices
  Overrides,        \* what setDeployment is given
  Ids               \* identities of tickets in flight: as many as may be pending

Accounts == Executors \cup OtherAccounts

VersionOrNone == Versions \cup {NoVersion}
Senders == {Creator, RetryableSender}
Owners == Accounts \cup {Alias[o] : o \in Accounts}

\* What deployL2Contracts is given: the L1 contracts to be counterparts of,
\* the L2 code and the rollup owner.
Deployment == [l1 : Versions, code : Versions, owner : Owners]

ASSUME DeploymentAssumption ==
  /\ NoVersion \notin Versions \cup Deployment
  /\ ContractOwners \subseteq Accounts
  /\ Creator # RetryableSender
  /\ {Creator, RetryableSender} \cap Outsiders = {}
  /\ OutsiderArgs \subseteq Deployment
  /\ TemplateSets \subseteq [l1 : Versions, code : Versions, gas : BOOLEAN]
  /\ Overrides \subseteq VersionOrNone \X VersionOrNone

VARIABLES
  templates,            \* what setTemplates set last
  l1Contracts,          \* versions of the L1 proxies that exist for the inbox
  inboxToL1Deployment,
  inboxToL2Deployment,  \* of the recorded addresses, the one that depends on templates
  factoryTickets,       \* tickets creating the L2 factory
  contractsTickets,     \* tickets calling deployL2Contracts
  nonceUsed,            \* whether the alias of a sender has used its nonce 0
  factory,              \* code at canonicalL2FactoryAddress
  l2Contracts,          \* per salt, the set of contracts the factory deployed
  overridden, nonceBurnt

l1Vars == <<templates, l1Contracts, inboxToL1Deployment, inboxToL2Deployment, overridden>>
l2Vars == <<nonceUsed, factory, l2Contracts, nonceBurnt>>
ticketVars == <<factoryTickets, contractsTickets>>
vars == <<l1Vars, l2Vars, ticketVars>>

TypeOK ==
  /\ templates \in [l1 : VersionOrNone, code : VersionOrNone, gas : BOOLEAN]
  /\ l1Contracts \subseteq Versions
  /\ inboxToL1Deployment \in VersionOrNone
  /\ inboxToL2Deployment \in VersionOrNone
  /\ factoryTickets \subseteq [id : Ids, gas : BOOLEAN]
  /\ contractsTickets \subseteq [id : Ids, sender : Senders, args : Deployment]
  /\ nonceUsed \in [Senders -> BOOLEAN]
  /\ factory \in BOOLEAN
  /\ l2Contracts \in [Senders \cup Outsiders -> Deployment \cup {NoVersion}]
  /\ overridden \in BOOLEAN /\ nonceBurnt \in BOOLEAN

Init ==
  /\ templates = [l1 |-> NoVersion, code |-> NoVersion, gas |-> FALSE]
  /\ l1Contracts = {}
  /\ inboxToL1Deployment = NoVersion
  /\ inboxToL2Deployment = NoVersion
  /\ factoryTickets = {} /\ contractsTickets = {}
  /\ nonceUsed = [s \in Senders |-> FALSE]
  /\ factory = FALSE
  /\ l2Contracts = [s \in Senders \cup Outsiders |-> NoVersion]
  /\ overridden = FALSE /\ nonceBurnt = FALSE

-----------------------------------------------------------------------------
(* L1AtomicTokenBridgeCreator and L1TokenBridgeRetryableSender *)

\* setTemplates, called by the creator's owner.  The template of the L2
\* factory cannot change once set, so its version is not part of the state.
setTemplates(new) ==
  /\ templates' = new
  /\ UNCHANGED <<l1Contracts, inboxToL1Deployment, inboxToL2Deployment, overridden,
                 l2Vars, ticketVars>>

\* The mistake of sending the second ticket from the creator.
creatorSends == Creator

\* Who sends the ticket that deploys the contracts: not the sender of the
\* ticket that creates the factory.
contractsSender == RetryableSender

\* A rollup owner that is a contract acts on L2 under its alias.
l2RollupOwner(rollupOwner) ==
  IF rollupOwner \in ContractOwners THEN Alias[rollupOwner] ELSE rollupOwner

\* The mistake of naming what the current templates would have deployed.
currentL1Deployment(resend) == templates.l1

\* The L1 contracts the L2 side is told about: when the call is repeated,
\* those that were recorded.
l1Deployment(resend) == IF resend THEN inboxToL1Deployment ELSE templates.l1

\* The mistake of deploying the L1 contracts again: CREATE2 reverts.
neverResend == FALSE

isResend == inboxToL1Deployment # NoVersion

\* The identity of a new ticket, that of none in flight.
freeIds(tickets) == Ids \ {m.id : m \in tickets}

newId(tickets) == CHOOSE i \in freeIds(tickets) : TRUE

\* createTokenBridge.
createTokenBridge(rollupOwner) ==
  LET resend == isResend
      l1 == l1Deployment(resend)
  IN  /\ templates.l1 # NoVersion                    \* TemplatesNotSet
      /\ rollupOwner \in Executors                   \* RollupOwnershipMisconfig
      /\ \/ /\ resend
            /\ UNCHANGED <<l1Contracts, inboxToL1Deployment, inboxToL2Deployment>>
         \/ /\ ~ resend
            /\ l1 \notin l1Contracts                 \* _deployProxyWithSalt
            /\ l1Contracts' = l1Contracts \cup {l1}
            /\ inboxToL1Deployment' = l1
            /\ inboxToL2Deployment' = templates.code
      /\ freeIds(factoryTickets) # {} /\ freeIds(contractsTickets) # {}
      /\ factoryTickets' = factoryTickets \cup
           {[id |-> newId(factoryTickets), gas |-> templates.gas]}
      /\ contractsTickets' = contractsTickets \cup
           {[id |-> newId(contractsTickets), sender |-> contractsSender,
             args |-> [l1 |-> l1, code |-> templates.code,
                       owner |-> l2RollupOwner(rollupOwner)]]}
      /\ UNCHANGED <<templates, overridden, l2Vars>>

\* setDeployment, called by the rollup's owner.
setDeployment(l1, code) ==
  /\ inboxToL1Deployment' = l1
  /\ inboxToL2Deployment' = code
  /\ overridden' = TRUE
  /\ UNCHANGED <<templates, l1Contracts, l2Vars, ticketVars>>

-----------------------------------------------------------------------------
(* The tickets on L2 *)

\* The first ticket is executed and creates a contract, which is the
\* canonical factory if the sender's nonce is still 0.
createFactory(m) ==
  /\ factoryTickets' = factoryTickets \ {m}
  /\ nonceUsed' = [nonceUsed EXCEPT ![Creator] = TRUE]
  /\ factory' = (factory \/ ~ nonceUsed[Creator])
  /\ UNCHANGED <<l1Vars, contractsTickets, l2Contracts, nonceBurnt>>

\* It runs out of gas: the nonce is used all the same.
createFactoryFails(m) ==
  /\ ~ m.gas
  /\ nonceUsed' = [nonceUsed EXCEPT ![Creator] = TRUE]
  /\ nonceBurnt' = TRUE
  /\ UNCHANGED <<l1Vars, ticketVars, factory, l2Contracts>>

\* _getL2Salt of the factory.
_getL2Salt(sender) == sender

\* The salt the creator predicts addresses with.
canonicalSalt == RetryableSender

\* No canonical deployment of this sender's exists.
notYetDeployed(sender) == l2Contracts[_getL2Salt(sender)] = NoVersion

\* deployL2Contracts, which succeeds as a whole or reverts as a whole.
deployL2Contracts(sender, args) ==
  /\ notYetDeployed(sender)                          \* AlreadyExists
  /\ l2Contracts' = [l2Contracts EXCEPT ![_getL2Salt(sender)] = args]

\* The second ticket is executed.  Before the factory exists it calls an
\* address without code, which succeeds and does nothing.
redeemContracts(m) ==
  /\ contractsTickets' = contractsTickets \ {m}
  /\ nonceUsed' = [nonceUsed EXCEPT ![m.sender] = TRUE]
  /\ IF factory THEN deployL2Contracts(m.sender, m.args) ELSE UNCHANGED l2Contracts
  /\ UNCHANGED <<l1Vars, factoryTickets, factory, nonceBurnt>>

\* Anybody may call the factory directly, with any arguments.
deployByOutsider(sender, args) ==
  /\ factory
  /\ deployL2Contracts(sender, args)
  /\ UNCHANGED <<l1Vars, ticketVars, nonceUsed, factory, nonceBurnt>>

\* A ticket expires or is cancelled.
dropFactory(m) ==
  /\ factoryTickets' = factoryTickets \ {m}
  /\ UNCHANGED <<l1Vars, l2Vars, contractsTickets>>

dropContracts(m) ==
  /\ contractsTickets' = contractsTickets \ {m}
  /\ UNCHANGED <<l1Vars, l2Vars, factoryTickets>>

\* The operator repeats the call for as long as the bridge is not deployed,
\* and does not let every ticket expire; no ticket stays in flight for ever.
Fairness ==
  /\ WF_vars(\E rollupOwner \in Accounts : createTokenBridge(rollupOwner))
  /\ SF_vars(\E m \in factoryTickets : createFactory(m))
  /\ WF_vars(\E m \in contractsTickets : redeemContracts(m) \/ dropContracts(m))
  /\ SF_vars(factory /\ \E m \in contractsTickets : redeemContracts(m))

-----------------------------------------------------------------------------
\* The canonical deployment on L2.
Canonical == l2Contracts[canonicalSalt]

\* Unless its creation runs out of gas nothing takes away the canonical
\* address of the factory: the first transaction of the creator's alias is the
\* one that creates it, in whatever order the two kinds of tickets are executed.
FactoryIsCanonical ==
  nonceUsed[Creator] /\ ~ nonceBurnt => factory

\* The two sides belong together: unless the rollup's owner has intervened,
\* the contracts at the canonical L2 addresses are the counterparts of the
\* recorded L1 contracts, and their owner has the executor role, whatever was
\* sent again, with whatever templates, and whoever called the factory.
SidesAreWired ==
  Canonical # NoVersion /\ ~ overridden =>
    /\ Canonical.l1 = inboxToL1Deployment
    /\ \E o \in Executors : Canonical.owner = IF o \in ContractOwners THEN Alias[o] ELSE o

\* Sending the tickets again recovers from expired and from out-of-order
\* tickets: unless the rollup's owner intervenes, or the creation of the
\* factory runs out of gas, the bridge gets deployed.
EventuallyDeployed ==
  templates.l1 # NoVersion ~> (Canonical # NoVersion \/ overridden \/ nonceBurnt)
=============================================================================
