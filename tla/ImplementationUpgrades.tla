----------------------- MODULE ImplementationUpgrades -----------------------
(***************************************************************************)
(* The hardhat tasks that upgrade the contracts of a chain: deploy-logic-* *)
(* deploys new logic contracts and queues them in a file, trigger-upgrades *)
(* points proxies, beacons and the rollup's facets at what is queued, and  *)
(* verify-deployments compares the chain with the files.  A task is a      *)
(* process that may die between any two of its transactions and writes;    *)
(* what it leaves behind is on chain and in three files.  One task writes  *)
(* the files at a time, and the operator may mend them by hand between     *)
(* tasks; admins may be moved at any moment, by the task transferAdmin     *)
(* running next to another.                                                *)
(*                                                                         *)
(* An address of logic says what it was built from: the contract's name    *)
(* and the number of the deployment.  Addresses of proxies are left out,   *)
(* as no task changes them.                                                *)
(*                                                                         *)
(* History: interrupted says whether an update died after it had begun and *)
(* the records have not been mended since; forgotten holds the contracts   *)
(* whose new implementation the operator has removed from the files.       *)
(***************************************************************************)
EXTENDS Naturals

CONSTANTS
  Contracts,        \* names in current_deployment
  Names,            \* names the operator deploys logic for
  Layer,            \* of the chain, as ArbSys tells
  Signers,          \* accounts whose key a task may run with
  ProxyAdminOwner,  \* the owner of the ProxyAdmin
  NoLogic,          \* no update queued
  NoFile,           \* no tmp_deployment
  MaxLogic          \* bound on logic contracts deployed

VARIABLES
  impl,     \* on chain: the implementation of each contract
  admin,    \* on chain: the admin of each proxy, the owner of each beacon
  queued,   \* the file queued-updates
  current,  \* the file current_deployment
  tmp,      \* the file tmp_deployment
  built,    \* number of logic contracts deployed
  pc,       \* where the running task is
  todo,     \* contracts the running task has yet to see
  at,       \* the contract it is busy with
  interrupted, forgotten

chain == <<impl, admin>>
files == <<queued, current, tmp>>
task == <<pc, todo, at>>
history == <<interrupted, forgotten>>
vars == <<chain, files, built, task, history>>

-----------------------------------------------------------------------------
(* types.ts *)

ContractNames ==
  {"L1GatewayRouter", "L1ERC20Gateway", "L1CustomGateway", "L1WethGateway",
   "L2ERC20Gateway", "L2GatewayRouter", "L2CustomGateway", "L2WethGateway",
   "StandardArbERC20", "Rollup", "RollupAdminFacet", "RollupUserFacet",
   "RollupEventBridge", "Node", "Challenge", "OneStepProof", "OneStepProof2",
   "OneStepProofHash", "Inbox", "Bridge", "SequencerInbox", "Outbox", "OldOutbox",
   "OutboxEntry"}

proxyType(c) ==
  IF c = "StandardArbERC20" THEN "BeaconOwnedByEOA"
  ELSE IF c \in {"Node", "Challenge", "OutboxEntry"} THEN "BeaconOwnedByRollup"
  ELSE IF c \in {"RollupAdminFacet", "RollupUserFacet"} THEN c
  ELSE "TransparentProxy"

isBeaconOwnedByEOA(c) == proxyType(c) = "BeaconOwnedByEOA"
isBeaconOwnedByRollup(c) == proxyType(c) = "BeaconOwnedByRollup"
isFacet(c) == proxyType(c) \in {"RollupAdminFacet", "RollupUserFacet"}

getLayer(c) ==
  IF c \in {"L2ERC20Gateway", "L2GatewayRouter", "L2WethGateway", "L2CustomGateway",
            "StandardArbERC20"} THEN 2 ELSE 1

hasPostInitHook(c) ==
  c \in {"L1GatewayRouter", "L1ERC20Gateway", "L1CustomGateway", "L1WethGateway",
         "L2ERC20Gateway", "L2GatewayRouter", "L2CustomGateway", "L2WethGateway",
         "Rollup", "SequencerInbox"}

\* Who must be the admin or the owner for an update of the contract.
expectedAdmin(c) ==
  IF isBeaconOwnedByEOA(c) THEN ProxyAdminOwner
  ELSE IF isBeaconOwnedByRollup(c) THEN "Rollup"
  ELSE "ProxyAdmin"

Logic == [contract : Names, number : Nat]
Admins == {"ProxyAdmin", "Rollup", "Elsewhere", ProxyAdminOwner}

ASSUME UpgradesAssumption ==
  /\ Contracts \subseteq Names
  /\ Names \subseteq ContractNames
  /\ Layer \in {1, 2}
  /\ NoLogic \notin Logic
  /\ NoFile \notin [Contracts -> Logic]
  /\ MaxLogic \in Nat

TypeOK ==
  /\ impl \in [Contracts -> Logic]
  /\ admin \in [Contracts -> Admins]
  /\ queued \in [Names -> Logic \cup {NoLogic}]
  /\ current \in [Contracts -> Logic]
  /\ tmp \in [Contracts -> Logic] \cup {NoFile}
  /\ built \in Nat
  /\ pc \in {"idle", "deploying", "updating", "upgraded", "recorded", "copied"}
  /\ todo \subseteq Names
  /\ at \in Names
  /\ interrupted \in BOOLEAN /\ forgotten \subseteq Contracts

Init ==
  /\ impl = [c \in Contracts |-> [contract |-> c, number |-> 0]]
  /\ admin = [c \in Contracts |-> expectedAdmin(c)]
  /\ queued = [c \in Names |-> NoLogic]
  /\ current = impl /\ tmp = NoFile
  /\ built = 0
  /\ pc = "idle" /\ todo = {} /\ at \in Names
  /\ interrupted = FALSE /\ forgotten = {}

-----------------------------------------------------------------------------
(* deployLogic and deployLogicAll *)

startDeploying(names) ==
  /\ pc = "idle"
  /\ pc' = "deploying" /\ todo' = names
  /\ UNCHANGED <<chain, files, built, at, history>>

deployLogicAll == startDeploying(Contracts)

\* A contract that is queued is deployed again only if the operator says so.
skipQueued(c) ==
  /\ pc = "deploying" /\ c \in todo
  /\ queued[c] # NoLogic
  /\ todo' = todo \ {c}
  /\ UNCHANGED <<chain, files, built, pc, at, history>>

\* Logic is deployed and queued, in place of what may be queued already.
deployLogic(c) ==
  /\ pc = "deploying" /\ c \in todo
  /\ getLayer(c) = Layer
  /\ built < MaxLogic
  /\ built' = built + 1
  /\ queued' = [queued EXCEPT ![c] = [contract |-> c, number |-> built + 1]]
  /\ todo' = todo \ {c}
  /\ forgotten' = IF c \in Contracts /\ impl[c] = queued[c] THEN forgotten \cup {c}
                                                           ELSE forgotten
  /\ UNCHANGED <<chain, current, tmp, pc, at, interrupted>>

\* All have been seen, or one belongs to the other layer, which is an error.
endDeploying ==
  /\ pc = "deploying"
  /\ todo = {} \/ \E c \in todo : getLayer(c) # Layer
  /\ pc' = "idle" /\ todo' = {}
  /\ UNCHANGED <<chain, files, built, at, history>>

-----------------------------------------------------------------------------
(* updateImplementations *)

\* What is taken for deployed: the entry of tmp_deployment if there is one.
deploymentData(c) == IF tmp # NoFile THEN tmp[c] ELSE current[c]

\* The mistake of going on whatever the verification says.
unverified == TRUE

\* verifyCurrentImplementations; nothing is asked of the owner of the facets.
verifyCurrentImplementations ==
  \A c \in Contracts :
    /\ impl[c] = deploymentData(c)
    /\ isFacet(c) \/ admin[c] = expectedAdmin(c)

\* What the confirm prompt makes of the operator's answer.
Answers == {"true", "false"}

\* loadTmpDeployments goes on with the file only after this answer, which is
\* never given: what an update has left behind is not resumed.
resumes(answer) == answer = "Yes"

\* The start of updateImplementations.  tmp_deployment is created before the
\* signer is checked and the queue found empty, and stays if either ends the
\* task.
startUpdating(signer, answer) ==
  /\ pc = "idle"
  /\ tmp = NoFile \/ resumes(answer)
  /\ verifyCurrentImplementations
  /\ tmp' = [c \in Contracts |-> deploymentData(c)]
  /\ LET contractsToUpdate == {c \in Names : queued[c] # NoLogic}
     IN  IF signer = ProxyAdminOwner /\ contractsToUpdate # {}
         THEN pc' = "updating" /\ todo' = contractsToUpdate
         ELSE UNCHANGED <<pc, todo>>
  /\ UNCHANGED <<chain, queued, current, built, at, history>>

\* Contracts without an entry are passed over and stay queued.
skipUnrecognized(c) ==
  /\ pc = "updating" /\ c \in todo \ Contracts
  /\ todo' = todo \ {c}
  /\ UNCHANGED <<chain, files, built, pc, at, history>>

\* The mistake of exchanging the facets.
swappedFacets(c) ==
  [d \in Contracts |-> IF isFacet(c) /\ isFacet(d)
                       THEN IF c = d THEN tmp[d] ELSE queued[c]
                       ELSE IF d = c THEN queued[c] ELSE impl[d]]

\* The implementations after the upgrade of one: setFacets sets both facets,
\* the other to what is on record; the other calls touch one contract only,
\* and postUpgradeInit changes nothing.
upgraded(c) ==
  [d \in Contracts |-> IF d = c THEN queued[c]
                       ELSE IF isFacet(c) /\ isFacet(d) THEN tmp[d]
                       ELSE impl[d]]

\* The transaction of one update, in whatever order the sort leaves them.
upgrade(c) ==
  /\ pc = "updating" /\ c \in todo \cap Contracts
  /\ isFacet(c) \/ admin[c] = expectedAdmin(c)
  /\ hasPostInitHook(c) => admin[c] = "ProxyAdmin"     \* postUpgradeInit
  /\ impl' = upgraded(c)
  /\ pc' = "upgraded" /\ at' = c
  /\ UNCHANGED <<admin, files, built, todo, history>>

\* The mistake of removing the update from the queue first.
dequeueFirst ==
  /\ pc = "upgraded"
  /\ queued' = [queued EXCEPT ![at] = NoLogic]
  /\ pc' = "recorded"
  /\ UNCHANGED <<chain, current, tmp, built, todo, at, history>>

\* The new implementation is written to tmp_deployment.
recordUpgrade ==
  /\ pc = "upgraded"
  /\ tmp' = [tmp EXCEPT ![at] = queued[at]]
  /\ pc' = "recorded"
  /\ UNCHANGED <<chain, queued, current, built, todo, at, history>>

\* Then the update is removed from queued-updates.
dequeue ==
  /\ pc = "recorded"
  /\ queued' = [queued EXCEPT ![at] = NoLogic]
  /\ pc' = "updating" /\ todo' = todo \ {at}
  /\ UNCHANGED <<chain, current, tmp, built, at, history>>

\* The mistake of copying the records the task began with.
staleRecords == current

\* What is written to current_deployment when all updates are done.
finalRecords == tmp

copyRecords ==
  /\ pc = "updating" /\ todo = {}
  /\ current' = finalRecords
  /\ pc' = "copied"
  /\ UNCHANGED <<chain, queued, tmp, built, todo, at, history>>

\* tmp_deployment is removed; the verification that follows changes nothing.
unlinkTmp ==
  /\ pc = "copied"
  /\ tmp' = NoFile
  /\ pc' = "idle"
  /\ UNCHANGED <<chain, queued, current, built, todo, at, history>>

\* The task dies: killed, or by a transaction or a call that fails.
die ==
  /\ pc # "idle"
  /\ pc' = "idle" /\ todo' = {}
  /\ interrupted' = (interrupted \/ pc # "deploying")
  /\ UNCHANGED <<chain, files, built, at, forgotten>>

-----------------------------------------------------------------------------
\* transferAdmin of a proxy to another address than the owner of its admin.  It
\* looks at no file and may come between any two steps of another task.
transferAdmin(c, signer) ==
  /\ proxyType(c) = "TransparentProxy" /\ admin[c] = "ProxyAdmin"
  /\ signer = ProxyAdminOwner
  /\ admin' = [admin EXCEPT ![c] = "Elsewhere"]
  /\ UNCHANGED <<impl, files, built, task, history>>

\* The operator removes tmp_deployment by hand.
removeTmp ==
  /\ pc = "idle" /\ tmp # NoFile
  /\ tmp' = NoFile
  /\ forgotten' = forgotten \cup {c \in Contracts : tmp[c] # current[c]}
  /\ UNCHANGED <<chain, queued, current, built, task, interrupted>>

\* The operator brings current_deployment in line with the chain by hand.
mendRecords ==
  /\ pc = "idle" /\ interrupted
  /\ current' = impl /\ tmp' = NoFile
  /\ interrupted' = FALSE /\ forgotten' = {}
  /\ UNCHANGED <<chain, queued, built, task>>

updateStep ==
  \/ \E c \in Names : skipUnrecognized(c) \/ upgrade(c)
  \/ recordUpgrade \/ dequeue \/ copyRecords \/ unlinkTmp

Next ==
  \/ \E c \in Names : startDeploying({c})
  \/ deployLogicAll
  \/ \E c \in Names : skipQueued(c) \/ deployLogic(c)
  \/ endDeploying
  \/ \E signer \in Signers, answer \in Answers : startUpdating(signer, answer)
  \/ updateStep
  \/ die
  \/ \E c \in Contracts, signer \in Signers : transferAdmin(c, signer)
  \/ removeTmp
  \/ mendRecords

Spec == Init /\ [][Next]_vars

-----------------------------------------------------------------------------
\* Every contract runs logic that was built for it, whatever is upgraded, in
\* whatever order, and whatever the records say.
ImplementationsFit == \A c \in Contracts : impl[c].contract = c

\* An upgrade changes the implementation of one contract, though setFacets
\* writes both facets, the other to what the file says: the file, verified once
\* at the start, still tells the chain at each of the transactions.  And what
\* changes is in the hands the update expects at that moment, though admins may
\* be moved between the verification and the transaction.
OneVerifiedUpgrade ==
  [][\A c \in Contracts : impl'[c] # impl[c] =>
       /\ impl' = [impl EXCEPT ![c] = impl'[c]]
       /\ isFacet(c) \/ admin[c] = expectedAdmin(c)]_vars

\* Wherever a task dies, the implementation of a contract is on record or still
\* queued, unless the operator removed it from the files.
NothingForgotten ==
  \A c \in Contracts \ forgotten : impl[c] = deploymentData(c) \/ impl[c] = queued[c]

\* Unless an update was interrupted the records are those of the chain, when no
\* task runs.
RecordsMatchChain ==
  pc = "idle" /\ ~ interrupted => current = impl /\ tmp \in {NoFile, current}
=============================================================================
