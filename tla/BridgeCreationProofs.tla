------------------------ MODULE BridgeCreationProofs ------------------------
(***************************************************************************)
(* The safety properties of BridgeCreation and of the deployment it runs   *)
(* on, for all accounts, versions, outsiders and numbers of tickets; then  *)
(* those of DeploymentScripts, for any number of runs of either script.    *)
(***************************************************************************)
EXTENDS BridgeCreation, DeploymentScripts, FiniteSetTheorems, TLAPS

\* The templates are set together.
TemplatesComplete == templates.l1 # NoVersion => templates.code # NoVersion

\* The address on L2 of an account with the executor role.
EntitledOwner(a) ==
  \E o \in Executors : a = IF o \in ContractOwners THEN Alias[o] ELSE o

\* What SidesAreWired says of a deployment holds of every ticket that may make
\* one, and all of them come from the retryable sender.
TicketsWired ==
  \A m \in contractsTickets :
    /\ m.sender = RetryableSender
    /\ EntitledOwner(m.args.owner)
    /\ ~ overridden => m.args.l1 = inboxToL1Deployment

DInv == TypeOK /\ TemplatesComplete /\ FactoryIsCanonical /\ SidesAreWired /\ TicketsWired

Stages == {"idle", "ready", "waiting", "picked", "routed", "reported"}
Kinds == LocalKinds \cup {"target"}
TicketStatus == Ids \cup {NoTicket, Redeemed}

ScriptTypeOK ==
  /\ script \in [stage : Stages, kind : Kinds, factory : TicketStatus,
                 contracts : TicketStatus, l1 : VersionOrNone, hollow : BOOLEAN]
  /\ wethRoute \in VersionOrNone

\* The script looks at its tickets only while it waits; the first, once redeemed,
\* has used the creator's nonce, and the second, if it was redeemed where the
\* factory was, has deployed the contracts.  There is a recorded deployment.
Watching ==
  /\ script.stage # "waiting" => script.contracts = NoTicket
  /\ script.factory = Redeemed => nonceUsed[Creator]
  /\ script.contracts = Redeemed /\ ~ script.hollow => Canonical # NoVersion
  /\ script.stage = "waiting" /\ ~ overridden => inboxToL1Deployment # NoVersion

\* What is reported later holds from the moment the addresses are read.
PickedUp ==
  script.stage \in {"picked", "routed", "reported"} =>
    /\ nonceUsed[Creator]
    /\ script.hollow \/ Canonical # NoVersion
    /\ ~ overridden => script.l1 # NoVersion /\ script.l1 = inboxToL1Deployment

SInv == ScriptTypeOK /\ Watching /\ PickedUp /\ WethRouteOnWiredPair

IInv == DInv /\ SInv

-----------------------------------------------------------------------------
(* Each operation preserves the invariant of the deployment, and none of   *)
(* them replaces what is deployed or, but for the rollup's owner, what is  *)
(* recorded.                                                               *)

Kept ==
  /\ Canonical # NoVersion => Canonical' = Canonical
  /\ nonceUsed[Creator] => nonceUsed'[Creator]
  /\ overridden => overridden'
  /\ ~ overridden' /\ inboxToL1Deployment # NoVersion =>
       inboxToL1Deployment' = inboxToL1Deployment

\* A deployment is of L1 contracts that exist in some version.
LEMMA TypedCanonical ==
  ASSUME TypeOK
  PROVE  /\ Canonical \in Deployment \cup {NoVersion}
         /\ Canonical # NoVersion => Canonical.l1 \in Versions
BY DEF TypeOK, Canonical, canonicalSalt, Senders, Deployment

\* setTemplates sets all templates and touches no deployment.
LEMMA SetTemplatesStep ==
  ASSUME DInv, NEW new \in TemplateSets, setTemplates(new)
  PROVE  DInv' /\ Kept
<1> USE DeploymentAssumption
<1>1. new \in [l1 : Versions, code : Versions, gas : BOOLEAN]
  OBVIOUS
<1>2. TypeOK' /\ TemplatesComplete'
  BY <1>1 DEF DInv, TypeOK, TemplatesComplete, setTemplates, l2Vars, ticketVars,
              VersionOrNone
<1>3. FactoryIsCanonical' /\ SidesAreWired' /\ TicketsWired' /\ Kept
  BY DEF DInv, setTemplates, l2Vars, ticketVars, FactoryIsCanonical, SidesAreWired,
         TicketsWired, Kept, Canonical, canonicalSalt
<1> QED
  BY <1>2, <1>3 DEF DInv

\* The contracts named in a new ticket are those recorded after the call.
LEMMA CreateTokenBridgeStep ==
  ASSUME DInv, NEW rollupOwner \in Accounts, createTokenBridge(rollupOwner)
  PROVE  DInv' /\ Kept
<1> USE DeploymentAssumption
<1> DEFINE l1 == l1Deployment(isResend)
           args == [l1 |-> l1, code |-> templates.code,
                    owner |-> l2RollupOwner(rollupOwner)]
<1>1. /\ templates.l1 # NoVersion
      /\ rollupOwner \in Executors
      /\ UNCHANGED <<templates, overridden, nonceUsed, factory, l2Contracts, nonceBurnt>>
  BY DEF createTokenBridge, l2Vars
<1>2. templates.l1 \in Versions /\ templates.code \in Versions /\ templates.gas \in BOOLEAN
  BY <1>1 DEF DInv, TypeOK, TemplatesComplete, VersionOrNone
<1>3. l1 \in Versions
  BY <1>2 DEF l1Deployment, isResend, DInv, TypeOK, VersionOrNone
<1>4. EntitledOwner(args.owner) /\ args.owner \in Owners
  BY <1>1 DEF EntitledOwner, l2RollupOwner, Owners, Accounts
<1> DEFINE i == newId(factoryTickets)
           j == newId(contractsTickets)
<1>5. /\ i \in Ids
      /\ factoryTickets' = factoryTickets \cup {[id |-> i, gas |-> templates.gas]}
  BY DEF createTokenBridge, newId, freeIds
<1>6. /\ j \in Ids
      /\ contractsTickets' = contractsTickets \cup
           {[id |-> j, sender |-> RetryableSender, args |-> args]}
  BY DEF createTokenBridge, contractsSender, newId, freeIds
<1> HIDE DEF i, j
<1>7. /\ inboxToL1Deployment' = l1
      /\ isResend => inboxToL1Deployment' = inboxToL1Deployment
      /\ inboxToL2Deployment' \in VersionOrNone
      /\ l1Contracts' \subseteq Versions
  <2>1. CASE isResend
    BY <2>1, <1>3 DEF createTokenBridge, l1Deployment, isResend, DInv, TypeOK
  <2>2. CASE ~ isResend
    BY <2>2, <1>2, <1>3 DEF createTokenBridge, l1Deployment, DInv, TypeOK, VersionOrNone
  <2> QED
    BY <2>1, <2>2
<1>8. TypeOK'
  <2>1. [id |-> i, gas |-> templates.gas] \in [id : Ids, gas : BOOLEAN]
    BY <1>2, <1>5
  <2>2. args \in Deployment
    BY <1>2, <1>3, <1>4 DEF Deployment
  <2>3. [id |-> j, sender |-> RetryableSender, args |-> args]
          \in [id : Ids, sender : Senders, args : Deployment]
    BY <1>6, <2>2 DEF Senders
  <2>4. inboxToL1Deployment' \in VersionOrNone
    BY <1>3, <1>7 DEF VersionOrNone
  <2>5. factoryTickets' \subseteq [id : Ids, gas : BOOLEAN]
    BY <1>5, <2>1 DEF DInv, TypeOK
  <2>6. contractsTickets' \subseteq [id : Ids, sender : Senders, args : Deployment]
    BY <1>6, <2>3 DEF DInv, TypeOK
  <2> QED
    BY <1>1, <1>7, <2>4, <2>5, <2>6 DEF DInv, TypeOK
<1>9. TemplatesComplete' /\ FactoryIsCanonical' /\ Kept
  BY <1>1, <1>7 DEF DInv, TemplatesComplete, FactoryIsCanonical, isResend, Kept, Canonical,
                    canonicalSalt
\* Before the first call nothing is deployed, unless the owner intervened.
<1>10. ~ overridden /\ ~ isResend => contractsTickets = {} /\ Canonical = NoVersion
  <2> SUFFICES ASSUME ~ overridden, inboxToL1Deployment = NoVersion
               PROVE  contractsTickets = {} /\ Canonical = NoVersion
    BY DEF isResend
  <2>1. \A m \in contractsTickets : m.args.l1 \in Versions
    BY DEF DInv, TypeOK, Deployment
  <2>2. contractsTickets = {}
    BY <2>1 DEF DInv, TicketsWired
  <2>3. Canonical = NoVersion
    BY TypedCanonical DEF DInv, SidesAreWired
  <2> QED
    BY <2>2, <2>3
<1>11. SidesAreWired'
  BY <1>1, <1>7, <1>10 DEF DInv, SidesAreWired, Canonical, canonicalSalt
<1>12. TicketsWired'
  <2> SUFFICES ASSUME NEW m \in contractsTickets'
               PROVE  /\ m.sender = RetryableSender
                      /\ EntitledOwner(m.args.owner)
                      /\ ~ overridden => m.args.l1 = inboxToL1Deployment'
    BY <1>1 DEF TicketsWired, EntitledOwner
  <2>1. CASE m \in contractsTickets
    BY <2>1, <1>7, <1>10 DEF DInv, TicketsWired
  <2>2. CASE m = [id |-> j, sender |-> RetryableSender, args |-> args]
    BY <2>2, <1>4, <1>7
  <2> QED
    BY <1>6, <2>1, <2>2
<1> QED
  BY <1>8, <1>9, <1>11, <1>12 DEF DInv

\* setDeployment releases what is said of the record, and is noted.
LEMMA SetDeploymentStep ==
  ASSUME DInv, NEW d \in Overrides, setDeployment(d[1], d[2])
  PROVE  DInv' /\ Kept
<1>1. d[1] \in VersionOrNone /\ d[2] \in VersionOrNone
  BY DeploymentAssumption
<1> QED
  BY <1>1 DEF DInv, TypeOK, TemplatesComplete, FactoryIsCanonical, SidesAreWired,
              TicketsWired, EntitledOwner, setDeployment, l2Vars, ticketVars, Kept,
              Canonical, canonicalSalt

\* The first execution of a factory ticket creates the factory or burns the nonce.
LEMMA CreateFactoryStep ==
  ASSUME DInv, NEW m \in factoryTickets, createFactory(m) \/ createFactoryFails(m)
  PROVE  DInv' /\ Kept
<1>1. TypeOK'
  BY DEF DInv, TypeOK, createFactory, createFactoryFails, l1Vars, ticketVars, Senders
<1>2. FactoryIsCanonical'
  BY DEF DInv, TypeOK, createFactory, createFactoryFails, FactoryIsCanonical, Senders
<1>3. TemplatesComplete' /\ SidesAreWired' /\ TicketsWired' /\ Kept
  BY DEF DInv, createFactory, createFactoryFails, l1Vars, ticketVars, TemplatesComplete,
         TypeOK, Senders, SidesAreWired, TicketsWired, EntitledOwner, Kept, Canonical,
         canonicalSalt
<1> QED
  BY <1>1, <1>2, <1>3 DEF DInv

\* The retryable sender is not the account whose nonce decides the factory's
\* address.
LEMMA RedeemContractsStep ==
  ASSUME DInv, NEW m \in contractsTickets, redeemContracts(m)
  PROVE  DInv' /\ Kept /\ (factory => Canonical' # NoVersion)
<1> USE DeploymentAssumption
<1>1. /\ m.sender = RetryableSender
      /\ m.args \in Deployment
      /\ m.args # NoVersion
      /\ EntitledOwner(m.args.owner)
      /\ ~ overridden => m.args.l1 = inboxToL1Deployment
  <2>1. m.args \in Deployment
    BY DEF DInv, TypeOK
  <2> QED
    BY <2>1 DEF DInv, TicketsWired
<1>2. /\ contractsTickets' = contractsTickets \ {m}
      /\ nonceUsed' = [nonceUsed EXCEPT ![RetryableSender] = TRUE]
      /\ UNCHANGED <<templates, l1Contracts, inboxToL1Deployment, inboxToL2Deployment,
                     overridden, factoryTickets, factory, nonceBurnt>>
  BY <1>1 DEF redeemContracts, l1Vars
<1>3. TemplatesComplete' /\ FactoryIsCanonical' /\ TicketsWired'
  BY <1>2 DEF DInv, TypeOK, Senders, TemplatesComplete, FactoryIsCanonical, TicketsWired,
              EntitledOwner
<1>4. CASE factory
  <2>1. /\ Canonical = NoVersion
        /\ l2Contracts' = [l2Contracts EXCEPT ![RetryableSender] = m.args]
    BY <1>1, <1>4 DEF redeemContracts, deployL2Contracts, notYetDeployed, _getL2Salt,
                      Canonical, canonicalSalt
  <2>2. TypeOK'
    BY <1>1, <1>2, <2>1 DEF DInv, TypeOK, Senders
  <2>3. Canonical' = m.args
    BY <2>1 DEF Canonical, canonicalSalt, DInv, TypeOK, Senders
  <2>4. SidesAreWired'
    BY <1>1, <1>2, <2>3 DEF SidesAreWired, EntitledOwner
  <2> QED
    BY <1>1, <1>2, <1>3, <2>1, <2>2, <2>3, <2>4 DEF DInv, TypeOK, Senders, Kept
<1>5. CASE ~ factory
  <2>1. UNCHANGED l2Contracts
    BY <1>5 DEF redeemContracts
  <2>2. TypeOK'
    BY <1>2, <2>1 DEF DInv, TypeOK, Senders
  <2> QED
    BY <1>2, <1>3, <1>5, <2>1, <2>2 DEF DInv, TypeOK, Senders, SidesAreWired, Kept,
                                        Canonical, canonicalSalt
<1> QED
  BY <1>4, <1>5

\* deployL2Contracts called by another uses another salt.
LEMMA OutsiderStep ==
  ASSUME DInv, NEW sender \in Outsiders, NEW args \in OutsiderArgs,
         deployByOutsider(sender, args)
  PROVE  DInv' /\ Kept
<1> USE DeploymentAssumption
<1>1. l2Contracts' = [l2Contracts EXCEPT ![sender] = args] /\ sender # RetryableSender
  BY DEF deployByOutsider, deployL2Contracts, _getL2Salt
<1>2. TypeOK'
  BY <1>1 DEF DInv, TypeOK, deployByOutsider, l1Vars, ticketVars
<1>3. Canonical' = Canonical
  BY <1>1 DEF Canonical, canonicalSalt, DInv, TypeOK
<1> QED
  BY <1>2, <1>3 DEF DInv, deployByOutsider, l1Vars, ticketVars, TemplatesComplete,
                    FactoryIsCanonical, SidesAreWired, TicketsWired, EntitledOwner, Kept

\* A ticket that expires leaves everything as it was.
LEMMA DropStep ==
  ASSUME DInv, \/ \E m \in factoryTickets : dropFactory(m)
               \/ \E m \in contractsTickets : dropContracts(m)
  PROVE  DInv' /\ Kept
BY DEF DInv, TypeOK, dropFactory, dropContracts, l1Vars, l2Vars, TemplatesComplete,
       FactoryIsCanonical, SidesAreWired, TicketsWired, EntitledOwner, Kept, Canonical,
       canonicalSalt

-----------------------------------------------------------------------------
(* The script *)

\* What is deployed and recorded stays, so an operation during which the script
\* does nothing preserves its invariant.
LEMMA ScriptAside ==
  ASSUME SInv, Kept, UNCHANGED <<script, wethRoute>>
  PROVE  SInv'
BY DEF SInv, ScriptTypeOK, Watching, PickedUp, WethRouteOnWiredPair, Kept

\* What others do.
LEMMA OtherSteps ==
  ASSUME IInv, otherStep
  PROVE  DInv' /\ Kept
BY SetTemplatesStep, CreateTokenBridgeStep, SetDeploymentStep, CreateFactoryStep,
   OutsiderStep DEF IInv, otherStep

\* The script's ticket counts as redeemed with an effect only if the factory
\* was there, and then the contracts are.
LEMMA TicketSteps ==
  ASSUME IInv, ticketStep, UNCHANGED wethRoute
  PROVE  IInv' /\ Kept
<1> USE CreationAssumption
<1>1. ASSUME NEW m \in factoryTickets, NEW outcome \in {Redeemed, NoTicket},
             \/ createFactory(m) /\ outcome = Redeemed
             \/ dropFactory(m) /\ outcome = NoTicket,
             factoryTicketIs(m.id, outcome)
      PROVE  IInv' /\ Kept
  <2>1. DInv' /\ Kept
    BY <1>1, CreateFactoryStep, DropStep DEF IInv
  <2>2. outcome = Redeemed => nonceUsed'[Creator]
    BY <1>1 DEF createFactory, IInv, DInv, TypeOK, Senders
  <2>3. script' = script \/ script' = [script EXCEPT !.factory = outcome]
    BY <1>1 DEF factoryTicketIs
  <2>4. script'.stage = script.stage /\ script'.contracts = script.contracts
          /\ script'.l1 = script.l1 /\ script'.hollow = script.hollow
          /\ (script'.factory = Redeemed => script.factory = Redeemed \/ outcome = Redeemed)
    BY <2>3 DEF IInv, SInv, ScriptTypeOK
  <2>5. ScriptTypeOK'
    BY <2>3 DEF IInv, SInv, ScriptTypeOK, TicketStatus
  <2> QED
    BY <2>1, <2>2, <2>4, <2>5 DEF IInv, SInv, Watching, PickedUp, WethRouteOnWiredPair, Kept
<1>2. ASSUME NEW m \in contractsTickets, NEW outcome \in {Redeemed, NoTicket},
             \/ redeemContracts(m) /\ outcome = Redeemed
             \/ dropContracts(m) /\ outcome = NoTicket,
             contractsTicketIs(m.id, outcome)
      PROVE  IInv' /\ Kept
  <2>1. DInv' /\ Kept /\ (outcome = Redeemed /\ factory => Canonical' # NoVersion)
    BY <1>2, RedeemContractsStep, DropStep DEF IInv
  <2>2. CASE script.contracts # m.id
    BY <1>2, <2>1, <2>2, ScriptAside DEF contractsTicketIs, IInv
  <2>3. CASE script.contracts = m.id
    <3>1. script' = [script EXCEPT !.contracts = outcome,
                                   !.hollow = (outcome = Redeemed /\ ~ factory)]
      BY <1>2, <2>3 DEF contractsTicketIs
    <3>2. m.id \in Ids
      BY DEF IInv, DInv, TypeOK
    <3>3. script.stage = "waiting"
      BY <2>3, <3>2 DEF IInv, SInv, Watching
    <3>4. ScriptTypeOK'
      BY <3>1 DEF IInv, SInv, ScriptTypeOK, TicketStatus
    <3>5. /\ script'.stage = "waiting"
          /\ script'.contracts = outcome /\ script'.factory = script.factory
          /\ script'.hollow = (outcome = Redeemed /\ ~ factory)
      BY <3>1, <3>3 DEF IInv, SInv, ScriptTypeOK
    <3>6. Watching' /\ PickedUp'
      BY <3>3, <3>5, <2>1 DEF IInv, SInv, Kept, Watching, PickedUp
    <3> QED
      BY <2>1, <3>4, <3>6 DEF IInv, SInv, WethRouteOnWiredPair, Kept
  <2> QED
    BY <2>2, <2>3
<1> QED
  BY <1>1, <1>2 DEF ticketStep

\* A creator that gets its first templates.
LEMMA DeployCreatorStep ==
  ASSUME IInv, NEW new \in TemplateSets, NEW gasLimitGiven \in BOOLEAN,
         deployTokenBridgeCreator(new, gasLimitGiven)
  PROVE  IInv' /\ Kept
BY SetTemplatesStep, ScriptAside DEF IInv, deployTokenBridgeCreator

\* The local script's creator is a new one.
LEMMA SetupStep ==
  ASSUME IInv, NEW new \in TemplateSets, NEW kind \in LocalKinds,
         setupTokenBridgeInLocalEnv(new, kind)
  PROVE  IInv' /\ Kept
<1>1. DInv' /\ Kept
  BY SetTemplatesStep DEF IInv, setupTokenBridgeInLocalEnv
<1>2. script' = [idle EXCEPT !.stage = "ready", !.kind = kind] /\ wethRoute' = wethRoute
  BY DEF setupTokenBridgeInLocalEnv
<1>3. ScriptTypeOK' /\ Watching' /\ PickedUp'
  BY <1>2, CreationAssumption DEF idle, IInv, SInv, ScriptTypeOK, Stages, Kinds,
                                  TicketStatus, VersionOrNone, Watching, PickedUp
<1> QED
  BY <1>1, <1>2, <1>3 DEF IInv, SInv, WethRouteOnWiredPair, Kept

\* The tickets the script waits for are those its own call has sent.
LEMMA CallCreatorStep ==
  ASSUME IInv, NEW rollupOwner \in Accounts, NEW kind \in Kinds,
         callCreator(rollupOwner, kind)
  PROVE  IInv' /\ Kept
<1> USE CreationAssumption
<1>1. DInv' /\ Kept
  BY CreateTokenBridgeStep DEF IInv, callCreator
<1> DEFINE i == newId(factoryTickets)
           j == newId(contractsTickets)
<1>2. i \in Ids /\ j \in Ids
  BY DEF callCreator, createTokenBridge, newId, freeIds
<1>3. script' = [idle EXCEPT !.stage = "waiting", !.kind = kind, !.factory = i,
                             !.contracts = j]
  BY DEF callCreator
<1> HIDE DEF i, j
<1>4. ScriptTypeOK'
  BY <1>2, <1>3 DEF idle, IInv, SInv, ScriptTypeOK, Stages, TicketStatus, VersionOrNone,
                    callCreator
<1>5. inboxToL1Deployment' # NoVersion
  BY DeploymentAssumption DEF callCreator, createTokenBridge, isResend, l1Deployment
<1>6. Watching' /\ PickedUp'
  BY <1>2, <1>3, <1>5 DEF idle, Watching, PickedUp
<1> QED
  BY <1>1, <1>4, <1>6 DEF IInv, SInv, WethRouteOnWiredPair, Kept, callCreator

\* Steps of the script that touch no contract but the L1 router.
LEMMA OwnSteps ==
  ASSUME IInv, \/ pickUp \/ exit \/ registerGateway
               \/ reportOnTargetChain \/ reportInLocalEnv
  PROVE  IInv' /\ Kept
<1> USE CreationAssumption
<1>1. UNCHANGED vars
  BY DEF pickUp, exit, registerGateway, reportOnTargetChain, reportInLocalEnv, report
<1>2. /\ DInv' /\ Kept /\ Canonical' = Canonical
      /\ UNCHANGED <<overridden, nonceUsed, inboxToL1Deployment>>
  BY <1>1 DEF vars, l1Vars, l2Vars, ticketVars, IInv, DInv, TypeOK, TemplatesComplete,
              FactoryIsCanonical, SidesAreWired, TicketsWired, Kept, Canonical, canonicalSalt
<1>3. CASE pickUp
  <2>1. script' = [script EXCEPT !.stage = "picked", !.l1 = inboxToL1Deployment,
                                 !.factory = NoTicket, !.contracts = NoTicket]
    BY <1>3 DEF pickUp
  <2>2. /\ script.stage = "waiting"
        /\ script.factory = Redeemed /\ script.contracts = Redeemed
        /\ wethRoute' = wethRoute
    BY <1>3 DEF pickUp, bothRedeemed
  <2>3. ScriptTypeOK'
    BY <2>1, <2>2 DEF IInv, DInv, TypeOK, SInv, ScriptTypeOK, Stages, TicketStatus
  <2>4. /\ script'.stage = "picked"
        /\ script'.contracts = NoTicket /\ script'.factory = NoTicket
        /\ script'.l1 = inboxToL1Deployment /\ script'.hollow = script.hollow
    BY <2>1 DEF IInv, SInv, ScriptTypeOK
  <2>5. Watching' /\ PickedUp'
    BY <1>2, <2>2, <2>4 DEF IInv, SInv, Watching, PickedUp
  <2> QED
    BY <1>2, <2>2, <2>3, <2>5 DEF IInv, SInv, WethRouteOnWiredPair
<1>4. CASE exit
  BY <1>2, <1>4 DEF exit, idle, IInv, SInv, ScriptTypeOK, Stages, Kinds, TicketStatus,
                    VersionOrNone, Watching, PickedUp, WethRouteOnWiredPair
<1>5. CASE registerGateway
  <2>1. /\ script.stage = "picked" /\ script' = [script EXCEPT !.stage = "routed"]
        /\ wethRoute' = script.l1 /\ wethRoute' \in VersionOrNone
    BY <1>5 DEF registerGateway, IInv, SInv, ScriptTypeOK
  <2>2. WethRouteOnWiredPair'
    BY <1>2, <1>5, <2>1 DEF registerGateway, routersMeet, WethRouteOnWiredPair
  <2>3. /\ script'.stage = "routed"
        /\ script'.factory = script.factory /\ script'.contracts = script.contracts
        /\ script'.l1 = script.l1 /\ script'.hollow = script.hollow
        /\ ScriptTypeOK'
    BY <2>1 DEF IInv, SInv, ScriptTypeOK, Stages
  <2>4. Watching' /\ PickedUp'
    BY <1>2, <2>1, <2>3 DEF IInv, SInv, Watching, PickedUp
  <2> QED
    BY <1>2, <2>2, <2>3, <2>4 DEF IInv, SInv
<1>6. CASE reportOnTargetChain \/ reportInLocalEnv
  <2>1. /\ script.stage \in {"picked", "routed"}
        /\ script' = [idle EXCEPT !.stage = "reported", !.l1 = script.l1,
                                  !.hollow = script.hollow]
        /\ wethRoute' = wethRoute
    BY <1>6 DEF reportOnTargetChain, reportInLocalEnv, report
  <2>2. /\ script'.stage = "reported"
        /\ script'.factory = NoTicket /\ script'.contracts = NoTicket
        /\ script'.l1 = script.l1 /\ script'.hollow = script.hollow
    BY <2>1 DEF idle
  <2>3. ScriptTypeOK'
    BY <2>1 DEF idle, IInv, SInv, ScriptTypeOK, Stages, Kinds, TicketStatus
  <2>4. Watching' /\ PickedUp'
    BY <1>2, <2>1, <2>2 DEF IInv, SInv, Watching, PickedUp
  <2> QED
    BY <1>2, <2>1, <2>3, <2>4 DEF IInv, SInv, WethRouteOnWiredPair
<1> QED
  BY <1>3, <1>4, <1>5, <1>6

-----------------------------------------------------------------------------
\* Nothing is deployed, in flight or waited for at first.
LEMMA InitIInv == CreationInit => IInv
<1> SUFFICES ASSUME CreationInit PROVE IInv
  OBVIOUS
<1>1. TypeOK
  BY DEF CreationInit, Init, TypeOK, VersionOrNone
<1>2. Canonical = NoVersion
  BY DEF CreationInit, Init, Canonical, canonicalSalt, Senders
<1>3. TemplatesComplete /\ FactoryIsCanonical /\ SidesAreWired /\ TicketsWired
  BY <1>2 DEF CreationInit, Init, TemplatesComplete, FactoryIsCanonical, SidesAreWired,
              TicketsWired, Senders
<1>4. SInv
  BY CreationAssumption DEF CreationInit, idle, SInv, ScriptTypeOK, Stages, Kinds,
     TicketStatus, VersionOrNone, Watching, PickedUp, WethRouteOnWiredPair
<1> QED
  BY <1>1, <1>3, <1>4 DEF IInv, DInv

\* Every step of the contracts and of the scripts preserves the invariant and
\* the canonical deployment.
LEMMA NextIInv == IInv /\ [CreationNext]_creationVars => IInv' /\ Kept
<1> SUFFICES ASSUME IInv, [CreationNext]_creationVars PROVE IInv' /\ Kept
  OBVIOUS
<1>1. CASE otherStep /\ UNCHANGED <<script, wethRoute>>
  BY <1>1, OtherSteps, ScriptAside DEF IInv
<1>2. CASE ticketStep /\ UNCHANGED wethRoute
  BY <1>2, TicketSteps
<1>3. ASSUME NEW rollupOwner \in Accounts,
             \/ createTokenBridgeOnTargetChain(rollupOwner)
             \/ createTokenBridgeInLocalEnv(rollupOwner)
      PROVE  IInv' /\ Kept
  <2>1. script.kind \in Kinds /\ "target" \in Kinds
    BY DEF IInv, SInv, ScriptTypeOK, Kinds
  <2> QED
    BY <1>3, <2>1, CallCreatorStep DEF createTokenBridgeOnTargetChain,
                                       createTokenBridgeInLocalEnv
<1>4. CASE pickUp \/ exit \/ registerGateway \/ reportOnTargetChain \/ reportInLocalEnv
  BY <1>4, OwnSteps
<1>5. ASSUME NEW new \in TemplateSets, NEW kind \in LocalKinds,
             setupTokenBridgeInLocalEnv(new, kind)
      PROVE  IInv' /\ Kept
  BY <1>5, SetupStep
<1>6. ASSUME NEW new \in TemplateSets, NEW gasLimitGiven \in BOOLEAN,
             deployTokenBridgeCreator(new, gasLimitGiven)
      PROVE  IInv' /\ Kept
  BY <1>6, DeployCreatorStep
<1>7. CASE UNCHANGED creationVars
  <2>1. DInv' /\ Kept
    BY <1>7 DEF creationVars, vars, l1Vars, l2Vars, ticketVars, IInv, DInv, TypeOK,
         TemplatesComplete, FactoryIsCanonical, SidesAreWired, TicketsWired, Kept,
         Canonical, canonicalSalt
  <2> QED
    BY <1>7, <2>1, ScriptAside DEF creationVars, vars, l1Vars, IInv
<1> QED
  BY <1>1, <1>2, <1>3, <1>4, <1>5, <1>6, <1>7 DEF CreationNext

-----------------------------------------------------------------------------
\* The invariant holds in every reachable state.
THEOREM Invariance == CreationSpec => []IInv
<1>1. IInv /\ [CreationNext]_creationVars => IInv'
  BY NextIInv
<1> QED
  BY InitIInv, <1>1, PTL DEF CreationSpec

\* Only a creation that runs out of gas takes the canonical address from the
\* factory, however many tickets createTokenBridge has sent.
THEOREM CanonicalFactory == CreationSpec => []FactoryIsCanonical
<1>1. IInv => FactoryIsCanonical
  BY DEF IInv, DInv
<1> QED
  BY <1>1, Invariance, PTL

\* What deployL2Contracts deployed for the creator belongs to the recorded L1
\* contracts and to an executor, for any templates, resends and outsiders.
THEOREM Wiring == CreationSpec => []SidesAreWired
<1>1. IInv => SidesAreWired
  BY DEF IInv, DInv
<1> QED
  BY <1>1, Invariance, PTL

\* The contracts at the addresses the creation scripts report exist and belong
\* together, or, if the second ticket was executed without a factory, the factory
\* is there to deploy just those.
THEOREM Reporting == CreationSpec => []ReportedIsDeployed
<1>1. IInv => ReportedIsDeployed
  BY DEF IInv, DInv, FactoryIsCanonical, SidesAreWired, SInv, PickedUp, ReportedIsDeployed
<1> QED
  BY <1>1, Invariance, PTL

\* registerGateway routes WETH only where the routers know each other.
THEOREM WethRouting == CreationSpec => []WethRouteOnWiredPair
<1>1. IInv => WethRouteOnWiredPair
  BY DEF IInv, SInv
<1> QED
  BY <1>1, Invariance, PTL

-----------------------------------------------------------------------------
(* What the scripts of DeploymentScripts have in common.                   *)

\* The steps of script p that call an initializer of c.
InitsOf(p, c) == {j \in 1 .. Len(p) : p[j].op = "initialize" /\ c \in p[j].contracts}

\* The steps after which contracts are used by others.
Publishing == {"setTemplates", "setGateways", "prepare"}

\* What matters of a script p that deploys the contracts C, those in D to be called.
Careful(p, C, D) ==
  /\ Len(p) \in Nat
  /\ \A j \in 1 .. Len(p) : p[j].op = "deploy" => p[j].contracts \subseteq C
  /\ \A c \in D : Cardinality(InitsOf(p, c)) = initializers(c)
  /\ \A j, k \in 1 .. Len(p) : p[j].op = "initialize" /\ p[k].op \in Publishing => j < k

\* Sets of step numbers with no, one and four elements.
LEMMA SmallSets ==
  /\ Cardinality({}) = 0
  /\ \A a : Cardinality({a}) = 1
  /\ \A a \in Nat : Cardinality(a .. a + 3) = 4
<1>1. Cardinality({}) = 0 /\ \A a : Cardinality({a}) = 1
  BY FS_EmptySet, FS_Singleton
<1>2. ASSUME NEW a \in Nat  PROVE Cardinality(a .. a + 3) = 4
  <2>1. a \in Int /\ a + 3 \in Int /\ ~ (a > a + 3) /\ (a + 3) - a + 1 = 4
    OBVIOUS
  <2> QED  BY <2>1, FS_Interval
<1> QED  BY <1>1, <1>2

\* deployL1TokenBridgeCreator initializes all that it deploys, and then publishes.
LEMMA CreatorCareful ==
  Careful(deployL1TokenBridgeCreator, ContractsOf("creator"), Called("creator"))
<1> DEFINE p == deployL1TokenBridgeCreator
<1>0. Called("creator") = ContractsOf("creator")
  BY DEF Called, ContractsOf, gatewayLogics
<1> SUFFICES Careful(p, ContractsOf("creator"), ContractsOf("creator"))
  BY <1>0
<1> USE DEF deployL1TokenBridgeCreator, creatorSteps, l1Templates, l2Templates,
            template, step, deploy, initialize
<1>1. Len(p) = 28
  OBVIOUS
<1>2. \A j \in 1 .. 28 : p[j].op = "deploy" => p[j].contracts \subseteq ContractsOf("creator")
  BY DEF ContractsOf
<1>3. \A j, k \in 1 .. 28 : p[j].op = "initialize" /\ p[k].op \in Publishing => j < k
  <2>1. \A k \in 1 .. 28 : p[k].op \in Publishing => k = 28
    BY DEF Publishing
  <2>2. p[28].op # "initialize"
    OBVIOUS
  <2> HIDE DEF p
  <2> QED  BY <2>1, <2>2
<1>4. \A c \in ContractsOf("creator") : \E n : InitsOf(p, c) = {n}
  <2>1. \A j \in 1 .. 28 : p[j].op = "initialize" <=>
          j \in {4, 5, 7, 9, 11, 13, 15, 17, 19, 21, 23, 25, 27}
    OBVIOUS
  <2>2. /\ p[4].contracts = {"senderLogic"}
        /\ p[5].contracts = {"creatorProxy", "senderProxy"}
        /\ p[7].contracts = {"routerTemplate"}
        /\ p[9].contracts = {"standardGatewayTemplate"}
        /\ p[11].contracts = {"customGatewayTemplate"}
        /\ p[13].contracts = {"wethGatewayTemplate"}
        /\ p[15].contracts = {"feeTokenBasedRouterTemplate"}
        /\ p[17].contracts = {"feeTokenBasedStandardGatewayTemplate"}
        /\ p[19].contracts = {"feeTokenBasedCustomGatewayTemplate"}
        /\ p[21].contracts = {"l2GatewayRouterOnL1"}
        /\ p[23].contracts = {"l2StandardGatewayAddressOnL1"}
        /\ p[25].contracts = {"l2CustomGatewayAddressOnL1"}
        /\ p[27].contracts = {"l2WethGatewayAddressOnL1"}
    OBVIOUS
  <2> HIDE DEF p
  <2>3. /\ InitsOf(p, "senderLogic") = {4}
        /\ InitsOf(p, "creatorProxy") = {5} /\ InitsOf(p, "senderProxy") = {5}
    BY <1>1, <2>1, <2>2 DEF InitsOf
  <2>4. /\ InitsOf(p, "routerTemplate") = {7}
        /\ InitsOf(p, "standardGatewayTemplate") = {9}
        /\ InitsOf(p, "customGatewayTemplate") = {11}
        /\ InitsOf(p, "wethGatewayTemplate") = {13}
    BY <1>1, <2>1, <2>2 DEF InitsOf
  <2>5. /\ InitsOf(p, "feeTokenBasedRouterTemplate") = {15}
        /\ InitsOf(p, "feeTokenBasedStandardGatewayTemplate") = {17}
        /\ InitsOf(p, "feeTokenBasedCustomGatewayTemplate") = {19}
    BY <1>1, <2>1, <2>2 DEF InitsOf
  <2>6. /\ InitsOf(p, "l2GatewayRouterOnL1") = {21}
        /\ InitsOf(p, "l2StandardGatewayAddressOnL1") = {23}
        /\ InitsOf(p, "l2CustomGatewayAddressOnL1") = {25}
        /\ InitsOf(p, "l2WethGatewayAddressOnL1") = {27}
    BY <1>1, <2>1, <2>2 DEF InitsOf
  <2> QED  BY <2>3, <2>4, <2>5, <2>6 DEF ContractsOf
<1>5. \A c \in ContractsOf("creator") : initializers(c) = 1
  <2> HIDE DEF p
  <2> QED  BY DEF ContractsOf, initializers, usdcContracts, proxyAdmins
<1> HIDE DEF p
<1>6. \A c \in ContractsOf("creator") : Cardinality(InitsOf(p, c)) = initializers(c)
  BY <1>4, <1>5, SmallSets
<1> QED  BY <1>1, <1>2, <1>3, <1>6 DEF Careful

\* Where the USDC script deploys, initializes and publishes, in any of its forms.
UsdcSteps(p) ==
  /\ Len(p) \in 27 .. 30
  /\ \A j \in 1 .. Len(p) : /\ p[j].op = "deploy" => p[j].contracts \subseteq ContractsOf("usdc")
                            /\ p[j].op = "initialize" <=>
                                 j \in {7, 8, 9, 10, 12, 13, 14, 15, 21, 22}
                            /\ p[j].op \in Publishing => j > 24
  /\ \A j \in {7, 8, 9, 10} : p[j].contracts = {"usdcProxy"}
  /\ \A j \in {12, 13, 14, 15} : p[j].contracts = {"usdcLogic"}
  /\ p[21].contracts = {"l1Gateway"} /\ p[22].contracts = {"l2Gateway"}

\* Where it registers the gateway with the owner's key.
RegistersAt(p, s) ==
  /\ s \in 1 .. Len(p) - 1
  /\ \A j \in 1 .. Len(p) : /\ p[j].op # "prepare"
                            /\ p[j].op = "setGateways" <=> j = s
                            /\ p[j].op = "waitOnL2Msg" <=> j = s + 1

\* The four forms of deployUsdcBridge, which differ in the registration.
LEMMA UsdcForms ==
  /\ UsdcSteps(deployUsdcBridge(TRUE, TRUE)) /\ RegistersAt(deployUsdcBridge(TRUE, TRUE), 27)
  /\ UsdcSteps(deployUsdcBridge(FALSE, TRUE)) /\ RegistersAt(deployUsdcBridge(FALSE, TRUE), 25)
  /\ UsdcSteps(deployUsdcBridge(TRUE, FALSE)) /\ UsdcSteps(deployUsdcBridge(FALSE, FALSE))
<1> USE DEF deployUsdcBridge, _deployProxyAdmin, _deployBridgedUsdc, _deployUsdcProxy,
            initializeFiatToken,
            _deployL1UsdcGateway, _deployL2UsdcGateway, _initializeGateways, _registerGateway,
            _addMinterRoleToL2Gateway, step, deploy, initialize
<1> USE DEF UsdcSteps, ContractsOf, proxyAdmins, usdcContracts, gatewayLogics, Publishing
<1>1. UsdcSteps(deployUsdcBridge(TRUE, TRUE))
  OBVIOUS
<1>2. UsdcSteps(deployUsdcBridge(FALSE, TRUE))
  OBVIOUS
<1>3. UsdcSteps(deployUsdcBridge(TRUE, FALSE))
  OBVIOUS
<1>4. UsdcSteps(deployUsdcBridge(FALSE, FALSE))
  OBVIOUS
<1>5. RegistersAt(deployUsdcBridge(TRUE, TRUE), 27)
  BY DEF RegistersAt
<1>6. RegistersAt(deployUsdcBridge(FALSE, TRUE), 25)
  BY DEF RegistersAt
<1> HIDE DEF UsdcSteps, deployUsdcBridge
<1> QED  BY <1>1, <1>2, <1>3, <1>4, <1>5, <1>6

\* So does deployUsdcBridge, with and without a fee token and the owner's key.
LEMMA UsdcCareful ==
  ASSUME NEW feeToken \in BOOLEAN, NEW ownerKey \in BOOLEAN
  PROVE  /\ Careful(deployUsdcBridge(feeToken, ownerKey), ContractsOf("usdc"), Called("usdc"))
         /\ ownerKey => \E s \in Nat : RegistersAt(deployUsdcBridge(feeToken, ownerKey), s)
<1> DEFINE p == deployUsdcBridge(feeToken, ownerKey)
<1>1. UsdcSteps(p) /\ (ownerKey => \E s \in Nat : RegistersAt(p, s))
  <2>1. CASE feeToken = TRUE /\ ownerKey = TRUE
    BY <2>1, UsdcForms
  <2>2. CASE feeToken = FALSE /\ ownerKey = TRUE
    BY <2>2, UsdcForms
  <2>3. CASE feeToken = TRUE /\ ownerKey = FALSE
    BY <2>3, UsdcForms
  <2>4. CASE feeToken = FALSE /\ ownerKey = FALSE
    BY <2>4, UsdcForms
  <2> QED  BY <2>1, <2>2, <2>3, <2>4
<1> HIDE DEF p
<1> SUFFICES /\ Careful(p, ContractsOf("usdc"), Called("usdc"))
             /\ ownerKey => \E s \in Nat : RegistersAt(p, s)
  BY DEF p
<1>2. Cardinality(7 .. 10) = 4 /\ Cardinality(12 .. 15) = 4
  <2>1. 10 = 7 + 3 /\ 15 = 12 + 3 /\ 7 \in Nat /\ 12 \in Nat
    OBVIOUS
  <2>2. Cardinality(7 .. 7 + 3) = 4 /\ Cardinality(12 .. 12 + 3) = 4
    BY <2>1, SmallSets, Zenon
  <2> QED  BY <2>1, <2>2
<1>3. \A c \in Called("usdc") : Cardinality(InitsOf(p, c)) = initializers(c)
  <2>0. /\ InitsOf(p, "usdcProxy") = 7 .. 10 /\ InitsOf(p, "usdcLogic") = 12 .. 15
        /\ InitsOf(p, "l1Gateway") = {21} /\ InitsOf(p, "l2Gateway") = {22}
        /\ InitsOf(p, "masterMinter") = {}
        /\ InitsOf(p, "l1ProxyAdmin") = {} /\ InitsOf(p, "l2ProxyAdmin") = {}
    <3> DEFINE J == {7, 8, 9, 10, 12, 13, 14, 15, 21, 22}
    <3>1. ASSUME NEW c  PROVE InitsOf(p, c) = {j \in J : c \in p[j].contracts}
      BY <1>1 DEF UsdcSteps, InitsOf
    <3>2. /\ \A j \in {7, 8, 9, 10} : p[j].contracts = {"usdcProxy"}
          /\ \A j \in {12, 13, 14, 15} : p[j].contracts = {"usdcLogic"}
          /\ p[21].contracts = {"l1Gateway"} /\ p[22].contracts = {"l2Gateway"}
      BY <1>1 DEF UsdcSteps
    <3> HIDE DEF InitsOf
    <3>3. InitsOf(p, "usdcProxy") = 7 .. 10 /\ InitsOf(p, "usdcLogic") = 12 .. 15
      BY <3>1, <3>2
    <3>4. /\ InitsOf(p, "l1Gateway") = {21} /\ InitsOf(p, "l2Gateway") = {22}
          /\ InitsOf(p, "masterMinter") = {}
          /\ InitsOf(p, "l1ProxyAdmin") = {} /\ InitsOf(p, "l2ProxyAdmin") = {}
      BY <3>1, <3>2
    <3> QED  BY <3>3, <3>4
  <2>1. /\ Cardinality(InitsOf(p, "usdcProxy")) = 4 /\ Cardinality(InitsOf(p, "usdcLogic")) = 4
        /\ Cardinality(InitsOf(p, "l1Gateway")) = 1 /\ Cardinality(InitsOf(p, "l2Gateway")) = 1
        /\ Cardinality(InitsOf(p, "masterMinter")) = 0
        /\ Cardinality(InitsOf(p, "l1ProxyAdmin")) = 0
        /\ Cardinality(InitsOf(p, "l2ProxyAdmin")) = 0
    BY <2>0, <1>2, SmallSets, Zenon
  <2>2. Called("usdc") = {"l1ProxyAdmin", "l2ProxyAdmin", "usdcLogic", "usdcProxy",
                           "masterMinter", "l1Gateway", "l2Gateway"}
    BY DEF Called, ContractsOf, gatewayLogics, usdcContracts, proxyAdmins
  <2> QED  BY <2>1, <2>2 DEF initializers, usdcContracts, proxyAdmins
<1>4. Careful(p, ContractsOf("usdc"), Called("usdc"))
  BY <1>1, <1>3 DEF Careful, UsdcSteps
<1> QED  BY <1>1, <1>4

-----------------------------------------------------------------------------
(* The invariant of the runs of a script.                                  *)

\* How far the last run has come: its contracts' initializers called so far are
\* those of the steps before the next one, and runs to come have called none.
Progress ==
  /\ status \in {"running", "done"} => run \in Runs
  /\ status = "running" => at <= Len(Program)
  /\ status = "done" => at = Len(Program) + 1
  /\ run \in Runs => \A c \in Called(chain.script) :
       initialized[run][c] = Cardinality({j \in InitsOf(Program, c) : j < at})
  /\ \A r \in Runs : r > run => \A c \in Contracts : initialized[r][c] = 0

\* A script never calls the last initializer of a contract somebody else has
\* called one of.
TakenEarly == \A r \in Runs : \A c \in taken[r] : initialized[r][c] < initializers(c)

InUse(r) == r \in {l1Route, l2Route} \cup templatesSet \cup prepared \/ tickets[r] # "none"

\* Whatever leads to a run's contracts, or may do so later, is made for a run
\* that owns all of them.
UsedOwned == \A r \in Runs : InUse(r) => Owned(r)

Passed(op) == \E j \in 1 .. Len(Program) : j < at /\ Program[j].op = op

\* With the owner's key, only the last run registers, and the L2 router has the
\* gateway of the last ticket redeemed.
OwnerRegisters ==
  chain.script = "usdc" /\ chain.ownerKey =>
    /\ prepared = {}
    /\ Passed("setGateways") => l1Route = run
    /\ Passed("waitOnL2Msg") => tickets[run] = "redeemed"
    /\ \A r \in Runs : tickets[r] # "none" => r <= run /\ (r = run => Passed("setGateways"))
    /\ l2Route # NoRun => tickets[l2Route] = "redeemed"
    /\ ~ overtaken => \A r \in Runs : tickets[r] = "redeemed" => r <= l2Route

DeploymentTypeOK ==
  /\ chain \in Chains
  /\ run \in 0 .. MaxRuns /\ status \in {"running", "failed", "done"}
  /\ at \in 1 .. Len(Program) + 1
  /\ deployed \in [Runs -> SUBSET ContractsOf(chain.script)]
  /\ initialized \in [Runs -> [Contracts -> Nat]]
  /\ taken \in [Runs -> SUBSET ContractsOf(chain.script)]
  /\ prepared \subseteq Runs /\ templatesSet \subseteq Runs
  /\ l1Route \in 0 .. MaxRuns /\ l2Route \in 0 .. MaxRuns
  /\ tickets \in [Runs -> {"none", "created", "held", "redeemed", "expired"}]
  /\ overtaken \in BOOLEAN

DeploymentInv == DeploymentTypeOK /\ Progress /\ TakenEarly /\ UsedOwned /\ OwnerRegisters

\* So does the script the operator runs, whichever it is.
LEMMA ProgramCareful ==
  ASSUME chain \in Chains
  PROVE  /\ Careful(Program, ContractsOf(chain.script), Called(chain.script))
         /\ chain.script = "usdc" /\ chain.ownerKey => \E s \in Nat : RegistersAt(Program, s)
<1>1. chain.script \in {"creator", "usdc"} /\ {chain.feeToken, chain.ownerKey} \subseteq BOOLEAN
  BY ScriptsAssumption DEF Chains
<1>2. CASE chain.script = "creator"
  BY <1>2, CreatorCareful DEF Program
<1>3. CASE chain.script = "usdc"
  BY <1>1, <1>3, UsdcCareful DEF Program
<1> QED  BY <1>1, <1>2, <1>3

\* The contracts of the script that is run have counters.
LEMMA KnownContracts ==
  ASSUME chain \in Chains
  PROVE  /\ ContractsOf(chain.script) \subseteq Contracts
         /\ Called(chain.script) \subseteq Contracts
<1>1. chain.script \in {"creator", "usdc"}
  BY ScriptsAssumption DEF Chains
<1> QED  BY <1>1 DEF Contracts, Called

\* The initializers called before step n are finitely many, at most all of
\* them, and one more after a step that calls one.
LEMMA InitsCounted ==
  ASSUME NEW p, Len(p) \in Nat, NEW c, NEW n \in Nat,
         Cardinality(InitsOf(p, c)) = initializers(c)
  PROVE  /\ initializers(c) \in Nat
         /\ Cardinality({j \in InitsOf(p, c) : j < n}) \in Nat
         /\ Cardinality({j \in InitsOf(p, c) : j < n}) <= initializers(c)
         /\ Cardinality({j \in InitsOf(p, c) : j < n + 1}) =
              Cardinality({j \in InitsOf(p, c) : j < n}) + IF n \in InitsOf(p, c) THEN 1 ELSE 0
<1> DEFINE I == InitsOf(p, c)
           Before(m) == {j \in I : j < m}
<1>1. IsFiniteSet(I) /\ I \subseteq Nat
  <2>1. IsFiniteSet(1 .. Len(p))
    BY FS_Interval
  <2> QED  BY <2>1, FS_Subset DEF InitsOf
<1>2. \A m \in Nat : IsFiniteSet(Before(m)) /\ Cardinality(Before(m)) <= Cardinality(I)
  BY <1>1, FS_Subset
<1>3. \A m \in Nat : Cardinality(Before(m)) \in Nat
  BY <1>2, FS_CardinalityType
<1>4. Cardinality(I) \in Nat
  BY <1>1, FS_CardinalityType
<1>5. n \in I => Cardinality(Before(n + 1)) = Cardinality(Before(n)) + 1
  <2> SUFFICES ASSUME n \in I
               PROVE  Cardinality(Before(n + 1)) = Cardinality(Before(n)) + 1
    OBVIOUS
  <2>1. Before(n + 1) = Before(n) \cup {n} /\ n \notin Before(n)
    BY <1>1
  <2> QED  BY <1>2, <2>1, FS_AddElement
<1>6. n \notin I => Before(n + 1) = Before(n)
  BY <1>1
<1> SUFFICES /\ Cardinality(I) \in Nat /\ Cardinality(Before(n)) \in Nat
             /\ Cardinality(Before(n)) <= Cardinality(I)
             /\ Cardinality(Before(n + 1)) = Cardinality(Before(n)) + IF n \in I THEN 1 ELSE 0
  OBVIOUS
<1> HIDE DEF I, Before
<1>7. Cardinality(Before(n)) \in Nat /\ Cardinality(Before(n)) <= Cardinality(I)
  BY <1>2, <1>3
<1>8. CASE n \in I
  BY <1>4, <1>5, <1>7, <1>8
<1>9. CASE n \notin I
  <2>1. Before(n + 1) = Before(n)
    BY <1>6, <1>9
  <2> QED  BY <1>4, <1>7, <1>9, <2>1
<1> QED  BY <1>8, <1>9

\* A run that has passed all its initialize steps owns its contracts.
LEMMA AllInitialized ==
  ASSUME DeploymentInv, run \in Runs,
         \A j \in 1 .. Len(Program) : Program[j].op = "initialize" => j < at
  PROVE  Owned(run)
<1> DEFINE C == Called(chain.script)
<1>1. Careful(Program, ContractsOf(chain.script), C)
  BY ProgramCareful DEF DeploymentInv, DeploymentTypeOK
<1>2. \A c \in C : {j \in InitsOf(Program, c) : j < at} = InitsOf(Program, c)
  BY DEF InitsOf
<1>3. \A c \in C : initialized[run][c] = initializers(c)
  BY <1>1, <1>2 DEF DeploymentInv, Progress, Careful
<1>4. \A c \in C : initializers(c) \in Nat
  BY DEF initializers
<1>5. \A c \in C : c \notin taken[run]
  BY <1>3, <1>4 DEF DeploymentInv, TakenEarly, DeploymentTypeOK
<1> QED  BY <1>3, <1>5 DEF Owned

\* So does one that publishes.
LEMMA PublishedOwned ==
  ASSUME DeploymentInv, status = "running", Program[at].op \in Publishing
  PROVE  run \in Runs /\ Owned(run)
<1>1. run \in Runs /\ at \in 1 .. Len(Program)
  <2>1. Len(Program) \in Nat
    BY ProgramCareful DEF DeploymentInv, DeploymentTypeOK, Careful
  <2> QED  BY <2>1 DEF DeploymentInv, DeploymentTypeOK, Progress
<1>2. \A j \in 1 .. Len(Program) : Program[j].op = "initialize" => j < at
  BY <1>1, ProgramCareful DEF Careful, DeploymentInv, DeploymentTypeOK
<1> QED  BY <1>1, <1>2, AllInitialized

\* A run that is done owns its contracts.
LEMMA DoneOwned ==
  ASSUME DeploymentInv, status = "done"
  PROVE  Owned(run)
<1>1. Len(Program) \in Nat
  BY ProgramCareful DEF DeploymentInv, DeploymentTypeOK, Careful
<1>2. \A j \in 1 .. Len(Program) : j < at
  BY <1>1 DEF DeploymentInv, Progress
<1> QED  BY <1>2, AllInitialized DEF DeploymentInv, Progress

\* Before the first run nothing is deployed, taken or in use.
LEMMA DeploymentInitially == ScriptsInit => DeploymentInv
<1> SUFFICES ASSUME ScriptsInit  PROVE DeploymentInv
  OBVIOUS
<1> USE DEF ScriptsInit
<1>1. chain \in Chains /\ Len(Program) \in Nat
  <2>1. chain \in Chains
    OBVIOUS
  <2> QED  BY <2>1, ProgramCareful DEF Careful
<1>2. DeploymentTypeOK
  <2>1. at \in 1 .. Len(Program) + 1 /\ {run, l1Route, l2Route} \subseteq 0 .. MaxRuns
    BY <1>1, ScriptsAssumption DEF NoRun
  <2>2. /\ deployed \in [Runs -> SUBSET ContractsOf(chain.script)]
        /\ taken \in [Runs -> SUBSET ContractsOf(chain.script)]
        /\ initialized \in [Runs -> [Contracts -> Nat]]
        /\ tickets \in [Runs -> {"none", "created", "held", "redeemed", "expired"}]
    OBVIOUS
  <2> QED  BY <1>1, <2>1, <2>2 DEF DeploymentTypeOK
<1>3. Progress
  BY ScriptsAssumption DEF Progress, NoRun, Runs
<1>4. TakenEarly /\ UsedOwned
  BY ScriptsAssumption DEF TakenEarly, UsedOwned, InUse, NoRun, Runs
<1>5. OwnerRegisters
  <2>1. ~ Passed("setGateways") /\ ~ Passed("waitOnL2Msg")
    BY DEF Passed
  <2> QED  BY <2>1 DEF OwnerRegisters
<1> QED  BY <1>2, <1>3, <1>4, <1>5 DEF DeploymentInv

\* Where a running script stands, and what it leaves as it is when it takes a step.
LEMMA Running ==
  ASSUME DeploymentInv
  PROVE  /\ Len(Program) \in Nat /\ at \in Nat
         /\ Careful(Program, ContractsOf(chain.script), Called(chain.script))
         /\ status = "running" => run \in Runs /\ at \in 1 .. Len(Program)
<1>1. Careful(Program, ContractsOf(chain.script), Called(chain.script)) /\ Len(Program) \in Nat
  BY ProgramCareful DEF DeploymentInv, DeploymentTypeOK, Careful
<1> QED  BY <1>1 DEF DeploymentInv, DeploymentTypeOK, Progress

\* What every step of a script does to its own progress.
LEMMA StepDone ==
  ASSUME DeploymentInv, NEW op, does(op)
  PROVE  /\ run \in Runs /\ at \in 1 .. Len(Program) /\ Program[at].op = op
         /\ chain' = chain /\ run' = run /\ at' = at + 1
         /\ Program' = Program
         /\ at' \in 1 .. Len(Program') + 1 /\ status' \in {"running", "done"}
         /\ status' = "running" => at' <= Len(Program')
         /\ status' = "done" => at' = Len(Program') + 1
<1>1. Program' = Program
  BY DEF does, Program
<1>2. run \in Runs /\ at \in 1 .. Len(Program) /\ Len(Program) \in Nat
  BY Running DEF does
<1> HIDE DEF Program
<1> QED  BY <1>1, <1>2 DEF does

\* The script is determined by the chain's configuration.
LEMMA SameProgram == chain' = chain => Program' = Program
BY DEF Program

-----------------------------------------------------------------------------
\* Every action preserves the types.
LEMMA DeploymentTyped ==
  ASSUME DeploymentInv, ScriptsNext
  PROVE  DeploymentTypeOK'
<1> USE DEF DeploymentTypeOK, runVars, contractVars, routeVars, minterVars
<1>0. DeploymentTypeOK
  BY DEF DeploymentInv
<1>1. CASE start
  <2>1. Program' = Program /\ Len(Program) \in Nat
    BY <1>1, SameProgram, Running DEF start
  <2> HIDE DEF Program
  <2> QED  BY <1>0, <1>1, <2>1, ScriptsAssumption DEF start, _checkEnvVars
<1>2. ASSUME NEW op, does(op),
             UNCHANGED <<deployed, initialized, taken, prepared, templatesSet, l1Route, l2Route,
                         tickets, overtaken>>
      PROVE  DeploymentTypeOK'
  BY <1>0, <1>2, StepDone
<1>3. CASE deployStep
  <2>1. does("deploy")
    BY <1>3 DEF deployStep
  <2>2. run \in Runs /\ operands \subseteq ContractsOf(chain.script)
    BY <2>1, StepDone, Running DEF Careful, operands
  <2> QED  BY <1>0, <1>3, <2>1, <2>2, StepDone DEF deployStep
<1>4. CASE initializeStep
  <2>1. does("initialize")
    BY <1>4 DEF initializeStep
  <2>2. initialized' \in [Runs -> [Contracts -> Nat]]
    BY <1>0, <1>4, <2>1, StepDone DEF initializeStep
  <2> QED  BY <1>0, <1>4, <2>1, <2>2, StepDone DEF initializeStep
<1>5. CASE setTemplatesStep
  BY <1>0, <1>5, StepDone DEF setTemplatesStep
<1>6. CASE setGateways
  <2>1. does("setGateways")
    BY <1>6 DEF setGateways
  <2> QED  BY <1>0, <1>6, <2>1, StepDone, ScriptsAssumption DEF setGateways, register, Runs
<1>7. CASE prepare
  BY <1>0, <1>7, StepDone DEF prepare
<1>8. CASE changeAdmin \/ checkStep \/ checkRouterOwner \/ transferFee \/ approveFee
           \/ _waitOnL2Msg \/ configureController \/ configureMinter
  BY <1>2, <1>8 DEF changeAdmin, checkStep, checkRouterOwner, transferFee, approveFee,
                    _waitOnL2Msg, configureController, configureMinter
<1>9. CASE notRedeemed \/ stop
  <2>1. Program' = Program
    BY <1>9, SameProgram DEF notRedeemed, stop
  <2> QED  BY <1>0, <1>9, <2>1 DEF notRedeemed, stop
<1>10. CASE scriptStep \/ stop
  BY <1>3, <1>4, <1>5, <1>6, <1>7, <1>8, <1>9, <1>10 DEF scriptStep
<1>11. ASSUME NEW r \in Runs, NEW c \in Contracts, takeOver(r, c)
       PROVE  DeploymentTypeOK'
  <2>1. Program' = Program
    BY <1>11, SameProgram DEF takeOver
  <2> QED  BY <1>0, <1>11, <2>1 DEF takeOver
<1>12. ASSUME NEW r \in Runs,
              \/ executePrepared(r) \/ redeemTicket(r) \/ holdTicket(r) \/ expireTicket(r)
              \/ deposit(r) \/ finalizeDeposit(r)
       PROVE  DeploymentTypeOK'
  <2>1. Program' = Program /\ chain' = chain /\ run' = run /\ status' = status /\ at' = at
    BY <1>12, SameProgram DEF executePrepared, redeemTicket, holdTicket, expireTicket, deposit,
                              finalizeDeposit
  <2>2. r \in 0 .. MaxRuns
    BY ScriptsAssumption DEF Runs
  <2>3. CASE executePrepared(r)
    BY <1>0, <2>1, <2>2, <2>3 DEF executePrepared, register
  <2>4. CASE redeemTicket(r)
    BY <1>0, <2>1, <2>2, <2>4 DEF redeemTicket
  <2>5. CASE holdTicket(r) \/ expireTicket(r)
    BY <1>0, <2>1, <2>5 DEF holdTicket, expireTicket
  <2>6. CASE deposit(r) \/ finalizeDeposit(r)
    BY <1>0, <2>1, <2>6 DEF deposit, finalizeDeposit
  <2> QED  BY <1>12, <2>3, <2>4, <2>5, <2>6
<1> QED  BY <1>1, <1>10, <1>11, <1>12 DEF ScriptsNext

-----------------------------------------------------------------------------
(* What a script calls and what others call. *)

\* A step of the last run that calls no initializer.
LEMMA OtherStep ==
  ASSUME DeploymentInv, NEW op, does(op), op # "initialize", UNCHANGED <<initialized, taken>>
  PROVE  Progress' /\ TakenEarly'
<1> DEFINE C == Called(chain.script)
<1>1. /\ run \in Runs /\ at \in Nat /\ Program[at].op # "initialize"
      /\ chain' = chain /\ run' = run /\ at' = at + 1 /\ Program' = Program
  BY StepDone, Running
<1>2. /\ status' \in {"running", "done"} /\ (status' = "running" => at' <= Len(Program'))
      /\ (status' = "done" => at' = Len(Program') + 1)
  BY StepDone
<1>3. ASSUME NEW c \in C
      PROVE  initialized'[run][c] = Cardinality({j \in InitsOf(Program, c) : j < at + 1})
  <2>1. at \notin InitsOf(Program, c)
    BY <1>1 DEF InitsOf
  <2>2. {j \in InitsOf(Program, c) : j < at + 1} = {j \in InitsOf(Program, c) : j < at}
    BY <1>1, <2>1 DEF InitsOf
  <2> QED  BY <1>1, <2>2 DEF DeploymentInv, Progress
<1> HIDE DEF C
<1>4. Progress'
  BY <1>1, <1>2, <1>3 DEF DeploymentInv, Progress, C
<1> QED  BY <1>4 DEF DeploymentInv, TakenEarly

\* A step that calls initializers counts one for each, of contracts that nobody
\* else has taken.
LEMMA InitializeCounts ==
  ASSUME DeploymentInv, initializeStep
  PROVE  Progress' /\ TakenEarly'
<1> DEFINE C == Called(chain.script)
<1>0. does("initialize")
  BY DEF initializeStep
<1>1. /\ run \in Runs /\ at \in 1 .. Len(Program) /\ at \in Nat /\ Program[at].op = "initialize"
      /\ chain' = chain /\ run' = run /\ at' = at + 1 /\ Program' = Program
  BY <1>0, StepDone, Running
<1>2. /\ status' \in {"running", "done"} /\ (status' = "running" => at' <= Len(Program'))
      /\ (status' = "done" => at' = Len(Program') + 1)
  BY <1>0, StepDone
<1>3. initialized \in [Runs -> [Contracts -> Nat]] /\ C \subseteq Contracts
  BY KnownContracts DEF DeploymentInv, DeploymentTypeOK
<1>4. /\ \A r \in Runs \ {run} : initialized'[r] = initialized[r]
      /\ \A c \in Contracts : initialized'[run][c] =
           IF c \in operands THEN initialized[run][c] + 1 ELSE initialized[run][c]
  BY <1>1, <1>3 DEF initializeStep
<1>5. ASSUME NEW c \in C
      PROVE  initialized'[run][c] = Cardinality({j \in InitsOf(Program, c) : j < at + 1})
  <2>1. at \in InitsOf(Program, c) <=> c \in operands
    BY <1>1 DEF InitsOf, operands
  <2>2. Cardinality(InitsOf(Program, c)) = initializers(c) /\ Len(Program) \in Nat
    BY Running DEF Careful
  <2>3. /\ Cardinality({j \in InitsOf(Program, c) : j < at}) \in Nat
        /\ Cardinality({j \in InitsOf(Program, c) : j < at + 1}) =
             Cardinality({j \in InitsOf(Program, c) : j < at})
               + IF at \in InitsOf(Program, c) THEN 1 ELSE 0
    BY <1>1, <2>2, InitsCounted
  <2>4. initialized[run][c] = Cardinality({j \in InitsOf(Program, c) : j < at})
    BY <1>1 DEF DeploymentInv, Progress
  <2>5. c \in Contracts
    BY <1>3
  <2>6. CASE c \in operands
    BY <1>4, <2>1, <2>3, <2>4, <2>5, <2>6
  <2>7. CASE c \notin operands
    BY <1>4, <2>1, <2>3, <2>4, <2>5, <2>7
  <2> QED  BY <2>6, <2>7
<1>6. \A r \in Runs : r > run => \A c \in Contracts : initialized'[r][c] = 0
  BY <1>1, <1>4 DEF DeploymentInv, Progress, Runs
<1>7. Progress'
  <2> HIDE DEF C
  <2> QED  BY <1>1, <1>2, <1>5, <1>6 DEF Progress, C
<1>8. TakenEarly'
  <2> SUFFICES ASSUME NEW r \in Runs, NEW c \in taken'[r]
               PROVE  initialized'[r][c] < initializers(c)
    BY DEF TakenEarly
  <2>1. c \in taken[r] /\ c \in Contracts /\ initialized[r][c] < initializers(c)
    BY KnownContracts DEF initializeStep, DeploymentInv, DeploymentTypeOK, TakenEarly
  <2>2. r = run => c \notin operands
    BY <2>1 DEF initializeStep, initializable
  <2> QED  BY <1>4, <2>1, <2>2
<1> QED  BY <1>7, <1>8

\* Progress and TakenEarly are preserved by every action.
LEMMA ProgressKept ==
  ASSUME DeploymentInv, ScriptsNext
  PROVE  Progress' /\ TakenEarly'
<1> USE DEF runVars, contractVars
<1>1. CASE start
  <2>1. /\ Program' = Program /\ chain' = chain /\ run' = run + 1 /\ run \in Nat /\ run < MaxRuns
        /\ at' = 1 /\ status' \in {"running", "failed"}
        /\ initialized' = initialized /\ taken' = taken
    BY <1>1, SameProgram, ScriptsAssumption
       DEF start, _checkEnvVars, DeploymentInv, DeploymentTypeOK
  <2>2. run' \in Runs /\ Len(Program) \in Nat
    BY <2>1, Running, ScriptsAssumption DEF Runs
  <2>3. 1 <= Len(Program)
    <3>1. chain.script \in {"creator", "usdc"} /\ chain \in Chains
      BY ScriptsAssumption DEF DeploymentInv, DeploymentTypeOK, Chains
    <3>2. \E c \in Called(chain.script) : initializers(c) # 0
      <4>1. CASE chain.script = "creator"
        BY <4>1 DEF Called, gatewayLogics, ContractsOf, initializers, usdcContracts, proxyAdmins
      <4>2. CASE chain.script = "usdc"
        <5>1. "usdcLogic" \in Called(chain.script)
          BY <4>2 DEF Called, gatewayLogics, ContractsOf, usdcContracts
        <5>2. initializers("usdcLogic") = 4
          BY DEF initializers, usdcContracts
        <5> QED  BY <5>1, <5>2
      <4> QED  BY <3>1, <4>1, <4>2
    <3>3. PICK c \in Called(chain.script) : Cardinality(InitsOf(Program, c)) # 0
      BY <3>2, Running DEF Careful
    <3>4. InitsOf(Program, c) # {}
      BY <3>3, SmallSets
    <3> QED  BY <2>2, <3>4 DEF InitsOf
  <2>4. \A c \in Called(chain.script) :
          initialized[run + 1][c] = Cardinality({j \in InitsOf(Program, c) : j < 1})
    <3> SUFFICES ASSUME NEW c \in Called(chain.script)
                 PROVE  initialized[run + 1][c] = Cardinality({j \in InitsOf(Program, c) : j < 1})
      OBVIOUS
    <3>1. c \in Contracts
      BY KnownContracts DEF DeploymentInv, DeploymentTypeOK
    <3>2. {j \in InitsOf(Program, c) : j < 1} = {}
      BY DEF InitsOf
    <3>3. initialized[run + 1][c] = 0
      BY <2>1, <2>2, <3>1 DEF DeploymentInv, Progress
    <3> QED  BY <3>2, <3>3, SmallSets, Zenon
  <2>5. \A r \in Runs : r > run + 1 => \A c \in Contracts : initialized[r][c] = 0
    BY <2>1 DEF DeploymentInv, Progress, Runs
  <2>6. Progress'
    BY <2>1, <2>2, <2>3, <2>4, <2>5 DEF Progress
  <2> QED  BY <2>1, <2>6 DEF DeploymentInv, TakenEarly
<1>2. CASE scriptStep /\ ~ initializeStep /\ ~ notRedeemed
  <2>1. PICK op \in {"deploy", "changeAdmin", "check", "setTemplates", "checkRouterOwner",
                     "transferFee", "approveFee", "setGateways", "waitOnL2Msg", "prepare",
                     "configureController", "configureMinter"} : does(op)
    BY <1>2 DEF scriptStep, deployStep, changeAdmin, checkStep, setTemplatesStep,
                checkRouterOwner, transferFee, approveFee, setGateways, _waitOnL2Msg, prepare,
                configureController, configureMinter
  <2>2. UNCHANGED <<initialized, taken>>
    BY <1>2 DEF scriptStep, deployStep, changeAdmin, checkStep, setTemplatesStep,
                checkRouterOwner, transferFee, approveFee, setGateways, _waitOnL2Msg, prepare,
                configureController, configureMinter
  <2> QED  BY <2>1, <2>2, OtherStep
<1>3. CASE initializeStep
  BY <1>3, InitializeCounts
<1>4. CASE notRedeemed \/ stop
  <2>1. /\ Program' = Program /\ chain' = chain /\ run' = run /\ at' = at /\ status' = "failed"
        /\ UNCHANGED <<initialized, taken>>
    BY <1>4, SameProgram DEF notRedeemed, stop
  <2> QED  BY <2>1 DEF DeploymentInv, Progress, TakenEarly
<1>5. ASSUME NEW r \in Runs, NEW c \in Contracts, takeOver(r, c)
      PROVE  Progress' /\ TakenEarly'
  <2>1. /\ Program' = Program /\ chain' = chain /\ run' = run /\ at' = at /\ status' = status
        /\ initialized' = initialized
    BY <1>5, SameProgram DEF takeOver
  <2>2. Progress'
    BY <2>1 DEF DeploymentInv, Progress
  <2>3. TakenEarly'
    BY <1>5, <2>1 DEF DeploymentInv, DeploymentTypeOK, TakenEarly, takeOver
  <2> QED  BY <2>2, <2>3
<1>6. ASSUME NEW r \in Runs,
             \/ executePrepared(r) \/ redeemTicket(r) \/ holdTicket(r) \/ expireTicket(r)
             \/ deposit(r) \/ finalizeDeposit(r)
      PROVE  Progress' /\ TakenEarly'
  <2>1. /\ Program' = Program /\ chain' = chain /\ run' = run /\ at' = at /\ status' = status
        /\ UNCHANGED <<initialized, taken>>
    BY <1>6, SameProgram DEF executePrepared, redeemTicket, holdTicket, expireTicket, deposit,
                             finalizeDeposit
  <2> QED  BY <2>1 DEF DeploymentInv, Progress, TakenEarly
<1> QED  BY <1>1, <1>2, <1>3, <1>4, <1>5, <1>6 DEF ScriptsNext, scriptStep

\* A run that owns its contracts has no initializer left to call, and neither
\* has anybody else.
LEMMA OwnedStays ==
  ASSUME DeploymentInv, ScriptsNext, NEW r \in Runs, Owned(r)
  PROVE  Owned(r)'
<1> USE DEF runVars, contractVars
<1> DEFINE C == Called(chain.script)
<1>0. C \subseteq Contracts
  BY KnownContracts DEF DeploymentInv, DeploymentTypeOK
<1>1. CASE UNCHANGED <<chain, initialized, taken>>
  BY <1>1 DEF Owned
<1>2. CASE initializeStep
  <2>1. does("initialize")
    BY <1>2 DEF initializeStep
  <2>2. /\ run \in Runs /\ at \in 1 .. Len(Program) /\ at \in Nat /\ Len(Program) \in Nat
        /\ Program[at].op = "initialize" /\ chain' = chain /\ taken' = taken
    BY <1>2, <2>1, StepDone, Running DEF initializeStep
  <2>3. ASSUME NEW c \in C, r = run
        PROVE  c \notin operands
    <3>1. initialized[run][c] = initializers(c)
      BY <2>3 DEF Owned
    <3>2. Cardinality({j \in InitsOf(Program, c) : j < at}) = initializers(c)
      BY <2>2, <3>1 DEF DeploymentInv, Progress
    <3>3. Cardinality(InitsOf(Program, c)) = initializers(c)
      BY Running DEF Careful
    <3>4. at + 1 \in Nat
      BY <2>2
    <3>5. /\ initializers(c) \in Nat
          /\ Cardinality({j \in InitsOf(Program, c) : j < at + 1}) <= initializers(c)
      BY <2>2, <3>3, <3>4, InitsCounted, Zenon
    <3>6. Cardinality({j \in InitsOf(Program, c) : j < at + 1}) =
            Cardinality({j \in InitsOf(Program, c) : j < at})
              + IF at \in InitsOf(Program, c) THEN 1 ELSE 0
      BY <2>2, <3>3, InitsCounted, Zenon
    <3>7. at \notin InitsOf(Program, c)
      BY <3>2, <3>5, <3>6
    <3> QED  BY <2>2, <3>7 DEF InitsOf, operands
  <2>4. \A c \in C : initialized'[r][c] = initialized[r][c]
    <3>1. initialized \in [Runs -> [Contracts -> Nat]]
      BY DEF DeploymentInv, DeploymentTypeOK
    <3>2. CASE r = run
      BY <1>0, <1>2, <2>2, <2>3, <3>1, <3>2 DEF initializeStep
    <3>3. CASE r # run
      BY <1>2, <2>2, <3>1, <3>3 DEF initializeStep
    <3> QED  BY <3>2, <3>3
  <2> QED  BY <2>2, <2>4 DEF Owned
<1>3. ASSUME NEW q \in Runs, NEW c \in Contracts, takeOver(q, c)
      PROVE  Owned(r)'
  <2>1. /\ chain' = chain /\ initialized' = initialized
        /\ initialized[q][c] < initializers(c)
        /\ taken' = [taken EXCEPT ![q] = @ \cup {c}]
    BY <1>3 DEF takeOver, DeploymentInv, DeploymentTypeOK
  <2>2. q = r => c \notin C
    <3>1. initializers(c) \in Nat
      BY DEF initializers
    <3> QED  BY <2>1, <3>1 DEF Owned
  <2>3. \A d \in C : d \in taken'[r] => d \in taken[r]
    BY <2>1, <2>2 DEF DeploymentInv, DeploymentTypeOK
  <2> QED  BY <2>1, <2>3 DEF Owned
<1>4. CASE start \/ stop \/ (scriptStep /\ ~ initializeStep)
  BY <1>1, <1>4 DEF start, stop, scriptStep, deployStep, changeAdmin, checkStep,
       setTemplatesStep, checkRouterOwner, transferFee, approveFee, setGateways, _waitOnL2Msg,
       notRedeemed, prepare, configureController, configureMinter, does
<1>5. ASSUME NEW q \in Runs,
             \/ executePrepared(q) \/ redeemTicket(q) \/ holdTicket(q) \/ expireTicket(q)
             \/ deposit(q) \/ finalizeDeposit(q)
      PROVE  Owned(r)'
  BY <1>1, <1>5 DEF executePrepared, redeemTicket, holdTicket, expireTicket, deposit,
                    finalizeDeposit
<1> QED  BY <1>2, <1>3, <1>4, <1>5 DEF ScriptsNext

\* What comes into use is owned, and stays so.
LEMMA UsedOwnedKept ==
  ASSUME DeploymentInv, ScriptsNext
  PROVE  UsedOwned'
<1> USE DEF runVars, contractVars, routeVars, minterVars
<1>0. /\ tickets \in [Runs -> {"none", "created", "held", "redeemed", "expired"}]
      /\ prepared \subseteq Runs /\ templatesSet \subseteq Runs
  BY DEF DeploymentInv, DeploymentTypeOK
<1> SUFFICES ASSUME NEW r \in Runs, InUse(r)'  PROVE Owned(r)
  BY OwnedStays DEF UsedOwned
<1>1. CASE InUse(r)
  BY <1>1 DEF DeploymentInv, UsedOwned
<1>2. CASE UNCHANGED <<l1Route, l2Route, templatesSet, prepared, tickets>>
  BY <1>1, <1>2 DEF InUse
<1>3. CASE setTemplatesStep
  <2>1. r = run \/ InUse(r)
    BY <1>3 DEF setTemplatesStep, InUse
  <2> QED  BY <1>1, <1>3, <2>1, PublishedOwned DEF setTemplatesStep, does, Publishing
<1>4. CASE setGateways
  <2>1. r = run \/ InUse(r)
    BY <1>0, <1>4 DEF setGateways, register, InUse
  <2> QED  BY <1>1, <1>4, <2>1, PublishedOwned DEF setGateways, does, Publishing
<1>5. CASE prepare
  <2>1. r = run \/ InUse(r)
    BY <1>5 DEF prepare, InUse
  <2> QED  BY <1>1, <1>5, <2>1, PublishedOwned DEF prepare, does, Publishing
<1>6. CASE start \/ stop \/ (scriptStep /\ ~ setTemplatesStep /\ ~ setGateways /\ ~ prepare)
  BY <1>2, <1>6 DEF start, stop, scriptStep, deployStep, changeAdmin, initializeStep, checkStep,
       checkRouterOwner, transferFee, approveFee, _waitOnL2Msg, notRedeemed,
       configureController, configureMinter
<1>7. ASSUME NEW q \in Runs, NEW c \in Contracts, takeOver(q, c)
      PROVE  Owned(r)
  BY <1>2, <1>7 DEF takeOver
<1>8. ASSUME NEW q \in Runs,
             \/ executePrepared(q) \/ redeemTicket(q) \/ holdTicket(q) \/ expireTicket(q)
             \/ deposit(q) \/ finalizeDeposit(q)
      PROVE  Owned(r)
  <2>1. CASE executePrepared(q)
    BY <1>0, <1>1, <2>1 DEF executePrepared, register, InUse
  <2>2. CASE redeemTicket(q)
    BY <1>0, <1>1, <2>2 DEF redeemTicket, InUse
  <2>3. CASE holdTicket(q) \/ expireTicket(q)
    BY <1>0, <1>1, <2>3 DEF holdTicket, expireTicket, InUse
  <2>4. CASE deposit(q) \/ finalizeDeposit(q)
    BY <1>2, <2>4 DEF deposit, finalizeDeposit
  <2> QED  BY <1>8, <2>1, <2>2, <2>3, <2>4
<1> QED  BY <1>3, <1>4, <1>5, <1>6, <1>7, <1>8 DEF ScriptsNext

-----------------------------------------------------------------------------
(* The registration of a run with the owner's key. *)

\* Which steps of the registration are behind, when it begins at s.
LEMMA PassedSteps ==
  ASSUME NEW s \in Nat, RegistersAt(Program, s), Len(Program) \in Nat, at \in Nat
  PROVE  /\ Passed("setGateways") <=> at > s
         /\ Passed("waitOnL2Msg") <=> at > s + 1
         /\ s \in 1 .. Len(Program) /\ s + 1 \in 1 .. Len(Program)
         /\ Program[s].op = "setGateways" /\ Program[s + 1].op = "waitOnL2Msg"
<1>1. /\ s \in 1 .. Len(Program) /\ s + 1 \in 1 .. Len(Program)
      /\ Program[s].op = "setGateways" /\ Program[s + 1].op = "waitOnL2Msg"
  BY DEF RegistersAt
<1> QED  BY <1>1 DEF RegistersAt, Passed

\* Every action preserves OwnerRegisters: a ticket of a run is sent by its
\* setGateways and by nothing else, and the run goes on only when it is redeemed.
LEMMA OwnerRegistersKept ==
  ASSUME DeploymentInv, ScriptsNext, DeploymentTypeOK'
  PROVE  OwnerRegisters'
<1> USE DEF runVars, contractVars, routeVars, minterVars
<1>0. /\ tickets \in [Runs -> {"none", "created", "held", "redeemed", "expired"}]
      /\ run \in 0 .. MaxRuns /\ l1Route \in 0 .. MaxRuns /\ l2Route \in 0 .. MaxRuns
      /\ MaxRuns \in Nat /\ Runs = 1 .. MaxRuns /\ NoRun = 0 /\ at \in Nat
  BY ScriptsAssumption, Running DEF DeploymentInv, DeploymentTypeOK, Runs, NoRun
<1>1. chain' = chain /\ Program' = Program
  <2>1. chain' = chain
    BY DEF ScriptsNext, start, stop, scriptStep, deployStep, changeAdmin, initializeStep,
         checkStep, setTemplatesStep, checkRouterOwner, transferFee, approveFee, setGateways,
         _waitOnL2Msg, notRedeemed, prepare, configureController, configureMinter, does,
         takeOver, executePrepared, redeemTicket, holdTicket, expireTicket, deposit,
         finalizeDeposit
  <2> QED  BY <2>1, SameProgram
<1> SUFFICES ASSUME chain.script = "usdc", chain.ownerKey
             PROVE  OwnerRegisters'
  BY <1>1 DEF OwnerRegisters
<1>2. PICK s \in Nat : RegistersAt(Program, s)
  BY ProgramCareful DEF DeploymentInv, DeploymentTypeOK
<1>3. /\ Passed("setGateways") <=> at > s
      /\ Passed("waitOnL2Msg") <=> at > s + 1
      /\ \A j \in 1 .. Len(Program) : /\ Program[j].op # "prepare"
                                      /\ Program[j].op = "setGateways" <=> j = s
                                      /\ Program[j].op = "waitOnL2Msg" <=> j = s + 1
  BY <1>0, <1>2, Running, PassedSteps DEF RegistersAt
<1>4. /\ Passed("setGateways")' <=> at' > s
      /\ Passed("waitOnL2Msg")' <=> at' > s + 1
      /\ s > 0
  <2>1. RegistersAt(Program', s) /\ Len(Program') \in Nat /\ at' \in Nat
    BY <1>1, <1>2, Running DEF DeploymentTypeOK
  <2>2. s \in 1 .. Len(Program') /\ s + 1 \in 1 .. Len(Program')
    BY <2>1 DEF RegistersAt
  <2> QED  BY <2>1, <2>2 DEF RegistersAt, Passed
<1>5. /\ prepared = {}
      /\ at > s => l1Route = run
      /\ at > s + 1 => tickets[run] = "redeemed"
      /\ \A r \in Runs : tickets[r] # "none" => r <= run /\ (r = run => at > s)
      /\ l2Route # NoRun => tickets[l2Route] = "redeemed"
      /\ ~ overtaken => \A r \in Runs : tickets[r] = "redeemed" => r <= l2Route
  BY <1>3 DEF DeploymentInv, OwnerRegisters
<1>6. CASE start
  BY <1>0, <1>4, <1>5, <1>6 DEF start, OwnerRegisters
<1>7. CASE stop \/ notRedeemed
  BY <1>4, <1>5, <1>7 DEF stop, notRedeemed, OwnerRegisters
<1>8. ASSUME NEW op, does(op), op \notin {"setGateways", "waitOnL2Msg"},
             UNCHANGED <<prepared, l1Route, l2Route, tickets, overtaken>>
      PROVE  OwnerRegisters'
  <2>1. /\ run' = run /\ at' = at + 1 /\ at \in 1 .. Len(Program) /\ Program[at].op = op
        /\ run \in Runs
    BY <1>8, StepDone
  <2>2. at # s /\ at # s + 1
    BY <1>3, <1>8, <2>1
  <2> QED  BY <1>0, <1>4, <1>5, <1>8, <2>1, <2>2 DEF OwnerRegisters
<1>9. CASE _waitOnL2Msg
  <2>1. does("waitOnL2Msg")
    BY <1>9 DEF _waitOnL2Msg
  <2>2. /\ run' = run /\ at' = at + 1 /\ at \in 1 .. Len(Program) /\ at = s + 1 /\ run \in Runs
    BY <1>3, <2>1, StepDone
  <2> QED  BY <1>0, <1>4, <1>5, <1>9, <2>2 DEF _waitOnL2Msg, isRedeemed, OwnerRegisters
<1>10. CASE setGateways
  <2>1. does("setGateways")
    BY <1>10 DEF setGateways
  <2>2. /\ run' = run /\ at' = at + 1 /\ at \in 1 .. Len(Program) /\ at = s /\ run \in Runs
    BY <1>3, <2>1, StepDone
  <2>3. /\ tickets[run] = "none" /\ tickets' = [tickets EXCEPT ![run] = "created"]
        /\ l1Route' = run /\ UNCHANGED <<prepared, l2Route, overtaken>>
    BY <1>0, <1>5, <1>10, <2>2 DEF setGateways, register
  <2> QED  BY <1>0, <1>4, <1>5, <2>2, <2>3 DEF OwnerRegisters
<1>11. CASE scriptStep /\ ~ notRedeemed /\ ~ _waitOnL2Msg /\ ~ setGateways
  <2>1. ~ prepare
    BY <1>3, StepDone DEF prepare
  <2>2. PICK op \in {"deploy", "changeAdmin", "initialize", "check", "setTemplates",
                     "checkRouterOwner", "transferFee", "approveFee", "configureController",
                     "configureMinter"} : does(op)
    BY <1>11, <2>1 DEF scriptStep, deployStep, changeAdmin, initializeStep, checkStep,
         setTemplatesStep, checkRouterOwner, transferFee, approveFee, configureController,
         configureMinter
  <2>3. UNCHANGED <<prepared, l1Route, l2Route, tickets, overtaken>>
    BY <1>11, <2>1 DEF scriptStep, deployStep, changeAdmin, initializeStep, checkStep,
         setTemplatesStep, checkRouterOwner, transferFee, approveFee, configureController,
         configureMinter
  <2> QED  BY <1>8, <2>2, <2>3
<1>12. ASSUME NEW q \in Runs, NEW c \in Contracts, takeOver(q, c)
       PROVE  OwnerRegisters'
  BY <1>4, <1>5, <1>12 DEF takeOver, OwnerRegisters
<1>13. ASSUME NEW q \in Runs, redeemTicket(q)
       PROVE  OwnerRegisters'
  <2>1. /\ UNCHANGED <<run, at, prepared, l1Route>> /\ l2Route' = q
        /\ tickets' = [tickets EXCEPT ![q] = "redeemed"] /\ tickets[q] # "none"
        /\ ~ overtaken' => \A r \in Runs : r > q => tickets[r] # "redeemed"
    BY <1>13 DEF redeemTicket
  <2> QED  BY <1>0, <1>4, <1>5, <2>1 DEF OwnerRegisters
<1>14. ASSUME NEW q \in Runs, holdTicket(q) \/ expireTicket(q)
       PROVE  OwnerRegisters'
  <2>1. /\ UNCHANGED <<run, at, prepared, l1Route, l2Route, overtaken>>
        /\ tickets[q] \in {"created", "held"}
        /\ \/ tickets' = [tickets EXCEPT ![q] = "held"]
           \/ tickets' = [tickets EXCEPT ![q] = "expired"]
    BY <1>14 DEF holdTicket, expireTicket
  <2> QED  BY <1>0, <1>4, <1>5, <2>1 DEF OwnerRegisters
<1>15. ASSUME NEW q \in Runs, deposit(q) \/ finalizeDeposit(q) \/ executePrepared(q)
       PROVE  OwnerRegisters'
  BY <1>4, <1>5, <1>15 DEF deposit, finalizeDeposit, executePrepared, OwnerRegisters
<1> QED  BY <1>6, <1>7, <1>9, <1>10, <1>11, <1>12, <1>13, <1>14, <1>15
         DEF ScriptsNext, scriptStep

-----------------------------------------------------------------------------
(* The theorems about the scripts.                                         *)

\* The invariant is inductive.
LEMMA DeploymentKept ==
  ASSUME DeploymentInv, [ScriptsNext]_scriptsVars
  PROVE  DeploymentInv'
<1>1. CASE ScriptsNext
  <2>1. DeploymentTypeOK'
    BY <1>1, DeploymentTyped
  <2>2. Progress' /\ TakenEarly'
    BY <1>1, ProgressKept
  <2>3. UsedOwned' /\ OwnerRegisters'
    BY <1>1, <2>1, UsedOwnedKept, OwnerRegistersKept
  <2> QED  BY <2>1, <2>2, <2>3 DEF DeploymentInv
<1>2. CASE UNCHANGED scriptsVars
  <2>0. Program' = Program
    BY <1>2, SameProgram DEF scriptsVars
  <2> USE <1>2, <2>0 DEF scriptsVars, runVars, contractVars, routeVars, DeploymentInv
  <2>1. DeploymentTypeOK'
    BY DEF DeploymentTypeOK
  <2>2. Progress' /\ TakenEarly'
    BY DEF Progress, TakenEarly
  <2>3. UsedOwned'
    BY DEF UsedOwned, InUse, Owned
  <2>4. OwnerRegisters'
    BY DEF OwnerRegisters, Passed
  <2> QED  BY <2>1, <2>2, <2>3, <2>4
<1> QED  BY <1>1, <1>2

\* The invariant holds in every reachable state of the scripts' runs.
LEMMA DeploymentInvariant == ScriptsSpec => []DeploymentInv
<1>1. ScriptsInit => DeploymentInv
  BY DeploymentInitially
<1>2. DeploymentInv /\ [ScriptsNext]_scriptsVars => DeploymentInv'
  BY DeploymentKept
<1> QED  BY <1>1, <1>2, PTL DEF ScriptsSpec

\* A run that ends, or that anything leads to, called every initializer of its
\* contracts itself, but for the logic contracts of the USDC gateways, whose
\* initializers deployUsdcBridge leaves open: neither script can publish a contract
\* to be called that somebody else initialized between its transactions, in any
\* number of runs.
THEOREM ScriptsPublishTheirOwn == ScriptsSpec => []NothingTakenOver
<1>1. DeploymentInv => NothingTakenOver
  <2> SUFFICES ASSUME DeploymentInv, NEW r \in Runs,
                      (status = "done" /\ run = r) \/ r \in {l1Route, l2Route} \cup templatesSet
               PROVE  Owned(r)
    BY DEF NothingTakenOver
  <2>1. CASE status = "done" /\ run = r
    BY <2>1, DoneOwned
  <2>2. CASE r \in {l1Route, l2Route} \cup templatesSet
    BY <2>2 DEF DeploymentInv, UsedOwned, InUse
  <2> QED  BY <2>1, <2>2
<1> QED  BY <1>1, DeploymentInvariant, PTL

\* deployUsdcBridge run with the owner's key ends only when both routers lead to
\* the gateways of that run, whatever tickets earlier runs left, unless one of
\* those is redeemed after a later one.
THEOREM UsdcScriptRegisters == ScriptsSpec => []RegisteredOnBothSides
<1>1. DeploymentInv => RegisteredOnBothSides
  <2> SUFFICES ASSUME DeploymentInv, chain.script = "usdc", chain.ownerKey, status = "done",
                      ~ overtaken
               PROVE  l1Route = run /\ l2Route = run
    BY DEF RegisteredOnBothSides
  <2>1. PICK s \in Nat : RegistersAt(Program, s)
    BY ProgramCareful DEF DeploymentInv, DeploymentTypeOK
  <2>2. /\ Len(Program) \in Nat /\ at \in Nat /\ at = Len(Program) + 1
        /\ run \in Runs /\ MaxRuns \in Nat /\ l2Route \in 0 .. MaxRuns
    BY Running, ScriptsAssumption DEF DeploymentInv, DeploymentTypeOK, Progress
  <2>3. Passed("setGateways") /\ Passed("waitOnL2Msg")
    BY <2>1, <2>2, PassedSteps
  <2>4. l1Route = run /\ run <= l2Route
    BY <2>2, <2>3 DEF DeploymentInv, OwnerRegisters
  <2>5. l2Route \in Runs
    BY <2>2, <2>4 DEF Runs
  <2>6. tickets[l2Route] = "redeemed"
    BY <2>5 DEF DeploymentInv, OwnerRegisters, Runs, NoRun
  <2>7. l2Route <= run
    BY <2>5, <2>6 DEF DeploymentInv, OwnerRegisters
  <2> QED  BY <2>2, <2>4, <2>5, <2>7 DEF Runs
<1> QED  BY <1>1, DeploymentInvariant, PTL
=============================================================================
