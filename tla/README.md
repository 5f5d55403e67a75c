# Verification of the token bridge contracts

This directory models the token bridge between a parent chain (L1) and an
Arbitrum chain (L2): the gateways that move ERC20 tokens, the routers that choose
a gateway, the messages that join the two chains, the contracts that deploy a
bridge, and the scripts and tasks with which operators create and upgrade one. TLC
checks the models on small instances. TLAPS proves the safety properties of all of
them for every value of the constants.

Paths to Solidity files are relative to `src/contracts/tokenbridge/`, paths to
TypeScript files to `src/`.
`PROJECT.json` maps each definition to the lines it models.

## 1. The system

### Components

| Component | State | Operations |
|---|---|---|
| Custom gateways: `L1CustomGateway`, `L1ArbitrumExtendedGateway`, `L1ArbitrumGateway`, `L2CustomGateway`, `L2ArbitrumGateway`, `TokenGateway` | L1: escrow (the ERC20 balance), `l1ToL2Token`, `owner`, `redirectedExits`. L2: `l1ToL2Token`, `exitNum`; the L2 tokens keep balances | deposit, registration by the token, forced registration, change of owner, trade of an exit, payment of an exit; redemption of a deposit or a registration, withdrawal |
| Message channels: `L1ArbitrumMessenger`, `L2ArbitrumMessenger` over Nitro's inbox, `ArbRetryableTx` and outbox | tickets and outbox messages | create, redeem, cancel or expire; send, execute |
| Routers: `L1GatewayRouter`, `L2GatewayRouter`, `GatewayRouter` | `owner`, `l1TokenToGateway` and `defaultGateway`, on each side | `setGateway`, `setGateways`, `setDefaultGateway`, `setOwner`, transfers routed through them |
| Deployment: `L1AtomicTokenBridgeCreator`, `L1TokenBridgeRetryableSender`, `L2AtomicTokenBridgeFactory` | templates, `inboxToL1Deployment`, `inboxToL2Deployment`; contracts on L2 | `createTokenBridge` and its resends, `setTemplates`, `setDeployment`; creation of the factory, `deployL2Contracts` |
| USDC gateways | `depositsPaused`, `withdrawalsPaused`, `burner`, `burnAmount`, owners, the roles of the L2 token | pause and unpause, `setBurner`, `setBurnAmount`, `burnLockedUSDC`, `transferUSDCRoles`, transfers |
| WETH gateways, `aeWETH` | ETH and WETH balances on either side | transfers that carry ETH, wrapping and unwrapping |
| Standard gateways: `L1ERC20Gateway`, `L2ERC20Gateway`, `ClonableBeaconProxy`, `StandardArbERC20` | escrow, deployed proxies | deposits with metadata, creation of the L2 token, withdrawals |
| Gateways and router for a chain whose native token is an ERC20 (`L1Orbit*`) | the native token's balances and the inbox's | as their parents, with fees paid in the token |
| Reverse gateways (`L*ReverseCustomGateway`) | escrow on L2, supply on L1 | as the custom gateways, mirrored |
| L2 token: `L2GatewayToken` over `aeERC20`, `ERC20Upgradeable`, `ERC20PermitUpgradeable`, `TransferAndCallToken` | balances, supply, allowances, nonces | `bridgeMint`, `bridgeBurn`, transfers, approvals, `permit` |
| Bridge creation scripts: `scripts/atomicTokenBridgeDeployer.ts`, `scripts/deployment/`, `scripts/local-deployment/` | none of their own; the ticket they wait for, the addresses they read, `network.json` | deployment of the creator and of its templates, `createTokenBridge`, wait for both tickets, `registerGateway`, report |
| USDC bridge deployment: `scripts/usdc-bridge-deployment/` | the file with prepared transactions | deployment and initialization of bridged USDC and both gateways, registration, minter role |
| Upgrade tasks: `tasks/` | the files `queued-updates`, `current_deployment`, `tmp_deployment` | `deploy-logic-one`, `deploy-logic-all`, `trigger-upgrades`, `verify-deployments`, `transfer-owner` |

Not modelled: the deprecated `Whitelist`, stateless helpers (`BytesLib`,
`ProxyUtil`, `ERC165`), the read-only RPC utilities, scripts of one transaction,
the build configuration, tests and mocks (section 5).

### How the parts interact

A contract calls its counterpart on the other chain only through a message. L1 to
L2 is a retryable ticket. It is redeemed automatically or later by anybody, in any
order relative to other tickets, at most once, and it may be cancelled or expire.
L2 to L1 is an outbox message: any order, at most once, never lost. Each side
accepts calls only from its counterpart (`onlyCounterpartGateway`, the L1 address
aliased on L2), so in the models only messages call across.

### What is hard about it

* Messages take effect in another order than they were sent, and the state they
  were sent under (a registration, a route, the templates of a deployment, a
  burn amount) has changed meanwhile.
* A deposit that cannot be credited is turned into a withdrawal in the same
  transaction. Tickets may be lost; outbox messages may not.
* Escrow and supply are on different chains, so that they have to match is a
  statement about both chains and all that is in flight.
* Anybody may call in between: users of the exit trade, outsiders of the factory
  and of the clone factory, owners of contracts at registered addresses.
* Scripts consist of many transactions on two chains. They die in between, are run
  again, and decide from what they read earlier; meanwhile contracts are deployed
  and not yet initialized, or routed and not yet able to mint.
* Tokens withhold fees, answer metadata calls in any form, count in other
  decimals.

The hazards in `PROJECT.json` list these at the lines where they bite.

### What makes each part correct

| Part | Property |
|---|---|
| Custom gateways | Escrow is exactly what is owed and the surplus; exit numbers are unique; nobody loses an exit they did not trade; a token that registers itself means the same L2 token on both sides; transfers settle |
| Routers | They agree wherever the last change sent is the last redeemed; without an owner a chosen route stands; a transfer stays with the pair of gateways that took it, whether it is credited, sent back or lost |
| Deployment | The factory gets its canonical address unless its creation ran out of gas; the L2 contracts belong to the L1 contracts that exist; resending recovers |
| Creation scripts | What is reported is deployed or can still be deployed as reported; WETH is routed only between routers that know each other; no contract whose storage matters is used after somebody else initialized it; a registration holds on both chains; deposits before the minter role are minted later |
| Upgrade tasks | Contracts run logic built for them; an upgrade changes one contract, one that is in the hands expected at that moment; wherever a task dies, what the chain runs is on record or queued |
| USDC | Units are conserved over the migration; an orderly migration leaves every exit payable |
| WETH | Each aeWETH is one ETH; the gateways keep nothing of a transfer |
| Standard | The token at the computed address belongs to the gateway and the L1 token; deposits are backed |
| Orbit fees | A ticket is paid by its caller, never from the escrow; fees scaled to the token's decimals are enough, and not a unit more |
| Reverse | Each L1 unit is escrowed on L2 |
| L2 token | Balances add up to the supply although the arithmetic is unchecked; spenders stay within what was granted; a permit takes effect at most once |

## 2. Modules

| Module | Models | State and actions |
|---|---|---|
| `Tally` | totals of balances and amounts in flight | operators only |
| `Messaging` | the two channels | sets of tickets and of exits; send, consume, execute |
| `L1CustomGateway` | L1 side of the custom gateways | one action per entry point, named after it |
| `L2CustomGateway` | L2 side | likewise; `finalizeInboundTransfer` is `creditDeposit` or `bounceDeposit` |
| `CustomBridge` | both sides, the channels and the environment | composes the three modules above; properties |
| `CanonicalBridge` | what a bridge promises | `Lock`, `Release`, `Abandon`, `Donate` on locked units, claims and surplus |
| `RouterPair` | both routers and transfers routed by them | one action per entry point and per ticket, deposits that are credited, sent back or dropped; maps to one `CanonicalBridge` per gateway and token |
| `TokenBridgeDeployment` | creator, sender, factory | contract storage, two sets of tickets; calls, resends, redemptions, outsiders |
| `BridgeCreation` | the creation scripts: of the creator, of a bridge on a target chain, of both in a local environment with or without WETH | extends `TokenBridgeDeployment` with the running script and the WETH route; an action per script and stage |
| `DeploymentScripts` | the scripts that deploy the creator and the USDC bridge | a script as a sequence of steps, numbered runs of it, and everybody who may act between two steps |
| `Transfers` | the deposits and exits the special gateways have in flight | messages and their number |
| `UsdcBridge`, `WethBridge`, `StandardBridge`, `ReverseBridge` | the special gateways, each with its own L1 and L2 side | extend `Transfers`; one action per operation. `UsdcBridge` and the last two also state how they map to `CanonicalBridge` |
| `OrbitFees` | who pays for tickets in an ERC20 native token, and how much, in contracts and scripts | balances, the inbox, the upgrade executor's allowance; one action per payment, those of the registration script (transfer to the executor, approval, `setGateways`) included |
| `ImplementationUpgrades` | the upgrade tasks | the chain, three files, one running task that writes them; an action per transaction or write; `transferAdmin` at any moment |
| `L2GatewayToken` | the token the gateways mint and burn | one action per entry point; integers have a width |
| `TallyProofs`, `CustomBridgeProofs`, `RouterPairProofs`, `UsdcBridgeProofs`, `L2GatewayTokenProofs`, `ImplementationUpgradesProofs` | theorems about the module of that name | |
| `BridgeCreationProofs` | theorems about `BridgeCreation` and about `DeploymentScripts` | extends both, which share no state |
| `GatewayProofs` | theorems about `WethBridge`, `StandardBridge`, `ReverseBridge` and `OrbitFees` | extends all four, which therefore use different names |
| `MC*` | the functions and model values the instances need | |

One action is one successful transaction on one chain or, in the tasks, one write of
a file. A call that reverts changes
nothing and is not a step; what the code requires is a conjunct of the action, with
the error's name beside it where it has one. `msg.sender` is a parameter where the
code tests it. Calldata becomes a record. Variables that are not contract storage
are history variables (`surplus`, `l2Surplus`, `forced`, `trades`, `lastSent`, `overridden`,
`nonceBurnt`, `improper`, `burned`, `moved`, `hollow`, `overtaken`, `interrupted`,
`forgotten` and the like). They are introduced in
the module that declares them, and no guard of a modelled operation reads them.

Points of correspondence worth knowing:

* **Deposits.** `amountReceived` is computed from the gateway's balance before and
  after the transfer, as in `outboundEscrowTransfer`; `TransferFee` makes the
  difference matter. A donation is a plain ERC20 transfer to the gateway.
* **Registration lists** are partial functions from L1 tokens to L2 addresses: the
  loop keeps the last of several entries for one token.
* **`transferExitAndCall`** may name an exit that does not exist yet or is already
  paid, as in the code. The hook of the new destination runs after the redirection
  is stored, so what the hook calls is a later transaction of the model.
* **Validity of an L2 token.** An address has no code, has code without
  `l1Address()`, or answers with some L1 token; anybody may deploy any of these.
* **Deployment.** An L1 deployment and the code of an L2 template are each a
  version. The contracts of one deployment are created together, so they are one
  value; which logic each proxy gets inside it is not told apart. CREATE2 salts
  depend on `msg.sender`, which is what keeps outsiders from the canonical ones.
* **Disabled routes.** To `setGateway` a token whose route the owner has disabled looks
  like a token without a route, and it may choose one again. `RouterPair` contains
  this; nothing in the repository says otherwise.
* **Routes.** Why L2 cannot credit a deposit is the business of the gateway modules; in
  `RouterPair` the gateway it is addressed to credits it or sends it back, by choice. Deposits that
  expire or are cancelled leave `surplus` in the escrow of the gateway that took them.
* **Fees of bridged tokens.** `StandardBridge` and the custom gateways compute what a
  deposit is worth from the balances before and after the transfer, and a token may
  withhold a fee (`TokenFee`, `TransferFee`).
* **Waiting for tickets.** `createTokenBridge` of the script waits for the two tickets
  its own transaction sent. A ticket that is not redeemed ends the script, at any
  moment (`exit`). `deployL2Contracts` executed where no factory is succeeds and does
  nothing; the ticket counts as redeemed all the same (`hollow`).
* **Scripts as sequences.** `DeploymentScripts` builds each script as a sequence of
  steps in the order of the code; functions of the script are operators that return
  the steps they contribute. Libraries, and logic whose constructor disables the
  initializer, have no steps. The logic contracts of the two USDC gateways have a public
  initializer which the script never calls: they are deployed, anybody may initialize
  them for good (`takeOver`), and `NothingTakenOver` excepts them by name
  (`gatewayLogics`), since nobody is told their addresses and the proxies that use their code
  have storage of their own.
  Running the script again deploys everything anew, so contracts belong to a run.
* **The master minter** of bridged USDC has an owner of its own, with the script the
  deployer. It may remove the gateway as a minter at any time (`removeMinter`), before or
  after the roles are handed over.
* **Files of the upgrade tasks** are functions from contract names. A logic contract
  is the name it was built from and a number. The prompts are modelled by what they
  return: the question whether to go on with `tmp_deployment` yields a Boolean,
  which the code compares with `'Yes'` (`resumes`).
* **Balances in the special gateways** are totals over the users where no property
  tells users apart (`supply`, `wallet`).

## 3. Model checking

| Run | Question | Instance | Distinct states |
|---|---|---|---|
| `custom_bridge` | `Solvent`, `ExitNumsUnique`, `SelfRegistrationsAgree`, `MintedUnderRegistration` | 2 L1 tokens, both with a fee of one unit, one of which registers itself; 2 L2 addresses, 1 user, 3 tickets, withdrawals while fewer than 1 exit; expiry; symmetric in the L2 addresses | 1.8 M |
| `settlement` | `OnlyHoldersTradeExits`, `ImplementsCanonicalBridge`, `EventuallySettled` | 1 L1 token with a fee, 1 L2 address, 2 users trading exit 0, 3 tickets, 1 withdrawal and the deposits sent back; expiry | 347 k |
| `router_pair` | `RoutersAgree`, `OwnerlessRoutesStand`, `EachGatewayBacked`, `TransfersSettle` | 1 token, 2 gateways, 3 updates, 2 deposits, which may be sent back or dropped | 1.5 M |
| `bridge_creation` | `FactoryIsCanonical`, `SidesAreWired`, `ReportedIsDeployed`, `WethRouteOnWiredPair`, `EventuallyDeployed` | every creation script; 2 versions of the templates, one with too low a gas limit, 2 tickets of each kind, one outsider, `setDeployment` of the L1 contracts of one version with the L2 contracts of another | 1.1 M |
| `deployment_scripts` | `NothingTakenOver`, `RegisteredOnBothSides`, `EarlyDepositsMinted` | both scripts, with and without fee token, owner's key and an executor as the router's owner; 2 runs | 213 k |
| `upgrades` | `ImplementationsFit`, `NothingForgotten`, `RecordsMatchChain`, `OneVerifiedUpgrade` | both facets, a beacon and a proxy, a name of the other layer and one without an entry; 3 logic contracts, 2 signers, admins moved within updates | 741 k |
| `usdc_bridge` | `Conservation`, `ExitsStayPayable`, `TransfersSettle` | amounts up to 2, 3 messages, every order of the migration's steps, the minter removed at any point | 166 k |
| `weth_bridge` | `FullyCollateralized`, `WethTransfersSettle` | amounts up to 2, 4 messages | 4 k |
| `standard_bridge` | `AuthenticTokens`, `Backed`, `TransfersSettle` | 2 tokens, one of which withholds a fee of one unit, 3 messages, an outsider using the factory | 358 k |
| `reverse_bridge` | `BackedOnL2`, `ReverseTransfersSettle` | 2 L2 tokens with a fee, 4 messages, 2 registrations | 60 k |
| `orbit_fees` | `FeesFromCallers`, `ScaledFeesSuffice` | decimals below, at and above those of ether (scaled down); a user, a token contract and the upgrade executor as callers, 3 tickets | 1.1 M |
| `gateway_token` | `SupplyIsSum`, `SpendingGranted`, `OnePermitPerNonce` | 2 accounts, 1 spender, amounts 1 and 2, largest integer 3, 2 permits per owner | 484 k |

`custom_bridge` also checks `TypeOK`. It says more than the types: escrow and balances
are natural numbers, so it is violated as soon as a subtraction is not covered. The
type invariants of all modules are proved, each as a theorem or as a part of its
module's inductive invariant; that of `DeploymentScripts` (`DeploymentTypeOK`) stands with its
proof.

**Why the bounds are enough.** Every hazard needs few messages: two registrations
redeemed in the wrong order, a deposit on either side of them, one deposit sent
back and one exit. Three tickets allow two registrations around a deposit and two
deposits around a registration. Two L2 addresses allow a token to be registered
with one and then the other. Amounts of one and two units, with a fee of one, tell
apart the amount requested from the amount received, including a deposit of which
nothing arrives. Two exits and two users allow a number to be traded by its holder
and by a stranger. Two versions of the templates allow a resend to differ from the
first call, by whoever makes it. Two runs of a script allow the contracts, the
ticket and the prepared transactions of an interrupted run to meet those of the next.
Three logic contracts allow both facets to be upgraded, one of them twice, or a
contract to be queued again after its upgrade was interrupted. A largest integer of three lets every sum of two amounts that are in
range separately leave it. Bounds are constants named in the guards (`MaxTickets`, `MaxExits`,
`TradedExits`, `MaxUpdates` and so on).

**Deadlock.** Where a bounded instance can run out of steps (all money moved, all
tickets used) the configuration says `CHECK_DEADLOCK FALSE`: the bridge has no
step it must always be able to take.

**Fairness.** Liveness is checked under weak fairness of the redemption of each
deposit ticket and of the execution of each exit, by identifier. A ticket that was
paid for is redeemed automatically, or by anybody who retries it, and the outbox
is open to anybody. No user, owner or token is assumed to act. Tickets may still
expire in these runs: an expired deposit is settled too, as surplus. In the
deployment it is assumed that somebody resends while there is no deployment (weak fairness of `createTokenBridge`), and, because tickets may keep
expiring or arrive in the wrong order, strong fairness of the creation of the
factory and of the redemption of the second ticket once the factory exists. In
`DeploymentScripts` a script that runs goes on (it may fail at any step, and nobody
is assumed to start it again), a ticket is redeemed or known not to be, and somebody
redeems each deposit.

## 4. Proofs

`TallyProofs` holds the arithmetic. A total is defined as the cardinality of a set
of units, because nothing can be proved about a sum by recursion without induction
over its domain. Adding, removing and updating an element then follow from the
library's theorems on finite sets (`TallyAdd`, `TallyRemove`, `TallyUpdate`, and
their forms for messages, `SendOneToken` and `ConsumeOneToken`).

`CustomBridgeProofs`:

* `TypeCorrect` : `Spec => []TypeOK`. In particular escrow and balances never go
  below zero.
* `BookkeepingHolds` : message identifiers lie below the counters, the sets of
  messages are finite, an address without code has no balances. This is what makes
  a new message really new (its amount is added to the total, not absorbed by an
  equal record), and what lets a contract appear at an address without changing
  what is owed.
* `EveryStepIsCanonical` : under those two invariants each action is a step of
  `CanonicalBridge` or leaves its variables alone. One lemma per kind of action
  says which: `DepositLocks`, `DonateIsSurplus`, `FinalizeReleases`,
  `DropAbandons`; `RedeemKeepsClaims`, `WithdrawKeepsClaims` and
  `DeployKeepsClaims` for the ones that only change the form of a claim.
* `Refinement` : `Spec => ImplementsCanonicalBridge`.
* `Solvency` : `Spec => []Solvent`. `Solvent` is inductive relative to the two
  invariants; each action's lemma gives the change of both sides.
* `ExitsCanBePaid` : the escrow covers every exit there is, so the one condition of
  `finalizeInboundTransfer` that is about funds never keeps an exit waiting.
* `ExitNumbers` : `Spec => []ExitNumsUnique`, from the bookkeeping invariant.
* `ExitTrading` : `Spec => []OnlyHoldersTradeExits`.
* `Registration` : `Spec => []SelfRegistrationsAgree`. What L2 has is not inductive
  alone, since a ticket in flight could carry something else; the strengthening is
  `RegistrationsInFlightAgree`, the same statement about the tickets.
* `MintedTokensWithdrawable` : `Spec => []MintedUnderRegistration`. It is inductive
  relative to `Registration` and the bookkeeping: units are minted only at the
  address L2 has, which is the one L1 has; L1 never changes it unless forced; and a
  contract that appears at an address finds no balances there.

`RouterPairProofs`. A step changes routes or moves units, never both (`StepCases`), so
there are two inductive invariants.

* `RoutersAgreeHolds` : `Spec => []RoutersAgree`. That the routers agree where the last
  update sent is the last redeemed is not inductive alone: a ticket in flight could
  carry anything. `TicketsCarryRoutes` says that the one sent last for a token carries
  the L2 end of the route L1 has now. `SetGatewaysRoutes` is the case that matters: a
  list of routes takes from all older tickets that they are the last ones for its
  tokens.
* `EachGatewayBackedHolds` : `Spec => []EachGatewayBacked`, with the finiteness of the
  deposits in flight, whose number is part of the balance (`InFlightAdd`,
  `InFlightRemove`). A deposit that is credited, sent back or dropped moves its unit from
  there to `minted`, `exits` or `surplus` of the same gateway. The last term is what an escrow may
  hold without owing it; without it the equality would be false after an expired deposit.
* `RoutedExitsPayableHolds` : each gateway holds enough for all exits addressed to it.
* `RoutedRefinement` : `Spec => RoutedImplementsBridge`. Each gateway and token is a
  canonical bridge of its own: a deposit locks a unit with the gateway of the moment,
  an exit releases one there, a dropped deposit is abandoned there, and no step of the
  routers is visible. By `EachGatewayBacked` what is held is what is owed and the surplus
  (`RoutedCovered`), so a step that changes neither escrow nor surplus changes no claim.
* `OwnerlessRoutesStandHolds` : the action property. Without an owner only
  `setGateway` is left, and it accepts only the route the token has.

`UsdcBridgeProofs`. `AccountsInv` has the types, `MessagesApart` (numbers below the
counter, no message a deposit and an exit at once, which makes a deposit that bounces
add to one total what it takes from the other), `Conservation`, and `BurnsCovered`.
`ExitsStayPayable` compares the escrow with what is in flight and is not inductive:
whether a burn leaves enough depends on the supply at that moment. `BurnsCovered`
says why it does: as long as the migration was not improper, no more was burnt than
the supply, since the first burn withdrawals have been paused so that the supply
cannot fall, and an amount chosen properly may be burnt on top of what was burnt.
`ConservationHolds` and `ExitsStayPayableHolds` follow. `UsdcRefinement` shows that the
pair implements `CanonicalBridge` when burnt units count as locked: a burn creates and
extinguishes no claim, and every other step of a migration is invisible too, in
whatever order the steps are taken. It needs no orderly migration, and does not
replace `ExitsStayPayable`, which says what remains in escrow.

`GatewayProofs`. Each section uses the assumptions of its own module and of
`Transfers`, and hides them at its end.

* `WethFullyCollateralized`, with `WethValuesMatch`, that each message carries the ETH
  it promises.
* `StandardAuthenticTokens` and `StandardBacked`, with `StandardNumbered`, which makes a
  new message new, and `StandardReceived`, that the amount credited is the amount that
  arrived, whatever the fee of the token. The first holds because a salt contains the
  caller.
* `StandardExitsCanBePaid` : the escrow covers every exit, by `Backed`.
* `ReverseBackedOnL2`, with `ReverseMessagesApart`. `ReverseReceived` says that the
  amount escrowed is the amount that arrived, whatever the fee of the token.
* `ReverseDepositsCanBePaid` : as long as no second L2 address is registered, every
  deposit finds its units in escrow on L2. `BackedOnL2` does not say so, since it adds
  up the escrow of all tokens; `ReverseUnmoved` says that the escrow of all other
  tokens is empty and that whatever registration is in flight names the same token.
* `StandardRefinement` and `ReverseRefinement`: both pairs of gateways implement
  `CanonicalBridge` (`StandardImplementsBridge`, `ReverseImplementsBridge`), the standard
  gateways per L1 token, the reverse gateways mirrored: what is locked is the escrow on
  L2 of all tokens that were ever registered, and the claims are the supply on L1 and
  the messages. `StandardCovered` and `ReverseCovered` say that what is held is what is
  owed and the surplus; they follow from `Backed` and `BackedOnL2`. With them before and
  after a step, how the step changes the escrow and the surplus determines which
  abstract step it is (`StandardCanonicalStep`, `ReverseCanonicalStep`).
* `OrbitFeesFromCallers`, from one lemma about tickets (`OrbitTicket`) and one about
  payments (`OrbitPayment`). What the registration script transfers to the executor is
  counted as given to it to spend, and its allowance is all the router may take.
* `OrbitScaledFeesSuffice` needs that powers of ten are what they should be, for every
  number of decimals. `OrbitFees` defines them by a recursive function, about which
  nothing is known before it is shown to exist. `LeastNumber` derives from the
  library's `NatLessThanWellFounded` and `WFMin` that a set of natural numbers has a
  least element; `InductionOverNat` is induction for a set in place of a predicate, so
  that the provers can use it; `PowersExist` and `PowersAgree` build the function from
  finite tables; `Pow10Def` and `Pow10Laws` follow. `RoundedUp` is the arithmetic of
  rounding, and `OrbitScaling` brings them together for all three formulas.

`L2GatewayTokenProofs`:

* `TypeCorrect` : `Spec => []TypeOK`. Every stored amount is an unsigned integer.
* `Supply` : `Spec => []SupplyIsSum`, for any width of the integers. The lemmas
  `Debit` and `Credit` say that a debit the balance covers and a credit that leaves
  the total representable are exact; that no balance exceeds the supply
  (`BalanceWithinSupply`) is why the checks in the code suffice.
* `Permits` : `OnePermitPerNonce` with `NoncesPassed`, that the counter has passed
  the nonce of every permit that took effect, which makes it inductive.
* `Spending` : `SpendingGranted` with `UnlimitedNoted`: a pair whose allowance was
  never unlimited is charged for every transfer.

`BridgeCreationProofs` proves `FactoryIsCanonical`, `SidesAreWired`,
`ReportedIsDeployed` and `WethRouteOnWiredPair`. `ReportedIsDeployed` has no condition on how
the tickets were executed: if the second one was executed without a factory, it says
that the factory is there by now, or that its nonce is burnt. The inductive invariant
has a part for the contracts and one for the script.

* `DInv`, the contracts: `SidesAreWired` needs `TicketsWired`, that every ticket in
  flight names the recorded L1 contracts and an executor and comes from the retryable
  sender, which also keeps the creator's nonce for the factory; and
  `TemplatesComplete`. When `createTokenBridge` records contracts for the first time,
  the typing of tickets and deployments shows that there is nothing yet that could
  name others. One lemma per operation shows `DInv` and `Kept`, that the canonical
  deployment stays.
* `SInv`, the script: `Watching`, a second ticket that counts as redeemed and was not
  hollow has deployed the contracts; `PickedUp`, what is to be reported holds from the
  moment the addresses are read. Steps of others preserve both because of `Kept`
  (`ScriptAside`).

Its second half is about `DeploymentScripts`.

* Of the scripts the proof uses only two facts. `Careful`: each contract is
  initialized exactly as often as it has initializers, and all of that happens before
  anything is published (`setTemplates`, `setGateways`, `prepare`). `RegistersAt`: with the
  owner's key, `setGateways` is called once and the wait for its ticket comes right
  after it. `CreatorCareful` and `UsdcCareful` establish them from the sequences of
  steps, for all forms of the scripts.
* `DeploymentInv` is inductive. `Progress`: the initializers a run has called are those of
  the steps behind it. `TakenEarly`: a contract that somebody else initialized keeps an
  initializer its script has not called. `UsedOwned`: whatever leads to the contracts of a
  run, or may do so later (a file, a ticket), is made for a run that owns them all.
  `OwnerRegisters`: with the owner's key only the last run registers, and the L2 router
  has the gateway of the ticket redeemed last.
* Both are about the contracts others call (`Called`): all but the logic contracts of
  the USDC gateways.
* The argument: a run that publishes has its initializing steps behind it, so by
  `Progress` it called all initializers, so by `TakenEarly` nobody else called one
  (`AllInitialized`, `PublishedOwned`). From then on there is none left to call, neither
  for the script, which a count of its steps shows, nor for others (`OwnedStays`).
* `ScriptsPublishTheirOwn` : `ScriptsSpec => []NothingTakenOver`, and `UsdcScriptRegisters` :
  `ScriptsSpec => []RegisteredOnBothSides`, for any number of runs.

`ImplementationUpgradesProofs` proves one inductive invariant, `IInv`, and reads the
properties off it. Its parts: `Fits`, everything in the chain, the files and the queue
was built for the contract it stands at; `Verified`, a running update has
its file `tmp_deployment`; `Pending`, what is left to do is still
queued; `FileMatches`, `tmp_deployment` equals the chain except for the contract whose
upgrade is not written yet; `Recorded`, the files equal the chain before and after; and
`NothingForgotten`. `RecordsMatchChain`
speaks of idle states only and says nothing of how an update got there, so it needs
all of them: the last write copies `tmp_deployment`, which is right because every
single update left it equal to the chain. `InitIInv` and `NextIInv` (one step per
action, one per part below it) make it invariant (`Invariance`); `TypeCorrect`,
`Fitting`, `Bookkeeping` and `Records` follow. `Upgrading` proves the action property
`OneVerifiedUpgrade` from it by `UpgradeStep`: `setFacets` writes the other facet from
the record, and `FileMatches` says that this is what the chain has. That the contract is
in the expected hands holds although `transferAdmin` may come in between, because the
transaction reverts otherwise; for the facets nobody is asked.

Assumptions of the bridge's theorems are the `ASSUME`s of `Messaging`, `L1CustomGateway`, `L2CustomGateway`
and `CustomBridge`: finite sets of users and tokens, natural-number bounds and fees,
distinct special addresses. TLC evaluates them on every run of `MCCustomBridge`.
`L2GatewayToken` assumes finitely many accounts and amounts that are unsigned
integers. `UpgradesAssumption` says that the names are those of `tasks/types.ts`, that
every contract is one of them, and that the markers are no logic contracts. Its
theorems hold for any subset of the names, any layer and any number of deployments.
`DeploymentAssumption` and `CreationAssumption` say that the creator, the sender and
outsiders are different accounts, that templates and deployments are given as
versions, and that the markers are neither versions, deployments nor tickets.
`ScriptsAssumption` says that the scripts are among the two modelled and that there is
at least one run.

`RouterPair`, `Transfers`, `UsdcBridge`, `WethBridge`, `StandardBridge`, `ReverseBridge`
and `OrbitFees` assume distinct special addresses (the upgrade executor is one of the
contracts that call on their own account), amounts, fees and bounds that are natural
numbers, finite sets where totals are taken over them, and no more. TLC evaluates all
of these on the runs.

Only model-checked: liveness (`EventuallySettled`, `TransfersSettle`,
`WethTransfersSettle`, `ReverseTransfersSettle`, `EventuallyDeployed`,
`EarlyDepositsMinted`), since fairness and `ENABLED` are beyond the prover. The theorems
about exits and deposits that can be paid prove the part of it that is about safety:
no transfer waits for funds. The refinements of `RouterPair` and `UsdcBridge` and the
theorems about payable transfers are proved and are not properties of a run.

## 5. Not modelled

* Gas, fee estimation and refunds, except where a ticket is too cheap
  (`OrbitFees`) or runs out of gas (`createFactoryFails`).
* Reentrancy from L1 tokens into the gateway: `outboundTransferCustomRefund` is
  `nonReentrant` in the custom gateway. Tokens whose balances change by themselves
  (rebasing) are outside what the gateway claims to support.
* What new logic does once a proxy is upgraded to it, the rollup's own consensus, and
  the check of the rollup owner's role in the upgrade executor.
* End-to-end and mutation tests: they exercise what the modules model, and were read
  for what they expect.
* `hardhat.config.ts` and the scripts that send one transaction or none
  (`register_custom_token`, `upgradeTemplate`, submission of
  sources to explorers, `verify_upgrade`).
* `transferBeaconOwner` and `removeBuildInfoFiles` in `tasks/`, which call a global `prompt`
  that Node does not have before they change anything; and tasks that run at the same
  time on the same files, against which the tasks take no precaution.
* The SDK: registration of a custom network and the polling by which the status of a
  ticket becomes known; the scripts' view of a ticket is the ticket's state.
* Contents of hook data: both `finalizeInboundTransfer` functions discard it.

## 6. Where texts and code differ

No run expects a violation. What was met while modelling:

* A resend after `setTemplates` deploys the L2 multicall at an address other than the
  one recorded at the first call (`ethereum/L1AtomicTokenBridgeCreator.sol:391`). The
  end-to-end tests expect code at the recorded address
  (`test-e2e/tokenBridgeDeploymentTest.ts:476`, `:701`) and do not change templates.
* The task asks whether to resume an interrupted update with a prompt that returns a
  Boolean and compares the answer with `'Yes'` (`tasks/index.ts:140`), so it never
  resumes. `resumes` models this; the operator mends the files (`mendRecords`) or
  removes `tmp_deployment` (`removeTmp`), both of which the properties allow for.
* The approval of the fee token that the USDC script prepares for a multisig is
  addressed to the upgrade executor (`scripts/usdc-bridge-deployment/deployUsdcBridge.ts:514`),
  which has no such function. `preparedApproval` models this: with a fee token the
  prepared transactions do not register the gateway.
* The headers of the reverse gateways say they burn on L2 and escrow on L1
  (`arbitrum/gateway/L2ReverseCustomGateway.sol:30`); the code does the opposite
  (line 57). `BackedOnL2` states what the code guarantees.
* The header of `bridgeInit` says that the L2 bridge assumes it does not fail
  (`arbitrum/StandardArbERC20.sol:39`). A comment in its body names metadata that
  cannot be decoded as the exception. Such a deposit waits until another creates
  the token; `TransfersSettle` of `StandardBridge` states exactly this exception.

## 7. Plan

Done, in this order: messages and the custom gateways with the abstract bridge;
their proofs; routers; deployment; the USDC, WETH, standard, reverse gateways and
the fees in an ERC20 token; the L2 token and its proofs; the creation scripts on top
of the deployment, with their proofs; the scripts that deploy the creator and the USDC bridge, with
their proofs; the upgrade tasks and their proofs; the proofs about routers, special
gateways and fees; the refinements of the canonical bridge by every pair of gateways
but the WETH gateways, whose invariant says the same more directly.

Next, modelling:

1. Compose routers and gateways: one instance in which a token has a custom and a
   standard gateway and its route changes, so that the gateways' own reasons to send a
   deposit back replace the free choice of `RouterPair`.
2. The inner wiring of a deployment (which proxy is initialised with which
   counterpart), so that the composed addresses are checked rather than assumed.
