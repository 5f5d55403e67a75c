----------------------------- MODULE RouterPair -----------------------------
(***************************************************************************)
(* L1GatewayRouter and L2GatewayRouter, which map tokens to gateways, and  *)
(* the transfers they route.  The L1 router is the authority: a token sets *)
(* its own gateway, the owner sets any token's and the default; every      *)
(* change is sent to the L2 router in a retryable ticket of its own, and   *)
(* tickets may be redeemed in any order or not at all.  A deposit goes     *)
(* from the L1 gateway to that gateway's counterpart, without the L2       *)
(* router; a withdrawal goes through the L2 router or directly to an L2    *)
(* gateway.  A transfer moves one unit: routing does not look at amounts.  *)
(* Why a gateway cannot credit a deposit is left to the modules of the     *)
(* gateways: here it credits any deposit or sends it back.                 *)
(*                                                                         *)
(* History: lastSent and lastApplied name, per token (and for the default  *)
(* route under the key Default), the ticket sent last and the ticket       *)
(* redeemed last; surplus counts the units of deposits never redeemed.     *)
(***************************************************************************)
EXTENDS Naturals, FiniteSets

CONSTANTS
  Tokens,        \* L1 tokens
  ArbEnabled,    \* those whose isArbitrumEnabled() answers 0xb1
  Gateways,      \* L1 gateway contracts
  L2Gateways,    \* L2 gateway contracts
  Counterpart,   \* counterpartGateway of each L1 gateway
  Handled,       \* <<g, t>> where calculateL2TokenAddress is not zero
  Admins,        \* accounts that may own the router
  ZERO, DISABLED,
  Default,       \* key of the default route in the history variables
  MaxUpdates,    \* bound on route changes
  MaxDeposits    \* bound on deposits

ASSUME RouterAssumption ==
  /\ ArbEnabled \subseteq Tokens
  /\ Counterpart \in [Gateways -> L2Gateways]
  /\ \A g, h \in Gateways : Counterpart[g] = Counterpart[h] => g = h
  /\ Handled \subseteq Gateways \X Tokens
  /\ ZERO # DISABLED
  /\ {ZERO, DISABLED} \cap (Gateways \cup L2Gateways \cup Admins) = {}
  /\ Default \notin Tokens
  /\ MaxUpdates \in Nat /\ MaxDeposits \in Nat

VARIABLES
  owner,                 \* L1 router
  l1TokenToGateway_L1, defaultGateway_L1,
  l1TokenToGateway_L2, defaultGateway_L2,
  routeTickets,          \* tickets calling L2 setGateway
  defaultTickets,        \* tickets calling L2 setDefaultGateway
  updates,               \* tickets of either kind ever sent
  escrow,                \* units each L1 gateway holds of each token
  deposits,              \* deposits in flight: <<number, L1 gateway, token>>
  depositCount,
  minted,                \* units each L2 gateway has issued for each token
  exits,                 \* per L1 gateway and token, withdrawals in flight
  surplus,               \* per L1 gateway and token, units whose deposit was lost
  lastSent, lastApplied

l1Routes == <<owner, l1TokenToGateway_L1, defaultGateway_L1>>
l2Routes == <<l1TokenToGateway_L2, defaultGateway_L2>>
tickets == <<routeTickets, defaultTickets, updates>>
transfers == <<escrow, deposits, depositCount, minted, exits, surplus>>
history == <<lastSent, lastApplied>>
vars == <<l1Routes, l2Routes, tickets, transfers, history>>

Routes == Gateways \cup {ZERO, DISABLED}
L2Routes == L2Gateways \cup {ZERO, DISABLED}
Keys == Tokens \cup {Default}

TypeOK ==
  /\ owner \in Admins \cup {DISABLED}
  /\ l1TokenToGateway_L1 \in [Tokens -> Routes]
  /\ defaultGateway_L1 \in Gateways \cup {ZERO}
  /\ l1TokenToGateway_L2 \in [Tokens -> L2Routes]
  /\ defaultGateway_L2 \in L2Gateways \cup {ZERO}
  /\ \A m \in routeTickets : /\ m.id \in 1 .. updates
                             /\ DOMAIN m.gateway \subseteq Tokens
                             /\ \A t \in DOMAIN m.gateway : m.gateway[t] \in L2Routes
  /\ defaultTickets \subseteq [id : 1 .. updates, gateway : L2Gateways \cup {ZERO}]
  /\ updates \in Nat
  /\ escrow \in [Gateways \X Tokens -> Nat]
  /\ deposits \subseteq (1 .. depositCount) \X Gateways \X Tokens
  /\ depositCount \in Nat
  /\ minted \in [L2Gateways \X Tokens -> Nat]
  /\ exits \in [Gateways \X Tokens -> Nat]
  /\ surplus \in [Gateways \X Tokens -> Nat]
  /\ lastSent \in [Keys -> 0 .. updates]
  /\ lastApplied \in [Keys -> 0 .. updates]

\* initialize on both routers: a default gateway or none, no route set.
Init ==
  /\ owner \in Admins
  /\ l1TokenToGateway_L1 = [t \in Tokens |-> ZERO]
  /\ l1TokenToGateway_L2 = [t \in Tokens |-> ZERO]
  /\ \/ \E g \in Gateways : /\ defaultGateway_L1 = g
                            /\ defaultGateway_L2 = Counterpart[g]
     \/ defaultGateway_L1 = ZERO /\ defaultGateway_L2 = ZERO
  /\ routeTickets = {} /\ defaultTickets = {} /\ updates = 0
  /\ escrow = [p \in Gateways \X Tokens |-> 0]
  /\ deposits = {} /\ depositCount = 0
  /\ minted = [p \in L2Gateways \X Tokens |-> 0]
  /\ exits = [p \in Gateways \X Tokens |-> 0]
  /\ surplus = [p \in Gateways \X Tokens |-> 0]
  /\ lastSent = [k \in Keys |-> 0]
  /\ lastApplied = [k \in Keys |-> 0]

-----------------------------------------------------------------------------
\* getGateway: the default stands in for a token without a route; a disabled
\* route gives no gateway.  The routes modelled lead to contracts.
getGateway(route, default) ==
  LET gateway == IF route = ZERO THEN default ELSE route
  IN  IF gateway = DISABLED THEN ZERO ELSE gateway

getGateway_L1(t) == getGateway(l1TokenToGateway_L1[t], defaultGateway_L1)
getGateway_L2(t) == getGateway(l1TokenToGateway_L2[t], defaultGateway_L2)

\* The mistake of leaving the markers to the counterpart lookup's default.
counterpartOrZero(g) == IF g \in Gateways THEN Counterpart[g] ELSE ZERO

\* What the L2 router is told: gateways become their counterparts, the
\* markers for no route and for a disabled route stay as they are.
toL2Route(g) == IF g \in {ZERO, DISABLED} THEN g ELSE Counterpart[g]

handles(g, t) == g \in {ZERO, DISABLED} \/ <<g, t>> \in Handled

\* _setGateways, for a list of tokens and their gateways.
_setGateways(gateways) ==
  /\ updates < MaxUpdates
  /\ \A t \in DOMAIN gateways : handles(gateways[t], t)  \* TOKEN_NOT_HANDLED_BY_GATEWAY
  /\ l1TokenToGateway_L1' = [t \in Tokens |->
       IF t \in DOMAIN gateways THEN gateways[t] ELSE l1TokenToGateway_L1[t]]
  /\ routeTickets' = routeTickets \cup
       {[id |-> updates + 1, gateway |-> [t \in DOMAIN gateways |-> toL2Route(gateways[t])]]}
  /\ updates' = updates + 1
  /\ lastSent' = [k \in Keys |-> IF k \in DOMAIN gateways THEN updates + 1 ELSE lastSent[k]]
  /\ UNCHANGED <<owner, defaultGateway_L1, l2Routes, defaultTickets, transfers, lastApplied>>

\* The mistake of letting a token change its mind.
anyGateway(t, g) == TRUE

\* A token whose gateway is set and is not the default may only repeat it.
maySetGateway(t, g) ==
  LET currGateway == getGateway_L1(t)
  IN  currGateway # ZERO /\ currGateway # defaultGateway_L1 => currGateway = g

\* setGateway, called by the token contract itself.
setGateway(t, g) ==
  /\ t \in ArbEnabled                                    \* NOT_ARB_ENABLED
  /\ g \in Gateways                                      \* NOT_TO_CONTRACT
  /\ maySetGateway(t, g)                                 \* NO_UPDATE_TO_DIFFERENT_ADDR
  /\ _setGateways([s \in {t} |-> g])

\* setGateways, called by the owner.
setGateways(sender, gateways) ==
  /\ sender = owner                                      \* ONLY_OWNER
  /\ _setGateways(gateways)

\* setDefaultGateway, called by the owner.
setDefaultGateway(sender, g) ==
  /\ updates < MaxUpdates
  /\ sender = owner                                      \* ONLY_OWNER
  /\ defaultGateway_L1' = g
  /\ defaultTickets' = defaultTickets \cup {[id |-> updates + 1, gateway |-> toL2Route(g)]}
  /\ updates' = updates + 1
  /\ lastSent' = [lastSent EXCEPT ![Default] = updates + 1]
  /\ UNCHANGED <<owner, l1TokenToGateway_L1, l2Routes, routeTickets, transfers, lastApplied>>

\* setOwner; address(1) stands for no owner any more.
setOwner(sender, newOwner) ==
  /\ sender = owner                                      \* ONLY_OWNER
  /\ owner' = newOwner
  /\ UNCHANGED <<l1TokenToGateway_L1, defaultGateway_L1, l2Routes, tickets, transfers, history>>

-----------------------------------------------------------------------------
\* L2 setGateway, called by the aliased L1 router.
redeemRoutes(m) ==
  /\ routeTickets' = routeTickets \ {m}
  /\ l1TokenToGateway_L2' = [t \in Tokens |->
       IF t \in DOMAIN m.gateway THEN m.gateway[t] ELSE l1TokenToGateway_L2[t]]
  /\ lastApplied' = [k \in Keys |-> IF k \in DOMAIN m.gateway THEN m.id ELSE lastApplied[k]]
  /\ UNCHANGED <<l1Routes, defaultGateway_L2, defaultTickets, updates, transfers, lastSent>>

\* L2 setDefaultGateway, called by the aliased L1 router.
redeemDefault(m) ==
  /\ defaultTickets' = defaultTickets \ {m}
  /\ defaultGateway_L2' = m.gateway
  /\ lastApplied' = [lastApplied EXCEPT ![Default] = m.id]
  /\ UNCHANGED <<l1Routes, l1TokenToGateway_L2, routeTickets, updates, transfers, lastSent>>

\* A ticket expires or is cancelled.
dropTicket ==
  /\ \/ /\ \E m \in routeTickets : routeTickets' = routeTickets \ {m}
        /\ UNCHANGED defaultTickets
     \/ /\ \E m \in defaultTickets : defaultTickets' = defaultTickets \ {m}
        /\ UNCHANGED routeTickets
  /\ UNCHANGED <<l1Routes, l2Routes, updates, transfers, history>>

-----------------------------------------------------------------------------
\* outboundTransferCustomRefund of the L1 router: the gateway of the moment
\* takes the token and sends the deposit to its counterpart.
deposit(t) ==
  LET g == getGateway_L1(t)
  IN  /\ depositCount < MaxDeposits
      /\ g # ZERO
      /\ <<g, t>> \in Handled                            \* NO_L2_TOKEN_SET
      /\ escrow' = [escrow EXCEPT ![<<g, t>>] = @ + 1]
      /\ deposits' = deposits \cup {<<depositCount + 1, g, t>>}
      /\ depositCount' = depositCount + 1
      /\ UNCHANGED <<l1Routes, l2Routes, tickets, minted, exits, surplus, history>>

\* The mistake of finalizing a deposit with whatever gateway L2 routes to now.
currentL2Gateway(g, t) ==
  IF getGateway_L2(t) = ZERO THEN Counterpart[g] ELSE getGateway_L2(t)

\* The L2 gateway a deposit is addressed to.
depositTarget(g, t) == Counterpart[g]

\* The gateway mints what came in.
credit(l2Gateway, t) ==
  /\ minted' = [minted EXCEPT ![<<l2Gateway, t>>] = @ + 1]
  /\ UNCHANGED exits

\* Without a valid L2 token it mints nothing and sends the unit back, to the L1
\* gateway it is the counterpart of.
triggerWithdrawal(l2Gateway, t) ==
  /\ \E g \in Gateways : /\ Counterpart[g] = l2Gateway
                         /\ exits' = [exits EXCEPT ![<<g, t>>] = @ + 1]
  /\ UNCHANGED minted

\* A deposit is finalized by the L2 gateway it was addressed to.
finalizeDeposit(d) ==
  LET l2Gateway == depositTarget(d[2], d[3])
  IN  /\ deposits' = deposits \ {d}
      /\ credit(l2Gateway, d[3]) \/ triggerWithdrawal(l2Gateway, d[3])
      /\ UNCHANGED <<l1Routes, l2Routes, tickets, escrow, depositCount, surplus, history>>

\* The ticket of a deposit expires or is cancelled: its unit stays in escrow.
dropDeposit(d) ==
  /\ deposits' = deposits \ {d}
  /\ surplus' = [surplus EXCEPT ![<<d[2], d[3]>>] = @ + 1]
  /\ UNCHANGED <<l1Routes, l2Routes, tickets, escrow, depositCount, minted, exits, history>>

\* The counterpart of g burns a unit of t and sends the exit to the L1 gateway it
\* is the counterpart of.
burn(g, t) ==
  /\ minted[<<Counterpart[g], t>>] > 0
  /\ minted' = [minted EXCEPT ![<<Counterpart[g], t>>] = @ - 1]
  /\ exits' = [exits EXCEPT ![<<g, t>>] = @ + 1]
  /\ UNCHANGED <<l1Routes, l2Routes, tickets, escrow, deposits, depositCount, surplus, history>>

\* outboundTransfer of the L2 router.
withdrawThroughRouter(g, t) == getGateway_L2(t) = Counterpart[g] /\ burn(g, t)

\* outboundTransfer of the L2 gateway itself, open to every holder.
withdrawDirectly(g, t) == burn(g, t)

\* The exit is executed by the L1 gateway, without the L1 router.
finalizeExit(g, t) ==
  /\ exits[<<g, t>>] > 0 /\ escrow[<<g, t>>] > 0
  /\ exits' = [exits EXCEPT ![<<g, t>>] = @ - 1]
  /\ escrow' = [escrow EXCEPT ![<<g, t>>] = @ - 1]
  /\ UNCHANGED <<l1Routes, l2Routes, tickets, deposits, depositCount, minted, surplus, history>>

Next ==
  \/ \E t \in Tokens, g \in Gateways : setGateway(t, g)
  \/ \E sender \in Admins : \E S \in SUBSET Tokens : \E gateways \in [S -> Routes] :
       setGateways(sender, gateways)
  \/ \E sender \in Admins, g \in Gateways \cup {ZERO} : setDefaultGateway(sender, g)
  \/ \E sender \in Admins, newOwner \in Admins \cup {DISABLED} : setOwner(sender, newOwner)
  \/ \E m \in routeTickets : redeemRoutes(m)
  \/ \E m \in defaultTickets : redeemDefault(m)
  \/ dropTicket
  \/ \E t \in Tokens : deposit(t)
  \/ \E d \in deposits : finalizeDeposit(d)
  \/ \E d \in deposits : dropDeposit(d)
  \/ \E g \in Gateways, t \in Tokens : withdrawThroughRouter(g, t)
  \/ \E g \in Gateways, t \in Tokens : withdrawDirectly(g, t)
  \/ \E g \in Gateways, t \in Tokens : finalizeExit(g, t)

Spec == Init /\ [][Next]_vars

\* Deposits are redeemed by anybody, exits executed by anybody.
Fairness ==
  /\ WF_vars(\E d \in deposits : finalizeDeposit(d))
  /\ WF_vars(\E g \in Gateways, t \in Tokens : finalizeExit(g, t))

FairSpec == Spec /\ Fairness

-----------------------------------------------------------------------------
\* The L1 route g and the L2 route h lead to the two ends of one bridge, or
\* both say that there is none.
SameRoute(g, h) == \/ g \in Gateways /\ h = Counterpart[g]
                   \/ g \in {ZERO, DISABLED} /\ h = g

\* The L2 router follows the L1 router: where the change sent last is also the
\* one redeemed last, both routers agree, disabled routes included.  Redeemed
\* out of order the routers may disagree, and nothing in the code repairs it.
RoutersAgree ==
  /\ \A t \in Tokens : lastApplied[t] = lastSent[t]
       => SameRoute(l1TokenToGateway_L1[t], l1TokenToGateway_L2[t])
  /\ lastApplied[Default] = lastSent[Default]
       => SameRoute(defaultGateway_L1, defaultGateway_L2)

\* Once the owner has given up ownership a gateway chosen by a token, other
\* than the default, is chosen for good.
OwnerlessRoutesStand ==
  [][owner = DISABLED =>
       \A t \in Tokens : getGateway_L1(t) \notin {ZERO, defaultGateway_L1}
         => getGateway_L1(t)' = getGateway_L1(t)]_vars

\* Whatever the routers say, and however far apart they are, each L1 gateway
\* holds what its own counterpart has issued, what is in flight between the two
\* and what deposits never redeemed have left there, and no other gateway's units.
EachGatewayBacked ==
  \A g \in Gateways, t \in Tokens :
    escrow[<<g, t>>] = minted[<<Counterpart[g], t>>] + exits[<<g, t>>]
                         + Cardinality({d \in deposits : d[2] = g /\ d[3] = t})
                         + surplus[<<g, t>>]

\* No deposit and no exit is held up by a change of routes.
TransfersSettle ==
  <>[](deposits = {} /\ \A g \in Gateways, t \in Tokens : exits[<<g, t>>] = 0)

\* What an L1 gateway owes of a token: units its counterpart has issued, and
\* transfers in flight either way.
owed == [p \in Gateways \X Tokens |->
           minted[<<Counterpart[p[1]], p[2]>>] + exits[p]
             + Cardinality({d \in deposits : d[2] = p[1] /\ d[3] = p[2]})]

\* Each gateway and token is a bridge of its own, where a transfer moves one unit.
RoutedCanonical == INSTANCE CanonicalBridge
  WITH Tokens <- Gateways \X Tokens, Quantities <- {1},
       locked <- escrow, claims <- owed, surplus <- surplus

\* The routed transfers implement as many independent bridges, whatever the
\* routers say when a transfer starts and when it ends.
RoutedImplementsBridge == RoutedCanonical!Spec
=============================================================================
