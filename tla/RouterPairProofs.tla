-------------------------- MODULE RouterPairProofs --------------------------
(***************************************************************************)
(* Theorems about the two routers and the transfers they route, for every  *)
(* set of tokens, gateways and owners and any number of route changes,     *)
(* redeemed in any order or lost.                                          *)
(***************************************************************************)
EXTENDS RouterPair, FiniteSetTheorems, TLAPS

USE RouterAssumption

\* The steps of the two routers and of the tickets between them.
RouteStep ==
  \/ \E t \in Tokens, g \in Gateways : setGateway(t, g)
  \/ \E sender \in Admins : \E S \in SUBSET Tokens : \E gateways \in [S -> Routes] :
       setGateways(sender, gateways)
  \/ \E sender \in Admins, g \in Gateways \cup {ZERO} : setDefaultGateway(sender, g)
  \/ \E sender \in Admins, newOwner \in Admins \cup {DISABLED} : setOwner(sender, newOwner)
  \/ \E m \in routeTickets : redeemRoutes(m)
  \/ \E m \in defaultTickets : redeemDefault(m)
  \/ dropTicket

\* The steps of the gateways that move a unit.
TransferStep ==
  \/ \E t \in Tokens : deposit(t)
  \/ \E d \in deposits : finalizeDeposit(d)
  \/ \E d \in deposits : dropDeposit(d)
  \/ \E g \in Gateways, t \in Tokens : burn(g, t)
  \/ \E g \in Gateways, t \in Tokens : finalizeExit(g, t)

\* Every step changes routes or moves a unit; withdrawing through the router
\* and directly burns the same way.
LEMMA StepCases == Next => RouteStep \/ TransferStep
BY DEF Next, RouteStep, TransferStep, withdrawThroughRouter, withdrawDirectly

\* Changing routes moves no unit.
LEMMA RoutesMoveNothing == RouteStep => UNCHANGED transfers
<1>1. \A gateways : _setGateways(gateways) => UNCHANGED transfers
  BY DEF _setGateways
<1> QED  BY <1>1 DEF RouteStep, setGateway, setGateways, setDefaultGateway, setOwner, redeemRoutes,
                     redeemDefault, dropTicket

\* Moving a unit changes neither routes nor tickets.
LEMMA TransfersKeepRoutes ==
  TransferStep => UNCHANGED <<l1Routes, l2Routes, tickets, history>>
BY DEF TransferStep, deposit, finalizeDeposit, dropDeposit, burn, finalizeExit

-----------------------------------------------------------------------------
\* What a router is told to set for a token, by the token or by the owner, is
\* a list of routes for some of the tokens.
LEMMA SetGatewaysType ==
  ASSUME TypeOK, NEW S \in SUBSET Tokens, NEW gateways \in [S -> Routes], _setGateways(gateways)
  PROVE  TypeOK'
<1>1. updates \in Nat /\ updates' = updates + 1
  BY DEF TypeOK, _setGateways
<1>2. l1TokenToGateway_L1' \in [Tokens -> Routes]
  BY DEF TypeOK, _setGateways
<1>3. \A r \in Routes : toL2Route(r) \in L2Routes
  BY DEF toL2Route, Routes, L2Routes
<1>4. \A m \in routeTickets' : /\ m.id \in 1 .. updates'
                               /\ DOMAIN m.gateway \subseteq Tokens
                               /\ \A t \in DOMAIN m.gateway : m.gateway[t] \in L2Routes
  BY <1>1, <1>3 DEF TypeOK, _setGateways
<1>5. lastSent' \in [Keys -> 0 .. updates'] /\ lastApplied' \in [Keys -> 0 .. updates']
  BY <1>1 DEF TypeOK, _setGateways
<1>6. defaultTickets' \subseteq [id : 1 .. updates', gateway : L2Gateways \cup {ZERO}]
  BY <1>1 DEF TypeOK, _setGateways
<1> QED  BY <1>1, <1>2, <1>4, <1>5, <1>6 DEF TypeOK, _setGateways, l2Routes, transfers

\* setGateway and setGateways both are _setGateways for some list.
LEMMA SetGatewayList ==
  /\ \A t \in Tokens, g \in Gateways : setGateway(t, g) =>
       \E S \in SUBSET Tokens : \E gateways \in [S -> Routes] : _setGateways(gateways)
  /\ \A sender : \A S \in SUBSET Tokens : \A gateways \in [S -> Routes] :
       setGateways(sender, gateways) => _setGateways(gateways)
<1>1. ASSUME NEW t \in Tokens, NEW g \in Gateways, setGateway(t, g)
      PROVE  \E S \in SUBSET Tokens : \E gateways \in [S -> Routes] : _setGateways(gateways)
  <2>1. [s \in {t} |-> g] \in [{t} -> Routes] /\ {t} \in SUBSET Tokens
    BY DEF Routes
  <2> QED  BY <1>1, <2>1 DEF setGateway
<1> QED  BY <1>1 DEF setGateways

\* Both routers start in their types.
LEMMA InitType == Init => TypeOK
<1> SUFFICES ASSUME Init PROVE TypeOK
  OBVIOUS
<1>1. defaultGateway_L1 \in Gateways \cup {ZERO} /\ defaultGateway_L2 \in L2Gateways \cup {ZERO}
  BY DEF Init
<1> QED  BY <1>1 DEF Init, TypeOK, Routes, L2Routes, Keys

\* The gateway that getGateway answers on L1 is a gateway or none.
LEMMA GetGatewayType ==
  ASSUME TypeOK, NEW t \in Tokens
  PROVE  getGateway_L1(t) \in Gateways \cup {ZERO}
BY DEF TypeOK, getGateway_L1, getGateway, Routes

\* Every step of a router or of a ticket keeps the variables in their types.
LEMMA RouteStepType == TypeOK /\ RouteStep => TypeOK'
<1> SUFFICES ASSUME TypeOK, RouteStep PROVE TypeOK'
  OBVIOUS
<1>1. ASSUME NEW t \in Tokens, NEW g \in Gateways, setGateway(t, g)  PROVE TypeOK'
  BY <1>1, SetGatewayList, SetGatewaysType
<1>2. ASSUME NEW sender \in Admins, NEW S \in SUBSET Tokens, NEW gateways \in [S -> Routes],
             setGateways(sender, gateways)
      PROVE  TypeOK'
  BY <1>2, SetGatewayList, SetGatewaysType
<1>3. ASSUME NEW sender \in Admins, NEW g \in Gateways \cup {ZERO}, setDefaultGateway(sender, g)
      PROVE  TypeOK'
  <2>1. updates \in Nat /\ updates' = updates + 1
    BY <1>3 DEF TypeOK, setDefaultGateway
  <2>2. toL2Route(g) \in L2Gateways \cup {ZERO}
    BY DEF toL2Route
  <2>3. defaultTickets' \subseteq [id : 1 .. updates', gateway : L2Gateways \cup {ZERO}]
    BY <1>3, <2>1, <2>2 DEF TypeOK, setDefaultGateway
  <2>4. lastSent' \in [Keys -> 0 .. updates'] /\ lastApplied' \in [Keys -> 0 .. updates']
    BY <1>3, <2>1 DEF TypeOK, setDefaultGateway, Keys
  <2>5. \A m \in routeTickets' : m.id \in 1 .. updates'
    BY <1>3, <2>1 DEF TypeOK, setDefaultGateway
  <2> QED  BY <1>3, <2>1, <2>3, <2>4, <2>5 DEF TypeOK, setDefaultGateway, l2Routes, transfers
<1>4. ASSUME NEW sender \in Admins, NEW newOwner \in Admins \cup {DISABLED},
             setOwner(sender, newOwner)
      PROVE  TypeOK'
  BY <1>4 DEF TypeOK, setOwner, l2Routes, tickets, transfers, history
<1>5. ASSUME NEW m \in routeTickets, redeemRoutes(m)  PROVE TypeOK'
  <2>1. l1TokenToGateway_L2' \in [Tokens -> L2Routes]
    BY <1>5 DEF TypeOK, redeemRoutes
  <2>2. lastApplied' \in [Keys -> 0 .. updates]
    BY <1>5 DEF TypeOK, redeemRoutes
  <2> QED  BY <1>5, <2>1, <2>2 DEF TypeOK, redeemRoutes, l1Routes, transfers
<1>6. ASSUME NEW m \in defaultTickets, redeemDefault(m)  PROVE TypeOK'
  <2>1. lastApplied' \in [Keys -> 0 .. updates]
    BY <1>6 DEF TypeOK, redeemDefault, Keys
  <2>2. defaultGateway_L2' \in L2Gateways \cup {ZERO}
    BY <1>6 DEF TypeOK, redeemDefault
  <2> QED  BY <1>6, <2>1, <2>2 DEF TypeOK, redeemDefault, l1Routes, transfers
<1>7. ASSUME dropTicket  PROVE TypeOK'
  <2>1. routeTickets' \subseteq routeTickets /\ defaultTickets' \subseteq defaultTickets
    BY <1>7 DEF dropTicket
  <2> QED  BY <1>7, <2>1 DEF TypeOK, dropTicket, l1Routes, l2Routes, transfers, history
<1> QED  BY <1>1, <1>2, <1>3, <1>4, <1>5, <1>6, <1>7 DEF RouteStep

\* Every transfer keeps the variables in their types: no gateway's escrow, no
\* issue and no count of exits falls below zero.
LEMMA TransferStepType == TypeOK /\ TransferStep => TypeOK'
<1> SUFFICES ASSUME TypeOK, TransferStep PROVE TypeOK'
  OBVIOUS
<1> USE DEF l1Routes, l2Routes, tickets, history
<1>1. ASSUME NEW t \in Tokens, deposit(t)  PROVE TypeOK'
  <2> DEFINE g == getGateway_L1(t)
  <2>1. g \in Gateways
    BY <1>1, GetGatewayType DEF deposit
  <2>2. depositCount \in Nat /\ depositCount' = depositCount + 1
    BY <1>1 DEF TypeOK, deposit
  <2>3. escrow' \in [Gateways \X Tokens -> Nat]
    BY <1>1, <2>1 DEF TypeOK, deposit
  <2>4. deposits' \subseteq (1 .. depositCount') \X Gateways \X Tokens
    BY <1>1, <2>1, <2>2 DEF TypeOK, deposit
  <2> QED  BY <1>1, <2>2, <2>3, <2>4 DEF TypeOK, deposit
<1>2. ASSUME NEW d \in deposits, finalizeDeposit(d)  PROVE TypeOK'
  <2>1. d[2] \in Gateways /\ d[3] \in Tokens
    BY DEF TypeOK
  <2>2. minted' \in [L2Gateways \X Tokens -> Nat] /\ exits' \in [Gateways \X Tokens -> Nat]
    <3>1. CASE credit(Counterpart[d[2]], d[3])
      BY <2>1, <3>1 DEF TypeOK, credit
    <3>2. CASE triggerWithdrawal(Counterpart[d[2]], d[3])
      BY <2>1, <3>2 DEF TypeOK, triggerWithdrawal
    <3> QED  BY <1>2, <3>1, <3>2 DEF finalizeDeposit, depositTarget
  <2> QED  BY <1>2, <2>2 DEF TypeOK, finalizeDeposit
<1>3. ASSUME NEW g \in Gateways, NEW t \in Tokens, burn(g, t)  PROVE TypeOK'
  BY <1>3 DEF TypeOK, burn
<1>4. ASSUME NEW g \in Gateways, NEW t \in Tokens, finalizeExit(g, t)  PROVE TypeOK'
  BY <1>4 DEF TypeOK, finalizeExit
<1>5. ASSUME NEW d \in deposits, dropDeposit(d)  PROVE TypeOK'
  <2>1. d[2] \in Gateways /\ d[3] \in Tokens
    BY DEF TypeOK
  <2> QED  BY <1>5, <2>1 DEF TypeOK, dropDeposit
<1> QED  BY <1>1, <1>2, <1>3, <1>4, <1>5 DEF TransferStep

\* Every step keeps the variables in their types.
LEMMA TypeStep == TypeOK /\ [Next]_vars => TypeOK'
<1>1. TypeOK /\ UNCHANGED vars => TypeOK'
  BY DEF TypeOK, vars, l1Routes, l2Routes, tickets, transfers, history
<1> QED  BY <1>1, StepCases, RouteStepType, TransferStepType

\* Every variable of the two routers and of the transfers keeps its type.
THEOREM TypeCorrect == Spec => []TypeOK
BY InitType, TypeStep, PTL DEF Spec

-----------------------------------------------------------------------------
\* The ticket that carries the change sent last for a token, while it is in
\* flight, carries the L2 end of the route the L1 router has now; so does the
\* one for the default route.
TicketsCarryRoutes ==
  /\ \A m \in routeTickets : \A t \in DOMAIN m.gateway :
       m.id = lastSent[t] => m.gateway[t] = toL2Route(l1TokenToGateway_L1[t])
  /\ \A m \in defaultTickets :
       m.id = lastSent[Default] => m.gateway = toL2Route(defaultGateway_L1)

\* The inductive invariant of the routes.
RoutesInv == TypeOK /\ TicketsCarryRoutes /\ RoutersAgree

\* toL2Route leads to the other end of the same bridge.
LEMMA ToL2RouteAgrees == \A g \in Routes : SameRoute(g, toL2Route(g))
BY DEF SameRoute, toL2Route, Routes

\* Both routers start without routes and with the two ends of one default.
LEMMA InitRoutes == Init => RoutesInv
<1> SUFFICES ASSUME Init PROVE RoutesInv
  OBVIOUS
<1>1. TypeOK
  BY InitType
<1>2. TicketsCarryRoutes
  BY DEF Init, TicketsCarryRoutes
<1>3. RoutersAgree
  BY DEF Init, RoutersAgree, SameRoute
<1> QED  BY <1>1, <1>2, <1>3 DEF RoutesInv

\* A change of routes by a token or the owner: the tickets sent before it are
\* no longer the last ones for its tokens, and none of those has been redeemed
\* last.
LEMMA SetGatewaysRoutes ==
  ASSUME RoutesInv, NEW S \in SUBSET Tokens, NEW gateways \in [S -> Routes],
         _setGateways(gateways)
  PROVE  TicketsCarryRoutes' /\ RoutersAgree'
<1> USE DEF RoutesInv
<1>1. updates \in Nat /\ S = DOMAIN gateways /\ Default \notin S
  BY DEF TypeOK
<1>2. \A k \in Keys : /\ k \in S => lastSent'[k] = updates + 1
                      /\ k \notin S => lastSent'[k] = lastSent[k]
                      /\ lastApplied'[k] = lastApplied[k] /\ lastApplied[k] <= updates
  BY <1>1 DEF TypeOK, _setGateways
<1>3. \A t \in Tokens : l1TokenToGateway_L1'[t] = IF t \in S THEN gateways[t]
                                                             ELSE l1TokenToGateway_L1[t]
  BY <1>1 DEF _setGateways
<1>2a. \A t \in Tokens : lastSent'[t] = IF t \in S THEN updates + 1 ELSE lastSent[t]
  BY <1>1 DEF _setGateways, Keys
<1>4. ASSUME NEW m \in routeTickets', NEW t \in DOMAIN m.gateway, m.id = lastSent'[t]
      PROVE  m.gateway[t] = toL2Route(l1TokenToGateway_L1'[t])
  <2>1. CASE m \in routeTickets
    <3>1. t \in Tokens /\ m.id <= updates /\ m.id \in Nat /\ t \in Keys
      BY <1>1, <2>1 DEF TypeOK, Keys
    <3>2. t \in S => lastSent'[t] = updates + 1
      BY <1>2a, <3>1
    <3>3. t \notin S
      BY <1>1, <1>4, <3>1, <3>2
    <3>4. lastSent'[t] = lastSent[t] /\ l1TokenToGateway_L1'[t] = l1TokenToGateway_L1[t]
      BY <1>2a, <1>3, <3>1, <3>3
    <3>5. m.id = lastSent[t]
      BY <1>4, <3>4
    <3>6. m.gateway[t] = toL2Route(l1TokenToGateway_L1[t])
      BY <2>1, <3>5 DEF TicketsCarryRoutes
    <3> QED  BY <3>4, <3>6
  <2>2. CASE m \notin routeTickets
    <3>1. m = [id |-> updates + 1, gateway |-> [s \in DOMAIN gateways |-> toL2Route(gateways[s])]]
      BY <2>2 DEF _setGateways
    <3>2. t \in S /\ m.gateway[t] = toL2Route(gateways[t])
      BY <1>1, <3>1
    <3> QED  BY <1>3, <3>2
  <2> QED  BY <2>1, <2>2
<1>5. TicketsCarryRoutes'
  <2>1. \A m \in defaultTickets' :
          m.id = lastSent'[Default] => m.gateway = toL2Route(defaultGateway_L1')
    BY <1>1, <1>2 DEF TicketsCarryRoutes, _setGateways, Keys
  <2> QED  BY <1>4, <2>1 DEF TicketsCarryRoutes, toL2Route
<1>6. RoutersAgree'
  BY <1>1, <1>2, <1>3 DEF RoutersAgree, SameRoute, _setGateways, l2Routes, Keys, TypeOK
<1> QED  BY <1>5, <1>6

\* Every change, redemption or loss of routes keeps the invariant.
LEMMA RouteStepRoutes == RoutesInv /\ RouteStep => TicketsCarryRoutes' /\ RoutersAgree'
<1> SUFFICES ASSUME RoutesInv, RouteStep PROVE TicketsCarryRoutes' /\ RoutersAgree'
  OBVIOUS
<1> USE DEF RoutesInv
<1>1. ASSUME NEW t \in Tokens, NEW g \in Gateways, setGateway(t, g)
      PROVE  TicketsCarryRoutes' /\ RoutersAgree'
  BY <1>1, SetGatewayList, SetGatewaysRoutes
<1>2. ASSUME NEW sender \in Admins, NEW S \in SUBSET Tokens, NEW gateways \in [S -> Routes],
             setGateways(sender, gateways)
      PROVE  TicketsCarryRoutes' /\ RoutersAgree'
  BY <1>2, SetGatewayList, SetGatewaysRoutes
<1>3. ASSUME NEW sender \in Admins, NEW g \in Gateways \cup {ZERO}, setDefaultGateway(sender, g)
      PROVE  TicketsCarryRoutes' /\ RoutersAgree'
  <2>1. /\ updates \in Nat /\ lastSent'[Default] = updates + 1
        /\ \A t \in Tokens : lastSent'[t] = lastSent[t]
        /\ lastApplied'[Default] <= updates /\ lastApplied' = lastApplied
    BY <1>3 DEF TypeOK, setDefaultGateway, Keys
  <2>2. \A m \in defaultTickets : m.id <= updates /\ m.id \in Nat
    BY <2>1 DEF TypeOK
  <2>3. \A m \in routeTickets : DOMAIN m.gateway \subseteq Tokens
    BY DEF TypeOK
  <2>4. TicketsCarryRoutes'
    BY <1>3, <2>1, <2>2, <2>3 DEF TicketsCarryRoutes, setDefaultGateway, toL2Route
  <2>5. RoutersAgree'
    BY <1>3, <2>1 DEF RoutersAgree, SameRoute, setDefaultGateway, l2Routes, TypeOK, Keys
  <2> QED  BY <2>4, <2>5
<1>4. ASSUME NEW sender \in Admins, NEW newOwner \in Admins \cup {DISABLED},
             setOwner(sender, newOwner)
      PROVE  TicketsCarryRoutes' /\ RoutersAgree'
  BY <1>4 DEF setOwner, l2Routes, tickets, history, TicketsCarryRoutes, RoutersAgree, SameRoute,
              toL2Route
<1>5. ASSUME NEW m \in routeTickets, redeemRoutes(m)
      PROVE  TicketsCarryRoutes' /\ RoutersAgree'
  <2>1. TicketsCarryRoutes'
    BY <1>5 DEF redeemRoutes, l1Routes, TicketsCarryRoutes, toL2Route
  <2>2. ASSUME NEW t \in Tokens, lastApplied'[t] = lastSent'[t]
        PROVE  SameRoute(l1TokenToGateway_L1'[t], l1TokenToGateway_L2'[t])
    <3>1. CASE t \in DOMAIN m.gateway
      <4>1. lastApplied'[t] = m.id /\ l1TokenToGateway_L2'[t] = m.gateway[t]
        BY <1>5, <3>1 DEF redeemRoutes, Keys
      <4>2. m.gateway[t] = toL2Route(l1TokenToGateway_L1[t])
        BY <1>5, <2>2, <3>1, <4>1 DEF TicketsCarryRoutes, redeemRoutes
      <4>3. l1TokenToGateway_L1[t] \in Routes /\ l1TokenToGateway_L1' = l1TokenToGateway_L1
        BY <1>5 DEF TypeOK, redeemRoutes, l1Routes
      <4> QED  BY <4>1, <4>2, <4>3, ToL2RouteAgrees
    <3>2. CASE t \notin DOMAIN m.gateway
      BY <1>5, <2>2, <3>2 DEF redeemRoutes, Keys, RoutersAgree, l1Routes
    <3> QED  BY <3>1, <3>2
  <2>3. lastApplied'[Default] = lastSent'[Default]
          => SameRoute(defaultGateway_L1', defaultGateway_L2')
    <3>1. Default \notin DOMAIN m.gateway
      BY DEF TypeOK
    <3> QED  BY <1>5, <3>1 DEF redeemRoutes, Keys, RoutersAgree, l1Routes
  <2>4. RoutersAgree'
    BY <2>2, <2>3 DEF RoutersAgree, SameRoute
  <2> QED  BY <2>1, <2>4
<1>6. ASSUME NEW m \in defaultTickets, redeemDefault(m)
      PROVE  TicketsCarryRoutes' /\ RoutersAgree'
  <2>1. TicketsCarryRoutes'
    BY <1>6 DEF redeemDefault, l1Routes, TicketsCarryRoutes, toL2Route
  <2>2. /\ lastApplied'[Default] = m.id /\ \A t \in Tokens : lastApplied'[t] = lastApplied[t]
    BY <1>6 DEF redeemDefault, TypeOK, Keys
  <2>3. m.id = lastSent[Default] => SameRoute(defaultGateway_L1, m.gateway)
    BY ToL2RouteAgrees DEF TicketsCarryRoutes, TypeOK, Routes
  <2>4. RoutersAgree'
    BY <1>6, <2>2, <2>3 DEF RoutersAgree, SameRoute, redeemDefault, l1Routes
  <2> QED  BY <2>1, <2>4
<1>7. ASSUME dropTicket  PROVE TicketsCarryRoutes' /\ RoutersAgree'
  <2>1. routeTickets' \subseteq routeTickets /\ defaultTickets' \subseteq defaultTickets
    BY <1>7 DEF dropTicket
  <2> QED  BY <1>7, <2>1 DEF dropTicket, l1Routes, l2Routes, history, TicketsCarryRoutes,
                             RoutersAgree, SameRoute, toL2Route
<1> QED  BY <1>1, <1>2, <1>3, <1>4, <1>5, <1>6, <1>7 DEF RouteStep

\* Where the change sent last is also the one redeemed last, both routers give
\* a token the two ends of one bridge, whatever was redeemed before, lost or
\* overtaken.
THEOREM RoutersAgreeHolds == Spec => []RoutersAgree
<1>1. RoutesInv /\ [Next]_vars => RoutesInv'
  <2>1. CASE RoutesInv /\ RouteStep
    BY <2>1, RouteStepType, RouteStepRoutes DEF RoutesInv
  <2>2. CASE RoutesInv /\ (TransferStep \/ UNCHANGED vars)
    <3>1. UNCHANGED <<l1Routes, l2Routes, tickets, history>>
      BY <2>2, TransfersKeepRoutes DEF vars
    <3>2. TypeOK'
      BY <2>2, TransferStepType, TypeStep DEF RoutesInv
    <3> QED  BY <2>2, <3>1, <3>2 DEF RoutesInv, TicketsCarryRoutes, RoutersAgree, SameRoute,
                                     toL2Route, l1Routes, l2Routes, tickets, history
  <2> QED  BY <2>1, <2>2, StepCases
<1>2. RoutesInv => RoutersAgree
  BY DEF RoutesInv
<1> QED  BY <1>1, <1>2, InitRoutes, PTL DEF Spec

-----------------------------------------------------------------------------
\* The deposits in flight of token t by gateway g.
InFlight(D, g, t) == {d \in D : d[2] = g /\ d[3] = t}

\* The inductive invariant of the transfers.
TransfersInv == TypeOK /\ IsFiniteSet(deposits) /\ EachGatewayBacked

\* One more deposit in flight counts for its gateway and its token only.
LEMMA InFlightAdd ==
  ASSUME NEW D, IsFiniteSet(D), NEW x, x \notin D, NEW g, NEW t
  PROVE  /\ Cardinality(InFlight(D \cup {x}, g, t)) =
              Cardinality(InFlight(D, g, t)) + (IF x[2] = g /\ x[3] = t THEN 1 ELSE 0)
         /\ Cardinality(InFlight(D, g, t)) \in Nat
<1>1. IsFiniteSet(InFlight(D, g, t))
  BY FS_Subset DEF InFlight
<1>2. Cardinality(InFlight(D, g, t)) \in Nat
  BY <1>1, FS_CardinalityType
<1>3. CASE x[2] = g /\ x[3] = t
  <2>1. InFlight(D \cup {x}, g, t) = InFlight(D, g, t) \cup {x} /\ x \notin InFlight(D, g, t)
    BY <1>3 DEF InFlight
  <2>2. Cardinality(InFlight(D, g, t) \cup {x}) = Cardinality(InFlight(D, g, t)) + 1
    BY <1>1, <2>1, FS_AddElement
  <2> QED  BY <1>2, <1>3, <2>1, <2>2
<1>4. CASE ~ (x[2] = g /\ x[3] = t)
  <2>1. InFlight(D \cup {x}, g, t) = InFlight(D, g, t)
    BY <1>4 DEF InFlight
  <2> QED  BY <1>2, <1>4, <2>1
<1> QED  BY <1>3, <1>4

\* A finalized deposit no longer counts, for its gateway and its token only.
LEMMA InFlightRemove ==
  ASSUME NEW D, IsFiniteSet(D), NEW x \in D, NEW g, NEW t
  PROVE  /\ Cardinality(InFlight(D, g, t)) =
              Cardinality(InFlight(D \ {x}, g, t)) + (IF x[2] = g /\ x[3] = t THEN 1 ELSE 0)
         /\ Cardinality(InFlight(D \ {x}, g, t)) \in Nat
<1>1. IsFiniteSet(D \ {x}) /\ x \notin D \ {x} /\ D = (D \ {x}) \cup {x}
  BY FS_RemoveElement
<1>2. /\ Cardinality(InFlight((D \ {x}) \cup {x}, g, t)) =
           Cardinality(InFlight(D \ {x}, g, t)) + (IF x[2] = g /\ x[3] = t THEN 1 ELSE 0)
      /\ Cardinality(InFlight(D \ {x}, g, t)) \in Nat
  BY <1>1, InFlightAdd
<1> QED  BY <1>1, <1>2

\* The property in terms of InFlight.
LEMMA BackedByInFlight ==
  EachGatewayBacked <=>
    \A g \in Gateways, t \in Tokens :
      escrow[<<g, t>>] = minted[<<Counterpart[g], t>>] + exits[<<g, t>>]
                           + Cardinality(InFlight(deposits, g, t)) + surplus[<<g, t>>]
BY DEF EachGatewayBacked, InFlight

\* A deposit through the router is held by the gateway that sends it.
LEMMA DepositBacked ==
  ASSUME TransfersInv, NEW t \in Tokens, deposit(t)
  PROVE  EachGatewayBacked' /\ IsFiniteSet(deposits')
<1> DEFINE h == getGateway_L1(t)
           x == <<depositCount + 1, h, t>>
<1>1. h \in Gateways /\ deposits' = deposits \cup {x}
  BY GetGatewayType DEF deposit, TransfersInv
<1>2. x \notin deposits /\ x[2] = h /\ x[3] = t
  BY DEF TransfersInv, TypeOK
<1>3. IsFiniteSet(deposits')
  BY <1>1, FS_AddElement DEF TransfersInv
<1>4. ASSUME NEW g \in Gateways, NEW s \in Tokens
      PROVE  escrow'[<<g, s>>] = minted'[<<Counterpart[g], s>>] + exits'[<<g, s>>]
                                   + Cardinality(InFlight(deposits', g, s)) + surplus'[<<g, s>>]
  <2>1. escrow'[<<g, s>>] = escrow[<<g, s>>] + (IF h = g /\ t = s THEN 1 ELSE 0)
    BY <1>1 DEF deposit, TransfersInv, TypeOK
  <2>2. /\ Cardinality(InFlight(deposits', g, s)) =
             Cardinality(InFlight(deposits, g, s)) + (IF h = g /\ t = s THEN 1 ELSE 0)
        /\ Cardinality(InFlight(deposits, g, s)) \in Nat
    BY <1>1, <1>2, InFlightAdd DEF TransfersInv
  <2>3. minted' = minted /\ exits' = exits /\ surplus' = surplus
    BY DEF deposit
  <2>4. escrow[<<g, s>>] = minted[<<Counterpart[g], s>>] + exits[<<g, s>>]
                             + Cardinality(InFlight(deposits, g, s)) + surplus[<<g, s>>]
    BY BackedByInFlight DEF TransfersInv
  <2>5. /\ minted[<<Counterpart[g], s>>] \in Nat /\ exits[<<g, s>>] \in Nat
        /\ surplus[<<g, s>>] \in Nat
    BY DEF TransfersInv, TypeOK
  <2> QED  BY <2>1, <2>2, <2>3, <2>4, <2>5
<1>5. EachGatewayBacked'
  BY <1>4 DEF EachGatewayBacked, InFlight
<1> QED  BY <1>3, <1>5

\* A deposit is finalized by the counterpart of the gateway that holds it, which
\* issues the unit or sends it back.
LEMMA FinalizeDepositBacked ==
  ASSUME TransfersInv, NEW d \in deposits, finalizeDeposit(d)
  PROVE  EachGatewayBacked' /\ IsFiniteSet(deposits')
<1>1. d[2] \in Gateways /\ d[3] \in Tokens
  BY DEF TransfersInv, TypeOK
<1>2. IsFiniteSet(deposits') /\ deposits' = deposits \ {d}
  BY FS_RemoveElement DEF TransfersInv, finalizeDeposit
<1> DEFINE one(g, s) == IF d[2] = g /\ d[3] = s THEN 1 ELSE 0
<1>3. ASSUME NEW g \in Gateways, NEW s \in Tokens
      PROVE  minted'[<<Counterpart[g], s>>] + exits'[<<g, s>>] =
               minted[<<Counterpart[g], s>>] + exits[<<g, s>>] + one(g, s)
  <2> DEFINE p == <<Counterpart[d[2]], d[3]>>
  <2>1. p \in L2Gateways \X Tokens /\ <<Counterpart[g], s>> \in L2Gateways \X Tokens
    BY <1>1
  <2>2. p = <<Counterpart[g], s>> <=> d[2] = g /\ d[3] = s
    BY <1>1
  <2>3. /\ minted \in [L2Gateways \X Tokens -> Nat] /\ exits \in [Gateways \X Tokens -> Nat]
        /\ minted[<<Counterpart[g], s>>] \in Nat /\ exits[<<g, s>>] \in Nat
    BY <2>1 DEF TransfersInv, TypeOK
  <2>4. CASE credit(Counterpart[d[2]], d[3])
    <3>1. minted' = [minted EXCEPT ![p] = @ + 1] /\ exits' = exits
      BY <2>4 DEF credit
    <3> HIDE DEF p
    <3>2. minted'[<<Counterpart[g], s>>] = minted[<<Counterpart[g], s>>] + one(g, s)
      BY <2>1, <2>2, <2>3, <3>1
    <3> QED  BY <2>3, <3>1, <3>2
  <2>5. CASE triggerWithdrawal(Counterpart[d[2]], d[3])
    <3> DEFINE q == <<d[2], d[3]>>
    <3>1. minted' = minted /\ exits' = [exits EXCEPT ![q] = @ + 1]
      BY <1>1, <2>5 DEF triggerWithdrawal
    <3>2. q \in Gateways \X Tokens /\ (q = <<g, s>> <=> d[2] = g /\ d[3] = s)
      BY <1>1
    <3> HIDE DEF q
    <3> QED  BY <2>3, <3>1, <3>2
  <2> QED  BY <2>4, <2>5 DEF finalizeDeposit, depositTarget
<1>4. ASSUME NEW g \in Gateways, NEW s \in Tokens
      PROVE  escrow'[<<g, s>>] = minted'[<<Counterpart[g], s>>] + exits'[<<g, s>>]
                                   + Cardinality(InFlight(deposits', g, s)) + surplus'[<<g, s>>]
  <2>1. /\ Cardinality(InFlight(deposits, g, s)) = Cardinality(InFlight(deposits', g, s)) + one(g, s)
        /\ Cardinality(InFlight(deposits', g, s)) \in Nat
    BY <1>2, InFlightRemove DEF TransfersInv
  <2>2. escrow' = escrow /\ surplus' = surplus
    BY DEF finalizeDeposit
  <2>3. escrow[<<g, s>>] = minted[<<Counterpart[g], s>>] + exits[<<g, s>>]
                             + Cardinality(InFlight(deposits, g, s)) + surplus[<<g, s>>]
    BY BackedByInFlight DEF TransfersInv
  <2>4. /\ minted[<<Counterpart[g], s>>] \in Nat /\ exits[<<g, s>>] \in Nat
        /\ surplus[<<g, s>>] \in Nat /\ one(g, s) \in Nat
    BY DEF TransfersInv, TypeOK
  <2>5. minted'[<<Counterpart[g], s>>] + exits'[<<g, s>>] =
          minted[<<Counterpart[g], s>>] + exits[<<g, s>>] + one(g, s)
    BY <1>3
  <2> HIDE DEF one
  <2> QED  BY <2>1, <2>2, <2>3, <2>4, <2>5
<1>5. EachGatewayBacked'
  BY <1>4 DEF EachGatewayBacked, InFlight
<1> QED  BY <1>2, <1>5

\* A deposit that is never redeemed leaves its unit with the gateway that holds it.
LEMMA DropDepositBacked ==
  ASSUME TransfersInv, NEW d \in deposits, dropDeposit(d)
  PROVE  EachGatewayBacked' /\ IsFiniteSet(deposits')
<1>1. d[2] \in Gateways /\ d[3] \in Tokens
  BY DEF TransfersInv, TypeOK
<1>2. IsFiniteSet(deposits') /\ deposits' = deposits \ {d}
  BY FS_RemoveElement DEF TransfersInv, dropDeposit
<1>3. ASSUME NEW g \in Gateways, NEW s \in Tokens
      PROVE  escrow'[<<g, s>>] = minted'[<<Counterpart[g], s>>] + exits'[<<g, s>>]
                                   + Cardinality(InFlight(deposits', g, s)) + surplus'[<<g, s>>]
  <2>1. surplus'[<<g, s>>] = surplus[<<g, s>>] + (IF d[2] = g /\ d[3] = s THEN 1 ELSE 0)
    <3> DEFINE p == <<d[2], d[3]>>
    <3>1. surplus' = [surplus EXCEPT ![p] = @ + 1] /\ surplus \in [Gateways \X Tokens -> Nat]
      BY DEF dropDeposit, TransfersInv, TypeOK
    <3>2. p \in Gateways \X Tokens /\ (p = <<g, s>> <=> d[2] = g /\ d[3] = s)
      BY <1>1
    <3>3. surplus[<<g, s>>] \in Nat
      BY DEF TransfersInv, TypeOK
    <3> HIDE DEF p
    <3> QED  BY <3>1, <3>2, <3>3
  <2>2. /\ Cardinality(InFlight(deposits, g, s)) =
             Cardinality(InFlight(deposits', g, s)) + (IF d[2] = g /\ d[3] = s THEN 1 ELSE 0)
        /\ Cardinality(InFlight(deposits', g, s)) \in Nat
    BY <1>2, InFlightRemove DEF TransfersInv
  <2>3. escrow' = escrow /\ exits' = exits /\ minted' = minted
    BY DEF dropDeposit
  <2>4. escrow[<<g, s>>] = minted[<<Counterpart[g], s>>] + exits[<<g, s>>]
                             + Cardinality(InFlight(deposits, g, s)) + surplus[<<g, s>>]
    BY BackedByInFlight DEF TransfersInv
  <2>5. /\ minted[<<Counterpart[g], s>>] \in Nat /\ exits[<<g, s>>] \in Nat
        /\ surplus[<<g, s>>] \in Nat
    BY DEF TransfersInv, TypeOK
  <2> QED  BY <2>1, <2>2, <2>3, <2>4, <2>5
<1>4. EachGatewayBacked'
  BY <1>3 DEF EachGatewayBacked, InFlight
<1> QED  BY <1>2, <1>4

\* A withdrawal, through the router or not, turns a unit issued by a gateway
\* into an exit to the gateway that holds it.
LEMMA BurnBacked ==
  ASSUME TransfersInv, NEW g \in Gateways, NEW t \in Tokens, burn(g, t)
  PROVE  EachGatewayBacked' /\ IsFiniteSet(deposits')
<1>1. deposits' = deposits /\ escrow' = escrow /\ surplus' = surplus
  BY DEF burn
<1>2. ASSUME NEW h \in Gateways, NEW s \in Tokens
      PROVE  minted'[<<Counterpart[h], s>>] + exits'[<<h, s>>] =
               minted[<<Counterpart[h], s>>] + exits[<<h, s>>]
  <2>1. CASE h = g /\ s = t
    BY <2>1 DEF burn, TransfersInv, TypeOK
  <2>2. CASE ~ (h = g /\ s = t)
    BY <2>2 DEF burn, TransfersInv, TypeOK
  <2> QED  BY <2>1, <2>2
<1> QED  BY <1>1, <1>2 DEF TransfersInv, EachGatewayBacked

\* An executed exit is paid by the gateway it was sent to.
LEMMA FinalizeExitBacked ==
  ASSUME TransfersInv, NEW g \in Gateways, NEW t \in Tokens, finalizeExit(g, t)
  PROVE  EachGatewayBacked' /\ IsFiniteSet(deposits')
<1>1. deposits' = deposits /\ minted' = minted /\ surplus' = surplus
  BY DEF finalizeExit
<1>2. ASSUME NEW h \in Gateways, NEW s \in Tokens
      PROVE  escrow'[<<h, s>>] = minted'[<<Counterpart[h], s>>] + exits'[<<h, s>>]
                                   + Cardinality(InFlight(deposits', h, s)) + surplus'[<<h, s>>]
  <2>1. escrow[<<h, s>>] = minted[<<Counterpart[h], s>>] + exits[<<h, s>>]
                             + Cardinality(InFlight(deposits, h, s)) + surplus[<<h, s>>]
    BY BackedByInFlight DEF TransfersInv
  <2>2. /\ minted[<<Counterpart[h], s>>] \in Nat /\ exits[<<h, s>>] \in Nat
        /\ escrow[<<h, s>>] \in Nat /\ surplus[<<h, s>>] \in Nat
    BY DEF TransfersInv, TypeOK
  <2>3. Cardinality(InFlight(deposits, h, s)) \in Nat
    BY FS_Subset, FS_CardinalityType DEF TransfersInv, InFlight
  <2>4. CASE h = g /\ s = t
    BY <1>1, <2>1, <2>2, <2>3, <2>4 DEF finalizeExit, TransfersInv, TypeOK
  <2>5. CASE ~ (h = g /\ s = t)
    <3>1. escrow'[<<h, s>>] = escrow[<<h, s>>] /\ exits'[<<h, s>>] = exits[<<h, s>>]
      BY <2>5 DEF finalizeExit, TransfersInv, TypeOK
    <3> QED  BY <1>1, <2>1, <3>1
  <2> QED  BY <2>4, <2>5
<1> QED  BY <1>1, <1>2 DEF TransfersInv, EachGatewayBacked, InFlight

\* The invariant of the transfers holds in every reachable state.
LEMMA TransfersHold == Spec => []TransfersInv
<1>1. Init => TransfersInv
  <2>1. IsFiniteSet({}) /\ Cardinality({}) = 0
    BY FS_EmptySet
  <2>2. ASSUME Init  PROVE EachGatewayBacked
    <3>1. \A g, t : InFlight(deposits, g, t) = {}
      BY <2>2 DEF Init, InFlight
    <3>2. ASSUME NEW g \in Gateways, NEW t \in Tokens
          PROVE  escrow[<<g, t>>] = minted[<<Counterpart[g], t>>] + exits[<<g, t>>]
                                      + Cardinality(InFlight(deposits, g, t)) + surplus[<<g, t>>]
      <4>1. /\ escrow[<<g, t>>] = 0 /\ exits[<<g, t>>] = 0 /\ surplus[<<g, t>>] = 0
            /\ minted[<<Counterpart[g], t>>] = 0
        BY <2>2 DEF Init
      <4>2. Cardinality(InFlight(deposits, g, t)) = 0
        BY <2>1, <3>1
      <4> QED  BY <4>1, <4>2
    <3> QED  BY <3>2, BackedByInFlight
  <2> QED  BY <2>1, <2>2, InitType DEF TransfersInv, Init
<1>2. TransfersInv /\ [Next]_vars => TransfersInv'
  <2>1. CASE TransfersInv /\ TransferStep
    <3>1. EachGatewayBacked' /\ IsFiniteSet(deposits')
      BY <2>1, DepositBacked, FinalizeDepositBacked, DropDepositBacked, BurnBacked,
         FinalizeExitBacked
         DEF TransferStep
    <3> QED  BY <2>1, <3>1, TransferStepType DEF TransfersInv
  <2>2. CASE TransfersInv /\ (RouteStep \/ UNCHANGED vars)
    <3>1. UNCHANGED transfers
      BY <2>2, RoutesMoveNothing DEF vars
    <3>2. TypeOK'
      BY <2>2, RouteStepType, TypeStep DEF TransfersInv
    <3> QED  BY <2>2, <3>1, <3>2 DEF TransfersInv, EachGatewayBacked, transfers
  <2> QED  BY <2>1, <2>2, StepCases
<1> QED  BY <1>1, <1>2, PTL DEF Spec

\* Each L1 gateway holds exactly what its own counterpart has issued, what is on
\* its way there, what is on its way back and what lost deposits have left with
\* it, however the two routers change and disagree.
THEOREM EachGatewayBackedHolds == Spec => []EachGatewayBacked
<1>1. TransfersInv => EachGatewayBacked
  BY DEF TransfersInv
<1> QED  BY <1>1, TransfersHold, PTL

\* No exit lacks its unit in escrow: the condition of finalizeExit on what the L1
\* gateway holds never keeps an exit waiting.
RoutedExitsPayable ==
  \A g \in Gateways, t \in Tokens : exits[<<g, t>>] <= escrow[<<g, t>>]

\* A gateway that withdrawals reach without the routers can pay them all,
\* together.
THEOREM RoutedExitsPayableHolds == Spec => []RoutedExitsPayable
<1>1. ASSUME TransfersInv, NEW g \in Gateways, NEW t \in Tokens
      PROVE  exits[<<g, t>>] <= escrow[<<g, t>>]
  <2>1. Cardinality(InFlight(deposits, g, t)) \in Nat
    BY <1>1, FS_Subset, FS_CardinalityType DEF TransfersInv, InFlight
  <2>2. /\ minted[<<Counterpart[g], t>>] \in Nat /\ exits[<<g, t>>] \in Nat
        /\ surplus[<<g, t>>] \in Nat
    BY <1>1 DEF TransfersInv, TypeOK
  <2> QED  BY <1>1, <2>1, <2>2, BackedByInFlight DEF TransfersInv
<1>2. TransfersInv => RoutedExitsPayable
  BY <1>1 DEF RoutedExitsPayable
<1> QED  BY <1>2, TransfersHold, PTL

-----------------------------------------------------------------------------
\* By EachGatewayBacked, what a gateway owes of a token is what it holds of it less
\* what lost deposits have left there.
RoutedCovered ==
  /\ escrow \in [Gateways \X Tokens -> Nat]
  /\ surplus \in [Gateways \X Tokens -> Nat]
  /\ owed \in [Gateways \X Tokens -> Nat]
  /\ \A p \in Gateways \X Tokens : escrow[p] = owed[p] + surplus[p]

\* The invariant of the transfers says so.
LEMMA RoutedCovers == TransfersInv => RoutedCovered
<1> SUFFICES ASSUME TransfersInv  PROVE RoutedCovered
  OBVIOUS
<1>1. escrow \in [Gateways \X Tokens -> Nat] /\ surplus \in [Gateways \X Tokens -> Nat]
  BY DEF TransfersInv, TypeOK
<1>2. ASSUME NEW p \in Gateways \X Tokens
      PROVE  owed[p] \in Nat /\ escrow[p] = owed[p] + surplus[p]
  <2>1. PICK g \in Gateways, t \in Tokens : p = <<g, t>>
    OBVIOUS
  <2>2. owed[p] = minted[<<Counterpart[g], t>>] + exits[<<g, t>>]
                    + Cardinality(InFlight(deposits, g, t))
    BY <2>1 DEF owed, InFlight
  <2>3. Cardinality(InFlight(deposits, g, t)) \in Nat
    BY FS_Subset, FS_CardinalityType DEF TransfersInv, InFlight
  <2>4. minted[<<Counterpart[g], t>>] \in Nat /\ exits[<<g, t>>] \in Nat
    BY DEF TransfersInv, TypeOK
  <2> QED  BY <2>1, <2>2, <2>3, <2>4, BackedByInFlight DEF TransfersInv
<1>3. owed \in [Gateways \X Tokens -> Nat]
  BY <1>2 DEF owed
<1> QED  BY <1>1, <1>2, <1>3 DEF RoutedCovered

\* A deposit locks a unit for the gateway of the moment, an exit releases one, a lost
\* deposit abandons one, and every other step, those of the routers included, is
\* invisible.
LEMMA RoutedCanonicalStep ==
  ASSUME TransfersInv, RoutedCovered, RoutedCovered', [Next]_vars
  PROVE  [RoutedCanonical!Next]_(RoutedCanonical!vars)
<1>0. ASSUME NEW q \in Gateways \X Tokens
      PROVE  /\ escrow[q] = owed[q] + surplus[q] /\ owed[q] \in Nat /\ surplus[q] \in Nat
             /\ escrow'[q] = owed'[q] + surplus'[q] /\ owed'[q] \in Nat /\ surplus'[q] \in Nat
  BY DEF RoutedCovered
<1>1. ASSUME escrow' = escrow, surplus' = surplus
      PROVE  UNCHANGED RoutedCanonical!vars
  <2>1. ASSUME NEW p \in Gateways \X Tokens  PROVE owed'[p] = owed[p]
    BY <1>0, <1>1
  <2>2. owed' = owed
    BY <2>1 DEF RoutedCovered
  <2> QED  BY <1>1, <2>2 DEF RoutedCanonical!vars
<1>2. ASSUME NEW t \in Tokens, deposit(t)
      PROVE  RoutedCanonical!Next
  <2>1. PICK p \in Gateways \X Tokens : escrow' = [escrow EXCEPT ![p] = @ + 1]
    BY <1>2 DEF deposit
  <2>2. surplus' = surplus
    BY <1>2 DEF deposit
  <2>3. ASSUME NEW q \in Gateways \X Tokens
        PROVE  owed'[q] = IF q = p THEN owed[q] + 1 ELSE owed[q]
    <3>1. escrow \in [Gateways \X Tokens -> Nat] /\ surplus \in [Gateways \X Tokens -> Nat]
      BY DEF RoutedCovered
    <3>2. CASE q = p
      BY <1>0, <2>1, <2>2, <3>1, <3>2
    <3>3. CASE q # p
      <4>1. escrow'[q] = escrow[q] /\ surplus'[q] = surplus[q]
        BY <2>1, <2>2, <3>1, <3>3
      <4> QED  BY <1>0, <3>3, <4>1
    <3> QED  BY <3>2, <3>3
  <2>4. owed' = [owed EXCEPT ![p] = @ + 1]
    BY <2>3 DEF RoutedCovered
  <2> QED  BY <2>1, <2>2, <2>4 DEF RoutedCanonical!Next, RoutedCanonical!Lock
<1>3. ASSUME NEW g \in Gateways, NEW t \in Tokens, finalizeExit(g, t)
      PROVE  RoutedCanonical!Next
  <2> DEFINE p == <<g, t>>
  <2>1. /\ escrow' = [escrow EXCEPT ![p] = @ - 1] /\ exits[p] > 0
        /\ surplus' = surplus /\ p \in Gateways \X Tokens
    BY <1>3 DEF finalizeExit
  <2>2. owed[p] > 0
    <3>1. owed[p] = minted[<<Counterpart[g], t>>] + exits[p]
                      + Cardinality(InFlight(deposits, g, t))
      BY DEF owed, InFlight
    <3>2. Cardinality(InFlight(deposits, g, t)) \in Nat
      BY FS_Subset, FS_CardinalityType DEF TransfersInv, InFlight
    <3>3. minted[<<Counterpart[g], t>>] \in Nat /\ exits[p] \in Nat
      BY DEF TransfersInv, TypeOK
    <3> QED  BY <2>1, <3>1, <3>2, <3>3
  <2> HIDE DEF p
  <2>3. ASSUME NEW q \in Gateways \X Tokens
        PROVE  owed'[q] = IF q = p THEN owed[q] - 1 ELSE owed[q]
    <3>1. escrow \in [Gateways \X Tokens -> Nat] /\ surplus \in [Gateways \X Tokens -> Nat]
      BY DEF RoutedCovered
    <3>2. CASE q = p
      BY <1>0, <2>1, <3>1, <3>2
    <3>3. CASE q # p
      <4>1. escrow'[q] = escrow[q] /\ surplus'[q] = surplus[q]
        BY <2>1, <3>1, <3>3
      <4> QED  BY <1>0, <3>3, <4>1
    <3> QED  BY <3>2, <3>3
  <2>4. owed' = [owed EXCEPT ![p] = @ - 1]
    BY <2>3 DEF RoutedCovered
  <2>5. 1 \in 0 .. owed[p]
    BY <2>1, <2>2 DEF RoutedCovered
  <2> QED  BY <2>1, <2>4, <2>5 DEF RoutedCanonical!Next, RoutedCanonical!Release
<1>4. ASSUME NEW d \in deposits, dropDeposit(d)
      PROVE  RoutedCanonical!Next
  <2> DEFINE p == <<d[2], d[3]>>
  <2>1. d[2] \in Gateways /\ d[3] \in Tokens /\ p \in Gateways \X Tokens
    BY DEF TransfersInv, TypeOK
  <2>2. escrow' = escrow /\ surplus' = [surplus EXCEPT ![p] = @ + 1]
    BY <1>4 DEF dropDeposit
  <2> HIDE DEF p
  <2>3. ASSUME NEW q \in Gateways \X Tokens
        PROVE  owed'[q] = IF q = p THEN owed[q] - 1 ELSE owed[q]
    <3>1. escrow \in [Gateways \X Tokens -> Nat] /\ surplus \in [Gateways \X Tokens -> Nat]
      BY DEF RoutedCovered
    <3>2. CASE q = p
      BY <1>0, <2>1, <2>2, <3>1, <3>2
    <3>3. CASE q # p
      <4>1. escrow'[q] = escrow[q] /\ surplus'[q] = surplus[q]
        BY <2>1, <2>2, <3>1, <3>3
      <4> QED  BY <1>0, <3>3, <4>1
    <3> QED  BY <3>2, <3>3
  <2>4. owed' = [owed EXCEPT ![p] = @ - 1]
    BY <2>3 DEF RoutedCovered
  <2>5. 1 \in 0 .. owed[p]
    BY <2>1, <2>3 DEF RoutedCovered
  <2> QED  BY <2>1, <2>2, <2>4, <2>5 DEF RoutedCanonical!Next, RoutedCanonical!Abandon
<1>5. CASE RouteStep \/ UNCHANGED vars
  BY <1>1, <1>5, RoutesMoveNothing DEF vars, transfers
<1>6. CASE TransferStep
  BY <1>1, <1>2, <1>3, <1>4, <1>6 DEF TransferStep, finalizeDeposit, burn
<1> QED  BY <1>5, <1>6, StepCases

\* The transfers implement one canonical bridge per gateway and token, however the
\* routers change between the start and the end of a transfer.
THEOREM RoutedRefinement == Spec => RoutedImplementsBridge
<1>1. Init /\ RoutedCovered => RoutedCanonical!Init
  <2> SUFFICES ASSUME Init, RoutedCovered  PROVE RoutedCanonical!Init
    OBVIOUS
  <2>1. \A p \in Gateways \X Tokens : owed[p] = 0
    BY DEF Init, RoutedCovered
  <2>2. owed = [p \in Gateways \X Tokens |-> 0]
    BY <2>1 DEF RoutedCovered
  <2> QED  BY <2>2 DEF Init, RoutedCanonical!Init
<1>2. TransfersInv => RoutedCovered
  BY RoutedCovers
<1>3. TransfersInv /\ RoutedCovered /\ RoutedCovered' /\ [Next]_vars
        => [RoutedCanonical!Next]_(RoutedCanonical!vars)
  BY RoutedCanonicalStep
<1> QED  BY <1>1, <1>2, <1>3, TransfersHold, PTL
         DEF Spec, RoutedImplementsBridge, RoutedCanonical!Spec

-----------------------------------------------------------------------------
\* Once the owner has set itself to address(1), no call changes the gateway of
\* a token that has chosen one other than the default: only setGateway is left,
\* and it accepts only what the token has chosen already.
THEOREM OwnerlessRoutesStandHolds == Spec => OwnerlessRoutesStand
<1> DEFINE Stand == owner = DISABLED =>
             \A t \in Tokens : getGateway_L1(t) \notin {ZERO, defaultGateway_L1}
               => getGateway_L1(t)' = getGateway_L1(t)
<1>1. TypeOK /\ [Next]_vars => [Stand]_vars
  <2> SUFFICES ASSUME TypeOK, Next, owner = DISABLED, NEW t \in Tokens,
                      getGateway_L1(t) \notin {ZERO, defaultGateway_L1}
               PROVE  getGateway_L1(t)' = getGateway_L1(t)
    OBVIOUS
  <2>1. ASSUME UNCHANGED l1Routes  PROVE getGateway_L1(t)' = getGateway_L1(t)
    BY <2>1 DEF l1Routes, getGateway_L1, getGateway
  <2>2. \A sender \in Admins : sender # owner
    OBVIOUS
  <2>3. ASSUME NEW s \in Tokens, NEW g \in Gateways, setGateway(s, g)
        PROVE  getGateway_L1(t)' = getGateway_L1(t)
    <3>1. /\ l1TokenToGateway_L1'[t] = IF t = s THEN g ELSE l1TokenToGateway_L1[t]
          /\ defaultGateway_L1' = defaultGateway_L1
      BY <2>3 DEF setGateway, _setGateways
    <3>2. CASE t = s
      <4>1. getGateway_L1(t) = g
        BY <2>3, <3>2 DEF setGateway, maySetGateway
      <4>2. g # ZERO /\ g # DISABLED
        OBVIOUS
      <4> QED  BY <3>1, <3>2, <4>1, <4>2 DEF getGateway_L1, getGateway
    <3>3. CASE t # s
      BY <3>1, <3>3 DEF getGateway_L1, getGateway
    <3> QED  BY <3>2, <3>3
  <2>4. CASE RouteStep
    <3>1. ASSUME NEW m \in routeTickets, redeemRoutes(m)  PROVE UNCHANGED l1Routes
      BY <3>1 DEF redeemRoutes
    <3>2. ASSUME NEW m \in defaultTickets, redeemDefault(m)  PROVE UNCHANGED l1Routes
      BY <3>2 DEF redeemDefault
    <3>3. ASSUME dropTicket  PROVE UNCHANGED l1Routes
      BY <3>3 DEF dropTicket
    <3> QED  BY <2>1, <2>2, <2>3, <2>4, <3>1, <3>2, <3>3
             DEF RouteStep, setGateways, setDefaultGateway, setOwner
  <2>5. CASE TransferStep
    BY <2>1, <2>5, TransfersKeepRoutes
  <2> QED  BY <2>4, <2>5, StepCases
<1>2. Spec => [][Stand]_vars
  BY <1>1, TypeCorrect, PTL DEF Spec
<1> QED  BY <1>2 DEF OwnerlessRoutesStand
=============================================================================
