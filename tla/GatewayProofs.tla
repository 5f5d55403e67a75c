--------------------------- MODULE GatewayProofs ---------------------------
(***************************************************************************)
(* Theorems about four components that share no state: the WETH, standard  *)
(* and reverse custom gateways, and the fees of chains with an ERC20       *)
(* native token.  The variables of module Transfers are those of the       *)
(* component a theorem is about.                                           *)
(***************************************************************************)
EXTENDS WethBridge, StandardBridge, ReverseBridge, OrbitFees, TallyProofs, WellFoundedInduction

-----------------------------------------------------------------------------
(* The WETH gateways *)
USE WethAssumption, TransfersAssumption

\* Each message carries the ETH it promises.
WethValuesMatch == \A m \in deposits \cup exits : m.value = m.amount

\* The inductive invariant of the WETH gateways.
WethInv == WethTypeOK /\ WethValuesMatch /\ FullyCollateralized

\* Every step of the WETH gateways and of aeWETH keeps the invariant.
LEMMA WethStep ==
  ASSUME WethInv, WethNext
  PROVE  WethInv'
<1> USE DEF WethInv, WethValuesMatch, WethTypeOK, FullyCollateralized, l1Ether,
            l2Ether, messages, WethMessage
<1>1. ASSUME NEW a \in Amounts, depositWeth(a)  PROVE WethInv'
  BY <1>1 DEF depositWeth, l2CallValue
<1>2. ASSUME NEW a \in Amounts, withdrawWeth(a)  PROVE WethInv'
  BY <1>2 DEF withdrawWeth, mayBurnWeth, l1CallValue
<1>3. ASSUME NEW a \in Amounts, wrap(a)  PROVE WethInv'
  BY <1>3 DEF wrap
<1>4. ASSUME NEW a \in Amounts, unwrap(a)  PROVE WethInv'
  BY <1>4 DEF unwrap, mayBurnWeth, burnt
<1>5. ASSUME NEW a \in Amounts, giveToL1Gateway(a) \/ giveToL2Gateway(a)
      PROVE  WethInv'
  BY <1>5 DEF giveToL1Gateway, giveToL2Gateway
<1>6. ASSUME NEW m \in deposits, wrapDeposit(m)  PROVE WethInv'
  BY <1>6 DEF wrapDeposit
<1>7. ASSUME NEW m \in deposits, bounceWethDeposit(m)  PROVE WethInv'
  BY <1>7 DEF bounceWethDeposit, l1CallValue
<1>8. ASSUME NEW m \in deposits, dropWethDeposit(m)  PROVE WethInv'
  BY <1>8 DEF dropWethDeposit
<1>9. ASSUME NEW e \in exits, finalizeWethExit(e)  PROVE WethInv'
  BY <1>9 DEF finalizeWethExit
<1>10. ASSUME deployL2Weth  PROVE WethInv'
  BY <1>10 DEF deployL2Weth
<1> QED  BY <1>1, <1>2, <1>3, <1>4, <1>5, <1>6, <1>7, <1>8, <1>9, <1>10 DEF WethNext

\* The invariant holds in every reachable state of the WETH gateways.
THEOREM WethInvHolds == WethSpec => []WethInv
<1>1. WethInit => WethInv
  BY DEF WethInit, WethInv, WethValuesMatch, WethTypeOK, FullyCollateralized
<1>2. WethInv /\ [WethNext]_wethVars => WethInv'
  <2>1. CASE WethInv /\ WethNext
    BY <2>1, WethStep
  <2>2. CASE WethInv /\ UNCHANGED wethVars
    BY <2>2 DEF WethInv, WethValuesMatch, WethTypeOK, FullyCollateralized, wethVars,
                l1Ether, l2Ether, messages
  <2> QED  BY <2>1, <2>2
<1> QED  BY <1>1, <1>2, PTL DEF WethSpec

\* aeWETH holds one unit of ETH for each unit in circulation, and neither WETH
\* gateway keeps any of the ETH that passes through it.
THEOREM WethFullyCollateralized == WethSpec => []FullyCollateralized
<1>1. WethInv => FullyCollateralized
  BY DEF WethInv
<1> QED  BY <1>1, WethInvHolds, PTL

HIDE WethAssumption

-----------------------------------------------------------------------------
(* The standard gateways *)
USE StandardAssumption

\* Messages are finitely many and numbered in the order they were sent.
StandardNumbered ==
  /\ IsFiniteSet(deposits) /\ IsFiniteSet(exits)
  /\ \A m \in deposits \cup exits : m.id < sent

\* The inductive invariant of the standard gateways.
StandardInv == /\ TypeOK /\ StandardNumbered
               /\ AuthenticTokens /\ Backed

\* The standard gateways start with nothing.
LEMMA StandardStart == ASSUME Init PROVE StandardInv
<1>1. TypeOK
  BY DEF Init, TypeOK
<1>2. IsFiniteSet({}) /\ TotalAmount({}) = 0
  BY FS_EmptySet, TotalAmountEmpty
<1>3. StandardNumbered
  BY <1>2 DEF Init, StandardNumbered
<1>4. AuthenticTokens
  BY DEF Init, AuthenticTokens, Addresses
<1>5. Backed
  <2>1. \A t : About({}, t) = {}
    BY DEF About
  <2>2. \A t \in Tokens : escrow[t] = 0 /\ supply[t] = 0 /\ surplus[t] = 0
    BY DEF Init
  <2>3. deposits = {} /\ exits = {}
    BY DEF Init
  <2>4. \A t : TotalAmount(About(deposits, t)) = 0 /\ TotalAmount(About(exits, t)) = 0
    BY <1>2, <2>1, <2>3
  <2> QED  BY <2>2, <2>4 DEF Backed
<1> QED  BY <1>1, <1>3, <1>4, <1>5 DEF StandardInv

\* The types of what a message carries.
LEMMA StandardMessages ==
  ASSUME TypeOK
  PROVE  /\ \A m \in deposits \cup exits : m.id \in Nat /\ m.amount \in Nat /\ m.token \in Tokens
         /\ \A m \in deposits : m.deployData \in Answers
BY DEF TypeOK, Deposit, Exit

\* The fee leaves a natural number of units, and what a deposit is worth is what
\* arrived in escrow.
LEMMA StandardReceived ==
  ASSUME TypeOK, NEW t \in Tokens, NEW a \in Nat
  PROVE  arriving(t, a) \in Nat /\ amountReceived(t, a) = arriving(t, a)
<1>1. arriving(t, a) \in Nat
  BY TokenFeeAssumption DEF arriving
<1> QED  BY <1>1 DEF TypeOK, amountReceived

\* Every step of the standard gateways keeps the types and the numbering.
LEMMA StandardTypeStep ==
  ASSUME StandardInv, Next
  PROVE  TypeOK' /\ StandardNumbered'
<1> USE DEF StandardInv, StandardNumbered, TypeOK, Deposit, Exit
<1>1. ASSUME NEW t \in Tokens, NEW a \in Amounts, deposit(t, a)
      PROVE  TypeOK' /\ StandardNumbered'
  <2>1. IsFiniteSet(deposits')
    BY <1>1, FS_AddElement DEF deposit
  <2>r. arriving(t, a) \in Nat /\ amountReceived(t, a) \in Nat
    BY StandardReceived
  <2>2. wallet' \in [Tokens -> Nat] /\ escrow' \in [Tokens -> Nat]
    BY <1>1, <2>r DEF deposit
  <2>3. deposits' \subseteq Deposit /\ \A m \in deposits' \cup exits' : m.id < sent'
    BY <1>1, <2>r DEF deposit
  <2> QED  BY <1>1, <2>1, <2>2, <2>3 DEF deposit
<1>2. ASSUME NEW t \in Tokens, NEW a \in Amounts, withdraw(t, a)
      PROVE  TypeOK' /\ StandardNumbered'
  <2>1. /\ a \in Nat /\ a <= supply[t]
        /\ supply' = [supply EXCEPT ![t] = @ - a]
        /\ exits' = exits \cup {[id |-> sent, token |-> t, amount |-> a]}
        /\ sent' = sent + 1
        /\ UNCHANGED <<metadata, wallet, escrow, proxies, deposits, surplus>>
    BY <1>2 DEF withdraw, mayBurn
  <2>2. IsFiniteSet(exits')
    BY <2>1, FS_AddElement
  <2>3. supply' \in [Tokens -> Nat]
    BY <2>1
  <2>4. exits' \subseteq Exit /\ \A m \in deposits' \cup exits' : m.id < sent'
    BY <2>1
  <2> QED  BY <2>1, <2>2, <2>3, <2>4
<1>3. ASSUME NEW e \in exits, finalizeExit(e)
      PROVE  TypeOK' /\ StandardNumbered'
  <2>1. IsFiniteSet(exits')
    BY <1>3, FS_RemoveElement DEF finalizeExit
  <2>2. arriving(e.token, e.amount) \in Nat
    BY StandardReceived
  <2> QED  BY <1>3, <2>1, <2>2 DEF finalizeExit
<1>4. ASSUME NEW t \in Tokens, NEW d \in Answers, upgradeL1Token(t, d)
      PROVE  TypeOK' /\ StandardNumbered'
  BY <1>4 DEF upgradeL1Token
<1>5. ASSUME NEW user \in Outsiders, NEW t \in Tokens, NEW l1Address \in Tokens,
             createByOutsider(user, t, l1Address)
      PROVE  TypeOK' /\ StandardNumbered'
  BY <1>5 DEF createByOutsider, createToken, getSalt,
              Addresses, StandardArbERC20
<1>6. ASSUME NEW m \in deposits, createAndMint(m)
      PROVE  TypeOK' /\ StandardNumbered'
  <2>1. IsFiniteSet(deposits')
    BY <1>6, FS_RemoveElement DEF createAndMint
  <2>2. proxies' \in [Addresses -> StandardArbERC20 \cup {NoProxy}]
    BY <1>6 DEF createAndMint, createToken, getSalt,
                Addresses, StandardArbERC20
  <2> QED  BY <1>6, <2>1, <2>2 DEF createAndMint, mintedOnCreation
<1>7. ASSUME NEW m \in deposits, mint(m)
      PROVE  TypeOK' /\ StandardNumbered'
  <2>1. IsFiniteSet(deposits')
    BY <1>7, FS_RemoveElement DEF mint
  <2> QED  BY <1>7, <2>1 DEF mint
<1>8. ASSUME NEW m \in deposits, dropDeposit(m)
      PROVE  TypeOK' /\ StandardNumbered'
  <2>1. IsFiniteSet(deposits')
    BY <1>8, FS_RemoveElement DEF dropDeposit
  <2> QED  BY <1>8, <2>1 DEF dropDeposit
<1> QED  BY <1>1, <1>2, <1>3, <1>4, <1>5, <1>6, <1>7, <1>8 DEF Next

\* No step puts another contract at an address the gateway computes: an
\* outsider's salt is not the gateway's, and the gateway names the token.
LEMMA StandardAuthenticStep ==
  ASSUME StandardInv, Next
  PROVE  AuthenticTokens'
<1> USE DEF StandardInv,
        AuthenticTokens
<1>1. ASSUME UNCHANGED proxies  PROVE AuthenticTokens'
  BY <1>1
<1>2. ASSUME NEW user \in Outsiders, NEW t \in Tokens, NEW l1Address \in Tokens,
             createByOutsider(user, t, l1Address)
      PROVE  AuthenticTokens'
  <2>1. \A s \in Tokens : proxies'[<<Gateway, s>>] = proxies[<<Gateway, s>>]
    BY <1>2 DEF createByOutsider, createToken, getSalt,
                TypeOK, Addresses
  <2> QED  BY <2>1
<1>3. ASSUME NEW m \in deposits, createAndMint(m)
      PROVE  AuthenticTokens'
  <2>1. m.token \in Tokens
    BY StandardMessages
  <2>2. \A s \in Tokens : proxies'[<<Gateway, s>>] =
          IF s = m.token THEN [l2Gateway |-> Gateway, l1Address |-> s]
                         ELSE proxies[<<Gateway, s>>]
    BY <1>3, <2>1 DEF createAndMint, createToken, getSalt,
                      TypeOK, Addresses
  <2> QED  BY <2>2
<1> QED  BY <1>1, <1>2, <1>3
         DEF Next, deposit, withdraw, finalizeExit,
             upgradeL1Token, mint, dropDeposit

\* Every step moves units between the places that Backed adds up.
LEMMA StandardBackedStep ==
  ASSUME StandardInv, Next
  PROVE  Backed'
<1> DEFINE D(t) == TotalAmount(About(deposits, t))
           E(t) == TotalAmount(About(exits, t))
<1>m. /\ \A m \in deposits \cup exits : m.id \in Nat /\ m.amount \in Nat /\ m.token \in Tokens
      /\ \A m \in deposits \cup exits : m.id # sent
      /\ IsFiniteSet(deposits) /\ IsFiniteSet(exits) /\ sent \in Nat
  BY StandardMessages DEF StandardInv, StandardNumbered, TypeOK
<1>f. \A t : D(t) \in Nat /\ E(t) \in Nat
  BY <1>m, FS_Subset, TotalAmountType DEF About
<1>b. \A t \in Tokens : /\ escrow[t] = supply[t] + D(t) + E(t) + surplus[t]
                        /\ supply[t] \in Nat /\ surplus[t] \in Nat /\ escrow[t] \in Nat
  BY DEF StandardInv, TypeOK, Backed
<1> SUFFICES ASSUME NEW t \in Tokens
             PROVE  escrow'[t] = supply'[t] + D(t)' + E(t)' + surplus'[t]
  BY DEF Backed
<1>y. /\ wallet \in [Tokens -> Nat] /\ escrow \in [Tokens -> Nat] /\ supply \in [Tokens -> Nat]
      /\ surplus \in [Tokens -> Nat]
  BY DEF StandardInv, TypeOK
<1>1. ASSUME NEW s \in Tokens, NEW a \in Amounts, deposit(s, a)
      PROVE  escrow'[t] = supply'[t] + D(t)' + E(t)' + surplus'[t]
  <2> DEFINE r == arriving(s, a)
             x == [id |-> sent, token |-> s, amount |-> r, deployData |-> metadata[s]]
  <2>r. r \in Nat /\ amountReceived(s, a) = r
    BY StandardReceived DEF StandardInv
  <2> HIDE DEF r
  <2>1. x \notin deposits /\ x.amount = r /\ x.token = s /\ r \in Nat
    BY <1>m, <2>r
  <2>2. /\ deposits' = deposits \cup {x} /\ UNCHANGED <<supply, exits, surplus>>
        /\ escrow' = [escrow EXCEPT ![s] = @ + r]
    BY <1>1, <2>r DEF deposit, r
  <2>3. D(t)' = D(t) + (IF s = t THEN r ELSE 0)
    <3> HIDE DEF x
    <3> QED  BY <1>m, <2>1, <2>2, SendOneToken
  <2>4. escrow'[t] = escrow[t] + (IF s = t THEN r ELSE 0)
    BY <2>1, <2>2, <1>y
  <2> QED  BY <1>b, <1>f, <2>1, <2>2, <2>3, <2>4
<1>2. ASSUME NEW s \in Tokens, NEW a \in Amounts, withdraw(s, a)
      PROVE  escrow'[t] = supply'[t] + D(t)' + E(t)' + surplus'[t]
  <2> DEFINE x == [id |-> sent, token |-> s, amount |-> a]
  <2>1. x \notin exits /\ x.amount = a /\ x.token = s /\ a \in Nat
    <3>1. x.id = sent /\ x.amount = a /\ x.token = s /\ a \in Nat
      OBVIOUS
    <3> HIDE DEF x
    <3> QED  BY <1>m, <3>1
  <2>2. /\ exits' = exits \cup {x} /\ UNCHANGED <<escrow, deposits, surplus>>
        /\ supply' = [supply EXCEPT ![s] = @ - a] /\ a <= supply[s]
    BY <1>2 DEF withdraw, mayBurn
  <2>3. E(t)' = E(t) + (IF s = t THEN a ELSE 0)
    <3> HIDE DEF x
    <3> QED  BY <1>m, <2>1, <2>2, SendOneToken
  <2>4. supply'[t] = supply[t] - (IF s = t THEN a ELSE 0)
    BY <1>y, <2>1, <2>2
  <2> QED  BY <1>b, <1>f, <2>1, <2>2, <2>3, <2>4
<1>3. ASSUME NEW e \in exits, finalizeExit(e)
      PROVE  escrow'[t] = supply'[t] + D(t)' + E(t)' + surplus'[t]
  <2>1. e.token \in Tokens /\ e.amount \in Nat
    BY <1>m
  <2>2. /\ exits' = exits \ {e} /\ UNCHANGED <<supply, deposits, surplus>>
        /\ escrow' = [escrow EXCEPT ![e.token] = @ - e.amount]
    BY <1>3 DEF finalizeExit
  <2>3. E(t) = E(t)' + (IF e.token = t THEN e.amount ELSE 0) /\ E(t)' \in Nat
    BY <1>m, <2>2, ConsumeOneToken
  <2>4. escrow'[t] = escrow[t] - (IF e.token = t THEN e.amount ELSE 0)
    BY <1>y, <2>1, <2>2
  <2> QED  BY <1>b, <1>f, <2>1, <2>2, <2>3, <2>4
<1>4. ASSUME NEW m \in deposits, createAndMint(m) \/ mint(m)
      PROVE  escrow'[t] = supply'[t] + D(t)' + E(t)' + surplus'[t]
  <2>1. m.token \in Tokens /\ m.amount \in Nat
    BY <1>m
  <2>2. /\ deposits' = deposits \ {m} /\ UNCHANGED <<escrow, exits, surplus>>
        /\ supply' = [supply EXCEPT ![m.token] = @ + m.amount]
    BY <1>4 DEF createAndMint, mintedOnCreation, mint
  <2>3. D(t) = D(t)' + (IF m.token = t THEN m.amount ELSE 0) /\ D(t)' \in Nat
    BY <1>m, <2>2, ConsumeOneToken
  <2>4. supply'[t] = supply[t] + (IF m.token = t THEN m.amount ELSE 0)
    BY <1>y, <2>1, <2>2
  <2> QED  BY <1>b, <1>f, <2>1, <2>2, <2>3, <2>4
<1>5. ASSUME NEW m \in deposits, dropDeposit(m)
      PROVE  escrow'[t] = supply'[t] + D(t)' + E(t)' + surplus'[t]
  <2>1. m.token \in Tokens /\ m.amount \in Nat
    BY <1>m
  <2>2. /\ deposits' = deposits \ {m} /\ UNCHANGED <<escrow, exits, supply>>
        /\ surplus' = [surplus EXCEPT ![m.token] = @ + m.amount]
    BY <1>5 DEF dropDeposit
  <2>3. D(t) = D(t)' + (IF m.token = t THEN m.amount ELSE 0) /\ D(t)' \in Nat
    BY <1>m, <2>2, ConsumeOneToken
  <2>4. surplus'[t] = surplus[t] + (IF m.token = t THEN m.amount ELSE 0)
    BY <1>y, <2>1, <2>2
  <2> QED  BY <1>b, <1>f, <2>1, <2>2, <2>3, <2>4
<1>6. ASSUME UNCHANGED <<escrow, supply, deposits, exits, surplus>>
      PROVE  escrow'[t] = supply'[t] + D(t)' + E(t)' + surplus'[t]
  BY <1>b, <1>6
<1> QED  BY <1>1, <1>2, <1>3, <1>4, <1>5, <1>6
         DEF Next, upgradeL1Token, createByOutsider

\* The invariant holds in every reachable state of the standard gateways.
THEOREM StandardInvHolds == Spec => []StandardInv
<1>1. Init => StandardInv
  BY StandardStart
<1>2. StandardInv /\ [Next]_vars => StandardInv'
  <2>1. CASE StandardInv /\ Next
    BY <2>1, StandardTypeStep, StandardAuthenticStep, StandardBackedStep DEF StandardInv
  <2>2. CASE StandardInv /\ UNCHANGED vars
    BY <2>2 DEF StandardInv, StandardNumbered, TypeOK, AuthenticTokens, Backed, vars, messages
  <2> QED  BY <2>1, <2>2
<1> QED  BY <1>1, <1>2, PTL DEF Spec

\* What stands at the address calculateL2TokenAddress gives for an L1 token is
\* nothing or that token's StandardArbERC20 under the gateway's control,
\* whatever outsiders had BeaconProxyFactory create.
THEOREM StandardAuthenticTokens == Spec => []AuthenticTokens
<1>1. StandardInv => AuthenticTokens
  BY DEF StandardInv
<1> QED  BY <1>1, StandardInvHolds, PTL

\* Every unit the L1 gateway holds of a token is in circulation on L2, on its
\* way in either direction, or left by a dropped ticket, also when several
\* deposits race to create the L2 token.
THEOREM StandardBacked == Spec => []Backed
<1>1. StandardInv => Backed
  BY DEF StandardInv
<1> QED  BY <1>1, StandardInvHolds, PTL

\* The condition of finalizeExit on escrow holds for every exit there is.
StandardExitsPayable == \A e \in exits : e.amount <= escrow[e.token]

\* No withdrawal through the standard gateways ever lacks the units the L1
\* gateway has to pay it with, in whatever order exits are executed.
THEOREM StandardExitsCanBePaid == Spec => []StandardExitsPayable
<1>1. ASSUME StandardInv, NEW e \in exits
      PROVE  e.amount <= escrow[e.token]
  <2> DEFINE t == e.token
  <2>1. /\ t \in Tokens /\ e.amount \in Nat
        /\ IsFiniteSet(deposits) /\ IsFiniteSet(exits)
        /\ \A m \in deposits \cup exits : m.amount \in Nat
    BY <1>1, StandardMessages DEF StandardInv, StandardNumbered
  <2>2. /\ TotalAmount(About(exits, t)) = TotalAmount(About(exits \ {e}, t)) + e.amount
        /\ TotalAmount(About(exits \ {e}, t)) \in Nat
    BY <2>1, ConsumeOneToken
  <2>3. TotalAmount(About(deposits, t)) \in Nat
    BY <2>1, FS_Subset, TotalAmountType DEF About
  <2>4. escrow[t] = supply[t] + TotalAmount(About(deposits, t))
                      + TotalAmount(About(exits, t)) + surplus[t]
    BY <1>1, <2>1 DEF StandardInv, Backed
  <2>5. supply[t] \in Nat /\ surplus[t] \in Nat
    BY <1>1, <2>1 DEF StandardInv, TypeOK
  <2> HIDE DEF t
  <2>6. e.amount <= escrow[t]
    BY <2>1, <2>2, <2>3, <2>4, <2>5
  <2> QED  BY <2>6 DEF t
<1>2. StandardInv => StandardExitsPayable
  BY <1>1 DEF StandardExitsPayable
<1> QED  BY <1>2, StandardInvHolds, PTL

\* By Backed, what the standard gateways owe for a token is what they hold of it
\* but for the surplus.
StandardCovered ==
  /\ escrow \in [Tokens -> Nat] /\ owed \in [Tokens -> Nat] /\ surplus \in [Tokens -> Nat]
  /\ \A t \in Tokens : escrow[t] = owed[t] + surplus[t]

LEMMA StandardCovers == ASSUME StandardInv PROVE StandardCovered
<1>1. \A t : TotalAmount(About(deposits, t)) \in Nat /\ TotalAmount(About(exits, t)) \in Nat
  BY StandardMessages, FS_Subset, TotalAmountType DEF StandardInv, StandardNumbered, About
<1> QED  BY <1>1 DEF StandardInv, TypeOK, Backed, StandardCovered, owed

\* Every step of the standard gateways locks, releases or abandons units, or
\* only changes the form of a claim.
LEMMA StandardCanonicalStep ==
  ASSUME StandardInv, StandardCovered, StandardCovered', [Next]_vars
  PROVE  [StandardCanonical!Next]_(StandardCanonical!vars)
<1>1. ASSUME NEW t \in Tokens, NEW a \in Amounts, deposit(t, a)
      PROVE  StandardCanonical!Next
  <2> DEFINE r == arriving(t, a)
  <2>1. r \in Nat
    BY StandardReceived DEF StandardInv
  <2>2. r \in lockable
    BY DEF lockable
  <2>3. escrow' = [escrow EXCEPT ![t] = @ + r] /\ surplus' = surplus
    BY <1>1 DEF deposit
  <2> HIDE DEF r
  <2>4. owed' = [owed EXCEPT ![t] = @ + r]
    BY <2>1, <2>3 DEF StandardCovered
  <2> QED  BY <2>2, <2>3, <2>4 DEF StandardCanonical!Next, StandardCanonical!Lock
<1>2. ASSUME NEW t \in Tokens, NEW a \in Nat, a <= escrow[t],
             escrow' = [escrow EXCEPT ![t] = @ - a], surplus' = surplus
      PROVE  StandardCanonical!Next
  <2>1. owed' = [owed EXCEPT ![t] = @ - a] /\ a \in 0 .. owed[t]
    BY <1>2 DEF StandardCovered
  <2> QED  BY <1>2, <2>1 DEF StandardCanonical!Next, StandardCanonical!Release
<1>3. ASSUME NEW t \in Tokens, NEW a \in Nat,
             surplus' = [surplus EXCEPT ![t] = @ + a], escrow' = escrow
      PROVE  StandardCanonical!Next
  <2>1. owed' = [owed EXCEPT ![t] = @ - a] /\ a \in 0 .. owed[t]
    BY <1>3 DEF StandardCovered
  <2> QED  BY <1>3, <2>1 DEF StandardCanonical!Next, StandardCanonical!Abandon
<1>4. ASSUME escrow' = escrow, surplus' = surplus
      PROVE  UNCHANGED StandardCanonical!vars
  <2>1. owed' = owed
    BY <1>4 DEF StandardCovered
  <2> QED  BY <1>4, <2>1 DEF StandardCanonical!vars
<1>5. ASSUME NEW e \in exits, finalizeExit(e)
      PROVE  StandardCanonical!Next
  <2>1. e.token \in Tokens /\ e.amount \in Nat
    BY StandardMessages DEF StandardInv
  <2> QED  BY <1>2, <1>5, <2>1 DEF finalizeExit
<1>6. ASSUME NEW m \in deposits, dropDeposit(m)
      PROVE  StandardCanonical!Next
  <2>1. m.token \in Tokens /\ m.amount \in Nat
    BY StandardMessages DEF StandardInv
  <2> QED  BY <1>3, <1>6, <2>1 DEF dropDeposit
<1> QED  BY <1>1, <1>4, <1>5, <1>6
         DEF Next, vars, withdraw, upgradeL1Token, createByOutsider, createAndMint, mint

\* The standard gateways implement the canonical bridge, token by token.
THEOREM StandardRefinement == Spec => StandardImplementsBridge
<1>1. Init => StandardCanonical!Init
  <2> SUFFICES ASSUME Init  PROVE StandardCanonical!Init
    OBVIOUS
  <2>1. TotalAmount({}) = 0 /\ \A t : About({}, t) = {}
    BY TotalAmountEmpty DEF About
  <2>2. owed = [t \in Tokens |-> 0]
    <3>1. \A t : TotalAmount(About(deposits, t)) = 0 /\ TotalAmount(About(exits, t)) = 0
      BY <2>1 DEF Init
    <3>2. \A t \in Tokens : supply[t] = 0
      BY DEF Init
    <3> QED  BY <3>1, <3>2 DEF owed
  <2> QED  BY <2>2 DEF Init, StandardCanonical!Init
<1>2. StandardInv => StandardCovered
  BY StandardCovers
<1>3. StandardInv /\ StandardCovered /\ StandardCovered' /\ [Next]_vars
        => [StandardCanonical!Next]_(StandardCanonical!vars)
  BY StandardCanonicalStep
<1> QED  BY <1>1, <1>2, <1>3, StandardInvHolds, PTL
         DEF Spec, StandardImplementsBridge, StandardCanonical!Spec

HIDE StandardAssumption

-----------------------------------------------------------------------------
(* The reverse custom gateways *)
USE ReverseAssumption

\* Messages are finitely many, numbered in the order they were sent, and none
\* is a deposit and an exit at once.
ReverseMessagesApart ==
  /\ IsFiniteSet(deposits) /\ IsFiniteSet(exits)
  /\ \A m \in deposits \cup exits : m.id < sent
  /\ deposits \cap exits = {}

\* The inductive invariant of the reverse gateways.
ReverseInv == ReverseTypeOK /\ ReverseMessagesApart /\ BackedOnL2

\* The fee leaves a natural number of units, and what a withdrawal is worth is
\* what arrived in escrow.
LEMMA ReverseReceived ==
  ASSUME ReverseTypeOK, NEW a \in Nat
  PROVE  /\ received(a) \in Nat
         /\ \A x \in L2Tokens : amountEscrowed(x, a) = received(a)
<1>1. received(a) \in Nat
  BY DEF received
<1> QED  BY <1>1 DEF ReverseTypeOK, amountEscrowed

\* The reverse gateways start with nothing.
LEMMA ReverseStart == ASSUME ReverseInit PROVE ReverseInv
<1>1. ReverseTypeOK
  BY DEF ReverseInit, ReverseTypeOK, L2Addresses
<1>2. IsFiniteSet({}) /\ TotalAmount({}) = 0 /\ Tally(l2Escrow, {}) = 0
  BY FS_EmptySet DEF TotalAmount, Tally, Units
<1>3. ReverseMessagesApart
  BY <1>2 DEF ReverseInit, ReverseMessagesApart
<1>4. BackedOnL2
  <2>1. Tally(l2Escrow, L2Tokens) = Tally(l2Escrow, {})
    BY TallyZeros DEF ReverseInit
  <2> QED  BY <1>2, <2>1 DEF ReverseInit, BackedOnL2
<1> QED  BY <1>1, <1>3, <1>4 DEF ReverseInv

\* Every step of the reverse gateways keeps the types and the messages apart.
LEMMA ReverseTypeStep ==
  ASSUME ReverseInv, ReverseNext
  PROVE  ReverseTypeOK' /\ ReverseMessagesApart'
<1> USE DEF ReverseInv, ReverseMessagesApart, ReverseTypeOK, ReverseMessage, l1Vars,
            l2Vars, messages
<1>0. Amounts \subseteq Nat
  OBVIOUS
<1>1. ASSUME NEW a \in Amounts, depositReverse(a)
      PROVE  ReverseTypeOK' /\ ReverseMessagesApart'
  <2>1. IsFiniteSet(deposits')
    BY <1>1, FS_AddElement DEF depositReverse
  <2> QED  BY <1>0, <1>1, <2>1 DEF depositReverse, mayBurnOnL1
<1>2. ASSUME NEW a \in Amounts, withdrawReverse(a)
      PROVE  ReverseTypeOK' /\ ReverseMessagesApart'
  <2> DEFINE x == l1ToL2Token_L2
             m == [id |-> sent, amount |-> amountEscrowed(x, a)]
  <2>1. /\ x \in L2Tokens /\ a \in Nat /\ a <= l2Balance[x]
        /\ received(a) \in Nat /\ amountEscrowed(x, a) \in Nat
    BY <1>0, <1>2, ReverseReceived DEF withdrawReverse
  <2>2. l2Balance' \in [L2Tokens -> Nat] /\ l2Escrow' \in [L2Tokens -> Nat]
    BY <1>2, <2>1 DEF withdrawReverse
  <2>3. exits' = exits \cup {m} /\ m.id = sent /\ m \in ReverseMessage
    BY <1>2, <2>1 DEF withdrawReverse
  <2>4. IsFiniteSet(exits')
    BY <2>3, FS_AddElement
  <2>5. exits' \subseteq ReverseMessage /\ deposits' \cap exits' = {}
    BY <1>2, <2>3 DEF withdrawReverse
  <2>6. \A n \in deposits' \cup exits' : n.id < sent'
    BY <1>2, <2>3 DEF withdrawReverse
  <2> QED  BY <1>2, <2>2, <2>4, <2>5, <2>6 DEF withdrawReverse
<1>3. ASSUME NEW e \in exits, finalizeReverseExit(e)
      PROVE  ReverseTypeOK' /\ ReverseMessagesApart'
  <2>1. IsFiniteSet(exits')
    BY <1>3, FS_RemoveElement DEF finalizeReverseExit
  <2> QED  BY <1>3, <2>1 DEF finalizeReverseExit
<1>4. ASSUME NEW x \in L2Addresses, register(x)
      PROVE  ReverseTypeOK' /\ ReverseMessagesApart'
  <2>1. moved' \in BOOLEAN
    BY <1>4, Zenon DEF register
  <2>2. /\ registrations' \subseteq [id : Nat, l2Address : L2Addresses]
        /\ registered' \in Nat
    BY <1>4 DEF register
  <2> QED  BY <1>4, <2>1, <2>2 DEF register
<1>5. ASSUME NEW m \in registrations, registerTokenFromL1(m)
      PROVE  ReverseTypeOK' /\ ReverseMessagesApart'
  BY <1>5 DEF registerTokenFromL1
<1>6. ASSUME NEW m \in deposits, release(m)
      PROVE  ReverseTypeOK' /\ ReverseMessagesApart'
  <2> DEFINE x == l1ToL2Token_L2
  <2>1. IsFiniteSet(deposits')
    BY <1>6, FS_RemoveElement DEF release
  <2>2. /\ x \in L2Tokens /\ m.amount \in Nat /\ m.amount <= l2Escrow[x]
        /\ received(m.amount) \in Nat
    BY <1>6, ReverseReceived DEF release
  <2>3. l2Balance' \in [L2Tokens -> Nat] /\ l2Escrow' \in [L2Tokens -> Nat]
    BY <1>6, <2>2 DEF release
  <2> QED  BY <1>6, <2>1, <2>3 DEF release
<1>7. ASSUME NEW m \in deposits, bounceReverseDeposit(m) \/ dropReverseDeposit(m)
      PROVE  ReverseTypeOK' /\ ReverseMessagesApart'
  <2>1. IsFiniteSet(deposits \ {m}) /\ IsFiniteSet(exits \cup {m})
    BY FS_RemoveElement, FS_AddElement
  <2>2. CASE bounceReverseDeposit(m)
    BY <2>1, <2>2 DEF bounceReverseDeposit
  <2>3. CASE dropReverseDeposit(m)
    BY <2>1, <2>3 DEF dropReverseDeposit
  <2> QED  BY <1>7, <2>2, <2>3
<1>8. ASSUME NEW x \in L2Tokens, deployL2Token(x)
      PROVE  ReverseTypeOK' /\ ReverseMessagesApart'
  BY <1>8 DEF deployL2Token
<1>9. ASSUME NEW x \in L2Tokens, NEW a \in Amounts, mintOnL2(x, a)
      PROVE  ReverseTypeOK' /\ ReverseMessagesApart'
  BY <1>0, <1>9 DEF mintOnL2
<1> QED  BY <1>1, <1>2, <1>3, <1>4, <1>5, <1>6, <1>7, <1>8, <1>9 DEF ReverseNext

\* Every step moves units between the places that BackedOnL2 adds up.
LEMMA ReverseBackedStep ==
  ASSUME ReverseInv, ReverseNext
  PROVE  BackedOnL2'
<1> DEFINE D == TotalAmount(deposits)
           E == TotalAmount(exits)
           L == Tally(l2Escrow, L2Tokens)
<1>0. Amounts \subseteq Nat /\ IsFiniteSet(L2Tokens)
  OBVIOUS
<1>1. /\ \A m \in deposits \cup exits : m.amount \in Nat /\ m.id \in Nat /\ m.id # sent
      /\ IsFiniteSet(deposits) /\ IsFiniteSet(exits) /\ deposits \cap exits = {} /\ sent \in Nat
  BY DEF ReverseInv, ReverseMessagesApart, ReverseTypeOK, ReverseMessage
<1>2. l2Escrow \in [L2Tokens -> Nat] /\ l1Supply \in Nat /\ l2Surplus \in Nat /\ deployed \subseteq L2Tokens
  BY DEF ReverseInv, ReverseTypeOK
<1>3. L \in Nat /\ D \in Nat /\ E \in Nat
  BY <1>0, <1>1, <1>2, TallyType, TotalAmountType
<1>4. L = l1Supply + D + E + l2Surplus
  BY DEF ReverseInv, BackedOnL2
<1> SUFFICES L' = l1Supply' + D' + E' + l2Surplus'
  BY DEF BackedOnL2
<1> USE DEF l1Vars, l2Vars, messages
<1>5. ASSUME NEW a \in Amounts, depositReverse(a)
      PROVE  L' = l1Supply' + D' + E' + l2Surplus'
  <2> DEFINE x == [id |-> sent, amount |-> a]
  <2>1. x \notin deposits /\ x.amount = a /\ a \in Nat
    BY <1>0, <1>1
  <2>2. /\ deposits' = deposits \cup {x} /\ UNCHANGED <<l2Escrow, exits, l2Surplus>>
        /\ l1Supply' = l1Supply - a
    BY <1>5 DEF depositReverse
  <2>3. D' = D + a
    <3> HIDE DEF x
    <3> QED  BY <1>1, <2>1, <2>2, TotalAmountAdd
  <2> HIDE DEF D, E, L
  <2>4. L' = L /\ E' = E
    BY <2>2 DEF L, E
  <2> QED  BY <1>2, <1>3, <1>4, <2>1, <2>2, <2>3, <2>4
<1>6. ASSUME NEW a \in Amounts, withdrawReverse(a)
      PROVE  L' = l1Supply' + D' + E' + l2Surplus'
  <2> DEFINE x == l1ToL2Token_L2
             r == received(a)
             m == [id |-> sent, amount |-> r]
  <2>1. x \in L2Tokens /\ a \in Nat /\ r \in Nat /\ amountEscrowed(x, a) = r
    BY <1>0, <1>2, <1>6, ReverseReceived DEF ReverseInv, withdrawReverse
  <2>2. /\ exits' = exits \cup {m} /\ UNCHANGED <<l1Supply, deposits, l2Surplus>>
        /\ l2Escrow' = [l2Escrow EXCEPT ![x] = @ + r]
    BY <1>6, <2>1 DEF withdrawReverse
  <2> HIDE DEF r, x
  <2>3. m \notin exits /\ m.amount = r
    BY <1>1
  <2>4. E' = E + r
    <3> HIDE DEF m
    <3> QED  BY <1>1, <2>1, <2>2, <2>3, TotalAmountAdd
  <2>5. /\ \A s \in L2Tokens : l2Escrow[s] \in Nat /\ l2Escrow'[s] \in Nat
        /\ \A s \in L2Tokens \ {x} : l2Escrow'[s] = l2Escrow[s]
        /\ l2Escrow'[x] = l2Escrow[x] + r
    BY <1>2, <2>1, <2>2
  <2>6. L' + l2Escrow[x] = L + l2Escrow'[x] /\ L' \in Nat
    BY <1>0, <2>1, <2>5, TallyUpdate, TallyType
  <2> HIDE DEF D, E, L
  <2>7. D' = D
    BY <2>2 DEF D
  <2> QED  BY <1>2, <1>3, <1>4, <2>1, <2>2, <2>4, <2>5, <2>6, <2>7
<1>7. ASSUME NEW e \in exits, finalizeReverseExit(e)
      PROVE  L' = l1Supply' + D' + E' + l2Surplus'
  <2>1. E = TotalAmount(exits \ {e}) + e.amount /\ TotalAmount(exits \ {e}) \in Nat
    BY <1>1, TotalAmountRemove
  <2>2. /\ exits' = exits \ {e} /\ UNCHANGED <<l2Escrow, deposits, l2Surplus>>
        /\ l1Supply' = l1Supply + e.amount /\ e.amount \in Nat
    BY <1>1, <1>7 DEF finalizeReverseExit
  <2> QED  BY <1>2, <1>3, <1>4, <2>1, <2>2
<1>8. ASSUME NEW m \in deposits, release(m)
      PROVE  L' = l1Supply' + D' + E' + l2Surplus'
  <2> DEFINE x == l1ToL2Token_L2
  <2>1. D = TotalAmount(deposits \ {m}) + m.amount /\ TotalAmount(deposits \ {m}) \in Nat
    BY <1>1, TotalAmountRemove
  <2>2. /\ deposits' = deposits \ {m} /\ UNCHANGED <<l1Supply, exits, l2Surplus>>
        /\ l2Escrow' = [l2Escrow EXCEPT ![x] = @ - m.amount]
        /\ x \in L2Tokens /\ m.amount \in Nat /\ m.amount <= l2Escrow[x]
    BY <1>1, <1>2, <1>8 DEF release
  <2> HIDE DEF x
  <2>3. /\ \A s \in L2Tokens : l2Escrow[s] \in Nat /\ l2Escrow'[s] \in Nat
        /\ \A s \in L2Tokens \ {x} : l2Escrow'[s] = l2Escrow[s]
        /\ l2Escrow'[x] = l2Escrow[x] - m.amount
    BY <1>2, <2>2
  <2>4. L' + l2Escrow[x] = L + l2Escrow'[x] /\ L' \in Nat
    <3>1. x \in L2Tokens
      BY <2>2
    <3>2. L' + l2Escrow[x] = L + l2Escrow'[x]
      BY <1>0, <2>3, <3>1, TallyUpdate
    <3> QED  BY <1>0, <2>3, <3>2, TallyType
  <2>5. D' = TotalAmount(deposits \ {m}) /\ E' = E
    BY <2>2
  <2> HIDE DEF D, E, L
  <2> QED  BY <1>2, <1>3, <1>4, <2>1, <2>2, <2>3, <2>4, <2>5
<1>9. ASSUME NEW m \in deposits, bounceReverseDeposit(m) \/ dropReverseDeposit(m)
      PROVE  L' = l1Supply' + D' + E' + l2Surplus'
  <2>1. D = TotalAmount(deposits \ {m}) + m.amount /\ TotalAmount(deposits \ {m}) \in Nat
    BY <1>1, TotalAmountRemove
  <2>2. TotalAmount(exits \cup {m}) = E + m.amount /\ m.amount \in Nat
    BY <1>1, TotalAmountAdd
  <2>3. CASE bounceReverseDeposit(m)
    BY <1>2, <1>3, <1>4, <2>1, <2>2, <2>3 DEF bounceReverseDeposit
  <2>4. CASE dropReverseDeposit(m)
    BY <1>2, <1>3, <1>4, <2>1, <2>2, <2>4 DEF dropReverseDeposit
  <2> QED  BY <1>9, <2>3, <2>4
<1>10. ASSUME UNCHANGED <<l2Escrow, l1Supply, deposits, exits, l2Surplus>>
       PROVE  L' = l1Supply' + D' + E' + l2Surplus'
  BY <1>4, <1>10
<1> QED  BY <1>5, <1>6, <1>7, <1>8, <1>9, <1>10
         DEF ReverseNext, register, registerTokenFromL1, deployL2Token,
             mintOnL2

\* The invariant holds in every reachable state of the reverse gateways.
THEOREM ReverseInvHolds == ReverseSpec => []ReverseInv
<1>1. ReverseInit => ReverseInv
  BY ReverseStart
<1>2. ReverseInv /\ [ReverseNext]_reverseVars => ReverseInv'
  <2>1. CASE ReverseInv /\ ReverseNext
    BY <2>1, ReverseTypeStep, ReverseBackedStep DEF ReverseInv
  <2>2. CASE ReverseInv /\ UNCHANGED reverseVars
    BY <2>2 DEF ReverseInv, ReverseMessagesApart, ReverseTypeOK, BackedOnL2,
                reverseVars, l1Vars, l2Vars, messages
  <2> QED  BY <2>1, <2>2
<1> QED  BY <1>1, <1>2, PTL DEF ReverseSpec

\* Every unit of the L1 token and every unit on its way is escrowed on L2 by
\* the L2 reverse gateway, under fees on transfers, bounced and dropped
\* deposits, and any order of registrations.
THEOREM ReverseBackedOnL2 == ReverseSpec => []BackedOnL2
<1>1. ReverseInv => BackedOnL2
  BY DEF ReverseInv
<1> QED  BY <1>1, ReverseInvHolds, PTL

\* As long as one L2 address is registered, both gateways have it or the L2
\* gateway has none yet, and all escrow is in that token.
ReverseUnmoved ==
  ~ moved =>
    /\ registered = 0 => l1ToL2Token_L2 = Zero /\ registrations = {}
    /\ l1ToL2Token_L2 \in {Zero, l1ToL2Token_L1}
    /\ \A m \in registrations : m.l2Address = l1ToL2Token_L1
    /\ \A x \in L2Tokens : l2Escrow[x] # 0 => x = l1ToL2Token_L2

\* Every step of the reverse gateways keeps the escrow in the registered token.
LEMMA ReverseUnmovedStep ==
  ASSUME ReverseInv, ReverseUnmoved, ReverseNext
  PROVE  ReverseUnmoved'
<1> USE DEF l1Vars, l2Vars, messages
<1>0. /\ l2Escrow \in [L2Tokens -> Nat] /\ registered \in Nat /\ deployed \subseteq L2Tokens
      /\ l1ToL2Token_L2 \in L2Tokens \cup {Zero} /\ Zero \notin L2Tokens
  BY DEF ReverseInv, ReverseTypeOK, L2Addresses
<1>1. ASSUME UNCHANGED <<l1ToL2Token_L1, l1ToL2Token_L2, registrations, registered, l2Escrow, moved>>
      PROVE  ReverseUnmoved'
  BY <1>1 DEF ReverseUnmoved
<1>2. ASSUME NEW a \in Amounts, withdrawReverse(a)
      PROVE  ReverseUnmoved'
  <2>1. \A x \in L2Tokens \ {l1ToL2Token_L2} : l2Escrow'[x] = l2Escrow[x]
    BY <1>0, <1>2 DEF withdrawReverse
  <2> QED  BY <1>2, <2>1 DEF withdrawReverse, ReverseUnmoved
<1>3. ASSUME NEW m \in deposits, release(m)
      PROVE  ReverseUnmoved'
  <2>1. \A x \in L2Tokens \ {l1ToL2Token_L2} : l2Escrow'[x] = l2Escrow[x]
    BY <1>0, <1>3 DEF release
  <2> QED  BY <1>3, <2>1 DEF release, ReverseUnmoved
<1>4. ASSUME NEW x \in L2Addresses, register(x)
      PROVE  ReverseUnmoved'
  <2> SUFFICES ASSUME ~ moved'  PROVE ReverseUnmoved'
    BY DEF ReverseUnmoved
  <2>1. ~ moved /\ (registered > 0 => x = l1ToL2Token_L1)
    BY <1>4 DEF register
  <2>2. CASE registered = 0
    BY <1>0, <1>4, <2>1, <2>2 DEF register, ReverseUnmoved
  <2>3. CASE registered > 0
    BY <1>0, <1>4, <2>1, <2>3 DEF register, ReverseUnmoved
  <2> QED  BY <1>0, <2>2, <2>3
<1>5. ASSUME NEW m \in registrations, registerTokenFromL1(m)
      PROVE  ReverseUnmoved'
  BY <1>0, <1>5 DEF registerTokenFromL1, ReverseUnmoved
<1> QED  BY <1>1, <1>2, <1>3, <1>4, <1>5
         DEF ReverseNext, depositReverse, finalizeReverseExit, bounceReverseDeposit,
             dropReverseDeposit, deployL2Token, mintOnL2

\* The condition of release on escrow holds for every deposit, unless a second L2
\* address was registered.
ReverseDepositsPayable ==
  ~ moved /\ l1ToL2Token_L2 \in deployed =>
    \A m \in deposits : m.amount <= l2Escrow[l1ToL2Token_L2]

\* As long as the owner registers no second L2 address, every deposit of the L1
\* token finds its units in the escrow of the L2 reverse gateway.
THEOREM ReverseDepositsCanBePaid == ReverseSpec => []ReverseDepositsPayable
<1>1. ReverseInit => ReverseUnmoved
  BY DEF ReverseInit, ReverseUnmoved
<1>2. ReverseInv /\ ReverseUnmoved /\ [ReverseNext]_reverseVars => ReverseUnmoved'
  <2>1. CASE ReverseInv /\ ReverseUnmoved /\ ReverseNext
    BY <2>1, ReverseUnmovedStep
  <2>2. CASE ReverseUnmoved /\ UNCHANGED reverseVars
    BY <2>2 DEF ReverseUnmoved, reverseVars, l1Vars, l2Vars
  <2> QED  BY <2>1, <2>2
<1>3. ReverseInv /\ ReverseUnmoved => ReverseDepositsPayable
  <2> SUFFICES ASSUME ReverseInv, ReverseUnmoved, ~ moved, l1ToL2Token_L2 \in deployed,
                      NEW m \in deposits
               PROVE  m.amount <= l2Escrow[l1ToL2Token_L2]
    BY DEF ReverseDepositsPayable
  <2> DEFINE x == l1ToL2Token_L2
  <2>1. /\ x \in L2Tokens /\ l2Escrow \in [L2Tokens -> Nat] /\ l2Escrow[x] \in Nat
        /\ IsFiniteSet(deposits) /\ IsFiniteSet(exits) /\ l1Supply \in Nat /\ l2Surplus \in Nat
        /\ \A d \in deposits \cup exits : d.amount \in Nat
    BY DEF ReverseInv, ReverseTypeOK, ReverseMessagesApart, ReverseMessage
  <2>2. \A y \in L2Tokens \ {x} : l2Escrow[y] = 0
    BY DEF ReverseUnmoved
  <2> HIDE DEF x
  <2>3. Tally(l2Escrow, L2Tokens) = Tally(l2Escrow, {x})
    BY <2>1, <2>2, TallyZeros
  <2>4. Tally(l2Escrow, {x}) = l2Escrow[x]
    <3>1. IsFiniteSet({}) /\ Tally(l2Escrow, {}) = 0 /\ {} \cup {x} = {x}
      BY FS_EmptySet DEF Tally, Units
    <3>2. Tally(l2Escrow, {} \cup {x}) = Tally(l2Escrow, {}) + l2Escrow[x]
      BY <2>1, <3>1, TallyAdd
    <3> QED  BY <2>1, <3>1, <3>2
  <2>5. /\ TotalAmount(deposits) = TotalAmount(deposits \ {m}) + m.amount
        /\ TotalAmount(deposits \ {m}) \in Nat /\ TotalAmount(exits) \in Nat
    BY <2>1, TotalAmountRemove, TotalAmountType
  <2>6. l2Escrow[x] = l1Supply + TotalAmount(deposits) + TotalAmount(exits) + l2Surplus
    BY <2>3, <2>4 DEF ReverseInv, BackedOnL2
  <2>7. m.amount <= l2Escrow[x]
    BY <2>1, <2>5, <2>6
  <2> QED  BY <2>7 DEF x
<1> QED  BY <1>1, <1>2, <1>3, ReverseInvHolds, PTL DEF ReverseSpec

\* By BackedOnL2, what the reverse gateways owe is what they hold but for the
\* surplus.
ReverseCovered ==
  LET Amount == [{"L1Token"} -> Nat]
  IN  /\ lockedOnL2 \in Amount /\ owedOnL1 \in Amount /\ surplusOnL2 \in Amount
      /\ lockedOnL2["L1Token"] = owedOnL1["L1Token"] + surplusOnL2["L1Token"]

LEMMA ReverseCovers == ASSUME ReverseInv PROVE ReverseCovered
<1>1. /\ \A m \in deposits \cup exits : m.amount \in Nat
      /\ IsFiniteSet(deposits) /\ IsFiniteSet(exits) /\ IsFiniteSet(L2Tokens)
      /\ l2Escrow \in [L2Tokens -> Nat] /\ l1Supply \in Nat /\ l2Surplus \in Nat
  BY DEF ReverseInv, ReverseMessagesApart, ReverseTypeOK, ReverseMessage
<1>2. /\ Tally(l2Escrow, L2Tokens) \in Nat
      /\ TotalAmount(deposits) \in Nat /\ TotalAmount(exits) \in Nat
  BY <1>1, TallyType, TotalAmountType
<1> QED  BY <1>1, <1>2
         DEF ReverseInv, BackedOnL2, ReverseCovered, lockedOnL2, owedOnL1, surplusOnL2

\* A withdrawal locks what arrives in escrow, a release pays it out, a dropped
\* deposit is abandoned, and no other step changes what is held or owed.
LEMMA ReverseCanonicalStep ==
  ASSUME ReverseInv, ReverseCovered, ReverseCovered', [ReverseNext]_reverseVars
  PROVE  [ReverseCanonical!Next]_(ReverseCanonical!vars)
<1> DEFINE T == "L1Token"
<1> USE DEF l1Vars, l2Vars, messages
<1>1. /\ \A m \in deposits : m.amount \in Nat
      /\ l2Escrow \in [L2Tokens -> Nat] /\ IsFiniteSet(L2Tokens)
      /\ deployed \subseteq L2Tokens /\ l2Surplus \in Nat
  BY DEF ReverseInv, ReverseTypeOK, ReverseMessage
<1>2. ASSUME NEW x \in L2Tokens, l2Escrow' \in [L2Tokens -> Nat],
             \A s \in L2Tokens \ {x} : l2Escrow'[s] = l2Escrow[s]
      PROVE  lockedOnL2'[T] + l2Escrow[x] = lockedOnL2[T] + l2Escrow'[x]
  <2>1. Tally(l2Escrow', L2Tokens) + l2Escrow[x] = Tally(l2Escrow, L2Tokens) + l2Escrow'[x]
    BY <1>1, <1>2, TallyUpdate
  <2> QED  BY <2>1 DEF lockedOnL2
<1>3. ASSUME l2Surplus' = l2Surplus
      PROVE  surplusOnL2' = surplusOnL2
  BY <1>3 DEF surplusOnL2
<1>4. ASSUME NEW a \in Amounts, withdrawReverse(a)
      PROVE  ReverseCanonical!Next
  <2> DEFINE x == l1ToL2Token_L2
             r == received(a)
  <2>1. x \in L2Tokens /\ r \in Nat /\ l2Escrow' = [l2Escrow EXCEPT ![x] = @ + r]
    BY <1>1, <1>4, ReverseReceived DEF ReverseInv, withdrawReverse
  <2>2. surplusOnL2' = surplusOnL2
    BY <1>3, <1>4 DEF withdrawReverse
  <2>3. r \in {received(b) : b \in Amounts}
    OBVIOUS
  <2> HIDE DEF x, r
  <2>4. l2Escrow' \in [L2Tokens -> Nat] /\ l2Escrow'[x] = l2Escrow[x] + r /\ l2Escrow[x] \in Nat
    BY <1>1, <2>1
  <2>5. lockedOnL2'[T] + l2Escrow[x] = lockedOnL2[T] + l2Escrow'[x]
    BY <1>1, <1>2, <2>1, <2>4
  <2>6. lockedOnL2'[T] = lockedOnL2[T] + r /\ owedOnL1'[T] = owedOnL1[T] + r
    BY <2>1, <2>2, <2>4, <2>5 DEF ReverseCovered
  <2>7. /\ lockedOnL2' = [lockedOnL2 EXCEPT ![T] = @ + r]
        /\ owedOnL1' = [owedOnL1 EXCEPT ![T] = @ + r]
    BY <2>6 DEF ReverseCovered
  <2>8. ReverseCanonical!Lock(T, r)
    BY <2>2, <2>7 DEF ReverseCanonical!Lock
  <2> QED  BY <2>3, <2>8 DEF ReverseCanonical!Next
<1>5. ASSUME NEW m \in deposits, release(m)
      PROVE  ReverseCanonical!Next
  <2> DEFINE x == l1ToL2Token_L2
             a == m.amount
  <2>1. /\ x \in L2Tokens /\ a \in Nat /\ a <= l2Escrow[x]
        /\ l2Escrow' = [l2Escrow EXCEPT ![x] = @ - a]
    BY <1>1, <1>5 DEF release
  <2>2. surplusOnL2' = surplusOnL2
    BY <1>3, <1>5 DEF release
  <2> HIDE DEF x, a
  <2>3. l2Escrow' \in [L2Tokens -> Nat] /\ l2Escrow'[x] = l2Escrow[x] - a /\ l2Escrow[x] \in Nat
    BY <1>1, <2>1
  <2>4. lockedOnL2'[T] + l2Escrow[x] = lockedOnL2[T] + l2Escrow'[x]
    BY <1>1, <1>2, <2>1, <2>3
  <2>5. /\ lockedOnL2'[T] = lockedOnL2[T] - a /\ owedOnL1'[T] = owedOnL1[T] - a
        /\ a \in 0 .. owedOnL1[T]
    <3>1. /\ lockedOnL2[T] \in Nat /\ owedOnL1[T] \in Nat /\ surplusOnL2[T] \in Nat
          /\ lockedOnL2'[T] \in Nat /\ owedOnL1'[T] \in Nat
          /\ lockedOnL2[T] = owedOnL1[T] + surplusOnL2[T]
          /\ lockedOnL2'[T] = owedOnL1'[T] + surplusOnL2[T]
      BY <2>2 DEF ReverseCovered
    <3> QED  BY <2>1, <2>3, <2>4, <3>1
  <2>6. /\ lockedOnL2' = [lockedOnL2 EXCEPT ![T] = @ - a]
        /\ owedOnL1' = [owedOnL1 EXCEPT ![T] = @ - a]
    BY <2>5 DEF ReverseCovered
  <2>7. ReverseCanonical!Release(T, a)
    BY <2>2, <2>6 DEF ReverseCanonical!Release
  <2> QED  BY <2>5, <2>7 DEF ReverseCanonical!Next
<1>6. ASSUME NEW m \in deposits, dropReverseDeposit(m)
      PROVE  ReverseCanonical!Next
  <2> DEFINE a == m.amount
  <2>1. /\ a \in Nat /\ surplusOnL2'[T] = surplusOnL2[T] + a
        /\ lockedOnL2' = lockedOnL2
    BY <1>1, <1>6 DEF dropReverseDeposit, surplusOnL2, lockedOnL2
  <2> HIDE DEF a
  <2>2. owedOnL1'[T] = owedOnL1[T] - a /\ a \in 0 .. owedOnL1[T]
    BY <2>1 DEF ReverseCovered
  <2>3. /\ surplusOnL2' = [surplusOnL2 EXCEPT ![T] = @ + a]
        /\ owedOnL1' = [owedOnL1 EXCEPT ![T] = @ - a]
    BY <2>1, <2>2 DEF ReverseCovered
  <2>4. ReverseCanonical!Abandon(T, a)
    BY <2>1, <2>3 DEF ReverseCanonical!Abandon
  <2> QED  BY <2>2, <2>4 DEF ReverseCanonical!Next
<1>7. ASSUME UNCHANGED <<l2Escrow, l2Surplus>>
      PROVE  UNCHANGED ReverseCanonical!vars
  <2>1. lockedOnL2' = lockedOnL2 /\ surplusOnL2' = surplusOnL2
    BY <1>7 DEF lockedOnL2, surplusOnL2
  <2>2. owedOnL1' = owedOnL1
    BY <2>1 DEF ReverseCovered
  <2> QED  BY <2>1, <2>2 DEF ReverseCanonical!vars
<1> QED  BY <1>4, <1>5, <1>6, <1>7
         DEF ReverseNext, reverseVars, depositReverse, finalizeReverseExit, register,
             registerTokenFromL1, bounceReverseDeposit, deployL2Token, mintOnL2

\* The reverse gateways implement the canonical bridge with the chains changed
\* about: L1 units come into being only for units that arrived in escrow on L2.
THEOREM ReverseRefinement == ReverseSpec => ReverseImplementsBridge
<1>1. ReverseInit => ReverseCanonical!Init
  <2> SUFFICES ASSUME ReverseInit  PROVE ReverseCanonical!Init
    OBVIOUS
  <2>1. Tally(l2Escrow, {}) = 0
    BY FS_EmptySet DEF Tally, Units
  <2>2. Tally(l2Escrow, L2Tokens) = Tally(l2Escrow, {})
    BY TallyZeros DEF ReverseInit
  <2> QED  BY <2>1, <2>2, TotalAmountEmpty
           DEF ReverseInit, ReverseCanonical!Init, lockedOnL2, owedOnL1, surplusOnL2
<1>2. ReverseInv => ReverseCovered
  BY ReverseCovers
<1>3. ReverseInv /\ ReverseCovered /\ ReverseCovered' /\ [ReverseNext]_reverseVars
        => [ReverseCanonical!Next]_(ReverseCanonical!vars)
  BY ReverseCanonicalStep
<1> QED  BY <1>1, <1>2, <1>3, ReverseInvHolds, PTL
         DEF ReverseSpec, ReverseImplementsBridge, ReverseCanonical!Spec

HIDE ReverseAssumption

-----------------------------------------------------------------------------
(* Fees on chains with an ERC20 native token: numbers *)

\* A nonempty set of natural numbers has a least element: the library knows
\* that < is well founded.
LEMMA LeastNumber ==
  ASSUME NEW T, T \subseteq Nat, T # {}
  PROVE  \E x \in T : \A y \in T : x <= y
<1> DEFINE R == OpToRel(<, Nat)
<1>1. IsWellFoundedOn(R, Nat)
  BY NatLessThanWellFounded, Zenon
<1>2. \A x, y \in Nat : y < x => <<y, x>> \in R
  BY Zenon DEF OpToRel
<1> HIDE DEF R
<1>3. PICK x \in T : \A y \in T : <<y, x>> \notin R
  BY <1>1, WFMin
<1>4. \A y \in T : ~ (y < x)
  BY <1>2, <1>3
<1> QED BY <1>4

\* Induction, for a set in place of a predicate.
LEMMA InductionOverNat ==
  ASSUME NEW S \in SUBSET Nat, 0 \in S, \A n \in S : n + 1 \in S
  PROVE  S = Nat
<1> SUFFICES ASSUME Nat \ S # {} PROVE FALSE
  OBVIOUS
<1>1. PICK x \in Nat \ S : \A y \in Nat \ S : x <= y
  BY LeastNumber
<1>2. x # 0 /\ x - 1 \in Nat /\ x - 1 < x
  BY <1>1
<1>3. x - 1 \in S
  BY <1>1, <1>2
<1>4. (x - 1) + 1 \in S
  BY <1>3
<1>5. (x - 1) + 1 = x
  BY <1>2
<1> QED  BY <1>1, <1>4, <1>5

\* The powers of ten up to n.
PowersUpTo(n) == {g \in [0 .. n -> Nat] : g[0] = 1 /\ \A i \in 1 .. n : g[i] = 10 * g[i - 1]}

\* There are such powers for every n, by induction.
LEMMA PowersExist == \A n \in Nat : PowersUpTo(n) # {}
<1> DEFINE S == {n \in Nat : PowersUpTo(n) # {}}
<1>1. 0 \in S
  <2>1. [i \in 0 .. 0 |-> 1] \in PowersUpTo(0)
    BY DEF PowersUpTo
  <2> QED  BY <2>1
<1>2. ASSUME NEW n \in S  PROVE n + 1 \in S
  <2>1. PICK g : g \in PowersUpTo(n)
    OBVIOUS
  <2> DEFINE h == [i \in 0 .. n + 1 |-> IF i = n + 1 THEN 10 * g[n] ELSE g[i]]
  <2>2. /\ n \in Nat /\ g \in [0 .. n -> Nat] /\ g[0] = 1 /\ n \in 0 .. n
        /\ \A i \in 1 .. n : g[i] = 10 * g[i - 1]
    BY <2>1 DEF PowersUpTo
  <2>3. h \in [0 .. n + 1 -> Nat] /\ h[0] = 1
    BY <2>2
  <2>4. ASSUME NEW i \in 1 .. n + 1  PROVE h[i] = 10 * h[i - 1]
    <3>1. CASE i = n + 1
      BY <2>2, <3>1
    <3>2. CASE i # n + 1
      <4>1. i \in 1 .. n /\ i - 1 \in 0 .. n
        BY <2>2, <3>2
      <4> QED  BY <2>2, <4>1
    <3> QED  BY <3>1, <3>2
  <2>5. h \in PowersUpTo(n + 1)
    BY <2>3, <2>4 DEF PowersUpTo
  <2> HIDE DEF h
  <2> QED  BY <2>2, <2>5
<1> HIDE DEF S
<1>3. S = Nat
  <2>1. S \in SUBSET Nat
    BY DEF S
  <2> QED  BY <1>1, <1>2, <2>1, InductionOverNat
<1> QED  BY <1>3 DEF S

\* Two tables of powers agree where both are defined, by induction.
LEMMA PowersAgree ==
  ASSUME NEW m \in Nat, NEW n \in Nat, NEW g \in PowersUpTo(m), NEW h \in PowersUpTo(n)
  PROVE  \A i \in Nat : i <= m /\ i <= n => g[i] = h[i]
<1> DEFINE S == {i \in Nat : i <= m /\ i <= n => g[i] = h[i]}
<1>0. /\ g[0] = 1 /\ \A i \in 1 .. m : g[i] = 10 * g[i - 1]
      /\ h[0] = 1 /\ \A i \in 1 .. n : h[i] = 10 * h[i - 1]
  BY DEF PowersUpTo
<1>1. 0 \in S
  BY <1>0
<1>2. ASSUME NEW i \in S  PROVE i + 1 \in S
  <2> SUFFICES ASSUME i + 1 <= m, i + 1 <= n  PROVE g[i + 1] = h[i + 1]
    OBVIOUS
  <2>1. i + 1 \in 1 .. m /\ i + 1 \in 1 .. n /\ (i + 1) - 1 = i /\ g[i] = h[i]
    OBVIOUS
  <2> QED  BY <1>0, <2>1
<1> HIDE DEF S
<1>3. S = Nat
  <2>1. S \in SUBSET Nat
    BY DEF S
  <2> QED  BY <1>1, <1>2, <2>1, InductionOverNat
<1> QED  BY <1>3 DEF S

\* The recursive definition of 10 ** n has a solution, so the function it
\* names satisfies it: what no library theorem gives here is proved from the
\* tables of powers.
LEMMA Pow10Def == /\ pow10 \in [Nat -> Nat]
                  /\ pow10[0] = 1
                  /\ \A n \in Nat : pow10[n + 1] = 10 * pow10[n]
<1> DEFINE G(n) == CHOOSE g : g \in PowersUpTo(n)
           f == [n \in Nat |-> G(n)[n]]
           Step(p) == [n \in Nat |-> IF n = 0 THEN 1 ELSE 10 * p[n - 1]]
<1>1. \A n \in Nat : G(n) \in PowersUpTo(n)
  BY PowersExist
<1> HIDE DEF G
<1>2. ASSUME NEW n \in Nat  PROVE f[n] \in Nat /\ f[n] = IF n = 0 THEN 1 ELSE 10 * f[n - 1]
  <2>1. /\ G(n) \in [0 .. n -> Nat] /\ G(n)[0] = 1 /\ \A i \in 1 .. n : G(n)[i] = 10 * G(n)[i - 1]
    BY <1>1 DEF PowersUpTo
  <2>2. f[n] = G(n)[n] /\ f[n] \in Nat
    BY <2>1
  <2>3. CASE n = 0
    BY <2>1, <2>2, <2>3
  <2>4. CASE n # 0
    <3>1. n - 1 \in Nat /\ n \in 1 .. n /\ n - 1 <= n
      BY <2>4
    <3>2. G(n)[n - 1] = G(n - 1)[n - 1]
      BY <1>1, <3>1, PowersAgree
    <3>3. f[n - 1] = G(n - 1)[n - 1]
      BY <3>1
    <3>4. G(n)[n] = 10 * G(n)[n - 1]
      BY <2>1, <3>1
    <3> QED  BY <2>2, <2>4, <3>2, <3>3, <3>4
  <2> QED  BY <2>3, <2>4
<1>3. f = Step(f)
  <2>1. \A n \in Nat : f[n] = Step(f)[n]
    BY <1>2
  <2> QED  BY <2>1
<1> HIDE DEF f
<1>4. pow10 = Step(pow10)
  <2>1. \E p : p = Step(p)
    BY <1>3
  <2>2. pow10 = CHOOSE p : p = Step(p)
    BY DEF pow10
  <2> HIDE DEF Step
  <2> QED  BY <2>1, <2>2
<1>5. pow10[0] = 1 /\ \A n \in Nat : pow10[n + 1] = 10 * pow10[n]
  BY <1>4
<1> DEFINE S == {n \in Nat : pow10[n] \in Nat}
<1>6. S = Nat
  <2>1. 0 \in S /\ S \in SUBSET Nat /\ \A n \in S : n + 1 \in S
    BY <1>5
  <2> HIDE DEF S
  <2> QED  BY <2>1, InductionOverNat
<1>7. pow10 = [n \in Nat |-> pow10[n]]
  BY <1>4
<1>8. \A n \in Nat : pow10[n] \in Nat
  BY <1>6
<1>9. pow10 \in [Nat -> Nat]
  BY <1>7, <1>8
<1> QED  BY <1>5, <1>9

\* The power of a sum is the product of the powers, and powers are positive.
LEMMA Pow10Laws ==
  /\ \A n \in Nat : pow10[n] \in Nat /\ pow10[n] > 0
  /\ \A m, n \in Nat : pow10[m + n] = pow10[m] * pow10[n]
<1> DEFINE p(n) == pow10[n]
           S == {n \in Nat : p(n) > 0}
<1>0. /\ \A n \in Nat : p(n) \in Nat
      /\ p(0) = 1 /\ \A n \in Nat : p(n + 1) = 10 * p(n)
  BY Pow10Def
<1> HIDE DEF p
<1>1. S = Nat
  <2>1. 0 \in S /\ S \in SUBSET Nat
    BY <1>0
  <2>2. ASSUME NEW n \in S  PROVE n + 1 \in S
    BY <1>0
  <2> HIDE DEF S
  <2> QED  BY <2>1, <2>2, InductionOverNat
<1>2. \A n \in Nat : p(n) > 0
  BY <1>1
<1>3. ASSUME NEW m \in Nat  PROVE \A n \in Nat : p(m + n) = p(m) * p(n)
  <2> DEFINE T == {n \in Nat : p(m + n) = p(m) * p(n)}
  <2>1. 0 \in T /\ T \in SUBSET Nat
    BY <1>0
  <2>2. ASSUME NEW n \in T  PROVE n + 1 \in T
    <3>1. p(m + n) = p(m) * p(n) /\ m + n \in Nat /\ m + (n + 1) = (m + n) + 1
      OBVIOUS
    <3>2. p(m + (n + 1)) = 10 * (p(m) * p(n))
      BY <1>0, <3>1
    <3>3. 10 * (p(m) * p(n)) = p(m) * (10 * p(n))
      BY <1>0
    <3> QED  BY <1>0, <3>2, <3>3
  <2> HIDE DEF T
  <2>3. T = Nat
    BY <2>1, <2>2, InductionOverNat
  <2> QED  BY <2>3 DEF T
<1> QED  BY <1>0, <1>2, <1>3 DEF p

\* Division rounded up gives the least number of units of s that cover a.
LEMMA RoundedUp ==
  ASSUME NEW a \in Nat, NEW s \in Nat, s > 0, NEW r,
         r = IF (a \div s) * s < a THEN a \div s + 1 ELSE a \div s
  PROVE  /\ r \in Nat /\ r * s >= a
         /\ r > 0 => (r - 1) * s < a
<1>1. a \div s \in Nat /\ (a \div s) * s <= a /\ a < (a \div s + 1) * s
  OBVIOUS
<1> DEFINE q == a \div s
<1> HIDE DEF q
<1>2. q \in Nat /\ q * s <= a /\ a < (q + 1) * s /\ r = IF q * s < a THEN q + 1 ELSE q
  BY <1>1 DEF q
<1>3. CASE q * s < a
  BY <1>2, <1>3
<1>4. CASE ~ (q * s < a)
  <2>1. r = q /\ q * s = a
    BY <1>2, <1>4
  <2>2. r > 0 => (q - 1) * s < q * s
    BY <1>2, <2>1
  <2> QED  BY <1>2, <2>1, <2>2
<1> QED  BY <1>3, <1>4

-----------------------------------------------------------------------------
(* Fees on chains with an ERC20 native token *)
USE FeesAssumption

\* The inductive invariant of the fees.
OrbitInv == FeesTypeOK /\ FeesFromCallers

\* The creator's and the script's scaled amounts are natural numbers, the two
\* formulas of the creator and of the script that calls it agree, and each
\* gives the least amount of the native token worth the cost.
LEMMA OrbitScaling ==
  ASSUME FeesTypeOK, NEW cost \in Nat, NEW fee,
         \/ fee = _getScaledAmount(cost)
         \/ fee = _getPrescaledAmount(cost)
         \/ fee = scaledByScript(cost)
  PROVE  /\ fee \in Nat
         /\ fee * pow10[EtherDecimals] >= cost * pow10[decimals]
         /\ fee > 0 => ~ ((fee - 1) * pow10[EtherDecimals] >= cost * pow10[decimals])
         /\ _getScaledAmount(cost) = scaledByScript(cost)
<1> DEFINE p(n) == pow10[n]
<1>1. decimals \in Nat /\ EtherDecimals \in Nat
  BY DEF FeesTypeOK
<1>2. /\ \A n \in Nat : p(n) \in Nat /\ p(n) > 0
      /\ \A m, n \in Nat : p(m + n) = p(m) * p(n)
      /\ p(0) = 1
  BY Pow10Laws, Pow10Def
<1>3. CASE decimals < EtherDecimals
  <2> DEFINE s == p(EtherDecimals - decimals)
             r == IF (cost \div s) * s < cost THEN cost \div s + 1 ELSE cost \div s
  <2>1. EtherDecimals - decimals \in Nat /\ EtherDecimals = (EtherDecimals - decimals) + decimals
    BY <1>1, <1>3
  <2>2. s \in Nat /\ s > 0 /\ p(EtherDecimals) = s * p(decimals)
    BY <1>1, <1>2, <2>1
  <2>3. cost \div s \in Nat
    BY <2>2
  <2>4. /\ _getScaledAmount(cost) = r
        /\ _getPrescaledAmount(cost) = r
        /\ scaledByScript(cost) = r
    BY <1>1, <1>3, <2>3 DEF _getScaledAmount, _getPrescaledAmount, scaledByScript
  <2>5. fee = r
    BY <2>4
  <2> HIDE DEF p, s
  <2>6. fee \in Nat /\ fee * s >= cost /\ (fee > 0 => (fee - 1) * s < cost)
    BY <2>2, <2>5, RoundedUp
  <2> HIDE DEF r
  <2>7. p(decimals) \in Nat /\ p(decimals) > 0
    BY <1>1, <1>2
  <2>8. \A x \in Nat : x * p(EtherDecimals) = (x * s) * p(decimals)
    BY <2>2, <2>7
  <2>9. fee * p(EtherDecimals) >= cost * p(decimals)
    BY <2>2, <2>6, <2>7, <2>8
  <2>10. ASSUME fee > 0  PROVE (fee - 1) * p(EtherDecimals) < cost * p(decimals)
    <3>1. fee - 1 \in Nat /\ (fee - 1) * s \in Nat
      BY <2>2, <2>6, <2>10
    <3>2. ((fee - 1) * s) * p(decimals) < cost * p(decimals)
      BY <2>6, <2>7, <2>10, <3>1
    <3> QED  BY <2>8, <3>1, <3>2
  <2>11. ASSUME fee > 0
         PROVE  ~ ((fee - 1) * p(EtherDecimals) >= cost * p(decimals))
    <3>1. fee - 1 \in Nat
      BY <2>6, <2>11
    <3>2. p(EtherDecimals) \in Nat
      BY <1>1, <1>2
    <3>3. (fee - 1) * p(EtherDecimals) \in Nat /\ cost * p(decimals) \in Nat
      BY <2>7, <3>1, <3>2
    <3> QED  BY <2>10, <2>11, <3>3
  <2> QED  BY <2>4, <2>6, <2>9, <2>11 DEF p
<1>4. CASE decimals >= EtherDecimals
  <2> DEFINE s == p(decimals - EtherDecimals)
  <2>1. decimals - EtherDecimals \in Nat /\ decimals = (decimals - EtherDecimals) + EtherDecimals
    BY <1>1, <1>4
  <2>2. s \in Nat /\ p(decimals) = s * p(EtherDecimals)
    BY <1>1, <1>2, <2>1
  <2>3. decimals = EtherDecimals => s = 1 /\ cost * s = cost
    BY <1>1, <1>2
  <2>4. /\ _getScaledAmount(cost) = cost * s
        /\ _getPrescaledAmount(cost) = cost * s
        /\ scaledByScript(cost) = cost * s
    BY <1>1, <1>4, <2>3 DEF _getScaledAmount, _getPrescaledAmount, scaledByScript
  <2> HIDE DEF p, s
  <2>5. fee = cost * s /\ fee \in Nat
    BY <2>2, <2>4
  <2>6. p(EtherDecimals) \in Nat /\ p(EtherDecimals) > 0
    BY <1>1, <1>2
  <2>7. cost * p(decimals) = fee * p(EtherDecimals)
    BY <2>2, <2>5, <2>6
  <2>8. (fee - 1) * p(EtherDecimals) = fee * p(EtherDecimals) - p(EtherDecimals)
    BY <2>5, <2>6
  <2>9. fee * p(EtherDecimals) \in Nat
    BY <2>5, <2>6
  <2> QED  BY <2>4, <2>5, <2>6, <2>7, <2>8, <2>9 DEF p
<1> QED  BY <1>1, <1>3, <1>4

\* Whoever calls, a ticket is paid by the one account it is charged to: the
\* escrow of the gateway only grows, by what is deposited.
LEMMA OrbitTicket ==
  ASSUME OrbitInv, NEW sender, NEW user \in Payers,
         sender = Router \/ (sender = user /\ sender # Router),
         NEW fee \in Nat, NEW amount \in Nat, createRetryable(sender, user, fee, amount),
         allowance' \in Nat, registration' \in Registration
  PROVE  OrbitInv'
<1> DEFINE short == shortfall(fee)
           escrowed == [native EXCEPT ![user] = @ - amount, ![GatewayAccount] = @ + amount]
<1>1. /\ transferFrom(sender, user) = user
      /\ user \in Accounts /\ GatewayAccount \in Accounts /\ user # GatewayAccount
  BY DEF transferFrom, Accounts
<1>2. /\ short \in Nat /\ short <= fee /\ inbox + short - fee \in Nat
  BY DEF shortfall, OrbitInv, FeesTypeOK
<1>3. /\ amount <= native[user] /\ short <= escrowed[user]
      /\ native' = [escrowed EXCEPT ![user] = @ - short]
      /\ inbox' = inbox + short - fee /\ deposited' = deposited + amount
      /\ tickets' = tickets + 1 /\ due' = [due EXCEPT ![user] = @ + fee + amount]
      /\ decimals' = decimals
  BY <1>1 DEF createRetryable
<1>4. /\ native \in [Accounts -> Nat] /\ due \in [Payers -> Int]
      /\ deposited \in Nat /\ tickets \in Nat /\ decimals \in NativeDecimals
      /\ Balance \in Nat /\ native[GatewayAccount] = deposited
      /\ \A a \in Payers : native[a] + due[a] >= Balance /\ a \in Accounts
  BY DEF OrbitInv, FeesTypeOK, FeesFromCallers, Accounts
<1> HIDE DEF short
<1>5. /\ native'[user] = native[user] - amount - short /\ native'[user] \in Nat
      /\ native'[GatewayAccount] = native[GatewayAccount] + amount
      /\ \A a \in Accounts \ {user, GatewayAccount} : native'[a] = native[a]
      /\ native' = [a \in Accounts |-> native'[a]]
  <2>1. /\ escrowed = [a \in Accounts |-> escrowed[a]]
        /\ escrowed[user] = native[user] - amount
        /\ escrowed[GatewayAccount] = native[GatewayAccount] + amount
        /\ \A a \in Accounts \ {user, GatewayAccount} : escrowed[a] = native[a]
    BY <1>1, <1>4
  <2> HIDE DEF escrowed
  <2>2. /\ native' = [a \in Accounts |-> native'[a]]
        /\ native'[user] = escrowed[user] - short
        /\ \A a \in Accounts \ {user} : native'[a] = escrowed[a]
    BY <1>1, <1>3, <2>1
  <2>3. native[user] \in Nat /\ native[user] - amount - short \in Nat
    BY <1>1, <1>2, <1>3, <1>4, <2>1
  <2> QED  BY <1>1, <2>1, <2>2, <2>3
<1>6. native' \in [Accounts -> Nat]
  BY <1>1, <1>4, <1>5
<1>7. /\ due'[user] = due[user] + fee + amount
      /\ \A a \in Payers \ {user} : due'[a] = due[a]
      /\ due' \in [Payers -> Int]
  BY <1>3, <1>4
<1>8. ASSUME NEW a \in Payers  PROVE native'[a] + due'[a] >= Balance
  <2>1. CASE a = user
    BY <1>1, <1>2, <1>4, <1>5, <1>7, <2>1
  <2>2. CASE a # user
    <3>1. a # GatewayAccount
      OBVIOUS
    <3> QED  BY <1>4, <1>5, <1>7, <2>2, <3>1
  <2> QED  BY <2>1, <2>2
<1> QED  BY <1>2, <1>3, <1>4, <1>5, <1>6, <1>7, <1>8
         DEF OrbitInv, FeesTypeOK, FeesFromCallers

\* An account that pays spent units out of its own balance, and counts them as
\* due, leaves the gateway's escrow and the other accounts alone.
LEMMA OrbitPayment ==
  ASSUME OrbitInv, NEW sender \in Payers,
         NEW spent \in Nat, spent <= native[sender],
         native' = [native EXCEPT ![sender] = @ - spent],
         due' = [due EXCEPT ![sender] = @ + spent],
         decimals' = decimals, deposited' = deposited, inbox' \in Nat, tickets' \in Nat,
         UNCHANGED scriptVars
  PROVE  OrbitInv'
<1>1. /\ native \in [Accounts -> Nat] /\ due \in [Payers -> Int]
      /\ deposited \in Nat /\ decimals \in NativeDecimals
      /\ Balance \in Nat /\ native[GatewayAccount] = deposited
      /\ \A a \in Payers : /\ native[a] + due[a] >= Balance
                                 /\ a \in Accounts /\ a # GatewayAccount
      /\ GatewayAccount \in Accounts
  BY DEF OrbitInv, FeesTypeOK, FeesFromCallers, Accounts
<1>2. native' \in [Accounts -> Nat] /\ due' \in [Payers -> Int]
  BY <1>1
<1>3. native'[GatewayAccount] = deposited'
  BY <1>1
<1>4. \A a \in Payers : native'[a] + due'[a] >= Balance
  BY <1>1
<1> QED  BY <1>1, <1>2, <1>3, <1>4 DEF OrbitInv, FeesTypeOK, FeesFromCallers, scriptVars

\* The fee given to the upgrade executor is as much more in its balance and less
\* in what it is due.
LEMMA OrbitGift ==
  ASSUME OrbitInv, NEW rollupOwner \in Users, NEW cost \in GasCosts,
         transferFee(rollupOwner, cost)
  PROVE  OrbitInv'
<1> DEFINE totalFee == _getPrescaledAmount(cost)
<1>1. /\ native \in [Accounts -> Nat] /\ due \in [Payers -> Int]
      /\ deposited \in Nat /\ native[GatewayAccount] = deposited /\ Balance \in Nat
      /\ \A a \in Payers : /\ native[a] + due[a] >= Balance
                           /\ a \in Accounts /\ a # GatewayAccount
      /\ GatewayAccount \in Accounts
      /\ rollupOwner \in Payers /\ UpgradeExecutor \in Payers /\ rollupOwner # UpgradeExecutor
  BY DEF OrbitInv, FeesTypeOK, FeesFromCallers, Accounts, Payers
<1>2. totalFee \in Nat
  BY OrbitScaling DEF OrbitInv, FeesTypeOK
<1>3. /\ totalFee <= native[rollupOwner]
      /\ native' = [native EXCEPT ![rollupOwner] = @ - totalFee,
                                  ![UpgradeExecutor] = @ + totalFee]
      /\ due' = [due EXCEPT ![rollupOwner] = @ + totalFee, ![UpgradeExecutor] = @ - totalFee]
      /\ registration' = [stage |-> "transferred", fee |-> totalFee]
      /\ UNCHANGED <<decimals, inbox, deposited, tickets, allowance>>
  BY DEF transferFee
<1> HIDE DEF totalFee
<1>4. native' \in [Accounts -> Nat] /\ due' \in [Payers -> Int]
  BY <1>1, <1>2, <1>3
<1>5. native'[GatewayAccount] = deposited'
  BY <1>1, <1>3
<1>6. \A a \in Payers : native'[a] + due'[a] >= Balance
  BY <1>1, <1>2, <1>3
<1>7. registration' \in Registration
  BY <1>2, <1>3 DEF Registration
<1> QED  BY <1>3, <1>4, <1>5, <1>6, <1>7 DEF OrbitInv, FeesTypeOK, FeesFromCallers, Registration

\* Every ticket, deployment and stray transfer keeps the invariant.
LEMMA OrbitStep ==
  ASSUME OrbitInv, FeesNext
  PROVE  OrbitInv'
<1>0. /\ Fees \subseteq Nat /\ NativeAmounts \subseteq Nat /\ GasCosts \subseteq Nat
      /\ FeesTypeOK /\ 0 \in Nat
      /\ \A u \in Users : u \in Payers
      /\ \A c \in Contracts : c \in Payers /\ c # Router
  BY DEF OrbitInv, Payers
<1>1. ASSUME NEW user \in Users, NEW amount \in NativeAmounts, NEW fee \in Fees,
             depositNative(user, amount, fee)
      PROVE  OrbitInv'
  BY <1>0, <1>1, OrbitTicket DEF depositNative, scriptVars, FeesTypeOK, Registration
<1>2. ASSUME NEW user \in Users, NEW fee \in Fees, depositOther(user, fee)
      PROVE  OrbitInv'
  BY <1>0, <1>2, OrbitTicket DEF depositOther, scriptVars, FeesTypeOK, Registration
<1>3. ASSUME NEW sender \in Contracts, NEW fee \in Fees, registerTokenToL2(sender, fee)
      PROVE  OrbitInv'
  BY <1>0, <1>3, OrbitTicket DEF registerTokenToL2, scriptVars, FeesTypeOK, Registration
\* The router takes no more than it is allowed to.
<1>4. ASSUME NEW sender \in Contracts, NEW fee \in Nat, setGateway(sender, fee),
             registration' \in Registration
      PROVE  OrbitInv'
  <2>1. allowance' \in Nat
    BY <1>0, <1>4 DEF setGateway, shortfall, FeesTypeOK
  <2> QED  BY <1>0, <1>4, <2>1, OrbitTicket DEF setGateway
<1>5. ASSUME approveFee \/ registerUsdcGateway \/ stopRegistration
      PROVE  OrbitInv'
  <2>1. /\ registration.fee \in Nat /\ noRegistration \in Registration
        /\ UpgradeExecutor \in Contracts
    BY <1>0 DEF FeesTypeOK, noRegistration, Registration
  <2>2. CASE approveFee
    <3>1. registration' \in Registration /\ allowance' \in Nat
      BY <1>0, <2>1, <2>2 DEF approveFee, FeesTypeOK, Registration
    <3> QED  BY <2>2, <3>1 DEF approveFee, OrbitInv, FeesTypeOK, FeesFromCallers
  <2>3. CASE registerUsdcGateway
    BY <1>4, <2>1, <2>3 DEF registerUsdcGateway
  <2>4. CASE stopRegistration
    BY <2>1, <2>4 DEF stopRegistration, OrbitInv, FeesTypeOK, FeesFromCallers
  <2> QED  BY <1>5, <2>2, <2>3, <2>4
<1>6. ASSUME NEW sender \in Contracts, NEW fee \in Fees,
             setGateway(sender, fee), UNCHANGED registration
      PROVE  OrbitInv'
  BY <1>0, <1>4, <1>6 DEF FeesTypeOK, Registration
<1>7. ASSUME NEW rollupOwner \in Users, NEW cost \in GasCosts,
             transferFee(rollupOwner, cost)
      PROVE  OrbitInv'
  BY <1>7, OrbitGift
<1>8. ASSUME NEW sender \in Payers, NEW cost1 \in GasCosts, NEW cost2 \in GasCosts,
             createTokenBridge(sender, cost1, cost2)
      PROVE  OrbitInv'
  <2> DEFINE fee1 == _getScaledAmount(cost1)
             fee2 == _getScaledAmount(cost2)
  <2>1. fee1 \in Nat /\ fee2 \in Nat
    BY <1>0, OrbitScaling
  <2>2. /\ fee1 + fee2 <= native[sender]
        /\ native' = [native EXCEPT ![sender] = @ - (fee1 + fee2)]
        /\ due' = [due EXCEPT ![sender] = @ + fee1 + fee2]
        /\ tickets' = tickets + 2 /\ decimals' = decimals /\ inbox' = inbox
        /\ deposited' = deposited /\ UNCHANGED scriptVars
    BY <1>8 DEF createTokenBridge
  <2> HIDE DEF fee1, fee2
  <2>3. due' = [due EXCEPT ![sender] = @ + (fee1 + fee2)]
    <3>1. due[sender] \in Int
      BY <1>0 DEF FeesTypeOK
    <3>2. due[sender] + fee1 + fee2 = due[sender] + (fee1 + fee2)
      BY <2>1, <3>1
    <3> QED  BY <2>2, <3>2
  <2>4. fee1 + fee2 \in Nat /\ inbox' \in Nat /\ tickets' \in Nat
    BY <1>0, <2>1, <2>2 DEF FeesTypeOK
  <2> QED  BY <2>2, <2>3, <2>4, OrbitPayment
<1>9. ASSUME NEW sender \in Payers, NEW amount \in NativeAmounts,
             strayTransfer(sender, amount)
      PROVE  OrbitInv'
  <2>1. amount \in Nat /\ inbox' \in Nat /\ tickets' \in Nat
    BY <1>0, <1>9 DEF strayTransfer, FeesTypeOK
  <2> QED  BY <1>9, <2>1, OrbitPayment DEF strayTransfer
<1> QED  BY <1>1, <1>2, <1>3, <1>5, <1>6, <1>7, <1>8, <1>9 DEF FeesNext

\* The accounts of the native token are in order in every reachable state.
THEOREM OrbitInvHolds == FeesSpec => []OrbitInv
<1>1. FeesInit => OrbitInv
  BY DEF FeesInit, OrbitInv, FeesTypeOK, FeesFromCallers,
         Accounts, noRegistration, Registration
<1>2. OrbitInv /\ [FeesNext]_feeVars => OrbitInv'
  <2>1. CASE OrbitInv /\ FeesNext
    BY <2>1, OrbitStep
  <2>2. CASE OrbitInv /\ UNCHANGED feeVars
    BY <2>2 DEF OrbitInv, FeesTypeOK, FeesFromCallers, feeVars, scriptVars
  <2> QED  BY <2>1, <2>2
<1> QED  BY <1>1, <1>2, PTL DEF FeesSpec

\* The escrow of the gateway pays for no ticket, and no account loses more than
\* it has asked to spend, whoever calls and whatever was left in the inbox.
THEOREM OrbitFeesFromCallers == FeesSpec => []FeesFromCallers
<1>1. OrbitInv => FeesFromCallers
  BY DEF OrbitInv
<1> QED  BY <1>1, OrbitInvHolds, PTL

\* A scaled fee is the least amount of the native token worth the cost, for
\* every number of decimals, and what the script approves covers the fees of
\* both tickets of the creator.
THEOREM OrbitScaledFeesSuffice == FeesSpec => []ScaledFeesSuffice
<1>1. OrbitInv => ScaledFeesSuffice
  <2> SUFFICES ASSUME OrbitInv  PROVE ScaledFeesSuffice
    OBVIOUS
  <2>1. GasCosts \subseteq Nat /\ FeesTypeOK
    BY DEF OrbitInv
  <2> DEFINE worth(fee, cost) == fee * pow10[EtherDecimals] >= cost * pow10[decimals]
  <2>2. ASSUME NEW cost \in GasCosts
        PROVE  LET scaled == _getScaledAmount(cost)
                   prescaled == _getPrescaledAmount(cost)
               IN  /\ worth(scaled, cost) /\ (scaled > 0 => ~ worth(scaled - 1, cost))
                   /\ worth(prescaled, cost) /\ (prescaled > 0 => ~ worth(prescaled - 1, cost))
                   /\ scaled \in Nat /\ scaled = scaledByScript(cost)
    <3>1. cost \in Nat
      BY <2>1
    <3> QED  BY <2>1, <3>1, OrbitScaling
  <2>3. ASSUME NEW cost \in GasCosts, NEW other \in GasCosts
        PROVE  _getScaledAmount(cost) + _getScaledAmount(other)
                 <= approvedFees(cost, other)
    BY <2>2 DEF approvedFees
  <2> QED  BY <2>2, <2>3 DEF ScaledFeesSuffice
<1> QED  BY <1>1, OrbitInvHolds, PTL
=============================================================================
