------------------------- MODULE CustomBridgeProofs -------------------------
(***************************************************************************)
(* Proofs about CustomBridge for any users, tokens, fees, amounts and      *)
(* bounds.  The accounting rests on one inductive invariant: the types,    *)
(* the bookkeeping of message identifiers, and solvency itself.            *)
(***************************************************************************)
EXTENDS CustomBridge, TallyProofs

USE MessagingAssumption, L1GatewayAssumption, L2GatewayAssumption, BridgeAssumption

\* A transfer never delivers more than was sent.
LEMMA ReceivedType ==
  ASSUME NEW t \in L1Tokens, NEW a \in Nat
  PROVE  received(t, a) \in Nat /\ received(t, a) <= a
<1>1. TransferFee[t] \in Nat
  OBVIOUS
<1> QED  BY <1>1 DEF received

\* Callers ask for natural numbers within the bound.
LEMMA AmountsType == ASSUME NEW a \in Amounts PROVE a \in Nat /\ a <= MaxAmount
<1>1. a \in 0 .. MaxAmount
  OBVIOUS
<1> QED  BY <1>1

\* A registration list names L1 tokens and gives each an L2 address.
LEMMA RegistrationType ==
  ASSUME NEW mapping \in Registrations
  PROVE  /\ DOMAIN mapping \subseteq L1Tokens
         /\ \A t \in DOMAIN mapping : mapping[t] \in L2Addresses
<1>1. PICK S \in SUBSET L1Tokens : mapping \in [S -> L2Addresses]
  BY DEF Registrations
<1> QED  BY <1>1

\* Sending a registration keeps the types of the registrations in flight.
LEMMA SendRegisterType ==
  ASSUME registerTickets \subseteq RegisterTicket, seqNum \in Nat,
         NEW mapping \in Registrations, sendRegisterTicket(mapping)
  PROVE  registerTickets' \subseteq RegisterTicket /\ seqNum' \in Nat
BY DEF sendRegisterTicket, RegisterTicket

\* What it takes to be a partial function on U.
LEMMA PartialFunction ==
  ASSUME NEW U, NEW V, NEW D \in SUBSET U, NEW f \in [D -> V]
  PROVE  f \in UNION {[E -> V] : E \in SUBSET U}
<1> HIDE MessagingAssumption, L1GatewayAssumption, L2GatewayAssumption, BridgeAssumption
<1> QED  OBVIOUS

\* Types are preserved by every step, so they hold in every reachable state.
THEOREM TypeCorrect == Spec => []TypeOK
<1> USE DEF TypeOK, MessagingTypeOK, L1TypeOK, L2TypeOK
<1>1. Init => TypeOK
  <2> SUFFICES ASSUME Init PROVE TypeOK
    OBVIOUS
  <2>1. redirectedExits \in [{} -> Users]
    BY DEF Init, L1Init
  <2> QED  BY <2>1 DEF Init, MessagingInit, L1Init, L2Init, L2Addresses
<1>2. TypeOK /\ [Next]_vars => TypeOK'
  <2> SUFFICES ASSUME TypeOK, [Next]_vars PROVE TypeOK'
    OBVIOUS
  <2> USE DEF ticketVars, outboxVars, l1Vars, l2Vars, history
  <2>1. ASSUME NEW t \in L1Tokens, NEW from \in Users, NEW to \in Users, NEW a \in Amounts,
               Deposit(t, from, to, a)
        PROVE  TypeOK'
    <3>1. a \in Nat /\ received(t, a) \in Nat
      BY AmountsType, ReceivedType
    <3>2. amountReceived(t, a) \in Nat
      BY <3>1 DEF amountReceived
    <3>3. l1Balance' \in [L1Tokens \X Users -> Nat] /\ escrow' \in [L1Tokens -> Nat]
      BY <2>1, <3>1 DEF Deposit, outboundTransferCustomRefund
    <3>4. depositTickets' \subseteq DepositTicket /\ seqNum' \in Nat
      BY <2>1, <3>2 DEF Deposit, outboundTransferCustomRefund, sendDepositTicket, DepositTicket
    <3> QED  BY <2>1, <3>3, <3>4 DEF Deposit, outboundTransferCustomRefund, sendDepositTicket
  <2>2. ASSUME NEW t \in L1Tokens, NEW from \in Users, NEW a \in Amounts, Donate(t, from, a)
        PROVE  TypeOK'
    <3>1. a \in Nat /\ received(t, a) \in Nat
      BY AmountsType, ReceivedType
    <3>2. /\ l1Balance' \in [L1Tokens \X Users -> Nat]
          /\ escrow' \in [L1Tokens -> Nat]
          /\ surplus' \in [L1Tokens -> Nat]
      BY <2>2, <3>1 DEF Donate, donate
    <3> QED  BY <2>2, <3>2 DEF Donate, donate
  <2>3. ASSUME NEW t \in L1Tokens, NEW x \in L2Addresses, Register(t, x)
        PROVE  TypeOK'
    <3>1. [s \in {t} |-> x] \in Registrations
      <4>1. [s \in {t} |-> x] \in [{t} -> L2Addresses] /\ {t} \in SUBSET L1Tokens
        OBVIOUS
      <4> QED  BY <4>1 DEF Registrations
    <3>2. registerTickets' \subseteq RegisterTicket /\ seqNum' \in Nat
      BY <2>3, <3>1, SendRegisterType DEF Register, registerTokenToL2
    <3> QED  BY <2>3, <3>2 DEF Register, registerTokenToL2, sendRegisterTicket
  <2>4. ASSUME NEW sender \in Admins, NEW mapping \in Registrations,
               ForceRegister(sender, mapping)
        PROVE  TypeOK'
    <3>1. /\ DOMAIN mapping \subseteq L1Tokens
          /\ \A t \in DOMAIN mapping : mapping[t] \in L2Addresses
      BY RegistrationType
    <3>2. l1ToL2Token_L1' \in [L1Tokens -> L2Addresses] /\ forced' \subseteq L1Tokens
      BY <2>4, <3>1 DEF ForceRegister, forceRegisterTokenToL2
    <3>3. registerTickets' \subseteq RegisterTicket /\ seqNum' \in Nat
      BY <2>4, SendRegisterType DEF ForceRegister, forceRegisterTokenToL2
    <3> QED  BY <2>4, <3>2, <3>3 DEF ForceRegister, forceRegisterTokenToL2, sendRegisterTicket
  <2>5. ASSUME NEW sender \in Admins, NEW newOwner \in Admins, SetOwner(sender, newOwner)
        PROVE  TypeOK'
    BY <2>5 DEF SetOwner, setOwner
  <2>6. ASSUME NEW sender \in Users, NEW n \in TradedExits, NEW u \in Users, NEW newTo \in Users,
               TransferExit(sender, n, u, newTo)
        PROVE  TypeOK'
    <3>1. PICK S \in SUBSET (TradedExits \X Users) : redirectedExits \in [S -> Users]
      OBVIOUS
    <3>2. redirectedExits' \in [S \cup {<<n, u>>} -> Users]
      BY <2>6, <3>1 DEF TransferExit, transferExitAndCall
    <3>3. S \cup {<<n, u>>} \in SUBSET (TradedExits \X Users)
      OBVIOUS
    <3> HIDE DEF TypeOK, MessagingTypeOK, L1TypeOK, L2TypeOK
    <3>4. redirectedExits' \in UNION {[D -> Users] : D \in SUBSET (TradedExits \X Users)}
      BY <3>2, <3>3, PartialFunction
    <3> USE DEF TypeOK, MessagingTypeOK, L1TypeOK, L2TypeOK
    <3>5. trades' \subseteq TradedExits \X Users \X Users
      BY <2>6 DEF TransferExit
    <3> QED  BY <2>6, <3>4, <3>5 DEF TransferExit, transferExitAndCall
  <2>7. ASSUME NEW e \in outbox, FinalizeWithdrawal(e)
        PROVE  TypeOK'
    <3>1. e.token \in L1Tokens /\ e.to \in Users /\ e.amount \in Nat
      BY DEF ExitMessage
    <3>2. received(e.token, e.amount) \in Nat
      BY <3>1, ReceivedType
    <3>3. getExternalCall(e.exitNum, e.to) \in Users
      <4>1. PICK S \in SUBSET (TradedExits \X Users) : redirectedExits \in [S -> Users]
        OBVIOUS
      <4> QED  BY <3>1, <4>1 DEF getExternalCall
    <3>4. escrow' \in [L1Tokens -> Nat] /\ l1Balance' \in [L1Tokens \X Users -> Nat]
      BY <2>7, <3>1, <3>2, <3>3 DEF FinalizeWithdrawal, L1_finalizeInboundTransfer
    <3> QED  BY <2>7, <3>4 DEF FinalizeWithdrawal, L1_finalizeInboundTransfer, executeExit
  <2>8. ASSUME NEW x \in L2Tokens, NEW a \in L1Tokens \cup {NotArbToken}, DeployToken(x, a)
        PROVE  TypeOK'
    BY <2>8 DEF DeployToken, deployL2Token
  <2>9. ASSUME NEW m \in registerTickets, RedeemRegistration(m)
        PROVE  TypeOK'
    <3>0. m.mapping \in Registrations
      BY DEF RegisterTicket
    <3>1. /\ DOMAIN m.mapping \subseteq L1Tokens
          /\ \A t \in DOMAIN m.mapping : m.mapping[t] \in L2Addresses
      BY <3>0, RegistrationType
    <3>2. l1ToL2Token_L2' \in [L1Tokens -> L2Addresses]
      BY <2>9, <3>1 DEF RedeemRegistration, registerTokenFromL1
    <3> QED  BY <2>9, <3>2 DEF RedeemRegistration, registerTokenFromL1, consumeRegisterTicket
  <2>10. ASSUME NEW m \in depositTickets, RedeemDeposit(m)
         PROVE  TypeOK'
    <3>1. m.token \in L1Tokens /\ m.from \in Users /\ m.to \in Users /\ m.amount \in Nat
      BY DEF DepositTicket
    <3>2. CASE creditDeposit(m)
      <4>1. l1ToL2Token_L2[m.token] \in L2Tokens
        BY <3>1, <3>2 DEF creditDeposit, isValidTokenAddress, isContract, L2Addresses
      <4>2. l2Balance' \in [L2Tokens \X Users -> Nat]
        BY <3>1, <3>2, <4>1 DEF creditDeposit
      <4> QED  BY <2>10, <3>2, <4>2 DEF RedeemDeposit, creditDeposit, consumeDepositTicket
    <3>3. CASE bounceDeposit(m)
      <4>1. outbox' \subseteq ExitMessage /\ exitNum' \in Nat
        BY <3>1, <3>3 DEF bounceDeposit, triggerWithdrawal, sendTxToL1, bounceTarget,
                         nextExitNum, ExitMessage
      <4> QED  BY <2>10, <3>3, <4>1
               DEF RedeemDeposit, bounceDeposit, consumeDepositTicket, triggerWithdrawal, sendTxToL1
    <3> QED  BY <2>10, <3>2, <3>3 DEF RedeemDeposit, L2_finalizeInboundTransfer
  <2>11. ASSUME NEW t \in L1Tokens, NEW from \in Users, NEW to \in Users, NEW a \in WithdrawAmounts,
                Withdraw(t, from, to, a)
         PROVE  TypeOK'
    <3>1. l1ToL2Token_L2[t] \in L2Tokens /\ a \in Nat
      BY <2>11 DEF Withdraw, outboundTransfer, isContract, L2Addresses
    <3>2. l2Balance' \in [L2Tokens \X Users -> Nat]
      BY <2>11, <3>1 DEF Withdraw, outboundTransfer
    <3>3. outbox' \subseteq ExitMessage /\ exitNum' \in Nat
      BY <2>11, <3>1 DEF Withdraw, outboundTransfer, triggerWithdrawal, sendTxToL1,
                        nextExitNum, ExitMessage
    <3> QED  BY <2>11, <3>2, <3>3 DEF Withdraw, outboundTransfer, triggerWithdrawal, sendTxToL1
  <2>12. ASSUME NEW m \in depositTickets, DropDeposit(m)
         PROVE  TypeOK'
    <3>1. m.token \in L1Tokens /\ m.amount \in Nat
      BY DEF DepositTicket
    <3>2. surplus' \in [L1Tokens -> Nat]
      BY <2>12, <3>1 DEF DropDeposit
    <3> QED  BY <2>12, <3>2 DEF DropDeposit, consumeDepositTicket
  <2>13. ASSUME NEW m \in registerTickets, DropRegistration(m)
         PROVE  TypeOK'
    BY <2>13 DEF DropRegistration, consumeRegisterTicket
  <2>14. CASE UNCHANGED vars
    BY <2>14 DEF vars
  <2> QED  BY <2>1, <2>2, <2>3, <2>4, <2>5, <2>6, <2>7, <2>8, <2>9, <2>10, <2>11, <2>12,
              <2>13, <2>14 DEF Next
<1> QED  BY <1>1, <1>2, PTL DEF Spec

-----------------------------------------------------------------------------
\* Message identifiers are never reused and addresses without code hold no
\* balances: the facts that let amounts in flight be added up.
THEOREM BookkeepingHolds == Spec => []Bookkeeping
<1>1. Init => Bookkeeping
  BY FS_EmptySet DEF Init, MessagingInit, L2Init, Bookkeeping
<1>2. TypeOK /\ Bookkeeping /\ [Next]_vars => Bookkeeping'
  <2> SUFFICES ASSUME TypeOK, Bookkeeping, [Next]_vars PROVE Bookkeeping'
    OBVIOUS
  <2> USE DEF Bookkeeping, ticketVars, outboxVars, l1Vars, l2Vars, history
  <2>t. /\ seqNum \in Nat /\ exitNum \in Nat
        /\ \A m \in depositTickets : m.id \in Nat
        /\ \A e \in outbox \cup spent : e.exitNum \in Nat
        /\ l2Balance \in [L2Tokens \X Users -> Nat]
        /\ l1Address \in [L2Tokens -> L1Tokens \cup {NoCode, NotArbToken}]
        /\ l1ToL2Token_L2 \in [L1Tokens -> L2Addresses]
    BY DEF TypeOK, MessagingTypeOK, L2TypeOK, DepositTicket, ExitMessage
  <2>1. ASSUME NEW t \in L1Tokens, NEW from \in Users, NEW to \in Users, NEW a \in Amounts,
               Deposit(t, from, to, a)
        PROVE  Bookkeeping'
    <3>1. IsFiniteSet(depositTickets')
      BY <2>1, FS_AddElement DEF Deposit, outboundTransferCustomRefund, sendDepositTicket
    <3>2. \A m \in depositTickets' : m.id < seqNum'
      BY <2>1, <2>t DEF Deposit, outboundTransferCustomRefund, sendDepositTicket
    <3> QED  BY <2>1, <3>1, <3>2 DEF Deposit, outboundTransferCustomRefund
  <2>2. ASSUME NEW t \in L1Tokens, NEW from \in Users, NEW a \in Amounts, Donate(t, from, a)
        PROVE  Bookkeeping'
    BY <2>2 DEF Donate, donate
  <2>3. ASSUME NEW t \in L1Tokens, NEW x \in L2Addresses, Register(t, x)
        PROVE  Bookkeeping'
    BY <2>3, <2>t DEF Register, registerTokenToL2, sendRegisterTicket
  <2>4. ASSUME NEW sender \in Admins, NEW mapping \in Registrations,
               ForceRegister(sender, mapping)
        PROVE  Bookkeeping'
    BY <2>4, <2>t DEF ForceRegister, forceRegisterTokenToL2, sendRegisterTicket
  <2>5. ASSUME NEW sender \in Admins, NEW newOwner \in Admins, SetOwner(sender, newOwner)
        PROVE  Bookkeeping'
    BY <2>5 DEF SetOwner, setOwner
  <2>6. ASSUME NEW sender \in Users, NEW n \in TradedExits, NEW u \in Users, NEW newTo \in Users,
               TransferExit(sender, n, u, newTo)
        PROVE  Bookkeeping'
    BY <2>6 DEF TransferExit, transferExitAndCall
  <2>7. ASSUME NEW e \in outbox, FinalizeWithdrawal(e)
        PROVE  Bookkeeping'
    <3>1. IsFiniteSet(outbox')
      BY <2>7, FS_RemoveElement DEF FinalizeWithdrawal, L1_finalizeInboundTransfer, executeExit
    <3> QED  BY <2>7, <3>1 DEF FinalizeWithdrawal, L1_finalizeInboundTransfer, executeExit
  <2>8. ASSUME NEW x \in L2Tokens, NEW a \in L1Tokens \cup {NotArbToken}, DeployToken(x, a)
        PROVE  Bookkeeping'
    BY <2>8, <2>t DEF DeployToken, deployL2Token
  <2>9. ASSUME NEW m \in registerTickets, RedeemRegistration(m)
        PROVE  Bookkeeping'
    BY <2>9 DEF RedeemRegistration, registerTokenFromL1, consumeRegisterTicket
  <2>10. ASSUME NEW m \in depositTickets, RedeemDeposit(m)
         PROVE  Bookkeeping'
    <3>1. IsFiniteSet(depositTickets')
      BY <2>10, FS_RemoveElement
         DEF RedeemDeposit, L2_finalizeInboundTransfer, creditDeposit, bounceDeposit,
             consumeDepositTicket
    <3>2. CASE creditDeposit(m)
      <4>1. /\ isValidTokenAddress(m.token, l1ToL2Token_L2[m.token])
            /\ m.token \in L1Tokens /\ m.to \in Users
        BY <3>2 DEF creditDeposit, TypeOK, MessagingTypeOK, DepositTicket
      <4>2. l1Address[l1ToL2Token_L2[m.token]] # NoCode
        BY <4>1 DEF isValidTokenAddress, isContract
      <4>3. \A p \in L2Tokens \X Users : l1Address'[p[1]] = NoCode => l2Balance'[p] = 0
        BY <2>t, <3>2, <4>2 DEF creditDeposit
      <4> QED  BY <2>10, <3>1, <3>2, <4>3 DEF RedeemDeposit, creditDeposit, consumeDepositTicket
    <3>3. CASE bounceDeposit(m)
      <4>1. IsFiniteSet(outbox')
        BY <3>3, FS_AddElement DEF bounceDeposit, triggerWithdrawal, sendTxToL1
      <4>2. \A e \in outbox' \cup spent' : e.exitNum < exitNum'
        BY <2>t, <3>3 DEF bounceDeposit, triggerWithdrawal, sendTxToL1, nextExitNum
      <4> QED  BY <2>10, <3>1, <3>3, <4>1, <4>2 DEF RedeemDeposit, bounceDeposit, consumeDepositTicket
    <3> QED  BY <2>10, <3>2, <3>3 DEF RedeemDeposit, L2_finalizeInboundTransfer
  <2>11. ASSUME NEW t \in L1Tokens, NEW from \in Users, NEW to \in Users, NEW a \in WithdrawAmounts,
                Withdraw(t, from, to, a)
         PROVE  Bookkeeping'
    <3>1. IsFiniteSet(outbox')
      BY <2>11, FS_AddElement DEF Withdraw, outboundTransfer, triggerWithdrawal, sendTxToL1
    <3>2. \A e \in outbox' \cup spent' : e.exitNum < exitNum'
      BY <2>t, <2>11 DEF Withdraw, outboundTransfer, triggerWithdrawal, sendTxToL1, nextExitNum
    <3>3. l1Address[l1ToL2Token_L2[t]] # NoCode
      BY <2>11 DEF Withdraw, outboundTransfer, isContract
    <3>4. \A p \in L2Tokens \X Users : l1Address'[p[1]] = NoCode => l2Balance'[p] = 0
      BY <2>t, <2>11, <3>3 DEF Withdraw, outboundTransfer
    <3> QED  BY <2>11, <3>1, <3>2, <3>4 DEF Withdraw, outboundTransfer
  <2>12. ASSUME NEW m \in depositTickets, DropDeposit(m)
         PROVE  Bookkeeping'
    <3>1. IsFiniteSet(depositTickets')
      BY <2>12, FS_RemoveElement DEF DropDeposit, consumeDepositTicket
    <3> QED  BY <2>12, <3>1 DEF DropDeposit, consumeDepositTicket
  <2>13. ASSUME NEW m \in registerTickets, DropRegistration(m)
         PROVE  Bookkeeping'
    BY <2>13 DEF DropRegistration, consumeRegisterTicket
  <2>14. CASE UNCHANGED vars
    BY <2>14 DEF vars
  <2> QED  BY <2>1, <2>2, <2>3, <2>4, <2>5, <2>6, <2>7, <2>8, <2>9, <2>10, <2>11, <2>12,
              <2>13, <2>14 DEF Next
<1> QED  BY <1>1, <1>2, TypeCorrect, PTL DEF Spec

-----------------------------------------------------------------------------
\* The parts of a claim, and a claim, are natural numbers.
LEMMA ClaimsType ==
  ASSUME TypeOK, Bookkeeping, NEW t \in L1Tokens
  PROVE  /\ IsFiniteSet(HoldersOf(t)) /\ Minted(t) \in Nat
         /\ TotalAmount(About(depositTickets, t)) \in Nat
         /\ TotalAmount(About(outbox, t)) \in Nat
         /\ Claims(t) \in Nat
<1>1. IsFiniteSet(HoldersOf(t)) /\ HoldersOf(t) \subseteq L2Tokens \X Users
  <2>1. IsFiniteSet(L2Tokens \X Users)
    BY FS_Product
  <2> QED  BY <2>1, FS_Subset DEF HoldersOf
<1>2. \A p \in HoldersOf(t) : l2Balance[p] \in Nat
  BY <1>1 DEF TypeOK, L2TypeOK
<1>3. Minted(t) \in Nat
  BY <1>1, <1>2, TallyType DEF Minted
<1>4. TotalAmount(About(depositTickets, t)) \in Nat
  <2>1. IsFiniteSet(About(depositTickets, t))
    BY FS_Subset DEF Bookkeeping, About
  <2>2. \A m \in About(depositTickets, t) : m.amount \in Nat
    BY DEF TypeOK, MessagingTypeOK, DepositTicket, About
  <2> QED  BY <2>1, <2>2, TotalAmountType
<1>5. TotalAmount(About(outbox, t)) \in Nat
  <2>1. IsFiniteSet(About(outbox, t))
    BY FS_Subset DEF Bookkeeping, About
  <2>2. \A m \in About(outbox, t) : m.amount \in Nat
    BY DEF TypeOK, MessagingTypeOK, ExitMessage, About
  <2> QED  BY <2>1, <2>2, TotalAmountType
<1> QED  BY <1>1, <1>3, <1>4, <1>5 DEF Claims

\* A balance of token x counts for the L1 token that x answers.
LEMMA MintedUpdate ==
  ASSUME TypeOK, TypeOK', Bookkeeping, NEW t \in L1Tokens,
         NEW x \in L2Tokens, NEW u \in Users, NEW n \in Nat,
         l2Balance' = [l2Balance EXCEPT ![<<x, u>>] = n], UNCHANGED l1Address
  PROVE  IF l1Address[x] = t
         THEN Minted(t)' + l2Balance[<<x, u>>] = Minted(t) + n
         ELSE Minted(t)' = Minted(t)
<1>1. HoldersOf(t)' = HoldersOf(t) /\ HoldersOf(t) \subseteq L2Tokens \X Users
  BY DEF HoldersOf
<1>2. IsFiniteSet(HoldersOf(t))
  BY ClaimsType
<1>3. /\ \A p \in HoldersOf(t) : l2Balance[p] \in Nat /\ l2Balance'[p] \in Nat
      /\ \A p \in HoldersOf(t) \ {<<x, u>>} : l2Balance'[p] = l2Balance[p]
      /\ l2Balance'[<<x, u>>] = n
  BY <1>1 DEF TypeOK, L2TypeOK
<1>4. CASE l1Address[x] = t
  <2>1. <<x, u>> \in HoldersOf(t)
    BY <1>4 DEF HoldersOf
  <2>2. Tally(l2Balance', HoldersOf(t)) + l2Balance[<<x, u>>]
          = Tally(l2Balance, HoldersOf(t)) + l2Balance'[<<x, u>>]
    <3> DEFINE S == HoldersOf(t)
               f == l2Balance
               g == l2Balance'
               p == <<x, u>>
    <3>1. /\ IsFiniteSet(S) /\ p \in S
          /\ \A s \in S : f[s] \in Nat
          /\ \A s \in S : g[s] \in Nat
          /\ \A s \in S \ {p} : g[s] = f[s]
      BY <1>2, <1>3, <2>1
    <3> HIDE DEF S, f, g, p
    <3>2. Tally(g, S) + f[p] = Tally(f, S) + g[p]
      BY <3>1, TallyUpdate
    <3> QED  BY <3>2 DEF S, f, g, p
  <2> QED  BY <1>1, <1>3, <1>4, <2>2 DEF Minted
<1>5. CASE l1Address[x] # t
  <2>1. \A p \in HoldersOf(t) : l2Balance'[p] = l2Balance[p]
    BY <1>3, <1>5 DEF HoldersOf
  <2>2. Tally(l2Balance', HoldersOf(t)) = Tally(l2Balance, HoldersOf(t))
    BY <2>1, TallyAgree
  <2> QED  BY <1>1, <1>5, <2>2 DEF Minted
<1> QED  BY <1>4, <1>5

\* Steps that touch neither balances nor messages leave every claim alone.
LEMMA ClaimsFrame ==
  ASSUME UNCHANGED <<l1Address, l2Balance, depositTickets, outbox>>, NEW t \in L1Tokens
  PROVE  Claims(t)' = Claims(t)
BY DEF Claims, Minted, HoldersOf

\* A message sent is new: its identifier was not in use.
LEMMA NewTicket ==
  ASSUME TypeOK, Bookkeeping, NEW m, m.id = seqNum
  PROVE  m \notin depositTickets
BY DEF Bookkeeping, TypeOK, MessagingTypeOK

LEMMA NewExit ==
  ASSUME TypeOK, Bookkeeping, NEW e, e.exitNum = exitNum
  PROVE  e \notin outbox \cup spent
BY DEF Bookkeeping, TypeOK, L2TypeOK

\* Bridge steps seen as steps of the canonical bridge.
CanonicalStep == Canonical!Next \/ UNCHANGED Canonical!vars

\* A deposit creates as many claims as it locks units.
LEMMA DepositLocks ==
  ASSUME TypeOK, TypeOK', Bookkeeping,
         NEW t \in L1Tokens, NEW from \in Users, NEW to \in Users, NEW a \in Amounts,
         Deposit(t, from, to, a)
  PROVE  CanonicalStep
<1> USE DEF l2Vars, history, outboxVars
<1> DEFINE r == received(t, a)
           m == [id |-> seqNum, token |-> t, from |-> from, to |-> to, amount |-> r]
<1>1. r \in Nat /\ r \in 0 .. MaxAmount
  BY AmountsType, ReceivedType
<1>2. escrow \in [L1Tokens -> Nat] /\ amountReceived(t, a) = r
  BY <1>1 DEF TypeOK, L1TypeOK, amountReceived
<1>3. depositTickets' = depositTickets \cup {m}
  BY <1>2 DEF Deposit, outboundTransferCustomRefund, sendDepositTicket
<1>4. m \notin depositTickets
  BY NewTicket
<1>5. IsFiniteSet(depositTickets) /\ (\A d \in depositTickets : d.amount \in Nat)
  BY DEF Bookkeeping, TypeOK, MessagingTypeOK, DepositTicket
<1>6. ASSUME NEW s \in L1Tokens
      PROVE  Claims(s)' = IF s = t THEN Claims(s) + r ELSE Claims(s)
  <2>1. TotalAmount(About(depositTickets \cup {m}, s)) =
          TotalAmount(About(depositTickets, s)) + (IF m.token = s THEN m.amount ELSE 0)
    BY <1>1, <1>4, <1>5, SendOneToken
  <2>2. Minted(s)' = Minted(s) /\ outbox' = outbox
    BY DEF Minted, HoldersOf, Deposit, outboundTransferCustomRefund
  <2>3. Claims(s)' = Minted(s) + TotalAmount(About(depositTickets \cup {m}, s))
                       + TotalAmount(About(outbox, s))
    BY <1>3, <2>2 DEF Claims
  <2> QED  BY <1>1, <2>1, <2>3, ClaimsType DEF Claims
<1>7. Canonical!Lock(t, r)
  BY <1>6 DEF Deposit, outboundTransferCustomRefund, Canonical!Lock
<1> QED  BY <1>1, <1>7 DEF CanonicalStep, Canonical!Next

\* Tokens sent to the gateway directly are surplus.
LEMMA DonateIsSurplus ==
  ASSUME TypeOK, NEW t \in L1Tokens, NEW from \in Users, NEW a \in Amounts, Donate(t, from, a)
  PROVE  CanonicalStep
<1> USE DEF l2Vars, ticketVars, outboxVars
<1>1. received(t, a) \in 0 .. MaxAmount
  BY AmountsType, ReceivedType
<1>2. \A s \in L1Tokens : Claims(s)' = Claims(s)
  BY ClaimsFrame DEF Donate, donate
<1>3. Canonical!Donate(t, received(t, a))
  BY <1>2 DEF Donate, donate, Canonical!Donate
<1> QED  BY <1>1, <1>3 DEF CanonicalStep, Canonical!Next

\* A withdrawal executed on L1 extinguishes the claim it pays.
LEMMA FinalizeReleases ==
  ASSUME TypeOK, Bookkeeping, NEW e \in outbox, FinalizeWithdrawal(e)
  PROVE  CanonicalStep
<1> USE DEF l2Vars, ticketVars, history
<1>1. e.token \in L1Tokens /\ e.amount \in Nat
  BY DEF TypeOK, MessagingTypeOK, ExitMessage
<1>2. IsFiniteSet(outbox) /\ (\A d \in outbox : d.amount \in Nat)
  BY DEF Bookkeeping, TypeOK, MessagingTypeOK, ExitMessage
<1>3. ASSUME NEW s \in L1Tokens
      PROVE  /\ Claims(s)' \in Nat
             /\ Claims(s) = Claims(s)' + (IF s = e.token THEN e.amount ELSE 0)
  <2>1. /\ TotalAmount(About(outbox, s)) =
             TotalAmount(About(outbox \ {e}, s)) + (IF e.token = s THEN e.amount ELSE 0)
        /\ TotalAmount(About(outbox \ {e}, s)) \in Nat
    BY <1>2, ConsumeOneToken
  <2>2. Claims(s)' = Minted(s) + TotalAmount(About(depositTickets, s))
                       + TotalAmount(About(outbox \ {e}, s))
    BY DEF Claims, Minted, HoldersOf, FinalizeWithdrawal, L1_finalizeInboundTransfer, executeExit
  <2> QED  BY <1>1, <2>1, <2>2, ClaimsType DEF Claims
<1>4. e.amount \in 0 .. Claims(e.token)
  BY <1>1, <1>3
<1>5. Canonical!Release(e.token, e.amount)
  <2>1. [t \in L1Tokens |-> Claims(t)]' =
          [[t \in L1Tokens |-> Claims(t)] EXCEPT ![e.token] = @ - e.amount]
    BY <1>1, <1>3, ClaimsType
  <2> QED  BY <2>1 DEF FinalizeWithdrawal, L1_finalizeInboundTransfer, Canonical!Release
<1>6. \E a \in 0 .. [t \in L1Tokens |-> Claims(t)][e.token] : Canonical!Release(e.token, a)
  BY <1>1, <1>4, <1>5
<1> QED  BY <1>1, <1>6 DEF CanonicalStep, Canonical!Next

\* A deposit that is dropped leaves its units behind as surplus.
LEMMA DropAbandons ==
  ASSUME TypeOK, Bookkeeping, NEW m \in depositTickets, DropDeposit(m)
  PROVE  CanonicalStep
<1> USE DEF l1Vars, l2Vars, outboxVars
<1>1. m.token \in L1Tokens /\ m.amount \in Nat
  BY DEF TypeOK, MessagingTypeOK, DepositTicket
<1>2. IsFiniteSet(depositTickets) /\ (\A d \in depositTickets : d.amount \in Nat)
  BY DEF Bookkeeping, TypeOK, MessagingTypeOK, DepositTicket
<1>3. ASSUME NEW s \in L1Tokens
      PROVE  /\ Claims(s)' \in Nat
             /\ Claims(s) = Claims(s)' + (IF s = m.token THEN m.amount ELSE 0)
  <2>1. /\ TotalAmount(About(depositTickets, s)) =
             TotalAmount(About(depositTickets \ {m}, s)) + (IF m.token = s THEN m.amount ELSE 0)
        /\ TotalAmount(About(depositTickets \ {m}, s)) \in Nat
    BY <1>2, ConsumeOneToken
  <2>2. Claims(s)' = Minted(s) + TotalAmount(About(depositTickets \ {m}, s))
                       + TotalAmount(About(outbox, s))
    BY DEF Claims, Minted, HoldersOf, DropDeposit, consumeDepositTicket
  <2> QED  BY <1>1, <2>1, <2>2, ClaimsType DEF Claims
<1>4. m.amount \in 0 .. Claims(m.token)
  BY <1>1, <1>3
<1>5. Canonical!Abandon(m.token, m.amount)
  <2>1. [t \in L1Tokens |-> Claims(t)]' =
          [[t \in L1Tokens |-> Claims(t)] EXCEPT ![m.token] = @ - m.amount]
    BY <1>1, <1>3, ClaimsType
  <2> QED  BY <2>1 DEF DropDeposit, Canonical!Abandon
<1>6. \E a \in 0 .. [t \in L1Tokens |-> Claims(t)][m.token] : Canonical!Abandon(m.token, a)
  BY <1>1, <1>4, <1>5
<1> QED  BY <1>1, <1>6 DEF CanonicalStep, Canonical!Next

\* Crediting a deposit or sending it back leaves every claim as large.
LEMMA RedeemKeepsClaims ==
  ASSUME TypeOK, TypeOK', Bookkeeping, NEW m \in depositTickets, RedeemDeposit(m)
  PROVE  CanonicalStep
<1> USE DEF l1Vars, l2Vars, history, outboxVars
<1>1. m.token \in L1Tokens /\ m.to \in Users /\ m.amount \in Nat
  BY DEF TypeOK, MessagingTypeOK, DepositTicket
<1>2. IsFiniteSet(depositTickets) /\ (\A d \in depositTickets : d.amount \in Nat)
  BY DEF Bookkeeping, TypeOK, MessagingTypeOK, DepositTicket
<1>3. ASSUME NEW s \in L1Tokens PROVE Claims(s)' = Claims(s)
  <2>1. depositTickets' = depositTickets \ {m}
    BY DEF RedeemDeposit, L2_finalizeInboundTransfer, creditDeposit, bounceDeposit,
           consumeDepositTicket
  <2>2. /\ TotalAmount(About(depositTickets, s)) =
             TotalAmount(About(depositTickets \ {m}, s)) + (IF m.token = s THEN m.amount ELSE 0)
        /\ TotalAmount(About(depositTickets \ {m}, s)) \in Nat
    BY <1>2, ConsumeOneToken
  <2>3. CASE creditDeposit(m)
    <3> DEFINE x == l1ToL2Token_L2[m.token]
               b == l2Balance[<<x, m.to>>]
    <3>1. x \in L2Tokens /\ l1Address[x] = m.token
      BY <1>1, <2>3 DEF creditDeposit, isValidTokenAddress, isContract, L2Addresses,
                       TypeOK, L2TypeOK
    <3>2. b \in Nat
      BY <1>1, <3>1 DEF TypeOK, L2TypeOK
    <3>3. l2Balance' = [l2Balance EXCEPT ![<<x, m.to>>] = b + m.amount] /\ UNCHANGED l1Address
      BY <2>3 DEF creditDeposit
    <3>4. IF l1Address[x] = s THEN Minted(s)' + b = Minted(s) + (b + m.amount)
                              ELSE Minted(s)' = Minted(s)
      <4>1. b + m.amount \in Nat
        BY <1>1, <3>2
      <4> HIDE DEF x
      <4> QED  BY <1>1, <3>1, <3>3, <4>1, MintedUpdate
    <3>5. Minted(s)' \in Nat /\ Minted(s)' = Minted(s) + (IF m.token = s THEN m.amount ELSE 0)
      <4>1. Minted(s)' \in Nat
        <5>1. HoldersOf(s)' = HoldersOf(s) /\ HoldersOf(s) \subseteq L2Tokens \X Users
          BY <3>3 DEF HoldersOf
        <5>2. IsFiniteSet(HoldersOf(s)) /\ (\A p \in HoldersOf(s) : l2Balance'[p] \in Nat)
          BY <5>1, ClaimsType DEF TypeOK, L2TypeOK
        <5>3. Tally(l2Balance', HoldersOf(s)) \in Nat
          BY <5>2, TallyType
        <5> QED  BY <5>1, <5>3 DEF Minted
      <4>2. Minted(s) \in Nat
        BY ClaimsType
      <4>3. CASE m.token = s
        <5>1. Minted(s)' + b = Minted(s) + (b + m.amount)
          BY <3>1, <3>4, <4>3
        <5> HIDE DEF b
        <5> QED  BY <1>1, <3>2, <4>1, <4>2, <4>3, <5>1
      <4>4. CASE m.token # s
        <5>1. Minted(s)' = Minted(s)
          BY <3>1, <3>4, <4>4
        <5> QED  BY <4>2, <4>4, <5>1
      <4> QED  BY <4>3, <4>4
    <3>6. Claims(s)' = Minted(s)' + TotalAmount(About(depositTickets \ {m}, s))
                         + TotalAmount(About(outbox, s))
      BY <2>1, <2>3 DEF Claims, creditDeposit
    <3> HIDE DEF x, b
    <3> QED  BY <1>1, <2>2, <3>5, <3>6, ClaimsType DEF Claims
  <2>4. CASE bounceDeposit(m)
    <3> DEFINE e == [exitNum |-> exitNum, token |-> m.token, to |-> m.from, amount |-> m.amount]
    <3>1. outbox' = outbox \cup {e}
      BY <2>4 DEF bounceDeposit, triggerWithdrawal, sendTxToL1, bounceTarget
    <3>2. e \notin outbox /\ IsFiniteSet(outbox) /\ (\A d \in outbox : d.amount \in Nat)
      BY NewExit DEF Bookkeeping, TypeOK, MessagingTypeOK, ExitMessage
    <3>3. TotalAmount(About(outbox \cup {e}, s)) =
            TotalAmount(About(outbox, s)) + (IF e.token = s THEN e.amount ELSE 0)
      BY <1>1, <3>2, SendOneToken
    <3>4. Minted(s)' = Minted(s)
      BY <2>4 DEF Minted, HoldersOf, bounceDeposit
    <3>5. Claims(s)' = Minted(s) + TotalAmount(About(depositTickets \ {m}, s))
                         + TotalAmount(About(outbox \cup {e}, s))
      BY <2>1, <3>1, <3>4 DEF Claims
    <3> QED  BY <1>1, <2>2, <3>3, <3>5, ClaimsType DEF Claims
  <2> QED  BY <2>3, <2>4 DEF RedeemDeposit, L2_finalizeInboundTransfer
<1> QED  BY <1>3 DEF CanonicalStep, Canonical!vars, RedeemDeposit

\* A withdrawal turns an L2 balance into an exit of the same amount.
LEMMA WithdrawKeepsClaims ==
  ASSUME TypeOK, TypeOK', Bookkeeping,
         NEW t \in L1Tokens, NEW from \in Users, NEW to \in Users, NEW a \in WithdrawAmounts,
         Withdraw(t, from, to, a)
  PROVE  CanonicalStep
<1> USE DEF l1Vars, l2Vars, history, ticketVars
<1> DEFINE x == l1ToL2Token_L2[t]
           b == l2Balance[<<x, from>>]
           e == [exitNum |-> exitNum, token |-> t, to |-> to, amount |-> a]
<1>1. x \in L2Tokens /\ l1Address[x] = t /\ a \in Nat
  BY DEF Withdraw, outboundTransfer, isValidTokenAddress, isContract, L2Addresses,
         TypeOK, L2TypeOK
<1>2. b \in Nat /\ a <= b
  BY <1>1 DEF Withdraw, outboundTransfer, TypeOK, L2TypeOK
<1>3. l2Balance' = [l2Balance EXCEPT ![<<x, from>>] = b - a] /\ UNCHANGED l1Address
  BY DEF Withdraw, outboundTransfer
<1>4. outbox' = outbox \cup {e}
  BY DEF Withdraw, outboundTransfer, triggerWithdrawal, sendTxToL1
<1>5. e \notin outbox /\ IsFiniteSet(outbox) /\ (\A d \in outbox : d.amount \in Nat)
  BY NewExit DEF Bookkeeping, TypeOK, MessagingTypeOK, ExitMessage
<1>6. ASSUME NEW s \in L1Tokens PROVE Claims(s)' = Claims(s)
  <2>1. TotalAmount(About(outbox \cup {e}, s)) =
          TotalAmount(About(outbox, s)) + (IF e.token = s THEN e.amount ELSE 0)
    BY <1>1, <1>5, SendOneToken
  <2>2. IF l1Address[x] = s THEN Minted(s)' + b = Minted(s) + (b - a)
                            ELSE Minted(s)' = Minted(s)
    <3>1. b - a \in Nat
      BY <1>1, <1>2
    <3> HIDE DEF x
    <3> QED  BY <1>1, <1>3, <3>1, MintedUpdate
  <2>3. Minted(s)' \in Nat
    <3>1. HoldersOf(s)' = HoldersOf(s) /\ HoldersOf(s) \subseteq L2Tokens \X Users
      BY <1>3 DEF HoldersOf
    <3>2. IsFiniteSet(HoldersOf(s)) /\ (\A p \in HoldersOf(s) : l2Balance'[p] \in Nat)
      BY <3>1, ClaimsType DEF TypeOK, L2TypeOK
    <3>3. Tally(l2Balance', HoldersOf(s)) \in Nat
      BY <3>2, TallyType
    <3> QED  BY <3>1, <3>3 DEF Minted
  <2>4. Minted(s)' + (IF t = s THEN a ELSE 0) = Minted(s)
    <3>1. Minted(s) \in Nat
      BY ClaimsType
    <3> HIDE DEF x, b
    <3> QED  BY <1>1, <1>2, <2>2, <2>3, <3>1
  <2>5. Claims(s)' = Minted(s)' + TotalAmount(About(depositTickets, s))
                       + TotalAmount(About(outbox \cup {e}, s))
    BY <1>4 DEF Claims, Withdraw, outboundTransfer
  <2> HIDE DEF x, b
  <2> QED  BY <1>1, <2>1, <2>3, <2>4, <2>5, ClaimsType DEF Claims
<1> QED  BY <1>6 DEF CanonicalStep, Canonical!vars, Withdraw

\* Deploying a contract where there was no code brings no balances to life.
LEMMA DeployKeepsClaims ==
  ASSUME TypeOK, Bookkeeping, NEW x \in L2Tokens, NEW a \in L1Tokens \cup {NotArbToken},
         DeployToken(x, a)
  PROVE  CanonicalStep
<1> USE DEF l1Vars, l2Vars, history, ticketVars, outboxVars
<1>1. ASSUME NEW s \in L1Tokens PROVE Claims(s)' = Claims(s)
  <2>1. HoldersOf(s) \subseteq HoldersOf(s)'
    BY DEF DeployToken, deployL2Token, HoldersOf, TypeOK, L2TypeOK
  <2>2. \A p \in HoldersOf(s)' \ HoldersOf(s) : l2Balance[p] = 0
    BY DEF DeployToken, deployL2Token, HoldersOf, TypeOK, L2TypeOK, Bookkeeping
  <2>3. Tally(l2Balance, HoldersOf(s)') = Tally(l2Balance, HoldersOf(s))
    BY <2>1, <2>2, TallyZeros
  <2> QED  BY <2>3 DEF Claims, Minted, DeployToken, deployL2Token
<1> QED  BY <1>1 DEF CanonicalStep, Canonical!vars, DeployToken

\* Every step of the bridge is a step of the canonical bridge or a stutter.
LEMMA EveryStepIsCanonical ==
  ASSUME TypeOK, TypeOK', Bookkeeping, [Next]_vars
  PROVE  CanonicalStep
<1> USE DEF l1Vars, l2Vars, history, ticketVars, outboxVars
<1>0. ASSUME UNCHANGED <<l1Address, l2Balance, depositTickets, outbox, escrow, surplus>>
      PROVE  CanonicalStep
  <2>1. \A s \in L1Tokens : Claims(s)' = Claims(s)
    BY <1>0, ClaimsFrame
  <2> QED  BY <1>0, <2>1 DEF CanonicalStep, Canonical!vars
<1>3. ASSUME NEW t \in L1Tokens, NEW x \in L2Addresses, Register(t, x)
      PROVE  CanonicalStep
  BY <1>0, <1>3 DEF Register, registerTokenToL2, sendRegisterTicket
<1>4. ASSUME NEW sender \in Admins, NEW mapping \in Registrations, ForceRegister(sender, mapping)
      PROVE  CanonicalStep
  BY <1>0, <1>4 DEF ForceRegister, forceRegisterTokenToL2, sendRegisterTicket
<1>5. ASSUME NEW sender \in Admins, NEW newOwner \in Admins, SetOwner(sender, newOwner)
      PROVE  CanonicalStep
  BY <1>0, <1>5 DEF SetOwner, setOwner
<1>6. ASSUME NEW sender \in Users, NEW n \in TradedExits, NEW u \in Users, NEW newTo \in Users,
             TransferExit(sender, n, u, newTo)
      PROVE  CanonicalStep
  BY <1>0, <1>6 DEF TransferExit, transferExitAndCall
<1>9. ASSUME NEW m \in registerTickets, RedeemRegistration(m)
      PROVE  CanonicalStep
  BY <1>0, <1>9 DEF RedeemRegistration, registerTokenFromL1, consumeRegisterTicket
<1>13. ASSUME NEW m \in registerTickets, DropRegistration(m)
       PROVE  CanonicalStep
  BY <1>0, <1>13 DEF DropRegistration, consumeRegisterTicket
<1>14. CASE UNCHANGED vars
  BY <1>0, <1>14 DEF vars
<1> QED  BY <1>3, <1>4, <1>5, <1>6, <1>9, <1>13, <1>14, DepositLocks, DonateIsSurplus,
            FinalizeReleases, DeployKeepsClaims, RedeemKeepsClaims, WithdrawKeepsClaims,
            DropAbandons DEF Next

-----------------------------------------------------------------------------
\* The bridge implements the canonical bridge.
THEOREM Refinement == Spec => ImplementsCanonicalBridge
<1>1. Init => Canonical!Init
  <2> SUFFICES ASSUME Init PROVE Canonical!Init
    OBVIOUS
  <2>1. ASSUME NEW t \in L1Tokens PROVE Claims(t) = 0
    <3>1. /\ \A p \in HoldersOf(t) \ {} : l2Balance[p] = 0
          /\ {} \subseteq HoldersOf(t)
      BY DEF Init, L2Init, HoldersOf
    <3>2. Minted(t) = Tally(l2Balance, {})
      BY <3>1, TallyZeros DEF Minted
    <3>3. Tally(l2Balance, {}) = 0
      BY FS_EmptySet DEF Tally, Units
    <3>4. About(depositTickets, t) = {} /\ About(outbox, t) = {}
      BY DEF Init, MessagingInit, About
    <3>5. TotalAmount({}) = 0
      BY FS_EmptySet DEF TotalAmount, Tally, Units
    <3> QED  BY <3>2, <3>3, <3>4, <3>5 DEF Claims
  <2> QED  BY <2>1 DEF Canonical!Init, Init, L1Init
<1>2. TypeOK /\ TypeOK' /\ Bookkeeping /\ [Next]_vars => [Canonical!Next]_Canonical!vars
  BY EveryStepIsCanonical DEF CanonicalStep
<1> QED  BY <1>1, <1>2, TypeCorrect, BookkeepingHolds, PTL DEF Spec, ImplementsCanonicalBridge, Canonical!Spec

\* The gateway is solvent in every reachable state: the canonical bridge never
\* changes locked - claims - surplus, and it starts at zero.
THEOREM Solvency == Spec => []Solvent
<1> DEFINE claims == [t \in L1Tokens |-> Claims(t)]
           ClaimsNat == claims \in [L1Tokens -> Nat]
<1>1. Canonical!Init => Solvent
  BY DEF Canonical!Init, Solvent
<1>2. TypeOK /\ Bookkeeping => ClaimsNat
  BY ClaimsType
<1>3. TypeOK /\ ClaimsNat /\ ClaimsNat' /\ Solvent /\ [Canonical!Next]_Canonical!vars
        => Solvent'
  <2> SUFFICES ASSUME TypeOK, ClaimsNat, ClaimsNat', Solvent,
                      [Canonical!Next]_Canonical!vars, NEW s \in L1Tokens
               PROVE  escrow'[s] = claims'[s] + surplus'[s]
    BY DEF Solvent
  <2>1. /\ escrow[s] = claims[s] + surplus[s]
        /\ escrow \in [L1Tokens -> Nat] /\ surplus \in [L1Tokens -> Nat]
        /\ claims \in [L1Tokens -> Nat] /\ MaxAmount \in Nat
    BY DEF Solvent, TypeOK, L1TypeOK
  <2> HIDE DEF claims
  <2>2. ASSUME NEW t \in L1Tokens, NEW a \in 0 .. MaxAmount, Canonical!Lock(t, a)
        PROVE  escrow'[s] = claims'[s] + surplus'[s]
    <3>1. /\ escrow' = [escrow EXCEPT ![t] = @ + a]
          /\ claims' = [claims EXCEPT ![t] = @ + a]
          /\ surplus' = surplus
      BY <2>2 DEF Canonical!Lock, claims
    <3> QED  BY <2>1, <3>1
  <2>3. ASSUME NEW t \in L1Tokens, NEW a \in 0 .. MaxAmount, Canonical!Donate(t, a)
        PROVE  escrow'[s] = claims'[s] + surplus'[s]
    <3>1. /\ escrow' = [escrow EXCEPT ![t] = @ + a]
          /\ claims' = claims
          /\ surplus' = [surplus EXCEPT ![t] = @ + a]
      BY <2>3 DEF Canonical!Donate, claims
    <3> QED  BY <2>1, <3>1
  <2>4. ASSUME NEW t \in L1Tokens, NEW a \in 0 .. claims[t], Canonical!Release(t, a)
        PROVE  escrow'[s] = claims'[s] + surplus'[s]
    <3>1. /\ escrow' = [escrow EXCEPT ![t] = @ - a]
          /\ claims' = [claims EXCEPT ![t] = @ - a]
          /\ surplus' = surplus
      BY <2>4 DEF Canonical!Release, claims
    <3> QED  BY <2>1, <3>1
  <2>5. ASSUME NEW t \in L1Tokens, NEW a \in 0 .. claims[t], Canonical!Abandon(t, a)
        PROVE  escrow'[s] = claims'[s] + surplus'[s]
    <3>1. /\ escrow' = escrow
          /\ claims' = [claims EXCEPT ![t] = @ - a]
          /\ surplus' = [surplus EXCEPT ![t] = @ + a]
      BY <2>5 DEF Canonical!Abandon, claims
    <3> QED  BY <2>1, <3>1
  <2>6. CASE UNCHANGED Canonical!vars
    BY <2>1, <2>6 DEF Canonical!vars, claims
  <2> QED  BY <2>2, <2>3, <2>4, <2>5, <2>6 DEF Canonical!Next, claims
<1> HIDE DEF ClaimsNat
<1> QED  BY <1>1, <1>2, <1>3, TypeCorrect, BookkeepingHolds, Refinement, PTL
         DEF ImplementsCanonicalBridge, Canonical!Spec

\* The condition of finalizeInboundTransfer on escrow holds for every exit there
\* is.
ExitsPayable == \A e \in outbox : e.amount <= escrow[e.token]

\* No exit through the custom gateways, traded or not, made by a withdrawal or by
\* a deposit sent back, ever lacks the units to pay it with.
THEOREM ExitsCanBePaid == Spec => []ExitsPayable
<1>1. ASSUME TypeOK, Bookkeeping, Solvent, NEW e \in outbox
      PROVE  e.amount <= escrow[e.token]
  <2> DEFINE t == e.token
  <2>1. /\ t \in L1Tokens /\ e.amount \in Nat /\ surplus[t] \in Nat
        /\ IsFiniteSet(outbox) /\ \A d \in outbox : d.amount \in Nat
    BY <1>1 DEF Bookkeeping, TypeOK, MessagingTypeOK, ExitMessage
  <2>2. /\ TotalAmount(About(outbox, t)) = TotalAmount(About(outbox \ {e}, t)) + e.amount
        /\ TotalAmount(About(outbox \ {e}, t)) \in Nat
    BY <2>1, ConsumeOneToken
  <2>3. /\ Minted(t) \in Nat /\ TotalAmount(About(depositTickets, t)) \in Nat
        /\ escrow[t] = Claims(t) + surplus[t]
    BY <1>1, <2>1, ClaimsType DEF Solvent
  <2> HIDE DEF t
  <2>4. e.amount <= escrow[t]
    BY <2>1, <2>2, <2>3 DEF Claims
  <2> QED  BY <2>4 DEF t
<1>2. TypeOK /\ Bookkeeping /\ Solvent => ExitsPayable
  BY <1>1 DEF ExitsPayable
<1> QED  BY <1>2, TypeCorrect, BookkeepingHolds, Solvency, PTL

-----------------------------------------------------------------------------
(* Exit numbers, tradeable exits and registrations *)

\* Exit numbers are unique over all exits, executed or not: the assumption
\* encodeWithdrawal makes of the L2 gateway.
THEOREM ExitNumbers == Spec => []ExitNumsUnique
<1>1. Init => ExitNumsUnique
  BY DEF Init, MessagingInit, ExitNumsUnique
<1>2. TypeOK /\ Bookkeeping /\ ExitNumsUnique /\ [Next]_vars => ExitNumsUnique'
  <2> SUFFICES ASSUME TypeOK, Bookkeeping, ExitNumsUnique, [Next]_vars PROVE ExitNumsUnique'
    OBVIOUS
  <2> USE DEF ticketVars, outboxVars, l1Vars, l2Vars, history
  <2>1. ASSUME UNCHANGED outboxVars PROVE ExitNumsUnique'
    BY <2>1 DEF ExitNumsUnique
  <2>2. ASSUME NEW n \in Nat, n = exitNum, NEW t, NEW to, NEW a, sendTxToL1(n, t, to, a)
        PROVE  ExitNumsUnique'
    <3> DEFINE e == [exitNum |-> n, token |-> t, to |-> to, amount |-> a]
    <3>1. \A f \in outbox \cup spent : f.exitNum # n
      BY <2>2 DEF Bookkeeping, TypeOK, MessagingTypeOK, ExitMessage
    <3>2. outbox' = outbox \cup {e} /\ spent' = spent /\ e.exitNum = n
      BY <2>2 DEF sendTxToL1
    <3> HIDE DEF e
    <3> QED  BY <3>1, <3>2 DEF ExitNumsUnique
  <2>3. ASSUME NEW e \in outbox, FinalizeWithdrawal(e)
        PROVE  ExitNumsUnique'
    <3>1. outbox' = outbox \ {e} /\ spent' = spent \cup {e}
      BY <2>3 DEF FinalizeWithdrawal, L1_finalizeInboundTransfer, executeExit
    <3> QED  BY <3>1 DEF ExitNumsUnique
  <2>4. ASSUME NEW m \in depositTickets, RedeemDeposit(m)
        PROVE  ExitNumsUnique'
    <3>1. CASE creditDeposit(m)
      BY <2>1, <3>1 DEF creditDeposit
    <3>2. CASE bounceDeposit(m)
      BY <2>2, <3>2 DEF bounceDeposit, triggerWithdrawal, TypeOK, L2TypeOK
    <3> QED  BY <2>4, <3>1, <3>2 DEF RedeemDeposit, L2_finalizeInboundTransfer
  <2>5. ASSUME NEW t \in L1Tokens, NEW from \in Users, NEW to \in Users, NEW a \in WithdrawAmounts,
               Withdraw(t, from, to, a)
        PROVE  ExitNumsUnique'
    BY <2>2, <2>5 DEF Withdraw, outboundTransfer, triggerWithdrawal, TypeOK, L2TypeOK
  <2>6. CASE UNCHANGED vars
    BY <2>1, <2>6 DEF vars
  <2> QED
    BY <2>1, <2>3, <2>4, <2>5, <2>6
    DEF Next, Deposit, outboundTransferCustomRefund, Donate, donate, Register, registerTokenToL2,
        ForceRegister, forceRegisterTokenToL2, SetOwner, setOwner, TransferExit,
        transferExitAndCall, DeployToken, deployL2Token, RedeemRegistration,
        registerTokenFromL1, DropDeposit, DropRegistration
<1> QED  BY <1>1, <1>2, TypeCorrect, BookkeepingHolds, PTL DEF Spec

-----------------------------------------------------------------------------
\* An exit leaves a set of users only if one of them passes it on.
THEOREM ExitTrading == Spec => []OnlyHoldersTradeExits
<1>1. Init => OnlyHoldersTradeExits
  BY DEF Init, L1Init, OnlyHoldersTradeExits, getExternalCall
<1>2. OnlyHoldersTradeExits /\ [Next]_vars => OnlyHoldersTradeExits'
  <2> SUFFICES ASSUME OnlyHoldersTradeExits, [Next]_vars PROVE OnlyHoldersTradeExits'
    OBVIOUS
  <2> USE DEF ticketVars, outboxVars, l1Vars, l2Vars, history
  <2>1. ASSUME UNCHANGED <<redirectedExits, trades>> PROVE OnlyHoldersTradeExits'
    BY <2>1 DEF OnlyHoldersTradeExits, getExternalCall
  <2>2. ASSUME NEW sender \in Users, NEW n \in TradedExits, NEW u \in Users, NEW newTo \in Users,
               TransferExit(sender, n, u, newTo)
        PROVE  OnlyHoldersTradeExits'
    <3> SUFFICES ASSUME NEW k \in TradedExits, NEW v \in Users, NEW S \in SUBSET Users,
                        v \in S,
                        \A a \in S, b \in Users : <<k, a, b>> \in trades' => b \in S
                 PROVE  getExternalCall(k, v)' \in S
      BY DEF OnlyHoldersTradeExits
    <3>1. trades' = trades \cup {<<n, sender, newTo>>} /\ sender = getExternalCall(n, u)
      BY <2>2 DEF TransferExit, transferExitAndCall
    <3>2. getExternalCall(k, v) \in S
      BY <3>1 DEF OnlyHoldersTradeExits
    <3>3. CASE k = n /\ v = u
      <4>1. getExternalCall(k, v)' = newTo
        BY <2>2, <3>3 DEF TransferExit, transferExitAndCall, getExternalCall
      <4> QED  BY <3>1, <3>2, <3>3, <4>1
    <3>4. CASE ~ (k = n /\ v = u)
      <4>1. <<k, v>> # <<n, u>>
        BY <3>4
      <4>2. getExternalCall(k, v)' = getExternalCall(k, v)
        BY <2>2, <4>1 DEF TransferExit, transferExitAndCall, getExternalCall
      <4> QED  BY <3>2, <4>2
    <3> QED  BY <3>3, <3>4
  <2>3. CASE UNCHANGED vars
    BY <2>1, <2>3 DEF vars
  <2> QED
    BY <2>1, <2>2, <2>3
    DEF Next, Deposit, outboundTransferCustomRefund, Donate, donate, Register, registerTokenToL2,
        ForceRegister, forceRegisterTokenToL2, SetOwner, setOwner, FinalizeWithdrawal,
        L1_finalizeInboundTransfer, DeployToken, RedeemRegistration, RedeemDeposit, Withdraw,
        DropDeposit, DropRegistration
<1> QED  BY <1>1, <1>2, PTL DEF Spec

-----------------------------------------------------------------------------
\* A token the owner never touched is registered on L2 as on L1 or not at all.
THEOREM Registration == Spec => [](SelfRegistrationsAgree /\ RegistrationsInFlightAgree)
<1> DEFINE Inv == SelfRegistrationsAgree /\ RegistrationsInFlightAgree
<1>1. Init => Inv
  BY DEF Init, MessagingInit, L1Init, L2Init, SelfRegistrationsAgree, RegistrationsInFlightAgree
<1>2. TypeOK /\ Inv /\ [Next]_vars => Inv'
  <2> SUFFICES ASSUME TypeOK, SelfRegistrationsAgree, RegistrationsInFlightAgree, [Next]_vars
               PROVE  Inv'
    OBVIOUS
  <2> USE DEF ticketVars, outboxVars, l1Vars, l2Vars, history
  <2>1. ASSUME registerTickets' \subseteq registerTickets,
               UNCHANGED <<l1ToL2Token_L1, l1ToL2Token_L2, forced>>
        PROVE  Inv'
    BY <2>1 DEF SelfRegistrationsAgree, RegistrationsInFlightAgree
  <2>2. ASSUME NEW t \in L1Tokens, NEW x \in L2Addresses, Register(t, x)
        PROVE  Inv'
    <3>1. /\ l1ToL2Token_L1' = [l1ToL2Token_L1 EXCEPT ![t] = x]
          /\ registerTickets' = registerTickets \cup {[id |-> seqNum, mapping |-> [s \in {t} |-> x]]}
          /\ l1ToL2Token_L1[t] # Zero => l1ToL2Token_L1[t] = x
          /\ UNCHANGED <<l1ToL2Token_L2, forced>>
          /\ l1ToL2Token_L1 \in [L1Tokens -> L2Addresses]
      BY <2>2 DEF Register, registerTokenToL2, mayRegister, sendRegisterTicket, TypeOK, L1TypeOK
    <3>2. \A s \in L1Tokens : l1ToL2Token_L1[s] \in {Zero, l1ToL2Token_L1'[s]}
      BY <3>1
    <3>3. SelfRegistrationsAgree'
      BY <3>1, <3>2 DEF SelfRegistrationsAgree
    <3>4. RegistrationsInFlightAgree'
      <4> SUFFICES ASSUME NEW m \in registerTickets', NEW s \in DOMAIN m.mapping \ forced
                   PROVE  m.mapping[s] \in {Zero, l1ToL2Token_L1'[s]}
        BY <3>1 DEF RegistrationsInFlightAgree
      <4>1. CASE m \in registerTickets
        <5>1. m.mapping \in Registrations
          BY <4>1 DEF TypeOK, MessagingTypeOK, RegisterTicket
        <5>2. s \in L1Tokens
          BY <5>1, RegistrationType
        <5> QED  BY <3>2, <4>1, <5>2 DEF RegistrationsInFlightAgree
      <4>2. CASE m = [id |-> seqNum, mapping |-> [r \in {t} |-> x]]
        BY <3>1, <4>2
      <4> QED  BY <3>1, <4>1, <4>2
    <3> QED  BY <3>3, <3>4
  <2>3. ASSUME NEW sender \in Admins, NEW mapping \in Registrations,
               ForceRegister(sender, mapping)
        PROVE  Inv'
    <3>1. /\ \A s \in L1Tokens \ DOMAIN mapping : l1ToL2Token_L1'[s] = l1ToL2Token_L1[s]
          /\ registerTickets' = registerTickets \cup {[id |-> seqNum, mapping |-> mapping]}
          /\ forced' = forced \cup DOMAIN mapping
          /\ UNCHANGED l1ToL2Token_L2
      BY <2>3 DEF ForceRegister, forceRegisterTokenToL2, sendRegisterTicket
    <3>2. SelfRegistrationsAgree'
      BY <3>1 DEF SelfRegistrationsAgree
    <3>3. RegistrationsInFlightAgree'
      <4> SUFFICES ASSUME NEW m \in registerTickets', NEW s \in DOMAIN m.mapping \ forced'
                   PROVE  m.mapping[s] \in {Zero, l1ToL2Token_L1'[s]}
        BY DEF RegistrationsInFlightAgree
      <4>1. CASE m \in registerTickets
        <5>1. m.mapping \in Registrations
          BY <4>1 DEF TypeOK, MessagingTypeOK, RegisterTicket
        <5>2. s \in L1Tokens
          BY <5>1, RegistrationType
        <5> QED  BY <3>1, <4>1, <5>2 DEF RegistrationsInFlightAgree
      <4>2. CASE m = [id |-> seqNum, mapping |-> mapping]
        BY <3>1, <4>2
      <4> QED  BY <3>1, <4>1, <4>2
    <3> QED  BY <3>2, <3>3
  <2>4. ASSUME NEW m \in registerTickets, RedeemRegistration(m)
        PROVE  Inv'
    <3>1. /\ l1ToL2Token_L2' = [t \in L1Tokens |->
               IF t \in DOMAIN m.mapping THEN m.mapping[t] ELSE l1ToL2Token_L2[t]]
          /\ registerTickets' \subseteq registerTickets
          /\ UNCHANGED <<l1ToL2Token_L1, forced>>
      BY <2>4 DEF RedeemRegistration, registerTokenFromL1, consumeRegisterTicket
    <3> QED  BY <3>1 DEF SelfRegistrationsAgree, RegistrationsInFlightAgree
  <2>5. ASSUME NEW m \in depositTickets, RedeemDeposit(m)
        PROVE  Inv'
    BY <2>1, <2>5 DEF RedeemDeposit, L2_finalizeInboundTransfer, creditDeposit, bounceDeposit,
                     consumeDepositTicket
  <2>6. CASE UNCHANGED vars
    BY <2>1, <2>6 DEF vars
  <2> QED
    BY <2>1, <2>2, <2>3, <2>4, <2>5, <2>6
    DEF Next, Deposit, outboundTransferCustomRefund, sendDepositTicket, Donate, donate, SetOwner,
        setOwner, TransferExit, transferExitAndCall, FinalizeWithdrawal,
        L1_finalizeInboundTransfer, DeployToken, deployL2Token, Withdraw, outboundTransfer,
        DropDeposit, DropRegistration, consumeDepositTicket, consumeRegisterTicket
<1> QED  BY <1>1, <1>2, TypeCorrect, PTL DEF Spec

-----------------------------------------------------------------------------
\* The L2 units of an L1 token the owner never touched were minted at the L2
\* address L1 has registered for it, which is the one outboundTransfer burns
\* at: creditDeposit mints only where L2 is registered, that agrees with L1, and
\* a token may only repeat a registration.
THEOREM MintedTokensWithdrawable == Spec => []MintedUnderRegistration
<1>1. Init => MintedUnderRegistration
  BY DEF Init, L2Init, MintedUnderRegistration
<1>2. TypeOK /\ Bookkeeping /\ SelfRegistrationsAgree /\ MintedUnderRegistration /\ [Next]_vars
        => MintedUnderRegistration'
  <2> SUFFICES ASSUME TypeOK, Bookkeeping, SelfRegistrationsAgree, MintedUnderRegistration,
                      [Next]_vars
               PROVE  MintedUnderRegistration'
    OBVIOUS
  <2> USE DEF ticketVars, outboxVars, l1Vars, l2Vars, history
  <2>1. ASSUME UNCHANGED <<l1Address, l2Balance, l1ToL2Token_L1, forced>>
        PROVE  MintedUnderRegistration'
    BY <2>1 DEF MintedUnderRegistration
  <2>2. ASSUME NEW t \in L1Tokens, NEW x \in L2Addresses, Register(t, x)
        PROVE  MintedUnderRegistration'
    <3>1. /\ \A s \in L1Tokens : l1ToL2Token_L1[s] # Zero => l1ToL2Token_L1'[s] = l1ToL2Token_L1[s]
          /\ UNCHANGED <<l1Address, l2Balance, forced>>
      BY <2>2 DEF Register, registerTokenToL2, mayRegister, TypeOK, L1TypeOK
    <3> QED  BY <3>1 DEF MintedUnderRegistration
  <2>3. ASSUME NEW sender \in Admins, NEW mapping \in Registrations,
               ForceRegister(sender, mapping)
        PROVE  MintedUnderRegistration'
    <3>1. /\ \A s \in L1Tokens \ forced' : s \notin forced /\ l1ToL2Token_L1'[s] = l1ToL2Token_L1[s]
          /\ UNCHANGED <<l1Address, l2Balance>>
      BY <2>3 DEF ForceRegister, forceRegisterTokenToL2
    <3> QED  BY <3>1 DEF MintedUnderRegistration
  <2>4. ASSUME NEW x \in L2Tokens, NEW a \in L1Tokens \cup {NotArbToken}, DeployToken(x, a)
        PROVE  MintedUnderRegistration'
    <3>1. /\ \A u \in Users : l2Balance[<<x, u>>] = 0
          /\ \A y \in L2Tokens \ {x} : l1Address'[y] = l1Address[y]
          /\ UNCHANGED <<l2Balance, l1ToL2Token_L1, forced>>
      BY <2>4 DEF DeployToken, deployL2Token, Bookkeeping, TypeOK, L2TypeOK
    <3> QED  BY <3>1 DEF MintedUnderRegistration
  <2>5. ASSUME NEW m \in depositTickets, RedeemDeposit(m)
        PROVE  MintedUnderRegistration'
    <3>1. CASE creditDeposit(m)
      <4> DEFINE y == l1ToL2Token_L2[m.token]
      <4>1. m.token \in L1Tokens /\ m.to \in Users /\ m.amount \in Nat
        BY DEF TypeOK, MessagingTypeOK, DepositTicket
      <4>2. y # Zero /\ y \in L2Tokens /\ l1Address[y] = m.token
        BY <3>1, <4>1 DEF creditDeposit, isValidTokenAddress, isContract, TypeOK, L2TypeOK,
                          L2Addresses
      <4>3. m.token \notin forced => l1ToL2Token_L1[m.token] = y
        BY <4>1, <4>2 DEF SelfRegistrationsAgree
      <4>4. /\ \A p \in L2Tokens \X Users : p # <<y, m.to>> => l2Balance'[p] = l2Balance[p]
            /\ UNCHANGED <<l1Address, l1ToL2Token_L1, forced>>
        BY <2>5, <3>1 DEF RedeemDeposit, creditDeposit, TypeOK, L2TypeOK
      <4> HIDE DEF y
      <4> SUFFICES ASSUME NEW t \in L1Tokens \ forced, NEW x \in L2Tokens, NEW u \in Users,
                          l1Address[x] = t, l2Balance'[<<x, u>>] > 0
                   PROVE  l1ToL2Token_L1[t] = x
        BY <4>4 DEF MintedUnderRegistration
      <4>5. CASE x = y
        BY <4>2, <4>3, <4>5
      <4>6. CASE x # y
        <5>1. l2Balance'[<<x, u>>] = l2Balance[<<x, u>>]
          BY <4>4, <4>6
        <5> QED  BY <5>1 DEF MintedUnderRegistration
      <4> QED  BY <4>5, <4>6
    <3>2. CASE bounceDeposit(m)
      BY <2>1, <2>5, <3>2 DEF RedeemDeposit, bounceDeposit
    <3> QED  BY <2>5, <3>1, <3>2 DEF RedeemDeposit, L2_finalizeInboundTransfer
  <2>6. ASSUME NEW t \in L1Tokens, NEW from \in Users, NEW to \in Users, NEW a \in WithdrawAmounts,
               Withdraw(t, from, to, a)
        PROVE  MintedUnderRegistration'
    <3> DEFINE y == l1ToL2Token_L2[t]
    <3>1. y \in L2Tokens
      BY <2>6 DEF Withdraw, outboundTransfer, isContract, TypeOK, L2TypeOK, L2Addresses
    <3>2. a \in Nat /\ a <= l2Balance[<<y, from>>] /\ l2Balance \in [L2Tokens \X Users -> Nat]
      BY <2>6 DEF Withdraw, outboundTransfer, TypeOK, L2TypeOK
    <3>3. /\ l2Balance' = [l2Balance EXCEPT ![<<y, from>>] = @ - a]
          /\ UNCHANGED <<l1Address, l1ToL2Token_L1, forced>>
      BY <2>6 DEF Withdraw, outboundTransfer
    <3> HIDE DEF y
    <3>4. \A p \in L2Tokens \X Users : l2Balance'[p] > 0 => l2Balance[p] > 0
      BY <3>1, <3>2, <3>3
    <3> QED  BY <3>3, <3>4 DEF MintedUnderRegistration
  <2>7. CASE UNCHANGED vars
    BY <2>1, <2>7 DEF vars
  <2> QED
    BY <2>1, <2>2, <2>3, <2>4, <2>5, <2>6, <2>7
    DEF Next, Deposit, outboundTransferCustomRefund, Donate, donate, SetOwner, setOwner,
        TransferExit, transferExitAndCall, FinalizeWithdrawal, L1_finalizeInboundTransfer,
        RedeemRegistration, registerTokenFromL1, DropDeposit, DropRegistration
<1> QED  BY <1>1, <1>2, TypeCorrect, BookkeepingHolds, Registration, PTL DEF Spec
=============================================================================
