-------------------------- MODULE UsdcBridgeProofs --------------------------
(***************************************************************************)
(* Theorems about the USDC bridge, for every set of amounts and accounts   *)
(* and any number of messages: its accounts balance to the unit through    *)
(* every burn, and a migration that pauses withdrawals before the burn     *)
(* amount is chosen never burns what an exit or a deposit in flight needs. *)
(***************************************************************************)
EXTENDS UsdcBridge, TallyProofs

USE UsdcAssumption, TransfersAssumption

\* The calls that change roles, the pause of deposits or the rights over the
\* L2 token.
Administration ==
  \/ \E sender \in Admins : pauseDeposits(sender) \/ unpauseDeposits(sender)
                              \/ transferUSDCRoles(sender)
  \/ \E sender \in Admins, other \in Admins \cup {NoAdmin} :
       setBurner(sender, other) \/ setUsdcOwnershipTransferrer(sender, other)
  \/ \E sender \in Admins, newOwner \in Admins :
       setOwner_L1(sender, newOwner) \/ setOwner_L2(sender, newOwner)
  \/ removeMinter
  \/ deployL2USDC

\* What the accounts and the order of the migration are made of.
accounts == <<burnAmount, withdrawalsPaused, wallet, escrow, supply, deposits, exits, sent,
              surplus, burned, amountSafe, improper>>

\* None of the administrative calls of the two gateways touches the accounts.
LEMMA AdministrationMovesNothing == Administration => UNCHANGED accounts
BY DEF Administration, accounts, pauseDeposits, unpauseDeposits, transferUSDCRoles, setBurner,
       setUsdcOwnershipTransferrer, setOwner_L1, setOwner_L2, removeMinter, deployL2USDC,
       l1Control, l2Control, l2Token, funds, history

\* A step of either gateway is administrative, one of the four steps of a
\* migration that touch the accounts, or a transfer.
LEMMA StepCases ==
  ASSUME Next
  PROVE  \/ Administration
         \/ \E sender \in Admins : \/ pauseWithdrawals(sender)
                                   \/ unpauseWithdrawals(sender)
                                   \/ burnLockedUSDC(sender)
         \/ \E sender \in Admins, a \in Amounts \cup {0} : setBurnAmount(sender, a)
         \/ \E a \in Amounts : deposit(a) \/ withdraw(a)
         \/ \E m \in deposits : mintDeposit(m) \/ bounceDeposit(m) \/ dropDeposit(m)
         \/ \E e \in exits : finalizeExit(e)
BY DEF Next, Administration

-----------------------------------------------------------------------------
\* initialize leaves every variable of both gateways in its type.
LEMMA InitType == Init => TypeOK
<1> SUFFICES ASSUME Init PROVE TypeOK
  OBVIOUS
<1>1. /\ wallet \in Nat /\ escrow \in Nat /\ supply \in Nat /\ burnAmount \in Nat
      /\ sent \in Nat /\ surplus \in Nat /\ burned \in Nat
  BY DEF Init
<1>2. /\ depositsPaused \in BOOLEAN /\ withdrawalsPaused \in BOOLEAN
      /\ l2USDCExists \in BOOLEAN /\ gatewayOwnsUSDC \in BOOLEAN /\ gatewayMints \in BOOLEAN
      /\ amountSafe \in BOOLEAN /\ improper \in BOOLEAN
  BY Zenon DEF Init
<1> QED  BY <1>1, <1>2 DEF Init, TypeOK

\* Every call of either gateway keeps the variables in their types; in
\* particular the L1 escrow and the L2 supply never go below zero.
LEMMA TypeStep ==
  ASSUME TypeOK, Next
  PROVE  TypeOK'
<1> USE DEF TypeOK, l1Control, l2Control, l2Token, funds, history
<1>1. CASE Administration
  <2>1. ASSUME NEW sender \in Admins, pauseDeposits(sender)  PROVE  TypeOK'
    BY <2>1 DEF pauseDeposits
  <2>2. ASSUME NEW sender \in Admins, unpauseDeposits(sender)  PROVE  TypeOK'
    BY <2>2 DEF unpauseDeposits
  <2>3. ASSUME NEW sender \in Admins, transferUSDCRoles(sender)  PROVE  TypeOK'
    BY <2>3 DEF transferUSDCRoles
  <2>4. ASSUME NEW sender \in Admins, NEW other \in Admins \cup {NoAdmin},
               setBurner(sender, other) \/ setUsdcOwnershipTransferrer(sender, other)
        PROVE  TypeOK'
    BY <2>4 DEF setBurner, setUsdcOwnershipTransferrer
  <2>5. ASSUME NEW sender \in Admins, NEW newOwner \in Admins,
               setOwner_L1(sender, newOwner) \/ setOwner_L2(sender, newOwner)
        PROVE  TypeOK'
    BY <2>5 DEF setOwner_L1, setOwner_L2
  <2>6. CASE removeMinter
    BY <2>6 DEF removeMinter
  <2>7. CASE deployL2USDC
    BY <2>7 DEF deployL2USDC
  <2> QED  BY <1>1, <2>1, <2>2, <2>3, <2>4, <2>5, <2>6, <2>7 DEF Administration
<1>2. ASSUME NEW sender \in Admins,
             pauseWithdrawals(sender) \/ unpauseWithdrawals(sender) \/ burnLockedUSDC(sender)
      PROVE  TypeOK'
  <2>1. CASE pauseWithdrawals(sender)
    BY <2>1 DEF pauseWithdrawals
  <2>2. CASE unpauseWithdrawals(sender)
    BY <2>2 DEF unpauseWithdrawals
  <2>3. CASE burnLockedUSDC(sender)
    BY <2>3 DEF burnLockedUSDC, escrowCovers, burnAmountAfterBurn
  <2> QED  BY <1>2, <2>1, <2>2, <2>3
<1>3. ASSUME NEW sender \in Admins, NEW a \in Amounts \cup {0}, setBurnAmount(sender, a)
      PROVE  TypeOK'
  BY <1>3 DEF setBurnAmount
<1>4. ASSUME NEW a \in Amounts, deposit(a)  PROVE  TypeOK'
  BY <1>4 DEF deposit, Message
<1>5. ASSUME NEW a \in Amounts, withdraw(a)  PROVE  TypeOK'
  BY <1>5 DEF withdraw, outboundEscrowTransfer, Message
<1>6. ASSUME NEW m \in deposits, mintDeposit(m) \/ bounceDeposit(m) \/ dropDeposit(m)
      PROVE  TypeOK'
  BY <1>6 DEF mintDeposit, bounceDeposit, dropDeposit, Message
<1>7. ASSUME NEW e \in exits, finalizeExit(e)  PROVE  TypeOK'
  BY <1>7 DEF finalizeExit, escrowCovers, Message
<1> QED  BY <1>1, <1>2, <1>3, <1>4, <1>5, <1>6, <1>7, StepCases

\* Every variable of the two USDC gateways keeps its type.
THEOREM TypeCorrect == Spec => []TypeOK
<1>1. TypeOK /\ [Next]_vars => TypeOK'
  <2>1. CASE Next
    BY <2>1, TypeStep
  <2>2. CASE UNCHANGED vars
    BY <2>2 DEF TypeOK, vars, l1Control, l2Control, l2Token, funds, history
  <2> QED  BY <2>1, <2>2
<1> QED  BY <1>1, InitType, PTL DEF Spec

-----------------------------------------------------------------------------
\* Messages are finitely many and numbered in the order they were sent; none
\* is a deposit and an exit at once, although one that bounces off L2 turns
\* from the first into the second.
MessagesApart ==
  /\ IsFiniteSet(deposits) /\ IsFiniteSet(exits)
  /\ \A m \in deposits \cup exits : m.id < sent
  /\ deposits \cap exits = {}

\* What keeps a migration safe.  As long as it was not improper, no more was
\* burnt than the L2 supply, and since the first burn withdrawals are paused,
\* so the supply cannot fall any more; an amount that was set safely may
\* still be burnt on top of what was burnt before.
BurnsCovered ==
  /\ ~ improper => burned <= supply
  /\ ~ improper /\ burned > 0 => withdrawalsPaused
  /\ amountSafe => withdrawalsPaused /\ burned + burnAmount <= supply

\* The inductive invariant of the two theorems below.
AccountsInv == TypeOK /\ MessagesApart /\ Conservation /\ BurnsCovered

\* Every message in flight carries a natural number of units.
LEMMA MessageAmounts ==
  ASSUME TypeOK
  PROVE  \A m \in deposits \cup exits : m.amount \in Nat /\ m.id \in Nat
BY DEF TypeOK, Message

\* initialize establishes the invariant.
LEMMA InitAccounts == Init => AccountsInv
<1> SUFFICES ASSUME Init PROVE AccountsInv
  OBVIOUS
<1>1. TypeOK
  BY InitType
<1>2. IsFiniteSet({}) /\ TotalAmount({}) = 0
  BY FS_EmptySet DEF TotalAmount, Tally, Units
<1>3. MessagesApart
  BY <1>2 DEF Init, MessagesApart
<1>4. Conservation
  BY <1>2 DEF Init, Conservation
<1>5. BurnsCovered
  BY DEF Init, BurnsCovered
<1> QED  BY <1>1, <1>3, <1>4, <1>5 DEF AccountsInv

\* Every call of either gateway keeps messages numbered and apart.
LEMMA MessagesApartStep ==
  ASSUME AccountsInv, Next
  PROVE  MessagesApart'
<1> USE DEF AccountsInv, MessagesApart, TypeOK
<1>1. CASE Administration
  BY <1>1, AdministrationMovesNothing DEF accounts
<1>2. ASSUME NEW sender \in Admins,
             pauseWithdrawals(sender) \/ unpauseWithdrawals(sender) \/ burnLockedUSDC(sender)
      PROVE  MessagesApart'
  BY <1>2 DEF pauseWithdrawals, unpauseWithdrawals, burnLockedUSDC, funds
<1>3. ASSUME NEW sender \in Admins, NEW a \in Amounts \cup {0}, setBurnAmount(sender, a)
      PROVE  MessagesApart'
  BY <1>3 DEF setBurnAmount, funds
<1>4. ASSUME NEW a \in Amounts, deposit(a)  PROVE  MessagesApart'
  <2>1. IsFiniteSet(deposits')
    BY <1>4, FS_AddElement DEF deposit
  <2> QED  BY <1>4, <2>1, MessageAmounts DEF deposit
<1>5. ASSUME NEW a \in Amounts, withdraw(a)  PROVE  MessagesApart'
  <2>1. IsFiniteSet(exits')
    BY <1>5, FS_AddElement DEF withdraw
  <2> QED  BY <1>5, <2>1, MessageAmounts DEF withdraw
<1>6. ASSUME NEW m \in deposits, mintDeposit(m) \/ bounceDeposit(m) \/ dropDeposit(m)
      PROVE  MessagesApart'
  <2>1. IsFiniteSet(deposits \ {m}) /\ IsFiniteSet(exits \cup {m})
    BY FS_RemoveElement, FS_AddElement
  <2> QED  BY <1>6, <2>1 DEF mintDeposit, bounceDeposit, dropDeposit
<1>7. ASSUME NEW e \in exits, finalizeExit(e)  PROVE  MessagesApart'
  <2>1. IsFiniteSet(exits \ {e})
    BY FS_RemoveElement
  <2> QED  BY <1>7, <2>1 DEF finalizeExit
<1> QED  BY <1>1, <1>2, <1>3, <1>4, <1>5, <1>6, <1>7, StepCases

\* Every call of either gateway keeps the accounts balanced.
LEMMA ConservationStep ==
  ASSUME AccountsInv, Next
  PROVE  Conservation'
<1> USE DEF AccountsInv, Conservation, TypeOK
<1>d. IsFiniteSet(deposits) /\ IsFiniteSet(exits) /\ deposits \cap exits = {}
  BY DEF MessagesApart
<1>n. \A m \in deposits \cup exits : m.amount \in Nat /\ m.id # sent
  BY MessageAmounts DEF MessagesApart
<1>t. TotalAmount(deposits) \in Nat /\ TotalAmount(exits) \in Nat
  BY <1>d, <1>n, TotalAmountType
<1>1. CASE Administration
  BY <1>1, AdministrationMovesNothing DEF accounts
<1>2. ASSUME NEW sender \in Admins, pauseWithdrawals(sender) \/ unpauseWithdrawals(sender)
      PROVE  Conservation'
  BY <1>2 DEF pauseWithdrawals, unpauseWithdrawals, funds, history
<1>3. ASSUME NEW sender \in Admins, burnLockedUSDC(sender)  PROVE  Conservation'
  BY <1>3, <1>t DEF burnLockedUSDC, escrowCovers
<1>4. ASSUME NEW sender \in Admins, NEW a \in Amounts \cup {0}, setBurnAmount(sender, a)
      PROVE  Conservation'
  BY <1>4 DEF setBurnAmount, funds
<1>5. ASSUME NEW a \in Amounts, deposit(a)  PROVE  Conservation'
  <2> DEFINE x == [id |-> sent, amount |-> a]
  <2>1. x \notin deposits /\ x.amount = a /\ a \in Nat
    BY <1>n
  <2>2. TotalAmount(deposits \cup {x}) = TotalAmount(deposits) + a
    BY <1>d, <1>n, <2>1, TotalAmountAdd
  <2> QED  BY <1>5, <1>t, <2>1, <2>2 DEF deposit, history
<1>6. ASSUME NEW a \in Amounts, withdraw(a)  PROVE  Conservation'
  <2> DEFINE x == [id |-> sent, amount |-> a]
  <2>1. x \notin exits /\ x.amount = a /\ a \in Nat
    BY <1>n
  <2>2. TotalAmount(exits \cup {x}) = TotalAmount(exits) + a
    BY <1>d, <1>n, <2>1, TotalAmountAdd
  <2> QED  BY <1>6, <1>t, <2>1, <2>2 DEF withdraw, outboundEscrowTransfer, history
<1>7. ASSUME NEW m \in deposits, mintDeposit(m) \/ bounceDeposit(m) \/ dropDeposit(m)
      PROVE  Conservation'
  <2>1. /\ TotalAmount(deposits) = TotalAmount(deposits \ {m}) + m.amount
        /\ TotalAmount(deposits \ {m}) \in Nat
    BY <1>d, <1>n, TotalAmountRemove
  <2>2. m.amount \in Nat /\ m \notin exits
    BY <1>d, <1>n
  <2>3. TotalAmount(exits \cup {m}) = TotalAmount(exits) + m.amount
    BY <1>d, <1>n, <2>2, TotalAmountAdd
  <2>4. CASE mintDeposit(m)
    BY <1>t, <2>1, <2>2, <2>4 DEF mintDeposit, history
  <2>5. CASE bounceDeposit(m)
    BY <1>t, <2>1, <2>2, <2>3, <2>5 DEF bounceDeposit, history
  <2>6. CASE dropDeposit(m)
    BY <1>t, <2>1, <2>2, <2>6 DEF dropDeposit, history
  <2> QED  BY <1>7, <2>4, <2>5, <2>6
<1>8. ASSUME NEW e \in exits, finalizeExit(e)  PROVE  Conservation'
  <2>1. /\ TotalAmount(exits) = TotalAmount(exits \ {e}) + e.amount
        /\ TotalAmount(exits \ {e}) \in Nat
    BY <1>d, <1>n, TotalAmountRemove
  <2>2. e.amount \in Nat
    BY <1>n
  <2> QED  BY <1>8, <1>t, <2>1, <2>2 DEF finalizeExit, escrowCovers, history
<1> QED  BY <1>1, <1>2, <1>3, <1>4, <1>5, <1>6, <1>7, <1>8, StepCases

\* Every call of either gateway keeps the burns covered: the pause is what
\* keeps the supply from falling between the choice of the amount and the
\* burn, and after it.
LEMMA BurnsCoveredStep ==
  ASSUME AccountsInv, Next
  PROVE  BurnsCovered'
<1> USE DEF AccountsInv, BurnsCovered, TypeOK
<1>1. CASE Administration
  BY <1>1, AdministrationMovesNothing DEF accounts
<1>2. ASSUME NEW sender \in Admins, pauseWithdrawals(sender)  PROVE  BurnsCovered'
  BY <1>2 DEF pauseWithdrawals, funds, history, l1Control
<1>3. ASSUME NEW sender \in Admins, unpauseWithdrawals(sender)  PROVE  BurnsCovered'
  BY <1>3 DEF unpauseWithdrawals, funds
<1>4. ASSUME NEW sender \in Admins, burnLockedUSDC(sender)  PROVE  BurnsCovered'
  <2>1. ~ improper' => ~ improper /\ amountSafe
    BY <1>4 DEF burnLockedUSDC
  <2> QED  BY <1>4, <2>1 DEF burnLockedUSDC, burnAmountAfterBurn, l2Control
<1>5. ASSUME NEW sender \in Admins, NEW a \in Amounts \cup {0}, setBurnAmount(sender, a)
      PROVE  BurnsCovered'
  BY <1>5 DEF setBurnAmount, funds, l2Control
<1>6. ASSUME NEW a \in Amounts, deposit(a)  PROVE  BurnsCovered'
  BY <1>6 DEF deposit, history, l1Control, l2Control
<1>7. ASSUME NEW a \in Amounts, withdraw(a)  PROVE  BurnsCovered'
  <2>1. ~ withdrawalsPaused /\ ~ amountSafe /\ (~ improper => burned = 0)
    BY <1>7 DEF withdraw, mayWithdraw
  <2> QED  BY <1>7, <2>1 DEF withdraw, outboundEscrowTransfer, history, l1Control, l2Control
<1>8. ASSUME NEW m \in deposits, mintDeposit(m) \/ bounceDeposit(m) \/ dropDeposit(m)
      PROVE  BurnsCovered'
  <2>1. m.amount \in Nat
    BY MessageAmounts
  <2> QED  BY <1>8, <2>1 DEF mintDeposit, bounceDeposit, dropDeposit, history, l1Control,
                              l2Control
<1>9. ASSUME NEW e \in exits, finalizeExit(e)  PROVE  BurnsCovered'
  BY <1>9 DEF finalizeExit, history, l1Control, l2Control
<1> QED  BY <1>1, <1>2, <1>3, <1>4, <1>5, <1>6, <1>7, <1>8, <1>9, StepCases

\* The invariant holds in every reachable state of the USDC bridge.
THEOREM AccountsHold == Spec => []AccountsInv
<1>1. AccountsInv /\ [Next]_vars => AccountsInv'
  <2>1. CASE AccountsInv /\ Next
    BY <2>1, TypeStep, MessagesApartStep, ConservationStep, BurnsCoveredStep DEF AccountsInv
  <2>2. CASE AccountsInv /\ UNCHANGED vars
    BY <2>2 DEF AccountsInv, TypeOK, MessagesApart, Conservation, BurnsCovered, vars, l1Control,
                l2Control, l2Token, funds, history
  <2> QED  BY <2>1, <2>2
<1> QED  BY <1>1, InitAccounts, PTL DEF Spec

\* Escrow and burns on L1 together are the L2 supply, the messages in flight
\* and the units nobody is owed, through burnLockedUSDC, pauses, bounced and
\* dropped deposits.
THEOREM ConservationHolds == Spec => []Conservation
<1>1. AccountsInv => Conservation
  BY DEF AccountsInv
<1> QED  BY <1>1, AccountsHold, PTL

\* Unless somebody sets the burn amount with withdrawals open or too high, or
\* resumes withdrawals after a burn, burnLockedUSDC leaves in escrow what every
\* exit and every deposit in flight still needs.
THEOREM ExitsStayPayableHolds == Spec => []ExitsStayPayable
<1>1. AccountsInv => ExitsStayPayable
  <2> SUFFICES ASSUME AccountsInv PROVE ExitsStayPayable
    OBVIOUS
  <2>1. TotalAmount(deposits) \in Nat /\ TotalAmount(exits) \in Nat
    BY MessageAmounts, TotalAmountType DEF AccountsInv, MessagesApart
  <2> QED  BY <2>1 DEF AccountsInv, TypeOK, Conservation, BurnsCovered, ExitsStayPayable
<1> QED  BY <1>1, AccountsHold, PTL

-----------------------------------------------------------------------------
\* By Conservation, what is owed is what is locked or burnt but for the surplus.
UsdcCovered ==
  LET Amount == [{"USDC"} -> Nat]
  IN  /\ lockedOrBurned \in Amount /\ owed \in Amount /\ leftOver \in Amount
      /\ lockedOrBurned["USDC"] = owed["USDC"] + leftOver["USDC"]

\* The invariant of the accounts says so.
LEMMA UsdcCovers == ASSUME AccountsInv PROVE UsdcCovered
<1>1. TotalAmount(deposits) \in Nat /\ TotalAmount(exits) \in Nat
  BY MessageAmounts, TotalAmountType DEF AccountsInv, MessagesApart
<1> QED  BY <1>1 DEF AccountsInv, TypeOK, Conservation, UsdcCovered, lockedOrBurned, owed, leftOver

\* A deposit locks, an exit releases, a dropped ticket abandons units; a burn and
\* every other step of a migration is invisible.
LEMMA UsdcCanonicalStep ==
  ASSUME AccountsInv, UsdcCovered, UsdcCovered', [Next]_vars
  PROVE  [UsdcCanonical!Next]_(UsdcCanonical!vars)
<1> DEFINE T == "USDC"
<1>0. /\ escrow \in Nat /\ burned \in Nat /\ surplus \in Nat
      /\ \A m \in deposits \cup exits : m.amount \in Nat
  BY MessageAmounts DEF AccountsInv, TypeOK
<1>1. ASSUME escrow' + burned' = escrow + burned, surplus' = surplus
      PROVE  UNCHANGED UsdcCanonical!vars
  <2>1. lockedOrBurned' = lockedOrBurned /\ leftOver' = leftOver
    BY <1>1 DEF lockedOrBurned, leftOver
  <2>2. owed' = owed
    BY <2>1 DEF UsdcCovered
  <2> QED  BY <2>1, <2>2 DEF UsdcCanonical!vars
<1>2. ASSUME NEW a \in Amounts, deposit(a)
      PROVE  UsdcCanonical!Next
  <2>1. a \in Nat /\ lockedOrBurned'[T] = lockedOrBurned[T] + a /\ leftOver' = leftOver
    BY <1>0, <1>2 DEF deposit, history, lockedOrBurned, leftOver
  <2>2. owed'[T] = owed[T] + a
    BY <2>1 DEF UsdcCovered
  <2>3. /\ lockedOrBurned' = [lockedOrBurned EXCEPT ![T] = @ + a]
        /\ owed' = [owed EXCEPT ![T] = @ + a]
    BY <2>1, <2>2 DEF UsdcCovered
  <2> QED  BY <2>1, <2>3 DEF UsdcCanonical!Next, UsdcCanonical!Lock
<1>3. ASSUME NEW e \in exits, finalizeExit(e)
      PROVE  UsdcCanonical!Next
  <2> DEFINE a == e.amount
  <2>1. /\ a \in Nat /\ a <= escrow /\ leftOver' = leftOver
        /\ lockedOrBurned'[T] = lockedOrBurned[T] - a
    BY <1>0, <1>3 DEF finalizeExit, escrowCovers, history, lockedOrBurned, leftOver
  <2> HIDE DEF a
  <2>2. owed'[T] = owed[T] - a /\ a \in 0 .. owed[T]
    BY <2>1 DEF UsdcCovered
  <2>3. /\ lockedOrBurned' = [lockedOrBurned EXCEPT ![T] = @ - a]
        /\ owed' = [owed EXCEPT ![T] = @ - a]
    BY <2>1, <2>2 DEF UsdcCovered
  <2>4. UsdcCanonical!Release(T, a)
    BY <2>1, <2>3 DEF UsdcCanonical!Release
  <2> QED  BY <2>2, <2>4 DEF UsdcCanonical!Next
<1>4. ASSUME NEW m \in deposits, dropDeposit(m)
      PROVE  UsdcCanonical!Next
  <2> DEFINE a == m.amount
  <2>1. /\ a \in Nat /\ lockedOrBurned' = lockedOrBurned
        /\ leftOver'[T] = leftOver[T] + a
    BY <1>0, <1>4 DEF dropDeposit, history, lockedOrBurned, leftOver
  <2> HIDE DEF a
  <2>2. owed'[T] = owed[T] - a /\ a \in 0 .. owed[T]
    BY <2>1 DEF UsdcCovered
  <2>3. /\ leftOver' = [leftOver EXCEPT ![T] = @ + a]
        /\ owed' = [owed EXCEPT ![T] = @ - a]
    BY <2>1, <2>2 DEF UsdcCovered
  <2>4. UsdcCanonical!Abandon(T, a)
    BY <2>1, <2>3 DEF UsdcCanonical!Abandon
  <2> QED  BY <2>2, <2>4 DEF UsdcCanonical!Next
<1>5. ASSUME NEW sender \in Admins, burnLockedUSDC(sender)
      PROVE  UNCHANGED UsdcCanonical!vars
  <2>1. burnAmount \in Nat
    BY DEF AccountsInv, TypeOK
  <2>2. escrow' + burned' = escrow + burned /\ surplus' = surplus
    BY <1>0, <1>5, <2>1 DEF burnLockedUSDC, escrowCovers
  <2> QED  BY <1>1, <2>2
<1>6. CASE Administration \/ UNCHANGED vars
  BY <1>1, <1>6, AdministrationMovesNothing DEF accounts, vars, funds, history
<1>7. ASSUME \/ \E sender \in Admins : pauseWithdrawals(sender) \/ unpauseWithdrawals(sender)
             \/ \E sender \in Admins, a \in Amounts \cup {0} : setBurnAmount(sender, a)
             \/ \E a \in Amounts : withdraw(a)
             \/ \E m \in deposits : mintDeposit(m) \/ bounceDeposit(m)
      PROVE  UNCHANGED UsdcCanonical!vars
  BY <1>1, <1>7 DEF pauseWithdrawals, unpauseWithdrawals, setBurnAmount, withdraw, mintDeposit,
                    bounceDeposit, funds, history
<1> QED  BY <1>2, <1>3, <1>4, <1>5, <1>6, <1>7, StepCases

\* Counting what burnLockedUSDC has burnt as locked, the USDC gateways implement
\* the canonical bridge, whatever the order of the steps of a migration.
THEOREM UsdcRefinement == Spec => UsdcImplementsBridge
<1>1. Init => UsdcCanonical!Init
  BY TotalAmountEmpty DEF Init, UsdcCanonical!Init, lockedOrBurned, owed, leftOver
<1>2. AccountsInv => UsdcCovered
  BY UsdcCovers
<1>3. AccountsInv /\ UsdcCovered /\ UsdcCovered' /\ [Next]_vars
        => [UsdcCanonical!Next]_(UsdcCanonical!vars)
  BY UsdcCanonicalStep
<1> QED  BY <1>1, <1>2, <1>3, AccountsHold, PTL
         DEF Spec, UsdcImplementsBridge, UsdcCanonical!Spec
=============================================================================
