---------------------------- MODULE CustomBridge ----------------------------
(***************************************************************************)
(* The custom-gateway bridge: the L1 and the L2 gateway, joined by the     *)
(* message channels, with users, token contracts and the gateway's owner   *)
(* acting in any order.                                                    *)
(*                                                                         *)
(* Three history variables are not part of the contracts.  surplus counts, *)
(* per L1 token, the escrowed units nobody is owed: deposits whose ticket  *)
(* was cancelled or expired, and tokens sent to the gateway directly.      *)
(* forced is the set of L1 tokens whose registration the owner has forced. *)
(* trades holds <<n, u, v>> when u has passed exit number n on to v.       *)
(***************************************************************************)
EXTENDS L1CustomGateway, L2CustomGateway, Tally

CONSTANT TicketsExpire   \* whether tickets may be cancelled or expire

ASSUME BridgeAssumption == TicketsExpire \in BOOLEAN

VARIABLES surplus, forced, trades

history == <<surplus, forced, trades>>
vars == <<ticketVars, outboxVars, l1Vars, l2Vars, history>>

Init ==
  /\ MessagingInit
  /\ L1Init
  /\ L2Init
  /\ surplus = [t \in L1Tokens |-> 0]
  /\ forced = {}
  /\ trades = {}

-----------------------------------------------------------------------------
Deposit(t, from, to, a) ==
  /\ outboundTransferCustomRefund(t, from, to, a)
  /\ UNCHANGED <<l2Vars, history>>

Donate(t, from, a) ==
  /\ donate(t, from, a)
  /\ surplus' = [surplus EXCEPT ![t] = @ + received(t, a)]
  /\ UNCHANGED <<l2Vars, forced, trades>>

Register(t, x) ==
  /\ registerTokenToL2(t, x)
  /\ UNCHANGED <<l2Vars, history>>

ForceRegister(sender, mapping) ==
  /\ forceRegisterTokenToL2(sender, mapping)
  /\ forced' = forced \cup DOMAIN mapping
  /\ UNCHANGED <<l2Vars, surplus, trades>>

SetOwner(sender, newOwner) ==
  /\ setOwner(sender, newOwner)
  /\ UNCHANGED <<l2Vars, history>>

TransferExit(sender, n, initialDestination, newDestination) ==
  /\ transferExitAndCall(sender, n, initialDestination, newDestination)
  /\ trades' = trades \cup {<<n, sender, newDestination>>}
  /\ UNCHANGED <<l2Vars, surplus, forced>>

FinalizeWithdrawal(e) ==
  /\ L1_finalizeInboundTransfer(e)
  /\ UNCHANGED <<l2Vars, history>>

DeployToken(x, a) ==
  /\ deployL2Token(x, a)
  /\ UNCHANGED <<l1Vars, history>>

RedeemRegistration(m) ==
  /\ registerTokenFromL1(m)
  /\ UNCHANGED <<l1Vars, history>>

RedeemDeposit(m) ==
  /\ L2_finalizeInboundTransfer(m)
  /\ UNCHANGED <<l1Vars, history>>

Withdraw(t, from, to, a) ==
  /\ outboundTransfer(t, from, to, a)
  /\ UNCHANGED <<l1Vars, history>>

\* The depositor cancels the ticket, or nobody redeems it in time.
DropDeposit(m) ==
  /\ TicketsExpire
  /\ consumeDepositTicket(m)
  /\ surplus' = [surplus EXCEPT ![m.token] = @ + m.amount]
  /\ UNCHANGED <<l1Vars, l2Vars, outboxVars, forced, trades>>

DropRegistration(m) ==
  /\ TicketsExpire
  /\ consumeRegisterTicket(m)
  /\ UNCHANGED <<l1Vars, l2Vars, outboxVars, history>>

Next ==
  \/ \E t \in L1Tokens, from \in Users, to \in Users, a \in Amounts :
       Deposit(t, from, to, a)
  \/ \E t \in L1Tokens, from \in Users, a \in Amounts : Donate(t, from, a)
  \/ \E t \in L1Tokens, x \in L2Addresses : Register(t, x)
  \/ \E sender \in Admins, mapping \in Registrations : ForceRegister(sender, mapping)
  \/ \E sender \in Admins, newOwner \in Admins : SetOwner(sender, newOwner)
  \/ \E sender \in Users, n \in TradedExits, u \in Users, newTo \in Users :
       TransferExit(sender, n, u, newTo)
  \/ \E e \in outbox : FinalizeWithdrawal(e)
  \/ \E x \in L2Tokens, a \in L1Tokens \cup {NotArbToken} : DeployToken(x, a)
  \/ \E m \in registerTickets : RedeemRegistration(m)
  \/ \E m \in depositTickets : RedeemDeposit(m)
  \/ \E t \in L1Tokens, from \in Users, to \in Users, a \in WithdrawAmounts :
       Withdraw(t, from, to, a)
  \/ \E m \in depositTickets : DropDeposit(m)
  \/ \E m \in registerTickets : DropRegistration(m)

Spec == Init /\ [][Next]_vars

\* A ticket that was paid for is redeemed automatically or by anybody who
\* retries it, and anybody may execute an outbox message once it is confirmed.
Fairness ==
  /\ \A n \in 0 .. MaxTickets : WF_vars(\E m \in depositTickets : m.id = n /\ RedeemDeposit(m))
  /\ \A n \in 0 .. MaxTickets + MaxExits :
       WF_vars(\E e \in outbox : e.exitNum = n /\ FinalizeWithdrawal(e))

FairSpec == Spec /\ Fairness

-----------------------------------------------------------------------------
\* The accounts that hold an L2 token standing for the L1 token t.
HoldersOf(t) == {p \in L2Tokens \X Users : l1Address[p[1]] = t}

\* L2 units that stand for a unit of t.
Minted(t) == Tally(l2Balance, HoldersOf(t))

\* All that the bridge owes in t: on L2, on its way to L2, on its way back.
Claims(t) == Minted(t) + TotalAmount(About(depositTickets, t)) + TotalAmount(About(outbox, t))

TypeOK ==
  /\ MessagingTypeOK
  /\ L1TypeOK
  /\ L2TypeOK
  /\ surplus \in [L1Tokens -> Nat]
  /\ forced \subseteq L1Tokens
  /\ trades \subseteq TradedExits \X Users \X Users

\* The gateway holds exactly what it owes and the surplus: across fee-taking
\* tokens, deposits sent back, forced re-registrations applied in any order,
\* and tickets that are dropped, no L2 unit and no exit is ever unbacked.
Solvent == \A t \in L1Tokens : escrow[t] = Claims(t) + surplus[t]

\* The message identifiers in use lie below the two counters, the sets of
\* messages are finite, and an address without code has no balances.
Bookkeeping ==
  /\ IsFiniteSet(depositTickets) /\ IsFiniteSet(outbox)
  /\ \A m \in depositTickets : m.id < seqNum
  /\ \A e \in outbox \cup spent : e.exitNum < exitNum
  /\ \A p \in L2Tokens \X Users : l1Address[p[1]] = NoCode => l2Balance[p] = 0

\* The assumption encodeWithdrawal makes of the L2 gateway: an exit number
\* belongs to one exit, whether it comes from a withdrawal or from a deposit
\* sent back, executed or not.
ExitNumsUnique ==
  /\ \A e, f \in outbox \cup spent : e.exitNum = f.exitNum => e = f
  /\ outbox \cap spent = {}

\* Nobody loses an exit without trading it: if the users of a set have passed
\* exit n on only among themselves, then an exit n addressed to one of them is
\* payable to one of them, whatever others did with the number n before or
\* after the withdrawal was made.
OnlyHoldersTradeExits ==
  \A n \in TradedExits, u \in Users, S \in SUBSET Users :
    /\ u \in S
    /\ \A v \in S, w \in Users : <<n, v, w>> \in trades => w \in S
    => getExternalCall(n, u) \in S

\* A token the owner never touched is registered on L2 with what L1 has for
\* it or not at all, whatever the order in which registrations are redeemed
\* and however often the token repeats them.
SelfRegistrationsAgree ==
  \A t \in L1Tokens \ forced : l1ToL2Token_L2[t] \in {Zero, l1ToL2Token_L1[t]}

\* The same of the registrations still on their way, with which the fact
\* above becomes inductive.
RegistrationsInFlightAgree ==
  \A m \in registerTickets : \A t \in DOMAIN m.mapping \ forced :
    m.mapping[t] \in {Zero, l1ToL2Token_L1[t]}

\* A user's L2 tokens of an L1 token the owner never touched stay withdrawable
\* once the registration they were minted under is in force: the token minted
\* is always the one that is burnt.
MintedUnderRegistration ==
  \A t \in L1Tokens \ forced, x \in L2Tokens, u \in Users :
    l1Address[x] = t /\ l2Balance[<<x, u>>] > 0 => l1ToL2Token_L1[t] = x

\* Every deposit and every withdrawal settles: when users stop, what is left
\* in escrow backs L2 tokens or is surplus.
EventuallySettled ==
  <>[](depositTickets = {} /\ outbox = {})

\* The bridge implements the canonical bridge: crediting a deposit, sending
\* it back and starting a withdrawal only change the form of a claim.
Canonical == INSTANCE CanonicalBridge
  WITH Tokens <- L1Tokens, Quantities <- 0 .. MaxAmount,
       locked <- escrow, claims <- [t \in L1Tokens |-> Claims(t)], surplus <- surplus

ImplementsCanonicalBridge == Canonical!Spec
=============================================================================
