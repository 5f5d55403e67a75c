-------------------------- MODULE L1CustomGateway --------------------------
(***************************************************************************)
(* L1CustomGateway and the contracts it inherits from                      *)
(* (L1ArbitrumExtendedGateway, L1ArbitrumGateway): deposits into escrow,   *)
(* the registration of L2 counterparts, withdrawals out of escrow and      *)
(* tradeable exits.  One action is one successful transaction; a call      *)
(* that reverts changes nothing.  msg.sender is a parameter where the code *)
(* tests it.  The nonReentrant status is NOT_ENTERED between transactions. *)
(***************************************************************************)
EXTENDS Messaging

CONSTANTS
  Amounts,          \* amounts a caller asks to move
  MaxAmount,        \* their upper bound
  InitialBalance,   \* what every user holds of every L1 token at the start
  TransferFee,      \* per L1 token, what a transfer of it withholds
  ArbEnabled,       \* L1 tokens whose isArbitrumEnabled() answers 0xb1
  Admins,           \* accounts that may become the gateway's owner
  TradedExits       \* bound on the exit numbers that are traded

ASSUME L1GatewayAssumption ==
  /\ MaxAmount \in Nat
  /\ Amounts \subseteq 0 .. MaxAmount
  /\ InitialBalance \in Nat
  /\ TransferFee \in [L1Tokens -> Nat]
  /\ ArbEnabled \subseteq L1Tokens
  /\ Admins # {}
  /\ TradedExits \subseteq Nat

VARIABLES
  l1Balance,          \* L1 ERC20 balances of users
  escrow,             \* L1 ERC20 balance of the gateway, per token
  l1ToL2Token_L1,     \* l1ToL2Token of the L1 gateway
  owner,
  redirectedExits     \* (exitNum, initial destination) -> new destination

l1Vars == <<l1Balance, escrow, l1ToL2Token_L1, owner, redirectedExits>>

L1TypeOK ==
  /\ l1Balance \in [L1Tokens \X Users -> Nat]
  /\ escrow \in [L1Tokens -> Nat]
  /\ l1ToL2Token_L1 \in [L1Tokens -> L2Addresses]
  /\ owner \in Admins
  /\ redirectedExits \in UNION {[S -> Users] : S \in SUBSET (TradedExits \X Users)}

\* initialize: the gateway holds nothing and no token is registered.
L1Init ==
  /\ l1Balance = [p \in L1Tokens \X Users |-> InitialBalance]
  /\ escrow = [t \in L1Tokens |-> 0]
  /\ l1ToL2Token_L1 = [t \in L1Tokens |-> Zero]
  /\ owner \in Admins
  /\ redirectedExits = [k \in {} |-> k]

-----------------------------------------------------------------------------
(* Deposits *)

\* What arrives of an ERC20 transfer of amount a: some tokens withhold a fee.
received(t, a) == IF a > TransferFee[t] THEN a - TransferFee[t] ELSE 0

\* The mistake of trusting the requested amount.
requestedAmount(t, a) == a

\* The mistake of subtracting the balances the wrong way round.
swappedBalances(t, a) == escrow[t] - (escrow[t] + received(t, a))

\* outboundEscrowTransfer: what is credited is the growth of the gateway's
\* balance, not the amount asked for.
amountReceived(t, a) ==
  LET prevBalance == escrow[t]
      postBalance == escrow[t] + received(t, a)
  IN  postBalance - prevBalance

\* outboundTransferCustomRefund, called through the router for _from.
outboundTransferCustomRefund(t, from, to, a) ==
  /\ l1ToL2Token_L1[t] # Zero                        \* NO_L2_TOKEN_SET
  /\ a <= l1Balance[<<t, from>>]                         \* safeTransferFrom
  /\ l1Balance' = [l1Balance EXCEPT ![<<t, from>>] = @ - a]
  /\ escrow' = [escrow EXCEPT ![t] = @ + received(t, a)]
  /\ sendDepositTicket(t, from, to, amountReceived(t, a))
  /\ UNCHANGED <<l1ToL2Token_L1, owner, redirectedExits, outboxVars>>

\* Any holder may transfer tokens to the gateway's address directly.
donate(t, from, a) ==
  /\ a <= l1Balance[<<t, from>>]
  /\ l1Balance' = [l1Balance EXCEPT ![<<t, from>>] = @ - a]
  /\ escrow' = [escrow EXCEPT ![t] = @ + received(t, a)]
  /\ UNCHANGED <<l1ToL2Token_L1, owner, redirectedExits, ticketVars, outboxVars>>

-----------------------------------------------------------------------------
(* Registration of L2 counterparts *)

anyUpdate(t, x) == TRUE

\* A token that is already set may not be set to a different L2 address.
mayRegister(t, x) == l1ToL2Token_L1[t] # Zero => l1ToL2Token_L1[t] = x

\* registerTokenToL2, called by the token contract itself.
registerTokenToL2(t, x) ==
  /\ t \in ArbEnabled                                \* NOT_ARB_ENABLED
  /\ mayRegister(t, x)                               \* NO_UPDATE_TO_DIFFERENT_ADDR
  /\ l1ToL2Token_L1' = [l1ToL2Token_L1 EXCEPT ![t] = x]
  /\ sendRegisterTicket([s \in {t} |-> x])
  /\ UNCHANGED <<l1Balance, escrow, owner, redirectedExits, outboxVars>>

\* forceRegisterTokenToL2, called by the owner with a list of pairs: it
\* overwrites what is registered.
forceRegisterTokenToL2(sender, mapping) ==
  /\ sender = owner                                  \* ONLY_OWNER
  /\ l1ToL2Token_L1' = [t \in L1Tokens |->
       IF t \in DOMAIN mapping THEN mapping[t] ELSE l1ToL2Token_L1[t]]
  /\ sendRegisterTicket(mapping)
  /\ UNCHANGED <<l1Balance, escrow, owner, redirectedExits, outboxVars>>

setOwner(sender, newOwner) ==
  /\ sender = owner                                  \* ONLY_OWNER
  /\ owner' = newOwner
  /\ UNCHANGED <<l1Balance, escrow, l1ToL2Token_L1, redirectedExits,
                 ticketVars, outboxVars>>

-----------------------------------------------------------------------------
(* Withdrawals and tradeable exits *)

\* The mistake of identifying an exit by its number alone.
exitNumOnly(exitNum, initialDestination) ==
  IF \E u \in Users : <<exitNum, u>> \in DOMAIN redirectedExits
  THEN redirectedExits[CHOOSE k \in DOMAIN redirectedExits : k[1] = exitNum]
  ELSE initialDestination

\* getExternalCall: who receives the exit now.
getExternalCall(exitNum, initialDestination) ==
  IF <<exitNum, initialDestination>> \in DOMAIN redirectedExits
  THEN redirectedExits[<<exitNum, initialDestination>>]
  ELSE initialDestination

\* transferExitAndCall, with setRedirectedExit.  The exit need not exist yet
\* and may already be executed.  A hook on the new destination runs after the
\* redirection is stored, so what it calls is a later transaction here.
transferExitAndCall(sender, exitNum, initialDestination, newDestination) ==
  /\ sender = getExternalCall(exitNum, initialDestination)  \* NOT_EXPECTED_SENDER
  /\ redirectedExits' =
       [k \in DOMAIN redirectedExits \cup {<<exitNum, initialDestination>>} |->
          IF k = <<exitNum, initialDestination>>
          THEN newDestination ELSE redirectedExits[k]]
  /\ UNCHANGED <<l1Balance, escrow, l1ToL2Token_L1, owner, ticketVars, outboxVars>>

\* finalizeInboundTransfer, executed by the outbox: the current holder of the
\* exit is paid out of escrow; safeTransfer reverts if escrow is short.
L1_finalizeInboundTransfer(e) ==
  LET to == getExternalCall(e.exitNum, e.to)
  IN  /\ executeExit(e)
      /\ e.amount <= escrow[e.token]
      /\ escrow' = [escrow EXCEPT ![e.token] = @ - e.amount]
      /\ l1Balance' = [l1Balance EXCEPT ![<<e.token, to>>] = @ + received(e.token, e.amount)]
      /\ UNCHANGED <<l1ToL2Token_L1, owner, redirectedExits, ticketVars>>
=============================================================================
