----------------------------- MODULE Messaging -----------------------------
(***************************************************************************)
(* The two message channels between the chains, as the gateways use them:  *)
(* retryable tickets from L1 to L2 and outbox messages from L2 to L1.      *)
(* The inbox, the retryable-ticket precompile and the outbox belong to     *)
(* Nitro, not to this repository; they are modelled from how               *)
(* L1ArbitrumMessenger and L2ArbitrumMessenger use them.                   *)
(*                                                                         *)
(* A ticket is created once, may be redeemed in any order relative to      *)
(* other tickets (its automatic redeem may fail and anybody may retry it   *)
(* later), takes effect at most once, and is gone without effect if it is  *)
(* cancelled by its call-value refund address or expires.  An outbox       *)
(* message may be executed in any order, at most once, and never expires.  *)
(***************************************************************************)
EXTENDS Naturals, FiniteSets

CONSTANTS
  Users,        \* accounts, on either chain
  L1Tokens,     \* L1 addresses that hold an ERC20 contract
  L2Tokens,     \* L2 addresses an L1 token may be registered with
  Zero,         \* address(0)
  MaxTickets    \* bound on the tickets ever created

ASSUME MessagingAssumption ==
  /\ IsFiniteSet(Users) /\ IsFiniteSet(L1Tokens) /\ IsFiniteSet(L2Tokens)
  /\ Zero \notin L2Tokens
  /\ MaxTickets \in Nat

VARIABLES
  depositTickets,    \* tickets calling L2 finalizeInboundTransfer
  registerTickets,   \* tickets calling registerTokenFromL1
  seqNum,            \* next inbox sequence number
  outbox,            \* L2-to-L1 messages not executed yet
  spent              \* L2-to-L1 messages already executed

ticketVars == <<depositTickets, registerTickets, seqNum>>
outboxVars == <<outbox, spent>>

\* What a registration may name as an L2 counterpart.
L2Addresses == L2Tokens \cup {Zero}

\* A list of (L1 token, L2 address) pairs, as a partial function: of two
\* entries for one token the loop that applies the list keeps the last.
Registrations == UNION {[S -> L2Addresses] : S \in SUBSET L1Tokens}

DepositTicket ==
  [id : Nat, token : L1Tokens, from : Users, to : Users, amount : Nat]
RegisterTicket == [id : Nat, mapping : Registrations]
ExitMessage == [exitNum : Nat, token : L1Tokens, to : Users, amount : Nat]

MessagingTypeOK ==
  /\ depositTickets \subseteq DepositTicket
  /\ registerTickets \subseteq RegisterTicket
  /\ seqNum \in Nat
  /\ outbox \subseteq ExitMessage
  /\ spent \subseteq ExitMessage

MessagingInit ==
  /\ depositTickets = {}
  /\ registerTickets = {}
  /\ seqNum = 0
  /\ outbox = {}
  /\ spent = {}

\* createRetryableTicket with the calldata of a deposit.
sendDepositTicket(token, from, to, amount) ==
  /\ seqNum < MaxTickets
  /\ depositTickets' = depositTickets \cup
       {[id |-> seqNum, token |-> token, from |-> from, to |-> to, amount |-> amount]}
  /\ seqNum' = seqNum + 1
  /\ UNCHANGED registerTickets

\* createRetryableTicket with the calldata of a registration.
sendRegisterTicket(mapping) ==
  /\ seqNum < MaxTickets
  /\ registerTickets' = registerTickets \cup {[id |-> seqNum, mapping |-> mapping]}
  /\ seqNum' = seqNum + 1
  /\ UNCHANGED depositTickets

\* ArbSys.sendTxToL1.
sendTxToL1(exitNum, token, to, amount) ==
  /\ outbox' = outbox \cup
       {[exitNum |-> exitNum, token |-> token, to |-> to, amount |-> amount]}
  /\ UNCHANGED spent

\* A ticket leaves the queue with its redemption, its cancellation or its
\* expiry.
consumeDepositTicket(m) ==
  /\ m \in depositTickets
  /\ depositTickets' = depositTickets \ {m}
  /\ UNCHANGED <<registerTickets, seqNum>>

consumeRegisterTicket(m) ==
  /\ m \in registerTickets
  /\ registerTickets' = registerTickets \ {m}
  /\ UNCHANGED <<depositTickets, seqNum>>

\* Outbox.executeTransaction: the message is marked spent.
executeExit(e) ==
  /\ e \in outbox
  /\ outbox' = outbox \ {e}
  /\ spent' = spent \cup {e}
=============================================================================
