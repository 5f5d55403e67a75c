--------------------------- MODULE ReverseBridge ---------------------------
(***************************************************************************)
(* L1ReverseCustomGateway and L2ReverseCustomGateway, for a token whose    *)
(* supply is kept on L2: a withdrawal escrows on L2 and mints on L1, a     *)
(* deposit burns on L1 and releases on L2.  Registration is that of the    *)
(* custom gateways; the L2 token may withhold a fee on transfers and its   *)
(* issuer mints on L2 at will.  One L1 token is modelled; amounts of all   *)
(* users are pooled.                                                       *)
(*                                                                         *)
(* Every L2 token of this module is an IArbToken of the L1 token, deployed *)
(* or not yet.  The L1 token is minted and burnt by the gateway alone.     *)
(*                                                                         *)
(* History: l2Surplus counts units of escrow nobody is owed, moved says    *)
(* whether the owner has ever registered a second L2 token.                *)
(***************************************************************************)
EXTENDS Tally, Transfers

CONSTANTS
  L2Tokens,      \* L2 tokens
  Zero,          \* address(0)
  MaxSupply,     \* bound on what the issuer mints on L2
  TransferFee,   \* what a transfer of the L2 token withholds
  MaxRegistrations

ASSUME ReverseAssumption ==
  /\ IsFiniteSet(L2Tokens) /\ L2Tokens # {} /\ Zero \notin L2Tokens
  /\ MaxSupply \in Nat /\ TransferFee \in Nat /\ MaxRegistrations \in Nat

VARIABLES
  l1ToL2Token_L1, l1ToL2Token_L2,
  registrations,   \* tickets calling registerTokenFromL1
  registered,      \* number of registrations sent
  l1Supply,        \* units of the L1 token
  deployed,        \* L2 tokens that have code
  l2Balance,       \* per L2 token, what users hold
  l2Escrow,        \* per L2 token, what the L2 gateway holds
  minted,          \* per L2 token, what the issuer has minted
  l2Surplus, moved

l1Vars == <<l1ToL2Token_L1, registered, l1Supply>>
l2Vars == <<l1ToL2Token_L2, deployed, l2Balance, l2Escrow, minted>>
reverseVars == <<l1Vars, l2Vars, registrations, messages, l2Surplus, moved>>

L2Addresses == L2Tokens \cup {Zero}
ReverseMessage == [id : Nat, amount : Nat]

ReverseTypeOK ==
  /\ l1ToL2Token_L1 \in L2Addresses /\ l1ToL2Token_L2 \in L2Addresses
  /\ registrations \subseteq [id : Nat, l2Address : L2Addresses] /\ registered \in Nat
  /\ l1Supply \in Nat
  /\ deployed \subseteq L2Tokens
  /\ l2Balance \in [L2Tokens -> Nat] /\ l2Escrow \in [L2Tokens -> Nat]
  /\ minted \in [L2Tokens -> Nat]
  /\ deposits \subseteq ReverseMessage /\ exits \subseteq ReverseMessage /\ sent \in Nat
  /\ l2Surplus \in Nat /\ moved \in BOOLEAN

ReverseInit ==
  /\ l1ToL2Token_L1 = Zero /\ l1ToL2Token_L2 = Zero
  /\ registrations = {} /\ registered = 0
  /\ l1Supply = 0
  /\ deployed = {}
  /\ l2Balance = [x \in L2Tokens |-> 0] /\ l2Escrow = [x \in L2Tokens |-> 0]
  /\ minted = [x \in L2Tokens |-> 0]
  /\ deposits = {} /\ exits = {} /\ sent = 0
  /\ l2Surplus = 0 /\ moved = FALSE

-----------------------------------------------------------------------------
(* L1ReverseCustomGateway *)

\* bridgeBurn of the L1 token reverts unless the depositor has the amount.
mayBurnOnL1(a) == a <= l1Supply

\* outboundTransferCustomRefund with outboundEscrowTransfer of the reverse
\* gateway: the amount asked for is the amount burnt.
depositReverse(a) ==
  /\ sent < MaxMessages
  /\ l1ToL2Token_L1 # Zero                           \* NO_L2_TOKEN_SET
  /\ mayBurnOnL1(a)                                  \* bridgeBurn
  /\ l1Supply' = l1Supply - a
  /\ deposits' = deposits \cup {[id |-> sent, amount |-> a]}
  /\ sent' = sent + 1
  /\ UNCHANGED <<l1ToL2Token_L1, registered, l2Vars, registrations, exits, l2Surplus, moved>>

\* finalizeInboundTransfer with inboundEscrowTransfer of the reverse gateway:
\* bridgeMint, which needs no escrow.
finalizeReverseExit(e) ==
  /\ exits' = exits \ {e}
  /\ l1Supply' = l1Supply + e.amount
  /\ UNCHANGED <<l1ToL2Token_L1, registered, l2Vars, registrations, deposits, sent, l2Surplus, moved>>

\* registerTokenToL2 of the token or forceRegisterTokenToL2 of the owner; only
\* the latter registers a second address (L1CustomGateway has the guards).
register(x) ==
  /\ registered < MaxRegistrations
  /\ l1ToL2Token_L1' = x
  /\ registrations' = registrations \cup {[id |-> registered, l2Address |-> x]}
  /\ registered' = registered + 1
  /\ moved' = (moved \/ (registered > 0 /\ x # l1ToL2Token_L1))
  /\ UNCHANGED <<l1Supply, l2Vars, messages, l2Surplus>>

-----------------------------------------------------------------------------
(* L2ReverseCustomGateway *)

\* registerTokenFromL1.
registerTokenFromL1(m) ==
  /\ registrations' = registrations \ {m}
  /\ l1ToL2Token_L2' = m.l2Address
  /\ UNCHANGED <<l1Vars, deployed, l2Balance, l2Escrow, minted, messages, l2Surplus, moved>>

\* What arrives of a transfer of the L2 token.
received(a) == IF a > TransferFee THEN a - TransferFee ELSE 0

\* The mistake of trusting the requested amount.
requestedAmount(x, a) == a

\* outboundEscrowTransfer of the reverse gateway: what is withdrawn is the
\* growth of the gateway's balance.
amountEscrowed(x, a) ==
  LET prevBalance == l2Escrow[x]
      postBalance == l2Escrow[x] + received(a)
  IN  postBalance - prevBalance

\* outboundTransfer.
withdrawReverse(a) ==
  LET x == l1ToL2Token_L2
  IN  /\ sent < MaxMessages
      /\ x \in deployed                              \* TOKEN_NOT_DEPLOYED
      /\ a <= l2Balance[x]                           \* safeTransferFrom
      /\ l2Balance' = [l2Balance EXCEPT ![x] = @ - a]
      /\ l2Escrow' = [l2Escrow EXCEPT ![x] = @ + received(a)]
      /\ exits' = exits \cup {[id |-> sent, amount |-> amountEscrowed(x, a)]}
      /\ sent' = sent + 1
      /\ UNCHANGED <<l1Vars, l1ToL2Token_L2, deployed, minted, registrations, deposits,
                     l2Surplus, moved>>

\* finalizeInboundTransfer with inboundEscrowTransfer of the reverse gateway:
\* safeTransfer out of escrow, which reverts if escrow is short.
release(m) ==
  LET x == l1ToL2Token_L2
  IN  /\ x \in deployed
      /\ m.amount <= l2Escrow[x]                     \* safeTransfer
      /\ deposits' = deposits \ {m}
      /\ l2Escrow' = [l2Escrow EXCEPT ![x] = @ - m.amount]
      /\ l2Balance' = [l2Balance EXCEPT ![x] = @ + received(m.amount)]
      /\ UNCHANGED <<l1Vars, l1ToL2Token_L2, deployed, minted, registrations, exits, sent,
                     l2Surplus, moved>>

\* The mistake of not sending the deposit back.
neverBounce == FALSE

\* handleNoContract applies: nothing is registered, or no code is there.
noContract == l1ToL2Token_L2 \notin deployed

\* finalizeInboundTransfer otherwise: the deposit goes back to L1.
bounceReverseDeposit(m) ==
  /\ noContract
  /\ deposits' = deposits \ {m}
  /\ exits' = exits \cup {m}
  /\ UNCHANGED <<l1Vars, l2Vars, registrations, sent, l2Surplus, moved>>

\* The issuer of an L2 token deploys it and mints.
deployL2Token(x) ==
  /\ x \notin deployed
  /\ deployed' = deployed \cup {x}
  /\ UNCHANGED <<l1Vars, l1ToL2Token_L2, l2Balance, l2Escrow, minted, registrations, messages,
                 l2Surplus, moved>>

mintOnL2(x, a) ==
  /\ x \in deployed /\ minted[x] + a <= MaxSupply
  /\ minted' = [minted EXCEPT ![x] = @ + a]
  /\ l2Balance' = [l2Balance EXCEPT ![x] = @ + a]
  /\ UNCHANGED <<l1Vars, l1ToL2Token_L2, deployed, l2Escrow, registrations, messages,
                 l2Surplus, moved>>

\* A ticket expires or is cancelled.
dropReverseDeposit(m) ==
  /\ deposits' = deposits \ {m}
  /\ l2Surplus' = l2Surplus + m.amount
  /\ UNCHANGED <<l1Vars, l2Vars, registrations, exits, sent, moved>>

ReverseNext ==
  \/ \E a \in Amounts : depositReverse(a) \/ withdrawReverse(a)
  \/ \E e \in exits : finalizeReverseExit(e)
  \/ \E x \in L2Addresses : register(x)
  \/ \E m \in registrations : registerTokenFromL1(m)
  \/ \E m \in deposits : release(m) \/ bounceReverseDeposit(m) \/ dropReverseDeposit(m)
  \/ \E x \in L2Tokens : deployL2Token(x)
  \/ \E x \in L2Tokens, a \in Amounts : mintOnL2(x, a)

ReverseSpec == ReverseInit /\ [][ReverseNext]_reverseVars

\* Tickets are redeemed automatically or by anybody, exits are executed by
\* anybody.
ReverseFairness ==
  /\ \A n \in 0 .. MaxMessages :
       WF_reverseVars(\E m \in deposits : m.id = n /\ (release(m) \/ bounceReverseDeposit(m)))
  /\ \A n \in 0 .. MaxMessages : WF_reverseVars(\E e \in exits : e.id = n /\ finalizeReverseExit(e))

ReverseFairSpec == ReverseSpec /\ ReverseFairness

-----------------------------------------------------------------------------
\* Every unit of the L1 token, and every unit on its way, is escrowed on L2:
\* with fees on transfers, deposits sent back, and whatever L2 token is
\* registered at the moment.
BackedOnL2 ==
  Tally(l2Escrow, L2Tokens)
    = l1Supply + TotalAmount(deposits) + TotalAmount(exits) + l2Surplus

\* Exits never wait, deposits that find no token are sent back, and a deposit
\* waits for escrow only if the owner has registered a second L2 token, whose
\* escrow is not the one its units were withdrawn into.
ReverseTransfersSettle ==
  <>[](/\ exits = {}
       /\ \A m \in deposits : moved /\ l1ToL2Token_L2 \in deployed /\ m.amount > l2Escrow[l1ToL2Token_L2])

\* What the L2 gateway holds of all L2 tokens, what it owes (units of the L1
\* token, and messages), and the rest.
lockedOnL2 == [t \in {"L1Token"} |-> Tally(l2Escrow, L2Tokens)]
owedOnL1 == [t \in {"L1Token"} |-> l1Supply + TotalAmount(deposits) + TotalAmount(exits)]
surplusOnL2 == [t \in {"L1Token"} |-> l2Surplus]

\* The pair of gateways is a bridge the other way round.
ReverseCanonical == INSTANCE CanonicalBridge
  WITH Tokens <- {"L1Token"}, Quantities <- {received(a) : a \in Amounts},
       locked <- lockedOnL2, claims <- owedOnL1, surplus <- surplusOnL2

\* Units of the L1 token are minted only for units that arrived in escrow on L2,
\* and escrow is paid out only for units burnt.
ReverseImplementsBridge == ReverseCanonical!Spec
=============================================================================
