----------------------------- MODULE UsdcBridge -----------------------------
(***************************************************************************)
(* L1USDCGateway and L2USDCGateway: a bridge for the single pair of L1     *)
(* USDC and bridged L2 USDC that can be turned into native USDC.  For the  *)
(* migration the owners pause deposits on L1 and withdrawals on L2, the L1 *)
(* owner sets an amount, the burner burns it out of escrow, and the roles  *)
(* of the L2 token are handed over.  The token's master minter, a role of  *)
(* its own, may take the minter role from the gateway at any time.         *)
(* Nothing in the contracts orders these steps beyond the guards shown,    *)
(* and users act in between.                                               *)
(*                                                                         *)
(* History: surplus counts units of escrow nobody is owed, burned what was *)
(* burnt on L1, amountSafe says whether the burn amount was set while      *)
(* withdrawals were paused, to no more than the L2 supply left to burn     *)
(* for, and whether they have been paused since; improper says whether an  *)
(* amount was burnt that was not safe or withdrawals were resumed after a  *)
(* burn.                                                                   *)
(***************************************************************************)
EXTENDS Tally, Transfers

CONSTANTS
  Wallet,       \* L1 USDC that users hold at the start
  Admins,       \* accounts that may hold the gateways' roles
  NoAdmin       \* a role that is not given

ASSUME UsdcAssumption == Wallet \in Nat /\ NoAdmin \notin Admins

VARIABLES
  l1Owner, burner, depositsPaused, burnAmount,             \* L1USDCGateway
  l2Owner, usdcOwnershipTransferrer, withdrawalsPaused,    \* L2USDCGateway
  wallet,         \* L1 USDC held by users
  escrow,         \* L1 USDC held by the gateway
  supply,         \* L2 USDC in circulation
  l2USDCExists,   \* code at l2USDC
  gatewayOwnsUSDC,   \* the L2 gateway is owner and proxy admin of L2 USDC
  gatewayMints,      \* the L2 gateway is a minter of L2 USDC
  surplus, burned, amountSafe, improper

l1Control == <<l1Owner, burner, depositsPaused, burnAmount>>
l2Control == <<l2Owner, usdcOwnershipTransferrer, withdrawalsPaused>>
l2Token == <<l2USDCExists, gatewayOwnsUSDC, gatewayMints>>
funds == <<wallet, escrow, supply, deposits, exits, sent, surplus>>
history == <<burned, amountSafe, improper>>
vars == <<l1Control, l2Control, l2Token, funds, history>>

Message == [id : Nat, amount : Nat]

TypeOK ==
  /\ l1Owner \in Admins /\ burner \in Admins \cup {NoAdmin}
  /\ depositsPaused \in BOOLEAN /\ burnAmount \in Nat
  /\ l2Owner \in Admins /\ usdcOwnershipTransferrer \in Admins \cup {NoAdmin}
  /\ withdrawalsPaused \in BOOLEAN
  /\ wallet \in Nat /\ escrow \in Nat /\ supply \in Nat
  /\ l2USDCExists \in BOOLEAN /\ gatewayOwnsUSDC \in BOOLEAN /\ gatewayMints \in BOOLEAN
  /\ deposits \subseteq Message /\ exits \subseteq Message
  /\ sent \in Nat /\ surplus \in Nat /\ burned \in Nat
  /\ amountSafe \in BOOLEAN /\ improper \in BOOLEAN

\* initialize on both gateways.  The L2 token is deployed with the gateway as
\* its owner, admin and minter, possibly after the gateways.
Init ==
  /\ l1Owner \in Admins /\ burner = NoAdmin
  /\ depositsPaused = FALSE /\ burnAmount = 0
  /\ l2Owner \in Admins /\ usdcOwnershipTransferrer = NoAdmin
  /\ withdrawalsPaused = FALSE
  /\ wallet = Wallet /\ escrow = 0 /\ supply = 0
  /\ l2USDCExists \in BOOLEAN /\ gatewayOwnsUSDC = TRUE /\ gatewayMints = TRUE
  /\ deposits = {} /\ exits = {} /\ sent = 0
  /\ surplus = 0 /\ burned = 0 /\ amountSafe = FALSE /\ improper = FALSE

-----------------------------------------------------------------------------
(* L1USDCGateway *)

pauseDeposits(sender) ==
  /\ sender = l1Owner /\ ~ depositsPaused            \* NotOwner, DepositsAlreadyPaused
  /\ depositsPaused' = TRUE
  /\ UNCHANGED <<l1Owner, burner, burnAmount, l2Control, l2Token, funds, history>>

unpauseDeposits(sender) ==
  /\ sender = l1Owner /\ depositsPaused              \* NotOwner, DepositsAlreadyUnpaused
  /\ depositsPaused' = FALSE
  /\ UNCHANGED <<l1Owner, burner, burnAmount, l2Control, l2Token, funds, history>>

setBurner(sender, newBurner) ==
  /\ sender = l1Owner                                \* NotOwner
  /\ burner' = newBurner
  /\ UNCHANGED <<l1Owner, depositsPaused, burnAmount, l2Control, l2Token, funds, history>>

setBurnAmount(sender, a) ==
  /\ sender = l1Owner                                \* NotOwner
  /\ burnAmount' = a
  /\ amountSafe' = (withdrawalsPaused /\ burned + a <= supply)
  /\ UNCHANGED <<l1Owner, burner, depositsPaused, l2Control, l2Token, funds, burned, improper>>

\* The mistake of leaving the amount set.
amountKept == burnAmount

\* What burnLockedUSDC leaves in burnAmount.
burnAmountAfterBurn == 0

\* An ERC20 transfer or burn of a units reverts unless the gateway has them.
escrowCovers(a) == a <= escrow

burnLockedUSDC(sender) ==
  /\ sender = burner                                 \* NotBurner
  /\ depositsPaused                                  \* DepositsNotPaused
  /\ burnAmount # 0                                  \* BurnAmountNotSet
  /\ escrowCovers(burnAmount)                        \* burn
  /\ burnAmount' = burnAmountAfterBurn
  /\ escrow' = escrow - burnAmount
  /\ burned' = burned + burnAmount
  /\ improper' = (improper \/ ~ amountSafe)
  /\ UNCHANGED <<l1Owner, burner, depositsPaused, l2Control, l2Token, wallet, supply,
                 deposits, exits, sent, surplus, amountSafe>>

setOwner_L1(sender, newOwner) ==
  /\ sender = l1Owner                                \* NotOwner
  /\ l1Owner' = newOwner
  /\ UNCHANGED <<burner, depositsPaused, burnAmount, l2Control, l2Token, funds, history>>

\* outboundTransferCustomRefund.
deposit(a) ==
  /\ sent < MaxMessages
  /\ ~ depositsPaused                                \* DepositsPaused
  /\ a <= wallet                                     \* safeTransferFrom
  /\ wallet' = wallet - a
  /\ escrow' = escrow + a
  /\ deposits' = deposits \cup {[id |-> sent, amount |-> a]}
  /\ sent' = sent + 1
  /\ UNCHANGED <<l1Control, l2Control, l2Token, supply, exits, surplus, history>>

\* finalizeInboundTransfer on L1; it is not paused.
finalizeExit(e) ==
  /\ escrowCovers(e.amount)                          \* safeTransfer
  /\ exits' = exits \ {e}
  /\ escrow' = escrow - e.amount
  /\ wallet' = wallet + e.amount
  /\ UNCHANGED <<l1Control, l2Control, l2Token, supply, deposits, sent, surplus, history>>

-----------------------------------------------------------------------------
(* L2USDCGateway *)

pauseWithdrawals(sender) ==
  /\ sender = l2Owner /\ ~ withdrawalsPaused         \* NotOwner, WithdrawalsAlreadyPaused
  /\ withdrawalsPaused' = TRUE
  /\ UNCHANGED <<l1Control, l2Owner, usdcOwnershipTransferrer, l2Token, funds, history>>

unpauseWithdrawals(sender) ==
  /\ sender = l2Owner /\ withdrawalsPaused           \* NotOwner, WithdrawalsAlreadyUnpaused
  /\ withdrawalsPaused' = FALSE
  /\ amountSafe' = FALSE
  /\ improper' = (improper \/ burned > 0)
  /\ UNCHANGED <<l1Control, l2Owner, usdcOwnershipTransferrer, l2Token, funds, burned>>

setOwner_L2(sender, newOwner) ==
  /\ sender = l2Owner                                \* NotOwner
  /\ l2Owner' = newOwner
  /\ UNCHANGED <<l1Control, usdcOwnershipTransferrer, withdrawalsPaused, l2Token, funds, history>>

setUsdcOwnershipTransferrer(sender, transferrer) ==
  /\ sender = l2Owner                                \* NotOwner
  /\ usdcOwnershipTransferrer' = transferrer
  /\ UNCHANGED <<l1Control, l2Owner, withdrawalsPaused, l2Token, funds, history>>

\* transferUSDCRoles: both roles move, or the call reverts.
transferUSDCRoles(sender) ==
  /\ sender = usdcOwnershipTransferrer               \* NotUSDCOwnershipTransferrer
  /\ l2USDCExists /\ gatewayOwnsUSDC                 \* changeAdmin, transferOwnership
  /\ gatewayOwnsUSDC' = FALSE
  /\ UNCHANGED <<l1Control, l2Control, l2USDCExists, gatewayMints, funds, history>>

\* The owner of the token's master minter, with the script the deployer, ends the
\* gateway's right to mint and to burn, before or after the roles are handed over.
removeMinter ==
  /\ l2USDCExists /\ gatewayMints
  /\ gatewayMints' = FALSE
  /\ UNCHANGED <<l1Control, l2Control, l2USDCExists, gatewayOwnsUSDC, funds, history>>

deployL2USDC ==
  /\ ~ l2USDCExists
  /\ l2USDCExists' = TRUE
  /\ UNCHANGED <<l1Control, l2Control, gatewayOwnsUSDC, gatewayMints, funds, history>>

\* finalizeInboundTransfer on L2: mint.
mintDeposit(m) ==
  /\ l2USDCExists /\ gatewayMints
  /\ deposits' = deposits \ {m}
  /\ supply' = supply + m.amount
  /\ UNCHANGED <<l1Control, l2Control, l2Token, wallet, escrow, exits, sent, surplus, history>>

\* The mistake of halting only when withdrawals are allowed.
bounceUnlessPaused == ~ l2USDCExists /\ ~ withdrawalsPaused

\* handleNoContract applies, whether withdrawals are paused or not.
noContract == ~ l2USDCExists

\* finalizeInboundTransfer on L2 without a token: handleNoContract.
bounceDeposit(m) ==
  /\ noContract
  /\ deposits' = deposits \ {m}
  /\ exits' = exits \cup {m}
  /\ UNCHANGED <<l1Control, l2Control, l2Token, wallet, escrow, supply, sent, surplus, history>>

\* The mistake of not looking at the pause.
alwaysWithdraw == TRUE

mayWithdraw == ~ withdrawalsPaused                   \* WithdrawalsPaused

\* The mistake of fetching the tokens and not burning them.
fetchOnly(a) == supply

\* outboundEscrowTransfer: the tokens are fetched and burnt; what is left.
outboundEscrowTransfer(a) == supply - a

\* outboundTransfer.
withdraw(a) ==
  /\ sent < MaxMessages
  /\ mayWithdraw
  /\ l2USDCExists /\ gatewayMints                    \* burn
  /\ a <= supply                                     \* safeTransferFrom
  /\ supply' = outboundEscrowTransfer(a)
  /\ exits' = exits \cup {[id |-> sent, amount |-> a]}
  /\ sent' = sent + 1
  /\ UNCHANGED <<l1Control, l2Control, l2Token, wallet, escrow, deposits, surplus, history>>

\* A deposit ticket expires or is cancelled.
dropDeposit(m) ==
  /\ deposits' = deposits \ {m}
  /\ surplus' = surplus + m.amount
  /\ UNCHANGED <<l1Control, l2Control, l2Token, wallet, escrow, supply, exits, sent, history>>

Next ==
  \/ \E sender \in Admins : \/ pauseDeposits(sender)
                            \/ unpauseDeposits(sender)
                            \/ burnLockedUSDC(sender)
                            \/ pauseWithdrawals(sender)
                            \/ unpauseWithdrawals(sender)
                            \/ transferUSDCRoles(sender)
  \/ \E sender \in Admins, a \in Amounts \cup {0} : setBurnAmount(sender, a)
  \/ \E sender \in Admins, other \in Admins \cup {NoAdmin} :
       setBurner(sender, other) \/ setUsdcOwnershipTransferrer(sender, other)
  \/ \E sender \in Admins, newOwner \in Admins :
       setOwner_L1(sender, newOwner) \/ setOwner_L2(sender, newOwner)
  \/ removeMinter
  \/ deployL2USDC
  \/ \E a \in Amounts : deposit(a) \/ withdraw(a)
  \/ \E m \in deposits : mintDeposit(m) \/ bounceDeposit(m) \/ dropDeposit(m)
  \/ \E e \in exits : finalizeExit(e)

Spec == Init /\ [][Next]_vars

\* Tickets are redeemed automatically or by anybody, exits are executed by
\* anybody.
Fairness ==
  /\ \A n \in 0 .. MaxMessages :
       WF_vars(\E m \in deposits : m.id = n /\ (mintDeposit(m) \/ bounceDeposit(m)))
  /\ \A n \in 0 .. MaxMessages : WF_vars(\E e \in exits : e.id = n /\ finalizeExit(e))

FairSpec == Spec /\ Fairness

-----------------------------------------------------------------------------
\* What is burnt comes out of the backing of the L2 supply, to the unit.
Conservation ==
  escrow + burned = supply + TotalAmount(deposits) + TotalAmount(exits) + surplus

\* A migration that pauses withdrawals before the burn amount is chosen, and
\* keeps them paused, leaves what is needed for every exit and every deposit
\* still in flight, even though deposits may still be minted, sent back or
\* dropped between the choice of the amount and the burn, and even if the
\* burner acts more than once.
ExitsStayPayable ==
  ~ improper => escrow >= TotalAmount(deposits) + TotalAmount(exits) + surplus

\* As long as the migration keeps to that, no exit waits for ever and no
\* deposit does either, unless the gateway has lost the right to mint.
TransfersSettle ==
  <>[](improper \/ (exits = {} /\ (deposits = {} \/ ~ gatewayMints)))

\* What the L1 gateway has received and not paid out, what it owes, and the rest.
\* Units that were burnt count: the L2 supply they backed is still there, to be
\* redeemed by the issuer when it has become native.
lockedOrBurned == [t \in {"USDC"} |-> escrow + burned]
owed == [t \in {"USDC"} |-> supply + TotalAmount(deposits) + TotalAmount(exits)]
leftOver == [t \in {"USDC"} |-> surplus]

\* The pair of gateways is a bridge for one token.
UsdcCanonical == INSTANCE CanonicalBridge
  WITH Tokens <- {"USDC"}, Quantities <- Amounts,
       locked <- lockedOrBurned, claims <- owed, surplus <- leftOver

\* Through every step of a migration, in any order, L2 USDC comes into being only
\* for units received on L1, and a burn creates and extinguishes no claim.
UsdcImplementsBridge == UsdcCanonical!Spec
=============================================================================
