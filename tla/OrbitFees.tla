----------------------------- MODULE OrbitFees -----------------------------
(***************************************************************************)
(* Who pays for retryable tickets on a chain whose native token is an      *)
(* ERC20 of the parent chain: _createRetryable of L1OrbitCustomGateway,    *)
(* L1OrbitERC20Gateway, L1OrbitUSDCGateway and L1OrbitGatewayRouter, and   *)
(* the fee payments of L1AtomicTokenBridgeCreator, with the amounts the    *)
(* deployment scripts approve and pass on.  The gateways and the router    *)
(* bring the inbox up to the fee of the ticket, and the inbox hands the    *)
(* fee to the bridge.  The custom and the USDC gateway may hold the native *)
(* token in escrow (the standard gateway refuses it), in the account that  *)
(* calls the inbox.                                                        *)
(*                                                                         *)
(* History: due counts, per account, what it has asked to spend, less what *)
(* it was given to spend.                                                  *)
(***************************************************************************)
EXTENDS Integers

CONSTANTS
  Users,           \* accounts that deposit through the router
  Contracts,       \* token contracts and owners, which call on their own account
  UpgradeExecutor, \* the owner of the router, one of them
  GatewayAccount,  \* the gateway, as an account of the native token
  Router,
  Fees,            \* fee amounts, in the native token
  NativeAmounts,   \* amounts of the native token deposited or left in the inbox
  Balance,         \* what every account holds of the native token at the start
  NativeDecimals,  \* decimals the native token may have
  EtherDecimals,   \* 18
  GasCosts,        \* what a ticket of the creator costs, in units of ether
  MaxTickets       \* bound on tickets

Payers == Users \cup Contracts
Accounts == Payers \cup {GatewayAccount}

ASSUME FeesAssumption ==
  /\ {GatewayAccount, Router} \cap Payers = {} /\ GatewayAccount # Router
  /\ UpgradeExecutor \in Contracts \ Users
  /\ Fees \subseteq Nat /\ NativeAmounts \subseteq Nat /\ GasCosts \subseteq Nat
  /\ NativeDecimals \subseteq Nat /\ EtherDecimals \in Nat
  /\ Balance \in Nat /\ MaxTickets \in Nat

VARIABLES
  decimals,   \* of the native token
  native,     \* native token held by each account
  inbox,      \* native token held by the inbox
  deposited,  \* native token deposited into the gateway's escrow
  tickets,    \* number of tickets created
  allowance,  \* what the router may take from the upgrade executor
  registration,  \* the script that registers the USDC gateway, and its fee
  due

scriptVars == <<allowance, registration>>
feeVars == <<decimals, native, inbox, deposited, tickets, scriptVars, due>>

Registration == [stage : {"idle", "transferred", "approved"}, fee : Nat]

FeesTypeOK ==
  /\ decimals \in NativeDecimals
  /\ native \in [Accounts -> Nat] /\ inbox \in Nat
  /\ deposited \in Nat /\ tickets \in Nat
  /\ allowance \in Nat
  /\ registration \in Registration
  /\ due \in [Payers -> Int]

noRegistration == [stage |-> "idle", fee |-> 0]

FeesInit ==
  /\ decimals \in NativeDecimals
  /\ native = [a \in Accounts |-> IF a = GatewayAccount THEN 0 ELSE Balance]
  /\ inbox = 0 /\ deposited = 0 /\ tickets = 0
  /\ allowance = 0 /\ registration = noRegistration
  /\ due = [a \in Payers |-> 0]

-----------------------------------------------------------------------------
\* What is missing in the inbox for a fee.
shortfall(fee) == IF inbox < fee THEN fee - inbox ELSE 0

\* The mistake of charging the account that calls the inbox.
chargeGateway(sender, user) == GatewayAccount

\* The user if the router calls the gateway, else the caller.
transferFrom(sender, user) == IF sender = Router THEN user ELSE sender

\* _createRetryable, after outboundEscrowTransfer of amount units of the
\* native token; createRetryableTicket hands the fee to the bridge.
createRetryable(sender, user, fee, amount) ==
  LET payer == transferFrom(sender, user)
      escrowed == [native EXCEPT ![user] = @ - amount, ![GatewayAccount] = @ + amount]
  IN  /\ tickets < MaxTickets
      /\ amount <= native[user]                      \* safeTransferFrom
      /\ shortfall(fee) <= escrowed[payer]           \* safeTransferFrom
      /\ native' = [escrowed EXCEPT ![payer] = @ - shortfall(fee)]
      /\ inbox' = inbox + shortfall(fee) - fee
      /\ deposited' = deposited + amount
      /\ tickets' = tickets + 1
      /\ due' = [due EXCEPT ![user] = @ + fee + amount]
      /\ UNCHANGED decimals

\* outboundTransferCustomRefund of the custom or the USDC gateway, called by the
\* router for a user who deposits the native token.
depositNative(user, amount, fee) ==
  /\ createRetryable(Router, user, fee, amount)
  /\ UNCHANGED scriptVars

\* outboundTransferCustomRefund with any other token, of the standard gateway
\* among others: no native token moves but the fee.
depositOther(user, fee) ==
  /\ createRetryable(Router, user, fee, 0)
  /\ UNCHANGED scriptVars

\* registerTokenToL2 and forceRegisterTokenToL2 of the custom gateway: the token
\* contract or the owner calls and pays.
registerTokenToL2(sender, fee) ==
  /\ createRetryable(sender, sender, fee, 0)
  /\ UNCHANGED scriptVars

\* setGateway, setGateways and setDefaultGateway of the router, which has its
\* own _createRetryable: the caller pays.  The executor has approved what the
\* script had it approve; other callers approve what they ask for.
setGateway(sender, fee) ==
  /\ createRetryable(sender, sender, fee, 0)
  /\ IF sender = UpgradeExecutor
     THEN /\ shortfall(fee) <= allowance              \* safeTransferFrom
          /\ allowance' = allowance - shortfall(fee)
     ELSE UNCHANGED allowance

\* 10 ** n, as a function defined by recursion: ^ has no laws that the prover
\* knows.
pow10[n \in Nat] == IF n = 0 THEN 1 ELSE 10 * pow10[n - 1]

\* The mistake of rounding down.
roundDown(amount) ==
  IF decimals <= EtherDecimals THEN amount \div pow10[EtherDecimals - decimals]
                               ELSE amount * pow10[decimals - EtherDecimals]

\* _getScaledAmount: an amount in units of ether, in units of the native token.
_getScaledAmount(amount) ==
  LET scale == pow10[EtherDecimals - decimals]
      scaledAmount == amount \div scale
  IN  IF decimals = EtherDecimals THEN amount
      ELSE IF decimals < EtherDecimals
           THEN IF scaledAmount * scale < amount THEN scaledAmount + 1 ELSE scaledAmount
           ELSE amount * pow10[decimals - EtherDecimals]

\* The same in the script that deploys the USDC bridge.
_getPrescaledAmount(amount) ==
  LET scalingFactor == pow10[EtherDecimals - decimals]
      prescaledAmount == amount \div scalingFactor
  IN  IF decimals < EtherDecimals
      THEN prescaledAmount + (IF prescaledAmount * scalingFactor < amount THEN 1 ELSE 0)
      ELSE amount * pow10[decimals - EtherDecimals]

\* The registration of that script, in three transactions.  The rollup's owner
\* gives the fee to the upgrade executor.
transferFee(rollupOwner, cost) ==
  LET totalFee == _getPrescaledAmount(cost)
  IN  /\ registration.stage = "idle"
      /\ totalFee <= native[rollupOwner]             \* transfer
      /\ native' = [native EXCEPT ![rollupOwner] = @ - totalFee, ![UpgradeExecutor] = @ + totalFee]
      /\ due' = [due EXCEPT ![rollupOwner] = @ + totalFee, ![UpgradeExecutor] = @ - totalFee]
      /\ registration' = [stage |-> "transferred", fee |-> totalFee]
      /\ UNCHANGED <<decimals, inbox, deposited, tickets, allowance>>

\* The executor is told to approve the router to spend the fee.
approveFee ==
  /\ registration.stage = "transferred"
  /\ allowance' = registration.fee
  /\ registration' = [registration EXCEPT !.stage = "approved"]
  /\ UNCHANGED <<decimals, native, inbox, deposited, tickets, due>>

\* It is told to call setGateways of the router.
registerUsdcGateway ==
  /\ registration.stage = "approved"
  /\ setGateway(UpgradeExecutor, registration.fee)
  /\ registration' = noRegistration

\* The script fails or dies; what it has transferred and approved stays.
stopRegistration ==
  /\ registration.stage # "idle"
  /\ registration' = noRegistration
  /\ UNCHANGED <<decimals, native, inbox, deposited, tickets, allowance, due>>

\* And in the script that calls the creator, which has to foresee what the
\* creator will take.
scaledByScript(amount) ==
  LET unit == pow10[EtherDecimals - decimals]
      roundedUp == amount \div unit + IF (amount \div unit) * unit < amount THEN 1 ELSE 0
  IN  CASE decimals = EtherDecimals -> amount
        [] decimals < EtherDecimals -> roundedUp
        [] OTHER -> amount * pow10[decimals - EtherDecimals]

\* The mistake of scaling the sum.
scaledSum(cost1, cost2) == scaledByScript(cost1 + cost2)

\* What that script approves for the creator before it calls createTokenBridge.
approvedFees(cost1, cost2) == scaledByScript(cost1) + scaledByScript(cost2)

\* The fees of createTokenBridge, for both of its tickets: the creator moves
\* the whole fee to the inbox, whatever the inbox holds.  A fee of nothing for
\* the second ticket reverts: the sender takes it for a chain without native
\* token.
createTokenBridge(sender, cost1, cost2) ==
  LET fee1 == _getScaledAmount(cost1)
      fee2 == _getScaledAmount(cost2)
  IN  /\ tickets + 1 < MaxTickets
      /\ fee2 > 0
      /\ fee1 + fee2 <= native[sender]               \* safeTransferFrom
      /\ fee1 + fee2 <= approvedFees(cost1, cost2)
      /\ native' = [native EXCEPT ![sender] = @ - (fee1 + fee2)]
      /\ tickets' = tickets + 2
      /\ due' = [due EXCEPT ![sender] = @ + fee1 + fee2]
      /\ UNCHANGED <<decimals, inbox, deposited, scriptVars>>

\* Anybody may leave native tokens in the inbox; later tickets use them.
strayTransfer(sender, amount) ==
  /\ amount <= native[sender]
  /\ native' = [native EXCEPT ![sender] = @ - amount]
  /\ inbox' = inbox + amount
  /\ due' = [due EXCEPT ![sender] = @ + amount]
  /\ UNCHANGED <<decimals, deposited, tickets, scriptVars>>

FeesNext ==
  \/ \E user \in Users, amount \in NativeAmounts, fee \in Fees : depositNative(user, amount, fee)
  \/ \E user \in Users, fee \in Fees : depositOther(user, fee)
  \/ \E sender \in Contracts, fee \in Fees :
       \/ registerTokenToL2(sender, fee)
       \/ setGateway(sender, fee) /\ UNCHANGED registration
  \/ \E rollupOwner \in Users, cost \in GasCosts : transferFee(rollupOwner, cost)
  \/ approveFee \/ registerUsdcGateway \/ stopRegistration
  \/ \E sender \in Payers, cost1 \in GasCosts, cost2 \in GasCosts :
       createTokenBridge(sender, cost1, cost2)
  \/ \E sender \in Payers, amount \in NativeAmounts : strayTransfer(sender, amount)

FeesSpec == FeesInit /\ [][FeesNext]_feeVars

-----------------------------------------------------------------------------
\* Fees come from those who ask for tickets: the native token in the gateway's
\* escrow pays for none, though it is the gateway that calls the inbox, and no
\* account loses more than it has asked to spend, not counting what the upgrade
\* executor was given for the fee of a registration.
FeesFromCallers ==
  /\ native[GatewayAccount] = deposited
  /\ \A a \in Payers : native[a] + due[a] >= Balance

\* A scaled fee, by the creator or by a script, is the least amount of the
\* native token worth the cost, so that the inbox, which compares in units of
\* ether, accepts the ticket; and what the script approves beforehand, by its
\* own arithmetic, covers the fees of both tickets, each of which is rounded.
ScaledFeesSuffice ==
  LET worth(fee, cost) == fee * pow10[EtherDecimals] >= cost * pow10[decimals]
      least(fee, cost) == worth(fee, cost) /\ (fee > 0 => ~ worth(fee - 1, cost))
  IN  \A cost \in GasCosts :
        /\ least(_getScaledAmount(cost), cost)
        /\ least(_getPrescaledAmount(cost), cost)
        /\ \A other \in GasCosts :
             _getScaledAmount(cost) + _getScaledAmount(other) <= approvedFees(cost, other)
=============================================================================
