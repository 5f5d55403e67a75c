----------------------------- MODULE WethBridge -----------------------------
(***************************************************************************)
(* L1WethGateway, L2WethGateway and aeWETH.  Unlike the other gateways     *)
(* these keep no escrow: a deposit is unwrapped and travels as the call    *)
(* value of its ticket, a withdrawal as the call value of its outbox       *)
(* message, and the ETH itself is locked in the Nitro bridge.  Amounts of  *)
(* all users are pooled, and fees are left out.                            *)
(*                                                                         *)
(* History: gift_L1 and gift_L2 are the ETH users sent to the gateways on  *)
(* their own account (both have a payable receive function).               *)
(***************************************************************************)
EXTENDS Transfers

CONSTANTS
  EthOnL1   \* ETH and WETH users hold on L1 at the start

ASSUME WethAssumption == EthOnL1 \in Nat

VARIABLES
  ethOfUsers_L1,   \* ETH and WETH of users on L1
  ethOfGateway_L1, ethOfGateway_L2,
  ethOfUsers_L2,
  ethOfWeth_L2,    \* ETH held by the aeWETH contract
  wethSupply,      \* aeWETH in circulation
  l2WethExists,    \* code at l2Weth
  gift_L1, gift_L2

l1Ether == <<ethOfUsers_L1, ethOfGateway_L1, gift_L1>>
l2Ether == <<ethOfGateway_L2, ethOfUsers_L2, ethOfWeth_L2, wethSupply, l2WethExists, gift_L2>>
wethVars == <<l1Ether, l2Ether, messages>>

WethMessage == [id : Nat, amount : Nat, value : Nat]

WethTypeOK ==
  /\ ethOfUsers_L1 \in Nat
  /\ ethOfGateway_L1 \in Nat /\ ethOfGateway_L2 \in Nat
  /\ ethOfUsers_L2 \in Nat /\ ethOfWeth_L2 \in Nat /\ wethSupply \in Nat
  /\ l2WethExists \in BOOLEAN
  /\ deposits \subseteq WethMessage /\ exits \subseteq WethMessage /\ sent \in Nat
  /\ gift_L1 \in Nat /\ gift_L2 \in Nat

WethInit ==
  /\ ethOfUsers_L1 = EthOnL1
  /\ ethOfGateway_L1 = 0 /\ ethOfGateway_L2 = 0
  /\ ethOfUsers_L2 = 0 /\ ethOfWeth_L2 = 0 /\ wethSupply = 0
  /\ l2WethExists \in BOOLEAN
  /\ deposits = {} /\ exits = {} /\ sent = 0
  /\ gift_L1 = 0 /\ gift_L2 = 0

-----------------------------------------------------------------------------
\* The mistake of sending fees only, as the other gateways do.
feesOnly(a) == 0

\* The call value of the ticket of a deposit.
l2CallValue(a) == a

\* outboundTransferCustomRefund: the WETH is fetched, unwrapped and sent.
depositWeth(a) ==
  /\ sent < MaxMessages
  /\ a <= ethOfUsers_L1                              \* safeTransferFrom
  /\ ethOfUsers_L1' = ethOfUsers_L1 - a
  /\ ethOfGateway_L1' = ethOfGateway_L1 + a - l2CallValue(a)
  /\ deposits' = deposits \cup {[id |-> sent, amount |-> a, value |-> l2CallValue(a)]}
  /\ sent' = sent + 1
  /\ UNCHANGED <<gift_L1, l2Ether, exits>>

\* finalizeInboundTransfer on L1: the outbox hands over the call value, the
\* amount is wrapped and paid.
finalizeWethExit(e) ==
  /\ e.amount <= ethOfGateway_L1 + e.value           \* deposit
  /\ exits' = exits \ {e}
  /\ ethOfGateway_L1' = ethOfGateway_L1 + e.value - e.amount
  /\ ethOfUsers_L1' = ethOfUsers_L1 + e.amount
  /\ UNCHANGED <<gift_L1, l2Ether, deposits, sent>>

giveToL1Gateway(a) ==
  /\ a <= ethOfUsers_L1
  /\ ethOfUsers_L1' = ethOfUsers_L1 - a
  /\ ethOfGateway_L1' = ethOfGateway_L1 + a
  /\ gift_L1' = gift_L1 + a
  /\ UNCHANGED <<l2Ether, messages>>

-----------------------------------------------------------------------------
\* finalizeInboundTransfer on L2: the call value is wrapped and transferred.
wrapDeposit(m) ==
  /\ l2WethExists
  /\ m.amount <= ethOfGateway_L2 + m.value           \* deposit
  /\ deposits' = deposits \ {m}
  /\ ethOfGateway_L2' = ethOfGateway_L2 + m.value - m.amount
  /\ ethOfWeth_L2' = ethOfWeth_L2 + m.amount
  /\ wethSupply' = wethSupply + m.amount
  /\ UNCHANGED <<l1Ether, ethOfUsers_L2, l2WethExists, gift_L2, exits, sent>>

\* The mistake of sending no call value, as the other gateways do.
noCallValue(a) == 0

\* createOutboundTx: the call value of an exit.
l1CallValue(a) == a

\* handleNoContract: the deposit is sent back.
bounceWethDeposit(m) ==
  /\ ~ l2WethExists
  /\ l1CallValue(m.amount) <= ethOfGateway_L2 + m.value
  /\ deposits' = deposits \ {m}
  /\ ethOfGateway_L2' = ethOfGateway_L2 + m.value - l1CallValue(m.amount)
  /\ exits' = exits \cup {[id |-> m.id, amount |-> m.amount, value |-> l1CallValue(m.amount)]}
  /\ UNCHANGED <<l1Ether, ethOfUsers_L2, ethOfWeth_L2, wethSupply, l2WethExists, gift_L2, sent>>

\* _burn reverts unless the holder has the amount.
mayBurnWeth(a) == a <= wethSupply

\* outboundTransfer: bridgeBurn unwraps to the gateway, which sends the ETH.
withdrawWeth(a) ==
  /\ sent < MaxMessages
  /\ l2WethExists
  /\ mayBurnWeth(a)                                  \* bridgeBurn
  /\ wethSupply' = wethSupply - a
  /\ ethOfWeth_L2' = ethOfWeth_L2 - a
  /\ ethOfGateway_L2' = ethOfGateway_L2 + a - l1CallValue(a)
  /\ exits' = exits \cup {[id |-> sent, amount |-> a, value |-> l1CallValue(a)]}
  /\ sent' = sent + 1
  /\ UNCHANGED <<l1Ether, ethOfUsers_L2, l2WethExists, gift_L2, deposits>>

\* aeWETH deposit, depositTo and receive.
wrap(a) ==
  /\ l2WethExists /\ a <= ethOfUsers_L2
  /\ ethOfUsers_L2' = ethOfUsers_L2 - a
  /\ ethOfWeth_L2' = ethOfWeth_L2 + a
  /\ wethSupply' = wethSupply + a
  /\ UNCHANGED <<l1Ether, ethOfGateway_L2, l2WethExists, gift_L2, messages>>

\* The mistake of paying without burning.
payOnly(a) == wethSupply

\* _burn: what is left in circulation.
burnt(a) == wethSupply - a

\* aeWETH withdraw and withdrawTo.
unwrap(a) ==
  /\ l2WethExists /\ mayBurnWeth(a)
  /\ a <= ethOfWeth_L2                               \* FAIL_TRANSFER
  /\ wethSupply' = burnt(a)
  /\ ethOfWeth_L2' = ethOfWeth_L2 - a
  /\ ethOfUsers_L2' = ethOfUsers_L2 + a
  /\ UNCHANGED <<l1Ether, ethOfGateway_L2, l2WethExists, gift_L2, messages>>

giveToL2Gateway(a) ==
  /\ a <= ethOfUsers_L2
  /\ ethOfUsers_L2' = ethOfUsers_L2 - a
  /\ ethOfGateway_L2' = ethOfGateway_L2 + a
  /\ gift_L2' = gift_L2 + a
  /\ UNCHANGED <<l1Ether, ethOfWeth_L2, wethSupply, l2WethExists, messages>>

deployL2Weth ==
  /\ ~ l2WethExists
  /\ l2WethExists' = TRUE
  /\ UNCHANGED <<l1Ether, ethOfGateway_L2, ethOfUsers_L2, ethOfWeth_L2, wethSupply, gift_L2, messages>>

\* A ticket expires or is cancelled: its call value is refunded on L2.
dropWethDeposit(m) ==
  /\ deposits' = deposits \ {m}
  /\ ethOfUsers_L2' = ethOfUsers_L2 + m.value
  /\ UNCHANGED <<l1Ether, ethOfGateway_L2, ethOfWeth_L2, wethSupply, l2WethExists, gift_L2, exits, sent>>

WethNext ==
  \/ \E a \in Amounts : \/ depositWeth(a) \/ withdrawWeth(a)
                        \/ wrap(a) \/ unwrap(a)
                        \/ giveToL1Gateway(a) \/ giveToL2Gateway(a)
  \/ \E m \in deposits : wrapDeposit(m) \/ bounceWethDeposit(m) \/ dropWethDeposit(m)
  \/ \E e \in exits : finalizeWethExit(e)
  \/ deployL2Weth

WethSpec == WethInit /\ [][WethNext]_wethVars

\* Tickets are redeemed automatically or by anybody, exits are executed by
\* anybody.
WethFairness ==
  /\ \A n \in 0 .. MaxMessages :
       WF_wethVars(\E m \in deposits : m.id = n /\ (wrapDeposit(m) \/ bounceWethDeposit(m)))
  /\ \A n \in 0 .. MaxMessages : WF_wethVars(\E e \in exits : e.id = n /\ finalizeWethExit(e))

WethFairSpec == WethSpec /\ WethFairness

-----------------------------------------------------------------------------
\* aeWETH is always fully collateralized, and the gateways keep nothing of
\* what passes through them: they hold what was given to them and no more,
\* and each message brings the ETH that it promises.
FullyCollateralized ==
  /\ ethOfWeth_L2 = wethSupply
  /\ ethOfGateway_L1 = gift_L1
  /\ ethOfGateway_L2 = gift_L2

\* No deposit and no exit waits for ever for the ETH it needs.
WethTransfersSettle == <>[](deposits = {} /\ exits = {})
=============================================================================
