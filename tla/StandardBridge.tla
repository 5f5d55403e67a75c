--------------------------- MODULE StandardBridge ---------------------------
(***************************************************************************)
(* The standard gateways L1ERC20Gateway and L2ERC20Gateway with            *)
(* BeaconProxyFactory and StandardArbERC20: no registration is needed, the *)
(* first deposit of a token to be redeemed creates its L2 token at an      *)
(* address both chains can compute, from the name, symbol and decimals the *)
(* L1 token answered when that deposit was made.  Amounts of all users are *)
(* pooled.                                                                 *)
(*                                                                         *)
(* A CREATE2 address is modelled by what determines it, the pair of the    *)
(* account that calls the factory and the L1 token.                        *)
(***************************************************************************)
EXTENDS Tally, Transfers

CONSTANTS
  Tokens,       \* L1 tokens
  Gateway,      \* the L2 gateway, counterpartGateway of the L1 gateway
  Outsiders,    \* other L2 accounts that use the factory
  NoProxy,      \* no contract at an address
  Wallet,       \* what users hold of each L1 token at the start
  TokenFee      \* what a transfer of each L1 token withholds

ASSUME StandardAssumption == Gateway \notin Outsiders /\ Wallet \in Nat
ASSUME TokenFeeAssumption == TokenFee \in [Tokens -> Nat]

VARIABLES
  metadata,     \* how an L1 token answers name(), symbol() and decimals()
  wallet,       \* L1 tokens held by users
  escrow,       \* L1 tokens held by the L1 gateway
  proxies,      \* contracts created by the factory
  supply,       \* units of each L1 token's L2 token
  surplus       \* history: escrowed units of dropped deposits

vars == <<metadata, wallet, escrow, proxies, supply, messages, surplus>>

\* The getters answer as ERC20 says, answer nothing that can be used, or
\* answer something that makes abi.decode revert (BytesParser).
Answers == {"parsed", "absent", "malformed"}

Addresses == ({Gateway} \cup Outsiders) \X Tokens
StandardArbERC20 == [l2Gateway : {Gateway} \cup Outsiders, l1Address : Tokens]
Deposit == [id : Nat, token : Tokens, amount : Nat, deployData : Answers]
Exit == [id : Nat, token : Tokens, amount : Nat]

TypeOK ==
  /\ metadata \in [Tokens -> Answers]
  /\ wallet \in [Tokens -> Nat] /\ escrow \in [Tokens -> Nat]
  /\ proxies \in [Addresses -> StandardArbERC20 \cup {NoProxy}]
  /\ supply \in [Tokens -> Nat]
  /\ deposits \subseteq Deposit /\ exits \subseteq Exit /\ sent \in Nat
  /\ surplus \in [Tokens -> Nat]

Init ==
  /\ metadata \in [Tokens -> Answers]
  /\ wallet = [t \in Tokens |-> Wallet]
  /\ escrow = [t \in Tokens |-> 0]
  /\ proxies = [x \in Addresses |-> NoProxy]
  /\ supply = [t \in Tokens |-> 0]
  /\ deposits = {} /\ exits = {} /\ sent = 0
  /\ surplus = [t \in Tokens |-> 0]

-----------------------------------------------------------------------------
(* L1ERC20Gateway *)

\* What arrives of a transfer.
arriving(t, a) == IF a > TokenFee[t] THEN a - TokenFee[t] ELSE 0

\* The mistake of trusting the requested amount.
amountRequested(t, a) == a

\* outboundEscrowTransfer: what is deposited is the growth of the gateway's
\* balance.
amountReceived(t, a) ==
  LET prevBalance == escrow[t]
      postBalance == escrow[t] + arriving(t, a)
  IN  postBalance - prevBalance

\* outboundTransferCustomRefund, with the metadata of the moment.
deposit(t, a) ==
  /\ sent < MaxMessages
  /\ a <= wallet[t]                                  \* safeTransferFrom
  /\ wallet' = [wallet EXCEPT ![t] = @ - a]
  /\ escrow' = [escrow EXCEPT ![t] = @ + arriving(t, a)]
  /\ deposits' = deposits \cup
       {[id |-> sent, token |-> t, amount |-> amountReceived(t, a), deployData |-> metadata[t]]}
  /\ sent' = sent + 1
  /\ UNCHANGED <<metadata, proxies, supply, exits, surplus>>

\* finalizeInboundTransfer.
finalizeExit(e) ==
  /\ e.amount <= escrow[e.token]                     \* safeTransfer
  /\ exits' = exits \ {e}
  /\ escrow' = [escrow EXCEPT ![e.token] = @ - e.amount]
  /\ wallet' = [wallet EXCEPT ![e.token] = @ + arriving(e.token, e.amount)]
  /\ UNCHANGED <<metadata, proxies, supply, deposits, sent, surplus>>

\* An L1 token may be upgraded and answer differently.
upgradeL1Token(t, d) ==
  /\ metadata' = [metadata EXCEPT ![t] = d]
  /\ UNCHANGED <<wallet, escrow, proxies, supply, deposits, exits, sent, surplus>>

-----------------------------------------------------------------------------
(* BeaconProxyFactory, StandardArbERC20 and L2ERC20Gateway *)

\* The mistake of a salt that leaves the caller out.
saltWithoutUser(user, t) == <<Gateway, t>>

\* getSalt and the address it determines.
getSalt(user, t) == <<user, t>>

calculateL2TokenAddress(t) == getSalt(Gateway, t)

\* createProxy, followed by bridgeInit by the same caller.
createToken(user, t, l1Address) ==
  /\ proxies[getSalt(user, t)] = NoProxy             \* CREATE2
  /\ proxies' = [proxies EXCEPT
       ![getSalt(user, t)] = [l2Gateway |-> user, l1Address |-> l1Address]]

\* Anybody may create proxies for themselves and initialize them at will.
createByOutsider(user, t, l1Address) ==
  /\ createToken(user, t, l1Address)
  /\ UNCHANGED <<metadata, wallet, escrow, supply, deposits, exits, sent, surplus>>

\* The mistake of requiring the optional getters.
requireGetters(deployData) == deployData = "parsed"

\* bridgeInit: a missing getter is tolerated, a malformed answer reverts.
canInit(deployData) == deployData # "malformed"

\* The mistake of halting after the token was created.
haltAfterCreation(a) == 0

\* handleNoContract lets the deposit that created the token go on to be
\* minted: shouldHalt is false.
mintedOnCreation(a) == a

\* finalizeInboundTransfer of the first deposit: handleNoContract, bridgeMint.
createAndMint(m) ==
  /\ canInit(m.deployData)
  /\ createToken(Gateway, m.token, m.token)
  /\ deposits' = deposits \ {m}
  /\ supply' = [supply EXCEPT ![m.token] = @ + mintedOnCreation(m.amount)]
  /\ UNCHANGED <<metadata, wallet, escrow, exits, sent, surplus>>

\* The contract at the token's address is this gateway's token for t:
\* _isValidTokenAddress, and onlyGateway of bridgeMint and bridgeBurn.
isValidToken(t) ==
  proxies[calculateL2TokenAddress(t)] = [l2Gateway |-> Gateway, l1Address |-> t]

\* finalizeInboundTransfer of a later deposit: bridgeMint.  That a deposit is
\* sent back because the address holds another token is ruled out by
\* AuthenticTokens below.
mint(m) ==
  /\ isValidToken(m.token)
  /\ deposits' = deposits \ {m}
  /\ supply' = [supply EXCEPT ![m.token] = @ + m.amount]
  /\ UNCHANGED <<metadata, wallet, escrow, proxies, exits, sent, surplus>>

\* bridgeBurn reverts unless the holder has the amount.
mayBurn(t, a) == a <= supply[t]

\* outboundTransfer.
withdraw(t, a) ==
  /\ sent < MaxMessages
  /\ isValidToken(t)                                 \* TOKEN_NOT_DEPLOYED, NOT_EXPECTED_L1_TOKEN
  /\ mayBurn(t, a)                                   \* bridgeBurn
  /\ supply' = [supply EXCEPT ![t] = @ - a]
  /\ exits' = exits \cup {[id |-> sent, token |-> t, amount |-> a]}
  /\ sent' = sent + 1
  /\ UNCHANGED <<metadata, wallet, escrow, proxies, deposits, surplus>>

\* A ticket expires or is cancelled.
dropDeposit(m) ==
  /\ deposits' = deposits \ {m}
  /\ surplus' = [surplus EXCEPT ![m.token] = @ + m.amount]
  /\ UNCHANGED <<metadata, wallet, escrow, proxies, supply, exits, sent>>

Next ==
  \/ \E t \in Tokens, a \in Amounts : deposit(t, a) \/ withdraw(t, a)
  \/ \E e \in exits : finalizeExit(e)
  \/ \E t \in Tokens, d \in Answers : upgradeL1Token(t, d)
  \/ \E user \in Outsiders, t \in Tokens, l1Address \in Tokens :
       createByOutsider(user, t, l1Address)
  \/ \E m \in deposits : createAndMint(m) \/ mint(m) \/ dropDeposit(m)

Spec == Init /\ [][Next]_vars

\* Tickets are redeemed automatically or by anybody, exits are executed by
\* anybody.
Fairness ==
  /\ \A n \in 0 .. MaxMessages :
       WF_vars(\E m \in deposits : m.id = n /\ (createAndMint(m) \/ mint(m)))
  /\ \A n \in 0 .. MaxMessages : WF_vars(\E e \in exits : e.id = n /\ finalizeExit(e))

FairSpec == Spec /\ Fairness

-----------------------------------------------------------------------------
\* A contract at the address the bridge computes for an L1 token is that
\* token's, under the gateway's control, whatever others had the factory
\* create before the first deposit arrived: the two recovery paths for a
\* mismatch are not needed.
AuthenticTokens ==
  \A t \in Tokens : proxies[<<Gateway, t>>]
    \in {NoProxy, [l2Gateway |-> Gateway, l1Address |-> t]}

\* Deposits that race to create the L2 token are all credited, with what arrived
\* of them in escrow: every unit there is in circulation on L2, on its way, or
\* surplus.
Backed ==
  \A t \in Tokens : escrow[t] = supply[t] + TotalAmount(About(deposits, t))
                                  + TotalAmount(About(exits, t)) + surplus[t]

\* No transfer waits for ever, but for deposits whose metadata cannot be
\* decoded; even those arrive once another deposit has created the token.
TransfersSettle ==
  <>[](/\ exits = {}
       /\ \A m \in deposits : /\ m.deployData = "malformed"
                              /\ proxies[<<Gateway, m.token>>] = NoProxy)

\* What the gateways owe for each L1 token: units in circulation on L2, and
\* messages.
owed == [t \in Tokens |-> supply[t] + TotalAmount(About(deposits, t))
                                    + TotalAmount(About(exits, t))]

\* What one deposit may bring into escrow.
lockable == {arriving(t, a) : t \in Tokens, a \in Amounts}

\* The pair of gateways is a bridge for each L1 token: what the L1 gateway holds
\* is locked.
StandardCanonical == INSTANCE CanonicalBridge
  WITH Quantities <- lockable, locked <- escrow, claims <- owed

\* A claim comes into being only with a unit locked, and a unit leaves escrow
\* only against a claim, however deposits race to create the L2 token.
StandardImplementsBridge == StandardCanonical!Spec
=============================================================================
