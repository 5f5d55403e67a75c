-------------------------- MODULE L2CustomGateway --------------------------
(***************************************************************************)
(* L2CustomGateway and the contract it inherits from (L2ArbitrumGateway):  *)
(* the redemption of deposit and registration tickets, deposits sent back  *)
(* to L1 when they cannot be credited, and withdrawals.  The L2 tokens are *)
(* IArbToken contracts outside the gateway: bridgeMint and bridgeBurn      *)
(* change a balance by the amount given, and l1Address never changes once  *)
(* the token is deployed.                                                  *)
(***************************************************************************)
EXTENDS Messaging

CONSTANTS
  NoCode,           \* the address holds no contract
  NotArbToken,      \* the address holds a contract without l1Address()
  WithdrawAmounts,  \* amounts a user asks to withdraw
  MaxExits          \* bound on the exit number at which users still withdraw

ASSUME L2GatewayAssumption ==
  /\ NoCode \notin L1Tokens /\ NotArbToken \notin L1Tokens /\ NoCode # NotArbToken
  /\ WithdrawAmounts \subseteq Nat
  /\ MaxExits \in Nat

VARIABLES
  l1ToL2Token_L2,   \* l1ToL2Token of the L2 gateway
  l1Address,        \* per L2 address: no code, no l1Address(), or its answer
  l2Balance,        \* L2 ERC20 balances of users
  exitNum           \* next exit number

l2Vars == <<l1ToL2Token_L2, l1Address, l2Balance, exitNum>>

L2TypeOK ==
  /\ l1ToL2Token_L2 \in [L1Tokens -> L2Addresses]
  /\ l1Address \in [L2Tokens -> L1Tokens \cup {NoCode, NotArbToken}]
  /\ l2Balance \in [L2Tokens \X Users -> Nat]
  /\ exitNum \in Nat

\* initialize: no token is registered and none is deployed.
L2Init ==
  /\ l1ToL2Token_L2 = [t \in L1Tokens |-> Zero]
  /\ l1Address = [x \in L2Tokens |-> NoCode]
  /\ l2Balance = [p \in L2Tokens \X Users |-> 0]
  /\ exitNum = 0

-----------------------------------------------------------------------------
\* Anybody may deploy any contract at an L2 address, a token of this bridge
\* for any L1 token among them.
deployL2Token(x, a) ==
  /\ l1Address[x] = NoCode
  /\ l1Address' = [l1Address EXCEPT ![x] = a]
  /\ UNCHANGED <<l1ToL2Token_L2, l2Balance, exitNum, ticketVars, outboxVars>>

isContract(x) == x # Zero /\ l1Address[x] # NoCode

\* The mistake of accepting whatever contract is registered.
anyContract(t, x) == isContract(x)

\* _isValidTokenAddress: the contract answers l1Address() with the L1 token.
isValidTokenAddress(t, x) == isContract(x) /\ l1Address[x] = t

\* The mistake of not advancing the counter.
sameExitNum(n) == n

\* createOutboundTx: the counter moves after the message has taken its value.
nextExitNum(n) == n + 1

\* triggerWithdrawal and createOutboundTx.
triggerWithdrawal(t, to, a) ==
  /\ sendTxToL1(exitNum, t, to, a)
  /\ exitNum' = nextExitNum(exitNum)

\* registerTokenFromL1, called by the aliased L1 gateway: it overwrites.
registerTokenFromL1(m) ==
  /\ consumeRegisterTicket(m)
  /\ l1ToL2Token_L2' = [t \in L1Tokens |->
       IF t \in DOMAIN m.mapping THEN m.mapping[t] ELSE l1ToL2Token_L2[t]]
  /\ UNCHANGED <<l1Address, l2Balance, exitNum, outboxVars>>

\* finalizeInboundTransfer when the registered token is valid: bridgeMint.
creditDeposit(m) ==
  LET expectedAddress == l1ToL2Token_L2[m.token]
  IN  /\ isValidTokenAddress(m.token, expectedAddress)
      /\ consumeDepositTicket(m)
      /\ l2Balance' = [l2Balance EXCEPT ![<<expectedAddress, m.to>>] = @ + m.amount]
      /\ UNCHANGED <<l1ToL2Token_L2, l1Address, exitNum, outboxVars>>

\* The mistake of reverting when the token has no code.
bounceIfCode(t, x) == isContract(x) /\ ~ isValidTokenAddress(t, x)

\* handleNoContract and shouldWithdraw: no contract, or not this token's.
mustBounce(t, x) == ~ isContract(x) \/ ~ isValidTokenAddress(t, x)

\* A deposit that is sent back goes to the account that made it on L1.
bounceTarget(m) == m.from

\* finalizeInboundTransfer otherwise: the deposit is withdrawn back to L1.
bounceDeposit(m) ==
  /\ mustBounce(m.token, l1ToL2Token_L2[m.token])
  /\ consumeDepositTicket(m)
  /\ triggerWithdrawal(m.token, bounceTarget(m), m.amount)
  /\ UNCHANGED <<l1ToL2Token_L2, l1Address, l2Balance>>

L2_finalizeInboundTransfer(m) == creditDeposit(m) \/ bounceDeposit(m)

\* outboundTransfer, by the holder or through the router: bridgeBurn, then a
\* withdrawal of the amount burnt.
outboundTransfer(t, from, to, a) ==
  LET l2Token == l1ToL2Token_L2[t]
  IN  /\ exitNum < MaxExits
      /\ isContract(l2Token)                         \* TOKEN_NOT_DEPLOYED
      /\ isValidTokenAddress(t, l2Token)             \* NOT_EXPECTED_L1_TOKEN
      /\ a <= l2Balance[<<l2Token, from>>]               \* bridgeBurn
      /\ l2Balance' = [l2Balance EXCEPT ![<<l2Token, from>>] = @ - a]
      /\ triggerWithdrawal(t, to, a)
      /\ UNCHANGED <<l1ToL2Token_L2, l1Address, ticketVars>>
=============================================================================
