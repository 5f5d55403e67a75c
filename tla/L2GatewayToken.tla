--------------------------- MODULE L2GatewayToken ---------------------------
(***************************************************************************)
(* The ERC20 token the gateways mint on L2: L2GatewayToken over aeERC20,   *)
(* ERC20Upgradeable, ERC20PermitUpgradeable and TransferAndCallToken.      *)
(* Amounts are unsigned integers up to MaxUint (type(uint256).max);        *)
(* checked arithmetic reverts beyond it and unchecked arithmetic wraps.    *)
(*                                                                         *)
(* A permit is a signature that anybody may submit, at any time and again. *)
(* Which permits an owner has signed is not state: the owner may have      *)
(* signed any.  A permit past its deadline is rejected; since it may have  *)
(* any deadline this excludes no behaviour, and deadlines are left out.    *)
(*                                                                         *)
(* History variables, per owner and spender: granted adds up what the      *)
(* owner allowed (a permit counts once, however often it is submitted),    *)
(* spent what the spender took, unlimited holds the pairs that ever had    *)
(* the unlimited allowance; executed is the set of permits that took       *)
(* effect.                                                                 *)
(***************************************************************************)
EXTENDS Integers, FiniteSets, Tally

CONSTANTS
  Accounts,     \* holders other than address(0)
  Spenders,     \* accounts that are given allowances
  Amounts,      \* amounts a caller passes
  MaxUint,      \* type(uint256).max
  MaxGranted,   \* bound on what one owner grants one spender
  MaxNonce      \* bound on the permits of one owner

ASSUME TokenAssumption ==
  /\ IsFiniteSet(Accounts) /\ Spenders \subseteq Accounts
  /\ MaxUint \in Nat \ {0} /\ MaxGranted \in Nat /\ MaxNonce \in Nat
  /\ Amounts \subseteq 0 .. MaxUint

VARIABLES
  balances, totalSupply,
  allowances,              \* <<owner, spender>> -> amount
  nonces,                  \* owner -> next nonce
  granted, spent, unlimited, executed

ledger == <<balances, totalSupply>>
approvals == <<allowances, nonces>>
history == <<granted, spent, unlimited, executed>>
vars == <<ledger, approvals, history>>

Pairs == Accounts \X Spenders
Permit == [owner : Accounts, spender : Spenders, value : Amounts, nonce : Nat]

TypeOK ==
  /\ balances \in [Accounts -> 0 .. MaxUint]
  /\ totalSupply \in 0 .. MaxUint
  /\ allowances \in [Pairs -> 0 .. MaxUint]
  /\ nonces \in [Accounts -> Nat]
  /\ granted \in [Pairs -> Nat]
  /\ spent \in [Pairs -> Nat]
  /\ unlimited \subseteq Pairs
  /\ executed \subseteq Permit

\* _initialize: a new token has no units and no allowances.
Init ==
  /\ balances = [a \in Accounts |-> 0]
  /\ totalSupply = 0
  /\ allowances = [p \in Pairs |-> 0]
  /\ nonces = [a \in Accounts |-> 0]
  /\ granted = [p \in Pairs |-> 0]
  /\ spent = [p \in Pairs |-> 0]
  /\ unlimited = {}
  /\ executed = {}

-----------------------------------------------------------------------------
(* Arithmetic *)

\* The result of one unchecked addition or subtraction.
wrap(x) == IF x > MaxUint THEN x - (MaxUint + 1)
           ELSE IF x < 0 THEN x + (MaxUint + 1) ELSE x

\* A checked addition succeeds.
fits(x, a) == x + a <= MaxUint

\* The mistake of debiting without looking at the balance.
anyBalance(x, a) == TRUE

\* "transfer amount exceeds balance", "burn amount exceeds balance".
covers(x, a) == x >= a

-----------------------------------------------------------------------------
(* Balances *)

\* _transfer, with unchecked arithmetic; from and to may be the same account.
_transfer(from, to, a) ==
  LET debited == [balances EXCEPT ![from] = wrap(@ - a)]
  IN  /\ covers(balances[from], a)
      /\ balances' = [debited EXCEPT ![to] = wrap(@ + a)]
      /\ UNCHANGED totalSupply

transfer(sender, to, a) ==
  /\ _transfer(sender, to, a)
  /\ UNCHANGED <<approvals, history>>

\* transferAndCall: the receiver's hook runs when the transfer is complete, so
\* that what it calls is a later transaction; a hook that reverts undoes all.
transferAndCall(sender, to, a) ==
  /\ _transfer(sender, to, a)
  /\ UNCHANGED <<approvals, history>>

\* bridgeMint, called by the gateway: _mint.
bridgeMint(account, a) ==
  /\ fits(totalSupply, a)
  /\ totalSupply' = totalSupply + a
  /\ balances' = [balances EXCEPT ![account] = wrap(@ + a)]
  /\ UNCHANGED <<approvals, history>>

\* bridgeBurn, called by the gateway: _burn.
bridgeBurn(account, a) ==
  /\ covers(balances[account], a)
  /\ balances' = [balances EXCEPT ![account] = wrap(@ - a)]
  /\ totalSupply' = wrap(totalSupply - a)
  /\ UNCHANGED <<approvals, history>>

-----------------------------------------------------------------------------
(* Allowances *)

\* _approve.  The history notes the amount as granted anew.
_approve(owner, spender, a, newlyGranted) ==
  LET p == <<owner, spender>>
  IN  /\ granted[p] + newlyGranted <= MaxGranted
      /\ allowances' = [allowances EXCEPT ![p] = a]
      /\ granted' = [granted EXCEPT ![p] = @ + newlyGranted]
      /\ unlimited' = IF a = MaxUint THEN unlimited \cup {p} ELSE unlimited

approve(owner, spender, a) ==
  /\ _approve(owner, spender, a, a)
  /\ UNCHANGED <<ledger, nonces, spent, executed>>

increaseAllowance(owner, spender, addedValue) ==
  LET current == allowances[<<owner, spender>>]
  IN  /\ fits(current, addedValue)
      /\ _approve(owner, spender, current + addedValue, addedValue)
      /\ UNCHANGED <<ledger, nonces, spent, executed>>

decreaseAllowance(owner, spender, subtractedValue) ==
  LET current == allowances[<<owner, spender>>]
  IN  /\ current >= subtractedValue                  \* decreased allowance below zero
      /\ _approve(owner, spender, wrap(current - subtractedValue), 0)
      /\ UNCHANGED <<ledger, nonces, spent, executed>>

\* The mistake of leaving the nonce as it is.
sameNonce(n) == n

\* _useNonce: what the counter holds after a permit.
_useNonce(n) == n + 1

\* permit, submitted by anybody.  The digest holds the owner's current nonce,
\* so the signature is the owner's only if it was made for that nonce.
permit(q) ==
  /\ q.nonce = nonces[q.owner]                       \* invalid signature
  /\ _approve(q.owner, q.spender, q.value, IF q \in executed THEN 0 ELSE q.value)
  /\ nonces' = [nonces EXCEPT ![q.owner] = _useNonce(@)]
  /\ executed' = executed \cup {q}
  /\ UNCHANGED <<ledger, spent>>

\* The mistake of not reducing the allowance.
keptAllowance(current, a) == current

\* _spendAllowance: what is left; the unlimited allowance stays.
leftAllowance(current, a) == IF current = MaxUint THEN current ELSE wrap(current - a)

transferFrom(spender, from, to, a) ==
  LET p == <<from, spender>>
      current == allowances[p]
  IN  /\ current = MaxUint \/ covers(current, a)     \* insufficient allowance
      /\ allowances' = [allowances EXCEPT ![p] = leftAllowance(current, a)]
      /\ _transfer(from, to, a)
      /\ spent' = IF p \in unlimited THEN spent ELSE [spent EXCEPT ![p] = @ + a]
      /\ UNCHANGED <<nonces, granted, unlimited, executed>>

Next ==
  \/ \E from, to \in Accounts, a \in Amounts :
       transfer(from, to, a) \/ transferAndCall(from, to, a)
  \/ \E account \in Accounts, a \in Amounts : bridgeMint(account, a) \/ bridgeBurn(account, a)
  \/ \E p \in Pairs, a \in Amounts : \/ approve(p[1], p[2], a)
                                     \/ increaseAllowance(p[1], p[2], a)
                                     \/ decreaseAllowance(p[1], p[2], a)
  \/ \E p \in Pairs, v \in Amounts, n \in 0 .. MaxNonce :
       permit([owner |-> p[1], spender |-> p[2], value |-> v, nonce |-> n])
  \/ \E p \in Pairs, to \in Accounts, a \in Amounts : transferFrom(p[2], p[1], to, a)

Spec == Init /\ [][Next]_vars

-----------------------------------------------------------------------------
\* The comments "Overflow not possible" of _transfer, _mint and _burn: in spite
\* of unchecked arithmetic the balances always add up to the total supply,
\* also next to the largest integer and for transfers to oneself.
SupplyIsSum == totalSupply = Tally(balances, Accounts)

\* A spender never takes more than the owner granted, over any mixture of
\* approvals, increases, decreases and permits that anybody submits in any
\* order and more than once.
SpendingGranted ==
  \A p \in Pairs \ unlimited : spent[p] + allowances[p] <= granted[p]

\* Of the permits an owner signed with one nonce at most one takes effect.
OnePermitPerNonce ==
  \A q, r \in executed : q.owner = r.owner /\ q.nonce = r.nonce => q = r

\* A permit that took effect has a nonce the counter has passed; with this and
\* the next fact the two above become inductive.
NoncesPassed == \A q \in executed : q.nonce < nonces[q.owner]

\* The unlimited allowance is noted when it is given.
UnlimitedNoted == \A p \in Pairs \ unlimited : allowances[p] # MaxUint
=============================================================================
