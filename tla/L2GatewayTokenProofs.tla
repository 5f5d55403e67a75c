------------------------ MODULE L2GatewayTokenProofs ------------------------
(***************************************************************************)
(* Proofs about L2GatewayToken for any accounts, amounts and width of the  *)
(* integers: unchecked arithmetic never wraps, and spenders stay within    *)
(* what they were granted.                                                 *)
(***************************************************************************)
EXTENDS L2GatewayToken, TallyProofs

USE TokenAssumption

\* One unchecked operation on two unsigned integers gives an unsigned integer.
LEMMA WrapType ==
  ASSUME NEW x \in 0 .. MaxUint, NEW a \in 0 .. MaxUint
  PROVE  wrap(x + a) \in 0 .. MaxUint /\ wrap(x - a) \in 0 .. MaxUint
BY DEF wrap

\* What fits is not changed by wrapping.
LEMMA WrapExact == ASSUME NEW x \in 0 .. MaxUint PROVE wrap(x) = x
BY DEF wrap

LEMMA AmountsType == ASSUME NEW a \in Amounts PROVE a \in 0 .. MaxUint
OBVIOUS

\* Types are preserved by every step.
THEOREM TypeCorrect == Spec => []TypeOK
<1>1. Init => TypeOK
  BY DEF Init, TypeOK
<1>2. TypeOK /\ [Next]_vars => TypeOK'
  <2> SUFFICES ASSUME TypeOK, [Next]_vars PROVE TypeOK'
    OBVIOUS
  <2> USE DEF ledger, approvals, history
  <2>1. ASSUME NEW from \in Accounts, NEW to \in Accounts, NEW a \in Amounts,
               _transfer(from, to, a)
        PROVE  balances' \in [Accounts -> 0 .. MaxUint] /\ totalSupply' \in 0 .. MaxUint
    <3> DEFINE debited == [balances EXCEPT ![from] = wrap(@ - a)]
    <3>1. debited \in [Accounts -> 0 .. MaxUint]
      BY AmountsType, WrapType DEF TypeOK
    <3>2. [debited EXCEPT ![to] = wrap(@ + a)] \in [Accounts -> 0 .. MaxUint]
      <4> HIDE DEF debited
      <4> QED  BY <3>1, AmountsType, WrapType
    <3> QED  BY <2>1, <3>2 DEF _transfer, TypeOK
  <2>2. ASSUME NEW p \in Pairs, NEW a \in 0 .. MaxUint, NEW g \in 0 .. MaxUint,
               _approve(p[1], p[2], a, g)
        PROVE  /\ allowances' \in [Pairs -> 0 .. MaxUint]
               /\ granted' \in [Pairs -> Nat]
               /\ unlimited' \subseteq Pairs
    <3>1. <<p[1], p[2]>> = p
      BY DEF Pairs
    <3> QED  BY <2>2, <3>1 DEF _approve, TypeOK
  <2>3. ASSUME NEW from \in Accounts, NEW to \in Accounts, NEW a \in Amounts,
               transfer(from, to, a) \/ transferAndCall(from, to, a)
        PROVE  TypeOK'
    BY <2>1, <2>3 DEF transfer, transferAndCall, TypeOK
  <2>4. ASSUME NEW account \in Accounts, NEW a \in Amounts,
               bridgeMint(account, a) \/ bridgeBurn(account, a)
        PROVE  TypeOK'
    <3>1. a \in 0 .. MaxUint
      BY AmountsType
    <3>2. CASE bridgeMint(account, a)
      <4>1. totalSupply' \in 0 .. MaxUint
        BY <3>1, <3>2 DEF bridgeMint, fits, TypeOK
      <4>2. balances' \in [Accounts -> 0 .. MaxUint]
        BY <3>1, <3>2, WrapType DEF bridgeMint, TypeOK
      <4> QED  BY <3>2, <4>1, <4>2 DEF bridgeMint, TypeOK
    <3>3. CASE bridgeBurn(account, a)
      <4>1. totalSupply' \in 0 .. MaxUint /\ balances' \in [Accounts -> 0 .. MaxUint]
        BY <3>1, <3>3, WrapType DEF bridgeBurn, TypeOK
      <4> QED  BY <3>3, <4>1 DEF bridgeBurn, TypeOK
    <3> QED  BY <2>4, <3>2, <3>3
  <2>5. ASSUME NEW p \in Pairs, NEW a \in Amounts, approve(p[1], p[2], a)
        PROVE  TypeOK'
    BY <2>2, <2>5, AmountsType DEF approve, TypeOK
  <2>6. ASSUME NEW p \in Pairs, NEW a \in Amounts, increaseAllowance(p[1], p[2], a)
        PROVE  TypeOK'
    <3>1. <<p[1], p[2]>> = p
      BY DEF Pairs
    <3>2. a \in 0 .. MaxUint /\ allowances[p] + a \in 0 .. MaxUint
      BY <2>6, <3>1, AmountsType DEF increaseAllowance, fits, TypeOK
    <3>3. _approve(p[1], p[2], allowances[p] + a, a)
      BY <2>6, <3>1 DEF increaseAllowance
    <3>4. /\ allowances' \in [Pairs -> 0 .. MaxUint]
          /\ granted' \in [Pairs -> Nat]
          /\ unlimited' \subseteq Pairs
      BY <2>2, <3>2, <3>3
    <3> QED  BY <2>6, <3>4 DEF increaseAllowance, TypeOK
  <2>7. ASSUME NEW p \in Pairs, NEW a \in Amounts, decreaseAllowance(p[1], p[2], a)
        PROVE  TypeOK'
    <3>1. <<p[1], p[2]>> = p
      BY DEF Pairs
    <3>2. wrap(allowances[p] - a) \in 0 .. MaxUint
      BY AmountsType, WrapType DEF TypeOK
    <3>3. _approve(p[1], p[2], wrap(allowances[p] - a), 0)
      BY <2>7, <3>1 DEF decreaseAllowance
    <3>4. /\ allowances' \in [Pairs -> 0 .. MaxUint]
          /\ granted' \in [Pairs -> Nat]
          /\ unlimited' \subseteq Pairs
      BY <2>2, <3>2, <3>3
    <3> QED  BY <2>7, <3>4 DEF decreaseAllowance, TypeOK
  <2>8. ASSUME NEW p \in Pairs, NEW v \in Amounts, NEW n \in 0 .. MaxNonce,
               permit([owner |-> p[1], spender |-> p[2], value |-> v, nonce |-> n])
        PROVE  TypeOK'
    <3> DEFINE q == [owner |-> p[1], spender |-> p[2], value |-> v, nonce |-> n]
               g == IF q \in executed THEN 0 ELSE v
    <3>1. q \in Permit
      BY DEF Pairs, Permit
    <3>2. v \in 0 .. MaxUint /\ g \in 0 .. MaxUint
      BY AmountsType
    <3>3. _approve(p[1], p[2], v, g)
      BY <2>8 DEF permit
    <3>4. /\ allowances' \in [Pairs -> 0 .. MaxUint]
          /\ granted' \in [Pairs -> Nat]
          /\ unlimited' \subseteq Pairs
      BY <2>2, <3>2, <3>3
    <3>5. executed' \subseteq Permit
      BY <2>8, <3>1 DEF permit, TypeOK
    <3>6. nonces' = [nonces EXCEPT ![p[1]] = @ + 1]
      BY <2>8 DEF permit, _useNonce
    <3>7. nonces' \in [Accounts -> Nat]
      BY <3>6 DEF Pairs, TypeOK
    <3> QED  BY <2>8, <3>4, <3>5, <3>7 DEF permit, TypeOK
  <2>9. ASSUME NEW p \in Pairs, NEW to \in Accounts, NEW a \in Amounts,
               transferFrom(p[2], p[1], to, a)
        PROVE  TypeOK'
    <3>1. <<p[1], p[2]>> = p /\ p[1] \in Accounts
      BY DEF Pairs
    <3>2. a \in 0 .. MaxUint
      BY AmountsType
    <3>3. leftAllowance(allowances[p], a) \in 0 .. MaxUint
      BY <3>2, WrapType DEF leftAllowance, TypeOK
    <3>4. allowances' \in [Pairs -> 0 .. MaxUint]
      BY <2>9, <3>1, <3>3 DEF transferFrom, TypeOK
    <3>5. spent' \in [Pairs -> Nat]
      BY <2>9, <3>1, <3>2 DEF transferFrom, TypeOK
    <3>6. balances' \in [Accounts -> 0 .. MaxUint] /\ totalSupply' \in 0 .. MaxUint
      BY <2>1, <2>9, <3>1 DEF transferFrom
    <3> QED  BY <2>9, <3>4, <3>5, <3>6 DEF transferFrom, TypeOK
  <2>10. CASE UNCHANGED vars
    BY <2>10 DEF vars, TypeOK
  <2> QED  BY <2>3, <2>4, <2>5, <2>6, <2>7, <2>8, <2>9, <2>10 DEF Next
<1> QED  BY <1>1, <1>2, PTL DEF Spec

-----------------------------------------------------------------------------
(* Balances and supply *)

\* No balance exceeds the supply.
LEMMA BalanceWithinSupply ==
  ASSUME NEW f \in [Accounts -> 0 .. MaxUint], NEW x \in Accounts
  PROVE  f[x] <= Tally(f, Accounts) /\ Tally(f, Accounts) \in Nat
<1>1. \A a \in Accounts : f[a] \in Nat
  OBVIOUS
<1>2. Tally(f, Accounts) = Tally(f, Accounts \ {x}) + f[x] /\ Tally(f, Accounts \ {x}) \in Nat
  BY <1>1, TallyRemove
<1> QED  BY <1>1, <1>2

\* A debit that is covered takes its amount off the total, unwrapped.
LEMMA Debit ==
  ASSUME NEW f \in [Accounts -> 0 .. MaxUint], NEW x \in Accounts, NEW a \in 0 .. MaxUint,
         f[x] >= a
  PROVE  /\ [f EXCEPT ![x] = wrap(f[x] - a)] \in [Accounts -> 0 .. MaxUint]
         /\ Tally([f EXCEPT ![x] = wrap(f[x] - a)], Accounts) + a = Tally(f, Accounts)
<1> DEFINE g == [f EXCEPT ![x] = wrap(f[x] - a)]
<1>1. f[x] - a \in 0 .. MaxUint /\ wrap(f[x] - a) = f[x] - a
  BY WrapExact
<1>2. g \in [Accounts -> 0 .. MaxUint] /\ g[x] = f[x] - a /\ \A s \in Accounts \ {x} : g[s] = f[s]
  BY <1>1
<1> HIDE DEF g
<1>3. (\A s \in Accounts : f[s] \in Nat) /\ (\A s \in Accounts : g[s] \in Nat)
  BY <1>2
<1>4. Tally(g, Accounts) + f[x] = Tally(f, Accounts) + g[x]
  BY <1>2, <1>3, TallyUpdate
<1>5. Tally(f, Accounts) \in Nat /\ Tally(g, Accounts) \in Nat
  BY <1>3, TallyType
<1>6. Tally(g, Accounts) + a = Tally(f, Accounts)
  BY <1>2, <1>3, <1>4, <1>5
<1> QED  BY <1>2, <1>6 DEF g

\* A credit that leaves the total representable adds its amount, unwrapped.
LEMMA Credit ==
  ASSUME NEW f \in [Accounts -> 0 .. MaxUint], NEW x \in Accounts, NEW a \in 0 .. MaxUint,
         Tally(f, Accounts) + a <= MaxUint
  PROVE  /\ [f EXCEPT ![x] = wrap(f[x] + a)] \in [Accounts -> 0 .. MaxUint]
         /\ Tally([f EXCEPT ![x] = wrap(f[x] + a)], Accounts) = Tally(f, Accounts) + a
<1> DEFINE g == [f EXCEPT ![x] = wrap(f[x] + a)]
<1>0. f[x] <= Tally(f, Accounts) /\ Tally(f, Accounts) \in Nat
  BY BalanceWithinSupply
<1>1. f[x] + a \in 0 .. MaxUint
  BY <1>0
<1>a. wrap(f[x] + a) = f[x] + a
  BY <1>1, WrapExact
<1>2. g \in [Accounts -> 0 .. MaxUint] /\ g[x] = f[x] + a /\ \A s \in Accounts \ {x} : g[s] = f[s]
  BY <1>1, <1>a
<1> HIDE DEF g
<1>3. (\A s \in Accounts : f[s] \in Nat) /\ (\A s \in Accounts : g[s] \in Nat)
  BY <1>2
<1>4. Tally(g, Accounts) + f[x] = Tally(f, Accounts) + g[x]
  BY <1>2, <1>3, TallyUpdate
<1>5. Tally(f, Accounts) \in Nat /\ Tally(g, Accounts) \in Nat
  BY <1>3, TallyType
<1>6. Tally(g, Accounts) = Tally(f, Accounts) + a
  BY <1>2, <1>3, <1>4, <1>5
<1> QED  BY <1>2, <1>6 DEF g

\* The balances add up to the total supply, in spite of unchecked arithmetic
\* in _transfer, _mint and _burn.
THEOREM Supply == Spec => []SupplyIsSum
<1>1. Init => SupplyIsSum
  <2> SUFFICES ASSUME Init PROVE SupplyIsSum
    OBVIOUS
  <2>1. IsFiniteSet({}) /\ Cardinality({}) = 0
    BY FS_EmptySet
  <2>2. Tally(balances, Accounts) = Tally(balances, {})
    BY TallyZeros DEF Init
  <2>3. Tally(balances, {}) = 0
    BY <2>1 DEF Tally, Units
  <2> QED  BY <2>2, <2>3 DEF Init, SupplyIsSum
<1>2. TypeOK /\ SupplyIsSum /\ [Next]_vars => SupplyIsSum'
  <2> SUFFICES ASSUME TypeOK, SupplyIsSum, [Next]_vars PROVE SupplyIsSum'
    OBVIOUS
  <2>0. balances \in [Accounts -> 0 .. MaxUint] /\ totalSupply \in 0 .. MaxUint
    BY DEF TypeOK
  <2>1. ASSUME NEW from \in Accounts, NEW to \in Accounts, NEW a \in Amounts,
               _transfer(from, to, a)
        PROVE  SupplyIsSum'
    <3>1. a \in 0 .. MaxUint
      BY AmountsType
    <3>2. balances[from] >= a
      BY <2>1 DEF _transfer, covers
    <3>3. PICK debited \in [Accounts -> 0 .. MaxUint] :
            /\ debited = [balances EXCEPT ![from] = wrap(balances[from] - a)]
            /\ Tally(debited, Accounts) + a = Tally(balances, Accounts)
      BY <2>0, <3>1, <3>2, Debit
    <3>4. Tally(debited, Accounts) + a <= MaxUint
      BY <2>0, <3>3 DEF SupplyIsSum
    <3>5. Tally([debited EXCEPT ![to] = wrap(debited[to] + a)], Accounts)
            = Tally(debited, Accounts) + a
      BY <3>1, <3>4, Credit
    <3>6. /\ balances' = [debited EXCEPT ![to] = wrap(debited[to] + a)]
          /\ totalSupply' = totalSupply
      BY <2>1, <3>3 DEF _transfer
    <3> QED  BY <3>3, <3>5, <3>6 DEF SupplyIsSum
  <2>2. ASSUME NEW account \in Accounts, NEW a \in Amounts, bridgeMint(account, a)
        PROVE  SupplyIsSum'
    <3>1. a \in 0 .. MaxUint
      BY AmountsType
    <3>2. Tally(balances, Accounts) + a <= MaxUint
      BY <2>2 DEF bridgeMint, fits, SupplyIsSum
    <3>3. Tally([balances EXCEPT ![account] = wrap(@ + a)], Accounts)
            = Tally(balances, Accounts) + a
      BY <2>0, <3>1, <3>2, Credit
    <3> QED  BY <2>2, <3>3 DEF bridgeMint, SupplyIsSum
  <2>3. ASSUME NEW account \in Accounts, NEW a \in Amounts, bridgeBurn(account, a)
        PROVE  SupplyIsSum'
    <3>1. a \in 0 .. MaxUint /\ balances[account] >= a
      BY <2>3, AmountsType DEF bridgeBurn, covers
    <3>2. Tally([balances EXCEPT ![account] = wrap(@ - a)], Accounts) + a
            = Tally(balances, Accounts)
      BY <2>0, <3>1, Debit
    <3>3. balances[account] <= Tally(balances, Accounts)
      BY <2>0, BalanceWithinSupply
    <3>4. totalSupply - a \in 0 .. MaxUint
      BY <2>0, <3>1, <3>3 DEF SupplyIsSum
    <3>5. totalSupply' = totalSupply - a
      BY <2>3, <3>4, WrapExact DEF bridgeBurn
    <3>6. Tally(balances', Accounts) + a = totalSupply
      BY <2>3, <3>2 DEF bridgeBurn, SupplyIsSum
    <3>7. (\A s \in Accounts : balances'[s] \in Nat) /\ Tally(balances', Accounts) \in Nat
      <4>1. [balances EXCEPT ![account] = wrap(@ - a)] \in [Accounts -> 0 .. MaxUint]
        BY <2>0, <3>1, Debit
      <4>2. \A s \in Accounts : balances'[s] \in Nat
        BY <2>3, <4>1 DEF bridgeBurn
      <4> QED  BY <4>2, TallyType
    <3> QED  BY <2>0, <3>1, <3>5, <3>6, <3>7 DEF SupplyIsSum
  <2>4. ASSUME UNCHANGED ledger PROVE SupplyIsSum'
    BY <2>4 DEF ledger, SupplyIsSum
  <2>5. ASSUME NEW p \in Pairs, NEW to \in Accounts, NEW a \in Amounts,
               transferFrom(p[2], p[1], to, a)
        PROVE  SupplyIsSum'
    <3>1. p[1] \in Accounts
      BY DEF Pairs
    <3> QED  BY <2>1, <2>5, <3>1 DEF transferFrom
  <2> QED  BY <2>1, <2>2, <2>3, <2>4, <2>5
       DEF Next, vars, transfer, transferAndCall, approve, increaseAllowance,
           decreaseAllowance, permit
<1> QED  BY <1>1, <1>2, TypeCorrect, PTL DEF Spec

-----------------------------------------------------------------------------
(* Allowances and permits *)

\* A permit takes effect only with the current nonce, which the counter then
\* passes, so it takes effect once and alone.
THEOREM Permits == Spec => [](NoncesPassed /\ OnePermitPerNonce)
<1>1. Init => NoncesPassed /\ OnePermitPerNonce
  BY DEF Init, NoncesPassed, OnePermitPerNonce
<1>2. TypeOK /\ NoncesPassed /\ OnePermitPerNonce /\ [Next]_vars
        => (NoncesPassed /\ OnePermitPerNonce)'
  <2> SUFFICES ASSUME TypeOK, NoncesPassed, OnePermitPerNonce, [Next]_vars
               PROVE  NoncesPassed' /\ OnePermitPerNonce'
    OBVIOUS
  <2>1. ASSUME NEW p \in Pairs, NEW v \in Amounts, NEW n \in 0 .. MaxNonce,
               permit([owner |-> p[1], spender |-> p[2], value |-> v, nonce |-> n])
        PROVE  NoncesPassed' /\ OnePermitPerNonce'
    <3> DEFINE q == [owner |-> p[1], spender |-> p[2], value |-> v, nonce |-> n]
    <3>1. /\ q.owner = p[1] /\ q.nonce = n /\ p[1] \in Accounts
          /\ n = nonces[p[1]]
          /\ nonces' = [nonces EXCEPT ![p[1]] = @ + 1]
          /\ executed' = executed \cup {q}
      BY <2>1 DEF permit, _useNonce, Pairs
    <3> HIDE DEF q
    <3>2. \A r \in executed : r.owner \in Accounts /\ r.nonce \in Nat /\ r.nonce < nonces[r.owner]
      BY DEF NoncesPassed, TypeOK, Permit
    <3>3. nonces \in [Accounts -> Nat]
      BY DEF TypeOK
    <3>4. NoncesPassed'
      BY <3>1, <3>2, <3>3 DEF NoncesPassed
    <3>5. \A r \in executed : ~ (r.owner = q.owner /\ r.nonce = q.nonce)
      BY <3>1, <3>2, <3>3
    <3>6. OnePermitPerNonce'
      BY <3>1, <3>5 DEF OnePermitPerNonce
    <3> QED  BY <3>4, <3>6
  <2>2. ASSUME UNCHANGED <<nonces, executed>> PROVE NoncesPassed' /\ OnePermitPerNonce'
    BY <2>2 DEF NoncesPassed, OnePermitPerNonce
  <2> QED  BY <2>1, <2>2
       DEF Next, vars, approvals, history, transfer, transferAndCall, bridgeMint, bridgeBurn,
           approve, increaseAllowance, decreaseAllowance, transferFrom
<1> QED  BY <1>1, <1>2, TypeCorrect, PTL DEF Spec

\* Spenders take no more than they were granted, however approvals, changes of
\* them and permits are interleaved and permits submitted again.
THEOREM Spending == Spec => [](SpendingGranted /\ UnlimitedNoted)
<1> DEFINE Bounded == SpendingGranted /\ UnlimitedNoted
<1>1. Init => Bounded
  BY DEF Init, SpendingGranted, UnlimitedNoted
<1>2. TypeOK /\ NoncesPassed /\ Bounded /\ [Next]_vars => Bounded'
  <2> SUFFICES ASSUME TypeOK, NoncesPassed, SpendingGranted, UnlimitedNoted, [Next]_vars
               PROVE  Bounded'
    OBVIOUS
  <2>1. ASSUME NEW p \in Pairs, NEW a \in 0 .. MaxUint, NEW g \in 0 .. MaxUint,
               _approve(p[1], p[2], a, g), UNCHANGED spent,
               p \notin unlimited => spent[p] + a <= granted[p] + g
        PROVE  Bounded'
    <3>1. <<p[1], p[2]>> = p
      BY DEF Pairs
    <3>2. /\ allowances' = [allowances EXCEPT ![p] = a]
          /\ granted' = [granted EXCEPT ![p] = @ + g]
          /\ unlimited' = IF a = MaxUint THEN unlimited \cup {p} ELSE unlimited
      BY <2>1, <3>1 DEF _approve
    <3>3. ASSUME NEW r \in Pairs \ unlimited'
          PROVE  spent'[r] + allowances'[r] <= granted'[r] /\ allowances'[r] # MaxUint
      <4>1. r \in Pairs \ unlimited /\ spent' = spent
        BY <2>1, <3>2
      <4>2. CASE r = p
        BY <2>1, <3>2, <4>1, <4>2 DEF TypeOK
      <4>3. CASE r # p
        BY <3>2, <4>1, <4>3 DEF TypeOK, SpendingGranted, UnlimitedNoted
      <4> QED  BY <4>2, <4>3
    <3> QED  BY <3>3 DEF SpendingGranted, UnlimitedNoted
  <2>2. ASSUME NEW p \in Pairs, NEW a \in Amounts, approve(p[1], p[2], a)
        PROVE  Bounded'
    <3>1. p \notin unlimited => spent[p] + a <= granted[p] + a
      BY AmountsType DEF SpendingGranted, TypeOK
    <3> QED  BY <2>1, <2>2, <3>1, AmountsType DEF approve
  <2>3. ASSUME NEW p \in Pairs, NEW a \in Amounts, increaseAllowance(p[1], p[2], a)
        PROVE  Bounded'
    <3>1. <<p[1], p[2]>> = p
      BY DEF Pairs
    <3>2. a \in 0 .. MaxUint /\ allowances[p] + a \in 0 .. MaxUint
      BY <2>3, <3>1, AmountsType DEF increaseAllowance, fits, TypeOK
    <3>3. p \notin unlimited => spent[p] + (allowances[p] + a) <= granted[p] + a
      BY <3>2 DEF SpendingGranted, TypeOK
    <3>4. _approve(p[1], p[2], allowances[p] + a, a) /\ UNCHANGED spent
      BY <2>3, <3>1 DEF increaseAllowance
    <3> QED  BY <2>1, <3>2, <3>3, <3>4
  <2>4. ASSUME NEW p \in Pairs, NEW a \in Amounts, decreaseAllowance(p[1], p[2], a)
        PROVE  Bounded'
    <3>1. <<p[1], p[2]>> = p
      BY DEF Pairs
    <3>2. a \in 0 .. MaxUint /\ allowances[p] - a \in 0 .. MaxUint
      BY <2>4, <3>1, AmountsType DEF decreaseAllowance, TypeOK
    <3>3. wrap(allowances[p] - a) = allowances[p] - a
      BY <3>2, WrapExact
    <3>4. p \notin unlimited => spent[p] + (allowances[p] - a) <= granted[p] + 0
      BY <3>2 DEF SpendingGranted, TypeOK
    <3>5. _approve(p[1], p[2], allowances[p] - a, 0) /\ UNCHANGED spent
      BY <2>4, <3>1, <3>3 DEF decreaseAllowance
    <3> QED  BY <2>1, <3>2, <3>4, <3>5
  <2>5. ASSUME NEW p \in Pairs, NEW v \in Amounts, NEW n \in 0 .. MaxNonce,
               permit([owner |-> p[1], spender |-> p[2], value |-> v, nonce |-> n])
        PROVE  Bounded'
    <3> DEFINE q == [owner |-> p[1], spender |-> p[2], value |-> v, nonce |-> n]
    <3>1. q.owner = p[1] /\ q.nonce = n /\ n = nonces[p[1]] /\ p[1] \in Accounts
      BY <2>5 DEF permit, Pairs
    <3>2. q \notin executed
      <4> HIDE DEF q
      <4> QED  BY <3>1 DEF NoncesPassed, TypeOK
    <3>3. _approve(p[1], p[2], v, v) /\ UNCHANGED spent
      BY <2>5, <3>2 DEF permit
    <3>4. p \notin unlimited => spent[p] + v <= granted[p] + v
      BY AmountsType DEF SpendingGranted, TypeOK
    <3> QED  BY <2>1, <3>3, <3>4, AmountsType
  <2>6. ASSUME NEW p \in Pairs, NEW to \in Accounts, NEW a \in Amounts,
               transferFrom(p[2], p[1], to, a)
        PROVE  Bounded'
    <3>1. <<p[1], p[2]>> = p
      BY DEF Pairs
    <3>2. a \in 0 .. MaxUint
      BY AmountsType
    <3>3. /\ allowances[p] = MaxUint \/ allowances[p] >= a
          /\ allowances' = [allowances EXCEPT ![p] = leftAllowance(allowances[p], a)]
          /\ spent' = IF p \in unlimited THEN spent ELSE [spent EXCEPT ![p] = @ + a]
          /\ UNCHANGED <<granted, unlimited>>
      BY <2>6, <3>1 DEF transferFrom, covers
    <3>4. ASSUME NEW r \in Pairs \ unlimited'
          PROVE  spent'[r] + allowances'[r] <= granted'[r] /\ allowances'[r] # MaxUint
      <4>1. CASE r = p
        <5>1. /\ p \notin unlimited /\ allowances[p] # MaxUint /\ allowances[p] >= a
              /\ spent[p] + allowances[p] <= granted[p]
          BY <3>3, <3>4, <4>1 DEF SpendingGranted, UnlimitedNoted
        <5>2. allowances[p] \in 0 .. MaxUint /\ spent[p] \in Nat /\ granted[p] \in Nat
          BY DEF TypeOK
        <5>3. allowances[p] - a \in 0 .. MaxUint
          BY <3>2, <5>1, <5>2
        <5>4. leftAllowance(allowances[p], a) = allowances[p] - a
          BY <5>1, <5>3, WrapExact DEF leftAllowance
        <5>5. allowances'[p] = allowances[p] - a /\ spent'[p] = spent[p] + a /\ granted' = granted
          BY <3>3, <5>1, <5>4 DEF TypeOK
        <5> QED  BY <3>2, <4>1, <5>1, <5>2, <5>5
      <4>2. CASE r # p
        BY <3>3, <3>4, <4>2 DEF SpendingGranted, UnlimitedNoted, TypeOK
      <4> QED  BY <4>1, <4>2
    <3> QED  BY <3>4 DEF SpendingGranted, UnlimitedNoted
  <2>7. ASSUME UNCHANGED <<allowances, history>> PROVE Bounded'
    BY <2>7 DEF history, SpendingGranted, UnlimitedNoted
  <2> QED  BY <2>2, <2>3, <2>4, <2>5, <2>6, <2>7
       DEF Next, vars, approvals, transfer, transferAndCall, bridgeMint, bridgeBurn
<1> QED  BY <1>1, <1>2, TypeCorrect, Permits, PTL DEF Spec
=============================================================================
