---------------------------- MODULE TallyProofs ----------------------------
(***************************************************************************)
(* What the totals of module Tally do when one account or one message      *)
(* changes.  These lemmas carry the arithmetic of every solvency proof.    *)
(***************************************************************************)
EXTENDS Tally, FiniteSetTheorems, TLAPS

\* One element's units are as many as its value.
LEMMA UnitsOne ==
  ASSUME NEW s, NEW n \in Nat
  PROVE  /\ IsFiniteSet({s} \X (1 .. n))
         /\ Cardinality({s} \X (1 .. n)) = n
<1>1. IsFiniteSet(1 .. n) /\ Cardinality(1 .. n) = n
  BY FS_Interval
<1>2. IsFiniteSet({s}) /\ Cardinality({s}) = 1
  BY FS_Singleton
<1> QED  BY <1>1, <1>2, FS_Product

\* The units of a finite set of elements are finitely many, so a tally is
\* a natural number.
LEMMA TallyType ==
  ASSUME NEW S, IsFiniteSet(S), NEW f, \A s \in S : f[s] \in Nat
  PROVE  /\ IsFiniteSet(Units(f, S))
         /\ Tally(f, S) \in Nat
<1> DEFINE T == {{s} \X (1 .. f[s]) : s \in S}
           g == [s \in S |-> {s} \X (1 .. f[s])]
<1>1. g \in Surjection(S, T)
  BY DEF Surjection
<1>2. IsFiniteSet(T)
  BY <1>1, FS_Surjection
<1>3. ASSUME NEW t \in T  PROVE  IsFiniteSet(t)
  <2>1. PICK s \in S : t = {s} \X (1 .. f[s])
    OBVIOUS
  <2>2. IsFiniteSet({s} \X (1 .. f[s]))
    BY UnitsOne
  <2> QED  BY <2>1, <2>2
<1>4. IsFiniteSet(UNION T)
  BY <1>2, <1>3, FS_UNION
<1> QED  BY <1>4, FS_CardinalityType DEF Units, Tally

\* Only the values on S count.
LEMMA TallyAgree ==
  ASSUME NEW S, NEW f, NEW g, \A s \in S : f[s] = g[s]
  PROVE  Tally(f, S) = Tally(g, S)
<1>1. Units(f, S) = Units(g, S)
  BY DEF Units
<1> QED  BY <1>1 DEF Tally

\* Elements that hold nothing do not count.
LEMMA TallyZeros ==
  ASSUME NEW S, NEW T, S \subseteq T, NEW f, \A s \in T \ S : f[s] = 0
  PROVE  Tally(f, T) = Tally(f, S)
<1>1. \A s \in T \ S : {s} \X (1 .. f[s]) = {}
  OBVIOUS
<1>2. Units(f, T) = Units(f, S)
  BY <1>1 DEF Units
<1> QED  BY <1>2 DEF Tally

\* A new element adds its value.
LEMMA TallyAdd ==
  ASSUME NEW S, IsFiniteSet(S), NEW f, \A s \in S : f[s] \in Nat,
         NEW x, x \notin S, f[x] \in Nat
  PROVE  Tally(f, S \cup {x}) = Tally(f, S) + f[x]
<1> DEFINE X == {x} \X (1 .. f[x])
<1>1. Units(f, S \cup {x}) = Units(f, S) \cup X
  BY DEF Units
<1>2. Units(f, S) \cap X = {}
  BY DEF Units
<1>3. IsFiniteSet(Units(f, S)) /\ Tally(f, S) \in Nat
  BY TallyType
<1>4. IsFiniteSet(X) /\ Cardinality(X) = f[x]
  BY UnitsOne
<1>5. Cardinality(Units(f, S) \cup X) = Cardinality(Units(f, S)) + f[x] - Cardinality({})
  BY <1>2, <1>3, <1>4, FS_Union
<1>6. Cardinality(Units(f, S) \cup X) = Cardinality(Units(f, S)) + f[x]
  BY <1>3, <1>5, FS_EmptySet DEF Tally
<1> QED  BY <1>1, <1>6 DEF Tally

\* An element that leaves takes its value away.
LEMMA TallyRemove ==
  ASSUME NEW S, IsFiniteSet(S), NEW f, \A s \in S : f[s] \in Nat, NEW x \in S
  PROVE  /\ Tally(f, S) = Tally(f, S \ {x}) + f[x]
         /\ Tally(f, S \ {x}) \in Nat
<1>1. IsFiniteSet(S \ {x})
  BY FS_Difference
<1>2. S = (S \ {x}) \cup {x}
  OBVIOUS
<1>3. Tally(f, (S \ {x}) \cup {x}) = Tally(f, S \ {x}) + f[x]
  BY <1>1, TallyAdd
<1> QED  BY <1>1, <1>2, <1>3, TallyType

\* Changing one element's value changes the total by the difference.
LEMMA TallyUpdate ==
  ASSUME NEW S, IsFiniteSet(S), NEW f, \A s \in S : f[s] \in Nat,
         NEW g, \A s \in S : g[s] \in Nat,
         NEW x \in S, \A s \in S \ {x} : g[s] = f[s]
  PROVE  Tally(g, S) + f[x] = Tally(f, S) + g[x]
<1>1. Tally(f, S) = Tally(f, S \ {x}) + f[x] /\ Tally(f, S \ {x}) \in Nat
  BY TallyRemove
<1>2. Tally(g, S) = Tally(g, S \ {x}) + g[x]
  BY TallyRemove
<1>3. Tally(g, S \ {x}) = Tally(f, S \ {x})
  BY TallyAgree
<1> QED  BY <1>1, <1>2, <1>3

-----------------------------------------------------------------------------
\* The total of a finite set of messages is a natural number.
LEMMA TotalAmountType ==
  ASSUME NEW M, IsFiniteSet(M), \A m \in M : m.amount \in Nat
  PROVE  TotalAmount(M) \in Nat
BY TallyType DEF TotalAmount

\* No messages, no amount.
LEMMA TotalAmountEmpty == TotalAmount({}) = 0
BY FS_EmptySet DEF TotalAmount, Tally, Units

\* Sending a message adds its amount.
LEMMA TotalAmountAdd ==
  ASSUME NEW M, IsFiniteSet(M), \A m \in M : m.amount \in Nat,
         NEW x, x \notin M, x.amount \in Nat
  PROVE  TotalAmount(M \cup {x}) = TotalAmount(M) + x.amount
<1> DEFINE f == [m \in M \cup {x} |-> m.amount]
           h == [m \in M |-> m.amount]
<1>1. Tally(f, M \cup {x}) = Tally(f, M) + f[x]
  BY TallyAdd
<1>2. Tally(f, M) = Tally(h, M)
  BY TallyAgree
<1> QED  BY <1>1, <1>2 DEF TotalAmount

\* Consuming a message takes its amount away.
LEMMA TotalAmountRemove ==
  ASSUME NEW M, IsFiniteSet(M), \A m \in M : m.amount \in Nat, NEW x \in M
  PROVE  /\ TotalAmount(M) = TotalAmount(M \ {x}) + x.amount
         /\ TotalAmount(M \ {x}) \in Nat
<1>1. IsFiniteSet(M \ {x}) /\ x \notin M \ {x} /\ M = (M \ {x}) \cup {x}
  BY FS_Difference
<1>2. TotalAmount((M \ {x}) \cup {x}) = TotalAmount(M \ {x}) + x.amount
  BY <1>1, TotalAmountAdd
<1> QED  BY <1>1, <1>2, TotalAmountType

\* The same two facts for the messages about one token.
LEMMA SendOneToken ==
  ASSUME NEW M, IsFiniteSet(M), \A m \in M : m.amount \in Nat,
         NEW x, x \notin M, x.amount \in Nat, NEW t
  PROVE  /\ TotalAmount(About(M \cup {x}, t)) =
              TotalAmount(About(M, t)) + (IF x.token = t THEN x.amount ELSE 0)
         /\ TotalAmount(About(M, t)) \in Nat
<1>1. IsFiniteSet(About(M, t)) /\ (\A m \in About(M, t) : m.amount \in Nat)
  BY FS_Subset DEF About
<1>2. TotalAmount(About(M, t)) \in Nat
  BY <1>1, TotalAmountType
<1>3. CASE x.token = t
  <2>1. About(M \cup {x}, t) = About(M, t) \cup {x} /\ x \notin About(M, t)
    BY <1>3 DEF About
  <2>2. TotalAmount(About(M, t) \cup {x}) = TotalAmount(About(M, t)) + x.amount
    BY <1>1, <2>1, TotalAmountAdd
  <2> QED  BY <1>2, <1>3, <2>1, <2>2
<1>4. CASE x.token # t
  <2>1. About(M \cup {x}, t) = About(M, t)
    BY <1>4 DEF About
  <2> QED  BY <1>2, <1>4, <2>1
<1> QED  BY <1>3, <1>4

LEMMA ConsumeOneToken ==
  ASSUME NEW M, IsFiniteSet(M), \A m \in M : m.amount \in Nat, NEW x \in M, NEW t
  PROVE  /\ TotalAmount(About(M, t)) =
              TotalAmount(About(M \ {x}, t)) + (IF x.token = t THEN x.amount ELSE 0)
         /\ TotalAmount(About(M \ {x}, t)) \in Nat
<1>1. IsFiniteSet(M \ {x}) /\ (\A m \in M \ {x} : m.amount \in Nat) /\ x \notin M \ {x}
  BY FS_RemoveElement
<1>2. M = (M \ {x}) \cup {x} /\ x.amount \in Nat
  OBVIOUS
<1>3. /\ TotalAmount(About((M \ {x}) \cup {x}, t)) =
           TotalAmount(About(M \ {x}, t)) + (IF x.token = t THEN x.amount ELSE 0)
      /\ TotalAmount(About(M \ {x}, t)) \in Nat
  BY <1>1, <1>2, SendOneToken
<1> QED  BY <1>2, <1>3
=============================================================================
