-------------------------- MODULE CanonicalBridge --------------------------
(***************************************************************************)
(* What a token bridge promises, without chains, tickets or exits: every   *)
(* unit locked on L1 is either owed to somebody (as an L2 token, or on its *)
(* way in either direction) or is surplus nobody is owed.  A claim comes   *)
(* into being only with a unit locked, and a unit leaves only against a    *)
(* claim.                                                                  *)
(***************************************************************************)
EXTENDS Naturals

CONSTANTS
  Tokens,
  Quantities   \* what one deposit may lock

VARIABLES locked, claims, surplus

vars == <<locked, claims, surplus>>

Init ==
  /\ locked  = [t \in Tokens |-> 0]
  /\ claims  = [t \in Tokens |-> 0]
  /\ surplus = [t \in Tokens |-> 0]

\* A deposit locks a units and creates as many claims.
Lock(t, a) ==
  /\ locked' = [locked EXCEPT ![t] = @ + a]
  /\ claims' = [claims EXCEPT ![t] = @ + a]
  /\ UNCHANGED surplus

\* A withdrawal pays a units and extinguishes as many claims.
Release(t, a) ==
  /\ locked' = [locked EXCEPT ![t] = @ - a]
  /\ claims' = [claims EXCEPT ![t] = @ - a]
  /\ UNCHANGED surplus

\* A deposit whose ticket is cancelled or expires leaves its units behind.
Abandon(t, a) ==
  /\ claims' = [claims EXCEPT ![t] = @ - a]
  /\ surplus' = [surplus EXCEPT ![t] = @ + a]
  /\ UNCHANGED locked

\* Units sent to the bridge without a deposit.
Donate(t, a) ==
  /\ locked' = [locked EXCEPT ![t] = @ + a]
  /\ surplus' = [surplus EXCEPT ![t] = @ + a]
  /\ UNCHANGED claims

Next ==
  \E t \in Tokens :
    \/ \E a \in Quantities : Lock(t, a) \/ Donate(t, a)
    \/ \E a \in 0 .. claims[t] : Release(t, a) \/ Abandon(t, a)

Spec == Init /\ [][Next]_vars
=============================================================================
