------------------------------- MODULE Tally -------------------------------
(***************************************************************************)
(* Totals of balances and of amounts in flight.  Every solvency statement  *)
(* of this project adds up numbers held by finitely many accounts or       *)
(* carried by finitely many messages.  The sum is defined by counting:     *)
(* each element s stands for f[s] numbered units, and the total is the     *)
(* number of units.  A sum by recursion on the set would say the same, but *)
(* nothing could be proved about it without induction over the set; about  *)
(* a cardinality everything needed follows from the finite-set theorems    *)
(* (module TallyProofs).                                                   *)
(***************************************************************************)
EXTENDS Naturals, FiniteSets

\* The units that the elements of S hold under f.
Units(f, S) == UNION {{s} \X (1 .. f[s]) : s \in S}

\* The sum of f[s] over s \in S.
Tally(f, S) == Cardinality(Units(f, S))

\* The sum of the amounts carried by a set of messages.
TotalAmount(M) == Tally([m \in M |-> m.amount], M)

\* The messages of M about token t.
About(M, t) == {m \in M : m.token = t}
=============================================================================
