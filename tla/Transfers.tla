----------------------------- MODULE Transfers -----------------------------
(***************************************************************************)
(* The messages between the two gateways of a pair, as far as the special  *)
(* gateways (USDC, WETH, standard and reverse) have them in common:        *)
(* deposits are retryable tickets, exits are messages of the outbox, and   *)
(* both are numbered in the order in which they were sent.                 *)
(***************************************************************************)
EXTENDS Naturals

CONSTANTS
  Amounts,      \* amounts users move
  MaxMessages   \* bound on deposits and withdrawals made

ASSUME TransfersAssumption == Amounts \subseteq Nat /\ MaxMessages \in Nat

VARIABLES
  deposits, exits,   \* messages in flight
  sent               \* number of messages ever sent

messages == <<deposits, exits, sent>>
=============================================================================
