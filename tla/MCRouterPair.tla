---------------------------- MODULE MCRouterPair ----------------------------
(* Instances of RouterPair for TLC: a standard and a custom gateway. *)
EXTENDS RouterPair, TLC

CONSTANTS std, cust, std2, cust2, ta, tb, adm

CounterpartOf == (std :> std2) @@ (cust :> cust2)
AllHandled == Gateways \X Tokens
=============================================================================
