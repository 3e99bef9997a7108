-------------------------- MODULE MCWalletConversion --------------------------
(* Two conversions of one user, there and back; the second wallet is not   *)
(* open yet.  Each wallet holds at most two.                               *)
EXTENDS WalletConversion, TLC

CONSTANTS there, back, usd, inr

MCSource == there :> usd @@ back :> inr
MCTarget == there :> inr @@ back :> usd
MCAmount == there :> 1 @@ back :> 2
MCBought == there :> 2 @@ back :> 1
MCBalance == usd :> 1 @@ inr :> 0
Swap == Permutations(Callers)
=============================================================================
