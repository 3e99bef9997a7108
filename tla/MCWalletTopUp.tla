---------------------------- MODULE MCWalletTopUp ----------------------------
(* One top-up of a wallet that is full, until something is spent. *)
EXTENDS WalletTopUp, TLC

CONSTANTS topup, wallet

MCWalletOf == topup :> wallet
MCAmount == topup :> 1
MCBalance == wallet :> 1
Swap == Permutations(Callers)
=============================================================================
