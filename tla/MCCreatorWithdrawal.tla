------------------------ MODULE MCCreatorWithdrawal ------------------------
(* Two withdrawals of one creator, whose wallet can pay either but not the  *)
(* second after the first.                                                  *)
EXTENDS CreatorWithdrawal, TLC

CONSTANTS w1, w2, creator

MCCreatorOf == w1 :> creator @@ w2 :> creator
MCAmount == w1 :> 1 @@ w2 :> 2
MCBalance == creator :> 2
=============================================================================
