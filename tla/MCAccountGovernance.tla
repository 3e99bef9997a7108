------------------------ MODULE MCAccountGovernance ------------------------
(* Two calls of the dispatcher over one account with two bookings: one as  *)
(* the creator, far ahead, one as the customer, about to start.            *)
EXTENDS AccountGovernance, TLC

Swap == Permutations(Calls)
=============================================================================
