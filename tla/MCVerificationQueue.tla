-------------------------- MODULE MCVerificationQueue --------------------------
(* One profile.  MCVerificationQueue: one submission, its job taken by two  *)
(* workers in two attempts, an administrator who lists the queue, one       *)
(* crash.  MCVerificationDeadline: two submissions after each other, one    *)
(* worker, one attempt and one crash, with the job loop that never stops.   *)
EXTENDS VerificationQueue, TLC

Swap == Permutations(Workers)
=============================================================================
