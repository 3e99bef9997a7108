------------------------------ MODULE Pricing ------------------------------
(***************************************************************************)
(* marketplacePricingService: what the customer pays, what the platform    *)
(* takes and what the creator earns, in integer minor units.  A customer   *)
(* fee of 5% is added to the service amount, a commission of 20% is taken  *)
(* from it, each rounded to the nearest unit, halves up.                   *)
(***************************************************************************)
EXTENDS Integers

CONSTANTS
    FeeBps, CommissionBps,     \* CUSTOMER_PLATFORM_FEE_RATE_BPS, CREATOR_COMMISSION_RATE_BPS
    MinAmount, MaxAmount,      \* FINANCIAL_LIMITS.MIN_ and MAX_TRANSACTION_AMOUNT
    MaxSafe                    \* Number.MAX_SAFE_INTEGER

ASSUME RateAssumption ==
    /\ FeeBps \in 0..10000
    /\ CommissionBps \in 0..9999
    /\ MinAmount \in Nat \ {0} /\ MaxAmount \in Nat /\ MaxSafe \in Nat

\* Mutant: no rounding offset, amounts are cut off.
CalculateBpsFloor(amount, rate) == (amount * rate) \div 10000

CalculateBps(amount, rate) == (amount * rate + 5000) \div 10000

PlatformFee(service) == CalculateBps(service, FeeBps)
Commission(service)  == CalculateBps(service, CommissionBps)
CreatorAmount(service) == service - Commission(service)
Total(service)         == service + PlatformFee(service)

\* The intermediate products calculateBps refuses.
Computable(service) ==
    /\ service * FeeBps + 5000 <= MaxSafe
    /\ service * CommissionBps + 5000 <= MaxSafe

\* calculate() returns a snapshot instead of throwing.
Priceable(service) ==
    /\ service >= MinAmount
    /\ Computable(service)
    /\ CreatorAmount(service) >= 1
    /\ Total(service) <= MaxAmount

\* isValidAmount: what the ledger accepts as the amount of an entry.
ValidAmount(amount) == MinAmount <= amount /\ amount <= MaxAmount
-----------------------------------------------------------------------------
(* Properties *)

\* A service amount is refused for being too small or too large in total, and
\* for nothing else: the safe-integer and creator-amount checks never fire first.
RefusedByLimitsOnly(service) ==
    service >= MinAmount /\ Total(service) <= MaxAmount => Priceable(service)

\* n is the whole number nearest to amount * rate / 10000, the larger of two equals.
IsNearest(n, amount, rate) ==
    /\ 20000 * n - 10000 <= 2 * (amount * rate)
    /\ 2 * (amount * rate) < 20000 * n + 10000

\* Fee and commission are the exact percentages rounded to the nearest unit,
\* halves up, as the integer formula of calculateBps claims, and every service
\* amount within the limits has a price.
IsExact(service) ==
    /\ IsNearest(PlatformFee(service), service, FeeBps)
    /\ IsNearest(Commission(service), service, CommissionBps)
    /\ RefusedByLimitsOnly(service)

\* The three credits of an escrow allocation are amounts the ledger accepts.
Postable(service) ==
    /\ ValidAmount(PlatformFee(service))
    /\ ValidAmount(Commission(service))
    /\ ValidAmount(CreatorAmount(service))
=============================================================================
