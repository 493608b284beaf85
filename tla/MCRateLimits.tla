----------------------------- MODULE MCRateLimits -----------------------------
(* An instance of RateLimits for TLC.                                      *)
EXTENDS RateLimits, TLC

CONSTANTS v2, n1, n2, us, u1, byNumber, byCountry, byMail

NumberLimiterOf == v2 :> byNumber

CountryLimiterOf == v2 :> byCountry

SameCountry == (n1 :> us) @@ (n2 :> us)

Bursts == (byNumber :> 1) @@ (byCountry :> 2) @@ (byMail :> 1)

Periods == (byNumber :> 3) @@ (byCountry :> 2) @@ (byMail :> 1)
=============================================================================
