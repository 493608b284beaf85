\* Two numbers of one country, whose bucket is drained at another rate.
SPECIFICATION FairSpec
CONSTANTS
    v2 = v2  n1 = n1  n2 = n2  us = us  u1 = u1
    byNumber = byNumber  byCountry = byCountry  byMail = byMail
    Api = {v2}
    Number = {n1, n2}
    Country = {us}
    CountryOf <- SameCountry
    Sender = {u1}
    Limiter = {byNumber, byCountry, byMail}
    NumberLimiter <- NumberLimiterOf
    CountryLimiter <- CountryLimiterOf
    EmailLimiter = byMail
    Burst <- Bursts
    Period <- Periods
    Horizon = 4
INVARIANTS
    TypeOK
    RateIsBounded
PROPERTY ReadmittedInTheEnd
