------------------------------ MODULE RateLimits ------------------------------
(***************************************************************************)
(* The rate limiters of util/ratelimiter.py and the servlets that use      *)
(* them: two for every instance of MsisdnRequestCodeServlet (one by phone  *)
(* number, one by country code) and one for all that sends mail, shared by *)
(* EmailRequestCodeServlet and StoreInviteServlet.                         *)
(*                                                                         *)
(* Every limiter has a LoopingCall that takes a token from every bucket    *)
(* once in a period.  The reactor may run it late; calls that were missed  *)
(* are left out, and the next one is due at the next multiple of the       *)
(* period.  A window of time, opened anywhere, counts what is let through. *)
(***************************************************************************)
EXTENDS Integers

CONSTANTS Api,             \* instances of MsisdnRequestCodeServlet: v1, v2
          Number, Country,
          CountryOf,       \* the country code of a phone number
          Sender,          \* user ids and IP addresses that cause mail
          Limiter,
          NumberLimiter, CountryLimiter,  \* those of each instance
          EmailLimiter,
          Burst, Period,   \* burst, and 1 / rate_hz in units of time
          Horizon          \* bound: the length of a window

Key == Number \cup Country \cup Sender

ASSUME LimiterAssumption ==
    /\ CountryOf \in [Number -> Country]
    /\ NumberLimiter \in [Api -> Limiter]
    /\ CountryLimiter \in [Api -> Limiter]
    /\ EmailLimiter \in Limiter
    /\ \A i, j \in Api : NumberLimiter[i] # CountryLimiter[j]
    /\ Burst \in [Limiter -> Nat]
    /\ Period \in [Limiter -> Nat \ {0}]
    /\ Horizon \in Nat

VARIABLES
    buckets,  \* _buckets of each limiter; a missing entry is 0
    grid,     \* time since the last multiple of the period
    due,      \* 1 if the LoopingCall is due and has not run yet
    window    \* what is counted: the limiter, the key, what was let through
              \* and how long it has been open

vars == <<buckets, grid, due, window>>

TypeOK ==
    /\ buckets \in [Limiter -> [Key -> Nat]]
    /\ grid \in [Limiter -> Nat]
    /\ due \in [Limiter -> {0, 1}]
    /\ window \in [limiter : Limiter, key : Key, passed : Nat, elapsed : 0..Horizon]

(* What each limiter is asked about                                        *)
Watched ==
    {<<NumberLimiter[i], n>> : i \in Api, n \in Number}
        \cup {<<CountryLimiter[i], c>> : i \in Api, c \in Country}
        \cup {<<EmailLimiter, k>> : k \in Sender}

NewWindow(l, k) == [limiter |-> l, key |-> k, passed |-> 0, elapsed |-> 0]

EmptyBuckets == [l \in Limiter |-> [k \in Key |-> 0]]

(* start() of the LoopingCall, which calls at once                         *)
Init ==
    /\ buckets = EmptyBuckets
    /\ grid = [l \in Limiter |-> 0]
    /\ due = [l \in Limiter |-> 1]
    /\ window \in {NewWindow(w[1], w[2]) : w \in Watched}

-----------------------------------------------------------------------------
(* A mutant of LimitExceeded: the bucket may hold one more.                *)
LimitExceededLater(l, k) == buckets[l][k] > Burst[l]

(* ratelimit raises LimitExceededException                                 *)
LimitExceeded(l, k) == buckets[l][k] >= Burst[l]

(* _buckets[key] = current_tokens + 1                                      *)
Add(b, l, k) == [b EXCEPT ![l][k] = @ + 1]

Counted(l, k) ==
    IF window.limiter = l /\ window.key = k
    THEN [window EXCEPT !.passed = @ + 1] ELSE window

(* EmailRequestCodeServlet.render_POST and StoreInviteServlet.render_POST, *)
(* up to the sending of the mail.  A request of the v1 API whose address   *)
(* is not known is not limited and changes nothing here.                   *)
RequestEmail(k) ==
    /\ ~ LimitExceeded(EmailLimiter, k)
    /\ buckets' = Add(buckets, EmailLimiter, k)
    /\ window' = Counted(EmailLimiter, k)
    /\ UNCHANGED <<grid, due>>

(* MsisdnRequestCodeServlet.render_POST: the number is charged before the  *)
(* country is looked at, and stays charged if the country is over its      *)
(* limit.                                                                  *)
RequestText(i, n) ==
    LET number  == NumberLimiter[i]
        country == CountryLimiter[i]
    IN  /\ ~ LimitExceeded(number, n)
        /\ \/ /\ LimitExceeded(country, CountryOf[n])
              /\ buckets' = Add(buckets, number, n)
              /\ window' = Counted(number, n)
           \/ /\ ~ LimitExceeded(country, CountryOf[n])
              /\ buckets' = Add(Add(buckets, number, n), country, CountryOf[n])
              /\ window' = IF window.limiter = number THEN Counted(number, n)
                           ELSE Counted(country, CountryOf[n])
        /\ UNCHANGED <<grid, due>>

(* A mutant of Drained: a bucket of one token is kept.                     *)
DrainedToOne(b) == [k \in Key |-> IF b[k] > 1 THEN b[k] - 1 ELSE b[k]]

(* A mutant of Drained: the buckets that reach zero are not taken out.     *)
DrainedBelowZero(b) == [k \in Key |-> b[k] - 1]

Drained(b) == [k \in Key |-> IF b[k] > 1 THEN b[k] - 1 ELSE 0]

(* _periodic_call                                                          *)
PeriodicCall(l) ==
    /\ due[l] = 1
    /\ buckets' = [buckets EXCEPT ![l] = Drained(@)]
    /\ due' = [due EXCEPT ![l] = 0]
    /\ UNCHANGED <<grid, window>>

(* The clock of the reactor, by one unit                                   *)
Tick ==
    /\ window.elapsed < Horizon
    /\ grid' = [l \in Limiter |-> IF grid[l] + 1 = Period[l] THEN 0 ELSE grid[l] + 1]
    /\ due' = [l \in Limiter |-> IF grid[l] + 1 = Period[l] THEN 1 ELSE due[l]]
    /\ window' = [window EXCEPT !.elapsed = @ + 1]
    /\ UNCHANGED buckets

(* From here on, something else is counted.                                *)
OpenWindow(l, k) ==
    /\ window' = NewWindow(l, k)
    /\ UNCHANGED <<buckets, grid, due>>

(* The buckets are in memory only.                                         *)
Restart(l, k) ==
    /\ buckets' = EmptyBuckets
    /\ grid' = [m \in Limiter |-> 0]
    /\ due' = [m \in Limiter |-> 1]
    /\ window' = NewWindow(l, k)

Next ==
    \/ \E k \in Sender : RequestEmail(k)
    \/ \E i \in Api, n \in Number : RequestText(i, n)
    \/ \E l \in Limiter : PeriodicCall(l)
    \/ Tick
    \/ \E w \in Watched : OpenWindow(w[1], w[2]) \/ Restart(w[1], w[2])

Spec == Init /\ [][Next]_vars

(* Time goes on, the window it is counted in is closed in the end, and     *)
(* the reactor runs what is due.                                           *)
Fairness ==
    /\ WF_vars(Tick)
    /\ \A l \in Limiter : WF_vars(PeriodicCall(l))
    /\ WF_vars(window.elapsed = Horizon /\ \E w \in Watched : OpenWindow(w[1], w[2]))

FairSpec == Spec /\ Fairness

-----------------------------------------------------------------------------
(* Properties *)

(* Ratelimiter: "burst: the number of requests that can happen at once",   *)
(* "rate_hz: The maximum average sustained rate".  Whatever window of time *)
(* is taken, what is let through in it for a key is at most the burst plus *)
(* the periods that the window touches, however late the LoopingCall runs; *)
(* that is, burst + 1 + ceil(elapsed / period).                            *)
RateIsBounded ==
    LET l == window.limiter
    IN  Period[l] * (window.passed - Burst[l]) <= 2 * Period[l] - 1 + window.elapsed

(* Nobody is shut out for good: a bucket that is full has room again, even *)
(* if requests keep coming all the time.                                   *)
ReadmittedInTheEnd ==
    \A w \in Watched :
        Burst[w[1]] > 0 =>
            (LimitExceeded(w[1], w[2]) ~> ~ LimitExceeded(w[1], w[2]))
=============================================================================
