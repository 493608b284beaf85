--------------------------- MODULE RateLimitsProofs ---------------------------
(***************************************************************************)
(* The rate that Ratelimiter lets through, for every set of keys and every *)
(* burst, period and length of the window.                                 *)
(***************************************************************************)
EXTENDS RateLimits, TLAPS

(* What the calls that the window has seen and the one that is due can     *)
(* still account for.  Each period adds one call, and the window may have  *)
(* begun with one that was due and at the very end of a period.            *)
Leaked ==
    LET l == window.limiter
        k == window.key
    IN  Period[l] * (window.passed - buckets[l][k]) + Period[l] * due[l] + grid[l]
            <= 2 * Period[l] - 1 + window.elapsed

BucketsHold ==
    \A l \in Limiter : /\ grid[l] < Period[l]
                       /\ \A k \in Key : buckets[l][k] <= Burst[l]

WindowIsNew == window.passed = 0 /\ window.elapsed = 0

RateInv == TypeOK /\ BucketsHold /\ Leaked

-----------------------------------------------------------------------------
(* One token more is one period more.                                      *)
LEMMA OneMore ==
    ASSUME NEW p \in Nat, NEW x \in Int
    PROVE  p * (x + 1) = p * x + p
  BY SMT

LEMMA Monotone ==
    ASSUME NEW p \in Nat, NEW x \in Int, NEW y \in Int, x <= y
    PROVE  p * x <= p * y
<1>1. p * (y - x) >= 0
  BY SMT
<1>2. p * (y - x) = p * y - p * x
  BY SMT
<1> QED
  BY <1>1, <1>2, SMT

LEMMA WatchedType == \A w \in Watched : w[1] \in Limiter /\ w[2] \in Key
  BY LimiterAssumption DEF Watched, Key

LEMMA NewWindowType ==
    ASSUME NEW l \in Limiter, NEW k \in Key
    PROVE  NewWindow(l, k) \in
             [limiter : Limiter, key : Key, passed : Nat, elapsed : 0..Horizon]
  BY LimiterAssumption DEF NewWindow

LEMMA EmptyType == EmptyBuckets \in [Limiter -> [Key -> Nat]]
  BY DEF EmptyBuckets

(* A token is put into a bucket that has room for it.                      *)
LEMMA AddType ==
    ASSUME NEW b \in [Limiter -> [Key -> Nat]], NEW l \in Limiter, NEW k \in Key
    PROVE  /\ Add(b, l, k) \in [Limiter -> [Key -> Nat]]
           /\ \A m \in Limiter, j \in Key :
                Add(b, l, k)[m][j] = IF m = l /\ j = k THEN b[m][j] + 1 ELSE b[m][j]
  BY DEF Add

LEMMA CountedType ==
    ASSUME TypeOK, NEW l \in Limiter, NEW k \in Key
    PROVE  /\ Counted(l, k) \in
                [limiter : Limiter, key : Key, passed : Nat, elapsed : 0..Horizon]
           /\ Counted(l, k).limiter = window.limiter
           /\ Counted(l, k).key = window.key
           /\ Counted(l, k).elapsed = window.elapsed
           /\ Counted(l, k).passed = window.passed
                + IF window.limiter = l /\ window.key = k THEN 1 ELSE 0
  BY DEF TypeOK, Counted

(* A step that counts what it adds to the bucket of the window.            *)
LEMMA Balanced ==
    ASSUME RateInv, TypeOK', BucketsHold', grid' = grid, due' = due,
           window'.limiter = window.limiter, window'.key = window.key,
           window'.elapsed = window.elapsed,
           window'.passed - buckets'[window.limiter][window.key]
             = window.passed - buckets[window.limiter][window.key]
    PROVE  RateInv'
  BY DEF RateInv, Leaked

(* A window that is opened has seen nothing.                               *)
LEMMA FreshWindow == TypeOK /\ BucketsHold /\ WindowIsNew => Leaked
<1> SUFFICES ASSUME TypeOK, BucketsHold, WindowIsNew PROVE Leaked
  OBVIOUS
<1> DEFINE l == window.limiter
           k == window.key
<1>1. l \in Limiter /\ k \in Key
  BY DEF TypeOK
<1>2. /\ Period[l] \in Nat \ {0} /\ buckets[l][k] \in Nat
      /\ due[l] \in {0, 1} /\ grid[l] \in Nat /\ grid[l] < Period[l]
  BY <1>1, LimiterAssumption DEF TypeOK, BucketsHold
<1>3. Period[l] * (0 - buckets[l][k]) <= Period[l] * 0
  BY <1>2, Monotone
<1>4. Period[l] * due[l] <= Period[l] * 1
  BY <1>2, Monotone
<1>5. Period[l] * 0 = 0 /\ Period[l] * 1 = Period[l]
  BY <1>2
<1>6. Period[l] * (0 - buckets[l][k]) \in Int /\ Period[l] * due[l] \in Int
  BY <1>2
<1>7. Period[l] * (0 - buckets[l][k]) + Period[l] * due[l] + grid[l]
        <= 2 * Period[l] - 1
  BY <1>2, <1>3, <1>4, <1>5, <1>6
<1> QED
  BY <1>2, <1>7 DEF Leaked, WindowIsNew

-----------------------------------------------------------------------------
LEMMA EmailKeeps ==
    ASSUME RateInv, NEW k \in Sender, RequestEmail(k)
    PROVE  RateInv'
<1> DEFINE l == EmailLimiter
<1>0. l \in Limiter /\ k \in Key
  BY LimiterAssumption DEF Key
<1>1. TypeOK /\ BucketsHold /\ buckets \in [Limiter -> [Key -> Nat]]
  BY DEF RateInv, TypeOK
<1>2. /\ buckets' \in [Limiter -> [Key -> Nat]]
      /\ \A m \in Limiter, j \in Key :
           buckets'[m][j] = IF m = l /\ j = k THEN buckets[m][j] + 1 ELSE buckets[m][j]
  BY <1>0, <1>1, AddType DEF RequestEmail
<1>3. TypeOK'
  BY <1>0, <1>1, <1>2, CountedType DEF RequestEmail, TypeOK
<1>4. BucketsHold'
  BY <1>0, <1>1, <1>2, LimiterAssumption DEF RequestEmail, BucketsHold, LimitExceeded
<1>5. window.limiter \in Limiter /\ window.key \in Key /\ window.passed \in Nat
  BY <1>1 DEF TypeOK
<1>6. /\ window'.limiter = window.limiter /\ window'.key = window.key
      /\ window'.elapsed = window.elapsed
      /\ window'.passed = window.passed
           + IF window.limiter = l /\ window.key = k THEN 1 ELSE 0
  BY <1>0, <1>1, CountedType DEF RequestEmail
<1>7. window'.passed - buckets'[window.limiter][window.key]
        = window.passed - buckets[window.limiter][window.key]
  <2>1. buckets[window.limiter][window.key] \in Nat
    BY <1>1, <1>5
  <2> QED
    BY <1>2, <1>5, <1>6, <2>1
<1> QED
  BY <1>3, <1>4, <1>6, <1>7, Balanced DEF RequestEmail

LEMMA TextKeeps ==
    ASSUME RateInv, NEW i \in Api, NEW n \in Number, RequestText(i, n)
    PROVE  RateInv'
<1> DEFINE number  == NumberLimiter[i]
           country == CountryLimiter[i]
           c       == CountryOf[n]
<1>0. /\ number \in Limiter /\ country \in Limiter /\ number # country
      /\ n \in Key /\ c \in Key
  BY LimiterAssumption DEF Key
<1>1. TypeOK /\ BucketsHold /\ buckets \in [Limiter -> [Key -> Nat]]
  BY DEF RateInv, TypeOK
<1>2. /\ window.limiter \in Limiter /\ window.key \in Key /\ window.passed \in Nat
      /\ buckets[window.limiter][window.key] \in Nat
  BY <1>1 DEF TypeOK
<1>3. grid' = grid /\ due' = due /\ ~ LimitExceeded(number, n)
  BY DEF RequestText
<1>4. /\ Add(buckets, number, n) \in [Limiter -> [Key -> Nat]]
      /\ \A m \in Limiter, j \in Key :
           Add(buckets, number, n)[m][j]
             = IF m = number /\ j = n THEN buckets[m][j] + 1 ELSE buckets[m][j]
  BY <1>0, <1>1, AddType
<1>5. CASE /\ buckets' = Add(buckets, number, n)
           /\ window' = Counted(number, n)
  <2>1. TypeOK'
    BY <1>0, <1>1, <1>3, <1>4, <1>5, CountedType DEF TypeOK
  <2>2. BucketsHold'
    BY <1>0, <1>1, <1>3, <1>4, <1>5, LimiterAssumption DEF BucketsHold, LimitExceeded
  <2>3. /\ window'.limiter = window.limiter /\ window'.key = window.key
        /\ window'.elapsed = window.elapsed
        /\ window'.passed = window.passed
             + IF window.limiter = number /\ window.key = n THEN 1 ELSE 0
    BY <1>0, <1>1, <1>5, CountedType
  <2>4. window'.passed - buckets'[window.limiter][window.key]
          = window.passed - buckets[window.limiter][window.key]
    <3> DEFINE hit == window.limiter = number /\ window.key = n
    <3>1. buckets'[window.limiter][window.key]
            = buckets[window.limiter][window.key] + IF hit THEN 1 ELSE 0
      BY <1>2, <1>4, <1>5
    <3>2. window'.passed = window.passed + IF hit THEN 1 ELSE 0
      BY <2>3
    <3> HIDE DEF hit
    <3> QED
      BY <1>2, <3>1, <3>2
  <2> QED
    BY <1>3, <2>1, <2>2, <2>3, <2>4, Balanced
<1>6. CASE /\ ~ LimitExceeded(country, c)
           /\ buckets' = Add(Add(buckets, number, n), country, c)
           /\ window' = IF window.limiter = number THEN Counted(number, n)
                        ELSE Counted(country, c)
  <2>1. /\ buckets' \in [Limiter -> [Key -> Nat]]
        /\ \A m \in Limiter, j \in Key :
             buckets'[m][j]
               = IF (m = number /\ j = n) \/ (m = country /\ j = c)
                 THEN buckets[m][j] + 1 ELSE buckets[m][j]
    <3> DEFINE b == Add(buckets, number, n)
    <3>1. /\ Add(b, country, c) \in [Limiter -> [Key -> Nat]]
          /\ \A m \in Limiter, j \in Key :
               Add(b, country, c)[m][j]
                 = IF m = country /\ j = c THEN b[m][j] + 1 ELSE b[m][j]
      BY <1>0, <1>4, AddType
    <3>2. buckets' = Add(b, country, c)
      BY <1>6
    <3> HIDE DEF b, number, country, c
    <3>3. \A m \in Limiter, j \in Key :
            b[m][j] = IF m = number /\ j = n THEN buckets[m][j] + 1 ELSE buckets[m][j]
      BY <1>4 DEF b
    <3> QED
      BY <1>0, <3>1, <3>2, <3>3
  <2>2. TypeOK'
    BY <1>0, <1>1, <1>3, <1>6, <2>1, CountedType DEF TypeOK
  <2>3. BucketsHold'
    BY <1>0, <1>1, <1>3, <1>6, <2>1, LimiterAssumption, SMTT(30) DEF BucketsHold, LimitExceeded
  <2>4. /\ window'.limiter = window.limiter /\ window'.key = window.key
        /\ window'.elapsed = window.elapsed
        /\ window'.passed = window.passed
             + IF \/ window.limiter = number /\ window.key = n
                  \/ window.limiter = country /\ window.key = c THEN 1 ELSE 0
    BY <1>0, <1>1, <1>2, <1>6, CountedType
  <2>5. window'.passed - buckets'[window.limiter][window.key]
          = window.passed - buckets[window.limiter][window.key]
    <3> DEFINE hit == \/ window.limiter = number /\ window.key = n
                      \/ window.limiter = country /\ window.key = c
    <3>1. buckets'[window.limiter][window.key]
            = buckets[window.limiter][window.key] + IF hit THEN 1 ELSE 0
      BY <1>2, <2>1
    <3>2. window'.passed = window.passed + IF hit THEN 1 ELSE 0
      BY <2>4
    <3> HIDE DEF hit
    <3> QED
      BY <1>2, <3>1, <3>2
  <2> QED
    BY <1>3, <2>2, <2>3, <2>4, <2>5, Balanced
<1> QED
  BY <1>5, <1>6 DEF RequestText

LEMMA CallKeeps ==
    ASSUME RateInv, NEW m \in Limiter, PeriodicCall(m)
    PROVE  RateInv'
<1> DEFINE l == window.limiter
           k == window.key
<1>1. TypeOK /\ BucketsHold /\ Leaked
  BY DEF RateInv
<1>2. /\ l \in Limiter /\ k \in Key /\ window.passed \in Nat /\ window.elapsed \in Nat
      /\ Period[l] \in Nat /\ grid[l] \in Nat /\ due[l] \in {0, 1}
  BY <1>1, LimiterAssumption DEF TypeOK
<1>3. /\ buckets' \in [Limiter -> [Key -> Nat]]
      /\ \A x \in Limiter, j \in Key :
           /\ buckets'[x][j] <= buckets[x][j]
           /\ x = m => buckets'[x][j] >= buckets[x][j] - 1
           /\ x # m => buckets'[x][j] = buckets[x][j]
  BY <1>1 DEF PeriodicCall, Drained, TypeOK
<1>4. TypeOK'
  BY <1>1, <1>3 DEF PeriodicCall, TypeOK
<1>5. BucketsHold'
  BY <1>1, <1>3, LimiterAssumption DEF PeriodicCall, BucketsHold, TypeOK
<1>6. CASE l # m
  BY <1>1, <1>2, <1>3, <1>4, <1>5, <1>6 DEF PeriodicCall, RateInv, Leaked, TypeOK
<1>7. CASE l = m
  <2> DEFINE x == window.passed - buckets[l][k]
             y == window.passed - buckets'[l][k]
  <2>1. /\ x \in Int /\ y \in Int /\ y <= x + 1
        /\ due[l] = 1 /\ due'[l] = 0 /\ grid' = grid /\ window' = window
    BY <1>1, <1>2, <1>3, <1>7 DEF PeriodicCall, TypeOK
  <2>2. Period[l] * y <= Period[l] * x + Period[l]
    BY <1>2, <2>1, OneMore, Monotone
  <2>3. Period[l] * x + Period[l] * 1 + grid[l] <= 2 * Period[l] - 1 + window.elapsed
    BY <1>1, <2>1 DEF Leaked
  <2>4. Period[l] * 1 = Period[l] /\ Period[l] * 0 = 0
    BY <1>2
  <2>5. Period[l] * x \in Int /\ Period[l] * y \in Int
    BY <1>2, <2>1
  <2>6. Period[l] * y + Period[l] * 0 + grid[l] <= 2 * Period[l] - 1 + window.elapsed
    BY <1>2, <2>2, <2>3, <2>4, <2>5
  <2>7. Leaked'
    BY <2>1, <2>6 DEF Leaked
  <2> QED
    BY <1>4, <1>5, <2>7 DEF RateInv
<1> QED
  BY <1>6, <1>7

LEMMA TickKeeps ==
    ASSUME RateInv, Tick
    PROVE  RateInv'
<1> DEFINE l == window.limiter
           k == window.key
<1>1. TypeOK /\ BucketsHold /\ Leaked
  BY DEF RateInv
<1>2. /\ l \in Limiter /\ k \in Key /\ window.passed \in Nat /\ window.elapsed \in Nat
      /\ Period[l] \in Nat \ {0} /\ grid[l] \in Nat /\ grid[l] < Period[l]
      /\ due[l] \in {0, 1} /\ buckets[l][k] \in Nat
  BY <1>1, LimiterAssumption DEF TypeOK, BucketsHold
<1>3. TypeOK'
  <2>1. grid' \in [Limiter -> Nat] /\ due' \in [Limiter -> {0, 1}]
    BY <1>1 DEF Tick, TypeOK
  <2>2. window' \in [limiter : Limiter, key : Key, passed : Nat, elapsed : 0..Horizon]
    <3>1. window.elapsed + 1 \in 0..Horizon
      BY <1>1, LimiterAssumption DEF Tick, TypeOK
    <3> QED
      BY <1>1, <3>1 DEF Tick, TypeOK
  <2> QED
    BY <1>1, <2>1, <2>2 DEF Tick, TypeOK
<1>4. BucketsHold'
  <2>1. ASSUME NEW m \in Limiter PROVE grid'[m] < Period[m]
    <3>1. /\ grid[m] \in Nat /\ Period[m] \in Nat \ {0} /\ grid[m] < Period[m]
          /\ grid'[m] = IF grid[m] + 1 = Period[m] THEN 0 ELSE grid[m] + 1
      BY <1>1, LimiterAssumption DEF Tick, TypeOK, BucketsHold
    <3> QED
      BY <3>1
  <2> QED
    BY <1>1, <2>1 DEF Tick, BucketsHold
<1> DEFINE x == Period[l] * (window.passed - buckets[l][k])
<1>5. /\ window'.limiter = l /\ window'.key = k /\ window'.passed = window.passed
      /\ window'.elapsed = window.elapsed + 1 /\ buckets' = buckets
  BY <1>1 DEF Tick, TypeOK
<1>6. x \in Int /\ Period[l] * 1 = Period[l] /\ Period[l] * 0 = 0
  BY <1>2
<1>7. x + Period[l] * due[l] + grid[l] <= 2 * Period[l] - 1 + window.elapsed
  BY <1>1 DEF Leaked
<1>8. \/ grid'[l] = grid[l] + 1 /\ due'[l] = due[l]
      \/ grid'[l] = 0 /\ grid[l] + 1 = Period[l] /\ due'[l] = 1
  BY <1>1, <1>2 DEF Tick
<1>9. x + Period[l] * due'[l] + grid'[l] <= 2 * Period[l] - 1 + (window.elapsed + 1)
  <2>1. CASE due[l] = 0
    BY <1>2, <1>6, <1>7, <1>8, <2>1
  <2>2. CASE due[l] = 1
    BY <1>2, <1>6, <1>7, <1>8, <2>2
  <2> QED
    BY <1>2, <2>1, <2>2
<1>10. Leaked'
  BY <1>5, <1>9 DEF Leaked
<1> QED
  BY <1>3, <1>4, <1>10 DEF RateInv

LEMMA OpenKeeps ==
    ASSUME RateInv, NEW l \in Limiter, NEW k \in Key, OpenWindow(l, k) \/ Restart(l, k)
    PROVE  RateInv'
<1>1. TypeOK' /\ BucketsHold'
  BY NewWindowType, EmptyType, LimiterAssumption
     DEF RateInv, TypeOK, BucketsHold, OpenWindow, Restart, EmptyBuckets
<1>2. WindowIsNew'
  BY DEF OpenWindow, Restart, NewWindow, WindowIsNew
<1>3. Leaked'
  BY <1>1, <1>2, FreshWindow, PTL
<1> QED
  BY <1>1, <1>3 DEF RateInv

-----------------------------------------------------------------------------
LEMMA RateInvInit == Init => RateInv
<1> SUFFICES ASSUME Init PROVE RateInv
  OBVIOUS
<1>1. TypeOK /\ BucketsHold
  BY WatchedType, NewWindowType, EmptyType, LimiterAssumption
     DEF Init, TypeOK, BucketsHold, EmptyBuckets
<1>2. WindowIsNew
  BY DEF Init, NewWindow, WindowIsNew
<1> QED
  BY <1>1, <1>2, FreshWindow DEF RateInv

LEMMA RateInvNext == RateInv /\ [Next]_vars => RateInv'
<1> SUFFICES ASSUME RateInv, [Next]_vars PROVE RateInv'
  OBVIOUS
<1>1. ASSUME NEW k \in Sender, RequestEmail(k) PROVE RateInv'
  BY <1>1, EmailKeeps
<1>2. ASSUME NEW i \in Api, NEW n \in Number, RequestText(i, n) PROVE RateInv'
  BY <1>2, TextKeeps
<1>3. ASSUME NEW l \in Limiter, PeriodicCall(l) PROVE RateInv'
  BY <1>3, CallKeeps
<1>4. CASE Tick
  BY <1>4, TickKeeps
<1>5. ASSUME NEW w \in Watched, OpenWindow(w[1], w[2]) \/ Restart(w[1], w[2])
      PROVE  RateInv'
  BY <1>5, WatchedType, OpenKeeps
<1>6. CASE UNCHANGED vars
  BY <1>6 DEF vars, RateInv, TypeOK, BucketsHold, Leaked
<1> QED
  BY <1>1, <1>2, <1>3, <1>4, <1>5, <1>6 DEF Next

LEMMA RateInvBounds == RateInv => RateIsBounded
<1> SUFFICES ASSUME RateInv PROVE RateIsBounded
  OBVIOUS
<1> DEFINE l == window.limiter
           k == window.key
<1>1. /\ l \in Limiter /\ k \in Key /\ window.passed \in Nat /\ window.elapsed \in Nat
      /\ Period[l] \in Nat /\ Burst[l] \in Nat /\ grid[l] \in Nat
      /\ due[l] \in {0, 1} /\ buckets[l][k] \in Nat
      /\ buckets[l][k] <= Burst[l]
  BY LimiterAssumption DEF RateInv, TypeOK, BucketsHold
<1>2. Period[l] * (window.passed - Burst[l]) <= Period[l] * (window.passed - buckets[l][k])
  BY <1>1, Monotone
<1>3. Period[l] * due[l] >= 0
  BY <1>1
<1>4. /\ Period[l] * (window.passed - Burst[l]) \in Int
      /\ Period[l] * (window.passed - buckets[l][k]) \in Int
      /\ Period[l] * due[l] \in Int
  BY <1>1
<1>5. Period[l] * (window.passed - buckets[l][k]) + Period[l] * due[l] + grid[l]
        <= 2 * Period[l] - 1 + window.elapsed
  BY DEF RateInv, Leaked
<1>6. Period[l] * (window.passed - Burst[l]) <= 2 * Period[l] - 1 + window.elapsed
  BY <1>1, <1>2, <1>3, <1>4, <1>5
<1> QED
  BY <1>6 DEF RateIsBounded

(* The variables of RateLimits keep their types.                           *)
THEOREM LimitsTypeCorrect == Spec => []TypeOK
<1>1. RateInv => TypeOK
  BY DEF RateInv
<1> QED
  BY <1>1, RateInvInit, RateInvNext, PTL DEF Spec

(* Ratelimiter: in no window of time is more let through for a key than    *)
(* the burst and one request for every period that the window touches,     *)
(* however late the LoopingCall runs and whatever else is requested.       *)
THEOREM RateBounded == Spec => []RateIsBounded
  BY RateInvInit, RateInvNext, RateInvBounds, PTL DEF Spec
=============================================================================
