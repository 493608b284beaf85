---------------------------- MODULE VerifierProofs ----------------------------
(***************************************************************************)
(* The caches, the routes of requests and who may unbind, for any number   *)
(* of requests, names and keys and whatever the network answers.           *)
(***************************************************************************)
EXTENDS Verifier, SequenceTheorems, WellFoundedInduction, TLAPS

(* The entry that _data has for a name is one of that name.                *)
EntriesAreNamed == \A k \in DOMAIN data : data[k].key = k

CacheInv == CacheInStep /\ EntriesAreNamed

-----------------------------------------------------------------------------
(* expire() takes the same entries out of both structures.                 *)
LEMMA LiveInStep ==
    ASSUME CacheInv
    PROVE  /\ LiveList = {LiveData[k] : k \in DOMAIN LiveData}
           /\ \A k \in DOMAIN LiveData : LiveData[k] = data[k] /\ LiveData[k].key = k
<1>1. /\ DOMAIN LiveData = DOMAIN data \ {e.key : e \in Due}
      /\ \A k \in DOMAIN LiveData : LiveData[k] = data[k]
  BY DEF LiveData
<1>2. expiring = {data[k] : k \in DOMAIN data} /\ \A k \in DOMAIN data : data[k].key = k
  BY DEF CacheInv, CacheInStep, EntriesAreNamed
<1>3. \A k \in DOMAIN data : data[k] \in Due <=> k \in {e.key : e \in Due}
  <2>1. ASSUME NEW k \in DOMAIN data, NEW e \in Due, e.key = k PROVE data[k] = e
    BY <1>2, <2>1 DEF Due
  <2> QED
    BY <1>2, <2>1
<1> QED
  BY <1>1, <1>2, <1>3 DEF LiveList

(* set() puts the new entry into both, and takes the one it replaces out   *)
(* of both.                                                                *)
LEMMA SetInStep ==
    ASSUME CacheInv, NEW key, NEW value, NEW ttl,
           data' = DataWith(key, value, ttl), expiring' = ListWith(key, value, ttl)
    PROVE  CacheInv'
<1> DEFINE new == NewEntry(key, value, ttl)
<1>1. new.key = key
  BY DEF NewEntry
<1> HIDE DEF new
<1>2. /\ DOMAIN data' = DOMAIN LiveData \cup {key}
      /\ data'[key] = new
      /\ \A k \in DOMAIN LiveData \ {key} : data'[k] = LiveData[k]
  BY DEF DataWith, new
<1>3. expiring' = (LiveList \ {LiveData[k] : k \in DOMAIN LiveData \cap {key}}) \cup {new}
  BY DEF ListWith, new
<1>4. /\ LiveList = {LiveData[k] : k \in DOMAIN LiveData}
      /\ \A k \in DOMAIN LiveData : LiveData[k].key = k
  BY LiveInStep
<1>5. EntriesAreNamed'
  BY <1>1, <1>2, <1>4 DEF EntriesAreNamed
<1>6. \A k \in DOMAIN LiveData \ {key} :
        LiveData[k] \notin {LiveData[j] : j \in DOMAIN LiveData \cap {key}}
  BY <1>4
<1>7. CacheInStep'
  BY <1>2, <1>3, <1>4, <1>6 DEF CacheInStep
<1> QED
  BY <1>5, <1>7 DEF CacheInv

(* A read leaves what is not due.                                          *)
LEMMA ReadInStep ==
    ASSUME CacheInv, data' = LiveData, expiring' = LiveList
    PROVE  CacheInv'
  BY LiveInStep DEF CacheInv, CacheInStep, EntriesAreNamed

LEMMA UnreadInStep ==
    ASSUME CacheInv, data' = data, expiring' = expiring
    PROVE  CacheInv'
  BY DEF CacheInv, CacheInStep, EntriesAreNamed

LEMMA CacheInvNext == CacheInv /\ [Next]_vars => CacheInv'
<1> SUFFICES ASSUME CacheInv, [Next]_vars PROVE CacheInv'
  OBVIOUS
<1>1. ASSUME NEW c \in Call, NEW b \in Unbind,
             ReceiveSession(c, b) \/ ReceiveUnsigned(c, b)
      PROVE  CacheInv'
  BY <1>1, UnreadInStep DEF ReceiveSession, ReceiveUnsigned, agentVars
<1>2. ASSUME NEW c \in Call, NEW b \in Unbind, ReceiveSigned(c, b) PROVE CacheInv'
  <2>1. \/ data' = data /\ expiring' = expiring
        \/ data' = LiveData /\ expiring' = LiveList
    BY <1>2 DEF ReceiveSigned, ReadCache, agentVars
  <2> QED
    BY <2>1, ReadInStep, UnreadInStep
<1>3. ASSUME NEW c \in Call, WellKnownArrives(c) PROVE CacheInv'
  <2>1. \/ data' = data /\ expiring' = expiring
        \/ \E value, ttl : /\ data' = DataWith(call[c].name, value, ttl)
                           /\ expiring' = ListWith(call[c].name, value, ttl)
    BY <1>3 DEF WellKnownArrives
  <2> QED
    BY <2>1, SetInStep, UnreadInStep
<1>4. ASSUME NEW c \in Call, SrvArrives(c) \/ KeysArrive(c) PROVE CacheInv'
  BY <1>4, UnreadInStep DEF SrvArrives, KeysArrive
<1>5. CASE Clock
  BY <1>5, UnreadInStep DEF Clock, Tick
<1>6. CASE UNCHANGED vars
  BY <1>6, UnreadInStep DEF vars, agentVars
<1> QED
  BY <1>1, <1>2, <1>3, <1>4, <1>5, <1>6 DEF Next, AgentStep

(* TTLCache: in whatever order fetches of .well-known come back and        *)
(* entries expire, _data and _expiry_list hold the same entries.           *)
THEOREM CachesInStep == Spec => []CacheInStep
<1>1. Init => CacheInv
  BY DEF Init, AgentInit, CacheInv, CacheInStep, EntriesAreNamed
<1>2. CacheInv => CacheInStep
  BY DEF CacheInv
<1> QED
  BY <1>1, <1>2, CacheInvNext, PTL DEF Spec

-----------------------------------------------------------------------------
(* Least and greatest numbers *)

LEMMA MinOf ==
    ASSUME NEW S \in SUBSET Nat, S # {}
    PROVE  Min(S) \in S /\ \A i \in S : Min(S) <= i
<1>1. PICK k \in S : \A i \in S : ~ (<<i, k>> \in OpToRel(<, Nat))
  BY NatLessThanWellFounded, WFMin
<1>2. \A i \in S : ~ (i < k)
  BY <1>1 DEF OpToRel
<1>3. \A i \in S : k <= i
  BY <1>2
<1> QED
  BY <1>3 DEF Min

LEMMA MaxOf ==
    ASSUME NEW S \in SUBSET Nat, S # {}, NEW n \in Nat, \A i \in S : i <= n
    PROVE  Max(S) \in S
<1> DEFINE U == {m \in Nat : \A i \in S : i <= m}
           k == Min(U)
<1>1. k \in U /\ \A m \in U : k <= m
  BY MinOf
<1> HIDE DEF k
<1>2. ASSUME k \notin S PROVE FALSE
  <2>1. k \in Nat /\ \A i \in S : i \in Nat /\ i <= k /\ i # k
    BY <1>1, <1>2
  <2>2. PICK j \in S : TRUE
    OBVIOUS
  <2>3. k - 1 \in Nat
    BY <2>1, <2>2
  <2>4. \A i \in S : i <= k - 1
    BY <2>1, <2>3
  <2> QED
    BY <1>1, <2>1, <2>3, <2>4
<1>3. \E m \in S : \A i \in S : m >= i
  BY <1>1, <1>2
<1> QED
  BY <1>3 DEF Max

LEMMA MinOfTwo ==
    ASSUME NEW i \in Int, NEW j \in Int
    PROVE  Min({i, j}) \in {i, j} /\ Min({i, j}) <= i /\ Min({i, j}) <= j
<1>1. \E m \in {i, j} : \A k \in {i, j} : m <= k
  OBVIOUS
<1> QED
  BY <1>1 DEF Min

LEMMA MaxOfTwo ==
    ASSUME NEW i \in Int, NEW j \in Int
    PROVE  Max({i, j}) \in {i, j} /\ Max({i, j}) >= i /\ Max({i, j}) >= j
<1>1. \E m \in {i, j} : \A k \in {i, j} : m >= k
  OBVIOUS
<1> QED
  BY <1>1 DEF Max

-----------------------------------------------------------------------------
(* Where a request is sent *)

(* A SRV record is kept for its TTL, a .well-known for at most MaxPeriod.  *)
AgentFits ==
    /\ clock \in Times
    /\ DOMAIN data \subseteq Name /\ data \in [DOMAIN data -> CacheEntry]
    /\ \A k \in DOMAIN data : data[k].expiry <= data[k].since + MaxPeriod
    /\ servers \in [Service -> [Name -> Seq(Server)]]
    /\ \A s \in Service, n \in Name : \A i \in DOMAIN servers[s][n] :
         servers[s][n][i].expires <= servers[s][n][i].since + MaxTtl

Oldest == Max({MaxPeriod, MaxTtl})

(* A call that is not routed yet                                           *)
Underway(p) == p \in Points /\ p.start <= clock /\ p.start - p.via <= MaxPeriod

CallFits(p) ==
    /\ p \in Points /\ p.start <= clock
    /\ p.at \in {"wellknown", "srv"} => p.start - p.via <= MaxPeriod
    /\ p.at = "srv" => p.start <= p.asked
    /\ p.at = "get" => p.stale \/ p.start - p.via <= Oldest

CallsFit == call \in [Call -> Points] /\ \A c \in Call : CallFits(call[c])

LEMMA OldestIs == Oldest \in Nat /\ MaxPeriod <= Oldest /\ MaxTtl <= Oldest
<1>1. MaxPeriod \in Nat /\ MaxTtl \in Nat
  BY PeriodAssumption
<1> QED
  BY <1>1, MaxOfTwo DEF Oldest

LEMMA PickedIsListed == \A list : \A s \in Picked(list) : \E i \in DOMAIN list : s = list[i]
  BY DEF Picked

(* To the servers of a list, each as old as its record                     *)
LEMMA ServersRoute ==
    ASSUME NEW p, Underway(p), clock \in Times, NEW list \in Seq(Server), NEW stale \in BOOLEAN,
           stale \/ \A i \in DOMAIN list : p.start - list[i].since <= MaxTtl,
           NEW q \in Servers(p, list, stale)
    PROVE  CallFits(q)
<1>1. PICK s \in Picked(list) :
         q = [Get(p, s.host) EXCEPT !.via = Older(p.via, s.since), !.stale = stale]
  BY DEF Servers
<1>2. PICK i \in DOMAIN list : s = list[i]
  BY <1>1, PickedIsListed
<1>3. s \in Server
  BY <1>2
<1>4. /\ s.since \in Times /\ s.since \in Int /\ s.host \in Name
      /\ p \in Points /\ p.start \in Int /\ p.via \in Int /\ p.via \in Times
  BY <1>3, PeriodAssumption DEF Underway, Points, Times, Server
<1> DEFINE v == Older(p.via, s.since)
<1>5. v \in {p.via, s.since}
  BY <1>4, MinOfTwo DEF Older
<1> HIDE DEF v
<1>6. /\ q.at = "get" /\ q.start = p.start /\ q.via = v /\ q.stale = stale /\ q \in Points
  <2>1. q = [[p EXCEPT !.at = "get", !.name = s.host, !.service = "_matrix", !.asked = 0]
                EXCEPT !.via = v, !.stale = stale]
    BY <1>1 DEF Get, v
  <2>2. 0 \in Times /\ v \in Times /\ "_matrix" \in Service
    BY <1>3, <1>4, <1>5, PeriodAssumption DEF Times, Service
  <2> QED
    BY <1>3, <1>4, <2>1, <2>2 DEF Points
<1>7. stale \/ p.start - v <= Oldest
  <2>1. stale \/ p.start - s.since <= MaxTtl
    BY <1>2
  <2>2. p.start - p.via <= MaxPeriod
    BY DEF Underway
  <2>3. MaxPeriod \in Nat /\ MaxTtl \in Nat
    BY PeriodAssumption
  <2>4. PICK n \in Nat : n = Oldest /\ MaxPeriod <= n /\ MaxTtl <= n
    BY OldestIs
  <2>5. p.start \in Int /\ p.via \in Int /\ s.since \in Int
    BY <1>4
  <2>6. p.start - p.via <= n /\ (stale \/ p.start - s.since <= n)
    BY ONLY <2>1, <2>2, <2>3, <2>4, <2>5
  <2> QED
    BY ONLY <1>5, <2>4, <2>6
<1> QED
  BY <1>6, <1>7 DEF CallFits, Underway

(* What is cached for SRV is fresh when it is taken.                       *)
LEMMA ResolveRoute ==
    ASSUME AgentFits, NEW p, Underway(p), NEW service \in Service, NEW name \in Name,
           NEW q \in Resolve(p, service, name)
    PROVE  CallFits(q)
<1> DEFINE list == servers[service][name]
<1>1. clock \in Times /\ clock \in Int /\ list \in Seq(Server)
  BY PeriodAssumption DEF AgentFits, Times
<1>2. CASE Fresh(list) /\ q \in Servers(p, list, FALSE)
  <2>1. ASSUME NEW i \in DOMAIN list PROVE p.start - list[i].since <= MaxTtl
    <3>1. list[i].expires > clock /\ list[i].expires <= list[i].since + MaxTtl
      BY <1>2 DEF Fresh, AgentFits
    <3>2. list[i] \in Server
      BY <1>1
    <3>3. list[i].expires \in Int /\ list[i].since \in Int /\ MaxTtl \in Int /\ p.start \in Int
      BY <3>2, PeriodAssumption DEF Server, Times, Underway, Points
    <3>4. p.start <= clock
      BY DEF Underway
    <3> HIDE DEF list
    <3> QED
      BY <1>1, <3>1, <3>3, <3>4
  <2> HIDE DEF list
  <2> QED
    BY <1>1, <1>2, <2>1, ServersRoute
<1>3. CASE q = AskSrv(p, service, name)
  BY <1>1, <1>3 DEF AskSrv, CallFits, Underway, Points
<1> QED
  BY <1>2, <1>3 DEF Resolve

LEMMA DirectRoute ==
    ASSUME NEW p, Underway(p), NEW name \in Name
    PROVE  CallFits(Get(p, name))
<1>1. 0 \in Times /\ "_matrix" \in Service /\ Times \subseteq Int
  BY PeriodAssumption DEF Times, Service
<1>2. p \in Points /\ p.start \in Int /\ p.via \in Int
  BY <1>1 DEF Underway, Points
<1>3. /\ Get(p, name) \in Points /\ Get(p, name).start = p.start /\ Get(p, name).via = p.via
      /\ Get(p, name).at = "get"
  BY <1>1, <1>2 DEF Get, Points
<1>4. p.start <= clock /\ p.start - p.via <= MaxPeriod
  BY DEF Underway
<1>5. p.start - p.via <= Oldest
  BY <1>2, <1>4, OldestIs, PeriodAssumption
<1> QED
  BY <1>3, <1>4, <1>5 DEF CallFits

LEMMA WellKnownRoute ==
    ASSUME AgentFits, NEW p, Underway(p), NEW name \in Name,
           NEW server \in Name \cup {NoServer, EmptyServer},
           NEW q \in WithWellKnown(p, name, server)
    PROVE  CallFits(q)
<1>1. "_matrix-fed" \in Service
  BY DEF Service
<1>2. CASE server \in {NoServer, EmptyServer}
  BY <1>1, <1>2, ResolveRoute DEF WithWellKnown
<1>3. CASE server \notin {NoServer, EmptyServer}
  <2>1. q \in Delegated(p, server) /\ server \in Name
    BY <1>3 DEF WithWellKnown
  <2> QED
    BY <1>1, <2>1, ResolveRoute, DirectRoute DEF Delegated
<1> QED
  BY <1>2, <1>3

(* What expire() leaves is not due.                                        *)
LEMMA LiveIsRecent ==
    ASSUME CacheInv, AgentFits, NEW k \in DOMAIN LiveData
    PROVE  /\ k \in DOMAIN data /\ LiveData[k] = data[k] /\ data[k] \in CacheEntry
           /\ clock - data[k].since <= MaxPeriod
<1>1. k \in DOMAIN data /\ LiveData[k] = data[k] /\ k \notin {e.key : e \in Due}
  BY DEF LiveData
<1>2. data[k] \in expiring /\ data[k].key = k
  BY <1>1 DEF CacheInv, CacheInStep, EntriesAreNamed
<1>3. ~ (data[k].expiry <= clock)
  BY <1>1, <1>2 DEF Due
<1>4. data[k] \in CacheEntry /\ data[k].expiry <= data[k].since + MaxPeriod
  BY <1>1 DEF AgentFits
<1>5. /\ data[k].expiry \in Int /\ data[k].since \in Int /\ clock \in Int
      /\ MaxPeriod \in Int
  BY <1>4, PeriodAssumption DEF CacheEntry, AgentFits, Times
<1> QED
  BY <1>1, <1>3, <1>4, <1>5

LEMMA RoutedRoute ==
    ASSUME CacheInv, AgentFits, NEW name \in Name, NEW q \in Routed(name)
    PROVE  CallFits(q)
<1> DEFINE p == [NoCall EXCEPT !.start = clock, !.via = clock]
           r == [p EXCEPT !.via = Older(clock, LiveData[name].since)]
<1>1. clock \in Times /\ clock \in Int /\ 0 \in Times /\ MaxPeriod \in Nat /\ anyName \in Name
  BY PeriodAssumption DEF AgentFits, Times
<1>2. p \in Points /\ p.start = clock /\ p.via = clock
  BY <1>1 DEF NoCall, Points, Service
<1> HIDE DEF p
<1>3. Underway(p)
  BY <1>1, <1>2 DEF Underway
<1>4. CASE q = Get(p, name)
  BY <1>3, <1>4, DirectRoute
<1>5. CASE q = AskWellKnown(p, name)
  <2>1. q \in Points /\ q.start = clock /\ q.via = clock /\ q.at = "wellknown"
    BY <1>2, <1>5 DEF AskWellKnown, Points
  <2> QED
    BY <1>1, <2>1 DEF CallFits
<1>6. CASE name \in DOMAIN LiveData /\ q \in WithWellKnown(r, name, LiveData[name].value)
  <2>1. LiveData[name] \in CacheEntry /\ clock - LiveData[name].since <= MaxPeriod
    BY <1>6, LiveIsRecent
  <2> DEFINE since == LiveData[name].since
             v == Older(clock, since)
  <2>2. /\ since \in Times /\ since \in Int
        /\ LiveData[name].value \in Name \cup {NoServer, EmptyServer}
    BY <2>1, PeriodAssumption DEF CacheEntry, Times
  <2> HIDE DEF since
  <2>3. v \in {clock, since}
    BY <1>1, <2>2, MinOfTwo DEF Older
  <2>4. r = [p EXCEPT !.via = v]
    BY DEF since
  <2> HIDE DEF v, r
  <2>5. r \in Points /\ r.start = clock /\ r.via = v
    BY <1>1, <1>2, <2>2, <2>3, <2>4 DEF Points
  <2>6. Underway(r)
    BY <1>1, <2>1, <2>2, <2>3, <2>5 DEF Underway, since
  <2> QED
    BY <1>6, <2>2, <2>6, WellKnownRoute DEF r
<1> QED
  BY <1>4, <1>5, <1>6 DEF Routed, p

LEMMA NoRecordsRoute ==
    ASSUME AgentFits, NEW p, Underway(p), NEW q \in NoRecords(p)
    PROVE  CallFits(q)
<1>1. "_matrix" \in Service /\ p.name \in Name
  BY DEF Service, Underway, Points
<1> QED
  BY <1>1, ResolveRoute, DirectRoute DEF NoRecords

(* _cache_period_from_headers and its caller: no .well-known is kept for   *)
(* longer than WELL_KNOWN_MAX_CACHE_PERIOD.                                *)
LEMMA PeriodsAreCapped ==
    ASSUME clock \in Int, NEW answer \in WellKnownAnswers, NEW period \in CachePeriods(answer)
    PROVE  period \in Int /\ period <= MaxPeriod
<1>1. /\ answer.headers \in Headers
      /\ MaxPeriod \in Int /\ InvalidPeriod \in Int /\ DefaultPeriod \in Int /\ Jitter \in Int
      /\ DefaultPeriod + Jitter <= MaxPeriod /\ InvalidPeriod + Jitter <= MaxPeriod
  BY AnswersAssumption, PeriodAssumption
<1> DEFINE n == PeriodFromHeaders(answer.headers)
<1>2. n = Absent \/ n \in Int
  BY <1>1 DEF PeriodFromHeaders, Headers
<1> HIDE DEF n
<1>3. \/ period \in InvalidPeriod..(InvalidPeriod + Jitter)
      \/ period \in DefaultPeriod..(DefaultPeriod + Jitter)
      \/ n # Absent /\ period = Min({n, MaxPeriod})
  BY DEF CachePeriods, n
<1>4. n \in Int => Min({n, MaxPeriod}) \in Int /\ Min({n, MaxPeriod}) <= MaxPeriod
  BY <1>1, MinOfTwo
<1> QED
  BY <1>1, <1>2, <1>3, <1>4

(* resolve_service: the records that are kept, as old as the lookup        *)
LEMMA KeptIs ==
    ASSUME NEW answer \in Seq(SrvRecord), NEW asked \in Times
    PROVE  /\ Kept(answer, asked) \in Seq(Server)
           /\ \A i \in DOMAIN Kept(answer, asked) :
                /\ Kept(answer, asked)[i].expires <= Kept(answer, asked)[i].since + MaxTtl
                /\ Kept(answer, asked)[i].since = asked
<1> DEFINE K == Kept(answer, asked)
<1>1. /\ DOMAIN K = DOMAIN answer
      /\ \A i \in DOMAIN answer :
           K[i] = [host |-> answer[i].host, priority |-> answer[i].priority,
                   weight |-> answer[i].weight, expires |-> asked + answer[i].ttl,
                   since |-> asked]
  BY DEF Kept
<1>2. \A i \in DOMAIN answer : answer[i] \in SrvRecord
  OBVIOUS
<1>3. \A i \in DOMAIN answer :
        K[i] \in Server /\ K[i].expires <= K[i].since + MaxTtl /\ K[i].since = asked
  <2> TAKE i \in DOMAIN answer
  <2>1. /\ answer[i].host \in Name /\ answer[i].priority \in Nat /\ answer[i].weight \in Nat
        /\ answer[i].ttl \in 0..MaxTtl
    BY <1>2 DEF SrvRecord
  <2>2. asked \in Nat /\ MaxTtl \in Nat
    BY PeriodAssumption DEF Times
  <2>3. asked + answer[i].ttl \in Nat /\ asked + answer[i].ttl <= asked + MaxTtl
    BY <2>1, <2>2
  <2> HIDE DEF K
  <2> QED
    BY <1>1, <2>1, <2>3 DEF Server
<1>4. K \in [1..Len(answer) -> Server] /\ Len(answer) \in Nat
  <2>1. K = [i \in DOMAIN answer |-> K[i]]
    BY DEF Kept
  <2>2. DOMAIN answer = 1..Len(answer) /\ Len(answer) \in Nat
    OBVIOUS
  <2> HIDE DEF K
  <2> QED
    BY <1>1, <1>3, <2>1, <2>2
<1> HIDE DEF K
<1>5. K \in Seq(Server)
  BY <1>4
<1> QED
  BY <1>1, <1>3, <1>5 DEF K

LEMMA FailedFits ==
    ASSUME clock \in Times
    PROVE  CallFits([NoCall EXCEPT !.at = "failed"]) /\ CallFits(NoCall)
<1>1. 0 \in Times /\ 0 <= clock /\ anyName \in Name /\ "_matrix" \in Service
  BY PeriodAssumption DEF Times, Service
<1>2. NoCall \in Points /\ NoCall.at = "none" /\ NoCall.start = 0
  BY <1>1 DEF NoCall, Points
<1> DEFINE p == [NoCall EXCEPT !.at = "failed"]
<1>3. p \in Points /\ p.at = "failed" /\ p.start = 0
  BY <1>2 DEF Points
<1> QED
  BY <1>1, <1>2, <1>3 DEF CallFits

LEMMA CallStep ==
    ASSUME CallsFit, clock' = clock, NEW c \in Call, NEW q, CallFits(q),
           call' = [call EXCEPT ![c] = q]
    PROVE  CallsFit'
<1>1. q \in Points /\ call' \in [Call -> Points]
  BY DEF CallsFit, CallFits
<1>2. \A d \in Call : call'[d] = q \/ call'[d] = call[d]
  BY DEF CallsFit
<1> QED
  BY <1>1, <1>2 DEF CallsFit, CallFits

LEMMA CallUnderway ==
    ASSUME CallsFit, NEW c \in Call, call[c].at \in {"wellknown", "srv"}
    PROVE  Underway(call[c])
  BY DEF CallsFit, CallFits, Underway

-----------------------------------------------------------------------------
(* Verifier: whose signature is looked at *)

(* The only acceptable server is the one of the last header.               *)
LEMMA SignerIs ==
    ASSUME NEW b \in Body, b.headers # <<>>
    PROVE  /\ Signer(b) = Origin(b) /\ Signer(b) \in Name
           /\ \A i \in DOMAIN b.headers : b.headers[i] \in Header
<1> DEFINE h == b.headers
           S == {j \in DOMAIN h : h[j].origin \in {Origin(b)}}
<1>1. h \in Seq(Header)
  BY DEF Body
<1>2. Origin(b) = h[Len(h)].origin
  BY DEF Origin
<1>3. Signer(b) = h[Min(S)].origin
  BY DEF Signer
<1> HIDE DEF h
<1>4. /\ DOMAIN h \subseteq Nat /\ Len(h) \in DOMAIN h
      /\ \A i \in DOMAIN h : h[i] \in Header
  BY <1>1 DEF h
<1>5. Len(h) \in S /\ S \in SUBSET Nat /\ S # {}
  BY <1>2, <1>4
<1>6. Min(S) \in S
  <2> HIDE DEF S
  <2> QED
    BY <1>5, MinOf
<1> QED
  BY <1>2, <1>3, <1>4, <1>6 DEF Header, h

(* A request goes through for a good signature, by a key that was given,   *)
(* of a server that the mxid ends with.                                    *)
LEMMA OkIsSigned ==
    ASSUME NEW b \in Body, b.headers # <<>>, NEW keys, Outcome(b, keys) = "ok"
    PROVE  \E i \in DOMAIN b.headers :
              /\ b.headers[i].good /\ b.headers[i].origin \in EndsWith[b.server]
              /\ b.headers[i].origin = Signer(b) /\ b.headers[i].key \in keys
<1>1. Verified(b, keys) /\ Origin(b) \in EndsWith[b.server]
  BY DEF Outcome
<1> DEFINE h == b.headers
           known == {i \in DOMAIN h : h[i].origin = Signer(b) /\ h[i].key \in keys}
           S == {i \in known : h[i].key = h[Min(known)].key}
<1>2. known # {} /\ h[Max(S)].good
  BY <1>1 DEF Verified
<1>3. h \in Seq(Header)
  BY DEF Body
<1>4. known \in SUBSET Nat /\ \A i \in known : i <= Len(h)
  BY <1>3
<1>5. Min(known) \in known
  <2> HIDE DEF known
  <2> QED
    BY <1>2, <1>4, MinOf
<1>6. S # {} /\ S \in SUBSET Nat /\ Len(h) \in Nat /\ \A i \in S : i <= Len(h)
  <2>1. Len(h) \in Nat
    BY <1>3
  <2> HIDE DEF known, h
  <2>2. Min(known) \in S /\ S \subseteq known
    BY <1>5
  <2> HIDE DEF S
  <2> QED
    BY <1>4, <2>1, <2>2
<1>7. Max(S) \in S
  <2> HIDE DEF S
  <2> QED
    BY <1>6, MaxOf
<1>8. Max(S) \in DOMAIN h /\ h[Max(S)].origin = Signer(b) /\ h[Max(S)].key \in keys
  BY <1>7
<1>9. Signer(b) \in EndsWith[b.server]
  BY <1>1, SignerIs
<1> DEFINE m == Max(S)
<1>10. /\ m \in DOMAIN b.headers /\ b.headers[m].good
       /\ b.headers[m].origin \in EndsWith[b.server] /\ b.headers[m].origin = Signer(b)
       /\ b.headers[m].key \in keys
  BY <1>2, <1>8, <1>9
<1> HIDE DEF m
<1> QED
  BY <1>10

-----------------------------------------------------------------------------
(* The calls of the agent and the requests *)

Request == [body : Unbind \cup {NoBody}, status : Status, used : Used, checked : Times]

(* A call of the agent serves a request that is signed.                    *)
RequestsFit ==
    /\ request \in [Call -> Request]
    /\ \A c \in Call : call[c].at # "none" =>
         /\ request[c].status # "idle"
         /\ request[c].body \in Unbind /\ request[c].body.headers # <<>>
    /\ DOMAIN keyCache \subseteq Name
    /\ keyCache \in [DOMAIN keyCache -> [keys : SUBSET Key, until : Int]]

(* UnbindIsAuthorised of one request                                       *)
Authorised(r) ==
    r.status = "ok" =>
        \/ r.body.session = "valid"
        \/ \E i \in DOMAIN r.body.headers :
             /\ r.body.headers[i].good
             /\ r.body.headers[i].origin \in EndsWith[r.body.server]
             /\ r.body.headers[i].origin = r.used.server
             /\ r.body.headers[i].key \in r.used.keys

VerifierInv ==
    /\ CacheInv
    /\ AgentFits
    /\ CallsFit
    /\ RequestsFit
    /\ \A c \in Call : Authorised(request[c])

LEMMA AgentSame ==
    ASSUME AgentFits, clock' = clock, data' = data, servers' = servers
    PROVE  AgentFits'
  BY DEF AgentFits

(* A step of the agent, with the caches it leaves                          *)
LEMMA WellKnownStep ==
    ASSUME VerifierInv, NEW c \in Call, WellKnownArrives(c)
    PROVE  /\ AgentFits' /\ CallsFit'
           /\ \A d \in Call \ {c} : call'[d] = call[d]
<1>1. CacheInv /\ AgentFits /\ CallsFit
  BY DEF VerifierInv
<1> DEFINE p == call[c]
<1>2. /\ p.at = "wellknown" /\ clock' = clock /\ servers' = servers
      /\ clock \in Times /\ clock \in Int /\ Underway(p) /\ p.name \in Name
  <2>1. p.at = "wellknown" /\ clock' = clock /\ servers' = servers
    BY DEF WellKnownArrives
  <2>2. Underway(p)
    BY <1>1, <2>1, CallUnderway
  <2> QED
    BY <1>1, <2>1, <2>2, PeriodAssumption DEF AgentFits, Times, Underway, Points
<1>3. PICK answer \in WellKnownAnswers :
        \/ /\ call' = Failed(c)
           /\ UNCHANGED <<data, expiring>>
        \/ /\ answer.server # Unencodable
           /\ \E period \in CachePeriods(answer) :
                IF period > 0
                THEN /\ data' = DataWith(p.name, answer.server, period)
                     /\ expiring' = ListWith(p.name, answer.server, period)
                ELSE UNCHANGED <<data, expiring>>
           /\ \E q \in WithWellKnown(p, p.name, answer.server) :
                call' = [call EXCEPT ![c] = q]
  BY DEF WellKnownArrives
<1> HIDE DEF p
<1>4. answer.server \in Name \cup {NoServer, EmptyServer, Unencodable}
  BY AnswersAssumption
<1>5. \E q : CallFits(q) /\ call' = [call EXCEPT ![c] = q]
  <2>1. CASE call' = Failed(c)
    BY <1>2, <2>1, FailedFits DEF Failed
  <2>2. ASSUME answer.server # Unencodable, NEW q \in WithWellKnown(p, p.name, answer.server),
               call' = [call EXCEPT ![c] = q]
        PROVE  CallFits(q)
    BY <1>1, <1>2, <1>4, <2>2, WellKnownRoute
  <2> QED
    BY <1>3, <2>1, <2>2
<1>6. CallsFit' /\ \A d \in Call \ {c} : call'[d] = call[d]
  BY <1>1, <1>2, <1>5, CallStep DEF CallsFit
<1>7. CASE UNCHANGED <<data, expiring>>
  BY <1>1, <1>2, <1>6, <1>7, AgentSame
<1>8. ASSUME answer.server # Unencodable, NEW period \in CachePeriods(answer),
             data' = DataWith(p.name, answer.server, period)
      PROVE  AgentFits'
  <2> DEFINE new == NewEntry(p.name, answer.server, period)
  <2>1. period \in Int /\ period <= MaxPeriod
    BY <1>2, PeriodsAreCapped
  <2>2. new \in CacheEntry /\ new.expiry <= new.since + MaxPeriod
    <3>1. clock + period \in Int /\ clock + period <= clock + MaxPeriod
      BY <1>2, <2>1, PeriodAssumption
    <3> QED
      BY <1>2, <1>4, <1>8, <3>1 DEF NewEntry, CacheEntry
  <2> HIDE DEF new
  <2>3. /\ DOMAIN data' = DOMAIN LiveData \cup {p.name}
        /\ data' = [k \in DOMAIN data' |-> data'[k]]
        /\ \A k \in DOMAIN data' :
             data'[k] = new \/ (k \in DOMAIN LiveData /\ data'[k] = LiveData[k])
    <3> DEFINE D == [k \in DOMAIN LiveData \cup {p.name} |->
                       IF k = p.name THEN new ELSE LiveData[k]]
    <3>1. data' = D
      BY <1>8 DEF DataWith, new
    <3> QED
      BY <3>1
  <2>4. \A k \in DOMAIN LiveData :
           /\ k \in Name /\ LiveData[k] \in CacheEntry
           /\ LiveData[k].expiry <= LiveData[k].since + MaxPeriod
    BY <1>1, LiveIsRecent DEF AgentFits
  <2>5. DOMAIN data' \subseteq Name
    BY <1>2, <2>3, <2>4
  <2>6. \A k \in DOMAIN data' :
           data'[k] \in CacheEntry /\ data'[k].expiry <= data'[k].since + MaxPeriod
    BY <2>2, <2>3, <2>4
  <2>7. data' \in [DOMAIN data' -> CacheEntry]
    BY <2>3, <2>6
  <2> QED
    BY <1>1, <1>2, <2>5, <2>6, <2>7 DEF AgentFits
<1> QED
  BY <1>3, <1>6, <1>7, <1>8

LEMMA SrvStep ==
    ASSUME VerifierInv, NEW c \in Call, SrvArrives(c)
    PROVE  /\ AgentFits' /\ CallsFit'
           /\ \A d \in Call \ {c} : call'[d] = call[d]
<1>1. AgentFits /\ CallsFit
  BY DEF VerifierInv
<1> DEFINE p == call[c]
           old == servers[p.service][p.name]
<1>2. p.at = "srv" /\ UNCHANGED <<clock, data, expiring>>
  BY DEF SrvArrives
<1>3. PICK answer \in SrvAnswers[p.service][p.name] :
        \/ /\ \E q \in NoRecords(p) : call' = [call EXCEPT ![c] = q]
           /\ UNCHANGED servers
        \/ /\ \E q \in Servers(p, old, TRUE) : call' = [call EXCEPT ![c] = q]
           /\ UNCHANGED servers
        \/ /\ call' = Failed(c)
           /\ UNCHANGED servers
        \/ /\ answer \notin {NameError, DomainError, Unavailable}
           /\ servers' = [servers EXCEPT ![p.service][p.name] = Kept(answer, p.asked)]
           /\ \E q \in NoRecords(p) \cup Servers(p, Kept(answer, p.asked), FALSE) :
                call' = [call EXCEPT ![c] = q]
  BY DEF SrvArrives
<1>4. /\ Underway(p) /\ p \in Points /\ p.start <= p.asked /\ clock \in Times
  BY <1>1, <1>2, CallUnderway DEF CallsFit, CallFits, AgentFits
<1>5. /\ p.service \in Service /\ p.name \in Name /\ p.asked \in Times /\ p.asked \in Int
      /\ p.start \in Int /\ MaxTtl \in Nat
  BY <1>4, PeriodAssumption DEF Points, Times
<1>6. old \in Seq(Server)
  BY <1>1, <1>5 DEF AgentFits
<1> HIDE DEF p, old
<1>7. ASSUME answer \notin {NameError, DomainError, Unavailable}
      PROVE  answer \in Seq(SrvRecord)
  BY <1>5, <1>7, AnswersAssumption
<1>8. \E q : CallFits(q) /\ call' = [call EXCEPT ![c] = q]
  <2>1. \A q \in NoRecords(p) : CallFits(q)
    BY <1>1, <1>4, NoRecordsRoute
  <2>2. \A q \in Servers(p, old, TRUE) : CallFits(q)
    BY <1>4, <1>6, ServersRoute
  <2>3. CallFits([NoCall EXCEPT !.at = "failed"])
    BY <1>4, FailedFits
  <2>4. ASSUME answer \notin {NameError, DomainError, Unavailable}
        PROVE  \A q \in Servers(p, Kept(answer, p.asked), FALSE) : CallFits(q)
    <3> DEFINE list == Kept(answer, p.asked)
    <3>1. list \in Seq(Server) /\ \A i \in DOMAIN list : list[i].since = p.asked
      BY <1>5, <1>7, <2>4, KeptIs
    <3> HIDE DEF list
    <3>2. \A i \in DOMAIN list : p.start - list[i].since <= MaxTtl
      BY <1>4, <1>5, <3>1
    <3>3. \A q \in Servers(p, list, FALSE) : CallFits(q)
      BY <1>4, <3>1, <3>2, ServersRoute
    <3> QED
      BY <3>3 DEF list
  <2> QED
    BY <1>3, <2>1, <2>2, <2>3, <2>4 DEF Failed
<1>9. CallsFit' /\ \A d \in Call \ {c} : call'[d] = call[d]
  BY <1>1, <1>2, <1>8, CallStep DEF CallsFit
<1>10. CASE UNCHANGED servers
  <2>1. clock' = clock /\ data' = data /\ servers' = servers
    BY <1>2, <1>10
  <2> QED
    BY <1>1, <1>9, <2>1, AgentSame
<1>11. ASSUME answer \notin {NameError, DomainError, Unavailable},
              servers' = [servers EXCEPT ![p.service][p.name] = Kept(answer, p.asked)]
       PROVE  AgentFits'
  <2> DEFINE list == Kept(answer, p.asked)
  <2>1. list \in Seq(Server) /\ \A i \in DOMAIN list : list[i].expires <= list[i].since + MaxTtl
    BY <1>5, <1>7, <1>11, KeptIs
  <2>2. servers' = [servers EXCEPT ![p.service][p.name] = list]
    BY <1>11
  <2> HIDE DEF list
  <2>3. servers \in [Service -> [Name -> Seq(Server)]]
    BY <1>1 DEF AgentFits
  <2>4. servers' \in [Service -> [Name -> Seq(Server)]]
    BY <1>5, <2>1, <2>2, <2>3
  <2>5. \A s \in Service, n \in Name : servers'[s][n] = list \/ servers'[s][n] = servers[s][n]
    BY <1>5, <2>2, <2>3
  <2> QED
    BY <1>1, <1>2, <2>1, <2>4, <2>5, ZenonT(40) DEF AgentFits
<1> QED
  BY <1>3, <1>9, <1>10, <1>11

LEMMA UnusedIsUsed == NotUsed \in Used
  BY PeriodAssumption DEF NotUsed, Used

(* An answer to a request whose call, if it still has one, stays signed    *)
LEMMA AnswerStep ==
    ASSUME VerifierInv, CacheInv', AgentFits', CallsFit',
           NEW c \in Call, \A d \in Call \ {c} : call'[d] = call[d],
           DOMAIN keyCache' \subseteq Name,
           keyCache' \in [DOMAIN keyCache' -> [keys : SUBSET Key, until : Int]],
           NEW b \in Unbind \cup {NoBody}, NEW status \in Status \ {"idle"}, NEW used \in Used,
           Answer(c, b, status, used),
           call'[c].at # "none" => b \in Unbind /\ b.headers # <<>>,
           status = "ok" =>
               \/ b.session = "valid"
               \/ \E i \in DOMAIN b.headers :
                    /\ b.headers[i].good /\ b.headers[i].origin \in EndsWith[b.server]
                    /\ b.headers[i].origin = used.server /\ b.headers[i].key \in used.keys
    PROVE  VerifierInv'
<1> DEFINE r == [body |-> b, status |-> status, used |-> used,
                 checked |-> IF used = NotUsed THEN 0 ELSE clock]
<1>1. /\ request \in [Call -> Request] /\ clock \in Times /\ 0 \in Times
      /\ \A d \in Call : Authorised(request[d])
      /\ \A d \in Call : call[d].at # "none" =>
           /\ request[d].status # "idle"
           /\ request[d].body \in Unbind /\ request[d].body.headers # <<>>
  BY PeriodAssumption DEF VerifierInv, RequestsFit, AgentFits, Times
<1>2. r \in Request /\ r.body = b /\ r.status = status /\ r.used = used
  BY <1>1 DEF Request
<1>3. Authorised(r)
  BY <1>2 DEF Authorised
<1>4. request' = [request EXCEPT ![c] = r]
  BY DEF Answer
<1> HIDE DEF r
<1>5. /\ request' \in [Call -> Request] /\ request'[c] = r
      /\ \A d \in Call \ {c} : request'[d] = request[d]
  BY <1>1, <1>2, <1>4
<1>6. \A d \in Call : Authorised(request'[d])
  BY <1>1, <1>3, <1>5
<1>7. \A d \in Call : call'[d].at # "none" =>
         /\ request'[d].status # "idle"
         /\ request'[d].body \in Unbind /\ request'[d].body.headers # <<>>
  BY <1>1, <1>2, <1>5
<1>8. RequestsFit'
  BY <1>5, <1>7 DEF RequestsFit
<1>9. (\A d \in Call : Authorised(request[d]))'
  BY <1>6 DEF Authorised
<1> QED
  BY <1>8, <1>9 DEF VerifierInv

LEMMA OutcomeIs ==
    ASSUME NEW b, NEW keys
    PROVE  Outcome(b, keys) \in {"refused", "forbidden", "ok"}
  BY DEF Outcome

LEMMA ReceiveSessionStep ==
    ASSUME VerifierInv, CacheInv', NEW c \in Call, NEW b \in Unbind,
           ReceiveSession(c, b) \/ ReceiveUnsigned(c, b)
    PROVE  VerifierInv'
<1>1. /\ Idle(c) /\ call' = call /\ clock' = clock /\ data' = data /\ servers' = servers
      /\ keyCache' = keyCache
  BY DEF ReceiveSession, ReceiveUnsigned, agentVars
<1>2. b \in Body
  BY UnbindAssumption
<1>3. \/ /\ Answer(c, b, SessionOutcome(b.session), NotUsed) /\ b.session # "none"
      \/ Answer(c, b, "refused", NotUsed)
  BY DEF ReceiveSession, ReceiveUnsigned
<1>4. PICK status \in Status \ {"idle"} :
         Answer(c, b, status, NotUsed) /\ (status = "ok" => b.session = "valid")
  <2>1. CASE Answer(c, b, "refused", NotUsed)
    BY <2>1 DEF Status
  <2>2. CASE Answer(c, b, SessionOutcome(b.session), NotUsed) /\ b.session # "none"
    <3>1. b.session \in {"valid", "wrong", "unvalidated", "expired", "other"}
      BY <1>2, <2>2 DEF Body, Session
    <3>2. /\ SessionOutcome(b.session) \in Status \ {"idle"}
          /\ SessionOutcome(b.session) = "ok" => b.session = "valid"
      BY <3>1 DEF SessionOutcome, Status
    <3> QED
      BY <2>2, <3>2
  <2> QED
    BY <1>3, <2>1, <2>2
<1>5. AgentFits' /\ CallsFit'
  BY <1>1, AgentSame DEF VerifierInv, CallsFit, CallFits
<1>6. call'[c].at = "none"
  BY <1>1 DEF Idle, VerifierInv, RequestsFit
<1>7. /\ DOMAIN keyCache' \subseteq Name
      /\ keyCache' \in [DOMAIN keyCache' -> [keys : SUBSET Key, until : Int]]
  BY <1>1 DEF VerifierInv, RequestsFit
<1> QED
  BY <1>1, <1>4, <1>5, <1>6, <1>7, UnusedIsUsed, AnswerStep

LEMMA ReceiveSignedStep ==
    ASSUME VerifierInv, CacheInv', NEW c \in Call, NEW b \in Unbind, ReceiveSigned(c, b)
    PROVE  VerifierInv'
<1>1. b \in Body /\ b.headers # <<>> /\ keyCache' = keyCache /\ clock' = clock /\ servers' = servers
  BY UnbindAssumption DEF ReceiveSigned, agentVars
<1>2. Signer(b) \in Name
  BY <1>1, SignerIs
<1>3. /\ CacheInv /\ AgentFits /\ CallsFit
      /\ DOMAIN keyCache' \subseteq Name
      /\ keyCache' \in [DOMAIN keyCache' -> [keys : SUBSET Key, until : Int]]
  BY <1>1 DEF VerifierInv, RequestsFit
<1> DEFINE cached == keyCache[Signer(b)]
           used == [server |-> Signer(b), keys |-> cached.keys,
                    until |-> cached.until, fetched |-> FALSE]
<1>4. CASE /\ KeysCached(Signer(b))
           /\ Answer(c, b, Outcome(b, cached.keys), used)
           /\ UNCHANGED agentVars
  <2>1. AgentFits' /\ CallsFit' /\ call' = call
    BY <1>1, <1>3, <1>4, AgentSame DEF CallsFit, CallFits, agentVars
  <2>2. cached \in [keys : SUBSET Key, until : Int]
    BY <1>1, <1>3, <1>4 DEF KeysCached
  <2>3. used \in Used /\ used.server = Signer(b) /\ used.keys = cached.keys
    BY <1>2, <2>2 DEF Used
  <2>4. Outcome(b, cached.keys) \in Status \ {"idle"}
    BY OutcomeIs DEF Status
  <2>5. ASSUME Outcome(b, cached.keys) = "ok"
        PROVE  \E i \in DOMAIN b.headers :
                  /\ b.headers[i].good /\ b.headers[i].origin \in EndsWith[b.server]
                  /\ b.headers[i].origin = Signer(b) /\ b.headers[i].key \in cached.keys
    BY <1>1, <2>5, OkIsSigned
  <2> HIDE DEF used, cached
  <2> QED
    BY <1>1, <1>3, <1>4, <2>1, <2>3, <2>4, <2>5, AnswerStep
<1>5. CASE /\ Answer(c, b, "waiting", NotUsed)
           /\ \E p \in Routed(Signer(b)) : call' = [call EXCEPT ![c] = p]
           /\ ReadCache(Signer(b))
  <2>1. PICK p \in Routed(Signer(b)) : call' = [call EXCEPT ![c] = p]
    BY <1>5
  <2>2. CallsFit' /\ \A d \in Call \ {c} : call'[d] = call[d]
    BY <1>1, <1>2, <1>3, <2>1, RoutedRoute, CallStep DEF CallsFit
  <2>3. AgentFits'
    <3>1. CASE data' = data
      BY <1>1, <1>3, <3>1, AgentSame
    <3>2. CASE data' = LiveData
      <4>1. \A k \in DOMAIN LiveData :
               /\ k \in Name /\ LiveData[k] \in CacheEntry
               /\ LiveData[k].expiry <= LiveData[k].since + MaxPeriod
        BY <1>3, LiveIsRecent DEF AgentFits
      <4>2. LiveData = [k \in DOMAIN LiveData |-> LiveData[k]]
        BY DEF LiveData
      <4>3. LiveData \in [DOMAIN LiveData -> CacheEntry] /\ DOMAIN LiveData \subseteq Name
        BY <4>1, <4>2
      <4> QED
        BY <1>1, <1>3, <3>2, <4>1, <4>3 DEF AgentFits
    <3> QED
      BY <1>5, <3>1, <3>2 DEF ReadCache
  <2>4. "waiting" \in Status \ {"idle"} /\ "waiting" # "ok"
    BY DEF Status
  <2> QED
    BY <1>1, <1>3, <1>5, <2>2, <2>3, <2>4, UnusedIsUsed, AnswerStep
<1> QED
  BY <1>4, <1>5 DEF ReceiveSigned

LEMMA AgentStepStep ==
    ASSUME VerifierInv, CacheInv', NEW c \in Call, AgentStep(c)
    PROVE  VerifierInv'
<1>1. /\ AgentFits' /\ CallsFit' /\ keyCache' = keyCache
      /\ \A d \in Call \ {c} : call'[d] = call[d]
  BY WellKnownStep, SrvStep DEF AgentStep
<1>2. /\ DOMAIN keyCache' \subseteq Name
      /\ keyCache' \in [DOMAIN keyCache' -> [keys : SUBSET Key, until : Int]]
  BY <1>1 DEF VerifierInv, RequestsFit
<1>3. call[c].at # "none"
  BY DEF AgentStep, WellKnownArrives, SrvArrives
<1>4. request[c].body \in Unbind /\ request[c].body.headers # <<>> /\ request[c].status # "idle"
  BY <1>3 DEF VerifierInv, RequestsFit
<1>5. CASE Answer(c, request[c].body, "failed", NotUsed)
  <2>1. "failed" \in Status \ {"idle"} /\ "failed" # "ok"
    BY DEF Status
  <2> QED
    BY <1>1, <1>2, <1>4, <1>5, <2>1, UnusedIsUsed, AnswerStep
<1>6. CASE UNCHANGED request
  <2>1. \A d \in Call : call'[d].at # "none" =>
           /\ request'[d].status # "idle"
           /\ request'[d].body \in Unbind /\ request'[d].body.headers # <<>>
    BY <1>1, <1>4, <1>6 DEF VerifierInv, RequestsFit
  <2>2. RequestsFit'
    BY <1>2, <1>6, <2>1 DEF VerifierInv, RequestsFit
  <2>3. (\A d \in Call : Authorised(request[d]))'
    BY <1>6 DEF VerifierInv, Authorised
  <2> QED
    BY <1>1, <2>2, <2>3 DEF VerifierInv
<1> QED
  BY <1>5, <1>6 DEF AgentStep

LEMMA KeysArriveStep ==
    ASSUME VerifierInv, CacheInv', NEW c \in Call, KeysArrive(c)
    PROVE  VerifierInv'
<1> DEFINE b == request[c].body
<1>1. /\ call[c].at = "get" /\ call' = [call EXCEPT ![c] = NoCall]
      /\ clock' = clock /\ data' = data /\ servers' = servers
  BY DEF KeysArrive
<1>2. PICK answer \in KeyAnswers :
        \/ Answer(c, b, "failed", NotUsed) /\ keyCache' = keyCache
        \/ Answer(c, b, "refused", NotUsed) /\ keyCache' = keyCache
        \/ /\ answer \notin {ConnectionError, Malformed}
           /\ Answer(c, b, Outcome(b, answer.keys),
                     [server |-> Signer(b), keys |-> answer.keys,
                      until |-> answer.until, fetched |-> TRUE])
           /\ keyCache' = IF answer.until = Absent THEN keyCache
                          ELSE [n \in DOMAIN keyCache \cup {Signer(b)} |->
                                  IF n = Signer(b)
                                  THEN [keys |-> answer.keys, until |-> answer.until]
                                  ELSE keyCache[n]]
  BY DEF KeysArrive
<1>3. b \in Unbind /\ b.headers # <<>> /\ b \in Body
  BY <1>1, UnbindAssumption DEF VerifierInv, RequestsFit
<1> HIDE DEF b
<1>4. Signer(b) \in Name
  BY <1>3, SignerIs
<1>5. /\ AgentFits /\ CallsFit
      /\ DOMAIN keyCache \subseteq Name
      /\ keyCache \in [DOMAIN keyCache -> [keys : SUBSET Key, until : Int]]
  BY DEF VerifierInv, RequestsFit
<1>6. AgentFits' /\ CallsFit' /\ \A d \in Call \ {c} : call'[d] = call[d]
  <2>1. CallFits(NoCall)
    BY <1>5, FailedFits DEF AgentFits
  <2> QED
    BY <1>1, <1>5, <2>1, AgentSame, CallStep DEF CallsFit
<1>7. CASE /\ Answer(c, b, "failed", NotUsed) \/ Answer(c, b, "refused", NotUsed)
           /\ keyCache' = keyCache
  <2>1. {"failed", "refused"} \subseteq Status \ {"idle", "ok"}
    BY DEF Status
  <2>2. PICK status \in {"failed", "refused"} : Answer(c, b, status, NotUsed)
    BY <1>7
  <2>3. status \in Status \ {"idle"} /\ status # "ok"
    BY <2>1
  <2>4. /\ DOMAIN keyCache' \subseteq Name
        /\ keyCache' \in [DOMAIN keyCache' -> [keys : SUBSET Key, until : Int]]
    BY <1>5, <1>7
  <2> QED
    BY <1>3, <1>6, <2>2, <2>3, <2>4, UnusedIsUsed, AnswerStep
<1> DEFINE used == [server |-> Signer(b), keys |-> answer.keys,
                    until |-> answer.until, fetched |-> TRUE]
           entry == [keys |-> answer.keys, until |-> answer.until]
<1>8. CASE /\ answer \notin {ConnectionError, Malformed}
           /\ Answer(c, b, Outcome(b, answer.keys), used)
           /\ keyCache' = IF answer.until = Absent THEN keyCache
                          ELSE [n \in DOMAIN keyCache \cup {Signer(b)} |->
                                  IF n = Signer(b) THEN entry ELSE keyCache[n]]
  <2>1. answer.keys \in SUBSET Key /\ answer.until \in Int \cup {Absent}
    BY <1>8, KeysAssumption
  <2>2. used \in Used /\ used.server = Signer(b) /\ used.keys = answer.keys
    BY <1>4, <2>1 DEF Used
  <2>3. answer.until # Absent => entry \in [keys : SUBSET Key, until : Int]
    BY <2>1
  <2> HIDE DEF entry
  <2>4. /\ DOMAIN keyCache' \subseteq Name
        /\ keyCache' \in [DOMAIN keyCache' -> [keys : SUBSET Key, until : Int]]
    BY <1>4, <1>5, <1>8, <2>3
  <2>5. Outcome(b, answer.keys) \in Status \ {"idle"}
    BY OutcomeIs DEF Status
  <2>6. ASSUME Outcome(b, answer.keys) = "ok"
        PROVE  \E i \in DOMAIN b.headers :
                  /\ b.headers[i].good /\ b.headers[i].origin \in EndsWith[b.server]
                  /\ b.headers[i].origin = Signer(b) /\ b.headers[i].key \in answer.keys
    BY <1>3, <2>6, OkIsSigned
  <2> HIDE DEF used
  <2> QED
    BY <1>3, <1>6, <1>8, <2>2, <2>4, <2>5, <2>6, AnswerStep
<1> QED
  BY <1>2, <1>7, <1>8

LEMMA VerifierInit == Init => VerifierInv
<1> SUFFICES ASSUME Init PROVE VerifierInv
  OBVIOUS
<1>1. /\ clock = 0 /\ data = <<>> /\ expiring = {} /\ keyCache = <<>>
      /\ servers = [s \in Service |-> [n \in Name |-> <<>>]]
      /\ call = [c \in Call |-> NoCall]
      /\ request = [c \in Call |->
                      [body |-> NoBody, status |-> "idle", used |-> NotUsed, checked |-> 0]]
  BY DEF Init, AgentInit
<1>2. CacheInv
  BY <1>1 DEF CacheInv, CacheInStep, EntriesAreNamed
<1>3. clock \in Times /\ 0 \in Times
  BY <1>1, PeriodAssumption DEF Times
<1>4. AgentFits
  <2>1. servers \in [Service -> [Name -> Seq(Server)]]
    BY <1>1
  <2>2. \A s \in Service, n \in Name : DOMAIN servers[s][n] = {}
    BY <1>1
  <2> QED
    BY <1>1, <1>3, <2>1, <2>2 DEF AgentFits
<1>5. CallsFit
  <2>1. CallFits(NoCall)
    BY <1>3, FailedFits
  <2> QED
    BY <1>1, <2>1 DEF CallsFit, CallFits
<1>6. RequestsFit
  <2>1. [body |-> NoBody, status |-> "idle", used |-> NotUsed, checked |-> 0] \in Request
    BY <1>3, UnusedIsUsed DEF Request, Status
  <2>2. request \in [Call -> Request]
    BY <1>1, <2>1
  <2>3. \A c \in Call : call[c].at = "none"
    BY <1>1 DEF NoCall
  <2> QED
    BY <1>1, <2>2, <2>3 DEF RequestsFit
<1>7. \A c \in Call : Authorised(request[c])
  BY <1>1 DEF Authorised
<1> QED
  BY <1>2, <1>4, <1>5, <1>6, <1>7 DEF VerifierInv

LEMMA VerifierNext == VerifierInv /\ [Next]_vars => VerifierInv'
<1> SUFFICES ASSUME VerifierInv, [Next]_vars PROVE VerifierInv'
  OBVIOUS
<1>1. CacheInv'
  BY CacheInvNext DEF VerifierInv
<1>2. ASSUME UNCHANGED <<data, servers, call, keyCache, request>>,
             clock' \in Times, clock <= clock'
      PROVE  VerifierInv'
  <2>1. AgentFits'
    BY <1>2 DEF VerifierInv, AgentFits
  <2>2. CallsFit'
    <3>1. \A c \in Call : call[c].start \in Int /\ call[c].start <= clock
      BY PeriodAssumption DEF VerifierInv, CallsFit, CallFits, Points, Times
    <3>2. clock \in Int /\ clock' \in Int
      BY <1>2, PeriodAssumption DEF VerifierInv, AgentFits, Times
    <3>3. \A c \in Call : call[c].start <= clock'
      BY <1>2, <3>1, <3>2
    <3> QED
      BY <1>2, <3>3 DEF VerifierInv, CallsFit, CallFits
  <2>3. RequestsFit' /\ (\A c \in Call : Authorised(request[c]))'
    BY <1>2 DEF VerifierInv, RequestsFit, Authorised
  <2> QED
    BY <1>1, <2>1, <2>2, <2>3 DEF VerifierInv
<1>3. clock \in Times /\ Times \subseteq Int /\ MaxTime \in Nat
  BY PeriodAssumption DEF VerifierInv, AgentFits, Times
<1>4. CASE Clock
  <2>1. clock' = clock + 1 /\ clock < MaxTime
    BY <1>4 DEF Clock, Tick
  <2>2. clock' \in Times /\ clock <= clock'
    BY <1>3, <2>1 DEF Times
  <2> QED
    BY <1>2, <1>4, <2>2 DEF Clock, Tick
<1>5. CASE UNCHANGED vars
  BY <1>2, <1>3, <1>5 DEF vars, agentVars
<1> QED
  BY <1>1, <1>4, <1>5, ReceiveSessionStep, ReceiveSignedStep, AgentStepStep, KeysArriveStep
     DEF Next

LEMMA VerifierInvariant == Spec => []VerifierInv
  BY VerifierInit, VerifierNext, PTL DEF Spec

(* The caches, the calls and the requests are well formed.                 *)
THEOREM VerifierTypeCorrect == Spec => []TypeOK
<1>1. VerifierInv => TypeOK
  <2> SUFFICES ASSUME VerifierInv PROVE TypeOK
    OBVIOUS
  <2>1. CacheInv /\ AgentFits /\ CallsFit /\ RequestsFit
    BY DEF VerifierInv
  <2>2. \A e \in expiring : e \in CacheEntry
    BY <2>1 DEF CacheInv, CacheInStep, AgentFits
  <2>3. TypeOfAgent
    BY <2>1, <2>2 DEF TypeOfAgent, AgentFits, CallsFit
  <2>4. \E known \in SUBSET Name : keyCache \in [known -> [keys : SUBSET Key, until : Int]]
    BY <2>1 DEF RequestsFit
  <2>5. \A c \in Call : request[c] \in Request
    BY <2>1 DEF RequestsFit
  <2>6. \A c \in Call :
           /\ request[c].status \in Status /\ request[c].used \in Used
           /\ request[c].body \in Unbind \cup {NoBody} /\ request[c].checked \in Times
    BY <2>5 DEF Request
  <2> QED
    BY <2>3, <2>4, <2>6 DEF TypeOK
<1> QED
  BY <1>1, VerifierInvariant, PTL

(* MatrixFederationAgent: whatever order answers come in, a host is asked  *)
(* on the word of answers that are at most MaxPeriod or MaxTtl old, unless *)
(* DNS has failed.                                                         *)
THEOREM RoutesAreRecent == Spec => []RouteIsRecent
<1>1. VerifierInv => RouteIsRecent
  BY DEF VerifierInv, CallsFit, CallFits, RouteIsRecent, Oldest
<1> QED
  BY <1>1, VerifierInvariant, PTL

(* ThreePidUnbindServlet: no binding is removed but for a session that     *)
(* proves the address or a good signature of a server that the mxid ends   *)
(* with.                                                                   *)
THEOREM UnbindsAreAuthorised == Spec => []UnbindIsAuthorised
<1>1. VerifierInv => UnbindIsAuthorised
  BY DEF VerifierInv, Authorised, UnbindIsAuthorised
<1> QED
  BY <1>1, VerifierInvariant, PTL

-----------------------------------------------------------------------------
(* Whose keys are used *)

(* Call d has got these keys from server n.                                *)
Gave(d, n, keys, until) ==
    /\ request[d].used.fetched /\ request[d].used.server = n
    /\ request[d].used.keys = keys /\ request[d].used.until = until
    /\ request[d].checked <= clock

(* KeysWereGiven of one request                                            *)
Given(c) ==
    request[c].status = "ok" /\ request[c].body.session = "none" =>
        \E d \in Call :
            /\ request[d].used.fetched
            /\ request[d].used.server = Origin(request[c].body)
            /\ request[d].used.keys = request[c].used.keys
            /\ request[d].checked <= request[c].checked
            /\ \/ d = c
               \/ /\ request[d].used.until # Absent
                  /\ request[d].used.until > request[c].checked

CacheGiven ==
    \A n \in DOMAIN keyCache :
        /\ keyCache[n].until # Absent
        /\ \E d \in Call : Gave(d, n, keyCache[n].keys, keyCache[n].until)

(* What is cached was given to a request, which is never answered again.   *)
GivenInv ==
    /\ \A c \in Call : request[c].status \in {"idle", "waiting"} => ~ request[c].used.fetched
    /\ \A c \in Call : call[c].at \in {"wellknown", "srv", "get"} => request[c].status = "waiting"
    /\ CacheGiven
    /\ \A c \in Call : Given(c)

(* What was answered, or got keys, before stays as it is.                  *)
LEMMA AnswerKeepsOthers ==
    ASSUME VerifierInv, GivenInv, NEW c \in Call, request[c].status \in {"idle", "waiting"},
           NEW b, NEW status, NEW used, Answer(c, b, status, used), clock' = clock
    PROVE  /\ request'[c].body = b /\ request'[c].status = status /\ request'[c].used = used
           /\ request'[c].checked = IF used = NotUsed THEN 0 ELSE clock
           /\ \A d \in Call \ {c} : request'[d] = request[d]
           /\ \A d \in Call : \A n, keys, until :
                Gave(d, n, keys, until) => d # c /\ Gave(d, n, keys, until)'
           /\ \A d \in Call \ {c} : Given(d)'
<1>1. request \in [Call -> Request]
  BY DEF VerifierInv, RequestsFit
<1>2. /\ request'[c].body = b /\ request'[c].status = status /\ request'[c].used = used
      /\ request'[c].checked = IF used = NotUsed THEN 0 ELSE clock
      /\ \A d \in Call \ {c} : request'[d] = request[d]
  BY <1>1 DEF Answer
<1>3. ~ request[c].used.fetched
  BY DEF GivenInv
<1>4. \A d \in Call : \A n, keys, until :
         Gave(d, n, keys, until) => d # c /\ Gave(d, n, keys, until)'
  BY <1>2, <1>3 DEF Gave
<1>5. ASSUME NEW d \in Call \ {c} PROVE Given(d)'
  <2>1. request'[d] = request[d] /\ Given(d)
    BY <1>2 DEF GivenInv
  <2>2. \A e \in Call : request[e].used.fetched => e # c /\ request'[e] = request[e]
    BY <1>2, <1>3
  <2> QED
    BY <2>1, <2>2 DEF Given
<1> QED
  BY <1>2, <1>4, <1>5

(* An answer that uses no keys                                             *)
LEMMA UnusedGiven ==
    ASSUME VerifierInv, GivenInv, NEW c \in Call, request[c].status \in {"idle", "waiting"},
           NEW b, NEW status, Answer(c, b, status, NotUsed), clock' = clock,
           status = "ok" => b.session # "none", keyCache' = keyCache,
           \A d \in Call \ {c} : call'[d] = call[d],
           call'[c].at \in {"wellknown", "srv", "get"} => status = "waiting"
    PROVE  GivenInv'
<1>1. /\ request'[c].body = b /\ request'[c].status = status /\ request'[c].used = NotUsed
      /\ \A d \in Call \ {c} : request'[d] = request[d]
      /\ \A d \in Call : \A n, keys, until :
           Gave(d, n, keys, until) => d # c /\ Gave(d, n, keys, until)'
      /\ \A d \in Call \ {c} : Given(d)'
  BY AnswerKeepsOthers
<1>2. ~ NotUsed.fetched
  BY DEF NotUsed
<1>3. Given(c)'
  BY <1>1 DEF Given
<1>4. CacheGiven'
  <2> SUFFICES ASSUME NEW n \in DOMAIN keyCache'
               PROVE  /\ keyCache'[n].until # Absent
                      /\ \E d \in Call : Gave(d, n, keyCache[n].keys, keyCache[n].until)'
    BY DEF CacheGiven
  <2>0. keyCache'[n].until # Absent
    BY DEF GivenInv, CacheGiven
  <2>1. PICK d \in Call : Gave(d, n, keyCache[n].keys, keyCache[n].until)
    BY DEF GivenInv, CacheGiven
  <2>2. d # c /\ request'[d] = request[d]
    BY <1>1, <2>1
  <2> QED
    BY <2>0, <2>1, <2>2 DEF Gave
<1>5. \A d \in Call : Given(d)'
  BY <1>1, <1>3
<1>6. /\ \A d \in Call : request'[d].status \in {"idle", "waiting"} => ~ request'[d].used.fetched
      /\ \A d \in Call : call'[d].at \in {"wellknown", "srv", "get"}
                            => request'[d].status = "waiting"
  BY <1>1, <1>2 DEF GivenInv
<1> QED
  BY <1>4, <1>5, <1>6 DEF GivenInv

(* Nothing is verified without a key.                                      *)
LEMMA NoKeysNoOutcome == \A b : Outcome(b, {}) = "refused"
<1> SUFFICES ASSUME NEW b PROVE Outcome(b, {}) = "refused"
  OBVIOUS
<1>1. ~ Verified(b, {})
  BY DEF Verified
<1> QED
  BY <1>1 DEF Outcome

(* An answer for keys that were cached                                     *)
LEMMA CachedGiven ==
    ASSUME VerifierInv, GivenInv, NEW c \in Call, request[c].status = "idle",
           NEW b \in Body, b.headers # <<>>, KeysCached(Signer(b)),
           Answer(c, b, Outcome(b, keyCache[Signer(b)].keys),
                  [server |-> Signer(b), keys |-> keyCache[Signer(b)].keys,
                   until |-> keyCache[Signer(b)].until, fetched |-> FALSE]),
           UNCHANGED <<clock, call, keyCache>>
    PROVE  GivenInv'
<1> DEFINE cached == keyCache[Signer(b)]
           used == [server |-> Signer(b), keys |-> cached.keys,
                    until |-> cached.until, fetched |-> FALSE]
           status == Outcome(b, cached.keys)
<1>1. PICK d \in Call : Gave(d, Signer(b), cached.keys, cached.until)
  BY DEF KeysCached, GivenInv, CacheGiven
<1>2. Answer(c, b, status, used)
  OBVIOUS
<1>3. /\ request'[c].body = b /\ request'[c].status = status /\ request'[c].used = used
      /\ request'[c].checked = IF used = NotUsed THEN 0 ELSE clock
      /\ \A e \in Call \ {c} : request'[e] = request[e]
      /\ d # c
      /\ \A e \in Call \ {c} : Given(e)'
  <2> HIDE DEF used, status
  <2> QED
    BY <1>1, <1>2, AnswerKeepsOthers
<1>4. status \in {"refused", "forbidden", "ok"} /\ ~ used.fetched /\ used.keys = cached.keys
  BY OutcomeIs
<1>5. Given(c)'
  <2> SUFFICES ASSUME status = "ok", b.session = "none" PROVE Given(c)'
    BY <1>3 DEF Given
  <2>1. used # NotUsed
    <3>1. NotUsed.keys = {}
      BY DEF NotUsed
    <3>2. cached.keys # {}
      BY NoKeysNoOutcome
    <3> QED
      BY <1>4, <3>1, <3>2
  <2>2. cached.until > clock /\ cached.until # Absent
    BY DEF KeysCached, GivenInv, CacheGiven
  <2>3. Signer(b) = Origin(b)
    BY SignerIs
  <2> QED
    BY <1>1, <1>3, <1>4, <2>1, <2>2, <2>3 DEF Given, Gave
<1>6. CacheGiven'
  <2> SUFFICES ASSUME NEW n \in DOMAIN keyCache'
               PROVE  /\ keyCache'[n].until # Absent
                      /\ \E e \in Call : Gave(e, n, keyCache[n].keys, keyCache[n].until)'
    BY DEF CacheGiven
  <2>1. keyCache'[n].until # Absent
    BY DEF GivenInv, CacheGiven
  <2>2. PICK e \in Call : Gave(e, n, keyCache[n].keys, keyCache[n].until)
    BY DEF GivenInv, CacheGiven
  <2>3. e # c
    BY <2>2 DEF GivenInv, Gave
  <2> QED
    BY <1>3, <2>1, <2>2, <2>3 DEF Gave
<1>7. /\ \A e \in Call : request'[e].status \in {"idle", "waiting"} => ~ request'[e].used.fetched
      /\ \A e \in Call : call'[e].at \in {"wellknown", "srv", "get"}
                            => request'[e].status = "waiting"
  <2>1. call[c].at \notin {"wellknown", "srv", "get"}
    BY DEF GivenInv
  <2> HIDE DEF used, status
  <2> QED
    BY <1>3, <1>4, <2>1 DEF GivenInv
<1>8. \A e \in Call : Given(e)'
  BY <1>3, <1>5
<1> QED
  BY <1>6, <1>7, <1>8 DEF GivenInv

(* The answer for keys that have come, and what is cached of it            *)
LEMMA FetchedGiven ==
    ASSUME VerifierInv, GivenInv, NEW c \in Call, request[c].status = "waiting",
           NEW b \in Body, b.headers # <<>>, NEW keys, NEW until,
           Answer(c, b, Outcome(b, keys),
                  [server |-> Signer(b), keys |-> keys, until |-> until, fetched |-> TRUE]),
           clock' = clock, call' = [call EXCEPT ![c] = NoCall],
           keyCache' = IF until = Absent THEN keyCache
                       ELSE [n \in DOMAIN keyCache \cup {Signer(b)} |->
                               IF n = Signer(b) THEN [keys |-> keys, until |-> until]
                               ELSE keyCache[n]]
    PROVE  GivenInv'
<1> DEFINE used == [server |-> Signer(b), keys |-> keys, until |-> until, fetched |-> TRUE]
           status == Outcome(b, keys)
<1>1. Answer(c, b, status, used)
  OBVIOUS
<1>2. /\ used.fetched /\ used.server = Signer(b) /\ used.keys = keys /\ used.until = until
      /\ used # NotUsed
  BY DEF NotUsed
<1>3. status \in {"refused", "forbidden", "ok"}
  BY OutcomeIs
<1> HIDE DEF used, status
<1>4. /\ request'[c].body = b /\ request'[c].status = status /\ request'[c].used = used
      /\ request'[c].checked = clock
      /\ \A e \in Call \ {c} : request'[e] = request[e]
      /\ \A e \in Call \ {c} : Given(e)'
  BY <1>1, <1>2, AnswerKeepsOthers
<1>5. clock \in Int
  BY PeriodAssumption DEF VerifierInv, AgentFits, Times
<1>6. Given(c)'
  <2>1. Signer(b) = Origin(b)
    BY SignerIs
  <2> QED
    BY <1>2, <1>4, <1>5, <2>1 DEF Given
<1>7. ASSUME NEW n \in DOMAIN keyCache'
      PROVE  /\ keyCache'[n].until # Absent
             /\ \E e \in Call : Gave(e, n, keyCache[n].keys, keyCache[n].until)'
  <2>1. CASE until # Absent /\ n = Signer(b)
    <3>1. keyCache'[n] = [keys |-> keys, until |-> until]
      BY <2>1
    <3>2. keyCache'[n].keys = keys /\ keyCache'[n].until = until
      BY <3>1
    <3> QED
      BY <1>2, <1>4, <1>5, <2>1, <3>2 DEF Gave
  <2>2. CASE ~ (until # Absent /\ n = Signer(b))
    <3>1. n \in DOMAIN keyCache /\ keyCache'[n] = keyCache[n]
      BY <2>2
    <3>2. keyCache[n].until # Absent
      BY <3>1 DEF GivenInv, CacheGiven
    <3>3. PICK e \in Call : Gave(e, n, keyCache[n].keys, keyCache[n].until)
      BY <3>1 DEF GivenInv, CacheGiven
    <3>4. e # c
      BY <3>3 DEF GivenInv, Gave
    <3> QED
      BY <1>4, <3>1, <3>2, <3>3, <3>4 DEF Gave
  <2> QED
    BY <2>1, <2>2
<1>8. CacheGiven'
  BY <1>7 DEF CacheGiven
<1>9. /\ \A e \in Call : request'[e].status \in {"idle", "waiting"} => ~ request'[e].used.fetched
      /\ \A e \in Call : call'[e].at \in {"wellknown", "srv", "get"}
                            => request'[e].status = "waiting"
  <2>1. call'[c] = NoCall /\ NoCall.at = "none" /\ \A e \in Call \ {c} : call'[e] = call[e]
    BY DEF VerifierInv, CallsFit, NoCall
  <2> QED
    BY <1>3, <1>4, <2>1 DEF GivenInv
<1>10. \A e \in Call : Given(e)'
  BY <1>4, <1>6
<1> QED
  BY <1>8, <1>9, <1>10 DEF GivenInv

LEMMA GivenNext == VerifierInv /\ GivenInv /\ [Next]_vars => GivenInv'
<1> SUFFICES ASSUME VerifierInv, GivenInv, [Next]_vars PROVE GivenInv'
  OBVIOUS
<1>1. call \in [Call -> Points]
  BY DEF VerifierInv, CallsFit
<1>2. ASSUME NEW c \in Call, NEW b \in Unbind, ReceiveSession(c, b) \/ ReceiveUnsigned(c, b)
      PROVE  GivenInv'
  <2>1. /\ request[c].status = "idle" /\ call' = call /\ clock' = clock /\ keyCache' = keyCache
    BY <1>2 DEF ReceiveSession, ReceiveUnsigned, Idle, agentVars
  <2>2. call[c].at \notin {"wellknown", "srv", "get"}
    BY <2>1 DEF GivenInv
  <2>3. PICK status : Answer(c, b, status, NotUsed) /\ (status = "ok" => b.session # "none")
    BY <1>2 DEF ReceiveSession, ReceiveUnsigned
  <2> QED
    BY <2>1, <2>2, <2>3, UnusedGiven
<1>3. ASSUME NEW c \in Call, NEW b \in Unbind, ReceiveSigned(c, b) PROVE GivenInv'
  <2>1. /\ request[c].status = "idle" /\ clock' = clock /\ keyCache' = keyCache
        /\ b \in Body /\ b.headers # <<>>
    BY <1>3, UnbindAssumption DEF ReceiveSigned, Idle, agentVars
  <2>2. CASE Answer(c, b, "waiting", NotUsed) /\ \E p : call' = [call EXCEPT ![c] = p]
    <3>1. \A d \in Call \ {c} : call'[d] = call[d]
      BY <1>1, <2>2
    <3> QED
      BY <2>1, <2>2, <3>1, UnusedGiven
  <2>3. CASE /\ KeysCached(Signer(b))
             /\ Answer(c, b, Outcome(b, keyCache[Signer(b)].keys),
                       [server |-> Signer(b), keys |-> keyCache[Signer(b)].keys,
                        until |-> keyCache[Signer(b)].until, fetched |-> FALSE])
             /\ UNCHANGED agentVars
    <3>1. UNCHANGED <<clock, call, keyCache>>
      BY <2>1, <2>3 DEF agentVars
    <3> QED
      BY <2>1, <2>3, <3>1, CachedGiven
  <2> QED
    BY <1>3, <2>2, <2>3 DEF ReceiveSigned
<1>4. ASSUME NEW c \in Call, AgentStep(c) PROVE GivenInv'
  <2>1. /\ call[c].at \in {"wellknown", "srv"} /\ clock' = clock /\ keyCache' = keyCache
        /\ \A d \in Call \ {c} : call'[d] = call[d]
    BY <1>4, WellKnownStep, SrvStep DEF AgentStep, WellKnownArrives, SrvArrives
  <2>2. request[c].status = "waiting"
    BY <2>1 DEF GivenInv
  <2>3. CASE call'[c].at = "failed" /\ Answer(c, request[c].body, "failed", NotUsed)
    BY <2>1, <2>2, <2>3, UnusedGiven
  <2>4. CASE request' = request
    <3>1. CacheGiven' /\ \A d \in Call : Given(d)'
      BY <2>1, <2>4 DEF GivenInv, CacheGiven, Given, Gave
    <3>2. \A d \in Call : call'[d].at \in {"wellknown", "srv", "get"}
                             => request'[d].status = "waiting"
      BY <2>1, <2>2, <2>4 DEF GivenInv
    <3> QED
      BY <2>4, <3>1, <3>2 DEF GivenInv
  <2> QED
    BY <1>4, <2>3, <2>4 DEF AgentStep
<1>5. ASSUME NEW c \in Call, KeysArrive(c) PROVE GivenInv'
  <2> DEFINE b == request[c].body
  <2>1. call[c].at = "get" /\ clock' = clock /\ call' = [call EXCEPT ![c] = NoCall]
    BY <1>5 DEF KeysArrive
  <2>2. /\ request[c].status = "waiting" /\ b \in Body /\ b.headers # <<>>
    BY <2>1, UnbindAssumption DEF GivenInv, VerifierInv, RequestsFit
  <2>3. /\ \A d \in Call \ {c} : call'[d] = call[d]
        /\ call'[c].at \notin {"wellknown", "srv", "get"}
    BY <1>1, <2>1 DEF NoCall
  <2>4. PICK answer \in KeyAnswers :
          \/ Answer(c, b, "failed", NotUsed) /\ keyCache' = keyCache
          \/ Answer(c, b, "refused", NotUsed) /\ keyCache' = keyCache
          \/ /\ Answer(c, b, Outcome(b, answer.keys),
                       [server |-> Signer(b), keys |-> answer.keys,
                        until |-> answer.until, fetched |-> TRUE])
             /\ keyCache' = IF answer.until = Absent THEN keyCache
                            ELSE [n \in DOMAIN keyCache \cup {Signer(b)} |->
                                    IF n = Signer(b)
                                    THEN [keys |-> answer.keys, until |-> answer.until]
                                    ELSE keyCache[n]]
    BY <1>5 DEF KeysArrive
  <2> HIDE DEF b
  <2>5. ASSUME NEW status \in {"failed", "refused"}, Answer(c, b, status, NotUsed),
               keyCache' = keyCache
        PROVE  GivenInv'
    BY <2>1, <2>2, <2>3, <2>5, UnusedGiven
  <2>6. CASE /\ Answer(c, b, Outcome(b, answer.keys),
                       [server |-> Signer(b), keys |-> answer.keys,
                        until |-> answer.until, fetched |-> TRUE])
             /\ keyCache' = IF answer.until = Absent THEN keyCache
                            ELSE [n \in DOMAIN keyCache \cup {Signer(b)} |->
                                    IF n = Signer(b)
                                    THEN [keys |-> answer.keys, until |-> answer.until]
                                    ELSE keyCache[n]]
    <3> DEFINE keys == answer.keys
               until == answer.until
    <3>1. /\ Answer(c, b, Outcome(b, keys),
                    [server |-> Signer(b), keys |-> keys, until |-> until, fetched |-> TRUE])
          /\ keyCache' = IF until = Absent THEN keyCache
                         ELSE [n \in DOMAIN keyCache \cup {Signer(b)} |->
                                 IF n = Signer(b) THEN [keys |-> keys, until |-> until]
                                 ELSE keyCache[n]]
      BY <2>6
    <3> HIDE DEF keys, until
    <3> QED
      BY <2>1, <2>2, <3>1, FetchedGiven
  <2> QED
    BY <2>4, <2>5, <2>6
<1>6. CASE Clock
  <2>1. clock' = clock + 1 /\ UNCHANGED <<call, keyCache, request>>
    BY <1>6 DEF Clock, Tick
  <2>2. clock \in Int /\ \A d \in Call : request[d].checked \in Int
    BY PeriodAssumption DEF VerifierInv, AgentFits, RequestsFit, Request, Times
  <2>4. CacheGiven'
    <3> SUFFICES ASSUME NEW n \in DOMAIN keyCache
                 PROVE  /\ keyCache[n].until # Absent
                        /\ \E d \in Call : Gave(d, n, keyCache[n].keys, keyCache[n].until)'
      BY <2>1 DEF CacheGiven
    <3>1. keyCache[n].until # Absent
      BY DEF GivenInv, CacheGiven
    <3>2. PICK d \in Call : Gave(d, n, keyCache[n].keys, keyCache[n].until)
      BY DEF GivenInv, CacheGiven
    <3>3. request[d].checked <= clock + 1
      BY <2>2, <3>2 DEF Gave
    <3> QED
      BY <2>1, <3>1, <3>2, <3>3 DEF Gave
  <2> QED
    BY <2>1, <2>4 DEF GivenInv, Given
<1>7. CASE UNCHANGED vars
  BY <1>7 DEF vars, agentVars, GivenInv, CacheGiven, Given, Gave
<1> QED
  BY <1>2, <1>3, <1>4, <1>5, <1>6, <1>7 DEF Next

(* Verifier: whenever a signed unbind goes through, its origin had sent    *)
(* the very keys that the signature was checked against, for this request  *)
(* or with a validity that has not ended, whatever fetches overlapped.     *)
THEOREM AcceptedKeysWereGiven == Spec => []KeysWereGiven
<1>1. Init => GivenInv
  <2> SUFFICES ASSUME Init PROVE GivenInv
    OBVIOUS
  <2>1. /\ keyCache = <<>> /\ call = [c \in Call |-> NoCall]
        /\ request = [c \in Call |->
                        [body |-> NoBody, status |-> "idle", used |-> NotUsed, checked |-> 0]]
    BY DEF Init, AgentInit
  <2>2. ~ NotUsed.fetched /\ NoCall.at = "none"
    BY DEF NotUsed, NoCall
  <2> QED
    BY <2>1, <2>2 DEF GivenInv, CacheGiven, Given
<1>2. GivenInv => KeysWereGiven
  BY DEF GivenInv, Given, KeysWereGiven
<1> QED
  BY <1>1, <1>2, GivenNext, VerifierInvariant, PTL DEF Spec
=============================================================================
