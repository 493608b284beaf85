--------------------------- MODULE FederationAgent ---------------------------
(***************************************************************************)
(* How Sydent finds the host of a homeserver (MatrixFederationAgent): an   *)
(* IP literal or an explicit port is used as it is; else .well-known is    *)
(* asked, once, then the SRV records of _matrix-fed and of _matrix, and    *)
(* port 8448 of the name itself is the last resort.                        *)
(*                                                                         *)
(* Two caches are shared by all calls of the process: the TTLCache of      *)
(* .well-known results and the SERVER_CACHE of SRV records.  A call holds  *)
(* nothing while it waits, so that answers come in any order.  What the    *)
(* network answers is chosen when the answer arrives.                      *)
(***************************************************************************)
EXTENDS Integers, Sequences, FiniteSetsExt

CONSTANTS Name,              \* server names
          Direct,            \* those that are an IP literal or have a port
          NoServer,          \* None: there is no valid .well-known
          EmptyServer,       \* a valid .well-known with an m.server of ""
          Unencodable,       \* an m.server that is not ASCII
          Absent, Bad,       \* a header that is missing, or is no number or date
          WellKnownAnswers,  \* what a .well-known may say, with its headers
          SrvAnswers,        \* what DNS may say of a service of a name
          NameError, DomainError, Unavailable,
          InvalidPeriod, DefaultPeriod, Jitter, MaxPeriod,
          MaxTtl,            \* bound: the longest TTL of a SRV record
          MaxTime,           \* bound: the length of a behaviour
          Call,              \* bound: the calls of get_json
          anyName            \* what a call that is not under way points to

Service == {"_matrix-fed", "_matrix"}

ASSUME PeriodAssumption ==
    /\ Direct \subseteq Name /\ anyName \in Name
    /\ {InvalidPeriod, DefaultPeriod, MaxPeriod} \subseteq Nat \ {0}
    /\ {Jitter, MaxTtl, MaxTime} \subseteq Nat
    /\ DefaultPeriod + Jitter <= MaxPeriod
    /\ InvalidPeriod + Jitter <= MaxPeriod

Headers ==
    [noStore : BOOLEAN, maxAge : Int \cup {Absent, Bad}, expires : Int \cup {Absent, Bad}]

SrvRecord == [host : Name, priority : Nat, weight : Nat, ttl : 0..MaxTtl]

ASSUME AnswersAssumption ==
    /\ \A a \in WellKnownAnswers :
         a.server \in Name \cup {NoServer, EmptyServer, Unencodable} /\ a.headers \in Headers
    /\ \A s \in Service, n \in Name : \A a \in SrvAnswers[s][n] :
         a \in {NameError, DomainError, Unavailable} \/ a \in Seq(SrvRecord)

VARIABLES
    clock,
    data,      \* TTLCache._data
    expiring,  \* TTLCache._expiry_list: it is sorted, that is, a set
    servers,   \* SERVER_CACHE; an empty list counts as none
    call       \* where each call of get_json stands

agentVars == <<clock, data, expiring, servers, call>>

Times == 0..MaxTime

CacheEntry ==
    [expiry : Int, key : Name, value : Name \cup {NoServer, EmptyServer}, since : Times]

Server == [host : Name, priority : Nat, weight : Nat, expires : Nat, since : Times]

(* Where a call waits, since when (for DNS), and from where it came: "via" *)
(* is when the oldest answer that brought it here arrived, "stale" that    *)
(* DNS failed and that an old answer was taken instead.                    *)
Points ==
    [at : {"none", "wellknown", "srv", "get", "failed"}, name : Name,
     service : Service, start : Times, asked : Times, via : Times, stale : BOOLEAN]

TypeOfAgent ==
    /\ clock \in Times
    /\ \E known \in SUBSET Name : data \in [known -> CacheEntry]
    /\ \A e \in expiring : e \in CacheEntry
    /\ \A s \in Service, n \in Name : servers[s][n] \in Seq(Server)
    /\ call \in [Call -> Points]

NoCall ==
    [at |-> "none", name |-> anyName, service |-> "_matrix",
     start |-> 0, asked |-> 0, via |-> 0, stale |-> FALSE]

AgentInit ==
    /\ clock = 0
    /\ data = <<>>
    /\ expiring = {}
    /\ servers = [s \in Service |-> [n \in Name |-> <<>>]]
    /\ call = [c \in Call |-> NoCall]

-----------------------------------------------------------------------------
(* TTLCache *)

(* expire(): what is due leaves both structures.                           *)
Due == {e \in expiring : e.expiry <= clock}

LiveData == [k \in DOMAIN data \ {e.key : e \in Due} |-> data[k]]

LiveList == expiring \ Due

(* set(key, value, ttl)                                                    *)
NewEntry(key, value, ttl) ==
    [expiry |-> clock + ttl, key |-> key, value |-> value, since |-> clock]

DataWith(key, value, ttl) ==
    [k \in DOMAIN LiveData \cup {key} |->
        IF k = key THEN NewEntry(key, value, ttl) ELSE LiveData[k]]

(* A mutant of ListWith: the entry that is replaced stays in the list.     *)
ListWithOld(key, value, ttl) == LiveList \cup {NewEntry(key, value, ttl)}

ListWith(key, value, ttl) ==
    (LiveList \ {LiveData[k] : k \in DOMAIN LiveData \cap {key}})
        \cup {NewEntry(key, value, ttl)}

-----------------------------------------------------------------------------
(* The time to cache a .well-known for *)

(* _cache_period_from_headers; Absent is None                              *)
PeriodFromHeaders(headers) ==
    CASE headers.noStore -> 0
      [] ~ headers.noStore /\ headers.maxAge \notin {Absent, Bad} -> headers.maxAge
      [] ~ headers.noStore /\ headers.maxAge \in {Absent, Bad} ->
            CASE headers.expires = Absent -> Absent
              [] headers.expires = Bad -> 0
              [] headers.expires \notin {Absent, Bad} -> headers.expires - clock

(* A mutant of CachePeriods: the server's word is taken for any time.      *)
CachePeriodsUncapped(answer) ==
    IF answer.server = NoServer THEN InvalidPeriod..(InvalidPeriod + Jitter)
    ELSE IF PeriodFromHeaders(answer.headers) = Absent
         THEN DefaultPeriod..(DefaultPeriod + Jitter)
         ELSE {PeriodFromHeaders(answer.headers)}

(* _do_get_well_known, its second result                                   *)
CachePeriods(answer) ==
    IF answer.server = NoServer THEN InvalidPeriod..(InvalidPeriod + Jitter)
    ELSE IF PeriodFromHeaders(answer.headers) = Absent
         THEN DefaultPeriod..(DefaultPeriod + Jitter)
         ELSE {Min({PeriodFromHeaders(answer.headers), MaxPeriod})}

-----------------------------------------------------------------------------
(* Routing *)

Older(s, t) == Min({s, t})

AskWellKnown(p, name) == [p EXCEPT !.at = "wellknown", !.name = name]

AskSrv(p, service, name) ==
    [p EXCEPT !.at = "srv", !.service = service, !.name = name, !.asked = clock]

Get(p, host) ==
    [p EXCEPT !.at = "get", !.name = host, !.service = "_matrix", !.asked = 0]

(* The weights of the places that a server list has up to i                *)
WeightUpTo(list, places, i) ==
    MapThenSumSet(LAMBDA j : list[j].weight, {j \in places : j <= i})

(* pick_server_from_list: those that some target_weight picks.  A server   *)
(* of weight 0 is never picked unless it is the first.                     *)
Picked(list) ==
    LET lowest == Min({list[i].priority : i \in DOMAIN list})
        eligible == {i \in DOMAIN list : list[i].priority = lowest}
        Picks(target) == Min({i \in eligible : target <= WeightUpTo(list, eligible, i)})
    IN  {list[i] : i \in {j \in eligible :
            \E target \in 0..WeightUpTo(list, eligible, Max(eligible)) : Picks(target) = j}}

(* To the servers of a non-empty list                                      *)
Servers(p, list, stale) ==
    {[Get(p, s.host) EXCEPT !.via = Older(p.via, s.since), !.stale = stale] :
        s \in Picked(list)}

(* The condition of resolve_service for what is cached                     *)
Fresh(list) == list # <<>> /\ \A i \in DOMAIN list : list[i].expires > clock

(* resolve_service, up to its await                                        *)
Resolve(p, service, name) ==
    IF Fresh(servers[service][name])
    THEN Servers(p, servers[service][name], FALSE)
    ELSE {AskSrv(p, service, name)}

(* _route_matrix_uri with lookup_well_known = False                        *)
Delegated(p, name) ==
    IF name \in Direct THEN {Get(p, name)} ELSE Resolve(p, "_matrix-fed", name)

(* What _route_matrix_uri does with the result of _get_well_known.  An     *)
(* empty name is cached like any other, but delegates to nobody.           *)
WithWellKnown(p, name, server) ==
    IF server \in {NoServer, EmptyServer} THEN Resolve(p, "_matrix-fed", name)
    ELSE Delegated(p, server)

(* _route_matrix_uri of a new request, up to its first await               *)
Routed(name) ==
    LET p == [NoCall EXCEPT !.start = clock, !.via = clock]
    IN  CASE name \in Direct -> {Get(p, name)}
          [] name \notin Direct \cup DOMAIN LiveData -> {AskWellKnown(p, name)}
          [] name \in DOMAIN LiveData \ Direct ->
                WithWellKnown([p EXCEPT !.via = Older(clock, LiveData[name].since)],
                              name, LiveData[name].value)

(* The cache is read, and expired, unless the name needs no lookup.        *)
ReadCache(name) ==
    IF name \in Direct THEN UNCHANGED <<data, expiring>>
    ELSE data' = LiveData /\ expiring' = LiveList

Failed(c) == [call EXCEPT ![c] = [NoCall EXCEPT !.at = "failed"]]

(* The .well-known of a name arrives, or the fetch fails.  A period of 0   *)
(* or less leaves what others have cached meanwhile.                       *)
WellKnownArrives(c) ==
    LET p == call[c]
    IN  /\ p.at = "wellknown"
        /\ \E answer \in WellKnownAnswers :
             \/ /\ answer.server = Unencodable
                /\ call' = Failed(c)
                /\ UNCHANGED <<data, expiring>>
             \/ /\ answer.server # Unencodable
                /\ \E period \in CachePeriods(answer) :
                     IF period > 0
                     THEN /\ data' = DataWith(p.name, answer.server, period)
                          /\ expiring' = ListWith(p.name, answer.server, period)
                     ELSE UNCHANGED <<data, expiring>>
                /\ \E q \in WithWellKnown(p, p.name, answer.server) :
                     call' = [call EXCEPT ![c] = q]
        /\ UNCHANGED <<clock, servers>>

(* Records as the resolver keeps them: their TTL counts from before the    *)
(* lookup.                                                                 *)
Kept(answer, asked) ==
    [i \in DOMAIN answer |->
        [host |-> answer[i].host, priority |-> answer[i].priority,
         weight |-> answer[i].weight, expires |-> asked + answer[i].ttl,
         since |-> asked]]

(* A mutant of NoRecords: the last resort has no target.                   *)
NoRecordsNoTarget(p) ==
    IF p.service = "_matrix-fed" THEN Resolve(p, "_matrix", p.name)
    ELSE {Get(p, NoServer)}

(* A mutant of NoRecords: without records it starts all over again.        *)
NoRecordsForEver(p) ==
    IF p.service = "_matrix-fed" THEN Resolve(p, "_matrix", p.name)
    ELSE Resolve(p, "_matrix-fed", p.name)

(* _route_matrix_uri with an empty list for a service                      *)
NoRecords(p) ==
    IF p.service = "_matrix-fed" THEN Resolve(p, "_matrix", p.name)
    ELSE {Get(p, p.name)}

(* The answer to a SRV lookup arrives.                                     *)
SrvArrives(c) ==
    LET p == call[c]
        old == servers[p.service][p.name]
    IN  /\ p.at = "srv"
        /\ \E answer \in SrvAnswers[p.service][p.name] :
             \/ /\ answer = NameError
                /\ \E q \in NoRecords(p) : call' = [call EXCEPT ![c] = q]
                /\ UNCHANGED servers
             \/ /\ answer = DomainError
                /\ old # <<>>
                /\ \E q \in Servers(p, old, TRUE) : call' = [call EXCEPT ![c] = q]
                /\ UNCHANGED servers
             \/ /\ answer = Unavailable \/ (answer = DomainError /\ old = <<>>)
                /\ call' = Failed(c)
                /\ UNCHANGED servers
             \/ /\ answer \notin {NameError, DomainError, Unavailable}
                /\ LET list == Kept(answer, p.asked)
                   IN  /\ servers' = [servers EXCEPT ![p.service][p.name] = list]
                       /\ \E q \in IF list = <<>> THEN NoRecords(p)
                                   ELSE Servers(p, list, FALSE) :
                            call' = [call EXCEPT ![c] = q]
        /\ UNCHANGED <<clock, data, expiring>>

Tick ==
    /\ clock < MaxTime
    /\ clock' = clock + 1
    /\ UNCHANGED <<data, expiring, servers, call>>
=============================================================================
