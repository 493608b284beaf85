------------------------------- MODULE Verifier -------------------------------
(***************************************************************************)
(* ThreePidUnbindServlet and the Verifier of requests that homeservers     *)
(* have signed, on top of FederationAgent: the keys of the server that a   *)
(* request names as its origin are taken from the cache, or asked for over *)
(* the route of the agent, and one of the X-Matrix signatures must match.  *)
(***************************************************************************)
EXTENDS FederationAgent

CONSTANTS Key,         \* signing keys; a key and its name are one
          Unbind,      \* the requests: server of the mxid, session, headers
          KeyAnswers,  \* what a host may answer when asked for its keys
          EndsWith,    \* the origins that ":" and a server name end with
          Malformed, ConnectionError,
          NoBody       \* of a request that has not come yet

VARIABLES
    keyCache,  \* Verifier.cache
    request    \* the request each call serves

vars == <<agentVars, keyCache, request>>

Header == [origin : Name, key : Key, good : BOOLEAN]

(* A session that was given, or none; "other" is one of another address    *)
Session == {"none", "valid", "wrong", "unvalidated", "expired", "other"}

Body == [server : Name, session : Session, headers : Seq(Header)]

ASSUME UnbindAssumption == \A b \in Unbind : b \in Body

(* "hs:8448" ends with ":8448" too.                                        *)
ASSUME EndsWithAssumption ==
    EndsWith \in [Name -> SUBSET Name] /\ \A n \in Name : n \in EndsWith[n]

ASSUME KeysAssumption ==
    \A a \in KeyAnswers : \/ a \in {Malformed, ConnectionError}
                          \/ a \in [keys : SUBSET Key, until : Int \cup {Absent}]

(* "used" is what the signature was checked against (and when, "checked"), *)
(* "fetched" whether this very request asked for it; "hanging" is a        *)
(* request that is never finished.                                         *)
NotUsed == [server |-> anyName, keys |-> {}, until |-> Absent, fetched |-> FALSE]

Used == [server : Name, keys : SUBSET Key, until : Int \cup {Absent}, fetched : BOOLEAN]

Status == {"idle", "waiting", "ok", "refused", "forbidden", "failed", "hanging"}

TypeOK ==
    /\ TypeOfAgent
    /\ \E known \in SUBSET Name : keyCache \in [known -> [keys : SUBSET Key, until : Int]]
    /\ \A c \in Call :
         /\ request[c].status \in Status
         /\ request[c].used \in Used
         /\ request[c].body \in Unbind \cup {NoBody}
         /\ request[c].checked \in Times

Init ==
    /\ AgentInit
    /\ keyCache = <<>>
    /\ request = [c \in Call |->
                    [body |-> NoBody, status |-> "idle", used |-> NotUsed, checked |-> 0]]

Answer(c, b, status, used) ==
    request' = [request EXCEPT ![c] =
                  [body |-> b, status |-> status, used |-> used,
                   checked |-> IF used = NotUsed THEN 0 ELSE clock]]

-----------------------------------------------------------------------------
(* authenticate_request: the origin is that of the last header.            *)
Origin(b) == b.headers[Len(b.headers)].origin

(* A mutant of Signer: the list of acceptable server names is left out.    *)
AnySigner(b) == b.headers[1].origin

(* verifyServerSignedJson: the servers of the signatures in turn, but for  *)
(* those that are not acceptable, which are all but the origin             *)
Signer(b) ==
    LET i == Min({j \in DOMAIN b.headers : b.headers[j].origin \in {Origin(b)}})
    IN  b.headers[i].origin

(* The first of the server's signatures whose key is known decides; of two *)
(* with the same key the later one counts.                                 *)
Verified(b, keys) ==
    LET known == {i \in DOMAIN b.headers : /\ b.headers[i].origin = Signer(b)
                                           /\ b.headers[i].key \in keys}
        decisive == b.headers[Min(known)].key
    IN  /\ known # {}
        /\ b.headers[Max({i \in known : b.headers[i].key = decisive})].good

(* The rest of the request once its signature is known to be good or not:  *)
(* the mxid has to end with the origin, and removeBinding is called.       *)
Outcome(b, keys) ==
    CASE ~ Verified(b, keys) -> "refused"
      [] Verified(b, keys) /\ Origin(b) \notin EndsWith[b.server] -> "forbidden"
      [] Verified(b, keys) /\ Origin(b) \in EndsWith[b.server] -> "ok"

Idle(c) == request[c].status = "idle"

(* A request with sid and client_secret.  The answer to one whose session  *)
(* is not validated is written and never finished; that a session has      *)
(* expired is only caught by the outermost handler, as an error.           *)
SessionOutcome(s) ==
    CASE s = "valid" -> "ok"
      [] s = "wrong" -> "refused"
      [] s = "other" -> "forbidden"
      [] s = "unvalidated" -> "hanging"
      [] s = "expired" -> "failed"

ReceiveSession(c, b) ==
    /\ Idle(c)
    /\ b.session # "none"
    /\ Answer(c, b, SessionOutcome(b.session), NotUsed)
    /\ UNCHANGED <<agentVars, keyCache>>

(* authenticate_request refuses what has no usable header.                 *)
ReceiveUnsigned(c, b) ==
    /\ Idle(c)
    /\ b.session = "none" /\ b.headers = <<>>
    /\ Answer(c, b, "refused", NotUsed)
    /\ UNCHANGED <<agentVars, keyCache>>

(* A mutant of KeysCached: what has been cached is used for ever.          *)
KeysCachedForEver(name) == name \in DOMAIN keyCache

(* _getKeysForServer: the condition for what is cached                     *)
KeysCached(name) == name \in DOMAIN keyCache /\ keyCache[name].until > clock

ReceiveSigned(c, b) ==
    /\ Idle(c)
    /\ b.session = "none" /\ b.headers # <<>>
    /\ \/ /\ KeysCached(Signer(b))
          /\ LET cached == keyCache[Signer(b)]
             IN  Answer(c, b, Outcome(b, cached.keys),
                        [server |-> Signer(b), keys |-> cached.keys,
                         until |-> cached.until, fetched |-> FALSE])
          /\ UNCHANGED <<agentVars, keyCache>>
       \/ /\ ~ KeysCached(Signer(b))
          /\ Answer(c, b, "waiting", NotUsed)
          /\ \E p \in Routed(Signer(b)) : call' = [call EXCEPT ![c] = p]
          /\ ReadCache(Signer(b))
          /\ UNCHANGED <<clock, servers, keyCache>>

(* The agent's step, and the answer of the servlet if it raises            *)
AgentStep(c) ==
    /\ WellKnownArrives(c) \/ SrvArrives(c)
    /\ IF call'[c].at = "failed"
       THEN Answer(c, request[c].body, "failed", NotUsed)
       ELSE UNCHANGED request
    /\ UNCHANGED keyCache

(* The answer of the host arrives; it is kept if it says until when.       *)
KeysArrive(c) ==
    LET b == request[c].body
    IN  /\ call[c].at = "get"
        /\ call' = [call EXCEPT ![c] = NoCall]
        /\ \E answer \in KeyAnswers :
             \/ /\ answer = ConnectionError
                /\ Answer(c, b, "failed", NotUsed)
                /\ UNCHANGED keyCache
             \/ /\ answer = Malformed
                /\ Answer(c, b, "refused", NotUsed)
                /\ UNCHANGED keyCache
             \/ /\ answer \notin {ConnectionError, Malformed}
                /\ Answer(c, b, Outcome(b, answer.keys),
                          [server |-> Signer(b), keys |-> answer.keys,
                           until |-> answer.until, fetched |-> TRUE])
                /\ keyCache' =
                     IF answer.until = Absent THEN keyCache
                     ELSE [n \in DOMAIN keyCache \cup {Signer(b)} |->
                             IF n = Signer(b)
                             THEN [keys |-> answer.keys, until |-> answer.until]
                             ELSE keyCache[n]]
        /\ UNCHANGED <<clock, data, expiring, servers>>

Clock == Tick /\ UNCHANGED <<keyCache, request>>

Next ==
    \/ \E c \in Call, b \in Unbind :
         ReceiveSession(c, b) \/ ReceiveUnsigned(c, b) \/ ReceiveSigned(c, b)
    \/ \E c \in Call : AgentStep(c) \/ KeysArrive(c)
    \/ Clock

Spec == Init /\ [][Next]_vars

(* Whoever is asked answers in the end, or the connection breaks.          *)
Fairness == \A c \in Call : WF_vars(AgentStep(c) \/ KeysArrive(c))

FairSpec == Spec /\ Fairness

-----------------------------------------------------------------------------
(* Properties *)

(* TTLCache: _data and _expiry_list hold the same entries, whatever the    *)
(* order in which fetches of the same .well-known come back.  If they did  *)
(* not, expire() would drop a new entry with an old one, or die of a       *)
(* KeyError on every later read.                                           *)
CacheInStep == expiring = {data[k] : k \in DOMAIN data}

(* MatrixFederationAgent: the host that is asked for the keys was pointed  *)
(* to by answers that are at most MaxPeriod (.well-known) or MaxTtl (SRV)  *)
(* old when the request begins, or DNS has failed during the request.      *)
RouteIsRecent ==
    \A c \in Call : call[c].at = "get" =>
        \/ call[c].stale
        \/ call[c].start - call[c].via <= Max({MaxPeriod, MaxTtl})

(* Verifier: the keys that a signature is accepted for are those that the  *)
(* origin itself sent, once, in one answer: to this very request, or to an *)
(* earlier one and then with a valid_until_ts that is still to come.  No   *)
(* order in which overlapping fetches end, and no other server's answer,   *)
(* makes up a set of keys that the origin did not vouch for.               *)
KeysWereGiven ==
    \A c \in Call : request[c].status = "ok" /\ request[c].body.session = "none" =>
        \E d \in Call :
            /\ request[d].used.fetched
            /\ request[d].used.server = Origin(request[c].body)
            /\ request[d].used.keys = request[c].used.keys
            /\ request[d].checked <= request[c].checked
            /\ \/ d = c
               \/ /\ request[d].used.until # Absent
                  /\ request[d].used.until > request[c].checked

(* ThreePidUnbindServlet: a binding is only removed for a session that     *)
(* proves the address, or for a good signature with a key of the very      *)
(* server that the mxid ends with; a request with the headers of several   *)
(* servers gets no more than that.                                         *)
UnbindIsAuthorised ==
    \A c \in Call : request[c].status = "ok" =>
        \/ request[c].body.session = "valid"
        \/ \E i \in DOMAIN request[c].body.headers :
             LET h == request[c].body.headers[i]
             IN  /\ h.good
                 /\ h.origin \in EndsWith[request[c].body.server]
                 /\ h.origin = request[c].used.server
                 /\ h.key \in request[c].used.keys

(* Every signed request is answered, whatever .well-known and SRV records  *)
(* say of each other.                                                      *)
SignedIsAnswered ==
    \A c \in Call : request[c].status = "waiting" ~> request[c].status # "waiting"
=============================================================================
