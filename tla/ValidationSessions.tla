------------------------- MODULE ValidationSessions --------------------------
(***************************************************************************)
(* Validation sessions, by which a client proves that it owns an address   *)
(* before the address is bound: ThreePidValSessionStore                    *)
(* (db/valsession.py), the requestToken functions of EmailValidator and    *)
(* MsisdnValidator, validateSessionWithToken (validators/common.py) and    *)
(* the servlets that require a validated session.                          *)
(*                                                                         *)
(* One Sydent.  Handlers run to completion, except for the text message    *)
(* that MsisdnValidator awaits.  Times are kept as ages, in units of which *)
(* a session lifetime has Lifetime, and only up to the age at which they   *)
(* make no difference any more, so that time has no bound.  A request that *)
(* changes nothing is no action.                                           *)
(***************************************************************************)
EXTENDS Naturals, FiniteSetsExt

CONSTANTS Email, Phone,  \* the addresses of the two media, as clients spell them
          Fold,          \* str.casefold() on mail addresses
          Secret,        \* client secrets
          Sid,           \* session ids randint(0, 2^31) may return
          Mxid, NoMxid,
          Attempt,       \* send attempts that clients ask for, plus 1
          Lifetime,      \* THREEPID_SESSION_VALID_LIFETIME_MS and
                         \* THREEPID_SESSION_VALIDATION_TIMEOUT_MS, both 24 h
          MaxSessions    \* bound: sessions created

ASSUME SessionsAssumption ==
    /\ Email \cap Phone = {} /\ NoMxid \notin Mxid
    /\ Fold \in [Email -> Email] /\ \A e \in Email : Fold[Fold[e]] = Fold[e]
    /\ Sid \subseteq Nat
    /\ Attempt \subseteq Nat
    /\ {Lifetime, MaxSessions} \subseteq Nat

VARIABLES
    sessions,  \* threepid_validation_sessions, by id
    auths,     \* threepid_token_auths, by id
    created,   \* sessions created so far; the k-th one has token k
    texting,   \* requestToken calls that await sendTextSMS
    bound,     \* the bindings made and not removed through the servlets
    mailed,    \* the addresses each token was sent to
    proven     \* the addresses from which a token was used to validate

vars == <<sessions, auths, created, texting, bound, mailed, proven>>

Address == Email \cup Phone

(* What addBinding and removeBinding make of an address; sessions keep the *)
(* spelling of the client.                                                 *)
normalise_address(a) == IF a \in Email THEN Fold[a] ELSE a

Token == 1..MaxSessions

(* A session older than this is deleted by the next clean-up.              *)
MaxAge == 5 * Lifetime

(* age is time_msec() - mtime.                                             *)
Session == [address : Address, secret : Secret, validated : BOOLEAN,
            age : 0 .. MaxAge + 1]

(* sendAttemptNumber starts at -1, here 0.                                 *)
Auth == [session : Sid, token : Token, attempt : Attempt \cup {0}]

TypeOK ==
    /\ DOMAIN sessions \subseteq Sid
    /\ \A s \in DOMAIN sessions : sessions[s] \in Session
    /\ DOMAIN auths \subseteq 1..MaxSessions
    /\ \A r \in DOMAIN auths : auths[r] \in Auth
    /\ created \in 0..MaxSessions
    /\ texting \subseteq (Sid \X Attempt)
    /\ bound \in [Address -> Mxid \cup {NoMxid}]
    /\ mailed \in [Token -> SUBSET Address]
    /\ proven \subseteq Address

Init ==
    /\ sessions = [s \in {} |-> 0]
    /\ auths = [r \in {} |-> 0]
    /\ created = 0
    /\ texting = {}
    /\ bound = [a \in Address |-> NoMxid]
    /\ mailed = [t \in Token |-> {}]
    /\ proven = {}

-----------------------------------------------------------------------------
(* ThreePidValSessionStore *)

(* The join of the two tables: a session and a row of its token.           *)
Joined(s, r) == s \in DOMAIN sessions /\ r \in DOMAIN auths /\ auths[r].session = s

(* A mutant of Matching: expired sessions are not found.                   *)
MatchingUnexpired(a, c) ==
    {x \in Sid \X DOMAIN auths : /\ Joined(x[1], x[2])
                                 /\ sessions[x[1]].address = a
                                 /\ sessions[x[1]].secret = c
                                 /\ sessions[x[1]].age <= Lifetime}

Matching(a, c) ==
    {x \in Sid \X DOMAIN auths : /\ Joined(x[1], x[2])
                                 /\ sessions[x[1]].address = a
                                 /\ sessions[x[1]].secret = c}

(* An "integer primary key" without AUTOINCREMENT.                         *)
NextRow == IF DOMAIN auths = {} THEN 1 ELSE Max(DOMAIN auths) + 1

(* getOrCreateTokenSession returns session s and row r: ones that match,   *)
(* expired or not, or else new ones.  An id that is taken makes the insert *)
(* and the request fail.                                                   *)
getOrCreateTokenSession(a, c, s, r) ==
    \/ <<s, r>> \in Matching(a, c)
    \/ /\ Matching(a, c) = {}
       /\ s \in Sid \ DOMAIN sessions
       /\ r = NextRow
       /\ created < MaxSessions

IsNew(s) == s \notin DOMAIN sessions

(* The tables once the session is there and setMtime has touched it.       *)
SessionsWith(s, a, c) ==
    [x \in DOMAIN sessions \cup {s} |->
        IF x = s THEN [address |-> a, secret |-> c, age |-> 0,
                       validated |-> ~ IsNew(s) /\ sessions[s].validated]
        ELSE sessions[x]]

(* A mutant of AuthsWith: the number of the token is off by one.           *)
AuthsWithWrongToken(s, r) ==
    [x \in DOMAIN auths \cup {r} |->
        IF x = r /\ IsNew(s) THEN [session |-> s, token |-> created, attempt |-> 0]
        ELSE auths[x]]

AuthsWith(s, r) ==
    [x \in DOMAIN auths \cup {r} |->
        IF x = r /\ IsNew(s) THEN [session |-> s, token |-> created + 1, attempt |-> 0]
        ELSE auths[x]]

(* update threepid_token_auths ... where id = sid: the id of the session   *)
(* is taken for the id of the row.                                         *)
setSendAttemptNumber(tbl, s, n) ==
    [x \in DOMAIN tbl |-> IF x = s THEN [tbl[x] EXCEPT !.attempt = n] ELSE tbl[x]]

(* s.mtime + LIFETIME < time_msec()                                        *)
Expired(s) == Lifetime < sessions[s].age

getValidatedSession(s, c) ==
    /\ s \in DOMAIN sessions
    /\ sessions[s].secret = c
    /\ ~ Expired(s)
    /\ sessions[s].validated

-----------------------------------------------------------------------------
Send(t, a) == mailed' = [mailed EXCEPT ![t] = @ \cup {a}]

(* What both validators do before they send: the session is touched.       *)
Touch(a, c, s, r) ==
    /\ getOrCreateTokenSession(a, c, s, r)
    /\ sessions' = SessionsWith(s, a, c)
    /\ created' = IF IsNew(s) THEN created + 1 ELSE created
    /\ UNCHANGED <<bound, proven>>

(* requestToken of either validator: "Not mailing code".                   *)
RequestTokenAgain(a, c, n, s, r) ==
    /\ Touch(a, c, s, r)
    /\ AuthsWith(s, r)[r].attempt >= n
    /\ auths' = AuthsWith(s, r)
    /\ UNCHANGED <<texting, mailed>>

(* EmailValidator.requestToken; sendEmail raises an exception or not, and  *)
(* whether the mail arrives is another matter.                             *)
RequestEmail(a, c, n, s, r, ok, arrives) ==
    /\ a \in Email
    /\ Touch(a, c, s, r)
    /\ AuthsWith(s, r)[r].attempt < n
    /\ auths' = IF ok THEN setSendAttemptNumber(AuthsWith(s, r), s, n)
                 ELSE AuthsWith(s, r)
    /\ IF arrives THEN Send(AuthsWith(s, r)[r].token, a) ELSE UNCHANGED mailed
    /\ UNCHANGED texting

(* sendTextSMS is called and awaited.                                      *)
sendTextSMS(s, n, t, a, arrives) ==
    /\ texting' = texting \cup {<<s, n>>}
    /\ IF arrives THEN Send(t, a) ELSE UNCHANGED mailed

(* MsisdnRequestCodeServlet.render_POST and MsisdnValidator.requestToken   *)
(* up to the await                                                         *)
RequestText(a, c, n, s, r, arrives) ==
    /\ a \in Phone
    /\ Touch(a, c, s, r)
    /\ AuthsWith(s, r)[r].attempt < n
    /\ auths' = AuthsWith(s, r)
    /\ sendTextSMS(s, n, AuthsWith(s, r)[r].token, a, arrives)

(* The await ends, with an exception or without.                           *)
TextDone(s, n, ok) ==
    /\ <<s, n>> \in texting
    /\ texting' = texting \ {<<s, n>>}
    /\ auths' = IF ok THEN setSendAttemptNumber(auths, s, n) ELSE auths
    /\ UNCHANGED <<sessions, created, bound, mailed, proven>>

(* validateSessionWithToken, with the token of row r                       *)
validateSessionWithToken(s, r, c) ==
    /\ Joined(s, r)
    /\ sessions[s].secret = c
    /\ ~ Expired(s)
    /\ sessions' = [sessions EXCEPT ![s].validated = TRUE]

(* do_validate_request of either servlet: the medium of the session is not *)
(* asked for.  The token comes from someone who received it.               *)
Submit(s, r, c) ==
    /\ r \in DOMAIN auths
    /\ mailed[auths[r].token] # {}
    /\ validateSessionWithToken(s, r, c)
    /\ proven' = proven \cup mailed[auths[r].token]
    /\ UNCHANGED <<auths, created, texting, bound, mailed>>

(* ThreePidBindServlet.render_POST                                         *)
Bind(s, c, m) ==
    /\ getValidatedSession(s, c)
    /\ bound' = [bound EXCEPT ![normalise_address(sessions[s].address)] = m]
    /\ UNCHANGED <<sessions, auths, created, texting, mailed, proven>>

(* ThreePidUnbindServlet._async_render_POST: of a client that has the      *)
(* session of the address, or of the homeserver of the mxid.               *)
Unbind(a, m) ==
    /\ bound[normalise_address(a)] = m
    /\ bound' = [bound EXCEPT ![normalise_address(a)] = NoMxid]
    /\ UNCHANGED <<sessions, auths, created, texting, mailed, proven>>

UnbindWithSession(s, c, a, m) ==
    /\ getValidatedSession(s, c)
    /\ sessions[s].address = a
    /\ Unbind(a, m)

(* Mutants of deleteOldSessions: one leaves the rows of the tokens behind, *)
(* the other cuts off one lifetime too early.                              *)
deleteOldSessionsOnly ==
    LET kept == {s \in DOMAIN sessions : sessions[s].age <= MaxAge}
    IN  /\ sessions' = [s \in kept |-> sessions[s]]
        /\ UNCHANGED <<auths, created, texting, bound, mailed, proven>>

deleteYoungSessions ==
    LET kept == {s \in DOMAIN sessions : sessions[s].age < Lifetime}
    IN  /\ sessions' = [s \in kept |-> sessions[s]]
        /\ auths' = [r \in {x \in DOMAIN auths : auths[x].session \in kept} |-> auths[r]]
        /\ UNCHANGED <<created, texting, bound, mailed, proven>>

(* deleteOldSessions, of the LoopingCall of every ten minutes              *)
deleteOldSessions ==
    LET kept == {s \in DOMAIN sessions : sessions[s].age <= MaxAge}
    IN  /\ sessions' = [s \in kept |-> sessions[s]]
        /\ auths' = [r \in {x \in DOMAIN auths : auths[x].session \in kept} |-> auths[r]]
        /\ UNCHANGED <<created, texting, bound, mailed, proven>>

Restart ==
    /\ texting # {}
    /\ texting' = {}
    /\ UNCHANGED <<sessions, auths, created, bound, mailed, proven>>

(* Time passes.                                                            *)
Tick ==
    /\ sessions' = [s \in DOMAIN sessions |->
                        [sessions[s] EXCEPT !.age = IF @ > MaxAge THEN @ ELSE @ + 1]]
    /\ UNCHANGED <<auths, created, texting, bound, mailed, proven>>

Next ==
    \/ \E a \in Address, c \in Secret, n \in Attempt, s \in Sid, r \in 1..MaxSessions :
          \/ RequestTokenAgain(a, c, n, s, r)
          \/ \E arrives \in BOOLEAN :
                \/ \E ok \in BOOLEAN : RequestEmail(a, c, n, s, r, ok, arrives)
                \/ RequestText(a, c, n, s, r, arrives)
    \/ \E x \in texting, ok \in BOOLEAN : TextDone(x[1], x[2], ok)
    \/ \E s \in Sid, c \in Secret :
          \/ \E r \in DOMAIN auths : Submit(s, r, c)
          \/ \E m \in Mxid : \/ Bind(s, c, m)
                             \/ \E a \in Address : UnbindWithSession(s, c, a, m)
    \/ \E a \in Address, m \in Mxid : Unbind(a, m)
    \/ deleteOldSessions
    \/ Restart
    \/ Tick

Spec == Init /\ [][Next]_vars

-----------------------------------------------------------------------------
(* Properties *)

(* addBinding: "It's assumed that we have somehow validated that the given *)
(* user owns the given 3pid".  An address is bound only if someone who had *)
(* received a token at that address, up to its case, used it, although     *)
(* session ids are reused, old sessions are deleted and sessions serve     *)
(* several requests.                                                       *)
BoundWasProven ==
    \A a \in Address :
        bound[a] # NoMxid => \E b \in proven : normalise_address(b) = a

(* A session has one token row and a row one session, so that the joins    *)
(* of getOrCreateTokenSession and getTokenSessionById find one row; and no *)
(* two sessions share an address and a secret.                             *)
OneTokenPerSession ==
    /\ \A s \in DOMAIN sessions : \E r \in DOMAIN auths : Joined(s, r)
    /\ \A r, q \in DOMAIN auths :
          /\ auths[r].session \in DOMAIN sessions
          /\ auths[r].session = auths[q].session => r = q
    /\ \A s, t \in DOMAIN sessions :
          (/\ sessions[s].address = sessions[t].address
           /\ sessions[s].secret = sessions[t].secret) => s = t

(* A session that a client may still use for a bind is never deleted by    *)
(* the clean-up.                                                           *)
UsableSessionsStay ==
    [][\A s \in DOMAIN sessions, c \in Secret :
          getValidatedSession(s, c) => s \in DOMAIN sessions']_vars
=============================================================================
