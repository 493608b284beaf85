---------------------------- MODULE SessionsProofs ----------------------------
(***************************************************************************)
(* Theorems about ValidationSessions, for all addresses, secrets, session  *)
(* ids, send attempts and lifetimes and for any number of sessions.        *)
(***************************************************************************)
EXTENDS ValidationSessions, WellFoundedInduction, TLAPS

(* The k-th session created draws the k-th token, so that no two rows have *)
(* the same one and those to come have not been sent.                      *)
TokensAreDrawnOnce ==
    /\ \A r \in DOMAIN auths : auths[r].token <= created
    /\ \A r, q \in DOMAIN auths : auths[r].token = auths[q].token => r = q
    /\ \A t \in Token : t > created => mailed[t] = {}

(* A token is sent to no other address than that of its session.           *)
SentToOwner ==
    \A r \in DOMAIN auths :
        mailed[auths[r].token] \subseteq {sessions[auths[r].session].address}

(* A session is validated only once its address is proven.                 *)
ValidatedIsProven ==
    \A s \in DOMAIN sessions : sessions[s].validated => sessions[s].address \in proven

SessionsInv ==
    /\ TypeOK
    /\ OneTokenPerSession
    /\ TokensAreDrawnOnce
    /\ SentToOwner
    /\ ValidatedIsProven
    /\ BoundWasProven

-----------------------------------------------------------------------------
(* Rows of the tables *)

LEMMA LeastOf ==
    ASSUME NEW S \in SUBSET Nat, S # {}
    PROVE  \E k \in S : \A i \in S : k <= i
<1>1. PICK k \in S : \A i \in S : ~ (<<i, k>> \in OpToRel(<, Nat))
  BY NatLessThanWellFounded, WFMin
<1>2. \A i \in S : ~ (i < k)
  BY <1>1 DEF OpToRel
<1> QED
  BY <1>2

(* The id of the next row is one that no row has.                          *)
LEMMA NextRowIsFree ==
    ASSUME TypeOK
    PROVE  NextRow \notin DOMAIN auths
<1> DEFINE S == DOMAIN auths
           U == {m \in Nat : \A i \in S : i <= m}
<1>1. S \subseteq Nat /\ MaxSessions \in U
  BY SessionsAssumption DEF TypeOK
<1>2. CASE S = {}
  BY <1>2
<1>3. CASE S # {}
  <2>1. PICK k \in U : \A m \in U : k <= m
    BY <1>1, LeastOf
  <2>2. PICK j \in S : TRUE
    BY <1>3
  <2> HIDE DEF S
  <2>3. k \in S
    <3> SUFFICES ASSUME k \notin S PROVE FALSE
      OBVIOUS
    <3>1. k \in Nat /\ \A i \in S : i \in Nat /\ i <= k /\ i # k
      BY <1>1
    <3>2. k - 1 \in Nat
      BY <2>2, <3>1
    <3>3. \A i \in S : i <= k - 1
      BY <3>1, <3>2
    <3>4. k - 1 \in U
      BY <3>2, <3>3
    <3> QED
      BY <2>1, <3>1, <3>4
  <2>4. /\ Max(S) \in S
        /\ \A i \in S : i <= Max(S)
    BY <1>1, <2>3 DEF Max
  <2>5. Max(S) + 1 \notin S
    <3>1. ASSUME NEW m \in S, m + 1 \in S PROVE ~ (m + 1 <= m)
      BY <1>1, <3>1
    <3> QED
      BY <2>4, <3>1
  <2>6. NextRow = Max(S) + 1
    BY <1>3 DEF NextRow, S
  <2> QED
    BY <2>5, <2>6 DEF S
<1> QED
  BY <1>2, <1>3

(* update threepid_token_auths changes no token and no session.            *)
LEMMA AttemptsOnly ==
    ASSUME NEW tbl, NEW s, NEW n \in Attempt,
           \A r \in DOMAIN tbl : tbl[r] \in Auth
    PROVE  /\ DOMAIN setSendAttemptNumber(tbl, s, n) = DOMAIN tbl
           /\ \A r \in DOMAIN tbl :
                /\ setSendAttemptNumber(tbl, s, n)[r] \in Auth
                /\ setSendAttemptNumber(tbl, s, n)[r].session = tbl[r].session
                /\ setSendAttemptNumber(tbl, s, n)[r].token = tbl[r].token
<1> DEFINE upd == setSendAttemptNumber(tbl, s, n)
<1>1. DOMAIN upd = DOMAIN tbl
  BY DEF setSendAttemptNumber
<1>2. ASSUME NEW r \in DOMAIN tbl
      PROVE  upd[r] \in Auth /\ upd[r].session = tbl[r].session /\ upd[r].token = tbl[r].token
  <2>1. upd[r] = IF r = s THEN [tbl[r] EXCEPT !.attempt = n] ELSE tbl[r]
    BY DEF setSendAttemptNumber
  <2>2. tbl[r] \in Auth
    OBVIOUS
  <2> QED
    BY <2>1, <2>2 DEF Auth
<1> QED
  BY <1>1, <1>2

(* getOrCreateTokenSession finds the row of a session that is there, or    *)
(* adds one of each under ids that are free.                               *)
LEMMA FoundOrNew ==
    ASSUME SessionsInv, NEW a \in Address, NEW c \in Secret, NEW s \in Sid,
           NEW r \in 1..MaxSessions, getOrCreateTokenSession(a, c, s, r)
    PROVE  \/ /\ Joined(s, r) /\ ~ IsNew(s)
              /\ sessions[s].address = a /\ sessions[s].secret = c
           \/ /\ IsNew(s) /\ r \notin DOMAIN auths /\ created < MaxSessions
              /\ \A t \in DOMAIN sessions : ~ (/\ sessions[t].address = a
                                              /\ sessions[t].secret = c)
<1>1. CASE <<s, r>> \in Matching(a, c)
  BY <1>1 DEF Matching, Joined, IsNew
<1>2. CASE /\ Matching(a, c) = {} /\ s \in Sid \ DOMAIN sessions
           /\ r = NextRow /\ created < MaxSessions
  <2>1. r \notin DOMAIN auths
    BY <1>2, NextRowIsFree DEF SessionsInv
  <2>2. ASSUME NEW t \in DOMAIN sessions, sessions[t].address = a, sessions[t].secret = c
        PROVE  FALSE
    <3>1. PICK q \in DOMAIN auths : Joined(t, q)
      BY DEF SessionsInv, OneTokenPerSession
    <3>2. t \in Sid
      BY DEF SessionsInv, TypeOK
    <3>3. <<t, q>> \in Matching(a, c)
      BY <2>2, <3>1, <3>2 DEF Matching
    <3> QED
      BY <1>2, <3>3
  <2> QED
    BY <1>2, <2>1, <2>2 DEF IsNew
<1> QED
  BY <1>1, <1>2 DEF getOrCreateTokenSession

-----------------------------------------------------------------------------
(* A step that creates no session, draws no token and sends none: it may   *)
(* drop sessions with their rows, age them, validate those whose address   *)
(* is then proven, and bind addresses that are proven.                     *)
LEMMA NothingDrawn ==
    ASSUME SessionsInv, TypeOK', UNCHANGED <<created, mailed>>,
           DOMAIN sessions' \subseteq DOMAIN sessions,
           \A s \in DOMAIN sessions' :
              /\ sessions'[s].address = sessions[s].address
              /\ sessions'[s].secret = sessions[s].secret
              /\ sessions'[s].validated =>
                    sessions[s].validated \/ sessions[s].address \in proven',
           \A r : r \in DOMAIN auths' <=>
                    r \in DOMAIN auths /\ auths[r].session \in DOMAIN sessions',
           \A r \in DOMAIN auths' : /\ auths'[r].session = auths[r].session
                                    /\ auths'[r].token = auths[r].token,
           proven \subseteq proven',
           \A a \in Address : bound'[a] # NoMxid =>
              \/ bound'[a] = bound[a]
              \/ \E b \in proven' : normalise_address(b) = a
    PROVE  SessionsInv'
<1>1. OneTokenPerSession'
  BY DEF SessionsInv, OneTokenPerSession, Joined
<1>2. TokensAreDrawnOnce'
  BY DEF SessionsInv, TokensAreDrawnOnce
<1>3. SentToOwner'
  <2> SUFFICES ASSUME NEW r \in DOMAIN auths'
               PROVE  mailed[auths[r].token] \subseteq {sessions[auths[r].session].address}
    BY DEF SentToOwner
  <2> QED
    BY DEF SessionsInv, SentToOwner
<1>4. ValidatedIsProven'
  BY DEF SessionsInv, ValidatedIsProven
<1>5. BoundWasProven'
  BY DEF SessionsInv, BoundWasProven, normalise_address
<1> QED
  BY <1>1, <1>2, <1>3, <1>4, <1>5 DEF SessionsInv

-----------------------------------------------------------------------------
(* The tables of both validators before they send: all rows are those of   *)
(* before, but for the new one, and row r is one of session s.             *)
LEMMA TouchedTables ==
    ASSUME SessionsInv, NEW a \in Address, NEW c \in Secret, NEW s \in Sid,
           NEW r \in 1..MaxSessions, Touch(a, c, s, r)
    PROVE  /\ \A x \in DOMAIN AuthsWith(s, r) : AuthsWith(s, r)[x] \in Auth
           /\ DOMAIN AuthsWith(s, r) = DOMAIN auths \cup {r}
           /\ AuthsWith(s, r)[r].session = s
           /\ AuthsWith(s, r)[r].token <= created'
           /\ IsNew(s) => AuthsWith(s, r)[r].token > created
           /\ ~ IsNew(s) => r \in DOMAIN auths
           /\ \A x \in DOMAIN auths : AuthsWith(s, r)[x] = auths[x]
<1>1. created \in 0..MaxSessions /\ \A x \in DOMAIN auths : auths[x] \in Auth
  BY DEF SessionsInv, TypeOK
<1>2. /\ DOMAIN AuthsWith(s, r) = DOMAIN auths \cup {r}
      /\ \A x \in DOMAIN auths \cup {r} : AuthsWith(s, r)[x] =
           IF x = r /\ IsNew(s) THEN [session |-> s, token |-> created + 1, attempt |-> 0]
           ELSE auths[x]
  BY DEF AuthsWith
<1>3. created' = IF IsNew(s) THEN created + 1 ELSE created
  BY DEF Touch
<1>4. CASE ~ IsNew(s) /\ Joined(s, r)
  <2>1. r \in DOMAIN auths /\ auths[r].session = s /\ auths[r].token <= created
    BY <1>4 DEF Joined, SessionsInv, TokensAreDrawnOnce
  <2> QED
    BY <1>1, <1>2, <1>3, <1>4, <2>1
<1>5. CASE IsNew(s) /\ r \notin DOMAIN auths /\ created < MaxSessions
  <2>1. /\ AuthsWith(s, r)[r] = [session |-> s, token |-> created + 1, attempt |-> 0]
        /\ \A x \in DOMAIN auths : AuthsWith(s, r)[x] = auths[x]
    BY <1>2, <1>5
  <2>2. created + 1 \in Token /\ created + 1 > created /\ created + 1 <= created + 1
    BY <1>1, <1>5, SessionsAssumption DEF Token
  <2>3. AuthsWith(s, r)[r] \in Auth
    BY <2>1, <2>2 DEF Auth
  <2> QED
    BY <1>1, <1>2, <1>3, <1>5, <2>1, <2>2, <2>3
<1> QED
  BY <1>4, <1>5, FoundOrNew DEF Touch

(* A request for a token, whether it is sent or not: the session and its   *)
(* row may be new, the token may go to the address of the session.         *)
LEMMA TouchStep ==
    ASSUME SessionsInv, NEW a \in Address, NEW c \in Secret, NEW s \in Sid,
           NEW r \in 1..MaxSessions, Touch(a, c, s, r),
           DOMAIN auths' = DOMAIN AuthsWith(s, r),
           \A x \in DOMAIN auths' : /\ auths'[x] \in Auth
                                    /\ auths'[x].session = AuthsWith(s, r)[x].session
                                    /\ auths'[x].token = AuthsWith(s, r)[x].token,
           mailed' = mailed \/ Send(AuthsWith(s, r)[r].token, a),
           texting' \subseteq Sid \X Attempt
    PROVE  SessionsInv'
<1> DEFINE k == AuthsWith(s, r)[r].token
<1>1. /\ DOMAIN auths' = DOMAIN auths \cup {r}
      /\ auths'[r].session = s /\ auths'[r].token = k
      /\ k \in Token /\ k <= created'
      /\ IsNew(s) => k > created
      /\ ~ IsNew(s) => r \in DOMAIN auths
      /\ \A x \in DOMAIN auths : /\ auths'[x].session = auths[x].session
                                 /\ auths'[x].token = auths[x].token
  BY TouchedTables, SMTT(30) DEF Auth
<1>2. \/ /\ Joined(s, r) /\ ~ IsNew(s)
         /\ sessions[s].address = a /\ sessions[s].secret = c
      \/ /\ IsNew(s) /\ r \notin DOMAIN auths /\ created < MaxSessions
         /\ \A t \in DOMAIN sessions : ~ (/\ sessions[t].address = a
                                         /\ sessions[t].secret = c)
  BY FoundOrNew DEF Touch
<1>3. /\ created \in 0..MaxSessions
      /\ created' = IF IsNew(s) THEN created + 1 ELSE created
      /\ created' \in 0..MaxSessions /\ created <= created'
  BY <1>2, SessionsAssumption DEF SessionsInv, TypeOK, Touch
<1>4. /\ DOMAIN sessions' = DOMAIN sessions \cup {s}
      /\ sessions'[s].address = a /\ sessions'[s].secret = c
      /\ sessions'[s].validated => ~ IsNew(s) /\ sessions[s].validated
      /\ sessions'[s] \in Session
      /\ \A t \in DOMAIN sessions \ {s} : sessions'[t] = sessions[t]
  <2>1. sessions' = SessionsWith(s, a, c)
    BY DEF Touch
  <2>2. sessions'[s] = [address |-> a, secret |-> c, age |-> 0,
                        validated |-> ~ IsNew(s) /\ sessions[s].validated]
    BY <2>1 DEF SessionsWith
  <2>3. 0 \in 0 .. MaxAge + 1
    BY SessionsAssumption DEF MaxAge
  <2>4. (~ IsNew(s) /\ sessions[s].validated) \in BOOLEAN
    OBVIOUS
  <2> QED
    BY <2>1, <2>2, <2>3, <2>4 DEF SessionsWith, Session
<1>5. /\ mailed \in [Token -> SUBSET Address]
      /\ \/ mailed' = mailed
         \/ mailed' = [mailed EXCEPT ![k] = mailed[k] \cup {a}]
  BY DEF SessionsInv, TypeOK, Send
<1> HIDE DEF k
<1>6. TypeOK'
  <2>1. bound' = bound /\ proven' = proven
    BY DEF Touch
  <2>2. mailed' \in [Token -> SUBSET Address]
    BY <1>1, <1>5
  <2> QED
    BY <1>1, <1>3, <1>4, <2>1, <2>2 DEF SessionsInv, TypeOK, Token
<1>7. OneTokenPerSession'
  <2>1. \A t \in DOMAIN sessions' : \E x \in DOMAIN auths' : auths'[x].session = t
    BY <1>1, <1>4 DEF SessionsInv, OneTokenPerSession, Joined
  <2>2. \A x \in DOMAIN auths' : auths'[x].session \in DOMAIN sessions'
    BY <1>1, <1>4 DEF SessionsInv, OneTokenPerSession
  <2>3. \A x, y \in DOMAIN auths' : auths'[x].session = auths'[y].session => x = y
    BY <1>1, <1>2 DEF SessionsInv, OneTokenPerSession, Joined, IsNew
  <2>4. \A t, u \in DOMAIN sessions' :
          (/\ sessions'[t].address = sessions'[u].address
           /\ sessions'[t].secret = sessions'[u].secret) => t = u
    BY <1>2, <1>4 DEF SessionsInv, OneTokenPerSession, IsNew
  <2> QED
    BY <2>1, <2>2, <2>3, <2>4 DEF OneTokenPerSession, Joined
<1>8. TokensAreDrawnOnce'
  <2>1. \A x \in DOMAIN auths : auths[x].token \in Token /\ auths[x].token <= created
    BY DEF SessionsInv, TypeOK, TokensAreDrawnOnce, Auth
  <2>2. \A x \in DOMAIN auths' : auths'[x].token <= created'
    BY <1>1, <1>3, <2>1, SessionsAssumption DEF Token
  <2>3. \A x, y \in DOMAIN auths' : auths'[x].token = auths'[y].token => x = y
    <3>1. \A x \in DOMAIN auths : IsNew(s) => auths[x].token # k
      BY <1>1, <1>3, <2>1, SessionsAssumption DEF Token
    <3> QED
      BY <1>1, <1>2, <3>1 DEF SessionsInv, TokensAreDrawnOnce, Joined
  <2>4. ASSUME NEW t \in Token, t > created' PROVE mailed'[t] = {}
    <3>1. t > created /\ t # k
      BY <1>1, <1>3, <2>4, SessionsAssumption DEF Token
    <3>2. mailed[t] = {}
      BY <3>1 DEF SessionsInv, TokensAreDrawnOnce
    <3> QED
      BY <1>5, <3>1, <3>2
  <2> QED
    BY <2>2, <2>3, <2>4 DEF TokensAreDrawnOnce
<1>9. SentToOwner'
  <2>1. mailed[k] \subseteq {a}
    BY <1>1, <1>2 DEF SessionsInv, TokensAreDrawnOnce, SentToOwner, Joined
  <2>2. mailed'[k] \subseteq {a} /\ \A t \in Token \ {k} : mailed'[t] = mailed[t]
    BY <1>1, <1>5, <2>1
  <2>3. ASSUME NEW x \in DOMAIN auths'
        PROVE  mailed'[auths'[x].token] \subseteq {sessions'[auths'[x].session].address}
    <3>1. CASE x = r
      BY <1>1, <1>4, <2>2, <3>1
    <3>2. CASE x # r
      <4>1. x \in DOMAIN auths /\ auths'[x].token = auths[x].token
                              /\ auths'[x].session = auths[x].session
        BY <1>1, <3>2
      <4>2. auths[x].token # k /\ auths[x].token \in Token
        BY <1>1, <3>2, <1>8, <4>1 DEF TokensAreDrawnOnce, Auth
      <4>3. auths[x].session # s /\ auths[x].session \in DOMAIN sessions
        BY <1>1, <3>2, <1>7, <4>1 DEF SessionsInv, OneTokenPerSession
      <4> QED
        BY <1>4, <2>2, <4>1, <4>2, <4>3 DEF SessionsInv, SentToOwner
    <3> QED
      BY <3>1, <3>2
  <2> QED
    BY <2>3 DEF SentToOwner
<1>10. ValidatedIsProven'
  BY <1>2, <1>4 DEF SessionsInv, ValidatedIsProven, IsNew, Touch
<1>11. BoundWasProven'
  BY DEF SessionsInv, BoundWasProven, Touch, normalise_address
<1> QED
  BY <1>6, <1>7, <1>8, <1>9, <1>10, <1>11 DEF SessionsInv

(* The three handlers that request a token                                 *)
LEMMA RequestStep ==
    ASSUME SessionsInv, NEW a \in Address, NEW c \in Secret, NEW n \in Attempt,
           NEW s \in Sid, NEW r \in 1..MaxSessions,
           \/ RequestTokenAgain(a, c, n, s, r)
           \/ \E arrives \in BOOLEAN :
                 \/ \E ok \in BOOLEAN : RequestEmail(a, c, n, s, r, ok, arrives)
                 \/ RequestText(a, c, n, s, r, arrives)
    PROVE  SessionsInv'
<1>1. Touch(a, c, s, r)
  BY DEF RequestTokenAgain, RequestEmail, RequestText
<1>2. \A x \in DOMAIN AuthsWith(s, r) : AuthsWith(s, r)[x] \in Auth
  BY <1>1, TouchedTables
<1>3. \/ auths' = AuthsWith(s, r)
      \/ auths' = setSendAttemptNumber(AuthsWith(s, r), s, n)
  BY DEF RequestTokenAgain, RequestEmail, RequestText
<1>4. /\ DOMAIN auths' = DOMAIN AuthsWith(s, r)
      /\ \A x \in DOMAIN auths' : /\ auths'[x] \in Auth
                                  /\ auths'[x].session = AuthsWith(s, r)[x].session
                                  /\ auths'[x].token = AuthsWith(s, r)[x].token
  BY <1>2, <1>3, AttemptsOnly
<1>5. mailed' = mailed \/ Send(AuthsWith(s, r)[r].token, a)
  BY DEF RequestTokenAgain, RequestEmail, RequestText, sendTextSMS
<1>6. texting' \subseteq Sid \X Attempt
  <2>1. texting' = texting \/ texting' = texting \cup {<<s, n>>}
    BY DEF RequestTokenAgain, RequestEmail, RequestText, sendTextSMS
  <2> QED
    BY <2>1 DEF SessionsInv, TypeOK
<1> QED
  BY <1>1, <1>4, <1>5, <1>6, TouchStep

LEMMA TextDoneStep ==
    ASSUME SessionsInv, NEW x \in texting, NEW ok \in BOOLEAN, TextDone(x[1], x[2], ok)
    PROVE  SessionsInv'
<1>1. /\ UNCHANGED <<sessions, created, bound, mailed, proven>>
      /\ texting' \subseteq texting
      /\ \/ auths' = auths
         \/ auths' = setSendAttemptNumber(auths, x[1], x[2])
  BY DEF TextDone
<1>2. x[2] \in Attempt /\ \A r \in DOMAIN auths : auths[r] \in Auth
  BY DEF SessionsInv, TypeOK
<1>3. /\ DOMAIN auths' = DOMAIN auths
      /\ \A r \in DOMAIN auths' : /\ auths'[r] \in Auth
                                  /\ auths'[r].session = auths[r].session
                                  /\ auths'[r].token = auths[r].token
  BY <1>1, <1>2, AttemptsOnly
<1>4. TypeOK'
  BY <1>1, <1>3 DEF SessionsInv, TypeOK
<1>5. \A r : r \in DOMAIN auths' <=> r \in DOMAIN auths /\ auths[r].session \in DOMAIN sessions'
  BY <1>1, <1>3 DEF SessionsInv, OneTokenPerSession
<1> QED
  BY <1>1, <1>3, <1>4, <1>5, NothingDrawn

(* A step that leaves the token rows alone and no session without its own. *)
LEMMA RowsAlone ==
    ASSUME SessionsInv, auths' = auths, DOMAIN sessions' = DOMAIN sessions
    PROVE  \A r : r \in DOMAIN auths' <=>
                    r \in DOMAIN auths /\ auths[r].session \in DOMAIN sessions'
  BY DEF SessionsInv, OneTokenPerSession

(* The address that the submitted token was sent to is that of the session *)
(* it validates.                                                           *)
LEMMA SubmitStep ==
    ASSUME SessionsInv, NEW s \in Sid, NEW c \in Secret, NEW r \in DOMAIN auths,
           Submit(s, r, c)
    PROVE  SessionsInv'
<1>1. /\ UNCHANGED <<auths, created, texting, bound, mailed>>
      /\ s \in DOMAIN sessions /\ auths[r].session = s
      /\ sessions' = [sessions EXCEPT ![s].validated = TRUE]
      /\ mailed[auths[r].token] # {}
      /\ proven' = proven \cup mailed[auths[r].token]
  BY DEF Submit, validateSessionWithToken, Joined
<1>2. \A t \in DOMAIN sessions : sessions[t] \in Session
  BY DEF SessionsInv, TypeOK
<1>3. /\ DOMAIN sessions' = DOMAIN sessions
      /\ \A t \in DOMAIN sessions : /\ sessions'[t] \in Session
                                    /\ sessions'[t].address = sessions[t].address
                                    /\ sessions'[t].secret = sessions[t].secret
                                    /\ t # s => sessions'[t] = sessions[t]
  BY <1>1, <1>2 DEF Session
<1>4. mailed[auths[r].token] = {sessions[s].address}
  BY <1>1 DEF SessionsInv, SentToOwner
<1>5. sessions[s].address \in proven' /\ proven' \subseteq Address
  BY <1>1, <1>2, <1>4 DEF SessionsInv, TypeOK, Session
<1>6. TypeOK'
  BY <1>1, <1>3, <1>5 DEF SessionsInv, TypeOK
<1> QED
  BY <1>1, <1>3, <1>5, <1>6, RowsAlone, NothingDrawn

LEMMA NormaliseType ==
    ASSUME NEW a \in Address PROVE normalise_address(a) \in Address
  BY SessionsAssumption DEF normalise_address, Address

LEMMA BindStep ==
    ASSUME SessionsInv, NEW s \in Sid, NEW c \in Secret, NEW m \in Mxid, Bind(s, c, m)
    PROVE  SessionsInv'
<1>1. /\ UNCHANGED <<sessions, auths, created, texting, mailed, proven>>
      /\ s \in DOMAIN sessions /\ sessions[s].validated
      /\ bound' = [bound EXCEPT ![normalise_address(sessions[s].address)] = m]
  BY DEF Bind, getValidatedSession
<1>2. sessions[s].address \in Address /\ sessions[s].address \in proven
  BY <1>1 DEF SessionsInv, TypeOK, Session, ValidatedIsProven
<1>3. \A a \in Address : bound'[a] = bound[a] \/ \E b \in proven' : normalise_address(b) = a
  BY <1>1, <1>2 DEF SessionsInv, TypeOK
<1>4. TypeOK'
  BY <1>1, <1>2, NormaliseType DEF SessionsInv, TypeOK
<1> QED
  BY <1>1, <1>3, <1>4, RowsAlone, NothingDrawn

LEMMA UnbindStep ==
    ASSUME SessionsInv, NEW a \in Address, NEW m \in Mxid, Unbind(a, m)
    PROVE  SessionsInv'
<1>1. /\ UNCHANGED <<sessions, auths, created, texting, mailed, proven>>
      /\ bound' = [bound EXCEPT ![normalise_address(a)] = NoMxid]
  BY DEF Unbind
<1>2. \A b \in Address : bound'[b] = bound[b] \/ bound'[b] = NoMxid
  BY <1>1 DEF SessionsInv, TypeOK
<1>3. TypeOK'
  BY <1>1, NormaliseType DEF SessionsInv, TypeOK
<1> QED
  BY <1>1, <1>2, <1>3, RowsAlone, NothingDrawn

LEMMA DeleteStep ==
    ASSUME SessionsInv, deleteOldSessions
    PROVE  SessionsInv'
<1> DEFINE kept == {s \in DOMAIN sessions : sessions[s].age <= MaxAge}
<1>1. /\ UNCHANGED <<created, texting, bound, mailed, proven>>
      /\ DOMAIN sessions' = kept /\ \A s \in kept : sessions'[s] = sessions[s]
      /\ DOMAIN auths' = {x \in DOMAIN auths : auths[x].session \in kept}
      /\ \A r \in DOMAIN auths' : auths'[r] = auths[r]
  BY DEF deleteOldSessions
<1>2. TypeOK'
  BY <1>1 DEF SessionsInv, TypeOK
<1> QED
  BY <1>1, <1>2, NothingDrawn

LEMMA TickStep ==
    ASSUME SessionsInv, Tick
    PROVE  SessionsInv'
<1>1. /\ UNCHANGED <<auths, created, texting, bound, mailed, proven>>
      /\ sessions' = [s \in DOMAIN sessions |->
                        [sessions[s] EXCEPT !.age = IF @ > MaxAge THEN @ ELSE @ + 1]]
  BY DEF Tick
<1>2. \A s \in DOMAIN sessions : sessions[s] \in Session
  BY DEF SessionsInv, TypeOK
<1>3. MaxAge \in Nat
  BY SessionsAssumption DEF MaxAge
<1>4. /\ DOMAIN sessions' = DOMAIN sessions
      /\ \A s \in DOMAIN sessions : /\ sessions'[s] \in Session
                                    /\ sessions'[s].address = sessions[s].address
                                    /\ sessions'[s].secret = sessions[s].secret
                                    /\ sessions'[s].validated = sessions[s].validated
  BY <1>1, <1>2, <1>3 DEF Session
<1>5. TypeOK'
  BY <1>1, <1>4 DEF SessionsInv, TypeOK
<1> QED
  BY <1>1, <1>4, <1>5, RowsAlone, NothingDrawn

-----------------------------------------------------------------------------
LEMMA InitSessions == Init => SessionsInv
<1> SUFFICES ASSUME Init PROVE SessionsInv
  OBVIOUS
<1>1. DOMAIN sessions = {} /\ DOMAIN auths = {}
  BY DEF Init
<1>2. TypeOK
  BY <1>1, SessionsAssumption DEF Init, TypeOK
<1> QED
  BY <1>1, <1>2 DEF Init, SessionsInv, OneTokenPerSession, TokensAreDrawnOnce, SentToOwner,
                    ValidatedIsProven, BoundWasProven

LEMMA NextSessions == SessionsInv /\ [Next]_vars => SessionsInv'
<1> SUFFICES ASSUME SessionsInv, [Next]_vars PROVE SessionsInv'
  OBVIOUS
<1>1. ASSUME NEW a \in Address, NEW c \in Secret, NEW n \in Attempt,
             NEW s \in Sid, NEW r \in 1..MaxSessions,
             \/ RequestTokenAgain(a, c, n, s, r)
             \/ \E arrives \in BOOLEAN :
                   \/ \E ok \in BOOLEAN : RequestEmail(a, c, n, s, r, ok, arrives)
                   \/ RequestText(a, c, n, s, r, arrives)
      PROVE  SessionsInv'
  BY <1>1, RequestStep
<1>2. ASSUME NEW x \in texting, NEW ok \in BOOLEAN, TextDone(x[1], x[2], ok)
      PROVE  SessionsInv'
  BY <1>2, TextDoneStep
<1>3. ASSUME NEW s \in Sid, NEW c \in Secret,
             NEW r \in DOMAIN auths, Submit(s, r, c)
      PROVE  SessionsInv'
  BY <1>3, SubmitStep
<1>4. ASSUME NEW s \in Sid, NEW c \in Secret, NEW m \in Mxid, Bind(s, c, m)
      PROVE  SessionsInv'
  BY <1>4, BindStep
<1>5. ASSUME NEW a \in Address, NEW m \in Mxid,
             Unbind(a, m) \/ \E s \in Sid, c \in Secret : UnbindWithSession(s, c, a, m)
      PROVE  SessionsInv'
  BY <1>5, UnbindStep DEF UnbindWithSession
<1>6. CASE deleteOldSessions
  BY <1>6, DeleteStep
<1>7. CASE Restart \/ UNCHANGED vars
  <2>1. /\ UNCHANGED <<sessions, auths, created, bound, mailed, proven>>
        /\ texting' \subseteq texting
    BY <1>7 DEF Restart, vars
  <2>2. TypeOK'
    BY <2>1 DEF SessionsInv, TypeOK
  <2> QED
    BY <2>1, <2>2, RowsAlone, NothingDrawn
<1>8. CASE Tick
  BY <1>8, TickStep
<1> QED
  BY <1>1, <1>2, <1>3, <1>4, <1>5, <1>6, <1>7, <1>8 DEF Next

LEMMA SessionsInvariant == Spec => []SessionsInv
  BY InitSessions, NextSessions, PTL DEF Spec

(* The tables of sessions and tokens keep their shape.                     *)
THEOREM SessionsTypeCorrect == Spec => []TypeOK
<1>1. SessionsInv => TypeOK
  BY DEF SessionsInv
<1> QED
  BY <1>1, SessionsInvariant, PTL

(* ThreePidValSessionStore: the joins find one row for each session and    *)
(* getOrCreateTokenSession one session for an address and a secret.        *)
THEOREM SessionsHaveOneToken == Spec => []OneTokenPerSession
<1>1. SessionsInv => OneTokenPerSession
  BY DEF SessionsInv
<1> QED
  BY <1>1, SessionsInvariant, PTL

(* ThreePidBindServlet: no address is bound unless a token that had been   *)
(* sent to it, up to its case, was submitted.                              *)
THEOREM OnlyProvenIsBound == Spec => []BoundWasProven
<1>1. SessionsInv => BoundWasProven
  BY DEF SessionsInv
<1> QED
  BY <1>1, SessionsInvariant, PTL

-----------------------------------------------------------------------------
(* A session that is not expired is too young for the clean-up, and no     *)
(* other step deletes any.                                                 *)
LEMMA UsableIsKept ==
    ASSUME SessionsInv, [Next]_vars, NEW s \in DOMAIN sessions, NEW c \in Secret,
           getValidatedSession(s, c)
    PROVE  s \in DOMAIN sessions'
<1>1. CASE deleteOldSessions
  <2>1. sessions[s].age \in Nat /\ ~ (Lifetime < sessions[s].age) /\ Lifetime \in Nat
    BY SessionsAssumption DEF SessionsInv, TypeOK, Session, getValidatedSession, Expired, MaxAge
  <2>2. sessions[s].age <= MaxAge
    BY <2>1 DEF MaxAge
  <2> QED
    BY <1>1, <2>2 DEF deleteOldSessions
<1>2. CASE ~ deleteOldSessions
  <2>1. ASSUME NEW a, NEW d, NEW n, NEW t, NEW r,
               \/ RequestTokenAgain(a, d, n, t, r)
               \/ \E arrives \in BOOLEAN :
                     \/ \E ok \in BOOLEAN : RequestEmail(a, d, n, t, r, ok, arrives)
                     \/ RequestText(a, d, n, t, r, arrives)
        PROVE  s \in DOMAIN sessions'
    <3>1. sessions' = SessionsWith(t, a, d)
      BY <2>1 DEF RequestTokenAgain, RequestEmail, RequestText, Touch
    <3> QED
      BY <3>1 DEF SessionsWith
  <2>2. CASE \/ \E x \in texting, ok \in BOOLEAN : TextDone(x[1], x[2], ok)
             \/ Restart \/ UNCHANGED vars
             \/ \E a \in Address, m \in Mxid : Unbind(a, m)
    BY <2>2 DEF TextDone, Restart, Unbind, vars
  <2>3. ASSUME NEW t, NEW d,
               \/ \E r \in DOMAIN auths : Submit(t, r, d)
               \/ \E m \in Mxid : \/ Bind(t, d, m)
                                  \/ \E a \in Address : UnbindWithSession(t, d, a, m)
        PROVE  s \in DOMAIN sessions'
    BY <2>3 DEF Submit, validateSessionWithToken, Bind, UnbindWithSession, Unbind
  <2>4. CASE Tick
    BY <2>4 DEF Tick
  <2> QED
    BY <1>2, <2>1, <2>2, <2>3, <2>4 DEF Next
<1> QED
  BY <1>1, <1>2

(* deleteOldSessions: a session that getValidatedSession still returns is  *)
(* not deleted, by the clean-up or by anything else.                       *)
THEOREM UsableSessionsAreKept == Spec => UsableSessionsStay
<1>1. SessionsInv /\ [Next]_vars =>
        [\A s \in DOMAIN sessions, c \in Secret :
            getValidatedSession(s, c) => s \in DOMAIN sessions']_vars
  BY UsableIsKept
<1> QED
  BY <1>1, SessionsInvariant, PTL DEF Spec, UsableSessionsStay
=============================================================================
