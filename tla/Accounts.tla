------------------------------ MODULE Accounts -------------------------------
(***************************************************************************)
(* Accounts, access tokens and terms of service: RegisterServlet,          *)
(* LogoutServlet, TermsServlet and authV2, with AccountStore, TermsStore   *)
(* and Terms (db/accounts.py, db/terms.py, terms/terms.py).                *)
(*                                                                         *)
(* One Sydent.  Handlers run to completion, except for registration, which *)
(* awaits the homeserver it was told to ask.  The file with the terms is   *)
(* read by every request, and may be edited while the process runs.        *)
(***************************************************************************)
EXTENDS FiniteSets

CONSTANTS User, NoUser,
          Homeserver,
          ServerOf,       \* the server part of each user id
          AllowList,      \* homeserver_allow_list; {} if there is none
          Token,          \* access tokens, each drawn once
          Url,
          Version, NoVersion,  \* NoVersion is None
          TermsFile,      \* what the file with the terms may say
          NoAccount       \* no row in the table of accounts

(* Terms have a master version and documents, each a set of URLs, one per  *)
(* language.  NoTerms is Terms(None): there is no file.                    *)
NoTerms == [version |-> NoVersion, docs |-> {}]

(* Whoever edits the terms gives them a new master version.                *)
ASSUME AccountsAssumption ==
    /\ NoUser \notin User /\ NoVersion \notin Version
    /\ NoAccount \notin Version \cup {NoVersion}
    /\ ServerOf \in [User -> Homeserver]
    /\ AllowList \subseteq Homeserver
    /\ TermsFile \subseteq [version : Version, docs : SUBSET (SUBSET Url)]
    /\ \A f, g \in TermsFile : f.version = g.version => f = g

VARIABLES
    accounts,  \* consent_version of each account
    tokens,    \* the user of each token that is in the table
    drawn,     \* tokens issued so far
    agreed,    \* accepted_terms_urls
    terms,     \* the terms in force
    pending,   \* homeservers that registrations wait for
    vouched    \* the answers of homeservers: <<homeserver, user>>

vars == <<accounts, tokens, drawn, agreed, terms, pending, vouched>>

TypeOK ==
    /\ accounts \in [User -> Version \cup {NoVersion, NoAccount}]
    /\ tokens \in [Token -> User \cup {NoUser}]
    /\ drawn \subseteq Token
    /\ agreed \in [User -> SUBSET Url]
    /\ terms \in TermsFile \cup {NoTerms}
    /\ pending \subseteq Homeserver
    /\ vouched \subseteq (Homeserver \X User)

Init ==
    /\ accounts = [u \in User |-> NoAccount]
    /\ tokens = [t \in Token |-> NoUser]
    /\ drawn = {}
    /\ agreed = [u \in User |-> {}]
    /\ terms \in TermsFile \cup {NoTerms}
    /\ pending = {}
    /\ vouched = {}

-----------------------------------------------------------------------------
(* Two mutants of storeAccount: "insert or replace", and a row whose       *)
(* columns are mixed up.                                                   *)
storeAccountAnew(u) == [accounts EXCEPT ![u] = NoVersion]

storeAccountMixedUp(u) == [accounts EXCEPT ![u] = u]

(* insert or ignore                                                        *)
storeAccount(u) ==
    IF accounts[u] = NoAccount THEN [accounts EXCEPT ![u] = NoVersion] ELSE accounts

setConsentVersion(u, v) == [accounts EXCEPT ![u] = v]

addToken(u, t) == [tokens EXCEPT ![t] = u]

delToken(t) == [tokens EXCEPT ![t] = NoUser]

(* The join of tokens and accounts has a row for the token.                *)
getAccountByToken(t) == tokens[t] # NoUser /\ accounts[tokens[t]] # NoAccount

addAgreedUrls(u, urls) == [agreed EXCEPT ![u] = @ \cup urls]

getUrlSet(f) == UNION f.docs

(* Every document was accepted in one of its languages.                    *)
Covers(urls, f) == \A d \in f.docs : d \cap urls # {}

(* urlListIsSufficient raises ValueError if there are URLs and no terms.   *)
Raises(urls, f) == f = NoTerms /\ urls # {}

(* authV2: a live token, and consent to the terms in force if that is      *)
(* required.                                                               *)
authV2(t, requireTermsAgreed) ==
    /\ getAccountByToken(t)
    /\ requireTermsAgreed =>
          (terms.version # NoVersion => accounts[tokens[t]] = terms.version)

-----------------------------------------------------------------------------
(* RegisterServlet.render_POST up to its await                             *)
Register(h) ==
    /\ AllowList # {} => h \in AllowList
    /\ pending' = pending \cup {h}
    /\ UNCHANGED <<accounts, tokens, drawn, agreed, terms, vouched>>

(* Homeserver h names user u, whoever that may be.                         *)
Answer(h, u) ==
    /\ h \in pending
    /\ vouched' = vouched \cup {<<h, u>>}
    /\ UNCHANGED <<agreed, terms>>

(* A mutant of issueToken: the server of the user is not compared.         *)
issueTokenToAnyone(h, u, t) ==
    /\ Answer(h, u)
    /\ pending' = pending \ {h}
    /\ t \notin drawn
    /\ accounts' = storeAccount(u)
    /\ tokens' = addToken(u, t)
    /\ drawn' = drawn \cup {t}

(* The user is one of the homeserver that was asked: issueToken.           *)
issueToken(h, u, t) ==
    /\ Answer(h, u)
    /\ pending' = pending \ {h}
    /\ ServerOf[u] = h
    /\ t \notin drawn
    /\ accounts' = storeAccount(u)
    /\ tokens' = addToken(u, t)
    /\ drawn' = drawn \cup {t}

(* The process dies between storeAccount and addToken.                     *)
issueTokenCrash(h, u) ==
    /\ Answer(h, u)
    /\ pending' = {}
    /\ ServerOf[u] = h
    /\ accounts' = storeAccount(u)
    /\ UNCHANGED <<tokens, drawn>>

(* "The Matrix homeserver returned a MXID belonging to another homeserver" *)
ForeignUser(h, u) ==
    /\ Answer(h, u)
    /\ pending' = pending \ {h}
    /\ ServerOf[u] # h
    /\ UNCHANGED <<accounts, tokens, drawn>>

(* federation_request_problem, for any other reason                        *)
RegisterFailed(h) ==
    /\ h \in pending
    /\ pending' = pending \ {h}
    /\ UNCHANGED <<accounts, tokens, drawn, agreed, terms, vouched>>

(* LogoutServlet.render_POST                                               *)
Logout(t) ==
    /\ authV2(t, FALSE)
    /\ tokens' = delToken(t)
    /\ UNCHANGED <<accounts, drawn, agreed, terms, pending, vouched>>

(* Two mutants of AcceptTerms: what was accepted before is forgotten, and  *)
(* one document is taken for all.                                          *)
AcceptTermsAtOnce(t, urls) ==
    /\ authV2(t, FALSE)
    /\ urls \subseteq getUrlSet(terms)
    /\ LET u == tokens[t]
       IN  /\ agreed' = addAgreedUrls(u, urls)
           /\ accounts' = IF Covers(urls, terms) THEN setConsentVersion(u, terms.version)
                          ELSE accounts
    /\ UNCHANGED <<tokens, drawn, terms, pending, vouched>>

AcceptTermsInPart(t, urls) ==
    /\ authV2(t, FALSE)
    /\ urls \subseteq getUrlSet(terms)
    /\ LET u == tokens[t]
       IN  /\ agreed' = addAgreedUrls(u, urls)
           /\ accounts' = IF urls # {} THEN setConsentVersion(u, terms.version)
                          ELSE accounts
    /\ UNCHANGED <<tokens, drawn, terms, pending, vouched>>

(* TermsServlet.render_POST.  What is sufficient is judged by all that the *)
(* user has accepted so far.  With no terms and URLs accepted earlier the  *)
(* request fails and nothing changes.                                      *)
AcceptTerms(t, urls) ==
    /\ authV2(t, FALSE)
    /\ urls \subseteq getUrlSet(terms)
    /\ LET u   == tokens[t]
           all == agreed[u] \cup urls
       IN  /\ ~ Raises(all, terms)
           /\ agreed' = addAgreedUrls(u, urls)
           /\ accounts' = IF Covers(all, terms) THEN setConsentVersion(u, terms.version)
                          ELSE accounts
    /\ UNCHANGED <<tokens, drawn, terms, pending, vouched>>

(* The process dies between addAgreedUrls and setConsentVersion.           *)
AcceptTermsCrash(t, urls) ==
    /\ authV2(t, FALSE)
    /\ urls \subseteq getUrlSet(terms)
    /\ agreed' = addAgreedUrls(tokens[t], urls)
    /\ pending' = {}
    /\ UNCHANGED <<accounts, tokens, drawn, terms, vouched>>

(* Someone edits the file with the terms while the process runs.           *)
EditTerms(f) ==
    /\ terms # NoTerms
    /\ terms' = f
    /\ UNCHANGED <<accounts, tokens, drawn, agreed, pending, vouched>>

(* The process starts again, perhaps with another terms_path or with none. *)
Restart(f) ==
    /\ terms' = f
    /\ pending' = {}
    /\ UNCHANGED <<accounts, tokens, drawn, agreed, vouched>>

Next ==
    \/ \E h \in Homeserver :
          \/ Register(h)
          \/ RegisterFailed(h)
          \/ \E u \in User : \/ \E t \in Token : issueToken(h, u, t)
                             \/ issueTokenCrash(h, u)
                             \/ ForeignUser(h, u)
    \/ \E t \in Token :
          \/ Logout(t)
          \/ \E urls \in SUBSET Url : AcceptTerms(t, urls) \/ AcceptTermsCrash(t, urls)
    \/ \E f \in TermsFile : EditTerms(f)
    \/ \E f \in TermsFile \cup {NoTerms} : Restart(f)

Spec == Init /\ [][Next]_vars

-----------------------------------------------------------------------------
(* Properties *)

(* authV2 lets a user through only if the user has accepted a URL of every *)
(* document of the terms in force, although it looks at nothing but the    *)
(* consent version, which was set under other terms, in several requests   *)
(* and by other tokens.                                                    *)
AuthorisedHasAgreed ==
    \A t \in Token : authV2(t, TRUE) => Covers(agreed[tokens[t]], terms)

(* What a consent version says for good, whatever the terms in force.      *)
ConsentIsBacked ==
    \A u \in User, f \in TermsFile :
        accounts[u] = f.version => Covers(agreed[u], f)

(* RegisterServlet: a token is of a user whom the user's own homeserver    *)
(* has named, whatever other homeservers say.                              *)
TokensAreVouched ==
    \A t \in Token : tokens[t] # NoUser =>
        <<ServerOf[tokens[t]], tokens[t]>> \in vouched

AccountsInv == TypeOK /\ ConsentIsBacked /\ TokensAreVouched

(* TermsServlet: once all documents are accepted, in one request or in     *)
(* several, before or after a crash, the request that completes them or    *)
(* the next one opens the API to the user.                                 *)
AgreeingSuffices ==
    [][\A t \in Token, urls \in SUBSET Url :
          AcceptTerms(t, urls) =>
             (Covers(agreed'[tokens[t]], terms) => authV2(t, TRUE)')]_vars

(* "insert or ignore": to register again does not lose the consent; an     *)
(* account only ever moves to the terms in force.                          *)
ConsentOnlyByTerms ==
    [][\A u \in User :
          (accounts[u] # NoAccount /\ accounts'[u] # accounts[u])
            => accounts'[u] = terms.version]_vars
=============================================================================
