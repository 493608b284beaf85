---------------------------- MODULE AccountsProofs -----------------------------
(***************************************************************************)
(* Proofs about Accounts, for all users, homeservers, tokens and terms.    *)
(***************************************************************************)
EXTENDS Accounts, TLAPS

(* More URLs cover what fewer do.                                          *)
LEMMA CoversGrows ==
    ASSUME NEW f, NEW urls, NEW more, Covers(urls, f)
    PROVE  Covers(urls \cup more, f)
BY DEF Covers

(* An account that is stored keeps its consent, or starts without one.     *)
LEMMA StoreAccountKeepsConsent ==
    ASSUME TypeOK, NEW u \in User
    PROVE  /\ storeAccount(u) \in [User -> Version \cup {NoVersion, NoAccount}]
           /\ \A w \in User : \/ storeAccount(u)[w] = accounts[w]
                              \/ storeAccount(u)[w] = NoVersion /\ accounts[w] = NoAccount
BY DEF TypeOK, storeAccount

LEMMA AccountsInit == Init => AccountsInv
<1> SUFFICES ASSUME Init PROVE AccountsInv
  OBVIOUS
<1>1. TypeOK
  BY DEF Init, TypeOK
<1>2. ConsentIsBacked
  BY AccountsAssumption DEF Init, ConsentIsBacked
<1>3. TokensAreVouched
  BY DEF Init, TokensAreVouched
<1> QED
  BY <1>1, <1>2, <1>3 DEF AccountsInv

(* A step that leaves consents alone, or starts accounts without one, and  *)
(* forgets no URL, preserves ConsentIsBacked.                              *)
LEMMA ConsentKept ==
    ASSUME TypeOK, ConsentIsBacked,
           \A w \in User : accounts'[w] \in {accounts[w], NoVersion},
           \A w \in User : \E more : agreed'[w] = agreed[w] \cup more
    PROVE  ConsentIsBacked'
<1> SUFFICES ASSUME NEW u \in User, NEW f \in TermsFile, accounts'[u] = f.version
             PROVE  Covers(agreed'[u], f)
  BY DEF ConsentIsBacked
<1>1. f.version # NoVersion
  BY AccountsAssumption
<1>2. Covers(agreed[u], f)
  BY <1>1 DEF ConsentIsBacked
<1>3. PICK more : agreed'[u] = agreed[u] \cup more
  OBVIOUS
<1>4. Covers(agreed[u] \cup more, f)
  BY <1>2, CoversGrows
<1> QED
  BY <1>3, <1>4 DEF Covers

LEMMA AccountsStep ==
    ASSUME AccountsInv, [Next]_vars
    PROVE  AccountsInv'
<1> USE DEF AccountsInv
<1> DEFINE Same == UNCHANGED <<accounts, agreed>>
<1>0. Same => (TypeOK /\ ConsentIsBacked => ConsentIsBacked')
  BY DEF ConsentIsBacked, Covers
<1>1. ASSUME NEW h \in Homeserver, Register(h) PROVE AccountsInv'
  BY <1>1, <1>0 DEF Register, TypeOK, TokensAreVouched
<1>2. ASSUME NEW h \in Homeserver, RegisterFailed(h) PROVE AccountsInv'
  BY <1>2, <1>0 DEF RegisterFailed, TypeOK, TokensAreVouched
<1>3. ASSUME NEW h \in Homeserver, NEW u \in User, NEW t \in Token, issueToken(h, u, t)
      PROVE  AccountsInv'
  <2>1. TypeOK'
    BY <1>3, StoreAccountKeepsConsent DEF issueToken, Answer, addToken, TypeOK
  <2>2. ConsentIsBacked'
    <3>1. \A w \in User : accounts'[w] \in {accounts[w], NoVersion}
      BY <1>3, StoreAccountKeepsConsent DEF issueToken
    <3>2. \A w \in User : agreed'[w] = agreed[w] \cup {}
      BY <1>3 DEF issueToken, Answer
    <3> QED
      BY <3>1, <3>2, ConsentKept
  <2>3. TokensAreVouched'
    BY <1>3 DEF issueToken, Answer, addToken, TypeOK, TokensAreVouched
  <2> QED
    BY <2>1, <2>2, <2>3
<1>4. ASSUME NEW h \in Homeserver, NEW u \in User, issueTokenCrash(h, u)
      PROVE  AccountsInv'
  <2>1. TypeOK'
    BY <1>4, StoreAccountKeepsConsent DEF issueTokenCrash, Answer, TypeOK
  <2>2. ConsentIsBacked'
    <3>1. \A w \in User : accounts'[w] \in {accounts[w], NoVersion}
      BY <1>4, StoreAccountKeepsConsent DEF issueTokenCrash
    <3>2. \A w \in User : agreed'[w] = agreed[w] \cup {}
      BY <1>4 DEF issueTokenCrash, Answer
    <3> QED
      BY <3>1, <3>2, ConsentKept
  <2>3. TokensAreVouched'
    BY <1>4 DEF issueTokenCrash, Answer, TypeOK, TokensAreVouched
  <2> QED
    BY <2>1, <2>2, <2>3
<1>5. ASSUME NEW h \in Homeserver, NEW u \in User, ForeignUser(h, u) PROVE AccountsInv'
  BY <1>5, <1>0 DEF ForeignUser, Answer, TypeOK, TokensAreVouched
<1>6. ASSUME NEW t \in Token, Logout(t) PROVE AccountsInv'
  BY <1>6, <1>0 DEF Logout, delToken, TypeOK, TokensAreVouched
<1>7. ASSUME NEW t \in Token, NEW urls \in SUBSET Url, AcceptTerms(t, urls)
      PROVE  AccountsInv'
  <2> DEFINE u == tokens[t]
  <2>1. u \in User
    BY <1>7 DEF AcceptTerms, authV2, getAccountByToken, TypeOK
  <2>2. /\ terms' = terms /\ tokens' = tokens /\ vouched' = vouched
        /\ agreed' = [agreed EXCEPT ![u] = @ \cup urls]
        /\ \/ accounts' = accounts
           \/ /\ accounts' = [accounts EXCEPT ![u] = terms.version]
              /\ Covers(agreed[u] \cup urls, terms)
    BY <1>7 DEF AcceptTerms, addAgreedUrls, setConsentVersion
  <2>3. terms.version \in Version \cup {NoVersion}
    BY AccountsAssumption DEF TypeOK, NoTerms
  <2>4. TypeOK'
    BY <1>7, <2>1, <2>2, <2>3 DEF AcceptTerms, TypeOK
  <2>5. \A w \in User : \E more : agreed'[w] = agreed[w] \cup more
    <3> SUFFICES ASSUME NEW w \in User PROVE \E more : agreed'[w] = agreed[w] \cup more
      OBVIOUS
    <3>1. agreed'[w] = agreed[w] \cup (IF w = u THEN urls ELSE {})
      BY <2>1, <2>2 DEF TypeOK
    <3> QED
      BY <3>1
  <2>6. ConsentIsBacked'
    <3>1. CASE accounts' = accounts
      BY <3>1, <2>5, ConsentKept
    <3>2. CASE accounts' # accounts
      <4> SUFFICES ASSUME NEW w \in User, NEW f \in TermsFile, accounts'[w] = f.version
                   PROVE  Covers(agreed'[w], f)
        BY DEF ConsentIsBacked
      <4>1. CASE w = u
        <5>1. terms.version = f.version
          BY <3>2, <4>1, <2>1, <2>2 DEF TypeOK
        <5>2. terms = f
          BY <5>1, AccountsAssumption DEF TypeOK, NoTerms
        <5>3. agreed'[w] = agreed[u] \cup urls
          BY <4>1, <2>1, <2>2 DEF TypeOK
        <5> QED
          BY <5>2, <5>3, <3>2, <2>2
      <4>2. CASE w # u
        <5>1. accounts'[w] = accounts[w] /\ agreed'[w] = agreed[w]
          BY <4>2, <2>1, <2>2 DEF TypeOK
        <5> QED
          BY <5>1 DEF ConsentIsBacked
      <4> QED
        BY <4>1, <4>2
    <3> QED
      BY <3>1, <3>2
  <2>7. TokensAreVouched'
    BY <2>2 DEF TokensAreVouched
  <2> QED
    BY <2>4, <2>6, <2>7
<1>8. ASSUME NEW t \in Token, NEW urls \in SUBSET Url, AcceptTermsCrash(t, urls)
      PROVE  AccountsInv'
  <2> DEFINE u == tokens[t]
  <2>1. u \in User
    BY <1>8 DEF AcceptTermsCrash, authV2, getAccountByToken, TypeOK
  <2>2. TypeOK'
    BY <1>8, <2>1 DEF AcceptTermsCrash, addAgreedUrls, TypeOK
  <2>3. \A w \in User : \E more : agreed'[w] = agreed[w] \cup more
    <3> SUFFICES ASSUME NEW w \in User PROVE \E more : agreed'[w] = agreed[w] \cup more
      OBVIOUS
    <3>1. agreed'[w] = agreed[w] \cup (IF w = u THEN urls ELSE {})
      BY <1>8, <2>1 DEF AcceptTermsCrash, addAgreedUrls, TypeOK
    <3> QED
      BY <3>1
  <2>4. ConsentIsBacked'
    BY <1>8, <2>3, ConsentKept DEF AcceptTermsCrash
  <2>5. TokensAreVouched'
    BY <1>8 DEF AcceptTermsCrash, TokensAreVouched
  <2> QED
    BY <2>2, <2>4, <2>5
<1>9. ASSUME NEW f \in TermsFile, EditTerms(f) PROVE AccountsInv'
  BY <1>9, <1>0 DEF EditTerms, TypeOK, TokensAreVouched
<1>10. ASSUME NEW f \in TermsFile \cup {NoTerms}, Restart(f) PROVE AccountsInv'
  BY <1>10, <1>0 DEF Restart, TypeOK, TokensAreVouched
<1>11. CASE UNCHANGED vars
  BY <1>11, <1>0 DEF vars, TypeOK, TokensAreVouched
<1> QED
  BY <1>1, <1>2, <1>3, <1>4, <1>5, <1>6, <1>7, <1>8, <1>9, <1>10, <1>11 DEF Next

(* The inductive invariant holds in every reachable state.                 *)
THEOREM AccountsInvariant == Spec => []AccountsInv
<1>1. Init => AccountsInv
  BY AccountsInit
<1>2. AccountsInv /\ [Next]_vars => AccountsInv'
  BY AccountsStep
<1> QED
  BY <1>1, <1>2, PTL DEF Spec

(* The tables of accounts, tokens and accepted URLs are well formed.       *)
THEOREM AccountsTypeCorrect == Spec => []TypeOK
<1>1. AccountsInv => TypeOK
  BY DEF AccountsInv
<1> QED
  BY <1>1, AccountsInvariant, PTL

(* authV2 lets nobody through who has not accepted every document of the   *)
(* terms in force.                                                         *)
THEOREM AuthorisedUsersAgreed == Spec => []AuthorisedHasAgreed
<1>1. AccountsInv => AuthorisedHasAgreed
  <2> SUFFICES ASSUME AccountsInv, NEW t \in Token, authV2(t, TRUE)
               PROVE  Covers(agreed[tokens[t]], terms)
    BY DEF AuthorisedHasAgreed
  <2>1. tokens[t] \in User
    BY DEF authV2, getAccountByToken, AccountsInv, TypeOK
  <2>2. CASE terms = NoTerms
    BY <2>2 DEF Covers, NoTerms
  <2>3. CASE terms \in TermsFile
    <3>1. accounts[tokens[t]] = terms.version
      BY <2>3, AccountsAssumption DEF authV2
    <3> QED
      BY <2>1, <2>3, <3>1 DEF AccountsInv, ConsentIsBacked
  <2> QED
    BY <2>2, <2>3 DEF AccountsInv, TypeOK
<1> QED
  BY <1>1, AccountsInvariant, PTL

(* Nobody has a token whom their own homeserver has not named.             *)
THEOREM TokensVouched == Spec => []TokensAreVouched
<1>1. AccountsInv => TokensAreVouched
  BY DEF AccountsInv
<1> QED
  BY <1>1, AccountsInvariant, PTL

(* An account only ever moves to the version of the terms in force, and    *)
(* registration leaves it alone.                                           *)
THEOREM ConsentMoves == Spec => ConsentOnlyByTerms
<1> DEFINE Step == \A u \in User :
                      (accounts[u] # NoAccount /\ accounts'[u] # accounts[u])
                        => accounts'[u] = terms.version
<1>1. ASSUME AccountsInv, Next PROVE Step
  <2> SUFFICES ASSUME NEW w \in User,
                      accounts[w] # NoAccount, accounts'[w] # accounts[w]
               PROVE  accounts'[w] = terms.version
    OBVIOUS
  <2> USE <1>1 DEF AccountsInv
  <2>1. ASSUME NEW h \in Homeserver, NEW u \in User, NEW t \in Token, issueToken(h, u, t)
        PROVE  FALSE
    BY <2>1, StoreAccountKeepsConsent DEF issueToken
  <2>2. ASSUME NEW h \in Homeserver, NEW u \in User, issueTokenCrash(h, u)
        PROVE  FALSE
    BY <2>2, StoreAccountKeepsConsent DEF issueTokenCrash
  <2>3. ASSUME NEW t \in Token, NEW urls \in SUBSET Url, AcceptTerms(t, urls)
        PROVE  accounts'[w] = terms.version
    BY <2>3 DEF AcceptTerms, setConsentVersion, TypeOK
  <2> QED
    BY <2>1, <2>2, <2>3 DEF Next, Register, RegisterFailed, ForeignUser, Logout,
                            AcceptTermsCrash, EditTerms, Restart
<1>2. AccountsInv /\ [Next]_vars => [Step]_vars
  BY <1>1
<1> QED
  BY <1>2, AccountsInvariant, PTL DEF Spec, ConsentOnlyByTerms

(* Whoever has accepted a URL of every document, in whatever requests, is  *)
(* let through as soon as a request to accept terms has ended.             *)
THEOREM AgreeingOpens == Spec => AgreeingSuffices
<1> DEFINE Step == \A t \in Token, urls \in SUBSET Url :
                      AcceptTerms(t, urls) =>
                         (Covers(agreed'[tokens[t]], terms) => authV2(t, TRUE)')
<1>1. ASSUME AccountsInv PROVE Step
  <2> SUFFICES ASSUME NEW t \in Token, NEW urls \in SUBSET Url, AcceptTerms(t, urls),
                      Covers(agreed'[tokens[t]], terms)
               PROVE  authV2(t, TRUE)'
    OBVIOUS
  <2> USE <1>1 DEF AccountsInv
  <2> DEFINE u == tokens[t]
  <2>1. u \in User /\ u # NoUser /\ accounts[u] # NoAccount
    BY DEF AcceptTerms, authV2, getAccountByToken, TypeOK
  <2>2. agreed'[u] = agreed[u] \cup urls
    BY <2>1 DEF AcceptTerms, addAgreedUrls, TypeOK
  <2>3. accounts' = [accounts EXCEPT ![u] = terms.version]
    BY <2>2 DEF AcceptTerms, setConsentVersion
  <2>4. tokens' = tokens /\ terms' = terms /\ accounts'[u] = terms.version
    BY <2>1, <2>3 DEF AcceptTerms, TypeOK
  <2>5. terms.version # NoAccount
    BY AccountsAssumption DEF TypeOK, NoTerms
  <2> QED
    BY <2>1, <2>4, <2>5 DEF authV2, getAccountByToken
<1>2. AccountsInv /\ [Next]_vars => [Step]_vars
  BY <1>1
<1> QED
  BY <1>2, AccountsInvariant, PTL DEF Spec, AgreeingSuffices
=============================================================================
