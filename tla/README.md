# Sydent: a TLA+ verification project

Sydent is a Matrix identity server. It proves that a client owns a third-party
identifier (a mail address or a phone number, "3PID"), binds the identifier to a
Matrix user ID ("mxid"), answers lookups, keeps third-party invites until the
invited address is bound, and replicates its bindings to other Sydents. This
directory models its stateful core in TLA+, checks it with TLC on small
instances, and proves with TLAPS, for all instances, every safety property that
the runs check and that its specification implements the abstract one.

## 1. The system

A Sydent is one Twisted process over one SQLite connection. Handlers are run by
the reactor one at a time; the code between two `await`s is one step. What makes
the program hard is what happens *between* steps (an awaited request to a peer, a
homeserver or the SMS gateway, a timer, a second handler) and between two
`commit()`s of one handler (a crash).

| Component | State | Operations | Hard part |
|---|---|---|---|
| Association tables, `db/threepid_associations.py` | `local_threepid_associations` (one row per address, AUTOINCREMENT id, `mxid` NULL = tombstone), `global_threepid_associations` (unique `(originServer, originId)`) | insert-or-replace, tombstone, read after an id, insert-or-ignore, delete by address, lookup | ids and tombstones as the replication protocol |
| `ThreepidBinder`, `threepid/bind.py` | none of its own | `addBinding`, `removeBinding`, `_notify` | several commits per handler; retry timers in memory |
| Replication, `replication/`, `db/peers.py`, `servlets/replication.py` | `peers.lastSentVersion`, requests under way | `doLocalPush`, `scheduledPush`, `_push_to_peer`, `ReplicationPushServlet` | lost, late and partly stored batches |
| Third-party invites, `db/invite_tokens.py`, `store_invite_servlet.py` | `invite_tokens`, `ephemeral_public_keys` | store, sign, mark, delete | marking before delivery; state shared between associations |
| Validation sessions, `db/valsession.py`, `validators/` | `threepid_validation_sessions`, `threepid_token_auths` | request token, submit token, use, clean up | expiry, reuse of sessions and of their ids, an awaited SMS |
| Accounts, tokens, terms, `http/auth.py`, `db/accounts.py`, `terms/` | `accounts`, `tokens`, `accepted_terms_urls` | register, logout, accept terms, authenticate | an await inside registration |
| Lookup, `db/hashing_metadata.py`, lookup servlets | lookup pepper, hashes in both tables | rehash at start, lookup by address and by hash | which of several rows wins |
| Schema migration, `db/sqlitedb.py` | `user_version` | v0 to v5 | a crash between the statements of a migration |
| Federation client, `http/matrixfederationagent.py`, `srvresolver.py`, `util/ttlcache.py` | two caches with expiry, shared by all requests | `.well-known`, SRV records, choice of a server | answers in any order; staleness |
| Signature verification, `hs_federation/verifier.py`, `servlets/threepidunbindservlet.py` | a cache of keys | fetch keys, verify, unbind | several signers in one request; expiry |
| Rate limiter, `util/ratelimiter.py` | a leaky bucket per key | `ratelimit`, periodic clean-up | a reactor that runs late; numeric edges |
| Casefold migration, `scripts/casefold_db.py` | both association tables | merge rows whose addresses fold alike | which row is kept; failed mails, kills, a server that keeps running |

The parts interact through the tables. A validated session allows
`ThreePidBindServlet` to call `addBinding`; `addBinding` writes the local table,
pushes it to the global table of the same Sydent, signs and marks the invite
tokens of the address and starts `_notify`; the `Pusher` reads the local table
and sends it to the peers; lookups and `store-invite` read the global table.

What makes each modelled component correct:

* replication: what a peer has acknowledged is what it answers; `(origin, id)`
  names one association; a bind is visible at once where it was made; peers
  converge;
* invites: a token is signed for one mxid only, and none is lost or left behind;
* sessions: nothing is bound that was not proven, and the two session tables stay
  in step while ids are drawn again;
* accounts: a request is served only for a user named by the user's own
  homeserver, who has accepted the terms in force;
* rate limits: no window of time sees more than the burst and what leaks in it,
  and nobody is shut out for good;
* federation: a route is never older than its servers allow, a signature is accepted
  only for keys that the origin itself gave and that have not run out since, and
  only the homeserver of a user (or the owner of the address) unbinds;
* database: an upgrade loses nothing wherever it is killed, and what is served
  afterwards is complete;
* casefolding: the newest local binding of an address survives, and no user's last
  local row for it goes before the mail about it. Neither holds of the global table,
  which lookups read: it is written first (section 3).

`PROJECT.json` lists the hazards, each at its line.

## 2. The modules

| Module | Models | Extends |
|---|---|---|
| `Associations` | the two tables and their queries as operators | `FiniteSetsExt` |
| `Replication` | binder, pusher, peers, receiving servlet; the properties | `Associations` |
| `ReplicationInvariants` | the inductive invariants | `Replication` |
| `ReplicationProofs` | type correctness, unique keys | `ReplicationInvariants`, `TLAPS` |
| `AcknowledgedProofs` | what Sydents answer: acknowledged rows, a bind at once, the local push after a crash, the refinement of `Directory` | `ReplicationProofs`, `ReplicationRefinement` |
| `Invites` | invite tokens from `store-invite` to the homeserver | |
| `InvitesProofs` | type correctness, one mxid per token, no token left behind, keys before tokens | `Invites`, `TLAPS` |
| `ValidationSessions` | sessions, tokens, the servlets that use them | `FiniteSetsExt` |
| `SessionsProofs` | type correctness, one token per session, only the proven is bound, usable sessions stay | `ValidationSessions`, `TLAPS` |
| `Accounts` | registration, tokens, terms of service, `authV2` | `FiniteSets` |
| `AccountsProofs` | type correctness, agreement and that it suffices, vouched tokens, consent | `Accounts`, `TLAPS` |
| `Directory` | the abstract specification of the bindings of a deployment | |
| `ReplicationRefinement` | `Replication` with history variables, as an implementation of `Directory`; the invariant of the refinement | `ReplicationInvariants` |
| `RateLimits` | the limiters and the servlets that ask them | |
| `FederationAgent` | `.well-known`, SRV records and their caches | `FiniteSetsExt` |
| `Verifier` | the unbind request from arrival to answer, on top of the agent | `FederationAgent` |
| `RateLimitsProofs` | type correctness, the bound on rates | `RateLimits`, `TLAPS` |
| `VerifierProofs` | type correctness, the caches, the age of routes, where accepted keys come from, authorised unbinds | `Verifier`, `TLAPS` |
| `Database` | the tables of one Sydent with their hashes; binds, unbinds, replicated rows; the lookups | `FiniteSetsExt` |
| `SchemaMigration` | the start of the process on a database of any age | `Database` |
| `CasefoldMigration` | the casefold script, next to a Sydent that may be running | `SchemaMigration` |
| `DatabaseProofs` | the upgrade, the script, binds on an upgraded database | `CasefoldMigration`, `TLAPS` |
| `MC...` | the instances for TLC | |

Operators introduced as "a mutant of" a definition are
plausible mistakes in the code that the definition stands for; every property is
shown to notice one of them (`PROJECT.json`, "mutants"). They are used by no
specification.

### Replication

State: per Sydent `local` (address to row), `lastRowId` (the AUTOINCREMENT
counter), `global` (a set of rows), `lastSent` per peer (`lastSentVersion`, 0 for
NULL), and `push`, the POST a Sydent awaits per peer: `idle`, `sent`, `stored`
or `refused`. The last two are what the receiver decided while the response is
under way. `late` holds requests whose sender has given up on them, which the
peer may still process (only on the links in `LateLinks`). `clock` is the time.

Actions: `Bind`, `Unbind`, `UnbindNothing` are `addBinding` and `removeBinding`
with the local push they end in, as whole handlers; `BindCrash` and
`UnbindCrash` are the same handlers interrupted after the commit of the local
table and before the commit of any of the associations that the local push
stores (`upTo`). `ScheduledPush` is a round of the `LoopingCall`; `Receive` and
`ReceiveLate` are `ReplicationPushServlet.render_POST`, which fails at the
association `failed` and then keeps what a tombstone before it has committed
(`Committed`); `PushSucceeded`, `PushRefused`, `PushError` are the ends of
`_push_to_peer`; `Restart` loses what is in memory.

Abstractions: an address is a (medium, normalised address) pair; signatures are
the choice of `failed`; validity intervals are left out, as they are a hundred
years long; all Sydents have one clock, and two writes never have the same
timestamp (with ties or skew between Sydents the choice between bindings made at
different Sydents is arbitrary: such properties would need another model).

### Invites

State: `tokens` (with the state `new`, `unsent`, `sent` or `deleted`), `keys`,
`bound` (what `getMxid` answers for an address, and how it came to be),
`invites` (the `extra_fields` dict, which is one object for all associations),
one `notify` task per call of `addBinding`, and `delivered`, what homeservers
got. The homeserver (`OnBind`) is external; it may handle a notification whose
answer is lost.

### ValidationSessions

State: the two tables, the `requestToken` calls that await an SMS (`texting`),
the bindings made through the servlets, and two history variables: where each
token was sent (`mailed`) and which addresses it was used from (`proven`).
`Submit` is the submission of a token by someone who received it; it rests on
`validateSessionWithToken`, as `RequestText` rests on `sendTextSMS`. Time is kept as
the age of each session, in units of which a lifetime has `Lifetime`, up to the
age at which it makes no difference any more, so that time itself has no bound.
Mail addresses are spellings; `Fold` is `casefold`, which the binder applies and
the session store does not. The internal bind API, which has no session, is not
part of this module.

### Accounts

State: `accounts` (the consent version of each row), `tokens`, `drawn` (a token
is never drawn twice), `agreed` (`accepted_terms_urls`), `terms` (what the file
says now), `pending` (homeservers that registrations await) and the history
variable `vouched`, which homeserver named which user.

Actions: `Register` is `RegisterServlet.render_POST` up to its await;
`issueToken`, `ForeignUser` and `RegisterFailed` are its ends; `AcceptTerms` is
`TermsServlet.render_POST`, `Logout` is `LogoutServlet.render_POST`.
`issueTokenCrash` and `AcceptTermsCrash` die between the two commits of those
handlers. `EditTerms` changes the file that every request reads anew; `Restart`
may also change `terms_path`. `authV2` is an operator: it changes nothing.

It is assumed that terms with one master version are the same terms
(`AccountsAssumption`): an operator who edits the documents and keeps the
version would have `authV2` accept consent to the old ones. A malformed file
makes requests fail and changes nothing; it is left out.

### Directory and ReplicationRefinement

`Directory` knows no tables, ids or batches: an address has a history of
bindings, every Sydent answers from a point of it, and the points never move
back. The tables do not tell which of several versions a Sydent has reached if it
answers the same for all of them, so `ReplicationRefinement` adds two history
variables to `Replication`: `bound`, the writes to the local table of the home,
and `reached`, the first version from the last one on that explains the answer.
`Abstract` maps `history` to `bound`, `view` to `reached` and `answer` to what
`getMxid` says; a Sydent that goes back makes `reached` leave the history, which
no step of `Directory` does.

### RateLimits

State: `buckets` per limiter and key, `grid` (time since the last multiple of the
period), `due` (the `LoopingCall` should have run) and `window`, what an observer
counts who starts at any time. `RequestText` charges the number first and the
country second, `RequestEmail` stands for all mail that a sender causes;
`PeriodicCall` may run at any time after it is due, and calls that were missed
are not made up for, as in Twisted; `Restart` empties the buckets.

### FederationAgent and Verifier

State: `data` and `expiring`, the two structures of `TTLCache`; `servers`, the
cache of SRV records; `keyCache`; and for each request where it waits (`call`) and
how it was answered (`request`). A step runs from one `await` to the next:
`ReceiveSigned` is `render_PUT` up to the first one, `WellKnownArrives`,
`SrvArrives` and `KeysArrive` go on from there, each with any answer of a small
set. `Picked` is the weighted choice of `pick_server_from_list` over all its random
numbers. `since`, `start`, `via` and `stale` are kept to state how old a route is,
`used` and `checked` with which keys a signature was checked and when.

A valid `.well-known` whose `m.server` is empty (`EmptyServer`) is cached as its
headers say, and delegates to nobody. A session that has expired is an error (500),
one that is not validated is never answered (`SessionOutcome`).

Abstractions: server names are model values, one of them with a port.
`mxid.endswith(":" + origin)` is no equality: `EndsWith` gives, for the server name
of an mxid, the origins that pass, which are the name itself and may be more (the
port of a name, taken for a name). Whether a
signature is good is part of the request; a body that is too long, a redirect loop
and a status that is not 200 are one way for a fetch to fail.

### Database, SchemaMigration and CasefoldMigration

State: `db` (schema version, the tables, columns and indexes there are, the rows
of both association tables with their hashes, the pepper), `process` (the Sydent:
of the old release, down, at a statement of its start-up, serving), `script`
(where the casefold script is, and what it has read), `told` (who was mailed), and
`history`, the rows before the upgrade. A database starts with what a release
before version 1 wrote: its own associations (`OldBind`) and those that other
Sydents replicated to it (`OldReplicated`), all in the spelling they came in.

Two functions fold an address. `Casefold` is `str.casefold()`, which this release
applies to what it stores and is asked for; `Lower` is `lower()` of SQLite in the
queries, which leaves all but the letters of ASCII alone. Of the two it is assumed that
`Casefold` undoes what `Lower` does and that what `Casefold` gives is in lower case.
`Pushed` is the local push, in the order of ids; an unbind that finds no binding does
that push too.

`Execute` runs one statement of `_upgradeSchema`. Python's `sqlite3` opens a
transaction at the first `INSERT` and not before DDL, so every statement is
committed by itself but for the block of version 1 from its `INSERT` on; `PRAGMA
user_version` comes after that. A statement has the objects it needs, those it
must not find, and those it makes or drops; `ExecuteFails` is the start that meets
the wrong ones. `Kill` may come between any two. `Serve` is the rest of
`Sydent.__init__`: a pepper is stored and all rows are rehashed, in one transaction.

The script reads both tables, then deletes and updates; between its steps the
Sydent may bind, unbind and replicate (`disturbed`), a mail may fail
(`SkipDelta`), the unique index may refuse an update (`Clashes`), and it may be
killed. `DropRow` and `UpdateRow` are committed one by one, the global table in one
transaction (`WriteGlobal`).

## 3. The runs

| Run | Shows | Bounds |
|---|---|---|
| `replication_safety` | `TypeOK`, `Acknowledged`, `LocalPushCatchesUp`, `PeersConverge`, `ImplementsDirectory` (fair) | 2 Sydents, 2 addresses with one home, 2 mxids, batches of up to 2, 3 writes (`MaxRowId`): a batch covers a part of the table while rows of it are replaced, refused, lost or sent again |
| `replication_anywhere` | `SameKeySameRow`, `BindingVisibleAtOnce` | one address bound at both Sydents, late requests of one of them; states with up to 3 writes are explored further (`ThreeWrites`), so the fourth is the last one looked at |
| `invites` | `TypeOK`, `SignedForOneMxid`, `NoTokenLeftBehind`, `KeyBeforeToken`, `DeliveredUnlessKilled` (fair) | 2 addresses, 2 mxids (one without a server name that can be parsed), 2 tokens, 2 binds, 1 crash |
| `sessions_safety` | `TypeOK`, `BoundWasProven`, `OneTokenPerSession`, `UsableSessionsStay` | 2 spellings of a mail address, a phone number, 2 secrets, 2 session ids, 2 sessions: the second may take the id of the first |
| `accounts` | `TypeOK`, `AuthorisedHasAgreed`, `TokensAreVouched`, `AgreeingSuffices`, `ConsentOnlyByTerms` | 2 users of 2 homeservers, 2 tokens, terms that are none, of one document in two languages, or of two documents: consent is given in parts, outdated and given again |
| `ratelimit` | `TypeOK`, `RateIsBounded`, `ReadmittedInTheEnd` (fair) | 2 numbers of a country and a sender of mail; limiters with different bursts and periods; windows of up to 4 units (`Horizon`), longer than two periods; time itself has no bound |
| `federation` | `TypeOK`, `CacheInStep`, `RouteIsRecent`, `KeysWereGiven`, `UnbindIsAuthorised`, `SignedIsAnswered` (fair) | 2 requests at once, 2 units of time (`MaxTime`), 3 server names, 2 keys: an entry is cached, expires, is replaced while another fetch of it is under way |
| `database` | `TypeOK`, `NothingLost`, `StartsUnlessKilled`, `ServedIsComplete`, `FoldedWhenDone`, `LookupsAgree`, `BoundIsVisible`, `CasefoldKeepsLocal`, `MailBeforeLocalDelete`, `CasefoldKeepsGlobal` | an address in 3 spellings, one of which `lower()` does not fold, 2 mxids, 3 writes (`MaxTs`) of which up to 3 are of the old release (`MaxOldTs`), own ones or replicated: a row is replaced, duplicated in case, and written again during the script |

The bounds are the least at which every action and every pair of interacting
actions occurs: two parties per relation (an origin and a peer, an address and
another, a token and another), one row more than a batch holds, and one
repetition (a rebind, a second session with the same id, a second notification).
Deadlock is checked but for `federation`, where `MaxTime` and the two requests end
every behaviour.

Four runs show that the code does not do what a comment or document says:

| Run | What TLC finds |
|---|---|
| `replication_replayed_tombstone` | an old tombstone is applied again by a later bind of another address, and deletes a binding that a peer replicated since |
| `invites_lost` | a restart loses invites that are marked as sent and not delivered |
| `lookup_newest` | after a rebind to a user with a smaller mxid, lookups by hash still answer with the old user |
| `casefold_keeps_newest` | the script deletes all rows of a spelling that was bound twice, the newest one with them |

### Further divergences

These were met while modelling. They are in the models as the code has them, or
are noted here because no property can be stated that the code keeps; `PROJECT.json`
lists most of them as hazards.

Replication and binding:

* A refused batch with a tombstone in it stays stored in part, as the tombstone is
  committed at once; a comment says "we add all of them or none"
  (`servlets/replication.py:112`).
* An unbind deletes a newer binding of the address to another mxid that a peer
  replicated; `bind.py:119` says it removes "the binding between a given 3PID and a
  given MXID".
* Lookups take the largest `ts` (`threepid_associations.py:240`), and those of
  different Sydents come from different clocks: with ties or skew the choice is
  arbitrary.
* An exception that `scheduledPush` raises before its first `await` stops the
  `LoopingCall` until the next restart (`pusher.py:39`).

Invites:

* `extra_fields` is one dict for all associations (`threepid/__init__.py:49`), so that
  the next bind that has no invites of its own, of any address, announces those of the
  last bind that had some. A notification that is tried again is not touched by it: it
  carries the association as it was signed.
* `deleteTokens` deletes tokens that were stored after the notification was sent
  (`bind.py:183`), although they were never delivered.
* A binding that a peer replicated, or one whose `addBinding` died after its push
  (`bind.py:86`), leaves the tokens of the address unsent until it is bound again.
* The keyword block list and the mail may fail a `store-invite` whose token is
  stored already (`store_invite_servlet.py:135`).

Sessions, terms and unbinding:

* `requestToken` revives a validated session that has expired
  (`validators/__init__.py:15`).
* `setSendAttemptNumber` "Updates the send attempt number for the session with the
  given ID" (`valsession.py:128`), and selects its row by the id of the token
  (`valsession.py:136`).
* Once the terms are switched off, `POST /terms` fails for everyone who had accepted
  some (`terms.py:100`).
* An unbind with a session that is not validated is never answered
  (`threepidunbindservlet.py:142`, status `hanging` in `Verifier`); one with a session
  that has expired is answered as an internal error, as `SessionExpiredException` is
  not among those caught there.

Federation and rate limits:

* An `m.server` that is not ASCII raises outside the `try` of the lookup
  (`matrixfederationagent.py:372`): the request fails where an invalid `.well-known`
  would be ignored and cached.
* A number is charged even if the country then refuses the request
  (`msisdnservlet.py`); a restart empties all buckets.

Database:

* An upgrade that is killed leaves objects that make every later start fail:
  nothing is lost (`NothingLost`), but it takes an operator to go on.
* Version 1 numbers the rows anew (`sqlitedb.py:87`), while the comment above it
  (`sqlitedb.py:67`) gives ids that are not used again as its purpose. If the ids had
  gaps, new binds get ids that the global table has seen already, and are not pushed:
  `BoundIsVisible` is stated for the databases without gaps.
* `docs/casefold_migration.md:46` says the script "is safe to run whilst Sydent is
  running". A bind of an address between the read and the write of the script may be
  deleted, or make the update fail on the unique index, which ends the script. The
  properties of the script say "as long as nothing is bound meanwhile".
* "we want to avoid deleting rows we can't warn users about" (`casefold_db.py:265-266`) and
  `docs/casefold_migration.md:36` promise that whoever is
  dissociated is told. That holds of the local table (`MailBeforeLocalDelete`). The
  global rows, by which a user is found, are all deleted and committed before the first
  mail: if a mail fails, or the script is killed, a user is no longer found and has not
  been told, until a later run sends the mail.
* The script reads own global rows only (`casefold_db.py:290`). Those that an earlier
  release replicated from other Sydents stay in the spelling they have; `getMxids`
  shows each of them, `getMxid` the newest. `LookupsAgree` is for the addresses without
  such rows.
* A spelling that `lower()` does not fold as `casefold()` does is not found by `getMxid`
  and `getMxids` before the script, and is afterwards. So `CasefoldKeepsGlobal` says that
  `getMxid` answers as before if there is none, and in any case that the newest
  association stays in the global table under the hash of its address. Lookups by hash
  and by spelling do change: that is what the script is for.
* The script deletes global rows by address alone, those of other Sydents too.
* An unbind that is the newest of a group is kept in the local table as it is (its
  mxid is NULL, which the `UPDATE` never finds), while the global table keeps the
  newest mxid that is left there. An unbind that is deleted counts as a dissociated
  mxid, NULL, and a mail is sent for it.
* `getMxids` answers once per spelling of an address that differs in case.

### Fairness

* `Replication!FairSpec`: `WF(ScheduledPush)`, as the `LoopingCall` comes round
  again; `SF(Receive(s, p, 0))` and `SF(PushSucceeded)`: a push that is tried
  infinitely often is processed without failure and answered in the end;
  `WF(PushRefused)`: a refusal is answered, which has to be assumed as no
  request has a timeout. Nothing is assumed of bind, unbind, crash or errors;
  `MaxRowId` ends the writes, so that "in the end" has a meaning.
  `RefinementSpec` has the same fairness.
* `Invites!FairSpec`: `WF(NotifyAgain)`, the reactor fires its timers;
  `SF(OnBind)`, a homeserver that is notified again and again handles the
  association in the end.
* `RateLimits!FairSpec`: time goes on (`WF(Tick)`) and the reactor runs what is due
  (`WF(PeriodicCall)`). The windows are the observer's, and a window at its
  `Horizon` is followed by another, so that they do not hold up time. Nothing is
  assumed of requests: they may come all the time or never.
* `Verifier!FairSpec`: whoever is asked answers in the end or the connection breaks
  (`WF(AgentStep(c) \/ KeysArrive(c))`); the answers are any.

## 4. The proofs

Proved for every set of Sydents, addresses and mxids and every value of the
other constants, under the named assumptions of the modules only. `Spec => []P`
for the invariants, `Spec => P` for the action properties:

| Module | Theorem | Property |
|---|---|---|
| `ReplicationProofs` | `TypeCorrect` | `TypeOK` |
| | `KeysAreUnique` | `SameKeySameRow`, for any homes and any late links |
| `AcknowledgedProofs` | `AcknowledgedIsReflected` | `Acknowledged`, if every address has a single home and no request is late; TLC finds a counterexample without either |
| | `BindIsVisibleAtOnce` | `BindingVisibleAtOnce` (action), for any homes and any late links |
| | `LocalPushesCatchUp` | `LocalPushCatchesUp` (action), if every address has a single home |
| | `ReplicationImplementsDirectory` | `RefinementSpec => ImplementsDirectory`, on the conditions of `AcknowledgedIsReflected` |
| `InvitesProofs` | `InvitesTypeCorrect` | `TypeOK` |
| | `TokensSignedOnce` | `SignedForOneMxid` |
| | `NoneLeftBehind` | `NoTokenLeftBehind` |
| | `KeysBeforeTokens` | `KeyBeforeToken` |
| `SessionsProofs` | `SessionsTypeCorrect` | `TypeOK` |
| | `SessionsHaveOneToken` | `OneTokenPerSession` |
| | `OnlyProvenIsBound` | `BoundWasProven` |
| | `UsableSessionsAreKept` | `UsableSessionsStay` (action) |
| `AccountsProofs` | `AccountsTypeCorrect` | `TypeOK` |
| | `AuthorisedUsersAgreed` | `AuthorisedHasAgreed` |
| | `TokensVouched` | `TokensAreVouched` |
| | `ConsentMoves` | `ConsentOnlyByTerms` (action) |
| | `AgreeingOpens` | `AgreeingSuffices` (action) |
| `RateLimitsProofs` | `LimitsTypeCorrect` | `TypeOK` |
| | `RateBounded` | `RateIsBounded` |
| `VerifierProofs` | `VerifierTypeCorrect` | `TypeOK` |
| | `CachesInStep` | `CacheInStep` |
| | `RoutesAreRecent` | `RouteIsRecent` |
| | `AcceptedKeysWereGiven` | `KeysWereGiven` |
| | `UnbindsAreAuthorised` | `UnbindIsAuthorised` |
| `DatabaseProofs` | `DatabaseTypeCorrect` | `TypeOK` |
| | `UpgradeLosesNothing` | `NothingLost` |
| | `StartsFailOnlyAfterKill` | `StartsUnlessKilled` |
| | `ServedSchemaIsComplete` | `ServedIsComplete` |
| | `CasefoldFoldsAll` | `FoldedWhenDone` |
| | `LookupsAgreeWhenDone` | `LookupsAgree` |
| | `ScriptKeepsNewestLocal` | `CasefoldKeepsLocal` (action) |
| | `LocalRowsGoAfterMail` | `MailBeforeLocalDelete` (action) |
| | `ScriptKeepsGlobal` | `CasefoldKeepsGlobal` (action) |
| | `BoundIsVisibleAtOnce` | `BoundIsVisible` (action) |

The assumptions say what the constants stand for; some of them a proof made
explicit: the writes of the old release are among all writes (`MaxOldTs <= MaxTs`
in `DatabaseAssumption`), folding in full after folding in ASCII is folding in full,
and a folded address has nothing left for `lower()` to fold (there too), a server name
ends with itself (`EndsWithAssumption`), a `.well-known` has headers that may be absent, bad or any
number and DNS answers with a failure or with records of a TTL of at most `MaxTtl`
(`AnswersAssumption`), and a homeserver answers with keys and any number, or none,
as their end of validity, or not at all (`KeysAssumption`).

*Unique keys.* `SameKeySameRow` is not inductive: a batch under way could hold a
different association under a known key. `CarriedInv` speaks of everything an
origin has ever put anywhere (`Carried(s)`: its local table, its requests, late
requests, all global tables): ids determine associations and order their
timestamps, none exceeds the counter, and the local table has the newest
association of each address. Each action either leaves `Carried` as it is,
shrinks it or adds the one association with the next id.

*Acknowledgement.* `AckInv` adds, per origin and peer: local rows covered by
`lastSent` are reflected by the peer (`AckedReflected`), and a batch under way
starts after `lastSent`, has one association per address and no hole up to its
last id except for rows replaced since, whose new ids lie beyond it; once it is
stored, the peer reflects those of its associations that are still current
(`BatchHasNoHoles`). So `lastSent` may move to the last id of the batch. The
lemma `ReflectedIsFound` turns "reflects" into what `getMxid` answers, by the
order of timestamps; that the batch has no holes rests on
`FirstByIdHasNoHoles`, about the SQL limit; that storing other batches does not
undo the reflection rests on the single home.

*A bind at once.* `BindingVisibleAtOnce` follows from `CarriedInv` alone. The row
just written has the next id, above every own row of the global table
(`LastIdIsLargest`), so the local push does not skip it; and it has the latest
time, so that `getMxid` prefers it to whatever others have replicated
(`WrittenIsFound`).

*The local push after a crash.* The push goes by the largest own id that the
global table holds *now*, and a tombstone deletes rows, so that this id can fall
back. `OwnPushed` says what is true nevertheless: whatever the local table has up
to any own row of the global table is reflected there. `LocalInv` is that,
`CarriedInv`, and that nobody sends to itself; it needs the single home (a
replicated tombstone of another Sydent would delete own rows) but allows late
requests.

*The refinement.* `reached` only says which version explains the answer, not which
one the Sydent really has, and `RefinementInv` is about the latter. It says that
there are `ver` and `applied`: `ver[a][i]` is the version that the address `a` had
when its home had issued the id `i`, and `applied[p][a]` is the newest id of `a`
that `p` has stored or has deleted the rows of `a` for. All that is in a local table
or under way is what its version says (`Versions`); nothing older than
`applied[p][a]` is under way to `p`, `p` answers with the version of it, and
`reached` is not beyond that version (`Applied`). A write extends the history of its
address and `ver` with it, and leaves the earlier versions as they are; a local push
and `Receive` move `applied` forward, as they store nothing older (`NotOlder`), the
whole batch or the part that a refused one leaves behind; the other steps only move
batches. So there is always a version, from the old `reached` on, that explains the
answer, and `Reach` finds the first one (`ReachWithin`). Together with `AckInv`, which
gives one association per address and batch, this is the step of `Directory`. A late
request would break `Applied`: it may bring what is older than `applied`.

*Tokens.* `SignedForOneMxid` is strengthened by `ReleasedAreMarked`: whatever was
signed is never unsent again, and `addBinding` signs unsent tokens only.
`NoTokenLeftBehind` and `KeyBeforeToken` are inductive together with `BoundHasMxid`
(`WaitingInv`): `store-invite` stores no token for an address that has an mxid, and
an address that was bound here has one.

*Sessions.* Ids are drawn again once a session is deleted, so a token must be tied
to a session by more than its id. `SessionsInv` adds that no token is drawn twice
(`TokensAreDrawnOnce`), that a token went only to the address of the session whose
row it is in (`SentToOwner`), and that a session is validated only if its address is
proven (`ValidatedIsProven`). `OneTokenPerSession` is part of it: the clean-up deletes
the rows with their sessions, so that an id that is drawn again finds none.
`UsableSessionsStay` compares the two limits of age, of use and of deletion.

*Accounts.* `AuthorisedHasAgreed` speaks of the terms in force and is not
inductive: the file may change to terms whose version an account already has.
`ConsentIsBacked` says it of every version there may ever be, whatever is in
force: what was accepted under a version is never forgotten, and the version
determines the documents. `AccountsInv` is that, `TypeOK` and
`TokensAreVouched`.

*Rates.* `RateIsBounded` says nothing of the bucket and is not inductive. `Leaked`
relates the two: `Period * (passed - bucket) + Period * due + grid` is at most
`2 * Period - 1 + elapsed`. A request changes neither side, a periodic call trades
the call that is due for a token, a unit of time adds at most one to the left, and
a new window starts with a bucket that may be empty, a call that may be due and a
period that may be about to end. With `BucketsHold` (no bucket exceeds its burst)
the bound follows.

*Caches.* `CacheInStep` needs `EntriesAreNamed`: the entry of a name is one of that
name, so that `expire()`, which goes by the keys of the list, and `set()`, which
goes by the key it is given, take the same entry out of both structures.

*Keys.* `KeysWereGiven` speaks of two requests, the one that is let through and the one
whose fetch brought the keys. Between them is the key cache, of which the property says
nothing. `GivenInv` does: what is cached under a name was given by that server, with an
end of validity, to some request (`CacheGiven`); a request that has been answered is
never answered again, so that it stays there to point to; and a call under way belongs
to a request that waits and has no keys yet, so that an answer that arrives late
replaces what is cached as a whole and under the right name, whatever was cached
meanwhile.

*Routes and unbinds.* `VerifierInv` bounds the age of what is cached (`AgentFits`: a
`.well-known` is kept for at most `MaxPeriod` whatever its headers say, a record for
its TTL) and of what each call under way has been told so far (`CallsFit`), as an
answer that was fresh when a call read it is older when the call is routed.
`UnbindIsAuthorised` rests on which header counts: the origin is that of the last
header, signatures of other servers are passed over, and a request that is let
through has a good signature of the origin, which is the server of the mxid.

*The upgrade.* `NothingLost` needs to know where a killed upgrade goes on. `SchemaInv`
says what the database has on the way to each of the 21 statements: exactly what
those before it have made (`Made`), if nothing was killed (`UnkilledFits`), and
otherwise, once the copy is committed, at least what the version promises
(`LeftBehind`); and that a table that is not there has no rows and the new one none
before the copy (`TablesFit`). A start that is tried again either meets an object it
would make, and fails without touching the rows, or finds what it needs.

*The script.* `FoldInv` adds the unique index (`KeysFit`) and `ScriptInStep`: as long as
nobody else writes, what the script has read is what is in the tables, its deltas
(the rows to keep and to drop of each group) cover their groups, and a group without
a delta is settled, unless a mail was skipped; once the global table is written, its
own rows are folded. The properties of the script are read off that, with lemmas on the
newest row of a group. What the lookups find is another set than a group, as they go by
`lower()`: all that is found for a folded address belongs to its group (`SpeltGroup`),
and it is the whole group if that has no spelling but the folded one (`SameRows`).

*Ids after an upgrade.* `BoundIsVisible` needs `NumbersFit`: the own ids in the global
table never get ahead of the counter from which new ids come. The copy starts the
counter at the number of rows, which is enough only if the old ids had no gaps;
that premise of the property is used in this place.

Only model-checked: liveness (`PeersConverge`, `DeliveredUnlessKilled`,
`ReadmittedInTheEnd`, `SignedIsAnswered`), which is out of the prover's reach, as
are `ENABLED`, induction over data and `RECURSIVE` operators (there are none). The
refinement is proved for the safety part, and `Directory` has no other.

## 5. Not modelled, and the plan

Left out for good, as they keep no state of their own that a handler reads later:

* mail templates, SMTP and SMS formats, argument parsing, error bodies, HTTP
  routing, Prometheus and Sentry;
* cryptography: a signature is valid or not. The servlets for ephemeral keys and
  blind signing read what `Invites` models and write one counter that nothing reads;
* TLS options and the block list of IP addresses, which decide on a connection
  without remembering anything: to the models a connection that is refused has failed;
* reading of the configuration file;
* the transaction that a read over a temporary table leaves open (`getMxids`,
  `retrieveMxidsForHashes`): it may make the casefold script wait for the lock of
  SQLite and give up.

What is left for the proofs:

1. What remains true with late requests. `Acknowledged` fails then, but only until
   the address is written again or the home pushes the row anew: an invariant
   that says which versions a peer may fall back to, from `CarriedInv`.
2. What `Committed` and `Picked` compute, as lemmas of their own: that a refused
   batch leaves a part that ends in a tombstone, and that the weighted choice gives
   every server of the best priority its chance.
