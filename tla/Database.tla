------------------------------- MODULE Database -------------------------------
(***************************************************************************)
(* The SQLite database of one Sydent over its life: the association tables *)
(* with their lookup hashes, what an earlier release left in them, and the *)
(* binds, unbinds, replicated associations and lookups of this release.    *)
(* Modules SchemaMigration and CasefoldMigration add what upgrades it.     *)
(*                                                                         *)
(* Addresses are e-mail addresses; several may differ in case only.        *)
(***************************************************************************)
EXTENDS Integers, FiniteSetsExt

CONSTANTS Address,
          Casefold,  \* str.casefold(): normalise_address
          Lower,     \* lower() of SQLite, which knows the letters of ASCII only
          MaxMxid,   \* mxids are numbers, in the order of their strings
          Pepper,    \* what generateAlphanumericTokenOfLength gives
          MaxTs,     \* bound: associations made
          MaxOldTs   \* bound: those of them that the earlier release made

Mxid == 1..MaxMxid

NoMxid == 0

NoPepper == "none"

ASSUME DatabaseAssumption ==
    /\ {Casefold, Lower} \subseteq [Address -> Address]
    /\ \A a \in Address : /\ Casefold[Casefold[a]] = Casefold[a]
                          /\ Lower[Casefold[a]] = Casefold[a]
                          /\ Casefold[Lower[a]] = Casefold[a]
    /\ MaxMxid \in Nat \ {0}
    /\ {MaxTs, MaxOldTs} \subseteq Nat /\ MaxOldTs <= MaxTs
    /\ Pepper # NoPepper

Folded == {Casefold[a] : a \in Address}

VARIABLES
    db,       \* what is on disk
    process,  \* Sydent: down, serving, or at a statement of its start-up
    clock     \* time_msec(); each association takes a new one

(* sha256 of "address medium pepper"                                       *)
Hash(a, pepper) == <<a, pepper>>

NoHash == <<>>

LocalRow == [id : Nat, address : Address, mxid : Mxid \cup {NoMxid}, ts : Nat]

GlobalRow == [address : Address, mxid : Mxid, ts : Nat, origin : {"own", "other"},
              originId : Nat, hash : {NoHash} \cup (Address \X {Pepper})]

Ids(tbl) == {r.id : r \in tbl}

RowsOf(tbl, a) == {r \in tbl : r.address = a}

Newest(rows) == CHOOSE r \in rows : \A q \in rows : q.ts <= r.ts

-----------------------------------------------------------------------------
(* Lookups *)

(* WHERE lower(address) = lower(?)                                         *)
Spelt(tbl, a) == {r \in tbl : Lower[r.address] = Lower[a]}

(* getMxid, whose callers have normalised the address, and                 *)
(* signedAssociationStringForThreepid, whose caller has not                *)
getMxid(a) ==
    IF Spelt(db.global, a) = {} THEN NoMxid ELSE Newest(Spelt(db.global, a)).mxid

(* getMxids: an answer for every spelling that the query finds             *)
getMxids(a) ==
    {<<b, Newest(RowsOf(db.global, b)).mxid>> : b \in {r.address : r \in Spelt(db.global, a)}}

(* retrieveMxidsForHashes: sorted by mxid and ts, the last one stays       *)
retrieveMxidForHash(hash) ==
    Max({NoMxid} \cup {r.mxid : r \in {q \in db.global : q.hash = hash}})

(* What each servlet answers for one address: nothing if it is not found.  *)
(* Lookup of version 1 reads the newest signed association, BulkLookup and *)
(* LookupV2 without hashing answer by spelling.                            *)
Lookup(a) == {<<a, m>> : m \in {getMxid(a)} \ {NoMxid}}

BulkLookup(a) == getMxids(a)

HashDetails == db.pepper

LookupV2(algorithm, pepper, a) ==
    CASE pepper # db.pepper -> {}
      [] pepper = db.pepper /\ algorithm = "none" -> getMxids(a)
      [] pepper = db.pepper /\ algorithm = "sha256" ->
            {<<a, m>> : m \in {retrieveMxidForHash(Hash(a, pepper))} \ {NoMxid}}

-----------------------------------------------------------------------------
lastIdFromServer(tbl) ==
    Max({0} \cup {r.originId : r \in {q \in tbl : q.origin = "own"}})

(* A mutant of Pushed: one id is left out.                                 *)
PushedLater(tbl, local, pepper) ==
    tbl
      \cup {[address |-> Casefold[x.address], mxid |-> x.mxid, ts |-> x.ts,
             origin |-> "own", originId |-> x.id,
             hash |-> Hash(Casefold[x.address], pepper)] :
               x \in {y \in local : y.id > lastIdFromServer(tbl) + 1 /\ y.mxid # NoMxid}}

(* LocalPeer.pushUpdates of what the local table has after the newest own  *)
(* row of the global one, in the order of ids: a tombstone deletes what    *)
(* there was before it.  The address is case-folded on the way.            *)
Pushed(tbl, local, pepper) ==
    LET news == {x \in local : x.id > lastIdFromServer(tbl)}
        Dead(a, id) == \E y \in news : y.mxid = NoMxid /\ y.id > id /\ Casefold[y.address] = a
    IN  {r \in tbl : ~ Dead(r.address, 0)}
          \cup {[address |-> Casefold[x.address], mxid |-> x.mxid, ts |-> x.ts,
                 origin |-> "own", originId |-> x.id,
                 hash |-> Hash(Casefold[x.address], pepper)] :
                   x \in {y \in news : y.mxid # NoMxid /\ ~ Dead(Casefold[y.address], y.id)}}

(* addOrUpdateAssociation and removeAssociation of the local store: the    *)
(* row of the address makes way for one with the next id.                  *)
Replaced(a, m) ==
    (db.local \ RowsOf(db.local, a))
        \cup {[id |-> db.seq + 1, address |-> a, mxid |-> m, ts |-> clock + 1]}

WriteLocal(a, m) ==
    /\ process.phase = "serving" /\ clock < MaxTs
    /\ db' = [db EXCEPT !.local = Replaced(a, m), !.seq = @ + 1,
                        !.global = Pushed(@, Replaced(a, m), db.pepper)]
    /\ clock' = clock + 1
    /\ UNCHANGED process

(* AuthenticatedBindThreePidServlet, that is, ThreepidBinder.addBinding,   *)
(* which normalises the address                                            *)
Bind(a, m) == WriteLocal(Casefold[a], m)

(* AuthenticatedUnbindThreePidServlet: ThreepidBinder.removeBinding; if    *)
(* there is no such binding, the local push is all that it does.           *)
Unbind(a, m) ==
    \/ /\ \E r \in RowsOf(db.local, Casefold[a]) : r.mxid = m
       /\ WriteLocal(Casefold[a], NoMxid)
    \/ /\ process.phase = "serving"
       /\ ~ \E r \in RowsOf(db.local, Casefold[a]) : r.mxid = m
       /\ db' = [db EXCEPT !.global = Pushed(@, db.local, db.pepper)]
       /\ UNCHANGED <<process, clock>>

(* ReplicationPushServlet: an association of another Sydent                *)
Replicated(a, m) ==
    /\ process.phase = "serving" /\ clock < MaxTs
    /\ db' = [db EXCEPT !.global = @ \cup
                {[address |-> Casefold[a], mxid |-> m, ts |-> clock + 1,
                  origin |-> "other", originId |-> clock + 1,
                  hash |-> Hash(Casefold[a], db.pepper)]}]
    /\ clock' = clock + 1
    /\ UNCHANGED process

(* A bind of a release before the schema had a version: cases are told     *)
(* apart, there are no hashes, and the next id is one more than the        *)
(* largest one there is.                                                   *)
OldBind(a, m) ==
    LET id == 1 + Max({0} \cup Ids(db.local))
    IN  /\ process.phase = "old" /\ clock < MaxOldTs
        /\ db' = [db EXCEPT
                    !.local = (@ \ RowsOf(@, a))
                        \cup {[id |-> id, address |-> a, mxid |-> m, ts |-> clock + 1]},
                    !.global = @ \cup
                        {[address |-> a, mxid |-> m, ts |-> clock + 1,
                          origin |-> "own", originId |-> id, hash |-> NoHash]}]
        /\ clock' = clock + 1
        /\ UNCHANGED process

(* An association of another Sydent, replicated to the earlier release in  *)
(* the spelling it had there                                               *)
OldReplicated(a, m) ==
    /\ process.phase = "old" /\ clock < MaxOldTs
    /\ db' = [db EXCEPT !.global = @ \cup
                {[address |-> a, mxid |-> m, ts |-> clock + 1,
                  origin |-> "other", originId |-> clock + 1, hash |-> NoHash]}]
    /\ clock' = clock + 1
    /\ UNCHANGED process
=============================================================================
