---------------------------- MODULE Associations ----------------------------
(***************************************************************************)
(* The two association tables of a Sydent and the queries on them, as      *)
(* operators: LocalAssociationStore and GlobalAssociationStore of          *)
(* sydent/db/threepid_associations.py, and the loops of LocalPeer and      *)
(* ReplicationPushServlet that copy associations from one to the other.    *)
(*                                                                         *)
(* An address stands for a (medium, normalised address) pair; an mxid for  *)
(* a Matrix user ID, NoMxid for SQL NULL.  Validity intervals (a hundred   *)
(* years from the bind on) are left out: every stored row is valid.        *)
(***************************************************************************)
EXTENDS FiniteSetsExt

CONSTANTS Server,   \* the Sydents that replicate to each other
          Address,  \* third-party identifiers
          Mxid,     \* Matrix user IDs
          NoMxid    \* NULL in the mxid column: the tombstone of an unbind

ASSUME NoMxidIsNotAnMxid == NoMxid \notin Mxid

(* A row of local_threepid_associations, whose unique key is the address.  *)
(* AUTOINCREMENT ids start at 1; id 0 says that there is no row.           *)
LocalRow == [id : Nat, mxid : Mxid \cup {NoMxid}, ts : Nat]

NoRow == [id |-> 0, mxid |-> NoMxid, ts |-> 0]

EmptyLocalTable == [a \in Address |-> NoRow]

(* A signed association on its way to a global table, under its local id.  *)
Assoc == [id : Nat, address : Address, mxid : Mxid \cup {NoMxid}, ts : Nat]

(* A row of global_threepid_associations, unique on (origin, originId).    *)
GlobalRow == [origin : Server, originId : Nat,
              address : Address, mxid : Mxid, ts : Nat]

Ids(assocs) == {x.id : x \in assocs}

-----------------------------------------------------------------------------
(* LocalAssociationStore *)

(* "insert or replace": the row of the address, if any, makes way for one  *)
(* with the next id.                                                       *)
addOrUpdateAssociation(tbl, a, m, id, ts) ==
    [tbl EXCEPT ![a] = [id |-> id, mxid |-> m, ts |-> ts]]

(* The row test of removeAssociation.                                      *)
HasBinding(tbl, a, m) == tbl[a].mxid = m

(* REPLACE INTO ... mxid NULL: the tombstone takes a new id.               *)
removeLocalAssociation(tbl, a, id, ts) ==
    [tbl EXCEPT ![a] = [id |-> id, mxid |-> NoMxid, ts |-> ts]]

(* where id > afterId, without a limit                                     *)
getAssociationsAfterId(tbl, afterId) ==
    {[id |-> tbl[a].id, address |-> a, mxid |-> tbl[a].mxid, ts |-> tbl[a].ts] :
        a \in {b \in Address : tbl[b].id > afterId}}

(* order by id asc limit ?                                                 *)
FirstById(assocs, limit) ==
    {x \in assocs : Cardinality({i \in Ids(assocs) : i <= x.id}) <= limit}

-----------------------------------------------------------------------------
(* GlobalAssociationStore *)

RowOf(origin, x) ==
    [origin |-> origin, originId |-> x.id,
     address |-> x.address, mxid |-> x.mxid, ts |-> x.ts]

(* max(originId) of the rows the table holds now; 0 stands for None, which *)
(* LocalPeer turns into -1: below every id either way.                     *)
lastIdFromServer(tbl, s) ==
    LET ids == {g.originId : g \in {r \in tbl : r.origin = s}}
    IN  IF ids = {} THEN 0 ELSE Max(ids)

(* A mutant of Store: tombstones are inserted too.                         *)
StoreWithTombstones(tbl, origin, assocs) ==
    LET dead  == {x.address : x \in {y \in assocs : y.mxid = NoMxid}}
        added == {x \in assocs : ~ \E r \in tbl : /\ r.origin = origin
                                                /\ r.originId = x.id}
    IN  {r \in tbl : r.address \notin dead} \cup {RowOf(origin, x) : x \in added}

(* A mutant of Store: a tombstone deletes only the newest row of its       *)
(* address, which an earlier binding then outlives.                        *)
StoreDeletingNewest(tbl, origin, assocs) ==
    LET dead  == {x.address : x \in {y \in assocs : y.mxid = NoMxid}}
        added == {x \in assocs : /\ x.mxid # NoMxid
                                 /\ ~ \E r \in tbl : /\ r.origin = origin
                                                     /\ r.originId = x.id}
        newest(r) == \A q \in tbl : q.address = r.address => q.ts <= r.ts
    IN  {r \in tbl : r.address \notin dead \/ ~ newest(r)}
          \cup {RowOf(origin, x) : x \in added}

(* Associations of one origin applied in the order of their ids.  One with *)
(* an mxid is inserted, unless its (origin, originId) is there already;    *)
(* one without deletes every row of its address, whatever origin or mxid.  *)
(* No address occurs twice in assocs, as they come from a local table, so  *)
(* the result does not depend on the order.                                *)
Store(tbl, origin, assocs) ==
    LET dead  == {x.address : x \in {y \in assocs : y.mxid = NoMxid}}
        added == {x \in assocs : /\ x.mxid # NoMxid
                                 /\ ~ \E r \in tbl : /\ r.origin = origin
                                                     /\ r.originId = x.id}
    IN  {r \in tbl : r.address \notin dead} \cup {RowOf(origin, x) : x \in added}

(* order by ts desc limit 1: a newest row of the address, or NULL          *)
getMxid(tbl, a) ==
    LET rows == {r \in tbl : r.address = a}
    IN  IF rows = {} THEN NoMxid
        ELSE (CHOOSE r \in rows : \A q \in rows : q.ts <= r.ts).mxid

-----------------------------------------------------------------------------
(* Mutants of doLocalPush: one stops before the newest association, the    *)
(* other pushes nothing else.                                              *)
doLocalPushOffByOne(glob, s, tbl, upTo) ==
    Store(glob, s, {x \in getAssociationsAfterId(tbl, lastIdFromServer(glob, s)) :
                        x.id < upTo})

doLocalPushNewestOnly(glob, s, tbl, upTo) ==
    Store(glob, s, {x \in getAssociationsAfterId(tbl, lastIdFromServer(glob, s)) :
                        x.id = upTo})

(* doLocalPush: what the local table has after the newest of its own rows  *)
(* in the global table is stored there.  Each insert and each delete is    *)
(* committed on its own, so that a crash leaves a prefix: the associations *)
(* with an id up to upTo.                                                  *)
doLocalPush(glob, s, tbl, upTo) ==
    Store(glob, s, {x \in getAssociationsAfterId(tbl, lastIdFromServer(glob, s)) :
                        x.id <= upTo})

(* ReplicationPushServlet.render_POST stops storing at the first           *)
(* association that cannot be verified or stored and rolls back, but the   *)
(* delete of a tombstone has committed what came before it.  failed is the *)
(* id of the first failure, 0 if there is none.                            *)
Committed(assocs, failed) ==
    IF failed = 0 THEN assocs
    ELSE {x \in assocs : \E t \in assocs : /\ t.mxid = NoMxid
                                           /\ x.id <= t.id
                                           /\ t.id < failed}
=============================================================================
