------------------------- MODULE AcknowledgedProofs --------------------------
(***************************************************************************)
(* What Sydents answer, in four theorems: with one home per address and no *)
(* late requests, a peer answers as the local rows that lastSentVersion    *)
(* covers; a bind is visible at once where it is made; the local push      *)
(* catches up after a crash; and Replication implements Directory.         *)
(***************************************************************************)
EXTENDS ReplicationProofs, ReplicationRefinement

-----------------------------------------------------------------------------
(* Store and what a table reflects *)

(* Associations of other addresses leave alone what a table reflects.      *)
LEMMA StoreKeeps ==
    ASSUME NEW tbl \in SUBSET GlobalRow, NEW s \in Server, NEW x \in Assoc,
           NEW u \in Server, NEW assocs \in SUBSET Assoc,
           \A y \in assocs : y.address # x.address,
           Reflects(tbl, s, x)
    PROVE  Reflects(Store(tbl, u, assocs), s, x)
<1>1. CASE x.mxid = NoMxid
  <2> SUFFICES ASSUME NEW r \in Store(tbl, u, assocs) PROVE r.address # x.address
    BY <1>1 DEF Reflects
  <2>1. CASE r \in tbl
    BY <1>1, <2>1 DEF Reflects
  <2>2. CASE \E y \in assocs : r = RowOf(u, y)
    BY <2>2 DEF RowOf
  <2> QED
    BY <2>1, <2>2, StoreRows
<1>2. CASE x.mxid # NoMxid
  <2>1. RowOf(s, x) \in tbl /\ RowOf(s, x).address = x.address
    BY <1>2 DEF Reflects, RowOf
  <2> QED
    BY <1>2, <2>1 DEF Reflects, Store
<1> QED
  BY <1>1, <1>2

(* An association that is stored is reflected, if it is the only one of    *)
(* its address and its key is not taken by another one.                    *)
LEMMA StoreReflects ==
    ASSUME NEW tbl \in SUBSET GlobalRow, NEW s \in Server,
           NEW assocs \in SUBSET Assoc, NEW x \in assocs,
           \A y \in assocs : y.address = x.address => y = x,
           \A r \in tbl : (r.origin = s /\ r.originId = x.id) => AssocOf(r) = x
    PROVE  Reflects(Store(tbl, s, assocs), s, x)
<1> DEFINE dead == {y.address : y \in {z \in assocs : z.mxid = NoMxid}}
           kept == {r \in tbl : r.address \notin dead}
           taken == \E r \in tbl : r.origin = s /\ r.originId = x.id
<1>1. CASE x.mxid = NoMxid
  <2> SUFFICES ASSUME NEW r \in Store(tbl, s, assocs) PROVE r.address # x.address
    BY <1>1 DEF Reflects
  <2>1. x.address \in dead
    BY <1>1
  <2>2. r \in kept \/ \E y \in assocs : y.mxid # NoMxid /\ r = RowOf(s, y)
    BY DEF Store
  <2>3. CASE r \in kept
    BY <2>1, <2>3
  <2>4. ASSUME NEW y \in assocs, y.mxid # NoMxid, r = RowOf(s, y)
        PROVE  r.address # x.address
    BY <1>1, <2>4 DEF RowOf
  <2> QED
    BY <2>2, <2>3, <2>4
<1>2. CASE x.mxid # NoMxid
  <2>1. x.address \notin dead
    BY <1>2
  <2>2. CASE taken
    <3>1. PICK r \in tbl : r.origin = s /\ r.originId = x.id
      BY <2>2
    <3>2. AssocOf(r) = x /\ r \in GlobalRow /\ x \in Assoc
      BY <3>1
    <3>3. r.address = x.address /\ r.mxid = x.mxid /\ r.ts = x.ts
      BY <3>2 DEF AssocOf
    <3>4. r = RowOf(s, x)
      BY <3>1, <3>2, <3>3 DEF RowOf, GlobalRow
    <3>5. r \in kept
      BY <2>1, <3>3
    <3> QED
      BY <1>2, <3>4, <3>5 DEF Reflects, Store
  <2>3. CASE ~ taken
    BY <1>2, <2>3 DEF Reflects, Store
  <2> QED
    BY <2>2, <2>3
<1> QED
  BY <1>1, <1>2

(* The first associations by id leave none out below the last of them.     *)
LEMMA FirstByIdHasNoHoles ==
    ASSUME NEW assocs \in SUBSET Assoc, NEW limit \in Nat, NEW n \in Nat,
           \A x \in assocs : x.id <= n,
           NEW x \in assocs, NEW y \in FirstById(assocs, limit), x.id <= y.id
    PROVE  x \in FirstById(assocs, limit)
<1> DEFINE Below(z) == {i \in Ids(assocs) : i <= z.id}
<1>1. Ids(assocs) \in SUBSET Nat /\ \A i \in Ids(assocs) : i <= n
  BY DEF Ids, Assoc
<1>2. x.id \in Nat /\ y \in assocs /\ y.id \in Nat
  BY DEF FirstById, Assoc
<1>3. Below(y) \in SUBSET Nat /\ \A i \in Below(y) : i <= n
  BY <1>1
<1>4. IsFiniteSet(Below(y))
  <2> HIDE DEF Below
  <2> QED
    BY <1>3, FS_BoundedSetOfNaturals
<1>5. Below(x) \subseteq Below(y)
  BY <1>1, <1>2
<1>6. /\ Cardinality(Below(x)) \in Nat /\ Cardinality(Below(y)) \in Nat
      /\ Cardinality(Below(x)) <= Cardinality(Below(y))
  <2> HIDE DEF Below
  <2> QED
    BY <1>4, <1>5, FS_Subset, FS_CardinalityType
<1>7. Cardinality(Below(y)) <= limit
  BY DEF FirstById
<1> QED
  BY <1>6, <1>7 DEF FirstById

-----------------------------------------------------------------------------
(* One sender and one peer *)

(* p reflects of the addresses of s at least what it did before the step.  *)
Keeps(s, p) ==
    \A x \in Assoc : (s \in BindsAt[x.address] /\ Reflects(global[p], s, x))
                        => Reflects(global'[p], s, x)

LEMMA LocalIsCarried ==
    ASSUME CarriedInv, NEW s \in Server, NEW a \in Address, local[s][a].id # 0
    PROVE  /\ LocalAssoc(s, a) \in Carried(s)
           /\ LocalAssoc(s, a) \in Assoc
           /\ s \in BindsAt[a]
           /\ LocalAssoc(s, a).id = local[s][a].id
           /\ LocalAssoc(s, a).mxid = local[s][a].mxid
           /\ LocalAssoc(s, a).ts = local[s][a].ts
           /\ LocalAssoc(s, a).address = a
<1>1. TypeOK /\ OriginIsNewest
  BY DEF CarriedInv
<1>2. LocalAssoc(s, a) \in Carried(s)
  BY InCarried
<1>3. LocalAssoc(s, a).address = a
  BY DEF LocalAssoc
<1> QED
  BY <1>1, <1>2, <1>3, CarriedType DEF OriginIsNewest, LocalAssoc

LEMMA BatchIsCarried ==
    ASSUME CarriedInv, NEW s \in Server, NEW p \in Server
    PROVE  \A x \in push[s][p].batch :
              /\ x \in Carried(s) /\ x \in Assoc /\ s \in BindsAt[x.address]
              /\ x.address \in Address /\ x.id \in Nat
              /\ 0 < x.id /\ x.id <= lastRowId[s]
              /\ x.id <= local[s][x.address].id
<1>1. TypeOK /\ OriginIsNewest
  BY DEF CarriedInv
<1>2. \A x \in push[s][p].batch : x \in Carried(s) /\ x \in Assoc
  BY <1>1, CarriedNow, CarriedType
<1> QED
  BY <1>1, <1>2 DEF OriginIsNewest, Assoc

(* What other Sydents store at p is about other addresses.                 *)
LEMMA OthersKeep ==
    ASSUME CarriedInv, SingleHome, NEW s \in Server, NEW p \in Server,
           NEW u \in Server, u # s, NEW assocs \in SUBSET Assoc,
           \A y \in assocs : u \in BindsAt[y.address],
           global'[p] = Store(global[p], u, assocs)
    PROVE  Keeps(s, p)
<1> SUFFICES ASSUME NEW x \in Assoc, s \in BindsAt[x.address], Reflects(global[p], s, x)
             PROVE  Reflects(Store(global[p], u, assocs), s, x)
  BY DEF Keeps
<1>1. global[p] \in SUBSET GlobalRow
  BY DEF CarriedInv, TypeOK
<1>2. \A y \in assocs : y.address # x.address
  BY DEF SingleHome, Assoc
<1> QED
  BY <1>1, <1>2, StoreKeeps

LEMMA SameKeeps ==
    ASSUME NEW s \in Server, NEW p \in Server, global'[p] = global[p]
    PROVE  Keeps(s, p)
BY DEF Keeps

(* A step of others: the pair of s and p is left alone, or its push ends.  *)
LEMMA OthersStep ==
    ASSUME CarriedInv, NEW s \in Server, NEW p \in Server, PairInv(s, p),
           local'[s] = local[s], lastRowId'[s] = lastRowId[s],
           lastSent'[s][p] = lastSent[s][p],
           push'[s][p] = push[s][p] \/ push'[s][p] = Idle,
           Keeps(s, p)
    PROVE  PairInv(s, p)'
<1>1. \A a \in Address : LocalAssoc(s, a)' = LocalAssoc(s, a)
  BY DEF LocalAssoc
<1>2. AckedReflected(s, p)'
  BY <1>1, LocalIsCarried DEF PairInv, AckedReflected, Keeps
<1>3. BatchHasNoHoles(s, p)'
  <2>1. CASE push'[s][p] = Idle
    BY <2>1, IdleFields DEF BatchHasNoHoles
  <2>2. CASE push'[s][p] = push[s][p]
    <3>1. \A x \in push[s][p].batch :
             /\ x \in Assoc /\ s \in BindsAt[x.address]
             /\ x.address \in Address
             /\ LocalAssoc(s, x.address)' = LocalAssoc(s, x.address)
      BY <1>1, BatchIsCarried
    <3> QED
      BY <1>1, <2>2, <3>1 DEF PairInv, BatchHasNoHoles, Keeps
  <2> QED
    BY <2>1, <2>2
<1> QED
  BY <1>2, <1>3 DEF PairInv

(* addBinding or removeBinding at s: the new row is above lastSentVersion  *)
(* and above every batch.                                                  *)
LEMMA OwnWriteStep ==
    ASSUME CarriedInv, NEW s \in Server, NEW p \in Server, PairInv(s, p),
           NEW a \in Address, NEW m \in Mxid \cup {NoMxid},
           local'[s] = addOrUpdateAssociation(local[s], a, m, lastRowId[s] + 1, clock + 1),
           lastRowId'[s] = lastRowId[s] + 1,
           lastSent'[s][p] = lastSent[s][p],
           push'[s][p] = push[s][p] \/ push'[s][p] = Idle,
           Keeps(s, p)
    PROVE  PairInv(s, p)'
<1>1. /\ lastRowId[s] \in Nat /\ lastSent[s][p] \in Nat
      /\ local[s] \in [Address -> LocalRow]
      /\ lastSent[s][p] <= lastRowId[s]
  BY DEF CarriedInv, TypeOK, PairInv, AckedReflected
<1>2. /\ local'[s][a].id = lastRowId[s] + 1
      /\ LocalAssoc(s, a)'.id = lastRowId[s] + 1
      /\ \A b \in Address \ {a} : /\ local'[s][b] = local[s][b]
                                  /\ LocalAssoc(s, b)' = LocalAssoc(s, b)
  BY <1>1 DEF addOrUpdateAssociation, LocalAssoc
<1>3. AckedReflected(s, p)'
  <2> SUFFICES ASSUME NEW b \in Address, local'[s][b].id # 0,
                      local'[s][b].id <= lastSent[s][p]
               PROVE  Reflects(global'[p], s, LocalAssoc(s, b)')
    BY <1>1 DEF AckedReflected
  <2>1. b # a
    BY <1>1, <1>2
  <2>2. /\ local[s][b].id # 0 /\ local[s][b].id <= lastSent[s][p]
        /\ LocalAssoc(s, b)' = LocalAssoc(s, b)
    BY <1>2, <2>1
  <2>3. Reflects(global[p], s, LocalAssoc(s, b))
    BY <2>2 DEF PairInv, AckedReflected
  <2> QED
    BY <2>2, <2>3, LocalIsCarried DEF Keeps
<1>4. BatchHasNoHoles(s, p)'
  <2>1. CASE push'[s][p] = Idle
    BY <2>1, IdleFields DEF BatchHasNoHoles
  <2>2. CASE push'[s][p] = push[s][p]
    <3> DEFINE batch == push[s][p].batch
    <3>1. \A x \in batch : /\ x \in Assoc /\ s \in BindsAt[x.address]
                           /\ x.address \in Address /\ x.id \in Nat
                           /\ x.id <= lastRowId[s]
      BY BatchIsCarried
    <3>2. /\ \A x \in batch : lastSent'[s][p] < x.id
          /\ \A x, y \in batch : x.address = y.address => x = y
      BY DEF PairInv, BatchHasNoHoles
    <3>3. ASSUME NEW b \in Address, NEW y \in batch,
                 lastSent'[s][p] < local'[s][b].id, local'[s][b].id <= y.id
          PROVE  LocalAssoc(s, b)' \in batch
      <4>1. b # a
        BY <1>1, <1>2, <3>1, <3>3
      <4> QED
        BY <1>2, <3>3, <4>1 DEF PairInv, BatchHasNoHoles
    <3>4. ASSUME push[s][p].status = "stored", NEW x \in batch,
                 x = LocalAssoc(s, x.address)'
          PROVE  Reflects(global'[p], s, x)
      <4>1. x.address # a
        BY <1>1, <1>2, <3>1, <3>4
      <4>2. x = LocalAssoc(s, x.address)
        BY <1>2, <3>1, <3>4, <4>1
      <4>3. Reflects(global[p], s, x)
        BY <3>4, <4>2 DEF PairInv, BatchHasNoHoles
      <4> QED
        BY <3>1, <4>3 DEF Keeps
    <3> QED
      BY <2>2, <3>2, <3>3, <3>4 DEF BatchHasNoHoles
  <2> QED
    BY <2>1, <2>2
<1> QED
  BY <1>3, <1>4 DEF PairInv

-----------------------------------------------------------------------------
(* The steps *)

(* The local push of s at s, for the peers that send to s.                 *)
LEMMA LocalPushKeeps ==
    ASSUME CarriedInv, SingleHome, NEW s \in Server, NEW t \in Server, t # s,
           NEW upTo, NEW tbl \in [Address -> LocalRow],
           \A b \in Address : tbl[b].id # 0 => s \in BindsAt[b],
           global'[s] = doLocalPush(global[s], s, tbl, upTo)
    PROVE  Keeps(t, s)
<1>1. PICK new \in SUBSET Assoc :
         /\ doLocalPush(global[s], s, tbl, upTo) = Store(global[s], s, new)
         /\ \A x \in new :
               /\ 0 < x.id
               /\ x = [id |-> tbl[x.address].id, address |-> x.address,
                       mxid |-> tbl[x.address].mxid, ts |-> tbl[x.address].ts]
  BY LocalPushIsStore
<1>2. ASSUME NEW x \in new PROVE s \in BindsAt[x.address]
  <2>1. x \in Assoc /\ x.id = tbl[x.address].id /\ 0 < x.id
    BY <1>1
  <2>2. x.address \in Address /\ x.id \in Nat
    BY <2>1 DEF Assoc
  <2> QED
    BY <2>1, <2>2
<1> QED
  BY <1>1, <1>2, OthersKeep

LEMMA WriteAck ==
    ASSUME AckInv, SingleHome, NEW s \in Server, NEW a \in Address, s \in BindsAt[a],
           NEW m \in Mxid \cup {NoMxid}, NEW upTo, NEW tbl,
           tbl = addOrUpdateAssociation(local[s], a, m, lastRowId[s] + 1, clock + 1),
           WriteLocal(s, tbl),
           global' = [global EXCEPT ![s] = doLocalPush(@, s, tbl, upTo)],
           UNCHANGED push \/ AbandonPushes(s),
           UNCHANGED lastSent,
           NEW t \in Server, NEW q \in Peers(t)
    PROVE  PairInv(t, q)'
<1>1. CarriedInv /\ TypeOK /\ PairInv(t, q) /\ q \in Server /\ q # t
  BY DEF AckInv, CarriedInv, Peers
<1>2. /\ lastRowId[s] \in Nat /\ clock \in Nat /\ local[s] \in [Address -> LocalRow]
  BY <1>1 DEF TypeOK
<1>3. tbl \in [Address -> LocalRow]
  <2>1. lastRowId[s] + 1 \in Nat /\ clock + 1 \in Nat
    BY <1>2
  <2> QED
    BY <1>2, <2>1, BoundTableType
<1>4. /\ local'[s] = tbl
      /\ lastRowId'[s] = lastRowId[s] + 1
      /\ global'[s] = doLocalPush(global[s], s, tbl, upTo)
      /\ \A u \in Server \ {s} : /\ local'[u] = local[u] /\ global'[u] = global[u]
                                 /\ lastRowId'[u] = lastRowId[u]
      /\ lastSent'[t][q] = lastSent[t][q]
  BY <1>1 DEF WriteLocal, TypeOK
<1>5. push'[t][q] = push[t][q] \/ push'[t][q] = Idle
  BY <1>1 DEF AbandonPushes, TypeOK
<1>6. ASSUME NEW b \in Address, tbl[b].id # 0 PROVE s \in BindsAt[b]
  <2>1. CASE b = a
    BY <2>1
  <2>2. CASE b # a
    <3>1. local[s][b].id # 0
      BY <1>2, <1>6, <2>2 DEF addOrUpdateAssociation
    <3> QED
      BY <1>1, <3>1, LocalIsCarried
  <2> QED
    BY <2>1, <2>2
<1>7. Keeps(t, q)
  <2>1. CASE q = s
    BY <1>1, <1>3, <1>4, <1>6, <2>1, LocalPushKeeps
  <2>2. CASE q # s
    BY <1>1, <1>4, <2>2, SameKeeps
  <2> QED
    BY <2>1, <2>2
<1>8. CASE t = s
  BY <1>1, <1>4, <1>5, <1>7, <1>8, OwnWriteStep
<1>9. CASE t # s
  BY <1>1, <1>4, <1>5, <1>7, <1>9, OthersStep
<1> QED
  BY <1>8, <1>9

LEMMA BindAck ==
    ASSUME AckInv, SingleHome, NEW s \in Server, NEW a \in Address, NEW m \in Mxid, NEW upTo,
           \/ Bind(s, a, m) \/ BindCrash(s, a, m, upTo)
           \/ Unbind(s, a, m) \/ UnbindCrash(s, a, m, upTo),
           NEW t \in Server, NEW q \in Peers(t)
    PROVE  PairInv(t, q)'
<1> DEFINE withRow == addOrUpdateAssociation(local[s], a, m, lastRowId[s] + 1, clock + 1)
           withoutRow == addOrUpdateAssociation(local[s], a, NoMxid, lastRowId[s] + 1, clock + 1)
<1>1. BoundTable(s, a, m) = withRow /\ UnboundTable(s, a) = withoutRow
  BY UnboundTableIsWritten DEF BoundTable
<1> HIDE DEF withRow, withoutRow
<1>2. CASE Bind(s, a, m)
  <2>1. /\ s \in BindsAt[a] /\ WriteLocal(s, withRow)
        /\ global' = [global EXCEPT ![s] = doLocalPush(@, s, withRow, lastRowId[s] + 1)]
        /\ UNCHANGED push /\ UNCHANGED lastSent
    BY <1>1, <1>2 DEF Bind
  <2> QED
    BY <2>1, WriteAck DEF withRow
<1>3. CASE BindCrash(s, a, m, upTo)
  <2>1. /\ s \in BindsAt[a] /\ WriteLocal(s, withRow)
        /\ global' = [global EXCEPT ![s] = doLocalPush(@, s, withRow, upTo)]
        /\ AbandonPushes(s) /\ UNCHANGED lastSent
    BY <1>1, <1>3 DEF BindCrash, CrashWithin
  <2> QED
    BY <2>1, WriteAck DEF withRow
<1>4. CASE Unbind(s, a, m)
  <2>1. /\ s \in BindsAt[a] /\ WriteLocal(s, withoutRow)
        /\ global' = [global EXCEPT ![s] = doLocalPush(@, s, withoutRow, lastRowId[s] + 1)]
        /\ UNCHANGED push /\ UNCHANGED lastSent
    BY <1>1, <1>4 DEF Unbind
  <2> QED
    BY <2>1, WriteAck DEF withoutRow
<1>5. CASE UnbindCrash(s, a, m, upTo)
  <2>1. /\ s \in BindsAt[a] /\ WriteLocal(s, withoutRow)
        /\ global' = [global EXCEPT ![s] = doLocalPush(@, s, withoutRow, upTo)]
        /\ AbandonPushes(s) /\ UNCHANGED lastSent
    BY <1>1, <1>5 DEF UnbindCrash, CrashWithin
  <2> QED
    BY <2>1, WriteAck DEF withoutRow
<1> QED
  BY <1>2, <1>3, <1>4, <1>5

LEMMA UnbindNothingAck ==
    ASSUME AckInv, SingleHome, NEW s \in Server, NEW a \in Address, NEW m \in Mxid,
           UnbindNothing(s, a, m), NEW t \in Server, NEW q \in Peers(t)
    PROVE  PairInv(t, q)'
<1>1. CarriedInv /\ TypeOK /\ PairInv(t, q) /\ q \in Server /\ q # t
  BY DEF AckInv, CarriedInv, Peers
<1>2. /\ UNCHANGED <<local, lastRowId, lastSent, push>>
      /\ global'[s] = doLocalPush(global[s], s, local[s], lastRowId[s])
      /\ \A u \in Server \ {s} : global'[u] = global[u]
      /\ local[s] \in [Address -> LocalRow]
  BY <1>1 DEF UnbindNothing, TypeOK
<1>3. \A b \in Address : local[s][b].id # 0 => s \in BindsAt[b]
  BY <1>1, LocalIsCarried
<1>4. Keeps(t, q)
  <2>1. CASE q = s
    BY <1>1, <1>2, <1>3, <2>1, LocalPushKeeps
  <2>2. CASE q # s
    BY <1>1, <1>2, <2>2, SameKeeps
  <2> QED
    BY <2>1, <2>2
<1> QED
  BY <1>1, <1>2, <1>4, OthersStep

(* A push of s ends without an answer that counts.                         *)
LEMMA PushDroppedAck ==
    ASSUME AckInv, NEW s \in Server, NEW p \in Server,
           Restart(s) \/ PushRefused(s, p) \/ PushError(s, p),
           NEW t \in Server, NEW q \in Peers(t)
    PROVE  PairInv(t, q)'
<1>1. CarriedInv /\ TypeOK /\ PairInv(t, q) /\ q \in Server
  BY DEF AckInv, CarriedInv, Peers
<1>2. UNCHANGED <<local, lastRowId, global, lastSent>>
  BY DEF Restart, PushRefused, PushError
<1>3. push'[t][q] = push[t][q] \/ push'[t][q] = Idle
  <2>1. push \in [Server -> [Server -> PushState]]
    BY <1>1 DEF TypeOK
  <2>2. CASE Restart(s)
    BY <1>1, <2>1, <2>2 DEF Restart, AbandonPushes
  <2>3. CASE PushRefused(s, p) \/ PushError(s, p)
    <3>1. push' = [push EXCEPT ![s][p] = Idle]
      BY <2>3 DEF PushRefused, PushError
    <3> QED
      BY <1>1, <2>1, <3>1
  <2> QED
    BY <2>2, <2>3
<1>4. Keeps(t, q)
  BY <1>1, <1>2, SameKeeps
<1> QED
  BY <1>1, <1>2, <1>3, <1>4, OthersStep

LEMMA ScheduledPushAck ==
    ASSUME AckInv, NEW s \in Server, ScheduledPush(s),
           NEW t \in Server, NEW q \in Peers(t)
    PROVE  PairInv(t, q)'
<1>1. CarriedInv /\ TypeOK /\ PairInv(t, q) /\ q \in Server /\ q # t
  BY DEF AckInv, CarriedInv, Peers
<1>2. UNCHANGED <<local, lastRowId, global, lastSent, late, clock>>
  BY DEF ScheduledPush
<1>3. push'[t][q] \in {push[t][q], Idle} \/ (t = s /\ push'[t][q] = Sent(PendingFor(s, q)))
  BY <1>1 DEF ScheduledPush, TypeOK
<1>4. Keeps(t, q)
  BY <1>1, <1>2, SameKeeps
<1>5. CASE push'[t][q] \in {push[t][q], Idle}
  BY <1>1, <1>2, <1>4, <1>5, OthersStep
<1>6. CASE t = s /\ push'[t][q] = Sent(PendingFor(s, q))
  <2> DEFINE after == getAssociationsAfterId(local[s], lastSent[s][q])
             batch == FirstById(after, Limit)
  <2>1. /\ lastSent[s][q] \in Nat /\ lastRowId[s] \in Nat /\ Limit \in Nat
        /\ local[s] \in [Address -> LocalRow]
    BY <1>1, <1>6, ReplicationAssumption DEF TypeOK
  <2>2. push'[s][q].batch = batch /\ push'[s][q].status = "sent"
    BY <1>6 DEF Sent, PendingFor
  <2>3. /\ after \in SUBSET Assoc
        /\ \A x \in after : /\ lastSent[s][q] < x.id
                            /\ x.id = local[s][x.address].id
                            /\ x.mxid = local[s][x.address].mxid
                            /\ x.ts = local[s][x.address].ts
    BY <2>1, AfterIdRows
  <2>4. batch \subseteq after
    BY DEF FirstById
  <2>5. \A x \in after : x.id <= lastRowId[s]
    <3> SUFFICES ASSUME NEW x \in after PROVE x.id <= lastRowId[s]
      OBVIOUS
    <3>1. x \in Assoc /\ x.id = local[s][x.address].id /\ lastSent[s][q] < x.id
      BY <2>3
    <3>2. x.address \in Address /\ local[s][x.address].id # 0
      BY <2>1, <3>1 DEF Assoc
    <3>3. /\ LocalAssoc(s, x.address) \in Carried(s)
          /\ LocalAssoc(s, x.address).id = x.id
      BY <1>1, <3>1, <3>2, LocalIsCarried
    <3> QED
      BY <1>1, <3>3 DEF CarriedInv, OriginIsNewest
  <2>6. ASSUME NEW a \in Address, NEW y \in batch,
               lastSent[s][q] < local[s][a].id, local[s][a].id <= y.id
        PROVE  LocalAssoc(s, a) \in batch
    <3>1. LocalAssoc(s, a) \in after /\ LocalAssoc(s, a).id = local[s][a].id
      BY <2>1, <2>6 DEF getAssociationsAfterId, LocalAssoc, LocalRow
    <3> HIDE DEF after
    <3> QED
      BY <2>1, <2>3, <2>5, <2>6, <3>1, FirstByIdHasNoHoles
  <2>7. \A x, y \in batch : x.address = y.address => x = y
    BY <2>3, <2>4 DEF Assoc
  <2>8. \A a \in Address : LocalAssoc(s, a)' = LocalAssoc(s, a)
    BY <1>2 DEF LocalAssoc
  <2>9. \A x \in batch : lastSent[s][q] < x.id
    BY <2>3, <2>4
  <2> HIDE DEF batch, after
  <2>10. BatchHasNoHoles(s, q)'
    BY <1>2, <2>2, <2>6, <2>7, <2>8, <2>9 DEF BatchHasNoHoles
  <2>11. AckedReflected(s, q)'
    BY <1>1, <1>2, <1>6, <2>8 DEF PairInv, AckedReflected
  <2> QED
    BY <1>6, <2>10, <2>11 DEF PairInv
<1> QED
  BY <1>3, <1>5, <1>6

(* lastSentVersion moves over a batch without holes that is reflected.     *)
LEMMA PushSucceededAck ==
    ASSUME AckInv, NEW s \in Server, NEW p \in Server, PushSucceeded(s, p),
           NEW t \in Server, NEW q \in Peers(t)
    PROVE  PairInv(t, q)'
<1>1. CarriedInv /\ TypeOK /\ PairInv(t, q) /\ q \in Server
  BY DEF AckInv, CarriedInv, Peers
<1> DEFINE batch == push[s][p].batch
           last == Max(Ids(batch))
<1>2. /\ push[s][p].status = "stored"
      /\ lastSent' = [lastSent EXCEPT ![s][p] = last]
      /\ push' = [push EXCEPT ![s][p] = Idle]
      /\ UNCHANGED <<local, lastRowId, global, late, clock>>
  BY DEF PushSucceeded
<1>3. /\ push'[s][p] = Idle
      /\ lastSent'[s][p] = last
      /\ ~ (t = s /\ q = p) => push'[t][q] = push[t][q] /\ lastSent'[t][q] = lastSent[t][q]
  <2>1. push \in [Server -> [Server -> PushState]] /\ lastSent \in [Server -> [Server -> Nat]]
    BY <1>1 DEF TypeOK
  <2> HIDE DEF last
  <2> QED
    BY <1>1, <1>2, <2>1
<1>4. Keeps(t, q)
  BY <1>1, <1>2, SameKeeps
<1>5. CASE ~ (t = s /\ q = p)
  BY <1>1, <1>2, <1>3, <1>4, <1>5, OthersStep
<1>6. CASE t = s /\ q = p
  <2>1. PairInv(s, p) /\ lastSent[s][p] \in Nat /\ lastRowId[s] \in Nat
        /\ local[s] \in [Address -> LocalRow]
    BY <1>1, <1>6 DEF TypeOK
  <2>2. \A x \in batch : x \in Assoc /\ x.id \in Nat /\ x.id <= lastRowId[s]
    BY <1>1, BatchIsCarried
  <2>3. batch # {}
    BY <1>1, <1>2 DEF CarriedInv, PushesNotEmpty
  <2>4. /\ Ids(batch) \in SUBSET Nat /\ Ids(batch) # {}
        /\ \A i \in Ids(batch) : i <= lastRowId[s]
    BY <2>2, <2>3 DEF Ids
  <2>5. last \in Ids(batch)
    BY <2>1, <2>4, MaxOfBounded
  <2>6. PICK y \in batch : y.id = last
    BY <2>5 DEF Ids
  <2>7. \A a \in Address : LocalAssoc(s, a)' = LocalAssoc(s, a)
    BY <1>2 DEF LocalAssoc
  <2>8. ASSUME NEW a \in Address, local[s][a].id # 0, local[s][a].id <= last
        PROVE  Reflects(global[p], s, LocalAssoc(s, a))
    <3>0. local[s][a].id \in Nat
      BY <2>1 DEF LocalRow
    <3>1. CASE local[s][a].id <= lastSent[s][p]
      BY <2>1, <2>8, <3>1 DEF PairInv, AckedReflected
    <3>2. CASE lastSent[s][p] < local[s][a].id
      <4>1. LocalAssoc(s, a) \in batch
        BY <2>1, <2>6, <2>8, <3>2 DEF PairInv, BatchHasNoHoles
      <4>2. LocalAssoc(s, a) = LocalAssoc(s, LocalAssoc(s, a).address)
        BY DEF LocalAssoc
      <4> QED
        BY <1>2, <2>1, <4>1, <4>2 DEF PairInv, BatchHasNoHoles
    <3> QED
      BY <2>1, <3>0, <3>1, <3>2
  <2>9. last <= lastRowId[s]
    BY <2>4, <2>5
  <2> HIDE DEF last
  <2>10. AckedReflected(s, p)'
    BY <1>2, <1>3, <2>7, <2>8, <2>9 DEF AckedReflected
  <2>11. BatchHasNoHoles(s, p)'
    BY <1>3, IdleFields DEF BatchHasNoHoles
  <2> QED
    BY <1>6, <2>10, <2>11 DEF PairInv
<1> QED
  BY <1>5, <1>6

(* What p stores of a batch of s.                                          *)
LEMMA ReceiveAck ==
    ASSUME AckInv, SingleHome, NEW s \in Server, NEW p \in Server, NEW failed,
           Receive(s, p, failed), NEW t \in Server, NEW q \in Peers(t)
    PROVE  PairInv(t, q)'
<1> DEFINE batch == push[s][p].batch
           stored == Committed(batch, failed)
           outcome == IF failed = 0 THEN "stored" ELSE "refused"
<1>1. CarriedInv /\ TypeOK /\ PairInv(t, q) /\ q \in Server /\ q # t
  BY DEF AckInv, CarriedInv, Peers
<1>2. /\ push[s][p].status = "sent"
      /\ global' = [global EXCEPT ![p] = Store(@, s, stored)]
      /\ push' = [push EXCEPT ![s][p].status = outcome]
      /\ UNCHANGED <<local, lastRowId, lastSent, late, clock>>
  BY DEF Receive
<1>3. \A x \in batch : /\ x \in Carried(s) /\ x \in Assoc /\ s \in BindsAt[x.address]
                       /\ x.address \in Address /\ x.id \in Nat
                       /\ x.id <= local[s][x.address].id
  BY <1>1, BatchIsCarried
<1>4. stored \subseteq batch /\ stored \in SUBSET Assoc
  BY <1>3, CommittedSubset
<1>5. failed = 0 => stored = batch
  BY DEF Committed
<1>6. /\ push'[s][p].batch = batch
      /\ push'[s][p].status = outcome
      /\ ~ (t = s /\ q = p) => push'[t][q] = push[t][q]
  <2>1. push[s][p] \in PushState /\ push \in [Server -> [Server -> PushState]]
    BY <1>1 DEF TypeOK
  <2>2. push' = [push EXCEPT ![s] = [push[s] EXCEPT ![p] =
                                        [push[s][p] EXCEPT !.status = outcome]]]
    BY <1>2
  <2>3. /\ [push[s][p] EXCEPT !.status = outcome].batch = batch
        /\ [push[s][p] EXCEPT !.status = outcome].status = outcome
    BY <2>1 DEF PushState
  <2> HIDE DEF outcome, batch
  <2> QED
    BY <1>1, <2>1, <2>2, <2>3
<1> HIDE DEF stored
<1>7. /\ global[p] \in SUBSET GlobalRow
      /\ global'[p] = Store(global[p], s, stored)
      /\ \A u \in Server \ {p} : global'[u] = global[u]
  BY <1>1, <1>2 DEF TypeOK
<1>8. CASE t # s \/ q # p
  <2>1. Keeps(t, q)
    <3>1. CASE q # p
      BY <1>1, <1>7, <3>1, SameKeeps
    <3>2. CASE q = p /\ t # s
      BY <1>1, <1>3, <1>4, <1>7, <3>2, OthersKeep
    <3> QED
      BY <1>8, <3>1, <3>2
  <2> QED
    BY <1>1, <1>2, <1>6, <1>8, <2>1, OthersStep
<1>9. CASE t = s /\ q = p
  <2>1. PairInv(s, p) /\ lastSent[s][p] \in Nat /\ local[s] \in [Address -> LocalRow]
    BY <1>1, <1>9 DEF TypeOK
  <2>2. \A a \in Address : LocalAssoc(s, a)' = LocalAssoc(s, a)
    BY <1>2 DEF LocalAssoc
  <2>3. ASSUME NEW a \in Address, local[s][a].id # 0, local[s][a].id <= lastSent[s][p]
        PROVE  Reflects(global'[p], s, LocalAssoc(s, a))
    <3>1. /\ LocalAssoc(s, a) \in Assoc /\ LocalAssoc(s, a).address = a
          /\ Reflects(global[p], s, LocalAssoc(s, a))
      BY <1>1, <2>1, <2>3, LocalIsCarried DEF PairInv, AckedReflected
    <3>2. \A y \in stored : y.address # a
      <4> SUFFICES ASSUME NEW y \in stored, y.address = a PROVE FALSE
        OBVIOUS
      <4>1. lastSent[s][p] < y.id /\ y.id <= local[s][a].id /\ y.id \in Nat
        BY <1>3, <1>4, <2>1 DEF PairInv, BatchHasNoHoles
      <4> QED
        BY <2>1, <2>3, <4>1 DEF LocalRow
    <3> QED
      BY <1>4, <1>7, <3>1, <3>2, StoreKeeps
  <2>4. ASSUME failed = 0, NEW x \in batch
        PROVE  Reflects(global'[p], s, x)
    <3>1. \A y \in stored : y.address = x.address => y = x
      BY <1>4, <2>1 DEF PairInv, BatchHasNoHoles
    <3>2. ASSUME NEW r \in global[p], r.origin = s, r.originId = x.id
          PROVE  AssocOf(r) = x
      <4>1. AssocOf(r) \in Carried(s) /\ AssocOf(r).id = x.id
        BY <1>1, <3>2, CarriedNow DEF AssocOf
      <4> QED
        BY <1>1, <1>3, <4>1 DEF CarriedInv, OriginIsNewest
    <3> QED
      BY <1>4, <1>5, <1>7, <2>4, <3>1, <3>2, StoreReflects
  <2>5. AckedReflected(s, p)'
    BY <1>2, <2>1, <2>2, <2>3 DEF PairInv, AckedReflected
  <2>6. outcome = "stored" => failed = 0
    OBVIOUS
  <2> HIDE DEF outcome
  <2>7. BatchHasNoHoles(s, p)'
    BY <1>2, <1>6, <2>1, <2>2, <2>4, <2>6 DEF PairInv, BatchHasNoHoles
  <2> QED
    BY <1>9, <2>5, <2>7 DEF PairInv
<1> QED
  BY <1>8, <1>9

LEMMA InitAck == Init => AckInv
<1> SUFFICES ASSUME Init PROVE AckInv
  OBVIOUS
<1>1. CarriedInv /\ late = {}
  BY InitCarried DEF Init
<1>2. ASSUME NEW s \in Server, NEW p \in Server PROVE PairInv(s, p)
  <2>1. /\ lastSent[s][p] = 0 /\ lastRowId[s] = 0 /\ push[s][p].batch = {}
        /\ \A a \in Address : local[s][a].id = 0
    BY IdleFields DEF Init, EmptyLocalTable, NoRow
  <2> QED
    BY <2>1 DEF PairInv, AckedReflected, BatchHasNoHoles
<1> QED
  BY <1>1, <1>2 DEF AckInv, Peers

LEMMA NextAck ==
    ASSUME SingleHome, LateLinks = {}
    PROVE  AckInv /\ [Next]_vars => AckInv'
<1> SUFFICES ASSUME AckInv, [Next]_vars PROVE AckInv'
  OBVIOUS
<1>1. CarriedInv'
  BY NextCarried DEF AckInv
<1>2. late' = {}
  <2>1. late = {} /\ \A s : Unprocessed(s, Server) = {} /\ \A p : Unprocessed(s, {p}) = {}
    BY DEF AckInv, Unprocessed
  <2>2. ASSUME NEW s \in Server, NEW a \in Address, NEW m \in Mxid,
               \/ Bind(s, a, m) \/ Unbind(s, a, m) \/ UnbindNothing(s, a, m)
               \/ \E upTo \in 0..MaxRowId : \/ BindCrash(s, a, m, upTo)
                                            \/ UnbindCrash(s, a, m, upTo)
        PROVE  late' = late \/ late' = late \cup Unprocessed(s, Server)
    BY <2>2 DEF Bind, Unbind, UnbindNothing, BindCrash, UnbindCrash, CrashWithin,
                AbandonPushes
  <2>3. ASSUME NEW s \in Server, Restart(s) \/ ScheduledPush(s)
        PROVE  late' = late \/ late' = late \cup Unprocessed(s, Server)
    BY <2>3 DEF Restart, AbandonPushes, ScheduledPush
  <2>4. ASSUME NEW s \in Server, NEW p \in Server,
               \/ \E failed \in 0..MaxRowId : Receive(s, p, failed)
               \/ PushSucceeded(s, p) \/ PushRefused(s, p) \/ PushError(s, p)
        PROVE  late' = late \/ late' = late \cup Unprocessed(s, {p})
    BY <2>4 DEF Receive, PushSucceeded, PushRefused, PushError
  <2>5. CASE UNCHANGED vars
    BY <2>1, <2>5 DEF vars
  <2> QED
    BY <2>1, <2>2, <2>3, <2>4, <2>5 DEF Next
<1>3. ASSUME NEW t \in Server, NEW q \in Peers(t) PROVE PairInv(t, q)'
  <2>1. ASSUME NEW s \in Server, NEW a \in Address, NEW m \in Mxid,
               \/ Bind(s, a, m) \/ Unbind(s, a, m) \/ UnbindNothing(s, a, m)
               \/ \E upTo \in 0..MaxRowId : \/ BindCrash(s, a, m, upTo)
                                            \/ UnbindCrash(s, a, m, upTo)
        PROVE  PairInv(t, q)'
    BY <2>1, BindAck, UnbindNothingAck
  <2>2. ASSUME NEW s \in Server, Restart(s) \/ ScheduledPush(s)
        PROVE  PairInv(t, q)'
    BY <2>2, PushDroppedAck, ScheduledPushAck
  <2>3. ASSUME NEW s \in Server, NEW p \in Server,
               \/ \E failed \in 0..MaxRowId : Receive(s, p, failed)
               \/ PushSucceeded(s, p) \/ PushRefused(s, p) \/ PushError(s, p)
        PROVE  PairInv(t, q)'
    BY <2>3, ReceiveAck, PushSucceededAck, PushDroppedAck
  <2>4. CASE \E r \in late, failed \in 0..MaxRowId : ReceiveLate(r, failed)
    BY <2>4 DEF AckInv
  <2>5. CASE UNCHANGED vars
    BY <2>5 DEF vars, AckInv, PairInv, AckedReflected, BatchHasNoHoles, LocalAssoc
  <2> QED
    BY <2>1, <2>2, <2>3, <2>4, <2>5 DEF Next
<1> QED
  BY <1>1, <1>2, <1>3 DEF AckInv, Peers

-----------------------------------------------------------------------------
(* A lookup finds what a table reflects, if the other rows of the address  *)
(* are older.                                                              *)
LEMMA NewestIsFound ==
    ASSUME NEW tbl \in SUBSET GlobalRow, NEW s \in Server, NEW x \in Assoc,
           Reflects(tbl, s, x),
           \A r \in tbl : r.address = x.address => r = RowOf(s, x) \/ r.ts < x.ts
    PROVE  getMxid(tbl, x.address) = x.mxid
<1> DEFINE rows == {r \in tbl : r.address = x.address}
           Newest(r) == \A q \in rows : q.ts <= r.ts
           row == RowOf(s, x)
<1>1. CASE x.mxid = NoMxid
  <2>1. rows = {}
    BY <1>1 DEF Reflects
  <2> QED
    BY <1>1, <2>1 DEF getMxid
<1>2. CASE x.mxid # NoMxid
  <2>1. row \in rows /\ row.ts = x.ts /\ row.mxid = x.mxid /\ x.ts \in Nat
    BY <1>2 DEF Reflects, RowOf, Assoc
  <2>2. \A r \in rows : r.ts \in Nat /\ (r = row \/ r.ts < row.ts)
    BY <2>1 DEF GlobalRow
  <2>3. Newest(row) /\ \A r \in rows : Newest(r) => r = row
    BY <2>1, <2>2
  <2> HIDE DEF row
  <2>4. (CHOOSE r \in rows : Newest(r)) = row
    BY <2>1, <2>3
  <2> QED
    BY <2>1, <2>4 DEF getMxid
<1> QED
  BY <1>1, <1>2

(* What the local table of its home has for an address is what a lookup    *)
(* finds where that is reflected; of an address without a row nothing is   *)
(* found anywhere.                                                         *)
FoundIfReflected ==
    \A s, p \in Server, a \in Address :
        (/\ s \in BindsAt[a]
         /\ local[s][a].id # 0 => Reflects(global[p], s, LocalAssoc(s, a))
         /\ local[s][a].id = 0 => local[s][a].mxid = NoMxid)
          => getMxid(global[p], a) = local[s][a].mxid

LEMMA ReflectedIsFound ==
    ASSUME CarriedInv, SingleHome
    PROVE  FoundIfReflected
<1> SUFFICES ASSUME NEW s \in Server, NEW p \in Server, NEW a \in Address,
                    s \in BindsAt[a],
                    local[s][a].id # 0 => Reflects(global[p], s, LocalAssoc(s, a)),
                    local[s][a].id = 0 => local[s][a].mxid = NoMxid
             PROVE  getMxid(global[p], a) = local[s][a].mxid
  BY DEF FoundIfReflected
<1> DEFINE x == LocalAssoc(s, a)
<1>1. TypeOK /\ OriginIsNewest /\ global[p] \in SUBSET GlobalRow
  BY DEF CarriedInv, TypeOK
<1>2. ASSUME NEW r \in global[p], r.address = a
      PROVE  /\ r.origin = s /\ r \in GlobalRow /\ AssocOf(r) \in Carried(s)
             /\ AssocOf(r).id = r.originId /\ AssocOf(r).ts = r.ts
             /\ 0 < r.originId /\ r.originId <= local[s][a].id
  <2>1. r \in GlobalRow /\ r.origin \in Server
    BY <1>1 DEF GlobalRow
  <2>2. AssocOf(r) \in Carried(r.origin) /\ AssocOf(r).address = a
        /\ AssocOf(r).id = r.originId /\ AssocOf(r).ts = r.ts
    BY <1>1, <1>2, CarriedNow DEF AssocOf
  <2>3. r.origin = s
    BY <1>1, <2>1, <2>2 DEF OriginIsNewest, SingleHome
  <2> QED
    BY <1>1, <2>1, <2>2, <2>3 DEF OriginIsNewest
<1>3. local[s][a].id \in Nat
  BY <1>1 DEF TypeOK, LocalRow
<1>4. CASE local[s][a].id = 0
  <2>1. {r \in global[p] : r.address = a} = {}
    <3> SUFFICES ASSUME NEW r \in global[p], r.address = a PROVE FALSE
      OBVIOUS
    <3>1. r.originId \in Nat /\ 0 < r.originId /\ r.originId <= 0
      BY <1>2, <1>4 DEF GlobalRow
    <3> QED
      BY <3>1
  <2> QED
    BY <1>4, <2>1 DEF getMxid
<1>5. CASE local[s][a].id # 0
  <2>1. /\ x \in Carried(s) /\ x \in Assoc /\ x.address = a
        /\ x.mxid = local[s][a].mxid /\ x.id = local[s][a].id
    BY <1>5, LocalIsCarried
  <2>2. ASSUME NEW r \in global[p], r.address = a
        PROVE  r = RowOf(s, x) \/ r.ts < x.ts
    <3>1. CASE AssocOf(r).id = x.id
      <4>1. AssocOf(r) = x
        BY <1>1, <1>2, <2>1, <2>2, <3>1 DEF OriginIsNewest
      <4> QED
        BY <1>2, <2>2, <4>1 DEF RowOf, AssocOf, GlobalRow
    <3>2. CASE AssocOf(r).id < x.id
      BY <1>1, <1>2, <2>1, <2>2, <3>2 DEF OriginIsNewest
    <3>3. r.originId \in Nat
      BY <1>2, <2>2 DEF GlobalRow
    <3> QED
      BY <1>2, <1>3, <2>1, <2>2, <3>1, <3>2, <3>3
  <2>3. Reflects(global[p], s, x)
    BY <1>5
  <2> HIDE DEF x
  <2> QED
    BY <1>1, <2>1, <2>2, <2>3, NewestIsFound
<1> QED
  BY <1>4, <1>5

(* Once lastSentVersion covers a local row the peer answers lookups of its *)
(* address with it, for any number of Sydents, addresses and batches.      *)
THEOREM AcknowledgedIsReflected ==
    ASSUME SingleHome, LateLinks = {}
    PROVE  Spec => []Acknowledged
<1>1. AckInv => Acknowledged
  <2> SUFFICES ASSUME AckInv, NEW s \in Server, NEW p \in Peers(s), NEW a \in Address,
                      local[s][a].id # 0, local[s][a].id <= lastSent[s][p]
               PROVE  getMxid(global[p], a) = local[s][a].mxid
    BY DEF Acknowledged
  <2>1. p \in Server /\ Reflects(global[p], s, LocalAssoc(s, a))
    BY DEF AckInv, PairInv, AckedReflected, Peers
  <2>2. CarriedInv /\ s \in BindsAt[a]
    BY LocalIsCarried DEF AckInv
  <2> QED
    BY <2>1, <2>2, ReflectedIsFound DEF FoundIfReflected
<1> QED
  BY <1>1, InitAck, NextAck, PTL DEF Spec

-----------------------------------------------------------------------------
(* The local push *)

(* lastIdFromServer is the largest id of an own row in the global table.   *)
LEMMA LastIdIsLargest ==
    ASSUME CarriedInv, NEW s \in Server
    PROVE  LET last == lastIdFromServer(global[s], s)
           IN  /\ last \in Nat /\ last <= lastRowId[s]
               /\ \A r \in global[s] : r.origin = s => r.originId <= last
               /\ last # 0 => \E r \in global[s] : r.origin = s /\ r.originId = last
<1> DEFINE ids == {g.originId : g \in {r \in global[s] : r.origin = s}}
<1>1. global[s] \in SUBSET GlobalRow /\ lastRowId[s] \in Nat /\ TypeOK /\ OriginIsNewest
  BY DEF CarriedInv, TypeOK
<1>2. ASSUME NEW r \in global[s], r.origin = s
      PROVE  r.originId <= lastRowId[s] /\ r.originId \in Nat
  <2>1. AssocOf(r) \in Carried(s) /\ AssocOf(r).id = r.originId
    BY <1>2, InCarried DEF AssocOf
  <2> QED
    BY <1>1, <2>1 DEF OriginIsNewest, GlobalRow
<1>3. ids \in SUBSET Nat /\ \A i \in ids : i <= lastRowId[s]
  BY <1>2
<1>4. ids # {} => Max(ids) \in ids /\ \A i \in ids : i <= Max(ids)
  <2> HIDE DEF ids
  <2> QED
    BY <1>1, <1>3, MaxOfBounded
<1>5. lastIdFromServer(global[s], s) = IF ids = {} THEN 0 ELSE Max(ids)
  BY DEF lastIdFromServer
<1>6. CASE ids = {}
  BY <1>1, <1>5, <1>6
<1>7. CASE ids # {}
  <2>1. PICK k : k = Max(ids)
    OBVIOUS
  <2>2. k \in ids /\ (\A i \in ids : i <= k) /\ lastIdFromServer(global[s], s) = k
    BY <1>4, <1>5, <1>7, <2>1
  <2>3. k \in Nat /\ k <= lastRowId[s]
    BY <1>3, <2>2
  <2> QED
    BY <2>2, <2>3
<1> QED
  BY <1>6, <1>7

(* The row that addBinding or removeBinding has written is in what the     *)
(* local push stores, and newer than all other rows of the address.        *)
LEMMA WrittenIsFound ==
    ASSUME CarriedInv, NEW s \in Server, NEW a \in Address,
           NEW m \in Mxid \cup {NoMxid}, NEW tbl,
           tbl = addOrUpdateAssociation(local[s], a, m, lastRowId[s] + 1, clock + 1)
    PROVE  getMxid(doLocalPush(global[s], s, tbl, lastRowId[s] + 1), a) = m
<1> DEFINE last == lastIdFromServer(global[s], s)
           n == lastRowId[s] + 1
           x == [id |-> n, address |-> a, mxid |-> m, ts |-> clock + 1]
           new == {y \in getAssociationsAfterId(tbl, last) : y.id <= n}
<1>1. /\ TypeOK /\ OriginIsNewest /\ global[s] \in SUBSET GlobalRow
      /\ lastRowId[s] \in Nat /\ clock \in Nat /\ local[s] \in [Address -> LocalRow]
  BY DEF CarriedInv, TypeOK
<1>2. last \in Nat /\ last <= lastRowId[s]
  BY LastIdIsLargest
<1>3. n \in Nat /\ clock + 1 \in Nat /\ x \in Assoc
  BY <1>1 DEF Assoc
<1>4. tbl \in [Address -> LocalRow]
  BY <1>1, <1>3, BoundTableType
<1>5. tbl[a].id = n /\ tbl[a].mxid = m /\ tbl[a].ts = clock + 1
  BY <1>1 DEF addOrUpdateAssociation
<1>6. new \in SUBSET Assoc /\ \A y \in new : y.address = a => y = x
  <2>1. getAssociationsAfterId(tbl, last) \in SUBSET Assoc
    BY <1>2, <1>4, AfterIdRows
  <2> QED
    BY <1>5, <2>1 DEF getAssociationsAfterId
<1>7. x \in new
  <2>1. last < n /\ n <= n
    BY <1>1, <1>2
  <2>2. tbl[a].id > last
    BY <1>2, <1>3, <1>5, <2>1
  <2>3. x \in getAssociationsAfterId(tbl, last)
    BY <1>5, <2>2 DEF getAssociationsAfterId
  <2> QED
    BY <2>1, <2>3
<1>8. ASSUME NEW r \in global[s]
      PROVE  r.ts < clock + 1 /\ (r.origin = s => r.originId # n)
  <2>1. r \in GlobalRow /\ r.origin \in Server
    BY <1>1 DEF GlobalRow
  <2>2. AssocOf(r) \in Carried(r.origin) /\ AssocOf(r).ts = r.ts
        /\ AssocOf(r).id = r.originId
    BY <1>1, CarriedNow DEF AssocOf
  <2>3. r.ts <= clock /\ r.originId <= lastRowId[r.origin]
    BY <1>1, <2>1, <2>2 DEF OriginIsNewest
  <2>4. r.ts \in Nat /\ r.originId \in Nat
    BY <2>1 DEF GlobalRow
  <2> QED
    BY <1>1, <2>3, <2>4
<1>9. x.address = a /\ x.id = n /\ x.mxid = m /\ x.ts = clock + 1
  OBVIOUS
<1> HIDE DEF new, x, n
<1>10. Reflects(Store(global[s], s, new), s, x)
  BY <1>1, <1>6, <1>7, <1>8, <1>9, StoreReflects
<1>11. Store(global[s], s, new) \in SUBSET GlobalRow
  BY <1>1, <1>6, StoreType
<1>12. ASSUME NEW r \in Store(global[s], s, new), r.address = a
       PROVE  r = RowOf(s, x) \/ r.ts < x.ts
  <2>1. CASE r \in global[s]
    BY <1>8, <1>9, <2>1
  <2>2. ASSUME NEW y \in new, r = RowOf(s, y) PROVE r = RowOf(s, x)
    <3>1. y.address = a
      BY <1>12, <2>2 DEF RowOf
    <3> QED
      BY <1>6, <2>2, <3>1
  <2> QED
    BY <2>1, <2>2, StoreRows
<1>13. getMxid(Store(global[s], s, new), a) = m
  BY <1>3, <1>9, <1>10, <1>11, <1>12, NewestIsFound
<1> QED
  BY <1>13 DEF doLocalPush, new, n

(* When addBinding returns, a lookup at the same Sydent gives the new      *)
(* mxid, and nothing when removeBinding returns: wherever addresses are    *)
(* bound, whatever is late and whatever a crash has left to be pushed.     *)
THEOREM BindIsVisibleAtOnce == Spec => BindingVisibleAtOnce
<1> DEFINE Step == \A s \in Server, a \in Address, m \in Mxid :
                      /\ Bind(s, a, m) => getMxid(global'[s], a) = m
                      /\ Unbind(s, a, m) => getMxid(global'[s], a) = NoMxid
<1>1. ASSUME CarriedInv PROVE Step
  <2> SUFFICES ASSUME NEW s \in Server, NEW a \in Address, NEW m \in Mxid
               PROVE  /\ Bind(s, a, m) => getMxid(global'[s], a) = m
                      /\ Unbind(s, a, m) => getMxid(global'[s], a) = NoMxid
    OBVIOUS
  <2>1. DOMAIN global = Server
    BY <1>1 DEF CarriedInv, TypeOK
  <2>2. ASSUME Bind(s, a, m) PROVE getMxid(global'[s], a) = m
    <3>1. global'[s] = doLocalPush(global[s], s, BoundTable(s, a, m), lastRowId[s] + 1)
      BY <2>1, <2>2 DEF Bind
    <3> QED
      BY <1>1, <3>1, WrittenIsFound DEF BoundTable
  <2>3. ASSUME Unbind(s, a, m) PROVE getMxid(global'[s], a) = NoMxid
    <3>1. global'[s] = doLocalPush(global[s], s, UnboundTable(s, a), lastRowId[s] + 1)
      BY <2>1, <2>3 DEF Unbind
    <3> QED
      BY <1>1, <3>1, UnboundTableIsWritten, WrittenIsFound
  <2> QED
    BY <2>2, <2>3
<1>2. CarriedInv /\ [Next]_vars => [Step]_vars
  BY <1>1
<1> QED
  BY <1>2, CarriedInvariant, PTL DEF Spec, BindingVisibleAtOnce

-----------------------------------------------------------------------------
(* What an interrupted local push leaves to the next one *)

(* A local push up to some id, after a row was written or not: what the    *)
(* table has up to that id is reflected afterwards.                        *)
LEMMA LocalPushReflects ==
    ASSUME LocalInv, NEW s \in Server, NEW upTo \in Nat,
           NEW tbl \in [Address -> LocalRow],
           \A b \in Address : tbl[b] = local[s][b] \/ tbl[b].id > lastRowId[s],
           local'[s] = tbl,
           global'[s] = doLocalPush(global[s], s, tbl, upTo),
           NEW b \in Address, tbl[b].id # 0,
           \/ tbl[b].id <= upTo
           \/ \E r \in global'[s] : r.origin = s /\ tbl[b].id <= r.originId
    PROVE  Reflects(global'[s], s, LocalAssoc(s, b)')
<1> DEFINE last == lastIdFromServer(global[s], s)
           y == [id |-> tbl[b].id, address |-> b, mxid |-> tbl[b].mxid, ts |-> tbl[b].ts]
           new == {z \in getAssociationsAfterId(tbl, last) : z.id <= upTo}
<1>1. CarriedInv /\ global[s] \in SUBSET GlobalRow /\ lastRowId[s] \in Nat /\ OwnPushed(s)
  BY DEF LocalInv, CarriedInv, TypeOK
<1>2. /\ last \in Nat /\ last <= lastRowId[s]
      /\ \A r \in global[s] : r.origin = s => r.originId <= last
      /\ last # 0 => \E r \in global[s] : r.origin = s /\ r.originId = last
  BY <1>1, LastIdIsLargest
<1>3. global'[s] = Store(global[s], s, new) /\ LocalAssoc(s, b)' = y
  BY DEF doLocalPush, LocalAssoc
<1>4. y \in Assoc /\ y.id = tbl[b].id /\ y.id \in Nat /\ y.address = b
  BY DEF LocalRow, Assoc
<1>5. /\ getAssociationsAfterId(tbl, last) \in SUBSET Assoc
      /\ \A z \in getAssociationsAfterId(tbl, last) :
            last < z.id /\ z.id = tbl[z.address].id
  BY <1>2, AfterIdRows
<1>6. new \in SUBSET Assoc /\ \A z \in new : last < z.id /\ z.id = tbl[z.address].id
                                             /\ z.id <= upTo /\ z.id \in Nat
  BY <1>5 DEF Assoc
<1>7. \A z \in new : z.address = b => z = y
  BY DEF getAssociationsAfterId
<1>8. tbl[b].id > last /\ tbl[b].id <= upTo => y \in new
  BY DEF getAssociationsAfterId
<1> HIDE DEF new, y, last
<1>9. CASE y.id <= last
  <2>1. last # 0 /\ tbl[b] = local[s][b]
    BY <1>1, <1>2, <1>4, <1>9
  <2>2. LocalAssoc(s, b) = y
    BY <2>1 DEF LocalAssoc, y
  <2>3. Reflects(global[s], s, y)
    BY <1>1, <1>2, <1>4, <1>9, <2>1, <2>2 DEF OwnPushed
  <2>4. \A z \in new : z.address # b
    BY <1>2, <1>4, <1>6, <1>9
  <2> QED
    BY <1>1, <1>3, <1>4, <1>6, <2>3, <2>4, StoreKeeps
<1>10. CASE last < y.id
  <2>1. y.id <= upTo
    <3> SUFFICES ASSUME NEW r \in Store(global[s], s, new), r.origin = s,
                        y.id <= r.originId
                 PROVE  y.id <= upTo
      BY <1>3, <1>4
    <3>1. CASE r \in global[s]
      <4>1. r.originId \in Nat /\ r.originId <= last
        BY <1>1, <1>2, <3>1 DEF GlobalRow
      <4> QED
        BY <1>2, <1>4, <1>10, <4>1
    <3>2. ASSUME NEW z \in new, r = RowOf(s, z) PROVE y.id <= upTo
      <4>1. r.originId = z.id
        BY <3>2 DEF RowOf
      <4> QED
        BY <1>4, <1>6, <4>1
    <3> QED
      BY <3>1, <3>2, StoreRows
  <2>2. y \in new
    BY <1>2, <1>4, <1>8, <1>10, <2>1
  <2>3. \A r \in global[s] : r.origin = s => r.originId # y.id
    <3> SUFFICES ASSUME NEW r \in global[s], r.origin = s, r.originId = y.id PROVE FALSE
      OBVIOUS
    <3> QED
      BY <1>2, <1>4, <1>10
  <2> QED
    BY <1>1, <1>3, <1>4, <1>6, <1>7, <2>2, <2>3, StoreReflects
<1> QED
  BY <1>2, <1>4, <1>9, <1>10

(* addBinding and removeBinding, completed or not, are local pushes of a   *)
(* table with at most one new row; completed, they go up to its last id.   *)
LEMMA WritesPush ==
    ASSUME CarriedInv, NEW s \in Server, NEW a \in Address, NEW m \in Mxid, NEW n \in Nat,
           \/ Bind(s, a, m) \/ Unbind(s, a, m) \/ UnbindNothing(s, a, m)
           \/ BindCrash(s, a, m, n) \/ UnbindCrash(s, a, m, n)
    PROVE  \E tbl \in [Address -> LocalRow], upTo \in Nat :
              /\ \A b \in Address : tbl[b] = local[s][b] \/ tbl[b].id > lastRowId[s]
              /\ local' = [local EXCEPT ![s] = tbl]
              /\ global' = [global EXCEPT ![s] = doLocalPush(@, s, tbl, upTo)]
              /\ \/ \A b \in Address : tbl[b].id <= upTo
                 \/ BindCrash(s, a, m, n) \/ UnbindCrash(s, a, m, n)
<1> DEFINE NewTable(k) == addOrUpdateAssociation(local[s], a, k, lastRowId[s] + 1, clock + 1)
<1>1. /\ TypeOK /\ lastRowId[s] \in Nat /\ clock \in Nat
      /\ local[s] \in [Address -> LocalRow] /\ DOMAIN local = Server
      /\ local = [local EXCEPT ![s] = local[s]]
  BY DEF CarriedInv, TypeOK
<1>2. \A b \in Address : local[s][b].id \in Nat /\ local[s][b].id <= lastRowId[s]
  <2> SUFFICES ASSUME NEW b \in Address
               PROVE  local[s][b].id \in Nat /\ local[s][b].id <= lastRowId[s]
    OBVIOUS
  <2>1. local[s][b].id \in Nat
    BY <1>1 DEF LocalRow
  <2>2. CASE local[s][b].id # 0
    BY <1>1, <2>1, <2>2, LocalIsCarried DEF CarriedInv, OriginIsNewest
  <2> QED
    BY <1>1, <2>1, <2>2
<1>3. ASSUME NEW k \in Mxid \cup {NoMxid}
      PROVE  /\ NewTable(k) \in [Address -> LocalRow]
             /\ \A b \in Address : /\ \/ NewTable(k)[b] = local[s][b]
                                      \/ NewTable(k)[b].id > lastRowId[s]
                                   /\ NewTable(k)[b].id <= lastRowId[s] + 1
  <2>1. lastRowId[s] + 1 \in Nat /\ clock + 1 \in Nat
    BY <1>1
  <2>2. NewTable(k) \in [Address -> LocalRow]
    BY <1>1, <2>1, BoundTableType
  <2>3. /\ NewTable(k)[a].id = lastRowId[s] + 1
        /\ \A b \in Address \ {a} : NewTable(k)[b] = local[s][b]
    BY <1>1 DEF addOrUpdateAssociation
  <2>4. lastRowId[s] + 1 > lastRowId[s] /\ lastRowId[s] + 1 <= lastRowId[s] + 1
        /\ \A b \in Address : local[s][b].id <= lastRowId[s] + 1
    BY <1>1, <1>2
  <2> HIDE DEF NewTable
  <2> QED
    BY <2>2, <2>3, <2>4
<1>4. lastRowId[s] + 1 \in Nat
  BY <1>1
<1>5. BoundTable(s, a, m) = NewTable(m) /\ UnboundTable(s, a) = NewTable(NoMxid)
  BY UnboundTableIsWritten DEF BoundTable
<1> HIDE DEF NewTable
<1>6. CASE Bind(s, a, m)
  <2>1. /\ local' = [local EXCEPT ![s] = NewTable(m)]
        /\ global' = [global EXCEPT ![s] = doLocalPush(@, s, NewTable(m), lastRowId[s] + 1)]
    BY <1>5, <1>6 DEF Bind, WriteLocal
  <2> QED
    BY <1>3, <1>4, <2>1
<1>7. CASE Unbind(s, a, m)
  <2>1. /\ local' = [local EXCEPT ![s] = NewTable(NoMxid)]
        /\ global' = [global EXCEPT ![s] =
                         doLocalPush(@, s, NewTable(NoMxid), lastRowId[s] + 1)]
    BY <1>5, <1>7 DEF Unbind, WriteLocal
  <2> QED
    BY <1>3, <1>4, <2>1
<1>8. CASE UnbindNothing(s, a, m)
  <2>1. /\ local' = [local EXCEPT ![s] = local[s]]
        /\ global' = [global EXCEPT ![s] = doLocalPush(@, s, local[s], lastRowId[s])]
    BY <1>1, <1>8 DEF UnbindNothing
  <2> QED
    BY <1>1, <1>2, <2>1
<1>9. CASE BindCrash(s, a, m, n)
  <2>1. /\ local' = [local EXCEPT ![s] = NewTable(m)]
        /\ global' = [global EXCEPT ![s] = doLocalPush(@, s, NewTable(m), n)]
    BY <1>5, <1>9 DEF BindCrash, CrashWithin, WriteLocal
  <2> QED
    BY <1>3, <1>9, <2>1
<1>10. CASE UnbindCrash(s, a, m, n)
  <2>1. /\ local' = [local EXCEPT ![s] = NewTable(NoMxid)]
        /\ global' = [global EXCEPT ![s] = doLocalPush(@, s, NewTable(NoMxid), n)]
    BY <1>5, <1>10 DEF UnbindCrash, CrashWithin, WriteLocal
  <2> QED
    BY <1>3, <1>10, <2>1
<1> QED
  BY <1>6, <1>7, <1>8, <1>9, <1>10

(* A step that leaves the local table of s alone, and brings others'       *)
(* associations to its global table at most, leaves nothing unpushed.      *)
LEMMA OwnPushedKept ==
    ASSUME LocalInv, SingleHome, NEW s \in Server, local'[s] = local[s],
           \/ global'[s] = global[s]
           \/ \E u \in Server \ {s} : \E assocs \in SUBSET Assoc :
                 /\ \A y \in assocs : u \in BindsAt[y.address]
                 /\ global'[s] = Store(global[s], u, assocs)
    PROVE  OwnPushed(s)'
<1>1. CarriedInv /\ OwnPushed(s)
  BY DEF LocalInv
<1>2. \A a \in Address : LocalAssoc(s, a)' = LocalAssoc(s, a)
  BY DEF LocalAssoc
<1>3. Keeps(s, s)
  <2>1. CASE global'[s] = global[s]
    BY <2>1, SameKeeps
  <2>2. ASSUME NEW u \in Server \ {s}, NEW assocs \in SUBSET Assoc,
               \A y \in assocs : u \in BindsAt[y.address],
               global'[s] = Store(global[s], u, assocs)
        PROVE  Keeps(s, s)
    BY <1>1, <2>2, OthersKeep
  <2> QED
    BY <2>1, <2>2
<1>4. ASSUME NEW r \in global'[s], r.origin = s PROVE r \in global[s]
  <2>1. ASSUME NEW u \in Server \ {s}, NEW assocs \in SUBSET Assoc,
               global'[s] = Store(global[s], u, assocs)
        PROVE  r \in global[s]
    BY <1>4, <2>1, StoreRows DEF RowOf
  <2> QED
    BY <1>4, <2>1
<1> QED
  BY <1>1, <1>2, <1>3, <1>4, LocalIsCarried DEF OwnPushed, Keeps

(* addBinding and removeBinding, completed or not, leave nothing below the *)
(* newest own row unpushed; completed, they leave nothing unpushed at all. *)
LEMMA OwnPushedByWrite ==
    ASSUME LocalInv, SingleHome, NEW s \in Server, NEW a \in Address, NEW m \in Mxid,
           NEW n \in Nat,
           \/ Bind(s, a, m) \/ Unbind(s, a, m) \/ UnbindNothing(s, a, m)
           \/ BindCrash(s, a, m, n) \/ UnbindCrash(s, a, m, n)
    PROVE  /\ \A t \in Server : OwnPushed(t)'
           /\ \/ \A b \in Address : local'[s][b].id # 0 =>
                    Reflects(global'[s], s, LocalAssoc(s, b)')
              \/ BindCrash(s, a, m, n) \/ UnbindCrash(s, a, m, n)
<1>1. /\ CarriedInv /\ DOMAIN local = Server /\ DOMAIN global = Server
      /\ lastRowId[s] \in Nat /\ OwnPushed(s)
  BY DEF LocalInv, CarriedInv, TypeOK
<1>2. PICK tbl \in [Address -> LocalRow], upTo \in Nat :
         /\ \A b \in Address : tbl[b] = local[s][b] \/ tbl[b].id > lastRowId[s]
         /\ local' = [local EXCEPT ![s] = tbl]
         /\ global' = [global EXCEPT ![s] = doLocalPush(@, s, tbl, upTo)]
         /\ \/ \A b \in Address : tbl[b].id <= upTo
            \/ BindCrash(s, a, m, n) \/ UnbindCrash(s, a, m, n)
  BY <1>1, WritesPush
<1>3. local'[s] = tbl /\ global'[s] = doLocalPush(global[s], s, tbl, upTo)
  BY <1>1, <1>2
<1>4. OwnPushed(s)'
  <2>1. ASSUME NEW b \in Address, tbl[b].id = 0 PROVE tbl[b].mxid = NoMxid
    <3>1. tbl[b] = local[s][b]
      BY <1>1, <1>2, <2>1
    <3> QED
      BY <1>1, <2>1, <3>1 DEF OwnPushed
  <2>2. ASSUME NEW r \in global'[s], NEW b \in Address,
               r.origin = s, tbl[b].id # 0, tbl[b].id <= r.originId
        PROVE  Reflects(global'[s], s, LocalAssoc(s, b)')
    BY <1>2, <1>3, <2>2, LocalPushReflects
  <2> QED
    BY <1>3, <2>1, <2>2 DEF OwnPushed
<1>5. ASSUME NEW t \in Server, t # s PROVE OwnPushed(t)'
  <2>1. local'[t] = local[t] /\ global'[t] = global[t]
    BY <1>1, <1>2, <1>5
  <2> QED
    BY <2>1, OwnPushedKept
<1>6. ASSUME \A b \in Address : tbl[b].id <= upTo, NEW b \in Address, tbl[b].id # 0
      PROVE  Reflects(global'[s], s, LocalAssoc(s, b)')
  BY <1>2, <1>3, <1>6, LocalPushReflects
<1> QED
  BY <1>2, <1>3, <1>4, <1>5, <1>6

(* A batch of others that is processed, in time or late.                   *)
LEMMA OwnPushedByReceive ==
    ASSUME LocalInv, SingleHome, NEW u \in Server, NEW p \in Server, u # p,
           NEW batch \in SUBSET Assoc, NEW failed,
           \A y \in batch : u \in BindsAt[y.address],
           local' = local,
           global' = [global EXCEPT ![p] = Store(@, u, Committed(batch, failed))],
           NEW t \in Server
    PROVE  OwnPushed(t)'
<1>1. DOMAIN global = Server
  BY DEF LocalInv, CarriedInv, TypeOK
<1> DEFINE stored == Committed(batch, failed)
<1>2. stored \in SUBSET Assoc /\ \A y \in stored : u \in BindsAt[y.address]
  BY CommittedSubset
<1> HIDE DEF stored
<1>3. CASE t = p
  <2>1. global'[t] = Store(global[t], u, stored)
    BY <1>1, <1>3 DEF stored
  <2> QED
    BY <1>2, <1>3, <2>1, OwnPushedKept
<1>4. CASE t # p
  <2>1. global'[t] = global[t]
    BY <1>1, <1>4
  <2> QED
    BY <2>1, OwnPushedKept
<1> QED
  BY <1>3, <1>4

LEMMA InitLocal == Init => LocalInv
<1> SUFFICES ASSUME Init PROVE LocalInv
  OBVIOUS
<1>1. CarriedInv
  BY InitCarried
<1>2. ASSUME NEW s \in Server PROVE OwnPushed(s)
  BY DEF Init, EmptyLocalTable, NoRow, OwnPushed
<1> QED
  BY <1>1, <1>2 DEF LocalInv, Init

LEMMA NextLocal ==
    ASSUME SingleHome
    PROVE  LocalInv /\ [Next]_vars => LocalInv'
<1> SUFFICES ASSUME LocalInv, [Next]_vars PROVE LocalInv'
  OBVIOUS
<1>1. CarriedInv' /\ CarriedInv /\ TypeOK /\ PushesNotEmpty /\ OriginIsNewest
  BY NextCarried DEF LocalInv, CarriedInv
<1>2. ASSUME NEW r \in late' PROVE r.from # r.to
  <2>1. ASSUME NEW s \in Server,
               \/ r \in Unprocessed(s, Server)
               \/ \E p \in Server : r \in Unprocessed(s, {p})
        PROVE  r.from # r.to
    <3>1. PICK p \in Server : /\ r = [from |-> s, to |-> p, batch |-> push[s][p].batch]
                              /\ push[s][p].status = "sent"
      BY <2>1 DEF Unprocessed
    <3>2. p # s
      BY <1>1, <3>1 DEF PushesNotEmpty
    <3> QED
      BY <3>1, <3>2
  <2>2. r \in late => r.from # r.to
    BY DEF LocalInv
  <2>3. ASSUME NEW s \in Server, NEW a \in Address, NEW m \in Mxid,
               \/ Bind(s, a, m) \/ Unbind(s, a, m) \/ UnbindNothing(s, a, m)
               \/ \E upTo \in 0..MaxRowId : \/ BindCrash(s, a, m, upTo)
                                            \/ UnbindCrash(s, a, m, upTo)
        PROVE  r \in late \/ r \in Unprocessed(s, Server)
    BY <2>3 DEF Bind, Unbind, UnbindNothing, BindCrash, UnbindCrash, CrashWithin,
                AbandonPushes
  <2>4. ASSUME NEW s \in Server, Restart(s) \/ ScheduledPush(s)
        PROVE  r \in late \/ r \in Unprocessed(s, Server)
    BY <2>4 DEF Restart, AbandonPushes, ScheduledPush
  <2>5. ASSUME NEW s \in Server, NEW p \in Server,
               \/ \E failed \in 0..MaxRowId : Receive(s, p, failed)
               \/ PushSucceeded(s, p) \/ PushRefused(s, p) \/ PushError(s, p)
        PROVE  r \in late \/ r \in Unprocessed(s, {p})
    BY <2>5 DEF Receive, PushSucceeded, PushRefused, PushError
  <2>6. ASSUME NEW g \in late, NEW failed \in 0..MaxRowId, ReceiveLate(g, failed)
        PROVE  r \in late
    BY <2>6 DEF ReceiveLate
  <2>7. CASE UNCHANGED vars
    BY <2>2, <2>7 DEF vars
  <2> QED
    BY <2>1, <2>2, <2>3, <2>4, <2>5, <2>6, <2>7 DEF Next
<1>3. ASSUME NEW t \in Server PROVE OwnPushed(t)'
  <2> DEFINE Alone == local' = local /\ global' = global
  <2>1. Alone => OwnPushed(t)'
    BY OwnPushedKept
  <2>2. ASSUME NEW s \in Server, NEW a \in Address, NEW m \in Mxid,
               \/ Bind(s, a, m) \/ Unbind(s, a, m) \/ UnbindNothing(s, a, m)
               \/ \E upTo \in 0..MaxRowId : \/ BindCrash(s, a, m, upTo)
                                            \/ UnbindCrash(s, a, m, upTo)
        PROVE  OwnPushed(t)'
    <3>1. PICK n \in Nat :
             \/ Bind(s, a, m) \/ Unbind(s, a, m) \/ UnbindNothing(s, a, m)
             \/ BindCrash(s, a, m, n) \/ UnbindCrash(s, a, m, n)
      BY <2>2, ReplicationAssumption
    <3> QED
      BY <3>1, OwnPushedByWrite
  <2>3. ASSUME NEW s \in Server, Restart(s) \/ ScheduledPush(s)
        PROVE  Alone
    BY <2>3 DEF Restart, ScheduledPush
  <2>4. ASSUME NEW s \in Server, NEW p \in Server, NEW failed \in 0..MaxRowId,
               Receive(s, p, failed)
        PROVE  OwnPushed(t)'
    <3>1. s # p /\ push[s][p].batch \in SUBSET Assoc
      BY <1>1, <2>4 DEF Receive, PushesNotEmpty, TypeOK, PushState
    <3>2. \A y \in push[s][p].batch : s \in BindsAt[y.address]
      BY <1>1, BatchIsCarried
    <3>3. /\ local' = local
          /\ global' = [global EXCEPT ![p] =
                           Store(@, s, Committed(push[s][p].batch, failed))]
      BY <2>4 DEF Receive
    <3> QED
      BY <3>1, <3>2, <3>3, OwnPushedByReceive
  <2>5. ASSUME NEW s \in Server, NEW p \in Server,
               PushSucceeded(s, p) \/ PushRefused(s, p) \/ PushError(s, p)
        PROVE  Alone
    BY <2>5 DEF PushSucceeded, PushRefused, PushError
  <2>6. ASSUME NEW r \in late, NEW failed \in 0..MaxRowId, ReceiveLate(r, failed)
        PROVE  OwnPushed(t)'
    <3>1. /\ r.from \in Server /\ r.to \in Server /\ r.from # r.to
          /\ r.batch \in SUBSET Assoc
      BY <1>1 DEF LocalInv, TypeOK, Request
    <3>2. \A y \in r.batch : r.from \in BindsAt[y.address]
      BY <1>1, <3>1, CarriedNow DEF OriginIsNewest
    <3>3. /\ local' = local
          /\ global' = [global EXCEPT ![r.to] =
                           Store(@, r.from, Committed(r.batch, failed))]
      BY <2>6 DEF ReceiveLate
    <3> QED
      BY <3>1, <3>2, <3>3, OwnPushedByReceive
  <2>7. CASE UNCHANGED vars
    BY <2>1, <2>7 DEF vars
  <2> QED
    BY <2>1, <2>2, <2>3, <2>4, <2>5, <2>6, <2>7 DEF Next
<1> QED
  BY <1>1, <1>2, <1>3 DEF LocalInv

(* Whatever crashes inside addBinding and removeBinding have left behind,  *)
(* the next one that completes brings the global table up to date with the *)
(* local one, for all addresses that have their home there.  Requests may  *)
(* be late.                                                                *)
THEOREM LocalPushesCatchUp ==
    ASSUME SingleHome
    PROVE  Spec => LocalPushCatchesUp
<1> DEFINE Step == \A s \in Server, a \in Address, m \in Mxid :
                      (Bind(s, a, m) \/ Unbind(s, a, m) \/ UnbindNothing(s, a, m))
                        => \A b \in Address :
                             s \in BindsAt[b] => getMxid(global'[s], b) = local'[s][b].mxid
<1>1. LocalInv => FoundIfReflected
  BY ReflectedIsFound DEF LocalInv
<1>2. ASSUME LocalInv, FoundIfReflected' PROVE Step
  <2> SUFFICES ASSUME NEW s \in Server, NEW a \in Address, NEW m \in Mxid,
                      Bind(s, a, m) \/ Unbind(s, a, m) \/ UnbindNothing(s, a, m),
                      NEW b \in Address, s \in BindsAt[b]
               PROVE  getMxid(global'[s], b) = local'[s][b].mxid
    OBVIOUS
  <2>1. ~ BindCrash(s, a, m, lastRowId[s] + 1) /\ ~ UnbindCrash(s, a, m, lastRowId[s] + 1)
        /\ lastRowId[s] + 1 \in Nat
    BY <1>2 DEF BindCrash, UnbindCrash, CrashWithin, LocalInv, CarriedInv, TypeOK
  <2>2. /\ OwnPushed(s)'
        /\ local'[s][b].id # 0 => Reflects(global'[s], s, LocalAssoc(s, b)')
    BY <1>2, <2>1, OwnPushedByWrite
  <2> QED
    BY <1>2, <2>2 DEF OwnPushed, FoundIfReflected
<1>3. LocalInv /\ FoundIfReflected' /\ [Next]_vars => [Step]_vars
  BY <1>2
<1>4. Spec => []LocalInv
  BY InitLocal, NextLocal, PTL DEF Spec
<1> QED
  BY <1>1, <1>3, <1>4, PTL DEF Spec, LocalPushCatchesUp

-----------------------------------------------------------------------------
(* Replication implements Directory *)

(* Reach finds the version that explains an answer, if there is one.       *)
LEMMA ReachWithin ==
    ASSUME NEW h \in Seq(Mxid \cup {NoMxid}), NEW n \in Nat, NEW k \in Nat, NEW m,
           n <= k, k <= Len(h), m = Abstract!AnswerAt(h, k)
    PROVE  /\ Reach(h, n, m) \in Nat /\ n <= Reach(h, n, m) /\ Reach(h, n, m) <= k
           /\ Abstract!AnswerAt(h, Reach(h, n, m)) = m
<1> DEFINE fits == {j \in n..Len(h) : m = IF j = 0 THEN NoMxid ELSE h[j]}
<1>1. Len(h) \in Nat
  OBVIOUS
<1>2. fits \in SUBSET Nat /\ k \in fits
  BY <1>1 DEF Abstract!AnswerAt
<1>3. PICK j \in fits : \A i \in fits : ~ (<<i, j>> \in OpToRel(<, Nat))
  <2> HIDE DEF fits
  <2> QED
    BY <1>2, NatLessThanWellFounded, WFMin
<1>4. j \in Nat /\ \A i \in fits : j <= i
  <2>1. \A i \in fits : i \in Nat /\ ~ (i < j)
    BY <1>2, <1>3 DEF OpToRel
  <2> QED
    BY <1>2, <2>1
<1>5. Min(fits) \in fits /\ \A i \in fits : Min(fits) <= i
  <2> HIDE DEF fits
  <2> QED
    BY <1>3, <1>4 DEF Min
<1>6. Reach(h, n, m) = Min(fits)
  BY <1>2 DEF Reach
<1>7. PICK c : c = Min(fits)
  OBVIOUS
<1>8. c \in fits /\ c <= k /\ Reach(h, n, m) = c
  BY <1>2, <1>5, <1>6, <1>7
<1> QED
  BY <1>1, <1>8 DEF Abstract!AnswerAt

(* Storing nothing of an address leaves its rows alone.                    *)
LEMMA StoreElsewhere ==
    ASSUME NEW tbl \in SUBSET GlobalRow, NEW u \in Server, NEW assocs \in SUBSET Assoc,
           NEW a \in Address, \A x \in assocs : x.address # a
    PROVE  /\ \A r \in Store(tbl, u, assocs) : r.address = a => r \in tbl
           /\ getMxid(Store(tbl, u, assocs), a) = getMxid(tbl, a)
<1>1. ASSUME NEW r, r.address = a
      PROVE  r \in Store(tbl, u, assocs) <=> r \in tbl
  <2>1. \A x \in assocs : RowOf(u, x).address # a
    BY DEF RowOf
  <2> QED
    BY <1>1, <2>1 DEF Store
<1> DEFINE RowsIn(T) == {r \in T : r.address = a}
           Answer(rows) == IF rows = {} THEN NoMxid
                           ELSE (CHOOSE r \in rows : \A q \in rows : q.ts <= r.ts).mxid
<1>2. RowsIn(Store(tbl, u, assocs)) = RowsIn(tbl)
  BY <1>1
<1>3. \A T : getMxid(T, a) = Answer(RowsIn(T))
  BY DEF getMxid
<1>4. getMxid(Store(tbl, u, assocs), a) = getMxid(tbl, a)
  <2> HIDE DEF RowsIn, Answer
  <2> QED
    BY <1>2, <1>3
<1> QED
  BY <1>1, <1>4

(* An association that is not older than any row of its address is the     *)
(* answer once it is stored.                                               *)
LEMMA StoredIsAnswer ==
    ASSUME NEW tbl \in SUBSET GlobalRow, NEW u \in Server, NEW assocs \in SUBSET Assoc,
           NEW x \in assocs,
           \A y \in assocs : y.address = x.address => y = x,
           \A r \in tbl : (r.origin = u /\ r.originId = x.id) => AssocOf(r) = x,
           \A r \in tbl : r.address = x.address =>
              /\ r.origin = u /\ r.originId <= x.id
              /\ r.originId < x.id => r.ts < x.ts
    PROVE  /\ getMxid(Store(tbl, u, assocs), x.address) = x.mxid
           /\ \A r \in Store(tbl, u, assocs) : r.address = x.address => r.originId <= x.id
<1>1. x \in Assoc /\ x.id \in Nat /\ Store(tbl, u, assocs) \in SUBSET GlobalRow
  BY StoreType DEF Assoc
<1>2. Reflects(Store(tbl, u, assocs), u, x)
  BY StoreReflects
<1>3. ASSUME NEW r \in Store(tbl, u, assocs), r.address = x.address
      PROVE  /\ r = RowOf(u, x) \/ r.ts < x.ts
             /\ r.originId <= x.id
  <2>1. CASE r \in tbl
    <3>1. /\ r.origin = u /\ r.originId <= x.id /\ r \in GlobalRow /\ r.originId \in Nat
          /\ r.originId < x.id => r.ts < x.ts
      BY <1>3, <2>1 DEF GlobalRow
    <3>2. CASE r.originId = x.id
      <4>1. AssocOf(r) = x
        BY <2>1, <3>1, <3>2
      <4> QED
        BY <3>1, <4>1 DEF AssocOf, RowOf, GlobalRow
    <3> QED
      BY <1>1, <3>1, <3>2
  <2>2. ASSUME NEW y \in assocs, r = RowOf(u, y)
        PROVE  r = RowOf(u, x) /\ r.originId <= x.id
    <3>1. y.address = x.address
      BY <1>3, <2>2 DEF RowOf
    <3> QED
      BY <1>1, <2>2, <3>1 DEF RowOf
  <2> QED
    BY <2>1, <2>2, StoreRows
<1> QED
  BY <1>1, <1>2, <1>3, NewestIsFound

(* What a step of the refinement may do, in general.  It may add versions: *)
(* those that have been applied mean the same as before.                   *)
VersionsKept(ver, w, applied) ==
    \A p \in Server, a \in Address :
        /\ Abstract!AnswerAt(bound'[a], w[a][applied[p][a]]) =
              Abstract!AnswerAt(bound[a], ver[a][applied[p][a]])
        /\ ver[a][applied[p][a]] <= w[a][applied[p][a]]

(* It may replace local rows by newer ones.                                *)
LocalRowsAdvance ==
    \A s \in Server, a \in Address :
        /\ local[s][a].id \in Nat /\ local'[s][a].id \in Nat
        /\ local[s][a].id <= local'[s][a].id

(* It may store at q what comes from u and is not older than what q has.   *)
NotOlder(q, u, assocs, applied, w) ==
    \A x \in assocs :
        /\ \A y \in assocs : x.address = y.address => x = y
        /\ u \in BindsAt[x.address] /\ x.id <= local'[u][x.address].id
        /\ applied[q][x.address] <= x.id
        /\ Abstract!AnswerAt(bound'[x.address], w[x.address][x.id]) = x.mxid
        /\ \A r \in global[q] : r.origin = u =>
              /\ r.originId = x.id => AssocOf(r) = x
              /\ r.originId < x.id => r.ts < x.ts

(* It may put batches under way that are not older either.                 *)
BatchesNotOlder(q, assocs, applied) ==
    \A s, p \in Server : \A x \in push'[s][p].batch :
        /\ applied[p][x.address] <= x.id
        /\ p = q => \A y \in assocs : y.address = x.address => y.id <= x.id

(* And the Sydents move on to the versions that explain their answers.     *)
ReachedNext ==
    reached' = [p \in Server |-> [a \in Address |->
                  Reach(bound'[a], reached[p][a], getMxid(global'[p], a))]]

Answered(p, a) ==
    /\ reached'[p][a] \in reached[p][a]..Len(bound'[a])
    /\ Abstract!AnswerAt(bound'[a], reached'[p][a]) = getMxid(global'[p], a)

VersionType == [Address -> [Nat -> Nat]]

AppliedType == [Server -> [Address -> Nat]]

(* What p has applied of a is i after q has stored associations.           *)
AppliedAfter(q, assocs, applied, p, a, i) ==
    \/ i = applied[p][a] /\ (p = q => \A x \in assocs : x.address # a)
    \/ p = q /\ \E x \in assocs : x.address = a /\ i = x.id

AnswerIs(w, p, a, i) ==
    /\ \A r \in global'[p] : r.address = a => r.originId <= i
    /\ getMxid(global'[p], a) = Abstract!AnswerAt(bound'[a], w[a][i])

LEMMA AppliedIds ==
    ASSUME NEW q \in Server, NEW assocs \in SUBSET Assoc, NEW applied \in AppliedType,
           \A x, y \in assocs : x.address = y.address => x = y,
           \A x \in assocs : applied[q][x.address] <= x.id
    PROVE  \E new \in AppliedType : \A p \in Server, a \in Address :
              /\ applied[p][a] <= new[p][a]
              /\ AppliedAfter(q, assocs, applied, p, a, new[p][a])
<1> DEFINE IdOf(a) == IF \E x \in assocs : x.address = a
                      THEN (CHOOSE x \in assocs : x.address = a).id
                      ELSE applied[q][a]
           new == [p \in Server |-> [a \in Address |-> IF p = q THEN IdOf(a) ELSE applied[p][a]]]
<1>1. \A p \in Server, a \in Address : applied[p][a] \in Nat
  BY DEF AppliedType
<1>2. ASSUME NEW a \in Address
      PROVE  /\ IdOf(a) \in Nat /\ applied[q][a] <= IdOf(a)
             /\ \/ IdOf(a) = applied[q][a] /\ \A x \in assocs : x.address # a
                \/ \E x \in assocs : x.address = a /\ IdOf(a) = x.id
  <2>1. CASE \A x \in assocs : x.address # a
    BY <1>1, <2>1
  <2>2. ASSUME NEW x \in assocs, x.address = a
        PROVE  IdOf(a) \in Nat /\ applied[q][a] <= IdOf(a) /\ IdOf(a) = x.id
    <3>1. IdOf(a) = x.id
      BY <2>2
    <3>2. x.id \in Nat /\ applied[q][a] <= x.id
      BY <2>2 DEF Assoc
    <3> QED
      BY <3>1, <3>2
  <2> QED
    BY <2>1, <2>2
<1> HIDE DEF IdOf
<1>3. new \in AppliedType
  BY <1>1, <1>2 DEF AppliedType
<1>4. ASSUME NEW p \in Server, NEW a \in Address
      PROVE  /\ applied[p][a] <= new[p][a]
             /\ AppliedAfter(q, assocs, applied, p, a, new[p][a])
  <2>1. new[p][a] = IF p = q THEN IdOf(a) ELSE applied[p][a]
    OBVIOUS
  <2> HIDE DEF new
  <2> QED
    BY <1>1, <1>2, <2>1 DEF AppliedAfter
<1> HIDE DEF new
<1> QED
  BY <1>3, <1>4

(* After the store, what q has applied of an address is its answer.        *)
LEMMA AppliedIsAnswer ==
    ASSUME CarriedInv, SingleHome,
           NEW ver, NEW applied \in AppliedType, Applied(ver, applied), NEW w,
           VersionsKept(ver, w, applied),
           NEW q \in Server, NEW u \in Server, NEW assocs \in SUBSET Assoc,
           global' = [global EXCEPT ![q] = Store(@, u, assocs)],
           NotOlder(q, u, assocs, applied, w),
           NEW p \in Server, NEW a \in Address, NEW i \in Nat,
           AppliedAfter(q, assocs, applied, p, a, i)
    PROVE  AnswerIs(w, p, a, i)
<1>1. TypeOK /\ OriginIsNewest /\ global \in [Server -> SUBSET GlobalRow]
  BY DEF CarriedInv, TypeOK
<1>2. /\ p = q => global'[p] = Store(global[p], u, assocs)
      /\ p # q => global'[p] = global[p]
  BY <1>1
<1>3. /\ \A r \in global[p] : r.address = a => r.originId <= applied[p][a]
      /\ getMxid(global[p], a) = Abstract!AnswerAt(bound[a], ver[a][applied[p][a]])
  BY DEF Applied
<1>4. Abstract!AnswerAt(bound'[a], w[a][applied[p][a]]) =
        Abstract!AnswerAt(bound[a], ver[a][applied[p][a]])
  BY DEF VersionsKept
<1>5. CASE i = applied[p][a] /\ (p = q => \A x \in assocs : x.address # a)
  <2>1. /\ \A r \in global'[p] : r.address = a => r \in global[p]
        /\ getMxid(global'[p], a) = getMxid(global[p], a)
    <3>1. CASE p = q
      <4>1. global[p] \in SUBSET GlobalRow /\ global'[p] = Store(global[p], u, assocs)
        BY <1>1, <1>2, <3>1
      <4>2. \A x \in assocs : x.address # a
        BY <1>5, <3>1
      <4>3. /\ \A r \in Store(global[p], u, assocs) : r.address = a => r \in global[p]
            /\ getMxid(Store(global[p], u, assocs), a) = getMxid(global[p], a)
        <5>1. PICK T \in SUBSET GlobalRow : T = global[p]
          BY <4>1
        <5>2. /\ \A r \in Store(T, u, assocs) : r.address = a => r \in T
              /\ getMxid(Store(T, u, assocs), a) = getMxid(T, a)
          BY <4>2, StoreElsewhere
        <5> QED
          BY <5>1, <5>2
      <4> QED
        BY <4>1, <4>3
    <3> QED
      BY <1>2, <3>1
  <2> QED
    BY <1>3, <1>4, <1>5, <2>1 DEF AnswerIs
<1>6. ASSUME p = q, NEW x \in assocs, x.address = a, i = x.id
      PROVE  AnswerIs(w, p, a, i)
  <2>1. /\ \A y \in assocs : y.address = x.address => y = x
        /\ u \in BindsAt[a] /\ applied[p][a] <= x.id
        /\ Abstract!AnswerAt(bound'[a], w[a][i]) = x.mxid
        /\ \A r \in global[p] : r.origin = u =>
              /\ r.originId = x.id => AssocOf(r) = x
              /\ r.originId < x.id => r.ts < x.ts
    BY <1>6 DEF NotOlder
  <2>2. ASSUME NEW r \in global[p], r.address = a
        PROVE  r.origin = u /\ r.originId <= x.id
    <3>1. r \in GlobalRow /\ r.origin \in Server /\ r.originId \in Nat
      BY <1>1 DEF GlobalRow
    <3>2. AssocOf(r) \in Carried(r.origin) /\ AssocOf(r).address = a
      BY <1>1, <2>2, CarriedNow DEF AssocOf
    <3>3. r.origin \in BindsAt[a]
      BY <1>1, <3>1, <3>2 DEF OriginIsNewest
    <3>4. r.origin = u
      BY <2>1, <3>3 DEF SingleHome
    <3>5. r.originId <= applied[p][a] /\ applied[p][a] \in Nat /\ x.id \in Nat
      BY <1>3, <1>6, <2>2 DEF AppliedType
    <3> QED
      BY <2>1, <3>1, <3>4, <3>5
  <2>3. /\ getMxid(Store(global[p], u, assocs), a) = x.mxid
        /\ \A r \in Store(global[p], u, assocs) : r.address = a => r.originId <= x.id
    <3>1. global[p] \in SUBSET GlobalRow
      BY <1>1
    <3> QED
      BY <1>6, <2>1, <2>2, <3>1, StoredIsAnswer, ZenonT(40)
  <2> QED
    BY <1>2, <1>6, <2>1, <2>3 DEF AnswerIs
<1> QED
  BY <1>5, <1>6 DEF AppliedAfter

LEMMA AppliedStep ==
    ASSUME CarriedInv, SingleHome,
           bound' \in [Address -> Seq(Mxid \cup {NoMxid})], reached \in AppliedType,
           NEW ver \in VersionType, NEW applied \in AppliedType, Applied(ver, applied),
           NEW w \in VersionType, Versions(w)', VersionsKept(ver, w, applied),
           LocalRowsAdvance,
           NEW q \in Server, NEW u \in Server, NEW assocs \in SUBSET Assoc,
           global' = [global EXCEPT ![q] = Store(@, u, assocs)],
           NotOlder(q, u, assocs, applied, w), BatchesNotOlder(q, assocs, applied),
           ReachedNext
    PROVE  /\ reached' \in AppliedType
           /\ \E new \in AppliedType : Applied(w, new)'
           /\ \A p \in Server, a \in Address : Answered(p, a)
<1>1. PICK new \in AppliedType : \A p \in Server, a \in Address :
         /\ applied[p][a] <= new[p][a]
         /\ AppliedAfter(q, assocs, applied, p, a, new[p][a])
  <2>1. /\ \A x, y \in assocs : x.address = y.address => x = y
        /\ \A x \in assocs : applied[q][x.address] <= x.id
    BY DEF NotOlder
  <2> QED
    BY <2>1, AppliedIds
<1>2. \A p \in Server, a \in Address :
         applied[p][a] \in Nat /\ new[p][a] \in Nat /\ reached[p][a] \in Nat
  BY DEF AppliedType
<1>3. ASSUME NEW p \in Server, NEW a \in Address
      PROVE  /\ \A r \in global'[p] : r.address = a => r.originId <= new[p][a]
             /\ getMxid(global'[p], a) = Abstract!AnswerAt(bound'[a], w[a][new[p][a]])
  <2>1. AnswerIs(w, p, a, new[p][a])
    BY <1>1, <1>2, AppliedIsAnswer
  <2> QED
    BY <2>1 DEF AnswerIs
<1>4. ASSUME NEW p \in Server, NEW a \in Address
      PROVE  /\ reached'[p][a] \in Nat /\ reached'[p][a] <= w[a][new[p][a]]
             /\ Answered(p, a)
  <2>1. /\ w[a][new[p][a]] \in Nat /\ w[a][applied[p][a]] \in Nat
        /\ ver[a][applied[p][a]] \in Nat
    BY <1>2 DEF VersionType
  <2>2. bound'[a] \in Seq(Mxid \cup {NoMxid}) /\ Len(bound'[a]) \in Nat
    OBVIOUS
  <2>3. w[a][applied[p][a]] <= w[a][new[p][a]] /\ w[a][new[p][a]] <= Len(bound'[a])
    BY <1>1, <1>2 DEF Versions
  <2>4. reached[p][a] <= ver[a][applied[p][a]]
    BY DEF Applied
  <2>5. ver[a][applied[p][a]] <= w[a][applied[p][a]]
    BY DEF VersionsKept
  <2>6. reached[p][a] <= w[a][new[p][a]]
    BY ONLY <1>2, <2>1, <2>3, <2>4, <2>5
  <2>7. reached'[p][a] = Reach(bound'[a], reached[p][a], getMxid(global'[p], a))
    BY DEF ReachedNext
  <2>8. PICK j : j = Reach(bound'[a], reached[p][a], getMxid(global'[p], a))
    OBVIOUS
  <2>9. /\ j \in Nat /\ reached[p][a] <= j /\ j <= w[a][new[p][a]]
        /\ Abstract!AnswerAt(bound'[a], j) = getMxid(global'[p], a)
    BY ONLY <1>2, <1>3, <2>1, <2>2, <2>3, <2>6, <2>8, ReachWithin, SMTT(30)
  <2>10. j <= Len(bound'[a])
    BY ONLY <2>1, <2>2, <2>3, <2>9
  <2> QED
    BY ONLY <1>2, <2>2, <2>7, <2>8, <2>9, <2>10 DEF Answered
<1>5. reached' \in AppliedType
  <2>1. reached' = [p \in Server |-> [a \in Address |-> reached'[p][a]]]
    BY DEF ReachedNext
  <2> QED
    BY ONLY <1>4, <2>1 DEF AppliedType
<1>6. ASSUME NEW p \in Server, NEW a \in Address, new[p][a] # 0
      PROVE  \E s \in BindsAt[a] : new[p][a] <= local'[s][a].id
  <2>1. CASE new[p][a] = applied[p][a]
    <3>1. PICK s \in BindsAt[a] : applied[p][a] <= local[s][a].id
      BY <1>6, <2>1 DEF Applied
    <3>2. s \in Server
      BY ReplicationAssumption
    <3>3. /\ local[s][a].id \in Nat /\ local'[s][a].id \in Nat
          /\ local[s][a].id <= local'[s][a].id
      BY <3>2 DEF LocalRowsAdvance
    <3> QED
      BY ONLY <1>2, <2>1, <3>1, <3>3
  <2>2. ASSUME NEW x \in assocs, x.address = a, new[p][a] = x.id
        PROVE  \E s \in BindsAt[a] : new[p][a] <= local'[s][a].id
    BY <2>2 DEF NotOlder
  <2> QED
    BY <1>1, <2>1, <2>2 DEF AppliedAfter
<1>7. ASSUME NEW p \in Server, NEW a \in Address,
             NEW s \in Server, NEW x \in push'[s][p].batch, x.address = a
      PROVE  new[p][a] <= x.id
  <2>1. /\ applied[p][a] <= x.id
        /\ p = q => \A y \in assocs : y.address = a => y.id <= x.id
    BY <1>7 DEF BatchesNotOlder
  <2> QED
    BY <1>1, <2>1 DEF AppliedAfter
<1>8. Applied(w, new)'
  BY <1>3, <1>4, <1>6, <1>7 DEF Applied
<1> QED
  BY <1>4, <1>5, <1>8

(* The state before a step, with the witnesses of the invariant.           *)
Before(ver, applied) ==
    /\ AckInv
    /\ bound \in [Address -> Seq(Mxid \cup {NoMxid})]
    /\ reached \in AppliedType
    /\ Versions(ver) /\ Applied(ver, applied)

(* What a step has to keep, and what Directory says of it.                 *)
Refines ==
    /\ bound' \in [Address -> Seq(Mxid \cup {NoMxid})]
    /\ reached' \in AppliedType
    /\ \E w \in VersionType, new \in AppliedType : Versions(w)' /\ Applied(w, new)'
    /\ \A p \in Server, a \in Address : Answered(p, a)

BoundNext ==
    bound' = [a \in Address |->
                IF \E s \in Server : Written(s, a)
                THEN Append(bound[a], local'[CHOOSE s \in Server : Written(s, a)][a].mxid)
                ELSE bound[a]]

LEMMA NothingWritten ==
    ASSUME bound \in [Address -> Seq(Mxid \cup {NoMxid})], UNCHANGED local, BoundNext
    PROVE  UNCHANGED bound
<1>1. \A s \in Server, a \in Address : ~ Written(s, a)
  BY DEF Written
<1>2. bound' = [a \in Address |-> bound[a]]
  BY <1>1 DEF BoundNext
<1> QED
  BY <1>2

(* Nobody has applied more of an address than its home has issued.         *)
LEMMA AppliedWithin ==
    ASSUME SingleHome, NEW ver, NEW applied \in AppliedType, Before(ver, applied),
           NEW s \in Server, NEW a \in Address, s \in BindsAt[a], NEW p \in Server
    PROVE  applied[p][a] <= local[s][a].id
<1>1. applied[p][a] \in Nat /\ local[s][a].id \in Nat
  BY DEF AppliedType, Before, AckInv, CarriedInv, TypeOK, LocalRow
<1>2. CASE applied[p][a] # 0
  <2>1. PICK t \in BindsAt[a] : applied[p][a] <= local[t][a].id
    BY <1>2 DEF Before, Applied
  <2>2. t = s
    BY <2>1 DEF SingleHome
  <2> QED
    BY <2>1, <2>2
<1> QED
  BY <1>1, <1>2

(* The batches of a step that writes nothing: those under way, or made of  *)
(* local rows.                                                             *)
BatchesFromTables ==
    \A s, p \in Server : \A x \in push'[s][p].batch :
        \/ x \in push[s][p].batch
        \/ /\ x.address \in Address
           /\ local[s][x.address].id # 0
           /\ x.id = local[s][x.address].id /\ x.mxid = local[s][x.address].mxid

LEMMA KeptVersions ==
    ASSUME NEW ver \in VersionType, NEW applied \in AppliedType, Before(ver, applied),
           UNCHANGED <<local, bound>>, BatchesFromTables
    PROVE  Versions(ver)' /\ VersionsKept(ver, ver, applied) /\ LocalRowsAdvance
<1>1. \A s, p \in Server : \A x \in push'[s][p].batch :
         Abstract!AnswerAt(bound[x.address], ver[x.address][x.id]) = x.mxid
  BY DEF BatchesFromTables, Before, Versions
<1>2. Versions(ver)'
  BY <1>1 DEF Before, Versions
<1>3. \A p \in Server, a \in Address : ver[a][applied[p][a]] \in Nat
  BY DEF VersionType, AppliedType
<1>4. VersionsKept(ver, ver, applied)
  BY <1>3 DEF VersionsKept
<1>5. \A s \in Server, a \in Address : local[s][a].id \in Nat
  BY DEF Before, AckInv, CarriedInv, TypeOK, LocalRow
<1> QED
  BY <1>2, <1>4, <1>5 DEF LocalRowsAdvance

(* Batches made of local rows are not older than what is applied.          *)
LEMMA TablesNotOlder ==
    ASSUME SingleHome, NEW ver \in VersionType, NEW applied \in AppliedType,
           Before(ver, applied), BatchesFromTables,
           NEW s \in Server, NEW p \in Server, NEW x \in push'[s][p].batch
    PROVE  applied[p][x.address] <= x.id
<1>1. CarriedInv
  BY DEF Before, AckInv
<1>2. CASE x \in push[s][p].batch
  <2>1. x.address \in Address
    BY <1>1, <1>2, BatchIsCarried
  <2> QED
    BY <1>2, <2>1 DEF Before, Applied
<1>3. CASE /\ x.address \in Address
           /\ local[s][x.address].id # 0
           /\ x.id = local[s][x.address].id
  <2>1. s \in BindsAt[x.address]
    BY <1>1, <1>3, LocalIsCarried
  <2> QED
    BY <1>3, <2>1, AppliedWithin
<1> QED
  BY <1>2, <1>3 DEF BatchesFromTables

LEMMA StepRefines ==
    ASSUME SingleHome, NEW ver \in VersionType, NEW applied \in AppliedType,
           Before(ver, applied),
           bound' \in [Address -> Seq(Mxid \cup {NoMxid})], ReachedNext,
           NEW w \in VersionType, Versions(w)', VersionsKept(ver, w, applied),
           LocalRowsAdvance,
           NEW q \in Server, NEW u \in Server, NEW assocs \in SUBSET Assoc,
           global' = [global EXCEPT ![q] = Store(@, u, assocs)],
           NotOlder(q, u, assocs, applied, w), BatchesNotOlder(q, assocs, applied)
    PROVE  Refines
<1>1. CarriedInv /\ reached \in AppliedType /\ Applied(ver, applied)
  BY DEF Before, AckInv
<1>2. /\ reached' \in AppliedType
      /\ \E new \in AppliedType : Applied(w, new)'
      /\ \A p \in Server, a \in Address : Answered(p, a)
  BY <1>1, AppliedStep
<1> QED
  BY <1>2 DEF Refines

(* A step that writes and stores nothing.                                  *)
LEMMA QuietRefines ==
    ASSUME SingleHome, NEW ver \in VersionType, NEW applied \in AppliedType,
           Before(ver, applied), BoundNext, ReachedNext, NEW q \in Server,
           UNCHANGED <<local, global>>, BatchesFromTables
    PROVE  Refines /\ UNCHANGED bound
<1>1. UNCHANGED bound /\ bound' \in [Address -> Seq(Mxid \cup {NoMxid})]
  BY NothingWritten DEF Before
<1>2. Versions(ver)' /\ VersionsKept(ver, ver, applied) /\ LocalRowsAdvance
  BY <1>1, KeptVersions
<1>3. PICK none \in SUBSET Assoc : none = {}
  OBVIOUS
<1>4. Store(global[q], q, none) = global[q]
  BY <1>3 DEF Store
<1>5. global' = [global EXCEPT ![q] = Store(@, q, none)]
  <2>1. global \in [Server -> SUBSET GlobalRow]
    BY DEF Before, AckInv, CarriedInv, TypeOK
  <2> QED
    BY <1>4, <2>1
<1>6. NotOlder(q, q, none, applied, ver)
  BY <1>3 DEF NotOlder
<1>7. BatchesNotOlder(q, none, applied)
  BY <1>3, TablesNotOlder DEF BatchesNotOlder
<1> QED
  BY <1>1, <1>2, <1>5, <1>6, <1>7, StepRefines

(* What a global table has of u, next to an association of u.              *)
LEMMA CarriedOrder ==
    ASSUME CarriedInv, NEW u \in Server, NEW q \in Server, NEW x \in Carried(u)
    PROVE  \A r \in global[q] : r.origin = u =>
              /\ r.originId = x.id => AssocOf(r) = x
              /\ r.originId < x.id => r.ts < x.ts
<1> SUFFICES ASSUME NEW r \in global[q], r.origin = u
             PROVE  /\ r.originId = x.id => AssocOf(r) = x
                    /\ r.originId < x.id => r.ts < x.ts
  OBVIOUS
<1>1. TypeOK /\ OriginIsNewest
  BY DEF CarriedInv
<1>2. AssocOf(r) \in Carried(u) /\ AssocOf(r).id = r.originId /\ AssocOf(r).ts = r.ts
  BY <1>1, CarriedNow DEF AssocOf
<1> QED
  BY <1>1, <1>2 DEF OriginIsNewest

(* A peer stores what it gets, all of it or a part.                        *)
LEMMA ReceiveRefines ==
    ASSUME SingleHome, NEW ver \in VersionType, NEW applied \in AppliedType,
           Before(ver, applied), BoundNext, ReachedNext,
           NEW s \in Server, NEW p \in Server, NEW failed, Receive(s, p, failed)
    PROVE  Refines /\ UNCHANGED bound
<1> DEFINE batch == push[s][p].batch
           stored == Committed(batch, failed)
<1>1. CarriedInv /\ TypeOK /\ PushesNotEmpty
  BY DEF Before, AckInv, CarriedInv
<1>2. /\ push[s][p].status = "sent"
      /\ global' = [global EXCEPT ![p] = Store(@, s, stored)]
      /\ push' = [push EXCEPT ![s][p].status = IF failed = 0 THEN "stored" ELSE "refused"]
      /\ UNCHANGED local
  BY DEF Receive
<1>3. BatchHasNoHoles(s, p)
  BY <1>1, <1>2 DEF PushesNotEmpty, Peers, Before, AckInv, PairInv
<1>4. \A x \in batch : /\ x \in Carried(s) /\ x \in Assoc /\ s \in BindsAt[x.address]
                       /\ x.address \in Address /\ x.id \in Nat
                       /\ x.id <= local[s][x.address].id
  BY <1>1, BatchIsCarried
<1>5. stored \subseteq batch /\ stored \in SUBSET Assoc
  BY <1>4, CommittedSubset
<1>6. \A t, q \in Server : push'[t][q].batch = push[t][q].batch
  <2>1. push \in [Server -> [Server -> PushState]] /\ push[s][p] \in PushState
    BY <1>1 DEF TypeOK
  <2> DEFINE outcome == IF failed = 0 THEN "stored" ELSE "refused"
  <2>2. push' = [push EXCEPT ![s] = [push[s] EXCEPT ![p] =
                                        [push[s][p] EXCEPT !.status = outcome]]]
    BY <1>2
  <2>3. [push[s][p] EXCEPT !.status = outcome].batch = push[s][p].batch
    BY <2>1 DEF PushState
  <2> HIDE DEF outcome
  <2> QED
    BY <2>1, <2>2, <2>3
<1>7. BatchesFromTables
  BY <1>6 DEF BatchesFromTables
<1>8. UNCHANGED bound /\ bound' \in [Address -> Seq(Mxid \cup {NoMxid})]
  BY <1>2, NothingWritten DEF Before
<1>9. Versions(ver)' /\ VersionsKept(ver, ver, applied) /\ LocalRowsAdvance
  BY <1>2, <1>7, <1>8, KeptVersions
<1> HIDE DEF stored
<1>10. NotOlder(p, s, stored, applied, ver)
  <2> SUFFICES ASSUME NEW x \in stored
               PROVE  /\ \A y \in stored : x.address = y.address => x = y
                      /\ s \in BindsAt[x.address] /\ x.id <= local'[s][x.address].id
                      /\ applied[p][x.address] <= x.id
                      /\ Abstract!AnswerAt(bound'[x.address], ver[x.address][x.id]) = x.mxid
                      /\ \A r \in global[p] : r.origin = s =>
                            /\ r.originId = x.id => AssocOf(r) = x
                            /\ r.originId < x.id => r.ts < x.ts
    BY DEF NotOlder
  <2>1. x \in batch /\ x.address \in Address /\ x \in Carried(s)
    BY <1>4, <1>5
  <2>2. \A y \in stored : x.address = y.address => x = y
    BY <1>3, <1>5, <2>1 DEF BatchHasNoHoles
  <2>3. applied[p][x.address] <= x.id
    BY <2>1 DEF Before, Applied
  <2>4. Abstract!AnswerAt(bound'[x.address], ver[x.address][x.id]) = x.mxid
    BY <1>8, <2>1 DEF Before, Versions
  <2> QED
    BY <1>1, <1>2, <1>4, <2>1, <2>2, <2>3, <2>4, CarriedOrder
<1>11. BatchesNotOlder(p, stored, applied)
  <2>1. ASSUME NEW t \in Server, NEW x \in push'[t][p].batch,
               NEW y \in stored, y.address = x.address
        PROVE  y.id <= x.id
    <3>1. x \in push[t][p].batch /\ t \in BindsAt[x.address] /\ x.id \in Nat
          /\ x.address \in Address
      BY <1>1, <1>6, BatchIsCarried
    <3>2. y \in batch /\ s \in BindsAt[x.address]
      BY <1>4, <1>5, <2>1
    <3>3. t = s
      BY <3>1, <3>2 DEF SingleHome
    <3>4. y = x
      BY <1>3, <2>1, <3>1, <3>2, <3>3 DEF BatchHasNoHoles
    <3> QED
      BY <3>1, <3>4
  <2> QED
    BY <1>7, <2>1, TablesNotOlder DEF BatchesNotOlder
<1> QED
  BY <1>2, <1>5, <1>8, <1>9, <1>10, <1>11, StepRefines

(* The local table that a local push reads: rows that were there, and at   *)
(* most newer ones.                                                        *)
NewerTable(s, tbl) ==
    /\ tbl \in [Address -> LocalRow]
    /\ \A b \in Address :
          \/ tbl[b] = local[s][b]
          \/ s \in BindsAt[b] /\ lastRowId[s] < tbl[b].id /\ clock < tbl[b].ts

(* The local push stores nothing that is older than what is there.         *)
LEMMA LocalPushNotOlder ==
    ASSUME SingleHome, NEW ver \in VersionType, NEW applied \in AppliedType,
           Before(ver, applied), NEW w,
           NEW s \in Server, NEW upTo, NEW tbl, NewerTable(s, tbl), local'[s] = tbl,
           LocalRowsAdvance,
           \A b \in Address : tbl[b].id # 0 =>
              Abstract!AnswerAt(bound'[b], w[b][tbl[b].id]) = tbl[b].mxid,
           global' = [global EXCEPT ![s] = doLocalPush(@, s, tbl, upTo)],
           \A t, p \in Server : push'[t][p].batch \subseteq push[t][p].batch
    PROVE  \E assocs \in SUBSET Assoc :
              /\ global' = [global EXCEPT ![s] = Store(@, s, assocs)]
              /\ NotOlder(s, s, assocs, applied, w)
              /\ BatchesNotOlder(s, assocs, applied)
<1>1. CarriedInv /\ TypeOK /\ PushesNotEmpty /\ OriginIsNewest
  BY DEF Before, AckInv, CarriedInv
<1>2. tbl \in [Address -> LocalRow]
  BY DEF NewerTable
<1>3. PICK new \in SUBSET Assoc :
         /\ doLocalPush(global[s], s, tbl, upTo) = Store(global[s], s, new)
         /\ \A x \in new :
               /\ 0 < x.id
               /\ x = [id |-> tbl[x.address].id, address |-> x.address,
                       mxid |-> tbl[x.address].mxid, ts |-> tbl[x.address].ts]
  BY <1>1, <1>2, LocalPushIsStore, SMTT(30)
<1>4. ASSUME NEW x \in new
      PROVE  /\ x.address \in Address /\ x.id \in Nat /\ x.id # 0
             /\ x.id = tbl[x.address].id /\ x.mxid = tbl[x.address].mxid
             /\ x.ts = tbl[x.address].ts
  <2>1. x \in Assoc
    OBVIOUS
  <2>2. /\ 0 < x.id /\ x.id = tbl[x.address].id /\ x.mxid = tbl[x.address].mxid
        /\ x.ts = tbl[x.address].ts
    BY <1>3
  <2> QED
    BY <2>1, <2>2 DEF Assoc
<1>5. ASSUME NEW x \in new
      PROVE  /\ s \in BindsAt[x.address]
             /\ \A r \in global[s] : r.origin = s =>
                   /\ r.originId = x.id => AssocOf(r) = x
                   /\ r.originId < x.id => r.ts < x.ts
  <2>1. CASE tbl[x.address] = local[s][x.address]
    <3>1. x.address \in Address /\ local[s][x.address].id # 0
      BY <1>4, <2>1
    <3>2. LocalAssoc(s, x.address) \in Carried(s) /\ s \in BindsAt[x.address]
      BY <1>1, <3>1, LocalIsCarried
    <3>3. x = LocalAssoc(s, x.address)
      BY <1>3, <2>1 DEF LocalAssoc
    <3> QED
      BY <1>1, <3>2, <3>3, CarriedOrder
  <2>2. CASE s \in BindsAt[x.address] /\ lastRowId[s] < x.id /\ clock < x.ts
    <3>1. ASSUME NEW r \in global[s], r.origin = s
          PROVE  r.originId < x.id /\ r.ts < x.ts
      <4>1. AssocOf(r) \in Carried(s) /\ AssocOf(r).id = r.originId /\ AssocOf(r).ts = r.ts
        BY <1>1, <3>1, CarriedNow DEF AssocOf
      <4>2. r.originId <= lastRowId[s] /\ r.ts <= clock
        BY <1>1, <4>1 DEF OriginIsNewest
      <4>3. /\ r.originId \in Nat /\ r.ts \in Nat /\ lastRowId[s] \in Nat /\ clock \in Nat
            /\ x.id \in Nat /\ x.ts \in Nat
        BY <1>1 DEF TypeOK, GlobalRow, Assoc
      <4> QED
        BY ONLY <2>2, <4>2, <4>3
    <3>2. \A r \in global[s] : r.originId \in Nat
      BY <1>1 DEF TypeOK, GlobalRow
    <3> QED
      BY <1>4, <2>2, <3>1, <3>2
  <2> QED
    BY <1>4, <2>1, <2>2 DEF NewerTable
<1>6. ASSUME NEW x \in new PROVE applied[s][x.address] <= x.id
  <2>1. x.address \in Address /\ s \in BindsAt[x.address] /\ x.id = local'[s][x.address].id
    BY <1>4, <1>5
  <2>2. applied[s][x.address] <= local[s][x.address].id
    BY <2>1, AppliedWithin
  <2>3. /\ local[s][x.address].id \in Nat /\ local'[s][x.address].id \in Nat
        /\ local[s][x.address].id <= local'[s][x.address].id
    BY <2>1 DEF LocalRowsAdvance
  <2>4. applied[s][x.address] \in Nat
    BY <2>1 DEF AppliedType
  <2> QED
    BY ONLY <2>1, <2>2, <2>3, <2>4
<1>7. NotOlder(s, s, new, applied, w)
  <2>1. \A x, y \in new : x.address = y.address => x = y
    BY <1>3
  <2>2. \A x \in new : x.id <= local'[s][x.address].id
    BY <1>4
  <2>3. \A x \in new : Abstract!AnswerAt(bound'[x.address], w[x.address][x.id]) = x.mxid
    BY <1>4
  <2> QED
    BY <1>5, <1>6, <2>1, <2>2, <2>3 DEF NotOlder
<1>8. BatchesNotOlder(s, new, applied)
  <2>1. BatchesFromTables
    BY DEF BatchesFromTables
  <2>2. ASSUME NEW t \in Server, NEW x \in push'[t][s].batch,
               NEW y \in new, y.address = x.address
        PROVE  FALSE
    <3>1. x \in push[t][s].batch
      OBVIOUS
    <3>2. t \in BindsAt[x.address] /\ x.address \in Address
      BY <1>1, <3>1, BatchIsCarried
    <3>3. t = s
      BY <1>5, <2>2, <3>2 DEF SingleHome
    <3> QED
      BY <1>1, <3>1, <3>3 DEF PushesNotEmpty
  <2> QED
    BY <2>1, <2>2, TablesNotOlder DEF BatchesNotOlder
<1>9. global' = [global EXCEPT ![s] = Store(@, s, new)]
  BY <1>3
<1> QED
  BY <1>7, <1>8, <1>9

LEMMA UnbindNothingRefines ==
    ASSUME SingleHome, NEW ver \in VersionType, NEW applied \in AppliedType,
           Before(ver, applied), BoundNext, ReachedNext,
           NEW s \in Server, NEW a, NEW m, UnbindNothing(s, a, m)
    PROVE  Refines /\ UNCHANGED bound
<1>1. /\ global' = [global EXCEPT ![s] = doLocalPush(@, s, local[s], lastRowId[s])]
      /\ UNCHANGED <<local, push>>
  BY DEF UnbindNothing
<1>2. NewerTable(s, local[s])
  BY DEF NewerTable, Before, AckInv, CarriedInv, TypeOK
<1>3. UNCHANGED bound /\ bound' \in [Address -> Seq(Mxid \cup {NoMxid})]
  BY <1>1, NothingWritten DEF Before
<1>4. BatchesFromTables
  BY <1>1 DEF BatchesFromTables
<1>5. Versions(ver)' /\ VersionsKept(ver, ver, applied) /\ LocalRowsAdvance
  BY <1>1, <1>3, <1>4, KeptVersions
<1>6. \A b \in Address : local[s][b].id # 0 =>
         Abstract!AnswerAt(bound'[b], ver[b][local[s][b].id]) = local[s][b].mxid
  BY <1>3 DEF Before, Versions
<1>7. PICK assocs \in SUBSET Assoc :
         /\ global' = [global EXCEPT ![s] = Store(@, s, assocs)]
         /\ NotOlder(s, s, assocs, applied, ver)
         /\ BatchesNotOlder(s, assocs, applied)
  <2>1. local'[s] = local[s] /\ \A t, p \in Server : push'[t][p].batch \subseteq push[t][p].batch
    BY <1>1
  <2> QED
    BY <1>1, <1>2, <1>5, <1>6, <2>1, LocalPushNotOlder
<1> QED
  BY <1>3, <1>5, <1>7, StepRefines

LEMMA AnswerAtAppend ==
    ASSUME NEW h \in Seq(Mxid \cup {NoMxid}), NEW m \in Mxid \cup {NoMxid}
    PROVE  /\ Append(h, m) \in Seq(Mxid \cup {NoMxid})
           /\ Len(h) \in Nat /\ Len(Append(h, m)) = Len(h) + 1
           /\ Abstract!AnswerAt(Append(h, m), Len(h) + 1) = m
           /\ \A k \in Nat : k <= Len(h) =>
                 Abstract!AnswerAt(Append(h, m), k) = Abstract!AnswerAt(h, k)
BY DEF Abstract!AnswerAt

(* One row is written at s: the history of its address gets longer by it.  *)
WritesRow(s, a, m, tbl) ==
    /\ s \in BindsAt[a]
    /\ tbl = addOrUpdateAssociation(local[s], a, m, lastRowId[s] + 1, clock + 1)
    /\ WriteLocal(s, tbl)

LEMMA WrittenRow ==
    ASSUME CarriedInv, NEW s \in Server, NEW a \in Address, NEW m \in Mxid \cup {NoMxid},
           NEW tbl, WritesRow(s, a, m, tbl)
    PROVE  /\ NewerTable(s, tbl) /\ LocalRowsAdvance /\ local'[s] = tbl
           /\ lastRowId[s] \in Nat /\ local[s][a].id <= lastRowId[s]
           /\ tbl[a].id = lastRowId[s] + 1 /\ tbl[a].mxid = m
           /\ \A t \in Server, b \in Address :
                 ~ (t = s /\ b = a) => local'[t][b] = local[t][b]
           /\ \A t \in Server, b \in Address : Written(t, b) <=> t = s /\ b = a
<1>1. TypeOK /\ OriginIsNewest
  BY DEF CarriedInv
<1>2. /\ lastRowId[s] \in Nat /\ clock \in Nat /\ local \in [Server -> [Address -> LocalRow]]
      /\ local[s] \in [Address -> LocalRow]
  BY <1>1 DEF TypeOK
<1>3. \A t \in Server, b \in Address : local[t][b].id \in Nat
  BY <1>2 DEF LocalRow
<1>4. local' = [local EXCEPT ![s] = tbl] /\ s \in BindsAt[a]
      /\ tbl = addOrUpdateAssociation(local[s], a, m, lastRowId[s] + 1, clock + 1)
  BY DEF WritesRow, WriteLocal
<1>5. tbl \in [Address -> LocalRow]
  <2>1. lastRowId[s] + 1 \in Nat /\ clock + 1 \in Nat
    BY <1>2
  <2> QED
    BY <1>2, <1>4, <2>1, BoundTableType
<1>6. /\ tbl[a] = [id |-> lastRowId[s] + 1, mxid |-> m, ts |-> clock + 1]
      /\ \A b \in Address : b # a => tbl[b] = local[s][b]
  BY <1>2, <1>4 DEF addOrUpdateAssociation
<1>7. local'[s] = tbl /\ \A t \in Server : t # s => local'[t] = local[t]
  BY <1>2, <1>4
<1>8. local[s][a].id <= lastRowId[s]
  <2>1. CASE local[s][a].id # 0
    <3>1. LocalAssoc(s, a) \in Carried(s) /\ LocalAssoc(s, a).id = local[s][a].id
      BY <2>1, LocalIsCarried
    <3> QED
      BY <1>1, <3>1 DEF OriginIsNewest
  <2> QED
    BY <1>2, <2>1
<1>9. tbl[a].id = lastRowId[s] + 1 /\ tbl[a].mxid = m /\ tbl[a].ts = clock + 1
  BY <1>6
<1>10. NewerTable(s, tbl)
  <2>1. lastRowId[s] < lastRowId[s] + 1 /\ clock < clock + 1
    BY <1>2
  <2> QED
    BY <1>4, <1>5, <1>6, <1>9, <2>1 DEF NewerTable
<1>11. \A t \in Server, b \in Address : ~ (t = s /\ b = a) => local'[t][b] = local[t][b]
  BY <1>6, <1>7
<1>12. local'[s][a].id = lastRowId[s] + 1 /\ local[s][a].id \in Nat
  BY <1>3, <1>7, <1>9
<1>13. LocalRowsAdvance
  <2> SUFFICES ASSUME NEW t \in Server, NEW b \in Address
               PROVE  /\ local[t][b].id \in Nat /\ local'[t][b].id \in Nat
                      /\ local[t][b].id <= local'[t][b].id
    BY DEF LocalRowsAdvance
  <2>1. CASE t = s /\ b = a
    BY <1>2, <1>8, <1>12, <2>1
  <2>2. CASE ~ (t = s /\ b = a)
    BY <1>3, <1>11, <2>2
  <2> QED
    BY <2>1, <2>2
<1>14. local'[s][a].id # local[s][a].id
  BY ONLY <1>2, <1>8, <1>12
<1>15. \A t \in Server, b \in Address : Written(t, b) <=> t = s /\ b = a
  BY <1>11, <1>14 DEF Written
<1> QED
  BY <1>2, <1>7, <1>8, <1>9, <1>10, <1>11, <1>13, <1>15

LEMMA WrittenBound ==
    ASSUME NEW s \in Server, NEW a \in Address, NEW m \in Mxid \cup {NoMxid},
           bound \in [Address -> Seq(Mxid \cup {NoMxid})], BoundNext,
           local'[s][a].mxid = m,
           \A t \in Server, b \in Address : Written(t, b) <=> t = s /\ b = a
    PROVE  bound' = [bound EXCEPT ![a] = Append(@, m)]
<1>1. (CHOOSE t \in Server : Written(t, a)) = s
  OBVIOUS
<1>2. \A b \in Address : b # a => ~ \E t \in Server : Written(t, b)
  OBVIOUS
<1>3. \E t \in Server : Written(t, a)
  OBVIOUS
<1>4. bound' = [b \in Address |-> IF b = a THEN Append(bound[a], m) ELSE bound[b]]
  BY <1>1, <1>2, <1>3 DEF BoundNext
<1> QED
  BY <1>4

(* The new row is the next version; those before are what they were.       *)
LEMMA WrittenVersions ==
    ASSUME SingleHome, NEW ver \in VersionType, NEW applied \in AppliedType,
           Before(ver, applied), NEW s \in Server, NEW a \in Address,
           NEW m \in Mxid \cup {NoMxid}, s \in BindsAt[a],
           bound' = [bound EXCEPT ![a] = Append(@, m)],
           lastRowId[s] \in Nat, local[s][a].id <= lastRowId[s],
           local'[s][a].id = lastRowId[s] + 1, local'[s][a].mxid = m,
           \A t \in Server, b \in Address :
              ~ (t = s /\ b = a) => local'[t][b] = local[t][b],
           \A t, p \in Server : push'[t][p].batch \subseteq push[t][p].batch
    PROVE  \E w \in VersionType : Versions(w)' /\ VersionsKept(ver, w, applied)
<1> DEFINE n == Len(bound[a])
           new == [i \in Nat |-> IF i <= lastRowId[s] THEN ver[a][i] ELSE n + 1]
<1>1. CarriedInv /\ bound \in [Address -> Seq(Mxid \cup {NoMxid})]
  BY DEF Before, AckInv
<1>2. /\ bound[a] \in Seq(Mxid \cup {NoMxid}) /\ n \in Nat
      /\ bound'[a] = Append(bound[a], m) /\ Len(bound'[a]) = n + 1
      /\ Abstract!AnswerAt(bound'[a], n + 1) = m
      /\ \A k \in Nat : k <= n =>
            Abstract!AnswerAt(bound'[a], k) = Abstract!AnswerAt(bound[a], k)
      /\ \A b \in Address : b # a => bound'[b] = bound[b]
  BY <1>1, AnswerAtAppend
<1>3. /\ \A b \in Address, i \in Nat : ver[b][i] \in Nat
      /\ ver[a] \in [Nat -> Nat]
  BY DEF VersionType
<1>4. /\ \A b \in Address : ver[b][0] = 0
      /\ \A b \in Address, i \in Nat : ver[b][i] <= Len(bound[b])
      /\ \A b \in Address : \A i, j \in Nat : i <= j => ver[b][i] <= ver[b][j]
  BY DEF Before, Versions
<1> HIDE DEF n
<1>5. \A i \in Nat : ver[a][i] <= n
  BY <1>4 DEF n
<1>6. PICK w \in VersionType : /\ \A b \in Address : b # a => w[b] = ver[b]
                              /\ w[a] = new
  <2>1. n \in Nat /\ \A i \in Nat : ver[a][i] \in Nat
    <3>1. n \in Nat
      BY <1>2
    <3> QED
      BY <1>3, <3>1
  <2>2. new \in [Nat -> Nat]
    <3> SUFFICES ASSUME NEW i \in Nat
                 PROVE  (IF i <= lastRowId[s] THEN ver[a][i] ELSE n + 1) \in Nat
      OBVIOUS
    <3> QED
      BY ONLY <2>1, i \in Nat
  <2> HIDE DEF new
  <2>3. [ver EXCEPT ![a] = new] \in VersionType
    BY <2>2 DEF VersionType
  <2> QED
    BY <2>2, <2>3 DEF VersionType
<1>7. \A i \in Nat : /\ i <= lastRowId[s] => w[a][i] = ver[a][i]
                     /\ lastRowId[s] < i => w[a][i] = n + 1
  BY <1>6
<1> HIDE DEF new
<1>8. ASSUME NEW i \in Nat, i <= lastRowId[s]
      PROVE  Abstract!AnswerAt(bound'[a], w[a][i]) = Abstract!AnswerAt(bound[a], ver[a][i])
  BY <1>2, <1>3, <1>5, <1>7, <1>8
<1>9. /\ w[a][0] = 0
      /\ \A i \in Nat : w[a][i] <= Len(bound'[a])
      /\ \A i, j \in Nat : i <= j => w[a][i] <= w[a][j]
  <2>1. w[a][0] = 0
    BY <1>4, <1>7
  <2>2. ASSUME NEW i \in Nat PROVE w[a][i] \in Nat /\ w[a][i] <= n + 1
    <3>1. w[a][i] = ver[a][i] \/ w[a][i] = n + 1
      BY <1>7
    <3>2. ver[a][i] \in Nat /\ ver[a][i] <= n /\ n \in Nat
      BY <1>2, <1>3, <1>5
    <3> QED
      BY ONLY <3>1, <3>2
  <2>3. ASSUME NEW i \in Nat, NEW j \in Nat, i <= j PROVE w[a][i] <= w[a][j]
    <3>1. CASE j <= lastRowId[s]
      BY <1>4, <1>7, <2>3, <3>1
    <3>2. CASE lastRowId[s] < j
      BY <1>2, <1>7, <2>2, <3>2
    <3> QED
      BY <3>1, <3>2
  <2> QED
    BY <1>2, <2>1, <2>2, <2>3
<1>10. ASSUME NEW b \in Address
       PROVE  /\ w[b][0] = 0
              /\ \A i \in Nat : w[b][i] <= Len(bound'[b])
              /\ \A i, j \in Nat : i <= j => w[b][i] <= w[b][j]
  <2>1. CASE b = a
    BY <1>9, <2>1
  <2>2. CASE b # a
    BY <1>2, <1>4, <1>6, <2>2
  <2> QED
    BY <2>1, <2>2
<1>11. ASSUME NEW t \in Server, NEW b \in Address, local'[t][b].id # 0
       PROVE  Abstract!AnswerAt(bound'[b], w[b][local'[t][b].id]) = local'[t][b].mxid
  <2>1. CASE t = s /\ b = a
    <3>1. lastRowId[s] + 1 \in Nat /\ lastRowId[s] < lastRowId[s] + 1
      OBVIOUS
    <3> QED
      BY <1>2, <1>7, <2>1, <3>1
  <2>2. CASE ~ (t = s /\ b = a)
    <3>1. local'[t][b] = local[t][b] /\ local[t][b].id # 0
      BY <1>11, <2>2
    <3>2. t \in BindsAt[b]
      BY <1>1, <3>1, LocalIsCarried
    <3>3. b # a
      BY <2>2, <3>2 DEF SingleHome
    <3>4. Abstract!AnswerAt(bound[b], ver[b][local[t][b].id]) = local[t][b].mxid
      BY <3>1 DEF Before, Versions
    <3> QED
      BY <1>2, <1>6, <3>1, <3>3, <3>4
  <2> QED
    BY <2>1, <2>2
<1>12. ASSUME NEW t \in Server, NEW p \in Server, NEW x \in push'[t][p].batch
       PROVE  Abstract!AnswerAt(bound'[x.address], w[x.address][x.id]) = x.mxid
  <2>1. x \in push[t][p].batch
    OBVIOUS
  <2>2. /\ x.address \in Address /\ x.id \in Nat /\ t \in BindsAt[x.address]
        /\ x.id <= lastRowId[t]
    BY <1>1, <2>1, BatchIsCarried
  <2>3. Abstract!AnswerAt(bound[x.address], ver[x.address][x.id]) = x.mxid
    BY <2>1 DEF Before, Versions
  <2>4. CASE x.address = a
    <3>1. t = s
      BY <2>2, <2>4 DEF SingleHome
    <3> QED
      BY <1>8, <2>2, <2>3, <2>4, <3>1
  <2>5. CASE x.address # a
    BY <1>2, <1>6, <2>2, <2>3, <2>5
  <2> QED
    BY <2>4, <2>5
<1>13. Versions(w)'
  BY <1>10, <1>11, <1>12 DEF Versions
<1>14. VersionsKept(ver, w, applied)
  <2> SUFFICES ASSUME NEW p \in Server, NEW b \in Address
               PROVE  /\ Abstract!AnswerAt(bound'[b], w[b][applied[p][b]]) =
                            Abstract!AnswerAt(bound[b], ver[b][applied[p][b]])
                      /\ ver[b][applied[p][b]] <= w[b][applied[p][b]]
    BY DEF VersionsKept
  <2>1. applied[p][b] \in Nat /\ ver[b][applied[p][b]] \in Nat
    BY <1>3, SMTT(30) DEF AppliedType
  <2>2. CASE b = a
    <3>1. applied[p][a] <= local[s][a].id
      BY AppliedWithin
    <3>2. local[s][a].id \in Nat
      BY <1>1 DEF CarriedInv, TypeOK, LocalRow
    <3>3. applied[p][a] <= lastRowId[s]
      BY <2>1, <2>2, <3>1, <3>2
    <3> QED
      BY <1>7, <1>8, <2>1, <2>2, <3>3
  <2>3. CASE b # a
    BY <1>2, <1>6, <2>1, <2>3
  <2> QED
    BY <2>2, <2>3
<1> QED
  BY <1>6, <1>13, <1>14

(* addBinding or removeBinding at s, finished or cut short by a crash.     *)
LEMMA WriteRefines ==
    ASSUME SingleHome, NEW ver \in VersionType, NEW applied \in AppliedType,
           Before(ver, applied), BoundNext, ReachedNext,
           NEW s \in Server, NEW a \in Address, NEW m \in Mxid \cup {NoMxid},
           NEW upTo, NEW tbl, WritesRow(s, a, m, tbl),
           global' = [global EXCEPT ![s] = doLocalPush(@, s, tbl, upTo)],
           UNCHANGED push \/ AbandonPushes(s)
    PROVE  Refines /\ Abstract!Assign
<1>1. CarriedInv /\ TypeOK /\ bound \in [Address -> Seq(Mxid \cup {NoMxid})]
  BY DEF Before, AckInv, CarriedInv
<1>2. /\ NewerTable(s, tbl) /\ LocalRowsAdvance /\ local'[s] = tbl
      /\ lastRowId[s] \in Nat /\ local[s][a].id <= lastRowId[s]
      /\ tbl[a].id = lastRowId[s] + 1 /\ tbl[a].mxid = m
      /\ \A t \in Server, b \in Address :
            ~ (t = s /\ b = a) => local'[t][b] = local[t][b]
      /\ \A t \in Server, b \in Address : Written(t, b) <=> t = s /\ b = a
  BY <1>1, WrittenRow
<1>3. \A t, p \in Server : push'[t][p].batch \subseteq push[t][p].batch
  <2>1. CASE UNCHANGED push
    BY <2>1
  <2>2. CASE AbandonPushes(s)
    <3>1. \A t, p \in Server : push'[t][p] = push[t][p] \/ push'[t][p] = Idle
      BY <1>1, <2>2 DEF AbandonPushes, TypeOK
    <3> QED
      BY <3>1, IdleFields
  <2> QED
    BY <2>1, <2>2
<1>4. bound' = [bound EXCEPT ![a] = Append(@, m)]
  BY <1>1, <1>2, WrittenBound
<1>5. bound' \in [Address -> Seq(Mxid \cup {NoMxid})]
  BY <1>1, <1>4
<1>6. PICK w \in VersionType : Versions(w)' /\ VersionsKept(ver, w, applied)
  <2>1. s \in BindsAt[a] /\ local'[s][a].id = lastRowId[s] + 1 /\ local'[s][a].mxid = m
    BY <1>2 DEF WritesRow
  <2> QED
    BY <1>2, <1>3, <1>4, <2>1, WrittenVersions
<1>7. \A b \in Address : tbl[b].id # 0 =>
         Abstract!AnswerAt(bound'[b], w[b][tbl[b].id]) = tbl[b].mxid
  BY <1>2, <1>6 DEF Versions
<1>8. PICK assocs \in SUBSET Assoc :
         /\ global' = [global EXCEPT ![s] = Store(@, s, assocs)]
         /\ NotOlder(s, s, assocs, applied, w)
         /\ BatchesNotOlder(s, assocs, applied)
  BY <1>2, <1>3, <1>7, LocalPushNotOlder, ZenonT(40)
<1>9. Refines
  BY <1>2, <1>5, <1>6, <1>8, StepRefines
<1> QED
  BY <1>4, <1>9 DEF Abstract!Assign

LEMMA BindRefines ==
    ASSUME SingleHome, NEW ver \in VersionType, NEW applied \in AppliedType,
           Before(ver, applied), BoundNext, ReachedNext,
           NEW s \in Server, NEW a \in Address, NEW m \in Mxid, NEW upTo,
           \/ Bind(s, a, m) \/ BindCrash(s, a, m, upTo)
           \/ Unbind(s, a, m) \/ UnbindCrash(s, a, m, upTo)
    PROVE  Refines /\ Abstract!Assign
<1> DEFINE withRow == addOrUpdateAssociation(local[s], a, m, lastRowId[s] + 1, clock + 1)
           withoutRow == addOrUpdateAssociation(local[s], a, NoMxid, lastRowId[s] + 1, clock + 1)
           Push(tbl, n) == global' = [global EXCEPT ![s] = doLocalPush(@, s, tbl, n)]
<1>1. BoundTable(s, a, m) = withRow /\ UnboundTable(s, a) = withoutRow
  BY UnboundTableIsWritten DEF BoundTable
<1>2. CASE Bind(s, a, m) \/ BindCrash(s, a, m, upTo)
  <2>1. /\ WritesRow(s, a, m, withRow)
        /\ \/ Push(withRow, lastRowId[s] + 1) /\ UNCHANGED push
           \/ Push(withRow, upTo) /\ AbandonPushes(s)
    <3> HIDE DEF withRow
    <3>1. /\ s \in BindsAt[a] /\ WriteLocal(s, withRow)
          /\ \/ Push(withRow, lastRowId[s] + 1) /\ UNCHANGED push
             \/ Push(withRow, upTo) /\ AbandonPushes(s)
      BY <1>1, <1>2 DEF Bind, BindCrash, CrashWithin
    <3> QED
      BY <3>1 DEF WritesRow, withRow
  <2> HIDE DEF withRow
  <2> QED
    BY <2>1, WriteRefines
<1>3. CASE Unbind(s, a, m) \/ UnbindCrash(s, a, m, upTo)
  <2>1. /\ WritesRow(s, a, NoMxid, withoutRow)
        /\ \/ Push(withoutRow, lastRowId[s] + 1) /\ UNCHANGED push
           \/ Push(withoutRow, upTo) /\ AbandonPushes(s)
    <3> HIDE DEF withoutRow
    <3>1. /\ s \in BindsAt[a] /\ WriteLocal(s, withoutRow)
          /\ \/ Push(withoutRow, lastRowId[s] + 1) /\ UNCHANGED push
             \/ Push(withoutRow, upTo) /\ AbandonPushes(s)
      BY <1>1, <1>3 DEF Unbind, UnbindCrash, CrashWithin
    <3> QED
      BY <3>1 DEF WritesRow, withoutRow
  <2> HIDE DEF withoutRow
  <2> QED
    BY <2>1, WriteRefines
<1> QED
  BY <1>2, <1>3

(* The scheduled push and the end of a push only move batches.             *)
LEMMA PushRefines ==
    ASSUME SingleHome, NEW ver \in VersionType, NEW applied \in AppliedType,
           Before(ver, applied), BoundNext, ReachedNext,
           NEW s \in Server, NEW p \in Server,
           \/ Restart(s) \/ ScheduledPush(s) \/ PushSucceeded(s, p)
           \/ PushRefused(s, p) \/ PushError(s, p)
    PROVE  Refines /\ UNCHANGED bound
<1>1. TypeOK /\ UNCHANGED <<local, global>>
  BY DEF Before, AckInv, CarriedInv, Restart, ScheduledPush, PushSucceeded,
         PushRefused, PushError
<1>2. /\ push \in [Server -> [Server -> PushState]] /\ lastSent[s] \in [Server -> Nat]
      /\ local[s] \in [Address -> LocalRow]
  BY <1>1 DEF TypeOK
<1>3. CASE ScheduledPush(s)
  <2>1. \A t, q \in Server : \/ push'[t][q] \in {push[t][q], Idle}
                             \/ t = s /\ push'[t][q] = Sent(PendingFor(s, q))
    BY <1>2, <1>3 DEF ScheduledPush
  <2>2. ASSUME NEW q \in Server, NEW x \in PendingFor(s, q)
        PROVE  /\ x.address \in Address /\ local[s][x.address].id # 0
               /\ x.id = local[s][x.address].id /\ x.mxid = local[s][x.address].mxid
    <3>1. lastSent[s][q] \in Nat
      BY <1>2
    <3>2. x \in getAssociationsAfterId(local[s], lastSent[s][q])
      BY DEF PendingFor, FirstById
    <3>3. /\ x \in Assoc /\ lastSent[s][q] < x.id
          /\ x.id = local[s][x.address].id /\ x.mxid = local[s][x.address].mxid
      BY <1>2, <3>1, <3>2, AfterIdRows
    <3> QED
      BY <3>1, <3>3 DEF Assoc
  <2>3. \A q \in Server : Sent(PendingFor(s, q)).batch = PendingFor(s, q)
    BY DEF Sent
  <2>4. ASSUME NEW t \in Server, NEW q \in Server, NEW x \in push'[t][q].batch
        PROVE  \/ x \in push[t][q].batch
               \/ /\ x.address \in Address
                  /\ local[t][x.address].id # 0
                  /\ x.id = local[t][x.address].id /\ x.mxid = local[t][x.address].mxid
    <3>1. CASE push'[t][q] \in {push[t][q], Idle}
      BY <3>1, IdleFields
    <3>2. CASE t = s /\ push'[t][q] = Sent(PendingFor(s, q))
      BY <2>2, <2>3, <3>2
    <3> QED
      BY <2>1, <3>1, <3>2
  <2>5. BatchesFromTables
    BY <2>4 DEF BatchesFromTables
  <2> QED
    BY <1>1, <2>5, QuietRefines
<1>4. CASE Restart(s) \/ PushSucceeded(s, p) \/ PushRefused(s, p) \/ PushError(s, p)
  <2>1. \/ push' = [push EXCEPT ![s] = [q \in Server |-> Idle]]
        \/ push' = [push EXCEPT ![s][p] = Idle]
    BY <1>4 DEF Restart, AbandonPushes, PushSucceeded, PushRefused, PushError
  <2>2. \A t, q \in Server : push'[t][q] = push[t][q] \/ push'[t][q] = Idle
    BY <1>2, <2>1
  <2>3. BatchesFromTables
    BY <2>2, IdleFields DEF BatchesFromTables
  <2> QED
    BY <1>1, <2>3, QuietRefines
<1> QED
  BY <1>3, <1>4

LEMMA InitRefinement == RefinementInit => RefinementInv /\ Abstract!Init
<1> SUFFICES ASSUME RefinementInit PROVE RefinementInv /\ Abstract!Init
  OBVIOUS
<1>1. Init /\ AckInv
  BY InitAck DEF RefinementInit
<1>2. /\ bound = [a \in Address |-> <<>>]
      /\ reached = [s \in Server |-> [a \in Address |-> 0]]
  BY DEF RefinementInit
<1>3. /\ bound \in [Address -> Seq(Mxid \cup {NoMxid})] /\ reached \in AppliedType
      /\ \A a \in Address : Len(bound[a]) = 0
  BY <1>2 DEF AppliedType
<1>4. \A s \in Server, a \in Address : getMxid(global[s], a) = NoMxid
  BY <1>1 DEF Init, getMxid
<1>5. PICK ver \in VersionType : ver = [a \in Address |-> [i \in Nat |-> 0]]
  BY DEF VersionType
<1>6. Versions(ver)
  <2>1. /\ \A s \in Server, a \in Address : local[s][a].id = 0
        /\ \A s, p \in Server : push[s][p].batch = {}
    BY <1>1, IdleFields DEF Init, EmptyLocalTable, NoRow
  <2>2. \A a \in Address, i \in Nat : ver[a][i] = 0
    BY <1>5
  <2> QED
    BY <1>3, <2>1, <2>2 DEF Versions
<1>7. PICK applied \in AppliedType : applied = [s \in Server |-> [a \in Address |-> 0]]
  BY DEF AppliedType
<1>8. Applied(ver, applied)
  <2>1. \A p \in Server : global[p] = {} /\ \A s \in Server : push[s][p].batch = {}
    BY <1>1, IdleFields DEF Init
  <2>2. \A p \in Server, a \in Address :
           applied[p][a] = 0 /\ reached[p][a] = 0 /\ ver[a][0] = 0
    BY <1>2, <1>5, <1>7
  <2> QED
    BY <1>4, <2>1, <2>2 DEF Applied, Abstract!AnswerAt
<1>9. RefinementInv
  BY <1>1, <1>3, <1>6, <1>8 DEF RefinementInv, VersionType, AppliedType
<1>10. Answers = [s \in Server |-> [a \in Address |-> NoMxid]]
  BY <1>4 DEF Answers
<1> QED
  BY <1>2, <1>9, <1>10 DEF Abstract!Init

LEMMA NextRefinement ==
    ASSUME SingleHome, LateLinks = {}
    PROVE  RefinementInv /\ [RefinementNext]_refinementVars
              => RefinementInv' /\ [Abstract!Next]_(Abstract!vars)
<1> SUFFICES ASSUME RefinementInv, [RefinementNext]_refinementVars
             PROVE  RefinementInv' /\ [Abstract!Next]_(Abstract!vars)
  OBVIOUS
<1>1. PICK ver \in VersionType, applied \in AppliedType : Before(ver, applied)
  BY DEF RefinementInv, Before, VersionType, AppliedType
<1>2. AckInv'
  <2>1. AckInv /\ [Next]_vars
    BY DEF RefinementInv, RefinementNext, refinementVars
  <2> QED
    BY <2>1, NextAck
<1>3. CASE RefinementNext
  <2>1. Next /\ BoundNext /\ ReachedNext
    BY <1>3 DEF RefinementNext, BoundNext, ReachedNext
  <2>2. Refines /\ (Abstract!Assign \/ UNCHANGED bound)
    <3>1. ASSUME NEW s \in Server, NEW a \in Address, NEW m \in Mxid,
                 \/ Bind(s, a, m) \/ Unbind(s, a, m) \/ UnbindNothing(s, a, m)
                 \/ \E upTo \in 0..MaxRowId : \/ BindCrash(s, a, m, upTo)
                                              \/ UnbindCrash(s, a, m, upTo)
          PROVE  Refines /\ (Abstract!Assign \/ UNCHANGED bound)
      BY <1>1, <2>1, <3>1, BindRefines, UnbindNothingRefines
    <3>2. ASSUME NEW s \in Server, Restart(s) \/ ScheduledPush(s)
          PROVE  Refines /\ (Abstract!Assign \/ UNCHANGED bound)
      BY <1>1, <2>1, <3>2, PushRefines
    <3>3. ASSUME NEW s \in Server, NEW p \in Server,
                 \/ \E failed \in 0..MaxRowId : Receive(s, p, failed)
                 \/ PushSucceeded(s, p) \/ PushRefused(s, p) \/ PushError(s, p)
          PROVE  Refines /\ (Abstract!Assign \/ UNCHANGED bound)
      BY <1>1, <2>1, <3>3, PushRefines, ReceiveRefines
    <3>4. CASE \E r \in late, failed \in 0..MaxRowId : ReceiveLate(r, failed)
      BY <3>4 DEF RefinementInv, AckInv
    <3> QED
      BY <2>1, <3>1, <3>2, <3>3, <3>4 DEF Next
  <2>3. RefinementInv'
    BY <1>2, <2>2 DEF Refines, RefinementInv, VersionType, AppliedType
  <2>4. \A p \in Server, a \in Address :
           /\ reached'[p][a] \in reached[p][a]..Len(bound'[a])
           /\ Abstract!AnswerAt(bound'[a], reached'[p][a]) = getMxid(global'[p], a)
    BY <2>2 DEF Refines, Answered
  <2>5. Answers' = [p \in Server |-> [a \in Address |->
                      Abstract!AnswerAt(bound'[a], reached'[p][a])]]
    BY <2>4 DEF Answers
  <2>6. Abstract!Next
    BY <2>2, <2>4, <2>5 DEF Abstract!Next
  <2> QED
    BY <2>3, <2>6
<1>4. CASE UNCHANGED refinementVars
  <2>1. UNCHANGED <<local, global, push, bound, reached>>
    BY <1>4 DEF refinementVars, vars
  <2>2. Versions(ver)' /\ Applied(ver, applied)'
    BY <1>1, <2>1 DEF Before, Versions, Applied
  <2>3. RefinementInv'
    BY <1>1, <1>2, <2>1, <2>2 DEF RefinementInv, Before, VersionType, AppliedType
  <2>4. UNCHANGED Abstract!vars
    BY <2>1 DEF Abstract!vars, Answers
  <2> QED
    BY <2>3, <2>4
<1> QED
  BY <1>3, <1>4

(* Lookups only ever move forward: if every address has a single home and  *)
(* no request is late, then whatever is refused, lost, retried or cut      *)
(* short by a crash, every Sydent answers with a version the address had,  *)
(* and never with one before what it answered earlier.                     *)
THEOREM ReplicationImplementsDirectory ==
    ASSUME SingleHome, LateLinks = {}
    PROVE  RefinementSpec => ImplementsDirectory
BY InitRefinement, NextRefinement, PTL
   DEF RefinementSpec, ImplementsDirectory, Abstract!Spec
=============================================================================
