-------------------------- MODULE ReplicationProofs --------------------------
(***************************************************************************)
(* Theorems about Replication, for any number of Sydents, addresses and    *)
(* mxids.                                                                  *)
(***************************************************************************)
EXTENDS ReplicationInvariants, FiniteSetTheorems, WellFoundedInduction, TLAPS

-----------------------------------------------------------------------------
(* Operators of Associations *)

(* A non-empty bounded set of naturals has a largest element, and Max,     *)
(* which lastIdFromServer and _push_to_peer take of sets of ids, is it.    *)
LEMMA MaxOfBounded ==
    ASSUME NEW S \in SUBSET Nat, S # {},
           NEW n \in Nat, \A i \in S : i <= n
    PROVE  /\ Max(S) \in S
           /\ \A i \in S : i <= Max(S)
<1> DEFINE From(i) == {j \in S : i <= j}
           T == {From(i) : i \in S}
<1>1. IsFiniteSet(S)
  BY FS_BoundedSetOfNaturals
<1>2. T \subseteq FiniteSubsetsOf(S)
  BY <1>1, FS_FiniteSubsetsOfFinite
<1>3. IsWellFoundedOn(StrictSubsetOrdering(S), FiniteSubsetsOf(S))
  BY FS_StrictSubsetOrderingWellFounded
<1>4. PICK F \in T : \A G \in T : ~ (<<G, F>> \in StrictSubsetOrdering(S))
  <2>1. T # {}
    OBVIOUS
  <2> QED
    BY <1>2, <1>3, <2>1, WFMin
<1>5. PICK k \in S : F = From(k)
  OBVIOUS
<1>6. ASSUME NEW i \in S PROVE i <= k
  <2> SUFFICES ASSUME k < i PROVE FALSE
    OBVIOUS
  <2>0. k \in Nat /\ i \in Nat
    OBVIOUS
  <2>1. /\ \A j \in S : i <= j => k <= j
        /\ k <= k
        /\ ~ (i <= k)
    BY <2>0
  <2>2. /\ From(i) \subseteq From(k)
        /\ From(i) # From(k)
    BY <2>1
  <2>3. From(i) \in T /\ From(i) \in SUBSET S /\ From(k) \in SUBSET S
    OBVIOUS
  <2>4. <<From(i), From(k)>> \in StrictSubsetOrdering(S)
    BY <2>2, <2>3 DEF StrictSubsetOrdering
  <2> QED
    BY <1>4, <1>5, <2>3, <2>4
<1>7. \E x \in S : \A y \in S : x >= y
  BY <1>6
<1> QED
  BY <1>7 DEF Max

(* What Store leaves in a global table was there or was just brought.      *)
LEMMA StoreRows ==
    ASSUME NEW tbl, NEW origin, NEW assocs
    PROVE  \A r \in Store(tbl, origin, assocs) :
              r \in tbl \/ \E x \in assocs : x.mxid # NoMxid /\ r = RowOf(origin, x)
BY DEF Store

(* A row made from an association gives the association back.              *)
LEMMA RowOfAssoc ==
    ASSUME NEW s \in Server, NEW x \in Assoc
    PROVE  /\ AssocOf(RowOf(s, x)) = x
           /\ RowOf(s, x).origin = s
           /\ x.mxid # NoMxid => RowOf(s, x) \in GlobalRow
BY DEF RowOf, AssocOf, Assoc, GlobalRow

LEMMA StoreType ==
    ASSUME NEW tbl \in SUBSET GlobalRow, NEW s \in Server, NEW assocs \in SUBSET Assoc
    PROVE  Store(tbl, s, assocs) \in SUBSET GlobalRow
BY StoreRows, RowOfAssoc

LEMMA CommittedSubset ==
    ASSUME NEW assocs, NEW failed
    PROVE  Committed(assocs, failed) \subseteq assocs
BY DEF Committed

(* The local associations after an id are rows of the local table.         *)
LEMMA AfterIdRows ==
    ASSUME NEW tbl \in [Address -> LocalRow], NEW n \in Nat
    PROVE  /\ getAssociationsAfterId(tbl, n) \in SUBSET Assoc
           /\ \A x \in getAssociationsAfterId(tbl, n) :
                 /\ n < x.id
                 /\ x.id = tbl[x.address].id
                 /\ x.mxid = tbl[x.address].mxid
                 /\ x.ts = tbl[x.address].ts
BY DEF getAssociationsAfterId, LocalRow, Assoc

LEMMA BoundTableType ==
    ASSUME NEW tbl \in [Address -> LocalRow], NEW a \in Address,
           NEW m \in Mxid \cup {NoMxid}, NEW id \in Nat, NEW ts \in Nat
    PROVE  /\ addOrUpdateAssociation(tbl, a, m, id, ts) \in [Address -> LocalRow]
           /\ removeLocalAssociation(tbl, a, id, ts) \in [Address -> LocalRow]
BY DEF addOrUpdateAssociation, removeLocalAssociation, LocalRow

(* lastIdFromServer is an id once the ids of the rows are bounded.         *)
LEMMA LastIdIsNat ==
    ASSUME NEW tbl \in SUBSET GlobalRow, NEW s \in Server, NEW n \in Nat,
           \A r \in tbl : r.origin = s => r.originId <= n
    PROVE  lastIdFromServer(tbl, s) \in Nat
<1> DEFINE ids == {g.originId : g \in {r \in tbl : r.origin = s}}
<1>1. ids \in SUBSET Nat /\ \A i \in ids : i <= n
  BY DEF GlobalRow
<1>2. ids # {} => Max(ids) \in Nat
  <2> HIDE DEF ids
  <2> QED
    BY <1>1, MaxOfBounded
<1> QED
  BY <1>2 DEF lastIdFromServer

-----------------------------------------------------------------------------
(* Where the associations of a Sydent are *)

LEMMA InCarried ==
    ASSUME NEW s \in Server
    PROVE  \A x : x \in Carried(s) <=>
              \/ \E a \in Address : local[s][a].id # 0 /\ x = LocalAssoc(s, a)
              \/ \E p \in Server : x \in push[s][p].batch
              \/ \E r \in late : r.from = s /\ x \in r.batch
              \/ \E p \in Server : \E r \in global[p] : r.origin = s /\ x = AssocOf(r)
BY DEF Carried

LEMMA InCarriedNext ==
    ASSUME NEW s \in Server
    PROVE  \A x : x \in Carried(s)' <=>
              \/ \E a \in Address : local'[s][a].id # 0 /\ x = LocalAssoc(s, a)'
              \/ \E p \in Server : x \in push'[s][p].batch
              \/ \E r \in late' : r.from = s /\ x \in r.batch
              \/ \E p \in Server : \E r \in global'[p] : r.origin = s /\ x = AssocOf(r)
BY DEF Carried

LEMMA IdleFields == Idle.status = "idle" /\ Idle.batch = {} /\ Idle \in PushState
BY DEF Idle, PushState

LEMMA CarriedType ==
    ASSUME TypeOK, NEW s \in Server
    PROVE  Carried(s) \subseteq Assoc
<1> SUFFICES ASSUME NEW x \in Carried(s) PROVE x \in Assoc
  OBVIOUS
<1>1. ASSUME NEW a \in Address, x = LocalAssoc(s, a) PROVE x \in Assoc
  BY <1>1 DEF TypeOK, LocalAssoc, LocalRow, Assoc
<1>2. ASSUME NEW p \in Server, x \in push[s][p].batch PROVE x \in Assoc
  BY <1>2 DEF TypeOK, PushState
<1>3. ASSUME NEW r \in late, x \in r.batch PROVE x \in Assoc
  BY <1>3 DEF TypeOK, Request
<1>4. ASSUME NEW p \in Server, NEW r \in global[p], x = AssocOf(r) PROVE x \in Assoc
  BY <1>4 DEF TypeOK, GlobalRow, AssocOf, Assoc
<1> QED
  BY <1>1, <1>2, <1>3, <1>4, InCarried

(* A step that writes no local row and brings no association into being.   *)
LEMMA NothingNew ==
    ASSUME CarriedInv,
           UNCHANGED <<local, lastRowId, clock>>,
           \A t \in Server : Carried(t)' \subseteq Carried(t)
    PROVE  OriginIsNewest'
BY DEF CarriedInv, OriginIsNewest

(* A step that writes one local row, with the next id and the next time.   *)
LEMMA OneNew ==
    ASSUME CarriedInv, NEW s \in Server, NEW x \in Assoc,
           x.id = lastRowId[s] + 1, x.ts = clock + 1, s \in BindsAt[x.address],
           lastRowId' = [lastRowId EXCEPT ![s] = @ + 1],
           clock' = clock + 1,
           local' = [local EXCEPT ![s] =
                       addOrUpdateAssociation(@, x.address, x.mxid, x.id, x.ts)],
           Carried(s)' \subseteq Carried(s) \cup {x},
           \A t \in Server \ {s} : Carried(t)' \subseteq Carried(t)
    PROVE  OriginIsNewest'
<1>1. TypeOK /\ OriginIsNewest
  BY DEF CarriedInv
<1>2. /\ clock \in Nat /\ lastRowId[s] \in Nat /\ x.address \in Address
      /\ local[s] \in [Address -> LocalRow]
  BY <1>1 DEF TypeOK, Assoc
<1>3. /\ lastRowId'[s] = lastRowId[s] + 1
      /\ local'[s][x.address].id = x.id
      /\ \A a \in Address \ {x.address} : local'[s][a] = local[s][a]
      /\ \A t \in Server \ {s} : lastRowId'[t] = lastRowId[t] /\ local'[t] = local[t]
  BY <1>1, <1>2 DEF TypeOK, addOrUpdateAssociation
<1>4. \A t \in Server : \A y \in Carried(t) : y \in Assoc
  BY <1>1, CarriedType
<1>5. ASSUME NEW t \in Server \ {s}
      PROVE  /\ \A y \in Carried(t)' :
                   /\ 0 < y.id /\ y.id <= lastRowId'[t] /\ y.ts <= clock'
                   /\ t \in BindsAt[y.address]
                   /\ y.id <= local'[t][y.address].id
             /\ \A y, z \in Carried(t)' : /\ y.id = z.id => y = z
                                          /\ y.id < z.id => y.ts < z.ts
  BY <1>1, <1>2, <1>3, <1>4 DEF OriginIsNewest, Assoc
<1>6. ASSUME NEW y \in Carried(s)'
      PROVE  /\ 0 < y.id /\ y.id <= lastRowId'[s] /\ y.ts <= clock'
             /\ s \in BindsAt[y.address]
             /\ y.id <= local'[s][y.address].id
  <2>1. CASE y = x
    BY <1>2, <1>3, <2>1
  <2>2. CASE y \in Carried(s)
    <3>1. y \in Assoc /\ y.id <= lastRowId[s] /\ 0 < y.id /\ y.ts <= clock
          /\ s \in BindsAt[y.address] /\ y.id <= local[s][y.address].id
      BY <1>1, <1>4, <2>2 DEF OriginIsNewest
    <3> QED
      BY <1>2, <1>3, <3>1 DEF Assoc
  <2> QED
    BY <2>1, <2>2
<1>7. ASSUME NEW y \in Carried(s)', NEW z \in Carried(s)'
      PROVE  /\ y.id = z.id => y = z
             /\ y.id < z.id => y.ts < z.ts
  <2>1. \A w \in Carried(s) : w \in Assoc /\ w.id < x.id /\ w.ts < x.ts
    BY <1>1, <1>2, <1>4 DEF OriginIsNewest, Assoc
  <2>2. CASE y \in Carried(s) /\ z \in Carried(s)
    BY <1>1, <2>2 DEF OriginIsNewest
  <2>3. CASE y = x \/ z = x
    BY <2>1, <2>3 DEF Assoc
  <2> QED
    BY <2>2, <2>3
<1> QED
  BY <1>5, <1>6, <1>7 DEF OriginIsNewest

-----------------------------------------------------------------------------
(* The invariant that holds for any homes and any late requests *)

LEMMA LastIdOfCarried ==
    ASSUME CarriedInv, NEW s \in Server
    PROVE  lastIdFromServer(global[s], s) \in Nat
<1>1. TypeOK /\ OriginIsNewest
  BY DEF CarriedInv
<1>2. global[s] \in SUBSET GlobalRow /\ lastRowId[s] \in Nat
  BY <1>1 DEF TypeOK
<1>3. \A r \in global[s] : r.origin = s => r.originId <= lastRowId[s]
  <2> SUFFICES ASSUME NEW r \in global[s], r.origin = s
               PROVE  r.originId <= lastRowId[s]
    OBVIOUS
  <2>1. AssocOf(r) \in Carried(s)
    BY InCarried
  <2>2. AssocOf(r).id = r.originId
    BY DEF AssocOf
  <2> QED
    BY <1>1, <2>1, <2>2 DEF OriginIsNewest
<1> QED
  BY <1>2, <1>3, LastIdIsNat

(* The local push stores associations made of rows of the table it is      *)
(* given.                                                                  *)
LEMMA LocalPushIsStore ==
    ASSUME CarriedInv, NEW s \in Server, NEW upTo,
           NEW tbl \in [Address -> LocalRow]
    PROVE  \E new \in SUBSET Assoc :
              /\ doLocalPush(global[s], s, tbl, upTo) = Store(global[s], s, new)
              /\ \A x \in new :
                    /\ 0 < x.id
                    /\ x = [id |-> tbl[x.address].id, address |-> x.address,
                            mxid |-> tbl[x.address].mxid, ts |-> tbl[x.address].ts]
<1> DEFINE last == lastIdFromServer(global[s], s)
           new == {x \in getAssociationsAfterId(tbl, last) : x.id <= upTo}
<1>1. last \in Nat
  BY LastIdOfCarried
<1>2. \A x \in new : /\ last < x.id /\ x \in Assoc
                     /\ x.id = tbl[x.address].id
                     /\ x.mxid = tbl[x.address].mxid /\ x.ts = tbl[x.address].ts
  BY <1>1, AfterIdRows
<1>3. /\ new \in SUBSET Assoc
      /\ \A x \in new : /\ 0 < x.id
                        /\ x = [id |-> tbl[x.address].id, address |-> x.address,
                                mxid |-> tbl[x.address].mxid, ts |-> tbl[x.address].ts]
  BY <1>1, <1>2 DEF Assoc
<1>4. doLocalPush(global[s], s, tbl, upTo) = Store(global[s], s, new)
  BY DEF doLocalPush
<1> HIDE DEF new
<1> QED
  BY <1>3, <1>4

(* The local push of s adds rows of carried associations or of the rows of *)
(* the local table it is given.                                            *)
LEMMA LocalPushRows ==
    ASSUME CarriedInv, NEW s \in Server, NEW upTo,
           NEW tbl \in [Address -> LocalRow]
    PROVE  /\ doLocalPush(global[s], s, tbl, upTo) \in SUBSET GlobalRow
           /\ \A r \in doLocalPush(global[s], s, tbl, upTo) :
                 \/ r \in global[s]
                 \/ /\ r.origin = s
                    /\ tbl[r.address].id # 0
                    /\ AssocOf(r) = [id |-> tbl[r.address].id, address |-> r.address,
                                     mxid |-> tbl[r.address].mxid,
                                     ts |-> tbl[r.address].ts]
<1>1. global[s] \in SUBSET GlobalRow
  BY DEF CarriedInv, TypeOK
<1>2. PICK new \in SUBSET Assoc :
         /\ doLocalPush(global[s], s, tbl, upTo) = Store(global[s], s, new)
         /\ \A x \in new :
               /\ 0 < x.id
               /\ x = [id |-> tbl[x.address].id, address |-> x.address,
                       mxid |-> tbl[x.address].mxid, ts |-> tbl[x.address].ts]
  BY LocalPushIsStore
<1>3. \A x \in new : /\ AssocOf(RowOf(s, x)) = x /\ RowOf(s, x).origin = s
                     /\ RowOf(s, x).address = x.address
  BY RowOfAssoc DEF RowOf
<1>4. Store(global[s], s, new) \in SUBSET GlobalRow
  BY <1>1, StoreType
<1>5. ASSUME NEW r \in Store(global[s], s, new), r \notin global[s]
      PROVE  /\ r.origin = s
             /\ tbl[r.address].id # 0
             /\ AssocOf(r) = [id |-> tbl[r.address].id, address |-> r.address,
                              mxid |-> tbl[r.address].mxid,
                              ts |-> tbl[r.address].ts]
  <2>1. PICK x \in new : r = RowOf(s, x)
    BY <1>5, StoreRows
  <2>2. x \in Assoc /\ 0 < x.id /\ x.id = tbl[x.address].id
    BY <1>2 DEF Assoc
  <2> QED
    BY <1>2, <1>3, <2>1, <2>2
<1> QED
  BY <1>2, <1>4, <1>5

(* What a Sydent gives up on was under way before.                         *)
LEMMA UnprocessedRequests ==
    ASSUME TypeOK, NEW s \in Server, NEW ps \in SUBSET Server
    PROVE  /\ Unprocessed(s, ps) \subseteq
                 Request
           /\ \A r \in Unprocessed(s, ps) :
                 r.from = s /\ \E p \in Server : r.batch = push[s][p].batch
<1> SUFFICES ASSUME NEW r \in Unprocessed(s, ps)
             PROVE  /\ r \in Request
                    /\ r.from = s /\ \E p \in Server : r.batch = push[s][p].batch
  OBVIOUS
<1>1. PICK p \in ps : r = [from |-> s, to |-> p, batch |-> push[s][p].batch]
  BY DEF Unprocessed
<1>2. p \in Server /\ push[s][p].batch \in SUBSET Assoc
  BY DEF TypeOK, PushState
<1> QED
  BY <1>1, <1>2 DEF Request

(* addBinding and removeBinding, completed or cut short by a crash.        *)
LEMMA WriteStep ==
    ASSUME CarriedInv, NEW s \in Server, NEW a \in Address, s \in BindsAt[a],
           NEW m \in Mxid \cup {NoMxid}, NEW upTo, NEW tbl,
           tbl = addOrUpdateAssociation(local[s], a, m, lastRowId[s] + 1, clock + 1),
           WriteLocal(s, tbl),
           global' = [global EXCEPT ![s] = doLocalPush(@, s, tbl, upTo)],
           UNCHANGED <<push, late>> \/ AbandonPushes(s),
           UNCHANGED lastSent
    PROVE  CarriedInv'
<1> DEFINE x == [id |-> lastRowId[s] + 1, address |-> a, mxid |-> m, ts |-> clock + 1]
<1>1. TypeOK /\ OriginIsNewest /\ PushesNotEmpty
  BY DEF CarriedInv
<1>2. /\ lastRowId[s] \in Nat /\ clock \in Nat /\ local[s] \in [Address -> LocalRow]
      /\ global[s] \in SUBSET GlobalRow
  BY <1>1 DEF TypeOK
<1>3. tbl \in [Address -> LocalRow]
  BY <1>2, BoundTableType
<1>4. /\ tbl[a] = [id |-> x.id, mxid |-> m, ts |-> x.ts]
      /\ \A b \in Address \ {a} : tbl[b] = local[s][b]
  BY <1>2 DEF addOrUpdateAssociation
<1>5. x \in Assoc
  BY <1>2 DEF Assoc
<1>6. /\ local' = [local EXCEPT ![s] = tbl]
      /\ lastRowId' = [lastRowId EXCEPT ![s] = @ + 1]
      /\ clock' = clock + 1
  BY DEF WriteLocal
<1>7. /\ local'[s] = tbl
      /\ global'[s] = doLocalPush(global[s], s, tbl, upTo)
      /\ \A t \in Server \ {s} : local'[t] = local[t] /\ global'[t] = global[t]
  BY <1>1, <1>6 DEF TypeOK
<1>8. /\ \A p, t \in Server : push'[t][p] = push[t][p] \/ push'[t][p] = Idle
      /\ \A r \in late' : r \in late \/ (r.from = s /\ \E p \in Server : r.batch = push[s][p].batch)
      /\ push' \in [Server -> [Server -> PushState]]
      /\ late' \subseteq Request
  <2>1. CASE UNCHANGED <<push, late>>
    BY <1>1, <2>1 DEF TypeOK
  <2>2. CASE AbandonPushes(s)
    <3>1. Unprocessed(s, Server) \subseteq Request
          /\ \A r \in Unprocessed(s, Server) :
                r.from = s /\ \E p \in Server : r.batch = push[s][p].batch
      BY <1>1, UnprocessedRequests
    <3> QED
      BY <1>1, <2>2, <3>1, IdleFields DEF AbandonPushes, TypeOK
  <2> QED
    BY <2>1, <2>2
<1>9. TypeOK'
  <2>1. doLocalPush(global[s], s, tbl, upTo) \in SUBSET GlobalRow
    BY <1>3, LocalPushRows
  <2>2. global' \in [Server -> SUBSET GlobalRow]
    BY <1>1, <2>1 DEF TypeOK
  <2>3. /\ local' \in [Server -> [Address -> LocalRow]]
        /\ lastRowId' \in [Server -> Nat]
        /\ clock' \in Nat
        /\ lastSent' \in [Server -> [Server -> Nat]]
    BY <1>1, <1>2, <1>3, <1>6 DEF TypeOK
  <2> QED
    BY <1>8, <2>2, <2>3 DEF TypeOK
<1>10. PushesNotEmpty'
  <2> SUFFICES ASSUME NEW t \in Server, NEW p \in Server
               PROVE  /\ push'[t][p].status = "idle" <=> push'[t][p].batch = {}
                      /\ push'[t][p].status # "idle" => p # t
    BY DEF PushesNotEmpty
  <2>1. CASE push'[t][p] = push[t][p]
    BY <1>1, <2>1 DEF PushesNotEmpty
  <2>2. CASE push'[t][p] = Idle
    BY <2>2, IdleFields
  <2> QED
    BY <1>8, <2>1, <2>2
<1>11. ASSUME NEW t \in Server, NEW y \in Carried(t)'
       PROVE  y \in Carried(t) \/ (t = s /\ y = x)
  <2>1. ASSUME NEW b \in Address, local'[t][b].id # 0, y = LocalAssoc(t, b)'
        PROVE  y \in Carried(t) \/ (t = s /\ y = x)
    <3>1. CASE t = s /\ b = a
      BY <1>4, <1>7, <2>1, <3>1 DEF LocalAssoc
    <3>2. CASE ~ (t = s /\ b = a)
      <4>1. local'[t][b] = local[t][b]
        BY <1>4, <1>7, <3>2
      <4> QED
        BY <2>1, <4>1, InCarried DEF LocalAssoc
    <3> QED
      BY <3>1, <3>2
  <2>2. ASSUME NEW p \in Server, y \in push'[t][p].batch PROVE y \in Carried(t)
    BY <1>8, <2>2, InCarried, IdleFields
  <2>3. ASSUME NEW r \in late', r.from = t, y \in r.batch PROVE y \in Carried(t)
    BY <1>8, <2>3, InCarried
  <2>4. ASSUME NEW p \in Server, NEW r \in global'[p], r.origin = t, y = AssocOf(r)
        PROVE  y \in Carried(t) \/ (t = s /\ y = x)
    <3>1. CASE r \in global[p]
      BY <2>4, <3>1, InCarried
    <3>2. CASE r \notin global[p]
      <4>1. p = s
        BY <1>7, <2>4, <3>2
      <4>2. /\ t = s
            /\ tbl[r.address].id # 0
            /\ y = [id |-> tbl[r.address].id, address |-> r.address,
                    mxid |-> tbl[r.address].mxid, ts |-> tbl[r.address].ts]
            /\ r \in GlobalRow
        BY <1>3, <1>7, <2>4, <3>2, <4>1, LocalPushRows, SMTT(30)
      <4>3. r.address \in Address
        BY <4>2 DEF GlobalRow
      <4>4. CASE r.address = a
        BY <1>4, <4>2, <4>4
      <4>5. CASE r.address # a
        <5>1. tbl[r.address] = local[s][r.address]
          BY <1>4, <4>3, <4>5
        <5>2. y = LocalAssoc(s, r.address) /\ local[s][r.address].id # 0
          BY <4>2, <5>1 DEF LocalAssoc
        <5> QED
          BY <4>2, <4>3, <5>2, InCarried
      <4> QED
        BY <4>4, <4>5
    <3> QED
      BY <3>1, <3>2
  <2> QED
    BY <2>1, <2>2, <2>3, <2>4, InCarriedNext
<1>12. OriginIsNewest'
  <2>1. /\ x.id = lastRowId[s] + 1 /\ x.ts = clock + 1 /\ s \in BindsAt[x.address]
        /\ local' = [local EXCEPT ![s] =
                       addOrUpdateAssociation(@, x.address, x.mxid, x.id, x.ts)]
    BY <1>1, <1>6 DEF TypeOK
  <2>2. Carried(s)' \subseteq Carried(s) \cup {x}
        /\ \A t \in Server \ {s} : Carried(t)' \subseteq Carried(t)
    BY <1>11
  <2> HIDE DEF x
  <2> QED
    BY <1>5, <1>6, <2>1, <2>2, OneNew
<1> QED
  BY <1>9, <1>10, <1>12 DEF CarriedInv

(* A step that leaves the local tables alone keeps the invariant if what   *)
(* it puts under way or into a global table was carried before.            *)
LEMMA QuietStep ==
    ASSUME CarriedInv, TypeOK', PushesNotEmpty',
           UNCHANGED <<local, lastRowId, clock>>,
           \A t, p \in Server : \A x \in push'[t][p].batch : x \in Carried(t),
           \A r \in late' : \A x \in r.batch : x \in Carried(r.from),
           \A p \in Server : \A r \in global'[p] : AssocOf(r) \in Carried(r.origin)
    PROVE  CarriedInv'
<1>1. ASSUME NEW t \in Server, NEW x \in Carried(t)'
      PROVE  x \in Carried(t)
  <2>1. ASSUME NEW a \in Address, local'[t][a].id # 0, x = LocalAssoc(t, a)'
        PROVE  x \in Carried(t)
    BY <2>1, InCarried DEF LocalAssoc
  <2> QED
    BY <2>1, InCarriedNext
<1>2. OriginIsNewest'
  BY <1>1, NothingNew
<1> QED
  BY <1>2 DEF CarriedInv

(* The same facts before the step, to be used for what it leaves alone.    *)
LEMMA CarriedNow ==
    ASSUME TypeOK
    PROVE  /\ \A t, p \in Server : \A x \in push[t][p].batch : x \in Carried(t)
           /\ \A r \in late : \A x \in r.batch : x \in Carried(r.from)
           /\ \A p \in Server : \A r \in global[p] : AssocOf(r) \in Carried(r.origin)
<1>1. \A r \in late : r.from \in Server
  BY DEF TypeOK, Request
<1>2. \A p \in Server : \A r \in global[p] : r.origin \in Server
  BY DEF TypeOK, GlobalRow
<1> QED
  BY <1>1, <1>2, InCarried

(* Pushes of s come to an end.                                             *)
LEMMA DropPushes ==
    ASSUME CarriedInv, NEW s \in Server,
           \A t, p \in Server : push'[t][p] = Idle \/ push'[t][p] = push[t][p],
           push' \in [Server -> [Server -> PushState]],
           \A r \in late' : \/ r \in late
                           \/ /\ r \in Request /\ r.from = s
                              /\ \E p \in Server : r.batch = push[s][p].batch,
           UNCHANGED <<local, lastRowId, global, clock>>,
           lastSent' \in [Server -> [Server -> Nat]]
    PROVE  CarriedInv'
<1>1. TypeOK /\ PushesNotEmpty
  BY DEF CarriedInv
<1>3. TypeOK'
  BY <1>1 DEF TypeOK
<1>4. PushesNotEmpty'
  <2> SUFFICES ASSUME NEW t \in Server, NEW p \in Server
               PROVE  /\ push'[t][p].status = "idle" <=> push'[t][p].batch = {}
                      /\ push'[t][p].status # "idle" => p # t
    BY DEF PushesNotEmpty
  <2>1. CASE push'[t][p] = push[t][p]
    BY <1>1, <2>1 DEF PushesNotEmpty
  <2>2. CASE push'[t][p] = Idle
    BY <2>2, IdleFields
  <2> QED
    BY <2>1, <2>2
<1>5. \A t, p \in Server : \A x \in push'[t][p].batch : x \in Carried(t)
  BY <1>1, CarriedNow, IdleFields
<1>6. \A r \in late' : \A x \in r.batch : x \in Carried(r.from)
  BY <1>1, CarriedNow
<1>7. \A p \in Server : \A r \in global'[p] : AssocOf(r) \in Carried(r.origin)
  BY <1>1, CarriedNow
<1> QED
  BY <1>3, <1>4, <1>5, <1>6, <1>7, QuietStep

(* The associations of a batch of s, or some of them, are stored at p.     *)
LEMMA StoreStep ==
    ASSUME CarriedInv, NEW s \in Server, NEW p \in Server, NEW assocs,
           assocs \subseteq Carried(s),
           global' = [global EXCEPT ![p] = Store(@, s, assocs)]
    PROVE  /\ global' \in [Server -> SUBSET GlobalRow]
           /\ \A q \in Server : \A r \in global'[q] : AssocOf(r) \in Carried(r.origin)
<1>1. TypeOK /\ global \in [Server -> SUBSET GlobalRow]
  BY DEF CarriedInv, TypeOK
<1>2. assocs \in SUBSET Assoc
  BY <1>1, CarriedType
<1>3. Store(global[p], s, assocs) \in SUBSET GlobalRow
  BY <1>1, <1>2, StoreType
<1>4. \A r \in Store(global[p], s, assocs) : AssocOf(r) \in Carried(r.origin)
  BY <1>1, <1>2, StoreRows, RowOfAssoc, CarriedNow
<1>5. /\ global'[p] = Store(global[p], s, assocs)
      /\ \A q \in Server \ {p} : global'[q] = global[q]
  BY <1>1
<1> QED
  BY <1>1, <1>3, <1>4, <1>5, CarriedNow

LEMMA UnbindNothingStep ==
    ASSUME CarriedInv, NEW s \in Server, NEW a \in Address, NEW m \in Mxid,
           UnbindNothing(s, a, m)
    PROVE  CarriedInv'
<1>1. TypeOK /\ PushesNotEmpty
  BY DEF CarriedInv
<1>2. local[s] \in [Address -> LocalRow] /\ global \in [Server -> SUBSET GlobalRow]
  BY <1>1 DEF TypeOK
<1> DEFINE G == doLocalPush(global[s], s, local[s], lastRowId[s])
<1>3. /\ UNCHANGED <<local, lastRowId, lastSent, push, late, clock>>
      /\ global' = [global EXCEPT ![s] = G]
  BY DEF UnbindNothing
<1>4. G \in SUBSET GlobalRow
  BY <1>2, LocalPushRows
<1>5. ASSUME NEW r \in G PROVE AssocOf(r) \in Carried(r.origin)
  <2>1. CASE r \in global[s]
    BY <1>1, <2>1, CarriedNow
  <2>2. CASE r \notin global[s]
    <3>1. /\ r.origin = s /\ local[s][r.address].id # 0
          /\ AssocOf(r) = LocalAssoc(s, r.address)
      BY <1>2, <2>2, LocalPushRows DEF LocalAssoc
    <3>2. r.address \in Address
      BY <1>4 DEF GlobalRow
    <3> QED
      BY <3>1, <3>2, InCarried
  <2> QED
    BY <2>1, <2>2
<1> HIDE DEF G
<1>6. /\ global' \in [Server -> SUBSET GlobalRow]
      /\ global'[s] = G /\ \A q \in Server \ {s} : global'[q] = global[q]
  BY <1>2, <1>3, <1>4
<1>7. TypeOK' /\ PushesNotEmpty'
  BY <1>1, <1>3, <1>6 DEF TypeOK, PushesNotEmpty
<1>8. \A q \in Server : \A r \in global'[q] : AssocOf(r) \in Carried(r.origin)
  BY <1>1, <1>5, <1>6, CarriedNow
<1>9. /\ \A t, p \in Server : \A x \in push'[t][p].batch : x \in Carried(t)
      /\ \A r \in late' : \A x \in r.batch : x \in Carried(r.from)
  BY <1>1, <1>3, CarriedNow
<1> QED
  BY <1>3, <1>7, <1>8, <1>9, QuietStep

LEMMA ScheduledPushStep ==
    ASSUME CarriedInv, NEW s \in Server, ScheduledPush(s)
    PROVE  CarriedInv'
<1>1. TypeOK /\ PushesNotEmpty
  BY DEF CarriedInv
<1>2. UNCHANGED <<local, lastRowId, global, lastSent, late, clock>>
  BY DEF ScheduledPush
<1>3. ASSUME NEW p \in Server
      PROVE  /\ PendingFor(s, p) \in SUBSET Assoc
             /\ PendingFor(s, p) \subseteq Carried(s)
  <2>1. local[s] \in [Address -> LocalRow] /\ lastSent[s][p] \in Nat
    BY <1>1 DEF TypeOK
  <2>2. PendingFor(s, p) \subseteq getAssociationsAfterId(local[s], lastSent[s][p])
    BY DEF PendingFor, FirstById
  <2>3. ASSUME NEW x \in PendingFor(s, p)
        PROVE  x \in Assoc /\ x = LocalAssoc(s, x.address) /\ x.id # 0
    <3>1. /\ x \in Assoc /\ lastSent[s][p] < x.id
          /\ x.id = local[s][x.address].id
          /\ x.mxid = local[s][x.address].mxid
          /\ x.ts = local[s][x.address].ts
      BY <2>1, <2>2, AfterIdRows
    <3> QED
      BY <2>1, <3>1 DEF Assoc, LocalAssoc
  <2>4. \A x \in PendingFor(s, p) : x \in Carried(s)
    <3> SUFFICES ASSUME NEW x \in PendingFor(s, p) PROVE x \in Carried(s)
      OBVIOUS
    <3>1. x.address \in Address /\ local[s][x.address].id # 0
      BY <2>3 DEF Assoc, LocalAssoc
    <3> QED
      BY <2>3, <3>1, InCarried
  <2> QED
    BY <2>3, <2>4
<1>4. \A p \in Server : push'[s][p] = Idle \/ (/\ push'[s][p] = Sent(PendingFor(s, p))
                                              /\ PendingFor(s, p) # {} /\ p # s)
  BY <1>1 DEF ScheduledPush, TypeOK, Peers
<1>5. \A t \in Server \ {s} : push'[t] = push[t]
  BY <1>1 DEF ScheduledPush, TypeOK
<1>6. /\ Idle \in PushState
      /\ \A p \in Server : Sent(PendingFor(s, p)) \in
                PushState
      /\ \A p \in Server : /\ Sent(PendingFor(s, p)).status = "sent"
                           /\ Sent(PendingFor(s, p)).batch = PendingFor(s, p)
  BY <1>3 DEF Idle, Sent, PushState
<1>7. push' \in [Server -> [Server -> PushState]]
  BY <1>1, <1>6 DEF ScheduledPush, TypeOK
<1>8. TypeOK'
  BY <1>1, <1>2, <1>7 DEF TypeOK
<1>9. PushesNotEmpty'
  <2> SUFFICES ASSUME NEW t \in Server, NEW p \in Server
               PROVE  /\ push'[t][p].status = "idle" <=> push'[t][p].batch = {}
                      /\ push'[t][p].status # "idle" => p # t
    BY DEF PushesNotEmpty
  <2>1. CASE t # s
    BY <1>1, <1>5, <2>1 DEF PushesNotEmpty
  <2>2. CASE t = s /\ push'[s][p] = Idle
    BY <2>2, IdleFields
  <2>3. CASE t = s /\ push'[s][p] # Idle
    BY <1>4, <1>6, <2>3
  <2> QED
    BY <2>1, <2>2, <2>3
<1>10. \A t, p \in Server : \A x \in push'[t][p].batch : x \in Carried(t)
  <2> SUFFICES ASSUME NEW t \in Server, NEW p \in Server, NEW x \in push'[t][p].batch
               PROVE  x \in Carried(t)
    OBVIOUS
  <2>1. CASE t # s
    BY <1>1, <1>5, <2>1, CarriedNow
  <2>2. CASE t = s
    BY <1>3, <1>4, <1>6, <2>2, IdleFields
  <2> QED
    BY <2>1, <2>2
<1>11. /\ \A r \in late' : \A x \in r.batch : x \in Carried(r.from)
       /\ \A p \in Server : \A r \in global'[p] : AssocOf(r) \in Carried(r.origin)
  BY <1>1, <1>2, CarriedNow
<1> QED
  BY <1>2, <1>8, <1>9, <1>10, <1>11, QuietStep

LEMMA ReceiveStep ==
    ASSUME CarriedInv, NEW s \in Server, NEW p \in Server, NEW failed,
           Receive(s, p, failed)
    PROVE  CarriedInv'
<1>1. TypeOK /\ PushesNotEmpty
  BY DEF CarriedInv
<1> DEFINE stored == Committed(push[s][p].batch, failed)
<1>2. /\ push[s][p].status = "sent"
      /\ global' = [global EXCEPT ![p] = Store(@, s, stored)]
      /\ push' = [push EXCEPT ![s][p].status = IF failed = 0 THEN "stored" ELSE "refused"]
      /\ UNCHANGED <<local, lastRowId, lastSent, late, clock>>
  BY DEF Receive
<1>3. stored \subseteq Carried(s)
  BY <1>1, CommittedSubset, CarriedNow
<1> HIDE DEF stored
<1>4. /\ global' \in [Server -> SUBSET GlobalRow]
      /\ \A q \in Server : \A r \in global'[q] : AssocOf(r) \in Carried(r.origin)
  BY <1>2, <1>3, StoreStep
<1> DEFINE outcome == IF failed = 0 THEN "stored" ELSE "refused"
<1>5. /\ push' \in [Server -> [Server -> PushState]]
      /\ push'[s][p].batch = push[s][p].batch
      /\ push'[s][p].status \in {"stored", "refused"}
      /\ \A t, q \in Server : push'[t][q] = push[t][q] \/ (t = s /\ q = p)
  <2>1. push[s][p] \in PushState /\ push \in [Server -> [Server -> PushState]]
    BY <1>1 DEF TypeOK
  <2>2. push'[s][p] = [push[s][p] EXCEPT !.status = outcome]
    BY <1>2, <2>1
  <2>3. /\ [push[s][p] EXCEPT !.status = outcome] \in PushState
        /\ [push[s][p] EXCEPT !.status = outcome].batch = push[s][p].batch
        /\ [push[s][p] EXCEPT !.status = outcome].status \in {"stored", "refused"}
    BY <2>1 DEF PushState
  <2>4. push' = [push EXCEPT ![s] = [push[s] EXCEPT ![p] =
                                        [push[s][p] EXCEPT !.status = outcome]]]
    BY <1>2
  <2> HIDE DEF outcome
  <2>5. push' \in [Server -> [Server -> PushState]]
    BY <2>1, <2>3, <2>4
  <2>6. \A t, q \in Server : push'[t][q] = push[t][q] \/ (t = s /\ q = p)
    BY <2>1, <2>4
  <2> QED
    BY <2>2, <2>3, <2>5, <2>6
<1>6. TypeOK'
  BY <1>1, <1>2, <1>4, <1>5 DEF TypeOK
<1>7. PushesNotEmpty'
  <2> SUFFICES ASSUME NEW t \in Server, NEW q \in Server
               PROVE  /\ push'[t][q].status = "idle" <=> push'[t][q].batch = {}
                      /\ push'[t][q].status # "idle" => q # t
    BY DEF PushesNotEmpty
  <2>1. CASE push'[t][q] = push[t][q]
    BY <1>1, <2>1 DEF PushesNotEmpty
  <2>2. CASE t = s /\ q = p
    BY <1>1, <1>2, <1>5, <2>2 DEF PushesNotEmpty
  <2> QED
    BY <1>5, <2>1, <2>2
<1>8. /\ \A t, q \in Server : \A x \in push'[t][q].batch : x \in Carried(t)
      /\ \A r \in late' : \A x \in r.batch : x \in Carried(r.from)
  BY <1>1, <1>2, <1>5, CarriedNow
<1> QED
  BY <1>2, <1>4, <1>6, <1>7, <1>8, QuietStep

LEMMA ReceiveLateStep ==
    ASSUME CarriedInv, NEW r \in late, NEW failed, ReceiveLate(r, failed)
    PROVE  CarriedInv'
<1>1. TypeOK /\ PushesNotEmpty /\ r.from \in Server /\ r.to \in Server
  BY DEF CarriedInv, TypeOK, Request
<1> DEFINE stored == Committed(r.batch, failed)
<1>2. /\ global' = [global EXCEPT ![r.to] = Store(@, r.from, stored)]
      /\ late' = late \ {r}
      /\ UNCHANGED <<local, lastRowId, lastSent, push, clock>>
  BY DEF ReceiveLate
<1>3. stored \subseteq Carried(r.from)
  BY <1>1, CommittedSubset, CarriedNow
<1> HIDE DEF stored
<1>4. /\ global' \in [Server -> SUBSET GlobalRow]
      /\ \A q \in Server : \A g \in global'[q] : AssocOf(g) \in Carried(g.origin)
  BY <1>1, <1>2, <1>3, StoreStep
<1>5. TypeOK' /\ PushesNotEmpty'
  BY <1>1, <1>2, <1>4 DEF TypeOK, PushesNotEmpty
<1>6. /\ \A t, q \in Server : \A x \in push'[t][q].batch : x \in Carried(t)
      /\ \A g \in late' : \A x \in g.batch : x \in Carried(g.from)
  BY <1>1, <1>2, CarriedNow
<1> QED
  BY <1>2, <1>4, <1>5, <1>6, QuietStep

LEMMA RestartStep ==
    ASSUME CarriedInv, NEW s \in Server, Restart(s)
    PROVE  CarriedInv'
<1>1. TypeOK
  BY DEF CarriedInv
<1>2. /\ push' = [push EXCEPT ![s] = [p \in Server |-> Idle]]
      /\ late' = late \cup Unprocessed(s, Server)
      /\ UNCHANGED <<local, lastRowId, global, lastSent, clock>>
  BY DEF Restart, AbandonPushes
<1>3. /\ \A t, p \in Server : push'[t][p] = Idle \/ push'[t][p] = push[t][p]
      /\ push' \in [Server -> [Server -> PushState]]
      /\ lastSent' \in [Server -> [Server -> Nat]]
  BY <1>1, <1>2, IdleFields DEF TypeOK
<1>4. \A r \in late' : \/ r \in late
                      \/ /\ r \in Request /\ r.from = s
                         /\ \E p \in Server : r.batch = push[s][p].batch
  BY <1>1, <1>2, UnprocessedRequests
<1> QED
  BY <1>2, <1>3, <1>4, DropPushes

LEMMA PushEndsStep ==
    ASSUME CarriedInv, NEW s \in Server, NEW p \in Server,
           PushSucceeded(s, p) \/ PushRefused(s, p) \/ PushError(s, p)
    PROVE  CarriedInv'
<1>1. TypeOK /\ PushesNotEmpty /\ OriginIsNewest
  BY DEF CarriedInv
<1>2. /\ push' = [push EXCEPT ![s][p] = Idle]
      /\ late' = late \/ late' = late \cup Unprocessed(s, {p})
      /\ UNCHANGED <<local, lastRowId, global, clock>>
  BY DEF PushSucceeded, PushRefused, PushError
<1>3. /\ \A t, q \in Server : push'[t][q] = Idle \/ push'[t][q] = push[t][q]
      /\ push' \in [Server -> [Server -> PushState]]
  BY <1>1, <1>2, IdleFields DEF TypeOK
<1>4. lastSent' \in [Server -> [Server -> Nat]]
  <2>1. CASE PushSucceeded(s, p)
    <3>1. Max(Ids(push[s][p].batch)) \in Nat
      <4>1. push[s][p].status = "stored"
        BY <2>1 DEF PushSucceeded
      <4>2. Ids(push[s][p].batch) # {}
        BY <1>1, <4>1 DEF PushesNotEmpty, Ids
      <4>3. lastRowId[s] \in Nat /\ \A x \in push[s][p].batch : x \in Carried(s) /\ x \in Assoc
        BY <1>1, CarriedNow, CarriedType DEF TypeOK
      <4>4. /\ Ids(push[s][p].batch) \in SUBSET Nat
            /\ \A i \in Ids(push[s][p].batch) : i <= lastRowId[s]
        BY <1>1, <4>3 DEF OriginIsNewest, Ids, Assoc
      <4> QED
        BY <4>2, <4>3, <4>4, MaxOfBounded
    <3>2. lastSent' = [lastSent EXCEPT ![s][p] = Max(Ids(push[s][p].batch))]
      BY <2>1 DEF PushSucceeded
    <3> QED
      BY <1>1, <3>1, <3>2 DEF TypeOK
  <2>2. CASE PushRefused(s, p) \/ PushError(s, p)
    BY <1>1, <2>2 DEF PushRefused, PushError, TypeOK
  <2> QED
    BY <2>1, <2>2
<1>5. \A r \in late' : \/ r \in late
                      \/ /\ r \in Request /\ r.from = s
                         /\ \E q \in Server : r.batch = push[s][q].batch
  <2>1. {p} \in SUBSET Server
    OBVIOUS
  <2>2. /\ Unprocessed(s, {p}) \subseteq Request
        /\ \A r \in Unprocessed(s, {p}) :
              r.from = s /\ \E q \in Server : r.batch = push[s][q].batch
    BY <1>1, <2>1, UnprocessedRequests
  <2> QED
    BY <1>2, <2>2
<1> QED
  BY <1>2, <1>3, <1>4, <1>5, DropPushes

(* addBinding and removeBinding write a row of the same form.              *)
LEMMA UnboundTableIsWritten ==
    ASSUME NEW s \in Server, NEW a \in Address
    PROVE  UnboundTable(s, a) =
              addOrUpdateAssociation(local[s], a, NoMxid, lastRowId[s] + 1, clock + 1)
BY DEF UnboundTable, removeLocalAssociation, addOrUpdateAssociation

LEMMA BindStep ==
    ASSUME CarriedInv, NEW s \in Server, NEW a \in Address, NEW m \in Mxid, NEW upTo,
           \/ Bind(s, a, m) \/ BindCrash(s, a, m, upTo)
           \/ Unbind(s, a, m) \/ UnbindCrash(s, a, m, upTo)
    PROVE  CarriedInv'
<1> DEFINE bound == addOrUpdateAssociation(local[s], a, m, lastRowId[s] + 1, clock + 1)
           unbound == addOrUpdateAssociation(local[s], a, NoMxid, lastRowId[s] + 1, clock + 1)
<1>1. BoundTable(s, a, m) = bound /\ UnboundTable(s, a) = unbound
  BY UnboundTableIsWritten DEF BoundTable
<1> HIDE DEF bound, unbound
<1>2. CASE Bind(s, a, m)
  <2>1. /\ s \in BindsAt[a] /\ WriteLocal(s, bound)
        /\ global' = [global EXCEPT ![s] = doLocalPush(@, s, bound, lastRowId[s] + 1)]
        /\ UNCHANGED <<push, late>> /\ UNCHANGED lastSent
    BY <1>1, <1>2 DEF Bind
  <2> QED
    BY <2>1, WriteStep DEF bound
<1>3. CASE BindCrash(s, a, m, upTo)
  <2>1. /\ s \in BindsAt[a] /\ WriteLocal(s, bound)
        /\ global' = [global EXCEPT ![s] = doLocalPush(@, s, bound, upTo)]
        /\ AbandonPushes(s) /\ UNCHANGED lastSent
    BY <1>1, <1>3 DEF BindCrash, CrashWithin
  <2> QED
    BY <2>1, WriteStep DEF bound
<1>4. CASE Unbind(s, a, m)
  <2>1. /\ s \in BindsAt[a] /\ WriteLocal(s, unbound)
        /\ global' = [global EXCEPT ![s] = doLocalPush(@, s, unbound, lastRowId[s] + 1)]
        /\ UNCHANGED <<push, late>> /\ UNCHANGED lastSent
    BY <1>1, <1>4 DEF Unbind
  <2> QED
    BY <2>1, WriteStep DEF unbound
<1>5. CASE UnbindCrash(s, a, m, upTo)
  <2>1. /\ s \in BindsAt[a] /\ WriteLocal(s, unbound)
        /\ global' = [global EXCEPT ![s] = doLocalPush(@, s, unbound, upTo)]
        /\ AbandonPushes(s) /\ UNCHANGED lastSent
    BY <1>1, <1>5 DEF UnbindCrash, CrashWithin
  <2> QED
    BY <2>1, WriteStep DEF unbound
<1> QED
  BY <1>2, <1>3, <1>4, <1>5

LEMMA InitCarried == Init => CarriedInv
<1> SUFFICES ASSUME Init PROVE CarriedInv
  OBVIOUS
<1>1. TypeOK
  BY IdleFields DEF Init, TypeOK, EmptyLocalTable, NoRow, LocalRow
<1>2. PushesNotEmpty
  BY IdleFields DEF Init, PushesNotEmpty
<1>3. ASSUME NEW s \in Server PROVE Carried(s) = {}
  <2>1. \A a \in Address : local[s][a].id = 0
    BY DEF Init, EmptyLocalTable, NoRow
  <2>2. \A p \in Server : push[s][p].batch = {} /\ global[p] = {}
    BY IdleFields DEF Init
  <2>3. late = {}
    BY DEF Init
  <2> QED
    BY <2>1, <2>2, <2>3, InCarried
<1>4. OriginIsNewest
  BY <1>3 DEF OriginIsNewest
<1> QED
  BY <1>1, <1>2, <1>4 DEF CarriedInv

LEMMA NextCarried == CarriedInv /\ [Next]_vars => CarriedInv'
<1> SUFFICES ASSUME CarriedInv, [Next]_vars PROVE CarriedInv'
  OBVIOUS
<1>1. ASSUME NEW s \in Server, NEW a \in Address, NEW m \in Mxid,
             \/ Bind(s, a, m) \/ Unbind(s, a, m) \/ UnbindNothing(s, a, m)
             \/ \E upTo \in 0..MaxRowId : \/ BindCrash(s, a, m, upTo)
                                          \/ UnbindCrash(s, a, m, upTo)
      PROVE  CarriedInv'
  BY <1>1, BindStep, UnbindNothingStep
<1>2. ASSUME NEW s \in Server, Restart(s) \/ ScheduledPush(s)
      PROVE  CarriedInv'
  BY <1>2, RestartStep, ScheduledPushStep
<1>3. ASSUME NEW s \in Server, NEW p \in Server,
             \/ \E failed \in 0..MaxRowId : Receive(s, p, failed)
             \/ PushSucceeded(s, p) \/ PushRefused(s, p) \/ PushError(s, p)
      PROVE  CarriedInv'
  BY <1>3, ReceiveStep, PushEndsStep
<1>4. ASSUME NEW r \in late, NEW failed \in 0..MaxRowId, ReceiveLate(r, failed)
      PROVE  CarriedInv'
  BY <1>4, ReceiveLateStep
<1>5. CASE UNCHANGED vars
  <2>1. UNCHANGED <<local, lastRowId, global, lastSent, push, late, clock>>
    BY <1>5 DEF vars
  <2>2. \A t \in Server : Carried(t)' = Carried(t)
    BY <2>1 DEF Carried, LocalAssoc
  <2> QED
    BY <2>1, <2>2 DEF CarriedInv, TypeOK, PushesNotEmpty, OriginIsNewest
<1> QED
  BY <1>1, <1>2, <1>3, <1>4, <1>5 DEF Next

(* The invariant of the system whatever the homes and the late requests.   *)
THEOREM CarriedInvariant == Spec => []CarriedInv
BY InitCarried, NextCarried, PTL DEF Spec

(* The tables and the requests under way always have the shape of their    *)
(* schemas; in particular lastSentVersion is always an id.                 *)
THEOREM TypeCorrect == Spec => []TypeOK
<1>1. CarriedInv => TypeOK
  BY DEF CarriedInv
<1> QED
  BY <1>1, CarriedInvariant, PTL

(* The key under which addAssociation ignores duplicates names the same    *)
(* association at every Sydent, with late requests, lost responses and     *)
(* crashes, and wherever addresses are bound.                              *)
THEOREM KeysAreUnique == Spec => []SameKeySameRow
<1>1. ASSUME CarriedInv PROVE SameKeySameRow
  <2>1. TypeOK /\ OriginIsNewest
    BY <1>1 DEF CarriedInv
  <2> SUFFICES ASSUME NEW p \in Server, NEW q \in Server,
                      NEW r \in global[p], NEW t \in global[q],
                      r.origin = t.origin, r.originId = t.originId
               PROVE  r = t
    BY DEF SameKeySameRow
  <2>2. r \in GlobalRow /\ t \in GlobalRow
    BY <2>1 DEF TypeOK
  <2>3. r.origin \in Server
    BY <2>2 DEF GlobalRow
  <2>4. AssocOf(r) \in Carried(r.origin) /\ AssocOf(t) \in Carried(r.origin)
    BY <2>1, CarriedNow
  <2>5. AssocOf(r).id = AssocOf(t).id
    BY DEF AssocOf
  <2>6. AssocOf(r) = AssocOf(t)
    BY <2>1, <2>3, <2>4, <2>5 DEF OriginIsNewest
  <2>7. r.address = t.address /\ r.mxid = t.mxid /\ r.ts = t.ts
    BY <2>6 DEF AssocOf
  <2> QED
    BY <2>2, <2>7 DEF GlobalRow
<1> QED
  BY <1>1, CarriedInvariant, PTL

=============================================================================
