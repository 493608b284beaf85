------------------------ MODULE ReplicationInvariants ------------------------
(***************************************************************************)
(* The inductive invariants of Replication, from which ReplicationProofs   *)
(* and AcknowledgedProofs derive their theorems.                           *)
(***************************************************************************)
EXTENDS Replication

(* The association a global row was made from.                             *)
AssocOf(r) ==
    [id |-> r.originId, address |-> r.address, mxid |-> r.mxid, ts |-> r.ts]

LocalAssoc(s, a) ==
    [id |-> local[s][a].id, address |-> a,
     mxid |-> local[s][a].mxid, ts |-> local[s][a].ts]

(* Every association of s that is anywhere in the system: in its local     *)
(* table, in a request under way, or in a global table.                    *)
Carried(s) ==
    {LocalAssoc(s, a) : a \in {b \in Address : local[s][b].id # 0}}
    \cup (UNION {push[s][p].batch : p \in Server})
    \cup (UNION {r.batch : r \in {q \in late : q.from = s}})
    \cup {AssocOf(r) : r \in {q \in UNION {global[p] : p \in Server} : q.origin = s}}

(* Local ids are issued once, in the order of time, by the AUTOINCREMENT   *)
(* column, and the local table holds the newest association of each        *)
(* address: whatever else is under way or stored anywhere is an older one. *)
OriginIsNewest ==
    \A s \in Server :
        /\ \A x \in Carried(s) :
              /\ 0 < x.id /\ x.id <= lastRowId[s] /\ x.ts <= clock
              /\ s \in BindsAt[x.address]
              /\ x.id <= local[s][x.address].id
        /\ \A x, y \in Carried(s) :
              /\ x.id = y.id => x = y
              /\ x.id < y.id => x.ts < y.ts

(* A push under way has something to say.                                  *)
PushesNotEmpty ==
    \A s, p \in Server :
        /\ push[s][p].status = "idle" <=> push[s][p].batch = {}
        /\ push[s][p].status # "idle" => p # s

(* A global table reflects association x of s.                             *)
Reflects(tbl, s, x) ==
    IF x.mxid = NoMxid
    THEN \A r \in tbl : r.address # x.address
    ELSE RowOf(s, x) \in tbl

(* Local rows that lastSentVersion covers are reflected by the peer.       *)
AckedReflected(s, p) ==
    /\ lastSent[s][p] <= lastRowId[s]
    /\ \A a \in Address :
          (local[s][a].id # 0 /\ local[s][a].id <= lastSent[s][p])
            => Reflects(global[p], s, LocalAssoc(s, a))

(* A batch starts after lastSentVersion, has one association per address   *)
(* and no holes up to its last id, except for rows replaced since; once it *)
(* is stored the peer reflects those that have not been replaced.          *)
BatchHasNoHoles(s, p) ==
    LET batch == push[s][p].batch
    IN  /\ \A x \in batch : lastSent[s][p] < x.id
        /\ \A x, y \in batch : x.address = y.address => x = y
        /\ \A a \in Address, y \in batch :
              (lastSent[s][p] < local[s][a].id /\ local[s][a].id <= y.id)
                => LocalAssoc(s, a) \in batch
        /\ push[s][p].status = "stored" =>
              \A x \in batch :
                 x = LocalAssoc(s, x.address) => Reflects(global[p], s, x)

PairInv(s, p) == AckedReflected(s, p) /\ BatchHasNoHoles(s, p)

(* Inductive whatever the homes and the late requests.                     *)
CarriedInv == TypeOK /\ PushesNotEmpty /\ OriginIsNewest

(* Inductive if every address has a single home and no request is late.    *)
AckInv ==
    /\ CarriedInv
    /\ late = {}
    /\ \A s \in Server : \A p \in Peers(s) : PairInv(s, p)

(* The local push goes by the newest of its own rows in the global table:  *)
(* what the local table has up to that one is reflected already, so that a *)
(* crash leaves nothing behind that a later push would skip.               *)
OwnPushed(s) ==
    /\ \A a \in Address : local[s][a].id = 0 => local[s][a].mxid = NoMxid
    /\ \A r \in global[s], a \in Address :
          (r.origin = s /\ local[s][a].id # 0 /\ local[s][a].id <= r.originId)
            => Reflects(global[s], s, LocalAssoc(s, a))

(* Inductive if every address has a single home, whatever requests are     *)
(* late.                                                                   *)
LocalInv ==
    /\ CarriedInv
    /\ \A r \in late : r.from # r.to
    /\ \A s \in Server : OwnPushed(s)
=============================================================================
