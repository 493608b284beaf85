---------------------------- MODULE Replication -----------------------------
(***************************************************************************)
(* Sydents that bind third-party identifiers and replicate the bindings to *)
(* each other: ThreepidBinder (threepid/bind.py), Pusher, LocalPeer and    *)
(* RemotePeer (replication/), PeerStore (db/peers.py) and the receiving    *)
(* ReplicationPushServlet.                                                 *)
(*                                                                         *)
(* Each Sydent is one Twisted process over one SQLite connection, so the   *)
(* code between two awaits is one step.  The only await is that of the     *)
(* POST to a peer: between ScheduledPush and the response anything may     *)
(* happen.                                                                 *)
(* The invite half of addBinding is the subject of module Invites.         *)
(***************************************************************************)
EXTENDS Associations

CONSTANTS BindsAt,       \* the Sydents where an address is bound or unbound
          Limit,         \* ASSOCIATIONS_PUSH_LIMIT
          LateLinks,     \* the <<sender, peer>> pairs between which a request
                         \* may be processed after its sender gave up on it
          MaxRowId       \* bound: associations written per Sydent

ASSUME ReplicationAssumption ==
    /\ BindsAt \in [Address -> SUBSET Server]
    /\ Limit \in Nat \ {0}
    /\ LateLinks \subseteq Server \X Server
    /\ MaxRowId \in Nat

VARIABLES
    local,      \* local_threepid_associations of each Sydent
    lastRowId,  \* its AUTOINCREMENT counter
    global,     \* global_threepid_associations of each Sydent
    lastSent,   \* peers.lastSentVersion; 0 stands for NULL
    push,       \* the POST a Sydent awaits, per peer
    late,       \* requests given up on that are still under way
    clock       \* time_msec(), the same for all; each write takes a new one

vars == <<local, lastRowId, global, lastSent, push, late, clock>>

Peers(s) == Server \ {s}

Idle == [status |-> "idle", batch |-> {}]

Sent(batch) == [status |-> "sent", batch |-> batch]

(* What a Sydent knows, or the receiver decided, of a push.                *)
PushState == [status : {"idle", "sent", "stored", "refused"},
              batch  : SUBSET Assoc]

Request == [from : Server, to : Server, batch : SUBSET Assoc]

(* The tables and the requests under way have the shape of their schemas.  *)
TypeOK ==
    /\ local \in [Server -> [Address -> LocalRow]]
    /\ lastRowId \in [Server -> Nat]
    /\ global \in [Server -> SUBSET GlobalRow]
    /\ lastSent \in [Server -> [Server -> Nat]]
    /\ push \in [Server -> [Server -> PushState]]
    /\ late \subseteq Request
    /\ clock \in Nat

Init ==
    /\ local = [s \in Server |-> EmptyLocalTable]
    /\ lastRowId = [s \in Server |-> 0]
    /\ global = [s \in Server |-> {}]
    /\ lastSent = [s \in Server |-> [p \in Server |-> 0]]
    /\ push = [s \in Server |-> [p \in Server |-> Idle]]
    /\ late = {}
    /\ clock = 0

-----------------------------------------------------------------------------
(* A Sydent that gives up on a request (an exception from the HTTP client, *)
(* or a restart) no longer learns what becomes of it.                      *)
Unprocessed(s, ps) ==
    {[from |-> s, to |-> p, batch |-> push[s][p].batch] :
        p \in {q \in ps : push[s][q].status = "sent" /\ <<s, q>> \in LateLinks}}

AbandonPushes(s) ==
    /\ push' = [push EXCEPT ![s] = [p \in Server |-> Idle]]
    /\ late' = late \cup Unprocessed(s, Server)

(* One row is written to the local table of s, under the next id.          *)
WriteLocal(s, tbl) ==
    /\ lastRowId[s] < MaxRowId
    /\ local' = [local EXCEPT ![s] = tbl]
    /\ lastRowId' = [lastRowId EXCEPT ![s] = @ + 1]
    /\ clock' = clock + 1

(* A mutant of BoundTable: the id column is not AUTOINCREMENT, so that an  *)
(* id is issued again once its row is replaced.                            *)
BoundTableReusingIds(s, a, m) ==
    addOrUpdateAssociation(local[s], a, m,
        1 + Max({0} \cup {local[s][b].id : b \in Address \ {a}}), clock + 1)

BoundTable(s, a, m) ==
    addOrUpdateAssociation(local[s], a, m, lastRowId[s] + 1, clock + 1)

UnboundTable(s, a) ==
    removeLocalAssociation(local[s], a, lastRowId[s] + 1, clock + 1)

(* ThreepidBinder.addBinding                                               *)
Bind(s, a, m) ==
    /\ s \in BindsAt[a]
    /\ WriteLocal(s, BoundTable(s, a, m))
    /\ global' = [global EXCEPT ![s] =
                    doLocalPush(@, s, BoundTable(s, a, m), lastRowId[s] + 1)]
    /\ UNCHANGED <<lastSent, push, late>>

(* ThreepidBinder.removeBinding of a binding the local table has           *)
Unbind(s, a, m) ==
    /\ s \in BindsAt[a]
    /\ HasBinding(local[s], a, m)
    /\ WriteLocal(s, UnboundTable(s, a))
    /\ global' = [global EXCEPT ![s] =
                    doLocalPush(@, s, UnboundTable(s, a), lastRowId[s] + 1)]
    /\ UNCHANGED <<lastSent, push, late>>

(* ThreepidBinder.removeBinding of a binding that the local table has not: *)
(* nothing is written, but the local push is made all the same.            *)
UnbindNothing(s, a, m) ==
    /\ s \in BindsAt[a]
    /\ ~ HasBinding(local[s], a, m)
    /\ global' = [global EXCEPT ![s] = doLocalPush(@, s, local[s], lastRowId[s])]
    /\ UNCHANGED <<local, lastRowId, lastSent, push, late, clock>>

(* The process dies in addBinding or removeBinding, after the local table  *)
(* was committed and before the association of id upTo + 1 was stored in   *)
(* the global one, and is started again.                                   *)
CrashWithin(s, tbl, upTo) ==
    /\ upTo <= lastRowId[s]
    /\ WriteLocal(s, tbl)
    /\ global' = [global EXCEPT ![s] = doLocalPush(@, s, tbl, upTo)]
    /\ AbandonPushes(s)
    /\ UNCHANGED lastSent

BindCrash(s, a, m, upTo) ==
    /\ s \in BindsAt[a]
    /\ CrashWithin(s, BoundTable(s, a, m), upTo)

UnbindCrash(s, a, m, upTo) ==
    /\ s \in BindsAt[a]
    /\ HasBinding(local[s], a, m)
    /\ CrashWithin(s, UnboundTable(s, a), upTo)

(* The process is stopped between two handlers and started again.          *)
Restart(s) ==
    /\ \E p \in Server : push[s][p] # Idle
    /\ AbandonPushes(s)
    /\ UNCHANGED <<local, lastRowId, global, lastSent, clock>>

-----------------------------------------------------------------------------
(* What _push_to_peer finds to send to p                                   *)
PendingFor(s, p) ==
    FirstById(getAssociationsAfterId(local[s], lastSent[s][p]), Limit)

(* Pusher.scheduledPush.  The LoopingCall waits for every push of its last *)
(* round; a peer to which there is nothing to send is done at once.        *)
ScheduledPush(s) ==
    /\ \A p \in Server : push[s][p] = Idle
    /\ \E p \in Peers(s) : PendingFor(s, p) # {}
    /\ push' = [push EXCEPT ![s] =
                    [p \in Server |-> IF p \in Peers(s) /\ PendingFor(s, p) # {}
                                      THEN Sent(PendingFor(s, p))
                                      ELSE Idle]]
    /\ UNCHANGED <<local, lastRowId, global, lastSent, late, clock>>

(* ReplicationPushServlet.render_POST at p, of the request s waits for.    *)
(* failed is the id of the first association that is not verified or not   *)
(* stored, or 0; a request turned down as a whole fails at its first id.   *)
Receive(s, p, failed) ==
    LET batch == push[s][p].batch
    IN  /\ push[s][p].status = "sent"
        /\ failed \in {0} \cup Ids(batch)
        /\ global' = [global EXCEPT ![p] = Store(@, s, Committed(batch, failed))]
        /\ push' = [push EXCEPT ![s][p].status =
                        IF failed = 0 THEN "stored" ELSE "refused"]
        /\ UNCHANGED <<local, lastRowId, lastSent, late, clock>>

(* The same handler, of a request whose sender no longer waits for it.     *)
ReceiveLate(r, failed) ==
    /\ failed \in {0} \cup Ids(r.batch)
    /\ global' = [global EXCEPT ![r.to] = Store(@, r.from, Committed(r.batch, failed))]
    /\ late' = late \ {r}
    /\ UNCHANGED <<local, lastRowId, lastSent, push, clock>>

(* A mutant of PushSucceeded: lastSentVersion moves to the newest local id.*)
PushSucceededToNewest(s, p) ==
    /\ push[s][p].status = "stored"
    /\ lastSent' = [lastSent EXCEPT ![s][p] = lastRowId[s]]
    /\ push' = [push EXCEPT ![s][p] = Idle]
    /\ UNCHANGED <<local, lastRowId, global, late, clock>>

(* A 2xx response arrives at _push_to_peer: lastSentVersion moves to the   *)
(* highest id of the batch.                                                *)
PushSucceeded(s, p) ==
    /\ push[s][p].status = "stored"
    /\ lastSent' = [lastSent EXCEPT ![s][p] = Max(Ids(push[s][p].batch))]
    /\ push' = [push EXCEPT ![s][p] = Idle]
    /\ UNCHANGED <<local, lastRowId, global, late, clock>>

(* A mutant of PushRefused: the status of the response is not looked at.   *)
PushRefusedUnnoticed(s, p) ==
    /\ push[s][p].status = "refused"
    /\ lastSent' = [lastSent EXCEPT ![s][p] = Max(Ids(push[s][p].batch))]
    /\ push' = [push EXCEPT ![s][p] = Idle]
    /\ UNCHANGED <<local, lastRowId, global, late, clock>>

(* Any other response arrives: lastSentVersion stays for the next round.   *)
PushRefused(s, p) ==
    /\ push[s][p].status = "refused"
    /\ push' = [push EXCEPT ![s][p] = Idle]
    /\ UNCHANGED <<local, lastRowId, global, lastSent, late, clock>>

(* An exception arrives at _push_to_peer instead of the response.          *)
PushError(s, p) ==
    /\ push[s][p] # Idle
    /\ push' = [push EXCEPT ![s][p] = Idle]
    /\ late' = late \cup Unprocessed(s, {p})
    /\ UNCHANGED <<local, lastRowId, global, lastSent, clock>>

Next ==
    \/ \E s \in Server, a \in Address, m \in Mxid :
          \/ Bind(s, a, m)
          \/ Unbind(s, a, m)
          \/ UnbindNothing(s, a, m)
          \/ \E upTo \in 0..MaxRowId : \/ BindCrash(s, a, m, upTo)
                                       \/ UnbindCrash(s, a, m, upTo)
    \/ \E s \in Server : Restart(s) \/ ScheduledPush(s)
    \/ \E s \in Server, p \in Server :
          \/ \E failed \in 0..MaxRowId : Receive(s, p, failed)
          \/ PushSucceeded(s, p)
          \/ PushRefused(s, p)
          \/ PushError(s, p)
    \/ \E r \in late, failed \in 0..MaxRowId : ReceiveLate(r, failed)

Spec == Init /\ [][Next]_vars

(* The LoopingCall comes round again and again.  Requests and responses    *)
(* may be lost and processes restarted time and again, but not for ever:   *)
(* a push that is tried infinitely often is in the end processed without a *)
(* failure, and answered.  No request has a timeout, so that a peer that   *)
(* never answers a refusal would end all replication (WF of PushRefused).  *)
Fairness ==
    /\ \A s \in Server : WF_vars(ScheduledPush(s))
    /\ \A s, p \in Server : /\ SF_vars(Receive(s, p, 0))
                            /\ SF_vars(PushSucceeded(s, p))
                            /\ WF_vars(PushRefused(s, p))

FairSpec == Spec /\ Fairness

-----------------------------------------------------------------------------
(* Properties *)

(* An address is bound and unbound at one Sydent only, its home.           *)
SingleHome == \A a \in Address : \A s, t \in BindsAt[a] : s = t

(* What _push_to_peer relies on when it moves lastSentVersion: once a      *)
(* local row is covered by lastSentVersion the peer answers lookups of its *)
(* address with it, or with nothing if the row is a tombstone, through all *)
(* refused batches, lost responses, retries and restarts.                  *)
Acknowledged ==
    \A s \in Server : \A p \in Peers(s), a \in Address :
        (local[s][a].id # 0 /\ local[s][a].id <= lastSent[s][p])
            => getMxid(global[p], a) = local[s][a].mxid

(* The unique key (originServer, originId) under which addAssociation      *)
(* ignores duplicates names one association for good: no two Sydents ever  *)
(* hold different rows under it, whatever is retried, late or refused.     *)
SameKeySameRow ==
    \A p, q \in Server : \A r \in global[p], t \in global[q] :
        (r.origin = t.origin /\ r.originId = t.originId) => r = t

(* doLocalPush: "so clients know it will be available on at least the same *)
(* ID server they used".  When addBinding returns, a lookup at that Sydent *)
(* gives the new mxid, even after a crash left older rows to be pushed and *)
(* whatever other Sydents replicated; when removeBinding returns, nothing. *)
BindingVisibleAtOnce ==
    [][\A s \in Server, a \in Address, m \in Mxid :
          /\ Bind(s, a, m) => getMxid(global'[s], a) = m
          /\ Unbind(s, a, m) => getMxid(global'[s], a) = NoMxid]_vars

(* A Sydent that was interrupted inside addBinding or removeBinding brings *)
(* its global table up to date with the next bind or unbind: for every     *)
(* address of which it is the home, not only the one just bound.           *)
LocalPushCatchesUp ==
    [][\A s \in Server, a \in Address, m \in Mxid :
          (Bind(s, a, m) \/ Unbind(s, a, m) \/ UnbindNothing(s, a, m))
            => \A b \in Address :
                 s \in BindsAt[b] => getMxid(global'[s], b) = local'[s][b].mxid]_vars

(* Replication delivers: once no Sydent binds or unbinds any more, every   *)
(* peer comes to answer lookups as the local table of the address's home.  *)
PeersConverge ==
    \A s \in Server : \A p \in Peers(s), a \in Address :
        <>[](s \in BindsAt[a] => getMxid(global[p], a) = local[s][a].mxid)

(* No crash has left a local row that the global table does not reflect.   *)
LocallyPushed(s) ==
    \A x \in getAssociationsAfterId(local[s], 0) :
        IF x.mxid = NoMxid
        THEN ~ \E r \in global[s] : r.origin = s /\ r.address = x.address
        ELSE RowOf(s, x) \in global[s]

(* LocalPeer.pushUpdates: "Only stores an association if its ID is greater *)
(* than the last seen ID".  So a bind, made when no row waits to be        *)
(* pushed, leaves the lookups of every other address as they were.         *)
BindLeavesOthersAlone ==
    [][\A s \in Server, a \in Address, m \in Mxid :
          (Bind(s, a, m) /\ LocallyPushed(s)) =>
            \A b \in Address \ {a} :
                getMxid(global'[s], b) = getMxid(global[s], b)]_vars
=============================================================================
