------------------------------ MODULE Invites -------------------------------
(***************************************************************************)
(* Third-party invites: StoreInviteServlet keeps a token for an address    *)
(* that is not bound, ThreepidBinder.addBinding signs the tokens of the    *)
(* address it binds for the mxid, and _notify tries for ever to deliver    *)
(* them to the homeserver of the mxid (db/invite_tokens.py,                *)
(* servlets/store_invite_servlet.py, threepid/bind.py, threepid/signer.py).*)
(*                                                                         *)
(* One Sydent.  Its association tables are the subject of Replication;     *)
(* here they are what getMxid returns for each address.  Handlers run to   *)
(* completion, except for the POST of _notify; the delays 2^attempt        *)
(* between its attempts are left out.                                      *)
(***************************************************************************)
EXTENDS Naturals, FiniteSets

CONSTANTS Address, NoAddress,
          Mxid, NoMxid,
          Unreachable,         \* mxids whose server part _notify cannot parse
          Token,               \* the random tokens, each drawn once
          DeleteTokensOnBind,  \* general.delete_tokens_on_bind
          MaxBinds,            \* bound: calls of addBinding
          MaxCrashes           \* bound: times the process dies

ASSUME InvitesAssumption ==
    /\ NoMxid \notin Mxid /\ NoAddress \notin Address
    /\ Unreachable \subseteq Mxid
    /\ DeleteTokensOnBind \in BOOLEAN
    /\ MaxBinds \in Nat
    /\ MaxCrashes \in Nat

VARIABLES
    tokens,     \* invite_tokens, and the tokens that are no longer in it
    keys,       \* ephemeral_public_keys, each named by the token it is for
    bound,      \* GlobalAssociationStore.getMxid, and how it came to be
    invites,    \* extra_fields["invites"], one dict for all associations
    notify,     \* the task started by each call of addBinding
    binds,      \* calls of addBinding so far
    delivered,  \* the associations that reached a homeserver
    crashes     \* times the process died so far

vars == <<tokens, keys, bound, invites, notify, binds, delivered, crashes>>

(* A token signed for an mxid.                                             *)
Invite == [token : Token, mxid : Mxid]

SignedAssoc == [address : Address, mxid : Mxid, invites : SUBSET Invite]

(* "new" has not been drawn; only "unsent" and "sent" are in the table.    *)
TokenRow == [state : {"new", "unsent", "sent", "deleted"},
             address : Address \cup {NoAddress}]

(* "posted" to the homeserver, "handled" there but not yet answered,       *)
(* "waiting" for the next attempt, or at an "end".                         *)
Task == [status : {"posted", "handled", "waiting", "end"}, assoc : SignedAssoc]

BindNo == 1..binds

TypeOK ==
    /\ tokens \in [Token -> TokenRow]
    /\ keys \subseteq Token
    /\ bound \in [Address -> [mxid : Mxid \cup {NoMxid},
                              how  : {"unbound", "bound", "cut short", "replicated"}]]
    /\ invites \subseteq Invite
    /\ binds \in Nat
    /\ notify \in [BindNo -> Task]
    /\ delivered \subseteq SignedAssoc
    /\ crashes \in Nat

Init ==
    /\ tokens = [t \in Token |-> [state |-> "new", address |-> NoAddress]]
    /\ keys = {}
    /\ bound = [a \in Address |-> [mxid |-> NoMxid, how |-> "unbound"]]
    /\ invites = {}
    /\ notify = [n \in {} |-> {}]
    /\ binds = 0
    /\ delivered = {}
    /\ crashes = 0

-----------------------------------------------------------------------------
(* JoinTokenStore *)

HasState(t, a, state) == tokens[t].address = a /\ tokens[t].state = state

(* the tokens of the address whose sent_ts is NULL                         *)
getTokens(a) == {t \in Token : HasState(t, a, "unsent")}

(* UPDATE and DELETE have no other condition than the address.             *)
InTable(t, a) == HasState(t, a, "unsent") \/ HasState(t, a, "sent")

markTokensAsSent(a) ==
    [t \in Token |-> IF InTable(t, a) THEN [tokens[t] EXCEPT !.state = "sent"]
                                      ELSE tokens[t]]

deleteTokens(a) ==
    [t \in Token |-> IF InTable(t, a) THEN [tokens[t] EXCEPT !.state = "deleted"]
                                      ELSE tokens[t]]

storeToken(t, a) == [tokens EXCEPT ![t] = [state |-> "unsent", address |-> a]]

-----------------------------------------------------------------------------
(* A mutant of StoreInvite: whether the address is bound is not asked.     *)
StoreInviteUnasked(t, a) ==
    /\ tokens[t].state = "new"
    /\ t \notin keys
    /\ keys' = keys \cup {t}
    /\ tokens' = storeToken(t, a)
    /\ UNCHANGED <<bound, invites, notify, binds, delivered, crashes>>

(* StoreInviteServlet.render_POST, once its checks are passed.  The token  *)
(* stays, whether the keyword blocklist or sendEmail then turn the invite  *)
(* down or not.                                                            *)
StoreInvite(t, a) ==
    /\ tokens[t].state = "new"
    /\ t \notin keys
    /\ bound[a].mxid = NoMxid
    /\ keys' = keys \cup {t}
    /\ tokens' = storeToken(t, a)
    /\ UNCHANGED <<bound, invites, notify, binds, delivered, crashes>>

(* What a restart leaves of a Sydent: its tables.                          *)
Crash ==
    /\ crashes < MaxCrashes
    /\ crashes' = crashes + 1
    /\ invites' = {}
    /\ notify' = [n \in BindNo |-> [notify[n] EXCEPT !.status = "end"]]
    /\ UNCHANGED <<binds, delivered>>

(* A mutant of StoreInviteCrash: the token is stored before the key.       *)
StoreInviteCrashTokenFirst(t, a) ==
    /\ tokens[t].state = "new"
    /\ t \notin keys
    /\ bound[a].mxid = NoMxid
    /\ tokens' = storeToken(t, a)
    /\ Crash
    /\ UNCHANGED <<keys, bound>>

(* The process dies between storeEphemeralPublicKey and storeToken.        *)
StoreInviteCrash(t, a) ==
    /\ tokens[t].state = "new"
    /\ t \notin keys
    /\ bound[a].mxid = NoMxid
    /\ keys' = keys \cup {t}
    /\ Crash
    /\ UNCHANGED <<tokens, bound>>

(* A mutant of SignedFor: the mxid is taken from the association store     *)
(* before the new association is in it.                                    *)
SignedForStaleMxid(a, m) == {[token |-> t, mxid |-> bound[a].mxid] : t \in getTokens(a)}

SignedFor(a, m) == {[token |-> t, mxid |-> m] : t \in getTokens(a)}

(* assoc.extra_fields["invites"] as addBinding leaves it                   *)
InvitesAfter(a, m) == IF SignedFor(a, m) # {} THEN SignedFor(a, m) ELSE invites

(* A mutant of TokensAfter: markTokensAsSent is forgotten.                 *)
TokensUnmarked(a) == tokens

TokensAfter(a) == IF getTokens(a) # {} THEN markTokensAsSent(a) ELSE tokens

(* ThreepidBinder.addBinding, to the first POST of _notify                 *)
Bind(a, m) ==
    /\ binds < MaxBinds
    /\ binds' = binds + 1
    /\ bound' = [bound EXCEPT ![a] = [mxid |-> m, how |-> "bound"]]
    /\ invites' = InvitesAfter(a, m)
    /\ tokens' = TokensAfter(a)
    /\ notify' = [n \in BindNo' |->
                    IF n \in BindNo THEN notify[n]
                    ELSE [status |-> IF m \in Unreachable THEN "end" ELSE "posted",
                          assoc  |-> [address |-> a, mxid |-> m,
                                      invites |-> InvitesAfter(a, m)]]]
    /\ UNCHANGED <<keys, delivered, crashes>>

(* The process dies in addBinding, after the local push and before or      *)
(* after markTokensAsSent.                                                 *)
BindCrash(a, m, marked) ==
    /\ bound' = [bound EXCEPT ![a] = [mxid |-> m, how |-> "cut short"]]
    /\ tokens' = IF marked THEN TokensAfter(a) ELSE tokens
    /\ Crash
    /\ UNCHANGED keys

(* ThreepidBinder.removeBinding, or the tombstone of a peer                *)
Unbind(a) ==
    /\ bound[a].mxid # NoMxid
    /\ bound' = [bound EXCEPT ![a] = [mxid |-> NoMxid, how |-> "unbound"]]
    /\ UNCHANGED <<tokens, keys, invites, notify, binds, delivered, crashes>>

(* A peer replicates a binding of the address.                             *)
ReplicatedBind(a, m) ==
    /\ bound' = [bound EXCEPT ![a] = [mxid |-> m, how |-> "replicated"]]
    /\ UNCHANGED <<tokens, keys, invites, notify, binds, delivered, crashes>>

(* The process is stopped between two handlers.                            *)
Restart ==
    /\ Crash
    /\ UNCHANGED <<tokens, keys, bound>>

-----------------------------------------------------------------------------
(* _notify.  The homeserver handles the association of the POST.           *)
OnBind(n) ==
    /\ notify[n].status = "posted"
    /\ notify' = [notify EXCEPT ![n].status = "handled"]
    /\ delivered' = delivered \cup {notify[n].assoc}
    /\ UNCHANGED <<tokens, keys, bound, invites, binds, crashes>>

(* The response is a 200.                                                  *)
NotifySucceeded(n) ==
    /\ notify[n].status = "handled"
    /\ notify' = [notify EXCEPT ![n].status = "end"]
    /\ tokens' = IF DeleteTokensOnBind THEN deleteTokens(notify[n].assoc.address)
                 ELSE tokens
    /\ UNCHANGED <<keys, bound, invites, binds, delivered, crashes>>

(* A mutant of NotifyFailed: no timer is set.                              *)
NotifyFailedForGood(n) ==
    /\ notify[n].status \in {"posted", "handled"}
    /\ notify' = [notify EXCEPT ![n].status = "end"]
    /\ UNCHANGED <<tokens, keys, bound, invites, binds, delivered, crashes>>

(* An exception or another response, whatever the homeserver did:          *)
(* _notifyErrback sets a timer.                                            *)
NotifyFailed(n) ==
    /\ notify[n].status \in {"posted", "handled"}
    /\ notify' = [notify EXCEPT ![n].status = "waiting"]
    /\ UNCHANGED <<tokens, keys, bound, invites, binds, delivered, crashes>>

(* The timer fires.                                                        *)
NotifyAgain(n) ==
    /\ notify[n].status = "waiting"
    /\ notify' = [notify EXCEPT ![n].status = "posted"]
    /\ UNCHANGED <<tokens, keys, bound, invites, binds, delivered, crashes>>

Next ==
    \/ \E t \in Token, a \in Address : StoreInvite(t, a) \/ StoreInviteCrash(t, a)
    \/ \E a \in Address : Unbind(a)
    \/ \E a \in Address, m \in Mxid :
          \/ Bind(a, m)
          \/ \E marked \in BOOLEAN : BindCrash(a, m, marked)
          \/ ReplicatedBind(a, m)
    \/ \E n \in BindNo : \/ OnBind(n)
                         \/ NotifySucceeded(n)
                         \/ NotifyFailed(n)
                         \/ NotifyAgain(n)
    \/ Restart

Spec == Init /\ [][Next]_vars

(* The reactor fires its timers, and a homeserver that is notified again   *)
(* and again handles the association in the end.                           *)
Fairness ==
    \A n \in 1..MaxBinds : /\ WF_vars(n \in BindNo /\ NotifyAgain(n))
                           /\ SF_vars(n \in BindNo /\ OnBind(n))

FairSpec == Spec /\ Fairness

-----------------------------------------------------------------------------
(* Properties *)

(* All signed tokens that are in memory or that left the process.          *)
Released ==
    invites \cup (UNION {notify[n].assoc.invites : n \in BindNo})
            \cup (UNION {d.invites : d \in delivered})

(* addBinding signs a token for one mxid only, although addresses are      *)
(* unbound and bound again, notifications are repeated, the process dies   *)
(* in addBinding and extra_fields outlives its association.                *)
SignedForOneMxid ==
    \A x, y \in Released : x.token = y.token => x.mxid = y.mxid

(* A signed token is never unsent again: what makes SignedForOneMxid       *)
(* inductive, as addBinding only signs unsent tokens.                      *)
ReleasedAreMarked ==
    \A x \in Released : tokens[x.token].state \in {"sent", "deleted"}

InvitesInv == TypeOK /\ ReleasedAreMarked /\ SignedForOneMxid

(* An address bound here leaves no token behind that is still to be sent:  *)
(* store-invite refuses addresses that are bound, and addBinding takes all *)
(* tokens there are, unless it dies on the way.                            *)
NoTokenLeftBehind ==
    \A a \in Address : bound[a].how = "bound" => getTokens(a) = {}

(* The key a homeserver checks a signed invite against is in the table     *)
(* whenever the token is, also after a crash in store-invite.              *)
KeyBeforeToken == \A t \in Token : tokens[t].state # "new" => t \in keys

(* The invite of a token reached the homeserver of the mxid it is for.     *)
Delivered(t) ==
    \E d \in delivered : [token |-> t, mxid |-> d.mxid] \in d.invites

GivenUp(t) ==
    \E n \in BindNo : /\ notify[n].assoc.mxid \in Unreachable
                      /\ [token |-> t, mxid |-> notify[n].assoc.mxid]
                            \in notify[n].assoc.invites

(* markTokensAsSent: tokens are marked "as delivered to a homeserver so    *)
(* they're not delivered again in the future".  A token that getTokens no  *)
(* longer returns comes to be delivered, through all failed attempts,      *)
(* unless the mxid has no valid server name ("Not retrying").              *)
MarkedIsDelivered ==
    \A t \in Token :
        (tokens[t].state = "sent") ~> (Delivered(t) \/ GivenUp(t))

(* The same as long as the process is not killed: _notifyErrback never     *)
(* gives up, whatever is bound, unbound, replicated or deleted meanwhile.  *)
DeliveredUnlessKilled ==
    \A t \in Token :
        (tokens[t].state = "sent") ~> (Delivered(t) \/ GivenUp(t) \/ crashes > 0)
=============================================================================
