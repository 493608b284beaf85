---------------------------- MODULE InvitesProofs ----------------------------
(***************************************************************************)
(* A token is signed for one mxid only, none is left behind by a bind, and *)
(* every token has its key: the proofs, for any number of addresses,       *)
(* mxids, tokens, binds and crashes.                                       *)
(***************************************************************************)
EXTENDS Invites, TLAPS

LEMMA NatSucc == \A n \in Nat : n + 1 \in Nat
OBVIOUS

LEMMA InReleased ==
    \A x : x \in Released <=>
        \/ x \in invites
        \/ \E n \in BindNo : x \in notify[n].assoc.invites
        \/ \E d \in delivered : x \in d.invites
BY DEF Released

LEMMA InReleasedNext ==
    \A x : x \in Released' <=>
        \/ x \in invites'
        \/ \E n \in BindNo' : x \in notify'[n].assoc.invites
        \/ \E d \in delivered' : x \in d.invites
BY DEF Released

LEMMA ReleasedType == TypeOK => Released \subseteq Invite
<1> SUFFICES ASSUME TypeOK, NEW x \in Released PROVE x \in Invite
  OBVIOUS
<1>1. ASSUME NEW n \in BindNo PROVE notify[n].assoc.invites \subseteq Invite
  BY DEF TypeOK, Task, SignedAssoc
<1>2. ASSUME NEW d \in delivered PROVE d.invites \subseteq Invite
  BY DEF TypeOK, SignedAssoc
<1>3. invites \subseteq Invite
  BY DEF TypeOK
<1> QED
  BY <1>1, <1>2, <1>3, InReleased

(* A step that releases nothing new and unsends no token.                  *)
LEMMA NothingReleased ==
    ASSUME InvitesInv, TypeOK',
           \A x \in Released' : x \in Released,
           \A t \in Token : tokens[t].state \in {"sent", "deleted"}
                               => tokens'[t].state \in {"sent", "deleted"}
    PROVE  InvitesInv'
<1>1. \A x \in Released : x \in Invite
  BY ReleasedType DEF InvitesInv
<1>2. ReleasedAreMarked'
  BY <1>1 DEF InvitesInv, ReleasedAreMarked, Invite
<1>3. SignedForOneMxid'
  BY DEF InvitesInv, SignedForOneMxid
<1> QED
  BY <1>2, <1>3 DEF InvitesInv

(* The operations on the table keep its rows in shape and its tokens sent. *)
LEMMA TokenTables ==
    ASSUME TypeOK, NEW a \in Address, NEW tbl,
           tbl \in {tokens, markTokensAsSent(a), deleteTokens(a)}
    PROVE  /\ tbl \in [Token -> TokenRow]
           /\ \A t \in Token : tokens[t].state \in {"sent", "deleted"}
                                  => tbl[t].state \in {"sent", "deleted"}
<1>1. tokens \in [Token -> TokenRow]
  BY DEF TypeOK
<1>2. \A t \in Token :
         /\ [tokens[t] EXCEPT !.state = "sent"] \in TokenRow
         /\ [tokens[t] EXCEPT !.state = "sent"].state = "sent"
         /\ [tokens[t] EXCEPT !.state = "deleted"] \in TokenRow
         /\ [tokens[t] EXCEPT !.state = "deleted"].state = "deleted"
  BY <1>1 DEF TokenRow
<1>3. CASE tbl = tokens
  BY <1>1, <1>3
<1>4. CASE tbl = markTokensAsSent(a)
  BY <1>1, <1>2, <1>4 DEF markTokensAsSent
<1>5. CASE tbl = deleteTokens(a)
  BY <1>1, <1>2, <1>5 DEF deleteTokens
<1> QED
  BY <1>3, <1>4, <1>5

LEMMA TokensAfterIs ==
    ASSUME TypeOK, NEW a \in Address
    PROVE  /\ TokensAfter(a) \in [Token -> TokenRow]
           /\ \A t \in Token : tokens[t].state \in {"sent", "deleted"}
                                  => TokensAfter(a)[t].state \in {"sent", "deleted"}
           /\ \A t \in getTokens(a) : TokensAfter(a)[t].state = "sent"
<1>1. TokensAfter(a) \in {tokens, markTokensAsSent(a), deleteTokens(a)}
  BY DEF TokensAfter
<1>2. ASSUME NEW t \in getTokens(a) PROVE TokensAfter(a)[t].state = "sent"
  <2>1. tokens \in [Token -> TokenRow] /\ t \in Token /\ InTable(t, a)
    BY DEF TypeOK, getTokens, InTable
  <2>2. TokensAfter(a)[t] = [tokens[t] EXCEPT !.state = "sent"]
    BY <2>1 DEF TokensAfter, markTokensAsSent
  <2> QED
    BY <2>1, <2>2 DEF TokenRow
<1> QED
  BY <1>1, <1>2, TokenTables

-----------------------------------------------------------------------------
(* One lemma per group of actions *)

LEMMA StoreStep ==
    ASSUME InvitesInv, NEW t \in Token, NEW a \in Address, StoreInvite(t, a)
    PROVE  InvitesInv'
<1>1. TypeOK /\ tokens \in [Token -> TokenRow]
  BY DEF InvitesInv, TypeOK
<1>2. /\ tokens' = [tokens EXCEPT ![t] = [state |-> "unsent", address |-> a]]
      /\ tokens[t].state = "new" /\ keys' = keys \cup {t}
      /\ UNCHANGED <<bound, invites, notify, binds, delivered, crashes>>
  BY DEF StoreInvite, storeToken
<1>3. [state |-> "unsent", address |-> a] \in TokenRow
  BY DEF TokenRow
<1>4. TypeOK'
  BY <1>1, <1>2, <1>3 DEF TypeOK, BindNo
<1>5. Released' = Released
  BY <1>2 DEF Released, BindNo
<1>6. \A u \in Token : tokens[u].state \in {"sent", "deleted"}
                          => tokens'[u].state \in {"sent", "deleted"}
  BY <1>1, <1>2
<1> QED
  BY <1>4, <1>5, <1>6, NothingReleased

(* The process dies: what was in memory is gone.                           *)
LEMMA CrashStep ==
    ASSUME InvitesInv, Crash, keys' \subseteq Token,
           bound' \in [Address -> [mxid : Mxid \cup {NoMxid},
                                   how : {"unbound", "bound", "cut short", "replicated"}]],
           tokens' \in [Token -> TokenRow],
           \A t \in Token : tokens[t].state \in {"sent", "deleted"}
                               => tokens'[t].state \in {"sent", "deleted"}
    PROVE  InvitesInv'
<1>1. TypeOK
  BY DEF InvitesInv
<1>2. /\ binds' = binds /\ delivered' = delivered /\ crashes' = crashes + 1 /\ invites' = {}
      /\ notify' = [n \in BindNo |-> [notify[n] EXCEPT !.status = "end"]]
      /\ BindNo' = BindNo
  BY DEF Crash, BindNo
<1>3. \A n \in BindNo :
         /\ [notify[n] EXCEPT !.status = "end"] \in Task
         /\ [notify[n] EXCEPT !.status = "end"].assoc = notify[n].assoc
  BY <1>1, ZenonT(40) DEF TypeOK, Task
<1>4. TypeOK'
  <2>1. notify' \in [BindNo' -> Task]
    BY <1>2, <1>3
  <2>2. crashes \in Nat /\ crashes' = crashes + 1
    BY <1>1, <1>2 DEF TypeOK
  <2>3. crashes' \in Nat
    BY <2>2, NatSucc, Zenon
  <2>4. binds' \in Nat /\ invites' \subseteq Invite /\ delivered' \subseteq SignedAssoc
    BY <1>1, <1>2, Zenon DEF TypeOK
  <2> QED
    BY <2>1, <2>3, <2>4 DEF TypeOK
<1>5. \A x \in Released' : x \in Released
  BY <1>2, <1>3, InReleased, InReleasedNext
<1> QED
  BY <1>4, <1>5, NothingReleased

LEMMA StoreCrashStep ==
    ASSUME InvitesInv, NEW t \in Token, NEW a \in Address, StoreInviteCrash(t, a)
    PROVE  InvitesInv'
<1>1. Crash /\ keys' = keys \cup {t} /\ tokens' = tokens /\ bound' = bound
  BY DEF StoreInviteCrash
<1> QED
  BY <1>1, CrashStep DEF InvitesInv, TypeOK

LEMMA RestartStep ==
    ASSUME InvitesInv, Restart
    PROVE  InvitesInv'
<1>1. Crash /\ keys' = keys /\ tokens' = tokens /\ bound' = bound
  BY DEF Restart
<1> QED
  BY <1>1, CrashStep DEF InvitesInv, TypeOK

LEMMA BindCrashStep ==
    ASSUME InvitesInv, NEW a \in Address, NEW m \in Mxid, NEW marked \in BOOLEAN,
           BindCrash(a, m, marked)
    PROVE  InvitesInv'
<1>1. TypeOK
  BY DEF InvitesInv
<1>2. /\ Crash /\ keys' = keys
      /\ bound' = [bound EXCEPT ![a] = [mxid |-> m, how |-> "cut short"]]
      /\ tokens' \in {tokens, TokensAfter(a)}
  BY DEF BindCrash
<1>3. /\ tokens' \in [Token -> TokenRow]
      /\ \A u \in Token : tokens[u].state \in {"sent", "deleted"}
                             => tokens'[u].state \in {"sent", "deleted"}
  BY <1>1, <1>2, TokensAfterIs DEF TypeOK
<1> QED
  BY <1>1, <1>2, <1>3, CrashStep DEF TypeOK

(* A binding is removed, or replicated by a peer.                          *)
LEMMA BoundStep ==
    ASSUME InvitesInv, NEW a \in Address, NEW m \in Mxid \cup {NoMxid},
           NEW how \in {"unbound", "replicated"},
           bound' = [bound EXCEPT ![a] = [mxid |-> m, how |-> how]],
           UNCHANGED <<tokens, keys, invites, notify, binds, delivered, crashes>>
    PROVE  InvitesInv'
<1>1. TypeOK'
  BY DEF InvitesInv, TypeOK, BindNo
<1>2. Released' = Released
  BY DEF Released, BindNo
<1> QED
  BY <1>1, <1>2, NothingReleased

(* The tokens that addBinding signs are unsent, hence not yet released.    *)
LEMMA BindStep ==
    ASSUME InvitesInv, NEW a \in Address, NEW m \in Mxid, Bind(a, m)
    PROVE  InvitesInv'
<1> DEFINE payload == InvitesAfter(a, m)
           task == [status |-> IF m \in Unreachable THEN "end" ELSE "posted",
                    assoc  |-> [address |-> a, mxid |-> m, invites |-> payload]]
<1>1. TypeOK /\ ReleasedAreMarked /\ SignedForOneMxid
  BY DEF InvitesInv
<1>2. /\ binds' = binds + 1
      /\ bound' = [bound EXCEPT ![a] = [mxid |-> m, how |-> "bound"]]
      /\ invites' = payload
      /\ tokens' = TokensAfter(a)
      /\ notify' = [n \in BindNo' |-> IF n \in BindNo THEN notify[n] ELSE task]
      /\ UNCHANGED <<keys, delivered, crashes>>
  BY DEF Bind
<1>3. payload \subseteq Invite
  <2>1. SignedFor(a, m) \subseteq Invite
    BY DEF SignedFor, getTokens, Invite
  <2>2. invites \subseteq Invite
    BY <1>1 DEF TypeOK
  <2> QED
    BY <2>1, <2>2 DEF InvitesAfter
<1>4. task \in Task /\ task.assoc.invites = payload
  BY <1>3 DEF Task, SignedAssoc
<1>5. BindNo \subseteq BindNo' /\ binds \in Nat
  <2>1. binds \in Nat /\ binds' = binds + 1
    BY <1>1, <1>2 DEF TypeOK
  <2> QED
    BY <2>1 DEF BindNo
<1>6. tokens' \in [Token -> TokenRow]
  BY <1>1, <1>2, TokensAfterIs
<1>7. TypeOK'
  <2> HIDE DEF payload, task
  <2>1. notify' \in [BindNo' -> Task]
    BY <1>1, <1>2, <1>4, <1>5 DEF TypeOK
  <2>2. binds' \in Nat
    BY <1>2, <1>5
  <2>3. /\ keys' \subseteq Token /\ delivered' \subseteq SignedAssoc /\ crashes' \in Nat
    BY <1>1, <1>2, Zenon DEF TypeOK
  <2>4. bound' \in [Address -> [mxid : Mxid \cup {NoMxid},
                                how : {"unbound", "bound", "cut short", "replicated"}]]
    BY <1>1, <1>2 DEF TypeOK
  <2> QED
    BY <1>2, <1>3, <1>6, <2>1, <2>2, <2>3, <2>4 DEF TypeOK
<1>8. ASSUME NEW x \in Released' PROVE x \in Released \/ x \in SignedFor(a, m)
  <2>1. x \in payload => x \in Released \/ x \in SignedFor(a, m)
    BY InReleased DEF InvitesAfter
  <2> HIDE DEF payload, task
  <2>2. \A n \in BindNo' : (notify'[n] = notify[n] /\ n \in BindNo) \/ notify'[n] = task
    BY <1>2
  <2> QED
    BY <1>2, <1>4, <2>1, <2>2, InReleased, InReleasedNext
<1>9. \A x \in Released : x \in Invite /\ tokens[x.token].state \in {"sent", "deleted"}
  <2>1. \A x \in Released : x \in Invite
    BY <1>1, ReleasedType
  <2> QED
    BY <1>1, <2>1 DEF ReleasedAreMarked
<1>10. \A x \in SignedFor(a, m) :
          x.mxid = m /\ x.token \in getTokens(a) /\ tokens[x.token].state = "unsent"
  BY DEF SignedFor, getTokens, HasState
<1>11. ReleasedAreMarked'
  BY <1>1, <1>2, <1>8, <1>9, <1>10, TokensAfterIs DEF ReleasedAreMarked, Invite
<1>12. SignedForOneMxid'
  <2> SUFFICES ASSUME NEW x \in Released', NEW y \in Released', x.token = y.token
               PROVE  x.mxid = y.mxid
    BY DEF SignedForOneMxid
  <2> QED
    BY <1>1, <1>8, <1>9, <1>10 DEF SignedForOneMxid
<1> QED
  BY <1>7, <1>11, <1>12 DEF InvitesInv

LEMMA NotifyStep ==
    ASSUME InvitesInv, NEW n \in BindNo,
           OnBind(n) \/ NotifySucceeded(n) \/ NotifyFailed(n) \/ NotifyAgain(n)
    PROVE  InvitesInv'
<1>1. TypeOK /\ notify \in [BindNo -> Task] /\ notify[n] \in Task
      /\ notify[n].assoc \in SignedAssoc /\ notify[n].assoc.address \in Address
  BY DEF InvitesInv, TypeOK, Task, SignedAssoc
<1>2. /\ UNCHANGED <<keys, bound, invites, binds, crashes>>
      /\ delivered' \in {delivered, delivered \cup {notify[n].assoc}}
      /\ \E st \in {"posted", "handled", "waiting", "end"} :
            notify' = [notify EXCEPT ![n].status = st]
      /\ tokens' \in {tokens, deleteTokens(notify[n].assoc.address)}
  BY DEF OnBind, NotifySucceeded, NotifyFailed, NotifyAgain
<1>3. PICK st \in {"posted", "handled", "waiting", "end"} :
         notify' = [notify EXCEPT ![n] = [notify[n] EXCEPT !.status = st]]
  BY <1>2
<1>4. /\ [notify[n] EXCEPT !.status = st] \in Task
      /\ [notify[n] EXCEPT !.status = st].assoc = notify[n].assoc
  BY <1>1 DEF Task
<1>5. BindNo' = BindNo
  BY <1>2 DEF BindNo
<1>6. /\ notify' \in [BindNo' -> Task]
      /\ \A k \in BindNo : notify'[k].assoc = notify[k].assoc
  BY <1>1, <1>3, <1>4, <1>5
<1>7. /\ tokens' \in [Token -> TokenRow]
      /\ \A t \in Token : tokens[t].state \in {"sent", "deleted"}
                             => tokens'[t].state \in {"sent", "deleted"}
  BY <1>1, <1>2, TokenTables
<1>8. TypeOK'
  BY <1>1, <1>2, <1>6, <1>7 DEF TypeOK
<1>9. \A x \in Released' : x \in Released
  BY <1>2, <1>5, <1>6, InReleased, InReleasedNext
<1> QED
  BY <1>7, <1>8, <1>9, NothingReleased

-----------------------------------------------------------------------------
LEMMA InitInvites == Init => InvitesInv
<1> SUFFICES ASSUME Init PROVE InvitesInv
  OBVIOUS
<1>1. BindNo = {} /\ Released = {}
  BY DEF Init, BindNo, Released
<1>2. TypeOK
  BY <1>1 DEF Init, TypeOK, TokenRow
<1> QED
  BY <1>1, <1>2 DEF InvitesInv, ReleasedAreMarked, SignedForOneMxid

LEMMA NextInvites == InvitesInv /\ [Next]_vars => InvitesInv'
<1> SUFFICES ASSUME InvitesInv, [Next]_vars PROVE InvitesInv'
  OBVIOUS
<1>1. ASSUME NEW t \in Token, NEW a \in Address,
             StoreInvite(t, a) \/ StoreInviteCrash(t, a)
      PROVE  InvitesInv'
  BY <1>1, StoreStep, StoreCrashStep
<1>2. ASSUME NEW a \in Address, Unbind(a) PROVE InvitesInv'
  BY <1>2, BoundStep DEF Unbind
<1>3. ASSUME NEW a \in Address, NEW m \in Mxid, ReplicatedBind(a, m) PROVE InvitesInv'
  BY <1>3, BoundStep DEF ReplicatedBind
<1>4. ASSUME NEW a \in Address, NEW m \in Mxid,
             Bind(a, m) \/ \E marked \in BOOLEAN : BindCrash(a, m, marked)
      PROVE  InvitesInv'
  BY <1>4, BindStep, BindCrashStep
<1>5. ASSUME NEW n \in BindNo,
             OnBind(n) \/ NotifySucceeded(n) \/ NotifyFailed(n) \/ NotifyAgain(n)
      PROVE  InvitesInv'
  BY <1>5, NotifyStep
<1>6. CASE Restart
  BY <1>6, RestartStep
<1>7. CASE UNCHANGED vars
  <2>1. UNCHANGED <<tokens, keys, bound, invites, notify, binds, delivered, crashes>>
    BY <1>7 DEF vars
  <2>2. TypeOK' /\ Released' = Released
    BY <2>1, ZenonT(40) DEF InvitesInv, TypeOK, BindNo, Released
  <2> QED
    BY <2>1, <2>2, NothingReleased
<1> QED
  BY <1>1, <1>2, <1>3, <1>4, <1>5, <1>6, <1>7 DEF Next

(* Tables, tasks and deliveries keep their shape.                          *)
THEOREM InvitesTypeCorrect == Spec => []TypeOK
<1>1. InvitesInv => TypeOK
  BY DEF InvitesInv
<1> QED
  BY <1>1, InitInvites, NextInvites, PTL DEF Spec

(* addBinding signs a token for one mxid only, for any number of           *)
(* addresses, tokens, binds, retries and crashes.                          *)
THEOREM TokensSignedOnce == Spec => []SignedForOneMxid
<1>1. InvitesInv => SignedForOneMxid
  BY DEF InvitesInv
<1> QED
  BY <1>1, InitInvites, NextInvites, PTL DEF Spec

-----------------------------------------------------------------------------
(* Tokens that wait and keys that are there *)

(* What StoreInvite asks of an address tells whether it was bound here.    *)
BoundHasMxid == \A a \in Address : bound[a].how = "bound" => bound[a].mxid # NoMxid

WaitingInv == BoundHasMxid /\ NoTokenLeftBehind /\ KeyBeforeToken

(* UPDATE and DELETE make no token new or unsent and leave its address.    *)
LEMMA TablesOnlyAge ==
    ASSUME TypeOK, NEW a, NEW tbl,
           tbl \in {tokens, markTokensAsSent(a), deleteTokens(a)}
    PROVE  \A t \in Token : /\ tbl[t].address = tokens[t].address
                            /\ tbl[t].state = "unsent" => tokens[t].state = "unsent"
                            /\ tbl[t].state # "new" => tokens[t].state # "new"
<1> TAKE t \in Token
<1>1. tokens[t] \in TokenRow
  BY DEF TypeOK
<1>2. tbl[t] \in {tokens[t]} \cup
        IF InTable(t, a) THEN {[tokens[t] EXCEPT !.state = "sent"],
                               [tokens[t] EXCEPT !.state = "deleted"]} ELSE {}
  BY DEF markTokensAsSent, deleteTokens
<1>3. CASE tbl[t] = tokens[t]
  BY <1>3
<1>4. CASE /\ InTable(t, a)
           /\ tbl[t] \in {[tokens[t] EXCEPT !.state = "sent"],
                          [tokens[t] EXCEPT !.state = "deleted"]}
  BY <1>1, <1>4 DEF InTable, HasState, TokenRow
<1> QED
  BY <1>2, <1>3, <1>4

(* addBinding leaves no token of its address to be sent.                   *)
LEMMA NoneUnsentAfter ==
    ASSUME TypeOK, NEW a \in Address
    PROVE  /\ TokensAfter(a) \in {tokens, markTokensAsSent(a)}
           /\ \A t \in Token : TokensAfter(a)[t].address = a
                                 => TokensAfter(a)[t].state # "unsent"
<1>1. TokensAfter(a) \in {tokens, markTokensAsSent(a)}
  BY DEF TokensAfter
<1>2. ASSUME NEW t \in Token, TokensAfter(a)[t].address = a
      PROVE  TokensAfter(a)[t].state # "unsent"
  <2>0. TokensAfter(a) \in {tokens, markTokensAsSent(a), deleteTokens(a)}
    BY <1>1
  <2>1. tokens[t].address = a
    BY <1>2, <2>0, TablesOnlyAge
  <2>2. CASE t \in getTokens(a)
    BY <2>2, TokensAfterIs
  <2>3. CASE t \notin getTokens(a)
    BY <2>0, <2>1, <2>3, TablesOnlyAge DEF getTokens, HasState
  <2> QED
    BY <2>2, <2>3
<1> QED
  BY <1>1, <1>2

(* A step that makes no token unsent, and binds an address here only if    *)
(* none of its tokens is left.                                             *)
LEMMA NothingStored ==
    ASSUME WaitingInv, keys \subseteq keys',
           \A t \in Token :
              /\ tokens'[t].state = "unsent" =>
                    tokens[t].state = "unsent" /\ tokens'[t].address = tokens[t].address
              /\ tokens'[t].state # "new" => tokens[t].state # "new",
           \A a \in Address : bound'[a].how = "bound" =>
              \/ bound'[a] = bound[a]
              \/ /\ bound'[a].mxid # NoMxid
                 /\ \A t \in Token : tokens'[t].address = a => tokens'[t].state # "unsent"
    PROVE  WaitingInv'
<1>1. BoundHasMxid'
  BY DEF WaitingInv, BoundHasMxid
<1>2. KeyBeforeToken'
  BY DEF WaitingInv, KeyBeforeToken
<1>3. NoTokenLeftBehind'
  BY DEF WaitingInv, NoTokenLeftBehind, getTokens, HasState
<1> QED
  BY <1>1, <1>2, <1>3 DEF WaitingInv

LEMMA InitWaiting == Init => WaitingInv
  BY DEF Init, WaitingInv, BoundHasMxid, NoTokenLeftBehind, KeyBeforeToken, getTokens, HasState

LEMMA NextWaiting == TypeOK /\ WaitingInv /\ [Next]_vars => WaitingInv'
<1> SUFFICES ASSUME TypeOK, WaitingInv, [Next]_vars PROVE WaitingInv'
  OBVIOUS
<1>0. ASSUME NEW a, tokens' \in {tokens, markTokensAsSent(a), deleteTokens(a)},
             UNCHANGED <<keys, bound>>
      PROVE  WaitingInv'
  BY <1>0, TablesOnlyAge, NothingStored
<1>1. ASSUME NEW t \in Token, NEW a \in Address, StoreInvite(t, a) PROVE WaitingInv'
  <2>1. /\ bound' = bound /\ bound[a].mxid = NoMxid /\ keys' = keys \cup {t}
        /\ tokens' = [tokens EXCEPT ![t] = [state |-> "unsent", address |-> a]]
        /\ tokens \in [Token -> TokenRow]
    BY <1>1 DEF StoreInvite, storeToken, TypeOK
  <2>2. tokens'[t].address = a /\ \A u \in Token \ {t} : tokens'[u] = tokens[u]
    BY <2>1
  <2>3. KeyBeforeToken'
    BY <2>1, <2>2 DEF WaitingInv, KeyBeforeToken
  <2>4. NoTokenLeftBehind'
    <3> SUFFICES ASSUME NEW b \in Address, bound[b].how = "bound", NEW u \in Token,
                        tokens'[u].address = b, tokens'[u].state = "unsent"
                 PROVE  FALSE
      BY <2>1 DEF NoTokenLeftBehind, getTokens, HasState
    <3>1. b # a
      BY <2>1 DEF WaitingInv, BoundHasMxid
    <3> QED
      BY <2>2, <3>1 DEF WaitingInv, NoTokenLeftBehind, getTokens, HasState
  <2> QED
    BY <2>1, <2>3, <2>4 DEF WaitingInv, BoundHasMxid
<1>2. ASSUME NEW t \in Token, NEW a \in Address, StoreInviteCrash(t, a) PROVE WaitingInv'
  BY <1>2, NothingStored DEF StoreInviteCrash
<1>3. ASSUME NEW a \in Address, Unbind(a) PROVE WaitingInv'
  <2>1. /\ UNCHANGED <<tokens, keys>>
        /\ bound' = [bound EXCEPT ![a] = [mxid |-> NoMxid, how |-> "unbound"]]
    BY <1>3 DEF Unbind
  <2>2. \A b \in Address : bound'[b].how = "bound" => bound'[b] = bound[b]
    BY <2>1 DEF TypeOK
  <2> QED
    BY <2>1, <2>2, NothingStored
<1>4. ASSUME NEW a \in Address, NEW m \in Mxid, ReplicatedBind(a, m) PROVE WaitingInv'
  <2>1. /\ UNCHANGED <<tokens, keys>>
        /\ bound' = [bound EXCEPT ![a] = [mxid |-> m, how |-> "replicated"]]
    BY <1>4 DEF ReplicatedBind
  <2>2. \A b \in Address : bound'[b].how = "bound" => bound'[b] = bound[b]
    BY <2>1 DEF TypeOK
  <2> QED
    BY <2>1, <2>2, NothingStored
<1>5. ASSUME NEW a \in Address, NEW m \in Mxid, Bind(a, m) PROVE WaitingInv'
  <2>1. /\ keys' = keys /\ tokens' = TokensAfter(a)
        /\ bound' = [bound EXCEPT ![a] = [mxid |-> m, how |-> "bound"]]
    BY <1>5 DEF Bind
  <2>2. m # NoMxid
    BY InvitesAssumption
  <2>3. \A b \in Address : bound'[b] = bound[b] \/ (b = a /\ bound'[b].mxid # NoMxid)
    BY <2>1, <2>2 DEF TypeOK
  <2> QED
    BY <2>1, <2>3, NoneUnsentAfter, TablesOnlyAge, NothingStored
<1>6. ASSUME NEW a \in Address, NEW m \in Mxid, NEW marked \in BOOLEAN,
             BindCrash(a, m, marked)
      PROVE  WaitingInv'
  <2>1. /\ keys' = keys /\ tokens' \in {tokens, TokensAfter(a)}
        /\ bound' = [bound EXCEPT ![a] = [mxid |-> m, how |-> "cut short"]]
    BY <1>6 DEF BindCrash
  <2>2. \A b \in Address : bound'[b].how = "bound" => bound'[b] = bound[b]
    BY <2>1 DEF TypeOK
  <2>3. tokens' \in {tokens, markTokensAsSent(a), deleteTokens(a)}
    BY <2>1, NoneUnsentAfter
  <2>4. \A t \in Token : /\ tokens'[t].address = tokens[t].address
                         /\ tokens'[t].state = "unsent" => tokens[t].state = "unsent"
                         /\ tokens'[t].state # "new" => tokens[t].state # "new"
    BY <2>3, TablesOnlyAge
  <2> QED
    BY <2>1, <2>2, <2>4, NothingStored
<1>7. ASSUME NEW n \in BindNo,
             OnBind(n) \/ NotifySucceeded(n) \/ NotifyFailed(n) \/ NotifyAgain(n)
      PROVE  WaitingInv'
  BY <1>0, <1>7 DEF OnBind, NotifySucceeded, NotifyFailed, NotifyAgain
<1>8. CASE Restart \/ UNCHANGED vars
  BY <1>0, <1>8 DEF Restart, vars
<1> QED
  BY <1>1, <1>2, <1>3, <1>4, <1>5, <1>6, <1>7, <1>8 DEF Next

(* StoreInviteServlet and addBinding: once addBinding has returned, no     *)
(* token of the address waits to be sent, and none comes to wait as long   *)
(* as the binding stands.                                                  *)
THEOREM NoneLeftBehind == Spec => []NoTokenLeftBehind
<1>1. WaitingInv => NoTokenLeftBehind
  BY DEF WaitingInv
<1> QED
  BY <1>1, InitWaiting, NextWaiting, InvitesTypeCorrect, PTL DEF Spec

(* StoreInviteServlet: whatever a homeserver may be sent, signed with an   *)
(* ephemeral key, /pubkey/ephemeral/isvalid knows the key.                 *)
THEOREM KeysBeforeTokens == Spec => []KeyBeforeToken
<1>1. WaitingInv => KeyBeforeToken
  BY DEF WaitingInv
<1> QED
  BY <1>1, InitWaiting, NextWaiting, InvitesTypeCorrect, PTL DEF Spec
=============================================================================
