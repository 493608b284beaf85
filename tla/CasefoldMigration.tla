-------------------------- MODULE CasefoldMigration --------------------------
(***************************************************************************)
(* scripts/casefold_db.py: folds the case of the addresses that an earlier *)
(* release stored and resolves the duplicates this makes, while Sydent is  *)
(* stopped or, says its documentation, running.  The global table is read, *)
(* then written in one transaction; the local one is read, then written    *)
(* row by row, with a mail before each row that somebody loses.            *)
(*                                                                         *)
(* The script's options are left at their defaults.                        *)
(***************************************************************************)
EXTENDS SchemaMigration

VARIABLES
    script,  \* where it stands, and what it has read and worked out
    told     \* <<address, mxid>> of the mails it sent

vars == <<db, process, clock, history, script, told>>

NoScript ==
    [phase |-> "none", seen |-> {}, deltas |-> {}, skipped |-> FALSE, disturbed |-> FALSE]

Delta == [folded : Folded, keep : LocalRow, drop : SUBSET LocalRow]

TypeOK ==
    /\ TypeOfDatabase
    /\ script.phase \in {"none", "global", "read", "local", "done"}
    /\ \A r \in script.seen : r \in GlobalRow
    /\ \A d \in script.deltas :
         d.folded \in Folded /\ d.keep \in LocalRow /\ \A r \in d.drop : r \in LocalRow
    /\ told \subseteq Address \X (Mxid \cup {NoMxid})

Init == SchemaInit /\ script = NoScript /\ told = {}

GroupOf(tbl, x) == {r \in tbl : Casefold[r.address] = x}

(* A mutant of InRightState: the case of a single row is not looked at.    *)
NoDuplicate(rows, x) == \E r \in rows : rows = {r}

(* "the row is already in the right state and there's no duplicate"        *)
InRightState(rows, x) == \E r \in rows : rows = {r} /\ r.address = x

ToFix(tbl) ==
    {x \in Folded : GroupOf(tbl, x) # {} /\ ~ InRightState(GroupOf(tbl, x), x)}

-----------------------------------------------------------------------------
(* update_global_associations: the SELECT of the rows of this server.      *)
(* The Sydent object of the script has upgraded the database before, with  *)
(* the steps of Start to Serve.                                            *)
ReadGlobal ==
    /\ script.phase \in {"none", "done"}
    /\ db.version = 5 /\ db.pepper # NoPepper
    /\ script' = [NoScript EXCEPT !.phase = "global",
                                  !.seen = {r \in db.global : r.origin = "own"}]
    /\ UNCHANGED <<db, process, clock, history, told>>

(* DELETE ... WHERE address = ?, for all but the newest of a group; it     *)
(* deletes every row of the address, whatever its mxid and origin          *)
Deleted(tbl, seen) ==
    LET lost(x) == {r.address : r \in GroupOf(seen, x) \ {Newest(GroupOf(seen, x))}}
    IN  {r \in tbl : \A x \in ToFix(seen) : r.address \notin lost(x)}

(* A mutant of Refolded: the hash of the address is left as it was.        *)
RefoldedHashless(tbl, seen) ==
    LET kept == {Newest(GroupOf(seen, x)) : x \in ToFix(seen)}
    IN  {IF \E k \in kept : k.address = r.address /\ k.mxid = r.mxid
         THEN [r EXCEPT !.address = Casefold[@]]
         ELSE r : r \in tbl}

(* UPDATE ... SET address, lookup_hash WHERE address = ? AND mxid = ?, for *)
(* the newest of a group                                                   *)
Refolded(tbl, seen) ==
    LET kept == {Newest(GroupOf(seen, x)) : x \in ToFix(seen)}
    IN  {IF \E k \in kept : k.address = r.address /\ k.mxid = r.mxid
         THEN [r EXCEPT !.address = Casefold[@],
                        !.hash = Hash(Casefold[r.address], db.pepper)]
         ELSE r : r \in tbl}

WriteGlobal ==
    /\ script.phase = "global"
    /\ db' = [db EXCEPT !.global = Refolded(Deleted(@, script.seen), script.seen)]
    /\ script' = [script EXCEPT !.phase = "read", !.seen = {}]
    /\ UNCHANGED <<process, clock, history, told>>

(* A mutant of Deltas: the rows are sorted the other way round.            *)
DeltasOldestFirst(tbl) ==
    {LET oldest == CHOOSE r \in GroupOf(tbl, x) : \A q \in GroupOf(tbl, x) : r.ts <= q.ts
     IN  [folded |-> x, keep |-> oldest, drop |-> GroupOf(tbl, x) \ {oldest}] :
        x \in ToFix(tbl)}

(* update_local_associations, up to "Apply the deltas"                     *)
Deltas(tbl) ==
    {[folded |-> x, keep |-> Newest(GroupOf(tbl, x)),
      drop |-> GroupOf(tbl, x) \ {Newest(GroupOf(tbl, x))}] : x \in ToFix(tbl)}

ReadLocal ==
    /\ script.phase = "read"
    /\ script' = [script EXCEPT !.phase = "local", !.deltas = Deltas(db.local)]
    /\ UNCHANGED <<db, process, clock, history, told>>

(* The deltas are applied in the order of their newest rows, the rows of   *)
(* one of them in the order of their ts.                                   *)
Current == CHOOSE d \in script.deltas : \A e \in script.deltas : e.keep.ts <= d.keep.ts

After(d) == [script EXCEPT !.deltas = @ \ {d}]

(* "If the MXID is one that will still be associated with this email       *)
(* address after this run, don't send an email for it."                    *)
NeedsMail(d, r) == r.mxid # d.keep.mxid

(* A mail, if one is due, and the DELETE of one row by its address         *)
DropRow ==
    LET d == Current
        r == Newest(d.drop)
    IN  /\ script.phase = "local" /\ script.deltas # {} /\ d.drop # {}
        /\ told' = told \cup IF NeedsMail(d, r) THEN {<<r.address, r.mxid>>} ELSE {}
        /\ db' = [db EXCEPT !.local = @ \ RowsOf(@, r.address)]
        /\ script' = [script EXCEPT !.deltas =
                        (@ \ {d}) \cup {[d EXCEPT !.drop = @ \ {r}]}]
        /\ UNCHANGED <<process, clock, history>>

(* A mutant of SkipDelta: the row is deleted all the same.                 *)
SkipMail ==
    LET d == Current
        r == Newest(d.drop)
    IN  /\ script.phase = "local" /\ script.deltas # {} /\ d.drop # {}
        /\ NeedsMail(d, r)
        /\ db' = [db EXCEPT !.local = @ \ RowsOf(@, r.address)]
        /\ script' = [script EXCEPT !.deltas =
                        (@ \ {d}) \cup {[d EXCEPT !.drop = @ \ {r}]}]
        /\ UNCHANGED <<process, clock, history, told>>

(* CantSendEmailException, after five attempts: the delta is given up.     *)
SkipDelta ==
    /\ script.phase = "local" /\ script.deltas # {} /\ Current.drop # {}
    /\ NeedsMail(Current, Newest(Current.drop))
    /\ script' = [After(Current) EXCEPT !.skipped = TRUE]
    /\ UNCHANGED <<db, process, clock, history, told>>

(* The rows that UPDATE ... WHERE address = ? AND mxid = ? finds: never    *)
(* one whose mxid is NULL                                                  *)
Matching(d) ==
    {r \in db.local : r.address = d.keep.address /\ r.mxid = d.keep.mxid /\ r.mxid # NoMxid}

(* The unique index of (medium, address) refuses the UPDATE.               *)
Clashes(d) == Matching(d) # {} /\ \E q \in db.local \ Matching(d) : q.address = d.folded

UpdateRow ==
    LET d == Current
    IN  /\ script.phase = "local" /\ script.deltas # {} /\ d.drop = {}
        /\ \/ /\ ~ Clashes(d)
              /\ db' = [db EXCEPT !.local = (@ \ Matching(d))
                          \cup {[r EXCEPT !.address = d.folded] : r \in Matching(d)}]
              /\ script' = After(d)
           \/ /\ Clashes(d)
              /\ script' = NoScript
              /\ UNCHANGED db
        /\ UNCHANGED <<process, clock, history, told>>

Finish ==
    /\ script.phase = "local" /\ script.deltas = {}
    /\ script' = [script EXCEPT !.phase = "done"]
    /\ UNCHANGED <<db, process, clock, history, told>>

KillScript ==
    /\ script.phase \notin {"none", "done"}
    /\ script' = NoScript
    /\ UNCHANGED <<db, process, clock, history, told>>

(* What Sydent does to the tables, which the script does not learn         *)
Serving ==
    /\ \E a \in Address, m \in Mxid :
         \/ Bind(a, m) \/ Unbind(a, m) \/ Replicated(a, m)
         \/ OldBind(a, m) \/ OldReplicated(a, m)
    /\ script' = IF script.phase \in {"none", "done"} THEN NoScript
                 ELSE [script EXCEPT !.disturbed = TRUE]
    /\ UNCHANGED <<history, told>>

Next ==
    \/ Serving
    \/ StartUp /\ UNCHANGED <<script, told>>
    \/ ReadGlobal
    \/ WriteGlobal
    \/ ReadLocal
    \/ DropRow
    \/ SkipDelta
    \/ UpdateRow
    \/ Finish
    \/ KillScript

Spec == Init /\ [][Next]_vars

-----------------------------------------------------------------------------
(* Properties *)

(* A step of a script that nothing was bound or unbound under              *)
ScriptRuns ==
    /\ script.phase # "none" /\ script'.phase # "none"
    /\ ~ script.disturbed /\ ~ script'.disturbed

NewestMxid(tbl, x) ==
    IF GroupOf(tbl, x) = {} THEN NoMxid ELSE Newest(GroupOf(tbl, x)).mxid

(* docs/casefold_migration.md: "it keeps the most recent association".     *)
(* Whatever mail fails and wherever the script is killed, it leaves the    *)
(* newest local association of every address, as long as nothing is bound  *)
(* or unbound meanwhile.                                                   *)
CasefoldKeepsLocal ==
    [][ScriptRuns =>
         \A x \in Folded : NewestMxid(db'.local, x) = NewestMxid(db.local, x)]_vars

(* casefold_db.py: "we want to avoid deleting rows we can't warn users     *)
(* about".  No user's last row for an address leaves the local table       *)
(* before the mail for that row has gone out, in this run or in an earlier *)
(* one; so that a run that could not send it, or was killed, leaves the    *)
(* row for the next run to find.  It is the local table only: the global   *)
(* one, which lookups read, is written before any mail.                    *)
MailBeforeLocalDelete ==
    [][ScriptRuns =>
         \A r \in db.local :
            (\A q \in GroupOf(db'.local, Casefold[r.address]) : q.mxid # r.mxid)
                => <<r.address, r.mxid>> \in told']_vars

(* A run in which every mail could be sent leaves one row per address,     *)
(* folded unless it stands for an unbind.                                  *)
FoldedWhenDone ==
    script.phase = "done" /\ ~ script.skipped /\ ~ script.disturbed =>
        \A r, q \in db.local :
            /\ Casefold[r.address] = Casefold[q.address] => r = q
            /\ r.address \in Folded \/ r.mxid = NoMxid

(* No address of the group occurs twice, and no other Sydent's.            *)
Plain(x) ==
    \A r, q \in GroupOf(db.global, x) :
        r.origin = "own" /\ (r.address = q.address => r = q)

(* If no spelling of an address was bound twice and nobody else has bound  *)
(* it, the script leaves its newest association in the global table, under *)
(* the hash of its address.  store-invite then gets the answer from        *)
(* getMxid that it got before, unless a spelling was one that lower() of   *)
(* SQLite does not fold as casefold() does: that one is found only now.    *)
CasefoldKeepsGlobal ==
    [][ScriptRuns =>
         \A x \in Folded : Plain(x) =>
            /\ NewestMxid(db'.global, x) = NewestMxid(db.global, x)
            /\ (\A r \in GroupOf(db.global, x) : Lower[r.address] = x)
                  => getMxid(x)' = getMxid(x)
            /\ \A r \in GroupOf(db'.global, x) : r.hash = Hash(r.address, db.pepper)]_vars

(* Once the script is done, all lookup servlets agree on an address: those *)
(* that answer by spelling too, and the hashed one, for the pepper that    *)
(* /hash_details tells, if no spelling was bound twice.  Except that rows  *)
(* of other Sydents which an earlier release stored are not folded by the  *)
(* script, and that the lookups by spelling go on to show them.            *)
LookupsAgree ==
    script.phase = "done" /\ ~ script.disturbed =>
        \A x \in Folded :
            (\A r \in GroupOf(db.global, x) : r.origin = "other" => r.address = x) =>
                /\ BulkLookup(x) = Lookup(x)
                /\ LookupV2("none", HashDetails, x) = Lookup(x)
                /\ Plain(x) => LookupV2("sha256", HashDetails, x) = Lookup(x)

(* docs/casefold_migration.md: "If the script finds a duplicate [...], it  *)
(* keeps the most recent association and deletes the others".              *)
CasefoldKeepsNewest ==
    [][ScriptRuns => \A x \in Folded : getMxid(x)' = getMxid(x)]_vars
=============================================================================
