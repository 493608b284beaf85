--------------------------- MODULE SchemaMigration ---------------------------
(***************************************************************************)
(* The start of Sydent on a database of any age: SqliteDatabase with       *)
(* _createSchema and _upgradeSchema, then the lookup pepper.               *)
(*                                                                         *)
(* The sqlite3 module opens a transaction at the first INSERT only, so     *)
(* that every statement before it, and every later block without one, is   *)
(* committed by itself; the version is set by a statement of its own.  The *)
(* process may be killed between any two of them.                          *)
(***************************************************************************)
EXTENDS Database, Sequences

VARIABLES
    history  \* the rows before the upgrade, and whether a start was killed,
             \* a start failed, or one went through

(* A statement that needs and makes tables, columns and indexes; without   *)
(* IF NOT EXISTS it fails if what it makes is there already.               *)
Statement(does, needs, forbids, adds, drops) ==
    [does |-> does, needs |-> needs, forbids |-> forbids, adds |-> adds,
     drops |-> drops, version |-> 0]

Create(x) == Statement("ddl", {}, {x}, {x}, {})

CreateIfNotExists(x) == Statement("ddl", {}, {}, {x}, {})

(* A mutant of SetSchemaVersion: the version of the next block.            *)
SetSchemaVersionToNext(v) ==
    [Statement("version", {}, {}, {}, {}) EXCEPT !.version = v + 1]

SetSchemaVersion(v) == [Statement("version", {}, {}, {}, {}) EXCEPT !.version = v]

(* From the INSERT of version 1 on there is one transaction: the copy of   *)
(* both tables, their indexes, and the DROP of the old ones.               *)
ToVersion1(rename) ==
    << Statement("ddl", {}, {}, {}, {"local_index"}),
       rename,
       Create("local"),
       Statement("copy", {"old_local"}, {}, {"local_index"}, {"old_local"}),
       SetSchemaVersion(1) >>

Rename(forbids) == Statement("rename", {"local"}, forbids, {"old_local"}, {"local"})

ToVersion5 ==
    << Create("sessions_mtime"),
       SetSchemaVersion(2),
       Create("local.lookup_hash"),
       Create("global.lookup_hash"),
       CreateIfNotExists("lookup_hash_medium"),
       CreateIfNotExists("hashing_metadata"),
       SetSchemaVersion(3),
       Create("accounts"),
       Create("tokens"),
       Create("accepted_terms_urls"),
       Create("accepted_terms_urls_idx"),
       SetSchemaVersion(4),
       Statement("ddl", {}, {}, {}, {"lookup_hash_medium"}),
       Create("global_threepid_lookup_hash"),
       SetSchemaVersion(5) >>

(* A mutant of Upgrade: to be able to go on after a crash it gets rid of   *)
(* what the last attempt has left.                                         *)
UpgradeDroppingOld == ToVersion1(Rename({})) \o ToVersion5

(* _upgradeSchema                                                          *)
Upgrade == ToVersion1(Rename({"old_local"})) \o ToVersion5

(* What every release had: _createSchema                                   *)
Version0 == {"local", "global"}

(* What this release uses                                                  *)
Version5 ==
    {"local", "local_index", "global", "sessions_mtime", "local.lookup_hash",
     "global.lookup_hash", "hashing_metadata", "accounts", "tokens",
     "accepted_terms_urls", "accepted_terms_urls_idx", "global_threepid_lookup_hash"}

TypeOfDatabase ==
    /\ db.version \in 0..5
    /\ db.objects \subseteq Version5 \cup {"old_local", "lookup_hash_medium"}
    /\ \A r \in db.local \cup db.oldLocal : r \in LocalRow
    /\ \A r \in db.global : r \in GlobalRow
    /\ db.seq \in Nat
    /\ db.pepper \in {Pepper, NoPepper}
    /\ process.phase \in {"old", "down", "starting", "serving"}
    /\ process.at \in 0..(Len(Upgrade) + 1)
    /\ clock \in 0..MaxTs

SchemaInit ==
    /\ db = [version |-> 0, objects |-> Version0, local |-> {}, oldLocal |-> {},
             seq |-> 0, global |-> {}, pepper |-> NoPepper]
    /\ process = [phase |-> "old", at |-> 0]
    /\ clock = 0
    /\ history = [rows |-> {}, killed |-> FALSE, failed |-> FALSE, served |-> FALSE]

Down == [phase |-> "down", at |-> 0]

At(i) == [phase |-> "starting", at |-> i]

(* A mutant of FirstStatement: curVer <= v.                                *)
FirstStatementAgain(v) ==
    1 + Max({0} \cup {i \in DOMAIN Upgrade : Upgrade[i].version \in 1..(v - 1)})

(* The first block of _upgradeSchema that curVer asks for                  *)
FirstStatement(v) ==
    1 + Max({0} \cup {i \in DOMAIN Upgrade : Upgrade[i].version \in 1..v})

(* SqliteDatabase.__init__ up to the first statement of _upgradeSchema.    *)
(* The statements of _createSchema all say IF NOT EXISTS.                  *)
Start ==
    /\ process.phase \in {"old", "down"}
    /\ process' = At(FirstStatement(db.version))
    /\ db' = IF db.version = 0 THEN [db EXCEPT !.objects = @ \cup Version0] ELSE db
    /\ history' = IF process.phase = "old" THEN [history EXCEPT !.rows = db.local]
                  ELSE history
    /\ UNCHANGED clock

(* INSERT INTO ... SELECT without the id: the rows are numbered anew, in   *)
(* the order of their ids.                                                 *)
Renumbered(tbl) ==
    {[r EXCEPT !.id = Cardinality({i \in Ids(tbl) : i <= r.id})] : r \in tbl}

Effect(s) ==
    LET d == [db EXCEPT !.objects = (@ \ s.drops) \cup s.adds]
    IN  CASE s.does = "ddl" -> d
          [] s.does = "rename" -> [d EXCEPT !.oldLocal = db.local, !.local = {}]
          [] s.does = "copy" -> [d EXCEPT !.local = Renumbered(db.oldLocal),
                                          !.seq = Cardinality(db.oldLocal),
                                          !.oldLocal = {}]
          [] s.does = "version" -> [d EXCEPT !.version = s.version]

Runs(s) == s.needs \subseteq db.objects /\ s.forbids \cap db.objects = {}

Execute ==
    /\ process.phase = "starting" /\ process.at <= Len(Upgrade)
    /\ Runs(Upgrade[process.at])
    /\ db' = Effect(Upgrade[process.at])
    /\ process' = At(process.at + 1)
    /\ UNCHANGED <<clock, history>>

(* A statement that fails ends the process.                                *)
ExecuteFails ==
    /\ process.phase = "starting" /\ process.at <= Len(Upgrade)
    /\ ~ Runs(Upgrade[process.at])
    /\ process' = Down
    /\ history' = [history EXCEPT !.failed = TRUE]
    /\ UNCHANGED <<db, clock>>

(* A mutant of Rehashed: the rows wait for their next bind.                *)
RehashedLater(tbl, pepper) == tbl

(* _rehash_threepids of the global table                                   *)
Rehashed(tbl, pepper) == {[r EXCEPT !.hash = Hash(r.address, pepper)] : r \in tbl}

(* The rest of Sydent.__init__: store_lookup_pepper is one transaction.    *)
Serve ==
    /\ process.phase = "starting" /\ process.at = Len(Upgrade) + 1
    /\ db' = IF db.pepper # NoPepper THEN db
             ELSE [db EXCEPT !.pepper = Pepper, !.global = Rehashed(@, Pepper)]
    /\ process' = [phase |-> "serving", at |-> 0]
    /\ history' = [history EXCEPT !.served = TRUE]
    /\ UNCHANGED clock

(* Sydent is stopped, or killed in the middle of its start-up.             *)
Kill ==
    /\ process.phase \in {"starting", "serving"}
    /\ process' = Down
    /\ history' = [history EXCEPT !.killed = @ \/ process.phase = "starting"]
    /\ UNCHANGED <<db, clock>>

StartUp == Start \/ Execute \/ ExecuteFails \/ Serve \/ Kill

-----------------------------------------------------------------------------
(* Properties *)

(* _upgradeSchema: wherever the upgrade is killed, and however often it is *)
(* tried again, each association of the old table is in the new one or     *)
(* still in the old one.                                                   *)
NothingLost ==
    process.phase # "old" /\ ~ history.served =>
        \A r \in history.rows : \E q \in db.local \cup db.oldLocal :
            q.address = r.address /\ q.mxid = r.mxid /\ q.ts = r.ts

(* A start only ever fails if one before it was killed: without a crash    *)
(* no statement meets something that it has made already.                  *)
StartsUnlessKilled == history.failed => history.killed

(* Sydent.__init__: "This MUST be run before we start serving requests".   *)
(* While it serves, the schema is complete, nothing is left in the old     *)
(* table, and every global row can be found by the hash of its address     *)
(* with the pepper that /hash_details tells.                               *)
ServedIsComplete ==
    process.phase = "serving" =>
        /\ db.version = 5 /\ Version5 \subseteq db.objects
        /\ db.oldLocal = {}
        /\ \A r \in db.global : r.hash = Hash(r.address, db.pepper)

(* A bind is found at once, also by what came from an older release, if    *)
(* the ids of the old table had no gaps; if they had, the upgrade numbers  *)
(* the rows anew and new binds stay below the last originId for a while.   *)
BoundIsVisible ==
    [][\A a \in Address, m \in Mxid :
         Bind(a, m) /\ Ids(history.rows) = 1..Cardinality(history.rows)
            => getMxid(Casefold[a])' = m]_<<db, process, clock>>

(* retrieveMxidsForHashes: "if there are multiple mxid's for the same      *)
(* lookup hash, only the newest mapping will be returned".                 *)
NewestIsFound ==
    process.phase = "serving" =>
        \A a \in Folded :
            LET rows == {r \in db.global : r.hash = Hash(a, db.pepper)}
            IN  rows # {} => retrieveMxidForHash(Hash(a, db.pepper)) = Newest(rows).mxid
=============================================================================
