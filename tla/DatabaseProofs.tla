---------------------------- MODULE DatabaseProofs ----------------------------
(***************************************************************************)
(* Theorems about the upgrade of the database and about casefold_db.py,    *)
(* for all addresses, spellings, mxids and numbers of associations.        *)
(***************************************************************************)
EXTENDS CasefoldMigration, FiniteSetTheorems, WellFoundedInduction, TLAPS

Object == Version5 \cup {"old_local", "lookup_hash_medium"}

(* The variables as records.  Local tables are finite, as the upgrade      *)
(* counts their rows.                                                      *)
Shape ==
    /\ db \in [version : 0..5, objects : SUBSET Object, local : SUBSET LocalRow,
               oldLocal : SUBSET LocalRow, seq : Nat, global : SUBSET GlobalRow,
               pepper : {Pepper, NoPepper}]
    /\ process \in [phase : {"old", "down", "starting", "serving"}, at : 0..21]
    /\ clock \in 0..MaxTs
    /\ history \in [rows : SUBSET LocalRow, killed : BOOLEAN, failed : BOOLEAN,
                    served : BOOLEAN]
    /\ script \in [phase : {"none", "global", "read", "local", "done"},
                   seen : SUBSET GlobalRow, deltas : SUBSET Delta,
                   skipped : BOOLEAN, disturbed : BOOLEAN]
    /\ told \subseteq Address \X (Mxid \cup {NoMxid})
    /\ IsFiniteSet(db.local) /\ IsFiniteSet(db.oldLocal)

(* No association is newer than the clock, so that of any there is a       *)
(* newest one.                                                             *)
NoneInFuture ==
    /\ \A r \in db.local \cup db.oldLocal \cup db.global \cup script.seen : r.ts <= clock
    /\ \A d \in script.deltas : /\ d.keep.ts <= clock
                                /\ \A r \in d.drop : r.ts <= clock

-----------------------------------------------------------------------------
(* The version on the way to statement i of _upgradeSchema                 *)
VersionAt(i) ==
    CASE i \in 0..5 -> 0
      [] i \in 6..7 -> 1
      [] i \in 8..12 -> 2
      [] i \in 13..17 -> 3
      [] i \in 18..20 -> 4
      [] i \notin 0..20 -> 5

Between(i, low, high, x) == IF i \in low..high THEN {x} ELSE {}

(* What there is on the way to statement i, if nothing went wrong          *)
Made(i) ==
    {"global"} \cup Between(i, 1, 2, "local") \cup Between(i, 3, 4, "old_local")
      \cup Between(i, 4, 21, "local")
      \cup Between(i, 5, 21, "local_index")
      \cup Between(i, 7, 21, "sessions_mtime")
      \cup Between(i, 9, 21, "local.lookup_hash")
      \cup Between(i, 10, 21, "global.lookup_hash")
      \cup Between(i, 11, 18, "lookup_hash_medium")
      \cup Between(i, 12, 21, "hashing_metadata")
      \cup Between(i, 14, 21, "accounts")
      \cup Between(i, 15, 21, "tokens")
      \cup Between(i, 16, 21, "accepted_terms_urls")
      \cup Between(i, 17, 21, "accepted_terms_urls_idx")
      \cup Between(i, 20, 21, "global_threepid_lookup_hash")

(* Where the upgrade stands, or would start again                          *)
Position == IF process.phase = "starting" THEN process.at ELSE FirstStatement(db.version)

(* Once the copy is committed, an upgrade that is tried again has all that *)
(* it needs later, and the old table is gone.                              *)
LeftBehind(i) ==
    i >= 5 => /\ Made(i) \ {"lookup_hash_medium"} \subseteq db.objects
              /\ "old_local" \notin db.objects

(* A table that is not there has no rows; the new local one has none until *)
(* the copy.  The global one stays as it is.                               *)
TablesFit ==
    /\ "global" \in db.objects
    /\ "local" \notin db.objects => db.local = {}
    /\ "old_local" \notin db.objects => db.oldLocal = {}
    /\ process.phase = "starting" /\ process.at = 4 =>
         "local" \in db.objects /\ db.local = {}

PhaseFits ==
    /\ process.phase = "old" =>
         /\ db.version = 0 /\ db.objects = Version0 /\ db.oldLocal = {}
         /\ \A r \in db.local : r.id <= clock
         /\ ~ history.killed /\ ~ history.failed /\ ~ history.served
    /\ process.phase = "starting" =>
         process.at \in 1..21 /\ db.version = VersionAt(process.at)
    /\ process.phase = "serving" => history.served
    /\ history.served => db.version = 5
    /\ history.served <=> db.pepper = Pepper

(* Without a crash the schema is just what the statements have made.       *)
UnkilledFits ==
    ~ history.killed =>
        /\ ~ history.failed
        /\ process.phase = "starting" => db.objects = Made(process.at)
        /\ process.phase \in {"down", "serving"} =>
             history.served /\ db.objects = Version5

HashesFit ==
    db.pepper = Pepper => \A r \in db.global : r.hash = Hash(r.address, Pepper)

(* The script only runs on a database that is upgraded.                    *)
ScriptFits == script.phase # "none" => history.served

SchemaInv ==
    /\ Shape
    /\ NoneInFuture
    /\ PhaseFits
    /\ LeftBehind(Position)
    /\ TablesFit
    /\ UnkilledFits
    /\ HashesFit
    /\ ScriptFits
    /\ NothingLost

-----------------------------------------------------------------------------
(* The statements of _upgradeSchema *)

LEMMA UpgradeIs ==
    /\ Len(Upgrade) = 20
    /\ Upgrade[1] = Statement("ddl", {}, {}, {}, {"local_index"})
    /\ Upgrade[2] = Rename({"old_local"})
    /\ Upgrade[3] = Create("local")
    /\ Upgrade[4] = Statement("copy", {"old_local"}, {}, {"local_index"}, {"old_local"})
    /\ Upgrade[5] = SetSchemaVersion(1)
    /\ Upgrade[6] = Create("sessions_mtime")
    /\ Upgrade[7] = SetSchemaVersion(2)
    /\ Upgrade[8] = Create("local.lookup_hash")
    /\ Upgrade[9] = Create("global.lookup_hash")
    /\ Upgrade[10] = CreateIfNotExists("lookup_hash_medium")
    /\ Upgrade[11] = CreateIfNotExists("hashing_metadata")
    /\ Upgrade[12] = SetSchemaVersion(3)
    /\ Upgrade[13] = Create("accounts")
    /\ Upgrade[14] = Create("tokens")
    /\ Upgrade[15] = Create("accepted_terms_urls")
    /\ Upgrade[16] = Create("accepted_terms_urls_idx")
    /\ Upgrade[17] = SetSchemaVersion(4)
    /\ Upgrade[18] = Statement("ddl", {}, {}, {}, {"lookup_hash_medium"})
    /\ Upgrade[19] = Create("global_threepid_lookup_hash")
    /\ Upgrade[20] = SetSchemaVersion(5)
  BY DEF Upgrade, ToVersion1, ToVersion5

(* What each of them sets and does.                                        *)
LEMMA StatementVersions ==
    \A i \in 1..20 :
        /\ Upgrade[i].version = IF VersionAt(i + 1) = VersionAt(i) THEN 0 ELSE VersionAt(i + 1)
        /\ Upgrade[i].does = CASE i = 2 -> "rename"
                               [] i = 4 -> "copy"
                               [] VersionAt(i + 1) # VersionAt(i) -> "version"
                               [] OTHER -> "ddl"
  BY UpgradeIs DEF VersionAt, Statement, Create, CreateIfNotExists, Rename, SetSchemaVersion

(* What each of them makes and drops, and that it finds what it needs.     *)
LEMMA StatementObjects ==
    \A i \in 1..20 :
        /\ Made(i + 1) = (Made(i) \ Upgrade[i].drops) \cup Upgrade[i].adds
        /\ Upgrade[i].needs \subseteq Made(i)
        /\ Upgrade[i].forbids \cap Made(i) = {}
        /\ Upgrade[i].adds \subseteq Object
        /\ i >= 5 => /\ Upgrade[i].drops \subseteq {"lookup_hash_medium"}
                     /\ "old_local" \notin Upgrade[i].adds
        /\ "local" \in Upgrade[i].drops <=> i = 2
        /\ "old_local" \in Upgrade[i].drops <=> i = 4
        /\ i = 2 => "old_local" \in Upgrade[i].forbids
        /\ i = 3 => "local" \in Upgrade[i].forbids /\ "local" \in Upgrade[i].adds
        /\ "global" \notin Upgrade[i].drops
        /\ "old_local" \in Upgrade[i].adds <=> i = 2
  BY UpgradeIs DEF Made, Between, Object, Version5, Statement, Create, CreateIfNotExists,
                   Rename, SetSchemaVersion

LEMMA MadeEnds == Made(1) = Version0 /\ Made(21) = Version5
  BY DEF Made, Between, Version0, Version5

LEMMA MadeGrows ==
    ASSUME NEW i \in 5..21, NEW j \in 5..i
    PROVE  Made(j) \ {"lookup_hash_medium"} \subseteq Made(i)
  BY DEF Made, Between

(* Max, where the largest element is known                                 *)
LEMMA MaxIs ==
    ASSUME NEW S \in SUBSET Nat, NEW n \in S, \A i \in S : i <= n
    PROVE  Max(S) = n
<1>1. \A i \in S : n >= i
  OBVIOUS
<1>2. /\ Max(S) \in S
      /\ \A i \in S : Max(S) >= i
  BY <1>1 DEF Max
<1>3. \A m \in S : m >= n => m = n
  OBVIOUS
<1> QED
  BY <1>2, <1>3

(* The upgrade starts after the last block that is committed.              *)
LEMMA FirstStatementIs ==
    ASSUME NEW v \in 0..5
    PROVE  FirstStatement(v) = CASE v = 0 -> 1 [] v = 1 -> 6 [] v = 2 -> 8
                                 [] v = 3 -> 13 [] v = 4 -> 18 [] v = 5 -> 21
<1> DEFINE S == {0} \cup {i \in DOMAIN Upgrade : Upgrade[i].version \in 1..v}
           last == CASE v = 0 -> 0 [] v = 1 -> 5 [] v = 2 -> 7
                     [] v = 3 -> 12 [] v = 4 -> 17 [] v = 5 -> 20
<1>1. DOMAIN Upgrade = 1..20
  BY UpgradeIs DEF Upgrade, ToVersion1, ToVersion5
<1>2. S \subseteq 0..20 /\ \A i \in 1..20 : i \in S <=> Upgrade[i].version \in 1..v
  BY <1>1
<1>3. last \in S
  BY <1>1, StatementVersions DEF VersionAt
<1>4. \A i \in S : i <= last
  BY <1>2, StatementVersions DEF VersionAt
<1>5. last \in 0..20
  OBVIOUS
<1>6. Max(S) = last
  <2> HIDE DEF S, last
  <2> QED
    BY <1>2, <1>3, <1>4, MaxIs
<1> QED
  BY <1>6 DEF FirstStatement

LEMMA VersionsFit ==
    /\ \A v \in 0..5 : FirstStatement(v) \in 1..21 /\ VersionAt(FirstStatement(v)) = v
    /\ \A i \in 1..21 : VersionAt(i) \in 0..5 /\ FirstStatement(VersionAt(i)) <= i
    /\ \A i \in 1..21 : VersionAt(i) = 5 <=> i = 21
    /\ \A v \in 1..5 : FirstStatement(v) >= 6
    /\ FirstStatement(0) = 1
  BY FirstStatementIs DEF VersionAt

-----------------------------------------------------------------------------
(* The start-up *)

LEMMA SchemaParts ==
    SchemaInv => /\ Shape /\ NoneInFuture /\ PhaseFits /\ LeftBehind(Position)
                 /\ TablesFit /\ UnkilledFits /\ HashesFit /\ ScriptFits /\ NothingLost
  BY DEF SchemaInv

(* A database that was served once has all that this release uses.         *)
LEMMA ServedFits ==
    ASSUME SchemaInv, history.served
    PROVE  /\ db.version = 5 /\ Position = 21
           /\ process.phase = "starting" => process.at = 21
           /\ Version5 \subseteq db.objects /\ "old_local" \notin db.objects
           /\ db.oldLocal = {}
<1>1. db.version = 5
  BY DEF SchemaInv, PhaseFits
<1>2. process.phase = "starting" => process.at = 21
  BY <1>1, VersionsFit DEF SchemaInv, PhaseFits
<1>3. Position = 21
  BY <1>1, <1>2, FirstStatementIs DEF Position
<1>4. Version5 \subseteq db.objects /\ "old_local" \notin db.objects
  <2>1. Made(21) \ {"lookup_hash_medium"} \subseteq db.objects /\ "old_local" \notin db.objects
    BY <1>3 DEF SchemaInv, LeftBehind
  <2>2. "lookup_hash_medium" \notin Version5
    BY DEF Version5
  <2> QED
    BY <2>1, <2>2, MadeEnds
<1> QED
  BY <1>1, <1>2, <1>3, <1>4 DEF SchemaInv, TablesFit

LEMMA StartStep ==
    ASSUME SchemaInv, Start, UNCHANGED <<script, told>>
    PROVE  SchemaInv'
<1> USE SchemaParts
<1>1. /\ process.phase \in {"old", "down"}
      /\ process' = [phase |-> "starting", at |-> FirstStatement(db.version)]
      /\ db' = IF db.version = 0 THEN [db EXCEPT !.objects = @ \cup Version0] ELSE db
      /\ history' = IF process.phase = "old" THEN [history EXCEPT !.rows = db.local]
                    ELSE history
      /\ clock' = clock
  BY DEF Start, At
<1>2. FirstStatement(db.version) \in 1..21 /\ VersionAt(FirstStatement(db.version)) = db.version
  BY VersionsFit DEF Shape
<1>3. /\ db'.version = db.version /\ db'.local = db.local /\ db'.oldLocal = db.oldLocal
      /\ db'.global = db.global /\ db'.pepper = db.pepper
      /\ db.objects \subseteq db'.objects
      /\ db'.objects \subseteq db.objects \cup Version0
      /\ db.version # 0 => db' = db
      /\ db.version = 0 => Version0 \subseteq db'.objects
  BY <1>1 DEF Shape
<1>4. /\ history'.killed = history.killed /\ history'.failed = history.failed
      /\ history'.served = history.served
      /\ history'.rows = IF process.phase = "old" THEN db.local ELSE history.rows
  BY <1>1 DEF Shape
<1>5. Shape'
  <2>1. Version0 \subseteq Object
    BY DEF Version0, Version5, Object
  <2>2. db' \in [version : 0..5, objects : SUBSET Object, local : SUBSET LocalRow,
               oldLocal : SUBSET LocalRow, seq : Nat, global : SUBSET GlobalRow,
               pepper : {Pepper, NoPepper}]
    BY <1>1, <2>1 DEF Shape
  <2>3. history' \in [rows : SUBSET LocalRow, killed : BOOLEAN, failed : BOOLEAN,
                    served : BOOLEAN]
    BY <1>1 DEF Shape
  <2> QED
    BY <1>1, <1>2, <1>3, <2>2, <2>3 DEF Shape
<1>6. NoneInFuture'
  BY <1>1, <1>3 DEF NoneInFuture
<1>7. PhaseFits'
  BY <1>1, <1>2, <1>3, <1>4 DEF PhaseFits
<1>8. LeftBehind(Position)'
  <2>1. Position' = FirstStatement(db.version) /\ Position = FirstStatement(db.version)
    BY <1>1 DEF Position
  <2>2. db.version = 0 => FirstStatement(db.version) = 1
    BY VersionsFit
  <2> QED
    BY <1>3, <2>1, <2>2 DEF LeftBehind
<1>9. TablesFit'
  <2>1. process'.at # 4
    BY <1>1, FirstStatementIs DEF Shape
  <2>2. "old_local" \notin Version0
    BY DEF Version0
  <2> QED
    BY <1>3, <2>1, <2>2 DEF TablesFit
<1>10. UnkilledFits'
  <2>1. CASE process.phase = "old"
    <3>1. db'.objects = Version0 /\ process'.at = 1
      BY <1>1, <1>3, <2>1, VersionsFit DEF PhaseFits
    <3> QED
      BY <1>1, <1>4, <2>1, <3>1, MadeEnds DEF UnkilledFits
  <2>2. CASE process.phase = "down" /\ ~ history.killed
    <3>1. db.version = 5 /\ db.objects = Version5
      BY <2>2 DEF UnkilledFits, PhaseFits
    <3>2. process'.at = 21 /\ db'.objects = Version5
      BY <1>1, <1>3, <3>1, FirstStatementIs
    <3> QED
      BY <1>1, <1>4, <2>2, <3>2, MadeEnds DEF UnkilledFits
  <2> QED
    BY <1>1, <1>4, <2>1, <2>2 DEF UnkilledFits
<1>11. HashesFit' /\ ScriptFits'
  BY <1>3, <1>4 DEF HashesFit, ScriptFits
<1>12. NothingLost'
  BY <1>1, <1>3, <1>4 DEF NothingLost
<1> QED
  BY <1>5, <1>6, <1>7, <1>8, <1>9, <1>10, <1>11, <1>12 DEF SchemaInv

(* The values that a function has on a finite set                          *)
LEMMA FiniteImage ==
    ASSUME NEW S, IsFiniteSet(S), NEW f, DOMAIN f = S
    PROVE  /\ IsFiniteSet({f[x] : x \in S})
           /\ Cardinality({f[x] : x \in S}) <= Cardinality(S)
           /\ (\A x, y \in S : f[x] = f[y] => x = y)
                 => Cardinality({f[x] : x \in S}) = Cardinality(S)
<1> DEFINE T == {f[x] : x \in S}
           g == [x \in S |-> f[x]]
<1>1. g \in Surjection(S, T)
  BY DEF Surjection
<1>2. (\A x, y \in S : f[x] = f[y] => x = y) => g \in Injection(S, T)
  BY DEF Injection, IsInjective
<1> HIDE DEF g, T
<1> QED
  BY <1>1, <1>2, FS_Surjection DEF T

(* The rows that the copy numbers anew are otherwise the same.             *)
LEMMA RenumberedRows ==
    ASSUME NEW tbl \in SUBSET LocalRow, IsFiniteSet(tbl)
    PROVE  /\ Renumbered(tbl) \subseteq LocalRow
           /\ IsFiniteSet(Renumbered(tbl)) /\ Cardinality(tbl) \in Nat
           /\ \A r \in tbl : \E q \in Renumbered(tbl) :
                 q.address = r.address /\ q.mxid = r.mxid /\ q.ts = r.ts
           /\ \A q \in Renumbered(tbl) : \E r \in tbl :
                 q.address = r.address /\ q.mxid = r.mxid /\ q.ts = r.ts
<1> DEFINE No(r) == Cardinality({i \in Ids(tbl) : i <= r.id})
           New(r) == [r EXCEPT !.id = No(r)]
<1>1. IsFiniteSet(Ids(tbl))
  <2> DEFINE f == [r \in tbl |-> r.id]
  <2>1. Ids(tbl) = {f[r] : r \in tbl} /\ DOMAIN f = tbl
    BY DEF Ids
  <2> HIDE DEF f
  <2> QED
    BY <2>1, FiniteImage
<1>2. \A r \in tbl : No(r) \in Nat
  <2> TAKE r \in tbl
  <2>1. IsFiniteSet({i \in Ids(tbl) : i <= r.id})
    BY <1>1, FS_Subset
  <2> QED
    BY <2>1, FS_CardinalityType
<1>3. Renumbered(tbl) = {New(r) : r \in tbl}
  BY DEF Renumbered
<1>4. IsFiniteSet(Renumbered(tbl))
  <2> DEFINE f == [r \in tbl |-> New(r)]
  <2>1. Renumbered(tbl) = {f[r] : r \in tbl} /\ DOMAIN f = tbl
    BY <1>3
  <2> HIDE DEF f
  <2> QED
    BY <2>1, FiniteImage
<1> HIDE DEF No
<1>5. \A r \in tbl : /\ New(r) \in LocalRow /\ New(r).address = r.address
                     /\ New(r).mxid = r.mxid /\ New(r).ts = r.ts
  BY <1>2 DEF LocalRow
<1> HIDE DEF New
<1> QED
  BY <1>3, <1>4, <1>5, FS_CardinalityType

(* What statement i leaves of the database                                 *)
LEMMA EffectIs ==
    ASSUME Shape, NEW i \in 1..20, db' = Effect(Upgrade[i])
    PROVE  /\ db' \in [version : 0..5, objects : SUBSET Object, local : SUBSET LocalRow,
                       oldLocal : SUBSET LocalRow, seq : Nat, global : SUBSET GlobalRow,
                       pepper : {Pepper, NoPepper}]
           /\ IsFiniteSet(db'.local) /\ IsFiniteSet(db'.oldLocal)
           /\ db'.objects = (db.objects \ Upgrade[i].drops) \cup Upgrade[i].adds
           /\ db'.global = db.global /\ db'.pepper = db.pepper
           /\ db'.version = IF VersionAt(i + 1) = VersionAt(i) THEN db.version
                            ELSE VersionAt(i + 1)
           /\ i \notin {2, 4} => db'.local = db.local /\ db'.oldLocal = db.oldLocal
           /\ i = 2 => db'.local = {} /\ db'.oldLocal = db.local
           /\ i = 4 => db'.local = Renumbered(db.oldLocal) /\ db'.oldLocal = {}
           /\ db'.seq = IF i = 4 THEN Cardinality(db.oldLocal) ELSE db.seq
<1> DEFINE s == Upgrade[i]
           d == [db EXCEPT !.objects = (@ \ s.drops) \cup s.adds]
<1>1. d \in [version : 0..5, objects : SUBSET Object, local : SUBSET LocalRow,
             oldLocal : SUBSET LocalRow, seq : Nat, global : SUBSET GlobalRow,
             pepper : {Pepper, NoPepper}]
  BY StatementObjects DEF Shape
<1>2. /\ d.objects = (db.objects \ s.drops) \cup s.adds
      /\ d.global = db.global /\ d.pepper = db.pepper /\ d.version = db.version
      /\ d.local = db.local /\ d.oldLocal = db.oldLocal /\ d.seq = db.seq
  BY DEF Shape
<1>3. /\ s.does = "ddl" => db' = d
      /\ s.does = "rename" => db' = [d EXCEPT !.oldLocal = db.local, !.local = {}]
      /\ s.does = "copy" => db' = [d EXCEPT !.local = Renumbered(db.oldLocal),
                                            !.seq = Cardinality(db.oldLocal),
                                            !.oldLocal = {}]
      /\ s.does = "version" => db' = [d EXCEPT !.version = s.version]
  BY DEF Effect
<1>4. /\ Renumbered(db.oldLocal) \subseteq LocalRow /\ IsFiniteSet(Renumbered(db.oldLocal))
      /\ Cardinality(db.oldLocal) \in Nat /\ IsFiniteSet({})
      /\ db.local \subseteq LocalRow /\ db.oldLocal \subseteq LocalRow
      /\ IsFiniteSet(db.local) /\ IsFiniteSet(db.oldLocal)
  BY RenumberedRows, FS_EmptySet DEF Shape
<1>5. /\ s.version = IF VersionAt(i + 1) = VersionAt(i) THEN 0 ELSE VersionAt(i + 1)
      /\ VersionAt(i + 1) \in 0..5
      /\ i = 2 <=> s.does = "rename"
      /\ i = 4 <=> s.does = "copy"
      /\ s.does \in {"ddl", "rename", "copy", "version"}
      /\ s.does = "version" <=> VersionAt(i + 1) # VersionAt(i)
  BY StatementVersions DEF VersionAt
<1> HIDE DEF s, d
<1>6. CASE s.does = "ddl"
  BY <1>1, <1>2, <1>3, <1>4, <1>5, <1>6 DEF s
<1>7. CASE s.does = "rename"
  BY <1>1, <1>2, <1>3, <1>4, <1>5, <1>7 DEF s
<1>8. CASE s.does = "copy"
  BY <1>1, <1>2, <1>3, <1>4, <1>5, <1>8 DEF s
<1>9. CASE s.does = "version"
  BY <1>1, <1>2, <1>3, <1>4, <1>5, <1>9 DEF s
<1> QED
  BY <1>5, <1>6, <1>7, <1>8, <1>9

LEMMA ExecuteStep ==
    ASSUME SchemaInv, Execute, UNCHANGED <<script, told>>
    PROVE  SchemaInv'
<1> USE SchemaParts
<1> DEFINE i == process.at
           s == Upgrade[i]
<1>1. /\ process.phase = "starting" /\ i \in 1..20 /\ db.version = VersionAt(i)
      /\ s.needs \subseteq db.objects /\ s.forbids \cap db.objects = {}
      /\ db' = Effect(s)
      /\ process' = [phase |-> "starting", at |-> i + 1]
      /\ clock' = clock /\ history' = history /\ script' = script /\ told' = told
  BY UpgradeIs DEF Execute, Runs, At, PhaseFits
<1>2. /\ db' \in [version : 0..5, objects : SUBSET Object, local : SUBSET LocalRow,
                  oldLocal : SUBSET LocalRow, seq : Nat, global : SUBSET GlobalRow,
                  pepper : {Pepper, NoPepper}]
      /\ IsFiniteSet(db'.local) /\ IsFiniteSet(db'.oldLocal)
      /\ db'.objects = (db.objects \ s.drops) \cup s.adds
      /\ db'.global = db.global /\ db'.pepper = db.pepper
      /\ db'.version = IF VersionAt(i + 1) = VersionAt(i) THEN db.version ELSE VersionAt(i + 1)
      /\ i \notin {2, 4} => db'.local = db.local /\ db'.oldLocal = db.oldLocal
      /\ i = 2 => db'.local = {} /\ db'.oldLocal = db.local
      /\ i = 4 => db'.local = Renumbered(db.oldLocal) /\ db'.oldLocal = {}
  BY <1>1, EffectIs
<1>3. /\ Made(i + 1) = (Made(i) \ s.drops) \cup s.adds
      /\ i >= 5 => s.drops \subseteq {"lookup_hash_medium"} /\ "old_local" \notin s.adds
      /\ "local" \in s.drops <=> i = 2
      /\ "old_local" \in s.drops <=> i = 4
      /\ i = 2 => "old_local" \in s.forbids
      /\ i = 3 => "local" \in s.forbids /\ "local" \in s.adds
      /\ "global" \notin s.drops
      /\ "old_local" \in s.adds <=> i = 2
  BY <1>1, StatementObjects
<1> HIDE DEF i, s
<1>4. i # 21 /\ i + 1 \in 1..21 /\ history.served = FALSE
  <2>1. VersionAt(i) # 5
    BY <1>1, VersionsFit
  <2> QED
    BY <1>1, <2>1 DEF PhaseFits, Shape
<1>5. Shape'
  BY <1>1, <1>2, <1>4 DEF Shape
<1>6. \A r \in db'.local \cup db'.oldLocal :
         \E q \in db.local \cup db.oldLocal : q.ts = r.ts
  <2>1. \A q \in Renumbered(db.oldLocal) : \E r \in db.oldLocal : q.ts = r.ts
    BY RenumberedRows DEF Shape
  <2> QED
    BY <1>2, <2>1
<1>7. NoneInFuture'
  BY <1>1, <1>2, <1>6 DEF NoneInFuture
<1>8. PhaseFits'
  <2>1. db'.version = VersionAt(i + 1)
    BY <1>1, <1>2
  <2> QED
    BY <1>1, <1>2, <1>4, <2>1 DEF PhaseFits
<1>9. LeftBehind(Position)'
  <2>1. Position = i /\ Position' = i + 1
    BY <1>1 DEF Position, i
  <2>2. CASE i >= 5
    BY <1>2, <1>3, <2>1, <2>2 DEF LeftBehind
  <2>3. CASE i = 4
    <3>1. /\ s = Statement("copy", {"old_local"}, {}, {"local_index"}, {"old_local"})
          /\ Made(5) = {"global", "local", "local_index"}
      BY <2>3, UpgradeIs DEF Made, Between, s
    <3>2. "global" \in db.objects /\ "local" \in db.objects
      BY <1>1, <2>3 DEF TablesFit, i
    <3> QED
      BY <1>2, <2>1, <2>3, <3>1, <3>2 DEF LeftBehind, Statement
  <2>4. CASE i < 4
    BY <1>1, <2>1, <2>4 DEF LeftBehind
  <2> QED
    BY <1>1, <2>2, <2>3, <2>4
<1>10. TablesFit'
  <2>1. "global" \in db'.objects
    BY <1>2, <1>3 DEF TablesFit
  <2>2. "local" \notin db'.objects => db'.local = {}
    <3>1. CASE i \notin {2, 4}
      BY <1>2, <1>3, <3>1 DEF TablesFit
    <3>2. CASE i = 4
      BY <1>1, <1>2, <1>3, <3>2 DEF TablesFit, i
    <3> QED
      BY <1>2, <3>1, <3>2
  <2>3. "old_local" \notin db'.objects => db'.oldLocal = {}
    <3>1. CASE i \notin {2, 4}
      BY <1>2, <1>3, <3>1 DEF TablesFit
    <3>2. CASE i = 2
      BY <1>2, <1>3, <3>2
    <3> QED
      BY <1>2, <3>1, <3>2
  <2>4. i = 3 => "local" \in db'.objects /\ db'.local = {}
    BY <1>1, <1>2, <1>3 DEF TablesFit
  <2>5. process'.at = 4 => i = 3
    BY <1>1
  <2> QED
    BY <2>1, <2>2, <2>3, <2>4, <2>5 DEF TablesFit
<1>11. UnkilledFits'
  BY <1>1, <1>2, <1>3 DEF UnkilledFits, i
<1>12. HashesFit' /\ ScriptFits'
  BY <1>1, <1>2 DEF HashesFit, ScriptFits
<1>13. NothingLost'
  <2> SUFFICES ASSUME NEW r \in history.rows
               PROVE  \E q \in db'.local \cup db'.oldLocal :
                         q.address = r.address /\ q.mxid = r.mxid /\ q.ts = r.ts
    BY <1>1 DEF NothingLost
  <2>1. PICK q \in db.local \cup db.oldLocal :
           q.address = r.address /\ q.mxid = r.mxid /\ q.ts = r.ts
    BY <1>1, <1>4 DEF NothingLost
  <2>2. CASE i \notin {2, 4}
    BY <1>2, <2>1, <2>2
  <2>3. CASE i = 2
    <3>1. db.oldLocal = {}
      BY <1>1, <1>3, <2>3 DEF TablesFit
    <3> QED
      BY <1>2, <2>1, <2>3, <3>1
  <2>4. CASE i = 4
    <3>1. q \in db.oldLocal
      BY <1>1, <2>1, <2>4 DEF TablesFit, i
    <3>2. \E p \in Renumbered(db.oldLocal) :
             p.address = q.address /\ p.mxid = q.mxid /\ p.ts = q.ts
      BY <3>1, RenumberedRows DEF Shape
    <3> QED
      BY <1>2, <2>1, <2>4, <3>2
  <2> QED
    BY <2>2, <2>3, <2>4
<1> QED
  BY <1>5, <1>7, <1>8, <1>9, <1>10, <1>11, <1>12, <1>13 DEF SchemaInv

(* Where the process is stopped, the next start finds at least what the    *)
(* version promises.                                                       *)
LEMMA StoppedFits ==
    ASSUME SchemaInv, process' = Down, db' = db
    PROVE  /\ process' \in [phase : {"old", "down", "starting", "serving"}, at : 0..21]
           /\ LeftBehind(Position)'
           /\ process'.phase = "down" /\ TablesFit'
<1> USE SchemaParts
<1>1. process'.phase = "down" /\ process'.at = 0
  BY DEF Down
<1>2. Position' = FirstStatement(db.version)
  BY <1>1 DEF Position
<1>3. LeftBehind(FirstStatement(db.version))
  <2>1. CASE process.phase = "starting"
    <3> DEFINE i == process.at
               j == FirstStatement(db.version)
    <3>1. i \in 1..21 /\ j \in 1..21 /\ j <= i
      BY <2>1, VersionsFit DEF PhaseFits, Shape
    <3>2. LeftBehind(i)
      BY <2>1 DEF Position
    <3> HIDE DEF i, j
    <3>3. CASE j >= 5
      <4>1. Made(j) \ {"lookup_hash_medium"} \subseteq Made(i)
        BY <3>1, <3>3, MadeGrows
      <4> QED
        BY <3>1, <3>2, <3>3, <4>1 DEF LeftBehind, j
    <3> QED
      BY <3>3 DEF LeftBehind, j
  <2> QED
    BY <2>1 DEF Position
<1>4. LeftBehind(Position)'
  BY <1>2, <1>3 DEF LeftBehind
<1>5. process' \in [phase : {"old", "down", "starting", "serving"}, at : 0..21]
  BY DEF Down
<1>6. TablesFit'
  BY <1>1 DEF TablesFit
<1> QED
  BY <1>1, <1>4, <1>5, <1>6

LEMMA StopStep ==
    ASSUME SchemaInv, Kill \/ ExecuteFails, UNCHANGED <<script, told>>
    PROVE  SchemaInv'
<1> USE SchemaParts
<1>1. /\ process' = Down /\ process.phase \in {"starting", "serving"}
      /\ db' = db /\ clock' = clock /\ script' = script /\ told' = told
  BY DEF Kill, ExecuteFails
<1>2. /\ process' \in [phase : {"old", "down", "starting", "serving"}, at : 0..21]
      /\ LeftBehind(Position)' /\ process'.phase = "down" /\ TablesFit'
  BY <1>1, StoppedFits
<1>3. /\ history' \in [rows : SUBSET LocalRow, killed : BOOLEAN, failed : BOOLEAN,
                       served : BOOLEAN]
      /\ history'.rows = history.rows /\ history'.served = history.served
      /\ \/ history'.killed
         \/ /\ process.phase = "serving" /\ history'.killed = history.killed
            /\ history'.failed = history.failed
  <2>1. CASE Kill
    BY <2>1 DEF Kill, Shape
  <2>2. CASE ExecuteFails
    <3>1. /\ process.phase = "starting" /\ process.at \in 1..20
          /\ ~ Runs(Upgrade[process.at])
      BY <2>2, UpgradeIs DEF ExecuteFails, PhaseFits
    <3>2. db.objects # Made(process.at)
      BY <3>1, StatementObjects DEF Runs
    <3>3. history.killed
      BY <3>1, <3>2 DEF UnkilledFits
    <3>4. history' = [history EXCEPT !.failed = TRUE]
      BY <2>2 DEF ExecuteFails
    <3> QED
      BY <3>3, <3>4 DEF Shape
  <2> QED
    BY <2>1, <2>2
<1>4. Shape'
  BY <1>1, <1>2, <1>3 DEF Shape
<1>5. PhaseFits'
  BY <1>1, <1>2, <1>3 DEF PhaseFits
<1>6. UnkilledFits'
  BY <1>1, <1>2, <1>3 DEF UnkilledFits
<1>7. NoneInFuture' /\ HashesFit'
  BY <1>1 DEF NoneInFuture, HashesFit
<1>8. ScriptFits' /\ NothingLost'
  BY <1>1, <1>3 DEF ScriptFits, NothingLost
<1> QED
  BY <1>2, <1>4, <1>5, <1>6, <1>7, <1>8 DEF SchemaInv

(* store_lookup_pepper rehashes every row.                                 *)
LEMMA RehashedRows ==
    ASSUME NEW tbl \in SUBSET GlobalRow
    PROVE  /\ Rehashed(tbl, Pepper) \subseteq GlobalRow
           /\ \A r \in Rehashed(tbl, Pepper) :
                /\ r.hash = Hash(r.address, Pepper)
                /\ \E q \in tbl : r.ts = q.ts
<1> SUFFICES ASSUME NEW q \in tbl
             PROVE  LET r == [q EXCEPT !.hash = Hash(q.address, Pepper)]
                    IN  /\ r \in GlobalRow /\ r.hash = Hash(r.address, Pepper) /\ r.ts = q.ts
  BY DEF Rehashed
<1>1. q \in GlobalRow
  OBVIOUS
<1>2. Hash(q.address, Pepper) \in Address \X {Pepper}
  BY <1>1 DEF Hash, GlobalRow
<1> QED
  BY <1>1, <1>2 DEF GlobalRow

LEMMA ServeStep ==
    ASSUME SchemaInv, Serve, UNCHANGED <<script, told>>
    PROVE  SchemaInv'
<1> USE SchemaParts
<1>1. /\ process.phase = "starting" /\ process.at = 21
      /\ db' = IF db.pepper # NoPepper THEN db
               ELSE [db EXCEPT !.pepper = Pepper, !.global = Rehashed(@, Pepper)]
      /\ process' = [phase |-> "serving", at |-> 0]
      /\ history' = [history EXCEPT !.served = TRUE]
      /\ clock' = clock /\ script' = script /\ told' = told
  BY UpgradeIs DEF Serve
<1>2. db.version = 5 /\ Position = 21 /\ Position' = FirstStatement(db'.version)
  BY <1>1, VersionsFit DEF PhaseFits, Position
<1>3. /\ history' \in [rows : SUBSET LocalRow, killed : BOOLEAN, failed : BOOLEAN,
                       served : BOOLEAN]
      /\ history'.rows = history.rows /\ history'.served
      /\ history'.killed = history.killed /\ history'.failed = history.failed
  BY <1>1 DEF Shape
<1>4. /\ db' \in [version : 0..5, objects : SUBSET Object, local : SUBSET LocalRow,
                  oldLocal : SUBSET LocalRow, seq : Nat, global : SUBSET GlobalRow,
                  pepper : {Pepper, NoPepper}]
      /\ db'.version = db.version /\ db'.objects = db.objects /\ db'.local = db.local
      /\ db'.oldLocal = db.oldLocal /\ db'.pepper = Pepper
      /\ db'.global = db.global \/ db'.global = Rehashed(db.global, Pepper)
      /\ db.pepper # Pepper => db'.global = Rehashed(db.global, Pepper)
  BY <1>1, RehashedRows, DatabaseAssumption DEF Shape
<1>5. Shape'
  BY <1>1, <1>3, <1>4 DEF Shape
<1>6. NoneInFuture'
  <2>1. \A r \in db'.global : \E q \in db.global : r.ts = q.ts
    BY <1>4, RehashedRows DEF Shape
  <2> QED
    BY <1>1, <1>4, <2>1 DEF NoneInFuture
<1>7. PhaseFits'
  BY <1>1, <1>2, <1>3, <1>4 DEF PhaseFits
<1>8. LeftBehind(Position)'
  <2>1. Position' = Position
    BY <1>2, <1>4, FirstStatementIs
  <2> QED
    BY <1>4, <2>1 DEF LeftBehind
<1>9. TablesFit' /\ UnkilledFits'
  BY <1>1, <1>3, <1>4, MadeEnds DEF TablesFit, UnkilledFits
<1>10. HashesFit'
  <2>1. CASE db.pepper = Pepper
    BY <1>1, <2>1, DatabaseAssumption DEF HashesFit
  <2>2. CASE db.pepper # Pepper
    BY <1>4, <2>2, RehashedRows DEF HashesFit, Shape
  <2> QED
    BY <2>1, <2>2
<1>11. ScriptFits' /\ NothingLost'
  BY <1>1, <1>3, <1>4 DEF ScriptFits, NothingLost
<1> QED
  BY <1>5, <1>6, <1>7, <1>8, <1>9, <1>10, <1>11 DEF SchemaInv

-----------------------------------------------------------------------------
(* Newest rows *)

LEMMA LeastOf ==
    ASSUME NEW S \in SUBSET Nat, S # {}
    PROVE  \E k \in S : \A i \in S : k <= i
<1>1. PICK k \in S : \A i \in S : ~ (<<i, k>> \in OpToRel(<, Nat))
  BY NatLessThanWellFounded, WFMin
<1>2. \A i \in S : ~ (i < k)
  BY <1>1 DEF OpToRel
<1> QED
  BY <1>2

LEMMA GreatestOf ==
    ASSUME NEW S \in SUBSET Nat, S # {}, NEW n \in Nat, \A i \in S : i <= n
    PROVE  \E k \in S : \A i \in S : i <= k
<1> DEFINE U == {m \in Nat : \A i \in S : i <= m}
<1>1. PICK k \in U : \A m \in U : k <= m
  BY LeastOf
<1>2. PICK j \in S : TRUE
  OBVIOUS
<1>3. ASSUME k \notin S PROVE FALSE
  <2>1. k \in Nat /\ \A i \in S : i \in Nat /\ i <= k /\ i # k
    BY <1>3
  <2>2. k - 1 \in Nat
    BY <1>2, <2>1
  <2>3. \A i \in S : i <= k - 1
    BY <2>1, <2>2
  <2> QED
    BY <1>1, <2>1, <2>2, <2>3
<1> QED
  BY <1>3

LEMMA NewestOf ==
    ASSUME NEW rows, rows # {}, NEW n \in Nat, \A r \in rows : r.ts \in Nat /\ r.ts <= n
    PROVE  /\ Newest(rows) \in rows
           /\ \A q \in rows : q.ts <= Newest(rows).ts
<1> DEFINE S == {r.ts : r \in rows}
<1>0. S \in SUBSET Nat /\ S # {} /\ \A i \in S : i <= n
  OBVIOUS
<1>1. PICK k \in S : \A i \in S : i <= k
  <2> HIDE DEF S
  <2> QED
    BY <1>0, GreatestOf
<1>2. \E r \in rows : \A q \in rows : q.ts <= r.ts
  BY <1>1
<1> QED
  BY <1>2 DEF Newest

LEMMA CurrentOf ==
    ASSUME Shape, NoneInFuture, script.deltas # {}
    PROVE  Current \in script.deltas
<1> DEFINE S == {d.keep.ts : d \in script.deltas}
<1>1. /\ \A d \in script.deltas : d.keep.ts \in Nat /\ d.keep.ts <= clock
      /\ clock \in Nat
  BY DatabaseAssumption DEF Shape, NoneInFuture, Delta, LocalRow
<1>2. S \in SUBSET Nat /\ S # {} /\ \A i \in S : i <= clock
  BY <1>1
<1>3. PICK k \in S : \A i \in S : i <= k
  <2> HIDE DEF S
  <2> QED
    BY <1>1, <1>2, GreatestOf
<1>4. \E d \in script.deltas : \A e \in script.deltas : e.keep.ts <= d.keep.ts
  BY <1>3
<1> QED
  BY <1>4 DEF Current

(* What LocalPeer.pushUpdates leaves was there, or is a row of the local   *)
(* table, folded and hashed.                                               *)
LEMMA PushedRows ==
    ASSUME NEW tbl \in SUBSET GlobalRow, NEW local \in SUBSET LocalRow
    PROVE  /\ Pushed(tbl, local, Pepper) \subseteq GlobalRow
           /\ \A r \in Pushed(tbl, local, Pepper) :
                \/ r \in tbl
                \/ /\ r.address \in Folded /\ r.hash = Hash(r.address, Pepper)
                   /\ r.origin = "own"
                   /\ \E x \in local : /\ r.ts = x.ts /\ r.originId = x.id
                                       /\ r.address = Casefold[x.address] /\ r.mxid = x.mxid
<1> DEFINE Row(x) == [address |-> Casefold[x.address], mxid |-> x.mxid, ts |-> x.ts,
                      origin |-> "own", originId |-> x.id,
                      hash |-> Hash(Casefold[x.address], Pepper)]
<1>1. \A r \in Pushed(tbl, local, Pepper) :
         r \in tbl \/ \E x \in local : x.mxid # NoMxid /\ r = Row(x)
  BY DEF Pushed
<1>2. ASSUME NEW x \in local, x.mxid # NoMxid
      PROVE  /\ Row(x) \in GlobalRow /\ Row(x).address \in Folded
             /\ Row(x).hash = Hash(Row(x).address, Pepper) /\ Row(x).origin = "own"
             /\ Row(x).ts = x.ts /\ Row(x).originId = x.id
             /\ Row(x).address = Casefold[x.address] /\ Row(x).mxid = x.mxid
  <2>1. x \in LocalRow /\ Casefold[x.address] \in Address /\ Casefold[x.address] \in Folded
    BY DatabaseAssumption DEF LocalRow, Folded
  <2>2. Hash(Casefold[x.address], Pepper) \in Address \X {Pepper}
    BY <2>1 DEF Hash
  <2> QED
    BY <1>2, <2>1, <2>2 DEF LocalRow, GlobalRow, Hash
<1> HIDE DEF Row
<1> QED
  BY <1>1, <1>2

-----------------------------------------------------------------------------
(* What Sydent and the script write *)

(* A step that writes to the tables of a database that was served.         *)
LEMMA ServedStep ==
    ASSUME SchemaInv, history.served, Shape', NoneInFuture', HashesFit',
           process' = process, history' = history,
           db'.version = db.version, db'.objects = db.objects,
           db'.pepper = db.pepper, db'.oldLocal = db.oldLocal
    PROVE  SchemaInv'
<1> USE SchemaParts
<1>1. /\ db.version = 5 /\ Position = 21 /\ process.phase = "starting" => process.at = 21
      /\ Version5 \subseteq db.objects
  BY ServedFits
<1>2. process.phase # "old"
  BY DEF PhaseFits
<1>3. PhaseFits'
  BY <1>2 DEF PhaseFits
<1>4. LeftBehind(Position)'
  BY DEF LeftBehind, Position
<1>5. TablesFit'
  <2>1. "local" \in db.objects
    BY <1>1 DEF Version5
  <2>2. ~ (process'.phase = "starting" /\ process'.at = 4)
    BY ServedFits
  <2> QED
    BY <2>1, <2>2 DEF TablesFit
<1>6. UnkilledFits' /\ ScriptFits' /\ NothingLost'
  BY DEF UnkilledFits, ScriptFits, NothingLost
<1> QED
  BY <1>3, <1>4, <1>5, <1>6 DEF SchemaInv

LEMMA ScriptBesides ==
    ASSUME Shape, script' = IF script.phase \in {"none", "done"} THEN NoScript
                            ELSE [script EXCEPT !.disturbed = TRUE]
    PROVE  /\ script' \in [phase : {"none", "global", "read", "local", "done"},
                           seen : SUBSET GlobalRow, deltas : SUBSET Delta,
                           skipped : BOOLEAN, disturbed : BOOLEAN]
           /\ script'.seen \subseteq script.seen /\ script'.deltas \subseteq script.deltas
           /\ script'.phase \in {script.phase, "none"}
           /\ script'.phase # "none" => script'.disturbed
  BY DEF Shape, NoScript

LEMMA ReplacedRows ==
    ASSUME Shape, NEW a \in Address, NEW m \in Mxid \cup {NoMxid}
    PROVE  /\ Replaced(a, m) \subseteq LocalRow /\ IsFiniteSet(Replaced(a, m))
           /\ \A x \in Replaced(a, m) :
                \/ x \in db.local /\ x.address # a
                \/ x = [id |-> db.seq + 1, address |-> a, mxid |-> m, ts |-> clock + 1]
<1> DEFINE new == [id |-> db.seq + 1, address |-> a, mxid |-> m, ts |-> clock + 1]
<1>1. new \in LocalRow
  BY DatabaseAssumption DEF Shape, LocalRow
<1>2. Replaced(a, m) = (db.local \ RowsOf(db.local, a)) \cup {new}
  BY DEF Replaced
<1> HIDE DEF new
<1>3. IsFiniteSet(db.local \ RowsOf(db.local, a))
  BY FS_Subset DEF Shape
<1>4. IsFiniteSet(Replaced(a, m))
  BY <1>2, <1>3, FS_AddElement
<1> QED
  BY <1>1, <1>2, <1>4 DEF Shape, RowsOf, new

(* Where the clock moves on, what was not in the future is not now.        *)
LEMMA ClockStep ==
    ASSUME Shape, NoneInFuture, clock' = clock + 1, clock < MaxTs,
           script'.seen \subseteq script.seen, script'.deltas \subseteq script.deltas,
           \A r \in db'.local \cup db'.oldLocal \cup db'.global :
              \/ r.ts = clock + 1
              \/ r.ts \in {q.ts : q \in db.local \cup db.oldLocal \cup db.global}
    PROVE  NoneInFuture' /\ clock' \in 0..MaxTs
<1>1. clock \in Nat /\ clock' \in 0..MaxTs
  BY DatabaseAssumption DEF Shape
<1>2. \A t \in Nat : (t <= clock => t <= clock') /\ clock' <= clock'
  BY <1>1
<1>3. /\ \A r \in db.local \cup db.oldLocal \cup db.global \cup script.seen :
            r.ts \in Nat /\ r.ts <= clock
      /\ \A d \in script.deltas : /\ d.keep.ts \in Nat /\ d.keep.ts <= clock
                                  /\ \A r \in d.drop : r.ts \in Nat /\ r.ts <= clock
  BY DEF Shape, NoneInFuture, LocalRow, GlobalRow, Delta
<1>4. \A r \in db'.local \cup db'.oldLocal \cup db'.global \cup script'.seen : r.ts <= clock'
  BY <1>2, <1>3
<1>5. \A d \in script'.deltas : d.keep.ts <= clock' /\ \A r \in d.drop : r.ts <= clock'
  BY <1>2, <1>3
<1> QED
  BY <1>1, <1>4, <1>5 DEF NoneInFuture

LEMMA WriteLocalStep ==
    ASSUME SchemaInv, NEW a \in Address, NEW m \in Mxid \cup {NoMxid}, WriteLocal(a, m),
           script' = IF script.phase \in {"none", "done"} THEN NoScript
                     ELSE [script EXCEPT !.disturbed = TRUE],
           UNCHANGED <<history, told>>
    PROVE  SchemaInv'
<1> USE SchemaParts
<1>1. /\ process.phase = "serving" /\ clock < MaxTs
      /\ db' = [db EXCEPT !.local = Replaced(a, m), !.seq = @ + 1,
                          !.global = Pushed(@, Replaced(a, m), db.pepper)]
      /\ clock' = clock + 1 /\ process' = process
  BY DEF WriteLocal
<1>2. history.served /\ db.pepper = Pepper
  BY <1>1 DEF PhaseFits
<1>3. /\ Replaced(a, m) \subseteq LocalRow /\ IsFiniteSet(Replaced(a, m))
      /\ \A x \in Replaced(a, m) : x.ts = clock + 1 \/ x \in db.local
  BY ReplacedRows
<1>4. /\ Pushed(db.global, Replaced(a, m), Pepper) \subseteq GlobalRow
      /\ \A r \in Pushed(db.global, Replaced(a, m), Pepper) :
           \/ r \in db.global
           \/ /\ r.hash = Hash(r.address, Pepper)
              /\ \E x \in Replaced(a, m) : r.ts = x.ts
  BY <1>3, PushedRows DEF Shape
<1>5. /\ db' \in [version : 0..5, objects : SUBSET Object, local : SUBSET LocalRow,
                  oldLocal : SUBSET LocalRow, seq : Nat, global : SUBSET GlobalRow,
                  pepper : {Pepper, NoPepper}]
      /\ db'.version = db.version /\ db'.objects = db.objects
      /\ db'.oldLocal = db.oldLocal /\ db'.pepper = Pepper
      /\ db'.local = Replaced(a, m)
      /\ db'.global = Pushed(db.global, Replaced(a, m), Pepper)
  <2> DEFINE L == Replaced(a, m)
             G == Pushed(db.global, L, Pepper)
  <2>1. db' = [db EXCEPT !.local = L, !.seq = db.seq + 1, !.global = G]
    BY <1>1, <1>2
  <2>2. L \in SUBSET LocalRow /\ G \in SUBSET GlobalRow
    BY <1>3, <1>4
  <2> HIDE DEF L, G
  <2>3. db.pepper = Pepper
    BY <1>2
  <2>4. db.seq + 1 \in Nat
    BY DEF Shape
  <2>5. Shape
    OBVIOUS
  <2> HIDE SchemaParts
  <2>6. /\ db' \in [version : 0..5, objects : SUBSET Object, local : SUBSET LocalRow,
                    oldLocal : SUBSET LocalRow, seq : Nat, global : SUBSET GlobalRow,
                    pepper : {Pepper, NoPepper}]
        /\ db'.version = db.version /\ db'.objects = db.objects
        /\ db'.oldLocal = db.oldLocal /\ db'.pepper = Pepper
        /\ db'.local = L /\ db'.global = G
    BY <2>1, <2>2, <2>3, <2>4, <2>5 DEF Shape
  <2> QED
    BY <2>6 DEF L, G
<1>6. /\ script' \in [phase : {"none", "global", "read", "local", "done"},
                      seen : SUBSET GlobalRow, deltas : SUBSET Delta,
                      skipped : BOOLEAN, disturbed : BOOLEAN]
      /\ script'.seen \subseteq script.seen /\ script'.deltas \subseteq script.deltas
  BY ScriptBesides
<1>7. NoneInFuture' /\ clock' \in 0..MaxTs
  <2>1. \A r \in db'.local \cup db'.oldLocal \cup db'.global :
           r.ts = clock + 1 \/ r.ts \in {q.ts : q \in db.local \cup db.oldLocal \cup db.global}
    BY <1>3, <1>4, <1>5
  <2> QED
    BY <1>1, <1>6, <2>1, ClockStep
<1>8. Shape'
  <2>1. IsFiniteSet(db'.local) /\ IsFiniteSet(db'.oldLocal)
    BY <1>3, <1>5 DEF Shape
  <2> QED
    BY <1>1, <1>5, <1>6, <1>7, <2>1 DEF Shape
<1>9. HashesFit'
  BY <1>2, <1>4, <1>5 DEF HashesFit
<1> QED
  BY <1>1, <1>2, <1>5, <1>7, <1>8, <1>9, ServedStep

(* An unbind that finds nothing pushes what is there.                      *)
PushesOnly ==
    /\ process.phase = "serving" /\ UNCHANGED <<process, clock>>
    /\ db' = [db EXCEPT !.global = Pushed(@, db.local, db.pepper)]

LEMMA UnbindIs ==
    ASSUME NEW a, NEW m, Unbind(a, m)
    PROVE  WriteLocal(Casefold[a], NoMxid) \/ PushesOnly
  BY DEF Unbind, PushesOnly

LEMMA PushesIs ==
    ASSUME SchemaInv, PushesOnly
    PROVE  /\ history.served /\ db.pepper = Pepper
           /\ db' = [db EXCEPT !.global = Pushed(db.global, db.local, Pepper)]
           /\ db'.version = db.version /\ db'.objects = db.objects
           /\ db'.oldLocal = db.oldLocal /\ db'.pepper = db.pepper
           /\ db'.local = db.local /\ db'.seq = db.seq
           /\ db'.global = Pushed(db.global, db.local, Pepper)
           /\ db'.global \subseteq GlobalRow
<1>1. history.served /\ db.pepper = Pepper /\ Shape
  BY SchemaParts DEF PushesOnly, PhaseFits
<1> DEFINE G == Pushed(db.global, db.local, Pepper)
<1>2. db' = [db EXCEPT !.global = G]
  BY <1>1 DEF PushesOnly
<1>3. G \subseteq GlobalRow
  BY <1>1, PushedRows DEF Shape
<1> HIDE DEF G
<1>4. /\ db'.version = db.version /\ db'.objects = db.objects
      /\ db'.oldLocal = db.oldLocal /\ db'.pepper = db.pepper
      /\ db'.local = db.local /\ db'.seq = db.seq /\ db'.global = G
  BY <1>1, <1>2 DEF Shape
<1> QED
  BY <1>1, <1>2, <1>3, <1>4 DEF G

LEMMA PushesStep ==
    ASSUME SchemaInv, PushesOnly,
           script' = IF script.phase \in {"none", "done"} THEN NoScript
                     ELSE [script EXCEPT !.disturbed = TRUE],
           UNCHANGED <<history, told>>
    PROVE  SchemaInv'
<1> USE SchemaParts
<1> DEFINE G == Pushed(db.global, db.local, Pepper)
<1>1. /\ history.served /\ db.pepper = Pepper /\ db' = [db EXCEPT !.global = G]
      /\ db'.version = db.version /\ db'.objects = db.objects
      /\ db'.oldLocal = db.oldLocal /\ db'.pepper = db.pepper
      /\ db'.local = db.local /\ db'.global = G /\ G \subseteq GlobalRow
  BY PushesIs
<1>2. \A r \in G : \/ r \in db.global
                   \/ /\ r.hash = Hash(r.address, Pepper)
                      /\ \E x \in db.local : r.ts = x.ts
  BY PushedRows DEF Shape
<1> HIDE DEF G
<1>3. process' = process /\ clock' = clock /\ history' = history /\ told' = told
  BY DEF PushesOnly
<1>4. /\ script' \in [phase : {"none", "global", "read", "local", "done"},
                      seen : SUBSET GlobalRow, deltas : SUBSET Delta,
                      skipped : BOOLEAN, disturbed : BOOLEAN]
      /\ script'.seen \subseteq script.seen /\ script'.deltas \subseteq script.deltas
  BY ScriptBesides
<1>5. db' \in [version : 0..5, objects : SUBSET Object, local : SUBSET LocalRow,
               oldLocal : SUBSET LocalRow, seq : Nat, global : SUBSET GlobalRow,
               pepper : {Pepper, NoPepper}]
  BY <1>1 DEF Shape
<1>6. Shape'
  BY <1>1, <1>3, <1>4, <1>5 DEF Shape
<1>7. NoneInFuture'
  BY <1>1, <1>2, <1>3, <1>4 DEF NoneInFuture
<1>8. HashesFit'
  BY <1>1, <1>2 DEF HashesFit
<1> QED
  BY <1>1, <1>3, <1>6, <1>7, <1>8, ServedStep

LEMMA ReplicatedStep ==
    ASSUME SchemaInv, NEW a \in Address, NEW m \in Mxid, Replicated(a, m),
           script' = IF script.phase \in {"none", "done"} THEN NoScript
                     ELSE [script EXCEPT !.disturbed = TRUE],
           UNCHANGED <<history, told>>
    PROVE  SchemaInv'
<1> USE SchemaParts
<1> DEFINE new == [address |-> Casefold[a], mxid |-> m, ts |-> clock + 1,
                   origin |-> "other", originId |-> clock + 1,
                   hash |-> Hash(Casefold[a], db.pepper)]
<1>1. /\ process.phase = "serving" /\ clock < MaxTs
      /\ db' = [db EXCEPT !.global = @ \cup {new}]
      /\ clock' = clock + 1 /\ process' = process
  BY DEF Replicated
<1>2. history.served /\ db.pepper = Pepper
  BY <1>1 DEF PhaseFits
<1>3. new \in GlobalRow /\ new.hash = Hash(new.address, Pepper) /\ new.ts = clock + 1
  <2>1. Hash(Casefold[a], Pepper) \in Address \X {Pepper} /\ Casefold[a] \in Address
    BY DatabaseAssumption DEF Hash
  <2>2. clock + 1 \in Nat
    BY DatabaseAssumption DEF Shape
  <2> QED
    BY <1>2, <2>1, <2>2 DEF GlobalRow
<1> HIDE DEF new
<1>4. /\ db' \in [version : 0..5, objects : SUBSET Object, local : SUBSET LocalRow,
                  oldLocal : SUBSET LocalRow, seq : Nat, global : SUBSET GlobalRow,
                  pepper : {Pepper, NoPepper}]
      /\ db'.version = db.version /\ db'.objects = db.objects
      /\ db'.oldLocal = db.oldLocal /\ db'.pepper = db.pepper
      /\ db'.local = db.local /\ db'.global = db.global \cup {new}
  BY <1>1, <1>3 DEF Shape
<1>5. /\ script' \in [phase : {"none", "global", "read", "local", "done"},
                      seen : SUBSET GlobalRow, deltas : SUBSET Delta,
                      skipped : BOOLEAN, disturbed : BOOLEAN]
      /\ script'.seen \subseteq script.seen /\ script'.deltas \subseteq script.deltas
  BY ScriptBesides
<1>6. NoneInFuture' /\ clock' \in 0..MaxTs
  BY <1>1, <1>3, <1>4, <1>5, ClockStep
<1>7. Shape'
  BY <1>1, <1>4, <1>5, <1>6 DEF Shape
<1>8. HashesFit'
  BY <1>2, <1>3, <1>4 DEF HashesFit
<1> QED
  BY <1>1, <1>2, <1>4, <1>6, <1>7, <1>8, ServedStep

(* The next id of the old release; ids are not larger than the clock.      *)
LEMMA OldIds ==
    ASSUME Shape, \A r \in db.local : r.id <= clock
    PROVE  /\ Max({0} \cup Ids(db.local)) \in 0..clock
           /\ \A r \in db.local : r.id <= Max({0} \cup Ids(db.local))
<1> DEFINE S == {0} \cup Ids(db.local)
<1>1. S \subseteq Nat /\ S # {} /\ clock \in Nat /\ \A i \in S : i <= clock
  BY DatabaseAssumption DEF Shape, Ids, LocalRow
<1>2. \A r \in db.local : r.id \in S
  BY DEF Ids
<1> HIDE DEF S
<1>3. PICK k \in S : \A i \in S : i <= k
  BY <1>1, GreatestOf
<1>4. Max(S) = k
  BY <1>1, <1>3, MaxIs
<1>5. k \in 0..clock
  BY <1>1, <1>3
<1>6. Max(S) \in 0..clock /\ \A r \in db.local : r.id <= Max(S)
  BY <1>2, <1>3, <1>4, <1>5
<1> QED
  BY <1>6 DEF S

LEMMA OldBindStep ==
    ASSUME SchemaInv, NEW a \in Address, NEW m \in Mxid, OldBind(a, m),
           script' = IF script.phase \in {"none", "done"} THEN NoScript
                     ELSE [script EXCEPT !.disturbed = TRUE],
           UNCHANGED <<history, told>>
    PROVE  SchemaInv'
<1> USE SchemaParts
<1> DEFINE id == 1 + Max({0} \cup Ids(db.local))
           l == [id |-> id, address |-> a, mxid |-> m, ts |-> clock + 1]
           g == [address |-> a, mxid |-> m, ts |-> clock + 1,
                 origin |-> "own", originId |-> id, hash |-> NoHash]
<1>1. /\ process.phase = "old" /\ clock < MaxOldTs
      /\ db' = [db EXCEPT !.local = (@ \ RowsOf(@, a)) \cup {l},
                          !.global = @ \cup {g}]
      /\ clock' = clock + 1 /\ process' = process
  BY DEF OldBind
<1>2. id \in 1..clock + 1 /\ clock < MaxTs /\ clock \in Nat
  BY <1>1, OldIds, DatabaseAssumption DEF PhaseFits, Shape
<1> HIDE DEF id
<1>3. l \in LocalRow /\ l.id = id /\ l.ts = clock + 1 /\ g \in GlobalRow /\ g.ts = clock + 1
  BY <1>2 DEF LocalRow, GlobalRow
<1> HIDE DEF l, g
<1>4. /\ db' \in [version : 0..5, objects : SUBSET Object, local : SUBSET LocalRow,
                  oldLocal : SUBSET LocalRow, seq : Nat, global : SUBSET GlobalRow,
                  pepper : {Pepper, NoPepper}]
      /\ db'.version = db.version /\ db'.objects = db.objects
      /\ db'.oldLocal = db.oldLocal /\ db'.pepper = db.pepper
      /\ db'.local = (db.local \ RowsOf(db.local, a)) \cup {l}
      /\ db'.global = db.global \cup {g}
  BY <1>1, <1>3 DEF Shape
<1>5. /\ script' \in [phase : {"none", "global", "read", "local", "done"},
                      seen : SUBSET GlobalRow, deltas : SUBSET Delta,
                      skipped : BOOLEAN, disturbed : BOOLEAN]
      /\ script'.seen \subseteq script.seen /\ script'.deltas \subseteq script.deltas
      /\ script'.phase = "none"
  BY <1>1, ScriptBesides DEF ScriptFits, PhaseFits
<1>6. NoneInFuture' /\ clock' \in 0..MaxTs
  BY <1>1, <1>2, <1>3, <1>4, <1>5, ClockStep
<1>7. Shape'
  <2>1. IsFiniteSet(db.local \ RowsOf(db.local, a))
    BY FS_Subset DEF Shape
  <2>2. IsFiniteSet(db'.local)
    BY <1>4, <2>1, FS_AddElement
  <2> QED
    BY <1>1, <1>4, <1>5, <1>6, <2>2 DEF Shape
<1>8. \A r \in db'.local : r.id <= clock'
  <2>1. \A r \in db.local : r.id \in Nat /\ r.id <= clock
    BY <1>1 DEF PhaseFits, Shape, LocalRow
  <2>2. \A n \in Nat : n <= clock => n <= clock'
    BY <1>1, <1>2
  <2>3. id <= clock'
    BY <1>1, <1>2
  <2> QED
    BY <1>3, <1>4, <2>1, <2>2, <2>3
<1>9. PhaseFits'
  BY <1>1, <1>4, <1>8 DEF PhaseFits
<1>10. LeftBehind(Position)' /\ TablesFit'
  <2>1. "local" \in db.objects /\ "old_local" \notin db.objects /\ db.oldLocal = {}
    BY <1>1 DEF PhaseFits, Version0
  <2> QED
    BY <1>1, <1>4, <2>1 DEF LeftBehind, Position, TablesFit
<1>11. UnkilledFits' /\ ScriptFits' /\ NothingLost'
  BY <1>1, <1>4, <1>5 DEF UnkilledFits, ScriptFits, NothingLost
<1>12. HashesFit'
  BY <1>1, <1>4 DEF PhaseFits, HashesFit
<1> QED
  BY <1>6, <1>7, <1>9, <1>10, <1>11, <1>12 DEF SchemaInv

LEMMA OldReplicatedStep ==
    ASSUME SchemaInv, NEW a \in Address, NEW m \in Mxid, OldReplicated(a, m),
           script' = IF script.phase \in {"none", "done"} THEN NoScript
                     ELSE [script EXCEPT !.disturbed = TRUE],
           UNCHANGED <<history, told>>
    PROVE  SchemaInv'
<1> USE SchemaParts
<1> DEFINE g == [address |-> a, mxid |-> m, ts |-> clock + 1,
                 origin |-> "other", originId |-> clock + 1, hash |-> NoHash]
<1>1. /\ process.phase = "old" /\ clock < MaxOldTs
      /\ db' = [db EXCEPT !.global = @ \cup {g}]
      /\ clock' = clock + 1 /\ process' = process
  BY DEF OldReplicated
<1>2. clock < MaxTs /\ clock \in Nat
  BY <1>1, DatabaseAssumption DEF Shape
<1>3. g \in GlobalRow /\ g.ts = clock + 1
  BY <1>2 DEF GlobalRow
<1> HIDE DEF g
<1>4. /\ db' \in [version : 0..5, objects : SUBSET Object, local : SUBSET LocalRow,
                  oldLocal : SUBSET LocalRow, seq : Nat, global : SUBSET GlobalRow,
                  pepper : {Pepper, NoPepper}]
      /\ db'.version = db.version /\ db'.objects = db.objects
      /\ db'.oldLocal = db.oldLocal /\ db'.pepper = db.pepper
      /\ db'.local = db.local /\ db'.global = db.global \cup {g}
  BY <1>1, <1>3 DEF Shape
<1>5. /\ script' \in [phase : {"none", "global", "read", "local", "done"},
                      seen : SUBSET GlobalRow, deltas : SUBSET Delta,
                      skipped : BOOLEAN, disturbed : BOOLEAN]
      /\ script'.seen \subseteq script.seen /\ script'.deltas \subseteq script.deltas
      /\ script'.phase = "none"
  BY <1>1, ScriptBesides DEF ScriptFits, PhaseFits
<1>6. NoneInFuture' /\ clock' \in 0..MaxTs
  BY <1>1, <1>2, <1>3, <1>4, <1>5, ClockStep
<1>7. Shape'
  BY <1>1, <1>4, <1>5, <1>6 DEF Shape
<1>8. \A r \in db'.local : r.id <= clock'
  <2>1. \A r \in db.local : r.id \in Nat /\ r.id <= clock
    BY <1>1 DEF PhaseFits, Shape, LocalRow
  <2> QED
    BY <1>1, <1>2, <1>4, <2>1
<1>9. PhaseFits'
  BY <1>1, <1>4, <1>8 DEF PhaseFits
<1>10. LeftBehind(Position)' /\ TablesFit'
  BY <1>1, <1>4 DEF LeftBehind, Position, TablesFit
<1>11. UnkilledFits' /\ ScriptFits' /\ NothingLost'
  BY <1>1, <1>4, <1>5 DEF UnkilledFits, ScriptFits, NothingLost
<1>12. HashesFit'
  BY <1>1, <1>4 DEF PhaseFits, HashesFit
<1> QED
  BY <1>6, <1>7, <1>9, <1>10, <1>11, <1>12 DEF SchemaInv

(* A step of the script that leaves the database alone.                    *)
LEMMA ScriptOnlyStep ==
    ASSUME SchemaInv, UNCHANGED <<db, process, clock, history, told>>,
           script' \in [phase : {"none", "global", "read", "local", "done"},
                        seen : SUBSET GlobalRow, deltas : SUBSET Delta,
                        skipped : BOOLEAN, disturbed : BOOLEAN],
           script'.phase # "none" => history.served,
           \A r \in script'.seen : r.ts <= clock,
           \A d \in script'.deltas : /\ d.keep.ts <= clock
                                     /\ \A r \in d.drop : r.ts <= clock
    PROVE  SchemaInv'
<1> USE SchemaParts
<1>1. Shape' /\ ScriptFits'
  BY DEF Shape, ScriptFits
<1>2. NoneInFuture'
  BY DEF NoneInFuture
<1>3. PhaseFits' /\ LeftBehind(Position)' /\ TablesFit'
  BY DEF PhaseFits, LeftBehind, Position, TablesFit
<1>4. UnkilledFits' /\ HashesFit' /\ NothingLost'
  BY DEF UnkilledFits, HashesFit, NothingLost
<1> QED
  BY <1>1, <1>2, <1>3, <1>4 DEF SchemaInv

(* The rows of a group, and the newest of them                             *)
LEMMA GroupNewest ==
    ASSUME NEW tbl, NEW x, clock \in Nat, \A r \in tbl : r.ts \in Nat /\ r.ts <= clock,
           GroupOf(tbl, x) # {}
    PROVE  /\ Newest(GroupOf(tbl, x)) \in GroupOf(tbl, x)
           /\ \A q \in GroupOf(tbl, x) : q.ts <= Newest(GroupOf(tbl, x)).ts
<1>1. \A r \in GroupOf(tbl, x) : r.ts \in Nat /\ r.ts <= clock
  BY DEF GroupOf
<1> QED
  BY <1>1, NewestOf

LEMMA DeltasType ==
    ASSUME Shape, NoneInFuture
    PROVE  /\ Deltas(db.local) \subseteq Delta
           /\ \A d \in Deltas(db.local) :
                /\ d.folded \in ToFix(db.local) /\ d.keep \in db.local /\ d.drop \subseteq db.local
                /\ d.keep = Newest(GroupOf(db.local, d.folded))
                /\ d.drop = GroupOf(db.local, d.folded) \ {d.keep}
<1>1. clock \in Nat /\ \A r \in db.local : r.ts \in Nat /\ r.ts <= clock
  BY DatabaseAssumption DEF Shape, NoneInFuture, LocalRow
<1> SUFFICES ASSUME NEW x \in ToFix(db.local), NEW d,
                    d = [folded |-> x, keep |-> Newest(GroupOf(db.local, x)),
                         drop |-> GroupOf(db.local, x) \ {Newest(GroupOf(db.local, x))}]
             PROVE  /\ d \in Delta /\ d.folded = x
                    /\ d.keep \in db.local /\ d.drop \subseteq db.local
                    /\ d.keep = Newest(GroupOf(db.local, x))
                    /\ d.drop = GroupOf(db.local, x) \ {d.keep}
  BY DEF Deltas
<1>2. x \in Folded /\ GroupOf(db.local, x) # {}
  BY DEF ToFix
<1>3. Newest(GroupOf(db.local, x)) \in GroupOf(db.local, x)
  BY <1>1, <1>2, GroupNewest
<1>4. GroupOf(db.local, x) \subseteq db.local /\ db.local \subseteq LocalRow
  BY DEF GroupOf, Shape
<1> QED
  BY <1>2, <1>3, <1>4 DEF Delta

LEMMA ScriptReadsStep ==
    ASSUME SchemaInv, ReadGlobal \/ ReadLocal \/ SkipDelta \/ Finish \/ KillScript
    PROVE  SchemaInv'
<1> USE SchemaParts
<1>1. UNCHANGED <<db, process, clock, history, told>>
  BY DEF ReadGlobal, ReadLocal, SkipDelta, Finish, KillScript
<1>2. /\ \A r \in script.seen : r.ts <= clock
      /\ \A r \in db.global \cup db.local : r.ts <= clock
      /\ \A d \in script.deltas : /\ d.keep.ts <= clock
                                  /\ \A r \in d.drop : r.ts <= clock
  BY DEF NoneInFuture
<1>3. CASE ReadGlobal
  <2>1. /\ script' = [NoScript EXCEPT !.phase = "global",
                                      !.seen = {r \in db.global : r.origin = "own"}]
        /\ history.served
    BY <1>3 DEF ReadGlobal, PhaseFits, Shape
  <2>2. /\ script' \in [phase : {"none", "global", "read", "local", "done"},
                        seen : SUBSET GlobalRow, deltas : SUBSET Delta,
                        skipped : BOOLEAN, disturbed : BOOLEAN]
        /\ script'.seen \subseteq db.global /\ script'.deltas = {}
    BY <2>1 DEF NoScript, Shape
  <2> QED
    BY <1>1, <1>2, <2>1, <2>2, ScriptOnlyStep
<1>4. CASE ReadLocal
  <2>1. script.phase = "read" /\ history.served
        /\ script' = [script EXCEPT !.phase = "local", !.deltas = Deltas(db.local)]
    BY <1>4 DEF ReadLocal, ScriptFits
  <2>2. Deltas(db.local) \subseteq Delta /\ \A d \in Deltas(db.local) :
           d.keep.ts <= clock /\ \A r \in d.drop : r.ts <= clock
    BY <1>2, DeltasType
  <2>3. /\ script' \in [phase : {"none", "global", "read", "local", "done"},
                        seen : SUBSET GlobalRow, deltas : SUBSET Delta,
                        skipped : BOOLEAN, disturbed : BOOLEAN]
        /\ script'.seen = script.seen /\ script'.deltas = Deltas(db.local)
    BY <2>1, <2>2 DEF Shape
  <2> QED
    BY <1>1, <1>2, <2>1, <2>2, <2>3, ScriptOnlyStep
<1>5. CASE SkipDelta \/ Finish \/ KillScript
  <2>1. /\ script' \in [phase : {"none", "global", "read", "local", "done"},
                        seen : SUBSET GlobalRow, deltas : SUBSET Delta,
                        skipped : BOOLEAN, disturbed : BOOLEAN]
        /\ script'.seen \subseteq script.seen /\ script'.deltas \subseteq script.deltas
    <3>1. CASE SkipDelta
      <4>1. script' = [[script EXCEPT !.deltas = script.deltas \ {Current}] EXCEPT !.skipped = TRUE]
        BY <3>1 DEF SkipDelta, After
      <4> HIDE SchemaParts
      <4>2. Shape
        BY SchemaParts
      <4> QED
        BY <4>1, <4>2 DEF Shape
    <3>2. CASE Finish
      BY <3>2 DEF Finish, Shape
    <3>3. CASE KillScript
      BY <3>3 DEF KillScript, NoScript
    <3> QED
      BY <1>5, <3>1, <3>2, <3>3
  <2>2. history.served
    BY <1>5 DEF SkipDelta, Finish, KillScript, ScriptFits
  <2> QED
    BY <1>1, <1>2, <2>1, <2>2, ScriptOnlyStep
<1> QED
  BY <1>3, <1>4, <1>5

(* What the script leaves of the global table: rows that were there, some  *)
(* of them folded and hashed anew.                                         *)
LEMMA RefoldedRows ==
    ASSUME NEW tbl \in SUBSET GlobalRow, NEW seen, db.pepper = Pepper
    PROVE  \A r \in Refolded(Deleted(tbl, seen), seen) :
              /\ r \in GlobalRow
              /\ \E q \in tbl :
                    /\ q \in Deleted(tbl, seen)
                    /\ r.ts = q.ts /\ r.mxid = q.mxid /\ r.origin = q.origin
                    /\ r.originId = q.originId
                    /\ \/ r = q
                       \/ /\ r.address = Casefold[q.address]
                          /\ r.hash = Hash(r.address, Pepper)
<1> DEFINE New(q) == [q EXCEPT !.address = Casefold[@],
                               !.hash = Hash(Casefold[q.address], db.pepper)]
<1>1. Deleted(tbl, seen) \subseteq tbl
  BY DEF Deleted
<1>2. \A r \in Refolded(Deleted(tbl, seen), seen) :
         \E q \in tbl : q \in Deleted(tbl, seen) /\ (r = q \/ r = New(q))
  BY <1>1 DEF Refolded
<1>3. ASSUME NEW q \in tbl
      PROVE  /\ New(q) \in GlobalRow /\ New(q).ts = q.ts /\ New(q).mxid = q.mxid
             /\ New(q).origin = q.origin /\ New(q).originId = q.originId
             /\ New(q).address = Casefold[q.address]
             /\ New(q).hash = Hash(New(q).address, Pepper)
  <2>1. q \in GlobalRow /\ Casefold[q.address] \in Address
    BY DatabaseAssumption DEF GlobalRow
  <2>2. Hash(Casefold[q.address], Pepper) \in Address \X {Pepper}
    BY <2>1 DEF Hash
  <2> QED
    BY <2>1, <2>2 DEF GlobalRow
<1> HIDE DEF New
<1> QED
  BY <1>2, <1>3

LEMMA WriteGlobalStep ==
    ASSUME SchemaInv, WriteGlobal
    PROVE  SchemaInv'
<1> USE SchemaParts
<1> DEFINE G == Refolded(Deleted(db.global, script.seen), script.seen)
<1>1. /\ script.phase = "global"
      /\ db' = [db EXCEPT !.global = G]
      /\ script' = [script EXCEPT !.phase = "read", !.seen = {}]
      /\ process' = process /\ clock' = clock /\ history' = history /\ told' = told
  BY DEF WriteGlobal
<1>2. history.served /\ db.pepper = Pepper
  BY <1>1 DEF ScriptFits, PhaseFits
<1>3. \A r \in G : /\ r \in GlobalRow
                   /\ \E q \in db.global : r.ts = q.ts /\ (r = q \/ r.hash = Hash(r.address, Pepper))
  BY <1>2, RefoldedRows DEF Shape
<1> HIDE DEF G
<1>4. /\ db' \in [version : 0..5, objects : SUBSET Object, local : SUBSET LocalRow,
                  oldLocal : SUBSET LocalRow, seq : Nat, global : SUBSET GlobalRow,
                  pepper : {Pepper, NoPepper}]
      /\ db'.version = db.version /\ db'.objects = db.objects /\ db'.local = db.local
      /\ db'.oldLocal = db.oldLocal /\ db'.pepper = db.pepper /\ db'.global = G
  BY <1>1, <1>3 DEF Shape
<1>5. /\ script' \in [phase : {"none", "global", "read", "local", "done"},
                      seen : SUBSET GlobalRow, deltas : SUBSET Delta,
                      skipped : BOOLEAN, disturbed : BOOLEAN]
      /\ script'.seen = {} /\ script'.deltas = script.deltas
  BY <1>1 DEF Shape
<1>6. Shape'
  BY <1>1, <1>4, <1>5 DEF Shape
<1>7. NoneInFuture'
  BY <1>1, <1>3, <1>4, <1>5 DEF NoneInFuture
<1>8. HashesFit'
  BY <1>2, <1>3, <1>4 DEF HashesFit
<1> QED
  BY <1>1, <1>2, <1>4, <1>6, <1>7, <1>8, ServedStep

(* A step of the script that writes to the local table.                    *)
LEMMA ScriptWritesStep ==
    ASSUME SchemaInv, script.phase # "none",
           process' = process, clock' = clock, history' = history,
           NEW L \in SUBSET LocalRow, db' = [db EXCEPT !.local = L], IsFiniteSet(L),
           script' \in [phase : {"none", "global", "read", "local", "done"},
                        seen : SUBSET GlobalRow, deltas : SUBSET Delta,
                        skipped : BOOLEAN, disturbed : BOOLEAN],
           told' \subseteq Address \X (Mxid \cup {NoMxid}),
           \A r \in L : r.ts <= clock,
           script'.seen = script.seen,
           \A d \in script'.deltas : /\ d.keep.ts <= clock
                                     /\ \A r \in d.drop : r.ts <= clock
    PROVE  SchemaInv'
<1> USE SchemaParts
<1>1. history.served
  BY DEF ScriptFits
<1>2. /\ db' \in [version : 0..5, objects : SUBSET Object, local : SUBSET LocalRow,
                  oldLocal : SUBSET LocalRow, seq : Nat, global : SUBSET GlobalRow,
                  pepper : {Pepper, NoPepper}]
      /\ db'.version = db.version /\ db'.objects = db.objects /\ db'.local = L
      /\ db'.oldLocal = db.oldLocal /\ db'.pepper = db.pepper /\ db'.global = db.global
  BY DEF Shape
<1>3. Shape'
  BY <1>2 DEF Shape
<1>4. NoneInFuture' /\ HashesFit'
  BY <1>2 DEF NoneInFuture, HashesFit
<1> QED
  BY <1>1, <1>2, <1>3, <1>4, ServedStep

(* The row that is dropped next                                            *)
LEMMA DroppedRow ==
    ASSUME SchemaInv, script.deltas # {}, Current.drop # {}
    PROVE  /\ Current \in script.deltas /\ Current \in Delta
           /\ Newest(Current.drop) \in Current.drop /\ Newest(Current.drop) \in LocalRow
           /\ \A q \in Current.drop : q.ts <= Newest(Current.drop).ts
<1> USE SchemaParts
<1>1. Current \in script.deltas /\ Current \in Delta
  BY CurrentOf DEF Shape
<1>2. /\ \A r \in Current.drop : r \in LocalRow /\ r.ts \in Nat /\ r.ts <= clock
      /\ clock \in Nat
  BY <1>1, DatabaseAssumption DEF NoneInFuture, Delta, LocalRow, Shape
<1> QED
  BY <1>1, <1>2, NewestOf

LEMMA DropRowStep ==
    ASSUME SchemaInv, DropRow
    PROVE  SchemaInv'
<1> USE SchemaParts
<1> DEFINE d == Current
           r == Newest(d.drop)
           e == [d EXCEPT !.drop = @ \ {r}]
           L == db.local \ RowsOf(db.local, r.address)
<1>1. /\ script.phase = "local" /\ script.deltas # {} /\ d.drop # {}
      /\ told' = told \cup IF NeedsMail(d, r) THEN {<<r.address, r.mxid>>} ELSE {}
      /\ db' = [db EXCEPT !.local = L]
      /\ script' = [script EXCEPT !.deltas = (@ \ {d}) \cup {e}]
      /\ process' = process /\ clock' = clock /\ history' = history
  BY DEF DropRow
<1>2. d \in script.deltas /\ d \in Delta /\ r \in d.drop /\ r \in LocalRow
  BY <1>1, DroppedRow
<1> HIDE DEF d, r
<1>3. e \in Delta /\ e.keep = d.keep /\ e.drop = d.drop \ {r} /\ e.folded = d.folded
  BY <1>2 DEF Delta
<1> HIDE DEF e
<1>4. L \in SUBSET LocalRow /\ L \subseteq db.local /\ IsFiniteSet(L)
  BY FS_Subset DEF Shape
<1> HIDE DEF L
<1>5. /\ script' \in [phase : {"none", "global", "read", "local", "done"},
                      seen : SUBSET GlobalRow, deltas : SUBSET Delta,
                      skipped : BOOLEAN, disturbed : BOOLEAN]
      /\ script'.seen = script.seen
      /\ script'.deltas = (script.deltas \ {d}) \cup {e}
  BY <1>1, <1>3 DEF Shape
<1>6. told' \subseteq Address \X (Mxid \cup {NoMxid})
  BY <1>1, <1>2 DEF Shape, LocalRow
<1>7. /\ \A q \in L : q.ts <= clock
      /\ \A f \in script'.deltas : f.keep.ts <= clock /\ \A q \in f.drop : q.ts <= clock
  BY <1>2, <1>3, <1>4, <1>5 DEF NoneInFuture
<1> QED
  BY <1>1, <1>4, <1>5, <1>6, <1>7, ScriptWritesStep

LEMMA UpdateRowStep ==
    ASSUME SchemaInv, UpdateRow
    PROVE  SchemaInv'
<1> USE SchemaParts
<1> DEFINE d == Current
           M == Matching(d)
           New(r) == [r EXCEPT !.address = d.folded]
           L == (db.local \ M) \cup {New(r) : r \in M}
<1>1. /\ script.phase = "local" /\ script.deltas # {}
      /\ process' = process /\ clock' = clock /\ history' = history /\ told' = told
      /\ \/ db' = [db EXCEPT !.local = L] /\ script' = After(d)
         \/ db' = db /\ script' = NoScript
  BY DEF UpdateRow
<1>2. d \in script.deltas /\ d.folded \in Address
  BY <1>1, CurrentOf, DatabaseAssumption DEF Shape, Delta, Folded
<1>3. CASE db' = [db EXCEPT !.local = L] /\ script' = After(d)
  <2>1. M \subseteq db.local /\ db.local \subseteq LocalRow /\ IsFiniteSet(db.local)
    BY DEF Matching, Shape
  <2> HIDE DEF M, d
  <2>2. \A r \in M : New(r) \in LocalRow /\ New(r).ts = r.ts
    BY <1>2, <2>1 DEF LocalRow
  <2>3. IsFiniteSet({New(r) : r \in M})
    <3> DEFINE f == [r \in M |-> New(r)]
    <3> HIDE DEF New
    <3>1. {New(r) : r \in M} = {f[r] : r \in M} /\ DOMAIN f = M
      OBVIOUS
    <3>2. IsFiniteSet(M)
      BY <2>1, FS_Subset
    <3> HIDE DEF f
    <3>3. IsFiniteSet({f[r] : r \in M})
      BY ONLY <3>1, <3>2, FiniteImage
    <3> QED
      BY <3>1, <3>3
  <2> HIDE DEF New
  <2>4. L \in SUBSET LocalRow
    BY <2>1, <2>2
  <2>5. IsFiniteSet(L)
    BY <2>1, <2>3, FS_Subset, FS_Union
  <2>6. \A r \in L : r.ts <= clock
    BY <2>1, <2>2 DEF NoneInFuture
  <2> HIDE DEF L
  <2>7. /\ script' \in [phase : {"none", "global", "read", "local", "done"},
                        seen : SUBSET GlobalRow, deltas : SUBSET Delta,
                        skipped : BOOLEAN, disturbed : BOOLEAN]
        /\ script'.seen = script.seen /\ script'.deltas \subseteq script.deltas
    BY <1>3 DEF After, Shape
  <2>8. \A f \in script'.deltas : f.keep.ts <= clock /\ \A q \in f.drop : q.ts <= clock
    BY <2>7 DEF NoneInFuture
  <2>9. told' \subseteq Address \X (Mxid \cup {NoMxid})
    BY <1>1 DEF Shape
  <2> QED
    BY <1>1, <1>3, <2>4, <2>5, <2>6, <2>7, <2>8, <2>9, ScriptWritesStep
<1>4. CASE db' = db /\ script' = NoScript
  <2>1. /\ NoScript \in [phase : {"none", "global", "read", "local", "done"},
                         seen : SUBSET GlobalRow, deltas : SUBSET Delta,
                         skipped : BOOLEAN, disturbed : BOOLEAN]
        /\ NoScript.phase = "none" /\ NoScript.seen = {} /\ NoScript.deltas = {}
    BY DEF NoScript
  <2> QED
    BY <1>1, <1>4, <2>1, ScriptOnlyStep
<1> QED
  BY <1>1, <1>3, <1>4

-----------------------------------------------------------------------------
LEMMA InitSchema == Init => SchemaInv
<1> SUFFICES ASSUME Init PROVE SchemaInv
  OBVIOUS
<1>1. /\ db = [version |-> 0, objects |-> Version0, local |-> {}, oldLocal |-> {},
               seq |-> 0, global |-> {}, pepper |-> NoPepper]
      /\ process = [phase |-> "old", at |-> 0] /\ clock = 0
      /\ history = [rows |-> {}, killed |-> FALSE, failed |-> FALSE, served |-> FALSE]
      /\ script = NoScript /\ told = {}
  BY DEF Init, SchemaInit
<1>2. Version0 \subseteq Object /\ "local" \in Version0 /\ "global" \in Version0
  BY DEF Version0, Object, Version5
<1>3. Shape
  BY <1>1, <1>2, FS_EmptySet, DatabaseAssumption DEF Shape, NoScript
<1>4. NoneInFuture /\ HashesFit /\ ScriptFits
  BY <1>1 DEF NoneInFuture, HashesFit, ScriptFits, NoScript
<1>5. PhaseFits /\ TablesFit /\ UnkilledFits /\ NothingLost
  BY <1>1, <1>2, DatabaseAssumption DEF PhaseFits, TablesFit, UnkilledFits, NothingLost
<1>6. LeftBehind(Position)
  BY <1>1, VersionsFit DEF LeftBehind, Position
<1> QED
  BY <1>3, <1>4, <1>5, <1>6 DEF SchemaInv

LEMMA NextSchema == SchemaInv /\ [Next]_vars => SchemaInv'
<1> SUFFICES ASSUME SchemaInv, [Next]_vars PROVE SchemaInv'
  OBVIOUS
<1>1. CASE Serving
  <2> PICK a \in Address, m \in Mxid :
         \/ Bind(a, m) \/ Unbind(a, m) \/ Replicated(a, m)
         \/ OldBind(a, m) \/ OldReplicated(a, m)
    BY <1>1 DEF Serving
  <2>1. /\ script' = IF script.phase \in {"none", "done"} THEN NoScript
                     ELSE [script EXCEPT !.disturbed = TRUE]
        /\ UNCHANGED <<history, told>>
        /\ Casefold[a] \in Address
    BY <1>1, DatabaseAssumption DEF Serving
  <2>2. CASE Bind(a, m)
    BY <2>1, <2>2, WriteLocalStep DEF Bind
  <2>3. CASE Unbind(a, m)
    BY <2>1, <2>3, UnbindIs, PushesStep, WriteLocalStep
  <2> QED
    BY <2>1, <2>2, <2>3, ReplicatedStep, OldBindStep, OldReplicatedStep
<1>2. CASE StartUp /\ UNCHANGED <<script, told>>
  BY <1>2, StartStep, ExecuteStep, StopStep, ServeStep DEF StartUp
<1>3. CASE ReadGlobal \/ ReadLocal \/ SkipDelta \/ Finish \/ KillScript
  BY <1>3, ScriptReadsStep
<1>4. CASE WriteGlobal \/ DropRow \/ UpdateRow
  BY <1>4, WriteGlobalStep, DropRowStep, UpdateRowStep
<1>5. CASE UNCHANGED vars
  <2>1. UNCHANGED <<db, process, clock, history, told>> /\ script' = script
    BY <1>5 DEF vars
  <2> QED
    BY <2>1, ScriptOnlyStep DEF SchemaInv, Shape, NoneInFuture, ScriptFits
<1> QED
  BY <1>1, <1>2, <1>3, <1>4, <1>5 DEF Next

LEMMA SchemaInvariant == Spec => []SchemaInv
  BY InitSchema, NextSchema, PTL DEF Spec

(* The tables, the schema and the state of the script are well formed.     *)
THEOREM DatabaseTypeCorrect == Spec => []TypeOK
<1>1. SchemaInv => TypeOK
  <2> SUFFICES ASSUME SchemaInv PROVE TypeOK
    OBVIOUS
  <2>1. Len(Upgrade) + 1 = 21
    BY UpgradeIs
  <2>2. Shape
    BY SchemaParts
  <2>3. TypeOfDatabase
    BY <2>1, <2>2 DEF Shape, TypeOfDatabase, Object
  <2> QED
    BY <2>2, <2>3 DEF TypeOK, Shape, Delta
<1> QED
  BY <1>1, SchemaInvariant, PTL

(* _upgradeSchema: wherever an upgrade is killed and however often it is   *)
(* tried again, no association of the old table is lost.                   *)
THEOREM UpgradeLosesNothing == Spec => []NothingLost
<1>1. SchemaInv => NothingLost
  BY SchemaParts
<1> QED
  BY <1>1, SchemaInvariant, PTL

(* _upgradeSchema: no start fails on a database whose upgrade was never    *)
(* killed.                                                                 *)
THEOREM StartsFailOnlyAfterKill == Spec => []StartsUnlessKilled
<1>1. SchemaInv => StartsUnlessKilled
  BY DEF SchemaInv, UnkilledFits, StartsUnlessKilled
<1> QED
  BY <1>1, SchemaInvariant, PTL

(* Sydent.__init__: what is served has the whole schema, no rows in the    *)
(* old table, and a hash for every address with the pepper in force.       *)
THEOREM ServedSchemaIsComplete == Spec => []ServedIsComplete
<1>1. SchemaInv => ServedIsComplete
  <2> SUFFICES ASSUME SchemaInv, process.phase = "serving"
               PROVE  /\ db.version = 5 /\ Version5 \subseteq db.objects
                      /\ db.oldLocal = {}
                      /\ \A r \in db.global : r.hash = Hash(r.address, db.pepper)
    BY DEF ServedIsComplete
  <2>1. history.served /\ db.pepper = Pepper
    BY DEF SchemaInv, PhaseFits
  <2> QED
    BY <2>1, ServedFits DEF SchemaInv, HashesFit
<1> QED
  BY <1>1, SchemaInvariant, PTL

-----------------------------------------------------------------------------
(* casefold_db.py *)

(* The unique index of (medium, address), and each association its time    *)
KeysFit(tbl) == \A r, q \in tbl : r.address = q.address \/ r.ts = q.ts => r = q

(* A group that the script is done with                                    *)
Settled(x) ==
    \A r, q \in GroupOf(db.local, x) : r = q /\ (r.address \in Folded \/ r.mxid = NoMxid)

(* A delta has all rows of its group that are still there.                 *)
DeltaFits(d) ==
    /\ GroupOf(db.local, d.folded) = {d.keep} \cup d.drop
    /\ d.keep \notin d.drop /\ \A q \in d.drop : q.ts <= d.keep.ts

(* What the script has read is still there, and what it has written too,   *)
(* as long as nobody else writes.                                          *)
ScriptInStep ==
    ~ script.disturbed =>
        /\ script.phase = "global" => script.seen = {r \in db.global : r.origin = "own"}
        /\ script.phase \in {"read", "local", "done"} =>
             \A r \in db.global : r.origin = "own" => r.address \in Folded
        /\ script.phase = "local" =>
             /\ \A d, e \in script.deltas : d.folded = e.folded => d = e
             /\ \A d \in script.deltas : DeltaFits(d)
        /\ script.phase \in {"local", "done"} /\ ~ script.skipped =>
             \A x \in Folded : (\A d \in script.deltas : d.folded # x) => Settled(x)
        /\ script.phase = "done" => script.deltas = {}

FoldInv ==
    /\ SchemaInv
    /\ KeysFit(db.local)
    /\ KeysFit(db.oldLocal)
    /\ ScriptInStep

LEMMA FoldParts ==
    FoldInv => /\ SchemaInv /\ KeysFit(db.local) /\ KeysFit(db.oldLocal)
               /\ ScriptInStep /\ Shape /\ NoneInFuture
  BY SchemaParts DEF FoldInv

LEMMA FoldedIsFolded == \A x \in Folded : x \in Address /\ Casefold[x] = x
  BY DatabaseAssumption DEF Folded

LEMMA ScriptIdle ==
    ASSUME script'.phase = "none" \/ script'.disturbed
    PROVE  ScriptInStep'
  BY DEF ScriptInStep

(* The new row has an address of its own and the latest time.              *)
LEMMA NewKeyFits ==
    ASSUME NEW tbl, NEW new, NEW a, KeysFit(tbl), clock \in Nat,
           \A r \in tbl : r.ts \in Nat /\ r.ts <= clock,
           new.address = a, new.ts = clock + 1
    PROVE  KeysFit((tbl \ RowsOf(tbl, a)) \cup {new})
<1>1. \A r \in tbl : r.ts # new.ts
  OBVIOUS
<1> QED
  BY <1>1 DEF KeysFit, RowsOf

LEMMA ServingFolds ==
    ASSUME FoldInv, SchemaInv', Serving
    PROVE  FoldInv'
<1> USE FoldParts
<1> PICK a \in Address, m \in Mxid :
       \/ Bind(a, m) \/ Unbind(a, m) \/ Replicated(a, m)
       \/ OldBind(a, m) \/ OldReplicated(a, m)
  BY DEF Serving
<1>1. ScriptInStep'
  <2>1. script'.phase = "none" \/ script'.disturbed
    BY ScriptBesides DEF Serving
  <2> QED
    BY <2>1, ScriptIdle
<1>2. clock \in Nat /\ \A r \in db.local : r.ts \in Nat /\ r.ts <= clock
  BY DatabaseAssumption DEF Shape, NoneInFuture, LocalRow
<1>3. ASSUME NEW b \in Address, NEW n \in Mxid \cup {NoMxid}, WriteLocal(b, n)
      PROVE  FoldInv'
  <2>1. /\ db' = [db EXCEPT !.local = Replaced(b, n), !.seq = @ + 1,
                            !.global = Pushed(@, Replaced(b, n), db.pepper)]
        /\ db.pepper = Pepper
    BY <1>3 DEF WriteLocal, SchemaInv, PhaseFits
  <2>2. /\ db'.local = Replaced(b, n) /\ db'.oldLocal = db.oldLocal
        /\ db'.global = Pushed(db.global, Replaced(b, n), Pepper)
    BY <2>1 DEF Shape
  <2>3. KeysFit(Replaced(b, n))
    <3> DEFINE new == [id |-> db.seq + 1, address |-> b, mxid |-> n, ts |-> clock + 1]
    <3>1. Replaced(b, n) = (db.local \ RowsOf(db.local, b)) \cup {new}
      BY DEF Replaced
    <3>2. new.address = b /\ new.ts = clock + 1
      OBVIOUS
    <3> HIDE DEF new
    <3> QED
      BY <1>2, <3>1, <3>2, NewKeyFits
  <2> QED
    BY <1>1, <2>2, <2>3 DEF FoldInv, KeysFit
<1>4. CASE Bind(a, m) \/ Unbind(a, m)
  <2>1. Casefold[a] \in Address
    BY DatabaseAssumption
  <2>2. \/ WriteLocal(Casefold[a], m) \/ WriteLocal(Casefold[a], NoMxid)
        \/ PushesOnly
    BY <1>4, UnbindIs DEF Bind
  <2>3. CASE PushesOnly
    BY <1>1, <2>3, PushesIs DEF FoldInv, KeysFit
  <2> QED
    BY <1>3, <2>1, <2>2, <2>3
<1>5. CASE Replicated(a, m) \/ OldReplicated(a, m)
  <2>1. db'.local = db.local /\ db'.oldLocal = db.oldLocal
    BY <1>5 DEF Replicated, OldReplicated, Shape
  <2> QED
    BY <1>1, <2>1 DEF FoldInv, KeysFit
<1>6. CASE OldBind(a, m)
  <2> DEFINE id == 1 + Max({0} \cup Ids(db.local))
             l == [id |-> id, address |-> a, mxid |-> m, ts |-> clock + 1]
             g == [address |-> a, mxid |-> m, ts |-> clock + 1,
                   origin |-> "own", originId |-> id, hash |-> NoHash]
  <2>1. db' = [db EXCEPT !.local = (@ \ RowsOf(@, a)) \cup {l}, !.global = @ \cup {g}]
    BY <1>6 DEF OldBind
  <2>2. l.address = a /\ l.ts = clock + 1 /\ g.origin = "own"
    OBVIOUS
  <2> HIDE DEF l, g
  <2>3. /\ db'.local = (db.local \ RowsOf(db.local, a)) \cup {l}
        /\ db'.oldLocal = db.oldLocal /\ db'.global = db.global \cup {g}
    BY <2>1 DEF Shape
  <2>4. KeysFit(db'.local)
    BY <1>2, <2>2, <2>3, NewKeyFits
  <2> QED
    BY <1>1, <2>3, <2>4 DEF FoldInv, KeysFit
<1> QED
  BY <1>4, <1>5, <1>6

(* A start changes nothing of a database that was served before.           *)
LEMMA ServedStarts ==
    ASSUME SchemaInv, history.served, StartUp
    PROVE  db' = db
<1>1. db.version = 5 /\ db.pepper = Pepper
  BY DEF SchemaInv, PhaseFits
<1>2. ~ Execute
  BY ServedFits, UpgradeIs DEF Execute
<1> QED
  BY <1>1, <1>2, DatabaseAssumption DEF StartUp, Start, ExecuteFails, Serve, Kill

LEMMA StartUpFolds ==
    ASSUME FoldInv, SchemaInv', StartUp, UNCHANGED <<script, told>>
    PROVE  FoldInv'
<1> USE FoldParts
<1>1. ScriptInStep'
  <2>1. CASE script.phase = "none"
    BY <2>1, ScriptIdle
  <2>2. CASE script.phase # "none"
    <3>1. db' = db
      BY <2>2, ServedStarts DEF SchemaInv, ScriptFits
    <3> QED
      BY <3>1 DEF ScriptInStep, Settled, DeltaFits
  <2> QED
    BY <2>1, <2>2
<1>2. CASE db'.local = db.local /\ db'.oldLocal = db.oldLocal /\ db'.global = db.global
  BY <1>1, <1>2 DEF FoldInv, KeysFit
<1>3. CASE Execute
  <2> DEFINE i == process.at
  <2>1. i \in 1..20 /\ db' = Effect(Upgrade[i])
    BY <1>3, UpgradeIs DEF Execute, SchemaInv, PhaseFits
  <2> HIDE DEF i
  <2>2. /\ db'.global = db.global
        /\ i \notin {2, 4} => db'.local = db.local /\ db'.oldLocal = db.oldLocal
        /\ i = 2 => db'.local = {} /\ db'.oldLocal = db.local
        /\ i = 4 => db'.local = Renumbered(db.oldLocal) /\ db'.oldLocal = {}
    BY <2>1, EffectIs
  <2>3. KeysFit(Renumbered(db.oldLocal))
    <3> DEFINE New(r) == [r EXCEPT !.id = Cardinality({k \in Ids(db.oldLocal) : k <= r.id})]
    <3>1. \A r \in db.oldLocal : New(r).address = r.address /\ New(r).ts = r.ts
      BY DEF Shape, LocalRow
    <3>2. Renumbered(db.oldLocal) = {New(r) : r \in db.oldLocal}
      BY DEF Renumbered
    <3> HIDE DEF New
    <3> QED
      BY <3>1, <3>2 DEF KeysFit
  <2>4. KeysFit(db'.local) /\ KeysFit(db'.oldLocal)
    BY <2>2, <2>3 DEF KeysFit
  <2> QED
    BY <1>1, <2>2, <2>4 DEF FoldInv, KeysFit
<1>4. CASE Serve
  <2>1. db' = db \/ db' = [db EXCEPT !.pepper = Pepper, !.global = Rehashed(@, Pepper)]
    BY <1>4 DEF Serve
  <2>2. /\ db'.local = db.local /\ db'.oldLocal = db.oldLocal
        /\ db'.global = db.global \/ db'.global = Rehashed(db.global, Pepper)
    BY <2>1 DEF Shape
  <2> QED
    BY <1>1, <2>2 DEF FoldInv, KeysFit
<1>5. CASE Start
  BY <1>2, <1>5 DEF Start, Shape
<1>6. CASE ExecuteFails \/ Kill
  BY <1>2, <1>6 DEF ExecuteFails, Kill
<1> QED
  BY <1>3, <1>4, <1>5, <1>6 DEF StartUp

(* The rows of this server: the newest of each group is folded, the others *)
(* are deleted.                                                            *)
LEMMA AllRefolded ==
    ASSUME Shape, script.seen = {r \in db.global : r.origin = "own"}
    PROVE  \A r \in Deleted(db.global, script.seen) : r.origin = "own" =>
              \/ r.address \in Folded
              \/ \E x \in ToFix(script.seen) : r = Newest(GroupOf(script.seen, x))
<1> TAKE r \in Deleted(db.global, script.seen)
<1> HAVE r.origin = "own"
<1> DEFINE x == Casefold[r.address]
           lost == {q.address : q \in GroupOf(script.seen, x)
                                        \ {Newest(GroupOf(script.seen, x))}}
<1>1. r \in db.global /\ (x \in ToFix(script.seen) => r.address \notin lost)
  BY DEF Deleted
<1>2. x \in Folded /\ r \in GroupOf(script.seen, x)
  BY <1>1 DEF Folded, GroupOf, GlobalRow, Shape
<1>3. CASE x \in ToFix(script.seen)
  BY <1>1, <1>2, <1>3
<1>4. CASE x \notin ToFix(script.seen)
  BY <1>2, <1>4 DEF ToFix, InRightState
<1> QED
  BY <1>3, <1>4

LEMMA WriteGlobalFolds ==
    ASSUME FoldInv, SchemaInv', WriteGlobal
    PROVE  FoldInv'
<1> USE FoldParts
<1> DEFINE D == Deleted(db.global, script.seen)
           G == Refolded(D, script.seen)
<1>1. /\ script.phase = "global" /\ db' = [db EXCEPT !.global = G]
      /\ script' = [script EXCEPT !.phase = "read", !.seen = {}]
  BY DEF WriteGlobal
<1>2. /\ db'.local = db.local /\ db'.oldLocal = db.oldLocal /\ db'.global = G
      /\ script'.phase = "read" /\ script'.disturbed = script.disturbed
  BY <1>1 DEF Shape
<1>3. db.pepper = Pepper
  BY <1>1 DEF SchemaInv, ScriptFits, PhaseFits
<1>4. \A q \in db.global : Casefold[q.address] \in Folded
  BY DEF Shape, GlobalRow, Folded
<1>5. ASSUME ~ script.disturbed, NEW r \in G, r.origin = "own" PROVE r.address \in Folded
  <2>1. script.seen = {q \in db.global : q.origin = "own"}
    BY <1>1, <1>5 DEF ScriptInStep
  <2> DEFINE kept == {Newest(GroupOf(script.seen, x)) : x \in ToFix(script.seen)}
             Hit(q) == \E k \in kept : k.address = q.address /\ k.mxid = q.mxid
  <2>2. PICK q \in D : r = IF Hit(q)
                           THEN [q EXCEPT !.address = Casefold[@],
                                          !.hash = Hash(Casefold[q.address], db.pepper)]
                           ELSE q
    BY DEF Refolded
  <2>3. q \in db.global /\ q \in GlobalRow
    BY DEF Deleted, Shape
  <2>4. q.address \in Folded \/ Hit(q)
    <3>1. q.origin = "own"
      <4> HIDE DEF Hit
      <4> QED
        BY <1>5, <2>2, <2>3 DEF GlobalRow
    <3>2. \/ q.address \in Folded
          \/ \E x \in ToFix(script.seen) : q = Newest(GroupOf(script.seen, x))
      BY <2>1, <3>1, AllRefolded
    <3> QED
      BY <3>2
  <2> HIDE DEF Hit, D, G
  <2>5. CASE Hit(q)
    BY <1>4, <2>2, <2>3, <2>5 DEF GlobalRow
  <2> QED
    BY <2>2, <2>4, <2>5
<1>6. ScriptInStep'
  BY <1>2, <1>5 DEF ScriptInStep
<1> QED
  BY <1>2, <1>6 DEF FoldInv, KeysFit

LEMMA ReadLocalFolds ==
    ASSUME FoldInv, SchemaInv', ReadLocal
    PROVE  FoldInv'
<1> USE FoldParts
<1>1. /\ script.phase = "read" /\ UNCHANGED db
      /\ script' = [script EXCEPT !.phase = "local", !.deltas = Deltas(db.local)]
  BY DEF ReadLocal
<1>2. /\ script'.phase = "local" /\ script'.disturbed = script.disturbed
      /\ script'.deltas = Deltas(db.local)
  BY <1>1 DEF Shape
<1>3. \A d \in Deltas(db.local) :
         /\ d.folded \in ToFix(db.local)
         /\ d.keep = Newest(GroupOf(db.local, d.folded))
         /\ d.drop = GroupOf(db.local, d.folded) \ {d.keep}
  BY DeltasType
<1>4. \A d, e \in Deltas(db.local) : d.folded = e.folded => d = e
  <2>1. \A d \in Deltas(db.local) :
           d = [folded |-> d.folded, keep |-> Newest(GroupOf(db.local, d.folded)),
                drop |-> GroupOf(db.local, d.folded) \ {Newest(GroupOf(db.local, d.folded))}]
    BY DEF Deltas
  <2> QED
    BY <2>1
<1>5. ASSUME NEW d \in Deltas(db.local) PROVE DeltaFits(d)
  <2>1. GroupOf(db.local, d.folded) # {}
    BY <1>3 DEF ToFix
  <2>2. clock \in Nat /\ \A r \in db.local : r.ts \in Nat /\ r.ts <= clock
    BY DatabaseAssumption DEF Shape, NoneInFuture, LocalRow
  <2>3. /\ d.keep \in GroupOf(db.local, d.folded)
        /\ \A q \in GroupOf(db.local, d.folded) : q.ts <= d.keep.ts
    BY <1>3, <2>1, <2>2, GroupNewest
  <2> QED
    BY <1>3, <2>3 DEF DeltaFits
<1>6. ASSUME NEW x \in Folded, \A d \in Deltas(db.local) : d.folded # x PROVE Settled(x)
  <2>1. x \notin ToFix(db.local)
    <3>1. ASSUME x \in ToFix(db.local)
          PROVE  \E d \in Deltas(db.local) : d.folded = x
      <4> DEFINE d == [folded |-> x, keep |-> Newest(GroupOf(db.local, x)),
                       drop |-> GroupOf(db.local, x) \ {Newest(GroupOf(db.local, x))}]
      <4>1. d \in Deltas(db.local)
        BY <3>1 DEF Deltas
      <4>2. d.folded = x
        OBVIOUS
      <4> QED
        BY <4>1, <4>2
    <3> QED
      BY <1>6, <3>1
  <2> QED
    BY <2>1 DEF ToFix, InRightState, Settled
<1>7. ScriptInStep'
  BY <1>1, <1>2, <1>4, <1>5, <1>6 DEF ScriptInStep, DeltaFits, Settled
<1> QED
  BY <1>1, <1>7 DEF FoldInv, KeysFit

LEMMA ScriptElseFolds ==
    ASSUME FoldInv, SchemaInv', ReadGlobal \/ SkipDelta \/ Finish \/ KillScript
    PROVE  FoldInv'
<1> USE FoldParts
<1>1. db' = db
  BY DEF ReadGlobal, SkipDelta, Finish, KillScript
<1>2. CASE ReadGlobal
  <2>1. /\ script'.phase = "global"
        /\ script'.seen = {r \in db.global : r.origin = "own"}
    BY <1>2 DEF ReadGlobal, NoScript
  <2> QED
    BY <1>1, <2>1 DEF FoldInv, KeysFit, ScriptInStep
<1>3. CASE SkipDelta
  <2>1. script.phase = "local" /\ script' = [After(Current) EXCEPT !.skipped = TRUE]
    BY <1>3 DEF SkipDelta
  <2>2. /\ script'.phase = "local" /\ script'.disturbed = script.disturbed
        /\ script'.skipped /\ script'.deltas \subseteq script.deltas
    BY <2>1 DEF After, Shape
  <2>3. ScriptInStep'
    BY <1>1, <2>1, <2>2 DEF ScriptInStep, DeltaFits
  <2> QED
    BY <1>1, <2>3 DEF FoldInv, KeysFit
<1>4. CASE Finish
  <2>1. /\ script.phase = "local" /\ script.deltas = {}
        /\ script'.phase = "done" /\ script'.disturbed = script.disturbed
        /\ script'.skipped = script.skipped /\ script'.deltas = script.deltas
    BY <1>4 DEF Finish, Shape
  <2>2. ScriptInStep'
    BY <1>1, <2>1 DEF ScriptInStep, Settled
  <2> QED
    BY <1>1, <2>2 DEF FoldInv, KeysFit
<1>5. CASE KillScript
  <2>1. ScriptInStep'
    BY <1>5, ScriptIdle DEF KillScript, NoScript
  <2> QED
    BY <1>1, <2>1 DEF FoldInv, KeysFit
<1> QED
  BY <1>2, <1>3, <1>4, <1>5

(* As long as nobody else writes, DropRow deletes one row, which its delta *)
(* has and which is not the one to keep.                                   *)
LEMMA DropRowIs ==
    ASSUME FoldInv, DropRow, ~ script.disturbed
    PROVE  \E d \in script.deltas, e \in Delta, r \in db.local :
             /\ DeltaFits(d) /\ r \in d.drop /\ Casefold[r.address] = d.folded
             /\ d.keep \in db.local /\ d.keep # r /\ Casefold[d.keep.address] = d.folded
             /\ r.ts <= d.keep.ts
             /\ e.folded = d.folded /\ e.keep = d.keep /\ e.drop = d.drop \ {r}
             /\ db'.local = db.local \ {r}
             /\ db'.oldLocal = db.oldLocal /\ db'.global = db.global
             /\ script'.deltas = (script.deltas \ {d}) \cup {e}
             /\ script'.phase = "local" /\ ~ script'.disturbed
             /\ script'.skipped = script.skipped
             /\ r.mxid # d.keep.mxid => <<r.address, r.mxid>> \in told'
<1> USE FoldParts
<1> DEFINE d == Current
           r == Newest(d.drop)
           e == [d EXCEPT !.drop = @ \ {r}]
           L == db.local \ RowsOf(db.local, r.address)
<1>1. /\ script.phase = "local" /\ script.deltas # {} /\ d.drop # {}
      /\ told' = told \cup IF NeedsMail(d, r) THEN {<<r.address, r.mxid>>} ELSE {}
      /\ db' = [db EXCEPT !.local = L]
      /\ script' = [script EXCEPT !.deltas = (@ \ {d}) \cup {e}]
  BY DEF DropRow
<1>2. d \in script.deltas /\ d \in Delta /\ r \in d.drop
  BY <1>1, DroppedRow
<1> HIDE DEF d, r
<1>3. e \in Delta /\ e.keep = d.keep /\ e.drop = d.drop \ {r} /\ e.folded = d.folded
  BY <1>2 DEF Delta
<1>4. DeltaFits(d)
  BY <1>1, <1>2 DEF ScriptInStep
<1>5. /\ r \in db.local /\ Casefold[r.address] = d.folded
      /\ d.keep \in db.local /\ Casefold[d.keep.address] = d.folded
      /\ d.keep # r /\ r.ts <= d.keep.ts
  BY <1>2, <1>4 DEF DeltaFits, GroupOf
<1>6. RowsOf(db.local, r.address) = {r}
  BY <1>5 DEF RowsOf, KeysFit
<1> HIDE DEF e
<1>7. /\ db'.local = db.local \ {r} /\ db'.oldLocal = db.oldLocal /\ db'.global = db.global
      /\ script'.deltas = (script.deltas \ {d}) \cup {e}
      /\ script'.phase = "local" /\ ~ script'.disturbed
      /\ script'.skipped = script.skipped
  BY <1>1, <1>6 DEF Shape
<1>8. r.mxid # d.keep.mxid => <<r.address, r.mxid>> \in told'
  BY <1>1 DEF NeedsMail
<1> QED
  BY <1>2, <1>3, <1>4, <1>5, <1>7, <1>8

LEMMA DropRowFolds ==
    ASSUME FoldInv, SchemaInv', DropRow
    PROVE  FoldInv'
<1> USE FoldParts
<1>1. /\ db'.local \subseteq db.local /\ db'.oldLocal = db.oldLocal
      /\ db'.global = db.global /\ script.phase = "local"
      /\ script'.phase = script.phase /\ script'.disturbed = script.disturbed
  BY DEF DropRow, Shape
<1>2. KeysFit(db'.local) /\ KeysFit(db'.oldLocal)
  BY <1>1 DEF KeysFit
<1>3. CASE script.disturbed
  BY <1>1, <1>2, <1>3, ScriptIdle DEF FoldInv, KeysFit
<1>4. CASE ~ script.disturbed
  <2>1. PICK d \in script.deltas, e \in Delta, r \in db.local :
             /\ DeltaFits(d) /\ r \in d.drop /\ Casefold[r.address] = d.folded
             /\ d.keep # r
             /\ e.folded = d.folded /\ e.keep = d.keep /\ e.drop = d.drop \ {r}
             /\ db'.local = db.local \ {r}
             /\ script'.deltas = (script.deltas \ {d}) \cup {e}
             /\ script'.skipped = script.skipped
    BY <1>4, DropRowIs
  <2>2. \A x : GroupOf(db'.local, x) = GroupOf(db.local, x) \ {r}
    BY <2>1 DEF GroupOf
  <2>3. \A x : x # d.folded => GroupOf(db'.local, x) = GroupOf(db.local, x)
    BY <2>1, <2>2 DEF GroupOf
  <2>4. /\ \A f, g \in script.deltas : f.folded = g.folded => f = g
        /\ \A f \in script.deltas : DeltaFits(f)
        /\ \A q \in db.global : q.origin = "own" => q.address \in Folded
        /\ ~ script.skipped =>
             \A x \in Folded : (\A f \in script.deltas : f.folded # x) => Settled(x)
    BY <1>1, <1>4 DEF ScriptInStep
  <2>5. \A f, g \in script'.deltas : f.folded = g.folded => f = g
    BY <2>1, <2>4
  <2>6. \A f \in script'.deltas : DeltaFits(f)'
    <3>1. DeltaFits(e)'
      BY <2>1, <2>2 DEF DeltaFits
    <3>2. \A f \in script.deltas \ {d} : DeltaFits(f)'
      BY <2>1, <2>3, <2>4 DEF DeltaFits
    <3> QED
      BY <2>1, <3>1, <3>2
  <2>7. ~ script'.skipped =>
           \A x \in Folded : (\A f \in script'.deltas : f.folded # x) => Settled(x)'
    <3> SUFFICES ASSUME ~ script.skipped, NEW x \in Folded,
                        \A f \in script'.deltas : f.folded # x
                 PROVE  Settled(x)'
      BY <2>1
    <3>1. x # d.folded /\ Settled(x)
      BY <2>1, <2>4
    <3> QED
      BY <2>3, <3>1 DEF Settled
  <2>8. ScriptInStep'
    BY <1>1, <1>4, <2>4, <2>5, <2>6, <2>7 DEF ScriptInStep
  <2> QED
    BY <1>2, <2>8 DEF FoldInv, KeysFit
<1> QED
  BY <1>3, <1>4

(* UpdateRow gives one row the folded address, which no other has, or it   *)
(* leaves the table alone.                                                 *)
LEMMA UpdateRowIs ==
    ASSUME FoldInv, UpdateRow, script' # NoScript
    PROVE  \E d \in script.deltas :
             /\ d.drop = {} /\ d.folded \in Folded
             /\ db'.oldLocal = db.oldLocal /\ db'.global = db.global
             /\ script'.deltas = script.deltas \ {d} /\ script.phase = "local"
             /\ script'.phase = "local" /\ script'.disturbed = script.disturbed
             /\ script'.skipped = script.skipped
             /\ \/ Matching(d) = {} /\ db'.local = db.local
                \/ \E r \in db.local, q \in LocalRow :
                     /\ Matching(d) = {r} /\ r.address = d.keep.address
                     /\ q.address = d.folded /\ q.mxid = r.mxid /\ q.ts = r.ts
                     /\ db'.local = (db.local \ {r}) \cup {q}
                     /\ \A p \in db.local \ {r} : p.address # d.folded
<1> USE FoldParts
<1> DEFINE d == Current
           M == Matching(d)
           New(r) == [r EXCEPT !.address = d.folded]
           L == (db.local \ M) \cup {New(r) : r \in M}
<1>1. /\ script.phase = "local" /\ script.deltas # {} /\ d.drop = {}
      /\ ~ Clashes(d) /\ db' = [db EXCEPT !.local = L] /\ script' = After(d)
  BY DEF UpdateRow
<1>2. d \in script.deltas /\ d \in Delta
  BY <1>1, CurrentOf DEF Shape
<1> HIDE DEF d, M, New
<1>3. /\ db'.local = L /\ db'.oldLocal = db.oldLocal /\ db'.global = db.global
      /\ script'.deltas = script.deltas \ {d}
      /\ script'.phase = "local" /\ script'.disturbed = script.disturbed
      /\ script'.skipped = script.skipped
  BY <1>1 DEF After, Shape
<1>4. d.folded \in Folded /\ d.folded \in Address
  BY <1>2, FoldedIsFolded DEF Delta
<1>5. CASE M = {}
  BY <1>1, <1>2, <1>3, <1>4, <1>5 DEF M
<1>6. CASE M # {}
  <2>1. PICK r \in M : r \in db.local /\ r.address = d.keep.address
    BY <1>6 DEF M, Matching
  <2>2. M = {r}
    BY <2>1 DEF M, Matching, KeysFit
  <2>3. /\ New(r) \in LocalRow /\ New(r).address = d.folded /\ New(r).mxid = r.mxid
        /\ New(r).ts = r.ts
    BY <1>4, <2>1 DEF New, Shape, LocalRow
  <2>4. L = (db.local \ {r}) \cup {New(r)}
    BY <2>2
  <2>5. \A p \in db.local \ {r} : p.address # d.folded
    BY <1>1, <1>6, <2>2 DEF Clashes, M
  <2> QED
    BY <1>1, <1>2, <1>3, <1>4, <2>1, <2>2, <2>3, <2>4, <2>5 DEF M
<1> QED
  BY <1>5, <1>6

LEMMA UpdateRowFolds ==
    ASSUME FoldInv, SchemaInv', UpdateRow
    PROVE  FoldInv'
<1> USE FoldParts
<1>1. CASE script' = NoScript
  <2>1. /\ db'.oldLocal = db.oldLocal /\ db'.global = db.global /\ db' = db
    BY <1>1 DEF UpdateRow, After, NoScript, Shape
  <2>2. ScriptInStep'
    BY <1>1, ScriptIdle DEF NoScript
  <2> QED
    BY <2>1, <2>2 DEF FoldInv, KeysFit
<1>2. CASE script' # NoScript
  <2>1. PICK d \in script.deltas :
             /\ d.drop = {} /\ d.folded \in Folded
             /\ db'.oldLocal = db.oldLocal /\ db'.global = db.global
             /\ script'.deltas = script.deltas \ {d} /\ script.phase = "local"
             /\ script'.phase = "local" /\ script'.disturbed = script.disturbed
             /\ script'.skipped = script.skipped
             /\ \/ Matching(d) = {} /\ db'.local = db.local
                \/ \E r \in db.local, q \in LocalRow :
                     /\ Matching(d) = {r} /\ r.address = d.keep.address
                     /\ q.address = d.folded /\ q.mxid = r.mxid /\ q.ts = r.ts
                     /\ db'.local = (db.local \ {r}) \cup {q}
                     /\ \A p \in db.local \ {r} : p.address # d.folded
    BY <1>2, UpdateRowIs
  <2>2. KeysFit(db'.local)
    BY <2>1 DEF KeysFit
  <2>3. CASE script.disturbed
    BY <2>1, <2>2, <2>3, ScriptIdle DEF FoldInv, KeysFit
  <2>4. CASE ~ script.disturbed
    <3>1. /\ \A f, g \in script.deltas : f.folded = g.folded => f = g
          /\ \A f \in script.deltas : DeltaFits(f)
          /\ \A q \in db.global : q.origin = "own" => q.address \in Folded
          /\ ~ script.skipped =>
               \A x \in Folded : (\A f \in script.deltas : f.folded # x) => Settled(x)
      BY <2>1, <2>4 DEF ScriptInStep
    <3>2. GroupOf(db.local, d.folded) = {d.keep}
      BY <2>1, <3>1 DEF DeltaFits
    <3>3. /\ \A x : x # d.folded => GroupOf(db'.local, x) = GroupOf(db.local, x)
          /\ Settled(d.folded)'
      <4>1. CASE Matching(d) = {} /\ db'.local = db.local
        <5>1. d.keep \in db.local /\ d.keep.mxid = NoMxid
          BY <3>2, <4>1 DEF GroupOf, Matching
        <5> QED
          BY <3>2, <4>1, <5>1 DEF Settled
      <4>2. ASSUME NEW r \in db.local, NEW q \in LocalRow,
                   Matching(d) = {r}, r.address = d.keep.address, q.address = d.folded,
                   db'.local = (db.local \ {r}) \cup {q}
            PROVE  /\ \A x : x # d.folded => GroupOf(db'.local, x) = GroupOf(db.local, x)
                   /\ Settled(d.folded)'
        <5>1. d.keep \in db.local /\ Casefold[d.keep.address] = d.folded
          BY <3>2 DEF GroupOf
        <5>2. Casefold[r.address] = d.folded /\ Casefold[q.address] = d.folded /\ r = d.keep
          BY <2>1, <4>2, <5>1, FoldedIsFolded DEF KeysFit
        <5>3. GroupOf(db'.local, d.folded) = {q}
          BY <3>2, <4>2, <5>2 DEF GroupOf
        <5>4. \A x : x # d.folded => GroupOf(db'.local, x) = GroupOf(db.local, x)
          BY <4>2, <5>2 DEF GroupOf
        <5> QED
          BY <2>1, <4>2, <5>3, <5>4 DEF Settled
      <4> QED
        BY <2>1, <4>1, <4>2
    <3>4. \A f \in script'.deltas : DeltaFits(f)'
      <4>1. \A f \in script.deltas \ {d} : f.folded # d.folded
        BY <3>1
      <4> QED
        BY <2>1, <3>1, <3>3, <4>1 DEF DeltaFits
    <3>5. ~ script'.skipped =>
             \A x \in Folded : (\A f \in script'.deltas : f.folded # x) => Settled(x)'
      <4> SUFFICES ASSUME ~ script.skipped, NEW x \in Folded,
                          \A f \in script'.deltas : f.folded # x
                   PROVE  Settled(x)'
        BY <2>1
      <4>1. CASE x = d.folded
        BY <3>3, <4>1
      <4>2. CASE x # d.folded
        <5>1. Settled(x)
          BY <2>1, <3>1, <4>2
        <5> QED
          BY <3>3, <4>2, <5>1 DEF Settled
      <4> QED
        BY <4>1, <4>2
    <3>6. ScriptInStep'
      BY <2>1, <2>4, <3>1, <3>4, <3>5 DEF ScriptInStep
    <3> QED
      BY <2>1, <2>2, <3>6 DEF FoldInv, KeysFit
  <2> QED
    BY <2>3, <2>4
<1> QED
  BY <1>1, <1>2

LEMMA InitFold == Init => FoldInv
<1> SUFFICES ASSUME Init PROVE FoldInv
  OBVIOUS
<1>1. SchemaInv
  BY InitSchema
<1>2. db.local = {} /\ db.oldLocal = {} /\ db.global = {} /\ script.phase = "none"
  BY DEF Init, SchemaInit, NoScript
<1> QED
  BY <1>1, <1>2 DEF FoldInv, KeysFit, ScriptInStep

LEMMA NextFold == FoldInv /\ [Next]_vars => FoldInv'
<1> SUFFICES ASSUME FoldInv, [Next]_vars PROVE FoldInv'
  OBVIOUS
<1>1. SchemaInv'
  BY FoldParts, NextSchema
<1>2. CASE UNCHANGED vars
  <2>1. db' = db /\ script' = script
    BY <1>2 DEF vars
  <2>2. ScriptInStep'
    BY <2>1, FoldParts DEF ScriptInStep, DeltaFits, Settled
  <2> QED
    BY <1>1, <2>1, <2>2, FoldParts DEF FoldInv, KeysFit
<1>3. CASE Next
  BY <1>1, <1>3, ServingFolds, StartUpFolds, WriteGlobalFolds, ReadLocalFolds,
     ScriptElseFolds, DropRowFolds, UpdateRowFolds DEF Next
<1> QED
  BY <1>2, <1>3

LEMMA FoldInvariant == Spec => []FoldInv
  BY InitFold, NextFold, PTL DEF Spec

(* update_local_associations: a run that could send every mail, and that   *)
(* nobody disturbed, leaves one row for all spellings of an address, and   *)
(* that one folded unless it stands for an unbind.                         *)
THEOREM CasefoldFoldsAll == Spec => []FoldedWhenDone
<1>1. FoldInv => FoldedWhenDone
  <2> SUFFICES ASSUME FoldInv, script.phase = "done", ~ script.skipped, ~ script.disturbed,
                      NEW r \in db.local, NEW q \in db.local
               PROVE  /\ Casefold[r.address] = Casefold[q.address] => r = q
                      /\ r.address \in Folded \/ r.mxid = NoMxid
    BY DEF FoldedWhenDone
  <2>1. \A x \in Folded : Settled(x)
    BY DEF FoldInv, ScriptInStep
  <2>2. Casefold[r.address] \in Folded /\ r \in GroupOf(db.local, Casefold[r.address])
    BY FoldParts DEF Shape, LocalRow, Folded, GroupOf
  <2>3. Casefold[r.address] = Casefold[q.address] => q \in GroupOf(db.local, Casefold[r.address])
    BY DEF GroupOf
  <2> QED
    BY <2>1, <2>2, <2>3 DEF Settled
<1> QED
  BY <1>1, FoldInvariant, PTL

-----------------------------------------------------------------------------
(* What lookups find *)

LEMMA NewestGlobal ==
    ASSUME Shape, NoneInFuture, NEW rows \in SUBSET db.global, rows # {}
    PROVE  /\ Newest(rows) \in rows /\ Newest(rows).mxid \in Mxid
           /\ \A q \in rows : q.ts <= Newest(rows).ts
<1>1. clock \in Nat /\ \A r \in db.global : r.ts \in Nat /\ r.ts <= clock /\ r.mxid \in Mxid
  BY DatabaseAssumption DEF Shape, NoneInFuture, GlobalRow
<1>2. Newest(rows) \in rows /\ \A q \in rows : q.ts <= Newest(rows).ts
  BY <1>1, NewestOf
<1> QED
  BY <1>1, <1>2

(* What lower() of SQLite finds for a folded address is of its group.      *)
LEMMA SpeltGroup ==
    ASSUME Shape, NEW x \in Folded
    PROVE  /\ Lower[x] = x
           /\ \A r \in db.global : Lower[r.address] = x => Casefold[r.address] = x
<1>1. x \in Address /\ Casefold[x] = x
  BY FoldedIsFolded
<1>2. \A r \in db.global : Casefold[Lower[r.address]] = Casefold[r.address]
  BY DatabaseAssumption DEF Shape, GlobalRow
<1>3. Lower[x] = x
  BY <1>1, DatabaseAssumption
<1> QED
  BY <1>1, <1>2, <1>3

(* Where all of a group are folded, all ways to look it up see the same    *)
(* rows.                                                                   *)
LEMMA SameRows ==
    ASSUME Shape, NEW x \in Folded, \A r \in GroupOf(db.global, x) : r.address = x
    PROVE  /\ Spelt(db.global, x) = RowsOf(db.global, x)
           /\ GroupOf(db.global, x) = RowsOf(db.global, x)
<1>1. Casefold[x] = x
  BY FoldedIsFolded
<1>2. GroupOf(db.global, x) = RowsOf(db.global, x)
  BY <1>1 DEF GroupOf, RowsOf
<1>3. \A r \in db.global : Lower[r.address] = Lower[x] <=> r.address = x
  BY SpeltGroup DEF GroupOf
<1> QED
  BY <1>2, <1>3 DEF Spelt, RowsOf

(* Where all of a group are folded, a lookup by any spelling finds the     *)
(* same.                                                                   *)
LEMMA FoldedLookup ==
    ASSUME Shape, NoneInFuture, NEW x \in Folded,
           \A r \in GroupOf(db.global, x) : r.address = x
    PROVE  BulkLookup(x) = Lookup(x)
<1> DEFINE R == RowsOf(db.global, x)
<1>1. Spelt(db.global, x) = R
  BY SameRows
<1>2. getMxid(x) = IF R = {} THEN NoMxid ELSE Newest(R).mxid
  BY <1>1 DEF getMxid
<1>3. \A r \in R : r.address = x
  BY DEF RowsOf
<1>4. getMxids(x) = {<<b, Newest(RowsOf(db.global, b)).mxid>> : b \in {r.address : r \in R}}
  BY <1>1 DEF getMxids
<1>5. R \in SUBSET db.global
  BY DEF RowsOf
<1>6. CASE R = {}
  BY <1>2, <1>4, <1>6 DEF BulkLookup, Lookup
<1>7. CASE R # {}
  <2>1. {r.address : r \in R} = {x}
    BY <1>3, <1>7
  <2>2. getMxids(x) = {<<x, Newest(R).mxid>>}
    BY <1>4, <2>1
  <2>3. Newest(R).mxid # NoMxid
    <3> HIDE DEF R
    <3> QED
      BY <1>5, <1>7, NewestGlobal DEF Mxid, NoMxid
  <2>4. Lookup(x) = {<<x, Newest(R).mxid>>}
    BY <1>2, <1>7, <2>3 DEF Lookup
  <2> QED
    BY <2>2, <2>4 DEF BulkLookup
<1> QED
  BY <1>6, <1>7

(* A row that its hash alone finds is the one that its address finds.      *)
LEMMA HashedLookup ==
    ASSUME Shape, NoneInFuture, NEW x \in Folded,
           \A r \in GroupOf(db.global, x) : r.address = x,
           Plain(x), db.pepper = Pepper, HashesFit
    PROVE  {<<x, m>> : m \in {retrieveMxidForHash(Hash(x, Pepper))} \ {NoMxid}} = Lookup(x)
<1> DEFINE R == RowsOf(db.global, x)
           M == {NoMxid} \cup {r.mxid : r \in R}
<1>1. Spelt(db.global, x) = R /\ GroupOf(db.global, x) = R
  BY SameRows
<1>2. {q \in db.global : q.hash = Hash(x, Pepper)} = R
  BY DEF HashesFit, Hash, RowsOf
<1>3. retrieveMxidForHash(Hash(x, Pepper)) = Max(M)
  BY <1>2 DEF retrieveMxidForHash
<1>4. \A r, q \in R : r = q
  BY <1>1 DEF Plain, RowsOf
<1>5. getMxid(x) = IF R = {} THEN NoMxid ELSE Newest(R).mxid
  BY <1>1 DEF getMxid
<1>6. CASE R = {}
  <2>1. M = {0}
    BY <1>6 DEF NoMxid
  <2>2. Max(M) = 0
    <3> HIDE DEF M
    <3> QED
      BY <2>1, MaxIs
  <2> QED
    BY <1>3, <1>5, <1>6, <2>2 DEF Lookup, NoMxid
<1>7. CASE R # {}
  <2> DEFINE n == Newest(R).mxid
  <2>1. Newest(R) \in R /\ n \in Mxid
    <3>1. R \in SUBSET db.global
      BY DEF RowsOf
    <3> HIDE DEF R
    <3> QED
      BY <1>7, <3>1, NewestGlobal
  <2>2. M = {0, n}
    BY <1>4, <2>1 DEF NoMxid
  <2>3. n \in Nat /\ 0 <= n
    BY <2>1, DatabaseAssumption DEF Mxid
  <2>4. Max(M) = n
    <3> HIDE DEF M, n
    <3> QED
      BY <2>2, <2>3, MaxIs
  <2> QED
    BY <1>3, <1>5, <1>7, <2>4 DEF Lookup
<1> QED
  BY <1>6, <1>7

(* Once the script is done, the lookup servlets give the same answer for   *)
(* every address of which an earlier release has not stored other Sydents' *)
(* spellings, which the script does not fold; the hashed lookup too, if no *)
(* spelling was bound twice.                                               *)
THEOREM LookupsAgreeWhenDone == Spec => []LookupsAgree
<1>1. FoldInv => LookupsAgree
  <2> SUFFICES ASSUME FoldInv, script.phase = "done", ~ script.disturbed, NEW x \in Folded,
                      \A r \in GroupOf(db.global, x) : r.origin = "other" => r.address = x
               PROVE  /\ BulkLookup(x) = Lookup(x)
                      /\ LookupV2("none", HashDetails, x) = Lookup(x)
                      /\ Plain(x) => LookupV2("sha256", HashDetails, x) = Lookup(x)
    BY DEF LookupsAgree
  <2>1. Shape /\ NoneInFuture /\ \A r \in db.global : r.origin = "own" => r.address \in Folded
    BY FoldParts DEF ScriptInStep
  <2>2. \A r \in GroupOf(db.global, x) : r.address = x
    <3> TAKE r \in GroupOf(db.global, x)
    <3>1. r \in db.global /\ Casefold[r.address] = x /\ r.origin \in {"own", "other"}
      BY <2>1 DEF GroupOf, Shape, GlobalRow
    <3> QED
      BY <2>1, <3>1, FoldedIsFolded
  <2>3. HashesFit /\ db.pepper = Pepper
    BY FoldParts, SchemaParts DEF ScriptFits, PhaseFits
  <2>4. BulkLookup(x) = Lookup(x)
    BY <2>1, <2>2, FoldedLookup
  <2>5. LookupV2("none", HashDetails, x) = getMxids(x)
    BY DEF LookupV2, HashDetails
  <2>6. LookupV2("sha256", HashDetails, x)
          = {<<x, m>> : m \in {retrieveMxidForHash(Hash(x, Pepper))} \ {NoMxid}}
    BY <2>3 DEF LookupV2, HashDetails
  <2>7. Plain(x) => LookupV2("sha256", HashDetails, x) = Lookup(x)
    BY <2>1, <2>2, <2>3, <2>6, HashedLookup
  <2> QED
    BY <2>4, <2>5, <2>7 DEF BulkLookup
<1> QED
  BY <1>1, FoldInvariant, PTL

-----------------------------------------------------------------------------
(* What a step of the script leaves *)

(* Of the steps that leave the script at work and undisturbed, three write *)
(* to the tables.                                                          *)
LEMMA ScriptSteps ==
    ASSUME FoldInv, [Next]_vars, ScriptRuns
    PROVE  \/ db' = db
           \/ WriteGlobal
           \/ DropRow
           \/ UpdateRow /\ script' # NoScript
<1>1. ~ Serving
  BY FoldParts, ScriptBesides DEF Serving, ScriptRuns
<1>2. StartUp => db' = db
  BY FoldParts, ServedStarts DEF SchemaInv, ScriptFits, ScriptRuns
<1>3. script' # NoScript
  BY DEF ScriptRuns, NoScript
<1> QED
  BY <1>1, <1>2, <1>3 DEF Next, vars, ReadGlobal, ReadLocal, SkipDelta, Finish, KillScript

LEMMA NewestIs ==
    ASSUME NEW tbl, NEW x, NEW n \in GroupOf(tbl, x), KeysFit(tbl), n.ts \in Nat,
           \A q \in GroupOf(tbl, x) : q.ts \in Nat /\ q.ts <= n.ts
    PROVE  NewestMxid(tbl, x) = n.mxid
<1>1. GroupOf(tbl, x) # {} /\ GroupOf(tbl, x) \subseteq tbl
  BY DEF GroupOf
<1>2. /\ Newest(GroupOf(tbl, x)) \in GroupOf(tbl, x)
      /\ \A q \in GroupOf(tbl, x) : q.ts <= Newest(GroupOf(tbl, x)).ts
  BY <1>1, NewestOf
<1>3. Newest(GroupOf(tbl, x)).ts = n.ts
  BY <1>2
<1>4. Newest(GroupOf(tbl, x)) = n
  BY <1>1, <1>2, <1>3 DEF KeysFit
<1> QED
  BY <1>1, <1>4 DEF NewestMxid

LEMMA DropRowKeeps ==
    ASSUME FoldInv, DropRow, ~ script.disturbed, NEW x \in Folded
    PROVE  NewestMxid(db'.local, x) = NewestMxid(db.local, x)
<1>1. PICK d \in script.deltas, r \in db.local :
         /\ DeltaFits(d) /\ r \in d.drop /\ Casefold[r.address] = d.folded
         /\ d.keep \in db.local /\ d.keep # r /\ Casefold[d.keep.address] = d.folded
         /\ db'.local = db.local \ {r}
  BY DropRowIs
<1>2. KeysFit(db.local) /\ KeysFit(db'.local)
  <2>1. KeysFit(db.local)
    BY FoldParts
  <2> QED
    BY <1>1, <2>1 DEF KeysFit
<1>3. CASE x # d.folded
  <2>1. GroupOf(db'.local, x) = GroupOf(db.local, x)
    BY <1>1, <1>3 DEF GroupOf
  <2> QED
    BY <2>1 DEF NewestMxid
<1>4. CASE x = d.folded
  <2>1. \A q \in db.local : q.ts \in Nat
    BY FoldParts DEF Shape, LocalRow
  <2>2. \A q \in GroupOf(db.local, x) : q.ts \in Nat /\ q.ts <= d.keep.ts
    BY <1>1, <1>4, <2>1 DEF DeltaFits, GroupOf
  <2>3. /\ d.keep \in GroupOf(db.local, x) /\ d.keep \in GroupOf(db'.local, x)
        /\ GroupOf(db'.local, x) \subseteq GroupOf(db.local, x)
    BY <1>1, <1>4 DEF GroupOf
  <2>4. NewestMxid(db.local, x) = d.keep.mxid
    BY <1>2, <2>2, <2>3, NewestIs
  <2>5. NewestMxid(db'.local, x) = d.keep.mxid
    BY <1>2, <2>2, <2>3, NewestIs
  <2> QED
    BY <2>4, <2>5
<1> QED
  BY <1>3, <1>4

(* As long as nobody else writes, the row that UpdateRow finds is the only *)
(* one of its group.                                                       *)
LEMMA UpdateRowGroup ==
    ASSUME FoldInv, UpdateRow, script' # NoScript, ~ script.disturbed
    PROVE  \/ db'.local = db.local
           \/ \E r \in db.local, q \in LocalRow :
                /\ q.mxid = r.mxid /\ q.ts = r.ts
                /\ q.address \in Folded /\ q.address = Casefold[r.address]
                /\ GroupOf(db.local, q.address) = {r}
                /\ db'.local = (db.local \ {r}) \cup {q}
<1>1. PICK d \in script.deltas :
         /\ d.drop = {} /\ d.folded \in Folded /\ script.phase = "local"
         /\ \/ Matching(d) = {} /\ db'.local = db.local
            \/ \E r \in db.local, q \in LocalRow :
                 /\ Matching(d) = {r} /\ r.address = d.keep.address
                 /\ q.address = d.folded /\ q.mxid = r.mxid /\ q.ts = r.ts
                 /\ db'.local = (db.local \ {r}) \cup {q}
  BY UpdateRowIs
<1>2. DeltaFits(d)
  BY <1>1, FoldParts DEF ScriptInStep
<1>3. GroupOf(db.local, d.folded) = {d.keep}
  BY <1>1, <1>2 DEF DeltaFits
<1>4. d.keep \in db.local /\ Casefold[d.keep.address] = d.folded
  BY <1>3 DEF GroupOf
<1>5. \A r \in db.local : r.address = d.keep.address => r = d.keep
  BY <1>4, FoldParts DEF KeysFit
<1> QED
  BY <1>1, <1>3, <1>4, <1>5

LEMMA UpdateRowKeeps ==
    ASSUME FoldInv, UpdateRow, script' # NoScript, ~ script.disturbed, NEW x \in Folded
    PROVE  NewestMxid(db'.local, x) = NewestMxid(db.local, x)
<1>1. CASE db'.local = db.local
  BY <1>1
<1>2. ASSUME NEW r \in db.local, NEW q \in LocalRow,
             q.mxid = r.mxid, q.ts = r.ts,
             q.address \in Folded, q.address = Casefold[r.address],
             GroupOf(db.local, q.address) = {r}, db'.local = (db.local \ {r}) \cup {q}
      PROVE  NewestMxid(db'.local, x) = NewestMxid(db.local, x)
  <2>1. Casefold[q.address] = q.address
    BY <1>2, FoldedIsFolded
  <2>2. CASE x = q.address
    <3>1. GroupOf(db'.local, x) = {q}
      BY <1>2, <2>1, <2>2 DEF GroupOf
    <3>2. Newest({q}) = q /\ Newest({r}) = r
      <4>1. q.ts <= q.ts /\ r.ts <= r.ts
        BY <1>2 DEF LocalRow
      <4> QED
        BY <4>1 DEF Newest
    <3> QED
      BY <1>2, <2>2, <3>1, <3>2 DEF NewestMxid
  <2>3. CASE x # q.address
    <3>1. GroupOf(db'.local, x) = GroupOf(db.local, x)
      BY <1>2, <2>1, <2>3 DEF GroupOf
    <3> QED
      BY <3>1 DEF NewestMxid
  <2> QED
    BY <2>2, <2>3
<1> QED
  BY <1>1, <1>2, UpdateRowGroup

(* update_local_associations: "it keeps the most recent association",      *)
(* whatever mail fails and wherever the script is killed.                  *)
THEOREM ScriptKeepsNewestLocal == Spec => CasefoldKeepsLocal
<1>1. ASSUME FoldInv, [Next]_vars, ScriptRuns
      PROVE  \A x \in Folded : NewestMxid(db'.local, x) = NewestMxid(db.local, x)
  <2>1. WriteGlobal => db'.local = db.local
    BY FoldParts DEF WriteGlobal, Shape
  <2>2. ~ script.disturbed
    BY <1>1 DEF ScriptRuns
  <2>3. \/ db'.local = db.local
        \/ DropRow
        \/ UpdateRow /\ script' # NoScript
    BY <1>1, <2>1, ScriptSteps
  <2> QED
    BY <1>1, <2>2, <2>3, DropRowKeeps, UpdateRowKeeps
<1>2. FoldInv /\ [Next]_vars =>
        [ScriptRuns =>
           \A x \in Folded : NewestMxid(db'.local, x) = NewestMxid(db.local, x)]_vars
  BY <1>1
<1> QED
  BY <1>2, FoldInvariant, PTL DEF Spec, CasefoldKeepsLocal

(* update_local_associations: the local table keeps a user's row until the *)
(* mail for it has gone out, so that a later run finds it again.  The      *)
(* global table, which lookups read, is no part of this.                   *)
THEOREM LocalRowsGoAfterMail == Spec => MailBeforeLocalDelete
<1>1. ASSUME FoldInv, [Next]_vars, ScriptRuns, NEW r \in db.local,
             \A q \in GroupOf(db'.local, Casefold[r.address]) : q.mxid # r.mxid
      PROVE  <<r.address, r.mxid>> \in told'
  <2>1. r \notin db'.local /\ ~ script.disturbed
    BY <1>1 DEF GroupOf, ScriptRuns
  <2>2. CASE DropRow
    <3>1. PICK d \in script.deltas, p \in db.local :
             /\ Casefold[p.address] = d.folded
             /\ d.keep \in db.local /\ d.keep # p /\ Casefold[d.keep.address] = d.folded
             /\ db'.local = db.local \ {p}
             /\ p.mxid # d.keep.mxid => <<p.address, p.mxid>> \in told'
      BY <1>1, <2>1, <2>2, DropRowIs
    <3>2. r = p
      BY <2>1, <3>1
    <3>3. d.keep \in GroupOf(db'.local, Casefold[r.address])
      BY <3>1, <3>2 DEF GroupOf
    <3> QED
      BY <1>1, <3>1, <3>2, <3>3
  <2>3. CASE UpdateRow /\ script' # NoScript
    <3>1. PICK p \in db.local, q \in LocalRow :
             /\ q.mxid = p.mxid /\ q.address \in Folded /\ q.address = Casefold[p.address]
             /\ db'.local = (db.local \ {p}) \cup {q}
      BY <1>1, <2>1, <2>3, UpdateRowGroup
    <3>2. r = p /\ Casefold[q.address] = q.address
      BY <2>1, <3>1, FoldedIsFolded
    <3>3. q \in GroupOf(db'.local, Casefold[r.address])
      BY <3>1, <3>2 DEF GroupOf
    <3> QED
      BY <1>1, <3>1, <3>2, <3>3
  <2>4. WriteGlobal => db'.local = db.local
    BY <1>1, FoldParts DEF WriteGlobal, Shape
  <2> QED
    BY <1>1, <2>1, <2>2, <2>3, <2>4, ScriptSteps
<1>2. FoldInv /\ [Next]_vars =>
        [ScriptRuns =>
           \A r \in db.local :
              (\A q \in GroupOf(db'.local, Casefold[r.address]) : q.mxid # r.mxid)
                  => <<r.address, r.mxid>> \in told']_vars
  BY <1>1
<1> QED
  BY <1>2, FoldInvariant, PTL DEF Spec, MailBeforeLocalDelete

(* update_global_associations: of a group whose spellings are told apart   *)
(* only the newest row stays.                                              *)
LEMMA DeletedLeaves ==
    ASSUME Shape, NoneInFuture, NEW x \in Folded, Plain(x), GroupOf(db.global, x) # {},
           script.seen = {r \in db.global : r.origin = "own"}
    PROVE  GroupOf(Deleted(db.global, script.seen), x) = {Newest(GroupOf(db.global, x))}
<1> DEFINE R == GroupOf(db.global, x)
           n == Newest(R)
           lost(y) == {r.address : r \in GroupOf(script.seen, y)
                                          \ {Newest(GroupOf(script.seen, y))}}
<1>1. /\ R \in SUBSET db.global /\ R # {}
      /\ \A r \in R : Casefold[r.address] = x
      /\ \A r \in db.global : Casefold[r.address] = x => r \in R
      /\ \A r, q \in R : r.origin = "own" /\ (r.address = q.address => r = q)
  BY DEF GroupOf, Plain
<1>2. GroupOf(script.seen, x) = R
  BY <1>1 DEF GroupOf
<1>3. \A y : \A r \in GroupOf(script.seen, y) : r \in db.global /\ Casefold[r.address] = y
  BY DEF GroupOf
<1>4. Deleted(db.global, script.seen)
        = {r \in db.global : \A y \in ToFix(script.seen) : r.address \notin lost(y)}
  BY DEF Deleted
<1> HIDE DEF R
<1>5. n \in R
  BY <1>1, NewestGlobal
<1>6. lost(x) = {r.address : r \in R \ {n}}
  BY <1>2
<1> HIDE DEF n
<1>7. ASSUME NEW y PROVE n.address \notin lost(y)
  <2>1. CASE y = x
    BY <1>1, <1>5, <1>6, <2>1
  <2>2. CASE y # x
    BY <1>1, <1>3, <1>5, <2>2
  <2> QED
    BY <2>1, <2>2
<1>8. ASSUME NEW r \in R, r \in Deleted(db.global, script.seen) PROVE r = n
  <2>1. CASE x \in ToFix(script.seen)
    BY <1>4, <1>6, <1>8, <2>1
  <2>2. CASE x \notin ToFix(script.seen)
    BY <1>1, <1>2, <1>5, <2>2 DEF ToFix, InRightState
  <2> QED
    BY <2>1, <2>2
<1>9. n \in Deleted(db.global, script.seen)
  BY <1>1, <1>4, <1>5, <1>7
<1>10. \A r : r \in GroupOf(Deleted(db.global, script.seen), x) <=>
                 r \in R /\ r \in Deleted(db.global, script.seen)
  BY <1>1, <1>4 DEF GroupOf
<1>11. GroupOf(Deleted(db.global, script.seen), x) = {n}
  BY <1>5, <1>8, <1>9, <1>10
<1> QED
  BY <1>11 DEF n, R

(* What is updated stays in its group.                                     *)
LEMMA RefoldedStays ==
    ASSUME NEW tbl \in SUBSET GlobalRow, NEW seen, NEW q \in tbl
    PROVE  \E r \in Refolded(tbl, seen) : Casefold[r.address] = Casefold[q.address]
<1> DEFINE New == [q EXCEPT !.address = Casefold[@],
                            !.hash = Hash(Casefold[q.address], db.pepper)]
<1>1. q \in Refolded(tbl, seen) \/ New \in Refolded(tbl, seen)
  <2> DEFINE kept == {Newest(GroupOf(seen, x)) : x \in ToFix(seen)}
             Hit(r) == \E k \in kept : k.address = r.address /\ k.mxid = r.mxid
             Img(r) == IF Hit(r) THEN [r EXCEPT !.address = Casefold[@],
                                                !.hash = Hash(Casefold[r.address], db.pepper)]
                       ELSE r
  <2>1. Refolded(tbl, seen) = {Img(r) : r \in tbl}
    BY DEF Refolded
  <2>2. Img(q) = q \/ Img(q) = New
    OBVIOUS
  <2> HIDE DEF Img, New
  <2>3. Img(q) \in Refolded(tbl, seen)
    BY <2>1
  <2> QED
    BY <2>2, <2>3
<1>2. New.address = Casefold[q.address] /\ Casefold[Casefold[q.address]] = Casefold[q.address]
  BY DatabaseAssumption DEF GlobalRow
<1> HIDE DEF New
<1> QED
  BY <1>1, <1>2

(* getMxid sees the whole group if lower() folds its spellings.            *)
LEMMA GetMxidIs ==
    ASSUME Shape, NEW x \in Folded, \A r \in GroupOf(db.global, x) : Lower[r.address] = x
    PROVE  getMxid(x) = NewestMxid(db.global, x)
<1>1. Spelt(db.global, x) = GroupOf(db.global, x)
  BY SpeltGroup DEF Spelt, GroupOf
<1> QED
  BY <1>1 DEF getMxid, NewestMxid

LEMMA WriteGlobalKeeps ==
    ASSUME FoldInv, FoldInv', WriteGlobal, ~ script.disturbed, NEW x \in Folded, Plain(x)
    PROVE  /\ NewestMxid(db'.global, x) = NewestMxid(db.global, x)
           /\ \A r \in GroupOf(db'.global, x) :
                 r.address = x \/ \E q \in GroupOf(db.global, x) : r.address = q.address
<1> USE FoldParts
<1> DEFINE D == Deleted(db.global, script.seen)
           G == Refolded(D, script.seen)
           R == GroupOf(db.global, x)
<1>1. db'.global = G /\ db.pepper = Pepper /\ script.seen = {r \in db.global : r.origin = "own"}
  <2>1. script.phase = "global" /\ db' = [db EXCEPT !.global = G]
    BY DEF WriteGlobal
  <2> HIDE DEF G
  <2> QED
    BY <2>1 DEF ScriptInStep, Shape, SchemaInv, ScriptFits, PhaseFits
<1>2. db.global \in SUBSET GlobalRow
  BY DEF Shape
<1>3. NewestMxid(db.global, x) = IF R = {} THEN NoMxid ELSE Newest(R).mxid
  BY DEF NewestMxid
<1>4. NewestMxid(db'.global, x) = IF GroupOf(G, x) = {} THEN NoMxid ELSE Newest(GroupOf(G, x)).mxid
  BY <1>1 DEF NewestMxid
<1>5. \A r \in G : \E q \in D :
         /\ r.mxid = q.mxid
         /\ r.address = q.address \/ r.address = Casefold[q.address]
  <2>1. \A r \in Refolded(Deleted(db.global, script.seen), script.seen) :
           /\ r \in GlobalRow
           /\ \E q \in db.global :
                 /\ q \in Deleted(db.global, script.seen)
                 /\ r.ts = q.ts /\ r.mxid = q.mxid /\ r.origin = q.origin
                 /\ r.originId = q.originId
                 /\ \/ r = q
                    \/ r.address = Casefold[q.address] /\ r.hash = Hash(r.address, Pepper)
    BY ONLY <1>1, <1>2, RefoldedRows
  <2> HIDE DEF D, G
  <2> QED
    BY <2>1 DEF D, G
<1>6. D \subseteq db.global
  BY DEF Deleted
<1>7. \A q \in D : q.address \in Address
  BY <1>2, <1>6 DEF GlobalRow
<1>8. \A r \in GroupOf(G, x) : \E q \in GroupOf(D, x) :
         r.mxid = q.mxid /\ (r.address = q.address \/ r.address = x)
  <2> HIDE DEF D, G
  <2> QED
    BY <1>5, <1>7, DatabaseAssumption DEF GroupOf
<1>9. \A r \in GroupOf(G, x) : r.address = x \/ \E q \in R : r.address = q.address
  BY <1>6, <1>8 DEF GroupOf
<1>10. CASE R = {}
  <2>1. GroupOf(D, x) = {}
    BY <1>6, <1>10 DEF GroupOf
  <2>2. GroupOf(G, x) = {}
    BY <1>8, <2>1
  <2> QED
    BY <1>1, <1>3, <1>4, <1>9, <1>10, <2>2
<1>11. CASE R # {}
  <2> DEFINE n == Newest(R)
  <2>1. GroupOf(D, x) = {n}
    BY <1>1, <1>11, DeletedLeaves
  <2> HIDE DEF n
  <2>2. \A r \in GroupOf(G, x) : r.mxid = n.mxid
    BY <1>8, <2>1
  <2>3. GroupOf(G, x) # {}
    <3>1. n \in D /\ Casefold[n.address] = x
      BY <2>1 DEF GroupOf
    <3>2. \E r \in G : Casefold[r.address] = x
      <4>1. D \in SUBSET GlobalRow
        BY <1>2, <1>6
      <4> HIDE DEF D
      <4> QED
        BY <3>1, <4>1, RefoldedStays
    <3> QED
      BY <3>2 DEF GroupOf
  <2>4. Newest(GroupOf(G, x)) \in GroupOf(G, x)
    <3>1. GroupOf(G, x) = GroupOf(db.global, x)'
      BY <1>1 DEF GroupOf
    <3>2. Shape' /\ NoneInFuture'
      BY FoldParts, PTL
    <3>3. clock' \in Nat /\ \A r \in db'.global : r.ts \in Nat /\ r.ts <= clock'
      BY <3>2, DatabaseAssumption DEF Shape, NoneInFuture, GlobalRow
    <3>4. \A r \in GroupOf(G, x) : r.ts \in Nat /\ r.ts <= clock'
      BY <1>1, <3>3 DEF GroupOf
    <3> QED
      BY <2>3, <3>3, <3>4, NewestOf
  <2> QED
    BY <1>1, <1>3, <1>4, <1>9, <1>11, <2>2, <2>3, <2>4 DEF n
<1> QED
  BY <1>10, <1>11

(* update_global_associations: if no spelling of an address was bound      *)
(* twice and nobody else has bound it, its newest association stays in the *)
(* global table, under the hash of its address; and getMxid answers as     *)
(* before if lower() folds all its spellings.                              *)
THEOREM ScriptKeepsGlobal == Spec => CasefoldKeepsGlobal
<1> DEFINE Kept(x) ==
             /\ NewestMxid(db'.global, x) = NewestMxid(db.global, x)
             /\ (\A r \in GroupOf(db.global, x) : Lower[r.address] = x)
                   => getMxid(x)' = getMxid(x)
             /\ \A r \in GroupOf(db'.global, x) : r.hash = Hash(r.address, db.pepper)
<1>1. ASSUME FoldInv, FoldInv', [Next]_vars, ScriptRuns, NEW x \in Folded, Plain(x)
      PROVE  Kept(x)
  <2>1. db'.pepper = Pepper /\ db.pepper = Pepper /\ HashesFit'
    <3>1. db.pepper = Pepper
      BY <1>1, FoldParts DEF SchemaInv, ScriptFits, PhaseFits, ScriptRuns
    <3>2. SchemaInv'
      BY <1>1, FoldParts, PTL
    <3> QED
      BY <1>1, <3>1, <3>2 DEF SchemaInv, ScriptFits, PhaseFits, ScriptRuns
  <2>2. \A r \in GroupOf(db'.global, x) : r.hash = Hash(r.address, db.pepper)
    BY <2>1 DEF HashesFit, GroupOf
  <2>3. /\ NewestMxid(db'.global, x) = NewestMxid(db.global, x)
        /\ \A r \in GroupOf(db'.global, x) :
              r.address = x \/ \E q \in GroupOf(db.global, x) : r.address = q.address
    <3>1. DropRow \/ UpdateRow => db'.global = db.global
      BY <1>1, FoldParts DEF DropRow, UpdateRow, Shape
    <3>2. ~ script.disturbed
      BY <1>1 DEF ScriptRuns
    <3> QED
      BY <1>1, <3>1, <3>2, ScriptSteps, WriteGlobalKeeps
  <2>4. ASSUME \A r \in GroupOf(db.global, x) : Lower[r.address] = x
        PROVE  getMxid(x)' = getMxid(x)
    <3>1. Shape /\ Shape'
      BY <1>1, FoldParts, PTL
    <3>2. getMxid(x) = NewestMxid(db.global, x)
      BY <2>4, <3>1, GetMxidIs
    <3>3. \A r \in GroupOf(db'.global, x) : Lower[r.address] = x
      BY <2>3, <2>4, <3>1, SpeltGroup
    <3>4. Spelt(db'.global, x) = GroupOf(db'.global, x)
      <4>1. \A r \in db'.global : Casefold[Lower[r.address]] = Casefold[r.address]
        BY <3>1, DatabaseAssumption DEF Shape, GlobalRow
      <4> QED
        BY <3>1, <3>3, <4>1, SpeltGroup, FoldedIsFolded DEF Spelt, GroupOf
    <3>5. getMxid(x)' = NewestMxid(db'.global, x)
      BY <3>4 DEF getMxid, NewestMxid
    <3> QED
      BY <2>3, <3>2, <3>5
  <2> QED
    BY <2>2, <2>3, <2>4
<1>2. FoldInv /\ FoldInv' /\ [Next]_vars =>
        [ScriptRuns => \A x \in Folded : Plain(x) => Kept(x)]_vars
  <2> HIDE DEF Kept
  <2> QED
    BY <1>1
<1> QED
  BY <1>2, FoldInvariant, PTL DEF Spec, CasefoldKeepsGlobal

-----------------------------------------------------------------------------
(* The ids of the local table, and a bind on top of what was there *)

NoGaps(rows) == Ids(rows) = 1..Cardinality(rows)

(* What the first block of _upgradeSchema has to copy, or has copied       *)
ToCopy == IF "old_local" \in db.objects THEN db.oldLocal ELSE db.local

OwnBelow(n) == \A g \in db.global : g.origin = "own" => g.originId <= n

(* lastIdFromServer never gets ahead of the ids that binds will take: not  *)
(* of the largest id of the old release, nor, if its ids had no gaps, of   *)
(* the number of its rows, from which the copy goes on.                    *)
NumbersFit ==
    /\ IsFiniteSet(history.rows)
    /\ process.phase = "old" =>
         \A g \in db.global : g.origin = "own" => \E r \in db.local : g.originId <= r.id
    /\ process.phase # "old" /\ db.version = 0 =>
         /\ Cardinality(ToCopy) = Cardinality(history.rows)
         /\ NoGaps(history.rows) => OwnBelow(Cardinality(history.rows))
    /\ process.phase # "old" /\ Position >= 5 =>
         /\ \A r \in db.local : r.id <= db.seq
         /\ NoGaps(history.rows) => OwnBelow(db.seq)

LEMMA RenumberedIds ==
    ASSUME NEW tbl \in SUBSET LocalRow, IsFiniteSet(tbl), KeysFit(tbl)
    PROVE  /\ Cardinality(Renumbered(tbl)) = Cardinality(tbl)
           /\ \A r \in Renumbered(tbl) : r.id <= Cardinality(tbl)
<1> DEFINE Low(r) == {i \in Ids(tbl) : i <= r.id}
           New(r) == [r EXCEPT !.id = Cardinality(Low(r))]
<1>1. Renumbered(tbl) = {New(r) : r \in tbl}
  BY DEF Renumbered
<1>2. \A r \in tbl : New(r).address = r.address /\ New(r).id = Cardinality(Low(r))
  BY DEF LocalRow
<1>3. IsFiniteSet(Ids(tbl)) /\ Cardinality(Ids(tbl)) <= Cardinality(tbl)
  <2> DEFINE f == [r \in tbl |-> r.id]
  <2>1. Ids(tbl) = {f[r] : r \in tbl} /\ DOMAIN f = tbl
    BY DEF Ids
  <2> HIDE DEF f
  <2> QED
    BY <2>1, FiniteImage
<1>4. ASSUME NEW r \in tbl PROVE Cardinality(Low(r)) <= Cardinality(tbl)
  <2>1. Low(r) \in SUBSET Ids(tbl)
    OBVIOUS
  <2> HIDE DEF Low
  <2>2. Cardinality(Low(r)) <= Cardinality(Ids(tbl)) /\ IsFiniteSet(Low(r))
    BY <1>3, <2>1, FS_Subset
  <2>3. /\ Cardinality(Low(r)) \in Nat /\ Cardinality(Ids(tbl)) \in Nat
        /\ Cardinality(tbl) \in Nat
    BY <1>3, <2>2, FS_CardinalityType
  <2> QED
    BY <1>3, <2>2, <2>3
<1> HIDE DEF New, Low
<1>5. Cardinality(Renumbered(tbl)) = Cardinality(tbl)
  <2> DEFINE f == [r \in tbl |-> New(r)]
  <2>1. Renumbered(tbl) = {f[r] : r \in tbl} /\ DOMAIN f = tbl
    BY <1>1
  <2>2. \A r, q \in tbl : f[r] = f[q] => r = q
    BY <1>2 DEF KeysFit
  <2> HIDE DEF f
  <2> QED
    BY <2>1, <2>2, FiniteImage
<1> QED
  BY <1>1, <1>2, <1>4, <1>5

(* A step that leaves the ids, or takes a new one for what it adds         *)
LEMMA ServedNumbers ==
    ASSUME SchemaInv, NumbersFit, history.served, process'.phase # "old",
           history'.rows = history.rows, db'.version = 5, db'.seq \in Nat,
           db.seq <= db'.seq,
           \A r \in db'.local : r.id <= db'.seq \/ \E q \in db.local : q.id = r.id,
           \A g \in db'.global : \/ g.origin # "own"
                                 \/ g.originId <= db'.seq
                                 \/ \E h \in db.global : /\ h.origin = g.origin
                                                         /\ h.originId = g.originId
    PROVE  NumbersFit'
<1> USE SchemaParts
<1>1. process.phase # "old" /\ Position >= 5
  BY ServedFits DEF PhaseFits
<1>2. db.seq \in Nat /\ \A r \in db.local : r.id \in Nat /\ r.id <= db.seq
  BY <1>1 DEF NumbersFit, Shape, LocalRow
<1>3. \A r \in db'.local : r.id <= db'.seq
  BY <1>2
<1>4. \A h \in db.global : h.originId \in Nat
  BY DEF Shape, GlobalRow
<1>5. NoGaps(history.rows) => OwnBelow(db.seq)
  BY <1>1 DEF NumbersFit
<1>6. NoGaps(history'.rows) => \A g \in db'.global : g.origin = "own" => g.originId <= db'.seq
  BY <1>2, <1>4, <1>5 DEF OwnBelow, NoGaps
<1> QED
  BY <1>3, <1>6 DEF NumbersFit, OwnBelow, NoGaps

LEMMA WriteLocalNumbers ==
    ASSUME SchemaInv, NumbersFit, UNCHANGED history,
           NEW a \in Address, NEW m \in Mxid \cup {NoMxid}, WriteLocal(a, m)
    PROVE  NumbersFit'
<1> USE SchemaParts
<1>1. /\ process.phase = "serving" /\ process' = process
      /\ db' = [db EXCEPT !.local = Replaced(a, m), !.seq = @ + 1,
                          !.global = Pushed(@, Replaced(a, m), db.pepper)]
  BY DEF WriteLocal
<1>2. history.served /\ db.version = 5 /\ db.pepper = Pepper
  BY <1>1 DEF PhaseFits
<1>3. /\ db'.local = Replaced(a, m) /\ db'.seq = db.seq + 1 /\ db'.version = db.version
      /\ db'.global = Pushed(db.global, Replaced(a, m), Pepper) /\ db.seq \in Nat
  BY <1>1, <1>2 DEF Shape
<1>4. \A r \in Replaced(a, m) : r.id = db.seq + 1 \/ r \in db.local
  BY DEF Replaced
<1>5. \A r \in db.local : r.id \in Nat /\ r.id <= db.seq
  BY <1>1, <1>2, ServedFits DEF NumbersFit, Shape, LocalRow
<1>6. \A r \in db'.local : r.id <= db'.seq
  BY <1>3, <1>4, <1>5
<1>7. Replaced(a, m) \in SUBSET LocalRow /\ db.global \in SUBSET GlobalRow
  BY ReplacedRows DEF Shape
<1>8. \A g \in db'.global : g \in db.global \/ \E x \in Replaced(a, m) : g.originId = x.id
  BY <1>3, <1>7, PushedRows
<1>9. \A g \in db'.global : g.originId <= db'.seq \/ g \in db.global
  BY <1>3, <1>6, <1>8
<1> QED
  BY <1>1, <1>2, <1>3, <1>6, <1>9, ServedNumbers

(* A bind of the old release takes an id above all that are there.         *)
LEMMA OldBindNumbers ==
    ASSUME SchemaInv, NumbersFit, UNCHANGED history,
           NEW a \in Address, NEW m \in Mxid, OldBind(a, m)
    PROVE  NumbersFit'
<1> USE SchemaParts
<1> DEFINE id == 1 + Max({0} \cup Ids(db.local))
           l == [id |-> id, address |-> a, mxid |-> m, ts |-> clock + 1]
           g == [address |-> a, mxid |-> m, ts |-> clock + 1,
                 origin |-> "own", originId |-> id, hash |-> NoHash]
<1>1. /\ db' = [db EXCEPT !.local = (@ \ RowsOf(@, a)) \cup {l}, !.global = @ \cup {g}]
      /\ process.phase = "old" /\ process' = process
  BY DEF OldBind
<1>2. l.id = id /\ g.originId = id
  OBVIOUS
<1> HIDE DEF l, g
<1>3. l \in db'.local /\ db'.global = db.global \cup {g}
  BY <1>1 DEF Shape
<1>4. id \in Nat /\ \A r \in db.local : r.id \in Nat /\ r.id <= id
  <2>1. /\ Max({0} \cup Ids(db.local)) \in 0..clock
        /\ \A r \in db.local : r.id <= Max({0} \cup Ids(db.local))
    BY <1>1, OldIds DEF PhaseFits
  <2>2. clock \in Nat /\ \A r \in db.local : r.id \in Nat
    BY DatabaseAssumption DEF Shape, LocalRow
  <2>3. PICK k \in 0..clock : Max({0} \cup Ids(db.local)) = k
    BY <2>1
  <2>4. id = 1 + k /\ \A r \in db.local : r.id <= k
    BY <2>1, <2>3
  <2> HIDE DEF id
  <2> QED
    BY <2>2, <2>4
<1>5. \A h \in db.global : h.originId \in Nat
  BY DEF Shape, GlobalRow
<1> HIDE DEF id
<1>6. \A h \in db.global : h.origin = "own" => h.originId <= id
  <2> TAKE h \in db.global
  <2> HAVE h.origin = "own"
  <2>1. PICK r \in db.local : h.originId <= r.id
    BY <1>1 DEF NumbersFit
  <2> QED
    BY <1>4, <1>5, <2>1
<1>7. \A h \in db'.global : h.origin = "own" => h.originId <= l.id
  BY <1>2, <1>3, <1>4, <1>6
<1> QED
  BY <1>1, <1>3, <1>7 DEF NumbersFit

LEMMA ServingNumbers ==
    ASSUME SchemaInv, NumbersFit, Serving
    PROVE  NumbersFit'
<1> USE SchemaParts
<1> PICK a \in Address, m \in Mxid :
       \/ Bind(a, m) \/ Unbind(a, m) \/ Replicated(a, m)
       \/ OldBind(a, m) \/ OldReplicated(a, m)
  BY DEF Serving
<1>1. UNCHANGED history /\ Casefold[a] \in Address
  BY DatabaseAssumption DEF Serving
<1>2. CASE Bind(a, m) \/ Unbind(a, m)
  <2>1. CASE PushesOnly
    <3>1. /\ history.served /\ db'.local = db.local /\ db'.seq = db.seq
          /\ db'.version = db.version /\ process' = process
          /\ db'.global = Pushed(db.global, db.local, Pepper)
      BY <2>1, PushesIs DEF PushesOnly
    <3>2. db.seq \in Nat /\ db.seq <= db.seq /\ process.phase # "old" /\ db.version = 5
      BY <2>1, <3>1 DEF Shape, PushesOnly, PhaseFits
    <3>3. \A r \in db.local : r.id <= db.seq
      BY <3>1, <3>2, ServedFits DEF NumbersFit
    <3>4. \A g \in db'.global : g \in db.global \/ \E x \in db.local : g.originId = x.id
      BY <3>1, PushedRows DEF Shape
    <3> QED
      BY <1>1, <3>1, <3>2, <3>3, <3>4, ServedNumbers
  <2> QED
    BY <1>1, <1>2, <2>1, UnbindIs, WriteLocalNumbers DEF Bind
<1>3. CASE Replicated(a, m)
  <2> DEFINE new == [address |-> Casefold[a], mxid |-> m, ts |-> clock + 1,
                     origin |-> "other", originId |-> clock + 1,
                     hash |-> Hash(Casefold[a], db.pepper)]
  <2>1. /\ db' = [db EXCEPT !.global = @ \cup {new}] /\ new.origin = "other"
        /\ process.phase = "serving" /\ process' = process
    BY <1>3 DEF Replicated
  <2> HIDE DEF new
  <2>2. /\ db'.local = db.local /\ db'.global = db.global \cup {new}
        /\ db'.seq = db.seq /\ db.seq \in Nat /\ db.seq <= db.seq /\ db'.version = db.version
    BY <2>1 DEF Shape
  <2>3. history.served /\ db.version = 5
    BY <2>1 DEF PhaseFits
  <2> QED
    BY <1>1, <2>1, <2>2, <2>3, ServedNumbers
<1>4. CASE OldBind(a, m)
  BY <1>1, <1>4, OldBindNumbers
<1>5. CASE OldReplicated(a, m)
  <2> DEFINE g == [address |-> a, mxid |-> m, ts |-> clock + 1,
                   origin |-> "other", originId |-> clock + 1, hash |-> NoHash]
  <2>1. /\ db' = [db EXCEPT !.global = @ \cup {g}] /\ g.origin = "other"
        /\ process.phase = "old" /\ process' = process
    BY <1>5 DEF OldReplicated
  <2> HIDE DEF g
  <2>2. db'.local = db.local /\ db'.global = db.global \cup {g}
    BY <2>1 DEF Shape
  <2> QED
    BY <1>1, <2>1, <2>2 DEF NumbersFit
<1> QED
  BY <1>2, <1>3, <1>4, <1>5

(* The script keeps the ids of the rows it leaves.                         *)
LEMMA ScriptNumbers ==
    ASSUME SchemaInv, NumbersFit, script.phase # "none", UNCHANGED <<process, history>>,
           db' = db \/ WriteGlobal \/ DropRow \/ UpdateRow
    PROVE  NumbersFit'
<1> USE SchemaParts
<1>1. history.served /\ db.version = 5 /\ db.pepper = Pepper /\ process'.phase # "old"
  BY DEF ScriptFits, PhaseFits
<1>2. db.seq \in Nat /\ db.seq <= db.seq /\ db.local \subseteq LocalRow
  BY DEF Shape
<1>3. CASE db' = db
  BY <1>1, <1>2, <1>3, ServedNumbers
<1>4. CASE WriteGlobal
  <2> DEFINE G == Refolded(Deleted(db.global, script.seen), script.seen)
  <2>1. db' = [db EXCEPT !.global = G]
    BY <1>4 DEF WriteGlobal
  <2>2. \A r \in G : \E q \in db.global : r.origin = q.origin /\ r.originId = q.originId
    BY <1>1, RefoldedRows DEF Shape
  <2> HIDE DEF G
  <2>3. /\ db'.local = db.local /\ db'.global = G /\ db'.seq = db.seq
        /\ db'.version = db.version
    BY <2>1 DEF Shape
  <2> QED
    BY <1>1, <1>2, <2>2, <2>3, ServedNumbers
<1>5. ASSUME NEW L, db' = [db EXCEPT !.local = L],
             \A r \in L : \E q \in db.local : q.id = r.id
      PROVE  NumbersFit'
  <2>1. /\ db'.local = L /\ db'.global = db.global /\ db'.seq = db.seq
        /\ db'.version = db.version
    BY <1>5 DEF Shape
  <2> QED
    BY <1>1, <1>2, <1>5, <2>1, ServedNumbers
<1>6. CASE DropRow
  <2> DEFINE L == db.local \ RowsOf(db.local, Newest(Current.drop).address)
  <2>1. db' = [db EXCEPT !.local = L] /\ \A r \in L : \E q \in db.local : q.id = r.id
    BY <1>6 DEF DropRow
  <2> HIDE DEF L
  <2> QED
    BY <1>5, <2>1
<1>7. CASE UpdateRow
  <2> DEFINE M == Matching(Current)
             New(r) == [r EXCEPT !.address = Current.folded]
             L == (db.local \ M) \cup {New(r) : r \in M}
  <2>1. db' = [db EXCEPT !.local = L] \/ db' = db
    BY <1>7 DEF UpdateRow
  <2>2. \A r \in M : r \in db.local
    BY DEF Matching
  <2> HIDE DEF M
  <2>3. \A r \in M : New(r).id = r.id
    BY <1>2, <2>2 DEF LocalRow
  <2> HIDE DEF New
  <2>4. \A r \in L : \E q \in db.local : q.id = r.id
    BY <2>2, <2>3
  <2> HIDE DEF L
  <2> QED
    BY <1>3, <1>5, <2>1, <2>4
<1> QED
  BY <1>3, <1>4, <1>6, <1>7

LEMMA StartNumbers ==
    ASSUME SchemaInv, NumbersFit, Start
    PROVE  NumbersFit'
<1> USE SchemaParts
<1>1. /\ process.phase \in {"old", "down"}
      /\ process' = At(FirstStatement(db.version))
      /\ db' = IF db.version = 0 THEN [db EXCEPT !.objects = @ \cup Version0] ELSE db
      /\ history' = IF process.phase = "old" THEN [history EXCEPT !.rows = db.local]
                    ELSE history
  BY DEF Start
<1>2. /\ db'.version = db.version /\ db'.local = db.local /\ db'.oldLocal = db.oldLocal
      /\ db'.global = db.global /\ db'.seq = db.seq
      /\ "old_local" \in db'.objects <=> "old_local" \in db.objects
  BY <1>1 DEF Shape, Version0
<1>3. ToCopy' = ToCopy
  BY <1>2 DEF ToCopy
<1>4. process'.phase # "old" /\ Position' = FirstStatement(db.version) /\ Position = Position'
  BY <1>1 DEF At, Position
<1>5. CASE process.phase = "down"
  <2>1. history' = history
    BY <1>1, <1>5
  <2> QED
    BY <1>2, <1>3, <1>4, <1>5, <2>1 DEF NumbersFit, OwnBelow, NoGaps
<1>6. CASE process.phase = "old"
  <2>1. /\ db.version = 0 /\ "old_local" \notin db.objects
        /\ history'.rows = db.local /\ IsFiniteSet(db.local)
    BY <1>1, <1>6 DEF PhaseFits, Shape, Version0
  <2>2. ToCopy' = db.local
    BY <1>3, <2>1 DEF ToCopy
  <2>3. Position' = 1
    BY <1>4, <2>1, VersionsFit
  <2>4. ASSUME NoGaps(db.local), NEW g \in db.global, g.origin = "own"
        PROVE  g.originId <= Cardinality(db.local)
    <3>1. PICK r \in db.local : g.originId <= r.id
      BY <1>6, <2>4 DEF NumbersFit
    <3>2. r.id \in 1..Cardinality(db.local)
      BY <2>4 DEF NoGaps, Ids
    <3>3. g.originId \in Nat /\ Cardinality(db.local) \in Nat
      BY <2>1, FS_CardinalityType DEF Shape, GlobalRow
    <3> QED
      BY <3>1, <3>2, <3>3
  <2> QED
    BY <1>2, <1>4, <2>1, <2>2, <2>3, <2>4 DEF NumbersFit, OwnBelow, NoGaps
<1> QED
  BY <1>1, <1>5, <1>6

LEMMA ExecuteNumbers ==
    ASSUME SchemaInv, NumbersFit, KeysFit(db.oldLocal), Execute
    PROVE  NumbersFit'
<1> USE SchemaParts
<1> DEFINE i == process.at
           s == Upgrade[i]
           n == Cardinality(history.rows)
<1>1. /\ process.phase = "starting" /\ i \in 1..20 /\ db.version = VersionAt(i)
      /\ s.needs \subseteq db.objects /\ s.forbids \cap db.objects = {}
      /\ db' = Effect(s)
      /\ process' = [phase |-> "starting", at |-> i + 1] /\ history' = history
  BY UpgradeIs DEF Execute, Runs, At, PhaseFits
<1>2. /\ db'.objects = (db.objects \ s.drops) \cup s.adds /\ db'.global = db.global
      /\ db'.version = IF VersionAt(i + 1) = VersionAt(i) THEN db.version ELSE VersionAt(i + 1)
      /\ i \notin {2, 4} => db'.local = db.local /\ db'.oldLocal = db.oldLocal
      /\ i = 2 => db'.local = {} /\ db'.oldLocal = db.local
      /\ i = 4 => db'.local = Renumbered(db.oldLocal) /\ db'.oldLocal = {}
      /\ db'.seq = IF i = 4 THEN Cardinality(db.oldLocal) ELSE db.seq
  BY <1>1, EffectIs
<1>3. /\ "old_local" \in s.drops <=> i = 4
      /\ i = 2 => "old_local" \in s.forbids
      /\ i = 4 => "old_local" \in s.needs /\ "old_local" \notin s.adds
      /\ "old_local" \in s.adds <=> i = 2
  <2>1. i = 4 => "old_local" \in s.needs
    BY UpgradeIs DEF Statement
  <2> QED
    BY <1>1, <2>1, StatementObjects
<1>4. Position = i /\ Position' = i + 1 /\ process.phase # "old" /\ process'.phase # "old"
  BY <1>1 DEF Position
<1> HIDE DEF i, s
<1>5. db'.version = VersionAt(i + 1)
  BY <1>1, <1>2
<1>6. /\ db'.version = 0 => i <= 4
      /\ i <= 4 => db.version = 0
  BY <1>1, <1>5 DEF VersionAt
<1>7. i = 4 => ToCopy = db.oldLocal
  BY <1>1, <1>3 DEF ToCopy
<1>8. /\ Cardinality(Renumbered(db.oldLocal)) = Cardinality(db.oldLocal)
      /\ \A r \in Renumbered(db.oldLocal) : r.id <= Cardinality(db.oldLocal)
  BY RenumberedIds DEF Shape
<1>9. i <= 4 => Cardinality(ToCopy') = Cardinality(ToCopy)
  <2>1. CASE i \notin {2, 4}
    BY <1>2, <1>3, <2>1 DEF ToCopy
  <2>2. CASE i = 2
    BY <1>1, <1>2, <1>3, <2>2 DEF ToCopy
  <2>3. CASE i = 4
    <3>1. ToCopy' = Renumbered(db.oldLocal)
      BY <1>2, <1>3, <2>3 DEF ToCopy
    <3> QED
      BY <1>7, <1>8, <2>3, <3>1
  <2> QED
    BY <2>1, <2>2, <2>3
<1>10. i <= 4 => /\ Cardinality(ToCopy) = n
                 /\ NoGaps(history.rows) => OwnBelow(n)
  BY <1>4, <1>6 DEF NumbersFit
<1>11. OwnBelow(n)' = OwnBelow(n) /\ NoGaps(history.rows)' = NoGaps(history.rows)
  BY <1>1, <1>2 DEF OwnBelow, NoGaps
<1>12. db'.version = 0 => /\ Cardinality(ToCopy') = n
                          /\ NoGaps(history.rows) => OwnBelow(n)
  BY <1>6, <1>9, <1>10
<1>13. i >= 4 => /\ \A r \in db'.local : r.id <= db'.seq
                 /\ NoGaps(history.rows) =>
                       \A g \in db'.global : g.origin = "own" => g.originId <= db'.seq
  <2>1. CASE i = 4
    BY <1>2, <1>7, <1>8, <1>10, <2>1 DEF OwnBelow
  <2>2. CASE i > 4
    BY <1>1, <1>2, <1>4, <2>2 DEF NumbersFit, OwnBelow
  <2> QED
    BY <1>1, <2>1, <2>2
<1>14. Position' >= 5 => i >= 4
  BY <1>1, <1>4
<1> QED
  BY <1>1, <1>2, <1>4, <1>12, <1>13, <1>14 DEF NumbersFit, OwnBelow, NoGaps

LEMMA StopNumbers ==
    ASSUME SchemaInv, NumbersFit, Kill \/ ExecuteFails
    PROVE  NumbersFit'
<1> USE SchemaParts
<1>1. process' = Down /\ process.phase \in {"starting", "serving"} /\ db' = db
  BY DEF Kill, ExecuteFails
<1>2. history'.rows = history.rows
  BY DEF Kill, ExecuteFails, Shape
<1>3. process'.phase = "down" /\ Position' = FirstStatement(db.version)
  BY <1>1 DEF Down, Position
<1>4. Position' >= 5 => Position >= 5
  <2>1. CASE process.phase = "starting"
    <3>1. process.at \in 1..21 /\ FirstStatement(db.version) <= process.at
      BY <2>1, VersionsFit DEF PhaseFits
    <3>2. FirstStatement(db.version) \in 1..21
      BY VersionsFit DEF Shape
    <3> QED
      BY <1>3, <2>1, <3>1, <3>2 DEF Position
  <2> QED
    BY <1>1, <1>3, <2>1 DEF Position
<1> QED
  BY <1>1, <1>2, <1>3, <1>4 DEF NumbersFit, OwnBelow, NoGaps, ToCopy

LEMMA ServeNumbers ==
    ASSUME SchemaInv, NumbersFit, Serve
    PROVE  NumbersFit'
<1> USE SchemaParts
<1> DEFINE G == Rehashed(db.global, Pepper)
<1>1. /\ process.phase = "starting" /\ process.at = 21
      /\ db' = db \/ db' = [db EXCEPT !.pepper = Pepper, !.global = G]
      /\ process' = [phase |-> "serving", at |-> 0]
      /\ history' = [history EXCEPT !.served = TRUE]
  BY UpgradeIs DEF Serve
<1>2. \A r \in G : \E q \in db.global : r.origin = q.origin /\ r.originId = q.originId
  BY DEF Rehashed, Shape, GlobalRow
<1> HIDE DEF G
<1>3. /\ db'.local = db.local /\ db'.seq = db.seq /\ db'.version = db.version
      /\ db'.global = db.global \/ db'.global = G
      /\ history'.rows = history.rows
  BY <1>1 DEF Shape
<1>4. db.version = 5 /\ Position >= 5 /\ process.phase # "old" /\ process'.phase # "old"
  BY <1>1, VersionsFit DEF PhaseFits, Position
<1>5. OwnBelow(db.seq) => OwnBelow(db.seq)'
  BY <1>2, <1>3 DEF OwnBelow
<1> QED
  BY <1>3, <1>4, <1>5 DEF NumbersFit, OwnBelow, NoGaps

NumberInv == FoldInv /\ NumbersFit

LEMMA InitNumbers == Init => NumberInv
<1> SUFFICES ASSUME Init PROVE NumbersFit
  BY InitFold DEF NumberInv
<1>1. process.phase = "old" /\ db.global = {} /\ history.rows = {}
  BY DEF Init, SchemaInit
<1> QED
  BY <1>1, FS_EmptySet DEF NumbersFit

LEMMA NextNumbers == NumberInv /\ [Next]_vars => NumberInv'
<1> SUFFICES ASSUME NumberInv, [Next]_vars PROVE NumberInv'
  OBVIOUS
<1>1. /\ SchemaInv /\ KeysFit(db.oldLocal) /\ NumbersFit /\ FoldInv'
  BY FoldParts, NextFold DEF NumberInv
<1>2. CASE Serving
  BY <1>1, <1>2, ServingNumbers DEF NumberInv
<1>3. CASE StartUp
  BY <1>1, <1>3, StartNumbers, ExecuteNumbers, StopNumbers, ServeNumbers DEF StartUp, NumberInv
<1>4. CASE db' = db /\ UNCHANGED <<process, history>>
  <2>1. Position' = Position
    BY <1>4 DEF Position
  <2> QED
    BY <1>1, <1>4, <2>1 DEF NumberInv, NumbersFit, ToCopy, OwnBelow, NoGaps
<1>5. CASE WriteGlobal \/ DropRow \/ UpdateRow
  <2>1. script.phase # "none" /\ UNCHANGED <<process, history>>
    BY <1>5 DEF WriteGlobal, DropRow, UpdateRow
  <2> QED
    BY <1>1, <1>5, <2>1, ScriptNumbers DEF NumberInv
<1>6. ReadGlobal \/ ReadLocal \/ SkipDelta \/ Finish \/ KillScript \/ UNCHANGED vars
        => db' = db /\ UNCHANGED <<process, history>>
  BY DEF ReadGlobal, ReadLocal, SkipDelta, Finish, KillScript, vars
<1> QED
  BY <1>2, <1>3, <1>4, <1>5, <1>6 DEF Next

LEMMA NumberInvariant == Spec => []NumberInv
  BY InitNumbers, NextNumbers, PTL DEF Spec

LEMMA LastIdIs ==
    ASSUME NEW tbl \in SUBSET GlobalRow, NEW n \in Nat,
           \A g \in tbl : g.origin = "own" => g.originId <= n
    PROVE  lastIdFromServer(tbl) \in 0..n
<1> DEFINE S == {0} \cup {r.originId : r \in {q \in tbl : q.origin = "own"}}
<1>1. S \subseteq Nat /\ S # {} /\ \A i \in S : i <= n
  BY DEF GlobalRow
<1>2. lastIdFromServer(tbl) = Max(S)
  BY DEF lastIdFromServer
<1> HIDE DEF S
<1>3. PICK k \in S : \A i \in S : i <= k
  BY <1>1, GreatestOf
<1>4. Max(S) = k
  BY <1>1, <1>3, MaxIs
<1> QED
  BY <1>1, <1>2, <1>4

(* The row of a bind is pushed, and it is newer than all others.           *)
LEMMA BindIsPushed ==
    ASSUME NumberInv, NoGaps(history.rows), NEW a \in Address, NEW m \in Mxid, Bind(a, m)
    PROVE  /\ \E g \in db'.global : g.address = Casefold[a] /\ g.ts = clock + 1
           /\ \A g \in db'.global : g.ts \in Nat /\ g.ts <= clock + 1
           /\ \A g \in db'.global : g.ts = clock + 1 => g.mxid = m
<1> DEFINE b == Casefold[a]
           L == Replaced(b, m)
           new == [id |-> db.seq + 1, address |-> b, mxid |-> m, ts |-> clock + 1]
           last == lastIdFromServer(db.global)
           Row(x) == [address |-> Casefold[x.address], mxid |-> x.mxid, ts |-> x.ts,
                      origin |-> "own", originId |-> x.id,
                      hash |-> Hash(Casefold[x.address], Pepper)]
<1>0. SchemaInv /\ Shape /\ NoneInFuture /\ PhaseFits /\ NumbersFit
  BY FoldParts, SchemaParts DEF NumberInv
<1>1. b \in Address /\ Casefold[b] = b
  BY DatabaseAssumption
<1>2. /\ process.phase = "serving"
      /\ db' = [db EXCEPT !.local = L, !.seq = @ + 1, !.global = Pushed(@, L, db.pepper)]
  BY DEF Bind, WriteLocal
<1> HIDE DEF b
<1>3. history.served /\ db.pepper = Pepper
  BY <1>0, <1>2 DEF PhaseFits
<1>4. db'.global = Pushed(db.global, L, Pepper)
  <2> HIDE DEF L
  <2> QED
    BY <1>0, <1>2, <1>3 DEF Shape
<1>5. last \in 0..db.seq
  <2>1. OwnBelow(db.seq)
    BY <1>0, <1>2, <1>3, ServedFits DEF NumbersFit
  <2>2. db.seq \in Nat /\ db.global \in SUBSET GlobalRow
    BY <1>0 DEF Shape
  <2> QED
    BY <2>1, <2>2, LastIdIs DEF OwnBelow
<1>6. /\ clock \in Nat /\ db.seq \in Nat
      /\ \A g \in db.global : g.ts \in Nat /\ g.ts <= clock
      /\ \A x \in db.local : x.ts \in Nat /\ x.ts <= clock
  BY <1>0, DatabaseAssumption DEF Shape, NoneInFuture, GlobalRow, LocalRow
<1>7. new \in L /\ \A x \in L : x \in db.local \/ x = new
  BY DEF Replaced
<1>8. /\ new.id = db.seq + 1 /\ new.address = b /\ new.mxid = m /\ new.ts = clock + 1
      /\ m # NoMxid
  BY DEF Mxid, NoMxid
<1>9. \A x \in L : x.id \in Nat /\ x.id <= new.id
  <2>1. \A x \in db.local : x.id \in Nat /\ x.id <= db.seq
    BY <1>0, <1>2, <1>3, ServedFits DEF NumbersFit, Shape, LocalRow
  <2> QED
    BY <1>6, <1>7, <1>8, <2>1
<1> HIDE DEF L, new, last
<1>10. \A g \in db'.global :
         g \in db.global \/ \E x \in L : g = Row(x)
  BY <1>4 DEF Pushed
<1>11. Row(new) \in db'.global
  <2>1. new.id > last
    BY <1>5, <1>6, <1>8
  <2>2. \A x \in L : ~ (x.id > new.id)
    BY <1>6, <1>8, <1>9
  <2> QED
    BY <1>4, <1>7, <1>8, <2>1, <2>2 DEF Pushed, last
<1>12. \A x : Row(x).ts = x.ts /\ Row(x).mxid = x.mxid /\ Row(x).address = Casefold[x.address]
  OBVIOUS
<1> HIDE DEF Row
<1>13. \E g \in db'.global : g.address = b /\ g.ts = clock + 1
  BY <1>1, <1>8, <1>11, <1>12
<1>14. \A g \in db'.global : \/ g.ts \in Nat /\ g.ts <= clock
                             \/ g.ts = clock + 1 /\ g.mxid = m
  BY <1>6, <1>7, <1>8, <1>10, <1>12
<1> QED
  BY <1>6, <1>13, <1>14 DEF b

(* addBinding: a bind is found at once, also on top of what an older       *)
(* release has left, if the ids of its table had no gaps.                  *)
THEOREM BoundIsVisibleAtOnce == Spec => BoundIsVisible
<1>1. ASSUME NumberInv, NEW a \in Address, NEW m \in Mxid, Bind(a, m),
             Ids(history.rows) = 1..Cardinality(history.rows)
      PROVE  getMxid(Casefold[a])' = m
  <2> DEFINE R == Spelt(db'.global, Casefold[a])
  <2>1. /\ \E g \in db'.global : g.address = Casefold[a] /\ g.ts = clock + 1
        /\ \A g \in db'.global : g.ts \in Nat /\ g.ts <= clock + 1
        /\ \A g \in db'.global : g.ts = clock + 1 => g.mxid = m
    BY <1>1, BindIsPushed DEF NoGaps
  <2>2. clock + 1 \in Nat
    BY <1>1, FoldParts, DatabaseAssumption DEF NumberInv, Shape
  <2>3. PICK g \in R : g.ts = clock + 1
    BY <2>1 DEF Spelt
  <2>4. getMxid(Casefold[a])' = IF R = {} THEN NoMxid ELSE Newest(R).mxid
    BY DEF getMxid
  <2>5. R # {} /\ \A r \in R : r.ts \in Nat /\ r.ts <= clock + 1 /\ r \in db'.global
    BY <2>1, <2>3 DEF Spelt
  <2> HIDE DEF R
  <2>6. Newest(R) \in R /\ \A q \in R : q.ts <= Newest(R).ts
    BY <2>2, <2>5, NewestOf
  <2>7. Newest(R).ts = clock + 1
    BY <2>2, <2>3, <2>5, <2>6
  <2>8. Newest(R).mxid = m
    BY <2>1, <2>5, <2>6, <2>7
  <2> QED
    BY <2>4, <2>5, <2>8
<1>2. NumberInv =>
        [\A a \in Address, m \in Mxid :
           Bind(a, m) /\ Ids(history.rows) = 1..Cardinality(history.rows)
              => getMxid(Casefold[a])' = m]_<<db, process, clock>>
  BY <1>1
<1> QED
  BY <1>2, NumberInvariant, PTL DEF BoundIsVisible
=============================================================================
