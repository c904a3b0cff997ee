-------------------------------- MODULE Boot --------------------------------
(***************************************************************************)
(* How a process gets from a database file or server to a state in which   *)
(* it may serve: the numbered migrations (src/internal/repository/db), the *)
(* wiring of internal/app and the choice of the OAuth signing key; and the *)
(* one-shot import of a SQLite database into PostgreSQL                    *)
(* (src/cmd/fund-migrate), which starts with the same migrations.          *)
(*                                                                         *)
(* Several processes may boot against one database, and any of them may    *)
(* end at any point.  A schema is the set of structures its statements     *)
(* leave behind; of the imported tables the model keeps the three whose    *)
(* rows somebody else depends on.  A statement list is one step whose      *)
(* failing outcome leaves what ran before the failure.                     *)
(***************************************************************************)
EXTENDS Integers, FiniteSets

CONSTANTS
    Procs,       \* processes; a process that generates a key generates the one of its name
    Drivers,     \* FUND_DB_DRIVER
    Legacies,    \* structures a database may have before versioning
    Flaws,       \* sets of defects of legacy data
    SrcVersions, SrcKeys, SrcRows, \* rows of the SQLite source, {} or NoKey for no such table
    SrcDups,     \* whether source rows 1 and 2 share (order_id, fund_code)
    NoKey,       \* no row, no key
    MaxBoots, MaxSeq

VARIABLES
    driver,      \* the database's dialect
    have,        \* structures present
    flaws,       \* defects of the data
    versions,    \* schema_migrations
    storedKey,   \* oauth_signing_key
    rows,        \* transactions: seq and where the row came from
    nextSeq,     \* transactions_seq_seq
    src,         \* the import's source
    proc, boots, \* processes
    \* history
    warned,      \* versions that were recorded although the step was skipped
    overlapped,  \* processes whose boot overlapped another one's
    keySwapped,  \* processes up or past their key when an import replaced it
    quiet        \* importers during whose import nobody else wrote a row

bootVars == <<driver, have, flaws, versions, storedKey, rows, nextSeq, src, proc, boots,
              warned, overlapped, keySwapped, quiet>>

Versions == 1..5
Down     == [pc |-> "down", role |-> "serve", todo |-> {}, key |-> NoKey, force |-> FALSE,
             gone |-> {}, alarm |-> FALSE]

NavColumns == {"navPct", "navType"}
\* What a CREATE TABLE of the baseline declares beyond the table itself.
Declared   == {"defaults", "snapPK"} \cup NavColumns

\* pgSchemaStatements, sqliteSchemaTables: CREATE TABLE IF NOT EXISTS, which
\* never alters a table that is there; indexes come last.
Tables(present) == IF "tables" \in present THEN present
                   ELSE present \cup {"tables"} \cup Declared
Baseline(present) == Tables(present) \cup {"indexes"}

\* A database that earlier boots have brought up to date.
Migrated(d) == Baseline({}) \cup {"unique"} \cup (IF d = "pg" THEN {} ELSE {"own"})

Keys       == Procs \cup SrcKeys \cup {NoKey}
Structures == {"tables", "indexes", "unique", "own"} \cup Declared

ASSUME BootAssumption ==
    /\ Drivers \subseteq {"sqlite", "pg"}
    /\ Legacies \subseteq SUBSET Structures
    /\ SrcVersions \subseteq SUBSET Versions
    /\ \A seqs \in SrcRows : seqs \subseteq Nat /\ IsFiniteSet(seqs)
    /\ NoKey \notin Procs
    /\ MaxBoots \in Nat /\ MaxSeq \in Nat

Booting(p) == proc[p].pc \notin {"down", "up", "failed", "done", "refused"}

SrcRow(i) == [seq |-> i, from |-> "src"]

-----------------------------------------------------------------------------
BootInit ==
    /\ driver \in Drivers
    /\ \/ /\ versions = {}
          /\ have \in Legacies /\ flaws \in Flaws
          /\ flaws # {} => "tables" \in have
          /\ "noColumn" \in flaws => "indexes" \notin have
          /\ "snapDups" \in flaws => "snapPK" \notin have
       \/ versions = Versions /\ have = Migrated(driver) /\ flaws = {}
    /\ storedKey = NoKey /\ rows = {} /\ nextSeq = 1
    /\ src \in [versions : SrcVersions, key : SrcKeys, rows : SrcRows, dup : SrcDups]
    /\ proc = [p \in Procs |-> Down] /\ boots = 0
    /\ warned = {} /\ overlapped = {} /\ keySwapped = {} /\ quiet = {}

schema == <<have, versions>>
data   == <<storedKey, rows, nextSeq>>
given  == <<driver, flaws, src>>

\* The supervisor starts the server, or the operator the import tool; Open has
\* pinged the database and CREATE TABLE IF NOT EXISTS schema_migrations ran.
Start(p, role, force) ==
    /\ ~Booting(p) /\ proc[p].pc # "up" /\ boots < MaxBoots
    /\ role = "import" => driver = "pg"
    /\ role = "serve" => ~force
    /\ boots' = boots + 1
    /\ proc' = [proc EXCEPT ![p] = [Down EXCEPT !.pc = "load", !.role = role, !.force = force]]
    /\ overlapped' = LET others == {q \in Procs \ {p} : Booting(q)}
                     IN  (overlapped \ {p}) \cup others \cup (IF others = {} THEN {} ELSE {p})
    /\ keySwapped' = keySwapped \ {p}
    /\ quiet' = quiet \ {p}
    /\ UNCHANGED <<given, schema, data, warned>>

\* A process ends: killed, or shut down once it serves.
Crash(p) ==
    /\ Booting(p) \/ proc[p].pc = "up"
    /\ proc' = [proc EXCEPT ![p] = Down]
    /\ UNCHANGED <<given, schema, data, boots, warned, overlapped, keySwapped, quiet>>

\* A statement fails where that is fatal: Build returns the error.
Fail(p) == proc' = [proc EXCEPT ![p] = [Down EXCEPT !.pc = "failed"]]

\* loadAppliedVersions: what is missing is decided once.
LoadVersions(p) ==
    /\ proc[p].pc = "load"
    /\ proc' = [proc EXCEPT ![p].pc = "apply", ![p].todo = Versions \ versions]
    /\ UNCHANGED <<given, schema, data, boots, warned, overlapped, keySwapped, quiet>>

NextVersion(p) == CHOOSE v \in proc[p].todo : \A w \in proc[p].todo : v <= w

\* The PostgreSQL repairs: defaults of transactions' NOT NULL columns, and the
\* composite primary key, which legacy duplicates prevent.
MigrateTransactionsDefaults == have \cup {"defaults"}
MigratePortfolioSnapshotPK  == have \cup {"snapPK"}
SnapshotPKPossible == "snapPK" \in have \/ "snapDups" \notin flaws

\* The structures a successful apply leaves, and whether the data allows it.
Applied(v) ==
    CASE v = 1 -> Baseline(have)
      [] v = 2 -> IF driver = "pg" THEN MigrateTransactionsDefaults ELSE have
      [] v = 3 -> IF driver = "pg" THEN MigratePortfolioSnapshotPK ELSE have
      [] v = 4 -> have \cup NavColumns
      [] v = 5 -> have \cup {"unique"}

Possible(v) ==
    /\ v = 1 => "noColumn" \notin flaws
    /\ v = 3 => driver # "pg" \/ SnapshotPKPossible
    /\ v = 5 => "orderDups" \notin flaws

\* Steps whose failure is a warning: the PG repairs and the unique index.
BestEffort(v) == v = 5 \/ (v \in {2, 3} /\ driver = "pg")

\* What is left behind when step v stops part-way: some statements ran.
Partial(v) ==
    CASE v = 1 -> {have, Tables(have)}
      [] v = 4 -> {have \cup c : c \in SUBSET NavColumns}
      [] OTHER -> {have}

\* m.apply.
ApplyStep(p) ==
    /\ proc[p].pc = "apply" /\ proc[p].todo # {}
    /\ LET v == NextVersion(p)
       IN  \/ /\ Possible(v)
              /\ have' = Applied(v)
              /\ proc' = [proc EXCEPT ![p].pc = "record"]
              /\ UNCHANGED warned
           \/ /\ BestEffort(v) /\ Applied(v) # have
              /\ proc' = [proc EXCEPT ![p].pc = "record"]
              /\ warned' = warned \cup {v}
              /\ UNCHANGED have
           \/ /\ v \in {1, 4}
              /\ have' \in Partial(v)
              /\ Fail(p)
              /\ UNCHANGED warned
    /\ UNCHANGED <<given, versions, data, boots, overlapped, keySwapped, quiet>>

\* INSERT INTO schema_migrations: version is the primary key.
RecordStep(p) ==
    /\ proc[p].pc = "record"
    /\ LET v == NextVersion(p)
       IN  IF v \in versions
           THEN /\ proc' = [proc EXCEPT ![p] = [Down EXCEPT !.pc = "failed", !.todo = {v}]]
                /\ UNCHANGED versions
           ELSE /\ versions' = versions \cup {v}
                /\ proc' = [proc EXCEPT ![p].pc = "apply", ![p].todo = @ \ {v}]
    /\ UNCHANGED <<given, have, data, boots, warned, overlapped, keySwapped, quiet>>

\* buildWithDB: on SQLite the agent, auth and OAuth stores create their tables;
\* PostgreSQL got them from the baseline.
OwnSchemas(p) ==
    /\ proc[p].pc = "apply" /\ proc[p].todo = {} /\ proc[p].role = "serve"
    /\ \/ /\ have' = have \cup (IF driver = "pg" THEN {} ELSE {"own"})
          /\ proc' = [proc EXCEPT ![p].pc = "loadKey"]
       \/ driver # "pg" /\ UNCHANGED have /\ Fail(p)
    /\ UNCHANGED <<given, versions, data, boots, warned, overlapped, keySwapped, quiet>>

\* EnsureSigningKey without a configured key: load, else generate and insert
\* if absent, else adopt the winner's.  NewRouter and scheduler.Start follow.
LoadKey(p) ==
    /\ proc[p].pc \in {"loadKey", "reloadKey"}
    /\ IF storedKey # NoKey
       THEN proc' = [proc EXCEPT ![p].pc = "up", ![p].key = storedKey]
       ELSE IF proc[p].pc = "loadKey"
            THEN proc' = [proc EXCEPT ![p].pc = "insertKey"]
            ELSE Fail(p)
    /\ keySwapped' = keySwapped \ {p}
    /\ UNCHANGED <<given, schema, data, boots, warned, overlapped, quiet>>

\* Mutant of InsertKey: the loser goes on with the key it generated.
InsertKeyKeepsOwn(p) ==
    /\ proc[p].pc = "insertKey"
    /\ storedKey' = IF storedKey = NoKey THEN p ELSE storedKey
    /\ proc' = [proc EXCEPT ![p].pc = "up", ![p].key = p]
    /\ keySwapped' = keySwapped \ {p}
    /\ UNCHANGED <<given, schema, rows, nextSeq, boots, warned, overlapped, quiet>>

InsertKey(p) ==
    /\ proc[p].pc = "insertKey"
    /\ IF storedKey = NoKey
       THEN /\ storedKey' = p
            /\ proc' = [proc EXCEPT ![p].pc = "up", ![p].key = p]
            /\ keySwapped' = keySwapped \ {p}
       ELSE /\ proc' = [proc EXCEPT ![p].pc = "reloadKey"]
            /\ UNCHANGED <<storedKey, keySwapped>>
    /\ UNCHANGED <<given, schema, rows, nextSeq, boots, warned, overlapped, quiet>>

\* A serving process inserts a transaction: seq comes from the sequence, which
\* an import with explicit seq does not advance, so the number may be taken.
AppInsert(p) ==
    /\ proc[p].pc = "up" /\ driver = "pg" /\ nextSeq <= MaxSeq
    /\ nextSeq' = nextSeq + 1
    /\ rows' = IF \E r \in rows : r.seq = nextSeq
               THEN rows ELSE rows \cup {[seq |-> nextSeq, from |-> "app"]}
    /\ quiet' = {}
    /\ UNCHANGED <<given, schema, storedKey, proc, boots, warned, overlapped, keySwapped>>

-----------------------------------------------------------------------------
(* fund-migrate after EnsurePGSchema.                                      *)

\* srcTables, in the order of their names, with what the target holds of each.
ImportTables == <<"key", "versions", "rows">>
InSource(t) == CASE t = "key" -> src.key # NoKey [] t = "versions" -> src.versions # {} [] OTHER -> TRUE
Target(t) == CASE t = "key" -> IF storedKey = NoKey THEN {} ELSE {storedKey}
               [] t = "versions" -> versions
               [] OTHER -> rows

\* nonEmptyTargetTables: a target table of the list has rows.
Preflight(p) ==
    /\ proc[p].pc = "apply" /\ proc[p].todo = {} /\ proc[p].role = "import"
    /\ IF ~proc[p].force /\ \E t \in {"key", "versions", "rows"} : InSource(t) /\ Target(t) # {}
       THEN proc' = [proc EXCEPT ![p].pc = "refused"] /\ UNCHANGED quiet
       ELSE proc' = [proc EXCEPT ![p].pc = "clear", ![p].todo = {1}] /\ quiet' = quiet \cup {p}
    /\ UNCHANGED <<given, schema, data, boots, warned, overlapped, keySwapped>>

\* The table a running import is at (todo holds its place in the list).
At(p) == ImportTables[NextVersion(p)]

\* migrateTable opens its transaction; with --force it deletes what it sees.
ClearTable(p) ==
    /\ proc[p].pc = "clear"
    /\ proc' = IF InSource(At(p))
               THEN [proc EXCEPT ![p].pc = "copy",
                        ![p].gone = IF proc[p].force THEN Target(At(p)) ELSE {}]
               ELSE [proc EXCEPT ![p].todo = {NextVersion(p) + 1}]
    /\ UNCHANGED <<given, schema, data, boots, warned, overlapped, keySwapped, quiet>>

\* INSERT ... ON CONFLICT DO NOTHING: a taken seq, or a duplicate order where
\* the unique index exists, is skipped.
Copied(kept) ==
    LET free == {i \in src.rows : \A r \in kept : r.seq # i}
    IN  kept \cup {SrcRow(i) : i \in
           IF src.dup /\ "unique" \in have
           THEN {i \in free : ~(i = 2 /\ (1 \in free \/ SrcRow(1) \in kept))
                              /\ ~(i = 1 /\ SrcRow(2) \in kept)}
           ELSE free}

\* The transaction commits, or any failure rolls it back and ends the tool.
CopyTable(p) ==
    /\ proc[p].pc = "copy"
    /\ \/ /\ LET kept == Target(At(p)) \ proc[p].gone
             IN  CASE At(p) = "key" ->
                        /\ storedKey' = IF kept = {} THEN src.key ELSE storedKey
                        /\ keySwapped' = IF storedKey' = storedKey THEN keySwapped
                                         ELSE keySwapped \cup {q \in Procs : proc[q].pc = "up"}
                        /\ UNCHANGED <<versions, rows>>
                   [] At(p) = "versions" ->
                        versions' = kept \cup src.versions /\ UNCHANGED <<storedKey, rows, keySwapped>>
                   [] OTHER ->
                        rows' = Copied(kept) /\ UNCHANGED <<storedKey, versions, keySwapped>>
          /\ proc' = [proc EXCEPT ![p].pc = "verify", ![p].gone = {}]
          /\ quiet' = IF At(p) = "rows" THEN quiet \cap {p} ELSE quiet
       \/ Fail(p) /\ UNCHANGED <<versions, storedKey, rows, keySwapped, quiet>>
    /\ UNCHANGED <<given, have, nextSeq, boots, warned, overlapped>>

\* Mutant of VerifyTable: nothing is counted.
VerifyTableBlind(p) ==
    /\ proc[p].pc = "verify"
    /\ proc' = IF At(p) = "rows" THEN [proc EXCEPT ![p].pc = "done"]
               ELSE [proc EXCEPT ![p].pc = "clear", ![p].todo = {NextVersion(p) + 1}]
    /\ UNCHANGED <<given, schema, data, boots, warned, overlapped, keySwapped, quiet>>

\* verify counts the target against the rows read; then the next table.
VerifyTable(p) ==
    /\ proc[p].pc = "verify"
    /\ proc' = IF At(p) = "rows"
               THEN [proc EXCEPT ![p].pc = "done",
                        ![p].alarm = Cardinality(rows) # Cardinality(src.rows)]
               ELSE [proc EXCEPT ![p].pc = "clear", ![p].todo = {NextVersion(p) + 1}]
    /\ UNCHANGED <<given, schema, data, boots, warned, overlapped, keySwapped, quiet>>

BootNext ==
    \E p \in Procs :
        \/ \E role \in {"serve", "import"}, force \in BOOLEAN : Start(p, role, force)
        \/ Crash(p) \/ LoadVersions(p) \/ ApplyStep(p) \/ RecordStep(p)
        \/ OwnSchemas(p) \/ LoadKey(p) \/ InsertKey(p) \/ AppInsert(p)
        \/ Preflight(p) \/ ClearTable(p) \/ CopyTable(p) \/ VerifyTable(p)

BootSpec == BootInit /\ [][BootNext]_bootVars

-----------------------------------------------------------------------------
(* Properties.                                                             *)

\* Types of every variable.
BootTypeOK ==
    /\ driver \in {"sqlite", "pg"} /\ have \subseteq Structures
    /\ versions \subseteq Versions /\ storedKey \in Keys
    /\ rows \subseteq [seq : Nat, from : {"src", "app"}] /\ nextSeq \in Nat
    /\ \A p \in Procs :
          /\ proc[p].pc \in {"down", "load", "apply", "record", "loadKey", "insertKey", "reloadKey",
                             "up", "failed", "clear", "copy", "verify", "done", "refused"}
          /\ proc[p].todo \subseteq Versions /\ proc[p].key \in Keys
    /\ boots \in Nat /\ warned \subseteq Versions
    /\ overlapped \subseteq Procs /\ keySwapped \subseteq Procs /\ quiet \subseteq Procs

\* A process that serves finds the schema its code was written for, whatever
\* database it met, however many boots crashed between applying and recording
\* a step or ran at the same time, and even after an import replaced the
\* version rows.  What may be missing is a best-effort step that was skipped
\* with a warning, and the composite key on a legacy SQLite file.
ServingMeansMigrated ==
    \A p \in Procs : proc[p].pc = "up" =>
        /\ {"tables", "indexes"} \cup NavColumns \subseteq have
        /\ driver = "sqlite" => "own" \in have
        /\ driver = "pg" => /\ "defaults" \in have \/ 2 \in warned
                            /\ "snapPK" \in have \/ 3 \in warned
        /\ "unique" \in have \/ 5 \in warned

\* "A crash between apply and record is safe: the next boot replays the step":
\* a boot is refused by the version table only if another boot overlapped it.
ConflictHasCause ==
    \A p \in Procs : proc[p].pc = "failed" /\ proc[p].todo # {} => p \in overlapped

\* "two racing boots converge on one persisted key": every serving process
\* signs with the key in the database, unless an import replaced it later.
KeysAgree ==
    \A p \in Procs : proc[p].pc = "up" => proc[p].key = storedKey \/ p \in keySwapped

\* An import that finished without an alarm, and during which nobody else wrote
\* transactions, brought every source row: ON CONFLICT DO NOTHING never drops
\* one in silence.
ImportLossReported ==
    \A p \in Procs : proc[p].pc = "done" /\ p \in quiet /\ ~proc[p].alarm =>
        \A i \in src.rows : SrcRow(i) \in rows

\* However boots overlap, crash and are replayed, and whatever legacy data they
\* meet, they converge: on the schema, without refusing each other in
\* sequence, and on one signing key.
BootsConverge == ServingMeansMigrated /\ ConflictHasCause /\ KeysAgree
=============================================================================
