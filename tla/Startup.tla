------------------------------ MODULE Startup ------------------------------
(***************************************************************************)
(* How every process begins (openService and openReadOnlyService): it      *)
(* resolves its database, opens it, checks that it is a 3x-ui 3.x panel's, *)
(* and migrates the metadata in one transaction; and `factor backup`, whose*)
(* work follows.  The daemon may be restarted and commands may run beside  *)
(* it at any of these points; the panel may be in the middle of its own    *)
(* migration to 3.x.  A scene says which of these inputs vary.             *)
(***************************************************************************)
EXTENDS Config

CONSTANTS
    Process,        \* processes that may run at the same time
    Scenes,         \* parts of the initial states this instance looks at
    MaxSuffix,      \* bound: names tried for a backup in one second (999)
    MaxSecond       \* bound: seconds in which backups are taken

ASSUME StartupAssumption ==
    /\ Scenes \subseteq {"settings", "upgrade", "backup"}
    /\ MaxSuffix \in Nat /\ MaxSecond \in Nat

VARIABLES
    scene,          \* which inputs vary in this behaviour
    file, env,      \* config.json and the environment of the processes
    panelFiles,     \* the panel's environment files, in the order they are read
    access,         \* what the file system grants on SQLite files
    panelSchema,    \* the panel's own tables in each database
    metadata,       \* committed schema of the xui_factor tables there
    phase, kind, option, \* each process: progress, command, --database
    target,         \* the database it works on
    error,          \* why its last start failed, if for one of two reasons
    work, step,     \* its migration: uncommitted schema, statements executed
    writer,         \* who holds the write lock of each database
    backups,        \* files in backup_dir
    second, path,   \* the clock, the path each backup has picked
    reported,       \* ghost: paths `factor backup` has printed as created
    raced           \* ghost: paths two backups had picked at the same time

settings == <<scene, file, env, panelFiles, access>>
proc     == <<phase, kind, option, target, error, path>>
tx       == <<work, step, writer>>
disk     == <<backups, second, reported, raced>>
vars     == <<settings, panelSchema, metadata, proc, tx, disk>>

Nobody == "nobody"
ASSUME ProcessAssumption == Nobody \notin Process

Kinds == {"write", "read", "backup"}        \* "write" stands for the daemon too
Phases == {"down", "loaded", "opened", "tables", "valid", "migrating", "ready",
           "picked", "dumping"}

-----------------------------------------------------------------------------
(* The metadata tables.  `added` are those with the columns that releases  *)
(* after their first have added to them.                                   *)
Tables == {"meta", "rules", "rule_clients", "scopes", "excludes", "overrides", "events"}

Schema ==
    [tables : SUBSET Tables, added : SUBSET Tables,
     obsolete : BOOLEAN,        \* last_all_time, rem_all_time
     duplicates : BOOLEAN,      \* several active policies of one client
     identified : BOOLEAN,      \* every rule client has its email
     indexes : BOOLEAN, version : {Blank, "2", "3"}]

Empty ==
    [tables |-> {}, added |-> {}, obsolete |-> FALSE, duplicates |-> FALSE,
     identified |-> TRUE, indexes |-> FALSE, version |-> Blank]

Current ==
    [tables |-> Tables, added |-> Tables, obsolete |-> FALSE, duplicates |-> FALSE,
     identified |-> TRUE, indexes |-> TRUE, version |-> "3"]

(* What earlier releases left. *)
OldSchemas ==
    {Empty,
     [Empty EXCEPT !.tables = {"meta"}],
     [Empty EXCEPT !.tables = {"rules", "rule_clients"}, !.obsolete = TRUE,
                   !.identified = FALSE],
     [Empty EXCEPT !.tables = Tables \ {"meta"}, !.added = {"rules", "rule_clients"},
                   !.obsolete = TRUE, !.duplicates = TRUE],
     [Current EXCEPT !.obsolete = TRUE, !.duplicates = TRUE, !.version = "2"],
     [Current EXCEPT !.indexes = FALSE, !.added = Tables \ {"scopes"}, !.version = "2"]}

(* Mutant: the indexes are created with the tables. *)
MigrationIndexesFirst ==
    <<"tables", "indexes", "columns", "obsolete", "policies", "identity", "version">>

(* Migrate, in the order of its statements. *)
Migration ==
    <<"tables", "columns", "obsolete", "policies", "identity", "indexes", "version">>

(* The columns a statement names, without which it fails. *)
Needs(statement) ==
    CASE statement = "policies" -> {"excludes", "overrides"}
      [] statement = "identity" -> {"rule_clients"}
      [] statement = "indexes" -> {"rule_clients"}
      [] statement = "version" -> {"meta"}
      [] statement \in {"tables", "columns", "obsolete"} -> {}

(* A new table has every column; a column added to a table with rows is    *)
(* empty until it is backfilled.                                           *)
Apply(statement, w) ==
    CASE statement = "tables" ->
            [w EXCEPT !.tables = Tables, !.added = @ \cup (Tables \ w.tables)]
      [] statement = "columns" -> [w EXCEPT !.added = Tables]
      [] statement = "obsolete" -> [w EXCEPT !.obsolete = FALSE]
      [] statement = "policies" -> [w EXCEPT !.duplicates = FALSE]
      [] statement = "identity" -> [w EXCEPT !.identified = TRUE]
      [] statement = "indexes" -> [w EXCEPT !.indexes = TRUE]
      [] statement = "version" -> [w EXCEPT !.version = "3"]

-----------------------------------------------------------------------------
Path == (0..MaxSecond) \X (0..MaxSuffix)

Plain == [backend |-> Blank, path |-> Blank, dsn |-> Blank, sound |-> TRUE]

PanelOn(t) == <<[type |-> t, dsn |-> PanelServer]>>
ShortEnv == [type : {Unset, "sqlite", "postgres"}, dsn : {Unset, PanelServer}]

(* Every configuration, in front of databases that are up to date ... *)
SettingsVary ==
    /\ scene = "settings"
    /\ file \in FileConfig /\ env \in ShortEnv
    /\ panelFiles \in {<<f>> : f \in EnvFile} \cup {<<g, f>> : g \in ShortEnv, f \in EnvFile}
    /\ access = "write"
    /\ metadata = [d \in Database |-> Current]
    /\ panelSchema = [d \in Database |-> "3.x"]

(* ... every stage of an upgrade, with the plain configuration ... *)
UpgradeVaries ==
    /\ scene = "upgrade"
    /\ file = Plain /\ env = NoEnv
    /\ panelFiles \in {PanelOn(t) : t \in {"sqlite", "postgres"}}
    /\ access \in {"absent", "read", "write"}
    /\ \E m \in OldSchemas, s \in {"none", "2.x", "3.x"}, d \in {PanelDatabase(panelFiles[1])} :
          /\ metadata = [[e \in Database |-> Empty] EXCEPT ![d] = m]
          /\ panelSchema = [[e \in Database |-> "none"] EXCEPT ![d] = s]

(* ... and backups of a panel that is up to date. *)
BackupsVary ==
    /\ scene = "backup"
    /\ file = Plain /\ env = NoEnv
    /\ panelFiles \in {PanelOn(t) : t \in {"sqlite", "postgres"}}
    /\ access = "write"
    /\ metadata = [d \in Database |-> Current]
    /\ panelSchema = [d \in Database |-> "3.x"]

Init ==
    /\ scene \in Scenes
    /\ SettingsVary \/ UpgradeVaries \/ BackupsVary
    /\ phase = [p \in Process |-> "down"]
    /\ kind = [p \in Process |-> "read"] /\ option = [p \in Process |-> Blank]
    /\ target = [p \in Process |-> Invalid] /\ error = [p \in Process |-> Blank]
    /\ work = [p \in Process |-> Empty] /\ step = [p \in Process |-> 0]
    /\ writer = [d \in Database |-> Nobody]
    /\ backups = [f \in Path |-> "none"] /\ second = 0
    /\ path = [p \in Process |-> <<0, 0>>]
    /\ reported = {} /\ raced = {}

(* Bound: the processes, commands and options of each scene. *)
Cast(p, k, o) ==
    CASE scene = "settings" -> p = (CHOOSE q \in Process : TRUE) /\ k = "write"
      [] scene = "upgrade" -> k \in {"write", "read"} /\ o = Blank
      [] scene = "backup" -> k = "backup" /\ o = Blank

-----------------------------------------------------------------------------
(* A process that ends closes its connection; its transaction, if any, is  *)
(* rolled back.                                                            *)
End(p, e) ==
    /\ phase' = [phase EXCEPT ![p] = "down"] /\ error' = [error EXCEPT ![p] = e]
    /\ kind' = [kind EXCEPT ![p] = "read"] /\ option' = [option EXCEPT ![p] = Blank]
    /\ target' = [target EXCEPT ![p] = Invalid] /\ path' = [path EXCEPT ![p] = <<0, 0>>]
    /\ work' = [work EXCEPT ![p] = Empty] /\ step' = [step EXCEPT ![p] = 0]
    /\ writer' = [d \in Database |-> IF writer[d] = p THEN Nobody ELSE writer[d]]
    /\ UNCHANGED <<settings, panelSchema, metadata>>

Goes(p, next) ==
    /\ phase' = [phase EXCEPT ![p] = next]
    /\ UNCHANGED <<settings, panelSchema, kind, option, target, error, path, disk>>

(* loadConfig. *)
Start(p, k, o) ==
    /\ phase[p] = "down" /\ Cast(p, k, o)
    /\ LET database == Resolve(file, env, panelFiles, o)
       IN  /\ target' = [target EXCEPT ![p] = database]
           /\ phase' = [phase EXCEPT ![p] = IF database = Invalid THEN "down" ELSE "loaded"]
           /\ error' = [error EXCEPT ![p] = IF database = Invalid THEN "config" ELSE Blank]
    /\ kind' = [kind EXCEPT ![p] = k] /\ option' = [option EXCEPT ![p] = o]
    /\ UNCHANGED <<settings, panelSchema, metadata, path, tx, disk>>

(* requireWritableDatabase and os.Stat, then the connection itself, which  *)
(* may fail.                                                               *)
Open(p) ==
    /\ phase[p] = "loaded"
    /\ target[p] \notin Servers =>
          access \in IF kind[p] = "read" THEN {"read", "write"} ELSE {"write"}
    /\ Goes(p, "opened") /\ UNCHANGED <<metadata, tx>>

OpenFails(p) ==
    /\ phase[p] = "loaded"
    /\ End(p, Blank) /\ UNCHANGED disk

(* ValidateRequiredSchema: the tables, then their columns. *)
ValidateTables(p) ==
    /\ phase[p] = "opened" /\ panelSchema[target[p]] \in {"tables", "3.x"}
    /\ Goes(p, "tables") /\ UNCHANGED <<metadata, tx>>

(* Mutant: client_traffics.all_time is not looked for. *)
ValidateColumnsOnly(p) ==
    /\ phase[p] = "tables"
    /\ Goes(p, IF kind[p] = "read" THEN "ready" ELSE "valid") /\ UNCHANGED <<metadata, tx>>

ValidateColumns(p) ==
    /\ phase[p] = "tables" /\ panelSchema[target[p]] = "3.x"
    /\ Goes(p, IF kind[p] = "read" THEN "ready" ELSE "valid") /\ UNCHANGED <<metadata, tx>>

SchemaRefused(p) ==
    /\ \/ phase[p] = "opened" /\ panelSchema[target[p]] \in {"none", "2.x"}
       \/ phase[p] = "tables" /\ panelSchema[target[p]] # "3.x"
    /\ End(p, Blank) /\ UNCHANGED disk

(* Migrate: BEGIN IMMEDIATE, or BEGIN and the advisory lock; ... *)
Begin(p) ==
    /\ phase[p] = "valid" /\ writer[target[p]] = Nobody
    /\ writer' = [writer EXCEPT ![target[p]] = p]
    /\ work' = [work EXCEPT ![p] = metadata[target[p]]]
    /\ Goes(p, "migrating") /\ UNCHANGED <<metadata, step>>

BeginTimesOut(p) ==
    /\ phase[p] = "valid" /\ writer[target[p]] # Nobody
    /\ End(p, Blank) /\ UNCHANGED disk

(* ... its statements, the first that fails ending the process; ... *)
Statement(p) ==
    /\ phase[p] = "migrating" /\ step[p] < Len(Migration)
    /\ LET statement == Migration[step[p] + 1]
       IN  IF Needs(statement) \subseteq work[p].added
           THEN /\ work' = [work EXCEPT ![p] = Apply(statement, work[p])]
                /\ step' = [step EXCEPT ![p] = @ + 1]
                /\ Goes(p, "migrating") /\ UNCHANGED <<metadata, writer>>
           ELSE End(p, "migration") /\ UNCHANGED disk

(* Mutant: the write lock is still held after the commit. *)
CommitKeepsLock(p) ==
    /\ phase[p] = "migrating" /\ step[p] = Len(Migration)
    /\ metadata' = [metadata EXCEPT ![target[p]] = work[p]]
    /\ work' = [work EXCEPT ![p] = Empty] /\ step' = [step EXCEPT ![p] = 0]
    /\ Goes(p, "ready") /\ UNCHANGED writer

(* ... and COMMIT. *)
Commit(p) ==
    /\ phase[p] = "migrating" /\ step[p] = Len(Migration)
    /\ metadata' = [metadata EXCEPT ![target[p]] = work[p]]
    /\ writer' = [writer EXCEPT ![target[p]] = Nobody]
    /\ work' = [work EXCEPT ![p] = Empty] /\ step' = [step EXCEPT ![p] = 0]
    /\ Goes(p, "ready")

(* The command has done its work, or the process is killed anywhere. *)
Stop(p) ==
    /\ phase[p] # "down"
    /\ End(p, Blank) /\ UNCHANGED disk

-----------------------------------------------------------------------------
(* availableBackupPath: the first name of this second that is not there. *)
FreeSuffixes == {n \in 0..MaxSuffix : backups[<<second, n>>] = "none"}

(* Mutant: the name is the second's, whether or not it is there. *)
AvailableBackupPathBlind == <<second, 0>>

AvailableBackupPath ==
    <<second, CHOOSE n \in FreeSuffixes : \A m \in FreeSuffixes : n <= m>>

BackupPick(p) ==
    /\ phase[p] = "ready" /\ kind[p] = "backup" /\ FreeSuffixes # {}
    /\ phase' = [phase EXCEPT ![p] = "picked"]
    /\ path' = [path EXCEPT ![p] = AvailableBackupPath]
    /\ raced' = IF \E q \in Process \ {p} : phase[q] = "picked" /\ path[q] = path'[p]
                THEN raced \cup {path'[p]} ELSE raced
    /\ UNCHANGED <<settings, panelSchema, metadata, kind, option, target, error, tx,
                   backups, second, reported>>

BackupNoName(p) ==
    /\ phase[p] = "ready" /\ kind[p] = "backup" /\ FreeSuffixes = {}
    /\ End(p, Blank) /\ UNCHANGED disk

(* VACUUM INTO refuses a file that is there; pg_dump writes over it. *)
MayWrite(p) == target[p] \in Servers \/ backups[path[p]] = "none"

BackupStart(p) ==
    /\ phase[p] = "picked" /\ MayWrite(p)
    /\ phase' = [phase EXCEPT ![p] = "dumping"]
    /\ backups' = [backups EXCEPT ![path[p]] = "partial"]
    /\ UNCHANGED <<settings, panelSchema, metadata, kind, option, target, error, path, tx,
                   second, reported, raced>>

BackupDone(p) ==
    /\ phase[p] = "dumping"
    /\ backups' = [backups EXCEPT ![path[p]] = "complete"]
    /\ reported' = reported \cup {path[p]}
    /\ End(p, Blank) /\ UNCHANGED <<second, raced>>

(* An error of either removes the path, whoever wrote the file. *)
BackupFails(p) ==
    /\ phase[p] \in {"picked", "dumping"} /\ (phase[p] = "picked" => ~MayWrite(p))
    /\ backups' = [backups EXCEPT ![path[p]] = "none"]
    /\ End(p, Blank) /\ UNCHANGED <<second, reported, raced>>

-----------------------------------------------------------------------------
(* The panel migrates its own database: tables first, all_time last.  On   *)
(* SQLite it waits for the write lock.                                     *)
PanelBoot(d) ==
    /\ panelSchema[d] \in {"2.x", "tables"}
    /\ d \notin Servers => writer[d] = Nobody
    /\ panelSchema' = [panelSchema EXCEPT
                          ![d] = IF @ = "2.x" THEN "tables" ELSE "3.x"]
    /\ UNCHANGED <<settings, metadata, proc, tx, disk>>

NextSecond ==
    /\ scene = "backup" /\ second < MaxSecond
    /\ second' = second + 1
    /\ UNCHANGED <<settings, panelSchema, metadata, proc, tx, backups, reported, raced>>

Next ==
    \/ \E p \in Process :
          \/ \E k \in Kinds, o \in {Blank, OtherFile} : Start(p, k, o)
          \/ Open(p) \/ OpenFails(p)
          \/ ValidateTables(p) \/ ValidateColumns(p) \/ SchemaRefused(p)
          \/ Begin(p) \/ BeginTimesOut(p) \/ Statement(p)
          \/ Commit(p) \/ Stop(p)
          \/ BackupPick(p) \/ BackupNoName(p) \/ BackupStart(p)
          \/ BackupDone(p) \/ BackupFails(p)
    \/ \E d \in Database : PanelBoot(d)
    \/ NextSecond

Spec == Init /\ [][Next]_vars

-----------------------------------------------------------------------------
(* A database's write lock is held by the process that migrates it.        *)
TypeOK ==
    /\ scene \in Scenes /\ file \in FileConfig /\ env \in EnvFile
    /\ panelFiles \in Seq(EnvFile) /\ access \in {"absent", "read", "write"}
    /\ panelSchema \in [Database -> {"none", "2.x", "tables", "3.x"}]
    /\ metadata \in [Database -> Schema]
    /\ phase \in [Process -> Phases] /\ kind \in [Process -> Kinds]
    /\ option \in [Process -> {Blank, OtherFile}]
    /\ target \in [Process -> Database \cup {Invalid}]
    /\ error \in [Process -> {Blank, "config", "migration"}]
    /\ work \in [Process -> Schema] /\ step \in [Process -> 0..Len(Migration)]
    /\ writer \in [Database -> Process \cup {Nobody}]
    /\ \A d \in Database, p \in Process :
          writer[d] = p <=> phase[p] = "migrating" /\ target[p] = d
    /\ backups \in [Path -> {"none", "partial", "complete"}]
    /\ second \in 0..MaxSecond /\ path \in [Process -> Path]
    /\ reported \subseteq Path /\ raced \subseteq Path

(* docs/OPERATIONS.md, "Database backend": the database for a              *)
(* configuration, where own is what the environment and the panel's own    *)
(* file say, and a SQLite database is the one at database_path.            *)
Documented(o) ==
    LET own == [key \in {"type", "dsn"} |->
                   IF env[key] # Unset THEN env[key] ELSE panelFiles[1][key]]
        sqlite == IF file.path = Blank THEN File ELSE file.path
        panel == IF PanelDatabase(own) = File THEN sqlite ELSE PanelDatabase(own)
        configured ==
            CASE ~file.sound \/ file.backend = "mysql" -> Invalid
              [] file.sound /\ file.backend = "sqlite" -> sqlite
              [] file.sound /\ file.backend \in {"postgres", "auto", Blank}
                            /\ file.dsn # Blank -> file.dsn
              [] file.sound /\ file.backend = "postgres" /\ file.dsn = Blank ->
                    IF own.dsn \in {Unset, Blank} THEN Invalid ELSE own.dsn
              [] file.sound /\ file.backend \in {"auto", Blank} /\ file.dsn = Blank -> panel
    IN  IF configured = Invalid \/ o = Blank THEN configured ELSE o

(* "XuiFactor resolves the backend the same way 3x-ui does ... A leftover  *)
(* XUI_DB_DSN on a SQLite panel is ignored": whatever the configuration,   *)
(* the environment and the panel's environment file, a process works on    *)
(* the documented database or is refused where nothing names one.          *)
FollowsPanel ==
    Len(panelFiles) = 1 => \A p \in Process :
        /\ phase[p] # "down" => target[p] = Documented(option[p])
        /\ error[p] = "config" => Documented(option[p]) = Invalid

(* "A panel database that predates 3.x is rejected": although the check    *)
(* runs in several statements before the migration's transaction, and the  *)
(* panel may migrate its database in between, metadata is never written    *)
(* into a database that is not completely a 3.x panel's.                   *)
OnlyPanel3Step ==
    \A d \in Database : metadata'[d] # metadata[d] => panelSchema[d] = "3.x"

OnlyPanel3 == [][OnlyPanel3Step]_vars

(* "Repeated migrations are no-ops", and the first one is complete: from   *)
(* whatever an earlier release left, with processes that start at the same *)
(* time and are killed between any two statements, no statement of a       *)
(* migration fails and whoever gets to work does so on the current schema. *)
UpgradeCompletes ==
    \A p \in Process :
        /\ error[p] # "migration"
        /\ phase[p] \in {"ready", "picked", "dumping"} /\ kind[p] # "read"
              => metadata[target[p]] = Current

(* A backup the command has reported stays, complete, whatever later       *)
(* backups do, also failing and killed ones in the same second; except for *)
(* a path that two backups picked before either of them had created it.    *)
BackupKept == \A f \in reported \ raced : backups[f] = "complete"
=============================================================================
