--------------------------- MODULE StartupProofs ---------------------------
(***************************************************************************)
(* Theorems about how processes begin, migrate the metadata and back it    *)
(* up, for every set of processes and every number of names and seconds.   *)
(***************************************************************************)
EXTENDS Startup, BasicFacts, TLAPS

(* What the environments of the processes and of the panel may be. *)
SettingsKnown == env \in ShortEnv

(* A process works on what loadConfig returned for the same settings, or   *)
(* was refused.                                                            *)
Resolved ==
    \A p \in Process :
        /\ phase[p] # "down" => target[p] = Resolve(file, env, panelFiles, option[p])
        /\ error[p] = "config" => Resolve(file, env, panelFiles, option[p]) = Invalid

(* A process that has started has a database, and counts the statements of *)
(* a migration only while it is in one.                                    *)
Live ==
    \A p \in Process :
        /\ phase[p] # "down" => target[p] \in Database
        /\ phase[p] # "migrating" => step[p] = 0

(* Whoever is past ValidateRequiredSchema works on a 3.x panel's database. *)
Checked ==
    \A p \in Process :
        phase[p] \in {"valid", "migrating"} => panelSchema[target[p]] = "3.x"

(* What the first n statements of a migration have brought about. *)
Reached(n, w) ==
    /\ n >= 1 => w.tables = Tables
    /\ n >= 2 => w.added = Tables
    /\ n >= 3 => ~w.obsolete
    /\ n >= 4 => ~w.duplicates
    /\ n >= 5 => w.identified
    /\ n >= 6 => w.indexes
    /\ n >= 7 => w.version = "3"

Migrating == \A p \in Process : phase[p] = "migrating" => Reached(step[p], work[p])

(* The backups in progress: an unraced file that is being written is there,*)
(* no path of theirs has been reported, and two of them share only a raced *)
(* one.                                                                    *)
BackingUp(p) == phase[p] \in {"picked", "dumping"}

Unraced ==
    /\ \A p \in Process : BackingUp(p) => path[p] \notin reported \ raced
    /\ \A p \in Process : phase[p] = "dumping" /\ path[p] \notin raced
                             => backups[path[p]] = "partial"
    /\ \A p, q \in Process : p # q /\ BackingUp(p) /\ BackingUp(q) /\ path[p] = path[q]
                                => path[p] \in raced

IInv ==
    /\ TypeOK /\ SettingsKnown /\ Live /\ Checked /\ Migrating
    /\ Resolved /\ UpgradeCompletes /\ Unraced /\ BackupKept


-----------------------------------------------------------------------------
(* The configuration.  The first of several environment files that has a   *)
(* line for a key decides, and one that names no DSN leaves it blank.      *)
LEMMA PanelValueDSN ==
    ASSUME NEW files \in Seq(EnvFile)
    PROVE  PanelValue(files, "dsn") \in {Blank, PanelServer}
<1> DEFINE having == {n \in DOMAIN files : files[n]["dsn"] # Unset}
<1>1. CASE having = {} BY <1>1 DEF PanelValue
<1>2. CASE having # {}
  <2>1. having \in SUBSET Nat OBVIOUS
  <2>2. \E n \in having : \A k \in having : n <= k BY <1>2, <2>1, NatLeast, Zenon
  <2>3. (CHOOSE n \in having : \A k \in having : n <= k) \in having BY <2>2, Zenon
  <2>4. PICK n \in having : PanelValue(files, "dsn") = files[n]["dsn"]
    BY <1>2, <2>3, Zenon DEF PanelValue
  <2>5. files[n] \in EnvFile /\ files[n]["dsn"] # Unset OBVIOUS
  <2> QED BY <2>4, <2>5 DEF EnvFile
<1> QED BY <1>1, <1>2

LEMMA LookupDSN ==
    ASSUME NEW files \in Seq(EnvFile), NEW e \in EnvFile
    PROVE  Lookup(e, files, "dsn") \in {Blank, PanelServer}
BY PanelValueDSN DEF Lookup, EnvFile

(* Whatever the settings, loadConfig returns a database or an error. *)
LEMMA ResolveType ==
    ASSUME NEW f \in FileConfig, NEW e \in EnvFile, NEW files \in Seq(EnvFile),
           NEW o \in {Blank, OtherFile}
    PROVE  Resolve(f, e, files, o) \in Database \cup {Invalid}
<1> DEFINE cfg == Load(f, e, files)
<1>1. CASE NormalizeBackend(f.backend) = Invalid BY <1>1 DEF Resolve
<1>2. CASE NormalizeBackend(f.backend) # Invalid
  <2>1. /\ NormalizeBackend(f.backend) \in {"auto", "sqlite", "postgres"}
        /\ f.path \in {Blank, OtherFile} /\ f.dsn \in {Blank, ConfigServer}
    BY <1>2 DEF NormalizeBackend, FileConfig, Blank, Unset, Invalid
  <2>2. Lookup(e, files, "dsn") \in {Blank, PanelServer} BY LookupDSN
  <2>3. /\ cfg.path \in {File, OtherFile}
        /\ cfg.dsn \in {Blank, ConfigServer, PanelServer}
        /\ cfg.backend \in {"auto", "sqlite", "postgres"}
    <3> DEFINE c == [backend |-> NormalizeBackend(f.backend),
                     path |-> IF f.path = Blank THEN File ELSE f.path,
                     dsn |-> f.dsn, sound |-> f.sound]
    <3>1. cfg = ApplyDatabaseEnv(c, e, files) BY DEF Load
    <3>2. /\ c.backend \in {"auto", "sqlite", "postgres"}
          /\ c.path \in {File, OtherFile} /\ c.dsn \in {Blank, ConfigServer}
          /\ c = [backend |-> c.backend, path |-> c.path, dsn |-> c.dsn, sound |-> c.sound]
      BY <2>1
    <3> HIDE DEF c
    <3>3. CASE c.backend = "sqlite" \/ c.dsn # Blank
      BY <3>1, <3>2, <3>3 DEF ApplyDatabaseEnv
    <3>4. CASE c.backend = "postgres" /\ c.dsn = Blank
      BY <3>1, <3>2, <3>4, <2>2 DEF ApplyDatabaseEnv
    <3>5. CASE c.backend = "auto" /\ c.dsn = Blank
      BY <3>1, <3>2, <3>5, <2>2 DEF ApplyDatabaseEnv
    <3> QED BY <3>2, <3>3, <3>4, <3>5
  <2>4. Resolve(f, e, files, o) =
            IF ~Validate(cfg) THEN Invalid
            ELSE IF o # Blank THEN o
            ELSE IF ResolvedBackend(cfg) = "sqlite" THEN cfg.path ELSE cfg.dsn
    BY <1>2 DEF Resolve
  <2> HIDE DEF cfg
  <2>5. ResolvedBackend(cfg) \in {"sqlite", "postgres"}
    BY <2>3 DEF ResolvedBackend
  <2>6. Validate(cfg) /\ ResolvedBackend(cfg) = "postgres" => cfg.dsn # Blank
    BY DEF Validate
  <2> QED BY <2>3, <2>4, <2>5, <2>6 DEF Database, Blank
<1> QED BY <1>1, <1>2


(* With one environment file its line decides, or the key is blank. *)
LEMMA OneFileValue ==
    ASSUME NEW f, NEW key
    PROVE  PanelValue(<<f>>, key) = IF f[key] = Unset THEN Blank ELSE f[key]
<1> DEFINE having == {n \in DOMAIN <<f>> : <<f>>[n][key] # Unset}
<1>1. DOMAIN <<f>> = {1} /\ <<f>>[1] = f OBVIOUS
<1>2. CASE f[key] = Unset
  <2>1. having = {} BY <1>1, <1>2
  <2> QED BY <1>2, <2>1 DEF PanelValue
<1>3. CASE f[key] # Unset
  <2>1. having = {1} BY <1>1, <1>3
  <2>2. (CHOOSE n \in having : \A k \in having : n <= k) = 1 BY <2>1
  <2>3. PanelValue(<<f>>, key) = <<f>>[1][key] BY <2>1, <2>2, Zenon DEF PanelValue
  <2> QED BY <1>1, <1>3, <2>3
<1> QED BY <1>2, <1>3

(* Load, Validate and --database resolve what the documentation says they  *)
(* do, for every configuration, environment and environment file.          *)
LEMMA ResolveDocumented ==
    ASSUME file \in FileConfig, env \in ShortEnv,
           NEW f \in EnvFile, panelFiles = <<f>>, NEW o \in {Blank, OtherFile}
    PROVE  Resolve(file, env, panelFiles, o) = Documented(o)
<1> DEFINE own == [key \in {"type", "dsn"} |->
                      IF env[key] # Unset THEN env[key] ELSE panelFiles[1][key]]
           Known(v) == IF v = Unset THEN Blank ELSE v
           path0 == IF file.path = Blank THEN File ELSE file.path
<1>0. panelFiles[1] = f OBVIOUS
<1>1. /\ file.backend \in {Blank, "auto", "sqlite", "postgres", "mysql"}
      /\ file.path \in {Blank, OtherFile} /\ file.dsn \in {Blank, ConfigServer}
      /\ env.type \in {Unset, "sqlite", "postgres"} /\ env.dsn \in {Unset, PanelServer}
      /\ f.type \in {Unset, Blank, "sqlite", "postgres", "mysql"}
      /\ f.dsn \in {Unset, Blank, PanelServer}
  BY DEF FileConfig, ShortEnv, EnvFile
<1>2. Lookup(env, panelFiles, "type") = Known(own.type)
  BY <1>0, <1>1, OneFileValue DEF Lookup, Unset, Blank
<1>3. Lookup(env, panelFiles, "dsn") = Known(own.dsn)
  BY <1>0, <1>1, OneFileValue DEF Lookup, Unset, Blank, PanelServer
<1>4. /\ own.type \in {Unset, Blank, "sqlite", "postgres", "mysql"}
      /\ own.dsn \in {Unset, Blank, PanelServer}
  BY <1>0, <1>1
<1>5. Documented(o) =
        LET panel == IF PanelDatabase(own) = File THEN path0 ELSE PanelDatabase(own)
            configured ==
                CASE ~file.sound \/ file.backend = "mysql" -> Invalid
                  [] file.sound /\ file.backend = "sqlite" -> path0
                  [] file.sound /\ file.backend \in {"postgres", "auto", Blank}
                                /\ file.dsn # Blank -> file.dsn
                  [] file.sound /\ file.backend = "postgres" /\ file.dsn = Blank ->
                        IF own.dsn \in {Unset, Blank} THEN Invalid ELSE own.dsn
                  [] file.sound /\ file.backend \in {"auto", Blank} /\ file.dsn = Blank ->
                        panel
        IN  IF configured = Invalid \/ o = Blank THEN configured ELSE o
  BY DEF Documented
<1> DEFINE c == [backend |-> NormalizeBackend(file.backend), path |-> path0,
                 dsn |-> file.dsn, sound |-> file.sound]
<1>6. /\ Load(file, env, panelFiles) = ApplyDatabaseEnv(c, env, panelFiles)
      /\ c.backend = NormalizeBackend(file.backend) /\ c.path = path0
      /\ c.dsn = file.dsn /\ c.sound = file.sound
  BY DEF Load
<1>7. file.sound \in BOOLEAN BY DEF FileConfig
<1>8. path0 \in {File, OtherFile} BY <1>1
<1> HIDE DEF own, path0
<1> USE DEF Blank, Unset, Invalid, File, OtherFile, ConfigServer, PanelServer
<1>10. CASE file.backend = "mysql"
  <2>1. NormalizeBackend(file.backend) = Invalid BY <1>10 DEF NormalizeBackend
  <2>2. Documented(o) = Invalid BY <1>5, <1>10
  <2> QED BY <2>1, <2>2 DEF Resolve
<1>11. CASE file.backend = "sqlite"
  <2>1. NormalizeBackend(file.backend) = "sqlite" BY <1>11 DEF NormalizeBackend
  <2>2. Load(file, env, panelFiles) = c BY <1>6, <2>1 DEF ApplyDatabaseEnv
  <2>3. ResolvedBackend(c) = "sqlite" BY <1>6, <2>1 DEF ResolvedBackend
  <2>4. Validate(c) <=> file.sound BY <1>6, <2>3 DEF Validate
  <2>5. Documented(o) = IF ~file.sound THEN Invalid ELSE IF o = Blank THEN path0 ELSE o
    BY <1>5, <1>7, <1>8, <1>11
  <2> HIDE DEF c
  <2> QED BY <1>6, <2>1, <2>2, <2>3, <2>4, <2>5 DEF Resolve
<1>12. CASE file.backend \in {"postgres", "auto", Blank} /\ file.dsn # Blank
  <2>1. NormalizeBackend(file.backend) \in {"auto", "postgres"}
    BY <1>12 DEF NormalizeBackend
  <2>2. Load(file, env, panelFiles) = c BY <1>6, <1>12 DEF ApplyDatabaseEnv
  <2>3. ResolvedBackend(c) = "postgres" BY <1>6, <1>12, <2>1 DEF ResolvedBackend
  <2>4. Validate(c) <=> file.sound BY <1>6, <1>12, <2>3 DEF Validate
  <2>5. Documented(o) = IF ~file.sound THEN Invalid ELSE IF o = Blank THEN file.dsn ELSE o
    BY <1>1, <1>5, <1>7, <1>12
  <2> HIDE DEF c
  <2> QED BY <1>6, <2>1, <2>2, <2>3, <2>4, <2>5 DEF Resolve
<1>13. CASE file.backend = "postgres" /\ file.dsn = Blank
  <2> DEFINE g == [c EXCEPT !.dsn = Known(own.dsn)]
  <2>1. NormalizeBackend(file.backend) = "postgres" BY <1>13 DEF NormalizeBackend
  <2>2. Load(file, env, panelFiles) = g
    BY <1>3, <1>6, <1>13, <2>1 DEF ApplyDatabaseEnv
  <2>3. /\ g.backend = "postgres" /\ g.dsn = Known(own.dsn) /\ g.sound = file.sound
    BY <2>1
  <2> HIDE DEF g
  <2>4. ResolvedBackend(g) = "postgres" BY <2>3 DEF ResolvedBackend
  <2>5. Validate(g) <=> file.sound /\ own.dsn \notin {Unset, Blank}
    BY <1>4, <2>3, <2>4 DEF Validate
  <2>6. Documented(o) = IF ~file.sound \/ own.dsn \in {Unset, Blank} THEN Invalid
                        ELSE IF o = Blank THEN own.dsn ELSE o
    BY <1>4, <1>5, <1>7, <1>13
  <2> HIDE DEF c
  <2> QED BY <1>4, <2>1, <2>2, <2>3, <2>4, <2>5, <2>6 DEF Resolve
<1>14. CASE file.backend \in {"auto", Blank} /\ file.dsn = Blank
  <2>1. NormalizeBackend(file.backend) = "auto" BY <1>14 DEF NormalizeBackend
  <2>2. Documented(o) =
          LET panel == IF PanelDatabase(own) = File THEN path0 ELSE PanelDatabase(own)
          IN  IF ~file.sound \/ panel = Invalid THEN Invalid
              ELSE IF o = Blank THEN panel ELSE o
    BY <1>5, <1>7, <1>14
  <2>3. CASE own.type = "postgres"
    <3> DEFINE g == [c EXCEPT !.backend = "postgres", !.dsn = Known(own.dsn)]
    <3>1. NormalizeBackend(Lookup(env, panelFiles, "type")) = "postgres"
      BY <1>2, <2>3 DEF NormalizeBackend
    <3>2. Load(file, env, panelFiles) = g
      BY <1>3, <1>6, <1>14, <2>1, <3>1 DEF ApplyDatabaseEnv
    <3>3. /\ g.backend = "postgres" /\ g.dsn = Known(own.dsn) /\ g.sound = file.sound
      OBVIOUS
    <3> HIDE DEF g
    <3>4. ResolvedBackend(g) = "postgres" BY <3>3 DEF ResolvedBackend
    <3>5. Validate(g) <=> file.sound /\ own.dsn \notin {Unset, Blank}
      BY <1>4, <3>3, <3>4 DEF Validate
    <3>6. Documented(o) = IF ~file.sound \/ own.dsn \in {Unset, Blank} THEN Invalid
                          ELSE IF o = Blank THEN own.dsn ELSE o
      BY <1>4, <2>2, <2>3 DEF PanelDatabase
    <3> HIDE DEF c
    <3> QED BY <1>4, <2>1, <3>2, <3>3, <3>4, <3>5, <3>6 DEF Resolve
  <2>4. CASE own.type # "postgres"
    <3>1. NormalizeBackend(Lookup(env, panelFiles, "type")) # "postgres"
      BY <1>2, <1>4, <2>4 DEF NormalizeBackend
    <3>2. Load(file, env, panelFiles) = c
      BY <1>6, <1>14, <2>1, <3>1 DEF ApplyDatabaseEnv
    <3>3. ResolvedBackend(c) = "sqlite" BY <1>6, <1>14, <2>1 DEF ResolvedBackend
    <3>4. Validate(c) <=> file.sound BY <1>6, <3>3 DEF Validate
    <3>5. Documented(o) = IF ~file.sound THEN Invalid ELSE IF o = Blank THEN path0 ELSE o
      BY <1>8, <2>2, <2>4 DEF PanelDatabase
    <3> HIDE DEF c
    <3> QED BY <1>6, <2>1, <3>2, <3>3, <3>4, <3>5 DEF Resolve
  <2> QED BY <2>3, <2>4
<1> QED BY <1>1, <1>10, <1>11, <1>12, <1>13, <1>14


-----------------------------------------------------------------------------
(* The type invariant, by the groups of variables. *)
TypeSettings ==
    /\ scene \in Scenes /\ file \in FileConfig /\ env \in EnvFile
    /\ panelFiles \in Seq(EnvFile) /\ access \in {"absent", "read", "write"}

TypeProc ==
    /\ phase \in [Process -> Phases] /\ kind \in [Process -> Kinds]
    /\ option \in [Process -> {Blank, OtherFile}]
    /\ target \in [Process -> Database \cup {Invalid}]
    /\ error \in [Process -> {Blank, "config", "migration"}]
    /\ step \in [Process -> 0..7]

TypeTx ==
    /\ work \in [Process -> Schema]
    /\ writer \in [Database -> Process \cup {Nobody}]
    /\ \A d \in Database, p \in Process :
          writer[d] = p <=> phase[p] = "migrating" /\ target[p] = d

TypeMeta ==
    /\ panelSchema \in [Database -> {"none", "2.x", "tables", "3.x"}]
    /\ metadata \in [Database -> Schema]

TypeDisk ==
    /\ backups \in [Path -> {"none", "partial", "complete"}]
    /\ second \in 0..MaxSecond /\ path \in [Process -> Path]
    /\ reported \subseteq Path /\ raced \subseteq Path

LEMMA MigrationLen ==
    /\ Len(Migration) = 7
    /\ Migration[1] = "tables" /\ Migration[2] = "columns" /\ Migration[3] = "obsolete"
    /\ Migration[4] = "policies" /\ Migration[5] = "identity"
    /\ Migration[6] = "indexes" /\ Migration[7] = "version"
BY DEF Migration

LEMMA TypeParts ==
    TypeOK <=> TypeSettings /\ TypeProc /\ TypeTx /\ TypeMeta /\ TypeDisk
BY MigrationLen, Zenon DEF TypeOK, TypeSettings, TypeProc, TypeTx, TypeMeta, TypeDisk

LEMMA SchemaTypes == Empty \in Schema /\ Current \in Schema /\ OldSchemas \subseteq Schema
<1> USE DEF Schema, Blank
<1>1. Empty \in Schema BY DEF Empty
<1>2. Current \in Schema BY DEF Current
<1>3. [Empty EXCEPT !.tables = {"meta"}] \in Schema BY DEF Empty, Tables
<1>4. [Empty EXCEPT !.tables = {"rules", "rule_clients"}, !.obsolete = TRUE,
                    !.identified = FALSE] \in Schema
  BY DEF Empty, Tables
<1>5. [Empty EXCEPT !.tables = Tables \ {"meta"}, !.added = {"rules", "rule_clients"},
                    !.obsolete = TRUE, !.duplicates = TRUE] \in Schema
  BY DEF Empty, Tables
<1>6. [Current EXCEPT !.obsolete = TRUE, !.duplicates = TRUE, !.version = "2"] \in Schema
  BY DEF Current, Tables
<1>7. [Current EXCEPT !.indexes = FALSE, !.added = Tables \ {"scopes"},
                      !.version = "2"] \in Schema
  BY DEF Current, Tables
<1> HIDE DEF Schema
<1> QED BY <1>1, <1>2, <1>3, <1>4, <1>5, <1>6, <1>7 DEF OldSchemas

LEMMA EnvTypes ==
    /\ ShortEnv \subseteq EnvFile /\ NoEnv \in ShortEnv /\ Plain \in FileConfig
    /\ PanelOn("sqlite") \in Seq(EnvFile) /\ PanelOn("postgres") \in Seq(EnvFile)
<1> USE DEF Blank, Unset, PanelServer
<1>1. ShortEnv \subseteq EnvFile /\ NoEnv \in ShortEnv BY DEF ShortEnv, EnvFile, NoEnv
<1>2. Plain \in FileConfig BY DEF Plain, FileConfig
<1>3. ASSUME NEW t \in {"sqlite", "postgres"} PROVE PanelOn(t) \in Seq(EnvFile)
  <2>1. [type |-> t, dsn |-> PanelServer] \in EnvFile BY DEF EnvFile
  <2>2. \A f \in EnvFile : <<f>> \in Seq(EnvFile) OBVIOUS
  <2> QED BY <2>1, <2>2 DEF PanelOn
<1> QED BY <1>1, <1>2, <1>3

LEMMA PathZero == <<0, 0>> \in Path
BY StartupAssumption DEF Path

LEMMA StartupInit == Init => IInv
<1> SUFFICES ASSUME Init PROVE IInv OBVIOUS
<1>1. TypeSettings /\ env \in ShortEnv /\ TypeMeta
  <2>1. CASE SettingsVary
    <3>1. panelFiles \in Seq(EnvFile)
      <4>0. /\ \A f \in EnvFile : <<f>> \in Seq(EnvFile)
            /\ \A g, f \in EnvFile : <<g, f>> \in Seq(EnvFile)
        OBVIOUS
      <4>1. CASE panelFiles \in {<<f>> : f \in EnvFile}
        <5>1. PICK f \in EnvFile : panelFiles = <<f>> BY <4>1
        <5> QED BY <4>0, <5>1
      <4>2. CASE panelFiles \in {<<g, f>> : g \in ShortEnv, f \in EnvFile}
        <5>1. PICK g \in ShortEnv, f \in EnvFile : panelFiles = <<g, f>> BY <4>2
        <5> QED BY <4>0, <5>1, EnvTypes
      <4> QED BY <2>1, <4>1, <4>2 DEF SettingsVary
    <3>2. TypeMeta BY <2>1, SchemaTypes DEF SettingsVary, TypeMeta
    <3> QED BY <2>1, <3>1, <3>2, EnvTypes DEF Init, SettingsVary, TypeSettings
  <2>2. CASE UpgradeVaries
    <3>1. panelFiles \in Seq(EnvFile) BY <2>2, EnvTypes DEF UpgradeVaries
    <3>2. TypeMeta
      <4>1. PICK m \in OldSchemas, s \in {"none", "2.x", "3.x"},
                 d \in {PanelDatabase(panelFiles[1])} :
               /\ metadata = [[e \in Database |-> Empty] EXCEPT ![d] = m]
               /\ panelSchema = [[e \in Database |-> "none"] EXCEPT ![d] = s]
        BY <2>2, Zenon DEF UpgradeVaries
      <4>2. m \in Schema /\ Empty \in Schema BY SchemaTypes
      <4> QED BY <4>1, <4>2 DEF TypeMeta
    <3> QED BY <2>2, <3>1, <3>2, EnvTypes DEF Init, UpgradeVaries, TypeSettings
  <2>3. CASE BackupsVary
    <3>1. panelFiles \in Seq(EnvFile) BY <2>3, EnvTypes DEF BackupsVary
    <3>2. TypeMeta BY <2>3, SchemaTypes DEF BackupsVary, TypeMeta
    <3> QED BY <2>3, <3>1, <3>2, EnvTypes DEF Init, BackupsVary, TypeSettings
  <2> QED BY <2>1, <2>2, <2>3 DEF Init
<1>2. TypeProc
  <2>1. 0 \in 0..7 OBVIOUS
  <2> QED BY <2>1 DEF Init, TypeProc, Phases, Kinds
<1>3. TypeTx BY SchemaTypes, ProcessAssumption DEF Init, TypeTx
<1>4. TypeDisk BY PathZero, StartupAssumption DEF Init, TypeDisk
<1>5. \A p \in Process : phase[p] = "down" /\ step[p] = 0 /\ error[p] = ""
  BY DEF Init, Blank
<1>6. reported = {} BY DEF Init
<1>7. Live /\ Checked /\ Migrating /\ Resolved /\ UpgradeCompletes
  BY <1>5 DEF Live, Checked, Migrating, Resolved, UpgradeCompletes
<1>8. Unraced /\ BackupKept BY <1>5, <1>6 DEF Unraced, BackingUp, BackupKept
<1> QED BY <1>1, <1>2, <1>3, <1>4, <1>7, <1>8, TypeParts DEF IInv, SettingsKnown


-----------------------------------------------------------------------------
(* No step changes the settings. *)
LEMMA SettingsConstant == [Next]_vars => UNCHANGED settings
<1> SUFFICES ASSUME [Next]_vars PROVE UNCHANGED settings OBVIOUS
<1>1. ASSUME NEW p, NEW e, End(p, e) PROVE UNCHANGED settings BY <1>1 DEF End
<1>2. ASSUME NEW p, NEW n, Goes(p, n) PROVE UNCHANGED settings BY <1>2 DEF Goes
<1>3. ASSUME NEW p, NEW k, NEW o, Start(p, k, o) PROVE UNCHANGED settings BY <1>3 DEF Start
<1>4. ASSUME NEW p, Open(p) \/ ValidateTables(p) \/ ValidateColumns(p) \/ Begin(p) \/ Commit(p)
      PROVE  UNCHANGED settings
  BY <1>2, <1>4, Zenon DEF Open, ValidateTables, ValidateColumns, Begin, Commit
<1>5. ASSUME NEW p, \/ OpenFails(p) \/ SchemaRefused(p) \/ BeginTimesOut(p) \/ Stop(p)
                    \/ BackupNoName(p) \/ BackupDone(p) \/ BackupFails(p)
      PROVE  UNCHANGED settings
  BY <1>1, <1>5, Zenon DEF OpenFails, SchemaRefused, BeginTimesOut, Stop, BackupNoName,
                           BackupDone, BackupFails
<1>6. ASSUME NEW p, Statement(p) PROVE UNCHANGED settings
  BY <1>1, <1>2, <1>6, Zenon DEF Statement
<1>7. ASSUME NEW p, BackupPick(p) \/ BackupStart(p) PROVE UNCHANGED settings
  BY <1>7 DEF BackupPick, BackupStart
<1>8. ASSUME NEW d, PanelBoot(d) PROVE UNCHANGED settings BY <1>8 DEF PanelBoot
<1>9. ASSUME NextSecond PROVE UNCHANGED settings BY <1>9 DEF NextSecond
<1>10. ASSUME UNCHANGED vars PROVE UNCHANGED settings BY <1>10 DEF vars
<1> QED BY <1>3, <1>4, <1>5, <1>6, <1>7, <1>8, <1>9, <1>10, Zenon DEF Next

(* What an end does to the process and to its transaction. *)
LEMMA EndStep ==
    ASSUME TypeProc, TypeTx, Live, NEW p \in Process, NEW e \in {Blank, "migration"},
           End(p, e)
    PROVE  TypeProc' /\ TypeTx' /\ Live'
<1>1. /\ phase' = [phase EXCEPT ![p] = "down"] /\ error' = [error EXCEPT ![p] = e]
      /\ kind' = [kind EXCEPT ![p] = "read"] /\ option' = [option EXCEPT ![p] = Blank]
      /\ target' = [target EXCEPT ![p] = Invalid]
      /\ work' = [work EXCEPT ![p] = Empty] /\ step' = [step EXCEPT ![p] = 0]
      /\ writer' = [d \in Database |-> IF writer[d] = p THEN Nobody ELSE writer[d]]
  BY DEF End
<1>2. TypeProc'
  <2>1. 0 \in 0..7 OBVIOUS
  <2> QED BY <1>1, <2>1 DEF TypeProc, Phases, Kinds
<1>3. TypeTx'
  <2>1. work' \in [Process -> Schema] BY <1>1, SchemaTypes DEF TypeTx
  <2>2. writer' \in [Database -> Process \cup {Nobody}] BY <1>1 DEF TypeTx
  <2>3. ASSUME NEW d \in Database, NEW q \in Process
        PROVE  writer'[d] = q <=> phase'[q] = "migrating" /\ target'[q] = d
    <3>1. CASE q = p BY <1>1, <3>1, ProcessAssumption DEF TypeProc
    <3>2. CASE q # p
      <4>1. phase'[q] = phase[q] /\ target'[q] = target[q] BY <1>1, <3>2 DEF TypeProc
      <4>2. writer'[d] = q <=> writer[d] = q BY <1>1, <3>2, ProcessAssumption
      <4> QED BY <4>1, <4>2 DEF TypeTx
    <3> QED BY <3>1, <3>2
  <2> QED BY <2>1, <2>2, <2>3 DEF TypeTx
<1>4. Live' BY <1>1 DEF Live, TypeProc
<1> QED BY <1>2, <1>3, <1>4


(* A step between two phases outside the migration. *)
LEMMA MoveStep ==
    ASSUME TypeProc, TypeTx, Live, NEW p \in Process,
           NEW x \in Phases \ {"down", "migrating"}, phase[p] \notin {"down", "migrating"},
           phase' = [phase EXCEPT ![p] = x],
           UNCHANGED <<kind, option, target, error, work, step, writer>>
    PROVE  TypeProc' /\ TypeTx' /\ Live'
<1>1. TypeProc' BY DEF TypeProc
<1>2. TypeTx' BY DEF TypeTx, TypeProc
<1>3. Live' BY DEF Live, TypeProc
<1> QED BY <1>1, <1>2, <1>3

LEMMA StartStep ==
    ASSUME TypeSettings, TypeProc, TypeTx, Live, NEW p \in Process, NEW k \in Kinds,
           NEW o \in {Blank, OtherFile}, Start(p, k, o)
    PROVE  TypeProc' /\ TypeTx' /\ Live'
<1> DEFINE database == Resolve(file, env, panelFiles, o)
<1>1. database \in Database \cup {Invalid} BY ResolveType DEF TypeSettings
<1>2. /\ phase[p] = "down" /\ target' = [target EXCEPT ![p] = database]
      /\ phase' = [phase EXCEPT ![p] = IF database = Invalid THEN "down" ELSE "loaded"]
      /\ error' = [error EXCEPT ![p] = IF database = Invalid THEN "config" ELSE Blank]
      /\ kind' = [kind EXCEPT ![p] = k] /\ option' = [option EXCEPT ![p] = o]
      /\ UNCHANGED tx
  BY DEF Start
<1> HIDE DEF database
<1>3. TypeProc' BY <1>1, <1>2 DEF TypeProc, Phases, tx
<1>4. TypeTx' BY <1>1, <1>2 DEF TypeTx, TypeProc, tx
<1>5. Live' BY <1>1, <1>2 DEF Live, TypeProc, tx
<1> QED BY <1>3, <1>4, <1>5

LEMMA BeginStep ==
    ASSUME TypeProc, TypeTx, TypeMeta, Live, NEW p \in Process, Begin(p)
    PROVE  TypeProc' /\ TypeTx' /\ Live'
<1>1. /\ phase[p] = "valid" /\ writer[target[p]] = Nobody /\ target[p] \in Database
      /\ writer' = [writer EXCEPT ![target[p]] = p]
      /\ work' = [work EXCEPT ![p] = metadata[target[p]]]
      /\ phase' = [phase EXCEPT ![p] = "migrating"]
      /\ UNCHANGED <<kind, option, target, error, step>>
  BY DEF Begin, Goes, Live
<1>2. TypeProc' BY <1>1 DEF TypeProc, Phases
<1>3. TypeTx'
  <2>1. work' \in [Process -> Schema] BY <1>1 DEF TypeTx, TypeMeta
  <2>2. writer' \in [Database -> Process \cup {Nobody}] BY <1>1 DEF TypeTx
  <2>3. ASSUME NEW d \in Database, NEW q \in Process
        PROVE  writer'[d] = q <=> phase'[q] = "migrating" /\ target'[q] = d
    <3>1. writer[d] = q <=> phase[q] = "migrating" /\ target[q] = d BY DEF TypeTx
    <3>2. writer[target[p]] # q BY <1>1, ProcessAssumption
    <3> QED BY <1>1, <3>1, <3>2 DEF TypeTx, TypeProc
  <2> QED BY <2>1, <2>2, <2>3 DEF TypeTx
<1>4. Live' BY <1>1 DEF Live, TypeProc
<1> QED BY <1>2, <1>3, <1>4

LEMMA CommitStep ==
    ASSUME TypeProc, TypeTx, Live, NEW p \in Process, Commit(p)
    PROVE  TypeProc' /\ TypeTx' /\ Live'
<1>1. /\ phase[p] = "migrating" /\ target[p] \in Database
      /\ writer' = [writer EXCEPT ![target[p]] = Nobody]
      /\ work' = [work EXCEPT ![p] = Empty] /\ step' = [step EXCEPT ![p] = 0]
      /\ phase' = [phase EXCEPT ![p] = "ready"]
      /\ UNCHANGED <<kind, option, target, error>>
  BY DEF Commit, Goes, Live
<1>2. TypeProc'
  <2>1. 0 \in 0..7 OBVIOUS
  <2> QED BY <1>1, <2>1 DEF TypeProc, Phases
<1>3. TypeTx'
  <2>1. work' \in [Process -> Schema] BY <1>1, SchemaTypes DEF TypeTx
  <2>2. writer' \in [Database -> Process \cup {Nobody}] BY <1>1 DEF TypeTx
  <2>3. ASSUME NEW d \in Database, NEW q \in Process
        PROVE  writer'[d] = q <=> phase'[q] = "migrating" /\ target'[q] = d
    <3>1. writer[d] = q <=> phase[q] = "migrating" /\ target[q] = d BY DEF TypeTx
    <3>2. writer[target[p]] = p BY <1>1 DEF TypeTx
    <3>3. Nobody # q BY ProcessAssumption
    <3> QED BY <1>1, <3>1, <3>2, <3>3 DEF TypeTx, TypeProc
  <2> QED BY <2>1, <2>2, <2>3 DEF TypeTx
<1>4. Live' BY <1>1 DEF Live, TypeProc
<1> QED BY <1>2, <1>3, <1>4

-----------------------------------------------------------------------------
(* A statement of the migration never lacks a column, and brings about     *)
(* what the next ones rely on.                                             *)
LEMMA ApplyReaches ==
    ASSUME NEW n \in 0..6, NEW w \in Schema, Reached(n, w)
    PROVE  /\ Needs(Migration[n + 1]) \subseteq w.added
           /\ Apply(Migration[n + 1], w) \in Schema
           /\ Reached(n + 1, Apply(Migration[n + 1], w))
<1> DEFINE s == Migration[n + 1]
           v == Apply(s, w)
<1>0. CASE n = 0
  <2>1. s = "tables" BY <1>0, MigrationLen
  <2>2. v = [w EXCEPT !.tables = Tables, !.added = @ \cup (Tables \ w.tables)] BY <2>1 DEF Apply
  <2> HIDE DEF s, v
  <2>3. v \in Schema BY <2>2 DEF Schema
  <2>4. Reached(0, w) BY <1>0
  <2>5. Reached(1, v) BY <2>2, <2>4 DEF Reached, Schema
  <2>6. Needs(s) \subseteq w.added BY <2>1, <2>4 DEF Needs, Reached, Tables
  <2> QED BY <1>0, <2>3, <2>5, <2>6 DEF s, v
<1>1. CASE n = 1
  <2>1. s = "columns" BY <1>1, MigrationLen
  <2>2. v = [w EXCEPT !.added = Tables] BY <2>1 DEF Apply
  <2> HIDE DEF s, v
  <2>3. v \in Schema BY <2>2 DEF Schema
  <2>4. Reached(1, w) BY <1>1
  <2>5. Reached(2, v) BY <2>2, <2>4 DEF Reached, Schema
  <2>6. Needs(s) \subseteq w.added BY <2>1, <2>4 DEF Needs, Reached, Tables
  <2> QED BY <1>1, <2>3, <2>5, <2>6 DEF s, v
<1>2. CASE n = 2
  <2>1. s = "obsolete" BY <1>2, MigrationLen
  <2>2. v = [w EXCEPT !.obsolete = FALSE] BY <2>1 DEF Apply
  <2> HIDE DEF s, v
  <2>3. v \in Schema BY <2>2 DEF Schema
  <2>4. Reached(2, w) BY <1>2
  <2>5. Reached(3, v) BY <2>2, <2>4 DEF Reached, Schema
  <2>6. Needs(s) \subseteq w.added BY <2>1, <2>4 DEF Needs, Reached, Tables
  <2> QED BY <1>2, <2>3, <2>5, <2>6 DEF s, v
<1>3. CASE n = 3
  <2>1. s = "policies" BY <1>3, MigrationLen
  <2>2. v = [w EXCEPT !.duplicates = FALSE] BY <2>1 DEF Apply
  <2> HIDE DEF s, v
  <2>3. v \in Schema BY <2>2 DEF Schema
  <2>4. Reached(3, w) BY <1>3
  <2>5. Reached(4, v) BY <2>2, <2>4 DEF Reached, Schema
  <2>6. Needs(s) \subseteq w.added BY <2>1, <2>4 DEF Needs, Reached, Tables
  <2> QED BY <1>3, <2>3, <2>5, <2>6 DEF s, v
<1>4. CASE n = 4
  <2>1. s = "identity" BY <1>4, MigrationLen
  <2>2. v = [w EXCEPT !.identified = TRUE] BY <2>1 DEF Apply
  <2> HIDE DEF s, v
  <2>3. v \in Schema BY <2>2 DEF Schema
  <2>4. Reached(4, w) BY <1>4
  <2>5. Reached(5, v) BY <2>2, <2>4 DEF Reached, Schema
  <2>6. Needs(s) \subseteq w.added BY <2>1, <2>4 DEF Needs, Reached, Tables
  <2> QED BY <1>4, <2>3, <2>5, <2>6 DEF s, v
<1>5. CASE n = 5
  <2>1. s = "indexes" BY <1>5, MigrationLen
  <2>2. v = [w EXCEPT !.indexes = TRUE] BY <2>1 DEF Apply
  <2> HIDE DEF s, v
  <2>3. v \in Schema BY <2>2 DEF Schema
  <2>4. Reached(5, w) BY <1>5
  <2>5. Reached(6, v) BY <2>2, <2>4 DEF Reached, Schema
  <2>6. Needs(s) \subseteq w.added BY <2>1, <2>4 DEF Needs, Reached, Tables
  <2> QED BY <1>5, <2>3, <2>5, <2>6 DEF s, v
<1>6. CASE n = 6
  <2>1. s = "version" BY <1>6, MigrationLen
  <2>2. v = [w EXCEPT !.version = "3"] BY <2>1 DEF Apply
  <2> HIDE DEF s, v
  <2>3. v \in Schema BY <2>2 DEF Schema
  <2>4. Reached(6, w) BY <1>6
  <2>5. Reached(7, v) BY <2>2, <2>4 DEF Reached, Schema
  <2>6. Needs(s) \subseteq w.added BY <2>1, <2>4 DEF Needs, Reached, Tables
  <2> QED BY <1>6, <2>3, <2>5, <2>6 DEF s, v
<1> QED BY <1>0, <1>1, <1>2, <1>3, <1>4, <1>5, <1>6

(* The whole migration leads to the current schema, whatever it found. *)
LEMMA ReachesCurrent ==
    ASSUME NEW w \in Schema, Reached(7, w)
    PROVE  w = Current
BY DEF Schema, Reached, Current


-----------------------------------------------------------------------------
(* The shapes of steps: a process moves between phases, or executes a      *)
(* statement, or ...                                                       *)
AtWork == {"ready", "picked", "dumping"}

Moves(p, x) ==
    /\ phase[p] \notin {"down", "migrating"} /\ x \in Phases \ {"down", "migrating"}
    /\ phase' = [phase EXCEPT ![p] = x]
    /\ x = "valid" => panelSchema[target[p]] = "3.x"
    /\ x \in AtWork => kind[p] = "read" \/ phase[p] \in AtWork
    /\ UNCHANGED <<kind, option, target, error, work, step, writer, metadata, panelSchema>>

Executes(p) ==
    /\ phase[p] = "migrating" /\ step[p] \in 0..6
    /\ work' = [work EXCEPT ![p] = Apply(Migration[step[p] + 1], work[p])]
    /\ step' = [step EXCEPT ![p] = step[p] + 1]
    /\ UNCHANGED <<phase, kind, option, target, error, writer, metadata, panelSchema>>

(* ... only the panel or the clock moves. *)
Outside ==
    /\ UNCHANGED <<phase, kind, option, target, error, work, step, writer, metadata>>
    /\ UNCHANGED panelSchema \/ \E d \in Database : PanelBoot(d)

LEMMA Steps ==
    ASSUME IInv, [Next]_vars
    PROVE  \/ Outside
           \/ \E p \in Process :
                 \/ \E k \in Kinds, o \in {Blank, OtherFile} : Start(p, k, o)
                 \/ End(p, Blank) \/ Begin(p) \/ Executes(p) \/ Commit(p)
                 \/ \E x \in Phases : Moves(p, x)
<1>1. ASSUME NEW p \in Process, Open(p) PROVE Moves(p, "opened")
  BY <1>1 DEF Open, Goes, Moves, Phases, AtWork, tx
<1>2. ASSUME NEW p \in Process, ValidateTables(p) PROVE Moves(p, "tables")
  BY <1>2 DEF ValidateTables, Goes, Moves, Phases, AtWork, tx
<1>3. ASSUME NEW p \in Process, ValidateColumns(p)
      PROVE  Moves(p, IF kind[p] = "read" THEN "ready" ELSE "valid")
  BY <1>3 DEF ValidateColumns, Goes, Moves, Phases, AtWork, tx
<1>4. ASSUME NEW p \in Process, BackupPick(p) PROVE Moves(p, "picked")
  BY <1>4 DEF BackupPick, Moves, Phases, AtWork, tx
<1>5. ASSUME NEW p \in Process, BackupStart(p) PROVE Moves(p, "dumping")
  BY <1>5 DEF BackupStart, Moves, Phases, AtWork, tx
<1>6. ASSUME NEW p \in Process, Statement(p) PROVE Executes(p)
  <2>1. phase[p] = "migrating" /\ step[p] < Len(Migration) BY <1>6 DEF Statement
  <2>2. step[p] \in 0..7 /\ work[p] \in Schema /\ Reached(step[p], work[p])
    BY <2>1, TypeParts DEF IInv, TypeProc, TypeTx, Migrating
  <2>3. step[p] \in 0..6 BY <2>1, <2>2, MigrationLen
  <2>4. Needs(Migration[step[p] + 1]) \subseteq work[p].added
    BY <2>2, <2>3, ApplyReaches
  <2>5. /\ work' = [work EXCEPT ![p] = Apply(Migration[step[p] + 1], work[p])]
        /\ step' = [step EXCEPT ![p] = @ + 1]
        /\ Goes(p, "migrating") /\ UNCHANGED <<metadata, writer>>
    BY <1>6, <2>4 DEF Statement
  <2>6. phase' = phase
    <3>1. phase \in [Process -> Phases] BY TypeParts DEF IInv, TypeProc
    <3> QED BY <2>1, <2>5, <3>1 DEF Goes
  <2> QED BY <2>1, <2>3, <2>5, <2>6 DEF Executes, Goes
<1>7. ASSUME NEW p \in Process,
             \/ OpenFails(p) \/ SchemaRefused(p) \/ BeginTimesOut(p) \/ Stop(p)
             \/ BackupNoName(p) \/ BackupDone(p) \/ BackupFails(p)
      PROVE  End(p, Blank)
  BY <1>7, Zenon DEF OpenFails, SchemaRefused, BeginTimesOut, Stop, BackupNoName,
                     BackupDone, BackupFails
<1>8. ASSUME (\E d \in Database : PanelBoot(d)) \/ NextSecond \/ UNCHANGED vars
      PROVE  Outside
  BY <1>8 DEF Outside, PanelBoot, NextSecond, vars, proc, tx
<1>9. /\ {"opened", "tables", "picked", "dumping"} \subseteq Phases
      /\ \A p \in Process : (IF kind[p] = "read" THEN "ready" ELSE "valid") \in Phases
  BY DEF Phases
<1>10. CASE Next
  BY <1>10, <1>1, <1>2, <1>3, <1>4, <1>5, <1>6, <1>7, <1>8, <1>9 DEF Next
<1> QED BY <1>8, <1>10

(* The processes and the migration's transaction. *)
LEMMA ProcessStep ==
    ASSUME IInv, [Next]_vars PROVE TypeProc' /\ TypeTx' /\ Live'
<1>1. TypeSettings /\ TypeProc /\ TypeTx /\ TypeMeta /\ Live BY TypeParts DEF IInv
<1>2. CASE Outside BY <1>1, <1>2 DEF Outside, TypeProc, TypeTx, Live
<1>3. ASSUME NEW p \in Process, NEW k \in Kinds, NEW o \in {Blank, OtherFile},
             Start(p, k, o)
      PROVE  TypeProc' /\ TypeTx' /\ Live'
  BY <1>1, <1>3, StartStep
<1>4. ASSUME NEW p \in Process, End(p, Blank) PROVE TypeProc' /\ TypeTx' /\ Live'
  BY <1>1, <1>4, EndStep
<1>5. ASSUME NEW p \in Process, Begin(p) PROVE TypeProc' /\ TypeTx' /\ Live'
  BY <1>1, <1>5, BeginStep
<1>6. ASSUME NEW p \in Process, Commit(p) PROVE TypeProc' /\ TypeTx' /\ Live'
  BY <1>1, <1>6, CommitStep
<1>7. ASSUME NEW p \in Process, NEW x \in Phases, Moves(p, x)
      PROVE  TypeProc' /\ TypeTx' /\ Live'
  BY <1>1, <1>7, MoveStep DEF Moves
<1>8. ASSUME NEW p \in Process, Executes(p) PROVE TypeProc' /\ TypeTx' /\ Live'
  <2>1. work[p] \in Schema /\ Reached(step[p], work[p]) /\ step[p] \in 0..6
    BY <1>1, <1>8 DEF Executes, IInv, Migrating, TypeTx
  <2>2. Apply(Migration[step[p] + 1], work[p]) \in Schema BY <2>1, ApplyReaches
  <2>3. step[p] + 1 \in 0..7 BY <2>1
  <2>4. TypeProc' BY <1>1, <1>8, <2>3 DEF Executes, TypeProc
  <2>5. TypeTx' BY <1>1, <1>8, <2>2 DEF Executes, TypeTx
  <2>6. Live' BY <1>1, <1>8 DEF Executes, Live, TypeProc
  <2> QED BY <2>4, <2>5, <2>6
<1> QED BY <1>2, <1>3, <1>4, <1>5, <1>6, <1>7, <1>8, Steps


(* A process stays on the database that its settings name. *)
LEMMA ResolvedStep ==
    ASSUME IInv, [Next]_vars PROVE TypeSettings' /\ SettingsKnown' /\ Resolved'
<1>1. TypeSettings /\ TypeProc /\ SettingsKnown /\ Resolved BY TypeParts DEF IInv
<1>2. UNCHANGED <<scene, file, env, panelFiles, access>>
  BY SettingsConstant DEF settings
<1>3. TypeSettings' /\ SettingsKnown' BY <1>1, <1>2 DEF TypeSettings, SettingsKnown
<1>4. SUFFICES Resolved' BY <1>3
<1> DEFINE Of(o) == Resolve(file, env, panelFiles, o)
<1>5. ASSUME NEW o PROVE Of(o)' = Of(o) BY <1>2
<1>6. ASSUME NEW q \in Process,
             phase'[q] = phase[q] \/ phase[q] # "down" \/ phase'[q] = "down",
             target'[q] = target[q] \/ phase'[q] = "down", option'[q] = option[q],
             error'[q] = error[q]
      PROVE  /\ phase'[q] # "down" => target'[q] = Resolve(file, env, panelFiles, option'[q])
             /\ error'[q] = "config" => Resolve(file, env, panelFiles, option'[q]) = Invalid
  BY <1>1, <1>6 DEF Resolved
<1>7. ASSUME \A q \in Process :
                /\ phase'[q] # "down" => target'[q] = Resolve(file, env, panelFiles, option'[q])
                /\ error'[q] = "config" => Resolve(file, env, panelFiles, option'[q]) = Invalid
      PROVE  Resolved'
  BY <1>2, <1>7, Zenon DEF Resolved
<1>8. CASE \E p \in Process, k \in Kinds, o \in {Blank, OtherFile} : Start(p, k, o)
  <2>1. PICK p \in Process, k \in Kinds, o \in {Blank, OtherFile} : Start(p, k, o)
    BY <1>8, Zenon
  <2>2. /\ phase[p] = "down" /\ target' = [target EXCEPT ![p] = Of(o)]
        /\ phase' = [phase EXCEPT ![p] = IF Of(o) = Invalid THEN "down" ELSE "loaded"]
        /\ error' = [error EXCEPT ![p] = IF Of(o) = Invalid THEN "config" ELSE Blank]
        /\ option' = [option EXCEPT ![p] = o]
    BY <2>1 DEF Start
  <2> HIDE DEF Of
  <2>3. ASSUME NEW q \in Process
        PROVE  /\ phase'[q] # "down" => target'[q] = Of(option'[q])
               /\ error'[q] = "config" => Of(option'[q]) = Invalid
    <3>1. CASE q = p BY <1>1, <2>2, <3>1 DEF TypeProc, Blank
    <3>2. CASE q # p
      <4>1. /\ phase'[q] = phase[q] /\ target'[q] = target[q]
            /\ option'[q] = option[q] /\ error'[q] = error[q]
        BY <1>1, <2>2, <3>2 DEF TypeProc
      <4> QED BY <4>1, <1>6 DEF Of
    <3> QED BY <3>1, <3>2
  <2> QED BY <1>7, <2>3, Zenon DEF Of
<1>9. CASE \E p \in Process : End(p, Blank)
  <2>1. PICK p \in Process : End(p, Blank) BY <1>9
  <2>2. /\ phase' = [phase EXCEPT ![p] = "down"] /\ error' = [error EXCEPT ![p] = Blank]
        /\ option' = [option EXCEPT ![p] = Blank]
        /\ target' = [target EXCEPT ![p] = Invalid]
    BY <2>1 DEF End
  <2>3. ASSUME NEW q \in Process
        PROVE  /\ phase'[q] # "down" => target'[q] = Resolve(file, env, panelFiles, option'[q])
               /\ error'[q] = "config" => Resolve(file, env, panelFiles, option'[q]) = Invalid
    <3>1. CASE q = p BY <1>1, <2>2, <3>1 DEF TypeProc, Blank
    <3>2. CASE q # p
      <4>1. /\ phase'[q] = phase[q] /\ target'[q] = target[q]
            /\ option'[q] = option[q] /\ error'[q] = error[q]
        BY <1>1, <2>2, <3>2 DEF TypeProc
      <4> QED BY <4>1, <1>6
    <3> QED BY <3>1, <3>2
  <2> QED BY <1>7, <2>3, Zenon
<1>10. ASSUME UNCHANGED <<target, option, error>>,
              \A q \in Process : phase'[q] = phase[q] \/ phase[q] # "down"
       PROVE  Resolved'
  BY <1>6, <1>7, <1>10
<1>11. CASE Outside BY <1>10, <1>11 DEF Outside
<1>12. ASSUME NEW p \in Process, Begin(p) \/ Executes(p) \/ Commit(p) PROVE Resolved'
  BY <1>1, <1>10, <1>12 DEF Begin, Executes, Commit, Goes, TypeProc
<1>13. ASSUME NEW p \in Process, NEW x \in Phases, Moves(p, x) PROVE Resolved'
  BY <1>1, <1>10, <1>13 DEF Moves, TypeProc
<1> QED BY <1>8, <1>9, <1>11, <1>12, <1>13, Steps

(* Only the current schema is ever committed, into a 3.x database.  *)
LEMMA CommitsCurrent ==
    ASSUME IInv, NEW p \in Process, Commit(p)
    PROVE  /\ target[p] \in Database /\ panelSchema[target[p]] = "3.x"
           /\ metadata' = [metadata EXCEPT ![target[p]] = Current]
<1>1. phase[p] = "migrating" /\ step[p] = 7
  BY MigrationLen DEF Commit
<1>2. work[p] \in Schema /\ Reached(7, work[p])
  BY <1>1, TypeParts DEF IInv, Migrating, TypeTx
<1>3. work[p] = Current BY <1>2, ReachesCurrent
<1>4. target[p] \in Database /\ panelSchema[target[p]] = "3.x"
  BY <1>1 DEF IInv, Live, Checked
<1> QED BY <1>3, <1>4 DEF Commit

(* The schemas: what a check has seen of the panel's database stays true,  *)
(* and no later commit undoes an upgrade.                                  *)
LEMMA SchemaStep ==
    ASSUME IInv, [Next]_vars
    PROVE  TypeMeta' /\ Checked' /\ Migrating' /\ UpgradeCompletes'
<1>1. TypeProc /\ TypeTx /\ TypeMeta /\ Live /\ Checked /\ Migrating /\ UpgradeCompletes
  BY TypeParts DEF IInv
<1>2. CASE Outside
  <2>1. UNCHANGED <<phase, kind, target, error, work, step, metadata>> BY <1>2 DEF Outside
  <2>2. /\ panelSchema' \in [Database -> {"none", "2.x", "tables", "3.x"}]
        /\ \A d \in Database : panelSchema[d] = "3.x" => panelSchema'[d] = "3.x"
    BY <1>1, <1>2 DEF Outside, PanelBoot, TypeMeta
  <2>3. TypeMeta' BY <1>1, <2>1, <2>2 DEF TypeMeta
  <2>4. Checked' BY <1>1, <2>1, <2>2 DEF Checked, Live
  <2>5. Migrating' BY <1>1, <2>1 DEF Migrating, Reached
  <2>6. UpgradeCompletes' BY <1>1, <2>1 DEF UpgradeCompletes
  <2> QED BY <2>3, <2>4, <2>5, <2>6
<1>3. ASSUME NEW p \in Process, UNCHANGED <<panelSchema, metadata>>,
             \A q \in Process \ {p} : /\ phase'[q] = phase[q] /\ target'[q] = target[q]
                                      /\ kind'[q] = kind[q] /\ error'[q] = error[q]
                                      /\ work'[q] = work[q] /\ step'[q] = step[q],
             phase'[p] \in {"valid", "migrating"} => panelSchema[target'[p]] = "3.x",
             phase'[p] = "migrating" => Reached(step'[p], work'[p]),
             error'[p] # "migration",
             phase'[p] \in AtWork /\ kind'[p] # "read" => metadata[target'[p]] = Current
      PROVE  TypeMeta' /\ Checked' /\ Migrating' /\ UpgradeCompletes'
  <2>1. TypeMeta' BY <1>1, <1>3 DEF TypeMeta
  <2>2. Checked' BY <1>1, <1>3 DEF Checked
  <2>3. Migrating' BY <1>1, <1>3 DEF Migrating, Reached
  <2>4. UpgradeCompletes' BY <1>1, <1>3 DEF UpgradeCompletes, AtWork
  <2> QED BY <2>1, <2>2, <2>3, <2>4
<1>4. ASSUME NEW p \in Process, NEW k \in Kinds, NEW o \in {Blank, OtherFile},
             Start(p, k, o)
      PROVE  TypeMeta' /\ Checked' /\ Migrating' /\ UpgradeCompletes'
  <2>1. phase'[p] \in {"down", "loaded"} /\ error'[p] \in {"config", Blank}
    BY <1>1, <1>4 DEF Start, TypeProc
  <2>2. UNCHANGED <<panelSchema, metadata, work, step>>
        /\ \A q \in Process \ {p} : /\ phase'[q] = phase[q] /\ target'[q] = target[q]
                                    /\ kind'[q] = kind[q] /\ error'[q] = error[q]
    BY <1>1, <1>4 DEF Start, TypeProc, tx
  <2> QED BY <1>3, <2>1, <2>2 DEF AtWork, Blank
<1>5. ASSUME NEW p \in Process, End(p, Blank)
      PROVE  TypeMeta' /\ Checked' /\ Migrating' /\ UpgradeCompletes'
  <2>1. phase'[p] = "down" /\ error'[p] = Blank BY <1>1, <1>5 DEF End, TypeProc
  <2>2. UNCHANGED <<panelSchema, metadata>>
        /\ \A q \in Process \ {p} : /\ phase'[q] = phase[q] /\ target'[q] = target[q]
                                    /\ kind'[q] = kind[q] /\ error'[q] = error[q]
                                    /\ work'[q] = work[q] /\ step'[q] = step[q]
    BY <1>1, <1>5 DEF End, TypeProc, TypeTx
  <2> QED BY <1>3, <2>1, <2>2 DEF AtWork, Blank
<1>6. ASSUME NEW p \in Process, Begin(p)
      PROVE  TypeMeta' /\ Checked' /\ Migrating' /\ UpgradeCompletes'
  <2>1. /\ phase[p] = "valid" /\ phase'[p] = "migrating" /\ step'[p] = 0
        /\ UNCHANGED <<panelSchema, metadata, target, kind, error>>
        /\ \A q \in Process \ {p} : /\ phase'[q] = phase[q]
                                    /\ work'[q] = work[q] /\ step'[q] = step[q]
    BY <1>1, <1>6 DEF Begin, Goes, TypeProc, TypeTx, Live
  <2>2. Reached(step'[p], work'[p]) BY <2>1 DEF Reached
  <2>3. panelSchema[target'[p]] = "3.x" BY <1>1, <2>1 DEF Checked
  <2>4. error'[p] # "migration" BY <1>1, <2>1 DEF UpgradeCompletes
  <2> QED BY <1>3, <2>1, <2>2, <2>3, <2>4 DEF AtWork
<1>7. ASSUME NEW p \in Process, Executes(p)
      PROVE  TypeMeta' /\ Checked' /\ Migrating' /\ UpgradeCompletes'
  <2>1. work[p] \in Schema /\ Reached(step[p], work[p]) /\ step[p] \in 0..6
        /\ phase[p] = "migrating"
    BY <1>1, <1>7 DEF Executes, Migrating, TypeTx
  <2>2. /\ UNCHANGED <<phase, panelSchema, metadata, target, kind, error>>
        /\ work'[p] = Apply(Migration[step[p] + 1], work[p]) /\ step'[p] = step[p] + 1
        /\ \A q \in Process \ {p} : work'[q] = work[q] /\ step'[q] = step[q]
    BY <1>1, <1>7 DEF Executes, TypeProc, TypeTx
  <2>3. Reached(step'[p], work'[p]) BY <2>1, <2>2, ApplyReaches
  <2>4. panelSchema[target'[p]] = "3.x" BY <1>1, <2>1, <2>2 DEF Checked
  <2>5. error'[p] # "migration" BY <1>1, <2>2 DEF UpgradeCompletes
  <2> QED BY <1>3, <2>1, <2>2, <2>3, <2>4, <2>5 DEF AtWork
<1>8. ASSUME NEW p \in Process, NEW x \in Phases, Moves(p, x)
      PROVE  TypeMeta' /\ Checked' /\ Migrating' /\ UpgradeCompletes'
  <2>1. /\ phase'[p] = x /\ UNCHANGED <<panelSchema, metadata, target, kind, error, work, step>>
        /\ \A q \in Process \ {p} : phase'[q] = phase[q]
        /\ x # "migrating" /\ (x = "valid" => panelSchema[target[p]] = "3.x")
        /\ x \in AtWork => kind[p] = "read" \/ phase[p] \in AtWork
    BY <1>1, <1>8 DEF Moves, TypeProc
  <2>2. error'[p] # "migration" BY <1>1, <2>1 DEF UpgradeCompletes
  <2>3. phase'[p] \in AtWork /\ kind'[p] # "read" => metadata[target'[p]] = Current
    BY <1>1, <2>1 DEF UpgradeCompletes, AtWork
  <2> QED BY <1>3, <2>1, <2>2, <2>3
<1>9. ASSUME NEW p \in Process, Commit(p)
      PROVE  TypeMeta' /\ Checked' /\ Migrating' /\ UpgradeCompletes'
  <2>1. /\ target[p] \in Database
        /\ metadata' = [metadata EXCEPT ![target[p]] = Current]
    BY <1>9, CommitsCurrent
  <2>2. /\ phase[p] = "migrating" /\ phase'[p] = "ready"
        /\ UNCHANGED <<panelSchema, target, kind, error>>
        /\ \A q \in Process \ {p} : /\ phase'[q] = phase[q]
                                    /\ work'[q] = work[q] /\ step'[q] = step[q]
    BY <1>1, <1>9 DEF Commit, Goes, TypeProc, TypeTx
  <2>3. TypeMeta' BY <1>1, <2>1, <2>2, SchemaTypes DEF TypeMeta
  <2>4. Checked' BY <1>1, <2>2 DEF Checked
  <2>5. Migrating' BY <1>1, <2>2 DEF Migrating, Reached
  <2>6. UpgradeCompletes'
    <3>1. ASSUME NEW q \in Process, phase'[q] \in AtWork, kind[q] # "read"
          PROVE  metadata'[target[q]] = Current
      <4>1. CASE target[q] = target[p] BY <1>1, <2>1, <4>1 DEF TypeMeta
      <4>2. CASE target[q] # target[p]
        <5>1. q # p BY <4>2
        <5>2. target[q] \in Database /\ metadata[target[q]] = Current
          BY <1>1, <2>2, <3>1, <5>1 DEF UpgradeCompletes, AtWork, Live
        <5> QED BY <1>1, <2>1, <4>2, <5>2 DEF TypeMeta
      <4> QED BY <4>1, <4>2
    <3> QED BY <1>1, <2>2, <3>1 DEF UpgradeCompletes, AtWork
  <2> QED BY <2>3, <2>4, <2>5, <2>6
<1> QED BY <1>2, <1>4, <1>5, <1>6, <1>7, <1>8, <1>9, Steps


-----------------------------------------------------------------------------
(* The backups. *)
LEMMA AvailableIsFree ==
    ASSUME TypeDisk, FreeSuffixes # {}
    PROVE  AvailableBackupPath \in Path /\ backups[AvailableBackupPath] = "none"
<1>1. FreeSuffixes \in SUBSET Nat BY StartupAssumption DEF FreeSuffixes
<1>2. \E n \in FreeSuffixes : \A m \in FreeSuffixes : n <= m BY <1>1, NatLeast, Zenon
<1>3. (CHOOSE n \in FreeSuffixes : \A m \in FreeSuffixes : n <= m) \in FreeSuffixes
  BY <1>2, Zenon
<1>4. PICK n \in FreeSuffixes : AvailableBackupPath = <<second, n>>
  BY <1>3, Zenon DEF AvailableBackupPath
<1>5. second \in 0..MaxSecond /\ n \in 0..MaxSuffix /\ backups[<<second, n>>] = "none"
  BY DEF FreeSuffixes, TypeDisk
<1> QED BY <1>4, <1>5 DEF Path

(* A step of anything but a backup leaves the files alone, and takes no    *)
(* process into a backup.                                                  *)
Idles ==
    /\ UNCHANGED <<backups, reported, raced>>
    /\ second' = second \/ (second' = second + 1 /\ second' <= MaxSecond)
    /\ path' \in [Process -> Path]
    /\ \A q \in Process : BackingUp(q)' => /\ BackingUp(q) /\ phase'[q] = phase[q]
                                           /\ path'[q] = path[q]

LEMMA BackupSteps ==
    ASSUME IInv, [Next]_vars
    PROVE  \/ Idles
           \/ \E p \in Process : BackupPick(p) \/ BackupStart(p) \/ BackupDone(p) \/ BackupFails(p)
<1>1. TypeProc /\ TypeDisk BY TypeParts DEF IInv
<1>2. ASSUME NEW p \in Process, NEW e, End(p, e), UNCHANGED disk PROVE Idles
  BY <1>1, <1>2, PathZero DEF End, Idles, BackingUp, TypeProc, TypeDisk, disk
<1>3. ASSUME NEW p \in Process, NEW x \in Phases \ {"picked", "dumping"}, Goes(p, x)
      PROVE  Idles
  BY <1>1, <1>3 DEF Goes, Idles, BackingUp, TypeProc, TypeDisk, disk
<1>4. ASSUME NEW p \in Process, NEW k, NEW o, Start(p, k, o) PROVE Idles
  BY <1>1, <1>4 DEF Start, Idles, BackingUp, TypeProc, TypeDisk, disk
<1>5. {"opened", "tables", "ready", "valid", "migrating"} \subseteq Phases \ {"picked", "dumping"}
  BY DEF Phases
<1>6. ASSUME NEW p \in Process,
             Open(p) \/ ValidateTables(p) \/ Begin(p) \/ Commit(p)
      PROVE  Idles
  BY <1>3, <1>5, <1>6, Zenon DEF Open, ValidateTables, Begin, Commit
<1>7. ASSUME NEW p \in Process, ValidateColumns(p) PROVE Idles
  <2>1. (IF kind[p] = "read" THEN "ready" ELSE "valid") \in Phases \ {"picked", "dumping"}
    BY <1>5
  <2> QED BY <1>3, <1>7, <2>1, Zenon DEF ValidateColumns
<1>8. ASSUME NEW p \in Process, Statement(p) PROVE Idles
  BY <1>2, <1>3, <1>5, <1>8, Zenon DEF Statement
<1>9. ASSUME NEW p \in Process,
             \/ OpenFails(p) \/ SchemaRefused(p) \/ BeginTimesOut(p) \/ Stop(p)
             \/ BackupNoName(p)
      PROVE  Idles
  BY <1>2, <1>9, Zenon DEF OpenFails, SchemaRefused, BeginTimesOut, Stop, BackupNoName
<1>10. ASSUME (\E d \in Database : PanelBoot(d)) \/ UNCHANGED vars PROVE Idles
  BY <1>1, <1>10 DEF PanelBoot, Idles, BackingUp, TypeDisk, vars, proc, disk
<1>11. ASSUME NextSecond PROVE Idles
  BY <1>1, <1>11, StartupAssumption DEF NextSecond, Idles, BackingUp, TypeDisk, proc
<1> QED BY <1>4, <1>6, <1>7, <1>8, <1>9, <1>10, <1>11, Zenon DEF Next

(* availableBackupPath hands out names that are free, so that two backups  *)
(* meet in a file only if they looked for a name at the same time.         *)
LEMMA BackupStep ==
    ASSUME IInv, [Next]_vars PROVE TypeDisk' /\ Unraced' /\ BackupKept'
<1>1. TypeProc /\ TypeDisk /\ Unraced /\ BackupKept BY TypeParts DEF IInv
<1>2. CASE Idles
  <2>1. TypeDisk' BY <1>1, <1>2, StartupAssumption DEF Idles, TypeDisk
  <2>2. Unraced' BY <1>1, <1>2 DEF Idles, Unraced, BackingUp
  <2>3. BackupKept' BY <1>1, <1>2 DEF Idles, BackupKept
  <2> QED BY <2>1, <2>2, <2>3
<1>3. ASSUME NEW p \in Process, BackupPick(p) PROVE TypeDisk' /\ Unraced' /\ BackupKept'
  <2> DEFINE f == AvailableBackupPath
  <2>1. f \in Path /\ backups[f] = "none" BY <1>1, <1>3, AvailableIsFree DEF BackupPick
  <2> HIDE DEF f
  <2>2. /\ phase[p] = "ready" /\ phase' = [phase EXCEPT ![p] = "picked"]
        /\ path' = [path EXCEPT ![p] = f] /\ path'[p] = f
        /\ UNCHANGED <<backups, second, reported>>
    BY <1>1, <1>3 DEF BackupPick, TypeDisk, f
  <2>3. raced' = IF \E q \in Process \ {p} : phase[q] = "picked" /\ path[q] = f
                 THEN raced \cup {f} ELSE raced
    BY <1>3, <2>2 DEF BackupPick
  <2>4. raced' \subseteq Path /\ raced \subseteq raced' BY <1>1, <2>1, <2>3 DEF TypeDisk
  <2>5. TypeDisk' BY <1>1, <2>1, <2>2, <2>4 DEF TypeDisk
  <2>6. BackupKept' BY <1>1, <2>2, <2>4 DEF BackupKept
  <2>7. f \notin reported \ raced' BY <1>1, <2>1, <2>4 DEF BackupKept
  <2>8. ASSUME NEW q \in Process, q # p, BackingUp(q), path[q] = f PROVE f \in raced'
    <3>1. CASE phase[q] = "picked" BY <2>3, <2>8, <3>1
    <3>2. CASE phase[q] = "dumping" BY <1>1, <2>1, <2>4, <2>8, <3>2 DEF Unraced
    <3> QED BY <2>8, <3>1, <3>2 DEF BackingUp
  <2>9. /\ BackingUp(p)' /\ phase'[p] = "picked"
        /\ \A q \in Process \ {p} : /\ path'[q] = path[q] /\ phase'[q] = phase[q]
                                    /\ BackingUp(q)' <=> BackingUp(q)
    BY <1>1, <2>2 DEF TypeProc, TypeDisk, BackingUp
  <2>10. Unraced'
    <3>1. ASSUME NEW q \in Process, BackingUp(q)' PROVE path'[q] \notin reported' \ raced'
      BY <1>1, <2>2, <2>4, <2>7, <2>9, <3>1 DEF Unraced
    <3>2. ASSUME NEW q \in Process, phase'[q] = "dumping", path'[q] \notin raced'
          PROVE  backups'[path'[q]] = "partial"
      BY <1>1, <2>2, <2>4, <2>9, <3>2 DEF Unraced
    <3>3. ASSUME NEW q \in Process, NEW r \in Process, q # r, BackingUp(q)', BackingUp(r)',
                 path'[q] = path'[r]
          PROVE  path'[q] \in raced'
      <4>1. CASE q = p BY <2>2, <2>8, <2>9, <3>3, <4>1
      <4>2. CASE r = p BY <2>2, <2>8, <2>9, <3>3, <4>2
      <4>3. CASE q # p /\ r # p BY <1>1, <2>4, <2>9, <3>3, <4>3 DEF Unraced
      <4> QED BY <4>1, <4>2, <4>3
    <3> QED BY <3>1, <3>2, <3>3 DEF Unraced
  <2> QED BY <2>5, <2>6, <2>10
<1>4. ASSUME NEW p \in Process, BackupStart(p) PROVE TypeDisk' /\ Unraced' /\ BackupKept'
  <2>1. /\ phase[p] = "picked" /\ phase' = [phase EXCEPT ![p] = "dumping"]
        /\ backups' = [backups EXCEPT ![path[p]] = "partial"] /\ path[p] \in Path
        /\ UNCHANGED <<path, second, reported, raced>>
    BY <1>1, <1>4 DEF BackupStart, TypeDisk
  <2>2. BackingUp(p) /\ \A q \in Process : BackingUp(q)' <=> BackingUp(q)
    BY <1>1, <2>1 DEF BackingUp, TypeProc
  <2>3. TypeDisk' BY <1>1, <2>1 DEF TypeDisk
  <2>4. BackupKept' BY <1>1, <2>1, <2>2 DEF BackupKept, Unraced, TypeDisk
  <2>5. ASSUME NEW q \in Process, phase'[q] = "dumping", path[q] \notin raced
        PROVE  backups'[path[q]] = "partial"
    <3>1. CASE q = p BY <1>1, <2>1, <3>1 DEF TypeDisk
    <3>2. CASE q # p
      BY <1>1, <2>1, <2>5, <3>2 DEF Unraced, TypeDisk, TypeProc
    <3> QED BY <3>1, <3>2
  <2>6. Unraced' BY <1>1, <2>1, <2>2, <2>5 DEF Unraced
  <2> QED BY <2>3, <2>4, <2>6
<1>5. ASSUME NEW p \in Process, BackupDone(p) \/ BackupFails(p)
      PROVE  TypeDisk' /\ Unraced' /\ BackupKept'
  <2>1. /\ BackingUp(p) /\ phase' = [phase EXCEPT ![p] = "down"]
        /\ path' = [path EXCEPT ![p] = <<0, 0>>] /\ path[p] \in Path
        /\ UNCHANGED <<second, raced>>
    BY <1>1, <1>5 DEF BackupDone, BackupFails, End, TypeDisk, BackingUp
  <2>2. \/ /\ backups' = [backups EXCEPT ![path[p]] = "complete"]
           /\ reported' = reported \cup {path[p]}
        \/ /\ backups' = [backups EXCEPT ![path[p]] = "none"] /\ UNCHANGED reported
    BY <1>5 DEF BackupDone, BackupFails
  <2>3. /\ ~BackingUp(p)'
        /\ \A q \in Process \ {p} : /\ path'[q] = path[q] /\ phase'[q] = phase[q]
                                    /\ BackingUp(q)' <=> BackingUp(q)
    BY <1>1, <2>1 DEF TypeProc, TypeDisk, BackingUp
  <2>4. TypeDisk' BY <1>1, <2>1, <2>2, PathZero DEF TypeDisk
  <2>5. BackupKept'
    <3>1. ASSUME NEW f \in reported' \ raced PROVE backups'[f] = "complete"
      <4>1. CASE f = path[p] BY <1>1, <2>1, <2>2, <3>1, <4>1 DEF Unraced, TypeDisk
      <4>2. CASE f # path[p] BY <1>1, <2>1, <2>2, <3>1, <4>2 DEF BackupKept, TypeDisk
      <4> QED BY <4>1, <4>2
    <3> QED BY <2>1, <3>1 DEF BackupKept
  <2>6. ASSUME NEW q \in Process, BackingUp(q)', path[q] \notin raced
        PROVE  q # p /\ path[q] # path[p] /\ path[q] \in Path
    BY <1>1, <2>1, <2>3, <2>6 DEF Unraced, TypeDisk
  <2>7. ASSUME NEW q \in Process, BackingUp(q)' PROVE path'[q] \notin reported' \ raced'
    BY <1>1, <2>1, <2>2, <2>3, <2>6, <2>7 DEF Unraced
  <2>8. ASSUME NEW q \in Process, phase'[q] = "dumping", path'[q] \notin raced'
        PROVE  backups'[path'[q]] = "partial"
    <3>1. BackingUp(q)' BY <2>8 DEF BackingUp
    <3>2. q # p /\ path'[q] = path[q] /\ phase[q] = "dumping" BY <2>3, <2>8, <3>1
    <3>3. backups[path[q]] = "partial" /\ path[q] # path[p]
      BY <1>1, <2>1, <2>6, <2>8, <3>1, <3>2 DEF Unraced
    <3> QED BY <1>1, <2>2, <3>2, <3>3 DEF TypeDisk
  <2>9. ASSUME NEW q \in Process, NEW r \in Process, q # r, BackingUp(q)', BackingUp(r)',
               path'[q] = path'[r]
        PROVE  path'[q] \in raced'
    BY <1>1, <2>1, <2>3, <2>9 DEF Unraced
  <2>10. Unraced' BY <2>7, <2>8, <2>9 DEF Unraced
  <2> QED BY <2>4, <2>5, <2>10
<1> QED BY <1>2, <1>3, <1>4, <1>5, BackupSteps


-----------------------------------------------------------------------------
LEMMA StartupInductive == IInv /\ [Next]_vars => IInv'
<1> SUFFICES ASSUME IInv, [Next]_vars PROVE IInv' OBVIOUS
<1>1. TypeProc' /\ TypeTx' /\ Live' BY ProcessStep
<1>2. TypeSettings' /\ SettingsKnown' /\ Resolved' BY ResolvedStep
<1>3. TypeMeta' /\ Checked' /\ Migrating' /\ UpgradeCompletes' BY SchemaStep
<1>4. TypeDisk' /\ Unraced' /\ BackupKept' BY BackupStep
<1>5. (TypeOK <=> TypeSettings /\ TypeProc /\ TypeTx /\ TypeMeta /\ TypeDisk)'
  BY TypeParts, PTL
<1> QED BY <1>1, <1>2, <1>3, <1>4, <1>5 DEF IInv

LEMMA StartupInvariant == Spec => []IInv
BY StartupInit, StartupInductive, PTL DEF Spec

(* The write lock of a database is held by exactly the process that        *)
(* migrates it, through every kill, refusal and time-out.                  *)
THEOREM StartupTypeOK == Spec => []TypeOK
<1>1. IInv => TypeOK BY DEF IInv
<1> QED BY <1>1, StartupInvariant, PTL

(* Load, Validate and loadConfig: whatever the configuration file, the     *)
(* environment and the panel's environment file, a process works on the    *)
(* documented database, or is refused where nothing names one.             *)
THEOREM StartupFollowsPanel == Spec => []FollowsPanel
<1>1. IInv => FollowsPanel
  <2> SUFFICES ASSUME IInv, Len(panelFiles) = 1, NEW p \in Process
               PROVE  /\ phase[p] # "down" => target[p] = Documented(option[p])
                      /\ error[p] = "config" => Documented(option[p]) = Invalid
    BY DEF FollowsPanel
  <2>1. /\ panelFiles \in Seq(EnvFile) /\ file \in FileConfig
        /\ option[p] \in {Blank, OtherFile}
    BY TypeParts DEF IInv, TypeSettings, TypeProc
  <2>2. panelFiles = <<panelFiles[1]>> /\ panelFiles[1] \in EnvFile
    <3>1. panelFiles \in Seq(EnvFile) BY <2>1
    <3>2. panelFiles[1] \in EnvFile BY <3>1
    <3>3. Len(<<panelFiles[1]>>) = 1 OBVIOUS
    <3>4. panelFiles = <<panelFiles[1]>> BY <3>1, <3>2, <3>3
    <3> QED BY <3>2, <3>4
  <2>3. Resolve(file, env, panelFiles, option[p]) = Documented(option[p])
    BY <2>1, <2>2, ResolveDocumented DEF IInv, SettingsKnown
  <2> QED BY <2>3 DEF IInv, Resolved
<1> QED BY <1>1, StartupInvariant, PTL

(* Migrate: no statement of a migration fails, and whoever gets to work    *)
(* does so on the current schema, for any number of processes that start   *)
(* together and are killed between any two statements.                     *)
THEOREM StartupUpgrades == Spec => []UpgradeCompletes
<1>1. IInv => UpgradeCompletes BY DEF IInv
<1> QED BY <1>1, StartupInvariant, PTL

(* Backup: a file that was reported stays, complete, whatever other        *)
(* backups do, unless two of them had picked its name before either had    *)
(* created it.                                                             *)
THEOREM StartupKeepsBackups == Spec => []BackupKept
<1>1. IInv => BackupKept BY DEF IInv
<1> QED BY <1>1, StartupInvariant, PTL

(* ValidateRequiredSchema: although it runs before the migration's         *)
(* transaction, metadata is only ever written into a 3.x panel's database. *)
THEOREM StartupOnlyPanel3 == Spec => OnlyPanel3
<1>1. IInv /\ [Next]_vars => [OnlyPanel3Step]_vars
  <2> SUFFICES ASSUME IInv, [Next]_vars, NEW d \in Database, metadata'[d] # metadata[d]
               PROVE  panelSchema[d] = "3.x"
    BY DEF OnlyPanel3Step
  <2>1. ASSUME NEW p \in Process, Commit(p) PROVE panelSchema[d] = "3.x"
    <3>1. /\ target[p] \in Database /\ panelSchema[target[p]] = "3.x"
          /\ metadata' = [metadata EXCEPT ![target[p]] = Current]
      BY <2>1, CommitsCurrent
    <3>2. metadata \in [Database -> Schema] BY TypeParts DEF IInv, TypeMeta
    <3> QED BY <3>1, <3>2
  <2>2. ASSUME NEW p \in Process, NEW k \in Kinds, NEW o \in {Blank, OtherFile},
               Start(p, k, o)
        PROVE  FALSE
    BY <2>2 DEF Start
  <2>3. ASSUME NEW p \in Process, End(p, Blank) \/ Begin(p) \/ Executes(p) PROVE FALSE
    BY <2>3 DEF End, Begin, Executes
  <2>4. ASSUME NEW p \in Process, NEW x \in Phases, Moves(p, x) PROVE FALSE
    BY <2>4 DEF Moves
  <2>5. CASE Outside BY <2>5 DEF Outside
  <2> QED BY <2>1, <2>2, <2>3, <2>4, <2>5, Steps
<1> QED BY <1>1, StartupInvariant, PTL DEF Spec, OnlyPanel3
=============================================================================
