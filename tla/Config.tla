------------------------------- MODULE Config -------------------------------
(***************************************************************************)
(* Which database a process works on: the configuration file, the process  *)
(* environment, the panel's environment files and --database               *)
(* (src/internal/config/config.go, loadConfig in src/internal/cli/cli.go). *)
(* Spellings of a backend are one value each; a DSN is the server it names.*)
(***************************************************************************)
EXTENDS Integers, Sequences

File == "panel file"                \* DefaultDatabasePath
OtherFile == "other file"           \* another SQLite file
ConfigServer == "config server"     \* a server named in config.json
PanelServer == "panel server"       \* a server named in XUI_DB_DSN
Database == {File, OtherFile, ConfigServer, PanelServer}
Servers == {ConfigServer, PanelServer}

Blank == ""                         \* empty, or white space only
Unset == "unset"                    \* no line for the key at all
Invalid == "invalid"                \* Load and loadConfig return an error

(* What the operator wrote: fileConfig, where `sound` is that everything   *)
(* else parses and is positive, and the lines of one environment file.     *)
FileConfig ==
    [backend : {Blank, "auto", "sqlite", "postgres", "mysql"},
     path : {Blank, OtherFile}, dsn : {Blank, ConfigServer}, sound : BOOLEAN]
EnvFile ==
    [type : {Unset, Blank, "sqlite", "postgres", "mysql"},
     dsn : {Unset, Blank, PanelServer}]
NoEnv == [type |-> Unset, dsn |-> Unset]

(* readPanelEnvValues: of several files, the first with a line for the key *)
(* decides, an empty value included.                                       *)
PanelValue(files, key) ==
    LET having == {n \in DOMAIN files : files[n][key] # Unset}
    IN  IF having = {} THEN Blank
        ELSE files[CHOOSE n \in having : \A k \in having : n <= k][key]

(* lookup: the process environment first, unless it is blank. *)
Lookup(env, files, key) ==
    IF env[key] \in {Unset, Blank} THEN PanelValue(files, key) ELSE env[key]

NormalizeBackend(value) ==
    CASE value \in {Blank, Unset, "auto"} -> "auto"
      [] value \in {"sqlite", "postgres"} -> value
      [] value = "mysql" -> Invalid

(* Mutant: a DSN of the panel selects PostgreSQL by itself. *)
ApplyDatabaseEnvByDSN(cfg, env, files) ==
    CASE cfg.backend = "sqlite" \/ cfg.dsn # Blank -> cfg
      [] OTHER -> [cfg EXCEPT !.dsn = Lookup(env, files, "dsn")]

(* A configured sqlite or DSN stays; else XUI_DB_TYPE decides on auto. *)
ApplyDatabaseEnv(cfg, env, files) ==
    CASE cfg.backend = "sqlite" \/ cfg.dsn # Blank -> cfg
      [] cfg.backend = "postgres" /\ cfg.dsn = Blank ->
            [cfg EXCEPT !.dsn = Lookup(env, files, "dsn")]
      [] cfg.backend = "auto" /\ cfg.dsn = Blank ->
            IF NormalizeBackend(Lookup(env, files, "type")) = "postgres"
            THEN [cfg EXCEPT !.backend = "postgres", !.dsn = Lookup(env, files, "dsn")]
            ELSE cfg

ResolvedBackend(cfg) ==
    CASE cfg.backend # "auto" -> cfg.backend
      [] cfg.backend = "auto" -> IF cfg.dsn # Blank THEN "postgres" ELSE "sqlite"

Validate(cfg) ==
    /\ cfg.sound
    /\ ResolvedBackend(cfg) = "postgres" => cfg.dsn # Blank

(* Load: the file over the defaults, then the environment. *)
Load(file, env, files) ==
    ApplyDatabaseEnv(
        [backend |-> NormalizeBackend(file.backend),
         path |-> IF file.path = Blank THEN File ELSE file.path,
         dsn |-> file.dsn, sound |-> file.sound], env, files)

(* loadConfig and openConfiguredStore.  What Load returns is validated     *)
(* before --database replaces the database.                                *)
Resolve(file, env, files, option) ==
    IF NormalizeBackend(file.backend) = Invalid THEN Invalid
    ELSE LET cfg == Load(file, env, files)
         IN  IF ~Validate(cfg) THEN Invalid
             ELSE IF option # Blank THEN option
             ELSE IF ResolvedBackend(cfg) = "sqlite" THEN cfg.path ELSE cfg.dsn

-----------------------------------------------------------------------------
(* 3x-ui: on the server of its own environment file if that file asks for  *)
(* PostgreSQL, else on its file; it does not start without a DSN.          *)
PanelDatabase(own) ==
    IF own.type # "postgres" THEN File
    ELSE IF own.dsn \in {Unset, Blank} THEN Invalid ELSE own.dsn
=============================================================================
