---------------------------- MODULE Configuration ----------------------------
(***************************************************************************)
(* Configuration: the two files loadConfig writes from a Vault secret      *)
(* (backend/libs/service/src/index.ts), ConfigService that merges them     *)
(* (backend/libs/shared/src/config), and the starts that write and read    *)
(* them in turn: the build of the image, the container's command           *)
(* (migration:up && start:prod), generate:config and a plain start.        *)
(*                                                                         *)
(* A place is a directory with a config folder, a container's or a         *)
(* checkout's.  Of a secret only what decides a start is kept: the url of  *)
(* db.postgres and whether app-api has a section.  Whether a migration     *)
(* succeeds where it has a database is left open; Migration says more.     *)
(***************************************************************************)

CONSTANTS
    Database,   \* what db.postgres.url may name
    None,       \* nothing read, no such key, no file
    Torn        \* a file that was not written to its end

Secret == [postgres : Database \cup {None}, api : BOOLEAN]

Empty == [postgres |-> None, api |-> FALSE]     \* the file holds '{}'

ASSUME ConstantsAssumption ==
    None # Torn /\ {None, Torn} \cap (Database \cup Secret) = {}

VARIABLES
    vault,      \* the secret at kv/data/<env>/backend; None when it has no config
    image,      \* the files of the image, or None before a build
    conf,       \* conf.json5 of the place: a secret, Torn or None
    envFile,    \* config-<env>.json5 of the place
    override,   \* db.postgres.url in the environment of the place, or None
    named,      \* APP_ENV is set there
    stage,      \* where its start is
    task,       \* what was started: "command", "generate" or "start"
    content,    \* what loadConfig has read and not written yet
    migrated,   \* databases whose tables have been made
    running     \* the configuration the server runs with, or None

(* History variables: no action reads them.                                *)
VARIABLES
    first,      \* what the place's first loadConfig wrote, or None
    loaded,     \* what the last one wrote, or None
    moved       \* this start wrote another env file than it met

files   == <<conf, envFile>>
history == <<first, loaded, moved>>
vars    == <<vault, image, files, override, named, stage, task, content, migrated, running, history>>

File == Secret \cup {None, Torn}

TypeOK ==
    /\ vault \in Secret \cup {None}
    /\ image \in [conf : File, envFile : File] \cup {None}
    /\ conf \in File /\ envFile \in File
    /\ override \in Database \cup {None} /\ named \in BOOLEAN
    /\ stage \in {"stopped", "migrate", "read", "envFile", "conf", "create", "serving"}
    /\ task \in {"command", "generate", "start"}
    /\ content \in Secret \cup {None}
    /\ migrated \in SUBSET Database
    /\ running \in Secret \cup {None}
    /\ first \in Secret \cup {None} /\ loaded \in Secret \cup {None}
    /\ moved \in BOOLEAN

Init ==
    /\ vault \in Secret \cup {None}
    /\ image = None /\ conf = None /\ envFile = None
    /\ override = None /\ named = TRUE
    /\ stage = "stopped" /\ task = "start"
    /\ content = None /\ migrated = {} /\ running = None
    /\ first = None /\ loaded = None /\ moved = FALSE

-----------------------------------------------------------------------------
(* A definition whose name ends in _Bug is a plausible mistake in the      *)
(* definition after it; no specification uses it.                          *)

(* The env file cannot be read or parsed: ConfigService takes it for {}.   *)
(* Without APP_ENV it looks for config-local.json5, which nothing writes.  *)
Parsed(file) == IF named /\ file \in Secret THEN file ELSE Empty

(* The file that is written once goes over the one written at every start. *)
Merged_Bug(base, over) ==
    [postgres |-> IF base.postgres # None THEN base.postgres ELSE over.postgres,
     api      |-> over.api \/ base.api]

(* lodash's merge: a key the env file lacks keeps the value of conf.json5. *)
Merged(base, over) ==
    [postgres |-> IF over.postgres # None THEN over.postgres ELSE base.postgres,
     api      |-> over.api \/ base.api]

(* ConfigService.parse: the environment replaces the value of a key the    *)
(* files have and adds none they lack.                                     *)
Overridden(c) ==
    [c EXCEPT !.postgres = IF @ # None /\ override # None THEN override ELSE @]

(* conf.json5 has to be there and to parse.                                *)
Readable == conf \in Secret

Effective == Overridden(Merged(conf, Parsed(envFile)))

(* What loadConfig may read: the secret, or '{}' when the read throws, as  *)
(* it does for the path kv/data/undefined/backend.  An answer without a    *)
(* config makes writeFileSync throw.                                       *)
Readings == {Empty} \cup (IF named /\ vault # None THEN {vault} ELSE {})

-----------------------------------------------------------------------------
(* The build runs generate:config in a fresh directory; it fails with it.  *)
Build ==
    /\ named
    /\ \E c \in Readings : image' = [conf |-> c, envFile |-> c]
    /\ UNCHANGED <<vault, files, override, named, stage, task, content, migrated, running, history>>

(* A container from the image or a checkout without a config folder takes  *)
(* the place of the old one.                                               *)
Replace ==
    /\ stage = "stopped"
    /\ \/ /\ image # None
          /\ conf' = image.conf /\ envFile' = image.envFile
          /\ first' = image.conf /\ loaded' = image.envFile
       \/ conf' = None /\ envFile' = None /\ first' = None /\ loaded' = None
    /\ override' \in Database \cup {None} /\ named' \in BOOLEAN
    /\ moved' = FALSE
    /\ UNCHANGED <<vault, image, stage, task, content, migrated, running>>

(* Somebody changes the secret.                                            *)
Rewrite ==
    /\ vault' \in (Secret \cup {None}) \ {vault}
    /\ UNCHANGED <<image, files, override, named, stage, task, content, migrated, running, history>>

Start(what) ==
    /\ stage = "stopped"
    /\ task' = what
    /\ stage' = IF what = "command" THEN "migrate" ELSE "read"
    /\ moved' = FALSE
    /\ UNCHANGED <<vault, image, files, override, named, content, migrated, running, first, loaded>>

Exit ==
    /\ stage' = "stopped"
    /\ content' = None /\ running' = None

(* The script of entrypoint.sh, which has no && between the two.           *)
Migrate_Bug ==
    /\ stage = "migrate"
    /\ stage' = "read"
    /\ \/ /\ Readable /\ Effective.postgres # None
          /\ migrated' = migrated \cup {Effective.postgres}
       \/ UNCHANGED migrated
    /\ UNCHANGED <<vault, image, files, override, named, task, content, running, history>>

(* migrate sync and migrate up all, over the files as the last start left  *)
(* them.  Without conf.json5 or db.postgres they end with an error.        *)
Migrate ==
    /\ stage = "migrate"
    /\ \/ /\ Readable /\ Effective.postgres # None
          /\ migrated' = migrated \cup {Effective.postgres}
          /\ stage' = "read"
          /\ UNCHANGED <<content, running>>
       \/ Exit /\ UNCHANGED migrated
    /\ UNCHANGED <<vault, image, files, override, named, task, history>>

Read ==
    /\ stage = "read"
    /\ \/ content' \in Readings /\ stage' = "envFile" /\ UNCHANGED running
       \/ named /\ vault = None /\ Exit
    /\ UNCHANGED <<vault, image, files, override, named, task, migrated, history>>

(* Without APP_ENV the file is config-undefined.json5, which nothing reads. *)
WriteEnvFile ==
    /\ stage = "envFile"
    /\ envFile' = IF named THEN content ELSE envFile
    /\ stage' = "conf"
    /\ loaded' = content
    /\ moved' = (envFile' # envFile)
    /\ UNCHANGED <<vault, image, conf, override, named, task, content, migrated, running, first>>

Continued == IF task = "generate" THEN "stopped" ELSE "create"

(* conf.json5 is written where there is none.                              *)
WriteConf ==
    /\ stage = "conf"
    /\ IF conf = None THEN conf' = content /\ first' = content ELSE UNCHANGED <<conf, first>>
    /\ stage' = Continued
    /\ content' = None
    /\ UNCHANGED <<vault, image, envFile, override, named, task, migrated, running, loaded, moved>>

(* NestFactory.create and server().  ConfigService, the destructuring of   *)
(* db.postgres and app-api's endpoint each throw on what they lack.        *)
Create ==
    /\ stage = "create"
    /\ IF Readable /\ Effective.postgres # None /\ Effective.api
       THEN stage' = "serving" /\ running' = Effective /\ UNCHANGED content
       ELSE Exit
    /\ UNCHANGED <<vault, image, files, override, named, task, migrated, history>>

(* The place stops.  A file being written is left torn.                    *)
Stop ==
    /\ stage # "stopped"
    /\ Exit
    /\ \/ UNCHANGED <<files, history>>
       \/ /\ stage = "envFile" /\ named /\ envFile' = Torn
          /\ UNCHANGED <<conf, history>>
       \/ /\ stage = "conf" /\ conf = None /\ conf' = Torn
          /\ UNCHANGED <<envFile, history>>
    /\ UNCHANGED <<vault, image, override, named, task, migrated>>

Next ==
    \/ Build \/ Replace \/ Rewrite
    \/ \E what \in {"command", "generate", "start"} : Start(what)
    \/ Migrate \/ Read \/ WriteEnvFile \/ WriteConf \/ Create
    \/ Stop

Spec == Init /\ [][Next]_vars

-----------------------------------------------------------------------------
(* A server runs over the database its own start read of, or, when that    *)
(* start read of none, over the one the place was first given: never over  *)
(* one of a start in between.  The environment goes before both.           *)
RunsOnLastOrFirst ==
    stage = "serving" =>
        running.postgres = IF override # None THEN override
                           ELSE IF loaded.postgres # None THEN loaded.postgres
                           ELSE first.postgres

(* The container's command serves over migrated tables, unless the start   *)
(* that served has loaded another configuration than the one its           *)
(* migrations met.                                                         *)
MigratedUnlessMoved ==
    stage = "serving" /\ task = "command" => running.postgres \in migrated \/ moved

(* A conf.json5 that was cut short is written never again: the place       *)
(* serves no more, whatever Vault holds, until it is replaced.             *)
TornConfStays ==
    [][conf = Torn => Replace \/ (conf' = Torn /\ stage' # "serving")]_vars

=============================================================================
