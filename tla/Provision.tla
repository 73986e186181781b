----------------------------- MODULE Provision -----------------------------
(***************************************************************************)
(* `make dev.provision` and its variants: provision.sh with the scripts it *)
(* calls, one action per command, over the containers of Compose and the   *)
(* three stores, whose data live in volumes.                               *)
(*                                                                         *)
(* A store has two contents: disk[s] is what its volume holds, open[s] what*)
(* the running server works on.  They are written together, except         *)
(*  - while the server is detached: an archive extracted over the files of *)
(*    a running server replaces them (tar unlinks a file before it writes  *)
(*    it), and the server keeps the old ones until it is restarted;        *)
(*  - in mongo, which runs with --nojournal: a write reaches the volume at *)
(*    the next checkpoint or at a clean stop, and a crash loses it.        *)
(*                                                                         *)
(* A store created from docker-compose.yml alone has an anonymous volume,  *)
(* which is its container's; docker-compose-host.yml names its volume.     *)
(* Compose decides which when it creates the container: one it replaces    *)
(* hands its volume on, whatever the files say by then.                    *)
(*                                                                         *)
(* The operator starts a script, waits for its end, and between two scripts*)
(* runs the other make targets.  Any command may fail (a download, a       *)
(* registry, a full disk): `set -e` then ends the script at once.          *)
(***************************************************************************)
EXTENDS Compose

CONSTANTS
    NAccounts,      \* accounts provision-lms.sh creates; the first is staff
    DumpAccounts,   \* those of them the database dump already holds
    Attempts,       \* the ways the operator starts provision.sh
    Targets,        \* the make targets the operator uses between attempts
    MaxFailures,    \* bound: commands that fail although they could succeed,
                    \* and crashes of the host
    SleepsSuffice   \* the sleeps of the scripts outlast a server's start

Accounts == 1 .. NAccounts

\* The variables that steer the scripts, and what the environment may hold.
Flags == {"RUN_MIGRATINS", "UPDATE_ASSETS", "DB_PROVISION",
          "DB_USER_PROVISION_ONLY"}
Values == {"unset", "empty", "0", "1"}
Environments == [Flags -> Values]

\* A way to provision: the environment of provision.sh, the file set that
\* DOCKER_COMPOSE_FILES selects, whether make stops everything afterwards.
Ways == [env : Environments, files : {"plain", "provision"}, stop : BOOLEAN]

\* The five targets of the Makefile that provision and stop.
MakeTarget(db, migrations, assets) ==
    [files |-> "provision", stop |-> TRUE,
     env  |-> [f \in Flags |-> CASE f = "DB_PROVISION"  -> db
                                 [] f = "RUN_MIGRATINS" -> migrations
                                 [] f = "UPDATE_ASSETS" -> assets
                                 [] OTHER               -> "0"]]

DevProvision                  == MakeTarget("1", "0", "1")
DevProvisionNoDbUpdate        == MakeTarget("0", "0", "1")
DevProvisionNoAssets          == MakeTarget("1", "0", "0")
DevMigrateProvisionNoAssets   == MakeTarget("1", "1", "0")
DevMigrateProvision           == MakeTarget("1", "1", "1")

MakeTargets == {DevProvision, DevProvisionNoDbUpdate, DevProvisionNoAssets,
                DevMigrateProvisionNoAssets, DevMigrateProvision}

\* The target without host files: DOCKER_COMPOSE_FILES stays unset.
MakeProvision == [DevProvision EXCEPT !.files = "plain", !.stop = FALSE]

ASSUME ConstantsAssumption ==
    /\ NAccounts \in Nat \ {0}
    /\ DumpAccounts \subseteq Accounts
    /\ Attempts \subseteq Ways
    /\ \A a \in Attempts : a.stop => a \in MakeTargets
    /\ Targets \subseteq {"stop", "down", "destroy", "dev.up"}
    /\ MaxFailures \in Nat
    /\ SleepsSuffice \in BOOLEAN

\* The defaults of provision.sh, for a variable that is unset or empty.
Default(f) == CASE f = "RUN_MIGRATINS" -> "0"
                [] f = "UPDATE_ASSETS" -> "1"
                [] f = "DB_PROVISION"  -> "1"
                [] OTHER               -> "unset"

\* The value of f in provision.sh itself ...
Own(env, f) == IF env[f] \in {"unset", "empty"} THEN Default(f) ELSE env[f]

\* Mutant: as if the defaults were exported.
InheritedExported(env, f) == Own(env, f)

\* ... and in the scripts it calls: a default is assigned, never exported, so
\* a child sees it only if the variable was in the environment already.
Inherited(env, f) == IF env[f] = "unset" THEN "unset" ELSE Own(env, f)

-----------------------------------------------------------------------------
\* What the stores hold.
AccountStates == {"none", "created", "usable"}   \* usable: the password is set
MySQLMarks == {"databases", "lmsMigrated", "cmsMigrated", "commerce", "learner"}

\* base: "none" no files yet, "torn" files no server can rely on (an
\* interrupted initialisation or extraction), "blank" the system tables only,
\* "dump" the tables of .dev/backups/mysql.tar.gz.
MySQLData == [base    : {"none", "torn", "blank", "dump"},
              marks   : SUBSET MySQLMarks,
              account : [Accounts -> AccountStates]]

MySQLWith(base, marks, accounts) ==
    [base |-> base, marks |-> marks,
     account |-> [a \in Accounts |-> IF a \in accounts THEN "usable" ELSE "none"]]

NoMySQL   == MySQLWith("none", {}, {})
TornMySQL == MySQLWith("torn", {}, {})
DumpMySQL == MySQLWith("dump", {}, DumpAccounts)

MongoData  == SUBSET {"users", "course"}
SearchData == {"empty", "torn", "dump"}

Data == [mysql : MySQLData, mongo : MongoData, elasticsearch : SearchData]

NoData == [mysql |-> NoMySQL, mongo |-> {}, elasticsearch |-> "empty"]

\* The contents some of the stores S, those of others for the rest.
Chosen(S, some, others) ==
    [mysql |-> IF "mysql" \in S THEN some.mysql ELSE others.mysql,
     mongo |-> IF "mongo" \in S THEN some.mongo ELSE others.mongo,
     elasticsearch |-> IF "elasticsearch" \in S THEN some.elasticsearch
                                                ELSE others.elasticsearch]

HasDatabases(db) == db.base = "dump" \/ "databases" \in db.marks
HasTables(db)    == db.base = "dump" \/ "lmsMigrated" \in db.marks

Servers == {"mysql", "mongo"}
Phases  == {"down", "init", "boot", "ready"}  \* init: mysql's temporary server

-----------------------------------------------------------------------------
VARIABLES
    pc,         \* the command that runs next, or how the last attempt ended
    user,       \* the account provision-lms.sh is at
    attempt,    \* how the current or last attempt was started, and its history
    failures,   \* failures so far, at most MaxFailures
    container,  \* [Services -> Statuses]
    config,     \* the definitions they were created from
    clone,      \* /var/tmp/edx-demo-course exists in the lms container
    anonymous,  \* stores whose container has an anonymous volume
    kept,       \* what the named volumes of these hold meanwhile
    server,     \* [Servers -> Phases]
    disk, open, \* what the stores' volumes hold (of a store without a
                \* container: its named one) and what the servers work on
    detached,   \* servers whose files were replaced under them
    static      \* assets built into the edx_staticfiles volume

scriptVars == <<pc, user, attempt, failures>>
composeVars == <<container, config, clone, anonymous, kept>>
storeVars == <<server, disk, open, detached>>
vars == <<pc, user, attempt, failures,
          container, config, clone, anonymous, kept,
          server, disk, open, detached, static>>

\* idle: nothing provisioned; done: provision.sh ended well; finished: and make
\* has stopped everything since; aborted: a command failed.
Resting == {"idle", "done", "finished", "aborted"}

Commands == {"UpDatabases", "WaitMySQL", "Sleep20", "RestoreDump", "RestartMySQL",
             "CreateDbsAndUsers", "ProvisionMongo", "UpLms", "PrepareLms",
             "LmsMigrate", "ManageUser", "SetPassword", "CloneDemo", "ImportDemo",
             "ConfigureCommerce", "LmsAssets", "UpStudio", "StudioSyslog",
             "CmsMigrate", "CmsAssets", "RestoreSearch", "UpNginx", "MakeStop"}

\* Facts about the attempt, not variables of the scripts.  named: it gives every
\* store its named volume, and found none with another; foundClone: it found a
\* clone in a container it will not replace; restored, imported: it did so.
Histories == [env : Environments, files : {"plain", "provision"}, stop : BOOLEAN,
              named : BOOLEAN, foundClone : BOOLEAN,
              restored : BOOLEAN, imported : BOOLEAN]

NoAttempt == [env |-> [f \in Flags |-> "unset"], files |-> "plain", stop |-> FALSE,
              named |-> FALSE, foundClone |-> FALSE,
              restored |-> FALSE, imported |-> FALSE]

ScriptTypeOK ==
    /\ pc \in Resting \cup Commands
    /\ user \in Accounts
    /\ attempt \in Histories
    /\ failures \in 0 .. MaxFailures

ComposeTypeOK ==
    /\ container \in [Services -> Statuses]
    /\ config \in [Services -> FileSets]
    /\ clone \in BOOLEAN
    /\ anonymous \subseteq Stores
    /\ kept \in Data

StoreTypeOK ==
    /\ server \in [Servers -> Phases]
    /\ disk \in Data
    /\ open \in Data
    /\ detached \subseteq {"mysql", "elasticsearch"}

\* Every variable keeps its type; the accounts loop of provision-lms.sh stays
\* within the accounts.
TypeOK == ScriptTypeOK /\ ComposeTypeOK /\ StoreTypeOK /\ static \subseteq {"lms", "cms"}

Init ==
    /\ pc = "idle"
    /\ user = 1
    /\ attempt = NoAttempt
    /\ failures = 0
    /\ container = Removed
    /\ config = NoConfig
    /\ clone = FALSE
    /\ anonymous = {}
    /\ kept = NoData
    /\ server = [s \in Servers |-> "down"]
    /\ disk = NoData
    /\ open = NoData
    /\ detached = {}
    /\ static = {}

-----------------------------------------------------------------------------
\* Steps of the stores.

\* The containers of S end with a clean shutdown: mongo writes its last
\* checkpoint.
Flushed(S) ==
    IF "mongo" \in S /\ server["mongo"] = "ready" THEN [disk EXCEPT !.mongo = open.mongo]
    ELSE disk

\* The servers of S start on these volumes: each opens what its own holds, and
\* mysql on a volume without files begins to create them.
Starting(S, volumes) ==
    IF "mysql" \in S /\ volumes.mysql.base = "none" THEN {"mysql"} ELSE {}

AfterStart(S, volumes) ==
    IF Starting(S, volumes) = {} THEN volumes ELSE [volumes EXCEPT !.mysql.base = "torn"]

StartStores(S, volumes) ==
    /\ server' = [s \in Servers |-> IF s \in Starting(S, volumes) THEN "init"
                                    ELSE IF s \in S THEN "boot"
                                    ELSE server[s]]
    /\ disk' = AfterStart(S, volumes)
    /\ open' = Chosen(S, AfterStart(S, volumes), open)
    /\ detached' = detached \ S

\* Every server ends, and leaves these volumes.  A detached one takes what it
\* had with it.
StopStores(volumes) ==
    /\ server' = [s \in Servers |-> "down"]
    /\ disk' = volumes
    /\ open' = volumes
    /\ detached' = {}

\* An archive is extracted over the volume of s; a running server stays with
\* the files it has.
Extract(s, content) ==
    /\ disk' = [disk EXCEPT ![s] = content]
    /\ IF container[s] = "running"
         THEN detached' = detached \cup {s} /\ UNCHANGED open
         ELSE open' = [open EXCEPT ![s] = content] /\ UNCHANGED detached
    /\ UNCHANGED server

\* A write the mysql server accepts.
WriteMySQL(db) ==
    /\ open' = [open EXCEPT !.mysql = db]
    /\ disk' = IF "mysql" \in detached THEN disk ELSE [disk EXCEPT !.mysql = db]
    /\ UNCHANGED <<server, detached>>

MarkMySQL(mark) == WriteMySQL([open.mysql EXCEPT !.marks = @ \cup {mark}])

WriteMongo(mark) ==
    /\ open' = [open EXCEPT !.mongo = @ \cup {mark}]
    /\ UNCHANGED <<server, disk, detached>>

\* The first start of mysql on an empty volume: a temporary server, which
\* answers root as soon as it has set the password, then the final one.
MySQLInitialised ==
    /\ server["mysql"] = "init"
    /\ server' = [server EXCEPT !["mysql"] = "boot"]
    /\ LET db == IF "mysql" \in detached THEN disk.mysql
                 ELSE [open.mysql EXCEPT !.base = "blank"]
       IN  /\ disk' = [disk EXCEPT !.mysql = db]
           /\ open' = [open EXCEPT !.mysql = db]
    /\ detached' = detached \ {"mysql"}
    /\ UNCHANGED <<scriptVars, composeVars, static>>

ServerReady(s) ==
    /\ server[s] = "boot"
    /\ server' = [server EXCEPT ![s] = "ready"]
    /\ UNCHANGED <<scriptVars, composeVars, disk, open, detached, static>>

\* A server may or may not come up on torn files; nothing restarts mysql.
MySQLDies ==
    /\ server["mysql"] = "boot"
    /\ open.mysql.base = "torn"
    /\ server' = [server EXCEPT !["mysql"] = "down"]
    /\ container' = [container EXCEPT !["mysql"] = "stopped"]
    /\ detached' = detached \ {"mysql"}
    /\ open' = [open EXCEPT !.mysql = disk.mysql]
    /\ UNCHANGED <<scriptVars, config, clone, anonymous, kept, disk, static>>

MongoCheckpoint ==
    /\ server["mongo"] = "ready"
    /\ disk.mongo # open.mongo
    /\ disk' = [disk EXCEPT !.mongo = open.mongo]
    /\ UNCHANGED <<scriptVars, composeVars, server, open, detached, static>>

-----------------------------------------------------------------------------
\* The stores that get a new anonymous volume when the services C come up.
Fresh(C, files) ==
    IF files = "plain" THEN {s \in Stores \cap C : container[s] = "absent"} ELSE {}

\* The containers of C that are not running, or replaced, start.
Begun(C, files) ==
    {s \in C : container[s] # "running" \/ Recreated(s, container, config, files)}

\* `docker-compose up -d` of the services S, with the files of a file set.
Up(S, files) ==
    LET C == LinkClosure(S)
        new == Fresh(C, files)
        begun == Begun(C, files)
    IN  /\ container' = Upped(C, container)
        /\ config' = UppedConfig(C, config, files)
        /\ clone' = (clone /\ ~ ("lms" \in C /\ Recreated("lms", container, config, files)))
        /\ anonymous' = anonymous \cup new
        /\ kept' = Chosen(new, disk, kept)
        /\ StartStores(begun, Chosen(new, NoData, Flushed(begun)))

\* The servers a command talks to.
Needs(cmd) ==
    CASE cmd \in {"Sleep20", "CreateDbsAndUsers", "LmsMigrate", "ManageUser",
                  "SetPassword", "ConfigureCommerce", "CmsMigrate"} -> {"mysql"}
      [] cmd = "ProvisionMongo" -> {"mongo"}
      [] cmd = "ImportDemo"     -> {"mysql", "mongo"}
      [] OTHER                  -> {}

\* The container a command is executed in, or takes the volumes of.
Inside(cmd) ==
    CASE cmd \in {"StudioSyslog", "CmsMigrate", "CmsAssets"}   -> {"studio"}
      [] cmd \in {"PrepareLms", "LmsMigrate", "ManageUser", "SetPassword",
                  "CloneDemo", "ImportDemo", "ConfigureCommerce", "LmsAssets"} -> {"lms"}
      [] OTHER -> {}

\* Long enough sleeps: no command runs while a server it needs is starting.
InTime(cmd) ==
    SleepsSuffice => \A s \in Needs(cmd) : server[s] \notin {"init", "boot"}

\* Mutant: the clone of an earlier attempt is removed first.
CloneReplaced == FALSE

\* git refuses to clone into a directory that is there already.
CloneRefused == clone

\* What the command needs in order to succeed.
CanRun(cmd) ==
    /\ \A c \in Inside(cmd) : container[c] = "running"
    /\ cmd \in {"LmsMigrate", "ManageUser", "ImportDemo", "ConfigureCommerce",
                "CmsMigrate"} => server["mysql"] = "ready"
    /\ cmd \in {"ProvisionMongo", "ImportDemo"} => server["mongo"] = "ready"
    /\ cmd = "CreateDbsAndUsers" => server["mysql"] \in {"init", "ready"}
    /\ cmd \in {"RestoreDump", "RestartMySQL"} => container["mysql"] # "absent"
    /\ cmd = "RestoreSearch" => container["elasticsearch"] # "absent"
    /\ cmd \in {"LmsMigrate", "CmsMigrate"} => HasDatabases(open.mysql)
    /\ cmd \in {"ManageUser", "ImportDemo", "ConfigureCommerce"} => HasTables(open.mysql)
    /\ cmd = "ImportDemo" => "users" \in open.mongo
    /\ cmd = "CloneDemo" => ~ CloneRefused

\* The script runs the command cmd and goes on to next.
Run(cmd, next) ==
    /\ pc = cmd
    /\ CanRun(cmd) /\ InTime(cmd)
    /\ pc' = next

\* The next command, past those the flags switch off.
AfterSleep(env) ==
    IF Own(env, "DB_PROVISION") = "1" THEN "RestoreDump"
    ELSE IF Own(env, "DB_USER_PROVISION_ONLY") = "1" THEN "CreateDbsAndUsers"
    ELSE "UpLms"

AfterCommerce(env) ==
    IF Inherited(env, "UPDATE_ASSETS") = "1" THEN "LmsAssets" ELSE "UpStudio"

AfterLmsMigrate(env) ==
    IF Inherited(env, "DB_PROVISION") = "1" THEN "ManageUser" ELSE AfterCommerce(env)

AfterPrepareLms(env) ==
    IF Inherited(env, "RUN_MIGRATINS") = "1" THEN "LmsMigrate" ELSE AfterLmsMigrate(env)

AfterCmsMigrate(env) ==
    IF Inherited(env, "UPDATE_ASSETS") = "1" THEN "CmsAssets" ELSE "RestoreSearch"

AfterStudioSyslog(env) ==
    IF Inherited(env, "RUN_MIGRATINS") = "1" THEN "CmsMigrate" ELSE AfterCmsMigrate(env)

-----------------------------------------------------------------------------
\* provision.sh.

Start(a) ==
    /\ pc \in Resting
    /\ pc' = "UpDatabases"
    /\ attempt' = [env |-> a.env, files |-> a.files, stop |-> a.stop,
                   named |-> a.files = "provision" /\ anonymous = {},
                   foundClone |-> clone /\ config["lms"] = a.files,
                   restored |-> FALSE, imported |-> FALSE]
    /\ UNCHANGED <<user, failures, composeVars, storeVars, static>>

\* Mutant: mysql is forgotten.
UpMongoOnly ==
    /\ Run("UpDatabases", "WaitMySQL")
    /\ Up({"mongo"}, attempt.files)
    /\ UNCHANGED <<user, attempt, failures, static>>

UpDatabases ==
    /\ Run("UpDatabases", "WaitMySQL")
    /\ Up({"mysql", "mongo"}, attempt.files)
    /\ UNCHANGED <<user, attempt, failures, static>>

\* The loop ends as soon as a server answers root, the temporary one too.
WaitMySQL ==
    /\ server["mysql"] \in {"init", "ready"}
    /\ Run("WaitMySQL", "Sleep20")
    /\ UNCHANGED <<user, attempt, failures, composeVars, storeVars, static>>

\* Mutant: no sleep.
NoSleep ==
    /\ pc = "Sleep20"
    /\ pc' = AfterSleep(attempt.env)
    /\ UNCHANGED <<user, attempt, failures, composeVars, storeVars, static>>

Sleep20 ==
    /\ Run("Sleep20", AfterSleep(attempt.env))
    /\ UNCHANGED <<user, attempt, failures, composeVars, storeVars, static>>

\* Extracted under a running mysqld the new files go unnoticed; under one
\* that is still creating its own they are mixed with these.
RestoreDump ==
    /\ Run("RestoreDump", "RestartMySQL")
    /\ Extract("mysql", IF server["mysql"] = "init" THEN TornMySQL ELSE DumpMySQL)
    /\ attempt' = [attempt EXCEPT !.restored = TRUE]
    /\ UNCHANGED <<user, failures, composeVars, static>>

\* Mutant: no restart.
NoRestart ==
    /\ Run("RestartMySQL", "ProvisionMongo")
    /\ UNCHANGED <<user, attempt, failures, composeVars, storeVars, static>>

\* The `sleep 5` that follows waits for nothing in particular.
RestartMySQL ==
    /\ Run("RestartMySQL", "ProvisionMongo")
    /\ container' = [container EXCEPT !["mysql"] = "running"]
    /\ StartStores({"mysql"}, disk)
    /\ UNCHANGED <<user, attempt, failures, config, clone, anonymous, kept, static>>

CreateDbsAndUsers ==
    /\ Run("CreateDbsAndUsers", "ProvisionMongo")
    /\ MarkMySQL("databases")
    /\ UNCHANGED <<user, attempt, failures, composeVars, static>>

\* The mongo shell reads mongo-provision.js from its input: it prints an
\* exception and still exits with 0, so that users may be missing.
ProvisionMongo ==
    /\ Run("ProvisionMongo", "UpLms")
    /\ \/ WriteMongo("users") /\ UNCHANGED failures
       \/ failures < MaxFailures /\ failures' = failures + 1 /\ UNCHANGED storeVars
    /\ UNCHANGED <<user, attempt, composeVars, static>>

-----------------------------------------------------------------------------
\* provision-lms.sh.

UpLms ==
    /\ Run("UpLms", "PrepareLms")
    /\ Up({"lms"}, attempt.files)
    /\ UNCHANGED <<user, attempt, failures, static>>

\* Install the prerequisites, restart lms, start syslog.
PrepareLms ==
    /\ Run("PrepareLms", AfterPrepareLms(attempt.env))
    /\ UNCHANGED <<user, attempt, failures, composeVars, storeVars, static>>

LmsMigrate ==
    /\ Run("LmsMigrate", AfterLmsMigrate(attempt.env))
    /\ MarkMySQL("lmsMigrated")
    /\ UNCHANGED <<user, attempt, failures, composeVars, static>>

ManageUser ==
    /\ Run("ManageUser", "SetPassword")
    /\ WriteMySQL([open.mysql EXCEPT !.account[user] = IF @ = "none" THEN "created" ELSE @])
    /\ UNCHANGED <<user, attempt, failures, composeVars, static>>

\* Mutant: the loop over the accounts runs past the last one.
NextUserUnbounded(u) == u + 1

NextUser(u) == IF u < NAccounts THEN u + 1 ELSE 1

\* The Python text is piped into `manage.py ... shell`, which prints an
\* exception and still exits with 0: the password may stay unset.
SetPassword ==
    /\ Run("SetPassword", IF user < NAccounts THEN "ManageUser" ELSE "CloneDemo")
    /\ user' = NextUser(user)
    /\ \/ /\ server["mysql"] = "ready"
          /\ open.mysql.account[user] # "none"
          /\ WriteMySQL([open.mysql EXCEPT !.account[user] = "usable"])
          /\ UNCHANGED failures
       \/ /\ server["mysql"] = "ready" => failures < MaxFailures
          /\ failures' = IF server["mysql"] = "ready" THEN failures + 1 ELSE failures
          /\ UNCHANGED storeVars
    /\ UNCHANGED <<attempt, composeVars, static>>

CloneDemo ==
    /\ Run("CloneDemo", "ImportDemo")
    /\ clone' = TRUE
    /\ UNCHANGED <<user, attempt, failures, container, config, anonymous, kept,
                   storeVars, static>>

ImportDemo ==
    /\ Run("ImportDemo", "ConfigureCommerce")
    /\ WriteMongo("course")
    /\ attempt' = [attempt EXCEPT !.imported = TRUE]
    /\ UNCHANGED <<user, failures, composeVars, static>>

ConfigureCommerce ==
    /\ Run("ConfigureCommerce", AfterCommerce(attempt.env))
    /\ MarkMySQL("commerce")
    /\ UNCHANGED <<user, attempt, failures, composeVars, static>>

\* Assets go to the volume that the host files give lms; without them they go
\* into the container.
Built(assets) == IF attempt.files = "provision" THEN static \cup {assets} ELSE static

LmsAssets ==
    /\ Run("LmsAssets", "UpStudio")
    /\ static' = Built("lms")
    /\ UNCHANGED <<user, attempt, failures, composeVars, storeVars>>

-----------------------------------------------------------------------------
\* provision-cms.sh, provision-elasticsearch.sh, the end of provision.sh.

UpStudio ==
    /\ Run("UpStudio", "StudioSyslog")
    /\ Up({"studio"}, attempt.files)
    /\ UNCHANGED <<user, attempt, failures, static>>

StudioSyslog ==
    /\ Run("StudioSyslog", AfterStudioSyslog(attempt.env))
    /\ UNCHANGED <<user, attempt, failures, composeVars, storeVars, static>>

CmsMigrate ==
    /\ Run("CmsMigrate", AfterCmsMigrate(attempt.env))
    /\ MarkMySQL("cmsMigrated")
    /\ UNCHANGED <<user, attempt, failures, composeVars, static>>

CmsAssets ==
    /\ Run("CmsAssets", "RestoreSearch")
    /\ static' = Built("cms")
    /\ UNCHANGED <<user, attempt, failures, composeVars, storeVars>>

\* Nothing restarts elasticsearch afterwards.
RestoreSearch ==
    /\ Run("RestoreSearch", "UpNginx")
    /\ Extract("elasticsearch", "dump")
    /\ UNCHANGED <<user, attempt, failures, composeVars, static>>

UpNginx ==
    /\ Run("UpNginx", IF attempt.stop THEN "MakeStop" ELSE "done")
    /\ Up({"nginx"}, attempt.files)
    /\ UNCHANGED <<user, attempt, failures, static>>

\* Mutant: the stack is left running.
MakeNoStop ==
    /\ Run("MakeStop", "finished")
    /\ UNCHANGED <<user, attempt, failures, composeVars, storeVars, static>>

\* The five make targets stop everything once provision.sh has succeeded.
MakeStop ==
    /\ Run("MakeStop", "finished")
    /\ container' = Stopped(container)
    /\ StopStores(Flushed(Servers))
    /\ UNCHANGED <<user, attempt, failures, config, clone, anonymous, kept, static>>

-----------------------------------------------------------------------------
\* A command fails, on its own account (at most MaxFailures times) or because
\* what it needs is missing, and `set -e` ends the script and make.  An
\* extraction leaves what it had written.  The operator may
\* interrupt the wait for a mysql that is down, which is no failure.
EndlessWait == pc = "WaitMySQL" /\ server["mysql"] = "down"

Unforced == CanRun(pc) /\ ~ EndlessWait

Abort ==
    /\ pc \in Commands
    /\ InTime(pc)
    /\ pc' = "aborted"
    /\ Unforced => failures < MaxFailures
    /\ failures' = IF Unforced THEN failures + 1 ELSE failures
    /\ \/ UNCHANGED storeVars
       \/ pc = "RestoreDump" /\ CanRun(pc) /\ Extract("mysql", TornMySQL)
       \/ pc = "RestoreSearch" /\ CanRun(pc) /\ Extract("elasticsearch", "torn")
    /\ user' = 1
    /\ UNCHANGED <<attempt, composeVars, static>>

-----------------------------------------------------------------------------
\* The operator between two attempts, the site's learners, the host.

Stop ==
    /\ pc \in Resting /\ "stop" \in Targets
    /\ container' = Stopped(container)
    /\ StopStores(Flushed(Servers))
    /\ UNCHANGED <<scriptVars, config, clone, anonymous, kept, static>>

\* Every container is removed; these volumes are left for the next ones.
RemoveAll(volumes) ==
    /\ container' = Removed
    /\ config' = NoConfig
    /\ clone' = FALSE
    /\ anonymous' = {}
    /\ kept' = NoData
    /\ StopStores(volumes)

\* Mutant: `down -v`.
DownVolumes ==
    /\ pc \in Resting /\ "down" \in Targets
    /\ RemoveAll(NoData)
    /\ UNCHANGED <<scriptVars, static>>

\* A new container will not find an anonymous volume again.
Down ==
    /\ pc \in Resting /\ "down" \in Targets
    /\ RemoveAll(Chosen(anonymous, kept, Flushed(Servers)))
    /\ UNCHANGED <<scriptVars, static>>

\* Mutant: `down` without -v.
DestroyContainers ==
    /\ pc \in Resting /\ "destroy" \in Targets
    /\ pc' = "idle"
    /\ RemoveAll(Chosen(anonymous, kept, Flushed(Servers)))
    /\ UNCHANGED <<user, attempt, failures, static>>

\* destroy.sh, its question answered with y: `down -v`.
Destroy ==
    /\ pc \in Resting /\ "destroy" \in Targets
    /\ pc' = "idle"
    /\ RemoveAll(NoData)
    /\ static' = {}
    /\ UNCHANGED <<user, attempt, failures>>

\* `make dev.up`: every service, lms and studio with their web servers.
DevUp ==
    /\ pc \in Resting /\ "dev.up" \in Targets
    /\ Up(Services, "run")
    /\ UNCHANGED <<scriptVars, static>>

\* A learner registers on the running site, at any time.
Register ==
    /\ container["lms"] = "running" /\ config["lms"] = "run"
    /\ server["mysql"] = "ready"
    /\ HasTables(open.mysql)
    /\ "learner" \notin open.mysql.marks
    /\ MarkMySQL("learner")
    /\ UNCHANGED <<scriptVars, composeVars, static>>

\* The host or the docker daemon goes down and comes back, at any time.
HostCrash ==
    /\ failures < MaxFailures
    /\ failures' = failures + 1
    /\ container' = Rebooted(container, config)
    /\ server' = [s \in Servers |-> "down"]
    /\ open' = disk
    /\ detached' = {}
    /\ pc' = IF pc \in Commands THEN "aborted" ELSE pc
    /\ user' = 1
    /\ UNCHANGED <<attempt, config, clone, anonymous, kept, disk, static>>

Script ==
    \/ UpDatabases \/ WaitMySQL \/ Sleep20 \/ RestoreDump \/ RestartMySQL
    \/ CreateDbsAndUsers \/ ProvisionMongo
    \/ UpLms \/ PrepareLms \/ LmsMigrate \/ ManageUser \/ SetPassword
    \/ CloneDemo \/ ImportDemo \/ ConfigureCommerce \/ LmsAssets
    \/ UpStudio \/ StudioSyslog \/ CmsMigrate \/ CmsAssets
    \/ RestoreSearch \/ UpNginx \/ MakeStop

Operator == Stop \/ Down \/ Destroy \/ DevUp

StoreStep ==
    \/ MySQLInitialised \/ MySQLDies \/ MongoCheckpoint
    \/ \E s \in Servers : ServerReady(s)

Next ==
    \/ \E a \in Attempts : Start(a)
    \/ Script \/ Abort
    \/ Operator
    \/ StoreStep
    \/ Register
    \/ HostCrash

Spec == Init /\ [][Next]_vars

-----------------------------------------------------------------------------
\* Fairness: a script goes on while it can, a command whose needs are missing
\* fails rather than hang, a server that starts ends up ready or dead.  The
\* operator, the learners, the failures and the host promise nothing.
Fairness ==
    /\ WF_vars(Script)
    /\ WF_vars(Abort /\ ~ CanRun(pc))
    /\ WF_vars(MySQLInitialised)
    /\ WF_vars(ServerReady("mysql") \/ MySQLDies)
    /\ WF_vars(ServerReady("mongo"))

FairSpec == Spec /\ Fairness

\* An operator who keeps trying, starts over with `make destroy` again and
\* again, and interrupts the wait for a mysql that is dead.
Persistence ==
    /\ SF_vars(Destroy)
    /\ WF_vars(\E a \in Attempts : Start(a))
    /\ WF_vars(Abort /\ EndlessWait)

-----------------------------------------------------------------------------
\* What a provisioning run with the environment env has to leave behind.
Delivered(env) ==
    /\ Inherited(env, "DB_PROVISION") = "1" =>
         /\ disk.mysql.base = "dump"
         /\ \A a \in Accounts : disk.mysql.account[a] # "none"
         /\ "commerce" \in disk.mysql.marks
         /\ disk.mongo = {"users", "course"}
    /\ Inherited(env, "RUN_MIGRATINS") = "1" =>
         {"lmsMigrated", "cmsMigrated"} \subseteq disk.mysql.marks
    /\ Inherited(env, "UPDATE_ASSETS") = "1" => static = {"lms", "cms"}
    /\ disk.elasticsearch = "dump"

\* A make target that ends well (Makefile:37-60: provision.sh, then stop) has
\* left all it provisions in the volumes, and stop, down, dev.up and a crash
\* of the host leave it there - although mysql's files were replaced under a
\* running server, mongo writes without a journal and any command may fail -
\* unless it came upon containers that docker-compose.yml alone had created.
ProvisionedOnDisk == pc = "finished" /\ attempt.named => Delivered(attempt.env)

\* The commands after the restart of mysql in provision.sh:47.
AfterRestart == Commands \ {"UpDatabases", "WaitMySQL", "Sleep20", "RestoreDump",
                            "RestartMySQL", "CreateDbsAndUsers"}

\* Whatever earlier attempts left behind, a script that restores the dump makes
\* all its later writes on a mysql server that works on the restored files:
\* the restart of provision.sh:47 comes before the first of them.
ScriptWritesReachVolume ==
    pc \in AfterRestart /\ Own(attempt.env, "DB_PROVISION") = "1" =>
        "mysql" \notin detached /\ open.mysql = disk.mysql

\* provision-lms.sh:41 clones into a directory of the lms container that
\* nothing removes: an attempt that finds it in a container it will not
\* recreate never gets past it, however often it is repeated.
StaleCloneStops ==
    attempt.foundClone /\ Inherited(attempt.env, "DB_PROVISION") = "1" =>
        pc \notin {"ImportDemo", "ConfigureCommerce", "LmsAssets", "UpStudio",
                   "StudioSyslog", "CmsMigrate", "CmsAssets", "RestoreSearch",
                   "UpNginx", "MakeStop", "done", "finished"}

\* After a make target has ended well, elasticsearch never serves another
\* index than the restored one: it is not restarted after the extraction
\* (provision-elasticsearch.sh:5), but the target stops it, so that whoever
\* brings it up again opens the new files (named volumes as above).
RestoredIndexServed ==
    pc = "finished" /\ attempt.named /\ container["elasticsearch"] = "running" =>
        open.elasticsearch = "dump" /\ "elasticsearch" \notin detached

\* provision-elasticsearch.sh takes the volumes of a container that no script
\* brings up by name: only the links of lms and forum do.
SearchContainerExists ==
    pc = "RestoreSearch" => container["elasticsearch"] # "absent"

\* ./provision.sh run by hand without flags restores the database by its own
\* default (provision.sh:20-22), but the default is not exported:
\* provision-lms.sh then creates no accounts and imports no course.
BareRunImportsNothing ==
    pc = "done" /\ attempt.env["DB_PROVISION"] = "unset" =>
        attempt.restored /\ ~ attempt.imported

\* The dump is never extracted while mysql is still creating its system
\* tables, provided the 20 seconds of provision.sh:39 cover that time: the
\* loop before them also ends at the temporary server (provision.sh:37).
RestoredIntoSettledServer ==
    [][pc = "RestoreDump" /\ disk'.mysql # disk.mysql => server["mysql"] # "init"]_vars

\* What mysql's named volume holds, whether its container uses it or not.
NamedMySQL == IF "mysql" \in anonymous THEN kept.mysql ELSE disk.mysql

\* Nothing that db holds is missing in after: no database, no table and no
\* account, and no account has lost its password.
Survives(db, after) ==
    /\ db.marks \subseteq after.marks
    /\ \A a \in Accounts : db.account[a] # "none" =>
          after.account[a] \in {db.account[a], "usable"}

\* What mysql once wrote, learners' accounts included, is lost only to an
\* extraction of the dump over the volume that has it, or to destroy: not to
\* stop, to a container that is replaced or to a crash.  To down neither
\* (README.rst:218-220), unless the container was created from
\* docker-compose.yml alone: its volume goes with it, and the named one is
\* untouched by all that is done meanwhile, the attempts included.
OnlyRestoreOrDestroyLoses ==
    [][LET extracted == pc = "RestoreDump" /\ pc' # pc
       IN  /\ \/ "mysql" \notin anonymous /\ extracted
              \/ Destroy
              \/ Survives(NamedMySQL, NamedMySQL')
           /\ "mysql" \in anonymous =>
                extracted \/ Down \/ Destroy \/ Survives(disk.mysql, disk'.mysql)
      ]_vars

\* Every attempt ends, except that the wait for mysql (provision.sh:31-35)
\* has no limit and never ends if mysql died on torn files.
AttemptEnds ==
    pc \in Commands ~> \/ pc \in Resting
                       \/ pc = "WaitMySQL" /\ disk.mysql.base = "torn"

\* An operator who goes on trying and destroys between attempts gets a
\* provisioned stack, whatever failed on the way (README.rst:225-226).
EventuallyProvisioned == Persistence => []<>(pc = "finished")

\* README.rst:129-130: "The LMS also includes demo accounts. The passwords for
\* each of these accounts is edx."
DemoPasswordsAreSet ==
    pc = "finished" /\ attempt.env["DB_PROVISION"] = "1" =>
        \A a \in Accounts : disk.mysql.account[a] = "usable"
=============================================================================
