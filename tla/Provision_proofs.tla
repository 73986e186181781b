-------------------------- MODULE Provision_proofs --------------------------
(***************************************************************************)
(* Proofs about Provision, for every number of accounts, every dump, every *)
(* set of attempts and targets and every bound on the failures.            *)
(***************************************************************************)
EXTENDS Provision, TLAPS

-----------------------------------------------------------------------------
(* Types of what the helpers return. *)

LEMMA MySQLValues ==
    /\ NoMySQL \in MySQLData
    /\ TornMySQL \in MySQLData
    /\ DumpMySQL \in MySQLData
BY ConstantsAssumption
   DEF NoMySQL, TornMySQL, DumpMySQL, MySQLWith, MySQLData, AccountStates, MySQLMarks

LEMMA NoDataType == NoData \in Data
BY MySQLValues DEF NoData, Data, MongoData, SearchData

\* A mysql record with its base replaced is a mysql record.
LEMMA WithBase ==
    ASSUME NEW d \in Data, NEW b \in {"none", "torn", "blank", "dump"}
    PROVE  [d EXCEPT !.mysql.base = b] \in Data
BY DEF Data, MySQLData

LEMMA ChosenType ==
    ASSUME NEW S, NEW some \in Data, NEW others \in Data
    PROVE  Chosen(S, some, others) \in Data
BY DEF Chosen, Data

LEMMA FlushedType == ASSUME StoreTypeOK, NEW S PROVE Flushed(S) \in Data
BY DEF Flushed, StoreTypeOK, Data

LEMMA StartStoresType ==
    ASSUME StoreTypeOK, NEW S, NEW volumes \in Data, StartStores(S, volumes)
    PROVE  StoreTypeOK'
<1>1. Starting(S, volumes) \subseteq {"mysql"}
  BY DEF Starting
<1>2. AfterStart(S, volumes) \in Data
  BY WithBase DEF AfterStart
<1>3. server' \in [Servers -> Phases]
  BY DEF StoreTypeOK, StartStores, Servers, Phases
<1>4. Chosen(S, AfterStart(S, volumes), open) \in Data
  BY <1>2, ChosenType DEF StoreTypeOK
<1> QED
  BY <1>2, <1>3, <1>4 DEF StoreTypeOK, StartStores

LEMMA StopStoresType ==
    ASSUME StoreTypeOK, NEW volumes \in Data, StopStores(volumes)
    PROVE  StoreTypeOK'
BY DEF StoreTypeOK, StopStores, Servers, Phases

LEMMA ExtractType ==
    ASSUME StoreTypeOK,
           NEW s \in {"mysql", "elasticsearch"}, NEW content, Extract(s, content),
           s = "mysql" => content \in MySQLData,
           s = "elasticsearch" => content \in SearchData
    PROVE  StoreTypeOK'
<1>1. [disk EXCEPT ![s] = content] \in Data /\ [open EXCEPT ![s] = content] \in Data
  BY DEF StoreTypeOK, Data
<1> QED
  BY <1>1 DEF StoreTypeOK, Extract

LEMMA WriteMySQLType ==
    ASSUME StoreTypeOK, NEW db \in MySQLData, WriteMySQL(db)
    PROVE  StoreTypeOK'
BY DEF StoreTypeOK, WriteMySQL, Data

LEMMA MarkMySQLType ==
    ASSUME StoreTypeOK, NEW mark \in MySQLMarks, MarkMySQL(mark)
    PROVE  StoreTypeOK'
<1>1. [open.mysql EXCEPT !.marks = @ \cup {mark}] \in MySQLData
  BY DEF StoreTypeOK, Data, MySQLData
<1> QED
  BY <1>1, WriteMySQLType DEF MarkMySQL

LEMMA WriteMongoType ==
    ASSUME StoreTypeOK, NEW mark \in {"users", "course"}, WriteMongo(mark)
    PROVE  StoreTypeOK'
BY DEF StoreTypeOK, WriteMongo, Data, MongoData

LEMMA DefinitionType ==
    ASSUME NEW s, NEW files \in FileSets
    PROVE  Definition(s, files) \in FileSets
BY DEF Definition, FileSets

LEMMA UpType ==
    ASSUME ComposeTypeOK, StoreTypeOK, NEW S, NEW files \in FileSets, Up(S, files)
    PROVE  ComposeTypeOK' /\ StoreTypeOK'
<1> DEFINE new == Fresh(LinkClosure(S), files)
           begun == Begun(LinkClosure(S), files)
<1>1. container' \in [Services -> Statuses] /\ clone' \in BOOLEAN
  BY DEF ComposeTypeOK, Up, Upped, Statuses
<1>2. config' \in [Services -> FileSets]
  BY DefinitionType DEF ComposeTypeOK, Up, UppedConfig
<1>3. anonymous' \subseteq Stores
  BY DEF ComposeTypeOK, Up, Fresh
<1>4. kept' \in Data
  BY ChosenType DEF ComposeTypeOK, StoreTypeOK, Up
<1>5. Chosen(new, NoData, Flushed(begun)) \in Data
  BY ChosenType, NoDataType, FlushedType
<1>6. StoreTypeOK'
  BY <1>5, StartStoresType DEF Up
<1> QED
  BY <1>1, <1>2, <1>3, <1>4, <1>6 DEF ComposeTypeOK

LEMMA RemoveAllType ==
    ASSUME StoreTypeOK, NEW volumes \in Data, RemoveAll(volumes)
    PROVE  ComposeTypeOK' /\ StoreTypeOK'
BY StopStoresType, NoDataType
DEF RemoveAll, ComposeTypeOK, Removed, NoConfig, Statuses, FileSets

\* Where the flags may lead.
LEMMA NextCommands ==
    ASSUME NEW env
    PROVE  /\ AfterSleep(env) \in {"RestoreDump", "CreateDbsAndUsers", "UpLms"}
           /\ AfterPrepareLms(env) \in {"LmsMigrate", "ManageUser", "LmsAssets", "UpStudio"}
           /\ AfterLmsMigrate(env) \in {"ManageUser", "LmsAssets", "UpStudio"}
           /\ AfterCommerce(env) \in {"LmsAssets", "UpStudio"}
           /\ AfterStudioSyslog(env) \in {"CmsMigrate", "CmsAssets", "RestoreSearch"}
           /\ AfterCmsMigrate(env) \in {"CmsAssets", "RestoreSearch"}
BY DEF AfterSleep, AfterPrepareLms, AfterLmsMigrate, AfterCommerce, AfterStudioSyslog,
       AfterCmsMigrate

-----------------------------------------------------------------------------
(* Type correctness, one step per action. *)

LEMMA InitType == Init => TypeOK
<1> SUFFICES ASSUME Init PROVE TypeOK
  OBVIOUS
<1>1. ScriptTypeOK
  BY ConstantsAssumption
  DEF Init, ScriptTypeOK, Resting, Accounts, Histories, NoAttempt, Environments, Values
<1>2. ComposeTypeOK
  BY NoDataType DEF Init, ComposeTypeOK, Removed, NoConfig, Statuses, FileSets
<1>3. StoreTypeOK
  BY NoDataType DEF Init, StoreTypeOK, Phases
<1> QED
  BY <1>1, <1>2, <1>3 DEF Init, TypeOK

LEMMA NextType == TypeOK /\ [Next]_vars => TypeOK'
<1> SUFFICES ASSUME TypeOK, [Next]_vars PROVE TypeOK'
  OBVIOUS
<1> USE DEF TypeOK
<1>0. attempt.files \in FileSets
  BY DEF ScriptTypeOK, Histories, FileSets
<1>1. ASSUME NEW a \in Attempts, Start(a) PROVE TypeOK'
  <2>1. a \in Ways
    BY ConstantsAssumption
  <2> QED
    BY <1>1, <2>1
    DEF Start, ScriptTypeOK, Commands, Histories, Ways, composeVars, storeVars,
        ComposeTypeOK, StoreTypeOK
<1>2. CASE UpDatabases
  <2>1. ScriptTypeOK'
    BY <1>2 DEF UpDatabases, Run, ScriptTypeOK, Commands
  <2>2. ComposeTypeOK' /\ StoreTypeOK'
    BY <1>0, <1>2, UpType DEF UpDatabases
  <2> QED
    BY <1>2, <2>1, <2>2 DEF UpDatabases
<1>3. CASE WaitMySQL
  BY <1>3 DEF WaitMySQL, Run, ScriptTypeOK, Commands, composeVars, storeVars,
      ComposeTypeOK, StoreTypeOK
<1>4. CASE Sleep20
  BY <1>4, NextCommands DEF Sleep20, Run, ScriptTypeOK, Commands, composeVars, storeVars,
      ComposeTypeOK, StoreTypeOK
<1>5. CASE RestoreDump
  <2>1. ScriptTypeOK' /\ ComposeTypeOK'
    BY <1>5 DEF RestoreDump, Run, ScriptTypeOK, Commands, Histories, composeVars, ComposeTypeOK
  <2>2. StoreTypeOK'
    BY <1>5, ExtractType, MySQLValues DEF RestoreDump
  <2> QED
    BY <1>5, <2>1, <2>2 DEF RestoreDump
<1>6. CASE RestartMySQL
  <2>1. ScriptTypeOK' /\ ComposeTypeOK'
    BY <1>6 DEF RestartMySQL, Run, ScriptTypeOK, Commands, ComposeTypeOK, Statuses
  <2>2. StoreTypeOK'
    BY <1>6, StartStoresType DEF RestartMySQL, StoreTypeOK
  <2> QED
    BY <1>6, <2>1, <2>2 DEF RestartMySQL
<1>7. CASE CreateDbsAndUsers
  <2>1. ScriptTypeOK' /\ ComposeTypeOK'
    BY <1>7 DEF CreateDbsAndUsers, Run, ScriptTypeOK, Commands, composeVars, ComposeTypeOK
  <2>2. StoreTypeOK'
    BY <1>7, MarkMySQLType DEF CreateDbsAndUsers, MySQLMarks
  <2> QED
    BY <1>7, <2>1, <2>2 DEF CreateDbsAndUsers
<1>8. CASE ProvisionMongo
  <2>1. ScriptTypeOK' /\ ComposeTypeOK'
    BY <1>8, ConstantsAssumption
    DEF ProvisionMongo, Run, ScriptTypeOK, Commands, composeVars, ComposeTypeOK
  <2>2. StoreTypeOK'
    BY <1>8, WriteMongoType DEF ProvisionMongo, storeVars, StoreTypeOK
  <2> QED
    BY <1>8, <2>1, <2>2 DEF ProvisionMongo
<1>9. CASE UpLms
  <2>1. ScriptTypeOK'
    BY <1>9 DEF UpLms, Run, ScriptTypeOK, Commands
  <2>2. ComposeTypeOK' /\ StoreTypeOK'
    BY <1>0, <1>9, UpType DEF UpLms
  <2> QED
    BY <1>9, <2>1, <2>2 DEF UpLms
<1>10. CASE PrepareLms
  BY <1>10, NextCommands DEF PrepareLms, Run, ScriptTypeOK, Commands, composeVars,
      storeVars, ComposeTypeOK, StoreTypeOK
<1>11. CASE LmsMigrate
  <2>1. ScriptTypeOK' /\ ComposeTypeOK'
    BY <1>11, NextCommands DEF LmsMigrate, Run, ScriptTypeOK, Commands, composeVars,
        ComposeTypeOK
  <2>2. StoreTypeOK'
    BY <1>11, MarkMySQLType DEF LmsMigrate, MySQLMarks
  <2> QED
    BY <1>11, <2>1, <2>2 DEF LmsMigrate
<1>12. CASE ManageUser
  <2>1. ScriptTypeOK' /\ ComposeTypeOK'
    BY <1>12 DEF ManageUser, Run, ScriptTypeOK, Commands, composeVars, ComposeTypeOK
  <2>2. [open.mysql EXCEPT !.account[user] = IF @ = "none" THEN "created" ELSE @] \in MySQLData
    BY DEF StoreTypeOK, ScriptTypeOK, Data, MySQLData, AccountStates
  <2>3. StoreTypeOK'
    BY <1>12, <2>2, WriteMySQLType DEF ManageUser
  <2> QED
    BY <1>12, <2>1, <2>3 DEF ManageUser
<1>13. CASE SetPassword
  <2>1. NextUser(user) \in Accounts
    BY ConstantsAssumption DEF NextUser, ScriptTypeOK, Accounts
  <2>2. ScriptTypeOK' /\ ComposeTypeOK'
    BY <1>13, <2>1, ConstantsAssumption
    DEF SetPassword, Run, ScriptTypeOK, Commands, composeVars, ComposeTypeOK
  <2>3. [open.mysql EXCEPT !.account[user] = "usable"] \in MySQLData
    BY DEF StoreTypeOK, ScriptTypeOK, Data, MySQLData, AccountStates
  <2>4. StoreTypeOK'
    BY <1>13, <2>3, WriteMySQLType DEF SetPassword, storeVars, StoreTypeOK
  <2> QED
    BY <1>13, <2>2, <2>4 DEF SetPassword
<1>14. CASE CloneDemo
  BY <1>14 DEF CloneDemo, Run, ScriptTypeOK, Commands, storeVars, ComposeTypeOK, StoreTypeOK
<1>15. CASE ImportDemo
  <2>1. ScriptTypeOK' /\ ComposeTypeOK'
    BY <1>15 DEF ImportDemo, Run, ScriptTypeOK, Commands, Histories, composeVars, ComposeTypeOK
  <2>2. StoreTypeOK'
    BY <1>15, WriteMongoType DEF ImportDemo
  <2> QED
    BY <1>15, <2>1, <2>2 DEF ImportDemo
<1>16. CASE ConfigureCommerce
  <2>1. ScriptTypeOK' /\ ComposeTypeOK'
    BY <1>16, NextCommands DEF ConfigureCommerce, Run, ScriptTypeOK, Commands, composeVars,
        ComposeTypeOK
  <2>2. StoreTypeOK'
    BY <1>16, MarkMySQLType DEF ConfigureCommerce, MySQLMarks
  <2> QED
    BY <1>16, <2>1, <2>2 DEF ConfigureCommerce
<1>17. CASE LmsAssets
  BY <1>17 DEF LmsAssets, Built, Run, ScriptTypeOK, Commands, composeVars, storeVars,
      ComposeTypeOK, StoreTypeOK
<1>18. CASE UpStudio
  <2>1. ScriptTypeOK'
    BY <1>18 DEF UpStudio, Run, ScriptTypeOK, Commands
  <2>2. ComposeTypeOK' /\ StoreTypeOK'
    BY <1>0, <1>18, UpType DEF UpStudio
  <2> QED
    BY <1>18, <2>1, <2>2 DEF UpStudio
<1>19. CASE StudioSyslog
  BY <1>19, NextCommands DEF StudioSyslog, Run, ScriptTypeOK, Commands, composeVars,
      storeVars, ComposeTypeOK, StoreTypeOK
<1>20. CASE CmsMigrate
  <2>1. ScriptTypeOK' /\ ComposeTypeOK'
    BY <1>20, NextCommands DEF CmsMigrate, Run, ScriptTypeOK, Commands, composeVars,
        ComposeTypeOK
  <2>2. StoreTypeOK'
    BY <1>20, MarkMySQLType DEF CmsMigrate, MySQLMarks
  <2> QED
    BY <1>20, <2>1, <2>2 DEF CmsMigrate
<1>21. CASE CmsAssets
  BY <1>21 DEF CmsAssets, Built, Run, ScriptTypeOK, Commands, composeVars, storeVars,
      ComposeTypeOK, StoreTypeOK
<1>22. CASE RestoreSearch
  <2>1. ScriptTypeOK' /\ ComposeTypeOK'
    BY <1>22 DEF RestoreSearch, Run, ScriptTypeOK, Commands, composeVars, ComposeTypeOK
  <2>2. StoreTypeOK'
    BY <1>22, ExtractType DEF RestoreSearch, SearchData
  <2> QED
    BY <1>22, <2>1, <2>2 DEF RestoreSearch
<1>23. CASE UpNginx
  <2>1. ScriptTypeOK'
    BY <1>23 DEF UpNginx, Run, ScriptTypeOK, Commands, Resting
  <2>2. ComposeTypeOK' /\ StoreTypeOK'
    BY <1>0, <1>23, UpType DEF UpNginx
  <2> QED
    BY <1>23, <2>1, <2>2 DEF UpNginx
<1>24. CASE MakeStop
  <2>1. ScriptTypeOK' /\ ComposeTypeOK'
    BY <1>24 DEF MakeStop, Run, ScriptTypeOK, Resting, ComposeTypeOK, Stopped, Statuses
  <2>2. StoreTypeOK'
    BY <1>24, FlushedType, StopStoresType DEF MakeStop
  <2> QED
    BY <1>24, <2>1, <2>2 DEF MakeStop
<1>25. CASE Abort
  <2>1. ScriptTypeOK' /\ ComposeTypeOK'
    BY <1>25, ConstantsAssumption DEF Abort, ScriptTypeOK, Resting, Accounts, composeVars,
        ComposeTypeOK
  <2>2. StoreTypeOK'
    <3>1. CASE UNCHANGED storeVars
      BY <3>1 DEF storeVars, StoreTypeOK
    <3>2. CASE Extract("mysql", TornMySQL)
      BY <3>2, ExtractType, MySQLValues
    <3>3. CASE Extract("elasticsearch", "torn")
      BY <3>3, ExtractType DEF SearchData
    <3> QED
      BY <1>25, <3>1, <3>2, <3>3 DEF Abort
  <2> QED
    BY <1>25, <2>1, <2>2 DEF Abort
<1>26. CASE Stop
  <2>1. ScriptTypeOK' /\ ComposeTypeOK'
    BY <1>26 DEF Stop, scriptVars, ScriptTypeOK, ComposeTypeOK, Stopped, Statuses
  <2>2. StoreTypeOK'
    BY <1>26, FlushedType, StopStoresType DEF Stop
  <2> QED
    BY <1>26, <2>1, <2>2 DEF Stop
<1>27. CASE Down
  <2>1. ScriptTypeOK'
    BY <1>27 DEF Down, scriptVars, ScriptTypeOK
  <2>2. Chosen(anonymous, kept, Flushed(Servers)) \in Data
    BY FlushedType, ChosenType DEF ComposeTypeOK
  <2>3. ComposeTypeOK' /\ StoreTypeOK'
    BY <1>27, <2>2, RemoveAllType DEF Down
  <2> QED
    BY <1>27, <2>1, <2>3 DEF Down
<1>28. CASE Destroy
  <2>1. ScriptTypeOK'
    BY <1>28 DEF Destroy, ScriptTypeOK, Resting
  <2>2. ComposeTypeOK' /\ StoreTypeOK'
    BY <1>28, RemoveAllType, NoDataType DEF Destroy
  <2> QED
    BY <1>28, <2>1, <2>2 DEF Destroy
<1>29. CASE DevUp
  <2>1. ScriptTypeOK'
    BY <1>29 DEF DevUp, scriptVars, ScriptTypeOK
  <2>2. ComposeTypeOK' /\ StoreTypeOK'
    BY <1>29, UpType DEF DevUp, FileSets
  <2> QED
    BY <1>29, <2>1, <2>2 DEF DevUp
<1>30. CASE Register
  <2>1. ScriptTypeOK' /\ ComposeTypeOK'
    BY <1>30 DEF Register, scriptVars, ScriptTypeOK, composeVars, ComposeTypeOK
  <2>2. StoreTypeOK'
    BY <1>30, MarkMySQLType DEF Register, MySQLMarks
  <2> QED
    BY <1>30, <2>1, <2>2 DEF Register
<1>31. CASE HostCrash
  <2>1. ScriptTypeOK'
    BY <1>31, ConstantsAssumption DEF HostCrash, ScriptTypeOK, Resting, Accounts
  <2>2. ComposeTypeOK' /\ StoreTypeOK'
    BY <1>31 DEF HostCrash, ComposeTypeOK, StoreTypeOK, Rebooted, Statuses, Phases
  <2> QED
    BY <1>31, <2>1, <2>2 DEF HostCrash
<1>32. CASE MySQLInitialised
  <2>1. ScriptTypeOK' /\ ComposeTypeOK'
    BY <1>32 DEF MySQLInitialised, scriptVars, ScriptTypeOK, composeVars, ComposeTypeOK
  <2>2. StoreTypeOK'
    BY <1>32 DEF MySQLInitialised, StoreTypeOK, Data, MySQLData, Phases
  <2> QED
    BY <1>32, <2>1, <2>2 DEF MySQLInitialised
<1>33. ASSUME NEW s \in Servers, ServerReady(s) PROVE TypeOK'
  BY <1>33 DEF ServerReady, scriptVars, ScriptTypeOK, composeVars, ComposeTypeOK,
      StoreTypeOK, Phases
<1>34. CASE MySQLDies
  <2>1. ScriptTypeOK' /\ ComposeTypeOK'
    BY <1>34 DEF MySQLDies, scriptVars, ScriptTypeOK, ComposeTypeOK, Statuses
  <2>2. StoreTypeOK'
    BY <1>34 DEF MySQLDies, StoreTypeOK, Data, Phases
  <2> QED
    BY <1>34, <2>1, <2>2 DEF MySQLDies
<1>35. CASE MongoCheckpoint
  BY <1>35 DEF MongoCheckpoint, scriptVars, ScriptTypeOK, composeVars, ComposeTypeOK,
      StoreTypeOK, Data
<1>36. CASE UNCHANGED vars
  BY <1>36 DEF vars, ScriptTypeOK, ComposeTypeOK, StoreTypeOK
<1> QED
  BY <1>1, <1>2, <1>3, <1>4, <1>5, <1>6, <1>7, <1>8, <1>9, <1>10, <1>11, <1>12, <1>13,
     <1>14, <1>15, <1>16, <1>17, <1>18, <1>19, <1>20, <1>21, <1>22, <1>23, <1>24, <1>25,
     <1>26, <1>27, <1>28, <1>29, <1>30, <1>31, <1>32, <1>33, <1>34, <1>35, <1>36
  DEF Next, Script, Operator, StoreStep

\* Every variable of every reachable state has its type.
THEOREM TypeCorrect == Spec => []TypeOK
BY InitType, NextType, PTL DEF Spec

-----------------------------------------------------------------------------
(* The inductive invariant behind ProvisionedOnDisk.                        *)
(*                                                                          *)
(* StoreInv relates the servers to their volumes whatever runs.  ScriptInv  *)
(* says what the script has achieved when it is about to run a command:     *)
(* once mysql is restarted on the restored files it is attached to them and *)
(* nothing short of a new extraction detaches it; once mongo has answered it*)
(* is not restarted before the script ends.  So what is in the servers when *)
(* the make target stops them is what the volumes hold from then on.        *)
(* AttemptInv is why no later `up` of the script replaces the two servers   *)
(* or gives them another volume, and why the volumes stay after the script. *)

StoreInv ==
    /\ "mysql" \notin detached => open.mysql = disk.mysql
    /\ disk.mongo \subseteq open.mongo
    /\ \A s \in Servers : server[s] # "down" => container[s] = "running"
    /\ server["mysql"] = "init" => disk.mysql.base = "torn"

Restores   == Own(attempt.env, "DB_PROVISION") = "1"
Creates    == Inherited(attempt.env, "DB_PROVISION") = "1"
Migrates   == Inherited(attempt.env, "RUN_MIGRATINS") = "1"
Builds     == Inherited(attempt.env, "UPDATE_ASSETS") = "1"

\* The commands after a point of the script.
AfterServices == {"RestoreSearch", "UpNginx", "MakeStop"}
AfterLmsAssets == {"UpStudio", "StudioSyslog", "CmsMigrate", "CmsAssets"} \cup AfterServices
AfterCreation == {"LmsAssets"} \cup AfterLmsAssets
AfterImport == {"ConfigureCommerce"} \cup AfterCreation
AfterAccounts == {"CloneDemo", "ImportDemo"} \cup AfterImport

\* The commands after `docker-compose up -d lms`.
Creation   == {"ManageUser", "SetPassword", "CloneDemo", "ImportDemo", "ConfigureCommerce"}
AfterUpLms == {"PrepareLms", "LmsMigrate"} \cup Creation \cup AfterCreation

\* The containers a script works with were created with its files, or replaced;
\* named volumes stay in use once every store has its own.
AttemptInv ==
    /\ pc \in Commands \ {"UpDatabases"} =>
         \A s \in Servers : container[s] # "absent" /\ config[s] = attempt.files
    /\ pc \in AfterUpLms => container["elasticsearch"] # "absent"
    /\ attempt.named => attempt.files = "provision" /\ anonymous = {}

\* The restored database, or one no server can use and nothing was written to.
RestoredOrTorn ==
    disk.mysql.base = "dump" \/ (disk.mysql.base = "torn" /\ disk.mysql.marks = {})

MySQLInv ==
    /\ pc = "RestartMySQL" =>
         /\ RestoredOrTorn
         /\ server["mysql"] = "down" \/ "mysql" \in detached
              \/ (server["mysql"] # "init" /\ disk.mysql.base = "torn")
    /\ Restores => pc # "CreateDbsAndUsers"
    /\ Restores /\ pc \in AfterRestart =>
         "mysql" \notin detached /\ server["mysql"] # "init" /\ RestoredOrTorn

MongoInv ==
    Creates /\ pc \in AfterRestart \ {"ProvisionMongo"} =>
        /\ server["mongo"] = "ready"
        /\ pc \in AfterImport => {"users", "course"} \subseteq open.mongo

AccountInv ==
    /\ pc \notin {"ManageUser", "SetPassword"} => user = 1
    /\ Creates =>
         /\ pc = "ManageUser" =>
              \A a \in Accounts : a < user => disk.mysql.account[a] # "none"
         /\ pc = "SetPassword" =>
              \A a \in Accounts : a <= user => disk.mysql.account[a] # "none"
         /\ pc \in AfterAccounts =>
              \A a \in Accounts : disk.mysql.account[a] # "none"
         /\ pc \in AfterAccounts \cup {"SetPassword"} => disk.mysql.base = "dump"

MarkInv ==
    /\ Creates /\ pc \in AfterCreation => "commerce" \in disk.mysql.marks
    /\ Creates /\ Migrates =>
         /\ pc \in AfterAccounts \cup {"ManageUser", "SetPassword"} =>
              "lmsMigrated" \in disk.mysql.marks
         /\ pc \in AfterServices \cup {"CmsAssets"} => "cmsMigrated" \in disk.mysql.marks

AssetInv ==
    /\ Builds /\ attempt.files = "provision" =>
         /\ pc \in AfterLmsAssets => "lms" \in static
         /\ pc \in AfterServices => "cms" \in static
    /\ pc \in {"UpNginx", "MakeStop"} => disk.elasticsearch = "dump"

MakeInv ==
    /\ attempt.stop => /\ attempt.files = "provision"
                       /\ \E t \in MakeTargets : attempt.env = t.env
    /\ pc \in {"MakeStop", "finished"} => attempt.stop

FinishedInv ==
    pc = "finished" /\ attempt.named => "mysql" \notin detached /\ Delivered(attempt.env)

ScriptInv == MySQLInv /\ MongoInv /\ AccountInv /\ MarkInv /\ AssetInv /\ MakeInv

IInv == TypeOK /\ StoreInv /\ AttemptInv /\ ScriptInv /\ FinishedInv

-----------------------------------------------------------------------------
(* StoreInv is preserved by every step of the stores. *)

LEMMA StartStoresInv ==
    ASSUME TypeOK, StoreInv, NEW S, NEW volumes \in Data, StartStores(S, volumes),
           "mysql" \notin S => volumes.mysql = disk.mysql,
           "mongo" \notin S => volumes.mongo = disk.mongo,
           \A s \in Servers : s \in S \/ container[s] = "running" => container'[s] = "running"
    PROVE  StoreInv'
<1> USE DEF TypeOK, StoreTypeOK
<1>1. "mysql" \notin detached' => open'.mysql = disk'.mysql
  BY DEF StartStores, Chosen, StoreInv, AfterStart, Starting
<1>2. disk'.mongo \subseteq open'.mongo
  BY DEF StartStores, Chosen, StoreInv, AfterStart, Data
<1>3. \A s \in Servers : server'[s] # "down" => container'[s] = "running"
  BY DEF StartStores, StoreInv, Starting
<1>4. server'["mysql"] = "init" => disk'.mysql.base = "torn"
  BY DEF StartStores, StoreInv, AfterStart, Starting, Servers, Data, MySQLData
<1> QED
  BY <1>1, <1>2, <1>3, <1>4 DEF StoreInv

\* What `up` does to the volumes of mysql and mongo.
LEMMA UpVolumes ==
    ASSUME TypeOK, NEW S, NEW files,
           NEW new, new = Fresh(LinkClosure(S), files),
           NEW begun, begun = Begun(LinkClosure(S), files),
           NEW volumes, volumes = Chosen(new, NoData, Flushed(begun))
    PROVE  /\ volumes \in Data
           /\ new \subseteq begun
           /\ "mysql" \notin new => volumes.mysql = disk.mysql
           /\ "elasticsearch" \notin new => volumes.elasticsearch = disk.elasticsearch
           /\ "mongo" \notin new => \/ volumes.mongo = disk.mongo
                                   \/ /\ "mongo" \in begun /\ server["mongo"] = "ready"
                                      /\ volumes.mongo = open.mongo
<1>1. volumes \in Data
  BY FlushedType, ChosenType, NoDataType DEF TypeOK
<1>2. new \subseteq begun
  BY DEF Fresh, Begun, Recreated
<1> QED
  BY <1>1, <1>2 DEF Chosen, Flushed, TypeOK, StoreTypeOK, Data

LEMMA UpInv ==
    ASSUME TypeOK, StoreInv, NEW S, NEW files, Up(S, files)
    PROVE  StoreInv'
<1> DEFINE new == Fresh(LinkClosure(S), files)
           begun == Begun(LinkClosure(S), files)
           volumes == Chosen(new, NoData, Flushed(begun))
<1>1. /\ volumes \in Data
      /\ "mysql" \notin begun => volumes.mysql = disk.mysql
      /\ "mongo" \notin begun => volumes.mongo = disk.mongo
  BY UpVolumes
<1>2. \A s \in Servers : s \in begun \/ container[s] = "running" => container'[s] = "running"
  BY DEF Up, Upped, Begun, Servers, Services
<1>3. StartStores(begun, volumes)
  BY DEF Up
<1> HIDE DEF new, begun, volumes
<1> QED
  BY <1>1, <1>2, <1>3, StartStoresInv

LEMMA StopStoresInv ==
    ASSUME TypeOK, NEW volumes \in Data, StopStores(volumes)
    PROVE  StoreInv'
BY DEF StoreInv, StopStores, Data, Servers

\* The volumes that `down` leaves.
LEMMA DownVolumesType ==
    ASSUME TypeOK
    PROVE  Chosen(anonymous, kept, Flushed(Servers)) \in Data
BY FlushedType, ChosenType DEF TypeOK, ComposeTypeOK

LEMMA ExtractInv ==
    ASSUME TypeOK, StoreInv, NEW s \in {"mysql", "elasticsearch"}, NEW content,
           Extract(s, content), container' = container,
           s = "mysql" /\ server["mysql"] = "init" => content.base = "torn"
    PROVE  StoreInv'
BY DEF StoreInv, Extract, TypeOK, StoreTypeOK, Data, Servers

LEMMA WriteMySQLInv ==
    ASSUME TypeOK, StoreInv, NEW db, WriteMySQL(db), container' = container,
           server["mysql"] # "init" \/ db.base = open.mysql.base
    PROVE  StoreInv'
BY DEF StoreInv, WriteMySQL, TypeOK, StoreTypeOK, Data, Servers

LEMMA WriteMongoInv ==
    ASSUME TypeOK, StoreInv, NEW mark, WriteMongo(mark), container' = container
    PROVE  StoreInv'
BY DEF StoreInv, WriteMongo, TypeOK, StoreTypeOK, Data, Servers

\* Every step keeps StoreInv.
LEMMA StoreInvNext ==
    ASSUME TypeOK, StoreInv, [Next]_vars
    PROVE  StoreInv'
<1>1. CASE UpDatabases \/ UpLms \/ UpStudio \/ UpNginx \/ DevUp
  BY <1>1, UpInv DEF UpDatabases, UpLms, UpStudio, UpNginx, DevUp
<1>2. CASE RestartMySQL
  <2>1. \A s \in Servers : s \in {"mysql"} \/ container[s] = "running"
                             => container'[s] = "running"
    BY <1>2 DEF RestartMySQL, TypeOK, ComposeTypeOK, Servers, Services
  <2>2. disk \in Data
    BY DEF TypeOK, StoreTypeOK
  <2> QED
    BY <1>2, <2>1, <2>2, StartStoresInv DEF RestartMySQL
<1>3. CASE MakeStop \/ Stop \/ Down \/ Destroy
  BY <1>3, StopStoresInv, FlushedType, DownVolumesType, NoDataType
  DEF MakeStop, Stop, Down, Destroy, RemoveAll, TypeOK
<1>4. CASE RestoreDump \/ RestoreSearch
  <2>1. TornMySQL.base = "torn"
    BY DEF TornMySQL, MySQLWith
  <2> QED
    BY <1>4, <2>1, ExtractInv DEF RestoreDump, RestoreSearch, composeVars
<1>5. CASE Abort
  <2>1. container' = container
    BY <1>5 DEF Abort, composeVars
  <2>2. CASE UNCHANGED storeVars
    BY <2>1, <2>2 DEF storeVars, StoreInv
  <2>3. CASE Extract("mysql", TornMySQL) \/ Extract("elasticsearch", "torn")
    BY <2>1, <2>3, ExtractInv DEF TornMySQL, MySQLWith
  <2> QED
    BY <1>5, <2>2, <2>3 DEF Abort
<1>6. CASE CreateDbsAndUsers \/ LmsMigrate \/ ConfigureCommerce \/ CmsMigrate \/ Register
  <2>1. \A mark : [open.mysql EXCEPT !.marks = @ \cup {mark}].base = open.mysql.base
    BY DEF TypeOK, StoreTypeOK, Data, MySQLData
  <2> QED
    BY <1>6, <2>1, WriteMySQLInv
    DEF MarkMySQL, CreateDbsAndUsers, LmsMigrate, ConfigureCommerce, CmsMigrate, Register,
        composeVars
<1>7. CASE ManageUser \/ SetPassword
  <2>1. \A v : [open.mysql EXCEPT !.account[user] = v].base = open.mysql.base
    BY DEF TypeOK, StoreTypeOK, Data, MySQLData
  <2>2. CASE ManageUser
    <3>1. [open.mysql EXCEPT !.account[user] = IF @ = "none" THEN "created" ELSE @].base
            = open.mysql.base
      BY DEF TypeOK, StoreTypeOK, Data, MySQLData
    <3> QED
      BY <2>2, <3>1, WriteMySQLInv DEF ManageUser, composeVars
  <2>3. CASE SetPassword /\ ~ UNCHANGED storeVars
    BY <2>3, <2>1, WriteMySQLInv DEF SetPassword, composeVars
  <2>4. CASE SetPassword /\ UNCHANGED storeVars
    BY <2>4 DEF SetPassword, composeVars, storeVars, StoreInv
  <2> QED
    BY <1>7, <2>2, <2>3, <2>4
<1>8. CASE ProvisionMongo \/ ImportDemo
  BY <1>8, WriteMongoInv DEF ProvisionMongo, ImportDemo, composeVars, storeVars, StoreInv
<1>9. CASE WaitMySQL \/ Sleep20 \/ PrepareLms \/ CloneDemo \/ LmsAssets \/ StudioSyslog
           \/ CmsAssets \/ (\E a \in Attempts : Start(a)) \/ UNCHANGED vars
  BY <1>9 DEF WaitMySQL, Sleep20, PrepareLms, CloneDemo, LmsAssets, StudioSyslog, CmsAssets,
      Start, vars, composeVars, storeVars, StoreInv
<1>10. CASE HostCrash
  BY <1>10 DEF HostCrash, StoreInv, Servers, TypeOK, StoreTypeOK, Data
<1>11. CASE MySQLInitialised
  BY <1>11 DEF MySQLInitialised, composeVars, StoreInv, TypeOK, StoreTypeOK, Data, Servers
<1>12. CASE MySQLDies
  BY <1>12 DEF MySQLDies, StoreInv, TypeOK, StoreTypeOK, ComposeTypeOK, Data, Servers
<1>13. CASE MongoCheckpoint \/ \E s \in Servers : ServerReady(s)
  BY <1>13 DEF MongoCheckpoint, ServerReady, composeVars, StoreInv, TypeOK, StoreTypeOK,
      Data, Servers
<1> QED
  BY <1>1, <1>2, <1>3, <1>4, <1>5, <1>6, <1>7, <1>8, <1>9, <1>10, <1>11, <1>12, <1>13
  DEF Next, Script, Operator, StoreStep

-----------------------------------------------------------------------------
(* Which steps there are, and AttemptInv. *)

\* Commands of the script that leave containers and clone alone.
LEMMA QuietCompose ==
    ASSUME Script
    PROVE  \/ UpDatabases \/ UpLms \/ UpStudio \/ UpNginx
           \/ RestartMySQL \/ CloneDemo \/ MakeStop
           \/ UNCHANGED composeVars
BY DEF Script, WaitMySQL, Sleep20, RestoreDump, CreateDbsAndUsers, ProvisionMongo, PrepareLms,
       LmsMigrate, ManageUser, SetPassword, ImportDemo, ConfigureCommerce, LmsAssets,
       StudioSyslog, CmsMigrate, CmsAssets, RestoreSearch

\* Where the steps of the script lead.
LEMMA ScriptTable ==
    ASSUME Script
    PROVE  \/ pc = "UpDatabases" /\ pc' = "WaitMySQL"
           \/ pc = "WaitMySQL" /\ pc' = "Sleep20"
           \/ pc = "Sleep20" /\ pc' = AfterSleep(attempt.env)
           \/ RestoreDump /\ pc = "RestoreDump" /\ pc' = "RestartMySQL"
           \/ pc = "RestartMySQL" /\ pc' = "ProvisionMongo"
           \/ pc = "CreateDbsAndUsers" /\ pc' = "ProvisionMongo"
           \/ pc = "ProvisionMongo" /\ pc' = "UpLms"
           \/ UpLms /\ pc = "UpLms" /\ pc' = "PrepareLms"
           \/ pc = "PrepareLms" /\ pc' = AfterPrepareLms(attempt.env)
           \/ pc = "LmsMigrate" /\ pc' = AfterLmsMigrate(attempt.env)
           \/ pc = "ManageUser" /\ pc' = "SetPassword"
           \/ pc = "SetPassword" /\ pc' \in {"ManageUser", "CloneDemo"}
           \/ pc = "CloneDemo" /\ pc' = "ImportDemo" /\ ~ clone
           \/ ImportDemo /\ pc = "ImportDemo" /\ pc' = "ConfigureCommerce"
           \/ pc = "ConfigureCommerce" /\ pc' = AfterCommerce(attempt.env)
           \/ pc = "LmsAssets" /\ pc' = "UpStudio"
           \/ pc = "UpStudio" /\ pc' = "StudioSyslog"
           \/ pc = "StudioSyslog" /\ pc' = AfterStudioSyslog(attempt.env)
           \/ pc = "CmsMigrate" /\ pc' = AfterCmsMigrate(attempt.env)
           \/ pc = "CmsAssets" /\ pc' = "RestoreSearch"
           \/ RestoreSearch /\ pc = "RestoreSearch" /\ pc' = "UpNginx"
           \/ pc = "UpNginx" /\ pc' \in {"MakeStop", "done"}
           \/ MakeStop /\ pc = "MakeStop" /\ pc' = "finished"
<1>1. CASE UpDatabases \/ WaitMySQL \/ Sleep20 \/ RestoreDump \/ RestartMySQL
           \/ CreateDbsAndUsers \/ ProvisionMongo
  BY <1>1 DEF UpDatabases, WaitMySQL, Sleep20, RestoreDump, RestartMySQL, CreateDbsAndUsers,
      ProvisionMongo, Run
<1>2. CASE UpLms \/ PrepareLms \/ LmsMigrate \/ ManageUser \/ SetPassword
           \/ ImportDemo \/ ConfigureCommerce \/ LmsAssets
  BY <1>2 DEF UpLms, PrepareLms, LmsMigrate, ManageUser, SetPassword, ImportDemo,
      ConfigureCommerce, LmsAssets, Run
<1>3. CASE CloneDemo
  BY <1>3 DEF CloneDemo, Run, CanRun, CloneRefused
<1>4. CASE UpStudio \/ StudioSyslog \/ CmsMigrate \/ CmsAssets \/ RestoreSearch \/ UpNginx
           \/ MakeStop
  BY <1>4 DEF UpStudio, StudioSyslog, CmsMigrate, CmsAssets, RestoreSearch, UpNginx, MakeStop, Run
<1> QED
  BY <1>1, <1>2, <1>3, <1>4 DEF Script

\* What they add to the attempt's history.
LEMMA ScriptHistory ==
    ASSUME TypeOK, Script
    PROVE  /\ attempt'.env = attempt.env /\ attempt'.foundClone = attempt.foundClone
           /\ attempt'.files = attempt.files /\ attempt'.stop = attempt.stop
           /\ attempt'.named = attempt.named
           /\ attempt.restored => attempt'.restored
           /\ RestoreDump => attempt'.restored
           /\ pc # "ImportDemo" => attempt'.imported = attempt.imported
<1>1. CASE RestoreDump
  BY <1>1 DEF RestoreDump, Run, TypeOK, ScriptTypeOK, Histories
<1>2. CASE ImportDemo
  <2>1. ~ RestoreDump
    BY <1>2 DEF ImportDemo, RestoreDump, Run
  <2> QED
    BY <1>2, <2>1 DEF ImportDemo, Run, TypeOK, ScriptTypeOK, Histories
<1>3. CASE ~ RestoreDump /\ ~ ImportDemo
  <2>1. UNCHANGED attempt
    BY <1>3 DEF Script, UpDatabases, WaitMySQL, Sleep20, RestartMySQL, CreateDbsAndUsers,
        ProvisionMongo, UpLms, PrepareLms, LmsMigrate, ManageUser, SetPassword, CloneDemo,
        ConfigureCommerce, LmsAssets, UpStudio, StudioSyslog, CmsMigrate, CmsAssets,
        RestoreSearch, UpNginx, MakeStop
  <2> QED
    BY <1>3, <2>1
<1> QED
  BY <1>1, <1>2, <1>3

\* The kinds of step.  Servers, learners and stuttering leave the attempt alone.
Background ==
    /\ StoreStep \/ Register \/ UNCHANGED vars
    /\ UNCHANGED <<pc, attempt, config, clone, anonymous, kept>>

LEMMA Steps ==
    ASSUME [Next]_vars
    PROVE  Script \/ (\E a \in Attempts : Start(a)) \/ Operator \/ Abort \/ HostCrash \/ Background
BY DEF Next, Background, StoreStep, Register, MySQLInitialised, MySQLDies, MongoCheckpoint,
       ServerReady, scriptVars, composeVars, vars

\* Where the steps that are not the script's lead.
LEMMA OtherPc ==
    /\ Operator => pc \in Resting /\ pc' \in {pc, "idle"} /\ attempt' = attempt
    /\ Abort => pc' = "aborted" /\ attempt' = attempt /\ UNCHANGED composeVars
    /\ HostCrash => /\ pc' = IF pc \in Commands THEN "aborted" ELSE pc
                    /\ UNCHANGED <<attempt, config, clone, anonymous, kept>>
BY DEF Operator, Stop, Down, Destroy, DevUp, Abort, HostCrash, scriptVars

LEMMA Disjoint == pc \in Resting => pc \notin Commands
BY DEF Resting, Commands

LEMMA LmsBringsSearch ==
    "elasticsearch" \in LinkClosure({"lms"}) /\ "lms" \in LinkClosure({"lms"})
<1>1. "elasticsearch" \in Links["lms"]
  BY DEF Links, Services
<1> QED
  BY <1>1 DEF LinkClosure, WithLinked

\* The containers after `up`.
LEMMA UpContainers ==
    ASSUME TypeOK, NEW S, NEW files, Up(S, files)
    PROVE  /\ \A s \in Services : container[s] # "absent" => container'[s] # "absent"
           /\ \A s \in Services : s \in S => container'[s] # "absent"
           /\ S = {"lms"} => container'["elasticsearch"] # "absent"
           /\ \A s \in Services : s \in S \/ config[s] = Definition(s, files) =>
                config'[s] = Definition(s, files)
           /\ files # "plain" => anonymous' = anonymous
           /\ \A s \in anonymous' : s \in anonymous \/ container'[s] # "absent"
           /\ clone' => clone
           /\ clone /\ ~ Recreated("lms", container, config, files) => clone'
<1>1. S \subseteq LinkClosure(S)
  BY DEF LinkClosure, WithLinked
<1>2. "elasticsearch" \in Services
  BY DEF Services
<1>3. /\ \A s \in Services : container[s] # "absent" => container'[s] # "absent"
      /\ \A s \in Services : s \in LinkClosure(S) => container'[s] # "absent"
  BY DEF Up, Upped
<1>4. \A s \in Services : s \in S \/ config[s] = Definition(s, files) =>
                config'[s] = Definition(s, files)
  BY <1>1 DEF Up, UppedConfig
<1>5. /\ files # "plain" => anonymous' = anonymous
      /\ \A s \in anonymous' : s \in anonymous \/ container'[s] # "absent"
  <2>1. Stores \subseteq Services
    BY DEF Stores, Services
  <2> QED
    BY <1>3, <2>1 DEF Up, Fresh
<1>6. /\ clone' => clone
      /\ clone /\ ~ Recreated("lms", container, config, files) => clone'
  BY DEF Up, Recreated
<1> QED
  BY <1>1, <1>2, <1>3, <1>4, <1>5, <1>6, LmsBringsSearch

\* How each step of the script changes containers.
LEMMA ScriptContainers ==
    ASSUME TypeOK, Script
    PROVE  /\ \A s \in Services : container[s] # "absent" => container'[s] # "absent"
           /\ \A s \in Services : config[s] = Definition(s, attempt.files) =>
                config'[s] = Definition(s, attempt.files)
           /\ UpDatabases => \A s \in Servers : /\ container'[s] # "absent"
                                               /\ config'[s] = Definition(s, attempt.files)
           /\ UpLms => container'["elasticsearch"] # "absent"
           /\ attempt.files # "plain" => anonymous' = anonymous
<1>1. CASE UpDatabases \/ UpLms \/ UpStudio \/ UpNginx
  <2>1. PICK S : /\ Up(S, attempt.files)
                 /\ UpDatabases => S = {"mysql", "mongo"}
                 /\ UpLms => S = {"lms"}
    BY <1>1 DEF UpDatabases, UpLms, UpStudio, UpNginx, Run
  <2>2. Servers \subseteq Services
    BY DEF Servers, Services
  <2>3. UpDatabases => \A s \in Servers : s \in Services /\ s \in S
    BY <2>1, <2>2 DEF Servers
  <2> QED
    BY <2>1, <2>3, UpContainers
<1>2. CASE RestartMySQL
  BY <1>2 DEF RestartMySQL, Run, UpDatabases, UpLms, TypeOK, ComposeTypeOK
<1>3. CASE CloneDemo \/ MakeStop
  BY <1>3 DEF CloneDemo, MakeStop, Stopped, Run, UpDatabases, UpLms
<1>4. CASE UNCHANGED composeVars /\ ~ UpDatabases /\ ~ UpLms
  BY <1>4 DEF composeVars
<1> QED
  BY <1>1, <1>2, <1>3, <1>4, QuietCompose

LEMMA AttemptNext ==
    ASSUME TypeOK, AttemptInv, [Next]_vars
    PROVE  AttemptInv'
<1>1. CASE Script
  <2>1. attempt'.files = attempt.files /\ attempt'.named = attempt.named
    BY <1>1, ScriptHistory
  <2>2. attempt.files \in {"plain", "provision"}
    BY DEF TypeOK, ScriptTypeOK, Histories
  <2>3. \A s \in Servers : s \in Services /\ Definition(s, attempt.files) = attempt.files
    BY <2>2 DEF Servers, Services, Definition
  <2>4. ASSUME pc' \in Commands \ {"UpDatabases"}, NEW s \in Servers
        PROVE  container'[s] # "absent" /\ config'[s] = attempt'.files
    <3>1. CASE pc = "UpDatabases"
      <4>1. UpDatabases
        BY <1>1, <3>1 DEF Script, WaitMySQL, Sleep20, RestoreDump, RestartMySQL,
           CreateDbsAndUsers, ProvisionMongo, UpLms, PrepareLms, LmsMigrate, ManageUser,
           SetPassword, CloneDemo, ImportDemo, ConfigureCommerce, LmsAssets, UpStudio,
           StudioSyslog, CmsMigrate, CmsAssets, RestoreSearch, UpNginx, MakeStop, Run
      <4> QED
        BY <1>1, <2>1, <2>3, <4>1, ScriptContainers
    <3>2. CASE pc # "UpDatabases"
      <4>1. pc \in Commands \ {"UpDatabases"}
        BY <1>1, <3>2, ScriptTable DEF Commands
      <4> QED
        BY <1>1, <2>1, <2>3, <4>1, ScriptContainers DEF AttemptInv
    <3> QED
      BY <3>1, <3>2
  <2>5. pc' \in AfterUpLms => container'["elasticsearch"] # "absent"
    <3>1. pc' \in AfterUpLms => pc \in AfterUpLms \/ UpLms
      BY <1>1, ScriptTable, NextCommands
      DEF Creation, AfterUpLms, AfterCreation, AfterLmsAssets, AfterServices
    <3>2. "elasticsearch" \in Services
      BY DEF Services
    <3> QED
      BY <1>1, <3>1, <3>2, ScriptContainers DEF AttemptInv
  <2> QED
    BY <1>1, <2>1, <2>4, <2>5, ScriptContainers DEF AttemptInv
<1>2. CASE \E a \in Attempts : Start(a)
  <2>1. UNCHANGED composeVars /\ pc' = "UpDatabases"
        /\ attempt'.named = (attempt'.files = "provision" /\ anonymous = {})
    BY <1>2 DEF Start
  <2> QED
    BY <2>1 DEF AttemptInv, composeVars, AfterUpLms, Creation, AfterCreation, AfterLmsAssets,
        AfterServices
<1>3. CASE Operator \/ Abort \/ HostCrash
  <2>1. pc' \in Resting
    BY <1>3, OtherPc DEF TypeOK, ScriptTypeOK, Resting
  <2>2. pc' \notin Commands /\ pc' \notin AfterUpLms
    BY <2>1 DEF Resting, Commands, AfterUpLms, Creation, AfterCreation, AfterLmsAssets,
        AfterServices
  <2>3. attempt' = attempt
    BY <1>3, OtherPc
  <2>4. anonymous' \in {anonymous, {}}
    <3>1. DevUp => anonymous' = anonymous
      BY UpContainers DEF DevUp
    <3> QED
      BY <1>3, <3>1, OtherPc DEF Operator, Stop, Down, Destroy, RemoveAll, composeVars
  <2> QED
    BY <2>2, <2>3, <2>4 DEF AttemptInv
<1>4. CASE Background
  <2>1. \A s \in Services : container[s] # "absent" => container'[s] # "absent"
    BY <1>4
    DEF Background, StoreStep, Register, MySQLInitialised, MySQLDies, MongoCheckpoint, ServerReady,
        composeVars, vars, TypeOK, ComposeTypeOK
  <2>2. Servers \subseteq Services /\ "elasticsearch" \in Services
    BY DEF Servers, Services
  <2> QED
    BY <1>4, <2>1, <2>2 DEF Background, AttemptInv
<1> QED
  BY <1>1, <1>2, <1>3, <1>4, Steps

-----------------------------------------------------------------------------
(* What the steps do to the stores and the flags, in the words of ScriptInv. *)

LEMMA FlagsLead ==
    /\ Creates => Restores
    /\ Restores => AfterSleep(attempt.env) = "RestoreDump"
    /\ Migrates => /\ AfterPrepareLms(attempt.env) = "LmsMigrate"
                   /\ AfterStudioSyslog(attempt.env) = "CmsMigrate"
    /\ Creates => AfterLmsMigrate(attempt.env) = "ManageUser"
    /\ Creates /\ ~ Migrates => AfterPrepareLms(attempt.env) = "ManageUser"
    /\ Builds => /\ AfterCommerce(attempt.env) = "LmsAssets"
                 /\ AfterCmsMigrate(attempt.env) = "CmsAssets"
    /\ Builds => /\ AfterPrepareLms(attempt.env) # "UpStudio"
                 /\ AfterLmsMigrate(attempt.env) # "UpStudio"
                 /\ AfterStudioSyslog(attempt.env) # "RestoreSearch"
BY DEF Creates, Restores, Migrates, Builds, Inherited, AfterSleep, AfterPrepareLms,
       AfterStudioSyslog, AfterLmsMigrate, AfterCommerce, AfterCmsMigrate

LEMMA SameFlags ==
    ASSUME attempt'.env = attempt.env
    PROVE  Restores' = Restores /\ Creates' = Creates /\ Migrates' = Migrates
           /\ Builds' = Builds
BY DEF Restores, Creates, Migrates, Builds, Inherited, Own

\* What `up` does to the stores that are not given a new volume.
LEMMA UpEffect ==
    ASSUME TypeOK, StoreInv, NEW S, NEW files, Up(S, files),
           NEW new, new = Fresh(LinkClosure(S), files)
    PROVE  /\ "mysql" \notin new =>
                /\ disk.mysql.base # "none" =>
                     /\ disk'.mysql = disk.mysql
                     /\ server["mysql"] # "init" => server'["mysql"] # "init"
                /\ disk'.mysql.marks = disk.mysql.marks
                /\ disk'.mysql.account = disk.mysql.account
           /\ "mongo" \notin new => disk.mongo \subseteq disk'.mongo
           /\ "elasticsearch" \notin new => disk'.elasticsearch = disk.elasticsearch
           /\ server["mongo"] = "ready" /\ ~ Recreated("mongo", container, config, files) =>
                server'["mongo"] = "ready" /\ open'.mongo = open.mongo
           /\ detached' \subseteq detached
<1> DEFINE begun == Begun(LinkClosure(S), files)
           volumes == Chosen(new, NoData, Flushed(begun))
<1>1. StartStores(begun, volumes)
  BY DEF Up
<1>2. /\ volumes \in Data
      /\ "mysql" \notin new => volumes.mysql = disk.mysql
      /\ "elasticsearch" \notin new => volumes.elasticsearch = disk.elasticsearch
      /\ "mongo" \notin new => disk.mongo \subseteq volumes.mongo
  BY UpVolumes DEF StoreInv
<1>3. server["mongo"] = "ready" /\ ~ Recreated("mongo", container, config, files) =>
        "mongo" \notin begun
  BY DEF StoreInv, Begun, Servers
<1> HIDE DEF begun, volumes
<1>4. /\ disk' \in Data
      /\ volumes.mysql.base # "none" => disk'.mysql = volumes.mysql
      /\ disk'.mysql.marks = volumes.mysql.marks
      /\ disk'.mysql.account = volumes.mysql.account
      /\ disk'.mongo = volumes.mongo
      /\ disk'.elasticsearch = volumes.elasticsearch
  BY <1>1, <1>2 DEF StartStores, AfterStart, Starting, Data, MySQLData
<1>5. /\ volumes.mysql.base # "none" /\ server["mysql"] # "init" => server'["mysql"] # "init"
      /\ "mongo" \notin begun => server'["mongo"] = server["mongo"] /\ open'.mongo = open.mongo
      /\ detached' \subseteq detached
  BY <1>1 DEF StartStores, Starting, Servers, Chosen
<1> QED
  BY <1>2, <1>3, <1>4, <1>5

LEMMA MarkEffect ==
    ASSUME TypeOK, StoreInv, NEW mark, MarkMySQL(mark)
    PROVE  /\ "mysql" \notin detached =>
                disk'.mysql = [disk.mysql EXCEPT !.marks = @ \cup {mark}]
           /\ "mysql" \in detached => disk' = disk
           /\ disk'.mongo = disk.mongo
           /\ disk'.elasticsearch = disk.elasticsearch
           /\ open'.mongo = open.mongo
           /\ UNCHANGED <<server, detached>>
BY DEF MarkMySQL, WriteMySQL, StoreInv, TypeOK, StoreTypeOK, Data

LEMMA AccountEffect ==
    ASSUME IInv, ManageUser \/ SetPassword, Restores
    PROVE  /\ UNCHANGED <<server, detached>>
           /\ disk'.mysql.base = disk.mysql.base
           /\ disk'.mysql.marks = disk.mysql.marks
           /\ \A a \in Accounts : disk.mysql.account[a] # "none" =>
                                    disk'.mysql.account[a] # "none"
           /\ ManageUser => disk'.mysql.account[user] # "none"
           /\ disk'.mongo = disk.mongo
           /\ disk'.elasticsearch = disk.elasticsearch
           /\ open'.mongo = open.mongo
<1>1. "mysql" \notin detached /\ open.mysql = disk.mysql
  BY DEF IInv, ScriptInv, MySQLInv, StoreInv, AfterRestart, Commands, ManageUser,
         SetPassword, Run
<1>2. disk \in Data /\ open \in Data /\ user \in Accounts
  BY DEF IInv, TypeOK, StoreTypeOK, ScriptTypeOK
<1>3. CASE ManageUser
  BY <1>1, <1>2, <1>3 DEF ManageUser, WriteMySQL, Data, MySQLData
<1>4. CASE SetPassword
  <2>1. ~ ManageUser
    BY <1>4 DEF ManageUser, SetPassword, Run
  <2> QED
    BY <1>1, <1>2, <1>4, <2>1 DEF SetPassword, WriteMySQL, storeVars, Data, MySQLData
<1> QED
  BY <1>3, <1>4

LEMMA MongoEffect ==
    ASSUME TypeOK, NEW mark, WriteMongo(mark)
    PROVE  open'.mongo = open.mongo \cup {mark} /\ UNCHANGED <<server, disk, detached>>
BY DEF WriteMongo, TypeOK, StoreTypeOK, Data

-----------------------------------------------------------------------------
(* ScriptInv and FinishedInv are preserved by the script. *)

LEMMA QuietInv ==
    ASSUME IInv, WaitMySQL \/ Sleep20 \/ PrepareLms \/ StudioSyslog
    PROVE  ScriptInv' /\ FinishedInv'
<1>1. UNCHANGED <<user, attempt, static, server, disk, open, detached>>
  BY DEF WaitMySQL, Sleep20, PrepareLms, StudioSyslog, storeVars
<1>2. Restores' = Restores /\ Creates' = Creates /\ Migrates' = Migrates /\ Builds' = Builds
  BY <1>1, SameFlags
<1>3. \/ pc = "WaitMySQL" /\ pc' = "Sleep20"
      \/ pc = "Sleep20" /\ pc' = AfterSleep(attempt.env)
      \/ pc = "PrepareLms" /\ pc' = AfterPrepareLms(attempt.env)
      \/ pc = "StudioSyslog" /\ pc' = AfterStudioSyslog(attempt.env)
  BY DEF WaitMySQL, Sleep20, PrepareLms, StudioSyslog, Run
<1> USE NextCommands, FlagsLead
    DEF IInv, ScriptInv, AfterRestart, Commands, AfterServices, AfterLmsAssets,
        AfterCreation, AfterImport, AfterAccounts
<1>4. MySQLInv'
  BY <1>1, <1>2, <1>3 DEF MySQLInv, RestoredOrTorn
<1>5. MongoInv'
  BY <1>1, <1>2, <1>3 DEF MongoInv
<1>6. AccountInv'
  BY <1>1, <1>2, <1>3, ConstantsAssumption DEF AccountInv, Accounts
<1>7. MarkInv'
  BY <1>1, <1>2, <1>3 DEF MarkInv
<1>8. AssetInv'
  BY <1>1, <1>2, <1>3 DEF AssetInv
<1>9. MakeInv' /\ FinishedInv'
  BY <1>1, <1>3 DEF MakeInv, FinishedInv
<1> QED
  BY <1>4, <1>5, <1>6, <1>7, <1>8, <1>9

\* Once the databases are up, `up` neither replaces them nor gives them, or once
\* lms is up the search engine, another volume.
LEMMA LaterUps ==
    ASSUME IInv, UpLms \/ UpStudio \/ UpNginx
    PROVE  /\ disk.mysql.base # "none" =>
                disk'.mysql = disk.mysql /\ (server["mysql"] # "init" => server'["mysql"] # "init")
           /\ disk'.mysql.marks = disk.mysql.marks
           /\ disk'.mysql.account = disk.mysql.account
           /\ pc # "UpLms" => disk'.elasticsearch = disk.elasticsearch
           /\ server["mongo"] = "ready" => server'["mongo"] = "ready" /\ open'.mongo = open.mongo
           /\ detached' \subseteq detached
<1>1. PICK S : Up(S, attempt.files)
  BY DEF UpLms, UpStudio, UpNginx
<1>2. pc \in Commands \ {"UpDatabases"} /\ (pc # "UpLms" => pc \in AfterUpLms)
  BY DEF UpLms, UpStudio, UpNginx, Run, Commands, AfterUpLms, AfterCreation, AfterLmsAssets,
         AfterServices
<1>3. /\ \A s \in Servers : container[s] # "absent" /\ config[s] = attempt.files
      /\ pc # "UpLms" => container["elasticsearch"] # "absent"
  BY <1>2 DEF IInv, AttemptInv
<1>4. attempt.files \in {"plain", "provision"}
  BY DEF IInv, TypeOK, ScriptTypeOK, Histories
<1> DEFINE new == Fresh(LinkClosure(S), attempt.files)
<1>5. "mysql" \notin new /\ "mongo" \notin new /\ (pc # "UpLms" => "elasticsearch" \notin new)
  BY <1>3 DEF Fresh, Servers
<1>6. ~ Recreated("mongo", container, config, attempt.files)
  BY <1>3, <1>4 DEF Recreated, Definition, Servers
<1> HIDE DEF new
<1> QED
  BY <1>1, <1>5, <1>6, UpEffect DEF IInv, new

LEMMA UpsInv ==
    ASSUME IInv, UpDatabases \/ UpLms \/ UpStudio \/ UpNginx
    PROVE  ScriptInv' /\ FinishedInv'
<1>1. UNCHANGED <<user, attempt, static>>
  BY DEF UpDatabases, UpLms, UpStudio, UpNginx
<1>2. Restores' = Restores /\ Creates' = Creates /\ Migrates' = Migrates /\ Builds' = Builds
  BY <1>1, SameFlags
<1>3. \/ pc = "UpDatabases" /\ pc' = "WaitMySQL"
      \/ (UpLms \/ UpStudio \/ UpNginx) /\
           \/ pc = "UpLms" /\ pc' = "PrepareLms"
           \/ pc = "UpStudio" /\ pc' = "StudioSyslog"
           \/ pc = "UpNginx" /\ pc' = IF attempt.stop THEN "MakeStop" ELSE "done"
  BY DEF UpDatabases, UpLms, UpStudio, UpNginx, Run
<1>4. pc # "UpDatabases" =>
      /\ disk.mysql.base # "none" =>
           disk'.mysql = disk.mysql /\ (server["mysql"] # "init" => server'["mysql"] # "init")
      /\ disk'.mysql.marks = disk.mysql.marks
      /\ disk'.mysql.account = disk.mysql.account
      /\ pc # "UpLms" => disk'.elasticsearch = disk.elasticsearch
      /\ server["mongo"] = "ready" => server'["mongo"] = "ready" /\ open'.mongo = open.mongo
      /\ detached' \subseteq detached
  BY <1>3, LaterUps
<1> USE DEF IInv, ScriptInv, AfterRestart, Commands, AfterServices, AfterLmsAssets,
        AfterCreation, AfterImport, AfterAccounts
<1>5. MySQLInv'
  BY <1>1, <1>2, <1>3, <1>4 DEF MySQLInv, RestoredOrTorn
<1>6. MongoInv'
  BY <1>1, <1>2, <1>3, <1>4 DEF MongoInv
<1>7. AccountInv'
  BY <1>1, <1>2, <1>3, <1>4, FlagsLead DEF AccountInv
<1>8. MarkInv'
  BY <1>1, <1>2, <1>3, <1>4 DEF MarkInv
<1>9. AssetInv'
  BY <1>1, <1>2, <1>3, <1>4 DEF AssetInv
<1>10. MakeInv' /\ FinishedInv'
  BY <1>1, <1>3 DEF MakeInv, FinishedInv
<1> QED
  BY <1>5, <1>6, <1>7, <1>8, <1>9, <1>10

LEMMA MarksInv ==
    ASSUME IInv, CreateDbsAndUsers \/ LmsMigrate \/ ConfigureCommerce \/ CmsMigrate
    PROVE  ScriptInv' /\ FinishedInv'
<1>1. UNCHANGED <<user, attempt, static>>
  BY DEF CreateDbsAndUsers, LmsMigrate, ConfigureCommerce, CmsMigrate
<1>2. Restores' = Restores /\ Creates' = Creates /\ Migrates' = Migrates /\ Builds' = Builds
  BY <1>1, SameFlags
<1>3. PICK mark \in {"databases", "lmsMigrated", "commerce", "cmsMigrated"} :
        /\ MarkMySQL(mark)
        /\ \/ pc = "CreateDbsAndUsers" /\ pc' = "ProvisionMongo"
           \/ /\ pc = "LmsMigrate" /\ mark = "lmsMigrated"
              /\ pc' = AfterLmsMigrate(attempt.env) /\ HasDatabases(open.mysql)
           \/ /\ pc = "ConfigureCommerce" /\ mark = "commerce"
              /\ pc' = AfterCommerce(attempt.env) /\ HasTables(open.mysql)
           \/ /\ pc = "CmsMigrate" /\ mark = "cmsMigrated"
              /\ pc' = AfterCmsMigrate(attempt.env) /\ HasDatabases(open.mysql)
  BY DEF CreateDbsAndUsers, LmsMigrate, ConfigureCommerce, CmsMigrate, Run, CanRun
<1>4. /\ "mysql" \notin detached =>
           disk'.mysql = [disk.mysql EXCEPT !.marks = @ \cup {mark}]
      /\ disk'.elasticsearch = disk.elasticsearch
      /\ open'.mongo = open.mongo
      /\ UNCHANGED <<server, detached>>
  BY <1>3, MarkEffect DEF IInv
<1> USE NextCommands, FlagsLead
    DEF IInv, ScriptInv, AfterRestart, Commands, AfterServices, AfterLmsAssets,
        AfterCreation, AfterImport, AfterAccounts
<1>5. Restores => "mysql" \notin detached /\ open.mysql = disk.mysql
  BY <1>3 DEF MySQLInv, StoreInv
<1>6. disk.mysql \in MySQLData
  BY DEF TypeOK, StoreTypeOK, Data
<1>7. /\ Restores => /\ disk'.mysql.base = disk.mysql.base
                     /\ disk'.mysql.account = disk.mysql.account
                     /\ disk'.mysql.marks = disk.mysql.marks \cup {mark}
      /\ Restores => disk.mysql.base = "dump"
  <2>1. Restores => disk.mysql.base = "dump"
    BY <1>3, <1>5, <1>6 DEF MySQLInv, RestoredOrTorn, HasDatabases, HasTables
  <2> QED
    BY <2>1, <1>4, <1>5, <1>6 DEF MySQLData
<1>8. MySQLInv'
  BY <1>2, <1>3, <1>4, <1>5, <1>7 DEF MySQLInv, RestoredOrTorn
<1>9. MongoInv'
  BY <1>2, <1>3, <1>4 DEF MongoInv
<1>10. AccountInv'
  BY <1>1, <1>2, <1>3, <1>7, ConstantsAssumption DEF AccountInv, Accounts
<1>11. MarkInv'
  BY <1>2, <1>3, <1>7 DEF MarkInv
<1>12. AssetInv'
  BY <1>1, <1>2, <1>3, <1>4 DEF AssetInv
<1>13. MakeInv' /\ FinishedInv'
  BY <1>1, <1>3 DEF MakeInv, FinishedInv
<1> QED
  BY <1>8, <1>9, <1>10, <1>11, <1>12, <1>13

LEMMA AccountsInv ==
    ASSUME IInv, ManageUser \/ SetPassword
    PROVE  ScriptInv' /\ FinishedInv'
<1>1. UNCHANGED <<attempt, static>>
  BY DEF ManageUser, SetPassword
<1>2. Restores' = Restores /\ Creates' = Creates /\ Migrates' = Migrates /\ Builds' = Builds
  BY <1>1, SameFlags
<1>3. \/ pc = "ManageUser" /\ pc' = "SetPassword" /\ user' = user /\ ManageUser
      \/ /\ pc = "SetPassword" /\ user' = NextUser(user)
         /\ pc' = IF user < NAccounts THEN "ManageUser" ELSE "CloneDemo"
  BY DEF ManageUser, SetPassword, Run
<1>4. user \in Accounts
  BY DEF IInv, TypeOK, ScriptTypeOK
<1>5. /\ Restores /\ pc = "ManageUser" => disk.mysql.base = "dump"
      /\ Creates => Restores
  <2>1. SUFFICES ASSUME Restores, pc = "ManageUser" PROVE disk.mysql.base = "dump"
    BY FlagsLead
  <2>2. HasTables(open.mysql) /\ open.mysql = disk.mysql /\ RestoredOrTorn
    BY <1>3, <2>1
    DEF IInv, ScriptInv, MySQLInv, StoreInv, AfterRestart, Commands, ManageUser, Run, CanRun
  <2> QED
    BY <2>2 DEF HasTables, RestoredOrTorn
<1>6. Restores => /\ UNCHANGED <<server, detached>>
                  /\ disk'.mysql.base = disk.mysql.base
                  /\ disk'.mysql.marks = disk.mysql.marks
                  /\ \A a \in Accounts : disk.mysql.account[a] # "none" =>
                                           disk'.mysql.account[a] # "none"
                  /\ ManageUser => disk'.mysql.account[user] # "none"
                  /\ open'.mongo = open.mongo
  BY AccountEffect
<1> USE DEF IInv, ScriptInv, AfterRestart, Commands, AfterServices, AfterLmsAssets,
        AfterCreation, AfterImport, AfterAccounts
<1>7. MySQLInv'
  BY <1>2, <1>3, <1>6 DEF MySQLInv, RestoredOrTorn
<1>8. MongoInv'
  BY <1>2, <1>3, <1>5, <1>6 DEF MongoInv
<1>9. AccountInv'
  <2>1. pc' \notin {"ManageUser", "SetPassword"} => user' = 1
    BY <1>3 DEF NextUser
  <2>2. Creates /\ pc' = "SetPassword" =>
           \A a \in Accounts : a <= user' => disk'.mysql.account[a] # "none"
    BY <1>3, <1>4, <1>5, <1>6, ConstantsAssumption DEF AccountInv, Accounts
  <2>3. Creates /\ pc' = "ManageUser" =>
           \A a \in Accounts : a < user' => disk'.mysql.account[a] # "none"
    BY <1>3, <1>4, <1>5, <1>6, ConstantsAssumption DEF AccountInv, Accounts, NextUser
  <2>4. Creates /\ pc' \in AfterAccounts =>
           \A a \in Accounts : disk'.mysql.account[a] # "none"
    BY <1>3, <1>4, <1>5, <1>6, ConstantsAssumption DEF AccountInv, Accounts
  <2>5. Creates /\ pc' \in AfterAccounts \cup {"SetPassword"} => disk'.mysql.base = "dump"
    BY <1>3, <1>5, <1>6 DEF AccountInv
  <2> QED
    BY <1>2, <2>1, <2>2, <2>3, <2>4, <2>5 DEF AccountInv
<1>10. MarkInv'
  BY <1>2, <1>3, <1>5, <1>6 DEF MarkInv
<1>11. AssetInv'
  BY <1>1, <1>2, <1>3 DEF AssetInv
<1>12. MakeInv' /\ FinishedInv'
  BY <1>1, <1>3 DEF MakeInv, FinishedInv
<1> QED
  BY <1>7, <1>8, <1>9, <1>10, <1>11, <1>12

LEMMA MongosInv ==
    ASSUME IInv, ProvisionMongo \/ ImportDemo
    PROVE  ScriptInv' /\ FinishedInv'
<1>1. /\ UNCHANGED <<user, static>>
      /\ attempt'.env = attempt.env /\ attempt'.files = attempt.files
      /\ attempt'.stop = attempt.stop /\ attempt'.named = attempt.named
  BY DEF ProvisionMongo, ImportDemo, IInv, TypeOK, ScriptTypeOK, Histories
<1>2. Restores' = Restores /\ Creates' = Creates /\ Migrates' = Migrates /\ Builds' = Builds
  BY <1>1, SameFlags
<1>3. /\ server["mongo"] = "ready"
      /\ \/ pc = "ProvisionMongo" /\ pc' = "UpLms" /\ (WriteMongo("users") \/ UNCHANGED storeVars)
         \/ pc = "ImportDemo" /\ pc' = "ConfigureCommerce" /\ WriteMongo("course")
              /\ "users" \in open.mongo
  BY DEF ProvisionMongo, ImportDemo, Run, CanRun
<1>4. /\ UNCHANGED <<server, disk, detached>>
      /\ open.mongo \subseteq open'.mongo
      /\ pc = "ImportDemo" => "course" \in open'.mongo
  BY <1>3, MongoEffect DEF IInv, storeVars
<1> USE DEF IInv, ScriptInv, AfterRestart, Commands, AfterServices, AfterLmsAssets,
        AfterCreation, AfterImport, AfterAccounts
<1>5. MySQLInv'
  BY <1>2, <1>3, <1>4 DEF MySQLInv, RestoredOrTorn
<1>6. MongoInv'
  BY <1>2, <1>3, <1>4 DEF MongoInv
<1>7. AccountInv' /\ MarkInv' /\ AssetInv'
  BY <1>1, <1>2, <1>3, <1>4 DEF AccountInv, MarkInv, AssetInv
<1>8. MakeInv' /\ FinishedInv'
  BY <1>1, <1>3 DEF MakeInv, FinishedInv
<1> QED
  BY <1>5, <1>6, <1>7, <1>8

LEMMA FilesInv ==
    ASSUME IInv, CloneDemo \/ LmsAssets \/ CmsAssets
    PROVE  ScriptInv' /\ FinishedInv'
<1>1. UNCHANGED <<user, attempt, server, disk, open, detached>>
  BY DEF CloneDemo, LmsAssets, CmsAssets, storeVars
<1>2. Restores' = Restores /\ Creates' = Creates /\ Migrates' = Migrates /\ Builds' = Builds
  BY <1>1, SameFlags
<1>3. \/ pc = "CloneDemo" /\ pc' = "ImportDemo" /\ static' = static
      \/ pc = "LmsAssets" /\ pc' = "UpStudio" /\ static' = Built("lms")
      \/ pc = "CmsAssets" /\ pc' = "RestoreSearch" /\ static' = Built("cms")
  BY DEF CloneDemo, LmsAssets, CmsAssets, Run
<1> USE DEF IInv, ScriptInv, AfterRestart, Commands, AfterServices, AfterLmsAssets,
        AfterCreation, AfterImport, AfterAccounts
<1>4. MySQLInv' /\ MongoInv'
  BY <1>1, <1>2, <1>3 DEF MySQLInv, RestoredOrTorn, MongoInv
<1>5. AccountInv' /\ MarkInv'
  BY <1>1, <1>2, <1>3 DEF AccountInv, MarkInv
<1>6. AssetInv'
  BY <1>1, <1>2, <1>3 DEF AssetInv, Built
<1>7. MakeInv' /\ FinishedInv'
  BY <1>1, <1>3 DEF MakeInv, FinishedInv
<1> QED
  BY <1>4, <1>5, <1>6, <1>7

LEMMA RestoresInv ==
    ASSUME IInv, RestoreDump \/ RestartMySQL
    PROVE  ScriptInv' /\ FinishedInv'
<1>1. /\ UNCHANGED <<user, static>>
      /\ attempt'.env = attempt.env /\ attempt'.files = attempt.files
      /\ attempt'.stop = attempt.stop /\ attempt'.named = attempt.named
      /\ \/ pc = "RestoreDump" /\ pc' = "RestartMySQL"
         \/ pc = "RestartMySQL" /\ pc' = "ProvisionMongo"
  BY DEF RestoreDump, RestartMySQL, Run, IInv, TypeOK, ScriptTypeOK, Histories
<1>2. MySQLInv'
  <2>1. CASE RestoreDump
    <3>1. disk'.mysql = IF server["mysql"] = "init" THEN TornMySQL ELSE DumpMySQL
      BY <2>1 DEF RestoreDump, Extract, IInv, TypeOK, StoreTypeOK, Data
    <3>2. RestoredOrTorn'
      BY <3>1 DEF RestoredOrTorn, TornMySQL, DumpMySQL, MySQLWith
    <3>3. server'["mysql"] = "down" \/ "mysql" \in detached'
      BY <2>1 DEF RestoreDump, Extract, IInv, StoreInv, Servers
    <3> QED
      BY <1>1, <2>1, <3>2, <3>3 DEF MySQLInv, AfterRestart, RestoreDump, Run
  <2>2. CASE RestartMySQL
    <3>1. RestoredOrTorn
      BY <2>2 DEF RestartMySQL, Run, IInv, ScriptInv, MySQLInv
    <3>2. disk' = disk /\ server'["mysql"] = "boot" /\ "mysql" \notin detached'
      BY <2>2, <3>1 DEF RestoredOrTorn, RestartMySQL, StartStores, AfterStart, Starting,
                        Servers
    <3> QED
      BY <1>1, <2>2, <3>1, <3>2 DEF MySQLInv, RestoredOrTorn, RestartMySQL, Run
  <2> QED
    BY <2>1, <2>2
<1>3. ScriptInv' /\ FinishedInv'
  BY <1>1, <1>2
  DEF IInv, ScriptInv, MongoInv, AccountInv, MarkInv, AssetInv, MakeInv, FinishedInv,
      AfterRestart, AfterServices, AfterLmsAssets, AfterCreation, AfterImport, AfterAccounts
<1> QED
  BY <1>3

LEMMA RestoreSearchInv ==
    ASSUME IInv, RestoreSearch
    PROVE  ScriptInv' /\ FinishedInv'
<1>1. /\ UNCHANGED <<user, attempt, static, server>>
      /\ pc = "RestoreSearch" /\ pc' = "UpNginx"
  BY DEF RestoreSearch, Run, Extract
<1>2. Restores' = Restores /\ Creates' = Creates /\ Migrates' = Migrates /\ Builds' = Builds
  BY <1>1, SameFlags
<1>3. /\ disk'.mysql = disk.mysql
      /\ disk'.elasticsearch = "dump"
      /\ open'.mongo = open.mongo
      /\ "mysql" \in detached' => "mysql" \in detached
  BY DEF RestoreSearch, Extract, IInv, TypeOK, StoreTypeOK, Data
<1> USE DEF IInv, ScriptInv, AfterRestart, Commands, AfterServices, AfterLmsAssets,
        AfterCreation, AfterImport, AfterAccounts
<1>4. MySQLInv' /\ MongoInv'
  BY <1>1, <1>2, <1>3 DEF MySQLInv, RestoredOrTorn, MongoInv
<1>5. AccountInv' /\ MarkInv'
  BY <1>1, <1>2, <1>3 DEF AccountInv, MarkInv
<1>6. AssetInv' /\ MakeInv' /\ FinishedInv'
  BY <1>1, <1>2, <1>3 DEF AssetInv, MakeInv, FinishedInv
<1> QED
  BY <1>4, <1>5, <1>6

\* Of the make targets, those that migrate restore the dump as well.
LEMMA MakeFlags ==
    ASSUME MakeInv, attempt.stop
    PROVE  Migrates => Creates
BY DEF MakeInv, MakeTargets, MakeTarget, Migrates, Creates, Inherited, Own, Flags,
       DevProvision, DevProvisionNoDbUpdate, DevProvisionNoAssets,
       DevMigrateProvisionNoAssets, DevMigrateProvision

\* The end of a make target: what the servers hold goes to the volumes.
LEMMA MakeStopInv ==
    ASSUME IInv, MakeStop
    PROVE  ScriptInv' /\ FinishedInv'
<1>1. /\ UNCHANGED <<user, attempt, static>>
      /\ pc = "MakeStop" /\ pc' = "finished"
  BY DEF MakeStop, Run
<1>2. /\ disk'.mysql = disk.mysql
      /\ disk'.elasticsearch = disk.elasticsearch
      /\ server["mongo"] = "ready" => disk'.mongo = open.mongo
      /\ detached' = {}
  BY DEF MakeStop, StopStores, Flushed, Servers, IInv, TypeOK, StoreTypeOK, Data
<1> USE DEF IInv, ScriptInv, AfterRestart, Commands, AfterServices, AfterLmsAssets,
        AfterCreation, AfterImport, AfterAccounts
<1>3. attempt.stop /\ attempt.files = "provision" /\ (Migrates => Creates)
  BY <1>1, MakeFlags DEF MakeInv
<1>4. Creates => /\ disk.mysql.base = "dump"
                 /\ \A a \in Accounts : disk.mysql.account[a] # "none"
                 /\ "commerce" \in disk.mysql.marks
                 /\ Restores
  BY <1>1, FlagsLead DEF AccountInv, MarkInv
<1>5. Creates => disk'.mongo = {"users", "course"}
  <2>1. open.mongo \subseteq {"users", "course"}
    BY DEF TypeOK, StoreTypeOK, Data, MongoData
  <2> QED
    BY <1>1, <1>2, <1>4, <2>1 DEF MongoInv
<1>6. Migrates => {"lmsMigrated", "cmsMigrated"} \subseteq disk.mysql.marks
  BY <1>1, <1>3 DEF MarkInv
<1>7. (Builds => static = {"lms", "cms"}) /\ disk.elasticsearch = "dump"
  BY <1>1, <1>3 DEF AssetInv, TypeOK
<1>8. FinishedInv'
  <2>1. Delivered(attempt.env)'
    BY <1>1, <1>2, <1>4, <1>5, <1>6, <1>7 DEF Delivered, Creates, Migrates, Builds
  <2> QED
    BY <1>1, <1>2, <2>1 DEF FinishedInv
<1>9. ScriptInv'
  BY <1>1, <1>3 DEF MySQLInv, MongoInv, AccountInv, MarkInv, AssetInv, MakeInv
<1> QED
  BY <1>8, <1>9

-----------------------------------------------------------------------------
(* ... and by everybody else. *)

\* A step that leaves no command to run but the first, and nothing finished.
LEMMA IdleInv ==
    ASSUME IInv, pc' \in {"idle", "aborted", "done", "UpDatabases"}, user' = 1,
           \/ attempt' = attempt
           \/ \E a \in Attempts : /\ attempt'.env = a.env /\ attempt'.files = a.files
                                  /\ attempt'.stop = a.stop
    PROVE  ScriptInv' /\ FinishedInv'
<1>1. MakeInv'
  <2>1. CASE attempt' = attempt
    BY <2>1 DEF IInv, ScriptInv, MakeInv
  <2>2. ASSUME NEW a \in Attempts,
               attempt'.env = a.env /\ attempt'.files = a.files /\ attempt'.stop = a.stop
        PROVE  MakeInv'
    <3>1. \A t \in MakeTargets : t.files = "provision"
      BY DEF MakeTargets, MakeTarget, DevProvision, DevProvisionNoDbUpdate,
             DevProvisionNoAssets, DevMigrateProvisionNoAssets, DevMigrateProvision
    <3> QED
      BY <2>2, <3>1, ConstantsAssumption DEF MakeInv
  <2> QED
    BY <2>1, <2>2
<1>2. MySQLInv' /\ MongoInv' /\ AccountInv' /\ MarkInv' /\ AssetInv' /\ FinishedInv'
  BY DEF MySQLInv, MongoInv, AccountInv, MarkInv, AssetInv, FinishedInv, AfterRestart,
         Commands, AfterServices, AfterLmsAssets, AfterCreation, AfterImport, AfterAccounts
<1> QED
  BY <1>1, <1>2 DEF ScriptInv

\* A step after the end of an attempt on named volumes that leaves what is on
\* disk, or starts mysql on a volume without files.
LEMMA RestingInv ==
    ASSUME IInv, pc \in Resting, UNCHANGED <<pc, user, attempt, static>>, disk' \in Data,
           attempt.named =>
             /\ disk.mysql.base # "none" => disk'.mysql = disk.mysql
             /\ disk'.mysql.marks = disk.mysql.marks
             /\ disk.mongo \subseteq disk'.mongo
             /\ disk'.elasticsearch = disk.elasticsearch
             /\ detached' \subseteq detached
    PROVE  ScriptInv' /\ FinishedInv'
<1>1. ScriptInv'
  BY DEF Resting, IInv, ScriptInv, MySQLInv, MongoInv, AccountInv, MarkInv, AssetInv, MakeInv,
     AfterRestart, Commands, AfterServices, AfterLmsAssets, AfterCreation, AfterImport,
     AfterAccounts
<1>2. FinishedInv'
  <2>1. SUFFICES ASSUME pc = "finished", attempt.named
                 PROVE  "mysql" \notin detached' /\ Delivered(attempt.env)'
    BY DEF FinishedInv
  <2>2. "mysql" \notin detached /\ Delivered(attempt.env)
    BY <2>1 DEF IInv, FinishedInv
  <2>3. disk'.mongo \subseteq {"users", "course"}
    BY DEF Data, MongoData
  <2> QED
    BY <2>1, <2>2, <2>3 DEF Delivered
<1> QED
  BY <1>1, <1>2

\* The steps of the stores and of the learners, at any time.
LEMMA BackgroundInv ==
    ASSUME IInv,
           \/ Register \/ MongoCheckpoint \/ MySQLInitialised \/ MySQLDies
           \/ \E s \in Servers : ServerReady(s)
    PROVE  ScriptInv' /\ FinishedInv'
<1>1. UNCHANGED <<pc, user, attempt, static>>
  BY DEF Register, MongoCheckpoint, MySQLInitialised, MySQLDies, ServerReady, scriptVars
<1>2. Restores' = Restores /\ Creates' = Creates /\ Migrates' = Migrates /\ Builds' = Builds
  BY <1>1, SameFlags
<1>3. disk \in Data /\ open \in Data /\ server \in [Servers -> Phases]
  BY DEF IInv, TypeOK, StoreTypeOK
<1>4. CASE Register
  <2>1. /\ UNCHANGED <<server, detached>>
        /\ disk'.mongo = disk.mongo /\ open'.mongo = open.mongo
        /\ disk'.elasticsearch = disk.elasticsearch
        /\ disk'.mysql.base = disk.mysql.base
        /\ disk'.mysql.account = disk.mysql.account
        /\ disk.mysql.marks \subseteq disk'.mysql.marks
        /\ RestoredOrTorn => RestoredOrTorn'
    <3>1. CASE "mysql" \in detached
      BY <1>4, <3>1, MarkEffect DEF Register, IInv, RestoredOrTorn
    <3>2. CASE "mysql" \notin detached
      <4>1. disk'.mysql = [disk.mysql EXCEPT !.marks = @ \cup {"learner"}]
        BY <1>4, <3>2, MarkEffect DEF Register, IInv
      <4>2. HasTables(disk.mysql)
        BY <1>4, <3>2 DEF Register, IInv, StoreInv
      <4> QED
        BY <1>3, <1>4, <4>1, <4>2, MarkEffect
        DEF Register, IInv, Data, MySQLData, RestoredOrTorn, HasTables
    <3> QED
      BY <3>1, <3>2
  <2> QED
    BY <1>1, <1>2, <2>1
    DEF IInv, ScriptInv, MySQLInv, MongoInv, AccountInv, MarkInv, AssetInv, MakeInv,
        FinishedInv, Delivered
<1>5. CASE MongoCheckpoint
  <2>1. /\ UNCHANGED <<server, detached, open>>
        /\ disk'.mysql = disk.mysql
        /\ disk'.elasticsearch = disk.elasticsearch
        /\ disk.mongo \subseteq disk'.mongo /\ disk'.mongo \subseteq {"users", "course"}
    BY <1>3, <1>5 DEF MongoCheckpoint, IInv, StoreInv, Data, MongoData
  <2> QED
    BY <1>1, <1>2, <2>1
    DEF IInv, ScriptInv, MySQLInv, MongoInv, AccountInv, MarkInv, AssetInv, MakeInv,
        FinishedInv, Delivered, RestoredOrTorn
<1>6. CASE MySQLInitialised
  <2>1. /\ server["mysql"] = "init" /\ disk.mysql.base = "torn"
        /\ server'["mysql"] = "boot" /\ server'["mongo"] = server["mongo"]
        /\ open'.mongo = open.mongo /\ disk'.mongo = disk.mongo
        /\ disk'.elasticsearch = disk.elasticsearch
        /\ disk'.mysql.marks = disk.mysql.marks
        /\ disk'.mysql.account = disk.mysql.account
        /\ "mysql" \in detached => disk'.mysql = disk.mysql
        /\ "mysql" \notin detached'
    BY <1>3, <1>6 DEF MySQLInitialised, IInv, StoreInv, Data, MySQLData, Servers
  <2>2. /\ ~ (Creates /\ pc \in AfterRestart)
        /\ ~ (Creates /\ pc = "finished" /\ attempt.named)
    BY <2>1, FlagsLead
    DEF IInv, ScriptInv, MySQLInv, FinishedInv, Delivered, Creates
  <2>3. MySQLInv'
    BY <1>1, <1>2, <2>1 DEF IInv, ScriptInv, MySQLInv, RestoredOrTorn
  <2>4. ScriptInv'
    BY <1>1, <1>2, <2>1, <2>2, <2>3
    DEF IInv, ScriptInv, MongoInv, AccountInv, MarkInv, AssetInv, MakeInv, AfterRestart, Commands,
        AfterServices, AfterLmsAssets, AfterCreation, AfterImport, AfterAccounts
  <2>5. FinishedInv'
    BY <1>1, <2>1, <2>2 DEF IInv, FinishedInv, Delivered, Creates
  <2> QED
    BY <2>4, <2>5
<1>7. CASE MySQLDies \/ \E s \in Servers : ServerReady(s)
  <2>1. /\ disk' = disk /\ open'.mongo = open.mongo
        /\ detached' \subseteq detached
        /\ server["mysql"] # "init" => server'["mysql"] # "init"
        /\ server'["mysql"] = "down" \/ (detached' = detached /\ server["mysql"] # "down")
             \/ (server' = [server EXCEPT !["mongo"] = "ready"] /\ detached' = detached)
        /\ server["mongo"] = "ready" => server'["mongo"] = "ready"
    BY <1>3, <1>7 DEF MySQLDies, ServerReady, Servers, Data
  <2> QED
    BY <1>1, <1>2, <1>3, <2>1
    DEF IInv, ScriptInv, MySQLInv, MongoInv, AccountInv, MarkInv, AssetInv, MakeInv,
        FinishedInv, Delivered, RestoredOrTorn, Servers
<1> QED
  BY <1>4, <1>5, <1>6, <1>7

LEMMA StopsInv ==
    ASSUME IInv, Stop \/ Down \/ DevUp
    PROVE  ScriptInv' /\ FinishedInv'
<1>1. pc \in Resting /\ UNCHANGED <<pc, user, attempt, static>>
  BY DEF Stop, Down, DevUp, scriptVars
<1>2. disk' \in Data
  BY NextType DEF IInv, TypeOK, StoreTypeOK, Next, Operator
<1>3. CASE StopStores(Flushed(Servers)) \/ Down
  <2>1. attempt.named => StopStores(Chosen({}, kept, Flushed(Servers)))
                           \/ StopStores(Flushed(Servers))
    BY <1>3 DEF Down, RemoveAll, IInv, AttemptInv
  <2>2. attempt.named =>
             /\ disk'.mysql = disk.mysql /\ disk'.elasticsearch = disk.elasticsearch
             /\ disk.mongo \subseteq disk'.mongo /\ detached' \subseteq detached
    BY <2>1 DEF StopStores, Chosen, Flushed, IInv, StoreInv, TypeOK, StoreTypeOK, Data
  <2> QED
    BY <1>1, <1>2, <2>2, RestingInv
<1>4. CASE Up(Services, "run")
  <2>1. Fresh(LinkClosure(Services), "run") = {}
    BY DEF Fresh
  <2>2. /\ disk.mysql.base # "none" => disk'.mysql = disk.mysql
        /\ disk'.mysql.marks = disk.mysql.marks
        /\ disk'.elasticsearch = disk.elasticsearch
        /\ disk.mongo \subseteq disk'.mongo /\ detached' \subseteq detached
    BY <1>4, <2>1, UpEffect DEF IInv
  <2> QED
    BY <1>1, <1>2, <2>2, RestingInv
<1> QED
  BY <1>3, <1>4 DEF Stop, DevUp

LEMMA EndsInv ==
    ASSUME IInv, (\E a \in Attempts : Start(a)) \/ Abort \/ Destroy \/ HostCrash
    PROVE  ScriptInv' /\ FinishedInv'
<1>1. ASSUME NEW a \in Attempts, Start(a)
      PROVE  ScriptInv' /\ FinishedInv'
  <2>1. user' = 1 /\ pc' = "UpDatabases"
    BY <1>1 DEF Start, IInv, ScriptInv, AccountInv, Resting
  <2>2. attempt'.env = a.env /\ attempt'.files = a.files /\ attempt'.stop = a.stop
    BY <1>1 DEF Start
  <2> QED
    BY <2>1, <2>2, IdleInv
<1>2. CASE Abort
  BY <1>2, IdleInv DEF Abort
<1>3. CASE Destroy
  <2>1. user' = 1 /\ pc' = "idle" /\ attempt' = attempt
    BY <1>3 DEF Destroy, IInv, ScriptInv, AccountInv, Resting
  <2> QED
    BY <2>1, IdleInv
<1>4. CASE HostCrash
  <2>1. user' = 1 /\ attempt' = attempt
    BY <1>4 DEF HostCrash
  <2>2. CASE pc \in Commands
    BY <1>4, <2>1, <2>2, IdleInv DEF HostCrash
  <2>3. CASE pc \notin Commands
    <3>1. pc \in Resting /\ UNCHANGED <<pc, user, attempt, static>>
      BY <1>4, <2>3
      DEF HostCrash, IInv, TypeOK, ScriptTypeOK, ScriptInv, AccountInv, Resting
    <3>2. disk' = disk /\ disk \in Data /\ detached' \subseteq detached
      BY <1>4 DEF HostCrash, IInv, TypeOK, StoreTypeOK
    <3> QED
      BY <3>1, <3>2, RestingInv
  <2> QED
    BY <2>2, <2>3
<1> QED
  BY <1>1, <1>2, <1>3, <1>4

-----------------------------------------------------------------------------
(* The invariant, and what follows from it. *)

LEMMA InitInv == Init => IInv
<1> SUFFICES ASSUME Init PROVE IInv
  OBVIOUS
<1>1. TypeOK
  BY InitType
<1>2. StoreInv
  BY DEF Init, StoreInv, Servers
<1>3. ScriptInv
  BY DEF Init, ScriptInv, MySQLInv, MongoInv, AccountInv, MarkInv, AssetInv, MakeInv,
     NoAttempt, AfterRestart, Commands, AfterServices, AfterLmsAssets, AfterCreation,
     AfterImport, AfterAccounts
<1>4. FinishedInv
  BY DEF Init, FinishedInv
<1>5. AttemptInv
  BY DEF Init, AttemptInv, NoAttempt, Commands, Creation, AfterUpLms, AfterCreation,
     AfterLmsAssets, AfterServices
<1> QED
  BY <1>1, <1>2, <1>3, <1>4, <1>5 DEF IInv

LEMMA NextInv == IInv /\ [Next]_vars => IInv'
<1> SUFFICES ASSUME IInv, [Next]_vars PROVE IInv'
  OBVIOUS
<1>1. TypeOK' /\ StoreInv' /\ AttemptInv'
  BY NextType, StoreInvNext, AttemptNext DEF IInv
<1>2. CASE WaitMySQL \/ Sleep20 \/ PrepareLms \/ StudioSyslog
  BY <1>1, <1>2, QuietInv DEF IInv
<1>3. CASE UpDatabases \/ UpLms \/ UpStudio \/ UpNginx
  BY <1>1, <1>3, UpsInv DEF IInv
<1>4. CASE CreateDbsAndUsers \/ LmsMigrate \/ ConfigureCommerce \/ CmsMigrate
  BY <1>1, <1>4, MarksInv DEF IInv
<1>5. CASE ManageUser \/ SetPassword
  BY <1>1, <1>5, AccountsInv DEF IInv
<1>6. CASE ProvisionMongo \/ ImportDemo
  BY <1>1, <1>6, MongosInv DEF IInv
<1>7. CASE CloneDemo \/ LmsAssets \/ CmsAssets
  BY <1>1, <1>7, FilesInv DEF IInv
<1>8. CASE RestoreDump \/ RestartMySQL
  BY <1>1, <1>8, RestoresInv DEF IInv
<1>9. CASE RestoreSearch \/ MakeStop
  BY <1>1, <1>9, RestoreSearchInv, MakeStopInv DEF IInv
<1>10. CASE Stop \/ Down \/ DevUp
  BY <1>1, <1>10, StopsInv DEF IInv
<1>11. CASE (\E a \in Attempts : Start(a)) \/ Abort \/ Destroy \/ HostCrash
  BY <1>1, <1>11, EndsInv DEF IInv
<1>12. CASE Register \/ StoreStep
  BY <1>1, <1>12, BackgroundInv DEF IInv, StoreStep
<1>13. CASE UNCHANGED vars
  BY <1>1, <1>13
  DEF vars, IInv, ScriptInv, MySQLInv, RestoredOrTorn, MongoInv, AccountInv, MarkInv, AssetInv,
      MakeInv, FinishedInv, Delivered, Restores, Creates, Migrates, Builds, Own, Inherited
<1> QED
  BY <1>2, <1>3, <1>4, <1>5, <1>6, <1>7, <1>8, <1>9, <1>10, <1>11, <1>12, <1>13
  DEF Next, Script, Operator

\* The inductive invariant holds of every reachable state.
THEOREM Inductive == Spec => []IInv
BY InitInv, NextInv, PTL DEF Spec

\* A make target that ended well (Makefile:37-60) has left everything it
\* provisions in the volumes, unless it came upon stores that docker-compose.yml
\* alone had created, and only a new attempt or destroy takes it away: for every
\* dump, number of accounts, set of earlier attempts (by hand with any flags, and
\* without the host files, too), make target between them and number of failures.
THEOREM DeliveredToDisk == Spec => []ProvisionedOnDisk
<1>1. IInv => ProvisionedOnDisk
  BY DEF IInv, FinishedInv, ProvisionedOnDisk
<1> QED
  BY <1>1, Inductive, PTL

\* After the restart of provision.sh:47 mysql works on the restored files and
\* nothing detaches it before the script ends, so no write of a script that
\* restores the dump is lost with a detached server.
THEOREM WritesReachVolume == Spec => []ScriptWritesReachVolume
<1>1. IInv => ScriptWritesReachVolume
  BY DEF IInv, ScriptInv, MySQLInv, StoreInv, ScriptWritesReachVolume, Restores
<1> QED
  BY <1>1, Inductive, PTL
=============================================================================
