------------------------ MODULE ProvisionRuns_proofs ------------------------
(***************************************************************************)
(* More proofs about Provision, on top of the invariant of                 *)
(* Provision_proofs: what an attempt finds in the containers, which of its *)
(* commands it reaches, and what mysql's volume can lose.                  *)
(***************************************************************************)
EXTENDS Provision_proofs

\* The commands after the clone.
AfterClone == {"ImportDemo"} \cup AfterImport

\* Which containers there are.
ContainerInv ==
    /\ clone => container["lms"] # "absent"
    /\ \A s \in anonymous : container[s] # "absent"

\* A clone that was there when the attempt began stays, and is not passed.
CloneInv ==
    attempt.foundClone =>
        /\ pc \in Commands => clone /\ config["lms"] = attempt.files
        /\ Creates => pc \notin AfterClone \cup {"done", "finished"}

\* An attached elasticsearch has the index of its volume.
IndexInv ==
    /\ "elasticsearch" \notin detached => open.elasticsearch = disk.elasticsearch
    /\ pc = "finished" => "elasticsearch" \notin detached

\* An attempt whose environment does not say DB_PROVISION: provision.sh restores
\* by its default, provision-lms.sh does not see it.
BareInv ==
    attempt.env["DB_PROVISION"] = "unset" =>
        /\ ~ attempt.imported
        /\ pc \notin {"CreateDbsAndUsers"} \cup Creation
        /\ pc \in {"RestartMySQL", "ProvisionMongo", "UpLms", "done"} \cup AfterUpLms =>
             attempt.restored

RInv == IInv /\ ContainerInv /\ CloneInv /\ IndexInv /\ BareInv

-----------------------------------------------------------------------------
\* The four parts, one lemma each.

LEMMA InitRuns == Init => ContainerInv /\ CloneInv /\ IndexInv /\ BareInv
BY DEF Init, ContainerInv, CloneInv, IndexInv, BareInv, NoAttempt, NoData, Creation, AfterUpLms,
       AfterCreation, AfterLmsAssets, AfterServices, Flags

LEMMA ContainerNext ==
    ASSUME IInv, ContainerInv, [Next]_vars
    PROVE  ContainerInv'
<1>1. TypeOK /\ anonymous \subseteq Services /\ "lms" \in Services
  BY DEF IInv, TypeOK, ComposeTypeOK, Stores, Services
<1>2. ASSUME NEW S, NEW files, Up(S, files)
      PROVE  ContainerInv'
  BY <1>1, <1>2, UpContainers DEF ContainerInv
<1>3. CASE Script
  <2>1. CASE UpDatabases \/ UpLms \/ UpStudio \/ UpNginx
    BY <1>2, <2>1 DEF UpDatabases, UpLms, UpStudio, UpNginx
  <2>2. CASE RestartMySQL
    BY <1>1, <2>2 DEF RestartMySQL, ContainerInv, TypeOK, ComposeTypeOK
  <2>3. CASE CloneDemo
    BY <1>1, <2>3 DEF CloneDemo, Run, CanRun, Inside, ContainerInv
  <2>4. CASE MakeStop
    BY <1>1, <2>4 DEF MakeStop, ContainerInv, Stopped
  <2>5. CASE UNCHANGED composeVars
    BY <2>5 DEF composeVars, ContainerInv
  <2> QED
    BY <1>3, <2>1, <2>2, <2>3, <2>4, <2>5, QuietCompose
<1>4. CASE Operator
  <2>1. CASE Stop
    BY <1>1, <2>1 DEF Stop, ContainerInv, Stopped
  <2>2. CASE Down \/ Destroy
    BY <2>2 DEF Down, Destroy, RemoveAll, ContainerInv
  <2>3. CASE DevUp
    BY <1>2, <2>3 DEF DevUp
  <2> QED
    BY <1>4, <2>1, <2>2, <2>3 DEF Operator
<1>5. CASE Abort \/ \E a \in Attempts : Start(a)
  BY <1>5 DEF Abort, Start, ContainerInv, composeVars
<1>6. CASE HostCrash
  BY <1>1, <1>6 DEF HostCrash, Rebooted, ContainerInv
<1>7. CASE Background
  <2>1. \A s \in Services : container[s] # "absent" => container'[s] # "absent"
    BY <1>1, <1>7
    DEF Background, StoreStep, Register, MySQLInitialised, MySQLDies, MongoCheckpoint, ServerReady,
        composeVars, vars, TypeOK, ComposeTypeOK
  <2> QED
    BY <1>1, <1>7, <2>1 DEF Background, ContainerInv
<1> QED
  BY <1>3, <1>4, <1>5, <1>6, <1>7, Steps

LEMMA CloneNext ==
    ASSUME IInv, ContainerInv, CloneInv, [Next]_vars
    PROVE  CloneInv'
<1> USE DEF Creation, AfterClone, AfterImport, AfterCreation, AfterLmsAssets, AfterServices
<1>1. TypeOK
  BY DEF IInv
<1>2. CASE Script
  <2>1. /\ pc \in Commands /\ attempt'.env = attempt.env /\ attempt'.files = attempt.files
        /\ attempt'.foundClone = attempt.foundClone
    BY <1>1, <1>2, ScriptHistory, ScriptTable DEF Commands
  <2>2. Creates' = Creates
    BY <2>1, SameFlags
  <2>3. attempt.foundClone => clone /\ config["lms"] = attempt.files
    BY <2>1 DEF CloneInv
  <2>4. attempt.foundClone => clone' /\ config'["lms"] = attempt.files
    <3>1. CASE UpDatabases \/ UpLms \/ UpStudio \/ UpNginx
      <4>1. PICK S : Up(S, attempt.files)
        BY <3>1 DEF UpDatabases, UpLms, UpStudio, UpNginx
      <4>2. Definition("lms", attempt.files) = attempt.files /\ "lms" \in Services
        BY DEF Definition, Services
      <4>3. attempt.foundClone => ~ Recreated("lms", container, config, attempt.files)
        BY <2>3, <4>2 DEF Recreated, ContainerInv
      <4> QED
        BY <1>1, <2>3, <4>1, <4>2, <4>3, UpContainers
    <3>2. CASE RestartMySQL \/ CloneDemo \/ MakeStop
      BY <2>3, <3>2 DEF RestartMySQL, CloneDemo, MakeStop
    <3>3. CASE UNCHANGED composeVars
      BY <2>3, <3>3 DEF composeVars
    <3> QED
      BY <1>2, <3>1, <3>2, <3>3, QuietCompose
  <2>5. attempt.foundClone /\ Creates => pc' \notin AfterClone \cup {"done", "finished"}
    <3> SUFFICES ASSUME attempt.foundClone, Creates
                 PROVE  pc' \notin AfterClone \cup {"done", "finished"}
      OBVIOUS
    <3>1. pc \notin AfterClone
      BY DEF CloneInv
    <3>2. AfterLmsMigrate(attempt.env) = "ManageUser"
          /\ AfterPrepareLms(attempt.env) \in {"LmsMigrate", "ManageUser"}
      BY FlagsLead
    <3> QED
      BY <1>2, <2>3, <3>1, <3>2, ScriptTable, NextCommands
  <2> QED
    BY <2>1, <2>2, <2>4, <2>5 DEF CloneInv
<1>3. CASE \E a \in Attempts : Start(a)
  <2>1. pc' = "UpDatabases" /\ UNCHANGED composeVars
        /\ attempt'.foundClone = (clone /\ config["lms"] = attempt'.files)
    BY <1>3 DEF Start
  <2> QED
    BY <2>1 DEF CloneInv, composeVars
<1>4. CASE Operator \/ Abort \/ HostCrash
  <2>1. attempt' = attempt /\ pc' \in {pc, "idle", "aborted"} /\ pc' \notin Commands
    BY <1>1, <1>4, OtherPc, Disjoint DEF Commands, TypeOK, ScriptTypeOK
  <2>2. Creates' = Creates
    BY <2>1, SameFlags
  <2> QED
    BY <2>1, <2>2 DEF CloneInv
<1>5. CASE Background
  <2>1. UNCHANGED <<pc, attempt, config, clone>>
    BY <1>5 DEF Background
  <2>2. Creates' = Creates
    BY <2>1, SameFlags
  <2> QED
    BY <2>1, <2>2 DEF CloneInv
<1> QED
  BY <1>2, <1>3, <1>4, <1>5, Steps

\* The part of the index that no script's position matters to.
Attached == "elasticsearch" \notin detached => open.elasticsearch = disk.elasticsearch

\* Only the restore of the index replaces it under its server: a store that gets
\* another volume is started on it.
LEMMA SearchStores ==
    ASSUME IInv, Attached
    PROVE  /\ \A S, files : Up(S, files) => Attached' /\ detached' \subseteq detached
           /\ \A volumes \in Data : StopStores(volumes) => Attached' /\ detached' = {}
           /\ \A db : WriteMySQL(db) => Attached' /\ detached' = detached
           /\ \A mark : WriteMongo(mark) => Attached' /\ detached' = detached
           /\ \A db : Extract("mysql", db) => Attached'
           /\ \A index : Extract("elasticsearch", index) => Attached'
<1>1. ASSUME NEW S, NEW files, Up(S, files)
      PROVE  Attached' /\ detached' \subseteq detached
  <2> DEFINE new == Fresh(LinkClosure(S), files)
             begun == Begun(LinkClosure(S), files)
             volumes == Chosen(new, NoData, Flushed(begun))
  <2>1. StartStores(begun, volumes)
    BY <1>1 DEF Up
  <2>2. /\ volumes \in Data
        /\ "elasticsearch" \notin begun => volumes.elasticsearch = disk.elasticsearch
    BY UpVolumes DEF IInv
  <2> HIDE DEF begun, volumes
  <2> QED
    BY <2>1, <2>2 DEF StartStores, AfterStart, Starting, Chosen, Attached, Data
<1> USE DEF IInv, TypeOK, StoreTypeOK, Data, Attached
<1>2. ASSUME NEW volumes \in Data, StopStores(volumes)
      PROVE  Attached' /\ detached' = {}
  BY <1>2 DEF StopStores
<1>3. ASSUME NEW db, WriteMySQL(db)
      PROVE  Attached' /\ detached' = detached
  BY <1>3 DEF WriteMySQL
<1>4. ASSUME NEW mark, WriteMongo(mark)
      PROVE  Attached' /\ detached' = detached
  BY <1>4 DEF WriteMongo
<1>5. ASSUME NEW db, Extract("mysql", db)
      PROVE  Attached'
  BY <1>5 DEF Extract
<1>6. ASSUME NEW index, Extract("elasticsearch", index)
      PROVE  Attached'
  BY <1>6 DEF Extract
<1> QED
  BY <1>1, <1>2, <1>3, <1>4, <1>5, <1>6

LEMMA IndexNext ==
    ASSUME IInv, IndexInv, [Next]_vars
    PROVE  IndexInv'
<1>1. TypeOK /\ StoreTypeOK /\ Attached
  BY DEF IInv, TypeOK, IndexInv, Attached
<1>2. CASE Script
  <2>1. pc' = "finished" => MakeStop
    BY <1>2, ScriptTable, NextCommands
  <2>2. CASE MakeStop
    <3>1. Attached' /\ detached' = {}
      BY <1>1, <2>2, SearchStores, FlushedType DEF MakeStop
    <3> QED
      BY <3>1 DEF IndexInv, Attached
  <2>3. CASE ~ MakeStop
    <3>1. Attached'
      <4>1. CASE UpDatabases \/ UpLms \/ UpStudio \/ UpNginx
        BY <1>1, <4>1, SearchStores DEF UpDatabases, UpLms, UpStudio, UpNginx
      <4>2. CASE RestartMySQL
        BY <1>1, <4>2
        DEF RestartMySQL, StartStores, AfterStart, Starting, Chosen, Attached, StoreTypeOK, Data
      <4>3. CASE CreateDbsAndUsers \/ LmsMigrate \/ ManageUser \/ ConfigureCommerce \/ CmsMigrate
        BY <1>1, <4>3, SearchStores
        DEF CreateDbsAndUsers, LmsMigrate, ManageUser, ConfigureCommerce, CmsMigrate, MarkMySQL
      <4>4. CASE RestoreDump \/ RestoreSearch
        BY <1>1, <4>4, SearchStores DEF RestoreDump, RestoreSearch
      <4>5. CASE ProvisionMongo \/ ImportDemo \/ SetPassword
        BY <1>1, <4>5, SearchStores
        DEF ProvisionMongo, ImportDemo, SetPassword, storeVars, Attached
      <4>6. CASE WaitMySQL \/ Sleep20 \/ PrepareLms \/ CloneDemo \/ LmsAssets \/ StudioSyslog
                 \/ CmsAssets
        BY <1>1, <4>6
        DEF WaitMySQL, Sleep20, PrepareLms, CloneDemo, LmsAssets, StudioSyslog, CmsAssets,
            storeVars, Attached
      <4> QED
        BY <1>2, <2>3, <4>1, <4>2, <4>3, <4>4, <4>5, <4>6 DEF Script
    <3> QED
      BY <2>1, <2>3, <3>1 DEF IndexInv, Attached
  <2> QED
    BY <2>2, <2>3
<1>3. CASE \E a \in Attempts : Start(a)
  <2>1. pc' = "UpDatabases" /\ UNCHANGED storeVars
    BY <1>3 DEF Start
  <2> QED
    BY <1>1, <2>1 DEF IndexInv, Attached, storeVars
<1>4. CASE Stop \/ Down \/ DevUp
  <2>1. pc' = pc
    BY <1>4 DEF Stop, Down, DevUp, scriptVars
  <2>2. Attached' /\ detached' \subseteq detached
    BY <1>1, <1>4, SearchStores, FlushedType, DownVolumesType DEF Stop, Down, RemoveAll, DevUp
  <2> QED
    BY <2>1, <2>2 DEF IndexInv, Attached
<1>5. CASE Destroy
  BY <1>1, <1>5, SearchStores, NoDataType DEF Destroy, RemoveAll, IndexInv, Attached
<1>6. CASE Abort
  <2>1. pc' = "aborted"
    BY <1>6 DEF Abort
  <2>2. CASE UNCHANGED storeVars
    BY <1>1, <2>1, <2>2 DEF IndexInv, Attached, storeVars
  <2>3. CASE Extract("mysql", TornMySQL) \/ Extract("elasticsearch", "torn")
    BY <1>1, <2>1, <2>3, SearchStores DEF IndexInv, Attached
  <2> QED
    BY <1>6, <2>2, <2>3 DEF Abort
<1>7. CASE HostCrash
  BY <1>7 DEF HostCrash, IndexInv
<1>8. CASE Background
  <2>1. pc' = pc
    BY <1>8 DEF Background
  <2>2. Attached' /\ detached' \subseteq detached
    <3>1. CASE Register
      BY <1>1, <3>1, SearchStores DEF Register, MarkMySQL
    <3>2. CASE StoreStep
      BY <1>1, <3>2
      DEF StoreStep, MySQLInitialised, MySQLDies, MongoCheckpoint, ServerReady, TypeOK,
          StoreTypeOK, Data, Attached
    <3>3. CASE UNCHANGED vars
      BY <1>1, <3>3 DEF vars, Attached
    <3> QED
      BY <1>8, <3>1, <3>2, <3>3 DEF Background
  <2> QED
    BY <2>1, <2>2 DEF IndexInv, Attached
<1> QED
  BY <1>2, <1>3, <1>4, <1>5, <1>6, <1>7, <1>8, Steps DEF Operator

LEMMA BareNext ==
    ASSUME IInv, BareInv, [Next]_vars
    PROVE  BareInv'
<1> USE DEF Creation, AfterUpLms, AfterCreation, AfterLmsAssets, AfterServices
<1>1. TypeOK
  BY DEF IInv
<1>2. CASE Script
  <2> SUFFICES ASSUME attempt.env["DB_PROVISION"] = "unset"
               PROVE  BareInv'
    BY <1>1, <1>2, ScriptHistory DEF BareInv
  <2>1. /\ AfterSleep(attempt.env) = "RestoreDump"
        /\ AfterLmsMigrate(attempt.env) \in {"LmsAssets", "UpStudio"}
        /\ AfterPrepareLms(attempt.env) \in {"LmsMigrate", "LmsAssets", "UpStudio"}
    BY NextCommands
    DEF AfterSleep, AfterLmsMigrate, AfterPrepareLms, Own, Inherited, Default
  <2>2. /\ attempt'.env = attempt.env
        /\ attempt.restored => attempt'.restored
        /\ RestoreDump => attempt'.restored
        /\ pc # "ImportDemo" => attempt'.imported = attempt.imported
    BY <1>1, <1>2, ScriptHistory
  <2>3. /\ ~ attempt.imported /\ pc \notin {"CreateDbsAndUsers"} \cup Creation
        /\ pc \in {"RestartMySQL", "ProvisionMongo", "UpLms", "done"} \cup AfterUpLms
             => attempt.restored
    BY DEF BareInv
  <2>4. pc' \notin {"CreateDbsAndUsers"} \cup Creation
    BY <1>2, <2>1, <2>3, ScriptTable, NextCommands
  <2>5. pc' \in {"RestartMySQL", "ProvisionMongo", "UpLms", "done"} \cup AfterUpLms
          => RestoreDump \/ attempt.restored
    BY <1>2, <2>1, <2>3, ScriptTable, NextCommands
  <2> QED
    BY <2>2, <2>3, <2>4, <2>5 DEF BareInv
<1>3. CASE \E a \in Attempts : Start(a)
  BY <1>3 DEF Start, BareInv
<1>4. CASE Operator \/ Abort \/ HostCrash
  <2>1. attempt' = attempt /\ pc' \in {pc, "idle", "aborted"}
    BY <1>4, OtherPc
  <2> QED
    BY <2>1 DEF BareInv
<1>5. CASE Background
  BY <1>5 DEF Background, BareInv
<1> QED
  BY <1>2, <1>3, <1>4, <1>5, Steps

\* The inductive invariant holds of every reachable state.
LEMMA RunsInductive == Spec => []RInv
<1>1. Init => RInv
  BY InitInv, InitRuns DEF RInv
<1>2. RInv /\ [Next]_vars => RInv'
  BY NextInv, ContainerNext, CloneNext, IndexNext, BareNext DEF RInv
<1> QED
  BY <1>1, <1>2, PTL DEF Spec

-----------------------------------------------------------------------------
\* provision-lms.sh:41: an attempt that finds a clone in a container it will not
\* recreate does not get past it, whatever happens meanwhile.
THEOREM StaleCloneIsFatal == Spec => []StaleCloneStops
<1>1. RInv => StaleCloneStops
  BY DEF RInv, CloneInv, StaleCloneStops, Creates, AfterClone, AfterImport, AfterCreation,
      AfterLmsAssets, AfterServices
<1> QED
  BY <1>1, RunsInductive, PTL

\* Once a make target has ended well on named volumes, elasticsearch serves the
\* restored index whenever it runs (provision-elasticsearch.sh:5), until destroy or
\* another attempt.
THEOREM IndexIsServed == Spec => []RestoredIndexServed
<1>1. RInv => RestoredIndexServed
  BY DEF RInv, IInv, FinishedInv, Delivered, IndexInv, RestoredIndexServed
<1> QED
  BY <1>1, RunsInductive, PTL

\* provision-elasticsearch.sh finds the container whose volumes it takes.
THEOREM SearchIsThere == Spec => []SearchContainerExists
<1>1. RInv => SearchContainerExists
  BY DEF RInv, IInv, AttemptInv, SearchContainerExists, AfterUpLms, AfterCreation,
      AfterLmsAssets, AfterServices
<1> QED
  BY <1>1, RunsInductive, PTL

\* provision.sh:20-22: without DB_PROVISION in the environment the database is
\* restored and nothing is created in it.
THEOREM BareRunRestoresOnly == Spec => []BareRunImportsNothing
<1>1. RInv => BareRunImportsNothing
  BY DEF RInv, BareInv, BareRunImportsNothing
<1> QED
  BY <1>1, RunsInductive, PTL

-----------------------------------------------------------------------------
\* What mysql has written to the volume it uses stays there.
Keeps == Survives(disk.mysql, disk'.mysql)

LEMMA SurvivesItself == ASSUME NEW db PROVE Survives(db, db)
BY DEF Survives

\* Steps of the stores keep it, except for an extraction over mysql's files.
LEMMA StoresKeep ==
    ASSUME IInv
    PROVE  /\ \A S, files : Up(S, files) /\ "mysql" \notin Fresh(LinkClosure(S), files) => Keeps
           /\ \A S : StopStores(Flushed(S)) => Keeps
           /\ \A mark : MarkMySQL(mark) => Keeps
           /\ \A mark : WriteMongo(mark) => Keeps
           /\ \A index : Extract("elasticsearch", index) => Keeps
           /\ disk'.mysql = disk.mysql => Keeps
<1>1. disk.mysql \in MySQLData
  BY DEF IInv, TypeOK, StoreTypeOK, Data
<1>2. ASSUME NEW mark, MarkMySQL(mark) PROVE Keeps
  <2>1. /\ "mysql" \notin detached =>
             disk'.mysql = [disk.mysql EXCEPT !.marks = @ \cup {mark}]
        /\ "mysql" \in detached => disk' = disk
    BY <1>2, MarkEffect DEF IInv
  <2> QED
    BY <1>1, <2>1 DEF Keeps, Survives, MySQLData
<1>3. ASSUME NEW S, NEW files, Up(S, files), "mysql" \notin Fresh(LinkClosure(S), files)
      PROVE  Keeps
  <2>1. disk'.mysql.marks = disk.mysql.marks /\ disk'.mysql.account = disk.mysql.account
    BY <1>3, UpEffect DEF IInv
  <2> QED
    BY <2>1 DEF Keeps, Survives
<1>4. ASSUME disk'.mysql = disk.mysql PROVE Keeps
  BY <1>4, SurvivesItself DEF Keeps
<1> USE DEF IInv, TypeOK, StoreTypeOK, Data
<1>5. ASSUME NEW S, StopStores(Flushed(S)) PROVE Keeps
  BY <1>4, <1>5 DEF StopStores, Flushed
<1>6. ASSUME NEW mark, WriteMongo(mark) PROVE Keeps
  BY <1>4, <1>6 DEF WriteMongo
<1>7. ASSUME NEW index, Extract("elasticsearch", index) PROVE Keeps
  BY <1>4, <1>7 DEF Extract
<1> QED
  BY <1>2, <1>3, <1>4, <1>5, <1>6, <1>7

\* The two commands that change an account make it out of what is there.
LEMMA AccountsKeep ==
    ASSUME IInv, ManageUser \/ SetPassword
    PROVE  Keeps
<1>1. /\ disk \in Data /\ open \in Data /\ user \in Accounts
      /\ "mysql" \notin detached => open.mysql = disk.mysql
  BY DEF IInv, TypeOK, StoreTypeOK, ScriptTypeOK, StoreInv
<1>2. CASE ManageUser
  BY <1>1, <1>2 DEF ManageUser, WriteMySQL, Keeps, Survives, Data, MySQLData
<1>3. CASE SetPassword
  BY <1>1, <1>3 DEF SetPassword, WriteMySQL, storeVars, Keeps, Survives, Data, MySQLData
<1> QED
  BY <1>2, <1>3

\* The dump, or a part of it, is extracted over mysql's volume.
Extracted == pc = "RestoreDump" /\ pc' # pc

\* Steps other than that, destroy and the removal of an anonymous volume keep what
\* is in the volume, as long as mysql goes on with it.
LEMMA StepKeeps ==
    ASSUME IInv, ContainerInv, [Next]_vars, ~ Extracted, ~ Destroy,
           "mysql" \in anonymous => ~ Down,
           "mysql" \notin anonymous => "mysql" \notin anonymous'
    PROVE  Keeps
<1>0. ASSUME NEW S, NEW files, Up(S, files)
      PROVE  Keeps
  <2>1. "mysql" \notin Fresh(LinkClosure(S), files)
    BY <1>0 DEF Up, Fresh, ContainerInv
  <2> QED
    BY <1>0, <2>1, StoresKeep
<1>1. CASE Script
  <2>1. CASE UpDatabases \/ UpLms \/ UpStudio \/ UpNginx
    BY <1>0, <2>1 DEF UpDatabases, UpLms, UpStudio, UpNginx
  <2>2. CASE CreateDbsAndUsers \/ LmsMigrate \/ ConfigureCommerce \/ CmsMigrate
    BY <2>2, StoresKeep DEF CreateDbsAndUsers, LmsMigrate, ConfigureCommerce, CmsMigrate
  <2>3. CASE ProvisionMongo \/ ImportDemo
    BY <2>3, StoresKeep DEF ProvisionMongo, ImportDemo, storeVars
  <2>4. CASE RestoreSearch \/ MakeStop
    BY <2>4, StoresKeep DEF RestoreSearch, MakeStop
  <2>5. CASE WaitMySQL \/ Sleep20 \/ PrepareLms \/ CloneDemo \/ LmsAssets \/ StudioSyslog
             \/ CmsAssets
    BY <2>5, StoresKeep
    DEF WaitMySQL, Sleep20, PrepareLms, CloneDemo, LmsAssets, StudioSyslog, CmsAssets, storeVars
  <2>6. ~ RestoreDump
    BY DEF RestoreDump, Run, Extracted
  <2>7. CASE RestartMySQL
    <3>1. disk.mysql \in MySQLData
      BY DEF IInv, TypeOK, StoreTypeOK, Data
    <3>2. disk'.mysql.marks = disk.mysql.marks /\ disk'.mysql.account = disk.mysql.account
      BY <2>7, <3>1
      DEF RestartMySQL, StartStores, AfterStart, Starting, IInv, TypeOK, StoreTypeOK, Data, MySQLData
    <3> QED
      BY <3>2 DEF Keeps, Survives
  <2> QED
    BY <1>1, <2>1, <2>2, <2>3, <2>4, <2>5, <2>6, <2>7, AccountsKeep DEF Script
<1>2. CASE \E a \in Attempts : Start(a)
  BY <1>2, StoresKeep DEF Start, storeVars
<1>3. CASE Operator
  <2>1. CASE Stop
    BY <2>1, StoresKeep DEF Stop
  <2>2. CASE Down
    <3>1. disk'.mysql = disk.mysql
      BY <2>2 DEF Down, RemoveAll, StopStores, Chosen, Flushed, IInv, TypeOK, StoreTypeOK, Data
    <3> QED
      BY <3>1, StoresKeep
  <2>3. CASE DevUp
    BY <1>0, <2>3 DEF DevUp
  <2> QED
    BY <1>3, <2>1, <2>2, <2>3 DEF Operator
<1>4. CASE Abort
  <2>1. pc # "RestoreDump"
    BY <1>4 DEF Abort, Extracted
  <2> QED
    BY <1>4, <2>1, StoresKeep DEF Abort, storeVars
<1>5. CASE HostCrash
  BY <1>5, StoresKeep DEF HostCrash
<1>6. CASE Register \/ UNCHANGED vars
  BY <1>6, StoresKeep DEF Register, vars
<1>7. CASE MySQLInitialised
  <2>1. /\ disk \in Data /\ open \in Data
        /\ "mysql" \notin detached => open.mysql = disk.mysql
    BY DEF IInv, TypeOK, StoreTypeOK, StoreInv
  <2> QED
    BY <1>7, <2>1 DEF MySQLInitialised, Keeps, Survives, Data, MySQLData
<1>8. CASE MySQLDies \/ (\E s \in Servers : ServerReady(s))
  BY <1>8, StoresKeep DEF MySQLDies, ServerReady
<1>9. CASE MongoCheckpoint
  <2>1. disk'.mysql = disk.mysql
    BY <1>9 DEF MongoCheckpoint, IInv, TypeOK, StoreTypeOK, Data
  <2> QED
    BY <2>1, StoresKeep
<1> QED
  BY <1>1, <1>2, <1>3, <1>4, <1>5, <1>6, <1>7, <1>8, <1>9 DEF Next, StoreStep

\* Only `up`, down and destroy change which volumes are in use.
LEMMA VolumesStay ==
    ASSUME [Next]_vars, ~ Down, ~ Destroy, ~ (\E S, files : Up(S, files))
    PROVE  UNCHANGED <<anonymous, kept>>
<1>1. CASE Script
  BY <1>1, QuietCompose DEF UpDatabases, UpLms, UpStudio, UpNginx, RestartMySQL, CloneDemo,
      MakeStop, composeVars
<1>2. CASE Operator \/ Abort \/ HostCrash \/ Background \/ \E a \in Attempts : Start(a)
  BY <1>2 DEF Operator, Stop, DevUp, Abort, HostCrash, Background, Start, composeVars
<1> QED
  BY <1>1, <1>2, Steps

\* The named volume of mysql, in use or put aside by a container that has another.
LEMMA NamedKeeps ==
    ASSUME IInv, ContainerInv, [Next]_vars, ~ Destroy,
           ~ ("mysql" \notin anonymous /\ Extracted)
    PROVE  Survives(NamedMySQL, NamedMySQL')
<1>1. CASE Down
  <2>1. NamedMySQL' = NamedMySQL
    BY <1>1 DEF Down, RemoveAll, StopStores, Chosen, Flushed, NamedMySQL, IInv, TypeOK,
        StoreTypeOK, Data
  <2> QED
    BY <2>1, SurvivesItself
<1>2. CASE ~ Down /\ \E S, files : Up(S, files)
  <2>1. PICK S, files : Up(S, files)
    BY <1>2
  <2> DEFINE new == Fresh(LinkClosure(S), files)
  <2>2. anonymous' = anonymous \cup new /\ kept' = Chosen(new, disk, kept)
    BY <2>1 DEF Up
  <2>3. "mysql" \in new => "mysql" \notin anonymous
    BY DEF Fresh, ContainerInv
  <2> HIDE DEF new
  <2>4. CASE "mysql" \in new
    <3>1. NamedMySQL' = NamedMySQL
      BY <2>2, <2>3, <2>4 DEF NamedMySQL, Chosen
    <3> QED
      BY <3>1, SurvivesItself
  <2>5. CASE "mysql" \notin new /\ "mysql" \in anonymous
    <3>1. NamedMySQL' = NamedMySQL
      BY <2>2, <2>5 DEF NamedMySQL, Chosen
    <3> QED
      BY <3>1, SurvivesItself
  <2>6. CASE "mysql" \notin new /\ "mysql" \notin anonymous
    <3>1. "mysql" \notin anonymous'
      BY <2>2, <2>6
    <3>2. Keeps
      BY <1>2, <2>6, <3>1, StepKeeps
    <3> QED
      BY <2>6, <3>1, <3>2 DEF NamedMySQL, Keeps
  <2> QED
    BY <2>4, <2>5, <2>6
<1>3. CASE ~ Down /\ ~ \E S, files : Up(S, files)
  <2>1. UNCHANGED <<anonymous, kept>>
    BY <1>3, VolumesStay
  <2>2. CASE "mysql" \in anonymous
    <3>1. NamedMySQL' = NamedMySQL
      BY <2>1, <2>2 DEF NamedMySQL
    <3> QED
      BY <3>1, SurvivesItself
  <2>3. CASE "mysql" \notin anonymous
    <3>1. Keeps
      BY <2>1, <2>3, StepKeeps
    <3> QED
      BY <2>1, <2>3, <3>1 DEF NamedMySQL, Keeps
  <2> QED
    BY <2>2, <2>3
<1> QED
  BY <1>1, <1>2, <1>3

\* What mysql wrote to a volume, learners' accounts included, is lost only to an
\* extraction of the dump over that volume or to destroy, and to down if the
\* volume is the anonymous one of a container that docker-compose.yml alone made
\* (README.rst:217-226); what a named volume holds survives all that is done while
\* mysql uses another.
THEOREM NothingElseLoses == Spec => OnlyRestoreOrDestroyLoses
<1>1. ASSUME RInv, [Next]_vars
      PROVE  /\ \/ "mysql" \notin anonymous /\ pc = "RestoreDump" /\ pc' # pc
                \/ Destroy
                \/ Survives(NamedMySQL, NamedMySQL')
             /\ "mysql" \in anonymous =>
                  \/ pc = "RestoreDump" /\ pc' # pc
                  \/ Down \/ Destroy
                  \/ Survives(disk.mysql, disk'.mysql)
  BY <1>1, NamedKeeps, StepKeeps DEF RInv, Extracted, Keeps
<1>2. RInv /\ [Next]_vars =>
        [LET extracted == pc = "RestoreDump" /\ pc' # pc
         IN  /\ \/ "mysql" \notin anonymous /\ extracted
                \/ Destroy
                \/ Survives(NamedMySQL, NamedMySQL')
             /\ "mysql" \in anonymous =>
                  extracted \/ Down \/ Destroy \/ Survives(disk.mysql, disk'.mysql)]_vars
  BY <1>1
<1> QED
  BY <1>2, RunsInductive, PTL DEF Spec, OnlyRestoreOrDestroyLoses

-----------------------------------------------------------------------------
\* The dump and the first start of mysql.

\* When the dump is about to be extracted mysql has its system tables.
SettledInv == pc = "RestoreDump" => server["mysql"] # "init"

\* Only the sleep leads to the extraction.
LEMMA BeforeRestore == ASSUME Script, pc' = "RestoreDump" PROVE Sleep20
<1>1. pc = "Sleep20"
  BY ScriptTable DEF AfterPrepareLms, AfterLmsMigrate, AfterCommerce, AfterStudioSyslog, AfterCmsMigrate
<1> QED
  BY <1>1 DEF Script, UpDatabases, WaitMySQL, RestoreDump, RestartMySQL, CreateDbsAndUsers,
      ProvisionMongo, UpLms, PrepareLms, LmsMigrate, ManageUser, SetPassword, CloneDemo,
      ImportDemo, ConfigureCommerce, LmsAssets, UpStudio, StudioSyslog, CmsMigrate, CmsAssets,
      RestoreSearch, UpNginx, MakeStop, Run

LEMMA SettledNext ==
    ASSUME SleepsSuffice, TypeOK, SettledInv, [Next]_vars
    PROVE  SettledInv'
<1> SUFFICES ASSUME pc' = "RestoreDump" PROVE server'["mysql"] # "init"
  BY DEF SettledInv
<1>1. CASE Script
  <2>1. Sleep20
    BY <1>1, BeforeRestore
  <2>2. pc = "Sleep20" /\ InTime("Sleep20") /\ UNCHANGED server
    BY <2>1 DEF Sleep20, Run, storeVars
  <2>3. "mysql" \in Needs("Sleep20")
    BY DEF Needs
  <2> QED
    BY <2>2, <2>3 DEF InTime
<1>2. CASE StoreStep
  <2>1. pc = "RestoreDump"
    BY <1>2 DEF StoreStep, MySQLInitialised, MySQLDies, MongoCheckpoint, ServerReady, scriptVars
  <2>2. \A s \in Servers : server'[s] = "init" => server[s] = "init"
    BY <1>2 DEF StoreStep, MySQLInitialised, MySQLDies, MongoCheckpoint, ServerReady, TypeOK, StoreTypeOK
  <2> QED
    BY <2>1, <2>2 DEF SettledInv, Servers
<1>3. CASE Register \/ UNCHANGED vars
  BY <1>3 DEF Register, MarkMySQL, WriteMySQL, vars, scriptVars, storeVars, SettledInv
<1>4. ~ (\E a \in Attempts : Start(a)) /\ ~ Abort
  BY DEF Start, Abort
<1>5. ~ Operator
  BY Disjoint DEF Operator, Stop, Down, Destroy, DevUp, scriptVars, Resting, Commands
<1>6. ~ HostCrash
  BY DEF HostCrash, Commands
<1> QED
  BY <1>1, <1>2, <1>3, <1>4, <1>5, <1>6 DEF Next

\* If the sleeps outlast a start of mysql, the dump is never mixed with the
\* system tables it is still creating, whatever attempts, crashes and make targets
\* came before (provision.sh:37-46).
THEOREM RestoredOntoSettledFiles ==
    ASSUME SleepsSuffice
    PROVE  Spec => RestoredIntoSettledServer
<1>1. Init => SettledInv
  BY DEF Init, SettledInv
<1>2. TypeOK /\ SettledInv /\ [Next]_vars => SettledInv'
  BY SettledNext
<1>3. SettledInv /\ [Next]_vars =>
        [pc = "RestoreDump" /\ disk'.mysql # disk.mysql => server["mysql"] # "init"]_vars
  BY DEF SettledInv
<1> QED
  BY <1>1, <1>2, <1>3, TypeCorrect, PTL DEF Spec, RestoredIntoSettledServer

-----------------------------------------------------------------------------
\* The passwords of the demo accounts.

\* Without a failure, in this attempt or an earlier one, nothing is swallowed.
PasswordInv ==
    failures = 0 /\ Creates /\ attempt.named =>
        /\ pc = "SetPassword" => server["mysql"] = "ready"
        /\ pc \in {"ManageUser", "SetPassword"} =>
             \A a \in Accounts : a < user => disk.mysql.account[a] = "usable"
        /\ pc \in AfterAccounts \cup {"finished"} =>
             \A a \in Accounts : disk.mysql.account[a] = "usable"

\* A password that is set reaches the volume.
LEMMA PasswordSet ==
    ASSUME IInv, SetPassword, Creates, server["mysql"] = "ready", failures' = failures
    PROVE  disk'.mysql.account[user] = "usable"
<1>1. "mysql" \notin detached /\ open.mysql = disk.mysql
  BY FlagsLead DEF IInv, ScriptInv, MySQLInv, StoreInv, AfterRestart, Commands, SetPassword, Run
<1>2. disk \in Data /\ open \in Data /\ user \in Accounts /\ failures \in Nat
  BY ConstantsAssumption DEF IInv, TypeOK, StoreTypeOK, ScriptTypeOK
<1>3. WriteMySQL([open.mysql EXCEPT !.account[user] = "usable"])
  BY <1>2 DEF SetPassword
<1> QED
  BY <1>1, <1>2, <1>3 DEF WriteMySQL, Data, MySQLData

\* An attempt on named volumes finds and leaves no other.
LEMMA NamedStays ==
    ASSUME IInv, [Next]_vars, attempt.named, attempt'.named
    PROVE  anonymous = {} /\ anonymous' = {}
BY AttemptNext DEF IInv, AttemptInv

LEMMA PasswordScript ==
    ASSUME IInv, ContainerInv, PasswordInv, Script,
           failures' = 0, Creates, attempt.named, failures = 0
    PROVE  PasswordInv'
<1>1. /\ Creates' /\ Restores
      /\ AfterLmsMigrate(attempt.env) = "ManageUser"
      /\ AfterPrepareLms(attempt.env) \in {"LmsMigrate", "ManageUser"}
  <2>1. attempt'.env = attempt.env
    BY ScriptHistory DEF IInv
  <2>2. Migrates \/ ~ Migrates
    OBVIOUS
  <2> QED
    BY <2>1, <2>2, SameFlags, FlagsLead
<1>2. user \in Accounts /\ NAccounts \in Nat
  BY ConstantsAssumption DEF IInv, TypeOK, ScriptTypeOK
<1>3. pc # "RestoreDump" => Keeps
  <2>1. ~ Destroy
    <3>1. pc \in Commands
      BY ScriptTable DEF Commands
    <3> QED
      BY <3>1, Disjoint DEF Destroy
  <2>2. anonymous = {} /\ anonymous' = {}
    BY NamedStays, ScriptHistory DEF IInv, Next
  <2> QED
    BY <2>1, <2>2, StepKeeps DEF Next, Extracted
<1>4. CASE pc = "SetPassword"
  <2>1. SetPassword
    BY <1>4 DEF Script, UpDatabases, WaitMySQL, Sleep20, RestoreDump, RestartMySQL,
        CreateDbsAndUsers, ProvisionMongo, UpLms, PrepareLms, LmsMigrate, ManageUser, CloneDemo,
        ImportDemo, ConfigureCommerce, LmsAssets, UpStudio, StudioSyslog, CmsMigrate, CmsAssets,
        RestoreSearch, UpNginx, MakeStop, Run
  <2>2. /\ disk'.mysql.account[user] = "usable"
        /\ \A a \in Accounts : a < user => disk'.mysql.account[a] = "usable"
    BY <1>3, <1>4, <2>1, PasswordSet DEF PasswordInv, Keeps, Survives
  <2>3. /\ user' = NextUser(user)
        /\ pc' = IF user < NAccounts THEN "ManageUser" ELSE "CloneDemo"
    BY <2>1 DEF SetPassword, Run
  <2>4. \A a \in Accounts : a <= user => disk'.mysql.account[a] = "usable"
    BY <1>2, <2>2 DEF Accounts
  <2>5. CASE user < NAccounts
    BY <1>2, <2>3, <2>4, <2>5 DEF NextUser, Accounts, PasswordInv, AfterAccounts, AfterImport,
       AfterCreation, AfterLmsAssets, AfterServices
  <2>6. CASE ~ (user < NAccounts)
    <3>1. \A a \in Accounts : a <= user
      BY <1>2, <2>6 DEF Accounts
    <3> QED
      BY <2>3, <2>4, <2>6, <3>1 DEF PasswordInv
  <2> QED
    BY <2>5, <2>6
<1>5. CASE pc = "ManageUser"
  <2>1. ManageUser
    BY <1>5 DEF Script, UpDatabases, WaitMySQL, Sleep20, RestoreDump, RestartMySQL,
        CreateDbsAndUsers, ProvisionMongo, UpLms, PrepareLms, LmsMigrate, SetPassword, CloneDemo,
        ImportDemo, ConfigureCommerce, LmsAssets, UpStudio, StudioSyslog, CmsMigrate, CmsAssets,
        RestoreSearch, UpNginx, MakeStop, Run
  <2>2. pc' = "SetPassword" /\ UNCHANGED <<user, server>> /\ server["mysql"] = "ready"
    BY <2>1 DEF ManageUser, Run, CanRun, WriteMySQL
  <2>3. \A a \in Accounts : a < user => disk'.mysql.account[a] = "usable"
    BY <1>3, <1>5 DEF PasswordInv, Keeps, Survives
  <2> QED
    BY <2>2, <2>3 DEF PasswordInv, AfterAccounts, AfterImport, AfterCreation, AfterLmsAssets,
       AfterServices
<1>6. CASE pc \in {"PrepareLms", "LmsMigrate"}
  <2>1. pc' \in {"LmsMigrate", "ManageUser"} /\ user' = user /\ user = 1
    <3>1. UNCHANGED user
      BY <1>6 DEF Script, UpDatabases, WaitMySQL, Sleep20, RestoreDump, RestartMySQL,
          CreateDbsAndUsers, ProvisionMongo, UpLms, PrepareLms, LmsMigrate, ManageUser,
          SetPassword, CloneDemo, ImportDemo, ConfigureCommerce, LmsAssets, UpStudio,
          StudioSyslog, CmsMigrate, CmsAssets, RestoreSearch, UpNginx, MakeStop, Run
    <3>2. pc' \in {"LmsMigrate", "ManageUser"}
      BY <1>1, <1>6, ScriptTable
    <3> QED
      BY <1>6, <3>1, <3>2 DEF IInv, ScriptInv, AccountInv
  <2>2. \A a \in Accounts : ~ (a < 1)
    BY DEF Accounts
  <2> QED
    BY <2>1, <2>2 DEF PasswordInv, AfterAccounts, AfterImport, AfterCreation, AfterLmsAssets,
       AfterServices
<1>7. CASE pc \in AfterAccounts
  <2>1. pc' \notin {"ManageUser", "SetPassword"}
    BY <1>7, ScriptTable
    DEF AfterAccounts, AfterImport, AfterCreation, AfterLmsAssets, AfterServices, AfterCommerce,
        AfterStudioSyslog, AfterCmsMigrate
  <2>2. pc # "RestoreDump"
    BY <1>7 DEF AfterAccounts, AfterImport, AfterCreation, AfterLmsAssets, AfterServices
  <2> QED
    BY <1>3, <1>7, <2>1, <2>2 DEF PasswordInv, Keeps, Survives
<1>8. CASE pc \notin {"SetPassword", "ManageUser", "PrepareLms", "LmsMigrate"} \cup AfterAccounts
  <2>1. pc' \in {"WaitMySQL", "Sleep20", AfterSleep(attempt.env), "RestartMySQL", "ProvisionMongo",
                 "UpLms", "PrepareLms"}
    BY <1>8, ScriptTable DEF AfterAccounts, AfterImport, AfterCreation, AfterLmsAssets, AfterServices
  <2>2. AfterSleep(attempt.env) = "RestoreDump"
    BY <1>1, FlagsLead
  <2> QED
    BY <2>1, <2>2 DEF PasswordInv, AfterAccounts, AfterImport, AfterCreation, AfterLmsAssets,
       AfterServices
<1> QED
  BY <1>4, <1>5, <1>6, <1>7, <1>8

LEMMA PasswordNext ==
    ASSUME IInv, ContainerInv, PasswordInv, [Next]_vars
    PROVE  PasswordInv'
<1> SUFFICES ASSUME failures' = 0, Creates', attempt'.named PROVE PasswordInv'
  BY DEF PasswordInv
<1> USE DEF AfterAccounts, AfterImport, AfterCreation, AfterLmsAssets, AfterServices
<1>1. CASE \E a \in Attempts : Start(a)
  BY <1>1 DEF Start, PasswordInv
<1>2. CASE Abort
  BY <1>2 DEF Abort, PasswordInv
<1>3. ~ HostCrash
  BY ConstantsAssumption DEF HostCrash, IInv, TypeOK, ScriptTypeOK
<1>4. failures = 0
  <2>1. failures \in Nat /\ failures' >= failures
    <3>1. failures \in Nat
      BY ConstantsAssumption DEF IInv, TypeOK, ScriptTypeOK
    <3> QED
      BY <3>1
      DEF vars, scriptVars, Next, Script, Operator, StoreStep, Register, Start, Abort, HostCrash,
          UpDatabases, WaitMySQL, Sleep20, RestoreDump, RestartMySQL, CreateDbsAndUsers,
          ProvisionMongo, UpLms, PrepareLms, LmsMigrate, ManageUser, SetPassword, CloneDemo,
          ImportDemo, ConfigureCommerce, LmsAssets, UpStudio, StudioSyslog, CmsMigrate,
          CmsAssets, RestoreSearch, UpNginx, MakeStop, Stop, Down, Destroy, DevUp,
          MySQLInitialised, MySQLDies, MongoCheckpoint, ServerReady
  <2> QED
    BY <2>1
<1>5. CASE Script
  <2>1. Creates /\ attempt.named
    <3>1. attempt'.env = attempt.env /\ attempt'.named = attempt.named
      BY <1>5, ScriptHistory DEF IInv
    <3> QED
      BY <3>1, SameFlags
  <2> QED
    BY <1>4, <1>5, <2>1, PasswordScript
<1>6. CASE Operator
  <2>1. pc \in Resting /\ pc' \in {pc, "idle"} /\ Creates /\ attempt.named
    BY <1>6, OtherPc, SameFlags
  <2>2. CASE Destroy
    BY <2>2 DEF Destroy, PasswordInv
  <2>3. CASE ~ Destroy
    <3>1. Keeps
      <4>1. ~ Extracted
        BY <2>1 DEF Resting, Extracted
      <4>2. anonymous = {} /\ anonymous' = {}
        BY <2>1, NamedStays
      <4> QED
        BY <2>3, <4>1, <4>2, StepKeeps
    <3> QED
      BY <1>4, <2>1, <3>1 DEF PasswordInv, Keeps, Survives, Resting
  <2> QED
    BY <2>2, <2>3
<1>7. CASE Background
  <2>1. pc' = pc /\ Creates /\ attempt.named /\ user' = user
    <3>1. UNCHANGED user
      BY <1>7 DEF Background, StoreStep, Register, vars, MySQLInitialised, MySQLDies,
          MongoCheckpoint, ServerReady, scriptVars
    <3> QED
      BY <1>7, <3>1, SameFlags DEF Background
  <2>2. server["mysql"] = "ready" => server'["mysql"] = "ready"
    BY <1>7 DEF Background, StoreStep, Register, MarkMySQL, WriteMySQL, vars, storeVars,
       MySQLInitialised, MySQLDies, MongoCheckpoint, ServerReady, IInv, TypeOK, StoreTypeOK, Servers
  <2>3. CASE pc \in {"ManageUser", "SetPassword", "finished"} \cup AfterAccounts
    <3>1. Keeps
      <4>1. ~ Extracted /\ ~ Destroy
        BY <2>1, <2>3 DEF Destroy, Resting, Extracted
      <4>2. anonymous = {} /\ anonymous' = {}
        BY <2>1, NamedStays
      <4> QED
        BY <4>1, <4>2, StepKeeps
    <3> QED
      BY <1>4, <2>1, <2>2, <3>1 DEF PasswordInv, Keeps, Survives
  <2>4. CASE pc \notin {"ManageUser", "SetPassword", "finished"} \cup AfterAccounts
    BY <2>1, <2>4 DEF PasswordInv
  <2> QED
    BY <2>3, <2>4
<1> QED
  BY <1>1, <1>2, <1>3, <1>5, <1>6, <1>7, Steps

\* README.rst:129-130: "The passwords for each of these accounts is edx."  So
\* they are, after a make target on named volumes, as long as no command has failed
\* and the host has not crashed: the failure that provision-lms.sh swallows is the
\* only way to leave one unset.
THEOREM PasswordsWithoutFailure ==
    Spec => [](failures = 0 /\ attempt.named => DemoPasswordsAreSet)
<1>1. Init => PasswordInv
  BY DEF Init, PasswordInv, AfterAccounts, AfterImport, AfterCreation, AfterLmsAssets,
     AfterServices
<1>2. RInv /\ PasswordInv /\ [Next]_vars => PasswordInv'
  BY PasswordNext DEF RInv
<1>3. RInv /\ PasswordInv => (failures = 0 /\ attempt.named => DemoPasswordsAreSet)
  BY DEF PasswordInv, DemoPasswordsAreSet, Creates, Inherited, Own
<1> QED
  BY <1>1, <1>2, <1>3, RunsInductive, PTL DEF Spec

-----------------------------------------------------------------------------
\* What is left of an attempt: the commands, and two more for each account.
Rank(cmd) ==
    CASE cmd = "UpDatabases"  -> 23  [] cmd = "WaitMySQL"         -> 22
      [] cmd = "Sleep20"      -> 21  [] cmd = "RestoreDump"       -> 20
      [] cmd = "RestartMySQL" -> 19  [] cmd = "CreateDbsAndUsers" -> 18
      [] cmd = "ProvisionMongo" -> 17  [] cmd = "UpLms"           -> 16
      [] cmd = "PrepareLms"   -> 15  [] cmd = "LmsMigrate"        -> 14
      [] cmd = "ManageUser"   -> 13  [] cmd = "SetPassword"       -> 12
      [] cmd = "CloneDemo"    -> 11  [] cmd = "ImportDemo"        -> 10
      [] cmd = "ConfigureCommerce" -> 9  [] cmd = "LmsAssets"     -> 8
      [] cmd = "UpStudio"     -> 7   [] cmd = "StudioSyslog"      -> 6
      [] cmd = "CmsMigrate"   -> 5   [] cmd = "CmsAssets"         -> 4
      [] cmd = "RestoreSearch" -> 3  [] cmd = "UpNginx"           -> 2
      [] cmd = "MakeStop"     -> 1   [] OTHER                     -> 0

AccountsLeft == IF Rank(pc) > Rank("CloneDemo") THEN 2 * (NAccounts - user) ELSE 0

Remaining == Rank(pc) + AccountsLeft

LEMMA RemainingType ==
    ASSUME TypeOK
    PROVE  Remaining \in 0 .. 2 * NAccounts + 21
<1>1. NAccounts \in Nat \ {0} /\ user \in 1 .. NAccounts
  BY ConstantsAssumption DEF TypeOK, ScriptTypeOK, Accounts
<1>2. Rank(pc) \in 0 .. 23
  BY DEF Rank
<1>3. AccountsLeft \in 0 .. 2 * NAccounts - 2
  BY <1>1 DEF AccountsLeft
<1> QED
  BY <1>1, <1>2, <1>3 DEF Remaining

\* Every command leads to a later one; only the loop over the accounts goes back.
LEMMA ScriptAdvances ==
    ASSUME IInv, Script
    PROVE  Remaining' < Remaining /\ Remaining' <= Remaining
<1>1. NAccounts \in Nat \ {0} /\ user \in 1 .. NAccounts
  BY ConstantsAssumption DEF IInv, TypeOK, ScriptTypeOK, Accounts
<1>2. Rank(pc) \in 0 .. 23 /\ Rank(pc') \in 0 .. 23 /\ Rank("CloneDemo") = 11
  BY DEF Rank
<1>3. CASE SetPassword
  <2>1. /\ pc = "SetPassword" /\ user' = NextUser(user)
        /\ pc' = IF user < NAccounts THEN "ManageUser" ELSE "CloneDemo"
    BY <1>3 DEF SetPassword, Run
  <2> QED
    BY <1>1, <2>1 DEF NextUser, Remaining, AccountsLeft, Rank
<1>4. CASE ~ SetPassword
  <2>1. user' = user
    BY <1>4 DEF Script, UpDatabases, WaitMySQL, Sleep20, RestoreDump, RestartMySQL,
        CreateDbsAndUsers, ProvisionMongo, UpLms, PrepareLms, LmsMigrate, ManageUser, CloneDemo,
        ImportDemo, ConfigureCommerce, LmsAssets, UpStudio, StudioSyslog, CmsMigrate, CmsAssets,
        RestoreSearch, UpNginx, MakeStop
  <2>2. pc # "SetPassword"
    BY <1>4 DEF Script, UpDatabases, WaitMySQL, Sleep20, RestoreDump, RestartMySQL,
        CreateDbsAndUsers, ProvisionMongo, UpLms, PrepareLms, LmsMigrate, ManageUser, CloneDemo,
        ImportDemo, ConfigureCommerce, LmsAssets, UpStudio, StudioSyslog, CmsMigrate, CmsAssets,
        RestoreSearch, UpNginx, MakeStop, Run
  <2>3. Rank(pc') < Rank(pc)
    BY <2>2, ScriptTable, NextCommands DEF Rank
  <2> QED
    BY <1>1, <1>2, <2>1, <2>3 DEF Remaining, AccountsLeft
<1> QED
  BY <1>3, <1>4

LEMMA OthersDoNotDelay ==
    ASSUME IInv, [Next]_vars
    PROVE  Remaining' <= Remaining \/ \E a \in Attempts : Start(a)
<1>1. Remaining \in Nat
  BY RemainingType, ConstantsAssumption DEF IInv
<1>2. CASE Script
  BY <1>2, ScriptAdvances
<1>3. CASE Operator \/ Abort \/ HostCrash
  <2>1. pc' \in Resting
    <3>1. CASE Operator
      BY <3>1, OtherPc DEF Resting
    <3>2. CASE Abort
      BY <3>2, OtherPc DEF Resting
    <3>3. CASE HostCrash
      BY <3>3 DEF HostCrash, Resting, IInv, TypeOK, ScriptTypeOK
    <3> QED
      BY <1>3, <3>1, <3>2, <3>3
  <2>2. pc' \in Resting => Remaining' = 0
    BY DEF Remaining, AccountsLeft, Rank, Resting
  <2> QED
    BY <1>1, <2>1, <2>2
<1>4. CASE Background
  <2>1. UNCHANGED <<pc, user>>
    BY <1>4 DEF Background, StoreStep, Register, vars, MySQLInitialised, MySQLDies,
       MongoCheckpoint, ServerReady, scriptVars
  <2> QED
    BY <1>1, <2>1 DEF Remaining, AccountsLeft
<1> QED
  BY <1>2, <1>3, <1>4, Steps

\* An attempt runs at most 23 commands, and two more for each account but the
\* first: whatever the flags, no command leads back to an earlier one, and no
\* server, learner, operator or crash sends the script back.
THEOREM AttemptsAreBounded ==
    Spec => /\ [](Remaining \in 0 .. 2 * NAccounts + 21)
            /\ [][/\ Script => Remaining' < Remaining
                  /\ Remaining' <= Remaining \/ \E a \in Attempts : Start(a)]_vars
<1>1. IInv => Remaining \in 0 .. 2 * NAccounts + 21
  BY RemainingType DEF IInv
<1>2. IInv /\ [Next]_vars =>
        [/\ Script => Remaining' < Remaining
         /\ Remaining' <= Remaining \/ \E a \in Attempts : Start(a)]_vars
  BY ScriptAdvances, OthersDoNotDelay
<1> QED
  BY <1>1, <1>2, Inductive, PTL DEF Spec
=============================================================================
