-------------------------- MODULE MongoEntrypoint --------------------------
(***************************************************************************)
(* configs/mongodb/entrypoint.sh, the first process of the mongo container:*)
(* on a data directory it takes for new it runs a temporary mongod, creates*)
(* the root user and runs the init files against it, shuts it down and then*)
(* becomes the mongod of the container's command.                          *)
(*                                                                         *)
(* The switch to the mongodb user, numactl and the --config warning change *)
(* no state.  A command other than mongod is not modelled.                 *)
(***************************************************************************)
EXTENDS MongodArgs

CONSTANTS
    CommandLines,   \* the arguments the container's mongod may be given
    Environments,   \* what MONGO_INITDB_ROOT_USERNAME and _PASSWORD may be
    InitFiles,      \* the kinds of the files in /docker-entrypoint-initdb.d
    MaxFailures     \* bound: kills, and commands that fail without a reason
                    \* that is modelled

\* How one of the variables is set: itself, by its _FILE twin, or both.
Sources == {"none", "variable", "file", "both"}

ASSUME ConstantsAssumption ==
    /\ CommandLines \subseteq Seq(Arguments)
    /\ Environments \subseteq [username : Sources, password : Sources]
    /\ InitFiles \in Seq({"sh", "js", "other"})
    /\ MaxFailures \in Nat

Tries == 30

\* Traces of what the initialisation does: the root user, and the init files.
Root == 0
Traces == {Root} \cup DOMAIN InitFiles

\* What a mongod with WiredTiger and no journal creates in /data/db first, and
\* the paths the entrypoint looks for.
StorageFiles == {"WiredTiger", "storage.bson"}

\* Mutant: only the journal is looked for.
JournalOnly == {"journal"}

KnownPaths == {"WiredTiger", "journal", "local.0", "storage.bson"}

VARIABLES
    pc,         \* "down", a step of the script, or "serving"
    command,    \* the container's arguments and environment: constant
    env,
    hacked,     \* mongodHackedArgs: the temporary server's arguments
    tries,      \* connections still to be tried
    next,       \* the init file to run next
    temp,       \* the temporary server
    files,      \* what is in /data/db, as far as the entrypoint looks
    disk, mem,  \* traces in the volume, and in the server that runs
    failures,   \* failures so far
    history     \* what happened to this data directory

vars == <<pc, command, env, hacked, tries, next, temp, files, disk, mem, failures, history>>

Initialising == {"fork", "wait", "user", "files", "exec"}

Conflict    == env.username = "both" \/ env.password = "both"
Credentials == env.username # "none" /\ env.password # "none"

\* "$@" after --auth was added.
Args == IF Credentials THEN EnsureArg("--auth", command) ELSE command

TypeOK ==
    /\ pc \in {"down", "serving"} \cup Initialising
    /\ command \in CommandLines
    /\ env \in Environments
    /\ hacked \in {<<>>, TemporaryArgs(Args)}
    /\ tries \in 0 .. Tries
    /\ next \in 1 .. Len(InitFiles) + 1
    /\ temp \in {"none", "starting", "up"}
    /\ files \subseteq StorageFiles
    /\ disk \subseteq Traces /\ mem \subseteq Traces
    /\ failures \in 0 .. MaxFailures
    /\ history \subseteq {"interrupted", "silent", "served"}

Init ==
    /\ pc = "down"
    /\ command \in CommandLines
    /\ env \in Environments
    /\ hacked = <<>> /\ tries = 0 /\ next = 1
    /\ temp = "none"
    /\ files = {} /\ disk = {} /\ mem = {}
    /\ failures = 0
    /\ history = {}

-----------------------------------------------------------------------------
Fails == failures < MaxFailures /\ failures' = failures + 1

\* The script ends, and with it, as the first process of the container, the
\* temporary server: what that had not written to the volume is lost.  An initialisation
\* has been cut short if it leaves files.
Exit(found) ==
    /\ pc' = "down"
    /\ temp' = "none" /\ mem' = disk
    /\ history' = IF found = {} \/ pc = "exec" THEN history
                                             ELSE history \cup {"interrupted"}

\* The container starts, up to the search for the known paths and, on new
\* files, the arguments of the temporary server.
Start ==
    /\ pc = "down" /\ ~ Conflict
    /\ IF files \cap KnownPaths # {} THEN pc' = "exec" /\ UNCHANGED hacked
       ELSE IF ShiftFails("--bind_ip", Args) THEN UNCHANGED <<pc, hacked>>
       ELSE pc' = "fork" /\ hacked' = TemporaryArgs(Args)
    /\ UNCHANGED <<command, env, tries, next, temp, files, disk, mem, failures, history>>

\* The temporary server; it may end right away, having created its files.
Fork ==
    /\ pc = "fork"
    /\ IF ~ Accepts(hacked)
         THEN Exit(files) /\ UNCHANGED <<tries, files, failures>>
         ELSE /\ files' = StorageFiles
              /\ \/ /\ pc' = "wait" /\ tries' = Tries /\ temp' = "starting"
                    /\ UNCHANGED <<mem, failures, history>>
                 \/ Fails /\ Exit(StorageFiles) /\ UNCHANGED tries
    /\ UNCHANGED <<command, env, hacked, next, disk>>

\* Mutant: the tries are not counted.
WaitForEver ==
    /\ pc = "wait"
    /\ IF temp = "none" THEN Exit(files) ELSE UNCHANGED <<temp, mem, history>>
    /\ temp # "none" => pc' = IF temp = "up" THEN "user" ELSE "wait"
    /\ UNCHANGED <<tries, command, env, hacked, next, files, disk, failures>>

\* Mutant: the patience is looked at before the try is counted.
WaitOnceMore ==
    /\ pc = "wait"
    /\ \/ temp = "none" /\ Exit(files) /\ UNCHANGED tries
       \/ temp = "up" /\ pc' = "user" /\ UNCHANGED <<tries, temp, mem, history>>
       \/ /\ temp = "starting"
          /\ tries' = tries - 1
          /\ IF tries < 0 THEN Exit(files) ELSE UNCHANGED <<pc, temp, mem, history>>
    /\ UNCHANGED <<command, env, hacked, next, files, disk, failures>>

\* One turn of the loop: is the server alive, does it answer, is the patience
\* at an end?
Wait ==
    /\ pc = "wait"
    /\ \/ temp = "none" /\ Exit(files) /\ UNCHANGED tries
       \/ temp = "up" /\ pc' = "user" /\ UNCHANGED <<tries, temp, mem, history>>
       \/ /\ temp = "starting"
          /\ tries' = tries - 1
          /\ IF tries' = 0 THEN Exit(files) ELSE UNCHANGED <<pc, temp, mem, history>>
    /\ UNCHANGED <<command, env, hacked, next, files, disk, failures>>

\* The shell that creates root reads its commands from its input: it prints
\* an exception and exits with 0.  Without a server it fails.
CreateUser ==
    /\ pc = "user"
    /\ next' = 1
    /\ \/ ~ Credentials /\ pc' = "files" /\ UNCHANGED <<temp, mem, failures, history>>
       \/ Credentials /\ temp = "none" /\ Exit(files) /\ UNCHANGED failures
       \/ /\ Credentials /\ temp # "none"
          /\ pc' = "files"
          /\ \/ mem' = mem \cup {Root} /\ UNCHANGED <<failures, history>>
             \/ Fails /\ history' = history \cup {"silent"} /\ UNCHANGED mem
          /\ UNCHANGED temp
    /\ UNCHANGED <<command, env, hacked, tries, files, disk>>

\* What the init file needs: the server, and root if there are credentials.
FileRuns(kind) == kind # "other" => temp # "none" /\ (Credentials => Root \in mem)

\* Mutant: a failing init file does not end the script.
RunFileRegardless ==
    /\ pc = "files" /\ next <= Len(InitFiles)
    /\ next' = next + 1
    /\ \/ FileRuns(InitFiles[next]) /\ mem' = mem \cup {next} /\ UNCHANGED failures
       \/ ~ FileRuns(InitFiles[next]) /\ UNCHANGED <<mem, failures>>
       \/ Fails /\ UNCHANGED mem
    /\ UNCHANGED <<pc, command, env, hacked, tries, temp, files, disk, history>>

\* The next init file: *.sh is sourced, *.js given to the mongo shell, any
\* other ignored.  A failure ends the script.
RunFile ==
    /\ pc = "files" /\ next <= Len(InitFiles)
    /\ LET kind == InitFiles[next]
       IN  \/ /\ FileRuns(kind)
              /\ next' = next + 1
              /\ mem' = IF kind = "other" THEN mem ELSE mem \cup {next}
              /\ UNCHANGED <<pc, temp, failures, history>>
           \/ /\ IF FileRuns(kind) THEN kind # "other" /\ Fails ELSE UNCHANGED failures
              /\ Exit(files) /\ UNCHANGED next
    /\ UNCHANGED <<command, env, hacked, tries, files, disk>>

\* Mutant: the temporary server is left alone.
NoShutdown ==
    /\ pc = "files" /\ next > Len(InitFiles)
    /\ pc' = "exec"
    /\ UNCHANGED <<command, env, hacked, tries, next, temp, files, disk, mem, failures, history>>

\* `mongod --shutdown` waits for the end of the temporary server, which writes
\* everything to the volume.
Shutdown ==
    /\ pc = "files" /\ next > Len(InitFiles)
    /\ IF temp # "none" /\ Accepts(ShutdownArgs(Args))
         THEN /\ pc' = "exec" /\ temp' = "none" /\ disk' = mem
              /\ UNCHANGED <<mem, history>>
         ELSE Exit(files) /\ UNCHANGED disk
    /\ UNCHANGED <<command, env, hacked, tries, next, files, failures>>

\* The script becomes the container's mongod.
Exec ==
    /\ pc = "exec"
    /\ \/ /\ ServesWith(Args)
          /\ pc' = "serving"
          /\ history' = history \cup {"served"}
          /\ UNCHANGED <<temp, mem, failures>>
       \/ /\ IF ServesWith(Args) THEN Fails ELSE UNCHANGED failures
          /\ pc' = "down" /\ temp' = "none" /\ mem' = disk
          /\ UNCHANGED history
    /\ UNCHANGED <<command, env, hacked, tries, next, files, disk>>

-----------------------------------------------------------------------------
\* The servers, docker and the operator.

TempUp ==
    /\ temp = "starting"
    /\ temp' = "up"
    /\ UNCHANGED <<pc, command, env, hacked, tries, next, files, disk, mem, failures, history>>

TempDies ==
    /\ temp # "none" /\ Fails
    /\ temp' = "none" /\ mem' = disk
    /\ UNCHANGED <<pc, command, env, hacked, tries, next, files, disk, history>>

Checkpoint ==
    /\ temp = "up" /\ disk # mem
    /\ disk' = mem
    /\ UNCHANGED <<pc, command, env, hacked, tries, next, temp, files, mem, failures, history>>

\* The container is killed, or stopped during the initialisation: bash as the
\* first process does not react to SIGTERM, SIGKILL follows.
Kill ==
    /\ pc \in Initialising /\ Fails
    /\ Exit(files)
    /\ UNCHANGED <<command, env, hacked, tries, next, files, disk>>

\* mongod is stopped or killed once it is the first process itself.
Stop ==
    /\ pc = "serving"
    /\ pc' = "down"
    /\ UNCHANGED <<command, env, hacked, tries, next, temp, files, disk, mem, failures, history>>

\* `make destroy`: the volume goes.
Wipe ==
    /\ pc = "down"
    /\ files' = {} /\ disk' = {} /\ mem' = {} /\ history' = {}
    /\ UNCHANGED <<pc, command, env, hacked, tries, next, temp, failures>>

Entrypoint == Fork \/ Wait \/ CreateUser \/ RunFile \/ Shutdown \/ Exec

Next ==
    \/ Start \/ Entrypoint
    \/ TempUp \/ TempDies \/ Checkpoint
    \/ Kill \/ Stop \/ Wipe

Spec == Init /\ [][Next]_vars

\* The script goes on; a server that starts may never answer.
FairSpec == Spec /\ WF_vars(Entrypoint)

-----------------------------------------------------------------------------
\* Whatever address or port the container's command asks for, once or more
\* often, the temporary server, which serves without credentials for a while,
\* listens on the loopback only (entrypoint.sh:136-137), unless an option of the
\* command lacks its value: ensure_arg_val may take the next option for it.
TemporaryServerPrivate ==
    temp # "none" /\ Paired(command) => /\ Given("--bind_ip", hacked) = {"127.0.0.1"}
                                        /\ Given("--port", hacked) = {"27017"}

\* A command line with which mongod serves is never made unacceptable by the
\* settings the temporary server is given (entrypoint.sh:56-99: mongod is picky
\* about arguments that appear twice).
AcceptedStaysAccepted ==
    ServesWith(command) => /\ ~ ShiftFails("--bind_ip", Args)
                           /\ pc = "fork" => Accepts(hacked)

\* The temporary server is gone before the final one opens the same files
\* (entrypoint.sh:212 before 226).
OneServer == pc = "serving" => temp = "none"

\* An initialisation, root user and init files, never runs on files a final
\* server has served before (entrypoint.sh:111-123), journal or none.
ServedIsNeverInitialised ==
    [][CreateUser \/ RunFile => "served" \notin history]_vars

\* What an initialisation has to leave behind.
Expected == (IF Credentials THEN {Root} ELSE {})
            \cup {i \in DOMAIN InitFiles : InitFiles[i] # "other"}

\* The data directory as its users see it: while it is initialised nothing of it
\* is seen, as only the loopback reaches the temporary server.
Phase ==
    CASE pc \in {"wait", "user", "files"} -> "initialising"
      [] pc \notin {"wait", "user", "files"} /\ files = {} -> "new"
      [] pc \notin {"wait", "user", "files"} /\ files # {} ->
            IF "interrupted" \in history THEN "partial" ELSE "initialised"

Seen == IF Phase = "initialising" THEN {} ELSE disk

Directory == INSTANCE InitOnce WITH
    promised <- Expected, phase <- Phase, content <- Seen, serving <- pc = "serving"

\* The script, its servers and their failures do with the data directory what
\* InitOnce allows: one initialisation, seen as a whole or cut short for good
\* (entrypoint.sh:111-226).
ImplementsInitOnce == Directory!Spec

\* A server that serves works on completely initialised files, unless an
\* initialisation on them was cut short or lost the error of createUser.
ServesInitialised ==
    pc = "serving" => Expected \subseteq disk \/ history \cap {"interrupted", "silent"} # {}

\* The start of a container comes to an end, though the temporary server may
\* never answer: the loop of entrypoint.sh:160-180 tries 30 times.
StartEnds == pc \in Initialising ~> pc \notin Initialising

\* entrypoint.sh:111: "check for a few known paths (to determine whether we've
\* already initialized and should thus skip our initdb scripts)".
SkipsOnlyIfInitialised == pc = "serving" /\ "silent" \notin history => Expected \subseteq disk
=============================================================================
