------------------------------ MODULE Configs ------------------------------
(***************************************************************************)
(* How a change of configs/server-vars.yml reaches the processes of edxapp:*)
(* make dev.up renders lms.env.json and lms.auth.json (Makefile:30-32, one *)
(* task that loops over them: a file that fails does not keep it from the  *)
(* next one, but the play ends after the loop), then starts the lms        *)
(* container; a container sees the two files that were there when it last  *)
(* started (docker-compose-host.yml:34-35); the process in it computes its *)
(* settings from them (LmsSettings).                                       *)
(*                                                                         *)
(* The worker stands for the containers of docker-compose-workers.yml.     *)
(***************************************************************************)
EXTENDS LmsSettings, Integers

CONSTANTS
    Choices,     \* what operators write: the env and auth tokens it renders to
    Edits,       \* those they change to
    MaxEdits,    \* bound: changes of server-vars.yml
    MaxFaults    \* bound: failing plays, crashes and reboots

ASSUME ConstantsAssumption ==
    /\ \A choice \in Choices : \A name \in Lists :
          name \in DOMAIN choice.env => choice.env[name] \in Seq(Names)
    /\ Edits \subseteq Choices
    /\ MaxEdits \in Nat /\ MaxFaults \in Nat

Containers == {"lms", "worker"}
Files      == {"env", "auth"}

VARIABLES
    versions,   \* server-vars.yml, each time it was saved
    host,       \* the version each file in configs/envs-edx was rendered from
    mounted,    \* that of the files a container sees
    state,      \* "off", "starting" or "serving"
    make,       \* what make does next: "idle", "env", "auth", "up" or "workers"
    playing,    \* the version the play renders
    failed,     \* a file of the play could not be rendered
    full,       \* make was given dev.fullstack.up
    stopped,    \* make stop was given, and no container started since
    fresh,      \* the documented change was carried out for the last version
    faults

vars == <<versions, host, mounted, state, make, playing, failed, full, stopped, fresh, faults>>

Wanted == Len(versions)

TypeOK ==
    /\ versions \in Seq(Choices) /\ Wanted \in 1 .. MaxEdits + 1
    /\ host \in [Files -> 1 .. Wanted]
    /\ mounted \in [Containers -> [Files -> 1 .. Wanted]]
    /\ state \in [Containers -> {"off", "starting", "serving"}]
    /\ make \in {"idle", "env", "auth", "up", "workers"}
    /\ playing \in 1 .. Wanted
    /\ failed \in BOOLEAN /\ full \in BOOLEAN /\ stopped \in BOOLEAN /\ fresh \in BOOLEAN
    /\ faults \in 0 .. MaxFaults

Env(c)  == versions[mounted[c].env].env
Auth(c) == versions[mounted[c].auth].auth

\* The files are those of the first version; nothing runs.
Init ==
    /\ \E choice \in Choices : versions = <<choice>>
    /\ host = [f \in Files |-> 1]
    /\ mounted = [c \in Containers |-> host]
    /\ state = [c \in Containers |-> "off"]
    /\ make = "idle" /\ playing = 1
    /\ failed = FALSE /\ full = FALSE /\ stopped = FALSE /\ fresh = FALSE
    /\ faults = 0

-----------------------------------------------------------------------------
\* The containers of cs start, with the files that are there now.
Start(cs) ==
    /\ state'   = [c \in Containers |-> IF c \in cs THEN "starting" ELSE state[c]]
    /\ mounted' = [c \in Containers |-> IF c \in cs THEN host ELSE mounted[c]]
    /\ stopped' = (stopped /\ cs = {})

Off == {c \in Containers : state[c] = "off"}

\* The operator changes server-vars.yml (README.rst:74-79).
Edit ==
    /\ Wanted <= MaxEdits
    /\ \E choice \in Edits \ {versions[Wanted]} : versions' = Append(versions, choice)
    /\ fresh' = FALSE
    /\ UNCHANGED <<host, mounted, state, make, playing, failed, full, stopped, faults>>

\* Mutant: make stop without the files of the workers.
StopLms ==
    /\ make = "idle"
    /\ state' = [state EXCEPT !["lms"] = "off"]
    /\ stopped' = TRUE
    /\ UNCHANGED <<versions, host, mounted, make, playing, failed, full, fresh, faults>>

\* make stop, with the files of the workers.
MakeStop ==
    /\ make = "idle"
    /\ state' = [c \in Containers |-> "off"]
    /\ stopped' = TRUE
    /\ UNCHANGED <<versions, host, mounted, make, playing, failed, full, fresh, faults>>

\* make dev.up, or dev.fullstack.up, which begins with it: ansible reads
\* server-vars.yml.
MakeUp ==
    /\ make = "idle"
    /\ make' = "env" /\ playing' = Wanted /\ full' \in BOOLEAN
    /\ UNCHANGED <<versions, host, mounted, state, failed, stopped, fresh, faults>>

Faulty == faults < MaxFaults /\ faults' = faults + 1

\* One turn of the loop: the file is replaced, or stays as it is and the loop
\* goes on without it.
Render(file, next) ==
    /\ make = file
    /\ make' = next
    /\ \/ host' = [host EXCEPT ![file] = playing] /\ UNCHANGED <<failed, faults>>
       \/ Faulty /\ failed' = TRUE /\ UNCHANGED host
    /\ UNCHANGED <<versions, mounted, state, playing, full, stopped, fresh>>

\* Mutant: the containers come up after the first file.
RenderOne == Render("env", "up")

RenderEnv == Render("env", "auth")

\* Mutant: the play goes on with the files of studio.
RenderMore == Render("auth", "cms")

RenderAuth == Render("auth", "up")

\* make ends before docker-compose.
Abort ==
    /\ make' = "idle" /\ failed' = FALSE
    /\ UNCHANGED <<versions, host, mounted, state, playing, full, stopped, fresh>>

\* A file that failed fails the task after its loop, and with it the play.
LoopFails == make = "up" /\ failed /\ Abort /\ UNCHANGED faults

\* What comes before the loop fails (the requirements, the check of the syntax),
\* the play is interrupted in it, or a later role fails (xqueue, forum).
PlayFails == make \in Files \cup {"up"} /\ Faulty /\ Abort

\* docker-compose up -d without the workers leaves what runs as it is.
UpLms ==
    /\ make = "up" /\ ~ failed
    /\ Start(Off \cap {"lms"})
    /\ make' = IF full THEN "workers" ELSE "idle"
    /\ fresh' = (fresh \/ (stopped /\ playing = Wanted))
    /\ UNCHANGED <<versions, host, playing, failed, full, faults>>

\* And after two minutes with them.
UpWorkers ==
    /\ make = "workers"
    /\ Start(Off)
    /\ make' = "idle"
    /\ UNCHANGED <<versions, host, playing, failed, full, fresh, faults>>

\* make lms-start, make lms-restart: the files are not rendered.
MakeStart(c) ==
    /\ make = "idle" /\ Start({c})
    /\ UNCHANGED <<versions, host, make, playing, failed, full, fresh, faults>>

-----------------------------------------------------------------------------
\* Mutant: what ends stays off.
EndedForGood(c) == state' = [state EXCEPT ![c] = "off"] /\ UNCHANGED <<mounted, stopped>>

\* A container whose process has ended: docker starts lms again (restart: always).
Ended(c) == IF c = "lms" THEN Start({c})
            ELSE state' = [state EXCEPT ![c] = "off"] /\ UNCHANGED <<mounted, stopped>>

\* The process reads its two files and serves, or ends with a KeyError.
Load(c) ==
    /\ state[c] = "starting"
    /\ IF Complete(Env(c), Auth(c))
       THEN state' = [state EXCEPT ![c] = "serving"] /\ UNCHANGED <<mounted, stopped>>
       ELSE Ended(c)
    /\ UNCHANGED <<versions, host, make, playing, failed, full, fresh, faults>>

Crash(c) ==
    /\ state[c] # "off" /\ Faulty /\ Ended(c)
    /\ UNCHANGED <<versions, host, make, playing, failed, full, fresh>>

\* After a reboot docker starts lms, also when it was stopped by hand.
Reboot ==
    /\ Faulty
    /\ make' = "idle" /\ failed' = FALSE
    /\ state'   = [c \in Containers |-> IF c = "lms" THEN "starting" ELSE "off"]
    /\ mounted' = [mounted EXCEPT !["lms"] = host]
    /\ stopped' = FALSE
    /\ UNCHANGED <<versions, host, playing, full, fresh>>

Make == MakeUp \/ RenderEnv \/ RenderAuth \/ LoopFails \/ UpLms \/ UpWorkers

Next ==
    \/ Edit \/ MakeStop \/ Make \/ PlayFails \/ Reboot
    \/ \E c \in Containers : MakeStart(c) \/ Load(c) \/ Crash(c)

\* A command that was given runs to its end, and processes start; whoever
\* gives commands need not.
Fairness == WF_vars(Make /\ make # "idle") /\ \A c \in Containers : WF_vars(Load(c))

Spec == Init /\ [][Next]_vars /\ Fairness

-----------------------------------------------------------------------------
Serving == {c \in Containers : state[c] = "serving"}

\* README.rst:74-79: once make stop and make dev.up have followed a change, what
\* serves has both files of that version, the LMS as well as the workers, after
\* crashes and reboots too, until the next change.
Current == fresh => \A c \in Serving, f \in Files : mounted[c][f] = Wanted

\* Also without make stop a process has the broker's address and its credentials
\* of one version, unless a command or a container failed: then lms may start
\* between the two files, or with one that could not be rendered, and keep what
\* it got.
BrokerWhole ==
    faults = 0 /\ (\A v \in 1 .. Wanted : Complete(versions[v].env, versions[v].auth)) =>
        \A c \in Serving : \E v \in 1 .. Wanted :
            BROKER_URL(Env(c), Auth(c)) = BROKER_URL(versions[v].env, versions[v].auth)

\* What the workers of docker-compose-workers.yml consume.
Consumed == {<<"edx", "lms", "core", p>> : p \in {"low", "default", "high", "high_mem"}}

\* The keys whose tasks go to a queue that is not declared, or that nobody
\* consumes.
Lost(keys) == {key \in DOMAIN keys : keys[key] \notin CELERY_QUEUES \cap Consumed}

\* What the comments at lms_envs_aws.py:232-234 and 237-238 say has to be reset
\* "since we have changed the value of the queue name", and the two keys that this
\* file names a queue for as well (lines 93 and 531).
Renamed == {"BULK_EMAIL_ROUTING_KEY", "BULK_EMAIL_ROUTING_KEY_SMALL_JOBS",
            "GRADES_DOWNLOAD_ROUTING_KEY", "CELERY_DEFAULT_ROUTING_KEY"}

\* Every task of a process reaches a worker, but for those whose key is one more
\* of common.py and misses the queues there already.
TasksReachWorkers == Serving # {} => Lost(RoutingKeys) = Lost(Common.ROUTING_KEYS) \ Renamed

\* However the three blocks that change the login combine: there is a password
\* login, and every backend that they switch on has its application.  The one
\* for CAS is not looked for if the file names its backend among the third-party
\* ones: nothing then adds its application.
LoginComplete == \A c \in Serving :
    LET backends == AUTHENTICATION_BACKENDS(Env(c))
        apps     == INSTALLED_APPS(Env(c))
        named    == Get(Env(c), "THIRD_PARTY_AUTH_BACKENDS", <<>>)
    IN  /\ \E b \in PasswordBackends : Has(backends, b)
        /\ Enabled(Env(c), "AUTH_USE_CAS") => Has(backends, "CASBackend")
        /\ Has(backends, "CASBackend") =>
             \/ Has(apps, "django_cas")
             \/ Enabled(Env(c), "ENABLE_THIRD_PARTY_AUTH") /\ Has(named, "CASBackend")
        /\ Enabled(Env(c), "ENABLE_LTI_PROVIDER") => Has(backends, "LtiBackend") /\ Has(apps, "lti_provider")

\* An extension for one learner goes before the dates of a self-paced course.
ExtensionsFirst == \A c \in Serving :
    LET providers == FIELD_OVERRIDE_PROVIDERS(Env(c))
    IN  \A i \in DOMAIN providers : providers[i] = "IndividualStudentOverrideProvider" =>
            \E j \in DOMAIN providers : j > i /\ providers[j] = "SelfPacedDateOverrideProvider"

\* Limits of the sandbox that the file does not mention stay.
SandboxKept == \A c \in Serving :
    DOMAIN Common.CODE_JAIL.limits \subseteq DOMAIN CODE_JAIL(Env(c)).limits

\* When lms starts after a change that was carried out, or starts again because
\* its process ended, it eventually serves if the files are complete, until the
\* next change or stop.
EventuallyServed ==
    fresh /\ state["lms"] = "starting" /\ Complete(versions[Wanted].env, versions[Wanted].auth)
        ~> state["lms"] = "serving" \/ ~ fresh \/ stopped
=============================================================================
