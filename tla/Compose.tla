------------------------------ MODULE Compose ------------------------------
(***************************************************************************)
(* The docker-compose project of the fullstack: its services, the links    *)
(* and volumes_from between them, and what `docker-compose up -d`, `stop`  *)
(* and `down` do to their containers.  Constant-level: the state is in the *)
(* modules that EXTEND this one.                                           *)
(*                                                                         *)
(* A container is described by its status and by the definition of its     *)
(* service it was created from.  The file sets are "plain" (nothing but    *)
(* docker-compose.yml, which compose reads when it is given no -f),        *)
(* "provision" (with docker-compose-host.yml, which gives most services    *)
(* volumes) and "run" (with docker-compose-lms-run.yml and -cms-run.yml    *)
(* too, which give lms and studio another entrypoint, `restart: always`).  *)
(***************************************************************************)
EXTENDS Naturals, FiniteSets

\* The services of docker-compose.yml (the workers are in other files).
Services == {"mysql", "memcached", "mongo", "elasticsearch", "rabbit",
             "xqueue", "lms", "studio", "forum", "nginx"}

\* The services that keep data; their images declare a volume for it.
Stores == {"mysql", "mongo", "elasticsearch"}

FileSets == {"plain", "provision", "run"}

\* The definition of the service s in a file set, named after the smallest one
\* that has it: only lms and studio are in the -run files, memcached is in
\* docker-compose.yml alone.
Definition(s, files) ==
    CASE s = "memcached" -> "plain"
      [] s \notin {"lms", "studio", "memcached"} /\ files = "run" -> "provision"
      [] OTHER -> files

Statuses == {"absent", "stopped", "running"}

\* Mutant: elasticsearch is linked by nobody.
LinksWithoutSearch == [s \in Services |->
    CASE s = "xqueue" -> {"rabbit", "mysql"}
      [] s = "lms"    -> {"mysql", "mongo", "memcached", "xqueue", "forum"}
      [] s = "studio" -> {"mysql", "mongo", "memcached", "rabbit", "xqueue", "lms"}
      [] s = "forum"  -> {"mongo"}
      [] s = "nginx"  -> {"lms", "studio"}
      [] OTHER        -> {}]

\* links and volumes_from of every service: compose brings up what a service
\* depends on with it.  (studio takes volumes from lms, and nginx too, in the
\* host files only; without them lms is up whenever studio is brought up.)
Links == [s \in Services |->
    CASE s = "xqueue" -> {"rabbit", "mysql"}
      [] s = "lms"    -> {"mysql", "mongo", "memcached", "elasticsearch",
                          "xqueue", "forum"}
      [] s = "studio" -> {"mysql", "mongo", "memcached", "rabbit", "xqueue", "lms"}
      [] s = "forum"  -> {"elasticsearch", "mongo"}
      [] s = "nginx"  -> {"lms", "studio"}
      [] OTHER        -> {}]

WithLinked(S) == S \cup UNION {Links[s] : s \in S}

\* What `up -d S` brings up.  Three rounds reach everything.
LinkClosure(S) == WithLinked(WithLinked(WithLinked(S)))

ASSUME LinksAreShallow ==
    \A S \in SUBSET {"xqueue", "lms", "studio", "forum", "nginx"} :
        WithLinked(LinkClosure(S)) = LinkClosure(S)

-----------------------------------------------------------------------------
\* Compose replaces a container whose service definition has changed since
\* the container was created; whatever was written inside it is gone.  (Some
\* versions also replace one that depends on a container they replace.  That
\* adds nothing: what lms links to comes up with the same files before it or
\* with it, so that it is replaced only if lms has another definition too.)
Recreated(s, container, config, files) ==
    container[s] = "absent" \/ config[s] # Definition(s, files)

\* The containers after `up -d` of the services C (closed under links).
Upped(C, container) ==
    [s \in Services |-> IF s \in C THEN "running" ELSE container[s]]

UppedConfig(C, config, files) ==
    [s \in Services |-> IF s \in C THEN Definition(s, files) ELSE config[s]]

\* `stop` stops every running container, `down` removes them all.
Stopped(container) ==
    [s \in Services |-> IF container[s] = "running" THEN "stopped"
                                                    ELSE container[s]]

Removed == [s \in Services |-> "absent"]

\* What config says when there is no container: nothing asks.
NoConfig == [s \in Services |-> "plain"]

\* The host or the docker daemon restarts: the containers whose service says
\* `restart: always` start again, those stopped by hand too and whether what
\* they link to runs or not; the others stay down.
Rebooted(container, config) ==
    [s \in Services |->
        IF container[s] = "absent" THEN "absent"
        ELSE IF config[s] = "run" THEN "running"
        ELSE "stopped"]
=============================================================================
