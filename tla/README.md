# A formal model of edx-fullstack-docker

This directory holds TLA+ modules of the repository's own logic, TLC
configurations that check them on small instances, and proofs that TLAPS checks
for every instance. Paths such as `provision.sh:46` are relative to the
repository.

The repository has little application code. It brings an Open edX installation
up out of containers, and what can go wrong is in the order of things: shell
scripts under `set -e` that talk to servers which are starting, restarting or
have had their files replaced; volumes that outlive containers; operators who
repeat what failed half-way. That is what is modelled.

## 1. Inventory

| Part | State | Operations | Hard behaviour | What makes it correct |
|---|---|---|---|---|
| **Provisioning** `provision.sh`, `provision-lms.sh`, `provision-cms.sh`, `provision-elasticsearch.sh`, `mongo-provision.js`, `mysql_dbs_and_users.sql` | where the script is, its flags; MySQL, MongoDB, Elasticsearch volumes; static files | one per command line | failing commands, waits without limit, sleeps that may be too short, files extracted under running servers, commands that fail and exit with 0 | a target that succeeds has left everything in the volumes |
| **docker-compose project** `docker-compose*.yml` | containers, the files each was created from | up, stop, down, down -v, restart, reboot | links bring up services nobody names; a container is recreated when its definition changes | data outlive containers |
| **Makefile, destroy.sh** | none | the targets | targets in any order between failed attempts | only destroy (or the dump) loses data |
| **MongoDB entrypoint** `configs/mongodb/entrypoint.sh` | the data directory, temporary and final mongod, command line | one per block of the script | killed during initialisation; duplicate arguments; a server that never answers | one server per directory, a private temporary one, initialisation complete and only once |
| **Clone script** `clone.sh` | checkouts, working directory and its stack, the operator's answers | one per step of the loop | killed runs; pushd, cd and popd that do not pair up | every repository in the workspace at its revision |
| **Course date blocks** `configs/edx-platform/date_summary.py` | date and verification kept by `@lazy`; the context | the properties of a block | clock and databases change between two properties of one block | the parts of a block agree |
| **LMS settings** `configs/edx-platform/lms_envs_aws.py`, `configs/envs-edx/*.json` | settings | sequential overrides | one override hides or undoes another; two files combined | login, routes, limits and providers complete for every combination of features |
| **Regeneration of configuration** `ansible-*.yml`, `ansible-roles/`, `configs/server-vars.yml` | the generated files, the files each container has mounted | one task per file | a play that fails between two files; processes that go on with old files, or start between two | a change that was carried out is what serves |
| **Workers and broker** `docker-compose-workers*.yml`, `configs/workers/`, `configs/rabbitmq/` | queues | consume | a queue no worker serves; workers that outlive a change | each queue is served |
| **xqueue server** `configs/xqueue/xqueue_gunicorn.py` | cache connections of the master and its workers | fork, `post_fork` | sockets inherited by several processes | a worker reads its own answers |
| Backup and restore `Makefile:91-99` | archives | tar over the volumes | running servers | an archive is a state of the store |
| nginx, health checks, CI, Dockerfiles | none of their own | static configuration | | |

How they interact: the Makefile starts the scripts with flags in the environment;
the scripts call docker-compose, which starts containers and what they link to;
the servers in the containers go through phases of their own, read and write the
named volumes, and the scripts read nothing of that but exit codes. The mongo
container runs `entrypoint.sh` each time it starts. The checkouts of `clone.sh`
are mounted into lms and studio. `make dev.up` renders the JSON files of
`configs/envs-edx`, which docker mounts into the containers when they start.
`date_summary.py` and `lms_envs_aws.py` are the repository's editions of two files of
edx-platform, `courseware/date_summary.py` and `lms/envs/aws.py` (the module
`--settings=aws` selects). No compose file mounts them, so whether they are what runs
depends on the checkout. The modules below model these files.

The hazards are listed one by one in `PROJECT.json`, each with its source line
and the properties that would notice it.

## 2. Modules

| Module | Models | Kind |
|---|---|---|
| `Compose` | services, links, up / stop / down / reboot | constant-level |
| `Provision` | the provisioning scripts and targets over `Compose` and the stores | state machine |
| `Provision_proofs` | type invariant and durability of `Provision` | proofs |
| `ProvisionRuns_proofs` | what single attempts do: stale clones, search index, runs without flags, loss, passwords, their length | proofs |
| `MongodArgs` | the command lines the mongo entrypoint builds, and mongod's view of them | constant-level |
| `MongodArgs_proofs` | the loop over the command line, and what it makes of one of any length | proofs |
| `MongoEntrypoint` | the mongo entrypoint over `MongodArgs` | state machine |
| `InitOnce` | what the entrypoint promises of a data directory | abstract specification |
| `MongoEntrypoint_proofs` | type invariant and safety of `MongoEntrypoint`, and that it implements `InitOnce` | proofs |
| `Clone` | `clone.sh` | state machine |
| `Clone_proofs` | type invariant and safety of `Clone` | proofs |
| `DateSummary` | the date blocks | state machine |
| `DateSummary_proofs` | type invariant and safety of `DateSummary` | proofs |
| `LmsSettings` | the settings computed from defaults, env and auth file | constant-level |
| `Configs` | how a change of `server-vars.yml` reaches processes that compute `LmsSettings` | state machine |
| `Configs_proofs` | type invariant and safety of `Configs` | proofs |
| `XqueueWorkers` | gunicorn's workers and the cache sockets they inherit | state machine |
| `XqueueWorkers_proofs` | type invariant and safety of `XqueueWorkers` | proofs |
| `MC*` | constants for TLC | |

### Provision

`pc` is the command that runs next, or how the last attempt ended. Every command
of the scripts that changes state or may fail is an action of its name
(`RestoreDump` is `provision.sh:46`, `ImportDemo` the second half of
`provision-lms.sh:41`); `Run` is the success of a command, `Abort` its failure
followed by `set -e`. The flags keep the scripts' two views: `Own` is what
`provision.sh` sees with its defaults, `Inherited` what the scripts it calls
find in the environment. A way to start (`Ways`) is an environment, the file set
`DOCKER_COMPOSE_FILES` selects and whether make stops everything afterwards: the five
targets `dev.*provision*` have the host files and the stop (`MakeTargets`); `make
provision` and `./provision.sh` by hand have `docker-compose.yml` alone and go on running.

`docker-compose-host.yml` is what names the volumes of the stores. Without it mysql,
mongo and elasticsearch get an anonymous one, which is their container's: `anonymous`
are the stores that have one, `kept` what their named volumes hold meanwhile. Which
it is, is decided when a container is created. docker-compose 1.x (external;
`travis.requirements.txt` asks for `>=1.9.0,<2.0.0`) hands the volume of a container it
replaces on to the new one, whatever the files say by then. So a whole
`dev.provision` that follows on a `make provision` delivers to anonymous volumes, and
the next `make down` loses it, of which `README.rst:218-220` says nothing. This is why
`ProvisionedOnDisk` and `RestoredIndexServed` are about attempts that found no anonymous
volume (`attempt.named`; without it TLC finds that sequence), and why
`OnlyRestoreOrDestroyLoses` has two parts: the named volume loses nothing but to the
dump or destroy, whoever uses it; an anonymous one goes with `down` as well.

A store has two contents. `disk[s]` is its volume, `open[s]` what the running
server works on. They differ while the server is in `detached` (an archive was
extracted over its files: `tar` unlinks a file before it writes it, so the server keeps the old
ones) and, in mongo, between a write and the next checkpoint, as
`docker-compose.yml:24` says `--nojournal`. `server` is the phase of mysql and
mongo; `init` is the temporary server of the `mysql:5.6` image on an empty
volume, which answers the loop of `provision.sh:31` too early.

Between two attempts, and only then, the operator runs `Stop`, `Down`,
`Destroy`, `DevUp`. Learners register (`Register`), servers start, die or write a
checkpoint, and the host crashes (`HostCrash`) at any time.

### MongoEntrypoint

`pc` goes through the blocks of the script: `fork` (l. 153), `wait` (160-180),
`user` (182-198), `files` (203-212), `exec` (226), `serving`. `files` is what the
script looks for in `/data/db`, `disk` and `mem` the root user and the init files'
traces in the volume and in the temporary server. The command line is a
sequence of records (a bare flag, a flag with `=`, a word; the texts are the
constant `Texts`). `Passed` is one turn of the `while` loop of `ensure_arg_val` and
`Loop` the whole of it, including its habit of skipping whatever
follows the flag. `Accepts` is mongod's validation as the script's comments
describe it, in four parts: `OnceEach`, `Paired` (an option has the value it wants),
`NoStrays`, `TlsMatches`. `ServesWith` adds that mongod stays in the
foreground, without `--fork` (all external). `Kill` may come at any step; bash as process 1 does not
forward SIGTERM.

`InitOnce` is the same directory as a user of the server sees it: `new`,
`initialising`, `initialised` or `partial`, with the traces that are served. It
may be initialised once; the initialisation becomes visible as a whole or, cut
short, stays a part for good; only a wipe makes it new. The refinement mapping
(`Directory`, at the end of `MongoEntrypoint`) takes `phase` from the position
of the script, the known files and whether an initialisation was interrupted
(`Phase`), and hides what is in the volume while the temporary server runs (`Seen`).

### Clone

`cwd` is a path (a root, or a repository in a root), `saved` the stack of pushd
below it, `oldpwd` whether `cd -` has somewhere to go. `trees` holds the
checkouts in both roots: none, cut short, at the tip, as wanted.

### DateSummary

`get_context` and `is_enabled` read the block's properties in the order of the
source (`date`, then the entries of the dict as Python 2 evaluates them), one
action per property; `Tick` and `Change` come between any two. `cache` holds
what `@lazy` (or the course object) keeps. Days and texts are reduced to what the properties
compare.

### LmsSettings and Configs

A file is a function on the names it has, a setting an operator with the name
it has in `lms_envs_aws.py`, applied to the tokens of the env file, of the auth file or of
both. The names in lists (backends, applications, providers) are the constant
`Names`. What is taken up are the settings that depend on one another, on a
feature or on both files; `Complete` are the keys without which the module
ends with a `KeyError`.

`Configs` numbers the versions of `server-vars.yml`. `host[f]` is the version
the file `f` was rendered from, `mounted[c][f]` the one container `c` sees: a
file is replaced by a new one, so a container keeps the old file until it
starts again (`docker-compose-host.yml:34-35`). `make` steps through the
rendering of the two files and `docker-compose up`. The two are turns of one loop
(`tasks/main.yml:2-8`): a turn may fail (`Render`), `failed` remembers it, the loop goes
on to the other file, and the play ends after it (`LoopFails`). `PlayFails` is a play that
does not begin, is interrupted, or fails in a later role when both files are
there. `Crash` and `Reboot` come anywhere. `Load` is a process that reads its two files and serves
or ends, in which case docker starts lms again, with the files that are there
then, and leaves a worker off.

### XqueueWorkers

`conn` is the socket of each cache object in each process. `Fork` copies the
master's, `CloseNamed` and `CloseGlobal` are the two parts of `post_fork`, for
both versions of Django the file provides for: in 1.8 `caches[name]` is one
object per name, in 1.4 `get_cache(name)` is a new object, closing which
changes nothing, and only the global default cache can be closed. memcached (external) answers in the order of
the questions on a socket. Workers give requests up, die and are forked again
by a master whose sockets stay open.

That 1.4 is safe rests on something the file says itself (l. 33-37) and the
model takes from there: with that version the loaded application has no
cache object but the global default that lives on (`Lasting`).

## 3. Runs

All passing runs are exhaustive. Each property has a mutant in `PROJECT.json`:
a change of one definition a bug could make, with which TLC finds the property
violated.

| Run | Question | Properties |
|---|---|---|
| `provision` | six ways to start the script, with named and anonymous volumes, all targets, learners, one failure or crash anywhere, sleeps that may be too short | `TypeOK`, `ProvisionedOnDisk`, `ScriptWritesReachVolume`, `StaleCloneStops`, `RestoredIndexServed`, `SearchContainerExists`, `BareRunImportsNothing`, `OnlyRestoreOrDestroyLoses` |
| `provision_fair` | the five targets with stop, down and destroy between them, sleeps that suffice, fair, two failures | `RestoredIntoSettledServer`, `AttemptEnds`, `EventuallyProvisioned` |
| `mongo_args` | command lines of up to three options out of fifteen, right or wrong | `TemporaryServerPrivate`, `AcceptedStaysAccepted` |
| `mongo_init` | kills and failures at every step, all kinds of init file, fair | `TypeOK`, `OneServer`, `ServesInitialised`, `ServedIsNeverInitialised`, `StartEnds`, `ImplementsInitOnce` |
| `clone` | a list with commits, with or without workspace, any answers, two cut-short runs, fair | `TypeOK`, `SuccessCompletes`, `AtRootBetweenRepos`, `EventuallyCloned` |
| `dates` | every block, rendered while things change | `TypeOK`, `PastIsHidden`, `NoneIsNeverCompared`, `NeverLessUrgent`, `LinkFitsClass` |
| `settings` | a change of the configuration, make commands in any order, plays that fail in one file or altogether, crashes, reboots, files with which the LMS cannot start, fair | `TypeOK`, `Current`, `BrokerWhole`, `TasksReachWorkers`, `LoginComplete`, `ExtensionsFirst`, `SandboxKept`, `EventuallyServed` |
| `xqueue` | two versions of Django, any caches in use when the workers are forked, workers that die | `TypeOK`, `OwnAnswers`, `Unshared` |

Runs that show where the code and what is written about it part:

| Run | What TLC finds |
|---|---|
| `provision_passwords` | a failing `set_password` goes unnoticed, the target succeeds with an account nobody can log in to (`README.rst:129`) |
| `mongo_skip` | a start after an interrupted initialisation skips the rest of it (`entrypoint.sh:111`) |
| `clone_fresh` | a workspace that had to be made is not entered: everything is cloned beside it (`README.rst:36`) |
| `dates_relative` | a date that has passed is announced as "in 1 month" (`date_summary.py:73`) |

Five more of this kind were met while modelling; the modules have the
behaviour, no run is spent on it. The migrate targets set `DB_PROVISION=1` and so restore the
dump before they migrate, where `Makefile:55,60` says "instead of using sql dumps".
`entrypoint.sh:212` appends `--pidfilepath` without taking it out first, so that a
command which has one makes the shutdown of the temporary server fail
(`ShutdownArgs` against `Accepts`). `clone.sh:71` leaves a newly cloned pinned
repository with `popd` where the other branch has `cd ..`, and the next ones are
cloned beside the workspace (`Leave`); today's list pins nothing. Of the command
`--logpath --port`, in which both options lack their values, `ensure_arg_val` makes arguments
without an address for the temporary server, as it takes its own `--bind_ip` for the value of
`--port`; mongod refuses the container's command line too, but only when its turn comes
(so `TemporaryServerPrivate` asks for `Paired`). And a file that names `CASBackend` among its
third-party backends gets it without its application, which only the CAS feature adds
(`lms_envs_aws.py:319-325`; so the exception in `LoginComplete`).

What is behind some of the passing ones, for whoever uses the scripts:
`StaleCloneStops` says that an attempt which finds the clone of an earlier one in
its lms container can never succeed (only `down`, `destroy` or `dev.up` helps),
and `BareRunImportsNothing` that `./provision.sh` without flags restores the
database and then creates no accounts, because `provision.sh:12-22` assigns its defaults
without exporting them. `BrokerWhole` holds only as long as nothing fails: an lms that
docker keeps restarting (because it crashed, or because a file lacks a key) may start after the env file was
replaced and before the auth file was, and go on with the broker's address of one
version and the password of another; `Current` says that `make stop` before
`make dev.up`, as `README.rst:74-79` has it, ends that. And the workers of
`dev.fullstack.up` are ended by this `make stop` but not started by
`make dev.up`: nothing says they should be, so no property asks for it.

### Bounds

* `NAccounts = 2`, one of them in the dump: the first account (staff, created with
  other options) and one that follows it; the four accounts of the code run
  through the same two actions. The proofs are for any number.
* `MaxFailures` 1 or 2 per behaviour. One failure puts an attempt into every
  half-done state; the next attempts run from it to their end. Two are used where
  the question is whether an operator gets out of it.
* `SixWays`: three of the five targets, `make provision`, a bare `./provision.sh`, and one with
  all flags exported that only creates databases and users. The two targets without
  assets, which do less of the same, are in `provision_fair` and in the proofs.
  `provision_fair` has the five targets only, as `EventuallyProvisioned` is about them.
* `KeptBound`, a constraint of `provision`: behaviours are followed while the named
  volumes behind anonymous ones are empty or hold what a make target leaves in
  them. What is behind is only compared with itself, so that one full content
  stands for the others; the proofs have no such bound.
* `Tries = 30` as in the code. Two command lines suffice for `mongo_init`, as its
  questions do not depend on the arguments; `mongo_args` has 2,956
  instead, and no failures.
* Three repositories: one before and one after the one that leads the script astray.
* `settings`: one change of the configuration, from any of the 20 pairs of files in
  `MCChoices` (every combination of the three login features with and without
  a list of backends, one that overrides everything else, one without any, two
  incomplete ones) to any of four; two versions are what can be mixed. `MaxFaults = 2`: one to leave the files
  half rendered, one to start a container on them.
* `xqueue`: `Cpus = 1` gives two workers, the least that may share something;
  six sockets, as many as two caches in three processes can keep open at once
  (symmetric; no liveness is checked). `MaxDeaths = 2`: both
  workers are replaced, or one twice. The proof is for any number of each.
* `Horizon = 2`: the clock may stand before, at and after a deadline, and pass it
  between any two properties.

### Fairness

* `Provision!Fairness`: a script that can go on does, a command that lacks what it
  needs fails instead of hanging, a server that starts becomes ready or dies.
  The single commands are processes that docker and the servers
  answer or refuse. Nothing is assumed of operators, learners, failures or the
  host. `EventuallyProvisioned` speaks of an operator (`Persistence`) who repeats, uses `destroy` again and
  again (strong fairness: it is possible only between attempts) and interrupts a
  wait for a dead server.
* `MongoEntrypoint!FairSpec`: the script goes on (bash, and commands against a local
  server). Not that the temporary server answers: `StartEnds` holds all the same.
* `Clone!PersistentSpec`: the operator repeats the script; `EventuallyCloned` is for
  one who from some time on answers yes.
* `Configs!Fairness`: a make command that was given goes on, and a process that starts
  gets as far as reading its files. Nobody has to give a command, and nothing is assumed
  of faults. `EventuallyServed` is about the lms container, which docker starts
  again whenever its process ends (`restart: always`).

## 4. Proofs

`tlapm` proves, for every value of the constants that satisfies the stated
assumptions:

| Theorem | Statement |
|---|---|
| `Provision_proofs!TypeCorrect` | `Spec => []TypeOK` |
| `Provision_proofs!DeliveredToDisk` | `Spec => []ProvisionedOnDisk` |
| `Provision_proofs!WritesReachVolume` | `Spec => []ScriptWritesReachVolume` |
| `ProvisionRuns_proofs!StaleCloneIsFatal` | `Spec => []StaleCloneStops` |
| `ProvisionRuns_proofs!IndexIsServed` | `Spec => []RestoredIndexServed` |
| `ProvisionRuns_proofs!SearchIsThere` | `Spec => []SearchContainerExists` |
| `ProvisionRuns_proofs!BareRunRestoresOnly` | `Spec => []BareRunImportsNothing` |
| `ProvisionRuns_proofs!NothingElseLoses` | `Spec => OnlyRestoreOrDestroyLoses` |
| `ProvisionRuns_proofs!RestoredOntoSettledFiles` | `Spec => RestoredIntoSettledServer`, if `SleepsSuffice` |
| `ProvisionRuns_proofs!PasswordsWithoutFailure` | `Spec => [](failures = 0 /\ attempt.named => DemoPasswordsAreSet)` |
| `ProvisionRuns_proofs!AttemptsAreBounded` | every command lowers `Remaining`, which is at most `2 * NAccounts + 21`; only `Start` raises it |
| `MongodArgs_proofs!TemporaryServerArgs` | for every paired command line: address and port of `TemporaryArgs`; if no option comes twice, nothing strays and `--fork` is not there, that mongod accepts it |
| `MongoEntrypoint_proofs!TypeCorrect` | `Spec => []TypeOK` |
| `MongoEntrypoint_proofs!NeverTwoServers` | `Spec => []OneServer` |
| `MongoEntrypoint_proofs!ServedComplete` | `Spec => []ServesInitialised` |
| `MongoEntrypoint_proofs!ServedLeftAlone` | `Spec => ServedIsNeverInitialised` |
| `MongoEntrypoint_proofs!TemporaryServerLocal` | `Spec => []TemporaryServerPrivate` |
| `MongoEntrypoint_proofs!TemporaryServerAccepted` | `Spec => []AcceptedStaysAccepted` |
| `MongoEntrypoint_proofs!StartsAreBounded` | every step of the script lowers `Remaining`, which is at most `Tries + Len(InitFiles) + 5`; only `Start` raises it |
| `MongoEntrypoint_proofs!Implements` | `Spec => ImplementsInitOnce` (the refinement) |
| `Clone_proofs!TypeCorrect` | `Spec => []TypeOK` |
| `Clone_proofs!NeverInsideAnother` | `Spec => []AtRootBetweenRepos` |
| `Clone_proofs!SuccessIsComplete` | `Spec => []SuccessCompletes` |
| `Clone_proofs!SuccessIsDelivery` | `Spec => []SuccessDelivers`, if the workspace was there and no commit is pinned before the last entry |
| `Clone_proofs!RunsAreBounded` | every step lowers `Remaining`, which is at most `5 * Len(Repos) + 5` |
| `DateSummary_proofs!TypeCorrect` | `Spec => []TypeOK` |
| `DateSummary_proofs!PastStaysHidden` | `Spec => []PastIsHidden` |
| `DateSummary_proofs!ComparisonIsSafe` | `Spec => []NoneIsNeverCompared` |
| `DateSummary_proofs!UrgencyOnlyGrows` | `Spec => []NeverLessUrgent` |
| `DateSummary_proofs!LinkAgrees` | `Spec => []LinkFitsClass` |
| `DateSummary_proofs!WordsAreWrongOnlyInThePast` | `RelativeDateAhead`, or a block that stays after its date, or a date that passed meanwhile |
| `Configs_proofs!TypeCorrect` | `Spec => []TypeOK` |
| `Configs_proofs!ChangeIsServed` | `Spec => []Current` |
| `Configs_proofs!BrokerFromOneVersion` | `Spec => []BrokerWhole` |
| `Configs_proofs!TasksAreConsumed` | `Spec => []TasksReachWorkers` |
| `Configs_proofs!LimitsKept` | `Spec => []SandboxKept` |
| `Configs_proofs!LoginIsComplete` | `Spec => []LoginComplete` |
| `Configs_proofs!ExtensionsWin` | `Spec => []ExtensionsFirst` |
| `XqueueWorkers_proofs!TypeCorrect` | `Spec => []TypeOK` |
| `XqueueWorkers_proofs!NothingShared` | `Spec => []Unshared` |
| `XqueueWorkers_proofs!AnswersAreOwn` | `Spec => []OwnAnswers` |

The assumptions are the `ASSUME`s of the modules, which TLC evaluates on the instances:
bounds are natural numbers, marks such as `NoSocket` or `Unread` differ from the
values beside which they stand, `MongodArgs!TextsAssumption` and `LmsSettings!NamesAssumption`
that the texts and names the source itself writes are among those considered, and
`LmsSettings!CommonAssumption` what is supposed of `lms/envs/common.py`: its lists are lists
of names, `CODE_JAIL` has limits, its login has a password backend and not the one of CAS.
Nothing is supposed of its routing keys.

**Why `ProvisionedOnDisk` needs a stronger invariant.** It says something of the
state `finished` only; that it is reached with the right volumes depends on
every command before it. `IInv` has, besides the types,

* `StoreInv`, the stores at any time: a mysql that is not detached works on its
  volume; mongo's volume never holds more than its server; a server that is up
  has a running container; one that is being initialised has torn files;
* `AttemptInv`: from the first `up` on the two servers' containers were created with the
  attempt's files, so that no later `up` of the script replaces them under it; from
  `up lms` on there is a container for elasticsearch (lms links to it); an attempt with
  `named` set has the host files and no store has an anonymous volume, until the next attempt;
* `MySQLInv`: from the extraction to the restart mysql's volume is the dump (or
  torn and unmarked, and then no later command gets past it), and from the
  restart on the server is not detached;
* `MongoInv`: during the attempt mongo stays ready, and users and course are in it
  once they have been written (not yet on disk: `MakeStop` flushes them);
* `AccountInv`, `MarkInv`, `AssetInv`: what the commands before `pc` have left;
* `MakeInv`: the environment is that of a target, whose flags are `0` and `1`, so
  that the two views of a flag agree;
* `FinishedInv`: the property, kept by stop, down, dev.up, crashes, learners.

The proof has a lemma per store operation (`StartStores`, `StopStores`, `Extract`,
`WriteMySQL`, `WriteMongo`, `Up`), then one step per action. `IInv` is also an
invariant TLC agrees with on the instance of `provision`.

**MongoEntrypoint.** Its `IInv` says what each position of the script stands for.
`ServerInv`: there is no temporary server in `down`, `fork`, `exec` and `serving`,
hence `OneServer`. `FilesInv` and `HistoryInv`: `fork` is reached only on a directory
without known files, what has served has files, so an initialisation
never meets a directory that served. `TraceInv`, as long as no initialisation was
cut short and no error lost: the temporary server, while it is there, holds the
traces of all steps before `pc`; `Shutdown` writes them to the volume, and
they stay. Where a temporary server dies, its traces may be lost, but nothing starts
it again, so that the script cannot reach `exec`. `TriesInv` makes the type of the
loop's counter inductive.

**The refinement of `InitOnce`.** `DirectoryInv` adds what the mapping needs to
know: a directory without known files is empty and was never cut short, an initialisation runs
only on one that was new, and one that ended uninterrupted has left everything
in the volume but, perhaps, a root user whose creation failed without a sign.
One lemma per action then names the abstract step: `Fork` begins, `Shutdown`
completes, a failure or a kill during the initialisation cuts it short, `exec`
serves, the rest stutter.

**ProvisionRuns.** On top of `IInv`: `ContainerInv` (a clone and an anonymous volume
belong to a container that is there), `CloneInv` (a clone that was found at the
start of an attempt stays in the container, which `up` does not recreate as its files are
the same, and the attempt gets no further than the clone), `IndexInv` (an
elasticsearch that is not detached serves its volume, which is the dump's after the
restart), `BareInv` (without `DB_PROVISION` in the environment the position
of the script excludes whatever creates something). `OnlyRestoreOrDestroyLoses`
is read off the actions with these: `StepKeeps` follows the volume in use, `NamedKeeps` the
named one through the `up` and `down` that put it aside and take it up again; it covers
passwords, too.

`SettledInv`, for `RestoredIntoSettledServer`: with sleeps that suffice, no server is in `init`
when the script is about to extract the dump; only `Sleep20` leads there, it
outlasts an initialisation, and only `up` begins one. `PasswordInv`, for the demo accounts: as long as nothing has
failed, mysql is ready whenever a password is set, the passwords of the accounts
before `user` are on the volume, and after the loop all of them. It is the other
half of what `provision_passwords` finds (for attempts with `named` set, the others
deliver to volumes nobody promises to keep): a failure is the only way to miss one.

**How long a run takes.** Liveness itself is not proved, but what it rests on is: in
`ProvisionRuns_proofs`, `MongoEntrypoint_proofs` and `Clone_proofs` a number
`Remaining` that is bounded by the constants, falls with every step of the script
and rises only with a new start. Of `AttemptEnds` and `StartEnds` fairness has only to
add that a script which can go on does, or fails (the wait for a dead mysql cannot).

**The command line of the temporary server.** The loop of `ensure_arg_val` is a recursive
function, and its facts are proved by taking the least counterexample
(`LeastNat`, from the well-foundedness of `<`), so that no induction theorem with an
operator as parameter is needed. `LoopExists` gives the loop its equations.
`Selected` says what it keeps: a sequence embeds in the arguments, in their order, by
the places of those that are neither the option nor the value after it. `LoopStep`
carries this over one turn, provided the arguments are `Paired`. From it follows `Preserves`:
`OnceEach`, `Paired`, `NoStrays` and what is given for any other option stay as they
were, and the option itself is given once, with the script's value. `TemporaryServerArgs` chains
five calls and `--fork`. In `MongoEntrypoint_proofs`, `HackedInv` ties `hacked` to
`TemporaryArgs(Args)` while it is used, and `ArgsKeep` carries the properties of the command over `--auth`.

**Clone.** `WhereInv` is where the working directory is at each step: a root, or, in
`reset` and after a failure there, the repository just cloned; `PassedInv`
that what is before the current repository in the list is complete in one of the roots, or was kept.
`DeliveryInv` names the root: with the workspace in place and no commit pinned
before the last entry, the script is in the workspace whenever it looks for a
repository. Both conditions are needed: `clone_fresh` violates the first, and a list
that begins with a commit the second.

**DateSummary.** The parts of a block are read one after another while the clock
goes on. `CacheInv` says that the date `is_enabled` let pass is the one every
later property uses; `PartsInv` that a part which says "missed" was read after the
deadline and that every part read later then agrees, from title to link. `AheadInv`:
a date that was not ahead when it was put into words is past.

**Configs.** `PlayInv`: during a play the files that are rendered are of its version, unless
one failed, and then the play does not get to `docker-compose up`; after a
change that was carried out, host, running containers and any running play are
of the last version. `PairInv`, for `BrokerWhole`: without faults no container starts between the
two files, so the two files of a container are of one version. The routing keys
(`TasksAreConsumed`) are those of `lms_envs_aws.py` over whatever `common.py` has: what is
lost is exactly what `common.py` itself misroutes and this file does not set. The other properties
follow from the definitions in `LmsSettings` for every file and all
defaults that satisfy the assumptions: `HasConcat` says what is in a concatenation, and `ListIsSeq`
that what a file gives for a list of names is one. For `LoginComplete`, `BackendsOf`,
`CasBackendsOf` and `AppsOf` then name the parts of the three lists.

**XqueueWorkers.** `ForkedInv`: until it has closed its caches, a forked worker has only
sockets of the master, and only of caches it is still going to close. `AnswerInv`: whoever waits on a
socket, or has an answer on it, serves and holds it. With `Unshared` this leaves one worker
per socket, so that what it reads is its own.

Only model-checked: liveness (`AttemptEnds`, `EventuallyProvisioned`, `StartEnds`,
`EventuallyCloned`, `EventuallyServed`). Temporal proofs with fairness and `ENABLED`
are out of the prover's reach. `EventuallyProvisioned` also rests on strong fairness of
an operator who repeats. Every other property of a passing run has its theorem.

## 5. What is left out

* Backup and restore: whether an archive of the files of a running server is worth
  anything, or a server whose files are replaced, is decided by InnoDB,
  WiredTiger and Lucene at the level of single files. A model would return
  what was put into it. The extraction under a running server, which the scripts also do and
  work around, is in `Provision`.
* nginx, CI, Dockerfiles, health checks: static configuration, or
  programs that are not in this repository. `provision-xqueue.sh` is commented out from
  end to end.
* In `LmsSettings` the settings that are only copied (`X = ENV_TOKENS.get('X', X)`),
  most of the file, those written over a file's value (`ATOMIC_REQUESTS`, the preview
  host, the player's licensing) and switches that change one setting nobody else
  reads (file storage, CORS, search engine, Datadog, statistics).
* In `Configs` the files of studio, forum and xqueue, which the same play
  renders in the same way, and the templates and their precedence of variables, which are in the
  configuration repository.
* The tasks of the workers and RabbitMQ itself; only what is consumed is modelled.
* In `XqueueWorkers` xqueue's own queue and consumers, which are not in this repository.
* Simplifications in `Provision`: one operator, who does not run two commands at
  once; `docker-compose up` that fails starts nothing; targets for a single
  service are left out. An anonymous volume that a removed container leaves behind is not
  found again (somebody could still mount it by its name). lms and studio without
  the host files have their image's own configuration; whether their commands work with it
  is one of the failures. Container images, downloads and package installation are
  commands that succeed or fail.
* The servers are external: what is modelled of mysqld, mongod and
  elasticsearch is what the scripts rely on or trip over.
* In `MongoEntrypoint` the change of user, numactl, the warning about `--config`
  and commands other than mongod. A `--config` file may hold the same
  settings; the source has a TODO for it (l. 100).
* In `Clone` an empty `FULLSTACK_WORKSPACE`, which ends the script at once.
* In `DateSummary` the wording, the locale, and the fallback for a locale babel does not know.

## 6. Plan

Done, in this order: `Compose` and `Provision`, `MongodArgs` and `MongoEntrypoint`, `Clone`,
`DateSummary`; then `InitOnce` and the refinement, `XqueueWorkers`, `LmsSettings` and `Configs` (with the
queues of the workers); the proofs above.

Considered and dropped: an abstract specification of provisioning. It would say
that what is delivered grows by whole attempts and is lost to destroy or a new
dump, which is `ProvisionedOnDisk` and `OnlyRestoreOrDestroyLoses` once more. `Backup`, for the
reason given above.

What could still be added:

1. `Configs` for studio and the forum, when their containers depend on
   files that must agree with those of the LMS.
2. The targets for single services.
3. Proofs: a bound like `Remaining` for the make commands of `Configs`.
