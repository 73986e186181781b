----------------------- MODULE MongoEntrypoint_proofs -----------------------
(***************************************************************************)
(* Proofs about MongoEntrypoint, for every set of command lines and        *)
(* environments, every list of init files and every bound on the failures. *)
(***************************************************************************)
EXTENDS MongoEntrypoint, MongodArgs_proofs

LEMMA InitFilesType == Len(InitFiles) \in Nat /\ DOMAIN InitFiles = 1 .. Len(InitFiles)
BY ConstantsAssumption

LEMMA InitType == Init => TypeOK
BY InitFilesType, ConstantsAssumption
DEF Init, TypeOK, StorageFiles, Tries

\* Exit leaves every variable it assigns with its type.
LEMMA ExitType ==
    ASSUME TypeOK, NEW found, Exit(found)
    PROVE  /\ pc' = "down" /\ temp' = "none" /\ mem' \subseteq Traces
           /\ history' \subseteq {"interrupted", "silent", "served"}
BY DEF TypeOK, Exit

\* A file that runs leaves its trace among the traces.
LEMMA FileTrace ==
    ASSUME TypeOK, next <= Len(InitFiles)
    PROVE  next \in Traces /\ next + 1 \in 1 .. Len(InitFiles) + 1
BY InitFilesType DEF TypeOK, Traces

\* The arguments of the temporary server follow from those of the container.
LEMMA HackedType ==
    ASSUME TypeOK, UNCHANGED <<command, env, hacked>>
    PROVE  /\ command' \in CommandLines /\ env' \in Environments
           /\ hacked' \in {<<>>, TemporaryArgs(Args)'}
BY DEF TypeOK, Args, Credentials

\* What the failures and the tries are counted to.
LEMMA FailsType == ASSUME TypeOK, Fails PROVE failures' \in 0 .. MaxFailures
BY ConstantsAssumption DEF TypeOK, Fails

\* The loop of entrypoint.sh:160-180 goes on only with tries left.
TriesInv == pc = "wait" => tries > 0

LEMMA NextType == TypeOK /\ TriesInv /\ [Next]_vars => TypeOK' /\ TriesInv'
<1> SUFFICES ASSUME TypeOK, TriesInv, [Next]_vars PROVE TypeOK' /\ TriesInv'
  OBVIOUS
<1> USE InitFilesType
<1>1. CASE Start
  BY <1>1 DEF Start, TypeOK, TriesInv, Initialising, Args, Credentials
<1>2. CASE Fork
  <2>1. UNCHANGED <<command, env, hacked, next, disk>> /\ files' \in {files, StorageFiles}
    BY <1>2 DEF Fork
  <2>2. failures' \in 0 .. MaxFailures /\ tries' \in {tries, Tries}
    BY <1>2, FailsType DEF Fork, TypeOK
  <2>3. CASE pc' = "wait" /\ tries' = Tries /\ temp' = "starting" /\ UNCHANGED <<mem, history>>
    BY <2>1, <2>2, <2>3, HackedType DEF TypeOK, TriesInv, Initialising, Tries
  <2>4. CASE \E found \in {files, StorageFiles} : Exit(found)
    BY <2>1, <2>2, <2>4, HackedType, ExitType DEF TypeOK, TriesInv, Tries
  <2> QED
    BY <1>2, <2>3, <2>4 DEF Fork
<1>3. CASE Wait
  <2>1. UNCHANGED <<command, env, hacked, next, files, disk, failures>>
    BY <1>3 DEF Wait
  <2>2. tries' \in 0 .. Tries
    <3>1. tries' \in {tries, tries - 1} /\ pc = "wait"
      BY <1>3 DEF Wait
    <3> QED
      BY <3>1 DEF TypeOK, TriesInv, Tries
  <2>3. CASE Exit(files)
    BY <2>1, <2>2, <2>3, HackedType, ExitType DEF TypeOK, TriesInv
  <2>4. CASE ~ Exit(files)
    <3>1. pc' \in {"wait", "user"} /\ UNCHANGED <<temp, mem, history>> /\ TriesInv'
      BY <1>3, <2>2, <2>4 DEF Wait, TriesInv, Tries
    <3> QED
      BY <2>1, <2>2, <3>1, HackedType DEF TypeOK, Initialising
  <2> QED
    BY <2>3, <2>4
<1>4. CASE CreateUser
  <2>1. UNCHANGED <<command, env, hacked, tries, files, disk>> /\ next' = 1
    BY <1>4 DEF CreateUser
  <2>2. failures' \in 0 .. MaxFailures
    BY <1>4, FailsType DEF CreateUser, TypeOK
  <2>3. CASE Exit(files)
    BY <2>1, <2>2, <2>3, HackedType, ExitType DEF TypeOK, TriesInv
  <2>4. CASE ~ Exit(files)
    <3>1. /\ pc' = "files" /\ UNCHANGED temp
          /\ mem' \in {mem, mem \cup {Root}}
          /\ history' \in {history, history \cup {"silent"}}
      BY <1>4, <2>4 DEF CreateUser
    <3> QED
      BY <2>1, <2>2, <3>1, HackedType DEF TypeOK, TriesInv, Initialising, Traces
  <2> QED
    BY <2>3, <2>4
<1>5. CASE RunFile
  <2>1. UNCHANGED <<command, env, hacked>>
    BY <1>5 DEF RunFile
  <2> QED
    BY <1>5, <2>1, HackedType, ExitType, FileTrace, FailsType DEF RunFile, TypeOK, TriesInv, Initialising
<1>6. CASE Shutdown
  <2>1. UNCHANGED <<command, env, hacked>>
    BY <1>6 DEF Shutdown
  <2> QED
    BY <1>6, <2>1, HackedType, ExitType DEF Shutdown, TypeOK, TriesInv, Initialising
<1>7. CASE Exec
  <2>1. UNCHANGED <<command, env, hacked>>
    BY <1>7 DEF Exec
  <2> QED
    BY <1>7, <2>1, HackedType, FailsType DEF Exec, TypeOK, TriesInv, Initialising
<1>8. CASE TempUp \/ TempDies \/ Checkpoint
  <2>1. UNCHANGED <<command, env, hacked>>
    BY <1>8 DEF TempUp, TempDies, Checkpoint
  <2> QED
    BY <1>8, <2>1, HackedType, FailsType DEF TempUp, TempDies, Checkpoint, TypeOK, TriesInv, Initialising
<1>9. CASE Kill
  <2>1. UNCHANGED <<command, env, hacked>>
    BY <1>9 DEF Kill
  <2> QED
    BY <1>9, <2>1, HackedType, ExitType, FailsType DEF Kill, TypeOK, TriesInv, Initialising
<1>10. CASE Stop \/ Wipe
  <2>1. UNCHANGED <<command, env, hacked>>
    BY <1>10 DEF Stop, Wipe
  <2> QED
    BY <1>10, <2>1, HackedType DEF Stop, Wipe, TypeOK, TriesInv, Initialising
<1>11. CASE UNCHANGED vars
  <2>1. UNCHANGED <<command, env, hacked>>
    BY <1>11 DEF vars
  <2> QED
    BY <1>11, <2>1, HackedType DEF vars, TypeOK, TriesInv, Initialising
<1> QED
  BY <1>1, <1>2, <1>3, <1>4, <1>5, <1>6, <1>7, <1>8, <1>9, <1>10, <1>11
  DEF Next, Entrypoint

\* Every variable of every reachable state has its type.
THEOREM TypeCorrect == Spec => []TypeOK
<1>1. Init => TriesInv
  BY DEF Init, TriesInv
<1> QED
  BY <1>1, InitType, NextType, PTL DEF Spec

-----------------------------------------------------------------------------
(* The inductive invariant: what each position of the script stands for.   *)

\* Where there is no temporary server.
ServerInv == pc \in {"down", "fork", "exec", "serving"} => temp = "none"

\* The files mark the directory from the fork on; what served has files.
FilesInv ==
    /\ pc = "fork" => files = {}
    /\ pc \in {"wait", "user", "files", "exec", "serving"} => files # {}
    /\ "served" \in history => files # {}

HistoryInv == pc \in {"fork", "wait", "user", "files"} => "served" \notin history

Clean == history \cap {"interrupted", "silent"} = {}

\* What the temporary server holds before the next init file runs.
SoFar ==
    /\ Credentials => Root \in mem
    /\ \A i \in DOMAIN InitFiles : i < next /\ InitFiles[i] # "other" => i \in mem

TraceInv ==
    Clean =>
        /\ pc = "files" /\ temp # "none" => SoFar
        /\ pc \in {"exec", "serving"} => Expected \subseteq disk
        /\ pc = "down" /\ files # {} => Expected \subseteq disk

IInv == TypeOK /\ TriesInv /\ ServerInv /\ FilesInv /\ HistoryInv /\ TraceInv

LEMMA InitInv == Init => IInv
BY InitType DEF Init, IInv, TriesInv, ServerInv, FilesInv, HistoryInv, TraceInv

\* An exit of an initialisation that has files leaves its mark.
LEMMA ExitInv ==
    ASSUME IInv, TypeOK', TriesInv', Exit(files), UNCHANGED <<files, env, disk>>,
           pc \in Initialising
    PROVE  IInv'
<1> USE DEF IInv, Exit, Initialising
<1>1. ServerInv' /\ FilesInv' /\ HistoryInv'
  BY DEF ServerInv, FilesInv, HistoryInv
<1>2. TraceInv'
  BY DEF FilesInv, TraceInv, Clean, Expected, Credentials
<1> QED
  BY <1>1, <1>2

LEMMA StartInv == ASSUME IInv, TypeOK', TriesInv', Start PROVE IInv'
<1> USE DEF IInv, Start
<1>1. files \cap KnownPaths = {} => files = {}
  BY DEF TypeOK, StorageFiles, KnownPaths
<1>2. ServerInv' /\ FilesInv' /\ HistoryInv'
  BY <1>1 DEF ServerInv, FilesInv, HistoryInv
<1>3. TraceInv'
  BY DEF TraceInv, Clean, Expected, Credentials
<1> QED
  BY <1>2, <1>3

LEMMA ForkInv == ASSUME IInv, TypeOK', TriesInv', Fork PROVE IInv'
<1>1. CASE ~ Accepts(hacked)
  BY <1>1, ExitInv DEF Fork, Initialising
<1>2. CASE Accepts(hacked)
  <2>1. files' # {}
    BY <1>2 DEF Fork, StorageFiles
  <2>2. ServerInv' /\ FilesInv' /\ HistoryInv'
    BY <1>2, <2>1 DEF Fork, Exit, IInv, ServerInv, FilesInv, HistoryInv
  <2>3. TraceInv'
    BY <1>2 DEF Fork, Exit, StorageFiles, IInv, TraceInv, Clean
  <2> QED
    BY <2>2, <2>3 DEF IInv
<1> QED
  BY <1>1, <1>2

LEMMA WaitInv == ASSUME IInv, TypeOK', TriesInv', Wait PROVE IInv'
<1>1. CASE Exit(files)
  BY <1>1, ExitInv DEF Wait, Initialising
<1>2. CASE ~ Exit(files)
  BY <1>2 DEF Wait, IInv, ServerInv, FilesInv, HistoryInv, TraceInv, Clean
<1> QED
  BY <1>1, <1>2

LEMMA CreateUserInv == ASSUME IInv, TypeOK', TriesInv', CreateUser PROVE IInv'
<1>1. CASE Exit(files)
  BY <1>1, ExitInv DEF CreateUser, Initialising
<1>2. CASE ~ Exit(files)
  <2>1. pc = "user" /\ pc' = "files" /\ next' = 1 /\ UNCHANGED <<env, files, temp>>
    BY <1>2 DEF CreateUser
  <2>2. history' = history \/ history' = history \cup {"silent"}
    BY <1>2 DEF CreateUser
  <2>3. ServerInv' /\ FilesInv' /\ HistoryInv'
    BY <2>1, <2>2 DEF IInv, ServerInv, FilesInv, HistoryInv
  <2>4. SoFar' \/ "silent" \in history' \/ temp' = "none"
    BY <1>2, <2>1, InitFilesType DEF CreateUser, SoFar, Credentials
  <2> QED
    BY <2>1, <2>3, <2>4 DEF IInv, TraceInv, Clean
<1> QED
  BY <1>1, <1>2

LEMMA RunFileInv == ASSUME IInv, TypeOK', TriesInv', RunFile PROVE IInv'
<1>1. CASE Exit(files)
  BY <1>1, ExitInv DEF RunFile, Initialising
<1>2. CASE ~ Exit(files)
  <2>1. pc = "files" /\ pc' = "files" /\ next' = next + 1
        /\ UNCHANGED <<env, files, temp, history>>
    BY <1>2 DEF RunFile
  <2>2. mem' = IF InitFiles[next] = "other" THEN mem ELSE mem \cup {next}
    BY <1>2 DEF RunFile
  <2>3. ServerInv' /\ FilesInv' /\ HistoryInv'
    BY <2>1 DEF IInv, ServerInv, FilesInv, HistoryInv
  <2>4. next \in Nat
    BY InitFilesType DEF IInv, TypeOK
  <2>5. SoFar => SoFar'
    BY <2>1, <2>2, <2>4, InitFilesType DEF SoFar, Credentials
  <2> QED
    BY <2>1, <2>3, <2>5 DEF IInv, TraceInv, Clean
<1> QED
  BY <1>1, <1>2

LEMMA ShutdownInv == ASSUME IInv, TypeOK', TriesInv', Shutdown PROVE IInv'
<1>1. CASE Exit(files) /\ UNCHANGED disk
  BY <1>1, ExitInv DEF Shutdown, Initialising
<1>2. CASE temp # "none" /\ Accepts(ShutdownArgs(Args))
  <2>1. ServerInv' /\ FilesInv' /\ HistoryInv'
    BY <1>2 DEF Shutdown, IInv, ServerInv, FilesInv, HistoryInv
  <2>2. \A i \in DOMAIN InitFiles : i < next
    BY InitFilesType DEF Shutdown, IInv, TypeOK
  <2>3. Clean => Expected \subseteq mem
    BY <1>2, <2>2 DEF Shutdown, IInv, TraceInv, SoFar, Expected
  <2>4. TraceInv'
    BY <1>2, <2>3 DEF Shutdown, TraceInv, Clean, Expected, Credentials
  <2> QED
    BY <2>1, <2>4 DEF IInv
<1> QED
  BY <1>1, <1>2 DEF Shutdown

LEMMA ExecInv == ASSUME IInv, TypeOK', TriesInv', Exec PROVE IInv'
<1> USE DEF IInv, Exec
<1>1. ServerInv' /\ FilesInv' /\ HistoryInv'
  BY DEF ServerInv, FilesInv, HistoryInv
<1>2. TraceInv'
  BY DEF TraceInv, Clean, Expected, Credentials
<1> QED
  BY <1>1, <1>2

\* The temporary server by itself.
LEMMA TempInv == ASSUME IInv, TypeOK', TriesInv', TempUp \/ TempDies \/ Checkpoint PROVE IInv'
<1> USE DEF IInv, TempUp, TempDies, Checkpoint
<1>1. temp # "none" /\ UNCHANGED <<pc, env, files, history, next>>
  OBVIOUS
<1>2. ServerInv' /\ FilesInv' /\ HistoryInv'
  BY <1>1 DEF ServerInv, FilesInv, HistoryInv
<1>3. TraceInv'
  BY <1>1 DEF ServerInv, TraceInv, Clean, SoFar, Credentials
<1> QED
  BY <1>2, <1>3

LEMMA OutsideInv == ASSUME IInv, TypeOK', TriesInv', Kill \/ Stop \/ Wipe PROVE IInv'
<1>1. CASE Kill
  BY <1>1, ExitInv DEF Kill
<1>2. CASE Stop \/ Wipe
  <2> USE <1>2 DEF Stop, Wipe, IInv
  <2>1. ServerInv' /\ FilesInv' /\ HistoryInv'
    BY DEF ServerInv, FilesInv, HistoryInv
  <2>2. TraceInv'
    BY DEF TraceInv, Clean, Expected, Credentials
  <2> QED
    BY <2>1, <2>2
<1> QED
  BY <1>1, <1>2

LEMMA NextInv == IInv /\ [Next]_vars => IInv'
<1> SUFFICES ASSUME IInv, [Next]_vars PROVE IInv'
  OBVIOUS
<1>1. TypeOK' /\ TriesInv'
  BY NextType DEF IInv
<1>2. CASE UNCHANGED vars
  BY <1>1, <1>2 DEF vars, IInv, ServerInv, FilesInv, HistoryInv, TraceInv, Clean, SoFar,
                    Expected, Credentials
<1>3. CASE Next
  BY <1>1, <1>3, StartInv, ForkInv, WaitInv, CreateUserInv, RunFileInv, ShutdownInv,
     ExecInv, TempInv, OutsideInv
  DEF Next, Entrypoint
<1> QED
  BY <1>2, <1>3

\* The inductive invariant holds of every reachable state.
THEOREM Inductive == Spec => []IInv
BY InitInv, NextInv, PTL DEF Spec

\* The temporary server is gone whenever the final one serves
\* (entrypoint.sh:212, 226).
THEOREM NeverTwoServers == Spec => []OneServer
<1>1. IInv => OneServer
  BY DEF IInv, ServerInv, OneServer
<1> QED
  BY <1>1, Inductive, PTL

\* What serves was initialised completely, root user and every init file,
\* unless an initialisation was cut short or lost an error; for every list of
\* init files and every command line (entrypoint.sh:182-226).
THEOREM ServedComplete == Spec => []ServesInitialised
<1>1. IInv => ServesInitialised
  BY DEF IInv, TraceInv, Clean, ServesInitialised
<1> QED
  BY <1>1, Inductive, PTL

\* No initialisation on files a final server has served
\* (entrypoint.sh:111-123).
THEOREM ServedLeftAlone == Spec => ServedIsNeverInitialised
<1>1. IInv /\ [Next]_vars => [CreateUser \/ RunFile => "served" \notin history]_vars
  BY DEF IInv, HistoryInv, CreateUser, RunFile
<1> QED
  BY <1>1, Inductive, PTL DEF Spec, ServedIsNeverInitialised

-----------------------------------------------------------------------------
(* The temporary server's command line.                                    *)

\* From the search for the known paths to the shutdown it is what the container's
\* command line makes it.
HackedInv == pc \in {"fork", "wait", "user", "files"} => hacked = TemporaryArgs(Args)

LEMMA NextHacked == HackedInv /\ [Next]_vars => HackedInv'
<1> SUFFICES ASSUME HackedInv, [Next]_vars PROVE HackedInv'
  OBVIOUS
<1>1. UNCHANGED <<command, env>>
  BY DEF Next, Entrypoint, vars, Start, Fork, Wait, CreateUser, RunFile, Shutdown, Exec,
         TempUp, TempDies, Checkpoint, Kill, Stop, Wipe
<1>2. TemporaryArgs(Args)' = TemporaryArgs(Args)
  BY <1>1 DEF Args, Credentials
<1>3. CASE Start
  BY <1>2, <1>3 DEF Start, HackedInv
<1>4. CASE ~ Start
  <2>1. UNCHANGED hacked
    BY <1>4 DEF Next, Entrypoint, vars, Fork, Wait, CreateUser, RunFile, Shutdown, Exec,
                TempUp, TempDies, Checkpoint, Kill, Stop, Wipe
  <2>2. pc' \in {"fork", "wait", "user", "files"} => pc \in {"fork", "wait", "user", "files"}
    BY <1>4 DEF Next, Entrypoint, vars, Fork, Wait, CreateUser, RunFile, Shutdown, Exec,
                TempUp, TempDies, Checkpoint, Kill, Stop, Wipe, Exit
  <2> QED
    BY <1>2, <2>1, <2>2 DEF HackedInv
<1> QED
  BY <1>3, <1>4

LEMMA HackedAlways == Spec => []HackedInv
<1>1. Init => HackedInv
  BY DEF Init, HackedInv
<1> QED
  BY <1>1, NextHacked, PTL DEF Spec

\* --auth, which the script adds itself, changes nothing else of the command line.
LEMMA ArgsKeep ==
    ASSUME TypeOK, Paired(command)
    PROVE  Args \in Seq(Arguments) /\ Paired(Args) /\ Preserves(command, Args, "--auth")
<1>1. command \in Seq(Arguments)
  BY ConstantsAssumption DEF TypeOK
<1>2. "--auth" \in Texts \ Valued
  BY TextsAssumption DEF Valued
<1>3. Preserves(command, command, "--auth")
  BY <1>1 DEF Preserves
<1>4. Preserves(command, Args, "--auth")
  BY <1>1, <1>2, <1>3, EnsureArgKeeps DEF Args
<1> QED
  BY <1>4 DEF Preserves

\* Of whatever length the command line is and whatever it says of addresses and
\* ports, the temporary server listens on the loopback's port 27017 only; every
\* option must have its value (entrypoint.sh:136-137).
THEOREM TemporaryServerLocal == Spec => []TemporaryServerPrivate
<1>1. IInv /\ HackedInv => TemporaryServerPrivate
  <2> SUFFICES ASSUME IInv, HackedInv, temp # "none", Paired(command)
               PROVE  /\ Given("--bind_ip", hacked) = {"127.0.0.1"}
                      /\ Given("--port", hacked) = {"27017"}
    BY DEF TemporaryServerPrivate
  <2>1. hacked = TemporaryArgs(Args)
    BY DEF HackedInv, IInv, TypeOK, ServerInv, Initialising
  <2>2. Args \in Seq(Arguments) /\ Paired(Args)
    BY ArgsKeep DEF IInv
  <2> QED
    BY <2>1, <2>2, TemporaryServerArgs
<1> QED
  BY <1>1, Inductive, HackedAlways, PTL

\* A command line with which the final server serves starts the temporary one
\* (entrypoint.sh:56-99, 136-157).
THEOREM TemporaryServerAccepted == Spec => []AcceptedStaysAccepted
<1>1. IInv /\ HackedInv => AcceptedStaysAccepted
  <2> SUFFICES ASSUME IInv, HackedInv, ServesWith(command)
               PROVE  /\ ~ ShiftFails("--bind_ip", Args)
                      /\ pc = "fork" => Accepts(hacked)
    BY DEF AcceptedStaysAccepted
  <2>1. OnceEach(command) /\ NoStrays(command) /\ Paired(command) /\ ~ HaveArg("--fork", command)
    BY DEF ServesWith, Accepts
  <2>2. Args \in Seq(Arguments) /\ Paired(Args) /\ Preserves(command, Args, "--auth")
    BY <2>1, ArgsKeep DEF IInv
  <2>3. OnceEach(Args) /\ NoStrays(Args) /\ ~ HaveArg("--fork", Args)
    BY <2>1, <2>2 DEF Preserves
  <2>4. ~ ShiftFails("--bind_ip", Args)
    <3>1. "--bind_ip" \in Valued
      BY DEF Valued
    <3> QED
      BY <2>2, <3>1, KeptIsSelected
  <2>5. pc = "fork" => Accepts(hacked)
    BY <2>2, <2>3, TemporaryServerArgs DEF HackedInv
  <2> QED
    BY <2>4, <2>5
<1> QED
  BY <1>1, Inductive, HackedAlways, PTL

-----------------------------------------------------------------------------
(* MongoEntrypoint implements InitOnce.                                    *)

Working == {"wait", "user", "files"}

\* What the mapping needs beside IInv: no trace but of the initialisation, the
\* init files in order, and a mark only on files that were cut short.
DirectoryInv ==
    /\ disk \subseteq Expected /\ mem \subseteq Expected
    /\ files = {} => disk = {}
    /\ pc = "files" /\ temp # "none" =>
          \A i \in DOMAIN InitFiles : i < next /\ InitFiles[i] # "other" => i \in mem
    /\ pc \in Working => "interrupted" \notin history
    /\ "interrupted" \in history => files # {}

LEMMA InitDirectory == Init => DirectoryInv
BY DEF Init, DirectoryInv, Working

\* What is expected depends on the environment only.
LEMMA ExpectedKept == ASSUME UNCHANGED env PROVE UNCHANGED Expected
BY DEF Expected, Credentials

LEMMA ExitDirectory ==
    ASSUME DirectoryInv, Exit(files), UNCHANGED <<files, env, disk>>
    PROVE  DirectoryInv'
<1>1. Expected' = Expected
  BY ExpectedKept
<1> QED
  BY <1>1 DEF DirectoryInv, Exit, Working

LEMMA NextDirectory == IInv /\ DirectoryInv /\ [Next]_vars => DirectoryInv'
<1> SUFFICES ASSUME IInv, DirectoryInv, [Next]_vars PROVE DirectoryInv'
  OBVIOUS
<1>1. UNCHANGED env /\ Expected' = Expected
  BY ExpectedKept
  DEF Next, Entrypoint, vars, Start, Fork, Wait, CreateUser, RunFile, Shutdown, Exec,
      TempUp, TempDies, Checkpoint, Kill, Stop, Wipe
<1>2. CASE Start
  BY <1>1, <1>2 DEF Start, DirectoryInv, Working
<1>3. CASE Fork
  <2>1. CASE ~ Accepts(hacked)
    BY <1>3, <2>1, ExitDirectory DEF Fork
  <2>2. CASE Accepts(hacked)
    <3>1. "interrupted" \notin history
      BY <1>3 DEF Fork, IInv, FilesInv, DirectoryInv
    <3> QED
      BY <1>1, <1>3, <2>2, <3>1 DEF Fork, Exit, StorageFiles, DirectoryInv, Working
  <2> QED
    BY <2>1, <2>2
<1>4. CASE Wait
  <2>1. CASE Exit(files)
    BY <1>4, <2>1, ExitDirectory DEF Wait
  <2>2. CASE ~ Exit(files)
    BY <1>1, <1>4, <2>2 DEF Wait, DirectoryInv, Working
  <2> QED
    BY <2>1, <2>2
<1>5. CASE CreateUser
  <2>1. CASE Exit(files)
    BY <1>5, <2>1, ExitDirectory DEF CreateUser
  <2>2. CASE ~ Exit(files)
    <3>1. pc = "user" /\ pc' = "files" /\ next' = 1 /\ UNCHANGED <<files, disk, temp>>
      BY <1>5, <2>2 DEF CreateUser
    <3>2. mem' \subseteq Expected
      BY <1>1, <1>5, <2>2 DEF CreateUser, DirectoryInv, Expected
    <3>3. history' = history \/ history' = history \cup {"silent"}
      BY <1>5, <2>2 DEF CreateUser
    <3> QED
      BY <1>1, <3>1, <3>2, <3>3, InitFilesType DEF DirectoryInv, Working
  <2> QED
    BY <2>1, <2>2
<1>6. CASE RunFile
  <2>1. CASE Exit(files)
    BY <1>6, <2>1, ExitDirectory DEF RunFile
  <2>2. CASE ~ Exit(files)
    <3>1. /\ pc = "files" /\ pc' = "files" /\ next' = next + 1
          /\ UNCHANGED <<files, disk, temp, history>>
          /\ mem' = IF InitFiles[next] = "other" THEN mem ELSE mem \cup {next}
      BY <1>6, <2>2 DEF RunFile
    <3>2. next \in DOMAIN InitFiles /\ next \in Nat
      BY <1>6, InitFilesType DEF RunFile, IInv, TypeOK
    <3>3. mem' \subseteq Expected
      BY <3>1, <3>2 DEF DirectoryInv, Expected
    <3> QED
      BY <1>1, <3>1, <3>2, <3>3, InitFilesType DEF DirectoryInv, Working
  <2> QED
    BY <2>1, <2>2
<1>7. CASE Shutdown
  <2>1. CASE Exit(files) /\ UNCHANGED disk
    BY <1>7, <2>1, ExitDirectory DEF Shutdown
  <2>2. CASE temp # "none" /\ Accepts(ShutdownArgs(Args))
    BY <1>1, <1>7, <2>2 DEF Shutdown, IInv, FilesInv, DirectoryInv, Working
  <2> QED
    BY <1>7, <2>1, <2>2 DEF Shutdown
<1>8. CASE Exec
  BY <1>1, <1>8 DEF Exec, DirectoryInv, Working
<1>9. CASE TempUp \/ TempDies \/ Checkpoint
  BY <1>1, <1>9 DEF TempUp, TempDies, Checkpoint, IInv, ServerInv, FilesInv, TypeOK,
                    Initialising, DirectoryInv, Working
<1>10. CASE Kill
  BY <1>10, ExitDirectory DEF Kill
<1>11. CASE Stop \/ Wipe
  BY <1>1, <1>11 DEF Stop, Wipe, DirectoryInv, Working
<1>12. CASE UNCHANGED vars
  BY <1>1, <1>12 DEF vars, DirectoryInv, Working
<1> QED
  BY <1>2, <1>3, <1>4, <1>5, <1>6, <1>7, <1>8, <1>9, <1>10, <1>11, <1>12
  DEF Next, Entrypoint

\* The phase at each position of the script.
PhaseTable ==
    /\ pc \in Working => Phase = "initialising" /\ Seen = {}
    /\ pc \notin Working => /\ Phase # "initialising" /\ Seen = disk
                            /\ files = {} => Phase = "new"
                            /\ files # {} => Phase = IF "interrupted" \in history
                                                     THEN "partial" ELSE "initialised"

LEMMA PhaseIs == PhaseTable /\ PhaseTable'
BY DEF PhaseTable, Working, Phase, Seen

LEMMA InitMaps == Init => Directory!Init
BY DEF Init, Directory!Init, Phase, Seen

\* An exit with files, wherever the script was.
LEMMA ExitMaps ==
    ASSUME IInv, IInv', DirectoryInv, DirectoryInv', pc \in Initialising, Exit(files),
           UNCHANGED <<files, env, disk>>
    PROVE  Directory!CutShort \/ UNCHANGED <<Expected, Phase, Seen, pc = "serving">>
<1> USE ExpectedKept DEF IInv
<1>1. TypeOK /\ TypeOK' /\ pc' = "down" /\ pc' \notin Working /\ pc # "serving"
  BY DEF Exit, Working, Initialising
<1>2. CASE pc \in Working
  <2>1. Phase = "initialising" /\ Phase' = "partial" /\ Seen' = disk'
    BY <1>1, <1>2, PhaseIs DEF PhaseTable, Exit, FilesInv, Working
  <2> QED
    BY <1>1, <2>1 DEF Directory!CutShort, DirectoryInv
<1>3. CASE pc \notin Working
  <2>1. CASE files = {}
    BY <1>1, <1>3, <2>1, PhaseIs DEF PhaseTable
  <2>2. CASE files # {}
    <3>1. pc = "exec" /\ UNCHANGED history
      BY <1>3, <2>2 DEF Exit, FilesInv, Initialising, Working
    <3> QED
      BY <1>1, <1>3, <3>1, PhaseIs DEF PhaseTable
  <2> QED
    BY <2>1, <2>2
<1> QED
  BY <1>2, <1>3

LEMMA NextMaps ==
    IInv /\ IInv' /\ DirectoryInv /\ DirectoryInv' /\ [Next]_vars
        => [Directory!Next]_Directory!state
<1> SUFFICES ASSUME IInv, IInv', DirectoryInv, DirectoryInv', [Next]_vars
             PROVE  Directory!Next \/ UNCHANGED <<Expected, Phase, Seen, pc = "serving">>
  BY DEF Directory!state
<1> USE DEF IInv
<1>1. UNCHANGED env /\ Expected' = Expected
  BY ExpectedKept
  DEF Next, Entrypoint, vars, Start, Fork, Wait, CreateUser, RunFile, Shutdown, Exec,
      TempUp, TempDies, Checkpoint, Kill, Stop, Wipe
<1>2. CASE Start
  <2>1. pc \notin Working /\ pc' \notin Working /\ pc' # "serving" /\ pc # "serving"
    BY <1>2 DEF Start, Working
  <2> QED
    BY <1>1, <1>2, <2>1, PhaseIs DEF PhaseTable, Start
<1>3. CASE Fork
  <2>1. CASE ~ Accepts(hacked)
    BY <1>3, <2>1, ExitMaps DEF Fork, Initialising, Directory!Next
  <2>2. CASE Accepts(hacked)
    <3>1. Phase = "new" /\ Seen = {} /\ UNCHANGED disk
      BY <1>3, PhaseIs DEF PhaseTable, Fork, FilesInv, DirectoryInv, Working
    <3>2. CASE pc' = "wait"
      <4>1. Phase' = "initialising" /\ Seen' = {}
        BY <3>2, PhaseIs DEF PhaseTable, Working
      <4> QED
        BY <1>1, <1>3, <3>1, <3>2, <4>1 DEF Fork, Directory!Next, Directory!Begin
    <3>3. CASE pc' # "wait"
      <4>1. pc' = "down" /\ "interrupted" \in history' /\ pc = "fork"
        BY <1>3, <2>2, <3>3 DEF Fork, Exit, StorageFiles
      <4>2. Phase' = "partial" /\ Seen' = disk'
        BY <4>1, PhaseIs DEF PhaseTable, DirectoryInv, Working
      <4> QED
        BY <1>1, <3>1, <4>1, <4>2 DEF Directory!Next, Directory!CutShort, DirectoryInv
    <3> QED
      BY <3>2, <3>3
  <2> QED
    BY <2>1, <2>2
<1>4. CASE Exit(files) /\ UNCHANGED <<files, disk>> /\ pc \in Initialising
  BY <1>1, <1>4, ExitMaps DEF Directory!Next
<1>5. CASE Wait \/ CreateUser \/ RunFile
  <2>1. CASE Exit(files)
    BY <1>4, <1>5, <2>1 DEF Wait, CreateUser, RunFile, Initialising
  <2>2. CASE ~ Exit(files)
    <3>1. pc \in Working /\ pc' \in Working
      BY <1>5, <2>2 DEF Wait, CreateUser, RunFile, Working
    <3> QED
      BY <1>1, <3>1, PhaseIs DEF PhaseTable, Working
  <2> QED
    BY <2>1, <2>2
<1>6. CASE Shutdown
  <2>1. CASE Exit(files) /\ UNCHANGED disk
    BY <1>4, <1>6, <2>1 DEF Shutdown, Initialising
  <2>2. CASE temp # "none" /\ Accepts(ShutdownArgs(Args))
    <3>1. pc = "files" /\ pc' = "exec" /\ disk' = mem /\ UNCHANGED <<files, history>>
      BY <1>6, <2>2 DEF Shutdown
    <3>2. \A i \in DOMAIN InitFiles : InitFiles[i] # "other" => i \in mem
      BY <1>6, <2>2, InitFilesType DEF Shutdown, DirectoryInv, TypeOK
    <3>3. mem \in {Expected, Expected \ {Root}}
      BY <3>2, InitFilesType DEF DirectoryInv, Expected, Root
    <3>4. Phase = "initialising" /\ Phase' = "initialised" /\ Seen' = mem
      BY <3>1, PhaseIs DEF PhaseTable, Working, FilesInv, DirectoryInv
    <3> QED
      BY <1>1, <3>1, <3>3, <3>4 DEF Directory!Next, Directory!Complete
  <2> QED
    BY <1>6, <2>1, <2>2 DEF Shutdown
<1>7. CASE Exec
  <2>1. pc = "exec" /\ pc' \in {"serving", "down"} /\ files # {} /\ UNCHANGED <<files, disk>>
    BY <1>7 DEF Exec, FilesInv
  <2>2. "interrupted" \in history' <=> "interrupted" \in history
    BY <1>7 DEF Exec
  <2>3. UNCHANGED <<Phase, Seen>> /\ Phase \in {"initialised", "partial"}
    BY <2>1, <2>2, PhaseIs DEF PhaseTable, Working
  <2> QED
    BY <1>1, <2>1, <2>3 DEF Directory!Next, Directory!Serve
<1>8. CASE TempUp \/ TempDies \/ Checkpoint
  <2>1. UNCHANGED <<pc, files, history>> /\ temp # "none"
    BY <1>8 DEF TempUp, TempDies, Checkpoint
  <2>2. pc \in Working
    BY <2>1 DEF ServerInv, TypeOK, Initialising, Working
  <2> QED
    BY <1>1, <2>1, <2>2, PhaseIs DEF PhaseTable, Working
<1>9. CASE Kill
  BY <1>4, <1>9 DEF Kill
<1>10. CASE Stop
  <2>1. UNCHANGED <<Phase, Seen>> /\ pc = "serving" /\ pc' = "down"
    BY <1>10, PhaseIs DEF PhaseTable, Stop, Working
  <2> QED
    BY <1>1, <2>1 DEF Directory!Next, Directory!Stop
<1>11. CASE Wipe
  <2>1. pc = "down" /\ pc' = "down" /\ Phase # "initialising" /\ Phase' = "new" /\ Seen' = {}
    BY <1>11, PhaseIs DEF PhaseTable, Wipe, Working
  <2> QED
    BY <1>1, <2>1 DEF Directory!Next, Directory!Wipe
<1>12. CASE UNCHANGED vars
  BY <1>1, <1>12 DEF vars, Phase, Seen
<1> QED
  BY <1>2, <1>3, <1>5, <1>6, <1>7, <1>8, <1>9, <1>10, <1>11, <1>12 DEF Next, Entrypoint

\* Whatever fails and whenever it is killed, the container's data directory is
\* initialised as a whole or stays cut short, and is never initialised again
\* (entrypoint.sh:111-226).
THEOREM Implements == Spec => ImplementsInitOnce
<1>1. Init => IInv /\ DirectoryInv /\ Directory!Init
  BY InitInv, InitDirectory, InitMaps
<1>2. IInv /\ DirectoryInv /\ [Next]_vars => IInv' /\ DirectoryInv'
  BY NextInv, NextDirectory
<1> QED
  BY <1>1, <1>2, NextMaps, PTL DEF Spec, ImplementsInitOnce, Directory!Spec

-----------------------------------------------------------------------------
\* What is left of a start: the tries, the init files and a step for each of
\* the rest of the script.
Remaining == CASE pc = "fork"  -> Tries + Len(InitFiles) + 5
               [] pc = "wait"  -> tries + Len(InitFiles) + 4
               [] pc = "user"  -> Len(InitFiles) + 4
               [] pc = "files" -> Len(InitFiles) + 1 - next + 2
               [] pc = "exec"  -> 1
               [] OTHER        -> 0

LEMMA StepCounts ==
    ASSUME IInv, [Next]_vars
    PROVE  /\ Entrypoint => Remaining' < Remaining
           /\ Remaining' <= Remaining \/ Start
<1>1. /\ Len(InitFiles) \in Nat /\ tries \in Nat /\ Tries = 30
      /\ next \in Nat /\ 1 <= next /\ next <= Len(InitFiles) + 1
  BY InitFilesType DEF IInv, TypeOK, Tries
<1>2. Remaining \in Nat
  BY <1>1 DEF Remaining
<1>3. CASE Fork
  BY <1>1, <1>3 DEF Fork, Exit, Remaining
<1>4. CASE Wait
  <2>1. pc = "wait" /\ pc' \in {"down", "user", "wait"}
    BY <1>4 DEF Wait, Exit
  <2>2. (pc' = "wait" => tries' = tries - 1) /\ tries > 0
    BY <1>4, <2>1 DEF Wait, Exit, IInv, TriesInv
  <2> QED
    BY <1>1, <2>1, <2>2 DEF Remaining
<1>5. CASE CreateUser
  BY <1>1, <1>5 DEF CreateUser, Exit, Remaining
<1>6. CASE RunFile
  BY <1>1, <1>6 DEF RunFile, Exit, Remaining
<1>7. CASE Shutdown
  BY <1>1, <1>7 DEF Shutdown, Exit, Remaining
<1>8. CASE Exec
  BY <1>8 DEF Exec, Remaining
<1>9. CASE Kill \/ Stop
  <2>1. Remaining' = 0
    BY <1>9 DEF Kill, Stop, Exit, Remaining
  <2>2. CASE Kill
    <3>1. Remaining > 0
      BY <1>1, <2>2 DEF Kill, Initialising, Remaining
    <3> QED
      BY <1>2, <2>1, <3>1
  <2>3. CASE Stop
    <3>1. ~ Entrypoint
      BY <2>3 DEF Stop, Entrypoint, Fork, Wait, CreateUser, RunFile, Shutdown, Exec
    <3> QED
      BY <1>2, <2>1, <3>1
  <2> QED
    BY <1>9, <2>2, <2>3
<1>10. CASE UNCHANGED <<pc, tries, next>>
  <2>1. Remaining' = Remaining
    BY <1>10 DEF Remaining
  <2>2. ~ Entrypoint
    BY <1>1, <1>10 DEF Entrypoint, Fork, Wait, CreateUser, RunFile, Shutdown, Exec, Exit
  <2> QED
    BY <1>2, <2>1, <2>2
<1>11. CASE Start
  BY <1>11 DEF Start, Entrypoint, Fork, Wait, CreateUser, RunFile, Shutdown, Exec
<1>12. CASE TempUp \/ TempDies \/ Checkpoint \/ Wipe \/ UNCHANGED vars
  BY <1>10, <1>12 DEF TempUp, TempDies, Checkpoint, Wipe, vars
<1> QED
  BY <1>2, <1>3, <1>4, <1>5, <1>6, <1>7, <1>8, <1>9, <1>11, <1>12 DEF Next, Entrypoint

\* Whether or not the temporary server ever answers, and whatever fails, a start
\* takes at most 35 steps and one for each init file: each step of the script
\* brings its end nearer, and nothing but a new start puts it off
\* (entrypoint.sh:160-180).
THEOREM StartsAreBounded ==
    Spec => /\ [](Remaining \in 0 .. Tries + Len(InitFiles) + 5)
            /\ [][/\ Entrypoint => Remaining' < Remaining
                  /\ Remaining' <= Remaining \/ Start]_vars
<1>1. IInv => Remaining \in 0 .. Tries + Len(InitFiles) + 5
  <2> SUFFICES ASSUME IInv PROVE Remaining \in 0 .. Tries + Len(InitFiles) + 5
    OBVIOUS
  <2>1. /\ Len(InitFiles) \in Nat /\ tries \in Nat /\ tries <= 30 /\ Tries = 30
        /\ next \in Nat /\ 1 <= next /\ next <= Len(InitFiles) + 1
    BY InitFilesType DEF IInv, TypeOK, Tries
  <2>2. Remaining \in Nat /\ Remaining <= 30 + Len(InitFiles) + 5
    BY <2>1 DEF Remaining
  <2> QED
    BY <2>1, <2>2
<1>2. IInv /\ [Next]_vars => [/\ Entrypoint => Remaining' < Remaining
                              /\ Remaining' <= Remaining \/ Start]_vars
  BY StepCounts
<1> QED
  BY <1>1, <1>2, Inductive, PTL DEF Spec
=============================================================================
