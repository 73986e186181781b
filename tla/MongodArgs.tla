----------------------------- MODULE MongodArgs -----------------------------
(***************************************************************************)
(* The command lines that configs/mongodb/entrypoint.sh builds for mongod  *)
(* and what mongod makes of them.  Constant-level.                         *)
(*                                                                         *)
(* An argument is a record: a flag that stands alone (--port), a flag with *)
(* its value behind = (--port=27018), or a plain word (27018).             *)
(***************************************************************************)
EXTENDS Integers, Sequences

CONSTANT Texts      \* the flags and values that may be on a command line

ASSUME TextsAssumption ==
    {"none", "--bind_ip", "127.0.0.1", "--port", "27017", "--sslMode", "allowSSL", "disabled",
     "--logpath", "stdout", "--logappend", "--pidfilepath", "pidfile", "--fork", "--auth"}
        \subseteq Texts

Arguments == [flag : Texts, value : Texts]

Bare(flag)          == [flag |-> flag, value |-> "none"]
Joined(flag, value) == [flag |-> flag, value |-> value]
Word(value)         == [flag |-> "none", value |-> value]

\* The flags that take a value; the others are switches.
Valued == {"--bind_ip", "--port", "--sslMode", "--sslPEMKeyFile", "--logpath",
           "--pidfilepath", "--config"}

-----------------------------------------------------------------------------
\* The _mongod_hack functions: an argument is there as such or with =.
HaveArg(flag, args) == \E i \in DOMAIN args : args[i].flag = flag

EnsureArg(flag, args) ==
    IF HaveArg(flag, args) THEN args ELSE Append(args, Bare(flag))

\* Mutant: the form with = stays.
PassedJoined(flag, arg, state) ==
    IF state.skip > 0 THEN [state EXCEPT !.skip = @ - 1]
    ELSE IF arg = Bare(flag) THEN [state EXCEPT !.skip = 1]
    ELSE [state EXCEPT !.kept = Append(@, arg)]

\* One turn of the loop in ensure_arg_val: the flag is dropped, with or without
\* =, and what follows a bare one is skipped, whatever that is.
Passed(flag, arg, state) ==
    IF state.skip > 0 THEN [state EXCEPT !.skip = @ - 1]
    ELSE IF arg = Bare(flag) THEN [state EXCEPT !.skip = 1]
    ELSE IF arg.flag = flag THEN state
    ELSE [state EXCEPT !.kept = Append(@, arg)]

\* The arguments kept, and how many of the next are to be skipped, after the
\* first i of args.
Loop(flag, args) ==
    LET loop[i \in 0 .. Len(args)] ==
            IF i = 0 THEN [kept |-> <<>>, skip |-> 0] ELSE Passed(flag, args[i], loop[i - 1])
    IN  loop

Kept(flag, args) == Loop(flag, args)[Len(args)].kept

\* A last argument that wants a value ends the script: nothing left to `shift`.
ShiftFails(flag, args) == Loop(flag, args)[Len(args)].skip > 0

\* Mutant: a value that is there is respected, as ensure_arg does.
EnsureArgValOnce(flag, value, args) ==
    IF HaveArg(flag, args) THEN args ELSE args \o <<Bare(flag), Word(value)>>

EnsureArgVal(flag, value, args) ==
    Kept(flag, args) \o <<Bare(flag), Word(value)>>

-----------------------------------------------------------------------------
\* mongod's side: the values a command line gives a flag, ...
Given(flag, args) ==
    {args[i].value : i \in {j \in DOMAIN args : args[j].flag = flag /\ args[j] # Bare(flag)}}
    \cup
    {args[i + 1].value : i \in {j \in DOMAIN args : args[j] = Bare(flag) /\ j < Len(args)}}

\* ... and the command lines it accepts: no flag twice, ...
OnceEach(args) == \A i, j \in DOMAIN args :
    args[i].flag = args[j].flag /\ i # j => args[i].flag = "none"

\* ... every value where it belongs, ...
WantsValue(arg) == arg.flag \in Valued /\ arg.value = "none"

Paired(args) == \A i \in DOMAIN args :
    WantsValue(args[i]) => i < Len(args) /\ args[i + 1].flag = "none"

NoStrays(args) == \A i \in DOMAIN args :
    args[i].flag = "none" => i > 1 /\ WantsValue(args[i - 1])

\* ... TLS switched on if and only if there is a key.
TlsMatches(args) ==
    HaveArg("--sslPEMKeyFile", args) <=> Given("--sslMode", args) \notin {{}, {"disabled"}}

Accepts(args) == OnceEach(args) /\ Paired(args) /\ NoStrays(args) /\ TlsMatches(args)

\* With --fork it does not stay the process it was started as.
ServesWith(args) == Accepts(args) /\ ~ HaveArg("--fork", args)

-----------------------------------------------------------------------------
\* The command line of the temporary server, made of the container's one.
SslMode(args) == IF HaveArg("--sslPEMKeyFile", args) THEN "allowSSL" ELSE "disabled"

TemporaryArgs(args) ==
    LET private == EnsureArgVal("--port", "27017", EnsureArgVal("--bind_ip", "127.0.0.1", args))
        tls     == EnsureArgVal("--sslMode", SslMode(args), private)
        logged  == EnsureArg("--logappend", EnsureArgVal("--logpath", "stdout", tls))
    IN  EnsureArgVal("--pidfilepath", "pidfile", logged) \o <<Bare("--fork")>>

\* The command line that stops it.
ShutdownArgs(args) == args \o <<Joined("--pidfilepath", "pidfile"), Bare("--shutdown")>>
=============================================================================
