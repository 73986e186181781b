--------------------------- MODULE XqueueWorkers ---------------------------
(***************************************************************************)
(* configs/xqueue/xqueue_gunicorn.py: gunicorn's master loads xqueue before*)
(* it forks its workers (preload_app), which therefore inherit the sockets *)
(* of the caches that were used while it was loaded; post_fork closes them *)
(* in the worker, for Django 1.4 and 1.8.                                  *)
(*                                                                         *)
(* A cache is reached through a cache object, which has a socket or none.  *)
(* In 1.8 caches[name] is always the same object, and the global cache is  *)
(* caches["default"].  In 1.4 get_cache(name) makes a new object, so that  *)
(* only the global one can be closed by somebody who does not hold it.     *)
(***************************************************************************)
EXTENDS Integers, Sequences

CONSTANTS
    Cpus,        \* multiprocessing.cpu_count()
    CacheNames,  \* the keys of settings.CACHES
    Sockets,     \* connections memcached may have
    NoSocket,
    MaxDeaths    \* bound: workers that die

ASSUME ConstantsAssumption ==
    /\ Cpus \in Nat \ {0}
    /\ "default" \in CacheNames /\ "global" \notin CacheNames
    /\ NoSocket \notin Sockets
    /\ MaxDeaths \in Nat

Workers == 1 .. (Cpus - 1) * 2 + 2

Master    == 0
Processes == {Master} \cup Workers
Objects   == CacheNames \cup {"global"}

VARIABLES
    django,    \* the version of Django: constant
    conn,      \* the socket of each cache object in each process
    state,     \* of a worker: "none", "forked" or "serving"
    toClose,   \* the caches a forked worker has still to close
    waiting,   \* the socket on which a worker waits for an answer
    answers,   \* what memcached has sent on each socket: for whom
    got,       \* whose answer a worker has read last
    deaths

vars == <<django, conn, state, toClose, waiting, answers, got, deaths>>

TypeOK ==
    /\ django \in {"1.4", "1.8"}
    /\ conn \in [Processes -> [Objects -> Sockets \cup {NoSocket}]]
    /\ state \in [Workers -> {"none", "forked", "serving"}]
    /\ toClose \in [Workers -> SUBSET Objects]
    /\ \A w \in Workers : state[w] = "forked" <=> toClose[w] # {}
    /\ waiting \in [Workers -> Sockets \cup {NoSocket}]
    /\ answers \in [Sockets -> Seq(Workers)]
    /\ got \in [Workers -> Processes]
    /\ deaths \in 0 .. MaxDeaths

Closed == [o \in Objects |-> NoSocket]

\* The objects that live as long as their process.
Lasting == IF django = "1.4" THEN {"global"} ELSE CacheNames

\* The master has loaded xqueue, and used some of the caches meanwhile.
Init ==
    /\ django \in {"1.4", "1.8"}
    /\ \E loaded \in [Lasting -> Sockets \cup {NoSocket}] :
        /\ \A a, b \in Lasting : loaded[a] = loaded[b] => a = b \/ loaded[a] = NoSocket
        /\ conn = [p \in Processes |-> IF p = Master
                     THEN [o \in Objects |-> IF o \in Lasting THEN loaded[o] ELSE NoSocket]
                     ELSE Closed]
    /\ state = [w \in Workers |-> "none"]
    /\ toClose = [w \in Workers |-> {}]
    /\ waiting = [w \in Workers |-> NoSocket]
    /\ answers = [s \in Sockets |-> <<>>]
    /\ got = [w \in Workers |-> Master]
    /\ deaths = 0

-----------------------------------------------------------------------------
HeldIn(c, s) == \E p \in Processes, o \in Objects : c[p][o] = s

\* Process w has these sockets from now on.  What was sent on one that nobody
\* holds any more is lost.
Connects(w, sockets) ==
    /\ conn' = [conn EXCEPT ![w] = sockets]
    /\ answers' = [s \in Sockets |-> IF HeldIn(conn', s) THEN answers[s] ELSE <<>>]

\* The master forks a worker, the first time or for one that has died.
Fork(w) ==
    /\ state[w] = "none"
    /\ state' = [state EXCEPT ![w] = "forked"]
    /\ toClose' = [toClose EXCEPT ![w] = Objects]
    /\ Connects(w, conn[Master])
    /\ UNCHANGED <<django, waiting, got, deaths>>

\* The loop over settings.CACHES closes what get_cache returns: in 1.8 the
\* object of that name, in 1.4 a new one, which has no socket.
CloseNamed(w, name) ==
    /\ state[w] = "forked" /\ name \in toClose[w] /\ name # "global"
    /\ toClose' = [toClose EXCEPT ![w] = @ \ {name}]
    /\ Connects(w, IF django = "1.8" THEN [conn[w] EXCEPT ![name] = NoSocket] ELSE conn[w])
    /\ UNCHANGED <<django, state, waiting, got, deaths>>

\* The object behind django.core.cache.cache.
GlobalCache == IF django = "1.4" THEN "global" ELSE "default"

\* Mutant: the worker may serve before everything is closed.
CloseGlobalEarly(w) ==
    /\ state[w] = "forked"
    /\ Connects(w, [conn[w] EXCEPT ![GlobalCache] = NoSocket])
    /\ state' = [state EXCEPT ![w] = "serving"]
    /\ UNCHANGED <<django, toClose, waiting, got, deaths>>

\* Mutant: it is taken for the object get_cache("default") returns.
CloseDefault(w) ==
    /\ state[w] = "forked" /\ toClose[w] = {"global"}
    /\ toClose' = [toClose EXCEPT ![w] = {}]
    /\ Connects(w, IF django = "1.8" THEN [conn[w] EXCEPT !["default"] = NoSocket] ELSE conn[w])
    /\ state' = [state EXCEPT ![w] = "serving"]
    /\ UNCHANGED <<django, waiting, got, deaths>>

\* Last the global default cache; then gunicorn lets the worker serve.
CloseGlobal(w) ==
    /\ state[w] = "forked" /\ toClose[w] = {"global"}
    /\ toClose' = [toClose EXCEPT ![w] = {}]
    /\ Connects(w, [conn[w] EXCEPT ![GlobalCache] = NoSocket])
    /\ state' = [state EXCEPT ![w] = "serving"]
    /\ UNCHANGED <<django, waiting, got, deaths>>

PostFork(w) == CloseGlobal(w) \/ \E name \in CacheNames : CloseNamed(w, name)

-----------------------------------------------------------------------------
\* Django's caches and memcached, as a worker uses them.

\* A worker asks memcached something, on the socket of the object or on a new
\* one.  memcached answers in the order of the questions.
Ask(w, o) ==
    /\ state[w] = "serving" /\ waiting[w] = NoSocket
    /\ o \in CacheNames \cup {GlobalCache}
    /\ \E s \in Sockets :
        /\ IF conn[w][o] # NoSocket THEN s = conn[w][o] ELSE ~ HeldIn(conn, s)
        /\ conn' = [conn EXCEPT ![w][o] = s]
        /\ waiting' = [waiting EXCEPT ![w] = s]
        /\ answers' = [answers EXCEPT ![s] = Append(@, w)]
    /\ UNCHANGED <<django, state, toClose, got, deaths>>

\* It reads what comes first on that socket.
Read(w) ==
    LET s == waiting[w]
    IN  /\ s # NoSocket /\ answers[s] # <<>>
        /\ got' = [got EXCEPT ![w] = Head(answers[s])]
        /\ answers' = [answers EXCEPT ![s] = Tail(@)]
        /\ waiting' = [waiting EXCEPT ![w] = NoSocket]
        /\ UNCHANGED <<django, conn, state, toClose, deaths>>

\* A request ends, or the client gives an answer up: the socket is closed.
Disconnect(w, o) ==
    /\ state[w] = "serving" /\ conn[w][o] # NoSocket
    /\ Connects(w, [conn[w] EXCEPT ![o] = NoSocket])
    /\ waiting' = IF waiting[w] = conn[w][o] THEN [waiting EXCEPT ![w] = NoSocket] ELSE waiting
    /\ UNCHANGED <<django, state, toClose, got, deaths>>

\* A worker dies, or is killed by the master after its timeout.
Die(w) ==
    /\ state[w] # "none" /\ deaths < MaxDeaths
    /\ deaths' = deaths + 1
    /\ state' = [state EXCEPT ![w] = "none"]
    /\ toClose' = [toClose EXCEPT ![w] = {}]
    /\ waiting' = [waiting EXCEPT ![w] = NoSocket]
    /\ got' = [got EXCEPT ![w] = Master]
    /\ Connects(w, Closed)
    /\ UNCHANGED django

Next == \E w \in Workers :
    \/ Fork(w) \/ PostFork(w)
    \/ \E o \in Objects : Ask(w, o) \/ Disconnect(w, o)
    \/ Read(w) \/ Die(w)

Spec == Init /\ [][Next]_vars

-----------------------------------------------------------------------------
\* xqueue_gunicorn.py:16-19: no "race condition in which one worker could get a
\* cache response intended for another worker", for both versions of Django,
\* with requests given up and workers that die and are forked again.
OwnAnswers == \A w \in Workers : got[w] \in {Master, w}

\* Once a worker serves it shares no socket with the process it was forked from
\* nor with any other.
Unshared == \A w \in Workers : state[w] = "serving" =>
    \A p \in Processes \ {w}, a, b \in Objects : conn[w][a] = conn[p][b] => conn[w][a] = NoSocket
=============================================================================
