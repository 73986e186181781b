----------------------- MODULE XqueueWorkers_proofs -----------------------
(***************************************************************************)
(* No worker of xqueue gets an answer meant for another, whatever the      *)
(* number of processors, caches and sockets.                               *)
(***************************************************************************)
EXTENDS XqueueWorkers, TLAPS

\* Whoever is to read an answer on a socket serves and holds the socket.
Holds(w, s) == state[w] = "serving" /\ \E o \in Objects : conn[w][o] = s

MasterInv == \A o \in Objects : conn[Master][o] # NoSocket => o \in Lasting

\* A forked worker has only sockets of the master, and only of caches it is
\* still going to close.
ForkedInv == \A w \in Workers, o \in Objects :
    state[w] = "forked" /\ conn[w][o] # NoSocket =>
        /\ o \in Lasting
        /\ conn[w][o] = conn[Master][o]
        /\ o \in toClose[w] \/ o = GlobalCache

NoneInv == \A w \in Workers, o \in Objects : state[w] = "none" => conn[w][o] = NoSocket

AnswerInv ==
    /\ \A w \in Workers : waiting[w] # NoSocket => Holds(w, waiting[w])
    /\ \A s \in Sockets : \A i \in 1 .. Len(answers[s]) : Holds(answers[s][i], s)

\* The global cache comes last.
CloseInv == \A w \in Workers : state[w] = "forked" => "global" \in toClose[w]

IInv == TypeOK /\ CloseInv /\ MasterInv /\ ForkedInv /\ NoneInv /\ Unshared /\ AnswerInv /\ OwnAnswers

-----------------------------------------------------------------------------
\* The master is no worker, and every cache has its object.
LEMMA ProcessFacts ==
    /\ Master \notin Workers
    /\ Workers \subseteq Processes /\ Master \in Processes
    /\ GlobalCache \in Objects
BY ConstantsAssumption DEF Workers, Master, Processes, GlobalCache, Objects

\* The master has connected lasting objects only, and no worker exists yet.
LEMMA InitOK == Init => IInv
<1> SUFFICES ASSUME Init PROVE IInv OBVIOUS
<1> USE ProcessFacts, ConstantsAssumption
<1>1. PICK loaded \in [Lasting -> Sockets \cup {NoSocket}] :
        conn = [p \in Processes |-> IF p = Master
                  THEN [o \in Objects |-> IF o \in Lasting THEN loaded[o] ELSE NoSocket]
                  ELSE Closed]
  BY DEF Init
<1>2. conn \in [Processes -> [Objects -> Sockets \cup {NoSocket}]]
  <2>1. Closed \in [Objects -> Sockets \cup {NoSocket}] BY DEF Closed
  <2>2. [o \in Objects |-> IF o \in Lasting THEN loaded[o] ELSE NoSocket]
            \in [Objects -> Sockets \cup {NoSocket}]
    BY <1>1
  <2> QED BY <1>1, <2>1, <2>2
<1>3. TypeOK BY <1>2 DEF Init, TypeOK, Processes
<1>4. \A w \in Workers, o \in Objects : conn[w][o] = NoSocket BY <1>1 DEF Closed
<1>5. MasterInv BY <1>1 DEF MasterInv
<1>6. ForkedInv /\ NoneInv /\ Unshared BY <1>4 DEF Init, ForkedInv, NoneInv, Unshared
<1>7. AnswerInv /\ OwnAnswers BY DEF Init, AnswerInv, OwnAnswers
<1>8. CloseInv BY DEF Init, CloseInv
<1> QED BY <1>3, <1>5, <1>6, <1>7, <1>8 DEF IInv

\* What a step that gives worker w other sockets, none of them new, leaves of
\* the sockets and the answers.
Kept(w, sockets) ==
    /\ conn' \in [Processes -> [Objects -> Sockets \cup {NoSocket}]]
    /\ \A o \in Objects : conn'[w][o] = sockets[o]
    /\ \A p \in Processes \ {w}, o \in Objects : conn'[p][o] = conn[p][o]
    /\ answers' \in [Sockets -> Seq(Workers)]
    /\ \A s \in Sockets, i \in Nat : i \in 1 .. Len(answers'[s]) =>
         /\ i \in 1 .. Len(answers[s]) /\ answers'[s][i] = answers[s][i]
         /\ \E p \in Processes, o \in Objects : conn'[p][o] = s

\* Connects changes the sockets of w only, and answers only get lost.
LEMMA ConnectsKeeps ==
    ASSUME TypeOK, NEW w \in Workers, NEW sockets \in [Objects -> Sockets \cup {NoSocket}],
           Connects(w, sockets)
    PROVE  Kept(w, sockets)
<1> USE ProcessFacts
<1>1. /\ conn' \in [Processes -> [Objects -> Sockets \cup {NoSocket}]]
      /\ \A o \in Objects : conn'[w][o] = sockets[o]
      /\ \A p \in Processes \ {w}, o \in Objects : conn'[p][o] = conn[p][o]
  BY DEF Connects, TypeOK
<1>2. answers' \in [Sockets -> Seq(Workers)] BY DEF Connects, TypeOK
<1>3. ASSUME NEW s \in Sockets, NEW i \in Nat, i \in 1 .. Len(answers'[s])
      PROVE  /\ i \in 1 .. Len(answers[s]) /\ answers'[s][i] = answers[s][i]
             /\ \E p \in Processes, o \in Objects : conn'[p][o] = s
  <2>1. CASE HeldIn(conn', s) BY <1>3, <2>1 DEF Connects, HeldIn
  <2>2. CASE ~ HeldIn(conn', s)
    <3>1. answers'[s] = <<>> BY <2>2 DEF Connects
    <3> QED BY <1>3, <3>1
  <2> QED BY <2>1, <2>2
<1> QED BY <1>1, <1>2, <1>3 DEF Kept

\* What an action has to show of the sockets, the state and the waiting of a
\* worker whose sockets it changes without taking a new one.
LEMMA SocketsKept ==
    ASSUME IInv, NEW w \in Workers, NEW sockets \in [Objects -> Sockets \cup {NoSocket}],
           Connects(w, sockets), django' = django,
           \A v \in Workers \ {w} :
               state'[v] = state[v] /\ toClose'[v] = toClose[v] /\ waiting'[v] = waiting[v],
           \A o \in Objects : sockets[o] \in {NoSocket, conn[w][o], conn[Master][o]},
           state'[w] = "forked" => \A o \in Objects : sockets[o] # NoSocket =>
               o \in Lasting /\ sockets[o] = conn[Master][o] /\ (o \in toClose'[w] \/ o = GlobalCache),
           state'[w] = "none" => \A o \in Objects : sockets[o] = NoSocket,
           state'[w] = "serving" => \A o \in Objects :
               sockets[o] = NoSocket \/ (state[w] = "serving" /\ sockets[o] = conn[w][o]),
           state[w] = "serving" => state'[w] = "serving" \/ \A o \in Objects : sockets[o] = NoSocket,
           waiting'[w] # NoSocket =>
               state'[w] = "serving" /\ \E o \in Objects : sockets[o] = waiting'[w]
    PROVE  MasterInv' /\ ForkedInv' /\ NoneInv' /\ Unshared' /\ AnswerInv'
<1> USE ProcessFacts
<1>0. TypeOK /\ MasterInv /\ ForkedInv /\ NoneInv /\ Unshared /\ AnswerInv BY DEF IInv
<1>1. Kept(w, sockets) BY <1>0, ConnectsKeeps
<1>2. /\ \A o \in Objects : conn'[w][o] = sockets[o]
      /\ \A p \in Processes \ {w}, o \in Objects : conn'[p][o] = conn[p][o]
  BY <1>1 DEF Kept
<1>3. Lasting' = Lasting /\ GlobalCache' = GlobalCache BY DEF Lasting, GlobalCache
<1>4. w # Master OBVIOUS
<1>5. MasterInv' BY <1>0, <1>2, <1>3, <1>4 DEF MasterInv
<1>6. ASSUME NEW v \in Workers, NEW o \in Objects, state'[v] = "forked", conn'[v][o] # NoSocket
      PROVE  /\ o \in Lasting' /\ conn'[v][o] = conn'[Master][o]
             /\ o \in toClose'[v] \/ o = GlobalCache'
  <2>1. CASE v = w BY <1>2, <1>3, <1>4, <1>6, <2>1
  <2>2. CASE v # w
    <3>1. state[v] = "forked" /\ conn[v][o] # NoSocket /\ toClose'[v] = toClose[v]
      BY <1>2, <1>6, <2>2
    <3> QED BY <1>0, <1>2, <1>3, <1>4, <2>2, <3>1 DEF ForkedInv
  <2> QED BY <2>1, <2>2
<1>7. ForkedInv' BY <1>6 DEF ForkedInv
<1>8. NoneInv'
  <2>1. ASSUME NEW v \in Workers, NEW o \in Objects, state'[v] = "none" PROVE conn'[v][o] = NoSocket
    <3>1. CASE v = w BY <1>2, <2>1, <3>1
    <3>2. CASE v # w BY <1>0, <1>2, <2>1, <3>2 DEF NoneInv
    <3> QED BY <3>1, <3>2
  <2> QED BY <2>1 DEF NoneInv
<1>9. ASSUME NEW v \in Workers, state'[v] = "serving", NEW p \in Processes \ {v},
             NEW a \in Objects, NEW b \in Objects, conn'[v][a] = conn'[p][b]
      PROVE  conn'[v][a] = NoSocket
  <2>1. CASE v = w
    <3>1. CASE sockets[a] = NoSocket BY <1>2, <2>1, <3>1
    <3>2. CASE state[w] = "serving" /\ sockets[a] = conn[w][a]
      <4>1. conn[w][a] = conn[p][b] BY <1>2, <1>9, <2>1, <3>2
      <4> QED BY <1>0, <1>2, <2>1, <3>2, <4>1 DEF Unshared
    <3> QED BY <1>9, <2>1, <3>1, <3>2
  <2>2. CASE v # w /\ p # w
    <3>1. state[v] = "serving" /\ conn[v][a] = conn[p][b] BY <1>2, <1>9, <2>2
    <3> QED BY <1>0, <1>2, <2>2, <3>1 DEF Unshared
  <2>3. CASE v # w /\ p = w
    <3>1. state[v] = "serving" /\ conn[v][a] = sockets[b] BY <1>2, <1>9, <2>3
    <3>2. sockets[b] \in {NoSocket, conn[w][b], conn[Master][b]} OBVIOUS
    <3>3. w \in Processes \ {v} /\ Master \in Processes \ {v} BY <2>3
    <3>4. conn[v][a] = NoSocket BY <1>0, <3>1, <3>2, <3>3 DEF Unshared
    <3> QED BY <1>2, <2>3, <3>4
  <2> QED BY <2>1, <2>2, <2>3
<1>10. Unshared' BY <1>9 DEF Unshared
<1>11. ASSUME NEW v \in Workers, NEW s, s # NoSocket, Holds(v, s), v # w PROVE Holds(v, s)'
  <2>1. state'[v] = "serving" BY <1>11 DEF Holds
  <2> QED BY <1>2, <1>11, <2>1 DEF Holds
<1>12. ASSUME NEW v \in Workers, waiting'[v] # NoSocket PROVE Holds(v, waiting[v])'
  <2>1. CASE v = w BY <1>2, <1>12, <2>1 DEF Holds
  <2>2. CASE v # w
    <3>1. waiting'[v] = waiting[v] /\ Holds(v, waiting[v]) BY <1>0, <1>12, <2>2 DEF AnswerInv
    <3> QED BY <1>11, <1>12, <2>2, <3>1 DEF Holds
  <2> QED BY <2>1, <2>2
<1>13. ASSUME NEW s \in Sockets, NEW i \in 1 .. Len(answers'[s]) PROVE Holds(answers[s][i], s)'
  <2>1. /\ i \in 1 .. Len(answers[s]) /\ answers'[s][i] = answers[s][i]
        /\ \E p \in Processes, o \in Objects : conn'[p][o] = s
    <3>1. i \in Nat OBVIOUS
    <3> QED BY <1>1, <3>1 DEF Kept
  <2>2. answers[s] \in Seq(Workers) BY <1>0 DEF TypeOK
  <2>3. PICK v \in Workers : v = answers[s][i] BY <2>1, <2>2
  <2>4. Holds(v, s) BY <1>0, <2>1, <2>3 DEF AnswerInv
  <2>5. s # NoSocket BY ConstantsAssumption
  <2>6. CASE v # w
    <3>1. Holds(v, s)' BY <1>11, <2>4, <2>5, <2>6
    <3> QED BY <2>1, <2>3, <3>1 DEF Holds
  <2>7. CASE v = w
    <3>1. PICK p \in Processes, o \in Objects : conn'[p][o] = s BY <2>1
    <3>2. PICK a \in Objects : state[w] = "serving" /\ conn[w][a] = s BY <2>4, <2>7 DEF Holds
    <3>3. p = w
      <4> SUFFICES ASSUME p # w PROVE FALSE OBVIOUS
      <4>1. conn[w][a] = conn[p][o] BY <1>2, <3>1, <3>2
      <4> QED BY <1>0, <2>5, <3>2, <4>1 DEF Unshared
    <3>4. sockets[o] = s BY <1>2, <3>1, <3>3
    <3>5. state'[w] = "serving" BY <2>5, <3>2, <3>4
    <3> QED BY <2>1, <2>3, <2>7, <3>1, <3>3, <3>5 DEF Holds
  <2> QED BY <2>6, <2>7
<1>14. AnswerInv' BY <1>12, <1>13 DEF AnswerInv
<1> QED BY <1>5, <1>7, <1>8, <1>10, <1>14

-----------------------------------------------------------------------------
\* Every action keeps the invariant.
LEMMA StepOK == IInv /\ [Next]_vars => IInv'
<1> SUFFICES ASSUME IInv, [Next]_vars PROVE IInv' OBVIOUS
<1> USE ProcessFacts, ConstantsAssumption
<1>0. TypeOK /\ CloseInv /\ MasterInv /\ ForkedInv /\ NoneInv /\ Unshared /\ AnswerInv /\ OwnAnswers
  BY DEF IInv
<1>1. CASE UNCHANGED vars
  BY <1>0, <1>1 DEF vars, IInv, TypeOK, CloseInv, MasterInv, ForkedInv, NoneInv, Unshared, AnswerInv,
     OwnAnswers, Holds, Lasting, GlobalCache
<1>2. ASSUME NEW w \in Workers, Fork(w) PROVE IInv'
  <2>1. conn[Master] \in [Objects -> Sockets \cup {NoSocket}] BY <1>0 DEF TypeOK
  <2>2. Connects(w, conn[Master]) BY <1>2 DEF Fork
  <2>3. Kept(w, conn[Master]) BY <1>0, <2>1, <2>2, ConnectsKeeps
  <2>4. /\ state[w] = "none" /\ state'[w] = "forked" /\ toClose'[w] = Objects
        /\ waiting' = waiting /\ django' = django
        /\ \A v \in Workers \ {w} : state'[v] = state[v] /\ toClose'[v] = toClose[v]
    BY <1>0, <1>2 DEF Fork, TypeOK
  <2>5. TypeOK' BY <1>0, <1>2, <2>3 DEF Fork, TypeOK, Objects, Kept
  <2>6. CloseInv' BY <1>0, <2>4 DEF CloseInv, Objects
  <2>7. OwnAnswers' BY <1>0, <1>2 DEF Fork, OwnAnswers
  <2>8. waiting'[w] = NoSocket BY <1>0, <2>4 DEF AnswerInv, Holds
  <2>9. \A o \in Objects : conn[Master][o] # NoSocket => o \in Lasting BY <1>0 DEF MasterInv
  <2>10. MasterInv' /\ ForkedInv' /\ NoneInv' /\ Unshared' /\ AnswerInv'
    BY <2>1, <2>2, <2>4, <2>8, <2>9, SocketsKept
  <2> QED BY <2>5, <2>6, <2>7, <2>10 DEF IInv
<1>3. ASSUME NEW w \in Workers, NEW name \in CacheNames, CloseNamed(w, name) PROVE IInv'
  <2> DEFINE sockets == IF django = "1.8" THEN [conn[w] EXCEPT ![name] = NoSocket] ELSE conn[w]
  <2>1. conn[w] \in [Objects -> Sockets \cup {NoSocket}] BY <1>0 DEF TypeOK
  <2>2. sockets \in [Objects -> Sockets \cup {NoSocket}] BY <2>1
  <2>3. Connects(w, sockets) BY <1>3 DEF CloseNamed
  <2>4. \A o \in Objects :
           sockets[o] = NoSocket \/ (sockets[o] = conn[w][o] /\ (django = "1.8" => o # name))
    <3>1. CASE django = "1.8"
      <4>1. sockets = [conn[w] EXCEPT ![name] = NoSocket] BY <3>1
      <4> HIDE DEF sockets
      <4> QED BY <2>1, <4>1
    <3>2. CASE django # "1.8" BY <3>2
    <3> QED BY <3>1, <3>2
  <2> HIDE DEF sockets
  <2>5. Kept(w, sockets) BY <1>0, <2>2, <2>3, ConnectsKeeps
  <2>6. /\ state[w] = "forked" /\ state' = state /\ toClose'[w] = toClose[w] \ {name}
        /\ waiting' = waiting /\ django' = django /\ name # "global"
        /\ \A v \in Workers \ {w} : toClose'[v] = toClose[v]
    BY <1>0, <1>3 DEF CloseNamed, TypeOK
  <2>7. "global" \in toClose[w] BY <1>0, <2>6 DEF CloseInv
  <2>8. TypeOK' BY <1>0, <1>3, <2>5, <2>7 DEF CloseNamed, TypeOK, Kept
  <2>9. CloseInv' BY <1>0, <2>6 DEF CloseInv
  <2>10. OwnAnswers' BY <1>0, <1>3 DEF CloseNamed, OwnAnswers
  <2>11. waiting'[w] = NoSocket BY <1>0, <2>6 DEF AnswerInv, Holds
  <2>12. ASSUME NEW o \in Objects, sockets[o] # NoSocket
         PROVE  o \in Lasting /\ sockets[o] = conn[Master][o] /\ (o \in toClose'[w] \/ o = GlobalCache)
    <3>1. sockets[o] = conn[w][o] /\ (django = "1.8" => o # name) BY <2>4, <2>12
    <3>2. o \in Lasting /\ conn[w][o] = conn[Master][o] /\ (o \in toClose[w] \/ o = GlobalCache)
      BY <1>0, <2>6, <2>12, <3>1 DEF ForkedInv
    <3>3. CASE django = "1.4" BY <3>1, <3>2, <3>3 DEF Lasting, GlobalCache
    <3>4. CASE django = "1.8" BY <2>6, <3>1, <3>2, <3>4
    <3> QED BY <1>0, <3>3, <3>4 DEF TypeOK
  <2>13. MasterInv' /\ ForkedInv' /\ NoneInv' /\ Unshared' /\ AnswerInv'
    BY <2>2, <2>3, <2>4, <2>6, <2>11, <2>12, SocketsKept
  <2> QED BY <2>8, <2>9, <2>10, <2>13 DEF IInv
<1>4. ASSUME NEW w \in Workers, CloseGlobal(w) PROVE IInv'
  <2> DEFINE sockets == [conn[w] EXCEPT ![GlobalCache] = NoSocket]
  <2>1. conn[w] \in [Objects -> Sockets \cup {NoSocket}] BY <1>0 DEF TypeOK
  <2>2. sockets \in [Objects -> Sockets \cup {NoSocket}] BY <2>1
  <2>3. Connects(w, sockets) BY <1>4 DEF CloseGlobal
  <2>4. \A o \in Objects : sockets[o] = NoSocket
    <3>1. \A o \in Objects : o # GlobalCache => conn[w][o] = NoSocket
      <4>1. state[w] = "forked" /\ toClose[w] = {"global"} BY <1>4 DEF CloseGlobal
      <4>2. "global" \in Lasting => GlobalCache = "global" BY DEF Lasting, GlobalCache
      <4> QED BY <1>0, <4>1, <4>2 DEF ForkedInv
    <3> QED BY <2>1, <3>1
  <2> HIDE DEF sockets
  <2>5. Kept(w, sockets) BY <1>0, <2>2, <2>3, ConnectsKeeps
  <2>6. /\ state[w] = "forked" /\ state'[w] = "serving"
        /\ waiting' = waiting /\ django' = django
        /\ \A v \in Workers \ {w} : state'[v] = state[v] /\ toClose'[v] = toClose[v]
    BY <1>0, <1>4 DEF CloseGlobal, TypeOK
  <2>7. TypeOK' BY <1>0, <1>4, <2>5 DEF CloseGlobal, TypeOK, Kept
  <2>8. CloseInv' BY <1>0, <2>6 DEF CloseInv
  <2>9. OwnAnswers' BY <1>0, <1>4 DEF CloseGlobal, OwnAnswers
  <2>10. waiting'[w] = NoSocket BY <1>0, <2>6 DEF AnswerInv, Holds
  <2>11. /\ state'[w] # "forked" /\ state'[w] # "none" /\ state[w] # "serving"
         /\ \A o \in Objects : sockets[o] \in {NoSocket, conn[w][o], conn[Master][o]}
    BY <2>4, <2>6
  <2>12. MasterInv' /\ ForkedInv' /\ NoneInv' /\ Unshared' /\ AnswerInv'
    BY <2>2, <2>3, <2>4, <2>6, <2>10, <2>11, SocketsKept
  <2> QED BY <2>7, <2>8, <2>9, <2>12 DEF IInv
<1>5. ASSUME NEW w \in Workers, NEW o \in Objects, Ask(w, o) PROVE IInv'
  <2>1. PICK s \in Sockets :
          /\ IF conn[w][o] # NoSocket THEN s = conn[w][o] ELSE ~ HeldIn(conn, s)
          /\ conn' = [conn EXCEPT ![w][o] = s]
          /\ waiting' = [waiting EXCEPT ![w] = s]
          /\ answers' = [answers EXCEPT ![s] = Append(@, w)]
    BY <1>5 DEF Ask
  <2>2. /\ conn' \in [Processes -> [Objects -> Sockets \cup {NoSocket}]]
        /\ conn'[w][o] = s
        /\ \A a \in Objects \ {o} : conn'[w][a] = conn[w][a]
        /\ \A p \in Processes \ {w} : conn'[p] = conn[p]
    BY <1>0, <2>1 DEF TypeOK
  <2>3. \A p \in Processes \ {w}, b \in Objects : conn[p][b] # s
    BY <1>0, <1>5, <2>1 DEF HeldIn, Unshared, Ask, TypeOK
  <2>4. /\ answers' \in [Sockets -> Seq(Workers)]
        /\ \A t \in Sockets \ {s} : answers'[t] = answers[t]
        /\ \A i \in 1 .. Len(answers'[s]) :
             answers'[s][i] = w \/ (i \in 1 .. Len(answers[s]) /\ answers'[s][i] = answers[s][i])
    <3>1. answers[s] \in Seq(Workers) /\ answers'[s] = Append(answers[s], w)
      BY <1>0, <2>1 DEF TypeOK
    <3>2. Append(answers[s], w) \in Seq(Workers) BY <3>1
    <3>3. ASSUME NEW i \in 1 .. Len(answers'[s])
          PROVE  answers'[s][i] = w \/ (i \in 1 .. Len(answers[s]) /\ answers'[s][i] = answers[s][i])
      <4>1. Len(answers'[s]) = Len(answers[s]) + 1 BY <3>1
      <4>2. CASE i = Len(answers[s]) + 1
        <5>1. Append(answers[s], w)[Len(answers[s]) + 1] = w BY <3>1
        <5>2. answers'[s][i] = Append(answers[s], w)[Len(answers[s]) + 1] BY <3>1, <4>2
        <5> QED BY <5>1, <5>2
      <4>3. CASE i # Len(answers[s]) + 1 BY <3>1, <4>1, <4>3
      <4> QED BY <4>2, <4>3
    <3> QED BY <1>0, <2>1, <3>1, <3>2, <3>3 DEF TypeOK
  <2>5. TypeOK' BY <1>0, <1>5, <2>1, <2>2, <2>4 DEF Ask, TypeOK
  <2>6. MasterInv' /\ ForkedInv' /\ NoneInv'
    BY <1>0, <1>5, <2>2 DEF Ask, MasterInv, ForkedInv, NoneInv, Lasting, GlobalCache, TypeOK
  <2>7. Unshared'
    BY <1>0, <1>5, <2>2, <2>3 DEF Ask, Unshared, TypeOK
  <2>8. \A v \in Workers, t \in Sockets : Holds(v, t) => Holds(v, t)'
    BY <1>0, <1>5, <2>1, <2>2 DEF Ask, Holds, TypeOK
  <2>9. Holds(w, s)' BY <1>5, <2>2 DEF Ask, Holds
  <2>10. AnswerInv' /\ OwnAnswers'
    BY <1>0, <1>5, <2>1, <2>4, <2>8, <2>9 DEF Ask, AnswerInv, OwnAnswers, TypeOK
  <2>11. CloseInv' BY <1>0, <1>5 DEF Ask, CloseInv
  <2> QED BY <2>5, <2>6, <2>7, <2>10, <2>11 DEF IInv
<1>6. ASSUME NEW w \in Workers, Read(w) PROVE IInv'
  <2> DEFINE s == waiting[w]
  <2>1. s \in Sockets /\ answers[s] \in Seq(Workers) /\ answers[s] # <<>>
    BY <1>0, <1>6 DEF Read, TypeOK
  <2>2. Head(answers[s]) \in Workers /\ Holds(Head(answers[s]), s) /\ Holds(w, s)
    BY <1>0, <2>1 DEF AnswerInv, TypeOK
  <2>3. Head(answers[s]) = w
    BY <1>0, <2>1, <2>2 DEF Unshared, Holds, TypeOK
  <2>4. /\ answers' \in [Sockets -> Seq(Workers)]
        /\ \A t \in Sockets : \A i \in 1 .. Len(answers'[t]) :
             \E j \in 1 .. Len(answers[t]) : answers'[t][i] = answers[t][j]
    <3>1. Tail(answers[s]) \in Seq(Workers) BY <2>1
    <3>2. \A i \in 1 .. Len(Tail(answers[s])) :
            i + 1 \in 1 .. Len(answers[s]) /\ Tail(answers[s])[i] = answers[s][i + 1]
      BY <2>1
    <3> QED BY <1>0, <1>6, <2>1, <3>1, <3>2 DEF Read, TypeOK
  <2>5. TypeOK' BY <1>0, <1>6, <2>1, <2>3, <2>4 DEF Read, TypeOK
  <2>6. MasterInv' /\ ForkedInv' /\ NoneInv' /\ Unshared'
    BY <1>0, <1>6 DEF Read, MasterInv, ForkedInv, NoneInv, Unshared, Lasting, GlobalCache
  <2>7. AnswerInv' /\ OwnAnswers'
    BY <1>0, <1>6, <2>3, <2>4 DEF Read, AnswerInv, OwnAnswers, Holds, TypeOK
  <2>8. CloseInv' BY <1>0, <1>6 DEF Read, CloseInv
  <2> QED BY <2>5, <2>6, <2>7, <2>8 DEF IInv
<1>7. ASSUME NEW w \in Workers, NEW o \in Objects, Disconnect(w, o) PROVE IInv'
  <2> DEFINE sockets == [conn[w] EXCEPT ![o] = NoSocket]
  <2>1. conn[w] \in [Objects -> Sockets \cup {NoSocket}] BY <1>0 DEF TypeOK
  <2>2. sockets \in [Objects -> Sockets \cup {NoSocket}] BY <2>1
  <2>3. Connects(w, sockets) BY <1>7 DEF Disconnect
  <2>4. \A a \in Objects : sockets[a] = IF a = o THEN NoSocket ELSE conn[w][a] BY <2>1
  <2> HIDE DEF sockets
  <2>5. Kept(w, sockets) BY <1>0, <2>2, <2>3, ConnectsKeeps
  <2>6. /\ state[w] = "serving" /\ state' = state /\ toClose' = toClose /\ django' = django
        /\ \A v \in Workers \ {w} : waiting'[v] = waiting[v]
        /\ waiting'[w] = IF waiting[w] = conn[w][o] THEN NoSocket ELSE waiting[w]
    BY <1>0, <1>7 DEF Disconnect, TypeOK
  <2>7. TypeOK' BY <1>0, <1>7, <2>5 DEF Disconnect, TypeOK, Kept
  <2>8. CloseInv' BY <1>0, <2>6 DEF CloseInv
  <2>9. OwnAnswers' BY <1>0, <1>7 DEF Disconnect, OwnAnswers
  <2>10. waiting'[w] # NoSocket => \E a \in Objects : sockets[a] = waiting'[w]
    BY <1>0, <2>4, <2>6 DEF AnswerInv, Holds
  <2>11. /\ state'[w] = "serving" /\ state'[w] # "forked" /\ state'[w] # "none"
         /\ \A a \in Objects : sockets[a] = NoSocket \/ sockets[a] = conn[w][a]
         /\ \A v \in Workers \ {w} : state'[v] = state[v] /\ toClose'[v] = toClose[v]
    BY <2>4, <2>6
  <2>12. \A a \in Objects : sockets[a] \in {NoSocket, conn[w][a], conn[Master][a]} BY <2>11
  <2>13. MasterInv' /\ ForkedInv' /\ NoneInv' /\ Unshared' /\ AnswerInv'
    BY <2>2, <2>3, <2>6, <2>10, <2>11, <2>12, SocketsKept
  <2> QED BY <2>7, <2>8, <2>9, <2>13 DEF IInv
<1>8. ASSUME NEW w \in Workers, Die(w) PROVE IInv'
  <2>1. Closed \in [Objects -> Sockets \cup {NoSocket}] /\ \A o \in Objects : Closed[o] = NoSocket
    BY DEF Closed
  <2>2. Connects(w, Closed) BY <1>8 DEF Die
  <2>3. Kept(w, Closed) BY <1>0, <2>1, <2>2, ConnectsKeeps
  <2>4. /\ state'[w] = "none" /\ waiting'[w] = NoSocket /\ django' = django
        /\ \A v \in Workers \ {w} :
             state'[v] = state[v] /\ toClose'[v] = toClose[v] /\ waiting'[v] = waiting[v]
    BY <1>0, <1>8 DEF Die, TypeOK
  <2>5. TypeOK'
    <3>1. deaths' \in 0 .. MaxDeaths BY <1>0, <1>8 DEF Die, TypeOK
    <3> QED BY <1>0, <1>8, <2>3, <3>1 DEF Die, TypeOK, Kept
  <2>6. CloseInv' BY <1>0, <2>4 DEF CloseInv
  <2>7. OwnAnswers' BY <1>0, <1>8 DEF Die, OwnAnswers, TypeOK
  <2>8. MasterInv' /\ ForkedInv' /\ NoneInv' /\ Unshared' /\ AnswerInv'
    BY <2>1, <2>2, <2>4, SocketsKept
  <2> QED BY <2>5, <2>6, <2>7, <2>8 DEF IInv
<1> QED BY <1>1, <1>2, <1>3, <1>4, <1>5, <1>6, <1>7, <1>8 DEF Next, PostFork

-----------------------------------------------------------------------------
\* In every reachable state IInv holds.
LEMMA Inductive == Spec => []IInv
BY InitOK, StepOK, PTL DEF Spec

\* The variables of the workers and of memcached keep their types; a worker
\* that is forked has always something left to close, and the others nothing.
THEOREM TypeCorrect == Spec => []TypeOK
BY Inductive, PTL DEF IInv

\* post_fork closes every socket a worker could share with the master it was
\* forked from, in Django 1.4 and in 1.8.
THEOREM NothingShared == Spec => []Unshared
BY Inductive, PTL DEF IInv

\* No worker reads the answer to another worker's question.
THEOREM AnswersAreOwn == Spec => []OwnAnswers
BY Inductive, PTL DEF IInv
=============================================================================
