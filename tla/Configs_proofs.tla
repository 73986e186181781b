--------------------------- MODULE Configs_proofs ---------------------------
(***************************************************************************)
(* A change carried out as documented is what is served, and what the      *)
(* settings module promises of the login and of the sandbox, whatever the  *)
(* files hold and however many changes, crashes and reboots there are.     *)
(***************************************************************************)
EXTENDS Configs, TLAPS

\* While make renders, the files it is done with are of the version it renders,
\* unless one failed; a change that was carried out is what is mounted, and what
\* a running play renders.
PlayInv ==
    /\ make \in {"auth", "up"} /\ ~ failed => host.env = playing
    /\ make = "up" /\ ~ failed => host.auth = playing
    /\ failed => make \in {"auth", "up"} /\ faults > 0
    /\ stopped => \A c \in Containers : state[c] = "off"
    /\ fresh => /\ host = [f \in Files |-> Wanted]
                /\ make \in {"env", "auth", "up"} => playing = Wanted
                /\ \A c \in Containers : state[c] # "off" => mounted[c] = host

IInv == TypeOK /\ PlayInv

-----------------------------------------------------------------------------
\* Starting containers keeps the types and, of fresh, what PlayInv says.
LEMMA StartOK ==
    ASSUME NEW cs, IInv, Start(cs), UNCHANGED <<versions, host>>
    PROVE  /\ state' \in [Containers -> {"off", "starting", "serving"}]
           /\ mounted' \in [Containers -> [Files -> 1 .. Wanted]]
           /\ stopped' \in BOOLEAN
           /\ stopped' => stopped /\ \A c \in Containers : state'[c] = "off"
           /\ \A c \in Containers : state'[c] # "off" =>
                mounted'[c] = host \/ (state[c] # "off" /\ mounted'[c] = mounted[c])
<1>1. /\ state' = [c \in Containers |-> IF c \in cs THEN "starting" ELSE state[c]]
      /\ mounted' = [c \in Containers |-> IF c \in cs THEN host ELSE mounted[c]]
      /\ stopped' = (stopped /\ cs = {})
  BY DEF Start
<1>2. /\ state \in [Containers -> {"off", "starting", "serving"}]
      /\ mounted \in [Containers -> [Files -> 1 .. Wanted]]
      /\ host \in [Files -> 1 .. Wanted]
      /\ stopped \in BOOLEAN
      /\ stopped => \A c \in Containers : state[c] = "off"
  BY DEF IInv, TypeOK, PlayInv
<1> QED BY <1>1, <1>2

\* In the first state nothing runs.
LEMMA InitOK == Init => IInv
<1> SUFFICES ASSUME Init PROVE IInv OBVIOUS
<1>1. Len(versions) = 1 /\ versions \in Seq(Choices) BY DEF Init
<1>2. 1 \in 1 .. Wanted /\ Wanted \in 1 .. MaxEdits + 1
  BY <1>1, ConstantsAssumption DEF Wanted
<1>3. TypeOK
  <2>1. versions \in Seq(Choices) BY <1>1
  <2>2. host \in [Files -> 1 .. Wanted] BY <1>2 DEF Init
  <2>3. mounted \in [Containers -> [Files -> 1 .. Wanted]] BY <2>2 DEF Init
  <2>4. state \in [Containers -> {"off", "starting", "serving"}] BY DEF Init
  <2>5. playing \in 1 .. Wanted /\ faults \in 0 .. MaxFaults BY <1>2, ConstantsAssumption DEF Init
  <2>6. /\ make \in {"idle", "env", "auth", "up", "workers"}
        /\ failed \in BOOLEAN /\ full \in BOOLEAN /\ stopped \in BOOLEAN /\ fresh \in BOOLEAN
    BY DEF Init
  <2> QED BY <1>2, <2>1, <2>2, <2>3, <2>4, <2>5, <2>6 DEF TypeOK
<1>4. PlayInv BY DEF Init, PlayInv
<1> QED BY <1>3, <1>4 DEF IInv

\* What changes when the process of a container ends.
LEMMA EndedOK ==
    ASSUME IInv, NEW c \in Containers, Ended(c), UNCHANGED <<versions, host, make, playing, failed, full, fresh>>,
           faults' \in 0 .. MaxFaults, faults' >= faults
    PROVE  IInv'
<1>0. TypeOK /\ PlayInv BY DEF IInv
<1>1. faults > 0 => faults' > 0 BY <1>0, ConstantsAssumption DEF TypeOK
<1>2. CASE c = "lms"
  <2>1. Start({c}) BY <1>2 DEF Ended
  <2>2. UNCHANGED <<versions, host>> OBVIOUS
  <2> HIDE DEF Start
  <2>3. /\ state' \in [Containers -> {"off", "starting", "serving"}]
        /\ mounted' \in [Containers -> [Files -> 1 .. Wanted]]
        /\ stopped' \in BOOLEAN
        /\ stopped' => stopped /\ \A d \in Containers : state'[d] = "off"
        /\ \A d \in Containers : state'[d] # "off" =>
             mounted'[d] = host \/ (state[d] # "off" /\ mounted'[d] = mounted[d])
    BY <2>1, <2>2, StartOK
  <2>4. TypeOK' BY <1>0, <2>3 DEF TypeOK, Wanted
  <2>5. PlayInv' BY <1>0, <1>1, <2>3 DEF PlayInv, Wanted
  <2> QED BY <2>4, <2>5 DEF IInv
<1>3. CASE c # "lms"
  <2>1. state' = [state EXCEPT ![c] = "off"] /\ UNCHANGED <<mounted, stopped>> BY <1>3 DEF Ended
  <2>2. TypeOK' BY <1>0, <2>1 DEF TypeOK, Wanted
  <2>3. PlayInv' BY <1>0, <1>1, <2>1 DEF PlayInv, Wanted, TypeOK
  <2> QED BY <2>2, <2>3 DEF IInv
<1> QED BY <1>2, <1>3

\* Every action keeps the invariant.
LEMMA StepOK == IInv /\ [Next]_vars => IInv'
<1> SUFFICES ASSUME IInv, [Next]_vars PROVE IInv' OBVIOUS
<1> USE ConstantsAssumption
<1>0. TypeOK /\ PlayInv BY DEF IInv
<1>1. CASE UNCHANGED vars BY <1>0, <1>1 DEF vars, IInv, TypeOK, PlayInv, Wanted
<1>2. CASE Edit
  <2>1. PICK choice \in Edits : versions' = Append(versions, choice) BY <1>2 DEF Edit
  <2>2. /\ versions' \in Seq(Choices) /\ Wanted' = Wanted + 1 /\ Wanted \in Nat
        /\ Wanted' \in 1 .. MaxEdits + 1 /\ 1 .. Wanted \subseteq 1 .. Wanted'
    BY <1>0, <1>2, <2>1 DEF Edit, TypeOK, Wanted
  <2>3. TypeOK' BY <1>0, <1>2, <2>2 DEF Edit, TypeOK
  <2>4. PlayInv' BY <1>0, <1>2 DEF Edit, PlayInv
  <2> QED BY <2>3, <2>4 DEF IInv
<1>3. CASE MakeStop BY <1>0, <1>3 DEF MakeStop, IInv, TypeOK, PlayInv, Wanted
<1>4. CASE MakeUp
  <2>1. Wanted \in 1 .. Wanted BY <1>0 DEF TypeOK
  <2> QED BY <1>0, <1>4, <2>1 DEF MakeUp, IInv, TypeOK, PlayInv, Wanted
<1>5. CASE RenderEnv
  <2>1. CASE host' = [host EXCEPT !["env"] = playing] /\ UNCHANGED <<failed, faults>>
    <3>1. TypeOK' BY <1>0, <1>5, <2>1 DEF RenderEnv, Render, TypeOK, Wanted, Files
    <3>2. PlayInv'
      <4>1. ~ failed => host'.env = playing
        BY <1>0, <1>5, <2>1 DEF RenderEnv, Render, TypeOK, PlayInv, Files
      <4>2. ASSUME fresh PROVE host' = host
        BY <1>0, <1>5, <2>1, <4>2 DEF RenderEnv, Render, PlayInv, TypeOK, Files
      <4> QED BY <1>0, <1>5, <2>1, <4>1, <4>2 DEF RenderEnv, Render, PlayInv, Wanted, TypeOK
    <3> QED BY <3>1, <3>2 DEF IInv
  <2>2. CASE Faulty /\ failed' = TRUE /\ UNCHANGED host
    <3>1. TypeOK' BY <1>0, <1>5, <2>2 DEF RenderEnv, Render, Faulty, TypeOK, Wanted
    <3>2. PlayInv' BY <1>0, <1>5, <2>2 DEF RenderEnv, Render, Faulty, PlayInv, Wanted, TypeOK
    <3> QED BY <3>1, <3>2 DEF IInv
  <2> QED BY <1>5, <2>1, <2>2 DEF RenderEnv, Render
<1>6. CASE RenderAuth
  <2>1. CASE host' = [host EXCEPT !["auth"] = playing] /\ UNCHANGED <<failed, faults>>
    <3>1. TypeOK' BY <1>0, <1>6, <2>1 DEF RenderAuth, Render, TypeOK, Wanted, Files
    <3>2. PlayInv'
      <4>1. ~ failed => host'.env = playing /\ host'.auth = playing
        BY <1>0, <1>6, <2>1 DEF RenderAuth, Render, TypeOK, PlayInv, Files
      <4>2. ASSUME fresh PROVE host' = host
        BY <1>0, <1>6, <2>1, <4>2 DEF RenderAuth, Render, PlayInv, TypeOK, Files
      <4> QED BY <1>0, <1>6, <2>1, <4>1, <4>2 DEF RenderAuth, Render, PlayInv, Wanted, TypeOK
    <3> QED BY <3>1, <3>2 DEF IInv
  <2>2. CASE Faulty /\ failed' = TRUE /\ UNCHANGED host
    <3>1. TypeOK' BY <1>0, <1>6, <2>2 DEF RenderAuth, Render, Faulty, TypeOK, Wanted
    <3>2. PlayInv' BY <1>0, <1>6, <2>2 DEF RenderAuth, Render, Faulty, PlayInv, Wanted, TypeOK
    <3> QED BY <3>1, <3>2 DEF IInv
  <2> QED BY <1>6, <2>1, <2>2 DEF RenderAuth, Render
<1>7. CASE PlayFails
  <2>1. TypeOK'
    <3>1. faults' \in 0 .. MaxFaults BY <1>0, <1>7 DEF PlayFails, Faulty, TypeOK
    <3> QED BY <1>0, <1>7, <3>1 DEF PlayFails, Abort, TypeOK, Wanted
  <2>2. PlayInv' BY <1>0, <1>7 DEF PlayFails, Abort, PlayInv, Wanted
  <2> QED BY <2>1, <2>2 DEF IInv
<1>8. CASE UpLms
  <2>1. Start(Off \cap {"lms"}) /\ UNCHANGED <<versions, host, playing, failed, full, faults>> /\ make = "up" /\ ~ failed
    BY <1>8 DEF UpLms
  <2>2. /\ state' \in [Containers -> {"off", "starting", "serving"}]
        /\ mounted' \in [Containers -> [Files -> 1 .. Wanted]]
        /\ stopped' \in BOOLEAN
        /\ stopped' => stopped /\ \A d \in Containers : state'[d] = "off"
        /\ \A d \in Containers : state'[d] # "off" =>
             mounted'[d] = host \/ (state[d] # "off" /\ mounted'[d] = mounted[d])
    BY <2>1, StartOK
  <2>3. make' \in {"workers", "idle"} /\ fresh' = (fresh \/ (stopped /\ playing = Wanted))
    BY <1>8 DEF UpLms
  <2>4. TypeOK' BY <1>0, <2>1, <2>2, <2>3 DEF TypeOK, Wanted
  <2>5. host \in [Files -> 1 .. Wanted] /\ host.env = playing /\ host.auth = playing
    BY <1>0, <2>1 DEF PlayInv, TypeOK
  <2>6. PlayInv'
    <3>1. ASSUME fresh'
          PROVE  /\ host' = [f \in Files |-> Wanted']
                 /\ \A c \in Containers : state'[c] # "off" => mounted'[c] = host'
      <4>1. CASE fresh BY <1>0, <2>1, <2>2, <4>1 DEF PlayInv, Wanted
      <4>2. CASE stopped /\ playing = Wanted
        <5>1. host = [f \in Files |-> Wanted] BY <2>5, <4>2 DEF Files
        <5>2. \A c \in Containers : state[c] = "off" BY <1>0, <4>2 DEF PlayInv
        <5> QED BY <2>1, <2>2, <5>1, <5>2 DEF Wanted
      <4> QED BY <2>3, <3>1, <4>1, <4>2
    <3> QED BY <2>1, <2>2, <2>3, <3>1 DEF PlayInv
  <2> QED BY <2>4, <2>6 DEF IInv
<1>9. CASE UpWorkers
  <2>1. /\ Start(Off) /\ UNCHANGED <<versions, host, playing, failed, full, fresh, faults>>
        /\ make = "workers" /\ make' = "idle"
    BY <1>9 DEF UpWorkers
  <2>2. /\ state' \in [Containers -> {"off", "starting", "serving"}]
        /\ mounted' \in [Containers -> [Files -> 1 .. Wanted]]
        /\ stopped' \in BOOLEAN
        /\ stopped' => stopped /\ \A d \in Containers : state'[d] = "off"
        /\ \A d \in Containers : state'[d] # "off" =>
             mounted'[d] = host \/ (state[d] # "off" /\ mounted'[d] = mounted[d])
    BY <2>1, StartOK
  <2>3. TypeOK' BY <1>0, <2>1, <2>2 DEF TypeOK, Wanted
  <2>4. PlayInv' BY <1>0, <2>1, <2>2 DEF PlayInv, Wanted
  <2> QED BY <2>3, <2>4 DEF IInv
<1>10. ASSUME NEW c \in Containers, MakeStart(c) PROVE IInv'
  <2>1. Start({c}) /\ UNCHANGED <<versions, host, make, playing, failed, full, fresh, faults>>
    BY <1>10 DEF MakeStart
  <2>2. /\ state' \in [Containers -> {"off", "starting", "serving"}]
        /\ mounted' \in [Containers -> [Files -> 1 .. Wanted]]
        /\ stopped' \in BOOLEAN
        /\ stopped' => stopped /\ \A d \in Containers : state'[d] = "off"
        /\ \A d \in Containers : state'[d] # "off" =>
             mounted'[d] = host \/ (state[d] # "off" /\ mounted'[d] = mounted[d])
    BY <2>1, StartOK
  <2>3. TypeOK' BY <1>0, <2>1, <2>2 DEF TypeOK, Wanted
  <2>4. PlayInv' BY <1>0, <2>1, <2>2 DEF PlayInv, Wanted
  <2> QED BY <2>3, <2>4 DEF IInv
<1>11. ASSUME NEW c \in Containers, Load(c) PROVE IInv'
  <2>1. state[c] = "starting" /\ UNCHANGED <<versions, host, make, playing, failed, full, fresh, faults>>
    BY <1>11 DEF Load
  <2>2. CASE state' = [state EXCEPT ![c] = "serving"] /\ UNCHANGED <<mounted, stopped>>
    <3>1. TypeOK' BY <1>0, <2>1, <2>2 DEF TypeOK, Wanted
    <3>2. ~ stopped BY <1>0, <2>1 DEF PlayInv
    <3>3. PlayInv' BY <1>0, <2>1, <2>2, <3>2 DEF PlayInv, Wanted, TypeOK
    <3> QED BY <3>1, <3>3 DEF IInv
  <2>3. CASE Ended(c) BY <1>0, <2>1, <2>3, EndedOK, ConstantsAssumption DEF TypeOK
  <2> QED BY <1>11, <2>2, <2>3 DEF Load
<1>12. ASSUME NEW c \in Containers, Crash(c) PROVE IInv'
  <2>1. Ended(c) /\ UNCHANGED <<versions, host, make, playing, failed, full, fresh>> BY <1>12 DEF Crash
  <2>2. faults' \in 0 .. MaxFaults /\ faults' >= faults BY <1>0, <1>12 DEF Crash, Faulty, TypeOK
  <2> QED BY <2>1, <2>2, EndedOK
<1>13. CASE Reboot
  <2>1. TypeOK'
    <3>1. /\ state' \in [Containers -> {"off", "starting", "serving"}]
          /\ mounted' \in [Containers -> [Files -> 1 .. Wanted]]
      BY <1>0, <1>13 DEF Reboot, TypeOK
    <3>2. faults' \in 0 .. MaxFaults BY <1>0, <1>13 DEF Reboot, Faulty, TypeOK
    <3> QED BY <1>0, <1>13, <3>1, <3>2 DEF Reboot, TypeOK, Wanted
  <2>2. PlayInv' BY <1>0, <1>13 DEF Reboot, PlayInv, Wanted, TypeOK, Containers
  <2> QED BY <2>1, <2>2 DEF IInv
<1>14. CASE LoopFails BY <1>0, <1>14 DEF LoopFails, Abort, IInv, TypeOK, PlayInv, Wanted
<1> QED
  BY <1>1, <1>2, <1>3, <1>4, <1>5, <1>6, <1>7, <1>8, <1>9, <1>10, <1>11, <1>12, <1>13, <1>14 DEF Next, Make

\* In every reachable state IInv holds.
LEMMA Inductive == Spec => []IInv
BY InitOK, StepOK, PTL DEF Spec

-----------------------------------------------------------------------------
\* The versions of the files, the containers and make keep their types.
THEOREM TypeCorrect == Spec => []TypeOK
BY Inductive, PTL DEF IInv

\* make stop and make dev.up bring a change to every process, and nothing that
\* happens later takes it back.
THEOREM ChangeIsServed == Spec => []Current
<1>1. IInv => Current
  <2> SUFFICES ASSUME IInv, fresh, NEW c \in Serving, NEW f \in Files PROVE mounted[c][f] = Wanted
    BY DEF Current
  <2>1. c \in Containers /\ state[c] # "off" BY DEF Serving
  <2> QED BY <2>1 DEF IInv, PlayInv
<1> QED BY <1>1, Inductive, PTL

-----------------------------------------------------------------------------
AllComplete == \A v \in 1 .. Wanted : Complete(versions[v].env, versions[v].auth)

\* Nothing starts between the two files.
PairInv == faults = 0 /\ AllComplete =>
    /\ make # "auth" => host.env = host.auth
    /\ \A c \in Containers : mounted[c].env = mounted[c].auth

\* What starts has the pair of files that is there.
LEMMA StartPairs ==
    ASSUME TypeOK, PairInv, NEW cs, Start(cs), UNCHANGED <<versions, host, faults>>,
           make # "auth", make' # "auth"
    PROVE  PairInv'
<1>1. mounted' = [c \in Containers |-> IF c \in cs THEN host ELSE mounted[c]] BY DEF Start
<1>2. AllComplete' <=> AllComplete BY DEF AllComplete, Wanted
<1> QED BY <1>1, <1>2 DEF PairInv, TypeOK

\* Every step keeps the pairs.
LEMMA PairStep == IInv /\ PairInv /\ [Next]_vars => PairInv'
<1> SUFFICES ASSUME IInv, PairInv, [Next]_vars PROVE PairInv' OBVIOUS
<1>0. TypeOK /\ PlayInv BY DEF IInv
<1>1. CASE UNCHANGED vars BY <1>1 DEF vars, PairInv, AllComplete, Wanted
<1>2. CASE Edit
  <2>1. PICK choice \in Edits : versions' = Append(versions, choice) BY <1>2 DEF Edit
  <2>2. versions \in Seq(Choices) /\ choice \in Choices BY <1>0, ConstantsAssumption DEF TypeOK
  <2>3. AllComplete' => AllComplete
    <3> SUFFICES ASSUME AllComplete', NEW v \in 1 .. Wanted
                 PROVE Complete(versions[v].env, versions[v].auth)
      BY DEF AllComplete
    <3>1. v \in 1 .. Wanted' /\ versions'[v] = versions[v] BY <2>1, <2>2 DEF Wanted
    <3>2. Complete(versions[v].env, versions[v].auth)' BY <3>1 DEF AllComplete
    <3> QED BY <3>1, <3>2
  <2> QED BY <1>2, <2>3 DEF Edit, PairInv
<1>3. CASE MakeStop BY <1>3 DEF MakeStop, PairInv, AllComplete, Wanted
<1>4. CASE MakeUp BY <1>4 DEF MakeUp, PairInv, AllComplete, Wanted
<1>5. CASE RenderEnv
  BY <1>0, <1>5 DEF RenderEnv, Render, Faulty, PairInv, AllComplete, Wanted, TypeOK
<1>6. CASE RenderAuth
  <2>1. CASE host' = [host EXCEPT !["auth"] = playing] /\ UNCHANGED <<failed, faults>>
    <3>1. faults = 0 => host'.env = playing /\ host'.auth = playing
      BY <1>0, <1>6, <2>1 DEF RenderAuth, Render, TypeOK, PlayInv, Files
    <3> QED BY <1>6, <2>1, <3>1 DEF RenderAuth, Render, PairInv, AllComplete, Wanted
  <2>2. CASE Faulty BY <1>0, <2>2 DEF Faulty, PairInv, TypeOK
  <2> QED BY <1>6, <2>1, <2>2 DEF RenderAuth, Render
<1>7. CASE PlayFails BY <1>0, <1>7 DEF PlayFails, Faulty, PairInv, TypeOK
<1>8. CASE UpLms
  <2>1. Start(Off \cap {"lms"}) /\ UNCHANGED <<versions, host, faults>> /\ make # "auth" /\ make' # "auth"
    BY <1>8 DEF UpLms
  <2> QED BY <1>0, <2>1, StartPairs
<1>9. CASE UpWorkers
  <2>1. Start(Off) /\ UNCHANGED <<versions, host, faults>> /\ make # "auth" /\ make' # "auth"
    BY <1>9 DEF UpWorkers
  <2> QED BY <1>0, <2>1, StartPairs
<1>10. ASSUME NEW c \in Containers, MakeStart(c) PROVE PairInv'
  <2>1. Start({c}) /\ UNCHANGED <<versions, host, faults>> /\ make # "auth" /\ make' # "auth"
    BY <1>10 DEF MakeStart
  <2> QED BY <1>0, <2>1, StartPairs
<1>11. ASSUME NEW c \in Containers, Load(c) PROVE PairInv'
  <2>1. UNCHANGED <<versions, host, make, faults>> BY <1>11 DEF Load
  <2>2. CASE mounted' = mounted BY <2>1, <2>2 DEF PairInv, AllComplete, Wanted
  <2>3. CASE mounted' # mounted
    <3>1. ~ Complete(Env(c), Auth(c)) BY <1>11, <2>3 DEF Load
    <3>2. ASSUME AllComplete PROVE mounted[c].env # mounted[c].auth
      <4>1. mounted[c].env \in 1 .. Wanted BY <1>0 DEF TypeOK, Files
      <4> QED BY <3>1, <3>2, <4>1 DEF AllComplete, Env, Auth
    <3>3. ~ (faults = 0 /\ AllComplete) BY <3>2 DEF PairInv
    <3> QED BY <2>1, <3>3 DEF PairInv, AllComplete, Wanted
  <2> QED BY <2>2, <2>3
<1>12. ASSUME NEW c \in Containers, Crash(c) PROVE PairInv'
  BY <1>0, <1>12 DEF Crash, Faulty, PairInv, TypeOK
<1>13. CASE Reboot BY <1>0, <1>13 DEF Reboot, Faulty, PairInv, TypeOK
<1>14. CASE LoopFails BY <1>0, <1>14 DEF LoopFails, PlayInv, PairInv, TypeOK
<1> QED
  BY <1>1, <1>2, <1>3, <1>4, <1>5, <1>6, <1>7, <1>8, <1>9, <1>10, <1>11, <1>12, <1>13, <1>14 DEF Next, Make

\* As long as nothing fails, no process has the broker's address of one version
\* and the credentials of another, even without make stop.
THEOREM BrokerFromOneVersion == Spec => []BrokerWhole
<1>1. Init => PairInv BY DEF Init, PairInv, Files, Containers
<1>2. IInv /\ PairInv => BrokerWhole
  <2> SUFFICES ASSUME IInv, PairInv, faults = 0, AllComplete, NEW c \in Serving
               PROVE  \E v \in 1 .. Wanted :
                        BROKER_URL(Env(c), Auth(c)) = BROKER_URL(versions[v].env, versions[v].auth)
    BY DEF BrokerWhole, AllComplete
  <2>1. c \in Containers BY DEF Serving
  <2>2. mounted[c].env \in 1 .. Wanted /\ mounted[c].auth = mounted[c].env
    BY <2>1 DEF IInv, TypeOK, PairInv, Files
  <2> QED BY <2>2 DEF Env, Auth
<1> QED BY <1>1, <1>2, PairStep, Inductive, PTL DEF Spec

-----------------------------------------------------------------------------
\* Whatever keys common.py has, with whatever values: those named here go to a
\* queue that is declared and consumed, and of the others only those miss that
\* missed before (lms_envs_aws.py:93, 235, 239, 531).
THEOREM TasksAreConsumed == Spec => []TasksReachWorkers
<1> DEFINE Reset == [BULK_EMAIL_ROUTING_KEY            |-> Queue("high"),
                     BULK_EMAIL_ROUTING_KEY_SMALL_JOBS |-> Queue("low"),
                     GRADES_DOWNLOAD_ROUTING_KEY       |-> Queue("high_mem"),
                     CELERY_DEFAULT_ROUTING_KEY        |-> Queue("default")]
<1>1. DOMAIN Reset = Renamed BY DEF Renamed
<1>2. \A key \in Renamed : Reset[key] \in CELERY_QUEUES \cap Consumed
  BY CommonAssumption DEF Renamed, CELERY_QUEUES, Consumed, Queue
<1>3. RoutingKeys = Over(Reset, Common.ROUTING_KEYS) BY DEF RoutingKeys
<1> HIDE DEF Reset
<1>4. /\ DOMAIN RoutingKeys = Renamed \cup DOMAIN Common.ROUTING_KEYS
      /\ \A key \in Renamed : RoutingKeys[key] = Reset[key]
      /\ \A key \in DOMAIN Common.ROUTING_KEYS \ Renamed : RoutingKeys[key] = Common.ROUTING_KEYS[key]
  BY <1>1, <1>3 DEF Over
<1>5. Lost(RoutingKeys) = Lost(Common.ROUTING_KEYS) \ Renamed BY <1>2, <1>4 DEF Lost
<1>6. TasksReachWorkers BY <1>5 DEF TasksReachWorkers
<1> QED BY <1>6, PTL

\* No file makes the sandbox lose a limit.
THEOREM LimitsKept == Spec => []SandboxKept
<1>1. ASSUME NEW env PROVE DOMAIN Common.CODE_JAIL.limits \subseteq DOMAIN CODE_JAIL(env).limits
  <2> DEFINE new == Get(env, "CODE_JAIL", <<>>)
  <2>1. CASE "limits" \in DOMAIN new
    <3>1. CODE_JAIL(env).limits = Over(new.limits, Common.CODE_JAIL.limits)
      BY CommonAssumption, <2>1 DEF CODE_JAIL, Over
    <3> QED BY <3>1 DEF Over
  <2>2. CASE "limits" \notin DOMAIN new
    <3>1. CODE_JAIL(env).limits = Common.CODE_JAIL.limits
      BY CommonAssumption, <2>2 DEF CODE_JAIL, Over
    <3> QED BY <3>1
  <2> QED BY <2>1, <2>2
<1>2. SandboxKept BY <1>1 DEF SandboxKept
<1> QED BY <1>2, PTL

-----------------------------------------------------------------------------
\* Lists that are put together.

LEMMA HasConcat ==
    ASSUME NEW a \in Seq(Names), NEW b \in Seq(Names), NEW x
    PROVE  /\ a \o b \in Seq(Names)
           /\ Has(a \o b, x) <=> Has(a, x) \/ Has(b, x)
<1>1. /\ a \o b \in Seq(Names) /\ Len(a) \in Nat /\ Len(b) \in Nat
      /\ Len(a \o b) = Len(a) + Len(b)
      /\ DOMAIN a = 1 .. Len(a) /\ DOMAIN b = 1 .. Len(b)
      /\ DOMAIN (a \o b) = 1 .. Len(a) + Len(b)
      /\ \A i \in 1 .. Len(a) + Len(b) : (a \o b)[i] = IF i <= Len(a) THEN a[i] ELSE b[i - Len(a)]
  OBVIOUS
<1>2. ASSUME Has(a \o b, x) PROVE Has(a, x) \/ Has(b, x)
  <2>1. PICK i \in 1 .. Len(a) + Len(b) : (a \o b)[i] = x BY <1>1, <1>2 DEF Has
  <2>2. i <= Len(a) => i \in DOMAIN a BY <1>1
  <2>3. ~ (i <= Len(a)) => i - Len(a) \in DOMAIN b BY <1>1
  <2> QED BY <1>1, <2>1, <2>2, <2>3 DEF Has
<1>3. ASSUME Has(a, x) PROVE Has(a \o b, x)
  <2>1. PICK i \in 1 .. Len(a) : a[i] = x BY <1>1, <1>3 DEF Has
  <2>2. i \in 1 .. Len(a) + Len(b) /\ (a \o b)[i] = x BY <1>1, <2>1
  <2> QED BY <1>1, <2>2 DEF Has
<1>4. ASSUME Has(b, x) PROVE Has(a \o b, x)
  <2>1. PICK i \in 1 .. Len(b) : b[i] = x BY <1>1, <1>4 DEF Has
  <2>2. /\ Len(a) + i \in 1 .. Len(a) + Len(b) /\ ~ (Len(a) + i <= Len(a))
        /\ (Len(a) + i) - Len(a) = i
    BY <1>1
  <2> QED BY <1>1, <2>1, <2>2 DEF Has
<1> QED BY <1>1, <1>2, <1>3, <1>4

LEMMA HasOne == ASSUME NEW x \in Names, NEW y PROVE <<x>> \in Seq(Names) /\ (Has(<<x>>, y) <=> x = y)
BY DEF Has

LEMMA HasNone == <<>> \in Seq(Names) /\ \A y : ~ Has(<<>>, y)
BY DEF Has

\* The lists of a file are lists of names.
ListsOK(env) == \A name \in Lists : name \in DOMAIN env => env[name] \in Seq(Names)

LEMMA ListIsSeq ==
    ASSUME NEW env, ListsOK(env), NEW name \in Lists, NEW default \in Seq(Names)
    PROVE  Get(env, name, default) \in Seq(Names)
BY DEF ListsOK, Get

\* So are those of whatever a container sees.
LEMMA EnvOK == ASSUME IInv, NEW c \in Containers PROVE ListsOK(Env(c))
<1>1. mounted[c].env \in 1 .. Wanted /\ versions \in Seq(Choices) BY DEF IInv, TypeOK, Files
<1>2. versions[mounted[c].env] \in Choices BY <1>1 DEF Wanted
<1> QED BY <1>2, ConstantsAssumption DEF ListsOK, Env

-----------------------------------------------------------------------------
\* The login backends of the three blocks.
LEMMA BackendsOf ==
    ASSUME NEW env, ListsOK(env)
    PROVE  LET cas   == CasBackends(env)
               named == Get(env, "THIRD_PARTY_AUTH_BACKENDS", <<>>)
               all   == AUTHENTICATION_BACKENDS(env)
           IN  /\ \A x : Has(cas, x) => Has(all, x)
               /\ Enabled(env, "ENABLE_LTI_PROVIDER") => Has(all, "LtiBackend")
               /\ Has(all, "CASBackend") =>
                    \/ Has(cas, "CASBackend")
                    \/ Enabled(env, "ENABLE_THIRD_PARTY_AUTH") /\ Has(named, "CASBackend")
<1> DEFINE cas      == CasBackends(env)
           usual    == <<"GoogleOAuth2", "LinkedinOAuth2", "FacebookOAuth2", "SAMLAuthBackend", "LTIAuthBackend">>
           third    == Get(env, "THIRD_PARTY_AUTH_BACKENDS", usual)
           named    == Get(env, "THIRD_PARTY_AUTH_BACKENDS", <<>>)
           two      == ThirdPartyBackends(env)
           all      == AUTHENTICATION_BACKENDS(env)
<1>1. cas \in Seq(Names)
  <2>1. <<"ModelBackend", "CASBackend">> \in Seq(Names) BY NamesAssumption
  <2> QED BY <2>1, CommonAssumption DEF CasBackends
<1>2. usual \in Seq(Names) /\ ~ Has(usual, "CASBackend")
  <2>1. usual \in Seq(Names) BY NamesAssumption
  <2>2. \A i \in 1 .. 5 : usual[i] # "CASBackend" OBVIOUS
  <2> QED BY <2>1, <2>2 DEF Has
<1>3. third \in Seq(Names)
  <2>1. "THIRD_PARTY_AUTH_BACKENDS" \in Lists BY DEF Lists
  <2> HIDE DEF usual
  <2> QED BY <1>2, <2>1, ListIsSeq
<1>4. Has(third, "CASBackend") => Has(named, "CASBackend") BY <1>2 DEF Get
<1>5. /\ two = IF Enabled(env, "ENABLE_THIRD_PARTY_AUTH") THEN third \o cas ELSE cas
      /\ all = IF Enabled(env, "ENABLE_LTI_PROVIDER") THEN Append(two, "LtiBackend") ELSE two
  BY DEF ThirdPartyBackends, AUTHENTICATION_BACKENDS
<1> HIDE DEF cas, usual, third, named, two, all
<1>6. /\ two \in Seq(Names)
      /\ \A x : Has(two, x) <=> Has(cas, x) \/ (Enabled(env, "ENABLE_THIRD_PARTY_AUTH") /\ Has(third, x))
  BY <1>1, <1>3, <1>5, HasConcat
<1>7. \A x : Has(all, x) <=> Has(two, x) \/ (Enabled(env, "ENABLE_LTI_PROVIDER") /\ x = "LtiBackend")
  <2>1. Append(two, "LtiBackend") = two \o <<"LtiBackend">> BY <1>6, NamesAssumption
  <2>2. "LtiBackend" \in Names BY NamesAssumption
  <2>3. <<"LtiBackend">> \in Seq(Names) /\ \A x : Has(<<"LtiBackend">>, x) <=> x = "LtiBackend"
    BY <2>2, HasOne
  <2>4. \A x : Has(two \o <<"LtiBackend">>, x) <=> Has(two, x) \/ x = "LtiBackend"
    BY <1>6, <2>3, HasConcat
  <2> QED BY <1>5, <2>1, <2>4
<1>8. "CASBackend" # "LtiBackend" OBVIOUS
<1>9. /\ \A x : Has(cas, x) => Has(all, x)
      /\ Enabled(env, "ENABLE_LTI_PROVIDER") => Has(all, "LtiBackend")
      /\ Has(all, "CASBackend") => \/ Has(cas, "CASBackend")
                                   \/ Enabled(env, "ENABLE_THIRD_PARTY_AUTH") /\ Has(named, "CASBackend")
  BY <1>4, <1>6, <1>7, <1>8
<1> QED BY <1>9 DEF cas, named, all

\* The applications that the same blocks add.
LEMMA AppsOf ==
    ASSUME NEW env, ListsOK(env)
    PROVE  /\ Enabled(env, "AUTH_USE_CAS") => Has(INSTALLED_APPS(env), "django_cas")
           /\ Enabled(env, "ENABLE_LTI_PROVIDER") => Has(INSTALLED_APPS(env), "lti_provider")
<1> DEFINE more == Get(env, "ADDL_INSTALLED_APPS", <<>>)
           cas  == IF Enabled(env, "AUTH_USE_CAS") THEN <<"django_cas">> ELSE <<>>
           ccx  == IF Enabled(env, "CUSTOM_COURSES_EDX") THEN <<"lms.djangoapps.ccx">> ELSE <<>>
           lti  == IF Enabled(env, "ENABLE_LTI_PROVIDER") THEN <<"lti_provider">> ELSE <<>>
           base == Common.INSTALLED_APPS \o more
<1>1. base \in Seq(Names)
  <2>1. more \in Seq(Names) BY HasNone, ListIsSeq DEF Lists
  <2> HIDE DEF more
  <2> QED BY <2>1, CommonAssumption, HasConcat
<1>2. {"django_cas", "lms.djangoapps.ccx", "lti_provider"} \subseteq Names BY NamesAssumption
<1>3. cas \in Seq(Names) /\ (Enabled(env, "AUTH_USE_CAS") => Has(cas, "django_cas"))
  BY <1>2, HasNone, HasOne
<1>4. ccx \in Seq(Names) BY <1>2, HasNone, HasOne
<1>5. lti \in Seq(Names) /\ (Enabled(env, "ENABLE_LTI_PROVIDER") => Has(lti, "lti_provider"))
  BY <1>2, HasNone, HasOne
<1>6. INSTALLED_APPS(env) = ((base \o cas) \o ccx) \o lti BY DEF INSTALLED_APPS
<1> HIDE DEF base, cas, ccx, lti
<1>7. base \o cas \in Seq(Names) /\ (Has(cas, "django_cas") => Has(base \o cas, "django_cas"))
  BY <1>1, <1>3, HasConcat
<1>8. /\ (base \o cas) \o ccx \in Seq(Names)
      /\ Has(cas, "django_cas") => Has((base \o cas) \o ccx, "django_cas")
  BY <1>4, <1>7, HasConcat
<1>9. /\ Has(cas, "django_cas") => Has(((base \o cas) \o ccx) \o lti, "django_cas")
      /\ Has(lti, "lti_provider") => Has(((base \o cas) \o ccx) \o lti, "lti_provider")
  BY <1>5, <1>8, HasConcat
<1> QED BY <1>3, <1>5, <1>6, <1>9

\* Without CAS the login is that of common.py.
LEMMA CasBackendsOf ==
    ASSUME NEW env
    PROVE  /\ \E b \in PasswordBackends : Has(CasBackends(env), b)
           /\ Enabled(env, "AUTH_USE_CAS") <=> Has(CasBackends(env), "CASBackend")
<1>1. CASE Enabled(env, "AUTH_USE_CAS")
  <2>1. CasBackends(env) = <<"ModelBackend", "CASBackend">> BY <1>1 DEF CasBackends
  <2>2. /\ 1 \in DOMAIN CasBackends(env) /\ CasBackends(env)[1] = "ModelBackend"
        /\ 2 \in DOMAIN CasBackends(env) /\ CasBackends(env)[2] = "CASBackend"
    BY <2>1
  <2> QED BY <1>1, <2>2 DEF Has, PasswordBackends
<1>2. CASE ~ Enabled(env, "AUTH_USE_CAS") BY <1>2, CommonAssumption DEF CasBackends
<1> QED BY <1>1, <1>2

\* Whatever the files switch on, a password login is left, and what is switched
\* on is complete (lms_envs_aws.py:319-325, 568-577, 723-725).
THEOREM LoginIsComplete == Spec => []LoginComplete
<1>1. IInv => LoginComplete
  <2> SUFFICES ASSUME IInv, NEW c \in Serving
               PROVE  LET backends == AUTHENTICATION_BACKENDS(Env(c))
                          apps     == INSTALLED_APPS(Env(c))
                          named    == Get(Env(c), "THIRD_PARTY_AUTH_BACKENDS", <<>>)
                      IN  /\ \E b \in PasswordBackends : Has(backends, b)
                          /\ Enabled(Env(c), "AUTH_USE_CAS") => Has(backends, "CASBackend")
                          /\ Has(backends, "CASBackend") =>
                               \/ Has(apps, "django_cas")
                               \/ Enabled(Env(c), "ENABLE_THIRD_PARTY_AUTH") /\ Has(named, "CASBackend")
                          /\ Enabled(Env(c), "ENABLE_LTI_PROVIDER") =>
                               Has(backends, "LtiBackend") /\ Has(apps, "lti_provider")
    BY DEF LoginComplete
  <2>1. ListsOK(Env(c)) BY EnvOK DEF Serving
  <2> QED BY <2>1, BackendsOf, AppsOf, CasBackendsOf
<1> QED BY <1>1, Inductive, PTL

\* Whatever providers the file names, the one of the self-paced course is asked
\* last (lms_envs_aws.py:392, 689-705).
THEOREM ExtensionsWin == Spec => []ExtensionsFirst
<1>1. ASSUME NEW env, ListsOK(env)
      PROVE  LET providers == FIELD_OVERRIDE_PROVIDERS(env)
             IN  \A i \in DOMAIN providers : providers[i] = "IndividualStudentOverrideProvider" =>
                    \E j \in DOMAIN providers : j > i /\ providers[j] = "SelfPacedDateOverrideProvider"
  <2> DEFINE given == Get(env, "FIELD_OVERRIDE_PROVIDERS", <<>>)
             ccx   == IF Enabled(env, "CUSTOM_COURSES_EDX") THEN <<"CustomCoursesForEdxOverrideProvider">> ELSE <<>>
             due   == IF Enabled(env, "INDIVIDUAL_DUE_DATES") THEN <<"IndividualStudentOverrideProvider">> ELSE <<>>
             first == (given \o ccx) \o due
             all   == first \o <<"SelfPacedDateOverrideProvider">>
  <2>1. given \in Seq(Names) BY <1>1, HasNone, ListIsSeq DEF Lists
  <2>2. /\ {"CustomCoursesForEdxOverrideProvider", "IndividualStudentOverrideProvider",
            "SelfPacedDateOverrideProvider"} \subseteq Names
        /\ "SelfPacedDateOverrideProvider" # "IndividualStudentOverrideProvider"
    BY NamesAssumption
  <2>3. ccx \in Seq(Names) /\ due \in Seq(Names) BY <2>2, HasNone, HasOne
  <2>4. FIELD_OVERRIDE_PROVIDERS(env) = all BY DEF FIELD_OVERRIDE_PROVIDERS
  <2> HIDE DEF given, ccx, due
  <2>5. first \in Seq(Names) BY <2>1, <2>3, HasConcat
  <2> HIDE DEF first
  <2>6. /\ Len(first) \in Nat /\ DOMAIN all = 1 .. Len(first) + 1
        /\ all[Len(first) + 1] = "SelfPacedDateOverrideProvider"
    BY <2>2, <2>5
  <2> HIDE DEF all
  <2>7. ASSUME NEW i \in DOMAIN all, all[i] = "IndividualStudentOverrideProvider"
        PROVE  \E j \in DOMAIN all : j > i /\ all[j] = "SelfPacedDateOverrideProvider"
    <3>1. Len(first) + 1 \in DOMAIN all /\ Len(first) + 1 > i BY <2>2, <2>6, <2>7
    <3> QED BY <2>6, <3>1
  <2> QED BY <2>4, <2>7
<1>2. IInv => ExtensionsFirst
  <2> SUFFICES ASSUME IInv, NEW c \in Serving
               PROVE  LET providers == FIELD_OVERRIDE_PROVIDERS(Env(c))
                      IN  \A i \in DOMAIN providers :
                             providers[i] = "IndividualStudentOverrideProvider" =>
                                \E j \in DOMAIN providers :
                                   j > i /\ providers[j] = "SelfPacedDateOverrideProvider"
    BY DEF ExtensionsFirst
  <2>1. ListsOK(Env(c)) BY EnvOK DEF Serving
  <2> QED BY <1>1, <2>1
<1> QED BY <1>2, Inductive, PTL
=============================================================================
