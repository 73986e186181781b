---------------------------- MODULE Clone_proofs ----------------------------
(***************************************************************************)
(* Proofs about Clone, for every list of repositories, any answers of the  *)
(* operator and every bound on the failures.                               *)
(***************************************************************************)
EXTENDS Clone, SequenceTheorems, TLAPS

\* Steps between which the script is at a root, and at a repository of the list.
AtRoot   == {"loop", "ask", "remove", "clone", "end", "done"}
WithRepo == {"ask", "remove", "clone", "reset"}

\* The working directory: a root, or the repository that was just cloned.
WhereInv ==
    /\ \/ \E r \in Roots : cwd = <<r>>
       \/ pc \in {"reset", "failed"} /\ \E r \in Roots : cwd = <<r, repo>>
    /\ pc = "reset" => \E r \in Roots : cwd = <<r, repo>>
    /\ pc \in WithRepo => repo \in DOMAIN Repos
    /\ pc = "loop" => repo \in 1 .. Len(Repos) + 1
    /\ pc \in {"end", "done"} => repo = Len(Repos) + 1

\* Repositories the script has passed.
PassedInv ==
    pc \in AtRoot \cup {"reset"} => \A i \in DOMAIN Repos :
        i < repo => i \in kept \/ \E r \in Roots : trees[r][i] = "wanted"

IInv == TypeOK /\ WhereInv /\ PassedInv

LEMMA ReposType == Len(Repos) \in Nat /\ DOMAIN Repos = 1 .. Len(Repos)
BY ConstantsAssumption

\* The two shapes of the working directory, and how the script goes from one
\* to the other.
LEMMA Shapes ==
    ASSUME NEW r \in Roots, NEW n \in Nat
    PROVE  /\ <<r>>[1] = r /\ Tail(<<r>>) = <<>> /\ Len(<<r>>) = 1
           /\ <<r, n>>[1] = r /\ Tail(<<r, n>>) = <<n>>
OBVIOUS

LEMMA IntoRepository ==
    ASSUME NEW r \in Roots, NEW n \in Nat
    PROVE  Append(<<r>>, n) = <<r, n>>
<1> DEFINE s == Append(<<r>>, n)
           t == <<r, n>>
<1>1. s \in Seq(Roots \cup Nat) /\ t \in Seq(Roots \cup Nat)
  OBVIOUS
<1>2. Len(s) = 2 /\ s[1] = r /\ s[2] = n
  OBVIOUS
<1>3. Len(t) = 2 /\ t[1] = r /\ t[2] = n
  OBVIOUS
<1> HIDE DEF s, t
<1>4. \A i \in 1 .. Len(s) : i = 1 \/ i = 2
  BY <1>2
<1>5. \A i \in 1 .. Len(s) : s[i] = t[i]
  BY <1>2, <1>3, <1>4
<1>6. s = t
  BY <1>1, <1>2, <1>3, <1>5, SeqEqual
<1> QED
  BY <1>6 DEF s, t

LEMMA OutOfRepository ==
    ASSUME NEW r \in Roots, NEW n \in Nat
    PROVE  Front(<<r, n>>) = <<r>>
<1> DEFINE s == SubSeq(<<r, n>>, 1, 1)
           t == <<r>>
<1>1. s \in Seq(Roots \cup Nat) /\ t \in Seq(Roots \cup Nat)
  OBVIOUS
<1>2. Len(s) = 1 /\ s[1] = r /\ Len(t) = 1 /\ t[1] = r
  OBVIOUS
<1>3. Front(<<r, n>>) = s
  BY DEF Front
<1> HIDE DEF s, t
<1>4. \A i \in 1 .. Len(s) : i = 1
  BY <1>2
<1>5. s = t
  BY <1>1, <1>2, <1>4, SeqEqual
<1> QED
  BY <1>3, <1>5 DEF t

LEMMA TheStack ==
    Last(<<"launch">>) = "launch" /\ Front(<<"launch">>) = <<>> /\ <<"launch">> # <<>>
BY DEF Last, Front

LEMMA InitInv == Init => IInv
<1> SUFFICES ASSUME Init PROVE IInv
  OBVIOUS
<1>1. cwd = <<"launch">> /\ "launch" \in Roots
  BY DEF Init, Roots
<1>2. TypeOK
  <2>1. cwd[1] \in Roots /\ Tail(cwd) = <<>>
    BY <1>1, Shapes
  <2>2. trees \in [Roots -> [DOMAIN Repos -> Checkouts]]
    BY DEF Init, Checkouts
  <2>3. repo \in 1 .. Len(Repos) + 1 /\ failures \in 0 .. MaxFailures /\ exists \in BOOLEAN
    BY ReposType, ConstantsAssumption DEF Init
  <2> QED
    BY <2>1, <2>2, <2>3 DEF Init, TypeOK, Stopped
<1>3. WhereInv /\ PassedInv
  <2>1. pc = "idle"
    BY DEF Init
  <2>2. \E r \in Roots : cwd = <<r>>
    BY <1>1
  <2> QED
    BY <2>1, <2>2 DEF WhereInv, PassedInv, AtRoot, WithRepo
<1> QED
  BY <1>2, <1>3 DEF IInv

\* One checkout changes, and keeps the type.
LEMMA OneTree ==
    ASSUME TypeOK, WhereInv, repo \in DOMAIN Repos, NEW c \in Checkouts, Becomes(c)
    PROVE  /\ trees' \in [Roots -> [DOMAIN Repos -> Checkouts]]
           /\ \A r \in Roots, i \in DOMAIN Repos : i # repo => trees'[r][i] = trees[r][i]
           /\ cwd[1] \in Roots /\ trees'[cwd[1]][repo] = c
BY DEF TypeOK, Becomes

LEMMA FailsType == ASSUME TypeOK, Fails PROVE failures' \in 0 .. MaxFailures
BY ConstantsAssumption DEF TypeOK, Fails

LEMMA NextInv == IInv /\ [Next]_vars => IInv'
<1> SUFFICES ASSUME IInv, [Next]_vars PROVE IInv'
  OBVIOUS
<1> USE ReposType DEF IInv
<1>1. CASE Start
  <2>1. \E r \in Roots : cwd' = <<r>>
    BY <1>1 DEF Start, Roots
  <2>2. /\ pc' = "loop" /\ repo' = 1 /\ again' = FALSE /\ kept' = {} /\ exists' = TRUE
        /\ oldpwd' \in BOOLEAN /\ saved' \in {<<>>, <<"launch">>}
        /\ UNCHANGED <<trees, failures>>
    BY <1>1 DEF Start
  <2>3. cwd'[1] \in Roots /\ Tail(cwd') = <<>>
    BY <2>1, Shapes
  <2>4. TypeOK'
    <3>1. repo' \in 1 .. Len(Repos) + 1
      BY <2>2
    <3> QED
      BY <2>2, <2>3, <3>1 DEF TypeOK
  <2>5. WhereInv'
    BY <2>1, <2>2 DEF WhereInv, WithRepo
  <2>6. PassedInv'
    <3>1. \A i \in DOMAIN Repos : ~ (i < 1)
      OBVIOUS
    <3> QED
      BY <2>2, <3>1 DEF PassedInv
  <2> QED
    BY <2>4, <2>5, <2>6
<1>2. CASE NextRepo
  <2>1. \/ pc' = "end" /\ repo = Len(Repos) + 1
        \/ pc' \in {"clone", "ask"} /\ repo \in DOMAIN Repos
    <3>1. repo \in 1 .. Len(Repos) + 1
      BY <1>2 DEF NextRepo, WhereInv
    <3> QED
      BY <1>2, <3>1 DEF NextRepo
  <2>2. UNCHANGED <<repo, cwd, saved, oldpwd, exists, trees, kept, failures>> /\ again' = FALSE
    BY <1>2 DEF NextRepo
  <2>3. pc = "loop"
    BY <1>2 DEF NextRepo
  <2>4. TypeOK'
    BY <2>1, <2>2 DEF TypeOK, Stopped
  <2>5. WhereInv'
    BY <2>1, <2>2, <2>3 DEF WhereInv, WithRepo
  <2>6. PassedInv'
    BY <2>2, <2>3 DEF PassedInv, AtRoot
  <2> QED
    BY <2>4, <2>5, <2>6
<1>3. CASE Ask
  <2>1. /\ pc = "ask" /\ repo \in DOMAIN Repos
        /\ UNCHANGED <<again, cwd, saved, oldpwd, exists, trees, failures>>
    BY <1>3 DEF Ask, WhereInv, WithRepo
  <2>2. \E r \in Roots : cwd = <<r>>
    BY <2>1 DEF WhereInv
  <2>3. CASE pc' = "remove" /\ UNCHANGED <<repo, kept>>
    <3>1. TypeOK'
      BY <2>1, <2>3 DEF TypeOK
    <3>2. WhereInv'
      BY <2>1, <2>2, <2>3 DEF WhereInv, WithRepo
    <3>3. PassedInv'
      BY <2>1, <2>3 DEF PassedInv, AtRoot
    <3> QED
      BY <3>1, <3>2, <3>3
  <2>4. CASE pc' = "loop" /\ repo' = repo + 1 /\ kept' = kept \cup {repo}
    <3>1. TypeOK'
      <4>1. repo + 1 \in 1 .. Len(Repos) + 1
        BY <2>1
      <4>2. kept' \subseteq DOMAIN Repos
        BY <2>1, <2>4 DEF TypeOK
      <4> QED
        BY <2>1, <2>2, <2>4, Shapes, <4>1, <4>2 DEF TypeOK
    <3>2. WhereInv'
      BY <2>1, <2>2, <2>4 DEF WhereInv, WithRepo
    <3>3. PassedInv'
      <4>1. \A i \in DOMAIN Repos : i < repo + 1 => i < repo \/ i = repo
        BY <2>1
      <4> QED
        BY <2>1, <2>4, <4>1 DEF PassedInv, AtRoot
    <3> QED
      BY <3>1, <3>2, <3>3
  <2>5. CASE pc' = "failed" /\ kept' = kept \cup {repo} /\ UNCHANGED repo
    <3>1. TypeOK'
      BY <2>1, <2>5 DEF TypeOK, Stopped
    <3>2. WhereInv' /\ PassedInv'
      BY <2>1, <2>2, <2>5 DEF WhereInv, PassedInv, AtRoot, WithRepo
    <3> QED
      BY <3>1, <3>2
  <2> QED
    BY <1>3, <2>3, <2>4, <2>5 DEF Ask, Quit
<1>4. CASE RemoveTree
  <2>1. /\ pc = "remove" /\ pc' = "clone" /\ again' = TRUE /\ repo \in DOMAIN Repos
        /\ UNCHANGED <<repo, cwd, saved, oldpwd, exists, kept, failures>>
    BY <1>4 DEF RemoveTree, WhereInv, WithRepo
  <2>2. /\ trees' \in [Roots -> [DOMAIN Repos -> Checkouts]]
        /\ \A r \in Roots, i \in DOMAIN Repos : i # repo => trees'[r][i] = trees[r][i]
    BY <1>4, <2>1, OneTree DEF RemoveTree, Checkouts
  <2>3. TypeOK'
    BY <2>1, <2>2 DEF TypeOK
  <2>4. WhereInv'
    BY <2>1 DEF WhereInv, WithRepo
  <2>5. PassedInv'
    BY <2>1, <2>2 DEF PassedInv, AtRoot
  <2> QED
    BY <2>3, <2>4, <2>5
<1>5. CASE CloneRepo
  <2>1. pc = "clone" /\ repo \in DOMAIN Repos /\ UNCHANGED <<again, saved, exists, kept>>
    BY <1>5 DEF CloneRepo, WhereInv, WithRepo
  <2>2. PICK r \in Roots : cwd = <<r>>
    BY <2>1 DEF WhereInv
  <2>3. CASE pc' = "reset" /\ cwd' = Append(cwd, repo) /\ oldpwd' = TRUE /\ Becomes("tip")
             /\ UNCHANGED <<repo, failures>>
    <3>1. cwd' = <<r, repo>>
      BY <2>1, <2>2, <2>3, IntoRepository
    <3>2. /\ trees' \in [Roots -> [DOMAIN Repos -> Checkouts]]
          /\ \A q \in Roots, i \in DOMAIN Repos : i # repo => trees'[q][i] = trees[q][i]
      BY <2>1, <2>3, OneTree DEF Checkouts
    <3>3. TypeOK'
      BY <2>1, <2>3, <3>1, <3>2, Shapes DEF TypeOK
    <3>4. WhereInv'
      BY <2>1, <2>3, <3>1 DEF WhereInv, WithRepo
    <3>5. PassedInv'
      <4>1. pc \in AtRoot
        BY <2>1 DEF AtRoot
      <4>2. \A i \in DOMAIN Repos : i < repo => i # repo
        BY <2>1
      <4> QED
        BY <2>1, <2>3, <3>2, <4>1, <4>2 DEF PassedInv
    <3> QED
      BY <3>3, <3>4, <3>5
  <2>4. CASE pc' = "loop" /\ repo' = repo + 1 /\ Becomes("wanted")
             /\ UNCHANGED <<cwd, oldpwd, failures>>
    <3>1. /\ trees' \in [Roots -> [DOMAIN Repos -> Checkouts]]
          /\ \A q \in Roots, i \in DOMAIN Repos : i # repo => trees'[q][i] = trees[q][i]
          /\ trees'[r][repo] = "wanted"
      BY <2>1, <2>2, <2>4, OneTree, Shapes DEF Checkouts
    <3>2. TypeOK'
      BY <2>1, <2>2, <2>4, <3>1, Shapes DEF TypeOK
    <3>3. WhereInv'
      BY <2>1, <2>2, <2>4 DEF WhereInv, WithRepo
    <3>4. PassedInv'
      <4>1. \A i \in DOMAIN Repos : i < repo + 1 => i < repo \/ i = repo
        BY <2>1
      <4>2. pc \in AtRoot \cup {"reset"}
        BY <2>1 DEF AtRoot
      <4> QED
        BY <2>1, <2>4, <3>1, <4>1, <4>2 DEF PassedInv
    <3> QED
      BY <3>2, <3>3, <3>4
  <2>5. CASE Fails /\ Quit /\ UNCHANGED <<repo, cwd, oldpwd, trees>>
    <3>1. pc' = "failed"
      BY <2>5 DEF Quit
    <3>2. TypeOK'
      BY <2>1, <2>5, <3>1, FailsType DEF TypeOK, Stopped
    <3>3. WhereInv' /\ PassedInv'
      BY <2>1, <2>2, <2>5, <3>1 DEF WhereInv, PassedInv, AtRoot, WithRepo
    <3> QED
      BY <3>2, <3>3
  <2> QED
    BY <1>5, <2>3, <2>4, <2>5 DEF CloneRepo
<1>6. CASE Reset
  <2>1. pc = "reset" /\ repo \in DOMAIN Repos /\ UNCHANGED <<again, oldpwd, exists, kept>>
    BY <1>6 DEF Reset, WhereInv, WithRepo
  <2>2. PICK r \in Roots : cwd = <<r, repo>>
    BY <2>1 DEF WhereInv
  <2>3. CASE Becomes("wanted") /\ Leave /\ UNCHANGED failures
    <3>1. /\ trees' \in [Roots -> [DOMAIN Repos -> Checkouts]]
          /\ \A q \in Roots, i \in DOMAIN Repos : i # repo => trees'[q][i] = trees[q][i]
          /\ trees'[r][repo] = "wanted"
      BY <2>1, <2>2, <2>3, OneTree, Shapes DEF Checkouts
    <3>2. CASE pc' = "loop" /\ repo' = repo + 1 /\ saved' \in {<<>>, <<"launch">>}
               /\ (\E q \in Roots : cwd' = <<q>>)
      <4>1. TypeOK'
        BY <2>1, <2>3, <3>1, <3>2, Shapes DEF TypeOK
      <4>2. WhereInv'
        BY <2>1, <3>2 DEF WhereInv, WithRepo
      <4>3. PassedInv'
        <5>1. \A i \in DOMAIN Repos : i < repo + 1 => i < repo \/ i = repo
          BY <2>1
        <5>2. pc \in AtRoot \cup {"reset"}
          BY <2>1
        <5> QED
          BY <2>1, <2>2, <3>1, <3>2, <5>1, <5>2 DEF PassedInv
      <4> QED
        BY <4>1, <4>2, <4>3
    <3>3. CASE pc' = "failed" /\ UNCHANGED <<repo, cwd, saved>>
      <4>1. TypeOK'
        BY <2>1, <2>3, <3>1, <3>3 DEF TypeOK, Stopped
      <4>2. WhereInv' /\ PassedInv'
        BY <2>1, <2>2, <3>3 DEF WhereInv, PassedInv, AtRoot, WithRepo
      <4> QED
        BY <4>1, <4>2
    <3>4. saved # <<>> => Last(saved) \in Roots /\ Front(saved) = <<>>
      BY TheStack DEF TypeOK, Roots
    <3>5. Front(cwd) = <<r>>
      BY <2>1, <2>2, OutOfRepository
    <3>6. saved \in {<<>>, <<"launch">>}
      BY DEF TypeOK
    <3> QED
      BY <2>3, <3>2, <3>3, <3>4, <3>5, <3>6 DEF Leave, Quit
  <2>4. CASE Fails /\ Quit /\ UNCHANGED <<repo, cwd, saved, trees>>
    <3>1. pc' = "failed"
      BY <2>4 DEF Quit
    <3>2. TypeOK'
      BY <2>1, <2>4, <3>1, FailsType DEF TypeOK, Stopped
    <3>3. WhereInv' /\ PassedInv'
      BY <2>1, <2>2, <2>4, <3>1 DEF WhereInv, PassedInv, AtRoot, WithRepo
    <3> QED
      BY <3>2, <3>3
  <2> QED
    BY <1>6, <2>3, <2>4 DEF Reset
<1>7. CASE End
  BY <1>7 DEF End, TypeOK, WhereInv, PassedInv, AtRoot, WithRepo, Stopped
<1>8. CASE Kill
  <2>1. /\ pc \notin Stopped /\ pc' = "failed" /\ failures' \in 0 .. MaxFailures
        /\ UNCHANGED <<repo, again, cwd, saved, oldpwd, exists, kept>>
    BY <1>8, FailsType DEF Kill, Quit
  <2>2. trees' \in [Roots -> [DOMAIN Repos -> Checkouts]]
    <3>1. CASE pc \in {"remove", "clone"}
      BY <1>8, <3>1, OneTree DEF Kill, WhereInv, WithRepo, Checkouts
    <3>2. CASE pc \notin {"remove", "clone"}
      BY <1>8, <3>2 DEF Kill, TypeOK
    <3> QED
      BY <3>1, <3>2
  <2>3. TypeOK'
    BY <2>1, <2>2 DEF TypeOK, Stopped
  <2>4. WhereInv' /\ PassedInv'
    BY <2>1 DEF WhereInv, PassedInv, AtRoot, WithRepo, Stopped
  <2> QED
    BY <2>3, <2>4
<1>9. CASE UNCHANGED vars
  BY <1>9 DEF vars, TypeOK, WhereInv, PassedInv
<1> QED
  BY <1>1, <1>2, <1>3, <1>4, <1>5, <1>6, <1>7, <1>8, <1>9 DEF Next, Script

\* The inductive invariant holds of every reachable state.
LEMMA Inductive == Spec => []IInv
BY InitInv, NextInv, PTL DEF Spec

\* Every variable of every reachable state has its type: the script is never
\* anywhere but at a root or in the repository it has just cloned.
THEOREM TypeCorrect == Spec => []TypeOK
BY Inductive, PTL DEF IInv

\* For every list, pinned or not, and whatever is there already, the script
\* is back at a root between two repositories (clone.sh:41-72).
THEOREM NeverInsideAnother == Spec => []AtRootBetweenRepos
<1>1. IInv => AtRootBetweenRepos
  BY Shapes DEF IInv, WhereInv, AtRootBetweenRepos
<1> QED
  BY <1>1, Inductive, PTL

\* A run that ends well leaves every repository of the list complete, or as the
\* operator kept it (clone.sh:31-76).
THEOREM SuccessIsComplete == Spec => []SuccessCompletes
<1>1. IInv => SuccessCompletes
  BY ReposType DEF IInv, WhereInv, PassedInv, AtRoot, SuccessCompletes
<1> QED
  BY <1>1, Inductive, PTL

-----------------------------------------------------------------------------
(* README.rst:36 promises the repositories in the workspace.  The run        *)
(* clone_fresh shows that it is not kept where the script makes the          *)
(* workspace itself; here that this, and a pinned repository before the last *)
(* one, are the only ways to miss it.                                        *)

PinnedOnlyLast == \A i \in DOMAIN Repos : Repos[i] = "commit" => i = Len(Repos)

\* The script looks for every repository in the workspace.
DeliveryInv ==
    /\ exists
    /\ pc \in {"loop", "ask", "remove", "clone"} /\ repo \in DOMAIN Repos =>
          cwd = <<"workspace">>
    /\ pc = "reset" => cwd = <<"workspace", repo>> /\ Repos[repo] = "commit"
    /\ pc \in AtRoot \cup {"reset"} => \A i \in DOMAIN Repos :
          i < repo => i \in kept \/ trees["workspace"][i] = "wanted"

\* The checkout at hand is finished: one repository more has been delivered.
LEMMA Delivered ==
    ASSUME IInv, DeliveryInv, pc \in {"clone", "reset"}, cwd[1] = "workspace",
           Becomes("wanted"), repo' = repo + 1, UNCHANGED kept
    PROVE  \A i \in DOMAIN Repos :
               i < repo' => i \in kept' \/ trees'["workspace"][i] = "wanted"
<1>1. repo \in DOMAIN Repos
  BY DEF IInv, WhereInv, WithRepo
<1>2. /\ \A r \in Roots, i \in DOMAIN Repos : i # repo => trees'[r][i] = trees[r][i]
      /\ trees'["workspace"][repo] = "wanted"
  BY <1>1, OneTree DEF IInv, Checkouts
<1>3. \A i \in DOMAIN Repos : i < repo + 1 => i < repo \/ i = repo
  BY <1>1, ReposType
<1> QED
  BY <1>2, <1>3 DEF DeliveryInv, AtRoot, Roots

LEMMA DeliveryNext ==
    ASSUME PinnedOnlyLast, IInv, DeliveryInv, [Next]_vars
    PROVE  DeliveryInv'
<1> USE ReposType DEF AtRoot
<1>1. CASE Start
  <2>1. \A i \in DOMAIN Repos : ~ (i < 1)
    OBVIOUS
  <2> QED
    BY <1>1, <2>1 DEF Start, DeliveryInv
<1>2. CASE NextRepo
  BY <1>2 DEF NextRepo, DeliveryInv, IInv, WhereInv, WithRepo
<1>3. CASE Ask
  <2>1. repo \in DOMAIN Repos
    BY <1>3 DEF Ask, IInv, WhereInv, WithRepo
  <2>2. \A i \in DOMAIN Repos : i < repo + 1 => i < repo \/ i = repo
    BY <2>1
  <2> QED
    BY <1>3, <2>1, <2>2 DEF Ask, Quit, DeliveryInv
<1>4. CASE RemoveTree
  <2>1. repo \in DOMAIN Repos
    BY <1>4 DEF RemoveTree, IInv, WhereInv, WithRepo
  <2>2. \A r \in Roots, i \in DOMAIN Repos : i # repo => trees'[r][i] = trees[r][i]
    BY <1>4, <2>1, OneTree DEF RemoveTree, IInv, Checkouts
  <2>3. \A i \in DOMAIN Repos : i < repo => i # repo
    BY <2>1
  <2> QED
    BY <1>4, <2>1, <2>2, <2>3 DEF RemoveTree, DeliveryInv, Roots
<1>5. CASE CloneRepo
  <2>1. pc = "clone" /\ repo \in DOMAIN Repos /\ UNCHANGED <<exists, kept>>
    BY <1>5 DEF CloneRepo, IInv, WhereInv, WithRepo
  <2>2. cwd = <<"workspace">> /\ cwd[1] = "workspace"
    BY <2>1 DEF DeliveryInv
  <2>3. CASE Repos[repo] = "commit" /\ pc' = "reset" /\ cwd' = Append(cwd, repo)
             /\ Becomes("tip") /\ UNCHANGED repo
    <3>1. cwd' = <<"workspace", repo>>
      BY <2>1, <2>2, <2>3, IntoRepository DEF Roots
    <3>2. \A r \in Roots, i \in DOMAIN Repos : i # repo => trees'[r][i] = trees[r][i]
      BY <2>1, <2>3, OneTree DEF IInv, Checkouts
    <3>3. \A i \in DOMAIN Repos : i < repo => i # repo
      BY <2>1
    <3> QED
      BY <2>1, <2>3, <3>1, <3>2, <3>3 DEF DeliveryInv, Roots
  <2>4. CASE pc' = "loop" /\ repo' = repo + 1 /\ Becomes("wanted") /\ UNCHANGED cwd
    <3>1. \A i \in DOMAIN Repos :
              i < repo' => i \in kept' \/ trees'["workspace"][i] = "wanted"
      BY <2>1, <2>2, <2>4, Delivered
    <3> QED
      BY <2>1, <2>2, <2>4, <3>1 DEF DeliveryInv
  <2>5. CASE pc' = "failed"
    BY <2>1, <2>5 DEF DeliveryInv
  <2> QED
    BY <1>5, <2>3, <2>4, <2>5 DEF CloneRepo, Quit
<1>6. CASE Reset
  <2>1. pc = "reset" /\ repo = Len(Repos) /\ UNCHANGED <<exists, kept>>
    BY <1>6 DEF Reset, IInv, WhereInv, WithRepo, DeliveryInv, PinnedOnlyLast
  <2>2. cwd[1] = "workspace"
    BY <2>1, Shapes DEF DeliveryInv
  <2>3. CASE pc' = "loop" /\ repo' = repo + 1 /\ Becomes("wanted")
    <3>1. \A i \in DOMAIN Repos :
              i < repo' => i \in kept' \/ trees'["workspace"][i] = "wanted"
      BY <2>1, <2>2, <2>3, Delivered
    <3>2. repo' \notin DOMAIN Repos
      BY <2>1, <2>3
    <3> QED
      BY <2>1, <2>3, <3>1, <3>2 DEF DeliveryInv
  <2>4. CASE pc' = "failed"
    BY <2>1, <2>4 DEF DeliveryInv
  <2> QED
    BY <1>6, <2>3, <2>4 DEF Reset, Leave, Quit
<1>7. CASE End \/ Kill
  BY <1>7 DEF End, Kill, Quit, Stopped, DeliveryInv
<1>8. CASE UNCHANGED vars
  BY <1>8 DEF vars, DeliveryInv
<1> QED
  BY <1>1, <1>2, <1>3, <1>4, <1>5, <1>6, <1>7, <1>8 DEF Next, Script

\* Started with the workspace in place, a run that ends well has every repository
\* complete there, or as the operator kept it: for every list pinned at most at
\* its end, the list of today among them (clone.sh:31-86, README.rst:36).
THEOREM SuccessIsDelivery ==
    ASSUME WorkspaceThere \subseteq {TRUE}, PinnedOnlyLast
    PROVE  Spec => []SuccessDelivers
<1>1. Init => DeliveryInv
  BY DEF Init, DeliveryInv, AtRoot
<1>2. IInv /\ DeliveryInv /\ [Next]_vars => DeliveryInv'
  BY DeliveryNext
<1>3. IInv /\ DeliveryInv => SuccessDelivers
  BY ReposType DEF IInv, WhereInv, DeliveryInv, AtRoot, SuccessDelivers
<1> QED
  BY <1>1, <1>2, <1>3, Inductive, PTL DEF Spec

-----------------------------------------------------------------------------
\* What is left of a run: five steps for each repository, and the end.
Rank(step) == CASE step = "loop"   -> 5
                [] step = "ask"    -> 4
                [] step = "remove" -> 3
                [] step = "clone"  -> 2
                [] OTHER           -> 1

Remaining == IF pc \in Stopped THEN 0 ELSE 5 * (Len(Repos) + 1 - repo) + Rank(pc)

LEMMA RemainingType ==
    ASSUME TypeOK
    PROVE  Remaining \in 0 .. 5 * Len(Repos) + 5
<1>1. /\ Len(Repos) \in Nat /\ repo \in Nat /\ 1 <= repo /\ repo <= Len(Repos) + 1
  BY ReposType DEF TypeOK
<1>2. Rank(pc) \in 1 .. 5
  BY DEF Rank
<1> QED
  BY <1>1, <1>2 DEF Remaining

LEMMA StepCounts ==
    ASSUME IInv, Script \/ Kill
    PROVE  Remaining' < Remaining
<1>1. pc \notin Stopped
  BY DEF Script, NextRepo, Ask, RemoveTree, CloneRepo, Reset, End, Kill, Stopped
<1>2. /\ Len(Repos) \in Nat /\ repo \in Nat /\ repo <= Len(Repos) + 1
      /\ pc \in WithRepo => repo <= Len(Repos)
  BY ReposType DEF IInv, TypeOK, WhereInv
<1>3. Remaining = 5 * (Len(Repos) + 1 - repo) + Rank(pc) /\ Rank(pc) \in 1 .. 5
  BY <1>1 DEF Remaining, Rank
<1>4. CASE pc' \in Stopped
  <2>1. Remaining' = 0
    BY <1>4 DEF Remaining
  <2> QED
    BY <1>2, <1>3, <2>1
<1>5. CASE pc' \notin Stopped
  <2>1. Remaining' = 5 * (Len(Repos) + 1 - repo') + Rank(pc')
    BY <1>5 DEF Remaining
  <2>2. CASE repo' = repo /\ Rank(pc') < Rank(pc)
    BY <1>2, <1>3, <2>1, <2>2 DEF Rank
  <2>3. CASE pc' = "loop" /\ repo' = repo + 1
    BY <1>2, <1>3, <2>1, <2>3 DEF Rank
  <2>4. ~ Kill /\ ~ End
    BY <1>5 DEF Kill, End, Quit, Stopped
  <2> QED
    BY <1>5, <2>2, <2>3, <2>4
    DEF Script, NextRepo, Ask, RemoveTree, CloneRepo, Reset, Leave, Quit, Rank, Stopped
<1> QED
  BY <1>4, <1>5

\* Whatever the operator answers and wherever it fails, a run is over after at
\* most 5 * Len(Repos) + 5 steps: the loop of clone.sh:31-75 goes on to the
\* next repository on each of its paths, and asks about none twice.
THEOREM RunsAreBounded ==
    Spec => /\ [](Remaining \in 0 .. 5 * Len(Repos) + 5)
            /\ [][Script \/ Kill => Remaining' < Remaining]_vars
<1>1. IInv => Remaining \in 0 .. 5 * Len(Repos) + 5
  BY RemainingType DEF IInv
<1>2. IInv /\ [Next]_vars => [Script \/ Kill => Remaining' < Remaining]_vars
  BY StepCounts
<1> QED
  BY <1>1, <1>2, Inductive, PTL DEF Spec
=============================================================================
