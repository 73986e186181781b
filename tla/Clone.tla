------------------------------- MODULE Clone -------------------------------
(***************************************************************************)
(* clone.sh, `make dev.clone`: the repositories the containers mount are   *)
(* cloned into the workspace directory, one after the other; for one that  *)
(* is there the operator is asked.  The script finds its way with pushd,   *)
(* cd and popd, and what it does depends on where it is.                   *)
(***************************************************************************)
EXTENDS Naturals, SequencesExt

CONSTANTS
    Repos,          \* the list: what each repository asks for
    WorkspaceThere, \* whether the workspace exists at first: a set of BOOLEAN
    Answers,        \* of the operator
    MaxFailures     \* bound: kills and failing commands

\* The remote's HEAD, the tip of a branch, or a commit of a branch.
Revisions == {"head", "branch", "commit"}

ASSUME ConstantsAssumption ==
    /\ Repos \in Seq(Revisions)
    /\ WorkspaceThere \subseteq BOOLEAN
    /\ Answers \subseteq {"yes", "no", "eof"}
    /\ MaxFailures \in Nat

\* Where the script is started, and $FULLSTACK_WORKSPACE.
Roots == {"launch", "workspace"}

VARIABLES
    pc,         \* a step of the script, or how the last run ended
    repo,       \* the repository it is at
    again,      \* whether that one was there and has been removed
    cwd,        \* the working directory: a root, or a repository in one
    saved,      \* the stack of pushd, below cwd
    oldpwd,     \* whether the script has an $OLDPWD to go back to
    exists,     \* whether there is a workspace
    trees,      \* the checkouts
    kept,       \* those the operator did not let go in this run
    failures

vars == <<pc, repo, again, cwd, saved, oldpwd, exists, trees, kept, failures>>

\* A checkout may be cut short, or at the tip although a commit is wanted.
Checkouts == {"none", "partial", "tip", "wanted"}

Stopped == {"idle", "failed", "done"}

TypeOK ==
    /\ pc \in Stopped \cup {"loop", "ask", "remove", "clone", "reset", "end"}
    /\ repo \in 1 .. Len(Repos) + 1
    /\ again \in BOOLEAN /\ oldpwd \in BOOLEAN /\ exists \in BOOLEAN
    /\ cwd[1] \in Roots /\ Tail(cwd) \in {<<>>, <<repo>>}
    /\ saved \in {<<>>, <<"launch">>}
    /\ trees \in [Roots -> [DOMAIN Repos -> Checkouts]]
    /\ kept \subseteq DOMAIN Repos
    /\ failures \in 0 .. MaxFailures

Init ==
    /\ pc = "idle"
    /\ repo = 1 /\ again = FALSE
    /\ cwd = <<"launch">> /\ saved = <<>>
    /\ oldpwd \in BOOLEAN
    /\ exists \in WorkspaceThere
    /\ trees = [r \in Roots |-> [i \in DOMAIN Repos |-> "none"]]
    /\ kept = {}
    /\ failures = 0

-----------------------------------------------------------------------------
\* The checkout the script is about, and what becomes of it.
Here == trees[cwd[1]][repo]
Becomes(checkout) == trees' = [trees EXCEPT ![cwd[1]][repo] = checkout]

Fails == failures < MaxFailures /\ failures' = failures + 1

\* set -e
Quit == pc' = "failed"

\* The operator starts the script from where this repository is; a workspace
\* that is not there is made, but not entered.
Start ==
    /\ pc \in Stopped
    /\ pc' = "loop" /\ repo' = 1 /\ again' = FALSE /\ kept' = {}
    /\ exists' = TRUE
    /\ IF exists THEN cwd' = <<"workspace">> /\ saved' = <<"launch">> /\ oldpwd' = TRUE
                 ELSE cwd' = <<"launch">> /\ saved' = <<>> /\ oldpwd' \in BOOLEAN
    /\ UNCHANGED <<trees, failures>>

NextRepo ==
    /\ pc = "loop"
    /\ again' = FALSE
    /\ pc' = IF repo > Len(Repos) THEN "end"
             ELSE IF Here = "none" THEN "clone" ELSE "ask"
    /\ UNCHANGED <<repo, cwd, saved, oldpwd, exists, trees, kept, failures>>

\* Mutant: "already checked out. Continuing", and no question.
Continue ==
    /\ pc = "ask"
    /\ pc' = "loop" /\ repo' = repo + 1
    /\ UNCHANGED <<again, cwd, saved, oldpwd, exists, trees, kept, failures>>

\* "Would you like to remove it and clone again?"  At the end of the input
\* `read` fails, and with it the script.
Ask ==
    /\ pc = "ask"
    /\ \/ "yes" \in Answers /\ pc' = "remove" /\ UNCHANGED <<repo, kept>>
       \/ "no" \in Answers /\ pc' = "loop" /\ repo' = repo + 1 /\ kept' = kept \cup {repo}
       \/ "eof" \in Answers /\ Quit /\ kept' = kept \cup {repo} /\ UNCHANGED repo
    /\ UNCHANGED <<again, cwd, saved, oldpwd, exists, trees, failures>>

RemoveTree ==
    /\ pc = "remove"
    /\ pc' = "clone" /\ again' = TRUE
    /\ Becomes("none")
    /\ UNCHANGED <<repo, cwd, saved, oldpwd, exists, kept, failures>>

\* git clone; where a commit is wanted, the script enters the repository.  A
\* clone that fails leaves nothing behind.
CloneRepo ==
    /\ pc = "clone"
    /\ \/ /\ Repos[repo] = "commit"
          /\ pc' = "reset" /\ cwd' = Append(cwd, repo) /\ oldpwd' = TRUE
          /\ Becomes("tip")
          /\ UNCHANGED <<repo, failures>>
       \/ /\ Repos[repo] # "commit"
          /\ pc' = "loop" /\ repo' = repo + 1
          /\ Becomes("wanted")
          /\ UNCHANGED <<cwd, oldpwd, failures>>
       \/ Fails /\ Quit /\ UNCHANGED <<repo, cwd, oldpwd, trees>>
    /\ UNCHANGED <<again, saved, exists, kept>>

\* Mutant: nothing leads out of the repository.
Stay ==
    /\ pc' = "loop" /\ repo' = repo + 1
    /\ UNCHANGED <<cwd, saved>>

\* Out of the repository: `cd ..` after a removal, `popd` otherwise.
Leave ==
    \/ /\ again
       /\ pc' = "loop" /\ repo' = repo + 1
       /\ cwd' = Front(cwd)
       /\ UNCHANGED saved
    \/ /\ ~ again /\ saved # <<>>
       /\ pc' = "loop" /\ repo' = repo + 1
       /\ cwd' = <<Last(saved)>> /\ saved' = Front(saved)
    \/ /\ ~ again /\ saved = <<>>
       /\ Quit
       /\ UNCHANGED <<repo, cwd, saved>>

\* git reset --hard
Reset ==
    /\ pc = "reset"
    /\ \/ Becomes("wanted") /\ Leave /\ UNCHANGED failures
       \/ Fails /\ Quit /\ UNCHANGED <<repo, cwd, saved, trees>>
    /\ UNCHANGED <<again, oldpwd, exists, kept>>

\* cd -
End ==
    /\ pc = "end"
    /\ pc' = IF oldpwd THEN "done" ELSE "failed"
    /\ UNCHANGED <<repo, again, cwd, saved, oldpwd, exists, trees, kept, failures>>

\* The script and its git are killed, or the host goes down.
Kill ==
    /\ pc \notin Stopped /\ Fails
    /\ Quit
    /\ IF pc \in {"remove", "clone"} THEN Becomes("partial") ELSE UNCHANGED trees
    /\ UNCHANGED <<repo, again, cwd, saved, oldpwd, exists, kept>>

Script == NextRepo \/ Ask \/ RemoveTree \/ CloneRepo \/ Reset \/ End

Next == Start \/ Script \/ Kill

Spec == Init /\ [][Next]_vars

\* An operator who runs the script again and again.
PersistentSpec == Spec /\ WF_vars(Start) /\ WF_vars(Script)

-----------------------------------------------------------------------------
\* After a run that ended well each repository is complete, unless the operator
\* wanted to keep what was there; runs before it may have been killed anywhere
\* (clone.sh:31-75).
SuccessCompletes ==
    pc = "done" =>
        \A i \in DOMAIN Repos : i \in kept \/ \E r \in Roots : trees[r][i] = "wanted"

\* README.rst:36: they are in the workspace.
SuccessDelivers ==
    pc = "done" => \A i \in DOMAIN Repos : trees["workspace"][i] = "wanted" \/ i \in kept

\* Between two repositories the script is at a root, whichever of its branches
\* led it out of the last one: the next is looked for where it was cloned, and
\* not inside another (clone.sh:57, 71).
AtRootBetweenRepos == pc \in {"loop", "ask", "remove", "clone", "end"} => Len(cwd) = 1

\* Whoever repeats the script, and from some time on lets it remove what is
\* there, has the whole workspace in the end, though the first run does not
\* enter a workspace that it made and a pinned repository leads out of it.
EventuallyCloned ==
    <>[](kept = {}) => []<>(\A i \in DOMAIN Repos : trees["workspace"][i] = "wanted")
=============================================================================
