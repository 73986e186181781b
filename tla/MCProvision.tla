---------------------------- MODULE MCProvision ----------------------------
\* Small instances of Provision for TLC.
EXTENDS Provision

\* ./provision.sh with nothing set, and with all the flags exported so that
\* only the databases and users are created, on the named volumes.
BareRun == [files |-> "plain", stop |-> FALSE, env |-> [f \in Flags |-> "unset"]]

UsersOnlyRun ==
    [files |-> "provision", stop |-> FALSE,
     env  |-> [f \in Flags |-> IF f = "DB_USER_PROVISION_ONLY" THEN "1" ELSE "0"]]

\* All ways but the targets without assets, which do less of the same.
SixWays == {DevProvision, DevProvisionNoDbUpdate, DevMigrateProvision, MakeProvision,
            BareRun, UsersOnlyRun}

OnlyDevProvision == {DevProvision}

\* Bound: anonymous volumes are looked into where the named ones hold nothing, or
\* what a make target leaves in them.
Left == [mysql |-> MySQLWith("dump", {"commerce"}, Accounts),
         mongo |-> {"users", "course"}, elasticsearch |-> "dump"]

KeptBound == kept \in {NoData, Chosen(anonymous, Left, NoData)}
=============================================================================
