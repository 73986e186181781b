------------------------- MODULE MCMongoEntrypoint -------------------------
\* Small instances of MongoEntrypoint for TLC.
EXTENDS MongoEntrypoint

AllTexts ==
    {"none", "--bind_ip", "127.0.0.1", "0.0.0.0", "--port", "27017", "27018", "--sslMode",
     "allowSSL", "disabled", "requireSSL", "--sslPEMKeyFile", "key", "--logpath", "stdout",
     "mongod.log", "--logappend", "--pidfilepath", "pidfile", "--fork", "--auth", "--smallfiles",
     "--nojournal", "--storageEngine", "wiredTiger"}

\* The command of docker-compose.yml:24.
Deployed == <<Bare("--smallfiles"), Bare("--nojournal"),
              Joined("--storageEngine", "wiredTiger"),
              Bare("--logpath"), Word("mongod.log")>>

\* Options as an operator writes them, right and wrong.
Options == {<<>>, <<Bare("--nojournal")>>, <<Bare("--auth")>>,
            <<Bare("--bind_ip"), Word("0.0.0.0")>>, <<Joined("--bind_ip", "0.0.0.0")>>,
            <<Bare("--port"), Word("27018")>>, <<Joined("--port", "27018")>>,
            <<Joined("--sslPEMKeyFile", "key")>>, <<Joined("--sslMode", "requireSSL")>>,
            <<Bare("--logpath"), Word("mongod.log")>>, <<Bare("--logappend")>>,
            <<Bare("--bind_ip")>>, <<Bare("--port")>>, <<Bare("--logpath")>>, <<Bare("--fork")>>}

ManyCommandLines == {a \o b \o c : a, b, c \in Options} \cup {Deployed}

FewCommandLines == {Deployed, <<Bare("--bind_ip"), Word("0.0.0.0")>>}

NoEnvironment == {[username |-> "none", password |-> "none"]}

SomeCredentials == {[username |-> "variable", password |-> "file"]}

WithAndWithout == NoEnvironment \cup SomeCredentials

SomeEnvironments ==
    NoEnvironment \cup SomeCredentials
    \cup {[username |-> "variable", password |-> "none"],
          [username |-> "both", password |-> "variable"]}

NoFiles == <<>>

EveryKind == <<"sh", "other", "js">>
=============================================================================
