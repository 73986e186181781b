------------------------------ MODULE InitOnce ------------------------------
(***************************************************************************)
(* What configs/mongodb/entrypoint.sh promises of a data directory, seen by*)
(* those who use the server: it is initialised at most once, the whole     *)
(* initialisation is there when it ends and nothing of it is seen before,  *)
(* and what was initialised, or only in part, stays as it is until it is   *)
(* wiped.  MongoEntrypoint implements it.                                  *)
(***************************************************************************)
CONSTANT Root       \* the trace of the user that is created first

VARIABLES
    promised,   \* the traces of a complete initialisation
    phase,      \* of the data directory
    content,    \* the traces in it, as a server that serves shows them
    serving     \* the container's server is there

state == <<promised, phase, content, serving>>

Init ==
    /\ phase = "new" /\ content = {}
    /\ serving = FALSE

Begin ==
    /\ phase = "new" /\ phase' = "initialising"
    /\ UNCHANGED <<promised, content, serving>>

\* All of it, but for a root user whose creation failed without a sign.
Complete ==
    /\ phase = "initialising" /\ phase' = "initialised"
    /\ content' \in {promised, promised \ {Root}}
    /\ UNCHANGED <<promised, serving>>

\* Any part of it stays, and stays a part.
CutShort ==
    /\ phase \in {"new", "initialising"} /\ phase' = "partial"
    /\ content' \in SUBSET promised
    /\ UNCHANGED <<promised, serving>>

Serve ==
    /\ phase \in {"initialised", "partial"}
    /\ ~ serving /\ serving' = TRUE
    /\ UNCHANGED <<promised, phase, content>>

Stop ==
    /\ serving /\ serving' = FALSE
    /\ UNCHANGED <<promised, phase, content>>

Wipe ==
    /\ phase # "initialising" /\ ~ serving
    /\ phase' = "new" /\ content' = {}
    /\ UNCHANGED <<promised, serving>>

Next == Begin \/ Complete \/ CutShort \/ Serve \/ Stop \/ Wipe

Spec == Init /\ [][Next]_state
=============================================================================
