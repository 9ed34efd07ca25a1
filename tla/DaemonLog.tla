----------------------------- MODULE DaemonLog -----------------------------
(***************************************************************************)
(* The store as the parts of one witness daemon share it.  WitnessStore    *)
(* models the store itself; here an Append takes effect in one step, or    *)
(* fails and is ignored, as every caller in the daemon does.               *)
(*                                                                         *)
(* Abstractions.  Of the log only the kind of the newest record is kept:   *)
(* "genesis", "stop" (DEATH signal_received), "storage" (DEATH             *)
(* storage_anomaly) or "other".                                            *)
(***************************************************************************)
EXTENDS Integers, FiniteSets, SequencesExt

CONSTANT
    Mishaps         \* what may go wrong in a behaviour, each kind once

VARIABLES
    last,       \* kind of the newest record of the log
    open,       \* the daemon has the store open
    mishaps     \* the mishaps so far, and the races the properties except

logVars == <<last, open, mishaps>>

RecordKinds == {"genesis", "stop", "storage", "other"}

\* witness init has written the genesis record.
LogInit == last = "genesis" /\ open = FALSE /\ mishaps = {}

\* A mishap of this kind happens now.
Mishap(kind) == kind \in Mishaps /\ kind \notin mishaps

\* store.Append, which fails once the store is closed; races are noted in mishaps.
Record(kind, races) ==
    \/ /\ open
       /\ last' = kind
       /\ mishaps' = mishaps \cup races
       /\ UNCHANGED open
    \/ /\ open /\ Mishap("append")
       /\ mishaps' = mishaps \cup races \cup {"append"}
       /\ UNCHANGED <<last, open>>
    \/ /\ ~ open
       /\ mishaps' = mishaps \cup races
       /\ UNCHANGED <<last, open>>

\* Record has taken effect.
Recorded == open /\ mishaps' \cap {"append"} = mishaps \cap {"append"}
=============================================================================
