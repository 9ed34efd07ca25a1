---------------------------- MODULE LogCommands ----------------------------
(***************************************************************************)
(* The processes that share one state directory: the daemon, the commands  *)
(* that only read (StoreReaders), and `witness status`, which may cut a    *)
(* crash tail off (StatusCommand), all stepping in any order.              *)
(***************************************************************************)
EXTENDS StoreReaders, StatusCommand

commandVars == <<vars, verifier, exporter, statusVars>>

CommandsInit ==
    /\ ReadersInit
    /\ spc = "idle" /\ srecs = <<>> /\ sjunk = "none" /\ ssize = 0

CommandsNext ==
    \/ DaemonStep /\ UNCHANGED <<verifier, exporter>>
    \/ (VerifierStep \/ ExporterStep) /\ UNCHANGED statusVars
    \/ StatusStep /\ UNCHANGED <<verifier, exporter>>

CommandsSpec == CommandsInit /\ [][CommandsNext]_commandVars
=============================================================================
