---------------------------- MODULE StatusCommand ----------------------------
(***************************************************************************)
(* `witness status` opens the log with store.Open, the daemon's writing    *)
(* open, and no lock keeps the two processes apart.  The command's         *)
(* openStore is therefore taken step by step between the daemon's steps:   *)
(* read the log, read the head, verify (which reads the head again), copy  *)
(* the tail, truncate.                                                     *)
(***************************************************************************)
EXTENDS WitnessStore

CONSTANT BesideDaemon   \* the operator runs it while the witness may be running
ASSUME BesideAssumption == BesideDaemon \in BOOLEAN

VARIABLES
    spc,       \* where the command is
    srecs,     \* the records it read
    sjunk,     \* and what it saw behind them
    ssize      \* h.Size of the head it read first: how much it takes as committed

statusVars == <<spc, srecs, sjunk, ssize>>
allVars    == <<vars, statusVars>>

StatusInit == Init /\ spc = "idle" /\ srecs = <<>> /\ sjunk = "none" /\ ssize = 0

\* Mutant: the head must cover every record.
StatusCommittedIsAll == Len(srecs)

\* openStore's committed.
StatusCommitted == IF ssize >= 1 /\ ssize + 1 = Len(srecs) THEN ssize ELSE Len(srecs)

StatusReadLog ==
    /\ spc = "idle"
    /\ BesideDaemon \/ pc \in {"down", "refused"}
    /\ spc' = "log"
    /\ srecs' = log
    /\ sjunk' = junk
    /\ ssize' = 0
    /\ UNCHANGED vars

StatusReadHead ==
    /\ spc = "log"
    /\ spc' = "head"
    /\ ssize' = Len(head.recs)
    /\ UNCHANGED <<vars, srecs, sjunk>>

\* verifyTreeHead with no signer, on the records taken as committed; then the
\* choice between a crash tail, an error and success.
StatusVerify ==
    /\ spc = "head"
    /\ LET accepted == srecs = <<>> \/ HeadAccepted(head, SubSeq(srecs, 1, StatusCommitted), NoKey)
           tail == StatusCommitted < Len(srecs)
       IN spc' = IF accepted /\ (tail \/ sjunk # "none") /\ sjunk # "frame" THEN "recover"
                 ELSE IF accepted /\ ~ tail THEN "ok" ELSE "failed"
    /\ UNCHANGED <<vars, srecs, sjunk, ssize>>

\* Reading the bytes [cut, size) back fails if the file has become shorter.  What
\* fits depends on frame lengths once a tail has been replaced.
CopyOutcomes ==
    {o \in {"copied", "failed"} :
        IF o = "copied" THEN Len(log) >= Len(srecs)
        ELSE Len(log) < Len(srecs) \/ (sjunk # "none" /\ junk = "none")}

\* The bytes are copied as they are now, up to the size taken with the log.
StatusCopyBehind(cut) ==
    /\ spc = "recover"
    /\ spc' \in CopyOutcomes
    /\ quarantine' = quarantine \cup
         IF spc' = "failed" THEN {}
         ELSE {log[i] : i \in (cut + 1) .. Len(srecs)}
                \cup IF sjunk = "none" THEN {} ELSE buried
    /\ UNCHANGED <<log, junk, buried, head, memory, counts, pc, acked, srecs, sjunk, ssize>>

\* Mutant: the copy starts one record too late.
StatusCopyLate == StatusCopyBehind(StatusCommitted + 1)

StatusCopy == StatusCopyBehind(StatusCommitted)

\* Truncate cuts whatever lies behind the cut now.
StatusCut(cut) ==
    /\ spc = "copied"
    /\ spc' = "ok"
    /\ log' = SubSeq(log, 1, cut)
    /\ junk' = "none"
    /\ buried' = {}
    /\ UNCHANGED <<head, quarantine, memory, counts, pc, acked, srecs, sjunk, ssize>>

\* Mutant: the cut is one record too early.
StatusTruncateEarly == StatusCut(StatusCommitted - 1)

StatusTruncate == StatusCut(StatusCommitted)

StatusGone ==
    /\ spc' = "idle" /\ srecs' = <<>> /\ sjunk' = "none" /\ ssize' = 0
    /\ UNCHANGED vars

\* The command prints its verdict and exits; it may be run again.
StatusExit == spc \in {"ok", "failed"} /\ StatusGone

\* The command is killed, perhaps between the copy and the truncation.
StatusKill == spc \in {"log", "head", "recover", "copied"} /\ StatusGone

DaemonStep == (BesideDaemon \/ spc = "idle") /\ Next /\ UNCHANGED statusVars

StatusStep ==
    \/ StatusReadLog \/ StatusReadHead \/ StatusVerify
    \/ StatusCopy \/ StatusTruncate \/ StatusExit \/ StatusKill

StatusNext == DaemonStep \/ StatusStep

StatusSpec == StatusInit /\ [][StatusNext]_allVars

-----------------------------------------------------------------------------
(* Properties (with those of WitnessStore). *)

\* With the witness stopped, the command succeeds only on a log it leaves ready
\* for a daemon to open without a recovery, and fails only on one that a daemon
\* would refuse.
StatusVerdictRight ==
    ~ BesideDaemon =>
        LET refused == HeadRefused(head, log, NoKey)
            tail    == Committed(head, log) < Len(log)
        IN /\ spc = "ok" => ~ refused /\ ~ tail /\ junk # "partial"
           /\ spc = "failed" => refused \/ (tail /\ junk = "frame")
=============================================================================
