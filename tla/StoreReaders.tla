---------------------------- MODULE StoreReaders ----------------------------
(***************************************************************************)
(* The commands that read the log beside a daemon that may be appending,   *)
(* dying and recovering: `witness verify`, `prove` and `audit` through     *)
(* OpenPinned/readCommitted, and `witness export` through ExportDir, whose *)
(* result a third party checks with VerifyExport.  Neither takes a lock:   *)
(* each reads the head, and then, in a later step, the log.                *)
(***************************************************************************)
EXTENDS WitnessStore

CONSTANTS
    Pins,               \* keys the verifying operator pinned (none: {})
    ReadOnlyAttempts,   \* readOnlyAttempts
    ExportAttempts,     \* exportAttempts
    MaxExports          \* bound on the exports taken in one behaviour

ASSUME PinsAssumption == Pins \subseteq Keys
ASSUME AttemptsAssumption ==
    ReadOnlyAttempts \in Nat \ {0} /\ ExportAttempts \in Nat \ {0} /\ MaxExports \in Nat

VARIABLES
    vpc,       \* the verifier: "idle", a read in progress, or its outcome
    vhead,     \* the head it read
    vtries,    \* attempts that ended in a retry
    vrecs,     \* the records it verified
    epc,       \* the exporter, likewise
    ehead,     \* the head it read; the export's once it is done
    etries,
    erecs,     \* the records it exported
    priors     \* heads of earlier exports, held by the third party

verifier == <<vpc, vhead, vtries, vrecs>>
exporter == <<epc, ehead, etries, erecs, priors>>
readerVars == <<vars, verifier, exporter>>

ReadersInit ==
    /\ Init
    /\ vpc = "idle" /\ vhead = NoHead /\ vtries = 0 /\ vrecs = <<>>
    /\ epc = "idle" /\ ehead = NoHead /\ etries = 0 /\ erecs = <<>> /\ priors = {}

-----------------------------------------------------------------------------
(* OpenPinned *)

\* checkTreeHead with pins and no signer, on the records given.
PinnedCheck(h, recs) ==
    IF h.recs # recs THEN "mismatch"
    ELSE IF Pins = {} \/ h.key \in Pins THEN "ok"
    ELSE IF h.key = NoKey THEN "unsigned" ELSE "stranger"

VerifyReadHead ==
    /\ vpc = "idle"
    /\ vpc' = "head"
    /\ vhead' = head
    /\ UNCHANGED <<vars, exporter, vtries, vrecs>>

\* Mutant: a record the head does not cover yet is taken for a torn read.
VerifyMustRetryExact == Len(log) # Len(vhead.recs)

\* The head that was read and the log read now do not fit together yet.
VerifyMustRetry ==
    IF vhead.recs = <<>> THEN log # <<>> ELSE Len(log) < Len(vhead.recs)

VerifyRetry ==
    /\ vpc = "head"
    /\ VerifyMustRetry
    /\ vtries' = vtries + 1
    /\ \/ vtries + 1 < ReadOnlyAttempts /\ vpc' = "idle"
       \/ vtries + 1 = ReadOnlyAttempts /\ vpc' = IF vhead.recs = <<>> THEN "missing" ELSE "short"
    /\ UNCHANGED <<vars, exporter, vhead, vrecs>>

VerifyReadLog ==
    /\ vpc = "head"
    /\ ~ VerifyMustRetry
    /\ \/ /\ vhead.recs # <<>>
          /\ vrecs' = SubSeq(log, 1, Len(vhead.recs))
          /\ vpc' = PinnedCheck(vhead, vrecs')
       \/ /\ vhead.recs = <<>>
          /\ vpc' = "empty"
          /\ vrecs' = <<>>
    /\ UNCHANGED <<vars, exporter, vhead, vtries>>

\* No head and no record: verifyTreeHead looks for the head file once more and,
\* should there be one by now, checks it against the empty log.
VerifyEmpty ==
    /\ vpc = "empty"
    /\ vpc' = PinnedCheck(head, <<>>)
    /\ UNCHANGED <<vars, exporter, vhead, vtries, vrecs>>

\* The command is run again.
VerifyAgain ==
    /\ vpc \notin {"idle", "head", "empty"}
    /\ vpc' = "idle"
    /\ vhead' = NoHead /\ vtries' = 0 /\ vrecs' = <<>>
    /\ UNCHANGED <<vars, exporter>>

-----------------------------------------------------------------------------
(* ExportDir and VerifyExport *)

\* Without a head file the export is empty at once.
ExportReadHead ==
    /\ epc = "idle"
    /\ Cardinality(priors) < MaxExports
    /\ ehead' = head
    /\ epc' = IF head.recs = <<>> THEN "done" ELSE "head"
    /\ erecs' = <<>>
    /\ UNCHANGED <<vars, verifier, etries, priors>>

ExportAgrees ==
    Len(log) >= Len(ehead.recs) /\ SubSeq(log, 1, Len(ehead.recs)) = ehead.recs

ExportRetry ==
    /\ epc = "head"
    /\ ~ ExportAgrees
    /\ etries' = etries + 1
    /\ epc' = IF etries + 1 = ExportAttempts THEN "failed" ELSE "idle"
    /\ UNCHANGED <<vars, verifier, ehead, erecs, priors>>

ExportFirst(n) ==
    /\ epc = "head"
    /\ ExportAgrees
    /\ erecs' = SubSeq(log, 1, n)
    /\ epc' = "done"
    /\ UNCHANGED <<vars, verifier, ehead, etries, priors>>

\* Mutant: every record read is exported.
ExportReadLogWhole == ExportFirst(Len(log))

\* The records the head covers are exported.
ExportReadLog == ExportFirst(Len(ehead.recs))

\* The third party keeps the head; the next export starts afresh.
ExportKeep ==
    /\ epc = "done"
    /\ epc' = "idle"
    /\ ehead' = NoHead /\ etries' = 0 /\ erecs' = <<>>
    /\ priors' = priors \cup {ehead}
    /\ UNCHANGED <<vars, verifier>>

SignedBy(h, pins) == h.recs = <<>> \/ h.key \in pins

\* VerifyExport on an unfiltered export: its leaves are the records exported, each
\* shown entry is found at the leaf its Seq names, every prior head is a prefix.
VerifyExport(h, recs, pins, held) ==
    /\ h.recs = recs
    /\ SignedBy(h, pins)
    /\ \A e \in ToSet(recs) : e.seq \in 1 .. Len(recs) /\ recs[e.seq] = e
    /\ \A p \in held : /\ p.recs # <<>>   \* an empty export's head has no root to compare
                       /\ Len(p.recs) <= Len(recs)
                       /\ SubSeq(recs, 1, Len(p.recs)) = p.recs
                       /\ SignedBy(p, pins)

-----------------------------------------------------------------------------
VerifierStep == VerifyReadHead \/ VerifyRetry \/ VerifyReadLog \/ VerifyEmpty \/ VerifyAgain
ExporterStep == ExportReadHead \/ ExportRetry \/ ExportReadLog \/ ExportKeep

ReadersNext == (Next /\ UNCHANGED <<verifier, exporter>>) \/ VerifierStep \/ ExporterStep

ReadersSpec == ReadersInit /\ [][ReadersNext]_readerVars

-----------------------------------------------------------------------------
(* Properties. *)

\* Beside a daemon that appends, dies and recovers, a verifier that found a head
\* never reports the log as tampered or short, and an export never gives up
\* (store.go: reading the head first "is what makes this safe beside a running
\* writer").  Without a head, and after a short write, it may.
ReadersNeverFail ==
    /\ Intact /\ vhead.recs # <<>> => vpc \notin {"mismatch", "short"}
    /\ Intact => epc # "failed"

\* Records a verifier accepted stay at their places in the log for good: "those
\* can no longer change".
VerifiedStays == vpc = "ok" => IsPrefix(vrecs, log)

\* An export of an honest log passes VerifyExport, with every head exported
\* earlier as a prior, whenever those heads are signed, none is the head of an
\* empty export, and no Append failed before its frame was whole (which leaves a
\* gap in Seq).
ExportVerifies ==
    /\ epc = "done"
    /\ faults["seal"] + faults["short"] = 0
    /\ \A p \in priors : p.recs # <<>>
    /\ \A h \in priors \cup {ehead} : SignedBy(h, Keys)
    => VerifyExport(ehead, erecs, Keys, priors)
=============================================================================
