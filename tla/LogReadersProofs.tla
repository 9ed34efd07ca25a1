-------------------------- MODULE LogReadersProofs --------------------------
(***************************************************************************)
(* Theorems about the programs that read the log.                          *)
(*                                                                         *)
(* LogCommands, with `witness status` kept away from a running daemon, for *)
(* every number of records, failures, crashes, reads and exports.  (Beside *)
(* a running daemon status destroys records: the run                       *)
(* status_beside_daemon.)                                                  *)
(*                                                                         *)
(* EnforcerReader, for every channel capacity and every number of records, *)
(* polls, failures and crashes, short writes included.                     *)
(***************************************************************************)
EXTENDS LogCommands, EnforcerReader, WitnessStoreProofs

-----------------------------------------------------------------------------
(* The commands: the inductive invariant, part by part.                     *)

\* The variables of the readers keep their types.
ReadersType ==
    /\ vhead \in TreeHead /\ ehead \in TreeHead
    /\ vrecs \in Seq(Record) /\ erecs \in Seq(Record)
    /\ priors \subseteq TreeHead

\* Every record of a sequence has been written.
Known(recs) == \A i \in 1 .. Len(recs) : recs[i].id <= written

\* Every record anyone holds has been written, so that a new one is new to all.
KnownInv == Known(log) /\ Known(leaves) /\ Known(head.recs) /\ Known(vhead.recs)

\* A running daemon's leaves extend the readable log, and are the log where
\* nothing lies behind it; bytes are buried only behind junk.
LeavesInv ==
    /\ pc \in {"up", "framed"} =>
         IsPrefix(log, leaves) /\ (junk = "none" => log = leaves)
    /\ junk = "none" => buried = {}

\* A recovery, the daemon's or the command's, cuts exactly behind the head.
CutInv ==
    pc \in {"recover", "copied"} \/ spc \in {"recover", "copied"} =>
        log = <<>> \/ SubSeq(log, 1, Committed(head, log)) = head.recs

\* While the command runs the daemon does not, so what the command has read is
\* what is on the disk, and what it will cut is in a crash-tail file first.
StatusInv ==
    /\ spc \in {"idle", "log", "head", "recover", "copied", "ok", "failed"}
    /\ spc # "idle" => pc \in {"down", "refused"}
    /\ spc \in {"log", "head", "recover", "copied"} => srecs = log /\ sjunk = junk
    /\ spc \in {"head", "recover", "copied"} => ssize = Len(head.recs)
    /\ spc = "copied" =>
         buried \cup {log[i] : i \in (Committed(head, log) + 1) .. Len(log)} \subseteq quarantine
    /\ StatusVerdictRight

\* What all the readers' properties rest on.
CommandsInv ==
    TypeInv /\ StoreInv /\ KeptInv /\ ReadersType /\ KnownInv /\ LeavesInv /\ CutInv /\ StatusInv

\* A head the verifier has read is, wherever the log still reads like it, a prefix
\* of the stored head; what it accepted is what that head covers.
VerifierInv ==
    /\ IsPrefix(vhead.recs, log) => IsPrefix(vhead.recs, head.recs)
    /\ vpc = "ok" => (vrecs = vhead.recs \/ vrecs = <<>>) /\ IsPrefix(vrecs, log)
    /\ vpc = "empty" => vhead.recs = <<>> /\ vrecs = <<>>
    /\ Intact => IsPrefix(vhead.recs, head.recs)
    /\ Intact /\ vpc \in {"mismatch", "short"} => vhead.recs = <<>>

\* Heads only grow, so every head exported is a prefix of every later one.
ExporterInv ==
    /\ Intact =>
         /\ epc # "failed"
         /\ IsPrefix(ehead.recs, head.recs)
         /\ \A p \in priors : IsPrefix(p.recs, head.recs)
         /\ epc \in {"head", "done"} => \A p \in priors : IsPrefix(p.recs, ehead.recs)
    /\ epc = "done" => erecs = ehead.recs

\* As long as every Append that failed had its frame whole, Seq has no gap.
SeqExact ==
    faults["seal"] + faults["short"] = 0 =>
        /\ \A i \in 1 .. Len(log) : log[i].seq = i
        /\ pc \in {"up", "framed"} => seq = Len(log)
-----------------------------------------------------------------------------
(* Steps.                                                                   *)

\* Away from the daemon, a step is one process's, and the command's leave the
\* daemon's memory alone.
LEMMA CommandsStep ==
    ASSUME ~ BesideDaemon, [CommandsNext]_commandVars
    PROVE  \/ [Next]_vars /\ spc = "idle" /\ UNCHANGED <<verifier, exporter, statusVars>>
           \/ VerifierStep /\ UNCHANGED <<vars, exporter, statusVars>>
           \/ ExporterStep /\ UNCHANGED <<vars, verifier, statusVars>>
           \/ StatusStep /\ UNCHANGED <<verifier, exporter>>
           \/ UNCHANGED commandVars
<1>1. VerifierStep => UNCHANGED <<vars, exporter>>
  BY DEF VerifierStep, VerifyReadHead, VerifyRetry, VerifyReadLog, VerifyEmpty, VerifyAgain
<1>2. ExporterStep => UNCHANGED <<vars, verifier>>
  BY DEF ExporterStep, ExportReadHead, ExportRetry, ExportReadLog, ExportFirst, ExportKeep
<1> QED BY <1>1, <1>2 DEF CommandsNext, DaemonStep

\* What the command takes as committed is what the daemon would.
LEMMA StatusCommittedRight ==
    ASSUME srecs = log, ssize = Len(head.recs)
    PROVE  StatusCommitted = Committed(head, log)
BY DEF StatusCommitted, Committed

\* The command's copy and its cut are the daemon's; its other steps read.
LEMMA StatusDisk ==
    ASSUME CommandsInv, StatusStep
    PROVE  \/ UNCHANGED vars /\ spc' # "copied"
           \/ /\ StatusCopy
              /\ spc = "recover" /\ spc' = "copied"
              /\ quarantine' = quarantine \cup buried
                    \cup {log[i] : i \in (Committed(head, log) + 1) .. Len(log)}
              /\ UNCHANGED <<log, junk, buried, head, memory, counts, pc, acked, srecs, sjunk,
                             ssize>>
           \/ /\ StatusTruncate
              /\ spc = "copied" /\ spc' = "ok"
              /\ log' = SubSeq(log, 1, Committed(head, log))
              /\ junk' = "none" /\ buried' = {}
              /\ UNCHANGED <<head, quarantine, memory, counts, pc, acked, srecs, sjunk, ssize>>
<1> USE DEF CommandsInv
<1>1. CASE StatusCopy
  <2>1. spc = "recover" /\ srecs = log /\ sjunk = junk /\ StatusCommitted = Committed(head, log)
    BY <1>1, StatusCommittedRight DEF StatusCopy, StatusCopyBehind, StatusInv
  <2>2. log \in Seq(Record) /\ Len(log) \in Nat
    BY DEF TypeInv, TypeOK
  <2>3. spc' = "copied"
    BY <1>1, <2>1, <2>2 DEF StatusCopy, StatusCopyBehind, CopyOutcomes
  <2>4. (IF sjunk = "none" THEN {} ELSE buried) = buried
    BY <2>1 DEF LeavesInv
  <2>5. quarantine' = quarantine \cup
            ({log[i] : i \in (Committed(head, log) + 1) .. Len(log)} \cup buried)
    BY <1>1, <2>1, <2>3, <2>4 DEF StatusCopy, StatusCopyBehind
  <2> QED BY <1>1, <2>1, <2>3, <2>5 DEF StatusCopy, StatusCopyBehind
<1>2. CASE StatusTruncate
  <2>1. spc = "copied" /\ StatusCommitted = Committed(head, log)
    BY <1>2, StatusCommittedRight DEF StatusTruncate, StatusCut, StatusInv
  <2> QED BY <1>2, <2>1 DEF StatusTruncate, StatusCut
<1>3. CASE StatusReadLog \/ StatusReadHead \/ StatusVerify \/ StatusGone
  BY <1>3 DEF StatusReadLog, StatusReadHead, StatusVerify, StatusGone
<1> QED BY <1>1, <1>2, <1>3 DEF StatusStep, StatusExit, StatusKill

\* A cut leaves the log as it is or exactly what the head covers.
LEMMA CutLeavesHead ==
    ASSUME TypeOK, CutInv, pc \in {"recover", "copied"} \/ spc \in {"recover", "copied"},
           log' = SubSeq(log, 1, Committed(head, log))
    PROVE  \/ log' = log
           \/ log' = head.recs /\ IsPrefix(head.recs, log)
<1>1. log \in Seq(Record) /\ Committed(head, log) \in 0 .. Len(log)
  BY CommittedBound DEF TypeOK
<1>2. CASE log = <<>>
  <2>1. Len(log) = 0
    BY <1>2
  <2>2. Committed(head, log) = Len(log)
    BY <1>1, <2>1
  <2> QED BY <1>1, <2>2, WholeCut
<1>3. CASE log # <<>>
  <2>1. log' = head.recs
    BY <1>3 DEF CutInv
  <2>2. /\ log' \in Seq(Record) /\ Len(log') = Committed(head, log)
        /\ \A i \in 1 .. Len(log') : log'[i] = log[i]
    BY <1>1
  <2>3. Len(log') <= Len(log)
    BY <1>1, <2>2
  <2>4. IsPrefix(log', log)
    BY <1>1, <2>2, <2>3, PrefixElements
  <2> QED BY <2>1, <2>4
<1> QED BY <1>2, <1>3

\* What the steps of all processes do to the log and its head.
LEMMA LogChange ==
    ASSUME CommandsInv, ~ BesideDaemon, [CommandsNext]_commandVars
    PROVE  \/ UNCHANGED <<log, head>>
           \/ log' = Append(log, NewRecord) /\ head' = head /\ AppendFrame
           \/ log' = log /\ head'.recs = leaves /\ IsPrefix(log, leaves) /\ WriteTreeHead
           \/ log' = head.recs /\ IsPrefix(head.recs, log) /\ head' = head
<1> USE DEF CommandsInv
<1>0. TypeOK
  BY DEF TypeInv
<1>1. CASE [Next]_vars
  <2>1. CASE QuarantineTruncate
    BY <1>0, <2>1, CutLeavesHead DEF QuarantineTruncate, TruncateBehind
  <2>2. CASE AppendFrame
    BY <2>2 DEF AppendFrame
  <2>3. CASE WriteTreeHead
    BY <2>3 DEF WriteTreeHead, LeavesInv
  <2>4. CASE ~ (QuarantineTruncate \/ AppendFrame \/ WriteTreeHead)
    BY <1>1, <2>4 DEF Next, vars, disk, Open, QuarantineCopy, CopyBehind, SealFails,
       ShortWrite,
                      HeadFails, Crash, Close
  <2> QED BY <2>1, <2>2, <2>3, <2>4
<1>2. CASE StatusStep
  <2>1. CASE log' = SubSeq(log, 1, Committed(head, log)) /\ spc = "copied" /\ head' = head
    BY <1>0, <2>1, CutLeavesHead
  <2>2. CASE UNCHANGED <<log, head>>
    BY <2>2
  <2> QED BY <1>2, <2>1, <2>2, StatusDisk DEF vars, disk
<1>3. CASE UNCHANGED vars
  BY <1>3 DEF vars, disk
<1> QED BY <1>1, <1>2, <1>3, CommandsStep DEF commandVars

-----------------------------------------------------------------------------
(* The invariant is inductive.                                              *)

\* Every reader holds a head of the right type.
LEMMA ReadersTypeStep ==
    ASSUME CommandsInv, ~ BesideDaemon, [CommandsNext]_commandVars
    PROVE  ReadersType'
<1> USE DEF CommandsInv, ReadersType
<1>0. /\ log \in Seq(Record) /\ head \in TreeHead /\ vhead.recs \in Seq(Record)
      /\ ehead.recs \in Seq(Record) /\ <<>> \in Seq(Record) /\ NoHead \in TreeHead
  BY DEF TypeInv, TypeOK, TreeHead, NoHead, Signers
<1>1. CASE UNCHANGED <<verifier, exporter>>
  BY <1>1 DEF verifier, exporter
<1>2. CASE VerifierStep /\ UNCHANGED exporter
  <2>1. CASE VerifyReadLog
    <3>1. \/ vrecs' = <<>>
          \/ /\ vrecs' = SubSeq(log, 1, Len(vhead.recs))
             /\ ~ VerifyMustRetry /\ vhead.recs # <<>>
      BY <2>1 DEF VerifyReadLog
    <3>2. ASSUME vhead.recs # <<>>, ~ VerifyMustRetry, vrecs' = SubSeq(log, 1, Len(vhead.recs))
          PROVE  vrecs' \in Seq(Record)
      <4>1. Len(vhead.recs) <= Len(log) /\ Len(vhead.recs) \in Nat
        BY <1>0, <3>2 DEF VerifyMustRetry
      <4>2. SubSeq(log, 1, Len(vhead.recs)) \in Seq(Record)
        BY <1>0, <4>1
      <4> QED BY <3>2, <4>2
    <3>3. vrecs' \in Seq(Record)
      BY <1>0, <3>1, <3>2
    <3> QED BY <1>2, <2>1, <3>3 DEF VerifyReadLog, exporter
  <2>2. CASE VerifyReadHead \/ VerifyRetry \/ VerifyEmpty \/ VerifyAgain
    BY <1>0, <1>2, <2>2 DEF VerifyReadHead, VerifyRetry, VerifyEmpty, VerifyAgain, exporter
  <2> QED BY <1>2, <2>1, <2>2 DEF VerifierStep
<1>3. CASE ExporterStep /\ UNCHANGED verifier
  <2>1. CASE ExportReadLog
    <3>1. erecs' = SubSeq(log, 1, Len(ehead.recs)) /\ Len(log) >= Len(ehead.recs)
      BY <2>1 DEF ExportReadLog, ExportFirst, ExportAgrees
    <3>2. erecs' \in Seq(Record)
      BY <1>0, <3>1
    <3> QED BY <1>3, <2>1, <3>2 DEF ExportReadLog, ExportFirst, verifier
  <2>2. CASE ExportReadHead \/ ExportRetry \/ ExportKeep
    BY <1>0, <1>3, <2>2 DEF ExportReadHead, ExportRetry, ExportKeep, verifier
  <2> QED BY <1>3, <2>1, <2>2 DEF ExporterStep
<1> QED BY <1>1, <1>2, <1>3, CommandsStep DEF commandVars

\* The command keeps the store's types and what makes acknowledged records durable.
LEMMA StatusKeepsStore ==
    ASSUME CommandsInv, StatusStep
    PROVE  TypeInv' /\ StoreInv'
<1> USE DEF CommandsInv, TypeInv, disk, memory, counts
<1>0. log \in Seq(Record) /\ Committed(head, log) \in 0 .. Len(log) /\ TypeOK
  BY CommittedBound DEF TypeOK
<1>1. CASE UNCHANGED vars
  BY <1>1 DEF vars, TypeOK, StoreInv, StoreBody, Intact, Committed
<1>2. CASE StatusCopy /\ ~ UNCHANGED vars
  <2>1. /\ spc = "recover"
        /\ quarantine' = quarantine \cup buried
              \cup {log[i] : i \in (Committed(head, log) + 1) .. Len(log)}
        /\ UNCHANGED <<log, junk, buried, head, memory, counts, pc, acked>>
    BY <1>2, StatusDisk DEF StatusCopy, StatusCopyBehind, StatusTruncate, StatusCut
  <2>2. {log[i] : i \in (Committed(head, log) + 1) .. Len(log)} \subseteq Record
    BY <1>0
  <2> QED BY <2>1, <2>2 DEF TypeOK, StoreInv, StoreBody, Intact, Committed
<1>3. CASE StatusTruncate /\ ~ UNCHANGED vars
  <2>1. /\ spc = "copied" /\ log' = SubSeq(log, 1, Committed(head, log))
        /\ junk' = "none" /\ buried' = {}
        /\ UNCHANGED <<head, quarantine, memory, counts, pc, acked>>
    BY <1>3, StatusDisk DEF StatusCopy, StatusCopyBehind, StatusTruncate, StatusCut
  <2>2. pc \in {"down", "refused"}
    BY <2>1 DEF StatusInv
  <2>3. log' \in Seq(Record)
    BY <1>0, <2>1
  <2>4. TypeInv'
    BY <2>1, <2>2, <2>3 DEF TypeOK
  <2>5. log' = log \/ log' = head.recs
    BY <1>0, <2>1, CutLeavesHead
  <2>6. IsPrefix(head.recs, log) => IsPrefix(head.recs, log')
    BY <2>5, PrefixRefl DEF TypeOK, TreeHead
  <2> QED BY <2>1, <2>2, <2>4, <2>6 DEF StoreInv, StoreBody, Intact
<1> QED BY <1>1, <1>2, <1>3, StatusDisk

\* The command, too, copies every record it cuts.
LEMMA StatusKeepsRecords ==
    ASSUME CommandsInv, StatusStep
    PROVE  KeptInv'
<1> USE DEF CommandsInv, disk, memory, counts
<1>0. /\ log \in Seq(Record) /\ Committed(head, log) \in 0 .. Len(log)
      /\ NothingDestroyed /\ pc' = pc
      /\ (pc = "copied" => UNCHANGED <<log, buried, quarantine, head>>)
  <2>1. log \in Seq(Record) /\ Committed(head, log) \in 0 .. Len(log)
    BY CommittedBound DEF TypeInv, TypeOK
  <2>2. pc' = pc
    BY StatusDisk DEF vars
  <2>3. spc \in {"recover", "copied"} => pc # "copied"
    BY DEF StatusInv
  <2> QED BY <2>1, <2>2, <2>3, StatusDisk DEF KeptInv, vars
<1>1. NothingDestroyed'
  <2>1. CASE UNCHANGED vars
    BY <1>0, <2>1 DEF vars, NothingDestroyed
  <2>2. CASE quarantine \subseteq quarantine' /\ UNCHANGED <<log, buried, written>>
    BY <1>0, <2>2, KeptGrows DEF Kept
  <2>3. CASE /\ log' = SubSeq(log, 1, Committed(head, log))
             /\ spc = "copied"
             /\ UNCHANGED <<quarantine, written>>
    <3> DEFINE cut == Committed(head, log)
    <3>2. /\ Len(log') = cut
          /\ \A i \in 1 .. cut : log'[i] = log[i]
      BY <1>0, <2>3
    <3>3. buried \subseteq quarantine /\ \A i \in (cut + 1) .. Len(log) : log[i] \in quarantine
      BY <2>3 DEF StatusInv
    <3>4. ASSUME NEW r \in ToSet(log) PROVE r \in ToSet(log') \cup quarantine'
      <4>1. PICK i \in 1 .. Len(log) : r = log[i]
        BY <1>0 DEF ToSet
      <4>2. CASE i <= cut
        <5>1. i \in DOMAIN log'
          BY <1>0, <2>3, <4>2
        <5> QED BY <1>0, <3>2, <4>1, <4>2, <5>1 DEF ToSet
      <4>3. CASE i > cut
        BY <1>0, <2>3, <3>3, <4>1, <4>3
      <4> QED BY <1>0, <4>2, <4>3
    <3>5. Kept \subseteq Kept'
      BY <2>3, <3>3, <3>4 DEF Kept
    <3> QED BY <1>0, <2>3, <3>5, KeptGrows
  <2> QED BY <2>1, <2>2, <2>3, StatusDisk
<1> QED BY <1>0, <1>1 DEF KeptInv, Committed

\* Records once written stay written, and a new one is written with its frame.
LEMMA KnownGrows ==
    ASSUME TypeOK, NEW recs \in Seq(Record), Known(recs)
    PROVE  /\ written' = written \/ written' = written + 1 =>
                \A i \in 1 .. Len(recs) : recs[i].id <= written'
           /\ written' = written + 1 =>
                \A i \in 1 .. Len(Append(recs, NewRecord)) :
                    Append(recs, NewRecord)[i].id <= written'
<1>1. \A i \in 1 .. Len(recs) : recs[i] \in Record
  OBVIOUS
<1>2. \A i \in 1 .. Len(recs) : recs[i].id \in Nat /\ recs[i].id <= written
  BY <1>1 DEF Record, Known
<1>3. written \in Nat /\ NewRecord \in Record /\ NewRecord.id = written + 1
  BY DEF TypeOK, NewRecord, Record
<1> DEFINE longer == Append(recs, NewRecord)
<1>4. /\ Len(longer) = Len(recs) + 1 /\ longer[Len(recs) + 1] = NewRecord
      /\ \A i \in 1 .. Len(recs) : longer[i] = recs[i]
  BY <1>3
<1> HIDE DEF longer
<1>5. written' = written + 1 => \A i \in 1 .. Len(longer) : longer[i].id <= written'
  BY <1>2, <1>3, <1>4
<1> QED BY <1>2, <1>3, <1>5 DEF longer

\* No step shows anyone a record that has not been written.
LEMMA KnownStep ==
    ASSUME CommandsInv, ~ BesideDaemon, [CommandsNext]_commandVars
    PROVE  KnownInv'
<1> USE DEF CommandsInv, disk, memory, counts
<1>0. /\ TypeOK /\ log \in Seq(Record) /\ leaves \in Seq(Record)
      /\ head.recs \in Seq(Record) /\ vhead.recs \in Seq(Record)
      /\ Known(log) /\ Known(leaves) /\ Known(head.recs) /\ Known(vhead.recs)
  BY DEF TypeInv, TypeOK, TreeHead, ReadersType, KnownInv
<1> DEFINE K(recs) == \A i \in 1 .. Len(recs) : recs[i].id <= written'
<1>1. written' = written \/ written' = written + 1
  <2>1. [Next]_vars => written' = written \/ written' = written + 1
    BY DEF Next, vars, Open, QuarantineCopy, CopyBehind, QuarantineTruncate, TruncateBehind,
           AppendFrame, WriteTreeHead, SealFails, ShortWrite, HeadFails, Fault, Crash, Close
  <2>2. StatusStep \/ UNCHANGED vars => written' = written
    BY StatusDisk DEF vars
  <2> QED BY <2>1, <2>2, CommandsStep DEF commandVars
<1>2. /\ K(log) /\ K(leaves) /\ K(head.recs) /\ K(vhead.recs)
      /\ AppendFrame => K(Append(log, NewRecord)) /\ K(Append(leaves, NewRecord))
  <2>1. AppendFrame => written' = written + 1
    BY DEF AppendFrame
  <2> QED BY <1>0, <1>1, <2>1, KnownGrows
<1>3. \/ log' = log \/ log' = head.recs
      \/ AppendFrame /\ log' = Append(log, NewRecord)
  BY LogChange
<1>4. head'.recs = head.recs \/ head'.recs = leaves
  BY LogChange
<1>5. vhead' = vhead \/ vhead' = head \/ vhead'.recs = <<>>
  <2>1. VerifierStep => vhead' = vhead \/ vhead' = head \/ vhead'.recs = <<>>
    BY DEF VerifierStep, VerifyReadHead, VerifyRetry, VerifyReadLog, VerifyEmpty,
       VerifyAgain,
           NoHead
  <2> QED BY <2>1, CommandsStep DEF commandVars, verifier
<1>6. \/ leaves' = leaves \/ leaves' = <<>> \/ leaves' = log \/ leaves' = log'
      \/ AppendFrame /\ leaves' = Append(leaves, NewRecord)
  <2>1. [Next]_vars => \/ leaves' = leaves \/ leaves' = <<>> \/ leaves' = log \/ leaves' = log'
                       \/ AppendFrame /\ leaves' = Append(leaves, NewRecord)
    BY DEF Next, vars, Open, QuarantineCopy, CopyBehind, QuarantineTruncate, TruncateBehind,
           LoadStore, AppendFrame, WriteTreeHead, SealFails, ShortWrite, HeadFails, Crash, Close,
           ProcessGone
  <2>2. StatusStep => leaves' = leaves
    BY StatusDisk DEF vars
  <2>3. UNCHANGED vars => leaves' = leaves
    BY DEF vars
  <2> QED BY <2>1, <2>2, <2>3, CommandsStep DEF commandVars
<1>7. K(<<>>)
  OBVIOUS
<1> HIDE DEF K
<1>8. K(log')
  BY <1>2, <1>3
<1>9. K(leaves') /\ K(head'.recs) /\ K(vhead'.recs)
  BY <1>2, <1>4, <1>5, <1>6, <1>7, <1>8
<1> QED BY <1>8, <1>9 DEF K, KnownInv, Known

\* A running daemon's leaves stay in step with its log.
LEMMA LeavesStep ==
    ASSUME CommandsInv, ~ BesideDaemon, [CommandsNext]_commandVars
    PROVE  LeavesInv'
<1> USE DEF CommandsInv, LeavesInv, disk, memory, counts
<1>0. log \in Seq(Record) /\ leaves \in Seq(Record) /\ TypeOK /\ TypeInv'
  <2>1. [Next]_vars => TypeInv'
    BY TypeInvStep
  <2>2. StatusStep => TypeInv'
    BY StatusKeepsStore
  <2>3. UNCHANGED vars => [Next]_vars
    OBVIOUS
  <2> QED BY <2>1, <2>2, <2>3, CommandsStep DEF TypeInv, TypeOK, commandVars
<1>1. CASE [Next]_vars
  <2>1. ASSUME NEW s \in Signers, Open(s) PROVE LeavesInv'
    BY <1>0, <2>1, PrefixRefl DEF Open, LoadStore
  <2>2. CASE QuarantineCopy
    BY <2>2 DEF QuarantineCopy, CopyBehind
  <2>3. CASE QuarantineTruncate
    <3>1. log' \in Seq(Record)
      BY <1>0 DEF TypeInv, TypeOK
    <3> QED BY <2>3, <3>1, PrefixRefl DEF QuarantineTruncate, TruncateBehind, LoadStore
  <2>4. CASE AppendFrame
    <3>1. NewRecord \in Record
      BY <1>0 DEF NewRecord, Record, TypeOK
    <3>2. leaves' = Append(leaves, NewRecord) /\ IsPrefix(log, leaves) /\ pc = "up"
      BY <2>4 DEF AppendFrame
    <3>3. CASE junk = "none"
      <4>1. log' = leaves' /\ UNCHANGED <<junk, buried>>
        BY <2>4, <3>2, <3>3 DEF AppendFrame
      <4>2. IsPrefix(leaves', leaves')
        BY <1>0, PrefixRefl DEF TypeInv, TypeOK
      <4> QED BY <4>1, <4>2
    <3>4. CASE junk # "none"
      <4>1. log' = log /\ junk' # "none"
        BY <2>4, <3>4 DEF AppendFrame, JunkAfterWrite
      <4>2. IsPrefix(log, leaves')
        BY <1>0, <3>1, <3>2, PrefixAppend
      <4> QED BY <4>1, <4>2
    <3> QED BY <3>3, <3>4
  <2>5. CASE WriteTreeHead \/ HeadFails \/ SealFails
    BY <2>5 DEF WriteTreeHead, HeadFails, SealFails
  <2>6. CASE ShortWrite
    BY <2>6 DEF ShortWrite, JunkAfterTornWrite, JunkAfterWrite
  <2>7. CASE Crash
    BY <2>7 DEF Crash, ProcessGone, JunkAfterTornWrite, JunkAfterWrite
  <2>8. CASE Close
    BY <2>8 DEF Close, ProcessGone
  <2>9. CASE UNCHANGED vars
    BY <2>9 DEF vars
  <2> QED BY <1>1, <2>1, <2>2, <2>3, <2>4, <2>5, <2>6, <2>7, <2>8, <2>9 DEF Next
<1>2. CASE StatusStep
  <2>1. spc # "idle" => pc \in {"down", "refused"}
    BY DEF StatusInv
  <2> QED BY <1>2, <2>1, StatusDisk DEF vars
<1>3. CASE UNCHANGED vars
  BY <1>3 DEF vars
<1> QED BY <1>1, <1>2, <1>3, CommandsStep DEF commandVars

\* A recovery starts only on a head that covers the committed records, and neither
\* the log nor the head changes under it.
LEMMA CutStep ==
    ASSUME CommandsInv, ~ BesideDaemon, [CommandsNext]_commandVars
    PROVE  CutInv'
<1> USE DEF CommandsInv, CutInv, disk
<1>1. ASSUME NEW s, ~ HeadRefused(head, log, s)
      PROVE  log = <<>> \/ SubSeq(log, 1, Committed(head, log)) = head.recs
  BY <1>1 DEF HeadRefused, HeadAccepted
<1>2. CASE [Next]_vars /\ spc = "idle" /\ UNCHANGED statusVars
  <2> SUFFICES ASSUME pc' \in {"recover", "copied"}
               PROVE  /\ UNCHANGED <<log, head>>
                      /\ log = <<>> \/ SubSeq(log, 1, Committed(head, log)) = head.recs
    BY <1>2 DEF statusVars, Committed
  <2>1. ASSUME NEW s \in Signers, Open(s)
        PROVE  /\ UNCHANGED <<log, head>>
               /\ log = <<>> \/ SubSeq(log, 1, Committed(head, log)) = head.recs
    BY <1>1, <2>1 DEF Open
  <2>2. CASE QuarantineCopy \/ UNCHANGED vars
    BY <2>2 DEF QuarantineCopy, CopyBehind, vars
  <2> QED BY <1>2, <2>1, <2>2 DEF Next, QuarantineTruncate, TruncateBehind, AppendFrame,
                WriteTreeHead, SealFails, ShortWrite, HeadFails, Crash, Close, ProcessGone
<1>3. CASE StatusStep
  <2>1. CASE StatusVerify
    <3>1. /\ spc = "head" /\ srecs = log /\ UNCHANGED <<log, head, pc>>
          /\ pc \in {"down", "refused"} /\ StatusCommitted = Committed(head, log)
      BY <2>1, StatusCommittedRight DEF StatusVerify, StatusInv, vars
    <3>2. spc' = "recover" => ~ HeadRefused(head, log, NoKey)
      BY <2>1, <3>1 DEF StatusVerify, HeadRefused
    <3>3. spc' # "copied"
      BY <2>1 DEF StatusVerify
    <3> QED BY <1>1, <3>1, <3>2, <3>3 DEF Committed
  <2>2. CASE StatusCopy
    BY <2>2 DEF StatusCopy, StatusCopyBehind, Committed
  <2>3. CASE StatusTruncate
    BY <2>3 DEF StatusTruncate, StatusCut, StatusInv
  <2>4. CASE StatusReadLog \/ StatusReadHead \/ StatusGone
    BY <2>4 DEF StatusReadLog, StatusReadHead, StatusGone, vars, Committed
  <2> QED BY <1>3, <2>1, <2>2, <2>3, <2>4 DEF StatusStep, StatusExit, StatusKill
<1>4. CASE UNCHANGED <<vars, statusVars>>
  BY <1>4 DEF vars, statusVars, Committed
<1> QED BY <1>2, <1>3, <1>4, CommandsStep DEF commandVars

\* The command's verdict is about the log that is on the disk.
LEMMA StatusInvStep ==
    ASSUME CommandsInv, ~ BesideDaemon, [CommandsNext]_commandVars
    PROVE  StatusInv'
<1> USE DEF CommandsInv, disk
<1>0. /\ log \in Seq(Record) /\ Committed(head, log) \in 0 .. Len(log) /\ TypeOK
      /\ head.recs \in Seq(Record)
  BY CommittedBound DEF TypeInv, TypeOK, TreeHead
<1>1. CASE [Next]_vars /\ spc = "idle" /\ UNCHANGED statusVars
  BY <1>1 DEF StatusInv, StatusVerdictRight, statusVars
<1>2. CASE UNCHANGED <<vars, statusVars>>
  BY <1>2 DEF StatusInv, StatusVerdictRight, statusVars, vars, HeadRefused, HeadAccepted,
     Committed
<1>3. CASE StatusStep
  <2>1. CASE StatusReadLog \/ StatusReadHead \/ StatusGone
    BY <2>1 DEF StatusReadLog, StatusReadHead, StatusGone, StatusInv, StatusVerdictRight,
       vars
  <2>2. CASE StatusVerify
    <3>1. /\ spc = "head" /\ srecs = log /\ sjunk = junk /\ UNCHANGED <<vars, srecs, sjunk, ssize>>
          /\ pc \in {"down", "refused"} /\ StatusCommitted = Committed(head, log)
          /\ ssize = Len(head.recs)
      BY <2>2, StatusCommittedRight DEF StatusVerify, StatusInv
    <3>2. /\ spc' \in {"recover", "ok", "failed"}
          /\ spc' = "ok" => /\ ~ HeadRefused(head, log, NoKey)
                            /\ ~ (Committed(head, log) < Len(log))
                            /\ junk # "partial"
          /\ spc' = "failed" => \/ HeadRefused(head, log, NoKey)
                                \/ Committed(head, log) < Len(log) /\ junk = "frame"
      BY <2>2, <3>1 DEF StatusVerify, HeadRefused
    <3>3. UNCHANGED <<log, head, junk, pc>>
      BY <3>1 DEF vars
    <3> QED BY <3>1, <3>2, <3>3
            DEF StatusInv, StatusVerdictRight, HeadRefused, HeadAccepted, Committed
  <2>3. CASE StatusCopy
    <3>1. /\ spc = "recover" /\ spc' = "copied"
          /\ quarantine' = quarantine \cup buried
                \cup {log[i] : i \in (Committed(head, log) + 1) .. Len(log)}
          /\ UNCHANGED <<log, junk, buried, head, pc, srecs, sjunk, ssize>>
      <4>1. spc = "recover" /\ spc' \in {"copied", "failed"}
        BY <2>3 DEF StatusCopy, StatusCopyBehind, CopyOutcomes
      <4>2. spc' = "copied"
        <5>1. srecs = log /\ sjunk = junk /\ Len(log) \in Nat
          BY <1>0, <4>1 DEF StatusInv
        <5> QED BY <2>3, <5>1 DEF StatusCopy, StatusCopyBehind, CopyOutcomes
      <4> QED BY <1>3, <4>1, <4>2, StatusDisk
    <3> QED BY <3>1 DEF StatusInv, StatusVerdictRight, Committed
  <2>4. CASE StatusTruncate
    <3>1. /\ spc = "copied" /\ spc' = "ok" /\ pc \in {"down", "refused"}
          /\ log' = SubSeq(log, 1, Committed(head, log))
          /\ junk' = "none" /\ UNCHANGED <<head, pc>>
      <4>1. spc = "copied" /\ StatusCommitted = Committed(head, log)
        BY <2>4, StatusCommittedRight DEF StatusTruncate, StatusCut, StatusInv
      <4> QED BY <2>4, <4>1 DEF StatusTruncate, StatusCut, StatusInv
    <3>2. log' = <<>> \/ log' = head.recs
      <4>1. CASE log = <<>>
        <5>1. Len(log) = 0
          BY <4>1
        <5>2. Committed(head, log) = Len(log)
          BY <1>0, <5>1
        <5> QED BY <1>0, <3>1, <4>1, <5>2, WholeCut
      <4>2. CASE log # <<>>
        BY <3>1, <4>2 DEF CutInv
      <4> QED BY <4>1, <4>2
    <3>3. Committed(head', log') = Len(log')
      BY <1>0, <3>1, <3>2 DEF Committed
    <3>4. ~ HeadRefused(head', log', NoKey)
      <4>1. CASE log' = <<>>
        BY <4>1 DEF HeadRefused
      <4>2. CASE log' = head.recs
        <5>1. SubSeq(log', 1, Len(log')) = head'.recs
          BY <1>0, <3>1, <4>2, WholeCut
        <5> QED BY <3>3, <5>1 DEF HeadRefused, HeadAccepted
      <4> QED BY <3>2, <4>1, <4>2
    <3>5. Len(log') \in Nat
      BY <1>0, <3>2
    <3> QED BY <3>1, <3>3, <3>4, <3>5
            DEF StatusInv, StatusVerdictRight, HeadRefused, HeadAccepted, Committed
  <2> QED BY <1>3, <2>1, <2>2, <2>3, <2>4 DEF StatusStep, StatusExit, StatusKill
<1> QED BY <1>1, <1>2, <1>3, CommandsStep DEF commandVars

\* The parts together are an invariant.
LEMMA CommandsInvariant ==
    ASSUME ~ BesideDaemon
    PROVE  CommandsSpec => []CommandsInv
<1>1. CommandsInit => CommandsInv
  <2> SUFFICES ASSUME CommandsInit PROVE CommandsInv
    OBVIOUS
  <2>1. Init /\ TypeInv /\ StoreInv /\ KeptInv
    BY TypeInvInit, StoreInvInit, KeptInvInit DEF CommandsInit, ReadersInit, TypeInv
  <2>2. ReadersType
    <3>1. <<>> \in Seq(Record) /\ NoHead \in TreeHead
      BY DEF NoHead, TreeHead, Signers
    <3> QED BY <3>1 DEF CommandsInit, ReadersInit, ReadersType
  <2>3. KnownInv
    <3>1. Known(log)
      BY <2>1 DEF Known, Init, Genesis
    <3>2. head.recs = log /\ Len(leaves) = 0 /\ Len(vhead.recs) = 0
      BY <2>1 DEF Init, CommandsInit, ReadersInit, NoHead
    <3> QED BY <3>1, <3>2 DEF KnownInv, Known
  <2>4. LeavesInv /\ CutInv /\ StatusInv
    BY <2>1 DEF Init, CommandsInit, LeavesInv, CutInv, StatusInv, StatusVerdictRight
  <2> QED BY <2>1, <2>2, <2>3, <2>4 DEF CommandsInv
<1>2. CommandsInv /\ [CommandsNext]_commandVars => CommandsInv'
  <2> SUFFICES ASSUME CommandsInv, [CommandsNext]_commandVars PROVE CommandsInv'
    OBVIOUS
  <2>1. TypeInv' /\ StoreInv' /\ KeptInv'
    <3>1. [Next]_vars => TypeInv' /\ StoreInv' /\ KeptInv'
      BY TypeInvStep, StoreInvStep, KeptInvStep DEF CommandsInv, TypeInv
    <3>2. StatusStep => TypeInv' /\ StoreInv' /\ KeptInv'
      BY StatusKeepsStore, StatusKeepsRecords
    <3>3. UNCHANGED vars => [Next]_vars
      OBVIOUS
    <3> QED BY <3>1, <3>2, <3>3, CommandsStep DEF commandVars
  <2> QED BY <2>1, ReadersTypeStep, KnownStep, LeavesStep, CutStep,
             StatusInvStep DEF CommandsInv
<1> QED BY <1>1, <1>2, PTL DEF CommandsSpec

\* With readers and the status command about, the store's variables keep their types.
THEOREM CommandsKeepTypes ==
    ASSUME ~ BesideDaemon
    PROVE  CommandsSpec => []TypeOK
<1>1. CommandsInv => TypeOK
  BY DEF CommandsInv, TypeInv
<1> QED BY <1>1, CommandsInvariant, PTL

\* No command costs an acknowledged record: neither the readers nor a status
\* command that recovers a crash tail in the daemon's place.
THEOREM CommandsKeepAcked ==
    ASSUME ~ BesideDaemon
    PROVE  CommandsSpec => []AckedDurable
<1>1. CommandsInv => AckedDurable
  BY PrefixSet DEF CommandsInv, TypeInv, StoreInv, StoreBody, AckedDurable, TypeOK, TreeHead
<1> QED BY <1>1, CommandsInvariant, PTL

\* The status command's recovery, like the daemon's, keeps every record it cuts,
\* with every failure and also when the other is killed half way through its own.
THEOREM CommandsDestroyNothing ==
    ASSUME ~ BesideDaemon
    PROVE  CommandsSpec => []NothingDestroyed
<1>1. CommandsInv => NothingDestroyed
  BY DEF CommandsInv, KeptInv
<1> QED BY <1>1, CommandsInvariant, PTL

\* With the witness stopped, the status command succeeds only on a log it leaves
\* ready to be opened and fails only on one a daemon would refuse.
THEOREM StatusVerdictIsRight ==
    ASSUME ~ BesideDaemon
    PROVE  CommandsSpec => []StatusVerdictRight
<1>1. CommandsInv => StatusVerdictRight
  BY DEF CommandsInv, StatusInv
<1> QED BY <1>1, CommandsInvariant, PTL

-----------------------------------------------------------------------------
(* The verifier.                                                            *)

\* The types the readers' proofs use.
LEMMA SequenceTypes ==
    ASSUME CommandsInv
    PROVE  /\ log \in Seq(Record) /\ leaves \in Seq(Record) /\ head.recs \in Seq(Record)
           /\ vhead.recs \in Seq(Record) /\ vrecs \in Seq(Record)
           /\ ehead.recs \in Seq(Record) /\ erecs \in Seq(Record)
           /\ \A p \in priors : p.recs \in Seq(Record)
           /\ NewRecord \in Record
<1>1. seq \in Nat /\ written \in Nat
  BY DEF CommandsInv, TypeInv, TypeOK
<1>2. NewRecord \in Record
  BY <1>1 DEF NewRecord, Record
<1> QED BY <1>2 DEF CommandsInv, TypeInv, TypeOK, ReadersType, TreeHead

\* A log that is intact was intact before.
LEMMA IntactBefore ==
    ASSUME CommandsInv, ~ BesideDaemon, [CommandsNext]_commandVars, Intact'
    PROVE  Intact /\ StoreBody
<1>1. [Next]_vars => Intact
  BY ShortWriteCounts DEF CommandsInv, TypeInv
<1>2. StatusStep => Intact
  BY StatusDisk DEF vars, counts, Intact
<1>3. UNCHANGED vars => Intact
  BY DEF vars, counts, Intact
<1> QED BY <1>1, <1>2, <1>3, CommandsStep DEF commandVars, CommandsInv, StoreInv

\* While the log is intact the head only grows.
LEMMA HeadGrows ==
    ASSUME CommandsInv, ~ BesideDaemon, [CommandsNext]_commandVars, Intact'
    PROVE  IsPrefix(head.recs, head'.recs)
<1>1. StoreBody
  BY IntactBefore
<1>2. CASE head' = head
  BY <1>2, PrefixRefl, SequenceTypes
<1>3. CASE WriteTreeHead
  BY <1>1, <1>3 DEF WriteTreeHead, StoreBody
<1> QED BY <1>2, <1>3, LogChange

\* A new record is not in what a reader has read before it was written.
LEMMA NewIsNew ==
    ASSUME CommandsInv, IsPrefix(vhead.recs, Append(log, NewRecord))
    PROVE  IsPrefix(vhead.recs, log)
<1> DEFINE longer == Append(log, NewRecord)
<1>1. /\ log \in Seq(Record) /\ vhead.recs \in Seq(Record) /\ NewRecord \in Record
      /\ longer \in Seq(Record) /\ Len(longer) = Len(log) + 1
      /\ longer[Len(log) + 1] = NewRecord /\ \A i \in 1 .. Len(log) : longer[i] = log[i]
  BY SequenceTypes
<1>0. IsPrefix(vhead.recs, longer)
  OBVIOUS
<1> HIDE DEF longer
<1>2. Len(vhead.recs) <= Len(longer) /\ \A i \in 1 .. Len(vhead.recs) : vhead.recs[i] = longer[i]
  BY <1>0, <1>1, PrefixElements
<1>3. \A i \in 1 .. Len(vhead.recs) : vhead.recs[i].id <= written
  BY DEF CommandsInv, KnownInv, Known
<1>4. written \in Nat /\ NewRecord.id = written + 1
  BY DEF CommandsInv, TypeInv, TypeOK, NewRecord
<1>5. Len(vhead.recs) # Len(log) + 1
  BY <1>1, <1>2, <1>3, <1>4
<1>6. Len(vhead.recs) <= Len(log) /\ \A i \in 1 .. Len(vhead.recs) : vhead.recs[i] = log[i]
  BY <1>1, <1>2, <1>5
<1> QED BY <1>1, <1>6, PrefixElements

\* Neither the daemon nor the status command can take from a verifier what it read.
LEMMA VerifierUndisturbed ==
    ASSUME CommandsInv, VerifierInv, ~ BesideDaemon, [CommandsNext]_commandVars, UNCHANGED verifier
    PROVE  VerifierInv'
<1> USE SequenceTypes
<1>0. UNCHANGED <<vpc, vhead, vrecs>>
  BY DEF verifier
<1>1. IsPrefix(vhead.recs, log') => IsPrefix(vhead.recs, head'.recs)
  <2> SUFFICES ASSUME IsPrefix(vhead.recs, log') PROVE IsPrefix(vhead.recs, head'.recs)
    OBVIOUS
  <2>1. CASE UNCHANGED <<log, head>>
    BY <2>1 DEF VerifierInv
  <2>2. CASE log' = Append(log, NewRecord) /\ head' = head
    BY <2>2, NewIsNew DEF VerifierInv
  <2>3. CASE log' = log /\ head'.recs = leaves /\ IsPrefix(log, leaves)
    BY <2>3, PrefixTrans
  <2>4. CASE log' = head.recs /\ head' = head
    BY <2>4
  <2> QED BY <2>1, <2>2, <2>3, <2>4, LogChange
<1>2. vpc = "ok" => IsPrefix(vrecs, log')
  <2> SUFFICES ASSUME vpc = "ok" PROVE IsPrefix(vrecs, log')
    OBVIOUS
  <2>0. IsPrefix(vrecs, log) /\ (vrecs = vhead.recs \/ vrecs = <<>>)
    BY DEF VerifierInv
  <2>1. CASE log' = log
    BY <2>0, <2>1
  <2>2. CASE log' = Append(log, NewRecord)
    BY <2>0, <2>2, PrefixAppend
  <2>3. CASE log' = head.recs
    <3>1. CASE vrecs = vhead.recs
      BY <2>0, <2>3, <3>1 DEF VerifierInv
    <3>2. CASE vrecs = <<>>
      <4>1. Len(vrecs) = 0
        BY <3>2
      <4> QED BY <2>3, <4>1, PrefixEmpty
    <3> QED BY <2>0, <3>1, <3>2
  <2> QED BY <2>1, <2>2, <2>3, LogChange
<1>3. Intact' => Intact /\ IsPrefix(vhead.recs, head'.recs)
  <2> SUFFICES ASSUME Intact' PROVE Intact /\ IsPrefix(vhead.recs, head'.recs)
    OBVIOUS
  <2>1. Intact /\ IsPrefix(vhead.recs, head.recs) /\ IsPrefix(head.recs, head'.recs)
    BY IntactBefore, HeadGrows DEF VerifierInv
  <2>2. head'.recs \in Seq(Record)
    BY LogChange
  <2> QED BY <2>1, <2>2, PrefixTrans
<1> QED BY <1>0, <1>1, <1>2, <1>3 DEF VerifierInv

\* A verifier's own steps.
LEMMA VerifierSteps ==
    ASSUME CommandsInv, VerifierInv, VerifierStep
    PROVE  VerifierInv'
<1> USE SequenceTypes DEF VerifierInv
<1>0. UNCHANGED <<log, head>> /\ Intact' = Intact
  BY DEF VerifierStep, VerifyReadHead, VerifyRetry, VerifyReadLog, VerifyEmpty, VerifyAgain,
         vars, disk, counts, Intact
<1>1. IsPrefix(head.recs, head.recs) /\ \A s \in Seq(Record) : IsPrefix(<<>>, s)
  <2>1. <<>> \in Seq(Record) /\ Len(<<>>) = 0
    OBVIOUS
  <2> QED BY <2>1, PrefixRefl, PrefixEmpty
<1>2. Intact => IsPrefix(vhead.recs, log)
  BY PrefixTrans DEF CommandsInv, StoreInv, StoreBody
<1>3. CASE VerifyReadHead
  BY <1>0, <1>1, <1>3 DEF VerifyReadHead
<1>4. CASE VerifyRetry
  <2>1. Intact /\ vhead.recs # <<>> => ~ VerifyMustRetry
    BY <1>2 DEF VerifyMustRetry, IsPrefix
  <2>2. vpc' = "short" => vhead.recs # <<>>
    BY <1>4 DEF VerifyRetry
  <2>3. vpc' \in {"idle", "missing", "short"} /\ UNCHANGED <<vhead, vrecs>> /\ VerifyMustRetry
    BY <1>4 DEF VerifyRetry
  <2> QED BY <1>0, <2>1, <2>2, <2>3
<1>5. CASE VerifyReadLog
  <2>1. CASE vhead.recs = <<>>
    <3>1. vpc' = "empty" /\ vrecs' = <<>> /\ UNCHANGED vhead
      BY <1>5, <2>1 DEF VerifyReadLog
    <3> QED BY <1>0, <1>1, <2>1, <3>1
  <2>2. CASE vhead.recs # <<>>
    <3>1. /\ UNCHANGED vhead /\ ~ VerifyMustRetry
          /\ vrecs' = SubSeq(log, 1, Len(vhead.recs)) /\ vpc' = PinnedCheck(vhead, vrecs')
      BY <1>5, <2>2 DEF VerifyReadLog
    <3>2. vpc' \in {"mismatch", "ok", "unsigned", "stranger"}
          /\ (vpc' # "mismatch" => vhead.recs = vrecs')
          /\ (vpc' = "mismatch" => vhead.recs # vrecs')
      BY <3>1 DEF PinnedCheck
    <3>3. Len(vhead.recs) <= Len(log) /\ Len(vhead.recs) \in Nat
      BY <2>2, <3>1 DEF VerifyMustRetry
    <3>4. ASSUME vhead.recs = vrecs' PROVE IsPrefix(vrecs', log)
      <4>1. \A i \in 1 .. Len(vhead.recs) : vhead.recs[i] = log[i]
        BY <3>1, <3>3, <3>4
      <4> QED BY <3>3, <3>4, <4>1, PrefixElements
    <3>5. Intact => vhead.recs = vrecs'
      BY <1>2, <3>1, PrefixCut
    <3> QED BY <1>0, <3>1, <3>2, <3>4, <3>5
  <2> QED BY <2>1, <2>2
<1>6. CASE VerifyEmpty
  <2>1. vhead.recs = <<>> /\ vrecs = <<>> /\ UNCHANGED <<vhead, vrecs>>
    BY <1>6 DEF VerifyEmpty
  <2>2. vpc' \in {"mismatch", "ok", "unsigned", "stranger"}
    BY <1>6 DEF VerifyEmpty, PinnedCheck
  <2> QED BY <1>0, <1>1, <2>1, <2>2
<1>7. CASE VerifyAgain
  BY <1>0, <1>1, <1>7 DEF VerifyAgain, NoHead
<1> QED BY <1>3, <1>4, <1>5, <1>6, <1>7 DEF VerifierStep

\* VerifierInv is an invariant.
LEMMA VerifierInvariant ==
    ASSUME ~ BesideDaemon
    PROVE  CommandsSpec => []VerifierInv
<1>1. CommandsInit => VerifierInv
  <2> SUFFICES ASSUME CommandsInit PROVE VerifierInv
    OBVIOUS
  <2>1. head.recs \in Seq(Record) /\ <<>> \in Seq(Record) /\ Len(<<>>) = 0
    BY TypeInvInit DEF CommandsInit, ReadersInit, TypeInv, TypeOK, TreeHead
  <2>2. IsPrefix(<<>>, head.recs)
    BY <2>1, PrefixEmpty
  <2> QED BY <2>2 DEF CommandsInit, ReadersInit, NoHead, VerifierInv
<1>2. CommandsInv /\ VerifierInv /\ [CommandsNext]_commandVars => VerifierInv'
  BY CommandsStep, VerifierUndisturbed, VerifierSteps DEF commandVars
<1> QED BY <1>1, <1>2, CommandsInvariant, PTL DEF CommandsSpec

\* What a verifier accepted stays in the log, whatever the daemon and the status
\* command do to it later, short writes included.
THEOREM VerifiedAlwaysStays ==
    ASSUME ~ BesideDaemon
    PROVE  CommandsSpec => []VerifiedStays
<1>1. VerifierInv => VerifiedStays
  BY DEF VerifierInv, VerifiedStays
<1> QED BY <1>1, VerifierInvariant, PTL

-----------------------------------------------------------------------------
(* The exporter.                                                            *)

\* The daemon and the status command leave every exported head a prefix of the
\* stored one.
LEMMA ExporterUndisturbed ==
    ASSUME CommandsInv, ExporterInv, ~ BesideDaemon, [CommandsNext]_commandVars, UNCHANGED exporter
    PROVE  ExporterInv'
<1> USE SequenceTypes
<1>0. UNCHANGED <<epc, ehead, erecs, priors>>
  BY DEF exporter
<1>1. ASSUME Intact'
      PROVE  /\ Intact
             /\ IsPrefix(ehead.recs, head'.recs)
             /\ \A p \in priors : IsPrefix(p.recs, head'.recs)
  <2>1. Intact /\ IsPrefix(head.recs, head'.recs) /\ head'.recs \in Seq(Record)
    BY <1>1, IntactBefore, HeadGrows, LogChange
  <2>2. IsPrefix(ehead.recs, head'.recs)
    BY <2>1, PrefixTrans DEF ExporterInv
  <2>3. \A p \in priors : IsPrefix(p.recs, head'.recs)
    BY <2>1, PrefixTrans DEF ExporterInv
  <2> QED BY <2>1, <2>2, <2>3
<1> QED BY <1>0, <1>1 DEF ExporterInv

\* The exporter's own steps.
LEMMA ExporterSteps ==
    ASSUME CommandsInv, ExporterInv, ExporterStep
    PROVE  ExporterInv'
<1> USE SequenceTypes DEF ExporterInv
<1>0. UNCHANGED <<log, head>> /\ Intact' = Intact
  BY DEF ExporterStep, ExportReadHead, ExportRetry, ExportReadLog, ExportFirst, ExportKeep,
         vars, disk, counts, Intact
<1>1. IsPrefix(head.recs, head.recs) /\ \A s \in Seq(Record) : IsPrefix(<<>>, s)
  <2>1. <<>> \in Seq(Record) /\ Len(<<>>) = 0
    OBVIOUS
  <2> QED BY <2>1, PrefixRefl, PrefixEmpty
<1>2. Intact => ExportAgrees
  <2> SUFFICES ASSUME Intact PROVE ExportAgrees
    OBVIOUS
  <2>1. IsPrefix(ehead.recs, log)
    BY PrefixTrans DEF CommandsInv, StoreInv, StoreBody
  <2> QED BY <2>1, PrefixCut DEF ExportAgrees, IsPrefix
<1>3. CASE ExportReadHead
  BY <1>0, <1>1, <1>3 DEF ExportReadHead
<1>4. CASE ExportRetry
  BY <1>0, <1>2, <1>4 DEF ExportRetry
<1>5. CASE ExportReadLog
  BY <1>0, <1>5 DEF ExportReadLog, ExportFirst, ExportAgrees
<1>6. CASE ExportKeep
  <2>1. epc' = "idle" /\ ehead'.recs = <<>> /\ priors' = priors \cup {ehead}
    BY <1>6 DEF ExportKeep, NoHead
  <2> QED BY <1>0, <1>1, <2>1
<1> QED BY <1>3, <1>4, <1>5, <1>6 DEF ExporterStep

\* ExporterInv is an invariant.
LEMMA ExporterInvariant ==
    ASSUME ~ BesideDaemon
    PROVE  CommandsSpec => []ExporterInv
<1>1. CommandsInit => ExporterInv
  <2> SUFFICES ASSUME CommandsInit PROVE ExporterInv
    OBVIOUS
  <2>1. head.recs \in Seq(Record) /\ <<>> \in Seq(Record) /\ Len(<<>>) = 0
    BY TypeInvInit DEF CommandsInit, ReadersInit, TypeInv, TypeOK, TreeHead
  <2>2. IsPrefix(<<>>, head.recs)
    BY <2>1, PrefixEmpty
  <2> QED BY <2>2 DEF CommandsInit, ReadersInit, NoHead, ExporterInv
<1>2. CommandsInv /\ ExporterInv /\ [CommandsNext]_commandVars => ExporterInv'
  BY CommandsStep, ExporterUndisturbed, ExporterSteps DEF commandVars
<1> QED BY <1>1, <1>2, CommandsInvariant, PTL DEF CommandsSpec

\* Beside a daemon that appends, dies and recovers, a verifier that found a head
\* never reports a mismatch or a short log and an export never gives up, however
\* few attempts they have.
THEOREM ReadersAlwaysSucceed ==
    ASSUME ~ BesideDaemon
    PROVE  CommandsSpec => []ReadersNeverFail
<1>1. VerifierInv /\ ExporterInv => ReadersNeverFail
  BY DEF VerifierInv, ExporterInv, ReadersNeverFail
<1> QED BY <1>1, VerifierInvariant, ExporterInvariant, PTL

\* SeqExact holds initially and is kept by every step.
LEMMA SeqExactStep ==
    ASSUME CommandsInv, SeqExact, ~ BesideDaemon, [CommandsNext]_commandVars
    PROVE  SeqExact'
<1> USE SequenceTypes DEF disk, memory, counts
<1>0. TypeOK /\ faults \in [FaultKinds -> Nat] /\ TypeInv
  BY DEF CommandsInv, TypeInv, TypeOK
<1> DEFINE Exact(recs) == \A i \in 1 .. Len(recs) : recs[i].seq = i
<1>1. ASSUME faults' = faults \/ Fault("head"), faults'["seal"] + faults'["short"] = 0
      PROVE  faults["seal"] + faults["short"] = 0 /\ Intact
  <2>1. faults["seal"] \in Nat /\ faults["short"] \in Nat
    BY <1>0 DEF FaultKinds
  <2>2. faults'["seal"] = faults["seal"] /\ faults'["short"] = faults["short"]
    BY <1>0, <1>1 DEF Fault, FaultKinds
  <2> QED BY <1>1, <2>1, <2>2 DEF Intact
<1>2. ASSUME Fault("seal") \/ Fault("short") PROVE faults'["seal"] + faults'["short"] # 0
  <2>1. faults["seal"] \in Nat /\ faults["short"] \in Nat
    BY <1>0 DEF FaultKinds
  <2>2. CASE Fault("seal")
    <3>1. faults'["seal"] = faults["seal"] + 1 /\ faults'["short"] = faults["short"]
      BY <1>0, <2>2 DEF Fault, FaultKinds
    <3> QED BY <2>1, <3>1
  <2>3. CASE Fault("short")
    <3>1. faults'["seal"] = faults["seal"] /\ faults'["short"] = faults["short"] + 1
      BY <1>0, <2>3 DEF Fault, FaultKinds
    <3> QED BY <2>1, <3>1
  <2> QED BY <1>2, <2>2, <2>3
<1>3. ASSUME NEW recs \in Seq(Record), Exact(recs), LoadStore(recs) PROVE seq' = Len(recs)
  <2>1. CASE recs = <<>>
    BY <1>3, <2>1 DEF LoadStore
  <2>2. CASE recs # <<>>
    <3>1. Len(recs) \in 1 .. Len(recs)
      BY <2>2
    <3>2. seq' = recs[Len(recs)].seq
      BY <1>3, <2>2 DEF LoadStore, Last
    <3> QED BY <1>3, <3>1, <3>2
  <2> QED BY <2>1, <2>2
<1>4. CASE [Next]_vars
  <2> SUFFICES ASSUME faults'["seal"] + faults'["short"] = 0
               PROVE  Exact(log') /\ (pc' \in {"up", "framed"} => seq' = Len(log'))
    BY DEF SeqExact
  <2>0. ~ SealFails /\ ~ ShortWrite
    BY <1>2 DEF SealFails, ShortWrite
  <2>1. /\ faults["seal"] + faults["short"] = 0 /\ StoreBody
        /\ Exact(log) /\ (pc \in {"up", "framed"} => seq = Len(log))
    <3>1. faults' = faults \/ Fault("head")
      BY <1>4, <2>0 DEF Next, vars, Open, QuarantineCopy, CopyBehind, QuarantineTruncate,
                        TruncateBehind, AppendFrame, WriteTreeHead, HeadFails, Crash, Close
    <3> QED BY <1>1, <3>1 DEF SeqExact, CommandsInv, StoreInv
  <2>2. ASSUME NEW s \in Signers, Open(s)
        PROVE  Exact(log') /\ (pc' \in {"up", "framed"} => seq' = Len(log'))
    <3>1. log' = log /\ pc' # "framed" /\ (pc' = "up" => LoadStore(log))
      BY <2>2 DEF Open
    <3> QED BY <1>3, <2>1, <3>1
  <2>3. CASE QuarantineTruncate
    <3> DEFINE cut == Committed(head, log)
    <3>1. log' = SubSeq(log, 1, cut) /\ LoadStore(log') /\ cut \in 0 .. Len(log)
      BY <1>0, <2>3, CommittedBound DEF QuarantineTruncate, TruncateBehind, TypeOK
    <3>2. /\ log' \in Seq(Record) /\ Len(log') = cut
          /\ \A i \in 1 .. cut : log'[i] = log[i]
      BY <3>1
    <3>3. Exact(log')
      BY <2>1, <3>1, <3>2
    <3> QED BY <1>3, <3>1, <3>2, <3>3
  <2>4. CASE AppendFrame
    <3>1. log' = Append(log, NewRecord) /\ seq' = seq + 1 /\ seq = Len(log)
      BY <2>1, <2>4 DEF AppendFrame, StoreBody
    <3>2. NewRecord.seq = Len(log) + 1
      BY <3>1 DEF NewRecord
    <3>3. /\ Len(log') = Len(log) + 1 /\ log'[Len(log) + 1] = NewRecord
          /\ \A i \in 1 .. Len(log) : log'[i] = log[i]
      BY <3>1
    <3> QED BY <2>1, <3>1, <3>2, <3>3
  <2>5. CASE QuarantineCopy \/ WriteTreeHead \/ HeadFails
    BY <2>1, <2>5 DEF QuarantineCopy, CopyBehind, WriteTreeHead, HeadFails
  <2>6. CASE Crash \/ Close
    BY <2>1, <2>6 DEF Crash, Close, ProcessGone
  <2>7. CASE UNCHANGED vars
    BY <2>1, <2>7 DEF vars
  <2> QED BY <1>4, <2>0, <2>2, <2>3, <2>4, <2>5, <2>6, <2>7 DEF Next
<1>5. CASE StatusStep
  <2>1. CASE UNCHANGED <<log, faults, pc, seq>>
    BY <2>1 DEF SeqExact
  <2>2. CASE /\ log' = SubSeq(log, 1, Committed(head, log)) /\ UNCHANGED <<faults, pc, seq>>
             /\ spc = "copied"
    <3>1. Committed(head, log) \in 0 .. Len(log)
      BY <1>0, CommittedBound DEF TypeOK
    <3>2. Len(log') <= Len(log) /\ \A i \in 1 .. Len(log') : log'[i] = log[i]
      BY <2>2, <3>1
    <3>3. Len(log') \in Nat /\ Len(log) \in Nat
      BY <2>2, <3>1
    <3>4. Exact(log) => Exact(log')
      BY <3>2, <3>3
    <3> QED BY <2>2, <3>4 DEF SeqExact, CommandsInv, StatusInv
  <2> QED BY <1>5, <2>1, <2>2, StatusDisk DEF vars
<1>6. CASE UNCHANGED vars
  BY <1>6 DEF vars, SeqExact
<1> QED BY <1>4, <1>5, <1>6, CommandsStep DEF commandVars

\* An export passes VerifyExport, whatever was exported before it, unless an Append
\* failed before its frame was whole, a head is unsigned or a prior is empty.
THEOREM ExportAlwaysVerifies ==
    ASSUME ~ BesideDaemon
    PROVE  CommandsSpec => []ExportVerifies
<1>1. CommandsInit => SeqExact
  BY DEF CommandsInit, ReadersInit, Init, SeqExact, Genesis
<1>2. CommandsInv /\ SeqExact /\ [CommandsNext]_commandVars => SeqExact'
  BY SeqExactStep
<1>3. CommandsInv /\ ExporterInv /\ SeqExact => ExportVerifies
  <2> SUFFICES ASSUME CommandsInv, ExporterInv, SeqExact,
                      epc = "done", faults["seal"] + faults["short"] = 0,
                      \A p \in priors : p.recs # <<>>,
                      \A h \in priors \cup {ehead} : SignedBy(h, Keys)
               PROVE  VerifyExport(ehead, erecs, Keys, priors)
    BY DEF ExportVerifies
  <2> USE SequenceTypes
  <2>1. Intact
    <3>1. faults["seal"] \in Nat /\ faults["short"] \in Nat
      BY DEF CommandsInv, TypeInv, TypeOK, FaultKinds
    <3> QED BY <3>1 DEF Intact
  <2>2. erecs = ehead.recs
    BY DEF ExporterInv
  <2>3. IsPrefix(erecs, log)
    BY <2>1, <2>2, PrefixTrans DEF ExporterInv, CommandsInv, StoreInv, StoreBody
  <2>4. \A i \in 1 .. Len(erecs) : erecs[i].seq = i
    <3>1. Len(erecs) <= Len(log) /\ \A i \in 1 .. Len(erecs) : erecs[i] = log[i]
      BY <2>3, PrefixElements
    <3>2. \A i \in 1 .. Len(log) : log[i].seq = i
      BY DEF SeqExact
    <3>3. Len(erecs) \in Nat /\ Len(log) \in Nat
      OBVIOUS
    <3>4. 1 .. Len(erecs) \subseteq 1 .. Len(log)
      BY <3>1, <3>3
    <3> QED BY <3>1, <3>2, <3>4
  <2>5. ASSUME NEW e \in ToSet(erecs) PROVE e.seq \in 1 .. Len(erecs) /\ erecs[e.seq] = e
    <3>1. PICK i \in 1 .. Len(erecs) : e = erecs[i]
      BY DEF ToSet
    <3> QED BY <2>4, <3>1
  <2>6. ASSUME NEW p \in priors
        PROVE  Len(p.recs) <= Len(erecs) /\ SubSeq(erecs, 1, Len(p.recs)) = p.recs
    <3>1. IsPrefix(p.recs, erecs)
      BY <2>1, <2>2 DEF ExporterInv
    <3> QED BY <3>1, PrefixCut, PrefixElements
  <2> QED BY <2>2, <2>5, <2>6 DEF VerifyExport
<1> QED BY <1>1, <1>2, <1>3, CommandsInvariant, ExporterInvariant, PTL DEF CommandsSpec

-----------------------------------------------------------------------------
(* The enforcer: the inductive invariant, part by part.                     *)

\* The reader's variables keep their types.
ReaderType ==
    /\ entries \in Seq(Record) /\ events \in Seq(Record) /\ delivered \in Seq(Record)
    /\ lastSeq \in Nat

\* Delivered events and the channel, read one after the other, grow strictly in
\* Seq, and lastSeq has reached all of them.
OrderInv ==
    /\ DeliveredInOrder
    /\ \A i, j \in DOMAIN events : i < j => events[i].seq < events[j].seq
    /\ \A i \in DOMAIN delivered, j \in DOMAIN events : delivered[i].seq < events[j].seq
    /\ \A i \in DOMAIN delivered : delivered[i].seq <= lastSeq
    /\ \A i \in DOMAIN events : events[i].seq <= lastSeq

\* What the head covers and the daemon holds is on the disk; what is buried behind
\* junk there is newer than the readable log, and never read.
HeldInv ==
    /\ junk = "none" => buried = {}
    /\ \A r \in buried : r.seq > 0 /\ \A i \in DOMAIN log : log[i].seq < r.seq
    /\ quarantine = {} => ToSet(head.recs) \cup ToSet(leaves) \subseteq ToSet(log) \cup buried

\* The records the event loop has received or will.
Taken == ToSet(delivered) \cup ToSet(events)

\* The poll has taken every record of the log up to lastSeq, and is somewhere in a
\* stretch of the log before which it has left nothing.
PollBody ==
    /\ lastSeq = 0 \/ \E i \in DOMAIN log : lastSeq <= log[i].seq
    /\ \A i \in DOMAIN log : log[i].seq <= lastSeq => log[i] \in Taken
    /\ \E k \in 0 .. Len(log) :
         /\ k + Len(entries) <= Len(log)
         /\ \A i \in 1 .. Len(entries) : entries[i] = log[k + i]
         /\ \A j \in 1 .. k : log[j].seq <= lastSeq

\* So it is as long as no recovery has cut a record off.
PollInv == quarantine = {} => PollBody

\* The conjunction is inductive.
EnforcerInv ==
    TypeInv /\ KeptInv /\ SeqInv /\ ReaderType /\ OrderInv /\ HeldInv /\ PollInv

-----------------------------------------------------------------------------
(* The enforcer beside the daemon's steps.                                  *)

\* As long as no record is in a crash-tail file, the log only grows, record by record.
LEMMA LogOnlyGrows ==
    ASSUME TypeInv, KeptInv, [Next]_vars, quarantine' = {}
    PROVE  /\ quarantine = {}
           /\ log' = log \/ (AppendFrame /\ log' = Append(log, NewRecord))
           /\ QuarantineTruncate => buried = {}
<1> USE DEF disk
<1>0. log \in Seq(Record) /\ Committed(head, log) \in 0 .. Len(log)
  BY CommittedBound DEF TypeInv, TypeOK
<1>1. CASE QuarantineTruncate
  <2>1. /\ quarantine = {} /\ pc = "copied"
        /\ log' = SubSeq(log, 1, Committed(head, log))
    BY <1>1 DEF QuarantineTruncate, TruncateBehind
  <2>2. buried = {} /\ \A i \in (Committed(head, log) + 1) .. Len(log) : FALSE
    BY <2>1 DEF KeptInv
  <2>3. Committed(head, log) = Len(log)
    BY <1>0, <2>2
  <2> QED BY <1>0, <2>1, <2>2, <2>3, WholeCut
<1>2. CASE AppendFrame
  BY <1>2 DEF AppendFrame, QuarantineTruncate, TruncateBehind
<1>3. CASE QuarantineCopy
  BY <1>3 DEF QuarantineCopy, CopyBehind, QuarantineTruncate, TruncateBehind
<1>4. CASE ~ QuarantineTruncate /\ ~ AppendFrame /\ ~ QuarantineCopy
  BY <1>4 DEF Next, vars, Open, WriteTreeHead, SealFails, ShortWrite, HeadFails, Crash,
     Close
<1> QED BY <1>1, <1>2, <1>3, <1>4

\* A new record's Seq is above every Seq in the log.
LEMMA NewSeq ==
    ASSUME TypeInv, SeqInv, pc = "up"
    PROVE  /\ NewRecord \in Record /\ NewRecord.seq \in Nat /\ NewRecord.seq > 0
           /\ \A i \in DOMAIN log : log[i].seq \in Nat /\ log[i].seq < NewRecord.seq
<1>1. seq \in Nat /\ written \in Nat /\ log \in Seq(Record)
  BY DEF TypeInv, TypeOK
<1>2. NewRecord \in Record /\ NewRecord.seq = seq + 1
  BY <1>1 DEF NewRecord, Record
<1>3. \A i \in DOMAIN log : log[i].seq \in Nat /\ log[i].seq <= seq
  BY <1>1, SeqType DEF SeqInv
<1> QED BY <1>1, <1>2, <1>3

\* The daemon's steps keep HeldInv.
LEMMA HeldStep ==
    ASSUME TypeInv, KeptInv, SeqInv, HeldInv, [Next]_vars
    PROVE  HeldInv'
<1> USE DEF HeldInv, disk, memory
<1>0. log \in Seq(Record) /\ leaves \in Seq(Record) /\ ToSet(<<>>) = {}
  BY DEF TypeInv, TypeOK, ToSet
<1>1. ASSUME NEW s \in Signers, Open(s) PROVE HeldInv'
  BY <1>1 DEF Open, LoadStore
<1>2. CASE QuarantineCopy
  BY <1>2 DEF QuarantineCopy, CopyBehind
<1>3. CASE QuarantineTruncate
  <2>1. quarantine' = quarantine /\ buried' = {} /\ leaves' = log' /\ head' = head
    BY <1>3 DEF QuarantineTruncate, TruncateBehind, LoadStore
  <2>2. quarantine' = {} => log' = log /\ buried = {}
    <3>1. ~ AppendFrame
      BY <1>3 DEF QuarantineTruncate, TruncateBehind, AppendFrame
    <3> QED BY <1>3, <3>1, LogOnlyGrows
  <2> QED BY <2>1, <2>2
<1>4. CASE AppendFrame
  <2>1. pc = "up"
    BY <1>4 DEF AppendFrame
  <2>2. /\ NewRecord \in Record /\ NewRecord.seq > 0
        /\ \A i \in DOMAIN log : log[i].seq < NewRecord.seq
    BY <2>1, NewSeq
  <2>3. leaves' = Append(leaves, NewRecord) /\ UNCHANGED <<head, quarantine>>
    BY <1>4 DEF AppendFrame
  <2>4. ToSet(leaves') = ToSet(leaves) \cup {NewRecord}
    BY <1>0, <2>2, <2>3 DEF ToSet
  <2>5. CASE junk = "none"
    <3>1. log' = Append(log, NewRecord) /\ UNCHANGED <<junk, buried>> /\ buried = {}
      BY <1>4, <2>5 DEF AppendFrame
    <3>2. ToSet(log') = ToSet(log) \cup {NewRecord}
      BY <1>0, <2>2, <3>1 DEF ToSet
    <3> QED BY <2>3, <2>4, <3>1, <3>2
  <2>6. CASE junk # "none"
    <3>1. log' = log /\ buried' = buried \cup {NewRecord} /\ junk' # "none"
      BY <1>4, <2>6 DEF AppendFrame, JunkAfterWrite
    <3> QED BY <2>2, <2>3, <2>4, <3>1
  <2> QED BY <2>5, <2>6
<1>5. CASE WriteTreeHead
  BY <1>5 DEF WriteTreeHead
<1>6. CASE SealFails \/ HeadFails
  BY <1>6 DEF SealFails, HeadFails
<1>7. CASE ShortWrite
  BY <1>7 DEF ShortWrite, JunkAfterTornWrite, JunkAfterWrite
<1>8. CASE Crash
  BY <1>0, <1>8 DEF Crash, ProcessGone, JunkAfterTornWrite, JunkAfterWrite
<1>9. CASE Close
  BY <1>0, <1>9 DEF Close, ProcessGone
<1>10. CASE UNCHANGED vars
  BY <1>10 DEF vars
<1> QED BY <1>1, <1>2, <1>3, <1>4, <1>5, <1>6, <1>7, <1>8, <1>9, <1>10 DEF Next

\* A record the daemon adds is ahead of lastSeq, so that the reader has not missed it.
LEMMA PollKeptByDaemon ==
    ASSUME EnforcerInv, [Next]_vars, UNCHANGED pollVars
    PROVE  PollInv'
<1> SUFFICES ASSUME quarantine' = {} PROVE PollBody'
  BY DEF PollInv
<1> USE DEF EnforcerInv
<1>0. /\ PollBody /\ UNCHANGED <<entries, lastSeq, events, delivered>>
      /\ log \in Seq(Record) /\ entries \in Seq(Record) /\ lastSeq \in Nat
  BY LogOnlyGrows DEF PollInv, pollVars, TypeInv, TypeOK, ReaderType
<1>1. CASE log' = log
  BY <1>0, <1>1 DEF PollBody, Taken
<1>2. CASE AppendFrame /\ log' = Append(log, NewRecord)
  <2>1. /\ NewRecord \in Record /\ NewRecord.seq \in Nat /\ NewRecord.seq > 0
        /\ \A i \in DOMAIN log : log[i].seq \in Nat /\ log[i].seq < NewRecord.seq
    BY <1>2, NewSeq DEF AppendFrame
  <2>2. NewRecord.seq > lastSeq
    BY <1>0, <2>1 DEF PollBody
  <2>3. /\ Len(log) \in Nat /\ Len(log') = Len(log) + 1 /\ log'[Len(log) + 1] = NewRecord
        /\ DOMAIN log = 1 .. Len(log) /\ DOMAIN log' = 1 .. Len(log) + 1
        /\ \A i \in 1 .. Len(log) : log'[i] = log[i]
    BY <1>0, <1>2, <2>1
  <2>4. lastSeq = 0 \/ \E i \in DOMAIN log' : lastSeq <= log'[i].seq
    BY <1>0, <2>1, <2>2, <2>3
  <2>5. ASSUME NEW i \in DOMAIN log', log'[i].seq <= lastSeq PROVE log'[i] \in Taken
    <3>1. i # Len(log) + 1
      BY <1>0, <2>1, <2>2, <2>3, <2>5
    <3> QED BY <1>0, <2>3, <2>5, <3>1 DEF PollBody
  <2>6. \E k \in 0 .. Len(log') :
           /\ k + Len(entries) <= Len(log')
           /\ \A i \in 1 .. Len(entries) : entries[i] = log'[k + i]
           /\ \A j \in 1 .. k : log'[j].seq <= lastSeq
    <3>1. PICK k \in 0 .. Len(log) :
             /\ k + Len(entries) <= Len(log)
             /\ \A i \in 1 .. Len(entries) : entries[i] = log[k + i]
             /\ \A j \in 1 .. k : log[j].seq <= lastSeq
      BY <1>0 DEF PollBody
    <3>2. k \in 0 .. Len(log') /\ k + Len(entries) <= Len(log')
      BY <1>0, <2>3, <3>1
    <3>3. \A i \in 1 .. Len(entries) : entries[i] = log'[k + i]
      BY <1>0, <2>3, <3>1
    <3>4. \A j \in 1 .. k : log'[j].seq <= lastSeq
      BY <2>3, <3>1
    <3> QED BY <3>2, <3>3, <3>4
  <2> QED BY <1>0, <2>4, <2>5, <2>6 DEF PollBody, Taken
<1> QED BY <1>1, <1>2, LogOnlyGrows

-----------------------------------------------------------------------------
(* The reader's steps.                                                      *)

\* The head of a queue and what follows it.
LEMMA QueueFacts ==
    ASSUME NEW S, NEW q \in Seq(S), q # <<>>
    PROVE  /\ Head(q) = q[1] /\ Head(q) \in S /\ 1 \in DOMAIN q
           /\ Tail(q) \in Seq(S) /\ Len(Tail(q)) = Len(q) - 1 /\ Len(q) \in Nat \ {0}
           /\ \A i \in DOMAIN Tail(q) : Tail(q)[i] = q[i + 1] /\ i + 1 \in DOMAIN q /\ i \in Nat
           /\ ToSet(q) = {Head(q)} \cup ToSet(Tail(q))
<1>1. /\ Head(q) = q[1] /\ Head(q) \in S /\ 1 \in DOMAIN q
      /\ Tail(q) \in Seq(S) /\ Len(Tail(q)) = Len(q) - 1 /\ Len(q) \in Nat \ {0}
      /\ DOMAIN q = 1 .. Len(q) /\ DOMAIN Tail(q) = 1 .. Len(q) - 1
      /\ \A i \in DOMAIN Tail(q) : Tail(q)[i] = q[i + 1]
  OBVIOUS
<1>2. \A i \in DOMAIN Tail(q) : i + 1 \in DOMAIN q /\ i \in Nat
  BY <1>1
<1>3. ASSUME NEW x \in ToSet(q) PROVE x \in {Head(q)} \cup ToSet(Tail(q))
  <2>1. PICK i \in 1 .. Len(q) : x = q[i]
    BY <1>1 DEF ToSet
  <2>2. CASE i = 1
    BY <1>1, <2>1, <2>2
  <2>3. CASE i # 1
    <3>1. i - 1 \in DOMAIN Tail(q) /\ (i - 1) + 1 = i
      BY <1>1, <2>3
    <3>2. Tail(q)[i - 1] = q[i]
      BY <1>1, <3>1
    <3> QED BY <2>1, <3>1, <3>2 DEF ToSet
  <2> QED BY <2>2, <2>3
<1>4. {Head(q)} \cup ToSet(Tail(q)) \subseteq ToSet(q)
  BY <1>1, <1>2 DEF ToSet
<1> QED BY <1>1, <1>2, <1>3, <1>4

\* What is appended joins the elements.
LEMMA AppendSet ==
    ASSUME NEW S, NEW q \in Seq(S), NEW x \in S
    PROVE  ToSet(Append(q, x)) = ToSet(q) \cup {x}
<1> DEFINE longer == Append(q, x)
<1>1. /\ DOMAIN longer = 1 .. Len(q) + 1 /\ DOMAIN q = 1 .. Len(q) /\ Len(q) \in Nat
      /\ longer[Len(q) + 1] = x /\ \A i \in 1 .. Len(q) : longer[i] = q[i]
  OBVIOUS
<1> HIDE DEF longer
<1>2. ToSet(longer) = ToSet(q) \cup {x}
  <2>1. \A i \in DOMAIN longer : i \in DOMAIN q \/ i = Len(q) + 1
    BY <1>1
  <2>2. DOMAIN q \subseteq DOMAIN longer /\ Len(q) + 1 \in DOMAIN longer
    BY <1>1
  <2> QED BY <1>1, <2>1, <2>2 DEF ToSet
<1> QED BY <1>2 DEF longer

\* The record the poll looks at next.
LEMMA NextEntry ==
    ASSUME ReaderType, entries # <<>>
    PROVE  Head(entries) \in Record /\ Head(entries).seq \in Nat /\ lastSeq \in Nat
<1>1. Head(entries) \in Record /\ lastSeq \in Nat
  BY QueueFacts DEF ReaderType
<1> QED BY <1>1 DEF Record

\* The reader keeps its types.
LEMMA ReaderTypeStep ==
    ASSUME EnforcerInv, [EnforcerNext]_enforcerVars
    PROVE  ReaderType'
<1> USE DEF EnforcerInv, ReaderType
<1>1. CASE UNCHANGED pollVars
  BY <1>1 DEF pollVars
<1>2. CASE PollRead
  BY <1>2 DEF PollRead, TypeInv, TypeOK
<1>3. CASE PollSkip
  BY <1>3, QueueFacts DEF PollSkip
<1>4. CASE PollDeliver
  <2>1. Head(entries) \in Record /\ Tail(entries) \in Seq(Record)
    BY <1>4, QueueFacts DEF PollDeliver
  <2>2. Append(events, Head(entries)) \in Seq(Record) /\ Head(entries).seq \in Nat
    BY <2>1 DEF Record
  <2> QED BY <1>4, <2>1, <2>2 DEF PollDeliver
<1>5. CASE PollCongested
  <2>1. Head(entries).seq \in Nat /\ Head(entries).seq > lastSeq
    BY <1>5, NextEntry DEF PollCongested, GiveUp
  <2>2. lastSeq' = Head(entries).seq - 1 /\ entries' = <<>> /\ UNCHANGED <<events, delivered>>
    BY <1>5 DEF PollCongested, GiveUp
  <2>3. lastSeq' \in Nat
    BY <2>1, <2>2
  <2> QED BY <2>2, <2>3
<1>6. CASE Consume
  <2>1. Head(events) \in Record /\ Tail(events) \in Seq(Record)
    BY <1>6, QueueFacts DEF Consume
  <2>2. Append(delivered, Head(events)) \in Seq(Record)
    BY <2>1
  <2> QED BY <1>6, <2>1, <2>2 DEF Consume
<1> QED BY <1>1, <1>2, <1>3, <1>4, <1>5, <1>6 DEF EnforcerNext, enforcerVars

\* Only records above lastSeq join the channel, and they leave it in order.
LEMMA OrderStep ==
    ASSUME EnforcerInv, [EnforcerNext]_enforcerVars
    PROVE  OrderInv'
<1> USE DEF EnforcerInv
<1>0. /\ entries \in Seq(Record) /\ events \in Seq(Record) /\ delivered \in Seq(Record)
      /\ lastSeq \in Nat
      /\ \A i \in DOMAIN events : events[i].seq \in Nat
      /\ \A i \in DOMAIN delivered : delivered[i].seq \in Nat
  BY SeqType DEF ReaderType
<1>1. CASE UNCHANGED <<lastSeq, events, delivered>>
  BY <1>1 DEF OrderInv, DeliveredInOrder
<1>2. CASE PollDeliver
  <2> DEFINE e == Head(entries)
  <2>1. /\ e \in Record /\ e.seq \in Nat /\ e.seq > lastSeq /\ lastSeq' = e.seq
        /\ events' = Append(events, e) /\ delivered' = delivered
    BY <1>2, NextEntry DEF PollDeliver
  <2> HIDE DEF e
  <2>2. /\ DOMAIN events' = 1 .. Len(events) + 1 /\ DOMAIN events = 1 .. Len(events)
        /\ Len(events) \in Nat /\ events'[Len(events) + 1] = e
        /\ \A i \in DOMAIN events : events'[i] = events[i]
    BY <1>0, <2>1
  <2>3. \A i \in DOMAIN events : events[i].seq < e.seq
    BY <1>0, <2>1 DEF OrderInv
  <2>4. \A i \in DOMAIN delivered : delivered[i].seq < e.seq
    BY <1>0, <2>1 DEF OrderInv
  <2>5. ASSUME NEW i \in DOMAIN events', NEW j \in DOMAIN events', i < j
        PROVE  events'[i].seq < events'[j].seq
    <3>1. CASE j = Len(events) + 1
      <4>1. i \in DOMAIN events
        BY <2>2, <2>5, <3>1
      <4> QED BY <2>2, <2>3, <3>1, <4>1
    <3>2. CASE j # Len(events) + 1
      <4>1. i \in DOMAIN events /\ j \in DOMAIN events
        BY <2>2, <2>5, <3>2
      <4> QED BY <2>2, <2>5, <4>1 DEF OrderInv
    <3> QED BY <3>1, <3>2
  <2>6. \A j \in DOMAIN events' : j \in DOMAIN events \/ j = Len(events) + 1
    BY <2>2
  <2>7. \A i \in DOMAIN delivered, j \in DOMAIN events' : delivered[i].seq < events'[j].seq
    BY <2>2, <2>4, <2>6 DEF OrderInv
  <2>8. \A j \in DOMAIN events' : events'[j].seq <= lastSeq'
    BY <1>0, <2>1, <2>2, <2>3, <2>6
  <2>9. \A i \in DOMAIN delivered : delivered[i].seq <= lastSeq'
    BY <1>0, <2>1, <2>4
  <2> QED BY <2>1, <2>5, <2>7, <2>8, <2>9 DEF OrderInv, DeliveredInOrder
<1>3. CASE PollCongested
  <2>1. Head(entries).seq \in Nat /\ Head(entries).seq > lastSeq
    BY <1>3, NextEntry DEF PollCongested, GiveUp
  <2>2. lastSeq' = Head(entries).seq - 1 /\ UNCHANGED <<events, delivered>>
    BY <1>3 DEF PollCongested, GiveUp
  <2>3. lastSeq' >= lastSeq /\ lastSeq' \in Nat
    BY <1>0, <2>1, <2>2
  <2> QED BY <1>0, <2>2, <2>3 DEF OrderInv, DeliveredInOrder
<1>4. CASE Consume
  <2> DEFINE e == events[1]
  <2>1. /\ events # <<>> /\ delivered' = Append(delivered, e) /\ events' = Tail(events)
        /\ lastSeq' = lastSeq /\ 1 \in DOMAIN events /\ e \in Record
    BY <1>0, <1>4, QueueFacts DEF Consume
  <2>2. \A i \in DOMAIN events' : /\ events'[i] = events[i + 1]
                                  /\ i + 1 \in DOMAIN events /\ i \in Nat /\ i >= 1
    BY <1>0, <2>1, QueueFacts
  <2>3. /\ DOMAIN delivered' = 1 .. Len(delivered) + 1 /\ DOMAIN delivered = 1 .. Len(delivered)
        /\ Len(delivered) \in Nat /\ delivered'[Len(delivered) + 1] = e
        /\ \A i \in DOMAIN delivered : delivered'[i] = delivered[i]
    BY <1>0, <2>1
  <2>4. \A i \in DOMAIN delivered' : i \in DOMAIN delivered \/ i = Len(delivered) + 1
    BY <2>3
  <2> HIDE DEF e
  <2>5. \A i \in DOMAIN delivered : delivered[i].seq < e.seq
    BY <2>1 DEF OrderInv, e
  <2>6. \A j \in DOMAIN events' : e.seq < events'[j].seq
    BY <2>1, <2>2 DEF OrderInv, e
  <2>7. ASSUME NEW i \in DOMAIN delivered', NEW j \in DOMAIN delivered', i < j
        PROVE  delivered'[i].seq < delivered'[j].seq
    <3>1. CASE j = Len(delivered) + 1
      <4>1. i \in DOMAIN delivered
        BY <2>3, <2>7, <3>1
      <4> QED BY <2>3, <2>5, <3>1, <4>1
    <3>2. CASE j # Len(delivered) + 1
      <4>1. i \in DOMAIN delivered /\ j \in DOMAIN delivered
        BY <2>3, <2>7, <3>2
      <4> QED BY <2>3, <2>7, <4>1 DEF OrderInv, DeliveredInOrder
    <3> QED BY <3>1, <3>2
  <2>8. \A i, j \in DOMAIN events' : i < j => events'[i].seq < events'[j].seq
    BY <2>2 DEF OrderInv
  <2>9. \A i \in DOMAIN delivered', j \in DOMAIN events' : delivered'[i].seq < events'[j].seq
    BY <2>2, <2>3, <2>4, <2>6 DEF OrderInv
  <2>10. \A i \in DOMAIN delivered' : delivered'[i].seq <= lastSeq'
    BY <2>1, <2>3, <2>4 DEF OrderInv, e
  <2>11. \A i \in DOMAIN events' : events'[i].seq <= lastSeq'
    BY <2>1, <2>2 DEF OrderInv
  <2> QED BY <2>7, <2>8, <2>9, <2>10, <2>11 DEF OrderInv, DeliveredInOrder
<1> QED BY <1>1, <1>2, <1>3, <1>4
        DEF EnforcerNext, enforcerVars, pollVars, PollRead, PollSkip

\* Going through a stretch of the log in order, the poll leaves out nothing: below
\* the record it looks at there are only records it has taken.
LEMMA PollStep ==
    ASSUME EnforcerInv, PollRead \/ PollSkip \/ PollDeliver \/ PollCongested \/ Consume
    PROVE  PollInv'
<1> USE DEF EnforcerInv
<1>0. UNCHANGED <<log, quarantine>>
  BY DEF PollRead, PollSkip, PollDeliver, PollCongested, GiveUp, Consume, vars, disk
<1> SUFFICES ASSUME PollBody PROVE PollBody'
  BY <1>0 DEF PollInv
<1>1. /\ log \in Seq(Record) /\ entries \in Seq(Record) /\ lastSeq \in Nat
      /\ events \in Seq(Record) /\ delivered \in Seq(Record)
      /\ Len(log) \in Nat /\ DOMAIN log = 1 .. Len(log)
      /\ \A i \in DOMAIN log : log[i].seq \in Nat
  BY SeqType DEF TypeInv, TypeOK, ReaderType
<1>2. PICK k \in 0 .. Len(log) :
         /\ k + Len(entries) <= Len(log)
         /\ \A i \in 1 .. Len(entries) : entries[i] = log[k + i]
         /\ \A j \in 1 .. k : log[j].seq <= lastSeq
  BY DEF PollBody
<1> DEFINE Stretch(es, last) ==
        \E m \in 0 .. Len(log) : /\ m + Len(es) <= Len(log)
                                 /\ \A i \in 1 .. Len(es) : es[i] = log[m + i]
                                 /\ \A j \in 1 .. m : log[j].seq <= last
<1>3. Stretch(<<>>, lastSeq') /\ Stretch(log, lastSeq)
  <2>1. 0 \in 0 .. Len(log) /\ 0 + Len(<<>>) <= Len(log) /\ 0 + Len(log) <= Len(log)
    BY <1>1
  <2>2. \A i \in 1 .. Len(log) : 0 + i = i
    BY <1>1
  <2>3. (\A i \in 1 .. Len(<<>>) : FALSE) /\ \A j \in 1 .. 0 : FALSE
    OBVIOUS
  <2> QED BY <2>1, <2>2, <2>3
<1>4. ASSUME entries # <<>>
      PROVE  /\ k + 1 \in DOMAIN log /\ log[k + 1] = Head(entries)
             /\ \A i \in DOMAIN log : log[i].seq < Head(entries).seq => log[i].seq <= lastSeq
             /\ \A i \in DOMAIN log : log[i].seq = Head(entries).seq => log[i] = Head(entries)
             /\ \A last \in Nat :
                    last >= lastSeq /\ last >= Head(entries).seq => Stretch(Tail(entries), last)
  <2>1. /\ Head(entries) = entries[1] /\ Len(entries) \in Nat \ {0}
        /\ Len(Tail(entries)) = Len(entries) - 1 /\ Tail(entries) \in Seq(Record)
    BY <1>1, <1>4, QueueFacts
  <2>2. k + 1 \in DOMAIN log /\ log[k + 1] = Head(entries)
    BY <1>1, <1>2, <2>1
  <2>3. ASSUME NEW i \in DOMAIN log
        PROVE  /\ log[i].seq < Head(entries).seq => log[i].seq <= lastSeq
               /\ log[i].seq = Head(entries).seq => log[i] = Head(entries)
    <3>0. /\ log[i].seq \in Nat /\ log[k + 1].seq \in Nat /\ i \in Nat /\ k \in Nat
          /\ \A m, n \in DOMAIN log : m < n => log[m].seq < log[n].seq
      <4>1. i \in Nat /\ k \in Nat
        BY <1>1, <1>2
      <4>2. log[i].seq \in Nat /\ log[k + 1].seq \in Nat
        BY <1>1, <2>2
      <4> QED BY <4>1, <4>2 DEF SeqInv, SeqIncreasing
    <3>1. CASE i < k + 1
      <4>1. i \in 1 .. k
        BY <1>1, <3>0, <3>1
      <4>2. log[i].seq <= lastSeq
        BY <1>2, <4>1
      <4>3. log[i].seq < log[k + 1].seq
        BY <2>2, <3>0, <3>1
      <4> QED BY <2>2, <3>0, <4>2, <4>3
    <3>2. CASE i = k + 1
      BY <2>2, <3>0, <3>2
    <3>3. CASE i > k + 1
      <4>1. log[k + 1].seq < log[i].seq
        BY <2>2, <3>0, <3>3
      <4> QED BY <2>2, <3>0, <4>1
    <3> QED BY <3>0, <3>1, <3>2, <3>3
  <2>4. ASSUME NEW last \in Nat, last >= lastSeq, last >= Head(entries).seq
        PROVE  Stretch(Tail(entries), last)
    <3>1. k + 1 \in 0 .. Len(log) /\ (k + 1) + Len(Tail(entries)) <= Len(log)
      BY <1>1, <1>2, <2>1, <2>2
    <3>2. ASSUME NEW i \in 1 .. Len(Tail(entries)) PROVE Tail(entries)[i] = log[(k + 1) + i]
      <4>1. Tail(entries)[i] = entries[i + 1] /\ i + 1 \in 1 .. Len(entries)
        BY <1>1, <1>4, <2>1
      <4>2. entries[i + 1] = log[k + (i + 1)] /\ k + (i + 1) = (k + 1) + i
        BY <1>2, <4>1
      <4> QED BY <4>1, <4>2
    <3>3. ASSUME NEW j \in 1 .. k + 1 PROVE log[j].seq <= last
      <4>1. j \in DOMAIN log /\ log[j].seq \in Nat
        BY <1>1, <1>2, <2>2
      <4>2. CASE j \in 1 .. k
        <5>1. log[j].seq <= lastSeq
          BY <1>2, <4>2
        <5> QED BY <1>1, <2>4, <4>1, <5>1
      <4>3. CASE j = k + 1
        BY <2>2, <2>4, <4>3
      <4> QED BY <1>2, <4>2, <4>3
    <3> QED BY <3>1, <3>2, <3>3
  <2> QED BY <2>2, <2>3, <2>4
<1> HIDE DEF Stretch
<1>5. CASE PollRead
  <2>1. entries' = log /\ UNCHANGED <<lastSeq, events, delivered>>
    BY <1>5 DEF PollRead
  <2> QED BY <1>0, <1>3, <2>1 DEF PollBody, Taken, Stretch
<1>6. CASE PollSkip
  <2>1. /\ entries # <<>> /\ Head(entries).seq <= lastSeq /\ entries' = Tail(entries)
        /\ UNCHANGED <<lastSeq, events, delivered>>
    BY <1>6 DEF PollSkip
  <2>2. lastSeq >= lastSeq /\ lastSeq >= Head(entries).seq
    BY <1>1, <2>1, NextEntry
  <2>3. Stretch(Tail(entries), lastSeq)
    BY <1>1, <1>4, <2>1, <2>2
  <2> QED BY <1>0, <2>1, <2>3 DEF PollBody, Taken, Stretch
<1>7. CASE PollDeliver
  <2> DEFINE e == Head(entries)
  <2>1. /\ entries # <<>> /\ e.seq > lastSeq /\ entries' = Tail(entries)
        /\ lastSeq' = e.seq /\ events' = Append(events, e) /\ delivered' = delivered
        /\ e \in Record /\ e.seq \in Nat
    BY <1>7, NextEntry DEF PollDeliver
  <2>2. Stretch(Tail(entries), e.seq)
    <3>1. e.seq >= lastSeq /\ e.seq >= Head(entries).seq
      BY <1>1, <2>1
    <3> QED BY <1>4, <2>1, <3>1
  <2>3. Taken' = Taken \cup {e}
    <3>1. ToSet(events') = ToSet(events) \cup {e}
      BY <1>1, <2>1, AppendSet
    <3> QED BY <2>1, <3>1 DEF Taken
  <2>4. \A i \in DOMAIN log : log[i].seq <= e.seq => log[i] \in Taken'
    BY <1>1, <1>4, <2>1, <2>3 DEF PollBody
  <2>5. \E i \in DOMAIN log : lastSeq' <= log[i].seq
    BY <1>4, <2>1
  <2> QED BY <1>0, <2>1, <2>2, <2>4, <2>5 DEF PollBody, Stretch
<1>8. CASE PollCongested
  <2> DEFINE e == Head(entries)
  <2>1. /\ entries # <<>> /\ e.seq > lastSeq /\ entries' = <<>>
        /\ lastSeq' = e.seq - 1 /\ UNCHANGED <<events, delivered>> /\ e.seq \in Nat
    BY <1>8, NextEntry DEF PollCongested, GiveUp
  <2>2. \A i \in DOMAIN log : log[i].seq <= lastSeq' => log[i].seq <= lastSeq
    BY <1>1, <1>4, <2>1
  <2>3. \E i \in DOMAIN log : lastSeq' <= log[i].seq
    BY <1>4, <2>1
  <2> QED BY <1>0, <1>3, <2>1, <2>2, <2>3 DEF PollBody, Taken, Stretch
<1>9. CASE Consume
  <2>1. /\ events # <<>> /\ delivered' = Append(delivered, Head(events))
        /\ events' = Tail(events) /\ UNCHANGED <<entries, lastSeq>>
    BY <1>9 DEF Consume
  <2>2. ToSet(events) = {Head(events)} \cup ToSet(events') /\ Head(events) \in Record
    BY <1>1, <2>1, QueueFacts
  <2>3. ToSet(delivered') = ToSet(delivered) \cup {Head(events)}
    BY <1>1, <2>1, <2>2, AppendSet
  <2>4. Taken' = Taken
    BY <2>2, <2>3 DEF Taken
  <2> QED BY <1>0, <2>1, <2>4 DEF PollBody
<1> QED BY <1>5, <1>6, <1>7, <1>8, <1>9

-----------------------------------------------------------------------------
(* The theorems.                                                            *)

\* EnforcerInv is an invariant, whatever fairness the processes have.
LEMMA EnforcerInvariant == EnforcerSpec => []EnforcerInv
<1>1. EnforcerInit => EnforcerInv
  <2> SUFFICES ASSUME EnforcerInit PROVE EnforcerInv
    OBVIOUS
  <2>1. Init /\ TypeInv /\ KeptInv /\ SeqInv
    BY TypeInvInit, KeptInvInit, SeqInvInit DEF EnforcerInit
  <2>2. /\ log \in Seq(Record) /\ Len(log) \in Nat /\ DOMAIN log = 1 .. Len(log)
        /\ <<>> \in Seq(Record)
    BY <2>1 DEF TypeInv, TypeOK
  <2>3. \A i \in DOMAIN log : log[i].seq = 1
    BY <2>1 DEF Init, Genesis
  <2>4. entries = <<>> /\ lastSeq = 0 /\ events = <<>> /\ delivered = <<>> /\ Len(entries) = 0
    BY DEF EnforcerInit
  <2>5. ReaderType /\ OrderInv
    BY <2>2, <2>4 DEF ReaderType, OrderInv, DeliveredInOrder
  <2>6. HeldInv
    <3>1. head.recs = log /\ leaves = <<>> /\ buried = {} /\ ToSet(<<>>) = {}
      BY <2>1 DEF Init, ToSet
    <3> QED BY <3>1 DEF HeldInv
  <2>7. PollBody
    <3>1. /\ 0 \in 0 .. Len(log) /\ 0 + Len(entries) <= Len(log)
          /\ (\A i \in 1 .. Len(entries) : FALSE) /\ \A j \in 1 .. 0 : FALSE
      BY <2>2, <2>4
    <3>2. \E k \in 0 .. Len(log) : /\ k + Len(entries) <= Len(log)
                                   /\ \A i \in 1 .. Len(entries) : entries[i] = log[k + i]
                                   /\ \A j \in 1 .. k : log[j].seq <= lastSeq
      BY <3>1
    <3>3. \A i \in DOMAIN log : ~ (log[i].seq <= lastSeq)
      BY <2>3, <2>4
    <3> QED BY <2>4, <3>2, <3>3 DEF PollBody
  <2> QED BY <2>1, <2>5, <2>6, <2>7 DEF EnforcerInv, PollInv
<1>2. EnforcerInv /\ [EnforcerNext]_enforcerVars => EnforcerInv'
  <2> SUFFICES ASSUME EnforcerInv, [EnforcerNext]_enforcerVars PROVE EnforcerInv'
    OBVIOUS
  <2>1. ReaderType' /\ OrderInv'
    BY ReaderTypeStep, OrderStep
  <2>2. CASE [Next]_vars /\ UNCHANGED pollVars
    <3>1. TypeInv' /\ KeptInv' /\ SeqInv' /\ HeldInv'
      BY <2>2, TypeInvStep, KeptInvStep, SeqInvStep, HeldStep DEF EnforcerInv, TypeInv
    <3> QED BY <2>1, <2>2, <3>1, PollKeptByDaemon DEF EnforcerInv
  <2>3. CASE PollRead \/ PollSkip \/ PollDeliver \/ PollCongested \/ Consume
    <3>1. UNCHANGED vars
      BY <2>3 DEF PollRead, PollSkip, PollDeliver, PollCongested, GiveUp, Consume
    <3>2. TypeInv' /\ KeptInv' /\ SeqInv' /\ HeldInv'
      BY <3>1, TypeInvStep, KeptInvStep, SeqInvStep, HeldStep DEF EnforcerInv, TypeInv
    <3> QED BY <2>1, <2>3, <3>2, PollStep DEF EnforcerInv
  <2> QED BY <2>2, <2>3 DEF EnforcerNext, enforcerVars
<1> QED BY <1>1, <1>2, PTL DEF EnforcerSpec

\* The enforcer's event loop sees every record at most once and in the order of Seq,
\* however polls, a full channel, crashes and recoveries interleave.
THEOREM AlwaysDeliveredInOrder == EnforcerSpec => []DeliveredInOrder
<1>1. EnforcerInv => DeliveredInOrder
  BY DEF EnforcerInv, OrderInv
<1> QED BY <1>1, EnforcerInvariant, PTL

\* A record the head covers is never passed over, as long as no recovery has cut a
\* record off, also when the channel was full, a Seq is missing or a frame short.
THEOREM NoRecordEverSkipped == EnforcerSpec => []NoRecordSkipped
<1>1. EnforcerInv => NoRecordSkipped
  <2> SUFFICES ASSUME EnforcerInv, quarantine = {},
                      NEW r \in ToSet(head.recs), r.seq <= lastSeq
               PROVE  r \in Taken
    BY DEF NoRecordSkipped, Taken
  <2>1. PollBody /\ r \in ToSet(log) \cup buried
    BY DEF EnforcerInv, PollInv, HeldInv
  <2>2. /\ log \in Seq(Record) /\ buried \subseteq Record /\ lastSeq \in Nat
        /\ \A i \in DOMAIN log : log[i].seq \in Nat
    BY SeqType DEF EnforcerInv, TypeInv, TypeOK, ReaderType
  <2>3. r \notin buried
    <3> SUFFICES ASSUME r \in buried PROVE FALSE
      OBVIOUS
    <3>1. r.seq \in Nat /\ r.seq > 0 /\ \A i \in DOMAIN log : log[i].seq < r.seq
      BY <2>2 DEF EnforcerInv, HeldInv, Record
    <3>2. ~ (lastSeq = 0)
      BY <2>2, <3>1
    <3>3. PICK i \in DOMAIN log : lastSeq <= log[i].seq
      BY <2>1, <3>2 DEF PollBody
    <3> QED BY <2>2, <3>1, <3>3
  <2>4. PICK i \in DOMAIN log : r = log[i]
    BY <2>1, <2>3 DEF ToSet
  <2> QED BY <2>1, <2>4 DEF PollBody
<1> QED BY <1>1, EnforcerInvariant, PTL
=============================================================================
