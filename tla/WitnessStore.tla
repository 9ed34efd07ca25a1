---------------------------- MODULE WitnessStore ----------------------------
(***************************************************************************)
(* The encrypted, append-only Merkle log of internal/store/store.go and    *)
(* the daemon that owns it: Append as its two disk writes (the record's    *)
(* frame, then the tree head), a kill at any point, and openStore with its *)
(* crash-tail recovery.                                                    *)
(*                                                                         *)
(* Abstractions.  A record is its Seq and an id that stands for the rest   *)
(* of its content.  Hashing is collision free, so a Merkle root is the     *)
(* sequence of records it was computed from, and a tree head is the        *)
(* records it covers, the records its prev_root covers and the key that    *)
(* signed it (NoKey: MAC only).  writeTreeHead never writes a head of size *)
(* 0, so the head that covers nothing stands for a missing head file.  The *)
(* rename makes the head write atomic; its .tmp file is never read.        *)
(***************************************************************************)
EXTENDS Integers, FiniteSets, SequencesExt

CONSTANTS
    Keys,          \* ed25519 keys a daemon may be configured to sign with
    NoKey,         \* no signer configured, or a head without a signature
    Trusted,       \* the operator's trust allowlist (OpenTrusting)
    Initialised,   \* the run starts after `witness init`, else in an empty directory
    Faults,        \* the failures of a write or a signature that may happen
    MaxRecords,    \* bound on the records written in one behaviour
    MaxFaults,     \* bound on those failures
    MaxCrashes     \* bound on the kills of the daemon

ASSUME KeysAssumption == NoKey \notin Keys /\ Trusted \subseteq Keys
ASSUME InitialisedAssumption == Initialised \in BOOLEAN
FaultKinds == {"seal", "short", "head"}

ASSUME FaultsAssumption == Faults \subseteq FaultKinds
ASSUME BoundsAssumption == MaxRecords \in Nat /\ MaxFaults \in Nat /\ MaxCrashes \in Nat

Signers  == Keys \cup {NoKey}
Record   == [seq : Nat, id : Nat]
TreeHead == [recs : Seq(Record), prev : Seq(Record), key : Signers]
NoHead   == [recs |-> <<>>, prev |-> <<>>, key |-> NoKey]

VARIABLES
    log,          \* the readable records of witness.log
    junk,         \* what follows them: "none", a "partial" frame, or a complete
                  \* "frame" that does not decrypt
    buried,       \* records whose bytes lie behind the junk, out of readLog's reach
    head,         \* tree-head.json
    quarantine,   \* records in the crash-tail files
    pc,           \* where the daemon is
    leaves,       \* Store.leaves
    seq,          \* Store.seq
    signer,       \* Store.s
    unsignedHead, \* Store.unsignedHead
    acked,        \* the records whose Append has returned nil
    written,      \* records written so far; the source of fresh ids
    faults,       \* failures so far, of each kind
    crashes       \* kills so far

disk   == <<log, junk, buried, head, quarantine>>
memory == <<leaves, seq, signer, unsignedHead>>
counts == <<written, faults, crashes>>
vars   == <<disk, memory, counts, pc, acked>>

-----------------------------------------------------------------------------
(* What Open and the read-only commands compute from a head and a log.     *)

\* Mutant: the head must cover every record.
CommittedIsAll(h, recs) == Len(recs)

\* Records a log of these records counts as committed: all of them, or all but
\* the one the stored head does not cover yet.
Committed(h, recs) ==
    IF Len(h.recs) >= 1 /\ Len(h.recs) + 1 = Len(recs) THEN Len(h.recs) ELSE Len(recs)

\* Mutant: the signing key is not looked at.
HeadAcceptedAnyKey(h, recs, s) == h.recs = recs

\* checkTreeHead: root, size and MAC are those of recs, and a signature is the
\* opener's own or from a key it trusts.  Without a signer any key will do; an
\* unsigned head passes.
HeadAccepted(h, recs, s) ==
    /\ h.recs = recs
    /\ h.key # NoKey /\ s # NoKey => h.key \in Trusted \cup {s}

\* openStore's first verification.  An empty log is not checked at all.
HeadRefused(h, recs, s) ==
    recs # <<>> /\ ~ HeadAccepted(h, SubSeq(recs, 1, Committed(h, recs)), s)

\* size > cut && frames == lastGood: what follows the committed records is one
\* record and/or a partial frame, nothing else.
IsCrashTail(h, recs, j) ==
    /\ Committed(h, recs) < Len(recs) \/ j # "none"
    /\ j # "frame"

\* Whether bytes that follow a partial frame happen to complete it depends on
\* the length it announced.
JunkAfterWrite == IF junk = "partial" THEN {"partial", "frame"} ELSE {junk}

\* A write of a frame that stops half way.
JunkAfterTornWrite == IF junk = "none" THEN {"partial"} ELSE JunkAfterWrite

-----------------------------------------------------------------------------
Genesis == [seq |-> 1, id |-> 1]

\* An empty directory, or the log `witness init` leaves: the genesis record and
\* its unsigned head.
Init ==
    /\ log = IF Initialised THEN <<Genesis>> ELSE <<>>
    /\ head = [recs |-> log, prev |-> <<>>, key |-> NoKey]
    /\ acked = ToSet(log)
    /\ written = Len(log)
    /\ junk = "none" /\ buried = {} /\ quarantine = {}
    /\ pc = "down"
    /\ leaves = <<>> /\ seq = 0 /\ signer = NoKey /\ unsignedHead = FALSE
    /\ faults = [k \in FaultKinds |-> 0] /\ crashes = 0

\* Mutant: seq is taken for a 0-based index.
LoadStoreOffByOne(recs) ==
    /\ leaves' = recs
    /\ seq' = Len(recs) - 1
    /\ unsignedHead' = (signer' # NoKey /\ recs # <<>> /\ head.key = NoKey)

\* The store openStore returns, over the entries it kept.
LoadStore(recs) ==
    /\ leaves' = recs
    /\ seq' = IF recs = <<>> THEN 0 ELSE Last(recs).seq
    /\ unsignedHead' = (signer' # NoKey /\ recs # <<>> /\ head.key = NoKey)

\* openStore up to the recovery.  The daemon is the only writer here, so reading
\* the log, reading the head and verifying it are one step.
Open(s) ==
    /\ pc \in {"down", "refused"}
    /\ signer' = s
    /\ \/ /\ HeadRefused(head, log, s)
          /\ pc' = "refused"
          /\ UNCHANGED <<leaves, seq, unsignedHead>>
       \/ /\ ~ HeadRefused(head, log, s)
          /\ IsCrashTail(head, log, junk)
          /\ pc' = "recover"
          /\ UNCHANGED <<leaves, seq, unsignedHead>>
       \/ /\ ~ HeadRefused(head, log, s)
          /\ ~ IsCrashTail(head, log, junk)
          /\ Committed(head, log) < Len(log)   \* then the head must cover every record
          /\ pc' = "refused"
          /\ UNCHANGED <<leaves, seq, unsignedHead>>
       \/ /\ ~ HeadRefused(head, log, s)
          /\ ~ IsCrashTail(head, log, junk)
          /\ Committed(head, log) = Len(log)
          /\ pc' = "up"
          /\ LoadStore(log)
    /\ UNCHANGED <<disk, counts, acked>>

\* The records behind the cut go to a new crash-tail file.
CopyBehind(cut) ==
    /\ pc = "recover"
    /\ pc' = "copied"
    /\ quarantine' = quarantine \cup buried \cup {log[i] : i \in (cut + 1) .. Len(log)}
    /\ UNCHANGED <<log, junk, buried, head, memory, counts, acked>>

\* Mutant: the copy starts one record too late.
QuarantineCopyLate == CopyBehind(Committed(head, log) + 1)

\* quarantineTail, first half.
QuarantineCopy == CopyBehind(Committed(head, log))

TruncateBehind(cut) ==
    /\ pc = "copied"
    /\ pc' = "up"
    /\ log' = SubSeq(log, 1, cut)
    /\ junk' = "none"
    /\ buried' = {}
    /\ signer' = signer
    /\ LoadStore(log')
    /\ UNCHANGED <<head, quarantine, counts, acked>>

\* Mutant: the cut is one record too early.
QuarantineTruncateEarly == TruncateBehind(Committed(head, log) - 1)

\* quarantineTail, second half: the log is truncated; Open returns the store.
QuarantineTruncate == TruncateBehind(Committed(head, log))

-----------------------------------------------------------------------------
NewRecord == [seq |-> seq + 1, id |-> written + 1]

\* Append up to its write of the frame: seq is bumped first, and the leaf is
\* added once the write returns.
AppendFrame ==
    /\ pc = "up"
    /\ written < MaxRecords
    /\ pc' = "framed"
    /\ seq' = seq + 1
    /\ written' = written + 1
    /\ leaves' = Append(leaves, NewRecord)
    /\ \/ /\ junk = "none"
          /\ log' = Append(log, NewRecord)
          /\ UNCHANGED <<junk, buried>>
       \/ /\ junk # "none"
          /\ buried' = buried \cup {NewRecord}
          /\ junk' \in JunkAfterWrite
          /\ UNCHANGED log
    /\ UNCHANGED <<head, quarantine, signer, unsignedHead, faults, crashes, acked>>

\* Append's writeTreeHead, and its nil return.
WriteTreeHead ==
    /\ pc = "framed"
    /\ pc' = "up"
    /\ head' = [recs |-> leaves, prev |-> head.recs, key |-> signer]
    /\ acked' = acked \cup {Last(leaves)}
    /\ UNCHANGED <<log, junk, buried, quarantine, memory, counts>>

Fault(kind) ==
    /\ kind \in Faults
    /\ faults["seal"] + faults["short"] + faults["head"] < MaxFaults
    /\ faults' = [faults EXCEPT ![kind] = @ + 1]
    /\ UNCHANGED <<written, crashes>>

\* Append fails before it has written a byte (marshal, seal, or the write
\* itself): seq stays bumped.
SealFails ==
    /\ pc = "up"
    /\ Fault("seal")
    /\ seq' = seq + 1
    /\ UNCHANGED <<disk, pc, leaves, signer, unsignedHead, acked>>

\* The write of the frame fails after some of its bytes (a full disk): Append
\* returns the error, the bytes stay, the daemon goes on.
ShortWrite ==
    /\ pc = "up"
    /\ Fault("short")
    /\ seq' = seq + 1
    /\ junk' \in JunkAfterTornWrite
    /\ UNCHANGED <<log, buried, head, quarantine, pc, leaves, signer, unsignedHead, acked>>

\* Mutant: Append drops writeTreeHead's error.
HeadFailsUnreported ==
    /\ pc = "framed"
    /\ Fault("head")
    /\ pc' = "up"
    /\ acked' = acked \cup {Last(leaves)}
    /\ UNCHANGED <<disk, memory>>

\* writeTreeHead fails (signing, the .tmp file or the rename): Append returns the
\* error with the record written and its leaf kept.
HeadFails ==
    /\ pc = "framed"
    /\ Fault("head")
    /\ pc' = "up"
    /\ UNCHANGED <<disk, memory, acked>>

\* The process has ended.
ProcessGone ==
    /\ pc' = "down"
    /\ leaves' = <<>> /\ seq' = 0 /\ signer' = NoKey /\ unsignedHead' = FALSE

\* The daemon is killed.  In the middle of the frame's write it leaves a partial
\* frame; everywhere else the files are what the steps so far made them.
Crash ==
    /\ pc \in {"recover", "copied", "up", "framed"}
    /\ crashes < MaxCrashes
    /\ crashes' = crashes + 1
    /\ ProcessGone
    /\ junk' \in {junk} \cup IF pc = "up" THEN JunkAfterTornWrite ELSE {}
    /\ UNCHANGED <<log, buried, head, quarantine, written, faults, acked>>

\* Close: an orderly stop between two Appends.
Close ==
    /\ pc = "up"
    /\ ProcessGone
    /\ UNCHANGED <<disk, counts, acked>>

Next ==
    \/ \E s \in Signers : Open(s)
    \/ QuarantineCopy \/ QuarantineTruncate
    \/ AppendFrame \/ WriteTreeHead
    \/ SealFails \/ ShortWrite \/ HeadFails
    \/ Crash \/ Close

Spec == Init /\ [][Next]_vars

-----------------------------------------------------------------------------
(* Properties. *)

\* Every variable keeps its type.
TypeOK ==
    /\ log \in Seq(Record) /\ leaves \in Seq(Record)
    /\ junk \in {"none", "partial", "frame"}
    /\ buried \in SUBSET Record /\ quarantine \in SUBSET Record /\ acked \in SUBSET Record
    /\ head \in TreeHead
    /\ pc \in {"down", "refused", "recover", "copied", "up", "framed"}
    /\ seq \in Nat /\ written \in Nat /\ crashes \in Nat
    /\ faults \in [FaultKinds -> Nat]
    /\ signer \in Signers /\ unsignedHead \in BOOLEAN

\* No frame has been written short with the daemon going on behind it.
Intact == faults["short"] = 0

\* The stored head always covers a prefix of the records in the log, and its
\* prev_root a prefix of those: whatever order frames, heads, kills and
\* recoveries come in, the log read back verifies up to the head (store.go:
\* Append writes the record before its head; quarantineTail cuts behind it).
\* A short write is the exception: the records that follow it are out of reach.
HeadCoversLog == Intact => IsPrefix(head.prev, head.recs) /\ IsPrefix(head.recs, log)

\* A record whose Append returned nil stays readable in the log and covered by
\* the stored head, through every later crash and recovery (short writes apart).
AckedDurable == Intact => acked \subseteq (ToSet(log) \cap ToSet(head.recs))

\* Every record whose frame was ever written is still on disk: in the log, behind
\* junk in it, or in a crash-tail file ("kept for inspection"), also when the
\* daemon is killed between the copy and the truncation.
NothingDestroyed ==
    \A i \in 1 .. written : \E r \in ToSet(log) \cup buried \cup quarantine : r.id = i

\* What makes HeadCoversLog and AckedDurable inductive: a running daemon's leaves
\* are the records on disk with nothing behind them, an Append in progress has
\* written one record more than the head covers, and a recovery in progress cuts
\* exactly behind the head.
StoreBody ==
    /\ IsPrefix(head.prev, head.recs)
    /\ IsPrefix(head.recs, log)
    /\ acked \subseteq ToSet(head.recs)
    /\ buried = {}
    /\ junk # "frame"
    /\ pc \in {"up", "framed"} => leaves = log /\ junk = "none"
    /\ pc = "framed" => Len(log) > Len(head.recs)
    /\ pc \in {"recover", "copied"} => Committed(head, log) = Len(head.recs)

\* The inductive invariant of the proofs.
StoreInv == Intact => StoreBody

\* Without short writes, Open refuses the daemon's own log only if the head is
\* missing, or more than one record is uncovered, or the head is signed by a key
\* this daemon does not trust.
RefusesOnlyUncoverable ==
    Intact /\ pc = "refused" =>
        \/ head.recs = <<>>
        \/ Len(log) > Len(head.recs) + 1
        \/ signer # NoKey /\ head.key \notin Trusted \cup {signer, NoKey}

\* Seq grows strictly along the log, although Append bumps it before it can fail
\* and a recovery takes it back to the last committed record's.
SeqIncreasing == \A i, j \in DOMAIN log : i < j => log[i].seq < log[j].seq

\* A daemon that signs never runs on the head of a key it does not trust, and an
\* unsigned head it runs on was reported by OpenedWithUnsignedHead.
SignerPinned ==
    pc \in {"up", "framed"} /\ signer # NoKey /\ head.recs # <<>> =>
        \/ head.key \in Trusted \cup {signer}
        \/ head.key = NoKey /\ unsignedHead

\* The store implements an append-only log of committed records: the stored heads
\* only ever grow, and Append acknowledges the newest covered record.
Abs == INSTANCE AppendOnlyLog WITH committed <- head.recs
ImplementsAppendOnlyLog == Abs!Spec
=============================================================================
