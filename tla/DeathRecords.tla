---------------------------- MODULE DeathRecords ----------------------------
(***************************************************************************)
(* Death records: internal/death over the log of WitnessStore.  A daemon   *)
(* that stops orderly writes a record after it has closed the store, and   *)
(* its watchdog writes one once the daemon is gone, perhaps while the next *)
(* daemon already recovers the log and appends.  A record captures the     *)
(* tree head and the length of the log, links to the newest record, and    *)
(* hashes what the log has gained since, or all of it if the tail of what  *)
(* that record captured is not the same any more.                          *)
(*                                                                         *)
(* Abstractions.  The log file is a sequence of cells: its records, and    *)
(* what torn writes left behind them.  A digest is what it was computed    *)
(* from.  Every record is of format /2, of one machine, and parses, since  *)
(* it is renamed into place; clocks do not go back, so file names are in   *)
(* the order of publication.  The genesis hash is left out.                *)
(***************************************************************************)
EXTENDS WitnessStore

CONSTANTS
    TailCells,      \* tailBytes, in cells
    MaxStarts       \* bound on the daemons started

ASSUME TailCellsAssumption == TailCells \in Nat \ {0}
ASSUME DeathBoundsAssumption == MaxStarts \in Nat

Daemon  == 0
Writers == Daemon .. MaxStarts      \* the daemon, and the watchdog of each start

VARIABLES
    starts,      \* daemons started so far
    alive,       \* the last of them still is a process
    rest,        \* the cells behind the readable records: torn writes, buried records
    torn,        \* the torn writes so far, to tell their bytes apart
    fpc,         \* how far each writer is in fire
    draft,       \* the record each writer is preparing
    records,     \* the death records, in file name order
    cuts,        \* history: the contents of the log that a recovery has cut
    disturbed    \* what has disturbed a writer: another one, a recovery, its deadline

file      == <<rest, torn>>
deathVars == <<starts, alive, file, fpc, draft, records, cuts, disturbed>>
allVars   == <<vars, deathVars>>

Incomplete == [status |-> "incomplete", sum |-> <<>>]
NoDraft    == [head |-> <<>>, late |-> FALSE, n |-> 0, prev |-> 0, segment |-> FALSE, start |-> 0,
               tail |-> Incomplete, hash |-> Incomplete, chain |-> <<>>]

\* The file witness.log.
Bytes == log \o rest

\* What a write that ends too early leaves.
TornCell == [seq |-> 0, id |-> torn + 1]

DeathInit ==
    /\ Init
    /\ starts = 0 /\ alive = FALSE /\ rest = <<>> /\ torn = 0
    /\ fpc = [w \in Writers |-> "off"] /\ draft = [w \in Writers |-> NoDraft]
    /\ records = <<>> /\ cuts = {} /\ disturbed = {}

-----------------------------------------------------------------------------
(* The daemon, as far as the death records depend on it. *)

Firing(w) == fpc[w] \in {"head", "stat", "linked", "tail", "hashed"}

StartDaemon ==
    /\ ~ alive
    /\ starts < MaxStarts
    /\ Open(NoKey)
    /\ starts' = starts + 1
    /\ alive' = (pc' # "refused")
    /\ UNCHANGED <<file, fpc, draft, records, cuts, disturbed>>

\* Recovery under the eyes of an old watchdog.
RecoverLog ==
    /\ alive
    /\ \/ QuarantineCopy /\ UNCHANGED <<rest, cuts, disturbed>>
       \/ /\ QuarantineTruncate
          /\ rest' = <<>>
          /\ cuts' = cuts \cup {Bytes}
          /\ disturbed' = disturbed \cup {k \in {"recovery"} : \E w \in Writers : Firing(w)}
    /\ UNCHANGED <<starts, alive, torn, fpc, draft, records>>

SpawnWatchdog ==
    /\ alive /\ pc = "up"
    /\ fpc[starts] = "off"
    /\ fpc' = [fpc EXCEPT ![starts] = "watching"]
    /\ UNCHANGED <<vars, starts, alive, file, draft, records, cuts, disturbed>>

\* Append, and the errors it returns; behind a frame written short the daemon goes on.
WriteLog ==
    /\ alive
    /\ \/ /\ AppendFrame
          /\ rest' = IF junk = "none" THEN rest ELSE Append(rest, NewRecord)
          /\ UNCHANGED torn
       \/ /\ ShortWrite
          /\ rest' = Append(rest, TornCell)
          /\ torn' = torn + 1
       \/ (WriteTreeHead \/ SealFails \/ HeadFails) /\ UNCHANGED file
    /\ UNCHANGED <<starts, alive, fpc, draft, records, cuts, disturbed>>

\* fireDeath closes the store and goes on to fire.
StopDaemon ==
    /\ alive
    /\ Close
    /\ fpc' = [fpc EXCEPT ![Daemon] = "fire"]
    /\ UNCHANGED <<starts, alive, file, draft, records, cuts, disturbed>>

\* A kill, while it runs, in the middle of a write, or while it fires.
KillDaemon ==
    /\ alive
    /\ \/ Crash /\ junk' = junk /\ UNCHANGED file
       \/ /\ pc = "up" /\ Crash /\ junk' # "none"
          /\ rest' = Append(rest, TornCell)
          /\ torn' = torn + 1
       \/ /\ pc = "down" /\ crashes < MaxCrashes /\ crashes' = crashes + 1
          /\ UNCHANGED <<disk, memory, written, faults, pc, acked, file>>
    /\ alive' = FALSE
    /\ fpc' = [fpc EXCEPT ![Daemon] = "off"]
    /\ draft' = [draft EXCEPT ![Daemon] = NoDraft]
    /\ UNCHANGED <<starts, records, cuts, disturbed>>

\* systemd signals the whole control group, perhaps while the daemon still stops: the
\* watchdog has no handler.
KillWatchdog(w) ==
    /\ w # Daemon /\ fpc[w] # "off"
    /\ fpc' = [fpc EXCEPT ![w] = "off"]
    /\ draft' = [draft EXCEPT ![w] = NoDraft]
    /\ UNCHANGED <<vars, starts, alive, file, records, cuts, disturbed>>

-----------------------------------------------------------------------------
(* fire *)

\* hashRange over cells start + 1 .. n of a file: error if some are not there.
HashRange(cells, start, n) ==
    IF start < n /\ n > Len(cells) THEN [status |-> "error", sum |-> <<>>]
    ELSE [status |-> "complete", sum |-> SubSeq(cells, start + 1, n)]

TailStart(n) == IF n > TailCells THEN n - TailCells ELSE 0

\* The watchdog has found its parent gone.
ParentGone(w) == w # starts \/ ~ alive

Step(w, from, to) ==
    /\ fpc[w] = from
    /\ fpc' = [fpc EXCEPT ![w] = to]

\* The head is read first ...
ReadHead(w) ==
    /\ \/ w = Daemon /\ Step(w, "fire", "head")
       \/ w # Daemon /\ Step(w, "watching", "head") /\ ParentGone(w)
    /\ draft' = [draft EXCEPT ![w].head = head.recs]
    /\ disturbed' = disturbed \cup {k \in {"overlap"} : \E v \in Writers : Firing(v)}
    /\ UNCHANGED <<vars, starts, alive, file, records, cuts>>

\* ... then the length of the log: what is appended later is not in this record.
StatLog(w) ==
    /\ Step(w, "head", "stat")
    /\ draft' = [draft EXCEPT ![w].n = Len(Bytes)]
    /\ UNCHANGED <<vars, starts, alive, file, records, cuts, disturbed>>

\* The context expires: every later read of this writer is cut short.
MissDeadline(w) ==
    /\ fpc[w] \in {"stat", "linked", "tail"}
    /\ "deadline" \notin disturbed     \* missed once at most
    /\ disturbed' = disturbed \cup {"deadline"}
    /\ draft' = [draft EXCEPT ![w].late = TRUE]
    /\ UNCHANGED <<vars, starts, alive, file, fpc, records, cuts>>

\* Mutant: the previous tail is not compared.
ExtendsUnchecked(p, n) == p.n <= n /\ p.hash.status = "complete"

\* hashLog's decision: the log has not shrunk below what the previous record captured,
\* that record is complete, and the tail it captured is still the same.
Extends(p, n) ==
    /\ p.n <= n
    /\ p.hash.status = "complete" /\ p.tail.status = "complete"
    /\ HashRange(Bytes, TailStart(p.n), p.n) = p.tail

\* Mutant: the first record of the directory is taken, not the newest.
LinkFirst(w) ==
    /\ Step(w, "stat", "linked")
    /\ \E prev \in {k \in {0} : records = <<>> \/ draft[w].late}
                   \cup {k \in {1} : records # <<>>} :
           LET segment == prev > 0 /\ ~ draft[w].late /\ Extends(records[prev], draft[w].n)
           IN draft' = [draft EXCEPT ![w].prev = prev, ![w].segment = segment,
                                     ![w].start = IF segment THEN records[prev].n ELSE 0]
    /\ UNCHANGED <<vars, starts, alive, file, records, cuts, disturbed>>

\* The newest record is linked; log_shrank and prefix_changed make it a full hash.
\* Past the deadline the history is not read, or the previous tail is not hashed.
Link(w) ==
    /\ Step(w, "stat", "linked")
    /\ \E prev \in {Len(records)} \cup {k \in {0} : draft[w].late} :
           LET segment == prev > 0 /\ ~ draft[w].late /\ Extends(records[prev], draft[w].n)
           IN draft' = [draft EXCEPT ![w].prev = prev, ![w].segment = segment,
                                     ![w].start = IF segment THEN records[prev].n ELSE 0]
    /\ UNCHANGED <<vars, starts, alive, file, records, cuts, disturbed>>

\* hashRange under the writer's context.
Hash(w, start) ==
    IF draft[w].late THEN Incomplete ELSE HashRange(Bytes, start, draft[w].n)

HashTail(w) ==
    /\ Step(w, "linked", "tail")
    /\ draft' = [draft EXCEPT ![w].tail = Hash(w, TailStart(draft[w].n))]
    /\ UNCHANGED <<vars, starts, alive, file, records, cuts, disturbed>>

\* Mutant: the log is hashed to its present end, not to the captured length.
HashLogToEnd(w) ==
    /\ Step(w, "tail", "hashed")
    /\ draft' = [draft EXCEPT ![w].hash =
                    IF draft[w].late THEN Incomplete
                    ELSE HashRange(Bytes, draft[w].start, Len(Bytes))]
    /\ UNCHANGED <<vars, starts, alive, file, records, cuts, disturbed>>

\* The segment, or all of it.
HashLog(w) ==
    /\ Step(w, "tail", "hashed")
    /\ draft' = [draft EXCEPT ![w].hash = Hash(w, draft[w].start)]
    /\ UNCHANGED <<vars, starts, alive, file, records, cuts, disturbed>>

\* anchor and chainDigest.
Anchor(r) == IF r.segment THEN r.chain ELSE <<r.hash.sum>>
ChainDigest(p, r) == <<Anchor(p), r.hash.sum, r.n>>

\* atomicRecord: written aside, synced and renamed.  The writer is done.
Publish(w) ==
    /\ Step(w, "hashed", "off")
    /\ LET r == draft[w]
           chain == IF r.segment /\ r.hash.status = "complete"
                    THEN ChainDigest(records[r.prev], r) ELSE <<>>
       IN records' = Append(records, [r EXCEPT !.chain = chain])
    /\ draft' = [draft EXCEPT ![w] = NoDraft]
    /\ alive' = (alive /\ w # Daemon)
    /\ UNCHANGED <<vars, starts, file, cuts, disturbed>>

DeathNext ==
    \/ StartDaemon \/ RecoverLog \/ SpawnWatchdog \/ WriteLog \/ StopDaemon \/ KillDaemon
    \/ \E w \in Writers : \/ KillWatchdog(w)
                          \/ ReadHead(w) \/ StatLog(w) \/ MissDeadline(w) \/ Link(w)
                          \/ HashTail(w) \/ HashLog(w) \/ Publish(w)

DeathSpec == DeathInit /\ [][DeathNext]_allVars

-----------------------------------------------------------------------------
(* witness verify-death *)

\* Links and chain arithmetic of record k.
LinkVerifies(k) ==
    LET r == records[k]
    IN /\ r.prev = k - 1
       /\ r.tail.status = "complete" /\ r.hash.status = "complete"
       /\ r.segment =>
              LET p == records[k - 1]
              IN /\ r.start = p.n /\ p.n <= r.n
                 /\ p.hash.status = "complete" /\ p.tail.status = "complete"
                 /\ r.chain = ChainDigest(p, r)

\* With --log: the range a record hashed, and its tail, are still in the log.
LogVerifies(r) ==
    /\ r.hash.status = "complete" => HashRange(Bytes, r.start, r.n) = r.hash
    /\ r.tail.status = "complete" => HashRange(Bytes, TailStart(r.n), r.n) = r.tail

-----------------------------------------------------------------------------
(* Properties. *)

\* All a record vouches for: the bytes it hashed, after those of the record it extends.
Content[k \in 0 .. Len(records)] ==
    IF k = 0 THEN <<>>
    ELSE IF records[k].segment THEN Content[records[k].prev] \o records[k].hash.sum
    ELSE records[k].hash.sum

\* What a complete record vouches for is what the log once held, and covers the
\* tree head in it, also when writers overlap or miss a deadline: a segment never
\* continues bytes that a recovery has replaced, although the guard is only a tail
\* of the previous record.  A recovery in the middle of fire is the exception, and
\* for the head a frame written short: its records then lie behind torn bytes.
RecordsTrue ==
    "recovery" \notin disturbed =>
        \A k \in DOMAIN records :
            records[k].hash.status = "complete" =>
                /\ Intact => IsPrefix(records[k].head, Content[k])
                /\ \E cells \in cuts \cup {Bytes} : IsPrefix(Content[k], cells)

\* Records of writers that nothing disturbed pass witness verify-death, whatever
\* kills, recoveries and restarts came between them.
ChainVerifies == disturbed = {} => \A k \in DOMAIN records : LinkVerifies(k)

\* verify-death --log fails if and only if something a record vouches for is no
\* longer what the log holds, also when writers overlapped.
LogVerdictRight ==
    disturbed \cap {"recovery", "deadline"} = {} =>
        ((\A k \in DOMAIN records : LogVerifies(records[k]))
            <=> (\A k \in DOMAIN records : IsPrefix(Content[k], Bytes)))
=============================================================================
