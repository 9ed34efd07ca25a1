# A verification model of the witness

The witness (kiss-protocol) keeps an encrypted, append-only Merkle log of what
happens on a machine, signs the head of that log, ingests other programs' event
feeds into it, and lets operators and third parties verify it. This directory
models the parts of it that have a protocol, checks them with TLC on small
instances and proves their safety properties with TLAPS, for instances of any size.

## Inventory

| component | state | operations | talks to | what is hard |
|---|---|---|---|---|
| log store (`internal/store`) | `witness.log`, `tree-head.json`, crash-tail files; `leaves`, `seq`, signer in memory | Open (with recovery), Append, Close | everyone appends to it; readers share its files | two disk writes per Append, a kill anywhere, failing writes, key rotation |
| verify / prove / audit | none | OpenPinned | reads the files beside the daemon | no lock; head and log are read at different times |
| export / verify-export | heads a third party keeps | ExportDir, VerifyExport | the same | the same, and several exports against each other |
| status | none | store.Open | the same | it opens for writing |
| feed tailer (`internal/pipelock`) | saved position, pending lines | Run, Ack, Flush, Stop | a file another program writes; a channel | restart, rotation, stop, what an Ack refers to |
| bridges (`feeds`, `sbh`, `farm`) | channel | forward, Stop | tailer to store | an append that fails; order of stops |
| pipelock bridge, runner, evidence tailer | process, followers, channel | Start, scan, follow, forward, Stop | pipelock's process and files, store | three kinds of goroutines stopped in an order, each draining into the next |
| enforcer reader | `lastSeq`, bounded channel | poll | core log, read without lock | congestion, a log that is cut back |
| gossip mesh | per peer `lastSeq`, `lastSeen`, status | heartbeat, check, death report | UDP | loss, duplication, restart of one side |
| daemon (`cmd/witness start`) | – | main loop, death | all of the above | order of the shutdown, goroutines that outlive it |
| lifecycle, mirror, audit | failure count; remote head | Downtime, Result, Push, compare | daemon goroutines, HTTP/S3 | pushes out of order, retries, lost replies |
| accept | approvals, spool files | Apply, Replay, Filter | CLI to daemon through files; log | applied but not logged; replay under a changed policy |
| death records | chain of JSON files | Fire, Verify | daemon and watchdog | two writers |
| merkle | – | Root, Prove, Verify | store | pure recursion |
| drift, genesis, anomaly | snapshot | Measure, Take, scan | file system | little protocol |
| evidence catalog (`internal/pd`) | catalog file, its own log | intake, transfer, hold, destroy, access, export | one process per command | catalog and log disagree |
| soul, signer, encrypt, machid, config, sandbox, installers | files | – | start-up | no protocol |

The properties that make each modelled component correct are listed with its
module below. `PROJECT.json` lists every component with its status, and the
hazards with the line where each one bites.

## Modules

- **`AppendOnlyLog`**: the abstract specification. A sequence of committed
  records only grows, and a record is acknowledged when it becomes the newest
  committed one.
- **`WitnessStore`**: the store and the daemon that owns it. `log`, `junk` and
  `buried` are `witness.log` (readable records, what follows them, and records
  whose bytes lie behind that), `head` is `tree-head.json`, `leaves`, `seq`,
  `signer`, `unsignedHead` are the fields of `Store`. `Open` is `openStore` up to
  its recovery, `QuarantineCopy` and `QuarantineTruncate` the two halves of
  `quarantineTail`; `AppendFrame` and `WriteTreeHead` are the two writes of
  `Append`; `SealFails`, `ShortWrite` and `HeadFails` are its error returns;
  `Crash` is a kill at any of these points. A record is its `Seq` and an id, a
  Merkle root is the sequence it was computed from (hashing is collision free).
  **`MCWitnessStore`** adds the symmetry of untrusted keys for TLC.
- **`StoreReaders`** (extends `WitnessStore`): `readCommitted` and `ExportDir` as
  separate reads of head and log between the daemon's steps, and `VerifyExport`.
- **`StatusCommand`** (extends `WitnessStore`): `witness status`, whose `store.Open`
  is taken step by step, because another process may move in between, and a kill may end it
  between the copy and the truncation of a crash tail.
- **`LogCommands`** composes the two with the daemon: every process that shares one
  state directory, stepping in any order.
- **`EnforcerReader`** (extends `WitnessStore`): `TailReader.poll`, record by
  record, its channel and the event loop.
- **`Tailer`**: one feed. `files` are the files that stood at the path, `saved` the
  state file, `pending`/`committed`/`pos` the tailer's fields, `eof` that it has read the end of
  its file and lines have come since (they are lost if a rotation is noticed next); the
  bridge's forwarder receives, stores and acks in three steps.
- **`Gossip`**: the mesh; `state[n][p]` is n's `peerState` of p with the time since
  `lastSeen` counted in intervals. **`MCGossip`** adds the symmetry of the nodes.
- **`Accept`**: drift approvals. `machine` is what drift.Measure sees, `spool` the request
  files, `set` the daemon's `accept.Set`, `log` the operator entries. One request of a
  tick takes three steps, `ApplyRequest`, `AppendOutcome` and `RemoveFile`, and a kill
  may fall between any two; `Start` replays the log under the operators of that moment.
  `met`, `slips` and `kills` keep which mishaps have happened, how many, and how many kills.
- **`EvidenceCatalog`** (extends `WitnessStore`): the police edition. Each `witness-pd`
  command opens the store, loads the catalog, changes an item, writes the catalog and
  appends the custody event with the store's own two steps. `torn` is a catalog whose
  write has not ended; a kill in `WriteNDJSON` leaves a bundle of the lines written so far.
  **`MCEvidenceCatalog`** adds the symmetry of the nodes.
- **`DeathRecords`** (extends `WitnessStore`): `Broadcaster.fire` as head, length, link, tail
  hash, log hash and publication, run by the daemon after it has closed the store and by
  watchdogs that outlive it, beside the next daemon's recovery and appends; and
  `Verify` as `LinkVerifies` and `LogVerifies`. A digest is what it was computed from. `rest` is
  what lies behind the readable records of the file: torn writes, and the frames a daemon went on
  to write behind one.
- **`DaemonLog`**: the store as the goroutines of one daemon see it: an Append takes effect or
  fails and is ignored; the kind of the newest record is kept, since Downtime reads it.
- **`Mirror`** (extends `DaemonLog`): `tryPushMirror`'s goroutines, the HTTP backend's Push with
  its ETag, 412, retries and lost replies, and `MirrorHealth`.
- **`PipelockBridge`** (extends `DaemonLog`): pipelock's process under `Runner`, the evidence
  tailer's scans and followers, the forwarder, each draining into the next at a stop.
- **`Daemon`** composes the two with the main goroutine of `cmdStart`: the records of a start,
  the loop with drift ticks, feeds and the storage probe, and `fireDeath` in its order.
- **`WitnessStoreProofs`**, **`TailerProofs`**, **`GossipProofs`**, **`AcceptProofs`**,
  **`DaemonProofs`**, **`DeathRecordsProofs`** and **`EvidenceCatalogProofs`** hold the theorems
  about the module each is named after, **`LogReadersProofs`** those about `LogCommands` and
  `EnforcerReader`, with the inductive invariants they need.

Operators marked "Mutant" are plausible wrong versions of the definition that
follows them; nothing uses them. Substituting one for the other shows that a
property depends on the code it speaks about.

## Runs

| run | shows |
|---|---|
| `store_faults` | After `witness init`, with failing seals, frames written short, failing head writes, kills, and three keys of which one is trusted. Unless a frame was written short: the head covers a prefix of the log, acknowledged records stay readable and covered, and Open refuses only what the code means to refuse. Always: nothing written leaves the disk, Seq grows, a signing daemon never continues a stranger's head, and the store refines `AppendOnlyLog`. |
| `log_commands` | The same daemon from an empty directory, with `verify` and `export` reading at any moment and `status` run, and killed, while it is stopped. A verifier that found a head raises no false alarm; records it accepted stay; an export verifies against the heads of earlier ones; `status` loses nothing and its verdict is the daemon's. |
| `enforcer` | The enforcer's reader with a channel of one event: Seq grows strictly at the event loop, no record is skipped and each is delivered in the end unless a recovery cut the log back; and every restart of the daemon completes unless a head write failed. |
| `tailer` | One feed, from the first start or with a saved position. Across kills the saved position passes only stored lines, no line is skipped, each is stored in the end. With rotation, read errors, failing appends and stops too: one process stores lines in order (read errors apart), and a stop ends. |
| `gossip` | A peer that stays down is presumed compromised, and one that stays up is not, with losses, late copies, death reports and a restart around. |
| `accept` | Between two requests the daemon's approvals are those the log records, through kills between apply, append and remove; drift is hidden only on the word of a key that was an operator's since the start; a signed request is recorded in the end, and drift no request was accepted for is reported in the end. |
| `custody` | Catalog and log agree on every item whose commands all reported success, with commands on other items failing and being killed; the log shows no transfer or destruction under a hold; a court bundle, also one cut short by a kill, stays the beginning of what the log holds on its case. |
| `death_records` | With failing seals, frames written short and failing head writes: a complete record vouches for bytes the log really held and, unless a frame was written short, covers the head in it; records of undisturbed writers pass `verify-death`; `verify-death --log` fails exactly when the log no longer holds what a record vouches for. |
| `daemon` | The next start calls a stop CRITICAL exactly when it was not recorded; when the bridge has stopped, pipelock's last receipts are in the log; the newest mirror event is the mirror's state and a mirror in order has the newest head; a stop ends. |

Three runs state what a comment says and find the code doing otherwise (quotes in
`PROJECT.json`):

- `status_beside_daemon`: `witness status` opens the log for writing, and beside a
  running daemon it cuts off a record whose Append then returns nil.
- `tailer_store_failure`: an event whose Append fails is not acked, but the Ack of the
  next event marks its line, and the saved position passes it.
- `gossip_restart`: a restarted enforcer counts its heartbeats from 1 again, and its
  peers drop them as replays and presume it compromised.

### Limits of the properties

The premises of the properties are as wide as the code allows; each one marks a
behaviour worth knowing.

- `Intact` (store): a frame written short by a daemon that goes on (`store.go:384`) hides
  every later record, acknowledged or not, from readLog.
- `RefusesOnlyUncoverable`: Open refuses a log whose first record has no head yet (a kill
  between the two writes of the very first Append), and a log with two uncovered records
  (two failed head writes, or one and a kill).
- `ReadersNeverFail`: a verifier that found no head may race the very first Append and report
  a mismatch or a missing head.
- `ExportVerifies`: a failed Append leaves a gap in Seq (`store.go:350`), and VerifyExport
  takes Seq for the position; and the head of an export of an empty log never verifies as a
  prior (`export.go:178`).
- `NoRecordSkipped`: the enforcer's reader may deliver a record the head does not cover; if a
  recovery cuts it off, the next record reuses its Seq and is taken for seen.
- `Undisturbed` (tailer): an Ack has no identity, so after a rotation, a read error, a failed
  append or a line dropped by the stop it may mark another line. A start without a saved
  position begins at the end of the file, also after a kill before the first flush.
- `SteadyPeerAlive`: a restart, or a DEATH record broadcast with a log Seq above the
  heartbeat counter (`cmd/enforcer/main.go:201`), makes peers drop the heartbeats that follow.
- `ApprovalsMatchLog`: an append that fails leaves an approval that the next start forgets
  (`main.go:586`); a log that cannot be read leaves none; and when a revoker's key is taken out of
  operators.txt, the next start skips the revocation and the approval is back (`set.go:226`).
- `RequestRecorded`: damage to the file, a second submission that replaces it, an edited
  operators.txt or a failed append may leave a request unrecorded.
- `CatalogMatchesLog`, `HoldProtects`: the catalog is written before the log, so a command that
  fails or is killed in between leaves its item different in the two (`evidence.go:96`), and a
  later command acts on the catalog. A kill inside `os.WriteFile` (`evidence.go:316`) leaves a
  catalog that no later command can load, and nothing repairs it, although
  `docs/pd/architecture.md:47` calls it "Written atomically".
- `RecordsTrue`: a recovery that cuts the log while a watchdog hashes it may give a record whose
  segment never followed what it extends (`chain.go:201`). After a frame written short
  (`store.go:384`) the head counts records whose frames lie behind torn bytes: a death record still
  vouches for all those bytes, but they are no longer the head's records one after the other.
- `ChainVerifies`: overlapping writers link to the same record, and `verify-death` reports the
  second (`chain.go:140`); so does a writer that missed its deadline.
- `LogVerdictRight`: a record cut short by its deadline vouches for less than it captured.
- `DowntimeRight`: pushes are not stopped by fireDeath, and one that appends its result after
  the DEATH record makes the next start report a crash (`main.go:607`).
- `ReceiptsRecorded`: receipts written before the first scan count as history (`bridge.go:74`);
  Stop may not wait for the last scan (`evidence_tailer.go:176`); a follower that meets the stop in its
  send drops the receipt in hand (`evidence_tailer.go:147`); drainTimeout, a failed read or a failed
  append lose receipts too.
- `MirrorEventsRight`: results that overtake each other, and an older head put over a newer one
  after a 412 (`static.go:109`), are excepted; and a push that meets a 412 at every attempt
  returns nil (`static.go:121`) and counts as a success, though the mirror does not hold its head
  ("beaten").
- `EscalateAfter = 1`: the proof of `MirrorEventsRight` needs `EscalateAfter > 1`. The setting
  `mirror_escalate_after: 1` is legal (`config.go:99`), but `Result`'s switch then takes its first
  case, "mirror_push_failed" at WARN, and the mirror is never "recorded as unreachable (CRITICAL)"
  as `config.go:46` says and `lifecycle.go:76` promises ("minimum 1"), however many pushes fail.

### Bounds

`store_faults` writes 4 records with 3 failures and 2 kills: the recovery compares
the lengths of head and log, so one covered record, two uncovered ones, a
recovery and an append after it need 4. `log_commands` has 3 records, one
failure and one kill: enough for a record to be cut off and its place taken while a
reader holds the old head. Two read attempts stand for 5 and 20: they distinguish
"retry" from "give up". A channel of capacity 1 is full as soon as one event waits. The
tailer needs two lines to confuse one Ack with another and a third behind them; two
mishaps are any pair of kinds, two kills among them. Gossip uses two nodes,
since a node's view of each peer is independent of the others, thresholds 3 and 4, so
that one loss is below the threshold, and 6 intervals, so that a peer that
goes down in the first one crosses both.

`accept` makes two requests (an approval and its revocation, or two approvals of two values
of one thing), with a kill and one other mishap; a second kill makes the run too long, and the
theorem about `ApprovalsMatchLog` covers any number. `custody` has two items of one
case (an access to an unknown item is recorded without one), so that a command on one may fail
beside the other, in a log of 4 records with one failure and one kill; `death_records` has two daemons and their watchdogs, so up to three
writers, in a log of 4 records with one failure and one kill: a third start makes the run too
long. `daemon` has two starts (a stop and the
verdict on it), two overlapping pushes of three attempts, two receipts in one or two
files behind a channel of one, and one mishap of each kind (a failed append, a follower that ends
early, a kill); the mirror, pipelock and the failing disk are checked one at a time, since they share
only the log.

Symmetry: the untrusted keys of `store_faults` and the nodes of `gossip` are
interchangeable, as are the nodes of `custody`; none of these runs checks a
liveness property.

### Fairness

`EnforcerSpec`: the poll ticker and the event loop run; the unit file restarts a
failed daemon (`packaging/systemd/witness.service`, `Restart=on-failure`), the operator
starts one that was stopped, and a daemon that opens the log finishes its
recovery. `Tailer!FairSpec`: both goroutines are scheduled and the process is
started again; the feed's writer, rotation, stops and kills are not fair.
`Accept!FairSpec`: the main loop runs, its ticker fires and a killed daemon is started again; the
commands and the machine are not fair. `Daemon!FairSpec`: the main goroutine, the followers and the
forwarder are scheduled, and pipelock exits once it is interrupted (`Runner.Stop` waits for it
without a timeout, so a stop can end only if it does); pushes, feeds, signals and kills are
not fair. No strong fairness is used. `CHECK_DEADLOCK FALSE` is set where the system may stop: the
tailer idles at the end of its file, gossip runs are bounded in rounds, and custody, death records
and the daemon in commands and starts.

## Proofs

Every theorem is proved for all values of the constants that satisfy the named assumptions of
the module that declares them: any sets of keys, nodes, things and files, any bounds, any
capacity and any threshold. Further hypotheses are stated in the theorem (ASSUME) and named
below; the premises inside the properties are those of the section on limits. None of the
properties is inductive as it stands, so each proof has an invariant that is; TLC checked each of
these on the run of its module before it was proved.

**`WitnessStoreProofs`** (the store alone)

| theorem | property | hypothesis |
|---|---|---|
| `TypeCorrect` | `TypeOK` | |
| `HeadAlwaysCoversLog` | `HeadCoversLog` | |
| `AcknowledgedIsDurable` | `AckedDurable` | |
| `NothingEverDestroyed` | `NothingDestroyed` | |
| `SeqAlwaysIncreasing` | `SeqIncreasing` | |
| `OnlyUncoverableRefused` | `RefusesOnlyUncoverable` | |
| `StoreImplementsAppendOnlyLog` | `ImplementsAppendOnlyLog` | `"short" \notin Faults \/ Initialised` |
| `SignerAlwaysPinned` | `SignerPinned` | `"short" \notin Faults \/ Initialised` |

`StoreInv`: as long as no frame was written short, a running daemon's `leaves` are the
records on disk with nothing behind them (so a head written next covers the log), between
the frame and its head the log is longer than the head, and a recovery in progress cuts exactly
behind the head. The lemmas `Prefix...` state what `IsPrefix` does under append and
cut; `CommittedBound` and `AcceptedCommitted` bound the cut; `ShortWriteCounts` is why the premise
`Intact` can be carried through a step. `KeptInv` adds to `NothingDestroyed` that between the
copy and the truncation the copy holds everything behind the cut; `SeqInv` adds to
`SeqIncreasing` that a running daemon's seq has reached every Seq in the log; `PinInv`
extends `SignerPinned` to the recovery, which runs on a head already accepted. 

The last two hold with frames written short as well, where `Intact` says nothing any more.
`HeadInv` is what is left then: a running daemon's leaves extend the head (not the log), and a
recovery cuts exactly behind the head, because Open lets only a log in that begins with the
head's records (`AcceptedHead`). The exception is an empty log, which is opened without a look at
its head; `AnchorInv` excludes it: a log that `witness init` has begun is never empty again.
From an empty directory a first frame written short can leave an empty log under a head, hence
the hypothesis.

**`LogReadersProofs`**, first part: `LogCommands` (the store with verifiers, exports and `status`;
all under `~ BesideDaemon`, that is, `status` is run while the witness is stopped — the run
`status_beside_daemon` shows what happens otherwise)

| theorem | property |
|---|---|
| `CommandsKeepTypes`, `CommandsKeepAcked`, `CommandsDestroyNothing` | `TypeOK`, `AckedDurable`, `NothingDestroyed` |
| `StatusVerdictIsRight` | `StatusVerdictRight` |
| `VerifiedAlwaysStays` | `VerifiedStays` |
| `ReadersAlwaysSucceed` | `ReadersNeverFail` |
| `ExportAlwaysVerifies` | `ExportVerifies` |

The invariants of the store are shown to survive a second process that recovers the log
(`StatusInv`: while it runs, what it has read is what is on the disk; when it is killed it leaves
a log that the next recovery, its own or the daemon's, starts on afresh). `CutInv`: a recovery, whoever
runs it, cuts exactly behind the head, so a head a reader took earlier stays good; `KnownInv`: no
record is written twice, so a new one never completes an old head by accident; `LeavesInv` carries both
through short writes. `VerifierInv` and `ExporterInv` relate what a reader holds between its two
reads to the head of now, and `SeqExact` relates Seq and position for VerifyExport.

**`LogReadersProofs`**, second part: `EnforcerReader`. `AlwaysDeliveredInOrder` (`DeliveredInOrder`) and
`NoRecordEverSkipped` (`NoRecordSkipped`), with every fault of the store. `OrderInv`: delivered events
and then the channel grow strictly in Seq, and lastSeq has reached all of them; `HeldInv`: what head
and daemon hold is on the disk; `PollInv`: every record of the log up to lastSeq was taken, and what the
poll has still to look at is a stretch of the log before which it has left nothing, although the
log has moved since it was read.

**`TailerProofs`**: `TailerKeepsTypes` (`TypeOK`), `SavedAlwaysStored` (`SavedIsStored`),
`NeverAGap` (`NoGap`), `AlwaysStoredInOrder` (`StoredInOrder`). `PendingInv`: the pending entries are the
lines between the committed position and the reader, one each; `LinkInv`: the entries that are
not acked are the events in flight, in the same order. The second is the heart of it: since
Ack carries no identity, it is right only as long as the two sequences stay aligned.

**`GossipProofs`**: `DeadPeerAlwaysNoticed` (`DeadPeerNoticed`) and `SteadyPeerAlwaysAlive`
(`SteadyPeerAlive`). `NotedInv`: a node that has run throughout has noted every packet
that reached it, so no copy is news to it; `SilenceInv`: the last packets of a node that went down
arrive in that interval or never; so (`DeadInv`) it has been unheard of for as long as it has been
down. `LiveInv`: a steady peer's newest heartbeat is always news, and each interval without one is a
packet lost, or is the present one.

**`AcceptProofs`**: `ApprovalsAlwaysMatchLog` (`ApprovalsMatchLog`), and `OnlyOperatorsApprove`
(`OperatorsApprove`) for `Dev = FALSE` (under `--dev` the code accepts every key by design), for
any number of kills (`MaxKills`) and of other mishaps (`MaxMishaps`).
`MatchInv`: the daemon's set is what `Replay` makes of the log, but for the one outcome that was applied
and is not yet appended. This needs `Replay` after an append in terms of `Replay` before it.
Replay is a recursive function; `ReplayExists` unfolds it with a minimal counterexample
(`LeastNumber`, from the library's theorem that `<` on Nat is well founded), since the induction
theorems themselves take an operator as parameter.

**`DaemonProofs`** (`DaemonLog`, `Mirror` and `PipelockBridge` composed in `Daemon`):
`DowntimeIsRight` (`DowntimeRight`), `MirrorEventsAreRight` (`MirrorEventsRight`, for
`EscalateAfter > 1`), `ReceiptsAreRecorded` (`ReceiptsRecorded`). `ControlInv` says which
goroutines may still append in each state of the main one; `DowntimeInv` what the newest
record tells in each; `EventsInv` that at most one result waits to be recorded and brings the log up
to date; `HeadInv` that a push without an error left its head or a newer one; `ReceiptsInv` accounts for
each receipt: stored, in the forwarder's hand, in the channel, in a follower's hand, unread in a
file whose follower still runs, or history. `MirrorSteps` and `BridgeSteps` reduce each step of the
composition to what it does to one part.

**`DeathRecordsProofs`**: `RecordsAlwaysTrue` (`RecordsTrue`), `ChainAlwaysVerifies`
(`ChainVerifies`), `LogVerdictAlwaysRight` (`LogVerdictRight`), for every `TailCells > 0`.
`DeathType` includes the store's `StoreInv`: unless a frame was written short, the head covers the
readable records. `FilesInv` is why a short tail hash is enough: records and torn writes are numbered, a recovery only
cuts, so two contents the log has had that agree in one cell agree up to it (`SameTail`; in the code,
the Seq and the time in every frame make the cells distinct). `FireInv`: what a
writer holds is in the log in front of it, a linked record's content is a front part of that
log, and each complete record is true of some content the log has had (`Vouches`, where what it
says of the head is under `Intact`); this is what
a recovery in the middle of `fire` breaks. `ChainInv`: without overlap one writer fires at a time and
holds the number of the newest record. `FileSteps` reduces each step to what it does to the file:
nothing, a new cell, or a cut that is remembered. `Content` is a recursive function and is
unfolded as `Replay` is (`ContentExists`, `ContentStays`).

**`EvidenceCatalogProofs`**: `CatalogAlwaysMatchesLog` (`CatalogMatchesLog`), `HoldAlwaysProtects`
(`HoldProtects`) and `BundlesAlwaysStand` (`BundlesStand`), for `Initialised` (every command but
`witness-pd init` works on a log it has begun). `Expected` is what the log will tell once the
running command is through: what the head covers, and the command's event from the moment its item is
changed; `CatBody` says that the catalog that counts (the command's own, or the one on the
disk between two commands) is exactly that, for every item no command was cut off on. `Sound` is
what makes the events of an item readable: they begin with its intake, and no transfer or destruction
lies under a hold. It is proved together with `CatBody`, since the code looks for the hold in
the catalog and the property in the log. `Live` and `Dead` are the two fates of the log:
it still begins with what its head covers, and whatever lies behind tells nothing of the
other items (`UncoveredSilent`); or a frame written short has made it unreadable for good, and no
command adds to what it says or recovers it again (`FrameForGood`, `OutgrownForGood`), so that
`HoldProtects` goes on holding of what it says. `BundleBody` says up to which place a bundle speaks, one
the head covers, which no recovery cuts. `SaysIntake` and `SaysNext` compute what one
more event makes of an item; `Extremes` supplies the first and the last place of a history.

Only model-checked: liveness, which is out of the prover's reach: `RestartCompletes`,
`EveryLineStored`, `StopEnds`, `EveryRecordDelivered`, `RequestRecorded`, `DriftReported`,
`StopCompletes`. Every invariant and every other property of a passing run is a theorem.

## Not modelled

- Loss of the page cache at a power failure (Append does not sync); truncation of a feed in place
  and inode reuse; cryptography, encoding and file formats.
- Overlapping `witness-pd` commands: neither catalog nor log has a lock, the later save drops the
  other's change and both append under one Seq; every property of `custody` presumes one at a time.
- The mirror's file backend, whose overlapping pushes share one temporary file, and the audit
  comparison of local and remote head. (The S3 backend's pushes are those of `Mirror` that have no
  ETag and retry every error.)
- A pipelock left over from a killed daemon that still holds the port (`waitReady` cannot tell it from
  the new one): the unit's control group kills it.
- Death records of format /1, records that do not parse, and clocks that go back.
- The Merkle algorithms (pure recursion over hashes, sequential), the peer store, the farm monitor of
  silent sources, the v1 import, genesis, soul, signer, configuration, sandbox, installers: no
  protocol, or one process that reads and writes a file once.

## Plan

The safety properties of every module are proved. What would extend the model next:

1. What the file system persists at a power failure, under `WitnessStore`: Append does not sync, so a
   renamed head may outlive the record it covers (`store.go:384`).
2. Overlapping `witness-pd` commands in `EvidenceCatalog`.
3. The mirror's file backend and the audit comparison, beside `Mirror`.
