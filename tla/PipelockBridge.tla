--------------------------- MODULE PipelockBridge ---------------------------
(***************************************************************************)
(* Pipelock and its flight_recorder receipts: the Runner and the           *)
(* EvidenceTailer of internal/pipelock and the forwarder of                *)
(* internal/pipelock_bridge.  The tailer's Run goroutine looks for         *)
(* evidence files and starts a follower for each; the followers send       *)
(* receipts to a channel, and the forwarder appends them.  The audit log   *)
(* of pipelock takes the way of module Tailer and is left out here.        *)
(*                                                                         *)
(* Abstractions.  An evidence file is the number of its complete lines;    *)
(* all are JSON.  Pipelock appends to its newest file or starts another.   *)
(* It exits when interrupted, or at any time on its own, and dies with the *)
(* daemon (one control group).  A line of its stderr is one Append.        *)
(***************************************************************************)
EXTENDS DaemonLog

CONSTANTS
    Capacity,       \* capacity of the evidence channel
    MaxFiles,       \* bound on the evidence files
    MaxReceipts     \* bound on the receipts written

ASSUME BridgeAssumption ==
    Capacity \in Nat \ {0} /\ MaxFiles \in Nat /\ MaxReceipts \in Nat

Files    == 1 .. MaxFiles
Receipts == Files \X (1 .. MaxReceipts)
NoReceipt == <<0, 0>>

VARIABLES
    proc,       \* the pipelock process: "none", "running", "interrupted", "exited"
    files,      \* evidence files so far, the last is the one it writes
    lines,      \* lines of each file
    enabled,    \* Bridge.enabled
    rpc,        \* EvidenceTailer.Run
    estop,      \* EvidenceTailer.stop is closed
    fpc,        \* the follower of each file
    fpos,       \* lines it has read
    chan,       \* the evidence channel
    cpc, hand,  \* the forwarder and the receipt it holds
    stored,     \* history: receipts recorded
    skipped     \* history: receipts a follower of the first scan passed over

bridgeVars == <<proc, files, lines, enabled, rpc, estop, fpc, fpos, chan, cpc, hand,
                stored, skipped>>

BridgeInit ==
    /\ proc = "none" /\ files = 0 /\ lines = [f \in Files |-> 0]
    /\ enabled = FALSE /\ rpc = "none" /\ estop = FALSE
    /\ fpc = [f \in Files |-> "none"] /\ fpos = [f \in Files |-> 0]
    /\ chan = <<>> /\ cpc = "none" /\ hand = NoReceipt
    /\ stored = {} /\ skipped = {}

\* The goroutines and pipelock end with the process.
BridgeGone ==
    /\ proc' = "none" /\ enabled' = FALSE /\ rpc' = "none" /\ estop' = FALSE
    /\ fpc' = [f \in Files |-> "none"] /\ fpos' = [f \in Files |-> 0]
    /\ chan' = <<>> /\ cpc' = "none" /\ hand' = NoReceipt
    /\ UNCHANGED <<files, lines, stored, skipped>>

Written == {r \in Receipts : r[2] <= lines[r[1]]}

-----------------------------------------------------------------------------
(* The pipelock process (external), and Runner. *)

Alive == proc \in {"running", "interrupted"}

\* A session starts with a new file, which is rotated by starting the next one.
WriteReceipt ==
    /\ Alive
    /\ Cardinality(Written) < MaxReceipts
    /\ \E f \in {files, files + 1} \cap Files :
           /\ files' = f
           /\ lines' = [lines EXCEPT ![f] = @ + 1]
    /\ UNCHANGED <<proc, enabled, rpc, estop, fpc, fpos, chan, cpc, hand, stored, skipped,
                   logVars>>

\* lineSink: each line of stderr is appended by the goroutine that Wait waits for.
WriteStderr ==
    /\ Alive
    /\ Record("other", {})
    /\ UNCHANGED bridgeVars

\* Mutant: the runner notices an exit only if it has asked for it.
PipelockExitsUnnoticed ==
    /\ Alive
    /\ proc' = IF proc = "interrupted" THEN "exited" ELSE "none"
    /\ UNCHANGED <<files, lines, enabled, rpc, estop, fpc, fpos, chan, cpc, hand, stored,
                   skipped, logVars>>

\* Wait returns and closes Runner.done.
PipelockExits ==
    /\ Alive
    /\ proc' = "exited"
    /\ UNCHANGED <<files, lines, enabled, rpc, estop, fpc, fpos, chan, cpc, hand, stored,
                   skipped, logVars>>

\* Runner.Start launches it and waits for its port: by the time it returns, pipelock
\* may have written its first receipts.
LaunchPipelock ==
    /\ proc' = "running"
    /\ files' = files + 1
    /\ UNCHANGED <<lines, enabled, rpc, estop, fpc, fpos, chan, cpc, hand, stored,
                   skipped>>

\* Bridge.Start after Runner.Start: the goroutines.
StartGoroutines ==
    /\ enabled' = TRUE /\ rpc' = "first" /\ cpc' = "idle"
    /\ UNCHANGED <<proc, files, lines, estop, fpc, fpos, chan, hand, stored, skipped>>

\* Runner.Stop interrupts, and waits.
Interrupt ==
    /\ proc' = IF proc = "running" THEN "interrupted" ELSE proc
    /\ UNCHANGED <<files, lines, enabled, rpc, estop, fpc, fpos, chan, cpc, hand, stored,
                   skipped>>

-----------------------------------------------------------------------------
(* EvidenceTailer *)

\* A follower for each file that has none: of the first scan "atend", else "atstart".
Discover(from) ==
    fpc' = [f \in Files |-> IF fpc[f] = "none" /\ lines[f] > 0 THEN from ELSE fpc[f]]

Scan ==
    /\ rpc \in {"first", "poll"}
    /\ Discover(IF rpc = "first" THEN "atend" ELSE "atstart")
    /\ rpc' = "poll"
    /\ UNCHANGED <<proc, files, lines, enabled, estop, fpos, chan, cpc, hand, stored, skipped,
                   logVars>>

FinalScan ==
    /\ rpc = "poll"
    /\ estop
    /\ Discover("atstart")
    /\ rpc' = "done"
    /\ UNCHANGED <<proc, files, lines, enabled, estop, fpos, chan, cpc, hand, stored, skipped,
                   logVars>>

\* follow opens the file; one of the first scan seeks to its end as it is now.
Follow(f) ==
    /\ fpc[f] \in {"atend", "atstart"}
    /\ fpc' = [fpc EXCEPT ![f] = "run"]
    /\ fpos' = [fpos EXCEPT ![f] = IF fpc[f] = "atend" THEN lines[f] ELSE 0]
    /\ skipped' = skipped \cup {r \in Receipts : r[1] = f /\ r[2] <= fpos'[f]}
    /\ UNCHANGED <<proc, files, lines, enabled, rpc, estop, chan, cpc, hand, stored, logVars>>

ReadReceipt(f) ==
    /\ fpc[f] \in {"run", "drain"}
    /\ fpos[f] < lines[f]
    /\ fpos' = [fpos EXCEPT ![f] = @ + 1]
    /\ fpc' = [fpc EXCEPT ![f] = IF @ = "run" THEN "send" ELSE "drainsend"]
    /\ UNCHANGED <<proc, files, lines, enabled, rpc, estop, chan, cpc, hand, stored, skipped,
                   logVars>>

SendReceipt(f) ==
    /\ fpc[f] \in {"send", "drainsend"}
    /\ Len(chan) < Capacity
    /\ chan' = Append(chan, <<f, fpos[f]>>)
    /\ fpc' = [fpc EXCEPT ![f] = IF @ = "send" THEN "run" ELSE "drain"]
    /\ UNCHANGED <<proc, files, lines, enabled, rpc, estop, fpos, cpc, hand, stored, skipped,
                   logVars>>

\* The stop is seen between two lines, or by the select of the send, which may take
\* <-e.stop whether or not the channel has room: that receipt is not sent any more.
NoticeStop(f) ==
    /\ fpc[f] \in {"run", "send"}
    /\ estop
    /\ fpc' = [fpc EXCEPT ![f] = "drain"]
    /\ mishaps' = mishaps \cup {k \in {"unsent"} : fpc[f] = "send"}
    /\ UNCHANGED <<proc, files, lines, enabled, rpc, estop, fpos, chan, cpc, hand, stored,
                   skipped, last, open>>

\* At the end of the file after a stop.
FollowerDone(f) ==
    /\ fpc[f] = "drain"
    /\ fpos[f] = lines[f]
    /\ fpc' = [fpc EXCEPT ![f] = "done"]
    /\ UNCHANGED <<proc, files, lines, enabled, rpc, estop, fpos, chan, cpc, hand, stored,
                   skipped, logVars>>

\* drainTimeout has passed.
DrainTimeout(f) ==
    /\ fpc[f] \in {"drain", "drainsend"}
    /\ Mishap("follower")
    /\ mishaps' = mishaps \cup {"follower"}
    /\ fpc' = [fpc EXCEPT ![f] = "done"]
    /\ UNCHANGED <<proc, files, lines, enabled, rpc, estop, fpos, chan, cpc, hand, stored,
                   skipped, last, open>>

\* The file cannot be opened, or a read fails: its follower ends, and no scan starts
\* another.
FollowerFails(f) ==
    /\ fpc[f] \in {"atend", "atstart", "run", "drain"}
    /\ Mishap("follower")
    /\ mishaps' = mishaps \cup {"follower"}
    /\ fpc' = [fpc EXCEPT ![f] = "done"]
    /\ UNCHANGED <<proc, files, lines, enabled, rpc, estop, fpos, chan, cpc, hand, stored,
                   skipped, last, open>>

\* EvidenceTailer.Stop, first half.
CloseStop ==
    /\ estop' = TRUE
    /\ UNCHANGED <<proc, files, lines, enabled, rpc, fpc, fpos, chan, cpc, hand, stored,
                   skipped>>

\* Its wg.Wait returns: there is no follower, perhaps because Run has not made its
\* last scan yet.
FollowersDone == \A f \in Files : fpc[f] \in {"none", "done"}
Undiscovered  == \E f \in Files : fpc[f] = "none" /\ lines[f] > 0

-----------------------------------------------------------------------------
(* Bridge.forward *)

Receive ==
    /\ cpc \in {"idle", "drain"}
    /\ chan # <<>>
    /\ hand' = Head(chan) /\ chan' = Tail(chan)
    /\ cpc' = IF cpc = "idle" THEN "have" ELSE "drainhave"
    /\ UNCHANGED <<proc, files, lines, enabled, rpc, estop, fpc, fpos, stored, skipped, logVars>>

StoreReceipt ==
    /\ cpc \in {"have", "drainhave"}
    /\ Record("other", {})
    /\ stored' = stored \cup {r \in {hand} : Recorded}
    /\ hand' = NoReceipt
    /\ cpc' = IF cpc = "have" THEN "idle" ELSE "drain"
    /\ UNCHANGED <<proc, files, lines, enabled, rpc, estop, fpc, fpos, chan, skipped>>

\* drainRemaining finds the channels empty.
Drained ==
    /\ cpc = "drain"
    /\ chan = <<>>
    /\ cpc' = "done"
    /\ UNCHANGED <<proc, files, lines, enabled, rpc, estop, fpc, fpos, chan, hand, stored,
                   skipped, logVars>>

\* stopForward is closed.
CloseForward ==
    /\ cpc = "idle"
    /\ cpc' = "drain"
    /\ UNCHANGED <<proc, files, lines, enabled, rpc, estop, fpc, fpos, chan, hand, stored,
                   skipped>>

BridgeNext ==
    \/ WriteReceipt \/ WriteStderr \/ PipelockExits \/ Scan \/ FinalScan
    \/ Receive \/ StoreReceipt \/ Drained
    \/ \E f \in Files : \/ Follow(f) \/ ReadReceipt(f) \/ SendReceipt(f) \/ NoticeStop(f)
                        \/ FollowerDone(f) \/ DrainTimeout(f) \/ FollowerFails(f)
=============================================================================
