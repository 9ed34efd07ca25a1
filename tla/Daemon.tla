------------------------------- MODULE Daemon -------------------------------
(***************************************************************************)
(* The witness daemon: cmdStart of cmd/witness, which opens the store,     *)
(* reports the downtime, starts the goroutines that append to the log,     *)
(* loops, and stops them again in the order lifecycle.Downtime depends on. *)
(* Composes Mirror and PipelockBridge, the anomaly detector of             *)
(* internal/anomaly and, as one more writer, the feeds (module Tailer).    *)
(* Module Accept models what the drift tick does with approvals.           *)
(*                                                                         *)
(* Abstractions.  A gap recorded as INFO or WARN by its length is          *)
(* "explained".  The network detector, which only adds a WARN record, is   *)
(* one of the writers of "other" records.  A signal that arrives before    *)
(* it is handled is a kill.                                                *)
(***************************************************************************)
EXTENDS Mirror, PipelockBridge

CONSTANTS
    Setups,         \* what a daemon has to do with: a mirror, pipelock, a failing disk
    MaxStarts       \* bound on the starts

ASSUME SetupsAssumption == Setups \subseteq SUBSET {"mirror", "pipelock", "disk"}
ASSUME StartsAssumption == MaxStarts \in Nat

probeFailures == 3

VARIABLES
    setup,      \* which of them
    starts,     \* starts so far
    mpc,        \* the main goroutine
    lastEntry,  \* s.Last() as read at the start
    verdict,    \* the downtime recorded by this start
    bad,        \* storage probes failed in a row
    alarm,      \* an anomaly is in the channel
    reason,     \* the argument of fireDeath
    ended       \* history: how the daemon ended before this start

mainVars == <<setup, starts, mpc, lastEntry, verdict, bad, alarm, reason, ended>>
vars     == <<logVars, mirrorVars, bridgeVars, mainVars>>

Init ==
    /\ LogInit /\ MirrorInit /\ BridgeInit
    /\ setup \in Setups
    /\ starts = 0 /\ mpc = "down" /\ lastEntry = "other" /\ verdict = "none"
    /\ bad = 0 /\ alarm = FALSE /\ reason = "none" /\ ended = "init"

\* The main goroutine moves on.
Goto(from, to) == mpc = from /\ mpc' = to

-----------------------------------------------------------------------------
(* Start *)

OpenStore ==
    /\ starts < MaxStarts
    /\ Goto("down", "opened")
    /\ starts' = starts + 1
    /\ open' = TRUE
    /\ lastEntry' = last
    /\ UNCHANGED <<last, mishaps, mirrorVars, bridgeVars, setup, verdict, bad, alarm, reason,
                   ended>>

\* What the start itself has to record: a recovered crash tail, an unsigned head,
\* capabilities that could not be dropped.
RecordWarnings ==
    /\ Goto("opened", "warned")
    /\ Record("other", {}) \/ UNCHANGED logVars
    /\ UNCHANGED <<mirrorVars, bridgeVars, setup, starts, lastEntry, verdict, bad, alarm,
                   reason, ended>>

\* lifecycle.Downtime: CRITICAL unless the newest record is a stop by signal, or genesis.
Downtime(entry) == IF entry \in {"stop", "genesis"} THEN "explained" ELSE "CRITICAL"

\* Mutant: the newest record is read after the warnings have been appended.
RecordDowntimeLate ==
    /\ Goto("warned", "downtime")
    /\ verdict' = Downtime(last)
    /\ Record("other", {})
    /\ UNCHANGED <<mirrorVars, bridgeVars, setup, starts, lastEntry, bad, alarm, reason, ended>>

RecordDowntime ==
    /\ Goto("warned", "downtime")
    /\ verdict' = Downtime(lastEntry)
    /\ Record("other", {})
    /\ UNCHANGED <<mirrorVars, bridgeVars, setup, starts, lastEntry, bad, alarm, reason, ended>>

\* MirrorConfig: a missing mirror is recorded.
RecordMirrorConfig ==
    /\ Goto("downtime", "bridge")
    /\ IF "mirror" \in setup THEN UNCHANGED logVars ELSE Record("other", {})
    /\ UNCHANGED <<mirrorVars, bridgeVars, setup, starts, lastEntry, verdict, bad, alarm,
                   reason, ended>>

\* bridge.Start: pipelock may not be installed, ...
LaunchBridge ==
    /\ IF "pipelock" \in setup THEN Goto("bridge", "launched") /\ LaunchPipelock
       ELSE Goto("bridge", "ready") /\ UNCHANGED bridgeVars
    /\ UNCHANGED <<logVars, mirrorVars, setup, starts, lastEntry, verdict, bad, alarm, reason,
                   ended>>

BridgeUp ==
    /\ Goto("launched", "ready")
    /\ StartGoroutines
    /\ UNCHANGED <<logVars, mirrorVars, setup, starts, lastEntry, verdict, bad, alarm, reason,
                   ended>>

\* ... or not come up: it is stopped, and the bridge stays disabled.
GiveUpBridge ==
    /\ Goto("launched", "giveup")
    /\ Interrupt
    /\ UNCHANGED <<logVars, mirrorVars, setup, starts, lastEntry, verdict, bad, alarm, reason,
                   ended>>

BridgeGivenUp ==
    /\ Goto("giveup", "ready")
    /\ proc = "exited"
    /\ UNCHANGED <<logVars, mirrorVars, bridgeVars, setup, starts, lastEntry, verdict, bad,
                   alarm, reason, ended>>

PushHead == IF "mirror" \in setup THEN TryPush ELSE UNCHANGED mirrorVars

\* daemon_start is recorded, the first head pushed, the loop entered.
EnterLoop ==
    /\ Goto("ready", "loop")
    /\ Record("other", {})
    /\ PushHead
    /\ UNCHANGED <<bridgeVars, setup, starts, lastEntry, verdict, bad, alarm, reason, ended>>

-----------------------------------------------------------------------------
(* The loop *)

DriftTick ==
    /\ mpc = "loop"
    /\ Record("other", {})
    /\ PushHead
    /\ UNCHANGED <<bridgeVars, mainVars>>

FeedAppends ==
    /\ mpc \in {"ready", "loop", "feeds"}
    /\ Record("other", {})
    /\ UNCHANGED <<mirrorVars, bridgeVars, mainVars>>

\* Probes after the loop is left are not looked at any more.
ProbeFails ==
    /\ mpc = "loop" /\ "disk" \in setup
    /\ bad' = (bad + 1) % probeFailures
    /\ alarm' = (alarm \/ bad + 1 = probeFailures)
    /\ UNCHANGED <<logVars, mirrorVars, bridgeVars, setup, starts, mpc, lastEntry, verdict,
                   reason, ended>>

ProbeWorks ==
    /\ mpc = "loop"
    /\ bad' = 0
    /\ UNCHANGED <<logVars, mirrorVars, bridgeVars, setup, starts, mpc, lastEntry, verdict,
                   alarm, reason, ended>>

StorageAnomaly ==
    /\ Goto("loop", "feeds")
    /\ alarm
    /\ alarm' = FALSE /\ bad' = 0
    /\ Record("other", {})
    /\ reason' = "storage"
    /\ UNCHANGED <<mirrorVars, bridgeVars, setup, starts, lastEntry, verdict, ended>>

Signal ==
    /\ Goto("loop", "feeds")
    /\ alarm' = FALSE /\ bad' = 0
    /\ reason' = "stop"
    /\ UNCHANGED <<logVars, mirrorVars, bridgeVars, setup, starts, lastEntry, verdict, ended>>

-----------------------------------------------------------------------------
(* fireDeath *)

StopFeeds ==
    /\ Goto("feeds", "bridgestop")
    /\ UNCHANGED <<logVars, mirrorVars, bridgeVars, setup, starts, lastEntry, verdict, bad,
                   alarm, reason, ended>>

\* bridge.Stop: pipelock first, ...
StopRunner ==
    /\ IF enabled THEN Goto("bridgestop", "runner") /\ Interrupt
       ELSE Goto("bridgestop", "death") /\ UNCHANGED bridgeVars
    /\ UNCHANGED <<logVars, mirrorVars, setup, starts, lastEntry, verdict, bad, alarm, reason,
                   ended>>

\* Mutant: the tailers are stopped while pipelock still writes.
StopTailersEarly ==
    /\ Goto("runner", "tailers")
    /\ CloseStop
    /\ UNCHANGED <<logVars, mirrorVars, setup, starts, lastEntry, verdict, bad, alarm, reason,
                   ended>>

\* ... once it is gone its tailers, ...
StopTailers ==
    /\ Goto("runner", "tailers")
    /\ proc = "exited"
    /\ CloseStop
    /\ UNCHANGED <<logVars, mirrorVars, setup, starts, lastEntry, verdict, bad, alarm, reason,
                   ended>>

\* ... then the forwarder.  A race if a file has not been discovered yet.
StopForward ==
    /\ Goto("tailers", "forward")
    /\ FollowersDone
    /\ CloseForward
    /\ mishaps' = mishaps \cup {k \in {"unscanned"} : Undiscovered}
    /\ UNCHANGED <<last, open, mirrorVars, setup, starts, lastEntry, verdict, bad, alarm,
                   reason, ended>>

BridgeStopped ==
    /\ Goto("forward", "death")
    /\ cpc = "done"
    /\ UNCHANGED <<logVars, mirrorVars, bridgeVars, setup, starts, lastEntry, verdict, bad,
                   alarm, reason, ended>>

\* The stop is the last thing recorded.
RecordDeath ==
    /\ Goto("death", "close")
    /\ Record(reason, {})
    /\ UNCHANGED <<mirrorVars, bridgeVars, setup, starts, lastEntry, verdict, bad, alarm,
                   reason, ended>>

CloseStore ==
    /\ Goto("close", "fire")
    /\ open' = FALSE
    /\ UNCHANGED <<last, mishaps, mirrorVars, bridgeVars, setup, starts, lastEntry, verdict,
                   bad, alarm, reason, ended>>

ProcessGone ==
    /\ MirrorGone /\ BridgeGone
    /\ verdict' = "none" /\ bad' = 0 /\ alarm' = FALSE /\ reason' = "none"

\* broadcaster.Fire (module DeathRecords), and cmdStart returns.
Exit ==
    /\ Goto("fire", "down")
    /\ ended' = reason
    /\ ProcessGone
    /\ UNCHANGED <<logVars, setup, starts, lastEntry>>

\* A stop is recorded once DEATH is; a start that has recorded nothing leaves no trace.
Kill ==
    /\ mpc # "down" /\ mpc' = "down"
    /\ Mishap("kill")
    /\ mishaps' = mishaps \cup {"kill"}
    /\ open' = FALSE
    /\ ended' = CASE mpc \in {"close", "fire"} -> reason
                  [] mpc \in {"opened", "warned"} /\ last = lastEntry -> ended
                  [] OTHER -> "killed"
    /\ ProcessGone
    /\ UNCHANGED <<last, setup, starts, lastEntry>>

Main ==
    \/ OpenStore \/ RecordWarnings \/ RecordDowntime \/ RecordMirrorConfig \/ LaunchBridge
    \/ BridgeUp \/ GiveUpBridge \/ BridgeGivenUp \/ EnterLoop
    \/ StorageAnomaly \/ StopFeeds \/ StopRunner \/ StopTailers \/ StopForward
    \/ BridgeStopped \/ RecordDeath \/ CloseStore \/ Exit

Next ==
    \/ Main \/ DriftTick \/ FeedAppends \/ ProbeFails \/ ProbeWorks \/ Signal \/ Kill
    \/ MirrorNext /\ UNCHANGED <<bridgeVars, mainVars>>
    \/ BridgeNext /\ UNCHANGED <<mirrorVars, mainVars>>

Spec == Init /\ [][Next]_vars

\* Goroutines are scheduled, and pipelock exits once it is interrupted.
FairSpec ==
    /\ Spec
    /\ WF_vars(Main)
    /\ WF_vars(proc = "interrupted" /\ PipelockExits /\ UNCHANGED <<mirrorVars, mainVars>>)
    /\ WF_vars((Receive \/ StoreReceipt \/ Drained) /\ UNCHANGED <<mirrorVars, mainVars>>)
    /\ \A f \in Files :
           WF_vars(/\ Follow(f) \/ ReadReceipt(f) \/ SendReceipt(f) \/ NoticeStop(f)
                        \/ FollowerDone(f)
                   /\ UNCHANGED <<mirrorVars, mainVars>>)

-----------------------------------------------------------------------------
(* Properties. *)

\* What the next start says of the stop is right: CRITICAL if and only if the stop was
\* not recorded.  Every goroutine that appends is stopped before fireDeath appends
\* DEATH, except the pushes: one that appends after it is the exception.
DowntimeRight ==
    verdict # "none" /\ mishaps \cap {"append", "late"} = {} =>
        (verdict = "CRITICAL" <=> ended \notin {"stop", "init"})

\* When bridge.Stop has returned, every receipt pipelock wrote, its last ones
\* included, is in the log, except those a first scan took for history and those a
\* stop that met the scan or the send at the wrong moment has left behind.
ReceiptsRecorded ==
    /\ mpc \in {"death", "close", "fire"} /\ enabled
    /\ mishaps \cap {"append", "follower", "unsent", "unscanned"} = {}
    => Written \subseteq stored \cup skipped

\* With no push under way, the newest mirror event in the log is the state of the
\* mirror as pushes have found it, unless results overtook each other, and a mirror in
\* order holds the newest head, unless a push was beaten to it at every attempt.
MirrorEventsRight ==
    /\ open /\ mishaps \cap {"append", "disorder"} = {}
    /\ \A p \in Pushes : push[p].pc \in {"none", "done"}
    => /\ failures = 0 <=> said \in {"none", "recovered"}
       /\ failures >= EscalateAfter <=> said = "unreachable"
       /\ failures = 0 /\ pushed > 0 /\ "beaten" \notin mishaps =>
              push[pushed].pc = "none" \/ remote = pushed

\* A stop comes to its end: main waits for pipelock, the followers and the forwarder,
\* and each of them for the next.
StopCompletes == (mpc = "feeds") ~> (mpc = "down")
=============================================================================
