---------------------------- MODULE DaemonProofs ----------------------------
(***************************************************************************)
(* Theorems about the witness daemon, for every number of pushes, files,   *)
(* receipts, retries and starts, and every set of mishaps.                 *)
(***************************************************************************)
EXTENDS Daemon, TLAPS

-----------------------------------------------------------------------------
(* Control: where the main goroutine is, who may append then. *)

Early   == {"opened", "warned"}
Serving == {"downtime", "bridge", "launched", "giveup", "ready", "loop", "feeds",
            "bridgestop", "runner", "tailers", "forward", "death"}
Ended   == {"close", "fire"}

\* The states of the main goroutine while the bridge may be up.
BridgeUpStates == {"ready", "loop", "feeds", "bridgestop", "runner", "tailers", "forward",
                   "death", "close", "fire"}

\* When fireDeath appends DEATH, pipelock, its stderr and the forwarder are gone.
ControlInv ==
    /\ mpc \in {"down"} \cup Early \cup Serving \cup Ended
    /\ open = (mpc \notin {"down", "fire"})
    /\ enabled \in BOOLEAN
    /\ enabled => mpc \in BridgeUpStates
    /\ proc \in {"none", "running", "interrupted", "exited"}
    /\ Alive => \/ mpc \in {"launched", "giveup"}
                \/ enabled /\ mpc \in {"ready", "loop", "feeds", "bridgestop", "runner"}
    /\ cpc \in {"none", "idle", "have", "drain", "drainhave", "done"}
    /\ cpc # "none" => enabled
    /\ mpc \in {"death", "close", "fire"} => cpc \in {"none", "done"}
    /\ mpc \in BridgeUpStates \ {"ready", "loop"} => reason \in {"stop", "storage"}

-----------------------------------------------------------------------------
(* The downtime. *)

\* No append has failed, and none has come after the stop was recorded.
LogKept == mishaps \cap {"append", "late"} = {}

\* The newest record tells how the daemon ended.
Tells(entry, how) == entry \in {"stop", "genesis"} <=> how \in {"stop", "init"}

DowntimeInv ==
    /\ verdict # "none" =>
           mpc \notin {"down", "opened", "warned"} /\ verdict = Downtime(lastEntry)
    /\ LogKept =>
           /\ mpc = "down" => Tells(last, ended)
           /\ mpc # "down" => Tells(lastEntry, ended)
           /\ mpc \in Early => last \in {lastEntry, "other"}
           /\ mpc \in Serving => last = "other"
           /\ mpc \in Ended => last = reason

-----------------------------------------------------------------------------
(* The mirror. *)

PushStates == [pc : {"none", "etag", "put", "result", "append", "done"}, etag : Nat,
               attempt : Nat, err : BOOLEAN,
               event : {"none", "failed", "unreachable", "recovered"}]

MirrorType ==
    /\ remote \in Nat /\ pushed \in Nat /\ remote <= pushed /\ pushed <= MaxPushes
    /\ failures \in Nat
    /\ push \in [Pushes -> PushStates]
    /\ \A p \in Pushes : p > pushed => At(p, "none")
    /\ mpc = "down" => failures = 0 /\ said = "none" /\ \A p \in Pushes : At(p, "none")

\* The event is what a log with n failures in a row should say last.
Agree(n, event) ==
    /\ n = 0 <=> event \in {"none", "recovered"}
    /\ n >= EscalateAfter <=> event = "unreachable"

\* At most one result waits to be recorded, and it will bring the log up to date.
EventsInv ==
    open /\ mishaps \cap {"append", "disorder"} = {} =>
        /\ (\A p \in Pushes : ~ At(p, "append")) => Agree(failures, said)
        /\ \A p \in Pushes : At(p, "append") =>
               /\ Agree(failures, push[p].event)
               /\ \A q \in Pushes : At(q, "append") => q = p

\* A push that ends without an error has been on the mirror, and the newest push is
\* the last to have a result.
HeadInv ==
    mishaps \cap {"disorder", "beaten"} = {} =>
        /\ \A p \in Pushes : At(p, "result") /\ ~ push[p].err => remote >= p
        /\ pushed > 0 /\ push[pushed].pc \in {"append", "done"} /\ failures = 0 =>
               remote = pushed

-----------------------------------------------------------------------------
(* The receipts. *)

FollowerStates ==
    {"none", "atend", "atstart", "run", "send", "drain", "drainsend", "done"}

BridgeType ==
    /\ lines \in [Files -> Nat] /\ fpos \in [Files -> Nat]
    /\ fpc \in [Files -> FollowerStates]
    /\ chan \in Seq(Nat \X Nat)
    /\ estop \in BOOLEAN
    /\ estop => mpc \in {"tailers", "forward", "death", "close", "fire"}
    /\ cpc \in {"drain", "drainhave", "done"} => mpc \in {"forward", "death", "close", "fire"}
    /\ cpc \notin {"have", "drainhave"} => hand = NoReceipt
    /\ mpc \in {"runner", "tailers", "forward"} => enabled
    /\ mpc \in {"death", "close", "fire"} /\ enabled => cpc = "done"

Complete == mishaps \cap {"append", "follower", "unsent", "unscanned"} = {}

\* What a follower has read is recorded, skipped, or on its way.
OnItsWay(r) ==
    \/ r \in stored \cup skipped \cup {hand}
    \/ \E k \in 1 .. Len(chan) : chan[k] = r
    \/ fpc[r[1]] \in {"send", "drainsend"} /\ r[2] = fpos[r[1]]

Accounted == \A r \in Receipts : r[2] <= fpos[r[1]] => OnItsWay(r)

\* The main goroutine has seen the last follower go.
Stopped == {"forward", "death", "close", "fire"}

\* A follower ends at the end of a file that does not grow any more.
FollowersInv ==
    /\ \A f \in Files :
           /\ fpc[f] \in {"none", "atend", "atstart"} => fpos[f] = 0
           /\ fpc[f] \in {"drain", "drainsend", "done"} => estop
           /\ fpc[f] = "done" => fpos[f] = lines[f]
           /\ mpc \in Stopped /\ enabled =>
                  fpc[f] = "done" \/ (fpc[f] = "none" /\ lines[f] = 0)
    /\ cpc = "done" => chan = <<>>

ReceiptsInv == Complete => Accounted /\ FollowersInv

-----------------------------------------------------------------------------
(* Proofs. *)

\* The control states of start, loop and stop, and what may still append in each of
\* them.
THEOREM ControlInvariant == Spec => []ControlInv
<1>1. Init => ControlInv
  BY DEF Init, LogInit, BridgeInit, ControlInv, Alive, Early, Serving, Ended, BridgeUpStates
<1>2. ControlInv /\ [Next]_vars => ControlInv'
  <2> SUFFICES ASSUME ControlInv, [Next]_vars PROVE ControlInv'
    OBVIOUS
  <2> USE DEF ControlInv, Alive, Early, Serving, Ended, BridgeUpStates, logVars, mirrorVars,
          bridgeVars, mainVars
  <2>1. CASE OpenStore
    BY <2>1 DEF OpenStore, Goto
  <2>2. CASE RecordWarnings
    BY <2>2 DEF RecordWarnings, Goto, Record
  <2>3. CASE RecordDowntime
    BY <2>3 DEF RecordDowntime, Goto, Record
  <2>4. CASE RecordMirrorConfig
    BY <2>4 DEF RecordMirrorConfig, Goto, Record
  <2>5. CASE LaunchBridge
    BY <2>5 DEF LaunchBridge, Goto, LaunchPipelock
  <2>6. CASE BridgeUp
    BY <2>6 DEF BridgeUp, Goto, StartGoroutines
  <2>7. CASE GiveUpBridge
    BY <2>7 DEF GiveUpBridge, Goto, Interrupt
  <2>8. CASE BridgeGivenUp
    BY <2>8 DEF BridgeGivenUp, Goto
  <2>9. CASE EnterLoop
    BY <2>9 DEF EnterLoop, Goto, Record
  <2>10. CASE StorageAnomaly
    BY <2>10 DEF StorageAnomaly, Goto, Record
  <2>11. CASE StopFeeds
    BY <2>11 DEF StopFeeds, Goto
  <2>12. CASE StopRunner
    BY <2>12 DEF StopRunner, Goto, Interrupt
  <2>13. CASE StopTailers
    BY <2>13 DEF StopTailers, Goto, CloseStop
  <2>14. CASE StopForward
    BY <2>14 DEF StopForward, Goto, CloseForward
  <2>15. CASE BridgeStopped
    BY <2>15 DEF BridgeStopped, Goto
  <2>16. CASE RecordDeath
    BY <2>16 DEF RecordDeath, Goto, Record
  <2>17. CASE CloseStore
    BY <2>17 DEF CloseStore, Goto
  <2>18. CASE Exit
    BY <2>18 DEF Exit, Goto, ProcessGone, BridgeGone
  <2>19. CASE DriftTick
    BY <2>19 DEF DriftTick, Record
  <2>20. CASE FeedAppends
    BY <2>20 DEF FeedAppends, Record
  <2>21. CASE ProbeFails
    BY <2>21 DEF ProbeFails
  <2>22. CASE ProbeWorks
    BY <2>22 DEF ProbeWorks
  <2>23. CASE Signal
    BY <2>23 DEF Signal, Goto
  <2>24. CASE Kill
    BY <2>24 DEF Kill, ProcessGone, BridgeGone
  <2>25. CASE MirrorNext /\ UNCHANGED <<bridgeVars, mainVars>>
    <3>1. open' = open
      BY <2>25 DEF MirrorNext, FetchETag, PutAccepted, PutReplyLost, PutFails, PutRefused,
         PutConflict, Result, AppendResult, Record
    <3> QED BY <3>1, <2>25
  <2>26. CASE BridgeNext /\ UNCHANGED <<mirrorVars, mainVars>>
    <3>1. CASE WriteReceipt \/ WriteStderr \/ PipelockExits
      BY <3>1, <2>26 DEF WriteReceipt, WriteStderr, PipelockExits, Record
    <3>2. CASE Scan \/ FinalScan
      BY <3>2, <2>26 DEF Scan, FinalScan
    <3>3. CASE Receive \/ StoreReceipt \/ Drained
      BY <3>3, <2>26 DEF Receive, StoreReceipt, Drained, Record
    <3>4. ASSUME NEW f \in Files,
                 \/ Follow(f) \/ ReadReceipt(f) \/ SendReceipt(f) \/ NoticeStop(f)
                 \/ FollowerDone(f) \/ DrainTimeout(f) \/ FollowerFails(f)
          PROVE  UNCHANGED <<open, enabled, proc, cpc>>
      BY <3>4 DEF Follow, ReadReceipt, SendReceipt, NoticeStop, FollowerDone, DrainTimeout,
         FollowerFails
    <3> QED BY <3>1, <3>2, <3>3, <3>4, <2>26 DEF BridgeNext
  <2>27. CASE UNCHANGED vars
    BY <2>27 DEF vars
  <2> QED
    BY <2>1, <2>2, <2>3, <2>4, <2>5, <2>6, <2>7, <2>8, <2>9, <2>10, <2>11, <2>12, <2>13,
       <2>14, <2>15, <2>16, <2>17, <2>18, <2>19, <2>20, <2>21, <2>22, <2>23, <2>24, <2>25,
       <2>26, <2>27 DEF Next, Main
<1> QED
  BY <1>1, <1>2, PTL DEF Spec

\* While the daemon is down the newest record tells how it ended; from its start on the
\* record it found then does, and every record after that is its own.
LEMMA DowntimeInvariant == Spec => []DowntimeInv
<1>1. Init => DowntimeInv
  BY DEF Init, LogInit, DowntimeInv, Tells, Early, Serving, Ended
<1>2. ControlInv /\ DowntimeInv /\ [Next]_vars => DowntimeInv'
  <2> SUFFICES ASSUME ControlInv, DowntimeInv, [Next]_vars PROVE DowntimeInv'
    OBVIOUS
  <2> USE DEF ControlInv, DowntimeInv, LogKept, Tells, Alive, Early, Serving, Ended,
          BridgeUpStates, logVars, mirrorVars, bridgeVars, mainVars
  <2>1. CASE OpenStore
    BY <2>1 DEF OpenStore, Goto
  <2>2. CASE RecordWarnings
    BY <2>2 DEF RecordWarnings, Goto, Record
  <2>3. CASE RecordDowntime
    BY <2>3 DEF RecordDowntime, Goto, Record, Downtime
  <2>4. CASE RecordMirrorConfig
    BY <2>4 DEF RecordMirrorConfig, Goto, Record
  <2>5. CASE LaunchBridge
    BY <2>5 DEF LaunchBridge, Goto
  <2>6. CASE BridgeUp
    BY <2>6 DEF BridgeUp, Goto
  <2>7. CASE GiveUpBridge
    BY <2>7 DEF GiveUpBridge, Goto
  <2>8. CASE BridgeGivenUp
    BY <2>8 DEF BridgeGivenUp, Goto
  <2>9. CASE EnterLoop
    BY <2>9 DEF EnterLoop, Goto, Record
  <2>10. CASE StorageAnomaly
    BY <2>10 DEF StorageAnomaly, Goto, Record
  <2>11. CASE StopFeeds
    BY <2>11 DEF StopFeeds, Goto
  <2>12. CASE StopRunner
    BY <2>12 DEF StopRunner, Goto
  <2>13. CASE StopTailers
    BY <2>13 DEF StopTailers, Goto
  <2>14. CASE StopForward
    BY <2>14 DEF StopForward, Goto
  <2>15. CASE BridgeStopped
    BY <2>15 DEF BridgeStopped, Goto
  <2>16. CASE RecordDeath
    BY <2>16 DEF RecordDeath, Goto, Record
  <2>17. CASE CloseStore
    BY <2>17 DEF CloseStore, Goto
  <2>18. CASE Exit
    BY <2>18 DEF Exit, Goto, ProcessGone
  <2>19. CASE DriftTick
    BY <2>19 DEF DriftTick, Record
  <2>20. CASE FeedAppends
    BY <2>20 DEF FeedAppends, Record
  <2>21. CASE ProbeFails
    BY <2>21 DEF ProbeFails
  <2>22. CASE ProbeWorks
    BY <2>22 DEF ProbeWorks
  <2>23. CASE Signal
    BY <2>23 DEF Signal, Goto
  <2>24. CASE Kill
    BY <2>24 DEF Kill, ProcessGone
  <2>25. CASE MirrorNext /\ UNCHANGED <<bridgeVars, mainVars>>
    <3>1. PICK p \in Pushes : \/ FetchETag(p) \/ PutAccepted(p) \/ PutReplyLost(p)
                             \/ PutFails(p) \/ PutRefused(p) \/ PutConflict(p)
                             \/ Result(p) \/ AppendResult(p)
      BY <2>25 DEF MirrorNext
    <3>2. CASE AppendResult(p)
      BY <3>2, <2>25 DEF AppendResult, Record
    <3>3. CASE ~ AppendResult(p)
      <4>1. last' = last /\ mishaps \subseteq mishaps'
        BY <3>1, <3>3 DEF FetchETag, PutAccepted, PutReplyLost, PutFails, PutRefused,
           PutConflict, Result, Accept
      <4> QED BY <4>1, <2>25
    <3> QED BY <3>2, <3>3
  <2>26. CASE BridgeNext /\ UNCHANGED <<mirrorVars, mainVars>>
    <3>1. CASE WriteStderr
      BY <3>1, <2>26 DEF WriteStderr, Record
    <3>2. CASE StoreReceipt
      BY <3>2, <2>26 DEF StoreReceipt, Record
    <3>3. CASE WriteReceipt \/ PipelockExits \/ Scan \/ FinalScan \/ Receive \/ Drained
      BY <3>3, <2>26 DEF WriteReceipt, PipelockExits, Scan, FinalScan, Receive, Drained
    <3>4. ASSUME NEW f \in Files,
                 \/ Follow(f) \/ ReadReceipt(f) \/ SendReceipt(f) \/ NoticeStop(f)
                 \/ FollowerDone(f) \/ DrainTimeout(f) \/ FollowerFails(f)
          PROVE  last' = last /\ mishaps \subseteq mishaps'
      BY <3>4 DEF Follow, ReadReceipt, SendReceipt, NoticeStop, FollowerDone, DrainTimeout,
         FollowerFails
    <3> QED BY <3>1, <3>2, <3>3, <3>4, <2>26 DEF BridgeNext
  <2>27. CASE UNCHANGED vars
    BY <2>27 DEF vars
  <2> QED
    BY <2>1, <2>2, <2>3, <2>4, <2>5, <2>6, <2>7, <2>8, <2>9, <2>10, <2>11, <2>12, <2>13,
       <2>14, <2>15, <2>16, <2>17, <2>18, <2>19, <2>20, <2>21, <2>22, <2>23, <2>24, <2>25,
       <2>26, <2>27 DEF Next, Main
<1> QED
  BY <1>1, <1>2, ControlInvariant, PTL DEF Spec

\* The downtime a start records (lifecycle.Downtime) is CRITICAL if and only if the
\* daemon did not end with a recorded stop, however starts, crashes, pushes, receipts
\* and feeds interleave, as long as no append failed and no push result came after
\* DEATH.
THEOREM DowntimeIsRight == Spec => []DowntimeRight
<1>1. ControlInv /\ DowntimeInv => DowntimeRight
  BY DEF ControlInv, DowntimeInv, DowntimeRight, LogKept, Tells, Downtime
<1> QED
  BY <1>1, ControlInvariant, DowntimeInvariant, PTL

-----------------------------------------------------------------------------
(***************************************************************************)
(* A step other than those of the pushes and the end of the process keeps  *)
(* the mirror as it is, but for one push that may be started.              *)
(***************************************************************************)
MirrorKept == UNCHANGED mirrorVars /\ mishaps \subseteq mishaps'

\* What each step of the daemon does to the mirror.
LEMMA MirrorSteps ==
    ASSUME ControlInv, Next
    PROVE  \/ MirrorKept /\ (mpc' = "down" => mpc = "down") /\ (open' => open \/ mpc = "down")
           \/ TryPush /\ UNCHANGED open /\ mpc' = "loop" /\ mishaps \subseteq mishaps'
           \/ MirrorGone /\ mpc' = "down" /\ ~ open' /\ mishaps \subseteq mishaps'
           \/ MirrorNext /\ UNCHANGED <<bridgeVars, mainVars>>
<1> USE DEF ControlInv, MirrorKept, Early, Serving, Ended, logVars, mirrorVars,
        bridgeVars, mainVars
<1>1. CASE OpenStore
  BY <1>1 DEF OpenStore, Goto
<1>2. CASE RecordWarnings
  BY <1>2 DEF RecordWarnings, Goto, Record
<1>3. CASE RecordDowntime
  BY <1>3 DEF RecordDowntime, Goto, Record
<1>4. CASE RecordMirrorConfig
  BY <1>4 DEF RecordMirrorConfig, Goto, Record
<1>5. CASE LaunchBridge
  BY <1>5 DEF LaunchBridge, Goto
<1>6. CASE BridgeUp
  BY <1>6 DEF BridgeUp, Goto
<1>7. CASE GiveUpBridge
  BY <1>7 DEF GiveUpBridge, Goto
<1>8. CASE BridgeGivenUp
  BY <1>8 DEF BridgeGivenUp, Goto
<1>9. CASE EnterLoop
  BY <1>9 DEF EnterLoop, Goto, Record, PushHead
<1>10. CASE StorageAnomaly
  BY <1>10 DEF StorageAnomaly, Goto, Record
<1>11. CASE StopFeeds
  BY <1>11 DEF StopFeeds, Goto
<1>12. CASE StopRunner
  BY <1>12 DEF StopRunner, Goto
<1>13. CASE StopTailers
  BY <1>13 DEF StopTailers, Goto
<1>14. CASE StopForward
  BY <1>14 DEF StopForward, Goto, Undiscovered
<1>15. CASE BridgeStopped
  BY <1>15 DEF BridgeStopped, Goto
<1>16. CASE RecordDeath
  BY <1>16 DEF RecordDeath, Goto, Record
<1>17. CASE CloseStore
  BY <1>17 DEF CloseStore, Goto
<1>18. CASE Exit
  BY <1>18 DEF Exit, Goto, ProcessGone
<1>19. CASE DriftTick
  BY <1>19 DEF DriftTick, Record, PushHead
<1>20. CASE FeedAppends
  BY <1>20 DEF FeedAppends, Record
<1>21. CASE ProbeFails
  BY <1>21 DEF ProbeFails
<1>22. CASE ProbeWorks
  BY <1>22 DEF ProbeWorks
<1>23. CASE Signal
  BY <1>23 DEF Signal, Goto
<1>24. CASE Kill
  BY <1>24 DEF Kill, ProcessGone
<1>25. CASE BridgeNext /\ UNCHANGED <<mirrorVars, mainVars>>
  <2>1. open' = open /\ mishaps \subseteq mishaps'
    BY <1>25 DEF BridgeNext, WriteReceipt, WriteStderr, PipelockExits, Scan, FinalScan,
       Receive,
       StoreReceipt, Drained, Follow, ReadReceipt, SendReceipt, NoticeStop, FollowerDone,
       DrainTimeout, FollowerFails, Record
  <2> QED BY <2>1, <1>25
<1> QED
  BY <1>1, <1>2, <1>3, <1>4, <1>5, <1>6, <1>7, <1>8, <1>9, <1>10, <1>11, <1>12, <1>13,
     <1>14, <1>15, <1>16, <1>17, <1>18, <1>19, <1>20, <1>21, <1>22, <1>23, <1>24,
     <1>25 DEF Next, Main

\* A failed attempt goes on, or is the last and gives its result.
LEMMA RetryPush ==
    ASSUME push \in [Pushes -> PushStates], NEW p \in Pushes,
           NEW pc \in {"etag", "put"}, NEW err \in BOOLEAN, Retry(p, pc, err)
    PROVE  \E r \in PushStates :
               /\ push' = [push EXCEPT ![p] = r]
               /\ r.pc \in {pc, "result"}
               /\ r.pc = "result" => r.err = err /\ push[p].attempt + 1 = maxPushRetries
<1>1. CASE push[p].attempt + 1 = maxPushRetries
  <2> DEFINE r == [NoPush EXCEPT !.pc = "result", !.err = err]
  <2>1. r \in PushStates /\ r.pc = "result" /\ r.err = err
    BY DEF PushStates, NoPush
  <2> QED BY <1>1, <2>1 DEF Retry, Finish
<1>2. CASE push[p].attempt + 1 # maxPushRetries
  <2>1. push[p] \in PushStates /\ push[p].attempt + 1 \in Nat
    BY DEF PushStates
  <2> DEFINE next == push[p].attempt + 1
             r == [push[p] EXCEPT !.pc = pc, !.attempt = next, !.err = err]
  <2> HIDE DEF next
  <2>2. r \in PushStates /\ r.pc = pc
    BY <2>1 DEF PushStates, next
  <2>3. push' = [push EXCEPT ![p] = r]
    BY <1>2 DEF Retry, next
  <2> QED BY <2>2, <2>3
<1> QED BY <1>1, <1>2

\* A push that finishes has its result.
LEMMA FinishPush ==
    ASSUME push \in [Pushes -> PushStates], NEW p \in Pushes, NEW err \in BOOLEAN, Finish(p, err)
    PROVE  \E r \in PushStates :
               push' = [push EXCEPT ![p] = r] /\ r.pc = "result" /\ r.err = err
<1> DEFINE r == [NoPush EXCEPT !.pc = "result", !.err = err]
<1>1. r \in PushStates /\ r.pc = "result" /\ r.err = err
  BY DEF PushStates, NoPush
<1> QED BY <1>1 DEF Finish

\* Push p asks the mirror, once: it goes on, or it has its result.  Without an error
\* the head was taken, unless every attempt met a 412.
Attempt(p, r) ==
    /\ push' = [push EXCEPT ![p] = r]
    /\ push[p].pc \in {"etag", "put"}
    /\ r.pc \in {"etag", "put", "result"}
    /\ UNCHANGED <<pushed, failures, said, open>> /\ mishaps \subseteq mishaps'
    /\ remote' = remote \/ (remote' = p /\ (remote > p => "disorder" \in mishaps'))
    /\ r.pc = "result" /\ ~ r.err => remote' = p \/ "beaten" \in mishaps'

\* Each request of a push to the mirror is one Attempt.
LEMMA PushAttempts ==
    ASSUME MirrorType, NEW p \in Pushes,
           \/ FetchETag(p) \/ PutAccepted(p) \/ PutReplyLost(p) \/ PutFails(p)
           \/ PutRefused(p) \/ PutConflict(p)
    PROVE  \E r \in PushStates : Attempt(p, r)
<1> USE DEF Attempt, At, logVars
<1>1. push \in [Pushes -> PushStates] /\ push[p] \in PushStates /\ push[p].err \in BOOLEAN
  BY DEF MirrorType, PushStates
<1>2. CASE FetchETag(p)
  <2>1. PICK etag \in {remote, 0} : push' = [push EXCEPT ![p].pc = "put", ![p].etag = etag]
    BY <1>2 DEF FetchETag
  <2> DEFINE r == [push[p] EXCEPT !.pc = "put", !.etag = etag]
  <2>0. etag \in Nat
    BY DEF MirrorType
  <2>2. r \in PushStates /\ r.pc = "put"
    BY <1>1, <2>0 DEF PushStates
  <2>3. push' = [push EXCEPT ![p] = r]
    BY <1>1, <2>1
  <2> QED BY <1>2, <2>2, <2>3 DEF FetchETag
<1>3. CASE PutAccepted(p)
  <2>1. PICK r \in PushStates :
            push' = [push EXCEPT ![p] = r] /\ r.pc = "result" /\ r.err = FALSE
    BY <1>1, <1>3, FinishPush DEF PutAccepted
  <2> QED BY <1>3, <2>1 DEF PutAccepted, Accept
<1>4. CASE PutReplyLost(p)
  <2>1. PICK r \in PushStates : /\ push' = [push EXCEPT ![p] = r]
                                /\ r.pc \in {"put", "result"}
                                /\ r.pc = "result" => r.err = TRUE
    BY <1>1, <1>4, RetryPush DEF PutReplyLost
  <2> QED BY <1>4, <2>1 DEF PutReplyLost, Accept
<1>5. CASE PutFails(p)
  <2>1. PICK r \in PushStates : /\ push' = [push EXCEPT ![p] = r]
                                /\ r.pc \in {"put", "result"}
                                /\ r.pc = "result" => r.err = TRUE
    BY <1>1, <1>5, RetryPush DEF PutFails
  <2> QED BY <1>5, <2>1 DEF PutFails
<1>6. CASE PutRefused(p)
  <2>1. PICK r \in PushStates :
            push' = [push EXCEPT ![p] = r] /\ r.pc = "result" /\ r.err = TRUE
    BY <1>1, <1>6, FinishPush DEF PutRefused
  <2> QED BY <1>6, <2>1 DEF PutRefused
<1>7. CASE PutConflict(p)
  <2>1. PICK r \in PushStates :
            /\ push' = [push EXCEPT ![p] = r]
            /\ r.pc \in {"etag", "result"}
            /\ r.pc = "result" =>
                   r.err = push[p].err /\ push[p].attempt + 1 = maxPushRetries
    BY <1>1, <1>7, RetryPush DEF PutConflict
  <2> QED BY <1>7, <2>1 DEF PutConflict
<1> QED BY <1>2, <1>3, <1>4, <1>5, <1>6, <1>7

\* A push hands its result to MirrorHealth, and then appends what it was told.
LEMMA PushResults ==
    ASSUME MirrorType, NEW p \in Pushes, Result(p) \/ AppendResult(p)
    PROVE  \E r \in PushStates :
               /\ push' = [push EXCEPT ![p] = r]
               /\ UNCHANGED <<remote, pushed, open>> /\ mishaps \subseteq mishaps'
               /\ Result(p) => /\ r.event = Health(push[p].err).event
                               /\ r.pc = IF r.event = "none" THEN "done" ELSE "append"
               /\ AppendResult(p) => r.pc = "done"
<1>1. Health(push[p].err).event \in {"none", "failed", "unreachable", "recovered"}
  BY DEF Health
<1>2. CASE Result(p)
  <2> DEFINE event == Health(push[p].err).event
             r == [NoPush EXCEPT !.pc = IF event = "none" THEN "done" ELSE "append",
                                 !.event = event]
  <2>1. push' = [push EXCEPT ![p] = r]
    BY <1>2 DEF Result
  <2> HIDE DEF event
  <2>2. r \in PushStates /\ r.event = event /\ r.pc = IF event = "none" THEN "done" ELSE "append"
    BY <1>1 DEF PushStates, NoPush, event
  <2>3. ~ AppendResult(p)
    BY <1>2 DEF Result, AppendResult, At
  <2> QED BY <1>2, <2>1, <2>2, <2>3 DEF Result, event
<1>3. CASE AppendResult(p)
  <2> DEFINE r == [NoPush EXCEPT !.pc = "done"]
  <2>1. r \in PushStates /\ r.pc = "done"
    BY DEF PushStates, NoPush
  <2>2. push' = [push EXCEPT ![p] = r] /\ UNCHANGED <<remote, pushed, open>>
        /\ mishaps \subseteq mishaps'
    BY <1>3 DEF AppendResult, Record
  <2>3. ~ Result(p)
    BY <1>3 DEF Result, AppendResult, At
  <2> QED BY <2>1, <2>2, <2>3
<1> QED BY <1>2, <1>3

\* The pushes keep their types, and only those that were started are at work.
LEMMA MirrorTypeInvariant == Spec => []MirrorType
<1> USE MirrorAssumption
<1>1. Init => MirrorType
  BY DEF Init, MirrorInit, MirrorType, NoPush, PushStates, At, Pushes
<1>2. ControlInv /\ MirrorType /\ [Next]_vars => MirrorType'
  <2> SUFFICES ASSUME ControlInv, MirrorType, [Next]_vars PROVE MirrorType'
    OBVIOUS
  <2>1. CASE MirrorKept /\ (mpc' = "down" => mpc = "down")
    BY <2>1 DEF MirrorKept, mirrorVars, MirrorType, At
  <2>2. CASE TryPush /\ mpc' = "loop"
    <3>1. CASE UNCHANGED mirrorVars
      BY <2>2, <3>1 DEF mirrorVars, MirrorType, At
    <3>2. CASE /\ pushed < MaxPushes /\ pushed' = pushed + 1
               /\ push' = [push EXCEPT ![pushed'].pc = "etag"]
               /\ UNCHANGED <<remote, failures, said>>
      <4>1. pushed + 1 \in Pushes
        BY <3>2 DEF MirrorType, Pushes
      <4> DEFINE r == [push[pushed + 1] EXCEPT !.pc = "etag"]
      <4>2. r \in PushStates
        BY <4>1 DEF MirrorType, PushStates
      <4>3. push' = [push EXCEPT ![pushed + 1] = r]
        BY <3>2
      <4> HIDE DEF r
      <4> QED BY <2>2, <3>2, <4>1, <4>2, <4>3 DEF MirrorType, At, Pushes
    <3> QED BY <2>2, <3>1, <3>2 DEF TryPush
  <2>3. CASE MirrorGone
    BY <2>3 DEF MirrorGone, MirrorType, NoPush, PushStates, At
  <2>4. CASE MirrorNext /\ UNCHANGED mpc
    <3>1. PICK p \in Pushes : \/ FetchETag(p) \/ PutAccepted(p) \/ PutReplyLost(p)
                             \/ PutFails(p) \/ PutRefused(p) \/ PutConflict(p)
                             \/ Result(p) \/ AppendResult(p)
      BY <2>4 DEF MirrorNext
    <3>2. CASE Result(p) \/ AppendResult(p)
      <4>1. push[p].pc \in {"result", "append"} /\ failures' \in Nat
        BY <3>2 DEF Result, AppendResult, Health, At, MirrorType
      <4>2. PICK r \in PushStates :
                push' = [push EXCEPT ![p] = r] /\ UNCHANGED <<remote, pushed>>
        BY <3>2, PushResults
      <4> QED BY <2>4, <4>1, <4>2 DEF MirrorType, At, Pushes
    <3>3. CASE ~ (Result(p) \/ AppendResult(p))
      <4>1. PICK r \in PushStates : Attempt(p, r)
        BY <3>1, <3>3, PushAttempts
      <4> QED BY <2>4, <4>1 DEF Attempt, MirrorType, At, Pushes
    <3> QED BY <3>2, <3>3
  <2>5. CASE UNCHANGED vars
    BY <2>5 DEF vars, mirrorVars, mainVars, MirrorType, At
  <2> QED
    BY <2>1, <2>2, <2>3, <2>4, <2>5, MirrorSteps DEF mainVars
<1> QED
  BY <1>1, <1>2, ControlInvariant, PTL DEF Spec

\* The last event said, or the one about to be appended, agrees with the count of failures.
LEMMA EventsInvariant ==
    ASSUME EscalateAfter > 1
    PROVE  Spec => []EventsInv
<1> USE MirrorAssumption
<1>1. Init => EventsInv
  BY DEF Init, LogInit, EventsInv
<1>2. ControlInv /\ MirrorType /\ EventsInv /\ [Next]_vars => EventsInv'
  <2> SUFFICES ASSUME ControlInv, MirrorType, EventsInv, [Next]_vars,
                      open', mishaps' \cap {"append", "disorder"} = {}
               PROVE  /\ (\A p \in Pushes : ~ At(p, "append")') => Agree(failures, said)'
                      /\ \A p \in Pushes : At(p, "append")' =>
                             /\ Agree(failures, push[p].event)'
                             /\ \A q \in Pushes : At(q, "append")' => q = p
    BY DEF EventsInv
  <2>1. CASE MirrorKept /\ (open' => open \/ mpc = "down")
    BY <2>1 DEF MirrorKept, mirrorVars, MirrorType, EventsInv, Agree, At
  <2>2. CASE TryPush /\ UNCHANGED open /\ mishaps \subseteq mishaps'
    <3>1. CASE UNCHANGED mirrorVars
      BY <2>2, <3>1 DEF mirrorVars, EventsInv, Agree, At
    <3>2. CASE /\ pushed < MaxPushes
               /\ push' = [push EXCEPT ![pushed + 1].pc = "etag"]
               /\ UNCHANGED <<remote, failures, said>>
      <4>1. pushed + 1 \in Pushes /\ push[pushed + 1].pc # "append"
        BY <3>2 DEF MirrorType, Pushes, At
      <4>2. /\ push'[pushed + 1].pc = "etag"
            /\ \A q \in Pushes : q # pushed + 1 => push'[q] = push[q]
        BY <3>2, <4>1 DEF MirrorType, PushStates
      <4> QED BY <2>2, <3>2, <4>1, <4>2 DEF EventsInv, Agree, At
    <3> QED BY <2>2, <3>1, <3>2 DEF TryPush
  <2>3. CASE MirrorGone /\ ~ open'
    BY <2>3
  <2>4. CASE MirrorNext
    <3>1. PICK p \in Pushes : \/ FetchETag(p) \/ PutAccepted(p) \/ PutReplyLost(p)
                             \/ PutFails(p) \/ PutRefused(p) \/ PutConflict(p)
                             \/ Result(p) \/ AppendResult(p)
      BY <2>4 DEF MirrorNext
    <3>2. CASE Result(p)
      <4>1. PICK r \in PushStates :
                /\ push' = [push EXCEPT ![p] = r] /\ UNCHANGED open
                /\ mishaps \subseteq mishaps'
                /\ r.event = Health(push[p].err).event
                /\ r.pc = IF r.event = "none" THEN "done" ELSE "append"
        BY <3>2, PushResults
      <4>2. /\ \A q \in Pushes : push[q].pc # "append"
            /\ Agree(failures, said)
        BY <3>2, <4>1 DEF Result, EventsInv, At
      <4>3. /\ push'[p].pc = (IF r.event = "none" THEN "done" ELSE "append")
            /\ push'[p].event = r.event
            /\ \A q \in Pushes : q # p => push'[q] = push[q]
        BY <4>1 DEF MirrorType
      <4>4. /\ r.event = "none" => Agree(failures', said)
            /\ r.event # "none" => Agree(failures', r.event)
        BY <3>2, <4>1, <4>2 DEF Result, Health, Agree, MirrorType
      <4>5. said' = said
        BY <3>2 DEF Result
      <4> QED BY <4>2, <4>3, <4>4, <4>5 DEF Agree, At
    <3>3. CASE AppendResult(p)
      <4>1. PICK r \in PushStates :
                /\ push' = [push EXCEPT ![p] = r] /\ UNCHANGED open
                /\ mishaps \subseteq mishaps' /\ r.pc = "done"
        BY <3>3, PushResults
      <4>2. /\ push'[p].pc = "done"
            /\ \A q \in Pushes : q # p => push'[q] = push[q]
        BY <4>1 DEF MirrorType
      <4>3. /\ Agree(failures, push[p].event)
            /\ \A q \in Pushes : q # p => push[q].pc # "append"
        BY <3>3, <4>1 DEF AppendResult, EventsInv, At
      <4>4. said' = push[p].event /\ failures' = failures
        BY <3>3, <4>1 DEF AppendResult, Recorded
      <4> QED BY <4>2, <4>3, <4>4 DEF Agree, At
    <3>4. CASE ~ (Result(p) \/ AppendResult(p))
      <4>1. PICK r \in PushStates : Attempt(p, r)
        BY <3>1, <3>4, PushAttempts
      <4>2. /\ push'[p].pc # "append" /\ push[p].pc # "append"
            /\ \A q \in Pushes : q # p => push'[q] = push[q]
        BY <4>1 DEF Attempt, MirrorType
      <4> QED BY <4>1, <4>2 DEF Attempt, EventsInv, Agree, At
    <3> QED BY <3>2, <3>3, <3>4
  <2>5. CASE UNCHANGED vars
    BY <2>5 DEF vars, logVars, mirrorVars, EventsInv, Agree, At
  <2> QED
    BY <2>1, <2>2, <2>3, <2>4, <2>5, MirrorSteps
<1> QED
  BY <1>1, <1>2, ControlInvariant, MirrorTypeInvariant, PTL DEF Spec

\* A push without an error has left its head, or a newer one, on the mirror.
LEMMA HeadInvariant == Spec => []HeadInv
<1> USE MirrorAssumption
<1>1. Init => HeadInv
  BY DEF Init, MirrorInit, HeadInv, NoPush, At
<1>2. ControlInv /\ MirrorType /\ HeadInv /\ [Next]_vars => HeadInv'
  <2> SUFFICES ASSUME ControlInv, MirrorType, HeadInv, [Next]_vars,
                      mishaps' \cap {"disorder", "beaten"} = {}
               PROVE  /\ \A p \in Pushes : At(p, "result")' /\ ~ push'[p].err => remote' >= p
                      /\ pushed' > 0 /\ push'[pushed'].pc \in {"append", "done"}
                            /\ failures' = 0
                         => remote' = pushed'
    BY DEF HeadInv
  <2>1. CASE MirrorKept
    BY <2>1 DEF MirrorKept, mirrorVars, HeadInv, At
  <2>2. CASE TryPush /\ mishaps \subseteq mishaps'
    <3>1. CASE UNCHANGED mirrorVars
      BY <2>2, <3>1 DEF mirrorVars, HeadInv, At
    <3>2. CASE /\ pushed < MaxPushes /\ pushed' = pushed + 1
               /\ push' = [push EXCEPT ![pushed + 1].pc = "etag"]
               /\ UNCHANGED <<remote, failures, said>>
      <4>1. pushed + 1 \in Pushes
        BY <3>2 DEF MirrorType, Pushes
      <4>2. /\ push'[pushed + 1].pc = "etag"
            /\ \A q \in Pushes : q # pushed + 1 => push'[q] = push[q]
        BY <3>2, <4>1 DEF MirrorType, PushStates
      <4> QED BY <2>2, <3>2, <4>1, <4>2 DEF HeadInv, At
    <3> QED BY <2>2, <3>1, <3>2 DEF TryPush
  <2>3. CASE MirrorGone
    BY <2>3 DEF MirrorGone, MirrorType, NoPush, At, Pushes
  <2>4. CASE MirrorNext
    <3>1. PICK p \in Pushes : \/ FetchETag(p) \/ PutAccepted(p) \/ PutReplyLost(p)
                             \/ PutFails(p) \/ PutRefused(p) \/ PutConflict(p)
                             \/ Result(p) \/ AppendResult(p)
      BY <2>4 DEF MirrorNext
    <3>2. CASE Result(p)
      <4>1. PICK r \in PushStates :
                /\ push' = [push EXCEPT ![p] = r] /\ UNCHANGED <<remote, pushed>>
                /\ mishaps \subseteq mishaps'
                /\ r.pc = IF r.event = "none" THEN "done" ELSE "append"
        BY <3>2, PushResults
      <4>2. /\ push'[p].pc \in {"done", "append"}
            /\ \A q \in Pushes : q # p => push'[q] = push[q]
        BY <4>1 DEF MirrorType
      <4>3. \A q \in Pushes : push[q].pc # "append" /\ (q > p => push[q].pc # "done")
        BY <3>2 DEF Result, At
      <4>4. failures' = 0 => ~ push[p].err
        BY <3>2 DEF Result, Health, MirrorType
      <4>5. failures' = 0 => remote >= p
        BY <3>2, <4>1, <4>4 DEF Result, HeadInv, At
      <4>6. p <= pushed /\ pushed \in Pushes
        BY <3>2 DEF Result, MirrorType, At, Pushes
      <4>7. push'[pushed].pc \in {"append", "done"} => pushed = p
        BY <4>2, <4>3, <4>6 DEF Pushes
      <4> QED BY <4>1, <4>2, <4>5, <4>7 DEF HeadInv, MirrorType, At, Pushes
    <3>3. CASE AppendResult(p)
      <4>1. PICK r \in PushStates :
                /\ push' = [push EXCEPT ![p] = r] /\ UNCHANGED <<remote, pushed>>
                /\ mishaps \subseteq mishaps' /\ r.pc = "done"
        BY <3>3, PushResults
      <4>2. /\ push'[p].pc = "done" /\ push[p].pc = "append" /\ failures' = failures
            /\ \A q \in Pushes : q # p => push'[q] = push[q]
        BY <3>3, <4>1 DEF AppendResult, MirrorType, At
      <4> QED BY <4>1, <4>2 DEF HeadInv, MirrorType, At, Pushes
    <3>4. CASE ~ (Result(p) \/ AppendResult(p))
      <4>1. PICK r \in PushStates : Attempt(p, r)
        BY <3>1, <3>4, PushAttempts
      <4>2. /\ push'[p] = r /\ r.pc \notin {"append", "done"}
            /\ \A q \in Pushes : q # p => push'[q] = push[q]
        BY <4>1 DEF Attempt, MirrorType
      <4>3. remote' >= remote /\ remote' \in Nat
        BY <4>1 DEF Attempt, MirrorType, Pushes
      <4>4. r.pc = "result" /\ ~ r.err => remote' >= p
        BY <4>1 DEF Attempt, Pushes
      <4>5. p <= pushed /\ remote' <= pushed
        BY <4>1 DEF Attempt, MirrorType, At, Pushes
      <4> QED BY <4>1, <4>2, <4>3, <4>4, <4>5 DEF Attempt, HeadInv, MirrorType, At, Pushes
    <3> QED BY <3>2, <3>3, <3>4
  <2>5. CASE UNCHANGED vars
    BY <2>5 DEF vars, logVars, mirrorVars, HeadInv, At
  <2> QED
    BY <2>1, <2>2, <2>3, <2>4, <2>5, MirrorSteps
<1> QED
  BY <1>1, <1>2, ControlInvariant, MirrorTypeInvariant, PTL DEF Spec

\* What the log says last of the mirror (lifecycle.MirrorHealth) is what the pushes
\* have found, whatever the number of pushes that overlap and however their requests
\* fail: with no result overtaken, "unreachable" stands there from the EscalateAfter-th
\* failure on, a success ends it, and the mirror then holds the newest head.  An
\* EscalateAfter of 1 is left out: MirrorHealth never says "unreachable" then.
THEOREM MirrorEventsAreRight ==
    ASSUME EscalateAfter > 1
    PROVE  Spec => []MirrorEventsRight
<1>1. MirrorType /\ EventsInv /\ HeadInv => MirrorEventsRight
  <2> SUFFICES ASSUME MirrorType, EventsInv, HeadInv,
                      open, mishaps \cap {"append", "disorder"} = {},
                      \A p \in Pushes : push[p].pc \in {"none", "done"}
               PROVE  /\ Agree(failures, said)
                      /\ failures = 0 /\ pushed > 0 /\ "beaten" \notin mishaps =>
                             push[pushed].pc = "none" \/ remote = pushed
    BY DEF MirrorEventsRight, Agree
  <2>1. Agree(failures, said)
    BY DEF EventsInv, At
  <2>2. ASSUME failures = 0, pushed > 0, "beaten" \notin mishaps
        PROVE  push[pushed].pc = "none" \/ remote = pushed
    BY <2>2 DEF HeadInv, MirrorType, Pushes
  <2> QED BY <2>1, <2>2
<1> QED
  BY <1>1, MirrorTypeInvariant, EventsInvariant, HeadInvariant, PTL

-----------------------------------------------------------------------------
\* The bridge's variables keep their types.
LEMMA BridgeTypeInvariant == Spec => []BridgeType
<1>0. <<>> \in Seq(Nat \X Nat)
  OBVIOUS
<1>1. Init => BridgeType
  <2> SUFFICES ASSUME Init PROVE BridgeType
    OBVIOUS
  <2>1. /\ lines \in [Files -> Nat] /\ fpos \in [Files -> Nat]
        /\ fpc \in [Files -> FollowerStates]
    BY DEF Init, BridgeInit, FollowerStates
  <2> QED BY <1>0, <2>1 DEF Init, BridgeInit, BridgeType
<1>2. ControlInv /\ BridgeType /\ [Next]_vars => BridgeType'
  <2> SUFFICES ASSUME ControlInv, BridgeType, [Next]_vars PROVE BridgeType'
    OBVIOUS
  <2> USE DEF ControlInv, BridgeType, Alive, Early, Serving, Ended, BridgeUpStates, bridgeVars,
          mainVars
  <2>1. CASE OpenStore
    BY <2>1 DEF OpenStore, Goto
  <2>2. CASE RecordWarnings
    BY <2>2 DEF RecordWarnings, Goto
  <2>3. CASE RecordDowntime
    BY <2>3 DEF RecordDowntime, Goto
  <2>4. CASE RecordMirrorConfig
    BY <2>4 DEF RecordMirrorConfig, Goto
  <2>5. CASE LaunchBridge
    BY <2>5 DEF LaunchBridge, Goto, LaunchPipelock
  <2>6. CASE BridgeUp
    BY <2>6 DEF BridgeUp, Goto, StartGoroutines
  <2>7. CASE GiveUpBridge
    BY <2>7 DEF GiveUpBridge, Goto, Interrupt
  <2>8. CASE BridgeGivenUp
    BY <2>8 DEF BridgeGivenUp, Goto
  <2>9. CASE EnterLoop
    BY <2>9 DEF EnterLoop, Goto
  <2>10. CASE StorageAnomaly
    BY <2>10 DEF StorageAnomaly, Goto
  <2>11. CASE StopFeeds
    BY <2>11 DEF StopFeeds, Goto
  <2>12. CASE StopRunner
    BY <2>12 DEF StopRunner, Goto, Interrupt
  <2>13. CASE StopTailers
    BY <2>13 DEF StopTailers, Goto, CloseStop
  <2>14. CASE StopForward
    BY <2>14 DEF StopForward, Goto, CloseForward
  <2>15. CASE BridgeStopped
    BY <2>15 DEF BridgeStopped, Goto
  <2>16. CASE RecordDeath
    BY <2>16 DEF RecordDeath, Goto
  <2>17. CASE CloseStore
    BY <2>17 DEF CloseStore, Goto
  <2>18. CASE Exit
    BY <1>0, <2>18 DEF Exit, Goto, ProcessGone, BridgeGone, FollowerStates
  <2>19. CASE DriftTick
    BY <2>19 DEF DriftTick
  <2>20. CASE FeedAppends
    BY <2>20 DEF FeedAppends
  <2>21. CASE ProbeFails
    BY <2>21 DEF ProbeFails
  <2>22. CASE ProbeWorks
    BY <2>22 DEF ProbeWorks
  <2>23. CASE Signal
    BY <2>23 DEF Signal, Goto
  <2>24. CASE Kill
    BY <1>0, <2>24 DEF Kill, ProcessGone, BridgeGone, FollowerStates
  <2>25. CASE UNCHANGED <<bridgeVars, mainVars>>
    BY <2>25
  <2>26. CASE BridgeNext /\ UNCHANGED mainVars
    <3>1. CASE WriteReceipt
      BY <3>1, <2>26 DEF WriteReceipt
    <3>2. CASE WriteStderr
      BY <3>2, <2>26 DEF WriteStderr
    <3>3. CASE PipelockExits
      BY <3>3, <2>26 DEF PipelockExits
    <3>4. CASE Scan \/ FinalScan
      BY <3>4, <2>26 DEF Scan, FinalScan, Discover, FollowerStates
    <3>5. CASE Receive
      <4>1. chan # <<>> /\ chan' = Tail(chan) /\ chan' \in Seq(Nat \X Nat)
        BY <3>5 DEF Receive
      <4> QED BY <3>5, <4>1, <2>26 DEF Receive
    <3>6. CASE StoreReceipt
      BY <3>6, <2>26 DEF StoreReceipt
    <3>7. CASE Drained
      BY <3>7, <2>26 DEF Drained
    <3>8. ASSUME NEW f \in Files, Follow(f) PROVE BridgeType'
      BY <3>8, <2>26 DEF Follow, FollowerStates
    <3>9. ASSUME NEW f \in Files, ReadReceipt(f) PROVE BridgeType'
      BY <3>9, <2>26 DEF ReadReceipt, FollowerStates
    <3>10. ASSUME NEW f \in Files, SendReceipt(f) PROVE BridgeType'
      <4>1. <<f, fpos[f]>> \in Nat \X Nat
        BY BridgeAssumption DEF Files
      <4>2. chan' \in Seq(Nat \X Nat)
        BY <3>10, <4>1 DEF SendReceipt
      <4> QED BY <3>10, <4>2, <2>26 DEF SendReceipt, FollowerStates
    <3>11. ASSUME NEW f \in Files, NoticeStop(f) PROVE BridgeType'
      BY <3>11, <2>26 DEF NoticeStop, FollowerStates
    <3>12. ASSUME NEW f \in Files, FollowerDone(f) PROVE BridgeType'
      BY <3>12, <2>26 DEF FollowerDone, FollowerStates
    <3>13. ASSUME NEW f \in Files, DrainTimeout(f) PROVE BridgeType'
      BY <3>13, <2>26 DEF DrainTimeout, FollowerStates
    <3>14. ASSUME NEW f \in Files, FollowerFails(f) PROVE BridgeType'
      BY <3>14, <2>26 DEF FollowerFails, FollowerStates
    <3> QED
      BY <3>1, <3>2, <3>3, <3>4, <3>5, <3>6, <3>7, <3>8, <3>9, <3>10, <3>11,
         <3>12, <3>13, <3>14, <2>26 DEF BridgeNext
  <2> QED
    BY <2>1, <2>2, <2>3, <2>4, <2>5, <2>6, <2>7, <2>8, <2>9, <2>10, <2>11, <2>12, <2>13,
       <2>14, <2>15, <2>16, <2>17, <2>18, <2>19, <2>20, <2>21, <2>22, <2>23, <2>24, <2>25,
       <2>26 DEF Next, Main, vars
<1> QED
  BY <1>1, <1>2, ControlInvariant, PTL DEF Spec

(***************************************************************************)
(* A step of the main goroutine or of a push that is neither the end of    *)
(* the wait for the followers nor the end of the process.                  *)
(***************************************************************************)
BridgeKept ==
    /\ UNCHANGED <<lines, fpc, fpos, chan, hand, stored, skipped>>
    /\ mishaps \subseteq mishaps'
    /\ estop => estop'
    /\ cpc' = "done" => cpc = "done"
    /\ mpc' \in Stopped /\ enabled' => mpc \in Stopped /\ enabled

\* What each step of the daemon does to the bridge.
LEMMA BridgeSteps ==
    ASSUME ControlInv, BridgeType, Next
    PROVE  \/ BridgeKept \/ StopForward
           \/ BridgeGone /\ mpc' = "down"
           \/ BridgeNext /\ UNCHANGED mainVars
<1> USE DEF ControlInv, BridgeType, BridgeKept, Stopped, BridgeUpStates, logVars,
        bridgeVars, mainVars
<1>1. CASE OpenStore
  BY <1>1 DEF OpenStore, Goto
<1>2. CASE RecordWarnings
  BY <1>2 DEF RecordWarnings, Goto, Record
<1>3. CASE RecordDowntime
  BY <1>3 DEF RecordDowntime, Goto, Record
<1>4. CASE RecordMirrorConfig
  BY <1>4 DEF RecordMirrorConfig, Goto, Record
<1>5. CASE LaunchBridge
  BY <1>5 DEF LaunchBridge, Goto, LaunchPipelock
<1>6. CASE BridgeUp
  BY <1>6 DEF BridgeUp, Goto, StartGoroutines
<1>7. CASE GiveUpBridge
  BY <1>7 DEF GiveUpBridge, Goto, Interrupt
<1>8. CASE BridgeGivenUp
  BY <1>8 DEF BridgeGivenUp, Goto
<1>9. CASE EnterLoop
  BY <1>9 DEF EnterLoop, Goto, Record
<1>10. CASE StorageAnomaly
  BY <1>10 DEF StorageAnomaly, Goto, Record
<1>11. CASE StopFeeds
  BY <1>11 DEF StopFeeds, Goto
<1>12. CASE StopRunner
  BY <1>12 DEF StopRunner, Goto, Interrupt
<1>13. CASE StopTailers
  BY <1>13 DEF StopTailers, Goto, CloseStop
<1>14. CASE StopForward
  BY <1>14
<1>15. CASE BridgeStopped
  BY <1>15 DEF BridgeStopped, Goto
<1>16. CASE RecordDeath
  BY <1>16 DEF RecordDeath, Goto, Record
<1>17. CASE CloseStore
  BY <1>17 DEF CloseStore, Goto
<1>18. CASE Exit
  BY <1>18 DEF Exit, Goto, ProcessGone
<1>19. CASE DriftTick
  BY <1>19 DEF DriftTick, Record
<1>20. CASE FeedAppends
  BY <1>20 DEF FeedAppends, Record
<1>21. CASE ProbeFails
  BY <1>21 DEF ProbeFails
<1>22. CASE ProbeWorks
  BY <1>22 DEF ProbeWorks
<1>23. CASE Signal
  BY <1>23 DEF Signal, Goto
<1>24. CASE Kill
  BY <1>24 DEF Kill, ProcessGone
<1>25. CASE MirrorNext /\ UNCHANGED <<bridgeVars, mainVars>>
  <2>1. mishaps \subseteq mishaps'
    BY <1>25 DEF MirrorNext, FetchETag, PutAccepted, PutReplyLost, PutFails, PutRefused,
       PutConflict, Result, AppendResult, Accept, Record
  <2> QED BY <2>1, <1>25
<1> QED
  BY <1>1, <1>2, <1>3, <1>4, <1>5, <1>6, <1>7, <1>8, <1>9, <1>10, <1>11, <1>12, <1>13,
     <1>14, <1>15, <1>16, <1>17, <1>18, <1>19, <1>20, <1>21, <1>22, <1>23, <1>24,
     <1>25 DEF Next, Main

\* Every receipt is accounted for: stored, on its way, unread, or skipped as history.
LEMMA ReceiptsInvariant == Spec => []ReceiptsInv
<1> USE BridgeAssumption
<1>1. Init => ReceiptsInv
  BY DEF Init, BridgeInit, ReceiptsInv, Accounted, FollowersInv, Receipts, Files, Stopped
<1>2. ControlInv /\ BridgeType /\ ReceiptsInv /\ [Next]_vars => ReceiptsInv'
  <2> SUFFICES ASSUME ControlInv, BridgeType, ReceiptsInv, [Next]_vars, Complete'
               PROVE  Accounted' /\ FollowersInv'
    BY DEF ReceiptsInv
  <2>0. \A r \in Receipts : r[1] \in Files /\ r[2] \in Nat \ {0} /\ r # NoReceipt
    BY DEF Receipts, Files, NoReceipt
  <2> USE DEF Accounted, FollowersInv, OnItsWay, Complete
  <2>1. CASE BridgeKept
    BY <2>1 DEF BridgeKept, ReceiptsInv
  <2>2. CASE StopForward
    <3>1. /\ mishaps' = mishaps \cup {k \in {"unscanned"} : Undiscovered}
          /\ FollowersDone /\ cpc' = "drain"
          /\ UNCHANGED <<lines, estop, fpc, fpos, chan, hand, stored, skipped>>
      BY <2>2 DEF StopForward, CloseForward
    <3>2. ~ Undiscovered
      BY <3>1
    <3>3. Accounted /\ FollowersInv
      BY <3>1 DEF ReceiptsInv
    <3>4. \A f \in Files : fpc[f] = "done" \/ (fpc[f] = "none" /\ lines[f] = 0)
      BY <3>1, <3>2 DEF FollowersDone, Undiscovered, BridgeType
    <3> QED BY <3>1, <3>3, <3>4
  <2>3. CASE BridgeGone /\ mpc' = "down"
    BY <2>0, <2>3 DEF BridgeGone, Stopped
  <2>4. CASE BridgeNext /\ UNCHANGED mainVars
    <3> USE <2>4 DEF mainVars
    <3>0. ASSUME mishaps \subseteq mishaps' PROVE Accounted /\ FollowersInv
      BY <3>0 DEF ReceiptsInv
    <3>1. CASE WriteReceipt
      BY <3>0, <3>1 DEF WriteReceipt, logVars, ControlInv, BridgeType, Alive, Stopped
    <3>2. CASE WriteStderr
      BY <3>0, <3>2 DEF WriteStderr, Record, bridgeVars
    <3>3. CASE PipelockExits
      BY <3>0, <3>3 DEF PipelockExits, logVars
    <3>4. CASE Scan \/ FinalScan
      <4>1. \A f \in Files : \/ fpc'[f] = fpc[f]
                             \/ /\ fpc[f] = "none" /\ lines[f] > 0
                                /\ fpc'[f] \in {"atend", "atstart"}
        BY <3>4 DEF Scan, FinalScan, Discover
      <4>2. UNCHANGED <<lines, estop, enabled, fpos, chan, cpc, hand, stored, skipped, mishaps>>
        BY <3>4 DEF Scan, FinalScan, logVars
      <4>3. Accounted'
        BY <2>0, <3>0, <4>1, <4>2
      <4>4. FollowersInv'
        BY <3>0, <4>1, <4>2 DEF BridgeType
      <4> QED BY <4>3, <4>4
    <3>5. CASE Receive
      <4>1. /\ UNCHANGED <<lines, estop, enabled, fpc, fpos, stored, skipped, mishaps>>
            /\ cpc' # "done" /\ hand = NoReceipt
            /\ chan # <<>> /\ hand' = Head(chan) /\ chan' = Tail(chan)
        BY <3>5 DEF Receive, logVars, BridgeType
      <4>2. ASSUME NEW r, NEW k \in 1 .. Len(chan), chan[k] = r
            PROVE  r = hand' \/ \E i \in 1 .. Len(chan') : chan'[i] = r
        <5>1. CASE k = 1
          BY <4>1, <4>2, <5>1 DEF BridgeType
        <5>2. CASE k # 1
          <6>1. k - 1 \in 1 .. Len(chan') /\ chan'[k - 1] = r
            BY <4>1, <4>2, <5>2 DEF BridgeType
          <6> QED BY <6>1
        <5> QED BY <5>1, <5>2
      <4>3. Accounted'
        BY <2>0, <3>0, <4>1, <4>2
      <4>4. FollowersInv'
        BY <3>0, <4>1
      <4> QED BY <4>3, <4>4
    <3>6. CASE StoreReceipt
      <4>1. open
        BY <3>6 DEF StoreReceipt, ControlInv, BridgeUpStates
      <4>2. /\ UNCHANGED <<lines, estop, enabled, fpc, fpos, chan, skipped>>
            /\ mishaps \subseteq mishaps' /\ cpc' # "done"
        BY <3>6 DEF StoreReceipt, Record
      <4>3. stored' = stored \cup {hand}
        BY <3>6, <4>1, <4>2 DEF StoreReceipt, Recorded
      <4> QED BY <3>0, <4>2, <4>3
    <3>7. CASE Drained
      BY <3>0, <3>7 DEF Drained, logVars
    <3>8. ASSUME NEW f \in Files, Follow(f) PROVE Accounted' /\ FollowersInv'
      BY <2>0, <3>0, <3>8 DEF Follow, logVars, BridgeType
    <3>9. ASSUME NEW f \in Files, ReadReceipt(f) PROVE Accounted' /\ FollowersInv'
      <4>1. /\ UNCHANGED <<lines, estop, enabled, chan, cpc, hand, stored, skipped, mishaps>>
            /\ fpc[f] \in {"run", "drain"} /\ fpos[f] < lines[f]
            /\ fpos'[f] = fpos[f] + 1 /\ fpos[f] \in Nat
            /\ fpc'[f] = IF fpc[f] = "run" THEN "send" ELSE "drainsend"
            /\ \A g \in Files : g # f => fpos'[g] = fpos[g] /\ fpc'[g] = fpc[g]
        BY <3>9 DEF ReadReceipt, logVars, BridgeType
      <4>2. ASSUME NEW r \in Receipts, r[2] <= fpos'[r[1]] PROVE OnItsWay(r)'
        <5>1. CASE r[1] = f /\ r[2] = fpos'[f]
          BY <4>1, <5>1
        <5>2. CASE ~ (r[1] = f /\ r[2] = fpos'[f])
          <6>1. r[2] <= fpos[r[1]]
            BY <2>0, <4>1, <4>2, <5>2
          <6> QED BY <2>0, <3>0, <4>1, <6>1
        <5> QED BY <5>1, <5>2
      <4>3. FollowersInv'
        BY <3>0, <4>1 DEF Stopped
      <4> QED BY <4>2, <4>3
    <3>10. ASSUME NEW f \in Files, SendReceipt(f) PROVE Accounted' /\ FollowersInv'
      <4>1. /\ UNCHANGED <<lines, estop, enabled, fpos, cpc, hand, stored, skipped, mishaps>>
            /\ fpc[f] \in {"send", "drainsend"} /\ chan' = Append(chan, <<f, fpos[f]>>)
            /\ fpc'[f] = IF fpc[f] = "send" THEN "run" ELSE "drain"
            /\ \A g \in Files : g # f => fpc'[g] = fpc[g]
        BY <3>10 DEF SendReceipt, logVars, BridgeType
      <4>2. /\ Len(chan) \in Nat /\ Len(chan') = Len(chan) + 1
            /\ chan'[Len(chan) + 1] = <<f, fpos[f]>>
            /\ \A k \in 1 .. Len(chan) : chan'[k] = chan[k]
        BY <4>1 DEF BridgeType
      <4>3. ASSUME NEW r \in Receipts, r[2] <= fpos'[r[1]] PROVE OnItsWay(r)'
        <5>1. CASE r[1] = f /\ r[2] = fpos[f]
          <6>1. r = <<f, fpos[f]>>
            BY <5>1 DEF Receipts
          <6> QED BY <4>2, <6>1
        <5>2. CASE ~ (r[1] = f /\ r[2] = fpos[f])
          BY <2>0, <3>0, <4>1, <4>2, <4>3, <5>2
        <5> QED BY <5>1, <5>2
      <4>4. cpc # "done"
        BY <3>0, <4>1 DEF ControlInv, BridgeType, Stopped
      <4>5. FollowersInv'
        BY <3>0, <4>1, <4>4 DEF Stopped
      <4> QED BY <4>3, <4>5
    <3>11. ASSUME NEW f \in Files, NoticeStop(f) PROVE Accounted' /\ FollowersInv'
      BY <2>0, <3>0, <3>11 DEF NoticeStop, BridgeType
    <3>12. ASSUME NEW f \in Files, FollowerDone(f) PROVE Accounted' /\ FollowersInv'
      BY <2>0, <3>0, <3>12 DEF FollowerDone, logVars, BridgeType
    <3>13. ASSUME NEW f \in Files, DrainTimeout(f) \/ FollowerFails(f) PROVE FALSE
      BY <3>13 DEF DrainTimeout, FollowerFails
    <3> QED
      BY <3>1, <3>2, <3>3, <3>4, <3>5, <3>6, <3>7, <3>8, <3>9, <3>10, <3>11, <3>12, <3>13
         DEF BridgeNext
  <2>5. CASE UNCHANGED vars
    BY <2>5 DEF vars, logVars, bridgeVars, mainVars, ReceiptsInv, Stopped
  <2> QED
    BY <2>1, <2>2, <2>3, <2>4, <2>5, BridgeSteps
<1> QED
  BY <1>1, <1>2, ControlInvariant, BridgeTypeInvariant, PTL DEF Spec

\* When bridge.Stop has returned, every receipt pipelock wrote is in the log or was
\* skipped as history, for every number of evidence files and receipts and every
\* capacity of the channel, unless one of the races or failures the property names
\* has happened.
THEOREM ReceiptsAreRecorded == Spec => []ReceiptsRecorded
<1>1. ControlInv /\ BridgeType /\ ReceiptsInv => ReceiptsRecorded
  <2> SUFFICES ASSUME ControlInv, BridgeType, ReceiptsInv, Complete,
                      mpc \in {"death", "close", "fire"}, enabled,
                      NEW r \in Written
               PROVE  r \in stored \cup skipped
    BY DEF ReceiptsRecorded, Complete
  <2>1. /\ r \in Receipts /\ r[1] \in Files /\ r[2] >= 1 /\ r[2] <= lines[r[1]]
        /\ r[2] \in Nat /\ r # NoReceipt
    BY BridgeAssumption DEF Written, Receipts, Files, NoReceipt
  <2>2. cpc = "done" /\ chan = <<>> /\ hand = NoReceipt
    BY DEF BridgeType, ReceiptsInv, FollowersInv
  <2>3. fpc[r[1]] = "done" /\ fpos[r[1]] = lines[r[1]]
    BY <2>1 DEF ReceiptsInv, FollowersInv, Stopped
  <2>4. OnItsWay(r)
    BY <2>1, <2>3 DEF ReceiptsInv, Accounted
  <2> QED BY <2>1, <2>2, <2>3, <2>4 DEF OnItsWay
<1> QED
  BY <1>1, ControlInvariant, BridgeTypeInvariant, ReceiptsInvariant, PTL
=============================================================================
