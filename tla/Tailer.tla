------------------------------- MODULE Tailer -------------------------------
(***************************************************************************)
(* One NDJSON feed of the witness: the Tailer of internal/pipelock (file   *)
(* to channel, with a saved read position) and the bridge that consumes it *)
(* (channel to store, one Ack per stored event; internal/feeds and         *)
(* internal/sbh have the same loop).  Tailer and forwarder are goroutines  *)
(* of one process, which may be stopped or killed and is started again.    *)
(*                                                                         *)
(* Abstractions.  A file is its sequence of complete lines, each TRUE if   *)
(* it parses as JSON; offsets count lines.  A fragment of a line at the    *)
(* end of the file is read again from its start, so it is not a line yet.  *)
(* The files that stood at the tailed path are numbered; that number is    *)
(* the file's identity (device and inode).  The saved state is written to  *)
(* a .tmp file, synced and renamed, so it changes in one step.             *)
(***************************************************************************)
EXTENDS Integers, FiniteSets, SequencesExt

CONSTANTS
    Capacity,       \* capacity of the events channel
    Mishaps,        \* what may go wrong, or be asked for, in a behaviour
    MaxLines,       \* bound on the lines written
    MaxMishaps      \* bound on the mishaps

MishapKinds == {"rotate", "read", "store", "stop", "crash"}

ASSUME CapacityAssumption == Capacity \in Nat \ {0}
ASSUME MishapsAssumption == Mishaps \subseteq MishapKinds
ASSUME TailerBoundsAssumption == MaxLines \in Nat /\ MaxMishaps \in Nat

VARIABLES
    files,      \* the lines of every file that stood at the path; the last is there now
    saved,      \* the state file: {} or one position [gen, off]
    stored,     \* lines <<gen, i>> in the witness log
    run,        \* lines stored by this process, in order
    tpc,        \* the tailer goroutine
    gen, pos,   \* the file it has open, and the lines of it consumed
    eof,        \* it has read EOF at pos, and lines have come since
    appeared,   \* it has seen the path without a file
    pending,    \* Tailer.pending
    committed,  \* Tailer.committed; Tailer.ident is gen (0 before the first open)
    chan,       \* the events channel
    line,       \* the event the tailer is sending
    cpc, hand,  \* the forwarding goroutine and the event it holds
    stopping,   \* Tailer.stop is closed
    base,       \* where the last start without a saved position began: {} or one position
    mishaps     \* how often each kind of mishap has happened

memory == <<run, tpc, gen, pos, eof, appeared, pending, committed, chan, line, cpc, hand, stopping>>
disk   == <<files, saved, stored>>
vars   == <<disk, memory, base, mishaps>>

Position == [gen : Nat, off : Nat]
NoLine   == <<0, 0>>
Current  == Len(files)
Lines    == UNION {{g} \X (1 .. Len(files[g])) : g \in 1 .. Current}
AllLines == FoldFunction(LAMBDA f, n : Len(f) + n, 0, files)

\* The state of a process that has not started.
Cold ==
    /\ run = <<>> /\ tpc = "down" /\ gen = 0 /\ pos = 0 /\ eof = FALSE /\ appeared = FALSE
    /\ pending = <<>> /\ committed = 0 /\ chan = <<>> /\ line = NoLine
    /\ cpc = "down" /\ hand = NoLine /\ stopping = FALSE

\* The very first start, before the feed exists, or a start with a saved position.
Init ==
    /\ \/ files = <<>> /\ saved = {}
       \/ files = <<<<>>>> /\ saved = {[gen |-> 1, off |-> 0]}
    /\ base = saved
    /\ stored = {}
    /\ Cold
    /\ mishaps = [k \in MishapKinds |-> 0]

Mishap(kind) ==
    /\ kind \in Mishaps
    /\ FoldFunction(+, 0, mishaps) < MaxMishaps
    /\ mishaps' = [mishaps EXCEPT ![kind] = @ + 1]

-----------------------------------------------------------------------------
(* The program that writes the feed. *)

CreateFile ==
    /\ files = <<>>
    /\ files' = <<<<>>>>
    /\ UNCHANGED <<saved, stored, memory, base, mishaps>>

\* It may come after the tailer has read EOF and before it looks at the path again.
WriteLine(json) ==
    /\ files # <<>>
    /\ AllLines < MaxLines
    /\ files' = [files EXCEPT ![Current] = Append(@, json)]
    /\ \/ UNCHANGED eof
       \/ tpc \in {"run", "drain"} /\ gen = Current /\ pos = Len(files[gen]) /\ eof' = TRUE
    /\ UNCHANGED <<saved, stored, run, tpc, gen, pos, appeared, pending, committed, chan, line,
                   cpc, hand, stopping, base, mishaps>>

Rotate ==
    /\ files # <<>>
    /\ Mishap("rotate")
    /\ files' = Append(files, <<>>)
    /\ UNCHANGED <<saved, stored, memory, base>>

-----------------------------------------------------------------------------
(* Tailer.Run *)

Start ==
    /\ tpc = "down"
    /\ tpc' = "wait"
    /\ cpc' = "idle"
    /\ UNCHANGED <<disk, run, gen, pos, eof, appeared, pending, committed, chan, line, hand,
                   stopping, base, mishaps>>

\* Mutant: the lines pending in the old file are kept.
OpenAtKeepsPending(off) ==
    /\ gen' = Current
    /\ pos' = off
    /\ eof' = FALSE
    /\ UNCHANGED <<pending, committed>>

\* openFile at offset off of the file at the path: pending is dropped.
OpenAt(off) ==
    /\ gen' = Current
    /\ pos' = off
    /\ eof' = FALSE
    /\ pending' = <<>>
    /\ committed' = off

WaitForFile ==
    /\ tpc = "wait"
    /\ files = <<>>
    /\ ~ appeared
    /\ appeared' = TRUE
    /\ UNCHANGED <<disk, run, tpc, gen, pos, eof, pending, committed, chan, line, cpc, hand,
                   stopping, base, mishaps>>

\* "created" and "restarted" read from the beginning, "fresh" from the end,
\* "resumed" from the saved position.
FirstOffset ==
    IF appeared THEN 0
    ELSE IF saved = {} THEN Len(files[Current])
    ELSE LET st == CHOOSE st \in saved : TRUE
         IN IF st.gen = Current /\ st.off <= Len(files[Current]) THEN st.off ELSE 0

FirstOpen ==
    /\ tpc = "wait"
    /\ files # <<>>
    /\ tpc' = "run"
    /\ OpenAt(FirstOffset)
    /\ base' = IF saved = {} THEN {[gen |-> Current, off |-> FirstOffset]} ELSE base
    /\ UNCHANGED <<disk, run, appeared, chan, line, cpc, hand, stopping, mishaps>>

\* advanceLocked: committed moves past the longest acked prefix of pending.
Advance(p) ==
    LET n == CHOOSE k \in 0 .. Len(p) : /\ \A i \in 1 .. k : p[i].acked
                                        /\ k < Len(p) => ~ p[k + 1].acked
    IN /\ committed' = IF n = 0 THEN committed ELSE p[n].end
       /\ pending' = SubSeq(p, n + 1, Len(p))

\* A line is read and recorded as pending before it is sent; one that is not JSON
\* counts as acked at once.
ReadLine ==
    /\ tpc \in {"run", "drain"}
    /\ pos < Len(files[gen])
    /\ pos' = pos + 1
    /\ eof' = FALSE
    /\ LET json == files[gen][pos + 1]
       IN /\ Advance(Append(pending, [end |-> pos + 1, acked |-> ~ json]))
          /\ line' = IF json THEN <<gen, pos + 1>> ELSE NoLine
          /\ tpc' = IF ~ json THEN tpc ELSE IF tpc = "run" THEN "send" ELSE "drainsend"
    /\ UNCHANGED <<disk, run, gen, appeared, chan, cpc, hand, stopping, base, mishaps>>

Send ==
    /\ tpc \in {"send", "drainsend"}
    /\ Len(chan) < Capacity
    /\ chan' = Append(chan, line)
    /\ line' = NoLine
    /\ tpc' = IF tpc = "send" THEN "run" ELSE "drain"
    /\ UNCHANGED <<disk, run, gen, pos, eof, appeared, pending, committed, cpc, hand, stopping,
                   base, mishaps>>

\* The stop is noticed between two lines, or instead of the send: select may take
\* <-t.stop whether or not the channel has room, and the loop goes on to drain.
NoticeStop ==
    /\ tpc \in {"run", "send"}
    /\ stopping
    /\ tpc' = "drain"
    /\ eof' = FALSE
    /\ UNCHANGED <<disk, run, gen, pos, appeared, pending, committed, chan, line, cpc, hand,
                   stopping, base, mishaps>>

\* Mutant: the identity of the file at the path is not compared.
ReopenAlways ==
    /\ tpc \in {"run", "drain"}
    /\ pos = Len(files[gen])
    /\ OpenAt(0)
    /\ UNCHANGED <<disk, run, tpc, appeared, chan, line, cpc, hand, stopping, base, mishaps>>

\* At the end of a file that has been replaced, or after a read error: open the
\* file at the path again and read all of it.  What was written to the old file after
\* its EOF was read is not read.
Reopen ==
    /\ tpc \in {"run", "drain"}
    /\ pos = Len(files[gen]) \/ eof
    /\ gen # Current
    /\ OpenAt(0)
    /\ UNCHANGED <<disk, run, tpc, appeared, chan, line, cpc, hand, stopping, base, mishaps>>

ReadError ==
    /\ tpc = "run"
    /\ Mishap("read")
    /\ OpenAt(0)
    /\ UNCHANGED <<disk, run, tpc, appeared, chan, line, cpc, hand, stopping, base>>

\* Mutant: the stop is not looked at while waiting for the file.
TailerExitsOnceOpen ==
    /\ tpc \in {"drain", "drainsend"}
    /\ tpc' = "exited"
    /\ UNCHANGED <<disk, run, gen, pos, eof, appeared, pending, committed, chan, line, cpc, hand,
                   stopping, base, mishaps>>

\* Run returns: stopped while waiting for the file, drained to EOF, or past the
\* drain deadline.
TailerExits ==
    /\ \/ tpc = "wait" /\ stopping
       \/ tpc = "drain" /\ pos = Len(files[gen]) /\ gen = Current
       \/ tpc \in {"drain", "drainsend"}   \* drainTimeout has passed
    /\ tpc' = "exited"
    /\ UNCHANGED <<disk, run, gen, pos, eof, appeared, pending, committed, chan, line, cpc, hand,
                   stopping, base, mishaps>>

-----------------------------------------------------------------------------
(* Bridge.forward and Bridge.Stop *)

Receive ==
    /\ cpc = "idle"
    /\ chan # <<>>
    /\ hand' = Head(chan)
    /\ chan' = Tail(chan)
    /\ cpc' = "have"
    /\ UNCHANGED <<disk, run, tpc, gen, pos, eof, appeared, pending, committed, line, stopping,
                   base, mishaps>>

StoreEvent ==
    /\ cpc = "have"
    /\ stored' = stored \cup {hand}
    /\ run' = Append(run, hand)
    /\ cpc' = "ack"
    /\ UNCHANGED <<files, saved, tpc, gen, pos, eof, appeared, pending, committed, chan, line, hand,
                   stopping, base, mishaps>>

\* store.Append returned an error: no Ack, on to the next event.
StoreEventFails ==
    /\ cpc = "have"
    /\ Mishap("store")
    /\ cpc' = "idle"
    /\ hand' = NoLine
    /\ UNCHANGED <<disk, run, tpc, gen, pos, eof, appeared, pending, committed, chan, line,
                   stopping, base>>

\* Mutant: the position read, not the position acked.
SaveReadPosition(off) == saved' = {[gen |-> gen, off |-> pos]}

\* flushLocked.
Save(off) == saved' = {[gen |-> gen, off |-> off]}

\* Ack marks the oldest pending line that is not acked; the position is flushed
\* every flushEveryAcks acks or flushEvery (a flush that fails is retried by a later
\* Ack), that is now or later.
Ack ==
    /\ cpc = "ack"
    /\ cpc' = "idle"
    /\ LET open == {i \in DOMAIN pending : ~ pending[i].acked}
       IN Advance(IF open = {} THEN pending
                  ELSE [pending EXCEPT ![CHOOSE i \in open : \A j \in open : i <= j].acked = TRUE])
    /\ Save(committed') \/ UNCHANGED saved
    /\ hand' = NoLine
    /\ UNCHANGED <<files, stored, run, tpc, gen, pos, eof, appeared, chan, line, stopping, base,
                   mishaps>>

RequestStop ==
    /\ tpc # "down" /\ ~ stopping
    /\ Mishap("stop")
    /\ stopping' = TRUE
    /\ UNCHANGED <<disk, run, tpc, gen, pos, eof, appeared, pending, committed, chan, line, cpc,
                   hand, base>>

ProcessGone ==
    /\ run' = <<>> /\ tpc' = "down" /\ gen' = 0 /\ pos' = 0 /\ eof' = FALSE /\ appeared' = FALSE
    /\ pending' = <<>> /\ committed' = 0 /\ chan' = <<>> /\ line' = NoLine
    /\ cpc' = "down" /\ hand' = NoLine /\ stopping' = FALSE

\* The tailer is done, so stopForward is closed; the forwarder may leave events in
\* the channel.  Stop then flushes the position and the process ends.
StopCompletes ==
    /\ tpc = "exited"
    /\ cpc = "idle"
    /\ Save(committed)
    /\ ProcessGone
    /\ UNCHANGED <<files, stored, base, mishaps>>

Crash ==
    /\ tpc # "down"
    /\ Mishap("crash")
    /\ ProcessGone
    /\ UNCHANGED <<disk, base>>

Next ==
    \/ CreateFile \/ (\E json \in BOOLEAN : WriteLine(json)) \/ Rotate
    \/ Start \/ WaitForFile \/ FirstOpen \/ ReadLine \/ Send
    \/ NoticeStop \/ Reopen \/ ReadError \/ TailerExits
    \/ Receive \/ StoreEvent \/ StoreEventFails \/ Ack
    \/ RequestStop \/ StopCompletes \/ Crash

Spec == Init /\ [][Next]_vars

\* Both goroutines are scheduled, and the service manager starts the process.
FairSpec ==
    /\ Spec
    /\ WF_vars(Start) /\ WF_vars(FirstOpen) /\ WF_vars(ReadLine) /\ WF_vars(Send)
    /\ WF_vars(NoticeStop) /\ WF_vars(Reopen) /\ WF_vars(TailerExits)
    /\ WF_vars(Receive) /\ WF_vars(StoreEvent \/ StoreEventFails) /\ WF_vars(Ack)
    /\ WF_vars(StopCompletes)

-----------------------------------------------------------------------------
(* Properties. *)

Before(p, g, i) == \E b \in p : b.gen = g /\ i <= b.off

\* What a start without a saved position found in the file is history to it ("fresh":
\* it seeks to the end); the other JSON lines count.
Counts(g, i) == files[g][i] /\ ~ Before(base, g, i)

\* Nothing but kills and restarts has happened.
Undisturbed == \A k \in MishapKinds \ {"crash"} : mishaps[k] = 0

\* Every variable keeps its type, and committed never passes the reader.
TypeOK ==
    /\ files \in Seq(Seq(BOOLEAN)) /\ stored \subseteq Lines
    /\ saved \subseteq Position /\ base \subseteq Position
    /\ run \in Seq(Lines) /\ chan \in Seq(Lines) /\ {line, hand} \subseteq Lines \cup {NoLine}
    /\ gen \in 0 .. Current /\ pos \in Nat /\ committed \in 0 .. pos
    /\ Len(chan) <= Capacity /\ Len(pending) <= pos

\* Every line the saved position has passed is in the witness log: "the saved
\* position advances only past lines the consumer has Ack'ed, i.e. stored".
SavedOnlyPastStored ==
    \A st \in saved : \A i \in 1 .. st.off : Counts(st.gen, i) => <<st.gen, i>> \in stored

\* So it is through every kill and restart, whatever the channel and the acks in
\* flight, as long as nothing else goes wrong.
SavedIsStored == Undisturbed => SavedOnlyPastStored

\* Every line the reader has passed is stored or on its way to the store: no
\* restart after a kill skips a line.
NoGap ==
    Undisturbed /\ tpc \in {"run", "send"} =>
        \A i \in 1 .. pos : Counts(gen, i) =>
            <<gen, i>> \in stored \cup ToSet(chan) \cup {line, hand}

\* One process stores lines in the order they were written, each once, unless a
\* read error made it start the file again.
StoredInOrder ==
    mishaps["read"] = 0 =>
        \A j \in 1 .. Len(run) - 1 :
            \/ run[j][1] < run[j + 1][1]
            \/ run[j][1] = run[j + 1][1] /\ run[j][2] < run[j + 1][2]

\* Every complete JSON line written to the feed is stored in the end, whatever
\* kills happen on the way, unless it is history to a start without a position.
EveryLineStored ==
    \A i \in 1 .. MaxLines :
        (files # <<>> /\ i <= Len(files[1]) /\ files[1][i])
            ~> (<<1, i>> \in stored \/ Before(base, 1, i) \/ ~ Undisturbed)

\* A stop ends: Bridge.Stop never hangs on a full channel or a missing file.
StopEnds == stopping ~> (tpc = "down")
=============================================================================
