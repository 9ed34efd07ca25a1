--------------------------- MODULE EnforcerReader ---------------------------
(***************************************************************************)
(* kiss-enforcer's TailReader (internal/enforcer/reader.go) beside the     *)
(* core daemon: it polls witness.log without a lock or the tree head and   *)
(* delivers the records above its lastSeq to a bounded channel, which the  *)
(* enforcer's event loop drains.                                           *)
(***************************************************************************)
EXTENDS WitnessStore

CONSTANT EventCapacity   \* capacity of the enforcer's events channel
ASSUME EventCapacityAssumption == EventCapacity \in Nat \ {0}

VARIABLES
    entries,     \* what this poll's ReadAll returned and poll has not looked at yet
    lastSeq,     \* TailReader.lastSeq
    events,      \* the events channel
    delivered    \* the events the loop has received, in order

pollVars == <<entries, lastSeq, events, delivered>>
enforcerVars == <<vars, pollVars>>

EnforcerInit == Init /\ entries = <<>> /\ lastSeq = 0 /\ events = <<>> /\ delivered = <<>>

\* The next poll, once the last one has ended.
PollRead ==
    /\ entries = <<>>
    /\ log # <<>>
    /\ Last(log).seq > lastSeq   \* a poll that delivers nothing changes nothing
    /\ entries' = log
    /\ UNCHANGED <<vars, lastSeq, events, delivered>>

\* One round of poll's loop: skip, deliver, or give up because the channel is full.
PollSkip ==
    /\ entries # <<>>
    /\ Head(entries).seq <= lastSeq
    /\ entries' = Tail(entries)
    /\ UNCHANGED <<vars, lastSeq, events, delivered>>

PollDeliver ==
    /\ entries # <<>>
    /\ Head(entries).seq > lastSeq
    /\ Len(events) < EventCapacity
    /\ lastSeq' = Head(entries).seq
    /\ events' = Append(events, Head(entries))
    /\ entries' = Tail(entries)
    /\ UNCHANGED <<vars, delivered>>

\* The poll ends, with this lastSeq.
GiveUp(seqReached) ==
    /\ entries # <<>>
    /\ Head(entries).seq > lastSeq
    /\ Len(events) = EventCapacity
    /\ lastSeq' = seqReached
    /\ entries' = <<>>
    /\ UNCHANGED <<vars, events, delivered>>

\* Mutants: the record counts as delivered, or lastSeq steps back too far.
PollCongestedSkips == GiveUp(Head(entries).seq)
PollCongestedRewinds == GiveUp(Head(entries).seq - 2)

\* The record is retried by the next poll: lastSeq steps back behind it.
PollCongested == GiveUp(Head(entries).seq - 1)

Consume ==
    /\ events # <<>>
    /\ delivered' = Append(delivered, Head(events))
    /\ events' = Tail(events)
    /\ UNCHANGED <<vars, entries, lastSeq>>

EnforcerNext ==
    \/ Next /\ UNCHANGED pollVars
    \/ PollRead \/ PollSkip \/ PollDeliver \/ PollCongested \/ Consume

\* The poll ticker and the event loop keep running.  The service manager starts a
\* daemon that died, and one that runs takes its next step.
EnforcerSpec ==
    /\ EnforcerInit /\ [][EnforcerNext]_enforcerVars
    /\ WF_enforcerVars(PollRead)
    /\ WF_enforcerVars(PollSkip \/ PollDeliver \/ PollCongested)
    /\ WF_enforcerVars(Consume)
    /\ WF_enforcerVars((\E s \in Signers : Open(s)) /\ UNCHANGED pollVars)
    /\ WF_enforcerVars((QuarantineCopy \/ QuarantineTruncate) /\ UNCHANGED pollVars)

-----------------------------------------------------------------------------
(* Properties. *)

\* The event loop sees Seq grow strictly: no record twice and none out of order,
\* however polls, congestion, crashes and recoveries interleave.
DeliveredInOrder ==
    \A i, j \in DOMAIN delivered : i < j => delivered[i].seq < delivered[j].seq

\* No record the stored head covers is passed over: once lastSeq has reached it,
\* it has been delivered or waits in the channel.  After a recovery it may be: the
\* reader also delivers a record that the head does not cover yet, and a new record
\* takes the Seq of one that was cut off.
NoRecordSkipped ==
    quarantine = {} =>
        \A r \in ToSet(head.recs) :
            r.seq <= lastSeq => r \in ToSet(delivered) \cup ToSet(events)

\* Every record the head covers reaches the event loop, however often the channel
\* was full (recoveries apart, as above).
EveryRecordDelivered ==
    \A i \in 1 .. MaxRecords :
        (\E r \in ToSet(head.recs) : r.id = i)
            ~> ((\E r \in ToSet(delivered) : r.id = i) \/ quarantine # {})

\* A daemon that died comes back up: no kill, also one during the recovery from
\* another, leaves a log that Open cannot recover, unless a head could not be
\* written.
RestartCompletes == (pc = "down") ~> (pc = "up" \/ faults["head"] > 0)
=============================================================================
