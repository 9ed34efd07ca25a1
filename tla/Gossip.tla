------------------------------- MODULE Gossip -------------------------------
(***************************************************************************)
(* The heartbeat mesh of internal/gossip as cmd/enforcer runs it: every    *)
(* node sends signed heartbeats with a growing seq over UDP, refreshes a   *)
(* peer on a packet with a higher seq, and once per interval marks peers   *)
(* silent or presumed compromised.                                         *)
(*                                                                         *)
(* Abstractions.  Every node has every other in its peer store, so packets *)
(* of unknown peers and bad signatures do not occur.  Time is counted in   *)
(* intervals: Tick ends one once every running node has sent and checked.  *)
(* A packet that is not lost arrives within its interval; a copy of it may *)
(* arrive again at any later time.                                         *)
(***************************************************************************)
EXTENDS Integers, FiniteSets

CONSTANTS
    Nodes,
    MissedThreshold,   \* silent after this many intervals
    DeathThreshold,    \* presumed compromised after this many
    LogSeqs,           \* Seq of DEATH records in a core log (evt.Seq in handleEvent)
    MaxRounds,         \* bounds on what happens in one behaviour
    MaxLosses,
    MaxCopies,
    MaxReports,
    MaxDowns,
    MaxRestarts

ASSUME ThresholdsAssumption ==
    /\ MissedThreshold \in Nat \ {0} /\ DeathThreshold \in Nat
    /\ MissedThreshold <= DeathThreshold
ASSUME GossipBoundsAssumption ==
    /\ LogSeqs \subseteq Nat
    /\ {MaxRounds, MaxLosses, MaxCopies, MaxReports, MaxDowns, MaxRestarts} \subseteq Nat

VARIABLES
    up,        \* the nodes whose enforcer runs
    seq,       \* Node.seq
    state,     \* Node.states: per node and peer, lastSeq, intervals since lastSeen, status
    net,       \* packets in flight
    heard,     \* packets delivered, of which the network may hold a copy
    sent,      \* nodes that have sent in this interval
    checked,   \* nodes that have checked their peers in this interval
    since,     \* intervals since the node last went up or down
    rounds, losses, copies, reports, downs,
    restarts   \* per node

counts == <<rounds, losses, copies, reports, downs, restarts>>
vars   == <<up, seq, state, net, heard, sent, checked, since, counts>>

\* NewNode: every peer counts as just seen.
NewPeers == [p \in Nodes |-> [lastSeq |-> 0, age |-> 0, status |-> "alive"]]

\* encodePacket and the loop over n.peers.
Broadcast(n, s) == {[from |-> n, to |-> p, seq |-> s] : p \in Nodes \ {n}}

Init ==
    /\ up = Nodes
    /\ seq = [n \in Nodes |-> 0]
    /\ state = [n \in Nodes |-> NewPeers]
    /\ net = {} /\ heard = {} /\ sent = {} /\ checked = {}
    /\ since = [n \in Nodes |-> 0]
    /\ rounds = 0 /\ losses = 0 /\ copies = 0 /\ reports = 0 /\ downs = 0
    /\ restarts = [n \in Nodes |-> 0]

\* sendLoop: one heartbeat per interval, the first at once on start.
SendHeartbeat(n) ==
    /\ n \in up \ sent
    /\ sent' = sent \cup {n}
    /\ seq' = [seq EXCEPT ![n] = @ + 1]
    /\ net' = net \cup Broadcast(n, seq[n] + 1)
    /\ UNCHANGED <<up, state, heard, checked, since, counts>>

\* Mutants: a seq seen before counts again; the time seen is not refreshed.
HandleReplays(m) ==
    IF m.to \in up /\ m.seq >= state[m.to][m.from].lastSeq
    THEN [state EXCEPT ![m.to][m.from] = [lastSeq |-> m.seq, age |-> 0, status |-> "alive"]]
    ELSE state
HandleKeepsAge(m) ==
    IF m.to \in up /\ m.seq > state[m.to][m.from].lastSeq
    THEN [state EXCEPT ![m.to][m.from].lastSeq = m.seq, ![m.to][m.from].status = "alive"]
    ELSE state

\* handlePacket: only a higher seq counts; the packet's type is not looked at.
Handle(m) ==
    IF m.to \in up /\ m.seq > state[m.to][m.from].lastSeq
    THEN [state EXCEPT ![m.to][m.from] = [lastSeq |-> m.seq, age |-> 0, status |-> "alive"]]
    ELSE state

Deliver(m) ==
    /\ state' = Handle(m)
    /\ net' = net \ {m}
    /\ heard' = heard \cup {m}
    /\ UNCHANGED <<up, seq, sent, checked, since, counts>>

Lose(m) ==
    /\ losses < MaxLosses
    /\ losses' = losses + 1
    /\ net' = net \ {m}
    /\ UNCHANGED <<up, seq, state, heard, sent, checked, since, rounds, copies, reports, downs, restarts>>

DeliverCopy(m) ==
    /\ copies < MaxCopies
    /\ copies' = copies + 1
    /\ state' = Handle(m)
    /\ UNCHANGED <<up, seq, net, heard, sent, checked, since, rounds, losses, reports, downs, restarts>>

\* checkPeers for one peer.
Checked(st) ==
    IF st.age >= DeathThreshold /\ st.status # "compromised" THEN [st EXCEPT !.status = "compromised"]
    ELSE IF st.age >= MissedThreshold /\ st.status = "alive" THEN [st EXCEPT !.status = "silent"]
    ELSE st

\* watchLoop, with the OnDeath callback: a death report about the peer, which
\* carries seq 0.
CheckPeers(n) ==
    /\ n \in up \ checked
    /\ checked' = checked \cup {n}
    /\ LET after == [p \in Nodes |-> IF p = n THEN state[n][p] ELSE Checked(state[n][p])]
       IN /\ state' = [state EXCEPT ![n] = after]
          /\ net' = IF \E p \in Nodes : after[p].status = "compromised" /\ state[n][p].status # "compromised"
                    THEN net \cup Broadcast(n, 0) ELSE net
    /\ UNCHANGED <<up, seq, heard, sent, since, counts>>

\* handleEvent: a DEATH record of the core log is broadcast with the record's Seq.
CoreDeath(n, s) ==
    /\ n \in up
    /\ reports < MaxReports
    /\ reports' = reports + 1
    /\ net' = net \cup Broadcast(n, s)
    /\ UNCHANGED <<up, seq, state, heard, sent, checked, since, rounds, losses, copies, downs, restarts>>

\* The enforcer is killed, or shuts down with a last report that carries seq 0.
GoDown(n) ==
    /\ n \in up
    /\ downs < MaxDowns
    /\ downs' = downs + 1
    /\ up' = up \ {n}
    /\ since' = [since EXCEPT ![n] = 0]
    /\ \/ UNCHANGED net
       \/ net' = net \cup Broadcast(n, 0)
    /\ UNCHANGED <<seq, state, heard, sent, checked, rounds, losses, copies, reports, restarts>>

\* NewNode: seq starts at 0 again, and every peer is taken to be alive.
Restart(n) ==
    /\ n \notin up
    /\ restarts[n] < MaxRestarts
    /\ restarts' = [restarts EXCEPT ![n] = @ + 1]
    /\ up' = up \cup {n}
    /\ since' = [since EXCEPT ![n] = 0]
    /\ seq' = [seq EXCEPT ![n] = 0]
    /\ state' = [state EXCEPT ![n] = NewPeers]
    /\ sent' = sent \ {n}
    /\ checked' = checked \ {n}
    /\ UNCHANGED <<net, heard, rounds, losses, copies, reports, downs>>

Tick ==
    /\ rounds < MaxRounds
    /\ up \subseteq sent \cap checked
    /\ net = {}
    /\ rounds' = rounds + 1
    /\ state' = [n \in Nodes |-> [p \in Nodes |-> [state[n][p] EXCEPT !.age = @ + 1]]]
    /\ since' = [n \in Nodes |-> since[n] + 1]
    /\ sent' = {} /\ checked' = {}
    /\ UNCHANGED <<up, seq, net, heard, losses, copies, reports, downs, restarts>>

Next ==
    \/ \E n \in Nodes : SendHeartbeat(n) \/ CheckPeers(n) \/ GoDown(n) \/ Restart(n)
    \/ \E n \in Nodes, s \in LogSeqs : CoreDeath(n, s)
    \/ \E m \in net : Deliver(m) \/ Lose(m)
    \/ \E m \in heard : DeliverCopy(m)
    \/ Tick

Spec == Init /\ [][Next]_vars

-----------------------------------------------------------------------------
(* Properties. *)

\* A peer that has been down for more than DeathThreshold intervals is presumed
\* compromised by every node that has run throughout and has checked: neither
\* packets that arrive twice nor death reports keep a dead peer alive.  (A node
\* that restarts has forgotten lastSeq: see NewNode.)
DeadPeerNoticed ==
    \A n \in up \cap checked, p \in Nodes \ up :
        since[p] > DeathThreshold /\ since[n] > DeathThreshold /\ restarts[n] = 0 =>
            state[n][p].status = "compromised"

\* A peer that has been up and heartbeating for MissedThreshold intervals is not
\* called silent or compromised by a node that was up as long, as long as fewer
\* than MissedThreshold - 1 packets were lost ("no heartbeat for >=
\* MissedThreshold intervals").
LivePeerAlive ==
    losses < MissedThreshold - 1 =>
        \A n, p \in up :
            n # p /\ since[p] >= MissedThreshold /\ since[n] >= MissedThreshold =>
                state[n][p].status = "alive"

\* So it is for a peer that has never restarted and broadcast no DEATH record: a
\* late, lost or repeated packet, another node's crash or its own death reports
\* about others raise no false alarm.  A restart takes Node.seq back to 0 while
\* the peers keep lastSeq, and a DEATH record's Seq may put lastSeq far ahead.
SteadyPeerAlive ==
    losses < MissedThreshold - 1 =>
        \A n, p \in up :
            /\ n # p /\ restarts[p] = 0 /\ reports = 0
            /\ since[p] >= MissedThreshold /\ since[n] >= MissedThreshold
            => state[n][p].status = "alive"
=============================================================================
