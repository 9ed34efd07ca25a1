---------------------------- MODULE GossipProofs ----------------------------
(***************************************************************************)
(* Theorems about Gossip, for every set of nodes, all thresholds and every *)
(* number of rounds, losses, copies, reports, failures and restarts.       *)
(***************************************************************************)
EXTENDS Gossip, TLAPS

-----------------------------------------------------------------------------
(* The inductive invariants.                                                *)

PeerState == [lastSeq : Nat, age : Nat, status : {"alive", "silent", "compromised"}]
Packet    == [from : Nodes, to : Nodes, seq : Nat]

\* Every variable keeps its type.
GossipType ==
    /\ up \subseteq Nodes /\ sent \subseteq Nodes /\ checked \subseteq Nodes
    /\ seq \in [Nodes -> Nat] /\ since \in [Nodes -> Nat] /\ restarts \in [Nodes -> Nat]
    /\ state \in [Nodes -> [Nodes -> PeerState]]
    /\ net \subseteq Packet /\ heard \subseteq Packet
    /\ losses \in Nat /\ reports \in Nat

\* The node has been up from the start.
Steady(n) == n \in up /\ restarts[n] = 0

\* A node that has never been down has taken note of every packet that reached it,
\* so no copy of one tells it anything.
NotedInv ==
    \A n \in Nodes : Steady(n) =>
        \A m \in heard : m.to = n => m.seq <= state[n][m.from].lastSeq

\* The last packets of a node that went down arrive in that interval or never.
SilenceInv ==
    \A p \in Nodes \ up : since[p] >= 1 => \A m \in net : m.from # p

\* So a steady node has not heard of it for as long as it has been down, and has
\* noticed by the time it has checked.
DeadInv ==
    \A n \in Nodes : Steady(n) =>
        \A p \in Nodes \ up :
            /\ state[n][p].age >= since[p]
            /\ n \in checked /\ since[p] > DeathThreshold => state[n][p].status = "compromised"

\* The heartbeat of the current interval.
Beat(p, n) == [from |-> p, to |-> n, seq |-> seq[p]]

\* Nothing claims a Seq beyond p's own, and its newest heartbeat, while it is under
\* way, has not arrived.
SeqBody(p) ==
    /\ \A m \in net \cup heard : m.from = p => m.seq <= seq[p]
    /\ p \in sent => seq[p] > 0
    /\ seq[p] > 0 => \A n \in Nodes : Beat(p, n) \in net => Beat(p, n) \notin heard

\* To node n that heartbeat is news, and each interval without one is a packet lost,
\* or is this interval.
LiveBody(n, p) ==
    /\ state[n][p].lastSeq <= seq[p]
    /\ seq[p] > 0 /\ Beat(p, n) \in net => state[n][p].lastSeq < seq[p]
    /\ state[n][p].age <= losses + 1
    /\ p \in sent /\ Beat(p, n) \notin net => state[n][p].age <= losses
    /\ losses < MissedThreshold - 1 => state[n][p].status = "alive"

\* So it is for every steady peer, as long as no DEATH record was broadcast.
LiveInv ==
    reports = 0 =>
        \A p \in Nodes : Steady(p) => SeqBody(p) /\ \A n \in up \ {p} : LiveBody(n, p)

\* The conjunction is inductive.
GossipInv == GossipType /\ NotedInv /\ SilenceInv /\ DeadInv /\ LiveInv

-----------------------------------------------------------------------------
(* Operators.                                                               *)

\* handlePacket touches the receiver's entry for the sender only, and only if the
\* receiver runs and the seq is higher.
LEMMA HandleEffect ==
    ASSUME GossipType, NEW m \in Packet
    PROVE  /\ Handle(m) \in [Nodes -> [Nodes -> PeerState]]
           /\ \A n, p \in Nodes :
                Handle(m)[n][p] =
                    IF n = m.to /\ p = m.from /\ n \in up /\ m.seq > state[n][p].lastSeq
                    THEN [lastSeq |-> m.seq, age |-> 0, status |-> "alive"]
                    ELSE state[n][p]
<1> DEFINE new == [lastSeq |-> m.seq, age |-> 0, status |-> "alive"]
<1>1. m.to \in Nodes /\ m.from \in Nodes /\ m.seq \in Nat /\ new \in PeerState
  BY DEF Packet, PeerState
<1>2. state \in [Nodes -> [Nodes -> PeerState]]
  BY DEF GossipType
<1>3. CASE m.to \in up /\ m.seq > state[m.to][m.from].lastSeq
  <2>1. Handle(m) = [state EXCEPT ![m.to][m.from] = new]
    BY <1>3 DEF Handle
  <2> HIDE DEF new
  <2>2. /\ Handle(m) \in [Nodes -> [Nodes -> PeerState]]
        /\ Handle(m)[m.to][m.from] = new
        /\ \A n, p \in Nodes : ~ (n = m.to /\ p = m.from) => Handle(m)[n][p] = state[n][p]
    BY <1>1, <1>2, <2>1
  <2> QED BY <1>3, <2>2 DEF new
<1>4. CASE ~ (m.to \in up /\ m.seq > state[m.to][m.from].lastSeq)
  BY <1>2, <1>4 DEF Handle
<1> QED BY <1>3, <1>4

\* checkPeers changes a status only, and by the two thresholds.
LEMMA CheckedEffect ==
    ASSUME NEW st \in PeerState
    PROVE  /\ Checked(st) \in PeerState
           /\ Checked(st).lastSeq = st.lastSeq /\ Checked(st).age = st.age
           /\ st.age >= DeathThreshold => Checked(st).status = "compromised"
           /\ st.status = "compromised" => Checked(st).status = "compromised"
           /\ st.age < MissedThreshold /\ st.status = "alive" => Checked(st).status = "alive"
<1>1. st.age \in Nat /\ MissedThreshold \in Nat /\ DeathThreshold \in Nat
      /\ MissedThreshold <= DeathThreshold
  BY ThresholdsAssumption DEF PeerState
<1>2. CASE st.age >= DeathThreshold /\ st.status # "compromised"
  BY <1>1, <1>2 DEF Checked, PeerState
<1>3. CASE ~ (st.age >= DeathThreshold /\ st.status # "compromised")
  BY <1>1, <1>3 DEF Checked, PeerState
<1> QED BY <1>2, <1>3

\* What CheckPeers does to the state of every node.
LEMMA CheckPeersEffect ==
    ASSUME GossipType, NEW c \in Nodes, CheckPeers(c)
    PROVE  /\ state' \in [Nodes -> [Nodes -> PeerState]]
           /\ \A n, p \in Nodes :
                state'[n][p] = IF n = c /\ p # c THEN Checked(state[n][p]) ELSE state[n][p]
           /\ net' = net \/ net' = net \cup Broadcast(c, 0)
           /\ checked' = checked \cup {c}
           /\ UNCHANGED <<up, seq, heard, sent, since, counts>>
<1> DEFINE after == [p \in Nodes |-> IF p = c THEN state[c][p] ELSE Checked(state[c][p])]
<1>1. state' = [state EXCEPT ![c] = after]
  BY DEF CheckPeers
<1>2. state \in [Nodes -> [Nodes -> PeerState]]
  BY DEF GossipType
<1>3. after \in [Nodes -> PeerState]
  BY <1>2, CheckedEffect
<1>4. \A p \in Nodes : after[p] = IF p = c THEN state[c][p] ELSE Checked(state[c][p])
  OBVIOUS
<1> HIDE DEF after
<1>5. /\ state' \in [Nodes -> [Nodes -> PeerState]]
      /\ state'[c] = after /\ \A n \in Nodes : n # c => state'[n] = state[n]
  BY <1>1, <1>2, <1>3
<1>6. \A n, p \in Nodes :
         state'[n][p] = IF n = c /\ p # c THEN Checked(state[n][p]) ELSE state[n][p]
  BY <1>4, <1>5
<1> QED BY <1>5, <1>6 DEF CheckPeers

\* What Tick does.
LEMMA TickEffect ==
    ASSUME GossipType, Tick
    PROVE  /\ state' \in [Nodes -> [Nodes -> PeerState]]
           /\ \A n, p \in Nodes : /\ state'[n][p].age = state[n][p].age + 1
                                  /\ state'[n][p].lastSeq = state[n][p].lastSeq
                                  /\ state'[n][p].status = state[n][p].status
           /\ since' \in [Nodes -> Nat] /\ \A n \in Nodes : since'[n] = since[n] + 1
           /\ net = {} /\ net' = {} /\ up \subseteq sent /\ sent' = {} /\ checked' = {}
           /\ UNCHANGED <<up, seq, heard, losses, reports, restarts>>
<1>1. state \in [Nodes -> [Nodes -> PeerState]] /\ since \in [Nodes -> Nat]
  BY DEF GossipType
<1>2. \A n, p \in Nodes : state'[n][p] = [state[n][p] EXCEPT !.age = @ + 1]
  BY DEF Tick
<1>3. \A n, p \in Nodes : /\ [state[n][p] EXCEPT !.age = @ + 1] \in PeerState
                          /\ [state[n][p] EXCEPT !.age = @ + 1].age = state[n][p].age + 1
                          /\ [state[n][p] EXCEPT !.age = @ + 1].lastSeq = state[n][p].lastSeq
                          /\ [state[n][p] EXCEPT !.age = @ + 1].status = state[n][p].status
  <2> TAKE n, p \in Nodes
  <2>1. state[n][p] \in PeerState
    BY <1>1
  <2> QED BY <2>1 DEF PeerState
<1>4. state' \in [Nodes -> [Nodes -> PeerState]]
  BY <1>3 DEF Tick
<1>5. since' \in [Nodes -> Nat] /\ \A n \in Nodes : since'[n] = since[n] + 1
  BY <1>1 DEF Tick
<1> QED BY <1>2, <1>3, <1>4, <1>5 DEF Tick

\* What Restart does.
LEMMA RestartEffect ==
    ASSUME GossipType, NEW r \in Nodes, Restart(r)
    PROVE  /\ state' \in [Nodes -> [Nodes -> PeerState]]
           /\ \A n, p \in Nodes : n # r => state'[n][p] = state[n][p]
           /\ \A p \in Nodes : state'[r][p] = [lastSeq |-> 0, age |-> 0, status |-> "alive"]
           /\ restarts' \in [Nodes -> Nat] /\ restarts'[r] # 0
           /\ seq' \in [Nodes -> Nat] /\ since' \in [Nodes -> Nat]
           /\ \A n \in Nodes : n # r => /\ restarts'[n] = restarts[n] /\ seq'[n] = seq[n]
                                        /\ since'[n] = since[n]
           /\ r \notin up /\ up' = up \cup {r} /\ sent' = sent \ {r} /\ checked' = checked \ {r}
           /\ UNCHANGED <<net, heard, losses, reports>>
<1>1. NewPeers \in [Nodes -> PeerState]
  BY DEF NewPeers, PeerState
<1>2. state' = [state EXCEPT ![r] = NewPeers]
  BY DEF Restart
<1>3. \A p \in Nodes : NewPeers[p] = [lastSeq |-> 0, age |-> 0, status |-> "alive"]
  BY DEF NewPeers
<1>4. state \in [Nodes -> [Nodes -> PeerState]]
  BY DEF GossipType
<1>5. /\ state' \in [Nodes -> [Nodes -> PeerState]] /\ state'[r] = NewPeers
      /\ \A n \in Nodes : n # r => state'[n] = state[n]
  BY <1>1, <1>2, <1>4
<1>6. /\ restarts' \in [Nodes -> Nat] /\ restarts'[r] # 0
      /\ seq' \in [Nodes -> Nat] /\ since' \in [Nodes -> Nat]
      /\ \A n \in Nodes : n # r => /\ restarts'[n] = restarts[n] /\ seq'[n] = seq[n]
                                   /\ since'[n] = since[n]
  BY DEF Restart, GossipType
<1> QED BY <1>3, <1>5, <1>6 DEF Restart

\* A broadcast is a packet to every other node.
LEMMA BroadcastFacts ==
    ASSUME NEW n \in Nodes, NEW s \in Nat
    PROVE  /\ Broadcast(n, s) \subseteq Packet
           /\ \A m \in Broadcast(n, s) : m.from = n /\ m.seq = s
           /\ \A p \in Nodes \ {n} : [from |-> n, to |-> p, seq |-> s] \in Broadcast(n, s)
BY DEF Broadcast, Packet

-----------------------------------------------------------------------------
(* The invariants are kept.                                                 *)

\* Every step keeps the types.
LEMMA GossipTypeStep ==
    ASSUME GossipType, [Next]_vars
    PROVE  GossipType'
<1> USE DEF counts
<1>1. ASSUME NEW n \in Nodes, SendHeartbeat(n) PROVE GossipType'
  <2>1. seq[n] + 1 \in Nat /\ seq' \in [Nodes -> Nat]
    BY <1>1 DEF SendHeartbeat, GossipType
  <2>2. net' \subseteq Packet
    BY <1>1, <2>1, BroadcastFacts DEF SendHeartbeat, GossipType
  <2> QED BY <1>1, <2>1, <2>2 DEF SendHeartbeat, GossipType
<1>2. ASSUME NEW n \in Nodes, CheckPeers(n) PROVE GossipType'
  <2>1. Broadcast(n, 0) \subseteq Packet
    BY BroadcastFacts
  <2>2. /\ state' \in [Nodes -> [Nodes -> PeerState]]
        /\ net' = net \/ net' = net \cup Broadcast(n, 0)
        /\ checked' = checked \cup {n}
        /\ UNCHANGED <<up, seq, heard, sent, since, counts>>
    BY <1>2, CheckPeersEffect
  <2> QED BY <2>1, <2>2 DEF GossipType
<1>3. ASSUME NEW n \in Nodes, GoDown(n) PROVE GossipType'
  <2>1. net' \subseteq Packet
    BY <1>3, BroadcastFacts DEF GoDown, GossipType
  <2> QED BY <1>3, <2>1 DEF GoDown, GossipType
<1>4. ASSUME NEW n \in Nodes, Restart(n) PROVE GossipType'
  BY <1>4, RestartEffect DEF GossipType
<1>5. ASSUME NEW n \in Nodes, NEW s \in LogSeqs, CoreDeath(n, s) PROVE GossipType'
  <2>1. net' \subseteq Packet
    BY <1>5, BroadcastFacts, GossipBoundsAssumption DEF CoreDeath, GossipType
  <2> QED BY <1>5, <2>1 DEF CoreDeath, GossipType
<1>6. ASSUME NEW m \in net, Deliver(m) PROVE GossipType'
  BY <1>6, HandleEffect DEF Deliver, GossipType
<1>7. ASSUME NEW m \in net, Lose(m) PROVE GossipType'
  BY <1>7 DEF Lose, GossipType
<1>8. ASSUME NEW m \in heard, DeliverCopy(m) PROVE GossipType'
  BY <1>8, HandleEffect DEF DeliverCopy, GossipType
<1>9. CASE Tick
  BY <1>9, TickEffect DEF GossipType
<1>10. CASE UNCHANGED vars
  BY <1>10 DEF vars, GossipType
<1> QED
  BY <1>1, <1>2, <1>3, <1>4, <1>5, <1>6, <1>7, <1>8, <1>9, <1>10 DEF Next

\* A node that is steady after a step was steady before it, and lastSeq only grows.
LEMMA SteadyBefore ==
    ASSUME GossipType, [Next]_vars, NEW n \in Nodes, Steady(n)'
    PROVE  /\ Steady(n)
           /\ \A r \in Nodes : Restart(r) => r # n
           /\ \A p \in Nodes : state'[n][p].lastSeq >= state[n][p].lastSeq
<1> USE DEF counts, Steady
<1>0. /\ \A p \in Nodes : state[n][p].lastSeq \in Nat
      /\ \A p \in Nodes : state[n][p] \in PeerState
  BY DEF GossipType, PeerState
<1>1. ASSUME NEW r \in Nodes, Restart(r) PROVE r # n
  BY <1>1, RestartEffect
<1>2. CASE \E r \in Nodes : Restart(r)
  BY <1>0, <1>1, <1>2, RestartEffect
<1>3. ASSUME NEW c \in Nodes, CheckPeers(c)
      PROVE  Steady(n) /\ \A p \in Nodes : state'[n][p].lastSeq >= state[n][p].lastSeq
  BY <1>0, <1>3, CheckPeersEffect, CheckedEffect
<1>4. CASE Tick
  BY <1>0, <1>1, <1>4, TickEffect
<1>5. ASSUME NEW m \in Packet, state' = Handle(m), UNCHANGED <<up, restarts>>
      PROVE  Steady(n) /\ \A p \in Nodes : state'[n][p].lastSeq >= state[n][p].lastSeq
  <2>1. ASSUME NEW p \in Nodes PROVE state'[n][p].lastSeq >= state[n][p].lastSeq
    <3>1. CASE n = m.to /\ p = m.from /\ n \in up /\ m.seq > state[n][p].lastSeq
      <4>1. state'[n][p] = [lastSeq |-> m.seq, age |-> 0, status |-> "alive"]
        BY <1>5, <3>1, HandleEffect
      <4> QED BY <1>0, <3>1, <4>1 DEF Packet
    <3>2. CASE ~ (n = m.to /\ p = m.from /\ n \in up /\ m.seq > state[n][p].lastSeq)
      <4>1. state'[n][p] = state[n][p]
        BY <1>5, <3>2, HandleEffect
      <4> QED BY <1>0, <4>1
    <3> QED BY <3>1, <3>2
  <2> QED BY <1>5, <2>1
<1>6. CASE \E m \in net : Deliver(m)
  BY <1>1, <1>5, <1>6 DEF Deliver, GossipType
<1>7. CASE \E m \in heard : DeliverCopy(m)
  BY <1>1, <1>5, <1>7 DEF DeliverCopy, GossipType
<1>8. CASE \/ \E c \in Nodes : SendHeartbeat(c) \/ GoDown(c)
           \/ \E c \in Nodes, s \in LogSeqs : CoreDeath(c, s)
           \/ \E m \in net : Lose(m)
           \/ UNCHANGED vars
  <2>1. state' = state /\ restarts' = restarts /\ up' \subseteq up
    BY <1>8 DEF SendHeartbeat, GoDown, CoreDeath, Lose, vars
  <2> QED BY <1>0, <1>1, <2>1
<1> QED BY <1>1, <1>2, <1>3, <1>4, <1>6, <1>7, <1>8 DEF Next

\* A steady node notes every packet that reaches it.
LEMMA NotedStep ==
    ASSUME GossipType, NotedInv, [Next]_vars
    PROVE  NotedInv'
<1> SUFFICES ASSUME NEW n \in Nodes, Steady(n)', NEW m \in heard', m.to = n
             PROVE  m.seq <= state'[n][m.from].lastSeq
  BY DEF NotedInv
<1>0. Steady(n) /\ \A p \in Nodes : state'[n][p].lastSeq >= state[n][p].lastSeq
  BY SteadyBefore
<1>1. /\ heard' \subseteq Packet /\ m.from \in Nodes /\ m.seq \in Nat /\ m \in Packet
      /\ state[n][m.from].lastSeq \in Nat /\ state'[n][m.from].lastSeq \in Nat
  <2>1. GossipType'
    BY GossipTypeStep
  <2>2. heard' \subseteq Packet /\ m.from \in Nodes /\ m.seq \in Nat /\ m \in Packet
    BY <2>1 DEF GossipType, Packet
  <2> QED BY <2>1, <2>2 DEF GossipType, PeerState
<1>2. CASE m \in heard
  <2>1. m.seq <= state[n][m.from].lastSeq
    BY <1>0, <1>2 DEF NotedInv
  <2> QED BY <1>0, <1>1, <2>1
<1>3. CASE m \notin heard
  <2>1. Deliver(m)
    BY <1>3 DEF Next, SendHeartbeat, CheckPeers, GoDown, Restart, CoreDeath, Deliver, Lose,
                DeliverCopy, Tick, vars
  <2>2. state' = Handle(m) /\ n \in up
    BY <1>0, <2>1 DEF Deliver, Steady
  <2>3. m.seq > state[n][m.from].lastSeq => state'[n][m.from].lastSeq = m.seq
    <3> SUFFICES ASSUME m.seq > state[n][m.from].lastSeq
                 PROVE  state'[n][m.from].lastSeq = m.seq
      OBVIOUS
    <3>1. state'[n][m.from] = [lastSeq |-> m.seq, age |-> 0, status |-> "alive"]
      BY <1>1, <2>2, HandleEffect
    <3> QED BY <3>1
  <2> QED BY <1>0, <1>1, <2>3
<1> QED BY <1>2, <1>3

\* Only a running node sends, and Tick waits until every packet has arrived.
LEMMA SilenceStep ==
    ASSUME GossipType, SilenceInv, [Next]_vars
    PROVE  SilenceInv'
<1> SUFFICES ASSUME NEW p \in Nodes \ up', since'[p] >= 1, NEW m \in net' PROVE m.from # p
  BY DEF SilenceInv
<1> USE DEF counts
<1>0. since \in [Nodes -> Nat] /\ seq \in [Nodes -> Nat]
  BY DEF GossipType
<1>1. ASSUME NEW n \in Nodes, SendHeartbeat(n) PROVE m.from # p
  <2>1. m \in net \/ m.from = n
    BY <1>0, <1>1, BroadcastFacts DEF SendHeartbeat
  <2> QED BY <1>1, <2>1 DEF SendHeartbeat, SilenceInv
<1>2. ASSUME NEW n \in Nodes, CheckPeers(n) PROVE m.from # p
  <2>1. m \in net \/ m.from = n
    BY <1>2, CheckPeersEffect, BroadcastFacts
  <2> QED BY <1>2, <2>1 DEF CheckPeers, SilenceInv
<1>3. ASSUME NEW n \in Nodes, GoDown(n) PROVE m.from # p
  <2>1. m \in net \/ m.from = n
    BY <1>3, BroadcastFacts DEF GoDown
  <2>2. p # n /\ since'[p] = since[p] /\ p \notin up
    BY <1>0, <1>3 DEF GoDown
  <2> QED BY <2>1, <2>2 DEF SilenceInv
<1>4. ASSUME NEW n \in Nodes, Restart(n) PROVE m.from # p
  BY <1>4, RestartEffect DEF SilenceInv
<1>5. ASSUME NEW n \in Nodes, NEW s \in LogSeqs, CoreDeath(n, s) PROVE m.from # p
  <2>1. m \in net \/ m.from = n
    BY <1>5, BroadcastFacts, GossipBoundsAssumption DEF CoreDeath
  <2> QED BY <1>5, <2>1 DEF CoreDeath, SilenceInv
<1>6. CASE Tick
  BY <1>6, TickEffect
<1>7. CASE \/ \E q \in net : Deliver(q) \/ Lose(q)
           \/ \E q \in heard : DeliverCopy(q)
           \/ UNCHANGED vars
  BY <1>7 DEF Deliver, Lose, DeliverCopy, vars, SilenceInv
<1> QED BY <1>1, <1>2, <1>3, <1>4, <1>5, <1>6, <1>7 DEF Next

\* No step brings a steady node news of a peer that is down: neither the network,
\* which holds no packet of it, nor a copy, which is old.
LEMMA NothingNew ==
    ASSUME GossipType, NotedInv, SilenceInv, NEW n \in Nodes, Steady(n),
           NEW p \in Nodes \ up, since[p] >= 1, NEW m \in net \cup heard
    PROVE  Handle(m)[n][p] = state[n][p]
<1>1. m \in Packet
  BY DEF GossipType
<1>2. ~ (n = m.to /\ p = m.from /\ n \in up /\ m.seq > state[n][p].lastSeq)
  <2>1. CASE m \in net
    BY <2>1 DEF SilenceInv
  <2>2. CASE m \in heard
    <3>1. m.seq \in Nat /\ state[n][p].lastSeq \in Nat
      BY <1>1 DEF GossipType, Packet, PeerState
    <3>2. n = m.to /\ p = m.from => m.seq <= state[n][p].lastSeq
      BY <2>2 DEF NotedInv
    <3> QED BY <3>1, <3>2
  <2> QED BY <2>1, <2>2
<1> QED BY <1>1, <1>2, HandleEffect

\* A steady node grows as old towards a dead peer as that peer is dead, and its
\* next check marks it.
LEMMA DeadStep ==
    ASSUME GossipType, NotedInv, SilenceInv, DeadInv, [Next]_vars
    PROVE  DeadInv'
<1> SUFFICES ASSUME NEW n \in Nodes, Steady(n)', NEW p \in Nodes \ up'
             PROVE  /\ state'[n][p].age >= since'[p]
                    /\ n \in checked' /\ since'[p] > DeathThreshold =>
                         state'[n][p].status = "compromised"
  BY DEF DeadInv
<1> DEFINE Good == /\ state'[n][p].age >= since'[p]
                   /\ n \in checked' /\ since'[p] > DeathThreshold =>
                        state'[n][p].status = "compromised"
<1> USE DEF counts
<1>0. /\ Steady(n) /\ n \in up /\ n # p /\ DeathThreshold \in Nat
      /\ since \in [Nodes -> Nat] /\ state[n][p] \in PeerState
      /\ state[n][p].age \in Nat /\ since[p] \in Nat
      /\ GossipType' /\ state'[n][p].age \in Nat
  <2>1. Steady(n) /\ n \in up /\ n # p
    BY SteadyBefore DEF Steady
  <2> QED BY <2>1, ThresholdsAssumption, GossipTypeStep DEF GossipType, PeerState
<1>1. ASSUME p \notin up
      PROVE  /\ state[n][p].age >= since[p]
             /\ n \in checked /\ since[p] > DeathThreshold => state[n][p].status = "compromised"
  BY <1>0, <1>1 DEF DeadInv
<1>2. ASSUME NEW g \in Nodes, GoDown(g) PROVE Good
  <2>1. CASE g = p
    <3>1. since'[p] = 0
      BY <1>0, <1>2, <2>1 DEF GoDown
    <3> QED BY <1>0, <3>1
  <2>2. CASE g # p
    <3>1. since'[p] = since[p] /\ state' = state /\ checked' = checked /\ p \notin up
      BY <1>0, <1>2, <2>2 DEF GoDown
    <3> QED BY <1>1, <3>1
  <2> QED BY <2>1, <2>2
<1>3. ASSUME NEW r \in Nodes, Restart(r) PROVE Good
  <2>1. r # n /\ r # p /\ p \notin up
    BY <1>3, SteadyBefore, RestartEffect
  <2>2. since'[p] = since[p] /\ state'[n][p] = state[n][p] /\ checked' \subseteq checked
    BY <1>3, <2>1, RestartEffect
  <2> QED BY <1>1, <2>1, <2>2
<1>4. ASSUME NEW c \in Nodes, CheckPeers(c) PROVE Good
  <2>1. p \notin up /\ since' = since /\ checked' = checked \cup {c}
    BY <1>4, CheckPeersEffect
  <2>2. CASE c = n
    <3>1. state'[n][p] = Checked(state[n][p])
      BY <1>0, <1>4, <2>2, CheckPeersEffect
    <3>2. /\ state'[n][p].age = state[n][p].age
          /\ state[n][p].age >= DeathThreshold => state'[n][p].status = "compromised"
      BY <1>0, <3>1, CheckedEffect
    <3> QED BY <1>0, <1>1, <2>1, <3>2
  <2>3. CASE c # n
    <3>1. state'[n][p] = state[n][p]
      BY <1>0, <1>4, <2>3, CheckPeersEffect
    <3> QED BY <1>1, <2>1, <2>3, <3>1
  <2> QED BY <2>2, <2>3
<1>5. ASSUME NEW m \in net \cup heard, state' = Handle(m), UNCHANGED <<up, checked, since>>
      PROVE  Good
  <2>1. CASE since[p] >= 1
    <3>1. state'[n][p] = state[n][p]
      BY <1>0, <1>5, <2>1, NothingNew
    <3> QED BY <1>1, <1>5, <3>1
  <2>2. CASE since[p] = 0
    BY <1>0, <1>5, <2>2
  <2> QED BY <1>0, <2>1, <2>2
<1>6. CASE \E m \in net : Deliver(m)
  BY <1>5, <1>6 DEF Deliver
<1>7. CASE \E m \in heard : DeliverCopy(m)
  BY <1>5, <1>7 DEF DeliverCopy
<1>8. CASE Tick
  <2>1. /\ state'[n][p].age = state[n][p].age + 1 /\ since'[p] = since[p] + 1
        /\ checked' = {} /\ p \notin up
    BY <1>0, <1>8, TickEffect
  <2> QED BY <1>0, <1>1, <2>1
<1>9. CASE \/ \E c \in Nodes : SendHeartbeat(c)
           \/ \E c \in Nodes, s \in LogSeqs : CoreDeath(c, s)
           \/ \E m \in net : Lose(m)
           \/ UNCHANGED vars
  <2>1. UNCHANGED <<up, state, since, checked>>
    BY <1>9 DEF SendHeartbeat, CoreDeath, Lose, vars
  <2> QED BY <1>1, <2>1
<1> QED BY <1>2, <1>3, <1>4, <1>6, <1>7, <1>8, <1>9 DEF Next

\* A packet is its three fields.
LEMMA PacketFields ==
    ASSUME NEW m \in Packet, NEW p, NEW n, m.from = p, m.to = n, m.seq = seq[p]
    PROVE  m = Beat(p, n)
BY DEF Packet, Beat

\* A steady peer's Seq stays the highest anyone has heard of it.
LEMMA SeqStep ==
    ASSUME GossipInv, [Next]_vars, NEW p \in Nodes, Steady(p)', reports' = 0
    PROVE  reports = 0 /\ Steady(p) /\ SeqBody(p) /\ SeqBody(p)'
<1> USE DEF counts
<1>1. GossipType /\ GossipType' /\ Steady(p) /\ p \in up /\ p \in up' /\ seq[p] \in Nat
  BY GossipTypeStep, SteadyBefore DEF GossipInv, Steady, GossipType
<1>2. reports = 0 /\ ~ \E c \in Nodes, s \in LogSeqs : CoreDeath(c, s)
  <2>1. ASSUME NEW c \in Nodes, NEW s \in LogSeqs, CoreDeath(c, s) PROVE FALSE
    BY <1>1, <2>1 DEF CoreDeath, GossipType
  <2>2. reports' = reports
    BY <2>1 DEF Next, vars, SendHeartbeat, CheckPeers, GoDown, Restart, Deliver, Lose,
                DeliverCopy, Tick
  <2> QED BY <2>1, <2>2
<1>3. SeqBody(p)
  BY <1>1, <1>2 DEF GossipInv, LiveInv
<1>4. /\ \A m \in net \cup heard : m.from = p => m.seq <= seq[p]
      /\ p \in sent => seq[p] > 0
      /\ seq[p] > 0 => \A n \in Nodes : Beat(p, n) \in net => Beat(p, n) \notin heard
      /\ \A m \in net \cup heard : m.seq \in Nat
  BY <1>1, <1>3 DEF SeqBody, GossipType, Packet
<1>5. ASSUME NEW c \in Nodes, SendHeartbeat(c) PROVE SeqBody(p)'
  <2>1. /\ net' = net \cup Broadcast(c, seq[c] + 1) /\ heard' = heard
        /\ sent' = sent \cup {c} /\ seq[c] + 1 \in Nat
        /\ \A m \in Broadcast(c, seq[c] + 1) : m.from = c /\ m.seq = seq[c] + 1
    BY <1>1, <1>5, BroadcastFacts DEF SendHeartbeat, GossipType
  <2>2. CASE c = p
    <3>1. seq'[p] = seq[p] + 1
      BY <1>1, <1>5, <2>2 DEF SendHeartbeat, GossipType
    <3>2. \A m \in net' \cup heard' : m.from = p => m.seq <= seq'[p]
      BY <1>1, <1>4, <2>1, <2>2, <3>1
    <3>3. \A n \in Nodes : Beat(p, n)' \notin heard'
      <4> SUFFICES ASSUME NEW n \in Nodes, Beat(p, n)' \in heard PROVE FALSE
        BY <2>1
      <4>1. Beat(p, n)'.from = p /\ Beat(p, n)'.seq = seq[p] + 1
        BY <3>1 DEF Beat
      <4> QED BY <1>1, <1>4, <4>1
    <3> QED BY <1>1, <3>1, <3>2, <3>3 DEF SeqBody
  <2>3. CASE c # p
    <3>1. seq'[p] = seq[p] /\ \A n \in Nodes : Beat(p, n)' = Beat(p, n)
      BY <1>1, <1>5, <2>3 DEF SendHeartbeat, GossipType, Beat
    <3>2. \A n \in Nodes : Beat(p, n) \in net' => Beat(p, n) \in net
      BY <2>1, <2>3 DEF Beat
    <3>3. \A m \in net' \cup heard' : m.from = p => m \in net \cup heard
      BY <2>1, <2>3
    <3> QED BY <1>4, <2>1, <2>3, <3>1, <3>2, <3>3 DEF SeqBody
  <2> QED BY <2>2, <2>3
<1>6. ASSUME NEW c \in Nodes, net' = net \/ net' = net \cup Broadcast(c, 0),
             UNCHANGED <<heard, seq>>, p \in sent' => p \in sent
      PROVE  SeqBody(p)'
  <2>1. \A m \in Broadcast(c, 0) : m.seq = 0
    BY BroadcastFacts
  <2>2. \A m \in net' \cup heard' : m.from = p => m.seq <= seq'[p]
    BY <1>1, <1>4, <1>6, <2>1
  <2>3. \A n \in Nodes : Beat(p, n)' = Beat(p, n) /\ Beat(p, n).seq = seq[p]
    BY <1>6 DEF Beat
  <2>4. seq[p] > 0 => \A n \in Nodes : Beat(p, n) \in net' => Beat(p, n) \in net
    BY <1>1, <1>6, <2>1, <2>3
  <2> QED BY <1>4, <1>6, <2>2, <2>3, <2>4 DEF SeqBody
<1>7. ASSUME NEW c \in Nodes, CheckPeers(c) PROVE SeqBody(p)'
  BY <1>1, <1>6, <1>7, CheckPeersEffect
<1>8. ASSUME NEW c \in Nodes, GoDown(c) PROVE SeqBody(p)'
  BY <1>6, <1>8 DEF GoDown
<1>9. ASSUME NEW r \in Nodes, Restart(r) PROVE SeqBody(p)'
  <2>1. /\ UNCHANGED <<net, heard>> /\ seq'[p] = seq[p] /\ sent' \subseteq sent
        /\ \A n \in Nodes : Beat(p, n)' = Beat(p, n)
    BY <1>1, <1>9, RestartEffect DEF Beat
  <2> QED BY <1>4, <2>1 DEF SeqBody
<1>10. ASSUME NEW q \in net, Deliver(q) PROVE SeqBody(p)'
  <2>1. /\ net' = net \ {q} /\ heard' = heard \cup {q} /\ UNCHANGED <<seq, sent>>
        /\ \A n \in Nodes : Beat(p, n)' = Beat(p, n)
    BY <1>10 DEF Deliver, Beat
  <2> QED BY <1>4, <2>1 DEF SeqBody
<1>11. CASE \/ \E q \in net : Lose(q)
            \/ \E q \in heard : DeliverCopy(q)
            \/ UNCHANGED vars
  <2>1. /\ net' \subseteq net /\ UNCHANGED <<heard, seq, sent>>
        /\ \A n \in Nodes : Beat(p, n)' = Beat(p, n)
    BY <1>11 DEF Lose, DeliverCopy, vars, Beat
  <2>2. \A m \in net' \cup heard' : m.from = p => m.seq <= seq'[p]
    BY <1>4, <2>1
  <2>3. seq'[p] > 0 => \A n \in Nodes : Beat(p, n)' \in net' => Beat(p, n)' \notin heard'
    BY <1>4, <2>1
  <2> QED BY <1>1, <1>2, <1>3, <1>4, <2>1, <2>2, <2>3 DEF SeqBody
<1>12. CASE Tick
  <2>1. net' = {} /\ sent' = {} /\ UNCHANGED <<heard, seq>>
    BY <1>1, <1>12, TickEffect
  <2>2. \A m \in net' \cup heard' : m.from = p => m.seq <= seq'[p]
    BY <1>4, <2>1
  <2> QED BY <1>1, <1>2, <1>3, <2>1, <2>2 DEF SeqBody
<1>13. SeqBody(p)'
  BY <1>2, <1>5, <1>7, <1>8, <1>9, <1>10, <1>11, <1>12 DEF Next
<1> QED BY <1>1, <1>2, <1>3, <1>13

\* A heartbeat lost costs a steady peer one interval in a running node's eyes, and
\* nothing else does.
LEMMA LiveStep ==
    ASSUME GossipInv, [Next]_vars
    PROVE  LiveInv'
<1> SUFFICES ASSUME reports' = 0, NEW p \in Nodes, Steady(p)', NEW n \in up' \ {p}
             PROVE  LiveBody(n, p)'
  <2>1. ASSUME reports' = 0, NEW p \in Nodes, Steady(p)' PROVE SeqBody(p)'
    BY <2>1, SeqStep
  <2> QED BY <2>1 DEF LiveInv
<1> USE DEF counts
<1>1. /\ reports = 0 /\ Steady(p) /\ p \in up /\ GossipType /\ GossipType'
      /\ n \in Nodes /\ seq[p] \in Nat /\ losses \in Nat /\ MissedThreshold \in Nat
      /\ n # p /\ \A r \in Nodes : Restart(r) => r # p
  BY SeqStep, GossipTypeStep, SteadyBefore, ThresholdsAssumption
     DEF GossipInv, Steady, GossipType
<1>2. /\ \A m \in net \cup heard : m \in Packet /\ m.seq \in Nat /\ (m.from = p => m.seq <= seq[p])
      /\ p \in sent => seq[p] > 0
      /\ seq[p] > 0 => (Beat(p, n) \in net => Beat(p, n) \notin heard)
  <2>1. SeqBody(p)
    BY SeqStep
  <2> QED BY <1>1, <2>1 DEF SeqBody, GossipType, Packet
<1>3. ASSUME NEW r \in Nodes, Restart(r), r = n PROVE LiveBody(n, p)'
  <2>1. /\ state'[n][p] = [lastSeq |-> 0, age |-> 0, status |-> "alive"]
        /\ seq'[p] = seq[p] /\ losses' = losses
    BY <1>1, <1>3, RestartEffect
  <2> QED BY <1>1, <2>1 DEF LiveBody
<1>4. SUFFICES ASSUME \A r \in Nodes : Restart(r) => r # n PROVE LiveBody(n, p)'
  BY <1>3
<1>5. n \in up
  BY <1>1, <1>4 DEF Next, vars, SendHeartbeat, CheckPeers, GoDown, Restart, CoreDeath, Deliver,
                Lose, DeliverCopy, Tick
<1> DEFINE st == state[n][p]
<1>6. /\ st \in PeerState /\ st.lastSeq \in Nat /\ st.age \in Nat
      /\ st.lastSeq <= seq[p]
      /\ seq[p] > 0 /\ Beat(p, n) \in net => st.lastSeq < seq[p]
      /\ st.age <= losses + 1
      /\ p \in sent /\ Beat(p, n) \notin net => st.age <= losses
      /\ losses < MissedThreshold - 1 => st.status = "alive"
  <2>1. LiveBody(n, p)
    BY <1>1, <1>5 DEF GossipInv, LiveInv
  <2>2. st \in PeerState
    BY <1>1 DEF GossipType
  <2> QED BY <2>1, <2>2 DEF LiveBody, PeerState
<1> HIDE DEF st
<1>7. ASSUME NEW c \in Nodes, SendHeartbeat(c) PROVE LiveBody(n, p)'
  <2>1. /\ net' = net \cup Broadcast(c, seq[c] + 1) /\ sent' = sent \cup {c}
        /\ seq[c] + 1 \in Nat /\ state'[n][p] = st /\ losses' = losses
        /\ \A m \in Broadcast(c, seq[c] + 1) : m.from = c
    BY <1>1, <1>7, BroadcastFacts DEF SendHeartbeat, GossipType, st
  <2>2. CASE c = p
    <3>1. seq'[p] = seq[p] + 1
      BY <1>1, <1>7, <2>2 DEF SendHeartbeat, GossipType
    <3>2. Beat(p, n)' \in net'
      <4>1. Beat(p, n)' = [from |-> p, to |-> n, seq |-> seq[p] + 1]
        BY <3>1 DEF Beat
      <4> QED BY <1>1, <2>1, <2>2, <4>1, BroadcastFacts
    <3> QED BY <1>1, <1>6, <2>1, <3>1, <3>2 DEF LiveBody
  <2>3. CASE c # p
    <3>1. seq'[p] = seq[p] /\ Beat(p, n)' = Beat(p, n)
      BY <1>1, <1>7, <2>3 DEF SendHeartbeat, GossipType, Beat
    <3>2. Beat(p, n) \in net' <=> Beat(p, n) \in net
      BY <2>1, <2>3 DEF Beat
    <3> QED BY <1>6, <2>1, <2>3, <3>1, <3>2 DEF LiveBody
  <2> QED BY <2>2, <2>3
<1>8. ASSUME NEW c \in Nodes, net' = net \/ net' = net \cup Broadcast(c, 0),
             UNCHANGED <<seq, losses>>, p \in sent' => p \in sent,
             state'[n][p].lastSeq = st.lastSeq, state'[n][p].age = st.age,
             st.age < MissedThreshold /\ st.status = "alive" => state'[n][p].status = "alive"
      PROVE  LiveBody(n, p)'
  <2>1. \A m \in Broadcast(c, 0) : m.seq = 0
    BY BroadcastFacts
  <2>2. Beat(p, n)' = Beat(p, n) /\ Beat(p, n).seq = seq[p]
    BY <1>8 DEF Beat
  <2>3. seq[p] > 0 => (Beat(p, n) \in net' <=> Beat(p, n) \in net)
    BY <1>1, <1>8, <2>1, <2>2
  <2>4. losses < MissedThreshold - 1 => st.age < MissedThreshold
    BY <1>1, <1>6
  <2> QED BY <1>1, <1>2, <1>6, <1>8, <2>2, <2>3, <2>4 DEF LiveBody
<1>9. ASSUME NEW c \in Nodes, CheckPeers(c) PROVE LiveBody(n, p)'
  <2>1. /\ state'[n][p] = IF n = c /\ p # c THEN Checked(st) ELSE st
        /\ net' = net \/ net' = net \cup Broadcast(c, 0)
        /\ UNCHANGED <<seq, losses, sent>>
    BY <1>1, <1>9, CheckPeersEffect DEF st
  <2>2. /\ Checked(st).lastSeq = st.lastSeq /\ Checked(st).age = st.age
        /\ st.age < MissedThreshold /\ st.status = "alive" => Checked(st).status = "alive"
    BY <1>6, CheckedEffect
  <2>3. /\ state'[n][p].lastSeq = st.lastSeq /\ state'[n][p].age = st.age
        /\ st.age < MissedThreshold /\ st.status = "alive" => state'[n][p].status = "alive"
    BY <2>1, <2>2
  <2> QED BY <1>8, <2>1, <2>3
<1>10. ASSUME NEW c \in Nodes, GoDown(c) PROVE LiveBody(n, p)'
  BY <1>8, <1>10 DEF GoDown, st
<1>11. ASSUME NEW r \in Nodes, Restart(r) PROVE LiveBody(n, p)'
  <2>1. r # n /\ r # p
    BY <1>1, <1>4, <1>11
  <2>2. /\ net' = net /\ losses' = losses /\ (p \in sent' <=> p \in sent)
        /\ state'[n][p] = st /\ seq'[p] = seq[p] /\ Beat(p, n)' = Beat(p, n)
    BY <1>1, <1>11, <2>1, RestartEffect DEF Beat, st
  <2> QED BY <1>6, <2>2 DEF LiveBody
<1>12. ASSUME NEW m \in net \cup heard, state' = Handle(m), UNCHANGED <<up, seq, losses, sent>>,
              net' = net \ {m} \/ (m \in heard /\ net' = net)
       PROVE  LiveBody(n, p)'
  <2>1. Beat(p, n)' = Beat(p, n) /\ m \in Packet /\ m.seq \in Nat
    BY <1>2, <1>12 DEF Beat
  <2>2. CASE n = m.to /\ p = m.from /\ m.seq > st.lastSeq
    <3>1. state'[n][p] = [lastSeq |-> m.seq, age |-> 0, status |-> "alive"]
      BY <1>1, <1>5, <1>12, <2>1, <2>2, HandleEffect DEF st
    <3>2. m.seq <= seq[p]
      BY <1>2, <2>2
    <3>3. ASSUME seq[p] > 0, Beat(p, n) \in net' PROVE m.seq < seq[p]
      <4>1. m.seq = seq[p] => m = Beat(p, n)
        BY <2>1, <2>2, PacketFields
      <4>2. m # Beat(p, n)
        BY <1>2, <1>12, <3>3
      <4> QED BY <1>1, <2>1, <3>2, <4>1, <4>2
    <3> QED BY <1>1, <1>12, <2>1, <3>1, <3>2, <3>3 DEF LiveBody
  <2>3. CASE ~ (n = m.to /\ p = m.from /\ m.seq > st.lastSeq)
    <3>1. state'[n][p] = st
      BY <1>1, <1>12, <2>1, <2>3, HandleEffect DEF st
    <3>2. ASSUME p \in sent, Beat(p, n) \notin net' PROVE Beat(p, n) \notin net
      <4>1. seq[p] > 0
        BY <1>2, <3>2
      <4> SUFFICES ASSUME Beat(p, n) \in net PROVE FALSE
        OBVIOUS
      <4>2. m = Beat(p, n)
        BY <1>12, <3>2
      <4>3. n = m.to /\ p = m.from /\ m.seq = seq[p]
        BY <4>2 DEF Beat
      <4> QED BY <1>6, <2>3, <4>1, <4>3
    <3> QED BY <1>6, <1>12, <2>1, <3>1, <3>2 DEF LiveBody
  <2> QED BY <2>2, <2>3
<1>13. CASE \E m \in net : Deliver(m)
  BY <1>12, <1>13 DEF Deliver
<1>14. CASE \E m \in heard : DeliverCopy(m)
  BY <1>12, <1>14 DEF DeliverCopy
<1>15. CASE \E m \in net : Lose(m)
  <2>1. /\ state'[n][p] = st /\ losses' = losses + 1 /\ UNCHANGED <<seq, sent>>
        /\ net' \subseteq net /\ Beat(p, n)' = Beat(p, n)
    BY <1>15 DEF Lose, Beat, st
  <2> QED BY <1>1, <1>6, <2>1 DEF LiveBody
<1>16. CASE Tick
  <2>1. /\ state'[n][p].age = st.age + 1 /\ state'[n][p].lastSeq = st.lastSeq
        /\ state'[n][p].status = st.status
        /\ net = {} /\ p \in sent /\ net' = {} /\ sent' = {} /\ UNCHANGED <<seq, losses>>
    BY <1>1, <1>16, TickEffect DEF st
  <2>2. st.age <= losses
    BY <1>6, <2>1
  <2> QED BY <1>1, <1>6, <2>1, <2>2 DEF LiveBody
<1>17. CASE UNCHANGED vars
  <2>1. UNCHANGED <<state, seq, net, sent, losses>> /\ Beat(p, n)' = Beat(p, n)
    BY <1>17 DEF vars, Beat
  <2> QED BY <1>6, <2>1 DEF LiveBody, st
<1>18. ~ \E c \in Nodes, s \in LogSeqs : CoreDeath(c, s)
  <2>1. ASSUME NEW c \in Nodes, NEW s \in LogSeqs, CoreDeath(c, s) PROVE FALSE
    BY <1>1, <2>1 DEF CoreDeath
  <2> QED BY <2>1
<1> QED
  BY <1>7, <1>9, <1>10, <1>11, <1>13, <1>14, <1>15, <1>16, <1>17, <1>18 DEF Next

-----------------------------------------------------------------------------
(* The theorems.                                                            *)

\* GossipInv is an invariant.
LEMMA GossipInvariant == Spec => []GossipInv
<1>1. Init => GossipInv
  <2> SUFFICES ASSUME Init PROVE GossipInv
    OBVIOUS
  <2>1. NewPeers \in [Nodes -> PeerState]
    BY DEF NewPeers, PeerState
  <2>2. GossipType
    BY <2>1 DEF Init, GossipType
  <2>3. NotedInv /\ SilenceInv /\ DeadInv
    BY DEF Init, NotedInv, SilenceInv, DeadInv
  <2>4. \A n, p \in Nodes : state[n][p] = [lastSeq |-> 0, age |-> 0, status |-> "alive"]
    BY DEF Init, NewPeers
  <2>5. /\ net = {} /\ heard = {} /\ sent = {} /\ losses = 0 /\ up = Nodes
        /\ \A p \in Nodes : seq[p] = 0
    BY DEF Init
  <2>6. \A p \in Nodes : SeqBody(p) /\ \A n \in up \ {p} : LiveBody(n, p)
    BY <2>4, <2>5 DEF SeqBody, LiveBody
  <2> QED BY <2>2, <2>3, <2>6 DEF GossipInv, LiveInv
<1>2. GossipInv /\ [Next]_vars => GossipInv'
  BY GossipTypeStep, NotedStep, SilenceStep, DeadStep, LiveStep DEF GossipInv
<1> QED BY <1>1, <1>2, PTL DEF Spec

\* A dead peer is noticed: no packet that arrives late or twice, and no death
\* report, hides from a node that has run throughout that a peer has been down for
\* more than DeathThreshold intervals.
THEOREM DeadPeerAlwaysNoticed == Spec => []DeadPeerNoticed
<1>1. GossipInv => DeadPeerNoticed
  BY DEF GossipInv, GossipType, DeadInv, DeadPeerNoticed, Steady
<1> QED BY <1>1, GossipInvariant, PTL

\* A peer that heartbeats without a restart and broadcasts no DEATH record raises no
\* alarm while fewer than MissedThreshold - 1 packets are lost, whatever else the
\* network and the other nodes do.
THEOREM SteadyPeerAlwaysAlive == Spec => []SteadyPeerAlive
<1>1. GossipInv => SteadyPeerAlive
  <2> SUFFICES ASSUME GossipInv, losses < MissedThreshold - 1, NEW n \in up, NEW p \in up,
                      n # p, restarts[p] = 0, reports = 0
               PROVE  state[n][p].status = "alive"
    BY DEF SteadyPeerAlive
  <2>1. p \in Nodes /\ Steady(p)
    BY DEF GossipInv, GossipType, Steady
  <2>2. LiveBody(n, p)
    BY <2>1 DEF GossipInv, LiveInv
  <2> QED BY <2>2 DEF LiveBody
<1> QED BY <1>1, GossipInvariant, PTL
=============================================================================
