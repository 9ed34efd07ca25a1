---------------------------- MODULE AcceptProofs ----------------------------
(***************************************************************************)
(* Theorems about Accept, for every set of things, values and keys and     *)
(* every number of requests, mishaps and kills.                            *)
(***************************************************************************)
EXTENDS Accept, WellFoundedInduction, TLAPS

-----------------------------------------------------------------------------
(* Replay is a fold over the log.  Its recursive definition is unfolded by  *)
(* looking at the least number of entries for which it could fail.          *)

\* A nonempty set of numbers has a least one.
LEMMA LeastNumber ==
    ASSUME NEW T, T \subseteq Nat, T # {}
    PROVE  \E m \in T : \A k \in T : m <= k
<1>1. PICK m \in T : \A k \in T : ~ (<<k, m>> \in OpToRel(<, Nat))
  BY NatLessThanWellFounded, WFMin
<1>2. \A k \in T : ~ (k < m)
  BY <1>1 DEF OpToRel
<1> QED BY <1>2

\* The sets along a replay: after n entries, for n up to the length of the log.
IsReplay(f, entries, N, operators, any) ==
    f = [n \in 0 .. N |-> IF n = 0 THEN EmptySet
                          ELSE ReplayEntry(entries[n], f[n - 1], operators, any)]

\* There is such a function for every number of entries.
LEMMA ReplayExists ==
    ASSUME NEW entries, NEW operators, NEW any, NEW N \in Nat
    PROVE  \E f : IsReplay(f, entries, N, operators, any)
<1> DEFINE T == {M \in Nat : ~ \E f : IsReplay(f, entries, M, operators, any)}
<1> SUFFICES ASSUME T # {} PROVE FALSE
  OBVIOUS
<1>1. PICK M \in T : \A k \in T : M <= k
  BY LeastNumber
<1>2. CASE M = 0
  <2> DEFINE f == [n \in 0 .. 0 |-> EmptySet]
  <2>1. IsReplay(f, entries, 0, operators, any)
    BY DEF IsReplay
  <2> QED BY <1>1, <1>2, <2>1
<1>3. CASE M # 0
  <2>1. M - 1 \in Nat /\ ~ (M <= M - 1) /\ M \in Nat
    BY <1>1, <1>3
  <2>2. PICK f : IsReplay(f, entries, M - 1, operators, any)
    BY <1>1, <2>1
  <2> DEFINE last == ReplayEntry(entries[M], f[M - 1], operators, any)
             g == [n \in 0 .. M |-> IF n = M THEN last ELSE f[n]]
  <2>3. /\ \A n \in 0 .. M - 1 : g[n] = f[n]
        /\ g[M] = last
    BY <2>1
  <2>4. \A n \in 0 .. M - 1 : f[n] = IF n = 0 THEN EmptySet
                                      ELSE ReplayEntry(entries[n], f[n - 1], operators, any)
    BY <2>2 DEF IsReplay
  <2>5. ASSUME NEW n \in 0 .. M
        PROVE  g[n] = IF n = 0 THEN EmptySet
                      ELSE ReplayEntry(entries[n], g[n - 1], operators, any)
    <3>1. CASE n = M
      <4>1. g[n - 1] = f[n - 1] /\ n # 0
        BY <1>3, <2>1, <2>3, <3>1
      <4> QED BY <2>3, <3>1, <4>1
    <3>2. CASE n \in 1 .. M - 1
      <4>1. g[n - 1] = f[n - 1] /\ g[n] = f[n] /\ n \in 0 .. M - 1 /\ n # 0
        BY <2>1, <2>3, <3>2
      <4> QED BY <2>4, <4>1
    <3>3. CASE n = 0
      BY <2>1, <2>3, <2>4, <3>3
    <3> QED BY <2>1, <3>1, <3>2, <3>3
  <2>6. g = [n \in 0 .. M |-> g[n]]
    OBVIOUS
  <2> HIDE DEF g, last
  <2>7. IsReplay(g, entries, M, operators, any)
    BY <2>5, <2>6 DEF IsReplay
  <2> QED BY <1>1, <2>7
<1> QED BY <1>2, <1>3

\* Replay is what such a function has at the end.
LEMMA ReplayIs ==
    ASSUME NEW entries, Len(entries) \in Nat, NEW operators, NEW any
    PROVE  \E f : /\ IsReplay(f, entries, Len(entries), operators, any)
                  /\ Replay(entries, operators, any) = f[Len(entries)]
<1> DEFINE f == CHOOSE f : IsReplay(f, entries, Len(entries), operators, any)
<1>1. IsReplay(f, entries, Len(entries), operators, any)
  BY ReplayExists
<1>2. Replay(entries, operators, any) = f[Len(entries)]
  BY DEF Replay, IsReplay
<1> QED BY <1>1, <1>2

\* Nothing is approved by an empty log.
LEMMA ReplayEmpty ==
    ASSUME NEW operators, NEW any
    PROVE  Replay(<<>>, operators, any) = EmptySet
<1>1. Len(<<>>) = 0
  OBVIOUS
<1>2. PICK f : /\ IsReplay(f, <<>>, 0, operators, any)
               /\ Replay(<<>>, operators, any) = f[0]
  BY <1>1, ReplayIs
<1> QED BY <1>2 DEF IsReplay

\* An appended entry is replayed last.
LEMMA ReplayAppended ==
    ASSUME NEW S, NEW entries \in Seq(S), NEW e \in S, NEW operators, NEW any
    PROVE  Replay(Append(entries, e), operators, any)
             = ReplayEntry(e, Replay(entries, operators, any), operators, any)
<1> DEFINE N == Len(entries)
           longer == Append(entries, e)
<1>1. /\ N \in Nat /\ Len(longer) = N + 1 /\ longer[N + 1] = e
      /\ \A n \in 1 .. N : longer[n] = entries[n]
  OBVIOUS
<1>2. PICK f : /\ IsReplay(f, entries, N, operators, any)
               /\ Replay(entries, operators, any) = f[N]
  BY <1>1, ReplayIs
<1> HIDE DEF N, longer
<1>3. PICK g : /\ IsReplay(g, longer, N + 1, operators, any)
               /\ Replay(longer, operators, any) = g[N + 1]
  <2>1. Len(longer) \in Nat
    BY <1>1
  <2>2. \E g : /\ IsReplay(g, longer, Len(longer), operators, any)
               /\ Replay(longer, operators, any) = g[Len(longer)]
    BY <2>1, ReplayIs
  <2> QED BY <1>1, <2>2
<1>4. \A n \in 0 .. N : f[n] = IF n = 0 THEN EmptySet
                               ELSE ReplayEntry(entries[n], f[n - 1], operators, any)
  BY <1>2 DEF IsReplay
<1>5. \A n \in 0 .. N + 1 : g[n] = IF n = 0 THEN EmptySet
                                   ELSE ReplayEntry(longer[n], g[n - 1], operators, any)
  BY <1>3 DEF IsReplay
<1>6. \A n \in 0 .. N : g[n] = f[n]
  <2> DEFINE T == {n \in 0 .. N : g[n] # f[n]}
  <2> SUFFICES ASSUME T # {} PROVE FALSE
    OBVIOUS
  <2>1. T \subseteq Nat
    BY <1>1
  <2>2. PICK m \in T : \A k \in T : m <= k
    BY <2>1, LeastNumber
  <2>3. CASE m = 0
    BY <1>1, <1>4, <1>5, <2>2, <2>3
  <2>4. CASE m # 0
    <3>1. m - 1 \in 0 .. N /\ ~ (m <= m - 1) /\ m \in 1 .. N /\ m \in 0 .. N + 1
      BY <1>1, <2>2, <2>4
    <3>2. g[m - 1] = f[m - 1]
      BY <2>2, <3>1
    <3>3. f[m] = ReplayEntry(entries[m], f[m - 1], operators, any)
      BY <1>4, <2>4, <3>1
    <3>4. g[m] = ReplayEntry(longer[m], g[m - 1], operators, any)
      BY <1>5, <2>4, <3>1
    <3> QED BY <1>1, <2>2, <3>1, <3>2, <3>3, <3>4
  <2> QED BY <2>3, <2>4
<1>7. N + 1 \in 0 .. N + 1 /\ N + 1 # 0 /\ (N + 1) - 1 = N /\ N \in 0 .. N
  BY <1>1
<1>8. g[N + 1] = ReplayEntry(longer[N + 1], g[N], operators, any)
  BY <1>5, <1>7
<1>9. g[N] = f[N]
  BY <1>6, <1>7
<1> QED BY <1>1, <1>2, <1>3, <1>8, <1>9 DEF longer

\* What a replay approves was signed by the operators it was given.
LEMMA ReplaySigned ==
    ASSUME Dev = FALSE, NEW entries, Len(entries) \in Nat, NEW operators
    PROVE  \A a \in Replay(entries, operators, FALSE).approvals :
              a.signer \in operators /\ a.signer # Own
<1> DEFINE N == Len(entries)
           Good(s) == \A a \in s.approvals : a.signer \in operators /\ a.signer # Own
<1>1. PICK f : /\ IsReplay(f, entries, N, operators, FALSE)
               /\ Replay(entries, operators, FALSE) = f[N]
  BY ReplayIs
<1>2. \A n \in 0 .. N : f[n] = IF n = 0 THEN EmptySet
                               ELSE ReplayEntry(entries[n], f[n - 1], operators, FALSE)
  BY <1>1 DEF IsReplay
<1>3. ASSUME NEW s, NEW e, Good(s) PROVE Good(ReplayEntry(e, s, operators, FALSE))
  <2>1. CASE e.event # "rejected" /\ Applicable(e.req, s, operators, FALSE)
    <3>1. e.req.signer \in operators /\ e.req.signer # Own
      BY <2>1 DEF Applicable, Signs
    <3>2. Effect(e.req, s).approvals \subseteq s.approvals \cup {e.req}
      BY DEF Effect
    <3>3. ReplayEntry(e, s, operators, FALSE) = Effect(e.req, s)
      BY <2>1 DEF ReplayEntry
    <3> QED BY <1>3, <3>1, <3>2, <3>3
  <2>2. CASE ~ (e.event # "rejected" /\ Applicable(e.req, s, operators, FALSE))
    BY <1>3, <2>2 DEF ReplayEntry
  <2> QED BY <2>1, <2>2
<1>4. Good(EmptySet)
  BY DEF EmptySet
<1> HIDE DEF N, Good
<1>5. \A n \in 0 .. N : Good(f[n])
  <2> DEFINE T == {n \in 0 .. N : ~ Good(f[n])}
  <2> SUFFICES ASSUME T # {} PROVE FALSE
    OBVIOUS
  <2>1. T \subseteq Nat /\ N \in Nat
    BY DEF N
  <2>2. PICK m \in T : \A k \in T : m <= k
    BY <2>1, LeastNumber
  <2>3. m # 0
    BY <1>2, <1>4, <2>1, <2>2
  <2>4. m - 1 \in 0 .. N /\ ~ (m <= m - 1)
    BY <2>1, <2>2, <2>3
  <2>5. Good(f[m - 1])
    BY <2>2, <2>4
  <2>6. f[m] = ReplayEntry(entries[m], f[m - 1], operators, FALSE)
    BY <1>2, <2>2, <2>3
  <2> QED BY <1>3, <2>2, <2>5, <2>6
<1>6. Good(f[N])
  BY <1>5 DEF N
<1> QED BY <1>1, <1>6 DEF Good

-----------------------------------------------------------------------------
(* The inductive invariant, part by part.                                   *)

Draft    == [id : 1 .. MaxRequests, kind : {"accept", "revoke"}, changes : SUBSET Changes,
             revokes : 0 .. MaxRequests]
LogEntry == [event : {"accepted", "revoked", "rejected"}, req : Request]

\* The variables keep their types.
AcceptType ==
    /\ machine \in [Things -> Values] /\ drift \subseteq Changes
    /\ made \in Seq(Draft) /\ Len(made) <= MaxRequests
    /\ log \in Seq(LogEntry)
    /\ spool \subseteq Request /\ batch \subseteq Request
    /\ dpc \in {"down", "idle", "apply", "append", "remove", "measure"}
    /\ dpc \in {"append", "remove"} => hand \in LogEntry

\* Only operators of this run of the daemon have approved anything.
SignerInv ==
    /\ dpc = "down" => set = EmptySet /\ pol = {}
    /\ dpc # "down" => ops \cup pol \subseteq since
    /\ OperatorsApprove

\* What the log means to the operators of now.
Now == Replay(log, ops, FALSE)

\* The daemon holds what its log means, but for the outcome it is about to append; the
\* log means what its entries say, and what was accepted or revoked has been seen.
MatchBody ==
    /\ dpc \in {"idle", "apply", "remove", "measure"} => set = Now
    /\ dpc = "append" =>
         /\ set = ReplayEntry(hand, Now, ops, FALSE)
         /\ hand.event # "rejected" =>
              /\ Applicable(hand.req, Now, ops, FALSE)
              /\ hand.event = IF hand.req.kind = "accept" THEN "accepted" ELSE "revoked"
    /\ dpc \in {"apply", "append", "remove"} => pol = ops
    /\ Now.approvals = LogApproves
    /\ \A r \in Logged("accepted") : r.id \in Now.seen
    /\ \A q \in Logged("revoked") : q.revokes \in Now.seen

Faithful == Never({"append", "readlog", "operators"})

MatchInv == Faithful => MatchBody

\* The conjunction is inductive.
AcceptInv == AcceptType /\ MatchInv

-----------------------------------------------------------------------------
(* Types.                                                                   *)

\* The types hold initially.
LEMMA AcceptTypeInit ==
    ASSUME Init
    PROVE  AcceptType
<1>1. <<>> \in Seq(Draft) /\ Len(<<>>) = 0 /\ <<>> \in Seq(LogEntry)
  OBVIOUS
<1> QED BY <1>1, GenesisAssumption, AcceptBoundsAssumption DEF Init, AcceptType

\* A draft keeps the bound on requests.
LEMMA MakeType ==
    ASSUME AcceptType, NEW kind \in {"accept", "revoke"}, NEW changes \in SUBSET Changes,
           NEW revokes \in 0 .. MaxRequests, Make(kind, changes, revokes)
    PROVE  made' \in Seq(Draft) /\ Len(made') <= MaxRequests
<1> DEFINE d == [id |-> Len(made) + 1, kind |-> kind, changes |-> changes, revokes |-> revokes]
<1>1. made \in Seq(Draft) /\ Len(made) < MaxRequests /\ made' = Append(made, d)
  BY DEF AcceptType, Make
<1>2. Len(made) + 1 \in 1 .. MaxRequests
  BY <1>1, AcceptBoundsAssumption
<1>3. d \in Draft
  BY <1>2 DEF Draft
<1> HIDE DEF d
<1> QED BY <1>1, <1>3, AcceptBoundsAssumption

\* Every step keeps the types.
LEMMA AcceptTypeStep ==
    ASSUME AcceptType, [Next]_vars
    PROVE  AcceptType'
<1> DEFINE Goal == AcceptType'
<1> USE DEF AcceptType, daemon
<1>1. ASSUME NEW x \in Things, NEW v \in Values, ChangeThing(x, v) PROVE Goal
  BY <1>1 DEF ChangeThing
<1>2. ASSUME NEW o \in SUBSET (Keys \ {Own}), EditOperators(o) PROVE Goal
  BY <1>2 DEF EditOperators
<1>3. ASSUME NEW picked \in SUBSET drift, MakeAccept(picked) PROVE Goal
  <2>1. Make("accept", picked, 0) /\ picked \in SUBSET Changes /\ 0 \in 0 .. MaxRequests
    BY <1>3, AcceptBoundsAssumption DEF MakeAccept
  <2>2. made' \in Seq(Draft) /\ Len(made') <= MaxRequests
    BY <2>1, MakeType
  <2> QED BY <2>1, <2>2 DEF Make
<1>4. ASSUME NEW id \in 1 .. Len(made), MakeRevoke(id) PROVE Goal
  <2>1. Make("revoke", {}, id) /\ id \in 0 .. MaxRequests
    BY <1>4, AcceptBoundsAssumption DEF MakeRevoke
  <2>2. made' \in Seq(Draft) /\ Len(made') <= MaxRequests
    BY <2>1, MakeType
  <2> QED BY <2>1, <2>2 DEF Make
<1>5. ASSUME NEW i \in 1 .. Len(made), NEW k \in Keys, Submit(i, k) PROVE Goal
  <2> DEFINE r == [id |-> i, kind |-> made[i].kind, changes |-> made[i].changes,
                   revokes |-> made[i].revokes, signer |-> k, intact |-> TRUE]
  <2>1. made[i] \in Draft /\ i \in 1 .. MaxRequests
    BY AcceptBoundsAssumption
  <2>2. r \in Request
    BY <2>1 DEF Draft, Request
  <2>3. spool' = {q \in spool : q.id # i} \cup {r}
    BY <1>5 DEF Submit
  <2> HIDE DEF r
  <2> QED BY <1>5, <2>2, <2>3 DEF Submit
<1>6. ASSUME NEW r \in spool, DamageFile(r) PROVE Goal
  <2>1. r \in Request
    OBVIOUS
  <2>2. [r EXCEPT !.intact = FALSE] \in Request
    BY <2>1 DEF Request
  <2> QED BY <1>6, <2>2 DEF DamageFile
<1>7. CASE Start
  BY <1>7 DEF Start
<1>8. CASE Tick
  BY <1>8 DEF Tick
<1>9. ASSUME NEW r \in batch, ApplyRequest(r) PROVE Goal
  <2>1. hand' \in LogEntry
    BY <1>9 DEF ApplyRequest, LogEntry
  <2> QED BY <1>9, <2>1 DEF ApplyRequest
<1>10. CASE AppendOutcome
  <2>1. hand \in LogEntry /\ (log' = Append(log, hand) \/ log' = log)
    BY <1>10 DEF AppendOutcome
  <2>2. log' \in Seq(LogEntry)
    BY <2>1
  <2> QED BY <1>10, <2>2 DEF AppendOutcome
<1>11. CASE RemoveFile
  BY <1>11 DEF RemoveFile
<1>12. CASE MeasureDrift
  <2>1. Measured \subseteq Changes
    BY DEF Measured, Changes
  <2>2. drift' \subseteq Changes
    BY <1>12, <2>1 DEF MeasureDrift
  <2> QED BY <1>12, <2>2 DEF MeasureDrift
<1>13. CASE Kill
  BY <1>13 DEF Kill
<1>14. CASE UNCHANGED vars
  BY <1>14 DEF vars
<1> QED
  BY <1>1, <1>2, <1>3, <1>4, <1>5, <1>6, <1>7, <1>8, <1>9, <1>10, <1>11, <1>12, <1>13,
     <1>14 DEF Next

-----------------------------------------------------------------------------
(* Who approves.                                                            *)

\* Every step keeps the signers among the operators since the start: the policy of a tick
\* and every edit of operators.txt are in since, and Replay takes the signers it is given.
LEMMA SignerStep ==
    ASSUME Dev = FALSE, AcceptType, SignerInv, [Next]_vars
    PROVE  SignerInv'
<1> DEFINE Goal == SignerInv'
<1> USE DEF SignerInv, OperatorsApprove, daemon
<1>0. EmptySet.approvals = {}
  BY DEF EmptySet
<1>1. ASSUME NEW o \in SUBSET (Keys \ {Own}), EditOperators(o) PROVE Goal
  <2>1. CASE dpc = "down"
    BY <1>0, <1>1, <2>1 DEF EditOperators
  <2>2. CASE dpc # "down"
    BY <1>1, <2>2 DEF EditOperators
  <2> QED BY <2>1, <2>2
<1>2. CASE Start
  <2>1. since' = ops /\ UNCHANGED <<ops, pol>> /\ dpc' = "idle" /\ pol = {}
    BY <1>2 DEF Start
  <2>2. CASE set' = Replay(log, ops, FALSE)
    <3>1. Len(log) \in Nat
      BY DEF AcceptType
    <3>2. \A a \in set'.approvals : a.signer \in ops /\ a.signer # Own
      BY <2>2, <3>1, ReplaySigned
    <3> QED BY <2>1, <3>2
  <2>3. CASE set' = EmptySet
    BY <1>0, <2>1, <2>3
  <2> QED BY <1>2, <2>2, <2>3 DEF Start
<1>3. CASE Tick
  BY <1>3 DEF Tick
<1>4. ASSUME NEW r \in batch, ApplyRequest(r) PROVE Goal
  <2>1. CASE Applicable(r, set, pol, FALSE)
    <3>1. r.signer \in pol /\ r.signer # Own
      BY <2>1 DEF Applicable, Signs
    <3>2. set'.approvals \subseteq set.approvals \cup {r}
      BY <1>4, <2>1 DEF ApplyRequest, Effect
    <3>3. UNCHANGED <<ops, pol, since>> /\ dpc = "apply" /\ dpc' = "append"
      BY <1>4 DEF ApplyRequest
    <3> QED BY <3>1, <3>2, <3>3
  <2>2. CASE ~ Applicable(r, set, pol, FALSE)
    BY <1>4, <2>2 DEF ApplyRequest
  <2> QED BY <2>1, <2>2
<1>5. CASE AppendOutcome \/ RemoveFile \/ MeasureDrift
  BY <1>5 DEF AppendOutcome, RemoveFile, MeasureDrift
<1>6. CASE Kill
  BY <1>0, <1>6 DEF Kill
<1>7. CASE UNCHANGED <<ops, daemon>>
  BY <1>7
<1> QED
  BY <1>1, <1>2, <1>3, <1>4, <1>5, <1>6, <1>7 DEF Next, vars, ChangeThing, MakeAccept,
     MakeRevoke,
     Make, Submit, DamageFile

-----------------------------------------------------------------------------
(* What the log says.                                                       *)

\* Before the first request there is nothing to approve.
LEMMA MatchInit ==
    ASSUME Init
    PROVE  MatchInv
<1>1. log = <<>> /\ dpc = "down"
  BY DEF Init
<1>2. Now = EmptySet
  BY <1>1, ReplayEmpty DEF Now
<1>3. ToSet(log) = {}
  BY <1>1 DEF ToSet
<1>4. Logged("accepted") = {} /\ Logged("revoked") = {} /\ LogApproves = {}
  BY <1>3 DEF Logged, LogApproves
<1> QED BY <1>1, <1>2, <1>4 DEF MatchInv, MatchBody, EmptySet

\* What an appended outcome does to what the log says.
LEMMA LoggedAppended ==
    ASSUME log \in Seq(LogEntry), hand \in LogEntry, log' = Append(log, hand), NEW event
    PROVE  Logged(event)' =
               IF hand.event = event THEN Logged(event) \cup {hand.req} ELSE Logged(event)
<1>1. ToSet(log') = ToSet(log) \cup {hand}
  BY DEF ToSet
<1> QED BY <1>1 DEF Logged

\* The outcome of a request in the log says what the request did to the set.
LEMMA AppendKeepsMeaning ==
    ASSUME AcceptType, MatchBody, dpc = "append", log' = Append(log, hand), ops' = ops
    PROVE  /\ Now' = ReplayEntry(hand, Now, ops, FALSE)
           /\ Now'.approvals = LogApproves'
           /\ \A r \in Logged("accepted")' : r.id \in Now'.seen
           /\ \A q \in Logged("revoked")' : q.revokes \in Now'.seen
<1>1. log \in Seq(LogEntry) /\ hand \in LogEntry
  BY DEF AcceptType
<1>2. Now' = ReplayEntry(hand, Now, ops, FALSE)
  BY <1>1, ReplayAppended DEF Now
<1>3. \A event : Logged(event)' = IF hand.event = event THEN Logged(event) \cup {hand.req}
                                  ELSE Logged(event)
  BY <1>1, LoggedAppended
<1>4. /\ Now.approvals = LogApproves
      /\ \A r \in Logged("accepted") : r.id \in Now.seen
      /\ \A q \in Logged("revoked") : q.revokes \in Now.seen
  BY DEF MatchBody
<1>5. CASE hand.event = "rejected"
  <2>1. Now' = Now
    BY <1>2, <1>5 DEF ReplayEntry
  <2>2. Logged("accepted")' = Logged("accepted") /\ Logged("revoked")' = Logged("revoked")
    BY <1>3, <1>5
  <2> QED BY <1>2, <1>4, <2>1, <2>2 DEF LogApproves
<1>6. CASE hand.event # "rejected"
  <2> DEFINE r == hand.req
  <2>1. /\ Applicable(r, Now, ops, FALSE)
        /\ hand.event = IF r.kind = "accept" THEN "accepted" ELSE "revoked"
    BY <1>6 DEF MatchBody
  <2>2. Now' = Effect(r, Now) /\ r.kind \in {"accept", "revoke"} /\ r.id \notin Now.seen
    BY <1>1, <1>2, <1>6, <2>1 DEF ReplayEntry, Applicable, LogEntry, Request
  <2>3. Now'.seen = Now.seen \cup {r.id}
    BY <2>2 DEF Effect
  <2>4. CASE r.kind = "accept"
    <3>1. Now'.approvals = Now.approvals \cup {r}
      BY <2>2, <2>4 DEF Effect
    <3>2. /\ Logged("accepted")' = Logged("accepted") \cup {r}
          /\ Logged("revoked")' = Logged("revoked")
      BY <1>3, <2>1, <2>4
    <3>3. LogApproves' = LogApproves \cup {r}
      BY <1>4, <2>2, <3>2 DEF LogApproves
    <3> QED BY <1>2, <1>4, <2>3, <3>1, <3>2, <3>3
  <2>5. CASE r.kind = "revoke"
    <3>1. Now'.approvals = {a \in Now.approvals : a.id # r.revokes}
      BY <2>2, <2>5 DEF Effect
    <3>2. /\ Logged("accepted")' = Logged("accepted")
          /\ Logged("revoked")' = Logged("revoked") \cup {r}
      BY <1>3, <2>1, <2>5
    <3>3. LogApproves' = {a \in LogApproves : a.id # r.revokes}
      BY <3>2 DEF LogApproves
    <3>4. r.revokes \in Now.seen
      BY <1>4, <2>1, <2>5 DEF Applicable, LogApproves
    <3> QED BY <1>2, <1>4, <2>3, <3>1, <3>2, <3>3, <3>4
  <2> QED BY <2>2, <2>4, <2>5
<1> QED BY <1>5, <1>6

\* Every step keeps set, log and hand in agreement; only ApplyRequest and AppendOutcome
\* take one ahead of the other.
LEMMA MatchStep ==
    ASSUME AcceptType, MatchInv, [Next]_vars
    PROVE  MatchInv'
<1> SUFFICES ASSUME Faithful' PROVE MatchBody'
  BY DEF MatchInv
<1> USE DEF daemon
<1>1. met \subseteq met'
  BY DEF Next, vars, mishaps, Mishap, ChangeThing, EditOperators, MakeAccept, MakeRevoke, Make,
     Submit,
     DamageFile, Start, Tick, ApplyRequest, AppendOutcome, RemoveFile, MeasureDrift, Kill
<1>2. /\ MatchBody
      /\ ~ Mishap("append") /\ ~ Mishap("readlog") /\ ~ Mishap("operators")
  BY <1>1 DEF MatchInv, Faithful, Never, Mishap
<1>3. ASSUME UNCHANGED <<log, ops>>
      PROVE  /\ Now' = Now /\ Now'.approvals = LogApproves'
             /\ \A r \in Logged("accepted")' : r.id \in Now'.seen
             /\ \A q \in Logged("revoked")' : q.revokes \in Now'.seen
  BY <1>2, <1>3 DEF MatchBody, Now, LogApproves, Logged
<1>4. CASE UNCHANGED <<log, ops, daemon>>
  BY <1>2, <1>3, <1>4 DEF MatchBody
<1>5. ASSUME NEW o \in SUBSET (Keys \ {Own}), EditOperators(o) PROVE FALSE
  BY <1>2, <1>5 DEF EditOperators
<1>6. CASE Start
  <2>1. set' = Now /\ dpc' = "idle" /\ UNCHANGED <<log, ops>>
    BY <1>2, <1>6 DEF Start, Now
  <2> QED BY <1>3, <2>1 DEF MatchBody
<1>7. CASE Tick
  <2>1. /\ dpc = "idle" /\ dpc' \in {"measure", "apply"} /\ UNCHANGED <<log, ops, set>>
        /\ dpc' = "apply" => pol' = ops
    BY <1>7 DEF Tick
  <2> QED BY <1>2, <1>3, <2>1 DEF MatchBody
<1>8. ASSUME NEW r \in batch, ApplyRequest(r) PROVE MatchBody'
  <2>1. /\ dpc = "apply" /\ dpc' = "append" /\ UNCHANGED <<log, ops, pol>>
        /\ set = Now /\ pol = ops
    BY <1>2, <1>8 DEF ApplyRequest, MatchBody
  <2>2. /\ hand'.req = r
        /\ Applicable(r, Now, ops, FALSE) =>
             /\ set' = Effect(r, Now)
             /\ hand'.event = IF r.kind = "accept" THEN "accepted" ELSE "revoked"
        /\ ~ Applicable(r, Now, ops, FALSE) => set' = Now /\ hand'.event = "rejected"
    BY <1>8, <2>1 DEF ApplyRequest
  <2>3. set' = ReplayEntry(hand', Now, ops, FALSE)
    BY <2>2 DEF ReplayEntry
  <2> QED BY <1>3, <2>1, <2>2, <2>3 DEF MatchBody
<1>9. CASE AppendOutcome
  <2>1. /\ dpc = "append" /\ dpc' = "remove" /\ log' = Append(log, hand)
        /\ UNCHANGED <<ops, set, pol>>
    BY <1>2, <1>9 DEF AppendOutcome
  <2>2. /\ Now' = ReplayEntry(hand, Now, ops, FALSE)
        /\ Now'.approvals = LogApproves'
        /\ \A r \in Logged("accepted")' : r.id \in Now'.seen
        /\ \A q \in Logged("revoked")' : q.revokes \in Now'.seen
    BY <1>2, <2>1, AppendKeepsMeaning
  <2> QED BY <1>2, <2>1, <2>2 DEF MatchBody
<1>10. CASE RemoveFile
  <2>1. dpc = "remove" /\ dpc' \in {"measure", "apply"} /\ UNCHANGED <<log, ops, set, pol>>
    BY <1>10 DEF RemoveFile
  <2> QED BY <1>2, <1>3, <2>1 DEF MatchBody
<1>11. CASE MeasureDrift
  <2>1. dpc = "measure" /\ dpc' = "idle" /\ UNCHANGED <<log, ops, set>>
    BY <1>11 DEF MeasureDrift
  <2> QED BY <1>2, <1>3, <2>1 DEF MatchBody
<1>12. CASE Kill
  <2>1. dpc' = "down" /\ UNCHANGED <<log, ops>>
    BY <1>12 DEF Kill
  <2> QED BY <1>3, <2>1 DEF MatchBody
<1> QED
  BY <1>4, <1>5, <1>6, <1>7, <1>8, <1>9, <1>10, <1>11, <1>12 DEF Next, vars, ChangeThing,
     MakeAccept,
     MakeRevoke, Make, Submit, DamageFile

-----------------------------------------------------------------------------
(* The theorems.                                                            *)

\* AcceptInv holds throughout.
LEMMA AcceptInvariant == Spec => []AcceptInv
<1>1. Init => AcceptInv
  BY AcceptTypeInit, MatchInit DEF AcceptInv
<1>2. AcceptInv /\ [Next]_vars => AcceptInv'
  BY AcceptTypeStep, MatchStep DEF AcceptInv
<1> QED BY <1>1, <1>2, PTL DEF Spec

\* Whatever the number of requests, approvals, revocations and kills, between two requests
\* the daemon approves exactly what its log says is accepted and not revoked.
THEOREM ApprovalsAlwaysMatchLog == Spec => []ApprovalsMatchLog
<1>1. AcceptInv => ApprovalsMatchLog
  BY DEF AcceptInv, MatchInv, MatchBody, Faithful, ApprovalsMatchLog
<1> QED BY <1>1, AcceptInvariant, PTL

\* Without --dev, and with every mishap, only the keys that were operators' since the
\* daemon started approve drift, and never the witness's own.
THEOREM OnlyOperatorsApprove ==
    ASSUME Dev = FALSE
    PROVE  Spec => []OperatorsApprove
<1>1. Init => SignerInv
  BY DEF Init, SignerInv, OperatorsApprove, EmptySet
<1>2. AcceptInv /\ SignerInv /\ [Next]_vars => SignerInv'
  BY SignerStep DEF AcceptInv
<1>3. SignerInv => OperatorsApprove
  BY DEF SignerInv
<1> QED BY <1>1, <1>2, <1>3, AcceptInvariant, PTL DEF Spec
=============================================================================
