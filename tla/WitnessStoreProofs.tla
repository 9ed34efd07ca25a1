------------------------- MODULE WitnessStoreProofs -------------------------
(***************************************************************************)
(* Theorems about WitnessStore, for every number of records, failures and  *)
(* crashes and every set of keys.                                          *)
(***************************************************************************)
EXTENDS WitnessStore, TLAPS, WellFoundedInduction

-----------------------------------------------------------------------------
(* Prefixes and parts of sequences, and sets of numbers. *)

\* A prefix agrees with the longer sequence position by position.
LEMMA PrefixElements ==
    ASSUME NEW S, NEW s \in Seq(S), NEW t \in Seq(S)
    PROVE  IsPrefix(s, t) <=> /\ Len(s) <= Len(t)
                              /\ \A i \in 1 .. Len(s) : s[i] = t[i]
<1>1. CASE Len(s) <= Len(t)
  <2>1. /\ SubSeq(s, 1, Len(s)) \in Seq(S) /\ SubSeq(t, 1, Len(s)) \in Seq(S)
        /\ Len(SubSeq(s, 1, Len(s))) = Len(s) /\ Len(SubSeq(t, 1, Len(s))) = Len(s)
        /\ \A i \in 1 .. Len(s) : /\ SubSeq(s, 1, Len(s))[i] = s[i]
                                  /\ SubSeq(t, 1, Len(s))[i] = t[i]
    BY <1>1
  <2>2. SubSeq(s, 1, Len(s)) = SubSeq(t, 1, Len(s)) <=> \A i \in 1 .. Len(s) : s[i] = t[i]
    BY <2>1
  <2> QED BY <1>1, <2>2 DEF IsPrefix
<1>2. CASE ~ (Len(s) <= Len(t))
  BY <1>2 DEF IsPrefix
<1> QED BY <1>1, <1>2

\* Appending a record keeps every prefix.
LEMMA PrefixAppend ==
    ASSUME NEW S, NEW s \in Seq(S), NEW t \in Seq(S), NEW x \in S, IsPrefix(s, t)
    PROVE  IsPrefix(s, Append(t, x))
<1> DEFINE u == Append(t, x)
<1>1. u \in Seq(S) /\ Len(u) = Len(t) + 1 /\ \A i \in 1 .. Len(t) : u[i] = t[i]
  OBVIOUS
<1>2. Len(s) <= Len(t) /\ \A i \in 1 .. Len(s) : s[i] = t[i]
  BY PrefixElements
<1> HIDE DEF u
<1>3. Len(s) <= Len(u) /\ \A i \in 1 .. Len(s) : s[i] = u[i]
  BY <1>1, <1>2
<1>4. IsPrefix(s, u)
  BY <1>1, <1>3, PrefixElements
<1> QED BY <1>4 DEF u

\* Cutting the longer sequence behind the prefix leaves the prefix itself.
LEMMA PrefixCut ==
    ASSUME NEW S, NEW s \in Seq(S), NEW t \in Seq(S), IsPrefix(s, t)
    PROVE  SubSeq(t, 1, Len(s)) = s
<1>1. Len(s) <= Len(t) /\ \A i \in 1 .. Len(s) : s[i] = t[i]
  BY PrefixElements
<1>2. /\ SubSeq(t, 1, Len(s)) \in Seq(S) /\ Len(SubSeq(t, 1, Len(s))) = Len(s)
      /\ \A i \in 1 .. Len(s) : SubSeq(t, 1, Len(s))[i] = t[i]
  BY <1>1
<1> QED BY <1>1, <1>2

\* Every sequence is a prefix of itself.
LEMMA PrefixRefl == ASSUME NEW S, NEW s \in Seq(S) PROVE IsPrefix(s, s)
BY PrefixElements

\* Cutting a sequence at its whole length changes nothing.
LEMMA WholeCut ==
    ASSUME NEW S, NEW s \in Seq(S)
    PROVE  SubSeq(s, 1, Len(s)) = s
BY PrefixCut, PrefixRefl

\* The empty sequence is a prefix of every sequence.
LEMMA PrefixEmpty ==
    ASSUME NEW S, NEW s \in Seq(S), NEW t \in Seq(S), Len(s) = 0
    PROVE  IsPrefix(s, t)
<1>1. Len(s) <= Len(t) /\ \A i \in 1 .. Len(s) : s[i] = t[i]
  OBVIOUS
<1> QED BY <1>1, PrefixElements

\* The elements of a prefix are elements of the whole.
LEMMA PrefixSet ==
    ASSUME NEW S, NEW s \in Seq(S), NEW t \in Seq(S), IsPrefix(s, t)
    PROVE  ToSet(s) \subseteq ToSet(t)
BY PrefixElements DEF ToSet

\* Prefixes compose.
LEMMA PrefixTrans ==
    ASSUME NEW S, NEW s \in Seq(S), NEW t \in Seq(S), NEW u \in Seq(S),
           IsPrefix(s, t), IsPrefix(t, u)
    PROVE  IsPrefix(s, u)
<1>1. Len(s) <= Len(t) /\ \A i \in 1 .. Len(s) : s[i] = t[i]
  BY PrefixElements
<1>2. Len(t) <= Len(u) /\ \A i \in 1 .. Len(t) : t[i] = u[i]
  BY PrefixElements
<1>3. Len(s) <= Len(u) /\ \A i \in 1 .. Len(s) : s[i] = u[i]
  BY <1>1, <1>2
<1> QED BY <1>3, PrefixElements

\* The parts of a sequence.
LEMMA CutFacts ==
    ASSUME NEW S, NEW f \in Seq(S), NEW s \in Nat, NEW n \in Nat, s <= n, n <= Len(f)
    PROVE  /\ SubSeq(f, s + 1, n) \in Seq(S) /\ Len(SubSeq(f, s + 1, n)) = n - s
           /\ \A i \in 1 .. n - s : SubSeq(f, s + 1, n)[i] = f[s + i]
<1>1. s + 1 \in 1 .. Len(f) + 1 /\ n \in 0 .. Len(f)
  OBVIOUS
<1> QED BY <1>1

\* A sequence cut anywhere is a prefix, and so is what is shorter than the cut.
LEMMA PrefixOfCut ==
    ASSUME NEW S, NEW f \in Seq(S), NEW n \in Nat, n <= Len(f)
    PROVE  /\ IsPrefix(SubSeq(f, 1, n), f)
           /\ \A h \in Seq(S) : IsPrefix(h, f) /\ Len(h) <= n => IsPrefix(h, SubSeq(f, 1, n))
<1> DEFINE c == SubSeq(f, 1, n)
<1>1. c \in Seq(S) /\ Len(c) = n /\ \A i \in 1 .. n : c[i] = f[i]
  BY CutFacts
<1> HIDE DEF c
<1>2. IsPrefix(c, f)
  BY <1>1, PrefixElements
<1>3. ASSUME NEW h \in Seq(S), IsPrefix(h, f), Len(h) <= n PROVE IsPrefix(h, c)
  <2>1. \A i \in 1 .. Len(h) : h[i] = f[i]
    BY <1>3, PrefixElements
  <2>2. \A i \in 1 .. Len(h) : h[i] = c[i]
    BY <1>1, <1>3, <2>1
  <2> QED BY <1>1, <1>3, <2>2, PrefixElements
<1> QED BY <1>2, <1>3 DEF c

\* A nonempty set of numbers has a least one.
LEMMA LeastNumber ==
    ASSUME NEW T, T \subseteq Nat, T # {}
    PROVE  \E m \in T : \A k \in T : m <= k
<1>1. PICK m \in T : \A k \in T : ~ (<<k, m>> \in OpToRel(<, Nat))
  BY NatLessThanWellFounded, WFMin
<1>2. \A k \in T : ~ (k < m)
  BY <1>1 DEF OpToRel
<1> QED BY <1>2

-----------------------------------------------------------------------------
(* Types. *)

\* Committed never points past the end of the log it was computed from.
LEMMA CommittedBound ==
    ASSUME NEW h \in TreeHead, NEW recs \in Seq(Record)
    PROVE  Committed(h, recs) \in 0 .. Len(recs)
BY DEF Committed, TreeHead

\* The store that openStore returns is well typed.
LEMMA LoadStoreType ==
    ASSUME NEW recs \in Seq(Record), LoadStore(recs)
    PROVE  leaves' \in Seq(Record) /\ seq' \in Nat /\ unsignedHead' \in BOOLEAN
<1>1. leaves' \in Seq(Record)
  BY DEF LoadStore
<1>2. seq' \in Nat
  <2>1. CASE recs = <<>>
    BY <2>1 DEF LoadStore
  <2>2. CASE recs # <<>>
    <3>1. recs[Len(recs)] \in Record
      BY <2>2
    <3> QED BY <2>2, <3>1 DEF LoadStore, Last, Record
  <2> QED BY <2>1, <2>2
<1>3. unsignedHead' \in BOOLEAN
  BY Zenon DEF LoadStore
<1> QED BY <1>1, <1>2, <1>3

\* A process that has ended has no memory left.
LEMMA ProcessGoneType ==
    ASSUME ProcessGone
    PROVE  /\ leaves' \in Seq(Record) /\ seq' \in Nat /\ signer' \in Signers /\ pc' = "down"
           /\ unsignedHead' \in BOOLEAN
<1>1. unsignedHead' \in BOOLEAN
  BY Zenon DEF ProcessGone
<1> QED BY <1>1 DEF ProcessGone, Signers

\* A failure adds one to the count of its kind.
LEMMA FaultType ==
    ASSUME NEW kind \in FaultKinds, faults \in [FaultKinds -> Nat], Fault(kind)
    PROVE  /\ faults' \in [FaultKinds -> Nat]
           /\ kind # "short" => faults'["short"] = faults["short"]
           /\ kind = "short" => faults'["short"] # 0
BY DEF Fault, FaultKinds

\* TypeOK with what WriteTreeHead needs to acknowledge a record: an Append in
\* progress has a leaf.
TypeInv == TypeOK /\ (pc = "framed" => leaves # <<>>)

\* TypeInv holds initially.
LEMMA TypeInvInit == Init => TypeInv
<1> SUFFICES ASSUME Init PROVE TypeInv
  OBVIOUS
<1>1. Genesis \in Record
  BY DEF Genesis, Record
<1>2. log \in Seq(Record)
  BY <1>1 DEF Init
<1>3. head \in TreeHead
  BY <1>2 DEF Init, NoHead, TreeHead, Signers
<1>4. acked \in SUBSET Record
  BY <1>2 DEF Init, ToSet
<1>5. leaves \in Seq(Record) /\ written \in Nat /\ seq \in Nat /\ crashes \in Nat
  BY <1>2 DEF Init
<1>7. faults \in [FaultKinds -> Nat]
  BY DEF Init
<1>6. unsignedHead \in BOOLEAN
  BY Zenon DEF Init
<1> QED BY <1>2, <1>3, <1>4, <1>5, <1>6, <1>7 DEF Init, TypeInv, TypeOK, Signers

\* Every step keeps TypeInv.
LEMMA TypeInvStep == TypeInv /\ [Next]_vars => TypeInv'
<1> SUFFICES ASSUME TypeInv, [Next]_vars PROVE TypeInv'
  OBVIOUS
<1> USE DEF TypeInv, disk, memory, counts
<1>1. ASSUME NEW s \in Signers, Open(s) PROVE TypeInv'
  <2>1. leaves' \in Seq(Record) /\ seq' \in Nat /\ unsignedHead' \in BOOLEAN
    BY <1>1, LoadStoreType DEF Open, TypeOK
  <2>2. pc' \in {"refused", "recover", "up"} /\ signer' \in Signers
    BY <1>1 DEF Open
  <2> QED BY <1>1, <2>1, <2>2 DEF Open, TypeOK
<1>2. CASE QuarantineCopy
  <2>1. {log[i] : i \in (Committed(head, log) + 1) .. Len(log)} \subseteq Record
    BY CommittedBound DEF TypeOK
  <2> QED BY <1>2, <2>1 DEF QuarantineCopy, CopyBehind, TypeOK
<1>3. CASE QuarantineTruncate
  <2>1. log' \in Seq(Record)
    BY <1>3, CommittedBound DEF QuarantineTruncate, TruncateBehind, TypeOK
  <2>2. leaves' \in Seq(Record) /\ seq' \in Nat /\ unsignedHead' \in BOOLEAN
    BY <1>3, <2>1, LoadStoreType DEF QuarantineTruncate, TruncateBehind
  <2> QED BY <1>3, <2>1, <2>2 DEF QuarantineTruncate, TruncateBehind, TypeOK
<1>4. CASE AppendFrame
  <2>1. NewRecord \in Record
    BY DEF NewRecord, Record, TypeOK
  <2>2. log' \in Seq(Record)
    <3>1. log \in Seq(Record) /\ (log' = log \/ log' = Append(log, NewRecord))
      BY <1>4 DEF AppendFrame, TypeOK
    <3> QED BY <2>1, <3>1
  <2>3. leaves' \in Seq(Record) /\ leaves' # <<>>
    BY <1>4, <2>1 DEF AppendFrame, TypeOK
  <2>4. junk' \in {"none", "partial", "frame"} /\ buried' \in SUBSET Record
    BY <1>4, <2>1 DEF AppendFrame, JunkAfterWrite, TypeOK
  <2> QED BY <1>4, <2>2, <2>3, <2>4 DEF AppendFrame, TypeOK
<1>5. CASE WriteTreeHead
  <2>1. head' \in TreeHead
    BY <1>5 DEF WriteTreeHead, TypeOK, TreeHead
  <2>2. acked' \in SUBSET Record
    BY <1>5 DEF WriteTreeHead, TypeOK, Last
  <2> QED BY <1>5, <2>1, <2>2 DEF WriteTreeHead, TypeOK
<1>6. CASE SealFails
  BY <1>6, FaultType DEF SealFails, Fault, FaultKinds, TypeOK
<1>7. CASE ShortWrite
  BY <1>7, FaultType DEF ShortWrite, Fault, FaultKinds, JunkAfterTornWrite, JunkAfterWrite,
     TypeOK
<1>8. CASE HeadFails
  BY <1>8, FaultType DEF HeadFails, Fault, FaultKinds, TypeOK
<1>9. CASE Crash
  BY <1>9, ProcessGoneType DEF Crash, JunkAfterTornWrite, JunkAfterWrite, TypeOK
<1>10. CASE Close
  BY <1>10, ProcessGoneType DEF Close, TypeOK
<1>11. CASE UNCHANGED vars
  BY <1>11 DEF vars, TypeOK
<1> QED
  BY <1>1, <1>2, <1>3, <1>4, <1>5, <1>6, <1>7, <1>8, <1>9, <1>10, <1>11 DEF Next

\* TypeInv is inductive.
LEMMA TypeInvariant == Spec => []TypeInv
<1> QED BY TypeInvInit, TypeInvStep, PTL DEF Spec

\* Type correctness of the store: every step keeps every variable in its type.
THEOREM TypeCorrect == Spec => []TypeOK
<1>1. TypeInv => TypeOK
  BY DEF TypeInv
<1> QED BY <1>1, TypeInvariant, PTL

-----------------------------------------------------------------------------
(* The head and the log, as long as no frame is written short.             *)

\* A log that Open does not refuse is committed exactly as far as its head covers.
LEMMA AcceptedCommitted ==
    ASSUME TypeOK, IsPrefix(head.recs, log), NEW s, ~ HeadRefused(head, log, s)
    PROVE  Committed(head, log) = Len(head.recs)
<1> DEFINE n == Committed(head, log)
<1>1. n \in 0 .. Len(log) /\ log \in Seq(Record) /\ head.recs \in Seq(Record)
  BY CommittedBound DEF TypeOK, TreeHead
<1>2. CASE log = <<>>
  <2>1. Len(log) = 0 /\ Len(head.recs) <= Len(log)
    BY <1>2 DEF IsPrefix
  <2> QED BY <1>1, <2>1
<1>3. CASE log # <<>>
  <2>1. head.recs = SubSeq(log, 1, n)
    BY <1>3 DEF HeadRefused, HeadAccepted
  <2>2. Len(SubSeq(log, 1, n)) = n
    BY <1>1
  <2> QED BY <2>1, <2>2
<1> QED BY <1>2, <1>3

\* A log stays intact in every step but a short write.
LEMMA ShortWriteCounts ==
    ASSUME TypeOK, [Next]_vars
    PROVE  Intact' <=> Intact /\ ~ ShortWrite
<1>1. ASSUME Fault("short") PROVE faults'["short"] # 0
  BY <1>1, FaultType DEF TypeOK, FaultKinds
<1>2. ASSUME NEW kind \in {"seal", "head"}, Fault(kind) PROVE faults'["short"] = faults["short"]
  BY <1>2, FaultType DEF TypeOK, FaultKinds
<1>3. CASE SealFails \/ ShortWrite \/ HeadFails
  <2>1. ShortWrite => Fault("short")
    BY DEF ShortWrite
  <2>2. SealFails \/ HeadFails => \E kind \in {"seal", "head"} : Fault(kind)
    BY DEF SealFails, HeadFails
  <2> QED BY <1>1, <1>2, <1>3, <2>1, <2>2 DEF Intact
<1>4. CASE ~ (SealFails \/ ShortWrite \/ HeadFails)
  <2>1. UNCHANGED faults
    BY <1>4 DEF Next, vars, counts, Open, QuarantineCopy, CopyBehind, QuarantineTruncate,
                TruncateBehind, AppendFrame, WriteTreeHead, Crash, Close
  <2> QED BY <1>4, <2>1 DEF Intact
<1> QED BY <1>3, <1>4

\* StoreInv holds initially.
LEMMA StoreInvInit == Init /\ TypeOK => StoreInv
<1> SUFFICES ASSUME Init, TypeOK PROVE StoreInv
  OBVIOUS
<1>1. head.recs = log /\ head.prev = <<>> /\ log \in Seq(Record)
  BY DEF Init, TypeOK
<1>2. IsPrefix(head.recs, log)
  BY <1>1, PrefixRefl
<1>3. IsPrefix(head.prev, head.recs)
  <2>1. head.prev \in Seq(Record) /\ head.recs \in Seq(Record)
    BY DEF TypeOK, TreeHead
  <2>2. Len(head.prev) = 0
    BY <1>1
  <2> QED BY <2>1, <2>2, PrefixEmpty
<1> QED BY <1>1, <1>2, <1>3 DEF Init, StoreInv, StoreBody

\* Every step keeps StoreInv.
LEMMA StoreInvStep == TypeInv /\ StoreInv /\ [Next]_vars => StoreInv'
<1> SUFFICES ASSUME TypeInv, StoreInv, [Next]_vars, Intact' PROVE StoreBody'
  BY DEF StoreInv
<1> SUFFICES ASSUME StoreBody, ~ ShortWrite PROVE StoreBody'
  BY ShortWriteCounts DEF StoreInv, TypeInv
<1> USE DEF disk, memory, counts
<1>0. /\ log \in Seq(Record) /\ leaves \in Seq(Record) /\ head \in TreeHead
      /\ head.recs \in Seq(Record) /\ head.prev \in Seq(Record)
      /\ TypeOK
  BY DEF TypeInv, TypeOK, TreeHead
<1>1. ASSUME NEW s \in Signers, Open(s) PROVE StoreBody'
  <2>1. UNCHANGED <<log, junk, buried, head, acked>>
    BY <1>1 DEF Open
  <2>2. ASSUME pc' = "recover" PROVE Committed(head, log)' = Len(head.recs)'
    <3>1. ~ HeadRefused(head, log, s)
      BY <1>1, <2>2 DEF Open
    <3> QED BY <1>0, <2>1, <3>1, AcceptedCommitted DEF StoreBody, Committed
  <2>3. ASSUME pc' = "up" PROVE leaves' = log' /\ junk' = "none"
    <3>1. /\ leaves' = log
          /\ ~ IsCrashTail(head, log, junk)
      BY <1>1, <2>3 DEF Open, LoadStore
    <3> QED BY <2>1, <3>1 DEF IsCrashTail, StoreBody
  <2>4. pc' \in {"refused", "recover", "up"}
    BY <1>1 DEF Open
  <2> QED BY <2>1, <2>2, <2>3, <2>4 DEF StoreBody
<1>2. CASE QuarantineCopy
  <2>1. UNCHANGED <<log, junk, buried, head, acked>> /\ pc = "recover" /\ pc' = "copied"
    BY <1>2 DEF QuarantineCopy, CopyBehind
  <2> QED BY <2>1 DEF StoreBody, Committed
<1>3. CASE QuarantineTruncate
  <2>1. log' = head.recs
    BY <1>0, <1>3, PrefixCut DEF QuarantineTruncate, TruncateBehind, StoreBody
  <2>2. IsPrefix(head.recs, log')
    BY <1>0, <2>1, PrefixRefl
  <2> QED BY <1>3, <2>2 DEF QuarantineTruncate, TruncateBehind, LoadStore, StoreBody
<1>4. CASE AppendFrame
  <2>1. NewRecord \in Record
    BY DEF NewRecord, Record, TypeInv, TypeOK
  <2>2. log' = Append(log, NewRecord) /\ leaves' = log' /\ junk' = "none" /\ buried' = {}
    BY <1>4 DEF AppendFrame, StoreBody
  <2>3. IsPrefix(head.recs, log')
    BY <1>0, <2>1, <2>2, PrefixAppend DEF StoreBody
  <2>4. Len(log') > Len(head.recs)
    BY <1>0, <2>1, <2>2 DEF StoreBody, IsPrefix
  <2> QED BY <1>4, <2>2, <2>3, <2>4 DEF AppendFrame, StoreBody
<1>5. CASE WriteTreeHead
  <2>1. /\ head'.recs = log /\ head'.prev = head.recs /\ leaves = log
        /\ UNCHANGED <<log, junk, buried, leaves>>
    BY <1>5 DEF WriteTreeHead, StoreBody
  <2>2. IsPrefix(log, log)
    BY <1>0, PrefixRefl
  <2>3. acked' \subseteq ToSet(log)
    <3>1. Last(leaves) \in ToSet(log)
      BY <1>0, <1>5, <2>1 DEF Last, ToSet, TypeInv, WriteTreeHead
    <3>2. ToSet(head.recs) \subseteq ToSet(log)
      BY <1>0, PrefixSet DEF StoreBody
    <3> QED BY <1>5, <3>1, <3>2 DEF WriteTreeHead, StoreBody
  <2> QED BY <1>5, <2>1, <2>2, <2>3 DEF WriteTreeHead, StoreBody
<1>6. CASE SealFails
  BY <1>6 DEF SealFails, StoreBody
<1>8. CASE HeadFails
  BY <1>8 DEF HeadFails, StoreBody
<1>9. CASE Crash
  BY <1>9 DEF Crash, ProcessGone, JunkAfterTornWrite, JunkAfterWrite, StoreBody
<1>10. CASE Close
  BY <1>10 DEF Close, ProcessGone, StoreBody
<1>11. CASE UNCHANGED vars
  BY <1>11 DEF vars, StoreBody, Committed
<1> QED
  BY <1>1, <1>2, <1>3, <1>4, <1>5, <1>6, <1>8, <1>9, <1>10, <1>11 DEF Next

\* StoreInv holds initially and after every step.
LEMMA StoreInvariant == Spec => []StoreInv
<1> QED BY StoreInvInit, StoreInvStep, TypeInvariant, TypeCorrect, PTL DEF Spec

\* The stored head covers a prefix of the readable log, unless a frame was
\* written short.
THEOREM HeadAlwaysCoversLog == Spec => []HeadCoversLog
<1>1. StoreInv => HeadCoversLog
  BY DEF StoreInv, StoreBody, HeadCoversLog
<1> QED BY <1>1, StoreInvariant, PTL

\* An acknowledged record is never lost: it stays readable and covered, unless a
\* frame was written short.
THEOREM AcknowledgedIsDurable == Spec => []AckedDurable
<1>1. TypeOK /\ StoreInv => AckedDurable
  BY PrefixSet DEF StoreInv, StoreBody, AckedDurable, TypeOK, TreeHead
<1> QED BY <1>1, StoreInvariant, TypeCorrect, PTL

-----------------------------------------------------------------------------
(* The head and the daemon, short writes included.                          *)

\* A log that `witness init` has begun is never empty again; elsewhere no frame is
\* written short.
AnchorInv == IF Initialised THEN log # <<>> /\ head.recs # <<>> ELSE Intact

\* A running daemon's leaves extend the head, whatever became of the log; an Append in
\* progress has one more; a recovery cuts exactly behind the head.
HeadInv ==
    /\ AnchorInv
    /\ pc \in {"up", "framed"} => IsPrefix(head.recs, leaves)
    /\ pc = "framed" => Len(leaves) > Len(head.recs)
    /\ pc \in {"recover", "copied"} => SubSeq(log, 1, Committed(head, log)) = head.recs

\* A log that is not refused begins with the records of its head.
LEMMA AcceptedHead ==
    ASSUME TypeOK, StoreInv, AnchorInv, NEW s, ~ HeadRefused(head, log, s)
    PROVE  /\ SubSeq(log, 1, Committed(head, log)) = head.recs
           /\ log = <<>> => head.recs = <<>>
<1>0. log \in Seq(Record) /\ head.recs \in Seq(Record)
  BY DEF TypeOK, TreeHead
<1>1. CASE log # <<>>
  BY <1>1 DEF HeadRefused, HeadAccepted
<1>2. CASE log = <<>>
  <2>1. IsPrefix(head.recs, log)
    BY <1>2 DEF AnchorInv, StoreInv, StoreBody
  <2>2. Len(head.recs) = 0
    <3>1. Len(log) = 0
      BY <1>2
    <3>2. Len(head.recs) \in Nat /\ Len(head.recs) <= Len(log)
      BY <1>0, <2>1, PrefixElements
    <3> QED BY <3>1, <3>2
  <2>4. head.recs = log
    BY <1>0, <1>2, <2>2
  <2>3. Committed(head, log) = Len(log)
    BY <1>0, <2>2 DEF Committed
  <2> QED BY <1>0, <1>2, <2>3, <2>4, WholeCut
<1> QED BY <1>1, <1>2

\* HeadInv holds initially.
LEMMA HeadInvInit == ASSUME "short" \notin Faults \/ Initialised PROVE Init => HeadInv
<1>1. Init => AnchorInv
  BY DEF Init, AnchorInv, Intact, FaultKinds
<1> QED BY <1>1 DEF Init, HeadInv

\* Every step keeps it.
LEMMA HeadInvStep ==
    ASSUME "short" \notin Faults \/ Initialised, TypeInv, StoreInv, HeadInv, [Next]_vars
    PROVE  HeadInv'
<1> USE DEF disk, memory
<1>0. /\ log \in Seq(Record) /\ leaves \in Seq(Record) /\ head \in TreeHead
      /\ head.recs \in Seq(Record) /\ TypeOK /\ NewRecord \in Record /\ AnchorInv
  BY DEF TypeInv, TypeOK, TreeHead, NewRecord, Record, HeadInv
<1>1. ASSUME Initialised => log' # <<>> /\ head'.recs # <<>> PROVE AnchorInv'
  <2>1. CASE Initialised
    BY <1>1, <2>1 DEF AnchorInv
  <2>2. CASE ~ Initialised
    BY <1>0, <2>2, ShortWriteCounts DEF AnchorInv, ShortWrite, Fault
  <2> QED BY <2>1, <2>2
<1>2. ASSUME log' = log, head'.recs = head.recs PROVE AnchorInv'
  BY <1>0, <1>1, <1>2 DEF AnchorInv
<1>3. ASSUME NEW s \in Signers, Open(s) PROVE HeadInv'
  <2>1. UNCHANGED <<log, head>>
    BY <1>3 DEF Open
  <2>2. ASSUME ~ HeadRefused(head, log, s) PROVE SubSeq(log, 1, Committed(head, log)) = head.recs
    BY <1>0, <2>2, AcceptedHead
  <2>3. CASE pc' = "refused"
    BY <1>2, <2>1, <2>3 DEF HeadInv
  <2>4. CASE pc' = "recover"
    <3>1. SubSeq(log, 1, Committed(head, log)) = head.recs
      BY <1>3, <2>2, <2>4 DEF Open
    <3>2. (SubSeq(log, 1, Committed(head, log)) = head.recs)'
      BY <2>1, <3>1 DEF Committed
    <3> QED BY <1>2, <2>1, <2>4, <3>2 DEF HeadInv
  <2>5. CASE pc' = "up"
    <3>1. /\ leaves' = log /\ Committed(head, log) = Len(log)
          /\ SubSeq(log, 1, Committed(head, log)) = head.recs
      BY <1>3, <2>2, <2>5 DEF Open, LoadStore
    <3>2. head.recs = log
      BY <1>0, <3>1, WholeCut
    <3>3. IsPrefix(log, log)
      BY <1>0, PrefixRefl
    <3> QED BY <1>2, <2>1, <2>5, <3>1, <3>2, <3>3 DEF HeadInv
  <2> QED BY <1>3, <2>3, <2>4, <2>5 DEF Open
<1>4. CASE QuarantineCopy
  <2>1. UNCHANGED <<log, head>> /\ pc = "recover" /\ pc' = "copied"
    BY <1>4 DEF QuarantineCopy, CopyBehind
  <2> QED BY <1>2, <2>1 DEF HeadInv, Committed
<1>5. CASE QuarantineTruncate
  <2>1. log' = head.recs /\ head' = head /\ leaves' = log' /\ pc' = "up"
    BY <1>5 DEF QuarantineTruncate, TruncateBehind, LoadStore, HeadInv
  <2>2. IsPrefix(head'.recs, leaves')
    BY <1>0, <2>1, PrefixRefl
  <2>3. AnchorInv'
    BY <1>0, <1>1, <2>1 DEF AnchorInv
  <2> QED BY <2>1, <2>2, <2>3 DEF HeadInv
<1>6. CASE AppendFrame
  <2>1. leaves' = Append(leaves, NewRecord) /\ head' = head /\ pc = "up" /\ pc' = "framed"
    BY <1>6 DEF AppendFrame
  <2>2. IsPrefix(head.recs, leaves)
    BY <2>1 DEF HeadInv
  <2>3. IsPrefix(head.recs, leaves')
    BY <1>0, <2>1, <2>2, PrefixAppend
  <2>4. Len(leaves') > Len(head.recs)
    BY <1>0, <2>1, <2>2, PrefixElements
  <2>5. log' = log \/ log' = Append(log, NewRecord)
    BY <1>6 DEF AppendFrame
  <2>6. log # <<>> => log' # <<>>
    BY <1>0, <2>5
  <2>7. AnchorInv'
    BY <1>0, <1>1, <2>1, <2>6 DEF AnchorInv
  <2> QED BY <2>1, <2>3, <2>4, <2>7 DEF HeadInv
<1>7. CASE WriteTreeHead
  <2>1. head'.recs = leaves /\ UNCHANGED <<log, leaves>> /\ pc = "framed" /\ pc' = "up"
    BY <1>7 DEF WriteTreeHead
  <2>2. leaves # <<>>
    BY <2>1 DEF TypeInv
  <2>3. AnchorInv'
    BY <1>0, <1>1, <2>1, <2>2 DEF AnchorInv
  <2>4. IsPrefix(leaves, leaves)
    BY <1>0, PrefixRefl
  <2> QED BY <2>1, <2>3, <2>4 DEF HeadInv
<1>8. CASE SealFails \/ ShortWrite \/ HeadFails
  <2>1. UNCHANGED <<log, head, leaves>> /\ pc \in {"up", "framed"} /\ pc' = "up"
    BY <1>8 DEF SealFails, ShortWrite, HeadFails
  <2> QED BY <1>2, <2>1 DEF HeadInv
<1>9. CASE Crash \/ Close
  <2>1. UNCHANGED <<log, head>> /\ pc' = "down"
    BY <1>9 DEF Crash, Close, ProcessGone
  <2> QED BY <1>2, <2>1 DEF HeadInv
<1>10. CASE UNCHANGED vars
  BY <1>2, <1>10 DEF vars, HeadInv, Committed
<1> QED BY <1>3, <1>4, <1>5, <1>6, <1>7, <1>8, <1>9, <1>10 DEF Next

\* HeadInv holds initially and after every step.
LEMMA HeadInvariant ==
    ASSUME "short" \notin Faults \/ Initialised
    PROVE  Spec => []HeadInv
<1> QED BY HeadInvInit, HeadInvStep, StoreInvariant, TypeInvariant, PTL DEF Spec

\* The store implements the abstract append-only log, on a log that `witness init` has
\* begun or where no frame can be written short: only WriteTreeHead changes what is
\* committed, and it extends it strictly.
THEOREM StoreImplementsAppendOnlyLog ==
    ASSUME "short" \notin Faults \/ Initialised
    PROVE  Spec => ImplementsAppendOnlyLog
<1>1. Init => Abs!Init
  BY DEF Init, Abs!Init, Abs!ToSet, ToSet
<1>2. TypeInv /\ HeadInv /\ [Next]_vars => [Abs!Extend]_<<head.recs, acked>>
  <2> SUFFICES ASSUME TypeInv, HeadInv, [Next]_vars
               PROVE  Abs!Extend \/ UNCHANGED <<head.recs, acked>>
    OBVIOUS
  <2>1. CASE WriteTreeHead
    <3>1. head'.recs = leaves /\ acked' = acked \cup {Last(leaves)} /\ pc = "framed"
      BY <2>1 DEF WriteTreeHead
    <3>2. IsPrefix(head.recs, leaves) /\ Len(leaves) > Len(head.recs)
      BY <3>1 DEF HeadInv
    <3>3. head.recs # leaves
      BY <3>2 DEF TypeInv, TypeOK, TreeHead
    <3> QED BY <3>1, <3>2, <3>3
            DEF Abs!Extend, Abs!IsStrictPrefix, Abs!IsPrefix, IsPrefix, Abs!Last, Last
  <2>2. CASE ~ WriteTreeHead
    <3>1. UNCHANGED <<head, acked>>
      BY <2>2 DEF Next, vars, disk, memory, counts, Open, QuarantineCopy, CopyBehind,
                  QuarantineTruncate, TruncateBehind, AppendFrame, SealFails, ShortWrite,
                  HeadFails, Crash, Close
    <3> QED BY <3>1
  <2> QED BY <2>1, <2>2
<1> QED
  BY <1>1, <1>2, HeadInvariant, TypeInvariant, PTL DEF Spec, ImplementsAppendOnlyLog,
     Abs!Spec

-----------------------------------------------------------------------------
(* What is kept.  This holds with every failure, short writes included.     *)

Kept == ToSet(log) \cup buried \cup quarantine

\* NothingDestroyed with what the truncation relies on: the copy that precedes it
\* holds everything behind the cut, until the truncation or a kill.
KeptInv ==
    /\ NothingDestroyed
    /\ pc = "copied" =>
         buried \cup {log[i] : i \in (Committed(head, log) + 1) .. Len(log)} \subseteq quarantine

\* A step that keeps what was kept, and writes no record, destroys nothing.
LEMMA KeptGrows ==
    ASSUME NothingDestroyed, Kept \subseteq Kept', written' = written
    PROVE  NothingDestroyed'
BY DEF NothingDestroyed, Kept

\* KeptInv holds initially.
LEMMA KeptInvInit == Init => KeptInv
<1> SUFFICES ASSUME Init PROVE NothingDestroyed
  BY DEF Init, KeptInv
<1>1. CASE Initialised
  BY <1>1 DEF Init, NothingDestroyed, ToSet, Genesis
<1>2. CASE ~ Initialised
  BY <1>2 DEF Init, NothingDestroyed
<1> QED BY <1>1, <1>2

\* Every step keeps KeptInv.
LEMMA KeptInvStep == TypeOK /\ KeptInv /\ [Next]_vars => KeptInv'
<1> SUFFICES ASSUME TypeOK, KeptInv, [Next]_vars PROVE KeptInv'
  OBVIOUS
<1>0. NothingDestroyed /\ log \in Seq(Record) /\ Committed(head, log) \in 0 .. Len(log)
  BY CommittedBound DEF KeptInv, TypeOK
<1>1. CASE QuarantineCopy
  <2>1. /\ UNCHANGED <<log, buried, head, written>>
        /\ quarantine' = quarantine \cup buried
               \cup {log[i] : i \in (Committed(head, log) + 1) .. Len(log)}
    BY <1>1 DEF QuarantineCopy, CopyBehind, counts
  <2>2. NothingDestroyed'
    BY <1>0, <2>1, KeptGrows DEF Kept
  <2> QED BY <2>1, <2>2 DEF KeptInv, Committed
<1>2. CASE QuarantineTruncate
  <2> DEFINE cut == Committed(head, log)
  <2>1. /\ log' = SubSeq(log, 1, cut)
        /\ UNCHANGED <<quarantine, written>>
        /\ pc = "copied" /\ pc' = "up"
    BY <1>2 DEF QuarantineTruncate, TruncateBehind, counts
  <2>2. /\ Len(log') = cut
        /\ \A i \in 1 .. cut : log'[i] = log[i]
    BY <1>0, <2>1
  <2>3. buried \subseteq quarantine /\ \A i \in (cut + 1) .. Len(log) : log[i] \in quarantine
    BY <2>1 DEF KeptInv
  <2>4. ASSUME NEW r \in ToSet(log) PROVE r \in ToSet(log') \cup quarantine'
    <3>1. PICK i \in 1 .. Len(log) : r = log[i]
      BY <1>0 DEF ToSet
    <3>2. CASE i <= cut
      <4>1. i \in DOMAIN log'
        BY <1>0, <2>1, <3>2
      <4> QED BY <1>0, <2>2, <3>1, <3>2, <4>1 DEF ToSet
    <3>3. CASE i > cut
      BY <1>0, <2>1, <2>3, <3>1, <3>3
    <3> QED BY <1>0, <3>2, <3>3
  <2>5. Kept \subseteq Kept'
    BY <2>1, <2>3, <2>4 DEF Kept
  <2> QED BY <1>0, <2>1, <2>5, KeptGrows DEF KeptInv
<1>3. CASE AppendFrame
  <2>1. /\ written' = written + 1 /\ written \in Nat /\ pc' = "framed" /\ quarantine' = quarantine
        /\ NewRecord.id = written + 1
    BY <1>3 DEF AppendFrame, TypeOK, NewRecord
  <2>2. Kept \cup {NewRecord} \subseteq Kept'
    <3>1. CASE log' = Append(log, NewRecord) /\ buried' = buried
      <4>1. ToSet(log') = ToSet(log) \cup {NewRecord}
        BY <1>0, <3>1 DEF ToSet
      <4> QED BY <2>1, <3>1, <4>1 DEF Kept
    <3>2. CASE log' = log /\ buried' = buried \cup {NewRecord}
      BY <2>1, <3>2 DEF Kept
    <3> QED BY <1>3, <3>1, <3>2 DEF AppendFrame
  <2>3. ASSUME NEW i \in 1 .. written' PROVE \E r \in Kept' : r.id = i
    <3>1. CASE i \in 1 .. written
      BY <1>0, <2>2, <3>1 DEF NothingDestroyed, Kept
    <3>2. CASE i = written + 1
      BY <2>1, <2>2, <3>2
    <3> QED BY <2>1, <3>1, <3>2
  <2> QED BY <2>1, <2>3 DEF KeptInv, NothingDestroyed, Kept
<1>4. CASE ~ (QuarantineCopy \/ QuarantineTruncate \/ AppendFrame)
  <2>1. UNCHANGED <<log, buried, quarantine, written>>
    BY <1>4 DEF Next, vars, disk, counts, Open, WriteTreeHead, SealFails, ShortWrite,
                HeadFails, Fault, Crash, Close
  <2>2. pc' # "copied" \/ UNCHANGED <<pc, head>>
    BY <1>4 DEF Next, vars, disk, Open, WriteTreeHead, SealFails, ShortWrite, HeadFails,
                Crash, Close, ProcessGone
  <2>3. NothingDestroyed'
    BY <1>0, <2>1, KeptGrows DEF Kept
  <2> QED BY <2>1, <2>2, <2>3 DEF KeptInv, Committed
<1> QED BY <1>1, <1>2, <1>3, <1>4

\* No record whose frame was written is ever lost from the disk: every recovery
\* copies what it cuts, also when it is killed in between and starts over.
THEOREM NothingEverDestroyed == Spec => []NothingDestroyed
<1>3. KeptInv => NothingDestroyed
  BY DEF KeptInv
<1> QED BY KeptInvInit, KeptInvStep, <1>3, TypeCorrect, PTL DEF Spec

-----------------------------------------------------------------------------
(* Sequence numbers, with every failure too.                                *)

\* SeqIncreasing with what Append relies on: a running daemon's seq has reached the
\* Seq of every record in the log.
SeqInv ==
    /\ SeqIncreasing
    /\ pc \in {"up", "framed"} => \A i \in DOMAIN log : log[i].seq <= seq

\* The Seq of a record in a log is a number.
LEMMA SeqType ==
    ASSUME NEW recs \in Seq(Record), NEW i \in DOMAIN recs
    PROVE  recs[i].seq \in Nat
<1>1. recs[i] \in Record
  OBVIOUS
<1> QED BY <1>1 DEF Record

\* Opening a log whose Seq increases takes seq to its largest one.
LEMMA LoadStoreSeq ==
    ASSUME NEW recs \in Seq(Record), LoadStore(recs),
           \A i, j \in DOMAIN recs : i < j => recs[i].seq < recs[j].seq
    PROVE  \A i \in DOMAIN recs : recs[i].seq <= seq'
<1> SUFFICES ASSUME NEW i \in DOMAIN recs PROVE recs[i].seq <= seq'
  OBVIOUS
<1>1. recs # <<>> /\ Len(recs) \in DOMAIN recs /\ i \in 1 .. Len(recs)
  OBVIOUS
<1>2. seq' = recs[Len(recs)].seq
  BY <1>1 DEF LoadStore, Last
<1>3. recs[i].seq \in Nat /\ recs[Len(recs)].seq \in Nat
  BY <1>1, SeqType
<1>4. i = Len(recs) \/ i < Len(recs)
  BY <1>1
<1> QED BY <1>1, <1>2, <1>3, <1>4

\* SeqInv holds initially.
LEMMA SeqInvInit == Init => SeqInv
<1> SUFFICES ASSUME Init PROVE SeqIncreasing
  BY DEF Init, SeqInv
<1>1. \A i, j \in DOMAIN log : i = j
  BY DEF Init
<1>2. DOMAIN log \subseteq Nat
  BY DEF Init
<1> QED BY <1>1, <1>2 DEF SeqIncreasing

\* Every step keeps SeqInv.
LEMMA SeqInvStep == TypeOK /\ SeqInv /\ [Next]_vars => SeqInv'
<1> SUFFICES ASSUME TypeOK, SeqInv, [Next]_vars PROVE SeqInv'
  OBVIOUS
<1> USE DEF disk, memory
<1>0. log \in Seq(Record) /\ seq \in Nat /\ SeqIncreasing
  BY DEF TypeOK, SeqInv
<1>1. ASSUME NEW s \in Signers, Open(s) PROVE SeqInv'
  <2>1. log' = log /\ (pc' = "up" => LoadStore(log)) /\ pc' # "framed"
    BY <1>1 DEF Open
  <2> QED BY <1>0, <2>1, LoadStoreSeq DEF SeqInv, SeqIncreasing
<1>2. CASE QuarantineCopy
  BY <1>2 DEF QuarantineCopy, CopyBehind, SeqInv, SeqIncreasing
<1>3. CASE QuarantineTruncate
  <2> DEFINE cut == Committed(head, log)
  <2>1. log' = SubSeq(log, 1, cut) /\ LoadStore(log') /\ cut \in 0 .. Len(log)
    BY <1>0, <1>3, CommittedBound DEF QuarantineTruncate, TruncateBehind, TypeOK
  <2>2. /\ log' \in Seq(Record) /\ DOMAIN log' \subseteq DOMAIN log
        /\ \A i \in DOMAIN log' : log'[i] = log[i]
    BY <1>0, <2>1
  <2>3. SeqIncreasing'
    BY <1>0, <2>2 DEF SeqIncreasing
  <2>4. \A i \in DOMAIN log' : log'[i].seq <= seq'
    BY <2>1, <2>2, <2>3, LoadStoreSeq DEF SeqIncreasing
  <2> QED BY <2>3, <2>4 DEF SeqInv
<1>4. CASE AppendFrame
  <2>1. seq' = seq + 1 /\ NewRecord.seq = seq + 1 /\ NewRecord \in Record
    BY <1>4 DEF AppendFrame, NewRecord, Record, TypeOK
  <2>2. \A i \in DOMAIN log : log[i].seq \in Nat /\ log[i].seq <= seq
    BY <1>0, <1>4, SeqType DEF AppendFrame, SeqInv
  <2>3. CASE log' = log
    BY <1>0, <2>1, <2>2, <2>3 DEF SeqInv, SeqIncreasing
  <2>4. CASE log' = Append(log, NewRecord)
    <3>1. /\ DOMAIN log' = 1 .. Len(log) + 1 /\ DOMAIN log = 1 .. Len(log) /\ Len(log) \in Nat
          /\ \A i \in DOMAIN log : log'[i] = log[i]
          /\ log'[Len(log) + 1] = NewRecord
      BY <1>0, <2>1, <2>4
    <3>2. \A i \in DOMAIN log' : log'[i].seq <= seq'
      BY <1>0, <2>1, <2>2, <3>1
    <3>3. ASSUME NEW i \in DOMAIN log', NEW j \in DOMAIN log', i < j
          PROVE  log'[i].seq < log'[j].seq
      <4>1. CASE j \in DOMAIN log
        BY <1>0, <3>1, <3>3, <4>1 DEF SeqIncreasing
      <4>2. CASE j = Len(log) + 1
        BY <1>0, <2>1, <2>2, <3>1, <3>3, <4>2
      <4> QED BY <3>1, <4>1, <4>2
    <3> QED BY <3>2, <3>3 DEF SeqInv, SeqIncreasing
  <2> QED BY <1>4, <2>3, <2>4 DEF AppendFrame
<1>5. CASE SealFails \/ ShortWrite
  <2>1. log' = log /\ seq' = seq + 1 /\ pc = "up" /\ pc' = "up"
    BY <1>5 DEF SealFails, ShortWrite
  <2>2. \A i \in DOMAIN log : log[i].seq \in Nat /\ log[i].seq <= seq
    BY <1>0, <2>1, SeqType DEF SeqInv
  <2> QED BY <1>0, <2>1, <2>2 DEF SeqInv, SeqIncreasing
<1>6. CASE WriteTreeHead \/ HeadFails
  BY <1>6 DEF WriteTreeHead, HeadFails, SeqInv, SeqIncreasing
<1>7. CASE Crash \/ Close
  BY <1>7 DEF Crash, Close, ProcessGone, SeqInv, SeqIncreasing
<1>8. CASE UNCHANGED vars
  BY <1>8 DEF vars, SeqInv, SeqIncreasing
<1> QED BY <1>1, <1>2, <1>3, <1>4, <1>5, <1>6, <1>7, <1>8 DEF Next

\* Seq grows strictly along the log, whatever Appends fail and whatever recoveries
\* take seq back.
THEOREM SeqAlwaysIncreasing == Spec => []SeqIncreasing
<1>1. SeqInv => SeqIncreasing
  BY DEF SeqInv
<1> QED BY <1>1, SeqInvInit, SeqInvStep, TypeCorrect, PTL DEF Spec

-----------------------------------------------------------------------------
(* What Open refuses, and whose head a signing daemon continues.            *)

\* A refusal under StoreBody has one of the reasons of RefusesOnlyUncoverable.
LEMMA RefusalReasons ==
    ASSUME TypeOK, StoreBody, NEW s, HeadRefused(head, log, s)
    PROVE  \/ head.recs = <<>>
           \/ Len(log) > Len(head.recs) + 1
           \/ s # NoKey /\ head.key \notin Trusted \cup {s, NoKey}
<1> SUFFICES ASSUME head.recs # <<>>, ~ (Len(log) > Len(head.recs) + 1)
             PROVE  s # NoKey /\ head.key \notin Trusted \cup {s, NoKey}
  OBVIOUS
<1>1. log \in Seq(Record) /\ head.recs \in Seq(Record) /\ IsPrefix(head.recs, log)
  BY DEF TypeOK, TreeHead, StoreBody
<1>2. Len(head.recs) >= 1 /\ Len(head.recs) <= Len(log)
  BY <1>1 DEF IsPrefix
<1>3. Committed(head, log) = Len(head.recs)
  BY <1>1, <1>2 DEF Committed
<1>4. SubSeq(log, 1, Committed(head, log)) = head.recs
  BY <1>1, <1>3, PrefixCut
<1> QED BY <1>4 DEF HeadRefused, HeadAccepted

\* Open refuses the log the daemon itself wrote only for the reasons the code
\* gives, unless a frame was written short.
THEOREM OnlyUncoverableRefused == Spec => []RefusesOnlyUncoverable
<1>1. Init => RefusesOnlyUncoverable
  BY DEF Init, RefusesOnlyUncoverable
<1>2. TypeOK /\ StoreInv /\ RefusesOnlyUncoverable /\ [Next]_vars => RefusesOnlyUncoverable'
  <2> SUFFICES ASSUME TypeOK, StoreInv, RefusesOnlyUncoverable, [Next]_vars,
                      Intact', pc' = "refused"
               PROVE  \/ head'.recs = <<>>
                      \/ Len(log') > Len(head'.recs) + 1
                      \/ signer' # NoKey /\ head'.key \notin Trusted \cup {signer', NoKey}
    BY DEF RefusesOnlyUncoverable
  <2>0. Intact /\ StoreBody
    BY ShortWriteCounts DEF StoreInv
  <2>1. ASSUME NEW s \in Signers, Open(s)
        PROVE  \/ head'.recs = <<>>
               \/ Len(log') > Len(head'.recs) + 1
               \/ signer' # NoKey /\ head'.key \notin Trusted \cup {signer', NoKey}
    <3>1. signer' = s /\ UNCHANGED <<log, head>>
      BY <2>1 DEF Open, disk
    <3>2. HeadRefused(head, log, s)
      <4>1. \/ HeadRefused(head, log, s)
            \/ ~ IsCrashTail(head, log, junk) /\ Committed(head, log) < Len(log)
        BY <2>1 DEF Open
      <4> QED BY <2>0, <4>1 DEF IsCrashTail, StoreBody
    <3> QED BY <2>0, <3>1, <3>2, RefusalReasons
  <2>2. CASE ~ \E s \in Signers : Open(s)
    <3>1. UNCHANGED vars
      BY <2>2 DEF Next, QuarantineCopy, CopyBehind, QuarantineTruncate, TruncateBehind,
                  AppendFrame, WriteTreeHead, SealFails, ShortWrite, HeadFails, Crash, Close,
                  ProcessGone
    <3>2. UNCHANGED <<log, head, signer, pc>>
      BY <3>1 DEF vars, disk, memory
    <3> QED BY <2>0, <3>2 DEF RefusesOnlyUncoverable
  <2> QED BY <2>1, <2>2
<1> QED BY <1>1, <1>2, StoreInvariant, TypeCorrect, PTL DEF Spec

\* SignerPinned from the moment the head is accepted: the recovery runs on it too.
PinInv ==
    pc \in {"recover", "copied", "up", "framed"} /\ signer # NoKey /\ head.recs # <<>> =>
        \/ head.key \in Trusted \cup {signer}
        \/ head.key = NoKey /\ (pc \in {"up", "framed"} => unsignedHead)

\* A signing daemon only ever continues its own head, that of a trusted key, or an
\* unsigned one that it has reported, on a log that `witness init` has begun or where
\* no frame can be written short.
THEOREM SignerAlwaysPinned ==
    ASSUME "short" \notin Faults \/ Initialised
    PROVE  Spec => []SignerPinned
<1>1. Init => PinInv
  BY DEF Init, PinInv
<1>2. TypeInv /\ StoreInv /\ HeadInv /\ PinInv /\ [Next]_vars => PinInv'
  <2> SUFFICES ASSUME TypeOK, StoreInv, HeadInv, PinInv, [Next]_vars PROVE PinInv'
    BY DEF TypeInv
  <2> USE DEF disk, memory
  <2>1. ASSUME NEW s \in Signers, Open(s) PROVE PinInv'
    <3>1. signer' = s /\ UNCHANGED <<log, head>>
      BY <2>1 DEF Open
    <3> SUFFICES ASSUME pc' # "refused", s # NoKey, head.recs # <<>> PROVE PinInv'
      BY <2>1, <3>1 DEF PinInv, Open
    <3>2. ~ HeadRefused(head, log, s)
      BY <2>1 DEF Open
    <3>3. log # <<>>
      BY <3>2, AcceptedHead DEF HeadInv
    <3>4. head.key \in Trusted \cup {s, NoKey}
      BY <3>2, <3>3 DEF HeadRefused, HeadAccepted
    <3>5. pc' = "up" /\ head.key = NoKey => unsignedHead'
      BY <2>1, <3>1, <3>3 DEF Open, LoadStore
    <3>6. pc' \in {"recover", "up"}
      BY <2>1 DEF Open
    <3> QED BY <3>1, <3>4, <3>5, <3>6 DEF PinInv
  <2>2. CASE QuarantineCopy
    BY <2>2 DEF QuarantineCopy, CopyBehind, PinInv
  <2>3. CASE QuarantineTruncate
    <3>1. UNCHANGED <<head, signer>> /\ pc = "copied" /\ pc' = "up"
      BY <2>3 DEF QuarantineTruncate, TruncateBehind
    <3>2. log' = head.recs
      BY <2>3 DEF QuarantineTruncate, TruncateBehind, HeadInv
    <3>3. unsignedHead' = (signer' # NoKey /\ log' # <<>> /\ head.key = NoKey)
      BY <2>3 DEF QuarantineTruncate, TruncateBehind, LoadStore
    <3> QED BY <3>1, <3>2, <3>3 DEF PinInv
  <2>4. CASE AppendFrame
    BY <2>4 DEF AppendFrame, PinInv
  <2>5. CASE WriteTreeHead
    BY <2>5 DEF WriteTreeHead, PinInv
  <2>6. CASE SealFails \/ ShortWrite \/ HeadFails
    BY <2>6 DEF SealFails, ShortWrite, HeadFails, PinInv
  <2>7. CASE Crash \/ Close
    BY <2>7 DEF Crash, Close, ProcessGone, PinInv
  <2>8. CASE UNCHANGED vars
    BY <2>8 DEF vars, PinInv
  <2> QED BY <2>1, <2>2, <2>3, <2>4, <2>5, <2>6, <2>7, <2>8 DEF Next
<1>3. PinInv => SignerPinned
  BY DEF PinInv, SignerPinned
<1> QED BY <1>1, <1>2, <1>3, HeadInvariant, StoreInvariant, TypeInvariant, PTL DEF Spec
=============================================================================
