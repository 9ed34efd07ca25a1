---------------------------- MODULE TailerProofs ----------------------------
(***************************************************************************)
(* Theorems about Tailer, for every channel capacity and every number of   *)
(* lines, files, failures, stops and kills.                                *)
(***************************************************************************)
EXTENDS Tailer, WellFoundedInduction, TLAPS

-----------------------------------------------------------------------------
(* The inductive invariant, part by part.                                   *)

Entry == [end : Nat, acked : BOOLEAN]

Sending == {"send", "drainsend"}
Reading == {"run", "drain"} \cup Sending

\* The variables keep their types, and positions stay inside their files.
TailerType ==
    /\ TypeOK
    /\ pending \in Seq(Entry) /\ appeared \in BOOLEAN /\ stopping \in BOOLEAN
    /\ mishaps \in [MishapKinds -> Nat]
    /\ tpc \in {"down", "wait", "exited"} \cup Reading
    /\ cpc \in {"down", "idle", "have", "ack"}
    /\ cpc \in {"have", "ack"} => hand \in Lines
    /\ tpc \in Sending => line = <<gen, pos>>
    /\ tpc \in Reading => gen # 0
    /\ gen # 0 => pos <= Len(files[gen])
    /\ gen = 0 => pos = 0
    /\ \A st \in saved : /\ st.gen \in 0 .. Current
                         /\ st.gen # 0 => st.off <= Len(files[st.gen])

\* pending holds the lines between committed and pos, one after the other.
PendingInv ==
    /\ Len(pending) = pos - committed
    /\ \A i \in 1 .. Len(pending) : pending[i].end = committed + i

\* A process that has not opened a file has handled no line.
FreshInv ==
    /\ tpc = "down" => cpc = "down"
    /\ tpc \in {"down", "wait"} => run = <<>> /\ chan = <<>> /\ cpc \in {"down", "idle"}

\* Line a was written before line b.
Earlier(a, b) == a[1] < b[1] \/ (a[1] = b[1] /\ a[2] < b[2])

\* The event in the hands of the forwarder.
Held == IF cpc \in {"have", "ack"} THEN {hand} ELSE {}

\* The reader has passed line x, and x is not the line it is sending.
Passed(x) == Earlier(x, <<gen, pos>>) \/ (tpc \notin Sending /\ x = <<gen, pos>>)

\* What was stored, is held and is in the channel, read one after the other, is in
\* the order of the files, and the reader has passed all of it.
OrderBody ==
    /\ \A i, j \in DOMAIN run : i < j => Earlier(run[i], run[j])
    /\ \A i, j \in DOMAIN chan : i < j => Earlier(chan[i], chan[j])
    /\ \A i \in DOMAIN run, j \in DOMAIN chan : Earlier(run[i], chan[j])
    /\ \A x \in Held, j \in DOMAIN chan : Earlier(x, chan[j])
    /\ cpc = "have" => \A i \in DOMAIN run : Earlier(run[i], hand)
    /\ \A i \in DOMAIN run : Passed(run[i])
    /\ \A j \in DOMAIN chan : Passed(chan[j])
    /\ \A x \in Held : Passed(x)

\* So it is until a read error starts the file again.
OrderInv == mishaps["read"] = 0 => OrderBody

\* The lines whose events are between the reader and their Ack.
InFlight == ToSet(chan) \cup Held \cup (IF tpc \in Sending THEN {line} ELSE {})

\* The lines that are stored or need not be.
Settled == {x \in Lines : x \in stored \/ ~ Counts(x[1], x[2])}

\* In file g the entries p behind position c stand for its next lines: the ones not
\* acked are those in flight, the others are in D, and so is all up to c.
Linked(p, c, g, F, D) ==
    /\ \A i \in 1 .. Len(p) : ~ p[i].acked <=> <<g, c + i>> \in F
    /\ \A i \in 1 .. Len(p) : p[i].acked => <<g, c + i>> \in D
    /\ \A i \in 1 .. c : <<g, i>> \in D
    /\ \A x \in F : x[1] = g /\ x[2] \in (c + 1) .. (c + Len(p))

\* The acks in flight belong to the lines they will be counted for.
LinkBody ==
    /\ ~ stopping /\ Len(files) <= 1
    /\ \A st \in saved : st.gen = 1 /\ \A i \in 1 .. st.off : <<st.gen, i>> \in Settled
    /\ tpc \in {"down", "wait", "run", "send"}
    /\ tpc \in {"run", "send"} => Linked(pending, committed, gen, InFlight, Settled)
    /\ cpc = "ack" => hand \in stored

LinkInv == Undisturbed => LinkBody

\* The conjunction is inductive.
TailerInv == TailerType /\ PendingInv /\ FreshInv /\ OrderInv /\ LinkInv

-----------------------------------------------------------------------------
(* Facts about the operators.                                               *)

\* A nonempty set of numbers has a least one.
LEMMA LeastNumber ==
    ASSUME NEW T, T \subseteq Nat, T # {}
    PROVE  \E m \in T : \A k \in T : m <= k
<1>1. PICK m \in T : \A k \in T : ~ (<<k, m>> \in OpToRel(<, Nat))
  BY NatLessThanWellFounded, WFMin
<1>2. \A k \in T : ~ (k < m)
  BY <1>1 DEF OpToRel
<1> QED BY <1>2

\* advanceLocked takes some acked entries off the front and moves committed past them.
LEMMA AdvanceEffect ==
    ASSUME NEW p \in Seq(Entry), Advance(p)
    PROVE  \E n \in 0 .. Len(p) :
             /\ \A i \in 1 .. n : p[i].acked
             /\ committed' = IF n = 0 THEN committed ELSE p[n].end
             /\ pending' \in Seq(Entry)
             /\ Len(pending') = Len(p) - n
             /\ \A i \in 1 .. Len(p) - n : pending'[i] = p[n + i]
<1> DEFINE Fits(k) == (\A i \in 1 .. k : p[i].acked) /\ (k < Len(p) => ~ p[k + 1].acked)
           n == CHOOSE k \in 0 .. Len(p) : Fits(k)
<1>1. \E k \in 0 .. Len(p) : Fits(k)
  <2> DEFINE T == {k \in 0 .. Len(p) : k = Len(p) \/ ~ p[k + 1].acked}
  <2>1. T \subseteq Nat /\ Len(p) \in T
    OBVIOUS
  <2>2. PICK m \in T : \A k \in T : m <= k
    BY <2>1, LeastNumber
  <2>3. ASSUME NEW i \in 1 .. m PROVE p[i].acked
    <3>1. i - 1 \in 0 .. Len(p) /\ i - 1 < m /\ (i - 1) + 1 = i /\ i - 1 # Len(p)
      BY <2>2, <2>3
    <3>2. ~ (m <= i - 1)
      BY <3>1
    <3>3. i - 1 \notin T
      <4> HIDE DEF T
      <4> QED BY <2>2, <3>2
    <3> QED BY <3>1, <3>3
  <2> QED BY <2>2, <2>3
<1>2. n \in 0 .. Len(p) /\ Fits(n)
  BY <1>1
<1>3. /\ committed' = IF n = 0 THEN committed ELSE p[n].end
      /\ pending' = SubSeq(p, n + 1, Len(p))
  BY DEF Advance
<1> HIDE DEF n
<1>4. /\ SubSeq(p, n + 1, Len(p)) \in Seq(Entry)
      /\ Len(SubSeq(p, n + 1, Len(p))) = Len(p) - n
      /\ \A i \in 1 .. Len(p) - n : SubSeq(p, n + 1, Len(p))[i] = p[n + i]
  BY <1>2
<1> QED BY <1>2, <1>3, <1>4

\* A mishap is counted.
LEMMA MishapCounted ==
    ASSUME NEW k, Mishap(k), mishaps \in [MishapKinds -> Nat]
    PROVE  /\ mishaps' \in [MishapKinds -> Nat] /\ mishaps'[k] > 0 /\ k \in MishapKinds
           /\ \A j \in MishapKinds \ {k} : mishaps'[j] = mishaps[j]
<1>1. k \in MishapKinds /\ mishaps' = [mishaps EXCEPT ![k] = @ + 1]
  BY MishapsAssumption DEF Mishap
<1> QED BY <1>1

\* What a line is.
LEMMA LinesAre ==
    ASSUME files \in Seq(Seq(BOOLEAN))
    PROVE  /\ Current \in Nat
           /\ \A g \in 1 .. Current : files[g] \in Seq(BOOLEAN) /\ Len(files[g]) \in Nat
           /\ \A x : x \in Lines <=> \E g \in 1 .. Current :
                                     \E i \in 1 .. Len(files[g]) : x = <<g, i>>
BY DEF Lines, Current

\* No step takes a line or a file away.
LEMMA FilesGrow ==
    ASSUME TailerType, [Next]_vars
    PROVE  /\ files' \in Seq(Seq(BOOLEAN)) /\ Lines \subseteq Lines' /\ Current <= Current'
           /\ \A g \in 1 .. Current : /\ Len(files[g]) <= Len(files'[g])
                                      /\ \A i \in 1 .. Len(files[g]) : files'[g][i] = files[g][i]
<1>0. files \in Seq(Seq(BOOLEAN)) /\ <<>> \in Seq(BOOLEAN) /\ <<>> \in Seq(Seq(BOOLEAN))
  BY DEF TailerType, TypeOK
<1> DEFINE Grown == /\ files' \in Seq(Seq(BOOLEAN)) /\ Len(files) <= Len(files')
                    /\ \A g \in 1 .. Len(files) :
                          /\ Len(files[g]) <= Len(files'[g])
                          /\ \A i \in 1 .. Len(files[g]) : files'[g][i] = files[g][i]
<1> SUFFICES Grown
  <2>1. ASSUME NEW x \in Lines PROVE x \in Lines'
    <3>1. PICK g \in 1 .. Len(files) : \E i \in 1 .. Len(files[g]) : x = <<g, i>>
      BY <1>0, LinesAre DEF Current
    <3>2. PICK i \in 1 .. Len(files[g]) : x = <<g, i>>
      BY <3>1
    <3>3. g \in 1 .. Len(files') /\ i \in 1 .. Len(files'[g])
      BY <1>0, <3>1, <3>2
    <3> QED BY <3>2, <3>3 DEF Lines, Current
  <2> QED BY <2>1 DEF Current
<1>1. CASE CreateFile
  BY <1>0, <1>1 DEF CreateFile
<1>2. ASSUME NEW json \in BOOLEAN, WriteLine(json) PROVE Grown
  <2>1. Len(files) \in 1 .. Len(files) /\ files' = [files EXCEPT ![Len(files)] = Append(@, json)]
    BY <1>0, <1>2 DEF WriteLine, Current
  <2>2. files[Len(files)] \in Seq(BOOLEAN)
    BY <1>0, <2>1
  <2> DEFINE f == Append(files[Len(files)], json)
  <2>3. /\ f \in Seq(BOOLEAN) /\ Len(f) = Len(files[Len(files)]) + 1
        /\ \A i \in 1 .. Len(files[Len(files)]) : f[i] = files[Len(files)][i]
    BY <2>2
  <2>4. files' = [files EXCEPT ![Len(files)] = f]
    BY <2>1
  <2> HIDE DEF f
  <2> QED BY <1>0, <2>1, <2>2, <2>3, <2>4
<1>3. CASE Rotate
  BY <1>0, <1>3 DEF Rotate
<1>4. CASE UNCHANGED files
  BY <1>0, <1>4
<1> QED
  BY <1>1, <1>2, <1>3, <1>4 DEF Next, vars, disk, Start, WaitForFile, FirstOpen, ReadLine,
     Send,
     NoticeStop, Reopen, ReadError, TailerExits, Receive, StoreEvent, StoreEventFails, Ack,
     RequestStop, StopCompletes, Crash

\* The pending lines once a line is read, and once an event is acked.
ReadEntries == Append(pending, [end |-> pos + 1, acked |-> ~ files[gen][pos + 1]])
Open == {i \in DOMAIN pending : ~ pending[i].acked}
AckEntries ==
    IF Open = {} THEN pending
    ELSE [pending EXCEPT ![CHOOSE i \in Open : \A j \in Open : i <= j].acked = TRUE]

\* Entries p, the first n of which are acked, have been taken in.
TakenIn(p, n) ==
    /\ n \in 0 .. Len(p) /\ \A i \in 1 .. n : p[i].acked
    /\ committed' = committed + n
    /\ pending' \in Seq(Entry) /\ Len(pending') = Len(p) - n
    /\ \A i \in 1 .. Len(p) - n : pending'[i] = p[n + i]

\* Numbered entries stay numbered.
LEMMA NumberedStay ==
    ASSUME NEW p \in Seq(Entry), Advance(p), committed \in Nat,
           \A i \in 1 .. Len(p) : p[i].end = committed + i
    PROVE  \E n \in 0 .. Len(p) : TakenIn(p, n)
<1>1. PICK n \in 0 .. Len(p) :
             /\ \A i \in 1 .. n : p[i].acked
             /\ committed' = IF n = 0 THEN committed ELSE p[n].end
             /\ pending' \in Seq(Entry)
             /\ Len(pending') = Len(p) - n
             /\ \A i \in 1 .. Len(p) - n : pending'[i] = p[n + i]
  BY AdvanceEffect
<1>2. committed' = committed + n
  BY <1>1
<1> QED BY <1>1, <1>2 DEF TakenIn

\* A line read becomes the last entry, not acked unless it is not JSON.
LEMMA ReadEntriesAre ==
    ASSUME TailerType, PendingInv, ReadLine
    PROVE  /\ ReadEntries \in Seq(Entry) /\ Len(ReadEntries) = Len(pending) + 1
           /\ \A i \in 1 .. Len(pending) : ReadEntries[i] = pending[i]
           /\ ReadEntries[Len(pending) + 1].acked = ~ files[gen][pos + 1]
           /\ \A i \in 1 .. Len(pending) + 1 : ReadEntries[i].end = committed + i
           /\ gen \in 1 .. Len(files) /\ pos + 1 \in 1 .. Len(files[gen])
           /\ files[gen][pos + 1] \in BOOLEAN
           /\ Advance(ReadEntries)
<1>1. /\ gen \in 1 .. Len(files) /\ files \in Seq(Seq(BOOLEAN)) /\ pos \in Nat
      /\ pos < Len(files[gen]) /\ pending \in Seq(Entry) /\ committed \in 0 .. pos
  BY DEF TailerType, TypeOK, Current, ReadLine, Reading
<1>2. pos + 1 \in 1 .. Len(files[gen]) /\ files[gen] \in Seq(BOOLEAN)
  BY <1>1
<1>3. files[gen][pos + 1] \in BOOLEAN
  BY <1>2
<1> DEFINE e == [end |-> pos + 1, acked |-> ~ files[gen][pos + 1]]
<1>4. e \in Entry /\ e.end = pos + 1 /\ e.acked = ~ files[gen][pos + 1]
  BY <1>1, <1>3 DEF Entry
<1>5. ReadEntries = Append(pending, e)
  BY DEF ReadEntries
<1> HIDE DEF e
<1>6. /\ ReadEntries \in Seq(Entry) /\ Len(ReadEntries) = Len(pending) + 1
      /\ \A i \in 1 .. Len(pending) : ReadEntries[i] = pending[i]
      /\ ReadEntries[Len(pending) + 1] = e
  BY <1>1, <1>4, <1>5
<1>7. ASSUME NEW i \in 1 .. Len(pending) + 1 PROVE ReadEntries[i].end = committed + i
  <2>1. Len(pending) = pos - committed /\ Len(pending) \in Nat
    BY <1>1 DEF PendingInv
  <2>2. CASE i \in 1 .. Len(pending)
    BY <1>6, <2>2 DEF PendingInv
  <2>3. CASE i = Len(pending) + 1
    BY <1>1, <1>4, <1>6, <2>1, <2>3
  <2> QED BY <2>1, <2>2, <2>3
<1>8. Advance(ReadEntries)
  BY DEF ReadLine, ReadEntries
<1> QED BY <1>1, <1>2, <1>3, <1>4, <1>6, <1>7, <1>8

\* An Ack marks the oldest entry that is not acked, if there is one.
LEMMA AckEntriesAre ==
    ASSUME TailerType, PendingInv, Ack
    PROVE  /\ AckEntries \in Seq(Entry) /\ Len(AckEntries) = Len(pending)
           /\ \A i \in 1 .. Len(pending) : AckEntries[i].end = committed + i
           /\ \/ Open = {} /\ AckEntries = pending
              \/ \E k \in Open : /\ \A j \in Open : k <= j
                                 /\ \A i \in 1 .. Len(pending) :
                                       AckEntries[i].acked <=> (pending[i].acked \/ i = k)
           /\ Advance(AckEntries)
<1>1. pending \in Seq(Entry) /\ DOMAIN pending = 1 .. Len(pending)
  BY DEF TailerType
<1>2. Advance(AckEntries)
  BY DEF Ack, AckEntries, Open
<1>3. CASE Open = {}
  BY <1>1, <1>2, <1>3 DEF AckEntries, PendingInv
<1>4. CASE Open # {}
  <2> DEFINE k == CHOOSE i \in Open : \A j \in Open : i <= j
  <2>1. Open \subseteq Nat
    BY <1>1 DEF Open
  <2>2. k \in Open /\ \A j \in Open : k <= j
    BY <1>4, <2>1, LeastNumber
  <2>3. AckEntries = [pending EXCEPT ![k].acked = TRUE]
    BY <1>4 DEF AckEntries
  <2> HIDE DEF k
  <2>4. k \in 1 .. Len(pending)
    BY <1>1, <2>2 DEF Open
  <2>5. /\ AckEntries \in Seq(Entry) /\ Len(AckEntries) = Len(pending)
        /\ \A i \in 1 .. Len(pending) : /\ AckEntries[i].end = pending[i].end
                                        /\ i # k => AckEntries[i] = pending[i]
        /\ AckEntries[k].acked = TRUE
    <3> DEFINE e == [pending[k] EXCEPT !.acked = TRUE]
    <3>0. pending[k] \in Entry
      BY <1>1, <2>4
    <3>1. e \in Entry /\ e.end = pending[k].end /\ e.acked = TRUE
      BY <3>0 DEF Entry
    <3>2. AckEntries = [pending EXCEPT ![k] = e]
      BY <2>3
    <3> HIDE DEF e
    <3> QED BY <1>1, <2>4, <3>1, <3>2
  <2>6. \A i \in 1 .. Len(pending) : AckEntries[i].acked <=> (pending[i].acked \/ i = k)
    BY <2>4, <2>5
  <2> QED BY <1>2, <2>2, <2>5, <2>6 DEF PendingInv
<1> QED BY <1>3, <1>4

\* Reading a line keeps pending numbered.
LEMMA ReadLineTakesIn ==
    ASSUME TailerType, PendingInv, ReadLine
    PROVE  /\ \E n \in 0 .. Len(ReadEntries) : TakenIn(ReadEntries, n)
           /\ PendingInv' /\ pending' \in Seq(Entry)
           /\ committed' \in 0 .. pos' /\ Len(pending') <= pos'
<1> DEFINE p == ReadEntries
<1>1. /\ p \in Seq(Entry) /\ Len(p) = Len(pending) + 1 /\ Advance(p)
      /\ \A i \in 1 .. Len(p) : p[i].end = committed + i
  BY ReadEntriesAre
<1>2. committed \in Nat /\ pos \in Nat /\ pos' = pos + 1 /\ Len(p) = pos' - committed
  BY <1>1 DEF TailerType, TypeOK, PendingInv, ReadLine
<1> HIDE DEF p
<1>3. PICK n \in 0 .. Len(p) : TakenIn(p, n)
  BY <1>1, <1>2, NumberedStay
<1>4. Len(p) \in Nat
  BY <1>1
<1>5. \A i \in 1 .. Len(p) - n : pending'[i].end = committed' + i
  BY <1>1, <1>2, <1>3, <1>4 DEF TakenIn
<1>6. /\ committed' = committed + n /\ Len(pending') = Len(p) - n /\ pending' \in Seq(Entry)
  BY <1>3 DEF TakenIn
<1> QED BY <1>2, <1>3, <1>4, <1>5, <1>6 DEF PendingInv, p

\* So does an Ack.
LEMMA AckTakesIn ==
    ASSUME TailerType, PendingInv, Ack
    PROVE  /\ \E n \in 0 .. Len(AckEntries) : TakenIn(AckEntries, n)
           /\ PendingInv' /\ pending' \in Seq(Entry)
           /\ committed' \in 0 .. pos' /\ Len(pending') <= pos'
<1> DEFINE p == AckEntries
<1>1. /\ p \in Seq(Entry) /\ Len(p) = Len(pending) /\ Advance(p)
      /\ \A i \in 1 .. Len(p) : p[i].end = committed + i
  BY AckEntriesAre
<1>2. committed \in Nat /\ pos \in Nat /\ pos' = pos /\ Len(p) = pos' - committed
  BY <1>1 DEF TailerType, TypeOK, PendingInv, Ack
<1> HIDE DEF p
<1>3. PICK n \in 0 .. Len(p) : TakenIn(p, n)
  BY <1>1, <1>2, NumberedStay
<1>4. Len(p) \in Nat
  BY <1>1
<1>5. \A i \in 1 .. Len(p) - n : pending'[i].end = committed' + i
  BY <1>1, <1>2, <1>3, <1>4 DEF TakenIn
<1>6. /\ committed' = committed + n /\ Len(pending') = Len(p) - n /\ pending' \in Seq(Entry)
  BY <1>3 DEF TakenIn
<1> QED BY <1>2, <1>3, <1>4, <1>5, <1>6 DEF PendingInv, p

-----------------------------------------------------------------------------
(* The invariant holds initially.                                           *)

\* The invariant holds in the empty directory and with a saved position.
LEMMA TailerInit ==
    ASSUME Init
    PROVE  TailerInv
<1>0. files \in Seq(Seq(BOOLEAN)) /\ Len(files) <= 1 /\ (saved # {} => Len(files) = 1)
  <2>1. <<>> \in Seq(Seq(BOOLEAN)) /\ <<<<>>>> \in Seq(Seq(BOOLEAN))
    OBVIOUS
  <2>2. Len(<<>>) = 0 /\ Len(<<<<>>>>) = 1
    OBVIOUS
  <2>3. CASE files = <<>> /\ saved = {}
    BY <2>1, <2>2, <2>3
  <2>4. CASE files = <<<<>>>>
    BY <2>1, <2>2, <2>4
  <2> QED BY <2>3, <2>4 DEF Init
<1>1. /\ run = <<>> /\ chan = <<>> /\ pending = <<>> /\ line = NoLine /\ hand = NoLine
      /\ tpc = "down" /\ cpc = "down" /\ gen = 0 /\ pos = 0 /\ committed = 0
      /\ appeared = FALSE /\ stopping = FALSE /\ stored = {} /\ base = saved
      /\ saved \in {{}, {[gen |-> 1, off |-> 0]}}
      /\ mishaps = [k \in MishapKinds |-> 0]
  BY DEF Init, Cold
<1>2. <<>> \in Seq(Lines) /\ <<>> \in Seq(Entry) /\ Len(<<>>) = 0
  OBVIOUS
<1>3. TypeOK
  BY <1>0, <1>1, <1>2, CapacityAssumption DEF TypeOK, Position, Current
<1>4. TailerType
  <2>1. \A st \in saved : st.gen = 1 /\ st.off = 0 /\ 1 \in 1 .. Len(files)
    <3>1. CASE saved = {}
      BY <3>1
    <3>2. CASE saved = {[gen |-> 1, off |-> 0]}
      <4>1. [gen |-> 1, off |-> 0] \in saved /\ \A st \in saved : st = [gen |-> 1, off |-> 0]
        BY <3>2
      <4>2. Len(files) = 1
        BY <1>0, <4>1
      <4>3. \A st \in saved : st.gen = 1 /\ st.off = 0
        BY <4>1
      <4> QED BY <4>2, <4>3
    <3> QED BY <1>1, <3>1, <3>2
  <2>2. \A st \in saved : Len(files[st.gen]) \in Nat
    BY <1>0, <2>1
  <2>3. \A st \in saved : st.gen \in 0 .. Len(files) /\ st.off <= Len(files[st.gen])
    BY <1>0, <2>1, <2>2
  <2>4. mishaps \in [MishapKinds -> Nat]
    BY <1>1
  <2> QED BY <1>0, <1>1, <1>2, <1>3, <2>3, <2>4 DEF TailerType, Current, Reading, Sending
<1>5. PendingInv /\ FreshInv
  BY <1>1 DEF PendingInv, FreshInv
<1>6. OrderInv
  BY <1>1 DEF OrderInv, OrderBody, Held
<1>7. LinkInv
  BY <1>0, <1>1 DEF LinkInv, LinkBody
<1> QED BY <1>4, <1>5, <1>6, <1>7 DEF TailerInv

-----------------------------------------------------------------------------
(* Types.                                                                   *)

\* A sequence over a set is one over any larger set.
LEMMA SeqGrows ==
    ASSUME NEW A, NEW B, A \subseteq B, NEW s \in Seq(A)
    PROVE  s \in Seq(B)
OBVIOUS

\* What the variables hold still has its type among the lines after a step.
LEMMA StillLines ==
    ASSUME TailerType, [Next]_vars
    PROVE  /\ run \in Seq(Lines') /\ chan \in Seq(Lines') /\ stored \subseteq Lines'
           /\ {line, hand} \subseteq Lines' \cup {NoLine}
           /\ cpc \in {"have", "ack"} => hand \in Lines'
           /\ files' \in Seq(Seq(BOOLEAN)) /\ gen \in 0 .. Current'
           /\ Current \in Nat /\ Current' \in Nat /\ Current <= Current'
           /\ gen # 0 => pos <= Len(files'[gen])
           /\ \A st \in saved : /\ st.gen \in 0 .. Current'
                                /\ st.gen # 0 => st.off <= Len(files'[st.gen])
<1>1. /\ files' \in Seq(Seq(BOOLEAN)) /\ Lines \subseteq Lines' /\ Current <= Current'
      /\ \A g \in 1 .. Current : Len(files[g]) <= Len(files'[g])
  BY FilesGrow
<1>2. /\ files \in Seq(Seq(BOOLEAN)) /\ run \in Seq(Lines) /\ chan \in Seq(Lines)
      /\ stored \subseteq Lines /\ {line, hand} \subseteq Lines \cup {NoLine}
      /\ cpc \in {"have", "ack"} => hand \in Lines
      /\ gen \in 0 .. Current /\ pos \in Nat /\ saved \subseteq Position
      /\ gen # 0 => pos <= Len(files[gen])
      /\ \A st \in saved : /\ st.gen \in 0 .. Current
                           /\ st.gen # 0 => st.off <= Len(files[st.gen])
  BY DEF TailerType, TypeOK
<1>3. Current \in Nat /\ Current' \in Nat
  BY <1>1, <1>2 DEF Current
<1>4. run \in Seq(Lines') /\ chan \in Seq(Lines')
  BY <1>1, <1>2, SeqGrows
<1>5. \A g \in 1 .. Current : Len(files[g]) \in Nat /\ Len(files'[g]) \in Nat
  BY <1>1, <1>2, <1>3 DEF Current
<1>6. \A st \in saved : st.off \in Nat
  BY <1>2 DEF Position
<1>7. gen # 0 => pos <= Len(files'[gen])
  BY <1>1, <1>2, <1>3, <1>5
<1>8. ASSUME NEW st \in saved
      PROVE  st.gen \in 0 .. Current' /\ (st.gen # 0 => st.off <= Len(files'[st.gen]))
  <2>1. st.gen \in 0 .. Current /\ st.off \in Nat
    BY <1>2, <1>6
  <2>2. CASE st.gen # 0
    <3>1. st.gen \in 1 .. Current /\ st.off <= Len(files[st.gen])
      BY <1>2, <1>3, <2>1, <2>2
    <3> QED BY <1>1, <1>3, <1>5, <2>1, <3>1
  <2>3. CASE st.gen = 0
    BY <1>3, <2>3
  <2> QED BY <2>2, <2>3
<1> QED BY <1>1, <1>2, <1>3, <1>4, <1>7, <1>8

\* Every step keeps the types, and pending numbered.
LEMMA TailerTypeStep ==
    ASSUME TailerType, PendingInv, [Next]_vars
    PROVE  TailerType' /\ PendingInv'
<1> DEFINE Goal == TailerType' /\ PendingInv'
<1> USE DEF TailerType, TypeOK, PendingInv, Reading, Sending, disk, memory
<1>0. /\ run \in Seq(Lines') /\ chan \in Seq(Lines') /\ stored \subseteq Lines'
      /\ {line, hand} \subseteq Lines' \cup {NoLine}
      /\ cpc \in {"have", "ack"} => hand \in Lines'
      /\ files' \in Seq(Seq(BOOLEAN)) /\ gen \in 0 .. Current'
      /\ Current \in Nat /\ Current' \in Nat /\ Current <= Current'
      /\ gen # 0 => pos <= Len(files'[gen])
      /\ \A st \in saved : /\ st.gen \in 0 .. Current'
                           /\ st.gen # 0 => st.off <= Len(files'[st.gen])
  BY StillLines
<1>1. <<>> \in Seq(Lines') /\ <<>> \in Seq(Entry) /\ Len(<<>>) = 0
  OBVIOUS
<1>2. ASSUME OpenAt(0), tpc \in {"run", "drain"}, UNCHANGED <<tpc, line, hand, cpc>>
      PROVE  /\ pending' = <<>> /\ committed' = 0 /\ pos' = 0 /\ gen' = Current /\ gen' # 0
             /\ Len(files[Current]) \in Nat
  BY <1>0, <1>2 DEF OpenAt, Current
<1>3. CASE CreateFile
  BY <1>0, <1>3 DEF CreateFile
<1>4. ASSUME NEW json \in BOOLEAN, WriteLine(json) PROVE Goal
  BY <1>0, <1>4 DEF WriteLine
<1>5. CASE Rotate
  BY <1>0, <1>5, MishapCounted DEF Rotate
<1>6. CASE Start
  BY <1>0, <1>6 DEF Start
<1>7. CASE WaitForFile
  BY <1>0, <1>7 DEF WaitForFile
<1>9. CASE Send
  <2>1. line \in Lines' /\ line' = NoLine /\ Len(chan) < Capacity /\ chan' = Append(chan, line)
    BY <1>0, <1>9 DEF Send, NoLine
  <2>2. Append(chan, line) \in Seq(Lines') /\ Len(Append(chan, line)) <= Capacity
    BY <1>0, <2>1, CapacityAssumption
  <2>3. /\ tpc \in Sending /\ tpc' \in {"run", "drain"}
        /\ UNCHANGED <<disk, run, gen, pos, appeared, pending, committed, cpc, hand, stopping,
                       base, mishaps>>
    BY <1>9 DEF Send
  <2> QED BY <1>0, <2>1, <2>2, <2>3
<1>10. CASE NoticeStop
  BY <1>0, <1>10 DEF NoticeStop
<1>11. CASE Reopen
  <2>1. /\ tpc \in {"run", "drain"} /\ OpenAt(0)
        /\ UNCHANGED <<disk, run, tpc, appeared, chan, line, cpc, hand, stopping, base, mishaps>>
    BY <1>11 DEF Reopen
  <2>2. /\ pending' = <<>> /\ committed' = 0 /\ pos' = 0 /\ gen' = Current /\ gen' # 0
        /\ Len(files[Current]) \in Nat
    BY <1>2, <2>1
  <2>3. Len(files'[gen']) \in Nat /\ gen' \in 0 .. Current'
    BY <1>0, <2>1, <2>2
  <2> QED BY <1>0, <1>1, <2>1, <2>2, <2>3
<1>12. CASE ReadError
  <2>1. /\ tpc \in {"run", "drain"} /\ OpenAt(0)
        /\ UNCHANGED <<disk, run, tpc, appeared, chan, line, cpc, hand, stopping, base>>
        /\ mishaps' \in [MishapKinds -> Nat]
    BY <1>12, MishapCounted DEF ReadError
  <2>2. /\ pending' = <<>> /\ committed' = 0 /\ pos' = 0 /\ gen' = Current /\ gen' # 0
        /\ Len(files[Current]) \in Nat
    BY <1>2, <2>1
  <2>3. Len(files'[gen']) \in Nat /\ gen' \in 0 .. Current'
    BY <1>0, <2>1, <2>2
  <2> QED BY <1>0, <1>1, <2>1, <2>2, <2>3
<1>13. CASE TailerExits
  BY <1>0, <1>13 DEF TailerExits
<1>14. CASE Receive
  <2>1. chan # <<>> /\ hand' = Head(chan) /\ chan' = Tail(chan) /\ cpc' = "have"
    BY <1>14 DEF Receive
  <2>2. Head(chan) \in Lines' /\ Tail(chan) \in Seq(Lines') /\ Len(Tail(chan)) <= Capacity
    BY <1>0, <2>1, CapacityAssumption
  <2>3. UNCHANGED <<disk, run, tpc, gen, pos, appeared, pending, committed, line, stopping,
                    base, mishaps>>
    BY <1>14 DEF Receive
  <2> QED BY <1>0, <2>1, <2>2, <2>3
<1>15. CASE StoreEvent
  BY <1>0, <1>15 DEF StoreEvent
<1>16. CASE StoreEventFails
  BY <1>0, <1>16, MishapCounted DEF StoreEventFails
<1>17. CASE RequestStop
  BY <1>0, <1>17, MishapCounted DEF RequestStop
<1>18. CASE Crash
  <2>1. ProcessGone /\ UNCHANGED <<disk, base>> /\ mishaps' \in [MishapKinds -> Nat]
    BY <1>18, MishapCounted DEF Crash
  <2>2. ProcessGone /\ saved' \subseteq Position /\ base' \subseteq Position /\ stored' = stored
    BY <2>1
  <2>3. /\ run' \in Seq(Lines') /\ chan' \in Seq(Lines') /\ pending' \in Seq(Entry)
        /\ Len(chan') <= Capacity /\ Len(pending') = 0 /\ gen' = 0 /\ pos' = 0 /\ committed' = 0
        /\ line' = NoLine /\ hand' = NoLine /\ tpc' = "down" /\ cpc' = "down"
        /\ appeared' = FALSE /\ stopping' = FALSE
    BY <1>1, <2>1, CapacityAssumption DEF ProcessGone
  <2>6. TypeOK'
    BY <1>0, <2>1, <2>2, <2>3
  <2>7. PendingInv'
    BY <1>0, <2>1, <2>2, <2>3
  <2>8. TailerType'
    BY <1>0, <2>1, <2>2, <2>3, <2>6
  <2> QED BY <2>7, <2>8
<1>19. CASE UNCHANGED vars
  BY <1>0, <1>19 DEF vars
<1>20. CASE StopCompletes
  <2>1. /\ ProcessGone /\ UNCHANGED <<files, stored, base, mishaps>>
        /\ saved' = {[gen |-> gen, off |-> committed]}
    BY <1>20 DEF StopCompletes, Save
  <2>2. \A st \in saved' : st \in Position /\ st.gen = gen /\ st.off = committed
    BY <1>0, <2>1 DEF Position
  <2>3. gen # 0 => committed <= Len(files[gen])
    <3>1. gen # 0 => gen \in 1 .. Len(files)
      BY DEF Current
    <3>2. gen # 0 => Len(files[gen]) \in Nat
      BY <3>1
    <3> QED BY <3>2
  <2>4. \A st \in saved' : st.gen \in 0 .. Current' /\ (st.gen # 0 => st.off <= Len(files'[st.gen]))
    BY <1>0, <2>1, <2>2, <2>3
  <2>5. /\ run' \in Seq(Lines') /\ chan' \in Seq(Lines') /\ pending' \in Seq(Entry)
        /\ Len(chan') <= Capacity /\ Len(pending') = 0 /\ gen' = 0 /\ pos' = 0 /\ committed' = 0
        /\ line' = NoLine /\ hand' = NoLine /\ tpc' = "down" /\ cpc' = "down"
        /\ appeared' = FALSE /\ stopping' = FALSE
    BY <1>1, <2>1, CapacityAssumption DEF ProcessGone
  <2>6. TypeOK'
    BY <1>0, <2>1, <2>2, <2>4, <2>5
  <2>7. PendingInv'
    BY <1>0, <2>1, <2>2, <2>4, <2>5
  <2>8. TailerType'
    BY <1>0, <2>1, <2>2, <2>4, <2>5, <2>6
  <2> QED BY <2>7, <2>8
<1>21. CASE FirstOpen
  <2>1. /\ files # <<>> /\ tpc' = "run" /\ OpenAt(FirstOffset)
        /\ base' = IF saved = {} THEN {[gen |-> Current, off |-> FirstOffset]} ELSE base
        /\ UNCHANGED <<disk, run, appeared, chan, line, cpc, hand, stopping, mishaps>>
    BY <1>21 DEF FirstOpen
  <2>2. Current \in 1 .. Len(files) /\ Len(files[Current]) \in Nat
    BY <2>1 DEF Current
  <2>3. FirstOffset \in 0 .. Len(files[Current])
    <3>1. CASE appeared \/ saved = {}
      BY <2>2, <3>1 DEF FirstOffset
    <3>2. CASE ~ appeared /\ saved # {}
      <4> DEFINE st == CHOOSE st \in saved : TRUE
      <4>1. st \in saved
        BY <3>2
      <4>2. st.off \in Nat
        BY <4>1 DEF Position
      <4>3. FirstOffset = IF st.gen = Current /\ st.off <= Len(files[Current]) THEN st.off ELSE 0
        BY <3>2 DEF FirstOffset
      <4> HIDE DEF st
      <4> QED BY <2>2, <4>2, <4>3
    <3> QED BY <3>1, <3>2
  <2>4. /\ gen' = Current /\ pos' = FirstOffset /\ pending' = <<>> /\ committed' = FirstOffset
    BY <2>1 DEF OpenAt
  <2>5. base' \subseteq Position
    BY <1>0, <2>1, <2>3, <2>2 DEF Position
  <2>6. /\ PendingInv' /\ pending' \in Seq(Entry) /\ Len(pending') <= pos'
        /\ pos' \in Nat /\ committed' \in 0 .. pos'
    BY <1>1, <2>2, <2>3, <2>4
  <2>7. TypeOK'
    BY <1>0, <2>1, <2>2, <2>4, <2>5, <2>6
  <2>8. gen' # 0 /\ pos' <= Len(files'[gen']) /\ tpc' = "run"
    BY <2>1, <2>2, <2>3, <2>4
  <2>9. TailerType'
    BY <1>0, <2>1, <2>6, <2>7, <2>8
  <2> QED BY <2>6, <2>9
<1>22. CASE ReadLine
  <2>2. /\ PendingInv' /\ pending' \in Seq(Entry)
        /\ committed' \in 0 .. pos' /\ Len(pending') <= pos'
    BY <1>22, ReadLineTakesIn
  <2>3. /\ UNCHANGED <<disk, run, gen, appeared, chan, cpc, hand, stopping, base, mishaps>>
        /\ pos' = pos + 1 /\ tpc \in {"run", "drain"}
        /\ \/ line' = <<gen, pos + 1>> /\ tpc' \in Reading
           \/ line' = NoLine /\ tpc' = tpc
    BY <1>22 DEF ReadLine
  <2>4. gen \in 1 .. Len(files) /\ pos + 1 \in 1 .. Len(files[gen])
    BY <1>22, ReadEntriesAre
  <2>5. <<gen, pos + 1>> \in Lines'
    BY <2>3, <2>4 DEF Lines, Current
  <2>6. pos' <= Len(files'[gen'])
    BY <2>3, <2>4
  <2>7. CASE line' = <<gen, pos + 1>> /\ tpc' \in Reading
    <3>1. TypeOK'
      <4>1. /\ files' \in Seq(Seq(BOOLEAN)) /\ stored' \subseteq Lines' /\ saved' \subseteq Position
            /\ base' \subseteq Position /\ run' \in Seq(Lines') /\ chan' \in Seq(Lines')
            /\ gen' \in 0 .. Current' /\ Len(chan') <= Capacity
        BY <1>0, <2>3
      <4>2. {line', hand'} \subseteq Lines' \cup {NoLine} /\ pos' \in Nat
        BY <1>0, <2>3, <2>5, <2>7
      <4> QED BY <2>2, <4>1, <4>2
    <3>2. TailerType'
      BY <1>0, <2>2, <2>3, <2>5, <2>6, <2>7, <3>1
    <3> QED BY <2>2, <3>2
  <2>8. CASE line' = NoLine /\ tpc' = tpc
    <3>1. TypeOK'
      <4>1. /\ files' \in Seq(Seq(BOOLEAN)) /\ stored' \subseteq Lines' /\ saved' \subseteq Position
            /\ base' \subseteq Position /\ run' \in Seq(Lines') /\ chan' \in Seq(Lines')
            /\ gen' \in 0 .. Current' /\ Len(chan') <= Capacity
        BY <1>0, <2>3
      <4>2. {line', hand'} \subseteq Lines' \cup {NoLine} /\ pos' \in Nat
        BY <1>0, <2>3, <2>8
      <4> QED BY <2>2, <4>1, <4>2
    <3>2. TailerType'
      BY <1>0, <2>2, <2>3, <2>6, <2>8, <3>1
    <3> QED BY <2>2, <3>2
  <2> QED BY <2>3, <2>7, <2>8
<1>23. CASE Ack
  <2>2. /\ PendingInv' /\ pending' \in Seq(Entry)
        /\ committed' \in 0 .. pos' /\ Len(pending') <= pos'
    BY <1>23, AckTakesIn
  <2>3. /\ UNCHANGED <<files, stored, run, tpc, gen, pos, appeared, chan, line, stopping, base,
                       mishaps>>
        /\ cpc' = "idle" /\ hand' = NoLine
        /\ saved' = saved \/ saved' = {[gen |-> gen, off |-> committed']}
    BY <1>23 DEF Ack, Save
  <2>4. /\ saved' \subseteq Position
        /\ \A st \in saved' : /\ st.gen \in 0 .. Current'
                              /\ st.gen # 0 => st.off <= Len(files'[st.gen])
    <3>1. CASE saved' = saved
      BY <1>0, <3>1
    <3>2. CASE saved' = {[gen |-> gen, off |-> committed']}
      <4>1. \A st \in saved' : st \in Position /\ st.gen = gen /\ st.off = committed'
        <5>1. [gen |-> gen, off |-> committed'] \in Position
          BY <1>0, <2>2, <2>3 DEF Position
        <5> QED BY <3>2, <5>1
      <4>2. gen # 0 => committed' <= Len(files'[gen])
        <5>1. gen # 0 => gen \in 1 .. Len(files)
          BY DEF Current
        <5>2. gen # 0 => Len(files[gen]) \in Nat
          BY <5>1
        <5> QED BY <2>2, <2>3, <5>2
      <4> QED BY <1>0, <4>1, <4>2
    <3> QED BY <2>3, <3>1, <3>2
  <2> QED BY <1>0, <2>2, <2>3, <2>4
<1> QED
  BY <1>3, <1>4, <1>5, <1>6, <1>7, <1>9, <1>10, <1>11, <1>12, <1>13, <1>14, <1>15, <1>16,
     <1>17,
     <1>18, <1>19, <1>20, <1>21, <1>22, <1>23 DEF Next

\* A step that leaves no read error behind met none.
LEMMA ReadErrorCounted ==
    ASSUME TailerType, [Next]_vars, mishaps'["read"] = 0
    PROVE  mishaps["read"] = 0 /\ ~ ReadError
<1>1. "read" \in MishapKinds /\ mishaps \in [MishapKinds -> Nat]
  BY DEF MishapKinds, TailerType
<1>2. CASE \E k \in MishapKinds : Mishap(k)
  <2>1. PICK k \in MishapKinds : Mishap(k)
    BY <1>2
  <2>2. mishaps'[k] > 0 /\ \A j \in MishapKinds \ {k} : mishaps'[j] = mishaps[j]
    BY <1>1, <2>1, MishapCounted
  <2>3. k # "read"
    BY <2>2
  <2>4. ~ Mishap("read")
    BY <1>1, MishapCounted
  <2> QED BY <1>1, <2>2, <2>3, <2>4 DEF ReadError
<1>3. CASE UNCHANGED mishaps /\ ~ \E k \in MishapKinds : Mishap(k)
  BY <1>1, <1>3 DEF ReadError
<1>4. UNCHANGED mishaps \/ \E k \in MishapKinds : Mishap(k)
  BY DEF Next, vars, disk, CreateFile, WriteLine, Rotate, Start, WaitForFile, FirstOpen,
     ReadLine,
     Send, NoticeStop, Reopen, ReadError, TailerExits, Receive, StoreEvent, StoreEventFails, Ack,
     RequestStop, StopCompletes, Crash, MishapKinds
<1> QED BY <1>2, <1>3, <1>4

-----------------------------------------------------------------------------
(* Order.                                                                   *)

\* A line is a pair of numbers.
LEMMA LineIsPair ==
    ASSUME files \in Seq(Seq(BOOLEAN)), NEW x \in Lines
    PROVE  x = <<x[1], x[2]>> /\ x[1] \in Nat \ {0} /\ x[2] \in Nat \ {0}
<1>1. PICK g \in 1 .. Current : \E i \in 1 .. Len(files[g]) : x = <<g, i>>
  BY LinesAre
<1>2. PICK i \in 1 .. Len(files[g]) : x = <<g, i>>
  BY <1>1
<1>3. Current \in Nat /\ Len(files[g]) \in Nat
  BY LinesAre
<1> QED BY <1>2, <1>3

\* What the reader has passed stays passed while it reads on.
LEMMA StaysPassed ==
    ASSUME NEW x, x = <<x[1], x[2]>>, x[1] \in Nat, x[2] \in Nat, gen \in Nat, pos \in Nat,
           Passed(x),
           \/ UNCHANGED <<gen, pos>> /\ (tpc' \in Sending => tpc \in Sending)
           \/ tpc \notin Sending /\ gen' = gen /\ pos' = pos + 1
           \/ gen' \in Nat /\ gen' > gen
    PROVE  Passed(x)'
BY DEF Passed, Earlier, Sending

\* Every step keeps the order, and a process that has opened no file fresh.
LEMMA OrderStep ==
    ASSUME TailerType, TailerType', FreshInv, OrderInv, [Next]_vars
    PROVE  OrderInv' /\ FreshInv'
<1> USE DEF disk, memory
<1>1. FreshInv'
  BY DEF FreshInv, TailerType, Reading, Sending, Next, vars, CreateFile, WriteLine, Rotate,
     Start,
     WaitForFile, FirstOpen, ReadLine, Send, NoticeStop, Reopen, ReadError, TailerExits, Receive,
     StoreEvent, StoreEventFails, Ack, RequestStop, StopCompletes, Crash, ProcessGone
<1> SUFFICES ASSUME mishaps'["read"] = 0 PROVE OrderBody'
  BY <1>1 DEF OrderInv
<1>2. OrderBody /\ ~ ReadError
  BY ReadErrorCounted DEF OrderInv
<1>3. /\ gen \in Nat /\ pos \in Nat /\ gen' \in Nat /\ pos' \in Nat
      /\ run \in Seq(Lines) /\ chan \in Seq(Lines) /\ Held \subseteq Lines
      /\ files \in Seq(Seq(BOOLEAN))
  BY DEF TailerType, TypeOK, Held, Current
<1>4. \A x \in Lines : x = <<x[1], x[2]>> /\ x[1] \in Nat /\ x[2] \in Nat
  BY <1>3, LineIsPair
<1>5. /\ \A i \in DOMAIN run : run[i] \in Lines
      /\ \A i \in DOMAIN chan : chan[i] \in Lines
  BY <1>3
<1>6. ASSUME \/ UNCHANGED <<gen, pos>> /\ (tpc' \in Sending => tpc \in Sending)
             \/ tpc \notin Sending /\ gen' = gen /\ pos' = pos + 1
             \/ gen' > gen
      PROVE  \A x \in Lines : Passed(x) => Passed(x)'
  BY <1>3, <1>4, <1>6, StaysPassed
<1>7. ASSUME UNCHANGED <<run, chan, cpc, hand>>, \A x \in Lines : Passed(x) => Passed(x)'
      PROVE  OrderBody'
  BY <1>2, <1>3, <1>5, <1>7 DEF OrderBody, Held
<1>8. ASSUME run' = <<>>, chan' = <<>>, cpc' \notin {"have", "ack"} PROVE OrderBody'
  BY <1>8 DEF OrderBody, Held
<1>9. CASE FirstOpen \/ Start
  BY <1>8, <1>9 DEF FirstOpen, Start, FreshInv
<1>10. CASE StopCompletes \/ Crash
  BY <1>8, <1>10 DEF StopCompletes, Crash, ProcessGone
<1>11. CASE \/ CreateFile \/ (\E json \in BOOLEAN : WriteLine(json)) \/ Rotate \/ WaitForFile
            \/ NoticeStop \/ TailerExits \/ RequestStop \/ UNCHANGED vars
  <2>1. UNCHANGED <<run, chan, cpc, hand, gen, pos>> /\ (tpc' \in Sending => tpc \in Sending)
    BY <1>11 DEF CreateFile, WriteLine, Rotate, WaitForFile, NoticeStop, TailerExits,
       RequestStop,
       vars, Sending
  <2> QED BY <1>6, <1>7, <2>1
<1>12. CASE ReadLine
  <2>1. UNCHANGED <<run, chan, cpc, hand, gen>> /\ pos' = pos + 1 /\ tpc \notin Sending
    BY <1>12 DEF ReadLine, Sending
  <2> QED BY <1>6, <1>7, <2>1
<1>13. CASE Reopen
  <2>1. UNCHANGED <<run, chan, cpc, hand>> /\ gen' = Current /\ gen # Current
    BY <1>13 DEF Reopen, OpenAt
  <2>2. gen' > gen
    BY <1>3, <2>1 DEF TailerType, TypeOK
  <2> QED BY <1>6, <1>7, <2>1, <2>2
<1>14. CASE Send
  <2>1. /\ UNCHANGED <<run, cpc, hand, gen, pos>> /\ chan' = Append(chan, line)
        /\ tpc \in Sending /\ tpc' \notin Sending /\ line = <<gen, pos>> /\ line \in Lines
    BY <1>14 DEF Send, Sending, TailerType, TypeOK, Reading, NoLine
  <2>2. \A x \in Lines : Passed(x) => Passed(x)' /\ Earlier(x, line)
    BY <1>6, <2>1 DEF Passed
  <2>3. \A x : x = line => Passed(x)'
    BY <2>1 DEF Passed
  <2>4. /\ DOMAIN chan = 1 .. Len(chan) /\ DOMAIN chan' = 1 .. Len(chan) + 1 /\ Len(chan) \in Nat
        /\ \A i \in DOMAIN chan : chan'[i] = chan[i]
        /\ chan'[Len(chan) + 1] = line
    BY <1>3, <2>1
  <2>5. ASSUME NEW j \in DOMAIN chan'
        PROVE  j \in DOMAIN chan \/ (j = Len(chan) + 1 /\ chan'[j] = line)
    BY <2>4
  <2>6. ASSUME NEW i \in DOMAIN chan', NEW j \in DOMAIN chan', i < j
        PROVE  Earlier(chan'[i], chan'[j])
    <3>1. i \in DOMAIN chan
      BY <2>4, <2>6
    <3>2. CASE j \in DOMAIN chan
      BY <1>2, <2>4, <2>6, <3>1, <3>2 DEF OrderBody
    <3>3. CASE chan'[j] = line
      BY <1>2, <1>5, <2>2, <2>4, <3>1, <3>3 DEF OrderBody
    <3> QED BY <2>5, <3>2, <3>3
  <2>7. \A i \in DOMAIN run, j \in DOMAIN chan' : Earlier(run[i], chan'[j])
    BY <1>2, <1>5, <2>2, <2>4, <2>5 DEF OrderBody
  <2>8. \A x \in Held, j \in DOMAIN chan' : Earlier(x, chan'[j])
    BY <1>2, <1>3, <2>2, <2>4, <2>5 DEF OrderBody
  <2>9. \A j \in DOMAIN chan' : \A x : x = chan'[j] => Passed(x)'
    BY <1>2, <1>5, <2>2, <2>3, <2>4, <2>5 DEF OrderBody
  <2>10. /\ \A i \in DOMAIN run : \A x : x = run[i] => Passed(x)'
         /\ \A x \in Held : Passed(x)'
    BY <1>2, <1>3, <1>5, <2>2 DEF OrderBody
  <2>11. Held' = Held
    BY <2>1 DEF Held
  <2> QED BY <1>2, <2>1, <2>6, <2>7, <2>8, <2>9, <2>10, <2>11 DEF OrderBody
<1>15. CASE Receive
  <2>1. /\ UNCHANGED <<run, gen, pos, tpc>> /\ chan # <<>> /\ hand' = Head(chan)
        /\ chan' = Tail(chan) /\ cpc' = "have" /\ cpc = "idle"
    BY <1>15 DEF Receive
  <2>2. /\ hand' = chan[1] /\ 1 \in DOMAIN chan /\ DOMAIN chan' = 1 .. Len(chan) - 1
        /\ \A i \in DOMAIN chan' : /\ i + 1 \in DOMAIN chan /\ chan'[i] = chan[i + 1]
                                   /\ i \in Nat /\ 1 < i + 1
    BY <1>3, <2>1
  <2>3. \A x \in Lines : Passed(x) => Passed(x)'
    BY <1>6, <2>1
  <2>4. Held' = {chan[1]}
    BY <2>1, <2>2 DEF Held
  <2>5. \A i, j \in DOMAIN chan' : i < j => Earlier(chan'[i], chan'[j])
    BY <1>2, <2>2 DEF OrderBody
  <2>6. /\ \A i \in DOMAIN run, j \in DOMAIN chan' : Earlier(run[i], chan'[j])
        /\ \A j \in DOMAIN chan' : Earlier(chan[1], chan'[j])
        /\ \A i \in DOMAIN run : Earlier(run[i], hand')
    BY <1>2, <2>2 DEF OrderBody
  <2>7. /\ \A i \in DOMAIN run : \A x : x = run[i] => Passed(x)'
        /\ \A j \in DOMAIN chan' : \A x : x = chan'[j] => Passed(x)'
        /\ \A x \in Held' : Passed(x)'
    BY <1>2, <1>5, <2>2, <2>3, <2>4 DEF OrderBody
  <2> QED BY <1>2, <2>1, <2>4, <2>5, <2>6, <2>7 DEF OrderBody
<1>16. CASE StoreEvent
  <2>1. /\ UNCHANGED <<chan, hand, gen, pos, tpc>> /\ run' = Append(run, hand)
        /\ cpc = "have" /\ cpc' = "ack"
    BY <1>16 DEF StoreEvent
  <2>2. Held = {hand} /\ Held' = Held /\ hand \in Lines
    BY <1>3, <2>1 DEF Held
  <2>3. /\ DOMAIN run = 1 .. Len(run) /\ DOMAIN run' = 1 .. Len(run) + 1 /\ Len(run) \in Nat
        /\ \A i \in DOMAIN run : run'[i] = run[i]
        /\ run'[Len(run) + 1] = hand
    BY <1>3, <2>1, <2>2
  <2>4. ASSUME NEW j \in DOMAIN run' PROVE j \in DOMAIN run \/ (j = Len(run) + 1 /\ run'[j] = hand)
    BY <2>3
  <2>5. ASSUME NEW i \in DOMAIN run', NEW j \in DOMAIN run', i < j PROVE Earlier(run'[i], run'[j])
    <3>1. i \in DOMAIN run
      BY <2>3, <2>5
    <3>2. CASE j \in DOMAIN run
      BY <1>2, <2>3, <2>5, <3>1, <3>2 DEF OrderBody
    <3>3. CASE run'[j] = hand
      BY <1>2, <2>1, <2>3, <3>1, <3>3 DEF OrderBody
    <3> QED BY <2>4, <3>2, <3>3
  <2>6. \A x \in Lines : Passed(x) => Passed(x)'
    BY <1>6, <2>1
  <2>7. \A i \in DOMAIN run', j \in DOMAIN chan : Earlier(run'[i], chan[j])
    BY <1>2, <2>2, <2>3, <2>4 DEF OrderBody
  <2>8. /\ \A i \in DOMAIN run' : \A x : x = run'[i] => Passed(x)'
        /\ \A j \in DOMAIN chan : \A x : x = chan[j] => Passed(x)'
        /\ \A x \in Held' : Passed(x)'
    BY <1>2, <1>3, <1>5, <2>2, <2>3, <2>4, <2>6 DEF OrderBody
  <2> QED BY <1>2, <2>1, <2>2, <2>5, <2>7, <2>8 DEF OrderBody
<1>17. CASE StoreEventFails \/ Ack
  <2>1. UNCHANGED <<run, chan, gen, pos, tpc>> /\ cpc' = "idle"
    BY <1>17 DEF StoreEventFails, Ack
  <2>2. Held' = {}
    BY <2>1 DEF Held
  <2>3. \A x \in Lines : Passed(x) => Passed(x)'
    BY <1>6, <2>1
  <2>4. /\ \A i \in DOMAIN run : \A x : x = run[i] => Passed(x)'
        /\ \A j \in DOMAIN chan : \A x : x = chan[j] => Passed(x)'
    BY <1>2, <1>5, <2>3 DEF OrderBody
  <2> QED BY <1>2, <2>1, <2>2, <2>4 DEF OrderBody
<1> QED
  BY <1>2, <1>9, <1>10, <1>11, <1>12, <1>13, <1>14, <1>15, <1>16, <1>17 DEF Next

-----------------------------------------------------------------------------
(* Acks and lines.                                                          *)

\* In a step after which nothing but kills has happened, nothing else happens.
LEMMA QuietStep ==
    ASSUME TailerType, [Next]_vars, Undisturbed'
    PROVE  /\ Undisturbed
           /\ ~ Rotate /\ ~ ReadError /\ ~ StoreEventFails /\ ~ RequestStop
<1>1. mishaps \in [MishapKinds -> Nat]
  BY DEF TailerType
<1>2. ASSUME NEW k, Mishap(k) PROVE k = "crash" /\ Undisturbed
  <2>1. /\ k \in MishapKinds /\ mishaps'[k] > 0
        /\ \A j \in MishapKinds \ {k} : mishaps'[j] = mishaps[j]
    BY <1>1, <1>2, MishapCounted
  <2>2. k = "crash"
    BY <2>1 DEF Undisturbed
  <2> QED BY <2>1, <2>2 DEF Undisturbed
<1>3. ~ Rotate /\ ~ ReadError /\ ~ StoreEventFails /\ ~ RequestStop
  <2>1. ~ Mishap("rotate") /\ ~ Mishap("read") /\ ~ Mishap("store") /\ ~ Mishap("stop")
    BY <1>2
  <2> QED BY <2>1 DEF Rotate, ReadError, StoreEventFails, RequestStop
<1>4. CASE Crash
  BY <1>2, <1>3, <1>4 DEF Crash
<1>5. CASE UNCHANGED mishaps
  BY <1>3, <1>5 DEF Undisturbed
<1>6. Crash \/ UNCHANGED mishaps
  BY <1>3 DEF Next, vars, CreateFile, WriteLine, Start, WaitForFile, FirstOpen, ReadLine,
     Send, NoticeStop, Reopen, TailerExits, Receive, StoreEvent, Ack, StopCompletes
<1> QED BY <1>3, <1>4, <1>5, <1>6

\* What is settled stays so, unless a start without a position moves base.
LEMMA SettledStays ==
    ASSUME TailerType, [Next]_vars, base' = base
    PROVE  Settled \subseteq Settled'
<1>1. stored \subseteq stored'
  BY DEF Next, vars, disk, CreateFile, WriteLine, Rotate, Start, WaitForFile, FirstOpen,
     ReadLine,
     Send, NoticeStop, Reopen, ReadError, TailerExits, Receive, StoreEvent, StoreEventFails, Ack,
     RequestStop, StopCompletes, Crash
<1>2. /\ Lines \subseteq Lines'
      /\ \A g \in 1 .. Current : \A i \in 1 .. Len(files[g]) : files'[g][i] = files[g][i]
  BY FilesGrow
<1>3. ASSUME NEW x \in Lines, ~ Counts(x[1], x[2]) PROVE ~ Counts(x[1], x[2])'
  <2>1. PICK g \in 1 .. Current : \E i \in 1 .. Len(files[g]) : x = <<g, i>>
    BY LinesAre DEF TailerType, TypeOK
  <2>2. PICK i \in 1 .. Len(files[g]) : x = <<g, i>>
    BY <2>1
  <2>3. files'[x[1]][x[2]] = files[x[1]][x[2]]
    BY <1>2, <2>1, <2>2
  <2> QED BY <1>3, <2>3 DEF Counts, Before
<1> QED BY <1>1, <1>2, <1>3 DEF Settled

\* Entries stay linked when more lines settle.
LEMMA LinkedSettles ==
    ASSUME NEW p, NEW c, NEW g, NEW F, NEW D, NEW E, D \subseteq E, Linked(p, c, g, F, D)
    PROVE  Linked(p, c, g, F, E)
BY DEF Linked

\* They stay linked when acked ones are taken off the front.
LEMMA LinkedShifts ==
    ASSUME NEW p \in Seq(Entry), NEW n \in 0 .. Len(p), NEW q \in Seq(Entry), NEW c \in Nat,
           NEW g, NEW F, NEW D,
           \A i \in 1 .. n : p[i].acked,
           Len(q) = Len(p) - n, \A i \in 1 .. Len(p) - n : q[i] = p[n + i],
           \A x \in F : x = <<x[1], x[2]>>,
           Linked(p, c, g, F, D)
    PROVE  Linked(q, c + n, g, F, D)
<1>1. Len(p) \in Nat /\ n \in Nat
  OBVIOUS
<1>2. ASSUME NEW i \in 1 .. Len(q) PROVE /\ ~ q[i].acked <=> <<g, (c + n) + i>> \in F
                                         /\ q[i].acked => <<g, (c + n) + i>> \in D
  <2>1. n + i \in 1 .. Len(p) /\ c + (n + i) = (c + n) + i /\ q[i] = p[n + i]
    BY <1>1
  <2> QED BY <2>1 DEF Linked
<1>3. ASSUME NEW i \in 1 .. c + n PROVE <<g, i>> \in D
  <2>1. CASE i \in 1 .. c
    BY <2>1 DEF Linked
  <2>2. CASE i \notin 1 .. c
    <3>1. i - c \in 1 .. n /\ i - c \in 1 .. Len(p) /\ c + (i - c) = i
      BY <1>1, <2>2
    <3> QED BY <3>1 DEF Linked
  <2> QED BY <2>1, <2>2
<1>4. ASSUME NEW x \in F PROVE x[1] = g /\ x[2] \in ((c + n) + 1) .. ((c + n) + Len(q))
  <2>1. x = <<g, x[2]>> /\ x[2] \in (c + 1) .. (c + Len(p))
    BY DEF Linked
  <2>2. x[2] - c \in 1 .. Len(p) /\ c + (x[2] - c) = x[2]
    BY <1>1, <2>1
  <2>3. ~ p[x[2] - c].acked
    BY <2>1, <2>2 DEF Linked
  <2>4. x[2] - c \notin 1 .. n
    BY <2>3
  <2> QED BY <1>1, <2>1, <2>2, <2>4
<1> QED BY <1>2, <1>3, <1>4 DEF Linked

\* What the facts about a process that reads undisturbed come to.
LEMMA QuietReader ==
    ASSUME TailerInv, Undisturbed
    PROVE  /\ LinkBody /\ OrderBody
           /\ \A x \in InFlight : x = <<x[1], x[2]>> /\ x[1] \in Nat /\ x[2] \in Nat
           /\ cpc \in {"have", "ack"} => tpc \in {"run", "send"} /\ Held = {hand} /\ hand \in Lines
           /\ tpc \in {"run", "send"} => gen = 1
           /\ committed \in Nat /\ pos \in Nat /\ pending \in Seq(Entry)
<1>1. LinkBody /\ OrderBody
  BY DEF TailerInv, LinkInv, OrderInv, Undisturbed, MishapKinds
<1>2. InFlight \subseteq Lines
  <2>1. ToSet(chan) \subseteq Lines
    BY DEF TailerInv, TailerType, TypeOK, ToSet
  <2>2. Held \subseteq Lines
    BY DEF Held, TailerInv, TailerType
  <2>3. tpc \in Sending => line \in Lines
    BY DEF TailerInv, TailerType, TypeOK, Reading, Sending, NoLine
  <2> QED BY <2>1, <2>2, <2>3 DEF InFlight
<1>3. \A x \in InFlight : x = <<x[1], x[2]>> /\ x[1] \in Nat /\ x[2] \in Nat
  BY <1>2, LineIsPair DEF TailerInv, TailerType, TypeOK
<1>4. cpc \in {"have", "ack"} => tpc \in {"run", "send"} /\ Held = {hand} /\ hand \in Lines
  BY <1>1 DEF LinkBody, TailerInv, FreshInv, TailerType, Held
<1>5. tpc \in {"run", "send"} => gen = 1
  BY <1>1 DEF LinkBody, TailerInv, TailerType, TypeOK, Reading, Sending, Current
<1>6. committed \in Nat /\ pos \in Nat /\ pending \in Seq(Entry)
  BY DEF TailerInv, TailerType, TypeOK
<1> QED BY <1>1, <1>3, <1>4, <1>5, <1>6

\* Reading a line keeps the entries linked.
LEMMA ReadLineLinks ==
    ASSUME TailerInv, Undisturbed, ReadLine, Settled \subseteq Settled'
    PROVE  Linked(pending', committed', gen', InFlight', Settled')
<1> DEFINE c == committed
           p == ReadEntries
           x == <<gen, pos + 1>>
           F == InFlight'
           D == Settled'
<1>0. /\ LinkBody /\ c \in Nat /\ pos \in Nat
      /\ \A y \in InFlight : y = <<y[1], y[2]>> /\ y[1] \in Nat /\ y[2] \in Nat
  BY QuietReader
<1>1. /\ tpc = "run" /\ Linked(pending, c, gen, InFlight, Settled)
  BY <1>0 DEF ReadLine, LinkBody
<1>2. /\ p \in Seq(Entry) /\ Len(p) = Len(pending) + 1 /\ Len(pending) \in Nat
      /\ \A i \in 1 .. Len(pending) : p[i] = pending[i]
      /\ p[Len(pending) + 1].acked = ~ files[gen][pos + 1]
      /\ gen \in 1 .. Len(files) /\ pos + 1 \in 1 .. Len(files[gen])
      /\ files[gen][pos + 1] \in BOOLEAN
  BY ReadEntriesAre DEF TailerInv, TailerType
<1>3. c + Len(pending) = pos
  BY <1>0, <1>2 DEF TailerInv, PendingInv
<1>4. /\ UNCHANGED <<files, stored, base, gen, chan, cpc, hand>>
      /\ files[gen][pos + 1] => line' = x /\ tpc' = "send"
      /\ ~ files[gen][pos + 1] => tpc' = "run"
  BY <1>1 DEF ReadLine, disk
<1>5. /\ files[gen][pos + 1] => F = InFlight \cup {x}
      /\ ~ files[gen][pos + 1] => F = InFlight
  BY <1>1, <1>4 DEF InFlight, Held, Sending
<1>6. x \notin InFlight
  <2>1. \A y \in InFlight : y[2] <= pos
    BY <1>0, <1>1, <1>3 DEF Linked
  <2> QED BY <1>0, <2>1
<1>7. ~ files[gen][pos + 1] => x \in D
  BY <1>2, <1>4 DEF Settled, Lines, Current, Counts
<1>8. Linked(p, c, gen, F, D)
  <2> HIDE DEF c, p, F, D
  <2>1. ASSUME NEW i \in 1 .. Len(p) PROVE /\ ~ p[i].acked <=> <<gen, c + i>> \in F
                                           /\ p[i].acked => <<gen, c + i>> \in D
    <3>1. CASE i \in 1 .. Len(pending)
      <4>1. p[i] = pending[i] /\ <<gen, c + i>> # x
        BY <1>0, <1>2, <1>3, <3>1
      <4>2. <<gen, c + i>> \in F <=> <<gen, c + i>> \in InFlight
        BY <1>2, <1>5, <4>1
      <4> QED BY <1>1, <3>1, <4>1, <4>2 DEF Linked, D
    <3>2. CASE i = Len(pending) + 1
      <4>1. <<gen, c + i>> = x
        BY <1>0, <1>2, <1>3, <3>2
      <4> QED BY <1>2, <1>5, <1>6, <1>7, <3>2, <4>1
    <3> QED BY <1>2, <3>1, <3>2
  <2>2. \A i \in 1 .. c : <<gen, i>> \in D
    BY <1>1 DEF Linked, D
  <2>3. ASSUME NEW y \in F PROVE y[1] = gen /\ y[2] \in (c + 1) .. (c + Len(p))
    <3>1. CASE y \in InFlight
      BY <1>0, <1>1, <1>2, <3>1 DEF Linked
    <3>2. CASE y = x
      BY <1>0, <1>2, <1>3, <3>2
    <3> QED BY <1>2, <1>5, <3>1, <3>2
  <2> QED BY <2>1, <2>2, <2>3 DEF Linked
<1>9. PICK n \in 0 .. Len(p) : TakenIn(p, n)
  BY ReadLineTakesIn DEF TailerInv
<1>10. \A y \in F : y = <<y[1], y[2]>>
  BY <1>0, <1>2, <1>5
<1> HIDE DEF c, p, F, D, x
<1>11. Linked(pending', c + n, gen, F, D)
  BY <1>0, <1>2, <1>8, <1>9, <1>10, LinkedShifts DEF TakenIn
<1> QED BY <1>4, <1>9, <1>11 DEF TakenIn, c, F, D

\* The Ack of an event is counted for the line of that event, and keeps the entries linked.
LEMMA AckLinks ==
    ASSUME TailerInv, Undisturbed, Ack, Settled \subseteq Settled'
    PROVE  Linked(pending', committed', gen', InFlight', Settled')
<1> DEFINE c == committed
           p == AckEntries
           F == InFlight'
           D == Settled'
           k == hand[2] - committed
<1>0. /\ LinkBody /\ OrderBody /\ c \in Nat /\ pos \in Nat /\ pending \in Seq(Entry)
      /\ \A y \in InFlight : y = <<y[1], y[2]>> /\ y[1] \in Nat /\ y[2] \in Nat
      /\ cpc = "ack" /\ tpc \in {"run", "send"} /\ Held = {hand} /\ hand \in Lines
  BY QuietReader DEF Ack
<1>1. Linked(pending, c, gen, InFlight, Settled) /\ hand \in stored
  BY <1>0 DEF LinkBody
<1>2. UNCHANGED <<chan, line, tpc, gen>> /\ cpc' = "idle"
  BY DEF Ack
<1>3. InFlight = F \cup {hand} /\ hand \in InFlight
  BY <1>0, <1>2 DEF InFlight, Held
<1>4. ASSUME NEW y \in F PROVE Earlier(hand, y)
  <2>1. CASE y \in ToSet(chan)
    BY <1>0, <2>1 DEF OrderBody, ToSet
  <2>2. CASE tpc \in Sending /\ y = line
    <3>1. line = <<gen, pos>>
      BY <2>2 DEF TailerInv, TailerType
    <3>2. Passed(hand)
      BY <1>0 DEF OrderBody
    <3> QED BY <2>2, <3>1, <3>2 DEF Passed
  <2> QED BY <1>2, <2>1, <2>2 DEF InFlight, Held
<1>5. hand = <<gen, c + k>> /\ k \in 1 .. Len(pending) /\ Len(pending) \in Nat
  <2>1. hand[1] = gen /\ hand[2] \in (c + 1) .. (c + Len(pending)) /\ hand = <<hand[1], hand[2]>>
    BY <1>0, <1>1, <1>3 DEF Linked
  <2>2. Len(pending) \in Nat
    BY <1>0
  <2> QED BY <1>0, <2>1, <2>2
<1> HIDE DEF c, k, F, D, p
<1>6. ASSUME NEW y \in F PROVE y # hand /\ y[1] = gen /\ y[2] > c + k
  <2>1. y \in InFlight /\ y[1] = gen /\ y[2] \in Nat
    BY <1>0, <1>1, <1>3 DEF Linked
  <2> QED BY <1>0, <1>4, <1>5, <2>1 DEF Earlier
<1>7. k \in Open /\ \A j \in Open : k <= j
  <2>1. k \in Open
    BY <1>0, <1>1, <1>3, <1>5 DEF Linked, Open
  <2>2. ASSUME NEW j \in Open PROVE k <= j
    <3>1. j \in 1 .. Len(pending) /\ <<gen, c + j>> \in InFlight
      BY <1>0, <1>1 DEF Open, Linked
    <3>2. CASE <<gen, c + j>> = hand
      BY <1>0, <1>5, <3>1, <3>2
    <3>3. CASE <<gen, c + j>> \in F
      BY <1>0, <1>5, <1>6, <3>1, <3>3
    <3> QED BY <1>3, <3>1, <3>2, <3>3
  <2> QED BY <2>1, <2>2
<1>8. /\ p \in Seq(Entry) /\ Len(p) = Len(pending)
      /\ \A i \in 1 .. Len(pending) : p[i].acked <=> (pending[i].acked \/ i = k)
  <2>1. /\ p \in Seq(Entry) /\ Len(p) = Len(pending)
        /\ \/ Open = {}
           \/ \E m \in Open : /\ \A j \in Open : m <= j
                              /\ \A i \in 1 .. Len(pending) :
                                    p[i].acked <=> (pending[i].acked \/ i = m)
    BY AckEntriesAre DEF TailerInv, p
  <2>2. \A m \in Open : m \in Nat
    BY <1>0 DEF Open
  <2>3. \A m \in Open : (\A j \in Open : m <= j) => m = k
    BY <1>5, <1>7, <2>2
  <2> QED BY <1>7, <2>1, <2>3
<1>9. hand \in D
  BY <1>0, <1>1 DEF Settled, D
<1>10. Linked(p, c, gen, F, D)
  <2>1. ASSUME NEW i \in 1 .. Len(p) PROVE /\ ~ p[i].acked <=> <<gen, c + i>> \in F
                                           /\ p[i].acked => <<gen, c + i>> \in D
    <3>1. CASE i = k
      BY <1>5, <1>6, <1>8, <1>9, <3>1
    <3>2. CASE i # k
      <4>1. p[i].acked <=> pending[i].acked
        BY <1>8, <3>2
      <4>2. <<gen, c + i>> \in F <=> <<gen, c + i>> \in InFlight
        BY <1>0, <1>3, <1>5, <1>8, <3>2
      <4> QED BY <1>1, <1>8, <4>1, <4>2 DEF Linked, D
    <3> QED BY <3>1, <3>2
  <2>2. \A i \in 1 .. c : <<gen, i>> \in D
    BY <1>1 DEF Linked, D
  <2>3. \A y \in F : y[1] = gen /\ y[2] \in (c + 1) .. (c + Len(p))
    BY <1>1, <1>3, <1>8 DEF Linked
  <2> QED BY <2>1, <2>2, <2>3 DEF Linked
<1>11. PICK n \in 0 .. Len(p) : TakenIn(p, n)
  BY AckTakesIn DEF TailerInv, p
<1>12. \A y \in F : y = <<y[1], y[2]>>
  BY <1>0, <1>3
<1>13. Linked(pending', c + n, gen, F, D)
  BY <1>0, <1>8, <1>10, <1>11, <1>12, LinkedShifts DEF TakenIn
<1> QED BY <1>2, <1>11, <1>13 DEF TakenIn, c, F, D

\* A queue holds its head and its tail.
LEMMA HeadAndTail ==
    ASSUME NEW S, NEW q \in Seq(S), q # <<>>
    PROVE  ToSet(q) = ToSet(Tail(q)) \cup {Head(q)}
<1>1. /\ Head(q) = q[1] /\ Len(q) \in Nat \ {0} /\ DOMAIN q = 1 .. Len(q)
      /\ DOMAIN Tail(q) = 1 .. Len(q) - 1 /\ \A i \in 1 .. Len(q) - 1 : Tail(q)[i] = q[i + 1]
  OBVIOUS
<1>2. ASSUME NEW x \in ToSet(q) PROVE x \in ToSet(Tail(q)) \cup {Head(q)}
  <2>1. PICK i \in 1 .. Len(q) : x = q[i]
    BY <1>1 DEF ToSet
  <2>2. CASE i # 1
    <3>1. i - 1 \in 1 .. Len(q) - 1 /\ (i - 1) + 1 = i
      BY <1>1, <2>2
    <3>2. Tail(q)[i - 1] = x
      BY <1>1, <2>1, <3>1
    <3> QED BY <1>1, <3>1, <3>2 DEF ToSet
  <2> QED BY <1>1, <2>1, <2>2
<1>3. ASSUME NEW x \in ToSet(Tail(q)) PROVE x \in ToSet(q)
  <2>1. PICK i \in 1 .. Len(q) - 1 : x = q[i + 1]
    BY <1>1 DEF ToSet
  <2> QED BY <1>1, <2>1 DEF ToSet
<1>4. Head(q) \in ToSet(q)
  BY <1>1 DEF ToSet
<1> QED BY <1>2, <1>3, <1>4

\* Every step keeps acks and lines linked, as long as nothing but kills happens.
LEMMA LinkStep ==
    ASSUME TailerInv, TailerType', FreshInv', [Next]_vars
    PROVE  LinkInv'
<1> SUFFICES ASSUME Undisturbed' PROVE LinkBody'
  BY DEF LinkInv
<1> USE DEF disk, memory
<1>0. /\ Undisturbed /\ TailerType
      /\ ~ Rotate /\ ~ ReadError /\ ~ StoreEventFails /\ ~ RequestStop
  BY QuietStep DEF TailerInv
<1>1. /\ LinkBody /\ committed \in Nat /\ pos \in Nat /\ pending \in Seq(Entry)
      /\ cpc \in {"have", "ack"} => tpc \in {"run", "send"} /\ Held = {hand} /\ hand \in Lines
      /\ tpc \in {"run", "send"} => gen = 1
      /\ tpc \in {"down", "wait"} => chan = <<>> /\ cpc \in {"down", "idle"}
  BY <1>0, QuietReader DEF TailerInv, FreshInv
<1>2. /\ base' = base => Settled \subseteq Settled'
      /\ base' # base => FirstOpen /\ saved = {}
  <2>1. base' # base => FirstOpen /\ saved = {}
    BY DEF Next, vars, CreateFile, WriteLine, Rotate, Start, WaitForFile, FirstOpen,
       ReadLine,
       Send, NoticeStop, Reopen, ReadError, TailerExits, Receive, StoreEvent, StoreEventFails, Ack,
       RequestStop, StopCompletes, Crash
  <2> QED BY <1>0, <2>1, SettledStays
<1>3. files \in Seq(Seq(BOOLEAN)) /\ Len(files') <= 1
  <2>1. files \in Seq(Seq(BOOLEAN)) /\ Len(files) <= 1
    BY <1>0, <1>1 DEF LinkBody, TailerType, TypeOK
  <2>2. CASE CreateFile
    BY <2>2 DEF CreateFile
  <2>3. ASSUME NEW json \in BOOLEAN, WriteLine(json) PROVE Len(files') <= 1
    BY <2>1, <2>3 DEF WriteLine
  <2>4. CASE UNCHANGED files
    BY <2>1, <2>4
  <2> QED
    BY <1>0, <2>1, <2>2, <2>3, <2>4 DEF Next, vars, Start, WaitForFile, FirstOpen,
       ReadLine, Send,
       NoticeStop, Reopen, TailerExits, Receive, StoreEvent, Ack, StopCompletes, Crash
<1>4. ASSUME saved' = saved, base' = base
      PROVE  \A st \in saved' : st.gen = 1 /\ \A i \in 1 .. st.off : <<st.gen, i>> \in Settled'
  BY <1>1, <1>2, <1>4 DEF LinkBody
<1>5. CASE \/ CreateFile \/ (\E json \in BOOLEAN : WriteLine(json)) \/ WaitForFile
           \/ UNCHANGED vars
  <2>1. /\ UNCHANGED <<saved, stored, base, tpc, gen, pending, committed, chan, line, cpc, hand,
                       stopping>>
    BY <1>5 DEF CreateFile, WriteLine, WaitForFile, vars
  <2>2. InFlight' = InFlight
    BY <2>1 DEF InFlight, Held
  <2>3. tpc \in {"run", "send"} => Linked(pending, committed, gen, InFlight, Settled')
    BY <1>1, <1>2, <2>1, LinkedSettles DEF LinkBody
  <2> QED BY <1>1, <1>3, <1>4, <2>1, <2>2, <2>3 DEF LinkBody
<1>6. CASE Start
  BY <1>1, <1>3, <1>4, <1>6 DEF Start, LinkBody
<1>7. CASE FirstOpen
  <2>1. /\ tpc = "wait" /\ files # <<>> /\ tpc' = "run" /\ gen' = Current /\ pos' = FirstOffset
        /\ pending' = <<>> /\ committed' = FirstOffset
        /\ base' = IF saved = {} THEN {[gen |-> Current, off |-> FirstOffset]} ELSE base
        /\ UNCHANGED <<files, saved, stored, chan, line, cpc, hand, stopping>>
    BY <1>7 DEF FirstOpen, OpenAt
  <2>2. Current = 1 /\ FirstOffset \in Nat /\ FirstOffset <= Len(files[1]) /\ Len(files[1]) \in Nat
    <3>1. Current = 1 /\ Len(files[1]) \in Nat
      BY <1>3, <2>1 DEF Current
    <3>2. committed' \in Nat /\ committed' <= pos' /\ pos' <= Len(files'[gen'])
      BY <2>1, <3>1 DEF TailerType, TypeOK
    <3> QED BY <2>1, <3>1, <3>2
  <2>3. InFlight' = {}
    BY <1>1, <2>1 DEF InFlight, Held, Sending, ToSet
  <2>4. ASSUME NEW i \in 1 .. FirstOffset PROVE <<1, i>> \in Settled'
    <3>1. <<1, i>> \in Lines'
      BY <2>1, <2>2 DEF Lines, Current
    <3>2. CASE saved = {}
      <4>1. base' = {[gen |-> 1, off |-> FirstOffset]}
        BY <2>1, <2>2, <3>2
      <4>2. Before(base', 1, i)
        BY <4>1 DEF Before
      <4> QED BY <3>1, <4>2 DEF Settled, Counts
    <3>3. CASE saved # {}
      <4> DEFINE st == CHOOSE st \in saved : TRUE
      <4>1. st \in saved /\ ~ appeared /\ FirstOffset = st.off
        BY <3>3 DEF FirstOffset
      <4>2. st.gen = 1 /\ <<st.gen, i>> \in Settled
        BY <1>1, <4>1 DEF LinkBody
      <4> QED BY <1>2, <2>1, <3>3, <4>2
    <3> QED BY <3>2, <3>3
  <2>5. Linked(pending', committed', gen', InFlight', Settled')
    BY <2>1, <2>2, <2>3, <2>4 DEF Linked
  <2>6. \A st \in saved' : st.gen = 1 /\ \A i \in 1 .. st.off : <<st.gen, i>> \in Settled'
    BY <1>4, <2>1
  <2> QED BY <1>1, <1>3, <2>1, <2>5, <2>6 DEF LinkBody
<1>8. CASE ReadLine
  <2>1. /\ tpc = "run" /\ tpc' \in {"run", "send"}
        /\ UNCHANGED <<saved, stored, base, stopping, cpc, hand>>
    BY <1>1, <1>8 DEF ReadLine, LinkBody
  <2>2. Linked(pending', committed', gen', InFlight', Settled')
    BY <1>0, <1>2, <1>8, <2>1, ReadLineLinks
  <2> QED BY <1>1, <1>3, <1>4, <2>1, <2>2 DEF LinkBody
<1>9. CASE Ack
  <2>1. /\ UNCHANGED <<stored, base, stopping, tpc, gen>> /\ cpc = "ack" /\ cpc' = "idle"
        /\ saved' = saved \/ saved' = {[gen |-> gen, off |-> committed']}
    BY <1>9 DEF Ack, Save
  <2>2. Linked(pending', committed', gen', InFlight', Settled')
    BY <1>0, <1>2, <1>9, <2>1, AckLinks
  <2>3. \A st \in saved' : st.gen = 1 /\ \A i \in 1 .. st.off : <<st.gen, i>> \in Settled'
    <3>1. CASE saved' = {[gen |-> gen, off |-> committed']}
      <4>1. \A st \in saved' : st.gen = gen /\ st.off = committed' /\ gen = 1 /\ gen' = 1
        BY <1>1, <2>1, <3>1
      <4> QED BY <2>2, <4>1 DEF Linked
    <3> QED BY <1>4, <2>1, <3>1
  <2> QED BY <1>1, <1>3, <2>1, <2>2, <2>3 DEF LinkBody
<1>10. CASE Send \/ Receive \/ StoreEvent
  <2>1. /\ UNCHANGED <<saved, base, gen, pending, committed, stopping>>
        /\ tpc' \in {"down", "wait", "run", "send"} /\ tpc \in {"run", "send"}
        /\ cpc' = "ack" => hand' \in stored'
    BY <1>1, <1>10 DEF Send, Receive, StoreEvent, LinkBody
  <2>2. InFlight' = InFlight
    <3>1. CASE Send
      <4>1. /\ chan' = Append(chan, line) /\ UNCHANGED <<cpc, hand>>
            /\ tpc \in Sending /\ tpc' \notin Sending
        BY <3>1 DEF Send, Sending
      <4>2. chan \in Seq(Lines) /\ line \in Lines
        BY <1>0, <4>1 DEF TailerType, TypeOK, Reading, Sending, NoLine
      <4>3. ToSet(chan') = ToSet(chan) \cup {line}
        BY <4>1, <4>2 DEF ToSet
      <4> QED BY <4>1, <4>3 DEF InFlight, Held
    <3>2. CASE Receive
      <4>1. /\ chan # <<>> /\ chan' = Tail(chan) /\ hand' = Head(chan) /\ UNCHANGED <<tpc, line>>
            /\ cpc = "idle" /\ cpc' = "have"
        BY <3>2 DEF Receive
      <4>2. chan \in Seq(Lines)
        BY <1>0 DEF TailerType, TypeOK
      <4>3. ToSet(chan) = ToSet(chan') \cup {hand'}
        BY <4>1, <4>2, HeadAndTail
      <4> QED BY <4>1, <4>3 DEF InFlight, Held
    <3>3. CASE StoreEvent
      BY <3>3 DEF StoreEvent, InFlight, Held
    <3> QED BY <1>10, <3>1, <3>2, <3>3
  <2>3. Linked(pending, committed, gen, InFlight, Settled')
    BY <1>1, <1>2, <2>1, LinkedSettles DEF LinkBody
  <2> QED BY <1>1, <1>3, <1>4, <2>1, <2>2, <2>3 DEF LinkBody
<1>11. CASE Crash
  BY <1>1, <1>3, <1>4, <1>11 DEF Crash, ProcessGone, LinkBody
<1>12. ~ NoticeStop /\ ~ TailerExits /\ ~ StopCompletes /\ ~ Reopen
  <2>1. ~ NoticeStop /\ ~ TailerExits /\ ~ StopCompletes
    BY <1>1 DEF LinkBody, NoticeStop, TailerExits, StopCompletes
  <2>2. tpc \in {"run", "drain"} => gen = Current
    BY <1>0, <1>1, <1>3 DEF LinkBody, TailerType, TypeOK, Current
  <2> QED BY <2>1, <2>2 DEF Reopen
<1> QED
  BY <1>0, <1>5, <1>6, <1>7, <1>8, <1>9, <1>10, <1>11, <1>12 DEF Next

-----------------------------------------------------------------------------
(* The theorems.                                                            *)

\* TailerInv holds throughout.
LEMMA TailerInvariant == Spec => []TailerInv
<1>1. Init => TailerInv
  BY TailerInit
<1>2. TailerInv /\ [Next]_vars => TailerInv'
  <2> SUFFICES ASSUME TailerInv, [Next]_vars PROVE TailerInv'
    OBVIOUS
  <2>1. TailerType' /\ PendingInv'
    BY TailerTypeStep DEF TailerInv
  <2>2. OrderInv' /\ FreshInv'
    BY <2>1, OrderStep DEF TailerInv
  <2>3. LinkInv'
    BY <2>1, <2>2, LinkStep
  <2> QED BY <2>1, <2>2, <2>3 DEF TailerInv
<1> QED BY <1>1, <1>2, PTL DEF Spec

\* Every variable of the feed keeps its type: no position leaves its file, the channel
\* keeps its capacity and committed never passes the reader.
THEOREM TailerKeepsTypes == Spec => []TypeOK
<1>1. TailerInv => TypeOK
  BY DEF TailerInv, TailerType
<1> QED BY <1>1, TailerInvariant, PTL

\* Whatever the channel's capacity and the number of kills, every line behind the saved
\* position is in the witness log: an Ack, which carries no identity, is always counted
\* for the line that was stored.
THEOREM SavedAlwaysStored == Spec => []SavedIsStored
<1>1. TailerInv => SavedIsStored
  <2> SUFFICES ASSUME TailerInv, Undisturbed,
                      NEW st \in saved, NEW i \in 1 .. st.off, Counts(st.gen, i)
               PROVE  <<st.gen, i>> \in stored
    BY DEF SavedIsStored, SavedOnlyPastStored
  <2>1. <<st.gen, i>> \in Settled
    BY QuietReader DEF LinkBody
  <2> QED BY <2>1 DEF Settled
<1> QED BY <1>1, TailerInvariant, PTL

\* Whatever the number of kills and restarts, every line behind the reader is in the
\* witness log or on its way there.
THEOREM NeverAGap == Spec => []NoGap
<1>1. TailerInv => NoGap
  <2> SUFFICES ASSUME TailerInv, Undisturbed, tpc \in {"run", "send"},
                      NEW i \in 1 .. pos, Counts(gen, i)
               PROVE  <<gen, i>> \in stored \cup ToSet(chan) \cup {line, hand}
    BY DEF NoGap
  <2>1. /\ Linked(pending, committed, gen, InFlight, Settled)
        /\ committed \in Nat /\ pos \in Nat /\ pending \in Seq(Entry)
    BY QuietReader DEF LinkBody
  <2>2. Len(pending) = pos - committed
    BY DEF TailerInv, PendingInv
  <2>3. <<gen, i>> \in Settled \/ <<gen, i>> \in InFlight
    <3>1. CASE i \in 1 .. committed
      BY <2>1, <3>1 DEF Linked
    <3>2. CASE i \notin 1 .. committed
      <4>1. i - committed \in 1 .. Len(pending) /\ committed + (i - committed) = i
        BY <2>1, <2>2, <3>2
      <4> QED BY <2>1, <4>1 DEF Linked
    <3> QED BY <3>1, <3>2
  <2> QED BY <2>3 DEF Settled, InFlight, Held
<1> QED BY <1>1, TailerInvariant, PTL

\* Rotations, failed appends, stops and kills in any number never make one process store
\* a line twice or before an earlier one; only a read error does.
THEOREM AlwaysStoredInOrder == Spec => []StoredInOrder
<1>1. TailerInv => StoredInOrder
  <2> SUFFICES ASSUME TailerInv, mishaps["read"] = 0, NEW j \in 1 .. Len(run) - 1
               PROVE  \/ run[j][1] < run[j + 1][1]
                      \/ run[j][1] = run[j + 1][1] /\ run[j][2] < run[j + 1][2]
    BY DEF StoredInOrder
  <2>1. run \in Seq(Lines) /\ OrderBody
    BY DEF TailerInv, TailerType, TypeOK, OrderInv
  <2>2. j \in DOMAIN run /\ j + 1 \in DOMAIN run /\ j < j + 1
    BY <2>1
  <2> QED BY <2>1, <2>2 DEF OrderBody, Earlier
<1> QED BY <1>1, TailerInvariant, PTL
=============================================================================
