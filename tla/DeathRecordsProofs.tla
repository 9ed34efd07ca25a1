------------------------- MODULE DeathRecordsProofs -------------------------
(***************************************************************************)
(* Theorems about DeathRecords, for every length of the tails and every    *)
(* number of starts, records, failures and kills.                          *)
(***************************************************************************)
EXTENDS DeathRecords, WitnessStoreProofs

-----------------------------------------------------------------------------
(* The inductive invariant, part by part.                                   *)

Digest == [status : {"complete", "incomplete", "error"}, sum : Seq(Record)]

\* A death record with its chain digest in C.
Shape(C) == [head : Seq(Record), late : BOOLEAN, n : Nat, prev : Nat, segment : BOOLEAN,
             start : Nat, tail : Digest, hash : Digest, chain : C]

\* How far a writer is when it has read the head, the length, the previous record,
\* the tail.
Firings == {"head", "stat", "linked", "tail", "hashed"}
Stated  == {"stat", "linked", "tail", "hashed"}
Linked  == {"linked", "tail", "hashed"}
Tailed  == {"tail", "hashed"}

\* The contents witness.log has had, each up to where it was cut.
Files == cuts \cup {Bytes}

\* The variables keep their types, nothing lies behind the records of a log without junk,
\* and a daemon fires only once it has closed the store.
DeathType ==
    /\ TypeInv /\ StoreInv
    /\ rest \in Seq(Record) /\ (junk = "none" => rest = <<>>)
    /\ torn \in Nat /\ starts \in Nat
    /\ alive => starts # Daemon
    /\ fpc[Daemon] # "off" => alive /\ pc = "down"
    /\ fpc \in [Writers -> {"off", "watching", "fire"} \cup Firings]
    /\ draft \in [Writers -> Shape({<<>>})]
    /\ \A w \in Writers : /\ fpc[w] \notin Firings => draft[w] = NoDraft
                          /\ fpc[w] \in Linked => draft[w].start <= draft[w].n
    /\ records \in Seq(ToSet(records))
    /\ \A k \in DOMAIN records : records[k] \in Shape({records[k].chain})
    /\ cuts \subseteq Seq(Record)

\* The cells of the log are numbered, so that no two writes leave the same cell, and
\* two contents of the log that agree in one place agree up to there.
FilesInv ==
    /\ \A f \in Files : \A i \in DOMAIN f :
           f[i].id <= (IF f[i].seq = 0 THEN torn ELSE written)
    /\ \A f, g \in Files : \A i \in DOMAIN f \cap DOMAIN g :
           f[i] = g[i] => \A j \in 1 .. i : f[j] = g[j]

\* A record extends a complete one from its length on, or starts from nothing.
Continues(r) ==
    /\ r.start <= r.n
    /\ ~ r.segment => r.start = 0
    /\ r.segment => /\ r.prev \in DOMAIN records
                    /\ r.start = records[r.prev].n
                    /\ records[r.prev].hash.status = "complete"
                    /\ records[r.prev].tail.status = "complete"

\* What a writer has captured so far is in the log in front of it.
DraftBody(w) ==
    LET d == draft[w]
    IN /\ d.late => "deadline" \in disturbed
       /\ fpc[w] \in Firings => (Intact => IsPrefix(d.head, Bytes))
       /\ fpc[w] \in Stated => d.n <= Len(Bytes) /\ (Intact => Len(d.head) <= d.n)
       /\ fpc[w] \in Linked =>
              /\ Continues(d) /\ d.prev <= Len(records)
              /\ d.segment => Content[d.prev] = SubSeq(Bytes, 1, d.start)
       /\ fpc[w] \in Tailed =>
              d.tail = HashRange(Bytes, TailStart(d.n), d.n) \/ (d.tail = Incomplete /\ d.late)
       /\ fpc[w] = "hashed" =>
              \/ ~ d.late /\ d.hash = HashRange(Bytes, d.start, d.n)
              \/ d.late /\ d.hash = Incomplete

\* Record k is true of the file f; with no frame written short its head is, too.
Vouches(k, f) ==
    LET r == records[k]
    IN /\ r.n <= Len(f)
       /\ Intact => Len(r.head) <= r.n /\ IsPrefix(r.head, f)
       /\ Content[k] = SubSeq(f, 1, r.n)
       /\ r.hash = HashRange(f, r.start, r.n)
       /\ r.tail = HashRange(f, TailStart(r.n), r.n)

\* A record that is complete is true of what the log held once.
RecordBody(k) ==
    /\ Continues(records[k]) /\ records[k].prev < k
    /\ records[k].hash.status = "complete" => \E f \in Files : Vouches(k, f)
    /\ "deadline" \notin disturbed => records[k].hash.status = "complete"

\* All of this unless a recovery came in the middle of fire.
FireInv ==
    "recovery" \notin disturbed =>
        /\ \A w \in Writers : DraftBody(w)
        /\ \A k \in DOMAIN records : RecordBody(k)

\* Writers that do not overlap link each record to the one before.
ChainInv ==
    disturbed = {} =>
        /\ \A v, w \in Writers : fpc[v] \in Firings /\ fpc[w] \in Firings => v = w
        /\ \A w \in Writers : fpc[w] \in Linked => draft[w].prev = Len(records)
        /\ ChainVerifies

\* The conjunction is inductive.
DeathInv == DeathType /\ FilesInv /\ FireInv /\ ChainInv

-----------------------------------------------------------------------------
(* Sequences.                                                               *)

\* Two parts that meet are one part.
LEMMA CutsMeet ==
    ASSUME NEW S, NEW f \in Seq(S), NEW s \in Nat, NEW n \in Nat, s <= n, n <= Len(f)
    PROVE  SubSeq(f, 1, s) \o SubSeq(f, s + 1, n) = SubSeq(f, 1, n)
<1> DEFINE a == SubSeq(f, 1, s)
           b == SubSeq(f, s + 1, n)
           c == SubSeq(f, 1, n)
<1>1. /\ a \in Seq(S) /\ Len(a) = s /\ \A i \in 1 .. s : a[i] = f[i]
      /\ c \in Seq(S) /\ Len(c) = n /\ \A i \in 1 .. n : c[i] = f[i]
  BY CutFacts
<1>2. b \in Seq(S) /\ Len(b) = n - s /\ \A i \in 1 .. n - s : b[i] = f[s + i]
  BY CutFacts
<1> HIDE DEF a, b, c
<1>3. /\ a \o b \in Seq(S) /\ Len(a \o b) = n
      /\ \A i \in 1 .. n : (a \o b)[i] = IF i <= s THEN a[i] ELSE b[i - s]
  BY <1>1, <1>2
<1>4. ASSUME NEW i \in 1 .. n PROVE (a \o b)[i] = c[i]
  <2>1. CASE i <= s
    <3>1. i \in 1 .. s
      BY <2>1
    <3>2. (a \o b)[i] = a[i]
      BY <1>3, <2>1
    <3>3. a[i] = f[i] /\ c[i] = f[i]
      BY <1>1, <3>1
    <3> QED BY <3>2, <3>3
  <2>2. CASE ~ (i <= s)
    <3>1. i - s \in 1 .. n - s /\ s + (i - s) = i
      BY <2>2
    <3>2. (a \o b)[i] = b[i - s]
      BY <1>3, <2>2
    <3>3. b[i - s] = f[s + (i - s)] /\ c[i] = f[i]
      BY <1>1, <1>2, <3>1
    <3> QED BY <3>1, <3>2, <3>3
  <2> QED BY <2>1, <2>2
<1>5. a \o b = c
  BY <1>1, <1>3, <1>4
<1> QED BY <1>5 DEF a, b, c

\* What lies inside a prefix is the same in the longer sequence.
LEMMA CutStays ==
    ASSUME NEW S, NEW f \in Seq(S), NEW g \in Seq(S), IsPrefix(f, g),
           NEW s \in Nat, NEW n \in Nat, s <= n, n <= Len(f)
    PROVE  n <= Len(g) /\ SubSeq(g, s + 1, n) = SubSeq(f, s + 1, n)
<1>1. Len(f) <= Len(g) /\ \A i \in 1 .. Len(f) : f[i] = g[i]
  BY PrefixElements
<1>2. n <= Len(g)
  BY <1>1
<1> DEFINE a == SubSeq(f, s + 1, n)
           b == SubSeq(g, s + 1, n)
<1>3. /\ a \in Seq(S) /\ Len(a) = n - s /\ \A i \in 1 .. n - s : a[i] = f[s + i]
      /\ b \in Seq(S) /\ Len(b) = n - s /\ \A i \in 1 .. n - s : b[i] = g[s + i]
  BY <1>2, CutFacts
<1> HIDE DEF a, b
<1>4. ASSUME NEW i \in 1 .. n - s PROVE a[i] = b[i]
  <2>1. s + i \in 1 .. Len(f)
    OBVIOUS
  <2> QED BY <1>1, <1>3, <2>1
<1>5. a = b
  <2> DEFINE m == n - s
  <2>1. m \in Nat /\ Len(a) = m /\ Len(b) = m /\ \A i \in 1 .. m : a[i] = b[i]
    BY <1>3, <1>4
  <2> HIDE DEF m
  <2> QED BY <1>3, <2>1
<1> QED BY <1>2, <1>5 DEF a, b

-----------------------------------------------------------------------------
(* Content is recursive; it is unfolded by looking at the least record for  *)
(* which it could fail.                                                     *)

IsContent(f, recs, N) ==
    f = [k \in 0 .. N |-> IF k = 0 THEN <<>>
                          ELSE IF recs[k].segment THEN f[recs[k].prev] \o recs[k].hash.sum
                          ELSE recs[k].hash.sum]

\* Records link backwards.
Backwards(recs, N) == \A k \in 1 .. N : recs[k].segment => recs[k].prev \in 0 .. k - 1

\* There is such a function for every number of records.
LEMMA ContentExists ==
    ASSUME NEW recs, NEW N \in Nat, Backwards(recs, N)
    PROVE  \E f : IsContent(f, recs, N)
<1> DEFINE T == {M \in 0 .. N : ~ \E f : IsContent(f, recs, M)}
<1> SUFFICES ASSUME T # {} PROVE FALSE
  OBVIOUS
<1>0. T \subseteq Nat
  OBVIOUS
<1>1. PICK M \in T : \A k \in T : M <= k
  BY <1>0, LeastNumber
<1>2. CASE M = 0
  <2> DEFINE f == [k \in 0 .. 0 |-> <<>>]
  <2>1. IsContent(f, recs, 0)
    BY DEF IsContent
  <2> QED BY <1>1, <1>2, <2>1
<1>3. CASE M # 0
  <2>1. M - 1 \in 0 .. N /\ ~ (M <= M - 1) /\ M \in Nat
    BY <1>1, <1>3
  <2>2. PICK f : IsContent(f, recs, M - 1)
    BY <1>1, <2>1
  <2> DEFINE last == IF recs[M].segment THEN f[recs[M].prev] \o recs[M].hash.sum
                     ELSE recs[M].hash.sum
             g == [k \in 0 .. M |-> IF k = M THEN last ELSE f[k]]
  <2> HIDE DEF last
  <2>3. /\ \A k \in 0 .. M - 1 : g[k] = f[k]
        /\ g[M] = last
    BY <2>1
  <2> USE DEF last
  <2>4. \A k \in 0 .. M - 1 :
            f[k] = IF k = 0 THEN <<>>
                   ELSE IF recs[k].segment THEN f[recs[k].prev] \o recs[k].hash.sum
                   ELSE recs[k].hash.sum
    BY <2>2 DEF IsContent
  <2>5. ASSUME NEW k \in 0 .. M
        PROVE  g[k] = IF k = 0 THEN <<>>
                      ELSE IF recs[k].segment THEN g[recs[k].prev] \o recs[k].hash.sum
                      ELSE recs[k].hash.sum
    <3>0. k # 0 /\ recs[k].segment => recs[k].prev \in 0 .. M - 1 /\ recs[k].prev \in 0 .. k - 1
      BY <1>1, <2>1 DEF Backwards
    <3>1. k # 0 /\ recs[k].segment => g[recs[k].prev] = f[recs[k].prev]
      BY <2>3, <3>0
    <3> HIDE DEF g
    <3>2. CASE k = M
      BY <1>3, <2>3, <3>1, <3>2
    <3>3. CASE k \in 0 .. M - 1
      <4>1. g[k] = f[k]
        BY <2>3, <3>3
      <4> QED BY <2>4, <3>1, <3>3, <4>1
    <3> QED BY <2>1, <3>2, <3>3
  <2>6. g = [k \in 0 .. M |-> g[k]]
    OBVIOUS
  <2> HIDE DEF g, last
  <2>7. IsContent(g, recs, M)
    BY <2>5, <2>6 DEF IsContent
  <2> QED BY <1>1, <2>7
<1> QED BY <1>2, <1>3

\* Content is that function.
LEMMA ContentIs ==
    ASSUME Len(records) \in Nat, Backwards(records, Len(records))
    PROVE  IsContent(Content, records, Len(records))
<1>1. \E f : IsContent(f, records, Len(records))
  BY ContentExists
<1>2. Content = CHOOSE f : IsContent(f, records, Len(records))
  BY DEF Content, IsContent
<1> QED BY <1>1, <1>2

\* A new record leaves what the others vouch for as it is.
LEMMA ContentStays ==
    ASSUME NEW S, records \in Seq(S), NEW r \in S, records' = Append(records, r),
           Backwards(records, Len(records)), Backwards(records', Len(records'))
    PROVE  /\ \A k \in 1 .. Len(records) : Content'[k] = Content[k]
           /\ Content'[Len(records) + 1] = IF r.segment THEN Content'[r.prev] \o r.hash.sum
                                           ELSE r.hash.sum
<1> DEFINE N == Len(records)
<1>1. /\ N \in Nat /\ Len(records') = N + 1 /\ records'[N + 1] = r
      /\ \A k \in 1 .. N : records'[k] = records[k]
  OBVIOUS
<1>2. IsContent(Content, records, N)
  BY <1>1, ContentIs
<1>3. IsContent(Content', records', N + 1)
  <2>1. \E f : IsContent(f, records', N + 1)
    BY <1>1, ContentExists
  <2>2. Content' = CHOOSE f : IsContent(f, records', N + 1)
    BY <1>1 DEF Content, IsContent
  <2> QED BY <2>1, <2>2
<1> HIDE DEF N
<1>4. \A k \in 0 .. N :
          Content[k] = IF k = 0 THEN <<>>
                       ELSE IF records[k].segment
                            THEN Content[records[k].prev] \o records[k].hash.sum
                            ELSE records[k].hash.sum
  BY <1>2 DEF IsContent
<1>5. \A k \in 0 .. N + 1 :
          Content'[k] = IF k = 0 THEN <<>>
                        ELSE IF records'[k].segment
                             THEN Content'[records'[k].prev] \o records'[k].hash.sum
                             ELSE records'[k].hash.sum
  BY <1>3 DEF IsContent
<1> DEFINE T == {k \in 0 .. N : Content'[k] # Content[k]}
<1>6. ASSUME T # {} PROVE FALSE
  <2>0. T \subseteq Nat
    BY <1>1
  <2>1. PICK m \in T : \A k \in T : m <= k
    BY <1>6, <2>0, LeastNumber
  <2>2. m \in 0 .. N /\ m \in 0 .. N + 1 /\ Content'[m] # Content[m]
    BY <1>1, <2>1
  <2>3. m # 0
    BY <1>4, <1>5, <2>2
  <2>4. m \in 1 .. N /\ records'[m] = records[m]
    BY <1>1, <2>2, <2>3
  <2>5. records[m].segment => Content'[records[m].prev] = Content[records[m].prev]
    <3> SUFFICES ASSUME records[m].segment
                 PROVE  Content'[records[m].prev] = Content[records[m].prev]
      OBVIOUS
    <3>1. records[m].prev \in 0 .. m - 1
      BY <2>4 DEF Backwards, N
    <3>2. records[m].prev \in 0 .. N /\ ~ (m <= records[m].prev)
      BY <1>1, <2>4, <3>1
    <3> QED BY <2>1, <3>2
  <2> QED BY <1>4, <1>5, <2>2, <2>3, <2>4, <2>5
<1>7. (\A k \in 1 .. N : k \in 0 .. N) /\ N + 1 \in 0 .. N + 1 /\ N + 1 # 0
  BY <1>1
<1>8. Content'[N + 1] = IF r.segment THEN Content'[r.prev] \o r.hash.sum ELSE r.hash.sum
  BY <1>1, <1>5, <1>7
<1> QED BY <1>6, <1>7, <1>8 DEF N

-----------------------------------------------------------------------------
(* Files.                                                                   *)

\* A hash of what lies inside a file stays right while the file grows.
LEMMA HashStays ==
    ASSUME NEW f \in Seq(Record), NEW g \in Seq(Record), IsPrefix(f, g),
           NEW s \in Nat, NEW n \in Nat, s <= n, n <= Len(f)
    PROVE  HashRange(g, s, n) = HashRange(f, s, n)
<1>1. n <= Len(g) /\ SubSeq(g, s + 1, n) = SubSeq(f, s + 1, n)
  BY CutStays
<1>2. ~ (n > Len(f)) /\ ~ (n > Len(g))
  BY <1>1
<1> QED BY <1>1, <1>2 DEF HashRange

\* The tail begins before the end.
LEMMA TailStarts ==
    ASSUME NEW n \in Nat
    PROVE  TailStart(n) \in Nat /\ TailStart(n) <= n /\ (n # 0 => TailStart(n) < n)
BY TailCellsAssumption DEF TailStart

\* The same for a front part, and for the tail.
LEMMA FrontStays ==
    ASSUME NEW f \in Seq(Record), NEW g \in Seq(Record), IsPrefix(f, g),
           NEW n \in Nat, n <= Len(f)
    PROVE  /\ n <= Len(g) /\ SubSeq(g, 1, n) = SubSeq(f, 1, n)
           /\ HashRange(g, TailStart(n), n) = HashRange(f, TailStart(n), n)
<1>1. \A s \in Nat : s <= n => /\ n <= Len(g) /\ SubSeq(g, s + 1, n) = SubSeq(f, s + 1, n)
                               /\ HashRange(g, s, n) = HashRange(f, s, n)
  BY CutStays, HashStays
<1>2. 0 \in Nat /\ 0 <= n /\ 0 + 1 = 1
  OBVIOUS
<1>3. n <= Len(g) /\ SubSeq(g, 1, n) = SubSeq(f, 1, n)
  <2>1. n <= Len(g) /\ SubSeq(g, 0 + 1, n) = SubSeq(f, 0 + 1, n)
    BY <1>1, <1>2
  <2> QED BY <1>2, <2>1
<1>4. HashRange(g, TailStart(n), n) = HashRange(f, TailStart(n), n)
  <2>1. TailStart(n) \in Nat /\ TailStart(n) <= n
    BY TailStarts
  <2> QED BY <1>1, <2>1
<1> QED BY <1>3, <1>4

\* Two contents of the log with the same tail at n are the same up to n: the tail
\* hash of hashLog decides it, however short the tail.
LEMMA SameTail ==
    ASSUME FilesInv, NEW f \in Files, NEW g \in Files, f \in Seq(Record), g \in Seq(Record),
           NEW n \in Nat, n <= Len(f), n <= Len(g),
           HashRange(f, TailStart(n), n) = HashRange(g, TailStart(n), n)
    PROVE  SubSeq(f, 1, n) = SubSeq(g, 1, n)
<1>1. CASE n = 0
  <2>1. /\ SubSeq(f, 1, n) \in Seq(Record) /\ Len(SubSeq(f, 1, n)) = 0
        /\ SubSeq(g, 1, n) \in Seq(Record) /\ Len(SubSeq(g, 1, n)) = 0
    BY <1>1
  <2> QED BY <2>1
<1>2. CASE n # 0
  <2> DEFINE s == TailStart(n)
             a == SubSeq(f, s + 1, n)
             b == SubSeq(g, s + 1, n)
  <2>1. s \in Nat /\ s <= n /\ s < n
    BY <1>2, TailStarts
  <2>2. a = b
    <3>1. ~ (n > Len(f)) /\ ~ (n > Len(g))
      OBVIOUS
    <3>2. HashRange(f, s, n).sum = a /\ HashRange(g, s, n).sum = b
      BY <3>1 DEF HashRange
    <3> QED BY <3>2
  <2> HIDE DEF s
  <2>3. /\ \A i \in 1 .. n - s : a[i] = f[s + i]
        /\ \A i \in 1 .. n - s : b[i] = g[s + i]
    BY <2>1, CutFacts
  <2>4. n - s \in 1 .. n - s /\ s + (n - s) = n
    BY <2>1
  <2> HIDE DEF a, b
  <2>5. f[n] = g[n]
    BY <2>2, <2>3, <2>4
  <2>6. n \in DOMAIN f \cap DOMAIN g
    BY <1>2
  <2>7. \A j \in 1 .. n : f[j] = g[j]
    BY <2>5, <2>6 DEF FilesInv
  <2>8. /\ SubSeq(f, 1, n) \in Seq(Record) /\ Len(SubSeq(f, 1, n)) = n
        /\ SubSeq(g, 1, n) \in Seq(Record) /\ Len(SubSeq(g, 1, n)) = n
        /\ \A j \in 1 .. n : SubSeq(f, 1, n)[j] = f[j] /\ SubSeq(g, 1, n)[j] = g[j]
    BY CutFacts
  <2> QED BY <2>7, <2>8
<1> QED BY <1>1, <1>2

\* A cell behind the rest is a cell behind the whole.
LEMMA ConcatAppend ==
    ASSUME NEW S, NEW a \in Seq(S), NEW b \in Seq(S), NEW c \in S
    PROVE  a \o Append(b, c) = Append(a \o b, c)
<1> DEFINE m == Append(b, c)
           l == a \o m
           r == Append(a \o b, c)
           n == Len(a) + Len(b)
<1>1. /\ m \in Seq(S) /\ Len(m) = Len(b) + 1 /\ m[Len(b) + 1] = c
      /\ \A i \in 1 .. Len(b) : m[i] = b[i]
      /\ a \o b \in Seq(S) /\ Len(a \o b) = n /\ n \in Nat
      /\ \A i \in 1 .. n : (a \o b)[i] = IF i <= Len(a) THEN a[i] ELSE b[i - Len(a)]
  OBVIOUS
<1> HIDE DEF m
<1>2. /\ l \in Seq(S) /\ Len(l) = n + 1
      /\ \A i \in 1 .. n + 1 : l[i] = IF i <= Len(a) THEN a[i] ELSE m[i - Len(a)]
  BY <1>1
<1>3. /\ r \in Seq(S) /\ Len(r) = n + 1 /\ r[n + 1] = c
      /\ \A i \in 1 .. n : r[i] = (a \o b)[i]
  BY <1>1
<1> HIDE DEF l, r
<1>4. ASSUME NEW i \in 1 .. n + 1 PROVE l[i] = r[i]
  <2>1. CASE i = n + 1
    <3>1. ~ (i <= Len(a)) /\ i - Len(a) = Len(b) + 1
      BY <2>1
    <3> QED BY <1>1, <1>2, <1>3, <2>1, <3>1
  <2>2. CASE i \in 1 .. n /\ i <= Len(a)
    BY <1>1, <1>2, <1>3, <2>2
  <2>3. CASE i \in 1 .. n /\ ~ (i <= Len(a))
    <3>1. i - Len(a) \in 1 .. Len(b)
      BY <2>3
    <3> QED BY <1>1, <1>2, <1>3, <2>3, <3>1
  <2> QED BY <1>1, <2>1, <2>2, <2>3
<1>5. l = r
  BY <1>1, <1>2, <1>3, <1>4
<1> QED BY <1>5 DEF l, m, r

\* The file is its records, and what lies behind them.
LEMMA BytesAre ==
    ASSUME log \in Seq(Record), rest \in Seq(Record)
    PROVE  /\ rest = <<>> => Bytes = log
           /\ Bytes \in Seq(Record) /\ IsPrefix(log, Bytes)
<1>1. Bytes \in Seq(Record) /\ (rest = <<>> => Bytes = log)
  BY DEF Bytes
<1>2. IsPrefix(log, Bytes)
  BY DEF Bytes, IsPrefix
<1> QED BY <1>1, <1>2

\* The cells of torn writes are like the others.
LEMMA CellsAre ==
    ASSUME TypeOK, torn \in Nat
    PROVE  /\ TornCell \in Record /\ TornCell.seq = 0 /\ TornCell.id = torn + 1
           /\ NewRecord \in Record /\ NewRecord.seq # 0 /\ NewRecord.id = written + 1
BY DEF TornCell, NewRecord, Record, TypeOK

-----------------------------------------------------------------------------
(* The store under the death records.                                       *)

\* A step is one of the store's, or a kill of a process that has closed the store.
LEMMA StoreSteps ==
    ASSUME TypeInv, [DeathNext]_allVars
    PROVE  \/ [Next]_vars
           \/ UNCHANGED <<disk, memory, written, faults, pc, acked>> /\ crashes' \in Nat
<1> USE DEF disk, memory, counts
<1>1. CASE StartDaemon
  <2>1. Open(NoKey) /\ NoKey \in Signers
    BY <1>1 DEF StartDaemon, Signers
  <2> QED BY <2>1 DEF Next, Open
<1>2. CASE RecoverLog
  BY <1>2 DEF RecoverLog, Next, QuarantineCopy, CopyBehind, QuarantineTruncate,
     TruncateBehind
<1>3. CASE WriteLog
  BY <1>3 DEF WriteLog, Next
<1>4. CASE StopDaemon
  BY <1>4 DEF StopDaemon, Close, Next
<1>5. CASE KillDaemon
  <2>1. CASE Crash
    BY <2>1 DEF Crash, Next
  <2>2. CASE ~ Crash
    BY <1>5, <2>2 DEF KillDaemon, TypeInv, TypeOK
  <2> QED BY <2>1, <2>2
<1>6. CASE SpawnWatchdog
  BY <1>6 DEF SpawnWatchdog, vars
<1>7. ASSUME NEW w \in Writers,
             \/ KillWatchdog(w) \/ ReadHead(w) \/ StatLog(w) \/ MissDeadline(w) \/ Link(w)
             \/ HashTail(w) \/ HashLog(w) \/ Publish(w)
      PROVE  UNCHANGED vars
  BY <1>7 DEF KillWatchdog, ReadHead, StatLog, MissDeadline, Link, HashTail, HashLog,
     Publish
<1> QED
  BY <1>1, <1>2, <1>3, <1>4, <1>5, <1>6, <1>7 DEF DeathNext, allVars

\* The store keeps its invariant, and does not forget a short write.
LEMMA StoreStays ==
    ASSUME TypeInv, StoreInv, [DeathNext]_allVars
    PROVE  TypeInv' /\ StoreInv' /\ (Intact' => Intact)
<1>1. CASE [Next]_vars
  BY <1>1, TypeInvStep, StoreInvStep, ShortWriteCounts DEF TypeInv
<1>2. CASE UNCHANGED <<disk, memory, written, faults, pc, acked>> /\ crashes' \in Nat
  <2>1. TypeInv'
    BY <1>2 DEF TypeInv, TypeOK, disk, memory
  <2>2. StoreInv' /\ (Intact' => Intact)
    BY <1>2 DEF StoreInv, StoreBody, Intact, Committed, disk, memory
  <2> QED BY <2>1, <2>2
<1> QED BY <1>1, <1>2, StoreSteps

\* The steps of the writers leave the file alone.
LEMMA WritersOnly ==
    ASSUME NEW w \in Writers,
           \/ KillWatchdog(w) \/ ReadHead(w) \/ StatLog(w) \/ MissDeadline(w) \/ Link(w)
           \/ HashTail(w) \/ HashLog(w) \/ Publish(w)
    PROVE  Bytes' = Bytes /\ UNCHANGED <<head, faults, junk, rest, written, torn, cuts>>
BY DEF KillWatchdog, ReadHead, StatLog, MissDeadline, Link, HashTail, HashLog, Publish,
   vars, disk, counts, file, Bytes

\* The file is left alone, a new cell is appended to it, or it is cut back and what it
\* held is remembered.
FileKept == Bytes' = Bytes /\ UNCHANGED <<written, torn, cuts>>

FileGrows ==
    /\ cuts' = cuts
    /\ \E c \in Record :
           /\ Bytes' = Append(Bytes, c)
           /\ IF c.seq = 0
              THEN c.id = torn + 1 /\ torn' = torn + 1 /\ written' = written
              ELSE c.id = written + 1 /\ written' = written + 1 /\ torn' = torn

FileCut ==
    /\ Bytes' \in Seq(Record) /\ IsPrefix(Bytes', Bytes)
    /\ cuts' = cuts \cup {Bytes}
    /\ UNCHANGED <<written, torn, fpc, draft, records>>
    /\ disturbed \subseteq disturbed'
    /\ \A w \in Writers : fpc[w] \in Firings => "recovery" \in disturbed'

\* Every step does one of these, and keeps the type of what lies behind the records.
LEMMA FileSteps ==
    ASSUME DeathType, [DeathNext]_allVars
    PROVE  /\ FileKept \/ FileGrows \/ FileCut
           /\ rest' \in Seq(Record) /\ (junk' = "none" => rest' = <<>>)
<1> USE DEF disk, memory, counts, file
<1>0. /\ log \in Seq(Record) /\ torn \in Nat /\ written \in Nat /\ seq \in Nat
      /\ log' \in Seq(Record) /\ head \in TreeHead /\ junk \in {"none", "partial", "frame"}
      /\ rest \in Seq(Record) /\ (junk = "none" => rest = <<>>)
  BY StoreStays DEF DeathType, TypeInv, TypeOK
<1>a. /\ TornCell \in Record /\ TornCell.seq = 0 /\ TornCell.id = torn + 1
      /\ NewRecord \in Record /\ NewRecord.seq # 0 /\ NewRecord.id = written + 1
  BY CellsAre DEF DeathType, TypeInv
<1>b. ASSUME NEW c \in Record, log' = log, rest' = Append(rest, c)
      PROVE  Bytes' = Append(Bytes, c) /\ rest' \in Seq(Record)
  BY <1>0, <1>b, ConcatAppend DEF Bytes
<1>c. CASE /\ junk' # "none" /\ log' = log /\ rest' = Append(rest, TornCell)
           /\ torn' = torn + 1 /\ written' = written /\ cuts' = cuts
  BY <1>0, <1>a, <1>b, <1>c DEF FileGrows
<1>1. CASE StartDaemon
  BY <1>0, <1>1 DEF StartDaemon, Open, Bytes, FileKept
<1>2. CASE RecoverLog
  <2>1. CASE QuarantineCopy /\ UNCHANGED <<rest, cuts, disturbed>>
    BY <1>0, <1>2, <2>1 DEF RecoverLog, QuarantineCopy, CopyBehind, Bytes, FileKept
  <2>2. CASE /\ QuarantineTruncate /\ rest' = <<>> /\ cuts' = cuts \cup {Bytes}
             /\ disturbed' = disturbed \cup {k \in {"recovery"} : \E w \in Writers : Firing(w)}
    <3> DEFINE n == Committed(head, log)
    <3>1. /\ junk' = "none" /\ log' = SubSeq(log, 1, n)
          /\ UNCHANGED <<written, torn, fpc, draft, records>>
      BY <1>2, <2>2 DEF RecoverLog, QuarantineTruncate, TruncateBehind
    <3>2. Bytes' = log' /\ rest' \in Seq(Record)
      BY <1>0, <2>2 DEF Bytes
    <3>3. n \in Nat /\ n <= Len(log)
      BY <1>0, CommittedBound
    <3> HIDE DEF n
    <3>4. IsPrefix(log', log)
      BY <1>0, <3>1, <3>3, PrefixOfCut
    <3>5. Bytes \in Seq(Record) /\ IsPrefix(log, Bytes)
      BY <1>0, BytesAre
    <3>6. IsPrefix(Bytes', Bytes)
      BY <1>0, <3>2, <3>4, <3>5, PrefixTrans
    <3>7. \A w \in Writers : fpc[w] \in Firings => "recovery" \in disturbed'
      BY <2>2 DEF Firing, Firings
    <3> QED BY <1>0, <2>2, <3>1, <3>2, <3>6, <3>7 DEF FileCut
  <2> QED BY <1>2, <2>1, <2>2 DEF RecoverLog
<1>3. CASE WriteLog
  <2>0. UNCHANGED cuts
    BY <1>3 DEF WriteLog
  <2>1. CASE /\ AppendFrame /\ UNCHANGED torn
             /\ rest' = IF junk = "none" THEN rest ELSE Append(rest, NewRecord)
    <3>1. CASE junk = "none"
      <4>1. /\ junk' = junk /\ log' = Append(log, NewRecord) /\ written' = written + 1
            /\ rest = <<>> /\ rest' = <<>>
        BY <1>0, <2>1, <3>1 DEF AppendFrame
      <4>2. Bytes = log /\ Bytes' = log'
        BY <1>0, <4>1 DEF Bytes
      <4> QED BY <1>0, <1>a, <2>0, <2>1, <4>1, <4>2 DEF FileGrows
    <3>2. CASE junk # "none"
      <4>1. /\ junk' # "none" /\ log' = log /\ written' = written + 1
            /\ rest' = Append(rest, NewRecord)
        BY <1>0, <2>1, <3>2 DEF AppendFrame, JunkAfterWrite
      <4> QED BY <1>a, <1>b, <2>0, <2>1, <4>1 DEF FileGrows
    <3> QED BY <3>1, <3>2
  <2>2. CASE ShortWrite /\ rest' = Append(rest, TornCell) /\ torn' = torn + 1
    <3>1. junk' # "none" /\ log' = log /\ written' = written
      BY <1>0, <2>2 DEF ShortWrite, Fault, JunkAfterTornWrite, JunkAfterWrite
    <3> QED BY <1>c, <2>0, <2>2, <3>1
  <2>3. CASE (WriteTreeHead \/ SealFails \/ HeadFails) /\ UNCHANGED <<rest, torn>>
    BY <1>0, <2>0, <2>3 DEF WriteTreeHead, SealFails, HeadFails, Fault, Bytes, FileKept
  <2> QED BY <1>3, <2>1, <2>2, <2>3 DEF WriteLog
<1>4. CASE StopDaemon
  BY <1>0, <1>4 DEF StopDaemon, Close, Bytes, FileKept
<1>5. CASE KillDaemon
  <2>1. log' = log /\ written' = written /\ cuts' = cuts
    BY <1>5 DEF KillDaemon, Crash
  <2>2. CASE UNCHANGED <<junk, rest, torn>>
    BY <1>0, <2>1, <2>2 DEF Bytes, FileKept
  <2>3. CASE junk' # "none" /\ rest' = Append(rest, TornCell) /\ torn' = torn + 1
    BY <1>c, <2>1, <2>3
  <2> QED BY <1>5, <2>2, <2>3 DEF KillDaemon
<1>6. CASE SpawnWatchdog
  BY <1>0, <1>6 DEF SpawnWatchdog, vars, Bytes, FileKept
<1>7. ASSUME NEW w \in Writers,
             \/ KillWatchdog(w) \/ ReadHead(w) \/ StatLog(w) \/ MissDeadline(w) \/ Link(w)
             \/ HashTail(w) \/ HashLog(w) \/ Publish(w)
      PROVE  FileKept /\ UNCHANGED <<junk, rest>>
  BY <1>7, WritersOnly DEF FileKept
<1>8. CASE UNCHANGED allVars
  BY <1>0, <1>8 DEF allVars, vars, deathVars, Bytes, FileKept
<1> QED
  BY <1>0, <1>1, <1>2, <1>3, <1>4, <1>5, <1>6, <1>7, <1>8 DEF DeathNext

\* The cells of the log stay numbered.
LEMMA FilesStep ==
    ASSUME DeathType, FilesInv, [DeathNext]_allVars
    PROVE  FilesInv'
<1> DEFINE Bound(c) == c.id <= (IF c.seq = 0 THEN torn ELSE written)
           Agree(f, g, i) == f[i] = g[i] => \A j \in 1 .. i : f[j] = g[j]
<1>0. /\ Bytes \in Seq(Record) /\ cuts \subseteq Seq(Record)
      /\ torn \in Nat /\ written \in Nat
  BY BytesAre DEF DeathType, TypeInv, TypeOK
<1>1. /\ \A f \in Files : \A i \in DOMAIN f : Bound(f[i])
      /\ \A f, g \in Files : \A i \in DOMAIN f \cap DOMAIN g : Agree(f, g, i)
  BY DEF FilesInv
<1>2. CASE FileKept
  BY <1>1, <1>2 DEF FileKept, FilesInv, Files
<1>3. CASE FileGrows
  <2>1. PICK c \in Record :
            /\ Bytes' = Append(Bytes, c)
            /\ IF c.seq = 0
              THEN c.id = torn + 1 /\ torn' = torn + 1 /\ written' = written
               ELSE c.id = written + 1 /\ written' = written + 1 /\ torn' = torn
    BY <1>3 DEF FileGrows
  <2> DEFINE n == Len(Bytes) + 1
  <2>2. /\ DOMAIN Bytes = 1 .. Len(Bytes) /\ DOMAIN Bytes' = 1 .. n /\ n \in Nat
        /\ Bytes'[n] = c /\ \A i \in 1 .. Len(Bytes) : Bytes'[i] = Bytes[i]
    BY <1>0, <2>1
  <2>3. \A f \in Files : f \in Seq(Record) /\ DOMAIN f = 1 .. Len(f) /\ Len(f) \in Nat
    BY <1>0 DEF Files
  <2>4. \A f \in Files : \A i \in DOMAIN f : f[i] \in Record /\ f[i] # c
    <3> SUFFICES ASSUME NEW f \in Files, NEW i \in DOMAIN f PROVE f[i] \in Record /\ f[i] # c
      OBVIOUS
    <3>1. f[i] \in Record
      BY <2>3
    <3>2. Bound(f[i]) /\ f[i].id \in Nat
      BY <1>1, <3>1 DEF Record
    <3> QED BY <1>0, <2>1, <3>1, <3>2
  <2>5. Files' = cuts \cup {Bytes'} /\ cuts \subseteq Files /\ Bytes \in Files
    BY <1>3 DEF FileGrows, Files
  <2>6. \A x \in Record : Bound(x) => Bound(x)'
    BY <1>0, <2>1 DEF Record
  <2>7. Bound(c)'
    BY <1>0, <2>1 DEF Record
  <2>8. ASSUME NEW f \in Files', NEW i \in DOMAIN f
        PROVE  f[i].id <= (IF f[i].seq = 0 THEN torn' ELSE written')
    <3>1. CASE f \in cuts
      BY <1>1, <2>4, <2>5, <2>6, <2>8, <3>1
    <3>2. CASE f = Bytes' /\ i = n
      BY <2>2, <2>7, <3>2
    <3>3. CASE f = Bytes' /\ i # n
      <4>1. i \in DOMAIN Bytes /\ f[i] = Bytes[i]
        BY <2>2, <2>8, <3>3
      <4>2. Bound(f[i]) /\ f[i] \in Record
        BY <1>1, <2>4, <2>5, <4>1
      <4> QED BY <2>6, <4>2
    <3> QED BY <2>5, <2>8, <3>1, <3>2, <3>3
  <2>9. ASSUME NEW f \in cuts, NEW i \in DOMAIN f \cap DOMAIN Bytes'
        PROVE  Agree(f, Bytes', i) /\ Agree(Bytes', f, i)
    <3>1. CASE i = n
      BY <2>2, <2>4, <2>5, <2>9, <3>1
    <3>2. CASE i # n
      <4>1. i \in DOMAIN f \cap DOMAIN Bytes /\ i \in Nat
        BY <2>2, <2>9, <3>2
      <4>2. Agree(f, Bytes, i)
        BY <1>1, <2>5, <4>1
      <4>3. \A j \in 1 .. i : Bytes'[j] = Bytes[j]
        BY <2>2, <4>1
      <4>4. i \in 1 .. i
        BY <2>2, <4>1
      <4> QED BY <4>2, <4>3, <4>4
    <3> QED BY <3>1, <3>2
  <2>10. ASSUME NEW f \in Files', NEW g \in Files', NEW i \in DOMAIN f \cap DOMAIN g
         PROVE  Agree(f, g, i)
    <3>1. CASE f \in cuts /\ g \in cuts
      BY <1>1, <2>5, <2>10, <3>1
    <3>2. CASE f = Bytes' /\ g = Bytes'
      BY <3>2
    <3>3. CASE f \in cuts /\ g = Bytes'
      BY <2>9, <2>10, <3>3
    <3>4. CASE f = Bytes' /\ g \in cuts
      BY <2>9, <2>10, <3>4
    <3> QED BY <2>5, <2>10, <3>1, <3>2, <3>3, <3>4
  <2> QED BY <2>8, <2>10 DEF FilesInv
<1>4. CASE FileCut
  <2>1. /\ Files' = cuts \cup {Bytes, Bytes'} /\ Files = cuts \cup {Bytes}
        /\ UNCHANGED <<written, torn>>
    BY <1>4 DEF FileCut, Files
  <2>2. /\ Bytes' \in Seq(Record) /\ Len(Bytes') <= Len(Bytes)
        /\ \A i \in 1 .. Len(Bytes') : Bytes'[i] = Bytes[i]
    BY <1>0, <1>4, PrefixElements DEF FileCut
  <2>3. /\ DOMAIN Bytes = 1 .. Len(Bytes) /\ DOMAIN Bytes' = 1 .. Len(Bytes')
        /\ Len(Bytes) \in Nat /\ Len(Bytes') \in Nat
    BY <1>0, <2>2
  <2>4. \A i \in DOMAIN Bytes' : /\ i \in DOMAIN Bytes
                                 /\ \A j \in 1 .. i : Bytes'[j] = Bytes[j]
                                 /\ Bytes'[i] = Bytes[i]
    BY <2>2, <2>3
  <2>5. ASSUME NEW f \in Files' PROVE \E g \in Files : /\ DOMAIN f \subseteq DOMAIN g
                                                       /\ \A i \in DOMAIN f :
                                                            /\ f[i] = g[i]
                                                            /\ \A j \in 1 .. i : f[j] = g[j]
    <3>1. CASE f \in Files
      BY <3>1
    <3>2. CASE f = Bytes'
      BY <2>1, <2>4, <3>2
    <3> QED BY <2>1, <2>5, <3>1, <3>2
  <2>6. ASSUME NEW f \in Files', NEW i \in DOMAIN f
        PROVE  f[i].id <= (IF f[i].seq = 0 THEN torn' ELSE written')
    <3>1. PICK g \in Files : DOMAIN f \subseteq DOMAIN g /\ \A k \in DOMAIN f : f[k] = g[k]
      BY <2>5, <2>6
    <3>2. i \in DOMAIN g /\ f[i] = g[i]
      BY <2>6, <3>1
    <3>3. Bound(g[i])
      BY <1>1, <3>2
    <3> QED BY <2>1, <3>2, <3>3
  <2>7. ASSUME NEW f \in Files', NEW g \in Files', NEW i \in DOMAIN f \cap DOMAIN g
        PROVE  Agree(f, g, i)
    <3>1. PICK a \in Files : DOMAIN f \subseteq DOMAIN a
                             /\ \A k \in DOMAIN f : f[k] = a[k] /\ \A j \in 1 .. k : f[j] = a[j]
      BY <2>5, <2>7
    <3>2. PICK b \in Files : DOMAIN g \subseteq DOMAIN b
                             /\ \A k \in DOMAIN g : g[k] = b[k] /\ \A j \in 1 .. k : g[j] = b[j]
      BY <2>5, <2>7
    <3>3. i \in DOMAIN a \cap DOMAIN b
      BY <2>7, <3>1, <3>2
    <3>4. Agree(a, b, i)
      BY <1>1, <3>3
    <3> QED BY <2>7, <3>1, <3>2, <3>4
  <2> QED BY <2>6, <2>7 DEF FilesInv
<1> QED BY <1>2, <1>3, <1>4, FileSteps

-----------------------------------------------------------------------------
(* Types.                                                                   *)

\* What hashRange returns.
LEMMA HashType ==
    ASSUME NEW f \in Seq(Record), NEW s \in Nat, NEW n \in Nat, s <= n
    PROVE  /\ HashRange(f, s, n) \in Digest /\ Incomplete \in Digest
           /\ HashRange(f, s, n).status = "complete" <=> n <= Len(f) \/ s = n
           /\ n <= Len(f) => HashRange(f, s, n).sum = SubSeq(f, s + 1, n)
<1>1. Incomplete \in Digest
  BY DEF Incomplete, Digest
<1>2. CASE s < n /\ n > Len(f)
  BY <1>1, <1>2 DEF HashRange, Digest
<1>4. CASE s = n /\ n > Len(f)
  <2>1. SubSeq(f, n + 1, n) = <<>> /\ <<>> \in Seq(Record)
    OBVIOUS
  <2>2. HashRange(f, s, n) = [status |-> "complete", sum |-> <<>>]
    BY <1>4, <2>1 DEF HashRange
  <2> QED BY <1>1, <1>4, <2>1, <2>2 DEF Digest
<1>3. CASE ~ (n > Len(f))
  <2> DEFINE c == SubSeq(f, s + 1, n)
  <2>1. c \in Seq(Record) /\ n <= Len(f)
    BY <1>3, CutFacts
  <2>2. HashRange(f, s, n) = [status |-> "complete", sum |-> c]
    BY <1>3 DEF HashRange
  <2> HIDE DEF c
  <2>3. [status |-> "complete", sum |-> c] \in Digest
    BY <2>1 DEF Digest
  <2> QED BY <1>1, <2>1, <2>2, <2>3 DEF c
<1> QED BY <1>2, <1>3, <1>4

\* The writer and the record it works on change, and nothing else.
Writes(w, to, d) ==
    /\ fpc' = [fpc EXCEPT ![w] = to]
    /\ draft' = [draft EXCEPT ![w] = d]

\* What a writer's step leaves in its draft.
LEMMA WriterSteps ==
    ASSUME DeathType, NEW w \in Writers
    PROVE  /\ ReadHead(w) =>
                  /\ fpc[w] \in {"fire", "watching"}
                  /\ Writes(w, "head", [NoDraft EXCEPT !.head = head.recs])
           /\ StatLog(w) =>
                  fpc[w] = "head" /\ Writes(w, "stat", [draft[w] EXCEPT !.n = Len(Bytes)])
           /\ MissDeadline(w) =>
                  /\ fpc[w] \in {"stat", "linked", "tail"}
                  /\ Writes(w, fpc[w], [draft[w] EXCEPT !.late = TRUE])
           /\ HashTail(w) =>
                  /\ fpc[w] = "linked"
                  /\ Writes(w, "tail", [draft[w] EXCEPT !.tail = Hash(w, TailStart(draft[w].n))])
           /\ HashLog(w) =>
                  /\ fpc[w] = "tail"
                  /\ Writes(w, "hashed", [draft[w] EXCEPT !.hash = Hash(w, draft[w].start)])
           /\ KillWatchdog(w) \/ Publish(w) => Writes(w, "off", NoDraft)
<1> USE DEF Writes, Step
<1>0. /\ fpc \in [Writers -> {"off", "watching", "fire"} \cup Firings]
      /\ draft \in [Writers -> Shape({<<>>})]
  BY DEF DeathType
<1>1. ReadHead(w) => /\ fpc[w] \in {"fire", "watching"}
                     /\ Writes(w, "head", [NoDraft EXCEPT !.head = head.recs])
  <2>1. ReadHead(w) => draft[w] = NoDraft
    BY DEF ReadHead, DeathType, Firings
  <2> QED BY <1>0, <2>1 DEF ReadHead
<1>2. StatLog(w) => fpc[w] = "head" /\ Writes(w, "stat", [draft[w] EXCEPT !.n = Len(Bytes)])
  BY <1>0 DEF StatLog
<1>3. MissDeadline(w) => /\ fpc[w] \in {"stat", "linked", "tail"}
                         /\ Writes(w, fpc[w], [draft[w] EXCEPT !.late = TRUE])
  BY <1>0 DEF MissDeadline
<1>4. HashTail(w) =>
          /\ fpc[w] = "linked"
          /\ Writes(w, "tail", [draft[w] EXCEPT !.tail = Hash(w, TailStart(draft[w].n))])
  BY <1>0 DEF HashTail
<1>5. HashLog(w) =>
          /\ fpc[w] = "tail"
          /\ Writes(w, "hashed", [draft[w] EXCEPT !.hash = Hash(w, draft[w].start)])
  BY <1>0 DEF HashLog
<1>6. KillWatchdog(w) \/ Publish(w) => Writes(w, "off", NoDraft)
  BY <1>0 DEF KillWatchdog, Publish
<1> QED BY <1>1, <1>2, <1>3, <1>4, <1>5, <1>6

\* Link, with the record it links and whether it extends it.
LEMMA LinkSteps ==
    ASSUME DeathType, NEW w \in Writers, Link(w)
    PROVE  /\ fpc[w] = "stat"
           /\ \E prev \in 0 .. Len(records), segment \in BOOLEAN :
                  /\ prev = Len(records) \/ draft[w].late
                  /\ segment => /\ prev \in DOMAIN records
                                /\ Extends(records[prev], draft[w].n)
                  /\ Writes(w, "linked", [draft[w] EXCEPT
                         !.prev = prev, !.segment = segment,
                         !.start = IF segment THEN records[prev].n ELSE 0])
<1>0. /\ fpc \in [Writers -> {"off", "watching", "fire"} \cup Firings]
      /\ draft \in [Writers -> Shape({<<>>})]
      /\ Len(records) \in Nat /\ DOMAIN records = 1 .. Len(records)
  BY DEF DeathType
<1>1. fpc[w] = "stat" /\ fpc' = [fpc EXCEPT ![w] = "linked"]
  BY DEF Link, Step
<1>2. PICK prev \in {Len(records)} \cup {k \in {0} : draft[w].late} :
           LET segment == prev > 0 /\ ~ draft[w].late /\ Extends(records[prev], draft[w].n)
           IN draft' = [draft EXCEPT ![w].prev = prev, ![w].segment = segment,
                                     ![w].start = IF segment THEN records[prev].n ELSE 0]
  BY DEF Link
<1> DEFINE segment == prev > 0 /\ ~ draft[w].late /\ Extends(records[prev], draft[w].n)
<1>3. segment \in BOOLEAN
  OBVIOUS
<1>4. prev \in 0 .. Len(records) /\ (prev = Len(records) \/ draft[w].late)
  BY <1>0, <1>2
<1>5. segment => prev \in DOMAIN records /\ Extends(records[prev], draft[w].n)
  <2>1. ASSUME NEW N \in Nat, NEW p \in 0 .. N, p > 0 PROVE p \in 1 .. N
    BY <2>1
  <2>2. prev > 0 => prev \in DOMAIN records
    BY <1>0, <1>4, <2>1
  <2> QED BY <2>2
<1>6. draft' = [draft EXCEPT ![w] = [draft[w] EXCEPT
                    !.prev = prev, !.segment = segment,
                    !.start = IF segment THEN records[prev].n ELSE 0]]
  BY <1>0, <1>2
<1> HIDE DEF segment
<1> QED BY <1>1, <1>3, <1>4, <1>5, <1>6 DEF Writes

\* Every record and every draft has its shape; hashing, linking and publishing keep it.
LEMMA DraftShapes ==
    ASSUME NEW d \in Shape({<<>>})
    PROVE  /\ NoDraft \in Shape({<<>>})
           /\ \A h \in Seq(Record) : [d EXCEPT !.head = h] \in Shape({<<>>})
           /\ \A n \in Nat : [d EXCEPT !.n = n] \in Shape({<<>>})
           /\ [d EXCEPT !.late = TRUE] \in Shape({<<>>})
           /\ \A x \in Digest : /\ [d EXCEPT !.tail = x] \in Shape({<<>>})
                                /\ [d EXCEPT !.hash = x] \in Shape({<<>>})
           /\ \A p, s \in Nat, b \in BOOLEAN :
                  [d EXCEPT !.prev = p, !.segment = b, !.start = s] \in Shape({<<>>})
           /\ \A c : [d EXCEPT !.chain = c] \in Shape({c})
<1>1. Incomplete \in Digest /\ <<>> \in Seq(Record)
  BY DEF Incomplete, Digest
<1>2. NoDraft \in Shape({<<>>})
  BY <1>1 DEF NoDraft, Shape
<1> QED BY <1>2 DEF Shape

\* A new record behind the others.
LEMMA RecordsGrow ==
    ASSUME records \in Seq(ToSet(records)), NEW r, records' = Append(records, r)
    PROVE  /\ records' \in Seq(ToSet(records'))
           /\ Len(records') = Len(records) + 1 /\ Len(records) \in Nat
           /\ DOMAIN records = 1 .. Len(records) /\ DOMAIN records' = 1 .. Len(records) + 1
           /\ \A k \in DOMAIN records : records'[k] = records[k]
           /\ records'[Len(records) + 1] = r
<1> DEFINE S == ToSet(records) \cup {r}
<1>1. records \in Seq(S)
  <2>1. ToSet(records) \subseteq S
    OBVIOUS
  <2> HIDE DEF S
  <2> QED BY <2>1
<1>2. r \in S
  OBVIOUS
<1> HIDE DEF S
<1>3. /\ records' \in Seq(S) /\ Len(records') = Len(records) + 1 /\ Len(records) \in Nat
      /\ DOMAIN records = 1 .. Len(records) /\ DOMAIN records' = 1 .. Len(records) + 1
      /\ \A k \in DOMAIN records : records'[k] = records[k]
      /\ records'[Len(records) + 1] = r
  BY <1>1, <1>2
<1>4. records' \in Seq(ToSet(records'))
  <2>1. \A k \in 1 .. Len(records') : records'[k] \in ToSet(records')
    BY <1>3 DEF ToSet
  <2> QED BY <1>3, <2>1
<1> QED BY <1>3, <1>4

\* The types hold initially.
LEMMA DeathTypeInit ==
    ASSUME DeathInit
    PROVE  DeathType
<1>1. TypeInv /\ StoreInv
  <2>1. Init
    BY DEF DeathInit
  <2>2. TypeInv /\ TypeOK
    BY <2>1, TypeInvInit DEF TypeInv
  <2> QED BY <2>1, <2>2, StoreInvInit
<1>2. NoDraft \in Shape({<<>>})
  <2>1. Incomplete \in Digest /\ <<>> \in Seq(Record)
    BY DEF Incomplete, Digest
  <2> QED BY <2>1 DEF NoDraft, Shape
<1>3. /\ fpc \in [Writers -> {"off", "watching", "fire"} \cup Firings]
      /\ \A w \in Writers : fpc[w] = "off" /\ draft[w] = NoDraft
      /\ draft \in [Writers -> Shape({<<>>})]
  BY <1>2 DEF DeathInit
<1>4. fpc[Daemon] = "off"
  BY <1>3, DeathBoundsAssumption DEF Writers, Daemon
<1>5. records \in Seq(ToSet(records)) /\ DOMAIN records = {}
  BY DEF DeathInit
<1>6. alive = FALSE /\ torn = 0 /\ starts = 0 /\ cuts = {} /\ rest = <<>>
  BY DEF DeathInit
<1> QED BY <1>1, <1>3, <1>4, <1>5, <1>6 DEF DeathType, Firings, Linked

\* Every step keeps the types.
LEMMA DeathTypeStep ==
    ASSUME DeathType, [DeathNext]_allVars
    PROVE  DeathType'
<1>0. TypeInv' /\ StoreInv'
  BY StoreStays DEF DeathType
<1>1. /\ torn' \in Nat /\ cuts' \subseteq Seq(Record)
      /\ rest' \in Seq(Record) /\ (junk' = "none" => rest' = <<>>)
  <2>1. Bytes \in Seq(Record) /\ torn \in Nat /\ cuts \subseteq Seq(Record)
    BY BytesAre DEF DeathType, TypeInv, TypeOK
  <2> QED BY <2>1, FileSteps DEF FileKept, FileGrows, FileCut
<1>2. /\ fpc \in [Writers -> {"off", "watching", "fire"} \cup Firings]
      /\ draft \in [Writers -> Shape({<<>>})]
      /\ Daemon \in Writers /\ starts \in Nat /\ (alive => starts # Daemon)
      /\ fpc[Daemon] # "off" => alive /\ pc = "down"
      /\ \A w \in Writers : /\ fpc[w] \notin Firings => draft[w] = NoDraft
                            /\ fpc[w] \in Linked => draft[w].start <= draft[w].n
  BY DeathBoundsAssumption DEF DeathType, Writers, Daemon
<1> DEFINE Control ==
        /\ starts \in Nat /\ (alive => starts # Daemon)
        /\ fpc[Daemon] # "off" => alive /\ pc = "down"
           Drafts ==
        /\ fpc \in [Writers -> {"off", "watching", "fire"} \cup Firings]
        /\ draft \in [Writers -> Shape({<<>>})]
        /\ \A w \in Writers : /\ fpc[w] \notin Firings => draft[w] = NoDraft
                              /\ fpc[w] \in Linked => draft[w].start <= draft[w].n
           Shapes ==
        /\ records \in Seq(ToSet(records))
        /\ \A k \in DOMAIN records : records[k] \in Shape({records[k].chain})
<1>3. NoDraft \in Shape({<<>>})
  BY <1>2, DraftShapes
<1>4. ASSUME NEW w \in Writers, NEW to \in {"off", "watching", "fire"} \cup Firings,
             NEW d \in Shape({<<>>}), Writes(w, to, d), to \notin Firings => d = NoDraft,
             to \in Linked => d.start <= d.n
      PROVE  Drafts'
  BY <1>2, <1>4 DEF Writes
<1>5. Shapes'
  <2>1. CASE records' = records
    BY <2>1 DEF DeathType
  <2>2. ASSUME NEW w \in Writers, Publish(w) PROVE Shapes'
    <3>1. PICK c : records' = Append(records, [draft[w] EXCEPT !.chain = c])
      BY <2>2 DEF Publish
    <3> DEFINE r == [draft[w] EXCEPT !.chain = c]
    <3>2. r \in Shape({c}) /\ r.chain = c
      <4>1. draft[w] \in Shape({<<>>})
        BY <1>2
      <4>2. r \in Shape({c})
        BY <4>1, DraftShapes
      <4> QED BY <4>1, <4>2 DEF Shape
    <3> HIDE DEF r
    <3>3. records' = Append(records, r) /\ records \in Seq(ToSet(records))
      BY <3>1 DEF r, DeathType
    <3>4. /\ records' \in Seq(ToSet(records'))
          /\ DOMAIN records = 1 .. Len(records) /\ DOMAIN records' = 1 .. Len(records) + 1
          /\ \A k \in DOMAIN records : records'[k] = records[k]
          /\ records'[Len(records) + 1] = r /\ Len(records) \in Nat
      BY <3>3, RecordsGrow
    <3>5. ASSUME NEW k \in DOMAIN records' PROVE records'[k] \in Shape({records'[k].chain})
      <4>1. k \in DOMAIN records \/ k = Len(records) + 1
        BY <3>4
      <4> QED BY <3>2, <3>4, <4>1 DEF DeathType
    <3> QED BY <3>4, <3>5
  <2>3. (\E w \in Writers : Publish(w)) \/ records' = records
    BY DEF DeathNext, StartDaemon, RecoverLog, SpawnWatchdog, WriteLog, StopDaemon,
       KillDaemon,
       KillWatchdog, ReadHead, StatLog, MissDeadline, Link, HashTail, HashLog, deathVars, allVars
  <2> QED BY <2>1, <2>2, <2>3
<1>6. CASE StartDaemon \/ RecoverLog \/ WriteLog \/ UNCHANGED allVars
  <2>1. UNCHANGED <<fpc, draft>>
    BY <1>6 DEF StartDaemon, RecoverLog, WriteLog, deathVars, allVars
  <2>2. Control'
    <3>1. CASE StartDaemon
      BY <1>2, <2>1, <3>1 DEF StartDaemon, Daemon
    <3>2. CASE RecoverLog \/ WriteLog
      <4>1. UNCHANGED <<starts, alive>> /\ pc # "down"
        BY <3>2 DEF RecoverLog, WriteLog, QuarantineCopy, CopyBehind, QuarantineTruncate,
           TruncateBehind, AppendFrame, WriteTreeHead, HeadFails, SealFails, ShortWrite
      <4> QED BY <1>2, <2>1, <4>1
    <3>3. CASE UNCHANGED allVars
      BY <1>2, <3>3 DEF allVars, deathVars, vars
    <3> QED BY <1>6, <3>1, <3>2, <3>3
  <2>3. Drafts'
    BY <1>2, <2>1
  <2> QED BY <1>0, <1>1, <1>5, <2>2, <2>3 DEF DeathType
<1>7. CASE SpawnWatchdog
  <2>1. /\ fpc[starts] = "off" /\ fpc' = [fpc EXCEPT ![starts] = "watching"]
        /\ UNCHANGED <<starts, alive, draft, pc>> /\ alive
    BY <1>7 DEF SpawnWatchdog, vars
  <2>2. Drafts'
    BY <1>2, <2>1 DEF Firings, Linked
  <2>3. Control'
    BY <1>2, <2>1
  <2> QED BY <1>0, <1>1, <1>5, <2>2, <2>3 DEF DeathType
<1>8. CASE StopDaemon
  <2>1. /\ fpc' = [fpc EXCEPT ![Daemon] = "fire"] /\ pc = "up" /\ pc' = "down"
        /\ UNCHANGED <<starts, alive, draft>> /\ alive
    BY <1>8 DEF StopDaemon, Close, ProcessGone
  <2>2. fpc[Daemon] = "off"
    BY <1>2, <2>1
  <2>3. Drafts'
    BY <1>2, <2>1, <2>2 DEF Firings, Linked
  <2>4. Control'
    BY <1>2, <2>1
  <2> QED BY <1>0, <1>1, <1>5, <2>3, <2>4 DEF DeathType
<1>9. CASE KillDaemon
  <2>1. Writes(Daemon, "off", NoDraft) /\ alive' = FALSE /\ starts' = starts
    BY <1>9 DEF KillDaemon, Writes
  <2>2. Drafts'
    BY <1>2, <1>3, <1>4, <2>1 DEF Firings, Linked
  <2>3. Control'
    BY <1>2, <2>1 DEF Writes
  <2> QED BY <1>0, <1>1, <1>5, <2>2, <2>3 DEF DeathType
<1>10. ASSUME NEW w \in Writers,
              \/ KillWatchdog(w) \/ ReadHead(w) \/ StatLog(w) \/ MissDeadline(w) \/ Link(w)
              \/ HashTail(w) \/ HashLog(w) \/ Publish(w)
       PROVE  DeathType'
  <2>0. /\ Bytes \in Seq(Record) /\ Len(Bytes) \in Nat /\ head.recs \in Seq(Record)
        /\ draft[w] \in Shape({<<>>})
    BY <1>2, BytesAre DEF DeathType, TypeInv, TypeOK, TreeHead
  <2>1. /\ draft[w].n \in Nat /\ draft[w].start \in Nat /\ draft[w].tail \in Digest
        /\ draft[w].hash \in Digest /\ draft[w].prev \in Nat
    BY <2>0 DEF Shape
  <2>2. Drafts'
    <3>1. CASE ReadHead(w)
      <4>1. [NoDraft EXCEPT !.head = head.recs] \in Shape({<<>>})
        BY <1>3, <2>0, DraftShapes
      <4> QED BY <1>4, <3>1, <4>1, WriterSteps DEF Firings, Linked
    <3>2. CASE StatLog(w)
      <4>1. [draft[w] EXCEPT !.n = Len(Bytes)] \in Shape({<<>>})
        BY <2>0, DraftShapes
      <4> QED BY <1>4, <3>2, <4>1, WriterSteps DEF Firings, Linked
    <3>3. CASE MissDeadline(w)
      <4> DEFINE d == [draft[w] EXCEPT !.late = TRUE]
      <4>1. d \in Shape({<<>>}) /\ d.start = draft[w].start /\ d.n = draft[w].n
        BY <2>0, DraftShapes DEF Shape
      <4>2. fpc[w] \in {"stat", "linked", "tail"} /\ Writes(w, fpc[w], d)
        BY <3>3, WriterSteps
      <4> HIDE DEF d
      <4> QED BY <1>2, <1>4, <4>1, <4>2 DEF Firings
    <3>4. CASE Link(w)
      <4>1. PICK prev \in 0 .. Len(records), segment \in BOOLEAN :
                  /\ segment => /\ prev \in DOMAIN records
                                /\ Extends(records[prev], draft[w].n)
                  /\ Writes(w, "linked", [draft[w] EXCEPT
                         !.prev = prev, !.segment = segment,
                         !.start = IF segment THEN records[prev].n ELSE 0])
        BY <3>4, LinkSteps
      <4> DEFINE start == IF segment THEN records[prev].n ELSE 0
                 d == [draft[w] EXCEPT !.prev = prev, !.segment = segment, !.start = start]
      <4>2. start \in Nat /\ start <= draft[w].n
        <5>1. CASE segment
          <6>1. records[prev] \in Shape({records[prev].chain}) /\ records[prev].n <= draft[w].n
            BY <4>1, <5>1 DEF DeathType, Extends
          <6> QED BY <5>1, <6>1 DEF Shape
        <5>2. CASE ~ segment
          BY <2>1, <5>2
        <5> QED BY <5>1, <5>2
      <4>3. prev \in Nat
        OBVIOUS
      <4> HIDE DEF start
      <4>4. d \in Shape({<<>>}) /\ d.start = start /\ d.n = draft[w].n
        BY <2>0, <4>2, <4>3, DraftShapes DEF Shape
      <4>5. Writes(w, "linked", d)
        BY <4>1 DEF start
      <4> HIDE DEF d
      <4> QED BY <1>4, <4>2, <4>4, <4>5 DEF Firings
    <3>5. CASE HashTail(w)
      <4> DEFINE x == Hash(w, TailStart(draft[w].n))
                 d == [draft[w] EXCEPT !.tail = x]
      <4>1. x \in Digest
        BY <2>0, <2>1, TailStarts, HashType DEF Hash
      <4> HIDE DEF x
      <4>2. d \in Shape({<<>>}) /\ d.start = draft[w].start /\ d.n = draft[w].n
        BY <2>0, <4>1, DraftShapes DEF Shape
      <4>3. Writes(w, "tail", d) /\ fpc[w] = "linked"
        BY <3>5, WriterSteps DEF x
      <4> HIDE DEF d
      <4> QED BY <1>2, <1>4, <4>2, <4>3 DEF Firings, Linked
    <3>6. CASE HashLog(w)
      <4> DEFINE x == Hash(w, draft[w].start)
                 d == [draft[w] EXCEPT !.hash = x]
      <4>1. fpc[w] = "tail" /\ Writes(w, "hashed", d)
        BY <3>6, WriterSteps
      <4>2. draft[w].start <= draft[w].n
        BY <1>2, <4>1 DEF Linked
      <4>3. x \in Digest
        BY <2>0, <2>1, <4>2, HashType DEF Hash
      <4> HIDE DEF x
      <4>4. d \in Shape({<<>>}) /\ d.start = draft[w].start /\ d.n = draft[w].n
        BY <2>0, <4>3, DraftShapes DEF Shape
      <4> HIDE DEF d
      <4> QED BY <1>4, <4>1, <4>2, <4>4 DEF Firings, Linked
    <3>7. CASE KillWatchdog(w) \/ Publish(w)
      BY <1>3, <1>4, <3>7, WriterSteps DEF Firings, Linked
    <3> QED BY <1>10, <3>1, <3>2, <3>3, <3>4, <3>5, <3>6, <3>7
  <2>3. Control'
    <3>1. pc' = pc /\ starts' = starts
      BY <1>10 DEF KillWatchdog, ReadHead, StatLog, MissDeadline, Link, HashTail, HashLog,
         Publish, vars
    <3>2. CASE Publish(w)
      <4>1. /\ (alive' => alive) /\ (w # Daemon => (alive' <=> alive))
            /\ fpc' = [fpc EXCEPT ![w] = "off"]
        BY <3>2 DEF Publish, Step
      <4> QED BY <1>2, <3>1, <4>1
    <3>3. CASE ~ Publish(w)
      <4>1. alive' = alive
        BY <1>10, <3>3 DEF KillWatchdog, ReadHead, StatLog, MissDeadline, Link, HashTail,
           HashLog
      <4>2. fpc'[Daemon] # "off" => fpc[Daemon] # "off"
        BY <1>2, <1>10, <3>3 DEF KillWatchdog, ReadHead, StatLog, MissDeadline, Link,
           HashTail,
           HashLog, Step
      <4> QED BY <1>2, <3>1, <4>1, <4>2
    <3> QED BY <3>2, <3>3
  <2> QED BY <1>0, <1>1, <1>5, <2>2, <2>3 DEF DeathType
<1> QED
  BY <1>6, <1>7, <1>8, <1>9, <1>10 DEF DeathNext

-----------------------------------------------------------------------------
(* What the records vouch for.                                              *)

\* Nothing disturbed is ever forgotten.
LEMMA DisturbedGrows ==
    ASSUME [DeathNext]_allVars
    PROVE  disturbed \subseteq disturbed'
BY DEF DeathNext, StartDaemon, RecoverLog, SpawnWatchdog, WriteLog, StopDaemon, KillDaemon,
   KillWatchdog, ReadHead, StatLog, MissDeadline, Link, HashTail, HashLog, Publish, deathVars,
   allVars

\* Every content the log has had is still remembered, and the present one is only
\* extended while a writer is at work, unless a recovery disturbs it.
FilesStay ==
    /\ \A f \in Files : f \in Seq(Record) /\ \E g \in Files' : g \in Seq(Record) /\ IsPrefix(f, g)
    /\ Bytes \in Seq(Record) /\ Bytes' \in Seq(Record)
    /\ \/ \A w \in Writers : fpc[w] \notin Firings
       \/ "recovery" \in disturbed'
       \/ IsPrefix(Bytes, Bytes')

\* Every step does so.
LEMMA FilesAlwaysStay ==
    ASSUME DeathType, [DeathNext]_allVars
    PROVE  FilesStay
<1>1. Bytes \in Seq(Record) /\ cuts \subseteq Seq(Record)
  BY BytesAre DEF DeathType, TypeInv, TypeOK
<1>2. \A f \in Files : f \in Seq(Record) /\ IsPrefix(f, f)
  BY <1>1, PrefixRefl DEF Files
<1>3. CASE FileKept
  BY <1>1, <1>2, <1>3 DEF FileKept, FilesStay, Files
<1>4. CASE FileGrows
  <2>1. PICK c \in Record : Bytes' = Append(Bytes, c) /\ cuts' = cuts
    BY <1>4 DEF FileGrows
  <2>2. Bytes' \in Seq(Record) /\ IsPrefix(Bytes, Bytes')
    BY <1>1, <2>1, PrefixRefl, PrefixAppend
  <2>3. cuts \subseteq Files' /\ Bytes' \in Files'
    BY <2>1 DEF Files
  <2> QED BY <1>1, <1>2, <2>2, <2>3 DEF FilesStay, Files
<1>5. CASE FileCut
  <2>1. Files \subseteq Files'
    BY <1>5 DEF FileCut, Files
  <2> QED BY <1>1, <1>2, <1>5, <2>1 DEF FileCut, FilesStay
<1> QED BY <1>3, <1>4, <1>5, FileSteps

\* Records and what they vouch for stay.
RecordsStay ==
    \A k \in DOMAIN records :
        k \in DOMAIN records' /\ records'[k] = records[k] /\ Content'[k] = Content[k]

\* A record that is true of a file is true of what the file grows to.
LEMMA VouchesStays ==
    ASSUME NEW k \in DOMAIN records, NEW f \in Seq(Record), NEW g \in Seq(Record),
           IsPrefix(f, g), Vouches(k, f), Continues(records[k]), RecordsStay,
           records[k] \in Shape({records[k].chain}), Intact' => Intact
    PROVE  Vouches(k, g)'
<1> DEFINE r == records[k]
<1>1. /\ r.head \in Seq(Record) /\ r.n \in Nat /\ r.start \in Nat /\ r.start <= r.n
      /\ r.n <= Len(f) /\ (Intact => Len(r.head) <= r.n /\ IsPrefix(r.head, f))
      /\ Content[k] = SubSeq(f, 1, r.n)
      /\ r.hash = HashRange(f, r.start, r.n)
      /\ r.tail = HashRange(f, TailStart(r.n), r.n)
  BY DEF Vouches, Shape, Continues
<1>2. records'[k] = r /\ Content'[k] = Content[k]
  BY DEF RecordsStay
<1> HIDE DEF r
<1>3. /\ r.n <= Len(g) /\ SubSeq(g, 1, r.n) = SubSeq(f, 1, r.n)
      /\ HashRange(g, TailStart(r.n), r.n) = HashRange(f, TailStart(r.n), r.n)
  BY <1>1, FrontStays
<1>4. HashRange(g, r.start, r.n) = HashRange(f, r.start, r.n)
  BY <1>1, HashStays
<1>5. Intact' => Len(r.head) <= r.n /\ IsPrefix(r.head, g)
  BY <1>1, PrefixTrans
<1>6. Vouches(k, g)' <=> /\ r.n <= Len(g)
                         /\ Intact' => Len(r.head) <= r.n /\ IsPrefix(r.head, g)
                         /\ Content'[k] = SubSeq(g, 1, r.n)
                         /\ r.hash = HashRange(g, r.start, r.n)
                         /\ r.tail = HashRange(g, TailStart(r.n), r.n)
  BY <1>2 DEF Vouches, HashRange, TailStart
<1> QED BY <1>1, <1>2, <1>3, <1>4, <1>5, <1>6

\* A record that was true stays true.
LEMMA RecordKept ==
    ASSUME DeathType, FilesStay, RecordsStay, disturbed \subseteq disturbed',
           Intact' => Intact, NEW k \in DOMAIN records, RecordBody(k)
    PROVE  RecordBody(k)'
<1>1. records'[k] = records[k] /\ records[k] \in Shape({records[k].chain})
  BY DEF RecordsStay, DeathType
<1>2. Continues(records[k]) /\ records[k].prev < k
  BY DEF RecordBody
<1>3. Continues(records[k])'
  BY <1>1, <1>2 DEF Continues, RecordsStay
<1>4. ASSUME records[k].hash.status = "complete" PROVE \E g \in Files' : Vouches(k, g)'
  <2>1. PICK f \in Files : Vouches(k, f)
    BY <1>4 DEF RecordBody
  <2>2. f \in Seq(Record) /\ \E g \in Files' : g \in Seq(Record) /\ IsPrefix(f, g)
    BY DEF FilesStay
  <2> QED BY <1>1, <1>2, <2>1, <2>2, VouchesStays
<1>5. "deadline" \notin disturbed' => records[k].hash.status = "complete"
  BY DEF RecordBody
<1> QED BY <1>1, <1>2, <1>3, <1>4, <1>5 DEF RecordBody

\* So does what a writer has captured that is not at work in this step.
LEMMA DraftKept ==
    ASSUME DeathType, IsPrefix(Bytes, Bytes'), Bytes' \in Seq(Record), RecordsStay,
           Len(records) <= Len(records'), Len(records') \in Nat, disturbed \subseteq disturbed',
           Intact' => Intact, NEW w \in Writers,
           fpc'[w] = fpc[w], draft'[w] = draft[w], DraftBody(w)
    PROVE  DraftBody(w)'
<1> DEFINE d == draft[w]
<1>1. /\ d.head \in Seq(Record) /\ d.n \in Nat /\ d.start \in Nat /\ d.prev \in Nat
      /\ Bytes \in Seq(Record) /\ Len(records) \in Nat
  BY BytesAre DEF DeathType, TypeInv, TypeOK, Shape
<1>2. /\ d.late => "deadline" \in disturbed
      /\ fpc[w] \in Firings => (Intact => IsPrefix(d.head, Bytes))
      /\ fpc[w] \in Stated => d.n <= Len(Bytes) /\ (Intact => Len(d.head) <= d.n)
      /\ fpc[w] \in Linked =>
              /\ Continues(d) /\ d.prev <= Len(records)
              /\ d.segment => Content[d.prev] = SubSeq(Bytes, 1, d.start)
      /\ fpc[w] \in Tailed =>
              d.tail = HashRange(Bytes, TailStart(d.n), d.n) \/ (d.tail = Incomplete /\ d.late)
      /\ fpc[w] = "hashed" =>
              \/ ~ d.late /\ d.hash = HashRange(Bytes, d.start, d.n)
              \/ d.late /\ d.hash = Incomplete
  BY DEF DraftBody
<1> HIDE DEF d
<1>3. fpc[w] \in Firings => (Intact' => IsPrefix(d.head, Bytes'))
  BY <1>1, <1>2, PrefixTrans
<1>4. fpc[w] \in Stated =>
          /\ d.n <= Len(Bytes') /\ (Intact' => Len(d.head) <= d.n)
          /\ HashRange(Bytes', TailStart(d.n), d.n) = HashRange(Bytes, TailStart(d.n), d.n)
  <2> SUFFICES ASSUME fpc[w] \in Stated
               PROVE  /\ d.n <= Len(Bytes') /\ (Intact' => Len(d.head) <= d.n)
                      /\ HashRange(Bytes', TailStart(d.n), d.n)
                           = HashRange(Bytes, TailStart(d.n), d.n)
    OBVIOUS
  <2>1. d.n <= Len(Bytes) /\ (Intact' => Len(d.head) <= d.n)
    BY <1>2
  <2>2. /\ d.n <= Len(Bytes')
        /\ HashRange(Bytes', TailStart(d.n), d.n) = HashRange(Bytes, TailStart(d.n), d.n)
    BY <1>1, <2>1, FrontStays
  <2> QED BY <2>1, <2>2
<1>5. fpc[w] \in Linked =>
          /\ Continues(d)' /\ d.prev <= Len(records')
          /\ d.segment => Content'[d.prev] = SubSeq(Bytes', 1, d.start)
          /\ HashRange(Bytes', d.start, d.n) = HashRange(Bytes, d.start, d.n)
  <2> SUFFICES ASSUME fpc[w] \in Linked
               PROVE  /\ Continues(d)' /\ d.prev <= Len(records')
                      /\ d.segment => Content'[d.prev] = SubSeq(Bytes', 1, d.start)
                      /\ HashRange(Bytes', d.start, d.n) = HashRange(Bytes, d.start, d.n)
    OBVIOUS
  <2>1. /\ Continues(d) /\ d.prev <= Len(records) /\ d.start <= d.n /\ d.n <= Len(Bytes)
        /\ d.segment => Content[d.prev] = SubSeq(Bytes, 1, d.start)
    BY <1>2 DEF Continues, Linked, Stated
  <2>2. d' = d
    BY DEF d
  <2>3. Continues(d)'
    BY <2>1, <2>2 DEF Continues, RecordsStay
  <2>4. d.prev <= Len(records')
    BY <1>1, <2>1
  <2>5. HashRange(Bytes', d.start, d.n) = HashRange(Bytes, d.start, d.n)
    BY <1>1, <2>1, HashStays
  <2>6. SubSeq(Bytes', 1, d.start) = SubSeq(Bytes, 1, d.start)
    <3>1. d.start <= Len(Bytes)
      BY <1>1, <2>1
    <3> QED BY <1>1, <3>1, FrontStays
  <2>7. d.segment => Content'[d.prev] = SubSeq(Bytes', 1, d.start)
    <3>1. d.segment => d.prev \in DOMAIN records
      BY <2>1 DEF Continues
    <3> QED BY <2>1, <2>6, <3>1 DEF RecordsStay
  <2> QED BY <2>3, <2>4, <2>5, <2>7
<1>7. draft'[w] = d /\ d' = d
  BY DEF d
<1> QED BY <1>2, <1>3, <1>4, <1>5, <1>7 DEF DraftBody, Stated, Linked, Tailed

\* Without a new record nothing changes.
LEMMA ContentSame ==
    ASSUME records' = records
    PROVE  Content' = Content
BY DEF Content

\* Only Publish adds a record.
LEMMA RecordSteps ==
    ASSUME [DeathNext]_allVars
    PROVE  records' = records \/ \E w \in Writers : Publish(w)
BY DEF DeathNext, StartDaemon, RecoverLog, SpawnWatchdog, WriteLog, StopDaemon, KillDaemon,
   KillWatchdog, ReadHead, StatLog, MissDeadline, Link, HashTail, HashLog, deathVars, allVars

\* What Publish adds, and what the new record vouches for.
LEMMA PublishSteps ==
    ASSUME DeathType, "recovery" \notin disturbed, FireInv, NEW w \in Writers, Publish(w)
    PROVE  /\ fpc[w] = "hashed" /\ disturbed' = disturbed
           /\ RecordsStay
           /\ Len(records) \in Nat /\ DOMAIN records = 1 .. Len(records)
           /\ Len(records') = Len(records) + 1 /\ DOMAIN records' = 1 .. Len(records) + 1
           /\ records'[Len(records) + 1] =
                  [draft[w] EXCEPT !.chain =
                      IF draft[w].segment /\ draft[w].hash.status = "complete"
                      THEN ChainDigest(records[draft[w].prev], draft[w]) ELSE <<>>]
           /\ Content'[Len(records) + 1] =
                  IF draft[w].segment THEN Content[draft[w].prev] \o draft[w].hash.sum
                  ELSE draft[w].hash.sum
<1> DEFINE d == draft[w]
           c == IF d.segment /\ d.hash.status = "complete"
                THEN ChainDigest(records[d.prev], d) ELSE <<>>
           r == [d EXCEPT !.chain = c]
           N == Len(records)
<1>1. fpc[w] = "hashed" /\ disturbed' = disturbed /\ records' = Append(records, r)
  BY DEF Publish, Step
<1>2. d \in Shape({<<>>}) /\ records \in Seq(ToSet(records))
  BY DEF DeathType
<1>3. Continues(d) /\ d.prev <= N
  BY <1>1 DEF FireInv, DraftBody, Linked
<1> HIDE DEF c
<1>4. r.segment = d.segment /\ r.prev = d.prev /\ r.hash = d.hash /\ d.prev \in Nat
  BY <1>2 DEF Shape
<1>5. d.segment => d.prev \in DOMAIN records
  BY <1>3 DEF Continues
<1> HIDE DEF d, r
<1>6. /\ records' \in Seq(ToSet(records'))
      /\ Len(records') = N + 1 /\ N \in Nat
      /\ DOMAIN records = 1 .. N /\ DOMAIN records' = 1 .. N + 1
      /\ \A k \in DOMAIN records : records'[k] = records[k]
      /\ records'[N + 1] = r
  BY <1>1, <1>2, RecordsGrow
<1>7. Backwards(records, N)
  <2>1. \A k \in DOMAIN records : Continues(records[k]) /\ records[k].prev < k
    BY DEF FireInv, RecordBody
  <2>2. \A k \in DOMAIN records : records[k].segment => records[k].prev \in 1 .. N
    BY <1>6, <2>1 DEF Continues
  <2> QED BY <1>6, <2>1, <2>2 DEF Backwards
<1>8. Backwards(records', N + 1)
  <2> SUFFICES ASSUME NEW k \in 1 .. N + 1, records'[k].segment
               PROVE  records'[k].prev \in 0 .. k - 1
    BY DEF Backwards
  <2>1. CASE k \in 1 .. N
    BY <1>6, <1>7, <2>1 DEF Backwards
  <2>2. CASE k = N + 1
    BY <1>3, <1>4, <1>6, <2>2
  <2> QED BY <1>6, <2>1, <2>2
<1>9. /\ \A k \in 1 .. N : Content'[k] = Content[k]
      /\ Content'[N + 1] = IF r.segment THEN Content'[r.prev] \o r.hash.sum ELSE r.hash.sum
  <2> DEFINE S == ToSet(records')
  <2>1. r \in S /\ records \in Seq(S)
    <3>1. r \in S
      BY <1>6 DEF ToSet
    <3>2. \A k \in 1 .. N : records[k] \in S
      BY <1>6 DEF ToSet
    <3> QED BY <1>2, <1>6, <3>1, <3>2
  <2> HIDE DEF S
  <2> QED BY <1>1, <1>6, <1>7, <1>8, <2>1, ContentStays
<1>10. RecordsStay
  BY <1>6, <1>9 DEF RecordsStay
<1>11. Content'[N + 1] = IF d.segment THEN Content[d.prev] \o d.hash.sum ELSE d.hash.sum
  BY <1>4, <1>5, <1>6, <1>9
<1> QED BY <1>1, <1>6, <1>10, <1>11 DEF c, d, r

\* No record is ever changed.
LEMMA RecordsAlwaysStay ==
    ASSUME DeathType, "recovery" \notin disturbed, FireInv, [DeathNext]_allVars
    PROVE  RecordsStay /\ Len(records) <= Len(records') /\ Len(records') \in Nat
<1>1. CASE records' = records
  BY <1>1, ContentSame DEF RecordsStay, DeathType
<1>2. ASSUME NEW w \in Writers, Publish(w)
      PROVE  RecordsStay /\ Len(records) <= Len(records') /\ Len(records') \in Nat
  <2>1. RecordsStay /\ Len(records) \in Nat /\ Len(records') = Len(records) + 1
    BY <1>2, PublishSteps
  <2> QED BY <2>1
<1> QED BY <1>1, <1>2, RecordSteps

\* A writer that is at work after a step has done it, or has been left alone.
LEMMA Bystanders ==
    ASSUME DeathType, [DeathNext]_allVars, NEW w \in Writers, fpc'[w] \in Firings
    PROVE  \/ fpc'[w] = fpc[w] /\ draft'[w] = draft[w]
           \/ ReadHead(w) \/ StatLog(w) \/ MissDeadline(w) \/ Link(w) \/ HashTail(w) \/ HashLog(w)
<1>0. /\ fpc \in [Writers -> {"off", "watching", "fire"} \cup Firings]
      /\ draft \in [Writers -> Shape({<<>>})]
  BY DEF DeathType
<1>1. CASE \/ StartDaemon \/ RecoverLog \/ WriteLog \/ UNCHANGED allVars
  BY <1>1 DEF StartDaemon, RecoverLog, WriteLog, deathVars, allVars
<1>2. CASE SpawnWatchdog \/ StopDaemon \/ KillDaemon
  BY <1>0, <1>2 DEF SpawnWatchdog, StopDaemon, KillDaemon, Firings
<1>3. ASSUME NEW v \in Writers, KillWatchdog(v) \/ Publish(v)
      PROVE  fpc'[w] = fpc[w] /\ draft'[w] = draft[w]
  BY <1>0, <1>3, WriterSteps DEF Writes, Firings
<1>4. ASSUME NEW v \in Writers, v # w,
             ReadHead(v) \/ StatLog(v) \/ MissDeadline(v) \/ Link(v) \/ HashTail(v) \/ HashLog(v)
      PROVE  fpc'[w] = fpc[w] /\ draft'[w] = draft[w]
  BY <1>0, <1>4 DEF ReadHead, StatLog, MissDeadline, Link, HashTail, HashLog, Step
<1> QED BY <1>1, <1>2, <1>3, <1>4 DEF DeathNext

\* DraftBody of a writer at p with the draft d.
DraftIs(p, d) ==
    /\ p \in Firings => (Intact => IsPrefix(d.head, Bytes))
    /\ p \in Stated => d.n <= Len(Bytes) /\ (Intact => Len(d.head) <= d.n)
    /\ p \in Linked =>
           /\ Continues(d) /\ d.prev <= Len(records)
           /\ d.segment => Content[d.prev] = SubSeq(Bytes, 1, d.start)
    /\ p \in Tailed =>
           d.tail = HashRange(Bytes, TailStart(d.n), d.n) \/ (d.tail = Incomplete /\ d.late)
    /\ p = "hashed" => \/ ~ d.late /\ d.hash = HashRange(Bytes, d.start, d.n)
                       \/ d.late /\ d.hash = Incomplete

\* A writer's own step leaves it with such a draft.
LEMMA DraftWritten ==
    ASSUME DeathType, NEW w \in Writers, NEW p, NEW d, Writes(w, p, d), DraftIs(p, d),
           Bytes' = Bytes, records' = records, faults' = faults,
           d.late => "deadline" \in disturbed'
    PROVE  DraftBody(w)'
<1>1. fpc'[w] = p /\ draft'[w] = d
  BY DEF Writes, DeathType
<1>2. Content' = Content /\ (Intact' <=> Intact)
  BY ContentSame DEF Intact
<1> QED BY <1>1, <1>2 DEF DraftBody, DraftIs, Continues

\* The newest record, or none, is extended only if the log still holds what it captured.
LEMMA LinkTrue ==
    ASSUME DeathType, FilesInv, "recovery" \notin disturbed, FireInv,
           NEW n \in Nat, n <= Len(Bytes), NEW prev \in DOMAIN records, Extends(records[prev], n)
    PROVE  /\ records[prev].n \in Nat /\ records[prev].n <= n
           /\ records[prev].hash.status = "complete" /\ records[prev].tail.status = "complete"
           /\ Content[prev] = SubSeq(Bytes, 1, records[prev].n)
<1> DEFINE m == records[prev].n
<1>1. /\ m \in Nat /\ m <= n
      /\ records[prev].hash.status = "complete" /\ records[prev].tail.status = "complete"
      /\ HashRange(Bytes, TailStart(m), m) = records[prev].tail
  <2>1. records[prev] \in Shape({records[prev].chain})
    BY DEF DeathType
  <2>2. m \in Nat
    BY <2>1 DEF Shape
  <2> QED BY <2>2 DEF Extends
<1>2. PICK f \in Files : Vouches(prev, f)
  BY <1>1 DEF FireInv, RecordBody
<1>3. /\ m <= Len(f) /\ Content[prev] = SubSeq(f, 1, m)
      /\ records[prev].tail = HashRange(f, TailStart(m), m)
  BY <1>2 DEF Vouches
<1>4. f \in Seq(Record) /\ Bytes \in Seq(Record) /\ Bytes \in Files
  BY BytesAre DEF DeathType, TypeInv, TypeOK, Files
<1> HIDE DEF m
<1>5. SubSeq(f, 1, m) = SubSeq(Bytes, 1, m)
  <2>1. m <= Len(Bytes)
    BY <1>1, <1>4
  <2> QED BY <1>1, <1>3, <1>4, <2>1, SameTail
<1> QED BY <1>1, <1>3, <1>5 DEF m

\* What a writer captures is in the log in front of it.
LEMMA WriterTrue ==
    ASSUME DeathType, FilesInv, "recovery" \notin disturbed, FireInv,
           disturbed \subseteq disturbed', NEW w \in Writers,
           ReadHead(w) \/ StatLog(w) \/ MissDeadline(w) \/ Link(w) \/ HashTail(w) \/ HashLog(w)
    PROVE  DraftBody(w)'
<1>1. /\ log \in Seq(Record) /\ Bytes \in Seq(Record) /\ Len(Bytes) \in Nat
      /\ IsPrefix(log, Bytes) /\ head.recs \in Seq(Record)
      /\ Intact => IsPrefix(head.recs, log)
  BY BytesAre DEF DeathType, TypeInv, TypeOK, StoreInv, StoreBody, TreeHead
<1>2. draft[w] \in Shape({<<>>}) /\ fpc[w] \in {"off", "watching", "fire"} \cup Firings
  BY DEF DeathType
<1>3. (draft[w].late => "deadline" \in disturbed') /\ DraftIs(fpc[w], draft[w])
  BY DEF FireInv, DraftBody, DraftIs
<1>4. Bytes' = Bytes /\ records' = records /\ faults' = faults
  BY WritersOnly DEF ReadHead, StatLog, MissDeadline, Link, HashTail, HashLog
<1>5. CASE ReadHead(w)
  <2> DEFINE d == [NoDraft EXCEPT !.head = head.recs]
  <2>1. d.head = head.recs /\ d.late = FALSE
    BY DEF NoDraft
  <2>2. Writes(w, "head", d)
    BY <1>5, WriterSteps
  <2> HIDE DEF d
  <2>3. Intact => IsPrefix(d.head, Bytes)
    BY <1>1, <2>1, PrefixTrans
  <2>4. DraftIs("head", d)
    BY <2>3 DEF DraftIs, Stated, Linked, Tailed
  <2> QED BY <1>4, <2>1, <2>2, <2>4, DraftWritten
<1>6. CASE StatLog(w)
  <2> DEFINE d == [draft[w] EXCEPT !.n = Len(Bytes)]
  <2>1. /\ d.head = draft[w].head /\ d.late = draft[w].late /\ d.n = Len(Bytes)
        /\ d.head \in Seq(Record)
    BY <1>2 DEF Shape
  <2>2. fpc[w] = "head" /\ Writes(w, "stat", d)
    BY <1>6, WriterSteps
  <2> HIDE DEF d
  <2>3. Intact => IsPrefix(d.head, Bytes)
    BY <1>3, <2>1, <2>2 DEF DraftIs, Firings
  <2>4. Intact => Len(d.head) <= Len(Bytes)
    BY <1>1, <2>1, <2>3, PrefixElements
  <2>5. DraftIs("stat", d)
    BY <1>1, <2>1, <2>3, <2>4 DEF DraftIs, Stated, Linked, Tailed
  <2> QED BY <1>3, <1>4, <2>1, <2>2, <2>5, DraftWritten
<1>7. CASE MissDeadline(w)
  <2> DEFINE d == [draft[w] EXCEPT !.late = TRUE]
  <2>1. /\ d.head = draft[w].head /\ d.n = draft[w].n /\ d.prev = draft[w].prev
        /\ d.segment = draft[w].segment /\ d.start = draft[w].start /\ d.tail = draft[w].tail
        /\ d.late = TRUE
    BY <1>2 DEF Shape
  <2>2. fpc[w] \in {"stat", "linked", "tail"} /\ Writes(w, fpc[w], d)
    BY <1>7, WriterSteps
  <2>3. "deadline" \in disturbed'
    BY <1>7 DEF MissDeadline
  <2> HIDE DEF d
  <2>4. DraftIs(fpc[w], d)
    BY <1>3, <2>1, <2>2 DEF DraftIs, Continues
  <2> QED BY <1>4, <2>2, <2>3, <2>4, DraftWritten
<1>8. CASE Link(w)
  <2>1. fpc[w] = "stat"
    BY <1>8, LinkSteps
  <2>2. PICK prev \in 0 .. Len(records), segment \in BOOLEAN :
            /\ segment => prev \in DOMAIN records /\ Extends(records[prev], draft[w].n)
            /\ Writes(w, "linked", [draft[w] EXCEPT
                   !.prev = prev, !.segment = segment,
                   !.start = IF segment THEN records[prev].n ELSE 0])
    BY <1>8, LinkSteps
  <2> DEFINE s == IF segment THEN records[prev].n ELSE 0
             d == [draft[w] EXCEPT !.prev = prev, !.segment = segment, !.start = s]
  <2> HIDE DEF s
  <2>3. /\ d.head = draft[w].head /\ d.late = draft[w].late /\ d.n = draft[w].n
        /\ d.prev = prev /\ d.segment = segment /\ d.start = s /\ d.n \in Nat
    BY <1>2 DEF Shape
  <2>4. Writes(w, "linked", d)
    BY <2>2 DEF s
  <2> HIDE DEF d
  <2>5. d.n <= Len(Bytes) /\ (Intact => IsPrefix(d.head, Bytes) /\ Len(d.head) <= d.n)
    BY <1>3, <2>1, <2>3 DEF DraftIs, Firings, Stated
  <2>6. prev <= Len(records)
    BY <2>2 DEF DeathType
  <2>7. Continues(d) /\ (d.segment => Content[d.prev] = SubSeq(Bytes, 1, d.start))
    <3>1. CASE segment
      <4>1. prev \in DOMAIN records /\ Extends(records[prev], d.n) /\ s = records[prev].n
        BY <2>2, <2>3, <3>1 DEF s
      <4>2. /\ records[prev].n <= d.n
            /\ records[prev].hash.status = "complete" /\ records[prev].tail.status = "complete"
            /\ Content[prev] = SubSeq(Bytes, 1, records[prev].n)
        BY <2>3, <2>5, <4>1, LinkTrue
      <4> QED BY <2>3, <3>1, <4>1, <4>2 DEF Continues
    <3>2. CASE ~ segment
      BY <2>3, <3>2 DEF Continues, s
    <3> QED BY <3>1, <3>2
  <2>8. DraftIs("linked", d)
    BY <2>3, <2>5, <2>6, <2>7 DEF DraftIs, Tailed
  <2> QED BY <1>3, <1>4, <2>3, <2>4, <2>8, DraftWritten
<1>9. CASE HashTail(w)
  <2> DEFINE x == Hash(w, TailStart(draft[w].n))
             d == [draft[w] EXCEPT !.tail = x]
  <2>1. fpc[w] = "linked" /\ Writes(w, "tail", d)
    BY <1>9, WriterSteps
  <2>2. IF draft[w].late THEN x = Incomplete
        ELSE x = HashRange(Bytes, TailStart(draft[w].n), draft[w].n)
    BY DEF Hash
  <2> HIDE DEF x
  <2>3. /\ d.head = draft[w].head /\ d.n = draft[w].n /\ d.prev = draft[w].prev
        /\ d.segment = draft[w].segment /\ d.start = draft[w].start /\ d.tail = x
        /\ d.late = draft[w].late
    BY <1>2 DEF Shape
  <2> HIDE DEF d
  <2>4. DraftIs("tail", d)
    BY <1>3, <2>1, <2>2, <2>3 DEF DraftIs, Continues, Firings, Stated, Linked
  <2> QED BY <1>3, <1>4, <2>1, <2>3, <2>4, DraftWritten
<1>10. CASE HashLog(w)
  <2> DEFINE x == Hash(w, draft[w].start)
             d == [draft[w] EXCEPT !.hash = x]
  <2>1. fpc[w] = "tail" /\ Writes(w, "hashed", d)
    BY <1>10, WriterSteps
  <2>2. IF draft[w].late THEN x = Incomplete
        ELSE x = HashRange(Bytes, draft[w].start, draft[w].n)
    BY DEF Hash
  <2> HIDE DEF x
  <2>3. /\ d.head = draft[w].head /\ d.n = draft[w].n /\ d.prev = draft[w].prev
        /\ d.segment = draft[w].segment /\ d.start = draft[w].start /\ d.tail = draft[w].tail
        /\ d.late = draft[w].late /\ d.hash = x /\ d.late \in BOOLEAN
    BY <1>2 DEF Shape
  <2> HIDE DEF d
  <2>4. DraftIs("hashed", d)
    BY <1>3, <2>1, <2>2, <2>3 DEF DraftIs, Continues, Firings, Stated, Linked, Tailed
  <2> QED BY <1>3, <1>4, <2>1, <2>3, <2>4, DraftWritten
<1> QED BY <1>5, <1>6, <1>7, <1>8, <1>9, <1>10

\* A record that is published is true of the log in front of its writer.
LEMMA PublishTrue ==
    ASSUME DeathType, "recovery" \notin disturbed, FireInv, NEW w \in Writers, Publish(w),
           NEW k, k = Len(records) + 1
    PROVE  RecordBody(k)'
<1> DEFINE d == draft[w]
           r == records'[k]
<1>1. /\ fpc[w] = "hashed" /\ disturbed' = disturbed /\ RecordsStay
      /\ Len(records) \in Nat
      /\ Len(records') = k /\ DOMAIN records' = 1 .. k
  BY PublishSteps
<1>2. PICK c : r = [d EXCEPT !.chain = c]
  BY PublishSteps
<1>3. Content'[k] = IF d.segment THEN Content[d.prev] \o d.hash.sum ELSE d.hash.sum
  BY PublishSteps
<1>4. d \in Shape({<<>>}) /\ Bytes \in Seq(Record) /\ Len(Bytes) \in Nat
  BY BytesAre DEF DeathType, TypeInv, TypeOK
<1>5. /\ r.head = d.head /\ r.n = d.n /\ r.prev = d.prev /\ r.segment = d.segment
      /\ r.start = d.start /\ r.tail = d.tail /\ r.hash = d.hash
      /\ d.n \in Nat /\ d.start \in Nat /\ d.prev \in Nat
  BY <1>2, <1>4 DEF Shape
<1>6. /\ d.late => "deadline" \in disturbed
      /\ DraftIs("hashed", d)
  BY <1>1 DEF FireInv, DraftBody, DraftIs
<1>7. Bytes' = Bytes /\ Bytes \in Files' /\ (Intact' <=> Intact)
  BY WritersOnly DEF Files, Intact
<1> HIDE DEF d, r
<1>8. /\ d.n <= Len(Bytes) /\ (Intact => Len(d.head) <= d.n /\ IsPrefix(d.head, Bytes))
      /\ Continues(d) /\ d.prev <= Len(records)
      /\ d.segment => Content[d.prev] = SubSeq(Bytes, 1, d.start)
      /\ d.tail = HashRange(Bytes, TailStart(d.n), d.n) \/ d.late
      /\ \/ ~ d.late /\ d.hash = HashRange(Bytes, d.start, d.n)
         \/ d.late /\ d.hash = Incomplete
  BY <1>6 DEF DraftIs, Firings, Stated, Linked, Tailed
<1>9. d.start <= d.n /\ (~ d.segment => d.start = 0)
  BY <1>8 DEF Continues
<1>10. ~ d.late => d.hash.status = "complete" /\ d.hash.sum = SubSeq(Bytes, d.start + 1, d.n)
  <2>1. /\ HashRange(Bytes, d.start, d.n).status = "complete"
        /\ HashRange(Bytes, d.start, d.n).sum = SubSeq(Bytes, d.start + 1, d.n)
    BY <1>4, <1>5, <1>8, <1>9, HashType
  <2> QED BY <1>8, <2>1
<1>11. d.hash.status = "complete" => ~ d.late
  BY <1>8 DEF Incomplete
<1>12. Continues(records[k])' /\ records'[k].prev < k
  <2>1. records'[k].prev < k
    BY <1>1, <1>5, <1>8 DEF r
  <2>2. d.segment => /\ d.prev \in DOMAIN records'
                     /\ d.start = records'[d.prev].n
                     /\ records'[d.prev].hash.status = "complete"
                     /\ records'[d.prev].tail.status = "complete"
    BY <1>1, <1>8 DEF Continues, RecordsStay
  <2>3. Continues(records[k])' <=>
            /\ r.start <= r.n
            /\ ~ r.segment => r.start = 0
            /\ r.segment => /\ r.prev \in DOMAIN records'
                            /\ r.start = records'[r.prev].n
                            /\ records'[r.prev].hash.status = "complete"
                            /\ records'[r.prev].tail.status = "complete"
    BY <1>1 DEF Continues, r
  <2> QED BY <1>5, <1>9, <2>1, <2>2, <2>3
<1>13. ASSUME d.hash.status = "complete" PROVE Vouches(k, Bytes)'
  <2>1. Content'[k] = SubSeq(Bytes, 1, d.n)
    <3>1. d.hash.sum = SubSeq(Bytes, d.start + 1, d.n)
      BY <1>10, <1>11, <1>13
    <3>2. CASE d.segment
      <4>1. SubSeq(Bytes, 1, d.start) \o SubSeq(Bytes, d.start + 1, d.n) = SubSeq(Bytes, 1, d.n)
        BY <1>4, <1>5, <1>8, <1>9, CutsMeet
      <4> QED BY <1>3, <1>8, <3>1, <3>2, <4>1
    <3>3. CASE ~ d.segment
      <4>1. d.start + 1 = 1
        BY <1>9, <3>3
      <4> QED BY <1>3, <3>1, <3>3, <4>1
    <3> QED BY <3>2, <3>3
  <2>2. /\ d.hash = HashRange(Bytes, d.start, d.n)
        /\ d.tail = HashRange(Bytes, TailStart(d.n), d.n)
    BY <1>8, <1>11, <1>13
  <2>3. Vouches(k, Bytes)' <=> /\ r.n <= Len(Bytes)
                               /\ Intact => Len(r.head) <= r.n /\ IsPrefix(r.head, Bytes)
                               /\ Content'[k] = SubSeq(Bytes, 1, r.n)
                               /\ r.hash = HashRange(Bytes, r.start, r.n)
                               /\ r.tail = HashRange(Bytes, TailStart(r.n), r.n)
    BY <1>1, <1>7 DEF Vouches, r
  <2> QED BY <1>5, <1>8, <2>1, <2>2, <2>3
<1>14. r.hash.status = "complete" => \E f \in Files' : Vouches(k, f)'
  BY <1>5, <1>7, <1>13
<1>15. "deadline" \notin disturbed' => r.hash.status = "complete"
  BY <1>1, <1>5, <1>6, <1>10
<1> QED BY <1>1, <1>12, <1>14, <1>15 DEF RecordBody, r

\* What writers and records say stays true.
LEMMA FireStep ==
    ASSUME DeathType, FilesInv, FireInv, [DeathNext]_allVars
    PROVE  FireInv'
<1> SUFFICES ASSUME "recovery" \notin disturbed'
             PROVE  /\ \A w \in Writers : DraftBody(w)'
                    /\ \A k \in DOMAIN records' : RecordBody(k)'
  BY DEF FireInv
<1>1. disturbed \subseteq disturbed' /\ "recovery" \notin disturbed
  BY DisturbedGrows
<1>2. /\ \A w \in Writers : DraftBody(w)
      /\ \A k \in DOMAIN records : RecordBody(k)
  BY <1>1 DEF FireInv
<1>3. RecordsStay /\ Len(records) <= Len(records') /\ Len(records') \in Nat
  BY <1>1, RecordsAlwaysStay
<1>4. FilesStay
  BY FilesAlwaysStay
<1>5. DeathType' /\ (Intact' => Intact)
  BY DeathTypeStep, StoreStays DEF DeathType
<1>6. ASSUME NEW w \in Writers PROVE DraftBody(w)'
  <2>1. CASE fpc'[w] \notin Firings
    <3>1. draft'[w] = NoDraft
      BY <1>5, <2>1 DEF DeathType
    <3>2. NoDraft.late = FALSE
      BY DEF NoDraft
    <3> QED BY <2>1, <3>1, <3>2 DEF DraftBody, Firings, Stated, Linked, Tailed
  <2>2. CASE fpc'[w] \in Firings /\ fpc'[w] = fpc[w] /\ draft'[w] = draft[w]
    <3>1. IsPrefix(Bytes, Bytes') /\ Bytes' \in Seq(Record)
      BY <1>4, <2>2 DEF FilesStay
    <3> QED BY <1>1, <1>2, <1>3, <1>5, <2>2, <3>1, DraftKept
  <2>3. CASE ReadHead(w) \/ StatLog(w) \/ MissDeadline(w) \/ Link(w) \/ HashTail(w) \/ HashLog(w)
    BY <1>1, <2>3, WriterTrue
  <2> QED BY <2>1, <2>2, <2>3, Bystanders
<1>7. ASSUME NEW k \in DOMAIN records' PROVE RecordBody(k)'
  <2>1. CASE k \in DOMAIN records
    BY <1>1, <1>2, <1>3, <1>4, <1>5, <2>1, RecordKept
  <2>2. CASE k \notin DOMAIN records
    <3>1. PICK w \in Writers : Publish(w)
      BY <1>7, <2>2, RecordSteps
    <3>2. /\ Len(records) \in Nat /\ DOMAIN records = 1 .. Len(records)
          /\ DOMAIN records' = 1 .. Len(records) + 1
      BY <1>1, <3>1, PublishSteps
    <3>3. k = Len(records) + 1
      BY <1>7, <2>2, <3>2
    <3> QED BY <1>1, <3>1, <3>3, PublishTrue
  <2> QED BY <2>1, <2>2
<1> QED BY <1>6, <1>7

\* The record a writer publishes continues the one before.
LEMMA PublishLinks ==
    ASSUME DeathType, FireInv, ChainInv, disturbed = {}, NEW w \in Writers, Publish(w),
           NEW k, k = Len(records) + 1
    PROVE  LinkVerifies(k)'
<1> DEFINE d == draft[w]
           r == records'[k]
           c == IF d.segment /\ d.hash.status = "complete"
                THEN ChainDigest(records[d.prev], d) ELSE <<>>
<1>1. /\ fpc[w] = "hashed" /\ RecordsStay /\ Len(records) \in Nat /\ r = [d EXCEPT !.chain = c]
  BY PublishSteps
<1>2. d \in Shape({<<>>}) /\ Bytes \in Seq(Record) /\ Len(Bytes) \in Nat
  BY BytesAre DEF DeathType, TypeInv, TypeOK
<1> HIDE DEF c
<1>3. /\ r.n = d.n /\ r.prev = d.prev /\ r.segment = d.segment /\ r.chain = c
      /\ r.start = d.start /\ r.tail = d.tail /\ r.hash = d.hash
      /\ d.n \in Nat /\ d.start \in Nat
  BY <1>1, <1>2 DEF Shape
<1>4. ~ d.late /\ DraftIs("hashed", d)
  BY <1>1 DEF FireInv, DraftBody, DraftIs
<1>5. d.prev = k - 1
  BY <1>1 DEF ChainInv, Linked
<1> HIDE DEF d, r
<1>6. /\ d.n <= Len(Bytes) /\ Continues(d)
      /\ d.tail = HashRange(Bytes, TailStart(d.n), d.n)
      /\ d.hash = HashRange(Bytes, d.start, d.n)
  BY <1>4 DEF DraftIs, Stated, Linked, Tailed
<1>7. d.hash.status = "complete" /\ d.tail.status = "complete"
  <2>1. d.start <= d.n
    BY <1>6 DEF Continues
  <2>2. TailStart(d.n) \in Nat /\ TailStart(d.n) <= d.n
    BY <1>3, TailStarts
  <2>3. d.hash.status = "complete"
    BY <1>2, <1>3, <1>6, <2>1, HashType
  <2>4. d.tail.status = "complete"
    BY <1>2, <1>3, <1>6, <2>2, HashType
  <2> QED BY <2>3, <2>4
<1>8. ASSUME d.segment
      PROVE  /\ d.start = records'[k - 1].n /\ records'[k - 1].n <= d.n
             /\ records'[k - 1].hash.status = "complete"
             /\ records'[k - 1].tail.status = "complete"
             /\ c = ChainDigest(records'[k - 1], r)
  <2>1. /\ d.prev \in DOMAIN records /\ d.start = records[d.prev].n /\ d.start <= d.n
        /\ records[d.prev].hash.status = "complete"
        /\ records[d.prev].tail.status = "complete"
    BY <1>6, <1>8 DEF Continues
  <2>2. records'[k - 1] = records[d.prev]
    BY <1>1, <1>5, <2>1 DEF RecordsStay
  <2>3. c = ChainDigest(records[d.prev], d)
    BY <1>7, <1>8 DEF c
  <2>4. ChainDigest(records[d.prev], d) = ChainDigest(records[d.prev], r)
    BY <1>3 DEF ChainDigest
  <2> QED BY <2>1, <2>2, <2>3, <2>4
<1>9. LinkVerifies(k)' <=>
          /\ r.prev = k - 1
          /\ r.tail.status = "complete" /\ r.hash.status = "complete"
          /\ r.segment => /\ r.start = records'[k - 1].n /\ records'[k - 1].n <= r.n
                          /\ records'[k - 1].hash.status = "complete"
                          /\ records'[k - 1].tail.status = "complete"
                          /\ r.chain = ChainDigest(records'[k - 1], r)
  BY DEF LinkVerifies, r, ChainDigest, Anchor
<1> QED BY <1>3, <1>5, <1>7, <1>8, <1>9

\* Undisturbed writers keep the chain.
LEMMA ChainStep ==
    ASSUME DeathType, FireInv, ChainInv, [DeathNext]_allVars
    PROVE  ChainInv'
<1> SUFFICES ASSUME disturbed' = {}
             PROVE  /\ \A v, w \in Writers : fpc'[v] \in Firings /\ fpc'[w] \in Firings => v = w
                    /\ \A w \in Writers : fpc'[w] \in Linked => draft'[w].prev = Len(records')
                    /\ ChainVerifies'
  BY DEF ChainInv
<1>1. disturbed = {}
  BY DisturbedGrows
<1>2. /\ \A v, w \in Writers : fpc[v] \in Firings /\ fpc[w] \in Firings => v = w
      /\ \A w \in Writers : fpc[w] \in Linked => draft[w].prev = Len(records)
      /\ \A k \in DOMAIN records : LinkVerifies(k)
  BY <1>1 DEF ChainInv, ChainVerifies
<1>3. /\ \A w \in Writers : DraftBody(w)
      /\ \A k \in DOMAIN records : RecordBody(k)
  BY <1>1 DEF FireInv
<1>4. /\ fpc \in [Writers -> {"off", "watching", "fire"} \cup Firings]
      /\ draft \in [Writers -> Shape({<<>>})]
  BY DEF DeathType
<1>5. ASSUME NEW w \in Writers, ReadHead(w)
      PROVE  /\ \A v \in Writers : fpc[v] \notin Firings
             /\ fpc' = [fpc EXCEPT ![w] = "head"]
  BY <1>5, WriterSteps DEF ReadHead, Firing, Firings, Writes
<1>6. ASSUME NEW w \in Writers, fpc'[w] \in Firings PROVE fpc[w] \in Firings \/ ReadHead(w)
  <2>1. StatLog(w) \/ MissDeadline(w) \/ Link(w) \/ HashTail(w) \/ HashLog(w) => fpc[w] \in Firings
    BY WriterSteps, LinkSteps DEF Firings
  <2> QED BY <1>6, <2>1, Bystanders
<1>7. ASSUME NEW v \in Writers, NEW w \in Writers, fpc'[v] \in Firings, fpc'[w] \in Firings
      PROVE  v = w
  <2>1. CASE fpc[v] \in Firings /\ fpc[w] \in Firings
    BY <1>2, <2>1
  <2>2. ASSUME NEW u \in Writers, ReadHead(u) PROVE v = u /\ w = u
    BY <1>4, <1>5, <1>7, <2>2
  <2> QED BY <1>6, <1>7, <2>1, <2>2
<1>8. ASSUME NEW w \in Writers, fpc'[w] \in Linked PROVE draft'[w].prev = Len(records')
  <2>0. fpc'[w] \in Firings
    BY <1>8 DEF Linked, Firings
  <2>1. CASE fpc'[w] = fpc[w] /\ draft'[w] = draft[w]
    <3>1. ASSUME NEW v \in Writers, Publish(v) PROVE FALSE
      <4>1. fpc[v] = "hashed" /\ fpc' = [fpc EXCEPT ![v] = "off"]
        BY <3>1 DEF Publish, Step
      <4>2. v = w
        BY <1>2, <2>0, <2>1, <4>1 DEF Firings
      <4> QED BY <1>4, <2>0, <4>1, <4>2 DEF Firings
    <3>2. records' = records
      BY <3>1, RecordSteps
    <3> QED BY <1>2, <1>8, <2>1, <3>2
  <2>2. CASE ReadHead(w) \/ StatLog(w)
    <3>1. fpc'[w] \in {"head", "stat"}
      BY <1>4, <2>2, WriterSteps DEF Writes
    <3> QED BY <1>8, <3>1 DEF Linked
  <2>3. CASE MissDeadline(w)
    BY <2>3 DEF MissDeadline
  <2>4. CASE Link(w)
    <3>1. ~ draft[w].late /\ records' = records
      BY <1>1, <1>3, <2>4 DEF DraftBody, Link
    <3>2. PICK prev \in 0 .. Len(records), segment \in BOOLEAN :
              /\ prev = Len(records) \/ draft[w].late
              /\ Writes(w, "linked", [draft[w] EXCEPT
                     !.prev = prev, !.segment = segment,
                     !.start = IF segment THEN records[prev].n ELSE 0])
      BY <2>4, LinkSteps
    <3>3. draft'[w].prev = prev
      BY <1>4, <3>2 DEF Writes, Shape
    <3> QED BY <3>1, <3>2, <3>3
  <2>5. CASE HashTail(w) \/ HashLog(w)
    <3>1. records' = records /\ draft'[w].prev = draft[w].prev
      BY <1>4, <2>5 DEF HashTail, HashLog, Shape
    <3>2. fpc[w] \in Linked
      BY <2>5, WriterSteps DEF Linked
    <3> QED BY <1>2, <3>1, <3>2
  <2> QED BY <2>0, <2>1, <2>2, <2>3, <2>4, <2>5, Bystanders
<1>9. ASSUME NEW k \in DOMAIN records' PROVE LinkVerifies(k)'
  <2>1. CASE k \in DOMAIN records
    <3>1. RecordsStay
      BY <1>1, RecordsAlwaysStay
    <3>2. records'[k] = records[k]
      BY <2>1, <3>1 DEF RecordsStay
    <3>3. LinkVerifies(k) /\ (records[k].segment => records'[k - 1] = records[k - 1])
      <4>1. LinkVerifies(k) /\ records[k].prev = k - 1
        BY <1>2, <2>1 DEF LinkVerifies
      <4>2. records[k].segment => k - 1 \in DOMAIN records
        BY <1>3, <2>1, <4>1 DEF RecordBody, Continues
      <4> QED BY <3>1, <4>1, <4>2 DEF RecordsStay
    <3> QED BY <3>2, <3>3 DEF LinkVerifies, ChainDigest, Anchor
  <2>2. CASE k \notin DOMAIN records
    <3>1. PICK w \in Writers : Publish(w)
      BY <1>9, <2>2, RecordSteps
    <3>2. /\ Len(records) \in Nat /\ DOMAIN records = 1 .. Len(records)
          /\ DOMAIN records' = 1 .. Len(records) + 1
      BY <1>1, <3>1, PublishSteps
    <3>3. k = Len(records) + 1
      BY <1>9, <2>2, <3>2
    <3> QED BY <1>1, <3>1, <3>3, PublishLinks
  <2> QED BY <2>1, <2>2
<1> QED BY <1>7, <1>8, <1>9 DEF ChainVerifies

-----------------------------------------------------------------------------
(* The theorems.                                                            *)

\* The invariant holds of every reachable state.
LEMMA DeathInvariant == DeathSpec => []DeathInv
<1>1. DeathInit => DeathInv
  <2> SUFFICES ASSUME DeathInit PROVE DeathInv
    OBVIOUS
  <2>1. DeathType
    BY DeathTypeInit
  <2>2. /\ rest = <<>> /\ cuts = {} /\ records = <<>> /\ disturbed = {}
        /\ \A w \in Writers : fpc[w] = "off" /\ draft[w] = NoDraft
        /\ log = IF Initialised THEN <<Genesis>> ELSE <<>>
        /\ written = Len(log)
    BY DEF DeathInit, Init
  <2>3. Files = {log}
    <3>1. Bytes = log
      BY <2>1, <2>2, BytesAre DEF DeathType, TypeInv, TypeOK
    <3> QED BY <2>2, <3>1 DEF Files
  <2>4. FilesInv
    <3>1. \A i \in DOMAIN log : i = 1 /\ log[i] = Genesis /\ written = 1
      BY <2>2
    <3>2. Genesis.id <= 1 /\ Genesis.seq # 0
      BY DEF Genesis
    <3> QED BY <2>3, <3>1, <3>2 DEF FilesInv
  <2>5. DOMAIN records = {}
    BY <2>2
  <2>6. FireInv
    BY <2>2, <2>5 DEF FireInv, DraftBody, NoDraft, Firings, Stated, Linked, Tailed
  <2>7. ChainInv
    BY <2>2, <2>5 DEF ChainInv, ChainVerifies, Firings, Linked
  <2> QED BY <2>1, <2>4, <2>6, <2>7 DEF DeathInv
<1>2. DeathInv /\ [DeathNext]_allVars => DeathInv'
  BY DeathTypeStep, FilesStep, FireStep, ChainStep DEF DeathInv
<1> QED BY <1>1, <1>2, PTL DEF DeathSpec

\* Every complete record vouches for bytes the log once held, and for the tree head it
\* quotes, although its segment was appended to an older record on the strength of a
\* tail hash alone, while a new daemon appended, other writers overlapped and the
\* deadline passed (fire, hashLog).  What is not covered is a recovery in the middle of
\* fire and, for the tree head, a frame written short (Append), behind whose torn bytes
\* the head's later records lie.
THEOREM RecordsAlwaysTrue == DeathSpec => []RecordsTrue
<1>1. DeathInv => RecordsTrue
  <2> SUFFICES ASSUME DeathInv, "recovery" \notin disturbed, NEW k \in DOMAIN records,
                      records[k].hash.status = "complete"
               PROVE  /\ Intact => IsPrefix(records[k].head, Content[k])
                      /\ \E cells \in cuts \cup {Bytes} : IsPrefix(Content[k], cells)
    BY DEF RecordsTrue
  <2> DEFINE r == records[k]
  <2>1. PICK f \in Files : Vouches(k, f)
    BY DEF DeathInv, FireInv, RecordBody
  <2>2. f \in Seq(Record) /\ r.head \in Seq(Record) /\ r.n \in Nat
    BY BytesAre DEF DeathInv, DeathType, TypeInv, TypeOK, Files, Shape
  <2>3. /\ r.n <= Len(f) /\ (Intact => Len(r.head) <= r.n /\ IsPrefix(r.head, f))
        /\ Content[k] = SubSeq(f, 1, r.n)
    BY <2>1 DEF Vouches
  <2> HIDE DEF r
  <2>4. /\ IsPrefix(SubSeq(f, 1, r.n), f)
        /\ Intact => IsPrefix(r.head, SubSeq(f, 1, r.n))
    BY <2>2, <2>3, PrefixOfCut
  <2> QED BY <2>3, <2>4 DEF r, Files
<1> QED BY <1>1, DeathInvariant, PTL

\* The records of undisturbed writers form one chain that verify-death accepts: each
\* links to the one before, is complete, and carries the right chain digest (fire,
\* chainDigest, atomicRecord).
THEOREM ChainAlwaysVerifies == DeathSpec => []ChainVerifies
<1>1. DeathInv => ChainVerifies
  BY DEF DeathInv, ChainInv, ChainVerifies
<1> QED BY <1>1, DeathInvariant, PTL

\* verify-death --log compares a tail and a range per record, and so finds out
\* whether all that the records vouch for is still in the log.
THEOREM LogVerdictAlwaysRight == DeathSpec => []LogVerdictRight
<1>1. DeathInv => LogVerdictRight
  <2> SUFFICES ASSUME DeathInv, disturbed \cap {"recovery", "deadline"} = {},
                      NEW k \in DOMAIN records
               PROVE  LogVerifies(records[k]) <=> IsPrefix(Content[k], Bytes)
    BY DEF LogVerdictRight
  <2> DEFINE r == records[k]
  <2>0. "recovery" \notin disturbed /\ "deadline" \notin disturbed
    OBVIOUS
  <2>1. r.hash.status = "complete" /\ Continues(r) /\ \E f \in Files : Vouches(k, f)
    BY <2>0 DEF DeathInv, FireInv, RecordBody
  <2>2. PICK f \in Files : Vouches(k, f)
    BY <2>1
  <2>3. /\ f \in Seq(Record) /\ Bytes \in Seq(Record) /\ Bytes \in Files
        /\ r.n \in Nat /\ r.start \in Nat
    BY BytesAre DEF DeathInv, DeathType, TypeInv, TypeOK, Files, Shape
  <2>4. /\ r.n <= Len(f) /\ Content[k] = SubSeq(f, 1, r.n)
        /\ r.hash = HashRange(f, r.start, r.n)
        /\ r.tail = HashRange(f, TailStart(r.n), r.n)
    BY <2>2 DEF Vouches
  <2>5. TailStart(r.n) \in Nat /\ TailStart(r.n) <= r.n /\ r.start <= r.n
    BY <2>1, <2>3, TailStarts DEF Continues
  <2>6. LogVerifies(r) <=> /\ HashRange(Bytes, r.start, r.n) = r.hash
                           /\ r.tail.status = "complete" =>
                                  HashRange(Bytes, TailStart(r.n), r.n) = r.tail
    BY <2>1 DEF LogVerifies
  <2> HIDE DEF r
  <2>7. r.tail.status = "complete"
    BY <2>3, <2>4, <2>5, HashType
  <2>8. ASSUME LogVerifies(r) PROVE IsPrefix(Content[k], Bytes)
    <3>1. HashRange(Bytes, TailStart(r.n), r.n) = HashRange(f, TailStart(r.n), r.n)
      BY <2>4, <2>6, <2>7, <2>8
    <3>2. r.n <= Len(Bytes)
      <4>1. HashRange(Bytes, TailStart(r.n), r.n).status = "complete"
        BY <2>4, <2>7, <3>1
      <4>2. r.n <= Len(Bytes) \/ TailStart(r.n) = r.n
        BY <2>3, <2>5, <4>1, HashType
      <4> QED BY <2>3, <4>2, TailStarts
    <3>3. SubSeq(f, 1, r.n) = SubSeq(Bytes, 1, r.n)
      BY <2>3, <2>4, <3>1, <3>2, SameTail DEF DeathInv
    <3> QED BY <2>3, <2>4, <3>2, <3>3, PrefixOfCut
  <2>9. ASSUME IsPrefix(Content[k], Bytes) PROVE LogVerifies(r)
    <3> DEFINE c == SubSeq(f, 1, r.n)
    <3>1. c \in Seq(Record) /\ Len(c) = r.n /\ IsPrefix(c, f) /\ IsPrefix(c, Bytes)
      <4>1. IsPrefix(c, f)
        BY <2>3, <2>4, PrefixOfCut
      <4>2. 0 \in Nat /\ 0 <= r.n /\ 0 + 1 = 1 /\ r.n - 0 = r.n
        BY <2>3
      <4>3. SubSeq(f, 0 + 1, r.n) \in Seq(Record) /\ Len(SubSeq(f, 0 + 1, r.n)) = r.n - 0
        BY <2>3, <2>4, <4>2, CutFacts
      <4> QED BY <2>4, <2>9, <4>1, <4>2, <4>3
    <3> HIDE DEF c
    <3>2. r.n <= Len(c)
      BY <2>3, <3>1
    <3>3. /\ HashRange(Bytes, TailStart(r.n), r.n) = HashRange(c, TailStart(r.n), r.n)
          /\ HashRange(f, TailStart(r.n), r.n) = HashRange(c, TailStart(r.n), r.n)
      BY <2>3, <3>1, <3>2, FrontStays
    <3>4. /\ HashRange(Bytes, r.start, r.n) = HashRange(c, r.start, r.n)
          /\ HashRange(f, r.start, r.n) = HashRange(c, r.start, r.n)
      BY <2>3, <2>5, <3>1, <3>2, HashStays
    <3> QED BY <2>4, <2>6, <3>3, <3>4
  <2> QED BY <2>8, <2>9 DEF r
<1> QED BY <1>1, DeathInvariant, PTL
=============================================================================
