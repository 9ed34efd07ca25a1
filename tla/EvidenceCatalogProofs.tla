----------------------- MODULE EvidenceCatalogProofs -----------------------
(***************************************************************************)
(* Theorems about EvidenceCatalog, for every number of items, records,     *)
(* failures and kills and every set of nodes and cases, on a log that      *)
(* witness-pd init has begun.                                              *)
(***************************************************************************)
EXTENDS EvidenceCatalog, WitnessStoreProofs

-----------------------------------------------------------------------------
(* witness-pd: the inductive invariant, part by part.                       *)

\* The states of a store that is open.
Running == {"up", "framed"}

\* The store is well formed, and every record of the log has its event.
PDType ==
    /\ TypeInv /\ StoreInv
    /\ events \in Seq(ToSet(events)) /\ Len(events) = written
    /\ \A n \in 1 .. Len(log) : log[n].id \in 1 .. written

\* Where a command can be while its store is in some state, and when the catalog on
\* the disk is the one in memory.
Control ==
    /\ stage \in {"none", "loaded", "saving", "saved", "done", "failed", "export"}
    /\ stage # "none" => pc \in Running
    /\ stage \in {"loaded", "saving", "done", "failed"} => pc = "up"
    /\ stage = "none" => pc # "framed"
    /\ torn \in BOOLEAN
    /\ stage = "saving" => torn
    /\ stage \in {"loaded", "saved", "done", "export"} => ~ torn /\ items = catalog

\* The events told with one more behind them.
With(told, K, e) == [n \in 1 .. K + 1 |-> IF n = K + 1 THEN e ELSE told[n]]

\* What the log will tell once the running command is through.
Expected ==
    IF stage \in {"saving", "saved"} THEN With(Told(head.recs), Len(head.recs), cmd)
    ELSE Told(head.recs)

\* The log still verifies up to its head, and a command that changes an item runs on
\* a log the head covers completely.
Live ==
    /\ junk # "frame"
    /\ head.recs # <<>>
    /\ IsPrefix(head.recs, log)
    /\ pc \in {"recover", "copied"} => Committed(head, log) = Len(head.recs)
    /\ pc \in Running => IsPrefix(log, leaves) /\ (junk = "none" => leaves = log)
    /\ pc \in Running /\ stage \notin {"failed", "export"} => junk = "none"
    /\ pc = "up" /\ stage \notin {"failed", "export"} => log = head.recs
    /\ pc = "framed" /\ stage = "saved" => Told(log) = Expected
    /\ ~ (pc = "framed" /\ stage = "saved") =>
         \A n \in Len(head.recs) + 1 .. Len(log) :
             Told(log)[n].type \notin ChangeTypes \/ Told(log)[n].item \in cut

\* Or a short write has made it unreadable for good: nothing is added to it any more.
Dead ==
    \/ junk = "frame" /\ pc \notin {"recover", "copied"}
    \/ /\ junk = "partial"
       /\ log # <<>>
       /\ Len(head.recs) > Len(log)
       /\ (stage = "none" /\ pc \in {"down", "refused"}) \/ stage = "export"
       /\ pc \in Running => Len(leaves) > Len(log)

\* The history of an item begins with its intake, and a hold protects it.
SoundOn(told, i) ==
    /\ History(told, i) # {} => told[Min(History(told, i))].type = "intake"
    /\ \A n \in History(told, i) :
         told[n].type \in {"transfer", "destroyed"} =>
             Latest(told, {m \in History(told, i) : m < n}, HoldTypes).type # "hold_set"

\* ... of every item whose commands all reported success.
Sound(told) == \A i \in Items \ cut : SoundOn(told, i)

\* A catalog has what the events told say of an item.
AgreesOn(cat, told, i) ==
    LET h == History(told, i)
    IN IF h = {} THEN i \notin DOMAIN cat ELSE i \in DOMAIN cat /\ cat[i] = LogSays(told, h)

\* ... of every item whose commands all reported success.
Agrees(cat, told) == \A i \in Items \ cut : AgreesOn(cat, told, i)

\* Between two commands the catalog that counts is the one on the disk, if it can be
\* read; a command that got as far as loading it has its own.
Shown   == IF stage \in {"none", "failed"} THEN catalog ELSE items
Claimed == stage \notin {"none", "failed"} \/ ~ torn

\* The catalog that counts has what the log says, or will say when the command is through.
CatBody == Claimed => Agrees(Shown, Expected)

\* A bundle lists the case's entries up to some place that the head covers.
BundleBody ==
    \A b \in bundles : \E k \in 0 .. Len(head.recs) :
        b.entries = Restrict(log, {n \in OfCase(b.case) : n <= k})

\* The inductive invariant.
CatalogInv ==
    /\ PDType /\ Control
    /\ Sound(Told(log))
    /\ Live \/ Dead
    /\ Live => Sound(Expected) /\ CatBody /\ BundleBody

-----------------------------------------------------------------------------
(* What a log tells of an item.                                             *)

\* A set of places has a least and a greatest one.
LEMMA Extremes ==
    ASSUME NEW K \in Nat, NEW T, T \subseteq 1 .. K, T # {}
    PROVE  /\ Min(T) \in T /\ \A y \in T : Min(T) <= y
           /\ Max(T) \in T /\ \A y \in T : y <= Max(T)
<1>1. \E m \in T : \A y \in T : m =< y
  <2>1. T \subseteq Nat
    OBVIOUS
  <2> QED BY <2>1, LeastNumber
<1>2. Min(T) \in T /\ \A y \in T : Min(T) <= y
  BY <1>1 DEF Min
<1> DEFINE U == {K - y : y \in T}
<1>3. \E m \in U : \A z \in U : m <= z
  <2>1. U \subseteq Nat
    OBVIOUS
  <2>2. U # {}
    OBVIOUS
  <2> HIDE DEF U
  <2> QED BY <2>1, <2>2, LeastNumber
<1>4. PICK x \in T : \A z \in U : K - x <= z
  BY <1>3
<1>5. \A y \in T : x >= y
  <2> TAKE y \in T
  <2>1. K - y \in U
    OBVIOUS
  <2>2. K - x <= K - y
    BY <1>4, <2>1
  <2>3. x \in Int /\ y \in Int
    OBVIOUS
  <2> QED BY <2>2, <2>3
<1>6. Max(T) \in T /\ \A y \in T : Max(T) >= y
  BY <1>5 DEF Max
<1> QED BY <1>2, <1>6

\* Places in the first K of a log.
Within(h, K) == h \subseteq 1 .. K

\* Places that two logs share, and that tell the same, are read the same.
LEMMA LatestSame ==
    ASSUME NEW K \in Nat, NEW t, NEW u, NEW h, Within(h, K),
           \A n \in h : t[n] = u[n],
           NEW types, \E x \in h : t[x].type \in types
    PROVE  Latest(t, h, types) = Latest(u, h, types)
<1> DEFINE T == {n \in h : t[n].type \in types}
           U == {n \in h : u[n].type \in types}
<1>1. T = U /\ T \subseteq 1 .. K /\ T # {}
  BY DEF Within
<1>2. Max(T) \in T
  BY <1>1, Extremes
<1> QED BY <1>1, <1>2 DEF Latest

\* Two logs have the same history of an item.
SameHistory(t, u, i) ==
    /\ History(t, i) = History(u, i)
    /\ \A n \in History(t, i) : t[n] = u[n]

\* Then they say the same of it, and a catalog that agrees with one agrees with the
\* other.
LEMMA SameSays ==
    ASSUME NEW K \in Nat, NEW t, NEW u, NEW i, DOMAIN t \subseteq 1 .. K,
           SameHistory(t, u, i), SoundOn(t, i)
    PROVE  /\ SoundOn(u, i)
           /\ History(t, i) # {} => LogSays(t, History(t, i)) = LogSays(u, History(u, i))
           /\ \A cat : AgreesOn(cat, t, i) => AgreesOn(cat, u, i)
<1> DEFINE h == History(t, i)
<1>1. h \subseteq 1 .. K /\ h = History(u, i) /\ \A n \in h : t[n] = u[n]
  BY DEF History, SameHistory
<1>2. CASE h = {}
  BY <1>1, <1>2 DEF SoundOn, AgreesOn
<1>3. CASE h # {}
  <2> DEFINE x == Min(h)
  <2>1. x \in h /\ t[x].type = "intake" /\ \A y \in h : x <= y
    BY <1>1, <1>3, Extremes DEF SoundOn
  <2> HIDE DEF x, h
  <2>2. /\ Latest(t, h, {"intake", "transfer"}) = Latest(u, h, {"intake", "transfer"})
        /\ Latest(t, h, HoldTypes) = Latest(u, h, HoldTypes)
    <3>1. /\ \E n \in h : t[n].type \in {"intake", "transfer"}
          /\ \E n \in h : t[n].type \in HoldTypes
      BY <2>1 DEF HoldTypes
    <3>2. Within(h, K)
      BY <1>1 DEF Within
    <3> QED BY <1>1, <3>1, <3>2, LatestSame
  <2>3. LogSays(t, h) = LogSays(u, h)
    <3>1. t[Min(h)] = u[Min(h)]
      BY <1>1, <2>1 DEF x
    <3>2. (\E n \in h : t[n].type = "destroyed") <=> (\E n \in h : u[n].type = "destroyed")
      BY <1>1
    <3> QED BY <2>2, <3>1, <3>2 DEF LogSays
  <2>4. ASSUME NEW n \in h, u[n].type \in {"transfer", "destroyed"}
        PROVE  Latest(u, {m \in h : m < n}, HoldTypes).type # "hold_set"
    <3> DEFINE b == {m \in h : m < n}
    <3>1. x \in b
      <4>1. x # n
        BY <1>1, <2>1, <2>4
      <4> QED BY <1>1, <2>1, <4>1
    <3>2. Within(b, K)
      BY <1>1 DEF Within
    <3>5. \A m \in b : t[m] = u[m]
      BY <1>1
    <3>3. Latest(t, b, HoldTypes) = Latest(u, b, HoldTypes)
      <4>1. \E m \in b : t[m].type \in HoldTypes
        BY <2>1, <3>1 DEF HoldTypes
      <4> HIDE DEF b
      <4> QED BY <3>2, <3>5, <4>1, LatestSame
    <3>4. Latest(t, b, HoldTypes).type # "hold_set"
      BY <1>1, <2>4 DEF SoundOn, h
    <3> QED BY <3>3, <3>4
  <2>5. u[x].type = "intake"
    BY <1>1, <2>1
  <2>6. SoundOn(u, i)
    <3>1. h = History(u, i)
      BY <1>1
    <3> QED BY <2>4, <2>5, <3>1 DEF SoundOn, x
  <2>7. \A cat : AgreesOn(cat, t, i) => AgreesOn(cat, u, i)
    BY <1>1, <2>3 DEF AgreesOn, h
  <2> QED BY <1>1, <2>3, <2>6, <2>7 DEF h
<1> QED BY <1>2, <1>3

\* One more event adds its place to the history of its item, if it changes it, and
\* leaves every other history alone.
LEMMA HistoryWith ==
    ASSUME NEW K \in Nat, NEW t, DOMAIN t = 1 .. K, NEW e, NEW i, NEW u, u = With(t, K, e)
    PROVE  /\ DOMAIN u = 1 .. K + 1 /\ u[K + 1] = e /\ \A n \in 1 .. K : u[n] = t[n]
           /\ History(t, i) \subseteq 1 .. K
           /\ IF e.item = i /\ e.type \in ChangeTypes
              THEN History(u, i) = History(t, i) \cup {K + 1}
              ELSE SameHistory(u, t, i) /\ SameHistory(t, u, i)
<1>1. /\ DOMAIN u = 1 .. K + 1 /\ u[K + 1] = e
      /\ \A n \in 1 .. K : u[n] = t[n]
  BY DEF With
<1>2. 1 .. K + 1 = (1 .. K) \cup {K + 1} /\ K + 1 \notin 1 .. K
  OBVIOUS
<1>3. History(t, i) \subseteq 1 .. K
  BY DEF History
<1>4. ASSUME e.item = i, e.type \in ChangeTypes
      PROVE  History(u, i) = History(t, i) \cup {K + 1}
  BY <1>1, <1>2, <1>4 DEF History
<1>5. ASSUME ~ (e.item = i /\ e.type \in ChangeTypes)
      PROVE  SameHistory(u, t, i) /\ SameHistory(t, u, i)
  <2>1. History(u, i) = History(t, i)
    BY <1>1, <1>2, <1>5 DEF History
  <2> QED BY <1>1, <1>3, <2>1 DEF SameHistory
<1> QED BY <1>1, <1>3, <1>4, <1>5

\* The latest of some types, once an event has been added at the end.
LEMMA LatestWith ==
    ASSUME NEW K \in Nat, NEW N, N = K + 1, NEW h, Within(h, K),
           NEW g, g = h \cup {N}, NEW u, NEW types
    PROVE  Latest(u, g, types) =
             IF u[N].type \in types THEN u[N] ELSE Latest(u, h, types)
<1> DEFINE U == {n \in g : u[n].type \in types}
<1>1. ASSUME u[N].type \in types PROVE Max(U) = N
  <2>1. U \subseteq 1 .. N /\ N \in U
    <3>1. h \cup {N} \subseteq 1 .. N
      BY DEF Within
    <3>2. U \subseteq h \cup {N}
      OBVIOUS
    <3>3. N \in U
      BY <1>1
    <3> HIDE DEF U
    <3> QED BY <3>1, <3>2, <3>3
  <2> HIDE DEF U
  <2>2. Max(U) \in U /\ \A y \in U : y <= Max(U)
    <3>1. N \in Nat
      OBVIOUS
    <3> QED BY <2>1, <3>1, Extremes
  <2>3. N <= Max(U) /\ Max(U) \in 1 .. N
    BY <2>1, <2>2
  <2> QED BY <2>3
<1>2. ASSUME u[N].type \notin types PROVE U = {n \in h : u[n].type \in types}
  BY <1>2
<1> QED BY <1>1, <1>2 DEF Latest

\* What the log says of an item after its intake.
LEMMA SaysIntake ==
    ASSUME NEW K \in Nat, NEW t, DOMAIN t = 1 .. K, NEW e, e.type = "intake",
           NEW i, e.item = i, History(t, i) = {}, NEW u, u = With(t, K, e)
    PROVE  /\ SoundOn(u, i) /\ History(u, i) # {}
           /\ LogSays(u, History(u, i)) =
                [case |-> e.case, node |-> e.node, hold |-> FALSE, status |-> "active"]
<1>1. History(u, i) = {K + 1} /\ u[K + 1] = e
  <2>1. e.type \in ChangeTypes
    BY DEF ChangeTypes
  <2>2. u[K + 1] = e /\ History(u, i) = History(t, i) \cup {K + 1}
    BY <2>1, HistoryWith
  <2> QED BY <2>2
<1>2. Min({K + 1}) = K + 1
  BY DEF Min
<1>3. \A types : e.type \in types => Latest(u, {K + 1}, types) = e
  <2> SUFFICES ASSUME NEW types, e.type \in types PROVE Latest(u, {K + 1}, types) = e
    OBVIOUS
  <2>1. {n \in {K + 1} : u[n].type \in types} = {K + 1}
    BY <1>1
  <2>2. Max({K + 1}) = K + 1
    BY DEF Max
  <2> QED BY <1>1, <2>1, <2>2 DEF Latest
<1>4. Latest(u, {K + 1}, {"intake", "transfer"}) = e /\ Latest(u, {K + 1}, HoldTypes) = e
  BY <1>3 DEF HoldTypes
<1>5. ~ \E n \in {K + 1} : u[n].type = "destroyed"
  BY <1>1
<1>6. LogSays(u, {K + 1}) =
        [case |-> e.case, node |-> e.node, hold |-> FALSE, status |-> "active"]
  BY <1>1, <1>2, <1>4, <1>5 DEF LogSays
<1>7. SoundOn(u, i)
  BY <1>1, <1>2 DEF SoundOn
<1> QED BY <1>1, <1>6, <1>7

\* What the log says of an item after one more event on it.
LEMMA SaysNext ==
    ASSUME NEW K \in Nat, NEW t, DOMAIN t = 1 .. K, NEW e, e.type \in ChangeTypes,
           NEW i, e.item = i, NEW h, h = History(t, i), h # {}, SoundOn(t, i),
           e.type \in {"transfer", "destroyed"} => ~ LogSays(t, h).hold,
           NEW u, u = With(t, K, e)
    PROVE  /\ SoundOn(u, i) /\ History(u, i) # {}
           /\ LogSays(u, History(u, i)) =
                [case   |-> LogSays(t, h).case,
                 node   |-> IF e.type \in {"intake", "transfer"} THEN e.node
                            ELSE LogSays(t, h).node,
                 hold   |-> IF e.type \in HoldTypes THEN e.type = "hold_set"
                            ELSE LogSays(t, h).hold,
                 status |-> IF e.type = "destroyed" THEN "destroyed" ELSE LogSays(t, h).status]
<1> DEFINE g == h \cup {K + 1}
           x == Min(h)
<1>1. /\ u[K + 1] = e /\ \A n \in 1 .. K : u[n] = t[n]
      /\ h \subseteq 1 .. K /\ History(u, i) = g
  <2>1. /\ u[K + 1] = e /\ \A n \in 1 .. K : u[n] = t[n]
        /\ History(t, i) \subseteq 1 .. K
        /\ IF e.item = i /\ e.type \in ChangeTypes
           THEN History(u, i) = History(t, i) \cup {K + 1}
           ELSE SameHistory(u, t, i) /\ SameHistory(t, u, i)
    BY HistoryWith
  <2> QED BY <2>1
<1>2. x \in h /\ t[x].type = "intake" /\ \A y \in h : x <= y
  BY <1>1, Extremes DEF SoundOn
<1>3. \A n \in h : u[n] = t[n] /\ t[n] = u[n]
  BY <1>1
<1>4. Min(g) = x
  <2>1. x \in g /\ \A y \in g : x <= y
    BY <1>1, <1>2
  <2>2. g \subseteq 1 .. K + 1 /\ g # {} /\ K + 1 \in Nat
    BY <1>1
  <2> HIDE DEF g, x
  <2>3. Min(g) \in g /\ \A y \in g : Min(g) <= y
    BY <2>2, Extremes
  <2>4. Min(g) <= x /\ x <= Min(g)
    BY <2>1, <2>3
  <2>5. g \subseteq Int
    BY <2>2
  <2>6. x \in Int /\ Min(g) \in Int
    BY <2>1, <2>3, <2>5
  <2> QED BY <2>4, <2>6
<1>5. /\ \E n \in h : t[n].type \in {"intake", "transfer"}
      /\ \E n \in h : t[n].type \in HoldTypes
  BY <1>2 DEF HoldTypes
<1>6. \A types : /\ e.type \in types => Latest(u, g, types) = e
                 /\ e.type \notin types /\ (\E n \in h : t[n].type \in types) =>
                      Latest(u, g, types) = Latest(t, h, types)
  <2> TAKE types
  <2>1. Within(h, K)
    BY <1>1 DEF Within
  <2>2. Latest(u, g, types) = IF u[K + 1].type \in types THEN u[K + 1] ELSE Latest(u, h, types)
    <3> DEFINE N == K + 1
    <3>1. N = K + 1
      OBVIOUS
    <3> HIDE DEF N
    <3>2. g = h \cup {N}
      BY <3>1
    <3> HIDE DEF g
    <3>3. Latest(u, g, types) = IF u[N].type \in types THEN u[N] ELSE Latest(u, h, types)
      BY <2>1, <3>1, <3>2, LatestWith
    <3> QED BY <3>1, <3>3
  <2>3. (\E n \in h : t[n].type \in types) => Latest(t, h, types) = Latest(u, h, types)
    BY <1>3, <2>1, LatestSame
  <2> QED BY <1>1, <2>2, <2>3
<1> HIDE DEF g, x
<1>7. /\ Latest(u, g, {"intake", "transfer"}).node =
           IF e.type \in {"intake", "transfer"} THEN e.node ELSE LogSays(t, h).node
      /\ (Latest(u, g, HoldTypes).type = "hold_set") =
           IF e.type \in HoldTypes THEN e.type = "hold_set" ELSE LogSays(t, h).hold
  BY <1>5, <1>6 DEF LogSays
<1>8. (\E n \in g : u[n].type = "destroyed") <=>
        (e.type = "destroyed" \/ \E n \in h : t[n].type = "destroyed")
  BY <1>1, <1>3 DEF g
<1>9. u[x].case = t[x].case /\ u[x].type = "intake"
  BY <1>2, <1>3
<1>10. LogSays(u, g) =
         [case   |-> LogSays(t, h).case,
          node   |-> IF e.type \in {"intake", "transfer"} THEN e.node ELSE LogSays(t, h).node,
          hold   |-> IF e.type \in HoldTypes THEN e.type = "hold_set" ELSE LogSays(t, h).hold,
          status |-> IF e.type = "destroyed" THEN "destroyed" ELSE LogSays(t, h).status]
  <2>1. LogSays(t, h).case = t[x].case
    BY DEF LogSays, x
  <2>2. (IF \E n \in g : u[n].type = "destroyed" THEN "destroyed" ELSE "active")
          = IF e.type = "destroyed" THEN "destroyed" ELSE LogSays(t, h).status
    BY <1>8 DEF LogSays
  <2>3. LogSays(u, g) =
          [case   |-> u[Min(g)].case,
           node   |-> Latest(u, g, {"intake", "transfer"}).node,
           hold   |-> Latest(u, g, HoldTypes).type = "hold_set",
           status |-> IF \E n \in g : u[n].type = "destroyed" THEN "destroyed" ELSE "active"]
    BY DEF LogSays
  <2> QED BY <1>4, <1>7, <1>9, <2>1, <2>2, <2>3, Zenon
<1>11. ASSUME NEW n \in g, u[n].type \in {"transfer", "destroyed"}
       PROVE  Latest(u, {m \in g : m < n}, HoldTypes).type # "hold_set"
  <2> DEFINE b == {m \in h : m < n}
  <2>1. {m \in g : m < n} = b /\ b \subseteq h
    BY <1>1 DEF g
  <2>2. x \in b
    <3>1. x # n
      BY <1>9, <1>11
    <3>2. x <= n
      BY <1>1, <1>2 DEF g
    <3> QED BY <1>1, <1>2, <3>1, <3>2 DEF g
  <2>3. \E m \in b : t[m].type \in HoldTypes
    BY <1>2, <2>2 DEF HoldTypes
  <2>4. Within(b, K)
    BY <1>1 DEF Within
  <2>5. \A m \in b : t[m] = u[m]
    BY <1>3
  <2>6. Latest(t, b, HoldTypes) = Latest(u, b, HoldTypes)
    <3> HIDE DEF b
    <3> QED BY <2>3, <2>4, <2>5, LatestSame
  <2>7. Latest(t, b, HoldTypes).type # "hold_set"
    <3>1. CASE n \in h
      <4>1. t[n].type \in {"transfer", "destroyed"}
        BY <1>3, <1>11, <3>1
      <4> QED BY <3>1, <4>1 DEF SoundOn
    <3>2. CASE n = K + 1
      <4>1. b = h
        BY <1>1, <3>2
      <4>2. ~ LogSays(t, h).hold
        BY <1>1, <1>11, <3>2
      <4>3. LogSays(t, h).hold = (Latest(t, h, HoldTypes).type = "hold_set")
        BY DEF LogSays
      <4> QED BY <4>1, <4>2, <4>3
    <3> QED BY <3>1, <3>2 DEF g
  <2> QED BY <2>1, <2>6, <2>7
<1>12. SoundOn(u, i)
  <2>1. u[Min(g)].type = "intake"
    BY <1>4, <1>9
  <2> QED BY <1>1, <1>11, <2>1 DEF SoundOn
<1> QED BY <1>1, <1>2, <1>10, <1>12 DEF g

\* A change that is allowed keeps the catalog in memory to what the log will say.
LEMMA ChangeTrue ==
    ASSUME NEW type \in ChangeTypes, NEW i, NEW case, NEW node,
           ChangeItem(type, i, case, node), i \notin cut,
           NEW K \in Nat, NEW t, DOMAIN t = 1 .. K, SoundOn(t, i), AgreesOn(items, t, i),
           NEW u, u = With(t, K, cmd')
    PROVE  SoundOn(u, i) /\ AgreesOn(items', u, i)
<1> DEFINE h == History(t, i)
           e == [type |-> type, item |-> i, case |-> items'[i].case, node |-> items'[i].node]
<1>1. /\ cmd' = e /\ i \in DOMAIN items' /\ items'[i] = Changed(type, i, case, node)
      /\ Allowed(type, i)
  BY DEF ChangeItem
<1>2. e.type = type /\ e.item = i /\ e.case = items'[i].case /\ e.node = items'[i].node
  OBVIOUS
<1>3. u = With(t, K, e)
  BY <1>1
<1> HIDE DEF e
<1>4. CASE type = "intake"
  <2>1. i \notin DOMAIN items
    BY <1>1, <1>4 DEF Allowed, Fresh
  <2>2. History(t, i) = {}
    BY <2>1 DEF AgreesOn
  <2>3. /\ SoundOn(u, i) /\ History(u, i) # {}
        /\ LogSays(u, History(u, i)) =
             [case |-> e.case, node |-> e.node, hold |-> FALSE, status |-> "active"]
    BY <1>2, <1>3, <1>4, <2>2, SaysIntake
  <2>4. items'[i] = [case |-> case, node |-> node, hold |-> FALSE, status |-> "active"]
    BY <1>1, <1>4 DEF Changed
  <2>5. items'[i] = [case |-> e.case, node |-> e.node, hold |-> FALSE, status |-> "active"]
    BY <1>2, <2>4
  <2> QED BY <1>1, <2>3, <2>5 DEF AgreesOn
<1>5. CASE type # "intake"
  <2>1. i \in DOMAIN items /\ (type \in {"transfer", "destroyed"} => ~ items[i].hold)
    BY <1>1, <1>5 DEF Allowed
  <2>2. h # {} /\ items[i] = LogSays(t, h)
    BY <2>1 DEF AgreesOn
  <2> HIDE DEF h
  <2>3. h = History(t, i)
    BY DEF h
  <2>4. e.type \in {"transfer", "destroyed"} => ~ LogSays(t, h).hold
    BY <1>2, <2>1, <2>2
  <2>5. /\ SoundOn(u, i) /\ History(u, i) # {}
        /\ LogSays(u, History(u, i)) =
             [case   |-> LogSays(t, h).case,
              node   |-> IF e.type \in {"intake", "transfer"} THEN e.node
                         ELSE LogSays(t, h).node,
              hold   |-> IF e.type \in HoldTypes THEN e.type = "hold_set"
                         ELSE LogSays(t, h).hold,
              status |-> IF e.type = "destroyed" THEN "destroyed" ELSE LogSays(t, h).status]
    BY <1>2, <1>3, <2>2, <2>3, <2>4, SaysNext
  <2> DEFINE old == items[i]
             new == items'[i]
  <2>6. old = [case |-> old.case, node |-> old.node, hold |-> old.hold, status |-> old.status]
    BY <2>2 DEF LogSays
  <2>7. new = [case   |-> old.case,
               node   |-> IF type = "transfer" THEN new.node ELSE old.node,
               hold   |-> IF type \in HoldTypes THEN type = "hold_set" ELSE old.hold,
               status |-> IF type = "destroyed" THEN "destroyed" ELSE old.status]
    <3>0. type \in {"transfer", "hold_set", "hold_release", "destroyed"}
      BY <1>5 DEF ChangeTypes
    <3>1. CASE type = "transfer"
      <4>1. new = [old EXCEPT !.node = node]
        BY <1>1, <3>1 DEF Changed
      <4> QED BY <2>6, <3>1, <4>1 DEF HoldTypes
    <3>2. CASE type = "hold_set"
      <4>1. new = [old EXCEPT !.hold = TRUE]
        BY <1>1, <3>2 DEF Changed
      <4> QED BY <2>6, <3>2, <4>1 DEF HoldTypes
    <3>3. CASE type = "hold_release"
      <4>1. new = [old EXCEPT !.hold = FALSE]
        BY <1>1, <3>3 DEF Changed
      <4> QED BY <2>6, <3>3, <4>1 DEF HoldTypes
    <3>4. CASE type = "destroyed"
      <4>1. new = [old EXCEPT !.status = "destroyed"]
        BY <1>1, <3>4 DEF Changed
      <4> QED BY <2>6, <3>4, <4>1 DEF HoldTypes
    <3> QED BY <3>0, <3>1, <3>2, <3>3, <3>4
  <2>8. new = LogSays(u, History(u, i))
    <3>1. (e.type \in {"intake", "transfer"}) = (type = "transfer")
      BY <1>2, <1>5
    <3> QED BY <1>2, <2>2, <2>5, <2>7, <3>1
  <2> QED BY <1>1, <2>5, <2>8 DEF AgreesOn
<1> QED BY <1>4, <1>5

-----------------------------------------------------------------------------
(* Types and control.                                                       *)

\* Every step of a command is a step of the store, or leaves it alone.
LEMMA CommandSteps == [PDNext]_pdVars => [Next]_vars
<1>1. NoKey \in Signers
  BY DEF Signers
<1>2. OpenStore => Next
  BY <1>1 DEF OpenStore, Next
<1>3. AppendEvent \/ EventRecorded \/ AppendFails \/ ExportRecorded \/ ExportAppendFails => Next
  BY DEF AppendEvent, EventRecorded, AppendFails, ExportRecorded, ExportAppendFails, Next
<1>4. (\E i \in todo : ExportFrame(i)) \/ Exit \/ KillCommand => Next
  BY DEF ExportFrame, Exit, KillCommand, Next
<1>5. /\ LoadCatalog \/ SaveCatalog => UNCHANGED vars
      /\ \A type, i, case, node : ChangeItem(type, i, case, node) => UNCHANGED vars
      /\ \A i : RecordAccess(i) => UNCHANGED vars
      /\ \A case : ExportCase(case) => UNCHANGED vars
  BY DEF LoadCatalog, SaveCatalog, ChangeItem, RecordAccess, ExportCase
<1>6. UNCHANGED pdVars => UNCHANGED vars
  BY DEF pdVars
<1> QED BY <1>2, <1>3, <1>4, <1>5, <1>6 DEF PDNext

\* A sequence is a sequence of its elements.
LEMMA OwnElements == ASSUME NEW S, NEW s \in Seq(S) PROVE s \in Seq(ToSet(s))
<1>1. \A n \in 1 .. Len(s) : s[n] \in ToSet(s)
  BY DEF ToSet
<1> QED BY <1>1

\* A step that writes a frame, and the event of its record.
Frames(e) ==
    /\ AppendFrame
    /\ events' = Append(events, e)
    /\ UNCHANGED <<catalog, torn, stage, items, cmd, bundles, cut>>

\* A step that adds no event, and changes the log only to recover it.
Keeps == UNCHANGED <<events, written>> /\ (log' = log \/ (OpenStore /\ QuarantineTruncate))

\* Every step is one or the other.
LEMMA EventSteps ==
    ASSUME [PDNext]_pdVars
    PROVE  \/ stage = "saved" /\ Frames(cmd)
           \/ stage = "export" /\ \E i : Frames([type |-> "export", item |-> i, case |-> CaseOf(i)])
           \/ Keeps
<1> USE DEF vars, disk, counts
<1>1. ASSUME OpenStore PROVE Keeps
  <2>1. CASE Open(NoKey) \/ QuarantineCopy
    BY <1>1, <2>1 DEF OpenStore, catalogVars, Open, QuarantineCopy, CopyBehind, Keeps
  <2>2. CASE QuarantineTruncate
    BY <1>1, <2>2 DEF OpenStore, catalogVars, QuarantineTruncate, TruncateBehind, Keeps
  <2> QED BY <1>1, <2>1, <2>2 DEF OpenStore
<1>2. ASSUME AppendEvent PROVE stage = "saved" /\ Frames(cmd)
  BY <1>2 DEF AppendEvent, Frames
<1>3. ASSUME NEW i \in todo, ExportFrame(i)
      PROVE  stage = "export" /\ Frames([type |-> "export", item |-> i, case |-> CaseOf(i)])
  BY <1>3 DEF ExportFrame, Frames
<1>4. ASSUME EventRecorded \/ ExportRecorded PROVE Keeps
  BY <1>4 DEF EventRecorded, ExportRecorded, WriteTreeHead, catalogVars, Keeps
<1>5. ASSUME AppendFails \/ ExportAppendFails PROVE Keeps
  BY <1>5 DEF AppendFails, ExportAppendFails, SealFails, ShortWrite, HeadFails, Fault, Keeps
<1>6. ASSUME Exit \/ KillCommand PROVE Keeps
  BY <1>6 DEF Exit, KillCommand, Close, Crash, Keeps
<1>7. ASSUME LoadCatalog \/ SaveCatalog \/ UNCHANGED pdVars PROVE Keeps
  BY <1>7 DEF LoadCatalog, SaveCatalog, pdVars, catalogVars, Keeps
<1>8. ASSUME NEW type, NEW i, NEW case, NEW node,
             ChangeItem(type, i, case, node) \/ RecordAccess(i) \/ ExportCase(case)
      PROVE  Keeps
  BY <1>8 DEF ChangeItem, RecordAccess, ExportCase, Keeps
<1> QED BY <1>1, <1>2, <1>3, <1>4, <1>5, <1>6, <1>7, <1>8 DEF PDNext

\* What a frame adds to the store.
LEMMA FrameFacts ==
    ASSUME PDType, NEW e, Frames(e)
    PROVE  /\ NewRecord \in Record /\ NewRecord.id = written + 1
           /\ events' \in Seq(ToSet(events'))
           /\ Len(events') = written + 1 /\ written' = written + 1
           /\ events'[written + 1] = e /\ \A n \in 1 .. written : events'[n] = events[n]
           /\ log' = log \/ (log' = Append(log, NewRecord) /\ junk = "none" /\ junk' = "none")
<1>1. events \in Seq(ToSet(events)) /\ Len(events) = written /\ written \in Nat /\ seq \in Nat
  BY DEF PDType, TypeInv, TypeOK
<1>2. NewRecord \in Record /\ NewRecord.id = written + 1
  BY <1>1 DEF NewRecord, Record
<1>3. events' = Append(events, e) /\ written' = written + 1
  BY DEF Frames, AppendFrame
<1> DEFINE S == ToSet(events) \cup {e}
<1>4. events \in Seq(S) /\ e \in S
  BY <1>1
<1> HIDE DEF S
<1>5. /\ events' \in Seq(S) /\ Len(events') = written + 1
      /\ events'[written + 1] = e /\ \A n \in 1 .. written : events'[n] = events[n]
  BY <1>1, <1>3, <1>4
<1>6. events' \in Seq(ToSet(events'))
  BY <1>5, OwnElements
<1>7. log' = log \/ (log' = Append(log, NewRecord) /\ junk = "none" /\ junk' = "none")
  BY DEF Frames, AppendFrame
<1> QED BY <1>2, <1>3, <1>5, <1>6, <1>7

\* The types and the control hold initially.
LEMMA PDTypeInit == PDInit => PDType /\ Control
<1> SUFFICES ASSUME PDInit PROVE PDType /\ Control
  OBVIOUS
<1>1. Init /\ events = [id \in 1 .. written |-> NoEvent] /\ stage = "none" /\ torn = FALSE
  BY DEF PDInit
<1>2. TypeInv /\ TypeOK /\ StoreInv
  BY <1>1, TypeInvInit, StoreInvInit DEF TypeInv
<1>3. written \in Nat /\ written = Len(log) /\ log \in Seq(Record)
  BY <1>1, <1>2 DEF Init, TypeOK
<1>4. events \in Seq({NoEvent}) /\ Len(events) = written
  BY <1>1, <1>3
<1>5. events \in Seq(ToSet(events))
  BY <1>4, OwnElements
<1>6. \A n \in 1 .. Len(log) : log[n].id \in 1 .. written
  BY <1>1, <1>3 DEF Init, Genesis
<1>7. Control
  BY <1>1 DEF Init, Control, Running
<1> QED BY <1>2, <1>4, <1>5, <1>6, <1>7 DEF PDType

\* Every step keeps the types.
LEMMA PDTypeStep == PDType /\ [PDNext]_pdVars => PDType'
<1> SUFFICES ASSUME PDType, [PDNext]_pdVars PROVE PDType'
  OBVIOUS
<1>1. TypeInv' /\ StoreInv'
  BY CommandSteps, TypeInvStep, StoreInvStep DEF PDType
<1>2. log \in Seq(Record) /\ head \in TreeHead /\ written \in Nat
  BY DEF PDType, TypeInv, TypeOK
<1>3. ASSUME NEW e, Frames(e) PROVE PDType'
  <2>1. /\ NewRecord \in Record /\ NewRecord.id = written + 1
        /\ events' \in Seq(ToSet(events')) /\ Len(events') = written' /\ written' = written + 1
        /\ log' = log \/ log' = Append(log, NewRecord)
    BY <1>3, FrameFacts
  <2>2. \A n \in 1 .. Len(log') : log'[n].id \in 1 .. written'
    <3>1. CASE log' = log
      BY <1>2, <2>1, <3>1 DEF PDType
    <3>2. CASE log' = Append(log, NewRecord)
      <4>1. /\ Len(log') = Len(log) + 1 /\ log'[Len(log) + 1] = NewRecord
            /\ \A n \in 1 .. Len(log) : log'[n] = log[n]
        BY <1>2, <2>1, <3>2
      <4>2. ASSUME NEW n \in 1 .. Len(log') PROVE log'[n].id \in 1 .. written'
        <5>1. CASE n \in 1 .. Len(log)
          BY <1>2, <2>1, <4>1, <5>1 DEF PDType
        <5>2. CASE n = Len(log) + 1
          BY <1>2, <2>1, <4>1, <5>2
        <5> QED BY <1>2, <4>1, <5>1, <5>2
      <4> QED BY <4>2
    <3> QED BY <2>1, <3>1, <3>2
  <2> QED BY <1>1, <2>1, <2>2 DEF PDType
<1>4. ASSUME Keeps PROVE PDType'
  <2>1. \A n \in 1 .. Len(log') : log'[n].id \in 1 .. written
    <3>1. CASE log' = log
      BY <3>1 DEF PDType
    <3>2. CASE QuarantineTruncate
      <4>1. Committed(head, log) \in 0 .. Len(log)
        BY <1>2, CommittedBound
      <4>2. log' = SubSeq(log, 1, Committed(head, log))
        BY <3>2 DEF QuarantineTruncate, TruncateBehind
      <4>3. /\ Len(log') <= Len(log)
            /\ \A n \in 1 .. Len(log') : log'[n] = log[n] /\ n \in 1 .. Len(log)
        BY <1>2, <4>1, <4>2
      <4> QED BY <4>3 DEF PDType
    <3> QED BY <1>4, <3>1, <3>2 DEF Keeps
  <2> QED BY <1>1, <1>4, <2>1 DEF Keeps, PDType
<1> QED BY <1>3, <1>4, EventSteps

\* Every step keeps the control.
LEMMA ControlStep == Control /\ [PDNext]_pdVars => Control'
<1> SUFFICES ASSUME Control, [PDNext]_pdVars PROVE Control'
  OBVIOUS
<1> USE DEF Control, Running
<1>1. CASE OpenStore
  <2>1. stage = "none" /\ UNCHANGED <<stage, torn, items, catalog>> /\ pc' # "framed"
    BY <1>1 DEF OpenStore, catalogVars, Open, QuarantineCopy, CopyBehind,
       QuarantineTruncate,
                TruncateBehind
  <2> QED BY <2>1
<1>2. CASE LoadCatalog
  BY <1>2 DEF LoadCatalog, vars
<1>3. ASSUME NEW type, NEW i, NEW case, NEW node, ChangeItem(type, i, case, node)
      PROVE  Control'
  BY <1>3 DEF ChangeItem, vars
<1>4. CASE SaveCatalog
  BY <1>4 DEF SaveCatalog, vars
<1>5. ASSUME NEW i, RecordAccess(i) PROVE Control'
  BY <1>5 DEF RecordAccess, vars
<1>6. CASE AppendEvent
  BY <1>6 DEF AppendEvent, AppendFrame
<1>7. CASE EventRecorded
  BY <1>7 DEF EventRecorded, WriteTreeHead
<1>8. CASE AppendFails
  BY <1>8 DEF AppendFails, SealFails, ShortWrite, HeadFails
<1>9. ASSUME NEW case, ExportCase(case) PROVE Control'
  BY <1>9 DEF ExportCase, vars
<1>10. ASSUME NEW i \in todo, ExportFrame(i) PROVE Control'
  BY <1>10 DEF ExportFrame, AppendFrame
<1>11. CASE ExportRecorded
  BY <1>11 DEF ExportRecorded, WriteTreeHead, catalogVars
<1>12. CASE ExportAppendFails
  BY <1>12 DEF ExportAppendFails, SealFails, ShortWrite, HeadFails
<1>13. CASE Exit \/ KillCommand
  BY <1>13 DEF Exit, KillCommand, CommandGone, Close, Crash, ProcessGone
<1>14. CASE UNCHANGED pdVars
  BY <1>14 DEF pdVars, vars, catalogVars
<1> QED BY <1>1, <1>2, <1>3, <1>4, <1>5, <1>6, <1>7, <1>8, <1>9, <1>10, <1>11, <1>12,
           <1>13, <1>14
        DEF PDNext

-----------------------------------------------------------------------------
(* What the log tells, from one step to the next.                           *)

\* What records tell after the step.
ToldNext(recs) == [n \in DOMAIN recs |-> events'[recs[n].id]]

\* A log of records that all have their events.
Recorded(recs) == recs \in Seq(Record) /\ \A n \in 1 .. Len(recs) : recs[n].id \in 1 .. written

\* What a record says is never changed.
LEMMA ToldStays ==
    ASSUME PDType, [PDNext]_pdVars
    PROVE  \A recs : Recorded(recs) => ToldNext(recs) = Told(recs)
<1> SUFFICES ASSUME NEW recs, Recorded(recs) PROVE ToldNext(recs) = Told(recs)
  OBVIOUS
<1>1. \A n \in 1 .. written : events'[n] = events[n]
  BY EventSteps, FrameFacts DEF Keeps
<1>2. DOMAIN recs = 1 .. Len(recs) /\ \A n \in 1 .. Len(recs) : recs[n].id \in 1 .. written
  BY DEF Recorded
<1>3. \A n \in DOMAIN recs : events'[recs[n].id] = events[recs[n].id]
  BY <1>1, <1>2
<1> QED BY <1>3 DEF ToldNext, Told

\* The records of the log have their events, and so have those the head covers.
LEMMA LogRecorded ==
    ASSUME PDType
    PROVE  /\ Recorded(log) /\ Len(log) \in Nat /\ DOMAIN Told(log) = 1 .. Len(log)
           /\ head.recs \in Seq(Record) /\ Len(head.recs) \in Nat
           /\ DOMAIN Told(head.recs) = 1 .. Len(head.recs)
           /\ IsPrefix(head.recs, log) =>
                /\ Recorded(head.recs) /\ Len(head.recs) <= Len(log)
                /\ \A n \in 1 .. Len(head.recs) : Told(head.recs)[n] = Told(log)[n]
<1>1. log \in Seq(Record) /\ head.recs \in Seq(Record)
  BY DEF PDType, TypeInv, TypeOK, TreeHead
<1>2. Recorded(log)
  BY <1>1 DEF PDType, Recorded
<1>3. DOMAIN Told(log) = 1 .. Len(log) /\ DOMAIN Told(head.recs) = 1 .. Len(head.recs)
  BY <1>1 DEF Told
<1>4. ASSUME IsPrefix(head.recs, log)
      PROVE  /\ Recorded(head.recs) /\ Len(head.recs) <= Len(log)
             /\ \A n \in 1 .. Len(head.recs) : Told(head.recs)[n] = Told(log)[n]
  <2>1. Len(head.recs) <= Len(log) /\ \A n \in 1 .. Len(head.recs) : head.recs[n] = log[n]
    BY <1>1, <1>4, PrefixElements
  <2>2. \A n \in 1 .. Len(head.recs) : n \in 1 .. Len(log)
    BY <1>1, <2>1
  <2>3. Recorded(head.recs)
    BY <1>1, <1>2, <2>1, <2>2 DEF Recorded
  <2>4. \A n \in 1 .. Len(head.recs) : Told(head.recs)[n] = Told(log)[n]
    BY <1>1, <2>1, <2>2 DEF Told
  <2> QED BY <2>1, <2>3, <2>4
<1> QED BY <1>1, <1>2, <1>3, <1>4

\* Once a frame is in the log, the log tells one event more.
LEMMA ToldWith ==
    ASSUME PDType, [PDNext]_pdVars, NEW e, Frames(e), log' = Append(log, NewRecord)
    PROVE  Told(log)' = With(Told(log), Len(log), e)
<1>1. NewRecord \in Record /\ NewRecord.id = written + 1 /\ events'[written + 1] = e
  BY FrameFacts
<1>2. log \in Seq(Record) /\ Recorded(log)
  BY LogRecorded DEF Recorded
<1>3. /\ DOMAIN log' = 1 .. Len(log) + 1 /\ log'[Len(log) + 1] = NewRecord
      /\ \A n \in 1 .. Len(log) : log'[n] = log[n]
      /\ DOMAIN log = 1 .. Len(log) /\ Len(log) \in Nat
  BY <1>1, <1>2
<1>4. ToldNext(log) = Told(log)
  BY <1>2, ToldStays
<1>5. ASSUME NEW n \in 1 .. Len(log) + 1
      PROVE  events'[log'[n].id] = IF n = Len(log) + 1 THEN e ELSE Told(log)[n]
  <2>1. CASE n = Len(log) + 1
    BY <1>1, <1>3, <2>1
  <2>2. CASE n \in 1 .. Len(log)
    <3>1. ToldNext(log)[n] = events'[log[n].id]
      BY <1>3, <2>2 DEF ToldNext
    <3> QED BY <1>3, <1>4, <2>2, <3>1
  <2> QED BY <1>3, <2>1, <2>2
<1>6. Told(log)' = [n \in 1 .. Len(log) + 1 |-> events'[log'[n].id]]
  BY <1>3 DEF Told
<1> QED BY <1>5, <1>6 DEF With

\* What the head does not cover tells nothing of the items whose commands succeeded.
LEMMA UncoveredSilent ==
    ASSUME PDType, Live, ~ (pc = "framed" /\ stage = "saved"), NEW i \in Items \ cut
    PROVE  SameHistory(Told(head.recs), Told(log), i) /\ SameHistory(Told(log), Told(head.recs), i)
<1> DEFINE t == Told(head.recs)
           u == Told(log)
           K == Len(head.recs)
           L == Len(log)
<1>1. /\ K \in Nat /\ L \in Nat /\ K <= L /\ DOMAIN t = 1 .. K /\ DOMAIN u = 1 .. L
      /\ \A n \in 1 .. K : t[n] = u[n]
  BY LogRecorded DEF Live
<1>2. \A n \in K + 1 .. L : u[n].type \notin ChangeTypes \/ u[n].item \in cut
  BY DEF Live
<1> HIDE DEF t, u, K, L
<1>3. \A n \in 1 .. L : n \in 1 .. K \/ n \in K + 1 .. L
  BY <1>1
<1>4. \A n \in 1 .. K : n \in 1 .. L
  BY <1>1
<1>5. History(t, i) = History(u, i)
  BY <1>1, <1>2, <1>3, <1>4 DEF History
<1>6. \A n \in History(t, i) : t[n] = u[n]
  BY <1>1 DEF History
<1>7. SameHistory(t, u, i) /\ SameHistory(u, t, i)
  BY <1>5, <1>6 DEF SameHistory
<1> QED BY <1>7 DEF t, u

-----------------------------------------------------------------------------
(* A log that still verifies, and one that never will again.                *)

\* The disk in a step: the head is written by WriteTreeHead alone.
LEMMA HeadSteps ==
    ASSUME [PDNext]_pdVars
    PROVE  head' = head \/ (WriteTreeHead /\ stage \in {"saved", "export"} /\ pc = "framed"
                            /\ log' = log /\ junk' = junk /\ head'.recs = leaves)
<1>1. ASSUME WriteTreeHead PROVE pc = "framed" /\ log' = log /\ junk' = junk /\ head'.recs = leaves
  BY <1>1 DEF WriteTreeHead
<1>2. ASSUME EventRecorded \/ ExportRecorded PROVE WriteTreeHead /\ stage \in {"saved", "export"}
  BY <1>2 DEF EventRecorded, ExportRecorded
<1> USE DEF vars, disk
<1>3. CASE OpenStore
  BY <1>3 DEF OpenStore, Open, QuarantineCopy, CopyBehind, QuarantineTruncate,
     TruncateBehind
<1>4. CASE AppendEvent \/ \E i \in todo : ExportFrame(i)
  BY <1>4 DEF AppendEvent, ExportFrame, AppendFrame
<1>5. CASE AppendFails \/ ExportAppendFails
  BY <1>5 DEF AppendFails, ExportAppendFails, SealFails, ShortWrite, HeadFails
<1>6. CASE Exit \/ KillCommand
  BY <1>6 DEF Exit, KillCommand, Close, Crash
<1>7. CASE LoadCatalog \/ SaveCatalog \/ UNCHANGED pdVars
  BY <1>7 DEF LoadCatalog, SaveCatalog, pdVars
<1>8. ASSUME NEW type, NEW i, NEW case, NEW node,
             ChangeItem(type, i, case, node) \/ RecordAccess(i) \/ ExportCase(case)
      PROVE  head' = head
  BY <1>8 DEF ChangeItem, RecordAccess, ExportCase
<1> QED BY <1>1, <1>2, <1>3, <1>4, <1>5, <1>6, <1>7, <1>8 DEF PDNext

\* A recovery of a log that verifies leaves what the head covers.
LEMMA LiveCut ==
    ASSUME PDType, Live, QuarantineTruncate
    PROVE  log' = head.recs /\ head' = head /\ junk' = "none" /\ pc' = "up" /\ leaves' = log'
<1>1. log \in Seq(Record) /\ head.recs \in Seq(Record)
  BY DEF PDType, TypeInv, TypeOK, TreeHead
<1>2. Committed(head, log) = Len(head.recs) /\ IsPrefix(head.recs, log)
  BY DEF QuarantineTruncate, TruncateBehind, Live
<1> QED BY <1>1, <1>2, PrefixCut DEF QuarantineTruncate, TruncateBehind, LoadStore

\* What the head of such a log covers stays in its place.
LEMMA LiveKeeps ==
    ASSUME PDType, Live, [PDNext]_pdVars
    PROVE  /\ Len(head.recs) <= Len(log') /\ \A n \in 1 .. Len(head.recs) : log'[n] = log[n]
           /\ Len(head.recs) <= Len(head'.recs)
<1>1. /\ log \in Seq(Record) /\ head.recs \in Seq(Record) /\ leaves \in Seq(Record)
      /\ IsPrefix(head.recs, log)
  BY DEF PDType, TypeInv, TypeOK, TreeHead, Live
<1>2. Len(head.recs) <= Len(log) /\ \A n \in 1 .. Len(head.recs) : head.recs[n] = log[n]
  BY <1>1, PrefixElements
<1>3. Len(head.recs) <= Len(log') /\ \A n \in 1 .. Len(head.recs) : log'[n] = log[n]
  <2>1. CASE log' = log
    BY <1>2, <2>1
  <2>2. CASE QuarantineTruncate
    <3>1. log' = head.recs
      BY <2>2, LiveCut
    <3> QED BY <1>1, <1>2, <3>1
  <2>3. ASSUME NEW e, Frames(e)
        PROVE  log' = log \/ (log' = Append(log, NewRecord) /\ NewRecord \in Record)
    BY <2>3, FrameFacts
  <2>4. CASE log' = Append(log, NewRecord) /\ NewRecord \in Record
    BY <1>1, <1>2, <2>4
  <2> QED BY <2>1, <2>2, <2>3, <2>4, EventSteps DEF Keeps
<1>4. Len(head.recs) <= Len(head'.recs)
  <2>1. CASE head' = head
    BY <1>1, <2>1
  <2>2. CASE pc = "framed" /\ head'.recs = leaves
    <3>1. IsPrefix(log, leaves)
      BY <2>2 DEF Live, Running
    <3>2. Len(log) <= Len(leaves)
      BY <1>1, <3>1, PrefixElements
    <3> QED BY <1>1, <1>2, <2>2, <3>2
  <2> QED BY <2>1, <2>2, HeadSteps
<1> QED BY <1>3, <1>4

\* A bundle that lists what the head covers goes on doing so.
LEMMA BundlesStay ==
    ASSUME PDType, Control, Live, BundleBody, [PDNext]_pdVars, PDType'
    PROVE  BundleBody'
<1> DEFINE K == Len(head.recs)
<1>1. /\ K \in Nat /\ K <= Len(log) /\ Recorded(log) /\ Len(log) \in Nat
      /\ DOMAIN log = 1 .. Len(log)
  BY LogRecorded DEF Live, Recorded
<1>2. DOMAIN log' = 1 .. Len(log') /\ Len(log') \in Nat /\ Len(head'.recs) \in Nat
  BY DEF PDType, TypeInv, TypeOK, TreeHead
<1>3. K <= Len(log') /\ (\A n \in 1 .. K : log'[n] = log[n]) /\ K <= Len(head'.recs)
  BY LiveKeeps
<1>4. ToldNext(log) = Told(log)
  BY <1>1, ToldStays
<1> HIDE DEF K
<1>5. \A n \in 1 .. K : n \in DOMAIN log /\ n \in DOMAIN log'
  BY <1>1, <1>2, <1>3
<1>6. \A n \in 1 .. K : events'[log'[n].id] = events[log[n].id]
  BY <1>3, <1>4, <1>5 DEF ToldNext, Told
<1>7. ASSUME NEW b \in bundles PROVE \E k \in 0 .. Len(head'.recs) :
          b.entries = Restrict(log', {n \in OfCase(b.case)' : n <= k})
  <2>1. PICK k \in 0 .. K : b.entries = Restrict(log, {n \in OfCase(b.case) : n <= k})
    BY DEF BundleBody, K
  <2>2. {n \in OfCase(b.case)' : n <= k} = {n \in OfCase(b.case) : n <= k}
    <3>1. \A n \in DOMAIN log : n <= k => n \in 1 .. K
      BY <1>1, <2>1
    <3>2. \A n \in DOMAIN log' : n <= k => n \in 1 .. K
      BY <1>1, <1>2, <2>1
    <3> QED BY <1>5, <1>6, <3>1, <3>2 DEF OfCase
  <2>3. \A n \in {n \in OfCase(b.case) : n <= k} : log'[n] = log[n]
    <3>1. \A n \in DOMAIN log : n <= k => n \in 1 .. K
      BY <1>1, <2>1
    <3> QED BY <1>3, <3>1 DEF OfCase
  <2>4. b.entries = Restrict(log', {n \in OfCase(b.case)' : n <= k})
    BY <2>1, <2>2, <2>3 DEF Restrict
  <2>5. k \in 0 .. Len(head'.recs)
    BY <1>1, <1>2, <1>3, <2>1
  <2> QED BY <2>4, <2>5
<1>8. CASE bundles' = bundles
  BY <1>7, <1>8 DEF BundleBody
<1>9. ASSUME NEW case \in Cases, NEW k \in 0 .. Len(log), stage = "loaded",
             bundles' = bundles \cup {Bundle(case, k)}, UNCHANGED <<log, head, events>>
      PROVE  BundleBody'
  <2>1. log = head.recs
    BY <1>9 DEF Live, Control
  <2>2. OfCase(case)' = OfCase(case)
    BY <1>9 DEF OfCase
  <2>3. ASSUME NEW b \in bundles' PROVE \E j \in 0 .. Len(head'.recs) :
            b.entries = Restrict(log', {n \in OfCase(b.case)' : n <= j})
    <3>1. CASE b \in bundles
      BY <1>7, <3>1
    <3>2. CASE b = Bundle(case, k)
      <4>1. b.case = case /\ b.entries = Restrict(log, {n \in OfCase(case) : n <= k})
        BY <3>2 DEF Bundle
      <4>2. b.entries = Restrict(log', {n \in OfCase(b.case)' : n <= k})
        BY <1>9, <2>2, <4>1
      <4>3. k \in 0 .. Len(head'.recs)
        BY <1>9, <2>1
      <4> QED BY <4>2, <4>3
    <3> QED BY <1>9, <3>1, <3>2
  <2> QED BY <2>3 DEF BundleBody
<1>10. ASSUME NEW case \in Cases, ExportCase(case) PROVE BundleBody'
  <2>1. /\ bundles' = bundles \cup {Bundle(case, Len(log))} /\ stage = "loaded"
        /\ UNCHANGED <<log, head, events>>
    BY <1>10 DEF ExportCase, vars, disk
  <2> QED BY <1>1, <1>9, <2>1
<1>11. CASE KillCommand
  <2>1. UNCHANGED <<log, head, events>>
    BY <1>11 DEF KillCommand, Crash
  <2> QED BY <1>8, <1>9, <1>11, <2>1 DEF KillCommand
<1>12. bundles' = bundles \/ KillCommand \/ \E case \in Cases : ExportCase(case)
  <2>1. CASE OpenStore \/ ExportRecorded \/ UNCHANGED pdVars
    BY <2>1 DEF OpenStore, ExportRecorded, pdVars, catalogVars
  <2>2. CASE \/ LoadCatalog \/ SaveCatalog \/ AppendEvent \/ EventRecorded \/ AppendFails
             \/ ExportAppendFails \/ Exit
    BY <2>2 DEF LoadCatalog, SaveCatalog, AppendEvent, EventRecorded, AppendFails,
                ExportAppendFails, Exit
  <2>3. ASSUME NEW type, NEW i, NEW case, NEW node,
               ChangeItem(type, i, case, node) \/ RecordAccess(i) \/ ExportFrame(i)
        PROVE  bundles' = bundles
    BY <2>3 DEF ChangeItem, RecordAccess, ExportFrame
  <2> QED BY <2>1, <2>2, <2>3 DEF PDNext
<1> QED BY <1>8, <1>10, <1>11, <1>12

\* Items are only ever added to those a command was cut off on.
LEMMA CutGrows == [PDNext]_pdVars => cut \subseteq cut'
<1> SUFFICES ASSUME [PDNext]_pdVars PROVE cut \subseteq cut'
  OBVIOUS
<1>1. CASE OpenStore \/ ExportRecorded \/ UNCHANGED pdVars
  BY <1>1 DEF OpenStore, ExportRecorded, pdVars, catalogVars
<1>2. CASE \/ LoadCatalog \/ SaveCatalog \/ AppendEvent \/ EventRecorded
           \/ ExportAppendFails \/ Exit
  BY <1>2 DEF LoadCatalog, SaveCatalog, AppendEvent, EventRecorded, ExportAppendFails, Exit
<1>3. CASE AppendFails \/ KillCommand
  BY <1>3 DEF AppendFails, KillCommand
<1>4. ASSUME NEW type, NEW i, NEW case, NEW node,
             \/ ChangeItem(type, i, case, node) \/ RecordAccess(i)
             \/ ExportFrame(i) \/ ExportCase(case)
      PROVE  cut' = cut
  BY <1>4 DEF ChangeItem, RecordAccess, ExportFrame, ExportCase
<1> QED BY <1>1, <1>2, <1>3, <1>4 DEF PDNext

\* A log that says what it said stays sound.
LEMMA SoundStays ==
    ASSUME PDType, Sound(Told(log)), [PDNext]_pdVars, log' = log
    PROVE  Sound(Told(log))'
<1>1. ToldNext(log) = Told(log)
  BY LogRecorded, ToldStays
<1>2. Told(log)' = Told(log)
  BY <1>1 DEF Told, ToldNext
<1> QED BY <1>2, CutGrows DEF Sound

\* A log with a complete frame of junk in it is never cut and never grows.
LEMMA FrameForGood ==
    ASSUME junk = "frame", pc \notin {"recover", "copied"}, [PDNext]_pdVars
    PROVE  Dead'
<1> SUFFICES junk' = "frame" /\ pc' \notin {"recover", "copied"}
  BY DEF Dead
<1> USE DEF JunkAfterWrite, JunkAfterTornWrite, vars, disk
<1>1. CASE OpenStore
  BY <1>1 DEF OpenStore, Open, IsCrashTail, QuarantineCopy, CopyBehind, QuarantineTruncate,
              TruncateBehind
<1>2. CASE AppendEvent \/ \E i \in todo : ExportFrame(i)
  BY <1>2 DEF AppendEvent, ExportFrame, AppendFrame
<1>3. CASE EventRecorded \/ ExportRecorded
  BY <1>3 DEF EventRecorded, ExportRecorded, WriteTreeHead
<1>4. CASE AppendFails \/ ExportAppendFails
  <2>1. CASE SealFails \/ HeadFails
    BY <2>1 DEF SealFails, HeadFails
  <2>2. CASE ShortWrite
    BY <2>2 DEF ShortWrite
  <2> QED BY <1>4, <2>1, <2>2 DEF AppendFails, ExportAppendFails
<1>5. CASE Exit
  BY <1>5 DEF Exit, Close, ProcessGone
<1>6. CASE KillCommand
  BY <1>6 DEF KillCommand, Crash, ProcessGone
<1>7. CASE LoadCatalog \/ SaveCatalog \/ UNCHANGED pdVars
  BY <1>7 DEF LoadCatalog, SaveCatalog, pdVars
<1>8. ASSUME NEW type, NEW i, NEW case, NEW node,
             ChangeItem(type, i, case, node) \/ RecordAccess(i) \/ ExportCase(case)
      PROVE  junk' = junk /\ pc' = pc
  BY <1>8 DEF ChangeItem, RecordAccess, ExportCase
<1> QED BY <1>1, <1>2, <1>3, <1>4, <1>5, <1>6, <1>7, <1>8 DEF PDNext

\* Nor is a log that its head has outgrown.
LEMMA OutgrownForGood ==
    ASSUME PDType, Control, Dead, junk # "frame", [PDNext]_pdVars
    PROVE  Dead'
<1> USE DEF JunkAfterWrite, JunkAfterTornWrite, vars, disk, Running
<1>0. /\ junk = "partial" /\ log # <<>> /\ Len(head.recs) > Len(log)
      /\ (stage = "none" /\ pc \in {"down", "refused"}) \/ stage = "export"
      /\ pc \in Running => Len(leaves) > Len(log)
      /\ stage = "export" => pc \in Running
  BY DEF Dead, Control
<1>1. /\ log \in Seq(Record) /\ head.recs \in Seq(Record) /\ leaves \in Seq(Record)
      /\ NewRecord \in Record
  BY DEF PDType, TypeInv, TypeOK, TreeHead, NewRecord, Record
<1>2. CASE OpenStore
  <2>1. HeadRefused(head, log, NoKey)
    <3>1. Committed(head, log) = Len(log)
      BY <1>0, <1>1 DEF Committed
    <3>2. SubSeq(log, 1, Len(log)) = log
      BY <1>1, WholeCut
    <3>3. head.recs # log
      BY <1>0, <1>1
    <3> QED BY <1>0, <3>1, <3>2, <3>3 DEF HeadRefused, HeadAccepted
  <2>2. stage = "none" /\ stage' = stage /\ Open(NoKey)
    BY <1>0, <1>2 DEF OpenStore, QuarantineCopy, CopyBehind, QuarantineTruncate,
       TruncateBehind,
                      catalogVars
  <2>3. pc' = "refused" /\ UNCHANGED <<log, junk, head>>
    BY <2>1, <2>2 DEF Open
  <2> QED BY <1>0, <2>2, <2>3 DEF Dead
<1>3. ASSUME NEW i \in todo, ExportFrame(i) PROVE Dead'
  <2>1. /\ stage' = "export" /\ log' = log /\ head' = head /\ leaves' = Append(leaves, NewRecord)
        /\ junk' \in {"partial", "frame"} /\ pc' = "framed"
    BY <1>0, <1>3 DEF ExportFrame, AppendFrame
  <2>2. Len(leaves') > Len(log')
    BY <1>0, <1>1, <1>3, <2>1 DEF ExportFrame, AppendFrame
  <2> QED BY <1>0, <2>1, <2>2 DEF Dead
<1>4. CASE ExportRecorded
  BY <1>0, <1>4 DEF ExportRecorded, WriteTreeHead, catalogVars, memory, Dead
<1>5. CASE ExportAppendFails
  <2>1. stage = "export" /\ stage' = "export"
    BY <1>5 DEF ExportAppendFails
  <2>2. UNCHANGED <<log, head, leaves>> /\ junk' \in {"partial", "frame"} /\ pc' = "up"
    BY <1>0, <1>5 DEF ExportAppendFails, SealFails, ShortWrite, HeadFails, memory
  <2> QED BY <1>0, <2>1, <2>2 DEF Dead
<1>6. CASE Exit \/ KillCommand
  <2>1. UNCHANGED <<log, head>> /\ junk' \in {"partial", "frame"} /\ pc' = "down" /\ stage' = "none"
    BY <1>0, <1>6 DEF Exit, KillCommand, CommandGone, Close, Crash, ProcessGone
  <2> QED BY <1>0, <2>1 DEF Dead
<1>7. CASE UNCHANGED pdVars
  BY <1>7 DEF pdVars, catalogVars, memory, Dead
<1>8. ~ (LoadCatalog \/ SaveCatalog \/ AppendEvent \/ EventRecorded \/ AppendFails)
  BY <1>0 DEF LoadCatalog, SaveCatalog, AppendEvent, EventRecorded, AppendFails
<1>9. \A type, i, case, node :
          ~ (ChangeItem(type, i, case, node) \/ RecordAccess(i) \/ ExportCase(case))
  BY <1>0 DEF ChangeItem, RecordAccess, ExportCase
<1> QED BY <1>2, <1>3, <1>4, <1>5, <1>6, <1>7, <1>8, <1>9 DEF PDNext

\* A log that cannot be read stays so, and stays what it was.
LEMMA DeadStep ==
    ASSUME PDType, Control, Dead, Sound(Told(log)), [PDNext]_pdVars
    PROVE  Dead' /\ Sound(Told(log))'
<1>1. Dead'
  BY FrameForGood, OutgrownForGood DEF Dead
<1>2. junk # "none" /\ pc \notin {"recover", "copied"}
  BY DEF Dead, Control, Running
<1>3. log' = log
  <2>1. ~ QuarantineTruncate
    BY <1>2 DEF QuarantineTruncate, TruncateBehind
  <2>2. ASSUME NEW e, Frames(e) PROVE log' = log
    BY <1>2, <2>2, FrameFacts
  <2> QED BY <2>1, <2>2, EventSteps DEF Keeps
<1> QED BY <1>1, <1>3, SoundStays

\* It does not verify.
LEMMA NotBoth == ASSUME PDType, Dead PROVE ~ Live /\ ~ Intact
<1>1. log \in Seq(Record) /\ head.recs \in Seq(Record)
  BY DEF PDType, TypeInv, TypeOK, TreeHead
<1>2. junk = "frame" \/ ~ IsPrefix(head.recs, log)
  BY <1>1, PrefixElements DEF Dead
<1> QED BY <1>2 DEF Live, PDType, StoreInv, StoreBody

\* A command that works on a log its head covers leaves it verifying.
LEMMA CoveredLives ==
    ASSUME junk' = "none", log' = head'.recs, log' \in Seq(Record), log' # <<>>,
           leaves' = log', pc' = "up"
    PROVE  Live'
<1>1. IsPrefix(head'.recs, log') /\ IsPrefix(log', leaves')
  BY PrefixRefl
<1>2. Len(head'.recs) + 1 .. Len(log') = {}
  OBVIOUS
<1> QED BY <1>1, <1>2 DEF Live, Running

\* The last event is the command's own.
LEMMA LastIsOwn ==
    ASSUME PDType, Live, pc = "framed", stage = "saved"
    PROVE  /\ Len(log) = Len(head.recs) + 1 /\ Told(log) = Expected
           /\ Expected = With(Told(head.recs), Len(head.recs), cmd)
           /\ Told(log)[Len(log)] = cmd
<1>1. /\ Len(head.recs) \in Nat /\ Len(log) \in Nat /\ DOMAIN Told(log) = 1 .. Len(log)
      /\ DOMAIN Told(head.recs) = 1 .. Len(head.recs)
  BY LogRecorded
<1>2. Told(log) = Expected /\ Expected = With(Told(head.recs), Len(head.recs), cmd)
  BY DEF Live, Expected
<1>3. /\ DOMAIN Told(log) = 1 .. Len(head.recs) + 1
      /\ Told(log)[Len(head.recs) + 1] = cmd
  BY <1>1, <1>2 DEF With
<1>4. Len(log) = Len(head.recs) + 1
  BY <1>1, <1>3
<1> QED BY <1>2, <1>3, <1>4

\* What the head does not cover goes on telling nothing of the other items.
LEMMA SilentStays ==
    ASSUME PDType, Live, [PDNext]_pdVars, log' = log, head' = head,
           pc = "framed" /\ stage = "saved" => cmd.item \in cut'
    PROVE  \A n \in Len(head'.recs) + 1 .. Len(log') :
               Told(log)'[n].type \notin ChangeTypes \/ Told(log)'[n].item \in cut'
<1>1. Recorded(log) /\ Len(head.recs) \in Nat /\ Len(log) \in Nat
  BY LogRecorded
<1>2. Told(log)' = Told(log)
  BY <1>1, ToldStays DEF Told, ToldNext
<1>3. CASE ~ (pc = "framed" /\ stage = "saved")
  BY <1>2, <1>3, CutGrows DEF Live
<1>4. CASE pc = "framed" /\ stage = "saved"
  <2>1. Len(log) = Len(head.recs) + 1 /\ Told(log)[Len(log)] = cmd
    BY <1>4, LastIsOwn
  <2> QED BY <1>1, <1>2, <1>4, <2>1
<1> QED BY <1>3, <1>4

\* A log that verifies goes on doing so, or can never be read again.
LEMMA LiveStep ==
    ASSUME PDType, Control, Live, [PDNext]_pdVars, PDType', Control'
    PROVE  Live' \/ Dead'
<1> USE DEF vars, disk, Running
<1>0. /\ log \in Seq(Record) /\ head.recs \in Seq(Record) /\ leaves \in Seq(Record)
      /\ IsPrefix(head.recs, log) /\ head.recs # <<>> /\ junk \in {"none", "partial"}
      /\ TypeOK
  BY DEF PDType, TypeInv, TypeOK, TreeHead, Live
<1>1. log # <<>> /\ Len(head.recs) <= Len(log)
  BY <1>0, PrefixElements
<1>2. CASE OpenStore
  <2>0. UNCHANGED catalogVars /\ stage = "none" /\ stage' = "none"
    BY <1>2 DEF OpenStore, catalogVars
  <2>1. CASE Open(NoKey)
    <3>1. UNCHANGED <<log, junk, head>> /\ pc \in {"down", "refused"}
      BY <2>1 DEF Open
    <3>2. \A n \in Len(head'.recs) + 1 .. Len(log') :
               Told(log)'[n].type \notin ChangeTypes \/ Told(log)'[n].item \in cut'
      BY <3>1, SilentStays
    <3>3. CASE pc' = "refused"
      BY <1>0, <3>1, <3>2, <3>3 DEF Live
    <3>4. CASE pc' = "recover"
      <4>1. Committed(head, log) = Len(head.recs)
        BY <1>0, <2>1, <3>4, AcceptedCommitted DEF Open
      <4>2. Committed(head, log)' = Len(head.recs)'
        BY <3>1, <4>1 DEF Committed
      <4> QED BY <1>0, <3>1, <3>2, <3>4, <4>2 DEF Live
    <3>5. CASE pc' = "up"
      <4>1. /\ ~ HeadRefused(head, log, NoKey) /\ ~ IsCrashTail(head, log, junk)
            /\ Committed(head, log) = Len(log) /\ leaves' = log
        BY <2>1, <3>5 DEF Open, LoadStore
      <4>2. junk = "none"
        BY <1>0, <4>1 DEF IsCrashTail
      <4>3. Len(head.recs) = Len(log)
        BY <1>0, <4>1, AcceptedCommitted
      <4>4. log = head.recs
        BY <1>0, <4>3, PrefixElements
      <4> QED BY <1>0, <1>1, <3>1, <3>5, <4>1, <4>2, <4>4, CoveredLives
    <3> QED BY <2>1, <3>3, <3>4, <3>5 DEF Open
  <2>2. CASE QuarantineCopy
    <3>1. UNCHANGED <<log, junk, head>> /\ pc = "recover" /\ pc' = "copied"
      BY <2>2 DEF QuarantineCopy, CopyBehind
    <3>2. \A n \in Len(head'.recs) + 1 .. Len(log') :
               Told(log)'[n].type \notin ChangeTypes \/ Told(log)'[n].item \in cut'
      BY <3>1, SilentStays
    <3>3. Committed(head, log)' = Len(head.recs)'
      BY <3>1 DEF Committed, Live
    <3> QED BY <1>0, <3>1, <3>2, <3>3 DEF Live
  <2>3. CASE QuarantineTruncate
    BY <1>0, <2>3, LiveCut, CoveredLives
  <2> QED BY <1>2, <2>1, <2>2, <2>3 DEF OpenStore
<1>3. CASE \/ LoadCatalog \/ SaveCatalog
           \/ \E type, i, case, node :
                  ChangeItem(type, i, case, node) \/ RecordAccess(i) \/ ExportCase(case)
  <2>1. UNCHANGED vars /\ pc = "up" /\ stage \in {"none", "loaded", "saving"}
    <3>1. CASE LoadCatalog
      BY <3>1 DEF LoadCatalog
    <3>2. CASE SaveCatalog
      BY <3>2 DEF SaveCatalog, Control
    <3>3. ASSUME NEW type, NEW i, NEW case, NEW node,
                 ChangeItem(type, i, case, node) \/ RecordAccess(i) \/ ExportCase(case)
          PROVE  UNCHANGED vars /\ pc = "up" /\ stage = "loaded"
      BY <3>3 DEF ChangeItem, RecordAccess, ExportCase, Control
    <3> QED BY <1>3, <3>1, <3>2, <3>3
  <2>2. log = head.recs /\ junk = "none" /\ leaves = log
    BY <2>1 DEF Live
  <2>3. UNCHANGED <<log, head, junk, leaves, pc>>
    BY <2>1 DEF memory
  <2> QED BY <1>0, <1>1, <2>1, <2>2, <2>3, CoveredLives
<1>4. CASE AppendEvent
  <2>1. /\ junk = "none" /\ log = head.recs /\ leaves = log /\ stage = "saved" /\ Frames(cmd)
        /\ AppendFrame
    BY <1>4 DEF AppendEvent, AppendFrame, Live, Frames
  <2>2. /\ log' = Append(log, NewRecord) /\ leaves' = log' /\ junk' = "none" /\ head' = head
        /\ pc' = "framed" /\ UNCHANGED <<stage, cmd>>
    BY <1>4, <2>1 DEF AppendFrame, AppendEvent
  <2>3. NewRecord \in Record
    BY <2>1, FrameFacts
  <2>4. IsPrefix(head'.recs, log') /\ IsPrefix(log', leaves')
    <3>1. log' \in Seq(Record)
      BY <1>0, <2>2, <2>3
    <3> QED BY <1>0, <2>2, <2>3, <3>1, PrefixAppend, PrefixRefl
  <2>5. Told(log)' = With(Told(log), Len(log), cmd)
    BY <2>1, <2>2, ToldWith
  <2>6. ToldNext(head.recs) = Told(head.recs)
    BY <1>0, LogRecorded, ToldStays
  <2>7. Expected' = With(ToldNext(head.recs), Len(head.recs), cmd)
    BY <2>1, <2>2 DEF Expected, Told, ToldNext
  <2>8. Told(log)' = Expected'
    BY <2>1, <2>5, <2>6, <2>7
  <2> QED BY <1>0, <2>1, <2>2, <2>4, <2>8 DEF Live
<1>5. CASE EventRecorded
  <2>1. junk = "none" /\ leaves = log /\ pc = "framed" /\ stage = "saved"
    BY <1>5 DEF EventRecorded, WriteTreeHead, Live
  <2>2. UNCHANGED <<log, junk, leaves>> /\ head'.recs = log /\ pc' = "up"
    BY <1>5, <2>1 DEF EventRecorded, WriteTreeHead, memory
  <2> QED BY <1>0, <1>1, <2>1, <2>2, CoveredLives
<1>6. CASE AppendFails
  <2>1. stage = "saved" /\ stage' = "failed" /\ cut' = cut \cup {cmd.item}
    BY <1>6 DEF AppendFails
  <2>2. UNCHANGED <<log, head, leaves>> /\ pc' = "up" /\ pc \in {"up", "framed"}
    BY <1>6 DEF AppendFails, SealFails, ShortWrite, HeadFails, memory
  <2>3. leaves = log /\ junk = "none"
    BY <2>1, <2>2 DEF Live
  <2>4. junk' \in {"none", "partial"}
    BY <1>6, <2>3 DEF AppendFails, SealFails, ShortWrite, HeadFails, JunkAfterTornWrite
  <2>5. \A n \in Len(head'.recs) + 1 .. Len(log') :
             Told(log)'[n].type \notin ChangeTypes \/ Told(log)'[n].item \in cut'
    BY <2>1, <2>2, SilentStays
  <2>6. IsPrefix(log', leaves')
    BY <1>0, <2>2, <2>3, PrefixRefl
  <2> QED BY <1>0, <2>1, <2>2, <2>3, <2>4, <2>5, <2>6 DEF Live
<1>7. ASSUME NEW i \in todo, ExportFrame(i) PROVE Live' \/ Dead'
  <2> DEFINE e == [type |-> "export", item |-> i, case |-> CaseOf(i)]
  <2>1. stage = "export" /\ stage' = "export" /\ Frames(e) /\ AppendFrame /\ cut' = cut
    BY <1>7 DEF ExportFrame, Frames
  <2>2. NewRecord \in Record /\ e.type = "export"
    BY <2>1, FrameFacts
  <2> HIDE DEF e
  <2>3. leaves' = Append(leaves, NewRecord) /\ head' = head /\ pc' = "framed" /\ pc = "up"
    BY <2>1 DEF AppendFrame
  <2>4. IsPrefix(log, leaves) /\ (junk = "none" => leaves = log)
    BY <2>3 DEF Live
  <2>5. CASE junk = "none"
    <3>1. log' = Append(log, NewRecord) /\ leaves' = log' /\ junk' = "none"
      BY <2>1, <2>3, <2>4, <2>5 DEF AppendFrame
    <3>2. /\ log' \in Seq(Record) /\ Len(log') = Len(log) + 1
      BY <1>0, <2>2, <3>1
    <3>3. IsPrefix(head'.recs, log') /\ IsPrefix(log', leaves')
      BY <1>0, <2>2, <2>3, <3>1, <3>2, PrefixAppend, PrefixRefl
    <3>4. Told(log)' = With(Told(log), Len(log), e)
      BY <2>1, <3>1, ToldWith
    <3>5. ASSUME NEW n \in Len(head'.recs) + 1 .. Len(log')
          PROVE  Told(log)'[n].type \notin ChangeTypes \/ Told(log)'[n].item \in cut'
      <4>1. n \in 1 .. Len(log) + 1 /\ (n = Len(log) + 1 \/ n \in Len(head.recs) + 1 .. Len(log))
        BY <1>0, <1>1, <2>3, <3>2
      <4>2. Told(log)'[n] = IF n = Len(log) + 1 THEN e ELSE Told(log)[n]
        BY <3>4, <4>1 DEF With
      <4>3. e.type \notin ChangeTypes
        BY <2>2 DEF ChangeTypes
      <4> QED BY <2>1, <4>1, <4>2, <4>3 DEF Live
    <3> QED BY <1>0, <2>1, <2>3, <3>1, <3>3, <3>5 DEF Live
  <2>6. CASE junk = "partial"
    <3>1. log' = log /\ junk' \in {"partial", "frame"}
      BY <2>1, <2>6 DEF AppendFrame, JunkAfterWrite
    <3>2. IsPrefix(log', leaves')
      BY <1>0, <2>2, <2>3, <2>4, <3>1, PrefixAppend
    <3>3. \A n \in Len(head'.recs) + 1 .. Len(log') :
               Told(log)'[n].type \notin ChangeTypes \/ Told(log)'[n].item \in cut'
      BY <2>1, <2>3, <3>1, SilentStays
    <3>4. CASE junk' = "frame"
      BY <2>3, <3>4 DEF Dead
    <3>5. CASE junk' = "partial"
      BY <1>0, <2>1, <2>3, <3>1, <3>2, <3>3, <3>5 DEF Live
    <3> QED BY <3>1, <3>4, <3>5
  <2> QED BY <1>0, <2>5, <2>6
<1>8. CASE ExportRecorded
  <2>1. /\ stage = "export" /\ stage' = "export" /\ pc = "framed" /\ pc' = "up"
        /\ UNCHANGED <<log, junk, leaves>> /\ head'.recs = leaves
    BY <1>8 DEF ExportRecorded, WriteTreeHead, catalogVars, memory
  <2>2. IsPrefix(log, leaves) /\ (junk = "none" => leaves = log)
    BY <2>1 DEF Live
  <2>3. Len(log) <= Len(leaves)
    BY <1>0, <2>2, PrefixElements
  <2>4. CASE Len(leaves) = Len(log)
    <3>1. leaves = log
      BY <1>0, <2>2, <2>4, PrefixElements
    <3>2. Len(head'.recs) + 1 .. Len(log') = {}
      BY <1>0, <2>1, <3>1
    <3>3. IsPrefix(log, log)
      BY <1>0, PrefixRefl
    <3> QED BY <1>0, <1>1, <2>1, <3>1, <3>2, <3>3 DEF Live
  <2>5. CASE Len(leaves) > Len(log)
    <3>1. junk = "partial"
      BY <1>0, <2>2, <2>5
    <3> QED BY <1>1, <2>1, <2>5, <3>1 DEF Dead
  <2> QED BY <1>0, <2>3, <2>4, <2>5
<1>9. CASE ExportAppendFails
  <2>1. stage = "export" /\ stage' = "export"
    BY <1>9 DEF ExportAppendFails
  <2>2. UNCHANGED <<log, head, leaves>> /\ pc' = "up" /\ pc \in {"up", "framed"}
    BY <1>9 DEF ExportAppendFails, SealFails, ShortWrite, HeadFails, memory
  <2>3. IsPrefix(log, leaves) /\ (junk = "none" => leaves = log)
    BY <2>2 DEF Live
  <2>4. junk' = junk \/ junk' \in {"partial", "frame"}
    BY <1>0, <1>9 DEF ExportAppendFails, SealFails, ShortWrite, HeadFails,
       JunkAfterTornWrite,
                      JunkAfterWrite
  <2>5. \A n \in Len(head'.recs) + 1 .. Len(log') :
             Told(log)'[n].type \notin ChangeTypes \/ Told(log)'[n].item \in cut'
    BY <2>1, <2>2, SilentStays
  <2>6. CASE junk' = "frame"
    BY <2>2, <2>6 DEF Dead
  <2>7. CASE junk' # "frame"
    <3>1. junk' = "none" => leaves' = log'
      BY <2>2, <2>3, <2>4
    <3> QED BY <1>0, <2>1, <2>2, <2>3, <2>5, <2>7, <3>1 DEF Live
  <2> QED BY <2>6, <2>7
<1>10. CASE Exit \/ KillCommand
  <2>1. UNCHANGED <<log, head>> /\ pc' = "down" /\ stage' = "none"
    BY <1>10 DEF Exit, KillCommand, CommandGone, Close, Crash, ProcessGone
  <2>2. pc = "framed" /\ stage = "saved" => cmd.item \in cut'
    BY <1>10 DEF Exit, KillCommand
  <2>3. \A n \in Len(head'.recs) + 1 .. Len(log') :
             Told(log)'[n].type \notin ChangeTypes \/ Told(log)'[n].item \in cut'
    BY <2>1, <2>2, SilentStays
  <2>4. CASE junk' = "frame"
    BY <2>1, <2>4 DEF Dead
  <2>5. CASE junk' # "frame"
    BY <1>0, <2>1, <2>3, <2>5 DEF Live
  <2> QED BY <2>4, <2>5
<1>11. CASE UNCHANGED pdVars
  <2>1. UNCHANGED <<log, junk, head, leaves, pc, stage, cmd, events, cut>>
    BY <1>11 DEF pdVars, catalogVars, memory
  <2>2. /\ Told(log)' = Told(log) /\ Expected' = Expected
        /\ Committed(head, log)' = Committed(head, log)
    BY <2>1 DEF Told, Expected, Committed
  <2> QED BY <2>1, <2>2 DEF Live
<1> QED BY <1>2, <1>3, <1>4, <1>5, <1>6, <1>7, <1>8, <1>9, <1>10, <1>11 DEF PDNext

-----------------------------------------------------------------------------
(* The catalog and the log.                                                 *)

\* What the log will tell is the same where head, command and its being under way are.
LEMMA ExpectedSame ==
    ASSUME PDType, Live, [PDNext]_pdVars, head' = head,
           stage' \in {"saving", "saved"} <=> stage \in {"saving", "saved"},
           stage \in {"saving", "saved"} => cmd' = cmd
    PROVE  Expected' = Expected
<1>1. Recorded(head.recs)
  BY LogRecorded DEF Live
<1>2. ToldNext(head.recs) = Told(head.recs)
  BY <1>1, ToldStays
<1>3. Told(head.recs)' = Told(head.recs)
  BY <1>2 DEF Told, ToldNext
<1> QED BY <1>3 DEF Expected

\* What is expected of the log covers a number of places.
LEMMA ExpectedPlaces ==
    ASSUME PDType
    PROVE  \E K \in Nat : DOMAIN Expected = 1 .. K
<1>1. Len(head.recs) \in Nat /\ DOMAIN Told(head.recs) = 1 .. Len(head.recs)
  BY LogRecorded
<1>2. DOMAIN With(Told(head.recs), Len(head.recs), cmd) = 1 .. Len(head.recs) + 1
  BY DEF With
<1> QED BY <1>1, <1>2 DEF Expected

\* The step moves no history in what is expected of the log.
Unmoved == \A i \in Items \ cut' : SameHistory(Expected, Expected', i)

\* A command that ends before its event is covered moves the history of its own item
\* only; any other step that is not the start of a change moves none.
LEMMA ExpectedUnmoved ==
    ASSUME PDType, Control, Live, [PDNext]_pdVars, PDType', Live',
           \A type \in ChangeTypes, i \in Items, case \in Cases, node \in Nodes :
               ~ ChangeItem(type, i, case, node)
    PROVE  Unmoved
<1> USE DEF vars, disk
<1>0. /\ Len(head.recs) \in Nat /\ DOMAIN Told(head.recs) = 1 .. Len(head.recs)
      /\ Recorded(head.recs) /\ Recorded(log)
  BY LogRecorded DEF Live
<1>1. ToldNext(head.recs) = Told(head.recs) /\ ToldNext(log) = Told(log)
  BY <1>0, ToldStays
<1>2. Expected' = Expected => Unmoved
  BY DEF Unmoved, SameHistory
<1>3. CASE OpenStore
  <2>1. head' = head
    BY <1>3 DEF OpenStore, Open, QuarantineCopy, CopyBehind, QuarantineTruncate,
       TruncateBehind
  <2> QED BY <1>2, <1>3, <2>1, ExpectedSame DEF OpenStore, catalogVars
<1>4. CASE LoadCatalog \/ SaveCatalog \/ \E case \in Cases : ExportCase(case)
  BY <1>2, <1>4, ExpectedSame DEF LoadCatalog, SaveCatalog, ExportCase
<1>5. ASSUME NEW i \in Items, RecordAccess(i) PROVE Unmoved
  <2>1. /\ stage = "loaded" /\ stage' = "saved" /\ head' = head
        /\ cmd' = [type |-> "access", item |-> i, case |-> CaseOf(i)]
    BY <1>5 DEF RecordAccess
  <2>2. Expected = Told(head.recs)
    BY <2>1 DEF Expected
  <2>3. Expected' = With(ToldNext(head.recs), Len(head.recs), cmd')
    BY <2>1 DEF Expected, Told, ToldNext
  <2>4. Expected' = With(Expected, Len(head.recs), cmd')
    BY <1>1, <2>2, <2>3
  <2>5. cmd'.type \notin ChangeTypes
    BY <2>1 DEF ChangeTypes
  <2>6. ASSUME NEW j PROVE SameHistory(Expected, Expected', j)
    BY <1>0, <2>2, <2>4, <2>5, HistoryWith
  <2> QED BY <2>6 DEF Unmoved
<1>6. CASE AppendEvent \/ \E i \in todo : ExportFrame(i)
  BY <1>2, <1>6, ExpectedSame DEF AppendEvent, ExportFrame, AppendFrame
<1>7. CASE EventRecorded
  <2>1. /\ stage = "saved" /\ stage' = "done" /\ pc = "framed"
        /\ leaves = log /\ head'.recs = leaves
    BY <1>7 DEF EventRecorded, WriteTreeHead, Live, Running
  <2>2. Told(log) = Expected
    BY <2>1, LastIsOwn
  <2>3. Expected' = ToldNext(log)
    BY <2>1 DEF Expected, Told, ToldNext
  <2> QED BY <1>1, <1>2, <2>2, <2>3
<1>8. CASE ExportRecorded
  <2>1. /\ stage = "export" /\ stage' = "export" /\ pc = "framed" /\ head'.recs = leaves
        /\ log' = log /\ cut' = cut /\ UNCHANGED leaves
    BY <1>8 DEF ExportRecorded, WriteTreeHead, catalogVars, memory
  <2>2. leaves = log
    <3>1. log \in Seq(Record) /\ leaves \in Seq(Record)
      BY DEF PDType, TypeInv, TypeOK
    <3>2. IsPrefix(log, leaves) /\ IsPrefix(leaves, log)
      BY <2>1 DEF Live, Running
    <3> QED BY <3>1, <3>2, PrefixElements
  <2>3. Expected = Told(head.recs) /\ Expected' = ToldNext(log)
    BY <2>1, <2>2 DEF Expected, Told, ToldNext
  <2> QED BY <1>1, <2>1, <2>3, UncoveredSilent DEF Unmoved
<1>9. ASSUME stage \in {"saving", "saved"}, stage' \in {"none", "failed"}, head' = head,
             cmd.item \in cut'
      PROVE  Unmoved
  <2>1. Expected = With(Told(head.recs), Len(head.recs), cmd)
    BY <1>9 DEF Expected
  <2>2. Expected' = ToldNext(head.recs)
    BY <1>9 DEF Expected, Told, ToldNext
  <2>3. ASSUME NEW i \in Items \ cut' PROVE SameHistory(Expected, Expected', i)
    <3>1. cmd.item # i
      BY <1>9
    <3> QED BY <1>0, <1>1, <2>1, <2>2, <3>1, HistoryWith
  <2> QED BY <2>3 DEF Unmoved
<1>10. CASE AppendFails
  <2>1. /\ stage = "saved" /\ stage' = "failed" /\ cmd.item \in cut' /\ head' = head
    BY <1>10 DEF AppendFails, SealFails, ShortWrite, HeadFails
  <2> QED BY <1>9, <2>1
<1>11. CASE ExportAppendFails
  <2>1. head' = head /\ stage = "export" /\ stage' = "export"
    BY <1>11 DEF ExportAppendFails, SealFails, ShortWrite, HeadFails
  <2> QED BY <1>2, <2>1, ExpectedSame
<1>12. CASE Exit
  <2>1. head' = head /\ stage \notin {"saving", "saved"} /\ stage' = "none"
    BY <1>12 DEF Exit, Close, CommandGone
  <2> QED BY <1>2, <2>1, ExpectedSame
<1>13. CASE KillCommand
  <2>1. head' = head /\ stage' = "none" /\ (stage \in {"saving", "saved"} => cmd.item \in cut')
    BY <1>13 DEF KillCommand, Crash, CommandGone
  <2>2. CASE stage \in {"saving", "saved"}
    BY <1>9, <2>1, <2>2
  <2>3. CASE stage \notin {"saving", "saved"}
    BY <1>2, <2>1, <2>3, ExpectedSame
  <2> QED BY <2>2, <2>3
<1>14. CASE UNCHANGED pdVars
  BY <1>2, <1>14, ExpectedSame DEF pdVars, catalogVars
<1> QED BY <1>3, <1>4, <1>5, <1>6, <1>7, <1>8, <1>10, <1>11, <1>12, <1>13, <1>14 DEF PDNext

\* The catalog that counts is changed by the start of a change alone.
LEMMA ShownStays ==
    ASSUME Control, [PDNext]_pdVars, Claimed',
           \A type \in ChangeTypes, i \in Items, case \in Cases, node \in Nodes :
               ~ ChangeItem(type, i, case, node)
    PROVE  Claimed /\ Shown' = Shown
<1> USE DEF Claimed, Shown
<1>1. CASE OpenStore \/ ExportRecorded \/ UNCHANGED pdVars
  BY <1>1 DEF OpenStore, ExportRecorded, pdVars, catalogVars
<1>2. CASE LoadCatalog
  BY <1>2 DEF LoadCatalog
<1>3. CASE SaveCatalog \/ AppendEvent \/ EventRecorded \/ ExportAppendFails
  BY <1>3 DEF SaveCatalog, AppendEvent, EventRecorded, ExportAppendFails
<1>4. ASSUME NEW i, NEW case, RecordAccess(i) \/ ExportCase(case) \/ ExportFrame(i)
      PROVE  Claimed /\ Shown' = Shown
  BY <1>4 DEF RecordAccess, ExportCase, ExportFrame
<1>5. CASE AppendFails
  BY <1>5 DEF AppendFails, Control
<1>6. CASE Exit \/ KillCommand
  BY <1>6 DEF Exit, KillCommand, CommandGone, Control
<1> QED BY <1>1, <1>2, <1>3, <1>4, <1>5, <1>6 DEF PDNext

\* A step leaves the catalog what the log says, or will say, and that sound.
LEMMA AgreesStep ==
    ASSUME PDType, Control, Live, Sound(Expected), CatBody, [PDNext]_pdVars, PDType', Live'
    PROVE  Sound(Expected)' /\ CatBody'
<1>1. ASSUME NEW type \in ChangeTypes, NEW i \in Items, NEW case \in Cases, NEW node \in Nodes,
             ChangeItem(type, i, case, node)
      PROVE  Sound(Expected)' /\ CatBody'
  <2> DEFINE t == Told(head.recs)
             K == Len(head.recs)
             u == Expected'
  <2>1. /\ stage = "loaded" /\ stage' = "saving" /\ head' = head /\ cut' = cut
        /\ cmd'.item = i /\ cmd'.type = type
        /\ DOMAIN items' = DOMAIN items \cup {i}
        /\ \A j \in DOMAIN items : j # i => items'[j] = items[j]
    BY <1>1 DEF ChangeItem, vars, disk
  <2>2. K \in Nat /\ DOMAIN t = 1 .. K /\ Recorded(head.recs)
    BY LogRecorded DEF Live
  <2>3. Expected = t /\ u = With(t, K, cmd')
    <3>1. ToldNext(head.recs) = Told(head.recs)
      BY <2>2, ToldStays
    <3> QED BY <2>1, <3>1 DEF Expected, Told, ToldNext
  <2>4. Shown = items /\ Shown' = items' /\ Agrees(items, t)
    BY <2>1, <2>3 DEF Shown, Claimed, CatBody
  <2> HIDE DEF t, K, u
  <2>5. ASSUME NEW j \in Items \ cut PROVE SoundOn(u, j) /\ AgreesOn(items', u, j)
    <3>1. SoundOn(t, j) /\ AgreesOn(items, t, j)
      BY <2>3, <2>4 DEF Sound, Agrees
    <3>2. CASE j = i
      BY <1>1, <2>2, <2>3, <3>1, <3>2, ChangeTrue
    <3>3. CASE j # i
      <4>1. SameHistory(t, u, j)
        BY <2>1, <2>2, <2>3, <3>3, HistoryWith
      <4>2. SoundOn(u, j) /\ AgreesOn(items, u, j)
        BY <2>2, <3>1, <4>1, SameSays
      <4>3. AgreesOn(items', u, j)
        BY <2>1, <3>3, <4>2 DEF AgreesOn
      <4> QED BY <4>2, <4>3
    <3> QED BY <3>2, <3>3
  <2> QED BY <2>1, <2>4, <2>5 DEF Sound, CatBody, Agrees, u
<1>2. ASSUME \A type \in ChangeTypes, i \in Items, case \in Cases, node \in Nodes :
                 ~ ChangeItem(type, i, case, node)
      PROVE  Sound(Expected)' /\ CatBody'
  <2>1. Unmoved
    BY <1>2, ExpectedUnmoved
  <2>2. PICK K \in Nat : DOMAIN Expected = 1 .. K
    BY ExpectedPlaces
  <2>3. ASSUME NEW i \in Items \ cut'
        PROVE  /\ i \in Items \ cut /\ SoundOn(Expected', i)
               /\ \A cat : AgreesOn(cat, Expected, i) => AgreesOn(cat, Expected', i)
    <3>1. i \in Items \ cut
      BY CutGrows
    <3>2. SameHistory(Expected, Expected', i)
      BY <2>1 DEF Unmoved
    <3>3. SoundOn(Expected, i)
      BY <3>1 DEF Sound
    <3> QED BY <2>2, <3>1, <3>2, <3>3, SameSays
  <2>4. Sound(Expected)'
    BY <2>3 DEF Sound
  <2>5. ASSUME Claimed' PROVE Agrees(Shown, Expected)'
    <3>1. Claimed /\ Shown' = Shown
      BY <1>2, <2>5, ShownStays
    <3>2. Agrees(Shown, Expected)
      BY <3>1 DEF CatBody
    <3>3. ASSUME NEW i \in Items \ cut' PROVE AgreesOn(Shown', Expected', i)
      <4>1. AgreesOn(Shown, Expected, i)
        BY <2>3, <3>2 DEF Agrees
      <4> QED BY <2>3, <3>1, <4>1
    <3> QED BY <3>3 DEF Agrees
  <2> QED BY <2>4, <2>5 DEF CatBody
<1> QED BY <1>1, <1>2

\* The log itself stays sound.
LEMMA SoundLogStep ==
    ASSUME PDType, Control, Live, Sound(Told(log)), Sound(Expected), [PDNext]_pdVars
    PROVE  Sound(Told(log))'
<1>0. /\ Len(head.recs) \in Nat /\ Recorded(head.recs) /\ Recorded(log) /\ Len(log) \in Nat
      /\ DOMAIN Told(log) = 1 .. Len(log)
  BY LogRecorded DEF Live
<1>1. ToldNext(head.recs) = Told(head.recs) /\ cut \subseteq cut'
  BY <1>0, ToldStays, CutGrows
<1>2. CASE log' = log
  BY <1>2, SoundStays
<1>3. CASE OpenStore /\ QuarantineTruncate
  <2>1. log' = head.recs /\ stage = "none"
    BY <1>3, LiveCut DEF OpenStore
  <2>2. Told(log)' = Expected
    BY <1>1, <2>1 DEF Expected, Told, ToldNext
  <2> QED BY <1>1, <2>2 DEF Sound
<1>4. ASSUME NEW e, Frames(e), log' = Append(log, NewRecord),
             (stage = "saved" /\ e = cmd) \/ e.type = "export"
      PROVE  Sound(Told(log))'
  <2>1. Told(log)' = With(Told(log), Len(log), e)
    BY <1>4, ToldWith
  <2>2. CASE stage = "saved" /\ e = cmd
    <3>1. log = head.recs
      BY <1>4, <2>2 DEF Live, Frames, AppendFrame
    <3>2. Told(log)' = Expected
      BY <2>1, <2>2, <3>1 DEF Expected
    <3> QED BY <1>1, <3>2 DEF Sound
  <2>3. CASE e.type = "export"
    <3> DEFINE t == Told(log)
               u == Told(log)'
               K == Len(log)
    <3>1. K \in Nat /\ DOMAIN t = 1 .. K /\ u = With(t, K, e) /\ e.type \notin ChangeTypes
      BY <1>0, <2>1, <2>3 DEF ChangeTypes
    <3>2. \A i \in Items \ cut' : SoundOn(t, i)
      BY <1>1 DEF Sound
    <3> HIDE DEF t, u, K
    <3>3. ASSUME NEW i \in Items \ cut' PROVE SoundOn(u, i)
      <4>1. SameHistory(t, u, i)
        BY <3>1, HistoryWith
      <4> QED BY <3>1, <3>2, <4>1, SameSays
    <3> QED BY <3>3 DEF Sound, u
  <2> QED BY <1>4, <2>2, <2>3
<1>5. ASSUME NEW e, Frames(e), (stage = "saved" /\ e = cmd) \/ e.type = "export"
      PROVE  Sound(Told(log))'
  BY <1>2, <1>4, <1>5, FrameFacts
<1>6. CASE Keeps
  BY <1>2, <1>3, <1>6 DEF Keeps
<1>7. CASE stage = "saved" /\ Frames(cmd)
  BY <1>5, <1>7
<1>8. ASSUME NEW i, Frames([type |-> "export", item |-> i, case |-> CaseOf(i)])
      PROVE  Sound(Told(log))'
  <2> DEFINE e == [type |-> "export", item |-> i, case |-> CaseOf(i)]
  <2>1. e.type = "export" /\ Frames(e)
    BY <1>8
  <2> HIDE DEF e
  <2> QED BY <1>5, <2>1
<1> QED BY <1>6, <1>7, <1>8, EventSteps

\* The invariant holds in what witness-pd init leaves.
LEMMA CatalogInvInit == ASSUME Initialised PROVE PDInit => CatalogInv
<1> SUFFICES ASSUME PDInit PROVE CatalogInv
  OBVIOUS
<1>1. PDType /\ Control
  BY PDTypeInit
<1>2. /\ log = <<Genesis>> /\ head.recs = log /\ written = Len(log) /\ junk = "none" /\ pc = "down"
      /\ stage = "none" /\ catalog = Empty /\ bundles = {} /\ cut = {}
      /\ events = [id \in 1 .. written |-> NoEvent]
  BY DEF PDInit, Init
<1>3. Len(log) = 1 /\ log[1] = Genesis /\ log # <<>> /\ DOMAIN log = 1 .. 1 /\ log \in Seq(Record)
  BY <1>1, <1>2 DEF PDType, TypeInv, TypeOK
<1>4. \A n \in DOMAIN Told(log) : Told(log)[n] = NoEvent
  BY <1>2, <1>3 DEF Told, Genesis
<1>5. \A i : History(Told(log), i) = {}
  BY <1>4 DEF History, NoEvent, ChangeTypes
<1>6. Expected = Told(log)
  BY <1>2 DEF Expected
<1>7. Sound(Told(log)) /\ Agrees(catalog, Told(log))
  BY <1>2, <1>5 DEF Sound, SoundOn, Agrees, AgreesOn, Empty
<1>8. Live
  <2>1. IsPrefix(head.recs, log)
    BY <1>2, <1>3, PrefixRefl
  <2>2. Len(head.recs) + 1 .. Len(log) = {}
    BY <1>2, <1>3
  <2> QED BY <1>2, <1>3, <2>1, <2>2 DEF Live, Running
<1>9. CatBody /\ BundleBody
  BY <1>2, <1>6, <1>7 DEF CatBody, Shown, BundleBody
<1> QED BY <1>1, <1>6, <1>7, <1>8, <1>9 DEF CatalogInv

\* Every step keeps it.
LEMMA CatalogInvStep == CatalogInv /\ [PDNext]_pdVars => CatalogInv'
<1> SUFFICES ASSUME CatalogInv, [PDNext]_pdVars PROVE CatalogInv'
  OBVIOUS
<1>1. PDType /\ Control /\ PDType' /\ Control' /\ Sound(Told(log))
  BY PDTypeStep, ControlStep DEF CatalogInv
<1>2. CASE Live
  <2>1. Sound(Expected) /\ CatBody /\ BundleBody
    BY <1>2 DEF CatalogInv
  <2>2. Live' \/ Dead'
    BY <1>1, <1>2, LiveStep
  <2>3. Sound(Told(log))'
    BY <1>1, <1>2, <2>1, SoundLogStep
  <2>4. Live' => Sound(Expected)' /\ CatBody'
    BY <1>1, <1>2, <2>1, AgreesStep
  <2>5. BundleBody'
    BY <1>1, <1>2, <2>1, BundlesStay
  <2> QED BY <1>1, <2>2, <2>3, <2>4, <2>5 DEF CatalogInv
<1>3. CASE Dead
  <2>1. Dead' /\ Sound(Told(log))'
    BY <1>1, <1>3, DeadStep
  <2>2. (PDType /\ Dead => ~ Live)'
    BY NotBoth, PTL
  <2> QED BY <1>1, <2>1, <2>2 DEF CatalogInv
<1> QED BY <1>2, <1>3 DEF CatalogInv

\* It holds after init and after every step of every command.
LEMMA CatalogInvariant == ASSUME Initialised PROVE PDSpec => []CatalogInv
<1> QED BY CatalogInvInit, CatalogInvStep, PTL DEF PDSpec

\* After every command, and after every kill, failed write and recovery, the catalog
\* and the log agree on each item whose commands all reported success.
THEOREM CatalogAlwaysMatchesLog == ASSUME Initialised PROVE PDSpec => []CatalogMatchesLog
<1>1. CatalogInv => CatalogMatchesLog
  <2> SUFFICES ASSUME CatalogInv, Intact, stage = "none", ~ torn, NEW i \in Items \ cut
               PROVE  AgreesOn(catalog, Told(log), i)
    BY DEF CatalogMatchesLog, AgreesOn
  <2>1. PDType /\ Live /\ Sound(Expected) /\ CatBody
    BY NotBoth DEF CatalogInv
  <2>2. Expected = Told(head.recs)
    BY DEF Expected
  <2>3. SoundOn(Told(head.recs), i) /\ AgreesOn(catalog, Told(head.recs), i)
    BY <2>1, <2>2 DEF Sound, CatBody, Claimed, Shown, Agrees
  <2>4. SameHistory(Told(head.recs), Told(log), i)
    BY <2>1, UncoveredSilent
  <2>5. Len(head.recs) \in Nat /\ DOMAIN Told(head.recs) = 1 .. Len(head.recs)
    BY <2>1, LogRecorded
  <2> QED BY <2>3, <2>4, <2>5, SameSays
<1> QED BY <1>1, CatalogInvariant, PTL

\* No item whose commands all reported success is ever transferred or destroyed under
\* a hold, in the log, also when frames are written short.
THEOREM HoldAlwaysProtects == ASSUME Initialised PROVE PDSpec => []HoldProtects
<1>1. CatalogInv => HoldProtects
  BY DEF CatalogInv, Sound, SoundOn, HoldProtects
<1> QED BY <1>1, CatalogInvariant, PTL

\* A court bundle, once written, stays what the log holds on its case, and everything
\* else on the case comes behind it.
THEOREM BundlesAlwaysStand == ASSUME Initialised PROVE PDSpec => []BundlesStand
<1>1. CatalogInv => BundlesStand
  <2> SUFFICES ASSUME CatalogInv, Intact, NEW b \in bundles
               PROVE  LET places == DOMAIN b.entries
                      IN /\ places \subseteq OfCase(b.case) /\ b.entries = Restrict(log, places)
                         /\ \A n \in OfCase(b.case) \ places : \A m \in places : m < n
    BY DEF BundlesStand
  <2>1. PDType /\ BundleBody
    BY NotBoth DEF CatalogInv
  <2>2. PICK k \in 0 .. Len(head.recs) :
            b.entries = Restrict(log, {n \in OfCase(b.case) : n <= k})
    BY <2>1 DEF BundleBody
  <2> DEFINE P == {n \in OfCase(b.case) : n <= k}
  <2>3. DOMAIN b.entries = P /\ b.entries = Restrict(log, P)
    BY <2>2 DEF Restrict
  <2>4. OfCase(b.case) \subseteq Nat
    BY <2>1, LogRecorded DEF OfCase, Recorded
  <2>5. \A n \in OfCase(b.case) \ P : \A m \in P : m < n
    <3>1. k \in Nat
      BY <2>1, <2>2, LogRecorded
    <3> QED BY <2>4, <3>1
  <2> QED BY <2>3, <2>5
<1> QED BY <1>1, CatalogInvariant, PTL
=============================================================================
