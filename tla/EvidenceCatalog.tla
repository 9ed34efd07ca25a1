-------------------------- MODULE EvidenceCatalog --------------------------
(***************************************************************************)
(* The police edition: internal/pd/evidence over the log of WitnessStore,  *)
(* and the witness-pd commands.  Each command is a process of its own that *)
(* opens the store, loads the catalog pd-items.json, changes an item in    *)
(* memory, writes the catalog in place, and then appends the custody event *)
(* to the log.  It may be killed, and any of its writes may fail.          *)
(*                                                                         *)
(* Abstractions.  Commands run one at a time: neither file has a lock (the *)
(* README says what overlapping commands can do).  An item is its node,    *)
(* its legal hold and its status; its case never changes.  Item ids are    *)
(* numbered.  The witness-pd log is not signed.  RecordDestroyed and       *)
(* RecordAccess have no command yet; they are run like the others.         *)
(***************************************************************************)
EXTENDS WitnessStore

CONSTANTS
    Nodes, Cases, NoCase,    \* where items are kept, and what they belong to
    MaxItems                 \* bound on the items taken in

ASSUME CasesAssumption == NoCase \notin Cases
ASSUME MaxItemsAssumption == MaxItems \in Nat

Items     == 1 .. MaxItems
NoEvent   == [type |-> "none", item |-> 0, case |-> NoCase]

VARIABLES
    catalog,   \* pd-items.json: the state of every item in it
    torn,      \* ... or its write has not ended, and it does not parse
    stage,     \* how far the command has come once its store is open
    items,     \* PDStore.items
    cmd,       \* the custody event the command records
    todo,      \* the items a running export has still to record
    events,    \* what the records of the log say, by record id
    bundles,   \* the court export bundles written: [case, entries]
    cut        \* history: items a command on which reported an error or was killed

catalogVars == <<catalog, torn, stage, items, cmd, todo, events, bundles, cut>>
pdVars      == <<vars, catalogVars>>

Empty == [i \in {} |-> 0]

\* What witness-pd init leaves: the pd/init record and no catalog.
PDInit ==
    /\ Init
    /\ catalog = Empty /\ torn = FALSE
    /\ stage = "none" /\ items = Empty /\ cmd = NoEvent /\ todo = {}
    /\ events = [id \in 1 .. written |-> NoEvent] /\ bundles = {} /\ cut = {}

-----------------------------------------------------------------------------
(* PDStore *)

\* mustOpenStore: store.Open with its recovery, then loadCatalog.
OpenStore ==
    /\ stage = "none"
    /\ Open(NoKey) \/ QuarantineCopy \/ QuarantineTruncate
    /\ UNCHANGED catalogVars

LoadCatalog ==
    /\ stage = "none" /\ pc = "up"
    /\ IF torn THEN stage' = "failed" /\ UNCHANGED items
       ELSE stage' = "loaded" /\ items' = catalog
    /\ UNCHANGED <<vars, catalog, torn, cmd, todo, events, bundles, cut>>

\* newItemID: the first id nobody has used.
Fresh(i) ==
    LET used == DOMAIN items \cup cut
    IN i \notin used /\ 1 .. i - 1 \subseteq used

\* Mutant: a hold does not protect an item from being destroyed.
AllowedDestroy(type, i) ==
    CASE type = "intake"   -> Fresh(i)
      [] type = "transfer" -> i \in DOMAIN items /\ ~ items[i].hold
      [] OTHER             -> i \in DOMAIN items

\* An intake makes a new id; the others return an error for an unknown item, and
\* RecordTransfer and RecordDestroyed for one under hold.
Allowed(type, i) ==
    CASE type = "intake"                    -> Fresh(i)
      [] type \in {"transfer", "destroyed"} -> i \in DOMAIN items /\ ~ items[i].hold
      [] OTHER                              -> i \in DOMAIN items

ChangeTypes == {"intake", "transfer", "hold_set", "hold_release", "destroyed"}

\* The item after the event; case and node are the command's arguments.
Changed(type, i, case, node) ==
    CASE type = "intake"       -> [case |-> case, node |-> node,
                                   hold |-> FALSE, status |-> "active"]
      [] type = "transfer"     -> [items[i] EXCEPT !.node = node]
      [] type = "hold_set"     -> [items[i] EXCEPT !.hold = TRUE]
      [] type = "hold_release" -> [items[i] EXCEPT !.hold = FALSE]
      [] type = "destroyed"    -> [items[i] EXCEPT !.status = "destroyed"]

CaseOf(i) == IF i \in DOMAIN items THEN items[i].case ELSE NoCase

\* RecordIntake, RecordTransfer, SetLegalHold, ReleaseLegalHold and RecordDestroyed
\* change the item in memory; then saveCatalog's os.WriteFile empties the file ...
ChangeItem(type, i, case, node) ==
    /\ stage = "loaded"
    /\ Allowed(type, i)
    /\ items' = [j \in DOMAIN items \cup {i} |->
                    IF j = i THEN Changed(type, i, case, node) ELSE items[j]]
    /\ cmd' = [type |-> type, item |-> i, case |-> items'[i].case, node |-> items'[i].node]
    /\ torn' = TRUE
    /\ stage' = "saving"
    /\ UNCHANGED <<vars, catalog, todo, events, bundles, cut>>

\* ... and writes it.
SaveCatalog ==
    /\ stage = "saving"
    /\ catalog' = items
    /\ torn' = FALSE
    /\ stage' = "saved"
    /\ UNCHANGED <<vars, items, cmd, todo, events, bundles, cut>>

\* RecordAccess leaves the catalog alone.
RecordAccess(i) ==
    /\ stage = "loaded"
    /\ cmd' = [type |-> "access", item |-> i, case |-> CaseOf(i)]
    /\ stage' = "saved"
    /\ UNCHANGED <<vars, catalog, torn, items, todo, events, bundles, cut>>

\* The event goes to the log: the frame, then the tree head.
AppendEvent ==
    /\ stage = "saved"
    /\ AppendFrame
    /\ events' = Append(events, cmd)
    /\ UNCHANGED <<catalog, torn, stage, items, cmd, todo, bundles, cut>>

EventRecorded ==
    /\ stage = "saved"
    /\ WriteTreeHead
    /\ stage' = "done"
    /\ UNCHANGED <<catalog, torn, items, cmd, todo, events, bundles, cut>>

\* Mutant: an event the tree head does not cover counts as recorded.
AppendFailsUnreported ==
    /\ stage = "saved"
    /\ SealFails \/ ShortWrite \/ HeadFails
    /\ stage' = "done"
    /\ UNCHANGED <<catalog, torn, items, cmd, todo, events, bundles, cut>>

\* Append returns an error: the command reports it and exits; the catalog keeps the change.
AppendFails ==
    /\ stage = "saved"
    /\ SealFails \/ ShortWrite \/ HeadFails
    /\ stage' = "failed"
    /\ cut' = cut \cup {cmd.item}
    /\ UNCHANGED <<catalog, torn, items, cmd, todo, events, bundles>>

-----------------------------------------------------------------------------
(* witness-pd export, and the end of every command. *)

\* matchesCase: where the log speaks of a case.
OfCase(case) == {n \in DOMAIN log : events[log[n].id].case = case}

\* What GetAllEvents and Generate make of the first n records: those of the case, in order.
Bundle(case, n) ==
    [case |-> case, entries |-> Restrict(log, {m \in OfCase(case) : m <= n})]

\* WriteNDJSON to its end.
ExportCase(case) ==
    /\ stage = "loaded"
    /\ bundles' = bundles \cup {Bundle(case, Len(log))}
    /\ todo' = {i \in DOMAIN items : items[i].case = case}
    /\ stage' = "export"
    /\ UNCHANGED <<vars, catalog, torn, items, cmd, events, cut>>

\* RecordExport for each item of the case; its error is ignored.
ExportFrame(i) ==
    /\ stage = "export"
    /\ AppendFrame
    /\ events' = Append(events, [type |-> "export", item |-> i, case |-> CaseOf(i)])
    /\ todo' = todo \ {i}
    /\ UNCHANGED <<catalog, torn, stage, items, cmd, bundles, cut>>

ExportRecorded ==
    /\ stage = "export"
    /\ WriteTreeHead
    /\ UNCHANGED catalogVars

ExportAppendFails ==
    /\ stage = "export"
    /\ \/ \E i \in todo : (SealFails \/ ShortWrite) /\ todo' = todo \ {i}
       \/ HeadFails /\ UNCHANGED todo
    /\ UNCHANGED <<catalog, torn, stage, items, cmd, events, bundles, cut>>

CommandGone ==
    /\ stage' = "none" /\ items' = Empty /\ cmd' = NoEvent /\ todo' = {}

\* The command ends: done, failed, refused, or status, which changes nothing.
Exit ==
    /\ stage \in {"loaded", "failed", "done"} \/ (stage = "export" /\ todo = {})
    /\ Close
    /\ CommandGone
    /\ UNCHANGED <<catalog, torn, events, bundles, cut>>

\* The command is killed; a write of the catalog or of a bundle that fails half way ends
\* the same way.  WriteNDJSON writes line by line into the file itself, so a bundle it has
\* begun keeps the lines written so far.
KillCommand ==
    /\ Crash
    /\ cut' = IF stage \in {"saving", "saved"} THEN cut \cup {cmd.item} ELSE cut
    /\ \/ UNCHANGED bundles
       \/ /\ stage = "loaded"
          /\ \E case \in Cases, n \in 0 .. Len(log) :
                 bundles' = bundles \cup {Bundle(case, n)}
    /\ CommandGone
    /\ UNCHANGED <<catalog, torn, events>>

PDNext ==
    \/ OpenStore \/ LoadCatalog
    \/ \E type \in ChangeTypes, i \in Items, case \in Cases, node \in Nodes :
           ChangeItem(type, i, case, node)
    \/ SaveCatalog \/ (\E i \in Items : RecordAccess(i))
    \/ AppendEvent \/ EventRecorded \/ AppendFails
    \/ (\E case \in Cases : ExportCase(case)) \/ (\E i \in todo : ExportFrame(i))
    \/ ExportRecorded \/ ExportAppendFails
    \/ Exit \/ KillCommand

PDSpec == PDInit /\ [][PDNext]_pdVars

-----------------------------------------------------------------------------
(* Properties. *)

\* What a reader of the log alone learns of an item: the events told, where those that
\* change the item are, the latest of some types among them, and the item they make.
Told(recs) == [n \in DOMAIN recs |-> events[recs[n].id]]

History(told, i) == {n \in DOMAIN told : told[n].item = i /\ told[n].type \in ChangeTypes}

Latest(told, h, types) == told[Max({n \in h : told[n].type \in types})]

HoldTypes == {"intake", "hold_set", "hold_release"}

LogSays(told, h) ==
    [case   |-> told[Min(h)].case,
     node   |-> Latest(told, h, {"intake", "transfer"}).node,
     hold   |-> Latest(told, h, HoldTypes).type = "hold_set",
     status |-> IF \E n \in h : told[n].type = "destroyed" THEN "destroyed" ELSE "active"]

\* "Any discrepancy between catalog and log constitutes a tamper event": between two
\* commands, catalog and log agree on every item whose commands all reported success,
\* whatever was killed, failed or recovered meanwhile on other items.
CatalogMatchesLog ==
    Intact /\ stage = "none" /\ ~ torn =>
        \A i \in Items \ cut :
            LET h == History(Told(log), i)
            IN IF h = {} THEN i \notin DOMAIN catalog
               ELSE i \in DOMAIN catalog /\ catalog[i] = LogSays(Told(log), h)

\* In the log, no item whose commands all reported success is transferred or destroyed
\* between a hold_set and the hold_release that follows it.
HoldProtects ==
    \A i \in Items \ cut : \A n \in History(Told(log), i) :
        Told(log)[n].type \in {"transfer", "destroyed"} =>
            Latest(Told(log), {m \in History(Told(log), i) : m < n}, HoldTypes).type # "hold_set"

\* A court bundle stays true, also one that was not written to its end: what it lists is,
\* at the same places, what the log holds on the case ever after, and anything else on
\* the case comes behind it, through every crash and recovery (short writes apart).
BundlesStand ==
    Intact => \A b \in bundles :
        LET places == DOMAIN b.entries
        IN /\ places \subseteq OfCase(b.case) /\ b.entries = Restrict(log, places)
           /\ \A n \in OfCase(b.case) \ places : \A m \in places : m < n
=============================================================================
