------------------------------- MODULE Accept -------------------------------
(***************************************************************************)
(* Operator approvals of known drift: internal/accept, the witness accept  *)
(* commands, internal/drift and the daemon's drift tick.  The command      *)
(* leaves a signed request in a spool directory; the daemon, the log's     *)
(* only writer, applies it on its next tick, logs the outcome and removes  *)
(* the file.  At start the daemon rebuilds its approvals from the log.     *)
(*                                                                         *)
(* Abstractions.  A thing is a file or a process name; its value is its    *)
(* hash, its mode, that it is gone, or that it runs.  A change is a thing  *)
(* with the value it has now, which is exactly what itemKey pins.  Request *)
(* ids are random in the code; here they are numbered as they are made,    *)
(* and the daemon takes the files of one tick in any order.  Of the log    *)
(* only the operator entries and the latest drift_detected entry are kept. *)
(***************************************************************************)
EXTENDS Integers, FiniteSets, SequencesExt

CONSTANTS
    Things, Values, Genesis,    \* what is measured, and its value at genesis
    Keys, Own, Dev,             \* signing keys, the witness's own, and --dev
    Mishaps,                    \* what may go wrong, or be asked for, in a behaviour
    MaxRequests,                \* bound on the requests made
    MaxMishaps, MaxKills        \* bounds on the mishaps, and on the ends of a daemon

MishapKinds ==
    {"append", "remove", "readlog", "readspool", "operators", "damage", "resubmit"}

ASSUME GenesisAssumption == Genesis \in Values
ASSUME OwnAssumption == Own \in Keys /\ Dev \in BOOLEAN
ASSUME AcceptMishapsAssumption == Mishaps \subseteq MishapKinds
ASSUME AcceptBoundsAssumption == MaxRequests \in Nat /\ MaxMishaps \in Nat /\ MaxKills \in Nat

VARIABLES
    machine,    \* the value of every thing now
    ops,        \* trust/operators.txt
    log,        \* the operator entries of the witness log
    drift,      \* the changes of the latest drift_detected entry, {} if there is none
    made,       \* the requests the command has written, by id
    spool,      \* the signed request files in the spool directory
    dpc,        \* the daemon's main loop
    set,        \* its accept.Set: [approvals, seen]
    batch, pol, \* the files and the operators read for this tick
    hand,       \* the log entry it is about to append, for the request it has applied
    since,      \* history: the operators there were since the daemon replayed the log
    met,        \* history: the kinds of mishap that have happened
    slips,      \* how many mishaps there were, for MaxMishaps
    kills       \* how often a daemon has ended, for MaxKills

daemon  == <<dpc, set, batch, pol, hand, since>>
mishaps == <<met, slips, kills>>
vars    == <<machine, ops, log, drift, made, spool, daemon, mishaps>>

Changes  == Things \X (Values \ {Genesis})
Request  == [id : 1 .. MaxRequests, kind : {"accept", "revoke"}, changes : SUBSET Changes,
             revokes : 0 .. MaxRequests, signer : Keys, intact : BOOLEAN]
NoEntry  == [event |-> "none"]
EmptySet == [approvals |-> {}, seen |-> {}]

Init ==
    /\ machine = [x \in Things |-> Genesis]
    /\ ops = Keys \ {Own}
    /\ log = <<>> /\ drift = {} /\ made = <<>> /\ spool = {}
    /\ dpc = "down" /\ set = EmptySet /\ batch = {} /\ pol = {} /\ hand = NoEntry /\ since = {}
    /\ met = {} /\ slips = 0 /\ kills = 0

Mishap(kind) ==
    /\ kind \in Mishaps
    /\ slips < MaxMishaps
    /\ met' = met \cup {kind}
    /\ slips' = slips + 1
    /\ UNCHANGED kills

-----------------------------------------------------------------------------
(* The approvals: accept.Set. *)

\* Policy.signerLabel: the operators count, the witness's own key only with --dev.
Signs(r, operators, any) ==
    any \/ (IF r.signer = Own THEN Dev ELSE r.signer \in operators)

\* Every check of Apply; check, the machine and verifySig find a request intact or not.
Applicable(r, s, operators, any) ==
    /\ r.intact
    /\ Signs(r, operators, any)
    /\ r.id \notin s.seen
    /\ r.kind = "revoke" => \E a \in s.approvals : a.id = r.revokes

\* Mutant: a request is not remembered as applied.
EffectUnseen(r, s) ==
    [approvals |-> IF r.kind = "accept" THEN s.approvals \cup {r}
                   ELSE {a \in s.approvals : a.id # r.revokes},
     seen      |-> s.seen]

\* What a request that passes does to the set.
Effect(r, s) ==
    [approvals |-> IF r.kind = "accept" THEN s.approvals \cup {r}
                   ELSE {a \in s.approvals : a.id # r.revokes},
     seen      |-> s.seen \cup {r.id}]

\* One log entry replayed; one that does not pass is skipped.
ReplayEntry(e, s, operators, any) ==
    IF e.event # "rejected" /\ Applicable(e.req, s, operators, any)
    THEN Effect(e.req, s) ELSE s

\* Replay of log entries, in their order.
Replay(entries, operators, any) ==
    LET after[n \in 0 .. Len(entries)] ==
            IF n = 0 THEN EmptySet ELSE ReplayEntry(entries[n], after[n - 1], operators, any)
    IN after[Len(entries)]

\* Mutant: an approval covers every later change of the things it names.
CoversThing(s, c) == \E a \in s.approvals : \E d \in a.changes : d[1] = c[1]

\* rebuild and Filter: a change is covered if an active approval pins its value.
Covers(s, c) == \E a \in s.approvals : c \in a.changes

-----------------------------------------------------------------------------
(* The machine, and the witness accept commands. *)

\* Only Measure looks at the machine, so a change shows just before it is measured.
ChangeThing(x, v) ==
    /\ dpc = "measure"
    /\ machine[x] # v
    /\ machine' = [machine EXCEPT ![x] = v]
    /\ UNCHANGED <<ops, log, drift, made, spool, daemon, mishaps>>

EditOperators(o) ==
    /\ o # ops
    /\ Mishap("operators")
    /\ ops' = o
    /\ since' = IF dpc = "down" THEN since ELSE since \cup o
    /\ UNCHANGED <<machine, log, drift, made, spool, dpc, set, batch, pol, hand>>

Make(kind, changes, revokes) ==
    /\ Len(made) < MaxRequests
    /\ made' = Append(made, [id |-> Len(made) + 1, kind |-> kind, changes |-> changes,
                             revokes |-> revokes])
    /\ UNCHANGED <<machine, ops, log, drift, spool, daemon, mishaps>>

\* acceptRequest: some of the latest drift that no recorded approval covers.
MakeAccept(picked) ==
    /\ picked # {}
    /\ \A c \in picked : ~ Covers(Replay(log, ops, TRUE), c)
    /\ Make("accept", picked, 0)

\* acceptRevoke: the id is not looked up in the log.
MakeRevoke(id) == Make("revoke", {}, id)

\* acceptSign and Submit: signed with any key at hand, renamed into the spool over an
\* earlier file of the same id.  acceptSubmit then only reads the log.
Submit(i, k) ==
    /\ IF \E r \in spool \cup {e.req : e \in ToSet(log)} : r.id = i
          THEN Mishap("resubmit")
          ELSE UNCHANGED mishaps
    /\ spool' = {r \in spool : r.id # i}
                  \cup {[id |-> i, kind |-> made[i].kind, changes |-> made[i].changes,
                         revokes |-> made[i].revokes, signer |-> k, intact |-> TRUE]}
    /\ UNCHANGED <<machine, ops, log, drift, made, daemon>>

\* A file that no longer parses or verifies.
DamageFile(r) ==
    /\ Mishap("damage")
    /\ spool' = (spool \ {r}) \cup {[r EXCEPT !.intact = FALSE]}
    /\ UNCHANGED <<machine, ops, log, drift, made, daemon>>

-----------------------------------------------------------------------------
(* The daemon: the start, and one case of its main loop, the drift tick. *)

\* Mutant: the replay takes any signer, as witness accept list does.
StartAnySigner ==
    /\ dpc = "down"
    /\ dpc' = "idle"
    /\ since' = ops
    /\ set' = Replay(log, ops, TRUE)
    /\ UNCHANGED <<machine, ops, log, drift, made, spool, batch, pol, hand, mishaps>>

\* The log is replayed under the operators of now; if it cannot be read, the
\* daemon goes on without approvals.
Start ==
    /\ dpc = "down"
    /\ dpc' = "idle"
    /\ since' = ops
    /\ \/ set' = Replay(log, ops, FALSE) /\ UNCHANGED mishaps
       \/ set' = EmptySet /\ Mishap("readlog")
    /\ UNCHANGED <<machine, ops, log, drift, made, spool, batch, pol, hand>>

\* processAcceptSpool reads every file, then the operators; if the spool cannot be
\* read, it returns and the tick goes on to measure.
Tick ==
    /\ dpc = "idle"
    /\ \/ batch' = spool /\ UNCHANGED mishaps
       \/ batch' = {} /\ spool # {} /\ Mishap("readspool")
    /\ dpc' = IF batch' = {} THEN "measure" ELSE "apply"
    /\ pol' = IF batch' = {} THEN {} ELSE ops
    /\ UNCHANGED <<machine, ops, log, drift, made, spool, set, hand, since>>

\* Mutant: the file goes before the outcome is logged.
ApplyRequestRemoving(r) ==
    /\ dpc = "apply"
    /\ dpc' = "append"
    /\ LET ok == Applicable(r, set, pol, FALSE)
       IN /\ set' = IF ok THEN Effect(r, set) ELSE set
          /\ hand' = [event |-> IF ~ ok THEN "rejected"
                                ELSE IF r.kind = "accept" THEN "accepted" ELSE "revoked",
                      req   |-> r]
    /\ spool' = spool \ {r}
    /\ UNCHANGED <<machine, ops, log, drift, made, batch, pol, since, mishaps>>

\* Apply: the set changes before the outcome is in the log.
ApplyRequest(r) ==
    /\ dpc = "apply"
    /\ dpc' = "append"
    /\ LET ok == Applicable(r, set, pol, FALSE)
       IN /\ set' = IF ok THEN Effect(r, set) ELSE set
          /\ hand' = [event |-> IF ~ ok THEN "rejected"
                                ELSE IF r.kind = "accept" THEN "accepted" ELSE "revoked",
                      req   |-> r]
    /\ UNCHANGED <<machine, ops, log, drift, made, spool, batch, pol, since, mishaps>>

\* The error of Append is ignored.
AppendOutcome ==
    /\ dpc = "append"
    /\ dpc' = "remove"
    /\ \/ log' = Append(log, hand) /\ UNCHANGED mishaps
       \/ Mishap("append") /\ UNCHANGED log
    /\ UNCHANGED <<machine, ops, drift, made, spool, set, batch, pol, hand, since>>

\* os.Remove of whatever file has the name now; its error is ignored too.
RemoveFile ==
    /\ dpc = "remove"
    /\ \/ spool' = {q \in spool : q.id # hand.req.id} /\ UNCHANGED mishaps
       \/ Mishap("remove") /\ UNCHANGED spool
    /\ batch' = batch \ {hand.req}
    /\ dpc' = IF batch' = {} THEN "measure" ELSE "apply"
    /\ hand' = NoEntry
    /\ UNCHANGED <<machine, ops, log, drift, made, set, pol, since>>

\* drift.Measure against genesis.
Measured == {<<x, machine[x]>> : x \in {y \in Things : machine[y] # Genesis}}

\* What no approval covers is logged as drift_detected, else drift_clean.
MeasureDrift ==
    /\ dpc = "measure"
    /\ dpc' = "idle"
    /\ pol' = {}
    /\ LET unapproved == {c \in Measured : ~ Covers(set, c)}
       IN \/ drift' = (IF unapproved = {} THEN drift ELSE unapproved) /\ UNCHANGED mishaps
          \/ Mishap("append") /\ UNCHANGED drift
    /\ UNCHANGED <<machine, ops, log, made, spool, set, batch, hand, since>>

\* A kill anywhere, or the end of the main loop.
Kill ==
    /\ dpc # "down"
    /\ kills < MaxKills
    /\ kills' = kills + 1
    /\ dpc' = "down" /\ set' = EmptySet /\ batch' = {} /\ pol' = {} /\ hand' = NoEntry
    /\ since' = {}
    /\ UNCHANGED <<machine, ops, log, drift, made, spool, met, slips>>

Next ==
    \/ \E x \in Things, v \in Values : ChangeThing(x, v)
    \/ \E o \in SUBSET (Keys \ {Own}) : EditOperators(o)
    \/ \E picked \in SUBSET drift : MakeAccept(picked)
    \/ \E id \in 1 .. Len(made) : MakeRevoke(id)
    \/ \E i \in 1 .. Len(made), k \in Keys : Submit(i, k)
    \/ \E r \in spool : DamageFile(r)
    \/ Start \/ Tick \/ (\E r \in batch : ApplyRequest(r)) \/ AppendOutcome \/ RemoveFile
    \/ MeasureDrift \/ Kill

Spec == Init /\ [][Next]_vars

\* The main loop runs, its ticker fires, and the service manager restarts the daemon.
FairSpec ==
    /\ Spec
    /\ WF_vars(Start) /\ WF_vars(Tick) /\ WF_vars(\E r \in batch : ApplyRequest(r))
    /\ WF_vars(AppendOutcome) /\ WF_vars(RemoveFile) /\ WF_vars(MeasureDrift)

-----------------------------------------------------------------------------
(* Properties. *)

Never(kinds) == kinds \cap met = {}

Logged(event) == {e.req : e \in {f \in ToSet(log) : f.event = event}}

\* What the log alone says is approved: accepted, and not revoked.
LogApproves == {r \in Logged("accepted") : \A q \in Logged("revoked") : q.revokes # r.id}

\* Between two requests the daemon's approvals are the ones the log records, through
\* kills between Apply, Append and Remove, files applied twice and revocations: a
\* restart neither loses an approval nor brings a revoked one back.  Excepted are an append
\* that failed, a log that could not be read at a start, and edited operators.
ApprovalsMatchLog ==
    Never({"append", "readlog", "operators"}) /\ dpc \in {"idle", "apply", "remove", "measure"} =>
        set.approvals = LogApproves

\* Drift is only ever left out of the report on the word of a key that has been an
\* operator's since this daemon started: not the witness's own key, and not a key that
\* was removed from operators.txt before the restart.
OperatorsApprove == \A a \in set.approvals : a.signer \in since /\ a.signer # Own

\* A request an operator signed and submitted is recorded as accepted in the end,
\* wherever the daemon is killed and whatever file stays behind.
RequestRecorded ==
    \A i \in 1 .. MaxRequests :
        (\E r \in spool : r.id = i /\ r.kind = "accept" /\ r.signer \in ops)
            ~> \/ \E r \in Logged("accepted") : r.id = i
               \/ ~ Never({"append", "operators", "damage", "resubmit"})

\* A thing that keeps a value no request was ever accepted for is reported in the end,
\* also if an earlier value of it was approved.
DriftReported ==
    \A x \in Things : \A v \in Values \ {Genesis} :
        (machine[x] = v)
            ~> \/ machine[x] # v \/ <<x, v>> \in drift
               \/ \E r \in Logged("accepted") : <<x, v>> \in r.changes
               \/ ~ Never({"append"})
=============================================================================
