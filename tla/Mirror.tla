------------------------------- MODULE Mirror -------------------------------
(***************************************************************************)
(* Publishing tree heads: tryPushMirror of cmd/witness, the HTTP backend   *)
(* of internal/mirror and lifecycle.MirrorHealth.  Each push is a          *)
(* goroutine of its own, so pushes overlap; their results go through one   *)
(* MirrorHealth and are appended to the log.                               *)
(*                                                                         *)
(* Abstractions.  A head is the number of the push that carries it, in the *)
(* order the heads were read, and an ETag is the head it stands for, 0 for *)
(* none.  The server may be down, refuse, lose a reply or ignore If-Match. *)
(* Pushes of the S3 backend are those without an ETag in which no error    *)
(* ends the retries; the file backend is left out.                         *)
(***************************************************************************)
EXTENDS DaemonLog

CONSTANTS
    maxPushRetries,   \* attempts of a push
    EscalateAfter,    \* failed pushes before the mirror counts as unreachable
    MaxPushes         \* bound on the pushes

ASSUME MirrorAssumption ==
    maxPushRetries \in Nat \ {0} /\ EscalateAfter \in Nat \ {0} /\ MaxPushes \in Nat

Pushes == 1 .. MaxPushes

VARIABLES
    remote,     \* the head on the mirror, 0 if none
    pushed,     \* pushes started so far
    push,       \* the goroutine of each push
    failures,   \* MirrorHealth.failures
    said        \* history: the newest mirror event this daemon recorded

mirrorVars == <<remote, pushed, push, failures, said>>

NoPush == [pc |-> "none", etag |-> 0, attempt |-> 0, err |-> FALSE, event |-> "none"]

MirrorInit ==
    /\ remote = 0 /\ pushed = 0
    /\ push = [p \in Pushes |-> NoPush]
    /\ failures = 0 /\ said = "none"

\* The goroutines end with the process, and MirrorHealth is not saved.
MirrorGone ==
    /\ push' = [p \in Pushes |-> NoPush]
    /\ failures' = 0 /\ said' = "none"
    /\ UNCHANGED <<remote, pushed>>

At(p, pc) == push[p].pc = pc

\* Push p is over, with an error or without.
Finish(p, err) == push' = [push EXCEPT ![p] = [NoPush EXCEPT !.pc = "result", !.err = err]]

\* The present head is read and a goroutine started; nothing if it cannot be read.
TryPush ==
    \/ /\ pushed < MaxPushes
       /\ pushed' = pushed + 1
       /\ push' = [push EXCEPT ![pushed'].pc = "etag"]
       /\ UNCHANGED <<remote, failures, said>>
    \/ UNCHANGED mirrorVars

\* No ETag if the request fails or there is no head yet: the PUT is unconditional.
FetchETag(p) ==
    /\ At(p, "etag")
    /\ \E etag \in {remote, 0} :
           push' = [push EXCEPT ![p].pc = "put", ![p].etag = etag]
    /\ UNCHANGED <<remote, pushed, failures, said, logVars>>

\* Another attempt, or the end: an error only if an attempt failed other than by 412.
Retry(p, pc, err) ==
    IF push[p].attempt + 1 = maxPushRetries THEN Finish(p, err)
    ELSE push' = [push EXCEPT ![p].pc = pc, ![p].attempt = @ + 1, ![p].err = err]

\* The server takes the head, whatever the ETag if it ignores If-Match.
Accept(p) ==
    /\ remote' = p
    /\ mishaps' = mishaps \cup {k \in {"disorder"} : remote > p}

PutAccepted(p) ==
    /\ At(p, "put")
    /\ Accept(p)
    /\ Finish(p, FALSE)
    /\ UNCHANGED <<pushed, failures, said, last, open>>

\* The head is taken and the reply lost: to the client a transient error.
PutReplyLost(p) ==
    /\ At(p, "put")
    /\ Accept(p)
    /\ Retry(p, "put", TRUE)
    /\ UNCHANGED <<pushed, failures, said, last, open>>

\* A 5xx or network error is retried with the same ETag.
PutFails(p) ==
    /\ At(p, "put")
    /\ Retry(p, "put", TRUE)
    /\ UNCHANGED <<remote, pushed, failures, said, logVars>>

\* A 4xx is not retried.
PutRefused(p) ==
    /\ At(p, "put")
    /\ Finish(p, TRUE)
    /\ UNCHANGED <<remote, pushed, failures, said, logVars>>

\* A 412: the same head is tried again with the ETag of the one that is there now.  A
\* push that has met nothing else by its last attempt ends without an error: "beaten".
PutConflict(p) ==
    /\ At(p, "put")
    /\ push[p].etag # 0 /\ push[p].etag # remote
    /\ Retry(p, "etag", push[p].err)
    /\ mishaps' = mishaps \cup {k \in {"beaten"} :
                                   push[p].attempt + 1 = maxPushRetries /\ ~ push[p].err}
    /\ UNCHANGED <<remote, pushed, failures, said, last, open>>

\* Mutant: success does not reset the count.
HealthNoReset(err) ==
    IF ~ err THEN [failures |-> failures,
                   event |-> IF failures = 0 THEN "none" ELSE "recovered"]
    ELSE [failures |-> failures + 1,
          event |-> CASE failures = 0 -> "failed"
                      [] failures > 0 /\ failures + 1 = EscalateAfter -> "unreachable"
                      [] OTHER -> "none"]

\* MirrorHealth.Result: the new count and the event to record, if any.
Health(err) ==
    IF ~ err THEN [failures |-> 0, event |-> IF failures = 0 THEN "none" ELSE "recovered"]
    ELSE [failures |-> failures + 1,
          event |-> CASE failures = 0 -> "failed"
                      [] failures > 0 /\ failures + 1 = EscalateAfter -> "unreachable"
                      [] OTHER -> "none"]

\* Under the mutex.  A race if a newer push has its result, or any waits to record one.
Result(p) ==
    /\ At(p, "result")
    /\ LET health == Health(push[p].err)
       IN /\ failures' = health.failures
          /\ push' = [push EXCEPT ![p] =
                         [NoPush EXCEPT !.pc = IF health.event = "none" THEN "done" ELSE "append",
                                        !.event = health.event]]
    /\ mishaps' = mishaps \cup {k \in {"disorder"} :
                                   \E q \in Pushes : At(q, "append") \/ (q > p /\ At(q, "done"))}
    /\ UNCHANGED <<remote, pushed, said, last, open>>

\* Outside of it.  A race if the daemon has already recorded its stop.
AppendResult(p) ==
    /\ At(p, "append")
    /\ Record("other", {k \in {"late"} : open /\ last \in {"stop", "storage"}})
    /\ said' = IF Recorded THEN push[p].event ELSE said
    /\ push' = [push EXCEPT ![p] = [NoPush EXCEPT !.pc = "done"]]
    /\ UNCHANGED <<remote, pushed, failures>>

MirrorNext ==
    \E p \in Pushes :
        \/ FetchETag(p) \/ PutAccepted(p) \/ PutReplyLost(p) \/ PutFails(p)
        \/ PutRefused(p) \/ PutConflict(p) \/ Result(p) \/ AppendResult(p)
=============================================================================
