--------------------------- MODULE AppendOnlyLog ---------------------------
(***************************************************************************)
(* What internal/store promises its callers and its verifiers: a sequence  *)
(* of committed records that only ever grows at its end, and an            *)
(* acknowledgement for a record only once it is the newest committed one.  *)
(***************************************************************************)
EXTENDS Integers, SequencesExt

VARIABLES
    committed,   \* the records the published head covers
    acked        \* the records whose append was acknowledged

Init == acked = ToSet(committed)

\* Publishing a head commits one record or, after heads that could not be
\* written, several; only the last one is acknowledged by this step.
Extend ==
    /\ IsStrictPrefix(committed, committed')
    /\ acked' = acked \cup {Last(committed')}

Spec == Init /\ [][Extend]_<<committed, acked>>
=============================================================================
