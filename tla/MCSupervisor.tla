---------------------------- MODULE MCSupervisor ----------------------------
(***************************************************************************)
(* One operation of one source; its attempts follow one another, fresh      *)
(* generations and retries mixed.                                           *)
(***************************************************************************)
EXTENDS Supervisor, TLC

CONSTANT k1

MCKey == {k1}

\* The attempt that follows a scheduled retry in its generation carries the
\* ordinal the decision named ("next_attempt_ordinal: 2", then
\* "assert_eq!(second.attempt_ordinal, 2)" in tests/continuity.rs), when the
\* decision was about the generation's latest attempt.
RetryKeepsSchedule ==
    \A i \in Counted : journal[i].type = "retry" /\ journal[i].att # 0 =>
        LET r == journal[i].of
            same == {s \in OfKey(journal[r].key) : journal[s].gen = journal[r].gen}
            later == {s \in same : s > r}
        IN  later # {} /\ Min(later) > i => journal[Min(later)].att = journal[i].att

=============================================================================
