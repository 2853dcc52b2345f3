------------------------------ MODULE MCSpool ------------------------------
(***************************************************************************)
(* Two closures: an evidence segment and the gap that takes its identity.   *)
(***************************************************************************)
EXTENDS Spool, TLC

CONSTANTS evidence, gap

MCClosure == {evidence, gap}
MCSegId == (evidence :> 1) @@ (gap :> 1)
MCControl == {gap}

\* AppendOutcome::Appended: "New exact bytes crossed the durable rename/fsync
\* boundary", and Idempotent: "already durable".
AppendedIsDurable == \A c \in told : Held(Seg(c), c) \/ Seg(c) \in rotted

============================================================================
