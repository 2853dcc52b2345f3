--------------------------- MODULE MCSellExecutor ---------------------------
(***************************************************************************)
(* The exit path for TLC, and what a comment of the repository says of it   *)
(* and the code does not do.                                                *)
(***************************************************************************)
EXTENDS SellExecutor

\* reconcile_pending_exits: an intent carrying a signature is the executor's
\* to settle, and may still have a ledger row to write. Leaving the poll race
\* and crashes in mid-finalization aside, a sale that moved the balance is
\* booked or still tracked.
SignedFillIsSettled ==
    \A s \in Signatures :
        tx[s].st = "landed" =>
            Booked(s) \/ disk.sig = s \/ call.sig = s \/ dropped[s] \in {"race", "crash"}

=============================================================================
