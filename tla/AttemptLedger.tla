--------------------------- MODULE AttemptLedger ---------------------------
(***************************************************************************)
(* What the supervisor promises about one capture attempt: an identity is   *)
(* opened at most once, it is settled at most once, and what it was settled *)
(* as never changes afterwards, whatever crashes or fails in between.       *)
(***************************************************************************)
CONSTANT Attempt

VARIABLE status

\* The three ways an attempt is settled: its bytes are locally durable, a gap
\* took its place, or it was cancelled before any I/O.
Settled == {"durable", "abandoned", "cancelled"}

Init == status = [r \in Attempt |-> "free"]

Open(r) ==
    /\ status[r] = "free"
    /\ status' = [status EXCEPT ![r] = "open"]

Settle(r, s) ==
    /\ status[r] = "open"
    /\ status' = [status EXCEPT ![r] = s]

Next == \E r \in Attempt : Open(r) \/ \E s \in Settled : Settle(r, s)

Spec == Init /\ [][Next]_status

============================================================================
