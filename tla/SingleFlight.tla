---------------------------- MODULE SingleFlight ----------------------------
(***************************************************************************)
(* What the exit path promises about the orders of one mint: an order is    *)
(* released only while no other order may still execute, and a signature is *)
(* released at most once. Why an order stops being executable (it landed,   *)
(* failed, expired, or was given up) is left open.                          *)
(***************************************************************************)
CONSTANT Signatures

VARIABLES
    open,   \* the released orders that may still execute
    used    \* every signature released so far

vars == <<open, used>>

Init == open = {} /\ used = {}

\* The blockhash may already be spent when the order leaves.
Release(s) ==
    /\ open = {}
    /\ s \notin used
    /\ used' = used \cup {s}
    /\ open' \in {{}, {s}}

Settle ==
    /\ open # {}
    /\ open' = {}
    /\ UNCHANGED used

Next == (\E s \in Signatures : Release(s)) \/ Settle

Spec == Init /\ [][Next]_vars
=============================================================================
