-------------------------- MODULE MCPositionRules --------------------------
(***************************************************************************)
(* The position rules over a few prices: at the stop and under break-even,  *)
(* and over it at each of the two scale-out rungs.                          *)
(***************************************************************************)
EXTENDS PositionRules

Rule(stop, tp, runs, dispose, hold, basis) ==
    [stop |-> stop, tp |-> tp, runs |-> runs, rug |-> TRUE, dispose |-> dispose,
     hold |-> hold, basis |-> basis, marked |-> FALSE]

Unlisted(rule) == [policy |-> rule, authority |-> "none", listed |-> FALSE]
Listed(rule, by) == [policy |-> rule, authority |-> by, listed |-> TRUE]

\* The price rules are explored where no pool can interfere, the rug detector with
\* a bag that has few of them.
MCMints ==
    {Unlisted(Rule(80, 200, TRUE, FALSE, TRUE, "unit")),    \* waits for graduation
     Unlisted(Rule(80, None, FALSE, TRUE, FALSE, "unit")),  \* a stop and a disposal
     Unlisted(Rule(None, 400, TRUE, TRUE, FALSE, "bag")),   \* basis of the whole bag
     Unlisted(Rule(80, 200, TRUE, TRUE, FALSE, "none")),    \* no basis at all
     Listed([Rule(80, None, FALSE, FALSE, FALSE, "unit") EXCEPT !.marked = TRUE], "creator"),
     Listed(Rule(80, None, FALSE, FALSE, FALSE, "none"), "none")}
=============================================================================
