---------------------------- MODULE LotPolicies ----------------------------
(***************************************************************************)
(* Which rule protects a bag, for one mint: the lot record (lots.py), the   *)
(* policy in config.yaml (policies.py), the cycle that retires lots, reads  *)
(* cost bases, stamps default rules and writes the policies back            *)
(* (engine.py), and the dashboard's edits of the same rule (server.py).     *)
(*                                                                          *)
(* The cycle and the handlers are tasks of one event loop: another task     *)
(* runs only where a task awaits, and the process may die between any two   *)
(* durable writes. The policy lock is never held across a real suspension,  *)
(* so an uninterrupted handler is what it gives. Every list operation works *)
(* mint by mint on the list it reads under the lock: one mint is enough.    *)
(*                                                                          *)
(* A bag is what the wallet holds from a purchase at balance zero until it  *)
(* is sold out; bags are numbered. Deadlines are "none", "wait" or "due".   *)
(* The default rule has no stop (domain.PolicyDefaults), so the grace of a  *)
(* default stop, sl_live_after, has nothing to hold off and is left out.    *)
(***************************************************************************)
EXTENDS Integers

CONSTANTS
    MaxBags,    \* times the wallet may buy the mint from zero
    MaxEdits,   \* operator rules, the hand-written one included
    MaxCrashes, \* times the process may die
    Dashboard   \* the operator's requests that may come

Requests == {"put", "delete", "skip", "protect"}

ASSUME LotBounds == MaxBags \in Nat /\ MaxEdits \in Nat \ {0} /\ MaxCrashes \in Nat
ASSUME DashboardRequests == Dashboard \subseteq Requests

VARIABLES
    held, bag,  \* whether the wallet holds the mint, and the last bag's number
    lot,        \* state.json: lots[mint]
    trail,      \* state.json: the bag whose peak positions[mint] holds, 0 if none
    known,      \* state.json: positions has the mint
    cfg,        \* config.yaml: the mint's policy
    pc, cyc,    \* where the cycle is, and its locals
    op,         \* the handler between its two writes
    row,        \* the published snapshot lists the mint as unmonitored
    gone,       \* history: last bag whose lot a cycle retired
    missed,     \* history: last bag a completed cycle did not find in the wallet
    opened,     \* history: bag for which the delay of the default rule started
    lost,       \* history: writes a crash cut off or a stale write-back undid
    edits, crashes

storeVars == <<lot, trail, known, cfg>>
walletVars == <<held, bag>>
histVars == <<gone, missed, opened, lost>>
vars == <<walletVars, storeVars, pc, cyc, op, row, histVars, edits, crashes>>

NoBasis == [kind |-> "none", bag |-> 0]
TypedKinds == {"price", "cost"}     \* buy_price_sol or cost_basis_sol, by the operator

\* edit: 0 for a rule the sentinel wrote, else which operator rule it is;
\* bag: the bag a rule of the sentinel was written for.
NoPolicy == [there |-> FALSE, edit |-> 0, stop |-> FALSE, basis |-> NoBasis, bag |-> 0]
OperatorPolicy(n, stop, basis) ==
    [there |-> TRUE, edit |-> n, stop |-> stop, basis |-> basis, bag |-> 0]
PolicyWithoutBasis(p) == [p EXCEPT !.basis = NoBasis]

NoCycle == [cap |-> NoPolicy, held |-> FALSE, bag |-> 0, lot |-> [
                opened |-> FALSE, flat |-> FALSE, auto |-> "none", skipped |-> FALSE,
                origin |-> "none", needsBasis |-> FALSE],
            basis |-> NoBasis, refill |-> NoPolicy, drop |-> FALSE, strip |-> FALSE,
            edits |-> 0]
EmptyLot == NoCycle.lot

Init ==
    /\ held \in BOOLEAN /\ bag = IF held THEN 1 ELSE 0
    /\ bag <= MaxBags
    /\ lot = EmptyLot /\ trail = 0 /\ known = FALSE
    /\ cfg \in {NoPolicy, OperatorPolicy(1, TRUE, [kind |-> "cost", bag |-> 1])}
    /\ edits = cfg.edit
    /\ pc = "idle" /\ cyc = NoCycle /\ op = "none" /\ row = FALSE
    /\ gone = 0 /\ missed = 0 /\ opened = 0 /\ lost = {} /\ crashes = 0

-----------------------------------------------------------------------------
(* lots.py                                                                  *)

Retire(r) ==
    [opened |-> FALSE, flat |-> TRUE, auto |-> "none", skipped |-> FALSE,
     origin |-> IF r.origin = "operator" THEN "operator" ELSE "none",
     needsBasis |-> r.origin # "default"]

\* Mutant: an empty row blocks the schedule.
NeverGhost(r) == FALSE

IsUnscheduledGhost(r) ==
    r.origin = "none" /\ ~r.skipped /\ r.auto = "none" /\ ~r.opened
NewlySeen(r) == r.flat \/ IsUnscheduledGhost(r)
NoteSeen(r) ==
    IF NewlySeen(r) THEN [EmptyLot EXCEPT !.opened = TRUE, !.auto = "wait"] ELSE r

ReopenHeld(r) ==
    IF r.flat
    THEN [opened |-> TRUE, flat |-> FALSE, auto |-> "none", skipped |-> TRUE,
          origin |-> r.origin, needsBasis |-> TRUE]
    ELSE r

BasisApplied(r) == [r EXCEPT !.needsBasis = FALSE]
DueForDefault(r) == ~r.skipped /\ r.origin = "none" /\ r.auto = "due"
MarkOrigin(r, origin) ==
    [r EXCEPT !.flat = FALSE, !.origin = origin,
              !.skipped = origin = "operator" \/ r.skipped]
SkipAuto(r) == [r EXCEPT !.skipped = TRUE]

\* Mutant: the number in config.yaml is trusted although the lot died.
TrustsYaml(r, p) ==
    p.basis.kind = "none" \/ (r.origin = "default" /\ p.basis.kind = "cost")

\* engine.py: the lot's profit-and-loss reference lacks an on-chain origin.
BasisNeedsObservation(r, p) ==
    \/ r.needsBasis
    \/ p.basis.kind = "none"
    \/ r.origin = "default" /\ p.basis.kind = "cost"

-----------------------------------------------------------------------------
(* The wallet and the clock.                                                *)

Buy ==
    /\ ~held /\ bag < MaxBags
    /\ held' = TRUE /\ bag' = bag + 1
    /\ UNCHANGED <<storeVars, pc, cyc, op, row, histVars, edits, crashes>>

SellOut ==
    /\ held /\ held' = FALSE
    /\ UNCHANGED <<bag, storeVars, pc, cyc, op, row, histVars, edits, crashes>>

\* auto_protect_after is a time: it passes for every copy of the record.
Ripen(r) == IF r.auto = "wait" THEN [r EXCEPT !.auto = "due"] ELSE r
DelayPasses ==
    /\ lot.auto = "wait"
    /\ lot' = Ripen(lot) /\ cyc' = [cyc EXCEPT !.lot = Ripen(cyc.lot)]
    /\ UNCHANGED <<walletVars, trail, known, cfg, pc, op, row, histVars, edits, crashes>>

-----------------------------------------------------------------------------
(* The cycle.                                                               *)

At(label) == op = "none" /\ pc = label

\* _policies_relaxed_to_default_stop: the default is no stop.
Relaxed(p) == IF p.there /\ lot.origin = "default" THEN [p EXCEPT !.stop = FALSE] ELSE p

\* Relaxes the policies, then captures those the whole cycle works with.
CycleStart ==
    /\ At("idle")
    /\ cfg' = Relaxed(cfg)
    /\ cyc' = [NoCycle EXCEPT !.cap = Relaxed(cfg), !.edits = edits]
    /\ pc' = "holdings"
    /\ UNCHANGED <<walletVars, lot, trail, known, op, row, histVars, edits, crashes>>

AfterHoldings(h) ==
    CASE ~h /\ known              -> "known"
      [] ~h /\ ~known /\ cyc.cap.there -> "listed"
      [] h /\ cyc.cap.there       -> "inspect"
      [] h /\ ~cyc.cap.there      -> "schedule"
      [] OTHER                    -> "publish"

ReadHoldings ==
    /\ At("holdings")
    /\ cyc' = [cyc EXCEPT !.held = held, !.bag = bag]
    /\ pc' = AfterHoldings(held)
    /\ UNCHANGED <<walletVars, storeVars, op, row, histVars, edits, crashes>>

\* _retire_absent_lot: the lot first, the position's runtime state second. It
\* is called for mints of positions ("known"), then for listed policies.
RetireAbsentLot ==
    /\ \/ At("known") /\ pc' = "wipeKnown"
       \/ At("listed") /\ pc' = "wipeListed"
    /\ lot' = Retire(lot)
    /\ cyc' = IF lot.origin = "default" THEN [cyc EXCEPT !.drop = TRUE]
                                        ELSE [cyc EXCEPT !.strip = TRUE]
    /\ gone' = cyc.bag
    /\ UNCHANGED <<walletVars, trail, known, cfg, op, row, missed, opened, lost, edits, crashes>>

\* Mutant: the runtime state stays.
KeepsRuntimeLot ==
    /\ \/ At("wipeKnown") /\ pc' = IF cyc.cap.there THEN "listed" ELSE "publish"
       \/ At("wipeListed") /\ pc' = "publish"
    /\ known' = TRUE
    /\ UNCHANGED <<walletVars, lot, trail, cfg, cyc, op, row, histVars, edits, crashes>>

ClearRuntimeLot ==
    /\ \/ At("wipeKnown") /\ pc' = IF cyc.cap.there THEN "listed" ELSE "publish"
       \/ At("wipeListed") /\ pc' = "publish"
    /\ trail' = 0 /\ known' = TRUE
    /\ UNCHANGED <<walletVars, lot, cfg, cyc, op, row, histVars, edits, crashes>>

\* _inspect_position up to the await of _observed_basis, or past it.
Inspect ==
    /\ At("inspect")
    /\ LET r == ReopenHeld(lot) IN
       /\ lot' = r
       /\ IF BasisNeedsObservation(r, cyc.cap)
          THEN pc' = "observe" /\ cyc' = [cyc EXCEPT !.lot = r]
          ELSE pc' = "decide" /\ cyc' = [cyc EXCEPT !.basis = cyc.cap.basis]
    /\ UNCHANGED <<walletVars, trail, known, cfg, op, row, histVars, edits, crashes>>

\* reconstruct_observed_basis finds the purchases of the bag now held.
ObservedBasis == [kind |-> "observed", bag |-> bag]

\* The record written back is the one read before the await.
BasisObserved ==
    /\ At("observe") /\ held
    /\ cyc' = [cyc EXCEPT !.basis = ObservedBasis, !.lot = EmptyLot,
                          !.refill = [cyc.cap EXCEPT !.basis = ObservedBasis]]
    /\ lot' = BasisApplied(cyc.lot)
    /\ pc' = "decide"
    /\ UNCHANGED <<walletVars, trail, known, cfg, op, row, histVars, edits, crashes>>

BasisUnavailable ==
    /\ At("observe")
    /\ pc' = "decide" /\ cyc' = [cyc EXCEPT !.lot = EmptyLot]
    /\ UNCHANGED <<walletVars, storeVars, op, row, histVars, edits, crashes>>

\* evaluate_position and _persist_position_state of its next state.
Decide ==
    /\ At("decide")
    /\ trail' = IF trail = 0 THEN cyc.bag ELSE trail
    /\ known' = TRUE
    /\ pc' = "publish" /\ cyc' = [cyc EXCEPT !.basis = NoBasis]
    /\ UNCHANGED <<walletVars, lot, cfg, op, row, histVars, edits, crashes>>

\* _schedule_and_apply_defaults, first loop.
Schedule ==
    /\ At("schedule")
    /\ lot' = NoteSeen(lot)
    /\ opened' = IF NewlySeen(lot) THEN cyc.bag ELSE opened
    /\ pc' = IF DueForDefault(NoteSeen(lot)) THEN "due" ELSE "publish"
    /\ UNCHANGED <<walletVars, trail, known, cfg, cyc, op, row, gone, missed, lost, edits, crashes>>

ObserveDue ==
    /\ At("due")
    /\ \/ /\ held
          /\ cyc' = [cyc EXCEPT !.basis = ObservedBasis]
       \/ UNCHANGED cyc
    /\ pc' = "merge"
    /\ UNCHANGED <<walletVars, storeVars, op, row, histVars, edits, crashes>>

\* A rule of the sentinel's own: edit n = 0.
SentinelPolicy(n) ==
    [there |-> TRUE, edit |-> n, stop |-> FALSE, basis |-> cyc.basis, bag |-> cyc.bag]

\* Mutants: the merge replaces the rule it finds; it counts as an edit.
MergeOver ==
    /\ At("merge")
    /\ cfg' = SentinelPolicy(0)
    /\ pc' = "mark" /\ cyc' = [cyc EXCEPT !.basis = NoBasis]
    /\ UNCHANGED <<walletVars, lot, trail, known, op, row, histVars, edits, crashes>>
MergeAsEdit ==
    /\ At("merge")
    /\ cfg' = IF cfg.there THEN cfg ELSE SentinelPolicy(edits + 1)
    /\ pc' = IF cfg.there THEN "publish" ELSE "mark"
    /\ cyc' = [cyc EXCEPT !.basis = NoBasis]
    /\ UNCHANGED <<walletVars, lot, trail, known, op, row, histVars, edits, crashes>>

\* policies_for_unmonitored never replaces a policy.
PoliciesForUnmonitored(p) == IF p.there THEN p ELSE SentinelPolicy(0)

Merge ==
    /\ At("merge")
    /\ cfg' = PoliciesForUnmonitored(cfg)
    /\ pc' = IF cfg.there THEN "publish" ELSE "mark"
    /\ cyc' = [cyc EXCEPT !.basis = NoBasis]
    /\ UNCHANGED <<walletVars, lot, trail, known, op, row, histVars, edits, crashes>>

MarkDefault ==
    /\ At("mark")
    /\ lot' = MarkOrigin(lot, "default")
    /\ pc' = "publish"
    /\ UNCHANGED <<walletVars, trail, known, cfg, cyc, op, row, histVars, edits, crashes>>

Publish ==
    /\ At("publish")
    /\ row' = (cyc.held /\ ~cyc.cap.there)
    /\ missed' = IF cyc.held THEN missed ELSE cyc.bag
    /\ pc' = "rewrite"
    /\ cyc' = [cyc EXCEPT !.cap = NoPolicy, !.held = FALSE, !.bag = 0]
    /\ UNCHANGED <<walletVars, storeVars, op, gone, opened, lost, edits, crashes>>

\* Mutant: a default rule is stripped and kept.
RewrittenNoDrop(p) ==
    CASE p.there /\ cyc.refill.there -> cyc.refill
      [] p.there /\ ~cyc.refill.there /\ (cyc.drop \/ cyc.strip) -> PolicyWithoutBasis(p)
      [] OTHER -> p

\* _rewrite_lots_yaml over the policies of this moment.
Rewritten(p) ==
    CASE ~p.there \/ cyc.drop -> NoPolicy
      [] p.there /\ ~cyc.drop /\ cyc.refill.there -> cyc.refill
      [] p.there /\ ~cyc.drop /\ ~cyc.refill.there /\ cyc.strip -> PolicyWithoutBasis(p)
      [] OTHER -> p

RewriteLotsYaml ==
    /\ At("rewrite")
    /\ cfg' = Rewritten(cfg)
    /\ lost' = IF cfg.edit # Rewritten(cfg).edit THEN lost \cup {"edit"} ELSE lost
    /\ pc' = "idle" /\ cyc' = NoCycle
    /\ UNCHANGED <<walletVars, lot, trail, known, op, row, gone, missed, opened, edits,
                   crashes>>

\* A crash, or an exception of the cycle: the server stops and launchd starts
\* it again with what is on disk.
Crash ==
    /\ crashes < MaxCrashes /\ crashes' = crashes + 1
    /\ lost' = lost
         \cup (IF op = "mark" \/ pc = "mark" THEN {"mark"} ELSE {})
         \cup (IF cyc.refill.there THEN {"refill"} ELSE {})
         \cup (IF pc \in {"wipeKnown", "wipeListed"} THEN {"wipe"} ELSE {})
         \cup (IF cyc.drop THEN {"drop"} ELSE {})
    /\ pc' = "idle" /\ cyc' = NoCycle /\ op' = "none" /\ row' = FALSE
    /\ UNCHANGED <<walletVars, storeVars, gone, missed, opened, edits>>

-----------------------------------------------------------------------------
(* The dashboard. A handler runs where the cycle awaits.                    *)

Awaits == {"idle", "holdings", "known", "listed", "inspect", "observe", "decide",
           "schedule", "due", "merge", "publish", "rewrite"}
Accepts(request) == request \in Dashboard /\ op = "none" /\ pc \in Awaits

\* The bag an operator's number is about: the one held, or the next one.
MeantBag == IF held THEN bag ELSE bag + 1

WriteOperatorPolicy(stop, basis) ==
    /\ edits < MaxEdits /\ edits' = edits + 1
    /\ cfg' = OperatorPolicy(edits + 1, stop, basis)
    /\ op' = "mark"
    /\ UNCHANGED <<walletVars, lot, trail, known, pc, cyc, row, histVars, crashes>>

PutPolicy ==
    /\ Accepts("put")
    /\ \E stop \in BOOLEAN, kind \in TypedKinds \cup {"none"} :
         WriteOperatorPolicy(stop,
             IF kind = "none" THEN NoBasis ELSE [kind |-> kind, bag |-> MeantBag])

\* Merges the rows of the published snapshot, however old.
ProtectUnmonitored ==
    /\ Accepts("protect") /\ row /\ ~cfg.there
    /\ \E stop \in BOOLEAN : WriteOperatorPolicy(stop, NoBasis)

MarkOperator ==
    /\ op = "mark"
    /\ lot' = MarkOrigin(lot, "operator")
    /\ op' = "none"
    /\ UNCHANGED <<walletVars, trail, known, cfg, pc, cyc, row, histVars, edits, crashes>>

DeletePolicy ==
    /\ Accepts("delete") /\ cfg.there
    /\ lot' = SkipAuto(lot)
    /\ op' = "remove"
    /\ UNCHANGED <<walletVars, trail, known, cfg, pc, cyc, row, histVars, edits, crashes>>

RemovePolicy ==
    /\ op = "remove"
    /\ cfg' = NoPolicy
    /\ op' = "none"
    /\ UNCHANGED <<walletVars, lot, trail, known, pc, cyc, row, histVars, edits, crashes>>

SkipAutoProtect ==
    /\ Accepts("skip")
    /\ lot' = SkipAuto(lot)
    /\ UNCHANGED <<walletVars, trail, known, cfg, pc, cyc, op, row, histVars, edits, crashes>>

-----------------------------------------------------------------------------
Cycle ==
    \/ CycleStart \/ ReadHoldings \/ RetireAbsentLot \/ ClearRuntimeLot
    \/ Inspect \/ BasisObserved \/ BasisUnavailable \/ Decide
    \/ Schedule \/ ObserveDue \/ Merge \/ MarkDefault
    \/ Publish \/ RewriteLotsYaml
Handlers == PutPolicy \/ ProtectUnmonitored \/ DeletePolicy \/ SkipAutoProtect
EndHandler == MarkOperator \/ RemovePolicy
Next == Buy \/ SellOut \/ DelayPasses \/ Cycle \/ Handlers \/ EndHandler \/ Crash

Spec == Init /\ [][Next]_vars

\* The event loop runs, launchd restarts the process, and time passes.
FairSpec == Spec /\ WF_vars(Cycle \/ EndHandler) /\ WF_vars(DelayPasses)

-----------------------------------------------------------------------------
(* Properties.                                                              *)

Bags == 0..MaxBags + 1
Bases == [kind : TypedKinds \cup {"none", "observed"}, bag : Bags]
Policies == [there : BOOLEAN, edit : 0..MaxEdits, stop : BOOLEAN, basis : Bases, bag : Bags]
Lots == [opened : BOOLEAN, flat : BOOLEAN, auto : {"none", "wait", "due"},
         skipped : BOOLEAN, origin : {"none", "operator", "default"},
         needsBasis : BOOLEAN]
Cycles == [cap : Policies, held : BOOLEAN, bag : 0..MaxBags, lot : Lots, basis : Bases,
           refill : Policies, drop : BOOLEAN, strip : BOOLEAN, edits : 0..MaxEdits]

\* The shape of the lot, the policy, the cycle's locals and the counters.
LotTypeOK ==
    /\ held \in BOOLEAN /\ bag \in 0..MaxBags
    /\ lot \in Lots /\ trail \in 0..MaxBags /\ known \in BOOLEAN
    /\ cfg \in Policies
    /\ pc \in Awaits \cup {"wipeKnown", "wipeListed", "mark"}
    /\ cyc \in Cycles /\ op \in {"none", "mark", "remove"} /\ row \in BOOLEAN
    /\ gone \in 0..MaxBags /\ missed \in 0..MaxBags /\ opened \in 0..MaxBags
    /\ lost \subseteq {"mark", "refill", "wipe", "drop", "edit"}
    /\ edits \in 0..MaxEdits /\ crashes \in 0..MaxCrashes

\* Lots.py: a flat bag is a new coin. No decision prices a bag by the cost
\* basis of a bag whose lot was retired, unless a crash cut off the
\* write of an observed basis or the drop of a default rule.
NoInheritedBasis ==
    pc = "decide" /\ lost \cap {"refill", "drop"} = {} =>
        cyc.basis = NoBasis \/ cyc.basis.bag > gone

\* A rebuy inherits no trailing peak, so that it cannot EXIT_TRAIL at once,
\* unless a crash came between the two writes of _retire_absent_lot.
NoInheritedPeak ==
    pc = "decide" /\ "wipe" \notin lost => trail = 0 \/ trail > gone

\* A default rule does not survive its bag, unless a crash cut off the write
\* that drops it or the stamp that makes it a default rule, or a stale refill
\* put it back over an operator's rule.
RuleDiesWithBag ==
    pc = "decide" /\ cyc.cap.edit = 0 /\ lost \cap {"drop", "mark", "edit"} = {} =>
        cyc.cap.bag > gone

\* The sentinel neither removes nor replaces an operator's rule, nor touches
\* its stop: not the auto-protect merge after its reads of the chain, not the
\* relaxing of stops, not the write-back. The write-back of a drop or a refill
\* decided before the edit is the exception, and a crash between the rule and
\* its stamp.
OperatorRuleKept ==
    [][cfg.edit > 0 /\ op = "none" /\ edits' = edits =>
          \/ cfg'.edit = cfg.edit /\ cfg'.stop = cfg.stop
          \/ pc = "rewrite" /\ cfg.edit > cyc.edits
          \/ lost \cap {"mark", "refill"} # {}]_vars

\* A held bag without a rule gets one, unless the operator decided against it
\* or stamped the lot, or the bag is sold.
HeldGetsRule ==
    held /\ ~cfg.there ~> cfg.there \/ ~held \/ lot.skipped \/ lot.origin # "none"
============================================================================
