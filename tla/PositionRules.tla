--------------------------- MODULE PositionRules ---------------------------
(***************************************************************************)
(* How the sentinel decides what to do with one bag: the rug detector       *)
(* (rug_detector.py), the position rules (domain.py, runner.py) and the     *)
(* part of an engine cycle around them (engine.py), which observes the      *)
(* market, reads the state, decides, persists the next state, sells and      *)
(* records baselines. Each read and write of the state file takes its lock   *)
(* anew, so the command line of another process comes between any two.      *)
(*                                                                          *)
(* Prices and multiples are hundredths of the price the bag was bought at;  *)
(* reserves and supplies are integers whose ratios matter. The sale itself  *)
(* is SellExecutor's: here it happens or it does not. Streaks are only ever *)
(* compared with the number of quotes needed, and are capped there.         *)
(***************************************************************************)
EXTENDS Integers, FiniteSets, FiniteSetsExt

CONSTANTS
    Price, Reserve, Supply,     \* what can be observed
    Mints,                      \* mints: the rule, the authority, whether a pool is listed
    Bag,                        \* tokens bought at once
    Confirm,                    \* floor_confirm_quotes
    Tightness,                  \* runner_tightness
    LiquidityDrop, ActiveMintDrop, SupplyGrowth, QuoteCollapse,  \* rug config
    MaxSlot, MaxBuys, MaxFaults \* model bounds; a fault is a crash, a refusal or an edit

None == -1

\* The rule of a mint: stop and take profit in hundredths, None without one.
PolicyRec == [stop : Int, tp : Int, runs : BOOLEAN, rug : BOOLEAN, dispose : BOOLEAN,
              hold : BOOLEAN, basis : {"unit", "bag", "none"}, marked : BOOLEAN]

ASSUME PositionConstants ==
    /\ Price \subseteq Nat /\ Reserve \subseteq Nat /\ Supply \subseteq Nat
    /\ \E top \in Price : \A price \in Price : price <= top
    /\ Mints \subseteq [policy : PolicyRec, authority : STRING, listed : BOOLEAN]
    /\ Bag \in Nat \ {0} /\ Confirm \in Nat /\ Tightness \in Nat \ {0}
    /\ MaxSlot \in Nat

VARIABLES
    mint,       \* the mint: its authority and whether its pool is listed
    slot,       \* the last confirmed slot
    amt,        \* tokens held
    policy,     \* the rule in force
    stopLive,   \* sl_is_live: the grace of a new bag is over
    pos,        \* the persisted PositionState
    base,       \* the persisted rug baselines
    pc, cyc,    \* the cycle: where it is and what it has observed
    seen,       \* history of this bag, for the properties
    buys, faults

store == <<pos, base>>
bounds == <<buys, faults>>
vars == <<mint, slot, amt, policy, stopLive, pos, base, pc, cyc, seen,
          buys, faults>>

EmptyPos == [trail |-> FALSE, peak |-> None, pnl |-> "none", trigger |-> None,
             floorStreak |-> 0, stopStreak |-> 0, tpStreak |-> 0,
             fired |-> {}, original |-> None]
\* A bag that was trailing before runners existed.
OldTrail == [EmptyPos EXCEPT !.trail = TRUE, !.peak = Max(Price)]
NoBase == [reserve |-> None, supply |-> None, quote |-> None]
Unseen == [below |-> 0, red |-> FALSE, crossed |-> None, out |-> 0]
\* The state a cycle has in hand, with the history that goes with it: as it was
\* read, and then as it is to be written.
NoCycle == [held |-> 0, quote |-> None, reserve |-> None, supply |-> None,
            slot |-> None, curve |-> FALSE, rug |-> FALSE, kind |-> "hold", sell |-> 0,
            state |-> EmptyPos, seen |-> Unseen]

-----------------------------------------------------------------------------
(***************************************************************************)
(* runner.py.                                                               *)
(***************************************************************************)
LockRungs == {<<180, 120>>, <<250, 155>>, <<400, 220>>, <<600, 320>>,
              <<1000, 500>>, <<1600, 800>>, <<2500, 1200>>}
ScaleRungs == {<<200, 30>>, <<400, 25>>}
MinFloor == 105

\* lock_floor_multiple: the floor of the highest rung the peak has cleared, moved
\* by the tightness, never under MinFloor and never at or over the peak.
LockFloor(peak) ==
    LET earned == {r \in LockRungs : peak >= r[1]}
        floor == Max({r[2] : r \in earned})
        moved == peak - ((peak - floor) * Tightness) \div 20
        adjusted == Max({MinFloor, IF moved >= peak THEN floor ELSE moved})
    IN  IF earned = {} \/ adjusted >= peak THEN None ELSE adjusted

\* next_scale_fraction: the first rung the peak has reached and nobody sold.
DueAgain(peak, fired) == {r \in ScaleRungs : peak >= r[1]}     \* mutant
DueRungs(peak, fired) == {r \in ScaleRungs : peak >= r[1] /\ r[1] \notin fired}
NextScale(peak, fired) == CHOOSE r \in DueRungs(peak, fired) :
                              \A q \in DueRungs(peak, fired) : r[1] <= q[1]

\* scale_sell_amount: a whole-token slice of the original lot, never the last
\* token of the bag.
ScaleSellAmount(original, remaining, fraction) ==
    IF original <= 0 \/ remaining <= 1 THEN 0
    ELSE Max({0, Min({(original * fraction) \div 100, remaining - 1})})

-----------------------------------------------------------------------------
(***************************************************************************)
(* rug_detector.py.                                                         *)
(***************************************************************************)
DropPct(before, now) == Max({0, 100 - (100 * now) \div before})

\* A reserve, a quote or a supply that is missing is unknown, not zero.
Dropped(reserve, pct) ==
    /\ reserve # None /\ base.reserve # None
    /\ base.reserve > 0
    /\ DropPct(base.reserve, reserve) >= pct
Collapsed(quote) ==
    /\ quote # None /\ base.quote # None
    /\ base.quote > 0
    /\ DropPct(base.quote, quote) >= QuoteCollapse
ActiveMint(supply) == supply # None /\ mint.authority = "creator"
Flooded(supply) ==
    /\ ActiveMint(supply) /\ base.supply # None /\ base.supply > 0
    /\ 100 * supply >= (100 + SupplyGrowth) * base.supply
Drained(reserve, supply, quote) ==
    /\ \/ Dropped(reserve, LiquidityDrop)
       \/ ActiveMint(supply) /\ Dropped(reserve, ActiveMintDrop)
    /\ Collapsed(quote)

\* assess: a flood needs no confirmation, a drained pool does.
Assess(reserve, supply, quote) ==
    IF Flooded(supply) THEN "flood"
    ELSE IF Drained(reserve, supply, quote) THEN "drained"
    ELSE "none"

-----------------------------------------------------------------------------
(***************************************************************************)
(* domain.py. A decision is its kind, the amount to sell and the next state.*)
(***************************************************************************)
Decision(kind, sell, next) == [kind |-> kind, sell |-> sell, next |-> next]
Hold(next) == Decision("hold", 0, next)

Needed == Max({1, Confirm})
Longer(streak) == Min({streak + 1, Needed})

\* unit_price / entry_unit_price: the multiple of a price. A basis typed for the
\* whole bag is spread over what is held now. None without a basis.
Multiple(price, held) ==
    CASE policy.basis = "unit" -> price
      [] policy.basis = "bag" -> (price * held) \div Bag
      [] policy.basis = "none" -> None
PnlSign(mult) == IF mult <= 100 THEN "red" ELSE "green"

NewPeakIsPrice(s, price) == price     \* mutant
NewPeak(s, price) == IF s.peak = None THEN price ELSE Max({s.peak, price})

\* _evaluate_runner: an armed bag sells a due rung, or all of it once the price
\* is at or under the floor for enough quotes.
EvaluateRunner(s, price, held) ==
    LET peak == NewPeak(s, price)
        original == IF s.original = None THEN held ELSE s.original
        armed == [s EXCEPT !.peak = peak, !.original = original]
        peakMult == Multiple(peak, held)
        floor == LockFloor(peakMult)
        due == DueRungs(peakMult, s.fired)
        rung == NextScale(peakMult, s.fired)
        sell == IF due = {} THEN 0 ELSE ScaleSellAmount(original, held, rung[2])
        streak == Longer(s.floorStreak)
        broken == [armed EXCEPT !.floorStreak = streak]
    IN  IF Multiple(price, held) = None THEN Hold(armed)
        ELSE IF s.original = None /\ s.fired = {}
             THEN Hold([armed EXCEPT !.fired = {r[1] : r \in {q \in ScaleRungs : peakMult >= q[1]}},
                                     !.floorStreak = 0])
        ELSE IF sell > 0
             THEN Decision("scale", sell,
                           [armed EXCEPT !.fired = @ \union {rung[1]}, !.floorStreak = 0])
        ELSE IF floor = None \/ Multiple(price, held) > floor
             THEN Hold([armed EXCEPT !.floorStreak = 0])
        ELSE IF streak >= Needed THEN Decision("trail", held, broken)
        ELSE Hold(broken)

\* The take-profit part: N quotes in a row arm the runner, or sell without one.
EvaluateTakeProfit(s, price, held) ==
    LET mult == Multiple(price, held)
        streak == Longer(s.tpStreak)
        confirmed == [s EXCEPT !.tpStreak = streak]
    IN  IF policy.tp = None \/ mult = None \/ mult < policy.tp
        THEN Hold([s EXCEPT !.tpStreak = 0])
        ELSE IF streak < Needed THEN Hold(confirmed)
        ELSE IF ~ policy.runs THEN Decision("profit", held, confirmed)
        ELSE Decision("arm", 0, [confirmed EXCEPT !.trail = TRUE, !.peak = price,
                                     !.floorStreak = 0, !.tpStreak = 0,
                                     !.original = IF @ = None THEN held ELSE @])

\* Mutant: the arm is dropped and its peak is not.
EvaluateRestKeepsPeak(s, price, held, curve) ==
    IF s.trail /\ policy.runs THEN EvaluateRunner(s, price, held)
    ELSE EvaluateTakeProfit([s EXCEPT !.trail = FALSE], price, held)

\* What is left once the stop and the disposal have let the quote pass.
EvaluateRest(s, price, held, curve) ==
    LET dropped == [s EXCEPT !.trail = FALSE, !.peak = None]
        rest == IF s.trail THEN dropped ELSE s
    IN  IF s.trail /\ policy.runs THEN EvaluateRunner(s, price, held)
        ELSE IF policy.runs /\ policy.hold /\ curve THEN Hold(rest)
        ELSE EvaluateTakeProfit(rest, price, held)

\* The last quote was at or under break-even and this one is over it.
Crosses(s, mult) == s.pnl = "red" /\ PnlSign(mult) = "green"

\* Disposal: sell one confirmed slot after an observed crossing of break-even.
EvaluateDispose(s, price, held, at, curve) ==
    LET mult == Multiple(price, held)
        noted == [s EXCEPT !.pnl = PnlSign(mult)]
    IN  IF mult = None \/ at = None THEN Hold(s)
        ELSE IF s.trigger # None
             THEN IF at >= s.trigger + 1 THEN Decision("dispose", held, noted) ELSE Hold(noted)
        ELSE IF Crosses(s, mult)
             THEN Hold([noted EXCEPT !.trigger = at])
        ELSE EvaluateRest(noted, price, held, curve)

\* evaluate_position.
EvaluatePosition(s, rug, price, held, at, curve) ==
    LET mult == Multiple(price, held)
        streak == Longer(s.stopStreak)
        stopped == [s EXCEPT !.stopStreak = streak, !.tpStreak = 0]
        passed == [s EXCEPT !.stopStreak = 0]
    IN  IF rug /\ policy.rug THEN Decision("rug", held, s)
        ELSE IF price = None THEN Hold(s)
        ELSE IF stopLive /\ policy.stop # None /\ mult # None /\ mult <= policy.stop
             THEN IF streak >= Needed THEN Decision("stop", held, stopped) ELSE Hold(stopped)
        ELSE IF policy.dispose THEN EvaluateDispose(passed, price, held, at, curve)
        ELSE EvaluateRest([passed EXCEPT !.pnl = "none", !.trigger = None], price, held, curve)

-----------------------------------------------------------------------------
(***************************************************************************)
(* The engine's cycle over one holding.                                     *)
(***************************************************************************)
\* What the properties speak of: the quotes at or under the stop since the last
\* that was not, whether the bag was seen at or under break-even since its
\* disposal was asked for, and the slot of the first quote over it after that.
Noted(o) ==
    LET mult == Multiple(o.quote, o.held)
        green == PnlSign(mult) = "green"
        stopping == stopLive /\ policy.stop # None /\ mult <= policy.stop
        off == ~ policy.dispose /\ ~ stopping
    IN  IF o.quote = None \/ (o.rug /\ policy.rug) \/ mult = None THEN o.seen
        ELSE [o.seen EXCEPT
                 !.below = IF stopping THEN Longer(@) ELSE 0,
                 !.red = ~ off /\ (@ \/ ~ green),
                 !.crossed = IF off THEN None
                             ELSE IF o.seen.red /\ green /\ @ = None THEN o.slot ELSE @]

\* The observation is complete and the prior state is read. The cycle keeps the
\* reserve it will record.
ReadPrior(o, rug, reserve) ==
    /\ cyc' = [o EXCEPT !.rug = rug, !.reserve = reserve, !.state = pos, !.seen = seen]
    /\ pc' = "read"
    /\ UNCHANGED <<mint, amt, policy, stopLive, store, seen, bounds>>

\* Decide on the state that was read, and on the disposal override as it is now.
Decide ==
    /\ pc = "read"
    /\ LET d == EvaluatePosition(cyc.state, cyc.rug, cyc.quote, cyc.held, cyc.slot, cyc.curve)
       IN  cyc' = [cyc EXCEPT !.kind = d.kind, !.sell = d.sell, !.state = d.next,
                              !.seen = Noted(cyc), !.rug = FALSE, !.curve = FALSE]
    /\ pc' = "evaluated"
    /\ UNCHANGED <<mint, slot, amt, policy, stopLive, store, seen, bounds>>

\* _persist_position_state: the next state is written, before anything is sold, over
\* whatever the command line wrote since the read: with the reset of the edge its
\* history is overwritten too.
Persist ==
    /\ pc = "evaluated"
    /\ pos' = cyc.state /\ seen' = cyc.seen
    /\ cyc' = [cyc EXCEPT !.state = EmptyPos, !.seen = Unseen, !.slot = None]
    /\ pc' = "decided"
    /\ UNCHANGED <<mint, slot, amt, policy, stopLive, base, bounds>>

\* The holding, a quote for all of it, the pool, the mint and Pump's metadata:
\* the market may have moved to anything since the last cycle, and each answer
\* may be missing. A drained pool is looked at again before anything is decided.
\* Nothing of this is read or written while the answers come in, and an edit or a
\* command between them takes effect as one made before or after.
Observe ==
    /\ pc = "idle" /\ amt > 0
    /\ \E quote \in Price \union {None}, at \in (slot..MaxSlot) \union {None}, curve \in BOOLEAN,
          reserve \in {None} \union (IF mint.listed THEN Reserve ELSE {}),
          supply \in {None} \union (IF mint.listed THEN Supply ELSE {}) :
           LET o == [NoCycle EXCEPT !.held = amt, !.quote = quote, !.reserve = reserve,
                                    !.supply = supply, !.slot = at, !.curve = curve]
               rug == Assess(reserve, supply, quote)
           IN  /\ slot' = IF at = None THEN slot ELSE at
               /\ \/ rug # "drained" /\ ReadPrior(o, rug = "flood", reserve)
                  \/ /\ rug = "drained"
                     /\ cyc' = o /\ pc' = "confirm"
                     /\ UNCHANGED <<mint, amt, policy, stopLive, store, seen, bounds>>

\* A second look at the pool after a pause. A look that fails or disagrees is no
\* confirmation, and this cycle's pool does not become the baseline.
ConfirmRug ==
    /\ pc = "confirm"
    /\ \E reserve \in {None} \union Reserve :
           LET again == reserve # None /\ Assess(reserve, cyc.supply, cyc.quote) # "none"
           IN  ReadPrior(cyc, again, IF again THEN cyc.reserve ELSE None)
    /\ UNCHANGED slot

Fault == faults < MaxFaults /\ faults' = faults + 1

\* Mutant: the override is written and the old edge stays.
SetDisposeKeepsEdge(enabled) ==
    /\ policy' = [policy EXCEPT !.dispose = enabled, !.marked = TRUE]
    /\ UNCHANGED pos

\* set_dispose_policy: the override and the reset of its edge detector in one write.
SetDisposePolicy(enabled) ==
    /\ policy' = [policy EXCEPT !.dispose = enabled, !.marked = TRUE]
    /\ pos' = [pos EXCEPT !.pnl = "none", !.trigger = None]

\* A sale takes the tokens away, and a disposal the instruction too, or it is
\* refused and leaves everything.
Sold ==
    /\ amt' = Max({0, amt - cyc.sell})
    /\ IF cyc.kind = "dispose"
       THEN SetDisposePolicy(FALSE) /\ seen' = [seen EXCEPT !.red = FALSE, !.crossed = None]
       ELSE /\ seen' = [seen EXCEPT !.out = IF cyc.kind = "scale" THEN @ + cyc.sell ELSE @]
            /\ UNCHANGED <<policy, pos>>
    /\ UNCHANGED faults
NotSold ==
    /\ Fault
    /\ UNCHANGED <<amt, seen, policy, pos>>

\* The decision is carried out. A disposal that was switched off since is called
\* off and forgotten.
Execute ==
    /\ pc = "decided"
    /\ pc' = "record"
    /\ \/ /\ cyc.kind \in {"hold", "arm"}
          /\ UNCHANGED <<amt, policy, pos, seen, faults>>
       \/ /\ cyc.kind = "dispose" /\ ~ policy.dispose
          /\ pos' = [pos EXCEPT !.pnl = "none", !.trigger = None]
          /\ UNCHANGED <<amt, policy, seen, faults>>
       \/ /\ cyc.kind \notin {"hold", "arm"}
          /\ cyc.kind = "dispose" => policy.dispose
          /\ Sold \/ NotSold
    /\ cyc' = [NoCycle EXCEPT !.quote = cyc.quote, !.reserve = cyc.reserve,
                              !.supply = cyc.supply]
    /\ UNCHANGED <<mint, slot, stopLive, base, buys>>

\* RugDetector.record: what was observed becomes the baseline.
Record ==
    /\ pc = "record"
    /\ LET keep(new, old) == IF new = None THEN old ELSE new
       IN  base' = [reserve |-> keep(cyc.reserve, base.reserve),
                    supply |-> keep(cyc.supply, base.supply),
                    quote |-> keep(cyc.quote, base.quote)]
    /\ pc' = "idle"
    /\ cyc' = NoCycle
    /\ UNCHANGED <<mint, slot, amt, policy, stopLive, pos, seen, bounds>>

\* A cycle that finds the bag empty retires the lot: its position state is wiped,
\* and the stop of the next one may start with a grace.
Retired(next) ==
    /\ pc = "idle" /\ amt = 0
    /\ pos' = next
    /\ stopLive' \in BOOLEAN
    /\ seen' = Unseen
    /\ UNCHANGED <<mint, slot, amt, policy, base, pc, cyc, bounds>>
RetireKeepsState == Retired(pos)     \* mutant
Retire == Retired(EmptyPos)

-----------------------------------------------------------------------------
(***************************************************************************)
(* What happens around the cycle.                                           *)
(***************************************************************************)
\* The operator buys the mint again. No cycle need have seen the bag empty, and
\* then it is still the same lot.
Buy ==
    /\ pc = "idle" /\ amt = 0 /\ buys < MaxBuys
    /\ amt' = Bag
    /\ buys' = buys + 1
    /\ UNCHANGED <<mint, slot, policy, stopLive, store, pc, cyc, seen, faults>>

GraceOver ==
    /\ pc = "idle" /\ ~ stopLive /\ stopLive' = TRUE
    /\ UNCHANGED <<mint, slot, amt, policy, store, pc, cyc, seen, bounds>>

\* The dashboard switches the runner, or the disposal while no override decides
\* about it. A cycle works with the rule it started with, so an edit made during
\* one is an edit made after it.
Edit ==
    /\ pc = "idle" /\ Fault
    /\ \/ policy' = [policy EXCEPT !.runs = ~ @]
       \/ ~ policy.marked /\ policy' = [policy EXCEPT !.dispose = ~ @]
    /\ UNCHANGED <<mint, slot, amt, stopLive, store, pc, cyc, seen, buys>>

\* The command line sets the override, whatever the cycle is doing: between the
\* read and the write of the state too.
DisposeCli ==
    /\ Fault
    /\ \E enabled \in BOOLEAN : SetDisposePolicy(enabled)
    /\ seen' = [seen EXCEPT !.red = FALSE, !.crossed = None]
    /\ UNCHANGED <<mint, slot, amt, stopLive, base, pc, cyc, buys>>

\* The process dies: what is persisted stays.
Crash ==
    /\ pc # "idle" /\ Fault
    /\ pc' = "idle" /\ cyc' = NoCycle
    /\ UNCHANGED <<mint, slot, amt, policy, stopLive, store, seen, buys>>

Init ==
    /\ \E m \in Mints :
           /\ mint = [authority |-> m.authority, listed |-> m.listed]
           /\ policy = m.policy
    /\ slot = 0
    /\ amt = Bag
    /\ stopLive = TRUE
    /\ pos \in {EmptyPos, OldTrail} /\ base = NoBase
    /\ pc = "idle" /\ cyc = NoCycle
    /\ seen = Unseen
    /\ buys = 0 /\ faults = 0

Cycle == Observe \/ ConfirmRug \/ Decide \/ Persist \/ Execute \/ Record \/ Retire
Next == Cycle \/ Buy \/ GraceOver \/ Edit \/ DisposeCli \/ Crash

Spec == Init /\ [][Next]_vars

-----------------------------------------------------------------------------
(***************************************************************************)
(* Properties.                                                              *)
(***************************************************************************)
OptNat == Nat \union {None}

\* Types, and what only several actions together keep: streaks never pass the
\* number of quotes needed, a bag that trails has a peak, and no sale is larger
\* than the holding it was decided for.
PositionTypeOK ==
    /\ amt \in 0..Bag /\ stopLive \in BOOLEAN
    /\ pos \in [trail : BOOLEAN, peak : Price \union {None}, pnl : {"none", "red", "green"},
                trigger : OptNat, floorStreak : 0..Needed, stopStreak : 0..Needed,
                tpStreak : 0..Needed, fired : SUBSET {r[1] : r \in ScaleRungs},
                original : 1..Bag \union {None}]
    /\ pos.trail <=> pos.peak # None
    /\ base \in [reserve : Reserve \union {None}, supply : Supply \union {None},
                 quote : Price \union {None}]
    /\ pc \in {"idle", "confirm", "read", "evaluated", "decided", "record"}
    /\ cyc.sell \in 0..cyc.held

\* A quoted cycle that is not a rug sells on the stop exactly when the last Confirm
\* quotes of this bag were all at or under its live stop: no wick sells it, and
\* no other rule, missing quote, refused sale, crash, edit or former bag of the
\* mint delays or hastens it (domain.py's below_stop_streak).
StopExact ==
    pc = "decided" /\ cyc.quote # None /\ cyc.kind # "rug"
        => (cyc.kind = "stop" <=> seen.below >= Needed)

\* The scale-outs of one bag sell no more than the rungs' share of it and leave
\* at least one token, across refusals, crashes between the write of the state
\* and the sale, and a runner that is switched off and armed again.
ScaleOutsBounded ==
    /\ 100 * seen.out <= Bag * FoldSet(LAMBDA r, acc : r[2] + acc, 0, ScaleRungs)
    /\ pc = "decided" /\ cyc.kind = "scale" => cyc.sell < amt

\* A disposal is decided only for a bag that, since the instruction was last given
\* or withdrawn, was seen at or under break-even and then over it, at a confirmed
\* slot before this one: no former bag, finished disposal or earlier edge counts.
\* One instruction is excepted: storage.py:131 resets the edge together with the
\* override, but a cycle that read the state before (engine.py:1205) and writes it
\* after (engine.py:1227) puts the edge back, and it counts as if the override had
\* not been touched. No other write of a cycle brings an edge back.
DisposeAfterCrossing ==
    [][pc # "decided" /\ pc' = "decided" /\ cyc'.kind = "dispose"
           => seen'.red /\ seen'.crossed # None /\ cyc.slot > seen'.crossed]_vars

\* The lock-in floor of an armed bag with a price per token never comes down
\* while it stays armed (runner.py: "Peak is not the trigger", the floor is), at
\* the canonical tightness of 20 or a tighter one. A looser tightness, which
\* lock_in_tightness_pct admits, lets it slip between two rungs as the peak rises.
FloorRatchets ==
    [][pos.trail /\ pos'.trail /\ policy.basis = "unit"
           => LockFloor(pos'.peak) >= LockFloor(pos.peak)]_vars

=============================================================================
