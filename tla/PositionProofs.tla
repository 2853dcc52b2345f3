--------------------------- MODULE PositionProofs ---------------------------
(***************************************************************************)
(* For every set of prices and policies, every bag and every number of      *)
(* quotes to confirm: the stop is exact, the scale-outs are bounded, a      *)
(* disposal follows a crossing and the floor of a runner ratchets, with the *)
(* command line coming between a cycle's read and its write of the state.   *)
(***************************************************************************)
EXTENDS PositionRules, TLAPS

RungKeys == {r[1] : r \in ScaleRungs}
PosRec == [trail : BOOLEAN, peak : Price \union {None}, pnl : {"none", "red", "green"},
           trigger : OptNat, floorStreak : 0..Needed, stopStreak : 0..Needed,
           tpStreak : 0..Needed, fired : SUBSET RungKeys, original : 1..Bag \union {None}]
PosOK(s) == s \in PosRec /\ (s.trail <=> s.peak # None)
BaseRec == [reserve : Reserve \union {None}, supply : Supply \union {None},
            quote : Price \union {None}]
Kinds == {"hold", "arm", "rug", "stop", "scale", "trail", "profit", "dispose"}
SeenRec == [below : 0..Needed, red : BOOLEAN, crossed : OptNat, out : Nat]
CycRec == [held : 0..Bag, quote : Price \union {None}, reserve : Reserve \union {None},
           supply : Supply \union {None}, slot : OptNat, curve : BOOLEAN, rug : BOOLEAN,
           kind : Kinds, sell : 0..Bag, state : PosRec, seen : SeenRec]

\* What the fired rungs may have sold of a bag, in percent.
Share(fired) == (IF 200 \in fired THEN 30 ELSE 0) + (IF 400 \in fired THEN 25 ELSE 0)

\* Types; a cycle works on the bag that is held, and its slot is the last one.
Typed ==
    /\ amt \in 0..Bag /\ stopLive \in BOOLEAN /\ slot \in Nat
    /\ policy \in PolicyRec /\ PosOK(pos) /\ base \in BaseRec
    /\ cyc \in CycRec /\ cyc.sell <= cyc.held /\ PosOK(cyc.state) /\ seen \in SeenRec
    /\ pc \in {"idle", "confirm", "read", "evaluated", "decided", "record"}
    /\ pc \in {"confirm", "read", "evaluated", "decided"} => cyc.held = amt /\ amt > 0
    /\ pc \in {"confirm", "read", "evaluated"} => cyc.slot \in {None, slot}

\* The persisted streak is the number of quotes the properties count.
StopCounted ==
    /\ seen.below = pos.stopStreak
    /\ policy.basis = "none" => seen.below = 0
    /\ StopExact

\* The persisted edge detector knows no more than what was seen of this bag.
EdgeSeen(s, h, at) ==
    /\ h.crossed <= at
    /\ s.pnl = "red" => h.red
    /\ s.trigger # None => h.red /\ h.crossed # None /\ h.crossed <= s.trigger

\* A rung is marked as sold before it is sold.
Pending == IF pc = "decided" /\ cyc.kind = "scale" THEN cyc.sell ELSE 0
ScaleCounted ==
    /\ 100 * (seen.out + Pending) <= Bag * Share(pos.fired)
    /\ pc = "decided" /\ cyc.kind = "scale" => cyc.sell < amt

\* A decision d for a position that was in state s, with the history h it leaves:
\* the streak of the stop follows the quotes seen, the edge detector knows no more
\* than was seen, a rung is sold once and no peak comes down.
DecidedOK(s, out, d, h, o, at) ==
    /\ d.kind \in Kinds /\ d.sell \in 0..o.held /\ PosOK(d.next)
    /\ h \in SeenRec /\ h.out = out
    /\ h.below = d.next.stopStreak /\ (policy.basis = "none" => h.below = 0)
    /\ o.quote # None /\ d.kind # "rug" => (d.kind = "stop" <=> h.below >= Needed)
    /\ EdgeSeen(d.next, h, at)
    /\ IF d.kind = "scale"
       THEN /\ d.sell < o.held
            /\ \E r \in ScaleRungs : /\ r[1] \notin s.fired /\ d.next.fired = s.fired \union {r[1]}
                                     /\ 100 * d.sell <= Bag * r[2]
       ELSE s.fired \subseteq d.next.fired
    /\ s.trail /\ d.next.trail => d.next.peak >= s.peak
    /\ d.kind = "dispose" => h.red /\ h.crossed # None /\ o.slot > h.crossed

\* The copy a cycle has read differs from the file in the edge only, which the
\* command line may have reset since, and brings the history of its own edge.
Reading ==
    pc = "read" =>
        /\ cyc.state.stopStreak = pos.stopStreak /\ cyc.state.fired = pos.fired
        /\ cyc.state.trail = pos.trail /\ cyc.state.peak = pos.peak
        /\ cyc.seen.below = seen.below /\ cyc.seen.out = seen.out
        /\ EdgeSeen(cyc.state, cyc.seen, slot)

\* A decision that is not yet written is one for the file as it is.
Deciding ==
    pc = "evaluated" =>
        DecidedOK(pos, seen.out, Decision(cyc.kind, cyc.sell, cyc.state), cyc.seen, cyc, slot)

\* The inductive invariant.
PosInv ==
    /\ Typed /\ StopCounted /\ EdgeSeen(pos, seen, slot) /\ ScaleCounted
    /\ Reading /\ Deciding

-----------------------------------------------------------------------------
(* Numbers.                                                                  *)

LEMMA MaxTwo == ASSUME NEW a \in Int, NEW b \in Int PROVE Max({a, b}) = IF a >= b THEN a ELSE b
<1> DEFINE m == IF a >= b THEN a ELSE b
<1>1. m \in {a, b} /\ \A y \in {a, b} : m >= y OBVIOUS
<1>2. \A x \in {a, b} : (\A y \in {a, b} : x >= y) => x = m OBVIOUS
<1>3. QED BY <1>1, <1>2 DEF Max

LEMMA MinTwo == ASSUME NEW a \in Int, NEW b \in Int PROVE Min({a, b}) = IF a <= b THEN a ELSE b
<1> DEFINE m == IF a <= b THEN a ELSE b
<1>1. m \in {a, b} /\ \A y \in {a, b} : m <= y OBVIOUS
<1>2. \A x \in {a, b} : (\A y \in {a, b} : x <= y) => x = m OBVIOUS
<1>3. QED BY <1>1, <1>2 DEF Min

LEMMA NeededFacts ==
    /\ Needed \in Nat /\ Needed >= 1
    /\ \A n \in 0..Needed : Longer(n) \in 0..Needed /\ Longer(n) >= 1
<1>1. Needed \in Nat /\ Needed >= 1
  BY MaxTwo, PositionConstants DEF Needed
<1>2. ASSUME NEW n \in 0..Needed PROVE Longer(n) \in 0..Needed /\ Longer(n) >= 1
  <2>1. n + 1 \in Int /\ Needed \in Int BY <1>1
  <2>2. Longer(n) = IF n + 1 <= Needed THEN n + 1 ELSE Needed BY <2>1, MinTwo DEF Longer
  <2>3. QED BY <1>1, <2>2
<1>3. QED BY <1>1, <1>2

\* A whole quotient.
LEMMA Quotient ==
    ASSUME NEW a \in Nat, NEW b \in Nat \ {0} PROVE a \div b \in Nat
OBVIOUS

LEMMA MultipleFacts ==
    ASSUME policy \in PolicyRec, NEW price \in Nat, NEW held \in Nat
    PROVE  IF policy.basis = "none" THEN Multiple(price, held) = None
           ELSE Multiple(price, held) \in Nat
<1>1. price * held \in Nat OBVIOUS
<1>2. (price * held) \div Bag \in Nat BY <1>1, Quotient, PositionConstants
<1>3. policy.basis \in {"unit", "bag", "none"} BY DEF PolicyRec
<1>4. QED BY <1>2, <1>3 DEF Multiple

LEMMA NoneFacts == None = -1 /\ None \notin Nat /\ None \in Int
BY DEF None

LEMMA ConstFacts ==
    /\ \A p \in Price : p \in Nat /\ p \in Int /\ p # None
    /\ Bag \in Nat /\ Bag >= 1
<1>1. Price \subseteq Nat /\ Bag \in Nat \ {0} BY PositionConstants
<1>2. QED BY <1>1, NoneFacts

LEMMA RungFacts ==
    /\ RungKeys = {200, 400}
    /\ \A r \in ScaleRungs : r = <<200, 30>> \/ r = <<400, 25>>
    /\ \A r \in ScaleRungs : r[1] \in RungKeys /\ r[2] \in Nat
BY DEF RungKeys, ScaleRungs

\* The rung that next_scale_fraction picks is due.
LEMMA NextScaleFacts ==
    ASSUME NEW peak, NEW fired, DueRungs(peak, fired) # {}
    PROVE  NextScale(peak, fired) \in DueRungs(peak, fired)
<1>1. DueRungs(peak, fired) \subseteq {<<200, 30>>, <<400, 25>>} BY DEF DueRungs, ScaleRungs
<1>2. <<200, 30>>[1] = 200 /\ <<400, 25>>[1] = 400 OBVIOUS
<1>3. \E r \in DueRungs(peak, fired) : \A q \in DueRungs(peak, fired) : r[1] <= q[1]
  <2>1. CASE <<200, 30>> \in DueRungs(peak, fired) BY <1>1, <1>2, <2>1
  <2>2. CASE <<200, 30>> \notin DueRungs(peak, fired) BY <1>1, <1>2, <2>2
  <2>3. QED BY <2>1, <2>2
<1>4. QED BY <1>3 DEF NextScale

\* A slice of the original lot that leaves a token.
LEMMA SliceFacts ==
    ASSUME NEW original \in 1..Bag, NEW held \in 1..Bag, NEW r \in ScaleRungs
    PROVE  LET sell == ScaleSellAmount(original, held, r[2])
           IN  /\ sell \in 0..held /\ sell < held
               /\ 100 * sell <= Bag * r[2]
<1> DEFINE raw == (original * r[2]) \div 100
           sell == ScaleSellAmount(original, held, r[2])
<1>1. Bag \in Nat /\ original \in Nat /\ held \in Nat /\ original <= Bag /\ held >= 1 /\ original >= 1
  BY PositionConstants
<1>2. raw \in Nat /\ 100 * raw <= Bag * r[2]
  <2>1. CASE r = <<200, 30>>
    <3>1. r[2] = 30 BY <2>1
    <3>2. QED BY <1>1, <3>1
  <2>2. CASE r = <<400, 25>>
    <3>1. r[2] = 25 BY <2>2
    <3>2. QED BY <1>1, <3>1
  <2>3. QED BY <2>1, <2>2, RungFacts
<1>3. Bag * r[2] \in Nat BY <1>1, RungFacts
<1> HIDE DEF raw
<1>4. CASE held <= 1
  <2>1. sell = 0 BY <1>4 DEF ScaleSellAmount
  <2>2. QED BY <1>1, <1>3, <2>1
<1>5. CASE held > 1
  <2>1. Min({raw, held - 1}) = IF raw <= held - 1 THEN raw ELSE held - 1 BY <1>1, <1>2, MinTwo
  <2>2. Min({raw, held - 1}) \in Nat BY <1>1, <1>2, <1>5, <2>1
  <2>3. Max({0, Min({raw, held - 1})}) = Min({raw, held - 1}) BY <2>2, MaxTwo
  <2>4. sell = Min({raw, held - 1}) BY <1>1, <1>5, <2>3 DEF ScaleSellAmount, raw
  <2>5. QED BY <1>1, <1>2, <1>3, <1>5, <2>1, <2>4
<1>6. QED BY <1>1, <1>4, <1>5

\* The rungs' shares add up to 55 percent: the fold over them, worked out.
LEMMA ShareSum == FoldSet(LAMBDA r, acc : r[2] + acc, 0, ScaleRungs) = 55
<1> DEFINE a == <<200, 30>>
           b == <<400, 25>>
           S == {a, b}
           Body(it) == [s \in SUBSET S |->
                           IF s = {} THEN 0
                           ELSE LET x == CHOOSE x \in s : TRUE IN x[2] + it[s \ {x}]]
           sum == [s \in SUBSET S |-> (IF a \in s THEN 30 ELSE 0) + (IF b \in s THEN 25 ELSE 0)]
           it == CHOOSE it : it = Body(it)
<1>1. FoldSet(LAMBDA r, acc : r[2] + acc, 0, ScaleRungs) = it[S]
  BY DEF FoldSet, MapThenFoldSet, ScaleRungs
<1>2. a # b /\ a[2] = 30 /\ b[2] = 25 OBVIOUS
<1> HIDE DEF a, b
<1>3. \A s \in SUBSET S : s # {} => (CHOOSE x \in s : TRUE) \in s OBVIOUS
<1>4. sum = Body(sum)
  <2>1. ASSUME NEW s \in SUBSET S
        PROVE  sum[s] = IF s = {} THEN 0
                        ELSE LET x == CHOOSE x \in s : TRUE IN x[2] + sum[s \ {x}]
    <3>1. CASE s = {} BY <3>1
    <3>2. CASE s # {}
      <4>1. PICK x \in s : x = CHOOSE y \in s : TRUE BY <1>3, <3>2
      <4>2. s \ {x} \in SUBSET S OBVIOUS
      <4>3. x = a \/ x = b OBVIOUS
      <4>4. sum[s] = x[2] + sum[s \ {x}] BY <1>2, <4>2, <4>3
      <4>5. QED BY <3>2, <4>1, <4>4
    <3>3. QED BY <3>1, <3>2
  <2>2. QED BY <2>1
<1>5. it = Body(it) BY <1>4
<1> HIDE DEF it
<1>6. PICK f : f = it /\ f = Body(f) BY <1>5
<1>7. f[{}] = 0 BY <1>6
<1>8. f[{a}] = 30
  <2>1. {a} \in SUBSET S /\ {a} # {} OBVIOUS
  <2>2. PICK x \in {a} : x = CHOOSE y \in {a} : TRUE BY <1>3, <2>1
  <2>3. f[{a}] = x[2] + f[{a} \ {x}] BY <1>6, <2>1, <2>2
  <2>4. x = a /\ {a} \ {x} = {} OBVIOUS
  <2>5. QED BY <1>2, <1>7, <2>3, <2>4
<1>9. f[{b}] = 25
  <2>1. {b} \in SUBSET S /\ {b} # {} OBVIOUS
  <2>2. PICK x \in {b} : x = CHOOSE y \in {b} : TRUE BY <1>3, <2>1
  <2>3. f[{b}] = x[2] + f[{b} \ {x}] BY <1>6, <2>1, <2>2
  <2>4. x = b /\ {b} \ {x} = {} OBVIOUS
  <2>5. QED BY <1>2, <1>7, <2>3, <2>4
<1>10. f[S] = 55
  <2>1. PICK x \in S : x = CHOOSE y \in S : TRUE BY <1>3
  <2>2. f[S] = x[2] + f[S \ {x}] BY <1>6, <2>1
  <2>3. CASE x = a
    <3>1. S \ {x} = {b} BY <1>2, <2>3
    <3>2. QED BY <1>2, <1>9, <2>2, <2>3, <3>1
  <2>4. CASE x = b
    <3>1. S \ {x} = {a} BY <1>2, <2>4
    <3>2. QED BY <1>2, <1>8, <2>2, <2>4, <3>1
  <2>5. QED BY <2>3, <2>4
<1>11. QED BY <1>1, <1>6, <1>10

-----------------------------------------------------------------------------
(* domain.py and runner.py                                                   *)

\* What the rules after the stop and the disposal may decide for a bag: they
\* leave the streak of the stop and the edge detector alone, sell a rung once,
\* and bring no peak down.
RestOK(s, d, held) ==
    /\ d.kind \in {"hold", "arm", "scale", "trail", "profit"} /\ d.sell \in 0..held
    /\ PosOK(d.next)
    /\ d.next.stopStreak = s.stopStreak /\ d.next.pnl = s.pnl /\ d.next.trigger = s.trigger
    /\ IF d.kind = "scale"
       THEN /\ d.sell < held
            /\ \E r \in ScaleRungs : /\ r[1] \notin s.fired /\ d.next.fired = s.fired \union {r[1]}
                                     /\ 100 * d.sell <= Bag * r[2]
       ELSE s.fired \subseteq d.next.fired
    /\ s.trail /\ d.next.trail => d.next.peak >= s.peak

LEMMA DecisionFacts ==
    ASSUME NEW kind, NEW sell, NEW next
    PROVE  /\ Decision(kind, sell, next).kind = kind /\ Decision(kind, sell, next).sell = sell
           /\ Decision(kind, sell, next).next = next
           /\ Hold(next).kind = "hold" /\ Hold(next).sell = 0 /\ Hold(next).next = next
BY DEF Decision, Hold

LEMMA PeakFacts ==
    ASSUME NEW s, PosOK(s), s.trail, NEW price \in Price
    PROVE  NewPeak(s, price) \in Price /\ NewPeak(s, price) >= s.peak
<1>1. s.peak \in Price /\ s.peak # None BY DEF PosOK, PosRec
<1>2. s.peak \in Int /\ price \in Int BY <1>1, ConstFacts
<1>3. NewPeak(s, price) = IF s.peak >= price THEN s.peak ELSE price
  BY <1>1, <1>2, MaxTwo DEF NewPeak
<1>4. QED BY <1>1, <1>2, <1>3

LEMMA RunnerOK ==
    ASSUME policy \in PolicyRec, NEW s, PosOK(s), s.trail, NEW price \in Price, NEW held \in 1..Bag
    PROVE  RestOK(s, EvaluateRunner(s, price, held), held)
<1> DEFINE peak == NewPeak(s, price)
           original == IF s.original = None THEN held ELSE s.original
           armed == [s EXCEPT !.peak = peak, !.original = original]
           peakMult == Multiple(peak, held)
           floor == LockFloor(peakMult)
           due == DueRungs(peakMult, s.fired)
           rung == NextScale(peakMult, s.fired)
           sell == IF due = {} THEN 0 ELSE ScaleSellAmount(original, held, rung[2])
           streak == Longer(s.floorStreak)
           broken == [armed EXCEPT !.floorStreak = streak]
           reached == {r[1] : r \in {q \in ScaleRungs : peakMult >= q[1]}}
           first == [armed EXCEPT !.fired = reached, !.floorStreak = 0]
           scaled == [armed EXCEPT !.fired = @ \union {rung[1]}, !.floorStreak = 0]
           calm == [armed EXCEPT !.floorStreak = 0]
           d == EvaluateRunner(s, price, held)
<1>1. d = IF Multiple(price, held) = None THEN Hold(armed)
          ELSE IF s.original = None /\ s.fired = {} THEN Hold(first)
          ELSE IF sell > 0 THEN Decision("scale", sell, scaled)
          ELSE IF floor = None \/ Multiple(price, held) > floor THEN Hold(calm)
          ELSE IF streak >= Needed THEN Decision("trail", held, broken)
          ELSE Hold(broken)
  BY DEF EvaluateRunner
<1> SUFFICES RestOK(s, d, held) OBVIOUS
<1> HIDE DEF d
<1>2. s \in PosRec BY DEF PosOK
<1>3. peak \in Price /\ peak >= s.peak /\ peak # None BY PeakFacts, PositionConstants, NoneFacts
<1>4. original \in 1..Bag BY <1>2 DEF PosRec
<1>5. streak \in 0..Needed BY <1>2, NeededFacts DEF PosRec
<1>6. reached \in SUBSET RungKeys BY RungFacts
<1>7. 0 \in 0..Needed BY NeededFacts
<1> HIDE DEF peak, original, peakMult, due, rung, sell, streak, reached, floor
<1>8. /\ armed \in PosRec /\ armed.trail /\ armed.peak = peak /\ armed.fired = s.fired
      /\ armed.stopStreak = s.stopStreak /\ armed.pnl = s.pnl /\ armed.trigger = s.trigger
  BY <1>2, <1>3, <1>4 DEF PosRec
<1> HIDE DEF armed
<1> DEFINE Like(q) == /\ PosOK(q) /\ q.stopStreak = s.stopStreak /\ q.pnl = s.pnl
                      /\ q.trigger = s.trigger /\ q.peak >= s.peak
<1>9. Like(armed) BY <1>3, <1>8 DEF PosOK
<1>10. ASSUME NEW q, q \in PosRec, q.trail = armed.trail, q.peak = armed.peak, q.pnl = armed.pnl,
              q.stopStreak = armed.stopStreak, q.trigger = armed.trigger
       PROVE  Like(q)
  BY <1>3, <1>8, <1>10 DEF PosOK
<1>11. ASSUME NEW q, Like(q), s.fired \subseteq q.fired, d.next = q,
              d.kind \in {"hold", "trail"}, d.sell \in 0..held
       PROVE  RestOK(s, d, held)
  BY <1>11 DEF RestOK
<1> HIDE DEF Like
<1>12. CASE d = Hold(armed)
  <2>1. d.kind = "hold" /\ d.sell = 0 /\ d.next = armed BY <1>12, DecisionFacts
  <2>2. QED BY <1>8, <1>9, <1>11, <2>1
<1>13. CASE s.fired = {} /\ d = Hold(first)
  <2>1. /\ first \in PosRec /\ first.trail = armed.trail /\ first.peak = armed.peak
        /\ first.pnl = armed.pnl /\ first.stopStreak = armed.stopStreak
        /\ first.trigger = armed.trigger
    BY <1>6, <1>7, <1>8 DEF PosRec
  <2> HIDE DEF first
  <2>2. Like(first) BY <1>10, <2>1
  <2>3. d.kind = "hold" /\ d.sell = 0 /\ d.next = first BY <1>13, DecisionFacts
  <2>4. QED BY <1>11, <1>13, <2>2, <2>3
<1>14. CASE sell > 0 /\ d = Decision("scale", sell, scaled)
  <2>1. due # {} BY <1>14 DEF sell
  <2>2. rung \in due BY <2>1, NextScaleFacts DEF rung, due
  <2>3. rung \in ScaleRungs /\ rung[1] \notin s.fired BY <2>2 DEF due, DueRungs
  <2>4. sell \in 0..held /\ sell < held /\ 100 * sell <= Bag * rung[2]
    BY <1>4, <2>1, <2>3, SliceFacts DEF sell
  <2>5. s.fired \union {rung[1]} \in SUBSET RungKeys BY <1>2, <2>3, RungFacts DEF PosRec
  <2>6. PICK fired \in SUBSET RungKeys : fired = s.fired \union {rung[1]} BY <2>5
  <2>7. scaled = [armed EXCEPT !.fired = fired, !.floorStreak = 0] BY <1>8, <2>6
  <2> HIDE DEF scaled
  <2>8. /\ scaled \in PosRec /\ scaled.trail = armed.trail /\ scaled.peak = armed.peak
        /\ scaled.pnl = armed.pnl /\ scaled.stopStreak = armed.stopStreak
        /\ scaled.trigger = armed.trigger /\ scaled.fired = fired
    BY <1>7, <1>8, <2>7 DEF PosRec
  <2>9. Like(scaled) BY <1>10, <2>8
  <2>10. d.kind = "scale" /\ d.sell = sell /\ d.next = scaled BY <1>14, DecisionFacts
  <2>11. \E r \in ScaleRungs : /\ r[1] \notin s.fired /\ d.next.fired = s.fired \union {r[1]}
                              /\ 100 * d.sell <= Bag * r[2]
    BY <2>3, <2>4, <2>6, <2>8, <2>10
  <2>12. QED BY <2>4, <2>9, <2>10, <2>11 DEF RestOK, Like
<1>15. CASE d = Hold(calm)
  <2>1. /\ calm \in PosRec /\ calm.trail = armed.trail /\ calm.peak = armed.peak
        /\ calm.pnl = armed.pnl /\ calm.stopStreak = armed.stopStreak
        /\ calm.trigger = armed.trigger /\ calm.fired = armed.fired
    BY <1>7, <1>8 DEF PosRec
  <2> HIDE DEF calm
  <2>2. Like(calm) BY <1>10, <2>1
  <2>3. d.kind = "hold" /\ d.sell = 0 /\ d.next = calm BY <1>15, DecisionFacts
  <2>4. QED BY <1>8, <1>11, <2>1, <2>2, <2>3
<1>16. CASE d = Hold(broken) \/ d = Decision("trail", held, broken)
  <2>1. /\ broken \in PosRec /\ broken.trail = armed.trail /\ broken.peak = armed.peak
        /\ broken.pnl = armed.pnl /\ broken.stopStreak = armed.stopStreak
        /\ broken.trigger = armed.trigger /\ broken.fired = armed.fired
    BY <1>5, <1>8 DEF PosRec
  <2> HIDE DEF broken
  <2>2. Like(broken) BY <1>10, <2>1
  <2>3. d.kind \in {"hold", "trail"} /\ d.sell \in 0..held /\ d.next = broken
    BY <1>16, DecisionFacts
  <2>4. QED BY <1>8, <1>11, <2>1, <2>2, <2>3
<1>17. QED BY <1>1, <1>12, <1>13, <1>14, <1>15, <1>16

LEMMA TakeProfitOK ==
    ASSUME policy \in PolicyRec, NEW s, PosOK(s), ~ s.trail, NEW price \in Price, NEW held \in 1..Bag
    PROVE  LET d == EvaluateTakeProfit(s, price, held)
           IN  RestOK(s, d, held) /\ (d.next.trail => policy.runs)
<1> DEFINE mult == Multiple(price, held)
           streak == Longer(s.tpStreak)
           original == IF s.original = None THEN held ELSE s.original
           reset == [s EXCEPT !.tpStreak = 0]
           confirmed == [s EXCEPT !.tpStreak = streak]
           arms == [confirmed EXCEPT !.trail = TRUE, !.peak = price, !.floorStreak = 0,
                                     !.tpStreak = 0, !.original = IF @ = None THEN held ELSE @]
           d == EvaluateTakeProfit(s, price, held)
           Like(q) == /\ PosOK(q) /\ q.stopStreak = s.stopStreak /\ q.pnl = s.pnl
                      /\ q.trigger = s.trigger /\ q.fired = s.fired
<1>1. d = IF policy.tp = None \/ mult = None \/ mult < policy.tp THEN Hold(reset)
          ELSE IF streak < Needed THEN Hold(confirmed)
          ELSE IF ~ policy.runs THEN Decision("profit", held, confirmed)
          ELSE Decision("arm", 0, arms)
  BY DEF EvaluateTakeProfit
<1> SUFFICES RestOK(s, d, held) /\ (d.next.trail => policy.runs) OBVIOUS
<1> HIDE DEF d, mult
<1>2. s \in PosRec /\ s.trail = FALSE /\ s.peak = None BY DEF PosOK, PosRec
<1>3. streak \in 0..Needed BY <1>2, NeededFacts DEF PosRec
<1>4. original \in 1..Bag BY <1>2 DEF PosRec
<1>5. 0 \in 0..Needed BY NeededFacts
<1> HIDE DEF streak
<1>6. Like(reset) /\ reset.trail = FALSE
  <2>1. /\ reset \in PosRec /\ reset.trail = s.trail /\ reset.peak = s.peak /\ reset.pnl = s.pnl
        /\ reset.stopStreak = s.stopStreak /\ reset.trigger = s.trigger /\ reset.fired = s.fired
    BY <1>2, <1>5 DEF PosRec
  <2>2. QED BY <1>2, <2>1 DEF PosOK
<1>7. Like(confirmed) /\ confirmed.trail = FALSE
  <2>1. /\ confirmed \in PosRec /\ confirmed.trail = s.trail /\ confirmed.peak = s.peak
        /\ confirmed.pnl = s.pnl /\ confirmed.stopStreak = s.stopStreak
        /\ confirmed.trigger = s.trigger /\ confirmed.fired = s.fired
    BY <1>2, <1>3 DEF PosRec
  <2>2. QED BY <1>2, <2>1 DEF PosOK
<1>8. Like(arms)
  <2>1. arms = [s EXCEPT !.trail = TRUE, !.peak = price, !.floorStreak = 0, !.tpStreak = 0,
                         !.original = original]
    BY <1>2 DEF PosRec
  <2> HIDE DEF arms, original
  <2>2. /\ arms \in PosRec /\ arms.trail = TRUE /\ arms.peak = price /\ arms.pnl = s.pnl
        /\ arms.stopStreak = s.stopStreak /\ arms.trigger = s.trigger /\ arms.fired = s.fired
    BY <1>2, <1>4, <1>5, <2>1 DEF PosRec
  <2>3. QED BY <2>2, ConstFacts DEF PosOK
<1> HIDE DEF reset, confirmed, arms
<1>9. ASSUME NEW q, Like(q), d.next = q, d.kind \in {"hold", "profit", "arm"}, d.sell \in 0..held
      PROVE  RestOK(s, d, held)
  BY <1>2, <1>9 DEF RestOK
<1> HIDE DEF Like
<1>10. CASE d = Hold(reset)
  <2>1. d.kind = "hold" /\ d.sell = 0 /\ d.next = reset BY <1>10, DecisionFacts
  <2>2. QED BY <1>6, <1>9, <2>1
<1>11. CASE d = Hold(confirmed) \/ d = Decision("profit", held, confirmed)
  <2>1. d.kind \in {"hold", "profit"} /\ d.sell \in 0..held /\ d.next = confirmed
    BY <1>11, DecisionFacts
  <2>2. QED BY <1>7, <1>9, <2>1
<1>12. CASE policy.runs /\ d = Decision("arm", 0, arms)
  <2>1. d.kind = "arm" /\ d.sell = 0 /\ d.next = arms BY <1>12, DecisionFacts
  <2>2. QED BY <1>8, <1>9, <1>12, <2>1
<1>13. QED BY <1>1, <1>10, <1>11, <1>12

LEMMA EvaluateRestOK ==
    ASSUME policy \in PolicyRec, NEW s, PosOK(s), NEW price \in Price, NEW held \in 1..Bag,
           NEW curve
    PROVE  RestOK(s, EvaluateRest(s, price, held, curve), held)
<1> DEFINE dropped == [s EXCEPT !.trail = FALSE, !.peak = None]
           rest == IF s.trail THEN dropped ELSE s
           d == EvaluateRest(s, price, held, curve)
<1>1. d = IF s.trail /\ policy.runs THEN EvaluateRunner(s, price, held)
          ELSE IF policy.runs /\ policy.hold /\ curve THEN Hold(rest)
          ELSE EvaluateTakeProfit(rest, price, held)
  BY DEF EvaluateRest
<1> SUFFICES RestOK(s, d, held) OBVIOUS
<1> HIDE DEF d
<1>2. CASE s.trail /\ policy.runs BY <1>1, <1>2, RunnerOK
<1>3. CASE ~(s.trail /\ policy.runs)
  <2>1. s \in PosRec BY DEF PosOK
  <2>2. /\ PosOK(rest) /\ ~ rest.trail /\ rest.stopStreak = s.stopStreak /\ rest.pnl = s.pnl
        /\ rest.trigger = s.trigger /\ rest.fired = s.fired
    <3>1. CASE s.trail
      <4>1. /\ dropped \in PosRec /\ dropped.trail = FALSE /\ dropped.peak = None
            /\ dropped.stopStreak = s.stopStreak /\ dropped.pnl = s.pnl
            /\ dropped.trigger = s.trigger /\ dropped.fired = s.fired
        BY <2>1 DEF PosRec
      <4>2. QED BY <3>1, <4>1 DEF PosOK
    <3>2. CASE ~ s.trail BY <3>2
    <3>3. QED BY <3>1, <3>2
  <2> HIDE DEF rest
  <2>3. CASE d = Hold(rest)
    <3>1. d.kind = "hold" /\ d.sell = 0 /\ d.next = rest BY <2>3, DecisionFacts
    <3>2. QED BY <2>2, <3>1 DEF RestOK
  <2>4. CASE d = EvaluateTakeProfit(rest, price, held)
    <3>1. RestOK(rest, d, held) /\ (d.next.trail => policy.runs) BY <2>2, <2>4, TakeProfitOK
    <3>2. ~(s.trail /\ d.next.trail) BY <1>3, <3>1
    <3>3. QED BY <2>2, <3>1, <3>2 DEF RestOK
  <2>5. QED BY <1>1, <1>3, <2>3, <2>4
<1>4. QED BY <1>2, <1>3

-----------------------------------------------------------------------------
(* A decision, and what was seen when it was made.                           *)

\* The edge detector, when nothing was noted or more was.
LEMMA EdgeKept ==
    ASSUME NEW s, NEW g \in SeenRec, NEW before \in Nat, EdgeSeen(s, g, before),
           NEW at \in Nat, at >= before, NEW q, q.pnl \in {s.pnl, "none"},
           q.trigger \in {s.trigger, None}
    PROVE  EdgeSeen(q, g, at)
<1>1. g.crossed \in Int BY DEF SeenRec, OptNat, None
<1>2. g.crossed <= at BY <1>1 DEF EdgeSeen
<1>3. QED BY <1>2 DEF EdgeSeen

\* What is noted of a quote.
LEMMA NotedFacts ==
    ASSUME NEW o \in CycRec, NEW g, g = o.seen, o.quote # None, ~(o.rug /\ policy.rug),
           Multiple(o.quote, o.held) # None
    PROVE  LET mult == Multiple(o.quote, o.held)
               stopping == stopLive /\ policy.stop # None /\ mult <= policy.stop
               off == ~ policy.dispose /\ ~ stopping
               h == Noted(o)
           IN  /\ h \in SeenRec /\ h.out = g.out
               /\ h.below = IF stopping THEN Longer(g.below) ELSE 0
               /\ h.red <=> ~ off /\ (g.red \/ PnlSign(mult) # "green")
               /\ h.crossed = IF off THEN None
                              ELSE IF g.red /\ PnlSign(mult) = "green" /\ g.crossed = None
                                   THEN o.slot ELSE g.crossed
<1> DEFINE mult == Multiple(o.quote, o.held)
           stopping == stopLive /\ policy.stop # None /\ mult <= policy.stop
           off == ~ policy.dispose /\ ~ stopping
           h == Noted(o)
           below == IF stopping THEN Longer(g.below) ELSE 0
           red == ~ off /\ (g.red \/ ~ (PnlSign(mult) = "green"))
           crossed == IF off THEN None
                      ELSE IF g.red /\ PnlSign(mult) = "green" /\ g.crossed = None
                           THEN o.slot ELSE g.crossed
<1>1. g \in SeenRec BY DEF CycRec
<1>2. h = [g EXCEPT !.below = below, !.red = red, !.crossed = crossed]
  BY <1>1 DEF Noted, SeenRec
<1>3. below \in 0..Needed BY <1>1, NeededFacts DEF SeenRec
<1>4. red \in BOOLEAN OBVIOUS
<1>5. crossed \in OptNat BY <1>1 DEF SeenRec, CycRec, OptNat
<1> HIDE DEF below, red, crossed, h
<1>6. h \in SeenRec /\ h.below = below /\ h.red = red /\ h.crossed = crossed /\ h.out = g.out
  BY <1>1, <1>2, <1>3, <1>4, <1>5 DEF SeenRec
<1>7. QED BY <1>6 DEF below, red, crossed, h

LEMMA EvaluateOK ==
    ASSUME policy \in PolicyRec, NEW o \in CycRec, NEW s, s = o.state, PosOK(s),
           NEW g, g = o.seen, g.below = s.stopStreak, policy.basis = "none" => g.below = 0,
           NEW at \in Nat, EdgeSeen(s, g, at), o.held > 0, o.slot \in {None, at}
    PROVE  DecidedOK(s, g.out, EvaluatePosition(s, o.rug, o.quote, o.held, o.slot, o.curve),
                     Noted(o), o, at)
<1> DEFINE d == EvaluatePosition(s, o.rug, o.quote, o.held, o.slot, o.curve)
           h == Noted(o)
           mult == Multiple(o.quote, o.held)
           streak == Longer(s.stopStreak)
           stopping == stopLive /\ policy.stop # None /\ mult <= policy.stop
           stopped == [s EXCEPT !.stopStreak = streak, !.tpStreak = 0]
           passed == [s EXCEPT !.stopStreak = 0]
           clear == [passed EXCEPT !.pnl = "none", !.trigger = None]
<1> SUFFICES DecidedOK(s, g.out, d, h, o, at) OBVIOUS
<1>1. d = IF o.rug /\ policy.rug THEN Decision("rug", o.held, s)
          ELSE IF o.quote = None THEN Hold(s)
          ELSE IF stopLive /\ policy.stop # None /\ mult # None /\ mult <= policy.stop
               THEN IF streak >= Needed THEN Decision("stop", o.held, stopped) ELSE Hold(stopped)
          ELSE IF policy.dispose
               THEN EvaluateDispose(passed, o.quote, o.held, o.slot, o.curve)
          ELSE EvaluateRest(clear, o.quote, o.held, o.curve)
  BY DEF EvaluatePosition
<1>2. /\ policy \in PolicyRec /\ s \in PosRec /\ PosOK(s) /\ g \in SeenRec
      /\ g.below = s.stopStreak /\ (policy.basis = "none" => g.below = 0)
      /\ EdgeSeen(s, g, at)
  BY DEF PosOK, CycRec
<1>3. o.held \in 1..Bag /\ o.held \in Nat BY ConstFacts DEF CycRec
<1>4. o.quote = None \/ o.quote \in Price BY DEF CycRec
<1>5. streak \in 0..Needed /\ streak >= 1 /\ Needed \in Nat /\ Needed >= 1 /\ 0 \in 0..Needed
  BY <1>2, NeededFacts DEF PosRec
<1>6. ASSUME o.quote # None PROVE IF policy.basis = "none" THEN mult = None ELSE mult \in Nat
  BY <1>2, <1>3, <1>4, <1>6, MultipleFacts, ConstFacts
<1>7. (h = g) \/ (o.quote # None /\ ~(o.rug /\ policy.rug) /\ mult # None)
  BY DEF Noted
<1> HIDE DEF d, mult, streak
<1>8. CASE (o.rug /\ policy.rug) \/ o.quote = None
  <2>1. h = g BY <1>7, <1>8
  <2>2. d = Decision("rug", o.held, s) \/ (o.quote = None /\ d = Hold(s)) BY <1>1, <1>8
  <2>3. d.next = s /\ d.sell \in 0..o.held /\ d.kind \in {"rug", "hold"}
        /\ (o.quote # None => d.kind = "rug")
    BY <1>3, <2>2, DecisionFacts
  <2>4. EdgeSeen(s, g, at) BY <1>2
  <2>5. s.trail => s.peak >= s.peak BY <1>2, ConstFacts DEF PosOK, PosRec
  <2>6. d.kind \in Kinds BY <2>3 DEF Kinds
  <2>7. h.below = d.next.stopStreak /\ (policy.basis = "none" => h.below = 0) BY <1>2, <2>1, <2>3
  <2> HIDE DEF h
  <2>8. QED BY <1>2, <2>1, <2>3, <2>4, <2>5, <2>6, <2>7 DEF DecidedOK
\* The stop was not hit: its streak is zero again.
<1>9. /\ passed \in PosRec /\ PosOK(passed) /\ passed.stopStreak = 0 /\ passed.pnl = s.pnl
      /\ passed.trigger = s.trigger /\ passed.fired = s.fired /\ passed.trail = s.trail
      /\ passed.peak = s.peak
  <2>1. /\ passed \in PosRec /\ passed.stopStreak = 0 /\ passed.pnl = s.pnl
        /\ passed.trigger = s.trigger /\ passed.fired = s.fired /\ passed.trail = s.trail
        /\ passed.peak = s.peak
    BY <1>2, <1>5 DEF PosRec
  <2>2. QED BY <1>2, <2>1 DEF PosOK
<1> HIDE DEF passed
<1>10. /\ clear \in PosRec /\ PosOK(clear) /\ clear.stopStreak = 0 /\ clear.pnl = "none"
       /\ clear.trigger = None /\ clear.fired = s.fired /\ clear.trail = s.trail
       /\ clear.peak = s.peak
  <2>1. /\ clear \in PosRec /\ clear.stopStreak = 0 /\ clear.pnl = "none"
        /\ clear.trigger = None /\ clear.fired = s.fired /\ clear.trail = s.trail
        /\ clear.peak = s.peak
    BY <1>9 DEF PosRec, OptNat
  <2>2. QED BY <1>9, <2>1 DEF PosOK
<1> HIDE DEF clear
\* The rest of the rules decide for a bag with the stop's streak at zero.
<1>11. ASSUME NEW q, PosOK(q), q.stopStreak = 0, q.fired = s.fired, q.trail = s.trail,
              q.peak = s.peak, RestOK(q, d, o.held), EdgeSeen(q, h, at),
              h \in SeenRec, h.out = g.out, h.below = 0
       PROVE  DecidedOK(s, g.out, d, h, o, at)
  <2>1. d.kind \in {"hold", "arm", "scale", "trail", "profit"} BY <1>11 DEF RestOK
  <2>2. d.kind \in Kinds /\ d.kind # "stop" /\ d.kind # "dispose" BY <2>1 DEF Kinds
  <2>3. EdgeSeen(d.next, h, at) BY <1>11 DEF RestOK, EdgeSeen
  <2>4. ~(h.below >= Needed) BY <1>5, <1>11
  <2> HIDE DEF h
  <2>5. QED BY <1>11, <2>2, <2>3, <2>4 DEF RestOK, DecidedOK
<1>12. CASE ~(o.rug /\ policy.rug) /\ o.quote # None /\ policy.basis = "none"
  <2>1. mult = None BY <1>6, <1>12
  <2>2. h = g BY <2>1, <1>7
  <2>3. h \in SeenRec /\ h.out = g.out /\ h.below = 0 BY <1>2, <1>12, <2>2
  <2>4. o.quote \in Price BY <1>4, <1>12
  <2>5. CASE policy.dispose
    <3>1. d = Hold(passed) BY <1>1, <1>12, <2>1, <2>5 DEF EvaluateDispose, mult
    <3>2. d.kind = "hold" /\ d.sell = 0 /\ d.next = passed BY <3>1, DecisionFacts
    <3>3. passed.trail => passed.peak >= passed.peak BY <1>9, ConstFacts DEF PosOK, PosRec
    <3>4. RestOK(passed, d, o.held) BY <1>3, <1>9, <3>2, <3>3 DEF RestOK
    <3>5. EdgeSeen(passed, h, at) BY <1>2, <1>9, <2>2, EdgeKept
    <3>6. QED BY <1>9, <1>11, <2>3, <3>4, <3>5
  <2>6. CASE ~ policy.dispose
    <3>1. d = EvaluateRest(clear, o.quote, o.held, o.curve) BY <1>1, <1>12, <2>1, <2>6
    <3>2. RestOK(clear, d, o.held) BY <1>2, <1>3, <1>10, <2>4, <3>1, EvaluateRestOK
    <3>3. EdgeSeen(clear, h, at) BY <1>2, <1>10, <2>2, EdgeKept
    <3>4. QED BY <1>10, <1>11, <2>3, <3>2, <3>3
  <2>7. QED BY <2>5, <2>6
<1>13. CASE ~(o.rug /\ policy.rug) /\ o.quote # None /\ policy.basis # "none"
  <2>1. mult \in Nat /\ mult # None BY <1>6, <1>13, NoneFacts
  <2>2. o.quote \in Price BY <1>4, <1>13
  <2> DEFINE off == ~ policy.dispose /\ ~ stopping
  <2>3. /\ h \in SeenRec /\ h.out = g.out
        /\ h.below = IF stopping THEN Longer(g.below) ELSE 0
        /\ h.red <=> ~ off /\ (g.red \/ PnlSign(mult) # "green")
        /\ h.crossed = IF off THEN None
                       ELSE IF g.red /\ PnlSign(mult) = "green" /\ g.crossed = None
                            THEN o.slot ELSE g.crossed
    BY <1>13, <2>1, NotedFacts DEF mult
  <2> HIDE DEF h
  <2>4. g.crossed \in Int /\ g.crossed <= at /\ (o.slot \in Int /\ o.slot <= at)
    <3>1. g.crossed \in OptNat BY <1>2 DEF SeenRec
    <3>2. g.crossed \in Int BY <3>1 DEF OptNat, None
    <3>3. QED BY <1>2, <3>2, NoneFacts DEF EdgeSeen
  <2>5. h.crossed <= at BY <2>3, <2>4, NoneFacts
  \* Without an instruction to dispose nothing of the edge is kept; with one, the
  \* crossing that was g stays.
  <2>6. ~ off => /\ (g.red => h.red)
                 /\ (g.crossed # None => h.crossed = g.crossed)
    BY <2>3
  <2>7. CASE stopping
    <3>1. d.next = stopped /\ d.sell \in 0..o.held
          /\ d.kind = IF streak >= Needed THEN "stop" ELSE "hold"
      BY <1>1, <1>3, <1>13, <2>1, <2>7, DecisionFacts
    <3>2. /\ stopped \in PosRec /\ stopped.stopStreak = streak /\ stopped.pnl = s.pnl
          /\ stopped.trigger = s.trigger /\ stopped.fired = s.fired
          /\ stopped.trail = s.trail /\ stopped.peak = s.peak
      BY <1>2, <1>5 DEF PosRec
    <3> HIDE DEF stopped
    <3>3. PosOK(stopped) BY <1>2, <3>2 DEF PosOK
    <3>4. h.below = streak BY <1>2, <2>3, <2>7 DEF streak
    <3>5. EdgeSeen(stopped, h, at) BY <1>2, <2>5, <2>6, <2>7, <3>2 DEF EdgeSeen
    <3>6. s.trail => s.peak >= s.peak BY <1>2, ConstFacts DEF PosOK, PosRec
    <3>7. d.kind \in Kinds /\ d.kind \notin {"scale", "dispose"} BY <3>1 DEF Kinds
    <3>8. d.kind = "stop" <=> h.below >= Needed BY <3>1, <3>4
    <3>9. QED BY <1>13, <2>3, <3>1, <3>2, <3>3, <3>4, <3>5, <3>6, <3>7, <3>8 DEF DecidedOK
  <2>8. CASE ~ stopping /\ ~ policy.dispose
    <3>1. d = EvaluateRest(clear, o.quote, o.held, o.curve) BY <1>1, <1>13, <2>8
    <3>2. RestOK(clear, d, o.held) BY <1>2, <1>3, <1>10, <2>2, <3>1, EvaluateRestOK
    <3>3. EdgeSeen(clear, h, at) BY <1>10, <2>5 DEF EdgeSeen
    <3>4. QED BY <1>10, <1>11, <2>3, <2>8, <3>2, <3>3
  <2>9. CASE ~ stopping /\ policy.dispose
    <3>1. d = EvaluateDispose(passed, o.quote, o.held, o.slot, o.curve) BY <1>1, <1>13, <2>9
    <3> DEFINE noted == [passed EXCEPT !.pnl = PnlSign(mult)]
               crossing == [noted EXCEPT !.trigger = o.slot]
    <3>2. d = IF o.slot = None THEN Hold(passed)
              ELSE IF passed.trigger # None
                   THEN IF o.slot >= passed.trigger + 1 THEN Decision("dispose", o.held, noted)
                        ELSE Hold(noted)
              ELSE IF Crosses(passed, mult) THEN Hold(crossing)
              ELSE EvaluateRest(noted, o.quote, o.held, o.curve)
      BY <2>1, <3>1 DEF EvaluateDispose, mult
    <3>3. PnlSign(mult) \in {"red", "green"} BY DEF PnlSign
    <3>4. /\ noted \in PosRec /\ noted.stopStreak = 0 /\ noted.pnl = PnlSign(mult)
          /\ noted.trigger = s.trigger /\ noted.fired = s.fired /\ noted.trail = s.trail
          /\ noted.peak = s.peak
      BY <1>9, <3>3 DEF PosRec
    <3>5. PosOK(noted) BY <1>9, <3>4 DEF PosOK
    <3> HIDE DEF noted
    <3>6. o.slot \in OptNat BY DEF CycRec
    <3>7. /\ crossing \in PosRec /\ crossing.stopStreak = 0 /\ crossing.pnl = PnlSign(mult)
          /\ crossing.trigger = o.slot /\ crossing.fired = s.fired /\ crossing.trail = s.trail
          /\ crossing.peak = s.peak
      BY <3>4, <3>6 DEF PosRec
    <3>8. PosOK(crossing) BY <3>5, <3>4, <3>7 DEF PosOK
    <3> HIDE DEF crossing
    <3>9. h.below = 0 BY <2>3, <2>9
    <3>10. s.trail => s.peak >= s.peak BY <1>2, ConstFacts DEF PosOK, PosRec
    <3>11. /\ (g.red => h.red) /\ (g.crossed # None => h.crossed = g.crossed)
      BY <2>6, <2>9
    <3>12. EdgeSeen(passed, h, at) BY <1>2, <1>9, <2>5, <3>11 DEF EdgeSeen
    <3>13. PnlSign(mult) = "red" => h.red BY <2>3, <2>9
    <3>14. EdgeSeen(noted, h, at) BY <1>2, <2>5, <3>4, <3>11, <3>13 DEF EdgeSeen
    <3>15. ASSUME NEW q, PosOK(q), q.stopStreak = 0, q.fired = s.fired, q.trail = s.trail,
                  q.peak = s.peak, EdgeSeen(q, h, at), d = Hold(q)
           PROVE  DecidedOK(s, g.out, d, h, o, at)
      <4>1. d.kind = "hold" /\ d.sell = 0 /\ d.next = q BY <3>15, DecisionFacts
      <4>2. RestOK(q, d, o.held) BY <1>3, <3>10, <3>15, <4>1 DEF RestOK
      <4>3. QED BY <1>11, <2>3, <3>9, <3>15, <4>2
    <3>16. CASE d = Hold(passed) BY <1>9, <3>12, <3>15, <3>16
    <3>17. CASE d = Hold(noted) BY <3>4, <3>5, <3>14, <3>15, <3>17
    <3>18. CASE o.slot # None /\ Crosses(passed, mult) /\ d = Hold(crossing)
      <4>1. s.pnl = "red" /\ PnlSign(mult) = "green" BY <1>9, <3>18 DEF Crosses
      <4>2. g.red BY <1>2, <4>1 DEF EdgeSeen
      <4>3. h.red /\ h.crossed # None /\ h.crossed <= o.slot
        BY <2>3, <2>4, <2>9, <3>11, <3>18, <4>1, <4>2, NoneFacts
      <4>4. EdgeSeen(crossing, h, at) BY <2>5, <3>7, <4>1, <4>3 DEF EdgeSeen
      <4>5. QED BY <3>7, <3>8, <3>15, <3>18, <4>4
    <3>19. CASE d = EvaluateRest(noted, o.quote, o.held, o.curve)
      <4>1. RestOK(noted, d, o.held) BY <1>2, <1>3, <2>2, <3>5, <3>19, EvaluateRestOK
      <4>2. QED BY <1>11, <2>3, <3>4, <3>5, <3>9, <3>14, <4>1
    <3>20. CASE /\ o.slot # None /\ passed.trigger # None /\ o.slot >= passed.trigger + 1
                /\ d = Decision("dispose", o.held, noted)
      <4>1. d.kind = "dispose" /\ d.sell = o.held /\ d.next = noted BY <3>20, DecisionFacts
      <4>2. s.trigger # None /\ s.trigger \in OptNat BY <1>2, <1>9, <3>20 DEF PosRec
      <4>3. s.trigger \in Nat BY <4>2 DEF OptNat
      <4>4. h.red /\ h.crossed # None /\ h.crossed = g.crossed /\ h.crossed <= s.trigger
        BY <1>2, <3>11, <4>2 DEF EdgeSeen
      <4>5. o.slot > h.crossed BY <1>9, <2>4, <3>20, <4>3, <4>4
      <4>6. ~(h.below >= Needed) BY <1>5, <3>9
      <4>7. d.kind \in Kinds /\ d.sell \in 0..o.held BY <1>3, <4>1 DEF Kinds
      <4>8. h \in SeenRec /\ h.out = g.out BY <2>3
      <4>9. QED BY <3>4, <3>5, <3>9, <3>10, <3>14, <4>1, <4>4, <4>5, <4>6, <4>7, <4>8 DEF DecidedOK
    <3>21. QED BY <1>9, <3>2, <3>16, <3>17, <3>18, <3>19, <3>20
  <2>10. QED BY <2>7, <2>8, <2>9
<1>14. QED BY <1>8, <1>12, <1>13

-----------------------------------------------------------------------------
(* engine.py: the cycle                                                      *)

LEMMA ShareFacts ==
    ASSUME NEW fired \in SUBSET RungKeys
    PROVE  /\ Share(fired) \in {0, 25, 30, 55}
           /\ \A g \in SUBSET RungKeys : fired \subseteq g => Share(fired) <= Share(g)
           /\ \A r \in ScaleRungs :
                 r[1] \notin fired => Share(fired \union {r[1]}) = Share(fired) + r[2]
BY RungFacts DEF Share

\* A bag's tokens times a share.
LEMMA ShareTimes ==
    ASSUME NEW m \in {0, 25, 30, 55}, NEW n \in {0, 25, 30, 55}
    PROVE  Bag * m \in Nat /\ (m <= n => Bag * m <= Bag * n) /\ Bag * m <= Bag * 55
BY ConstFacts

LEMMA OutCounted ==
    ASSUME PosInv
    PROVE  /\ pos.fired \in SUBSET RungKeys /\ seen.out \in Nat /\ Pending \in Nat
           /\ 100 * (seen.out + Pending) <= Bag * Share(pos.fired)
           /\ 100 * seen.out <= Bag * Share(pos.fired)
<1>1. pos.fired \in SUBSET RungKeys /\ seen.out \in Nat BY DEF PosInv, Typed, PosOK, PosRec, SeenRec
<1>2. cyc.sell \in Nat BY DEF PosInv, Typed, CycRec
<1>3. Pending \in Nat BY <1>2 DEF Pending
<1>4. Bag * Share(pos.fired) \in Nat BY <1>1, ShareFacts, ShareTimes
<1>5. 100 * (seen.out + Pending) <= Bag * Share(pos.fired) BY DEF PosInv, ScaleCounted
<1>6. QED BY <1>1, <1>3, <1>4, <1>5

\* What a decision does to the position, beside keeping the invariant.
Moved ==
    /\ pos.trail /\ pos'.trail => pos'.peak >= pos.peak
    /\ pc # "decided" /\ pc' = "decided" /\ cyc'.kind = "dispose"
          => seen'.red /\ seen'.crossed # None /\ cyc.slot > seen'.crossed

LEMMA RecordFacts ==
    /\ NoCycle \in CycRec /\ NoCycle.sell = 0 /\ NoCycle.held = 0 /\ NoCycle.kind = "hold"
    /\ NoCycle.slot = None /\ NoCycle.state = EmptyPos /\ NoCycle.seen = Unseen
    /\ Unseen \in SeenRec /\ Unseen.below = 0 /\ Unseen.out = 0 /\ Unseen.red = FALSE
    /\ Unseen.crossed = None
    /\ EmptyPos \in PosRec /\ PosOK(EmptyPos) /\ EmptyPos.stopStreak = 0 /\ EmptyPos.fired = {}
    /\ EmptyPos.trail = FALSE /\ EmptyPos.trigger = None /\ EmptyPos.pnl = "none"
    /\ NoBase \in BaseRec
<1>1. 0 \in 0..Needed /\ 0 \in 0..Bag BY NeededFacts, ConstFacts
<1>2. /\ Unseen \in SeenRec /\ Unseen.below = 0 /\ Unseen.out = 0 /\ Unseen.red = FALSE
      /\ Unseen.crossed = None
  BY <1>1 DEF Unseen, SeenRec, OptNat
<1>3. /\ EmptyPos \in PosRec /\ EmptyPos.stopStreak = 0 /\ EmptyPos.fired = {}
      /\ EmptyPos.trail = FALSE /\ EmptyPos.trigger = None /\ EmptyPos.peak = None
      /\ EmptyPos.pnl = "none"
  BY <1>1 DEF EmptyPos, PosRec, OptNat
<1>4. /\ NoCycle \in CycRec /\ NoCycle.sell = 0 /\ NoCycle.held = 0 /\ NoCycle.kind = "hold"
      /\ NoCycle.slot = None /\ NoCycle.state = EmptyPos /\ NoCycle.seen = Unseen
  BY <1>1, <1>2, <1>3 DEF NoCycle, CycRec, Kinds, OptNat
<1>5. NoBase \in BaseRec BY DEF NoBase, BaseRec
<1>6. QED BY <1>2, <1>3, <1>4, <1>5 DEF PosOK

\* The observation is complete: what is read is the file and the history of it.
LEMMA ReadPriorKeeps ==
    ASSUME PosInv, NEW o \in CycRec, o.held = amt, amt > 0, o.sell <= o.held, NEW rug \in BOOLEAN,
           NEW reserve \in Reserve \union {None}, ReadPrior(o, rug, reserve),
           NEW at \in Nat, slot' = at, at >= slot, o.slot \in {None, at}
    PROVE  PosInv' /\ Moved
<1>1. /\ pc' = "read" /\ UNCHANGED <<amt, policy, stopLive, pos, base, seen>>
      /\ cyc' = [o EXCEPT !.rug = rug, !.reserve = reserve, !.state = pos, !.seen = seen]
  BY DEF ReadPrior, store
<1>2. /\ amt \in 0..Bag /\ slot \in Nat /\ PosOK(pos) /\ pos \in PosRec /\ seen \in SeenRec
      /\ EdgeSeen(pos, seen, slot)
  BY DEF PosInv, Typed, PosOK
<1>3. /\ cyc' \in CycRec /\ cyc'.held = amt /\ cyc'.sell = o.sell /\ cyc'.slot = o.slot
      /\ cyc'.state = pos /\ cyc'.seen = seen
  BY <1>1, <1>2 DEF CycRec
<1>4. EdgeSeen(pos, seen, at)
  <2>1. pos.pnl \in {pos.pnl, "none"} /\ pos.trigger \in {pos.trigger, None} OBVIOUS
  <2>2. QED BY <1>2, <2>1, EdgeKept
<1>5. Typed'
  BY <1>1, <1>2, <1>3 DEF PosInv, Typed, PosOK, PosRec, BaseRec, CycRec, SeenRec
<1>6. StopCounted' BY <1>1 DEF PosInv, StopCounted, StopExact
<1>7. EdgeSeen(pos, seen, slot)' BY <1>1, <1>4 DEF EdgeSeen
<1>8. ScaleCounted'
  <2>1. 100 * (seen.out + 0) <= Bag * Share(pos.fired) BY OutCounted
  <2>2. Pending' = 0 BY <1>1 DEF Pending
  <2>3. QED BY <1>1, <2>1, <2>2 DEF ScaleCounted, Share
<1>9. Reading' BY <1>1, <1>3, <1>4 DEF Reading, EdgeSeen
<1>10. Deciding' BY <1>1 DEF Deciding
<1>11. Moved
  <2>1. pos.trail => pos.peak \in Int BY <1>2, ConstFacts DEF PosOK, PosRec
  <2>2. QED BY <1>1, <2>1 DEF Moved
<1>12. QED BY <1>5, <1>6, <1>7, <1>8, <1>9, <1>10, <1>11 DEF PosInv

\* What is decided on the copy is decided for the file: they differ in the edge.
LEMMA DecideKeeps == ASSUME PosInv, Decide PROVE PosInv' /\ Moved
<1> DEFINE s == cyc.state
           g == cyc.seen
           d == EvaluatePosition(s, cyc.rug, cyc.quote, cyc.held, cyc.slot, cyc.curve)
           h == Noted(cyc)
<1>1. /\ pc = "read" /\ pc' = "evaluated"
      /\ cyc' = [cyc EXCEPT !.kind = d.kind, !.sell = d.sell, !.state = d.next,
                            !.seen = h, !.rug = FALSE, !.curve = FALSE]
      /\ UNCHANGED <<slot, amt, policy, stopLive, pos, base, seen>>
  BY DEF Decide, store
<1>2. /\ cyc \in CycRec /\ PosOK(s) /\ slot \in Nat /\ cyc.held = amt /\ amt > 0
      /\ cyc.slot \in {None, slot} /\ policy \in PolicyRec /\ PosOK(pos) /\ seen \in SeenRec
      /\ seen.below = pos.stopStreak /\ (policy.basis = "none" => seen.below = 0)
  BY <1>1 DEF PosInv, Typed, StopCounted
<1>3. /\ s.stopStreak = pos.stopStreak /\ s.fired = pos.fired /\ s.trail = pos.trail
      /\ s.peak = pos.peak /\ g.below = seen.below /\ g.out = seen.out /\ EdgeSeen(s, g, slot)
  BY <1>1 DEF PosInv, Reading
<1>4. DecidedOK(s, g.out, d, h, cyc, slot)
  <2> HIDE DEF s, g
  <2>1. s = cyc.state /\ g = cyc.seen BY DEF s, g
  <2>2. QED BY <1>2, <1>3, <2>1, EvaluateOK
<1> HIDE DEF s, g, d, h
<1>5. DecidedOK(pos, seen.out, d, h, cyc, slot) BY <1>3, <1>4 DEF DecidedOK
<1>6. d.kind \in Kinds /\ d.sell \in 0..cyc.held /\ PosOK(d.next) /\ d.next \in PosRec /\ h \in SeenRec
  BY <1>5 DEF DecidedOK, PosOK
<1>7. d.sell \in 0..Bag /\ d.sell <= cyc.held BY <1>2, <1>6, ConstFacts DEF CycRec
<1>8. /\ cyc' \in CycRec /\ cyc'.kind = d.kind /\ cyc'.sell = d.sell /\ cyc'.held = cyc.held
      /\ cyc'.slot = cyc.slot /\ cyc'.quote = cyc.quote /\ cyc'.state = d.next /\ cyc'.seen = h
  BY <1>1, <1>2, <1>6, <1>7 DEF CycRec
<1>9. Typed'
  BY <1>1, <1>2, <1>6, <1>7, <1>8 DEF PosInv, Typed, PosOK, PosRec, BaseRec, CycRec, SeenRec
<1>10. StopCounted' BY <1>1 DEF PosInv, StopCounted, StopExact
<1>11. EdgeSeen(pos, seen, slot)' BY <1>1 DEF PosInv, EdgeSeen
<1>12. ScaleCounted'
  <2>1. 100 * (seen.out + 0) <= Bag * Share(pos.fired) BY OutCounted
  <2>2. Pending' = 0 BY <1>1 DEF Pending
  <2>3. QED BY <1>1, <2>1, <2>2 DEF ScaleCounted, Share
<1>13. Reading' BY <1>1 DEF Reading
<1>14. Deciding'
  <2> DEFINE e == Decision(cyc.kind, cyc.sell, cyc.state)
  <2>1. SUFFICES DecidedOK(pos, seen.out, e, cyc.seen, cyc, slot)' BY DEF Deciding
  <2>2. e'.kind = d.kind /\ e'.sell = d.sell /\ e'.next = d.next BY <1>8, DecisionFacts
  <2> HIDE DEF e
  <2>3. QED BY <1>1, <1>5, <1>8, <2>2 DEF DecidedOK, EdgeSeen
<1>15. Moved
  <2>1. pos.trail => pos.peak \in Int BY <1>2, ConstFacts DEF PosOK, PosRec
  <2>2. QED BY <1>1, <2>1 DEF Moved
<1>16. QED BY <1>9, <1>10, <1>11, <1>12, <1>13, <1>14, <1>15 DEF PosInv

\* The write brings the decision's own edge back, and the history of it.
LEMMA PersistKeeps == ASSUME PosInv, Persist PROVE PosInv' /\ Moved
<1> DEFINE d == Decision(cyc.kind, cyc.sell, cyc.state)
           h == cyc.seen
<1>1. /\ pc = "evaluated" /\ pc' = "decided" /\ pos' = cyc.state /\ seen' = h
      /\ cyc' = [cyc EXCEPT !.state = EmptyPos, !.seen = Unseen, !.slot = None]
      /\ UNCHANGED <<slot, amt, policy, stopLive, base>>
  BY DEF Persist
<1>2. DecidedOK(pos, seen.out, d, h, cyc, slot) BY <1>1 DEF PosInv, Deciding
<1>3. d.kind = cyc.kind /\ d.sell = cyc.sell /\ d.next = cyc.state BY DecisionFacts
<1>4. /\ cyc \in CycRec /\ h \in SeenRec /\ PosOK(cyc.state) /\ cyc.held = amt /\ amt > 0
      /\ cyc.sell \in Nat
  BY <1>1 DEF PosInv, Typed, CycRec
<1> HIDE DEF d, h
<1>5. /\ cyc' \in CycRec /\ cyc'.kind = d.kind /\ cyc'.sell = d.sell /\ cyc'.held = amt
      /\ cyc'.quote = cyc.quote /\ PosOK(cyc'.state)
  BY <1>1, <1>3, <1>4, RecordFacts DEF CycRec, OptNat
<1>6. Typed'
  BY <1>1, <1>3, <1>4, <1>5 DEF PosInv, Typed, PosOK, PosRec, BaseRec, CycRec, SeenRec
<1>7. StopCounted' BY <1>1, <1>2, <1>3, <1>5 DEF DecidedOK, StopCounted, StopExact
<1>8. EdgeSeen(pos, seen, slot)' BY <1>1, <1>2, <1>3 DEF DecidedOK, EdgeSeen
<1>9. ScaleCounted'
  <2>1. /\ pos.fired \in SUBSET RungKeys /\ seen.out \in Nat
        /\ 100 * seen.out <= Bag * Share(pos.fired) /\ h.out = seen.out
    BY <1>2, OutCounted DEF DecidedOK
  <2>2. d.next.fired \in SUBSET RungKeys BY <1>3, <1>4 DEF PosOK, PosRec
  <2>3. CASE d.kind = "scale"
    <3>1. PICK r \in ScaleRungs : /\ r[1] \notin pos.fired /\ d.next.fired = pos.fired \union {r[1]}
                                  /\ 100 * d.sell <= Bag * r[2]
      BY <1>2, <2>3 DEF DecidedOK
    <3>2. Share(d.next.fired) = Share(pos.fired) + r[2] BY <2>1, <3>1, ShareFacts
    <3>3. r[2] \in {25, 30} BY RungFacts
    <3>4. Bag * Share(d.next.fired) = Bag * Share(pos.fired) + Bag * r[2]
      BY <2>1, <3>2, <3>3, ShareFacts, ConstFacts
    <3>5. d.sell \in Nat /\ Bag * r[2] \in Nat /\ Bag * Share(pos.fired) \in Nat
      BY <1>3, <1>4, <2>1, <3>3, ShareFacts, ShareTimes
    <3>6. 100 * (h.out + d.sell) <= Bag * Share(d.next.fired) BY <2>1, <3>1, <3>4, <3>5
    <3>7. Pending' = d.sell BY <1>1, <1>5, <2>3 DEF Pending
    <3>8. d.sell < amt BY <1>2, <1>4, <2>3 DEF DecidedOK
    <3>9. 100 * (seen'.out + Pending') <= Bag * Share(pos'.fired) BY <1>1, <1>3, <3>6, <3>7
    <3>10. QED BY <1>1, <1>5, <3>8, <3>9 DEF ScaleCounted, Share
  <2>4. CASE d.kind # "scale"
    <3>1. pos.fired \subseteq d.next.fired BY <1>2, <2>4 DEF DecidedOK
    <3>2. Share(pos.fired) <= Share(d.next.fired) BY <2>1, <2>2, <3>1, ShareFacts
    <3>3. /\ Bag * Share(pos.fired) <= Bag * Share(d.next.fired)
          /\ Bag * Share(pos.fired) \in Nat /\ Bag * Share(d.next.fired) \in Nat
      BY <2>1, <2>2, <3>2, ShareFacts, ShareTimes
    <3>4. 100 * (h.out + 0) <= Bag * Share(d.next.fired) BY <2>1, <3>3
    <3>5. Pending' = 0 BY <1>1, <1>5, <2>4 DEF Pending
    <3>6. 100 * (seen'.out + Pending') <= Bag * Share(pos'.fired) BY <1>1, <1>3, <3>4, <3>5
    <3>7. QED BY <1>5, <2>4, <3>6 DEF ScaleCounted, Share
  <2>5. QED BY <2>3, <2>4
<1>10. Moved BY <1>1, <1>2, <1>3, <1>5 DEF DecidedOK, Moved
<1>11. Reading' /\ Deciding' BY <1>1 DEF Reading, Deciding
<1>12. QED BY <1>6, <1>7, <1>8, <1>9, <1>10, <1>11 DEF PosInv

\* A step that decides nothing. What it sells was marked as sold when it was decided.
LEMMA QuietKeeps ==
    ASSUME PosInv, Typed', policy'.basis = policy.basis,
           pos'.stopStreak = pos.stopStreak, pos'.fired = pos.fired, pos'.trail = pos.trail,
           pos'.peak = pos.peak, seen'.below = seen.below,
           pc' = "decided" => pc = "decided" /\ UNCHANGED <<cyc, amt>>,
           NEW sold \in {0, Pending}, seen'.out = seen.out + sold,
           sold = 0 \/ pc' # "decided", EdgeSeen(pos, seen, slot)',
           pc' \in {"read", "evaluated"} => sold = 0 /\ UNCHANGED <<pc, cyc, slot>>
    PROVE  PosInv' /\ Moved
<1>1. StopCounted' BY DEF PosInv, StopCounted, StopExact
<1>2. ScaleCounted'
  <2>1. /\ pos.fired \in SUBSET RungKeys /\ seen.out \in Nat /\ Pending \in Nat
        /\ 100 * (seen.out + Pending) <= Bag * Share(pos.fired)
        /\ 100 * seen.out <= Bag * Share(pos.fired)
    BY OutCounted
  <2>2. Bag * Share(pos.fired) \in Nat BY <2>1, ShareFacts, ShareTimes
  <2>3. Share(pos.fired)' = Share(pos.fired) BY DEF Share
  <2>4. CASE pc' = "decided"
    <3>1. Pending' = Pending BY <2>4 DEF Pending
    <3>2. seen'.out = seen.out BY <2>1, <2>4
    <3>3. QED BY <2>1, <2>3, <2>4, <3>1, <3>2 DEF PosInv, ScaleCounted
  <2>5. CASE pc' # "decided"
    <3>1. Pending' = 0 BY <2>5 DEF Pending
    <3>2. 100 * ((seen.out + sold) + 0) <= Bag * Share(pos.fired) BY <2>1, <2>2
    <3>3. QED BY <2>3, <2>5, <3>1, <3>2 DEF ScaleCounted
  <2>6. QED BY <2>4, <2>5
<1>3. Moved
  <2>1. pos.trail => pos.peak \in Int
    BY ConstFacts DEF PosInv, Typed, PosOK, PosRec
  <2>2. QED BY <2>1 DEF Moved
\* A copy in hand stays one of the file.
<1>4. pc' \in {"read", "evaluated"} => seen'.out = seen.out BY OutCounted
<1>5. Reading' BY <1>4 DEF PosInv, Reading, EdgeSeen
<1>6. Deciding'
  <2> DEFINE d == Decision(cyc.kind, cyc.sell, cyc.state)
  <2>1. SUFFICES ASSUME pc' = "evaluated"
                 PROVE  DecidedOK(pos, seen.out, d, cyc.seen, cyc, slot)'
    BY DEF Deciding
  <2>2. pc = "evaluated" /\ UNCHANGED <<cyc, slot>> /\ seen'.out = seen.out BY <1>4, <2>1
  <2>3. DecidedOK(pos, seen.out, d, cyc.seen, cyc, slot) BY <2>2 DEF PosInv, Deciding
  <2>4. d' = d BY <2>2 DEF Decision
  <2> HIDE DEF d
  <2>5. QED BY <2>2, <2>3, <2>4 DEF DecidedOK, EdgeSeen
<1>7. QED BY <1>1, <1>2, <1>3, <1>5, <1>6 DEF PosInv

LEMMA ObserveKeeps == ASSUME PosInv, Observe PROVE PosInv' /\ Moved
<1>1. PICK quote \in Price \union {None}, at \in (slot..MaxSlot) \union {None}, curve \in BOOLEAN,
           reserve \in {None} \union (IF mint.listed THEN Reserve ELSE {}),
           supply \in {None} \union (IF mint.listed THEN Supply ELSE {}) :
         LET o == [NoCycle EXCEPT !.held = amt, !.quote = quote, !.reserve = reserve,
                                  !.supply = supply, !.slot = at, !.curve = curve]
             rug == Assess(reserve, supply, quote)
         IN  /\ slot' = IF at = None THEN slot ELSE at
             /\ \/ rug # "drained" /\ ReadPrior(o, rug = "flood", reserve)
                \/ /\ rug = "drained"
                   /\ cyc' = o /\ pc' = "confirm"
                   /\ UNCHANGED <<mint, amt, policy, stopLive, store, seen, bounds>>
  BY DEF Observe
<1>2. pc = "idle" /\ amt > 0 BY DEF Observe
<1> DEFINE o == [NoCycle EXCEPT !.held = amt, !.quote = quote, !.reserve = reserve,
                                !.supply = supply, !.slot = at, !.curve = curve]
           rug == Assess(reserve, supply, quote)
           next == IF at = None THEN slot ELSE at
<1>3. amt \in 0..Bag /\ slot \in Nat BY DEF PosInv, Typed
<1>4. MaxSlot \in Nat BY PositionConstants
<1>5. next \in Nat /\ next >= slot /\ at \in OptNat /\ at \in {None, next}
  BY <1>3, <1>4, NoneFacts DEF OptNat
<1>6. reserve \in Reserve \union {None} /\ supply \in Supply \union {None} OBVIOUS
<1>7. o \in CycRec /\ o.held = amt /\ o.slot = at /\ o.sell = 0 /\ o.state = EmptyPos
  BY <1>3, <1>5, <1>6, RecordFacts DEF CycRec
<1>8. slot' = next BY <1>1
<1> HIDE DEF o, next
<1>9. CASE ReadPrior(o, rug = "flood", reserve)
  <2>1. (rug = "flood") \in BOOLEAN /\ o.sell <= o.held BY <1>2, <1>3, <1>7
  <2>2. QED BY <1>2, <1>5, <1>6, <1>7, <1>8, <1>9, <2>1, ReadPriorKeeps
<1>10. CASE cyc' = o /\ pc' = "confirm" /\ UNCHANGED <<mint, amt, policy, stopLive, store, seen, bounds>>
  <2>1. UNCHANGED <<amt, policy, stopLive, pos, base, seen>> BY <1>10 DEF store
  <2>2. Typed'
    BY <1>2, <1>3, <1>5, <1>7, <1>8, <1>10, <2>1, RecordFacts
       DEF PosInv, Typed, PosOK, PosRec, BaseRec, CycRec, SeenRec
  <2>3. EdgeSeen(pos, seen, slot)'
    <3>1. EdgeSeen(pos, seen, next)
      <4>1. pos.pnl \in {pos.pnl, "none"} /\ pos.trigger \in {pos.trigger, None} OBVIOUS
      <4>2. seen \in SeenRec /\ EdgeSeen(pos, seen, slot) BY DEF PosInv, Typed
      <4>3. QED BY <1>3, <1>5, <4>1, <4>2, EdgeKept
    <3>2. QED BY <1>8, <2>1, <3>1 DEF EdgeSeen
  <2>4. seen'.out = seen.out + 0 BY <2>1, OutCounted
  <2>5. QED BY <1>10, <2>1, <2>2, <2>3, <2>4, QuietKeeps
<1>11. QED BY <1>1, <1>9, <1>10 DEF o

LEMMA ConfirmRugKeeps == ASSUME PosInv, ConfirmRug PROVE PosInv' /\ Moved
<1>1. PICK reserve \in {None} \union Reserve :
         LET again == reserve # None /\ Assess(reserve, cyc.supply, cyc.quote) # "none"
         IN  ReadPrior(cyc, again, IF again THEN cyc.reserve ELSE None)
  BY DEF ConfirmRug
<1> DEFINE again == reserve # None /\ Assess(reserve, cyc.supply, cyc.quote) # "none"
<1>2. pc = "confirm" /\ slot' = slot BY DEF ConfirmRug
<1>3. /\ cyc \in CycRec /\ cyc.sell <= cyc.held /\ cyc.held = amt /\ amt > 0 /\ cyc.slot \in {None, slot} /\ slot \in Nat
  BY <1>2 DEF PosInv, Typed
<1>4. again \in BOOLEAN OBVIOUS
<1>5. (IF again THEN cyc.reserve ELSE None) \in Reserve \union {None} BY <1>3 DEF CycRec
<1>6. slot >= slot BY <1>3
<1>7. QED BY <1>1, <1>2, <1>3, <1>4, <1>5, <1>6, ReadPriorKeeps

\* set_dispose_policy resets the edge detector.
LEMMA ResetEdge ==
    ASSUME PosInv, NEW q, q = [pos EXCEPT !.pnl = "none", !.trigger = None]
    PROVE  /\ PosOK(q) /\ q.stopStreak = pos.stopStreak /\ q.fired = pos.fired
           /\ q.trail = pos.trail /\ q.peak = pos.peak /\ q.pnl = "none" /\ q.trigger = None
<1>1. pos \in PosRec /\ PosOK(pos) BY DEF PosInv, Typed, PosOK
<1>2. /\ q \in PosRec /\ q.stopStreak = pos.stopStreak /\ q.fired = pos.fired
      /\ q.trail = pos.trail /\ q.peak = pos.peak /\ q.pnl = "none" /\ q.trigger = None
  BY <1>1 DEF PosRec, OptNat
<1>3. QED BY <1>1, <1>2 DEF PosOK

LEMMA SetDisposeKeeps ==
    ASSUME PosInv, NEW enabled \in BOOLEAN, SetDisposePolicy(enabled),
           seen' = [seen EXCEPT !.red = FALSE, !.crossed = None]
    PROVE  /\ policy' \in PolicyRec /\ policy'.basis = policy.basis
           /\ PosOK(pos') /\ pos'.stopStreak = pos.stopStreak /\ pos'.fired = pos.fired
           /\ pos'.trail = pos.trail /\ pos'.peak = pos.peak
           /\ seen' \in SeenRec /\ seen'.below = seen.below /\ seen'.out = seen.out
           /\ \A at \in Nat : EdgeSeen(pos', seen', at)
<1>1. policy \in PolicyRec /\ seen \in SeenRec BY DEF PosInv, Typed
<1>2. policy' \in PolicyRec /\ policy'.basis = policy.basis
  BY <1>1 DEF SetDisposePolicy, PolicyRec
<1>3. /\ PosOK(pos') /\ pos'.stopStreak = pos.stopStreak /\ pos'.fired = pos.fired
      /\ pos'.trail = pos.trail /\ pos'.peak = pos.peak /\ pos'.pnl = "none" /\ pos'.trigger = None
  BY ResetEdge DEF SetDisposePolicy
<1>4. /\ seen' \in SeenRec /\ seen'.below = seen.below /\ seen'.out = seen.out /\ seen'.crossed = None
  BY <1>1 DEF SeenRec, OptNat
<1>5. \A at \in Nat : EdgeSeen(pos', seen', at) BY <1>3, <1>4, NoneFacts DEF EdgeSeen
<1>6. QED BY <1>2, <1>3, <1>4, <1>5

LEMMA ExecuteKeeps == ASSUME PosInv, Execute PROVE PosInv' /\ Moved
<1>1. /\ pc = "decided" /\ pc' = "record" /\ UNCHANGED <<slot, stopLive, base>>
      /\ cyc' = [NoCycle EXCEPT !.quote = cyc.quote, !.reserve = cyc.reserve,
                                !.supply = cyc.supply]
  BY DEF Execute
<1>2. /\ amt \in 0..Bag /\ slot \in Nat /\ policy \in PolicyRec /\ PosOK(pos) /\ seen \in SeenRec
      /\ cyc \in CycRec /\ stopLive \in BOOLEAN /\ base \in BaseRec
  BY DEF PosInv, Typed
<1>3. cyc' \in CycRec /\ cyc'.sell = 0 /\ cyc'.held = 0 /\ cyc'.state = EmptyPos
  BY <1>1, <1>2, RecordFacts DEF CycRec
<1>4. EdgeSeen(pos, seen, slot) BY DEF PosInv
<1>5. ASSUME amt' \in 0..Bag, policy' \in PolicyRec, PosOK(pos'), seen' \in SeenRec
      PROVE  Typed'
  BY <1>1, <1>2, <1>3, <1>5, RecordFacts
     DEF Typed, PosOK, PosRec, BaseRec, CycRec, SeenRec, RungKeys, ScaleRungs
<1>6. CASE UNCHANGED <<amt, policy, pos, seen>>
  <2>1. Typed' BY <1>2, <1>5, <1>6
  <2>2. EdgeSeen(pos, seen, slot)' BY <1>1, <1>4, <1>6 DEF EdgeSeen
  <2>3. seen'.out = seen.out + 0 BY <1>6, OutCounted
  <2>4. QED BY <1>1, <1>6, <2>1, <2>2, <2>3, QuietKeeps
<1>7. CASE pos' = [pos EXCEPT !.pnl = "none", !.trigger = None] /\ UNCHANGED <<amt, policy, seen>>
  <2>1. /\ PosOK(pos') /\ pos'.stopStreak = pos.stopStreak /\ pos'.fired = pos.fired
        /\ pos'.trail = pos.trail /\ pos'.peak = pos.peak /\ pos'.pnl = "none" /\ pos'.trigger = None
    BY <1>7, ResetEdge
  <2>2. Typed' BY <1>2, <1>5, <1>7, <2>1
  <2>3. EdgeSeen(pos, seen, slot)' BY <1>1, <1>4, <1>7, <2>1 DEF EdgeSeen
  <2>4. seen'.out = seen.out + 0 BY <1>7, OutCounted
  <2>5. QED BY <1>1, <1>7, <2>1, <2>2, <2>3, <2>4, QuietKeeps
<1>8. CASE Sold
  <2>1. amt' \in 0..Bag
    <3>1. amt \in Nat /\ cyc.sell \in Nat /\ Bag \in Nat /\ amt <= Bag
      BY <1>2, ConstFacts DEF CycRec
    <3>2. amt - cyc.sell \in Int BY <3>1
    <3>3. Max({0, amt - cyc.sell}) = IF 0 >= amt - cyc.sell THEN 0 ELSE amt - cyc.sell
      BY <3>2, MaxTwo
    <3>4. Max({0, amt - cyc.sell}) \in 0..Bag BY <3>1, <3>3
    <3>5. QED BY <1>8, <3>4 DEF Sold
  <2>2. CASE cyc.kind = "dispose"
    <3>1. SetDisposePolicy(FALSE) /\ seen' = [seen EXCEPT !.red = FALSE, !.crossed = None]
      BY <1>8, <2>2 DEF Sold
    <3>2. /\ policy' \in PolicyRec /\ policy'.basis = policy.basis
          /\ PosOK(pos') /\ pos'.stopStreak = pos.stopStreak /\ pos'.fired = pos.fired
          /\ pos'.trail = pos.trail /\ pos'.peak = pos.peak
          /\ seen' \in SeenRec /\ seen'.below = seen.below /\ seen'.out = seen.out
          /\ \A at \in Nat : EdgeSeen(pos', seen', at)
      BY <3>1, SetDisposeKeeps
    <3>3. Typed' BY <1>5, <2>1, <3>2
    <3>4. EdgeSeen(pos, seen, slot)' BY <1>1, <1>2, <3>2 DEF EdgeSeen
    <3>5. seen'.out = seen.out + 0 BY <3>2, OutCounted
    <3>6. QED BY <1>1, <3>2, <3>3, <3>4, <3>5, QuietKeeps
  <2>3. CASE cyc.kind # "dispose"
    <3>1. /\ seen' = [seen EXCEPT !.out = IF cyc.kind = "scale" THEN @ + cyc.sell ELSE @]
          /\ UNCHANGED <<policy, pos>>
      BY <1>8, <2>3 DEF Sold
    <3>2. Pending = (IF cyc.kind = "scale" THEN cyc.sell ELSE 0) /\ Pending \in Nat /\ seen.out \in Nat
      BY <1>1, OutCounted DEF Pending
    <3>3. PICK out \in Nat : out = seen.out + Pending BY <3>2
    <3>4. seen' = [seen EXCEPT !.out = out] BY <1>2, <3>1, <3>2, <3>3 DEF SeenRec
    <3>5. /\ seen' \in SeenRec /\ seen'.below = seen.below /\ seen'.out = out
          /\ seen'.red = seen.red /\ seen'.crossed = seen.crossed
      BY <1>2, <3>4 DEF SeenRec
    <3>6. Typed' BY <1>2, <1>5, <2>1, <3>1, <3>5
    <3>7. EdgeSeen(pos, seen, slot)' BY <1>1, <1>4, <3>1, <3>5 DEF EdgeSeen
    <3>8. QED BY <1>1, <3>1, <3>3, <3>5, <3>6, <3>7, QuietKeeps
  <2>4. QED BY <2>2, <2>3
<1>9. CASE NotSold BY <1>6, <1>9 DEF NotSold
<1>10. QED BY <1>6, <1>7, <1>8, <1>9 DEF Execute

LEMMA RecordKeeps == ASSUME PosInv, Record PROVE PosInv' /\ Moved
<1>1. /\ pc' = "idle" /\ cyc' = NoCycle
      /\ UNCHANGED <<slot, amt, policy, stopLive, pos, seen>>
  BY DEF Record
<1>2. base \in BaseRec /\ cyc \in CycRec BY DEF PosInv, Typed
<1>3. base' \in BaseRec BY <1>2 DEF Record, BaseRec, CycRec
<1>4. Typed' BY <1>1, <1>3, RecordFacts DEF PosInv, Typed, PosOK, PosRec, BaseRec, CycRec, SeenRec
<1>5. EdgeSeen(pos, seen, slot)' BY <1>1 DEF PosInv, EdgeSeen
<1>6. seen'.out = seen.out + 0 BY <1>1, OutCounted
<1>7. QED BY <1>1, <1>4, <1>5, <1>6, QuietKeeps

\* A retired bag leaves nothing to the next one.
LEMMA RetireKeeps == ASSUME PosInv, Retire PROVE PosInv' /\ Moved
<1>1. /\ pc = "idle" /\ pos' = EmptyPos /\ stopLive' \in BOOLEAN /\ seen' = Unseen
      /\ UNCHANGED <<slot, amt, policy, base, pc, cyc>>
  BY DEF Retire, Retired
<1>2. Typed' BY <1>1, RecordFacts DEF PosInv, Typed, PosOK, PosRec, BaseRec, CycRec, SeenRec
<1>3. StopCounted' BY <1>1, RecordFacts DEF StopCounted, StopExact
<1>4. slot \in Nat BY DEF PosInv, Typed
<1>5. EdgeSeen(pos, seen, slot)'
  BY <1>1, <1>4, RecordFacts, NoneFacts DEF EdgeSeen
<1>6. ScaleCounted'
  <2>1. Pending' = 0 BY <1>1 DEF Pending
  <2>2. Share({}) = 0 BY DEF Share
  <2>3. pos'.fired = {} /\ seen'.out = 0 BY <1>1, RecordFacts
  <2>4. 100 * (0 + 0) <= Bag * 0 BY ConstFacts
  <2>5. QED BY <1>1, <2>1, <2>2, <2>3, <2>4 DEF ScaleCounted, Share
<1>7. Moved BY <1>1, RecordFacts DEF Moved
<1>8. Reading' /\ Deciding' BY <1>1 DEF Reading, Deciding
<1>9. QED BY <1>2, <1>3, <1>5, <1>6, <1>7, <1>8 DEF PosInv

-----------------------------------------------------------------------------
(* What happens around the cycle.                                            *)

LEMMA AroundKeeps ==
    ASSUME PosInv, Buy \/ GraceOver \/ Edit \/ Crash \/ UNCHANGED vars
    PROVE  PosInv' /\ Moved
<1>1. /\ UNCHANGED <<slot, pos, base, seen>>
  BY DEF Buy, GraceOver, Edit, Crash, vars, store
<1>2. /\ amt' \in 0..Bag /\ stopLive' \in BOOLEAN
      /\ policy' \in PolicyRec /\ policy'.basis = policy.basis
  <2>1. amt \in 0..Bag /\ stopLive \in BOOLEAN /\ policy \in PolicyRec BY DEF PosInv, Typed
  <2>2. CASE Buy
    <3>1. Bag \in 0..Bag BY ConstFacts
    <3>2. QED BY <2>1, <2>2, <3>1 DEF Buy
  <2>3. CASE GraceOver BY <2>1, <2>3 DEF GraceOver
  <2>4. CASE Edit BY <2>1, <2>4 DEF Edit, PolicyRec
  <2>5. CASE Crash BY <2>1, <2>5 DEF Crash
  <2>6. CASE UNCHANGED vars BY <2>1, <2>6 DEF vars
  <2>7. QED BY <2>2, <2>3, <2>4, <2>5, <2>6
<1>3. \/ pc' = "idle" /\ cyc' \in {cyc, NoCycle}
      \/ UNCHANGED <<pc, cyc, amt>>
  BY DEF Buy, GraceOver, Edit, Crash, vars
<1>4. cyc' \in CycRec /\ cyc'.sell <= cyc'.held /\ PosOK(cyc'.state)
  <2>1. 0 <= 0 OBVIOUS
  <2>2. QED BY <1>3, <2>1, RecordFacts DEF PosInv, Typed
<1>5. Typed'
  BY <1>1, <1>2, <1>3, <1>4 DEF PosInv, Typed, PosOK, PosRec, BaseRec, CycRec, SeenRec
<1>6. EdgeSeen(pos, seen, slot)' BY <1>1 DEF PosInv, EdgeSeen
<1>7. seen'.out = seen.out + 0 BY <1>1, OutCounted
<1>8. pc' = "decided" => pc = "decided" /\ UNCHANGED <<cyc, amt>> BY <1>3
<1>9. pc' \in {"read", "evaluated"} => UNCHANGED <<pc, cyc, slot>> BY <1>1, <1>3
<1>10. QED BY <1>1, <1>2, <1>5, <1>6, <1>7, <1>8, <1>9, QuietKeeps

\* The command line, in the middle of a cycle too.
LEMMA DisposeCliKeeps == ASSUME PosInv, DisposeCli PROVE PosInv' /\ Moved
<1>1. PICK enabled \in BOOLEAN : SetDisposePolicy(enabled) BY DEF DisposeCli
<1>2. /\ seen' = [seen EXCEPT !.red = FALSE, !.crossed = None]
      /\ UNCHANGED <<slot, amt, stopLive, base, pc, cyc>>
  BY DEF DisposeCli
<1>3. /\ policy' \in PolicyRec /\ policy'.basis = policy.basis
      /\ PosOK(pos') /\ pos'.stopStreak = pos.stopStreak /\ pos'.fired = pos.fired
      /\ pos'.trail = pos.trail /\ pos'.peak = pos.peak
      /\ seen' \in SeenRec /\ seen'.below = seen.below /\ seen'.out = seen.out
      /\ \A at \in Nat : EdgeSeen(pos', seen', at)
  BY <1>1, <1>2, SetDisposeKeeps
<1>4. Typed' BY <1>2, <1>3 DEF PosInv, Typed, PosOK, PosRec, BaseRec, CycRec, SeenRec
<1>5. EdgeSeen(pos, seen, slot)' BY <1>2, <1>3 DEF PosInv, Typed, EdgeSeen
<1>6. seen'.out = seen.out + 0 BY <1>3, OutCounted
<1>7. QED BY <1>2, <1>3, <1>4, <1>5, <1>6, QuietKeeps

-----------------------------------------------------------------------------
(* The lock-in floor.                                                        *)

LEMMA Times ==
    ASSUME NEW a \in Nat, NEW t \in Nat, t <= 20, t >= 1
    PROVE  a * t \in Nat /\ a * t <= 20 * a /\ a * t >= a
<1>1. a * (20 - t) \in Nat /\ a * (t - 1) \in Nat
  <2>1. 20 - t \in Nat /\ t - 1 \in Nat OBVIOUS
  <2>2. QED BY <2>1
<1>2. a * (20 - t) = 20 * a - a * t /\ a * (t - 1) = a * t - a OBVIOUS
<1>3. a * t \in Nat OBVIOUS
<1>4. QED BY <1>1, <1>2, <1>3

Earned(peak) == {r \in LockRungs : peak >= r[1]}
TopFloor(peak) == Max({r[2] : r \in Earned(peak)})

TableFloors == {120, 155, 220, 320, 500, 800, 1200}

\* A non-empty set of floors of the table has a highest one.
LEMMA TopOfTable ==
    ASSUME NEW S \in SUBSET TableFloors, S # {}
    PROVE  \E x \in S : \A y \in S : x >= y
<1>1. CASE 1200 \in S
  <2>1. S \subseteq {120, 155, 220, 320, 500, 800, 1200} BY <1>1 DEF TableFloors
  <2>2. \A y \in S : 1200 >= y BY <2>1
  <2>3. QED BY <1>1, <2>2
<1>2. CASE 800 \in S /\ 1200 \notin S
  <2>1. S \subseteq {120, 155, 220, 320, 500, 800} BY <1>2 DEF TableFloors
  <2>2. \A y \in S : 800 >= y BY <2>1
  <2>3. QED BY <1>2, <2>2
<1>3. CASE 500 \in S /\ 1200 \notin S /\ 800 \notin S
  <2>1. S \subseteq {120, 155, 220, 320, 500} BY <1>3 DEF TableFloors
  <2>2. \A y \in S : 500 >= y BY <2>1
  <2>3. QED BY <1>3, <2>2
<1>4. CASE 320 \in S /\ 1200 \notin S /\ 800 \notin S /\ 500 \notin S
  <2>1. S \subseteq {120, 155, 220, 320} BY <1>4 DEF TableFloors
  <2>2. \A y \in S : 320 >= y BY <2>1
  <2>3. QED BY <1>4, <2>2
<1>5. CASE 220 \in S /\ 1200 \notin S /\ 800 \notin S /\ 500 \notin S /\ 320 \notin S
  <2>1. S \subseteq {120, 155, 220} BY <1>5 DEF TableFloors
  <2>2. \A y \in S : 220 >= y BY <2>1
  <2>3. QED BY <1>5, <2>2
<1>6. CASE 155 \in S /\ 1200 \notin S /\ 800 \notin S /\ 500 \notin S /\ 320 \notin S /\ 220 \notin S
  <2>1. S \subseteq {120, 155} BY <1>6 DEF TableFloors
  <2>2. \A y \in S : 155 >= y BY <2>1
  <2>3. QED BY <1>6, <2>2
<1>7. CASE 120 \in S /\ 1200 \notin S /\ 800 \notin S /\ 500 \notin S /\ 320 \notin S /\ 220 \notin S /\ 155 \notin S
  <2>1. S \subseteq {120} BY <1>7 DEF TableFloors
  <2>2. \A y \in S : 120 >= y BY <2>1
  <2>3. QED BY <1>7, <2>2
<1>8. PICK z : z \in S OBVIOUS
<1>9. z \in TableFloors BY <1>8
<1>10. z = 120 \/ z = 155 \/ z = 220 \/ z = 320 \/ z = 500 \/ z = 800 \/ z = 1200
  BY <1>9 DEF TableFloors
<1>11. 120 \in S \/ 155 \in S \/ 220 \in S \/ 320 \in S \/ 500 \in S \/ 800 \in S \/ 1200 \in S
  BY <1>8, <1>10
<1>12. QED BY <1>11, <1>1, <1>2, <1>3, <1>4, <1>5, <1>6, <1>7

\* The highest floor earned is one of the table, well under the peak.
LEMMA TopFloorFacts ==
    ASSUME NEW p \in Nat, Earned(p) # {}
    PROVE  /\ TopFloor(p) \in Nat /\ TopFloor(p) >= 120 /\ TopFloor(p) + 60 <= p
           /\ \A r \in Earned(p) : r[2] <= TopFloor(p)
<1> DEFINE S == {r[2] : r \in Earned(p)}
<1>1. S \in SUBSET TableFloors BY DEF Earned, LockRungs, TableFloors
<1>2. S # {} OBVIOUS
<1>3. \A r \in LockRungs : r[1] \in Nat /\ r[2] \in Nat /\ r[2] >= 120 /\ r[2] + 60 <= r[1]
  BY DEF LockRungs
<1>4. \E x \in S : \A y \in S : x >= y
  <2> HIDE DEF S
  <2>1. QED BY <1>1, <1>2, TopOfTable
<1>5. TopFloor(p) \in S /\ \A y \in S : TopFloor(p) >= y BY <1>4 DEF TopFloor, Max
<1>6. PICK r \in Earned(p) : TopFloor(p) = r[2] BY <1>5
<1>7. r \in LockRungs /\ p >= r[1] BY DEF Earned
<1>8. TopFloor(p) \in Nat /\ TopFloor(p) >= 120 /\ TopFloor(p) + 60 <= p BY <1>3, <1>6, <1>7
<1>9. \A q \in Earned(p) : q[2] \in S /\ q[2] \in Nat BY <1>3 DEF Earned
<1> HIDE DEF S
<1>10. QED BY <1>5, <1>8, <1>9

\* A peak that has earned a floor: where it is.
LEMMA FloorFacts ==
    ASSUME Tightness <= 20, NEW p \in Nat, Earned(p) # {}
    PROVE  /\ LockFloor(p) = p - ((p - TopFloor(p)) * Tightness) \div 20
           /\ LockFloor(p) \in Nat
<1> DEFINE f == TopFloor(p)
           x == (p - f) * Tightness
           moved == p - (x \div 20)
<1>1. f \in Nat /\ f >= 120 /\ f + 60 <= p BY TopFloorFacts
<1>2. Tightness \in Nat /\ Tightness >= 1 BY PositionConstants
<1> HIDE DEF f
<1>3. p - f \in Nat /\ p - f >= 60 BY <1>1
<1>4. x \in Nat /\ x <= 20 * (p - f) /\ x >= p - f BY <1>2, <1>3, Times
<1> HIDE DEF x
<1>5. x \div 20 \in Nat /\ x \div 20 >= 3 /\ x \div 20 <= p - f BY <1>3, <1>4
<1>6. moved \in Nat /\ moved < p /\ moved >= 120 BY <1>1, <1>3, <1>5
<1>7. Max({MinFloor, moved}) = moved BY <1>6, MaxTwo DEF MinFloor
<1>8. LockFloor(p) = LET adjusted == Max({MinFloor, IF moved >= p THEN f ELSE moved})
                     IN  IF Earned(p) = {} \/ adjusted >= p THEN None ELSE adjusted
  BY DEF LockFloor, Earned, TopFloor, f, x
<1> HIDE DEF moved
<1>9. LockFloor(p) = moved BY <1>6, <1>7, <1>8
<1>10. QED BY <1>6, <1>9 DEF moved, x, f

\* A higher peak has no lower floor.
LEMMA FloorUp ==
    ASSUME Tightness <= 20, NEW p \in Nat, NEW q \in Nat, p <= q
    PROVE  LockFloor(q) >= LockFloor(p)
<1>1. \A r \in LockRungs : r[1] \in Nat BY DEF LockRungs
<1>2. Earned(p) \subseteq Earned(q) BY <1>1 DEF Earned
<1>3. CASE Earned(p) = {}
  <2>1. LockFloor(p) = None BY <1>3 DEF LockFloor, Earned
  <2>2. LockFloor(q) = None \/ LockFloor(q) \in Nat
    <3>1. CASE Earned(q) = {} BY <3>1 DEF LockFloor, Earned
    <3>2. CASE Earned(q) # {} BY <3>2, FloorFacts
    <3>3. QED BY <3>1, <3>2
  <2>3. QED BY <2>1, <2>2, NoneFacts
<1>4. CASE Earned(p) # {}
  <2> DEFINE f == TopFloor(p)
             g == TopFloor(q)
             x == (p - f) * Tightness
             y == (q - g) * Tightness
  <2>1. Earned(q) # {} BY <1>2, <1>4
  <2>2. f \in Nat /\ f + 60 <= p BY <1>4, TopFloorFacts
  <2>3. g \in Nat /\ g + 60 <= q /\ \A r \in Earned(q) : r[2] <= g BY <2>1, TopFloorFacts
  <2>4. f <= g
    <3>1. \E r \in Earned(p) : f = r[2]
      <4>1. {r[2] : r \in Earned(p)} \in SUBSET TableFloors
        BY DEF Earned, LockRungs, TableFloors
      <4>2. PICK S : S = {r[2] : r \in Earned(p)} OBVIOUS
      <4>3. S # {} BY <1>4, <4>2
      <4>4. \E u \in S : \A v \in S : u >= v
        <5>1. S \in SUBSET TableFloors BY <4>1, <4>2
        <5>2. QED BY <4>3, <5>1, TopOfTable
      <4>5. f \in S BY <4>2, <4>4 DEF TopFloor, Max
      <4>6. QED BY <4>2, <4>5
    <3>2. QED BY <1>2, <2>3, <3>1
  <2>5. Tightness \in Nat /\ Tightness >= 1 BY PositionConstants
  <2>6. LockFloor(p) = p - (x \div 20) /\ LockFloor(q) = q - (y \div 20) BY <1>4, <2>1, FloorFacts
  <2> HIDE DEF f, g
  <2>7. y <= x + 20 * (q - p) /\ x \in Nat /\ y \in Nat
    <3>1. p - f \in Nat /\ q - g \in Nat /\ q - p \in Nat /\ g - f \in Nat BY <2>2, <2>3, <2>4
    <3>2. (q - p) * Tightness <= 20 * (q - p) /\ (q - p) * Tightness \in Nat BY <2>5, <3>1, Times
    <3>3. (g - f) * Tightness \in Nat BY <2>5, <3>1
    <3>4. y = (p - f) * Tightness + (q - p) * Tightness - (g - f) * Tightness
      BY <2>2, <2>3, <2>5
    <3>5. x \in Nat /\ y \in Nat BY <2>5, <3>1
    <3>6. QED BY <3>1, <3>2, <3>3, <3>4, <3>5
  <2> HIDE DEF x, y
  <2>8. (y \div 20) <= (x \div 20) + (q - p) BY <2>7
  <2>9. (x \div 20) \in Int /\ (y \div 20) \in Int BY <2>7
  <2>10. QED BY <2>6, <2>8, <2>9
<1>5. QED BY <1>3, <1>4

-----------------------------------------------------------------------------
(* The invariant holds, and what it says.                                    *)

LEMMA PosInvInit == Init => PosInv
<1> SUFFICES ASSUME Init PROVE PosInv OBVIOUS
<1>1. PICK m \in Mints : policy = m.policy BY DEF Init
<1>2. policy \in PolicyRec BY <1>1, PositionConstants
<1>3. /\ slot = 0 /\ amt = Bag /\ stopLive = TRUE /\ pos \in {EmptyPos, OldTrail} /\ base = NoBase
      /\ pc = "idle" /\ cyc = NoCycle /\ seen = Unseen
  BY DEF Init
<1>4. /\ PosOK(pos) /\ pos.stopStreak = 0 /\ pos.fired = {} /\ pos.trigger = None /\ pos.pnl = "none"
  <2>1. Max(Price) \in Price
    <3>1. \E top \in Price : \A price \in Price : price <= top BY PositionConstants
    <3>2. \E top \in Price : \A price \in Price : top >= price BY <3>1, ConstFacts
    <3>3. QED BY <3>2 DEF Max
  <2>2. PICK top \in Price : top = Max(Price) BY <2>1
  <2>3. OldTrail = [EmptyPos EXCEPT !.trail = TRUE, !.peak = top] BY <2>2 DEF OldTrail
  <2>4. /\ OldTrail \in PosRec /\ OldTrail.trail = TRUE /\ OldTrail.peak = top
        /\ OldTrail.stopStreak = 0 /\ OldTrail.fired = {} /\ OldTrail.trigger = None
        /\ OldTrail.pnl = "none"
    BY <2>3, RecordFacts DEF PosRec
  <2>5. PosOK(OldTrail) BY <2>4, ConstFacts DEF PosOK
  <2>6. QED BY <1>3, <2>4, <2>5, RecordFacts
<1>5. Typed
  <2>1. Bag \in 0..Bag /\ 0 <= 0 /\ 0 \in Nat BY ConstFacts
  <2>2. QED BY <1>2, <1>3, <1>4, <2>1, RecordFacts DEF Typed
<1>6. StopCounted BY <1>3, <1>4, RecordFacts DEF StopCounted, StopExact
<1>7. EdgeSeen(pos, seen, slot) BY <1>3, <1>4, RecordFacts, NoneFacts DEF EdgeSeen
<1>8. ScaleCounted
  <2>1. Pending = 0 /\ seen.out = 0 /\ pos.fired = {} BY <1>3, <1>4, RecordFacts DEF Pending
  <2>2. Share(pos.fired) = 0 BY <2>1 DEF Share
  <2>3. 100 * (0 + 0) <= Bag * 0 BY ConstFacts
  <2>4. QED BY <1>3, <2>1, <2>2, <2>3 DEF ScaleCounted
<1>9. Reading /\ Deciding BY <1>3 DEF Reading, Deciding
<1>10. QED BY <1>5, <1>6, <1>7, <1>8, <1>9 DEF PosInv

LEMMA PosInvKept == PosInv /\ [Next]_vars => PosInv' /\ Moved
BY ObserveKeeps, ConfirmRugKeeps, DecideKeeps, PersistKeeps, ExecuteKeeps, RecordKeeps,
   RetireKeeps, AroundKeeps, DisposeCliKeeps
   DEF Next, Cycle

LEMMA PosInvHolds == Spec => []PosInv
<1>1. PosInv /\ [Next]_vars => PosInv' BY PosInvKept
<1>2. QED BY <1>1, PosInvInit, PTL DEF Spec

\* Every variable has its type, streaks never pass the number of quotes needed, a
\* bag that trails has a peak and no sale is larger than its holding.
THEOREM PositionTypes == Spec => []PositionTypeOK
<1>1. PosInv => PositionTypeOK
  <2> SUFFICES ASSUME PosInv PROVE PositionTypeOK OBVIOUS
  <2>1. cyc.sell \in 0..cyc.held BY DEF PosInv, Typed, CycRec
  <2>2. QED BY <2>1 DEF PosInv, Typed, PositionTypeOK, PosOK, PosRec, BaseRec, RungKeys
<1>2. QED BY <1>1, PosInvHolds, PTL

\* A stop sells exactly when the last Confirm quotes of the bag were all at or
\* under it, whatever was refused, edited or cut short in between.
THEOREM StopIsExact == Spec => []StopExact
<1>1. PosInv => StopExact BY DEF PosInv, StopCounted
<1>2. QED BY <1>1, PosInvHolds, PTL

\* The scale-outs of one bag sell no more than 55 percent of it, each rung once,
\* and leave a token.
THEOREM ScaleOutsAreBounded == Spec => []ScaleOutsBounded
<1>1. PosInv => ScaleOutsBounded
  <2> SUFFICES ASSUME PosInv PROVE ScaleOutsBounded OBVIOUS
  <2>1. /\ pos.fired \in SUBSET RungKeys /\ seen.out \in Nat
        /\ 100 * seen.out <= Bag * Share(pos.fired)
    BY OutCounted
  <2>2. Bag * Share(pos.fired) <= Bag * 55 /\ Bag * Share(pos.fired) \in Nat /\ Bag * 55 \in Nat
    BY <2>1, ShareFacts, ShareTimes
  <2>3. 100 * seen.out <= Bag * 55 BY <2>1, <2>2
  <2>4. QED BY <2>3, ShareSum DEF PosInv, ScaleCounted, ScaleOutsBounded
<1>2. QED BY <1>1, PosInvHolds, PTL

\* A disposal is decided only at a confirmed slot after the one where the bag was
\* seen to cross break-even, and after the instruction was last given, short of one
\* whose reset a cycle overwrites that read the state before it and writes it after.
THEOREM DisposalsFollowCrossings == Spec => DisposeAfterCrossing
<1>1. PosInv /\ [Next]_vars =>
        [pc # "decided" /\ pc' = "decided" /\ cyc'.kind = "dispose"
             => seen'.red /\ seen'.crossed # None /\ cyc.slot > seen'.crossed]_vars
  BY PosInvKept DEF Moved
<1>2. QED BY <1>1, PosInvHolds, PTL DEF Spec, DisposeAfterCrossing

\* At the canonical tightness and every tighter one the floor of an armed bag
\* never comes down.
THEOREM FloorsRatchet ==
    ASSUME Tightness <= 20 PROVE Spec => FloorRatchets
<1>1. ASSUME PosInv, PosInv', Moved, pos.trail, pos'.trail
      PROVE  LockFloor(pos'.peak) >= LockFloor(pos.peak)
  <2>1. pos.peak \in Nat BY <1>1, ConstFacts DEF PosInv, Typed, PosOK, PosRec
  <2>2. pos'.peak \in Nat BY <1>1, ConstFacts DEF PosInv, Typed, PosOK, PosRec
  <2>3. pos.peak <= pos'.peak BY <1>1, <2>1, <2>2 DEF Moved
  <2>4. QED BY <2>1, <2>2, <2>3, FloorUp
<1>2. PosInv /\ [Next]_vars =>
        [pos.trail /\ pos'.trail /\ policy.basis = "unit"
             => LockFloor(pos'.peak) >= LockFloor(pos.peak)]_vars
  BY <1>1, PosInvKept
<1>3. QED BY <1>2, PosInvHolds, PTL DEF Spec, FloorRatchets

=============================================================================
