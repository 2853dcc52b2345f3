-------------------------- MODULE LotPoliciesProofs --------------------------
(***************************************************************************)
(* For every number of bags, edits and crashes: the types of LotPolicies,   *)
(* that a rebuy inherits no trailing peak, no cost basis and no default     *)
(* rule, and that the sentinel leaves an operator's rule alone.             *)
(***************************************************************************)
EXTENDS LotPolicies, TLAPS

RetirePcs == {"known", "wipeKnown", "listed", "wipeListed"}
HeldPcs == {"inspect", "observe", "decide"}

\* No lot of the bag the wallet holds is retired.
GoneIsSold == gone <= bag /\ (held => gone < bag)
\* A cycle that retires saw the wallet without the bag it knows; a purchase
\* since then has a new number.
AbsenceIsOld == pc \in RetirePcs => cyc.bag <= bag /\ (held => cyc.bag < bag)
\* A cycle that inspects saw a bag that is not retired.
SeenIsAlive == pc \in HeldPcs => gone < cyc.bag
\* The stored peak is of a bag that is not retired, or is being wiped.
PeakIsAlive ==
    \/ pc \in {"wipeKnown", "wipeListed"}
    \/ "wipe" \in lost
    \/ trail = 0
    \/ trail > gone

\* The inductive invariant of the lot's runtime state.
PeakInv ==
    /\ LotTypeOK
    /\ GoneIsSold
    /\ AbsenceIsOld
    /\ SeenIsAlive
    /\ PeakIsAlive

-----------------------------------------------------------------------------
(* Types of the constants and of what the helpers return.                   *)

LEMMA ConstantTypes ==
    /\ NoBasis \in Bases
    /\ NoPolicy \in Policies
    /\ EmptyLot \in Lots
    /\ NoCycle \in Cycles
    /\ 0 \in 0..MaxBags /\ 0 \in 0..MaxEdits
<1>1. MaxBags \in Nat /\ MaxEdits \in Nat /\ MaxCrashes \in Nat
  BY LotBounds
<1>2. 0 \in Bags /\ 0 \in 0..MaxBags /\ 0 \in 0..MaxEdits
  BY <1>1 DEF Bags
<1>3. NoBasis \in Bases
  BY <1>2 DEF NoBasis, Bases
<1>4. NoPolicy \in Policies
  BY <1>2, <1>3 DEF NoPolicy, Policies
<1>5. EmptyLot \in Lots
  BY DEF EmptyLot, NoCycle, Lots
<1>6. NoCycle \in Cycles
  BY <1>2, <1>3, <1>4, <1>5 DEF EmptyLot, NoCycle, Cycles
<1> QED
  BY <1>2, <1>3, <1>4, <1>5, <1>6

\* Every operation of lots.py returns a lot record.
LEMMA LotOperations ==
    ASSUME NEW r \in Lots, NEW o \in {"none", "operator", "default"}
    PROVE  /\ Retire(r) \in Lots
           /\ NoteSeen(r) \in Lots
           /\ ReopenHeld(r) \in Lots
           /\ BasisApplied(r) \in Lots
           /\ MarkOrigin(r, o) \in Lots
           /\ SkipAuto(r) \in Lots
           /\ Ripen(r) \in Lots
<1>1. Retire(r) \in Lots
  BY DEF Retire, Lots
<1>2. NoteSeen(r) \in Lots
  BY ConstantTypes DEF NoteSeen, Lots
<1>3. ReopenHeld(r) \in Lots
  BY DEF ReopenHeld, Lots
<1>4. BasisApplied(r) \in Lots
  BY DEF BasisApplied, Lots
<1>5. MarkOrigin(r, o) \in Lots
  BY DEF MarkOrigin, Lots
<1>6. SkipAuto(r) \in Lots
  BY DEF SkipAuto, Lots
<1>7. Ripen(r) \in Lots
  BY DEF Ripen, Lots
<1> QED
  BY <1>1, <1>2, <1>3, <1>4, <1>5, <1>6, <1>7

\* Every policy the cycle or a handler writes is a policy.
LEMMA PolicyOperations ==
    ASSUME LotTypeOK, NEW p \in Policies
    PROVE  /\ Relaxed(p) \in Policies
           /\ PoliciesForUnmonitored(p) \in Policies
           /\ Rewritten(p) \in Policies
           /\ PolicyWithoutBasis(p) \in Policies
           /\ ObservedBasis \in Bases
<1>0. /\ cyc \in Cycles /\ bag \in 0..MaxBags /\ MaxBags \in Nat
      /\ cyc.basis \in Bases /\ cyc.refill \in Policies /\ cyc.bag \in 0..MaxBags
  BY LotBounds DEF LotTypeOK, Cycles
<1>1. Relaxed(p) \in Policies
  BY DEF Relaxed, Policies
<1>2. 0..MaxBags \subseteq Bags
  BY <1>0 DEF Bags
<1>3. PoliciesForUnmonitored(p) \in Policies
  BY <1>0, <1>2, ConstantTypes DEF PoliciesForUnmonitored, SentinelPolicy, Policies
<1>4. PolicyWithoutBasis(p) \in Policies
  BY ConstantTypes DEF PolicyWithoutBasis, Policies
<1>5. Rewritten(p) \in Policies
  BY <1>0, <1>4, ConstantTypes DEF Rewritten
<1>6. ObservedBasis \in Bases
  BY <1>0, <1>2 DEF ObservedBasis, Bases
<1> QED
  BY <1>1, <1>3, <1>4, <1>5, <1>6

\* An operator's rule is a policy, and its number an edit.
LEMMA WriteTypes ==
    ASSUME LotTypeOK, NEW stop \in BOOLEAN, NEW basis \in Bases,
           WriteOperatorPolicy(stop, basis)
    PROVE  cfg' \in Policies /\ edits' \in 0..MaxEdits
<1>1. edits' \in 0..MaxEdits /\ 0 \in Bags
  BY LotBounds DEF LotTypeOK, WriteOperatorPolicy, Bags
<1>2. cfg' = OperatorPolicy(edits', stop, basis)
  BY DEF WriteOperatorPolicy
<1> QED
  BY <1>1, <1>2 DEF OperatorPolicy, Policies

(* One step of each kind keeps the types.                                    *)

LEMMA BuyTypes == LotTypeOK /\ Buy => LotTypeOK'
<1> SUFFICES ASSUME LotTypeOK, Buy PROVE LotTypeOK'
  OBVIOUS
<1> QED
  BY LotBounds DEF LotTypeOK, Buy, storeVars, walletVars, histVars, Awaits

LEMMA SellOutTypes == LotTypeOK /\ SellOut => LotTypeOK'
<1> SUFFICES ASSUME LotTypeOK, SellOut PROVE LotTypeOK'
  OBVIOUS
<1> QED
  BY LotBounds DEF LotTypeOK, SellOut, storeVars, walletVars, histVars, Awaits

LEMMA DelayPassesTypes == LotTypeOK /\ DelayPasses => LotTypeOK'
<1> SUFFICES ASSUME LotTypeOK, DelayPasses PROVE LotTypeOK'
  OBVIOUS
<1>1. Ripen(cyc.lot) \in Lots /\ Ripen(lot) \in Lots
  BY LotOperations DEF LotTypeOK, Cycles
<1>2. cyc' \in Cycles
  BY <1>1 DEF LotTypeOK, Cycles, DelayPasses
<1> QED
  BY <1>1, <1>2 DEF LotTypeOK, DelayPasses, storeVars, walletVars, histVars, Awaits

LEMMA CycleStartTypes == LotTypeOK /\ CycleStart => LotTypeOK'
<1> SUFFICES ASSUME LotTypeOK, CycleStart PROVE LotTypeOK'
  OBVIOUS
<1>1. Relaxed(cfg) \in Policies
  BY PolicyOperations DEF LotTypeOK
<1>2. cyc' \in Cycles
  BY <1>1, ConstantTypes DEF LotTypeOK, Cycles, CycleStart
<1> QED
  BY <1>1, <1>2 DEF LotTypeOK, CycleStart, storeVars, walletVars, histVars, Awaits

LEMMA ReadHoldingsTypes == LotTypeOK /\ ReadHoldings => LotTypeOK'
<1> SUFFICES ASSUME LotTypeOK, ReadHoldings PROVE LotTypeOK'
  OBVIOUS
<1>1. cyc' \in Cycles
  BY DEF LotTypeOK, Cycles, ReadHoldings
<1>2. pc' \in Awaits
  BY DEF ReadHoldings, AfterHoldings, Awaits
<1> QED
  BY <1>1, <1>2 DEF LotTypeOK, ReadHoldings, storeVars, walletVars, histVars

LEMMA RetireAbsentLotTypes == LotTypeOK /\ RetireAbsentLot => LotTypeOK'
<1> SUFFICES ASSUME LotTypeOK, RetireAbsentLot PROVE LotTypeOK'
  OBVIOUS
<1>1. Retire(lot) \in Lots
  BY LotOperations DEF LotTypeOK
<1>2. cyc' \in Cycles
  BY DEF LotTypeOK, Cycles, RetireAbsentLot
<1>3. gone' \in 0..MaxBags
  BY DEF LotTypeOK, Cycles, RetireAbsentLot
<1> QED
  BY <1>1, <1>2, <1>3 DEF LotTypeOK, RetireAbsentLot, storeVars, walletVars, histVars, Awaits

LEMMA ClearRuntimeLotTypes == LotTypeOK /\ ClearRuntimeLot => LotTypeOK'
<1> SUFFICES ASSUME LotTypeOK, ClearRuntimeLot PROVE LotTypeOK'
  OBVIOUS
<1>1. pc' \in Awaits
  BY DEF ClearRuntimeLot, Awaits
<1> QED
  BY <1>1, ConstantTypes DEF LotTypeOK, ClearRuntimeLot, storeVars, walletVars, histVars

LEMMA InspectTypes == LotTypeOK /\ Inspect => LotTypeOK'
<1> SUFFICES ASSUME LotTypeOK, Inspect PROVE LotTypeOK'
  OBVIOUS
<1>1. ReopenHeld(lot) \in Lots
  BY LotOperations DEF LotTypeOK
<1>2. cyc' \in Cycles
  BY <1>1 DEF LotTypeOK, Cycles, Policies, Inspect
<1>3. pc' \in Awaits
  BY DEF Inspect, Awaits
<1> QED
  BY <1>1, <1>2, <1>3 DEF LotTypeOK, Inspect, storeVars, walletVars, histVars

LEMMA BasisObservedTypes == LotTypeOK /\ BasisObserved => LotTypeOK'
<1> SUFFICES ASSUME LotTypeOK, BasisObserved PROVE LotTypeOK'
  OBVIOUS
<1>1. cyc.lot \in Lots /\ cyc.cap \in Policies
  BY DEF LotTypeOK, Cycles
<1>2. BasisApplied(cyc.lot) \in Lots
  BY <1>1, LotOperations
<1>3. ObservedBasis \in Bases
  BY <1>1, PolicyOperations
<1>4. [cyc.cap EXCEPT !.basis = ObservedBasis] \in Policies
  BY <1>1, <1>3 DEF Policies
<1>5. cyc' \in Cycles
  BY <1>3, <1>4, ConstantTypes DEF LotTypeOK, Cycles, BasisObserved
<1> QED
  BY <1>1, <1>2, <1>3, <1>4, <1>5 DEF LotTypeOK, BasisObserved, storeVars, walletVars,
     histVars, Awaits

LEMMA BasisUnavailableTypes == LotTypeOK /\ BasisUnavailable => LotTypeOK'
<1> SUFFICES ASSUME LotTypeOK, BasisUnavailable PROVE LotTypeOK'
  OBVIOUS
<1>1. cyc' \in Cycles
  BY ConstantTypes DEF LotTypeOK, Cycles, BasisUnavailable
<1> QED
  BY <1>1 DEF LotTypeOK, BasisUnavailable, storeVars, walletVars, histVars, Awaits

LEMMA DecideTypes == LotTypeOK /\ Decide => LotTypeOK'
<1> SUFFICES ASSUME LotTypeOK, Decide PROVE LotTypeOK'
  OBVIOUS
<1>1. cyc' \in Cycles
  BY ConstantTypes DEF LotTypeOK, Cycles, Decide
<1>2. trail' \in 0..MaxBags
  BY DEF LotTypeOK, Cycles, Decide
<1> QED
  BY <1>1, <1>2 DEF LotTypeOK, Decide, storeVars, walletVars, histVars, Awaits

LEMMA ScheduleTypes == LotTypeOK /\ Schedule => LotTypeOK'
<1> SUFFICES ASSUME LotTypeOK, Schedule PROVE LotTypeOK'
  OBVIOUS
<1>1. NoteSeen(lot) \in Lots
  BY LotOperations DEF LotTypeOK
<1>2. opened' \in 0..MaxBags
  BY DEF LotTypeOK, Cycles, Schedule
<1>3. pc' \in Awaits
  BY DEF Schedule, Awaits
<1> QED
  BY <1>1, <1>2, <1>3 DEF LotTypeOK, Schedule, storeVars, walletVars, histVars

LEMMA ObserveDueTypes == LotTypeOK /\ ObserveDue => LotTypeOK'
<1> SUFFICES ASSUME LotTypeOK, ObserveDue PROVE LotTypeOK'
  OBVIOUS
<1>1. ObservedBasis \in Bases
  BY PolicyOperations DEF LotTypeOK
<1>2. cyc' \in Cycles
  BY <1>1 DEF LotTypeOK, Cycles, ObserveDue
<1> QED
  BY <1>1, <1>2 DEF LotTypeOK, ObserveDue, storeVars, walletVars, histVars, Awaits

LEMMA MergeTypes == LotTypeOK /\ Merge => LotTypeOK'
<1> SUFFICES ASSUME LotTypeOK, Merge PROVE LotTypeOK'
  OBVIOUS
<1>1. PoliciesForUnmonitored(cfg) \in Policies
  BY PolicyOperations DEF LotTypeOK
<1>2. cyc' \in Cycles
  BY ConstantTypes DEF LotTypeOK, Cycles, Merge
<1> QED
  BY <1>1, <1>2 DEF LotTypeOK, Merge, storeVars, walletVars, histVars, Awaits

LEMMA MarkDefaultTypes == LotTypeOK /\ MarkDefault => LotTypeOK'
<1> SUFFICES ASSUME LotTypeOK, MarkDefault PROVE LotTypeOK'
  OBVIOUS
<1>1. MarkOrigin(lot, "default") \in Lots
  BY LotOperations DEF LotTypeOK
<1> QED
  BY <1>1 DEF LotTypeOK, MarkDefault, storeVars, walletVars, histVars, Awaits

LEMMA PublishTypes == LotTypeOK /\ Publish => LotTypeOK'
<1> SUFFICES ASSUME LotTypeOK, Publish PROVE LotTypeOK'
  OBVIOUS
<1>1. cyc' \in Cycles
  BY ConstantTypes DEF LotTypeOK, Cycles, Publish
<1>2. missed' \in 0..MaxBags
  BY DEF LotTypeOK, Cycles, Publish
<1>3. row' \in BOOLEAN
  BY DEF Publish
<1> QED
  BY <1>1, <1>2, <1>3 DEF LotTypeOK, Publish, storeVars, walletVars, histVars, Awaits

LEMMA RewriteLotsYamlTypes == LotTypeOK /\ RewriteLotsYaml => LotTypeOK'
<1> SUFFICES ASSUME LotTypeOK, RewriteLotsYaml PROVE LotTypeOK'
  OBVIOUS
<1>1. Rewritten(cfg) \in Policies
  BY PolicyOperations DEF LotTypeOK
<1>2. lost' \subseteq {"mark", "refill", "wipe", "drop", "edit"}
  BY DEF LotTypeOK, RewriteLotsYaml
<1>3. NoCycle \in Cycles
  BY ConstantTypes
<1> QED
  BY <1>1, <1>2, <1>3 DEF LotTypeOK, RewriteLotsYaml, storeVars, walletVars, histVars, Awaits

LEMMA PutPolicyTypes == LotTypeOK /\ PutPolicy => LotTypeOK'
<1> SUFFICES ASSUME LotTypeOK, PutPolicy PROVE LotTypeOK'
  OBVIOUS
<1>1. PICK stop \in BOOLEAN, basis \in Bases : WriteOperatorPolicy(stop, basis)
  <2>1. PICK stop \in BOOLEAN, kind \in TypedKinds \cup {"none"} :
          WriteOperatorPolicy(stop,
            IF kind = "none" THEN NoBasis ELSE [kind |-> kind, bag |-> MeantBag])
    BY DEF PutPolicy
  <2>2. MeantBag \in Bags
    BY LotBounds DEF LotTypeOK, MeantBag, Bags
  <2>3. (IF kind = "none" THEN NoBasis ELSE [kind |-> kind, bag |-> MeantBag]) \in Bases
    BY <2>2, ConstantTypes DEF Bases
  <2> QED
    BY <2>1, <2>3
<1>2. cfg' \in Policies /\ edits' \in 0..MaxEdits
  BY <1>1, WriteTypes
<1> QED
  BY <1>1, <1>2 DEF LotTypeOK, PutPolicy, WriteOperatorPolicy, storeVars, walletVars,
     histVars, Awaits

LEMMA ProtectUnmonitoredTypes == LotTypeOK /\ ProtectUnmonitored => LotTypeOK'
<1> SUFFICES ASSUME LotTypeOK, ProtectUnmonitored PROVE LotTypeOK'
  OBVIOUS
<1>1. PICK stop \in BOOLEAN : WriteOperatorPolicy(stop, NoBasis)
  BY DEF ProtectUnmonitored
<1>2. cfg' \in Policies /\ edits' \in 0..MaxEdits
  BY <1>1, WriteTypes, ConstantTypes
<1> QED
  BY <1>1, <1>2 DEF LotTypeOK, ProtectUnmonitored, WriteOperatorPolicy, storeVars,
     walletVars, histVars, Awaits

LEMMA MarkOperatorTypes == LotTypeOK /\ MarkOperator => LotTypeOK'
<1> SUFFICES ASSUME LotTypeOK, MarkOperator PROVE LotTypeOK'
  OBVIOUS
<1>1. MarkOrigin(lot, "operator") \in Lots
  BY LotOperations DEF LotTypeOK
<1> QED
  BY <1>1 DEF LotTypeOK, MarkOperator, storeVars, walletVars, histVars, Awaits

LEMMA DeletePolicyTypes == LotTypeOK /\ DeletePolicy => LotTypeOK'
<1> SUFFICES ASSUME LotTypeOK, DeletePolicy PROVE LotTypeOK'
  OBVIOUS
<1>1. SkipAuto(lot) \in Lots
  BY LotOperations DEF LotTypeOK
<1> QED
  BY <1>1 DEF LotTypeOK, DeletePolicy, storeVars, walletVars, histVars, Awaits

LEMMA RemovePolicyTypes == LotTypeOK /\ RemovePolicy => LotTypeOK'
<1> SUFFICES ASSUME LotTypeOK, RemovePolicy PROVE LotTypeOK'
  OBVIOUS
<1>1. NoPolicy \in Policies
  BY ConstantTypes
<1> QED
  BY <1>1 DEF LotTypeOK, RemovePolicy, storeVars, walletVars, histVars, Awaits

LEMMA SkipAutoProtectTypes == LotTypeOK /\ SkipAutoProtect => LotTypeOK'
<1> SUFFICES ASSUME LotTypeOK, SkipAutoProtect PROVE LotTypeOK'
  OBVIOUS
<1>1. SkipAuto(lot) \in Lots
  BY LotOperations DEF LotTypeOK
<1> QED
  BY <1>1 DEF LotTypeOK, SkipAutoProtect, storeVars, walletVars, histVars, Awaits

LEMMA CrashTypes == LotTypeOK /\ Crash => LotTypeOK'
<1> SUFFICES ASSUME LotTypeOK, Crash PROVE LotTypeOK'
  OBVIOUS
<1>1. NoCycle \in Cycles
  BY ConstantTypes
<1>2. lost' \subseteq {"mark", "refill", "wipe", "drop", "edit"}
  BY DEF LotTypeOK, Crash
<1>3. crashes' \in 0..MaxCrashes
  BY LotBounds DEF LotTypeOK, Crash
<1> QED
  BY <1>1, <1>2, <1>3 DEF LotTypeOK, Crash, storeVars, walletVars, histVars, Awaits

LEMMA InitTypes == Init => LotTypeOK
<1> SUFFICES ASSUME Init PROVE LotTypeOK
  OBVIOUS
<1>1. 0 \in Bags /\ 1 \in Bags /\ 1 \in 0..MaxEdits /\ bag \in 0..MaxBags
  BY LotBounds DEF Init, Bags
<1>2. [kind |-> "cost", bag |-> 1] \in Bases
  BY <1>1 DEF Bases, TypedKinds
<1>3. OperatorPolicy(1, TRUE, [kind |-> "cost", bag |-> 1]) \in Policies
  BY <1>1, <1>2 DEF OperatorPolicy, Policies
<1>4. cfg \in Policies
  BY <1>3, ConstantTypes DEF Init
<1>5. edits \in 0..MaxEdits
  BY <1>4 DEF Init, Policies
<1>6. lot \in Lots /\ cyc \in Cycles
  BY ConstantTypes DEF Init
<1>7. crashes \in 0..MaxCrashes /\ 0 \in 0..MaxBags
  BY LotBounds DEF Init
<1> QED
  BY <1>1, <1>4, <1>5, <1>6, <1>7 DEF Init, LotTypeOK, Awaits

LEMMA StutterTypes == LotTypeOK /\ UNCHANGED vars => LotTypeOK'
BY DEF LotTypeOK, vars, walletVars, storeVars, histVars

\* The state of the lots and policies keeps its types for all bounds.
THEOREM LotTypesCorrect == Spec => []LotTypeOK
<1>1. Init => LotTypeOK
  BY InitTypes
<1>2. LotTypeOK /\ [Next]_vars => LotTypeOK'
  BY StutterTypes, BuyTypes, SellOutTypes, DelayPassesTypes, CycleStartTypes,
     ReadHoldingsTypes, RetireAbsentLotTypes, ClearRuntimeLotTypes, InspectTypes,
     BasisObservedTypes, BasisUnavailableTypes, DecideTypes, ScheduleTypes,
     ObserveDueTypes, MergeTypes, MarkDefaultTypes, PublishTypes, RewriteLotsYamlTypes,
     PutPolicyTypes, ProtectUnmonitoredTypes, MarkOperatorTypes, DeletePolicyTypes,
     RemovePolicyTypes, SkipAutoProtectTypes, CrashTypes
    DEF Next, Cycle, Handlers, EndHandler
<1> QED
  BY <1>1, <1>2, PTL DEF Spec

-----------------------------------------------------------------------------
(* The trailing peak.                                                       *)

\* A step that leaves the wallet, the cycle's place and the runtime state
\* alone keeps the invariant.
LEMMA QuietKeepsPeak ==
    ASSUME PeakInv, LotTypeOK', cyc'.bag = cyc.bag,
           UNCHANGED <<held, bag, pc, trail, gone, lost>>
    PROVE  PeakInv'
BY DEF PeakInv, GoneIsSold, AbsenceIsOld, SeenIsAlive, PeakIsAlive

\* A step of the cycle to a place where nothing is retired or inspected keeps it.
LEMMA ElsewhereKeepsPeak ==
    ASSUME PeakInv, LotTypeOK', pc \notin RetirePcs, pc' \notin RetirePcs \cup HeldPcs,
           UNCHANGED <<held, bag, trail, gone>>, lost \subseteq lost'
    PROVE  PeakInv'
BY DEF PeakInv, GoneIsSold, AbsenceIsOld, SeenIsAlive, PeakIsAlive, RetirePcs

LEMMA BuyKeepsPeak == PeakInv /\ Buy => PeakInv'
<1> SUFFICES ASSUME PeakInv, Buy PROVE PeakInv'
  OBVIOUS
<1>1. LotTypeOK /\ LotTypeOK'
  BY BuyTypes DEF PeakInv
<1>2. /\ ~held /\ bag' = bag + 1 /\ UNCHANGED <<pc, cyc, trail, gone, lost>>
      /\ bag \in Nat /\ gone \in Nat /\ cyc.bag \in Nat
  BY <1>1, LotBounds DEF Buy, LotTypeOK, Cycles, storeVars, walletVars, histVars
<1> QED
  BY <1>1, <1>2 DEF PeakInv, GoneIsSold, AbsenceIsOld, SeenIsAlive, PeakIsAlive

LEMMA SellOutKeepsPeak == PeakInv /\ SellOut => PeakInv'
<1> SUFFICES ASSUME PeakInv, SellOut PROVE PeakInv'
  OBVIOUS
<1>1. LotTypeOK /\ LotTypeOK'
  BY SellOutTypes DEF PeakInv
<1>2. ~held' /\ UNCHANGED <<bag, pc, cyc, trail, gone, lost>>
  BY DEF SellOut, storeVars, walletVars, histVars
<1> QED
  BY <1>1, <1>2 DEF PeakInv, GoneIsSold, AbsenceIsOld, SeenIsAlive, PeakIsAlive

LEMMA DelayPassesKeepsPeak == PeakInv /\ DelayPasses => PeakInv'
<1> SUFFICES ASSUME PeakInv, DelayPasses PROVE PeakInv'
  OBVIOUS
<1>1. LotTypeOK /\ LotTypeOK'
  BY DelayPassesTypes DEF PeakInv
<1>2. cyc'.bag = cyc.bag /\ UNCHANGED <<held, bag, pc, trail, gone, lost>>
  BY <1>1 DEF LotTypeOK, Cycles, DelayPasses, storeVars, walletVars, histVars
<1> QED
  BY <1>1, <1>2, QuietKeepsPeak

LEMMA CycleStartKeepsPeak == PeakInv /\ CycleStart => PeakInv'
<1> SUFFICES ASSUME PeakInv, CycleStart PROVE PeakInv'
  OBVIOUS
<1>1. LotTypeOK /\ LotTypeOK'
  BY CycleStartTypes DEF PeakInv
<1>2. /\ pc \notin RetirePcs /\ pc' \notin RetirePcs \cup HeldPcs
      /\ UNCHANGED <<held, bag, trail, gone>> /\ lost \subseteq lost'
  BY DEF CycleStart, At, RetirePcs, HeldPcs, storeVars, walletVars, histVars
<1> QED
  BY <1>1, <1>2, ElsewhereKeepsPeak

LEMMA ReadHoldingsKeepsPeak == PeakInv /\ ReadHoldings => PeakInv'
<1> SUFFICES ASSUME PeakInv, ReadHoldings PROVE PeakInv'
  OBVIOUS
<1>1. LotTypeOK /\ LotTypeOK'
  BY ReadHoldingsTypes DEF PeakInv
<1>2. /\ pc = "holdings" /\ cyc'.bag = bag /\ UNCHANGED <<held, bag, trail, gone, lost>>
      /\ pc' \in HeldPcs => held
      /\ pc' \in RetirePcs => ~held
      /\ pc' \notin {"wipeKnown", "wipeListed"}
  BY <1>1 DEF ReadHoldings, At, AfterHoldings, HeldPcs, RetirePcs, LotTypeOK, Cycles,
     storeVars, walletVars, histVars
<1>3. bag \in Nat /\ gone \in Nat
  BY <1>1, LotBounds DEF LotTypeOK
<1> QED
  BY <1>1, <1>2, <1>3 DEF PeakInv, GoneIsSold, AbsenceIsOld, SeenIsAlive, PeakIsAlive

LEMMA RetireAbsentLotKeepsPeak == PeakInv /\ RetireAbsentLot => PeakInv'
<1> SUFFICES ASSUME PeakInv, RetireAbsentLot PROVE PeakInv'
  OBVIOUS
<1>1. LotTypeOK /\ LotTypeOK'
  BY RetireAbsentLotTypes DEF PeakInv
<1>2. /\ pc \in {"known", "listed"} /\ pc' \in {"wipeKnown", "wipeListed"}
      /\ cyc'.bag = cyc.bag /\ gone' = cyc.bag /\ UNCHANGED <<held, bag, trail, lost>>
  BY <1>1 DEF RetireAbsentLot, At, LotTypeOK, Cycles, storeVars, walletVars, histVars
<1> QED
  BY <1>1, <1>2 DEF PeakInv, GoneIsSold, AbsenceIsOld, SeenIsAlive, PeakIsAlive,
     RetirePcs, HeldPcs

LEMMA ClearRuntimeLotKeepsPeak == PeakInv /\ ClearRuntimeLot => PeakInv'
<1> SUFFICES ASSUME PeakInv, ClearRuntimeLot PROVE PeakInv'
  OBVIOUS
<1>1. LotTypeOK /\ LotTypeOK'
  BY ClearRuntimeLotTypes DEF PeakInv
<1>2. /\ pc \in RetirePcs /\ pc' \in {"listed", "publish"} /\ trail' = 0
      /\ UNCHANGED <<held, bag, cyc, gone, lost>>
  BY DEF ClearRuntimeLot, At, RetirePcs, storeVars, walletVars, histVars
<1> QED
  BY <1>1, <1>2 DEF PeakInv, GoneIsSold, AbsenceIsOld, SeenIsAlive, PeakIsAlive,
     RetirePcs, HeldPcs

LEMMA InspectKeepsPeak == PeakInv /\ Inspect => PeakInv'
<1> SUFFICES ASSUME PeakInv, Inspect PROVE PeakInv'
  OBVIOUS
<1>1. LotTypeOK /\ LotTypeOK'
  BY InspectTypes DEF PeakInv
<1>2. /\ pc \in HeldPcs /\ pc' \in HeldPcs /\ cyc'.bag = cyc.bag
      /\ UNCHANGED <<held, bag, trail, gone, lost>>
  BY <1>1 DEF Inspect, At, HeldPcs, LotTypeOK, Cycles, storeVars, walletVars, histVars
<1> QED
  BY <1>1, <1>2 DEF PeakInv, GoneIsSold, AbsenceIsOld, SeenIsAlive, PeakIsAlive,
     RetirePcs, HeldPcs

LEMMA BasisObservedKeepsPeak == PeakInv /\ BasisObserved => PeakInv'
<1> SUFFICES ASSUME PeakInv, BasisObserved PROVE PeakInv'
  OBVIOUS
<1>1. LotTypeOK /\ LotTypeOK'
  BY BasisObservedTypes DEF PeakInv
<1>2. /\ pc \in HeldPcs /\ pc' \in HeldPcs /\ cyc'.bag = cyc.bag
      /\ UNCHANGED <<held, bag, trail, gone, lost>>
  BY <1>1 DEF BasisObserved, At, HeldPcs, LotTypeOK, Cycles, storeVars, walletVars, histVars
<1> QED
  BY <1>1, <1>2 DEF PeakInv, GoneIsSold, AbsenceIsOld, SeenIsAlive, PeakIsAlive,
     RetirePcs, HeldPcs

LEMMA BasisUnavailableKeepsPeak == PeakInv /\ BasisUnavailable => PeakInv'
<1> SUFFICES ASSUME PeakInv, BasisUnavailable PROVE PeakInv'
  OBVIOUS
<1>1. LotTypeOK /\ LotTypeOK'
  BY BasisUnavailableTypes DEF PeakInv
<1>2. /\ pc \in HeldPcs /\ pc' \in HeldPcs /\ cyc'.bag = cyc.bag
      /\ UNCHANGED <<held, bag, trail, gone, lost>>
  BY <1>1 DEF BasisUnavailable, At, HeldPcs, LotTypeOK, Cycles, storeVars, walletVars, histVars
<1> QED
  BY <1>1, <1>2 DEF PeakInv, GoneIsSold, AbsenceIsOld, SeenIsAlive, PeakIsAlive,
     RetirePcs, HeldPcs

LEMMA DecideKeepsPeak == PeakInv /\ Decide => PeakInv'
<1> SUFFICES ASSUME PeakInv, Decide PROVE PeakInv'
  OBVIOUS
<1>1. LotTypeOK /\ LotTypeOK'
  BY DecideTypes DEF PeakInv
<1>2. /\ gone < cyc.bag /\ gone \in Nat /\ cyc.bag \in Nat /\ trail \in Nat
  BY <1>1, LotBounds DEF Decide, At, LotTypeOK, Cycles, PeakInv, SeenIsAlive, HeldPcs
<1>3. pc = "decide" /\ pc' = "publish" /\ UNCHANGED <<held, bag, gone, lost>>
      /\ trail' = (IF trail = 0 THEN cyc.bag ELSE trail)
  BY DEF Decide, At, storeVars, walletVars, histVars
<1> QED
  BY <1>1, <1>2, <1>3 DEF PeakInv, GoneIsSold, AbsenceIsOld, SeenIsAlive, PeakIsAlive,
     RetirePcs, HeldPcs

LEMMA ScheduleKeepsPeak == PeakInv /\ Schedule => PeakInv'
<1> SUFFICES ASSUME PeakInv, Schedule PROVE PeakInv'
  OBVIOUS
<1>1. LotTypeOK /\ LotTypeOK'
  BY ScheduleTypes DEF PeakInv
<1>2. /\ pc \notin RetirePcs /\ pc' \notin RetirePcs \cup HeldPcs
      /\ UNCHANGED <<held, bag, trail, gone>> /\ lost \subseteq lost'
  BY DEF Schedule, At, RetirePcs, HeldPcs, storeVars, walletVars, histVars
<1> QED
  BY <1>1, <1>2, ElsewhereKeepsPeak

LEMMA ObserveDueKeepsPeak == PeakInv /\ ObserveDue => PeakInv'
<1> SUFFICES ASSUME PeakInv, ObserveDue PROVE PeakInv'
  OBVIOUS
<1>1. LotTypeOK /\ LotTypeOK'
  BY ObserveDueTypes DEF PeakInv
<1>2. /\ pc \notin RetirePcs /\ pc' \notin RetirePcs \cup HeldPcs
      /\ UNCHANGED <<held, bag, trail, gone>> /\ lost \subseteq lost'
  BY DEF ObserveDue, At, RetirePcs, HeldPcs, storeVars, walletVars, histVars
<1> QED
  BY <1>1, <1>2, ElsewhereKeepsPeak

LEMMA MergeKeepsPeak == PeakInv /\ Merge => PeakInv'
<1> SUFFICES ASSUME PeakInv, Merge PROVE PeakInv'
  OBVIOUS
<1>1. LotTypeOK /\ LotTypeOK'
  BY MergeTypes DEF PeakInv
<1>2. /\ pc \notin RetirePcs /\ pc' \notin RetirePcs \cup HeldPcs
      /\ UNCHANGED <<held, bag, trail, gone>> /\ lost \subseteq lost'
  BY DEF Merge, At, RetirePcs, HeldPcs, storeVars, walletVars, histVars
<1> QED
  BY <1>1, <1>2, ElsewhereKeepsPeak

LEMMA MarkDefaultKeepsPeak == PeakInv /\ MarkDefault => PeakInv'
<1> SUFFICES ASSUME PeakInv, MarkDefault PROVE PeakInv'
  OBVIOUS
<1>1. LotTypeOK /\ LotTypeOK'
  BY MarkDefaultTypes DEF PeakInv
<1>2. /\ pc \notin RetirePcs /\ pc' \notin RetirePcs \cup HeldPcs
      /\ UNCHANGED <<held, bag, trail, gone>> /\ lost \subseteq lost'
  BY DEF MarkDefault, At, RetirePcs, HeldPcs, storeVars, walletVars, histVars
<1> QED
  BY <1>1, <1>2, ElsewhereKeepsPeak

LEMMA PublishKeepsPeak == PeakInv /\ Publish => PeakInv'
<1> SUFFICES ASSUME PeakInv, Publish PROVE PeakInv'
  OBVIOUS
<1>1. LotTypeOK /\ LotTypeOK'
  BY PublishTypes DEF PeakInv
<1>2. /\ pc \notin RetirePcs /\ pc' \notin RetirePcs \cup HeldPcs
      /\ UNCHANGED <<held, bag, trail, gone>> /\ lost \subseteq lost'
  BY DEF Publish, At, RetirePcs, HeldPcs, storeVars, walletVars, histVars
<1> QED
  BY <1>1, <1>2, ElsewhereKeepsPeak

LEMMA RewriteLotsYamlKeepsPeak == PeakInv /\ RewriteLotsYaml => PeakInv'
<1> SUFFICES ASSUME PeakInv, RewriteLotsYaml PROVE PeakInv'
  OBVIOUS
<1>1. LotTypeOK /\ LotTypeOK'
  BY RewriteLotsYamlTypes DEF PeakInv
<1>2. /\ pc \notin RetirePcs /\ pc' \notin RetirePcs \cup HeldPcs
      /\ UNCHANGED <<held, bag, trail, gone>> /\ lost \subseteq lost'
  BY DEF RewriteLotsYaml, At, RetirePcs, HeldPcs, storeVars, walletVars, histVars
<1> QED
  BY <1>1, <1>2, ElsewhereKeepsPeak

LEMMA PutPolicyKeepsPeak == PeakInv /\ PutPolicy => PeakInv'
<1> SUFFICES ASSUME PeakInv, PutPolicy PROVE PeakInv'
  OBVIOUS
<1>1. LotTypeOK /\ LotTypeOK'
  BY PutPolicyTypes DEF PeakInv
<1>2. cyc'.bag = cyc.bag /\ UNCHANGED <<held, bag, pc, trail, gone, lost>>
  BY <1>1 DEF LotTypeOK, Cycles, PutPolicy, WriteOperatorPolicy, storeVars, walletVars,
     histVars
<1> QED
  BY <1>1, <1>2, QuietKeepsPeak

LEMMA ProtectUnmonitoredKeepsPeak == PeakInv /\ ProtectUnmonitored => PeakInv'
<1> SUFFICES ASSUME PeakInv, ProtectUnmonitored PROVE PeakInv'
  OBVIOUS
<1>1. LotTypeOK /\ LotTypeOK'
  BY ProtectUnmonitoredTypes DEF PeakInv
<1>2. cyc'.bag = cyc.bag /\ UNCHANGED <<held, bag, pc, trail, gone, lost>>
  BY <1>1 DEF LotTypeOK, Cycles, ProtectUnmonitored, WriteOperatorPolicy, storeVars,
     walletVars, histVars
<1> QED
  BY <1>1, <1>2, QuietKeepsPeak

LEMMA MarkOperatorKeepsPeak == PeakInv /\ MarkOperator => PeakInv'
<1> SUFFICES ASSUME PeakInv, MarkOperator PROVE PeakInv'
  OBVIOUS
<1>1. LotTypeOK /\ LotTypeOK'
  BY MarkOperatorTypes DEF PeakInv
<1>2. cyc'.bag = cyc.bag /\ UNCHANGED <<held, bag, pc, trail, gone, lost>>
  BY <1>1 DEF LotTypeOK, Cycles, MarkOperator, storeVars, walletVars, histVars
<1> QED
  BY <1>1, <1>2, QuietKeepsPeak

LEMMA DeletePolicyKeepsPeak == PeakInv /\ DeletePolicy => PeakInv'
<1> SUFFICES ASSUME PeakInv, DeletePolicy PROVE PeakInv'
  OBVIOUS
<1>1. LotTypeOK /\ LotTypeOK'
  BY DeletePolicyTypes DEF PeakInv
<1>2. cyc'.bag = cyc.bag /\ UNCHANGED <<held, bag, pc, trail, gone, lost>>
  BY <1>1 DEF LotTypeOK, Cycles, DeletePolicy, storeVars, walletVars, histVars
<1> QED
  BY <1>1, <1>2, QuietKeepsPeak

LEMMA RemovePolicyKeepsPeak == PeakInv /\ RemovePolicy => PeakInv'
<1> SUFFICES ASSUME PeakInv, RemovePolicy PROVE PeakInv'
  OBVIOUS
<1>1. LotTypeOK /\ LotTypeOK'
  BY RemovePolicyTypes DEF PeakInv
<1>2. cyc'.bag = cyc.bag /\ UNCHANGED <<held, bag, pc, trail, gone, lost>>
  BY <1>1 DEF LotTypeOK, Cycles, RemovePolicy, storeVars, walletVars, histVars
<1> QED
  BY <1>1, <1>2, QuietKeepsPeak

LEMMA SkipAutoProtectKeepsPeak == PeakInv /\ SkipAutoProtect => PeakInv'
<1> SUFFICES ASSUME PeakInv, SkipAutoProtect PROVE PeakInv'
  OBVIOUS
<1>1. LotTypeOK /\ LotTypeOK'
  BY SkipAutoProtectTypes DEF PeakInv
<1>2. cyc'.bag = cyc.bag /\ UNCHANGED <<held, bag, pc, trail, gone, lost>>
  BY <1>1 DEF LotTypeOK, Cycles, SkipAutoProtect, storeVars, walletVars, histVars
<1> QED
  BY <1>1, <1>2, QuietKeepsPeak

LEMMA CrashKeepsPeak == PeakInv /\ Crash => PeakInv'
<1> SUFFICES ASSUME PeakInv, Crash PROVE PeakInv'
  OBVIOUS
<1>1. LotTypeOK /\ LotTypeOK'
  BY CrashTypes DEF PeakInv
<1>2. /\ pc' = "idle" /\ UNCHANGED <<held, bag, trail, gone>> /\ lost \subseteq lost'
      /\ pc \in {"wipeKnown", "wipeListed"} => "wipe" \in lost'
  BY DEF Crash, storeVars, walletVars, histVars
<1> QED
  BY <1>1, <1>2 DEF PeakInv, GoneIsSold, AbsenceIsOld, SeenIsAlive, PeakIsAlive,
     RetirePcs, HeldPcs

LEMMA PeakInvKept == PeakInv /\ [Next]_vars => PeakInv'
<1>1. PeakInv /\ UNCHANGED vars => PeakInv'
  <2> SUFFICES ASSUME PeakInv, UNCHANGED vars PROVE PeakInv'
    OBVIOUS
  <2>1. UNCHANGED <<held, bag, cyc, pc, trail, gone, lost>>
    BY DEF vars, walletVars, storeVars, histVars
  <2>2. LotTypeOK'
    BY StutterTypes DEF PeakInv
  <2> QED
    BY <2>1, <2>2, QuietKeepsPeak
<1> QED
  BY <1>1, BuyKeepsPeak, SellOutKeepsPeak, DelayPassesKeepsPeak, CycleStartKeepsPeak,
     ReadHoldingsKeepsPeak, RetireAbsentLotKeepsPeak, ClearRuntimeLotKeepsPeak,
     InspectKeepsPeak, BasisObservedKeepsPeak, BasisUnavailableKeepsPeak,
     DecideKeepsPeak, ScheduleKeepsPeak, ObserveDueKeepsPeak, MergeKeepsPeak,
     MarkDefaultKeepsPeak, PublishKeepsPeak, RewriteLotsYamlKeepsPeak,
     PutPolicyKeepsPeak, ProtectUnmonitoredKeepsPeak, MarkOperatorKeepsPeak,
     DeletePolicyKeepsPeak, RemovePolicyKeepsPeak, SkipAutoProtectKeepsPeak,
     CrashKeepsPeak
    DEF Next, Cycle, Handlers, EndHandler

\* The trailing peak of a retired bag is never used for a later one, whatever
\* the number of bags, edits and crashes.
THEOREM PeakNotInherited == Spec => []NoInheritedPeak
<1>1. Init => PeakInv
  <2>1. Init => LotTypeOK
    BY InitTypes
  <2>2. Init => gone = 0 /\ bag >= 0 /\ (held => bag = 1) /\ pc = "idle" /\ trail = 0
    BY DEF Init
  <2> QED
    BY <2>1, <2>2 DEF PeakInv, GoneIsSold, AbsenceIsOld, SeenIsAlive, PeakIsAlive,
                      RetirePcs, HeldPcs
<1>2. PeakInv /\ [Next]_vars => PeakInv'
  BY PeakInvKept
<1>3. PeakInv => NoInheritedPeak
  BY DEF PeakInv, PeakIsAlive, NoInheritedPeak
<1> QED
  BY <1>1, <1>2, <1>3, PTL DEF Spec

-----------------------------------------------------------------------------
(* The cost basis and the rule of a bag.                                    *)

SeenPcs == {"schedule", "due", "merge"}

\* What the place of the cycle says of its locals.
CycleFacts ==
    /\ pc = "idle" => cyc = NoCycle
    /\ pc \in HeldPcs => cyc.cap.there
    /\ pc \in SeenPcs => ~cyc.cap.there /\ gone < cyc.bag
    /\ pc \in {"holdings", "inspect", "observe", "schedule", "due"} => cyc.basis = NoBasis
    /\ cyc.drop => pc \in {"wipeKnown", "wipeListed", "listed", "publish", "rewrite"}
    /\ cyc.refill.there => pc \in {"decide", "publish", "rewrite"}
    /\ op = "mark" => cfg.there /\ cfg.edit > 0
    /\ pc \in {"holdings", "schedule"} /\ ~cyc.cap.there /\ cfg.there =>
         op = "mark" \/ (lot.origin = "operator" /\ ~lot.flat)

\* A basis is missing, or of a bag that is not retired.
Fresh(b) == b = NoBasis \/ b.bag > gone

\* A basis that may be stale is not believed: the lot asks for an observation, or
\* the write that removes or replaces it is still to come.
BasisFacts ==
    lost \cap {"refill", "drop"} = {} =>
      /\ cfg.there => \/ Fresh(cfg.basis) \/ lot.needsBasis \/ cyc.drop \/ cyc.refill.there
      /\ pc \in {"holdings", "inspect"} /\ cyc.cap.there => Fresh(cyc.cap.basis) \/ lot.needsBasis
      /\ pc \in {"decide", "merge"} => Fresh(cyc.basis)
      /\ cyc.refill.there => Fresh(cyc.refill.basis)

BasisInv == PeakInv /\ CycleFacts /\ BasisFacts

\* A rule of the sentinel's own is stamped on the lot, about to be, or about to be
\* dropped; and the cycle works with that rule and no other.
Sentinel(p) == p.there /\ p.edit = 0
RuleFacts ==
    lost \cap {"drop", "mark", "edit"} = {} =>
      /\ Sentinel(cfg) =>
           /\ lot.origin = "default" \/ pc = "mark" \/ cyc.drop
           /\ cfg.bag > gone \/ cyc.drop
           /\ pc \notin {"idle", "mark", "publish", "rewrite"} =>
                Sentinel(cyc.cap) /\ cyc.cap.bag = cfg.bag
           /\ pc = "observe" => cyc.lot.origin = "default"
           /\ cyc.refill.there => Sentinel(cyc.refill) /\ cyc.refill.bag = cfg.bag
      /\ pc \in {"holdings"} \cup HeldPcs /\ Sentinel(cyc.cap) => cyc.cap.bag > gone

RuleInv == PeakInv /\ CycleFacts /\ RuleFacts

LEMMA CycleFactsKept ==
    ASSUME PeakInv, CycleFacts, [Next]_vars
    PROVE  CycleFacts'
<1> USE DEF PeakInv, LotTypeOK, Cycles, Policies, Lots, Bases, storeVars, walletVars, histVars
<1> USE DEF CycleFacts, HeldPcs, SeenPcs, GoneIsSold, SeenIsAlive
<1>1. CASE Buy
  BY <1>1 DEF Buy
<1>2. CASE SellOut
  BY <1>2 DEF SellOut
<1>3. CASE DelayPasses
  <2>1. /\ cyc'.cap = cyc.cap /\ cyc'.bag = cyc.bag /\ cyc'.basis = cyc.basis
        /\ cyc'.drop = cyc.drop /\ cyc'.refill = cyc.refill
        /\ lot'.origin = lot.origin /\ lot'.flat = lot.flat
    BY <1>3 DEF DelayPasses, Ripen
  <2>2. cyc = NoCycle => cyc' = NoCycle
    <3>1. NoCycle.lot.auto = "none" BY DEF NoCycle
    <3>2. Ripen(NoCycle.lot) = NoCycle.lot BY <3>1 DEF Ripen
    <3>3. \A c \in Cycles : [c EXCEPT !.lot = c.lot] = c OBVIOUS
    <3>4. QED BY <1>3, <3>2, <3>3 DEF DelayPasses
  <2>3. QED BY <1>3, <2>1, <2>2 DEF DelayPasses
<1>4. CASE CycleStart
  BY <1>4 DEF CycleStart, At, Relaxed, NoCycle
<1>5. CASE ReadHoldings
  BY <1>5 DEF ReadHoldings, At, AfterHoldings
<1>6. CASE RetireAbsentLot
  BY <1>6 DEF RetireAbsentLot, At, Retire
<1>7. CASE ClearRuntimeLot
  BY <1>7 DEF ClearRuntimeLot, At
<1>8. CASE Inspect
  BY <1>8 DEF Inspect, At, ReopenHeld
<1>9. CASE BasisObserved
  BY <1>9 DEF BasisObserved, At, BasisApplied
<1>10. CASE BasisUnavailable
  BY <1>10 DEF BasisUnavailable, At
<1>11. CASE Decide
  BY <1>11 DEF Decide, At
<1>12. CASE Schedule
  BY <1>12 DEF Schedule, At, NoteSeen, NewlySeen, IsUnscheduledGhost
<1>13. CASE ObserveDue
  BY <1>13 DEF ObserveDue, At
<1>14. CASE Merge
  BY <1>14 DEF Merge, At, PoliciesForUnmonitored, SentinelPolicy
<1>15. CASE MarkDefault
  BY <1>15 DEF MarkDefault, At, MarkOrigin
<1>16. CASE Publish
  BY <1>16 DEF Publish, At
<1>17. CASE RewriteLotsYaml
  BY <1>17 DEF RewriteLotsYaml, At, NoCycle, NoPolicy
<1>18. CASE PutPolicy
  BY <1>18 DEF PutPolicy, WriteOperatorPolicy, OperatorPolicy
<1>19. CASE ProtectUnmonitored
  BY <1>19 DEF ProtectUnmonitored, WriteOperatorPolicy, OperatorPolicy
<1>20. CASE MarkOperator
  BY <1>20 DEF MarkOperator, MarkOrigin
<1>21. CASE DeletePolicy
  <2>1. lot'.origin = lot.origin /\ lot'.flat = lot.flat BY <1>21 DEF DeletePolicy, SkipAuto
  <2>2. QED BY <1>21, <2>1 DEF DeletePolicy, Accepts
<1>22. CASE RemovePolicy
  BY <1>22 DEF RemovePolicy, NoPolicy
<1>23. CASE SkipAutoProtect
  BY <1>23 DEF SkipAutoProtect, SkipAuto
<1>24. CASE Crash
  BY <1>24 DEF Crash, NoCycle, NoPolicy
<1>25. CASE UNCHANGED vars
  BY <1>25 DEF vars
<1>26. QED
  BY <1>1, <1>2, <1>3, <1>4, <1>5, <1>6, <1>7, <1>8, <1>9, <1>10, <1>11, <1>12, <1>13, <1>14, <1>15, <1>16, <1>17, <1>18, <1>19, <1>20, <1>21, <1>22, <1>23, <1>24, <1>25
  DEF Next, Cycle, Handlers, EndHandler

LEMMA BasisFactsKept ==
    ASSUME PeakInv, CycleFacts, BasisFacts, [Next]_vars
    PROVE  BasisFacts'
<1> USE DEF PeakInv, LotTypeOK, Cycles, Policies, Lots, Bases, storeVars, walletVars, histVars
<1> USE DEF CycleFacts, BasisFacts, Fresh, HeldPcs, SeenPcs, GoneIsSold, SeenIsAlive
<1>1. CASE Buy
  BY <1>1 DEF Buy
<1>2. CASE SellOut
  BY <1>2 DEF SellOut
<1>3. CASE DelayPasses
  BY <1>3 DEF DelayPasses, Ripen
<1>4. CASE CycleStart
  BY <1>4 DEF CycleStart, At, Relaxed, NoCycle
<1>5. CASE ReadHoldings
  BY <1>5 DEF ReadHoldings, At, AfterHoldings
<1>6. CASE RetireAbsentLot
  BY <1>6 DEF RetireAbsentLot, At, Retire
<1>7. CASE ClearRuntimeLot
  BY <1>7 DEF ClearRuntimeLot, At
<1>8. CASE Inspect
  BY <1>8 DEF Inspect, At, ReopenHeld, BasisNeedsObservation, NoBasis
<1>9. CASE BasisObserved
  <2>1. /\ ObservedBasis.bag = bag /\ bag > gone /\ pc' = "decide" /\ gone' = gone /\ cfg' = cfg
        /\ cyc'.basis = ObservedBasis /\ cyc'.refill.basis = ObservedBasis
        /\ cyc'.refill.there = cyc.cap.there /\ cyc.cap.there
    BY <1>9, LotBounds DEF BasisObserved, At, ObservedBasis
  <2>2. QED BY <1>9, <2>1
<1>10. CASE BasisUnavailable
  BY <1>10 DEF BasisUnavailable, At
<1>11. CASE Decide
  BY <1>11 DEF Decide, At
<1>12. CASE Schedule
  BY <1>12 DEF Schedule, At, NoteSeen, NewlySeen, IsUnscheduledGhost
<1>13. CASE ObserveDue
  <2>1. held => ObservedBasis.bag = bag /\ bag > gone BY LotBounds DEF ObservedBasis
  <2>2. pc = "due" /\ pc' = "merge" /\ UNCHANGED <<cfg, lot, gone, lost>> /\ cyc.basis = NoBasis
    BY <1>13 DEF ObserveDue, At
  <2>3. cyc'.basis = NoBasis \/ (held /\ cyc'.basis = ObservedBasis)
    BY <1>13, <2>2 DEF ObserveDue
  <2>4. cyc'.drop = cyc.drop /\ cyc'.refill = cyc.refill BY <1>13 DEF ObserveDue
  <2>5. QED BY <2>1, <2>2, <2>3, <2>4
<1>14. CASE Merge
  BY <1>14 DEF Merge, At, PoliciesForUnmonitored, SentinelPolicy
<1>15. CASE MarkDefault
  BY <1>15 DEF MarkDefault, At, MarkOrigin
<1>16. CASE Publish
  BY <1>16 DEF Publish, At
<1>17. CASE RewriteLotsYaml
  <2>1. pc' = "idle" /\ cyc' = NoCycle /\ gone' = gone /\ lot' = lot /\ lost \subseteq lost'
    BY <1>17 DEF RewriteLotsYaml
  <2>2. ~NoCycle.refill.there BY DEF NoCycle, NoPolicy
  <2>3. cfg' = Rewritten(cfg) /\ ~NoPolicy.there BY <1>17 DEF RewriteLotsYaml, NoPolicy
  <2>4. PolicyWithoutBasis(cfg).basis = NoBasis BY DEF PolicyWithoutBasis
  <2>5. ASSUME lost \cap {"refill", "drop"} = {}, cfg'.there
        PROVE  Fresh(cfg'.basis) \/ lot.needsBasis
    BY <2>3, <2>4, <2>5 DEF Rewritten
  <2>6. QED BY <2>1, <2>2, <2>5
<1>18. CASE PutPolicy
  <2>1. MeantBag > gone BY LotBounds DEF MeantBag
  <2>2. Fresh(cfg'.basis) /\ UNCHANGED <<pc, cyc, lot, gone, lost>>
    BY <1>18, <2>1 DEF PutPolicy, WriteOperatorPolicy, OperatorPolicy
  <2>3. QED BY <2>2
<1>19. CASE ProtectUnmonitored
  BY <1>19 DEF ProtectUnmonitored, WriteOperatorPolicy, OperatorPolicy
<1>20. CASE MarkOperator
  BY <1>20 DEF MarkOperator, MarkOrigin
<1>21. CASE DeletePolicy
  BY <1>21 DEF DeletePolicy, SkipAuto
<1>22. CASE RemovePolicy
  BY <1>22 DEF RemovePolicy, NoPolicy
<1>23. CASE SkipAutoProtect
  BY <1>23 DEF SkipAutoProtect, SkipAuto
<1>24. CASE Crash
  BY <1>24 DEF Crash, NoCycle, NoPolicy
<1>25. CASE UNCHANGED vars
  BY <1>25 DEF vars
<1>26. QED
  BY <1>1, <1>2, <1>3, <1>4, <1>5, <1>6, <1>7, <1>8, <1>9, <1>10, <1>11, <1>12, <1>13, <1>14, <1>15, <1>16, <1>17, <1>18, <1>19, <1>20, <1>21, <1>22, <1>23, <1>24, <1>25
  DEF Next, Cycle, Handlers, EndHandler


\* An operator's rule keeps its stamp, so that nothing the cycle does to default
\* rules reaches it; what the cycle captured is that rule, or the rule is newer
\* than the cycle.
SameRule(p) == p.edit = cfg.edit /\ p.stop = cfg.stop
Newer == cfg.edit > cyc.edits
OperatorFacts ==
    /\ cyc.edits <= edits /\ cfg.edit <= edits /\ cyc.cap.edit <= edits
    /\ cyc.refill.edit <= edits
    /\ cfg.edit > 0 => cfg.there
    /\ pc = "mark" => cfg.edit = 0
    /\ lost \cap {"mark", "refill"} = {} =>
         /\ cfg.edit > 0 /\ op # "mark" =>
              lot.origin # "default" \/ (cyc.refill.there /\ Newer)
         /\ cfg.edit > 0 /\ cyc.drop => Newer
         /\ cfg.edit > 0 /\ pc \in {"holdings"} \cup HeldPcs => SameRule(cyc.cap) \/ Newer
         /\ cfg.edit > 0 /\ cyc.refill.there => SameRule(cyc.refill) \/ Newer
         /\ cyc.cap.edit > 0 /\ pc \in {"holdings", "inspect", "observe"} =>
              lot.origin # "default"
         /\ pc = "observe" /\ (cyc.cap.edit > 0 \/ (cfg.edit > 0 /\ ~Newer)) =>
              cyc.lot.origin # "default"
         /\ cyc.refill.there /\ cyc.refill.edit > 0 => lot.origin # "default"

OperatorInv == PeakInv /\ CycleFacts /\ OperatorFacts

LEMMA RuleFactsKept ==
    ASSUME PeakInv, CycleFacts, RuleFacts, [Next]_vars
    PROVE  RuleFacts'
<1> USE DEF PeakInv, LotTypeOK, Cycles, Policies, Lots, Bases, storeVars, walletVars, histVars
<1> USE DEF CycleFacts, RuleFacts, Sentinel, HeldPcs, SeenPcs, GoneIsSold, SeenIsAlive
<1>1. CASE Buy
  BY <1>1 DEF Buy
<1>2. CASE SellOut
  BY <1>2 DEF SellOut
<1>3. CASE DelayPasses
  BY <1>3 DEF DelayPasses, Ripen
<1>4. CASE CycleStart
  BY <1>4 DEF CycleStart, At, Relaxed, NoCycle, NoPolicy
<1>5. CASE ReadHoldings
  BY <1>5 DEF ReadHoldings, At, AfterHoldings
<1>6. CASE RetireAbsentLot
  BY <1>6 DEF RetireAbsentLot, At, Retire
<1>7. CASE ClearRuntimeLot
  BY <1>7 DEF ClearRuntimeLot, At
<1>8. CASE Inspect
  BY <1>8 DEF Inspect, At, ReopenHeld
<1>9. CASE BasisObserved
  BY <1>9 DEF BasisObserved, At, BasisApplied
<1>10. CASE BasisUnavailable
  BY <1>10 DEF BasisUnavailable, At
<1>11. CASE Decide
  BY <1>11 DEF Decide, At
<1>12. CASE Schedule
  BY <1>12 DEF Schedule, At, NoteSeen, NewlySeen, IsUnscheduledGhost
<1>13. CASE ObserveDue
  BY <1>13 DEF ObserveDue, At
<1>14. CASE Merge
  BY <1>14 DEF Merge, At, PoliciesForUnmonitored, SentinelPolicy
<1>15. CASE MarkDefault
  BY <1>15 DEF MarkDefault, At, MarkOrigin
<1>16. CASE Publish
  BY <1>16 DEF Publish, At
<1>17. CASE RewriteLotsYaml
  BY <1>17 DEF RewriteLotsYaml, At, Rewritten, PolicyWithoutBasis, NoCycle, NoPolicy
<1>18. CASE PutPolicy
  BY <1>18 DEF PutPolicy, WriteOperatorPolicy, OperatorPolicy
<1>19. CASE ProtectUnmonitored
  BY <1>19 DEF ProtectUnmonitored, WriteOperatorPolicy, OperatorPolicy
<1>20. CASE MarkOperator
  BY <1>20 DEF MarkOperator, MarkOrigin
<1>21. CASE DeletePolicy
  BY <1>21 DEF DeletePolicy, SkipAuto
<1>22. CASE RemovePolicy
  BY <1>22 DEF RemovePolicy, NoPolicy
<1>23. CASE SkipAutoProtect
  BY <1>23 DEF SkipAutoProtect, SkipAuto
<1>24. CASE Crash
  BY <1>24 DEF Crash, NoCycle, NoPolicy
<1>25. CASE UNCHANGED vars
  BY <1>25 DEF vars
<1>26. QED
  BY <1>1, <1>2, <1>3, <1>4, <1>5, <1>6, <1>7, <1>8, <1>9, <1>10, <1>11, <1>12, <1>13, <1>14, <1>15, <1>16, <1>17, <1>18, <1>19, <1>20, <1>21, <1>22, <1>23, <1>24, <1>25
  DEF Next, Cycle, Handlers, EndHandler

LEMMA OperatorFactsKept ==
    ASSUME PeakInv, CycleFacts, OperatorFacts, [Next]_vars
    PROVE  OperatorFacts'
<1> USE DEF PeakInv, LotTypeOK, Cycles, Policies, Lots, Bases, storeVars, walletVars, histVars
<1>0. /\ MaxEdits \in Nat /\ edits \in Nat /\ cfg.edit \in Nat /\ cyc.edits \in Nat
      /\ cyc.cap.edit \in Nat /\ cyc.refill.edit \in Nat /\ NoPolicy.edit = 0 /\ ~NoPolicy.there
  BY LotBounds DEF NoPolicy
<1> USE DEF CycleFacts, OperatorFacts, SameRule, Newer, HeldPcs, SeenPcs
<1>1. CASE Buy
  BY <1>0, <1>1 DEF Buy
<1>2. CASE SellOut
  BY <1>0, <1>2 DEF SellOut
<1>3. CASE DelayPasses
  BY <1>0, <1>3 DEF DelayPasses, Ripen
<1>4. CASE CycleStart
  <2>1. /\ lot' = lot /\ lost' = lost /\ op' = "none" /\ op = "none" /\ edits' = edits
        /\ pc = "idle" /\ pc' = "holdings" /\ cyc = NoCycle
        /\ cfg' = Relaxed(cfg) /\ cyc'.cap = Relaxed(cfg) /\ cyc'.edits = edits
        /\ cyc'.refill = NoCycle.refill /\ cyc'.drop = FALSE
    BY <1>4 DEF CycleStart, At, NoCycle
  <2>2. NoCycle.refill = NoPolicy /\ NoCycle.edits = 0 BY DEF NoCycle
  <2>3. Relaxed(cfg).edit = cfg.edit /\ Relaxed(cfg).there = cfg.there BY DEF Relaxed
  <2>4. QED BY <1>0, <2>1, <2>2, <2>3
<1>5. CASE ReadHoldings
  BY <1>0, <1>5 DEF ReadHoldings, At, AfterHoldings
<1>6. CASE RetireAbsentLot
  BY <1>0, <1>6 DEF RetireAbsentLot, At, Retire
<1>7. CASE ClearRuntimeLot
  BY <1>0, <1>7 DEF ClearRuntimeLot, At
<1>8. CASE Inspect
  BY <1>0, <1>8 DEF Inspect, At, ReopenHeld
<1>9. CASE BasisObserved
  BY <1>0, <1>9 DEF BasisObserved, At, BasisApplied
<1>10. CASE BasisUnavailable
  BY <1>0, <1>10 DEF BasisUnavailable, At
<1>11. CASE Decide
  BY <1>0, <1>11 DEF Decide, At
<1>12. CASE Schedule
  BY <1>0, <1>12 DEF Schedule, At, NoteSeen, NewlySeen, IsUnscheduledGhost
<1>13. CASE ObserveDue
  BY <1>0, <1>13 DEF ObserveDue, At
<1>14. CASE Merge
  <2>1. /\ pc = "merge" /\ UNCHANGED <<lot, lost, op, edits>> /\ pc' \in {"publish", "mark"}
        /\ cyc'.cap = cyc.cap /\ cyc'.refill = cyc.refill /\ cyc'.drop = cyc.drop
        /\ cyc'.edits = cyc.edits
        /\ IF cfg.there THEN cfg' = cfg /\ pc' = "publish" ELSE cfg' = SentinelPolicy(0)
    BY <1>14 DEF Merge, At, PoliciesForUnmonitored
  <2>2. SentinelPolicy(0).edit = 0 BY DEF SentinelPolicy
  <2>3. QED BY <1>0, <2>1, <2>2
<1>15. CASE MarkDefault
  BY <1>0, <1>15 DEF MarkDefault, At, MarkOrigin
<1>16. CASE Publish
  BY <1>0, <1>16 DEF Publish, At, NoPolicy
<1>17. CASE RewriteLotsYaml
  <2>1. /\ lot' = lot /\ lost \subseteq lost' /\ op' = "none" /\ op = "none" /\ edits' = edits
        /\ pc' = "idle" /\ cyc' = NoCycle /\ cfg' = Rewritten(cfg)
    BY <1>17 DEF RewriteLotsYaml, At
  <2>2. /\ NoCycle.refill = NoPolicy /\ NoCycle.edits = 0 /\ NoCycle.cap = NoPolicy
        /\ NoCycle.drop = FALSE
    BY DEF NoCycle
  <2>3. PolicyWithoutBasis(cfg).edit = cfg.edit /\ PolicyWithoutBasis(cfg).there = cfg.there
    BY DEF PolicyWithoutBasis
  <2>4. \/ cfg' = NoPolicy
        \/ cfg.there /\ cyc.refill.there /\ cfg' = cyc.refill
        \/ ~cyc.refill.there /\ cfg'.edit = cfg.edit /\ cfg'.there = cfg.there
    BY <2>1, <2>3 DEF Rewritten
  <2>5. QED BY <1>0, <2>1, <2>2, <2>4
<1>18. CASE PutPolicy
  <2>1. /\ cfg'.there /\ cfg'.edit = edits + 1 /\ edits' = edits + 1 /\ op' = "mark"
        /\ UNCHANGED <<pc, cyc, lot, lost>> /\ pc \in Awaits
    BY <1>0, <1>18 DEF PutPolicy, WriteOperatorPolicy, OperatorPolicy, Accepts
  <2>2. QED BY <1>0, <2>1 DEF Awaits
<1>19. CASE ProtectUnmonitored
  <2>1. /\ cfg'.there /\ cfg'.edit = edits + 1 /\ edits' = edits + 1 /\ op' = "mark"
        /\ UNCHANGED <<pc, cyc, lot, lost>> /\ pc \in Awaits
    BY <1>0, <1>19 DEF ProtectUnmonitored, WriteOperatorPolicy, OperatorPolicy, Accepts
  <2>2. QED BY <1>0, <2>1 DEF Awaits
<1>20. CASE MarkOperator
  BY <1>0, <1>20 DEF MarkOperator, MarkOrigin
<1>21. CASE DeletePolicy
  <2>1. lot'.origin = lot.origin /\ UNCHANGED <<cfg, pc, cyc, lost, edits>> /\ op = "none"
    BY <1>21 DEF DeletePolicy, SkipAuto, Accepts
  <2>2. QED BY <1>0, <2>1
<1>22. CASE RemovePolicy
  BY <1>0, <1>22 DEF RemovePolicy, NoPolicy
<1>23. CASE SkipAutoProtect
  BY <1>0, <1>23 DEF SkipAutoProtect, SkipAuto
<1>24. CASE Crash
  <2>1. /\ lot' = lot /\ cfg' = cfg /\ edits' = edits /\ pc' = "idle" /\ cyc' = NoCycle
        /\ lost \subseteq lost' /\ (op = "mark" => "mark" \in lost')
        /\ (cyc.refill.there => "refill" \in lost')
    BY <1>24 DEF Crash
  <2>2. /\ NoCycle.refill = NoPolicy /\ NoCycle.edits = 0 /\ NoCycle.cap = NoPolicy
        /\ NoCycle.drop = FALSE
    BY DEF NoCycle
  <2>3. QED BY <1>0, <2>1, <2>2
<1>25. CASE UNCHANGED vars
  BY <1>0, <1>25 DEF vars
<1>26. QED
  BY <1>1, <1>2, <1>3, <1>4, <1>5, <1>6, <1>7, <1>8, <1>9, <1>10, <1>11, <1>12, <1>13, <1>14, <1>15, <1>16, <1>17, <1>18, <1>19, <1>20, <1>21, <1>22, <1>23, <1>24, <1>25
  DEF Next, Cycle, Handlers, EndHandler

LEMMA InitFacts == Init => PeakInv /\ CycleFacts /\ BasisFacts /\ RuleFacts /\ OperatorFacts
<1> SUFFICES ASSUME Init PROVE PeakInv /\ CycleFacts /\ BasisFacts /\ RuleFacts /\ OperatorFacts
  OBVIOUS
<1>a. /\ gone = 0 /\ pc = "idle" /\ trail = 0 /\ cyc = NoCycle
      /\ lost = {} /\ op = "none" /\ edits = cfg.edit /\ lot = EmptyLot
      /\ cfg \in {NoPolicy, OperatorPolicy(1, TRUE, [kind |-> "cost", bag |-> 1])}
      /\ held \in BOOLEAN /\ bag = IF held THEN 1 ELSE 0
  BY Zenon DEF Init
<1>b. bag >= 0 /\ (held => bag = 1) BY <1>a
<1>1. /\ gone = 0 /\ bag >= 0 /\ (held => bag = 1) /\ pc = "idle" /\ trail = 0 /\ cyc = NoCycle
      /\ lost = {} /\ op = "none" /\ edits = cfg.edit /\ lot = EmptyLot
      /\ cfg \in {NoPolicy, OperatorPolicy(1, TRUE, [kind |-> "cost", bag |-> 1])}
  BY <1>a, <1>b, Zenon
<1>2. PeakInv
  BY <1>1, InitTypes DEF PeakInv, GoneIsSold, AbsenceIsOld, SeenIsAlive, PeakIsAlive,
                         RetirePcs, HeldPcs
<1>3. /\ NoCycle.cap = NoPolicy /\ NoCycle.refill = NoPolicy /\ NoCycle.drop = FALSE
      /\ NoCycle.edits = 0 /\ ~NoPolicy.there /\ NoPolicy.edit = 0
      /\ EmptyLot.origin = "none"
  BY DEF NoCycle, NoPolicy, EmptyLot
<1>4. /\ cfg.edit \in {0, 1} /\ (cfg.edit = 0 => ~cfg.there) /\ (cfg.there => cfg.basis.bag = 1)
      /\ (cfg.edit > 0 => cfg.there)
  BY <1>1, <1>3 DEF OperatorPolicy
<1>5. CycleFacts BY <1>1, <1>3 DEF CycleFacts, HeldPcs, SeenPcs
<1>6. BasisFacts BY <1>1, <1>3, <1>4 DEF BasisFacts, Fresh
<1>7. RuleFacts BY <1>1, <1>3, <1>4 DEF RuleFacts, Sentinel, HeldPcs
<1>8. OperatorFacts BY <1>1, <1>3, <1>4 DEF OperatorFacts, HeldPcs
<1>9. QED BY <1>2, <1>5, <1>6, <1>7, <1>8

\* No bag is priced by the cost basis of a retired one, for every number of bags,
\* edits and crashes, short of a crash that cut off the write of the new basis or
\* the drop of a default rule.
THEOREM BasisNotInherited == Spec => []NoInheritedBasis
<1>1. BasisInv /\ [Next]_vars => BasisInv'
  BY PeakInvKept, CycleFactsKept, BasisFactsKept DEF BasisInv
<1>2. BasisInv => NoInheritedBasis
  BY DEF BasisInv, BasisFacts, Fresh, NoInheritedBasis
<1>3. Init => BasisInv BY InitFacts DEF BasisInv
<1>4. QED BY <1>1, <1>2, <1>3, PTL DEF Spec

\* A default rule is not applied to a bag that came after the one it was written
\* for, short of a crash or a stale write-back that cut off its drop or stamp.
THEOREM DefaultRuleDies == Spec => []RuleDiesWithBag
<1>1. RuleInv /\ [Next]_vars => RuleInv'
  BY PeakInvKept, CycleFactsKept, RuleFactsKept DEF RuleInv
<1>2. RuleInv => RuleDiesWithBag
  BY DEF RuleInv, CycleFacts, RuleFacts, Sentinel, HeldPcs, RuleDiesWithBag
<1>3. Init => RuleInv BY InitFacts DEF RuleInv
<1>4. QED BY <1>1, <1>2, <1>3, PTL DEF Spec

\* What a step does to an operator's rule.
KeepsOperatorRule ==
    cfg.edit > 0 /\ op = "none" /\ edits' = edits =>
       \/ cfg'.edit = cfg.edit /\ cfg'.stop = cfg.stop
       \/ pc = "rewrite" /\ cfg.edit > cyc.edits
       \/ lost \cap {"mark", "refill"} # {}

LEMMA OperatorStep == ASSUME OperatorInv, [Next]_vars PROVE KeepsOperatorRule
<1> SUFFICES ASSUME cfg.edit > 0, op = "none", edits' = edits, lost \cap {"mark", "refill"} = {},
                    ~(pc = "rewrite" /\ cfg.edit > cyc.edits)
             PROVE  cfg'.edit = cfg.edit /\ cfg'.stop = cfg.stop
  BY DEF KeepsOperatorRule
<1> USE DEF OperatorInv, PeakInv, LotTypeOK, storeVars, walletVars, histVars
<1>1. cfg.there /\ cfg \in Policies /\ edits \in Nat /\ cfg.edit \in Nat
  BY LotBounds DEF OperatorFacts, Policies
<1>2. CASE CycleStart
  <2>1. pc = "idle" /\ cfg' = Relaxed(cfg) BY <1>2 DEF CycleStart, At
  <2>2. ~cyc.refill.there BY <2>1 DEF CycleFacts
  <2>3. lot.origin # "default" BY <2>2 DEF OperatorFacts
  <2>4. QED BY <2>1, <2>3 DEF Relaxed
<1>3. CASE Merge BY <1>1, <1>3 DEF Merge, PoliciesForUnmonitored
<1>4. CASE RewriteLotsYaml
  <2>1. pc = "rewrite" /\ cfg' = Rewritten(cfg) BY <1>4 DEF RewriteLotsYaml, At
  <2>2. ~Newer /\ ~cyc.drop BY <2>1 DEF OperatorFacts, Newer
  <2>3. cyc.refill.there => SameRule(cyc.refill) BY <2>2 DEF OperatorFacts
  <2>4. PolicyWithoutBasis(cfg).edit = cfg.edit /\ PolicyWithoutBasis(cfg).stop = cfg.stop
    BY <1>1 DEF PolicyWithoutBasis, Policies
  <2>5. QED BY <1>1, <2>1, <2>2, <2>3, <2>4 DEF Rewritten, SameRule
<1>5. ~PutPolicy /\ ~ProtectUnmonitored
  <2>1. PutPolicy \/ ProtectUnmonitored => edits' = edits + 1
    BY Zenon DEF PutPolicy, ProtectUnmonitored, WriteOperatorPolicy
  <2>2. edits # edits + 1 BY <1>1
  <2>3. QED BY <2>1, <2>2
<1>6. ~RemovePolicy BY DEF RemovePolicy
<1>7. CASE UNCHANGED cfg BY <1>7
<1>8. QED
  BY <1>2, <1>3, <1>4, <1>5, <1>6, <1>7
  DEF Next, Cycle, Handlers, EndHandler, Buy, SellOut, DelayPasses, ReadHoldings,
      RetireAbsentLot, ClearRuntimeLot, Inspect, BasisObserved, BasisUnavailable, Decide,
      Schedule, ObserveDue, MarkDefault, Publish, MarkOperator, DeletePolicy,
      SkipAutoProtect, Crash, vars

\* The sentinel keeps its hands off an operator's rule: no step of the cycle
\* removes or replaces it or changes its stop, save the write-back of a decision
\* older than the rule.
THEOREM OperatorRulesKept == Spec => OperatorRuleKept
<1>1. OperatorInv /\ [Next]_vars => OperatorInv'
  BY PeakInvKept, CycleFactsKept, OperatorFactsKept DEF OperatorInv
<1>2. Init => OperatorInv BY InitFacts DEF OperatorInv
<1>3. OperatorInv /\ [Next]_vars => [KeepsOperatorRule]_vars BY OperatorStep
<1>4. QED BY <1>1, <1>2, <1>3, PTL DEF Spec, OperatorRuleKept, KeepsOperatorRule
=============================================================================
