-------------------------- MODULE SellLedgerProofs --------------------------
(***************************************************************************)
(* What a ledger row, a failed intent and a dispose mark are worth: proofs  *)
(* about SellExecutor that rest on the invariants of SellExecutorProofs and *)
(* SellDecisionProofs.                                                      *)
(***************************************************************************)
EXTENDS SellDecisionProofs, FiniteSetTheorems, FunctionTheorems

\* Without a failed write, a booked signature is forgotten by disk and locals.
BookedForgotten ==
    ioErrs = 0 =>
        \A s \in Signatures :
            Booked(s) => s # disk.sig /\ (s = call.sig => pc = "finNotify")

\* A failed entry is paged for once, and nothing is signed beside it.
FailedEntry ==
    /\ disk.status # "failed" => ~disk.ack /\ ~disk.blocked
    /\ disk.status = "failed" /\ ~disk.blocked => pages = 0
    /\ pc = "page" => pages = 0 /\ disk.blocked
    /\ pages <= 1
    /\ call.dec # None \/ call.sig # None => disk.status # "failed"
\* The decision of a failed entry is not the call's, and is only stored as one
\* the operator has not acknowledged.
ClosedHeld ==
    /\ \A d \in closed : d <= decs
    /\ call.dec \notin closed
    /\ disk.dec \in closed => disk.status = "failed" /\ ~disk.ack

LedgerInv ==
    /\ LedgerTruthful /\ BookedForgotten /\ BookedOnce
    /\ FailedEntry /\ ClosedHeld

USE BoundsAssumption, ChoicesAssumption
USE DEF Signatures, Decisions, Amounts, None, UnresolvedStatuses, Statuses, ReasonClasses,
        OwnFrames, ForeignFrames

-----------------------------------------------------------------------------
(* What a step does to the signatures and to the failed entry, unless it is  *)
(* one of the few that are about them.                                       *)

\* Signatures move between the entry and the locals only; after the booking
\* they are forgotten.
SigsPass ==
    /\ disk'.sig \in {None, disk.sig, call.sig}
    /\ call'.sig \in {None, disk.sig, call.sig}
    /\ pc = "finNotify" /\ ioErrs' = 0 => /\ disk'.sig = disk.sig
                                          /\ call'.sig = None \/ pc' = "finNotify"

\* The failed entry is left alone or replaced by one whose decision is open.
HoldsFailed ==
    /\ UNCHANGED <<closed, pages>> /\ decs <= decs'
    /\ \/ UNCHANGED disk
       \/ /\ disk'.status # "failed" /\ ~disk'.ack /\ ~disk'.blocked
          /\ disk'.dec \notin closed
    /\ call'.dec \notin closed
    /\ call'.dec # None \/ call'.sig # None => disk'.status # "failed"
    /\ pc' = "page" => pc = "page" /\ UNCHANGED disk

Plain == SigsPass /\ HoldsFailed /\ ioErrs <= ioErrs'

LEMMA PlainKeepsHeld ==
    ASSUME IndInv, LedgerInv, HoldsFailed, IndInv' PROVE FailedEntry' /\ ClosedHeld'
<1>1. decs \in Nat /\ decs' \in Nat /\ closed \subseteq Decisions
  BY DEF IndInv, TypeOK, CountsTypeOK, HistTypeOK
<1>2. FailedEntry' BY DEF LedgerInv, FailedEntry, HoldsFailed
<1>3. ClosedHeld' BY <1>1 DEF LedgerInv, ClosedHeld, HoldsFailed
<1>4. QED BY <1>2, <1>3

\* The decision of the signature being tracked is not one that ended as failed.
LEMMA TrackedDecisionOpen ==
    ASSUME IndInv, DecInv, LedgerInv, call.sig # None, pc \in PollPcs \/ call.ret \in OwnFrames
    PROVE  tx[call.sig].dec \notin closed
<1>1. CASE call.ret \in OwnFrames
  BY <1>1 DEF DecInv, Frames, LedgerInv, ClosedHeld
<1>2. CASE call.ret \notin OwnFrames
  <2>1. call.ret \in ForeignFrames BY <1>2, CallShapes DEF CallType
  <2>2. disk.sig = call.sig BY <1>2, <2>1 DEF DecInv, Frames
  <2>3. disk.dec = tx[call.sig].dec /\ disk.status # "failed"
    BY <2>2 DEF DecInv, DiskHonest, IndInv, DiskTracks
  <2>4. QED BY <2>3 DEF LedgerInv, ClosedHeld
<1>3. QED BY <1>1, <1>2

-----------------------------------------------------------------------------
(* The pieces shared by the steps.                                           *)

LEMMA StayIsPlain ==
    ASSUME IndInv, LedgerInv, UNCHANGED <<disk, closed, pages>>, decs <= decs',
           call'.sig = call.sig /\ call'.dec = call.dec,
           pc = "finNotify" => pc' = "finNotify", pc' = "page" => pc = "page",
           ioErrs' = ioErrs
    PROVE  Plain
<1>1. ioErrs \in Nat BY DEF IndInv, TypeOK, CountsTypeOK
<1>2. QED BY <1>1 DEF Plain, SigsPass, HoldsFailed, LedgerInv, FailedEntry, ClosedHeld

LEMMA LeaveIsPlain ==
    ASSUME IndInv, LedgerInv, disk' \in {disk, NoIntent}, UNCHANGED <<closed, pages, decs>>,
           call'.sig = None /\ call'.dec = None, pc' # "page",
           pc = "finNotify" => UNCHANGED disk, ioErrs <= ioErrs'
    PROVE  Plain
<1>1. decs \in Nat /\ None \notin closed
  BY DEF IndInv, TypeOK, CountsTypeOK, HistTypeOK
<1>2. SigsPass BY FreshShapes DEF SigsPass
<1>3. HoldsFailed BY <1>1, FreshShapes DEF HoldsFailed
<1>4. QED BY <1>2, <1>3 DEF Plain

LEMMA EntryIsPlain ==
    ASSUME IndInv, DecInv, LedgerInv, NEW st \in {"retrying"} \cup UnresolvedStatuses,
           NEW sg \in {None, call.sig}, disk' = IntentOf(call, st, sg),
           call.sig # None, pc \in PollPcs \/ call.ret \in OwnFrames,
           call'.sig \in {None, call.sig}, call'.dec \in {None, call.dec},
           pc # "finNotify", pc' # "page", UNCHANGED <<closed, pages, decs, ioErrs>>
    PROVE  Plain
<1>1. decs \in Nat /\ ioErrs \in Nat /\ None \notin closed
  BY DEF IndInv, TypeOK, CountsTypeOK, HistTypeOK
<1>2. /\ disk'.sig = sg /\ disk'.status = st /\ ~disk'.ack /\ ~disk'.blocked
      /\ disk'.dec = tx[call.sig].dec
  BY DEF IntentOf
<1>3. SigsPass BY <1>2 DEF SigsPass
<1>4. disk'.dec \notin closed BY <1>2, TrackedDecisionOpen
<1>5. HoldsFailed BY <1>1, <1>2, <1>4 DEF HoldsFailed, LedgerInv, ClosedHeld
<1>6. QED BY <1>1, <1>3, <1>5 DEF Plain

LEMMA WriteIntentIsPlain ==
    ASSUME IndInv, LedgerInv, NEW c \in CallType, WriteIntent(c), c.dec \notin closed,
           pc # "finNotify", UNCHANGED <<closed, pages, ioErrs>>
    PROVE  Plain
<1>1. decs \in Nat /\ ioErrs \in Nat
  BY DEF IndInv, TypeOK, CountsTypeOK
<1> DEFINE d == IF c.dec = None THEN decs + 1 ELSE c.dec
<1>2. /\ disk'.sig = None /\ disk'.dec = d /\ disk'.status = "intent"
      /\ ~disk'.ack /\ ~disk'.blocked /\ decs <= decs' /\ pc' = "attempt"
  BY <1>1 DEF WriteIntent
<1>3. call'.sig = None /\ call'.dec = d BY DEF WriteIntent, CallType
<1>4. d \notin closed BY <1>1 DEF LedgerInv, ClosedHeld
<1>5. QED BY <1>1, <1>2, <1>3, <1>4 DEF Plain, SigsPass, HoldsFailed

LEMMA NextPollIsPlain ==
    ASSUME IndInv, DecInv, LedgerInv, NextPoll, pc \in PollPcs,
           UNCHANGED <<closed, pages, decs, ioErrs>>
    PROVE  Plain
<1>1. call.sig # None /\ pc # "finNotify" BY DEF IndInv, CallTracks, PollPcs
<1>2. decs \in Nat BY DEF IndInv, TypeOK, CountsTypeOK
<1>3. CASE call.poll < PollLimit
  <2>1. call'.sig = call.sig /\ call'.dec = call.dec /\ UNCHANGED disk /\ pc' = "poll"
    BY <1>3, CallShapes DEF NextPoll
  <2>2. QED BY <1>1, <1>2, <2>1, StayIsPlain
<1>4. CASE ~(call.poll < PollLimit)
  <2>1. /\ disk' = IntentOf(call, "submitted_unconfirmed", call.sig) /\ call' = NoCall
        /\ pc' \in {"down", "idle"}
    BY <1>4 DEF NextPoll, Block, Return
  <2>2. call'.sig = None /\ call'.dec = None BY <2>1, FreshShapes
  <2>3. QED BY <1>1, <2>1, <2>2, EntryIsPlain
<1>5. QED BY <1>3, <1>4

LEMMA DieIsPlain ==
    ASSUME IndInv, LedgerInv, Die, UNCHANGED <<disk, closed, pages, decs>>, ioErrs <= ioErrs'
    PROVE  Plain
<1>1. pc' = "down" /\ call'.sig = None /\ call'.dec = None BY FreshShapes DEF Die
<1>2. QED BY <1>1, LeaveIsPlain

LEMMA RetryIsPlain ==
    ASSUME IndInv, LedgerInv, NextAttempt(call), UNCHANGED <<disk, closed, pages, decs>>,
           \/ ioErrs' = ioErrs /\ pc # "finNotify"
           \/ ioErrs' = ioErrs + 1
    PROVE  Plain
<1>1. decs \in Nat /\ ioErrs \in Nat BY DEF IndInv, TypeOK, CountsTypeOK
<1>2. call'.sig = call.sig /\ call'.dec = call.dec /\ pc' = "attempt"
  BY CallShapes DEF NextAttempt
<1>3. QED BY <1>1, <1>2 DEF Plain, SigsPass, HoldsFailed, LedgerInv, FailedEntry, ClosedHeld

LEMMA EnterSellIsPlain ==
    ASSUME IndInv, DecInv, LedgerInv, NEW src \in {"cycle", "reconcile", "panic"},
           NEW obs \in Amounts, NEW req \in Amounts,
           NEW reason \in ReasonClasses, NEW dec \in {None, disk.dec}, dec \notin closed,
           pc \in QuietPcs,
           EnterSell(src, obs, req, reason, dec)
    PROVE  Plain
<1> DEFINE c == [NoCall EXCEPT !.src = src, !.obs = obs, !.req = req, !.reason = reason,
                               !.dec = dec]
<1>1. UNCHANGED <<closed, pages, ioErrs>> /\ pc # "finNotify"
  BY DEF EnterSell, histVars, envVars, QuietPcs
<1>2. decs \in Nat /\ ioErrs \in Nat
  BY DEF IndInv, TypeOK, CountsTypeOK
<1>3. c \in CallType /\ c.dec = dec
  <2>1. dec \in Decisions \cup {None} BY SigTypes
  <2>2. QED BY <2>1, NoCallType DEF CallType, NoCall
<1> HIDE DEF c
<1>4. CASE call' = NoCall /\ UNCHANGED <<disk, decs>> /\ pc' \in {"down", "idle"}
  BY <1>1, <1>2, <1>4, FreshShapes, LeaveIsPlain
<1>5. CASE InFlight(disk) /\ Resolving(c, disk, "prior") /\ UNCHANGED <<disk, decs>>
  <2>1. call'.sig = disk.sig /\ call'.dec = dec /\ pc' = "poll"
    BY <1>3, <1>5 DEF Resolving, CallType
  <2>2. disk.status # "failed" BY <1>5 DEF InFlight
  <2>3. QED BY <1>1, <1>2, <1>5, <2>1, <2>2 DEF Plain, SigsPass, HoldsFailed
<1>6. CASE WriteIntent(c) BY <1>1, <1>3, <1>6, WriteIntentIsPlain
<1>7. QED BY <1>4, <1>5, <1>6 DEF EnterSell, c

LEMMA DeadIsPlain ==
    ASSUME IndInv, DecInv, LedgerInv, Dead, pc \in PollPcs, UNCHANGED <<closed, pages, ioErrs>>
    PROVE  Plain
<1>1. call.sig # None /\ pc # "finNotify" BY DEF IndInv, CallTracks, PollPcs
<1>2. decs \in Nat /\ ioErrs \in Nat /\ call \in CallType
  BY DEF IndInv, TypeOK, CountsTypeOK, ProcTypeOK
<1>3. CASE WriteIntent(call)
  BY <1>1, <1>2, <1>3, WriteIntentIsPlain DEF LedgerInv, ClosedHeld
<1>4. CASE disk' = NoIntent /\ Return /\ UNCHANGED decs
  BY <1>1, <1>2, <1>4, FreshShapes, LeaveIsPlain DEF Return
<1>5. CASE /\ ClearPendingSignature /\ UNCHANGED decs /\ pc' \in {"hold", "attempt"}
           /\ call' \in {[call EXCEPT !.sig = None],
                         [[call EXCEPT !.sig = None] EXCEPT !.attempt = @ + 1]}
  <2>1. call'.sig = None /\ call'.dec = call.dec BY <1>5, CallShapes
  <2>2. QED BY <1>1, <1>5, <2>1, EntryIsPlain DEF ClearPendingSignature
<1>6. QED BY <1>3, <1>4, <1>5 DEF Dead, NextAttempt

-----------------------------------------------------------------------------
(* Every step but five is plain; the five are about what it leaves alone.    *)

LEMMA EngineIsPlain ==
    ASSUME IndInv, DecInv, LedgerInv, Engine, ~HoldTerminal, ~PageHeld PROVE Plain
<1> USE DEF chainVars, diskVars, procVars, histVars, envVars
<1>1. decs \in Nat /\ ioErrs \in Nat /\ None \notin closed
  BY DEF IndInv, TypeOK, CountsTypeOK, HistTypeOK
<1>2. CASE StartServer \/ CycleHold \/ PanicNothingHeld \/ ReconcileRead \/ CycleRead \/ StartPanic
  <2>1. /\ pc \in QuietPcs /\ pc' \in QuietPcs \ {"page"}
        /\ UNCHANGED <<disk, closed, pages, decs, ioErrs>>
    BY <1>2 DEF StartServer, CycleHold, PanicNothingHeld, ReconcileRead, CycleRead, StartPanic,
       Return, QuietPcs
  <2>2. call.sig = None /\ call.dec = None
    BY <2>1 DEF IndInv, CallTracks, DecInv, Frames
  <2>3. call'.sig = None /\ call'.dec = None
    <3>1. CASE call' \in {call, NoCall} BY <2>2, <3>1, FreshShapes
    <3>2. ASSUME NEW n, NEW src, call' = [NoCall EXCEPT !.src = src, !.obs = n]
          PROVE  call'.sig = None /\ call'.dec = None
      BY <3>2 DEF NoCall
    <3>3. CASE CycleRead BY <3>3 DEF CycleRead, NoCall
    <3>4. CASE ReconcileRead BY <3>1, <3>2, <3>4 DEF ReconcileRead
    <3>5. CASE StartPanic BY <3>2, <3>5 DEF StartPanic
    <3>6. QED
      BY <1>2, <3>1, <3>3, <3>4, <3>5 DEF StartServer, CycleHold, PanicNothingHeld, Return
  <2>4. QED BY <1>1, <2>1, <2>3, LeaveIsPlain DEF QuietPcs
<1>3. CASE SettleAbsent
  <2>1. /\ pc = "reconcile" /\ InFlight(disk) /\ Resolving(call, disk, "absent")
        /\ UNCHANGED <<disk, closed, pages, decs, ioErrs>>
    BY <1>3 DEF SettleAbsent
  <2>2. call'.sig = disk.sig /\ call'.dec = call.dec /\ pc' = "poll"
    BY <2>1, CallShapes DEF Resolving, CallType
  <2>3. QED BY <1>1, <2>1, <2>2 DEF Plain, SigsPass, HoldsFailed, InFlight, LedgerInv, ClosedHeld
<1>4. CASE ClearAbsent \/ ClearUnexecutable
  <2>1. /\ pc = "reconcile" /\ disk' = NoIntent /\ call' = NoCall /\ pc' \in {"down", "idle"}
        /\ UNCHANGED <<closed, pages, decs, ioErrs>>
    BY <1>4 DEF ClearAbsent, ClearUnexecutable, Return
  <2>2. QED BY <1>1, <2>1, FreshShapes, LeaveIsPlain
<1>5. CASE Resume
  <2>1. /\ pc = "reconcile" /\ call.obs \in Amounts /\ disk.amt \in Amounts
        /\ disk.reason \in ReasonClasses /\ ~TerminalIntent
        /\ EnterSell("reconcile", call.obs, disk.amt, disk.reason, disk.dec)
    BY <1>5 DEF Resume, IndInv, TypeOK, ProcTypeOK, DiskTypeOK, CallType, IntentType
  <2>2. disk.dec \notin closed BY <2>1 DEF TerminalIntent, LedgerInv, ClosedHeld
  <2>3. QED BY <2>1, <2>2, EnterSellIsPlain DEF QuietPcs
<1>6. CASE CycleSell
  <2>1. PICK reason \in Reasons, amount \in 1..call.obs :
          EnterSell("cycle", call.obs, amount, reason, None)
    BY <1>6 DEF CycleSell
  <2>2. /\ pc = "decide" /\ call.obs \in Amounts /\ amount \in Amounts
        /\ reason \in ReasonClasses
    BY <1>6, <2>1, CallShapes DEF CycleSell, CallType
  <2>3. QED BY <1>1, <2>1, <2>2, EnterSellIsPlain DEF QuietPcs
<1>7. CASE PanicSell
  <2>1. /\ pc = "panic" /\ call.obs \in Amounts
        /\ EnterSell("panic", call.obs, call.obs, "wide", None)
    BY <1>7, CallShapes DEF PanicSell, CallType
  <2>2. QED BY <1>1, <2>1, EnterSellIsPlain DEF QuietPcs
<1>8. QED BY <1>2, <1>3, <1>4, <1>5, <1>6, <1>7 DEF Engine

LEMMA ResolverIsPlain == ASSUME IndInv, DecInv, LedgerInv, Resolver PROVE Plain
<1> USE DEF chainVars, diskVars, procVars, histVars, envVars
<1>1. decs \in Nat /\ ioErrs \in Nat BY DEF IndInv, TypeOK, CountsTypeOK
<1>2. CASE PollError
  <2>1. UNCHANGED <<disk, closed, pages, decs, ioErrs>> /\ pc # "finNotify"
    BY <1>2 DEF PollError
  <2>2. CASE Die BY <1>1, <2>1, <2>2, DieIsPlain
  <2>3. CASE NextAttempt(call) BY <2>1, <2>3, RetryIsPlain
  <2>4. QED BY <1>2, <2>2, <2>3 DEF PollError
<1>3. CASE PollFailed \/ PollBlockhashDead
  <2>1. Dead /\ pc \in PollPcs /\ UNCHANGED <<closed, pages, ioErrs>>
    BY <1>3 DEF PollFailed, PollBlockhashDead, PollPcs
  <2>2. QED BY <2>1, DeadIsPlain
<1>4. CASE PollPending \/ PollBlockhashValid \/ (PollBalance /\ NextPoll)
  <2>1. NextPoll /\ pc \in PollPcs /\ UNCHANGED <<closed, pages, decs, ioErrs>>
    BY <1>4 DEF PollPending, PollBlockhashValid, PollBalance, PollPcs
  <2>2. QED BY <2>1, NextPollIsPlain
<1>5. CASE PollConfirmed \/ PollUnknown \/ (PollBalance /\ pc' = "finalize" /\ UNCHANGED <<disk, call>>)
  <2>1. /\ UNCHANGED <<disk, call, closed, pages, decs, ioErrs>>
        /\ pc \in PollPcs /\ pc' \in PollPcs \cup {"finalize"}
    BY <1>5 DEF PollConfirmed, PollUnknown, PollBalance, PollPcs
  <2>2. QED BY <1>1, <2>1, StayIsPlain DEF PollPcs
<1>6. QED BY <1>2, <1>3, <1>4, <1>5 DEF Resolver, PollBalance

LEMMA FinalizerIsPlain == ASSUME IndInv, DecInv, LedgerInv, Finalizer PROVE Plain
<1> USE DEF chainVars, diskVars, procVars, histVars, envVars
<1>1. decs \in Nat /\ ioErrs \in Nat BY DEF IndInv, TypeOK, CountsTypeOK
<1>2. CASE FinalizeDispose \/ FinalizeAppend
  <2>1. /\ UNCHANGED <<disk, call, closed, pages, decs, ioErrs>>
        /\ pc # "finNotify" /\ pc' \in FinPcs
    BY <1>2 DEF FinalizeDispose, FinalizeAppend, FinPcs
  <2>2. QED BY <1>1, <2>1, StayIsPlain DEF FinPcs
<1>3. CASE FinalizeDelete
  <2>1. /\ UNCHANGED <<call, closed, pages, decs, ioErrs>>
        /\ pc = "finDelete" /\ pc' = "finAppend" /\ disk' = NoIntent
    BY <1>3 DEF FinalizeDelete
  <2>2. None \notin closed BY DEF IndInv, TypeOK, HistTypeOK
  <2>3. QED
    BY <1>1, <2>1, <2>2, FreshShapes DEF Plain, SigsPass, HoldsFailed, LedgerInv, ClosedHeld
<1>4. CASE FinalizeNotify
  <2>1. /\ UNCHANGED <<disk, closed, pages, decs, ioErrs>>
        /\ pc' \in {"down", "idle"} /\ call' = NoCall
    BY <1>4 DEF FinalizeNotify, Return
  <2>2. QED BY <1>1, <2>1, FreshShapes, LeaveIsPlain
<1>5. CASE FinalizeIoError
  <2>1. UNCHANGED <<disk, closed, pages, decs>> /\ ioErrs' = ioErrs + 1
    BY <1>5 DEF FinalizeIoError
  <2>2. CASE Die BY <1>1, <2>1, <2>2, DieIsPlain
  <2>3. CASE NextAttempt(call) BY <2>1, <2>3, RetryIsPlain
  <2>4. QED BY <1>5, <2>2, <2>3 DEF FinalizeIoError
<1>6. QED BY <1>2, <1>3, <1>4, <1>5 DEF Finalizer

LEMMA AttemptsIsPlain ==
    ASSUME IndInv, DecInv, LedgerInv, Attempts, ~PersistSubmitting, ~GiveUpFailed PROVE Plain
<1> USE DEF chainVars, diskVars, procVars, histVars, envVars
<1>1. decs \in Nat /\ ioErrs \in Nat BY DEF IndInv, TypeOK, CountsTypeOK
<1>2. pc \in {"attempt", "send", "response"} => call.ret \in OwnFrames
  <2>1. call.ret \in OwnFrames \cup ForeignFrames BY CallShapes DEF CallType
  <2>2. QED BY <2>1 DEF DecInv, Frames, PollPcs, FinPcs
<1>3. CASE ResolvePending \/ AlreadyFilled \/ ReadHolding \/ OrderSigned \/ Send
  <2>1. /\ UNCHANGED <<disk, closed, pages, decs, ioErrs>>
        /\ pc # "finNotify" /\ pc' # "page"
    BY <1>3 DEF ResolvePending, AlreadyFilled, ReadHolding, OrderSigned, Send, ReadyToOrder,
       Attempting
  <2>2. call'.sig = call.sig /\ call'.dec = call.dec
    <3>1. CASE ResolvePending BY <3>1, CallShapes DEF ResolvePending
    <3>2. CASE ReadHolding BY <3>2, CallShapes DEF ReadHolding
    <3>3. CASE AlreadyFilled \/ OrderSigned \/ Send BY <3>3 DEF AlreadyFilled, OrderSigned, Send
    <3>4. QED BY <1>3, <3>1, <3>2, <3>3
  <2>3. QED BY <1>1, <2>1, <2>2, StayIsPlain
<1>4. CASE FilledDelete \/ RefuseBelowFloor
  <2>1. /\ pc # "finNotify" /\ disk' = NoIntent /\ call' = NoCall /\ pc' \in {"down", "idle"}
        /\ UNCHANGED <<closed, pages, decs, ioErrs>>
    BY <1>4 DEF FilledDelete, RefuseBelowFloor, Return
  <2>2. QED BY <1>1, <2>1, FreshShapes, LeaveIsPlain
<1>5. CASE ExecuteSuccess
  <2>1. /\ pc = "response" /\ pc' = "poll" /\ UNCHANGED <<closed, pages, decs, ioErrs>>
        /\ disk' = IntentOf(call, "submitted", call.sig)
    BY <1>5 DEF ExecuteSuccess
  <2>2. call'.sig = call.sig /\ call'.dec = call.dec BY <1>5, CallShapes DEF ExecuteSuccess
  <2>3. call.sig # None /\ call.ret \in OwnFrames BY <1>2, <2>1 DEF IndInv, CallTracks
  <2>4. QED BY <2>1, <2>2, <2>3, EntryIsPlain
<1>6. CASE ExecuteAmbiguous \/ AttemptError
  <2>1. NextAttempt(call) /\ UNCHANGED <<disk, closed, pages, decs, ioErrs>> /\ pc # "finNotify"
    BY <1>6 DEF ExecuteAmbiguous, AttemptError, ReadyToOrder, Attempting
  <2>2. QED BY <2>1, RetryIsPlain
<1>7. CASE GiveUpUnresolved
  <2>1. /\ pc = "attempt" /\ call.sig # None /\ UNCHANGED <<closed, pages, decs, ioErrs>>
        /\ disk' = IntentOf(call, "submitted_unconfirmed", call.sig)
        /\ call' = NoCall /\ pc' \in {"down", "idle"}
    BY <1>7 DEF GiveUpUnresolved, Block, Return
  <2>2. QED BY <1>2, <2>1, FreshShapes, EntryIsPlain
<1>8. QED BY <1>3, <1>4, <1>5, <1>6, <1>7 DEF Attempts

LEMMA StepIsPlain ==
    ASSUME IndInv, DecInv, LedgerInv, [Next]_vars, ~PersistSubmitting, ~GiveUpFailed,
           ~HoldTerminal, ~PageHeld, ~OperatorAck
    PROVE  Plain
<1> USE DEF chainVars, diskVars, procVars, histVars, envVars
<1>1. decs \in Nat /\ ioErrs \in Nat BY DEF IndInv, TypeOK, CountsTypeOK
<1>2. CASE Environment \/ UNCHANGED vars
  <2>1. UNCHANGED <<disk, call, pc, closed, pages, decs, ioErrs>>
    BY <1>2 DEF Environment, Land, Expire, CatchUp, OperatorTrade, OperatorDispose, vars
  <2>2. QED BY <1>1, <2>1, StayIsPlain
<1>3. CASE Crash BY <1>1, <1>3, DieIsPlain DEF Crash
<1>4. QED
  BY <1>2, <1>3, EngineIsPlain, ResolverIsPlain, FinalizerIsPlain, AttemptsIsPlain
     DEF Next, Process

-----------------------------------------------------------------------------
(* The ledger and the transactions it names.                                 *)

\* Only FinalizeAppend writes the ledger; a transaction is signed by
\* PersistSubmitting and otherwise only moves on until it landed or failed.
TxOnward ==
    \/ UNCHANGED tx
    \/ PersistSubmitting
    \/ \E s \in Signatures, v \in {"sent", "landed", "failed"} :
         tx[s].st \in {"signed", "sent"} /\ tx' = [tx EXCEPT ![s].st = v]

LEMMA LedgerAndTx ==
    ASSUME IndInv, [Next]_vars PROVE TxOnward /\ (UNCHANGED ledger \/ FinalizeAppend)
<1> USE DEF chainVars, diskVars, procVars, histVars, envVars
<1>1. CASE UNCHANGED <<tx, ledger>> BY <1>1 DEF TxOnward
<1>2. ASSUME NEW s \in Signatures, Land(s) PROVE TxOnward /\ UNCHANGED ledger
  BY <1>2 DEF Land, MayStillLand, TxOnward
<1>3. CASE Send
  <2>1. call.sig \in Signatures /\ tx[call.sig].st = "signed"
    BY <1>3, SigTypes DEF Send, IndInv, CallTracks
  <2>2. QED BY <1>3, <2>1 DEF Send, TxOnward
<1>4. CASE PersistSubmitting BY <1>4 DEF PersistSubmitting, TxOnward
<1>5. CASE FinalizeAppend BY <1>5 DEF FinalizeAppend, TxOnward
<1>6. CASE Environment
  BY <1>1, <1>2, <1>6 DEF Environment, Expire, CatchUp, OperatorTrade, OperatorDispose,
     OperatorAck
<1>7. CASE Engine
  <2>1. CASE Resume \/ CycleSell \/ PanicSell
    BY <1>1, <2>1 DEF Resume, CycleSell, PanicSell, EnterSell
  <2>2. QED
    BY <1>1, <1>7, <2>1 DEF Engine, StartServer, ReconcileRead, SettleAbsent, ClearAbsent,
       HoldTerminal, PageHeld, ClearUnexecutable, CycleRead, CycleHold, StartPanic,
       PanicNothingHeld
<1>8. CASE Resolver
  BY <1>1, <1>8 DEF Resolver, PollError, PollFailed, PollConfirmed, PollPending, PollUnknown,
     PollBalance, PollBlockhashDead, PollBlockhashValid
<1>9. CASE Finalizer
  BY <1>1, <1>5, <1>9 DEF Finalizer, FinalizeDispose, FinalizeDelete, FinalizeNotify,
     FinalizeIoError
<1>10. CASE Attempts
  BY <1>1, <1>3, <1>4, <1>10 DEF Attempts, ResolvePending, AlreadyFilled, FilledDelete,
     ReadHolding, RefuseBelowFloor, OrderSigned, ExecuteSuccess, ExecuteAmbiguous,
     AttemptError, GiveUpUnresolved, GiveUpFailed
<1>11. CASE Crash BY <1>1, <1>11 DEF Crash
<1>12. CASE UNCHANGED vars BY <1>1, <1>12 DEF vars
<1>13. QED BY <1>6, <1>7, <1>8, <1>9, <1>10, <1>11, <1>12 DEF Next, Process

\* What a landed transaction is never changes again, and a new signature was
\* not signed before.
LEMMA LandedStays ==
    ASSUME IndInv, [Next]_vars, NEW s \in Signatures, tx[s].st = "landed"
    PROVE  tx'[s].st = "landed" /\ tx'[s].amt = tx[s].amt /\ tx'[s].reason = tx[s].reason
<1>1. TxOnward BY LedgerAndTx
<1>2. CASE PersistSubmitting
  <2>1. tx[sigs + 1].st = "unsigned"
    BY <1>2 DEF PersistSubmitting, IndInv, TypeOK, ChainTypeOK, Allotted
  <2>2. QED BY <1>2, <2>1 DEF PersistSubmitting, IndInv, TypeOK, ChainTypeOK
<1>3. ASSUME NEW t \in Signatures, NEW v \in {"sent", "landed", "failed"},
             tx[t].st \in {"signed", "sent"}, tx' = [tx EXCEPT ![t].st = v]
      PROVE  tx'[s].st = "landed" /\ tx'[s].amt = tx[s].amt /\ tx'[s].reason = tx[s].reason
  BY <1>3, TxFieldsKept
<1>4. QED BY <1>1, <1>2, <1>3 DEF TxOnward

LEMMA RowsLast ==
    ASSUME NEW T, NEW l \in Seq(T), NEW r \in T
    PROVE  \A i \in DOMAIN Append(l, r) :
             \/ i \in DOMAIN l /\ Append(l, r)[i] = l[i]
             \/ i = Len(l) + 1 /\ i \notin DOMAIN l /\ Append(l, r)[i] = r
<1>1. Len(l) \in Nat /\ DOMAIN l = 1..Len(l) /\ DOMAIN Append(l, r) = 1..(Len(l) + 1)
  OBVIOUS
<1>2. /\ \A i \in 1..Len(l) : Append(l, r)[i] = l[i]
      /\ Append(l, r)[Len(l) + 1] = r
  OBVIOUS
<1>3. QED BY <1>1, <1>2

\* The row _finalize_confirmed appends.
LEMMA AppendRow ==
    ASSUME IndInv, DecInv, LedgerInv, FinalizeAppend
    PROVE  /\ UNCHANGED <<tx, disk, call, ioErrs>> /\ pc' = "finNotify" /\ pc = "finAppend"
           /\ call.sig \in Signatures /\ tx[call.sig].st = "landed"
           /\ \A i \in DOMAIN ledger' :
                \/ i \in DOMAIN ledger /\ ledger'[i] = ledger[i]
                \/ /\ i = Len(ledger) + 1 /\ i \notin DOMAIN ledger
                   /\ ledger'[i] = [sig |-> call.sig, amt |-> call.amt, reason |-> call.why]
<1> DEFINE T == [sig : Signatures, amt : Amounts, reason : ReasonClasses]
           r == [sig |-> call.sig, amt |-> call.amt, reason |-> call.why]
<1>1. UNCHANGED <<tx, disk, call, ioErrs>> /\ pc' = "finNotify" /\ pc = "finAppend"
  BY DEF FinalizeAppend, chainVars, diskVars, envVars
<1>2. call.sig \in Signatures /\ tx[call.sig].st = "landed"
  BY <1>1, SigTypes DEF IndInv, CallTracks, FinPcs
<1>3. ledger \in Seq(T) /\ r \in T /\ ledger' = Append(ledger, r)
  BY <1>2 DEF FinalizeAppend, IndInv, TypeOK, DiskTypeOK, ProcTypeOK, CallType
<1> HIDE DEF T, r
<1>4. QED BY <1>1, <1>2, <1>3, RowsLast DEF r

LEMMA RowTypes ==
    ASSUME IndInv, NEW i \in DOMAIN ledger PROVE ledger[i].sig \in Signatures
<1> DEFINE T == [sig : Signatures, amt : Amounts, reason : ReasonClasses]
<1>1. ledger \in Seq(T) BY DEF IndInv, TypeOK, DiskTypeOK
<1>2. \A r \in T : r.sig \in Signatures OBVIOUS
<1> HIDE DEF T
<1>3. ledger[i] \in T BY <1>1
<1>4. QED BY <1>2, <1>3

LEMMA NextKeepsLedgerTruthful ==
    ASSUME IndInv, DecInv, LedgerInv, IndInv', [Next]_vars PROVE LedgerTruthful'
<1>1. \A i \in DOMAIN ledger : ledger[i].sig \in Signatures BY RowTypes
<1>2. ASSUME NEW i \in DOMAIN ledger
      PROVE  LET t == tx'[ledger[i].sig]
             IN  t.st = "landed" /\ t.amt = ledger[i].amt /\ t.reason = ledger[i].reason
  BY <1>1, LandedStays DEF LedgerInv, LedgerTruthful
<1>3. CASE UNCHANGED ledger BY <1>2, <1>3 DEF LedgerTruthful
<1>4. CASE FinalizeAppend
  <2>1. call.amt = tx[call.sig].amt /\ call.why = tx[call.sig].reason
    BY <1>4, AppendRow DEF DecInv, CallHonest
  <2>2. QED BY <1>2, <1>4, <2>1, AppendRow DEF LedgerTruthful
<1>5. QED BY <1>3, <1>4, LedgerAndTx

LEMMA NextKeepsBooked ==
    ASSUME IndInv, DecInv, LedgerInv, IndInv', [Next]_vars PROVE BookedForgotten' /\ BookedOnce'
<1>1. ioErrs \in Nat /\ ioErrs' \in Nat BY DEF IndInv, TypeOK, CountsTypeOK
<1>2. \A i \in DOMAIN ledger :
        ledger[i].sig \in Signatures /\ tx[ledger[i].sig].st = "landed"
  BY RowTypes DEF LedgerInv, LedgerTruthful
<1>3. CASE FinalizeAppend
  <2>1. disk.sig = None BY <1>3, AppendRow DEF DecInv, Frames
  <2>2. ASSUME ioErrs = 0 PROVE ~Booked(call.sig)
    BY <1>3, <2>2, AppendRow DEF LedgerInv, BookedForgotten
  <2>3. BookedForgotten'
    <3>1. \A s \in Signatures : Booked(s)' => Booked(s) \/ s = call.sig
      BY <1>3, AppendRow DEF Booked
    <3>2. QED BY <1>3, <2>1, <3>1, AppendRow DEF LedgerInv, BookedForgotten
  <2>4. BookedOnce'
    BY <1>3, <2>2, AppendRow DEF LedgerInv, BookedOnce, Booked
  <2>5. QED BY <2>3, <2>4
<1>4. CASE UNCHANGED ledger /\ PersistSubmitting
  <2>1. /\ tx[sigs + 1].st = "unsigned" /\ UNCHANGED ioErrs
        /\ disk'.sig = sigs + 1 /\ pc = "simulate"
    BY <1>4 DEF PersistSubmitting, envVars, IndInv, TypeOK, ChainTypeOK, Allotted
  <2>2. call'.sig = sigs + 1 BY <1>4, CallShapes DEF PersistSubmitting, CallType
  <2>3. ~Booked(sigs + 1) BY <1>2, <2>1 DEF Booked
  <2>4. QED BY <1>4, <2>1, <2>2, <2>3 DEF LedgerInv, BookedForgotten, BookedOnce, Booked
<1>5. CASE UNCHANGED ledger /\ SigsPass /\ ioErrs <= ioErrs'
  <2>1. pc = "finNotify" => disk.sig = None BY DEF DecInv, Frames
  <2>2. ioErrs' = 0 => ioErrs = 0 BY <1>1, <1>5
  <2>3. BookedForgotten'
    BY <1>5, <2>1, <2>2 DEF SigsPass, LedgerInv, BookedForgotten, Booked
  <2>4. BookedOnce' BY <1>5, <2>2 DEF LedgerInv, BookedOnce
  <2>5. QED BY <2>3, <2>4
<1>6. CASE UNCHANGED ledger /\ (GiveUpFailed \/ HoldTerminal \/ PageHeld \/ OperatorAck)
  <2>1. UNCHANGED ioErrs /\ pc # "finNotify"
    BY <1>6 DEF GiveUpFailed, HoldTerminal, PageHeld, OperatorAck, envVars
  <2>2. disk'.sig = disk.sig
    BY <1>6 DEF GiveUpFailed, HoldTerminal, PageHeld, OperatorAck, diskVars, IndInv, TypeOK,
       DiskTypeOK, IntentType
  <2>3. call'.sig \in {call.sig, None}
    BY <1>6, FreshShapes DEF GiveUpFailed, HoldTerminal, PageHeld, OperatorAck, procVars, Return
  <2>4. SigsPass BY <2>1, <2>2, <2>3 DEF SigsPass
  <2>5. QED BY <1>1, <1>5, <1>6, <2>1, <2>4
<1>7. QED BY <1>3, <1>4, <1>5, <1>6, LedgerAndTx, StepIsPlain DEF Plain

-----------------------------------------------------------------------------
(* The failed entry.                                                         *)

LEMMA NextKeepsHeld ==
    ASSUME IndInv, DecInv, LedgerInv, IndInv', [Next]_vars PROVE FailedEntry' /\ ClosedHeld'
<1>1. /\ decs \in Nat /\ pages \in Nat /\ closed \subseteq Decisions /\ disk \in IntentType
      /\ call.dec \in Decisions \cup {None}
  BY DEF IndInv, TypeOK, CountsTypeOK, HistTypeOK, DiskTypeOK, ProcTypeOK, CallType
<1>2. CASE Plain BY <1>2, PlainKeepsHeld DEF Plain
<1>3. CASE PersistSubmitting
  <2>1. /\ disk'.status = "submitting" /\ disk'.dec = call.dec /\ ~disk'.ack /\ ~disk'.blocked
        /\ UNCHANGED <<closed, pages, decs>> /\ pc' = "send"
    BY <1>3 DEF PersistSubmitting, histVars
  <2>2. call'.dec = call.dec BY <1>3, CallShapes DEF PersistSubmitting, CallType
  <2>3. QED BY <2>1, <2>2 DEF LedgerInv, FailedEntry, ClosedHeld
<1>4. CASE GiveUpFailed
  <2>1. /\ call' = NoCall /\ pc' # "page" /\ pages' = 0 /\ UNCHANGED decs
        /\ closed' = closed \cup {call.dec} /\ call.dec # None
    BY <1>4 DEF GiveUpFailed, Return, IndInv, CallAuthorised
  <2>2. disk'.status = "failed" /\ disk'.ack = disk.ack /\ disk'.dec = disk.dec
    BY <1>1, <1>4 DEF GiveUpFailed, IntentType
  <2>3. ~disk.ack /\ call.dec <= decs
    BY <2>1 DEF LedgerInv, FailedEntry, DecInv, DecisionsAllotted
  <2>4. QED BY <1>1, <2>1, <2>2, <2>3, FreshShapes DEF LedgerInv, FailedEntry, ClosedHeld
<1>5. CASE HoldTerminal
  <2>1. /\ UNCHANGED <<closed, pages, decs>> /\ call' \in {call, NoCall} /\ disk.status = "failed"
        /\ ~disk.ack
        /\ \/ UNCHANGED disk /\ pc' # "page"
           \/ /\ ~disk.blocked /\ disk' = [disk EXCEPT !.blocked = TRUE]
    BY <1>5 DEF HoldTerminal, TerminalIntent, Return, histVars
  <2>2. /\ disk'.status = "failed" /\ ~disk'.ack /\ disk'.dec = disk.dec
        /\ \/ UNCHANGED disk /\ pc' # "page"
           \/ ~disk.blocked /\ disk'.blocked
    BY <1>1, <2>1 DEF IntentType
  <2>3. call'.dec = None /\ call'.sig = None
    <3>1. pc = "reconcile" BY <1>5 DEF HoldTerminal
    <3>2. call.dec = None /\ call.sig = None
      BY <3>1 DEF IndInv, CallTracks, DecInv, Frames, QuietPcs
    <3>3. QED BY <2>1, <3>2, FreshShapes
  <2>4. QED BY <1>1, <2>1, <2>2, <2>3 DEF LedgerInv, FailedEntry, ClosedHeld
<1>6. CASE PageHeld
  <2>1. /\ pages' = pages + 1 /\ pc = "page" /\ pc' # "page" /\ call' = NoCall
        /\ UNCHANGED <<disk, closed, decs>>
    BY <1>6 DEF PageHeld, Return, diskVars
  <2>2. QED BY <1>1, <2>1, FreshShapes DEF LedgerInv, FailedEntry, ClosedHeld
<1>7. CASE OperatorAck
  <2>1. /\ closed' = closed \ {disk.dec} /\ UNCHANGED <<pages, decs, pc, call>> /\ pc = "down"
        /\ disk.status = "failed" /\ disk' = [disk EXCEPT !.ack = TRUE]
    BY <1>7 DEF OperatorAck, procVars
  <2>2. /\ disk'.status = "failed" /\ disk'.dec = disk.dec /\ disk'.blocked = disk.blocked
    BY <1>1, <2>1 DEF IntentType
  <2>3. QED BY <1>1, <2>1, <2>2 DEF LedgerInv, FailedEntry, ClosedHeld
<1>8. QED BY <1>2, <1>3, <1>4, <1>5, <1>6, <1>7, StepIsPlain

-----------------------------------------------------------------------------

LEMMA LedgerInvHolds == Spec => []LedgerInv
<1>1. Init => LedgerInv
  <2> SUFFICES ASSUME Init PROVE LedgerInv OBVIOUS
  <2>1. LedgerTruthful /\ BookedForgotten /\ BookedOnce
    BY DEF Init, LedgerTruthful, BookedForgotten, BookedOnce, Booked
  <2>2. FailedEntry /\ ClosedHeld BY FreshShapes DEF Init, FailedEntry, ClosedHeld
  <2>3. QED BY <2>1, <2>2 DEF LedgerInv
<1>2. IndInv /\ IndInv' /\ DecInv /\ LedgerInv /\ [Next]_vars => LedgerInv'
  BY NextKeepsLedgerTruthful, NextKeepsBooked, NextKeepsHeld DEF LedgerInv
<1>3. QED BY <1>1, <1>2, InvHolds, DecInvHolds, PTL DEF Spec

\* Every row of trades.csv is a sale that landed, with the amount and reason of
\* the decision that made it, whichever call books it.
THEOREM RowsTruthful == Spec => []LedgerTruthful
<1>1. LedgerInv => LedgerTruthful BY DEF LedgerInv
<1>2. QED BY <1>1, LedgerInvHolds, PTL

\* As long as no write fails inside _finalize_confirmed, no crash, restart or
\* resume books a sale a second time.
THEOREM SaleBookedOnce == Spec => []BookedOnce
<1>1. LedgerInv => BookedOnce BY DEF LedgerInv
<1>2. QED BY <1>1, LedgerInvHolds, PTL

\* However often the process restarts, a failed intent is paged for at most
\* once.
THEOREM FailedPagedOnce == Spec => []HeldPagedOnce
<1>1. LedgerInv => HeldPagedOnce BY DEF LedgerInv, FailedEntry, HeldPagedOnce
<1>2. QED BY <1>1, LedgerInvHolds, PTL

\* No step signs a transaction for a decision whose intent ended as failed and
\* was not acknowledged by the operator.
THEOREM FailedNotReplayed == Spec => FailedIntentNotReplayed
<1> DEFINE A == \A s \in Signatures :
                  tx[s].st = "unsigned" /\ tx'[s].st = "signed" => tx'[s].dec \notin closed
<1>1. ASSUME IndInv, LedgerInv, [Next]_vars, NEW s \in Signatures,
             tx[s].st = "unsigned", tx'[s].st = "signed"
      PROVE  tx'[s].dec \notin closed
  <2>1. TxOnward BY <1>1, LedgerAndTx
  <2>2. ~(\E t \in Signatures, v \in {"sent", "landed", "failed"} :
            tx[t].st \in {"signed", "sent"} /\ tx' = [tx EXCEPT ![t].st = v])
    BY <1>1, TxFieldsKept
  <2>3. PersistSubmitting BY <1>1, <2>1, <2>2 DEF TxOnward
  <2>4. sigs + 1 \in Signatures /\ tx'[sigs + 1].dec = call.dec
    BY <1>1, <2>3 DEF PersistSubmitting, IndInv, TypeOK, ChainTypeOK
  <2>5. s = sigs + 1 BY <1>1, <2>3, <2>4 DEF PersistSubmitting, IndInv, TypeOK, ChainTypeOK
  <2>6. QED BY <1>1, <2>4, <2>5 DEF LedgerInv, ClosedHeld
<1>2. IndInv /\ LedgerInv /\ [Next]_vars => [A]_vars BY <1>1
<1>3. QED BY <1>2, InvHolds, LedgerInvHolds, PTL DEF Spec, FailedIntentNotReplayed

-----------------------------------------------------------------------------
(* A dispose mark is used once.                                              *)

\* A dispose sale uses up its mark when _finalize_confirmed clears it. Until then
\* the mark is open: still set, or held by the stored entry or by the call that
\* was made under it. A crash or a failed write may make a sale that was settled
\* the entry's again.
IsDispose(s) == /\ tx[s].st = "landed" /\ tx[s].reason = "dispose"
                /\ dropped[s] \notin {"skip", "race"}
Settled == {s \in Signatures : IsDispose(s) /\ (s # disk.sig \/ pc = "finDelete")}
BookingPcs == {"finDelete", "finAppend", "finNotify"}
DiskOpen == disk.reason = "dispose" /\ pc # "finDelete"
CallOpen ==
    /\ call.reason = "dispose" /\ pc \notin BookingPcs
    /\ call.ret \in OwnFrames /\ call.sig # None => tx[call.sig].st # "landed"
Open == disposeOn \/ DiskOpen \/ CallOpen

\* Every settled sale has a mark of its own, and so has the open one.
MarksCover ==
    /\ Cardinality(Settled) <= marks
    /\ Open => Cardinality(Settled) < marks
OwnReason == call.ret \in OwnFrames /\ call.sig # None => call.why = call.reason
EmptyEntry == disk.dec = None => disk.reason # "dispose"
MarkInv == MarksCover /\ OwnReason /\ EmptyEntry

-----------------------------------------------------------------------------
(* What a step may do with the marks.                                        *)

Keeps == Settled' \subseteq Settled /\ (Open' => Open) /\ marks' = marks
Reopens == marks' = marks /\ \E s \in Settled : Settled' \subseteq Settled \ {s}
Settles == /\ Open /\ ~Open' /\ marks' = marks
           /\ \E s : Settled' \subseteq Settled \union {s}
Places == Settled' \subseteq Settled /\ marks' = marks + 1
Accounts == Keeps \/ Reopens \/ Settles \/ Places

LEMMA SettledFinite ==
    ASSUME IndInv PROVE IsFiniteSet(Settled) /\ Cardinality(Settled) \in Nat /\ marks \in Nat
<1>1. MaxSignatures \in Nat BY BoundsAssumption
<1>2. IsFiniteSet(Signatures) BY <1>1, FS_Interval
<1>3. Settled \in SUBSET Signatures BY DEF Settled
<1>4. IsFiniteSet(Settled) BY <1>2, <1>3, FS_Subset
<1>5. Cardinality(Settled) \in Nat BY <1>4, FS_CardinalityType
<1>6. marks \in Nat BY DEF IndInv, TypeOK, HistTypeOK
<1>7. QED BY <1>4, <1>5, <1>6

LEMMA AccountsCover ==
    ASSUME IndInv, IndInv', MarksCover, Accounts PROVE MarksCover'
<1>1. PICK S : S = Settled OBVIOUS
<1>2. PICK T : T = Settled' OBVIOUS
<1>3. PICK m : m = marks' OBVIOUS
<1>4. /\ IsFiniteSet(S) /\ Cardinality(S) \in Nat /\ marks \in Nat
      /\ Cardinality(S) <= marks /\ (Open => Cardinality(S) < marks)
  BY <1>1, SettledFinite DEF MarksCover
<1>5. T \subseteq S => Cardinality(T) \in Nat /\ Cardinality(T) <= Cardinality(S)
  BY <1>4, FS_Subset, FS_CardinalityType
<1>6. CASE Keeps
  <2>1. T \subseteq S /\ (Open' => Open) /\ m = marks BY <1>1, <1>2, <1>3, <1>6 DEF Keeps
  <2>2. Cardinality(T) <= m /\ (Open' => Cardinality(T) < m) BY <1>4, <1>5, <2>1
  <2>3. QED BY <1>2, <1>3, <2>2 DEF MarksCover
<1>7. CASE Reopens
  <2>1. PICK s \in S : T \subseteq S \ {s} BY <1>1, <1>2, <1>7 DEF Reopens
  <2>2. /\ IsFiniteSet(S \ {s}) /\ Cardinality(S \ {s}) = Cardinality(S) - 1
    BY <1>4, FS_RemoveElement
  <2>3. Cardinality(S \ {s}) \in Nat BY <2>2, FS_CardinalityType
  <2>4. Cardinality(T) \in Nat /\ Cardinality(T) <= Cardinality(S \ {s})
    BY <2>1, <2>2, FS_Subset, FS_CardinalityType
  <2>5. m = marks BY <1>3, <1>7 DEF Reopens
  <2>6. Cardinality(T) < m BY <1>4, <2>2, <2>4, <2>5
  <2>7. Cardinality(T) <= m BY <1>4, <2>4, <2>5, <2>6
  <2>8. QED BY <1>2, <1>3, <2>6, <2>7 DEF MarksCover
<1>8. CASE Settles
  <2>1. PICK s : T \subseteq S \union {s} BY <1>1, <1>2, <1>8 DEF Settles
  <2>2. IsFiniteSet(S \union {s}) /\ Cardinality(S \union {s}) \in {Cardinality(S), Cardinality(S) + 1}
    BY <1>4, FS_AddElement
  <2>3. Cardinality(T) \in Nat /\ Cardinality(T) <= Cardinality(S \union {s})
    BY <2>1, <2>2, FS_Subset, FS_CardinalityType
  <2>4. m = marks /\ Cardinality(S) < marks /\ ~Open' BY <1>3, <1>4, <1>8 DEF Settles
  <2>5. Cardinality(T) <= m BY <1>4, <2>2, <2>3, <2>4
  <2>6. QED BY <1>2, <1>3, <2>4, <2>5 DEF MarksCover
<1>9. CASE Places
  <2>1. T \subseteq S /\ m = marks + 1 BY <1>1, <1>2, <1>3, <1>9 DEF Places
  <2>2. Cardinality(T) <= m /\ Cardinality(T) < m BY <1>4, <1>5, <2>1
  <2>3. QED BY <1>2, <1>3, <2>2 DEF MarksCover
<1>10. QED BY <1>6, <1>7, <1>8, <1>9 DEF Accounts

\* The entry and the locals describe one transaction, and a mark is with it.
LEMMA TrackedSale ==
    ASSUME IndInv, DecInv
    PROVE  /\ disk.sig # None => disk.reason = tx[disk.sig].reason /\ disk.sig \in Signatures
                                 /\ dropped[disk.sig] = "no"
           /\ call.sig # None => call.why = tx[call.sig].reason /\ call.sig \in Signatures
                                 /\ dropped[call.sig] = "no"
                                 /\ (disk.sig = None \/ disk.sig = call.sig)
           /\ None \notin Signatures
           /\ call.ret \in OwnFrames \cup ForeignFrames
<1>1. disk.sig \in Signatures \cup {None} /\ call.sig \in Signatures \cup {None} BY SigTypes
<1>2. call.ret \in OwnFrames \cup ForeignFrames BY CallShapes DEF CallType
<1>3. None \notin Signatures OBVIOUS
<1>4. QED
  BY <1>1, <1>2, <1>3 DEF DecInv, DiskHonest, CallHonest, TrackedNotDropped, IndInv, CallTracks

LEMMA ReasonShapes ==
    ASSUME IndInv
    PROVE  /\ NoCall.reason = "exit" /\ NoIntent.reason = "exit"
           /\ [call EXCEPT !.attempt = @ + 1].reason = call.reason
           /\ [call EXCEPT !.poll = @ + 1].reason = call.reason
           /\ \A n : [call EXCEPT !.cur = n].reason = call.reason
           /\ \A r : [call EXCEPT !.ret = r, !.poll = 1].reason = call.reason
           /\ [call EXCEPT !.sig = None].reason = call.reason
           /\ [[call EXCEPT !.sig = None] EXCEPT !.attempt = @ + 1].reason = call.reason
BY CallShapes DEF CallType, NoCall, NoIntent

\* A step that neither books nor clears anything.
LEMMA Untouched ==
    ASSUME UNCHANGED <<tx, dropped, marks>>, disposeOn' => disposeOn,
           pc # "finDelete", pc' # "finDelete", disk.sig = None \/ disk'.sig = disk.sig,
           disk'.reason = "dispose" => Open, CallOpen' => Open, None \notin Signatures
    PROVE  Keeps
<1>1. Settled' \subseteq Settled BY DEF Settled, IsDispose
<1>2. Open' => Open BY DEF Open, DiskOpen
<1>3. QED BY <1>1, <1>2 DEF Keeps

Keeping == Accounts /\ OwnReason' /\ EmptyEntry'

\* The call ends and the entry stays or, without a signature, goes.
LEMMA LeaveMarks ==
    ASSUME IndInv, DecInv, MarkInv, UNCHANGED <<tx, dropped, marks, disposeOn>>,
           pc # "finDelete", pc' # "finDelete", disk' = disk \/ (disk' = NoIntent /\ disk.sig = None),
           call'.reason = "exit", call'.sig = None
    PROVE  Keeping
<1>1. disk.sig = None \/ disk'.sig = disk.sig OBVIOUS
<1>2. disk'.reason = "dispose" => Open BY ReasonShapes DEF Open, DiskOpen
<1>3. ~CallOpen' BY DEF CallOpen
<1>4. Keeps BY <1>1, <1>2, <1>3, TrackedSale, Untouched
<1>5. EmptyEntry' BY ReasonShapes DEF MarkInv, EmptyEntry
<1>6. QED BY <1>4, <1>5 DEF Keeping, Accounts, OwnReason

\* The call goes on with the same transaction and the same entry.
LEMMA StayMarks ==
    ASSUME IndInv, DecInv, MarkInv, UNCHANGED <<tx, dropped, marks>>, disposeOn' => disposeOn,
           pc # "finDelete", pc' # "finDelete", pc \in BookingPcs => pc' \in BookingPcs,
           disk'.sig = disk.sig /\ disk'.reason = disk.reason /\ disk'.dec = disk.dec,
           call'.reason = call.reason /\ call'.sig = call.sig /\ call'.why = call.why,
           call'.ret \in OwnFrames <=> call.ret \in OwnFrames
    PROVE  Keeping
<1>1. disk'.reason = "dispose" => Open BY DEF Open, DiskOpen
<1>2. CallOpen' => Open BY DEF CallOpen, Open
<1>3. Keeps BY <1>1, <1>2, TrackedSale, Untouched
<1>4. OwnReason' /\ EmptyEntry' BY DEF MarkInv, OwnReason, EmptyEntry
<1>5. QED BY <1>3, <1>4 DEF Keeping, Accounts

\* The booking is cut short: a settled sale that is still on disk is the entry's
\* again, and its mark is open.
LEMMA BackOut ==
    ASSUME IndInv, DecInv, MarkInv, UNCHANGED <<tx, disk, disposeOn, marks>>, pc' # "finDelete",
           \A s \in Signatures : IsDispose(s)' => IsDispose(s), CallOpen' => CallOpen
    PROVE  Accounts
<1>1. CASE pc # "finDelete"
  <2>1. Settled' \subseteq Settled BY <1>1 DEF Settled
  <2>2. Open' => Open BY <1>1 DEF Open, DiskOpen
  <2>3. QED BY <2>1, <2>2 DEF Accounts, Keeps
<1>2. CASE pc = "finDelete" /\ disk.reason # "dispose"
  <2>1. Settled' \subseteq Settled BY <1>2 DEF Settled
  <2>2. Open' => Open BY <1>2 DEF Open, DiskOpen
  <2>3. QED BY <2>1, <2>2 DEF Accounts, Keeps
<1>3. CASE pc = "finDelete" /\ disk.reason = "dispose"
  <2>1. call.sig # None /\ tx[call.sig].st = "landed" BY <1>3 DEF IndInv, CallTracks, FinPcs
  <2>2. disk.sig # None BY <1>3, <2>1 DEF MarkInv, EmptyEntry, DecInv, Frames
  <2>3. disk.sig \in Signatures /\ IsDispose(disk.sig)
    BY <1>3, <2>1, <2>2, TrackedSale DEF IsDispose
  <2>4. disk.sig \in Settled BY <1>3, <2>3 DEF Settled
  <2>5. Settled' \subseteq Settled \ {disk.sig} BY <1>3 DEF Settled
  <2>6. QED BY <2>4, <2>5 DEF Accounts, Reopens
<1>4. QED BY <1>1, <1>2, <1>3

LEMMA DieMarks ==
    ASSUME IndInv, DecInv, MarkInv, Die, UNCHANGED <<tx, disk, disposeOn, marks>>
    PROVE  Keeping
<1>1. pc' = "down" /\ call'.sig = None /\ call'.reason = "exit"
  BY FreshShapes, ReasonShapes DEF Die
<1>2. \A s \in Signatures : IsDispose(s)' => IsDispose(s)
  BY DEF Die, IsDispose
<1>3. ~CallOpen' BY <1>1 DEF CallOpen
<1>4. Accounts BY <1>1, <1>2, <1>3, BackOut
<1>5. QED BY <1>1, <1>4 DEF Keeping, OwnReason, MarkInv, EmptyEntry

LEMMA RetryMarks ==
    ASSUME IndInv, DecInv, MarkInv, NextAttempt(call), call.ret \in OwnFrames,
           UNCHANGED <<tx, disk, disposeOn, marks, dropped>>
    PROVE  Keeping
<1>1. /\ pc' = "attempt" /\ call'.sig = call.sig /\ call'.why = call.why
      /\ call'.reason = call.reason /\ call'.ret = call.ret
  BY CallShapes, ReasonShapes DEF NextAttempt
<1>2. \A s \in Signatures : IsDispose(s)' => IsDispose(s) BY DEF IsDispose
<1>3. pc \in BookingPcs => call.sig # None /\ tx[call.sig].st = "landed"
  BY DEF BookingPcs, IndInv, CallTracks, FinPcs
<1>4. CallOpen' => CallOpen BY <1>1, <1>3 DEF CallOpen
<1>5. Accounts BY <1>1, <1>2, <1>4, BackOut
<1>6. QED BY <1>1, <1>5 DEF Keeping, OwnReason, MarkInv, EmptyEntry

\* The entry is written for the transaction in hand.
LEMMA EntryMarks ==
    ASSUME IndInv, DecInv, MarkInv, NEW st, disk' = IntentOf(call, st, call.sig),
           call.sig # None, pc \notin FinPcs, pc' # "finDelete",
           UNCHANGED <<tx, dropped, marks, disposeOn>>, CallOpen' => CallOpen
    PROVE  Accounts /\ EmptyEntry'
<1>1. disk'.sig = call.sig /\ disk'.reason = call.why /\ disk'.dec = tx[call.sig].dec
  BY DEF IntentOf
<1>2. EmptyEntry' BY <1>1, SigTypes DEF EmptyEntry
<1>3. pc # "finDelete" BY DEF FinPcs
<1>4. CASE disk.sig = call.sig
  <2>1. disk'.reason = "dispose" => Open BY <1>1, <1>3, <1>4, TrackedSale DEF Open, DiskOpen
  <2>2. Keeps BY <1>1, <1>3, <1>4, <2>1, TrackedSale, Untouched DEF Open
  <2>3. QED BY <1>2, <2>2 DEF Accounts
<1>5. CASE disk.sig = None /\ call.why # "dispose"
  <2>1. Keeps BY <1>1, <1>3, <1>5, TrackedSale, Untouched DEF Open
  <2>2. QED BY <1>2, <2>1 DEF Accounts
<1>6. CASE disk.sig = None /\ call.why = "dispose"
  <2>1. tx[call.sig].st = "landed" BY <1>6 DEF IndInv, CallTracks
  <2>2. call.sig \in Settled BY <1>6, <2>1, TrackedSale DEF Settled, IsDispose
  <2>3. Settled' \subseteq Settled \ {call.sig}
    BY <1>1, <1>6, TrackedSale DEF Settled, IsDispose
  <2>4. QED BY <1>2, <2>2, <2>3 DEF Accounts, Reopens
<1>7. QED BY <1>4, <1>5, <1>6, TrackedSale

\* A new intent takes over the mark of the decision or of the entry before it.
LEMMA IntentMarks ==
    ASSUME IndInv, DecInv, MarkInv, NEW c \in CallType, WriteIntent(c),
           c.reason = "dispose" => Open, UNCHANGED <<tx, disposeOn, marks>>,
           \A s \in Signatures : IsDispose(s)' => IsDispose(s) /\ s # disk.sig
    PROVE  Keeping
<1>1. /\ disk'.sig = None /\ disk'.reason = c.reason /\ disk'.dec # None
  BY SigTypes DEF WriteIntent, CallType
<1>2. call'.reason = c.reason /\ call'.sig = None /\ pc' = "attempt"
  BY DEF WriteIntent, CallType
<1>3. Settled' \subseteq Settled BY <1>2 DEF Settled
<1>4. Open' => Open BY <1>1, <1>2 DEF Open, DiskOpen, CallOpen
<1>5. Keeps BY <1>3, <1>4 DEF Keeps
<1>6. QED BY <1>1, <1>2, <1>5 DEF Keeping, Accounts, OwnReason, EmptyEntry

LEMMA EnterSellMarks ==
    ASSUME IndInv, DecInv, MarkInv, NEW src \in {"cycle", "reconcile", "panic"},
           NEW obs \in Amounts, NEW req \in Amounts,
           NEW reason \in ReasonClasses, NEW dec \in {None, disk.dec},
           pc \in QuietPcs, reason = "dispose" => Open,
           EnterSell(src, obs, req, reason, dec)
    PROVE  Keeping
<1> DEFINE c == [NoCall EXCEPT !.src = src, !.obs = obs, !.req = req, !.reason = reason,
                               !.dec = dec]
<1>1. c \in CallType /\ c.reason = reason
  BY NoCallType, SigTypes DEF CallType, NoCall
<1>2. UNCHANGED <<tx, dropped, disposeOn, marks>> /\ pc # "finDelete"
  BY DEF EnterSell, chainVars, QuietPcs
<1>3. CASE UNCHANGED disk /\ call' = NoCall /\ pc' \in {"down", "idle"}
  BY <1>2, <1>3, FreshShapes, ReasonShapes, LeaveMarks
<1>4. CASE Resolving(c, disk, "prior") /\ UNCHANGED disk
  <2>1. call'.reason = reason /\ call'.ret = "prior" /\ pc' = "poll"
    BY <1>1, <1>4 DEF Resolving, CallType
  <2>2. disk'.reason = "dispose" => Open BY <1>2, <1>4 DEF Open, DiskOpen
  <2>3. CallOpen' => Open BY <2>1 DEF CallOpen
  <2>4. Keeps BY <1>2, <1>4, <2>1, <2>2, <2>3, TrackedSale, Untouched
  <2>5. QED BY <1>4, <2>1, <2>4 DEF Keeping, Accounts, OwnReason, MarkInv, EmptyEntry
<1>5. CASE ~InFlight(disk) /\ WriteIntent(c)
  <2>1. disk.sig = None BY <1>5 DEF InFlight, IndInv, DiskTracks
  <2>2. \A s \in Signatures : IsDispose(s)' => IsDispose(s) /\ s # disk.sig
    BY <1>2, <2>1, TrackedSale DEF IsDispose
  <2> HIDE DEF c
  <2>3. QED BY <1>1, <1>2, <1>5, <2>2, IntentMarks
<1>6. QED BY <1>3, <1>4, <1>5 DEF EnterSell

\* A transaction is declared dead: if it did land, it is no longer counted.
LEMMA DeadMarks ==
    ASSUME IndInv, DecInv, MarkInv, Dead, pc \in PollPcs, UNCHANGED <<tx, disposeOn, marks>>
    PROVE  Keeping
<1>1. /\ call.sig # None /\ call.sig \in Signatures /\ dropped \in [Signatures -> {"no", "skip", "race", "crash"}]
      /\ disk.sig \in {None, call.sig} /\ pc # "finDelete" /\ pc \notin BookingPcs
  BY TrackedSale DEF IndInv, CallTracks, TypeOK, HistTypeOK, PollPcs, BookingPcs
<1>2. \A s \in Signatures : IsDispose(s)' => IsDispose(s) /\ s # call.sig
  BY <1>1 DEF Dead, IsDispose
<1>3. \A s \in Signatures : IsDispose(s)' => IsDispose(s) /\ s # disk.sig
  BY <1>1, <1>2, TrackedSale
<1>4. CASE call.ret = "prior" /\ WriteIntent(call)
  <2>1. call.reason = "dispose" => Open BY <1>1, <1>4 DEF Open, CallOpen
  <2>2. QED BY <1>3, <1>4, <2>1, CallShapes, IntentMarks
<1>5. CASE disk' = NoIntent /\ Return
  <2>1. call'.sig = None /\ call'.reason = "exit" /\ pc' # "finDelete" /\ disk'.reason = "exit"
    BY <1>5, FreshShapes, ReasonShapes DEF Return
  <2>2. Settled' \subseteq Settled BY <1>3, <2>1 DEF Settled
  <2>3. Open' => Open BY <2>1 DEF Open, DiskOpen, CallOpen
  <2>4. QED BY <2>1, <2>2, <2>3 DEF Keeping, Accounts, Keeps, OwnReason, EmptyEntry
<1>6. CASE /\ call.ret \in OwnFrames /\ ClearPendingSignature
           /\ \/ pc' = "hold" /\ call' = [call EXCEPT !.sig = None]
              \/ NextAttempt([call EXCEPT !.sig = None])
  <2>1. disk'.sig = None /\ disk'.reason = call.why /\ disk'.dec = tx[call.sig].dec
    BY <1>6 DEF ClearPendingSignature, IntentOf
  <2>2. call'.sig = None /\ call'.reason = call.reason /\ pc' \in {"hold", "attempt"}
    BY <1>6, CallShapes, ReasonShapes DEF NextAttempt, CallType
  <2>3. OwnReason' /\ EmptyEntry' BY <1>1, <2>1, <2>2, SigTypes DEF OwnReason, EmptyEntry
  <2>4. call.why = call.reason BY <1>1, <1>6 DEF MarkInv, OwnReason
  <2>5. Settled' \subseteq Settled \ {call.sig}
    BY <1>1, <1>2, <1>3, <2>2, TrackedSale DEF Settled
  <2>6. CASE call.why # "dispose"
    <3>1. Open' => Open BY <2>1, <2>2, <2>4, <2>6 DEF Open, DiskOpen, CallOpen
    <3>2. QED BY <2>3, <2>5, <3>1 DEF Keeping, Accounts, Keeps
  <2>7. CASE call.why = "dispose" /\ (disk.sig = call.sig \/ tx[call.sig].st # "landed")
    <3>1. Open BY <1>1, <1>6, <2>4, <2>7, TrackedSale DEF Open, DiskOpen, CallOpen
    <3>2. QED BY <2>3, <2>5, <3>1 DEF Keeping, Accounts, Keeps
  <2>8. CASE call.why = "dispose" /\ disk.sig = None /\ tx[call.sig].st = "landed"
    <3>1. call.sig \in Settled BY <1>1, <2>8, TrackedSale DEF Settled, IsDispose
    <3>2. QED BY <2>3, <2>5, <3>1 DEF Keeping, Accounts, Reopens
  <2>9. QED BY <1>1, <2>6, <2>7, <2>8
<1>7. QED BY <1>4, <1>5, <1>6 DEF Dead

LEMMA NextPollMarks ==
    ASSUME IndInv, DecInv, MarkInv, NextPoll, pc \in PollPcs,
           UNCHANGED <<tx, dropped, marks, disposeOn>>
    PROVE  Keeping
<1>1. call.sig # None /\ pc \notin FinPcs /\ pc # "finDelete" /\ pc \notin BookingPcs
  BY DEF IndInv, CallTracks, PollPcs, FinPcs, BookingPcs
<1>2. CASE pc' = "poll" /\ call' = [call EXCEPT !.poll = @ + 1] /\ UNCHANGED disk
  BY <1>1, <1>2, CallShapes, ReasonShapes, StayMarks
<1>3. CASE Block
  <2>1. /\ call' = NoCall /\ pc' # "finDelete"
        /\ disk' = IntentOf(call, "submitted_unconfirmed", call.sig)
    BY <1>3 DEF Block, Return
  <2>2. call'.sig = None /\ ~CallOpen' BY <2>1, FreshShapes, ReasonShapes DEF CallOpen
  <2>3. QED BY <1>1, <2>1, <2>2, EntryMarks DEF Keeping, OwnReason
<1>4. QED BY <1>2, <1>3 DEF NextPoll

-----------------------------------------------------------------------------
(* The steps.                                                                *)

LEMMA EngineMarks == ASSUME IndInv, DecInv, MarkInv, Engine PROVE Keeping
<1> USE DEF chainVars, diskVars, procVars, histVars, envVars
<1>1. CASE StartServer \/ CycleHold \/ PanicNothingHeld \/ ReconcileRead \/ CycleRead \/ StartPanic
           \/ PageHeld
  <2>1. /\ pc \in QuietPcs /\ pc' \in QuietPcs
        /\ UNCHANGED <<disk, tx, dropped, marks, disposeOn>>
    BY <1>1 DEF StartServer, CycleHold, PanicNothingHeld, ReconcileRead, CycleRead, StartPanic,
       PageHeld, Return, QuietPcs
  <2>2. CASE UNCHANGED call
    BY <2>1, <2>2, StayMarks DEF QuietPcs, BookingPcs
  <2>3. CASE call'.sig = None /\ call'.reason = "exit"
    BY <2>1, <2>3, LeaveMarks DEF QuietPcs
  <2>4. call' = call \/ (call'.sig = None /\ call'.reason = "exit")
    <3>1. CASE call' = NoCall BY <3>1, FreshShapes, ReasonShapes
    <3>2. CASE CycleRead BY <3>2 DEF CycleRead, NoCall
    <3>3. CASE ReconcileRead BY <3>3 DEF ReconcileRead, NoCall
    <3>4. CASE StartPanic BY <3>4 DEF StartPanic, NoCall
    <3>5. QED
      BY <1>1, <3>1, <3>2, <3>3, <3>4 DEF StartServer, CycleHold, PanicNothingHeld, PageHeld, Return
  <2>5. QED BY <2>2, <2>3, <2>4
<1>2. CASE SettleAbsent
  <2>1. /\ pc = "reconcile" /\ Resolving(call, disk, "absent")
        /\ UNCHANGED <<disk, tx, dropped, marks, disposeOn>>
    BY <1>2 DEF SettleAbsent
  <2>2. call'.ret = "absent" /\ call'.reason = call.reason /\ pc' = "poll"
    BY <2>1, CallShapes DEF Resolving, CallType
  <2>3. call.sig = None BY <2>1 DEF IndInv, CallTracks, QuietPcs
  <2>4. CallOpen' => Open BY <2>1, <2>2, <2>3 DEF CallOpen, Open, BookingPcs
  <2>5. disk'.reason = "dispose" => Open BY <2>1 DEF Open, DiskOpen
  <2>6. Keeps BY <2>1, <2>2, <2>4, <2>5, TrackedSale, Untouched
  <2>7. QED BY <2>1, <2>2, <2>6 DEF Keeping, Accounts, OwnReason, MarkInv, EmptyEntry
<1>3. CASE ClearAbsent
  <2>1. /\ pc = "reconcile" /\ disk' = NoIntent /\ call' = NoCall /\ pc' \in {"down", "idle"}
        /\ ~InFlight(disk) /\ UNCHANGED <<tx, dropped, marks, disposeOn>>
    BY <1>3 DEF ClearAbsent, Return
  <2>2. disk.sig = None BY <2>1 DEF InFlight, IndInv, DiskTracks
  <2>3. QED BY <2>1, <2>2, FreshShapes, ReasonShapes, LeaveMarks
<1>4. CASE ClearUnexecutable
  <2>1. /\ pc = "reconcile" /\ disk' = NoIntent /\ call' = NoCall /\ pc' \in {"down", "idle"}
        /\ UNCHANGED <<tx, marks, disposeOn>>
        /\ dropped' = IF disk.sig = None THEN dropped ELSE [dropped EXCEPT ![disk.sig] = "skip"]
    BY <1>4 DEF ClearUnexecutable, Return
  <2>2. \A s \in Signatures : IsDispose(s)' => IsDispose(s) /\ s # disk.sig
    <3>1. dropped \in [Signatures -> {"no", "skip", "race", "crash"}]
      BY DEF IndInv, TypeOK, HistTypeOK
    <3>2. QED BY <2>1, <3>1, TrackedSale DEF IsDispose
  <2>3. call'.sig = None /\ call'.reason = "exit" /\ disk'.reason = "exit"
    BY <2>1, FreshShapes, ReasonShapes
  <2>4. Settled' \subseteq Settled BY <2>1, <2>2 DEF Settled
  <2>5. Open' => Open BY <2>1, <2>3 DEF Open, DiskOpen, CallOpen
  <2>6. QED BY <2>1, <2>3, <2>4, <2>5 DEF Keeping, Accounts, Keeps, OwnReason, EmptyEntry
<1>5. CASE HoldTerminal
  <2>1. /\ pc = "reconcile" /\ UNCHANGED <<tx, dropped, marks, disposeOn>> /\ pc' \in QuietPcs
        /\ \/ UNCHANGED disk /\ call' = NoCall
           \/ disk' = [disk EXCEPT !.blocked = TRUE] /\ UNCHANGED call
    BY <1>5 DEF HoldTerminal, Return, QuietPcs
  <2>2. CASE UNCHANGED disk /\ call' = NoCall
    BY <2>1, <2>2, FreshShapes, ReasonShapes, LeaveMarks DEF QuietPcs
  <2>3. CASE disk' = [disk EXCEPT !.blocked = TRUE] /\ UNCHANGED call
    <3>1. disk'.sig = disk.sig /\ disk'.reason = disk.reason /\ disk'.dec = disk.dec
      BY <2>3 DEF IndInv, TypeOK, DiskTypeOK, IntentType
    <3>2. QED BY <2>1, <2>3, <3>1, StayMarks DEF QuietPcs, BookingPcs
  <2>4. QED BY <2>1, <2>2, <2>3
<1>6. CASE Resume
  <2>1. /\ pc = "reconcile" /\ call.obs \in Amounts /\ disk.amt \in Amounts
        /\ disk.reason \in ReasonClasses
        /\ EnterSell("reconcile", call.obs, disk.amt, disk.reason, disk.dec)
    BY <1>6 DEF Resume, IndInv, TypeOK, ProcTypeOK, DiskTypeOK, CallType, IntentType
  <2>2. disk.reason = "dispose" => Open BY <2>1 DEF Open, DiskOpen
  <2>3. QED BY <2>1, <2>2, EnterSellMarks DEF QuietPcs
<1>7. CASE CycleSell
  <2>1. PICK reason \in Reasons, amount \in 1..call.obs :
          (reason = "dispose" => disposeOn) /\ EnterSell("cycle", call.obs, amount, reason, None)
    BY <1>7 DEF CycleSell
  <2>2. /\ pc = "decide" /\ call.obs \in Amounts /\ amount \in Amounts
        /\ reason \in ReasonClasses
    BY <1>7, <2>1, CallShapes DEF CycleSell, CallType
  <2>3. reason = "dispose" => Open BY <2>1 DEF Open
  <2>4. QED BY <2>1, <2>2, <2>3, EnterSellMarks DEF QuietPcs
<1>8. CASE PanicSell
  <2>1. /\ pc = "panic" /\ call.obs \in Amounts
        /\ EnterSell("panic", call.obs, call.obs, "wide", None)
    BY <1>8, CallShapes DEF PanicSell, CallType
  <2>2. QED BY <2>1, EnterSellMarks DEF QuietPcs
<1>9. QED BY <1>1, <1>2, <1>3, <1>4, <1>5, <1>6, <1>7, <1>8 DEF Engine

LEMMA ResolverMarks == ASSUME IndInv, DecInv, MarkInv, Resolver PROVE Keeping
<1> USE DEF chainVars, diskVars, procVars, histVars, envVars
<1>1. CASE PollError
  <2>1. UNCHANGED <<tx, disk, disposeOn, marks>> BY <1>1 DEF PollError
  <2>2. CASE Die BY <2>1, <2>2, DieMarks
  <2>3. CASE call.ret \in OwnFrames /\ NextAttempt(call) /\ UNCHANGED dropped
    BY <2>1, <2>3, RetryMarks
  <2>4. QED BY <1>1, <2>2, <2>3 DEF PollError
<1>2. CASE PollFailed \/ PollBlockhashDead
  <2>1. Dead /\ pc \in PollPcs /\ UNCHANGED <<tx, disposeOn, marks>>
    BY <1>2 DEF PollFailed, PollBlockhashDead, PollPcs
  <2>2. QED BY <2>1, DeadMarks
<1>3. CASE PollPending \/ PollBlockhashValid \/ (PollBalance /\ NextPoll)
  <2>1. NextPoll /\ pc \in PollPcs /\ UNCHANGED <<tx, dropped, marks, disposeOn>>
    BY <1>3 DEF PollPending, PollBlockhashValid, PollBalance, PollPcs
  <2>2. QED BY <2>1, NextPollMarks
<1>4. CASE PollConfirmed \/ PollUnknown \/ (PollBalance /\ pc' = "finalize" /\ UNCHANGED <<disk, call>>)
  <2>1. /\ UNCHANGED <<disk, call, tx, dropped, marks, disposeOn>>
        /\ pc \in PollPcs /\ pc' \in PollPcs \cup {"finalize"}
    BY <1>4 DEF PollConfirmed, PollUnknown, PollBalance, PollPcs
  <2>2. QED BY <2>1, StayMarks DEF PollPcs, BookingPcs
<1>5. QED BY <1>1, <1>2, <1>3, <1>4 DEF Resolver, PollBalance

LEMMA FinalizerMarks == ASSUME IndInv, DecInv, MarkInv, Finalizer PROVE Keeping
<1> USE DEF chainVars, diskVars, procVars, histVars, envVars
<1>1. pc \in FinPcs /\ call.sig # None /\ tx[call.sig].st = "landed"
  BY DEF Finalizer, FinalizeDispose, FinalizeDelete, FinalizeAppend, FinalizeNotify,
     FinalizeIoError, FinPcs, IndInv, CallTracks
<1>2. CASE FinalizeDispose
  <2>1. /\ pc = "finalize" /\ pc' = "finDelete" /\ UNCHANGED <<tx, disk, call, dropped, marks>>
        /\ disposeOn' = (disposeOn /\ call.why # "dispose")
    BY <1>2 DEF FinalizeDispose
  <2>2. OwnReason' /\ EmptyEntry' BY <2>1 DEF MarkInv, OwnReason, EmptyEntry
  <2>3. Open' => disposeOn /\ call.why # "dispose"
    BY <2>1 DEF Open, DiskOpen, CallOpen, BookingPcs
  <2>4. CASE disk.sig = None \/ ~IsDispose(disk.sig)
    <3>1. Settled' \subseteq Settled BY <2>1, <2>4, TrackedSale DEF Settled, IsDispose
    <3>2. QED BY <2>1, <2>2, <2>3, <3>1 DEF Keeping, Accounts, Keeps, Open
  <2>5. CASE disk.sig # None /\ IsDispose(disk.sig)
    <3>1. disk.reason = "dispose" /\ call.why = "dispose"
      BY <1>1, <2>5, TrackedSale DEF IsDispose
    <3>2. Open BY <2>1, <3>1 DEF Open, DiskOpen
    <3>3. Settled' \subseteq Settled \union {disk.sig} BY <2>1 DEF Settled, IsDispose
    <3>4. QED BY <2>1, <2>2, <2>3, <3>1, <3>2, <3>3 DEF Keeping, Accounts, Settles
  <2>6. QED BY <2>4, <2>5
<1>3. CASE FinalizeDelete
  <2>1. /\ pc = "finDelete" /\ pc' = "finAppend" /\ disk' = NoIntent
        /\ UNCHANGED <<tx, call, dropped, marks, disposeOn>>
    BY <1>3 DEF FinalizeDelete
  <2>2. disk'.reason = "exit" BY <2>1, ReasonShapes
  <2>3. OwnReason' /\ EmptyEntry' BY <2>1, <2>2 DEF MarkInv, OwnReason, EmptyEntry
  <2>4. Settled' \subseteq Settled BY <2>1 DEF Settled, IsDispose
  <2>5. Open' => Open BY <2>1, <2>2 DEF Open, DiskOpen, CallOpen, BookingPcs
  <2>6. QED BY <2>1, <2>3, <2>4, <2>5 DEF Keeping, Accounts, Keeps
<1>4. CASE FinalizeAppend
  BY <1>4, StayMarks DEF FinalizeAppend, BookingPcs
<1>5. CASE FinalizeNotify
  <2>1. /\ pc = "finNotify" /\ UNCHANGED <<tx, disk, dropped, marks, disposeOn>>
        /\ pc' \in {"down", "idle"} /\ call' = NoCall
    BY <1>5 DEF FinalizeNotify, Return
  <2>2. QED BY <2>1, FreshShapes, ReasonShapes, LeaveMarks
<1>6. CASE FinalizeIoError
  <2>1. UNCHANGED <<tx, disk, disposeOn, marks>> BY <1>6 DEF FinalizeIoError
  <2>2. CASE Die BY <2>1, <2>2, DieMarks
  <2>3. CASE call.ret \in OwnFrames /\ NextAttempt(call) /\ UNCHANGED dropped
    BY <2>1, <2>3, RetryMarks
  <2>4. QED BY <1>6, <2>2, <2>3 DEF FinalizeIoError
<1>7. QED BY <1>2, <1>3, <1>4, <1>5, <1>6 DEF Finalizer

LEMMA AttemptsMarks == ASSUME IndInv, DecInv, MarkInv, Attempts PROVE Keeping
<1> USE DEF chainVars, diskVars, procVars, histVars, envVars
<1>1. pc \notin PollPcs \cup FinPcs => call.ret \in OwnFrames
  BY TrackedSale DEF DecInv, Frames
<1>2. CASE ResolvePending \/ AlreadyFilled \/ ReadHolding \/ OrderSigned
  <2>0. disposeOn' => disposeOn
    <3>1. CASE UNCHANGED disposeOn BY <3>1
    <3>2. CASE AlreadyFilled BY <3>2 DEF AlreadyFilled
    <3>3. QED BY <1>2, <3>1, <3>2 DEF ResolvePending, ReadHolding, OrderSigned
  <2>1. /\ UNCHANGED <<disk, tx, dropped, marks>>
        /\ pc \in OrderPcs \cup {"attempt"} /\ pc' \in OrderPcs \cup {"poll"}
    BY <1>2 DEF ResolvePending, AlreadyFilled, ReadHolding, OrderSigned, ReadyToOrder,
       Attempting, OrderPcs
  <2>2. call.ret \in OwnFrames BY <1>1, <2>1 DEF OrderPcs, PollPcs, FinPcs
  <2>3. /\ call'.sig = call.sig /\ call'.reason = call.reason /\ call'.why = call.why
        /\ call'.ret \in OwnFrames
    <3>1. CASE ResolvePending BY <3>1, CallShapes, ReasonShapes DEF ResolvePending
    <3>2. CASE ReadHolding BY <2>2, <3>2, CallShapes, ReasonShapes DEF ReadHolding
    <3>3. CASE AlreadyFilled \/ OrderSigned BY <2>2, <3>3 DEF AlreadyFilled, OrderSigned
    <3>4. QED BY <1>2, <3>1, <3>2, <3>3
  <2>4. QED BY <2>0, <2>1, <2>2, <2>3, StayMarks DEF OrderPcs, BookingPcs
<1>3. CASE FilledDelete \/ RefuseBelowFloor
  <2>1. /\ pc \in OrderPcs /\ disk' = NoIntent /\ call' = NoCall /\ pc' \in {"down", "idle"}
        /\ UNCHANGED <<tx, dropped, marks, disposeOn>>
    BY <1>3 DEF FilledDelete, RefuseBelowFloor, Return, OrderPcs
  <2>2. disk.sig = None BY <2>1 DEF IndInv, CallTracks
  <2>3. QED BY <2>1, <2>2, FreshShapes, ReasonShapes, LeaveMarks DEF OrderPcs
<1>4. CASE ExecuteSuccess
  <2>1. /\ pc = "response" /\ pc' = "poll" /\ UNCHANGED <<tx, dropped, marks, disposeOn>>
        /\ disk' = IntentOf(call, "submitted", call.sig)
    BY <1>4 DEF ExecuteSuccess
  <2>2. /\ call'.sig = call.sig /\ call'.reason = call.reason /\ call'.why = call.why
        /\ call'.ret = "submit"
    BY <1>4, CallShapes, ReasonShapes DEF ExecuteSuccess
  <2>3. call.sig # None /\ call.ret \in OwnFrames
    BY <1>1, <2>1 DEF IndInv, CallTracks, PollPcs, FinPcs
  <2>4. CallOpen' => CallOpen BY <2>1, <2>2, <2>3 DEF CallOpen, BookingPcs
  <2>5. Accounts /\ EmptyEntry' BY <2>1, <2>3, <2>4, EntryMarks DEF FinPcs
  <2>6. QED BY <2>2, <2>3, <2>5 DEF Keeping, MarkInv, OwnReason
<1>5. CASE ExecuteAmbiguous \/ AttemptError
  <2>1. /\ NextAttempt(call) /\ UNCHANGED <<tx, disk, disposeOn, marks, dropped>>
        /\ pc \notin PollPcs \cup FinPcs
    BY <1>5 DEF ExecuteAmbiguous, AttemptError, ReadyToOrder, Attempting, PollPcs, FinPcs
  <2>2. QED BY <1>1, <2>1, RetryMarks
<1>6. CASE GiveUpUnresolved
  <2>1. /\ pc = "attempt" /\ call.sig # None /\ UNCHANGED <<tx, dropped, marks, disposeOn>>
        /\ disk' = IntentOf(call, "submitted_unconfirmed", call.sig)
        /\ call' = NoCall /\ pc' \in {"down", "idle"}
    BY <1>6 DEF GiveUpUnresolved, Block, Return
  <2>2. call'.sig = None /\ ~CallOpen' BY <2>1, FreshShapes, ReasonShapes DEF CallOpen
  <2>3. QED BY <2>1, <2>2, EntryMarks DEF FinPcs, Keeping, OwnReason
<1>7. CASE GiveUpFailed
  <2>1. /\ pc = "attempt" /\ UNCHANGED <<tx, dropped, marks, disposeOn>>
        /\ disk' = [disk EXCEPT !.status = "failed"] /\ call' = NoCall /\ pc' \in {"down", "idle"}
    BY <1>7 DEF GiveUpFailed, Return
  <2>2. disk'.sig = disk.sig /\ disk'.reason = disk.reason /\ disk'.dec = disk.dec
    BY <2>1 DEF IndInv, TypeOK, DiskTypeOK, IntentType
  <2>3. call'.sig = None /\ ~CallOpen' BY <2>1, FreshShapes, ReasonShapes DEF CallOpen
  <2>4. disk'.reason = "dispose" => Open BY <2>1, <2>2 DEF Open, DiskOpen
  <2>5. Keeps BY <2>1, <2>2, <2>3, <2>4, TrackedSale, Untouched
  <2>6. QED BY <2>2, <2>3, <2>5 DEF Keeping, Accounts, OwnReason, MarkInv, EmptyEntry
<1>8. CASE PersistSubmitting
  <2>1. /\ pc = "simulate" /\ pc' = "send" /\ UNCHANGED <<dropped, marks, disposeOn>>
        /\ disk'.sig = sigs + 1 /\ disk'.reason = call.reason /\ disk'.dec = call.dec
    BY <1>8 DEF PersistSubmitting
  <2>2. /\ call'.sig = sigs + 1 /\ call'.reason = call.reason /\ call'.why = call.reason
    BY <1>8, CallShapes DEF PersistSubmitting, CallType
  <2>3. call.dec # None /\ call.sig = None /\ disk.sig = None
    BY <2>1 DEF IndInv, CallAuthorised, CallTracks, OrderPcs
  <2>4. \A s \in Signatures : IsDispose(s)' => IsDispose(s)
    <3>1. tx \in [Signatures -> TxType] BY DEF IndInv, TypeOK, ChainTypeOK
    <3>2. \A s \in Signatures : s # sigs + 1 => tx'[s] = tx[s]
      BY <1>8, <3>1 DEF PersistSubmitting
    <3>3. sigs + 1 \in Signatures => tx'[sigs + 1].st = "signed"
      BY <1>8, <3>1 DEF PersistSubmitting
    <3>4. QED BY <2>1, <3>2, <3>3 DEF IsDispose
  <2>5. Settled' \subseteq Settled BY <2>1, <2>3, <2>4, TrackedSale DEF Settled
  <2>6. Open' => Open BY <2>1, <2>2, <2>3 DEF Open, DiskOpen, CallOpen, BookingPcs
  <2>7. QED BY <2>1, <2>2, <2>3, <2>5, <2>6 DEF Keeping, Accounts, Keeps, OwnReason, EmptyEntry
<1>9. CASE Send
  <2>1. /\ pc = "send" /\ pc' = "response" /\ UNCHANGED <<disk, call, dropped, marks, disposeOn>>
        /\ tx' = tx \/ tx' = [tx EXCEPT ![call.sig].st = "sent"]
    BY <1>9 DEF Send
  <2>2. call.sig \in Signatures /\ tx[call.sig].st = "signed"
    BY <2>1, TrackedSale DEF IndInv, CallTracks
  <2>3. \A s \in Signatures : IsDispose(s)' => IsDispose(s)
    <3>1. CASE tx' = tx BY <2>1, <3>1 DEF IsDispose
    <3>2. CASE tx' = [tx EXCEPT ![call.sig].st = "sent"]
      BY <2>1, <2>2, <3>2, TxFieldsKept DEF IsDispose
    <3>3. QED BY <2>1, <3>1, <3>2
  <2>4. Settled' \subseteq Settled BY <2>1, <2>3 DEF Settled
  <2>5. CallOpen' => CallOpen BY <2>1, <2>2 DEF CallOpen, BookingPcs
  <2>6. Open' => Open BY <2>1, <2>5 DEF Open, DiskOpen
  <2>7. QED BY <2>1, <2>4, <2>6 DEF Keeping, Accounts, Keeps, OwnReason, MarkInv, EmptyEntry
<1>10. QED BY <1>2, <1>3, <1>4, <1>5, <1>6, <1>7, <1>8, <1>9 DEF Attempts

LEMMA EnvironmentMarks == ASSUME IndInv, DecInv, MarkInv, Environment PROVE Keeping
<1> USE DEF chainVars, diskVars, procVars, histVars, envVars
<1>1. ASSUME NEW s \in Signatures, Land(s) PROVE Keeping
  <2>1. PICK v \in {"landed", "failed"} : tx' = [tx EXCEPT ![s].st = v] BY <1>1 DEF Land
  <2>2. UNCHANGED <<disk, call, pc, dropped, marks, disposeOn>> /\ MayStillLand(s)
    BY <1>1 DEF Land
  <2>3. disk.sig = s \/ dropped[s] = "skip" BY <2>2 DEF IndInv, LandableIsOnDisk
  <2>4. tx[s].st = "sent" BY <2>2 DEF MayStillLand
  <2>5. pc = "finDelete" => s # disk.sig
    <3>1. pc = "finDelete" => call.sig # None /\ tx[call.sig].st = "landed"
      BY DEF IndInv, CallTracks, FinPcs
    <3>2. QED BY <2>4, <3>1, TrackedSale
  <2>6. \A t \in Signatures : /\ t # s => (IsDispose(t)' <=> IsDispose(t))
                              /\ tx[t].st = "landed" => tx'[t].st = "landed"
    BY <2>1, <2>2, <2>4, TxFieldsKept DEF IsDispose
  <2>7. dropped[s] = "skip" => ~IsDispose(s)' BY <2>2 DEF IsDispose
  <2>8. Settled' \subseteq Settled BY <2>2, <2>3, <2>5, <2>6, <2>7 DEF Settled
  <2>9. CallOpen' => CallOpen BY <2>2, <2>6, TrackedSale DEF CallOpen
  <2>10. Open' => Open BY <2>2, <2>9 DEF Open, DiskOpen
  <2>11. QED BY <2>2, <2>8, <2>10 DEF Keeping, Accounts, Keeps, OwnReason, MarkInv, EmptyEntry
<1>2. CASE UNCHANGED <<tx, disk, call, pc, dropped, marks, disposeOn>>
  <2>1. Settled' \subseteq Settled /\ (Open' => Open)
    BY <1>2 DEF Settled, IsDispose, Open, DiskOpen, CallOpen
  <2>2. QED BY <1>2, <2>1 DEF Keeping, Accounts, Keeps, OwnReason, MarkInv, EmptyEntry
<1>3. CASE OperatorDispose
  <2>1. /\ UNCHANGED <<tx, disk, call, pc, dropped>> /\ disposeOn' = ~disposeOn
        /\ marks' = IF disposeOn THEN marks ELSE marks + 1
    BY <1>3 DEF OperatorDispose
  <2>2. OwnReason' /\ EmptyEntry' BY <2>1 DEF MarkInv, OwnReason, EmptyEntry
  <2>3. Settled' \subseteq Settled BY <2>1 DEF Settled, IsDispose
  <2>4. CASE disposeOn BY <2>1, <2>2, <2>3, <2>4 DEF Keeping, Accounts, Keeps, Open
  <2>5. CASE ~disposeOn BY <2>1, <2>2, <2>3, <2>5 DEF Keeping, Accounts, Places
  <2>6. QED BY <2>4, <2>5
<1>4. CASE OperatorAck
  <2>1. /\ pc = "down" /\ disk' = [disk EXCEPT !.ack = TRUE]
        /\ UNCHANGED <<tx, call, pc, dropped, marks, disposeOn>>
    BY <1>4 DEF OperatorAck
  <2>2. disk'.sig = disk.sig /\ disk'.reason = disk.reason /\ disk'.dec = disk.dec
    BY <2>1 DEF IndInv, TypeOK, DiskTypeOK, IntentType
  <2>3. QED BY <2>1, <2>2, StayMarks
<1>5. QED BY <1>1, <1>2, <1>3, <1>4 DEF Environment, Expire, CatchUp, OperatorTrade

LEMMA NextKeepsMarks ==
    ASSUME IndInv, IndInv', DecInv, MarkInv, [Next]_vars PROVE MarkInv'
<1>1. Keeping
  <2>1. CASE Crash BY <2>1, DieMarks DEF Crash, chainVars, diskVars
  <2>2. CASE UNCHANGED vars
    <3>1. UNCHANGED <<tx, disk, call, pc, dropped, marks, disposeOn>>
      BY <2>2 DEF vars, chainVars, diskVars, procVars, histVars
    <3>2. Settled' \subseteq Settled /\ (Open' => Open)
      BY <3>1 DEF Settled, IsDispose, Open, DiskOpen, CallOpen
    <3>3. QED BY <3>1, <3>2 DEF Keeping, Accounts, Keeps, OwnReason, MarkInv, EmptyEntry
  <2>3. QED
    BY <2>1, <2>2, EngineMarks, ResolverMarks, FinalizerMarks, AttemptsMarks, EnvironmentMarks
       DEF Next, Process
<1>2. MarksCover' BY <1>1, AccountsCover DEF Keeping, MarkInv
<1>3. QED BY <1>1, <1>2 DEF Keeping, MarkInv

LEMMA MarkInvHolds == Spec => []MarkInv
<1>1. Init => MarkInv
  <2> SUFFICES ASSUME Init PROVE MarkInv OBVIOUS
  <2>1. Settled = {} BY DEF Init, Settled, IsDispose, NoTx
  <2>2. Cardinality(Settled) = 0 BY <2>1, FS_EmptySet
  <2>3. ~Open BY DEF Init, Open, DiskOpen, CallOpen, NoCall, NoIntent
  <2>4. marks = 0 /\ OwnReason /\ EmptyEntry
    BY DEF Init, OwnReason, EmptyEntry, NoCall, NoIntent
  <2>5. QED BY <2>2, <2>3, <2>4 DEF MarkInv, MarksCover
<1>2. IndInv /\ IndInv' /\ DecInv /\ MarkInv /\ [Next]_vars => MarkInv' BY NextKeepsMarks
<1>3. QED BY <1>1, <1>2, InvHolds, DecInvHolds, PTL DEF Spec

\* A finite set is numbered by any numbers that are enough.
LEMMA Numbering ==
    ASSUME NEW S, IsFiniteSet(S), NEW n \in Nat, Cardinality(S) <= n
    PROVE  \E f \in [S -> 1..n] : \A s, t \in S : f[s] = f[t] => s = t
<1>1. Cardinality(S) \in Nat /\ ExistsBijection(1..Cardinality(S), S) BY FS_CardinalityType
<1>2. ExistsBijection(S, 1..Cardinality(S)) BY <1>1, Fun_ExistsBijSymmetric
<1>3. PICK f \in Bijection(S, 1..Cardinality(S)) : TRUE BY <1>2 DEF ExistsBijection
<1>4. f \in [S -> 1..Cardinality(S)] /\ \A s, t \in S : f[s] = f[t] => s = t
  BY <1>3 DEF Bijection, Injection, IsInjective
<1>5. 1..Cardinality(S) \subseteq 1..n BY <1>1
<1>6. f \in [S -> 1..n] BY <1>4, <1>5
<1>7. QED BY <1>4, <1>6

\* For any number of crashes, failed writes, cancelled and repeated marks: dispose
\* sales never outnumber the marks the operator placed, short of a sale lost on a
\* skipped resume or in the poll race.
THEOREM MarksUsedOnce == Spec => []DisposeOneShot
<1>1. ASSUME IndInv, DecInv, MarkInv PROVE DisposeOneShot
  <2> DEFINE U == {s \in Signatures : /\ tx[s].st = "landed" /\ tx[s].reason = "dispose"
                                      /\ dropped[s] \notin {"skip", "race"}}
  <2>1. /\ IsFiniteSet(Settled) /\ Cardinality(Settled) \in Nat /\ marks \in Nat
        /\ Cardinality(Settled) <= marks /\ (Open => Cardinality(Settled) < marks)
    BY <1>1, SettledFinite DEF MarkInv, MarksCover
  <2>2. IsFiniteSet(U) /\ Cardinality(U) <= marks
    <3>1. CASE U \subseteq Settled
      <4>1. Cardinality(U) \in Nat /\ IsFiniteSet(U) /\ Cardinality(U) <= Cardinality(Settled)
        BY <2>1, <3>1, FS_Subset, FS_CardinalityType
      <4>2. QED BY <2>1, <4>1
    <3>2. CASE ~(U \subseteq Settled)
      <4>1. PICK s \in U : s \notin Settled BY <3>2
      <4>2. disk.sig = s /\ pc # "finDelete" /\ s \in Signatures BY <4>1 DEF Settled, IsDispose
      <4>3. disk.reason = "dispose" BY <1>1, <4>1, <4>2, TrackedSale
      <4>4. Open BY <4>2, <4>3 DEF Open, DiskOpen
      <4>5. U \subseteq Settled \union {s} BY <4>2 DEF Settled, IsDispose
      <4>6. /\ IsFiniteSet(Settled \union {s})
            /\ Cardinality(Settled \union {s}) = Cardinality(Settled) + 1
        BY <2>1, <4>1, FS_AddElement
      <4>7. IsFiniteSet(U) /\ Cardinality(U) \in Nat /\ Cardinality(U) <= Cardinality(Settled) + 1
        BY <4>5, <4>6, FS_Subset, FS_CardinalityType
      <4>8. QED BY <2>1, <4>4, <4>7
    <3>3. QED BY <3>1, <3>2
  <2> HIDE DEF U
  <2>3. ASSUME NEW S \in SUBSET U
        PROVE  \E f \in [S -> 1..marks] : \A s, t \in S : f[s] = f[t] => s = t
    <3>1. IsFiniteSet(S) /\ Cardinality(S) \in Nat /\ Cardinality(U) \in Nat
          /\ Cardinality(S) <= Cardinality(U)
      BY <2>2, FS_Subset, FS_CardinalityType
    <3>2. Cardinality(S) <= marks BY <2>1, <2>2, <3>1
    <3>3. QED BY <2>1, <3>1, <3>2, Numbering
  <2>4. QED BY <2>3 DEF DisposeOneShot, U
<1>2. IndInv /\ DecInv /\ MarkInv => DisposeOneShot BY <1>1
<1>3. QED BY <1>2, InvHolds, DecInvHolds, MarkInvHolds, PTL

=============================================================================
