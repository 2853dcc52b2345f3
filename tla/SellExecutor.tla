---------------------------- MODULE SellExecutor ----------------------------
(***************************************************************************)
(* The exit path of the sentinel, for one mint: SellExecutor.sell with its  *)
(* signature resolver (executor.py), the start-up reconciliation of         *)
(* pending exits, the policy cycle's and the panic command's calls of sell  *)
(* (engine.py), the durable pending-exit entry and trade ledger, and the    *)
(* chain, RPC node, Jupiter and operator they meet.                         *)
(*                                                                          *)
(* A step of the process ends at an await, or between two durable writes:   *)
(* the chain and the operator move, and the process may die, between steps. *)
(* Mints share nothing but the sequential process, so one mint is enough.   *)
(***************************************************************************)
EXTENDS Integers, Sequences

CONSTANTS
    MaxBalance,     \* raw units of the mint that can exist
    MaxSignatures,  \* transactions the wallet may sign
    MaxDecisions,   \* exits the policy loop (or --panic) may decide
    MaxAttempts,    \* execution.max_attempts
    PollLimit,      \* RESOLUTION_POLL_ATTEMPTS
    MaxCrashes,     \* times the process may die
    MaxOperatorOps, \* wallet moves, dispose marks and acks of the operator
    MaxIoErrors,    \* failed writes inside _finalize_confirmed
    Reasons,        \* classes of exit the policies may decide
    GateStates      \* verdicts ExecutionGate.status may give

ReasonClasses == {"exit", "wide", "dispose"}

ASSUME BoundsAssumption ==
    /\ MaxBalance \in Nat /\ MaxSignatures \in Nat /\ MaxDecisions \in Nat
    /\ MaxAttempts \in Nat /\ PollLimit \in Nat /\ MaxCrashes \in Nat
    /\ MaxOperatorOps \in Nat /\ MaxIoErrors \in Nat
ASSUME ChoicesAssumption ==
    /\ Reasons \subseteq ReasonClasses
    /\ GateStates \subseteq BOOLEAN

Signatures == 1..MaxSignatures
Decisions == 1..MaxDecisions
Amounts == 0..MaxBalance
None == 0   \* no signature, no decision

UnresolvedStatuses == {"submitting", "submitted", "submitted_unconfirmed"}
Statuses == {"absent", "intent", "retrying", "failed"} \cup UnresolvedStatuses

VARIABLES
    bal,        \* the wallet's balance on chain
    seen,       \* the balance the RPC node reports, which may lag
    tx,         \* every transaction the wallet signed
    hashLive,   \* isBlockhashValid of each transaction's blockhash
    disk,       \* state.json: pending_exits[mint]
    disposeOn,  \* state.json: dispose_policies[mint].enabled
    ledger,     \* trades.csv
    pc,         \* where the process is
    call,       \* locals of the sell (or resolve) call in progress
    dropped,    \* history: why a signature stopped being tracked unresolved
    authorised, \* history: amount each decision asked to sell
    closed,     \* history: decisions whose intent ended as failed
    pages,      \* history: NOT AUTO-RESUMED pages of the current failed intent
    marks,      \* history: dispose marks the operator placed
    sigs,       \* signatures used so far
    decs,       \* decisions made so far
    crashes, ops, ioErrs

chainVars == <<bal, seen, tx, hashLive, sigs>>
diskVars  == <<disk, disposeOn, ledger>>
procVars  == <<pc, call>>
histVars  == <<dropped, authorised, closed, pages, marks>>
envVars   == <<crashes, ops, ioErrs>>
vars == <<chainVars, diskVars, procVars, histVars, decs, envVars>>

NoIntent == [status |-> "absent", reason |-> "exit", amt |-> 0, rem |-> 0,
             sig |-> None, dec |-> None, blocked |-> FALSE, ack |-> FALSE]

\* src: who called; ret: what the resolver returns to; sig, amt, rem, why: the
\* signature being tracked, what it sells, must leave and why; cur: the holding
\* the current attempt read.
NoCall == [src |-> "cycle", ret |-> "loop", obs |-> 0, req |-> 0,
           reason |-> "exit", dec |-> None, attempt |-> 0, poll |-> 0, cur |-> 0,
           sig |-> None, amt |-> 0, rem |-> 0, why |-> "exit"]

NoTx == [st |-> "unsigned", amt |-> 0, dec |-> None, reason |-> "exit"]

MayStillLand(s) == tx[s].st = "sent" /\ hashLive[s]
Booked(s) == \E i \in DOMAIN ledger : ledger[i].sig = s
InFlight(i) == i.sig # None /\ i.status \in UnresolvedStatuses

Init ==
    /\ bal \in Amounts /\ seen = bal
    /\ tx = [s \in Signatures |-> NoTx]
    /\ hashLive = [s \in Signatures |-> FALSE]
    /\ disk = NoIntent /\ disposeOn = FALSE /\ ledger = <<>>
    /\ pc = "down" /\ call = NoCall
    /\ dropped = [s \in Signatures |-> "no"]
    /\ authorised = [d \in Decisions |-> 0]
    /\ closed = {} /\ pages = 0 /\ marks = 0
    /\ sigs = 0 /\ decs = 0
    /\ crashes = 0 /\ ops = 0 /\ ioErrs = 0

-----------------------------------------------------------------------------
(* What happens outside the process.                                        *)

\* The cluster executes a broadcast transaction while its blockhash is valid:
\* it moves the whole input amount or fails.
Land(s) ==
    /\ MayStillLand(s)
    /\ \/ /\ tx[s].amt <= bal
          /\ bal' = bal - tx[s].amt
          /\ tx' = [tx EXCEPT ![s].st = "landed"]
       \/ /\ tx' = [tx EXCEPT ![s].st = "failed"]
          /\ UNCHANGED bal
    /\ UNCHANGED <<seen, hashLive, sigs, diskVars, procVars, histVars, decs, envVars>>

Expire(s) ==
    /\ hashLive[s]
    /\ hashLive' = [hashLive EXCEPT ![s] = FALSE]
    /\ UNCHANGED <<bal, seen, tx, sigs, diskVars, procVars, histVars, decs, envVars>>

\* The RPC node's view of the holdings reaches the chain's.
CatchUp ==
    /\ seen # bal
    /\ seen' = bal
    /\ UNCHANGED <<bal, tx, hashLive, sigs, diskVars, procVars, histVars, decs, envVars>>

\* The operator trades from the same wallet by hand.
OperatorTrade ==
    /\ ops < MaxOperatorOps
    /\ bal' \in Amounts /\ bal' # bal
    /\ ops' = ops + 1
    /\ UNCHANGED <<seen, tx, hashLive, sigs, diskVars, procVars, histVars, decs, crashes, ioErrs>>

\* --dispose and --cancel-dispose.
OperatorDispose ==
    /\ ops < MaxOperatorOps
    /\ "dispose" \in Reasons
    /\ disposeOn' = ~disposeOn
    /\ marks' = IF disposeOn THEN marks ELSE marks + 1
    /\ ops' = ops + 1
    /\ UNCHANGED <<chainVars, disk, ledger, procVars, dropped, authorised, closed, pages,
                   decs, crashes, ioErrs>>

\* The operator acknowledges a failed intent (operator_resume_ack) while the
\* process is down.
OperatorAck ==
    /\ ops < MaxOperatorOps
    /\ pc = "down" /\ disk.status = "failed" /\ ~disk.ack
    /\ disk' = [disk EXCEPT !.ack = TRUE]
    /\ closed' = closed \ {disk.dec}
    /\ ops' = ops + 1
    /\ UNCHANGED <<chainVars, disposeOn, ledger, procVars, dropped, authorised, pages, marks,
                   decs, crashes, ioErrs>>

Environment ==
    \/ \E s \in Signatures : Land(s) \/ Expire(s)
    \/ CatchUp \/ OperatorTrade \/ OperatorDispose \/ OperatorAck

-----------------------------------------------------------------------------
(* Pieces shared by the process's steps. Each fixes pc', call' and, where it *)
(* says so, disk' and the history.                                          *)

Return ==
    /\ pc' = IF call.src = "panic" THEN "down" ELSE "idle"
    /\ call' = NoCall

NextAttempt(c) ==
    /\ pc' = "attempt"
    /\ call' = [c EXCEPT !.attempt = @ + 1]

\* The process dies (killed, or an exception left the engine's run) and loses
\* its locals. A fill known only to those locals is lost to the ledger.
Die ==
    /\ crashes < MaxCrashes
    /\ crashes' = crashes + 1
    /\ pc' = "down" /\ call' = NoCall
    /\ dropped' = [s \in Signatures |->
                     IF s = call.sig /\ s # disk.sig /\ ~Booked(s) /\ dropped[s] = "no"
                     THEN "crash" ELSE dropped[s]]

\* The intent as the call's locals describe it, once a signature is tracked.
IntentOf(c, status, sig) ==
    [status |-> status, reason |-> c.why, amt |-> c.amt, rem |-> c.rem, sig |-> sig,
     dec |-> tx[c.sig].dec, blocked |-> FALSE, ack |-> FALSE]

\* sell: nothing is in flight any more; persist the new intent and start.
WriteIntent(c) ==
    LET d == IF c.dec = None THEN decs + 1 ELSE c.dec
    IN  /\ disk' = [status |-> "intent", reason |-> c.reason, amt |-> c.req,
                    rem |-> c.obs - c.req, sig |-> None, dec |-> d,
                    blocked |-> FALSE, ack |-> FALSE]
        /\ decs' = IF c.dec = None THEN decs + 1 ELSE decs
        /\ authorised' = IF c.dec = None THEN [authorised EXCEPT ![d] = c.req] ELSE authorised
        /\ call' = [c EXCEPT !.dec = d, !.attempt = 1, !.ret = "loop", !.sig = None]
        /\ pc' = "attempt"

\* Mutant: the settled row takes this call's amount, not the stored one's.
ResolvingForeignAmount(c, i, ret) ==
    /\ pc' = "poll"
    /\ call' = [c EXCEPT !.ret = ret, !.poll = 1, !.sig = i.sig, !.amt = c.req,
                         !.rem = i.rem, !.why = i.reason]

\* _resolve_signature is entered for the signature an intent i carries.
Resolving(c, i, ret) ==
    /\ pc' = "poll"
    /\ call' = [c EXCEPT !.ret = ret, !.poll = 1, !.sig = i.sig, !.amt = i.amt,
                         !.rem = i.rem, !.why = i.reason]

\* Mutant: the requested amount is not compared with the holding.
EnterSellAnyAmount(src, obs, req, reason, dec) ==
    /\ req > 0 /\ ~InFlight(disk)
    /\ WriteIntent([NoCall EXCEPT !.src = src, !.obs = obs, !.req = req, !.reason = reason,
                                  !.dec = dec])
    /\ UNCHANGED <<chainVars, disposeOn, ledger, dropped, closed, pages, marks, envVars>>

\* The head of sell: amount, gate, then any earlier submission comes first.
EnterSell(src, obs, req, reason, dec) ==
    LET c == [NoCall EXCEPT !.src = src, !.obs = obs, !.req = req, !.reason = reason,
                            !.dec = dec]
    IN  /\ req \in 1..obs
        /\ \/ /\ FALSE \in GateStates
              /\ pc' = IF src = "panic" THEN "down" ELSE "idle"
              /\ call' = NoCall
              /\ UNCHANGED <<disk, decs, authorised>>
           \/ /\ TRUE \in GateStates
              /\ InFlight(disk)
              /\ Resolving(c, disk, "prior")
              /\ UNCHANGED <<disk, decs, authorised>>
           \/ /\ TRUE \in GateStates
              /\ ~InFlight(disk)
              /\ WriteIntent(c)
        /\ UNCHANGED <<chainVars, disposeOn, ledger, dropped, closed, pages, marks, envVars>>

-----------------------------------------------------------------------------
(* The engine: start, reconciliation, policy cycle, panic.                  *)

StartServer ==
    /\ pc = "down"
    /\ pc' = "boot"
    /\ UNCHANGED <<chainVars, diskVars, call, histVars, decs, envVars>>

\* reconcile_pending_exits reads the holdings once, if anything is pending.
ReconcileRead ==
    /\ pc = "boot"
    /\ IF disk.status = "absent"
       THEN pc' = "idle" /\ UNCHANGED call
       ELSE pc' = "reconcile" /\ call' = [NoCall EXCEPT !.src = "reconcile", !.obs = seen]
    /\ UNCHANGED <<chainVars, diskVars, histVars, decs, envVars>>

\* The bag is gone: settle a stored signature before clearing the entry.
SettleAbsent ==
    /\ pc = "reconcile" /\ call.obs = 0
    /\ InFlight(disk)
    /\ Resolving(call, disk, "absent")
    /\ UNCHANGED <<chainVars, diskVars, histVars, decs, envVars>>

\* Mutant: an absent bag is cleared without settling its signature.
ClearAbsentUnsettled ==
    /\ pc = "reconcile" /\ call.obs = 0
    /\ disk' = NoIntent
    /\ Return
    /\ UNCHANGED <<chainVars, disposeOn, ledger, histVars, decs, envVars>>

ClearAbsent ==
    /\ pc = "reconcile" /\ call.obs = 0
    /\ ~InFlight(disk)
    /\ disk' = NoIntent
    /\ Return
    /\ UNCHANGED <<chainVars, disposeOn, ledger, histVars, decs, envVars>>

\* Mutant: a failed intent is resumed like any other.
NothingTerminal == FALSE

TerminalIntent == disk.status = "failed" /\ ~disk.ack

\* Mutant: resume_blocked_at is not stored.
HoldTerminalForgetful ==
    /\ pc = "reconcile" /\ call.obs > 0
    /\ TerminalIntent
    /\ pc' = "page"
    /\ UNCHANGED <<chainVars, diskVars, call, histVars, decs, envVars>>

\* _hold_terminal_intent: keep the failed intent; mark it, then page the
\* operator, unless an earlier start did.
HoldTerminal ==
    /\ pc = "reconcile" /\ call.obs > 0
    /\ TerminalIntent
    /\ \/ /\ disk.blocked
          /\ Return
          /\ UNCHANGED disk
       \/ /\ ~disk.blocked
          /\ disk' = [disk EXCEPT !.blocked = TRUE]
          /\ pc' = "page"
          /\ UNCHANGED call
    /\ UNCHANGED <<chainVars, disposeOn, ledger, histVars, decs, envVars>>

PageHeld ==
    /\ pc = "page"
    /\ pages' = pages + 1
    /\ Return
    /\ UNCHANGED <<chainVars, diskVars, dropped, authorised, closed, marks, decs, envVars>>

\* Neither absent nor terminal, and the stored amount exceeds what is held.
\* Without a signature the entry is cleared at once; with one it is handed to
\* sell, whose amount check answers "skipped" before it looks at the signature,
\* and on "skipped" the entry is cleared as well.
ClearUnexecutable ==
    /\ pc = "reconcile" /\ call.obs > 0
    /\ ~TerminalIntent
    /\ disk.amt \notin 1..call.obs
    /\ disk' = NoIntent
    /\ dropped' = IF disk.sig = None THEN dropped
                  ELSE [dropped EXCEPT ![disk.sig] = "skip"]
    /\ Return
    /\ UNCHANGED <<chainVars, disposeOn, ledger, authorised, closed, pages, marks, decs, envVars>>

Resume ==
    /\ pc = "reconcile" /\ call.obs > 0
    /\ ~TerminalIntent
    /\ EnterSell("reconcile", call.obs, disk.amt, disk.reason, disk.dec)

\* A policy cycle reads the holdings, and later decides on that reading.
CycleRead ==
    /\ pc = "idle"
    /\ pc' = "decide"
    /\ call' = [NoCall EXCEPT !.obs = seen]
    /\ UNCHANGED <<chainVars, diskVars, histVars, decs, envVars>>

CycleHold ==
    /\ pc = "decide"
    /\ Return
    /\ UNCHANGED <<chainVars, diskVars, histVars, decs, envVars>>

\* Only a scale-out sells part of the holding.
CycleSell ==
    /\ pc = "decide"
    /\ decs < MaxDecisions
    /\ \E reason \in Reasons, amount \in 1..call.obs :
        /\ reason # "exit" => amount = call.obs
        /\ reason = "dispose" => disposeOn
        /\ EnterSell("cycle", call.obs, amount, reason, None)

\* The --panic command, run while the server is down, reads the holdings and
\* sells each one whole.
StartPanic ==
    /\ pc = "down"
    /\ "wide" \in Reasons /\ decs < MaxDecisions
    /\ pc' = "panic"
    /\ call' = [NoCall EXCEPT !.src = "panic", !.obs = seen]
    /\ UNCHANGED <<chainVars, diskVars, histVars, decs, envVars>>

PanicSell ==
    /\ pc = "panic"
    /\ EnterSell("panic", call.obs, call.obs, "wide", None)

PanicNothingHeld ==
    /\ pc = "panic" /\ call.obs = 0
    /\ Return
    /\ UNCHANGED <<chainVars, diskVars, histVars, decs, envVars>>

Engine ==
    \/ StartServer \/ ReconcileRead \/ SettleAbsent \/ ClearAbsent
    \/ HoldTerminal \/ PageHeld \/ ClearUnexecutable \/ Resume
    \/ CycleRead \/ CycleHold \/ CycleSell
    \/ StartPanic \/ PanicSell \/ PanicNothingHeld

-----------------------------------------------------------------------------
(* _resolve_signature, and what each verdict does in the frame it returns to.*)

\* _block_on_unresolved: keep the signature on disk and send nothing more.
Block ==
    /\ disk' = IntentOf(call, "submitted_unconfirmed", call.sig)
    /\ Return

\* Mutant: polling has no limit.
NextPollForever == pc' = "poll" /\ UNCHANGED <<call, disk>>

NextPoll ==
    IF call.poll < PollLimit
    THEN /\ pc' = "poll"
         /\ call' = [call EXCEPT !.poll = @ + 1]
         /\ UNCHANGED disk
    ELSE Block

\* clear_pending_signature in sell's own frames.
ClearPendingSignature == disk' = IntentOf(call, "retrying", None)

Dead ==
    /\ dropped' = IF tx[call.sig].st = "landed"
                  THEN [dropped EXCEPT ![call.sig] = "race"] ELSE dropped
    /\ \/ /\ call.ret = "prior"
          /\ WriteIntent(call)
       \/ /\ call.ret = "absent"
          /\ disk' = NoIntent
          /\ Return
          /\ UNCHANGED <<decs, authorised>>
       \/ /\ call.ret = "loop"
          /\ ClearPendingSignature
          /\ pc' = "hold"
          /\ call' = [call EXCEPT !.sig = None]
          /\ UNCHANGED <<decs, authorised>>
       \/ /\ call.ret = "submit"
          /\ ClearPendingSignature
          /\ NextAttempt([call EXCEPT !.sig = None])
          /\ UNCHANGED <<decs, authorised>>

\* An error of the RPC is caught by sell's own attempts only.
PollError ==
    /\ pc \in {"poll", "pollBalance"}
    /\ \/ /\ call.ret \in {"loop", "submit"}
          /\ NextAttempt(call)
          /\ UNCHANGED <<dropped, crashes>>
       \/ /\ call.ret \in {"prior", "absent"}
          /\ Die
    /\ UNCHANGED <<chainVars, diskVars, authorised, closed, pages, marks, decs, ops, ioErrs>>

PollFailed ==
    /\ pc = "poll" /\ tx[call.sig].st = "failed"
    /\ Dead
    /\ UNCHANGED <<chainVars, disposeOn, ledger, closed, pages, marks, envVars>>

PollConfirmed ==
    /\ pc = "poll" /\ tx[call.sig].st = "landed"
    /\ pc' = "pollBalance"
    /\ UNCHANGED <<chainVars, diskVars, call, histVars, decs, envVars>>

\* Processed by the cluster, below the configured commitment.
PollPending ==
    /\ pc = "poll" /\ MayStillLand(call.sig)
    /\ NextPoll
    /\ UNCHANGED <<chainVars, disposeOn, ledger, histVars, decs, envVars>>

PollUnknown ==
    /\ pc = "poll" /\ tx[call.sig].st \in {"signed", "sent"}
    /\ pc' = "pollBlockhash"
    /\ UNCHANGED <<chainVars, diskVars, call, histVars, decs, envVars>>

PollBalance ==
    /\ pc = "pollBalance"
    /\ \/ /\ seen <= call.rem
          /\ pc' = "finalize"
          /\ UNCHANGED <<disk, call>>
       \/ /\ seen > call.rem
          /\ NextPoll
    /\ UNCHANGED <<chainVars, disposeOn, ledger, histVars, decs, envVars>>

\* Mutant: an unknown signature is taken for dead.
UnknownIsDead ==
    /\ pc = "pollBlockhash"
    /\ Dead
    /\ UNCHANGED <<chainVars, disposeOn, ledger, closed, pages, marks, envVars>>

PollBlockhashDead ==
    /\ pc = "pollBlockhash" /\ ~hashLive[call.sig]
    /\ Dead
    /\ UNCHANGED <<chainVars, disposeOn, ledger, closed, pages, marks, envVars>>

\* Still valid, or the RPC call failed and validity is assumed.
PollBlockhashValid ==
    /\ pc = "pollBlockhash"
    /\ NextPoll
    /\ UNCHANGED <<chainVars, disposeOn, ledger, histVars, decs, envVars>>

Resolver ==
    \/ PollError \/ PollFailed \/ PollConfirmed \/ PollPending \/ PollUnknown
    \/ PollBalance \/ PollBlockhashDead \/ PollBlockhashValid

-----------------------------------------------------------------------------
(* _finalize_confirmed, one durable write at a time.                        *)

\* Mutant: the dispose mark survives its sale.
FinalizeKeepMark ==
    /\ pc = "finalize"
    /\ pc' = "finDelete"
    /\ UNCHANGED <<chainVars, diskVars, call, histVars, decs, envVars>>

FinalizeDispose ==
    /\ pc = "finalize"
    /\ disposeOn' = (disposeOn /\ call.why # "dispose")
    /\ pc' = "finDelete"
    /\ UNCHANGED <<chainVars, disk, ledger, call, histVars, decs, envVars>>

\* Mutant: the pending entry survives the booking.
FinalizeKeepEntry ==
    /\ pc = "finDelete"
    /\ pc' = "finAppend"
    /\ UNCHANGED <<chainVars, diskVars, call, histVars, decs, envVars>>

FinalizeDelete ==
    /\ pc = "finDelete"
    /\ disk' = NoIntent
    /\ pc' = "finAppend"
    /\ UNCHANGED <<chainVars, disposeOn, ledger, call, histVars, decs, envVars>>

FinalizeAppend ==
    /\ pc = "finAppend"
    /\ ledger' = Append(ledger, [sig |-> call.sig, amt |-> call.amt, reason |-> call.why])
    /\ pc' = "finNotify"
    /\ UNCHANGED <<chainVars, disk, disposeOn, call, histVars, decs, envVars>>

FinalizeNotify ==
    /\ pc = "finNotify"
    /\ Return
    /\ UNCHANGED <<chainVars, diskVars, histVars, decs, envVars>>

\* A write fails: caught by sell's attempts, fatal outside them.
FinalizeIoError ==
    /\ pc \in {"finalize", "finDelete", "finAppend", "finNotify"}
    /\ ioErrs < MaxIoErrors
    /\ ioErrs' = ioErrs + 1
    /\ \/ /\ call.ret \in {"loop", "submit"}
          /\ NextAttempt(call)
          /\ UNCHANGED <<dropped, crashes>>
       \/ /\ call.ret \in {"prior", "absent"}
          /\ Die
    /\ UNCHANGED <<chainVars, diskVars, authorised, closed, pages, marks, decs, ops>>

Finalizer ==
    \/ FinalizeDispose \/ FinalizeDelete \/ FinalizeAppend \/ FinalizeNotify
    \/ FinalizeIoError

-----------------------------------------------------------------------------
(* The attempts of sell.                                                     *)

Attempting == pc = "attempt" /\ call.attempt <= MaxAttempts

\* A signature survived the previous attempt: it is resolved first.
ResolvePending ==
    /\ Attempting /\ call.sig # None
    /\ pc' = "poll"
    /\ call' = [call EXCEPT !.ret = "loop", !.poll = 1]
    /\ UNCHANGED <<chainVars, diskVars, histVars, decs, envVars>>

\* Mutant: an attempt orders again while a signature is pending.
ReadyRegardless == pc = "hold" \/ Attempting

ReadyToOrder == pc = "hold" \/ (Attempting /\ call.sig = None)
Filled == seen = 0 \/ seen <= call.obs - call.req

\* The balance is already at or below the target ("reconciled").
AlreadyFilled ==
    /\ ReadyToOrder /\ Filled
    /\ disposeOn' = (disposeOn /\ call.reason # "dispose")
    /\ pc' = "filled"
    /\ UNCHANGED <<chainVars, disk, ledger, call, histVars, decs, envVars>>

FilledDelete ==
    /\ pc = "filled"
    /\ disk' = NoIntent
    /\ Return
    /\ UNCHANGED <<chainVars, disposeOn, ledger, histVars, decs, envVars>>

ReadHolding ==
    /\ ReadyToOrder /\ ~Filled
    /\ pc' = "order"
    /\ call' = [call EXCEPT !.cur = seen]
    /\ UNCHANGED <<chainVars, diskVars, histVars, decs, envVars>>

\* _reserve_floor_refusal: only a cycle passes a pool, and an emergency exit is
\* never refused.
RefuseBelowFloor ==
    /\ pc = "order" /\ call.src = "cycle" /\ call.reason # "wide"
    /\ disk' = NoIntent
    /\ Return
    /\ UNCHANGED <<chainVars, disposeOn, ledger, histVars, decs, envVars>>

\* Jupiter's order passed validation and was signed.
OrderSigned ==
    /\ pc = "order"
    /\ pc' = "simulate"
    /\ UNCHANGED <<chainVars, diskVars, call, histVars, decs, envVars>>

\* _simulate_exit: the transaction, run on the node's view of the wallet, leaves
\* exactly the remainder the order was sized for.
SimulationAgrees == seen = call.cur

\* Mutant: the signature is kept in memory and not persisted.
SubmittingUnpersisted ==
    /\ pc = "simulate" /\ SimulationAgrees
    /\ sigs < MaxSignatures
    /\ sigs' = sigs + 1
    /\ tx' = [tx EXCEPT ![sigs + 1] = [st |-> "signed", amt |-> call.req, dec |-> call.dec,
                                       reason |-> call.reason]]
    /\ hashLive' = [hashLive EXCEPT ![sigs + 1] = TRUE]
    /\ call' = [call EXCEPT !.sig = sigs + 1, !.amt = call.req, !.rem = call.cur - call.req,
                            !.why = call.reason]
    /\ pc' = "send"
    /\ UNCHANGED <<bal, seen, diskVars, histVars, decs, envVars>>

\* The signature is persisted before anything is sent.
PersistSubmitting ==
    LET s == sigs + 1
        sellNow == IF call.req < call.cur THEN call.req ELSE call.cur
        c == [call EXCEPT !.sig = s, !.amt = sellNow, !.rem = call.cur - sellNow,
                          !.why = call.reason]
    IN  /\ pc = "simulate" /\ SimulationAgrees
        /\ sigs < MaxSignatures
        /\ sigs' = s
        /\ tx' = [tx EXCEPT ![s] = [st |-> "signed", amt |-> sellNow, dec |-> call.dec,
                                    reason |-> call.reason]]
        /\ hashLive' = [hashLive EXCEPT ![s] = TRUE]
        /\ call' = c
        /\ disk' = [status |-> "submitting", reason |-> call.reason, amt |-> sellNow,
                    rem |-> call.cur - sellNow, sig |-> s, dec |-> call.dec,
                    blocked |-> FALSE, ack |-> FALSE]
        /\ pc' = "send"
        /\ UNCHANGED <<bal, seen, disposeOn, ledger, histVars, decs, envVars>>

\* The /execute request leaves; it may or may not reach Jupiter.
Send ==
    /\ pc = "send"
    /\ \/ tx' = [tx EXCEPT ![call.sig].st = "sent"]
       \/ UNCHANGED tx
    /\ pc' = "response"
    /\ UNCHANGED <<bal, seen, hashLive, sigs, diskVars, call, histVars, decs, envVars>>

ExecuteSuccess ==
    /\ pc = "response" /\ tx[call.sig].st # "signed"
    /\ disk' = IntentOf(call, "submitted", call.sig)
    /\ pc' = "poll"
    /\ call' = [call EXCEPT !.ret = "submit", !.poll = 1]
    /\ UNCHANGED <<chainVars, disposeOn, ledger, histVars, decs, envVars>>

\* A failure code, a foreign signature, a timeout: the signature stays pending.
ExecuteAmbiguous ==
    /\ pc = "response"
    /\ NextAttempt(call)
    /\ UNCHANGED <<chainVars, diskVars, histVars, decs, envVars>>

\* An RPC or Jupiter error, or a rejected order, ends the attempt.
AttemptError ==
    /\ ReadyToOrder \/ pc \in {"order", "simulate"}
    /\ NextAttempt(call)
    /\ UNCHANGED <<chainVars, diskVars, histVars, decs, envVars>>

GiveUpUnresolved ==
    /\ pc = "attempt" /\ call.attempt > MaxAttempts /\ call.sig # None
    /\ Block
    /\ UNCHANGED <<chainVars, disposeOn, ledger, histVars, decs, envVars>>

GiveUpFailed ==
    /\ pc = "attempt" /\ call.attempt > MaxAttempts /\ call.sig = None
    /\ disk' = [disk EXCEPT !.status = "failed"]
    /\ closed' = closed \cup {call.dec}
    /\ pages' = 0
    /\ Return
    /\ UNCHANGED <<chainVars, disposeOn, ledger, dropped, authorised, marks, decs, envVars>>

Attempts ==
    \/ ResolvePending \/ AlreadyFilled \/ FilledDelete \/ ReadHolding
    \/ RefuseBelowFloor \/ OrderSigned \/ PersistSubmitting \/ Send
    \/ ExecuteSuccess \/ ExecuteAmbiguous \/ AttemptError
    \/ GiveUpUnresolved \/ GiveUpFailed

-----------------------------------------------------------------------------

Crash ==
    /\ pc # "down"
    /\ Die
    /\ UNCHANGED <<chainVars, diskVars, authorised, closed, pages, marks, decs, ops, ioErrs>>

Process == Engine \/ Resolver \/ Finalizer \/ Attempts
Next == Process \/ Environment \/ Crash

Spec == Init /\ [][Next]_vars

\* The event loop keeps running and launchd restarts a dead process; nothing
\* is assumed of the chain, the operator or the RPC.
FairSpec == Spec /\ WF_vars(Process)

-----------------------------------------------------------------------------
(* Properties.                                                               *)

Pcs == {"down", "boot", "reconcile", "page", "idle", "decide", "panic", "poll", "pollBalance",
        "pollBlockhash", "finalize", "finDelete", "finAppend", "finNotify", "attempt",
        "hold", "filled", "order", "simulate", "send", "response"}

IntentType == [status : Statuses, reason : ReasonClasses, amt : Amounts, rem : Amounts,
               sig : Signatures \cup {None}, dec : Decisions \cup {None},
               blocked : BOOLEAN, ack : BOOLEAN]
CallType == [src : {"cycle", "reconcile", "panic"}, ret : {"prior", "absent", "loop", "submit"},
             obs : Amounts, req : Amounts, reason : ReasonClasses,
             dec : Decisions \cup {None}, attempt : Nat, poll : Nat, cur : Amounts,
             sig : Signatures \cup {None}, amt : Amounts, rem : Amounts, why : ReasonClasses]
TxType == [st : {"unsigned", "signed", "sent", "landed", "failed"}, amt : Amounts,
           dec : Decisions \cup {None}, reason : ReasonClasses]

ChainTypeOK ==
    /\ bal \in Amounts /\ seen \in Amounts
    /\ tx \in [Signatures -> TxType]
    /\ hashLive \in [Signatures -> BOOLEAN]
    /\ sigs \in 0..MaxSignatures
DiskTypeOK ==
    /\ disk \in IntentType /\ disposeOn \in BOOLEAN
    /\ ledger \in Seq([sig : Signatures, amt : Amounts, reason : ReasonClasses])
ProcTypeOK == pc \in Pcs /\ call \in CallType
HistTypeOK ==
    /\ dropped \in [Signatures -> {"no", "skip", "race", "crash"}]
    /\ authorised \in [Decisions -> Amounts]
    /\ closed \subseteq Decisions /\ pages \in Nat /\ marks \in Nat
CountsTypeOK ==
    /\ decs \in 0..MaxDecisions
    /\ crashes \in Nat /\ ops \in Nat /\ ioErrs \in Nat

\* Every variable of the exit path has its type; in particular the remainder
\* a sale must leave is never negative.
TypeOK == ChainTypeOK /\ DiskTypeOK /\ ProcTypeOK /\ HistTypeOK /\ CountsTypeOK

\* A transaction that may still land is the one the pending entry on disk
\* names, whatever crashes and errors came between, unless reconciliation
\* cleared that entry on a "skipped" sale.
LandableIsOnDisk ==
    \A s \in Signatures :
        MayStillLand(s) /\ dropped[s] # "skip" => InFlight(disk) /\ disk.sig = s

\* A sale that moved the balance is in trades.csv, or still named on disk or
\* by the running call, or was lost in one of three known ways: its entry was
\* cleared on a "skipped" sale, it landed between the status and the blockhash
\* read of one poll, or the process died inside _finalize_confirmed.
FillsAccounted ==
    \A s \in Signatures :
        tx[s].st = "landed" => Booked(s) \/ disk.sig = s \/ call.sig = s \/ dropped[s] # "no"

\* A ledger row names a sale that landed, with the amount and the reason of
\* the decision that made it, also when a later call (a panic, a resume) books it.
LedgerTruthful ==
    \A i \in DOMAIN ledger :
        LET t == tx[ledger[i].sig]
        IN  t.st = "landed" /\ t.amt = ledger[i].amt /\ t.reason = ledger[i].reason

\* Unless a write failed, no sale is booked twice.
BookedOnce ==
    ioErrs = 0 => \A i, j \in DOMAIN ledger : ledger[i].sig = ledger[j].sig => i = j

\* One decision sells once, and no more than it asked for, across retries,
\* crashes and resumes: two of its transactions land only if the first was
\* declared dead by the poll race.
SoldOncePerDecision ==
    \A s \in Signatures :
        tx[s].st = "landed" =>
            /\ tx[s].amt <= authorised[tx[s].dec]
            /\ \A t \in Signatures :
                 t # s /\ tx[t].st = "landed" /\ tx[t].dec = tx[s].dec =>
                     dropped[s] = "race" \/ dropped[t] = "race"

\* After an intent ended as failed no restart signs another transaction for
\* its decision, until the operator acknowledges it.
FailedIntentNotReplayed ==
    [][\A s \in Signatures :
        tx[s].st = "unsigned" /\ tx'[s].st = "signed" => tx'[s].dec \notin closed]_vars

\* The NOT AUTO-RESUMED page of a failed intent fires at most once, however
\* often the process restarts.
HeldPagedOnce == pages <= 1

\* A dispose mark is a one-shot instruction: unless a dispose sale was lost on
\* a "skipped" resume or in the poll race, sales for "dispose" never outnumber
\* the marks the operator placed.
DisposeOneShot ==
    \A S \in SUBSET {s \in Signatures : /\ tx[s].st = "landed" /\ tx[s].reason = "dispose"
                                        /\ dropped[s] \notin {"skip", "race"}} :
        \E f \in [S -> 1..marks] : \A s, t \in S : f[s] = f[t] => s = t

\* Every sell, resume and reconciliation ends: bounded polls and attempts, no
\* wait for the chain.
ProcessReturns == pc \notin {"idle", "down"} ~> pc \in {"idle", "down"}

-----------------------------------------------------------------------------
(* Refinement: the exit path keeps one order in flight.                      *)

OpenOrders == {s \in Signatures : MayStillLand(s) /\ dropped[s] # "skip"}
UsedSignatures == {s \in Signatures : tx[s].st \notin {"unsigned", "signed"}}

Flight == INSTANCE SingleFlight WITH open <- OpenOrders, used <- UsedSignatures

\* No order is sent while another that was not given up on a "skipped" resume
\* may still execute, and no signature is sent twice.
OneOrderInFlight == Flight!Spec

=============================================================================
