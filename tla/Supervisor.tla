----------------------------- MODULE Supervisor -----------------------------
(***************************************************************************)
(* The capture supervisor (crates/joshi-supervisor): a single writer that   *)
(* journals every attempt before its I/O, owns its bytes in a bounded queue *)
(* until the local spool holds them, and settles each attempt exactly once, *)
(* as evidence, as a gap or as cancelled.                                   *)
(*                                                                          *)
(* The journal is one file per event, named by its ordinal: write a pending *)
(* file, fsync, rename, fsync the directory. A failed append can leave      *)
(* nothing, a torn or a complete pending file, or a renamed file the memory *)
(* does not count; the process can be killed between any two steps. The     *)
(* runtime state (pending attempts, generations, lifecycle) is a replay of  *)
(* the counted records, so it is derived here from the journal itself.      *)
(*                                                                          *)
(* The caller (the collector runtime, the harness) is free to make any call *)
(* the API accepts; the loss of unsynced files is the subject of Spool.     *)
(***************************************************************************)
EXTENDS Integers, Sequences, FiniteSets, FiniteSetsExt

CONSTANTS
    Key,            \* (source key, operation key)
    MaxRecords,     \* queue: most records it holds
    Reserved,       \* queue: records kept for the control class
    MaxAttempts,    \* retry policy: most attempts of a generation
    MaxReservations, MaxJournal, MaxExtras, MaxFaults, MaxStarts  \* model bounds

ASSUME SupervisorConstants ==
    /\ MaxRecords \in Nat /\ Reserved \in Nat /\ MaxAttempts \in Nat
    /\ MaxReservations \in Nat /\ MaxJournal \in Nat /\ MaxExtras \in Nat
    /\ MaxFaults \in Nat /\ MaxStarts \in Nat

VARIABLES
    journal,    \* the renamed event files, by ordinal
    pending,    \* the pending file: none, or its ordinal, content and tear
    seg,        \* what the spool holds under the attempt's segment identity
    next,       \* the ordinal the process will write next
    queue,      \* owned items, oldest first
    pc,         \* where the running call is, "idle" between calls
    job,        \* the procedure around it: start, shutdown, or neither
    call,       \* its argument and what remains of it
    terminal,   \* the caller has seen an error and will end the process
    granted,    \* reservations a caller was handed, with their records
    io,         \* attempts whose I/O a caller began
    faults, starts

disk == <<journal, pending, seg>>
bounds == <<faults, starts>>
ghosts == <<granted, io>>
vars == <<journal, pending, seg, next, queue, pc, job, call, terminal, granted, io,
          faults, starts>>

Types == {"started", "reserved", "io", "retry", "durable", "abandoned", "cancelled",
          "stopped", "closing", "closed"}
Settling == {"durable", "abandoned", "cancelled"}
NoKey == "-"
Ids == 1 .. MaxJournal

\* One journal record: `of` is the attempt it speaks of (the ordinal of its
\* AttemptReserved), `att` the attempt ordinal, or what a retry decision
\* scheduled (0: exhausted).
Ev(type, of, key, gen, att) ==
    [type |-> type, of |-> of, key |-> key, gen |-> gen, att |-> att]
About(type, r) == Ev(type, r, NoKey, 0, 0)

NoFile == [at |-> 0, torn |-> FALSE, ev |-> About("started", 0)]
NoCall == [of |-> 0, as |-> "durable", stop |-> FALSE, pop |-> FALSE]

-----------------------------------------------------------------------------
(***************************************************************************)
(* Replay: RuntimeState.apply folded over the records the process counts,   *)
(* or, when no process runs, over the files the next one will load.         *)
(***************************************************************************)
Top == IF pc = "down" THEN Len(journal) ELSE next - 1
Counted == 1 .. Top

ReservedIds == {r \in Counted : journal[r].type = "reserved"}
Settles(i, r) == journal[i].type \in Settling /\ journal[i].of = r
Pending == {r \in ReservedIds : \A i \in Counted : ~ Settles(i, r)}
IoRecorded(r) == \E i \in Counted : journal[i].type = "io" /\ journal[i].of = r

OfKey(k) == {r \in ReservedIds : journal[r].key = k}
Latest(k) == Max(OfKey(k))
Gen(k) == journal[Latest(k)].gen
\* Mutant: a retry takes the ordinal of the attempt it repeats.
NextAttReused(k) == journal[Latest(k)].att

NextAtt(k) == 1 + Max({journal[r].att : r \in OfKey(k)})
Stopped(k) ==
    \E i \in Counted : /\ i > Latest(k)
                       /\ journal[i].type = "stopped"
                       /\ journal[i].key = k
                       /\ journal[i].gen = Gen(k)
Active == {k \in Key : OfKey(k) # {} /\ ~ Stopped(k)}

LifecycleAt == {i \in Counted : journal[i].type \in {"started", "closing", "closed"}}
Lifecycle == IF LifecycleAt = {} THEN "none" ELSE journal[Max(LifecycleAt)].type
Running == Lifecycle = "started"

Queued(r) == \E i \in DOMAIN queue : queue[i].of = r

-----------------------------------------------------------------------------
(***************************************************************************)
(* Files.                                                                   *)
(***************************************************************************)
\* DurableJournal::append, when it succeeds; a rename replaces a file that an
\* earlier failed append left under the same ordinal.
Prefix == SubSeq(journal, 1, next - 1)
AppendOk(ev) ==
    /\ pending = NoFile
    /\ journal' = Append(Prefix, ev)
    /\ next' = next + 1
    /\ UNCHANGED pending

\* Mutant: a failed append uses up its ordinal.
AppendErrAdvances(ev) ==
    /\ next' = next + 1
    /\ faults < MaxFaults /\ faults' = faults + 1
    /\ UNCHANGED <<journal, pending>>

\* When it fails: create_new refuses an old pending file; the write may leave
\* nothing, part or all of the pending file; or the directory fsync fails after
\* the rename. Memory does not advance.
AppendErr(ev) ==
    /\ UNCHANGED next
    /\ \/ /\ pending # NoFile
          /\ UNCHANGED <<journal, pending, faults>>
       \/ /\ pending = NoFile
          /\ faults < MaxFaults
          /\ faults' = faults + 1
          /\ \/ UNCHANGED <<journal, pending>>
             \/ /\ \E torn \in BOOLEAN :
                       pending' = [at |-> next, torn |-> torn, ev |-> ev]
                /\ UNCHANGED journal
             \/ /\ journal' = Append(Prefix, ev)
                /\ UNCHANGED pending

\* LocalTransport::append of an attempt's segment: exact bytes are idempotent,
\* other bytes under the same identity a conflict. Two gaps of one attempt are
\* the same bytes only if they carry the same reason and time.
PutOk(r, kind) ==
    /\ seg[r] \in {"none", kind}
    /\ seg' = [seg EXCEPT ![r] = kind]
PutErr(r, kind, mine) ==
    \/ /\ seg[r] # "none" /\ (seg[r] # kind \/ ~ mine)
       /\ UNCHANGED <<seg, faults>>
    \/ /\ faults < MaxFaults
       /\ faults' = faults + 1
       /\ seg' \in {seg, [seg EXCEPT ![r] = IF @ = "none" THEN kind ELSE @]}

\* persist_health at the end of a call: it can fail after the call took effect.
HealthOk == UNCHANGED faults
HealthErr == faults < MaxFaults /\ faults' = faults + 1

-----------------------------------------------------------------------------
(***************************************************************************)
(* Control: how a call returns.                                             *)
(***************************************************************************)
\* Ok: back to the caller, or to the procedure that made the call.
Return ==
    /\ pc' = "idle"
    /\ call' = NoCall
    /\ UNCHANGED <<job, terminal>>

\* Err: it ends the procedure around it too. A failed start is no process; any
\* other leaves the supervisor to a caller that now only means to end it.
Fail ==
    /\ pc' = IF job = "startup" THEN "down" ELSE "idle"
    /\ job' = "none"
    /\ call' = NoCall
    /\ terminal' = (job # "startup")

\* What a call that took effect tells its caller.
Reply ==
    \/ Return /\ HealthOk
    \/ Fail /\ HealthErr

\* A call that is one journal append.
AppendCall(ev) ==
    /\ \/ AppendOk(ev) /\ Reply
       \/ AppendErr(ev) /\ Fail
    /\ UNCHANGED <<seg, queue, starts>>

Free == pc = "idle" /\ job = "none"
\* Bounds on what the caller asks for: reservations, and calls besides.
MayReserve == next \in Ids /\ Cardinality(ReservedIds) < MaxReservations
Extras == {i \in Counted : journal[i].type \in {"retry", "stopped"}}
Room == Cardinality(Extras) < MaxExtras

-----------------------------------------------------------------------------
(***************************************************************************)
(* Reserving, and the records around an attempt's I/O.                      *)
(***************************************************************************)
\* Mutant: the reservation is handed out whether or not it was journalled.
GrantUnconfirmed(ev) ==
    /\ granted' = granted \union {<<next, ev>>}
    /\ \/ AppendOk(ev) /\ Reply
       \/ AppendErr(ev) /\ Fail
    /\ UNCHANGED <<seg, queue, io, starts>>

\* An AttemptReserved; the caller is handed the reservation only if the health
\* snapshot was written too.
Grant(ev) ==
    /\ \/ /\ AppendOk(ev)
          /\ \/ Return /\ HealthOk /\ granted' = granted \union {<<next, ev>>}
             \/ Fail /\ HealthErr /\ UNCHANGED granted
       \/ AppendErr(ev) /\ Fail /\ UNCHANGED granted
    /\ UNCHANGED <<seg, queue, io, starts>>

\* reserve: `fresh` is AttemptKind::starts_generation.
Reserve(k, fresh) ==
    /\ Free /\ Running /\ MayReserve
    /\ \/ /\ OfKey(k) = {}
          /\ Grant(Ev("reserved", 0, k, 1, 1))
       \/ /\ OfKey(k) # {} /\ fresh
          /\ Grant(Ev("reserved", 0, k, Gen(k) + 1, 1))
       \/ /\ OfKey(k) # {} /\ ~ fresh /\ ~ Stopped(k)
          /\ Grant(Ev("reserved", 0, k, Gen(k), NextAtt(k)))

GrantedIds == {g[1] : g \in granted}
\* The record of a reservation the caller holds.
Held(r) == CHOOSE g \in granted : g[1] = r

\* reserve_retry: the lifecycle is not asked for.
ReserveRetry(r) ==
    /\ Free /\ MayReserve
    /\ r \in GrantedIds \ Pending
    /\ LET k == Held(r)[2].key IN
       /\ OfKey(k) # {} /\ ~ Stopped(k)
       /\ Gen(k) = Held(r)[2].gen
       /\ Grant(Ev("reserved", 0, k, Gen(k), NextAtt(k)))

\* decide_retry, once for an attempt; a provider's own delay over the ceiling
\* exhausts the retry whatever the ordinal.
DecideRetry(r) ==
    /\ Free /\ Room
    /\ r \in GrantedIds \intersect Pending
    /\ \A i \in Counted : ~ (journal[i].type = "retry" /\ journal[i].of = r)
    /\ \E n \in {0} \union {a \in {Held(r)[2].att} : a < MaxAttempts} :
           AppendCall(Ev("retry", r, NoKey, 0, IF n = 0 THEN 0 ELSE n + 1))
    /\ UNCHANGED ghosts

\* CollectorRuntime::run_one: RuntimeIoStarted is journalled, and only then the
\* provider is called.
StartIo(r) ==
    /\ Free /\ r \in (GrantedIds \intersect Pending) \ io
    /\ \/ /\ AppendOk(About("io", r))
          /\ \/ Return /\ HealthOk /\ io' = io \union {r}
             \/ Fail /\ HealthErr /\ UNCHANGED io
       \/ AppendErr(About("io", r)) /\ Fail /\ UNCHANGED io
    /\ UNCHANGED <<seg, queue, granted, starts>>

\* cancel_before_io, by a caller that has not begun the I/O.
CancelBeforeIo(r) ==
    /\ Free /\ r \in (GrantedIds \intersect Pending) \ io
    /\ ~ Queued(r)
    /\ AppendCall(About("cancelled", r))
    /\ UNCHANGED ghosts

\* A caller stops the generation of an attempt it holds, and only once.
MayStop(r) ==
    /\ Free /\ Room /\ r \in GrantedIds
    /\ LET g == Held(r)[2] IN
       ~ \E i \in Counted : /\ journal[i].type = "stopped"
                            /\ journal[i].key = g.key
                            /\ journal[i].gen = g.gen

\* stop_generation_without_gap.
StopWithoutGap(r) ==
    /\ MayStop(r)
    /\ AppendCall(Ev("stopped", 0, Held(r)[2].key, Held(r)[2].gen, 0))
    /\ UNCHANGED ghosts

-----------------------------------------------------------------------------
(***************************************************************************)
(* The queue.                                                               *)
(***************************************************************************)
RecordLimit(kind) == IF kind = "evidence" THEN MaxRecords - Reserved ELSE MaxRecords

\* try_enqueue: a full queue hands the item back, and nothing changes.
TryEnqueue(r, kind) ==
    /\ Free /\ Running
    /\ r \in Pending \intersect io
    /\ ~ Queued(r)
    /\ Len(queue) + 1 <= RecordLimit(kind)
    /\ queue' = Append(queue, [of |-> r, kind |-> kind])
    /\ UNCHANGED <<disk, next, pc, job, call, terminal, ghosts, bounds>>

\* Seal a segment for attempt r; on success the outcome is journalled next.
Seal(r, kind, mine, then) ==
    /\ \/ /\ PutOk(r, kind)
          /\ pc' = "sealed"
          /\ call' = then
          /\ UNCHANGED <<job, terminal, faults>>
       \/ PutErr(r, kind, mine) /\ Fail
    /\ UNCHANGED <<journal, pending, next, queue, ghosts, starts>>

Call(r, as, stop, pop) == [of |-> r, as |-> as, stop |-> stop, pop |-> pop]

\* drain_one: the front item's own bytes; whether its attempt is still pending
\* is not asked.
DrainOne ==
    /\ queue # <<>>
    /\ Seal(Head(queue).of, Head(queue).kind, TRUE, Call(Head(queue).of, "durable", FALSE, TRUE))

\* Mutant: an attempt is abandoned while its item is still queued.
AbandonQueued(r, stop) ==
    /\ r \in Pending
    /\ Seal(r, "gap", FALSE, Call(r, "abandoned", stop, FALSE))

\* abandon; abandon_and_stop and stop_saturated go on to stop the generation.
Abandon(r, stop) ==
    /\ r \in Pending
    /\ ~ Queued(r)
    /\ Seal(r, "gap", FALSE, Call(r, "abandoned", stop, FALSE))

\* stop_front_for_pressure: the front item's gap, and the front is released only
\* once its generation is stopped.
StopFrontForPressure ==
    /\ Free /\ queue # <<>>
    /\ Head(queue).kind = "evidence"
    /\ Seal(Head(queue).of, "gap", FALSE, Call(Head(queue).of, "abandoned", TRUE, TRUE))

\* The outcome of a sealed segment is journalled. Between an abandoned attempt
\* and its stopped generation, abandon_closure writes the health snapshot and
\* stop_front_for_pressure does not.
Released == IF call.pop THEN Tail(queue) ELSE queue
\* Mutant: the item is released before its outcome is journalled.
RecordOutcomePopsFirst ==
    /\ pc = "sealed" /\ ~ call.stop
    /\ LET ev == About(call.as, call.of) IN
       \/ AppendOk(ev) /\ Reply
       \/ AppendErr(ev) /\ Fail
    /\ queue' = Released
    /\ UNCHANGED <<seg, ghosts, starts>>

RecordOutcome ==
    /\ pc = "sealed"
    /\ LET ev == About(call.as, call.of) IN
       \/ /\ AppendOk(ev)
          /\ IF call.stop
             THEN /\ UNCHANGED queue
                  /\ \/ /\ pc' = "stopping"
                        /\ UNCHANGED <<job, call, terminal, faults>>
                     \/ ~ call.pop /\ Fail /\ HealthErr
             ELSE /\ queue' = Released
                  /\ Reply
       \/ AppendErr(ev) /\ Fail /\ UNCHANGED queue
    /\ UNCHANGED <<seg, ghosts, starts>>

\* GenerationStopped for the generation of the attempt in hand.
RecordStop ==
    /\ pc = "stopping"
    /\ LET ev == Ev("stopped", 0, journal[call.of].key, journal[call.of].gen, 0) IN
       \/ /\ AppendOk(ev)
          /\ queue' = Released
          /\ Reply
       \/ AppendErr(ev) /\ Fail /\ UNCHANGED queue
    /\ UNCHANGED <<seg, ghosts, starts>>

\* The control gap in front of a GenerationStopped that has no attempt's gap.
Downtime(r) ==
    /\ \/ /\ pc' = "stopping"
          /\ call' = Call(r, "abandoned", TRUE, FALSE)
          /\ UNCHANGED <<job, terminal, faults>>
       \/ Fail /\ faults < MaxFaults /\ faults' = faults + 1
    /\ UNCHANGED <<disk, next, queue, ghosts, starts>>

\* stop_generation_with_downtime.
StopWithDowntime(r) == MayStop(r) /\ Downtime(r)

-----------------------------------------------------------------------------
(***************************************************************************)
(* Start, reconciliation and shutdown.                                      *)
(***************************************************************************)
\* recover_pending and load_records: a torn pending file, or one that differs
\* from the file it should become, refuses every start.
Refused ==
    /\ pending # NoFile
    /\ \/ pending.torn
       \/ pending.at <= Len(journal) /\ journal[pending.at] # pending.ev

\* DurableJournal::open: a complete pending file is promoted (or removed, its
\* record being there already), and everything is loaded.
Open ==
    /\ pc = "down" /\ ~ Refused
    /\ starts < MaxStarts \/ Pending # {}
    /\ journal' = IF pending # NoFile /\ pending.at > Len(journal)
                  THEN Append(journal, pending.ev) ELSE journal
    /\ pending' = NoFile
    /\ next' = Len(journal') + 1
    /\ pc' = "opened"
    /\ job' = "startup"
    /\ terminal' = FALSE
    /\ starts' = IF starts < MaxStarts THEN starts + 1 ELSE starts
    /\ UNCHANGED <<seg, queue, call, ghosts, faults>>

\* Supervisor::open_with: SupervisorStarted, the spool, the health snapshot.
Started ==
    /\ pc = "opened"
    /\ AppendCall(About("started", 0))
    /\ UNCHANGED ghosts

Reconciling == pc = "idle" /\ job \in {"startup", "shutdown"}
\* Mutant: the record of a begun I/O is not looked for.
UnstartedAll == Pending

Unstarted == {r \in Pending : ~ IoRecorded(r)}

\* CollectorRuntime::open: attempts that never began their I/O are cancelled
\* before the others are reconciled.
CancelUnstarted ==
    /\ Reconciling /\ job = "startup" /\ Unstarted # {}
    /\ AppendCall(About("cancelled", Min(Unstarted)))
    /\ UNCHANGED ghosts

\* reconcile_startup: a segment found in the spool decides the outcome.
Found(r) == IF seg[r] = "evidence" THEN "durable" ELSE "abandoned"
\* Mutant: only attempts that left a segment are reconciled.
ReconcileFound ==
    /\ Reconciling /\ queue = <<>> /\ Pending # {}
    /\ LET r == Min(Pending) IN
       /\ seg[r] # "none"
       /\ pc' = "sealed"
       /\ call' = Call(r, Found(r), FALSE, FALSE)
    /\ UNCHANGED <<disk, next, queue, job, terminal, ghosts, bounds>>

Reconcile ==
    /\ Reconciling /\ queue = <<>> /\ Pending # {}
    /\ job = "startup" => Unstarted = {}
    /\ LET r == Min(Pending) IN
       \/ seg[r] = "none" /\ Abandon(r, FALSE)
       \/ /\ seg[r] # "none"
          /\ \/ /\ pc' = "sealed"
                /\ call' = Call(r, Found(r), FALSE, FALSE)
                /\ UNCHANGED <<job, terminal, faults>>
             \/ Fail /\ faults < MaxFaults /\ faults' = faults + 1
          /\ UNCHANGED <<disk, next, queue, ghosts, starts>>

\* The start is over once nothing of an earlier process is pending.
Ready ==
    /\ Reconciling /\ job = "startup" /\ Pending = {}
    /\ job' = "none"
    /\ UNCHANGED <<disk, next, queue, pc, call, terminal, ghosts, bounds>>

\* shutdown: ShutdownStarted, then drain, reconcile and stop what is active.
Shutdown ==
    /\ Free /\ Running
    /\ \/ /\ AppendOk(About("closing", 0))
          /\ job' = "shutdown"
          /\ UNCHANGED <<pc, call, terminal, faults>>
       \/ AppendErr(About("closing", 0)) /\ Fail
    /\ UNCHANGED <<seg, queue, ghosts, starts>>

ShutdownDrain == Reconciling /\ job = "shutdown" /\ DrainOne

ShutdownStop ==
    /\ Reconciling /\ job = "shutdown" /\ queue = <<>> /\ Pending = {}
    /\ \E k \in Active : Downtime(Latest(k))

\* ShutdownCompleted.
ShutdownCompleted ==
    /\ Reconciling /\ job = "shutdown" /\ queue = <<>> /\ Pending = {} /\ Active = {}
    /\ \/ /\ AppendOk(About("closed", 0))
          /\ job' = "none"
          /\ UNCHANGED <<pc, call>>
          /\ terminal' = TRUE
          /\ HealthOk \/ HealthErr
       \/ AppendErr(About("closed", 0)) /\ Fail
    /\ UNCHANGED <<seg, queue, ghosts, starts>>

\* The process ends: after an error or a completed shutdown the caller returns,
\* and it can be killed anywhere.
Leave ==
    /\ pc' = "down"
    /\ queue' = <<>>
    /\ job' = "none"
    /\ call' = NoCall
    /\ terminal' = FALSE
    /\ UNCHANGED <<disk, next, ghosts, starts>>
Exit == Free /\ terminal /\ Leave /\ UNCHANGED faults
Kill == pc # "down" /\ faults < MaxFaults /\ faults' = faults + 1 /\ Leave

-----------------------------------------------------------------------------
Init ==
    /\ journal = <<>> /\ pending = NoFile
    /\ seg = [r \in Ids |-> "none"]
    /\ next = 1 /\ queue = <<>>
    /\ pc = "down" /\ job = "none" /\ call = NoCall /\ terminal = FALSE
    /\ granted = {} /\ io = {}
    /\ faults = 0 /\ starts = 0

CallOn(r) ==
    \/ ReserveRetry(r) \/ DecideRetry(r)
    \/ StartIo(r) \/ CancelBeforeIo(r)
    \/ StopWithoutGap(r) \/ StopWithDowntime(r)
    \/ \E kind \in {"evidence", "gap"} : TryEnqueue(r, kind)
    \/ \E stop \in BOOLEAN : Free /\ r \in GrantedIds /\ Abandon(r, stop)

Step ==
    \/ RecordOutcome \/ RecordStop
    \/ Open \/ Started \/ CancelUnstarted \/ Reconcile \/ Ready
    \/ ShutdownDrain \/ ShutdownStop \/ ShutdownCompleted \/ Exit

Next ==
    \/ \E k \in Key, fresh \in BOOLEAN : Reserve(k, fresh)
    \/ \E r \in Ids : CallOn(r)
    \/ Free /\ DrainOne
    \/ StopFrontForPressure
    \/ Shutdown
    \/ Step
    \/ Kill

Spec == Init /\ [][Next]_vars

\* A call runs to its end; every item and every attempt a live caller holds is
\* drained or given up; a caller that saw an error makes finitely many calls
\* before it ends the process; and a process that ended is started again.
Finish == Free /\ (DrainOne \/ \E r \in GrantedIds : Abandon(r, TRUE))
FairSpec == Spec /\ WF_vars(Step) /\ WF_vars(Finish) /\ SF_vars(Exit)

-----------------------------------------------------------------------------
(***************************************************************************)
(* Properties.                                                              *)
(***************************************************************************)
Kinds == {"none", "evidence", "gap"}
TypeOfEvent(e) ==
    /\ e.type \in Types
    /\ e.of \in 0 .. Len(journal)

SupervisorTypeOK ==
    /\ \A i \in DOMAIN journal : TypeOfEvent(journal[i])
    /\ pc # "down" => next \in {Len(journal), Len(journal) + 1}
    /\ pc # "down" /\ pending # NoFile => pending.at = next
    /\ seg \in [Ids -> Kinds]
    /\ pc \in {"down", "opened", "idle", "sealed", "stopping"}
    /\ job \in {"none", "startup", "shutdown"}
    /\ \A i \in DOMAIN queue : queue[i].of \in ReservedIds

\* What each attempt amounts to, for the abstract ledger.
StatusOf(r) ==
    LET by == {i \in Counted : Settles(i, r)} IN
    IF r \notin Counted \/ journal[r].type # "reserved" THEN "free"
    ELSE IF by = {} THEN "open"
    ELSE journal[Max(by)].type

Ledger == INSTANCE AttemptLedger
              WITH Attempt <- Ids, status <- [r \in Ids |-> StatusOf(r)]
\* An attempt is opened once, settled once and never settled otherwise, through
\* failed appends, overwritten ordinals, kills and promoted pending files.
SettledOnce == Ledger!Spec

\* A settled attempt has what its record says: durable bytes are in the spool,
\* an abandoned attempt has its gap there (so late bytes cannot take its
\* identity), and a cancelled one never began its I/O and holds no evidence.
OutcomeBacked ==
    \A i \in Counted :
        /\ journal[i].type = "durable" => seg[journal[i].of] # "none"
        /\ journal[i].type = "abandoned" => seg[journal[i].of] = "gap"
        /\ journal[i].type = "cancelled" =>
               journal[i].of \notin io /\ seg[journal[i].of] # "evidence"

\* A reservation handed to a caller stays in the journal as it was handed over,
\* and no identity is handed out twice.
GrantedKept ==
    /\ \A g \in granted : g[1] \in Counted /\ journal[g[1]] = g[2]
    /\ \A g, h \in granted : g[1] = h[1] => g = h

\* No two attempts of one operation share generation and attempt ordinal.
AttemptsDistinct ==
    \A r, s \in ReservedIds :
        /\ journal[r].key = journal[s].key
        /\ journal[r].gen = journal[s].gen
        /\ journal[r].att = journal[s].att
        => r = s

\* Bytes a caller captured leave the queue only into the spool or as a gap: an
\* attempt that was enqueued is queued, settled, or was lost with its process.
NothingDropped ==
    [][\A r \in Ids : Queued(r) /\ ~ Queued(r)' /\ pc' # "down" => r \notin Pending']_vars

\* Every attempt is settled in the end, unless a start is refused.
EveryAttemptSettled == \A r \in Ids : r \in Pending ~> (r \notin Pending \/ Refused)

=============================================================================
