# Verification of the joshi and joshibot core

The repository holds two systems. `joshibot/` is a set of Python services around
one wallet; the only code in it that moves money by itself is the **sentinel**
(`joshibot/shitcoims_sentinel`), a sell-only process that watches the wallet's
holdings, decides exits by policy and sells through Jupiter. `joshi/` is a Rust
research stack whose promises are about evidence: captured bytes are journalled,
spooled, replicated and admitted without loss, and a browser is paired with the
core under a durable record of who was let in.

This project models the parts of both that keep state through failures: the path
a sale takes from decision to ledger row, which rule protects a bag, what the
rules decide, the segment spool and its replica, the capture supervisor, and
pairing.

## Inventory

| part | state | operations | talks to | what is hard |
|---|---|---|---|---|
| `executor.py` SellExecutor | locals of a `sell` call; `pending_exits[mint]`, `trades.csv` | `sell`, `resolve_pending_exit`, `_resolve_signature`, `_finalize_confirmed`, `_block_on_unresolved` | RPC, Jupiter, state store, notifier | ambiguous submissions, retries, crash between two writes |
| `engine.py` SentinelEngine | cycle state, snapshot, config | `run`, `cycle`, `_inspect_position`, `reconcile_pending_exits`, `panic`, policy mutation | executor, store, server handlers (same event loop) | restart, stale reads across awaits, concurrent policy edits |
| `storage.py` StateStore | `state.json` under a file lock | `get`, `set`, `delete`, `set_dispose_policy` | server and CLI processes | atomic single writes, no transactions |
| `domain.py`, `runner.py`, `rug_detector.py` | `PositionState` and baselines per mint | `evaluate_position`, ratchet, scale-out, rug score | engine | streaks, rungs, edges that outlive their cause |
| `lots.py`, `policies.py` | lot records, policy YAML | lifecycle of a lot, default protection, payload validation | engine, server | generations, lost updates |
| `clients.py`, `transaction.py`, `reserves.py` | none | RPC and Jupiter calls, transaction validation | network | lag, errors, lost answers |
| `server.py`, `cli.py` | none of their own | HTTP handlers, `--panic`, `--dispose` | engine, store | two processes on one file, a cycle's read and write of one state apart |
| `joshi-spool` | files of the spool and of the replica | `append_segment`, `list_segments`, receipts, `resume_state`, `apply_chunk`, both drains | supervisor, catalog | torn, unsynced and renamed-but-unsynced files; resumed transfers |
| `joshi-supervisor` | journal of events, bounded queue, replayed state | `reserve`, `reserve_retry`, `decide_retry`, `try_enqueue`, `drain_one`, `abandon`, `reconcile_startup`, `shutdown` | spool, collector runtime | a kill or a failed write between any two durable steps |
| `joshi-pairing`, `apps/core/src/pairing.rs`, pairing tables of `joshi-store` | live codes and sessions in memory, occurrences in SQLite | issue, exchange, authorize, revoke, expire, begin an epoch | launcher, browser | memory and journal apart after a lost or unseen commit; rate windows across restarts |
| other joshibot packages, other joshi crates and apps | see `PROJECT.json` | | | recorders, studies, documents, user interfaces |

What makes the exit path correct: no transaction that can still execute is
forgotten; one decision sells at most once; every fill reaches the ledger once,
with the amount and reason that made it; a failed sale is not replayed by a
restart; a dispose mark is used once; every call ends.

What makes the rules correct: a rebought bag is judged by its own cost, peak and
streaks only; a rule the sentinel wrote dies with its bag; a rule the operator
wrote is never removed, replaced or loosened by the sentinel; a held bag gets a
rule unless the operator declined; a stop sells on its confirmed quotes and on
nothing else; a disposal needs an edge seen under its own instruction.

What makes the evidence path correct: what a caller was told is durable is; a
receipt is for bytes that are kept; an attempt is opened once and settled once,
and its outcome is what the spool holds; nothing captured is dropped silently.

What makes pairing correct: memory accepts nothing the journal says is over; a
code makes one session; a restart closes everything older and serves again.

## Modules

* `SellExecutor` - the exit path for one mint. State: the wallet's balance and
  the RPC node's possibly lagging view of it; every signed transaction and
  whether its blockhash is still valid; `pending_exits[mint]` (`disk`), the
  dispose mark and the ledger, which survive a crash; the process's position
  (`pc`) and the locals of the running `sell` call (`call`), which do not.
  A step ends at each `await` whose answer matters and between two durable
  writes, so the chain, the operator and a crash may come between any two.
  Actions follow the code: start-up reconciliation (`ReconcileRead`,
  `SettleAbsent`, `ClearAbsent`, `HoldTerminal`, `PageHeld`, `ClearUnexecutable`,
  `Resume`),
  the cycle and panic (`CycleRead`, `CycleSell`, `StartPanic`, ...), the resolver
  (`Poll*`), the finalizer (`Finalize*`) and the attempts of `sell`
  (`ResolvePending` ... `GiveUpFailed`). `call.ret` is the frame a resolution
  returns to: `prior` (head of `sell`), `absent` (bag gone at start-up), `loop`
  (start of an attempt), `submit` (right after `/execute`).
  Mints share only the sequential event loop, so one mint is modelled.
  History variables say why a signature stopped being tracked without a ledger
  row: `skip` (entry cleared on a "skipped" resume), `race` (landed between the
  two reads of one poll and was declared dead), `crash` (the process died inside
  `_finalize_confirmed`).
* `SingleFlight` - the abstract promise: an order is released only while no
  other may execute, and no signature twice. `SellExecutor` instantiates it with
  `open` = the orders that may still land and were not dropped as `skip`,
  `used` = the signatures ever sent.
* `MCSellExecutor` - extends `SellExecutor` for all runs and states what
  comments and docs claim and the code does not do.
* `SellExecutorProofs`, `SellDecisionProofs`, `SellLedgerProofs` - the inductive
  invariant of the exit path, then what it gives: one sale per decision, a truthful
  ledger, failed intents held, a dispose mark used once.
* `LotPolicies` - the rule of one mint. On disk: the lot record (`lot`), the
  policy in `config.yaml` (`cfg`), and of `positions[mint]` its presence (`known`)
  and the bag whose peak it holds (`trail`). The cycle's place is `pc`; its locals
  (`cyc`) are the captured policy, the holdings it read, the lot it read before
  an await, and the drop, strip and refill it will write at its end. Actions:
  `CycleStart` (relax, capture), `ReadHoldings`, `RetireAbsentLot` and
  `ClearRuntimeLot` (the two writes of `_retire_absent_lot`, in both of the
  cycle's loops), `Inspect` / `BasisObserved` / `BasisUnavailable` / `Decide`
  (`_inspect_position`), `Schedule` / `ObserveDue` / `Merge` / `MarkDefault`
  (`_schedule_and_apply_defaults`), `Publish`, `RewriteLotsYaml`; the handlers
  `PutPolicy`, `ProtectUnmonitored`, `DeletePolicy`, `SkipAutoProtect`, which run
  where the cycle awaits and have a second write (`MarkOperator`,
  `RemovePolicy`) that only a crash can cut off; the wallet (`Buy`, `SellOut`)
  and the clock. Bags are numbered, and a basis, a peak and a default rule carry
  the number of the bag they are about, an operator's rule the number of its
  edit: that is what the properties compare. `lost` records which write a crash
  cut off, or that a stale write-back undid an edit. Handlers and cycle exclude
  each other by the event loop and the policy lock, which no task holds while
  suspended; policies of other mints are carried along unchanged by every
  rewrite, so one mint is modelled.
* `MCLotPolicies` - extends `LotPolicies` for its run.
* `LotPoliciesProofs` - the trailing peak, the cost basis, default and operator rules.

* `PositionRules` - what a cycle decides for one bag of one mint. `pos` is the
  persisted `PositionState`, `base` the three rug baselines, `policy` the rule in
  force with the dispose override (`marked` when one exists), `stopLive` whether
  the grace of a new bag is over. A cycle is `Observe` (every answer of the
  market, any of them missing) and `ConfirmRug` (the second look at a drained pool),
  both ending in the read of the prior state (`ReadPrior`), `Decide` (reads the
  dispose override and evaluates the copy it has), `Persist` (writes the next state),
  `Execute` (sold or refused) and `Record` (the baselines). The read of the position,
  the read of the override and the write take the file lock one after the other, so
  each is a step of its own; between them another process may come. `EvaluatePosition` and the
  operators under it are `evaluate_position` case by case. Around the cycle:
  `Retire`, `Buy` (which no cycle need have seen), `GraceOver`, `Edit`,
  `DisposeCli` (at any moment: another process), `Crash`. Prices are hundredths
  of the price paid; a streak is capped where the code only compares it.
  `seen` is a history of the current bag that the properties compare with; a cycle
  carries the history of its copy beside the copy (`cyc.state`, `cyc.seen`), because a
  write that puts an overwritten edge back puts its history back too.
* `Spool` - the files of a spool and of its replica. Each has a name the process
  sees (`at`: none, temporary, final), the name the medium has (`dur`), its cells
  (`data`) and how many of them are synced (`safe`). A call is a sequence of steps
  between the system calls of `atomic_write` and `apply_chunk`; `Break` ends it
  anywhere, `PowerLoss` lets the medium keep any part of what was not synced, `Rot`
  spoils a ready file. Two closures with one segment ID are the evidence of an
  attempt and the gap that may take its place.
* `Supervisor` - the journal as a sequence of records, of which the process counts
  `next - 1`; the runtime state (pending attempts, generations, lifecycle) is
  derived from the counted records, as `RuntimeState::apply` does. A failed append
  may leave nothing, a torn or complete pending file, or a renamed file memory does
  not count. `job` says whether a call runs inside a start or a shutdown, where an
  error ends both. `seg` is what the spool holds under an attempt's identity; the
  spool's own failures are `Spool`'s.
* `AttemptLedger` - the abstract promise: an attempt is opened once and settled
  once. `Supervisor` instantiates it with the status the counted records give.
* `OneTimeCodes` - the abstract promise of pairing: a code or session is unknown, usable
  or over, moves only that way, is recorded no later than it is released, and a session
  takes an open code with it. `Pairing` instantiates it with what its journal says and
  what it released.
* `Pairing` - the registry in memory (codes, sessions, two rate windows, the
  ordinal) and the occurrence journal of the store. `Persist` is `persist_exact`: an
  append the store refuses (`Refusal` gives the reason), one that fails, or one that
  commits unseen poisons the coordinator; `Start` begins an epoch and closes all
  that is live. The process clock derives wall from monotonic time, so one time
  serves both.
* `MCPositionRules`, `MCSpool`, `MCSupervisor`, `MCPairing` - the constants of the
  runs, and the claim each disputed comment, document or test makes.
* `PositionProofs`, `SpoolProofs`, `SupervisorProofs`, `PairingProofs` - the inductive
  invariant and the theorems of each.

The modules meet at narrow points, each modelled on both sides: a sale in
`PositionRules` happens or is refused, which is all that `SellExecutor` lets a
cycle see; `LotPolicies` decides which rule `PositionRules` is given; `Supervisor`
puts a segment with one step that may fail, whose inside is `Spool`.

Abstractions: amounts are small integers; an order is its amount, reason and
decision; Jupiter's routing, slippage, the validation of the transaction and
the multi-account simulation are reduced to whether an order can be signed and
whether the simulated remainder is the expected one. Which exit a policy chooses
is nondeterministic in `SellExecutor`; `exit` may be partial (a scale-out), `wide` stands for the
emergency reasons (panic, rug) and `dispose` needs the operator's mark. A
failed poll of the RPC ends an attempt of `sell`, and kills the process in the
two frames without a handler. A process that dies is restarted by launchd.

## Runs

| run | bounds | checks |
|---|---|---|
| `sell` | balance 2, 2 signatures, 2 decisions, 1 attempt per call, 1 crash, 1 operator trade, 1 failed write | `TypeOK`, `LandableIsOnDisk`, `FillsAccounted`, `SoldOncePerDecision`, `LedgerTruthful`, `BookedOnce` |
| `sell_restart` | balance 1, 2 signatures, 2 decisions, 2 attempts per call, 2 crashes, 2 operator actions, dispose marks, gate open and closed, fair | `HeldPagedOnce`, `FailedIntentNotReplayed`, `DisposeOneShot`, `ProcessReturns`, refinement of `SingleFlight` (`OneOrderInFlight`) |
| `lots` | 2 bags, 1 operator rule, 1 crash, all requests, fair | `LotTypeOK`, `NoInheritedBasis`, `NoInheritedPeak`, `RuleDiesWithBag`, `OperatorRuleKept`, `HeldGetsRule` |
| `position` | 6 mints, 3 prices, 2 reserves, 2 supplies, bag of 4, 2 confirmations, 2 slots, 1 rebuy, 1 fault | `PositionTypeOK`, `StopExact`, `ScaleOutsBounded`, `DisposeAfterCrossing`, `FloorRatchets` |
| `spool` | 2 closures of one segment, 2 cells, 1 break, 1 power loss, 1 rotten file, fair | `SpoolTypeOK`, `ReceiptsHold`, `ReceiptsMatchSpool`, `EvidenceLeavesReserve`, `Replicated` |
| `supervisor` | 1 attempt, 1 other call, 2 faults, 2 starts, fair | `SupervisorTypeOK`, `OutcomeBacked`, `EveryAttemptSettled`, refinement of `AttemptLedger` (`SettledOnce`) |
| `supervisor_pair` | 2 attempts, 1 fault, 1 start, fair | `GrantedKept`, `AttemptsDistinct`, `NothingDropped` |
| `pairing` | 1 code, 1 session, 1 failure and 1 issue per window, times to 3, 1 fault, fair | `PairingTypeOK`, `MemoryIsLive`, `OldEpochsClosed`, `RefusedForRateOnly`, refinement of `OneTimeCodes` (`CodesAreOneTime`), `ServesAgain` |
| `claim_*` | the smallest bounds that show the disagreement | one violated claim each |

Why the bounds are enough. `sell`: two signatures are a retry that overlaps an
earlier order; two decisions are a panic or a cycle that meets an earlier call's
signature; a
balance of 2 has a full and a partial sale; the retry is the one by a later call
(a resume, a cycle, a panic). `sell_restart` has the retry inside one call: two
attempts make that loop both repeat and run out. `lots`: two bags are a rebuy, one
crash separates any two writes. `position`: the prices are the stop and the two
scale-out rungs, which are profits, two confirmations are a streak that can break, each
mint has the rules that interact, and the one fault is at any step, so that a command of
the other process falls into each gap of a cycle, with cycles before and after it. `spool`: the two closures share an identity, so every
conflict between evidence and gap occurs, and two cells make a transfer resume.
`supervisor`: two faults are a failed write followed by a kill, the second start is
the recovery. `pairing`: limits of 1 are reached at once, and the attempt window is
longer than both lifetimes, so all its overlaps with expiry occur.

Fairness. `SellExecutor` and `LotPolicies`: weak fairness of the process as a whole
(the event loop runs and launchd restarts it); nothing is assumed of the chain, the
RPC or the operator. `Spool`: a call under way goes on (weak), and the drain is
called again and again, though other calls come between (strong, as is the listing
that quarantines). `Supervisor`: a call and a start go on, a live caller drains or
gives up what it holds (weak), and one that saw an error ends the process after
finitely many calls (strong). `Pairing`: a poisoned coordinator is reopened and a
start tried again. `spool`, `supervisor` and `supervisor_pair` turn the deadlock
check off: with its bounds used up and nothing left to drain or settle, such a
process may simply rest. Everywhere else an idle process can act, and deadlock is
checked.

The `claim_*` runs record disagreements between the code and its own text:

1. `claim_settled` - hold 3, sell 2, it lands, the process dies; at the restart
   1 is held, `sell` skips the resume because 2 > 1 before it polls the
   signature, and reconciliation deletes the entry. The fill is not booked.
2. `claim_durable` - an append is killed between its write and its fsync; the retry
   finds an equal pending file, renames it and reports `Appended`; a power loss tears
   bytes that were never synced.
3. `claim_retry` - after a generation with two attempts, the next generation's first
   attempt is 1 again and its retry is decided as 2, but reserved as 3.
4. `claim_window` - a successful exchange starts the attempt window in memory and not
   in the journal; later the two disagree, the store refuses a rejection and the
   coordinator is poisoned.

Divergences met in the same models and named as exceptions of the properties or as
hazards rather than kept as runs. Exit path: a transaction that lands after
`getSignatureStatuses` and whose blockhash expires before `isBlockhashValid` is
declared dead and sold again (`executor.py:213`); a crash between the deletion of
the pending entry and the ledger row loses the row (`executor.py:238`); a buy while a
sale confirms leaves the sale unresolved (`executor.py:205`); a crash between
`resume_blocked_at` and its page silences the page (`engine.py:1545`);
`reconcile_pending_exits` runs once per start, not every cycle (`engine.py:1974`).
Lots: the refill of an observed basis is a copy of the policy captured at the start
of the cycle and overwrites a PUT made meanwhile, and a drop decided at the holdings
read undoes a later PUT (`engine.py:1882`, against `engine.py:1694`); a basis typed
after a rebuy does not clear `needs_basis` and is ignored, then overwritten
(`lots.py:202`, against `engine.py:330`); an unmonitored bag is never retired, so a
rebuy gets the default rule on the old delay (`engine.py:1727`, against
`lots.py:104`); a crash between an operator's rule and its stamp lets the next cycle
take its stop away (`engine.py:2053`); skip-auto while due bases are read does not
stop the default rule (`engine.py:2147`); a crash between retiring a default lot and
the end of the cycle lets the rule survive its bag (`engine.py:915`); two crashes,
one before the strip and one before the refill, leave the old bag's basis in force
(`engine.py:1118`); a crash inside `_retire_absent_lot` leaves the old peak
(`engine.py:916`). Rules: an unconfirmed rug still moves the quote baseline
(`engine.py:1198`); a `--dispose` or `--cancel-dispose` that falls between the cycle's
read of the position (`engine.py:1205`) and its write (`engine.py:1227`) keeps its
override and loses its reset of the edge, though `storage.py:131` resets both
"atomically", and the next cycle may dispose on an edge from before it. Spool: a receipt may be for a segment whose name a power loss
takes back (`unsettled`); a complete partial file with a wrong last byte, or a torn
pending receipt, stops the drain for good (`Wedged`); good ready bytes of the other
closure are quarantined as corrupt (`replica.rs:106`). Supervisor: a torn pending file
refuses every start (`Refused`). Pairing: the right code offered while the attempt
budget is spent poisons the coordinator (`service.rs:382`); expiries dropped with a
`RateLimited` error can make one start refuse itself (`service.rs:277`).

The passing properties name these exceptions (`dropped`, `lost`, `adopted`,
`unsettled`, `Wedged`, `Refused`, the reasons of `RefusedForRateOnly`; in
`DisposeAfterCrossing` the history that `Persist` writes back with the edge), so that
everything else they say is still claimed and checked.

## Proofs

`SellExecutorProofs` proves, for every value of the constants that satisfies
`BoundsAssumption` and `ChoicesAssumption`:

* `TypeCorrect`, `LandableTracked`, `FillsAlwaysAccounted`: `Spec => []P` for
  `TypeOK`, `LandableIsOnDisk` and `FillsAccounted`;
* `ImplementsSingleFlight`: `Spec => OneOrderInFlight`.

The inductive invariant `IndInv` adds to those properties: `Allotted`
(signatures and decisions are handed out in order, nothing tracks one that was
not), `DiskTracks` (a stored signature is under an unresolved status),
`CallTracks` (what the locals track at each `pc`, and that the entry on disk
names the same signature or, once a fill is being booked, none) and
`CallAuthorised` (the amounts and decisions a call will write are in range).
They are needed because whether a step may let go of a signature depends on
where the process stands. A step that moves no transaction keeps the last two
parts of the invariant if it `HandsOver` what it tracked: `HandoverKeepsInv` is
that argument once, and each action's lemma shows the handover. Steps of the
chain, `Send` and `PersistSubmitting` are proved directly. For the refinement,
`OnlySendOpens` shows that no other step adds an order, and `OpenIsOnDisk` that
at most one is open.

`LotPoliciesProofs` proves under `LotBounds` and `DashboardRequests`
`LotTypesCorrect` and `PeakNotInherited` (`Spec => []P` for `LotTypeOK` and
`NoInheritedPeak`). `NoInheritedPeak` speaks of the moment of a decision; the
invariant `PeakInv` says why it holds there: the bag in the wallet is never a
retired one (`GoneIsSold`), a cycle that retires does so for a bag older than any
bought since its read (`AbsenceIsOld`), a cycle that inspects saw a bag not
retired (`SeenIsAlive`), and the stored peak is of such a bag unless it is just
being wiped (`PeakIsAlive`).

For those properties of lots that speak of rules rather than peaks the same cycle is
described further (`CycleFacts`: what each place of the cycle says of its locals), and
each has its own part:

* `BasisNotInherited` - `BasisFacts`: a basis that may be stale is not believed; the lot
  asks for an observation, or the write that removes or replaces it is still to come.
* `DefaultRuleDies` - `RuleFacts`: a rule of the sentinel's own is stamped on the lot,
  about to be, or about to be dropped.
* `OperatorRulesKept` (an action property) - `OperatorFacts`: an operator's rule keeps its
  stamp, and what the cycle captured is that rule unless the rule is newer.

Every part is claimed only while `lost` does not name the write it needs, which is
exactly the exception the property makes.

`SellDecisionProofs` and `SellLedgerProofs` build on `IndInv`:

* `DecisionSellsOnce` (`SoldOncePerDecision`). Invariant `DecInv`: entry and locals
  describe the transaction they name, a foreign signature is tracked in the two foreign
  frames only, and while a decision can still lead to an order all its earlier
  transactions are spent (`SoleOrder`), so that no two of them both count (`OneSale`).
  `SoldOncePerDecision` alone is not inductive: nothing in it says that the retry comes
  after the earlier transaction is known dead.
* `RowsTruthful`, `SaleBookedOnce`, `FailedPagedOnce`, `FailedNotReplayed`. Invariant
  `LedgerInv`: a booked signature is forgotten by disk and locals, a failed entry is
  paged for once, and its decision is nobody's until it is acknowledged.
* `MarksUsedOnce` (`DisposeOneShot`). Invariant `MarkInv`: a mark is open while it is set,
  or while the stored entry or a call made under it may still sell; the settled sales and
  the open mark together never outnumber the marks placed. A step keeps that account,
  settles the open mark (`FinalizeDispose`), reopens a settled one (a crash or failed
  write that leaves a booked sale on disk; a race that declares it dead) or places a new
  one; `AccountsCover` is the counting argument for the four.

`PositionProofs`, under `PositionConstants`: `PositionTypes`, `StopIsExact`,
`ScaleOutsAreBounded`, `DisposalsFollowCrossings` and `FloorsRatchet`. `PosInv` ties the
persisted state to what was really seen of the bag: the stop streak is the number of
quotes counted (`StopCounted`), the edge detector knows no more than the history
(`EdgeSeen`), and a rung is marked before it sells, so the fired rungs bound what was sold
(`ScaleCounted`; the sum over the two rungs is worked out, as the table is concrete). A
cycle works on a copy, so the invariant says how old a copy may be: what was read differs
from the file in the edge at most, which the command line may have reset since
(`Reading`), and a decision made on the copy is one for the file as it is when it is
written (`Deciding`).
`PositionConstants` asks that prices have a highest one (Init's old trailing peak is at
it) and that the mints' policies are policies. `FloorsRatchet` assumes `Tightness <= 20`:
20 is the canonical tightness, at which the run checks the property too. The attempt to
prove it for every tightness fails for a reason: `lock_floor_multiple` puts the floor at
`peak - gap * tightness / 20`, and above 20 that falls while the peak rises between two
rungs, so the ratchet is a promise of the canonical tightness and tighter ones only.

`SpoolProofs`, under `SpoolBounds`: `SpoolTypes`, `ReportsAreDurable`
(`ReceiptsHold`), `ReceiptsAreBacked` (`ReceiptsMatchSpool`), `ReserveIsLeft`. `SpInv` says of every file
that under its final name it has its exact bytes, synced (`FilesOK`); of every call in
progress what it writes and how far it is (`Calls`, `Writes`); and of every report what
backs it (`Reports`). The strengthening that is needed there: an acknowledgement the spool
keeps has a durable one of the replica behind it (`Anchored`), otherwise another closure
of the segment could push the acknowledged bytes out after a power loss. `SpoolBounds`
asks that there are closures, finitely many, and that the mark of a spoilt cell is none.

`ReserveIsLeft` (`EvidenceLeavesReserve`) needs more than the property, which counts the
bytes on disk: they go on growing after `Reserve` was asked. The invariant `ReserveInv`
charges a segment that is being written in full from its admission on (`Charged`) and
bounds those charges; only an admission raises them, and what it adds its guard has just
counted. Around it are lemmas about sums over a finite set (take one member out, compare
member by member, compare with a part). They stand in for an induction over the set: the
fold behind a sum is described for every subset by one step (`Recurs`), and a claim about
it is followed to a smallest subset on which it fails, which exists as strict inclusion of
finite sets is well founded.

`SupervisorProofs`, under `SupervisorConstants`: `SupervisorTypes`, `OutcomesAreBacked`,
`GrantsAreKept`, `AttemptsAreDistinct`, `NothingIsDropped` (an action property) and
`ImplementsLedger`, the refinement of `AttemptLedger`. The idea of `SInv`: whatever record
a restart may come to count - a journal file memory does not count, a complete pending
file - fits the records before it (`FilesFit`), because nothing is counted while such a
file lies there except by writing over it (`Ordinals`). Around it: grants are counted
reservations, I/O is begun on record, a queued item awaits its outcome or is evidence whose
gap was sealed, and the attempt in hand is the queue's front. For the refinement each step
is shown to leave every status alone, open one attempt or settle one.

`PairingProofs`, under `PairingConstants`: `RegistryWithinLimits`, `MemoryAlwaysLive`,
`CodesExchangedOnce`, `EpochsAreClosed`, `NoOrdinalConflict` and `ImplementsOneTimeCodes`,
the refinement of `OneTimeCodes`. `PInv` relates memory and journal: no name is used twice
and the next one is new (`NamesIn`), of each kind one window is open and within its budget (`RatesIn`), and what memory holds is an occurrence without a
terminal child (`MemoryAgrees`). Every operation of the coordinator is an instance of
`Call(B)`: a batch is appended or not, only an appended one is released, and a coordinator
that cannot tell is poisoned; `CallKeeps` is the argument for all of them at once. `Start`
is proved apart: it appends the closing of everything that is live (`StartCloses`). The
refinement rests on the same two shapes: a batch has names that nothing had
(`BatchIsNew`), ends only what was usable (`BatchEndsTheLive`) and holds one occurrence at
most that is not an ending, so a call is an `Issue`, an `Exchange` or an `End`
(`CallMovesCodes`), and a start is an `End` of all there is. `CodeUsedOnce`, which
`CodesExchangedOnce` proves, is the part of `PInv` that says the same of the history: what
was granted stems from a code that was shown, and no two grants from one.

Each inductive invariant was checked with TLC on the instance of its component's run (or a
smaller one) before it was proved. Where a least element is needed, of a set of naturals
or among subsets, it comes from `WFMin`, which has no operator parameter.

Only model-checked, because the prover cannot reach them: `ProcessReturns`,
`HeldGetsRule`, `Replicated`, `EveryAttemptSettled` and `ServesAgain`, liveness under
fairness. Every other property of a passing run is a theorem.

## Not modelled

`PROJECT.json` lists every component. The modelled ones are the parts of the
repository that keep durable state through failures; they are a small share of its
lines. Most of the rest (`joshibot/studies`, `research`, the recorders and viewers,
`joshi/analysis`, the registries, document types and validators of the joshi crates,
the user interfaces) is analysis of recorded data or pure functions of one input,
with no state of its own that a sequence of steps could spoil; a module per script
would restate arithmetic that its unit tests already compute.

Within the exit path: failed writes outside `_finalize_confirmed` (the journal write
after "already filled", a full disk at the `submitting` write), malformed intents, a
`--panic` process beside a running server, the splitting of the simulation into
chunks. Of lots and policies: generations (they key a cooldown and message
deduplication), the grace of a default stop (default rules have none), payload
validation, hand edits of `config.yaml` while the process runs, failed writes. Of
the position rules: decimal rounding, several pairs and reserve units of one mint,
`runner_floor_multiple` (displayed only). Of the spool: encryption and nonces, entry
bounds, the daily byte budget, the generation of a replica; quarantine is one step.
Of the supervisor: budgets, the provider runner, the checks of documents, the
contents of the health snapshot, several operations at once (they share only the
queue and the journal's order). Of pairing: `restart_now` and `expire_now`, which
the core does not call; a wall clock set back between two runs, which refuses the
start; colliding secrets; the route's header checks.

## Plan

1. Every safety property and refinement of the passing runs is proved. Next: the
   lemmas that several proofs share and could be stated once (the shapes of updated
   records, sums over a finite set, the least element of a set of naturals), and shorter
   arguments where a proof enumerates what a step abstraction like `Call(B)` or `Accounts`
   could carry.
2. The bridges between modules as theorems: what `PositionRules` assumes of a sale (it
   happens whole or is refused) and what `Supervisor` assumes of a segment put.
3. The exit path with two processes (`--panic` beside the server) and with write
   failures everywhere.
