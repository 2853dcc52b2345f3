------------------------------ MODULE Pairing ------------------------------
(***************************************************************************)
(* Ordinary pairing: the coordinator of apps/core/src/pairing.rs, the       *)
(* registry of joshi-pairing it holds in memory and the occurrence journal  *)
(* of joshi-store (g0.rs and the triggers of migration 0010).               *)
(*                                                                          *)
(* A code is issued to the launcher, exchanged once for a session, and the  *)
(* session authorises requests until it expires or is revoked. Every change *)
(* is made in memory, then appended to the journal; only then is a secret   *)
(* released. A failed append poisons the coordinator until it is reopened,  *)
(* and a reopen begins a new epoch that closes whatever is still live.      *)
(*                                                                          *)
(* Each call runs under one lock. The process clock derives the wall time   *)
(* from the monotonic one, so a single time serves for both. An occurrence  *)
(* is named by its epoch and ordinal, a code by its issued occurrence and a *)
(* session by its consumed one. Secrets never collide.                      *)
(***************************************************************************)
EXTENDS Integers, FiniteSets, FiniteSetsExt, SequencesExt

CONSTANTS
    MaxCodes, MaxSessions,      \* max_active_codes, max_live_sessions
    MaxFailed, MaxIssued,       \* max_failed_attempts, max_issued_per_window
    CodeTtl, SessionTtl, AttemptWindow, IssueWindow,
    MaxTime, MaxFaults          \* model bounds; a crash is a fault too

ASSUME PairingConstants ==
    {MaxCodes, MaxSessions, MaxFailed, MaxIssued, CodeTtl, SessionTtl, AttemptWindow,
     IssueWindow} \subseteq Nat \ {0}

None == <<0, 0>>     \* no occurrence: epochs start at 1

VARIABLES
    now,
    status,             \* "down", "up" or "poisoned"
    codes, sessions,    \* the registry's live codes and sessions: [id, exp]
    att, iss,           \* its attempt and issue windows: [used, id, deadline, until]
    ord,                \* next_ordinal
    epoch, journal,     \* the store: the active epoch and every occurrence
    shown, granted,     \* the codes and capabilities that were released
    why,                \* why the coordinator was poisoned
    faults

registry == <<codes, sessions, att, iss, ord>>
vars == <<now, status, registry, epoch, journal, shown, granted, why, faults>>

Occurrence(kind, id, pred, exp) ==
    [kind |-> kind, id |-> id, pred |-> pred, at |-> now, exp |-> exp,
     window |-> None, until |-> 0, nth |-> 0]
IdOf(S) == {x.id : x \in S}

-----------------------------------------------------------------------------
(***************************************************************************)
(* The store.                                                               *)
(***************************************************************************)
Terminal == {"consumed", "expired", "revoked", "invalidated"}
\* What has no terminal child.
Live == {e \in journal : e.kind \in {"issued", "consumed"}
                             /\ ~ \E c \in journal : c.kind \in Terminal /\ c.pred = e.id}

\* The fixed window that is open for a kind of occurrence: the first one opens it.
InOpenWindow(kind) == {e \in journal : e.kind = kind /\ now < e.until}

\* append_pairing_occurrences_v1: "none", or what it refuses a batch for.
ForeignWindow(o) ==
    \/ o.window \notin (IF InOpenWindow(o.kind) = {} THEN {o.id}
                        ELSE {e.window : e \in InOpenWindow(o.kind)})
    \/ \E e \in InOpenWindow(o.kind) : e.until # o.until
BudgetSpent(o) ==
    LET used == Cardinality({e \in journal : e.kind = o.kind /\ e.window = o.window})
    IN  \/ used >= (IF o.kind = "issued" THEN MaxIssued ELSE MaxFailed)
        \/ o.kind = "rejected" /\ o.nth # used + 1
Refusal(batch) ==
    LET rated == {o \in batch : o.kind \in {"issued", "rejected"}} IN
    IF \E o \in batch : o.id[1] # epoch \/ (o.pred # None /\
           ~ \E p \in journal : p.id = o.pred /\ p.id[1] = epoch /\ p.at <= o.at)
    THEN "predecessor"
    ELSE IF \E o \in batch, e \in journal : o.at < e.at THEN "clock"
    ELSE IF \E o \in rated : ForeignWindow(o) THEN "window"
    ELSE IF \E o \in rated : BudgetSpent(o) THEN "budget"
    ELSE IF \E o \in batch : o.id \in IdOf(journal) \/ (o.pred # None /\ o.pred \notin IdOf(Live))
    THEN "identity"
    ELSE "none"

\* Mutant: what was to be released is released with the error too.
PersistReleases(batch, released, dropped) ==
    /\ status' = "poisoned" /\ why' = "fault"
    /\ journal' \in {journal, journal \union batch}
    /\ released
    /\ UNCHANGED faults

\* persist_exact: append a batch and read it back. A fault is an append that
\* fails, or one that commits and is not seen to.
Persist(batch, released, dropped) ==
    LET refusal == Refusal(batch)
        failed(reason) == status' = "poisoned" /\ why' = reason /\ dropped
    IN  \/ /\ batch = {} \/ refusal = "none"
           /\ journal' = journal \union batch
           /\ released
           /\ UNCHANGED <<status, why, faults>>
        \/ /\ batch # {} /\ refusal # "none"
           /\ failed(refusal)
           /\ UNCHANGED <<journal, faults>>
        \/ /\ batch # {} /\ refusal = "none" /\ faults < MaxFaults
           /\ faults' = faults + 1
           /\ journal' \in {journal, journal \union batch}
           /\ failed("fault")

-----------------------------------------------------------------------------
(***************************************************************************)
(* The registry.                                                            *)
(***************************************************************************)
\* expire: what is left, and the occurrences of what is not.
Unexpired(S) == {x \in S : x.exp > now}
Expired == (codes \union sessions) \ Unexpired(codes \union sessions)
Expiries == LET s == SetToSeq(Expired) IN
            {Occurrence("expired", <<epoch, ord + i>>, s[i].id, 0) : i \in DOMAIN s}
NextOrd == ord + Cardinality(Expired)
NextId == <<epoch, NextOrd + 1>>

\* check_attempt_window, check_issue_window: a window that is over starts again at
\* this call, and is named by the first occurrence that counts.
Closed(at) == [used |-> 0, id |-> None, deadline |-> at, until |-> 0]
Current(w, length) == IF now >= w.deadline THEN Closed(now + length) ELSE w
Opened(w, id, length) ==
    IF w.id # None THEN w ELSE [w EXCEPT !.id = id, !.until = now + length]
InWindow(o, w) == [o EXCEPT !.window = w.id, !.until = w.until, !.nth = w.used]

\* A call that returns an error: the expired are gone from memory, and what was
\* to be journaled of them is dropped.
ExpireOnly ==
    /\ codes' = Unexpired(codes) /\ sessions' = Unexpired(sessions)
    /\ ord' = NextOrd
    /\ UNCHANGED <<status, journal, shown, granted, why, faults>>

\* issue_code: a code is released once its occurrence is durable.
Issue ==
    LET w == Current(iss, IssueWindow)
        o == Opened(w, NextId, IssueWindow)
        new == InWindow(Occurrence("issued", NextId, None, now + CodeTtl), o)
        free == w.used < MaxIssued /\ Cardinality(Unexpired(codes)) < MaxCodes
    IN  /\ status = "up"
        /\ \/ ~ free /\ ExpireOnly /\ iss' = w
           \/ /\ free
              /\ iss' = [o EXCEPT !.used = @ + 1]
              /\ ord' = NextOrd + 1
              /\ sessions' = Unexpired(sessions)
              /\ Persist(Expiries \union {new},
                     /\ codes' = Unexpired(codes) \union {[id |-> NextId, exp |-> now + CodeTtl]}
                     /\ shown' = shown \union {NextId},
                     codes' = Unexpired(codes) /\ UNCHANGED shown)
              /\ UNCHANGED granted
           \/ /\ free /\ faults < MaxFaults /\ faults' = faults + 1     \* no entropy
              /\ iss' = w /\ ord' = NextOrd + 1
              /\ codes' = Unexpired(codes) /\ sessions' = Unexpired(sessions)
              /\ UNCHANGED <<status, journal, shown, granted, why>>
        /\ UNCHANGED <<now, att, epoch>>

CountedAlways(w) == w.used + 1     \* mutant
Counted(w) == Min({w.used + 1, MaxFailed})
LeftAll(code) == Unexpired(codes)     \* mutant
Left(code) == {c \in Unexpired(codes) : c.id # code}

\* consume_now and reject_attempt_now: an attempt that does not exchange is
\* counted, up to the limit, and journaled.
Reject(w) ==
    LET o == [Opened(w, NextId, AttemptWindow) EXCEPT !.used = Counted(w)]
    IN  /\ att' = o
        /\ ord' = NextOrd + 1
        /\ codes' = Unexpired(codes) /\ sessions' = Unexpired(sessions)
        /\ Persist(Expiries \union {InWindow(Occurrence("rejected", NextId, None, 0), o)},
                   TRUE, TRUE)
        /\ UNCHANGED <<shown, granted>>

Consume(w, code) ==
    /\ att' = w
    /\ ord' = NextOrd + 1
    /\ codes' = Left(code)
    /\ \/ /\ Persist(Expiries \union {Occurrence("consumed", NextId, code, now + SessionTtl)},
              /\ sessions' = Unexpired(sessions) \union {[id |-> NextId, exp |-> now + SessionTtl]}
              /\ granted' = granted \union {NextId},
              sessions' = Unexpired(sessions) /\ UNCHANGED granted)
       \/ /\ faults < MaxFaults /\ faults' = faults + 1     \* no entropy: the code is gone
          /\ sessions' = Unexpired(sessions)
          /\ UNCHANGED <<status, journal, why, granted>>
    /\ UNCHANGED shown

\* exchange: with a code that was shown, or with anything else.
Exchange ==
    LET w == Current(att, AttemptWindow) IN
    /\ status = "up"
    /\ \E code \in shown \union {None} :
           LET found == code \in IdOf(Unexpired(codes))
               spent == w.used >= MaxFailed
               full == Cardinality(Unexpired(sessions)) >= MaxSessions
           IN  \/ ~ found /\ spent /\ ExpireOnly /\ att' = w
               \/ ~ found /\ ~ spent /\ Reject(w)
               \/ found /\ (spent \/ full) /\ Reject(w)
               \/ found /\ ~ spent /\ ~ full /\ Consume(w, code)
    /\ UNCHANGED <<now, iss, epoch>>

\* authorize: whatever it answers, what expired at this sample is journaled first.
Authorize ==
    /\ status = "up"
    /\ codes' = Unexpired(codes) /\ sessions' = Unexpired(sessions)
    /\ ord' = NextOrd
    /\ Persist(Expiries, TRUE, TRUE)
    /\ UNCHANGED <<now, att, iss, epoch, shown, granted>>

\* revoke_session: the session is gone whether or not the journal takes it. One
\* that has expired is recorded as such; nothing else expires here.
Revoke ==
    /\ status = "up"
    /\ \E s \in sessions :
           /\ sessions' = sessions \ {s}
           /\ Persist({Occurrence(IF s.exp <= now THEN "expired" ELSE "revoked",
                                  <<epoch, ord + 1>>, s.id, 0)}, TRUE, TRUE)
    /\ ord' = ord + 1
    /\ UNCHANGED <<now, codes, att, iss, epoch, shown, granted>>

-----------------------------------------------------------------------------
(***************************************************************************)
(* Opening, closing, time.                                                  *)
(***************************************************************************)
\* bootstrap_window: the store's open window, with what it has used.
Bootstrap(kind) ==
    LET used == InOpenWindow(kind) IN
    IF used = {} THEN Closed(now)
    ELSE LET e == CHOOSE e \in used : TRUE IN
         [used |-> Cardinality(used), id |-> e.window, deadline |-> e.until, until |-> e.until]

\* begin_pairing_epoch_v1: everything live is closed under the new epoch, and the
\* registry goes on counting after that.
Closing(S) ==
    LET s == SetToSeq(S) IN
    {Occurrence("invalidated", <<epoch + 1, i>>, s[i].id, 0) : i \in DOMAIN s}
ClosingCodes == Closing({e \in Live : e.kind = "issued"})     \* mutant
Invalidations == Closing(Live)
SeedZero == 0     \* mutant
SeedOrdinal == Cardinality(Live)

\* initialize_durable. A start that finds more to close than the limits allow, or
\* whose answer is lost, has begun its epoch and does not serve.
BeginEpoch ==
    /\ status = "down"
    /\ epoch' = epoch + 1
    /\ journal' = journal \union Invalidations
    /\ why' = "none"
    /\ UNCHANGED <<now, codes, sessions, shown, granted>>
Fits == Cardinality(Live) <= MaxCodes + MaxSessions
Serve ==
    /\ status' = "up"
    /\ ord' = SeedOrdinal
    /\ att' = Bootstrap("rejected") /\ iss' = Bootstrap("issued")
    /\ UNCHANGED faults
\* Mutant: a start that is refused takes its epoch back.
StartRollsBack == \/ BeginEpoch /\ Fits /\ Serve
                  \/ status = "down" /\ ~ Fits /\ UNCHANGED vars
Start ==
    /\ BeginEpoch
    /\ \/ Fits /\ Serve
       \/ ~ Fits /\ UNCHANGED <<status, ord, att, iss, faults>>
       \/ /\ faults < MaxFaults /\ faults' = faults + 1
          /\ UNCHANGED <<status, ord, att, iss>>

\* The process ends: what was in memory is gone.
Forgotten == codes' = {} /\ sessions' = {} /\ att' = Closed(0) /\ iss' = Closed(0) /\ ord' = 0
Crash ==
    /\ status = "up" /\ faults < MaxFaults
    /\ faults' = faults + 1
    /\ status' = "down" /\ Forgotten
    /\ UNCHANGED <<now, epoch, journal, shown, granted, why>>
Reopen ==
    /\ status = "poisoned"
    /\ status' = "down" /\ Forgotten
    /\ UNCHANGED <<now, epoch, journal, shown, granted, why, faults>>

Tick ==
    /\ now < MaxTime /\ now' = now + 1
    /\ UNCHANGED <<status, registry, epoch, journal, shown, granted, why, faults>>

Init ==
    /\ now = 0 /\ status = "down"
    /\ codes = {} /\ sessions = {} /\ att = Closed(0) /\ iss = Closed(0) /\ ord = 0
    /\ epoch = 0 /\ journal = {} /\ shown = {} /\ granted = {}
    /\ why = "none" /\ faults = 0

Next == Issue \/ Exchange \/ Authorize \/ Revoke \/ Start \/ Crash \/ Reopen \/ Tick

Spec == Init /\ [][Next]_vars

\* A poisoned coordinator is reopened, and a start is tried again.
FairSpec == Spec /\ WF_vars(Start) /\ WF_vars(Reopen)

-----------------------------------------------------------------------------
(***************************************************************************)
(* Properties.                                                              *)
(***************************************************************************)
\* Types, and the limits of the registry: never more live codes, sessions, issues
\* or failures of a window than the configuration allows.
PairingTypeOK ==
    /\ status \in {"down", "up", "poisoned"}
    /\ Cardinality(codes) <= MaxCodes /\ Cardinality(sessions) <= MaxSessions
    /\ att.used \in 0..MaxFailed /\ iss.used \in 0..MaxIssued
    /\ \A w \in {att, iss} : w.id = None <=> w.until = 0
    /\ ord \in Nat /\ epoch \in Nat
    /\ None \notin shown \union granted

\* A serving registry and the journal agree: every code and session in memory is
\* a live occurrence of the current epoch with the same expiry, whatever was
\* lost, committed unseen, dropped with an error or left by an earlier epoch. So
\* no capability is accepted that the journal says is over.
MemoryIsLive ==
    status = "up" =>
        \A x \in codes \union sessions :
            \E e \in Live :
                /\ e.id = x.id /\ e.exp = x.exp /\ e.id[1] = epoch
                /\ e.kind = (IF x \in codes THEN "issued" ELSE "consumed")

\* What was released is durable, and a code was released to one session only:
\* every capability stems from a code that was shown, and no two from the same.
CodeUsedOnce ==
    /\ shown \subseteq IdOf({e \in journal : e.kind = "issued"})
    /\ \A c \in granted : \E e \in journal :
           /\ e.kind = "consumed" /\ e.id = c /\ e.pred \in shown
           /\ \A d \in journal : d.kind = "consumed" /\ d.pred = e.pred => d = e

\* The journal as a ledger of one-time codes: what has a terminal child is over.
OpenCodes == IdOf({e \in Live : e.kind = "issued"})
LiveSessions == IdOf({e \in Live : e.kind = "consumed"})
Over == IdOf({e \in journal : e.kind \in {"issued", "consumed"}}) \ IdOf(Live)
Codes == INSTANCE OneTimeCodes
             WITH open <- OpenCodes, live <- LiveSessions, past <- Over,
                  released <- shown \union granted
\* A code is recorded before it is shown, exchanged once at most and only while it
\* is open, and what is over stays over: through expiries dropped with an error,
\* batches committed unseen, crashes between any two calls and new epochs.
CodesAreOneTime == Codes!Spec

\* While a coordinator serves, nothing of an earlier epoch is live in the journal
\* (begin_pairing_epoch_v1 closes even what was committed and never seen to be).
OldEpochsClosed == status = "up" => \A e \in Live : e.id[1] = epoch

\* The journal refuses the coordinator's own occurrences for their rate window or
\* budget only: no name is used twice, no predecessor is missing or already
\* closed, and time never runs backwards, across restarts and lost appends.
RefusedForRateOnly == why \in {"none", "fault", "window", "budget"}

\* A coordinator that is down or poisoned serves again, although a start may be
\* refused because dropped expiries left too much to close.
ServesAgain == [](status # "up" => <>(status = "up"))

=============================================================================
